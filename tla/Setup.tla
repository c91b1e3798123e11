-------------------------------- MODULE Setup --------------------------------
(***************************************************************************)
(* The commands that write the setup, each in a process of its own: init   *)
(* (internal/cmd/initcmd), set-credential, config clear, and any command   *)
(* whose session saves a refreshed token. The setup is the configuration   *)
(* file together with the credential at the place it refers to; no command *)
(* locks either, and every one reads, waits and writes in separate steps.  *)
(*                                                                         *)
(* The store is not part of the repository: each of its operations is      *)
(* taken to be one step that succeeds or fails without effect, Set without *)
(* WithOverwrite refusing a place that is taken.                           *)
(***************************************************************************)
EXTENDS Naturals, FiniteSets

CONSTANTS
    Processes,
    Clients,      \* Spotify client ids
    Backends,     \* credential backends
    Profiles,     \* profiles of a credential reference
    DefaultPlace, \* where the credential is kept by default
    NoClient,     \* no client id
    NoProcess     \* who brought what was there to begin with

Places == Backends \X Profiles

ASSUME DefaultPlaceAssumption == DefaultPlace \in Places
ASSUME NoClientAssumption == NoClient \notin Clients
ASSUME NoProcessAssumption == NoProcess \notin Processes

VARIABLES
    store,     \* the credential at every place
    config,    \* the configuration file
    cache,     \* the cache directory exists
    pc,        \* where each process is
    order,     \* the command it runs and what it was asked
    found,     \* Exists said that the place is taken
    held,      \* the credential it read or obtained
    previous,  \* the one init read for a rollback
    status,    \* what config clear reports of each of its targets
    outcome,   \* how the process ended
    before,    \* store and config when the process began (history)
    alone,     \* nobody else has written either since (history)
    lost       \* credentials of others it replaced or removed (history)

setup == <<store, config, cache>>
process == <<pc, order, found, held, previous, status, outcome>>
history == <<before, alone, lost>>
vars == <<setup, process, history>>

\* A credential: the client id it was issued to, and the process that brought
\* it there; a refresh makes it another.
Credentials == [client : Clients, by : Processes \cup {NoProcess}]
None == [client |-> NoClient, by |-> NoProcess]

Configs == [client : Clients, place : Places]
NoConfig == [client |-> NoClient, place |-> DefaultPlace]

\* A file that Load rejects, and the place such a file refers to
NoPlace == <<>>
Unreadable == [client |-> NoClient, place |-> NoPlace]

\* Without the flag, an interactive setup that changes the backend overwrites too.
InitOrders == [kind : {"init"}, config : Configs, place : Places,
               overwrite : BOOLEAN]
SetOrders == [kind : {"set"}, place : Places, overwrite : BOOLEAN]
ClearOrders == [kind : {"clear"}, place : Places \cup {NoPlace}, all : BOOLEAN, dryRun : BOOLEAN]
SessionOrders == [kind : {"session"}, place : Places]
NoOrder == [kind |-> "none", place |-> DefaultPlace]

Statuses == {"none", "skipped", "absent", "removed", "failed", "would_remove"}
Targets == {"credential", "config", "cache"}

TypeOK ==
    /\ store \in [Places -> Credentials \cup {None}]
    /\ config \in Configs \cup {NoConfig, Unreadable}
    /\ cache \in BOOLEAN
    /\ pc \in [Processes -> {"idle", "exists", "get", "authorize", "set", "save",
                             "rollback", "delete", "config", "cache", "persist",
                             "done", "crashed"}]
    /\ \A p \in Processes : order[p] \in InitOrders \cup SetOrders
                                \cup ClearOrders \cup SessionOrders \cup {NoOrder}
    /\ found \in [Processes -> BOOLEAN]
    /\ held \in [Processes -> Credentials \cup {None}]
    /\ previous \in [Processes -> Credentials \cup {None}]
    /\ status \in [Processes -> [Targets -> Statuses]]
    /\ outcome \in [Processes -> {"none", "ok", "unwritten", "failed", "stuck"}]
    /\ alone \in [Processes -> BOOLEAN]
    /\ lost \in [Processes -> SUBSET Credentials]

Init ==
    /\ config \in {NoConfig, Unreadable} \cup [client : Clients, place : {DefaultPlace}]
    /\ store \in [Places -> {None} \cup [client : Clients, by : {NoProcess}]]
    /\ cache \in BOOLEAN
    /\ pc = [p \in Processes |-> "idle"]
    /\ order = [p \in Processes |-> NoOrder]
    /\ found = [p \in Processes |-> FALSE]
    /\ held = [p \in Processes |-> None]
    /\ previous = [p \in Processes |-> None]
    /\ status = [p \in Processes |-> [t \in Targets |-> "none"]]
    /\ outcome = [p \in Processes |-> "none"]
    /\ before = [p \in Processes |-> [store |-> store, config |-> config]]
    /\ alone = [p \in Processes |-> TRUE]
    /\ lost = [p \in Processes |-> {}]

------------------------------------------------------------------------------
(* Steps common to the commands *)

Place(p) == order[p].place

Goto(p, where) ==
    /\ pc' = [pc EXCEPT ![p] = where]
    /\ UNCHANGED outcome

End(p, how) ==
    /\ pc' = [pc EXCEPT ![p] = "done"]
    /\ outcome' = [outcome EXCEPT ![p] = how]

\* What was to be done is done; the confirmation of it may still not be written.
Succeed(p) == \E how \in {"ok", "unwritten"} : End(p, how)

\* p writes: whoever began before is no longer alone.
Disturb(p) ==
    alone' = [q \in Processes |-> alone[q] /\ (q = p \/ pc[q] = "idle")]

\* p puts credential c (or None) at its place
Put(p, c) ==
    /\ store' = [store EXCEPT ![Place(p)] = c]
    /\ lost' = [lost EXCEPT ![p] = @ \cup ({store[Place(p)]} \ {None, held[p], c})]
    /\ Disturb(p)
    /\ UNCHANGED <<config, cache, before>>

KeepSetup == UNCHANGED <<setup, history>>

Begin(p, what, where) ==
    /\ pc[p] = "idle"
    /\ order' = [order EXCEPT ![p] = what]
    /\ before' = [before EXCEPT ![p] = [store |-> store, config |-> config]]
    /\ Goto(p, where)
    /\ UNCHANGED <<setup, found, previous, status, alone, lost>>

\* config.Load: a command that needs the configuration fails before it does
\* anything else.
LoadFails(p) ==
    /\ pc[p] = "idle" /\ config = Unreadable
    /\ End(p, "failed")
    /\ UNCHANGED <<order, found, held, previous, status>> /\ KeepSetup

\* The process is killed.
Crash(p) ==
    /\ pc[p] \notin {"idle", "done", "crashed"}
    /\ Goto(p, "crashed")
    /\ UNCHANGED <<order, found, held, previous, status>> /\ KeepSetup

------------------------------------------------------------------------------
(* init: run of init.go and Initializer.Initialize *)

\* What the flags and the prompt make of the configuration loaded is any
\* configuration; the prompt's backend goes into it, --backend too.
BeginInit(p) ==
    \E c \in Configs, flag, interactive \in BOOLEAN :
        /\ config # Unreadable
        /\ Begin(p, [kind |-> "init", config |-> c, place |-> c.place,
                     overwrite |-> flag \/ (interactive /\
                                            c.place[1] # config.place[1])],
                 "exists")
        /\ UNCHANGED held

InitExists(p) ==
    /\ pc[p] = "exists" /\ order[p].kind = "init"
    /\ found' = [found EXCEPT ![p] = store[Place(p)] # None]
    /\ IF ~found'[p] THEN Goto(p, "authorize")
       ELSE IF order[p].overwrite THEN Goto(p, "get") ELSE End(p, "failed")
    /\ UNCHANGED <<order, held, previous, status>> /\ KeepSetup

\* Opening the store or one of its reads fails.
InitFails(p) ==
    /\ order[p].kind = "init" /\ pc[p] \in {"exists", "get"}
    /\ End(p, "failed")
    /\ UNCHANGED <<order, found, held, previous, status>> /\ KeepSetup

InitGet(p) ==
    /\ pc[p] = "get"
    /\ previous' = [previous EXCEPT ![p] = store[Place(p)]]
    /\ IF store[Place(p)] # None THEN Goto(p, "authorize") ELSE End(p, "failed")
    /\ UNCHANGED <<order, found, held, status>> /\ KeepSetup

\* The user authorizes in the browser and the identity is verified, or not.
InitAuthorize(p) ==
    /\ pc[p] = "authorize"
    /\ \/ /\ held' = [held EXCEPT ![p] = [client |-> order[p].config.client, by |-> p]]
          /\ Goto(p, "set")
       \/ /\ End(p, "failed")
          /\ UNCHANGED held
    /\ UNCHANGED <<order, found, previous, status>> /\ KeepSetup

\* Mutant: Set always overwrites.
SetAnyway(p) == TRUE

MaySet(p) == order[p].overwrite \/ store[Place(p)] = None

\* Mutant: the setup goes on without the credential.
SaveAnyway(p) ==
    /\ pc[p] = "set" /\ order[p].kind = "init"
    /\ \/ MaySet(p) /\ Put(p, held[p])
       \/ KeepSetup
    /\ Goto(p, "save")
    /\ UNCHANGED <<order, found, held, previous, status>>

InitSet(p) ==
    /\ pc[p] = "set" /\ order[p].kind = "init"
    /\ \/ /\ MaySet(p)
          /\ Put(p, held[p])
          /\ Goto(p, "save")
       \/ /\ End(p, "failed") /\ KeepSetup
    /\ UNCHANGED <<order, found, held, previous, status>>

\* config.Save renames a complete file into place, or fails.
InitSave(p) ==
    /\ pc[p] = "save"
    /\ \/ /\ config' = order[p].config
          /\ Disturb(p) /\ Succeed(p)
          /\ UNCHANGED <<store, cache, before, lost>>
       \/ Goto(p, "rollback") /\ KeepSetup
    /\ UNCHANGED <<order, found, held, previous, status>>

\* Mutant: rollbackCredential deletes whatever was there before.
AlwaysDelete(p) == None

RollbackTo(p) == IF found[p] THEN previous[p] ELSE None

InitRollback(p) ==
    /\ pc[p] = "rollback"
    /\ \/ Put(p, RollbackTo(p)) /\ End(p, "failed")
       \/ KeepSetup /\ End(p, "stuck")
    /\ UNCHANGED <<order, found, held, previous, status>>

------------------------------------------------------------------------------
(* set-credential, and a session that saves a refreshed token *)

BeginSet(p) ==
    \E place \in Places, overwrite \in BOOLEAN, client \in Clients :
        /\ config # Unreadable
        /\ Begin(p, [kind |-> "set", place |-> place, overwrite |-> overwrite],
                 "set")
        /\ held' = [held EXCEPT ![p] = [client |-> client, by |-> p]]

SetCredential(p) ==
    /\ pc[p] = "set" /\ order[p].kind = "set"
    /\ \/ MaySet(p) /\ Put(p, held[p]) /\ Succeed(p)
       \/ KeepSetup /\ End(p, "failed")
    /\ UNCHANGED <<order, found, held, previous, status>>

\* Where the configuration says, in the backend of --backend if that is given
ActivePlaces == IF config = Unreadable THEN {NoPlace}
                ELSE {<<backend, config.place[2]>> : backend \in Backends}

BeginSession(p) ==
    \E place \in ActivePlaces :
        /\ config \notin {NoConfig, Unreadable} /\ store[place] # None
        /\ Begin(p, [kind |-> "session", place |-> place], "persist")
        /\ held' = [held EXCEPT ![p] = store[place]]

\* The refreshed credential takes the place of the one read, or of any other.
SessionPersists(p) ==
    /\ pc[p] = "persist"
    /\ \/ Put(p, [held[p] EXCEPT !.by = p]) /\ End(p, "ok")
       \/ KeepSetup /\ End(p, "failed")
    /\ UNCHANGED <<order, found, held, previous, status>>

------------------------------------------------------------------------------
(* config clear *)

\* Only clear --all goes on without a configuration it can read.
BeginClear(p) ==
    \E place \in ActivePlaces, all, dryRun \in BOOLEAN :
        /\ place = NoPlace => all
        /\ Begin(p, [kind |-> "clear", place |-> place, all |-> all,
                     dryRun |-> dryRun], "exists")
        /\ UNCHANGED held

Reported(p, target, what) ==
    status' = [status EXCEPT ![p] = [@ EXCEPT ![target] = what]]

\* The credential has been dealt with: without --all that is the end.
AfterCredential(p, what) ==
    /\ Reported(p, "credential", what)
    /\ IF order[p].all THEN Goto(p, "config")
       ELSE IF what \in {"failed", "skipped"} THEN End(p, "failed") ELSE Succeed(p)

\* The place is not known, or --dry-run does not look at it; otherwise the store
\* cannot be opened or asked, or says whether there is a credential.
ClearExists(p) ==
    /\ pc[p] = "exists" /\ order[p].kind = "clear"
    /\ IF Place(p) = NoPlace THEN AfterCredential(p, "skipped")
       ELSE IF order[p].dryRun THEN AfterCredential(p, "would_remove")
       ELSE \/ \E what \in {"skipped", "failed"} : AfterCredential(p, what)
            \/ store[Place(p)] = None /\ AfterCredential(p, "absent")
            \/ store[Place(p)] # None /\ Goto(p, "delete") /\ UNCHANGED status
    /\ UNCHANGED <<order, found, held, previous>> /\ KeepSetup

\* Mutant: a failed Delete is reported as done.
RemovedAnyway(p) ==
    /\ pc[p] = "delete"
    /\ \/ Put(p, None)
       \/ KeepSetup
    /\ AfterCredential(p, "removed")
    /\ UNCHANGED <<order, found, held, previous>>

ClearDelete(p) ==
    /\ pc[p] = "delete"
    /\ \/ Put(p, None) /\ AfterCredential(p, "removed")
       \/ KeepSetup /\ AfterCredential(p, "failed")
    /\ UNCHANGED <<order, found, held, previous>>

\* fileAction
FileStatuses(exists, dryRun) ==
    {"failed"} \cup (IF ~exists THEN {"absent"}
                     ELSE IF dryRun THEN {"would_remove"} ELSE {"removed"})

ClearConfig(p) ==
    /\ pc[p] = "config"
    /\ \E what \in FileStatuses(config # NoConfig, order[p].dryRun) :
         /\ Reported(p, "config", what)
         /\ IF what = "removed"
              THEN config' = NoConfig /\ Disturb(p)
              ELSE UNCHANGED <<config, alone>>
    /\ Goto(p, "cache")
    /\ UNCHANGED <<store, cache, order, found, held, previous, before, lost>>

ClearCache(p) ==
    /\ pc[p] = "cache"
    /\ \E what \in FileStatuses(cache, order[p].dryRun) :
         /\ Reported(p, "cache", what)
         /\ cache' = (cache /\ what # "removed")
         /\ IF \E t \in Targets : status'[p][t] \in {"failed", "skipped"}
              THEN End(p, "failed") ELSE Succeed(p)
    /\ UNCHANGED <<store, config, order, found, held, previous, history>>

------------------------------------------------------------------------------

InitCommand(p) ==
    \/ BeginInit(p) \/ InitFails(p) \/ InitExists(p) \/ InitGet(p)
    \/ InitAuthorize(p) \/ InitSet(p) \/ InitSave(p) \/ InitRollback(p)

ClearCommand(p) ==
    BeginClear(p) \/ ClearExists(p) \/ ClearDelete(p) \/ ClearConfig(p) \/ ClearCache(p)

OtherCommands(p) ==
    BeginSet(p) \/ SetCredential(p) \/ BeginSession(p) \/ SessionPersists(p)

Finished == UNCHANGED vars /\ \A p \in Processes : pc[p] \in {"done", "crashed"}

Next ==
    \/ \E p \in Processes :
         InitCommand(p) \/ ClearCommand(p) \/ OtherCommands(p)
         \/ LoadFails(p) \/ Crash(p)
    \/ Finished

Spec == Init /\ [][Next]_vars

------------------------------------------------------------------------------
(* Properties *)

Unchanged(p) == store = before[p].store /\ config = before[p].config

Complete(p) ==
    /\ store = [before[p].store EXCEPT ![Place(p)] = held[p]]
    /\ config = order[p].config

\* An init that nobody disturbed has set up both the credential and the
\* configuration when it says so, or when only saying so fails; when it fails
\* before, wherever that is, it has left both as they were: unless the rollback
\* failed too, which it then reports.
InitAllOrNothing ==
    \A p \in Processes : order[p].kind = "init" /\ alone[p] =>
        /\ outcome[p] \in {"ok", "unwritten"} => Complete(p)
        /\ outcome[p] = "failed" => Unchanged(p)

\* Wherever an init that nobody disturbed stands, is killed or cannot go on, the
\* configuration is never ahead of the credential it refers to: half a setup is a
\* new credential under the old configuration, never the other way round, and no
\* other place is touched.
CredentialComesFirst ==
    \A p \in Processes : order[p].kind = "init" /\ alone[p] =>
        /\ config # before[p].config => Complete(p)
        /\ store \in {before[p].store, [before[p].store EXCEPT ![Place(p)] = held[p]]}

\* What config clear reports of the credential and the configuration is what it did,
\* if nobody disturbed it, and it touched no other place; and when it exits without
\* an error, nothing of what it was to remove is left.
ClearAsReported ==
    \A p \in Processes :
        order[p].kind = "clear" /\ alone[p] /\ pc[p] = "done" =>
            /\ store = [q \in Places |->
                          IF q = Place(p) /\ status[p]["credential"] \in {"removed", "absent"}
                            THEN None ELSE before[p].store[q]]
            /\ config = IF status[p]["config"] \in {"removed", "absent"}
                          THEN NoConfig ELSE before[p].config
            /\ order[p].dryRun => Unchanged(p)
            /\ outcome[p] # "failed" /\ ~order[p].dryRun =>
                 /\ store[Place(p)] = None
                 /\ order[p].all => config = NoConfig /\ ~cache

\* Unless it may overwrite, a command never costs anybody a credential: what a
\* second init, a set-credential or a refresh stored since it looked is safe from
\* its Set; only an init that undoes its own Set can hit a credential that was
\* stored over its own in between.
NoUninvitedLoss ==
    \A p \in Processes :
        order[p].kind \in {"init", "set"} /\ ~order[p].overwrite /\ lost[p] # {}
            => order[p].kind = "init" /\ outcome[p] = "failed" /\ ~alone[p]
=============================================================================
