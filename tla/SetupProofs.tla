----------------------------- MODULE SetupProofs -----------------------------
(***************************************************************************)
(* init, set-credential and config clear keep their promises, for any      *)
(* number of processes, clients and places. The argument: what a process   *)
(* that nobody disturbed finds in the store and the configuration file is  *)
(* what was there when it began, but for its own writes, which its place   *)
(* in the command determines; and a step of another process either writes  *)
(* neither or ends the undisturbed time. The last part is about Authorize, *)
(* from which init has the credential it stores.                           *)
(***************************************************************************)
EXTENDS Setup, Authorize, SequenceTheorems, TLAPS

Stores == [Places -> Credentials \cup {None}]
Files == Configs \cup {NoConfig, Unreadable}

Orders == InitOrders \cup SetOrders \cup ClearOrders \cup SessionOrders \cup {NoOrder}

Types ==
    /\ TypeOK
    /\ order \in [Processes -> Orders]
    /\ before \in [Processes -> [store : Stores, config : Files]]

\* Which command may be where, and how far it has come
Ties(p) ==
    /\ pc[p] = "idle" => /\ order[p].kind = "none" /\ lost[p] = {}
                         /\ \A t \in Targets : status[p][t] = "none"
    /\ pc[p] \in {"get", "authorize", "save", "rollback"} => order[p].kind = "init"
    /\ pc[p] \in {"delete", "config", "cache"} => order[p].kind = "clear"
    /\ pc[p] = "delete" => Place(p) \in Places /\ ~order[p].dryRun
    /\ pc[p] = "persist" => order[p].kind = "session" /\ held[p] # None
    /\ pc[p] = "exists" => order[p].kind \in {"init", "clear"}
    /\ pc[p] = "set" => order[p].kind \in {"init", "set"}
    /\ pc[p] # "done" => outcome[p] = "none"
    /\ pc[p] = "done" /\ order[p].kind = "init" => outcome[p] # "none"

\* The new credential is in its place, under the configuration of before.
Half(p) ==
    /\ store = [before[p].store EXCEPT ![Place(p)] = held[p]]
    /\ config = before[p].config

\* An undisturbed init: what it has written so far, and what a rollback needs
InitInv(p) ==
    order[p].kind = "init" /\ alone[p] =>
        /\ pc[p] \in {"exists", "get", "authorize", "set"} => Unchanged(p)
        /\ pc[p] \in {"save", "rollback"} => Half(p)
        /\ pc[p] = "crashed" => Unchanged(p) \/ Half(p)
        /\ outcome[p] \in {"ok", "unwritten"} => Complete(p)
        /\ outcome[p] = "failed" => Unchanged(p)
        /\ outcome[p] = "stuck" => Half(p)
        /\ pc[p] \in {"get", "authorize", "set", "save", "rollback"} /\ ~found[p]
             => before[p].store[Place(p)] = None
        /\ pc[p] \in {"authorize", "set", "save", "rollback"} /\ found[p]
             => previous[p] = before[p].store[Place(p)]

\* A command that must not overwrite loses nobody's credential, but for the
\* rollback of an init that was disturbed.
LossInv(p) ==
    order[p].kind \in {"init", "set"} /\ ~order[p].overwrite /\ lost[p] # {}
      => /\ pc[p] = "done"
         /\ order[p].kind = "init" /\ outcome[p] = "failed" /\ ~alone[p]

Dealt(p, target) == status[p][target] \in {"removed", "absent"}

StoreAsReported(p) ==
    store = [q \in Places |-> IF q = Place(p) /\ Dealt(p, "credential")
                                THEN None ELSE before[p].store[q]]
ConfigAsReported(p) ==
    config = IF Dealt(p, "config") THEN NoConfig ELSE before[p].config

\* An undisturbed clear: what it has removed is what it has reported so far.
ClearInv(p) ==
    order[p].kind = "clear" /\ alone[p] =>
        /\ pc[p] \in {"exists", "delete"} =>
             /\ Unchanged(p)
             /\ \A t \in Targets : status[p][t] = "none"
        /\ pc[p] = "config" => status[p]["config"] = "none"
        /\ pc[p] \in {"config", "cache", "done"} =>
             /\ StoreAsReported(p) /\ ConfigAsReported(p)
             /\ order[p].dryRun => Unchanged(p)
        /\ pc[p] \in {"config", "cache"} /\ ~order[p].dryRun
           /\ status[p]["credential"] \notin {"failed", "skipped"}
             => store[Place(p)] = None
        /\ pc[p] = "cache" /\ ~order[p].dryRun
           /\ status[p]["config"] \notin {"failed", "skipped"}
             => config = NoConfig
        /\ pc[p] = "done" /\ outcome[p] # "failed" /\ ~order[p].dryRun
             => /\ store[Place(p)] = None
                /\ order[p].all => config = NoConfig /\ ~cache

Own(p) == Ties(p) /\ InitInv(p) /\ LossInv(p) /\ ClearInv(p)

IInv == Types /\ \A p \in Processes : Own(p)

------------------------------------------------------------------------------
(* Facts that the steps share *)

\* The fields an order has, by its kind
LEMMA OrderTyped ==
    ASSUME Types, NEW p \in Processes
    PROVE  /\ order[p].kind = "init" => /\ Place(p) \in Places
                                        /\ order[p].config \in Configs
                                        /\ order[p].overwrite \in BOOLEAN
           /\ order[p].kind \in {"set", "session"} => Place(p) \in Places
           /\ order[p].kind = "clear" => /\ Place(p) \in Places \cup {NoPlace}
                                         /\ order[p].dryRun \in BOOLEAN
                                         /\ order[p].all \in BOOLEAN
  BY DEF Types, TypeOK, InitOrders, SetOrders, ClearOrders, SessionOrders, NoOrder,
         Place

\* Put replaces one credential, counts the loss and disturbs the others.
LEMMA PutEffect ==
    ASSUME Types, NEW p \in Processes, NEW c \in Credentials \cup {None},
           Place(p) \in Places, Put(p, c)
    PROVE  /\ store' = [store EXCEPT ![Place(p)] = c]
           /\ store' \in Stores
           /\ lost' \in [Processes -> SUBSET Credentials]
           /\ lost'[p] = lost[p] \cup ({store[Place(p)]} \ {None, held[p], c})
           /\ alone' \in [Processes -> BOOLEAN] /\ alone'[p] = alone[p]
           /\ \A q \in Processes \ {p} :
                /\ lost'[q] = lost[q]
                /\ pc[q] # "idle" => ~alone'[q]
           /\ UNCHANGED <<config, cache, before>>
  <1>1. store[Place(p)] \in Credentials \cup {None} /\ store \in Stores
    BY DEF Types, TypeOK, Stores
  <1>2. {store[Place(p)]} \ {None, held[p], c} \in SUBSET Credentials
    BY <1>1
  <1>3. /\ lost' \in [Processes -> SUBSET Credentials]
        /\ lost'[p] = lost[p] \cup ({store[Place(p)]} \ {None, held[p], c})
        /\ \A q \in Processes \ {p} : lost'[q] = lost[q]
    BY <1>2 DEF Put, Types, TypeOK
  <1>4. store' \in Stores
    BY <1>1 DEF Put, Stores
  <1>5. /\ alone' \in [Processes -> BOOLEAN] /\ alone'[p] = alone[p]
        /\ \A q \in Processes \ {p} : pc[q] # "idle" => ~alone'[q]
    BY DEF Put, Disturb, Types, TypeOK
  <1> QED
    BY <1>3, <1>4, <1>5 DEF Put

\* Writing the configuration file disturbs the others too.
LEMMA DisturbEffect ==
    ASSUME Types, NEW p \in Processes, Disturb(p)
    PROVE  /\ alone' \in [Processes -> BOOLEAN] /\ alone'[p] = alone[p]
           /\ \A q \in Processes \ {p} : pc[q] # "idle" => ~alone'[q]
  BY DEF Disturb, Types, TypeOK

Stages == {"idle", "exists", "get", "authorize", "set", "save", "rollback",
            "delete", "config", "cache", "persist", "done", "crashed"}
Ends == {"none", "ok", "unwritten", "failed", "stuck"}

\* Where a process goes and how it ends
LEMMA MoveEffect ==
    ASSUME Types, NEW p \in Processes, NEW where, NEW how,
           \/ Goto(p, where) /\ where \in Stages /\ how = outcome[p]
           \/ End(p, how) /\ where = "done" /\ how \in Ends
    PROVE  /\ pc' \in [Processes -> Stages] /\ pc'[p] = where
           /\ outcome' \in [Processes -> Ends] /\ outcome'[p] = how
           /\ \A q \in Processes \ {p} : pc'[q] = pc[q] /\ outcome'[q] = outcome[q]
  BY DEF Goto, End, Types, TypeOK, Stages, Ends

\* A step of another process: what it may change of what p relies on
Kept(p) ==
    /\ pc'[p] = pc[p] /\ order'[p] = order[p] /\ found'[p] = found[p]
    /\ held'[p] = held[p] /\ previous'[p] = previous[p]
    /\ status'[p] = status[p] /\ outcome'[p] = outcome[p]
    /\ before'[p] = before[p] /\ lost'[p] = lost[p]
    /\ \/ UNCHANGED <<store, config>> /\ alone'[p] = alone[p]
       \/ pc[p] = "idle"
       \/ ~alone'[p]
    /\ cache' => cache

\* What holds of p survives such a step.
LEMMA KeptPreserves ==
    ASSUME IInv, NEW p \in Processes, Kept(p)
    PROVE  Own(p)'
  <1> USE DEF Kept
  <1>0. Own(p)
    BY DEF IInv
  <1>1. Ties(p)'
    BY <1>0 DEF Own, Ties, Place
  <1>2. CASE pc[p] = "idle"
    BY <1>0, <1>1, <1>2 DEF Own, Ties, InitInv, LossInv, ClearInv
  <1>3. CASE pc[p] # "idle" /\ ~alone'[p]
    BY <1>0, <1>1, <1>3 DEF Own, InitInv, LossInv, ClearInv
  <1>4. CASE UNCHANGED <<store, config>> /\ alone'[p] = alone[p]
    <2>1. /\ Unchanged(p)' = Unchanged(p) /\ Half(p)' = Half(p)
          /\ Complete(p)' = Complete(p) /\ StoreAsReported(p)' = StoreAsReported(p)
          /\ ConfigAsReported(p)' = ConfigAsReported(p)
      BY <1>4 DEF Unchanged, Half, Complete, StoreAsReported, ConfigAsReported, Dealt,
                  Place
    <2>2. InitInv(p)'
      BY <1>0, <1>4, <2>1 DEF Own, InitInv, Place
    <2>3. LossInv(p)'
      BY <1>0, <1>4 DEF Own, LossInv
    <2>4. ClearInv(p)'
      BY <1>0, <1>4, <2>1 DEF Own, ClearInv, Place
    <2> QED
      BY <1>1, <2>2, <2>3, <2>4 DEF Own
  <1> QED
    BY <1>2, <1>3, <1>4

\* A step of p that keeps the invariant
Preserves(p) == Types' /\ Own(p)' /\ \A q \in Processes \ {p} : Kept(q)

------------------------------------------------------------------------------
(* Beginning, and ending before anything is written *)

\* A command begins: what it finds is what it may rely on.
LEMMA BeginPreserves ==
    ASSUME IInv, NEW p \in Processes,
           BeginInit(p) \/ BeginSet(p) \/ BeginSession(p) \/ BeginClear(p)
    PROVE  Preserves(p)
  <1> USE DEF IInv
  <1>1. PICK what \in InitOrders \cup SetOrders \cup ClearOrders \cup SessionOrders,
             where \in {"exists", "set", "persist"} :
          /\ Begin(p, what, where)
          /\ where = "exists" => what.kind \in {"init", "clear"}
          /\ where = "set" => what.kind = "set"
          /\ where = "persist" => what.kind = "session"
          /\ \/ UNCHANGED held
             \/ \E c \in Credentials \cup {None} : held' = [held EXCEPT ![p] = c]
          /\ where = "persist" => held'[p] # None
    <2>1. CASE BeginInit(p)
      <3>1. PICK c \in Configs, flag \in BOOLEAN, interactive \in BOOLEAN :
              /\ Begin(p, [kind |-> "init", config |-> c, place |-> c.place,
                           overwrite |-> flag \/ (interactive /\
                                                  c.place[1] # config.place[1])],
                       "exists")
              /\ UNCHANGED held
        BY <2>1 DEF BeginInit
      <3>2. PICK o \in BOOLEAN :
              o = (flag \/ (interactive /\ c.place[1] # config.place[1]))
        OBVIOUS
      <3>3. c.place \in Places
        BY DEF Configs
      <3>4. [kind |-> "init", config |-> c, place |-> c.place, overwrite |-> o]
              \in InitOrders
        BY <3>3 DEF InitOrders
      <3> QED
        BY <3>1, <3>2, <3>4
    <2>2. CASE BeginSet(p)
      BY <2>2 DEF BeginSet, SetOrders, Credentials
    <2>3. CASE BeginSession(p)
      <3>1. PICK place \in ActivePlaces :
              /\ config \notin {NoConfig, Unreadable} /\ store[place] # None
              /\ Begin(p, [kind |-> "session", place |-> place], "persist")
              /\ held' = [held EXCEPT ![p] = store[place]]
        BY <2>3 DEF BeginSession
      <3>2. place \in Places
        BY <3>1 DEF ActivePlaces, Types, TypeOK, Configs, Places
      <3>3. store[place] \in Credentials \cup {None}
        BY <3>2 DEF Types, TypeOK
      <3>4. held'[p] # None
        BY <3>1 DEF Types, TypeOK
      <3> QED
        BY <3>1, <3>2, <3>3, <3>4 DEF SessionOrders
    <2>4. CASE BeginClear(p)
      <3>1. PICK place \in ActivePlaces, all \in BOOLEAN, dryRun \in BOOLEAN :
              /\ Begin(p, [kind |-> "clear", place |-> place, all |-> all,
                           dryRun |-> dryRun], "exists")
              /\ UNCHANGED held
        BY <2>4 DEF BeginClear
      <3>2. place \in Places \cup {NoPlace}
        BY DefaultPlaceAssumption
           DEF ActivePlaces, Types, TypeOK, Configs, NoConfig, Places
      <3> QED
        BY <3>1, <3>2 DEF ClearOrders
    <2> QED
      BY <2>1, <2>2, <2>3, <2>4
  <1>2. /\ pc[p] = "idle" /\ order' = [order EXCEPT ![p] = what]
        /\ before' = [before EXCEPT ![p] = [store |-> store, config |-> config]]
        /\ Goto(p, where)
        /\ UNCHANGED <<setup, found, previous, status, alone, lost>>
    BY <1>1 DEF Begin
  <1>3. /\ pc' \in [Processes -> Stages] /\ pc'[p] = where
        /\ outcome' \in [Processes -> Ends] /\ outcome'[p] = outcome[p]
        /\ \A q \in Processes \ {p} : pc'[q] = pc[q] /\ outcome'[q] = outcome[q]
    BY <1>2, MoveEffect DEF Stages
  <1>4. /\ order'[p] = what /\ before'[p].store = store /\ before'[p].config = config
        /\ before' \in [Processes -> [store : Stores, config : Files]]
        /\ held' \in [Processes -> Credentials \cup {None}]
    <2>1. PICK b : b = [store |-> store, config |-> config]
      OBVIOUS
    <2>2. b \in [store : Stores, config : Files] /\ b.store = store /\ b.config = config
      BY <2>1 DEF Types, TypeOK, Stores, Files
    <2>3. before' = [before EXCEPT ![p] = b]
      BY <1>2, <2>1
    <2>4. before' \in [Processes -> [store : Stores, config : Files]] /\ before'[p] = b
      BY <2>2, <2>3 DEF Types
    <2>5. order'[p] = what
      BY <1>2 DEF Types
    <2>6. held' \in [Processes -> Credentials \cup {None}]
      BY <1>1 DEF Types, TypeOK
    <2> QED
      BY <2>2, <2>4, <2>5, <2>6
  <1>5. Types'
    <2>1. order' \in [Processes -> Orders]
      BY <1>2 DEF Types, Orders
    <2>2. \A q \in Processes :
            order'[q] \in InitOrders \cup SetOrders \cup ClearOrders
                            \cup SessionOrders \cup {NoOrder}
      BY <2>1 DEF Orders
    <2> QED
      BY <1>2, <1>3, <1>4, <2>1, <2>2
         DEF Types, TypeOK, setup, Stages, Ends, Stores
  <1>6. Own(p)'
    <2>1. /\ \A t \in Targets : status[p][t] = "none"
          /\ lost[p] = {} /\ outcome[p] = "none"
      BY <1>2 DEF Own, Ties
    <2>2. Ties(p)'
      BY <1>1, <1>2, <1>3, <1>4, <2>1 DEF Ties
    <2>3. Unchanged(p)'
      BY <1>2, <1>4 DEF Unchanged, setup
    <2>4. InitInv(p)' /\ ClearInv(p)'
      BY <1>1, <1>2, <1>3, <1>4, <2>1, <2>3 DEF InitInv, ClearInv
    <2>5. LossInv(p)'
      BY <1>2, <2>1 DEF LossInv
    <2> QED
      BY <2>2, <2>4, <2>5 DEF Own
  <1>7. ASSUME NEW q \in Processes \ {p} PROVE Kept(q)
    BY <1>1, <1>2, <1>3, <1>7 DEF Kept, setup, Types, TypeOK
  <1> QED
    BY <1>5, <1>6, <1>7 DEF Preserves

\* The configuration cannot be loaded, or the process is killed.
LEMMA StopPreserves ==
    ASSUME IInv, NEW p \in Processes, LoadFails(p) \/ Crash(p)
    PROVE  Preserves(p)
  <1> USE DEF IInv
  <1>1. PICK where \in {"done", "crashed"}, how \in Ends :
          /\ pc' \in [Processes -> Stages] /\ pc'[p] = where
          /\ outcome' \in [Processes -> Ends] /\ outcome'[p] = how
          /\ \A q \in Processes \ {p} : pc'[q] = pc[q] /\ outcome'[q] = outcome[q]
          /\ where = "done" => pc[p] = "idle"
          /\ where = "crashed" => pc[p] \notin {"idle", "done"} /\ how = outcome[p]
    <2>1. CASE LoadFails(p)
      BY <2>1, MoveEffect DEF LoadFails, Ends
    <2>2. CASE Crash(p)
      <3>1. outcome[p] \in Ends
        BY DEF Types, TypeOK, Ends
      <3> QED
        BY <2>2, <3>1, MoveEffect DEF Crash, Stages
    <2> QED
      BY <2>1, <2>2
  <1>2. UNCHANGED <<order, found, held, previous, status, setup, history>>
    BY DEF LoadFails, Crash, KeepSetup
  <1>3. Types'
    BY <1>1, <1>2 DEF Types, TypeOK, setup, history, Stages, Ends, Stores
  <1>4. Own(p)'
    <2>1. /\ Unchanged(p)' = Unchanged(p) /\ Half(p)' = Half(p)
      BY <1>2 DEF Unchanged, Half, Place, setup, history
    <2>2. Ties(p)'
      BY <1>1, <1>2 DEF Own, Ties, Place
    <2>3. InitInv(p)'
      <3>1. pc[p] \in Stages
        BY DEF Types, TypeOK, Stages
      <3> QED
        BY <1>1, <1>2, <2>1, <3>1 DEF Own, Ties, InitInv, Place, history, Stages
    <2>4. LossInv(p)' /\ ClearInv(p)'
      BY <1>1, <1>2 DEF Own, Ties, LossInv, ClearInv, history
    <2> QED
      BY <2>2, <2>3, <2>4 DEF Own
  <1>5. ASSUME NEW q \in Processes \ {p} PROVE Kept(q)
    BY <1>1, <1>2, <1>5 DEF Kept, setup, history
  <1> QED
    BY <1>3, <1>4, <1>5 DEF Preserves

------------------------------------------------------------------------------
(* init *)

\* Up to the authorization nothing is written.
LEMMA InitLooksPreserves ==
    ASSUME IInv, NEW p \in Processes,
           InitExists(p) \/ InitFails(p) \/ InitGet(p) \/ InitAuthorize(p)
    PROVE  Preserves(p)
  <1> USE DEF IInv
  <1>1. /\ order[p].kind = "init" /\ pc[p] \in {"exists", "get", "authorize"}
        /\ outcome[p] = "none"
    BY DEF InitExists, InitFails, InitGet, InitAuthorize, Own, Ties
  <1>2. /\ UNCHANGED <<order, status, setup, history>>
        /\ Place(p) \in Places /\ store[Place(p)] \in Credentials \cup {None}
    BY <1>1, OrderTyped
       DEF InitExists, InitFails, InitGet, InitAuthorize, KeepSetup, Types, TypeOK
  <1>3. PICK where \in {"get", "authorize", "set", "done"}, how \in {"none", "failed"} :
          /\ pc' \in [Processes -> Stages] /\ pc'[p] = where
          /\ outcome' \in [Processes -> Ends] /\ outcome'[p] = how
          /\ \A q \in Processes \ {p} : pc'[q] = pc[q] /\ outcome'[q] = outcome[q]
          /\ where = "done" <=> how = "failed"
    <2>1. \/ \E where \in {"get", "authorize", "set"} : Goto(p, where)
          \/ End(p, "failed")
      BY DEF InitExists, InitFails, InitGet, InitAuthorize
    <2>2. CASE \E where \in {"get", "authorize", "set"} : Goto(p, where)
      BY <1>1, <2>2, MoveEffect DEF Stages
    <2>3. CASE End(p, "failed")
      BY <2>3, MoveEffect DEF Ends
    <2> QED
      BY <2>1, <2>2, <2>3
  <1>4. /\ found' \in [Processes -> BOOLEAN]
        /\ held' \in [Processes -> Credentials \cup {None}]
        /\ previous' \in [Processes -> Credentials \cup {None}]
        /\ \A q \in Processes \ {p} : /\ found'[q] = found[q] /\ held'[q] = held[q]
                                      /\ previous'[q] = previous[q]
    <2>1. CASE InitExists(p)
      <3>1. PICK full \in BOOLEAN : full = (store[Place(p)] # None)
        OBVIOUS
      <3> QED
        BY <2>1, <3>1 DEF InitExists, Types, TypeOK
    <2>2. CASE InitAuthorize(p)
      <3>1. order[p].config.client \in Clients
        BY <1>1, OrderTyped DEF Configs
      <3>2. [client |-> order[p].config.client, by |-> p] \in Credentials
        BY <3>1 DEF Credentials
      <3> QED
        BY <2>2, <3>2 DEF InitAuthorize, Types, TypeOK
    <2>3. CASE InitFails(p) \/ InitGet(p)
      BY <1>2, <2>3 DEF InitFails, InitGet, Types, TypeOK
    <2> QED
      BY <2>1, <2>2, <2>3
  <1>5. Types'
    BY <1>2, <1>3, <1>4 DEF Types, TypeOK, setup, history, Stages, Ends, Stores
  <1>6. Own(p)'
    <2>1. Unchanged(p)' = Unchanged(p)
      BY <1>2 DEF Unchanged, setup, history
    <2>2. Ties(p)'
      BY <1>1, <1>2, <1>3 DEF Own, Ties, Place
    <2>3. LossInv(p)' /\ ClearInv(p)'
      BY <1>1, <1>2 DEF Own, LossInv, ClearInv, history
    <2>4. ASSUME alone[p], pc'[p] # "done"
          PROVE  /\ ~found'[p] => before[p].store[Place(p)] = None
                 /\ pc'[p] # "get" /\ found'[p]
                      => previous'[p] = before[p].store[Place(p)]
      <3>1. Unchanged(p)
        BY <1>1, <2>4 DEF Own, InitInv
      <3>2. CASE InitExists(p)
        BY <1>3, <2>4, <3>1, <3>2
           DEF InitExists, Unchanged, Types, TypeOK, Goto, End
      <3>3. CASE InitGet(p)
        BY <1>1, <2>4, <3>1, <3>3
           DEF InitGet, Unchanged, Types, TypeOK, Own, InitInv
      <3>4. CASE InitAuthorize(p)
        BY <1>1, <2>4, <3>4 DEF InitAuthorize, Own, InitInv
      <3>5. CASE InitFails(p)
        BY <2>4, <3>5 DEF InitFails, End, Types, TypeOK
      <3> QED
        BY <3>2, <3>3, <3>4, <3>5
    <2>5. InitInv(p)'
      BY <1>1, <1>2, <1>3, <2>1, <2>4 DEF Own, InitInv, Place, history
    <2> QED
      BY <2>2, <2>3, <2>5 DEF Own
  <1>7. ASSUME NEW q \in Processes \ {p} PROVE Kept(q)
    BY <1>2, <1>3, <1>4, <1>7 DEF Kept, setup, history
  <1> QED
    BY <1>5, <1>6, <1>7 DEF Preserves

\* The credential is put into its place, unless it is full and may not be.
LEMMA SetPreserves ==
    ASSUME IInv, NEW p \in Processes, InitSet(p) \/ SetCredential(p)
    PROVE  Preserves(p)
  <1> USE DEF IInv
  <1>1. /\ order[p].kind \in {"init", "set"} /\ pc[p] = "set" /\ Place(p) \in Places
        /\ UNCHANGED <<order, found, held, previous, status>>
        /\ outcome[p] = "none" /\ held[p] \in Credentials \cup {None}
    <2>1. order[p].kind \in {"init", "set"} /\ pc[p] = "set"
      BY DEF InitSet, SetCredential
    <2> QED
      BY <2>1, OrderTyped DEF InitSet, SetCredential, Own, Ties, Types, TypeOK
  <1>2. PICK where \in {"save", "done"}, how \in Ends :
          /\ pc' \in [Processes -> Stages] /\ pc'[p] = where
          /\ outcome' \in [Processes -> Ends] /\ outcome'[p] = how
          /\ \A q \in Processes \ {p} : pc'[q] = pc[q] /\ outcome'[q] = outcome[q]
          /\ \/ MaySet(p) /\ Put(p, held[p])
                /\ (order[p].kind = "init" => where = "save" /\ how = "none")
             \/ KeepSetup /\ where = "done" /\ how = "failed"
          /\ order[p].kind = "set" => where = "done"
    <2>1. CASE InitSet(p)
      <3>1. CASE MaySet(p) /\ Put(p, held[p]) /\ Goto(p, "save")
        BY <1>1, <2>1, <3>1, MoveEffect DEF InitSet, Stages, Ends
      <3>2. CASE End(p, "failed") /\ KeepSetup
        BY <1>1, <2>1, <3>2, MoveEffect DEF InitSet, Ends
      <3> QED
        BY <2>1, <3>1, <3>2 DEF InitSet
    <2>2. CASE SetCredential(p)
      <3>1. CASE MaySet(p) /\ Put(p, held[p]) /\ Succeed(p)
        <4>1. PICK how \in {"ok", "unwritten"} : End(p, how)
          BY <3>1 DEF Succeed
        <4> QED
          BY <1>1, <2>2, <3>1, <4>1, MoveEffect DEF SetCredential, Ends
      <3>2. CASE End(p, "failed") /\ KeepSetup
        BY <1>1, <2>2, <3>2, MoveEffect DEF SetCredential, Ends
      <3> QED
        BY <2>2, <3>1, <3>2 DEF SetCredential
    <2> QED
      BY <2>1, <2>2
  <1>3. CASE /\ MaySet(p) /\ Put(p, held[p])
             /\ order[p].kind = "init" => pc'[p] = "save" /\ outcome'[p] = "none"
    <2>1. /\ store' = [store EXCEPT ![Place(p)] = held[p]]
          /\ store' \in Stores
          /\ lost' \in [Processes -> SUBSET Credentials]
          /\ lost'[p] = lost[p] \cup ({store[Place(p)]} \ {None, held[p]})
          /\ alone' \in [Processes -> BOOLEAN] /\ alone'[p] = alone[p]
          /\ \A q \in Processes \ {p} :
               /\ lost'[q] = lost[q]
               /\ pc[q] # "idle" => ~alone'[q]
          /\ UNCHANGED <<config, cache, before>>
      BY <1>1, <1>3, PutEffect
    <2>2. Types'
      BY <1>1, <1>2, <2>1 DEF Types, TypeOK, Stages, Ends, Stores
    <2>3. Own(p)'
      <3>1. Ties(p)'
        BY <1>1, <1>2, <1>3 DEF Own, Ties, Place
      <3>2. InitInv(p)'
        <4> SUFFICES ASSUME order[p].kind = "init", alone[p] PROVE InitInv(p)'
          BY <1>1, <2>1 DEF InitInv
        <4>1. Unchanged(p) /\ pc'[p] = "save" /\ outcome'[p] = "none"
          BY <1>1, <1>3 DEF Own, InitInv
        <4>2. Half(p)'
          BY <1>1, <2>1, <4>1 DEF Half, Unchanged, Place
        <4> QED
          BY <1>1, <2>1, <4>1, <4>2 DEF Own, InitInv, Place
      <3>3. LossInv(p)'
        <4>1. ~order[p].overwrite => store[Place(p)] = None
          BY <1>3 DEF MaySet
        <4>2. ~order[p].overwrite => lost'[p] = {}
          BY <1>1, <2>1, <4>1 DEF Own, LossInv
        <4> QED
          BY <1>1, <4>2 DEF LossInv
      <3>4. ClearInv(p)'
        BY <1>1 DEF ClearInv
      <3> QED
        BY <3>1, <3>2, <3>3, <3>4 DEF Own
    <2>4. ASSUME NEW q \in Processes \ {p} PROVE Kept(q)
      BY <1>1, <1>2, <2>1, <2>4 DEF Kept
    <2> QED
      BY <2>2, <2>3, <2>4 DEF Preserves
  <1>4. CASE KeepSetup /\ pc'[p] = "done" /\ outcome'[p] = "failed"
    <2>1. Types'
      BY <1>1, <1>2, <1>4
         DEF Types, TypeOK, KeepSetup, setup, history, Stages, Ends, Stores
    <2>2. Own(p)'
      <3>1. Unchanged(p)' = Unchanged(p)
        BY <1>4 DEF Unchanged, KeepSetup, setup, history
      <3>2. Ties(p)'
        BY <1>1, <1>4 DEF Own, Ties, Place, KeepSetup, history
      <3>3. InitInv(p)' /\ LossInv(p)' /\ ClearInv(p)'
        BY <1>1, <1>4, <3>1
           DEF Own, InitInv, LossInv, ClearInv, Place, KeepSetup, history
      <3> QED
        BY <3>2, <3>3 DEF Own
    <2>3. ASSUME NEW q \in Processes \ {p} PROVE Kept(q)
      BY <1>1, <1>2, <1>4, <2>3 DEF Kept, KeepSetup, setup, history
    <2> QED
      BY <2>1, <2>2, <2>3 DEF Preserves
  <1> QED
    BY <1>2, <1>3, <1>4

\* The configuration is saved, and the setup complete, or a rollback follows.
LEMMA InitSavePreserves ==
    ASSUME IInv, NEW p \in Processes, InitSave(p)
    PROVE  Preserves(p)
  <1> USE DEF IInv
  <1>1. /\ order[p].kind = "init" /\ pc[p] = "save" /\ order[p].config \in Configs
        /\ UNCHANGED <<order, found, held, previous, status, store, cache, before, lost>>
        /\ outcome[p] = "none"
    <2>1. order[p].kind = "init" /\ pc[p] = "save"
      BY DEF InitSave, Own, Ties
    <2> QED
      BY <2>1, OrderTyped DEF InitSave, KeepSetup, setup, history, Own, Ties
  <1>2. CASE config' = order[p].config /\ Disturb(p) /\ Succeed(p)
    <2>1. PICK how \in {"ok", "unwritten"} :
            /\ pc' \in [Processes -> Stages] /\ pc'[p] = "done"
            /\ outcome' \in [Processes -> Ends] /\ outcome'[p] = how
            /\ \A q \in Processes \ {p} : pc'[q] = pc[q] /\ outcome'[q] = outcome[q]
      BY <1>2, MoveEffect DEF Succeed, Ends
    <2>2. /\ alone' \in [Processes -> BOOLEAN] /\ alone'[p] = alone[p]
          /\ \A q \in Processes \ {p} : pc[q] # "idle" => ~alone'[q]
      BY <1>2, DisturbEffect
    <2>3. Types'
      BY <1>1, <1>2, <2>1, <2>2 DEF Types, TypeOK, Stages, Ends, Stores
    <2>4. Own(p)'
      <3>1. Ties(p)' /\ ClearInv(p)' /\ LossInv(p)'
        BY <1>1, <2>1 DEF Own, Ties, ClearInv, LossInv, Place
      <3>2. alone[p] => Complete(p)'
        BY <1>1, <1>2 DEF Own, InitInv, Half, Complete, Place
      <3>3. InitInv(p)'
        BY <2>1, <2>2, <3>2 DEF InitInv
      <3> QED
        BY <3>1, <3>3 DEF Own
    <2>5. ASSUME NEW q \in Processes \ {p} PROVE Kept(q)
      BY <1>1, <2>1, <2>2, <2>5 DEF Kept
    <2> QED
      BY <2>3, <2>4, <2>5 DEF Preserves
  <1>3. CASE Goto(p, "rollback") /\ KeepSetup
    <2>1. /\ pc' \in [Processes -> Stages] /\ pc'[p] = "rollback"
          /\ outcome' \in [Processes -> Ends] /\ outcome'[p] = "none"
          /\ \A q \in Processes \ {p} : pc'[q] = pc[q] /\ outcome'[q] = outcome[q]
      BY <1>1, <1>3, MoveEffect DEF Stages
    <2>2. UNCHANGED <<store, config, cache, before, alone, lost>>
      BY <1>3 DEF KeepSetup, setup, history
    <2>3. Types'
      BY <1>1, <2>1, <2>2 DEF Types, TypeOK, Stages, Ends, Stores
    <2>4. Own(p)'
      <3>1. Ties(p)' /\ ClearInv(p)' /\ LossInv(p)'
        BY <1>1, <2>1, <2>2 DEF Own, Ties, ClearInv, LossInv, Place
      <3>2. Half(p)' = Half(p)
        BY <1>1, <2>2 DEF Half, Place
      <3>3. InitInv(p)'
        BY <1>1, <2>1, <2>2, <3>2 DEF Own, InitInv, Place
      <3> QED
        BY <3>1, <3>3 DEF Own
    <2>5. ASSUME NEW q \in Processes \ {p} PROVE Kept(q)
      BY <1>1, <2>1, <2>2, <2>5 DEF Kept
    <2> QED
      BY <2>3, <2>4, <2>5 DEF Preserves
  <1> QED
    BY <1>2, <1>3 DEF InitSave

\* The rollback puts back what init had found.
LEMMA InitRollbackPreserves ==
    ASSUME IInv, NEW p \in Processes, InitRollback(p)
    PROVE  Preserves(p)
  <1> USE DEF IInv
  <1>1. /\ order[p].kind = "init" /\ pc[p] = "rollback" /\ Place(p) \in Places
        /\ UNCHANGED <<order, found, held, previous, status>>
        /\ outcome[p] = "none" /\ RollbackTo(p) \in Credentials \cup {None}
    <2>1. order[p].kind = "init" /\ pc[p] = "rollback"
      BY DEF InitRollback, Own, Ties
    <2>2. RollbackTo(p) \in Credentials \cup {None}
      BY DEF RollbackTo, Types, TypeOK
    <2> QED
      BY <2>1, <2>2, OrderTyped DEF InitRollback, Own, Ties
  <1>2. CASE Put(p, RollbackTo(p)) /\ End(p, "failed")
    <2>1. /\ store' = [store EXCEPT ![Place(p)] = RollbackTo(p)]
          /\ store' \in Stores
          /\ lost' \in [Processes -> SUBSET Credentials]
          /\ lost'[p] = lost[p] \cup ({store[Place(p)]} \ {None, held[p], RollbackTo(p)})
          /\ alone' \in [Processes -> BOOLEAN] /\ alone'[p] = alone[p]
          /\ \A q \in Processes \ {p} :
               /\ lost'[q] = lost[q]
               /\ pc[q] # "idle" => ~alone'[q]
          /\ UNCHANGED <<config, cache, before>>
      BY <1>1, <1>2, PutEffect
    <2>2. /\ pc' \in [Processes -> Stages] /\ pc'[p] = "done"
          /\ outcome' \in [Processes -> Ends] /\ outcome'[p] = "failed"
          /\ \A q \in Processes \ {p} : pc'[q] = pc[q] /\ outcome'[q] = outcome[q]
      BY <1>2, MoveEffect DEF Ends
    <2>3. Types'
      BY <1>1, <2>1, <2>2 DEF Types, TypeOK, Stages, Ends, Stores
    <2>4. Own(p)'
      <3>1. Ties(p)' /\ ClearInv(p)'
        BY <1>1, <2>2 DEF Own, Ties, ClearInv, Place
      <3>2. ASSUME alone[p]
            PROVE  Unchanged(p)' /\ store[Place(p)] = held[p]
        <4>1. /\ store = [before[p].store EXCEPT ![Place(p)] = held[p]]
              /\ config = before[p].config
              /\ RollbackTo(p) = before[p].store[Place(p)]
          BY <1>1, <3>2 DEF Own, InitInv, Half, RollbackTo
        <4>2. before[p].store \in Stores
          BY DEF Types
        <4>3. store' = before[p].store
          BY <1>1, <2>1, <4>1, <4>2 DEF Stores
        <4> QED
          BY <1>1, <2>1, <4>1, <4>2, <4>3 DEF Unchanged, Stores
      <3>3. InitInv(p)'
        BY <2>1, <2>2, <3>2 DEF InitInv
      <3>4. LossInv(p)'
        BY <1>1, <2>1, <2>2, <3>2 DEF Own, LossInv
      <3> QED
        BY <3>1, <3>3, <3>4 DEF Own
    <2>5. ASSUME NEW q \in Processes \ {p} PROVE Kept(q)
      BY <1>1, <2>1, <2>2, <2>5 DEF Kept
    <2> QED
      BY <2>3, <2>4, <2>5 DEF Preserves
  <1>3. CASE KeepSetup /\ End(p, "stuck")
    <2>1. /\ pc' \in [Processes -> Stages] /\ pc'[p] = "done"
          /\ outcome' \in [Processes -> Ends] /\ outcome'[p] = "stuck"
          /\ \A q \in Processes \ {p} : pc'[q] = pc[q] /\ outcome'[q] = outcome[q]
      BY <1>3, MoveEffect DEF Ends
    <2>2. UNCHANGED <<store, config, cache, before, alone, lost>>
      BY <1>3 DEF KeepSetup, setup, history
    <2>3. Types'
      BY <1>1, <2>1, <2>2 DEF Types, TypeOK, Stages, Ends, Stores
    <2>4. Own(p)'
      <3>1. Ties(p)' /\ ClearInv(p)' /\ LossInv(p)'
        BY <1>1, <2>1, <2>2 DEF Own, Ties, ClearInv, LossInv, Place
      <3>2. Half(p)' = Half(p)
        BY <1>1, <2>2 DEF Half, Place
      <3>3. InitInv(p)'
        BY <1>1, <2>1, <2>2, <3>2 DEF Own, InitInv, Place
      <3> QED
        BY <3>1, <3>3 DEF Own
    <2>5. ASSUME NEW q \in Processes \ {p} PROVE Kept(q)
      BY <1>1, <2>1, <2>2, <2>5 DEF Kept
    <2> QED
      BY <2>3, <2>4, <2>5 DEF Preserves
  <1> QED
    BY <1>2, <1>3 DEF InitRollback

------------------------------------------------------------------------------
(* A session's save, and config clear *)

\* A refreshed credential takes whatever place it came from.
LEMMA SessionPreserves ==
    ASSUME IInv, NEW p \in Processes, SessionPersists(p)
    PROVE  Preserves(p)
  <1> USE DEF IInv
  <1>1. /\ order[p].kind = "session" /\ pc[p] = "persist" /\ Place(p) \in Places
        /\ UNCHANGED <<order, found, held, previous, status>>
        /\ held[p] \in Credentials
    <2>1. order[p].kind = "session" /\ pc[p] = "persist" /\ held[p] # None
      BY DEF SessionPersists, Own, Ties
    <2> QED
      BY <2>1, OrderTyped DEF SessionPersists, Types, TypeOK
  <1>2. PICK c \in Credentials : c = [held[p] EXCEPT !.by = p]
    BY <1>1 DEF Credentials
  <1>3. PICK how \in {"ok", "failed"} :
          /\ pc' \in [Processes -> Stages] /\ pc'[p] = "done"
          /\ outcome' \in [Processes -> Ends] /\ outcome'[p] = how
          /\ \A q \in Processes \ {p} : pc'[q] = pc[q] /\ outcome'[q] = outcome[q]
    BY MoveEffect DEF SessionPersists, Ends
  <1>4. Own(p)'
    BY <1>1, <1>3 DEF Own, Ties, InitInv, LossInv, ClearInv, Place
  <1>5. CASE Put(p, c)
    <2>1. /\ store' \in Stores
          /\ lost' \in [Processes -> SUBSET Credentials]
          /\ alone' \in [Processes -> BOOLEAN]
          /\ \A q \in Processes \ {p} :
               /\ lost'[q] = lost[q]
               /\ pc[q] # "idle" => ~alone'[q]
          /\ UNCHANGED <<config, cache, before>>
      BY <1>1, <1>5, PutEffect
    <2>2. Types'
      BY <1>1, <1>3, <2>1 DEF Types, TypeOK, Stages, Ends, Stores
    <2>3. ASSUME NEW q \in Processes \ {p} PROVE Kept(q)
      BY <1>1, <1>3, <2>1, <2>3 DEF Kept
    <2> QED
      BY <1>4, <2>2, <2>3 DEF Preserves
  <1>6. CASE KeepSetup
    <2>1. Types'
      BY <1>1, <1>3, <1>6
         DEF Types, TypeOK, KeepSetup, setup, history, Stages, Ends, Stores
    <2>2. ASSUME NEW q \in Processes \ {p} PROVE Kept(q)
      BY <1>1, <1>3, <1>6, <2>2 DEF Kept, KeepSetup, setup, history
    <2> QED
      BY <1>4, <2>1, <2>2 DEF Preserves
  <1> QED
    BY <1>2, <1>5, <1>6 DEF SessionPersists

\* What is reported of one target, and where the command goes from there
LEMMA ReportEffect ==
    ASSUME Types, NEW p \in Processes, NEW target \in Targets, NEW what \in Statuses,
           Reported(p, target, what)
    PROVE  /\ status' \in [Processes -> [Targets -> Statuses]]
           /\ status'[p][target] = what
           /\ \A t \in Targets \ {target} : status'[p][t] = status[p][t]
           /\ \A q \in Processes \ {p} : status'[q] = status[q]
  BY DEF Reported, Types, TypeOK

\* What clearing the credential leaves of the store and what is then reported.
LEMMA AfterCredentialEffect ==
    ASSUME IInv, NEW p \in Processes, NEW what \in Statuses, outcome[p] = "none",
           AfterCredential(p, what)
    PROVE  \E where \in {"config", "done"}, how \in Ends :
             /\ pc' \in [Processes -> Stages] /\ pc'[p] = where
             /\ outcome' \in [Processes -> Ends] /\ outcome'[p] = how
             /\ \A q \in Processes \ {p} : pc'[q] = pc[q] /\ outcome'[q] = outcome[q]
             /\ where = "config" <=> order[p].all
             /\ where = "config" => how = "none"
             /\ where = "done" /\ what \in {"failed", "skipped"} => how = "failed"
             /\ where = "done" => how # "none"
  <1> USE DEF IInv
  <1>1. CASE order[p].all
    BY <1>1, MoveEffect DEF AfterCredential, Stages
  <1>2. CASE ~order[p].all /\ what \in {"failed", "skipped"}
    BY <1>2, MoveEffect DEF AfterCredential, Ends
  <1>3. CASE ~order[p].all /\ what \notin {"failed", "skipped"}
    <2>1. PICK how \in {"ok", "unwritten"} : End(p, how)
      BY <1>3 DEF AfterCredential, Succeed
    <2> QED
      BY <1>3, <2>1, MoveEffect DEF Ends
  <1> QED
    BY <1>1, <1>2, <1>3

\* The credential has been dealt with as reported.
LEMMA CredentialDealt ==
    ASSUME IInv, NEW p \in Processes, NEW what \in Statuses \ {"none"},
           order[p].kind = "clear", pc[p] \in {"exists", "delete"},
           AfterCredential(p, what), order' = order, config' = config,
           before' = before, cache' = cache, alone'[p] = alone[p],
           store' \in Stores,
           alone[p] /\ what \in {"removed", "absent"}
             => /\ Place(p) \in Places /\ ~order[p].dryRun
                /\ store' = [store EXCEPT ![Place(p)] = None],
           alone[p] /\ what \notin {"removed", "absent"} => store' = store,
           what = "would_remove" => order[p].dryRun
    PROVE  Own(p)'
  <1> USE DEF IInv
  <1>1. outcome[p] = "none"
    BY DEF Own, Ties
  <1>2. PICK where \in {"config", "done"}, how \in Ends :
          /\ pc' \in [Processes -> Stages] /\ pc'[p] = where
          /\ outcome' \in [Processes -> Ends] /\ outcome'[p] = how
          /\ where = "config" <=> order[p].all
          /\ where = "config" => how = "none"
          /\ where = "done" /\ what \in {"failed", "skipped"} => how = "failed"
          /\ where = "done" => how # "none"
    BY <1>1, AfterCredentialEffect
  <1>3. /\ status' \in [Processes -> [Targets -> Statuses]]
        /\ status'[p]["credential"] = what
        /\ status'[p]["config"] = status[p]["config"]
    BY ReportEffect DEF AfterCredential, Targets
  <1>4. Ties(p)' /\ InitInv(p)' /\ LossInv(p)'
    BY <1>2 DEF Ties, InitInv, LossInv, Place
  <1>5. ClearInv(p)'
    <2> SUFFICES ASSUME alone[p] PROVE ClearInv(p)'
      BY DEF ClearInv
    <2>1. /\ store = before[p].store /\ config = before[p].config
          /\ status[p]["config"] = "none"
      BY DEF Own, ClearInv, Unchanged, Targets
    <2>2. before[p].store \in Stores
      BY DEF Types
    <2>3. ConfigAsReported(p)'
      BY <1>3, <2>1 DEF ConfigAsReported, Dealt
    <2>4. StoreAsReported(p)'
      <3>1. CASE what \in {"removed", "absent"}
        BY <1>3, <2>1, <2>2, <3>1 DEF StoreAsReported, Dealt, Place, Stores
      <3>2. CASE what \notin {"removed", "absent"}
        BY <1>3, <2>1, <2>2, <3>2 DEF StoreAsReported, Dealt, Place, Stores
      <3> QED
        BY <3>1, <3>2
    <2>5. order[p].dryRun => Unchanged(p)'
      BY <2>1 DEF Unchanged
    <2>6. what \in {"removed", "absent"} => store'[Place(p)'] = None
      BY <2>1, <2>2 DEF Place, Stores
    <2>7. what \in {"removed", "absent", "failed", "skipped"} \/ order[p].dryRun
      BY DEF Statuses
    <2> QED
      BY <1>2, <1>3, <2>1, <2>3, <2>4, <2>5, <2>6, <2>7 DEF ClearInv, Place
  <1> QED
    BY <1>4, <1>5 DEF Own

\* clear asks whether there is a credential.
LEMMA ClearExistsPreserves ==
    ASSUME IInv, NEW p \in Processes, ClearExists(p)
    PROVE  Preserves(p)
  <1> USE DEF IInv
  <1>1. /\ order[p].kind = "clear" /\ pc[p] = "exists"
        /\ UNCHANGED <<order, found, held, previous, store, config, cache, before,
                       alone, lost>>
        /\ outcome[p] = "none" /\ store \in Stores
        /\ Place(p) \in Places \cup {NoPlace}
    <2>1. order[p].kind = "clear" /\ pc[p] = "exists"
      BY DEF ClearExists
    <2> QED
      BY <2>1, OrderTyped
         DEF ClearExists, KeepSetup, setup, history, Own, Ties, Types, TypeOK, Stores
  <1>2. CASE \E what \in {"skipped", "failed", "would_remove", "absent"} :
               /\ AfterCredential(p, what)
               /\ what = "would_remove" => order[p].dryRun
               /\ what = "absent" => /\ Place(p) # NoPlace /\ ~order[p].dryRun
                                     /\ store[Place(p)] = None
    <2>1. PICK what \in {"skipped", "failed", "would_remove", "absent"} :
               /\ AfterCredential(p, what)
               /\ what = "would_remove" => order[p].dryRun
               /\ what = "absent" => /\ Place(p) # NoPlace /\ ~order[p].dryRun
                                     /\ store[Place(p)] = None
      BY <1>2
    <2>2. what \in Statuses \ {"none"}
      BY DEF Statuses
    <2>3. Own(p)'
      <3>1. what = "absent" => store' = [store EXCEPT ![Place(p)] = None]
        BY <1>1, <2>1 DEF Stores
      <3> QED
        BY <1>1, <2>1, <2>2, <3>1, CredentialDealt
    <2>4. PICK where \in {"config", "done"}, how \in Ends :
            /\ pc' \in [Processes -> Stages] /\ pc'[p] = where
            /\ outcome' \in [Processes -> Ends] /\ outcome'[p] = how
            /\ \A q \in Processes \ {p} : pc'[q] = pc[q] /\ outcome'[q] = outcome[q]
      BY <1>1, <2>1, <2>2, AfterCredentialEffect
    <2>5. /\ status' \in [Processes -> [Targets -> Statuses]]
          /\ \A q \in Processes \ {p} : status'[q] = status[q]
      BY <2>1, <2>2, ReportEffect DEF AfterCredential, Targets
    <2>6. Types'
      BY <1>1, <2>4, <2>5 DEF Types, TypeOK, Stages, Ends, Stores
    <2>7. ASSUME NEW q \in Processes \ {p} PROVE Kept(q)
      BY <1>1, <2>4, <2>5, <2>7 DEF Kept
    <2> QED
      BY <2>3, <2>6, <2>7 DEF Preserves
  <1>3. CASE /\ Goto(p, "delete") /\ UNCHANGED status
             /\ Place(p) # NoPlace /\ ~order[p].dryRun
    <2>1. /\ pc' \in [Processes -> Stages] /\ pc'[p] = "delete"
          /\ outcome' \in [Processes -> Ends] /\ outcome'[p] = "none"
          /\ \A q \in Processes \ {p} : pc'[q] = pc[q] /\ outcome'[q] = outcome[q]
      BY <1>1, <1>3, MoveEffect DEF Stages
    <2>2. Types'
      BY <1>1, <1>3, <2>1 DEF Types, TypeOK, Stages, Ends, Stores
    <2>3. Own(p)'
      <3>1. Ties(p)' /\ InitInv(p)' /\ LossInv(p)'
        BY <1>1, <1>3, <2>1 DEF Ties, InitInv, LossInv, Place
      <3>2. Unchanged(p)' = Unchanged(p)
        BY <1>1 DEF Unchanged
      <3>3. ClearInv(p)'
        BY <1>1, <1>3, <2>1, <3>2 DEF Own, ClearInv
      <3> QED
        BY <3>1, <3>3 DEF Own
    <2>4. ASSUME NEW q \in Processes \ {p} PROVE Kept(q)
      BY <1>1, <1>3, <2>1, <2>4 DEF Kept
    <2> QED
      BY <2>2, <2>3, <2>4 DEF Preserves
  <1> QED
    BY <1>2, <1>3 DEF ClearExists

\* clear deletes the credential, or fails to.
LEMMA ClearDeletePreserves ==
    ASSUME IInv, NEW p \in Processes, ClearDelete(p)
    PROVE  Preserves(p)
  <1> USE DEF IInv
  <1>1. /\ order[p].kind = "clear" /\ pc[p] = "delete"
        /\ UNCHANGED <<order, found, held, previous>>
        /\ outcome[p] = "none" /\ store \in Stores
        /\ Place(p) \in Places /\ ~order[p].dryRun
    BY DEF ClearDelete, Own, Ties, Types, TypeOK, Stores
  <1>2. ASSUME NEW what \in {"removed", "failed"}, AfterCredential(p, what)
        PROVE  /\ what \in Statuses \ {"none"}
               /\ pc' \in [Processes -> Stages] /\ outcome' \in [Processes -> Ends]
               /\ status' \in [Processes -> [Targets -> Statuses]]
               /\ \A q \in Processes \ {p} : /\ pc'[q] = pc[q]
                                             /\ outcome'[q] = outcome[q]
                                             /\ status'[q] = status[q]
    <2>1. what \in Statuses \ {"none"}
      BY DEF Statuses
    <2>2. /\ status' \in [Processes -> [Targets -> Statuses]]
          /\ \A q \in Processes \ {p} : status'[q] = status[q]
      BY <1>2, <2>1, ReportEffect DEF AfterCredential, Targets
    <2> QED
      BY <1>1, <1>2, <2>1, <2>2, AfterCredentialEffect
  <1>3. CASE Put(p, None) /\ AfterCredential(p, "removed")
    <2>1. /\ store' = [store EXCEPT ![Place(p)] = None]
          /\ store' \in Stores
          /\ lost' \in [Processes -> SUBSET Credentials]
          /\ alone' \in [Processes -> BOOLEAN] /\ alone'[p] = alone[p]
          /\ \A q \in Processes \ {p} :
               /\ lost'[q] = lost[q]
               /\ pc[q] # "idle" => ~alone'[q]
          /\ UNCHANGED <<config, cache, before>>
      BY <1>1, <1>3, PutEffect
    <2>2. Own(p)'
      BY <1>1, <1>2, <1>3, <2>1, CredentialDealt
    <2>3. Types'
      BY <1>1, <1>2, <1>3, <2>1 DEF Types, TypeOK, Stages, Ends, Stores
    <2>4. ASSUME NEW q \in Processes \ {p} PROVE Kept(q)
      BY <1>1, <1>2, <1>3, <2>1, <2>4 DEF Kept
    <2> QED
      BY <2>2, <2>3, <2>4 DEF Preserves
  <1>4. CASE KeepSetup /\ AfterCredential(p, "failed")
    <2>1. UNCHANGED <<store, config, cache, before, alone, lost>>
      BY <1>4 DEF KeepSetup, setup, history
    <2>2. Own(p)'
      BY <1>1, <1>2, <1>4, <2>1, CredentialDealt
    <2>3. Types'
      BY <1>1, <1>2, <1>4, <2>1 DEF Types, TypeOK, Stages, Ends, Stores
    <2>4. ASSUME NEW q \in Processes \ {p} PROVE Kept(q)
      BY <1>1, <1>2, <1>4, <2>1, <2>4 DEF Kept
    <2> QED
      BY <2>2, <2>3, <2>4 DEF Preserves
  <1> QED
    BY <1>3, <1>4 DEF ClearDelete

\* clear --all removes the configuration file.
LEMMA ClearConfigPreserves ==
    ASSUME IInv, NEW p \in Processes, ClearConfig(p)
    PROVE  Preserves(p)
  <1> USE DEF IInv
  <1>1. /\ order[p].kind = "clear" /\ pc[p] = "config"
        /\ UNCHANGED <<store, cache, order, found, held, previous, before, lost>>
        /\ outcome[p] = "none"
    BY DEF ClearConfig, Own, Ties
  <1>2. /\ pc' \in [Processes -> Stages] /\ pc'[p] = "cache"
        /\ outcome' \in [Processes -> Ends] /\ outcome'[p] = "none"
        /\ \A q \in Processes \ {p} : pc'[q] = pc[q] /\ outcome'[q] = outcome[q]
    BY <1>1, MoveEffect DEF ClearConfig, Stages
  <1>3. PICK what \in FileStatuses(config # NoConfig, order[p].dryRun) :
          /\ Reported(p, "config", what)
          /\ IF what = "removed" THEN config' = NoConfig /\ Disturb(p)
                                 ELSE UNCHANGED <<config, alone>>
    BY DEF ClearConfig
  <1>4. /\ what \in {"failed", "absent", "would_remove", "removed"}
        /\ what = "absent" => config = NoConfig
        /\ what = "would_remove" => order[p].dryRun
        /\ what = "removed" => ~order[p].dryRun
    BY DEF FileStatuses
  <1>5. /\ status' \in [Processes -> [Targets -> Statuses]]
        /\ status'[p]["config"] = what
        /\ status'[p]["credential"] = status[p]["credential"]
        /\ \A q \in Processes \ {p} : status'[q] = status[q]
    BY <1>3, <1>4, ReportEffect DEF Targets, Statuses
  <1>6. /\ alone' \in [Processes -> BOOLEAN] /\ alone'[p] = alone[p]
        /\ \A q \in Processes \ {p} :
             (config' = config /\ alone'[q] = alone[q]) \/ pc[q] = "idle" \/ ~alone'[q]
    BY <1>3, DisturbEffect DEF Types, TypeOK
  <1>7. Types'
    <2>1. config' \in Configs \cup {NoConfig, Unreadable}
      BY <1>3 DEF Types, TypeOK
    <2> QED
      BY <1>1, <1>2, <1>5, <1>6, <2>1 DEF Types, TypeOK, Stages, Ends, Stores
  <1>8. Own(p)'
    <2>1. Ties(p)' /\ InitInv(p)' /\ LossInv(p)'
      BY <1>1, <1>2 DEF Ties, InitInv, LossInv, Place
    <2>2. ClearInv(p)'
      <3> SUFFICES ASSUME alone[p] PROVE ClearInv(p)'
        BY <1>6 DEF ClearInv
      <3>1. /\ StoreAsReported(p) /\ ConfigAsReported(p) /\ status[p]["config"] = "none"
            /\ order[p].dryRun => Unchanged(p)
        BY <1>1 DEF Own, ClearInv
      <3>2. config = before[p].config
        BY <3>1 DEF ConfigAsReported, Dealt
      <3>3. StoreAsReported(p)'
        BY <1>1, <1>5, <3>1 DEF StoreAsReported, Dealt, Place
      <3>4. ConfigAsReported(p)'
        BY <1>1, <1>3, <1>4, <1>5, <3>2 DEF ConfigAsReported, Dealt
      <3>5. order[p].dryRun => Unchanged(p)'
        BY <1>1, <1>3, <1>4, <3>1 DEF Unchanged
      <3>6. ~order[p].dryRun /\ what # "failed" => config' = NoConfig
        BY <1>3, <1>4
      <3> QED
        BY <1>1, <1>2, <1>5, <3>3, <3>4, <3>5, <3>6 DEF Own, ClearInv, Place
    <2> QED
      BY <2>1, <2>2 DEF Own
  <1>9. ASSUME NEW q \in Processes \ {p} PROVE Kept(q)
    BY <1>1, <1>2, <1>5, <1>6, <1>9 DEF Kept
  <1> QED
    BY <1>7, <1>8, <1>9 DEF Preserves

\* clear --all removes the cache and sums up.
LEMMA ClearCachePreserves ==
    ASSUME IInv, NEW p \in Processes, ClearCache(p)
    PROVE  Preserves(p)
  <1> USE DEF IInv
  <1>1. /\ order[p].kind = "clear" /\ pc[p] = "cache"
        /\ UNCHANGED <<store, config, order, found, held, previous, before, alone, lost>>
    BY DEF ClearCache, Own, Ties, history
  <1>2. PICK what \in FileStatuses(cache, order[p].dryRun) :
          /\ Reported(p, "cache", what)
          /\ cache' = (cache /\ what # "removed")
          /\ IF \E t \in Targets : status'[p][t] \in {"failed", "skipped"}
               THEN End(p, "failed") ELSE Succeed(p)
    BY DEF ClearCache
  <1>3. what \in {"failed", "absent", "would_remove", "removed"}
    BY DEF FileStatuses
  <1>4. /\ status' \in [Processes -> [Targets -> Statuses]]
        /\ status'[p]["cache"] = what
        /\ status'[p]["config"] = status[p]["config"]
        /\ status'[p]["credential"] = status[p]["credential"]
        /\ \A q \in Processes \ {p} : status'[q] = status[q]
    BY <1>2, <1>3, ReportEffect DEF Targets, Statuses
  <1>5. PICK how \in Ends \ {"none"} :
          /\ End(p, how)
          /\ how # "failed" => \A t \in Targets : status'[p][t] \notin {"failed", "skipped"}
    <2>1. CASE \E t \in Targets : status'[p][t] \in {"failed", "skipped"}
      BY <1>2, <2>1 DEF Ends
    <2>2. CASE ~ \E t \in Targets : status'[p][t] \in {"failed", "skipped"}
      BY <1>2, <2>2 DEF Succeed, Ends
    <2> QED
      BY <2>1, <2>2
  <1>6. /\ pc' \in [Processes -> Stages] /\ pc'[p] = "done"
        /\ outcome' \in [Processes -> Ends] /\ outcome'[p] = how
        /\ \A q \in Processes \ {p} : pc'[q] = pc[q] /\ outcome'[q] = outcome[q]
    BY <1>5, MoveEffect
  <1>7. cache' \in BOOLEAN /\ (cache' => cache)
    BY <1>2
  <1>8. Types'
    BY <1>1, <1>4, <1>6, <1>7 DEF Types, TypeOK, Stages, Ends, Stores
  <1>9. Own(p)'
    <2>1. Ties(p)' /\ InitInv(p)' /\ LossInv(p)'
      BY <1>1, <1>6 DEF Ties, InitInv, LossInv, Place
    <2>2. ClearInv(p)'
      <3> SUFFICES ASSUME alone[p] PROVE ClearInv(p)'
        BY <1>1 DEF ClearInv
      <3>1. StoreAsReported(p)' /\ ConfigAsReported(p)' /\ Unchanged(p)' = Unchanged(p)
        BY <1>1, <1>4
           DEF Own, ClearInv, StoreAsReported, ConfigAsReported, Dealt, Place, Unchanged
      <3>2. ASSUME how # "failed", ~order[p].dryRun
            PROVE  store[Place(p)] = None /\ config = NoConfig /\ ~cache'
        <4>1. /\ status[p]["credential"] \notin {"failed", "skipped"}
              /\ status[p]["config"] \notin {"failed", "skipped"}
              /\ what \notin {"failed", "skipped"}
          BY <1>4, <1>5, <3>2 DEF Targets
        <4>2. store[Place(p)] = None /\ config = NoConfig
          BY <1>1, <3>2, <4>1 DEF Own, ClearInv
        <4>3. ~cache'
          <5>1. what = "absent" => ~cache
            BY DEF FileStatuses
          <5>2. what # "would_remove"
            BY <3>2 DEF FileStatuses
          <5> QED
            BY <1>2, <1>3, <4>1, <5>1, <5>2
        <4> QED
          BY <4>2, <4>3
      <3> QED
        BY <1>1, <1>6, <3>1, <3>2 DEF Own, ClearInv, Place
    <2> QED
      BY <2>1, <2>2 DEF Own
  <1>10. ASSUME NEW q \in Processes \ {p} PROVE Kept(q)
    BY <1>1, <1>4, <1>6, <1>7, <1>10 DEF Kept
  <1> QED
    BY <1>8, <1>9, <1>10 DEF Preserves

------------------------------------------------------------------------------
(* The theorems *)

\* Whatever is installed to begin with, and before any command runs
LEMMA InitIInv == Init => IInv
  <1> SUFFICES ASSUME Init PROVE IInv
    OBVIOUS
  <1> USE DEF Init
  <1>1. TypeOK
    <2>1. config \in Configs \cup {NoConfig, Unreadable}
      BY DefaultPlaceAssumption DEF Configs
    <2>2. store \in [Places -> Credentials \cup {None}]
      BY DEF Credentials
    <2> QED
      BY <2>1, <2>2 DEF TypeOK, Statuses
  <1>2. Types
    <2>1. order \in [Processes -> Orders]
      BY DEF Orders
    <2> QED
      BY <1>1, <2>1 DEF Types, TypeOK, Stores, Files
  <1>3. ASSUME NEW p \in Processes PROVE Own(p)
    BY DEF Own, Ties, InitInv, LossInv, ClearInv, NoOrder
  <1> QED
    BY <1>2, <1>3 DEF IInv

\* Nothing happens.
LEMMA StutterPreserves == ASSUME IInv, UNCHANGED vars PROVE IInv'
  <1> USE DEF IInv, vars, setup, process, history
  <1>1. Types'
    BY DEF Types, TypeOK, Stores
  <1>2. ASSUME NEW p \in Processes PROVE Own(p)'
    <2>1. Kept(p)
      BY DEF Kept
    <2> QED
      BY <2>1, KeptPreserves
  <1> QED
    BY <1>1, <1>2

\* The invariant is inductive.
LEMMA NextPreserves == ASSUME IInv, [Next]_vars PROVE IInv'
  <1>1. ASSUME NEW p \in Processes, Preserves(p) PROVE IInv'
    <2>1. ASSUME NEW q \in Processes PROVE Own(q)'
      <3>1. CASE q = p
        BY <1>1, <3>1 DEF Preserves
      <3>2. CASE q # p
        BY <1>1, <3>2, KeptPreserves DEF Preserves
      <3> QED
        BY <3>1, <3>2
    <2> QED
      BY <1>1, <2>1 DEF IInv, Preserves
  <1>2. ASSUME NEW p \in Processes,
               InitCommand(p) \/ ClearCommand(p) \/ OtherCommands(p)
                 \/ LoadFails(p) \/ Crash(p)
        PROVE  Preserves(p)
    BY <1>2, BeginPreserves, StopPreserves, InitLooksPreserves, SetPreserves,
       InitSavePreserves, InitRollbackPreserves, SessionPreserves,
       ClearExistsPreserves, ClearDeletePreserves, ClearConfigPreserves,
       ClearCachePreserves
       DEF InitCommand, ClearCommand, OtherCommands
  <1> QED
    BY <1>1, <1>2, StutterPreserves DEF Next, Finished

\* The invariant holds in every state of every behaviour of the setup commands.
THEOREM Invariance == Spec => []IInv
  BY InitIInv, NextPreserves, PTL DEF Spec

\* Every variable of the setup commands keeps its type, whatever files they find: a
\* store holds credentials only, and the file is a configuration, unreadable or none.
THEOREM TypeCorrect == Spec => []TypeOK
  <1>1. IInv => TypeOK
    BY DEF IInv, Types
  <1> QED
    BY <1>1, Invariance, PTL

\* Initializer.Initialize, undisturbed: both the credential and the configuration,
\* or neither, unless its rollback fails too.
THEOREM AllOrNothing == Spec => []InitAllOrNothing
  <1>1. IInv => InitAllOrNothing
    BY DEF IInv, Own, InitInv, InitAllOrNothing
  <1> QED
    BY <1>1, Invariance, PTL

\* Wherever it is killed, the configuration is never ahead of the credential.
THEOREM CredentialFirst == Spec => []CredentialComesFirst
  <1>1. IInv => CredentialComesFirst
    <2> SUFFICES ASSUME IInv, NEW p \in Processes, order[p].kind = "init", alone[p]
                 PROVE  /\ config # before[p].config => Complete(p)
                        /\ store \in {before[p].store,
                                      [before[p].store EXCEPT ![Place(p)] = held[p]]}
      BY DEF CredentialComesFirst
    <2>1. Unchanged(p) \/ Half(p) \/ Complete(p)
      <3>1. /\ pc[p] \in Stages /\ outcome[p] \in Ends
            /\ Ties(p) /\ InitInv(p)
        BY DEF IInv, Types, TypeOK, Own, Stages, Ends
      <3>2. CASE pc[p] = "done"
        BY <3>1, <3>2 DEF Ties, InitInv, Ends
      <3>3. CASE pc[p] # "done"
        BY <3>1, <3>3 DEF Ties, InitInv, Stages
      <3> QED
        BY <3>2, <3>3
    <2> QED
      BY <2>1 DEF Unchanged, Half, Complete
  <1> QED
    BY <1>1, Invariance, PTL

\* What config clear reports is what it did.
THEOREM ClearReportsTruly == Spec => []ClearAsReported
  <1>1. IInv => ClearAsReported
    <2> SUFFICES ASSUME IInv, NEW p \in Processes, order[p].kind = "clear",
                        alone[p], pc[p] = "done"
                 PROVE  /\ StoreAsReported(p) /\ ConfigAsReported(p)
                        /\ order[p].dryRun => Unchanged(p)
                        /\ outcome[p] # "failed" /\ ~order[p].dryRun =>
                             /\ store[Place(p)] = None
                             /\ order[p].all => config = NoConfig /\ ~cache
      BY DEF ClearAsReported, StoreAsReported, ConfigAsReported, Dealt
    <2> QED
      BY DEF IInv, Own, ClearInv
  <1> QED
    BY <1>1, Invariance, PTL

\* A Set without WithOverwrite costs nobody a credential.
THEOREM NoLossUninvited == Spec => []NoUninvitedLoss
  <1>1. IInv => NoUninvitedLoss
    BY DEF IInv, Own, LossInv, NoUninvitedLoss
  <1> QED
    BY <1>1, Invariance, PTL

------------------------------------------------------------------------------
(* The flow in which init obtains the credential it stores, Authorize, runs *)
(* before init writes anything and shares no state with the other commands. *)

\* The browser whose request gave this was told what the flow makes of it.
Heard(r) ==
    /\ r.from \in Callbacks /\ r.parsed \in Parsed
    /\ handler[r.from] \in {"deliver", "done"}
    /\ r.parsed = "code" <=> query[r.from] = "code"
    /\ r.parsed = "code" <=> told[r.from] = "complete"

\* Each goroutine of the server answers its browser before it delivers.
Handlers ==
    /\ query \in [Callbacks -> Queries \cup {"none"}]
    /\ handler \in [Callbacks -> {"none", "accepted", "deliver", "done"}]
    /\ told \in [Callbacks -> {"none", "complete", "failed"}]
    /\ \A h \in Callbacks : handler[h] \in {"accepted", "deliver"} => query[h] # "none"
    /\ \A h \in Callbacks : handler[h] = "deliver" => Heard(ResultOf(h))

Deliveries ==
    /\ delivered \in Seq(Results)
    /\ \A i \in 1..Len(delivered) : Heard(delivered[i])

\* Until the flow leaves its select the channel holds all that was delivered; what
\* it then takes is the first of it, which ends the flow unless it is a code.
Choice ==
    /\ flow \in {"start", "wait", "shutdown", "exchange", "done"}
    /\ flow \in {"start", "wait"} => results = delivered /\ taken = NoResult
    /\ flow \in {"start", "wait", "exchange"} => result = "none"
    /\ taken.from \in Callbacks =>
         /\ delivered # <<>> /\ taken = delivered[1]
         /\ taken.parsed = "code" => result \in {"none", "authorized", "exchangeFailed"}
         /\ taken.parsed # "code" => result = taken.parsed

FlowInv == Handlers /\ Deliveries /\ Choice

\* The state of a redirect is compared before anything else in it is looked at.
LEMMA ParsedIsCode ==
    ASSUME NEW q
    PROVE  /\ ParseCallback(q) \in Parsed
           /\ ParseCallback(q) = "code" <=> q = "code"
  BY DEF ParseCallback, Parsed

\* A flow begins with nothing delivered and nothing taken.
LEMMA FlowInitInv ==
    ASSUME FlowInit PROVE FlowInv
  <1> USE CallbacksAssumption
  <1> USE DEF FlowInit
  <1>1. Handlers
    BY DEF Handlers
  <1>2. Deliveries
    BY DEF Deliveries
  <1>3. Choice
    BY DEF Choice, NoResult
  <1> QED
    BY <1>1, <1>2, <1>3 DEF FlowInv

\* What the goroutines have answered and delivered is not touched by the flow.
LEMMA HandlersKept ==
    ASSUME FlowInv, UNCHANGED <<query, handler, told, delivered>>
    PROVE  Handlers' /\ Deliveries'
  BY DEF FlowInv, Handlers, Deliveries, Heard, ResultOf

\* Listening, the pasted redirect, the shutdown, the exchange and the environment
LEMMA FlowMovePreserves ==
    ASSUME FlowInv,
           \/ Listen \/ ReadRedirect \/ GiveUp \/ ShutDown \/ Exchange
           \/ ServerFails \/ Cancel \/ Timeout
    PROVE  FlowInv'
  <1> USE CallbacksAssumption DEF FlowInv, server
  <1>1. UNCHANGED <<query, handler, told, delivered, results>>
    BY DEF Listen, ReadRedirect, GiveUp, Leave, ShutDown, Exchange,
           ServerFails, Cancel, Timeout
  <1>2. CASE Listen \/ ShutDown \/ Exchange
    <2>1. taken' = taken
          /\ \/ flow = "start" /\ flow' = "wait" /\ result' = result
             \/ flow = "start" /\ flow' = "done" /\ result' = "listenFailed"
             \/ flow = "shutdown" /\ flow' \in {"exchange", "done"} /\ result' = result
                /\ (flow' = "exchange" => result = "none")
             \/ flow = "exchange" /\ flow' = "done"
                /\ result' \in {"authorized", "exchangeFailed"}
      BY <1>2 DEF Listen, ShutDown, Exchange, Return
    <2>2. NoResult.from \notin Callbacks
      BY DEF NoResult
    <2>3. taken.from \in Callbacks /\ flow = "exchange" => taken.parsed = "code"
      <3>1. ASSUME taken.from \in Callbacks PROVE taken.parsed \in Parsed
        <4>1. delivered # <<>> /\ taken = delivered[1] /\ delivered \in Seq(Results)
          BY <3>1 DEF Choice, Deliveries
        <4>2. 1 \in 1..Len(delivered)
          BY <4>1, EmptySeq
        <4> QED
          BY <4>1, <4>2 DEF Deliveries, Heard
      <3> QED
        BY <3>1 DEF Choice, Parsed
    <2>4. Choice'
      BY <1>1, <2>1, <2>2, <2>3 DEF Choice
    <2> QED
      BY <1>1, <2>4, HandlersKept
  <1>3. CASE ReadRedirect
    <2>1. PICK q \in Queries :
            GoOnWith([from |-> "stdin", parsed |-> ParseCallback(q)])
      BY <1>3 DEF ReadRedirect
    <2>2. flow = "start" /\ taken'.from = "stdin" /\ taken'.parsed = ParseCallback(q)
          /\ flow' \in {"exchange", "done"} /\ (flow' = "exchange" => result' = result)
      BY <1>3, <2>1 DEF ReadRedirect, GoOnWith, Return
    <2>3. Choice'
      BY <2>2 DEF Choice
    <2> QED
      BY <1>1, <2>3, HandlersKept
  <1>4. CASE GiveUp
    <2>1. flow = "wait" /\ flow' = "shutdown" /\ taken' = taken
          /\ result' \in {"serverFailed", "canceled", "timeout"}
      BY <1>4 DEF GiveUp, Leave
    <2>2. taken.from \notin Callbacks
      BY <2>1 DEF Choice, NoResult
    <2>3. Choice'
      BY <2>1, <2>2 DEF Choice
    <2> QED
      BY <1>1, <2>3, HandlersKept
  <1>5. CASE ServerFails \/ Cancel \/ Timeout
    <2>1. UNCHANGED <<flow, taken, result>>
      BY <1>5 DEF ServerFails, Cancel, Timeout
    <2>2. Choice'
      BY <1>1, <2>1 DEF Choice
    <2> QED
      BY <1>1, <2>2, HandlersKept
  <1> QED
    BY <1>2, <1>3, <1>4, <1>5

\* waitForCallback takes the first result of all.
LEMMA TakeResultPreserves == ASSUME FlowInv, TakeResult PROVE FlowInv'
  <1> USE DEF FlowInv, TakeResult, Leave
  <1>1. /\ UNCHANGED <<query, handler, told, delivered>>
        /\ flow = "wait" /\ flow' = "shutdown" /\ results = delivered
        /\ delivered # <<>> /\ delivered \in Seq(Results)
        /\ taken' = Head(delivered)
        /\ result' = IF taken'.parsed = "code" THEN "none" ELSE taken'.parsed
    BY DEF Choice, Deliveries
  <1>2. taken' = delivered[1]
    BY <1>1
  <1>3. Choice'
    BY <1>1, <1>2 DEF Choice
  <1> QED
    BY <1>1, <1>3, HandlersKept

\* A request arrives, or its goroutine answers it.
LEMMA HandlePreserves ==
    ASSUME FlowInv, NEW h \in Callbacks, Arrive(h) \/ Answer(h)
    PROVE  FlowInv'
  <1> USE DEF FlowInv
  <1>1. /\ UNCHANGED <<flow, results, taken, result, delivered>>
        /\ handler[h] \in {"none", "accepted"}
        /\ \A g \in Callbacks \ {h} :
             query'[g] = query[g] /\ handler'[g] = handler[g] /\ told'[g] = told[g]
    BY DEF Arrive, Answer, Handlers
  <1>2. Choice'
    BY <1>1 DEF Choice
  <1>3. Deliveries'
    BY <1>1 DEF Deliveries, Heard
  <1>4. CASE Arrive(h)
    <2>1. PICK q \in Queries : query' = [query EXCEPT ![h] = q]
      BY <1>4 DEF Arrive
    <2>2. /\ handler' = [handler EXCEPT ![h] = "accepted"] /\ told' = told
          /\ q # "none"
      BY <1>4 DEF Arrive, Queries
    <2>3. Handlers'
      BY <1>1, <2>1, <2>2 DEF Handlers, Heard, ResultOf
    <2> QED
      BY <1>2, <1>3, <2>3
  <1>5. CASE Answer(h)
    <2>1. /\ query' = query
          /\ told' = [told EXCEPT ![h] =
                        IF query[h] # "elsewhere" /\ ParseCallback(query[h]) = "code"
                          THEN "complete" ELSE "failed"]
          /\ handler' = [handler EXCEPT ![h] =
                           IF query[h] = "elsewhere" THEN "done" ELSE "deliver"]
          /\ query[h] # "none"
      BY <1>5 DEF Answer, Handlers
    <2>2. handler'[h] = "deliver" => Heard(ResultOf(h))'
      BY <2>1, ParsedIsCode DEF Handlers, Heard, ResultOf
    <2>3. \A g \in Callbacks \ {h} :
            handler'[g] = "deliver" => Heard(ResultOf(g))'
      BY <1>1, <2>1 DEF Handlers, Heard, ResultOf
    <2>4. Handlers'
      BY <2>1, <2>2, <2>3 DEF Handlers
    <2> QED
      BY <1>2, <1>3, <2>4
  <1> QED
    BY <1>4, <1>5

\* A goroutine delivers its result, or drops it.
LEMMA DeliverPreserves ==
    ASSUME FlowInv, NEW h \in Callbacks, Deliver(h)
    PROVE  FlowInv'
  <1> USE DEF FlowInv, Deliver
  <1>1. PICK r : r = ResultOf(h)
    OBVIOUS
  <1>2. /\ UNCHANGED <<flow, taken, result, query, told>>
        /\ handler[h] = "deliver" /\ handler' = [handler EXCEPT ![h] = "done"]
        /\ Heard(r) /\ r \in Results /\ delivered \in Seq(Results)
    BY <1>1 DEF Handlers, Deliveries, Heard, ResultOf, Results
  <1>3. Handlers'
    BY <1>2 DEF Handlers, Heard, ResultOf
  <1>4. ASSUME NEW x, Heard(x) PROVE Heard(x)'
    BY <1>2, <1>4 DEF Heard, Handlers
  <1>5. CASE results = <<>>
    <2>1. results' = <<r>> /\ delivered' = Append(delivered, r)
      BY <1>1, <1>5
    <2>2. /\ delivered' \in Seq(Results) /\ Len(delivered') = Len(delivered) + 1
          /\ \A i \in 1..Len(delivered) : delivered'[i] = delivered[i]
          /\ delivered'[Len(delivered) + 1] = r /\ Len(delivered) \in Nat
          /\ delivered' # <<>>
      BY <1>2, <2>1, AppendProperties, LenProperties
    <2>3. Deliveries'
      <3>1. PICK list : list = delivered'
        OBVIOUS
      <3>2. ASSUME NEW i \in 1..Len(list) PROVE Heard(list[i])'
        <4>1. PICK x : x = list[i]
          OBVIOUS
        <4>2. Heard(x)
          <5>1. CASE i \in 1..Len(delivered)
            BY <2>2, <3>1, <4>1, <5>1 DEF Deliveries
          <5>2. CASE i = Len(delivered) + 1
            BY <1>2, <2>2, <3>1, <4>1, <5>2
          <5> QED
            BY <2>2, <3>1, <3>2, <5>1, <5>2
        <4> QED
          BY <1>4, <4>1, <4>2
      <3> QED
        BY <2>2, <3>1, <3>2 DEF Deliveries, Heard
    <2>4. delivered # <<>> => delivered'[1] = delivered[1]
      BY <1>2, <2>2, EmptySeq
    <2>5. flow \in {"start", "wait"} => results' = delivered'
      BY <1>5, <2>1 DEF Choice
    <2>6. Choice'
      BY <1>2, <2>2, <2>4, <2>5 DEF Choice
    <2> QED
      BY <1>3, <2>3, <2>6
  <1>6. CASE results # <<>>
    <2>1. UNCHANGED <<results, delivered>>
      BY <1>6
    <2>2. Deliveries' /\ Choice'
      BY <1>2, <1>4, <2>1 DEF Deliveries, Choice
    <2> QED
      BY <1>3, <2>2
  <1> QED
    BY <1>5, <1>6

\* Every step of the flow and of its server keeps the invariant.
LEMMA FlowNextPreserves == FlowInv /\ [FlowNext]_flowVars => FlowInv'
  <1> SUFFICES ASSUME FlowInv, [FlowNext]_flowVars PROVE FlowInv'
    OBVIOUS
  <1> USE CallbacksAssumption
  <1>1. CASE FlowOver \/ UNCHANGED flowVars
    <2>1. UNCHANGED <<flow, query, handler, told, results, taken, result, delivered>>
      BY <1>1 DEF FlowOver, flowVars, server
    <2>2. Choice'
      BY <2>1 DEF FlowInv, Choice
    <2> QED
      BY <2>1, <2>2, HandlersKept DEF FlowInv
  <1> QED
    BY <1>1, FlowMovePreserves, TakeResultPreserves, HandlePreserves, DeliverPreserves
       DEF FlowNext, Flow, Handle

\* The invariant holds of every behaviour.
THEOREM FlowInvariance == FlowSpec => []FlowInv
  BY FlowInitInv, FlowNextPreserves, PTL DEF FlowSpec

\* waitForCallback: the first result delivered decides, and a code is only
\* exchanged if it came with the state of this flow.
THEOREM FirstDecides == FlowSpec => []FirstResultDecides
  <1>1. FlowInv => FirstResultDecides
    <2> SUFFICES ASSUME FlowInv, taken.from \in Callbacks
                 PROVE  taken = delivered[1]
                        /\ (taken.parsed = "code" <=> query[taken.from] = "code")
      BY DEF FirstResultDecides
    <2>1. delivered # <<>> /\ taken = delivered[1] /\ delivered \in Seq(Results)
      BY DEF FlowInv, Choice, Deliveries
    <2>2. 1 \in 1..Len(delivered)
      BY <2>1, EmptySeq
    <2> QED
      BY <2>1, <2>2 DEF FlowInv, Deliveries, Heard
  <1> QED
    BY <1>1, FlowInvariance, PTL

\* The page the deciding browser is shown says how the flow goes on.
THEOREM BrowserKnows == FlowSpec => []BrowserToldTheSame
  <1>1. FlowInv => BrowserToldTheSame
    <2> SUFFICES ASSUME FlowInv, taken.from \in Callbacks
                 PROVE  told[taken.from] = "complete" <=>
                          result \in {"none", "authorized", "exchangeFailed"}
      BY DEF BrowserToldTheSame
    <2>1. delivered # <<>> /\ taken = delivered[1] /\ delivered \in Seq(Results)
      BY DEF FlowInv, Choice, Deliveries
    <2>2. 1 \in 1..Len(delivered)
      BY <2>1, EmptySeq
    <2>3. Heard(taken)
      BY <2>1, <2>2 DEF FlowInv, Deliveries
    <2> QED
      BY <2>3 DEF FlowInv, Choice, Heard, Parsed
  <1> QED
    BY <1>1, FlowInvariance, PTL

------------------------------------------------------------------------------
(* The types of a flow *)

\* What FlowTypeOK says beyond FlowInv: the channel holds one result at most, and
\* what is taken from it is a result.
RestTyped ==
    /\ stdin \in BOOLEAN /\ serving \in BOOLEAN /\ canceled \in BOOLEAN /\ expired \in BOOLEAN
    /\ results = <<>> \/ \E r \in Results : results = <<r>>
    /\ taken \in Results \cup {NoResult}
    /\ result \in FlowResults

\* Every way a flow is left by what was parsed is one of its results.
LEMMA GoneOnWith ==
    ASSUME NEW r \in Results, GoOnWith(r), RestTyped
    PROVE  taken' \in Results /\ result' \in FlowResults
  BY DEF GoOnWith, Return, Results, Parsed, RestTyped, FlowResults

\* No step changes a type.
LEMMA RestKept == ASSUME FlowInv, RestTyped, [FlowNext]_flowVars PROVE RestTyped'
  <1> USE DEF RestTyped
  <1>1. CASE Listen \/ Exchange \/ ShutDown
    BY <1>1 DEF Listen, Exchange, ShutDown, Return, server, FlowResults
  <1>2. CASE ReadRedirect
    <2>1. UNCHANGED <<stdin, results, serving, canceled, expired>>
      BY <1>2 DEF ReadRedirect, server
    <2>2. PICK q \in Queries : GoOnWith([from |-> "stdin", parsed |-> ParseCallback(q)])
      BY <1>2 DEF ReadRedirect
    <2>3. [from |-> "stdin", parsed |-> ParseCallback(q)] \in Results
      BY ParsedIsCode DEF Results
    <2> QED
      BY <2>1, <2>2, <2>3, GoneOnWith
  <1>3. CASE TakeResult
    <2>1. PICK r \in Results : results = <<r>>
      BY <1>3 DEF TakeResult
    <2>2. taken' = r /\ results' = <<>>
      BY <1>3, <2>1 DEF TakeResult
    <2>3. UNCHANGED <<stdin, canceled, expired>> /\ serving' = FALSE /\ result' \in FlowResults
      BY <1>3, <2>2 DEF TakeResult, Leave, Results, Parsed, FlowResults
    <2> QED
      BY <2>2, <2>3
  <1>4. CASE GiveUp
    BY <1>4 DEF GiveUp, Leave, FlowResults
  <1>5. ASSUME NEW h \in Callbacks, Arrive(h) \/ Answer(h) PROVE RestTyped'
    BY <1>5 DEF Arrive, Answer
  <1>6. ASSUME NEW h \in Callbacks, Deliver(h) PROVE RestTyped'
    <2>1. ResultOf(h) \in Results
      BY ParsedIsCode DEF ResultOf, Results
    <2> QED
      BY <1>6, <2>1 DEF Deliver
  <1>7. CASE ServerFails \/ Cancel \/ Timeout \/ FlowOver \/ UNCHANGED flowVars
    BY <1>7 DEF ServerFails, Cancel, Timeout, FlowOver, flowVars, server
  <1> QED
    BY <1>1, <1>2, <1>3, <1>4, <1>5, <1>6, <1>7 DEF FlowNext, Flow, Handle

\* Every variable of a flow keeps its type, the channel of capacity one included.
THEOREM FlowTypeCorrect == FlowSpec => []FlowTypeOK
  <1>1. FlowInit => RestTyped
    BY DEF FlowInit, RestTyped, FlowResults
  <1>2. FlowInv /\ RestTyped /\ [FlowNext]_flowVars => RestTyped'
    BY RestKept
  <1>3. FlowInv /\ RestTyped => FlowTypeOK
    <2> SUFFICES ASSUME FlowInv, RestTyped PROVE FlowTypeOK
      OBVIOUS
    <2>1. results \in Seq(Results) /\ Len(results) \in 0..1
      <3>1. CASE results = <<>>
        BY <3>1
      <3>2. ASSUME NEW r \in Results, results = <<r>>
            PROVE  results \in Seq(Results) /\ Len(results) \in 0..1
        <4>1. Len(<<r>>) = 1 /\ <<r>> \in Seq(Results)
          OBVIOUS
        <4> QED
          BY <3>2, <4>1
      <3> QED
        BY <3>1, <3>2 DEF RestTyped
    <2> QED
      BY <2>1 DEF FlowInv, Handlers, Deliveries, Choice, RestTyped, FlowTypeOK
  <1> QED
    BY <1>1, <1>2, <1>3, FlowInvariance, PTL DEF FlowSpec

------------------------------------------------------------------------------
(* A flow runs down *)

\* The stages Authorize has to come, and a request's goroutine
FlowLeft ==
    CASE flow = "start" -> 4 [] flow = "wait" -> 3 [] flow = "shutdown" -> 2
      [] flow = "exchange" -> 1 [] flow = "done" -> 0

HandlerLeft(h) ==
    CASE handler[h] = "none" -> 3 [] handler[h] = "accepted" -> 2
      [] handler[h] = "deliver" -> 1 [] handler[h] = "done" -> 0

\* Each step of Authorize leads to a later stage, each step of a goroutine moves that
\* one on, and neither is set back by another's.
FlowRunsDown ==
    /\ FlowLeft \in Nat /\ FlowLeft' \in Nat
    /\ IF Flow THEN FlowLeft' < FlowLeft ELSE FlowLeft' = FlowLeft
    /\ \A h \in Callbacks :
         /\ HandlerLeft(h) \in Nat /\ HandlerLeft(h)' \in Nat
         /\ IF Arrive(h) \/ Handle(h) THEN HandlerLeft(h)' < HandlerLeft(h)
                                      ELSE HandlerLeft(h)' = HandlerLeft(h)

\* A step of Authorize
LEMMA FlowGoesOn ==
    ASSUME FlowInv, FlowInv', FlowNext
    PROVE  /\ FlowLeft \in Nat /\ FlowLeft' \in Nat
           /\ IF Flow THEN FlowLeft' < FlowLeft ELSE FlowLeft' = FlowLeft
  <1>1. /\ flow \in {"start", "wait", "shutdown", "exchange", "done"}
        /\ flow' \in {"start", "wait", "shutdown", "exchange", "done"}
    BY DEF FlowInv, Choice
  <1>2. FlowLeft \in Nat /\ FlowLeft' \in Nat
    BY <1>1 DEF FlowLeft
  <1>3. CASE Flow
    <2>1. \/ flow = "start" /\ flow' \in {"wait", "exchange", "done"}
          \/ flow = "wait" /\ flow' = "shutdown"
          \/ flow = "shutdown" /\ flow' \in {"exchange", "done"}
          \/ flow = "exchange" /\ flow' = "done"
      BY <1>3 DEF Flow, Listen, ReadRedirect, GoOnWith, TakeResult, GiveUp, Leave, ShutDown,
                  Exchange, Return
    <2> QED
      BY <1>2, <1>3, <2>1 DEF FlowLeft
  <1>4. CASE ~Flow
    <2>1. flow' = flow
      BY <1>4 DEF FlowNext, Arrive, Handle, Answer, Deliver, ServerFails, Cancel, Timeout,
                  FlowOver, flowVars
    <2> QED
      BY <1>2, <1>4, <2>1 DEF FlowLeft
  <1> QED
    BY <1>3, <1>4, <1>2

\* A step of a goroutine
LEMMA HandlerGoesOn ==
    ASSUME FlowInv, FlowInv', FlowNext, NEW h \in Callbacks
    PROVE  /\ HandlerLeft(h) \in Nat /\ HandlerLeft(h)' \in Nat
           /\ IF Arrive(h) \/ Handle(h) THEN HandlerLeft(h)' < HandlerLeft(h)
                                        ELSE HandlerLeft(h)' = HandlerLeft(h)
  <1>1. /\ handler[h] \in {"none", "accepted", "deliver", "done"}
        /\ handler'[h] \in {"none", "accepted", "deliver", "done"}
        /\ handler \in [Callbacks -> {"none", "accepted", "deliver", "done"}]
    BY DEF FlowInv, Handlers
  <1>2. HandlerLeft(h) \in Nat /\ HandlerLeft(h)' \in Nat
    BY <1>1 DEF HandlerLeft
  <1>3. CASE Arrive(h) \/ Handle(h)
    <2>1. \/ handler[h] = "none" /\ handler'[h] = "accepted"
          \/ handler[h] = "accepted" /\ handler'[h] \in {"deliver", "done"}
          \/ handler[h] = "deliver" /\ handler'[h] = "done"
      BY <1>1, <1>3 DEF Arrive, Handle, Answer, Deliver
    <2> QED
      BY <1>2, <1>3, <2>1 DEF HandlerLeft
  <1>4. CASE ~(Arrive(h) \/ Handle(h))
    <2>1. handler'[h] = handler[h]
      <3>1. CASE \E k \in Callbacks : Arrive(k) \/ Handle(k)
        <4>1. PICK k \in Callbacks : Arrive(k) \/ Handle(k)
          BY <3>1
        <4>2. k # h
          BY <1>4, <4>1
        <4> QED
          BY <1>1, <4>1, <4>2 DEF Arrive, Handle, Answer, Deliver
      <3>2. CASE ~\E k \in Callbacks : Arrive(k) \/ Handle(k)
        BY <3>2 DEF FlowNext, Flow, Listen, ReadRedirect, TakeResult, GiveUp, Leave, ShutDown,
                    Exchange, ServerFails, Cancel, Timeout, FlowOver, flowVars, server
      <3> QED
        BY <3>1, <3>2
    <2> QED
      BY <1>2, <1>4, <2>1 DEF HandlerLeft
  <1> QED
    BY <1>3, <1>4, <1>2

\* Neither Authorize nor a goroutine of its server can go on for ever.
THEOREM AuthorizeRunsDown == FlowSpec => [][FlowRunsDown]_flowVars
  <1>1. FlowInv /\ FlowInv' /\ [FlowNext]_flowVars => [FlowRunsDown]_flowVars
    BY FlowGoesOn, HandlerGoesOn DEF FlowRunsDown
  <1> QED
    BY <1>1, FlowInvariance, PTL DEF FlowSpec

=============================================================================
