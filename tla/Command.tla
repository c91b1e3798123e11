-------------------------------- MODULE Command --------------------------------
(***************************************************************************)
(* One authenticated command from its arguments to its exit code: the      *)
(* session it opens, the calls it makes through doJSON, and the token      *)
(* source under every single attempt (internal/cmd/cmdutil, mecmd, the     *)
(* command packages, cmd/sptfy/main.go).                                   *)
(*                                                                         *)
(* This module composes: the credential and all that happens to it are     *)
(* those of Session, of which this command is the process Self; a call is  *)
(* what HttpRequest models, reduced to its retries and its verdicts. Other *)
(* processes use and replace the same credential meanwhile.                *)
(***************************************************************************)
EXTENDS Integers, Sequences, FiniteSets

CONSTANTS
    Sessions, Scopes, Required, RotateChoices, MaxGrants, MaxRefreshes, \* of Session
    Self,        \* the process of this command
    MaxAttempts  \* requests one read may cost

ASSUME ScopesAssumption == Scopes # {}
ASSUME RequiredAssumption == Required \subseteq Scopes
ASSUME RotateChoicesAssumption ==
    RotateChoices \subseteq BOOLEAN /\ RotateChoices # {}
ASSUME MaxGrantsAssumption == MaxGrants \in Nat \ {0}
ASSUME MaxRefreshesAssumption == MaxRefreshes \in Nat
ASSUME SelfAssumption == Self \in Sessions
ASSUME MaxAttemptsAssumption == MaxAttempts \in Nat \ {0}

VARIABLES
    slot, live, pc, current, base, fresh, scopes, sent, stored, mishap,
                 \* of Session
    program,     \* the command
    phase,       \* where it is
    call,        \* which of its calls is under way
    attempt,     \* how many requests that call cost so far
    wire,        \* the request of the last attempt: what has become of it
    used,        \* the envelope the last request went out with
    landed,      \* how many mutations the service performed (history)
    err,         \* the error at hand
    trouble,     \* what went wrong (history)
    told,        \* what the user is told of the mutation or the answer
    shown,       \* the scopes me prints
    code         \* the exit code

credential == <<slot, live, pc, current, base, fresh, scopes, sent, stored, mishap>>
doing == <<phase, call, attempt>>
ending == <<err, trouble, told, shown, code>>
vars == <<credential, program, doing, wire, used, landed, ending>>

S == INSTANCE Session

\* The commands as the scopes they check and the calls they make: me, as every list
\* of what is the user's own; a get of the catalog, as every search, which asks for
\* no scope; an items add of more tracks than fit one request, which reads before it
\* writes. (The other mutations of a playlist do too; one of the library is the
\* second half of this one.)
Me == [name |-> "me", needs |-> Required, calls |-> <<"read">>]
Get == [name |-> "get", needs |-> {}, calls |-> <<"read">>]
ItemsAdd == [name |-> "items add", needs |-> Required, calls |-> <<"read", "mutation", "mutation">>]

Programs == {Me, Get, ItemsAdd}

Codes == {"none", "success", "generic", "usage", "config", "upstream"}
Answers == {"ok", "transient", "unauthorized", "forbidden", "refused", "broken"}
Troubles == {"none", "arguments", "backend", "session", "invalid grant", "persist",
             "refresh", "unauthorized", "forbidden", "refused", "upstream", "transport",
             "position", "output", "killed"}
Causes == {"ErrInvalidGrant", "ErrPersistRefresh", "ErrRefresh", "ErrUnauthorized",
           "ErrForbidden", "ErrUpstream", "ErrInvalidResponse", "errAddPositionExceeds",
           "MutationOutcomeUncertainError", "MutationRejectedError",
           "MutationReconciliationError", "PartialMutationError",
           "PostMutationOutputError"}

TypeOK ==
    /\ S!TypeOK
    /\ program \in Programs
    /\ phase \in {"arguments", "call", "await", "wait", "output", "failing", "record",
                  "exit", "done"}
    /\ call \in DOMAIN program.calls
    /\ attempt \in 0..MaxAttempts
    /\ wire \in {"idle", "request"} \cup Answers
    /\ used \in S!Envelopes \cup {S!NoCredential}
    /\ landed \in 0..2
    /\ err \in [causes : SUBSET Causes, code : Codes]
    /\ trouble \in Troubles /\ code \in Codes
    /\ told \in {"none", "done", "unwritten", "partial", "failed", "rejected",
                 "uncertain"}
    /\ shown \subseteq Scopes

------------------------------------------------------------------------------
(* Errors: what errors.Is and errors.As find in one, and the exit code attached *)

Err(causes) == [causes |-> causes, code |-> "none"]
NoError == Err({})

Wrapped(e, type) == [e EXCEPT !.causes = @ \cup {type}]

\* exitcode.New: of several codes the outermost counts.
Coded(e, exit) == [e EXCEPT !.code = exit]

\* exitcode.Code
Code(e) == CASE e = NoError -> "success"
             [] e # NoError /\ e.code = "none" -> "generic"
             [] OTHER -> e.code

\* Mutant: the error of the transport hides what the token source said.
TransportedBlindly(e) == Err({"ErrUpstream"})

\* transportError, around what http.Client.Do returned
Transported(e) == Wrapped(e, "ErrUpstream")

Init ==
    /\ S!Init
    /\ program \in Programs
    /\ phase = "arguments" /\ call = 1 /\ attempt = 0
    /\ wire = "idle" /\ used = S!NoCredential /\ landed = 0
    /\ err = NoError /\ trouble = "none" /\ told = "none" /\ shown = {} /\ code = "none"

Mutating == program.calls[call] = "mutation"

\* Mutant: a mutation whose answer is missing has failed.
PlainlyFailed(e) == e

\* What doJSON makes of an error that may come after the send, and of one that
\* denies the request
Doubted(e) == IF Mutating THEN Wrapped(e, "MutationOutcomeUncertainError") ELSE e
Refused(e) == IF Mutating THEN Wrapped(e, "MutationRejectedError") ELSE e

\* classifyMutation, which is cmdutil.Classify but for the first line
Classify(e) ==
    CASE "errAddPositionExceeds" \in e.causes -> "usage"
      [] e.causes \cap {"ErrInvalidGrant", "ErrPersistRefresh", "ErrUnauthorized",
                        "ErrForbidden"} # {} -> "config"
      [] OTHER -> "upstream"

Classified(e) == Coded(e, Classify(e))

\* A call, or what comes between two, fails.
Fail(why, e) ==
    /\ phase' = "failing" /\ trouble' = why /\ err' = e
    /\ UNCHANGED <<program, call, attempt, told, shown, code>>

------------------------------------------------------------------------------
(* Opening the session *)

\* A reference, a field, a page token or the number of arguments is wrong.
BadArguments ==
    /\ phase = "arguments"
    /\ err' = Coded(Err({}), "usage")
    /\ phase' = "done" /\ trouble' = "arguments" /\ code' = Code(err')
    /\ UNCHANGED <<credential, program, call, attempt, wire, used, landed, told, shown>>

\* --backend names none, or one for tests only: nothing is opened. me wraps the
\* usage error once more.
BadBackend ==
    /\ phase = "arguments"
    /\ LET e == Coded(Err({}), "usage")
       IN  err' = IF program = Me THEN Coded(e, "config") ELSE e
    /\ phase' = "done" /\ trouble' = "backend" /\ code' = Code(err')
    /\ UNCHANGED <<credential, program, call, attempt, wire, used, landed, told, shown>>

\* There is no credential, or it lacks a scope: the deferred Close is still to come.
NoSession ==
    /\ err' = Coded(Err({}), "config")
    /\ phase' = "exit" /\ trouble' = "session" /\ told' = "failed"
    /\ UNCHANGED <<program, call, attempt, shown, code>>

OpenSession ==
    /\ phase = "arguments"
    /\ S!Open(Self, program.needs)
    /\ IF pc'[Self] = "ready"
         THEN phase' = "call" /\ UNCHANGED <<program, call, attempt, ending>>
         ELSE NoSession
    /\ UNCHANGED <<wire, used, landed>>

OpenFails ==
    /\ phase = "arguments"
    /\ S!OpenFails(Self)
    /\ NoSession
    /\ UNCHANGED <<wire, used, landed>>

------------------------------------------------------------------------------
(* An attempt: the transport asks the token source first *)

Go ==
    /\ phase' = "await" /\ attempt' = attempt + 1
    /\ wire' = "request" /\ used' = base[Self]
    /\ UNCHANGED <<program, call, landed, ending>>

SendNow == phase = "call" /\ S!SendRequest(Self) /\ Go
SaveAndSend == phase = "call" /\ S!Save(Self) /\ Go

Refresh ==
    /\ phase = "call"
    /\ S!NeedToken(Self) \/ S!RefreshAccepted(Self)
    /\ UNCHANGED <<program, doing, wire, used, landed, ending>>

\* No token: the request is not sent, and Do fails with what the token source said.
FailUnsent(why, cause) == Fail(why, Doubted(Transported(Err({cause}))))

NoToken ==
    /\ phase = "call"
    /\ \/ S!RefreshLost(Self) /\ FailUnsent("refresh", "ErrRefresh")
       \/ S!RefreshRefused(Self) /\ FailUnsent("invalid grant", "ErrInvalidGrant")
       \/ /\ S!SaveFails(Self)
          /\ IF base[Self].scopes = {} THEN FailUnsent("refresh", "ErrRefresh")
                                       ELSE FailUnsent("persist", "ErrPersistRefresh")
    /\ UNCHANGED <<wire, used, landed>>

Expire ==
    /\ S!Expire(Self)
    /\ UNCHANGED <<program, doing, wire, used, landed, ending>>

------------------------------------------------------------------------------
(* The service: a request lost on the way back, or whose command has ended,  *)
(* may still be served                                                       *)

Serve ==
    /\ wire = "request"
    /\ IF Mutating
         THEN \/ landed' = landed + 1 /\ wire' \in {"ok", "transient", "broken"}
              \/ wire' \in Answers \ {"ok"} /\ UNCHANGED landed
         ELSE wire' \in Answers /\ UNCHANGED landed
    /\ UNCHANGED <<credential, program, doing, used, ending>>

NextCall ==
    IF call < Len(program.calls)
      THEN /\ call' = call + 1 /\ attempt' = 0 /\ phase' = "call"
           /\ UNCHANGED <<program, ending>>
      ELSE phase' = "output" /\ UNCHANGED <<program, call, attempt, ending>>

AttemptsSpent == attempt = IF Mutating THEN 1 ELSE MaxAttempts

\* --position is behind the end of the list just read.
PositionExceeds ==
    /\ program = ItemsAdd /\ call = 1
    /\ Fail("position", Err({"errAddPositionExceeds"}))

Receive ==
    /\ phase = "await"
    /\ \/ wire = "ok" /\ (NextCall \/ PositionExceeds)
       \/ /\ wire = "transient" /\ ~AttemptsSpent
          /\ phase' = "wait" /\ UNCHANGED <<program, call, attempt, ending>>
       \/ /\ wire = "transient" /\ AttemptsSpent
          /\ Fail("upstream", Doubted(Err({"ErrUpstream"})))
       \/ wire = "broken" /\ Fail("upstream", Doubted(Err({"ErrInvalidResponse"})))
       \/ wire = "unauthorized" /\ Fail(wire, Refused(Err({"ErrUnauthorized"})))
       \/ wire = "forbidden" /\ Fail(wire, Refused(Err({"ErrForbidden"})))
       \/ wire = "refused" /\ Fail(wire, Refused(Err({"ErrUpstream"})))
    /\ UNCHANGED <<credential, wire, used, landed>>

\* No answer comes, and maybe the request has not arrived either.
Lost ==
    /\ phase = "await"
    /\ Fail("transport", Doubted(Transported(NoError)))
    /\ UNCHANGED <<credential, wire, used, landed>>

\* Mutant: the request is sent again as it was.
SendAsBefore ==
    /\ phase = "wait"
    /\ phase' = "await" /\ attempt' = attempt + 1 /\ wire' = "request"
    /\ sent' = used
    /\ UNCHANGED <<slot, live, pc, current, base, fresh, scopes, stored, mishap,
                   program, call, used, landed, ending>>

WaitOver ==
    /\ phase = "wait"
    /\ phase' = "call"
    /\ UNCHANGED <<credential, program, call, attempt, wire, used, landed, ending>>

------------------------------------------------------------------------------
(* The end *)

\* The mutations before the call under way, which were all confirmed
Confirmed == Cardinality({i \in 1..(call - 1) : program.calls[i] = "mutation"})

Uncertain == "MutationOutcomeUncertainError" \in err.causes

\* addPlaylistItems and the command around it, on an error with nothing confirmed
\* or one that leaves it in doubt what was applied
Report ==
    /\ phase = "failing" /\ (Confirmed = 0 \/ Uncertain)
    /\ phase' = "exit"
    /\ IF Uncertain
         THEN /\ told' = "uncertain"
              /\ err' = Classified(Wrapped(err, "MutationReconciliationError"))
         ELSE /\ told' = IF "MutationRejectedError" \in err.causes
                           THEN "rejected" ELSE "failed"
              /\ err' = Classified(err)
    /\ UNCHANGED <<credential, program, call, attempt, wire, used, landed, trouble,
                   shown, code>>

\* A batch is rejected after others were confirmed: there is a record to write.
StopPartial ==
    /\ phase = "failing" /\ Confirmed > 0 /\ ~Uncertain
    /\ phase' = "record" /\ err' = Wrapped(err, "PartialMutationError")
    /\ UNCHANGED <<credential, program, call, attempt, wire, used, landed, trouble,
                   told, shown, code>>

\* If it cannot be written, it is part of the error.
WriteRecord ==
    /\ phase = "record"
    /\ phase' = "exit" /\ told' = "partial"
    /\ \/ err' = Classified(err)
       \/ err' = Coded(Wrapped(err, "PostMutationOutputError"), Code(Classified(err)))
    /\ UNCHANGED <<credential, program, call, attempt, wire, used, landed, trouble,
                   shown, code>>

WriteOutput ==
    /\ phase = "output"
    /\ phase' = "exit"
    /\ \/ told' = "done" /\ UNCHANGED <<err, trouble>>
       \/ /\ told' = "unwritten" /\ trouble' = "output"
          /\ err' = Coded(IF Mutating THEN Wrapped(NoError, "PostMutationOutputError")
                                      ELSE NoError, "generic")
    /\ shown' = IF program = Me THEN scopes[Self] ELSE {}
    /\ UNCHANGED <<credential, program, call, attempt, wire, used, landed, code>>

\* The deferred Close; main exits with the code of the error.
Close ==
    /\ phase = "exit"
    /\ S!Exit(Self)
    /\ phase' = "done" /\ code' = Code(err)
    /\ UNCHANGED <<program, call, attempt, wire, used, landed, err, trouble, told, shown>>

\* The user interrupts: the process is gone, as main installs no handler.
Kill ==
    /\ phase \notin {"arguments", "done"}
    /\ S!Exit(Self)
    /\ phase' = "done" /\ trouble' = "killed"
    /\ UNCHANGED <<program, call, attempt, wire, used, landed, err, told, shown, code>>

\* Bounds: what others do when the command has ended is left out, and nobody
\* authorizes anew meanwhile (which MCSession has).
Others ==
    /\ phase # "done"
    /\ (\E s \in Sessions \ {Self} : S!Step(s)) \/ S!Clear
    /\ UNCHANGED <<program, doing, wire, used, landed, ending>>

Finished == phase = "done" /\ UNCHANGED vars

------------------------------------------------------------------------------

Progress ==
    \/ OpenSession \/ OpenFails \/ SendNow \/ SaveAndSend \/ Refresh \/ NoToken
    \/ Receive \/ Lost \/ WaitOver \/ Report \/ StopPartial \/ WriteRecord
    \/ WriteOutput \/ Close

Next == Progress \/ BadArguments \/ BadBackend \/ Expire \/ Serve \/ Kill \/ Others \/ Finished

Spec == Init /\ [][Next]_vars

------------------------------------------------------------------------------
(* Properties *)

\* The command, its retries included, does to the credential and to what goes out
\* with it only what Session allows: what MCSession shows of sessions holds of
\* every attempt of every call.
ImplementsSession == S!Spec

MutationsAsked == Cardinality({i \in DOMAIN program.calls : program.calls[i] = "mutation"})

\* What the user is told is true, now and later: success and a failed write are of
\* mutations that took effect, a record of a part is of exactly the batches that did,
\* a failure and a rejection are of mutations that did not and never will; a token
\* that cannot be had never makes a request count as sent.
HonestEnd ==
    /\ told \in {"done", "unwritten"} => landed = MutationsAsked
    /\ told = "partial" => landed = Confirmed /\ wire # "request"
    /\ told \in {"failed", "rejected"} => landed = 0 /\ ~(Mutating /\ wire = "request")

\* By the exit code alone a script can tell what came first: that the user must
\* authorize again or see to the configuration (3), that Spotify failed, refused or
\* was out of reach (5), that the command can never work as it was given (2), that
\* all was done and only writing failed (1). It does not matter what wraps the
\* cause on its way to main: the transport around the token source, the doubt or
\* the rejection of a mutation, a part that was applied, a record that cannot be
\* written. (me answers a wrong --backend with 3, the others with 2.)
ExitSeparates ==
    code # "none" =>
        trouble \in
            CASE code = "success" -> {"none"}
              [] code = "generic" -> {"output"}
              [] code = "usage" -> {"arguments", "backend", "position"}
              [] code = "config" -> {"session", "backend", "invalid grant", "persist",
                                     "unauthorized", "forbidden"}
              [] code = "upstream" -> {"refresh", "refused", "upstream", "transport"}

\* The scopes me prints are those of the token its answer came with, however often
\* it was refreshed on the way and whatever others stored meanwhile.
MeShowsWhatItUsed ==
    program = Me /\ told = "done" => shown = used.scopes

\* "MutationOutcomeUncertainError reports a request that may have taken effect":
\* the user is only sent to inspect and reconcile after a request went out.
UncertainMayHaveTakenEffect == told = "uncertain" => attempt > 0
=============================================================================
