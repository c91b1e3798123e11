----------------------------- MODULE CommandProofs -----------------------------
(***************************************************************************)
(* What Command promises, for any number of other processes and of         *)
(* attempts. A command is first shown to be a session like the others, so  *)
(* that what SessionProofs says of the credential holds of it; what the    *)
(* user is told is then proved with that at hand. The batches of the       *)
(* library commands (LibraryBatch) follow, and what any of them prints     *)
(* (Output), for texts, lists and --fields of any length.                  *)
(***************************************************************************)
EXTENDS Command, LibraryBatch, Output, FiniteSetTheorems, SequenceTheorems,
        WellFoundedInduction, TLAPS

SP == INSTANCE SessionProofs

\* Session as Command takes it and as SessionProofs takes it is the same: where it
\* starts,
LEMMA SameInit == S!Init <=> SP!Init
  BY DEF S!Init, SP!Init, S!NoCredential, SP!NoCredential,
         S!AccessToken, SP!AccessToken

\* how it moves,
LEMMA SameNext == [S!Next]_S!vars <=> [SP!Next]_SP!vars
  BY DEF S!vars, SP!vars, S!sessionVars, SP!sessionVars, S!history, SP!history,
         S!Next, SP!Next, S!Step, SP!Step, S!Open, SP!Open,
         S!OpenFails, SP!OpenFails, S!Expire, SP!Expire,
         S!SendRequest, SP!SendRequest, S!NeedToken, SP!NeedToken,
         S!Refreshed, SP!Refreshed, S!Issue, SP!Issue,
         S!RefreshAccepted, SP!RefreshAccepted, S!RefreshLost, SP!RefreshLost,
         S!RefreshRefused, SP!RefreshRefused, S!SaveFails, SP!SaveFails,
         S!Save, SP!Save, S!Exit, SP!Exit, S!Reauthorize, SP!Reauthorize,
         S!Clear, SP!Clear, S!NewGrant, SP!NewGrant, S!Usable, SP!Usable,
         S!AccessToken, SP!AccessToken, S!NoCredential, SP!NoCredential

\* and what is said of it.
LEMMA SameProperties ==
    /\ S!TypeOK <=> SP!TypeOK
    /\ S!ScopesFollowToken <=> SP!ScopesFollowToken
    /\ S!NothingUsedUnsaved <=> SP!NothingUsedUnsaved
    /\ S!StoredStaysUsable <=> SP!StoredStaysUsable
  BY DEF S!TypeOK, SP!TypeOK, S!Envelopes, SP!Envelopes,
         S!NoCredential, SP!NoCredential, S!AccessToken, SP!AccessToken,
         S!Usable, SP!Usable, S!ScopesFollowToken, SP!ScopesFollowToken,
         S!NothingUsedUnsaved, SP!NothingUsedUnsaved,
         S!StoredStaysUsable, SP!StoredStaysUsable

\* What SessionProofs proves, of Session as Command takes it.
LEMMA SessionKeeps ==
    S!Spec => [](S!TypeOK /\ S!ScopesFollowToken /\ S!NothingUsedUnsaved
                 /\ S!StoredStaysUsable)
  <1> USE ScopesAssumption, RequiredAssumption, RotateChoicesAssumption,
          MaxGrantsAssumption, MaxRefreshesAssumption
  <1>1. SP!Spec => []SP!TypeOK
    BY SP!TypeCorrect
  <1>2. SP!Spec => []SP!ScopesFollowToken
    BY SP!ScopesAreCurrent
  <1>3. SP!Spec => []SP!NothingUsedUnsaved
    BY SP!UsedWasSaved
  <1>4. SP!Spec => []SP!StoredStaysUsable
    BY SP!StoredIsUsable
  <1> QED
    BY <1>1, <1>2, <1>3, <1>4, SameInit, SameNext, SameProperties, PTL
       DEF S!Spec, SP!Spec

------------------------------------------------------------------------------
(* The command is a session *)

\* A command never becomes another.
LEMMA ProgramStays == Spec => [](program \in Programs)
  <1>1. Init => program \in Programs
    BY DEF Init
  <1>2. program \in Programs /\ [Next]_vars => (program \in Programs)'
    <2> SUFFICES ASSUME program \in Programs, [Next]_vars PROVE program' = program
      OBVIOUS
    <2>1. CASE UNCHANGED vars
      BY <2>1 DEF vars
    <2>2. CASE OpenSession \/ OpenFails \/ SendNow \/ SaveAndSend \/ Refresh \/ NoToken
      BY <2>2 DEF OpenSession, OpenFails, NoSession, SendNow, SaveAndSend, Refresh,
             NoToken, Go, FailUnsent, Fail
    <2>3. CASE Receive \/ Lost \/ WaitOver
      BY <2>3 DEF Receive, Lost, WaitOver, NextCall, PositionExceeds, Fail
    <2>4. CASE Report \/ StopPartial \/ WriteRecord \/ WriteOutput \/ Close
      BY <2>4 DEF Report, StopPartial, WriteRecord, WriteOutput, Close
    <2>5. CASE \/ BadArguments \/ BadBackend \/ Expire \/ Serve \/ Kill \/ Others
               \/ Finished
      BY <2>5 DEF BadArguments, BadBackend, Expire, Serve, Kill, Others, Finished, vars
    <2> QED
      BY <2>1, <2>2, <2>3, <2>4, <2>5 DEF Next, Progress
  <1> QED
    BY <1>1, <1>2, PTL DEF Spec

\* Whatever the command does, the credential sees a step of a session or none.
LEMMA StepIsSessions == program \in Programs /\ [Next]_vars => [S!Next]_S!vars
  <1> SUFFICES ASSUME program \in Programs, [Next]_vars PROVE [S!Next]_S!vars
    OBVIOUS
  <1> USE SelfAssumption
  <1>1. program.needs \in {{}, Required}
    <2>1. Me.needs = Required /\ Get.needs = {} /\ ItemsAdd.needs = Required
      BY DEF Me, Get, ItemsAdd
    <2> QED
      BY <2>1 DEF Programs
  <1>2. ASSUME NEW s \in Sessions, S!Step(s) PROVE S!Next
    BY <1>2 DEF S!Next
  <1>3. ASSUME UNCHANGED credential PROVE UNCHANGED S!vars
    BY <1>3 DEF credential, S!vars, S!sessionVars, S!history
  <1>4. CASE OpenSession \/ OpenFails
    BY <1>1, <1>2, <1>4 DEF OpenSession, OpenFails, S!Step
  <1>5. CASE SendNow \/ SaveAndSend \/ Refresh \/ NoToken
    BY <1>2, <1>5 DEF SendNow, SaveAndSend, Refresh, NoToken, S!Step
  <1>6. CASE Expire \/ Close \/ Kill
    BY <1>2, <1>6 DEF Expire, Close, Kill, S!Step
  <1>7. CASE Others
    BY <1>2, <1>7 DEF Others, S!Next
  <1>8. CASE \/ Serve \/ Receive \/ Lost \/ WaitOver \/ Report \/ StopPartial \/ WriteRecord
             \/ WriteOutput \/ BadArguments \/ BadBackend \/ Finished \/ UNCHANGED vars
    BY <1>3, <1>8 DEF Serve, Receive, Lost, WaitOver, Report, StopPartial, WriteRecord,
           WriteOutput, BadArguments, BadBackend, Finished, vars
  <1> QED
    BY <1>4, <1>5, <1>6, <1>7, <1>8 DEF Next, Progress

\* The calls of a command, their retries included, do to the credential only what
\* Session allows: doJSON's attempts all go through persistentTokenSource.Token.
THEOREM CommandIsSession == Spec => ImplementsSession
  <1>1. Init => S!Init
    BY DEF Init
  <1> QED
    BY <1>1, ProgramStays, StepIsSessions, PTL DEF Spec, S!Spec, ImplementsSession

\* What is proved of sessions holds while this command runs: its requests never
\* carry a token that was not saved, and unless a mishap cost a refresh token the
\* credential it leaves in the store can still be refreshed.
THEOREM CredentialOutlivesCommand ==
    Spec => [](S!TypeOK /\ S!ScopesFollowToken /\ S!NothingUsedUnsaved
               /\ S!StoredStaysUsable)
  BY CommandIsSession, SessionKeeps, PTL DEF ImplementsSession

------------------------------------------------------------------------------
(* Errors *)

Errors == [causes : SUBSET Causes, code : Codes]

\* What a call can fail with, and the code that main must exit with for each
CallTroubles == {"position", "invalid grant", "persist", "unauthorized", "forbidden",
                 "refresh", "refused", "upstream", "transport"}

ExitOf(why) ==
    CASE why = "position" -> "usage"
      [] why \in {"invalid grant", "persist", "unauthorized", "forbidden"} -> "config"
      [] OTHER -> "upstream"

\* The types that wrap a cause on its way to main
Wrappers == {"ErrUpstream", "MutationOutcomeUncertainError", "MutationRejectedError",
             "MutationReconciliationError", "PartialMutationError",
             "PostMutationOutputError"}

\* Neither the transport, nor doJSON, nor the command hides from errors.Is what it
\* wraps.
LEMMA WrappingKeepsClass ==
    ASSUME NEW e \in Errors, NEW type \in Wrappers
    PROVE  Wrapped(e, type) \in Errors /\ Classify(Wrapped(e, type)) = Classify(e)
  <1>1. /\ Wrapped(e, type) = [causes |-> e.causes \cup {type}, code |-> e.code]
        /\ e.causes \subseteq Causes /\ e.code \in Codes
    BY DEF Wrapped, Errors
  <1>2. type \in Causes
    BY DEF Wrappers, Causes
  <1>3. Wrapped(e, type) \in Errors
    BY <1>1, <1>2 DEF Errors
  <1>4. \A c : c \in {"errAddPositionExceeds", "ErrInvalidGrant", "ErrPersistRefresh",
                      "ErrUnauthorized", "ErrForbidden"} =>
               (c \in Wrapped(e, type).causes <=> c \in e.causes)
    BY <1>1 DEF Wrappers
  <1>5. "errAddPositionExceeds" \in Wrapped(e, type).causes
          <=> "errAddPositionExceeds" \in e.causes
    BY <1>4
  <1>6. Wrapped(e, type).causes \cap {"ErrInvalidGrant", "ErrPersistRefresh",
                                      "ErrUnauthorized", "ErrForbidden"} # {}
          <=> e.causes \cap {"ErrInvalidGrant", "ErrPersistRefresh",
                             "ErrUnauthorized", "ErrForbidden"} # {}
    BY <1>4
  <1> HIDE DEF Wrapped
  <1>7. Classify(Wrapped(e, type)) = Classify(e)
    BY <1>5, <1>6 DEF Classify
  <1> QED
    BY <1>3, <1>7

\* So do the doubt and the rejection of a mutation.
LEMMA VerdictKeepsClass ==
    ASSUME NEW e \in Errors
    PROVE  /\ Doubted(e) \in Errors /\ Classify(Doubted(e)) = Classify(e)
           /\ Refused(e) \in Errors /\ Classify(Refused(e)) = Classify(e)
           /\ Transported(e) \in Errors /\ Classify(Transported(e)) = Classify(e)
           /\ Mutating => /\ "MutationOutcomeUncertainError" \in Doubted(e).causes
                          /\ "MutationRejectedError" \in Refused(e).causes
  <1>1. {"MutationOutcomeUncertainError", "MutationRejectedError", "ErrUpstream"}
          \subseteq Wrappers
    BY DEF Wrappers
  <1>2. \A type : type \in Wrapped(e, type).causes
    BY DEF Wrapped, Errors
  <1> QED
    BY <1>1, <1>2, WrappingKeepsClass DEF Doubted, Refused, Transported

\* What the classes are of the errors that calls fail with
LEMMA CauseClasses ==
    /\ \A c \in {"ErrRefresh", "ErrUpstream", "ErrInvalidResponse"} :
         Err({c}) \in Errors /\ Classify(Err({c})) = "upstream"
    /\ \A c \in {"ErrInvalidGrant", "ErrPersistRefresh", "ErrUnauthorized",
                 "ErrForbidden"} :
         Err({c}) \in Errors /\ Classify(Err({c})) = "config"
    /\ Err({"errAddPositionExceeds"}) \in Errors
    /\ Classify(Err({"errAddPositionExceeds"})) = "usage"
    /\ NoError \in Errors /\ Classify(NoError) = "upstream"
  <1>1. \A c \in Causes : Err({c}) \in Errors /\ Err({c}).causes = {c}
    BY DEF Err, Errors, Codes
  <1>2. NoError \in Errors /\ NoError.causes = {}
    BY DEF NoError, Err, Errors, Codes
  <1>3. ASSUME NEW c \in {"ErrRefresh", "ErrUpstream", "ErrInvalidResponse"}
        PROVE  Err({c}) \in Errors /\ Classify(Err({c})) = "upstream"
    BY <1>1 DEF Classify, Causes
  <1>4. ASSUME NEW c \in {"ErrInvalidGrant", "ErrPersistRefresh", "ErrUnauthorized",
                          "ErrForbidden"}
        PROVE  Err({c}) \in Errors /\ Classify(Err({c})) = "config"
    <2>1. c \in Causes /\ c # "errAddPositionExceeds"
      BY DEF Causes
    <2>2. c \in Err({c}).causes /\ "errAddPositionExceeds" \notin Err({c}).causes
      BY <1>1, <2>1
    <2>3. Err({c}).causes \cap {"ErrInvalidGrant", "ErrPersistRefresh",
                                "ErrUnauthorized", "ErrForbidden"} # {}
      BY <2>2
    <2> QED
      BY <1>1, <2>1, <2>2, <2>3 DEF Classify
  <1>5. Err({"errAddPositionExceeds"}) \in Errors
        /\ Classify(Err({"errAddPositionExceeds"})) = "usage"
    BY <1>1 DEF Classify, Causes
  <1>6. Classify(NoError) = "upstream"
    BY <1>2 DEF Classify
  <1> QED
    BY <1>2, <1>3, <1>4, <1>5, <1>6

\* A code, once attached, is what main exits with.
LEMMA CodedFacts ==
    ASSUME NEW e \in Errors, NEW exit \in Codes \ {"none"}
    PROVE  /\ Coded(e, exit) \in Errors
           /\ Coded(e, exit).causes = e.causes /\ Coded(e, exit).code = exit
           /\ Coded(e, exit) # NoError
           /\ Code(Coded(e, exit)) = exit
  <1>1. Coded(e, exit) = [causes |-> e.causes, code |-> exit]
    BY DEF Coded, Errors
  <1>2. e.causes \subseteq Causes
    BY DEF Errors
  <1>3. NoError.code = "none"
    BY DEF NoError, Err
  <1>4. Coded(e, exit) \in Errors /\ Coded(e, exit).causes = e.causes
        /\ Coded(e, exit).code = exit
    BY <1>1, <1>2 DEF Errors
  <1>5. Coded(e, exit) # NoError
    BY <1>3, <1>4
  <1> QED
    BY <1>4, <1>5 DEF Code

\* Every class is an exit code.
LEMMA ClassTyped == \A e : Classify(e) \in {"usage", "config", "upstream"}
  BY DEF Classify

------------------------------------------------------------------------------
(* What the user is told *)

\* The commands and their calls.
LEMMA ProgramFacts ==
    ASSUME program \in Programs, call \in DOMAIN program.calls
    PROVE  /\ Me # ItemsAdd
           /\ program = ItemsAdd =>
                /\ DOMAIN program.calls = 1..3 /\ Len(program.calls) = 3
                /\ MutationsAsked = 2 /\ call \in 1..3
                /\ Mutating <=> call > 1
                /\ Confirmed = IF call = 3 THEN 1 ELSE 0
           /\ program # ItemsAdd =>
                /\ DOMAIN program.calls = 1..1 /\ Len(program.calls) = 1
                /\ MutationsAsked = 0 /\ call = 1
                /\ ~Mutating /\ Confirmed = 0
  <1> DEFINE Asked == {i \in DOMAIN program.calls : program.calls[i] = "mutation"}
             Past == {i \in 1..(call - 1) : program.calls[i] = "mutation"}
  <1>1. Me # ItemsAdd /\ Get # ItemsAdd
    BY DEF Me, Get, ItemsAdd
  <1>2. Me.calls = <<"read">> /\ Get.calls = <<"read">>
        /\ ItemsAdd.calls = <<"read", "mutation", "mutation">>
    BY DEF Me, Get, ItemsAdd
  <1>3. CASE program = ItemsAdd
    <2>1. DOMAIN program.calls = 1..3 /\ Len(program.calls) = 3 /\ call \in 1..3
          /\ program.calls[1] = "read" /\ program.calls[2] = "mutation"
          /\ program.calls[3] = "mutation"
      BY <1>2, <1>3
    <2>2. Asked = {2, 3}
      BY <2>1
    <2>3. MutationsAsked = 2
      <3>1. Cardinality({2}) = 1 /\ IsFiniteSet({2})
        BY FS_Singleton
      <3>2. Cardinality({2} \cup {3}) = Cardinality({2}) + 1
        BY <3>1, FS_AddElement
      <3>3. {2, 3} = {2} \cup {3}
        OBVIOUS
      <3> QED
        BY <2>2, <3>1, <3>2, <3>3 DEF MutationsAsked
    <2>4. Mutating <=> call > 1
      BY <2>1 DEF Mutating
    <2>5. Confirmed = IF call = 3 THEN 1 ELSE 0
      <3>1. CASE call = 3
        <4>1. Past = {2}
          BY <2>1, <3>1
        <4> QED
          BY <3>1, <4>1, FS_Singleton DEF Confirmed
      <3>2. CASE call # 3
        <4>1. Past = {}
          BY <2>1, <3>2
        <4> QED
          BY <3>2, <4>1, FS_EmptySet DEF Confirmed
      <3> QED
        BY <3>1, <3>2
    <2> QED
      BY <1>1, <1>3, <2>1, <2>3, <2>4, <2>5
  <1>4. CASE program # ItemsAdd
    <2>1. program.calls = <<"read">>
      BY <1>2, <1>4 DEF Programs
    <2>2. DOMAIN program.calls = 1..1 /\ Len(program.calls) = 1 /\ call = 1
          /\ program.calls[1] = "read"
      BY <2>1
    <2>3. Asked = {} /\ Past = {}
      BY <2>2
    <2>4. MutationsAsked = 0 /\ Confirmed = 0
      BY <2>3, FS_EmptySet DEF MutationsAsked, Confirmed
    <2>5. ~Mutating
      BY <2>2 DEF Mutating
    <2> QED
      BY <1>1, <1>4, <2>2, <2>4, <2>5
  <1> QED
    BY <1>3, <1>4

\* The command is where its answers say; nothing is said before its end.
Control ==
    /\ program \in Programs
    /\ call \in DOMAIN program.calls
    /\ phase \in {"arguments", "call", "await", "wait", "output", "failing", "record",
                  "exit", "done"}
    /\ phase = "arguments" => call = 1
    /\ phase \in {"arguments", "call", "wait", "output"} => wire # "request"
    /\ Mutating /\ phase = "call" => attempt = 0
    /\ Mutating /\ phase = "await" => attempt = 1
    /\ phase = "wait" => ~Mutating
    /\ phase = "output" => call = Len(program.calls) /\ wire = "ok"
    /\ phase = "record" => Mutating
    /\ phase \notin {"exit", "done"} => told = "none"
    /\ phase # "done" => code = "none"

\* A mutation is performed at most once, by the request it was sent with, and an
\* answer is what the service did; the mutations before it were all performed.
Effect ==
    /\ landed \in {Confirmed, Confirmed + 1}
    /\ landed = Confirmed + 1 => Mutating /\ wire \in {"ok", "transient", "broken"}
    /\ phase = "call" => landed = Confirmed
    /\ Mutating /\ phase = "await" /\ wire = "ok" => landed = Confirmed + 1
    /\ Mutating /\ phase = "output" => landed = Confirmed + 1
    /\ Mutating /\ phase = "failing" /\ ~Uncertain => wire # "request" /\ landed = Confirmed
    /\ phase = "record" => wire # "request" /\ landed = Confirmed

\* What was said is what the last answer of the last call said.
Said ==
    /\ told \in {"done", "unwritten"} =>
         call = Len(program.calls) /\ wire = "ok" /\ (Mutating => landed = Confirmed + 1)
    /\ told \in {"failed", "rejected"} => landed = 0 /\ ~(Mutating /\ wire = "request")
    /\ told = "partial" => Mutating /\ landed = Confirmed /\ wire # "request"

\* The error at hand tells what went wrong: as a class while it is wrapped, as a
\* code when it leaves the command.
Blame ==
    /\ err \in Errors
    /\ phase \in {"arguments", "call", "await", "wait", "output"} =>
         err = NoError /\ trouble = "none"
    /\ phase \in {"failing", "record"} =>
         trouble \in CallTroubles /\ Classify(err) = ExitOf(trouble)
    /\ phase = "exit" =>
         \/ trouble = "none" /\ err = NoError
         \/ trouble = "output" /\ err.code = "generic"
         \/ trouble = "session" /\ err.code = "config"
         \/ trouble \in CallTroubles /\ err.code = ExitOf(trouble)
    /\ ExitSeparates

\* From a request to its answer the token source holds what the request went out
\* with, and nothing newer.
Bearer ==
    /\ phase \in {"await", "wait", "output"} =>
         pc[Self] = "ready" /\ used = current[Self]
    /\ program = Me /\ told = "done" => shown = used.scopes

IInv == Control /\ Effect /\ Said /\ Blame /\ Bearer

\* What depends on the command and the call alone
LEMMA CallFacts ==
    ASSUME UNCHANGED <<program, call>>
    PROVE  (Mutating' <=> Mutating) /\ Confirmed' = Confirmed
  BY DEF Mutating, Confirmed

\* Counts are numbers.
LEMMA ConfirmedTyped == ASSUME Control PROVE Confirmed \in 0..1 /\ (~Mutating => Confirmed = 0)
  BY ProgramFacts DEF Control

\* Where every command starts.
LEMMA InitIInv == Init => IInv
  <1> SUFFICES ASSUME Init PROVE IInv
    OBVIOUS
  <1> USE DEF Init
  <1>1. 1 \in DOMAIN program.calls
    <2>1. Me.calls = <<"read">> /\ Get.calls = <<"read">>
          /\ ItemsAdd.calls = <<"read", "mutation", "mutation">>
      BY DEF Me, Get, ItemsAdd
    <2>2. program.calls = <<"read">> \/ program.calls = <<"read", "mutation", "mutation">>
      BY <2>1 DEF Programs
    <2> QED
      BY <2>2
  <1>2. ~Mutating /\ Confirmed = 0
    BY <1>1, ProgramFacts
  <1>3. Control /\ Effect
    BY <1>1, <1>2 DEF Control, Effect
  <1>4. Said /\ Bearer
    BY DEF Said, Bearer
  <1>5. Blame
    BY CauseClasses DEF Blame, ExitSeparates
  <1> QED
    BY <1>3, <1>4, <1>5 DEF IInv

\* What another process does to the credential, it does not do to this one's
\* token source.
LEMMA OthersLeaveSelf ==
    ASSUME S!TypeOK, NEW s \in Sessions \ {Self}, S!Step(s)
    PROVE  pc'[Self] = pc[Self] /\ current'[Self] = current[Self]
  <1>1. /\ pc \in [Sessions -> {"closed", "ready", "refresh", "persist", "failed"}]
        /\ current \in [Sessions -> S!Envelopes \cup {S!NoCredential}]
        /\ Self \in Sessions /\ s # Self
    BY SelfAssumption DEF S!TypeOK
  <1>2. CASE \E needs \in {{}, Required} : S!Open(s, needs)
    BY <1>1, <1>2 DEF S!Open
  <1>3. CASE S!Save(s) \/ S!Exit(s)
    BY <1>1, <1>3 DEF S!Save, S!Exit
  <1>4. CASE S!OpenFails(s) \/ S!NeedToken(s) \/ S!RefreshRefused(s) \/ S!SaveFails(s)
    BY <1>1, <1>4 DEF S!OpenFails, S!NeedToken, S!RefreshRefused, S!SaveFails
  <1>5. CASE S!Expire(s) \/ S!SendRequest(s)
    BY <1>5 DEF S!Expire, S!SendRequest, S!sessionVars
  <1>6. CASE S!RefreshAccepted(s) \/ S!RefreshLost(s)
    <2>1. UNCHANGED current /\ \E where : pc' = [pc EXCEPT ![s] = where]
      BY <1>6 DEF S!RefreshAccepted, S!RefreshLost
    <2> QED
      BY <1>1, <2>1
  <1> QED
    BY <1>2, <1>3, <1>4, <1>5, <1>6 DEF S!Step

\* Steps of the credential alone: of this command's token source while it is asked
\* for a token, of the clock, of other processes.
LEMMA CredentialPreserves ==
    ASSUME IInv, S!TypeOK, Refresh \/ Expire \/ Others
    PROVE  IInv'
  <1>1. UNCHANGED <<program, phase, call, attempt, wire, used, landed, err, trouble,
                    told, shown, code>>
    BY DEF Refresh, Expire, Others, doing, ending
  <1>2. phase # "call" => pc'[Self] = pc[Self] /\ current'[Self] = current[Self]
    <2>1. CASE Refresh
      BY <2>1 DEF Refresh
    <2>2. CASE Expire
      BY <2>2 DEF Expire, S!Expire
    <2>3. CASE Others
      BY <2>3, OthersLeaveSelf DEF Others, S!Clear, S!sessionVars
    <2> QED
      BY <2>1, <2>2, <2>3
  <1>3. Control' /\ Effect' /\ Said' /\ Blame'
    BY <1>1, CallFacts DEF IInv, Control, Effect, Said, Blame, ExitSeparates, Uncertain
  <1>4. Bearer'
    BY <1>1, <1>2 DEF IInv, Bearer
  <1> QED
    BY <1>3, <1>4 DEF IInv

\* A command that fails before it is known whether there is a credential.
LEMMA ArgumentsPreserve ==
    ASSUME IInv, BadArguments \/ BadBackend
    PROVE  IInv'
  <1> USE DEF IInv
  <1>1. /\ phase = "arguments" /\ phase' = "done" /\ code' = Code(err')
        /\ UNCHANGED <<program, call, attempt, wire, used, landed, told, shown>>
        /\ Mutating' <=> Mutating
        /\ Confirmed' = Confirmed
    BY CallFacts DEF BadArguments, BadBackend
  <1>2. NoError \in Errors /\ NoError = Err({}) /\ {"usage", "config"} \subseteq Codes \ {"none"}
    BY CauseClasses DEF NoError, Codes
  <1>3. Coded(NoError, "usage") \in Errors /\ Code(Coded(NoError, "usage")) = "usage"
    BY <1>2, CodedFacts
  <1>4. /\ Coded(Coded(NoError, "usage"), "config") \in Errors
        /\ Code(Coded(Coded(NoError, "usage"), "config")) = "config"
    BY <1>2, <1>3, CodedFacts
  <1>5. /\ err' \in Errors
        /\ \/ code' = "usage" /\ trouble' \in {"arguments", "backend"}
           \/ code' = "config" /\ trouble' = "backend"
    <2>1. CASE BadArguments
      BY <1>1, <1>2, <1>3, <2>1 DEF BadArguments
    <2>2. CASE BadBackend
      BY <1>1, <1>2, <1>3, <1>4, <2>2 DEF BadBackend
    <2> QED
      BY <2>1, <2>2
  <1>6. Control' /\ Effect' /\ Said'
    BY <1>1 DEF Control, Effect, Said
  <1>7. Blame' /\ Bearer'
    BY <1>1, <1>5 DEF Control, Blame, ExitSeparates, Bearer
  <1> QED
    BY <1>6, <1>7

\* The session is opened or not.
LEMMA OpeningPreserves ==
    ASSUME IInv, OpenSession \/ OpenFails
    PROVE  IInv'
  <1> USE DEF IInv
  <1>1. phase = "arguments" /\ UNCHANGED <<program, call, attempt, wire, used, landed, shown, code>>
        /\ (Mutating' <=> Mutating) /\ Confirmed' = Confirmed
    BY CallFacts DEF OpenSession, OpenFails, NoSession, ending
  <1>2. ~Mutating /\ Confirmed = 0 /\ landed = 0 /\ told = "none" /\ code = "none"
    BY <1>1, ProgramFacts DEF Control, Effect
  <1>3. CASE phase' = "call" /\ UNCHANGED ending
    <2>1. UNCHANGED <<err, trouble, told, shown, code>>
      BY <1>3 DEF ending
    <2> QED
      BY <1>1, <1>2, <1>3, <2>1 DEF Control, Effect, Said, Blame, ExitSeparates, Bearer
  <1>4. CASE NoSession
    <2>1. phase' = "exit" /\ trouble' = "session" /\ told' = "failed"
          /\ err' = Coded(Err({}), "config")
      BY <1>4 DEF NoSession
    <2>2. err' \in Errors /\ err'.code = "config"
      BY <2>1, CauseClasses, CodedFacts DEF NoError, Codes
    <2>3. Control' /\ Effect' /\ Said'
      BY <1>1, <1>2, <2>1 DEF Control, Effect, Said
    <2>4. Blame' /\ Bearer'
      BY <1>1, <1>2, <2>1, <2>2 DEF Blame, ExitSeparates, Bearer
    <2> QED
      BY <2>3, <2>4
  <1> QED
    BY <1>3, <1>4 DEF OpenSession, OpenFails

\* The next attempt begins.
LEMMA WaitPreserves == ASSUME IInv, WaitOver PROVE IInv'
  <1> USE DEF IInv
  <1>1. phase = "wait" /\ phase' = "call"
        /\ UNCHANGED <<program, call, attempt, wire, used, landed, err, trouble, told,
                       shown, code>>
        /\ (Mutating' <=> Mutating) /\ Confirmed' = Confirmed
    BY CallFacts DEF WaitOver, ending
  <1>2. landed = Confirmed
    BY <1>1 DEF Control, Effect
  <1> QED
    BY <1>1, <1>2 DEF Control, Effect, Said, Blame, ExitSeparates, Bearer

\* The answer is shown, or it cannot be.
LEMMA OutputPreserves ==
    ASSUME IInv, S!ScopesFollowToken, WriteOutput
    PROVE  IInv'
  <1> USE DEF IInv
  <1>1. phase = "output" /\ phase' = "exit"
        /\ UNCHANGED <<program, call, attempt, wire, used, landed, code>>
        /\ (Mutating' <=> Mutating) /\ Confirmed' = Confirmed
    BY CallFacts DEF WriteOutput
  <1>2. program = Me => shown' = used.scopes
    BY <1>1, SelfAssumption DEF WriteOutput, Bearer, S!ScopesFollowToken
  <1>3. \/ told' = "done" /\ UNCHANGED <<err, trouble>>
        \/ /\ told' = "unwritten" /\ trouble' = "output"
           /\ err' \in Errors /\ err'.code = "generic"
    <2>1. NoError \in Errors /\ Wrapped(NoError, "PostMutationOutputError") \in Errors
      BY CauseClasses, WrappingKeepsClass DEF Wrappers
    <2>2. \A e \in Errors : Coded(e, "generic") \in Errors /\ Coded(e, "generic").code = "generic"
      BY CodedFacts DEF Codes
    <2> QED
      BY <2>1, <2>2 DEF WriteOutput
  <1>4. Control' /\ Effect'
    BY <1>1 DEF Control, Effect
  <1>5. Said'
    <2>1. call = Len(program.calls) /\ wire = "ok" /\ (Mutating => landed = Confirmed + 1)
      BY <1>1 DEF Control, Effect
    <2>2. told' \in {"done", "unwritten"}
      BY <1>3
    <2> QED
      BY <1>1, <2>1, <2>2 DEF Said
  <1>6. Blame'
    BY <1>1, <1>3 DEF Control, Blame, ExitSeparates
  <1>7. Bearer'
    BY <1>1, <1>2, <1>3 DEF Bearer
  <1> QED
    BY <1>4, <1>5, <1>6, <1>7

\* The command returns to main, which exits with the code of the error.
LEMMA ClosePreserves == ASSUME IInv, Close PROVE IInv'
  <1> USE DEF IInv
  <1>1. phase = "exit" /\ phase' = "done" /\ code' = Code(err)
        /\ UNCHANGED <<program, call, attempt, wire, used, landed, err, trouble, told,
                       shown>>
        /\ (Mutating' <=> Mutating) /\ Confirmed' = Confirmed
    BY CallFacts DEF Close
  <1>2. Control' /\ Effect' /\ Said' /\ Bearer'
    BY <1>1 DEF Control, Effect, Said, Bearer
  <1>3. ExitSeparates'
    <2>1. NoError.code = "none"
      BY DEF NoError, Err
    <2>2. err.code # "none" => Code(err) = err.code
      BY <2>1 DEF Code
    <2>3. CASE trouble = "none" /\ err = NoError
      BY <1>1, <2>3 DEF Code, ExitSeparates
    <2>4. CASE trouble = "output" /\ err.code = "generic"
      BY <1>1, <2>2, <2>4 DEF ExitSeparates
    <2>5. CASE trouble = "session" /\ err.code = "config"
      BY <1>1, <2>2, <2>5 DEF ExitSeparates
    <2>6. CASE trouble \in CallTroubles /\ err.code = ExitOf(trouble)
      <3>1. code' = ExitOf(trouble) /\ trouble' = trouble
        BY <1>1, <2>2, <2>6 DEF ExitOf
      <3> QED
        BY <2>6, <3>1 DEF ExitOf, CallTroubles, ExitSeparates
    <2> QED
      BY <1>1, <2>3, <2>4, <2>5, <2>6 DEF Blame
  <1>4. Blame'
    BY <1>1, <1>3 DEF Blame
  <1> QED
    BY <1>2, <1>4

\* The process ends where it is.
LEMMA KillPreserves == ASSUME IInv, Kill PROVE IInv'
  <1> USE DEF IInv
  <1>1. phase \notin {"arguments", "done"} /\ phase' = "done" /\ trouble' = "killed"
        /\ UNCHANGED <<program, call, attempt, wire, used, landed, err, told, shown, code>>
        /\ (Mutating' <=> Mutating) /\ Confirmed' = Confirmed
    BY CallFacts DEF Kill
  <1>2. Control' /\ Effect' /\ Said' /\ Bearer'
    BY <1>1 DEF Control, Effect, Said, Bearer
  <1>3. Blame'
    BY <1>1 DEF Control, Blame, ExitSeparates
  <1> QED
    BY <1>2, <1>3

\* A request goes out with what the token source then holds.
LEMMA SendPreserves ==
    ASSUME IInv, S!TypeOK, SendNow \/ SaveAndSend
    PROVE  IInv'
  <1> USE DEF IInv
  <1>1. /\ phase = "call" /\ phase' = "await" /\ wire' = "request" /\ attempt' = attempt + 1
        /\ UNCHANGED <<program, call, landed, err, trouble, told, shown, code>>
        /\ Mutating' <=> Mutating
        /\ Confirmed' = Confirmed
    BY CallFacts DEF SendNow, SaveAndSend, Go, ending
  <1>2. pc'[Self] = "ready" /\ used' = current'[Self]
    BY SelfAssumption DEF SendNow, SaveAndSend, Go, S!SendRequest, S!Save,
       S!sessionVars, S!TypeOK
  <1>3. Confirmed \in 0..1
    BY ConfirmedTyped
  <1>4. Control' /\ Effect'
    BY <1>1, <1>3 DEF Control, Effect
  <1>5. Said' /\ Blame' /\ Bearer'
    BY <1>1, <1>2 DEF Control, Said, Blame, ExitSeparates, Bearer
  <1> QED
    BY <1>4, <1>5

\* A call fails with an error that tells why; that of a mutation is in doubt, or the
\* request was answered and had no effect.
LEMMA FailPreserves ==
    ASSUME IInv, NEW why \in CallTroubles, NEW e \in Errors, Fail(why, e),
           phase \in {"call", "await"}, UNCHANGED <<wire, used, landed>>,
           Classify(e) = ExitOf(why),
           Mutating /\ "MutationOutcomeUncertainError" \notin e.causes =>
             wire # "request" /\ landed = Confirmed
    PROVE  IInv'
  <1> USE DEF IInv
  <1>1. /\ phase' = "failing" /\ trouble' = why /\ err' = e
        /\ UNCHANGED <<program, call, attempt, told, shown, code>>
        /\ Mutating' <=> Mutating
        /\ Confirmed' = Confirmed
    BY CallFacts DEF Fail
  <1>2. Control' /\ Effect'
    BY <1>1 DEF Control, Effect, Uncertain
  <1>3. Said' /\ Bearer'
    BY <1>1 DEF Control, Said, Bearer
  <1>4. Blame'
    BY <1>1 DEF Control, Blame, ExitSeparates
  <1> QED
    BY <1>2, <1>3, <1>4

\* Errors of the token source and of the network.
LEMMA UnansweredPreserves == ASSUME IInv, NoToken \/ Lost PROVE IInv'
  <1>1. ASSUME NEW why \in CallTroubles, NEW e \in Errors, Fail(why, Doubted(Transported(e))),
               phase \in {"call", "await"}, UNCHANGED <<wire, used, landed>>,
               Classify(e) = ExitOf(why)
        PROVE  IInv'
    <2>1. Transported(e) \in Errors /\ Classify(Transported(e)) = ExitOf(why)
      BY <1>1, VerdictKeepsClass
    <2>2. PICK f \in Errors : f = Transported(e)
      BY <2>1
    <2>3. /\ Doubted(f) \in Errors /\ Classify(Doubted(f)) = ExitOf(why)
          /\ Mutating => "MutationOutcomeUncertainError" \in Doubted(f).causes
      BY <2>1, <2>2, VerdictKeepsClass
    <2> QED
      BY <1>1, <2>2, <2>3, FailPreserves
  <1>2. CASE NoToken
    <2>1. PICK why, cause :
            /\ FailUnsent(why, cause)
            /\ <<why, cause>> \in {<<"refresh", "ErrRefresh">>,
                                   <<"invalid grant", "ErrInvalidGrant">>,
                                   <<"persist", "ErrPersistRefresh">>}
      BY <1>2 DEF NoToken
    <2>2. why \in CallTroubles /\ Err({cause}) \in Errors
          /\ Classify(Err({cause})) = ExitOf(why)
      BY <2>1, CauseClasses DEF CallTroubles, ExitOf
    <2>3. phase = "call" /\ UNCHANGED <<wire, used, landed>>
      BY <1>2 DEF NoToken
    <2> QED
      BY <1>1, <2>1, <2>2, <2>3 DEF FailUnsent
  <1>3. CASE Lost
    <2>1. "transport" \in CallTroubles /\ NoError \in Errors
          /\ Classify(NoError) = ExitOf("transport")
      BY CauseClasses DEF CallTroubles, ExitOf
    <2> QED
      BY <1>1, <1>3, <2>1 DEF Lost
  <1> QED
    BY <1>2, <1>3

\* The service answers a request, also one whose command no longer waits.
LEMMA ServePreserves ==
    ASSUME IInv, Serve
    PROVE  IInv'
  <1> USE DEF IInv
  <1>1. /\ wire = "request"
        /\ UNCHANGED <<credential, program, phase, call, attempt, used, err, trouble, told,
                       shown, code>>
        /\ Mutating' <=> Mutating
        /\ Confirmed' = Confirmed
    BY CallFacts DEF Serve, doing, ending
  <1>2. landed = Confirmed /\ Confirmed \in 0..1
    BY <1>1, ConfirmedTyped DEF Effect
  <1>3. \/ Mutating /\ landed' = Confirmed + 1 /\ wire' \in {"ok", "transient", "broken"}
        \/ Mutating /\ landed' = Confirmed /\ wire' \in Answers \ {"ok"}
        \/ ~Mutating /\ landed' = Confirmed /\ wire' \in Answers
    BY <1>2 DEF Serve
  <1>4. phase \in {"await", "failing", "exit", "done"}
        /\ told \notin {"done", "unwritten", "partial"}
        /\ (Mutating => told \notin {"failed", "rejected"})
        /\ (Mutating /\ phase = "failing" => Uncertain)
    BY <1>1 DEF Control, Effect, Said
  <1>5. Uncertain' <=> Uncertain
    BY <1>1 DEF Uncertain
  <1>6. wire' # "request"
    BY <1>3 DEF Answers
  <1>7. Control' /\ Effect'
    BY <1>1, <1>2, <1>3, <1>4, <1>5, <1>6 DEF Control, Effect
  <1>8. Said'
    BY <1>1, <1>2, <1>3, <1>4, <1>6 DEF Said
  <1>9. Blame' /\ Bearer'
    BY <1>1 DEF credential, Blame, ExitSeparates, Bearer
  <1> QED
    BY <1>7, <1>8, <1>9

\* doJSON's verdict on an answer, and what comes after a good one.
LEMMA ReceivePreserves ==
    ASSUME IInv, Receive
    PROVE  IInv'
  <1> USE DEF IInv
  <1>1. phase = "await" /\ UNCHANGED <<credential, wire, used, landed>>
        /\ told = "none" /\ code = "none" /\ err = NoError /\ trouble = "none"
    BY DEF Receive, Control, Blame
  <1>2. CASE wire = "ok" /\ NextCall /\ call < Len(program.calls)
    <2>1. call' = call + 1 /\ attempt' = 0 /\ phase' = "call"
          /\ UNCHANGED <<program, err, trouble, told, shown, code>>
      BY <1>2 DEF NextCall, ending
    <2>2. program = ItemsAdd /\ call \in 1..2
      <3>1. program \in Programs /\ call \in DOMAIN program.calls
        BY DEF Control
      <3>2. CASE program = ItemsAdd
        <4>1. Len(program.calls) = 3 /\ call \in 1..3
          BY <3>1, <3>2, ProgramFacts
        <4> QED
          BY <1>2, <3>2, <4>1
      <3>3. CASE program # ItemsAdd
        <4>1. Len(program.calls) = 1 /\ call = 1
          BY <3>1, <3>3, ProgramFacts
        <4> QED
          BY <1>2, <4>1
      <3> QED
        BY <3>2, <3>3
    <2>3. call' \in DOMAIN program.calls
      BY <2>1, <2>2, ProgramFacts DEF Control
    <2>4. Mutating' /\ Confirmed' = IF call' = 3 THEN 1 ELSE 0
      <3>1. program' \in Programs /\ call' \in DOMAIN program'.calls /\ program' = ItemsAdd
        BY <2>1, <2>2, <2>3 DEF Control
      <3>2. (program \in Programs /\ call \in DOMAIN program.calls /\ program = ItemsAdd =>
               (Mutating <=> call > 1) /\ Confirmed = IF call = 3 THEN 1 ELSE 0)'
        BY ProgramFacts, PTL
      <3> QED
        BY <2>1, <2>2, <3>1, <3>2
    <2>5. landed' = Confirmed'
      BY <1>1, <1>2, <2>1, <2>2, <2>4, ProgramFacts DEF Control, Effect
    <2>6. Control'
      BY <1>1, <1>2, <2>1, <2>3, <2>4 DEF Control
    <2>7. Effect'
      BY <2>1, <2>4, <2>5 DEF Effect
    <2>8. Said' /\ Blame' /\ Bearer'
      BY <1>1, <2>1 DEF Said, Blame, ExitSeparates, Bearer
    <2> QED
      BY <2>6, <2>7, <2>8
  <1>3. CASE wire = "ok" /\ NextCall /\ ~(call < Len(program.calls))
    <2>1. phase' = "output"
          /\ UNCHANGED <<program, call, attempt, err, trouble, told, shown, code>>
          /\ (Mutating' <=> Mutating) /\ Confirmed' = Confirmed
      BY <1>3, CallFacts DEF NextCall, ending
    <2>2. call = Len(program.calls)
      BY <1>3, ProgramFacts DEF Control
    <2>3. Control' /\ Effect'
      BY <1>1, <1>3, <2>1, <2>2 DEF Control, Effect
    <2>4. Said' /\ Blame' /\ Bearer'
      BY <1>1, <2>1 DEF credential, Said, Blame, ExitSeparates, Bearer
    <2> QED
      BY <2>3, <2>4
  <1>4. CASE wire = "transient" /\ ~AttemptsSpent /\ phase' = "wait"
             /\ UNCHANGED <<program, call, attempt, ending>>
    <2>1. UNCHANGED <<program, call, attempt, err, trouble, told, shown, code>>
          /\ (Mutating' <=> Mutating) /\ Confirmed' = Confirmed
      BY <1>4, CallFacts DEF ending
    <2>2. ~Mutating
      BY <1>1, <1>4 DEF AttemptsSpent, Control
    <2>3. Control' /\ Effect'
      BY <1>1, <1>4, <2>1, <2>2 DEF Control, Effect
    <2>4. Said' /\ Blame' /\ Bearer'
      BY <1>1, <1>4, <2>1 DEF credential, Said, Blame, ExitSeparates, Bearer
    <2> QED
      BY <2>3, <2>4
  <1>5. CASE PositionExceeds
    <2>1. ~Mutating
      BY <1>5, ProgramFacts DEF PositionExceeds, Control
    <2>2. "position" \in CallTroubles /\ ExitOf("position") = "usage"
      BY DEF CallTroubles, ExitOf
    <2> QED
      BY <1>1, <1>5, <2>1, <2>2, CauseClasses, FailPreserves DEF PositionExceeds
  <1>6. ASSUME NEW cause \in {"ErrUpstream", "ErrInvalidResponse"},
               Fail("upstream", Doubted(Err({cause})))
        PROVE  IInv'
    <2>1. Err({cause}) \in Errors /\ Classify(Err({cause})) = "upstream"
      BY CauseClasses
    <2>2. PICK e \in Errors : e = Err({cause})
      BY <2>1
    <2>3. /\ Doubted(e) \in Errors /\ Classify(Doubted(e)) = "upstream"
          /\ Mutating => "MutationOutcomeUncertainError" \in Doubted(e).causes
      BY <2>1, <2>2, VerdictKeepsClass
    <2>4. "upstream" \in CallTroubles /\ ExitOf("upstream") = "upstream"
      BY DEF CallTroubles, ExitOf
    <2> QED
      BY <1>1, <1>6, <2>2, <2>3, <2>4, FailPreserves
  <1>7. ASSUME NEW cause, Fail(wire, Refused(Err({cause}))),
               <<wire, cause>> \in {<<"unauthorized", "ErrUnauthorized">>,
                                    <<"forbidden", "ErrForbidden">>,
                                    <<"refused", "ErrUpstream">>}
        PROVE  IInv'
    <2>1. /\ Err({cause}) \in Errors /\ Classify(Err({cause})) = ExitOf(wire)
          /\ wire \in CallTroubles /\ wire \in {"unauthorized", "forbidden", "refused"}
      BY <1>7, CauseClasses DEF CallTroubles, ExitOf
    <2>2. PICK e \in Errors : e = Err({cause})
      BY <2>1
    <2>3. Refused(e) \in Errors /\ Classify(Refused(e)) = ExitOf(wire)
      BY <2>1, <2>2, VerdictKeepsClass
    <2>4. landed = Confirmed /\ wire # "request"
      BY <2>1 DEF Effect
    <2> QED
      BY <1>1, <1>7, <2>1, <2>2, <2>3, <2>4, FailPreserves
  <1>8. \/ wire = "ok" /\ (NextCall \/ PositionExceeds)
        \/ wire = "transient" /\ ~AttemptsSpent /\ phase' = "wait"
           /\ UNCHANGED <<program, call, attempt, ending>>
        \/ \E cause \in {"ErrUpstream", "ErrInvalidResponse"} :
             Fail("upstream", Doubted(Err({cause})))
        \/ \E cause : /\ Fail(wire, Refused(Err({cause})))
                      /\ <<wire, cause>> \in {<<"unauthorized", "ErrUnauthorized">>,
                                              <<"forbidden", "ErrForbidden">>,
                                              <<"refused", "ErrUpstream">>}
    BY DEF Receive
  <1> QED
    BY <1>2, <1>3, <1>4, <1>5, <1>6, <1>7, <1>8

\* The error leaves the command: classified, and as one of those that say what to do
\* about the mutation.
LEMMA ReportPreserves == ASSUME IInv, Report PROVE IInv'
  <1> USE DEF IInv
  <1>1. /\ phase = "failing" /\ phase' = "exit"
        /\ UNCHANGED <<program, call, attempt, wire, used, landed, trouble, shown, code>>
        /\ Mutating' <=> Mutating
        /\ Confirmed' = Confirmed
    BY CallFacts DEF Report
  <1>2. PICK e \in Errors : err' = Classified(e) /\ Classify(e) = ExitOf(trouble)
    <2>1. err \in Errors /\ Classify(err) = ExitOf(trouble)
      BY <1>1 DEF Blame
    <2>2. /\ Wrapped(err, "MutationReconciliationError") \in Errors
          /\ Classify(Wrapped(err, "MutationReconciliationError")) = ExitOf(trouble)
      BY <2>1, WrappingKeepsClass DEF Wrappers
    <2> QED
      BY <2>1, <2>2 DEF Report
  <1>3. err' \in Errors /\ err'.code = ExitOf(trouble)
    <2>1. Classify(e) \in Codes \ {"none"}
      BY ClassTyped DEF Codes
    <2> QED
      BY <1>2, <2>1, CodedFacts DEF Classified
  <1>4. told' \in {"uncertain", "failed", "rejected"}
        /\ (told' # "uncertain" => Confirmed = 0 /\ ~Uncertain)
    BY DEF Report
  <1>5. Control'
    BY <1>1, <1>4 DEF Control
  <1>6. Effect'
    BY <1>1 DEF Effect
  <1>7. Said'
    BY <1>1, <1>4 DEF Effect, Said
  <1>8. Blame'
    BY <1>1, <1>3 DEF Control, Blame, ExitSeparates
  <1>9. Bearer'
    BY <1>1, <1>4 DEF Bearer
  <1> QED
    BY <1>5, <1>6, <1>7, <1>8, <1>9

\* What was confirmed before a batch was rejected becomes part of the error.
LEMMA StopPreserves == ASSUME IInv, StopPartial PROVE IInv'
  <1> USE DEF IInv
  <1>1. /\ phase = "failing" /\ phase' = "record" /\ Confirmed > 0 /\ ~Uncertain
        /\ err' = Wrapped(err, "PartialMutationError")
        /\ UNCHANGED <<program, call, attempt, wire, used, landed, trouble, told, shown,
                       code>>
        /\ Mutating' <=> Mutating
        /\ Confirmed' = Confirmed
    BY CallFacts DEF StopPartial
  <1>2. Mutating
    BY <1>1, ConfirmedTyped
  <1>3. err' \in Errors /\ Classify(err') = ExitOf(trouble)
    <2>1. err \in Errors /\ Classify(err) = ExitOf(trouble)
      BY <1>1 DEF Blame
    <2>2. /\ Wrapped(err, "PartialMutationError") \in Errors
          /\ Classify(Wrapped(err, "PartialMutationError")) = Classify(err)
      BY <2>1, WrappingKeepsClass DEF Wrappers
    <2> QED
      BY <1>1, <2>1, <2>2
  <1>4. Control' /\ Effect'
    BY <1>1, <1>2 DEF Control, Effect
  <1>5. Said' /\ Bearer'
    BY <1>1 DEF Control, Said, Bearer
  <1>6. Blame'
    BY <1>1, <1>3 DEF Control, Blame, ExitSeparates
  <1> QED
    BY <1>4, <1>5, <1>6

\* The record is written, or what keeps it from that joins the error; the class of
\* the mutation's error counts in both cases.
LEMMA RecordPreserves == ASSUME IInv, WriteRecord PROVE IInv'
  <1> USE DEF IInv
  <1>1. /\ phase = "record" /\ phase' = "exit" /\ told' = "partial"
        /\ UNCHANGED <<program, call, attempt, wire, used, landed, trouble, shown, code>>
        /\ Mutating' <=> Mutating
        /\ Confirmed' = Confirmed
    BY CallFacts DEF WriteRecord
  <1>2. err \in Errors /\ Classify(err) = ExitOf(trouble)
        /\ Classify(err) \in Codes \ {"none"}
    BY <1>1, ClassTyped DEF Blame, Codes
  <1>3. Code(Classified(err)) = ExitOf(trouble) /\ Classified(err) \in Errors
        /\ Classified(err).code = ExitOf(trouble)
    BY <1>2, CodedFacts DEF Classified
  <1>4. Wrapped(err, "PostMutationOutputError") \in Errors
    BY <1>2, WrappingKeepsClass DEF Wrappers
  <1>5. ExitOf(trouble) \in Codes \ {"none"}
    BY <1>2
  <1>6. /\ Coded(Wrapped(err, "PostMutationOutputError"), ExitOf(trouble)) \in Errors
        /\ Coded(Wrapped(err, "PostMutationOutputError"), ExitOf(trouble)).code = ExitOf(trouble)
    BY <1>4, <1>5, CodedFacts
  <1>7. err' \in Errors /\ err'.code = ExitOf(trouble)
    BY <1>3, <1>6 DEF WriteRecord
  <1>8. Control' /\ Effect' /\ Said'
    BY <1>1 DEF Control, Effect, Said
  <1>9. Blame' /\ Bearer'
    BY <1>1, <1>7 DEF Control, Blame, ExitSeparates, Bearer
  <1> QED
    BY <1>8, <1>9

\* Every step of the program keeps the invariant, given what is known of sessions.
LEMMA NextPreserves ==
    IInv /\ S!TypeOK /\ S!ScopesFollowToken /\ [Next]_vars => IInv'
  <1> SUFFICES ASSUME IInv, S!TypeOK, S!ScopesFollowToken, [Next]_vars PROVE IInv'
    OBVIOUS
  <1>1. CASE Finished \/ UNCHANGED vars
    <2>1. UNCHANGED <<pc, current, program, phase, call, attempt, wire, used, landed, err,
                      trouble, told, shown, code>>
      BY <1>1 DEF Finished, vars, credential, doing, ending
    <2>2. (Mutating' <=> Mutating) /\ Confirmed' = Confirmed /\ (Uncertain' <=> Uncertain)
      BY <2>1, CallFacts DEF Uncertain
    <2>3. Control' /\ Effect'
      BY <2>1, <2>2 DEF IInv, Control, Effect
    <2>4. Said' /\ Blame' /\ Bearer'
      BY <2>1, <2>2 DEF IInv, Said, Blame, ExitSeparates, Bearer
    <2> QED
      BY <2>3, <2>4 DEF IInv
  <1> QED
    BY <1>1, CredentialPreserves, ArgumentsPreserve, OpeningPreserves, WaitPreserves,
       OutputPreserves, ClosePreserves, KillPreserves, SendPreserves,
       UnansweredPreserves, ServePreserves, ReceivePreserves, ReportPreserves,
       StopPreserves, RecordPreserves DEF Next, Progress

\* The invariant holds of every behaviour.
THEOREM Invariance == Spec => []IInv
  BY InitIInv, NextPreserves, CredentialOutlivesCommand, PTL DEF Spec

\* Success and a failed write are said of mutations that took effect, a record of a
\* part of exactly those that did; a failure and a rejection of ones that did not and
\* never will, whenever the service gets round to the request
\* (MutationRejectedError, MutationOutcomeUncertainError, PartialMutationError).
THEOREM EndIsHonest == Spec => []HonestEnd
  <1>1. ASSUME IInv PROVE HonestEnd
    <2>1. Control /\ Effect /\ Said
      BY <1>1 DEF IInv
    <2>2. told \in {"done", "unwritten"} => landed = MutationsAsked
      BY <2>1, ProgramFacts DEF Control, Effect, Said
    <2> QED
      BY <2>1, <2>2 DEF Said, HonestEnd
  <1> QED
    BY <1>1, Invariance, PTL

\* The cause decides the exit code through everything that wraps it: transportError,
\* MutationOutcomeUncertainError, MutationRejectedError, PartialMutationError,
\* MutationReconciliationError, PostMutationOutputError, and the codes of
\* exitcode.New, of which the outermost counts.
THEOREM CodesSeparate == Spec => []ExitSeparates
  <1>1. IInv => ExitSeparates
    BY DEF IInv, Blame
  <1> QED
    BY <1>1, Invariance, PTL

\* me shows Session.Scopes() as it was with the request that was answered.
THEOREM MeIsCurrent == Spec => []MeShowsWhatItUsed
  <1>1. IInv => MeShowsWhatItUsed
    BY DEF IInv, Bearer, MeShowsWhatItUsed
  <1> QED
    BY <1>1, Invariance, PTL

------------------------------------------------------------------------------
(* The types of a command *)

\* What TypeOK says beyond IInv and what SessionProofs says of the credential: a
\* call about to be attempted, or waiting to be, has an attempt left.
CommandTyped ==
    /\ attempt \in 0..MaxAttempts
    /\ phase \in {"arguments", "call", "wait"} => attempt < MaxAttempts
    /\ wire \in {"idle", "request"} \cup Answers
    /\ used \in S!Envelopes \cup {S!NoCredential}
    /\ trouble \in Troubles /\ code \in Codes
    /\ told \in {"none", "done", "unwritten", "partial", "failed", "rejected", "uncertain"}
    /\ shown \subseteq Scopes

\* No step changes a type.
LEMMA CommandTypesKept ==
    ASSUME IInv, IInv', S!TypeOK, CommandTyped, [Next]_vars
    PROVE  CommandTyped'
  <1> USE MaxAttemptsAssumption
  <1>1. \A e : Code(e) \in Codes \/ Code(e) = e.code
    BY DEF Code, Codes
  <1>2. err \in Errors /\ err' \in Errors /\ Code(err) \in Codes /\ Code(err') \in Codes
    BY <1>1 DEF IInv, Blame, Errors
  <1>3. CASE BadArguments \/ BadBackend
    BY <1>2, <1>3 DEF BadArguments, BadBackend, CommandTyped, Troubles
  <1>4. CASE OpenSession \/ OpenFails
    BY <1>4 DEF OpenSession, OpenFails, NoSession, CommandTyped, Troubles, ending
  <1>5. CASE SendNow \/ SaveAndSend
    <2>1. base[Self] \in S!Envelopes \cup {S!NoCredential}
      BY SelfAssumption DEF S!TypeOK
    <2> QED
      BY <1>5, <2>1 DEF SendNow, SaveAndSend, Go, CommandTyped, ending
  <1>6. CASE Refresh \/ Expire \/ Others
    BY <1>6 DEF Refresh, Expire, Others, CommandTyped, doing, ending
  <1>7. ASSUME NEW why \in Troubles, NEW e, Fail(why, e), UNCHANGED <<wire, used>>
        PROVE  CommandTyped'
    BY <1>7 DEF Fail, CommandTyped
  <1>8. CASE NoToken
    <2>1. UNCHANGED <<wire, used>>
          /\ \E why \in {"refresh", "invalid grant", "persist"} :
               \E cause : FailUnsent(why, cause)
      BY <1>8 DEF NoToken
    <2> QED
      BY <1>7, <2>1 DEF FailUnsent, Troubles
  <1>9. CASE Serve
    BY <1>9 DEF Serve, CommandTyped, doing, ending, Answers
  <1>10. CASE Receive
    <2>1. UNCHANGED <<wire, used>> /\ phase = "await"
      BY <1>10 DEF Receive
    <2>2. CASE wire = "ok" /\ NextCall
      BY <2>1, <2>2 DEF NextCall, CommandTyped, ending
    <2>3. CASE /\ wire = "transient" /\ ~AttemptsSpent /\ phase' = "wait"
               /\ UNCHANGED <<program, call, attempt, ending>>
      <3>1. attempt < MaxAttempts
        BY <2>1, <2>3 DEF AttemptsSpent, CommandTyped, IInv, Control
      <3> QED
        BY <2>1, <2>3, <3>1 DEF CommandTyped, ending
    <2>4. CASE \E why \in {"position", "upstream", "unauthorized", "forbidden", "refused"} :
                 \E e : Fail(why, e)
      BY <1>7, <2>1, <2>4 DEF Troubles
    <2> QED
      BY <1>10, <2>2, <2>3, <2>4 DEF Receive, PositionExceeds
  <1>11. CASE Lost
    BY <1>7, <1>11 DEF Lost, Troubles
  <1>12. CASE WaitOver
    BY <1>12 DEF WaitOver, CommandTyped, ending
  <1>13. CASE WriteOutput
    <2>1. scopes[Self] \subseteq Scopes
      BY SelfAssumption DEF S!TypeOK
    <2> QED
      BY <1>13, <2>1 DEF WriteOutput, CommandTyped, Troubles
  <1>14. CASE Report \/ StopPartial \/ WriteRecord
    BY <1>14 DEF Report, StopPartial, WriteRecord, CommandTyped
  <1>15. CASE Close \/ Kill
    BY <1>2, <1>15 DEF Close, Kill, CommandTyped, Troubles
  <1>16. CASE Finished \/ UNCHANGED vars
    BY <1>16 DEF Finished, vars, doing, ending, CommandTyped
  <1> QED
    BY <1>3, <1>4, <1>5, <1>6, <1>8, <1>9, <1>10, <1>11, <1>12, <1>13, <1>14, <1>15, <1>16
       DEF Next, Progress

\* Every variable of a command keeps its type, the credential's included, and no call
\* costs more than MaxAttempts requests.
THEOREM TypeCorrect == Spec => []TypeOK
  <1>1. Init => CommandTyped
    BY MaxAttemptsAssumption DEF Init, CommandTyped, Troubles, Codes
  <1>2. IInv /\ IInv' /\ S!TypeOK /\ CommandTyped /\ [Next]_vars => CommandTyped'
    BY CommandTypesKept
  <1>3. IInv /\ S!TypeOK /\ CommandTyped => TypeOK
    <2> SUFFICES ASSUME IInv, S!TypeOK, CommandTyped PROVE TypeOK
      OBVIOUS
    <2>1. landed \in 0..2
      BY ConfirmedTyped DEF IInv, Effect
    <2> QED
      BY <2>1 DEF IInv, Control, Blame, Errors, CommandTyped, TypeOK
  <1>4. Spec => []S!TypeOK
    BY CredentialOutlivesCommand, PTL
  <1> QED
    BY <1>1, <1>2, <1>3, <1>4, Invariance, PTL DEF Spec

------------------------------------------------------------------------------
(* Each mutation of a command is a call *)

\* What the command knows, or says, of its n-th mutation, which is call n + 1
Verdict(n) ==
    CASE call > n + 1 \/ (call = n + 1 /\ told \in {"done", "unwritten"}) -> "confirmed"
      [] call = n + 1 /\ told \in {"rejected", "partial"} -> "rejected"
      [] call = n + 1 /\ told = "uncertain" -> "uncertain"
      [] OTHER -> "none"

Performed(n) == IF landed >= n THEN 1 ELSE 0

Call(n) == INSTANCE MutationCall WITH
    applications <- Performed(n), verdict <- Verdict(n)

\* Where the mutation stands when the command is at its call, before and after it.
LEMMA CallStands ==
    ASSUME IInv, NEW n \in Nat \ {0}
    PROVE  /\ call \in 1..3 /\ Confirmed = IF call = 3 THEN 1 ELSE 0
           /\ Mutating <=> call > 1
           /\ landed \in 0..2
           /\ call < n + 1 => Performed(n) = 0
           /\ call > n + 1 => Performed(n) = 1
           /\ call = n + 1 => Mutating /\ n = Confirmed + 1
                              /\ Performed(n) = IF landed = Confirmed + 1 THEN 1 ELSE 0
  <1>1. /\ call \in 1..3 /\ Confirmed = IF call = 3 THEN 1 ELSE 0
        /\ Mutating <=> call > 1
    BY ProgramFacts DEF IInv, Control
  <1>2. landed \in {Confirmed, Confirmed + 1} /\ (landed = Confirmed + 1 => Mutating)
    BY DEF IInv, Effect
  <1> QED
    BY <1>1, <1>2 DEF Performed

\* Each step is one of the call or none.
LEMMA StepIsCalls ==
    ASSUME IInv, IInv', [Next]_vars, NEW n \in Nat \ {0}
    PROVE  [Call(n)!Next]_(Call(n)!vars)
  <1> USE DEF Call!vars, Call!Next, Call!Apply, Call!Confirm, Call!Reject, Call!DoubtOutcome
  <1>1. Control /\ Effect /\ Said /\ Said'
    BY DEF IInv
  <1>2. ASSUME UNCHANGED <<call, landed, told>> PROVE UNCHANGED Call(n)!vars
    BY <1>2 DEF Verdict, Performed
  <1>3. CASE \/ BadArguments \/ BadBackend \/ SendNow \/ SaveAndSend \/ Refresh \/ WaitOver
             \/ StopPartial \/ NoToken \/ Lost
    BY <1>2, <1>3 DEF BadArguments, BadBackend, SendNow, SaveAndSend, Go, Refresh, WaitOver,
                      StopPartial, NoToken, FailUnsent, Lost, Fail, doing, ending
  <1>4. CASE \/ Close \/ Expire \/ Kill \/ Others \/ Finished \/ UNCHANGED vars
    BY <1>2, <1>4 DEF Close, Expire, Kill, Others, Finished, vars, doing, ending
  <1>5. CASE OpenSession \/ OpenFails
    <2>1. UNCHANGED <<call, landed>> /\ told = "none" /\ told' \in {"none", "failed"}
      BY <1>1, <1>5 DEF OpenSession, OpenFails, NoSession, ending, Control
    <2> QED
      BY <2>1 DEF Verdict, Performed
  <1>6. CASE Receive
    <2>1. landed' = landed /\ told' = "none" /\ told = "none" /\ phase = "await"
      BY <1>1, <1>6 DEF Receive, NextCall, PositionExceeds, Fail, ending, Control
    <2>2. CASE call' = call
      BY <1>2, <2>1, <2>2
    <2>3. CASE call' # call
      <3>1. call' = call + 1 /\ wire = "ok"
        BY <1>6, <2>3 DEF Receive, NextCall, PositionExceeds, Fail, ending
      <3>2. Performed(n)' = Performed(n) /\ call \in 1..3
        BY <2>1, CallStands DEF Performed
      <3>3. CASE call = n + 1
        <4>1. Performed(n) = 1
          BY <1>1, <2>1, <3>1, <3>3, CallStands DEF Effect
        <4>2. Verdict(n) = "none" /\ Verdict(n)' = "confirmed"
          BY <2>1, <3>1, <3>2, <3>3 DEF Verdict
        <4> QED
          BY <3>2, <4>1, <4>2
      <3>4. CASE call # n + 1
        <4>1. Verdict(n)' = Verdict(n)
          BY <2>1, <3>1, <3>2, <3>4 DEF Verdict
        <4> QED
          BY <3>2, <4>1
      <3> QED
        BY <3>3, <3>4
    <2> QED
      BY <2>2, <2>3
  <1>7. CASE WriteOutput \/ Report \/ WriteRecord
    <2>1. UNCHANGED <<call, landed>> /\ told = "none"
          /\ told' \in {"done", "unwritten", "uncertain", "failed", "rejected", "partial"}
      BY <1>1, <1>7 DEF WriteOutput, Report, WriteRecord, Control
    <2>2. Performed(n)' = Performed(n) /\ Confirmed' = Confirmed /\ (Mutating' <=> Mutating)
      <3>1. UNCHANGED program
        BY <1>7 DEF WriteOutput, Report, WriteRecord
      <3> QED
        BY <2>1, <3>1, CallFacts DEF Performed
    <2>3. CASE call # n + 1
      BY <2>1, <2>2, <2>3 DEF Verdict
    <2>4. CASE call = n + 1
      <3>1. Verdict(n) = "none" /\ Mutating /\ n = Confirmed + 1
            /\ Performed(n) = IF landed = Confirmed + 1 THEN 1 ELSE 0
        BY <2>1, <2>4, CallStands DEF Verdict
      <3>2. CASE told' \in {"done", "unwritten"}
        <4>1. landed = Confirmed + 1
          BY <1>1, <2>1, <2>2, <3>1, <3>2 DEF Said
        <4>2. Verdict(n)' = "confirmed"
          BY <2>1, <2>4, <3>2 DEF Verdict
        <4> QED
          BY <2>2, <3>1, <4>1, <4>2
      <3>3. CASE told' \in {"rejected", "partial"}
        <4>1. landed # Confirmed + 1
          BY <1>1, <2>1, <2>2, <3>1, <3>3, ConfirmedTyped DEF Said
        <4>2. Verdict(n)' = "rejected"
          BY <2>1, <2>4, <3>3 DEF Verdict
        <4> QED
          BY <2>2, <3>1, <4>1, <4>2
      <3>4. CASE told' = "uncertain"
        <4>1. Verdict(n)' = "uncertain"
          BY <2>1, <2>4, <3>4 DEF Verdict
        <4> QED
          BY <2>2, <3>1, <4>1
      <3>5. CASE told' = "failed"
        <4>1. Verdict(n)' = "none"
          BY <2>1, <2>4, <3>5 DEF Verdict
        <4> QED
          BY <2>2, <3>1, <4>1
      <3> QED
        BY <2>1, <3>2, <3>3, <3>4, <3>5
    <2> QED
      BY <2>3, <2>4
  <1>8. CASE Serve
    <2>1. UNCHANGED <<program, call, told>> /\ wire = "request"
      BY <1>8 DEF Serve, doing, ending
    <2>2. Verdict(n)' = Verdict(n) /\ Confirmed' = Confirmed
      BY <2>1, CallFacts DEF Verdict
    <2>3. landed = Confirmed /\ (landed' = landed \/ (Mutating /\ landed' = landed + 1))
      BY <1>1, <1>8, <2>1 DEF Serve, Effect
    <2>4. CASE landed' = landed
      BY <1>2, <2>1, <2>4
    <2>5. CASE Mutating /\ landed' = landed + 1 /\ call = n + 1
      <3>1. Performed(n) = 0 /\ Performed(n)' = 1
        BY <2>3, <2>5, CallStands DEF Performed
      <3>2. told \notin {"done", "unwritten", "failed", "rejected", "partial"}
        BY <1>1, <2>1, <2>5 DEF Said
      <3>3. Verdict(n) \in {"none", "uncertain"}
        BY <2>5, <3>2, CallStands DEF Verdict
      <3> QED
        BY <2>2, <3>1, <3>3
    <2>6. CASE Mutating /\ landed' = landed + 1 /\ call # n + 1
      <3>1. Performed(n)' = Performed(n)
        BY <2>3, <2>6, CallStands DEF Performed
      <3> QED
        BY <2>2, <3>1
    <2> QED
      BY <2>3, <2>4, <2>5, <2>6
  <1> QED
    BY <1>3, <1>4, <1>5, <1>6, <1>7, <1>8 DEF Next, Progress

\* A command, its session and its token source included, does with each of its
\* mutations what MutationCall promises of one call.
THEOREM MutationIsCall == ASSUME NEW n \in Nat \ {0} PROVE Spec => Call(n)!Spec
  <1>1. Init => Call(n)!Init
    BY DEF Init, Call!Init, Verdict, Performed
  <1>2. IInv /\ IInv' /\ [Next]_vars => [Call(n)!Next]_(Call(n)!vars)
    BY StepIsCalls
  <1> QED
    BY <1>1, <1>2, Invariance, PTL DEF Spec, Call!Spec

------------------------------------------------------------------------------
(* The batches of `library tracks|albums check|add|remove` (LibraryBatch)  *)

\* The arguments among the first n whose id no earlier one names
Firsts(n) == {i \in 1..n : \A k \in 1..(i - 1) : args[k].id # args[i].id}

IdsKept == {references[r].id : r \in 1..Len(references)}

\* Chunks may end behind the batch, what is in them does not.
Through(n) == IF n < Len(references) THEN n ELSE Len(references)

BatchTyped ==
    /\ verb \in {"check", "add", "remove"}
    /\ args \in Seq(Arguments) /\ parsed \in 0..Len(args)
    /\ references \in Seq(References)
    /\ start \in Nat
    /\ answers \in Seq(BOOLEAN)

\* Where the command is, what its request has come to, and how it ended
BatchControl ==
    /\ stage \in {"parse", "chunk", "await", "done"}
    /\ request \in {"unsent", "sent", "applied", "refused"}
    /\ stage # "done" => report.end = "none"
    /\ stage \in {"parse", "chunk"} => request = "unsent"
    /\ stage = "parse" => start = 0
    /\ stage \in {"chunk", "await"} => parsed = Len(args)
    /\ stage = "await" => request # "unsent"
    /\ request # "unsent" => verb # "check" /\ start < Len(references)
    /\ report.end = "usage" => references = <<>>
    /\ report.end = "checked" => verb = "check"
    /\ report.end = "rejected" => request \in {"unsent", "refused"}
    /\ report.end \in {"rejected", "uncertain"} => verb # "check" /\ start < Len(references)
    /\ report.end \in {"checked", "changed", "outputFailed"} =>
         /\ parsed = Len(args) /\ request = "unsent" /\ start >= Len(references)
         /\ report.count = Len(references)

\* What parseReferences has kept of the arguments it has looked at
FirstsKept ==
    report.end # "usage" =>
        /\ Len(references) = Cardinality(Firsts(parsed))
        /\ \A i \in Firsts(parsed) :
             references[Cardinality(Firsts(parsed) \cap 1..i)] = args[i]
        /\ IdsKept = {args[i].id : i \in 1..parsed}
        /\ Cardinality(IdsKept) = Len(references)

\* There is an answer for every reference in the chunks asked, and it was true.
Answered ==
    /\ \A i \in Ids : Says(saved, i) \in truths[i]
    /\ Len(answers) = IF verb = "check" THEN Through(start) ELSE 0
    /\ \A r \in 1..Len(answers) : answers[r] \in truths[references[r].id]

\* How much of a mutation has taken effect
Landed == IF verb = "check" THEN 0
          ELSE Through(IF request = "applied" THEN NextStart ELSE start)

AppliedInTurn == applied = SubSeq(IdsOf(references), 1, Landed)

BatchInv == BatchTyped /\ BatchControl /\ FirstsKept /\ Answered /\ AppliedInTurn

------------------------------------------------------------------------------

\* The ids of a list of references are a list of the same length.
LEMMA IdsOfTyped ==
    ASSUME NEW refs \in Seq(References)
    PROVE  /\ IdsOf(refs) \in Seq(Ids) /\ Len(IdsOf(refs)) = Len(refs)
           /\ Len(refs) \in Nat
           /\ \A r \in 1..Len(refs) : IdsOf(refs)[r] = refs[r].id /\ refs[r].id \in Ids
  <1>1. Len(refs) \in Nat /\ DOMAIN refs = 1..Len(refs)
    BY LenProperties
  <1>2. \A r \in 1..Len(refs) : refs[r] \in References
    BY ElementOfSeq
  <1>3. \A r \in 1..Len(refs) : refs[r].id \in Ids
    BY <1>2 DEF References
  <1>4. IdsOf(refs) = [r \in 1..Len(refs) |-> refs[r].id]
    BY <1>1 DEF IdsOf
  <1>5. IdsOf(refs) \in Seq(Ids) /\ Len(IdsOf(refs)) = Len(refs)
    BY <1>1, <1>3, <1>4, IsASeq
  <1> QED
    BY <1>1, <1>3, <1>4, <1>5

\* The arguments that count are finitely many; one more argument counts or not.
LEMMA FirstsFacts ==
    ASSUME args \in Seq(Arguments), NEW n \in 0..Len(args)
    PROVE  /\ IsFiniteSet(Firsts(n)) /\ Firsts(n) \subseteq 1..n
           /\ n < Len(args) =>
                Firsts(n + 1) =
                  IF args[n + 1].id \in {args[i].id : i \in 1..n} THEN Firsts(n)
                                                         ELSE Firsts(n) \cup {n + 1}
  <1>1. n \in Nat /\ Len(args) \in Nat
    BY LenProperties
  <1>2. Firsts(n) \subseteq 1..n
    BY DEF Firsts
  <1>3. IsFiniteSet(Firsts(n))
    <2>1. IsFiniteSet(1..n)
      BY <1>1, FS_Interval
    <2>2. Firsts(n) \in SUBSET (1..n)
      BY <1>2
    <2> QED
      BY <2>1, <2>2, FS_Subset
  <1>4. Firsts(n + 1) = IF args[n + 1].id \in {args[i].id : i \in 1..n} THEN Firsts(n)
                                                         ELSE Firsts(n) \cup {n + 1}
    <2>1. \A i : i \in 1..(n + 1) <=> i \in 1..n \/ i = n + 1
      BY <1>1
    <2>2. (n + 1) - 1 = n
      BY <1>1
    <2>3. n + 1 \in Firsts(n + 1) <=> args[n + 1].id \notin {args[i].id : i \in 1..n}
      BY <2>1, <2>2 DEF Firsts
    <2>4. \A i \in 1..n : i \in Firsts(n + 1) <=> i \in Firsts(n)
      BY <2>1 DEF Firsts
    <2>5. \A i \in Firsts(n + 1) : i \in 1..n \/ i = n + 1
      BY <2>1 DEF Firsts
    <2>6. n + 1 \notin Firsts(n)
      BY <1>1, <1>2
    <2>7. CASE args[n + 1].id \in {args[i].id : i \in 1..n}
      <3>1. \A i : i \in Firsts(n + 1) <=> i \in Firsts(n)
        BY <1>2, <2>3, <2>4, <2>5, <2>7
      <3> QED
        BY <3>1, <2>7
    <2>8. CASE args[n + 1].id \notin {args[i].id : i \in 1..n}
      <3>1. \A i : i \in Firsts(n + 1) <=> i \in Firsts(n) \cup {n + 1}
        BY <1>2, <2>3, <2>4, <2>5, <2>8
      <3> QED
        BY <3>1, <2>8
    <2> QED
      BY <2>7, <2>8
  <1> QED
    BY <1>2, <1>3, <1>4

\* A batch begins with nothing looked at, asked or sent.
LEMMA BatchInitInv == ASSUME BatchInit PROVE BatchInv
  <1> USE DEF BatchInit
  <1>1. args \in Seq(Arguments) /\ Len(args) \in Nat
    <2>1. PICK n \in 1..MaxArgs : args \in [1..n -> Arguments]
      OBVIOUS
    <2>2. n \in Nat
      BY <2>1, MaxArgsAssumption
    <2>3. args \in Seq(Arguments)
      BY <2>1, <2>2
    <2> QED
      BY <2>3, LenProperties
  <1>2. Len(references) = 0 /\ references \in Seq(References)
    OBVIOUS
  <1>3. BatchTyped
    BY <1>1, <1>2 DEF BatchTyped
  <1>4. BatchControl
    BY DEF BatchControl
  <1>5. Firsts(0) = {} /\ IdsKept = {} /\ {args[i].id : i \in 1..0} = {}
    BY <1>2 DEF Firsts, IdsKept
  <1>6. FirstsKept
    BY <1>2, <1>5, FS_EmptySet DEF FirstsKept
  <1>7. Through(0) = 0
    BY <1>2 DEF Through
  <1>8. \A i \in Ids : Says(saved, i) \in truths[i]
    OBVIOUS
  <1>9. Answered
    BY <1>7, <1>8 DEF Answered
  <1>10. Landed = 0
    BY <1>7 DEF Landed
  <1>11. AppliedInTurn
    BY <1>10, SubSeqEmpty DEF AppliedInTurn
  <1> QED
    BY <1>3, <1>4, <1>6, <1>9, <1>11 DEF BatchInv

\* A set of ids grows by one when an id outside is put in.
LEMMA OneMore ==
    ASSUME NEW kept, NEW x, IsFiniteSet(kept), x \notin kept
    PROVE  IsFiniteSet(kept \cup {x}) /\ Cardinality(kept \cup {x}) = Cardinality(kept) + 1
  BY FS_AddElement

\* An argument that counts is kept under its rank among those that count.
LEMMA Ranked ==
    ASSUME args \in Seq(Arguments), NEW n \in 0..Len(args), NEW i \in Firsts(n)
    PROVE  Cardinality(Firsts(n) \cap 1..i) \in 1..Cardinality(Firsts(n))
  <1> DEFINE part == Firsts(n) \cap 1..i
  <1>1. IsFiniteSet(Firsts(n)) /\ Firsts(n) \subseteq 1..n /\ n \in Nat
    <2>1. Len(args) \in Nat
      BY LenProperties
    <2>2. IsFiniteSet(Firsts(n)) /\ Firsts(n) \subseteq 1..n
      BY FirstsFacts
    <2> QED
      BY <2>1, <2>2
  <1>2. part \in SUBSET Firsts(n) /\ i \in part
    BY <1>1
  <1>3. IsFiniteSet(part) /\ Cardinality(part) <= Cardinality(Firsts(n))
    BY <1>1, <1>2, FS_Subset
  <1>4. Cardinality(part) \in Nat /\ Cardinality(Firsts(n)) \in Nat
    BY <1>1, <1>3, FS_CardinalityType
  <1>5. Cardinality(part) # 0
    BY <1>2, <1>3, FS_EmptySet
  <1> QED
    BY <1>3, <1>4, <1>5

\* Keeping the first reference to each id: one more argument is looked at.
LEMMA KeptByNext ==
    ASSUME BatchTyped, FirstsKept, report.end # "usage", parsed < Len(args),
           args' = args, parsed' = parsed + 1,
           args[parsed + 1].id # Malformed,
           references' = KeepFirst(references, args[parsed + 1])
    PROVE  references' \in Seq(References) /\ FirstsKept'
  <1> DEFINE a == args[parsed + 1]
             looked == {args[i].id : i \in 1..parsed}
  <1>1. args \in Seq(Arguments) /\ parsed \in 0..Len(args) /\ parsed \in Nat
        /\ Len(args) \in Nat /\ references \in Seq(References)
    BY LenProperties DEF BatchTyped
  <1>2. a \in References
    <2>1. a \in Arguments
      BY <1>1, ElementOfSeq
    <2> QED
      BY <2>1 DEF Arguments
  <1>3. /\ Len(references) = Cardinality(Firsts(parsed))
        /\ \A i \in Firsts(parsed) :
             references[Cardinality(Firsts(parsed) \cap 1..i)] = args[i]
        /\ IdsKept = looked
        /\ Cardinality(IdsKept) = Len(references)
    BY DEF FirstsKept
  <1>4. /\ IsFiniteSet(Firsts(parsed)) /\ Firsts(parsed) \subseteq 1..parsed
        /\ Firsts(parsed + 1) = IF a.id \in looked THEN Firsts(parsed)
                                            ELSE Firsts(parsed) \cup {parsed + 1}
    BY <1>1, FirstsFacts
  <1>5. Len(references) \in Nat /\ DOMAIN references = 1..Len(references)
    BY <1>1, LenProperties
  <1>6. IdsKept = ToSet(IdsOf(references))
    BY <1>5 DEF IdsKept, ToSet, IdsOf
  <1>7. Firsts(parsed)' = Firsts(parsed + 1)
    BY DEF Firsts
  <1>8. {args[i].id : i \in 1..parsed}' = looked \cup {a.id}
    <2>1. \A i : i \in 1..(parsed + 1) <=> i \in 1..parsed \/ i = parsed + 1
      BY <1>1
    <2> QED
      BY <2>1
  <1>9. CASE a.id \in looked
    <2>1. references' = references
      BY <1>3, <1>6, <1>9 DEF KeepFirst
    <2>2. IdsKept' = IdsKept
      BY <2>1 DEF IdsKept
    <2>3. Firsts(parsed)' = Firsts(parsed)
      BY <1>4, <1>7, <1>9
    <2>4. {args[i].id : i \in 1..parsed}' = looked
      BY <1>8, <1>9
    <2> QED
      BY <1>1, <1>3, <2>1, <2>2, <2>3, <2>4 DEF FirstsKept
  <1>10. CASE a.id \notin looked
    <2>1. references' = Append(references, a)
      BY <1>3, <1>6, <1>10 DEF KeepFirst
    <2>2. /\ references' \in Seq(References) /\ Len(references') = Len(references) + 1
          /\ \A r \in 1..Len(references) : references'[r] = references[r]
          /\ references'[Len(references) + 1] = a
      BY <1>1, <1>2, <2>1, AppendProperties
    <2>3. Firsts(parsed)' = Firsts(parsed) \cup {parsed + 1} /\ parsed + 1 \notin Firsts(parsed)
      BY <1>1, <1>4, <1>7, <1>10
    <2>4. Cardinality(Firsts(parsed)') = Len(references')
      <3>1. Cardinality(Firsts(parsed) \cup {parsed + 1}) = Cardinality(Firsts(parsed)) + 1
        BY <1>4, <2>3, OneMore
      <3> QED
        BY <1>3, <2>2, <2>3, <3>1
    <2>5. IdsKept' = IdsKept \cup {a.id}
      <3>1. \A r : r \in 1..(Len(references) + 1) <=> r \in 1..Len(references) \/ r = Len(references) + 1
        BY <1>5
      <3> QED
        BY <2>2, <3>1 DEF IdsKept
    <2>6. IdsKept' = {args[i].id : i \in 1..parsed}'
      BY <1>3, <1>8, <2>5
    <2>7. Cardinality(IdsKept') = Len(references')
      <3> DEFINE ids == [r \in 1..Len(references) |-> references[r].id]
      <3>1. IsFiniteSet(1..Len(references))
        BY <1>5, FS_Interval
      <3>2. IsFiniteSet(IdsKept)
        <4>1. ids \in Surjection(1..Len(references), IdsKept)
          BY DEF IdsKept, Surjection
        <4> QED
          BY <3>1, <4>1, FS_Surjection
      <3> QED
        <4>1. Cardinality(IdsKept \cup {a.id}) = Cardinality(IdsKept) + 1
          BY <1>3, <1>10, <3>2, OneMore
        <4> QED
          BY <1>3, <2>2, <2>5, <4>1
    <2>8. ASSUME NEW i \in Firsts(parsed)'
          PROVE  references'[Cardinality(Firsts(parsed)' \cap 1..i)] = args'[i]
      <3>1. CASE i = parsed + 1
        <4>1. Firsts(parsed)' \cap 1..i = Firsts(parsed)'
          BY <1>1, <1>4, <2>3, <3>1
        <4> QED
          BY <2>2, <2>4, <3>1, <4>1
      <3>2. CASE i # parsed + 1
        <4>1. i \in Firsts(parsed) /\ i \in 1..parsed
          BY <1>4, <2>3, <3>2
        <4>2. Firsts(parsed)' \cap 1..i = Firsts(parsed) \cap 1..i
          BY <1>1, <2>3, <4>1
        <4>3. Cardinality(Firsts(parsed) \cap 1..i) \in 1..Len(references)
          BY <1>1, <1>3, <4>1, Ranked
        <4> QED
          BY <1>3, <2>2, <4>1, <4>2, <4>3
      <3> QED
        BY <3>1, <3>2
    <2> QED
      BY <2>2, <2>4, <2>6, <2>7, <2>8 DEF FirstsKept
  <1> QED
    BY <1>9, <1>10

------------------------------------------------------------------------------

\* Before the first chunk nothing is answered and nothing is applied, whatever the
\* parser does to the batch meanwhile.
LEMMA ParserKeeps ==
    ASSUME BatchTyped, Answered, AppliedInTurn, start = 0, request = "unsent",
           UNCHANGED <<verb, start, request, answers, saved, truths, applied>>,
           references' \in Seq(References)
    PROVE  Answered' /\ AppliedInTurn'
  <1>1. Len(references) \in Nat /\ Len(references') \in Nat
    BY LenProperties DEF BatchTyped
  <1>2. Through(0) = 0 /\ Through(0)' = 0
    BY <1>1 DEF Through
  <1>3. Len(answers) = 0 /\ Landed = 0 /\ Landed' = 0
    BY <1>2 DEF Answered, Landed, Through
  <1>4. applied = <<>> /\ SubSeq(IdsOf(references'), 1, 0) = <<>>
    BY <1>3, SubSeqEmpty DEF AppliedInTurn
  <1>5. AppliedInTurn'
    BY <1>3, <1>4 DEF AppliedInTurn, IdsOf
  <1>6. Len(answers') = IF verb' = "check" THEN Through(start)' ELSE 0
    BY <1>2, <1>3 DEF Through
  <1>7. \A r \in 1..Len(answers') : answers'[r] \in truths'[references'[r].id]
    BY <1>3
  <1> QED
    BY <1>5, <1>6, <1>7 DEF Answered

\* An argument is refused, known already, or kept.
LEMMA ParseKeeps == ASSUME BatchInv, ParseNext PROVE BatchInv'
  <1> DEFINE a == args[parsed + 1]
  <1>1. /\ BatchTyped /\ BatchControl /\ FirstsKept /\ Answered /\ AppliedInTurn
        /\ stage = "parse" /\ start = 0 /\ request = "unsent" /\ report.end = "none"
        /\ parsed < Len(args) /\ Len(args) \in Nat
        /\ UNCHANGED <<verb, args, start, request, answers, saved, truths, applied>>
    BY LenProperties DEF BatchInv, BatchTyped, BatchControl, ParseNext, inputs, service
  <1>2. CASE a.id = Malformed
    <2>1. /\ references' = <<>> /\ parsed' = parsed /\ stage' = "done"
          /\ report'.end = "usage"
      BY <1>2 DEF ParseNext, EndBatch
    <2>2. references' \in Seq(References)
      BY <2>1
    <2>3. BatchTyped'
      BY <1>1, <2>1, <2>2 DEF BatchTyped
    <2>4. BatchControl'
      BY <1>1, <2>1 DEF BatchControl
    <2>5. FirstsKept'
      BY <2>1 DEF FirstsKept
    <2> QED
      BY <1>1, <2>2, <2>3, <2>4, <2>5, ParserKeeps DEF BatchInv
  <1>3. CASE a.id # Malformed
    <2>1. /\ references' = KeepFirst(references, a) /\ parsed' = parsed + 1
          /\ UNCHANGED <<stage, report>>
      BY <1>3 DEF ParseNext
    <2>2. references' \in Seq(References) /\ FirstsKept'
      BY <1>1, <1>3, <2>1, KeptByNext
    <2>3. BatchTyped'
      BY <1>1, <2>1, <2>2 DEF BatchTyped
    <2>4. BatchControl'
      BY <1>1, <2>1 DEF BatchControl
    <2> QED
      BY <1>1, <2>2, <2>3, <2>4, ParserKeeps DEF BatchInv
  <1> QED
    BY <1>2, <1>3

\* A step that leaves the batch, the loop, the answers and the library alone, and only
\* moves the command on or says how it ended.
LEMMA ControlKeeps ==
    ASSUME BatchInv, BatchControl',
           UNCHANGED <<inputs, batch, start, answers, saved, truths, applied>>,
           request' = "applied" <=> request = "applied",
           report.end = "usage" => report.end' = "usage"
    PROVE  BatchInv'
  <1> USE DEF inputs, batch
  <1>1. BatchTyped'
    BY DEF BatchInv, BatchTyped
  <1>2. FirstsKept'
    <2>1. Firsts(parsed)' = Firsts(parsed) /\ IdsKept' = IdsKept
      BY DEF Firsts, IdsKept
    <2> QED
      BY <2>1 DEF BatchInv, FirstsKept
  <1>3. Through(start)' = Through(start) /\ Landed' = Landed
    BY DEF Through, Landed, NextStart
  <1>4. Answered'
    BY <1>3 DEF BatchInv, Answered
  <1>5. AppliedInTurn'
    BY <1>3 DEF BatchInv, AppliedInTurn, IdsOf
  <1> QED
    BY <1>1, <1>2, <1>4, <1>5 DEF BatchInv

\* The steps of that kind
LEMMA ControlSteps ==
    ASSUME BatchInv,
           \/ BatchOpens \/ CheckFails \/ SendChunk \/ ChunkNotSent
           \/ ChunkUncertain \/ ChunkRejected \/ Finish \/ ServiceRefuses
    PROVE  BatchInv'
  <1> USE DEF EndBatch, inputs, batch, service
  <1>1. BatchControl /\ Len(references) \in Nat /\ start \in Nat
    BY LenProperties DEF BatchInv, BatchTyped
  <1>2. CASE BatchOpens
    <2>1. BatchControl' /\ request' = request /\ report.end # "usage"
      BY <1>1, <1>2 DEF BatchControl, BatchOpens
    <2> QED
      BY <1>2, <2>1, ControlKeeps DEF BatchOpens
  <1>3. CASE CheckFails
    <2>1. BatchControl' /\ request' = request /\ report.end # "usage"
      BY <1>1, <1>3 DEF BatchControl, CheckFails
    <2> QED
      BY <1>3, <2>1, ControlKeeps DEF CheckFails
  <1>4. CASE SendChunk
    <2>1. BatchControl' /\ request = "unsent" /\ request' = "sent"
      BY <1>1, <1>4 DEF BatchControl, SendChunk
    <2> QED
      BY <1>4, <2>1, ControlKeeps DEF SendChunk
  <1>5. CASE ChunkNotSent
    <2>1. BatchControl' /\ request = "unsent" /\ request' = "unsent" /\ report.end # "usage"
      BY <1>1, <1>5 DEF BatchControl, ChunkNotSent
    <2> QED
      BY <1>5, <2>1, ControlKeeps DEF ChunkNotSent
  <1>6. CASE ChunkUncertain
    <2>1. BatchControl' /\ request' = request /\ report.end # "usage"
      BY <1>1, <1>6 DEF BatchControl, ChunkUncertain
    <2> QED
      BY <1>6, <2>1, ControlKeeps DEF ChunkUncertain
  <1>7. CASE ChunkRejected
    <2>1. BatchControl' /\ request' = request /\ report.end # "usage"
      BY <1>1, <1>7 DEF BatchControl, ChunkRejected
    <2> QED
      BY <1>7, <2>1, ControlKeeps DEF ChunkRejected
  <1>8. CASE Finish
    <2>1. BatchControl' /\ request' = request /\ report.end # "usage"
      BY <1>1, <1>8 DEF BatchControl, Finish
    <2> QED
      BY <1>8, <2>1, ControlKeeps DEF Finish
  <1>9. CASE ServiceRefuses
    <2>1. BatchControl' /\ request = "sent" /\ request' = "refused" /\ report' = report
      BY <1>1, <1>9 DEF BatchControl, ServiceRefuses
    <2> QED
      BY <1>9, <2>1, ControlKeeps DEF ServiceRefuses
  <1> QED
    BY <1>2, <1>3, <1>4, <1>5, <1>6, <1>7, <1>8, <1>9

\* A chunk is what comes next of the batch: never empty, never past its end.
LEMMA ChunkFacts ==
    ASSUME BatchTyped, start < Len(references)
    PROVE  /\ Len(references) \in Nat /\ start \in Nat /\ NextStart \in Nat
           /\ Through(start) = start
           /\ Through(NextStart) \in (start + 1)..Len(references)
           /\ Through(NextStart) <= NextStart
           /\ Chunk = SubSeq(IdsOf(references), start + 1, Through(NextStart))
           /\ Chunk \in Seq(Ids) /\ Len(Chunk) = Through(NextStart) - start
           /\ \A k \in 1..Len(Chunk) :
                Chunk[k] \in Ids /\ Chunk[k] = references[start + k].id
  <1> DEFINE end == Through(NextStart)
  <1>1. /\ Len(references) \in Nat /\ start \in Nat /\ NextStart \in Nat
        /\ Through(start) = start /\ end \in (start + 1)..Len(references)
        /\ end <= NextStart
    BY LenProperties, ChunkSizeAssumption DEF BatchTyped, NextStart, Through
  <1>2. Chunk = SubSeq(IdsOf(references), start + 1, end)
    BY DEF Chunk, Through, NextStart
  <1>3. /\ IdsOf(references) \in Seq(Ids)
        /\ \A r \in 1..Len(references) :
             IdsOf(references)[r] = references[r].id /\ references[r].id \in Ids
    BY IdsOfTyped DEF BatchTyped
  <1> HIDE DEF end
  <1>4. /\ start + 1 \in Int /\ end \in Int /\ start + 1 <= end
        /\ \A i \in (start + 1)..end : IdsOf(references)[i] \in Ids
    BY <1>1, <1>3
  <1>5. /\ Chunk \in Seq(Ids) /\ Len(Chunk) = end - (start + 1) + 1
        /\ \A k \in 1..(end - (start + 1) + 1) :
             Chunk[k] = IdsOf(references)[start + 1 + k - 1]
    BY <1>2, <1>4, SubSeqProperties
  <1>6. Len(Chunk) = end - start
    BY <1>1, <1>5
  <1>7. ASSUME NEW k \in 1..Len(Chunk)
        PROVE  Chunk[k] \in Ids /\ Chunk[k] = references[start + k].id
    <2>1. start + 1 + k - 1 = start + k /\ start + k \in 1..Len(references)
          /\ k \in 1..(end - (start + 1) + 1)
      BY <1>1, <1>6
    <2> QED
      BY <1>3, <1>5, <2>1
  <1> QED
    BY <1>1, <1>2, <1>5, <1>6, <1>7 DEF end

\* What is said of an id when the library changes was true of it, and stays so.
LEMMA TruthsGrow ==
    ASSUME NEW ids, LibraryBecomes(ids)
    PROVE  /\ \A i \in Ids : Says(saved', i) \in truths'[i]
           /\ \A i \in Ids : truths[i] \subseteq truths'[i]
  <1>1. \A i \in Ids : truths'[i] = truths[i] \cup {Says(ids, i)}
    BY DEF LibraryBecomes
  <1>2. saved' = ids
    BY DEF LibraryBecomes
  <1>3. \A i \in Ids : Says(saved', i) \in truths'[i]
    BY <1>1, <1>2
  <1> QED
    BY <1>1, <1>3

\* What was kept of the arguments stays so while the batch does.
LEMMA StillKept ==
    ASSUME FirstsKept, UNCHANGED <<args, parsed, references>>, report' = report
    PROVE  FirstsKept'
  <1>1. Firsts(parsed)' = Firsts(parsed) /\ IdsKept' = IdsKept
    BY DEF Firsts, IdsKept
  <1> QED
    BY <1>1 DEF FirstsKept

\* A chunk is asked: its rows join those before it, each true as the library stands.
LEMMA CheckKeeps == ASSUME BatchInv, CheckChunk PROVE BatchInv'
  <1> DEFINE rows == [i \in DOMAIN Chunk |-> Says(saved, Chunk[i])]
             end == Through(NextStart)
  <1>1. /\ BatchTyped /\ BatchControl /\ FirstsKept /\ Answered /\ AppliedInTurn
        /\ stage = "chunk" /\ verb = "check" /\ start < Len(references)
        /\ answers' = answers \o rows /\ start' = NextStart
        /\ UNCHANGED <<verb, args, parsed, references, stage, request, report,
                       saved, truths, applied>>
    BY DEF BatchInv, CheckChunk, inputs, batch, service
  <1>2. /\ Len(references) \in Nat /\ start \in Nat /\ NextStart \in Nat
        /\ Through(start) = start /\ end \in (start + 1)..Len(references)
        /\ Chunk \in Seq(Ids) /\ Len(Chunk) = end - start
        /\ \A k \in 1..Len(Chunk) :
             Chunk[k] \in Ids /\ Chunk[k] = references[start + k].id
    BY <1>1, ChunkFacts
  <1>3. rows \in Seq(BOOLEAN) /\ Len(rows) = end - start
        /\ \A k \in 1..Len(rows) : rows[k] = Says(saved, references[start + k].id)
                                   /\ references[start + k].id \in Ids
    <2>1. DOMAIN Chunk = 1..Len(Chunk)
      BY <1>2, LenProperties
    <2>2. \A k \in DOMAIN Chunk : Says(saved, Chunk[k]) \in BOOLEAN
      BY DEF Says
    <2>3. rows \in [1..Len(Chunk) -> BOOLEAN]
      BY <2>1, <2>2
    <2>4. \A k \in 1..Len(Chunk) : rows[k] = Says(saved, Chunk[k])
      BY <2>1
    <2>5. rows \in Seq(BOOLEAN) /\ Len(rows) = end - start
      <3>1. PICK n \in Nat : n = Len(Chunk)
        BY <1>2, LenProperties
      <3>2. rows \in [1..n -> BOOLEAN]
        BY <2>3, <3>1
      <3> HIDE DEF rows
      <3>3. rows \in Seq(BOOLEAN)
        BY ONLY <3>1, <3>2
      <3>4. Len(rows) = n
        BY ONLY <3>1, <3>2
      <3> QED
        BY <1>2, <3>1, <3>3, <3>4
    <2> QED
      BY <1>2, <2>4, <2>5
  <1> HIDE DEF rows
  <1>4. answers \in Seq(BOOLEAN) /\ Len(answers) = start
    BY <1>1, <1>2 DEF BatchTyped, Answered
  <1>5. /\ answers' \in Seq(BOOLEAN) /\ Len(answers') = Len(answers) + Len(rows)
        /\ \A r \in 1..(Len(answers) + Len(rows)) :
             answers'[r] = IF r <= Len(answers) THEN answers[r] ELSE rows[r - Len(answers)]
    BY <1>1, <1>3, <1>4, ConcatProperties
  <1>6. Len(answers') = end
    BY <1>2, <1>3, <1>4, <1>5
  <1>7. ASSUME NEW r \in 1..Len(answers')
        PROVE  answers'[r] \in truths'[references'[r].id]
    <2>1. CASE r <= start
      BY <1>1, <1>2, <1>4, <1>5, <1>6, <2>1 DEF Answered
    <2>2. CASE ~(r <= start)
      <3>1. r - start \in 1..Len(rows) /\ start + (r - start) = r
        BY <1>2, <1>3, <1>6, <2>2
      <3>2. answers'[r] = Says(saved, references[r].id) /\ references[r].id \in Ids
        BY <1>2, <1>3, <1>4, <1>5, <1>6, <2>2, <3>1
      <3> QED
        BY <1>1, <3>2 DEF Answered
    <2> QED
      BY <2>1, <2>2
  <1>8. Through(start)' = end
    BY <1>1 DEF Through
  <1>9. Answered'
    BY <1>1, <1>6, <1>7, <1>8 DEF Answered
  <1>10. BatchTyped'
    BY <1>1, <1>2, <1>5 DEF BatchTyped
  <1>11. BatchControl'
    BY <1>1 DEF BatchControl
  <1>12. FirstsKept'
    BY <1>1, StillKept
  <1>13. AppliedInTurn'
    BY <1>1 DEF AppliedInTurn, Landed, IdsOf
  <1> QED
    BY <1>9, <1>10, <1>11, <1>12, <1>13 DEF BatchInv

\* A chunk that took effect is behind the loop.
LEMMA ConfirmKeeps == ASSUME BatchInv, ChunkConfirmed PROVE BatchInv'
  <1>1. /\ BatchTyped /\ BatchControl /\ FirstsKept /\ Answered /\ AppliedInTurn
        /\ stage = "await" /\ request = "applied" /\ verb # "check" /\ report.end = "none"
        /\ start < Len(references) /\ start' = NextStart /\ request' = "unsent"
        /\ stage' = "chunk"
        /\ UNCHANGED <<verb, args, parsed, references, answers, report, saved, truths,
                       applied>>
    BY DEF BatchInv, BatchControl, ChunkConfirmed, inputs, batch, service
  <1>2. NextStart \in Nat
    BY <1>1, ChunkFacts
  <1>3. BatchTyped'
    BY <1>1, <1>2 DEF BatchTyped
  <1>4. BatchControl'
    BY <1>1 DEF BatchControl
  <1>5. FirstsKept'
    BY <1>1, StillKept
  <1>6. Answered'
    BY <1>1 DEF Answered
  <1>7. Landed' = Landed
    BY <1>1 DEF Landed, Through
  <1>8. AppliedInTurn'
    BY <1>1, <1>7 DEF AppliedInTurn, IdsOf
  <1> QED
    BY <1>3, <1>4, <1>5, <1>6, <1>8 DEF BatchInv

\* The service applies a chunk: it is the next part of the batch, even if the command
\* has given up waiting.
LEMMA ServiceKeeps == ASSUME BatchInv, ServiceApplies PROVE BatchInv'
  <1> DEFINE ids == IdsOf(references)
             end == Through(NextStart)
  <1>1. /\ BatchTyped /\ BatchControl /\ FirstsKept /\ Answered /\ AppliedInTurn
        /\ request = "sent" /\ verb # "check" /\ start < Len(references)
        /\ request' = "applied" /\ applied' = applied \o Chunk
        /\ UNCHANGED <<verb, args, parsed, references, stage, start, answers, report>>
    BY DEF BatchInv, BatchControl, ServiceApplies, inputs, batch
  <1>2. /\ Len(references) \in Nat /\ start \in Nat
        /\ Through(start) = start /\ end \in (start + 1)..Len(references)
        /\ Chunk = SubSeq(ids, start + 1, end)
    BY <1>1, ChunkFacts
  <1>3. ids \in Seq(Ids) /\ Len(ids) = Len(references)
    BY <1>1, IdsOfTyped DEF BatchTyped
  <1>4. \A i \in Ids : Says(saved', i) \in truths'[i]
    BY TruthsGrow DEF ServiceApplies
  <1>5. Landed = start /\ Landed' = end
    BY <1>1, <1>2 DEF Landed, Through, NextStart
  <1>6. applied' = SubSeq(ids, 1, end)
    <2>1. 1 \in 1..(Len(ids) + 1) /\ start \in (1 - 1)..Len(ids) /\ end \in start..Len(ids)
      BY <1>2, <1>3
    <2> HIDE DEF ids, end
    <2>2. SubSeq(ids, 1, start) \o SubSeq(ids, start + 1, end) = SubSeq(ids, 1, end)
      BY <1>3, <2>1, ConcatAdjacentSubSeq
    <2>3. applied = SubSeq(ids, 1, start)
      BY <1>1, <1>5 DEF AppliedInTurn, ids
    <2> QED
      BY <1>1, <1>2, <2>2, <2>3
  <1>7. AppliedInTurn'
    BY <1>1, <1>5, <1>6 DEF AppliedInTurn, IdsOf
  <1>8. Answered'
    BY <1>1, <1>4 DEF Answered
  <1>9. BatchTyped'
    BY <1>1 DEF BatchTyped
  <1>10. BatchControl'
    BY <1>1 DEF BatchControl
  <1>11. FirstsKept'
    BY <1>1, StillKept
  <1> QED
    BY <1>7, <1>8, <1>9, <1>10, <1>11 DEF BatchInv

\* Other clients change the library: what was true once stays said.
LEMMA OthersKeep == ASSUME BatchInv, OthersEdit PROVE BatchInv'
  <1>1. /\ BatchTyped /\ BatchControl /\ FirstsKept /\ Answered /\ AppliedInTurn
        /\ UNCHANGED <<verb, args, parsed, references, stage, start, request, answers,
                       report, applied>>
    BY DEF BatchInv, OthersEdit, inputs, batch
  <1>2. /\ \A i \in Ids : Says(saved', i) \in truths'[i]
        /\ \A i \in Ids : truths[i] \subseteq truths'[i]
    BY TruthsGrow DEF OthersEdit
  <1>3. ASSUME NEW r \in 1..Len(answers')
        PROVE  answers'[r] \in truths'[references'[r].id]
    <2>1. r \in 1..Len(references)
      <3>1. Len(references) \in Nat /\ start \in Nat
        BY <1>1, LenProperties DEF BatchTyped
      <3> QED
        BY <1>1, <3>1 DEF Answered, Through
    <2>2. references[r].id \in Ids
      BY <1>1, <2>1, IdsOfTyped DEF BatchTyped
    <2> QED
      BY <1>1, <1>2, <2>2 DEF Answered
  <1>4. Answered'
    BY <1>1, <1>2, <1>3 DEF Answered, Through
  <1>5. BatchTyped'
    BY <1>1 DEF BatchTyped
  <1>6. BatchControl'
    BY <1>1 DEF BatchControl
  <1>7. FirstsKept'
    BY <1>1, StillKept
  <1>8. AppliedInTurn'
    BY <1>1 DEF AppliedInTurn, Landed, Through, NextStart, IdsOf
  <1> QED
    BY <1>4, <1>5, <1>6, <1>7, <1>8 DEF BatchInv

\* Every step of a batch keeps the invariant,
LEMMA BatchNextKeeps == ASSUME BatchInv, [BatchNext]_batchVars PROVE BatchInv'
  <1>1. CASE ParseNext
    BY <1>1, ParseKeeps
  <1>2. CASE \/ BatchOpens \/ CheckFails \/ SendChunk \/ ChunkNotSent
             \/ ChunkUncertain \/ ChunkRejected \/ Finish \/ ServiceRefuses
    BY <1>2, ControlSteps
  <1>3. CASE CheckChunk
    BY <1>3, CheckKeeps
  <1>4. CASE ChunkConfirmed
    BY <1>4, ConfirmKeeps
  <1>5. CASE ServiceApplies
    BY <1>5, ServiceKeeps
  <1>6. CASE OthersEdit
    BY <1>6, OthersKeep
  <1>7. CASE UNCHANGED batchVars
    <2>1. BatchControl'
      BY <1>7 DEF BatchInv, BatchControl, batchVars, inputs, batch
    <2> QED
      BY <1>7, <2>1, ControlKeeps DEF batchVars, service
  <1> QED
    BY <1>1, <1>2, <1>3, <1>4, <1>5, <1>6, <1>7 DEF BatchNext, BatchProgress, BatchOver

------------------------------------------------------------------------------

\* and so every behaviour has it.
THEOREM BatchInvariant == BatchSpec => []BatchInv
  <1>1. BatchInit => BatchInv
    BY BatchInitInv
  <1>2. BatchInv /\ [BatchNext]_batchVars => BatchInv'
    BY BatchNextKeeps
  <1> QED
    BY <1>1, <1>2, PTL DEF BatchSpec

\* A check prints one row for each different id, under the first reference that named
\* it (parseReferences), with an answer that was true at some time since the command
\* began (CheckSavedItems), for batches and chunks of any size.
THEOREM RowsAreAligned == BatchSpec => []RowsAlign
  <1>1. BatchInv => RowsAlign
    <2> SUFFICES ASSUME BatchInv, report.end = "checked" PROVE RowsAlign
      BY DEF RowsAlign
    <2> DEFINE firsts == {i \in DOMAIN args :
                            \A k \in 1..(i - 1) : args[k].id # args[i].id}
    <2>1. /\ parsed = Len(args) /\ verb = "check" /\ start >= Len(references)
          /\ start \in Nat /\ Len(references) \in Nat
          /\ DOMAIN args = 1..Len(args) /\ DOMAIN references = 1..Len(references)
      BY LenProperties DEF BatchInv, BatchTyped, BatchControl
    <2>2. firsts = Firsts(parsed)
      BY <2>1 DEF Firsts
    <2>3. Len(answers) = Len(references)
      <3>1. Answered
        BY DEF BatchInv
      <3>2. Len(answers) = Through(start)
        BY ONLY <2>1, <3>1 DEF Answered
      <3>3. ~(start < Len(references))
        BY <2>1
      <3>4. Through(start) = Len(references)
        BY ONLY <3>3 DEF Through
      <3> QED
        BY ONLY <3>2, <3>4
    <2>4. /\ Len(references) = Cardinality(firsts)
          /\ \A i \in firsts : references[Cardinality(firsts \cap 1..i)] = args[i]
      BY <2>2 DEF BatchInv, FirstsKept
    <2>5. \A r \in DOMAIN references : answers[r] \in truths[references[r].id]
      BY <2>1, <2>3 DEF BatchInv, Answered
    <2> HIDE DEF firsts
    <2> QED
      BY <2>3, <2>4, <2>5 DEF RowsAlign, firsts
  <1> QED
    BY <1>1, BatchInvariant, PTL

\* What took effect of a batch is a prefix of it, as long as the report says
\* (mutateSavedItems), for batches and chunks of any size.
THEOREM PrefixIsApplied == BatchSpec => []PrefixApplied
  <1>1. BatchInv => PrefixApplied
    <2> SUFFICES ASSUME BatchInv PROVE PrefixApplied
      OBVIOUS
    <2> DEFINE ids == IdsOf(references)
    <2>1. /\ Len(references) \in Nat /\ start \in Nat
          /\ args \in Seq(Arguments) /\ Len(args) \in Nat
          /\ ids \in Seq(Ids) /\ Len(ids) = Len(references)
      BY LenProperties, IdsOfTyped DEF BatchInv, BatchTyped
    <2>2. Landed \in 0..Len(references)
      BY <2>1, ChunkSizeAssumption DEF Landed, Through, NextStart
    <2> HIDE DEF ids
    <2>3. /\ applied = SubSeq(ids, 1, Landed) /\ applied \in Seq(Ids)
          /\ Len(applied) = Landed
      <3>1. /\ applied = SubSeq(ids, 1, Landed) /\ Landed \in Int /\ 1 \in Int
            /\ \A i \in 1..Landed : ids[i] \in Ids
        BY <2>1, <2>2, ElementOfSeq DEF BatchInv, AppliedInTurn, ids
      <3>2. applied \in Seq(Ids) /\ Len(applied) = IF 1 <= Landed THEN Landed - 1 + 1 ELSE 0
        BY <3>1, SubSeqProperties
      <3> QED
        BY <2>2, <3>1, <3>2
    <2>4. IsPrefix(applied, ids)
      <3>1. SubSeq(applied, 1, Len(applied)) = applied
        BY <2>3, SubSeqFull
      <3> QED
        BY <2>1, <2>2, <2>3, <3>1 DEF IsPrefix
    <2>5. ASSUME verb # "check", report.end \in {"changed", "outputFailed"}
          PROVE  /\ ToSet(applied) = ToSet(IdsOf(args))
                 /\ report.count = Cardinality(ToSet(applied))
      <3>1. /\ parsed = Len(args) /\ request = "unsent" /\ start >= Len(references)
            /\ report.count = Len(references)
            /\ IdsKept = {args[i].id : i \in 1..parsed}
            /\ Cardinality(IdsKept) = Len(references)
        BY <2>5 DEF BatchInv, BatchControl, FirstsKept
      <3>2. Landed = Len(ids)
        BY <2>1, <2>5, <3>1 DEF Landed, Through
      <3>3. applied = ids
        BY <2>1, <2>3, <3>2, SubSeqFull
      <3>4. DOMAIN references = 1..Len(references) /\ DOMAIN args = 1..Len(args)
        BY LenProperties DEF BatchInv, BatchTyped
      <3>5. ToSet(ids) = IdsKept
        BY <3>4 DEF ToSet, ids, IdsOf, IdsKept
      <3>6. ToSet(IdsOf(args)) = IdsKept
        BY <3>1, <3>4 DEF ToSet, IdsOf
      <3> QED
        BY <3>1, <3>3, <3>5, <3>6
    <2>6. report.end = "rejected" => Len(applied) = start
      BY <2>1, <2>3 DEF BatchInv, BatchControl, Landed, Through
    <2>7. report.end = "uncertain" => Len(applied) \in start..(start + ChunkSize)
      BY <2>1, <2>3, ChunkSizeAssumption DEF BatchInv, BatchControl, Landed, Through, NextStart
    <2> QED
      BY <2>4, <2>5, <2>6, <2>7 DEF PrefixApplied, ids
  <1> QED
    BY <1>1, BatchInvariant, PTL

------------------------------------------------------------------------------
(* The change of each reference of a batch is a call *)

\* What the command knows of reference r: it is told of the chunk that has it.
BatchVerdict(r) ==
    IF verb = "check" \/ r > Len(references) THEN "none"
    ELSE IF start >= r THEN "confirmed"
    ELSE IF r <= NextStart /\ report.end \in {"rejected", "uncertain"} THEN report.end
    ELSE "none"

BatchCall(r) == INSTANCE MutationCall WITH
                    applications <- IF Len(applied) >= r THEN 1 ELSE 0,
                    verdict <- BatchVerdict(r)

\* As many ids were changed as have landed.
Counted == Len(applied) = Landed

\* It is so whenever the invariant holds.
LEMMA AppliedCount ==
    ASSUME BatchInv
    PROVE  /\ Counted
           /\ Len(references) \in Nat /\ start \in Nat /\ NextStart \in Nat /\ start < NextStart
  <1>1. BatchTyped /\ AppliedInTurn
    BY DEF BatchInv
  <1>2. Len(references) \in Nat /\ start \in Nat /\ NextStart \in Nat /\ start < NextStart
    BY <1>1, ChunkSizeAssumption, LenProperties DEF BatchTyped, NextStart
  <1>3. Landed \in 0..Len(references)
    BY <1>2 DEF Landed, Through
  <1>4. IdsOf(references) \in Seq(Ids) /\ Len(IdsOf(references)) = Len(references)
    BY <1>1, IdsOfTyped DEF BatchTyped
  <1>5. Len(SubSeq(IdsOf(references), 1, Landed)) = Landed
    BY <1>2, <1>3, <1>4, SubSeqProperties
  <1> QED
    BY <1>1, <1>2, <1>5 DEF AppliedInTurn, Counted

\* Each step is one of the call or none.
LEMMA StepIsBatchCalls ==
    ASSUME BatchInv, Counted, Counted', [BatchNext]_batchVars, NEW r \in Nat \ {0}
    PROVE  [BatchCall(r)!Next]_(BatchCall(r)!vars)
  <1> USE DEF BatchCall!vars, BatchCall!Next, BatchCall!Apply, BatchCall!Confirm,
              BatchCall!Reject, BatchCall!DoubtOutcome
  <1>1. BatchControl
    BY DEF BatchInv
  <1>2. PICK total \in Nat : total = Len(references)
    BY AppliedCount
  <1>3. /\ start \in Nat /\ NextStart \in Nat /\ start < NextStart
        /\ Len(applied) = Landed /\ Len(applied)' = Landed'
    BY AppliedCount DEF Counted
  <1>4. CASE SendChunk \/ ServiceRefuses \/ OthersEdit \/ BatchOver \/ UNCHANGED batchVars
    <2>1. UNCHANGED <<verb, references, start, report, applied>>
      BY <1>4 DEF SendChunk, ServiceRefuses, OthersEdit, BatchOver, batchVars, inputs, batch, service
    <2> QED
      BY <2>1 DEF BatchVerdict, NextStart
  <1>5. CASE ParseNext \/ BatchOpens
    <2>1. /\ start = 0 /\ start' = 0 /\ applied' = applied /\ report.end = "none"
          /\ report'.end \in {"none", "usage", "failed"}
      BY <1>1, <1>5 DEF BatchControl, ParseNext, BatchOpens, EndBatch, inputs, batch, service
    <2> QED
      BY <2>1 DEF BatchVerdict
  <1>6. CASE CheckChunk \/ CheckFails
    <2>1. verb = "check" /\ verb' = "check" /\ applied' = applied
      BY <1>6 DEF CheckChunk, CheckFails, inputs, service
    <2> QED
      BY <2>1 DEF BatchVerdict
  <1>7. CASE ChunkNotSent \/ ChunkRejected \/ ChunkUncertain
    <2>1. /\ UNCHANGED <<verb, references, start, applied>> /\ report.end = "none"
          /\ report'.end \in {"rejected", "uncertain"}
          /\ report'.end = "rejected" => request # "applied"
      BY <1>1, <1>7 DEF BatchControl, ChunkNotSent, ChunkRejected, ChunkUncertain, EndBatch,
                        inputs, batch, service
    <2>2. NextStart' = NextStart
      BY <2>1 DEF NextStart
    <2>3. request # "applied" => Len(applied) = (IF verb = "check" THEN 0 ELSE Through(start))
      BY <1>3 DEF Landed
    <2> QED
      BY <1>2, <1>3, <2>1, <2>2, <2>3 DEF BatchVerdict, Through
  <1>8. CASE ChunkConfirmed
    <2>1. /\ UNCHANGED <<verb, references, report, applied>> /\ report.end = "none"
          /\ start' = NextStart /\ request = "applied"
      BY <1>1, <1>8 DEF BatchControl, ChunkConfirmed, inputs, batch, service
    <2>2. Len(applied) = IF verb = "check" THEN 0 ELSE Through(NextStart)
      BY <2>1, <1>3 DEF Landed
    <2> QED
      BY <1>2, <1>3, <2>1, <2>2 DEF BatchVerdict, Through
  <1>9. CASE Finish
    <2>1. UNCHANGED <<verb, references, start, applied>> /\ start >= Len(references)
      BY <1>9 DEF Finish, inputs, batch, service
    <2> QED
      BY <1>2, <1>3, <2>1 DEF BatchVerdict
  <1>10. CASE ServiceApplies
    <2>1. /\ UNCHANGED <<verb, references, start, report>>
          /\ request = "sent" /\ request' = "applied"
      BY <1>10 DEF ServiceApplies, inputs, batch
    <2>2. verb # "check" /\ report.end # "rejected" /\ start < total
      BY <1>1, <1>2, <2>1 DEF BatchControl
    <2>3. NextStart' = NextStart
      BY <2>1 DEF NextStart
    <2>4. Len(applied) = Through(start) /\ Len(applied)' = Through(NextStart)
      BY <1>3, <2>1, <2>2, <2>3 DEF Landed, Through
    <2>5. BatchVerdict(r)' = BatchVerdict(r)
      BY <2>1, <2>3 DEF BatchVerdict
    <2> QED
      BY <1>2, <1>3, <2>2, <2>4, <2>5 DEF BatchVerdict, Through
  <1> QED
    BY <1>4, <1>5, <1>6, <1>7, <1>8, <1>9, <1>10 DEF BatchNext, BatchProgress

\* Each reference kept is added or removed as if by a call of its own, as
\* MutationCall has it: once at most, and what the command knows of it is that
\* call's verdict.
THEOREM EachReferenceIsACall == ASSUME NEW r \in Nat \ {0} PROVE BatchSpec => BatchCall(r)!Spec
  <1>1. BatchInit => BatchCall(r)!Init
    BY DEF BatchInit, BatchCall!Init, BatchVerdict
  <1>2. BatchInv => Counted
    BY AppliedCount
  <1>3. BatchInv /\ Counted /\ Counted' /\ [BatchNext]_batchVars
          => [BatchCall(r)!Next]_(BatchCall(r)!vars)
    BY StepIsBatchCalls
  <1> QED
    BY <1>1, <1>2, <1>3, BatchInvariant, PTL DEF BatchSpec, BatchCall!Spec

------------------------------------------------------------------------------
(* The types of a batch *)

\* What BatchTypeOK says beyond BatchInv
Ends == {"none", "usage", "failed", "rejected", "uncertain", "checked", "changed",
         "outputFailed"}

RestTyped ==
    /\ start \in 0..(Len(references) + ChunkSize - 1)
    /\ report \in [end : Ends, count : Nat]
    /\ saved \subseteq Ids /\ edits \in 0..MaxEdits
    /\ truths \in [Ids -> SUBSET BOOLEAN]

\* A change of the library keeps the types of what can be said of it.
LEMMA LibraryTyped ==
    ASSUME RestTyped, NEW ids, ids \subseteq Ids, LibraryBecomes(ids)
    PROVE  saved' \subseteq Ids /\ truths' \in [Ids -> SUBSET BOOLEAN]
  <1>1. \A i \in Ids : Says(ids, i) \in BOOLEAN
    BY DEF Says
  <1>2. \A i \in Ids : truths[i] \cup {Says(ids, i)} \in SUBSET BOOLEAN
    BY <1>1 DEF RestTyped
  <1> QED
    BY <1>2 DEF LibraryBecomes

\* The loop variable never passes the end of the last chunk, and what is said of the
\* library is said of ids.
LEMMA RestKept ==
    ASSUME BatchInv, RestTyped, [BatchNext]_batchVars PROVE RestTyped'
  <1>1. BatchTyped /\ BatchControl
    BY DEF BatchInv
  <1>2. PICK total \in Nat : total = Len(references)
    BY AppliedCount
  <1>3. start \in 0..(total + ChunkSize - 1) /\ ChunkSize \in Nat \ {0}
    BY <1>2, ChunkSizeAssumption DEF RestTyped
  <1>4. CASE ParseNext \/ BatchOpens
    <2>1. /\ start = 0 /\ start' = 0 /\ UNCHANGED <<saved, edits, truths>>
          /\ report' = report \/ \E how \in Ends : report' = [end |-> how, count |-> 0]
      BY <1>1, <1>4 DEF BatchControl, ParseNext, BatchOpens, EndBatch, inputs, batch, service, Ends
    <2>2. Len(references') \in Nat
      <3>1. BatchInv'
        BY BatchNextKeeps
      <3>2. references' \in Seq(References)
        BY <3>1 DEF BatchInv, BatchTyped
      <3> QED
        BY <3>2, LenProperties
    <2> QED
      BY <1>3, <2>1, <2>2 DEF RestTyped
  <1>5. CASE CheckChunk \/ ChunkConfirmed
    <2>1. /\ start < Len(references) /\ start' = NextStart
          /\ UNCHANGED <<references, report, saved, edits, truths>>
      BY <1>1, <1>5 DEF BatchControl, CheckChunk, ChunkConfirmed, batch, service
    <2>2. start' \in 0..(total + ChunkSize - 1)
      BY <1>2, <1>3, <2>1 DEF NextStart
    <2> QED
      BY <1>2, <2>1, <2>2 DEF RestTyped
  <1>6. CASE \/ CheckFails \/ SendChunk \/ ChunkNotSent \/ ChunkRejected \/ ChunkUncertain
             \/ Finish
    <2>1. UNCHANGED <<references, start, saved, edits, truths>>
      BY <1>6 DEF CheckFails, SendChunk, ChunkNotSent, ChunkRejected, ChunkUncertain, Finish,
                  batch, service
    <2>2. \/ report' = report
          \/ \E how \in Ends : report' = [end |-> how, count |-> 0]
          \/ \E how \in Ends : report' = [end |-> how, count |-> total]
      BY <1>2, <1>6 DEF CheckFails, SendChunk, ChunkNotSent, ChunkRejected, ChunkUncertain,
                        Finish, EndBatch, Ends
    <2>3. report' \in [end : Ends, count : Nat]
      BY <2>2 DEF RestTyped
    <2> QED
      BY <2>1, <2>3 DEF RestTyped
  <1>7. CASE ServiceApplies
    <2>1. UNCHANGED <<references, start, report, edits>>
      BY <1>7 DEF ServiceApplies, batch
    <2>2. PICK ids : ids \subseteq Ids /\ LibraryBecomes(ids)
      <3>1. ToSet(Chunk) \subseteq Ids
        <4>1. start < Len(references)
          BY <1>1, <1>7 DEF BatchControl, ServiceApplies
        <4>2. Chunk \in Seq(Ids)
          BY <1>1, <4>1, ChunkFacts
        <4> QED
          BY <4>2 DEF ToSet
      <3> QED
        BY <1>7, <3>1 DEF ServiceApplies, RestTyped
    <2> QED
      BY <2>1, <2>2, LibraryTyped DEF RestTyped
  <1>8. CASE OthersEdit
    <2>1. UNCHANGED <<references, start, report>> /\ edits' \in 0..MaxEdits
      BY <1>8, MaxEditsAssumption DEF OthersEdit, batch, RestTyped
    <2>2. PICK ids : ids \subseteq Ids /\ LibraryBecomes(ids)
      BY <1>8 DEF OthersEdit, RestTyped
    <2> QED
      BY <2>1, <2>2, LibraryTyped DEF RestTyped
  <1>9. CASE ServiceRefuses \/ BatchOver \/ UNCHANGED batchVars
    BY <1>9 DEF ServiceRefuses, BatchOver, batchVars, batch, service, RestTyped
  <1> QED
    BY <1>4, <1>5, <1>6, <1>7, <1>8, <1>9 DEF BatchNext, BatchProgress

\* Every variable of a batch keeps its type.
THEOREM BatchTypeCorrect == BatchSpec => []BatchTypeOK
  <1>1. BatchInit => RestTyped
    <2> SUFFICES ASSUME BatchInit PROVE RestTyped
      OBVIOUS
    <2>1. Len(references) = 0 /\ start = 0 /\ edits = 0 /\ report = [end |-> "none", count |-> 0]
      BY DEF BatchInit
    <2>2. saved \subseteq Ids /\ truths \in [Ids -> SUBSET BOOLEAN]
      BY DEF BatchInit, Says
    <2> QED
      BY <2>1, <2>2, ChunkSizeAssumption, MaxEditsAssumption DEF RestTyped, Ends
  <1>2. BatchInv /\ RestTyped /\ [BatchNext]_batchVars => RestTyped'
    BY RestKept
  <1>3. BatchInv /\ RestTyped => BatchTypeOK
    <2> SUFFICES ASSUME BatchInv, RestTyped PROVE BatchTypeOK
      OBVIOUS
    <2>1. BatchTyped /\ BatchControl
      BY DEF BatchInv
    <2>2. applied \in Seq(Ids)
      <3>1. Counted /\ Len(references) \in Nat /\ start \in Nat /\ NextStart \in Nat
        BY AppliedCount
      <3>2. IdsOf(references) \in Seq(Ids) /\ Len(IdsOf(references)) = Len(references)
        BY <2>1, IdsOfTyped DEF BatchTyped
      <3>3. Landed \in 0..Len(references)
        BY <3>1 DEF Landed, Through
      <3>4. applied = SubSeq(IdsOf(references), 1, Landed)
        BY DEF BatchInv, AppliedInTurn
      <3> QED
        BY <3>1, <3>2, <3>3, <3>4, SubSeqProperties
    <2> QED
      BY <2>1, <2>2 DEF BatchTyped, BatchControl, RestTyped, Ends, BatchTypeOK
  <1> QED
    BY <1>1, <1>2, <1>3, BatchInvariant, PTL DEF BatchSpec

------------------------------------------------------------------------------
(* What is printed (Output). The functions that Output computes with are loops over a  *)
(* text or a list: first that they compute what they say, by induction, then what    *)
(* each operator keeps of a text, then the three properties.                          *)

\* The library states induction with an operator for a parameter; well-foundedness
\* it states of a relation, which is a value. The smallest number of a set,
LEMMA SmallestNat ==
  ASSUME NEW T, T \subseteq Nat, T # {}
  PROVE  \E x \in T : \A y \in T : x <= y
  <1> DEFINE R == OpToRel(<, Nat)
  <1>1. IsWellFoundedOn(R, Nat)
    BY NatLessThanWellFounded
  <1>2. \A y, x \in Nat : y < x => <<y, x>> \in R
    BY DEF OpToRel
  <1> HIDE DEF R
  <1>3. PICK x \in T : \A y \in T : ~(<<y, x>> \in R)
    BY <1>1, WFMin
  <1>4. \A y \in T : ~(y < x)
    BY <1>2, <1>3
  <1> QED
    BY <1>4

\* hence induction, up to some number, with the set of those it is true of for a
\* parameter,
LEMMA Induction ==
  ASSUME NEW L \in Nat, NEW T, 0 \in T, \A n \in 0..(L - 1) : n \in T => n + 1 \in T
  PROVE  \A n \in 0..L : n \in T
  <1> SUFFICES ASSUME NEW m \in 0..L, m \notin T
               PROVE  FALSE
    OBVIOUS
  <1> DEFINE Without == {n \in 0..L : n \notin T}
  <1>1. Without \subseteq Nat /\ Without # {}
    OBVIOUS
  <1>2. PICK x \in Without : \A y \in Without : x <= y
    BY <1>1, SmallestNat
  <1>3. x # 0 /\ x - 1 \in 0..(L - 1)
    BY <1>2
  <1>4. x - 1 \in T
    BY <1>2, <1>3
  <1> QED
    BY <1>2, <1>3, <1>4

\* and the existence of what a loop computes.
Looped(f, initial, turns, step) ==
    f[0] = initial /\ \A n \in 1..turns : f[n] = step[<<n, f[n - 1]>>]

\* A loop of L turns has a run, whatever a turn does.
LEMMA Loop ==
  ASSUME NEW V, NEW initial \in V, NEW L \in Nat, NEW step \in [(1..L) \X V -> V]
  PROVE  \E f \in [0..L -> V] : Looped(f, initial, L, step)
  <1> DEFINE Runs(m, f) == f[0] = initial /\ \A n \in 1..m : f[n] = step[<<n, f[n - 1]>>]
             T == {m \in 0..L : \E f \in [0..m -> V] : Runs(m, f)}
  <1>1. 0 \in T
    <2> DEFINE g == [i \in 0..0 |-> initial]
    <2>1. g \in [0..0 -> V] /\ Runs(0, g)
      OBVIOUS
    <2>2. 0 \in 0..L
      OBVIOUS
    <2> HIDE DEF g, Runs
    <2> QED
      BY <2>1, <2>2
  <1>2. ASSUME NEW m \in 0..(L - 1), m \in T
        PROVE  m + 1 \in T
    <2>1. PICK f \in [0..m -> V] : Runs(m, f)
      BY <1>2
    <2> DEFINE g == [n \in 0..(m + 1) |-> IF n = m + 1 THEN step[<<m + 1, f[m]>>] ELSE f[n]]
    <2>2. step[<<m + 1, f[m]>>] \in V
      <3>1. <<m + 1, f[m]>> \in (1..L) \X V
        BY <2>1
      <3> QED
        BY <3>1
    <2>3. g \in [0..(m + 1) -> V]
      BY <2>2
    <2>4. g[0] = initial
      BY <2>1
    <2>5. ASSUME NEW n \in 1..(m + 1)
          PROVE  g[n] = step[<<n, g[n - 1]>>]
      <3>1. /\ g[n - 1] = f[n - 1]
            /\ g[n] = IF n = m + 1 THEN step[<<m + 1, f[m]>>] ELSE f[n]
        OBVIOUS
      <3> HIDE DEF g
      <3>2. CASE n = m + 1
        BY <3>1, <3>2
      <3>3. CASE n # m + 1
        <4>1. n \in 1..m
          BY <3>3
        <4>2. f[n] = step[<<n, f[n - 1]>>]
          BY <2>1, <4>1
        <4> QED
          BY <3>1, <4>1, <4>2
      <3> QED
        BY <3>2, <3>3
    <2>6. Runs(m + 1, g)
      BY <2>4, <2>5
    <2> HIDE DEF g, Runs
    <2> QED
      BY <2>3, <2>6
  <1>3. L \in T
    <2> HIDE DEF T
    <2>1. \A n \in 0..L : n \in T
      BY <1>1, <1>2, Induction
    <2> QED
      BY <2>1
  <1> QED
    BY <1>3 DEF Looped

\* What it computes has the type that each turn keeps.
LEMMA LoopTyped ==
  ASSUME NEW V, NEW L \in Nat, NEW f, f = [n \in 0..L |-> f[n]],
         f[0] \in V, \A n \in 1..L : f[n - 1] \in V => f[n] \in V
  PROVE  f \in [0..L -> V]
  <1> DEFINE T == {n \in 0..L : f[n] \in V}
  <1>1. 0 \in T
    OBVIOUS
  <1>2. ASSUME NEW n \in 0..(L - 1), n \in T
        PROVE  n + 1 \in T
    <2>1. n + 1 \in 1..L /\ n + 1 \in 0..L /\ (n + 1) - 1 = n
      OBVIOUS
    <2>2. f[n] \in V
      BY <1>2
    <2>3. f[n + 1] \in V
      BY <2>1, <2>2
    <2> QED
      BY <2>1, <2>3
  <1>3. \A n \in 0..L : n \in T
    <2> HIDE DEF T
    <2> QED
      BY <1>1, <1>2, Induction
  <1>4. \A n \in 0..L : f[n] \in V
    BY <1>3
  <1> QED
    BY <1>4

\* Replacing is a loop from the end: what a position becomes follows from later ones.
LEMMA BackwardInduction ==
  ASSUME NEW L \in Nat, NEW T, L + 1 \in T,
         \A i \in 1..L : (\A j \in (i + 1)..(L + 1) : j \in T) => i \in T
  PROVE  \A i \in 1..(L + 1) : i \in T
  <1> DEFINE D == {k \in 0..L : \A j \in (L + 1 - k)..(L + 1) : j \in T}
  <1>1. 0 \in D
    <2>1. \A j \in (L + 1 - 0)..(L + 1) : j = L + 1
      OBVIOUS
    <2> QED
      BY <2>1
  <1>2. ASSUME NEW k \in 0..(L - 1), k \in D
        PROVE  k + 1 \in D
    <2>1. \A j \in (L + 1 - k)..(L + 1) : j \in T
      BY <1>2
    <2>2. L - k \in 1..L /\ (L - k) + 1 = L + 1 - k
      OBVIOUS
    <2>3. L - k \in T
      BY <2>1, <2>2
    <2>4. \A j \in (L + 1 - (k + 1))..(L + 1) : j = L - k \/ j \in (L + 1 - k)..(L + 1)
      OBVIOUS
    <2> QED
      BY <2>1, <2>3, <2>4
  <1>3. L \in D
    <2> HIDE DEF D
    <2>1. \A k \in 0..L : k \in D
      BY <1>1, <1>2, Induction
    <2> QED
      BY <2>1
  <1> QED
    BY <1>3

\* A part found in a text ends within it.
LEMMA IsAtFits ==
  ASSUME NEW V, NEW text \in Seq(V), NEW old \in Seq(V) \ {<<>>},
         NEW i \in 1..Len(text), IsAt(text, i, old)
  PROVE  i + Len(old) \in (i + 1)..(Len(text) + 1)
  <1>1. Len(old) \in Nat \ {0} /\ Len(text) \in Nat
    OBVIOUS
  <1>2. i + Len(old) - 1 <= Len(text)
    BY DEF IsAt
  <1> QED
    BY <1>1, <1>2

\* strings.ReplaceAll: what becomes of the text from each position on.
LEMMA ReplacedFacts ==
  ASSUME NEW V, NEW text \in Seq(V), NEW old \in Seq(V) \ {<<>>}, NEW new \in Seq(V)
  PROVE  /\ Replaced(text, old, new) \in [1..(Len(text) + 1) -> Seq(V)]
         /\ Replaced(text, old, new)[Len(text) + 1] = <<>>
         /\ \A i \in 1..Len(text) : Replaced(text, old, new)[i] =
              IF IsAt(text, i, old) THEN new \o Replaced(text, old, new)[i + Len(old)]
                                    ELSE <<text[i]>> \o Replaced(text, old, new)[i + 1]
  <1> DEFINE L == Len(text)
             U == Seq(V)
             At(f, i) == IF i > L THEN <<>>
                         ELSE IF IsAt(text, i, old) THEN new \o f[i + Len(old)]
                                                    ELSE <<text[i]>> \o f[i + 1]
             Whole(f) == [i \in 1..(L + 1) |->
                            IF i > L THEN <<>>
                            ELSE IF IsAt(text, i, old) THEN new \o f[i + Len(old)]
                                                       ELSE <<text[i]>> \o f[i + 1]]
             From(m, f) == \A i \in m..(L + 1) : f[i] = At(f, i)
             T == {m \in 1..(L + 1) : \E f \in [m..(L + 1) -> U] : From(m, f)}
             J == Replaced(text, old, new)
  <1>1. L \in Nat /\ <<>> \in U
    OBVIOUS
  <1>2. L + 1 \in T
    <2> DEFINE g == [i \in (L + 1)..(L + 1) |-> <<>>]
    <2>1. \A i \in (L + 1)..(L + 1) : i > L /\ g[i] = <<>> /\ At(g, i) = <<>>
      BY <1>1
    <2>2. From(L + 1, g)
      BY <2>1
    <2>3. g \in [(L + 1)..(L + 1) -> U]
      BY <1>1
    <2>4. L + 1 \in 1..(L + 1)
      BY <1>1
    <2> HIDE DEF g, From, L, U
    <2> QED
      BY <2>2, <2>3, <2>4
  <1>3. ASSUME NEW i \in 1..L, \A j \in (i + 1)..(L + 1) : j \in T
        PROVE  i \in T
    <2>1. i + 1 \in T /\ i \in 1..(L + 1)
      <3>1. i + 1 \in (i + 1)..(L + 1) /\ i \in 1..(L + 1)
        BY <1>1
      <3> HIDE DEF T
      <3> QED
        BY <1>3, <3>1
    <2>2. PICK f \in [(i + 1)..(L + 1) -> U] : From(i + 1, f)
      BY <2>1
    <2> DEFINE one == IF IsAt(text, i, old) THEN new \o f[i + Len(old)]
                                            ELSE <<text[i]>> \o f[i + 1]
               g == [j \in i..(L + 1) |-> IF j = i THEN one ELSE f[j]]
    <2>3. one \in U
      <3>1. CASE IsAt(text, i, old)
        <4>1. i + Len(old) \in (i + 1)..(L + 1)
          BY <3>1, IsAtFits
        <4>2. f[i + Len(old)] \in Seq(V)
          BY <2>2, <4>1
        <4> QED
          BY <3>1, <4>2
      <3>2. CASE ~IsAt(text, i, old)
        <4>1. i + 1 \in (i + 1)..(L + 1) /\ <<text[i]>> \in Seq(V)
          BY <1>1
        <4>2. f[i + 1] \in Seq(V)
          BY <2>2, <4>1
        <4> QED
          BY <3>2, <4>1, <4>2
      <3> QED
        BY <3>1, <3>2
    <2>4. g \in [i..(L + 1) -> U] /\ g[i] = one /\ \A j \in (i + 1)..(L + 1) : g[j] = f[j]
      <3> HIDE DEF one, L, U
      <3> QED
        BY <1>1, <2>2, <2>3
    <2> HIDE DEF g
    <2>5. g[i] = At(g, i)
      <3>1. CASE IsAt(text, i, old)
        <4>1. i + Len(old) \in (i + 1)..(L + 1)
          BY <3>1, IsAtFits
        <4>2. g[i + Len(old)] = f[i + Len(old)] /\ ~(i > L)
          BY <1>1, <2>4, <4>1
        <4>3. one = new \o f[i + Len(old)] /\ g[i] = one
          BY <2>4, <3>1
        <4>4. At(g, i) = new \o g[i + Len(old)]
          BY <3>1, <4>2
        <4> QED
          BY <4>2, <4>3, <4>4
      <3>2. CASE ~IsAt(text, i, old)
        <4>1. i + 1 \in (i + 1)..(L + 1)
          BY <1>1
        <4>2. g[i + 1] = f[i + 1] /\ ~(i > L)
          BY <1>1, <2>4, <4>1
        <4>3. one = <<text[i]>> \o f[i + 1] /\ g[i] = one
          BY <2>4, <3>2
        <4>4. At(g, i) = <<text[i]>> \o g[i + 1]
          BY <3>2, <4>2
        <4> QED
          BY <4>2, <4>3, <4>4
      <3> QED
        BY <3>1, <3>2
    <2> HIDE DEF one
    <2>6. ASSUME NEW j \in (i + 1)..(L + 1)
          PROVE  g[j] = At(g, j)
      <3>1. f[j] = At(f, j) /\ g[j] = f[j]
        BY <2>2, <2>4
      <3>2. At(f, j) = At(g, j)
        <4>1. CASE j > L
          BY <4>1
        <4>2. CASE j <= L /\ IsAt(text, j, old)
          <5>1. j \in 1..Len(text)
            BY <1>1, <4>2
          <5>2. j + Len(old) \in (j + 1)..(L + 1)
            BY <4>2, <5>1, IsAtFits
          <5>3. j + Len(old) \in (i + 1)..(L + 1)
            BY <1>1, <5>2
          <5> QED
            BY <2>4, <4>2, <5>3
        <4>3. CASE j <= L /\ ~IsAt(text, j, old)
          <5>1. j + 1 \in (i + 1)..(L + 1)
            BY <1>1, <4>3
          <5> QED
            BY <2>4, <4>3, <5>1
        <4> QED
          BY <1>1, <4>1, <4>2, <4>3
      <3> QED
        BY <3>1, <3>2
    <2>7. From(i, g)
      <3>1. \A j \in i..(L + 1) : j = i \/ j \in (i + 1)..(L + 1)
        BY <1>1
      <3> HIDE DEF At
      <3> QED
        BY <2>5, <2>6, <3>1
    <2>8. g \in [i..(L + 1) -> U]
      BY <2>4
    <2> HIDE DEF From, L, U
    <2> QED
      BY <2>1, <2>7, <2>8
  <1>4. 1 \in T
    <2> HIDE DEF T
    <2>1. \A i \in 1..(L + 1) : i \in T
      <3> HIDE DEF L
      <3> QED
        BY <1>1, <1>2, <1>3, BackwardInduction
    <2> QED
      BY <1>1, <2>1
  <1>5. PICK f \in [1..(L + 1) -> U] : From(1, f)
    BY <1>4
  <1>6. f = Whole(f)
    <2>1. \A i \in 1..(L + 1) : f[i] = Whole(f)[i]
      BY <1>5
    <2>2. Whole(f) = [i \in 1..(L + 1) |-> Whole(f)[i]] /\ f = [i \in 1..(L + 1) |-> f[i]]
      BY <1>5
    <2> HIDE DEF Whole, L
    <2> QED
      BY <2>1, <2>2
  <1>7. J = Whole(J)
    <2>1. J = CHOOSE g : g = Whole(g)
      BY DEF Replaced
    <2> HIDE DEF Whole, J
    <2> QED
      BY <1>6, <2>1
  <1> HIDE DEF J
  <1>8. J[L + 1] = <<>> /\ \A i \in 1..L : J[i] =
              IF IsAt(text, i, old) THEN new \o J[i + Len(old)] ELSE <<text[i]>> \o J[i + 1]
    <2>1. \A i \in 1..(L + 1) : J[i] = Whole(J)[i]
      BY <1>7
    <2>2. L + 1 \in 1..(L + 1) /\ L + 1 > L /\ \A i \in 1..L : i \in 1..(L + 1) /\ ~(i > L)
      BY <1>1
    <2> QED
      BY <2>1, <2>2
  <1> DEFINE Typable == {i \in 1..(L + 1) : J[i] \in U}
  <1>9. L + 1 \in Typable
    <2>1. L + 1 \in 1..(L + 1) /\ J[L + 1] \in U
      BY <1>1, <1>8
    <2> HIDE DEF L, U
    <2> QED
      BY <2>1
  <1>10. ASSUME NEW i \in 1..L, \A j \in (i + 1)..(L + 1) : j \in Typable
         PROVE  i \in Typable
    <2>1. \A j \in (i + 1)..(L + 1) : J[j] \in Seq(V)
      BY <1>10
    <2>2. J[i] \in Seq(V)
      <3>1. CASE IsAt(text, i, old)
        <4>1. i + Len(old) \in (i + 1)..(L + 1)
          BY <3>1, IsAtFits
        <4>2. J[i + Len(old)] \in Seq(V)
          BY <2>1, <4>1
        <4>3. J[i] = new \o J[i + Len(old)]
          BY <1>8, <3>1
        <4>4. new \o J[i + Len(old)] \in Seq(V)
          BY <4>2, ConcatProperties
        <4> QED
          BY <4>3, <4>4
      <3>2. CASE ~IsAt(text, i, old)
        <4>1. i + 1 \in (i + 1)..(L + 1) /\ <<text[i]>> \in Seq(V)
          BY <1>1
        <4>2. J[i + 1] \in Seq(V)
          BY <2>1, <4>1
        <4>3. J[i] = <<text[i]>> \o J[i + 1]
          BY <1>8, <3>2
        <4>4. <<text[i]>> \o J[i + 1] \in Seq(V)
          BY <4>1, <4>2, ConcatProperties
        <4> QED
          BY <4>3, <4>4
      <3> QED
        BY <3>1, <3>2
    <2> QED
      BY <1>1, <2>2
  <1>11. \A i \in 1..(L + 1) : i \in Typable
    <2> HIDE DEF Typable, L
    <2> QED
      BY <1>1, <1>9, <1>10, BackwardInduction
  <1>12. J \in [1..(L + 1) -> U]
    <2>1. J = [i \in 1..(L + 1) |-> J[i]]
      BY <1>7
    <2> QED
      BY <1>11, <2>1
  <1> QED
    BY <1>8, <1>12 DEF J

\* strings.Join: the text up to each part.
LEMMA JoinsFacts ==
  ASSUME NEW V, NEW parts \in Seq(Seq(V)), NEW with \in Seq(V)
  PROVE  /\ Joins(parts, with) \in [0..Len(parts) -> Seq(V)]
         /\ Joins(parts, with)[0] = <<>>
         /\ \A n \in 1..Len(parts) : Joins(parts, with)[n] =
              IF n = 1 THEN parts[1] ELSE Joins(parts, with)[n - 1] \o (with \o parts[n])
  <1> DEFINE L == Len(parts)
             U == Seq(V)
             Turn(n, v) == IF n = 1 THEN parts[1] ELSE v \o (with \o parts[n])
             Turns(f) == [n \in 0..L |->
                            IF n = 0 THEN <<>>
                            ELSE IF n = 1 THEN parts[1] ELSE f[n - 1] \o (with \o parts[n])]
             step == [x \in (1..L) \X U |-> Turn(x[1], x[2])]
             J == Joins(parts, with)
  <1>1. \A n \in 1..L, v \in U : Turn(n, v) \in U
    OBVIOUS
  <1>2. step \in [(1..L) \X U -> U] /\ <<>> \in U /\ L \in Nat
    BY <1>1
  <1>3. PICK f \in [0..L -> U] : Looped(f, <<>>, L, step)
    <2> HIDE DEF step, L, U
    <2> QED
      BY <1>2, Loop
  <1>4. ASSUME NEW n \in 1..L
        PROVE  f[n] = Turn(n, f[n - 1])
    <2>1. n - 1 \in 0..L
      BY <1>2
    <2>2. <<n, f[n - 1]>> \in (1..L) \X U
      BY <1>3, <2>1
    <2>3. step[<<n, f[n - 1]>>] = Turn(n, f[n - 1])
      BY <2>2
    <2> HIDE DEF step, Turn
    <2> QED
      BY <1>3, <2>3 DEF Looped
  <1> HIDE DEF step
  <1>5. f = Turns(f)
    <2>1. f[0] = <<>>
      BY <1>3 DEF Looped
    <2>2. Turns(f)[0] = <<>>
      BY <1>2
    <2>3. ASSUME NEW n \in 0..L, n # 0
          PROVE  f[n] = Turns(f)[n]
      <3>1. n \in 1..L
        BY <1>2, <2>3
      <3>2. Turns(f)[n] = Turn(n, f[n - 1])
        BY <2>3
      <3> QED
        BY <1>4, <3>1, <3>2
    <2>4. \A n \in 0..L : f[n] = Turns(f)[n]
      BY <2>1, <2>2, <2>3
    <2>5. Turns(f) = [n \in 0..L |-> Turns(f)[n]] /\ f = [n \in 0..L |-> f[n]]
      BY <1>3
    <2> HIDE DEF Turns, L
    <2> QED
      BY <2>4, <2>5
  <1>6. J = Turns(J)
    <2>1. J = CHOOSE g : g = Turns(g)
      BY DEF Joins
    <2> HIDE DEF Turns, J
    <2> QED
      BY <1>5, <2>1
  <1> HIDE DEF J
  <1>7. J[0] = <<>> /\ \A n \in 1..L : J[n] = Turn(n, J[n - 1])
    <2>1. \A n \in 0..L : J[n] = Turns(J)[n]
      BY <1>6
    <2>2. 0 \in 0..L /\ \A n \in 1..L : n \in 0..L /\ n # 0
      BY <1>2
    <2>3. Turns(J)[0] = <<>>
      BY <2>2
    <2>4. \A n \in 1..L : Turns(J)[n] = Turn(n, J[n - 1])
      BY <2>2
    <2> HIDE DEF Turn, Turns, L
    <2> QED
      BY <2>1, <2>2, <2>3, <2>4
  <1>8. J = [n \in 0..L |-> J[n]]
    BY <1>6
  <1>9. J \in [0..L -> U]
    <2>1. \A n \in 1..L : J[n - 1] \in U => J[n] \in U
      <3> HIDE DEF L, U, Turn, Turns
      <3> QED
        BY <1>1, <1>7
    <2>2. J[0] \in U /\ L \in Nat
      <3> HIDE DEF L, U, Turn, Turns
      <3> QED
        BY <1>2, <1>7
    <2> HIDE DEF L, U, Turn, Turns
    <2> QED
      BY <1>8, <2>1, <2>2, LoopTyped
  <1> QED
    BY <1>7, <1>9 DEF J

\* The loop that appends all values but some.
LEMMA FiltersFacts ==
  ASSUME NEW V, NEW list \in Seq(V), NEW dropped
  PROVE  /\ Filters(list, dropped) \in [0..Len(list) -> Seq(V)]
         /\ Filters(list, dropped)[0] = <<>>
         /\ \A n \in 1..Len(list) : Filters(list, dropped)[n] =
              IF list[n] \in dropped THEN Filters(list, dropped)[n - 1]
                                     ELSE Append(Filters(list, dropped)[n - 1], list[n])
  <1> DEFINE L == Len(list)
             U == Seq(V)
             Turn(n, v) == IF list[n] \in dropped THEN v ELSE Append(v, list[n])
             Turns(f) == [n \in 0..L |->
                            IF n = 0 THEN <<>>
                            ELSE IF list[n] \in dropped THEN f[n - 1]
                                                        ELSE Append(f[n - 1], list[n])]
             step == [x \in (1..L) \X U |-> Turn(x[1], x[2])]
             J == Filters(list, dropped)
  <1>1. \A n \in 1..L, v \in U : Turn(n, v) \in U
    OBVIOUS
  <1>2. step \in [(1..L) \X U -> U] /\ <<>> \in U /\ L \in Nat
    BY <1>1
  <1>3. PICK f \in [0..L -> U] : Looped(f, <<>>, L, step)
    <2> HIDE DEF step, L, U
    <2> QED
      BY <1>2, Loop
  <1>4. ASSUME NEW n \in 1..L
        PROVE  f[n] = Turn(n, f[n - 1])
    <2>1. n - 1 \in 0..L
      BY <1>2
    <2>2. <<n, f[n - 1]>> \in (1..L) \X U
      BY <1>3, <2>1
    <2>3. step[<<n, f[n - 1]>>] = Turn(n, f[n - 1])
      BY <2>2
    <2> HIDE DEF step, Turn
    <2> QED
      BY <1>3, <2>3 DEF Looped
  <1> HIDE DEF step
  <1>5. f = Turns(f)
    <2>1. f[0] = <<>>
      BY <1>3 DEF Looped
    <2>2. Turns(f)[0] = <<>>
      BY <1>2
    <2>3. ASSUME NEW n \in 0..L, n # 0
          PROVE  f[n] = Turns(f)[n]
      <3>1. n \in 1..L
        BY <1>2, <2>3
      <3>2. Turns(f)[n] = Turn(n, f[n - 1])
        BY <2>3
      <3> QED
        BY <1>4, <3>1, <3>2
    <2>4. \A n \in 0..L : f[n] = Turns(f)[n]
      BY <2>1, <2>2, <2>3
    <2>5. Turns(f) = [n \in 0..L |-> Turns(f)[n]] /\ f = [n \in 0..L |-> f[n]]
      BY <1>3
    <2> HIDE DEF Turns, L
    <2> QED
      BY <2>4, <2>5
  <1>6. J = Turns(J)
    <2>1. J = CHOOSE g : g = Turns(g)
      BY DEF Filters
    <2> HIDE DEF Turns, J
    <2> QED
      BY <1>5, <2>1
  <1> HIDE DEF J
  <1>7. J[0] = <<>> /\ \A n \in 1..L : J[n] = Turn(n, J[n - 1])
    <2>1. \A n \in 0..L : J[n] = Turns(J)[n]
      BY <1>6
    <2>2. 0 \in 0..L /\ \A n \in 1..L : n \in 0..L /\ n # 0
      BY <1>2
    <2>3. Turns(J)[0] = <<>>
      BY <2>2
    <2>4. \A n \in 1..L : Turns(J)[n] = Turn(n, J[n - 1])
      BY <2>2
    <2> HIDE DEF Turn, Turns, L
    <2> QED
      BY <2>1, <2>2, <2>3, <2>4
  <1>8. J = [n \in 0..L |-> J[n]]
    BY <1>6
  <1>9. J \in [0..L -> U]
    <2>1. \A n \in 1..L : J[n - 1] \in U => J[n] \in U
      <3> HIDE DEF L, U, Turn, Turns
      <3> QED
        BY <1>1, <1>7
    <2>2. J[0] \in U /\ L \in Nat
      <3> HIDE DEF L, U, Turn, Turns
      <3> QED
        BY <1>2, <1>7
    <2> HIDE DEF L, U, Turn, Turns
    <2> QED
      BY <1>8, <2>1, <2>2, LoopTyped
  <1> QED
    BY <1>7, <1>9 DEF J

\* A text of nothing is one piece of nothing.
LEMMA NoPiecesTyped == \A V : << <<>> >> \in Seq(Seq(V)) \ {<<>>}
  OBVIOUS

\* A letter leaves pieces of letters,
LEMMA SpellTyped ==
  ASSUME NEW V, NEW pieces \in Seq(Seq(V)) \ {<<>>}, NEW letter \in V, NEW char
  PROVE  Spell(pieces, letter, char) \in Seq(Seq(V)) \ {<<>>}
  <1>1. Len(pieces) \in Nat \ {0}
    OBVIOUS
  <1>2. Last(pieces) \in Seq(V) /\ Front(pieces) \in Seq(Seq(V))
    BY <1>1 DEF Last, Front
  <1>3. Append(Last(pieces), letter) \in Seq(V) /\ <<>> \in Seq(V)
    BY <1>2
  <1>4. \A list \in Seq(Seq(V)), one \in Seq(V) : Append(list, one) \in Seq(Seq(V)) \ {<<>>}
    BY AppendProperties
  <1> QED
    BY <1>2, <1>3, <1>4 DEF Spell

\* and so does strings.Split, letter by letter.
LEMMA SplitsFacts ==
  ASSUME NEW V, NEW text \in Seq(V), NEW char
  PROVE  /\ Splits(text, char) \in [0..Len(text) -> Seq(Seq(V)) \ {<<>>}]
         /\ Splits(text, char)[0] = << <<>> >>
         /\ \A i \in 1..Len(text) : Splits(text, char)[i] =
              Spell(Splits(text, char)[i - 1], text[i], char)
  <1> DEFINE L == Len(text)
             U == Seq(Seq(V)) \ {<<>>}
             Turn(n, v) == Spell(v, text[n], char)
             Turns(f) == [n \in 0..L |->
                            IF n = 0 THEN << <<>> >>
                            ELSE Spell(f[n - 1], text[n], char)]
             step == [x \in (1..L) \X U |-> Turn(x[1], x[2])]
             J == Splits(text, char)
  <1>1. \A n \in 1..L, v \in U : Turn(n, v) \in U
    <2>1. \A n \in 1..L : text[n] \in V
      OBVIOUS
    <2> QED
      BY <2>1, SpellTyped
  <1>2. step \in [(1..L) \X U -> U] /\ << <<>> >> \in U /\ L \in Nat
    <2>1. << <<>> >> \in U
      BY NoPiecesTyped
    <2>2. L \in Nat
      OBVIOUS
    <2>3. step \in [(1..L) \X U -> U]
      <3> HIDE DEF U, L, Turn
      <3> QED
        BY <1>1
    <2> QED
      BY <2>1, <2>2, <2>3
  <1>3. PICK f \in [0..L -> U] : Looped(f, << <<>> >>, L, step)
    <2> HIDE DEF step, L, U
    <2> QED
      BY <1>2, Loop
  <1>4. ASSUME NEW n \in 1..L
        PROVE  f[n] = Turn(n, f[n - 1])
    <2>1. n - 1 \in 0..L
      BY <1>2
    <2>2. <<n, f[n - 1]>> \in (1..L) \X U
      BY <1>3, <2>1
    <2>3. step[<<n, f[n - 1]>>] = Turn(n, f[n - 1])
      BY <2>2
    <2> HIDE DEF step, Turn
    <2> QED
      BY <1>3, <2>3 DEF Looped
  <1> HIDE DEF step
  <1>5. f = Turns(f)
    <2>1. f[0] = << <<>> >>
      BY <1>3 DEF Looped
    <2>2. Turns(f)[0] = << <<>> >>
      BY <1>2
    <2>3. ASSUME NEW n \in 0..L, n # 0
          PROVE  f[n] = Turns(f)[n]
      <3>1. n \in 1..L
        BY <1>2, <2>3
      <3>2. Turns(f)[n] = Turn(n, f[n - 1])
        BY <2>3
      <3> QED
        BY <1>4, <3>1, <3>2
    <2>4. \A n \in 0..L : f[n] = Turns(f)[n]
      BY <2>1, <2>2, <2>3
    <2>5. Turns(f) = [n \in 0..L |-> Turns(f)[n]] /\ f = [n \in 0..L |-> f[n]]
      BY <1>3
    <2> HIDE DEF Turns, L
    <2> QED
      BY <2>4, <2>5
  <1>6. J = Turns(J)
    <2>1. J = CHOOSE g : g = Turns(g)
      BY DEF Splits
    <2> HIDE DEF Turns, J
    <2> QED
      BY <1>5, <2>1
  <1> HIDE DEF J
  <1>7. J[0] = << <<>> >> /\ \A n \in 1..L : J[n] = Turn(n, J[n - 1])
    <2>1. \A n \in 0..L : J[n] = Turns(J)[n]
      BY <1>6
    <2>2. 0 \in 0..L /\ \A n \in 1..L : n \in 0..L /\ n # 0
      BY <1>2
    <2>3. Turns(J)[0] = << <<>> >>
      BY <2>2
    <2>4. \A n \in 1..L : Turns(J)[n] = Turn(n, J[n - 1])
      BY <2>2
    <2> HIDE DEF Turn, Turns, L
    <2> QED
      BY <2>1, <2>2, <2>3, <2>4
  <1>8. J = [n \in 0..L |-> J[n]]
    BY <1>6
  <1>9. J \in [0..L -> U]
    <2>1. \A n \in 1..L : J[n - 1] \in U => J[n] \in U
      <3> HIDE DEF L, U, Turn, Turns
      <3> QED
        BY <1>1, <1>7
    <2>2. J[0] \in U /\ L \in Nat
      <3> HIDE DEF L, U, Turn, Turns
      <3> QED
        BY <1>2, <1>7
    <2> HIDE DEF L, U, Turn, Turns
    <2> QED
      BY <1>8, <2>1, <2>2, LoopTyped
  <1> QED
    BY <1>7, <1>9 DEF J

\* selectFields: one name leaves a selection,
LEMMA SelectTyped ==
  ASSUME NEW N, NEW before \in [error : BOOLEAN, fields : Seq(N)], NEW name \in N,
         NEW all
  PROVE  Select(before, name, all) \in [error : BOOLEAN, fields : Seq(N)]
  <1>1. before.fields \in Seq(N)
    OBVIOUS
  <1>2. Append(before.fields, name) \in Seq(N) /\ <<>> \in Seq(N)
    BY <1>1
  <1>3. \A error \in BOOLEAN, fields \in Seq(N) :
          Selection(error, fields) \in [error : BOOLEAN, fields : Seq(N)]
    BY DEF Selection
  <1> QED
    BY <1>2, <1>3 DEF Select

SelectionsRun(csv, all, N) ==
    /\ Selections(csv, all) \in [0..Len(csv) -> [error : BOOLEAN, fields : Seq(N)]]
    /\ Selections(csv, all)[0] = Selection(FALSE, <<>>)
    /\ \A n \in 1..Len(csv) : Selections(csv, all)[n] =
         Select(Selections(csv, all)[n - 1], csv[n], all)

\* and so does the loop over all of them.
LEMMA SelectionsFacts ==
  ASSUME NEW N, NEW csv, Len(csv) \in Nat, \A n \in 1..Len(csv) : csv[n] \in N, NEW all
  PROVE  SelectionsRun(csv, all, N)
  <1> DEFINE L == Len(csv)
             U == [error : BOOLEAN, fields : Seq(N)]
             Turn(n, v) == Select(v, csv[n], all)
             Turns(f) == [n \in 0..L |->
                            IF n = 0 THEN Selection(FALSE, <<>>)
                            ELSE Select(f[n - 1], csv[n], all)]
             step == [x \in (1..L) \X U |-> Turn(x[1], x[2])]
             J == Selections(csv, all)
  <1>1. \A n \in 1..L, v \in U : Turn(n, v) \in U
    <2>1. \A n \in 1..L : csv[n] \in N
      OBVIOUS
    <2> QED
      BY <2>1, SelectTyped
  <1>2. step \in [(1..L) \X U -> U] /\ Selection(FALSE, <<>>) \in U /\ L \in Nat
    <2>1. FALSE \in BOOLEAN /\ <<>> \in Seq(N) /\ L \in Nat
      OBVIOUS
    <2>2. Selection(FALSE, <<>>) \in U
      BY <2>1 DEF Selection
    <2> QED
      BY <1>1, <2>1, <2>2
  <1>3. PICK f \in [0..L -> U] : Looped(f, Selection(FALSE, <<>>), L, step)
    <2> HIDE DEF step, L, U
    <2> QED
      BY <1>2, Loop
  <1>4. ASSUME NEW n \in 1..L
        PROVE  f[n] = Turn(n, f[n - 1])
    <2>1. n - 1 \in 0..L
      BY <1>2
    <2>2. <<n, f[n - 1]>> \in (1..L) \X U
      BY <1>3, <2>1
    <2>3. step[<<n, f[n - 1]>>] = Turn(n, f[n - 1])
      BY <2>2
    <2> HIDE DEF step, Turn
    <2> QED
      BY <1>3, <2>3 DEF Looped
  <1> HIDE DEF step
  <1>5. f = Turns(f)
    <2>1. f[0] = Selection(FALSE, <<>>)
      BY <1>3 DEF Looped
    <2>2. Turns(f)[0] = Selection(FALSE, <<>>)
      BY <1>2
    <2>3. ASSUME NEW n \in 0..L, n # 0
          PROVE  f[n] = Turns(f)[n]
      <3>1. n \in 1..L
        BY <1>2, <2>3
      <3>2. Turns(f)[n] = Turn(n, f[n - 1])
        BY <2>3
      <3> QED
        BY <1>4, <3>1, <3>2
    <2>4. \A n \in 0..L : f[n] = Turns(f)[n]
      BY <2>1, <2>2, <2>3
    <2>5. Turns(f) = [n \in 0..L |-> Turns(f)[n]] /\ f = [n \in 0..L |-> f[n]]
      BY <1>3
    <2> HIDE DEF Turns, L
    <2> QED
      BY <2>4, <2>5
  <1>6. J = Turns(J)
    <2>1. J = CHOOSE g : g = Turns(g)
      BY DEF Selections
    <2> HIDE DEF Turns, J
    <2> QED
      BY <1>5, <2>1
  <1> HIDE DEF J
  <1>7. J[0] = Selection(FALSE, <<>>) /\ \A n \in 1..L : J[n] = Turn(n, J[n - 1])
    <2>1. \A n \in 0..L : J[n] = Turns(J)[n]
      BY <1>6
    <2>2. 0 \in 0..L /\ \A n \in 1..L : n \in 0..L /\ n # 0
      BY <1>2
    <2>3. Turns(J)[0] = Selection(FALSE, <<>>)
      BY <2>2
    <2>4. \A n \in 1..L : Turns(J)[n] = Turn(n, J[n - 1])
      BY <2>2
    <2> HIDE DEF Turn, Turns, L
    <2> QED
      BY <2>1, <2>2, <2>3, <2>4
  <1>8. J = [n \in 0..L |-> J[n]]
    BY <1>6
  <1>9. J \in [0..L -> U]
    <2>1. \A n \in 1..L : J[n - 1] \in U => J[n] \in U
      <3> HIDE DEF L, U, Turn, Turns
      <3> QED
        BY <1>1, <1>7
    <2>2. J[0] \in U /\ L \in Nat
      <3> HIDE DEF L, U, Turn, Turns
      <3> QED
        BY <1>2, <1>7
    <2> HIDE DEF L, U, Turn, Turns
    <2> QED
      BY <1>8, <2>1, <2>2, LoopTyped
  <1> QED
    BY <1>7, <1>9 DEF J, SelectionsRun

------------------------------------------------------------------------------
(* Texts *)

\* A part of a text grows by one letter at a time.
LEMMA AppendedPart ==
  ASSUME NEW V, NEW s \in Seq(V), NEW k \in 0..(Len(s) - 1)
  PROVE  SubSeq(s, 1, k + 1) = SubSeq(s, 1, k) \o <<s[k + 1]>>
  <1>1. k + 1 \in 1..Len(s) /\ 1 \in 1..Len(s) /\ k + 1 \in 1..Len(s) /\ (k + 1) - 1 = k
    OBVIOUS
  <1>2. SubSeq(s, 1, k + 1) = SubSeq(s, 1, (k + 1) - 1) \o <<s[k + 1]>>
    BY <1>1, SubSeqRecursiveSecond
  <1> QED
    BY <1>1, <1>2

\* A part stands somewhere if each of its letters does.
LEMMA IsAtLetters ==
  ASSUME NEW V, NEW text \in Seq(V), NEW part \in Seq(V) \ {<<>>}, NEW i \in 1..Len(text)
  PROVE  IsAt(text, i, part) <=> /\ i + Len(part) - 1 <= Len(text)
                                 /\ \A k \in 1..Len(part) : text[i + k - 1] = part[k]
  <1> DEFINE n == Len(part)
             cut == SubSeq(text, i, i + n - 1)
  <1>1. n \in Nat \ {0} /\ Len(text) \in Nat
    OBVIOUS
  <1> SUFFICES ASSUME i + n - 1 <= Len(text)
               PROVE  cut = part <=> \A k \in 1..n : text[i + k - 1] = part[k]
    BY DEF IsAt
  <1>2. cut \in Seq(V) /\ Len(cut) = n /\ \A k \in 1..n : cut[k] = text[i + k - 1]
    <2>1. \A k \in i..(i + n - 1) : text[k] \in V
      BY <1>1
    <2>2. i + n - 1 \in Int /\ i <= i + n - 1 /\ (i + n - 1) - i + 1 = n
      BY <1>1
    <2> HIDE DEF n
    <2>3. /\ cut \in Seq(V)
          /\ Len(cut) = IF i <= i + n - 1 THEN (i + n - 1) - i + 1 ELSE 0
          /\ \A k \in 1..((i + n - 1) - i + 1) : cut[k] = text[i + k - 1]
      BY <2>1, <2>2, SubSeqProperties
    <2> QED
      BY <2>2, <2>3
  <1> HIDE DEF cut
  <1>3. (\A k \in 1..n : cut[k] = part[k]) => cut = part
    BY <1>2, SeqEqual
  <1> QED
    BY <1>2, <1>3

\* A text does not change where what is looked for is not.
LEMMA ReplaceNone ==
  ASSUME NEW V, NEW text \in Seq(V), NEW old \in Seq(V) \ {<<>>}, NEW new \in Seq(V),
         ~Holds(text, old)
  PROVE  Replace(text, old, new) = text
  <1> DEFINE L == Len(text)
             R == Replaced(text, old, new)
             T == {i \in 1..(L + 1) : R[i] = SubSeq(text, i, L)}
  <1>1. L \in Nat /\ DOMAIN text = 1..L
    OBVIOUS
  <1>2. R[L + 1] = <<>> /\ \A i \in 1..L : R[i] =
          IF IsAt(text, i, old) THEN new \o R[i + Len(old)] ELSE <<text[i]>> \o R[i + 1]
    BY ReplacedFacts
  <1>3. \A i \in 1..L : R[i] = <<text[i]>> \o R[i + 1]
    BY <1>1, <1>2 DEF Holds
  <1> HIDE DEF R
  <1>4. L + 1 \in T
    <2>1. SubSeq(text, L + 1, L) = <<>>
      BY <1>1, SubSeqEmpty
    <2>2. L + 1 \in 1..(L + 1)
      BY <1>1
    <2> HIDE DEF L
    <2> QED
      BY <1>2, <2>1, <2>2
  <1>5. ASSUME NEW i \in 1..L, \A j \in (i + 1)..(L + 1) : j \in T
        PROVE  i \in T
    <2>1. i + 1 \in (i + 1)..(L + 1) /\ i \in 1..(L + 1)
      BY <1>1
    <2>2. R[i + 1] = SubSeq(text, i + 1, L)
      BY <1>5, <2>1
    <2>3. SubSeq(text, i, L) = <<text[i]>> \o SubSeq(text, i + 1, L)
      <3>1. L \in i..Len(text)
        BY <1>1
      <3> QED
        BY <3>1, SubSeqRecursiveFirst
    <2> QED
      BY <1>3, <2>1, <2>2, <2>3
  <1>6. 1 \in T
    <2> HIDE DEF T
    <2>1. \A i \in 1..(L + 1) : i \in T
      <3> HIDE DEF L
      <3> QED
        BY <1>1, <1>4, <1>5, BackwardInduction
    <2> QED
      BY <1>1, <2>1
  <1> QED
    BY <1>6, SubSeqFull DEF Replace, R

\* What stays out of a text and of what is put in is not in the result,
LEMMA ReplaceTyped ==
  ASSUME NEW V, NEW text \in Seq(V), NEW old \in Seq(V) \ {<<>>}, NEW new \in Seq(V)
  PROVE  Replace(text, old, new) \in Seq(V)
  <1>1. Replaced(text, old, new) \in [1..(Len(text) + 1) -> Seq(V)]
    BY ReplacedFacts
  <1>2. 1 \in 1..(Len(text) + 1)
    OBVIOUS
  <1> QED
    BY <1>1, <1>2 DEF Replace

\* nor is a letter that is replaced by others.
LEMMA ReplaceLetter ==
  ASSUME NEW V, NEW text \in Seq(V), NEW letter \in V, NEW new \in Seq(V \ {letter})
  PROVE  Replace(text, <<letter>>, new) \in Seq(V \ {letter})
  <1> DEFINE L == Len(text)
             old == <<letter>>
             U == Seq(V \ {letter})
             R == Replaced(text, old, new)
             T == {i \in 1..(L + 1) : R[i] \in U}
  <1>1. L \in Nat /\ Len(old) = 1 /\ <<>> \in U
    OBVIOUS
  <1>2. old \in Seq(V) \ {<<>>}
    OBVIOUS
  <1>3. new \in Seq(V)
    <2>1. V \ {letter} \subseteq V
      OBVIOUS
    <2> QED
      BY <2>1, SeqMonotonic
  <1>4. R[L + 1] = <<>> /\ \A i \in 1..L : R[i] =
          IF IsAt(text, i, old) THEN new \o R[i + Len(old)] ELSE <<text[i]>> \o R[i + 1]
    <2> HIDE DEF old
    <2> QED
      BY ONLY text \in Seq(V), <1>2, <1>3, ReplacedFacts
  <1>5. \A i \in 1..L : IsAt(text, i, old) <=> text[i] = letter
    <2> SUFFICES ASSUME NEW i \in 1..L
                 PROVE  IsAt(text, i, old) <=> text[i] = letter
      OBVIOUS
    <2>1. IsAt(text, i, old) <=> /\ i + Len(old) - 1 <= Len(text)
                                 /\ \A k \in 1..Len(old) : text[i + k - 1] = old[k]
      <3> HIDE DEF old
      <3> QED
        BY <1>2, IsAtLetters
    <2> QED
      BY <1>1, <2>1
  <1>6. \A i \in 1..L : R[i] = IF text[i] = letter THEN new \o R[i + 1]
                                                   ELSE <<text[i]>> \o R[i + 1]
    BY <1>1, <1>4, <1>5
  <1> HIDE DEF R
  <1>7. L + 1 \in T
    <2>1. L + 1 \in 1..(L + 1)
      BY <1>1
    <2> HIDE DEF L, U
    <2> QED
      BY <1>1, <1>4, <2>1
  <1>8. ASSUME NEW i \in 1..L, \A j \in (i + 1)..(L + 1) : j \in T
        PROVE  i \in T
    <2>1. i + 1 \in (i + 1)..(L + 1) /\ i \in 1..(L + 1)
      BY <1>1
    <2>2. R[i + 1] \in U
      BY <1>8, <2>1
    <2>3. \A s, t \in U : s \o t \in U
      OBVIOUS
    <2>4. text[i] # letter => <<text[i]>> \in U
      OBVIOUS
    <2>5. R[i] \in U
      <3>1. CASE text[i] = letter
        <4>1. R[i] = new \o R[i + 1]
          BY <1>6, <3>1
        <4>2. new \in U
          OBVIOUS
        <4> HIDE DEF U
        <4> QED
          BY <2>2, <2>3, <4>1, <4>2
      <3>2. CASE text[i] # letter
        <4>1. R[i] = <<text[i]>> \o R[i + 1]
          BY <1>6, <3>2
        <4> HIDE DEF U
        <4> QED
          BY <2>2, <2>3, <2>4, <3>2, <4>1
      <3> QED
        BY <3>1, <3>2
    <2> HIDE DEF U, L
    <2> QED
      BY <2>1, <2>5
  <1>9. 1 \in T
    <2> HIDE DEF T
    <2>1. \A i \in 1..(L + 1) : i \in T
      <3> HIDE DEF L
      <3> QED
        BY <1>1, <1>7, <1>8, BackwardInduction
    <2> QED
      BY <1>1, <2>1
  <1> QED
    BY <1>9 DEF Replace, R

\* Around a letter that is no part of what is looked for, a text is replaced piece
\* by piece.
Across(w, a, c, b, old) ==
    /\ Len(w) = Len(a) + 1 + Len(b)
    /\ w[Len(a) + 1] = c
    /\ ~IsAt(w, Len(a) + 1, old)
    /\ \A i \in 1..Len(a) : w[i] = a[i] /\ (IsAt(w, i, old) <=> IsAt(a, i, old))
    /\ \A j \in 1..Len(b) : /\ w[Len(a) + 1 + j] = b[j]
                            /\ IsAt(w, Len(a) + 1 + j, old) <=> IsAt(b, j, old)

\* A part never stands across a letter it does not have,
LEMMA IsAtAcross ==
  ASSUME NEW V, NEW a \in Seq(V), NEW b \in Seq(V), NEW c \in V,
         NEW old \in Seq(V) \ {<<>>}, c \notin ToSet(old)
  PROVE  Across(a \o (<<c>> \o b), a, c, b, old)
  <1> DEFINE LA == Len(a)
             LB == Len(b)
             n == Len(old)
  <1> PICK w : w = a \o (<<c>> \o b)
    OBVIOUS
  <1>1. LA \in Nat /\ LB \in Nat /\ n \in Nat \ {0} /\ old[1] # c
    <2>1. 1 \in DOMAIN old
      OBVIOUS
    <2> QED
      BY <2>1 DEF ToSet
  <1>2. w \in Seq(V)
    OBVIOUS
  <1>3. /\ Len(w) = LA + 1 + LB /\ w[LA + 1] = c
        /\ \A i \in 1..LA : w[i] = a[i]
        /\ \A j \in 1..LB : w[LA + 1 + j] = b[j]
    OBVIOUS
  <1>4. \A k \in 1..n : old[k] # c
    BY DEF ToSet
  <1>5. \A i \in 1..Len(w) : IsAt(w, i, old) <=> /\ i + n - 1 <= Len(w)
                                                 /\ \A k \in 1..n : w[i + k - 1] = old[k]
    BY ONLY <1>2, old \in Seq(V) \ {<<>>}, IsAtLetters
  <1>6. \A i \in 1..LA : IsAt(a, i, old) <=> /\ i + n - 1 <= LA
                                             /\ \A k \in 1..n : a[i + k - 1] = old[k]
    BY IsAtLetters
  <1>7. \A i \in 1..LB : IsAt(b, i, old) <=> /\ i + n - 1 <= LB
                                             /\ \A k \in 1..n : b[i + k - 1] = old[k]
    BY IsAtLetters
  <1> HIDE DEF LA, LB, n
  <1>8. ~IsAt(w, LA + 1, old)
    <2>1. LA + 1 \in 1..Len(w) /\ 1 \in 1..n /\ LA + 1 + 1 - 1 = LA + 1
      BY <1>1, <1>3
    <2>2. w[LA + 1 + 1 - 1] # old[1]
      BY <1>1, <1>3, <2>1
    <2> QED
      BY <1>5, <2>1, <2>2
  <1>9. ASSUME NEW i \in 1..LA
        PROVE  IsAt(w, i, old) <=> IsAt(a, i, old)
    <2>1. i \in 1..Len(w)
      BY <1>1, <1>3
    <2>2. CASE i + n - 1 <= LA
      <3>1. i + n - 1 <= Len(w) /\ \A k \in 1..n : i + k - 1 \in 1..LA
        BY <1>1, <1>3, <2>2
      <3>2. \A k \in 1..n : w[i + k - 1] = a[i + k - 1]
        BY <1>3, <3>1
      <3> QED
        BY <1>5, <1>6, <2>1, <2>2, <3>1, <3>2
    <2>3. CASE ~(i + n - 1 <= LA)
      <3>1. LA + 2 - i \in 1..n /\ i + (LA + 2 - i) - 1 = LA + 1
        BY <1>1, <2>3
      <3>2. w[i + (LA + 2 - i) - 1] # old[LA + 2 - i]
        BY <1>3, <1>4, <3>1
      <3>3. ~IsAt(w, i, old)
        BY <1>5, <2>1, <3>1, <3>2
      <3> QED
        BY <1>6, <2>3, <3>3
    <2> QED
      BY <2>2, <2>3
  <1>10. ASSUME NEW j \in 1..LB
        PROVE  IsAt(w, LA + 1 + j, old) <=> IsAt(b, j, old)
    <2>1. LA + 1 + j \in 1..Len(w)
      BY <1>1, <1>3
    <2>2. CASE j + n - 1 <= LB
      <3>1. (LA + 1 + j) + n - 1 <= Len(w)
        BY <1>1, <1>3, <2>2
      <3>2. \A k \in 1..n : j + k - 1 \in 1..LB /\ (LA + 1 + j) + k - 1 = LA + 1 + (j + k - 1)
        BY <1>1, <2>2
      <3>3. \A k \in 1..n : w[(LA + 1 + j) + k - 1] = b[j + k - 1]
        BY <1>3, <3>2
      <3> QED
        BY <1>5, <1>7, <2>1, <2>2, <3>1, <3>3
    <2>3. CASE ~(j + n - 1 <= LB)
      <3>1. ~((LA + 1 + j) + n - 1 <= Len(w))
        BY <1>1, <1>3, <2>3
      <3> QED
        BY <1>5, <1>7, <2>1, <2>3, <3>1
    <2> QED
      BY <2>2, <2>3
  <1> QED
    BY <1>3, <1>8, <1>9, <1>10 DEF LA, LB, Across

Regroup(s, t, u) == s \o (t \o u) = (s \o t) \o u

\* Concatenation associates.
LEMMA Regrouped ==
  ASSUME NEW V, NEW s \in Seq(V), NEW t \in Seq(V), NEW u \in Seq(V)
  PROVE  Regroup(s, t, u)
  BY DEF Regroup

Parted(a, c, b, old, new) ==
    Replace(a \o (<<c>> \o b), old, new)
      = Replace(a, old, new) \o (<<c>> \o Replace(b, old, new))

\* so that the two sides of that letter are replaced by themselves.
LEMMA ReplaceAcross ==
  ASSUME NEW V, NEW a \in Seq(V), NEW b \in Seq(V), NEW c \in V,
         NEW old \in Seq(V) \ {<<>>}, c \notin ToSet(old), NEW new \in Seq(V)
  PROVE  Parted(a, c, b, old, new)
  <1> DEFINE LA == Len(a)
             LB == Len(b)
             n == Len(old)
             RA == Replaced(a, old, new)
             RB == Replaced(b, old, new)
             RW(w) == Replaced(w, old, new)
  <1>1. LA \in Nat /\ LB \in Nat /\ n \in Nat \ {0}
    OBVIOUS
  <1>2. PICK w : w = a \o (<<c>> \o b)
    OBVIOUS
  <1>3. Across(w, a, c, b, old)
    BY <1>2, IsAtAcross
  <1>4. Len(w) = LA + 1 + LB
    BY <1>3 DEF Across
  <1>5. w \in Seq(V)
    BY <1>2
  <1>6. w[LA + 1] = c /\ ~IsAt(w, LA + 1, old)
    BY <1>3 DEF Across
  <1>7. \A i \in 1..LA : w[i] = a[i] /\ (IsAt(w, i, old) <=> IsAt(a, i, old))
    BY <1>3 DEF Across
  <1>8. \A j \in 1..LB : /\ w[LA + 1 + j] = b[j]
                         /\ IsAt(w, LA + 1 + j, old) <=> IsAt(b, j, old)
    BY <1>3 DEF Across
  <1>9. /\ RW(w)[Len(w) + 1] = <<>>
        /\ \A i \in 1..Len(w) : RW(w)[i] =
             IF IsAt(w, i, old) THEN new \o RW(w)[i + n] ELSE <<w[i]>> \o RW(w)[i + 1]
    BY ONLY <1>5, old \in Seq(V) \ {<<>>}, new \in Seq(V), ReplacedFacts
  <1>10. /\ RA \in [1..(LA + 1) -> Seq(V)]
        /\ RA[LA + 1] = <<>>
        /\ \A i \in 1..LA : RA[i] =
             IF IsAt(a, i, old) THEN new \o RA[i + n] ELSE <<a[i]>> \o RA[i + 1]
    BY ReplacedFacts
  <1>11. /\ RB \in [1..(LB + 1) -> Seq(V)]
        /\ RB[LB + 1] = <<>>
        /\ \A i \in 1..LB : RB[i] =
             IF IsAt(b, i, old) THEN new \o RB[i + n] ELSE <<b[i]>> \o RB[i + 1]
    BY ReplacedFacts
  <1>12. /\ \A i \in 1..LA : IsAt(a, i, old) => i + n \in (i + 1)..(LA + 1)
         /\ \A j \in 1..LB : IsAt(b, j, old) => j + n \in (j + 1)..(LB + 1)
    BY IsAtFits
  <1>13. \A x \in V : <<x>> \in Seq(V)
    OBVIOUS
  <1>14. PICK R : R = RW(w)
    OBVIOUS
  <1>15. /\ R[LA + 1 + LB + 1] = <<>>
         /\ \A i \in 1..(LA + 1 + LB) : R[i] =
             IF IsAt(w, i, old) THEN new \o R[i + n] ELSE <<w[i]>> \o R[i + 1]
    BY <1>4, <1>9, <1>14
  <1> HIDE DEF LA, LB, n, RA, RB
  \* behind the letter,
  <1>16. \A j \in 1..(LB + 1) : R[LA + 1 + j] = RB[j]
    <2> DEFINE T == {j \in 1..(LB + 1) : R[LA + 1 + j] = RB[j]}
    <2>1. LB + 1 \in T
      <3>1. LA + 1 + (LB + 1) = LA + 1 + LB + 1 /\ LB + 1 \in 1..(LB + 1)
        BY <1>1
      <3> QED
        BY <1>11, <1>15, <3>1
    <2>2. ASSUME NEW j \in 1..LB, \A k \in (j + 1)..(LB + 1) : k \in T
          PROVE  j \in T
      <3>1. \A k \in (j + 1)..(LB + 1) : R[LA + 1 + k] = RB[k]
        BY <2>2
      <3>2. j + 1 \in (j + 1)..(LB + 1) /\ LA + 1 + j \in 1..(LA + 1 + LB)
              /\ (LA + 1 + j) + 1 = LA + 1 + (j + 1) /\ (LA + 1 + j) + n = LA + 1 + (j + n)
        BY <1>1
      <3>3. R[LA + 1 + j] = RB[j]
        <4>1. CASE IsAt(b, j, old)
          <5>1. R[LA + 1 + j] = new \o R[(LA + 1 + j) + n]
            BY <1>8, <1>15, <3>2, <4>1
          <5>2. R[LA + 1 + (j + n)] = RB[j + n]
            BY <1>12, <3>1, <4>1
          <5> QED
            BY <1>11, <3>2, <4>1, <5>1, <5>2
        <4>2. CASE ~IsAt(b, j, old)
          <5>1. R[LA + 1 + j] = <<b[j]>> \o R[(LA + 1 + j) + 1]
            BY <1>8, <1>15, <3>2, <4>2
          <5>2. R[LA + 1 + (j + 1)] = RB[j + 1]
            BY <3>1, <3>2
          <5> QED
            BY <1>11, <3>2, <4>2, <5>1, <5>2
        <4> QED
          BY <4>1, <4>2
      <3>4. j \in 1..(LB + 1)
        BY <1>1
      <3> QED
        BY <3>3, <3>4
    <2> HIDE DEF T
    <2>3. \A j \in 1..(LB + 1) : j \in T
      BY <1>1, <2>1, <2>2, BackwardInduction
    <2> QED
      BY <2>3 DEF T
  \* at it,
  <1>17. PICK tail \in Seq(V) : tail = <<c>> \o RB[1]
    <2>1. RB[1] \in Seq(V)
      BY <1>1, <1>11
    <2>2. <<c>> \o RB[1] \in Seq(V)
      BY <1>13, <2>1
    <2> QED
      BY <2>2
  <1>18. R[LA + 1] = tail
    <2>1. LA + 1 \in 1..(LA + 1 + LB) /\ 1 \in 1..(LB + 1)
      BY <1>1
    <2> QED
      BY <1>6, <1>15, <1>16, <1>17, <2>1
  \* and before it.
  <1>19. \A i \in 1..(LA + 1) : R[i] = RA[i] \o tail
    <2> DEFINE T == {i \in 1..(LA + 1) : R[i] = RA[i] \o tail}
    <2>1. LA + 1 \in T
      <3>1. LA + 1 \in 1..(LA + 1) /\ <<>> \o tail = tail
        BY <1>1
      <3> QED
        BY <1>10, <1>18, <3>1
    <2>2. ASSUME NEW i \in 1..LA, \A k \in (i + 1)..(LA + 1) : k \in T
          PROVE  i \in T
      <3>1. \A k \in (i + 1)..(LA + 1) : R[k] = RA[k] \o tail
        BY <2>2
      <3>2. i + 1 \in (i + 1)..(LA + 1) /\ i \in 1..(LA + 1 + LB) /\ i \in 1..(LA + 1)
        BY <1>1
      <3>3. R[i] = RA[i] \o tail
        <4>1. CASE IsAt(a, i, old)
          <5>1. R[i] = new \o R[i + n] /\ RA[i] = new \o RA[i + n]
            BY <1>7, <1>10, <1>15, <3>2, <4>1
          <5>2. i + n \in (i + 1)..(LA + 1)
            BY <1>12, <4>1
          <5>3. R[i + n] = RA[i + n] \o tail
            BY <3>1, <5>2
          <5>4. RA[i + n] \in Seq(V)
            <6>1. i + n \in 1..(LA + 1)
              BY <1>1, <5>2
            <6> QED
              BY <1>10, <6>1
          <5>5. new \o (RA[i + n] \o tail) = (new \o RA[i + n]) \o tail
            <6>1. Regroup(new, RA[i + n], tail)
              BY <5>4, Regrouped
            <6> QED
              BY <6>1 DEF Regroup
          <5> QED
            BY <5>1, <5>3, <5>5
        <4>2. CASE ~IsAt(a, i, old)
          <5>1. R[i] = <<a[i]>> \o R[i + 1] /\ RA[i] = <<a[i]>> \o RA[i + 1]
            BY <1>7, <1>10, <1>15, <3>2, <4>2
          <5>2. R[i + 1] = RA[i + 1] \o tail
            BY <3>1, <3>2
          <5>3. RA[i + 1] \in Seq(V)
            <6>1. i + 1 \in 1..(LA + 1)
              BY <1>1
            <6> QED
              BY <1>10, <6>1
          <5>4. <<a[i]>> \in Seq(V)
            BY <1>13 DEF LA
          <5>5. <<a[i]>> \o (RA[i + 1] \o tail) = (<<a[i]>> \o RA[i + 1]) \o tail
            <6>1. Regroup(<<a[i]>>, RA[i + 1], tail)
              BY <5>3, <5>4, Regrouped
            <6> QED
              BY <6>1 DEF Regroup
          <5> QED
            BY <5>1, <5>2, <5>5
        <4> QED
          BY <4>1, <4>2
      <3> QED
        BY <3>2, <3>3
    <2> HIDE DEF T
    <2>3. \A i \in 1..(LA + 1) : i \in T
      BY <1>1, <2>1, <2>2, BackwardInduction
    <2> QED
      BY <2>3 DEF T
  <1>20. R[1] = RA[1] \o tail
    BY <1>1, <1>19
  <1> QED
    BY <1>2, <1>14, <1>17, <1>20 DEF Replace, RA, RB, Parted

\* Texts of one letter,
LEMMA OneLetter ==
  ASSUME NEW V, NEW x \in V
  PROVE  <<x>> \in Seq(V) \ {<<>>} /\ <<x>>[1] = x /\ ToSet(<<x>>) = {x}
  BY DEF ToSet

\* of two,
LEMMA TwoLetters ==
  ASSUME NEW V, NEW x \in V, NEW y \in V
  PROVE  <<x, y>> \in Seq(V) \ {<<>>} /\ <<x, y>>[1] = x /\ ToSet(<<x, y>>) = {x, y}
  BY DEF ToSet

\* and of three.
LEMMA ThreeLetters ==
  ASSUME NEW V, NEW x \in V, NEW y \in V, NEW z \in V
  PROVE  /\ <<x, y, z>> \in Seq(V) \ {<<>>} /\ <<x, y, z>>[1] = x
         /\ ToSet(<<x, y, z>>) = {x, y, z}
  BY DEF ToSet

\* What the cells are made of: the letters they are given and blanks,
LEMMA SanitizeTyped ==
  ASSUME NEW A, NEW text \in Seq(A), {" ", "|", "\r", "\n"} \subseteq A
  PROVE  sanitize(text) \in Seq((A \ {"\r"}) \ {"\n"})
  <1>0. /\ " " \in A /\ " " \in A \ {"\r"} /\ " " \in (A \ {"\r"}) \ {"\n"}
        /\ "|" \in (A \ {"\r"}) \ {"\n"} /\ "\r" \in A /\ "\n" \in A /\ "\n" \in A \ {"\r"}
    OBVIOUS
  <1>1. <<"\r", "\n">> \in Seq(A) \ {<<>>}
    BY <1>0, TwoLetters
  <1>2. Space \in Seq(A) /\ Space \in Seq(A \ {"\r"}) /\ Space \in Seq((A \ {"\r"}) \ {"\n"})
    BY <1>0, OneLetter DEF Space
  <1>3. Separator \in Seq((A \ {"\r"}) \ {"\n"}) \ {<<>>}
    BY <1>0, ThreeLetters DEF Separator
  <1>4. PICK t1 \in Seq(A) : t1 = Replace(text, <<"\r", "\n">>, Space)
    BY <1>1, <1>2, ReplaceTyped
  <1>5. PICK t2 \in Seq(A \ {"\r"}) : t2 = Replace(t1, <<"\r">>, Space)
    BY <1>0, <1>2, ReplaceLetter
  <1>6. PICK t3 \in Seq((A \ {"\r"}) \ {"\n"}) : t3 = Replace(t2, Newline, Space)
    BY <1>0, <1>2, ReplaceLetter DEF Newline
  <1>7. Replace(t3, Separator, Space) \in Seq((A \ {"\r"}) \ {"\n"})
    BY <1>2, <1>3, ReplaceTyped
  <1>8. sanitize(text) = Replace(t3, Separator, Space)
    BY <1>4, <1>5, <1>6 DEF sanitize
  <1> QED
    BY <1>7, <1>8

\* or, of a text in order, that text.
LEMMA HoldsLetter ==
  ASSUME NEW V, NEW text \in Seq(V), NEW part \in Seq(V) \ {<<>>}, Holds(text, part)
  PROVE  part[1] \in ToSet(text)
  <1>1. PICK i \in 1..Len(text) : IsAt(text, i, part)
    BY DEF Holds
  <1>2. \A k \in 1..Len(part) : text[i + k - 1] = part[k]
    BY <1>1, IsAtLetters
  <1>3. 1 \in 1..Len(part) /\ i + 1 - 1 = i
    OBVIOUS
  <1>4. text[i] = part[1]
    BY <1>2, <1>3
  <1> QED
    BY <1>4 DEF ToSet

\* sanitize changes nothing of a text without line breaks and separators,
LEMMA SanitizeClean ==
  ASSUME NEW text \in Seq(Characters), "\r" \notin ToSet(text), "\n" \notin ToSet(text),
         ~Holds(text, Separator)
  PROVE  sanitize(text) = text
  <1>1. /\ <<"\r", "\n">> \in Seq(Characters) \ {<<>>} /\ <<"\r">> \in Seq(Characters) \ {<<>>}
        /\ Newline \in Seq(Characters) \ {<<>>} /\ Separator \in Seq(Characters) \ {<<>>}
        /\ Space \in Seq(Characters)
    BY CharactersAssumption, OneLetter, TwoLetters, ThreeLetters
       DEF Newline, Separator, Space, Written
  <1>2. ~Holds(text, <<"\r", "\n">>)
    <2>1. <<"\r", "\n">>[1] = "\r"
      OBVIOUS
    <2> QED
      BY <1>1, <2>1, HoldsLetter
  <1>3. ~Holds(text, <<"\r">>)
    <2>1. <<"\r">>[1] = "\r"
      OBVIOUS
    <2> QED
      BY <1>1, <2>1, HoldsLetter
  <1>4. ~Holds(text, Newline)
    <2>1. Newline[1] = "\n"
      BY DEF Newline
    <2> QED
      BY <1>1, <2>1, HoldsLetter
  <1>5. Replace(text, <<"\r", "\n">>, Space) = text
    BY <1>1, <1>2, ReplaceNone
  <1>6. Replace(text, <<"\r">>, Space) = text
    BY <1>1, <1>3, ReplaceNone
  <1>7. Replace(text, Newline, Space) = text
    BY <1>1, <1>4, ReplaceNone
  <1>8. Replace(text, Separator, Space) = text
    BY <1>1, ReplaceNone
  <1> QED
    BY <1>5, <1>6, <1>7, <1>8 DEF sanitize

\* Several texts in one cell are put in order each by itself.
LEMMA SanitizeAcross ==
  ASSUME NEW a \in Seq(Characters), NEW b \in Seq(Characters)
  PROVE  sanitize(a \o (<<",">> \o b)) = sanitize(a) \o (<<",">> \o sanitize(b))
  <1> DEFINE Olds == {<<"\r", "\n">>, <<"\r">>, Newline, Separator}
  <1>1. \A old \in Olds : old \in Seq(Characters) \ {<<>>} /\ "," \notin ToSet(old)
    <2>1. " " \in Characters /\ "|" \in Characters /\ "\r" \in Characters /\ "\n" \in Characters
      BY CharactersAssumption DEF Written
    <2>2. <<"\r", "\n">> \in Seq(Characters) \ {<<>>} /\ ToSet(<<"\r", "\n">>) = {"\r", "\n"}
      BY <2>1, TwoLetters
    <2>3. <<"\r">> \in Seq(Characters) \ {<<>>} /\ ToSet(<<"\r">>) = {"\r"}
      BY <2>1, OneLetter
    <2>4. Newline \in Seq(Characters) \ {<<>>} /\ ToSet(Newline) = {"\n"}
      BY <2>1, OneLetter DEF Newline
    <2>5. Separator \in Seq(Characters) \ {<<>>} /\ "," \notin ToSet(Separator)
      <3>1. Separator \in Seq(Characters) \ {<<>>}
        BY <2>1, ThreeLetters DEF Separator
      <3>2. /\ DOMAIN Separator = 1..3
            /\ Separator[1] = " " /\ Separator[2] = "|" /\ Separator[3] = " "
        BY DEF Separator
      <3>3. ASSUME NEW i \in DOMAIN Separator
            PROVE  Separator[i] # ","
        <4>1. i \in 1..3
          BY ONLY <3>2, <3>3
        <4>2. i = 1 \/ i = 2 \/ i = 3
          BY ONLY <4>1
        <4> QED
          BY ONLY <3>2, <4>2
      <3> QED
        BY <3>1, <3>3 DEF ToSet
    <2>6. /\ "," \notin ToSet(<<"\r", "\n">>) /\ "," \notin ToSet(<<"\r">>)
          /\ "," \notin ToSet(Newline) /\ "," \notin ToSet(Separator)
      BY <2>2, <2>3, <2>4, <2>5
    <2> QED
      BY <2>2, <2>3, <2>4, <2>5, <2>6
  <1>2. Space \in Seq(Characters) /\ "," \in Characters
    BY CharactersAssumption, OneLetter DEF Space, Written
  <1>3. \A old \in Olds, s \in Seq(Characters), t \in Seq(Characters) :
          Replace(s, old, Space) \in Seq(Characters) /\ Parted(s, ",", t, old, Space)
    <2> HIDE DEF Olds
    <2> SUFFICES ASSUME NEW old \in Olds, NEW s \in Seq(Characters), NEW t \in Seq(Characters)
                 PROVE  Replace(s, old, Space) \in Seq(Characters) /\ Parted(s, ",", t, old, Space)
      OBVIOUS
    <2>1. old \in Seq(Characters) \ {<<>>} /\ "," \notin ToSet(old)
      BY <1>1
    <2>2. Replace(s, old, Space) \in Seq(Characters)
      BY <1>2, <2>1, ReplaceTyped
    <2>3. Parted(s, ",", t, old, Space)
      BY <1>2, <2>1, ReplaceAcross
    <2> QED
      BY <2>2, <2>3
  <1>4. /\ <<"\r", "\n">> \in Olds /\ <<"\r">> \in Olds /\ Newline \in Olds /\ Separator \in Olds
    OBVIOUS
  <1> HIDE DEF Olds
  <1> DEFINE R1(s) == Replace(s, <<"\r", "\n">>, Space)
             R2(s) == Replace(s, <<"\r">>, Space)
             R3(s) == Replace(s, Newline, Space)
             R4(s) == Replace(s, Separator, Space)
             And(s, t) == s \o (<<",">> \o t)
  <1>5. \A s, t \in Seq(Characters) : R1(s) \in Seq(Characters) /\ R1(And(s, t)) = And(R1(s), R1(t))
    BY <1>3, <1>4 DEF Parted
  <1>6. \A s, t \in Seq(Characters) : R2(s) \in Seq(Characters) /\ R2(And(s, t)) = And(R2(s), R2(t))
    BY <1>3, <1>4 DEF Parted
  <1>7. \A s, t \in Seq(Characters) : R3(s) \in Seq(Characters) /\ R3(And(s, t)) = And(R3(s), R3(t))
    BY <1>3, <1>4 DEF Parted
  <1>8. \A s, t \in Seq(Characters) : R4(s) \in Seq(Characters) /\ R4(And(s, t)) = And(R4(s), R4(t))
    BY <1>3, <1>4 DEF Parted
  <1>9. \A s : sanitize(s) = R4(R3(R2(R1(s))))
    BY DEF sanitize
  <1>10. sanitize(And(a, b)) = And(sanitize(a), sanitize(b))
    <2> HIDE DEF R1, R2, R3, R4, And
    <2> QED
      BY <1>5, <1>6, <1>7, <1>8, <1>9
  <1> QED
    BY <1>10

\* and nothing of no text.
LEMMA SanitizeEmpty == sanitize(<<>>) = <<>>
  <1>1. <<>> \in Seq(Characters) /\ ToSet(<<>>) = {} /\ DOMAIN <<>> = {}
    BY DEF ToSet
  <1>2. ~Holds(<<>>, Separator)
    BY <1>1 DEF Holds
  <1> QED
    BY <1>1, <1>2, SanitizeClean

\* A cell has no line break in it and is never blank;
LEMMA CellTyped ==
  ASSUME NEW A, NEW text \in Seq(A), {" ", "|", "-", "\r", "\n"} \subseteq A
  PROVE  cell(text) \in Seq((A \ {"\r"}) \ {"\n"}) /\ ~IsBlank(cell(text))
  <1>1. sanitize(text) \in Seq((A \ {"\r"}) \ {"\n"})
    BY SanitizeTyped
  <1>2. Dash \in Seq((A \ {"\r"}) \ {"\n"}) /\ ~IsBlank(Dash)
    <2>1. "-" \in (A \ {"\r"}) \ {"\n"}
      OBVIOUS
    <2>2. Dash \in Seq((A \ {"\r"}) \ {"\n"}) /\ ToSet(Dash) = {"-"}
      BY <2>1, OneLetter DEF Dash
    <2> QED
      BY <2>2 DEF IsBlank
  <1> QED
    BY <1>1, <1>2 DEF cell

\* that of a mutation has no tab either.
LEMMA MutationCellTyped ==
  ASSUME NEW text \in Seq(Characters)
  PROVE  mutationCell(text) \in Seq(((Characters \ {"\r"}) \ {"\n"}) \ {"\t"})
  <1> DEFINE A == (Characters \ {"\r"}) \ {"\n"}
  <1>1. cell(text) \in Seq(A)
    <2>1. {" ", "|", "-", "\r", "\n"} \subseteq Characters
      BY CharactersAssumption DEF Written
    <2> QED
      BY <2>1, CellTyped
  <1>2. "\t" \in A /\ Space \in Seq(A \ {"\t"})
    <2>1. "\t" \in A /\ " " \in A \ {"\t"}
      BY CharactersAssumption DEF Written
    <2> QED
      BY <2>1, OneLetter DEF Space
  <1> HIDE DEF A
  <1>3. Replace(cell(text), <<"\t">>, Space) \in Seq(A \ {"\t"})
    BY <1>1, <1>2, ReplaceLetter
  <1> QED
    BY <1>3 DEF mutationCell, A

\* A clean text is its own cell.
LEMMA CellClean ==
  ASSUME NEW text \in Seq(Characters), Clean(text)
  PROVE  sanitize(text) = text /\ cell(text) = text /\ mutationCell(text) = text
  <1>1. /\ "\r" \notin ToSet(text) /\ "\n" \notin ToSet(text) /\ "\t" \notin ToSet(text)
        /\ ~Holds(text, Separator) /\ ~IsBlank(text)
    BY DEF Clean
  <1>2. sanitize(text) = text
    BY <1>1, SanitizeClean
  <1>3. cell(text) = text
    BY <1>1, <1>2 DEF cell
  <1>4. ~Holds(text, <<"\t">>)
    <2>1. <<"\t">>[1] = "\t" /\ <<"\t">> \in Seq(Characters) \ {<<>>}
      BY CharactersAssumption, OneLetter DEF Written
    <2> QED
      BY <1>1, <2>1, HoldsLetter
  <1>5. Replace(text, <<"\t">>, Space) = text
    <2>1. <<"\t">> \in Seq(Characters) \ {<<>>} /\ Space \in Seq(Characters)
      BY CharactersAssumption, OneLetter DEF Space, Written
    <2> QED
      BY <1>4, <2>1, ReplaceNone
  <1> QED
    BY <1>2, <1>3, <1>5 DEF mutationCell

\* Taking texts apart. What a longer text is split into begins as the shorter one's
\* split does,
LEMMA SplitsBegin ==
  ASSUME NEW V, NEW t \in Seq(V), NEW u \in Seq(V), NEW c
  PROVE  \A i \in 0..Len(t) : Splits(t \o u, c)[i] = Splits(t, c)[i]
  <1> DEFINE T == {i \in 0..Len(t) : Splits(t \o u, c)[i] = Splits(t, c)[i]}
             L == Len(t)
  <1>1. L \in Nat /\ Len(t \o u) \in Nat /\ t \o u \in Seq(V)
    OBVIOUS
  <1>2. \A i \in 1..L : i \in 1..Len(t \o u) /\ (t \o u)[i] = t[i]
    OBVIOUS
  <1>3. 0 \in T
    <2>1. Splits(t \o u, c)[0] = << <<>> >>
      BY <1>1, SplitsFacts
    <2>2. Splits(t, c)[0] = << <<>> >>
      BY SplitsFacts
    <2> QED
      BY <1>1, <2>1, <2>2
  <1>4. ASSUME NEW i \in 0..(L - 1), i \in T
        PROVE  i + 1 \in T
    <2>1. i + 1 \in 1..L /\ i + 1 \in 0..L /\ (i + 1) - 1 = i
      BY <1>1
    <2>2. Splits(t \o u, c)[i + 1] = Spell(Splits(t \o u, c)[i], (t \o u)[i + 1], c)
      <3>1. \A k \in 1..Len(t \o u) : Splits(t \o u, c)[k]
               = Spell(Splits(t \o u, c)[k - 1], (t \o u)[k], c)
        BY <1>1, SplitsFacts
      <3>2. i + 1 \in 1..Len(t \o u)
        BY <1>2, <2>1
      <3> QED
        BY <2>1, <3>1, <3>2
    <2>3. Splits(t, c)[i + 1] = Spell(Splits(t, c)[i], t[i + 1], c)
      <3>1. \A k \in 1..L : Splits(t, c)[k] = Spell(Splits(t, c)[k - 1], t[k], c)
        BY SplitsFacts
      <3> QED
        BY <2>1, <3>1
    <2>4. (t \o u)[i + 1] = t[i + 1] /\ Splits(t \o u, c)[i] = Splits(t, c)[i]
      BY <1>2, <1>4, <2>1
    <2> QED
      BY <2>1, <2>2, <2>3, <2>4
  <1> HIDE DEF T
  <1>5. \A i \in 0..L : i \in T
    BY <1>1, <1>3, <1>4, Induction
  <1> QED
    BY <1>5 DEF T

\* Split gives one piece or more,
LEMMA SplitTyped ==
  ASSUME NEW V, NEW t \in Seq(V), NEW c
  PROVE  Split(t, c) \in Seq(Seq(V)) \ {<<>>}
  <1>1. Len(t) \in 0..Len(t)
    OBVIOUS
  <1> QED
    BY <1>1, SplitsFacts DEF Split

\* one of nothing for no text,
LEMMA SplitEmpty ==
  ASSUME NEW c
  PROVE  Split(<<>>, c) = << <<>> >>
  <1>1. <<>> \in Seq({}) /\ Len(<<>>) = 0
    OBVIOUS
  <1> QED
    BY <1>1, SplitsFacts DEF Split

\* and each letter more is spelled.
Spelled(t, x, c) == Split(t \o <<x>>, c) = Spell(Split(t, c), x, c)

\* and takes a further letter as Spell does.
LEMMA SplitLetter ==
  ASSUME NEW V, NEW t \in Seq(V), NEW x \in V, NEW c
  PROVE  Spelled(t, x, c)
  <1>1. /\ Len(t) \in Nat /\ t \o <<x>> \in Seq(V) /\ Len(t \o <<x>>) = Len(t) + 1
        /\ (t \o <<x>>)[Len(t) + 1] = x /\ <<x>> \in Seq(V)
    OBVIOUS
  <1>2. Splits(t \o <<x>>, c)[Len(t)] = Splits(t, c)[Len(t)]
    <2>1. Len(t) \in 0..Len(t)
      BY <1>1
    <2> QED
      BY <1>1, <2>1, SplitsBegin
  <1>3. Splits(t \o <<x>>, c)[Len(t) + 1] = Spell(Splits(t \o <<x>>, c)[Len(t)], x, c)
    <2>1. \A k \in 1..Len(t \o <<x>>) : Splits(t \o <<x>>, c)[k]
            = Spell(Splits(t \o <<x>>, c)[k - 1], (t \o <<x>>)[k], c)
      BY <1>1, SplitsFacts
    <2>2. Len(t) + 1 \in 1..Len(t \o <<x>>) /\ (Len(t) + 1) - 1 = Len(t)
      BY <1>1
    <2> QED
      BY <1>1, <2>1, <2>2
  <1> QED
    BY <1>1, <1>2, <1>3 DEF Spelled, Split

\* The front and the last of what was appended to,
LEMMA FrontLast ==
  ASSUME NEW V, NEW s \in Seq(V), NEW e \in V
  PROVE  Front(Append(s, e)) = s /\ Last(Append(s, e)) = e
  BY DEF Front, Last

\* and of any sequence that has a last.
LEMMA FrontLastTyped ==
  ASSUME NEW V, NEW s \in Seq(V) \ {<<>>}
  PROVE  /\ Front(s) \in Seq(V) /\ Last(s) \in V
         /\ s = Append(Front(s), Last(s)) /\ Len(Front(s)) = Len(s) - 1
  <1>1. Len(s) - 1 \in 0..(Len(s) - 1) /\ Len(s) \in 1..Len(s) /\ (Len(s) - 1) + 1 = Len(s)
    OBVIOUS
  <1>2. SubSeq(s, 1, Len(s) - 1) \in Seq(V) /\ Len(SubSeq(s, 1, Len(s) - 1)) = Len(s) - 1
    BY <1>1
  <1>3. s[Len(s)] \in V /\ SubSeq(s, 1, Len(s)) = s
    BY <1>1
  <1>4. SubSeq(s, 1, (Len(s) - 1) + 1) = SubSeq(s, 1, Len(s) - 1) \o <<s[(Len(s) - 1) + 1]>>
    BY <1>1, AppendedPart
  <1>5. s = Append(SubSeq(s, 1, Len(s) - 1), s[Len(s)])
    <2>1. PICK f \in Seq(V) : f = SubSeq(s, 1, Len(s) - 1)
      BY <1>2
    <2>2. PICK e \in V : e = s[Len(s)]
      BY <1>3
    <2>3. s = f \o <<e>>
      BY <1>1, <1>3, <1>4, <2>1, <2>2
    <2>4. f \o <<e>> = Append(f, e)
      BY ONLY f \in Seq(V), e \in V
    <2> QED
      BY <2>1, <2>2, <2>3, <2>4
  <1> QED
    BY <1>2, <1>3, <1>5 DEF Front, Last

\* A stretch without the letter goes on with the last piece,
Extended(t, p, c) ==
    Split(t \o p, c) = Append(Front(Split(t, c)), Last(Split(t, c)) \o p)

\* Letters that do not split are added to the last piece.
LEMMA SplitPart ==
  ASSUME NEW V, NEW t \in Seq(V), NEW c, NEW p \in Seq(V \ {c})
  PROVE  Extended(t, p, c)
  <1> DEFINE L == Len(p)
             part(k) == SubSeq(p, 1, k)
             T == {k \in 0..L : Extended(t, part(k), c)}
  <1>0. L \in Nat /\ p \in Seq(V) /\ \A k \in 1..L : p[k] \in V \ {c}
    BY SeqMonotonic
  <1>1. PICK split \in Seq(Seq(V)) \ {<<>>} : split = Split(t, c)
    BY SplitTyped
  <1>2. /\ Front(split) \in Seq(Seq(V)) /\ Last(split) \in Seq(V)
        /\ split = Append(Front(split), Last(split))
    BY FrontLastTyped
  <1>3. 0 \in T
    <2>1. part(0) = <<>>
      BY <1>0
    <2>2. t \o <<>> = t /\ Last(split) \o <<>> = Last(split)
      BY <1>2
    <2>3. Extended(t, <<>>, c)
      BY <1>1, <1>2, <2>2 DEF Extended
    <2>4. 0 \in 0..L
      BY <1>0
    <2> HIDE DEF part, L
    <2> QED
      BY <2>1, <2>3, <2>4
  <1>4. ASSUME NEW k \in 0..(L - 1), k \in T
        PROVE  k + 1 \in T
    <2>1. k + 1 \in 1..L /\ k + 1 \in 0..L
      BY <1>0
    <2>2. PICK x \in V \ {c} : x = p[k + 1]
      BY <1>0, <2>1
    <2>3. PICK u \in Seq(V) : u = part(k)
      <3>1. part(k) \in Seq(V)
        BY <1>0
      <3> QED
        BY <3>1
    <2>4. part(k + 1) = u \o <<x>>
      BY <1>0, <2>2, <2>3, AppendedPart
    <2>5. PICK tu \in Seq(V) : tu = t \o u
      <3>1. t \o u \in Seq(V)
        BY ONLY t \in Seq(V), u \in Seq(V)
      <3> QED
        BY <3>1
    <2>6. t \o (u \o <<x>>) = tu \o <<x>>
      BY <2>5
    <2>7. Split(tu, c) = Append(Front(split), Last(split) \o u)
      BY <1>1, <1>4, <2>3, <2>5 DEF Extended
    <2>8. PICK last \in Seq(V) : last = Last(split) \o u
      <3>1. Last(split) \o u \in Seq(V)
        BY ONLY <1>2, u \in Seq(V)
      <3> QED
        BY <3>1
    <2>9. Front(Split(tu, c)) = Front(split) /\ Last(Split(tu, c)) = last
      <3>1. PICK front \in Seq(Seq(V)) : front = Front(split)
        BY <1>2
      <3>2. Split(tu, c) = Append(front, last)
        BY <2>7, <2>8, <3>1
      <3> QED
        BY <3>1, <3>2, FrontLast
    <2>10. Split(tu \o <<x>>, c) = Append(Front(split), Append(last, x))
      <3>1. Spelled(tu, x, c)
        BY <2>2, SplitLetter
      <3> QED
        BY <2>2, <2>9, <3>1 DEF Spelled, Spell
    <2>11. Append(last, x) = Last(split) \o (u \o <<x>>)
      <3>1. PICK end \in Seq(V) : end = Last(split)
        BY <1>2
      <3>2. Append(end \o u, x) = end \o (u \o <<x>>)
        <4>1. end \o u \in Seq(V) /\ x \in V /\ <<x>> \in Seq(V)
          OBVIOUS
        <4>2. Append(end \o u, x) = (end \o u) \o <<x>>
          BY <4>1, AppendIsConcat
        <4>3. Regroup(end, u, <<x>>)
          BY <4>1, Regrouped
        <4> QED
          BY <4>2, <4>3 DEF Regroup
      <3> QED
        BY <2>8, <3>1, <3>2
    <2>12. Extended(t, u \o <<x>>, c)
      BY <1>1, <2>6, <2>10, <2>11 DEF Extended
    <2> QED
      BY <2>1, <2>4, <2>12
  <1>5. part(L) = p
    BY <1>0
  <1>6. \A k \in 0..L : k \in T
    <2> HIDE DEF T, L
    <2> QED
      BY <1>0, <1>3, <1>4, Induction
  <1>7. L \in T
    <2> HIDE DEF T, L
    <2> QED
      BY <1>0, <1>6
  <1> QED
    BY <1>5, <1>7

\* and the letter begins a new one.
LEMMA SplitAt ==
  ASSUME NEW V, NEW t \in Seq(V), NEW c \in V
  PROVE  Split(t \o <<c>>, c) = Append(Split(t, c), <<>>)
  <1>1. Spelled(t, c, c)
    BY SplitLetter
  <1> QED
    BY <1>1 DEF Spelled, Spell

\* A text without the letter is one piece.
LEMMA SplitNone ==
  ASSUME NEW V, NEW c \in V, NEW p \in Seq(V \ {c})
  PROVE  Split(p, c) = <<p>>
  <1>1. <<>> \in Seq(V) /\ p \in Seq(V)
    BY SeqMonotonic
  <1>2. Extended(<<>>, p, c)
    BY <1>1, SplitPart
  <1>3. <<>> \o p = p /\ Append(<<>>, p) = <<p>>
    BY <1>1
  <1>4. Front(<< <<>> >>) = <<>> /\ Last(<< <<>> >>) = <<>>
    BY DEF Front, Last
  <1> QED
    BY <1>2, <1>3, <1>4, SplitEmpty DEF Extended

\* Putting texts together.
LEMMA JoinedTyped ==
  ASSUME NEW V, NEW parts \in Seq(Seq(V)), NEW with \in Seq(V)
  PROVE  Joined(parts, with) \in Seq(V)
  <1>1. Len(parts) \in 0..Len(parts)
    OBVIOUS
  <1>2. Joins(parts, with) \in [0..Len(parts) -> Seq(V)]
    BY JoinsFacts
  <1> QED
    BY <1>1, <1>2 DEF Joined

\* What is joined with a letter that no part has is split into these parts again.
LEMMA SplitJoined ==
  ASSUME NEW V, NEW c \in V, NEW parts \in Seq(Seq(V \ {c})) \ {<<>>}
  PROVE  Split(Joined(parts, <<c>>), c) = parts
  <1> DEFINE L == Len(parts)
             upto == Joins(parts, <<c>>)
             T == {n \in 0..L : n # 0 => Split(upto[n], c) = SubSeq(parts, 1, n)}
  <1>1. /\ L \in Nat /\ L # 0
        /\ \A n \in 1..L : parts[n] \in Seq(V \ {c}) /\ parts[n] \in Seq(V)
        /\ <<c>> \in Seq(V)
    <2>1. L \in Nat /\ L # 0 /\ \A n \in 1..L : parts[n] \in Seq(V \ {c})
      OBVIOUS
    <2>2. V \ {c} \subseteq V
      OBVIOUS
    <2>3. \A n \in 1..L : parts[n] \in Seq(V)
      BY <2>1, <2>2, SeqMonotonic
    <2> QED
      BY <2>1, <2>3
  <1>2. parts \in Seq(Seq(V))
    <2>1. parts = [n \in 1..L |-> parts[n]]
      OBVIOUS
    <2> QED
      BY <1>1, <2>1, IsASeq
  <1>3. /\ upto \in [0..L -> Seq(V)]
        /\ \A n \in 1..L : upto[n] = IF n = 1 THEN parts[1]
                                              ELSE upto[n - 1] \o (<<c>> \o parts[n])
    BY <1>1, <1>2, JoinsFacts
  <1>4. 0 \in T
    BY <1>1
  <1>5. ASSUME NEW n \in 0..(L - 1), n \in T
        PROVE  n + 1 \in T
    <2>1. n + 1 \in 1..L /\ n + 1 \in 0..L /\ (n + 1) - 1 = n /\ n \in 0..L
      BY <1>1
    <2>2. PICK p \in Seq(V \ {c}) : p = parts[n + 1]
      BY <1>1, <2>1
    <2>3. p \in Seq(V)
      BY <1>1, <2>1, <2>2
    <2>4. CASE n = 0
      <3>1. upto[n + 1] = p /\ SubSeq(parts, 1, n + 1) = <<p>>
        <4>1. n + 1 = 1 /\ 1 \in 1..L
          BY <2>1, <2>4
        <4>2. upto[1] = parts[1]
          BY ONLY <1>3, <4>1
        <4>3. SubSeq(parts, 1, 1) = <<parts[1]>>
          <5>1. /\ SubSeq(parts, 1, 1) \in Seq(Seq(V)) /\ Len(SubSeq(parts, 1, 1)) = 1
                /\ SubSeq(parts, 1, 1)[1] = parts[1]
            BY ONLY <1>2, <4>1
          <5>2. PICK one \in Seq(Seq(V)) : one = SubSeq(parts, 1, 1)
            BY <5>1
          <5>3. Len(one) = 1 /\ one[1] = p /\ p = parts[1]
            BY <2>2, <4>1, <5>1, <5>2
          <5>4. one = <<p>>
            BY ONLY <5>3, one \in Seq(Seq(V))
          <5> QED
            BY <5>2, <5>3, <5>4
        <4> HIDE DEF upto
        <4> QED
          BY <2>2, <4>1, <4>2, <4>3
      <3>2. Split(p, c) = <<p>>
        BY SplitNone
      <3> QED
        BY <2>1, <3>1, <3>2
    <2>5. CASE n # 0
      <3>1. PICK before \in Seq(V) : before = upto[n]
        BY <1>3, <2>1
      <3>2. PICK some \in Seq(Seq(V)) : some = SubSeq(parts, 1, n)
        <4>1. SubSeq(parts, 1, n) \in Seq(Seq(V))
          BY ONLY <1>2, <2>1
        <4> QED
          BY <4>1
      <3>3. Split(before, c) = some
        BY <1>5, <2>5, <3>1, <3>2
      <3>4. upto[n + 1] = before \o (<<c>> \o p)
        <4> HIDE DEF upto
        <4>1. n + 1 \in 1..L /\ n + 1 # 1
          BY ONLY <2>1, <2>5
        <4>2. upto[n + 1] = upto[(n + 1) - 1] \o (<<c>> \o parts[n + 1])
          BY ONLY <1>3, <4>1
        <4> QED
          BY <2>1, <2>2, <3>1, <4>2
      <3>5. PICK t \in Seq(V) : t = before \o <<c>>
        <4>1. before \o <<c>> \in Seq(V)
          BY <1>1
        <4> QED
          BY <4>1
      <3>6. before \o (<<c>> \o p) = t \o p
        <4>1. Regroup(before, <<c>>, p)
          BY <1>1, <2>3, Regrouped
        <4> QED
          BY <3>5, <4>1 DEF Regroup
      <3>7. Split(t, c) = Append(some, <<>>)
        BY <3>3, <3>5, SplitAt
      <3>8. Front(Split(t, c)) = some /\ Last(Split(t, c)) = <<>>
        <4>1. <<>> \in Seq(V)
          OBVIOUS
        <4> QED
          BY <3>7, <4>1, FrontLast
      <3>9. Split(t \o p, c) = Append(some, p)
        <4>1. Extended(t, p, c) /\ <<>> \o p = p
          BY <2>3, SplitPart
        <4> QED
          BY <3>8, <4>1 DEF Extended
      <3>10. Append(some, p) = SubSeq(parts, 1, n + 1)
        <4>1. n \in 0..(Len(parts) - 1)
          OBVIOUS
        <4>2. SubSeq(parts, 1, n + 1) = some \o <<p>>
          BY <1>2, <2>2, <3>2, <4>1, AppendedPart
        <4>3. Append(some, p) = some \o <<p>>
          BY <2>3, AppendIsConcat
        <4> QED
          BY <4>2, <4>3
      <3> QED
        BY <2>1, <3>4, <3>6, <3>9, <3>10
    <2> QED
      BY <2>4, <2>5
  <1>6. L \in T
    <2> HIDE DEF T, L
    <2>1. \A n \in 0..L : n \in T
      BY <1>1, <1>4, <1>5, Induction
    <2> QED
      BY <1>1, <2>1
  <1>7. SubSeq(parts, 1, L) = parts
    BY <1>1
  <1> QED
    BY <1>1, <1>6, <1>7 DEF Joined

\* Where nothing stands between, each part follows the ones before.
BuiltUp(parts, upto, V) ==
    /\ upto \in [0..Len(parts) -> Seq(V)] /\ upto[0] = <<>>
    /\ \A n \in 1..Len(parts) : upto[n] = upto[n - 1] \o parts[n]

\* A strings.Builder appends part after part.
LEMMA BuiltFacts ==
  ASSUME NEW V, NEW parts \in Seq(Seq(V))
  PROVE  BuiltUp(parts, Joins(parts, <<>>), V)
  <1> DEFINE L == Len(parts)
  <1>1. PICK none \in Seq(V) : none = <<>>
    <2>1. <<>> \in Seq(V)
      OBVIOUS
    <2> QED
      BY <2>1
  <1>2. PICK upto : upto = Joins(parts, none)
    OBVIOUS
  <1>3. /\ upto \in [0..L -> Seq(V)] /\ upto[0] = <<>>
        /\ \A n \in 1..L : upto[n] = IF n = 1 THEN parts[1] ELSE upto[n - 1] \o (none \o parts[n])
    BY <1>2, JoinsFacts
  <1>4. \A n \in 1..L : parts[n] \in Seq(V) /\ none \o parts[n] = parts[n]
    BY <1>1
  <1>5. \A n \in 1..L : upto[n] = upto[n - 1] \o parts[n]
    <2> TAKE n \in 1..L
    <2>1. CASE n = 1
      <3>1. upto[n] = parts[n] /\ upto[n - 1] = none
        BY <1>1, <1>3, <2>1
      <3> QED
        BY <1>4, <3>1
    <2>2. CASE n # 1
      BY <1>3, <1>4, <2>2
    <2> QED
      BY <2>1, <2>2
  <1> QED
    BY <1>1, <1>2, <1>3, <1>5 DEF BuiltUp

\* A text of whole lines, each ended by the letter; a line more ends it as well.
Whole(text, lines, c) == Split(text, c) = Append(lines, <<>>)

\* No text has no lines;
LEMMA WholeEmpty ==
  ASSUME NEW c
  PROVE  Whole(<<>>, <<>>, c)
  BY SplitEmpty DEF Whole

\* a line more that is ended is a piece more,
LEMMA WholeLine ==
  ASSUME NEW V, NEW c \in V, NEW t \in Seq(V), NEW lines \in Seq(Seq(V)),
         NEW p \in Seq(V \ {c}), Whole(t, lines, c)
  PROVE  Whole(t \o (p \o <<c>>), Append(lines, p), c)
  <1>1. p \in Seq(V) /\ <<c>> \in Seq(V) /\ <<>> \in Seq(V) /\ <<>> \o p = p
    BY SeqMonotonic
  <1>2. PICK u \in Seq(V) : u = t \o p
    <2>1. t \o p \in Seq(V)
      BY <1>1
    <2> QED
      BY <2>1
  <1>3. t \o (p \o <<c>>) = u \o <<c>>
    <2>1. Regroup(t, p, <<c>>)
      BY <1>1, Regrouped
    <2> QED
      BY <1>2, <2>1 DEF Regroup
  <1>4. Front(Split(t, c)) = lines /\ Last(Split(t, c)) = <<>>
    <2>1. Split(t, c) = Append(lines, <<>>)
      BY DEF Whole
    <2> QED
      BY <1>1, <2>1, FrontLast
  <1>5. Split(u, c) = Append(lines, p)
    <2>1. Extended(t, p, c)
      BY SplitPart
    <2> QED
      BY <1>1, <1>2, <1>4, <2>1 DEF Extended
  <1>6. Split(u \o <<c>>, c) = Append(Split(u, c), <<>>)
    BY SplitAt
  <1> QED
    BY <1>3, <1>5, <1>6 DEF Whole

\* and so are any number of them.
LEMMA WholeBuilt ==
  ASSUME NEW V, NEW c \in V, NEW t \in Seq(V), NEW before \in Seq(Seq(V)),
         NEW lines \in Seq(Seq(V \ {c})), Whole(t, before, c)
  PROVE  Whole(t \o Built([i \in DOMAIN lines |-> lines[i] \o <<c>>]), before \o lines, c)
  <1> DEFINE L == Len(lines)
             ended == [i \in DOMAIN lines |-> lines[i] \o <<c>>]
             upto == Joins(ended, <<>>)
             T == {n \in 0..L : Whole(t \o upto[n], before \o SubSeq(lines, 1, n), c)}
  <1>1. /\ L \in Nat
        /\ \A n \in 1..L : lines[n] \in Seq(V \ {c}) /\ lines[n] \in Seq(V)
        /\ <<c>> \in Seq(V) /\ <<>> \in Seq(V)
    <2>1. L \in Nat /\ \A n \in 1..L : lines[n] \in Seq(V \ {c})
      OBVIOUS
    <2>2. V \ {c} \subseteq V
      OBVIOUS
    <2>3. \A n \in 1..L : lines[n] \in Seq(V)
      BY <2>1, <2>2, SeqMonotonic
    <2> QED
      BY <2>1, <2>3
  <1>2. lines \in Seq(Seq(V))
    <2>1. lines = [n \in 1..L |-> lines[n]]
      OBVIOUS
    <2> QED
      BY <1>1, <2>1, IsASeq
  <1>3. ended \in Seq(Seq(V)) /\ Len(ended) = L /\ \A n \in 1..L : ended[n] = lines[n] \o <<c>>
    <2>1. DOMAIN lines = 1..L
      OBVIOUS
    <2>2. \A n \in 1..L : lines[n] \o <<c>> \in Seq(V)
      BY <1>1
    <2>3. ended = [n \in 1..L |-> lines[n] \o <<c>>]
      BY <2>1
    <2>4. ended \in Seq(Seq(V))
      BY <1>1, <2>2, <2>3, IsASeq
    <2> QED
      BY <1>1, <2>3, <2>4
  <1> HIDE DEF ended
  <1>4. /\ upto \in [0..L -> Seq(V)] /\ upto[0] = <<>>
        /\ \A n \in 1..L : upto[n] = upto[n - 1] \o (lines[n] \o <<c>>)
    <2>1. BuiltUp(ended, Joins(ended, <<>>), V)
      BY <1>3, BuiltFacts
    <2> QED
      BY <1>3, <2>1 DEF BuiltUp
  <1>5. 0 \in T
    <2>1. upto[0] = <<>> /\ SubSeq(lines, 1, 0) = <<>> /\ 0 \in 0..L
      BY <1>1, <1>4
    <2>2. t \o <<>> = t /\ before \o <<>> = before
      OBVIOUS
    <2> QED
      BY <2>1, <2>2
  <1>6. ASSUME NEW n \in 0..(L - 1), n \in T
        PROVE  n + 1 \in T
    <2>1. n + 1 \in 1..L /\ n + 1 \in 0..L /\ (n + 1) - 1 = n /\ n \in 0..L
      BY <1>1
    <2>2. PICK p \in Seq(V \ {c}) : p = lines[n + 1]
      BY <1>1, <2>1
    <2>3. p \in Seq(V)
      BY <1>1, <2>1, <2>2
    <2>4. PICK u \in Seq(V) : u = upto[n]
      BY <1>4, <2>1
    <2>5. PICK some \in Seq(Seq(V)) : some = SubSeq(lines, 1, n)
      <3>1. SubSeq(lines, 1, n) \in Seq(Seq(V))
        BY ONLY <1>2, <2>1
      <3> QED
        BY <3>1
    <2>6. t \o u \in Seq(V) /\ before \o some \in Seq(Seq(V)) /\ p \o <<c>> \in Seq(V) /\ <<p>> \in Seq(Seq(V))
      BY <1>1, <2>3
    <2>7. Whole((t \o u) \o (p \o <<c>>), Append(before \o some, p), c)
      <3>1. Whole(t \o u, before \o some, c)
        BY <1>6, <2>4, <2>5
      <3> QED
        BY ONLY <2>2, <2>6, <3>1, WholeLine, c \in V
    <2>8. (t \o u) \o (p \o <<c>>) = t \o upto[n + 1]
      <3>1. upto[n + 1] = u \o (p \o <<c>>)
        BY <1>4, <2>1, <2>2, <2>4
      <3>2. Regroup(t, u, p \o <<c>>)
        BY <2>6, Regrouped
      <3> QED
        BY <3>1, <3>2 DEF Regroup
    <2>9. Append(before \o some, p) = before \o SubSeq(lines, 1, n + 1)
      <3>1. n \in 0..(Len(lines) - 1)
        OBVIOUS
      <3>2. SubSeq(lines, 1, n + 1) = some \o <<p>>
        BY <1>2, <2>2, <2>5, <3>1, AppendedPart
      <3>3. Append(before \o some, p) = (before \o some) \o <<p>>
        BY <2>3, <2>6, AppendIsConcat
      <3>4. Regroup(before, some, <<p>>)
        BY <2>6, Regrouped
      <3> QED
        BY <3>2, <3>3, <3>4 DEF Regroup
    <2> QED
      BY <2>1, <2>7, <2>8, <2>9
  <1>7. L \in T
    <2> HIDE DEF T, L
    <2>1. \A n \in 0..L : n \in T
      BY <1>1, <1>5, <1>6, Induction
    <2> QED
      BY <1>1, <2>1
  <1>8. SubSeq(lines, 1, L) = lines
    BY <1>1
  <1>9. Built(ended) = upto[L]
    BY <1>3 DEF Built, Joined
  <1> QED
    BY <1>7, <1>8, <1>9 DEF ended

\* A list without some of its values: how many remain,
LEMMA DroppingTyped ==
  ASSUME NEW V, NEW list \in Seq(V), NEW dropped
  PROVE  Dropping(list, dropped) \in Seq(V)
  <1>1. Len(list) \in 0..Len(list)
    OBVIOUS
  <1>2. Filters(list, dropped) \in [0..Len(list) -> Seq(V)]
    BY FiltersFacts
  <1> QED
    BY <1>1, <1>2 DEF Dropping

Remaining(list, dropped, n) == {i \in 1..n : list[i] \notin dropped}

\* The places that are kept, with one place more.
LEMMA RemainingNext ==
  ASSUME NEW list, NEW dropped, NEW n \in Nat
  PROVE  /\ IsFiniteSet(Remaining(list, dropped, n)) /\ n + 1 \notin Remaining(list, dropped, n)
         /\ Remaining(list, dropped, n + 1) =
              IF list[n + 1] \in dropped THEN Remaining(list, dropped, n)
                                         ELSE Remaining(list, dropped, n) \cup {n + 1}
  <1>1. IsFiniteSet(1..n)
    BY FS_Interval
  <1>2. Remaining(list, dropped, n) \subseteq 1..n
    BY DEF Remaining
  <1>3. IsFiniteSet(Remaining(list, dropped, n))
    BY <1>1, <1>2, FS_Subset
  <1>4. \A i : i \in 1..(n + 1) <=> i \in 1..n \/ i = n + 1
    OBVIOUS
  <1>5. n + 1 \notin Remaining(list, dropped, n)
    BY <1>2
  <1>6. CASE list[n + 1] \in dropped
    BY <1>3, <1>4, <1>5, <1>6 DEF Remaining
  <1>7. CASE list[n + 1] \notin dropped
    BY <1>3, <1>4, <1>5, <1>7 DEF Remaining
  <1> QED
    BY <1>6, <1>7

\* As many values are kept as are not to be dropped.
LEMMA DroppingCount ==
  ASSUME NEW V, NEW list \in Seq(V), NEW dropped
  PROVE  Len(Dropping(list, dropped)) = Cardinality({i \in DOMAIN list : list[i] \notin dropped})
  <1> DEFINE L == Len(list)
             kept == Filters(list, dropped)
             left(n) == Remaining(list, dropped, n)
             T == {n \in 0..L : Len(kept[n]) = Cardinality(left(n))}
  <1>1. /\ L \in Nat /\ kept \in [0..L -> Seq(V)] /\ kept[0] = <<>>
        /\ \A n \in 1..L : list[n] \in V
        /\ \A n \in 1..L : kept[n] = IF list[n] \in dropped THEN kept[n - 1]
                                                           ELSE Append(kept[n - 1], list[n])
    BY FiltersFacts
  <1> HIDE DEF kept
  <1>2. 0 \in T
    <2>1. left(0) = {}
      BY DEF Remaining
    <2>2. Len(kept[0]) = 0 /\ 0 \in 0..L
      BY <1>1
    <2> HIDE DEF left
    <2> QED
      BY <2>1, <2>2, FS_EmptySet
  <1>3. ASSUME NEW n \in 0..(L - 1), n \in T
        PROVE  n + 1 \in T
    <2>1. n + 1 \in 1..L /\ n + 1 \in 0..L /\ (n + 1) - 1 = n /\ n \in 0..L /\ n \in Nat
      BY <1>1
    <2>2. Len(kept[n]) = Cardinality(left(n)) /\ kept[n] \in Seq(V) /\ list[n + 1] \in V
      BY <1>1, <1>3, <2>1
    <2>3. kept[n + 1] = IF list[n + 1] \in dropped THEN kept[n] ELSE Append(kept[n], list[n + 1])
      BY <1>1, <2>1
    <2>4. /\ IsFiniteSet(left(n)) /\ n + 1 \notin left(n)
          /\ left(n + 1) = IF list[n + 1] \in dropped THEN left(n) ELSE left(n) \cup {n + 1}
      BY <2>1, RemainingNext
    <2>5. Cardinality(left(n) \cup {n + 1}) = Cardinality(left(n)) + 1
      BY <2>4, FS_AddElement
    <2> HIDE DEF left
    <2>6. CASE list[n + 1] \in dropped
      BY <2>1, <2>2, <2>3, <2>4, <2>6
    <2>7. CASE list[n + 1] \notin dropped
      <3>1. Len(kept[n + 1]) = Len(kept[n]) + 1
        BY <2>2, <2>3, <2>7
      <3>2. Len(kept[n + 1]) = Cardinality(left(n + 1))
        BY <2>2, <2>4, <2>5, <2>7, <3>1
      <3> QED
        BY <2>1, <3>2
    <2> QED
      BY <2>6, <2>7
  <1>4. L \in T
    <2> HIDE DEF T, L
    <2>1. \A n \in 0..L : n \in T
      BY <1>1, <1>2, <1>3, Induction
    <2> QED
      BY <1>1, <2>1
  <1>5. left(L) = {i \in DOMAIN list : list[i] \notin dropped}
    BY DEF Remaining
  <1> QED
    BY <1>4, <1>5 DEF Dropping, kept

\* which they are, in which order.
LEMMA DroppingKeeps ==
  ASSUME NEW V, NEW list \in Seq(V), NEW dropped
  PROVE  /\ ToSet(Dropping(list, dropped)) = ToSet(list) \ dropped
         /\ \A a, b \in DOMAIN Dropping(list, dropped) : a < b =>
              \E i, k \in DOMAIN list : /\ i < k
                                        /\ list[i] = Dropping(list, dropped)[a]
                                        /\ list[k] = Dropping(list, dropped)[b]
  <1> DEFINE L == Len(list)
             kept == Filters(list, dropped)
             Same(n) == \A x : x \in ToSet(kept[n]) <=> \E i \in 1..n : list[i] = x /\ x \notin dropped
             Order(n) == \A a, b \in DOMAIN kept[n] : a < b =>
                           \E i, k \in 1..n : i < k /\ list[i] = kept[n][a] /\ list[k] = kept[n][b]
             T == {n \in 0..L : Same(n) /\ Order(n)}
  <1>1. /\ L \in Nat /\ kept \in [0..L -> Seq(V)] /\ kept[0] = <<>>
        /\ \A n \in 1..L : list[n] \in V
        /\ \A n \in 1..L : kept[n] = IF list[n] \in dropped THEN kept[n - 1]
                                                           ELSE Append(kept[n - 1], list[n])
    BY FiltersFacts
  <1> HIDE DEF kept
  <1>2. 0 \in T
    <2>1. DOMAIN kept[0] = {} /\ ToSet(kept[0]) = {} /\ 1..0 = {} /\ 0 \in 0..L
      BY <1>1 DEF ToSet
    <2> HIDE DEF L
    <2> QED
      BY <2>1
  <1>3. ASSUME NEW n \in 0..(L - 1), n \in T
        PROVE  n + 1 \in T
    <2>1. n + 1 \in 1..L /\ n + 1 \in 0..L /\ (n + 1) - 1 = n /\ n \in 0..L /\ n \in Nat
      BY <1>1
    <2>2. kept[n + 1] = IF list[n + 1] \in dropped THEN kept[n] ELSE Append(kept[n], list[n + 1])
      BY <1>1, <2>1
    <2>3. PICK s \in Seq(V) : s = kept[n]
      BY <1>1, <2>1
    <2>4. PICK e \in V : e = list[n + 1]
      BY <1>1, <2>1
    <2>5. /\ \A x : x \in ToSet(s) <=> \E i \in 1..n : list[i] = x /\ x \notin dropped
          /\ \A a, b \in DOMAIN s : a < b => \E i, k \in 1..n : i < k /\ list[i] = s[a] /\ list[k] = s[b]
      BY <1>3, <2>3
    <2>6. \A i : i \in 1..(n + 1) <=> i \in 1..n \/ i = n + 1
      BY <2>1
    <2>7. CASE e \in dropped
      <3>1. kept[n + 1] = s
        BY <2>2, <2>3, <2>4, <2>7
      <3>2. Same(n + 1)
        BY <2>4, <2>5, <2>6, <2>7, <3>1
      <3>3. Order(n + 1)
        BY <2>5, <2>6, <3>1
      <3> QED
        BY <2>1, <3>2, <3>3
    <2>8. CASE e \notin dropped
      <3>1. kept[n + 1] = Append(s, e)
        BY <2>2, <2>3, <2>4, <2>8
      <3>2. /\ DOMAIN Append(s, e) = DOMAIN s \cup {Len(s) + 1} /\ DOMAIN s = 1..Len(s)
            /\ Append(s, e)[Len(s) + 1] = e /\ \A a \in DOMAIN s : Append(s, e)[a] = s[a]
        OBVIOUS
      <3>3. \A x : x \in ToSet(Append(s, e)) <=> x \in ToSet(s) \/ x = e
        BY <3>2 DEF ToSet
      <3>4. Same(n + 1)
        BY <2>4, <2>5, <2>6, <2>8, <3>1, <3>3
      <3>5. ASSUME NEW a \in DOMAIN Append(s, e), NEW b \in DOMAIN Append(s, e), a < b
            PROVE  \E i, k \in 1..(n + 1) : i < k /\ list[i] = Append(s, e)[a] /\ list[k] = Append(s, e)[b]
        <4>1. a \in DOMAIN s
          BY <3>2, <3>5
        <4>2. CASE b \in DOMAIN s
          BY <2>5, <2>6, <3>2, <3>5, <4>1, <4>2
        <4>3. CASE b = Len(s) + 1
          <5>1. s[a] \in ToSet(s)
            BY <4>1 DEF ToSet
          <5>2. PICK i \in 1..n : list[i] = s[a]
            BY <2>5, <5>1
          <5>3. i < n + 1 /\ i \in 1..(n + 1) /\ n + 1 \in 1..(n + 1)
            BY <2>1
          <5> QED
            BY <2>4, <3>2, <4>1, <4>3, <5>2, <5>3
        <4> QED
          BY <3>2, <4>2, <4>3
      <3>6. Order(n + 1)
        BY <3>1, <3>5
      <3> QED
        BY <2>1, <3>4, <3>6
    <2> QED
      BY <2>7, <2>8
  <1>4. L \in T
    <2> HIDE DEF T, L
    <2>1. \A n \in 0..L : n \in T
      BY <1>1, <1>2, <1>3, Induction
    <2> QED
      BY <1>1, <2>1
  <1>5. Dropping(list, dropped) = kept[L] /\ DOMAIN list = 1..L
    BY DEF Dropping, kept
  <1>6. ToSet(kept[L]) = ToSet(list) \ dropped
    <2>1. \A x : x \in ToSet(list) <=> \E i \in 1..L : list[i] = x
      BY <1>5 DEF ToSet
    <2> QED
      BY <1>4, <2>1
  <1> QED
    BY <1>4, <1>5, <1>6

\* What the jobs print. Texts without a carriage return, and without a line break
\* either:
OneLine == Characters \ {"\r"}
Plain == OneLine \ {"\n"}

\* What the code writes itself is of such texts.
LEMMA PlainTexts ==
  /\ "\n" \in OneLine /\ Newline = <<"\n">>
  /\ Separator \in Seq(Plain) /\ Space \in Seq(Plain) /\ <<",">> \in Seq(Plain)
  /\ <<"\t">> \in Seq(Plain) /\ <<"H">> \in Seq(Plain) /\ <<"verb">> \in Seq(Plain)
  /\ <<"WxH">> \in Seq(Plain)
  /\ \A text \in Seq(Plain) : text \in Seq(Characters)
  /\ \A text \in Seq(OneLine) : text \in Seq(Characters) /\ "\r" \notin ToSet(text)
  <1>1. /\ "\n" \in OneLine /\ " " \in Plain /\ "|" \in Plain /\ "," \in Plain /\ "\t" \in Plain
        /\ "H" \in Plain /\ "verb" \in Plain /\ "WxH" \in Plain
    BY CharactersAssumption DEF Written, OneLine, Plain
  <1>2. Plain \subseteq Characters /\ OneLine \subseteq Characters /\ "\r" \notin OneLine
    BY DEF OneLine, Plain
  <1>3. Separator \in Seq(Plain)
    BY <1>1, ThreeLetters DEF Separator
  <1>4. /\ Space \in Seq(Plain) /\ <<",">> \in Seq(Plain) /\ <<"\t">> \in Seq(Plain)
        /\ <<"H">> \in Seq(Plain) /\ <<"verb">> \in Seq(Plain) /\ <<"WxH">> \in Seq(Plain)
    BY <1>1, OneLetter DEF Space
  <1>5. \A text \in Seq(Plain) : text \in Seq(Characters)
    BY <1>2, SeqMonotonic
  <1>6. \A text \in Seq(OneLine) : text \in Seq(Characters) /\ "\r" \notin ToSet(text)
    <2> TAKE text \in Seq(OneLine)
    <2>1. text \in Seq(Characters)
      BY <1>2, SeqMonotonic
    <2>2. \A i \in DOMAIN text : text[i] \in OneLine
      OBVIOUS
    <2> QED
      BY <1>2, <2>1, <2>2 DEF ToSet
  <1>7. Newline = <<"\n">>
    BY DEF Newline
  <1> QED
    BY <1>1, <1>3, <1>4, <1>5, <1>6, <1>7

\* A cell is plain, whatever it is of.
LEMMA CellPlain ==
  ASSUME NEW text \in Seq(Characters)
  PROVE  /\ cell(text) \in Seq(Plain) /\ ~IsBlank(cell(text))
         /\ sanitize(text) \in Seq(Plain) /\ mutationCell(text) \in Seq(Plain \ {"\t"})
  <1>1. {" ", "|", "-", "\r", "\n"} \subseteq Characters /\ {" ", "|", "\r", "\n"} \subseteq Characters
    BY CharactersAssumption DEF Written
  <1>2. cell(text) \in Seq(Plain) /\ ~IsBlank(cell(text))
    BY <1>1, CellTyped DEF Plain, OneLine
  <1>3. sanitize(text) \in Seq(Plain)
    BY <1>1, SanitizeTyped DEF Plain, OneLine
  <1>4. mutationCell(text) \in Seq(Plain \ {"\t"})
    BY MutationCellTyped DEF Plain, OneLine
  <1> QED
    BY <1>2, <1>3, <1>4

\* A function over the places of a list is a list of as many.
LEMMA ListOf ==
  ASSUME NEW V, NEW W, NEW list \in Seq(W), NEW f, f = [i \in DOMAIN list |-> f[i]],
         \A i \in DOMAIN list : f[i] \in V
  PROVE  f \in Seq(V) /\ Len(f) = Len(list) /\ DOMAIN f = DOMAIN list
  <1>1. DOMAIN list = 1..Len(list) /\ Len(list) \in Nat
    OBVIOUS
  <1>2. f = [i \in 1..Len(list) |-> f[i]]
    BY <1>1
  <1>3. f \in Seq(V)
    BY <1>1, <1>2, IsASeq
  <1>4. DOMAIN f = 1..Len(list)
    BY <1>2
  <1> QED
    BY <1>1, <1>3, <1>4

\* The values of a job are sequences.
LEMMA BoundedSeqIn ==
  ASSUME NEW V, NEW n \in Nat, NEW s \in BoundedSeq(V, n)
  PROVE  s \in Seq(V)
  BY DEF BoundedSeq, SeqOf

\* A text of whole lines: the lines, and no carriage return in it.
Sheet(text, lines) ==
    text \in Seq(OneLine) /\ lines \in Seq(Seq(Plain)) /\ Whole(text, lines, "\n")

\* One line;
LEMMA SheetLine ==
  ASSUME NEW line \in Seq(Plain)
  PROVE  Sheet(line \o Newline, <<line>>)
  <1>1. /\ "\n" \in OneLine /\ Plain = OneLine \ {"\n"} /\ <<>> \in Seq(OneLine)
        /\ <<>> \in Seq(Seq(OneLine))
    <2>1. "\n" \in OneLine /\ Plain = OneLine \ {"\n"}
      BY PlainTexts DEF Plain
    <2> QED
      BY <2>1
  <1>2. Whole(<<>>, <<>>, "\n")
    BY WholeEmpty
  <1>3. Whole(<<>> \o (line \o <<"\n">>), Append(<<>>, line), "\n")
    BY <1>1, <1>2, WholeLine
  <1>4. line \in Seq(OneLine) /\ <<"\n">> \in Seq(OneLine)
    <2>1. Plain \subseteq OneLine
      BY <1>1
    <2> QED
      BY <1>1, <2>1, SeqMonotonic, OneLetter
  <1>5. PICK text \in Seq(OneLine) : text = line \o <<"\n">>
    <2>1. line \o <<"\n">> \in Seq(OneLine)
      BY <1>4
    <2> QED
      BY <2>1
  <1>6. <<>> \o text = text /\ Append(<<>>, line) = <<line>> /\ <<line>> \in Seq(Seq(Plain))
    OBVIOUS
  <1> QED
    BY <1>3, <1>5, <1>6, PlainTexts DEF Sheet

\* lines that are ended have no carriage return;
LEMMA EndedTyped ==
  ASSUME NEW lines \in Seq(Seq(Plain))
  PROVE  Built([i \in DOMAIN lines |-> lines[i] \o Newline]) \in Seq(OneLine)
  <1> DEFINE ended == [i \in DOMAIN lines |-> lines[i] \o Newline]
  <1>1. "\n" \in OneLine /\ Plain \subseteq OneLine /\ Newline = <<"\n">>
    BY PlainTexts DEF Plain
  <1>2. \A i \in DOMAIN lines : lines[i] \in Seq(OneLine)
    <2>1. \A i \in DOMAIN lines : lines[i] \in Seq(Plain)
      OBVIOUS
    <2> QED
      BY <1>1, <2>1, SeqMonotonic
  <1>3. Newline \in Seq(OneLine)
    BY <1>1, OneLetter
  <1>4. \A i \in DOMAIN lines : ended[i] \in Seq(OneLine)
    BY <1>2, <1>3
  <1>5. ended = [i \in DOMAIN lines |-> ended[i]]
    OBVIOUS
  <1> HIDE DEF ended
  <1>6. ended \in Seq(Seq(OneLine))
    BY <1>4, <1>5, ListOf
  <1>7. <<>> \in Seq(OneLine)
    OBVIOUS
  <1>8. Built(ended) \in Seq(OneLine)
    BY <1>6, <1>7, JoinedTyped DEF Built
  <1> QED
    BY <1>8 DEF ended

\* and lines below others.
LEMMA SheetBuilt ==
  ASSUME NEW t, NEW before, NEW lines \in Seq(Seq(Plain)),
         Sheet(t, before)
  PROVE  Sheet(t \o Built([i \in DOMAIN lines |-> lines[i] \o Newline]), before \o lines)
  <1> DEFINE ended == [i \in DOMAIN lines |-> lines[i] \o Newline]
  <1>1. "\n" \in OneLine /\ Plain = OneLine \ {"\n"} /\ Newline = <<"\n">>
    BY PlainTexts DEF Plain
  <1>2. t \in Seq(OneLine) /\ before \in Seq(Seq(Plain)) /\ Whole(t, before, "\n")
    BY DEF Sheet
  <1>3. Plain \subseteq OneLine
    BY <1>1
  <1>4. \A s \in Seq(Plain) : s \in Seq(OneLine)
    BY <1>3, SeqMonotonic
  <1>5. before \in Seq(Seq(OneLine))
    <2>1. Seq(Plain) \subseteq Seq(OneLine)
      BY <1>4
    <2> QED
      BY <1>2, <2>1, SeqMonotonic
  <1>6. lines \in Seq(Seq(OneLine \ {"\n"}))
    BY <1>1
  <1>7. Whole(t \o Built([i \in DOMAIN lines |-> lines[i] \o <<"\n">>]), before \o lines, "\n")
    BY ONLY <1>1, <1>2, <1>5, <1>6, WholeBuilt
  <1>8. Built(ended) \in Seq(OneLine)
    BY EndedTyped
  <1>9. t \o Built(ended) \in Seq(OneLine)
    <2> HIDE DEF ended
    <2> QED
      BY <1>2, <1>8
  <1>10. before \o lines \in Seq(Seq(Plain))
    BY <1>2
  <1> QED
    BY <1>1, <1>7, <1>9, <1>10 DEF Sheet

\* Before the first line there is none.
LEMMA SheetEmpty == Sheet(<<>>, <<>>)
  BY WholeEmpty DEF Sheet

\* A row is one line,
LEMMA RowPlain ==
  ASSUME NEW row \in Seq(Seq(Characters))
  PROVE  Joined([f \in DOMAIN row |-> cell(row[f])], Separator) \in Seq(Plain)
  <1>1. PICK cells : cells = [f \in DOMAIN row |-> cell(row[f])]
    OBVIOUS
  <1>2. \A f \in DOMAIN row : row[f] \in Seq(Characters)
    OBVIOUS
  <1>3. cells = [f \in DOMAIN row |-> cells[f]] /\ \A f \in DOMAIN row : cells[f] \in Seq(Plain)
    BY <1>1, <1>2, CellPlain
  <1>4. cells \in Seq(Seq(Plain))
    BY <1>3, ListOf
  <1> QED
    BY <1>1, <1>4, PlainTexts, JoinedTyped

\* so that a table of two rows has three,
LEMMA TableLines ==
  ASSUME NEW values \in Seq(Seq(Characters))
  PROVE  \E lines : /\ Sheet(renderTable([i \in DOMAIN values |-> <<"H">>], <<values, values>>), lines)
                    /\ Len(lines) = 3
  <1>1. PICK row \in Seq(Plain) : row = Joined([f \in DOMAIN values |-> cell(values[f])], Separator)
    BY RowPlain
  <1>2. PICK head \in Seq(Plain) : head = Joined([i \in DOMAIN values |-> <<"H">>], Separator)
    <2>1. PICK cells : cells = [i \in DOMAIN values |-> <<"H">>]
      OBVIOUS
    <2>2. cells = [f \in DOMAIN values |-> cells[f]] /\ \A f \in DOMAIN values : cells[f] \in Seq(Plain)
      BY <2>1, PlainTexts
    <2>3. cells \in Seq(Seq(Plain))
      BY <2>2, ListOf
    <2>4. Joined(cells, Separator) \in Seq(Plain)
      BY <2>3, PlainTexts, JoinedTyped
    <2> QED
      BY <2>1, <2>4
  <1>3. <<row, row>> \in Seq(Seq(Plain)) /\ Len(<<row, row>>) = 2 /\ <<head>> \in Seq(Seq(Plain)) /\ Len(<<head>>) = 1
    OBVIOUS
  <1>4. Sheet(head \o Newline, <<head>>)
    BY SheetLine
  <1>5. PICK two \in Seq(Seq(Plain)) : two = <<row, row>>
    BY <1>3
  <1>6. Sheet((head \o Newline) \o Built([i \in DOMAIN two |-> two[i] \o Newline]), <<head>> \o two)
    BY <1>4, SheetBuilt
  <1>7. renderTable([i \in DOMAIN values |-> <<"H">>], <<values, values>>)
          = (head \o Newline) \o Built([i \in DOMAIN two |-> two[i] \o Newline])
    <2>1. DOMAIN two = DOMAIN <<values, values>> /\ \A i \in DOMAIN two : two[i] = row /\ <<values, values>>[i] = values
      BY <1>5
    <2>2. [i \in DOMAIN two |-> two[i] \o Newline]
            = [i \in DOMAIN <<values, values>> |->
                 Line([f \in DOMAIN <<values, values>>[i] |-> cell(<<values, values>>[i][f])], Separator)]
      BY <1>1, <2>1 DEF Line
    <2>3. Line([i \in DOMAIN values |-> <<"H">>], Separator) = head \o Newline
      BY <1>2 DEF Line
    <2> QED
      BY <2>2, <2>3 DEF renderTable
  <1>8. Len(<<head>> \o two) = 3
    BY <1>3, <1>5
  <1> QED
    BY <1>6, <1>7, <1>8

\* and a list of ids has a line for each, none of them blank.
LEMMA IDLines ==
  ASSUME NEW ids \in Seq(Seq(Characters))
  PROVE  \E lines : /\ Sheet(renderIDs(ids), lines) /\ Len(lines) = Len(ids)
                    /\ \A i \in DOMAIN lines : ~IsBlank(lines[i])
  <1>1. PICK lines : lines = [i \in DOMAIN ids |-> cell(ids[i])]
    OBVIOUS
  <1>2. \A i \in DOMAIN ids : ids[i] \in Seq(Characters)
    OBVIOUS
  <1>3. /\ lines = [i \in DOMAIN ids |-> lines[i]]
        /\ \A i \in DOMAIN ids : lines[i] \in Seq(Plain) /\ ~IsBlank(lines[i])
    BY <1>1, <1>2, CellPlain
  <1>4. lines \in Seq(Seq(Plain)) /\ Len(lines) = Len(ids) /\ DOMAIN lines = DOMAIN ids
    BY <1>3, ListOf
  <1>5. Sheet(<<>> \o Built([i \in DOMAIN lines |-> lines[i] \o Newline]), <<>> \o lines)
    BY <1>4, SheetEmpty, SheetBuilt
  <1>6. <<>> \o lines = lines
    BY <1>4
  <1>7. [i \in DOMAIN lines |-> lines[i] \o Newline] = [i \in DOMAIN ids |-> cell(ids[i]) \o Newline]
    BY <1>1, <1>4
  <1>8. PICK built : built = Built([i \in DOMAIN lines |-> lines[i] \o Newline])
    OBVIOUS
  <1>9. <<>> \o built = built
    <2>1. built \in Seq(OneLine)
      BY <1>4, <1>8, EndedTyped
    <2> QED
      BY <2>1
  <1>10. Sheet(renderIDs(ids), lines)
    BY <1>5, <1>6, <1>7, <1>8, <1>9 DEF renderIDs
  <1> QED
    BY <1>3, <1>4, <1>10

\* A record is one line, of fields without a tab;
LEMMA RecordLine ==
  ASSUME NEW values \in Seq(Seq(Characters))
  PROVE  \E fields \in Seq(Seq(Plain \ {"\t"})) \ {<<>>} :
           /\ RenderRecord(<<"verb">>, values) = Joined(fields, <<"\t">>) \o Newline
           /\ Joined(fields, <<"\t">>) \in Seq(Plain)
           /\ Len(fields) = Len(values) + 1
           /\ \A i \in DOMAIN values : fields[i + 1] = mutationCell(values[i])
  <1>1. PICK cells : cells = [i \in DOMAIN values |-> mutationCell(values[i])]
    OBVIOUS
  <1>2. \A i \in DOMAIN values : values[i] \in Seq(Characters)
    OBVIOUS
  <1>3. /\ cells = [i \in DOMAIN values |-> cells[i]]
        /\ \A i \in DOMAIN values : cells[i] \in Seq(Plain \ {"\t"})
    BY <1>1, <1>2, CellPlain
  <1>4. /\ cells \in Seq(Seq(Plain \ {"\t"})) /\ Len(cells) = Len(values) /\ DOMAIN cells = DOMAIN values
    BY <1>3, ListOf
  <1>5. <<"verb">> \in Seq(Plain \ {"\t"})
    <2>1. "verb" \in Plain \ {"\t"}
      BY CharactersAssumption DEF Written, Plain, OneLine
    <2> QED
      BY <2>1, OneLetter
  <1>6. PICK word \in Seq(Plain \ {"\t"}) : word = <<"verb">>
    BY <1>5
  <1>7. PICK fields : fields = <<word>> \o cells
    OBVIOUS
  <1>8. /\ fields \in Seq(Seq(Plain \ {"\t"})) \ {<<>>} /\ Len(fields) = Len(cells) + 1
        /\ \A i \in DOMAIN cells : fields[i + 1] = cells[i]
    BY <1>4, <1>7
  <1>9. Joined(fields, <<"\t">>) \in Seq(Plain)
    <2>1. Plain \ {"\t"} \subseteq Plain
      OBVIOUS
    <2>2. Seq(Plain \ {"\t"}) \subseteq Seq(Plain)
      BY <2>1, SeqMonotonic
    <2>3. fields \in Seq(Seq(Plain))
      BY <1>8, <2>2, SeqMonotonic
    <2> QED
      BY <2>3, PlainTexts, JoinedTyped
  <1>10. RenderRecord(<<"verb">>, values) = Joined(fields, <<"\t">>) \o Newline
    BY <1>1, <1>6, <1>7 DEF RenderRecord, Line
  <1> QED
    BY <1>1, <1>4, <1>8, <1>9, <1>10

\* a cell put together from several values is a part of a line.
LEMMA PlainLine ==
  ASSUME NEW text \in Seq(Plain)
  PROVE  "\r" \notin ToSet(text) /\ Split(text, "\n") = <<text>>
  <1>1. "\n" \in OneLine /\ Plain = OneLine \ {"\n"} /\ Plain \subseteq OneLine
    BY PlainTexts DEF Plain
  <1>2. Split(text, "\n") = <<text>>
    BY <1>1, SplitNone
  <1>3. text \in Seq(OneLine)
    BY <1>1, SeqMonotonic
  <1> QED
    BY <1>2, <1>3, PlainTexts

\* The names of artists are a text,
LEMMA CreditsTyped ==
  ASSUME NEW values \in Seq(Seq(Characters))
  PROVE  joinArtists(values) \in Seq(Characters)
  <1>1. PICK cells : cells = [i \in DOMAIN values |-> sanitize(values[i])]
    OBVIOUS
  <1>2. \A i \in DOMAIN values : values[i] \in Seq(Characters)
    OBVIOUS
  <1>3. /\ cells = [i \in DOMAIN values |-> cells[i]]
        /\ \A i \in DOMAIN values : cells[i] \in Seq(Characters)
    BY <1>1, <1>2, CellPlain, PlainTexts
  <1>4. cells \in Seq(Seq(Characters))
    BY <1>3, ListOf
  <1>5. <<",">> \in Seq(Characters)
    BY PlainTexts
  <1> QED
    BY <1>1, <1>4, <1>5, JoinedTyped DEF joinArtists

\* and those of pictures one without a line break.
LEMMA ArtworkPlain ==
  ASSUME NEW urls \in Seq(Seq(Characters))
  PROVE  renderArtwork(urls) \in Seq(Plain)
  <1>1. PICK present \in Seq(Seq(Characters)) :
          present = Dropping(urls, {url \in ToSet(urls) : IsBlank(url)})
    BY DroppingTyped
  <1>2. PICK cells : cells = [i \in DOMAIN present |-> <<"WxH">> \o Space \o sanitize(present[i])]
    OBVIOUS
  <1>3. \A i \in DOMAIN present : sanitize(present[i]) \in Seq(Characters)
    <2>1. \A i \in DOMAIN present : present[i] \in Seq(Characters)
      OBVIOUS
    <2> QED
      BY <2>1, CellPlain, PlainTexts
  <1>4. <<"WxH">> \in Seq(Characters) /\ Space \in Seq(Characters) /\ <<",">> \in Seq(Characters)
    BY PlainTexts
  <1>5. \A i \in DOMAIN present : <<"WxH">> \o Space \o sanitize(present[i]) \in Seq(Characters)
    <2>1. \A s, t, u \in Seq(Characters) : s \o t \o u \in Seq(Characters)
      OBVIOUS
    <2> QED
      BY <1>3, <1>4, <2>1
  <1>6. cells = [i \in DOMAIN present |-> cells[i]] /\ \A i \in DOMAIN present : cells[i] \in Seq(Characters)
    BY <1>2, <1>5
  <1>7. cells \in Seq(Seq(Characters))
    BY <1>6, ListOf
  <1>8. Joined(cells, <<",">>) \in Seq(Characters)
    BY <1>4, <1>7, JoinedTyped
  <1> QED
    BY <1>1, <1>2, <1>8, CellPlain DEF renderArtwork

\* The jobs, and what has been printed of the one picked.
JobOK(j) ==
    \/ \E family \in Families : j \in ColumnJobs(family)
    \/ j \in TextJobs
    \/ j \in DurationJobs

RenderInv == JobOK(job) /\ rendered \in BOOLEAN /\ (rendered => printed = Rendered(job))

\* What is printed is what the job renders to.
LEMMA RenderInvariant == RenderSpec => []RenderInv
  <1>1. RenderInit => RenderInv
    BY DEF RenderInit, RenderInv, JobOK
  <1>2. RenderInv /\ [RenderNext]_renderVars => RenderInv'
    <2> SUFFICES ASSUME RenderInv, [RenderNext]_renderVars
                 PROVE  RenderInv'
      OBVIOUS
    <2>1. CASE Render
      <3>1. job' = job /\ rendered' = TRUE /\ printed' = Rendered(job')
        BY <2>1 DEF Render
      <3> QED
        BY <3>1 DEF RenderInv
    <2>2. CASE UNCHANGED renderVars
      BY <2>2 DEF RenderInv, renderVars
    <2> QED
      BY <2>1, <2>2 DEF RenderNext
  <1> QED
    BY <1>1, <1>2, PTL DEF RenderSpec

TextKinds == {"table", "ids", "item ids", "credits", "artwork", "record"}

\* A job that prints a text has values that are texts.
LEMMA TextJobTyped ==
  ASSUME JobOK(job), job.kind \in TextKinds
  PROVE  job.values \in Seq(Seq(Characters))
  <1>1. job \in TextJobs
    <2>1. \A family : job \in ColumnJobs(family) => job.kind = "columns"
      BY DEF ColumnJobs
    <2>2. job \in DurationJobs => job.kind = "duration"
      BY DEF DurationJobs
    <2> QED
      BY <2>1, <2>2 DEF JobOK, TextKinds
  <1>2. \A s \in Some : s \in Seq(Seq(Characters))
    <2> TAKE s \in Some
    <2>1. s \in Seq(ShortTexts)
      BY BoundsAssumption, BoundedSeqIn DEF Some
    <2> QED
      BY <2>1, TextsAssumption, SeqMonotonic
  <1>3. \A text \in Texts : <<text>> \in Seq(Seq(Characters))
    BY TextsAssumption
  <1>4. job.values \in {<<text>> : text \in Texts} \cup Some
    BY <1>1 DEF TextJobs
  <1> QED
    BY <1>2, <1>3, <1>4

\* What each of them renders to.
LEMMA RenderedText ==
  /\ job.kind = "table" => Rendered(job) = renderTable([i \in DOMAIN job.values |-> <<"H">>],
                                                        <<job.values, job.values>>)
  /\ job.kind = "ids" => Rendered(job) = renderIDs(job.values)
  /\ job.kind = "item ids" => Rendered(job) = RenderPlaylistItemIDs(job.values)
  /\ job.kind = "credits" => Rendered(job) = cell(joinArtists(job.values))
  /\ job.kind = "artwork" => Rendered(job) = renderArtwork(job.values)
  /\ job.kind = "record" => Rendered(job) = RenderRecord(<<"verb">>, job.values)
  <1>1. job.kind = "table" => Rendered(job) = renderTable([i \in DOMAIN job.values |-> <<"H">>],
                                                           <<job.values, job.values>>)
    BY DEF Rendered
  <1>2. job.kind = "ids" => Rendered(job) = renderIDs(job.values)
    BY DEF Rendered
  <1>3. job.kind = "item ids" => Rendered(job) = RenderPlaylistItemIDs(job.values)
    BY DEF Rendered
  <1>4. job.kind = "credits" => Rendered(job) = cell(joinArtists(job.values))
    BY DEF Rendered
  <1>5. job.kind = "artwork" => Rendered(job) = renderArtwork(job.values)
    BY DEF Rendered
  <1>6. job.kind = "record" => Rendered(job) = RenderRecord(<<"verb">>, job.values)
    BY DEF Rendered
  <1> QED
    BY <1>1, <1>2, <1>3, <1>4, <1>5, <1>6

\* What whole lines mean for the property.
LEMMA SheetLines ==
  ASSUME NEW lines, Sheet(printed, lines)
  PROVE  /\ "\r" \notin ToSet(printed)
         /\ Last(Split(printed, "\n")) = <<>> /\ Lines = lines
  <1>1. printed \in Seq(OneLine) /\ lines \in Seq(Seq(Plain)) /\ Split(printed, "\n") = Append(lines, <<>>)
    BY DEF Sheet, Whole
  <1>2. <<>> \in Seq(Plain)
    OBVIOUS
  <1>3. Front(Append(lines, <<>>)) = lines /\ Last(Append(lines, <<>>)) = <<>>
    BY <1>1, <1>2, FrontLast
  <1> QED
    BY <1>1, <1>3, PlainTexts DEF Lines

\* So there is one line for each resource.
LEMMA LinesOfJobs ==
  ASSUME RenderInv
  PROVE  OneLinePerResource
  <1> SUFFICES ASSUME rendered, job.kind \in TextKinds
               PROVE  OneLinePerResource
    BY DEF OneLinePerResource, IsDone, TextKinds
  <1>1. printed = Rendered(job) /\ job.values \in Seq(Seq(Characters))
    BY TextJobTyped DEF RenderInv
  <1>2. CASE job.kind = "table"
    <2>1. PICK lines : Sheet(printed, lines) /\ Len(lines) = 3
      BY <1>1, <1>2, RenderedText, TableLines
    <2>2. /\ "\r" \notin ToSet(printed) /\ Last(Split(printed, "\n")) = <<>> /\ Len(Lines) = 3
      BY <2>1, SheetLines
    <2> QED
      BY <1>2, <2>2 DEF OneLinePerResource, IsDone
  <1>3. CASE job.kind = "ids"
    <2>1. PICK lines : /\ Sheet(printed, lines) /\ Len(lines) = Len(job.values)
                       /\ \A i \in DOMAIN lines : ~IsBlank(lines[i])
      BY <1>1, <1>3, RenderedText, IDLines
    <2>2. /\ "\r" \notin ToSet(printed) /\ Last(Split(printed, "\n")) = <<>>
          /\ Len(Lines) = Len(job.values) /\ \A i \in DOMAIN Lines : ~IsBlank(Lines[i])
      BY <2>1, SheetLines
    <2> QED
      BY <1>3, <2>2 DEF OneLinePerResource, IsDone
  <1>4. CASE job.kind = "item ids"
    <2>1. PICK ids \in Seq(Seq(Characters)) : ids = Dropping(job.values, {<<>>})
      BY <1>1, DroppingTyped
    <2>2. PICK lines : /\ Sheet(printed, lines) /\ Len(lines) = Len(ids)
                       /\ \A i \in DOMAIN lines : ~IsBlank(lines[i])
      BY <1>1, <1>4, <2>1, RenderedText, IDLines DEF RenderPlaylistItemIDs
    <2>3. Len(ids) = Cardinality({i \in DOMAIN job.values : job.values[i] # <<>>})
      <3>1. Len(ids) = Cardinality({i \in DOMAIN job.values : job.values[i] \notin {<<>>}})
        BY <1>1, <2>1, DroppingCount
      <3>2. {i \in DOMAIN job.values : job.values[i] \notin {<<>>}}
              = {i \in DOMAIN job.values : job.values[i] # <<>>}
        OBVIOUS
      <3> QED
        BY <3>1, <3>2
    <2>4. /\ "\r" \notin ToSet(printed) /\ Last(Split(printed, "\n")) = <<>>
          /\ Len(Lines) = Len(ids) /\ \A i \in DOMAIN Lines : ~IsBlank(Lines[i])
      BY <2>2, SheetLines
    <2> QED
      BY <1>4, <2>3, <2>4 DEF OneLinePerResource, IsDone
  <1>5. CASE job.kind = "record"
    <2>1. PICK line \in Seq(Plain) : printed = line \o Newline
      BY <1>1, <1>5, RenderedText, RecordLine
    <2>2. Sheet(printed, <<line>>)
      BY <2>1, SheetLine
    <2>3. "\r" \notin ToSet(printed) /\ Last(Split(printed, "\n")) = <<>> /\ Lines = <<line>>
      BY <2>2, SheetLines
    <2> QED
      BY <1>5, <2>3 DEF OneLinePerResource, IsDone
  <1>6. CASE job.kind \in {"credits", "artwork"}
    <2>1. printed \in Seq(Plain)
      <3>1. CASE job.kind = "credits"
        BY <1>1, <3>1, RenderedText, CreditsTyped, CellPlain
      <3>2. CASE job.kind = "artwork"
        BY <1>1, <3>2, RenderedText, ArtworkPlain
      <3> QED
        BY <1>6, <3>1, <3>2
    <2>2. "\r" \notin ToSet(printed) /\ Lines = Front(<<printed>>)
      BY <2>1, PlainLine DEF Lines
    <2>3. Front(<<printed>>) = <<>>
      BY DEF Front
    <2> QED
      BY <1>6, <2>2, <2>3 DEF OneLinePerResource, IsDone
  <1> QED
    BY <1>2, <1>3, <1>4, <1>5, <1>6 DEF TextKinds

\* Whatever the values are: nothing of a resource breaks its line, and none is lost.
THEOREM OneLineForEach == RenderSpec => []OneLinePerResource
  BY RenderInvariant, LinesOfJobs, PTL

\* A record taken apart at its tabs.
LEMMA RecordsSplit ==
  ASSUME RenderInv
  PROVE  RecordsReadBack
  <1> SUFFICES ASSUME rendered, job.kind = "record"
               PROVE  RecordsReadBack
    BY DEF RecordsReadBack, IsDone
  <1>1. printed = Rendered(job) /\ job.values \in Seq(Seq(Characters))
    BY TextJobTyped DEF RenderInv, TextKinds
  <1>2. PICK fields \in Seq(Seq(Plain \ {"\t"})) \ {<<>>} :
          /\ printed = Joined(fields, <<"\t">>) \o Newline
          /\ Joined(fields, <<"\t">>) \in Seq(Plain)
          /\ Len(fields) = Len(job.values) + 1
          /\ \A i \in DOMAIN job.values : fields[i + 1] = mutationCell(job.values[i])
    BY <1>1, RenderedText, RecordLine
  <1>3. PICK line \in Seq(Plain) : line = Joined(fields, <<"\t">>)
    BY <1>2
  <1>4. Front(printed) = line
    <2>1. PICK text : text = line \o <<"\n">>
      OBVIOUS
    <2>2. SubSeq(text, 1, Len(text) - 1) = line
      <3>1. Len(text) = Len(line) + 1 /\ \A i \in 1..Len(line) : text[i] = line[i]
        BY <2>1
      <3>2. Len(text) - 1 = Len(line) /\ Len(line) \in Nat
        BY <3>1
      <3>3. SubSeq(text, 1, Len(line)) = [i \in 1..Len(line) |-> text[i]]
        BY <2>1
      <3>4. line = [i \in 1..Len(line) |-> line[i]]
        OBVIOUS
      <3> QED
        BY <3>1, <3>2, <3>3, <3>4
    <2> QED
      BY <1>2, <1>3, <2>1, <2>2, PlainTexts DEF Front
  <1>5. Split(Front(printed), "\t") = fields
    <2>1. "\t" \in Plain
      BY CharactersAssumption DEF Written, Plain, OneLine
    <2> QED
      BY <1>3, <1>4, <2>1, SplitJoined
  <1>6. ASSUME NEW i \in DOMAIN job.values, Clean(job.values[i])
        PROVE  fields[i + 1] = job.values[i]
    <2>1. job.values[i] \in Seq(Characters)
      BY <1>1
    <2> QED
      BY <1>2, <1>6, <2>1, CellClean
  <1> QED
    BY <1>2, <1>5, <1>6 DEF RecordsReadBack

\* Names put in order one by one, or joined: it is the same.
LEMMA SanitizeJoined ==
  ASSUME NEW parts \in Seq(Seq(Characters))
  PROVE  sanitize(Joined(parts, <<",">>))
           = Joined([i \in DOMAIN parts |-> sanitize(parts[i])], <<",">>)
  <1> DEFINE L == Len(parts)
             clean == [i \in DOMAIN parts |-> sanitize(parts[i])]
             upto == Joins(parts, <<",">>)
             done == Joins(clean, <<",">>)
             T == {n \in 0..L : sanitize(upto[n]) = done[n]}
  <1>1. L \in Nat /\ DOMAIN parts = 1..L /\ \A n \in 1..L : parts[n] \in Seq(Characters)
    OBVIOUS
  <1>2. \A n \in 1..L : clean[n] = sanitize(parts[n]) /\ clean[n] \in Seq(Characters)
    BY <1>1, CellPlain, PlainTexts
  <1>3. clean \in Seq(Seq(Characters)) /\ Len(clean) = L
    <2>1. clean = [i \in DOMAIN parts |-> clean[i]]
      OBVIOUS
    <2> HIDE DEF clean
    <2> QED
      BY <1>1, <1>2, <2>1, ListOf
  <1>4. <<",">> \in Seq(Characters)
    BY PlainTexts
  <1>5. /\ upto \in [0..L -> Seq(Characters)] /\ upto[0] = <<>>
        /\ \A n \in 1..L : upto[n] = IF n = 1 THEN parts[1] ELSE upto[n - 1] \o (<<",">> \o parts[n])
    BY <1>4, JoinsFacts
  <1> HIDE DEF clean
  <1>6. /\ done[0] = <<>>
        /\ \A n \in 1..L : done[n] = IF n = 1 THEN clean[1] ELSE done[n - 1] \o (<<",">> \o clean[n])
    <2>1. /\ Joins(clean, <<",">>)[0] = <<>>
          /\ \A n \in 1..Len(clean) : Joins(clean, <<",">>)[n] =
               IF n = 1 THEN clean[1] ELSE Joins(clean, <<",">>)[n - 1] \o (<<",">> \o clean[n])
      BY <1>3, <1>4, JoinsFacts
    <2> QED
      BY <1>3, <2>1
  <1> HIDE DEF upto, done
  <1>7. 0 \in T
    <2>1. 0 \in 0..L
      BY <1>1
    <2>2. sanitize(upto[0]) = done[0]
      BY ONLY <1>5, <1>6, SanitizeEmpty
    <2> HIDE DEF L
    <2> QED
      BY <2>1, <2>2
  <1>8. ASSUME NEW n \in 0..(L - 1), n \in T
        PROVE  n + 1 \in T
    <2>1. n + 1 \in 1..L /\ n + 1 \in 0..L /\ (n + 1) - 1 = n /\ n \in 0..L
      BY <1>1
    <2>2. CASE n = 0
      <3>1. upto[n + 1] = parts[1] /\ done[n + 1] = clean[1] /\ 1 \in 1..L
        <4>1. n + 1 = 1 /\ 1 \in 1..L
          BY <2>1, <2>2
        <4>2. upto[1] = parts[1]
          BY ONLY <1>5, <4>1
        <4>3. done[1] = clean[1]
          BY ONLY <1>6, <4>1
        <4> QED
          BY <4>1, <4>2, <4>3
      <3> QED
        BY <1>2, <2>1, <3>1
    <2>3. CASE n # 0
      <3>1. n + 1 # 1
        BY <2>3
      <3>2. upto[n + 1] = upto[n] \o (<<",">> \o parts[n + 1])
        BY ONLY <1>5, <2>1, <3>1
      <3>3. done[n + 1] = done[n] \o (<<",">> \o clean[n + 1])
        BY ONLY <1>6, <2>1, <3>1
      <3>4. PICK a \in Seq(Characters) : a = upto[n]
        BY <1>5, <2>1
      <3>5. PICK b \in Seq(Characters) : b = parts[n + 1]
        BY <1>1, <2>1
      <3>6. sanitize(a) = done[n] /\ sanitize(b) = clean[n + 1]
        BY <1>2, <1>8, <2>1, <3>4, <3>5
      <3>7. sanitize(a \o (<<",">> \o b)) = sanitize(a) \o (<<",">> \o sanitize(b))
        BY SanitizeAcross
      <3>8. sanitize(upto[n + 1]) = done[n + 1]
        BY <3>2, <3>3, <3>4, <3>5, <3>6, <3>7
      <3> QED
        BY <2>1, <3>8
    <2> QED
      BY <2>2, <2>3
  <1>9. L \in T
    <2> HIDE DEF T, L
    <2>1. \A n \in 0..L : n \in T
      BY <1>1, <1>7, <1>8, Induction
    <2> QED
      BY <1>1, <2>1
  <1>10. Joined(parts, <<",">>) = upto[L] /\ Joined(clean, <<",">>) = done[L]
    BY <1>3 DEF Joined, upto, done
  <1> QED
    BY <1>9, <1>10 DEF clean

\* A text that a letter is not in is of the others.
LEMMA WithoutLetter ==
  ASSUME NEW V, NEW text \in Seq(V), NEW c, c \notin ToSet(text)
  PROVE  text \in Seq(V \ {c})
  <1>1. \A i \in 1..Len(text) : text[i] \in V \ {c}
    BY DEF ToSet
  <1>2. text = [i \in 1..Len(text) |-> text[i]] /\ Len(text) \in Nat
    OBVIOUS
  <1> QED
    BY <1>1, <1>2, IsASeq

\* The cell of credits taken apart at its commas.
LEMMA CreditsSplit ==
  ASSUME RenderInv
  PROVE  CreditsAlign
  <1> SUFFICES ASSUME rendered, job.kind = "credits", printed # Dash,
                      \A i \in DOMAIN job.values : "," \notin ToSet(job.values[i])
               PROVE  LET names == Split(printed, ",")
                      IN  /\ Len(names) = Len(job.values)
                          /\ \A i \in DOMAIN names : Clean(job.values[i]) => names[i] = job.values[i]
    BY DEF CreditsAlign, IsDone
  <1>1. printed = cell(joinArtists(job.values)) /\ job.values \in Seq(Seq(Characters))
    BY TextJobTyped, RenderedText DEF RenderInv, TextKinds
  <1>2. PICK values \in Seq(Seq(Characters)) : values = job.values
    BY <1>1
  <1> DEFINE Lone == Characters \ {","}
  <1>3. \A i \in DOMAIN values : values[i] \in Seq(Characters) /\ values[i] \in Seq(Lone)
    <2> TAKE i \in DOMAIN values
    <2>1. values[i] \in Seq(Characters)
      BY ONLY values \in Seq(Seq(Characters)), i \in DOMAIN values
    <2>2. "," \notin ToSet(values[i])
      BY <1>2
    <2> QED
      BY <2>1, <2>2, WithoutLetter
  <1>4. {" ", "|", "\r", "\n"} \subseteq Lone /\ "," \in Characters
    BY CharactersAssumption DEF Written
  <1>5. \A text \in Seq(Lone) : sanitize(text) \in Seq(Lone)
    <2> TAKE text \in Seq(Lone)
    <2> HIDE DEF Lone
    <2>1. sanitize(text) \in Seq((Lone \ {"\r"}) \ {"\n"})
      BY <1>4, SanitizeTyped
    <2>2. (Lone \ {"\r"}) \ {"\n"} \subseteq Lone
      OBVIOUS
    <2> QED
      BY <2>1, <2>2, SeqMonotonic
  <1> HIDE DEF Lone
  <1>6. PICK once : once = [i \in DOMAIN values |-> sanitize(values[i])]
    OBVIOUS
  <1>7. once = [i \in DOMAIN values |-> once[i]] /\ \A i \in DOMAIN values : once[i] \in Seq(Lone)
    BY <1>3, <1>5, <1>6
  <1>8. once \in Seq(Seq(Lone)) /\ Len(once) = Len(values) /\ DOMAIN once = DOMAIN values
    BY <1>7, ListOf
  <1>9. PICK twice : twice = [i \in DOMAIN once |-> sanitize(once[i])]
    OBVIOUS
  <1>10. twice = [i \in DOMAIN once |-> twice[i]] /\ \A i \in DOMAIN once : twice[i] \in Seq(Lone)
    BY <1>5, <1>7, <1>8, <1>9
  <1>11. twice \in Seq(Seq(Lone)) /\ Len(twice) = Len(values) /\ DOMAIN twice = DOMAIN values
    BY <1>8, <1>10, ListOf
  <1>12. once \in Seq(Seq(Characters))
    <2>1. Lone \subseteq Characters
      BY DEF Lone
    <2>2. Seq(Lone) \subseteq Seq(Characters)
      BY <2>1, SeqMonotonic
    <2> QED
      BY <1>8, <2>2, SeqMonotonic
  <1>13. sanitize(Joined(once, <<",">>)) = Joined(twice, <<",">>)
    BY <1>9, <1>12, SanitizeJoined
  <1>14. printed = Joined(twice, <<",">>) /\ ~IsBlank(printed)
    BY <1>1, <1>2, <1>6, <1>13 DEF cell, joinArtists
  <1>15. twice # <<>>
    <2> SUFFICES ASSUME twice = <<>>
                 PROVE  FALSE
      OBVIOUS
    <2>1. \A V : <<>> \in Seq(V) /\ Len(<<>>) = 0 /\ DOMAIN <<>> = {}
      BY ONLY TRUE
    <2>2. Joined(<<>>, <<",">>) = <<>>
      <3>1. <<",">> \in Seq(Characters)
        BY PlainTexts
      <3>2. Joins(<<>>, <<",">>)[0] = <<>>
        <4>1. PICK none \in Seq(Seq(Characters)) : none = <<>>
          BY <2>1
        <4>2. Joins(none, <<",">>)[0] = <<>>
          BY ONLY <3>1, JoinsFacts, none \in Seq(Seq(Characters))
        <4> QED
          BY <4>1, <4>2
      <3> QED
        BY <2>1, <3>2 DEF Joined
    <2>3. ToSet(<<>>) = {}
      BY <2>1 DEF ToSet
    <2> QED
      BY <1>14, <2>2, <2>3 DEF IsBlank
  <1>16. Split(printed, ",") = twice
    <2>1. twice \in Seq(Seq(Characters \ {","})) \ {<<>>}
      BY <1>11, <1>15 DEF Lone
    <2>2. Split(Joined(twice, <<",">>), ",") = twice
      BY <1>4, <2>1, SplitJoined
    <2> QED
      BY <1>14, <2>2
  <1>17. ASSUME NEW i \in DOMAIN twice, Clean(values[i])
         PROVE  twice[i] = values[i]
    <2>1. values[i] \in Seq(Characters)
      BY <1>3, <1>11
    <2>2. sanitize(values[i]) = values[i]
      BY <1>17, <2>1, CellClean
    <2> QED
      BY <1>6, <1>8, <1>9, <1>11, <2>2
  <1> QED
    BY <1>2, <1>11, <1>16, <1>17

\* A length, put together again.
LEMMA Minutes ==
  ASSUME NEW t \in Nat
  PROVE  \E m \in Nat, s \in 0..59 : m = t \div 60 /\ s = t % 60 /\ 60 * m + s = t
  <1>1. PICK m \in Nat : m = t \div 60
    OBVIOUS
  <1>2. PICK s \in 0..59 : s = t % 60
    OBVIOUS
  <1>3. 60 * m + s = t
    BY <1>1, <1>2
  <1> QED
    BY ONLY <1>1, <1>2, <1>3

\* A length is hours and a rest,
LEMMA Hours ==
  ASSUME NEW t \in Nat
  PROVE  \E h \in Nat, r \in Nat : h = t \div 3600 /\ r = t % 3600 /\ r < 3600 /\ 3600 * h + r = t
  <1>1. PICK h \in Nat : h = t \div 3600
    OBVIOUS
  <1>2. PICK r \in Nat : r = t % 3600
    OBVIOUS
  <1>3. r < 3600
    BY <1>2
  <1>4. 3600 * h + r = t
    BY <1>1, <1>2
  <1> QED
    BY ONLY <1>1, <1>2, <1>3, <1>4

Shows(clock, s) ==
    LET hours == IF Len(clock) = 3 THEN clock[1] ELSE 0
    IN  /\ 3600 * hours + 60 * clock[Len(clock) - 1] + clock[Len(clock)]
              = (IF s < 0 THEN 0 ELSE s)
        /\ \A i \in 2..Len(clock) : clock[i] \in 0..59
        /\ Len(clock) = 3 <=> s >= 3600

\* and the rest minutes and seconds.
LEMMA DurationSums ==
  ASSUME NEW s \in Int, NEW clock, clock = duration(s)
  PROVE  Shows(clock, s)
  <1>1. PICK total \in Nat : total = IF s < 0 THEN 0 ELSE s
    OBVIOUS
  <1>2. CASE total >= 3600
    <2>1. PICK h \in Nat, r \in Nat : /\ h = total \div 3600 /\ r = total % 3600
                                      /\ r < 3600 /\ 3600 * h + r = total
      BY Hours
    <2>2. PICK m \in Nat, x \in 0..59 : m = r \div 60 /\ x = r % 60 /\ 60 * m + x = r
      BY Minutes
    <2>3. m \in 0..59
      BY <2>1, <2>2
    <2>4. total % 60 = x
      <3>1. total = 60 * (60 * h + m) + x
        BY <2>1, <2>2
      <3>2. PICK q \in Int : q = 60 * h + m
        OBVIOUS
      <3>3. total = 60 * q + x
        BY <3>1, <3>2
      <3> QED
        BY <3>3
    <2>5. clock = <<h, m, x>>
      BY <1>1, <1>2, <2>1, <2>2, <2>4 DEF duration
    <2>6. /\ Len(clock) = 3 /\ clock[1] = h /\ clock[Len(clock) - 1] = m
          /\ clock[Len(clock)] = x /\ clock[2] = m /\ clock[3] = x
      BY <2>5
    <2>7. \A i \in 2..Len(clock) : clock[i] \in 0..59
      <3> TAKE i \in 2..Len(clock)
      <3>1. i = 2 \/ i = 3
        BY <2>6
      <3> QED
        BY ONLY <2>3, <2>6, <3>1, x \in 0..59
    <2>8. 3600 * h + 60 * m + x = total
      BY <2>1, <2>2
    <2>9. s = total /\ s >= 3600
      BY <1>1, <1>2
    <2> QED
      BY <1>1, <2>6, <2>7, <2>8, <2>9 DEF Shows
  <1>3. CASE total < 3600
    <2>1. PICK m \in Nat, x \in 0..59 : m = total \div 60 /\ x = total % 60 /\ 60 * m + x = total
      BY Minutes
    <2>2. clock = <<m, x>>
      BY <1>1, <1>3, <2>1 DEF duration
    <2>3. /\ Len(clock) = 2 /\ clock[Len(clock) - 1] = m /\ clock[Len(clock)] = x /\ clock[2] = x
      BY <2>2
    <2>4. \A i \in 2..Len(clock) : clock[i] \in 0..59
      <3> TAKE i \in 2..Len(clock)
      <3>1. i = 2
        BY <2>3
      <3> QED
        BY ONLY <2>3, <3>1, x \in 0..59
    <2>5. ~(s >= 3600)
      BY <1>1, <1>3
    <2>6. 3600 * 0 + 60 * m + x = total
      BY <2>1
    <2> QED
      BY <1>1, <2>3, <2>4, <2>5, <2>6 DEF Shows
  <1> QED
    BY <1>1, <1>2, <1>3

\* So the length shown adds up to the length.
LEMMA DurationsSum ==
  ASSUME RenderInv
  PROVE  DurationReadsBack
  <1> SUFFICES ASSUME rendered, job.kind = "duration"
               PROVE  DurationReadsBack
    BY DEF DurationReadsBack, IsDone
  <1>1. job \in DurationJobs
    <2>1. \A family : job \in ColumnJobs(family) => job.kind = "columns"
      BY DEF ColumnJobs
    <2>2. job \in TextJobs => job.kind \in TextKinds
      BY DEF TextJobs, TextKinds
    <2> QED
      BY <2>1, <2>2 DEF RenderInv, JobOK, TextKinds
  <1>2. job.seconds \in Int
    BY <1>1, SecondsAssumption DEF DurationJobs
  <1>3. printed = duration(job.seconds)
    <2>1. printed = Rendered(job)
      BY DEF RenderInv
    <2> QED
      BY <2>1 DEF Rendered
  <1>4. Shows(printed, job.seconds)
    BY <1>2, <1>3, DurationSums
  <1> QED
    BY <1>4 DEF DurationReadsBack, Shows

\* What is printed can be taken apart again, whatever was to be shown.
THEOREM PrintedReadsBack == RenderSpec => []ReadsBack
  <1>1. RenderInv => ReadsBack
    BY RecordsSplit, CreditsSplit, DurationsSum DEF ReadsBack
  <1> QED
    BY <1>1, RenderInvariant, PTL

\* Columns. A list of names is one of the names it has,
LEMMA ToSetConcat ==
  ASSUME NEW V, NEW s \in Seq(V), NEW t \in Seq(V)
  PROVE  s \o t \in Seq(V) /\ ToSet(s \o t) = ToSet(s) \cup ToSet(t)
  <1>1. s \o t \in Seq(V) /\ Len(s \o t) = Len(s) + Len(t) /\ Len(s) \in Nat /\ Len(t) \in Nat
    OBVIOUS
  <1>2. \A i \in 1..Len(s) : (s \o t)[i] = s[i]
    OBVIOUS
  <1>3. \A i \in 1..Len(t) : (s \o t)[Len(s) + i] = t[i]
    OBVIOUS
  <1>4. DOMAIN s = 1..Len(s) /\ DOMAIN t = 1..Len(t) /\ DOMAIN (s \o t) = 1..(Len(s) + Len(t))
    BY <1>1
  <1>5. \A i \in 1..Len(s) : i \in 1..(Len(s) + Len(t))
    BY <1>1
  <1>6. \A i \in 1..Len(t) : Len(s) + i \in 1..(Len(s) + Len(t))
    BY <1>1
  <1>7. \A i \in 1..(Len(s) + Len(t)) :
          i \in 1..Len(s) \/ \E k \in 1..Len(t) : i = Len(s) + k
    <2> TAKE i \in 1..(Len(s) + Len(t))
    <2>1. CASE i > Len(s)
      <3>1. i - Len(s) \in 1..Len(t) /\ i = Len(s) + (i - Len(s))
        BY <1>1, <2>1
      <3> QED
        BY <3>1
    <2>2. CASE i <= Len(s)
      BY <1>1, <2>2
    <2> QED
      BY <1>1, <2>1, <2>2
  <1>8. \A x : x \in ToSet(s \o t) => x \in ToSet(s) \/ x \in ToSet(t)
    <2> SUFFICES ASSUME NEW x, x \in ToSet(s \o t) PROVE x \in ToSet(s) \/ x \in ToSet(t)
      OBVIOUS
    <2>1. PICK i \in 1..(Len(s) + Len(t)) : x = (s \o t)[i]
      BY <1>4 DEF ToSet
    <2>2. CASE i \in 1..Len(s)
      <3>1. x = s[i]
        BY <1>2, <2>1, <2>2
      <3> QED
        BY <1>4, <2>2, <3>1 DEF ToSet
    <2>3. CASE \E k \in 1..Len(t) : i = Len(s) + k
      <3>1. PICK k \in 1..Len(t) : i = Len(s) + k
        BY <2>3
      <3>2. x = t[k]
        BY <1>3, <2>1, <3>1
      <3> QED
        BY <1>4, <3>2 DEF ToSet
    <2> QED
      BY <1>7, <2>2, <2>3
  <1>9. \A x : x \in ToSet(s) => x \in ToSet(s \o t)
    <2> SUFFICES ASSUME NEW x, x \in ToSet(s) PROVE x \in ToSet(s \o t)
      OBVIOUS
    <2>1. PICK i \in 1..Len(s) : x = s[i]
      BY <1>4 DEF ToSet
    <2>2. x = (s \o t)[i] /\ i \in DOMAIN (s \o t)
      BY <1>2, <1>4, <1>5, <2>1
    <2> QED
      BY <2>2 DEF ToSet
  <1>10. \A x : x \in ToSet(t) => x \in ToSet(s \o t)
    <2> SUFFICES ASSUME NEW x, x \in ToSet(t) PROVE x \in ToSet(s \o t)
      OBVIOUS
    <2>1. PICK i \in 1..Len(t) : x = t[i]
      BY <1>4 DEF ToSet
    <2>2. x = (s \o t)[Len(s) + i] /\ Len(s) + i \in DOMAIN (s \o t)
      BY <1>3, <1>4, <1>6, <2>1
    <2> QED
      BY <2>2 DEF ToSet
  <1> QED
    BY <1>1, <1>8, <1>9, <1>10

\* What is in a sequence of a set is in the set.
LEMMA SeqInSet ==
  ASSUME NEW V, NEW s \in Seq(V)
  PROVE  ToSet(s) \subseteq V
  <1>1. \A i \in DOMAIN s : s[i] \in V
    OBVIOUS
  <1> QED
    BY <1>1 DEF ToSet

\* and what a family's table shows is named among all its columns, each of which
\* has a cell.
FamilyFits(defaults, extended, artwork, all, cells) ==
    /\ defaults \in Seq(cells) /\ extended \in Seq(cells) /\ all \in Seq(cells)
    /\ ToSet(defaults) \subseteq ToSet(all) /\ ToSet(extended) \subseteq ToSet(all)
    /\ artwork => "ARTWORK" \in ToSet(all) \cap cells

FamilyOK(family) ==
    FamilyFits(family.defaults, family.extended, family.artwork, family.all, family.cells)

\* Families without artwork fit,
LEMMA FitsPlain ==
  ASSUME NEW C, NEW d \in Seq(C), NEW e \in Seq(C)
  PROVE  FamilyFits(d, e, FALSE, d \o e, C)
  <1>1. d \o e \in Seq(C) /\ ToSet(d \o e) = ToSet(d) \cup ToSet(e)
    BY ToSetConcat
  <1> QED
    BY <1>1 DEF FamilyFits

\* those with artwork,
LEMMA FitsArtwork ==
  ASSUME NEW C, NEW d \in Seq(C), NEW e \in Seq(C), "ARTWORK" \in C
  PROVE  FamilyFits(d, e, TRUE, d \o e \o <<"ARTWORK">>, C)
  <1>1. d \o e \in Seq(C) /\ ToSet(d \o e) = ToSet(d) \cup ToSet(e)
    BY ToSetConcat
  <1>2. <<"ARTWORK">> \in Seq(C) /\ ToSet(<<"ARTWORK">>) = {"ARTWORK"}
    BY OneLetter
  <1>3. PICK some \in Seq(C) : some = d \o e
    BY <1>1
  <1>4. PICK last \in Seq(C) : last = <<"ARTWORK">>
    BY <1>2
  <1>5. some \o last \in Seq(C) /\ ToSet(some \o last) = ToSet(some) \cup ToSet(last)
    BY ToSetConcat
  <1> QED
    BY <1>1, <1>2, <1>3, <1>4, <1>5 DEF FamilyFits

\* and those with one column before the others.
LEMMA FitsSaved ==
  ASSUME NEW C, NEW first \in C, NEW d, NEW e, NEW all, FamilyFits(d, e, TRUE, all, C)
  PROVE  FamilyFits(<<first>> \o d, e, TRUE, <<first>> \o all, C)
  <1>1. /\ d \in Seq(C) /\ e \in Seq(C) /\ all \in Seq(C)
        /\ ToSet(d) \subseteq ToSet(all) /\ ToSet(e) \subseteq ToSet(all)
        /\ "ARTWORK" \in ToSet(all) \cap C
    BY DEF FamilyFits
  <1>2. PICK head \in Seq(C) : head = <<first>>
    BY OneLetter
  <1>3. head \o d \in Seq(C) /\ ToSet(head \o d) = ToSet(head) \cup ToSet(d)
    BY <1>1, ToSetConcat
  <1>4. head \o all \in Seq(C) /\ ToSet(head \o all) = ToSet(head) \cup ToSet(all)
    BY <1>1, ToSetConcat
  <1> QED
    BY <1>1, <1>2, <1>3, <1>4 DEF FamilyFits

\* All families of the code do.
LEMMA FamiliesFit ==
  ASSUME NEW family \in Families
  PROVE  FamilyOK(family)
  <1>1. /\ "ID" \in trackCell /\ "TRACK" \in trackCell /\ "ARTIST_IDS" \in trackCell
       /\ "ARTISTS" \in trackCell /\ "ALBUM_ID" \in trackCell /\ "ALBUM" \in trackCell
       /\ "DURATION" \in trackCell /\ "URI" \in trackCell /\ "URL" \in trackCell
       /\ "DISC_NUMBER" \in trackCell /\ "TRACK_NUMBER" \in trackCell
       /\ "EXPLICIT" \in trackCell /\ "RESTRICTION" \in trackCell
       /\ "ARTWORK" \in trackCell
    BY DEF trackCell
  <1>2. TrackDefaults \in Seq(trackCell)
    BY <1>1 DEF TrackDefaults
  <1>3. AlbumTrackDefaults \in Seq(trackCell)
    BY <1>1 DEF AlbumTrackDefaults
  <1>4. TrackExtended \in Seq(trackCell)
    BY <1>1 DEF TrackExtended
  <1>5. /\ "ID" \in savedTrackCell /\ "TRACK" \in savedTrackCell
       /\ "ARTIST_IDS" \in savedTrackCell /\ "ARTISTS" \in savedTrackCell
       /\ "ALBUM_ID" \in savedTrackCell /\ "ALBUM" \in savedTrackCell
       /\ "DURATION" \in savedTrackCell /\ "URI" \in savedTrackCell
       /\ "URL" \in savedTrackCell /\ "DISC_NUMBER" \in savedTrackCell
       /\ "TRACK_NUMBER" \in savedTrackCell /\ "EXPLICIT" \in savedTrackCell
       /\ "RESTRICTION" \in savedTrackCell /\ "ARTWORK" \in savedTrackCell
       /\ "ADDED_AT" \in savedTrackCell
    BY DEF savedTrackCell, trackCell
  <1>6. TrackDefaults \in Seq(savedTrackCell)
    BY <1>5 DEF TrackDefaults
  <1>7. TrackExtended \in Seq(savedTrackCell)
    BY <1>5 DEF TrackExtended
  <1>8. /\ "ID" \in albumCell /\ "ALBUM" \in albumCell /\ "ARTIST_IDS" \in albumCell
       /\ "ARTISTS" \in albumCell /\ "RELEASE_DATE" \in albumCell
       /\ "TOTAL_TRACKS" \in albumCell /\ "URI" \in albumCell /\ "URL" \in albumCell
       /\ "ALBUM_TYPE" \in albumCell /\ "RELEASE_DATE_PRECISION" \in albumCell
       /\ "RESTRICTION" \in albumCell /\ "ARTWORK" \in albumCell
    BY DEF albumCell
  <1>9. AlbumDefaults \in Seq(albumCell)
    BY <1>8 DEF AlbumDefaults
  <1>10. AlbumExtended \in Seq(albumCell)
    BY <1>8 DEF AlbumExtended
  <1>11. /\ "ID" \in savedAlbumCell /\ "ALBUM" \in savedAlbumCell
        /\ "ARTIST_IDS" \in savedAlbumCell /\ "ARTISTS" \in savedAlbumCell
        /\ "RELEASE_DATE" \in savedAlbumCell /\ "TOTAL_TRACKS" \in savedAlbumCell
        /\ "URI" \in savedAlbumCell /\ "URL" \in savedAlbumCell
        /\ "ALBUM_TYPE" \in savedAlbumCell /\ "RELEASE_DATE_PRECISION" \in savedAlbumCell
        /\ "RESTRICTION" \in savedAlbumCell /\ "ARTWORK" \in savedAlbumCell
        /\ "ADDED_AT" \in savedAlbumCell
    BY DEF savedAlbumCell, albumCell
  <1>12. AlbumDefaults \in Seq(savedAlbumCell)
    BY <1>11 DEF AlbumDefaults
  <1>13. AlbumExtended \in Seq(savedAlbumCell)
    BY <1>11 DEF AlbumExtended
  <1>14. /\ "ID" \in artistCell /\ "ARTIST" \in artistCell /\ "URI" \in artistCell
        /\ "URL" \in artistCell /\ "ARTWORK" \in artistCell
    BY DEF artistCell
  <1>15. ArtistDefaults \in Seq(artistCell)
    BY <1>14 DEF ArtistDefaults
  <1>16. ArtistExtended \in Seq(artistCell)
    BY <1>14 DEF ArtistExtended
  <1>17. /\ "ID" \in playlistCell /\ "PLAYLIST" \in playlistCell
        /\ "OWNER_ID" \in playlistCell /\ "OWNER" \in playlistCell
        /\ "ITEM_COUNT" \in playlistCell /\ "PUBLIC" \in playlistCell
        /\ "COLLABORATIVE" \in playlistCell /\ "URI" \in playlistCell
        /\ "URL" \in playlistCell /\ "SNAPSHOT_ID" \in playlistCell
        /\ "DESCRIPTION" \in playlistCell /\ "ARTWORK" \in playlistCell
    BY DEF playlistCell
  <1>18. PlaylistDefaults \in Seq(playlistCell)
    BY <1>17 DEF PlaylistDefaults
  <1>19. PlaylistExtended \in Seq(playlistCell)
    BY <1>17 DEF PlaylistExtended
  <1>20. /\ "POSITION" \in playlistItemCell /\ "TYPE" \in playlistItemCell
        /\ "ID" \in playlistItemCell /\ "ITEM" \in playlistItemCell
        /\ "ARTIST_IDS" \in playlistItemCell /\ "ARTISTS" \in playlistItemCell
        /\ "ALBUM_ID" \in playlistItemCell /\ "ALBUM" \in playlistItemCell
        /\ "DURATION" \in playlistItemCell /\ "URI" \in playlistItemCell
        /\ "URL" \in playlistItemCell /\ "ADDED_AT" \in playlistItemCell
        /\ "ADDED_BY_ID" \in playlistItemCell /\ "DISC_NUMBER" \in playlistItemCell
        /\ "TRACK_NUMBER" \in playlistItemCell /\ "EXPLICIT" \in playlistItemCell
        /\ "RESTRICTION" \in playlistItemCell /\ "ARTWORK" \in playlistItemCell
    BY DEF playlistItemCell
  <1>21. ItemDefaults \in Seq(playlistItemCell)
    BY <1>20 DEF ItemDefaults
  <1>22. ItemExtended \in Seq(playlistItemCell)
    BY <1>20 DEF ItemExtended
  <1>23. FamilyFits(TrackDefaults, TrackExtended, TRUE, TrackDefaults \o TrackExtended \o <<"ARTWORK">>, trackCell)
    BY <1>1, <1>2, <1>4, FitsArtwork
  <1>24. FamilyOK(SelectTrackFields)
    BY <1>23 DEF FamilyOK, SelectTrackFields, Family, TrackAll
  <1>25. FamilyFits(TrackDefaults, TrackExtended, TRUE, TrackAll, savedTrackCell)
    BY <1>5, <1>6, <1>7, FitsArtwork DEF TrackAll
  <1>26. FamilyFits(<<"ADDED_AT">> \o TrackDefaults, TrackExtended, TRUE, <<"ADDED_AT">> \o TrackAll, savedTrackCell)
    BY <1>5, <1>25, FitsSaved
  <1>27. FamilyOK(SelectSavedTrackFields)
    BY <1>26 DEF FamilyOK, SelectSavedTrackFields, Family
  <1>28. FamilyFits(AlbumTrackDefaults, TrackExtended, FALSE, AlbumTrackDefaults \o TrackExtended, trackCell)
    BY <1>1, <1>3, <1>4, FitsPlain
  <1>29. FamilyOK(SelectAlbumTrackFields)
    BY <1>28 DEF FamilyOK, SelectAlbumTrackFields, Family
  <1>30. FamilyFits(AlbumDefaults, AlbumExtended, TRUE, AlbumDefaults \o AlbumExtended \o <<"ARTWORK">>, albumCell)
    BY <1>8, <1>9, <1>10, FitsArtwork
  <1>31. FamilyOK(SelectAlbumFields)
    BY <1>30 DEF FamilyOK, SelectAlbumFields, Family, AlbumAll
  <1>32. FamilyFits(AlbumDefaults, AlbumExtended, TRUE, AlbumAll, savedAlbumCell)
    BY <1>11, <1>12, <1>13, FitsArtwork DEF AlbumAll
  <1>33. FamilyFits(<<"ADDED_AT">> \o AlbumDefaults, AlbumExtended, TRUE, <<"ADDED_AT">> \o AlbumAll, savedAlbumCell)
    BY <1>11, <1>32, FitsSaved
  <1>34. FamilyOK(SelectSavedAlbumFields)
    BY <1>33 DEF FamilyOK, SelectSavedAlbumFields, Family
  <1>35. FamilyFits(ArtistDefaults, ArtistExtended, TRUE, ArtistDefaults \o ArtistExtended \o <<"ARTWORK">>, artistCell)
    BY <1>14, <1>15, <1>16, FitsArtwork
  <1>36. FamilyOK(SelectArtistFields)
    BY <1>35 DEF FamilyOK, SelectArtistFields, Family
  <1>37. FamilyFits(PlaylistDefaults, PlaylistExtended, TRUE, PlaylistDefaults \o PlaylistExtended \o <<"ARTWORK">>, playlistCell)
    BY <1>17, <1>18, <1>19, FitsArtwork
  <1>38. FamilyOK(SelectPlaylistFields)
    BY <1>37 DEF FamilyOK, SelectPlaylistFields, Family
  <1>39. FamilyFits(ItemDefaults, ItemExtended, TRUE, ItemDefaults \o ItemExtended \o <<"ARTWORK">>, playlistItemCell)
    BY <1>20, <1>21, <1>22, FitsArtwork
  <1>40. FamilyOK(SelectPlaylistItemFields)
    BY <1>39 DEF FamilyOK, SelectPlaylistItemFields, Family
  <1> QED
    BY <1>24, <1>27, <1>29, <1>31, <1>34, <1>36, <1>38, <1>40 DEF Families

\* The pieces with a name, up to some; a list of them all, in the order they were
\* first named;
Named(csv, n) == {i \in 1..n : csv[i] # ""}

NamesAll(csv, n, fields) ==
    \A x : x \in ToSet(fields) <=> \E i \in Named(csv, n) : csv[i] = x

FirstNamed(csv, n, x, y) ==
    \E i \in Named(csv, n) : /\ csv[i] = x
                             /\ \A k \in Named(csv, n) : csv[k] = y => i < k

InOrder(csv, n, fields) ==
    \A a, b \in DOMAIN fields : a < b => FirstNamed(csv, n, fields[a], fields[b])

\* what the loop over the pieces has taken after some of them.
Taken(csv, all, n, taken) ==
    /\ taken.error <=> \E i \in Named(csv, n) : csv[i] \notin ToSet(all)
    /\ taken.error => taken.fields = <<>>
    /\ ToSet(taken.fields) \subseteq ToSet(all)
    /\ ~taken.error => NamesAll(csv, n, taken.fields) /\ InOrder(csv, n, taken.fields)

\* The places of names, with one piece more.
LEMMA NamedNext ==
  ASSUME NEW csv, NEW n \in Nat
  PROVE  /\ \A i : i \in Named(csv, n + 1) <=> i \in Named(csv, n) \/ (i = n + 1 /\ csv[n + 1] # "")
         /\ \A i \in Named(csv, n) : i \in Int /\ i < n + 1
  <1>1. \A i : i \in 1..(n + 1) <=> i \in 1..n \/ i = n + 1
    OBVIOUS
  <1>2. \A i : i \in Named(csv, n) <=> i \in 1..n /\ csv[i] # ""
    BY DEF Named
  <1>3. \A i : i \in Named(csv, n + 1) <=> i \in 1..(n + 1) /\ csv[i] # ""
    BY DEF Named
  <1>4. \A i \in 1..n : i \in Int /\ i < n + 1
    OBVIOUS
  <1>5. \A i : i \in Named(csv, n + 1) <=> i \in Named(csv, n) \/ (i = n + 1 /\ csv[n + 1] # "")
    <2> TAKE i
    <2>1. CASE i = n + 1
      <3>1. i \in 1..(n + 1)
        BY <2>1
      <3>2. ~(i \in 1..n)
        BY <2>1
      <3> QED
        BY ONLY <1>2, <1>3, <2>1, <3>1, <3>2
    <2>2. CASE i # n + 1
      BY ONLY <1>1, <1>2, <1>3, <2>2
    <2> QED
      BY <2>1, <2>2
  <1>6. \A i \in Named(csv, n) : i \in Int /\ i < n + 1
    BY ONLY <1>2, <1>4
  <1> QED
    BY <1>5, <1>6

\* One piece more keeps the selection as it should be,
LEMMA TakenNext ==
  ASSUME NEW N, NEW csv, NEW all, NEW n \in Nat, NEW taken \in [error : BOOLEAN, fields : Seq(N)],
         Taken(csv, all, n, taken), csv[n + 1] \in N
  PROVE  Taken(csv, all, n + 1, Select(taken, csv[n + 1], all))
  <1>1. PICK name \in N : name = csv[n + 1]
    OBVIOUS
  <1>2. PICK s \in Seq(N) : s = taken.fields
    OBVIOUS
  <1> DEFINE some == Named(csv, n)
             more == Named(csv, n + 1)
  <1>3. /\ taken.error <=> \E i \in some : csv[i] \notin ToSet(all)
        /\ taken.error => s = <<>>
        /\ ToSet(s) \subseteq ToSet(all)
        /\ ~taken.error => NamesAll(csv, n, s) /\ InOrder(csv, n, s)
    BY <1>2 DEF Taken
  <1>4. \A i : i \in more <=> i \in some \/ (i = n + 1 /\ name # "")
    BY <1>1, NamedNext
  <1>5. \A i \in some : i \in Int /\ i < n + 1
    BY NamedNext
  <1> HIDE DEF some, more
  <1>6. PICK next : next = Select(taken, name, all)
    OBVIOUS
  <1> SUFFICES Taken(csv, all, n + 1, next)
    BY <1>1, <1>6
  <1>7. CASE name = ""
    <2>1. next = taken /\ more = some
      BY <1>4, <1>6, <1>7 DEF Select
    <2> QED
      BY <2>1 DEF Taken, NamesAll, InOrder, FirstNamed, some, more
  <1>8. CASE name # "" /\ taken.error
    <2>1. next = taken
      BY <1>6, <1>8 DEF Select
    <2>2. \E i \in more : csv[i] \notin ToSet(all)
      BY <1>3, <1>4, <1>8
    <2> QED
      BY <1>2, <1>3, <1>8, <2>1, <2>2 DEF Taken, more
  <1>9. CASE name # "" /\ ~taken.error /\ name \notin ToSet(all)
    <2>1. next = Selection(TRUE, <<>>)
      BY <1>6, <1>9 DEF Select
    <2>2. next.error = TRUE /\ next.fields = <<>>
      BY <2>1 DEF Selection
    <2>3. \E i \in more : csv[i] \notin ToSet(all)
      BY <1>1, <1>4, <1>9
    <2>4. ToSet(<<>>) \subseteq ToSet(all)
      BY DEF ToSet
    <2> QED
      BY <2>2, <2>3, <2>4 DEF Taken, more
  <1>10. CASE name # "" /\ ~taken.error /\ name \in ToSet(all)
    <2>1. /\ \A x : x \in ToSet(s) <=> \E i \in some : csv[i] = x
          /\ \A a, b \in DOMAIN s : a < b => FirstNamed(csv, n, s[a], s[b])
      BY <1>3, <1>10 DEF NamesAll, InOrder, some
    <2>2. ~\E i \in more : csv[i] \notin ToSet(all)
      BY <1>1, <1>3, <1>4, <1>10
    <2>3. \A x : (\E i \in more : csv[i] = x) <=> x \in ToSet(s) \/ x = name
      BY <1>1, <1>4, <1>10, <2>1
    <2>4. ASSUME NEW x \in ToSet(s), NEW y, FirstNamed(csv, n, x, y) \/ (y = name /\ y \notin ToSet(s))
          PROVE  FirstNamed(csv, n + 1, x, y)
      <3>1. CASE FirstNamed(csv, n, x, y)
        <4>1. PICK i \in some : csv[i] = x /\ \A k \in some : csv[k] = y => i < k
          BY <3>1 DEF FirstNamed, some
        <4>2. \A k \in more : csv[k] = y => i < k
          BY <1>4, <1>5, <4>1
        <4>3. i \in more
          BY <1>4
        <4> QED
          BY <4>1, <4>2, <4>3 DEF FirstNamed, more
      <3>2. CASE y = name /\ y \notin ToSet(s)
        <4>1. PICK i \in some : csv[i] = x
          BY <2>1
        <4>2. \A k \in some : csv[k] # y
          BY <2>1, <3>2
        <4>3. \A k \in more : csv[k] = y => i < k
          BY <1>4, <1>5, <4>2
        <4>4. i \in more
          BY <1>4
        <4> QED
          BY <4>1, <4>3, <4>4 DEF FirstNamed, more
      <3> QED
        BY <2>4, <3>1, <3>2
    <2>5. \A a \in DOMAIN s : s[a] \in ToSet(s)
      BY DEF ToSet
    <2>6. CASE name \in ToSet(s)
      <3>1. next = taken
        BY <1>2, <1>6, <1>10, <2>6 DEF Select
      <3>2. NamesAll(csv, n + 1, s)
        BY <2>3, <2>6 DEF NamesAll, more
      <3>3. InOrder(csv, n + 1, s)
        BY <2>1, <2>4, <2>5 DEF InOrder
      <3> QED
        BY <1>2, <1>3, <1>10, <2>2, <3>1, <3>2, <3>3 DEF Taken, more
    <2>7. CASE name \notin ToSet(s)
      <3>1. PICK longer : longer = Append(s, name)
        OBVIOUS
      <3>2. next.error = FALSE /\ next.fields = longer
        BY <1>2, <1>6, <1>10, <2>7, <3>1 DEF Select, Selection
      <3>3. /\ \A a : a \in DOMAIN longer <=> a \in DOMAIN s \/ a = Len(s) + 1
            /\ \A a \in DOMAIN s : a \in Int /\ a < Len(s) + 1 /\ longer[a] = s[a]
            /\ longer[Len(s) + 1] = name
        BY <3>1
      <3>4. \A x : x \in ToSet(longer) <=> x \in ToSet(s) \/ x = name
        BY <3>3 DEF ToSet
      <3>5. NamesAll(csv, n + 1, longer)
        BY <2>3, <3>4 DEF NamesAll, more
      <3>6. ToSet(longer) \subseteq ToSet(all)
        BY <1>3, <1>10, <3>4
      <3>7. ASSUME NEW a \in DOMAIN longer, NEW b \in DOMAIN longer, a < b
            PROVE  FirstNamed(csv, n + 1, longer[a], longer[b])
        <4>1. Len(s) + 1 \in Int
          OBVIOUS
        <4>2. CASE b \in DOMAIN s
          <5>1. a \in DOMAIN s
            BY <3>3, <3>7, <4>1, <4>2
          <5>2. longer[a] = s[a] /\ longer[b] = s[b] /\ s[a] \in ToSet(s) /\ FirstNamed(csv, n, s[a], s[b])
            BY <2>1, <2>5, <3>3, <3>7, <4>2, <5>1
          <5> QED
            BY <2>4, <5>2
        <4>3. CASE b = Len(s) + 1
          <5>1. a \in DOMAIN s
            BY <3>3, <3>7, <4>1, <4>3
          <5>2. longer[a] \in ToSet(s) /\ longer[b] = name
            BY <2>5, <3>3, <4>3, <5>1
          <5> QED
            BY <2>4, <2>7, <5>2
        <4> QED
          BY <3>3, <4>2, <4>3
      <3>8. InOrder(csv, n + 1, longer)
        BY <3>7 DEF InOrder
      <3> QED
        BY <2>2, <3>2, <3>5, <3>6, <3>8 DEF Taken, more
    <2> QED
      BY <2>6, <2>7
  <1> QED
    BY <1>7, <1>8, <1>9, <1>10

\* and so does the whole list.
LEMMA SelectionsTaken ==
  ASSUME NEW N, NEW csv, Len(csv) \in Nat, \A n \in 1..Len(csv) : csv[n] \in N, NEW all
  PROVE  /\ Selections(csv, all)[Len(csv)] \in [error : BOOLEAN, fields : Seq(N)]
         /\ Taken(csv, all, Len(csv), Selections(csv, all)[Len(csv)])
  <1> DEFINE L == Len(csv)
             upto == Selections(csv, all)
             T == {n \in 0..L : Taken(csv, all, n, upto[n])}
  <1>1. L \in Nat /\ \A n \in 1..L : csv[n] \in N
    OBVIOUS
  <1>2. /\ upto \in [0..L -> [error : BOOLEAN, fields : Seq(N)]]
        /\ upto[0] = Selection(FALSE, <<>>)
        /\ \A n \in 1..L : upto[n] = Select(upto[n - 1], csv[n], all)
    <2>1. SelectionsRun(csv, all, N)
      BY <1>1, SelectionsFacts
    <2> QED
      BY <2>1 DEF SelectionsRun
  <1> HIDE DEF upto
  <1>3. 0 \in T
    <2>1. upto[0].error = FALSE /\ upto[0].fields = <<>>
      BY <1>2 DEF Selection
    <2>2. DOMAIN <<>> = {} /\ ToSet(<<>>) = {} /\ 1..0 = {}
      BY DEF ToSet
    <2>3. Taken(csv, all, 0, upto[0])
      BY <2>1, <2>2 DEF Taken, NamesAll, InOrder, Named
    <2> QED
      BY <1>1, <2>3
  <1>4. ASSUME NEW n \in 0..(L - 1), n \in T
        PROVE  n + 1 \in T
    <2>1. n + 1 \in 1..L /\ n + 1 \in 0..L /\ (n + 1) - 1 = n /\ n \in 0..L /\ n \in Nat
      BY <1>1
    <2>2. PICK taken \in [error : BOOLEAN, fields : Seq(N)] : taken = upto[n]
      BY <1>2, <2>1
    <2>3. Taken(csv, all, n, taken)
      BY <1>4, <2>2
    <2>4. csv[n + 1] \in N
      BY <1>1, <2>1
    <2>5. upto[n + 1] = Select(taken, csv[n + 1], all)
      BY <1>2, <2>1, <2>2
    <2>6. Taken(csv, all, n + 1, Select(taken, csv[n + 1], all))
      BY ONLY <2>1, <2>3, <2>4, TakenNext, taken \in [error : BOOLEAN, fields : Seq(N)]
    <2> QED
      BY <2>1, <2>5, <2>6
  <1>5. L \in T /\ L \in 0..L
    <2> HIDE DEF T, L
    <2>1. \A n \in 0..L : n \in T
      BY <1>1, <1>3, <1>4, Induction
    <2>2. L \in 0..L
      BY <1>1
    <2> QED
      BY <2>1, <2>2
  <1> QED
    BY <1>2, <1>5 DEF upto

\* The columns of a table, and the cells they have.
LEMMA WidenedFits ==
  ASSUME NEW family, FamilyOK(family), NEW extended, NEW artwork
  PROVE  /\ Widened(family, extended, artwork) \in Seq(family.cells)
         /\ ToSet(Widened(family, extended, artwork)) \subseteq ToSet(family.all)
  <1> DEFINE C == family.cells
  <1>1. /\ family.defaults \in Seq(C) /\ family.extended \in Seq(C)
        /\ ToSet(family.defaults) \subseteq ToSet(family.all)
        /\ ToSet(family.extended) \subseteq ToSet(family.all)
        /\ family.artwork => "ARTWORK" \in ToSet(family.all) \cap C
    BY DEF FamilyOK, FamilyFits
  <1> HIDE DEF C
  <1>2. <<>> \in Seq(C) /\ ToSet(<<>>) = {}
    BY DEF ToSet
  <1>3. PICK b \in Seq(C) : /\ b = IF extended THEN family.extended ELSE <<>>
                            /\ ToSet(b) \subseteq ToSet(family.all)
    BY <1>1, <1>2
  <1>4. PICK c \in Seq(C) : /\ c = IF artwork /\ family.artwork THEN <<"ARTWORK">> ELSE <<>>
                            /\ ToSet(c) \subseteq ToSet(family.all)
    <2>1. CASE artwork /\ family.artwork
      <3>1. "ARTWORK" \in C /\ "ARTWORK" \in ToSet(family.all)
        BY <1>1, <2>1
      <3>2. <<"ARTWORK">> \in Seq(C) /\ ToSet(<<"ARTWORK">>) = {"ARTWORK"}
        BY <3>1, OneLetter
      <3> QED
        BY <2>1, <3>1, <3>2
    <2>2. CASE ~(artwork /\ family.artwork)
      BY <1>2, <2>2
    <2> QED
      BY <2>1, <2>2
  <1>5. PICK a \in Seq(C) : a = family.defaults
    BY <1>1
  <1>6. a \o b \in Seq(C) /\ ToSet(a \o b) = ToSet(a) \cup ToSet(b)
    BY ToSetConcat
  <1>7. PICK ab \in Seq(C) : ab = a \o b
    BY <1>6
  <1>8. ab \o c \in Seq(C) /\ ToSet(ab \o c) = ToSet(ab) \cup ToSet(c)
    BY ToSetConcat
  <1>9. Widened(family, extended, artwork) = ab \o c
    BY <1>3, <1>4, <1>5, <1>7 DEF Widened
  <1> QED
    BY <1>1, <1>3, <1>4, <1>5, <1>6, <1>7, <1>8, <1>9 DEF C

\* A sequence is of any set that what is in it is in.
LEMMA SeqOfSet ==
  ASSUME NEW V, NEW s \in Seq(V), NEW C, ToSet(s) \subseteq C
  PROVE  s \in Seq(C)
  <1>1. \A i \in 1..Len(s) : s[i] \in C
    BY DEF ToSet
  <1>2. s = [i \in 1..Len(s) |-> s[i]] /\ Len(s) \in Nat
    OBVIOUS
  <1> QED
    BY <1>1, <1>2, IsASeq

\* What the selection says of the pieces, of the widened defaults and of all columns.
AsAsked(csv, wide, all, selection) ==
    /\ selection.error <=> \E i \in Named(csv, Len(csv)) : csv[i] \notin ToSet(all)
    /\ ToSet(selection.fields) \subseteq ToSet(all)
    /\ ~selection.error /\ Named(csv, Len(csv)) = {} => selection.fields = wide
    /\ ~selection.error /\ Named(csv, Len(csv)) # {} =>
         NamesAll(csv, Len(csv), selection.fields) /\ InOrder(csv, Len(csv), selection.fields)

\* What selectFields returns is what was asked for.
LEMMA SelectionAsked ==
  ASSUME NEW V, NEW csv \in Seq(V), NEW C, NEW wide \in Seq(C), NEW all \in Seq(C),
         ToSet(wide) \subseteq ToSet(all)
  PROVE  /\ AsAsked(csv, wide, all, selectFields(csv, wide, all))
         /\ selectFields(csv, wide, all).fields \in Seq(C)
  <1> DEFINE N == {csv[i] : i \in 1..Len(csv)}
             named == Named(csv, Len(csv))
  <1>1. Len(csv) \in Nat /\ \A n \in 1..Len(csv) : csv[n] \in N
    OBVIOUS
  <1> HIDE DEF N, named
  <1>2. PICK taken \in [error : BOOLEAN, fields : Seq(N)] :
          taken = Selections(csv, all)[Len(csv)] /\ Taken(csv, all, Len(csv), taken)
    <2>1. /\ Selections(csv, all)[Len(csv)] \in [error : BOOLEAN, fields : Seq(N)]
          /\ Taken(csv, all, Len(csv), Selections(csv, all)[Len(csv)])
      BY <1>1, SelectionsTaken
    <2> QED
      BY <2>1
  <1>3. PICK s \in Seq(N) : s = taken.fields
    OBVIOUS
  <1>4. /\ taken.error \in BOOLEAN
        /\ taken.error <=> \E i \in named : csv[i] \notin ToSet(all)
        /\ taken.error => s = <<>>
        /\ ToSet(s) \subseteq ToSet(all)
        /\ ~taken.error => NamesAll(csv, Len(csv), s) /\ InOrder(csv, Len(csv), s)
    BY <1>2, <1>3 DEF Taken, named
  <1>5. ~taken.error => (s = <<>> <=> named = {})
    <2> SUFFICES ASSUME ~taken.error
                 PROVE  s = <<>> <=> named = {}
      OBVIOUS
    <2>1. \A x : x \in ToSet(s) <=> \E i \in named : csv[i] = x
      BY <1>4 DEF NamesAll, named
    <2>2. s = <<>> <=> ToSet(s) = {}
      <3>1. s = <<>> => ToSet(s) = {}
        BY DEF ToSet
      <3>2. s # <<>> => s[1] \in ToSet(s)
        BY DEF ToSet
      <3> QED
        BY <3>1, <3>2
    <2> QED
      BY <2>1, <2>2
  <1>6. ToSet(all) \subseteq C
    BY SeqInSet
  <1>7. PICK selection : selection = selectFields(csv, wide, all)
    OBVIOUS
  <1>8. CASE ~taken.error /\ s = <<>>
    <2>1. selection = Selection(FALSE, wide)
      BY <1>2, <1>3, <1>7, <1>8 DEF selectFields
    <2>2. selection.error = FALSE /\ selection.fields = wide
      BY <2>1 DEF Selection
    <2> QED
      BY <1>4, <1>5, <1>7, <1>8, <2>2 DEF AsAsked, named
  <1>9. CASE ~(~taken.error /\ s = <<>>)
    <2>1. selection = taken
      BY <1>2, <1>3, <1>7, <1>9 DEF selectFields
    <2>2. s \in Seq(C)
      BY <1>4, <1>6, SeqOfSet
    <2> QED
      BY <1>3, <1>4, <1>5, <1>7, <1>9, <2>1, <2>2 DEF AsAsked, named
  <1> QED
    BY <1>8, <1>9

\* A job of columns has a family that fits and a list of pieces.
LEMMA ColumnJobTyped ==
  ASSUME RenderInv, rendered, job.kind = "columns"
  PROVE  /\ FamilyOK(job.family) /\ job.csv \in Seq(Pieces(job.family))
         /\ printed.selection = selectFields(job.csv, Widened(job.family, job.extended, job.artwork),
                                             job.family.all)
         /\ job.family \in Detailed =>
              printed.detail = RenderOne(job.family, printed.selection.fields)
  <1>1. PICK family \in Families : job \in ColumnJobs(family)
    <2>1. job \in TextJobs => job.kind # "columns"
      BY DEF TextJobs
    <2>2. job \in DurationJobs => job.kind # "columns"
      BY DEF DurationJobs
    <2> QED
      BY <2>1, <2>2 DEF RenderInv, JobOK
  <1>2. job.family = family /\ job.csv \in BoundedSeq(Pieces(family), MaxPieces)
    BY <1>1 DEF ColumnJobs
  <1>3. job.csv \in Seq(Pieces(family))
    BY <1>2, BoundsAssumption, BoundedSeqIn
  <1>4. FamilyOK(family)
    BY FamiliesFit
  <1>5. printed = Rendered(job)
    BY DEF RenderInv
  <1> DEFINE selection == selectFields(job.csv, Widened(job.family, job.extended, job.artwork),
                                       job.family.all)
  <1>6. printed = [selection |-> selection,
                   detail |-> IF job.family \in Detailed THEN RenderOne(job.family, selection.fields)
                                                         ELSE <<>>]
    BY <1>5 DEF Rendered
  <1> HIDE DEF selection
  <1>7. /\ printed.selection = selection
        /\ job.family \in Detailed => printed.detail = RenderOne(job.family, selection.fields)
    BY <1>6
  <1> QED
    BY <1>2, <1>3, <1>4, <1>7 DEF selection

\* So the columns are those asked for.
LEMMA ColumnsSelected ==
  ASSUME RenderInv, rendered, job.kind = "columns"
  PROVE  ColumnsAsAsked /\ printed.selection.fields \in Seq(job.family.cells)
  <1> DEFINE C == job.family.cells
             all == job.family.all
             wide == Widened(job.family, job.extended, job.artwork)
             csv == job.csv
             selection == printed.selection
  <1>1. /\ FamilyOK(job.family) /\ csv \in Seq(Pieces(job.family))
        /\ selection = selectFields(csv, wide, all)
    BY ColumnJobTyped
  <1>2. all \in Seq(C)
    BY <1>1 DEF FamilyOK, FamilyFits
  <1>3. wide \in Seq(C) /\ ToSet(wide) \subseteq ToSet(all)
    BY <1>1, WidenedFits
  <1> HIDE DEF C, all, wide, csv, selection
  <1>4. AsAsked(csv, wide, all, selection) /\ selection.fields \in Seq(C)
    BY <1>1, <1>2, <1>3, SelectionAsked
  <1>5. ToSet(selection.fields) \subseteq C
    BY <1>4, SeqInSet
  <1>6. PICK named : named = Named(csv, Len(csv))
    OBVIOUS
  <1>7. /\ selection.error <=> \E i \in named : csv[i] \notin ToSet(all)
        /\ ~selection.error /\ named = {} => selection.fields = wide
        /\ ~selection.error /\ named # {} =>
             /\ NamesAll(csv, Len(csv), selection.fields) /\ InOrder(csv, Len(csv), selection.fields)
    BY <1>4, <1>6 DEF AsAsked
  <1>8. ~selection.error /\ named # {} => ToSet(selection.fields) = {csv[i] : i \in named}
    BY <1>6, <1>7 DEF NamesAll
  <1>9. ~selection.error /\ named # {} =>
          \A a, b \in DOMAIN selection.fields : a < b =>
            \E i \in named : /\ csv[i] = selection.fields[a]
                             /\ \A k \in named : csv[k] = selection.fields[b] => i < k
    BY <1>6, <1>7 DEF InOrder, FirstNamed
  <1>10. named = {i \in DOMAIN csv : csv[i] # ""}
    <2>1. DOMAIN csv = 1..Len(csv)
      BY <1>1
    <2> QED
      BY <1>6, <2>1 DEF Named
  <1>11. ColumnsAsAsked
    <2> DEFINE Asked(some) ==
                 /\ selection.error <=> \E i \in some : csv[i] \notin ToSet(all)
                 /\ ToSet(wide) \subseteq ToSet(all)
                 /\ ToSet(selection.fields) \subseteq C
                 /\ ~selection.error /\ some = {} => selection.fields = wide
                 /\ ~selection.error /\ some # {} =>
                      /\ ToSet(selection.fields) = {csv[i] : i \in some}
                      /\ \A a, b \in DOMAIN selection.fields : a < b =>
                           \E i \in some :
                             /\ csv[i] = selection.fields[a]
                             /\ \A k \in some : csv[k] = selection.fields[b] => i < k
    <2>1. Asked(named)
      BY <1>3, <1>5, <1>7, <1>8, <1>9
    <2> HIDE DEF Asked
    <2>2. Asked({i \in DOMAIN csv : csv[i] # ""})
      BY <1>10, <2>1
    <2> QED
      BY <2>2 DEF Asked, ColumnsAsAsked, C, all, wide, csv, selection
  <1> QED
    BY <1>4, <1>11 DEF C, selection

\* Two attributes to a line, and the one left over: together they are the attributes.
LEMMA DetailBuilt ==
  ASSUME NEW V, NEW A \in Seq(V)
  PROVE  /\ Built(renderDetail(A)) = A
         /\ \A n \in DOMAIN renderDetail(A) :
              Len(renderDetail(A)[n]) = IF 2*n <= Len(A) THEN 2 ELSE 1
  <1> DEFINE L == Len(A)
             H == (L + 1) \div 2
  <1>1. L \in Nat /\ H \in Nat /\ 2*H >= L /\ 2*H <= L + 1 /\ \A i \in 1..L : A[i] \in V
    <2>1. L \in Nat /\ \A i \in 1..L : A[i] \in V
      OBVIOUS
    <2>2. PICK h \in Nat, r \in 0..1 : h = (L + 1) \div 2 /\ r = (L + 1) % 2
      BY <2>1
    <2>3. 2*h + r = L + 1
      BY <2>1, <2>2
    <2> QED
      BY <2>1, <2>2, <2>3
  <1>2. PICK D : D = renderDetail(A)
    OBVIOUS
  <1>3. D = [n \in 1..H |-> IF 2*n <= L THEN <<A[2*n - 1], A[2*n]>> ELSE <<A[2*n - 1]>>]
    BY <1>2 DEF renderDetail
  <1> HIDE DEF H
  <1>4. \A n \in 1..H : 2*n - 1 \in 1..L /\ (2*n <= L => 2*n \in 1..L)
    BY <1>1
  <1>5. \A n \in 1..H : /\ 2*n <= L => D[n] = <<A[2*n - 1], A[2*n]>>
                        /\ ~(2*n <= L) => D[n] = <<A[2*n - 1]>>
    BY <1>3
  <1> HIDE DEF L
  <1>6. ASSUME NEW n \in 1..H
        PROVE  D[n] \in Seq(V) /\ Len(D[n]) = IF 2*n <= L THEN 2 ELSE 1
    <2>1. A[2*n - 1] \in V
      BY <1>1, <1>4
    <2>2. CASE 2*n <= L
      <3>1. D[n] = <<A[2*n - 1], A[2*n]>> /\ A[2*n] \in V
        BY <1>1, <1>4, <1>5, <2>2
      <3> QED
        BY <2>1, <2>2, <3>1
    <2>3. CASE ~(2*n <= L)
      <3>1. PICK x \in V : x = A[2*n - 1]
        BY <2>1
      <3>2. D[n] = <<x>>
        BY <1>5, <2>3, <3>1
      <3> QED
        BY <2>3, <3>2
    <2> QED
      BY <2>2, <2>3
  <1>7. D \in Seq(Seq(V)) /\ Len(D) = H /\ DOMAIN D = 1..H
    <2>1. D = [n \in 1..H |-> D[n]]
      BY <1>3
    <2>2. D \in Seq(Seq(V))
      <3>1. \A n \in 1..H : D[n] \in Seq(V)
        BY <1>6
      <3> QED
        BY <1>1, <2>1, <3>1, IsASeq
    <2> QED
      BY <1>1, <2>1, <2>2
  <1>8. PICK upto : upto = Joins(D, <<>>)
    OBVIOUS
  <1>9. upto[0] = <<>> /\ \A n \in 1..H : upto[n] = upto[n - 1] \o D[n]
    BY <1>7, <1>8, BuiltFacts DEF BuiltUp
  <1> DEFINE Shown(n) == IF 2*n <= L THEN 2*n ELSE L
             T == {n \in 0..H : upto[n] = SubSeq(A, 1, Shown(n))}
  <1>10. 0 \in T
    <2>1. 0 \in 0..H /\ Shown(0) = 0
      BY <1>1
    <2>2. SubSeq(A, 1, 0) = <<>>
      OBVIOUS
    <2> QED
      BY <1>9, <2>1, <2>2
  <1>11. ASSUME NEW n \in 0..(H - 1), n \in T
         PROVE  n + 1 \in T
    <2>1. n + 1 \in 1..H /\ n + 1 \in 0..H /\ (n + 1) - 1 = n /\ n \in Nat /\ 2*n + 1 <= L
      BY <1>1
    <2>2. upto[n] = SubSeq(A, 1, 2*n)
      BY <1>1, <1>11, <2>1
    <2>3. upto[n + 1] = upto[n] \o D[n + 1]
      BY <1>9, <2>1
    <2>4. PICK x \in V : x = A[2*n + 1]
      BY <1>1, <2>1
    <2>5. PICK s \in Seq(V) : s = SubSeq(A, 1, 2*n)
      <3>1. SubSeq(A, 1, 2*n) \in Seq(V)
        BY <1>1, <2>1 DEF L
      <3> QED
        BY <3>1
    <2>6. SubSeq(A, 1, 2*n + 1) = s \o <<x>>
      <3>1. 2*n \in 0..(Len(A) - 1)
        BY <1>1, <2>1 DEF L
      <3> QED
        BY <2>4, <2>5, <3>1, AppendedPart
    <2>7. 2*(n + 1) - 1 = 2*n + 1 /\ 2*(n + 1) = 2*n + 2
      BY <2>1
    <2>8. CASE 2*n + 2 <= L
      <3>1. PICK y \in V : y = A[2*n + 2]
        BY <1>1, <2>1, <2>8
      <3>2. D[n + 1] = <<x, y>>
        BY <1>5, <2>1, <2>4, <2>7, <2>8, <3>1
      <3>3. SubSeq(A, 1, (2*n + 1) + 1) = SubSeq(A, 1, 2*n + 1) \o <<A[(2*n + 1) + 1]>>
        <4>1. 2*n + 1 \in 0..(Len(A) - 1)
          BY <1>1, <2>1, <2>8 DEF L
        <4> QED
          BY <4>1, AppendedPart
      <3>4. (2*n + 1) + 1 = 2*n + 2
        BY <2>1
      <3>5. SubSeq(A, 1, 2*n + 2) = (s \o <<x>>) \o <<y>>
        BY <2>6, <3>1, <3>3, <3>4
      <3>6. (s \o <<x>>) \o <<y>> = s \o <<x, y>>
        <4>1. <<x>> \in Seq(V) /\ <<y>> \in Seq(V) /\ <<x>> \o <<y>> = <<x, y>>
          <5>1. <<x>> \in Seq(V) /\ <<y>> \in Seq(V)
            BY ONLY x \in V, y \in V
          <5>2. PICK u \in Seq(V), v \in Seq(V) : u = <<x>> /\ v = <<y>>
            BY <5>1
          <5>3. Len(u) = 1 /\ u[1] = x /\ Len(v) = 1 /\ v[1] = y
            BY ONLY <5>2
          <5>4. /\ u \o v \in Seq(V) /\ Len(u \o v) = Len(u) + Len(v)
                /\ \A i \in 1..(Len(u) + Len(v)) : (u \o v)[i] = IF i <= Len(u) THEN u[i] ELSE v[i - Len(u)]
            BY ONLY ConcatProperties, u \in Seq(V), v \in Seq(V)
          <5>5. PICK two : two = u \o v
            OBVIOUS
          <5>6. two \in Seq(V) /\ Len(two) = 2 /\ two[1] = x /\ two[2] = y
            BY ONLY <5>3, <5>4, <5>5
          <5>7. two = <<x, y>>
            BY ONLY <5>6
          <5> QED
            BY ONLY <5>1, <5>2, <5>5, <5>7
        <4>2. Regroup(s, <<x>>, <<y>>)
          BY <4>1, Regrouped
        <4> QED
          BY <4>1, <4>2 DEF Regroup
      <3>7. upto[n + 1] = SubSeq(A, 1, 2*n + 2)
        BY <2>2, <2>3, <2>5, <3>2, <3>5, <3>6
      <3>8. Shown(n + 1) = 2*n + 2
        BY <2>7, <2>8
      <3> QED
        BY <2>1, <3>7, <3>8
    <2>9. CASE ~(2*n + 2 <= L)
      <3>1. D[n + 1] = <<x>>
        BY <1>5, <2>1, <2>4, <2>7, <2>9
      <3>2. L = 2*n + 1
        BY <1>1, <2>1, <2>9
      <3>3. Shown(n + 1) = 2*n + 1
        BY <2>7, <2>9, <3>2
      <3> QED
        BY <2>1, <2>2, <2>3, <2>5, <2>6, <3>1, <3>3
    <2> QED
      BY <2>8, <2>9
  <1>12. H \in T
    <2> HIDE DEF T
    <2>1. \A n \in 0..H : n \in T
      BY <1>1, <1>10, <1>11, Induction
    <2> QED
      BY <1>1, <2>1
  <1>13. Shown(H) = L /\ SubSeq(A, 1, L) = A
    BY <1>1 DEF L
  <1>14. Built(D) = A
    BY <1>7, <1>8, <1>12, <1>13 DEF Built, Joined
  <1> QED
    BY <1>2, <1>6, <1>7, <1>14 DEF L

\* The attributes of a detail are the columns but the identity's.
LEMMA DetailShown ==
  ASSUME RenderInv
  PROVE  DetailKeepsAll
  <1> SUFFICES ASSUME rendered, job.kind = "columns", job.family \in Detailed
               PROVE  DetailKeepsAll
    BY DEF DetailKeepsAll, IsDone
  <1> DEFINE C == job.family.cells
             dropped == job.family.identity
  <1>1. PICK chosen \in Seq(C) : chosen = printed.selection.fields
    BY ColumnsSelected
  <1>2. PICK A \in Seq(C) : A = Dropping(chosen, dropped)
    BY DroppingTyped
  <1>3. PICK D : D = printed.detail
    OBVIOUS
  <1>4. D = renderDetail(A)
    BY <1>1, <1>2, <1>3, ColumnJobTyped DEF RenderOne
  <1>5. Built(D) = A /\ \A n \in DOMAIN D : Len(D[n]) = IF 2*n <= Len(A) THEN 2 ELSE 1
    BY <1>4, DetailBuilt
  <1>6. /\ ToSet(A) = ToSet(chosen) \ dropped
        /\ \A a, b \in DOMAIN A : a < b =>
             \E i, k \in DOMAIN chosen : i < k /\ chosen[i] = A[a] /\ chosen[k] = A[b]
    BY <1>2, DroppingKeeps
  <1> QED
    BY <1>1, <1>3, <1>5, <1>6 DEF DetailKeepsAll

\* Whatever --fields says: the columns asked for are shown, no more and no less.
THEOREM AskedIsShown == RenderSpec => []ShowsWhatWasAsked
  <1>1. RenderInv => ShowsWhatWasAsked
    <2> SUFFICES ASSUME RenderInv
                 PROVE  ShowsWhatWasAsked
      OBVIOUS
    <2>1. ColumnsAsAsked
      <3>1. CASE rendered /\ job.kind = "columns"
        BY <3>1, ColumnsSelected
      <3>2. CASE ~(rendered /\ job.kind = "columns")
        BY <3>2 DEF ColumnsAsAsked, IsDone
      <3> QED
        BY <3>1, <3>2
    <2> QED
      BY <2>1, DetailShown DEF ShowsWhatWasAsked
  <1> QED
    BY <1>1, RenderInvariant, PTL
=============================================================================
