---------------------------- MODULE LibraryBatch ----------------------------
(***************************************************************************)
(* `sptfy library tracks|albums check|add|remove`                          *)
(* (internal/cmd/librarycmd/library.go) over CheckSavedItems and           *)
(* mutateSavedItems (internal/client/client.go): a batch of references,    *)
(* validated and deduplicated as a whole, then sent in chunks while other  *)
(* Spotify clients change the library. A chunk's PUT or DELETE behaves as  *)
(* MutationCall says a mutating call does.                                 *)
(***************************************************************************)
EXTENDS Integers, SequencesExt

CONSTANTS
    Ids,        \* valid item ids
    Forms,      \* ways to write a reference: raw id, URI, URL
    Malformed,  \* stands for a reference spotifyref.Parse refuses
    ChunkSize,  \* items per request
    MaxArgs,    \* bound: references given
    MaxEdits    \* bound: changes by other clients

ASSUME MalformedAssumption == Malformed \notin Ids \cup Forms
ASSUME ChunkSizeAssumption == ChunkSize \in Nat \ {0}
ASSUME MaxArgsAssumption == MaxArgs \in Nat \ {0}
ASSUME MaxEditsAssumption == MaxEdits \in Nat

VARIABLES
    verb,       \* check, add or remove
    args,       \* the references as given
    parsed,     \* how many of them parseReferences has looked at
    references, \* those it keeps
    stage,      \* where the command is
    start,      \* the chunk loop's variable
    request,    \* the chunk's request, if it mutates
    answers,    \* what the checked chunks said
    report,     \* how the command ended
    saved,      \* the library
    edits,      \* changes by other clients (bounds the model)
    truths,     \* what could be truly said of an id since it all began (history)
    applied     \* ids whose mutation took effect, in order (history)

inputs == <<verb, args>>
service == <<saved, edits, truths, applied>>
batch == <<parsed, references>>
batchVars == <<inputs, batch, stage, start, request, answers, report, service>>

References == [id : Ids, form : Forms]
Arguments == References \cup [id : {Malformed}, form : {Malformed}]
IdsOf(refs) == [i \in DOMAIN refs |-> refs[i].id]

\* What GET /me/library/contains says of an id when the library holds these
Says(library, i) == i \in library

BatchTypeOK ==
    /\ verb \in {"check", "add", "remove"}
    /\ args \in Seq(Arguments)
    /\ parsed \in 0..Len(args)
    /\ references \in Seq(References)
    /\ stage \in {"parse", "chunk", "await", "output", "done"}
    /\ start \in 0..(Len(references) + ChunkSize - 1)
    /\ request \in {"unsent", "sent", "applied", "refused"}
    /\ answers \in Seq(BOOLEAN)
    /\ report \in [end : {"none", "usage", "failed", "rejected", "uncertain",
                          "checked", "changed", "outputFailed"}, count : Nat]
    /\ saved \subseteq Ids /\ edits \in 0..MaxEdits
    /\ truths \in [Ids -> SUBSET BOOLEAN]
    /\ applied \in Seq(Ids)

BatchInit ==
    /\ verb \in {"check", "add", "remove"}
    /\ args \in UNION {[1..n -> Arguments] : n \in 1..MaxArgs}
    /\ parsed = 0 /\ references = <<>>
    /\ stage = "parse"
    /\ start = 0
    /\ request = "unsent"
    /\ answers = <<>>
    /\ report = [end |-> "none", count |-> 0]
    /\ saved \in SUBSET Ids
    /\ edits = 0
    /\ truths = [i \in Ids |-> {Says(saved, i)}]
    /\ applied = <<>>

------------------------------------------------------------------------------
(* The command *)

EndBatch(how) ==
    /\ stage' = "done"
    /\ report' = [end |-> how, count |-> 0]

\* Mutant: a later reference to an id takes the place of an earlier one.
KeepLast(kept, a) == Append(SelectSeq(kept, LAMBDA b : b.id # a.id), a)

\* Only the first reference to an id is kept.
KeepFirst(kept, a) ==
    IF a.id \in ToSet(IdsOf(kept)) THEN kept ELSE Append(kept, a)

\* The loop of parseReferences: one bad reference and nothing is sent.
ParseNext ==
    /\ stage = "parse" /\ parsed < Len(args)
    /\ LET a == args[parsed + 1]
       IN  IF a.id = Malformed
             THEN EndBatch("usage") /\ references' = <<>> /\ UNCHANGED parsed
             ELSE /\ references' = KeepFirst(references, a)
                  /\ parsed' = parsed + 1
                  /\ UNCHANGED <<stage, report>>
    /\ UNCHANGED <<inputs, start, request, answers, service>>

\* The session is opened and its scopes are checked, or not.
BatchOpens ==
    /\ stage = "parse" /\ parsed = Len(args)
    /\ (stage' = "chunk" /\ UNCHANGED report) \/ EndBatch("failed")
    /\ UNCHANGED <<inputs, batch, start, request, answers, service>>

Chunk ==
    SubSeq(IdsOf(references), start + 1,
           IF start + ChunkSize < Len(references) THEN start + ChunkSize
                                                  ELSE Len(references))

NextStart == start + ChunkSize

\* GET /me/library/contains
CheckChunk ==
    /\ stage = "chunk" /\ verb = "check" /\ start < Len(references)
    /\ answers' = answers \o [i \in DOMAIN Chunk |-> Says(saved, Chunk[i])]
    /\ start' = NextStart
    /\ UNCHANGED <<inputs, batch, stage, request, report, service>>

\* The request fails or its response is invalid: in length, for instance.
CheckFails ==
    /\ stage = "chunk" /\ verb = "check" /\ start < Len(references)
    /\ EndBatch("failed")
    /\ UNCHANGED <<inputs, batch, start, request, answers, service>>

SendChunk ==
    /\ stage = "chunk" /\ verb # "check" /\ start < Len(references)
    /\ request' = "sent"
    /\ stage' = "await"
    /\ UNCHANGED <<inputs, batch, start, answers, report, service>>

\* The request cannot be built or Do fails before it is on the wire.
ChunkNotSent ==
    /\ stage = "chunk" /\ verb # "check" /\ start < Len(references)
    /\ EndBatch("rejected") \/ EndBatch("uncertain")
    /\ request' = "unsent"
    /\ UNCHANGED <<inputs, batch, start, answers, service>>

ChunkConfirmed ==
    /\ stage = "await" /\ request = "applied"
    /\ start' = NextStart
    /\ request' = "unsent"
    /\ stage' = "chunk"
    /\ UNCHANGED <<inputs, batch, answers, report, service>>

\* Mutant: the loop goes on after a chunk that may not have been applied.
IgnoreUncertain ==
    /\ stage = "await"
    /\ start' = NextStart
    /\ request' = "unsent"
    /\ stage' = "chunk"
    /\ UNCHANGED <<inputs, batch, answers, report, service>>

ChunkUncertain ==
    /\ stage = "await"
    /\ EndBatch("uncertain")
    /\ UNCHANGED <<inputs, batch, start, request, answers, service>>

ChunkRejected ==
    /\ stage = "await" /\ request = "refused"
    /\ EndBatch("rejected")
    /\ UNCHANGED <<inputs, batch, start, request, answers, service>>

\* The loop is over: what the command prints, if it can.
Finish ==
    /\ stage = "chunk" /\ start >= Len(references)
    /\ stage' = "done"
    /\ \E end \in {IF verb = "check" THEN "checked" ELSE "changed", "outputFailed"} :
         report' = [end |-> end, count |-> Len(references)]
    /\ UNCHANGED <<inputs, batch, start, request, answers, service>>

------------------------------------------------------------------------------
(* The service *)

LibraryBecomes(ids) ==
    /\ saved' = ids
    /\ truths' = [i \in Ids |-> truths[i] \cup {Says(ids, i)}]

ServiceApplies ==
    /\ request = "sent"
    /\ request' = "applied"
    /\ LibraryBecomes(IF verb = "add" THEN saved \cup ToSet(Chunk)
                                      ELSE saved \ ToSet(Chunk))
    /\ applied' = applied \o Chunk
    /\ UNCHANGED <<inputs, batch, stage, start, answers, report, edits>>

ServiceRefuses ==
    /\ request = "sent"
    /\ request' = "refused"
    /\ UNCHANGED <<inputs, batch, stage, start, answers, report, service>>

\* Another client saves or removes an item.
OthersEdit ==
    /\ edits < MaxEdits /\ stage # "done"
    /\ edits' = edits + 1
    /\ \E i \in Ids : LibraryBecomes((saved \ {i}) \cup ({i} \ saved))
    /\ UNCHANGED <<inputs, batch, stage, start, request, answers, report,
                   applied>>

BatchOver == stage = "done" /\ UNCHANGED batchVars

------------------------------------------------------------------------------

\* The steps the command goes on with when nothing fails on its side
BatchProgress ==
    \/ ParseNext \/ BatchOpens \/ CheckChunk \/ SendChunk \/ ChunkConfirmed
    \/ ChunkRejected \/ ChunkUncertain \/ Finish

BatchNext ==
    \/ BatchProgress \/ CheckFails \/ ChunkNotSent
    \/ ServiceApplies \/ ServiceRefuses \/ OthersEdit \/ BatchOver

BatchSpec == BatchInit /\ [][BatchNext]_batchVars

------------------------------------------------------------------------------
(* Properties *)

\* The rows of a check: one for each different id, under the first reference that
\* named it, and each with an answer that was true at some time since the command
\* began, although the chunks were asked at different times.
RowsAlign ==
    report.end = "checked" =>
        LET firsts == {i \in DOMAIN args :
                         \A k \in 1..(i - 1) : args[k].id # args[i].id}
        IN  /\ Len(references) = Cardinality(firsts)
            /\ \A i \in firsts :
                 references[Cardinality(firsts \cap 1..i)] = args[i]
            /\ Len(answers) = Len(references)
            /\ \A r \in DOMAIN references : answers[r] \in truths[references[r].id]

\* What took effect is always a prefix of the batch, every item once: all of it when
\* the command reports success, at most up to the end of the chunk in doubt when
\* it reports an uncertain outcome, and exactly the chunks before it when it
\* reports a rejection, however late the service handles a request.
PrefixApplied ==
    /\ IsPrefix(applied, IdsOf(references))
    /\ verb # "check" /\ report.end \in {"changed", "outputFailed"} =>
         /\ ToSet(applied) = ToSet(IdsOf(args))
         /\ report.count = Cardinality(ToSet(applied))
    /\ report.end = "rejected" => Len(applied) = start
    /\ report.end = "uncertain" => Len(applied) \in start..(start + ChunkSize)
=============================================================================
