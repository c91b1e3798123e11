------------------------------ MODULE PlaylistAdd ------------------------------
(***************************************************************************)
(* `sptfy playlists items add`: addPlaylistItems and the command around it *)
(* (internal/cmd/playlistcmd/playlist.go), once its arguments are parsed   *)
(* and its session is open. The tracks go out in batches, one POST after   *)
(* the other; each behaves as MutationCall says a mutating call does.      *)
(***************************************************************************)
EXTENDS Playlist

CONSTANTS
    BatchSize,   \* tracks that fit in one POST
    MaxTracks    \* bound: tracks named on the command line

ASSUME BatchSizeAssumption == BatchSize \in Nat \ {0}
ASSUME MaxTracksAssumption == MaxTracks \in Nat \ {0}

VARIABLES
    uris,       \* the tracks to add, in order, repetitions allowed
    position,   \* the zero-based position asked for, or AtEnd
    pc,         \* where addPlaylistItems is
    header,     \* the version GetPlaylist found, 0 before it
    startPosition,
    finalSnapshot, \* the snapshot id of the last batch confirmed, 0 for none
    completed,  \* tracks confirmed
    request,    \* the POST under way: unsent, sent, applied or refused
    created,    \* the version the last batch applied created, 0 for none
    landed,     \* tracks the service has added so far (history)
    report,     \* how the command ended
    record      \* the success record, on stdout or in the error on stderr

inputs == <<uris, position>>
progressVars == <<header, startPosition, finalSnapshot, completed>>
serviceVars == <<versions, created, landed>>
vars == <<versions, edits, inputs, pc, progressVars, request, created, landed,
          report, record>>

AtEnd == -1   \* no --position was given
NoRecord == [start |-> 0, count |-> 0, snapshot |-> 0]
Reports == {"none", "usage", "failed", "rejected", "uncertain", "partial",
            "added", "partialOutputFailed", "addedOutputFailed"}

TypeOK ==
    /\ PlaylistTypeOK
    /\ uris \in Seq(Tracks) /\ position \in Nat \cup {AtEnd}
    /\ pc \in {"get", "add", "await", "output", "done"}
    /\ header \in 0..Latest /\ startPosition \in Nat
    /\ finalSnapshot \in 0..Latest /\ completed \in 0..Len(uris)
    /\ request \in {"unsent", "sent", "applied", "refused"}
    /\ created \in 0..Latest /\ landed \in 0..Len(uris)
    /\ report \in Reports
    /\ record \in [start : Nat, count : Nat, snapshot : 0..Latest]

Init ==
    /\ PlaylistInit
    /\ \E n \in 1..MaxTracks : uris \in [1..n -> Tracks]
    /\ position \in {AtEnd} \cup 0..(MaxInitial + 1)
    /\ pc = "get"
    /\ header = 0 /\ startPosition = 0 /\ finalSnapshot = 0 /\ completed = 0
    /\ request = "unsent" /\ created = 0 /\ landed = 0
    /\ report = "none" /\ record = NoRecord

------------------------------------------------------------------------------
(* The command *)

End(how) == pc' = "done" /\ report' = how /\ UNCHANGED record

GetPlaylist ==
    /\ pc = "get"
    /\ header' = Latest
    /\ IF position > Len(Current)
         THEN End("usage") /\ UNCHANGED startPosition
         ELSE /\ startPosition' = IF position = AtEnd THEN Len(Current)
                                                        ELSE position
              /\ pc' = "add" /\ UNCHANGED <<report, record>>
    /\ UNCHANGED <<serviceVars, edits, inputs, finalSnapshot, completed, request>>

GetFails ==
    /\ pc = "get"
    /\ End("failed")
    /\ UNCHANGED <<serviceVars, edits, inputs, progressVars, request>>

BatchEnd ==
    IF completed + BatchSize < Len(uris) THEN completed + BatchSize ELSE Len(uris)
Batch == SubSeq(uris, completed + 1, BatchEnd)

SendBatch ==
    /\ pc = "add"
    /\ request' = "sent"
    /\ pc' = "await"
    /\ UNCHANGED <<serviceVars, edits, inputs, progressVars, report, record>>

RecordOf(count) ==
    [start |-> startPosition, count |-> count, snapshot |-> finalSnapshot']

\* A definite failure: what was confirmed before it is reported all the same.
StopRejected ==
    /\ IF completed = 0
         THEN End("rejected")
         ELSE /\ pc' = "output"
              /\ record' = RecordOf(completed)
              /\ report' = "partial"

\* An uncertain one: no record, not even of the batches confirmed before it.
StopUncertain == End("uncertain")

\* The call fails before anything is sent.
BatchNotSent ==
    /\ pc = "add"
    /\ UNCHANGED finalSnapshot
    /\ StopRejected \/ StopUncertain
    /\ UNCHANGED <<serviceVars, edits, inputs, header, startPosition, completed,
                   request>>

BatchConfirmed ==
    /\ pc = "await" /\ request = "applied"
    /\ finalSnapshot' = created
    /\ completed' = BatchEnd
    /\ request' = "unsent"
    /\ IF BatchEnd < Len(uris)
         THEN pc' = "add" /\ UNCHANGED <<report, record>>
         ELSE /\ pc' = "output"
              /\ record' = RecordOf(Len(uris))
              /\ report' = "added"
    /\ UNCHANGED <<serviceVars, edits, inputs, header, startPosition>>

BatchRejected ==
    /\ pc = "await" /\ request = "refused"
    /\ UNCHANGED finalSnapshot
    /\ StopRejected
    /\ UNCHANGED <<serviceVars, edits, inputs, header, startPosition, completed,
                   request>>

\* Mutants: an uncertain batch ends the command like a rejected one; it is
\* skipped and the next one sent.
UncertainAsRejected ==
    /\ pc = "await"
    /\ UNCHANGED finalSnapshot
    /\ StopRejected
    /\ UNCHANGED <<serviceVars, edits, inputs, header, startPosition, completed,
                   request>>
UncertainSkipped ==
    /\ pc = "await"
    /\ completed' = BatchEnd
    /\ pc' = IF BatchEnd < Len(uris) THEN "add" ELSE "done"
    /\ UNCHANGED <<serviceVars, edits, inputs, header, startPosition,
                   finalSnapshot, request, report, record>>

BatchUncertain ==
    /\ pc = "await"
    /\ StopUncertain
    /\ UNCHANGED <<serviceVars, edits, inputs, progressVars, request>>

\* writeMutationOutput: stdout takes the record, or the error carries it along
\* with the failure that stopped the command early.
WriteOutput ==
    /\ pc = "output"
    /\ pc' = "done"
    /\ report' \in IF report = "partial" THEN {"partial", "partialOutputFailed"}
                                         ELSE {"added", "addedOutputFailed"}
    /\ UNCHANGED <<serviceVars, edits, inputs, progressVars, request, record>>

------------------------------------------------------------------------------
(* The service: a request sent may be handled after the command gave up *)

\* Mutant: every batch of a positioned add goes to the position asked for.
SamePosition ==
    IF position = AtEnd \/ position > Len(Current) THEN Len(Current) ELSE position

\* Where a batch goes: later batches of a positioned add follow the earlier
\* ones. A position beyond the end may be refused or taken for the end.
BatchPosition ==
    IF position = AtEnd \/ position + completed > Len(Current)
      THEN Len(Current) ELSE position + completed

ServiceAdds ==
    /\ request = "sent"
    /\ request' = "applied"
    /\ Commit(AfterAdding(Batch, BatchPosition))
    /\ created' = Latest + 1
    /\ landed' = landed + Len(Batch)
    /\ UNCHANGED <<edits, inputs, pc, progressVars, report, record>>

ServiceRefuses ==
    /\ request = "sent"
    /\ request' = "refused"
    /\ UNCHANGED <<serviceVars, edits, inputs, pc, progressVars, report, record>>

\* Bound: as in PlaylistRemove.
Collaborator ==
    /\ pc # "get" /\ (pc = "done" => request = "sent")
    /\ CollaboratorEdits
    /\ UNCHANGED <<inputs, pc, progressVars, request, created, landed, report,
                   record>>

Finished == pc = "done" /\ UNCHANGED vars

------------------------------------------------------------------------------

Progress ==
    \/ GetPlaylist \/ SendBatch
    \/ BatchConfirmed \/ BatchRejected \/ BatchUncertain \/ WriteOutput

Command == Progress \/ GetFails \/ BatchNotSent

Service == ServiceAdds \/ ServiceRefuses

Next == Command \/ Service \/ Collaborator \/ Finished

Spec == Init /\ [][Next]_vars

------------------------------------------------------------------------------
(* Properties *)

\* What the user is told agrees with what happened, now and later: the record
\* counts exactly the tracks added, an error without a record means none was,
\* and an uncertain end is off by at most the batch it names.
HonestReport ==
    /\ record # NoRecord => landed = record.count /\ request # "sent"
    /\ report \in {"usage", "failed", "rejected"}
         => landed = 0 /\ request # "sent"
    /\ report = "uncertain" => completed <= landed /\ landed <= BatchEnd

\* No batch is sent before all those before it are known to have landed, so
\* that what is added is always a prefix of what was asked for.
BatchesInTurn ==
    request = "sent" => landed = completed /\ completed < Len(uris)

\* If nobody else edited the playlist meanwhile, the tracks the record counts
\* stand at the position it gives, in the order of the command line, in the
\* snapshot it names: the record is what an inverse operation needs.
RecordLocates ==
    record # NoRecord /\ record.snapshot - header = (record.count - 1) \div BatchSize + 1 =>
        ItemsOf(versions[record.snapshot]) =
          InsertedAt(ItemsOf(versions[header]), record.start,
                     SubSeq(uris, 1, record.count))
=============================================================================
