---------------------------- MODULE PlaylistRemove ----------------------------
(***************************************************************************)
(* `sptfy playlists items remove`: removePlaylistItem and the command      *)
(* around it (internal/cmd/playlistcmd/playlist.go), once its arguments    *)
(* are parsed and its session is open. The DELETE it sends behaves as      *)
(* MutationCall says a mutating call does.                                 *)
(***************************************************************************)
EXTENDS PlaylistRead

VARIABLES
    position,  \* the zero-based position asked for
    pc,        \* where removePlaylistItem is
    request,   \* the DELETE: unsent, sent, applied or refused by the service
    created,   \* the version the DELETE created, 0 before it is applied
    removed,   \* the entries it took out of the list (history)
    report,    \* how the command ended
    record     \* the success record, on stdout or in the error on stderr

commandVars == <<position, pc, report, record>>
deleteVars == <<request, created, removed>>
vars == <<versions, edits, readVars, commandVars, deleteVars>>

NoRecord == [position |-> 0, track |-> "none", snapshot |-> 0]
Reports == {"none", "usage", "changed", "failed", "rejected", "uncertain",
            "removed", "outputFailed"}

Target == seen[position + 1]

TypeOK ==
    /\ PlaylistTypeOK
    /\ ReadTypeOK
    /\ position \in Nat
    /\ pc \in {"get", "read", "recheck", "delete", "await", "output", "done"}
    /\ request \in {"unsent", "sent", "applied", "refused"}
    /\ created \in 0..Latest
    /\ removed \subseteq Entries
    /\ report \in Reports
    /\ record \in {NoRecord}
                    \cup [position : Nat, track : Tracks, snapshot : Nat]

Init ==
    /\ PlaylistInit
    /\ ReadInit
    /\ position \in 0..MaxInitial
    /\ pc = "get"
    /\ request = "unsent"
    /\ created = 0
    /\ removed = {}
    /\ report = "none"
    /\ record = NoRecord

------------------------------------------------------------------------------
(* The command *)

End(how) ==
    /\ pc' = "done"
    /\ report' = how
    /\ UNCHANGED <<position, record>>

Goto(where) ==
    /\ pc' = where
    /\ UNCHANGED <<position, report, record>>

GetBefore ==
    /\ pc = "get"
    /\ ReadHeader
    /\ IF position >= Len(Current) THEN End("usage") ELSE Goto("read")
    /\ UNCHANGED <<versions, edits, deleteVars>>

ReadItems ==
    /\ pc = "read"
    /\ ReadPage
    /\ UNCHANGED <<versions, edits, commandVars, deleteVars>>

PageMismatches ==
    /\ pc = "read" /\ PageMismatch
    /\ End("failed")
    /\ UNCHANGED <<versions, edits, readVars, deleteVars>>

\* A read fails or its response is invalid.
ReadFails ==
    /\ pc \in {"get", "read", "recheck"}
    /\ End("failed")
    /\ UNCHANGED <<versions, edits, readVars, deleteVars>>

\* Mutant: a repeated track may be removed.
RemovableRepeated == Target \in Tracks

Removable ==
    /\ Target \in Tracks
    /\ Occurrences(seen, Target) = {position + 1}

CheckTarget ==
    /\ pc = "read" /\ ReadComplete
    /\ IF Removable THEN Goto("recheck") ELSE End("usage")
    /\ UNCHANGED <<versions, edits, readVars, deleteVars>>

Recheck ==
    /\ pc = "recheck"
    /\ IF HeaderUnchanged THEN Goto("delete") ELSE End("changed")
    /\ UNCHANGED <<versions, edits, readVars, deleteVars>>

SendDelete ==
    /\ pc = "delete"
    /\ request' = "sent"
    /\ Goto("await")
    /\ UNCHANGED <<versions, edits, readVars, created, removed>>

\* RemovePlaylistItemsByURI fails without a request: doJSON calls it rejected
\* or, when Do failed before the send, uncertain.
DeleteNotSent ==
    /\ pc = "delete"
    /\ End("rejected") \/ End("uncertain")
    /\ UNCHANGED <<versions, edits, readVars, deleteVars>>

\* Mutant: the record names the snapshot the items were read from.
ConfirmedByOldSnapshot ==
    /\ pc = "await" /\ request = "applied"
    /\ record' = [position |-> position, track |-> Target, snapshot |-> snapshot]
    /\ pc' = "output"
    /\ UNCHANGED <<versions, edits, readVars, deleteVars, position, report>>

DeleteConfirmed ==
    /\ pc = "await" /\ request = "applied"
    /\ record' = [position |-> position, track |-> Target, snapshot |-> created]
    /\ pc' = "output"
    /\ UNCHANGED <<versions, edits, readVars, deleteVars, position, report>>

DeleteRejected ==
    /\ pc = "await" /\ request = "refused"
    /\ End("rejected")
    /\ UNCHANGED <<versions, edits, readVars, deleteVars>>

\* Mutant: an uncertain outcome is reported as a plain failure.
UncertainAsFailed ==
    /\ pc = "await"
    /\ End("failed")
    /\ UNCHANGED <<versions, edits, readVars, deleteVars>>

DeleteUncertain ==
    /\ pc = "await"
    /\ End("uncertain")
    /\ UNCHANGED <<versions, edits, readVars, deleteVars>>

\* writeMutationOutput: stdout takes the record or the error carries it.
WriteOutput ==
    /\ pc = "output"
    /\ End("removed") \/ End("outputFailed")
    /\ UNCHANGED <<versions, edits, readVars, deleteVars>>

------------------------------------------------------------------------------
(* The service: a request sent may be handled after the command gave up *)

ServiceDeletes ==
    /\ request = "sent"
    /\ request' = "applied"
    /\ \E doomed \in DoomedByURI(Target, snapshot) :
         /\ removed' = doomed
         /\ Commit(Without(Current, doomed))
    /\ created' = Latest + 1
    /\ UNCHANGED <<edits, readVars, commandVars>>

ServiceRefuses ==
    /\ request = "sent"
    /\ request' = "refused"
    /\ UNCHANGED <<versions, edits, readVars, commandVars, created, removed>>

\* Bound: an edit before the first read only makes another initial list, and
\* one after the last step of command and service changes nothing said below.
Collaborator ==
    /\ pc # "get" /\ (pc = "done" => request = "sent")
    /\ CollaboratorEdits
    /\ UNCHANGED <<readVars, commandVars, deleteVars>>

Finished == pc = "done" /\ UNCHANGED vars

------------------------------------------------------------------------------

\* The steps the command goes on with when nothing fails on its side
Progress ==
    \/ GetBefore \/ ReadItems \/ PageMismatches \/ CheckTarget \/ Recheck
    \/ SendDelete
    \/ DeleteConfirmed \/ DeleteRejected \/ DeleteUncertain \/ WriteOutput

Command == Progress \/ ReadFails \/ DeleteNotSent

Service == ServiceDeletes \/ ServiceRefuses

Next == Command \/ Service \/ Collaborator \/ Finished

Spec == Init /\ [][Next]_vars

\* Fairness is for the command alone: it goes on while it can, and a request it
\* waits for ends, with an answer or without. Nobody has to edit the playlist,
\* no failure has to happen, and the service may never handle a request.
FairSpec == Spec /\ WF_vars(Progress)

------------------------------------------------------------------------------
(* Properties *)

\* The DELETE names every occurrence of a track, so it may only be sent on the
\* evidence of a state of the playlist, the one whose snapshot id it carries,
\* that held the track exactly once, where the user pointed. The pages may
\* have been read while collaborators were editing.
GuardedDelete ==
    request # "unsent" =>
        /\ Target \in Tracks
        /\ Occurrences(ItemsOf(versions[snapshot]), Target) = {position + 1}

\* Whatever collaborators do between the recheck and the deletion, of the
\* entries the command has seen it takes out none but the one asked for.
NoUncheckedLoss ==
    \A e \in removed : e \in ToSet(versions[snapshot])
        => e = versions[snapshot][position + 1]

\* What the user is told agrees with what happened, now and later: success
\* (and "applied but output failed") means the track was removed, any error
\* but "uncertain" means this command removes nothing, not even belatedly.
HonestReport ==
    /\ report \in {"removed", "outputFailed"} => request = "applied"
    /\ report \in {"usage", "changed", "failed", "rejected"}
         => request \in {"unsent", "refused"}
    /\ (record # NoRecord) <=> (pc = "output" \/
                                report \in {"removed", "outputFailed"})

\* Adding the recorded track at the recorded position undoes the removal, if
\* nobody else edited the playlist before it was applied.
RecordIsInverse ==
    record # NoRecord /\ created = snapshot + 1 =>
        InsertedAt(ItemsOf(versions[record.snapshot]), record.position,
                   <<record.track>>)
          = ItemsOf(versions[snapshot])

\* The command ends, as long as every request it makes does: no list and no edit
\* keeps it reading.
Terminates == <>(pc = "done")
=============================================================================
