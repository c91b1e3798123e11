---------------------------- MODULE PlaylistUpdate ----------------------------
(***************************************************************************)
(* `sptfy playlists items update`: updatePlaylistItem and the command      *)
(* around it (internal/cmd/playlistcmd/playlist.go), once its arguments    *)
(* are parsed and its session is open. The service cannot replace an item, *)
(* so the command adds the new track, verifies what became of the list and *)
(* removes the old one. Each of the two requests behaves as MutationCall   *)
(* says a mutating call does.                                              *)
(***************************************************************************)
EXTENDS PlaylistRead

VARIABLES
    position,    \* the zero-based position asked for
    newTrack,    \* the replacement asked for
    pc,          \* where updatePlaylistItem is
    original,    \* the items read before anything is changed
    addRequest,  \* the POST: unsent, sent, applied or refused by the service
    added,       \* the version it created, 0 before it is applied
    request,     \* the DELETE, likewise
    created,     \* the version it created, 0 before it is applied
    removed,     \* the entries it took out of the list (history)
    report       \* how the command ended

commandVars == <<position, newTrack, pc, original, report>>
addVars == <<addRequest, added>>
deleteVars == <<request, created, removed>>
vars == <<versions, edits, readVars, commandVars, addVars, deleteVars>>

Reports == {"none", "usage", "changed", "failed", "rejected", "reconcileAdd",
            "reconcileVerify", "reconcileRemove", "partial", "updated",
            "outputFailed"}
Stages == {"unsent", "sent", "applied", "refused"}

Target == original[position + 1]
Expected == InsertedAt(original, position, <<newTrack>>)

TypeOK ==
    /\ PlaylistTypeOK
    /\ ReadTypeOK
    /\ position \in Nat /\ newTrack \in Tracks
    /\ pc \in {"get", "read", "recheck", "add", "awaitAdd", "applied", "verify",
               "stable", "delete", "awaitDelete", "output", "done"}
    /\ original \in Seq(Items)
    /\ addRequest \in Stages /\ added \in 0..Latest
    /\ request \in Stages /\ created \in 0..Latest
    /\ removed \subseteq Entries
    /\ report \in Reports

Init ==
    /\ PlaylistInit
    /\ ReadInit
    /\ position \in 0..MaxInitial /\ newTrack \in Tracks
    /\ pc = "get"
    /\ original = <<>>
    /\ addRequest = "unsent" /\ added = 0
    /\ request = "unsent" /\ created = 0 /\ removed = {}
    /\ report = "none"

------------------------------------------------------------------------------
(* The command: checks before the add *)

End(how) ==
    /\ pc' = "done"
    /\ report' = how
    /\ UNCHANGED <<position, newTrack, original>>

Goto(where) ==
    /\ pc' = where
    /\ UNCHANGED <<position, newTrack, original, report>>

GetBefore ==
    /\ pc = "get"
    /\ ReadHeader
    /\ IF position >= Len(Current) THEN End("usage") ELSE Goto("read")
    /\ UNCHANGED <<versions, edits, addVars, deleteVars>>

ReadItems ==
    /\ pc \in {"read", "verify"}
    /\ ReadPage
    /\ UNCHANGED <<versions, edits, commandVars, addVars, deleteVars>>

PageMismatches ==
    /\ pc \in {"read", "verify"} /\ PageMismatch
    /\ End(IF pc = "read" THEN "failed" ELSE "reconcileVerify")
    /\ UNCHANGED <<versions, edits, readVars, addVars, deleteVars>>

ReadFails ==
    /\ pc \in {"get", "read", "recheck"}
    /\ End("failed")
    /\ UNCHANGED <<versions, edits, readVars, addVars, deleteVars>>

\* Mutant: the replacement may already be in the list.
ReplaceableAnyway(items, at, replacement) ==
    /\ items[at + 1] \in Tracks \ {replacement}
    /\ Occurrences(items, items[at + 1]) = {at + 1}

\* A list an update accepts, for a zero-based position and a replacement
Replaceable(items, at, replacement) ==
    /\ items[at + 1] \in Tracks \ {replacement}
    /\ Occurrences(items, items[at + 1]) = {at + 1}
    /\ Occurrences(items, replacement) = {}

CheckTarget ==
    /\ pc = "read" /\ ReadComplete
    /\ original' = seen
    /\ IF Replaceable(seen, position, newTrack)
         THEN pc' = "recheck" /\ UNCHANGED report
         ELSE pc' = "done" /\ report' = "usage"
    /\ UNCHANGED <<versions, edits, readVars, position, newTrack, addVars,
                   deleteVars>>

Recheck ==
    /\ pc = "recheck"
    /\ IF HeaderUnchanged THEN Goto("add") ELSE End("changed")
    /\ UNCHANGED <<versions, edits, readVars, addVars, deleteVars>>

------------------------------------------------------------------------------
(* The command: the add and its verification *)

SendAdd ==
    /\ pc = "add"
    /\ addRequest' = "sent"
    /\ Goto("awaitAdd")
    /\ UNCHANGED <<versions, edits, readVars, added, deleteVars>>

AddNotSent ==
    /\ pc = "add"
    /\ End("rejected") \/ End("reconcileAdd")
    /\ UNCHANGED <<versions, edits, readVars, addVars, deleteVars>>

AddConfirmed ==
    /\ pc = "awaitAdd" /\ addRequest = "applied"
    /\ Goto("applied")
    /\ UNCHANGED <<versions, edits, readVars, addVars, deleteVars>>

AddRejected ==
    /\ pc = "awaitAdd" /\ addRequest = "refused"
    /\ End("rejected")
    /\ UNCHANGED <<versions, edits, readVars, addVars, deleteVars>>

\* Mutant: an uncertain add is reported as a rejected one.
AddUncertainAsRejected ==
    /\ pc = "awaitAdd"
    /\ End("rejected")
    /\ UNCHANGED <<versions, edits, readVars, addVars, deleteVars>>

AddUncertain ==
    /\ pc = "awaitAdd"
    /\ End("reconcileAdd")
    /\ UNCHANGED <<versions, edits, readVars, addVars, deleteVars>>

\* A GetPlaylist after the add finds its snapshot and one item more than before.
AddStands == Latest = added /\ Len(Current) = Len(original) + 1

GetApplied ==
    /\ pc = "applied"
    /\ IF AddStands THEN ReadHeader /\ Goto("verify")
                    ELSE End("reconcileVerify") /\ UNCHANGED readVars
    /\ UNCHANGED <<versions, edits, addVars, deleteVars>>

\* Mutant: the items read back are only counted.
CountItems ==
    /\ pc = "verify" /\ ReadComplete
    /\ IF Len(seen) = Len(Expected) THEN Goto("stable") ELSE End("reconcileVerify")
    /\ UNCHANGED <<versions, edits, readVars, addVars, deleteVars>>

CompareItems ==
    /\ pc = "verify" /\ ReadComplete
    /\ IF seen = Expected THEN Goto("stable") ELSE End("reconcileVerify")
    /\ UNCHANGED <<versions, edits, readVars, addVars, deleteVars>>

GetStable ==
    /\ pc = "stable"
    /\ IF AddStands THEN Goto("delete") ELSE End("reconcileVerify")
    /\ UNCHANGED <<versions, edits, readVars, addVars, deleteVars>>

VerifyReadFails ==
    /\ pc \in {"applied", "verify", "stable"}
    /\ End("reconcileVerify")
    /\ UNCHANGED <<versions, edits, readVars, addVars, deleteVars>>

------------------------------------------------------------------------------
(* The command: the removal of the old track *)

SendDelete ==
    /\ pc = "delete"
    /\ request' = "sent"
    /\ Goto("awaitDelete")
    /\ UNCHANGED <<versions, edits, readVars, addVars, created, removed>>

DeleteNotSent ==
    /\ pc = "delete"
    /\ End("partial") \/ End("reconcileRemove")
    /\ UNCHANGED <<versions, edits, readVars, addVars, deleteVars>>

DeleteConfirmed ==
    /\ pc = "awaitDelete" /\ request = "applied"
    /\ Goto("output")
    /\ UNCHANGED <<versions, edits, readVars, addVars, deleteVars>>

DeleteRejected ==
    /\ pc = "awaitDelete" /\ request = "refused"
    /\ End("partial")
    /\ UNCHANGED <<versions, edits, readVars, addVars, deleteVars>>

DeleteUncertain ==
    /\ pc = "awaitDelete"
    /\ End("reconcileRemove")
    /\ UNCHANGED <<versions, edits, readVars, addVars, deleteVars>>

WriteOutput ==
    /\ pc = "output"
    /\ End("updated") \/ End("outputFailed")
    /\ UNCHANGED <<versions, edits, readVars, addVars, deleteVars>>

------------------------------------------------------------------------------
(* The service: a request sent may be handled after the command gave up *)

\* A position beyond the end, once others have shortened the list, may be
\* refused or taken for the end.
ServiceAdds ==
    /\ addRequest = "sent"
    /\ addRequest' = "applied"
    /\ Commit(AfterAdding(<<newTrack>>,
                          IF position < Len(Current) THEN position
                                                     ELSE Len(Current)))
    /\ added' = Latest + 1
    /\ UNCHANGED <<edits, readVars, commandVars, deleteVars>>

ServiceRefusesAdd ==
    /\ addRequest = "sent"
    /\ addRequest' = "refused"
    /\ UNCHANGED <<versions, edits, readVars, commandVars, added, deleteVars>>

\* The position the DELETE names, in the list the add has made
DeletePosition == position + 1

\* Mutant: the DELETE names the track alone, as that of a removal does.
DoomedEverywhere == {e \in ToSet(Current) : e.item = Target}

\* RemovePlaylistItemAtPosition under the snapshot id of the add
Doomed == DoomedAtPosition(Target, DeletePosition, added)

ServiceDeletes ==
    /\ request = "sent"
    /\ request' = "applied"
    /\ removed' = Doomed
    /\ Commit(Without(Current, removed'))
    /\ created' = Latest + 1
    /\ UNCHANGED <<edits, readVars, commandVars, addVars>>

ServiceRefusesDelete ==
    /\ request = "sent"
    /\ request' = "refused"
    /\ UNCHANGED <<versions, edits, readVars, commandVars, addVars, created,
                   removed>>

\* Bound: as in PlaylistRemove.
Collaborator ==
    /\ pc # "get" /\ (pc = "done" => "sent" \in {addRequest, request})
    /\ CollaboratorEdits
    /\ UNCHANGED <<readVars, commandVars, addVars, deleteVars>>

Finished == pc = "done" /\ UNCHANGED vars

------------------------------------------------------------------------------

\* The steps the command goes on with when nothing fails on its side
Progress ==
    \/ GetBefore \/ ReadItems \/ PageMismatches \/ CheckTarget \/ Recheck
    \/ SendAdd \/ AddConfirmed \/ AddRejected \/ AddUncertain
    \/ GetApplied \/ CompareItems \/ GetStable
    \/ SendDelete \/ DeleteConfirmed \/ DeleteRejected \/ DeleteUncertain
    \/ WriteOutput

Command ==
    Progress \/ ReadFails \/ AddNotSent \/ VerifyReadFails \/ DeleteNotSent

Service ==
    \/ ServiceAdds \/ ServiceRefusesAdd
    \/ ServiceDeletes \/ ServiceRefusesDelete

Next == Command \/ Service \/ Collaborator \/ Finished

Spec == Init /\ [][Next]_vars

------------------------------------------------------------------------------
(* Properties *)

\* The DELETE is only sent when the version its snapshot id stands for is, item
\* for item, the list read before the add with nothing but the replacement
\* inserted at the position asked for, and the track to remove was there once.
GuardedReplacement ==
    request # "unsent" =>
        /\ Target \in Tracks \ {newTrack}
        /\ Occurrences(original, Target) = {position + 1}
        /\ ItemsOf(versions[added]) = Expected

\* Whatever collaborators do around it, the command takes out at most the one
\* occurrence next to the replacement it has just added, and never before the
\* replacement is in the list.
RemovesOnlyReplaced ==
    removed # {} =>
        /\ added # 0 /\ position + 2 \in DOMAIN versions[added]
        /\ removed = {versions[added][position + 2]}
        /\ versions[added][position + 1].item = newTrack

\* What the user is told agrees with what happened, now and later.
HonestReport ==
    /\ report \in {"updated", "outputFailed"}
         => addRequest = "applied" /\ request = "applied"
    /\ report = "partial"
         => addRequest = "applied" /\ request \in {"unsent", "refused"}
    /\ report = "reconcileVerify"
         => addRequest = "applied" /\ request = "unsent"
    /\ report = "reconcileAdd" => request = "unsent"
    /\ report = "reconcileRemove" => addRequest = "applied"
    /\ report \in {"usage", "changed", "failed", "rejected"}
         => addRequest \in {"unsent", "refused"} /\ request = "unsent"

\* Undisturbed, an update replaces the item in its place and leaves the rest of
\* the list and its order alone. It can be undone the same way: an update of that
\* position back to the old track accepts the list, and what it replaces is then
\* the list as it was. The second half is why the replacement must be new.
ReplacesInPlace ==
    report = "updated" /\ added = Latest - 1 =>
        LET items == ItemsOf(Current)
        IN  /\ items = ReplaceAt(original, position + 1, newTrack)
            /\ Replaceable(items, position, Target)
            /\ ReplaceAt(items, position + 1, Target) = original
=============================================================================
