------------------------ MODULE PlaylistRemoveProofs ------------------------
(***************************************************************************)
(* A removal is guarded and honestly reported, for lists, pages and        *)
(* numbers of edits without bound. The argument: versions are only ever    *)
(* appended, so while the first snapshot is the latest one, the items read *)
(* are a prefix of that version's; a recheck that finds it unchanged after *)
(* the last page makes them all of them, and later edits do not touch the  *)
(* version any more.                                                       *)
(***************************************************************************)
EXTENDS PlaylistRemove, PlaylistReadProofs

\* The versions form a sequence of lists of entries.
Versions ==
    /\ versions \in Seq(Lists)
    /\ Latest > 0
    /\ versions \in Seq(Seq(Entries))

\* How pc, request, report and record go together
Control ==
    /\ pc \in {"get", "read", "recheck", "delete", "await", "output", "done"}
    /\ pc \in {"get", "read", "recheck", "delete"} => request = "unsent"
    /\ pc = "await" => request \in {"sent", "applied", "refused"}
    /\ pc = "output" => request = "applied"
    /\ request \in {"unsent", "sent", "applied", "refused"}
    /\ pc # "done" => report = "none"
    /\ request = "applied" => created # 0
    /\ HonestReport

\* The items read belong to the version of the first header, as long as that is
\* the latest one, and for good once the recheck has found it unchanged.
Reading ==
    /\ pc \notin {"get", "done"} \/ request # "unsent" => snapshot \in 1..Latest
    /\ pc \in {"read", "recheck"} /\ Latest = snapshot =>
         /\ total = Len(Current)
         /\ Len(seen) \in 0..total
         /\ seen = SubSeq(ItemsOf(Current), 1, Len(seen))
    /\ pc = "recheck" => Len(seen) = total
    /\ pc \in {"recheck", "delete"} \/ request # "unsent" => Removable
    /\ pc = "delete" \/ request # "unsent" => seen = ItemsOf(versions[snapshot])

\* Only the track asked for is ever removed.
Effect ==
    /\ request # "applied" => removed = {}
    /\ \A e \in removed : e.item = Target

\* What the DELETE made of the list checked, if nobody edited it in between, and
\* what the record says of it
Recorded ==
    /\ position \in Nat
    /\ request = "applied" => created \in 1..Latest
    /\ record # NoRecord =>
         /\ request = "applied"
         /\ record = [position |-> position, track |-> Target, snapshot |-> created]
    /\ request = "applied" /\ created = snapshot + 1 =>
         versions[created] = RemoveAt(versions[snapshot], position + 1)

IInv == Versions /\ Control /\ Reading /\ Effect /\ Recorded

------------------------------------------------------------------------------
(* The steps *)

\* Every initial list, position and playlist satisfy the invariant.
LEMMA InitIInv == Init => IInv
  <1> SUFFICES ASSUME Init PROVE IInv
    OBVIOUS
  <1> USE DEF Init
  <1>1. PICK n \in 0..MaxInitial : \E items \in [1..n -> Items] :
          versions = << [i \in 1..n |-> [item |-> items[i], birth |-> <<1, i>>]] >>
    BY DEF PlaylistInit
  <1>2. PICK items \in [1..n -> Items] :
          versions = << [i \in 1..n |-> [item |-> items[i], birth |-> <<1, i>>]] >>
    BY <1>1
  <1> DEFINE list == [i \in 1..n |-> [item |-> items[i], birth |-> <<1, i>>]]
  <1>3. n \in Nat /\ list \in [1..n -> Entries]
    BY MaxInitialAssumption DEF Entries
  <1>4. list \in Seq(Entries)
    BY <1>3, FunctionIsSequence
  <1> HIDE DEF list
  <1>5. versions = <<list>>
    BY <1>2 DEF list
  <1>6. Versions
    BY <1>4, <1>5 DEF Versions, Lists, Latest
  <1>7. Control
    BY DEF Control, HonestReport, NoRecord
  <1>8. Reading /\ Effect /\ Recorded
    BY MaxInitialAssumption DEF Reading, Effect, Recorded
  <1> QED
    BY <1>6, <1>7, <1>8 DEF IInv

\* Facts that every step needs: snapshot ids are numbers.
LEMMA LatestIsNat == ASSUME Versions PROVE Latest \in Nat \ {0} /\ Current \in Lists
  BY LenProperties DEF Versions, Latest, Current, Lists

\* The first GetPlaylist
LEMMA GetBeforePreserves == ASSUME IInv, GetBefore PROVE IInv'
  <1> USE DEF IInv, GetBefore, ReadHeader, deleteVars
  <1>1. Versions' /\ UNCHANGED <<versions, request, removed, created>>
    BY DEF Versions, Lists, Latest
  <1>2. Control'
    BY DEF Control, HonestReport, End, Goto
  <1>3. Current \in Seq(Entries)
    BY LatestIsNat DEF Control, Versions, Current, Latest
  <1>4. Len(Current) \in Nat /\ SubSeq(ItemsOf(Current), 1, 0) = <<>> /\ Len(<<>>) = 0
    BY <1>3, LenProperties, SubSeqEmpty
  <1>5. /\ snapshot' = Latest /\ total' = Len(Current) /\ seen' = <<>>
        /\ Current' = Current /\ Latest' = Latest /\ request' = "unsent"
        /\ ItemsOf(Current)' = ItemsOf(Current)
    BY <1>1 DEF Control, Current, Latest, ItemsOf
  <1>6. pc' \in {"done", "read"}
    BY DEF End, Goto
  <1>7. Reading'
    BY <1>4, <1>5, <1>6, LatestIsNat DEF Reading
  <1>8. Effect'
    BY <1>1 DEF Effect, Control
  <1>9. Recorded'
    <2>1. /\ request' # "applied" /\ record = NoRecord /\ record' = NoRecord
          /\ position' = position
      BY <1>5 DEF Control, HonestReport, End, Goto
    <2> QED
      BY <2>1 DEF Recorded
  <1> QED
    BY <1>1, <1>2, <1>7, <1>8, <1>9

\* A page read while the version of the first header is the latest one continues
\* the items of that version.
LEMMA ReadItemsPreserves == ASSUME IInv, ReadItems PROVE IInv'
  <1> USE DEF IInv, ReadItems, ReadPage, commandVars, deleteVars
  <1>1. Versions' /\ Control'
    BY DEF Versions, Lists, Latest, Control, HonestReport
  <1>2. ASSUME Latest = snapshot
        PROVE  /\ Len(seen') \in 0..total
               /\ seen' = SubSeq(ItemsOf(Current), 1, Len(seen'))
    <2>1. Current \in Seq(Entries)
      BY LatestIsNat DEF Control, Versions, Current, Latest
    <2>2. ItemsOf(Current) \in Seq(Items) /\ Len(ItemsOf(Current)) = total
      BY <2>1, ItemsAreSequence
    <2>3. /\ seen = SubSeq(ItemsOf(Current), 1, Len(seen))
          /\ Len(seen) \in Nat
      BY <1>2, <2>1, LenProperties DEF Reading
    <2>4. PICK n \in 0..total :
            /\ SubSeq(ItemsOf(Current), 1, Len(seen)) \o Page(ItemsOf(Current), Len(seen))
                 = SubSeq(ItemsOf(Current), 1, n)
            /\ Len(SubSeq(ItemsOf(Current), 1, n)) = n
      BY <2>2, <2>3, PageFollows
    <2> QED
      BY <2>3, <2>4
  <1>3. /\ UNCHANGED <<versions, snapshot, total, pc, request, removed>>
        /\ Current' = Current /\ Latest' = Latest
        /\ ItemsOf(Current)' = ItemsOf(Current)
        /\ pc = "read" /\ request = "unsent"
    BY DEF Current, Latest, ItemsOf, Control
  <1>4. Reading'
    BY <1>2, <1>3 DEF Reading
  <1>5. Effect'
    BY <1>3 DEF Effect, Control
  <1>6. Recorded'
    <2>1. request' # "applied" /\ record = NoRecord /\ record' = NoRecord
      BY <1>3 DEF Control, HonestReport
    <2> QED
      BY <2>1 DEF Recorded
  <1> QED
    BY <1>1, <1>4, <1>5, <1>6

\* The command's own steps that neither read nor change the playlist
LEMMA DecisionPreserves ==
    ASSUME IInv,
           \/ PageMismatches \/ ReadFails \/ CheckTarget \/ Recheck
           \/ SendDelete \/ DeleteNotSent \/ DeleteConfirmed
           \/ DeleteRejected \/ DeleteUncertain \/ WriteOutput
    PROVE  IInv'
  <1> USE DEF IInv, End, Goto, commandVars, deleteVars, readVars
  <1>1. /\ UNCHANGED <<versions, snapshot, total, seen, removed, created, position>>
        /\ request' = request \/ (request = "unsent" /\ request' = "sent")
    BY DEF PageMismatches, ReadFails, CheckTarget, Recheck, SendDelete,
           DeleteNotSent, DeleteConfirmed, DeleteRejected, DeleteUncertain,
           WriteOutput, Control
  <1>2. /\ Current' = Current /\ Latest' = Latest /\ Target' = Target
        /\ ItemsOf(Current)' = ItemsOf(Current) /\ Removable' = Removable
        /\ ItemsOf(versions[snapshot])' = ItemsOf(versions[snapshot])
    BY <1>1 DEF Current, Latest, ItemsOf, Target, Removable, Occurrences
  <1>3. Versions' /\ Effect' /\ Recorded'
    <2>1. Versions' /\ Effect'
      BY <1>1, <1>2 DEF Versions, Lists, Effect
    <2>2. \/ record' = record
          \/ /\ request = "applied" /\ request' = "applied"
             /\ record' = [position |-> position, track |-> Target, snapshot |-> created]
      BY DEF PageMismatches, ReadFails, CheckTarget, Recheck, SendDelete,
             DeleteNotSent, DeleteConfirmed, DeleteRejected, DeleteUncertain,
             WriteOutput
    <2> QED
      BY <1>1, <1>2, <2>1, <2>2 DEF Recorded
  <1>4. CASE PageMismatches \/ ReadFails
    <2>1. pc' = "done" /\ report' = "failed" /\ request = "unsent"
          /\ request' = request /\ record' = record
      BY <1>4 DEF PageMismatches, ReadFails, Control
    <2>2. Control' /\ Reading'
      BY <1>1, <1>2, <1>4, <2>1
         DEF Control, HonestReport, Reading, PageMismatches, ReadFails
    <2> QED
      BY <1>3, <2>2
  <1>5. CASE CheckTarget
    <2>1. Control'
      BY <1>5 DEF CheckTarget, Control, HonestReport
    <2>2. Reading'
      BY <1>1, <1>2, <1>5 DEF CheckTarget, Control, Reading, ReadComplete
    <2> QED
      BY <1>3, <2>1, <2>2
  <1>6. CASE Recheck
    <2>1. Control'
      BY <1>6 DEF Recheck, Control, HonestReport
    <2>2. ASSUME HeaderUnchanged
          PROVE  seen = ItemsOf(versions[snapshot])
      <3>1. Current \in Seq(Entries) /\ Current = versions[snapshot]
        BY <1>6, <2>2, LatestIsNat
           DEF Recheck, HeaderUnchanged, Control, Versions, Current, Latest
      <3>2. seen = SubSeq(ItemsOf(Current), 1, Len(Current))
        BY <1>6, <2>2 DEF Recheck, HeaderUnchanged, Reading
      <3> QED
        BY <3>1, <3>2, ItemsAreSequence, SubSeqFull
    <2>3. Reading'
      BY <1>1, <1>2, <1>6, <2>2 DEF Recheck, Control, Reading
    <2> QED
      BY <1>3, <2>1, <2>3
  <1>7. CASE SendDelete
    <2>1. Control'
      BY <1>7 DEF SendDelete, Control, HonestReport
    <2>2. Reading'
      BY <1>1, <1>2, <1>7 DEF SendDelete, Control, Reading
    <2> QED
      BY <1>3, <2>1, <2>2
  <1>8. CASE DeleteNotSent \/ DeleteRejected \/ DeleteUncertain \/ WriteOutput
    <2>1. Control'
      BY <1>8 DEF DeleteNotSent, DeleteRejected, DeleteUncertain, WriteOutput,
                  Control, HonestReport
    <2>2. Reading'
      BY <1>1, <1>2, <1>8
         DEF DeleteNotSent, DeleteRejected, DeleteUncertain, WriteOutput, Control,
             Reading
    <2> QED
      BY <1>3, <2>1, <2>2
  <1>9. CASE DeleteConfirmed
    <2>1. record' # NoRecord
      BY <1>9 DEF DeleteConfirmed, Control, NoRecord
    <2>2. Control'
      BY <1>9, <2>1 DEF DeleteConfirmed, Control, HonestReport
    <2>3. Reading'
      BY <1>1, <1>2, <1>9 DEF DeleteConfirmed, Control, Reading
    <2> QED
      BY <1>3, <2>2, <2>3
  <1> QED
    BY <1>4, <1>5, <1>6, <1>7, <1>8, <1>9

\* Whoever makes a new version, what was read and checked stays what it is.
LEMMA NewVersionPreserves ==
    ASSUME IInv, NEW list, Commit(list),
           UNCHANGED <<snapshot, total, seen, position, pc>>,
           pc # "get", pc = "done" => request # "unsent",
           request' = request \/ (request # "unsent" /\ request' # "unsent")
    PROVE  /\ Reading' /\ (versions \in Seq(Lists))' /\ Target' = Target
           /\ Latest' = Latest + 1 /\ Latest' > 0 /\ snapshot \in 1..Latest
           /\ \A i \in 1..Latest : versions'[i] = versions[i]
  <1> USE DEF IInv
  <1>1. /\ (versions \in Seq(Lists))' /\ Latest' = Latest + 1
        /\ \A i \in 1..Latest : versions'[i] = versions[i]
    BY CommitGrows DEF Versions
  <1>2. Latest \in Nat \ {0} /\ snapshot \in 1..Latest
    BY LatestIsNat DEF Reading
  <1>3. /\ Latest' # snapshot' /\ snapshot' \in 1..Latest'
        /\ versions'[snapshot'] = versions[snapshot]
    BY <1>1, <1>2
  <1>4. /\ ItemsOf(versions[snapshot])' = ItemsOf(versions[snapshot])
        /\ Removable' = Removable /\ Target' = Target
    BY <1>3 DEF ItemsOf, Removable, Target, Occurrences
  <1>5. Reading'
    BY <1>3, <1>4 DEF Reading
  <1> QED
    BY <1>1, <1>2, <1>4, <1>5

\* Of the version checked, whichever reading of the DELETE the service has, it takes
\* out the entry asked for and no other.
LEMMA OneIsTakenOut ==
    ASSUME IInv, request = "sent", Latest = snapshot,
           NEW doomed \in DoomedByURI(Target, snapshot)
    PROVE  Without(Current, doomed) = RemoveAt(Current, position + 1)
  <1>1. Current \in Seq(Entries) /\ Current = versions[snapshot]
    BY LatestIsNat DEF IInv, Versions, Current, Latest
  <1>2. /\ DOMAIN Current = 1..Len(Current)
        /\ Occurrences(ItemsOf(Current), Target) = {position + 1}
    BY <1>1, LenProperties DEF IInv, Reading, Removable
  <1>3. /\ DOMAIN ItemsOf(Current) = DOMAIN Current
        /\ \A i \in DOMAIN Current : ItemsOf(Current)[i] = Current[i].item
    BY DEF ItemsOf
  <1>4. doomed = {e \in ToSet(Current) : e.item = Target}
    BY <1>1 DEF DoomedByURI
  <1>5. \A i \in 1..Len(Current) : Current[i] \in doomed <=> Current[i].item = Target
    BY <1>2, <1>4 DEF ToSet
  <1>6. \A i \in 1..Len(Current) : Current[i] \in doomed <=> i = position + 1
    BY <1>2, <1>3, <1>5 DEF Occurrences
  <1>7. position + 1 \in 1..Len(Current)
    BY <1>2, <1>3 DEF Occurrences
  <1> QED
    BY <1>1, <1>6, <1>7, WithoutOne

\* The service handles the DELETE, maybe after the command has ended.
LEMMA ServicePreserves == ASSUME IInv, Service PROVE IInv'
  <1> USE DEF IInv, commandVars, readVars
  <1>1. CASE ServiceDeletes
    <2>1. PICK doomed \in DoomedByURI(Target, snapshot) :
            /\ removed' = doomed
            /\ Commit(Without(Current, doomed))
      BY <1>1 DEF ServiceDeletes
    <2>2. /\ request = "sent" /\ request' = "applied" /\ created' = Latest + 1
          /\ UNCHANGED <<snapshot, total, seen, position, pc, report, record>>
          /\ pc \in {"await", "done"}
      BY <1>1 DEF ServiceDeletes, Control
    <2>3. /\ Reading' /\ (versions \in Seq(Lists))' /\ Target' = Target
          /\ Latest' = Latest + 1 /\ Latest' > 0 /\ snapshot \in 1..Latest
          /\ \A i \in 1..Latest : versions'[i] = versions[i]
      BY <2>1, <2>2, NewVersionPreserves
    <2>4. Versions'
      <3>1. Current \in Seq(Entries)
        BY LatestIsNat DEF Versions, Current, Latest
      <3>2. Without(Current, doomed) \in Seq(Entries)
        BY <3>1, WithoutTyped
      <3>3. versions' \in Seq(Seq(Entries))
        BY <2>1, <3>2, CommitTyped DEF Versions
      <3> QED
        BY <2>3, <3>3 DEF Versions
    <2>5. \A e \in doomed : e.item = Target
      BY DEF DoomedByURI
    <2>6. Effect'
      BY <2>1, <2>2, <2>3, <2>5 DEF Effect
    <2>7. created' # 0
      BY <2>2, LatestIsNat
    <2>8. Control'
      BY <2>2, <2>7 DEF Control, HonestReport
    <2>9. created' \in 1..Latest' /\ versions'[created'] = Without(Current, doomed)
      BY <2>1, <2>2, <2>3, LatestIsNat, CommittedLast DEF Versions
    <2>10. ASSUME created' = snapshot + 1
           PROVE  versions'[created'] = RemoveAt(versions[snapshot], position + 1)
      BY <2>2, <2>3, <2>9, <2>10, LatestIsNat, OneIsTakenOut DEF Current
    <2>11. Recorded'
      <3>1. record = NoRecord
        BY <2>2 DEF Recorded
      <3> QED
        BY <2>2, <2>3, <2>9, <2>10, <3>1 DEF Recorded
    <2> QED
      BY <2>3, <2>4, <2>6, <2>8, <2>11
  <1>2. CASE ServiceRefuses
    <2>1. /\ UNCHANGED <<versions, snapshot, total, seen, position, pc, report,
                         record, created, removed>>
          /\ request = "sent" /\ request' = "refused"
      BY <1>2 DEF ServiceRefuses
    <2>2. /\ Current' = Current /\ Latest' = Latest /\ Target' = Target
          /\ ItemsOf(Current)' = ItemsOf(Current) /\ Removable' = Removable
          /\ ItemsOf(versions[snapshot])' = ItemsOf(versions[snapshot])
      BY <2>1 DEF Current, Latest, ItemsOf, Target, Removable, Occurrences
    <2>3. Versions' /\ Effect' /\ Reading' /\ Recorded'
      BY <2>1, <2>2 DEF Versions, Lists, Effect, Reading, Recorded
    <2>4. Control'
      BY <2>1 DEF Control, HonestReport
    <2> QED
      BY <2>3, <2>4
  <1> QED
    BY <1>1, <1>2 DEF Service

\* A collaborator edits the list at any moment.
LEMMA CollaboratorPreserves == ASSUME IInv, Collaborator PROVE IInv'
  <1> USE DEF IInv, Collaborator, commandVars, readVars, deleteVars
  <1>1. PICK list : Commit(list)
    BY DEF CollaboratorEdits, CollaboratorInserts, CollaboratorRemoves,
           CollaboratorMoves
  <1>2. /\ Reading' /\ (versions \in Seq(Lists))' /\ Target' = Target
        /\ Latest' = Latest + 1 /\ Latest' > 0 /\ snapshot \in 1..Latest
        /\ \A i \in 1..Latest : versions'[i] = versions[i]
    BY <1>1, NewVersionPreserves
  <1>3. versions' \in Seq(Seq(Entries))
    BY EditTyped DEF Versions
  <1>4. Versions' /\ Effect'
    BY <1>2, <1>3 DEF Versions, Effect
  <1>5. Control'
    BY DEF Control, HonestReport
  <1>6. Recorded'
    <2>1. UNCHANGED <<request, created, record, position, snapshot>>
      OBVIOUS
    <2>2. request = "applied" => /\ created \in 1..Latest /\ created \in 1..Latest'
                                 /\ versions'[created] = versions[created]
      BY <1>2, LatestIsNat DEF Recorded
    <2> QED
      BY <1>2, <2>1, <2>2 DEF Recorded
  <1> QED
    BY <1>2, <1>4, <1>5, <1>6

\* Nothing happens.
LEMMA StutterPreserves == ASSUME IInv, UNCHANGED vars PROVE IInv'
  <1> USE DEF IInv, vars, readVars, commandVars, deleteVars
  <1>1. Versions' /\ Control'
    BY DEF Versions, Lists, Latest, Control, HonestReport
  <1>2. /\ Current' = Current /\ Latest' = Latest /\ Target' = Target
        /\ ItemsOf(Current)' = ItemsOf(Current) /\ Removable' = Removable
        /\ ItemsOf(versions[snapshot])' = ItemsOf(versions[snapshot])
    BY DEF Current, Latest, ItemsOf, Target, Removable, Occurrences
  <1>3. Reading' /\ Effect' /\ Recorded'
    BY <1>2 DEF Reading, Effect, Recorded
  <1> QED
    BY <1>1, <1>3

\* The invariant is inductive.
LEMMA NextPreserves == ASSUME IInv, [Next]_vars PROVE IInv'
  BY GetBeforePreserves, ReadItemsPreserves, DecisionPreserves, ServicePreserves,
     CollaboratorPreserves, StutterPreserves
     DEF Next, Command, Progress, Finished

\* The steps keep every variable in its type: those the invariant leaves out follow
\* from it and from the step.
LEMMA TypesKept == ASSUME IInv, TypeOK, IInv', [Next]_vars PROVE TypeOK'
  <1> USE DEF readVars, commandVars, deleteVars
  <1>1. /\ Latest \in Nat \ {0} /\ Latest' \in Nat \ {0}
        /\ Current \in Seq(Entries)
        /\ versions' \in Seq(Seq(Entries)) /\ Latest' > 0
        /\ position' \in Nat
        /\ pc' \in {"get", "read", "recheck", "delete", "await", "output", "done"}
        /\ request' \in {"unsent", "sent", "applied", "refused"}
    BY LatestIsNat, LenProperties DEF IInv, Versions, Control, Recorded, Current, Latest
  <1>2. /\ edits \in 0..MaxEdits /\ snapshot \in 0..Latest /\ total \in Nat
        /\ seen \in Seq(Items) /\ created \in 0..Latest /\ removed \subseteq Entries
        /\ report \in Reports
        /\ record \in {NoRecord} \cup [position : Nat, track : Tracks, snapshot : Nat]
    BY DEF TypeOK, PlaylistTypeOK, ReadTypeOK
  <1>3. ItemsOf(Current) \in Seq(Items) /\ Len(Current) \in Nat
    BY <1>1, ItemsAreSequence, LenProperties
  <1>4. Latest' >= Latest
    <2>1. ASSUME NEW list, Commit(list) PROVE Latest' = Latest + 1
      BY <2>1, CommitGrows DEF IInv, Versions
    <2>2. CASE UNCHANGED versions
      BY <1>1, <2>2 DEF Latest
    <2>3. CASE ServiceDeletes
      <3>1. PICK list : Commit(list)
        BY <2>3 DEF ServiceDeletes
      <3> QED
        BY <1>1, <2>1, <3>1
    <2>4. CASE Collaborator
      <3>1. PICK list : Commit(list)
        BY <2>4 DEF Collaborator, CollaboratorEdits, CollaboratorInserts,
                    CollaboratorRemoves, CollaboratorMoves
      <3> QED
        BY <1>1, <2>1, <3>1
    <2>5. ASSUME ~ServiceDeletes, ~Collaborator PROVE UNCHANGED versions
      BY <2>5 DEF Next, Command, Progress, Service, Finished, vars, GetBefore, ReadItems,
                  PageMismatches, CheckTarget, Recheck, SendDelete, DeleteConfirmed,
                  DeleteRejected, DeleteUncertain, WriteOutput, ReadFails, DeleteNotSent,
                  ServiceRefuses
    <2> QED
      BY <2>2, <2>3, <2>4, <2>5
  <1>5. edits' \in 0..MaxEdits
    <2>1. CASE Collaborator
      BY <1>2, <2>1, MaxEditsAssumption DEF Collaborator, CollaboratorEdits
    <2>2. CASE ~Collaborator
      BY <1>2, <2>2 DEF Next, Command, Progress, Service, Finished, vars, GetBefore,
                  ReadItems, PageMismatches, CheckTarget, Recheck, SendDelete,
                  DeleteConfirmed, DeleteRejected, DeleteUncertain, WriteOutput,
                  ReadFails, DeleteNotSent, ServiceDeletes, ServiceRefuses
    <2> QED
      BY <2>1, <2>2
  <1>6. snapshot' \in 0..Latest' /\ total' \in Nat /\ seen' \in Seq(Items)
    <2>1. CASE GetBefore
      BY <1>1, <1>3, <1>4, <2>1, EmptySeq DEF GetBefore, ReadHeader
    <2>2. CASE ReadItems
      <3>1. Len(seen) \in Nat
        BY <1>2, LenProperties
      <3>2. Page(ItemsOf(Current), Len(seen)) \in Seq(Items)
        BY <1>3, <3>1, PageTyped
      <3>3. seen' \in Seq(Items)
        BY <1>2, <2>2, <3>2, ConcatProperties DEF ReadItems, ReadPage
      <3> QED
        BY <1>1, <1>2, <1>4, <2>2, <3>3 DEF ReadItems, ReadPage
    <2>3. CASE ~GetBefore /\ ~ReadItems
      <3>1. UNCHANGED <<snapshot, total, seen>>
        BY <2>3 DEF Next, Command, Progress, Service, Finished, vars, PageMismatches,
                    CheckTarget, Recheck, SendDelete, DeleteConfirmed, DeleteRejected,
                    DeleteUncertain, WriteOutput, ReadFails, DeleteNotSent,
                    ServiceDeletes, ServiceRefuses, Collaborator
      <3> QED
        BY <1>1, <1>2, <1>4, <3>1
    <2> QED
      BY <2>1, <2>2, <2>3
  <1>7. created' \in 0..Latest' /\ removed' \subseteq Entries
    <2>1. CASE ServiceDeletes
      <3>1. created' \in 1..Latest'
        BY <2>1 DEF IInv, Recorded, ServiceDeletes
      <3>2. \A doomed \in DoomedByURI(Target, snapshot) : doomed \subseteq ToSet(Current)
        BY DEF DoomedByURI
      <3>3. ToSet(Current) \subseteq Entries
        BY <1>1, LenProperties DEF ToSet
      <3> QED
        BY <1>1, <2>1, <3>1, <3>2, <3>3 DEF ServiceDeletes
    <2>2. CASE ~ServiceDeletes
      <3>1. UNCHANGED <<created, removed>>
        BY <2>2 DEF Next, Command, Progress, Service, Finished, vars, GetBefore, ReadItems,
                    PageMismatches, CheckTarget, Recheck, SendDelete, DeleteConfirmed,
                    DeleteRejected, DeleteUncertain, WriteOutput, ReadFails,
                    DeleteNotSent, ServiceRefuses, Collaborator
      <3> QED
        BY <1>1, <1>2, <1>4, <3>1
    <2> QED
      BY <2>1, <2>2
  <1>8. report' \in Reports
    BY <1>2 DEF Next, Command, Progress, Service, Finished, vars, GetBefore, ReadItems,
                PageMismatches, CheckTarget, Recheck, SendDelete, DeleteConfirmed,
                DeleteRejected, DeleteUncertain, WriteOutput, ReadFails, DeleteNotSent,
                ServiceDeletes, ServiceRefuses, Collaborator, End, Goto, Reports
  <1>9. record' \in {NoRecord} \cup [position : Nat, track : Tracks, snapshot : Nat]
    <2>1. CASE DeleteConfirmed
      <3>1. Target \in Tracks
        BY <2>1 DEF DeleteConfirmed, IInv, Reading, Removable
      <3>2. position \in Nat /\ created \in Nat
        BY <1>1, <1>2 DEF IInv, Recorded
      <3> QED
        BY <2>1, <3>1, <3>2 DEF DeleteConfirmed
    <2>2. CASE ~DeleteConfirmed
      <3>1. UNCHANGED record
        BY <2>2 DEF Next, Command, Progress, Service, Finished, vars, GetBefore, ReadItems,
                    PageMismatches, CheckTarget, Recheck, SendDelete, DeleteRejected,
                    DeleteUncertain, WriteOutput, ReadFails, DeleteNotSent,
                    ServiceDeletes, ServiceRefuses, Collaborator, End, Goto
      <3> QED
        BY <1>2, <3>1
    <2> QED
      BY <2>1, <2>2
  <1> QED
    BY <1>1, <1>5, <1>6, <1>7, <1>8, <1>9 DEF TypeOK, PlaylistTypeOK, ReadTypeOK

------------------------------------------------------------------------------
(* The theorems *)

\* The invariant holds in every state of every behaviour of removePlaylistItem.
THEOREM Invariance == Spec => []IInv
  BY InitIInv, NextPreserves, PTL DEF Spec

\* Every variable of a removal keeps its type, the list itself (what a DELETE leaves
\* is a list again) and the record on stdout or stderr included.
THEOREM TypeCorrect == Spec => []TypeOK
  <1>1. Init => TypeOK
    <2> SUFFICES ASSUME Init PROVE TypeOK
      OBVIOUS
    <2>1. Versions
      BY InitIInv DEF IInv
    <2>2. PlaylistTypeOK
      BY <2>1, MaxEditsAssumption DEF Init, PlaylistInit, PlaylistTypeOK, Versions
    <2>3. ReadTypeOK
      BY <2>1, LatestIsNat, EmptySeq DEF Init, ReadInit, ReadTypeOK
    <2>4. created \in 0..Latest
      BY <2>1, LatestIsNat DEF Init
    <2> QED
      BY <2>2, <2>3, <2>4, MaxInitialAssumption DEF Init, TypeOK, Reports
  <1>2. IInv /\ TypeOK /\ [Next]_vars => IInv' /\ TypeOK'
    BY NextPreserves, TypesKept
  <1> QED
    BY <1>1, <1>2, InitIInv, PTL DEF Spec

\* The DELETE is only sent on the evidence of the state of the playlist whose
\* snapshot id it carries (removePlaylistItem), whatever collaborators do while the
\* pages are read.
THEOREM DeleteIsGuarded == Spec => []GuardedDelete
  <1>1. IInv => GuardedDelete
    BY DEF IInv, Reading, Removable, GuardedDelete
  <1> QED
    BY <1>1, Invariance, PTL

\* Of the entries the command has seen, none is lost but the one asked for.
THEOREM NothingElseLost == Spec => []NoUncheckedLoss
  <1>1. IInv => NoUncheckedLoss
    <2> SUFFICES ASSUME IInv, NEW e \in removed, e \in ToSet(versions[snapshot])
                 PROVE  e = versions[snapshot][position + 1]
      BY DEF NoUncheckedLoss
    <2>1. PICK i \in DOMAIN versions[snapshot] : e = versions[snapshot][i]
      BY DEF ToSet
    <2>2. request = "applied" /\ e.item = Target
      BY DEF IInv, Effect
    <2>3. Occurrences(ItemsOf(versions[snapshot]), Target) = {position + 1}
      BY <2>2 DEF IInv, Reading, Removable
    <2>4. i \in Occurrences(ItemsOf(versions[snapshot]), Target)
      BY <2>1, <2>2 DEF Occurrences, ItemsOf
    <2> QED
      BY <2>1, <2>3, <2>4
  <1> QED
    BY <1>1, Invariance, PTL

\* Reports agree with what happened, in every later state too.
THEOREM ReportsAreHonest == Spec => []HonestReport
  <1>1. IInv => HonestReport
    BY DEF IInv, Control
  <1> QED
    BY <1>1, Invariance, PTL

\* The record a removal writes (writeMutationOutput) names what undoes it, if nobody
\* edited the list between its check and the DELETE, however many do afterwards.
THEOREM RecordUndoes == Spec => []RecordIsInverse
  <1>1. IInv => RecordIsInverse
    <2> SUFFICES ASSUME IInv, record # NoRecord, created = snapshot + 1
                 PROVE  InsertedAt(ItemsOf(versions[record.snapshot]), record.position,
                                   <<record.track>>)
                          = ItemsOf(versions[snapshot])
      BY DEF RecordIsInverse
    <2>1. PICK list : list = versions[snapshot]
      OBVIOUS
    <2>2. PICK p : p = position + 1
      OBVIOUS
    <2>3. /\ record.position = position /\ record.track = Target
          /\ record.snapshot = created /\ versions[created] = RemoveAt(list, p)
          /\ request = "applied" /\ snapshot \in 1..Latest
      BY <2>1, <2>2 DEF IInv, Recorded, Reading
    <2>4. list \in Seq(Entries) /\ DOMAIN list = 1..Len(list)
      BY <2>1, <2>3, LenProperties DEF IInv, Versions, Latest
    <2>5. /\ Target = seen[p] /\ seen = ItemsOf(list)
          /\ Occurrences(ItemsOf(list), Target) = {p}
      BY <2>1, <2>2, <2>3 DEF IInv, Reading, Removable, Target
    <2>6. p \in 1..Len(list) /\ Target = list[p].item
      BY <2>4, <2>5 DEF Occurrences, ItemsOf
    <2>7. position = p - 1
      BY <2>2 DEF IInv, Recorded
    <2>8. InsertedAt(ItemsOf(RemoveAt(list, p)), p - 1, <<list[p].item>>) = ItemsOf(list)
      BY <2>4, <2>6, RemovalUndone
    <2> QED
      BY <2>1, <2>3, <2>6, <2>7, <2>8
  <1> QED
    BY <1>1, Invariance, PTL
------------------------------------------------------------------------------
(* The DELETE is a call *)

\* What the caller of RemovePlaylistItemsByURI is told of it
Verdict ==
    CASE pc = "output" \/ report \in {"removed", "outputFailed"} -> "confirmed"
      [] report \in {"rejected", "uncertain"} -> report
      [] OTHER -> "none"

Call == INSTANCE MutationCall WITH
            applications <- IF request = "applied" THEN 1 ELSE 0,
            verdict <- Verdict

\* Each step is one of the call or none.
LEMMA StepIsCalls == ASSUME IInv, [Next]_vars PROVE [Call!Next]_(Call!vars)
  <1> USE DEF Call!vars, Call!Next, Call!Apply, Call!Confirm, Call!Reject, Call!DoubtOutcome
  <1>1. Control
    BY DEF IInv
  <1>2. ASSUME UNCHANGED <<pc, request, report>> PROVE UNCHANGED Call!vars
    BY <1>2 DEF Verdict
  <1>3. CASE GetBefore \/ PageMismatches \/ CheckTarget \/ Recheck \/ ReadFails
    <2>1. /\ request' = request /\ pc \notin {"output", "done"} /\ pc' # "output"
          /\ report = "none" /\ report' \in {"none", "usage", "changed", "failed"}
      BY <1>1, <1>3 DEF Control, GetBefore, PageMismatches, CheckTarget, Recheck, ReadFails,
                        End, Goto, deleteVars
    <2> QED
      BY <2>1 DEF Verdict
  <1>4. CASE ReadItems \/ Collaborator \/ Finished \/ UNCHANGED vars
    BY <1>2, <1>4 DEF ReadItems, Collaborator, Finished, vars, commandVars, deleteVars
  <1>5. CASE SendDelete \/ DeleteNotSent
    BY <1>1, <1>5 DEF Control, SendDelete, DeleteNotSent, End, Goto, deleteVars, Verdict
  <1>6. CASE DeleteConfirmed \/ DeleteRejected \/ DeleteUncertain
    BY <1>1, <1>6 DEF Control, DeleteConfirmed, DeleteRejected, DeleteUncertain, End,
                      deleteVars, Verdict
  <1>7. CASE WriteOutput
    BY <1>1, <1>7 DEF Control, WriteOutput, End, deleteVars, Verdict
  <1>8. CASE ServiceDeletes \/ ServiceRefuses
    <2>1. /\ request = "sent" /\ request' \in {"applied", "refused"}
          /\ pc' = pc /\ report' = report
      BY <1>8 DEF ServiceDeletes, ServiceRefuses, commandVars
    <2>2. pc # "output" /\ report \notin {"removed", "outputFailed", "rejected"}
      BY <1>1, <2>1 DEF Control, HonestReport
    <2> QED
      BY <2>1, <2>2 DEF Verdict
  <1> QED
    BY <1>3, <1>4, <1>5, <1>6, <1>7, <1>8 DEF Next, Command, Progress, Service

\* What MutationCall promises, HttpRequest keeps and a removal relies on are the
\* same: seen from outside, its DELETE is one call, applied once at most, and what
\* the user is told of it is the call's verdict.
THEOREM DeleteIsCall == Spec => Call!Spec
  <1>1. Init => Call!Init
    BY DEF Init, Call!Init, Verdict
  <1>2. IInv /\ [Next]_vars => [Call!Next]_(Call!vars)
    BY StepIsCalls
  <1> QED
    BY <1>1, <1>2, Invariance, PTL DEF Spec, Call!Spec

------------------------------------------------------------------------------
(* The command runs down *)

\* What is left of the command: the stages to come, and of the list it reads the items
\* to come.
Stage ==
    CASE pc = "get" -> 6 [] pc = "read" -> 5 [] pc = "recheck" -> 4 [] pc = "delete" -> 3
      [] pc = "await" -> 2 [] pc = "output" -> 1 [] pc = "done" -> 0

Unread == IF Len(seen) < total THEN total - Len(seen) ELSE 0

\* Each step of the command leaves less of it, and nobody else's leaves more.
RunsDown ==
    /\ Stage \in Nat /\ Unread \in Nat /\ Stage' \in Nat /\ Unread' \in Nat
    /\ IF Command
         THEN Stage' < Stage \/ (Stage' = Stage /\ Unread' < Unread)
         ELSE Stage' = Stage /\ Unread' = Unread

\* Where the command is says how much is left.
LEMMA StageTyped == ASSUME IInv, TypeOK PROVE Stage \in 0..6 /\ Unread \in Nat
  <1>1. total \in Nat /\ Len(seen) \in Nat
    BY LenProperties DEF TypeOK, ReadTypeOK
  <1> QED
    BY <1>1 DEF IInv, Control, Stage, Unread

\* A page asked for has at least one item.
LEMMA PageHasItems ==
    ASSUME NEW list \in Seq(Items), NEW k \in Nat, k < Len(list)
    PROVE  Page(list, k) \in Seq(Items) /\ Len(Page(list, k)) \in Nat \ {0}
  <1> DEFINE n == IF k + PageSize < Len(list) THEN k + PageSize ELSE Len(list)
  <1>1. n \in 0..Len(list) /\ k < n /\ Len(list) \in Nat
    BY PageSizeAssumption, LenProperties
  <1>2. Page(list, k) = SubSeq(list, k + 1, n)
    BY DEF Page
  <1> HIDE DEF n
  <1>3. \A i \in (k + 1)..n : list[i] \in Items
    BY <1>1, ElementOfSeq
  <1> QED
    BY <1>1, <1>2, <1>3, SubSeqProperties

\* The command goes on to a later stage, or reads on.
LEMMA CommandRunsDown == ASSUME IInv, TypeOK, IInv', TypeOK', Command PROVE RunsDown
  <1>1. Stage \in 0..6 /\ Unread \in Nat
    BY StageTyped
  <1>2. Stage' \in 0..6 /\ Unread' \in Nat
    <2>1. total' \in Nat /\ Len(seen') \in Nat
      BY LenProperties DEF TypeOK, ReadTypeOK
    <2> QED
      BY <2>1 DEF IInv, Control, Stage, Unread
  <1>3. CASE ReadItems
    <2>1. /\ Stage' = Stage /\ total' = total
          /\ Len(seen) < total /\ Len(Current) = total
          /\ seen' = seen \o Page(ItemsOf(Current), Len(seen))
      BY <1>3 DEF ReadItems, ReadPage, commandVars, Stage
    <2>2. total \in Nat /\ seen \in Seq(Items) /\ Len(seen) \in Nat
      BY LenProperties DEF TypeOK, ReadTypeOK
    <2>3. Current \in Seq(Entries)
      BY LatestIsNat DEF IInv, Versions, Current, Latest
    <2>4. ItemsOf(Current) \in Seq(Items) /\ Len(ItemsOf(Current)) = total
      BY <2>1, <2>3, ItemsAreSequence
    <2>5. PICK page : page = Page(ItemsOf(Current), Len(seen))
      OBVIOUS
    <2>6. page \in Seq(Items) /\ Len(page) \in Nat \ {0}
      BY <2>1, <2>2, <2>4, <2>5, PageHasItems
    <2>7. Len(seen') = Len(seen) + Len(page)
      BY <2>1, <2>2, <2>5, <2>6, ConcatProperties
    <2>8. Unread' < Unread
      BY <2>1, <2>2, <2>6, <2>7 DEF Unread
    <2> QED
      BY <1>1, <1>2, <2>1, <2>8 DEF RunsDown
  <1>4. CASE ~ReadItems
    <2>1. \/ pc # "done" /\ pc' = "done"
          \/ pc = "get" /\ pc' = "read"
          \/ pc = "read" /\ pc' = "recheck"
          \/ pc = "recheck" /\ pc' = "delete"
          \/ pc = "delete" /\ pc' = "await"
          \/ pc = "await" /\ pc' = "output"
      BY <1>4 DEF Command, Progress, GetBefore, PageMismatches, ReadFails, CheckTarget, Recheck,
                  SendDelete, DeleteNotSent, DeleteConfirmed, DeleteRejected, DeleteUncertain,
                  WriteOutput, End, Goto
    <2>2. pc \in {"get", "read", "recheck", "delete", "await", "output", "done"}
      BY DEF IInv, Control
    <2>3. Stage' < Stage
      BY <2>1, <2>2 DEF Stage
    <2> QED
      BY <1>1, <1>2, <2>3 DEF RunsDown
  <1> QED
    BY <1>3, <1>4

\* The removal cannot go on for ever, whatever collaborators do to the list it reads:
\* each of its steps leads to a later stage or leaves fewer items to read, and nobody
\* else's undoes that.
THEOREM RemovalRunsDown == Spec => [][RunsDown]_vars
  <1>1. IInv /\ IInv' /\ TypeOK /\ TypeOK' /\ [Next]_vars => [RunsDown]_vars
    <2> SUFFICES ASSUME IInv, IInv', TypeOK, TypeOK', Next PROVE RunsDown \/ UNCHANGED vars
      BY Zenon
    <2>1. CASE Command
      BY <2>1, CommandRunsDown
    <2>2. CASE ~Command
      <3>1. CASE Service \/ Collaborator
        <4>1. UNCHANGED <<pc, total, seen>>
          BY <3>1 DEF Service, ServiceDeletes, ServiceRefuses, Collaborator, commandVars,
                      readVars
        <4>2. Stage' = Stage /\ Unread' = Unread
          BY <4>1 DEF Stage, Unread
        <4>3. Stage \in 0..6 /\ Unread \in Nat
          BY StageTyped
        <4> QED
          BY <2>2, <4>2, <4>3 DEF RunsDown
      <3> QED
        BY <2>2, <3>1 DEF Next, Finished
    <2> QED
      BY <2>1, <2>2
  <1> QED
    BY <1>1, Invariance, TypeCorrect, PTL DEF Spec

=============================================================================
