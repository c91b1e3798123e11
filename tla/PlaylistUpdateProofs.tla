------------------------ MODULE PlaylistUpdateProofs ------------------------
(***************************************************************************)
(* An update removes only what it has replaced and is honestly reported,   *)
(* for lists, pages and numbers of edits without bound. The argument: the  *)
(* service commits the add as a version of its own, and versions are only  *)
(* ever appended. As long as that version is the latest one, the items     *)
(* read back are a prefix of its items; the last header, which finds it    *)
(* still the latest one, makes what was compared with the expected list    *)
(* the items of that version, and no edit touches it afterwards.           *)
(***************************************************************************)
EXTENDS PlaylistUpdate, PlaylistReadProofs

\* The versions form a sequence of lists of entries.
Versions ==
    /\ versions \in Seq(Lists)
    /\ Latest > 0
    /\ versions \in Seq(Seq(Entries))

\* How pc, the two requests and the report go together
Control ==
    /\ pc \in {"get", "read", "recheck", "add", "awaitAdd", "applied", "verify",
               "stable", "delete", "awaitDelete", "output", "done"}
    /\ addRequest \in Stages /\ request \in Stages
    /\ pc \in {"get", "read", "recheck", "add"} => addRequest = "unsent"
    /\ pc = "awaitAdd" => addRequest # "unsent"
    /\ pc \in {"applied", "verify", "stable", "delete", "awaitDelete", "output"}
         => addRequest = "applied"
    /\ pc \notin {"awaitDelete", "output", "done"} => request = "unsent"
    /\ pc = "awaitDelete" => request # "unsent"
    /\ pc = "output" => request = "applied"
    /\ request # "unsent" => addRequest = "applied"
    /\ pc # "done" => report = "none"
    /\ HonestReport

\* The items read belong to the version of the header read before them, as long
\* as that is the latest one.
Reading ==
    /\ position \in Nat /\ newTrack \in Tracks
    /\ seen \in Seq(Items)
    /\ pc = "read" => snapshot \in 1..Latest
    /\ pc \in {"verify", "stable"} => snapshot = added
    /\ pc \in {"read", "verify"} /\ Latest = snapshot =>
         /\ total = Len(Current)
         /\ Len(seen) \in 0..total
         /\ seen = SubSeq(ItemsOf(Current), 1, Len(seen))

\* What CheckTarget found of the list before the add, and keeps
Checked ==
    /\ original \in Seq(Items)
    /\ Target \in Tracks \ {newTrack}
    /\ Occurrences(original, Target) = {position + 1}
    /\ Occurrences(original, newTrack) = {}

\* The version of the add is the expected one: as long as it is the latest when
\* the items have been compared, and for good when it still was the latest then.
Verified ==
    /\ pc \notin {"get", "read", "done"} \/ request # "unsent" => Checked
    /\ addRequest = "applied" => added \in 1..Latest
    /\ pc = "stable" /\ Latest = added => ItemsOf(Current) = Expected
    /\ pc = "delete" \/ request # "unsent" => ItemsOf(versions[added]) = Expected

\* The list just after the DELETE, if nobody edited it since the add
Replaced ==
    request = "applied" =>
        /\ created \in 1..Latest /\ created > added
        /\ created = added + 1 =>
             ItemsOf(versions[created]) = ReplaceAt(original, position + 1, newTrack)

\* Only the entry next to the replacement is ever removed.
Effect ==
    /\ request # "applied" => removed = {}
    /\ RemovesOnlyReplaced
    /\ Replaced

IInv == Versions /\ Control /\ Reading /\ Verified /\ Effect

------------------------------------------------------------------------------
(* What a step that makes no version keeps *)

\* Snapshot ids are numbers, and the list is a list of entries.
LEMMA CurrentTyped ==
    ASSUME Versions
    PROVE  /\ Latest \in Nat \ {0} /\ Current \in Seq(Entries)
           /\ Len(Current) \in Nat /\ ItemsOf(Current) \in Seq(Items)
           /\ Len(ItemsOf(Current)) = Len(Current)
  <1>1. Latest \in Nat \ {0} /\ Current \in Seq(Entries)
    BY LenProperties DEF Versions, Latest, Current
  <1> QED
    BY <1>1, ItemsAreSequence, LenProperties

\* Every initial list, position and replacement satisfies the invariant.
LEMMA InitIInv == Init => IInv
  <1> SUFFICES ASSUME Init PROVE IInv
    OBVIOUS
  <1> USE DEF Init
  <1>1. PICK n \in 0..MaxInitial : \E items \in [1..n -> Items] :
          versions = << [i \in 1..n |-> [item |-> items[i], birth |-> <<1, i>>]] >>
    BY DEF PlaylistInit
  <1>2. PICK items \in [1..n -> Items] :
          versions = << [i \in 1..n |-> [item |-> items[i], birth |-> <<1, i>>]] >>
    BY <1>1
  <1> DEFINE list == [i \in 1..n |-> [item |-> items[i], birth |-> <<1, i>>]]
  <1>3. n \in Nat /\ list \in [1..n -> Entries]
    BY MaxInitialAssumption DEF Entries
  <1>4. list \in Seq(Entries)
    BY <1>3, FunctionIsSequence
  <1> HIDE DEF list
  <1>5. versions = <<list>>
    BY <1>2 DEF list
  <1>6. Versions
    BY <1>4, <1>5 DEF Versions, Lists, Latest
  <1>7. Control
    BY DEF Control, HonestReport, Stages
  <1>8. Reading /\ Verified
    BY MaxInitialAssumption DEF Reading, ReadInit, Verified
  <1>9. Effect
    BY DEF Effect, RemovesOnlyReplaced, Replaced
  <1> QED
    BY <1>6, <1>7, <1>8, <1>9 DEF IInv

\* Nothing that is said of versions, lists and removals depends on more than the
\* variables named here.
LEMMA ListsKept ==
    ASSUME UNCHANGED <<versions, position, newTrack, added, removed>>
    PROVE  /\ Latest' = Latest /\ Current' = Current /\ Lists' = Lists
           /\ ItemsOf(Current)' = ItemsOf(Current)
           /\ ItemsOf(versions[added])' = ItemsOf(versions[added])
           /\ RemovesOnlyReplaced' = RemovesOnlyReplaced
           /\ original' = original =>
                /\ Target' = Target /\ Expected' = Expected /\ Checked' = Checked
           /\ request' # "applied" => Replaced'
           /\ Replaced /\ UNCHANGED <<original, request, created>> => Replaced'
  BY DEF Latest, Current, Lists, ItemsOf, RemovesOnlyReplaced, Target, Expected,
         Checked, Occurrences, InsertedAt, Replaced

------------------------------------------------------------------------------
(* The steps of the command *)

\* The first header, and the one read once the add is confirmed
LEMMA HeaderPreserves == ASSUME IInv, GetBefore \/ GetApplied PROVE IInv'
  <1> USE DEF IInv, GetBefore, GetApplied, addVars, deleteVars, End, Goto
  <1>1. /\ UNCHANGED <<versions, position, newTrack, original, addRequest, added,
                       request, removed>>
        /\ request # "applied"
    BY DEF Control
  <1>2. Versions'
    BY <1>1, ListsKept DEF Versions
  <1>3. Control'
    BY <1>1 DEF Control, HonestReport, AddStands
  <1>4. /\ Latest \in Nat \ {0} /\ Len(Current) \in Nat
        /\ SubSeq(ItemsOf(Current), 1, 0) = <<>> /\ Len(<<>>) = 0
        /\ <<>> \in Seq(Items)
    BY <1>1, CurrentTyped, SubSeqEmpty
  <1>5. Reading'
    <2>1. CASE ReadHeader
      <3>1. /\ snapshot' = Latest' /\ total' = Len(Current') /\ seen' = <<>>
            /\ pc' \in {"read", "verify", "done"}
            /\ pc' = "verify" => snapshot' = added'
            /\ ItemsOf(Current)' = ItemsOf(Current) /\ Latest' = Latest
            /\ Current' = Current
        BY <1>1, <2>1, ListsKept DEF ReadHeader, AddStands
      <3> QED
        BY <1>1, <1>4, <3>1 DEF Reading
    <2>2. CASE pc' = "done" /\ UNCHANGED readVars
      BY <1>1, <2>2 DEF Reading, readVars
    <2> QED
      BY <2>1, <2>2
  <1>6. Verified'
    BY <1>1, ListsKept DEF Verified, Control
  <1>7. Effect'
    BY <1>1, ListsKept DEF Effect
  <1> QED
    BY <1>2, <1>3, <1>5, <1>6, <1>7

\* A page continues the items of the version of the header while that is the
\* latest one.
LEMMA ReadItemsPreserves == ASSUME IInv, ReadItems PROVE IInv'
  <1> USE DEF IInv, ReadItems, ReadPage, commandVars, addVars, deleteVars
  <1>1. /\ UNCHANGED <<versions, position, newTrack, original, addRequest, added,
                       request, removed, pc, report, snapshot, total>>
        /\ request # "applied"
    BY DEF Control
  <1>2. Versions' /\ Effect' /\ Verified'
    BY <1>1, ListsKept DEF Versions, Effect, Verified
  <1>3. Control'
    BY <1>1 DEF Control, HonestReport
  <1>4. /\ ItemsOf(Current) \in Seq(Items) /\ Len(ItemsOf(Current)) = total
        /\ seen \in Seq(Items) /\ Len(seen) \in Nat /\ Len(seen) < total
    BY <1>1, CurrentTyped, LenProperties DEF Reading
  <1>5. Page(ItemsOf(Current), Len(seen)) \in Seq(Items)
    BY <1>4, PageTyped
  <1>6. seen' \in Seq(Items)
    BY <1>4, <1>5, ConcatProperties
  <1>7. ASSUME Latest = snapshot
        PROVE  /\ Len(seen') \in 0..total
               /\ seen' = SubSeq(ItemsOf(Current), 1, Len(seen'))
    <2>1. seen = SubSeq(ItemsOf(Current), 1, Len(seen))
      BY <1>7 DEF Reading
    <2>2. PICK n \in 0..total :
            /\ SubSeq(ItemsOf(Current), 1, Len(seen)) \o Page(ItemsOf(Current), Len(seen))
                 = SubSeq(ItemsOf(Current), 1, n)
            /\ Len(SubSeq(ItemsOf(Current), 1, n)) = n
      BY <1>4, PageFollows
    <2> QED
      BY <2>1, <2>2
  <1>8. Reading'
    <2>1. /\ Current' = Current /\ Latest' = Latest
          /\ ItemsOf(Current)' = ItemsOf(Current)
      BY <1>1, ListsKept
    <2> QED
      BY <1>1, <1>6, <1>7, <2>1 DEF Reading
  <1> QED
    BY <1>2, <1>3, <1>8

\* The last page is read: the list becomes the original one.
LEMMA CheckTargetPreserves == ASSUME IInv, CheckTarget PROVE IInv'
  <1> USE DEF IInv, CheckTarget, readVars, addVars, deleteVars
  <1>1. /\ UNCHANGED <<versions, position, newTrack, addRequest, added, request,
                       removed, snapshot, total, seen>>
        /\ request = "unsent"
    BY DEF Control
  <1>2. Versions' /\ Effect'
    BY <1>1, ListsKept DEF Versions, Effect
  <1>3. Control'
    BY <1>1 DEF Control, HonestReport
  <1>4. Reading'
    BY <1>1, ListsKept DEF Reading
  <1>5. Replaceable(seen, position, newTrack) => Checked'
    <2>1. original' = seen /\ Target' = seen[position + 1]
      BY <1>1 DEF Target
    <2> QED
      BY <1>1, <2>1 DEF Replaceable, Checked, Reading, Occurrences
  <1>6. Verified'
    BY <1>1, <1>5, ListsKept DEF Verified, Control
  <1> QED
    BY <1>2, <1>3, <1>4, <1>6

\* The items read back are compared with the expected list.
LEMMA CompareItemsPreserves == ASSUME IInv, CompareItems PROVE IInv'
  <1> USE DEF IInv, CompareItems, readVars, addVars, deleteVars, End, Goto
  <1>1. /\ UNCHANGED <<versions, position, newTrack, original, addRequest, added,
                       request, removed, snapshot, total, seen>>
        /\ request = "unsent" /\ pc' \in {"stable", "done"}
    BY DEF Control
  <1>2. Versions' /\ Effect'
    BY <1>1, ListsKept DEF Versions, Effect
  <1>3. Control'
    BY <1>1 DEF Control, HonestReport
  <1>4. Reading'
    BY <1>1, ListsKept DEF Reading
  <1>5. ASSUME pc' = "stable", Latest = added
        PROVE  ItemsOf(Current) = Expected
    <2>1. /\ ItemsOf(Current) \in Seq(Items)
          /\ seen = SubSeq(ItemsOf(Current), 1, Len(ItemsOf(Current)))
      BY <1>1, <1>5, CurrentTyped DEF Reading, ReadComplete
    <2>2. seen = ItemsOf(Current)
      BY <2>1, SubSeqFull
    <2> QED
      BY <1>5, <2>2
  <1>6. Verified'
    BY <1>1, <1>5, ListsKept DEF Verified
  <1> QED
    BY <1>2, <1>3, <1>4, <1>6

\* The last header before the DELETE
LEMMA GetStablePreserves == ASSUME IInv, GetStable PROVE IInv'
  <1> USE DEF IInv, GetStable, readVars, addVars, deleteVars, End, Goto
  <1>1. /\ UNCHANGED <<versions, position, newTrack, original, addRequest, added,
                       request, removed, snapshot, total, seen>>
        /\ request = "unsent" /\ pc' \in {"delete", "done"}
    BY DEF Control
  <1>2. Versions' /\ Effect'
    BY <1>1, ListsKept DEF Versions, Effect
  <1>3. Control'
    BY <1>1 DEF Control, HonestReport
  <1>4. Reading'
    BY <1>1, ListsKept DEF Reading
  <1>5. AddStands => ItemsOf(versions[added]) = Expected
    BY DEF AddStands, Verified, Current, Latest
  <1>6. Verified'
    BY <1>1, <1>5, ListsKept DEF Verified
  <1> QED
    BY <1>2, <1>3, <1>4, <1>6

\* The steps that only decide where the command goes, or send a request
LEMMA DecisionPreserves ==
    ASSUME IInv,
           \/ PageMismatches \/ ReadFails \/ Recheck \/ SendAdd \/ AddNotSent
           \/ AddConfirmed \/ AddRejected \/ AddUncertain \/ VerifyReadFails
           \/ SendDelete \/ DeleteNotSent \/ DeleteConfirmed
           \/ DeleteRejected \/ DeleteUncertain \/ WriteOutput
    PROVE  IInv'
  <1> USE DEF IInv, End, Goto, readVars, addVars, deleteVars
  <1>1. /\ UNCHANGED <<versions, position, newTrack, original, added, removed,
                       created, snapshot, total, seen>>
        /\ addRequest' = addRequest
             \/ (addRequest = "unsent" /\ addRequest' = "sent" /\ request = "unsent")
        /\ request' = request
             \/ (request = "unsent" /\ request' = "sent" /\ pc = "delete")
        /\ pc' \in {"add", "awaitAdd", "applied", "awaitDelete", "output", "done"}
        /\ pc' \in {"add", "awaitAdd", "applied"} => pc \in {"recheck", "add", "awaitAdd"}
        /\ pc' \in {"awaitDelete", "output"} => pc \in {"delete", "awaitDelete"}
    BY DEF PageMismatches, ReadFails, Recheck, SendAdd, AddNotSent, AddConfirmed,
           AddRejected, AddUncertain, VerifyReadFails, SendDelete, DeleteNotSent,
           DeleteConfirmed, DeleteRejected, DeleteUncertain, WriteOutput, Control
  <1>2. Versions' /\ Effect'
    BY <1>1, ListsKept DEF Versions, Effect
  <1>3. Reading'
    BY <1>1, ListsKept DEF Reading
  <1>4. Verified'
    BY <1>1, ListsKept DEF Verified, Control
  <1>5. CASE PageMismatches \/ ReadFails \/ Recheck \/ VerifyReadFails
    <2>1. Control'
      BY <1>5 DEF PageMismatches, ReadFails, Recheck, VerifyReadFails, Control,
                  HonestReport, Stages
    <2> QED
      BY <1>2, <1>3, <1>4, <2>1
  <1>6. CASE SendAdd \/ AddNotSent \/ AddConfirmed \/ AddRejected \/ AddUncertain
    <2>1. Control'
      BY <1>6 DEF SendAdd, AddNotSent, AddConfirmed, AddRejected, AddUncertain,
                  Control, HonestReport, Stages
    <2> QED
      BY <1>2, <1>3, <1>4, <2>1
  <1>7. CASE SendDelete \/ DeleteNotSent \/ DeleteConfirmed \/ DeleteRejected
             \/ DeleteUncertain \/ WriteOutput
    <2>1. Control'
      BY <1>7 DEF SendDelete, DeleteNotSent, DeleteConfirmed, DeleteRejected,
                  DeleteUncertain, WriteOutput, Control, HonestReport, Stages
    <2> QED
      BY <1>2, <1>3, <1>4, <2>1
  <1> QED
    BY <1>5, <1>6, <1>7

------------------------------------------------------------------------------
(* The service and the collaborators *)

\* Whoever makes a new version, what was read, checked and verified stays so.
LEMMA NewVersionPreserves ==
    ASSUME IInv, NEW list, Commit(list),
           UNCHANGED <<snapshot, total, seen, position, newTrack, original, pc>>,
           pc # "get", added' = added \/ pc \in {"awaitAdd", "done"}
    PROVE  /\ (versions \in Seq(Lists))' /\ Latest' = Latest + 1 /\ Latest' > 0
           /\ Reading' /\ Target' = Target /\ Expected' = Expected
           /\ Checked' = Checked
           /\ \A v \in 1..Latest : /\ versions'[v] = versions[v]
                                   /\ ItemsOf(versions'[v]) = ItemsOf(versions[v])
  <1> USE DEF IInv
  <1>1. /\ (versions \in Seq(Lists))' /\ Latest' = Latest + 1
        /\ \A v \in 1..Latest : versions'[v] = versions[v]
    BY CommitGrows DEF Versions
  <1>2. Latest \in Nat \ {0}
    BY CurrentTyped
  <1>3. Target' = Target /\ Expected' = Expected /\ Checked' = Checked
    BY DEF Target, Expected, Checked, Occurrences, InsertedAt
  <1>4. Reading'
    <2>1. pc = "verify" => added \in 1..Latest
      BY DEF Verified, Control
    <2>2. pc \in {"read", "verify"} => snapshot \in 1..Latest
      BY <2>1 DEF Reading
    <2>3. pc \in {"read", "verify"} => Latest' # snapshot'
      BY <1>1, <1>2, <2>2
    <2> QED
      BY <1>1, <1>2, <2>2, <2>3 DEF Reading
  <1> QED
    BY <1>1, <1>2, <1>3, <1>4

\* The service handles the POST: maybe after the command has ended, maybe on a
\* list that others have shortened.
LEMMA ServiceAddsPreserves == ASSUME IInv, ServiceAdds PROVE IInv'
  <1> USE DEF IInv, ServiceAdds, commandVars, readVars, deleteVars
  <1>1. /\ UNCHANGED <<snapshot, total, seen, position, newTrack, original, pc,
                       report, request, removed>>
        /\ addRequest = "sent" /\ addRequest' = "applied"
        /\ request = "unsent" /\ pc \in {"awaitAdd", "done"}
    BY DEF Control
  <1>2. PICK place \in 0..Len(Current) : Commit(AfterAdding(<<newTrack>>, place))
    <2>1. Len(Current) \in Nat /\ position \in Nat
      BY <1>1, CurrentTyped DEF Reading
    <2> QED
      BY <2>1
  <1>3. AfterAdding(<<newTrack>>, place) \in Seq(Entries)
    <2>1. Current \in Seq(Entries) /\ Latest \in Nat
      BY <1>1, CurrentTyped
    <2>2. newTrack \in Items
      BY DEF Reading, Items
    <2> QED
      BY <2>1, <2>2, OneInsertedTyped DEF AfterAdding
  <1>4. /\ (versions \in Seq(Lists))' /\ Latest' = Latest + 1 /\ Latest' > 0
        /\ Reading'
    BY <1>1, <1>2, NewVersionPreserves
  <1>5. versions' \in Seq(Seq(Entries))
    BY <1>1, <1>2, <1>3, CommitTyped DEF Versions
  <1>6. Versions'
    BY <1>4, <1>5 DEF Versions
  <1>7. Control'
    BY <1>1 DEF Control, HonestReport, Stages
  <1>8. Verified'
    <2>1. added' \in 1..Latest'
      BY <1>4, CurrentTyped
    <2>2. Checked' = Checked
      BY <1>1 DEF Checked, Target, Occurrences
    <2> QED
      BY <1>1, <2>1, <2>2 DEF Verified
  <1>9. Effect'
    BY <1>1 DEF Effect, RemovesOnlyReplaced, Replaced
  <1> QED
    BY <1>4, <1>6, <1>7, <1>8, <1>9

\* Of the list the add has made, the DELETE takes out the entry it names, which is
\* there, and leaves the replacement in its place.
LEMMA ReplacedIsTakenOut ==
    ASSUME IInv, request = "sent", Current = versions[added]
    PROVE  ItemsOf(Without(Current, Doomed)) = ReplaceAt(original, position + 1, newTrack)
  <1>1. PICK list \in Seq(Entries) : list = Current
    BY CurrentTyped DEF IInv
  <1>2. /\ original \in Seq(Items) /\ Target \in Tracks \ {newTrack} /\ newTrack \in Items
        /\ Occurrences(original, Target) = {position + 1} /\ position \in Nat
        /\ ItemsOf(list) = Expected
    BY <1>1 DEF IInv, Verified, Checked, Reading, Items
  <1>3. DOMAIN original = 1..Len(original) /\ Len(original) \in Nat
    BY <1>2, LenProperties
  <1>4. /\ position + 1 \in 1..Len(original) /\ position \in 0..Len(original)
        /\ \A i \in 1..Len(original) : original[i] = Target <=> i = position + 1
    <2>1. {i \in 1..Len(original) : original[i] = Target} = {position + 1}
      BY ONLY <1>2, <1>3 DEF Occurrences
    <2>2. position + 1 \in 1..Len(original)
      BY ONLY <2>1
    <2>3. \A i \in 1..Len(original) : original[i] = Target <=> i = position + 1
      BY ONLY <2>1
    <2>4. position \in Nat
      BY ONLY <1>2
    <2> QED
      BY ONLY <1>3, <2>2, <2>3, <2>4
  <1>5. Len(Expected) = Len(original) + 1
    BY <1>2, <1>4, InsertedAtFacts DEF Expected
  <1>6. \A n \in 1..(Len(original) + 1) :
          Expected[n] = IF n <= position THEN original[n]
                        ELSE IF n = position + 1 THEN newTrack ELSE original[n - 1]
    BY <1>2, <1>4, InsertedAtFacts DEF Expected
  <1>7. /\ Len(list) = Len(original) + 1 /\ DOMAIN list = 1..Len(list)
        /\ \A n \in 1..Len(list) : list[n].item = Expected[n]
    BY <1>2, <1>5, ItemsOfFacts, LenProperties
  <1>8. ASSUME NEW n \in 1..Len(list)
        PROVE  list[n].item = Target <=> n = position + 2
    <2>1. CASE n <= position
      BY <1>2, <1>3, <1>4, <1>6, <1>7, <2>1
    <2>2. CASE n = position + 1
      BY <1>2, <1>3, <1>4, <1>6, <1>7, <2>2
    <2>3. CASE n > position + 1
      <3>1. n - 1 \in 1..Len(original) /\ (n - 1 = position + 1 <=> n = position + 2)
        BY <1>2, <1>3, <1>7, <2>3
      <3>2. list[n].item = original[n - 1]
        BY <1>2, <1>3, <1>6, <1>7, <2>3
      <3> QED
        BY <1>4, <3>1, <3>2
    <2> QED
      BY <1>2, <1>3, <1>7, <2>1, <2>2, <2>3
  <1>9. position + 2 \in 1..Len(list) /\ position + 1 < Len(list)
        /\ (position + 1) + 1 = position + 2
    BY <1>2, <1>3, <1>4, <1>7
  <1>10. Doomed = {list[position + 2]}
    <2>1. list[position + 2].item = Target /\ list[position + 2] \in ToSet(list)
      BY <1>7, <1>8, <1>9 DEF ToSet
    <2> QED
      BY <1>1, <1>9, <2>1 DEF Doomed, DoomedAtPosition, DeletePosition
  <1>11. \A i \in 1..Len(list) : list[i] \in Doomed <=> i = position + 2
    BY <1>8, <1>9, <1>10
  <1>12. Without(list, Doomed) = RemoveAt(list, position + 2)
    BY <1>9, <1>11, WithoutOne
  <1>13. PICK p \in 1..Len(original) : p = position + 1
    BY <1>4
  <1>14. ItemsOf(list) = InsertedAt(original, p - 1, <<newTrack>>)
    BY <1>2, <1>13 DEF Expected
  <1>15. ItemsOf(RemoveAt(list, p + 1)) = ReplaceAt(original, p, newTrack)
    BY <1>2, <1>14, ReplacementLeft
  <1>16. p + 1 = position + 2
    BY <1>2, <1>13
  <1> QED
    BY <1>1, <1>12, <1>13, <1>15, <1>16

\* The service handles the DELETE: what it removes stood next to the replacement
\* in the version of the add.
LEMMA ServiceDeletesPreserves == ASSUME IInv, ServiceDeletes PROVE IInv'
  <1> USE DEF IInv, ServiceDeletes, commandVars, readVars, addVars
  <1>1. /\ UNCHANGED <<snapshot, total, seen, position, newTrack, original, pc,
                       report, addRequest, added>>
        /\ request = "sent" /\ request' = "applied" /\ addRequest = "applied"
        /\ pc \in {"awaitDelete", "done"} /\ removed' = Doomed
    BY DEF Control
  <1>2. PICK list : list = Without(Current, Doomed)
    OBVIOUS
  <1>3. /\ (versions \in Seq(Lists))' /\ Latest' = Latest + 1 /\ Latest' > 0
        /\ Reading' /\ Target' = Target /\ Expected' = Expected
        /\ Checked' = Checked
        /\ \A v \in 1..Latest : /\ versions'[v] = versions[v]
                                /\ ItemsOf(versions'[v]) = ItemsOf(versions[v])
    BY <1>1, <1>2, NewVersionPreserves
  <1>4. Latest \in Nat \ {0} /\ added \in 1..Latest /\ Current \in Seq(Entries)
    BY <1>1, CurrentTyped DEF Verified
  <1>5. Versions'
    <2>1. list \in Seq(Entries)
      BY <1>2, <1>4, WithoutTyped
    <2>2. versions' \in Seq(Seq(Entries))
      BY <1>1, <1>2, <2>1, CommitTyped DEF Versions
    <2> QED
      BY <1>3, <2>2 DEF Versions
  <1>6. Control'
    BY <1>1 DEF Control, HonestReport, Stages
  <1>7. Verified'
    <2>1. ItemsOf(versions[added])' = ItemsOf(versions[added])
      BY <1>1, <1>3, <1>4 DEF ItemsOf
    <2> QED
      BY <1>1, <1>3, <1>4, <2>1 DEF Verified
  <1>8. Effect'
    <2>1. versions'[added'] = versions[added]
      BY <1>1, <1>3, <1>4
    <2>2. PICK after : after = versions[added]
      OBVIOUS
    <2>3. /\ after \in Seq(Entries) /\ DOMAIN after = 1..Len(after)
          /\ Len(after) \in Nat
      BY <1>1, <1>4, <2>2, LenProperties DEF Versions, Latest
    <2>4. /\ Checked /\ ItemsOf(after) = Expected /\ position \in Nat
      BY <1>1, <2>2 DEF Verified, Reading
    <2>5. position + 1 \in DOMAIN original /\ original \in Seq(Items)
      BY <2>4 DEF Checked, Occurrences
    <2>6. position \in 0..Len(original)
      BY <2>4, <2>5, LenProperties
    <2>7. Expected[position + 1] = newTrack
      BY <2>5, <2>6, InsertedIsThere DEF Reading, Items, Expected
    <2>8. ASSUME NEW e \in Doomed
          PROVE  position + 2 \in 1..Len(after) /\ e = after[position + 2]
      <3>1. /\ position + 1 < Len(after)
            /\ e = after[position + 1 + 1]
        BY <2>2 DEF Doomed, DoomedAtPosition, DeletePosition
      <3> QED
        BY <2>3, <2>4, <3>1
    <2>9. Doomed # {} => /\ position + 2 \in DOMAIN after
                         /\ Doomed = {after[position + 2]}
                         /\ after[position + 1].item = newTrack
      <3> SUFFICES ASSUME NEW e \in Doomed
                   PROVE  /\ position + 2 \in DOMAIN after
                          /\ Doomed = {after[position + 2]}
                          /\ after[position + 1].item = newTrack
        OBVIOUS
      <3>1. position + 2 \in DOMAIN after /\ Doomed = {after[position + 2]}
        BY <2>3, <2>8
      <3>2. position + 1 \in DOMAIN after
        BY <2>3, <2>4, <3>1
      <3>3. ItemsOf(after)[position + 1] = after[position + 1].item
        BY <3>2 DEF ItemsOf
      <3> QED
        BY <2>4, <2>7, <3>1, <3>3
    <2>10. added # 0
      BY <1>4
    <2>11. created' = Latest + 1 /\ versions'[Latest + 1] = list
      BY <1>1, <1>2, CommittedLast DEF Versions
    <2>12. Replaced'
      <3>1. created' \in 1..Latest' /\ created' > added'
        BY <1>1, <1>3, <1>4, <2>11
      <3>2. ASSUME created' = added' + 1
            PROVE  ItemsOf(list) = ReplaceAt(original, position + 1, newTrack)
        <4>1. Current = versions[added]
          BY <1>1, <1>4, <2>11, <3>2 DEF Current
        <4> QED
          BY <1>1, <1>2, <4>1, ReplacedIsTakenOut
      <3>3. ItemsOf(versions[created])' = ItemsOf(list)
        BY <2>11 DEF ItemsOf
      <3> QED
        BY <1>1, <3>1, <3>2, <3>3 DEF Replaced
    <2> QED
      BY <1>1, <2>1, <2>2, <2>9, <2>10, <2>12 DEF Effect, RemovesOnlyReplaced
  <1> QED
    BY <1>3, <1>5, <1>6, <1>7, <1>8

\* A request refused changes nothing else.
LEMMA ServiceRefusesPreserves ==
    ASSUME IInv, ServiceRefusesAdd \/ ServiceRefusesDelete
    PROVE  IInv'
  <1> USE DEF IInv, ServiceRefusesAdd, ServiceRefusesDelete, commandVars, readVars,
              addVars, deleteVars
  <1>1. /\ UNCHANGED <<versions, position, newTrack, original, added, removed, pc,
                       created, snapshot, total, seen, report>>
        /\ \/ addRequest = "sent" /\ addRequest' = "refused" /\ request' = request
           \/ request = "sent" /\ request' = "refused" /\ addRequest' = addRequest
    OBVIOUS
  <1>2. Versions' /\ Effect'
    BY <1>1, ListsKept DEF Versions, Effect
  <1>3. Control'
    BY <1>1 DEF Control, HonestReport, Stages
  <1>4. Reading'
    BY <1>1, ListsKept DEF Reading
  <1>5. Verified'
    BY <1>1, ListsKept DEF Verified, Control
  <1> QED
    BY <1>2, <1>3, <1>4, <1>5

\* A collaborator edits the list at any moment.
LEMMA CollaboratorPreserves == ASSUME IInv, Collaborator PROVE IInv'
  <1> USE DEF IInv, Collaborator, commandVars, readVars, addVars, deleteVars
  <1>1. PICK list : Commit(list)
    BY DEF CollaboratorEdits, CollaboratorInserts, CollaboratorRemoves,
           CollaboratorMoves
  <1>2. UNCHANGED <<snapshot, total, seen, position, newTrack, original, pc,
                    report, addRequest, added, request, created, removed>>
    OBVIOUS
  <1>3. /\ (versions \in Seq(Lists))' /\ Latest' = Latest + 1 /\ Latest' > 0
        /\ Reading' /\ Target' = Target /\ Expected' = Expected
        /\ Checked' = Checked
        /\ \A v \in 1..Latest : /\ versions'[v] = versions[v]
                                /\ ItemsOf(versions'[v]) = ItemsOf(versions[v])
    BY <1>1, <1>2, NewVersionPreserves
  <1>4. Latest \in Nat \ {0} /\ (addRequest = "applied" => added \in 1..Latest)
    BY CurrentTyped DEF Verified
  <1>5. Versions'
    BY <1>2, <1>3, EditTyped DEF Versions
  <1>6. Control'
    BY <1>2 DEF Control, HonestReport
  <1>7. addRequest = "applied" => /\ versions'[added'] = versions[added]
                                  /\ ItemsOf(versions[added])' = ItemsOf(versions[added])
    BY <1>2, <1>3, <1>4 DEF ItemsOf
  <1>8. Verified'
    <2>1. pc = "stable" => addRequest = "applied"
      BY DEF Control
    <2>2. pc = "stable" => Latest' # added'
      BY <1>2, <1>3, <1>4, <2>1
    <2>3. pc = "delete" \/ request # "unsent" => addRequest = "applied"
      BY DEF Control
    <2> QED
      BY <1>2, <1>3, <1>4, <1>7, <2>2, <2>3 DEF Verified
  <1>9. Effect'
    <2>1. removed # {} => addRequest = "applied"
      BY DEF Effect, Control
    <2>2. ASSUME request = "applied"
          PROVE  /\ created \in 1..Latest /\ created \in 1..Latest'
                 /\ ItemsOf(versions[created])' = ItemsOf(versions[created])
      <3>1. created \in 1..Latest /\ created \in 1..Latest'
        BY <1>3, <1>4, <2>2 DEF Effect, Replaced
      <3> QED
        BY <1>2, <1>3, <3>1 DEF ItemsOf
    <2>3. Replaced'
      BY <1>2, <2>2 DEF Effect, Replaced
    <2> QED
      BY <1>2, <1>7, <2>1, <2>3 DEF Effect, RemovesOnlyReplaced
  <1> QED
    BY <1>3, <1>5, <1>6, <1>8, <1>9

\* Nothing happens.
LEMMA StutterPreserves == ASSUME IInv, UNCHANGED vars PROVE IInv'
  <1> USE DEF IInv, vars, readVars, commandVars, addVars, deleteVars
  <1>1. Versions' /\ Effect'
    BY ListsKept DEF Versions, Effect
  <1>2. Control'
    BY DEF Control, HonestReport
  <1>3. Reading' /\ Verified'
    BY ListsKept DEF Reading, Verified
  <1> QED
    BY <1>1, <1>2, <1>3

\* The invariant is inductive.
LEMMA NextPreserves == ASSUME IInv, [Next]_vars PROVE IInv'
  BY HeaderPreserves, ReadItemsPreserves, CheckTargetPreserves,
     CompareItemsPreserves, GetStablePreserves, DecisionPreserves,
     ServiceAddsPreserves, ServiceDeletesPreserves, ServiceRefusesPreserves,
     CollaboratorPreserves, StutterPreserves
     DEF Next, Command, Progress, Service, Finished

\* The steps keep every variable in its type: those the invariant leaves out follow
\* from it and from the step.
LEMMA TypesKept == ASSUME IInv, TypeOK, IInv', [Next]_vars PROVE TypeOK'
  <1> USE DEF readVars, commandVars, addVars, deleteVars
  <1>1. /\ Latest \in Nat \ {0} /\ Latest' \in Nat \ {0}
        /\ Current \in Seq(Entries) /\ Len(Current) \in Nat
        /\ versions' \in Seq(Seq(Entries)) /\ Latest' > 0
        /\ seen \in Seq(Items) /\ seen' \in Seq(Items)
        /\ position' \in Nat /\ newTrack' \in Tracks
        /\ pc' \in {"get", "read", "recheck", "add", "awaitAdd", "applied", "verify",
                    "stable", "delete", "awaitDelete", "output", "done"}
        /\ addRequest' \in Stages /\ request' \in Stages
    BY CurrentTyped, LenProperties DEF IInv, Versions, Control, Reading, Latest
  <1>2. /\ edits \in 0..MaxEdits /\ snapshot \in 0..Latest /\ total \in Nat
        /\ original \in Seq(Items) /\ added \in 0..Latest /\ created \in 0..Latest
        /\ removed \subseteq Entries /\ report \in Reports
    BY DEF TypeOK, PlaylistTypeOK, ReadTypeOK
  <1>3. Latest' >= Latest
    <2>1. ASSUME NEW list, Commit(list) PROVE Latest' = Latest + 1
      BY <2>1, CommitGrows DEF IInv, Versions
    <2>2. CASE UNCHANGED versions
      BY <1>1, <2>2 DEF Latest
    <2>3. CASE ServiceAdds \/ ServiceDeletes
      <3>1. PICK list : Commit(list)
        BY <2>3 DEF ServiceAdds, ServiceDeletes
      <3> QED
        BY <1>1, <2>1, <3>1
    <2>4. CASE Collaborator
      <3>1. PICK list : Commit(list)
        BY <2>4 DEF Collaborator, CollaboratorEdits, CollaboratorInserts,
                    CollaboratorRemoves, CollaboratorMoves
      <3> QED
        BY <1>1, <2>1, <3>1
    <2>5. ASSUME ~ServiceAdds, ~ServiceDeletes, ~Collaborator PROVE UNCHANGED versions
      BY <2>5 DEF Next, Command, Progress, Service, Finished, vars, GetBefore,
                  ReadItems, PageMismatches, CheckTarget, Recheck,
                  SendAdd, AddConfirmed, AddRejected,
                  AddUncertain, GetApplied, CompareItems,
                  GetStable, SendDelete, DeleteConfirmed,
                  DeleteRejected, DeleteUncertain, WriteOutput,
                  ReadFails, AddNotSent, VerifyReadFails,
                  DeleteNotSent, ServiceRefusesAdd,
                  ServiceRefusesDelete
    <2> QED
      BY <2>2, <2>3, <2>4, <2>5
  <1>4. edits' \in 0..MaxEdits
    <2>1. CASE Collaborator
      BY <1>2, <2>1, MaxEditsAssumption DEF Collaborator, CollaboratorEdits
    <2>2. CASE ~Collaborator
      BY <1>2, <2>2 DEF Next, Command, Progress, Service, Finished, vars, GetBefore,
                        ReadItems, PageMismatches,
                        CheckTarget, Recheck, SendAdd,
                        AddConfirmed, AddRejected,
                        AddUncertain, GetApplied,
                        CompareItems, GetStable, SendDelete,
                        DeleteConfirmed, DeleteRejected,
                        DeleteUncertain, WriteOutput,
                        ReadFails, AddNotSent,
                        VerifyReadFails, DeleteNotSent,
                        ServiceAdds, ServiceRefusesAdd,
                        ServiceDeletes, ServiceRefusesDelete
    <2> QED
      BY <2>1, <2>2
  <1>5. snapshot' \in 0..Latest' /\ total' \in Nat
    <2>1. CASE ReadHeader /\ UNCHANGED versions
      BY <1>1, <2>1 DEF ReadHeader, Latest
    <2>2. CASE UNCHANGED <<snapshot, total>>
      BY <1>1, <1>2, <1>3, <2>2
    <2>3. (ReadHeader /\ UNCHANGED versions) \/ UNCHANGED <<snapshot, total>>
      BY DEF Next, Command, Progress, Service, Finished, vars, GetBefore, ReadItems,
             PageMismatches, CheckTarget, Recheck, SendAdd,
             AddConfirmed, AddRejected, AddUncertain, GetApplied,
             CompareItems, GetStable, SendDelete, DeleteConfirmed,
             DeleteRejected, DeleteUncertain, WriteOutput, ReadFails,
             AddNotSent, VerifyReadFails, DeleteNotSent, ServiceAdds,
             ServiceRefusesAdd, ServiceDeletes, ServiceRefusesDelete,
             Collaborator, ReadPage
    <2> QED
      BY <2>1, <2>2, <2>3
  <1>6. original' \in Seq(Items)
    BY <1>1, <1>2 DEF Next, Command, Progress, Service, Finished, vars, GetBefore,
                      ReadItems, PageMismatches, CheckTarget,
                      Recheck, SendAdd, AddConfirmed,
                      AddRejected, AddUncertain, GetApplied,
                      CompareItems, GetStable, SendDelete,
                      DeleteConfirmed, DeleteRejected,
                      DeleteUncertain, WriteOutput, ReadFails,
                      AddNotSent, VerifyReadFails,
                      DeleteNotSent, ServiceAdds,
                      ServiceRefusesAdd, ServiceDeletes,
                      ServiceRefusesDelete, Collaborator, End,
                      Goto
  <1>7. added' \in 0..Latest' /\ created' \in 0..Latest'
    <2>1. ServiceAdds => added' \in 1..Latest'
      BY DEF IInv, Verified, ServiceAdds
    <2>2. ServiceDeletes => created' \in 1..Latest'
      BY DEF IInv, Effect, Replaced, ServiceDeletes
    <2>3. added' = added \/ ServiceAdds
      BY DEF Next, Command, Progress, Service, Finished, vars, GetBefore, ReadItems,
             PageMismatches, CheckTarget, Recheck, SendAdd,
             AddConfirmed, AddRejected, AddUncertain, GetApplied,
             CompareItems, GetStable, SendDelete, DeleteConfirmed,
             DeleteRejected, DeleteUncertain, WriteOutput, ReadFails,
             AddNotSent, VerifyReadFails, DeleteNotSent,
             ServiceRefusesAdd, ServiceDeletes, ServiceRefusesDelete,
             Collaborator
    <2>4. created' = created \/ ServiceDeletes
      BY DEF Next, Command, Progress, Service, Finished, vars, GetBefore, ReadItems,
             PageMismatches, CheckTarget, Recheck, SendAdd,
             AddConfirmed, AddRejected, AddUncertain, GetApplied,
             CompareItems, GetStable, SendDelete, DeleteConfirmed,
             DeleteRejected, DeleteUncertain, WriteOutput, ReadFails,
             AddNotSent, VerifyReadFails, DeleteNotSent, ServiceAdds,
             ServiceRefusesAdd, ServiceRefusesDelete, Collaborator
    <2> QED
      BY <1>1, <1>2, <1>3, <2>1, <2>2, <2>3, <2>4
  <1>8. removed' \subseteq Entries
    <2>1. CASE ServiceDeletes
      <3>1. removed' \subseteq ToSet(Current)
        BY <2>1 DEF ServiceDeletes, Doomed, DoomedAtPosition
      <3>2. ToSet(Current) \subseteq Entries
        BY <1>1, LenProperties DEF ToSet
      <3> QED
        BY <3>1, <3>2
    <2>2. CASE ~ServiceDeletes
      BY <1>2, <2>2 DEF Next, Command, Progress, Service, Finished, vars, GetBefore,
                        ReadItems, PageMismatches,
                        CheckTarget, Recheck, SendAdd,
                        AddConfirmed, AddRejected,
                        AddUncertain, GetApplied,
                        CompareItems, GetStable, SendDelete,
                        DeleteConfirmed, DeleteRejected,
                        DeleteUncertain, WriteOutput,
                        ReadFails, AddNotSent,
                        VerifyReadFails, DeleteNotSent,
                        ServiceAdds, ServiceRefusesAdd,
                        ServiceRefusesDelete, Collaborator
    <2> QED
      BY <2>1, <2>2
  <1>9. report' \in Reports
    BY <1>2 DEF Next, Command, Progress, Service, Finished, vars, GetBefore,
                ReadItems, PageMismatches, CheckTarget, Recheck,
                SendAdd, AddConfirmed, AddRejected, AddUncertain,
                GetApplied, CompareItems, GetStable, SendDelete,
                DeleteConfirmed, DeleteRejected, DeleteUncertain,
                WriteOutput, ReadFails, AddNotSent, VerifyReadFails,
                DeleteNotSent, ServiceAdds, ServiceRefusesAdd,
                ServiceDeletes, ServiceRefusesDelete, Collaborator,
                End, Goto, Reports
  <1> QED
    BY <1>1, <1>4, <1>5, <1>6, <1>7, <1>8, <1>9 DEF TypeOK, PlaylistTypeOK, ReadTypeOK

------------------------------------------------------------------------------
(* The theorems *)

\* The invariant holds in every state of every behaviour of updatePlaylistItem.
THEOREM Invariance == Spec => []IInv
  BY InitIInv, NextPreserves, PTL DEF Spec

\* Every variable of an update keeps its type, whatever the DELETE leaves and whoever
\* edits the list: in particular it stays a list of entries.
THEOREM TypeCorrect == Spec => []TypeOK
  <1>1. Init => TypeOK
    <2> SUFFICES ASSUME Init PROVE TypeOK
      OBVIOUS
    <2>1. IInv
      BY InitIInv
    <2>2. PlaylistTypeOK
      BY <2>1, MaxEditsAssumption DEF IInv, Init, PlaylistInit, PlaylistTypeOK, Versions
    <2>3. Latest \in Nat \ {0}
      BY <2>1, CurrentTyped DEF IInv
    <2>4. ReadTypeOK
      BY <2>3, EmptySeq DEF Init, ReadInit, ReadTypeOK
    <2> QED
      BY <2>2, <2>3, <2>4, EmptySeq, MaxInitialAssumption
         DEF Init, TypeOK, Reports, Stages
  <1>2. IInv /\ TypeOK /\ [Next]_vars => IInv' /\ TypeOK'
    BY NextPreserves, TypesKept
  <1> QED
    BY <1>1, <1>2, InitIInv, PTL DEF Spec

\* updatePlaylistItem sends the DELETE only when the version whose snapshot id it
\* carries is the list read before the add with nothing but the replacement
\* inserted, whatever collaborators do while pages are read.
THEOREM ReplacementIsGuarded == Spec => []GuardedReplacement
  <1>1. IInv => GuardedReplacement
    BY DEF IInv, Verified, Checked, GuardedReplacement
  <1> QED
    BY <1>1, Invariance, PTL

\* The DELETE takes out at most the one occurrence next to the replacement.
THEOREM OnlyReplacedIsRemoved == Spec => []RemovesOnlyReplaced
  <1>1. IInv => RemovesOnlyReplaced
    BY DEF IInv, Effect
  <1> QED
    BY <1>1, Invariance, PTL

\* Reports agree with what happened to both requests, in every later state too.
THEOREM ReportsAreHonest == Spec => []HonestReport
  <1>1. IInv => HonestReport
    BY DEF IInv, Control
  <1> QED
    BY <1>1, Invariance, PTL

\* A list with one track replaced by a new one is replaceable back, and then as it was.
LEMMA ReplacedBack ==
    ASSUME IInv, Checked, NEW items, items = ReplaceAt(original, position + 1, newTrack)
    PROVE  /\ Replaceable(items, position, Target)
           /\ ReplaceAt(items, position + 1, Target) = original
  <1>1. PICK at : at = position + 1
    OBVIOUS
  <1>2. /\ original \in Seq(Items) /\ newTrack \in Tracks /\ newTrack \in Items
        /\ Target \in Tracks \ {newTrack} /\ Target \in Items
    BY DEF Checked, IInv, Reading, Items
  <1>3. DOMAIN original = 1..Len(original)
    BY <1>2, LenProperties
  <1>4. /\ at \in 1..Len(original)
        /\ \A i \in 1..Len(original) : original[i] = Target => i = at
        /\ \A i \in 1..Len(original) : original[i] # newTrack
        /\ original[at] = Target
    BY <1>1, <1>3 DEF Checked, Occurrences, Target
  <1>5. items = [original EXCEPT ![at] = newTrack]
    BY <1>1 DEF ReplaceAt
  <1>6. /\ items \in Seq(Items) /\ Len(items) = Len(original)
        /\ \A i \in 1..Len(original) :
             items[i] = IF i = at THEN newTrack ELSE original[i]
    BY <1>2, <1>4, <1>5, ExceptSeq
  <1>7. DOMAIN items = 1..Len(original)
    BY <1>6, LenProperties
  <1>8. items[at] = newTrack
    BY <1>4, <1>6
  <1>9. Occurrences(items, newTrack) = {at}
    BY <1>4, <1>6, <1>7 DEF Occurrences
  <1>10. Occurrences(items, Target) = {}
    BY <1>2, <1>4, <1>6, <1>7 DEF Occurrences
  <1>11. Replaceable(items, position, Target)
    BY <1>1, <1>2, <1>8, <1>9, <1>10 DEF Replaceable
  <1>12. /\ ReplaceAt(items, at, Target) \in Seq(Items)
         /\ Len(ReplaceAt(items, at, Target)) = Len(original)
         /\ \A i \in 1..Len(original) :
              ReplaceAt(items, at, Target)[i] = IF i = at THEN Target ELSE items[i]
    BY <1>2, <1>4, <1>6, ExceptSeq DEF ReplaceAt
  <1>13. \A i \in 1..Len(original) : ReplaceAt(items, at, Target)[i] = original[i]
    BY <1>4, <1>6, <1>12
  <1>14. ReplaceAt(items, at, Target) = original
    BY <1>2, <1>12, <1>13, SeqEqual
  <1> QED
    BY <1>1, <1>11, <1>14

\* When nobody edits the list between the add and the DELETE, what updatePlaylistItem
\* leaves is the list it read with one item replaced, and an update with the old track
\* takes that list and restores the one read, for lists of any length.
THEOREM UpdateReplacesInPlace == Spec => []ReplacesInPlace
  <1>1. IInv => ReplacesInPlace
    <2> SUFFICES ASSUME IInv, report = "updated", added = Latest - 1
                 PROVE  /\ ItemsOf(Current) = ReplaceAt(original, position + 1, newTrack)
                        /\ Replaceable(ItemsOf(Current), position, Target)
                        /\ ReplaceAt(ItemsOf(Current), position + 1, Target) = original
      BY DEF ReplacesInPlace
    <2>1. request = "applied" /\ addRequest = "applied"
      BY DEF IInv, Control, HonestReport
    <2>2. Latest \in Nat \ {0} /\ added \in 1..Latest
      BY <2>1, CurrentTyped DEF IInv, Verified
    <2>3. created = Latest /\ created = added + 1
      BY <2>1, <2>2 DEF IInv, Effect, Replaced
    <2>4. ItemsOf(Current) = ReplaceAt(original, position + 1, newTrack)
      BY <2>1, <2>3 DEF IInv, Effect, Replaced, Current
    <2>5. Checked
      BY <2>1 DEF IInv, Verified
    <2> QED
      BY <2>4, <2>5, ReplacedBack
  <1> QED
    BY <1>1, Invariance, PTL
------------------------------------------------------------------------------
(* The add and the DELETE are calls *)

\* What the caller of AddPlaylistItems is told of the add: whatever comes after it
\* is only done, and said, once it is confirmed;
AddVerdict ==
    CASE \/ pc \in {"applied", "verify", "stable", "delete", "awaitDelete", "output"}
         \/ report \in {"reconcileVerify", "partial", "reconcileRemove", "updated",
                        "outputFailed"} -> "confirmed"
      [] report = "rejected" -> "rejected"
      [] report = "reconcileAdd" -> "uncertain"
      [] OTHER -> "none"

\* and that of RemovePlaylistItemAtPosition of the DELETE.
DeleteVerdict ==
    CASE pc = "output" \/ report \in {"updated", "outputFailed"} -> "confirmed"
      [] report = "partial" -> "rejected"
      [] report = "reconcileRemove" -> "uncertain"
      [] OTHER -> "none"

AddCall == INSTANCE MutationCall WITH
               applications <- IF addRequest = "applied" THEN 1 ELSE 0,
               verdict <- AddVerdict
DeleteCall == INSTANCE MutationCall WITH
                  applications <- IF request = "applied" THEN 1 ELSE 0,
                  verdict <- DeleteVerdict

\* Each step is one of the add's or none, and one of the DELETE's or none.
LEMMA StepIsCalls ==
    ASSUME IInv, [Next]_vars
    PROVE  [AddCall!Next]_(AddCall!vars) /\ [DeleteCall!Next]_(DeleteCall!vars)
  <1> USE DEF AddCall!vars, AddCall!Next, AddCall!Apply, AddCall!Confirm, AddCall!Reject,
              AddCall!DoubtOutcome, DeleteCall!vars, DeleteCall!Next, DeleteCall!Apply,
              DeleteCall!Confirm, DeleteCall!Reject, DeleteCall!DoubtOutcome
  <1>1. Control
    BY DEF IInv
  <1>2. ASSUME UNCHANGED <<pc, addRequest, request, report>>
        PROVE  UNCHANGED AddCall!vars /\ UNCHANGED DeleteCall!vars
    BY <1>2 DEF AddVerdict, DeleteVerdict
  <1>3. CASE ReadItems \/ Collaborator \/ Finished \/ UNCHANGED vars
    BY <1>2, <1>3 DEF ReadItems, Collaborator, Finished, vars, commandVars, addVars, deleteVars
  <1>4. CASE GetBefore \/ (PageMismatches /\ pc = "read") \/ CheckTarget \/ Recheck \/ ReadFails
    <2>1. /\ addRequest' = addRequest /\ request' = request /\ report = "none"
          /\ pc \in {"get", "read", "recheck"} /\ pc' \in {"read", "recheck", "add", "done"}
          /\ report' \in {"none", "usage", "changed", "failed"}
      BY <1>1, <1>4 DEF Control, GetBefore, PageMismatches, CheckTarget, Recheck, ReadFails,
                        End, Goto, addVars, deleteVars
    <2> QED
      BY <2>1 DEF AddVerdict, DeleteVerdict
  <1>5. CASE \/ GetApplied \/ (PageMismatches /\ pc # "read") \/ CompareItems \/ GetStable
             \/ VerifyReadFails \/ SendDelete
    <2>1. /\ addRequest' = addRequest /\ report = "none"
          /\ pc \in {"applied", "verify", "stable", "delete"}
          /\ \/ pc' \in {"verify", "stable", "delete", "awaitDelete"} /\ report' = "none"
             \/ pc' = "done" /\ report' = "reconcileVerify"
          /\ (request' = "applied") = (request = "applied")
      BY <1>1, <1>5 DEF Control, GetApplied, PageMismatches, CompareItems, GetStable,
                        VerifyReadFails, SendDelete, End, Goto, addVars, deleteVars
    <2> QED
      BY <2>1 DEF AddVerdict, DeleteVerdict
  <1>6. CASE SendAdd \/ AddNotSent \/ AddConfirmed \/ AddRejected \/ AddUncertain
    <2>1. /\ request' = request /\ report = "none" /\ pc \in {"add", "awaitAdd"}
          /\ \/ /\ pc' = "awaitAdd" /\ report' = "none"
                /\ addRequest = "unsent" /\ addRequest' = "sent"
             \/ /\ pc' = "applied" /\ report' = "none"
                /\ addRequest = "applied" /\ addRequest' = "applied"
             \/ /\ pc' = "done" /\ report' = "rejected"
                /\ addRequest # "applied" /\ addRequest' = addRequest
             \/ pc' = "done" /\ report' = "reconcileAdd" /\ addRequest' = addRequest
      BY <1>1, <1>6 DEF Control, SendAdd, AddNotSent, AddConfirmed, AddRejected, AddUncertain,
                        End, Goto, addVars, deleteVars
    <2> QED
      BY <2>1 DEF AddVerdict, DeleteVerdict
  <1>7. CASE DeleteNotSent \/ DeleteConfirmed \/ DeleteRejected \/ DeleteUncertain \/ WriteOutput
    <2>1. /\ addRequest' = addRequest /\ request' = request /\ report = "none"
          /\ \/ /\ pc = "awaitDelete" /\ pc' = "output" /\ report' = "none"
                /\ request = "applied"
             \/ /\ pc \in {"delete", "awaitDelete"} /\ pc' = "done" /\ report' = "partial"
                /\ request # "applied"
             \/ /\ pc \in {"delete", "awaitDelete"} /\ pc' = "done"
                /\ report' = "reconcileRemove"
             \/ pc = "output" /\ pc' = "done" /\ report' \in {"updated", "outputFailed"}
      BY <1>1, <1>7 DEF Control, DeleteNotSent, DeleteConfirmed, DeleteRejected,
                        DeleteUncertain, WriteOutput, End, Goto, addVars, deleteVars
    <2> QED
      BY <2>1 DEF AddVerdict, DeleteVerdict
  <1>8. CASE ServiceAdds \/ ServiceRefusesAdd
    <2>1. /\ addRequest = "sent" /\ addRequest' \in {"applied", "refused"}
          /\ pc' = pc /\ report' = report /\ request' = request
      BY <1>8 DEF ServiceAdds, ServiceRefusesAdd, commandVars, deleteVars
    <2>2. AddVerdict \in {"none", "uncertain"}
      BY <1>1, <2>1 DEF Control, HonestReport, AddVerdict
    <2> QED
      BY <2>1, <2>2 DEF AddVerdict, DeleteVerdict
  <1>9. CASE ServiceDeletes \/ ServiceRefusesDelete
    <2>1. /\ request = "sent" /\ request' \in {"applied", "refused"}
          /\ pc' = pc /\ report' = report /\ addRequest' = addRequest
      BY <1>9 DEF ServiceDeletes, ServiceRefusesDelete, commandVars, addVars
    <2>2. DeleteVerdict \in {"none", "uncertain"}
      BY <1>1, <2>1 DEF Control, HonestReport, DeleteVerdict
    <2> QED
      BY <2>1, <2>2 DEF AddVerdict, DeleteVerdict
  <1> QED
    BY <1>3, <1>4, <1>5, <1>6, <1>7, <1>8, <1>9 DEF Next, Command, Progress, Service

\* Seen from outside, the add of an update and its DELETE are one call each, as
\* MutationCall has it: applied once at most, and reported with the call's verdict.
THEOREM MutationsAreCalls == Spec => AddCall!Spec /\ DeleteCall!Spec
  <1>1. Init => AddCall!Init /\ DeleteCall!Init
    BY DEF Init, AddCall!Init, DeleteCall!Init, AddVerdict, DeleteVerdict
  <1>2. IInv /\ [Next]_vars =>
          [AddCall!Next]_(AddCall!vars) /\ [DeleteCall!Next]_(DeleteCall!vars)
    BY StepIsCalls
  <1> QED
    BY <1>1, <1>2, Invariance, PTL DEF Spec, AddCall!Spec, DeleteCall!Spec
=============================================================================
