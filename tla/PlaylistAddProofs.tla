--------------------------- MODULE PlaylistAddProofs ---------------------------
(***************************************************************************)
(* An add is honestly reported, goes out in turn, and its record locates   *)
(* what it added: for any list, any number of tracks, any batch size and   *)
(* any number of edits. The argument for the record: every batch is a      *)
(* version of its own, so if no more versions were made than batches sent, *)
(* each batch was inserted where the one before it ended, into the list    *)
(* that one left, and together they are what one insertion of all of them  *)
(* would have made.                                                        *)
(***************************************************************************)
EXTENDS PlaylistAdd, PlaylistReadProofs

\* The versions form a sequence of lists.
Versions == versions \in Seq(Seq(Entries)) /\ Latest > 0

\* How pc, the request, the report and the record go together
Control ==
    /\ pc \in {"get", "add", "await", "output", "done"}
    /\ request \in {"unsent", "sent", "applied", "refused"}
    /\ pc \in {"get", "add"} => request = "unsent"
    /\ pc = "await" => request # "unsent"
    /\ pc \in {"get", "add", "await"} => report = "none" /\ record = NoRecord
    /\ pc = "output" => record # NoRecord
    /\ report \in {"none", "usage", "failed", "rejected", "uncertain"} <=> record = NoRecord
    /\ report \in {"usage", "failed", "rejected"} =>
         completed = 0 /\ request \in {"unsent", "refused"}
    /\ record # NoRecord =>
         /\ completed > 0 /\ request \in {"unsent", "refused"}
         /\ record = [start |-> startPosition, count |-> completed,
                      snapshot |-> finalSnapshot]

\* What the service has added is what was confirmed, and the batch it performed last
\* if that is not confirmed.
Progressing ==
    /\ uris \in Seq(Tracks) /\ Len(uris) > 0 /\ position \in Nat \cup {AtEnd}
    /\ completed \in 0..Len(uris)
    /\ pc = "get" => completed = 0
    /\ pc \in {"add", "await"} \/ request \in {"sent", "applied"} => completed < Len(uris)
    /\ landed = IF request = "applied" THEN BatchEnd ELSE completed

\* The number of batches that count tracks fill
Batches(count) == IF count = 0 THEN 0 ELSE (count - 1) \div BatchSize + 1

\* The items of the list first found, with the first tracks inserted
WithFirst(count) ==
    InsertedAt(ItemsOf(versions[header]), startPosition, SubSeq(uris, 1, count))

\* Version v came after so many tracks were added; if nobody else made a version
\* before it, it holds these and the items first found.
Stands(v, count) ==
    /\ v \in header..Latest
    /\ v - header >= Batches(count)
    /\ v - header = Batches(count) => ItemsOf(versions[v]) = WithFirst(count)

\* The last version known to hold what was confirmed
Confirmed == IF completed = 0 THEN header ELSE finalSnapshot

\* While the command goes on: where the batches confirmed, and the one just
\* performed, stand
Placed ==
    pc \in {"add", "await", "output"} \/ record # NoRecord =>
        /\ header \in 1..Latest
        /\ startPosition \in 0..Len(versions[header])
        /\ startPosition = IF position = AtEnd THEN Len(versions[header]) ELSE position
        /\ completed < Len(uris) => completed = Batches(completed) * BatchSize
        /\ Stands(Confirmed, completed)
        /\ pc = "await" /\ request = "applied" => Stands(created, BatchEnd)

IInv == Versions /\ Control /\ Progressing /\ Placed

------------------------------------------------------------------------------
(* Lists *)

\* A list put together of two parts begins with the one and ends with the other.
LEMMA PartsOfConcat ==
    ASSUME NEW S, NEW s \in Seq(S), NEW t \in Seq(S)
    PROVE  /\ SubSeq(s \o t, 1, Len(s)) = s
           /\ SubSeq(s \o t, Len(s) + 1, Len(s \o t)) = t
  <1>1. /\ Len(s) \in Nat /\ Len(t) \in Nat
        /\ s \o t \in Seq(S) /\ Len(s \o t) = Len(s) + Len(t)
        /\ \A i \in 1..(Len(s) + Len(t)) :
             (s \o t)[i] = IF i <= Len(s) THEN s[i] ELSE t[i - Len(s)]
    BY ConcatProperties, LenProperties
  <1>2. \A i \in 1..(Len(s) + Len(t)) : (s \o t)[i] \in S
    BY <1>1, ElementOfSeq
  <1>3. SubSeq(s \o t, 1, Len(s)) = s
    <2>1. /\ SubSeq(s \o t, 1, Len(s)) \in Seq(S)
          /\ Len(SubSeq(s \o t, 1, Len(s))) = Len(s)
          /\ \A i \in 1..Len(s) : SubSeq(s \o t, 1, Len(s))[i] = (s \o t)[i]
      BY <1>1, <1>2
    <2> QED
      BY <1>1, <2>1, SeqEqual
  <1>4. SubSeq(s \o t, Len(s) + 1, Len(s \o t)) = t
    <2>1. /\ SubSeq(s \o t, Len(s) + 1, Len(s) + Len(t)) \in Seq(S)
          /\ Len(SubSeq(s \o t, Len(s) + 1, Len(s) + Len(t))) = Len(t)
          /\ \A i \in 1..Len(t) :
               SubSeq(s \o t, Len(s) + 1, Len(s) + Len(t))[i] = (s \o t)[Len(s) + i]
      BY <1>1, <1>2
    <2> QED
      BY <1>1, <2>1, SeqEqual
  <1> QED
    BY <1>3, <1>4

\* What is inserted is a list, and the list is as much longer.
LEMMA InsertedTyped ==
    ASSUME NEW S, NEW list \in Seq(S), NEW place \in 0..Len(list), NEW others \in Seq(S)
    PROVE  /\ InsertedAt(list, place, others) \in Seq(S)
           /\ Len(InsertedAt(list, place, others)) = Len(list) + Len(others)
  <1> DEFINE before == SubSeq(list, 1, place)
             after  == SubSeq(list, place + 1, Len(list))
  <1>1. /\ before \in Seq(S) /\ Len(before) = place
        /\ after \in Seq(S) /\ Len(after) = Len(list) - place
        /\ Len(list) \in Nat /\ Len(others) \in Nat
    BY LenProperties
  <1> HIDE DEF before, after
  <1>2. before \o others \in Seq(S) /\ Len(before \o others) = place + Len(others)
    BY <1>1, ConcatProperties
  <1>3. /\ (before \o others) \o after \in Seq(S)
        /\ Len((before \o others) \o after) = place + Len(others) + (Len(list) - place)
    <2> DEFINE middle == before \o others
    <2> HIDE DEF middle
    <2>1. middle \o after \in Seq(S) /\ Len(middle \o after) = Len(middle) + Len(after)
      BY <1>1, <1>2, ConcatProperties DEF middle
    <2> QED
      BY <1>1, <1>2, <2>1 DEF middle
  <1>4. InsertedAt(list, place, others) = (before \o others) \o after
    BY DEF InsertedAt, before, after
  <1>5. place + Len(others) + (Len(list) - place) = Len(list) + Len(others)
    BY <1>1
  <1> QED
    BY <1>3, <1>4, <1>5

\* Two insertions, the second where the first ends, are one: what a positioned
\* add of several batches comes down to.
LEMMA InsertedInTurn ==
    ASSUME NEW S, NEW list \in Seq(S), NEW place \in 0..Len(list),
           NEW first \in Seq(S), NEW second \in Seq(S)
    PROVE  InsertedAt(InsertedAt(list, place, first), place + Len(first), second)
             = InsertedAt(list, place, first \o second)
  <1> DEFINE before == SubSeq(list, 1, place)
             after  == SubSeq(list, place + 1, Len(list))
             middle == before \o first
  <1>1. /\ before \in Seq(S) /\ Len(before) = place /\ after \in Seq(S)
        /\ Len(list) \in Nat /\ Len(first) \in Nat
    BY LenProperties
  <1>2. InsertedAt(list, place, first) = middle \o after
    BY DEF InsertedAt
  <1>3. InsertedAt(list, place, first \o second) = (before \o (first \o second)) \o after
    BY DEF InsertedAt
  <1> HIDE DEF before, after
  <1>4. middle \in Seq(S) /\ Len(middle) = place + Len(first)
    BY <1>1, ConcatProperties
  <1>5. /\ SubSeq(middle \o after, 1, place + Len(first)) = middle
        /\ SubSeq(middle \o after, place + Len(first) + 1, Len(middle \o after)) = after
    <2> HIDE DEF middle
    <2> QED
      BY <1>1, <1>4, PartsOfConcat
  <1>6. InsertedAt(middle \o after, place + Len(first), second) = (middle \o second) \o after
    BY <1>5 DEF InsertedAt
  <1>7. middle \o second = before \o (first \o second)
    <2>1. before \in Seq(S) /\ first \in Seq(S) /\ second \in Seq(S)
      BY <1>1
    <2>2. (before \o first) \o second = before \o (first \o second)
      BY <2>1, ConcatAssociative
    <2> QED
      BY <2>2
  <1> QED
    BY <1>2, <1>3, <1>6, <1>7

\* The items of the parts of a list are the parts of its items.
LEMMA ItemsOfConcat ==
    ASSUME NEW s \in Seq(Entries), NEW t \in Seq(Entries)
    PROVE  ItemsOf(s \o t) = ItemsOf(s) \o ItemsOf(t)
  <1>1. /\ s \o t \in Seq(Entries) /\ Len(s \o t) = Len(s) + Len(t)
        /\ \A i \in 1..(Len(s) + Len(t)) :
             (s \o t)[i] = IF i <= Len(s) THEN s[i] ELSE t[i - Len(s)]
        /\ Len(s) \in Nat /\ Len(t) \in Nat
        /\ DOMAIN s = 1..Len(s) /\ DOMAIN t = 1..Len(t)
    BY ConcatProperties, LenProperties
  <1>2. /\ ItemsOf(s) \in Seq(Items) /\ Len(ItemsOf(s)) = Len(s)
        /\ ItemsOf(t) \in Seq(Items) /\ Len(ItemsOf(t)) = Len(t)
        /\ ItemsOf(s \o t) \in Seq(Items) /\ Len(ItemsOf(s \o t)) = Len(s) + Len(t)
    BY <1>1, ItemsAreSequence
  <1>3. /\ ItemsOf(s) \o ItemsOf(t) \in Seq(Items)
        /\ Len(ItemsOf(s) \o ItemsOf(t)) = Len(s) + Len(t)
        /\ \A i \in 1..(Len(s) + Len(t)) :
             (ItemsOf(s) \o ItemsOf(t))[i] =
               IF i <= Len(s) THEN ItemsOf(s)[i] ELSE ItemsOf(t)[i - Len(s)]
    BY <1>2, ConcatProperties
  <1>4. ASSUME NEW i \in 1..(Len(s) + Len(t))
        PROVE  ItemsOf(s \o t)[i] = (ItemsOf(s) \o ItemsOf(t))[i]
    <2>1. DOMAIN (s \o t) = 1..(Len(s) + Len(t))
      BY <1>1, LenProperties
    <2>2. ItemsOf(s \o t)[i] = (s \o t)[i].item
      BY <2>1 DEF ItemsOf
    <2>3. CASE i <= Len(s)
      <3>1. i \in DOMAIN s
        BY <1>1, <2>3
      <3>2. ItemsOf(s)[i] = s[i].item
        BY <3>1 DEF ItemsOf
      <3> QED
        BY <1>1, <1>3, <2>2, <2>3, <3>2
    <2>4. CASE ~(i <= Len(s))
      <3>1. i - Len(s) \in DOMAIN t
        BY <1>1, <2>4
      <3>2. ItemsOf(t)[i - Len(s)] = t[i - Len(s)].item
        BY <3>1 DEF ItemsOf
      <3> QED
        BY <1>1, <1>3, <2>2, <2>4, <3>2
    <2> QED
      BY <2>3, <2>4
  <1> QED
    BY <1>2, <1>3, <1>4, SeqEqual

\* The items of a part of a list are that part of its items.
LEMMA ItemsOfSubSeq ==
    ASSUME NEW s \in Seq(Entries), NEW m \in 1..(Len(s) + 1), NEW n \in 0..Len(s)
    PROVE  ItemsOf(SubSeq(s, m, n)) = SubSeq(ItemsOf(s), m, n)
  <1>1. /\ Len(s) \in Nat /\ DOMAIN s = 1..Len(s)
        /\ \A i \in m..n : i \in 1..Len(s) /\ s[i] \in Entries
    BY LenProperties, ElementOfSeq
  <1>2. /\ ItemsOf(s) \in Seq(Items) /\ Len(ItemsOf(s)) = Len(s)
        /\ \A i \in m..n : ItemsOf(s)[i] \in Items /\ ItemsOf(s)[i] = s[i].item
    <2>1. ItemsOf(s) \in Seq(Items) /\ Len(ItemsOf(s)) = Len(s)
      BY ItemsAreSequence
    <2> QED
      BY <1>1, <2>1, ElementOfSeq DEF ItemsOf
  <1> DEFINE k == IF m <= n THEN n - m + 1 ELSE 0
             part == SubSeq(s, m, n)
             items == SubSeq(ItemsOf(s), m, n)
  <1>3. /\ part \in Seq(Entries) /\ Len(part) = k
        /\ \A i \in 1..k : part[i] = s[m + i - 1]
    BY <1>1, SubSeqProperties
  <1>4. /\ items \in Seq(Items) /\ Len(items) = k
        /\ \A i \in 1..k : items[i] = ItemsOf(s)[m + i - 1]
    BY <1>2, SubSeqProperties
  <1>5. \A i \in 1..k : m + i - 1 \in m..n
    BY <1>1
  <1>6. DOMAIN part = 1..k
    BY <1>3, LenProperties
  <1>7. ItemsOf(part) \in Seq(Items) /\ Len(ItemsOf(part)) = k
    BY <1>3, ItemsAreSequence
  <1> HIDE DEF part, items, k
  <1>8. \A i \in 1..k : ItemsOf(part)[i] = items[i]
    BY <1>2, <1>3, <1>4, <1>5, <1>6 DEF ItemsOf
  <1>9. ItemsOf(part) = items
    BY <1>4, <1>7, <1>8, SeqEqual
  <1> QED
    BY <1>9 DEF part, items

\* The entries made for some tracks are a list of these tracks.
LEMMA NewEntriesTyped ==
    ASSUME Latest \in Nat, NEW items \in Seq(Items)
    PROVE  NewEntries(items) \in Seq(Entries) /\ ItemsOf(NewEntries(items)) = items
           /\ Len(NewEntries(items)) = Len(items)
  <1>1. Len(items) \in Nat /\ DOMAIN items = 1..Len(items)
    BY LenProperties
  <1>2. \A n \in 1..Len(items) :
          [item |-> items[n], birth |-> <<Latest + 1, n>>] \in Entries
    BY ElementOfSeq DEF Entries
  <1>3. NewEntries(items) \in [1..Len(items) -> Entries]
    BY <1>1, <1>2 DEF NewEntries
  <1>4. NewEntries(items) \in Seq(Entries) /\ Len(NewEntries(items)) = Len(items)
    BY <1>1, <1>3, FunctionIsSequence
  <1>5. DOMAIN NewEntries(items) = 1..Len(items)
        /\ \A n \in 1..Len(items) : NewEntries(items)[n].item = items[n]
    BY <1>1 DEF NewEntries
  <1>6. /\ ItemsOf(NewEntries(items)) \in Seq(Items)
        /\ Len(ItemsOf(NewEntries(items))) = Len(items)
        /\ \A n \in 1..Len(items) : ItemsOf(NewEntries(items))[n] = items[n]
    BY <1>4, <1>5, ItemsAreSequence DEF ItemsOf
  <1>7. ItemsOf(NewEntries(items)) = items
    BY <1>6, SeqEqual
  <1> QED
    BY <1>4, <1>7

\* The items after an insertion are the items before it with those inserted.
LEMMA ItemsOfInserted ==
    ASSUME NEW list \in Seq(Entries), NEW place \in 0..Len(list),
           NEW others \in Seq(Entries)
    PROVE  ItemsOf(InsertedAt(list, place, others)) =
             InsertedAt(ItemsOf(list), place, ItemsOf(others))
  <1> DEFINE before == SubSeq(list, 1, place)
             after  == SubSeq(list, place + 1, Len(list))
  <1>1. before \in Seq(Entries) /\ after \in Seq(Entries) /\ Len(list) \in Nat
    BY LenProperties
  <1>2. /\ ItemsOf(before) = SubSeq(ItemsOf(list), 1, place)
        /\ ItemsOf(after) = SubSeq(ItemsOf(list), place + 1, Len(list))
    <2>1. /\ 1 \in 1..(Len(list) + 1) /\ place + 1 \in 1..(Len(list) + 1)
          /\ Len(list) \in 0..Len(list)
      BY <1>1
    <2> QED
      BY <2>1, ItemsOfSubSeq
  <1> HIDE DEF before, after
  <1>3. before \o others \in Seq(Entries)
    BY <1>1, ConcatProperties
  <1>4. ItemsOf((before \o others) \o after)
          = (ItemsOf(before) \o ItemsOf(others)) \o ItemsOf(after)
    BY <1>1, <1>3, ItemsOfConcat
  <1>5. Len(ItemsOf(list)) = Len(list)
    BY ItemsAreSequence
  <1> QED
    BY <1>2, <1>4, <1>5 DEF InsertedAt, before, after

------------------------------------------------------------------------------
(* Batches *)

\* What a quotient is
LEMMA Quotient ==
    ASSUME NEW size \in Nat \ {0}, NEW k \in Int, NEW n \in Int,
           k * size <= n, n < k * size + size
    PROVE  n \div size = k
  <1>1. PICK q : q = n \div size
    OBVIOUS
  <1>2. PICK r : r = n % size
    OBVIOUS
  <1>3. q \in Int /\ r \in 0..(size - 1) /\ n = size * q + r
    BY <1>1, <1>2
  <1>4. CASE q > k
    <2>1. (q - k) * size >= size
      BY <1>3, <1>4
    <2> QED
      BY <1>3, <2>1
  <1>5. CASE q < k
    <2>1. (k - q) * size >= size
      BY <1>3, <1>5
    <2> QED
      BY <1>3, <2>1
  <1> QED
    BY <1>1, <1>3, <1>4, <1>5

\* The batch after some full ones is one more, and full unless it is the last.
LEMMA OneMoreBatch ==
    ASSUME uris \in Seq(Tracks), completed \in Nat, completed < Len(uris),
           completed = Batches(completed) * BatchSize
    PROVE  /\ Batches(BatchEnd) = Batches(completed) + 1
           /\ BatchEnd \in (completed + 1)..Len(uris)
           /\ BatchEnd < Len(uris) => BatchEnd = Batches(BatchEnd) * BatchSize
  <1> USE BatchSizeAssumption
  <1>1. PICK k : k = Batches(completed)
    OBVIOUS
  <1>2. PICK last : last = BatchEnd
    OBVIOUS
  <1>3. k \in Int /\ completed \in Nat /\ completed = k * BatchSize
    BY <1>1 DEF Batches
  <1>4. /\ last \in (completed + 1)..Len(uris) /\ last <= completed + BatchSize
        /\ last < Len(uris) => last = completed + BatchSize
    BY <1>2, LenProperties DEF BatchEnd
  <1>5. last \in Nat /\ last # 0
    BY <1>3, <1>4
  <1>6. (last - 1) \div BatchSize = k
    <2>1. last - 1 \in Int /\ k * BatchSize <= last - 1
          /\ last - 1 < k * BatchSize + BatchSize
      BY <1>3, <1>4, <1>5
    <2> QED
      BY <1>3, <2>1, Quotient
  <1>7. Batches(last) = k + 1
    BY <1>5, <1>6 DEF Batches
  <1>8. (k + 1) * BatchSize = completed + BatchSize
    BY <1>3
  <1>9. last < Len(uris) => last = Batches(last) * BatchSize
    BY <1>4, <1>7, <1>8
  <1> QED
    BY <1>1, <1>2, <1>4, <1>7, <1>9

------------------------------------------------------------------------------
(* Steps *)

\* The current list is a list.
LEMMA CurrentTyped ==
    ASSUME Versions
    PROVE  /\ Latest \in Nat \ {0}
           /\ \A v \in 1..Latest :
                /\ versions[v] \in Seq(Entries) /\ Len(versions[v]) \in Nat
                /\ ItemsOf(versions[v]) \in Seq(Items)
                /\ Len(ItemsOf(versions[v])) = Len(versions[v])
  <1>1. Latest \in Nat \ {0}
    BY LenProperties DEF Versions, Latest
  <1>2. \A v \in 1..Latest : versions[v] \in Seq(Entries)
    BY <1>1, ElementOfSeq DEF Versions, Latest
  <1> QED
    BY <1>1, <1>2, ItemsAreSequence, LenProperties

\* A new version is the last one and leaves the others as they are.
LEMMA NewVersion ==
    ASSUME Versions, NEW list \in Seq(Entries), Commit(list)
    PROVE  /\ Versions' /\ Latest' = Latest + 1 /\ versions'[Latest + 1] = list
           /\ \A v \in 1..Latest : versions'[v] = versions[v]
  <1>1. versions \in Seq(Seq(Entries)) /\ Latest \in Nat \ {0}
    BY CurrentTyped DEF Versions
  <1>2. /\ versions' \in Seq(Seq(Entries)) /\ Len(versions') = Len(versions) + 1
        /\ \A v \in 1..Len(versions) : versions'[v] = versions[v]
        /\ versions'[Len(versions) + 1] = list
    BY <1>1, AppendProperties DEF Commit
  <1> QED
    BY <1>1, <1>2 DEF Versions, Latest

\* What a version holds does not change when others are made.
LEMMA StandsKept ==
    ASSUME NEW v, NEW count, Stands(v, count),
           Latest \in Nat, Latest' \in Nat, Latest' >= Latest, header \in 1..Latest,
           \A i \in 1..Latest : versions'[i] = versions[i],
           UNCHANGED <<header, startPosition, uris>>
    PROVE  Stands(v, count)'
  <1>1. v \in header..Latest /\ v \in 1..Latest /\ v \in header..Latest'
    BY DEF Stands
  <1>2. ItemsOf(versions[v])' = ItemsOf(versions[v])
    BY <1>1 DEF ItemsOf
  <1>3. ItemsOf(versions[header])' = ItemsOf(versions[header])
    BY DEF ItemsOf
  <1>4. WithFirst(count)' = WithFirst(count)
    BY <1>3 DEF WithFirst, InsertedAt
  <1> QED
    BY <1>1, <1>2, <1>4 DEF Stands, Batches

\* Nothing placed moves when versions are made, or when nothing changes.
LEMMA PlacedKept ==
    ASSUME Versions, Versions', Placed, Latest' >= Latest,
           \A i \in 1..Latest : versions'[i] = versions[i],
           UNCHANGED <<header, startPosition, uris, position, completed, finalSnapshot,
                       created>>,
           pc' \in {"add", "await", "output"} \/ record' # NoRecord =>
             pc \in {"add", "await", "output"} \/ record # NoRecord,
           pc' = "await" /\ request' = "applied" => pc = "await" /\ request = "applied"
    PROVE  Placed'
  <1> SUFFICES ASSUME pc' \in {"add", "await", "output"} \/ record' # NoRecord
               PROVE  /\ header \in 1..Latest'
                      /\ startPosition \in 0..Len(versions[header])
                      /\ startPosition = IF position = AtEnd THEN Len(versions[header])
                                                             ELSE position
                      /\ versions'[header] = versions[header]
                      /\ completed < Len(uris) => completed = Batches(completed) * BatchSize
                      /\ Stands(Confirmed, completed)'
                      /\ pc' = "await" /\ request' = "applied" => Stands(created, BatchEnd)'
    BY DEF Placed, Batches
  <1>1. /\ header \in 1..Latest
        /\ startPosition \in 0..Len(versions[header])
        /\ startPosition = IF position = AtEnd THEN Len(versions[header]) ELSE position
        /\ completed < Len(uris) => completed = Batches(completed) * BatchSize
        /\ Stands(Confirmed, completed)
        /\ pc = "await" /\ request = "applied" => Stands(created, BatchEnd)
    BY DEF Placed
  <1>2. Latest \in Nat /\ Latest' \in Nat
    BY LenProperties DEF Versions, Latest
  <1>3. PICK v, count : v = Confirmed /\ count = completed
    OBVIOUS
  <1>4. PICK w, end : w = created /\ end = BatchEnd
    OBVIOUS
  <1>5. Confirmed' = v /\ completed' = count /\ created' = w /\ BatchEnd' = end
    BY <1>3, <1>4 DEF Confirmed, BatchEnd
  <1>6. Stands(v, count)'
    BY <1>1, <1>2, <1>3, StandsKept
  <1>7. pc' = "await" /\ request' = "applied" => Stands(w, end)'
    <2> SUFFICES ASSUME pc' = "await", request' = "applied" PROVE Stands(w, end)'
      OBVIOUS
    <2>1. Stands(w, end)
      BY <1>1, <1>4
    <2> QED
      BY <1>1, <1>2, <2>1, StandsKept
  <1>8. Stands(Confirmed, completed)'
    BY <1>5, <1>6 DEF Stands, WithFirst
  <1>9. pc' = "await" /\ request' = "applied" => Stands(created, BatchEnd)'
    BY <1>5, <1>7 DEF Stands, WithFirst
  <1> QED
    BY <1>1, <1>2, <1>8, <1>9

\* Every initial list and every add asked for satisfies the invariant.
LEMMA InitIInv == Init => IInv
  <1> SUFFICES ASSUME Init PROVE IInv
    OBVIOUS
  <1> USE DEF Init
  <1>1. PICK n \in 0..MaxInitial : \E items \in [1..n -> Items] :
          versions = << [i \in 1..n |-> [item |-> items[i], birth |-> <<1, i>>]] >>
    BY DEF PlaylistInit
  <1>2. PICK items \in [1..n -> Items] :
          versions = << [i \in 1..n |-> [item |-> items[i], birth |-> <<1, i>>]] >>
    BY <1>1
  <1> DEFINE list == [i \in 1..n |-> [item |-> items[i], birth |-> <<1, i>>]]
  <1>3. n \in Nat /\ list \in [1..n -> Entries]
    BY MaxInitialAssumption DEF Entries
  <1>4. list \in Seq(Entries)
    BY <1>3, FunctionIsSequence
  <1> HIDE DEF list
  <1>5. versions = <<list>>
    BY <1>2 DEF list
  <1>6. Versions
    BY <1>4, <1>5 DEF Versions, Latest
  <1>7. Control
    BY DEF Control
  <1>8. Progressing
    <2>1. PICK m \in 1..MaxTracks : uris \in [1..m -> Tracks]
      OBVIOUS
    <2>2. uris \in Seq(Tracks) /\ Len(uris) > 0
      BY <2>1, MaxTracksAssumption, FunctionIsSequence
    <2> QED
      BY <2>2, MaxInitialAssumption, LenProperties DEF Progressing
  <1>9. Placed
    BY DEF Placed
  <1> QED
    BY <1>6, <1>7, <1>8, <1>9 DEF IInv

\* Without any track added the version of the header is as it was read.
LEMMA NothingInserted ==
    ASSUME NEW list \in Seq(Items), NEW place \in 0..Len(list), uris \in Seq(Tracks)
    PROVE  InsertedAt(list, place, SubSeq(uris, 1, 0)) = list
  <1>1. SubSeq(uris, 1, 0) = <<>> /\ Len(list) \in Nat
    BY SubSeqEmpty, LenProperties
  <1> DEFINE before == SubSeq(list, 1, place)
             after  == SubSeq(list, place + 1, Len(list))
  <1>2. before \in Seq(Items)
    BY <1>1
  <1>3. before \o after = SubSeq(list, 1, Len(list))
    <2>1. 1 \in 1..(Len(list) + 1) /\ place \in (1 - 1)..Len(list)
          /\ Len(list) \in place..Len(list)
      BY <1>1
    <2> QED
      BY <2>1, ConcatAdjacentSubSeq
  <1> HIDE DEF before, after
  <1>4. before \o <<>> = before
    BY <1>2, ConcatEmptySeq
  <1>5. (before \o <<>>) \o after = list
    BY <1>3, <1>4, SubSeqFull
  <1> QED
    BY <1>1, <1>5 DEF InsertedAt, before, after

\* The header fixes what the record is measured by.
LEMMA GetPlaylistPreserves == ASSUME IInv, GetPlaylist PROVE IInv'
  <1> USE DEF IInv, GetPlaylist, serviceVars, inputs
  <1>1. /\ UNCHANGED <<versions, created, landed, uris, position, finalSnapshot,
                       completed, request, record>>
        /\ pc = "get" /\ request = "unsent" /\ completed = 0 /\ record = NoRecord
        /\ header' = Latest /\ landed = 0 /\ report = "none"
    BY DEF End, Control, Progressing
  <1>2. /\ Latest \in Nat \ {0} /\ Current \in Seq(Entries) /\ Len(Current) \in Nat
        /\ ItemsOf(Current) \in Seq(Items) /\ Len(ItemsOf(Current)) = Len(Current)
    BY CurrentTyped DEF Current
  <1>3. Latest' = Latest /\ Current' = Current
    BY <1>1 DEF Latest, Current
  <1>4. Versions'
    BY <1>1, <1>3 DEF Versions
  <1>5. CASE position > Len(Current)
    <2>1. pc' = "done" /\ report' = "usage"
      BY <1>5 DEF End
    <2>2. Control'
      BY <1>1, <2>1 DEF Control
    <2>3. Progressing'
      BY <1>1, <2>1 DEF Progressing, BatchEnd
    <2>4. Placed'
      BY <1>1, <2>1 DEF Placed
    <2> QED
      BY <1>4, <2>2, <2>3, <2>4
  <1>6. CASE ~(position > Len(Current))
    <2>1. /\ pc' = "add" /\ report' = report
          /\ startPosition' = IF position = AtEnd THEN Len(Current) ELSE position
      BY <1>6
    <2>2. startPosition' \in 0..Len(Current)
      BY <1>2, <1>6, <2>1 DEF Progressing
    <2>3. Control'
      BY <1>1, <2>1 DEF Control
    <2>4. Progressing'
      BY <1>1, <2>1 DEF Progressing, BatchEnd
    <2>5. Stands(Confirmed, completed)'
      <3>1. Confirmed' = Latest /\ completed' = 0 /\ Batches(0) = 0
        BY <1>1 DEF Confirmed, Batches
      <3>2. ItemsOf(versions'[Latest]) = ItemsOf(Current)
        BY <1>1 DEF Current
      <3>3. InsertedAt(ItemsOf(Current), startPosition', SubSeq(uris, 1, 0)) = ItemsOf(Current)
        BY <1>2, <2>2, NothingInserted DEF Progressing
      <3>4. WithFirst(0)' = ItemsOf(Current)
        BY <1>1, <3>2, <3>3 DEF WithFirst, InsertedAt
      <3>5. (Batches(0) = 0)'
        BY DEF Batches
      <3>6. Stands(Latest, 0)'
        BY <1>1, <1>2, <1>3, <3>2, <3>4, <3>5 DEF Stands
      <3> QED
        BY <1>3, <3>1, <3>6 DEF Stands, WithFirst
    <2>6. completed' = Batches(completed') * BatchSize
      BY <1>1, BatchSizeAssumption DEF Batches
    <2>7. versions'[header'] = Current /\ header' \in 1..Latest'
      BY <1>1, <1>2, <1>3 DEF Current
    <2>8. Placed'
      BY <1>1, <2>1, <2>2, <2>5, <2>6, <2>7 DEF Placed, Batches
    <2> QED
      BY <1>4, <2>3, <2>4, <2>8
  <1> QED
    BY <1>5, <1>6

\* The steps that only decide where the command goes, or send a batch
LEMMA DecisionPreserves ==
    ASSUME IInv,
           \/ GetFails \/ SendBatch \/ BatchNotSent \/ BatchRejected
           \/ BatchUncertain \/ WriteOutput \/ ServiceRefuses
    PROVE  IInv'
  <1> USE DEF IInv, serviceVars, inputs, progressVars
  <1>1. UNCHANGED <<versions, created, landed, uris, position, header, startPosition,
                    finalSnapshot, completed>>
    BY DEF GetFails, SendBatch, BatchNotSent, BatchRejected, BatchUncertain,
           WriteOutput, ServiceRefuses
  <1>2. Versions' /\ Latest' = Latest /\ BatchEnd' = BatchEnd /\ Latest \in Nat
    BY <1>1, CurrentTyped DEF Versions, Latest, BatchEnd
  <1>3. /\ pc' \in {"await", "output", "done"} \/ ServiceRefuses
        /\ request' = request \/ (request = "unsent" /\ request' = "sent" /\ pc = "add")
             \/ (request = "sent" /\ request' = "refused")
        /\ pc' = "await" => pc = "add" \/ pc' = pc
        /\ pc' = "output" => pc \in {"add", "await"} \/ pc' = pc
        /\ pc' = "add" => pc = "add"
        /\ pc' = "get" => pc = "get"
    BY DEF GetFails, SendBatch, BatchNotSent, BatchRejected, BatchUncertain,
           WriteOutput, ServiceRefuses, StopRejected, StopUncertain, End, Control
  <1>4. Progressing'
    BY <1>1, <1>2, <1>3 DEF Progressing, Control
  <1>5. completed \in Nat
    BY LenProperties DEF Progressing
  <1>6. CASE GetFails \/ BatchUncertain
    <2>1. /\ pc' = "done" /\ record' = NoRecord /\ request' = request
          /\ report' \in {"failed", "uncertain"}
          /\ report' = "failed" => completed = 0 /\ request = "unsent"
      BY <1>6 DEF GetFails, BatchUncertain, StopUncertain, End, Control, Progressing
    <2>2. Control' /\ Placed'
      BY <1>1, <2>1 DEF Control, Placed
    <2> QED
      BY <1>2, <1>4, <2>2
  <1>7. CASE SendBatch
    <2>1. /\ pc = "add" /\ pc' = "await" /\ request' = "sent"
          /\ UNCHANGED <<report, record>>
      BY <1>7 DEF SendBatch
    <2>2. Control'
      BY <1>1, <2>1 DEF Control
    <2>3. Placed'
      BY <1>1, <1>2, <2>1, PlacedKept
    <2> QED
      BY <1>2, <1>4, <2>2, <2>3
  <1>8. CASE BatchNotSent \/ BatchRejected
    <2>1. /\ pc \in {"add", "await"} /\ request \in {"unsent", "refused"}
          /\ request' = request /\ record = NoRecord
          /\ StopRejected \/ StopUncertain
      BY <1>8 DEF BatchNotSent, BatchRejected, Control
    <2>2. \/ pc' = "done" /\ report' = "uncertain" /\ record' = record
          \/ pc' = "done" /\ report' = "rejected" /\ record' = record /\ completed = 0
          \/ /\ pc' = "output" /\ report' = "partial" /\ completed > 0
             /\ record' = [start |-> startPosition, count |-> completed,
                           snapshot |-> finalSnapshot]
      BY <1>1, <1>5, <2>1 DEF StopRejected, StopUncertain, End, RecordOf
    <2>3. Control'
      BY <1>1, <2>1, <2>2 DEF Control, NoRecord
    <2>4. Placed'
      BY <1>1, <1>2, <2>1, <2>2, PlacedKept
    <2> QED
      BY <1>2, <1>4, <2>3, <2>4
  <1>9. CASE WriteOutput
    <2>1. /\ pc = "output" /\ pc' = "done" /\ request' = request /\ record' = record
          /\ report' \in {"partial", "partialOutputFailed", "added", "addedOutputFailed"}
          /\ record # NoRecord
      BY <1>9 DEF WriteOutput, Control
    <2>2. Control'
      BY <1>1, <2>1 DEF Control
    <2>3. Placed'
      BY <1>1, <1>2, <2>1, PlacedKept
    <2> QED
      BY <1>2, <1>4, <2>2, <2>3
  <1>10. CASE ServiceRefuses
    <2>1. /\ request = "sent" /\ request' = "refused" /\ UNCHANGED <<pc, report, record>>
      BY <1>10 DEF ServiceRefuses
    <2>2. Control'
      BY <1>1, <2>1 DEF Control
    <2>3. Placed'
      BY <1>1, <1>2, <2>1, PlacedKept
    <2> QED
      BY <1>2, <1>4, <2>2, <2>3
  <1> QED
    BY <1>6, <1>7, <1>8, <1>9, <1>10

\* A confirmed batch: what the service made of it is the last thing confirmed.
LEMMA BatchConfirmedPreserves == ASSUME IInv, BatchConfirmed PROVE IInv'
  <1> USE DEF IInv, BatchConfirmed, serviceVars, inputs
  <1>1. /\ UNCHANGED <<versions, created, landed, uris, position, header, startPosition>>
        /\ pc = "await" /\ request = "applied" /\ request' = "unsent"
        /\ finalSnapshot' = created /\ completed' = BatchEnd
        /\ record = NoRecord /\ report = "none" /\ landed = BatchEnd
    BY DEF Control, Progressing
  <1>2. Versions' /\ Latest' = Latest
    BY <1>1 DEF Versions, Latest
  <1>3. PICK end : end = BatchEnd
    OBVIOUS
  <1>4. /\ uris \in Seq(Tracks) /\ completed \in Nat /\ completed < Len(uris)
        /\ completed = Batches(completed) * BatchSize
    BY <1>1, LenProperties DEF Progressing, Placed
  <1>5. /\ end \in (completed + 1)..Len(uris) /\ completed' = end
        /\ end < Len(uris) => end = Batches(end) * BatchSize
    BY <1>1, <1>3, <1>4, OneMoreBatch
  <1>6. end \in Nat /\ end > 0 /\ Len(uris) \in Nat
    BY <1>4, <1>5, LenProperties
  <1>7. \/ pc' = "add" /\ report' = report /\ record' = record /\ end < Len(uris)
        \/ /\ pc' = "output" /\ report' = "added" /\ end = Len(uris)
           /\ record' = [start |-> startPosition, count |-> end, snapshot |-> created]
    BY <1>1, <1>3, <1>5, <1>6 DEF RecordOf
  <1>8. Control'
    BY <1>1, <1>5, <1>6, <1>7 DEF Control, NoRecord
  <1>9. Progressing'
    BY <1>1, <1>3, <1>5, <1>6, <1>7 DEF Progressing
  <1>10. Placed'
    <2>1. /\ header \in 1..Latest
          /\ startPosition \in 0..Len(versions[header])
          /\ startPosition = IF position = AtEnd THEN Len(versions[header]) ELSE position
          /\ Stands(created, end)
      BY <1>1, <1>3 DEF Placed
    <2>2. Confirmed' = created
      BY <1>1, <1>5, <1>6 DEF Confirmed
    <2>3. Stands(created, end)' /\ created' = created
      BY <1>1, <1>2, <2>1 DEF Stands, WithFirst, ItemsOf, InsertedAt, Batches
    <2>4. Stands(Confirmed, completed)'
      BY <1>5, <2>2, <2>3 DEF Stands, WithFirst
    <2>5. completed' < Len(uris) => completed' = Batches(completed)' * BatchSize
      BY <1>5 DEF Batches
    <2> QED
      BY <1>1, <1>2, <2>1, <2>4, <2>5 DEF Placed
  <1> QED
    BY <1>2, <1>8, <1>9, <1>10

\* A batch goes where the service puts it: into the current list.
LEMMA BatchTyped ==
    ASSUME Versions, Progressing, completed < Len(uris)
    PROVE  /\ Batch \in Seq(Items) /\ Len(Batch) = BatchEnd - completed
           /\ BatchEnd \in (completed + 1)..Len(uris)
           /\ BatchPosition \in 0..Len(Current)
           /\ AfterAdding(Batch, BatchPosition) \in Seq(Entries)
           /\ ItemsOf(AfterAdding(Batch, BatchPosition)) =
                InsertedAt(ItemsOf(Current), BatchPosition, Batch)
  <1>1. /\ uris \in Seq(Tracks) /\ completed \in Nat /\ Len(uris) \in Nat
        /\ Latest \in Nat /\ Current \in Seq(Entries) /\ Len(Current) \in Nat
    BY CurrentTyped, LenProperties DEF Progressing, Current
  <1>2. PICK end : end = BatchEnd
    OBVIOUS
  <1>3. end \in (completed + 1)..Len(uris)
    BY <1>1, <1>2, BatchSizeAssumption DEF BatchEnd
  <1>4. \A i \in (completed + 1)..end : uris[i] \in Items
    BY <1>1, <1>3, ElementOfSeq DEF Items
  <1>5. SubSeq(uris, completed + 1, end) \in Seq(Items)
        /\ Len(SubSeq(uris, completed + 1, end)) = end - completed
    BY <1>1, <1>3, <1>4, SubSeqProperties
  <1>6. Batch \in Seq(Items) /\ Len(Batch) = end - completed
    BY <1>2, <1>5 DEF Batch
  <1>7. BatchPosition \in 0..Len(Current)
    BY <1>1 DEF BatchPosition, Progressing
  <1>8. NewEntries(Batch) \in Seq(Entries) /\ ItemsOf(NewEntries(Batch)) = Batch
    BY <1>1, <1>6, NewEntriesTyped
  <1>9. /\ AfterAdding(Batch, BatchPosition) \in Seq(Entries)
        /\ ItemsOf(AfterAdding(Batch, BatchPosition)) =
             InsertedAt(ItemsOf(Current), BatchPosition, Batch)
    BY <1>1, <1>7, <1>8, InsertedTyped, ItemsOfInserted DEF AfterAdding
  <1> QED
    BY <1>2, <1>3, <1>6, <1>7, <1>9

\* If nobody else made a version since the header, a batch goes to the place
\* where the one before it ended: BatchPosition follows the command's own count.
LEMMA BatchFollows ==
    ASSUME Versions, Progressing, completed < Len(uris),
           header \in 1..Latest,
           startPosition \in 0..Len(versions[header]),
           startPosition = IF position = AtEnd THEN Len(versions[header]) ELSE position,
           ItemsOf(Current) = WithFirst(completed)
    PROVE  InsertedAt(ItemsOf(Current), BatchPosition, Batch) = WithFirst(BatchEnd)
  <1>1. PICK items : items = ItemsOf(versions[header])
    OBVIOUS
  <1>2. /\ items \in Seq(Items) /\ Len(items) = Len(versions[header])
        /\ Len(items) \in Nat /\ Len(ItemsOf(Current)) = Len(Current)
        /\ Len(Current) \in Nat
    BY <1>1, CurrentTyped DEF Current
  <1>3. PICK end : end = BatchEnd
    OBVIOUS
  <1>4. /\ completed \in Nat /\ end \in (completed + 1)..Len(uris) /\ Len(uris) \in Nat
        /\ uris \in Seq(Items)
    BY <1>3, BatchTyped, LenProperties, SeqMonotonic DEF Progressing, Items
  <1>5. PICK first : first = SubSeq(uris, 1, completed)
    OBVIOUS
  <1>6. PICK second : second = SubSeq(uris, completed + 1, end)
    OBVIOUS
  <1>7. /\ first \in Seq(Items) /\ Len(first) = completed
        /\ second \in Seq(Items) /\ Batch = second
    <2>1. first \in Seq(Items) /\ Len(first) = completed
      BY <1>4, <1>5
    <2> QED
      BY <1>3, <1>6, <2>1, BatchTyped DEF Batch
  <1>8. first \o second = SubSeq(uris, 1, end)
    <2>1. /\ 1 \in 1..(Len(uris) + 1) /\ completed \in (1 - 1)..Len(uris)
          /\ end \in completed..Len(uris)
      BY <1>4
    <2> QED
      BY <1>4, <1>5, <1>6, <2>1, ConcatAdjacentSubSeq
  <1>9. ItemsOf(Current) = InsertedAt(items, startPosition, first)
    BY <1>1, <1>5 DEF WithFirst
  <1>p. PICK place \in 0..Len(items) : place = startPosition
    BY <1>1, <1>2
  <1>10. Len(Current) = Len(items) + completed
    <2>1. Len(InsertedAt(items, place, first)) = Len(items) + Len(first)
      BY <1>2, <1>7, <1>p, InsertedTyped
    <2> QED
      BY <1>2, <1>7, <1>9, <1>p, <2>1
  <1>11. BatchPosition = place + completed
    BY <1>2, <1>4, <1>10, <1>p DEF BatchPosition, Progressing
  <1>12. InsertedAt(InsertedAt(items, place, first), place + Len(first), second)
           = InsertedAt(items, place, first \o second)
    <2>1. /\ items \in Seq(Items) /\ place \in 0..Len(items)
          /\ first \in Seq(Items) /\ second \in Seq(Items)
      BY <1>2, <1>7
    <2>2. \A l \in Seq(Items) : \A p \in 0..Len(l) : \A f, g \in Seq(Items) :
            InsertedAt(InsertedAt(l, p, f), p + Len(f), g) = InsertedAt(l, p, f \o g)
      BY InsertedInTurn
    <2> QED
      BY <2>1, <2>2, Zenon
  <1> QED
    BY <1>1, <1>3, <1>7, <1>8, <1>9, <1>11, <1>12, <1>p DEF WithFirst

\* The service performs a batch, maybe after the command has given it up.
LEMMA ServiceAddsPreserves == ASSUME IInv, ServiceAdds PROVE IInv'
  <1> USE DEF IInv, ServiceAdds, inputs, progressVars
  <1>1. /\ UNCHANGED <<uris, position, pc, header, startPosition, finalSnapshot,
                       completed, report, record>>
        /\ request = "sent" /\ request' = "applied" /\ pc \in {"await", "done"}
        /\ created' = Latest + 1 /\ landed = completed /\ completed < Len(uris)
        /\ record = NoRecord /\ report \in {"none", "uncertain"}
    BY DEF Control, Progressing, NoRecord, Reports
  <1>2. PICK list \in Seq(Entries) : list = AfterAdding(Batch, BatchPosition)
    BY <1>1, BatchTyped
  <1>3. /\ Versions' /\ Latest' = Latest + 1 /\ versions'[Latest + 1] = list
        /\ \A v \in 1..Latest : versions'[v] = versions[v]
        /\ Latest \in Nat \ {0}
    BY <1>2, NewVersion, CurrentTyped
  <1>4. Control'
    BY <1>1 DEF Control
  <1>5. PICK end : end = BatchEnd
    OBVIOUS
  <1>6. BatchEnd' = end
    BY <1>1, <1>5 DEF BatchEnd
  <1>7. Progressing'
    <2>1. landed' = end
      <3>1. Len(Batch) = end - completed /\ end \in Int /\ completed \in Nat
        BY <1>1, <1>5, BatchTyped, LenProperties DEF Progressing
      <3> QED
        BY <1>1, <3>1
    <2> QED
      BY <1>1, <1>6, <2>1 DEF Progressing
  <1>8. Placed'
    <2> SUFFICES ASSUME pc = "await" PROVE Placed'
      BY <1>1 DEF Placed
    <2>1. /\ header \in 1..Latest
          /\ startPosition \in 0..Len(versions[header])
          /\ startPosition = IF position = AtEnd THEN Len(versions[header]) ELSE position
          /\ completed = Batches(completed) * BatchSize
          /\ Stands(Confirmed, completed)
      BY <1>1 DEF Placed
    <2>2. PICK v, count : v = Confirmed /\ count = completed
      OBVIOUS
    <2>3. Confirmed' = v /\ completed' = count
      BY <1>1, <2>2 DEF Confirmed
    <2>4. Stands(v, count)'
      BY <1>1, <1>3, <2>1, <2>2, StandsKept
    <2>5. Stands(Confirmed, completed)'
      BY <2>3, <2>4 DEF Stands, WithFirst
    <2>6. completed \in Nat /\ uris \in Seq(Tracks)
      BY LenProperties DEF Progressing
    <2>7. PICK k : k = Batches(completed)
      OBVIOUS
    <2>8. k \in Int /\ Batches(end) = k + 1
      BY <1>1, <1>5, <2>1, <2>6, <2>7, OneMoreBatch DEF Batches
    <2>9. /\ v \in header..Latest /\ v - header >= k
          /\ v - header = k => ItemsOf(versions[v]) = WithFirst(completed)
      BY <2>1, <2>2, <2>7 DEF Stands
    <2>10. Latest + 1 - header >= k + 1
      BY <1>3, <2>1, <2>8, <2>9
    <2>11. ASSUME Latest + 1 - header = k + 1
           PROVE  ItemsOf(list) = WithFirst(end)
      <3>1. v = Latest /\ v - header = k
        BY <1>3, <2>1, <2>8, <2>9, <2>11
      <3>2. ItemsOf(Current) = WithFirst(completed)
        BY <2>9, <3>1 DEF Current
      <3>3. ItemsOf(list) = InsertedAt(ItemsOf(Current), BatchPosition, Batch)
        BY <1>1, <1>2, BatchTyped
      <3> QED
        BY <1>1, <1>5, <2>1, <3>2, <3>3, BatchFollows
    <2>12. PICK made : made = Latest + 1
      OBVIOUS
    <2>13. Stands(made, end)'
      <3>1. WithFirst(end)' = WithFirst(end)
        <4>1. ItemsOf(versions[header])' = ItemsOf(versions[header])
          BY <1>1, <1>3, <2>1 DEF ItemsOf
        <4> QED
          BY <1>1, <4>1 DEF WithFirst, InsertedAt
      <3>2. ItemsOf(versions[made])' = ItemsOf(list)
        BY <1>3, <2>12 DEF ItemsOf
      <3>3. made \in header..Latest' /\ Latest' = made
        BY <1>3, <2>1, <2>12
      <3>4. made - header >= k + 1
            /\ (made - header = k + 1 => ItemsOf(list) = WithFirst(end))
        <4>1. made - header = Latest + 1 - header
          BY <1>3, <2>1, <2>12
        <4> QED
          BY <2>10, <2>11, <4>1
      <3>5. header' = header /\ Batches(end) = k + 1
        BY <1>1, <2>8
      <3> QED
        BY <3>1, <3>2, <3>3, <3>4, <3>5 DEF Stands, Batches
    <2>14. Stands(created, BatchEnd)'
      BY <1>1, <1>6, <2>12, <2>13 DEF Stands, WithFirst
    <2>15. header \in 1..Latest' /\ versions'[header] = versions[header]
      BY <1>3, <2>1
    <2> QED
      BY <1>1, <2>1, <2>5, <2>14, <2>15 DEF Placed, Batches
  <1> QED
    BY <1>3, <1>4, <1>7, <1>8

\* A collaborator edits the list at any moment: then the record no longer claims
\* anything of the lists made later, and the earlier ones stay.
LEMMA CollaboratorPreserves == ASSUME IInv, Collaborator PROVE IInv'
  <1> USE DEF IInv, Collaborator, inputs, progressVars
  <1>1. /\ UNCHANGED <<uris, position, pc, header, startPosition, finalSnapshot,
                       completed, request, created, landed, report, record>>
        /\ CollaboratorEdits
    OBVIOUS
  <1>2. PICK list : Commit(list)
    BY <1>1 DEF CollaboratorEdits, CollaboratorInserts, CollaboratorRemoves,
                CollaboratorMoves
  <1>3. versions \in Seq(Seq(Entries)) /\ versions' \in Seq(Seq(Entries))
    BY <1>1, EditTyped DEF Versions
  <1>4. /\ Latest' = Latest + 1 /\ Latest \in Nat \ {0}
        /\ \A v \in 1..Latest : versions'[v] = versions[v]
    <2>1. versions \in Seq(Lists)
      BY <1>3, LenProperties, FunctionIsSequence DEF Lists
    <2> QED
      BY <1>2, <2>1, CommitGrows, CurrentTyped
  <1>5. Versions' /\ Latest' >= Latest
    BY <1>3, <1>4 DEF Versions
  <1>6. Control'
    BY <1>1 DEF Control
  <1>7. Progressing'
    BY <1>1 DEF Progressing, BatchEnd
  <1>8. Placed'
    BY <1>1, <1>4, <1>5, PlacedKept
  <1> QED
    BY <1>5, <1>6, <1>7, <1>8

\* Every step of the program keeps the invariant.
LEMMA NextPreserves == IInv /\ [Next]_vars => IInv'
  <1> SUFFICES ASSUME IInv, [Next]_vars PROVE IInv'
    OBVIOUS
  <1>1. CASE Finished \/ UNCHANGED vars
    <2>1. UNCHANGED <<versions, uris, position, pc, header, startPosition,
                      finalSnapshot, completed, request, created, landed, report,
                      record>>
      BY <1>1 DEF Finished, vars, inputs, progressVars
    <2>2. /\ Versions' /\ Latest' = Latest /\ Latest \in Nat
          /\ Control' /\ Progressing'
      BY <2>1, CurrentTyped
         DEF IInv, Versions, Latest, Control, Progressing, BatchEnd
    <2> QED
      BY <2>1, <2>2, PlacedKept DEF IInv
  <1> QED
    BY <1>1, GetPlaylistPreserves, DecisionPreserves, BatchConfirmedPreserves,
       ServiceAddsPreserves, CollaboratorPreserves
       DEF Next, Command, Progress, Service

\* The steps keep every variable in its type: those the invariant leaves out follow
\* from it and from the step.
LEMMA TypesKept == ASSUME IInv, TypeOK, IInv', [Next]_vars PROVE TypeOK'
  <1> USE DEF inputs, progressVars, serviceVars
  <1>1. /\ Latest \in Nat \ {0} /\ Latest' \in Nat \ {0} /\ Len(Current) \in Nat
        /\ versions' \in Seq(Seq(Entries)) /\ Latest' > 0
        /\ pc' \in {"get", "add", "await", "output", "done"}
        /\ request' \in {"unsent", "sent", "applied", "refused"}
        /\ uris' \in Seq(Tracks) /\ position' \in Nat \cup {AtEnd}
        /\ Len(uris') \in Nat /\ completed' \in 0..Len(uris')
    BY CurrentTyped, LenProperties DEF IInv, Versions, Control, Progressing, Latest, Current
  <1>2. /\ edits \in 0..MaxEdits /\ header \in 0..Latest /\ startPosition \in Nat
        /\ finalSnapshot \in 0..Latest /\ created \in 0..Latest
        /\ position \in Nat \cup {AtEnd} /\ report \in Reports
    BY DEF TypeOK, PlaylistTypeOK
  <1>3. Latest' >= Latest /\ (ServiceAdds => Latest' = Latest + 1)
    <2>1. ASSUME NEW list, Commit(list) PROVE Latest' = Latest + 1
      <3>1. versions \in [1..Latest -> Lists] /\ Latest \in Nat
        BY <1>1, LenProperties DEF IInv, Versions, Latest, Lists
      <3>2. versions \in Seq(Lists)
        BY <3>1, FunctionIsSequence
      <3> QED
        BY <2>1, <3>2, CommitGrows
    <2>2. CASE UNCHANGED versions /\ ~ServiceAdds
      BY <1>1, <2>2 DEF Latest
    <2>3. CASE ServiceAdds
      <3>1. PICK list : Commit(list)
        BY <2>3 DEF ServiceAdds
      <3> QED
        BY <1>1, <2>1, <3>1
    <2>4. CASE Collaborator /\ ~ServiceAdds
      <3>1. PICK list : Commit(list)
        BY <2>4 DEF Collaborator, CollaboratorEdits, CollaboratorInserts,
                    CollaboratorRemoves, CollaboratorMoves
      <3> QED
        BY <1>1, <2>1, <2>4, <3>1
    <2>5. ASSUME ~ServiceAdds, ~Collaborator PROVE UNCHANGED versions
      BY <2>5 DEF Next, Command, Progress, Service, Finished, vars, GetPlaylist,
                  GetFails, SendBatch, BatchNotSent,
                  BatchConfirmed, BatchRejected, BatchUncertain,
                  WriteOutput, StopRejected, StopUncertain, End,
                  ServiceRefuses
    <2> QED
      BY <2>2, <2>3, <2>4, <2>5
  <1>4. edits' \in 0..MaxEdits
    <2>1. CASE Collaborator
      BY <1>2, <2>1, MaxEditsAssumption DEF Collaborator, CollaboratorEdits
    <2>2. CASE ~Collaborator
      BY <1>2, <2>2 DEF Next, Command, Progress, Service, Finished, vars,
                        GetPlaylist, GetFails, SendBatch,
                        BatchNotSent, BatchConfirmed,
                        BatchRejected, BatchUncertain,
                        WriteOutput, StopRejected,
                        StopUncertain, End, ServiceAdds,
                        ServiceRefuses
    <2> QED
      BY <2>1, <2>2
  <1>5. header' \in 0..Latest' /\ startPosition' \in Nat
    <2>1. CASE GetPlaylist
      <3>1. header' = Latest
        BY <2>1 DEF GetPlaylist
      <3>2. startPosition' \in {startPosition, Len(Current), position}
        BY <2>1 DEF GetPlaylist
      <3>3. startPosition' = position => position \in Nat \/ startPosition' = startPosition
                                                         \/ startPosition' = Len(Current)
        BY <1>2, <2>1 DEF GetPlaylist
      <3> QED
        BY <1>1, <1>2, <1>3, <3>1, <3>2, <3>3
    <2>2. CASE ~GetPlaylist
      <3>1. UNCHANGED <<header, startPosition>>
        BY <2>2 DEF Next, Command, Progress, Service, Finished, vars, GetFails,
                    SendBatch, BatchNotSent, BatchConfirmed,
                    BatchRejected, BatchUncertain, WriteOutput,
                    StopRejected, StopUncertain, End,
                    ServiceAdds, ServiceRefuses, Collaborator
      <3> QED
        BY <1>1, <1>2, <1>3, <3>1
    <2> QED
      BY <2>1, <2>2
  <1>6. finalSnapshot' \in 0..Latest' /\ created' \in 0..Latest'
    <2>1. finalSnapshot' \in {finalSnapshot, created}
      BY DEF Next, Command, Progress, Service, Finished, vars, GetPlaylist,
             GetFails, SendBatch, BatchNotSent, BatchConfirmed,
             BatchRejected, BatchUncertain, WriteOutput, StopRejected,
             StopUncertain, End, ServiceAdds, ServiceRefuses,
             Collaborator
    <2>2. created' = created \/ ServiceAdds
      BY DEF Next, Command, Progress, Service, Finished, vars, GetPlaylist,
             GetFails, SendBatch, BatchNotSent, BatchConfirmed,
             BatchRejected, BatchUncertain, WriteOutput, StopRejected,
             StopUncertain, End, ServiceRefuses, Collaborator
    <2>3. ServiceAdds => created' = Latest + 1
      BY DEF ServiceAdds
    <2> QED
      BY <1>1, <1>2, <1>3, <2>1, <2>2, <2>3
  <1>7. landed' \in 0..Len(uris')
    <2>1. landed' \in {BatchEnd', completed'}
      BY DEF IInv, Progressing
    <2>2. BatchEnd' \in 0..Len(uris')
      <3>1. PICK n \in Nat : n = Len(uris')
        BY <1>1
      <3>2. PICK k \in 0..n : k = completed'
        BY <1>1, <3>1
      <3>3. BatchEnd' = IF k + BatchSize < n THEN k + BatchSize ELSE n
        BY <3>1, <3>2 DEF BatchEnd
      <3>4. BatchEnd' \in 0..n
        BY <3>3, BatchSizeAssumption
      <3> QED
        BY <3>1, <3>4
    <2> QED
      BY <1>1, <2>1, <2>2
  <1>8. report' \in Reports
    BY <1>2 DEF Next, Command, Progress, Service, Finished, vars, GetPlaylist,
                GetFails, SendBatch, BatchNotSent, BatchConfirmed,
                BatchRejected, BatchUncertain, WriteOutput,
                StopRejected, StopUncertain, End, ServiceAdds,
                ServiceRefuses, Collaborator, Reports
  <1>9. record' \in [start : Nat, count : Nat, snapshot : 0..Latest']
    <2>1. CASE record' = NoRecord
      BY <1>1, <2>1 DEF NoRecord
    <2>2. CASE record' # NoRecord
      BY <1>1, <1>5, <1>6, <2>2 DEF IInv, Control, NoRecord
    <2> QED
      BY <2>1, <2>2
  <1> QED
    BY <1>1, <1>4, <1>5, <1>6, <1>7, <1>8, <1>9 DEF TypeOK, PlaylistTypeOK

\* The invariant holds of every behaviour.
THEOREM Invariance == Spec => []IInv
  BY InitIInv, NextPreserves, PTL DEF Spec

\* Every variable of an add keeps its type: what was confirmed and what has landed
\* never exceed the tracks named, and every snapshot recorded is one there has been.
THEOREM TypeCorrect == Spec => []TypeOK
  <1>1. Init => TypeOK
    <2> SUFFICES ASSUME Init PROVE TypeOK
      OBVIOUS
    <2>1. IInv
      BY InitIInv
    <2>2. PlaylistTypeOK
      BY <2>1, MaxEditsAssumption DEF IInv, Init, PlaylistInit, PlaylistTypeOK, Versions
    <2>3. Latest \in Nat \ {0} /\ Len(uris) \in Nat
      BY <2>1, CurrentTyped, LenProperties DEF IInv, Progressing
    <2>4. uris \in Seq(Tracks) /\ position \in Nat \cup {AtEnd}
      BY <2>1 DEF IInv, Progressing
    <2> QED
      BY <2>2, <2>3, <2>4 DEF Init, TypeOK, Reports, NoRecord
  <1>2. IInv /\ TypeOK /\ [Next]_vars => IInv' /\ TypeOK'
    BY NextPreserves, TypesKept
  <1> QED
    BY <1>1, <1>2, InitIInv, PTL DEF Spec

\* What addPlaylistItems reports is what the service did or will ever do: the
\* record counts the tracks added, an error without one means none was, an
\* uncertain end is off by the batch in doubt at most.
THEOREM ReportsAreHonest == Spec => []HonestReport
  <1>1. IInv => HonestReport
    <2> SUFFICES ASSUME IInv PROVE HonestReport
      OBVIOUS
    <2>1. /\ completed \in Nat /\ Len(uris) \in Nat /\ completed <= Len(uris)
          /\ landed = IF request = "applied" THEN BatchEnd ELSE completed
      BY LenProperties DEF IInv, Progressing
    <2>2. BatchEnd \in Nat /\ completed <= BatchEnd
      BY <2>1, BatchSizeAssumption DEF BatchEnd
    <2>3. record # NoRecord => landed = record.count /\ request # "sent"
      BY <2>1 DEF IInv, Control
    <2>4. report \in {"usage", "failed", "rejected"} => landed = 0 /\ request # "sent"
      BY <2>1 DEF IInv, Control
    <2> QED
      BY <2>1, <2>2, <2>3, <2>4 DEF HonestReport
  <1> QED
    BY <1>1, Invariance, PTL

\* The loop of addPlaylistItems sends no batch before those before it are known to
\* have landed: what is added is a prefix of what was asked for.
THEOREM OneBatchAtATime == Spec => []BatchesInTurn
  <1>1. IInv => BatchesInTurn
    BY DEF IInv, Progressing, BatchesInTurn
  <1> QED
    BY <1>1, Invariance, PTL

\* If nobody else edited the playlist meanwhile, the record of addPlaylistItems
\* says where the tracks it counts stand, whatever the batches they went in.
THEOREM RecordIsTrue == Spec => []RecordLocates
  <1>1. IInv => RecordLocates
    <2> SUFFICES ASSUME IInv, record # NoRecord,
                        record.snapshot - header = (record.count - 1) \div BatchSize + 1
                 PROVE  ItemsOf(versions[record.snapshot]) =
                          InsertedAt(ItemsOf(versions[header]), record.start,
                                     SubSeq(uris, 1, record.count))
      BY DEF RecordLocates
    <2>1. /\ completed > 0 /\ record.start = startPosition
          /\ record.count = completed /\ record.snapshot = finalSnapshot
      BY DEF IInv, Control
    <2>2. completed \in Nat
      BY LenProperties DEF IInv, Progressing
    <2>3. Stands(finalSnapshot, completed)
      BY <2>1, <2>2 DEF IInv, Placed, Confirmed
    <2>4. finalSnapshot - header = Batches(completed)
      BY <2>1, <2>2 DEF Batches
    <2> QED
      BY <2>1, <2>3, <2>4 DEF Stands, WithFirst
  <1> QED
    BY <1>1, Invariance, PTL
------------------------------------------------------------------------------
(* The add of each track is a call *)

\* What the command knows of track n: it is told of the batch that has it.
Verdict(n) ==
    IF completed >= n THEN "confirmed"
    ELSE IF n <= BatchEnd /\ report \in {"rejected", "partial", "partialOutputFailed"}
      THEN "rejected"
    ELSE IF n <= BatchEnd /\ report = "uncertain" THEN "uncertain" ELSE "none"

Call(n) == INSTANCE MutationCall WITH
               applications <- IF landed >= n THEN 1 ELSE 0,
               verdict <- Verdict(n)

\* Before the output it is decided which of two records there is.
Ending == pc = "output" => report \in {"partial", "added"}

\* No step but those that decide it leads to the output.
LEMMA EndingPreserved == ASSUME Ending, Control, [Next]_vars PROVE Ending'
  <1> USE DEF Ending
  <1>1. CASE UNCHANGED <<pc, report>>
    BY <1>1
  <1>2. CASE GetPlaylist \/ GetFails \/ SendBatch \/ BatchUncertain \/ WriteOutput
    BY <1>2 DEF GetPlaylist, GetFails, SendBatch, BatchUncertain, StopUncertain, WriteOutput, End
  <1>3. CASE BatchNotSent \/ BatchRejected \/ BatchConfirmed
    BY <1>3 DEF BatchNotSent, BatchRejected, BatchConfirmed, StopRejected, StopUncertain, End
  <1>4. CASE ServiceAdds \/ ServiceRefuses \/ Collaborator \/ Finished \/ UNCHANGED vars
    BY <1>1, <1>4 DEF ServiceAdds, ServiceRefuses, Collaborator, Finished, vars
  <1> QED
    BY <1>2, <1>3, <1>4 DEF Next, Command, Progress, Service

\* Each step is one of the call or none.
LEMMA StepIsCalls ==
    ASSUME IInv, Ending, [Next]_vars, NEW n \in Nat \ {0}
    PROVE  [Call(n)!Next]_(Call(n)!vars)
  <1> USE DEF Call!vars, Call!Next, Call!Apply, Call!Confirm, Call!Reject, Call!DoubtOutcome
  <1>1. Control /\ Progressing
    BY DEF IInv
  <1>2. PICK named \in Nat : named = Len(uris)
    BY <1>1 DEF Progressing
  <1>3. /\ completed \in Nat /\ completed <= named /\ BatchEnd \in Nat
        /\ completed <= BatchEnd /\ BatchEnd <= named
        /\ landed = IF request = "applied" THEN BatchEnd ELSE completed
    BY <1>1, <1>2, BatchSizeAssumption DEF Progressing, BatchEnd
  <1>4. ASSUME UNCHANGED <<uris, completed, landed, report>>
        PROVE  UNCHANGED Call(n)!vars
    BY <1>4 DEF Verdict, BatchEnd
  <1>5. CASE SendBatch \/ Collaborator \/ ServiceRefuses \/ Finished \/ UNCHANGED vars
    BY <1>4, <1>5 DEF SendBatch, Collaborator, ServiceRefuses, Finished, vars, inputs,
                      progressVars, serviceVars
  <1>6. CASE GetPlaylist \/ GetFails
    <2>1. /\ UNCHANGED <<uris, completed, landed>> /\ report = "none"
          /\ report' \in {"none", "usage", "failed"}
      BY <1>1, <1>6 DEF Control, GetPlaylist, GetFails, End, inputs, progressVars, serviceVars
    <2>2. BatchEnd' = BatchEnd
      BY <2>1 DEF BatchEnd
    <2> QED
      BY <2>1, <2>2, <1>3 DEF Verdict
  <1>7. CASE BatchNotSent \/ BatchRejected \/ BatchUncertain
    <2>1. /\ UNCHANGED <<uris, completed, landed>> /\ report = "none"
          /\ \/ report' \in {"rejected", "partial"} /\ request # "applied"
             \/ report' = "uncertain"
      BY <1>1, <1>7 DEF Control, BatchNotSent, BatchRejected, BatchUncertain, StopRejected,
                        StopUncertain, End, inputs, progressVars, serviceVars
    <2>2. BatchEnd' = BatchEnd
      BY <2>1 DEF BatchEnd
    <2> QED
      BY <2>1, <2>2, <1>3 DEF Verdict
  <1>8. CASE BatchConfirmed
    <2>1. /\ UNCHANGED <<uris, landed>> /\ report = "none" /\ request = "applied"
          /\ completed' = BatchEnd /\ report' \in {"none", "added"}
      BY <1>1, <1>8 DEF Control, BatchConfirmed, inputs, serviceVars
    <2> QED
      BY <2>1, <1>3 DEF Verdict
  <1>9. CASE WriteOutput
    <2>1. UNCHANGED <<uris, completed, landed>>
      BY <1>9 DEF WriteOutput, inputs, progressVars, serviceVars
    <2>2. BatchEnd' = BatchEnd
      BY <2>1 DEF BatchEnd
    <2>3. \/ report = "partial" /\ report' \in {"partial", "partialOutputFailed"}
          \/ report = "added" /\ report' \in {"added", "addedOutputFailed"}
      BY <1>9 DEF Ending, WriteOutput
    <2> QED
      BY <2>1, <2>2, <2>3, <1>3 DEF Verdict
  <1>10. CASE ServiceAdds
    <2>1. /\ UNCHANGED <<uris, completed, report>> /\ request = "sent"
          /\ landed' = landed + Len(Batch)
      BY <1>10 DEF ServiceAdds, inputs, progressVars
    <2>2. BatchEnd' = BatchEnd
      BY <2>1 DEF BatchEnd
    <2>3. landed' = BatchEnd /\ landed = completed
      <3>1. completed < Len(uris) /\ landed = completed
        BY <2>1, <1>1 DEF Progressing
      <3>2. Len(Batch) = BatchEnd - completed
        BY <3>1, <1>1, BatchTyped DEF IInv
      <3> QED
        BY <3>1, <3>2, <2>1, <1>3
    <2>4. report \notin {"rejected", "partial", "partialOutputFailed"}
      BY <2>1, <1>1 DEF Control
    <2> QED
      BY <2>1, <2>2, <2>3, <2>4, <1>3 DEF Verdict
  <1> QED
    BY <1>5, <1>6, <1>7, <1>8, <1>9, <1>10 DEF Next, Command, Progress, Service

\* Each track named is added as if by a call of its own, as MutationCall has it:
\* once at most, and what the command knows of it is that call's verdict.
THEOREM EachTrackIsACall == ASSUME NEW n \in Nat \ {0} PROVE Spec => Call(n)!Spec
  <1>1. Init => Call(n)!Init
    BY DEF Init, Call!Init, Verdict, BatchEnd
  <1>2. IInv /\ Ending /\ [Next]_vars => [Call(n)!Next]_(Call(n)!vars)
    BY StepIsCalls
  <1>3. Init => Ending
    BY DEF Init, Ending
  <1>4. IInv /\ Ending /\ [Next]_vars => Ending'
    BY EndingPreserved DEF IInv
  <1> QED
    BY <1>1, <1>2, <1>3, <1>4, Invariance, PTL DEF Spec, Call!Spec
=============================================================================
