-------------------------- MODULE PlaylistReadProofs --------------------------
(***************************************************************************)
(* What the proofs about the playlist commands share: versions are only    *)
(* ever appended, collaborators make lists of lists, a page continues the  *)
(* items read before it, and a DELETE that takes one entry out closes the  *)
(* list up behind it.                                                      *)
(***************************************************************************)
EXTENDS PlaylistRead, TLAPS, SequenceTheorems, FiniteSetTheorems

\* Whatever the versions are
Lists == {versions[i] : i \in DOMAIN versions}

\* A function on 1..n is a sequence of length n.
LEMMA FunctionIsSequence ==
    ASSUME NEW S, NEW n \in Nat, NEW f \in [1..n -> S]
    PROVE  f \in Seq(S) /\ Len(f) = n
  <1>1. f \in Seq(S)
    BY SeqDef
  <1>2. Len(f) \in Nat /\ DOMAIN f = 1..Len(f) /\ DOMAIN f = 1..n
    BY <1>1, LenProperties
  <1> QED
    BY <1>2

\* A new version leaves the earlier ones as they are.
LEMMA CommitGrows ==
    ASSUME versions \in Seq(Lists), NEW list, Commit(list)
    PROVE  /\ (versions \in Seq(Lists))'
           /\ Latest' = Latest + 1
           /\ \A i \in 1..Latest : versions'[i] = versions[i]
  <1> DEFINE S == Lists \cup {list}
  <1>1. versions \in Seq(S)
    BY SeqMonotonic
  <1>2. /\ Len(versions') = Len(versions) + 1
        /\ \A i \in 1..Len(versions) : versions'[i] = versions[i]
        /\ versions' \in Seq(S)
    BY <1>1, AppendProperties DEF Commit
  <1>3. DOMAIN versions' = 1..Len(versions') /\ Len(versions') \in Nat
        /\ versions' \in [1..Len(versions') -> S]
    BY <1>2, LenProperties
  <1>4. versions' \in [1..Len(versions') -> Lists']
    BY <1>3 DEF Lists
  <1>5. versions' \in Seq(Lists')
    BY <1>3, <1>4, FunctionIsSequence
  <1> QED
    BY <1>2, <1>5 DEF Latest

\* The version committed last is the one committed.
LEMMA CommittedLast ==
    ASSUME versions \in Seq(Lists), NEW list, Commit(list)
    PROVE  versions'[Latest + 1] = list
  <1> DEFINE S == Lists \cup {list}
  <1>1. versions \in Seq(S) /\ list \in S
    BY SeqMonotonic
  <1> QED
    BY <1>1, AppendProperties DEF Commit, Latest

\* A new version that is a list keeps the versions a sequence of lists.
LEMMA CommitTyped ==
    ASSUME versions \in Seq(Seq(Entries)), NEW list \in Seq(Entries), Commit(list)
    PROVE  versions' \in Seq(Seq(Entries))
  BY AppendProperties DEF Commit

\* The items of a list, which ListPlaylistItems pages through, are a sequence of
\* the same length.
LEMMA ItemsAreSequence ==
    ASSUME NEW list \in Seq(Entries)
    PROVE  ItemsOf(list) \in Seq(Items) /\ Len(ItemsOf(list)) = Len(list)
  <1>1. DOMAIN list = 1..Len(list) /\ Len(list) \in Nat
    BY LenProperties
  <1>2. \A i \in 1..Len(list) : list[i].item \in Items
    <2>1. \A e \in Entries : e.item \in Items
      BY DEF Entries
    <2> QED
      BY <2>1, ElementOfSeq
  <1>3. ItemsOf(list) \in [1..Len(list) -> Items]
    BY <1>1, <1>2 DEF ItemsOf
  <1> QED
    BY <1>1, <1>3, FunctionIsSequence

\* InsertedAt, which the POST and the expected list of an update use: one entry
\* more makes a list of a list.
LEMMA OneInsertedTyped ==
    ASSUME NEW list \in Seq(Entries), Latest \in Nat,
           NEW place \in 0..Len(list), NEW item \in Items
    PROVE  InsertedAt(list, place, NewEntries(<<item>>)) \in Seq(Entries)
  <1>1. DOMAIN <<item>> = 1..1 /\ <<item>>[1] = item
    OBVIOUS
  <1>2. [item |-> item, birth |-> <<Latest + 1, 1>>] \in Entries
    BY DEF Entries
  <1>3. NewEntries(<<item>>) \in [1..1 -> Entries]
    BY <1>1, <1>2 DEF NewEntries
  <1>4. NewEntries(<<item>>) \in Seq(Entries)
    BY <1>3, FunctionIsSequence
  <1> QED
    BY <1>4 DEF InsertedAt

\* What is inserted stands at the position asked for.
LEMMA InsertedIsThere ==
    ASSUME NEW S, NEW list \in Seq(S), NEW place \in 0..Len(list), NEW x \in S
    PROVE  InsertedAt(list, place, <<x>>)[place + 1] = x
  <1> DEFINE before == SubSeq(list, 1, place)
             after  == SubSeq(list, place + 1, Len(list))
  <1>1. before \in Seq(S) /\ Len(before) = place /\ after \in Seq(S)
    OBVIOUS
  <1>2. <<x>> \in Seq(S) /\ Len(<<x>>) = 1 /\ <<x>>[1] = x
    OBVIOUS
  <1> HIDE DEF before, after
  <1>3. /\ before \o <<x>> \in Seq(S) /\ Len(before \o <<x>>) = place + 1
        /\ (before \o <<x>>)[place + 1] = x
    BY <1>1, <1>2, ConcatProperties
  <1>4. ((before \o <<x>>) \o after)[place + 1] = x
    BY <1>1, <1>3, ConcatProperties
  <1> QED
    BY <1>4 DEF InsertedAt, before, after

\* What collaborators make of a list is a list.
LEMMA EditTyped ==
    ASSUME versions \in Seq(Seq(Entries)), Latest > 0, CollaboratorEdits
    PROVE  versions' \in Seq(Seq(Entries))
  <1>1. Current \in Seq(Entries) /\ Latest \in Nat
    BY DEF Current, Latest
  <1>2. CASE CollaboratorInserts
    <2>1. PICK place \in 0..Len(Current), item \in Items :
            Commit(InsertedAt(Current, place, NewEntries(<<item>>)))
      BY <1>2 DEF CollaboratorInserts
    <2>2. InsertedAt(Current, place, NewEntries(<<item>>)) \in Seq(Entries)
      BY <1>1, OneInsertedTyped
    <2> QED
      BY <2>1, <2>2, CommitTyped
  <1>3. CASE CollaboratorRemoves
    <2>1. \A i \in DOMAIN Current : RemoveAt(Current, i) \in Seq(Entries)
      BY <1>1 DEF RemoveAt
    <2> QED
      BY <1>3, <2>1, CommitTyped DEF CollaboratorRemoves
  <1>4. CASE CollaboratorMoves
    <2>1. PICK i \in DOMAIN Current, j \in DOMAIN Current :
            i # j /\ Commit(InsertAt(RemoveAt(Current, i), j, Current[i]))
      BY <1>4 DEF CollaboratorMoves
    <2>2. i \in 1..Len(Current) /\ j \in 1..Len(Current) /\ Current[i] \in Entries
      BY <1>1, LenProperties
    <2> DEFINE before == SubSeq(Current, 1, i - 1)
               after  == SubSeq(Current, i + 1, Len(Current))
    <2> HIDE DEF before, after
    <2>3. before \in Seq(Entries) /\ Len(before) = i - 1
      BY <1>1, <2>2 DEF before
    <2>4. after \in Seq(Entries) /\ Len(after) = Len(Current) - i
      BY <1>1, <2>2 DEF after
    <2>5. RemoveAt(Current, i) = before \o after
      BY DEF RemoveAt, before, after
    <2>6. /\ RemoveAt(Current, i) \in Seq(Entries)
          /\ Len(RemoveAt(Current, i)) = Len(Current) - 1
      BY <1>1, <2>2, <2>3, <2>4, <2>5, ConcatProperties, LenProperties
    <2>7. InsertAt(RemoveAt(Current, i), j, Current[i]) \in Seq(Entries)
      BY <2>2, <2>6 DEF InsertAt
    <2> QED
      BY <2>1, <2>7, CommitTyped
  <1> QED
    BY <1>2, <1>3, <1>4 DEF CollaboratorEdits

\* A turn of the loop of readPlaylistItems: a prefix of a list and the page that
\* begins where it ends are a longer prefix.
LEMMA PageFollows ==
    ASSUME NEW list \in Seq(Items), NEW k \in Nat, k < Len(list)
    PROVE  \E n \in 0..Len(list) :
             /\ SubSeq(list, 1, k) \o Page(list, k) = SubSeq(list, 1, n)
             /\ Len(SubSeq(list, 1, n)) = n
  <1> DEFINE n == IF k + PageSize < Len(list) THEN k + PageSize ELSE Len(list)
  <1>1. n \in 0..Len(list) /\ k <= n /\ PageSize \in Nat
    BY PageSizeAssumption, LenProperties
  <1>2. Page(list, k) = SubSeq(list, k + 1, n)
    BY DEF Page
  <1> HIDE DEF n
  <1>3. SubSeq(list, 1, k) \o SubSeq(list, k + 1, n) = SubSeq(list, 1, n)
    BY <1>1, ConcatAdjacentSubSeq
  <1>4. Len(SubSeq(list, 1, n)) = n
    BY <1>1
  <1> QED
    BY <1>1, <1>2, <1>3, <1>4

\* A page holds items, whatever offset it is asked for.
LEMMA PageTyped ==
    ASSUME NEW list \in Seq(Items), NEW k \in Nat
    PROVE  Page(list, k) \in Seq(Items)
  <1> DEFINE n == IF k + PageSize < Len(list) THEN k + PageSize ELSE Len(list)
  <1>1. n \in 0..Len(list)
    BY PageSizeAssumption, LenProperties
  <1>2. Page(list, k) = SubSeq(list, k + 1, n)
    BY DEF Page
  <1> HIDE DEF n
  <1>3. SubSeq(list, k + 1, n) \in Seq(Items)
    BY <1>1, SubSeqProperties, LenProperties
  <1> QED
    BY <1>2, <1>3

------------------------------------------------------------------------------
(* What a DELETE leaves *)

\* Places that are left have different ranks, and there is one for every rank.
LEMMA RanksOfLeft ==
    ASSUME NEW S, NEW list \in Seq(S), NEW doomed
    PROVE  /\ Left(list, doomed) \subseteq 1..Len(list)
           /\ Cardinality(Left(list, doomed)) \in Nat
           /\ \A n \in 1..Cardinality(Left(list, doomed)) :
                \E i \in Left(list, doomed) :
                  Cardinality(Left(list, doomed) \cap 1..i) = n
  <1> DEFINE left == Left(list, doomed)
             rank == [i \in left |-> Cardinality(left \cap 1..i)]
  <1>1. Len(list) \in Nat /\ left \in SUBSET (1..Len(list))
    BY LenProperties DEF Left
  <1>2. IsFiniteSet(1..Len(list))
    BY <1>1, FS_Interval
  <1>3. IsFiniteSet(left)
    BY <1>1, <1>2, FS_Subset
  <1>4. Cardinality(left) \in Nat
    BY <1>3, FS_CardinalityType
  <1> HIDE DEF left
  <1>5. ASSUME NEW i \in left
        PROVE  /\ IsFiniteSet(left \cap 1..i)
               /\ Cardinality(left \cap 1..i) \in 1..Cardinality(left)
    <2>1. left \cap 1..i \in SUBSET left /\ i \in left \cap 1..i
      BY <1>1
    <2>2. IsFiniteSet(left \cap 1..i) /\ Cardinality(left \cap 1..i) <= Cardinality(left)
      BY <1>3, <2>1, FS_Subset
    <2>3. Cardinality(left \cap 1..i) \in Nat
      BY <2>2, FS_CardinalityType
    <2>4. Cardinality(left \cap 1..i) # 0
      BY <2>1, <2>2, FS_EmptySet
    <2> QED
      BY <1>4, <2>2, <2>3, <2>4
  <1>6. ASSUME NEW i \in left, NEW j \in left, i < j
        PROVE  Cardinality(left \cap 1..i) # Cardinality(left \cap 1..j)
    <2>1. /\ left \cap 1..i \in SUBSET (left \cap 1..j)
          /\ j \in left \cap 1..j /\ j \notin left \cap 1..i
      BY <1>1, <1>6
    <2>2. left \cap 1..i # left \cap 1..j
      BY <2>1
    <2> QED
      BY <1>5, <2>1, <2>2, FS_Subset
  <1>7. rank \in [left -> 1..Cardinality(left)]
    BY <1>5
  <1>8. \A i, j \in left : rank[i] = rank[j] => i = j
    BY <1>1, <1>6
  <1>9. rank \in Injection(left, 1..Cardinality(left))
    BY <1>7, <1>8 DEF Injection, IsInjective
  <1>10. /\ IsFiniteSet(1..Cardinality(left))
         /\ Cardinality(1..Cardinality(left)) = Cardinality(left)
    <2>1. PICK n \in Nat : n = Cardinality(left)
      BY <1>4
    <2>2. IsFiniteSet(1..n) /\ Cardinality(1..n) = IF 1 > n THEN 0 ELSE n - 1 + 1
      BY FS_Interval
    <2> QED
      BY <2>1, <2>2
  <1>11. rank \in Surjection(left, 1..Cardinality(left))
    BY <1>9, <1>10, FS_Injection
  <1>12. \A n \in 1..Cardinality(left) : \E i \in left : rank[i] = n
    BY <1>11 DEF Surjection
  <1> QED
    BY <1>1, <1>4, <1>12 DEF left

\* What is left of a list is a list.
LEMMA WithoutTyped ==
    ASSUME NEW S, NEW list \in Seq(S), NEW doomed
    PROVE  Without(list, doomed) \in Seq(S)
  <1> DEFINE left == Left(list, doomed)
             place(n) == CHOOSE i \in left : Cardinality(left \cap 1..i) = n
  <1>1. left \subseteq 1..Len(list)
    BY RanksOfLeft
  <1>2. Cardinality(left) \in Nat
    BY RanksOfLeft
  <1>3. \A n \in 1..Cardinality(left) :
          \E i \in left : Cardinality(left \cap 1..i) = n
    BY RanksOfLeft
  <1> HIDE DEF left
  <1>4. \A n \in 1..Cardinality(left) : place(n) \in left
    BY <1>3
  <1> HIDE DEF place
  <1>5. \A n \in 1..Cardinality(left) : list[place(n)] \in S
    BY <1>1, <1>4, ElementOfSeq
  <1>6. [n \in 1..Cardinality(left) |-> list[place(n)]] \in Seq(S)
    <2> DEFINE f == [n \in 1..Cardinality(left) |-> list[place(n)]]
    <2>1. f \in [1..Cardinality(left) -> S]
      BY <1>5
    <2> HIDE DEF f
    <2> QED
      BY <1>2, <2>1, FunctionIsSequence DEF f
  <1> QED
    BY <1>6 DEF Without, left, place

\* A list without one of its places
LEMMA RemoveAtFacts ==
    ASSUME NEW S, NEW list \in Seq(S), NEW p \in 1..Len(list)
    PROVE  /\ RemoveAt(list, p) \in Seq(S) /\ Len(RemoveAt(list, p)) = Len(list) - 1
           /\ \A n \in 1..(Len(list) - 1) :
                RemoveAt(list, p)[n] = IF n < p THEN list[n] ELSE list[n + 1]
  <1> DEFINE before == SubSeq(list, 1, p - 1)
             after  == SubSeq(list, p + 1, Len(list))
  <1>1. Len(list) \in Nat /\ \A n \in 1..Len(list) : list[n] \in S
    BY LenProperties, ElementOfSeq
  <1>2. /\ before \in Seq(S) /\ Len(before) = p - 1
        /\ \A n \in 1..(p - 1) : before[n] = list[n]
    BY <1>1
  <1>3. /\ after \in Seq(S) /\ Len(after) = Len(list) - p
        /\ \A n \in 1..(Len(list) - p) : after[n] = list[p + n]
    BY <1>1
  <1> HIDE DEF before, after
  <1>4. /\ before \o after \in Seq(S)
        /\ Len(before \o after) = Len(before) + Len(after)
        /\ \A n \in 1..(Len(before) + Len(after)) :
             (before \o after)[n] = IF n <= Len(before) THEN before[n]
                                                     ELSE after[n - Len(before)]
    BY <1>2, <1>3, ConcatProperties
  <1>5. Len(before) + Len(after) = Len(list) - 1
    BY <1>1, <1>2, <1>3
  <1>6. RemoveAt(list, p) = before \o after
    BY DEF RemoveAt, before, after
  <1>7. ASSUME NEW n \in 1..(Len(list) - 1)
        PROVE  (before \o after)[n] = IF n < p THEN list[n] ELSE list[n + 1]
    <2>1. CASE n < p
      BY <1>1, <1>2, <1>4, <1>5, <2>1
    <2>2. CASE ~(n < p)
      <3>1. n - (p - 1) \in 1..(Len(list) - p) /\ p + (n - (p - 1)) = n + 1
        BY <1>1, <2>2
      <3>2. (before \o after)[n] = after[n - (p - 1)]
        BY <1>1, <1>2, <1>4, <1>5, <2>2
      <3> QED
        BY <1>3, <2>2, <3>1, <3>2
    <2> QED
      BY <2>1, <2>2
  <1> QED
    BY <1>4, <1>5, <1>6, <1>7

\* A list with one entry more
LEMMA InsertedAtFacts ==
    ASSUME NEW S, NEW list \in Seq(S), NEW p \in 0..Len(list), NEW x \in S
    PROVE  /\ InsertedAt(list, p, <<x>>) \in Seq(S)
           /\ Len(InsertedAt(list, p, <<x>>)) = Len(list) + 1
           /\ \A n \in 1..(Len(list) + 1) :
                InsertedAt(list, p, <<x>>)[n] =
                  IF n <= p THEN list[n] ELSE IF n = p + 1 THEN x ELSE list[n - 1]
  <1> DEFINE before == SubSeq(list, 1, p)
             after  == SubSeq(list, p + 1, Len(list))
             begin  == before \o <<x>>
  <1>1. Len(list) \in Nat /\ \A n \in 1..Len(list) : list[n] \in S
    BY LenProperties, ElementOfSeq
  <1>2. /\ before \in Seq(S) /\ Len(before) = p
        /\ \A n \in 1..p : before[n] = list[n]
    BY <1>1
  <1>3. /\ after \in Seq(S) /\ Len(after) = Len(list) - p
        /\ \A n \in 1..(Len(list) - p) : after[n] = list[p + n]
    BY <1>1
  <1>4. <<x>> \in Seq(S) /\ Len(<<x>>) = 1 /\ <<x>>[1] = x
    OBVIOUS
  <1> HIDE DEF before, after
  <1>5. /\ begin \in Seq(S) /\ Len(begin) = p + 1
        /\ \A n \in 1..(p + 1) : begin[n] = IF n <= p THEN list[n] ELSE x
    BY <1>2, <1>4, ConcatProperties
  <1>6. InsertedAt(list, p, <<x>>) = begin \o after
    BY DEF InsertedAt, before, after
  <1> HIDE DEF begin
  <1>7. /\ begin \o after \in Seq(S)
        /\ Len(begin \o after) = Len(begin) + Len(after)
        /\ \A n \in 1..(Len(begin) + Len(after)) :
             (begin \o after)[n] = IF n <= Len(begin) THEN begin[n]
                                                   ELSE after[n - Len(begin)]
    BY <1>3, <1>5, ConcatProperties
  <1>8. Len(begin) + Len(after) = Len(list) + 1
    BY <1>1, <1>3, <1>5
  <1>9. ASSUME NEW n \in 1..(Len(list) + 1)
        PROVE  (begin \o after)[n] =
                 IF n <= p THEN list[n] ELSE IF n = p + 1 THEN x ELSE list[n - 1]
    <2>1. CASE n <= p + 1
      BY <1>1, <1>5, <1>7, <1>8, <2>1
    <2>2. CASE ~(n <= p + 1)
      <3>1. n - (p + 1) \in 1..(Len(list) - p) /\ p + (n - (p + 1)) = n - 1
        BY <1>1, <2>2
      <3>2. (begin \o after)[n] = after[n - (p + 1)]
        BY <1>1, <1>5, <1>7, <1>8, <2>2
      <3> QED
        BY <1>3, <2>2, <3>1, <3>2
    <2> QED
      BY <2>1, <2>2
  <1> QED
    BY <1>6, <1>7, <1>8, <1>9

\* The items of a list, one by one
LEMMA ItemsOfFacts ==
    ASSUME NEW list \in Seq(Entries)
    PROVE  /\ ItemsOf(list) \in Seq(Items) /\ Len(ItemsOf(list)) = Len(list)
           /\ \A n \in 1..Len(list) : ItemsOf(list)[n] = list[n].item
           /\ \A n \in 1..Len(list) : list[n].item \in Items
  <1>1. DOMAIN list = 1..Len(list) /\ ItemsOf(list) \in Seq(Items)
        /\ Len(ItemsOf(list)) = Len(list)
    BY ItemsAreSequence, LenProperties
  <1>2. \A n \in 1..Len(list) : ItemsOf(list)[n] = list[n].item
    BY <1>1 DEF ItemsOf
  <1>3. \A n \in 1..Len(list) : ItemsOf(list)[n] \in Items
    BY <1>1, ElementOfSeq
  <1> QED
    BY <1>1, <1>2, <1>3

\* When one place alone is doomed, the others close up.
LEMMA WithoutOne ==
    ASSUME NEW S, NEW list \in Seq(S), NEW p \in 1..Len(list), NEW doomed,
           \A i \in 1..Len(list) : list[i] \in doomed <=> i = p
    PROVE  Without(list, doomed) = RemoveAt(list, p)
  <1> DEFINE left == Left(list, doomed)
             rank(i) == Cardinality(left \cap 1..i)
             place(n) == CHOOSE i \in left : rank(i) = n
  <1>1. Len(list) \in Nat /\ p \in Nat /\ DOMAIN list = 1..Len(list)
    BY LenProperties
  <1>2. left = (1..Len(list)) \ {p}
    BY <1>1 DEF Left
  <1> HIDE DEF left
  <1>3. \A n \in Nat : IsFiniteSet(1..n) /\ Cardinality(1..n) = n
    <2> TAKE n \in Nat
    <2>1. IsFiniteSet(1..n) /\ Cardinality(1..n) = IF 1 > n THEN 0 ELSE n - 1 + 1
      BY FS_Interval
    <2> QED
      BY <2>1
  <1>4. Cardinality(left) = Len(list) - 1
    <2>1. Cardinality((1..Len(list)) \ {p}) = Cardinality(1..Len(list)) - 1
      BY <1>1, <1>3, FS_RemoveElement
    <2> QED
      BY <1>1, <1>2, <1>3, <2>1
  <1>5. \A i \in left : rank(i) = IF i < p THEN i ELSE i - 1
    <2> TAKE i \in left
    <2>1. i \in Nat /\ i <= Len(list) /\ i # p
      BY <1>1, <1>2
    <2>2. CASE i < p
      <3>1. left \cap 1..i = 1..i
        BY <1>1, <1>2, <2>1, <2>2
      <3> QED
        BY <1>3, <2>1, <2>2, <3>1
    <2>3. CASE ~(i < p)
      <3>1. left \cap 1..i = (1..i) \ {p} /\ p \in 1..i
        BY <1>1, <1>2, <2>1, <2>3
      <3>2. Cardinality((1..i) \ {p}) = Cardinality(1..i) - 1
        BY <1>3, <2>1, <3>1, FS_RemoveElement
      <3> QED
        BY <1>3, <2>1, <2>3, <3>1, <3>2
    <2> QED
      BY <2>2, <2>3
  <1> HIDE DEF rank
  <1>6. ASSUME NEW n \in 1..(Len(list) - 1)
        PROVE  place(n) = IF n < p THEN n ELSE n + 1
    <2> DEFINE k == IF n < p THEN n ELSE n + 1
    <2>1. k \in left /\ rank(k) = n
      BY <1>1, <1>2, <1>5
    <2>2. \A i \in left : rank(i) = n => i = k
      BY <1>1, <1>2, <1>5
    <2> HIDE DEF k
    <2>3. place(n) \in left /\ rank(place(n)) = n
      BY <2>1
    <2>4. place(n) = k
      BY <2>2, <2>3
    <2> QED
      BY <2>4 DEF k
  <1> HIDE DEF place
  <1>7. /\ RemoveAt(list, p) \in Seq(S) /\ Len(RemoveAt(list, p)) = Len(list) - 1
        /\ \A n \in 1..(Len(list) - 1) :
             RemoveAt(list, p)[n] = IF n < p THEN list[n] ELSE list[n + 1]
    BY RemoveAtFacts
  <1>8. Without(list, doomed) = [n \in 1..(Len(list) - 1) |-> list[place(n)]]
    BY <1>4 DEF Without, left, place, rank
  <1>9. \A n \in 1..(Len(list) - 1) : list[place(n)] = RemoveAt(list, p)[n]
    BY <1>6, <1>7
  <1>10. RemoveAt(list, p) = [n \in 1..(Len(list) - 1) |-> RemoveAt(list, p)[n]]
    BY <1>1, <1>7, LenProperties
  <1> QED
    BY <1>8, <1>9, <1>10

\* Inserting again what was taken out of a list restores it.
LEMMA RemovalUndone ==
    ASSUME NEW list \in Seq(Entries), NEW p \in 1..Len(list)
    PROVE  InsertedAt(ItemsOf(RemoveAt(list, p)), p - 1, <<list[p].item>>) = ItemsOf(list)
  <1> DEFINE rest == RemoveAt(list, p)
             restored == InsertedAt(ItemsOf(rest), p - 1, <<list[p].item>>)
  <1>1. Len(list) \in Nat /\ p \in Nat
    BY LenProperties
  <1>2. /\ rest \in Seq(Entries) /\ Len(rest) = Len(list) - 1
        /\ \A n \in 1..(Len(list) - 1) : rest[n] = IF n < p THEN list[n] ELSE list[n + 1]
    BY RemoveAtFacts
  <1> HIDE DEF rest
  <1>3. /\ ItemsOf(rest) \in Seq(Items) /\ Len(ItemsOf(rest)) = Len(list) - 1
        /\ \A n \in 1..(Len(list) - 1) : ItemsOf(rest)[n] = rest[n].item
    BY <1>2, ItemsOfFacts
  <1>4. /\ ItemsOf(list) \in Seq(Items) /\ Len(ItemsOf(list)) = Len(list)
        /\ \A n \in 1..Len(list) : ItemsOf(list)[n] = list[n].item
        /\ list[p].item \in Items
    BY ItemsOfFacts
  <1>5. p - 1 \in 0..Len(ItemsOf(rest))
    BY <1>1, <1>3
  <1>6. /\ restored \in Seq(Items) /\ Len(restored) = Len(ItemsOf(rest)) + 1
        /\ \A n \in 1..(Len(ItemsOf(rest)) + 1) :
             restored[n] = IF n <= p - 1 THEN ItemsOf(rest)[n]
                           ELSE IF n = (p - 1) + 1 THEN list[p].item
                                ELSE ItemsOf(rest)[n - 1]
    <2>1. PICK items \in Seq(Items) : items = ItemsOf(rest)
      BY <1>3
    <2>2. PICK k \in 0..Len(items) : k = p - 1
      BY <1>5, <2>1
    <2>3. PICK x \in Items : x = list[p].item
      BY <1>4
    <2>4. items \in Seq(Items) /\ k \in 0..Len(items) /\ x \in Items
      OBVIOUS
    <2>5. /\ InsertedAt(items, k, <<x>>) \in Seq(Items)
          /\ Len(InsertedAt(items, k, <<x>>)) = Len(items) + 1
          /\ \A n \in 1..(Len(items) + 1) :
               InsertedAt(items, k, <<x>>)[n] =
                 IF n <= k THEN items[n] ELSE IF n = k + 1 THEN x ELSE items[n - 1]
      BY ONLY <2>4, InsertedAtFacts
    <2> QED
      BY <2>1, <2>2, <2>3, <2>5
  <1> HIDE DEF restored
  <1>7. Len(restored) = Len(list)
    BY <1>1, <1>3, <1>6
  <1>8. ASSUME NEW n \in 1..Len(restored)
        PROVE  restored[n] = ItemsOf(list)[n]
    <2>1. n \in 1..Len(list) /\ n \in 1..(Len(ItemsOf(rest)) + 1)
      BY <1>1, <1>3, <1>7
    <2>2. CASE n < p
      <3>1. n \in 1..(Len(list) - 1) /\ n <= p - 1
        BY <1>1, <2>1, <2>2
      <3> QED
        BY <1>2, <1>3, <1>4, <1>6, <2>1, <2>2, <3>1
    <2>3. CASE n = p
      BY <1>1, <1>4, <1>6, <2>1, <2>3
    <2>4. CASE n > p
      <3>1. n - 1 \in 1..(Len(list) - 1) /\ ~(n - 1 < p) /\ (n - 1) + 1 = n
        BY <1>1, <2>1, <2>4
      <3>2. restored[n] = ItemsOf(rest)[n - 1]
        BY <1>1, <1>6, <2>1, <2>4
      <3>3. rest[n - 1] = list[n]
        BY <1>2, <3>1
      <3> QED
        BY <1>3, <1>4, <2>1, <3>1, <3>2, <3>3
    <2> QED
      BY <1>1, <2>1, <2>2, <2>3, <2>4
  <1>9. restored = ItemsOf(list)
    BY <1>4, <1>6, <1>7, <1>8, SeqEqual
  <1> QED
    BY <1>9 DEF restored, rest

\* Taking out the entry behind an inserted one leaves the replacement of one by the
\* other.
LEMMA ReplacementLeft ==
    ASSUME NEW items \in Seq(Items), NEW p \in 1..Len(items), NEW x \in Items,
           NEW list \in Seq(Entries), ItemsOf(list) = InsertedAt(items, p - 1, <<x>>)
    PROVE  ItemsOf(RemoveAt(list, p + 1)) = ReplaceAt(items, p, x)
  <1> DEFINE rest == RemoveAt(list, p + 1)
  <1>1. Len(items) \in Nat /\ p \in Nat /\ p - 1 \in 0..Len(items)
    BY LenProperties
  <1>2. /\ Len(ItemsOf(list)) = Len(items) + 1
        /\ \A n \in 1..(Len(items) + 1) :
             ItemsOf(list)[n] = IF n <= p - 1 THEN items[n]
                                ELSE IF n = (p - 1) + 1 THEN x ELSE items[n - 1]
    <2>1. PICK k \in 0..Len(items) : k = p - 1
      BY <1>1
    <2>2. /\ Len(InsertedAt(items, k, <<x>>)) = Len(items) + 1
          /\ \A n \in 1..(Len(items) + 1) :
               InsertedAt(items, k, <<x>>)[n] =
                 IF n <= k THEN items[n] ELSE IF n = k + 1 THEN x ELSE items[n - 1]
      BY InsertedAtFacts
    <2> QED
      BY <2>1, <2>2
  <1>3. /\ Len(list) = Len(items) + 1
        /\ \A n \in 1..Len(list) : ItemsOf(list)[n] = list[n].item
    BY <1>2, ItemsOfFacts
  <1>4. p + 1 \in 1..Len(list)
    BY <1>1, <1>3
  <1>5. /\ rest \in Seq(Entries) /\ Len(rest) = Len(list) - 1
        /\ \A n \in 1..(Len(list) - 1) :
             rest[n] = IF n < p + 1 THEN list[n] ELSE list[n + 1]
    BY <1>4, RemoveAtFacts
  <1> HIDE DEF rest
  <1>6. /\ ItemsOf(rest) \in Seq(Items) /\ Len(ItemsOf(rest)) = Len(rest)
        /\ \A n \in 1..Len(rest) : ItemsOf(rest)[n] = rest[n].item
    BY <1>5, ItemsOfFacts
  <1>7. Len(rest) = Len(items)
    BY <1>1, <1>3, <1>5
  <1>8. /\ ReplaceAt(items, p, x) \in Seq(Items)
        /\ Len(ReplaceAt(items, p, x)) = Len(items)
        /\ \A n \in 1..Len(items) :
             ReplaceAt(items, p, x)[n] = IF n = p THEN x ELSE items[n]
    BY ExceptSeq DEF ReplaceAt
  <1>9. ASSUME NEW n \in 1..Len(ItemsOf(rest))
        PROVE  ItemsOf(rest)[n] = ReplaceAt(items, p, x)[n]
    <2>1. n \in 1..Len(items) /\ n \in 1..(Len(list) - 1) /\ n \in 1..Len(rest)
          /\ n \in 1..Len(list) /\ n + 1 \in 1..Len(list)
      BY <1>1, <1>3, <1>6, <1>7
    <2>2. CASE n < p + 1
      <3>1. ItemsOf(rest)[n] = ItemsOf(list)[n]
        BY <1>3, <1>5, <1>6, <2>1, <2>2
      <3> QED
        <4>1. n \in 1..(Len(items) + 1) /\ (n <= p - 1 \/ n = (p - 1) + 1)
              /\ (n <= p - 1 <=> n # p)
          BY <1>1, <2>1, <2>2
        <4>2. ItemsOf(list)[n] = IF n = p THEN x ELSE items[n]
          BY <1>2, <4>1
        <4> QED
          BY <1>8, <2>1, <3>1, <4>2
    <2>3. CASE ~(n < p + 1)
      <3>1. ItemsOf(rest)[n] = ItemsOf(list)[n + 1]
        BY <1>3, <1>5, <1>6, <2>1, <2>3
      <3>2. ItemsOf(list)[n + 1] = items[n]
        <4>1. n + 1 \in 1..(Len(items) + 1) /\ ~(n + 1 <= p - 1) /\ n + 1 # (p - 1) + 1
              /\ (n + 1) - 1 = n
          BY <1>1, <2>1, <2>3
        <4> QED
          BY <1>2, <4>1
      <3> QED
        BY <1>1, <1>8, <2>1, <2>3, <3>1, <3>2
    <2> QED
      BY <2>2, <2>3
  <1>10. ItemsOf(rest) = ReplaceAt(items, p, x)
    BY <1>6, <1>7, <1>8, <1>9, SeqEqual
  <1> QED
    BY <1>10 DEF rest
=============================================================================
