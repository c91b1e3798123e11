------------------------------- MODULE Playlist -------------------------------
(***************************************************************************)
(* One Spotify playlist as the playlist commands find it: the ordered      *)
(* items, a snapshot id for every state it has been in, and collaborators  *)
(* who edit it at any moment. The service is not part of the repository:   *)
(* this module says what internal/cmd/playlistcmd/playlist.go and          *)
(* internal/client/client.go take it to do.                                *)
(*                                                                         *)
(* An entry of the list is an item together with its birth (the version    *)
(* that brought it and its rank among the items that version brought), so  *)
(* that two occurrences of a track can be told apart. A snapshot id is the *)
(* index of a version and never stands for another state.                  *)
(***************************************************************************)
EXTENDS Integers, SequencesExt

CONSTANTS
    Tracks,      \* tracks the commands can name: a valid id and track URI
    OtherItems,  \* episodes, local files, unavailable items, ...
    MaxInitial,  \* bound: length of the list to begin with
    MaxEdits     \* bound: edits by collaborators

ASSUME MaxInitialAssumption == MaxInitial \in Nat
ASSUME MaxEditsAssumption == MaxEdits \in Nat

VARIABLES
    versions,  \* the states the list has been in, the last one being current
    edits      \* how many of them collaborators made (bounds the model)

Items == Tracks \cup OtherItems
Entries == [item : Items, birth : Nat \X Nat]

Latest == Len(versions)
Current == versions[Latest]

ItemsOf(list) == [i \in DOMAIN list |-> list[i].item]
Occurrences(items, item) == {i \in DOMAIN items : items[i] = item}

NewEntries(items) ==
    [n \in DOMAIN items |-> [item |-> items[n], birth |-> <<Latest + 1, n>>]]

\* list with others inserted so that they begin at a zero-based position
InsertedAt(list, position, others) ==
    SubSeq(list, 1, position) \o others \o SubSeq(list, position + 1, Len(list))

\* list without some entries: the n-th of what is left has n - 1 others before it.
Left(list, doomed) == {i \in DOMAIN list : list[i] \notin doomed}
Without(list, doomed) ==
    LET left == Left(list, doomed)
    IN  [n \in 1..Cardinality(left) |->
            list[CHOOSE i \in left : Cardinality(left \cap 1..i) = n]]

Commit(list) == versions' = Append(versions, list)

PlaylistTypeOK ==
    /\ versions \in Seq(Seq(Entries))
    /\ Latest > 0
    /\ edits \in 0..MaxEdits

PlaylistInit ==
    /\ \E n \in 0..MaxInitial : \E items \in [1..n -> Items] :
         versions =
           << [i \in 1..n |-> [item |-> items[i], birth |-> <<1, i>>]] >>
    /\ edits = 0

------------------------------------------------------------------------------
(* Collaborators *)

CollaboratorInserts ==
    \E position \in 0..Len(Current), item \in Items :
        Commit(InsertedAt(Current, position, NewEntries(<<item>>)))

CollaboratorRemoves ==
    \E i \in DOMAIN Current : Commit(RemoveAt(Current, i))

CollaboratorMoves ==
    \E i, j \in DOMAIN Current :
        i # j /\ Commit(InsertAt(RemoveAt(Current, i), j, Current[i]))

CollaboratorEdits ==
    /\ edits < MaxEdits
    /\ edits' = edits + 1
    /\ CollaboratorInserts \/ CollaboratorRemoves \/ CollaboratorMoves

------------------------------------------------------------------------------
(* What the service does with the requests of the commands *)

\* POST .../items with a position, or without one to append
AfterAdding(items, position) ==
    InsertedAt(Current, position, NewEntries(items))

\* DELETE .../items by URI against a snapshot: every occurrence of the track,
\* or only those the snapshot holds; either reading is allowed here.
DoomedByURI(track, snapshot) ==
    LET now  == {e \in ToSet(Current) : e.item = track}
    IN  {now, now \cap ToSet(versions[snapshot])}

\* DELETE .../items of the one occurrence at a zero-based position of a snapshot
DoomedAtPosition(track, position, snapshot) ==
    {e \in ToSet(Current) :
        /\ position < Len(versions[snapshot])
        /\ e = versions[snapshot][position + 1]
        /\ e.item = track}
=============================================================================
