----------------------------- MODULE PlaylistRead -----------------------------
(***************************************************************************)
(* readPlaylistItems (internal/cmd/playlistcmd/playlist.go): the whole     *)
(* list read page by page, while collaborators go on editing it. The       *)
(* guarded commands put a read of the playlist's header (its snapshot id   *)
(* and item count) before and after it and trust the items only when both  *)
(* headers agree.                                                          *)
(***************************************************************************)
EXTENDS Playlist

CONSTANT
    PageSize   \* items asked for in one page

ASSUME PageSizeAssumption == PageSize \in Nat \ {0}

VARIABLES
    snapshot,  \* the snapshot id of the header read first, 0 before it
    total,     \* its item count
    seen       \* the items read so far

readVars == <<snapshot, total, seen>>

ReadTypeOK ==
    /\ snapshot \in 0..Latest
    /\ total \in Nat
    /\ seen \in Seq(Items)

ReadInit == snapshot = 0 /\ total = 0 /\ seen = <<>>

\* The first GetPlaylist
ReadHeader ==
    /\ snapshot' = Latest
    /\ total' = Len(Current)
    /\ seen' = <<>>

Page(list, offset) ==
    SubSeq(list, offset + 1,
           IF offset + PageSize < Len(list) THEN offset + PageSize
                                            ELSE Len(list))

\* Mutant: the offset never moves on from the first page.
ReadFirstPageAgain ==
    /\ Len(seen) < total
    /\ Len(Current) = total
    /\ seen' = Page(ItemsOf(Current), 0)
    /\ UNCHANGED <<snapshot, total>>

\* One turn of the loop
ReadPage ==
    /\ Len(seen) < total
    /\ Len(Current) = total
    /\ seen' = seen \o Page(ItemsOf(Current), Len(seen))
    /\ UNCHANGED <<snapshot, total>>

\* A page of a list of another length ends it with an error.
PageMismatch == Len(seen) < total /\ Len(Current) # total

ReadComplete == Len(seen) = total

\* Mutant: only the item count is compared.
CountUnchanged == Len(Current) = total

\* The second GetPlaylist finds the header unchanged
HeaderUnchanged == Latest = snapshot /\ Len(Current) = total
=============================================================================
