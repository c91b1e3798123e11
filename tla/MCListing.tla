------------------------------ MODULE MCListing ------------------------------
(* The instances of Listing that TLC checks. *)
EXTENDS Listing

\* A search, which is capped, the items of a playlist, whose pages are checked
\* most, and a list without a parent
MCWalked ==
    {[command |-> SearchTrack, of |-> "a"], [command |-> ItemsList, of |-> "a"],
     [command |-> TrackList, of |-> NoParent]}

\* Among them another search of the same surface, and another parent
MCStrays ==
    {[command |-> SearchTrack, of |-> "b"], [command |-> ItemsList, of |-> "b"],
     [command |-> AlbumTracks, of |-> "a"]}
=============================================================================
