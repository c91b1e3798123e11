------------------------------- MODULE Listing -------------------------------
(***************************************************************************)
(* A listing read page by page: the search, list and items list commands   *)
(* with --next-page-token (internal/cmd/searchcmd, catalogcmd, librarycmd, *)
(* playlistcmd; internal/pagetoken; the listing methods of                 *)
(* internal/client).  Every page is a process of its own; what ties them   *)
(* together is the token in the notice on standard error, which a script   *)
(* passes on.  The script keeps the rows of a command that exits 0 and     *)
(* runs a command that failed again, with the same token.                  *)
(*                                                                         *)
(* Meanwhile others change the list, and the service, which is not part of *)
(* the repository, may answer with a response that is off in one respect.  *)
(***************************************************************************)
EXTENDS Integers, SequencesExt

CONSTANTS
    Parents,     \* what is searched for; ids of albums, artists and playlists
    Walked,      \* the listings the script may read, among Listings
    Strays,      \* the listings whose tokens may be passed by mistake
    MaxSearch,   \* results a search may be asked for (10), also artist albums
    MaxList,     \* results the other lists may be asked for (50)
    MaxOffset,   \* offset up to which a search goes on (1000)
    MaxInitial,  \* bound: length of the list to begin with
    MaxEdits,    \* bound: edits by others
    MaxFaults    \* bound: failures, odd responses and misused commands

ASSUME LimitsAssumption ==
    MaxSearch \in Nat \ {0} /\ MaxList \in Nat \ {0} /\ MaxOffset \in Nat
ASSUME BoundsAssumption ==
    MaxInitial \in Nat /\ MaxEdits \in Nat /\ MaxFaults \in Nat

------------------------------------------------------------------------------
(* The listing methods of the client: which odd rows they take, and whether *)
(* total, rows and next must agree                                         *)

Blank == 0 \* a row without the id its kind must have
\* A null row, or one of a kind that needs no id (a local file) that has none
Unavailable == MaxInitial + MaxEdits + 1
OddRows == {Blank, Unavailable}

Method(oddRows, strict) == [oddRows |-> oddRows, strict |-> strict]

SearchTracks == Method(OddRows, FALSE)
SearchAlbums == Method({}, FALSE)
SearchArtists == Method({}, FALSE)
ListAlbumTracks == Method({}, FALSE)
ListArtistAlbums == Method({}, FALSE)
ListSavedTracks == Method({}, FALSE)
ListSavedAlbums == Method({}, FALSE)
ListCurrentUserPlaylists == Method({}, FALSE)
ListPlaylistItems == Method({Unavailable}, TRUE)

(* The commands: the surface their tokens name, whether the tokens also    *)
(* name a parent, the largest --max, whether they stop at MaxOffset        *)

Command(surface, ofParent, max, capped, method) ==
    [surface |-> surface, ofParent |-> ofParent, max |-> max, capped |-> capped,
     method |-> method]

SearchTrack == Command("track", FALSE, MaxSearch, TRUE, SearchTracks)
SearchAlbum == Command("album", FALSE, MaxSearch, TRUE, SearchAlbums)
SearchArtist == Command("artist", FALSE, MaxSearch, TRUE, SearchArtists)
AlbumTracks == Command("album-tracks", TRUE, MaxList, FALSE, ListAlbumTracks)
ArtistAlbums == Command("artist-albums", TRUE, MaxSearch, FALSE, ListArtistAlbums)
TrackList == Command("library-tracks", FALSE, MaxList, FALSE, ListSavedTracks)
AlbumList == Command("library-albums", FALSE, MaxList, FALSE, ListSavedAlbums)
PlaylistList == Command("playlists", FALSE, MaxList, FALSE, ListCurrentUserPlaylists)
ItemsList == Command("playlist-items", TRUE, MaxList, FALSE, ListPlaylistItems)

Commands == {SearchTrack, SearchAlbum, SearchArtist, AlbumTracks, ArtistAlbums,
             TrackList, AlbumList, PlaylistList, ItemsList}

NoParent == "none"

\* A library and the user's playlists are not of a parent, nor searched for.
Listings ==
    {l \in [command : Commands, of : Parents \cup {NoParent}] :
        l.of = NoParent <=> ~(l.command.ofParent \/ l.command.capped)}

ASSUME WalkedAssumption == Walked \subseteq Listings /\ Strays \subseteq Listings

\* What a token is bound to: a search token not to its query.
Scope(listing) ==
    IF listing.command.ofParent THEN <<listing.command.surface, listing.of>>
                                ELSE <<listing.command.surface>>

------------------------------------------------------------------------------

VARIABLES
    listing,    \* what is listed
    list,       \* the list as the service has it; an entry is a number
    initial,    \* its length to begin with: entries 1..initial
    hand,       \* the token the script passes next
    collected,  \* the rows it kept: an entry and the position shown for it
    walk,       \* "going", or "over" when a command gave no further token
    place,         \* where the command under way is
    max,        \* its --max
    offset,     \* what its token decodes to
    page,       \* the page it holds
    outcome,    \* the exit of the last command
    edits,      \* how many edits there were
    faults,     \* how much went wrong so far
    edited,     \* the kinds of edits so far (history)
    honest,     \* every page accepted so far was what the list held (history)
    misled      \* a token of another listing was accepted (history)

world == <<listing, list, initial>>
script == <<hand, collected, walk>>
command == <<place, max, offset, page, outcome>>
history == <<edits, edited, honest, misled>>
walkVars == <<world, script, command, history, faults>>

Encode(scope, at) == [scope |-> scope, offset |-> at]
NoToken == Encode(<<>>, 0)      \* --next-page-token is not given
Garbage == Encode(<<"?">>, 0)   \* what no listing encoded
Tokens == [scope : {<<>>} \cup {Scope(l) : l \in Listings}, offset : Nat]

NoPage == [rows |-> <<>>, offset |-> 0, limit |-> 0, hasNext |-> FALSE]

Rows == [entry : 1..(MaxInitial + MaxEdits) \cup OddRows, position : Nat]

WalkTypeOK ==
    /\ listing \in Walked
    /\ list \in Seq(1..(MaxInitial + MaxEdits)) /\ initial \in 0..MaxInitial
    /\ hand \in Tokens
    /\ collected \in Seq(Rows)
    /\ walk \in {"going", "over"}
    /\ place \in {"idle", "open", "read", "stdout", "stderr"}
    /\ max \in 0..listing.command.max
    /\ offset \in Nat
    /\ page.offset \in Nat /\ page.limit \in 0..listing.command.max
    /\ Len(page.rows) <= page.limit /\ page.hasNext \in BOOLEAN
    /\ outcome \in {"none", "ok", "usage", "config", "upstream", "generic"}
    /\ edits \in 0..MaxEdits /\ faults \in 0..MaxFaults
    /\ edited \subseteq {"insert", "remove"}
    /\ honest \in BOOLEAN /\ misled \in BOOLEAN

WalkInit ==
    /\ listing \in Walked
    /\ initial \in 0..MaxInitial
    /\ list = [i \in 1..initial |-> i]
    /\ hand = NoToken /\ collected = <<>> /\ walk = "going"
    /\ place = "idle" /\ max = 0 /\ offset = 0 /\ page = NoPage /\ outcome = "none"
    /\ edits = 0 /\ faults = 0
    /\ edited = {} /\ honest = TRUE /\ misled = FALSE

------------------------------------------------------------------------------
(* The command: arguments *)

Fault == faults < MaxFaults /\ faults' = faults + 1

\* The command ends without a page for the script.
FailWith(how) ==
    /\ place' = "idle" /\ outcome' = how /\ page' = NoPage
    /\ UNCHANGED <<max, offset, script, world, edits, edited>>

\* The offset a token stands for, if it is valid for the scope
Decode(scope, token) ==
    IF token = NoToken THEN {0}
    ELSE IF token.scope = scope THEN {token.offset} ELSE {}

Accepts(m, token) ==
    {n \in Decode(Scope(listing), token) :
        /\ m \in 1..listing.command.max
        /\ listing.command.capped => n <= MaxOffset}

\* The script goes on, with any --max it likes.
Invoke ==
    /\ place = "idle" /\ walk = "going"
    /\ \E m \in 1..listing.command.max :
        /\ max' = m
        /\ IF Accepts(m, hand) = {}
             THEN place' = "idle" /\ outcome' = "usage" /\ UNCHANGED offset
             ELSE /\ offset' \in Accepts(m, hand)
                  /\ place' = "open" /\ outcome' = "none"
    /\ UNCHANGED <<page, world, script, history, faults>>

\* It passes something wrong: a --max out of range, or the token of another walk.
StrayTokens ==
    {Garbage} \cup {Encode(Scope(l), n) : l \in Strays \ {listing}, n \in 1..2}

InvokeBadly ==
    /\ place = "idle" /\ walk = "going"
    /\ \E m \in 0..(MaxList + 1), token \in {hand} \cup StrayTokens :
        /\ m \notin 1..listing.command.max \/ token # hand
        /\ IF Accepts(m, token) = {}
             THEN FailWith("usage") /\ UNCHANGED misled
             ELSE /\ max' = m
                  /\ offset' \in Accepts(m, token)
                  /\ misled' = TRUE
                  /\ place' = "open" /\ outcome' = "none"
                  /\ UNCHANGED <<page, script, world, edits, edited>>
    /\ Fault
    /\ UNCHANGED honest

------------------------------------------------------------------------------
(* The request *)

OpenSession ==
    /\ place = "open"
    /\ place' = "read"
    /\ UNCHANGED <<max, offset, page, outcome, world, script, history, faults>>

OpenFails ==
    /\ place = "open"
    /\ FailWith("config") /\ Fault
    /\ UNCHANGED <<honest, misled>>

Held ==
    SubSeq(list, offset + 1,
           IF offset + max < Len(list) THEN offset + max ELSE Len(list))

HonestAnswer ==
    [offset |-> offset, limit |-> max, present |-> TRUE, rows |-> Held,
     total |-> Len(list), next |-> offset + max < Len(list)]

\* Answers that are off in one respect
OddAnswers ==
    LET answer == HonestAnswer
    IN  {[answer EXCEPT !.offset = offset + 1],
         [answer EXCEPT !.limit = max - 1],
         [answer EXCEPT !.present = FALSE, !.rows = <<>>],
         [answer EXCEPT !.next = ~@],
         [answer EXCEPT !.total = @ - 1],
         [answer EXCEPT !.total = @ + 1]}
        \cup {[answer EXCEPT !.rows = Front(@)] : i \in 1..Len(answer.rows)}
        \cup {[answer EXCEPT !.rows = Append(@, row)] : row \in OddRows}
        \cup {[answer EXCEPT !.rows[i] = row] :
                i \in 1..Len(answer.rows), row \in OddRows}

\* pageResponse.page, and what a method checks of the rows, here or decoding them
PageValid(answer) ==
    /\ answer.offset = offset /\ answer.limit = max
    /\ answer.present /\ answer.total >= 0 /\ Len(answer.rows) <= max
    /\ ToSet(answer.rows) \cap OddRows \subseteq listing.command.method.oddRows

\* Mutant: total, rows and next need not agree.
AnyItemsPage(answer) == TRUE

\* What ListPlaylistItems checks in addition
ItemsPageValid(answer) ==
    LET count == Len(answer.rows)
    IN  /\ count > 0 => /\ count <= answer.total
                        /\ answer.offset <= answer.total - count
        /\ answer.next => count = answer.limit
        /\ answer.next = (answer.offset < answer.total /\
                          count < answer.total - answer.offset)

PageAccepted(answer) ==
    /\ PageValid(answer)
    /\ listing.command.method.strict => ItemsPageValid(answer)

\* POSITION: the offset of the page plus the index of the row
PositionShown(answer, i) == answer.offset + i - 1

Shown(answer) ==
    [i \in DOMAIN answer.rows |->
        [entry |-> answer.rows[i], position |-> PositionShown(answer, i)]]

Hold(answer) ==
    /\ page' = [rows |-> Shown(answer), offset |-> answer.offset,
                limit |-> answer.limit, hasNext |-> answer.next]
    /\ place' = "stdout"
    /\ UNCHANGED <<max, offset, outcome, script, world, edits, edited>>

ReadPage ==
    /\ place = "read"
    /\ Hold(HonestAnswer)
    /\ UNCHANGED <<honest, misled, faults>>

ReadOddPage ==
    /\ place = "read"
    /\ \E answer \in OddAnswers :
        IF PageAccepted(answer)
          THEN /\ Hold(answer)
               /\ honest' = (honest /\ answer.rows = Held /\
                             answer.next = HonestAnswer.next)
          ELSE FailWith("upstream") /\ UNCHANGED honest
    /\ Fault
    /\ UNCHANGED misled

ReadFails ==
    /\ place = "read"
    /\ FailWith("upstream") /\ Fault
    /\ UNCHANGED <<honest, misled>>

------------------------------------------------------------------------------
(* Output *)

\* Mutant: the offset is moved on too far.
SkipOne == page.offset + page.limit + 1

NextOffset == page.offset + page.limit

\* Mutant: a search writes its notice whatever the offset.
AlwaysNotice == page.hasNext

Noticed == page.hasNext /\ (listing.command.capped => NextOffset <= MaxOffset)

\* The command exits 0: the script keeps its rows, and its token if there is one.
Succeed ==
    /\ place' = "idle" /\ outcome' = "ok" /\ page' = NoPage
    /\ collected' = collected \o page.rows
    /\ UNCHANGED <<max, offset, world, history, faults>>

WriteRows ==
    /\ place = "stdout"
    /\ IF Noticed
         THEN /\ place' = "stderr"
              /\ UNCHANGED <<max, offset, page, outcome, world, script, history, faults>>
         ELSE Succeed /\ walk' = "over" /\ UNCHANGED hand

WriteNotice ==
    /\ place = "stderr"
    /\ Succeed
    /\ hand' = Encode(Scope(listing), NextOffset)
    /\ UNCHANGED walk

WriteFails ==
    /\ place \in {"stdout", "stderr"}
    /\ FailWith("generic") /\ Fault
    /\ UNCHANGED <<honest, misled>>

------------------------------------------------------------------------------
(* Others, at any moment: what they did since the last page, the next finds *)

Edit(kind, newList) ==
    /\ place = "read" /\ edits < MaxEdits
    /\ edits' = edits + 1 /\ edited' = edited \cup {kind}
    /\ list' = newList
    /\ UNCHANGED <<listing, initial, script, command, honest, misled, faults>>

OthersInsert ==
    \E i \in 1..(Len(list) + 1) :
        Edit("insert", InsertAt(list, i, MaxInitial + edits + 1))

OthersRemove == \E i \in DOMAIN list : Edit("remove", RemoveAt(list, i))

WalkOver == walk = "over" /\ place = "idle" /\ UNCHANGED walkVars

------------------------------------------------------------------------------

Progress == Invoke \/ OpenSession \/ ReadPage \/ WriteRows \/ WriteNotice

Trouble == InvokeBadly \/ OpenFails \/ ReadOddPage \/ ReadFails \/ WriteFails

WalkNext == Progress \/ Trouble \/ OthersInsert \/ OthersRemove \/ WalkOver

WalkSpec == WalkInit /\ [][WalkNext]_walkVars

\* A command goes on while it can, and so does the script; others need not act.
FairWalk == WalkSpec /\ WF_walkVars(Progress)

------------------------------------------------------------------------------
(* Properties *)

Undisturbed == edited = {} /\ ~misled
Reliable == honest /\ ~misled
CollectedEntries == {collected[i].entry : i \in DOMAIN collected}

\* A row shows an entry of the list at its position; where the service was not
\* honest it may show the entry as unavailable.
Shows(row, i) ==
    /\ row.position = i - 1
    /\ row.entry = list[i] \/ (~honest /\ row.entry = Unavailable)

\* The script's own token is always accepted, whatever --max it is passed with:
\* the command that wrote the notice and the one that reads it agree on the
\* offsets a search may reach.
TokensStayUsable ==
    walk = "going" => \A m \in 1..listing.command.max : Accepts(m, hand) # {}

\* No request is made at an offset that belongs to another listing; only between
\* two searches of one kind, whose tokens do not name the query, can it happen.
StrayTokensRefused ==
    misled => listing.command.capped

\* A token leads on where it was given, and nowhere else.
TokensLeadOn == TokensStayUsable /\ StrayTokensRefused

\* The rows kept from a list that nobody changed are a prefix of it, each shown
\* at its position, whatever failed and was run again and whatever --max was
\* passed on the way. When no token is given any more they are all of it, or
\* more than a search may reach. For the items of a playlist this holds even when
\* the service answers with pages that contradict themselves, but for an item it
\* sends as null, or as one of a kind that needs no id: that item is shown as
\* unavailable, at its own position. The other listings have to trust the service.
PagesJoin ==
    Undisturbed /\ (honest \/ listing.command.method.strict) =>
        /\ Len(collected) <= Len(list)
        /\ \A i \in DOMAIN collected : Shows(collected[i], i)
        /\ walk = "over" => \/ Len(collected) = Len(list)
                            \/ listing.command.capped /\ Len(collected) > MaxOffset

\* A list that only grows while it is read is read in full: what was there from
\* the beginning is never pushed out of sight.
NothingSkippedByInserts ==
    Reliable /\ edited \subseteq {"insert"} /\ walk = "over"
      /\ ~listing.command.capped
        => 1..initial \subseteq CollectedEntries

\* A list that only shrinks while it is read is never read twice.
NothingRepeatedByRemovals ==
    Reliable /\ edited \subseteq {"remove"} =>
        Cardinality(CollectedEntries) = Len(collected)

\* Edits between two pages do harm in one direction only: what others insert makes
\* rows come twice, what they remove makes rows be skipped.
EditsShiftOneWay == NothingSkippedByInserts /\ NothingRepeatedByRemovals

\* A script that goes on comes to the end of the list.
WalkEnds == <>(walk = "over")
=============================================================================
