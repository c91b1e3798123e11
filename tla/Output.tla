-------------------------------- MODULE Output --------------------------------
(***************************************************************************)
(* What the resource commands print (internal/output): the columns a user  *)
(* selects, and the lines a script reads back.  A text is the sequence of  *)
(* its characters.  A job is one rendering; it is picked at the start and  *)
(* rendered in one step.                                                   *)
(***************************************************************************)
EXTENDS Integers, SequencesExt

CONSTANTS
    Characters,  \* what texts are made of
    Texts,       \* values a cell, an id or a name may have
    ShortTexts,  \* values where several of them make a line
    MaxValues,   \* bound: how many of them
    Seconds,     \* lengths of tracks
    Pieces(_),   \* what may stand in a --fields list for a family of columns
    MaxPieces    \* bound: its length

\* The characters the code writes itself; a header, a verb and the size of a picture
\* count as one.
Written == {" ", "|", "-", ",", "\r", "\n", "\t", "H", "verb", "WxH"}

ASSUME CharactersAssumption == Written \subseteq Characters
ASSUME TextsAssumption == Texts \subseteq Seq(Characters) /\ ShortTexts \subseteq Seq(Characters)
ASSUME SecondsAssumption == Seconds \subseteq Int
ASSUME BoundsAssumption == MaxValues \in Nat /\ MaxPieces \in Nat

------------------------------------------------------------------------------
(* Text *)

IsAt(text, i, part) ==
    /\ i + Len(part) - 1 <= Len(text)
    /\ SubSeq(text, i, i + Len(part) - 1) = part

Holds(text, part) == \E i \in DOMAIN text : IsAt(text, i, part)

\* strings.ReplaceAll: from left to right, never looking back. What becomes of the
\* text from each position on:
Replaced(text, old, new) ==
    LET rest[i \in 1..(Len(text) + 1)] ==
            IF i > Len(text) THEN <<>>
            ELSE IF IsAt(text, i, old) THEN new \o rest[i + Len(old)]
                                       ELSE <<text[i]>> \o rest[i + 1]
    IN  rest

Replace(text, old, new) == Replaced(text, old, new)[1]

\* strings.Join, or a strings.Builder when nothing stands between: the text up to
\* each part
Joins(parts, with) ==
    LET upto[n \in 0..Len(parts)] ==
            IF n = 0 THEN <<>>
            ELSE IF n = 1 THEN parts[1] ELSE upto[n - 1] \o (with \o parts[n])
    IN  upto

Joined(parts, with) == Joins(parts, with)[Len(parts)]
Built(parts) == Joined(parts, <<>>)

\* strings.Split, which is how a script takes a line apart: the pieces up to each
\* position
Spell(pieces, letter, char) ==
    IF letter = char THEN Append(pieces, <<>>)
                     ELSE Append(Front(pieces), Append(Last(pieces), letter))

Splits(text, char) ==
    LET upto[i \in 0..Len(text)] ==
            IF i = 0 THEN << <<>> >> ELSE Spell(upto[i - 1], text[i], char)
    IN  upto

Split(text, char) == Splits(text, char)[Len(text)]

\* A loop that appends all values but some
Filters(list, dropped) ==
    LET upto[n \in 0..Len(list)] ==
            IF n = 0 THEN <<>>
            ELSE IF list[n] \in dropped THEN upto[n - 1] ELSE Append(upto[n - 1], list[n])
    IN  upto

Dropping(list, dropped) == Filters(list, dropped)[Len(list)]

Space == <<" ">>
Dash == <<"-">>
Newline == <<"\n">>
Separator == <<" ", "|", " ">>
IsBlank(text) == ToSet(text) \subseteq {" ", "\t", "\r", "\n"}

\* Mutant: a carriage return by itself is taken for an ordinary character.
SanitizeLineFeeds(text) ==
    Replace(Replace(Replace(text, <<"\r", "\n">>, Space), Newline, Space),
            Separator, Space)

sanitize(text) ==
    Replace(Replace(Replace(Replace(text, <<"\r", "\n">>, Space),
                            <<"\r">>, Space), Newline, Space),
            Separator, Space)

cell(text) == IF IsBlank(sanitize(text)) THEN Dash ELSE sanitize(text)

mutationCell(text) == Replace(cell(text), <<"\t">>, Space)

\* Mutant: an artist without a name is left out of the names.
JoinPresent(values) ==
    LET present == Dropping(values, {<<>>})
    IN  Joined([i \in DOMAIN present |-> sanitize(present[i])], <<",">>)

joinArtists(values) ==
    Joined([i \in DOMAIN values |-> sanitize(values[i])], <<",">>)

\* An image without a URL is left out.
renderArtwork(urls) ==
    LET present == Dropping(urls, {url \in ToSet(urls) : IsBlank(url)})
    IN  cell(Joined([i \in DOMAIN present |->
                        <<"WxH">> \o Space \o sanitize(present[i])], <<",">>))

\* Of the seconds a length has, negative ones shown as none: [h:]m:s
duration(s) ==
    LET total == IF s < 0 THEN 0 ELSE s
    IN  IF total >= 3600
          THEN <<total \div 3600, (total % 3600) \div 60, total % 60>>
          ELSE <<total \div 60, total % 60>>

------------------------------------------------------------------------------
(* Lines *)

Line(cells, with) == Joined(cells, with) \o Newline

\* Rows under their headers; a row is the sequence of its values.
renderTable(headers, rows) ==
    Line(headers, Separator) \o
    Built([i \in DOMAIN rows |->
        Line([f \in DOMAIN rows[i] |-> cell(rows[i][f])], Separator)])

renderIDs(ids) == Built([i \in DOMAIN ids |-> cell(ids[i]) \o Newline])

\* An item of a playlist may have no id; it gets no line.
RenderPlaylistItemIDs(ids) == renderIDs(Dropping(ids, {<<>>}))

\* The records of items add, remove and update: a verb, a playlist, a position,
\* then ids or a count
RenderRecord(verb, values) ==
    Line(<<verb>> \o [i \in DOMAIN values |-> mutationCell(values[i])], <<"\t">>)

\* Mutant: the attribute left over of an odd number is forgotten.
DetailOfPairs(attributes) ==
    [n \in 1..(Len(attributes) \div 2) |-> <<attributes[2*n - 1], attributes[2*n]>>]

\* The lines below the identity of one resource: two attributes to a line
renderDetail(attributes) ==
    [n \in 1..((Len(attributes) + 1) \div 2) |->
        IF 2*n <= Len(attributes) THEN <<attributes[2*n - 1], attributes[2*n]>>
                                  ELSE <<attributes[2*n - 1]>>]

\* The identity, and the other columns as attributes
RenderOne(family, fields) == renderDetail(Dropping(fields, family.identity))

------------------------------------------------------------------------------
(* Columns *)

TrackDefaults == <<"ID", "TRACK", "ARTIST_IDS", "ARTISTS", "ALBUM_ID", "ALBUM", "DURATION">>
AlbumTrackDefaults == <<"ID", "TRACK", "ARTIST_IDS", "ARTISTS", "DURATION">>
TrackExtended == <<"URI", "URL", "DISC_NUMBER", "TRACK_NUMBER", "EXPLICIT", "RESTRICTION">>
TrackAll == TrackDefaults \o TrackExtended \o <<"ARTWORK">>

AlbumDefaults == <<"ID", "ALBUM", "ARTIST_IDS", "ARTISTS", "RELEASE_DATE", "TOTAL_TRACKS">>
AlbumExtended == <<"URI", "URL", "ALBUM_TYPE", "RELEASE_DATE_PRECISION", "RESTRICTION">>
AlbumAll == AlbumDefaults \o AlbumExtended \o <<"ARTWORK">>

ArtistDefaults == <<"ID", "ARTIST">>
ArtistExtended == <<"URI", "URL">>

PlaylistDefaults == <<"ID", "PLAYLIST", "OWNER_ID", "OWNER", "ITEM_COUNT", "PUBLIC", "COLLABORATIVE">>
PlaylistExtended == <<"URI", "URL", "SNAPSHOT_ID", "DESCRIPTION">>

ItemDefaults == <<"POSITION", "TYPE", "ID", "ITEM", "ARTIST_IDS", "ARTISTS", "ALBUM_ID", "ALBUM", "DURATION">>
ItemExtended == <<"URI", "URL", "ADDED_AT", "ADDED_BY_ID", "DISC_NUMBER", "TRACK_NUMBER", "EXPLICIT", "RESTRICTION">>

\* The columns the cell functions know; every other column is a dash.
trackCell == {"ID", "TRACK", "ARTIST_IDS", "ARTISTS", "ALBUM_ID", "ALBUM", "DURATION",
              "URI", "URL", "DISC_NUMBER", "TRACK_NUMBER", "EXPLICIT", "RESTRICTION",
              "ARTWORK"}
savedTrackCell == {"ADDED_AT"} \cup trackCell
albumCell == {"ID", "ALBUM", "ARTIST_IDS", "ARTISTS", "RELEASE_DATE", "TOTAL_TRACKS",
              "URI", "URL", "ALBUM_TYPE", "RELEASE_DATE_PRECISION", "RESTRICTION",
              "ARTWORK"}
savedAlbumCell == {"ADDED_AT"} \cup albumCell
artistCell == {"ID", "ARTIST", "URI", "URL", "ARTWORK"}
playlistCell == {"ID", "PLAYLIST", "OWNER_ID", "OWNER", "ITEM_COUNT", "PUBLIC",
                 "COLLABORATIVE", "URI", "URL", "SNAPSHOT_ID", "DESCRIPTION", "ARTWORK"}
playlistItemCell == {"POSITION", "TYPE", "ID", "ITEM", "ARTIST_IDS", "ARTISTS",
                     "ALBUM_ID", "ALBUM", "DURATION", "URI", "URL", "ADDED_AT",
                     "ADDED_BY_ID", "DISC_NUMBER", "TRACK_NUMBER", "EXPLICIT",
                     "RESTRICTION", "ARTWORK"}

Family(defaults, extended, artwork, all, cells, name) ==
    [defaults |-> defaults, extended |-> extended, artwork |-> artwork,
     all |-> all, cells |-> cells, identity |-> {"ID", name}]

SelectTrackFields == Family(TrackDefaults, TrackExtended, TRUE, TrackAll, trackCell, "TRACK")
SelectSavedTrackFields ==
    Family(<<"ADDED_AT">> \o TrackDefaults, TrackExtended, TRUE,
           <<"ADDED_AT">> \o TrackAll, savedTrackCell, "TRACK")
SelectAlbumTrackFields ==
    Family(AlbumTrackDefaults, TrackExtended, FALSE,
           AlbumTrackDefaults \o TrackExtended, trackCell, "TRACK")
SelectAlbumFields == Family(AlbumDefaults, AlbumExtended, TRUE, AlbumAll, albumCell, "ALBUM")
SelectSavedAlbumFields ==
    Family(<<"ADDED_AT">> \o AlbumDefaults, AlbumExtended, TRUE,
           <<"ADDED_AT">> \o AlbumAll, savedAlbumCell, "ALBUM")
SelectArtistFields ==
    Family(ArtistDefaults, ArtistExtended, TRUE,
           ArtistDefaults \o ArtistExtended \o <<"ARTWORK">>, artistCell, "ARTIST")
SelectPlaylistFields ==
    Family(PlaylistDefaults, PlaylistExtended, TRUE,
           PlaylistDefaults \o PlaylistExtended \o <<"ARTWORK">>, playlistCell, "PLAYLIST")
SelectPlaylistItemFields ==
    Family(ItemDefaults, ItemExtended, TRUE,
           ItemDefaults \o ItemExtended \o <<"ARTWORK">>, playlistItemCell, "ITEM")

Families == {SelectTrackFields, SelectSavedTrackFields, SelectAlbumTrackFields,
             SelectAlbumFields, SelectSavedAlbumFields, SelectArtistFields,
             SelectPlaylistFields, SelectPlaylistItemFields}

\* Those a get command shows one resource of
Detailed == {SelectTrackFields, SelectAlbumFields, SelectArtistFields, SelectPlaylistFields}

\* What a table has without --fields
Widened(family, extended, artwork) ==
    family.defaults \o (IF extended THEN family.extended ELSE <<>>)
                    \o (IF artwork /\ family.artwork THEN <<"ARTWORK">> ELSE <<>>)

Selection(error, fields) == [error |-> error, fields |-> fields]

\* The loop over the pieces of --fields, each what it is once trimmed and in
\* capitals: blank ones are skipped, an unknown one ends it, and a field is kept the
\* first time.
Select(before, name, all) ==
    IF before.error \/ name = "" THEN before
    ELSE IF name \notin ToSet(all) THEN Selection(TRUE, <<>>)
    ELSE IF name \in ToSet(before.fields) THEN before
    ELSE Selection(FALSE, Append(before.fields, name))

Selections(csv, all) ==
    LET upto[n \in 0..Len(csv)] ==
            IF n = 0 THEN Selection(FALSE, <<>>)
            ELSE Select(upto[n - 1], csv[n], all)
    IN  upto

selectFields(csv, defaults, all) ==
    LET taken == Selections(csv, all)[Len(csv)]
    IN  IF ~taken.error /\ taken.fields = <<>>
          THEN Selection(FALSE, defaults)
          ELSE taken

------------------------------------------------------------------------------
(* The jobs *)

Some == BoundedSeq(ShortTexts, MaxValues)

ColumnJobs(family) ==
    [kind : {"columns"}, family : {family}, csv : BoundedSeq(Pieces(family), MaxPieces),
     extended : BOOLEAN, artwork : BOOLEAN]

TextJobs ==
    [kind : {"table", "ids"}, values : {<<text>> : text \in Texts} \cup Some]
    \cup [kind : {"item ids", "credits", "artwork", "record"}, values : Some]

DurationJobs == [kind : {"duration"}, seconds : Seconds]

VARIABLES
    job,      \* what is rendered
    rendered, \* whether it is
    printed   \* a text, selected columns with a detail, or a length

renderVars == <<job, rendered, printed>>

Rendered(j) ==
    CASE j.kind = "columns" ->
            LET selection == selectFields(j.csv, Widened(j.family, j.extended, j.artwork),
                                          j.family.all)
            IN  [selection |-> selection,
                 detail |-> IF j.family \in Detailed THEN RenderOne(j.family, selection.fields)
                                                     ELSE <<>>]
      [] j.kind = "table" -> renderTable([i \in DOMAIN j.values |-> <<"H">>],
                                          <<j.values, j.values>>)
      [] j.kind = "ids" -> renderIDs(j.values)
      [] j.kind = "item ids" -> RenderPlaylistItemIDs(j.values)
      [] j.kind = "credits" -> cell(joinArtists(j.values))
      [] j.kind = "artwork" -> renderArtwork(j.values)
      [] j.kind = "record" -> RenderRecord(<<"verb">>, j.values)
      [] j.kind = "duration" -> duration(j.seconds)

RenderInit ==
    /\ \/ \E family \in Families : job \in ColumnJobs(family)
       \/ job \in TextJobs
       \/ job \in DurationJobs
    /\ rendered = FALSE /\ printed = <<>>

Render ==
    /\ ~rendered /\ rendered' = TRUE
    /\ printed' = Rendered(job)
    /\ UNCHANGED job

RenderNext == Render

RenderSpec == RenderInit /\ [][RenderNext]_renderVars

------------------------------------------------------------------------------
(* Properties *)

IsDone(kinds) == rendered /\ job.kind \in kinds

Lines == Front(Split(printed, "\n"))

\* Nothing of a resource can break its line, and none is lost: a table has a line
\* per row below its headers, a list of ids a line per resource (or per item that
\* has an id), a record is one line; every line is ended, and none of the ids is
\* blank. A cell put together from several values breaks no line either.
OneLinePerResource ==
    /\ IsDone({"table", "ids", "item ids", "record", "credits", "artwork"}) =>
        "\r" \notin ToSet(printed)
    /\ IsDone({"credits", "artwork"}) => Lines = <<>>
    /\ IsDone({"table", "ids", "item ids", "record"}) =>
        /\ Last(Split(printed, "\n")) = <<>>
        /\ Len(Lines) =
             CASE job.kind = "table" -> 3
               [] job.kind = "ids" -> Len(job.values)
               [] job.kind = "item ids" -> Cardinality({i \in DOMAIN job.values : job.values[i] # <<>>})
               [] job.kind = "record" -> 1
    /\ IsDone({"ids", "item ids"}) => \A i \in DOMAIN Lines : ~IsBlank(Lines[i])

\* A value that no rule has a reason to change
Clean(text) ==
    ~IsBlank(text) /\ ToSet(text) \cap {"\r", "\n", "\t", ","} = {} /\ ~Holds(text, Separator)

\* Splitting the record of a mutation at its tabs gives back exactly what was
\* recorded: as many fields, and every clean value unchanged.
RecordsReadBack ==
    IsDone({"record"}) =>
        LET fields == Split(Front(printed), "\t")
        IN  /\ Len(fields) = Len(job.values) + 1
            /\ \A i \in DOMAIN job.values :
                 Clean(job.values[i]) => fields[i + 1] = job.values[i]

\* The ids and the names of the artists of one track line up: both cells split
\* into as many pieces as there are artists, also when one has no name, as long
\* as no name has a comma.
CreditsAlign ==
    IsDone({"credits"}) /\ printed # Dash
      /\ (\A i \in DOMAIN job.values : "," \notin ToSet(job.values[i])) =>
        LET names == Split(printed, ",")
        IN  /\ Len(names) = Len(job.values)
            /\ \A i \in DOMAIN names : Clean(job.values[i]) => names[i] = job.values[i]

\* Columns: an unknown name is an error wherever it stands; otherwise the columns
\* are those asked for, each once, in the order they were first named, and the
\* widened defaults when none is. Every column has a cell of its own, and what a
\* widened table shows can also be asked for by name.
ColumnsAsAsked ==
    IsDone({"columns"}) =>
        LET wide == Widened(job.family, job.extended, job.artwork)
            named == {i \in DOMAIN job.csv : job.csv[i] # ""}
            selection == printed.selection
            chosen == printed.selection.fields
        IN  /\ selection.error <=>
                 \E i \in named : job.csv[i] \notin ToSet(job.family.all)
            /\ ToSet(wide) \subseteq ToSet(job.family.all)
            /\ ToSet(chosen) \subseteq job.family.cells
            /\ ~selection.error /\ named = {} => chosen = wide
            /\ ~selection.error /\ named # {} =>
                 /\ ToSet(chosen) = {job.csv[i] : i \in named}
                 /\ \A a, b \in DOMAIN chosen : a < b =>
                      \E i \in named :
                        /\ job.csv[i] = chosen[a]
                        /\ \A k \in named : job.csv[k] = chosen[b] => i < k

\* One resource in full: every selected column but the id and the name, which have
\* a line of their own, is shown once, in order, two to a line.
DetailKeepsAll ==
    IsDone({"columns"}) /\ job.family \in Detailed =>
        LET chosen == printed.selection.fields
            shown == Built(printed.detail)
        IN  /\ ToSet(shown) = ToSet(chosen) \ job.family.identity
            /\ \A a, b \in DOMAIN shown : a < b =>
                 \E i, k \in DOMAIN chosen :
                   i < k /\ chosen[i] = shown[a] /\ chosen[k] = shown[b]
            /\ \A n \in DOMAIN printed.detail :
                 Len(printed.detail[n]) = (IF 2*n <= Len(shown) THEN 2 ELSE 1)

\* The length shown is the length, to the second, and has hours from one hour on.
DurationReadsBack ==
    IsDone({"duration"}) =>
        LET hours == IF Len(printed) = 3 THEN printed[1] ELSE 0
        IN  /\ 3600 * hours + 60 * printed[Len(printed) - 1] + printed[Len(printed)]
                  = (IF job.seconds < 0 THEN 0 ELSE job.seconds)
            /\ \A i \in 2..Len(printed) : printed[i] \in 0..59
            /\ Len(printed) = 3 <=> job.seconds >= 3600

\* What is printed can be taken apart again into what was to be shown.
ReadsBack == RecordsReadBack /\ CreditsAlign /\ DurationReadsBack

\* The columns asked for are shown, no more and no less, in a table as in a detail.
ShowsWhatWasAsked == ColumnsAsAsked /\ DetailKeepsAll
=============================================================================
