# Verification of sptfy (spotify-cli)

TLA+ models of the parts of `sptfy` that keep state, race with others or can
fail half way, the TLC runs that check them on small instances, and theorems
checked by TLAPS. The models follow the Go code under `src/`; `PROJECT.json`
maps every definition to the lines it stands for.

## 1. The system

`sptfy` is a command-line client of the Spotify Web API. Every command is one
process; nothing locks anything. Processes share three things: the credential
in a credential store (keychain, file, 1Password...), the configuration file
(and a cache directory), and the user's library and playlists at Spotify, which
other Spotify clients change too.

| Component | State | Operations | Hard behaviours |
|---|---|---|---|
| HTTP client: `internal/client`, `doJSON` | attempt counter, response | one request per call; reads are retried on 429/502/503/504, mutations never; errors say "rejected" or "outcome uncertain" | lost responses, late application, retry bounds, cancellation during a wait |
| HTTP client: playlist and library methods | chunk loop | `GetPlaylist`, `ListPlaylistItems`, `AddPlaylistItems`, `RemovePlaylistItems*`, `CheckSavedItems`, `mutateSavedItems` | chunks that fail in the middle, responses of another length |
| HTTP client: the nine listing methods | - | one page: offset, limit, total, rows, next link, each checked more or less | pages that contradict themselves |
| `internal/cmd/playlistcmd` | snapshot id, item count, items read | `items add`, `remove`, `update`; lists | check-then-act against a playlist others edit; an update made of two mutations; stdout failing after the fact |
| `internal/cmd/librarycmd` | deduplicated references | `check`, `add`, `remove`; lists | batches that are applied in part |
| `internal/auth` token source | envelope read or saved last, scopes | refresh, persist, use | rotation of refresh tokens, failed saves, concurrent processes |
| `internal/session` | scopes, store handle | `Open`, `Scopes`, `Close` | scopes checked before a lazy refresh |
| `internal/auth` authorizer | channel of results, loopback server | the authorization flow | several callbacks, foreign states, timeout, shutdown |
| `internal/cmd/initcmd` | previous credential | authorize, verify, `Set`, `SaveConfig`, rollback | crash between writes, failed rollback, somebody else's write during the flow |
| `internal/cmd/setcredential` | - | one `Set` | race with init |
| `internal/cmd/configcmd` | - | `clear` (`--all`, `--dry-run`); `show`, `path` | one target failing, the others going on |
| `internal/config`, `internal/credentials` | the file; a place is backend and profile | load, save (rename), open a store | - |
| `internal/spotifyref`, `internal/pagetoken` | - | parse a reference; encode and decode an offset | several forms of one item; a token passed to another command |
| `searchcmd`, `catalogcmd`, the lists of `playlistcmd` and `librarycmd` | the token in the notice, kept by the caller | one page per process: decode, read, print rows, print notice | lists that change between two processes; a notice that cannot be written after the rows were |
| `internal/output` | - | select columns, render tables, ids, details and records | other people's text in lines that scripts take apart; eight lists of columns that must agree with the cells |
| `mecmd`, `cmdutil`, `exitcode`, `cmd/sptfy` | - | open a session, call, render, exit code | token failures inside a call; causes that wrappers could hide |
| `root`, `version`, packaging | - | wiring, build | - |

A command opens a session (`Session`), which reads configuration and credential
(`Setup` is about those who write them). Its requests go through `doJSON`
(`HttpRequest`), whose transport asks the token source for a token
(`Session`). The playlist and library commands build on the promise of one
mutating call (`MutationCall`). `init` obtains its credential from
`Authorize`. `Command` is where a session, a call with its retries and the exit
code meet; `Listing` is what a script makes of a listing command, one process
per page; `Output` is what any of them prints.

What makes each of them correct:

- one call: a mutation takes effect at most once and its verdict is never
  wrong, now or later; retries are bounded and only follow transient answers to
  reads; the call returns;
- guarded playlist commands: nothing is deleted but what the user pointed at,
  whatever collaborators do; the report agrees with what happened, also when it
  happens after the command has ended; the record allows an inverse operation;
- batches: what took effect is always a prefix, known from the report;
- session: a refreshed token is saved before it is used; the stored credential
  stays usable unless a failure, a crash or a concurrent write was in the way;
- setup: a failed init leaves everything as it was; no credential is lost to a
  write that was not told to overwrite; `config clear` reports what it did;
- authorization: the first result decides, the browser is told the same, and
  the flow ends;
- listings: pages join without gap or repetition, a token leads on where it was
  given and nowhere else, and a walk ends;
- output: a resource is one line, a record can be taken apart again, columns
  are those asked for and each has a cell;
- a command: what it tells and its exit code agree with what happened, token
  failures included, and its calls use the credential as a session may.

## 2. Modules

| Module | Models | EXTENDS / uses |
|---|---|---|
| `MutationCall` | abstract specification: what one mutating call promises, to its caller and of it | |
| `HttpRequest` | `doJSON`, `retryDelay`, `wait`; network and service | implements `MutationCall` (INSTANCE WITH) |
| `HttpRequestProofs` | theorems about `HttpRequest`, and about `Listing`, each page of which is one such call | `HttpRequest`, `Listing`, `TLAPS` |
| `Playlist` | a playlist with its snapshots, and collaborators (external) | |
| `PlaylistRead` | `GetPlaylist`, `readPlaylistItems`, the recheck | `Playlist` |
| `PlaylistRemove` | `items remove` | `PlaylistRead` |
| `PlaylistReadProofs` | lemmas about versions, edits, pages and what a DELETE leaves that proofs about the playlist commands share | `PlaylistRead`, `TLAPS`, `SequenceTheorems`, `FiniteSetTheorems` |
| `PlaylistRemoveProofs` | theorems about `PlaylistRemove` | `PlaylistRemove`, `PlaylistReadProofs`, `MutationCall` (INSTANCE) |
| `PlaylistUpdate` | `items update` | `PlaylistRead` |
| `PlaylistUpdateProofs` | theorems about `PlaylistUpdate` | `PlaylistUpdate`, `PlaylistReadProofs`, `MutationCall` (INSTANCE) |
| `PlaylistAdd` | `items add` | `Playlist` |
| `PlaylistAddProofs` | theorems about `PlaylistAdd` | `PlaylistAdd`, `PlaylistReadProofs`, `MutationCall` (INSTANCE) |
| `LibraryBatch` | `library ... check/add/remove` | |
| `Session` | `Opener.Open`, `persistentTokenSource.Token`, scope check | |
| `SessionProofs` | theorems about `Session` | `Session`, `TLAPS` |
| `Command` | one authenticated command from its arguments to its exit code | composes `Session` (INSTANCE), which it implements, with the retries of a call |
| `CommandProofs` | `Command` implements `Session`; theorems about what a command tells, about `LibraryBatch`, and about `Output`, what is printed | `Command`, `LibraryBatch`, `Output`, `SessionProofs`, `MutationCall` (INSTANCE), `TLAPS`, `SequenceTheorems`, `FiniteSetTheorems`, `WellFoundedInduction` |
| `Setup` | `init`, `set-credential`, `config clear`, a refresh | |
| `SetupProofs` | theorems about `Setup`, and about `Authorize`, from which init has its credential | `Setup`, `Authorize`, `TLAPS` |
| `Authorize` | `Authorizer.Authorize`, `waitForCallback` | |
| `Listing` | the listing commands, their page tokens and the client methods under them | |
| `Output` | columns, text cells, tables, ids, details and records of `internal/output` | |
| `MCHttpRequest`, `MCSession`, `MCSetup`, `MCListing`, `MCOutput` | instances for TLC | |

### How state and actions correspond to the code

The definitions of `Listing`, `Authorize`, `LibraryBatch` and `Output` have names of
their own (`WalkInit`, `FlowSpec`, `BatchInit`, `RenderSpec`, ...), so that they can
stand beside those of the components they work with in one module of proofs.

**HttpRequest.** `attempt` is the loop variable; `pc` tells building the
request, waiting for the answer and sleeping in `wait` apart. `SendFails` and
`TransportFails` are the two ways `Do` can fail: before and after the request
is on the wire; the code cannot tell them apart, which is why a mutation
is uncertain in both. `wire`, `reply` and `applications` belong to the world
outside: the service may handle a request after the call has returned. A body
is one of five classes because that is what the code tells apart.

**PlaylistRead, PlaylistRemove, PlaylistUpdate, PlaylistAdd.** One action per
remote call or decision of `removePlaylistItem`, `updatePlaylistItem` and
`addPlaylistItems`, because others act in between. `versions` holds every state
the list has been in; its index is the snapshot id. Entries carry their birth,
so that two occurrences of a track are different things to the properties while
the commands see only items. A mutating call is two or three actions: the
command sends it (`request = "sent"`), the service applies or refuses it, the
command learns "confirmed" only if it was applied, "rejected" only if it was
refused, and "uncertain" at any time. That is the interface of `MutationCall`,
which `HttpRequest` is shown to keep. The validation of response fields
is a read that may fail (`ReadFails`).

**LibraryBatch.** `start` is the loop variable of both chunk loops, `references`
what `parseReferences` keeps; a reference is an id in one of several forms. Its loop
is a step per argument (`ParseNext`, with `KeepFirst` for the map `seen`), so that an
invariant can say what was kept of the arguments looked at so far. `truths` records
what `Says`, the service's answer about an id, has been since the command began.

**Session.** Per process, `base` is the token oauth2 holds, `current` and
`scopes` the fields of `persistentTokenSource` and `Session`. An envelope is
told from others by the authorization flow it stems from, the number of its
refresh token and access token, and its scopes. `live` is what the accounts
service accepts. `Token` is the sequence NeedToken, Refresh*, Save*. A command
that checks no scope opens with `needs = {}`.

**Command.** The process `Self` of `Session` runs one of three programs, which
differ in what matters here: whether scopes are checked, how many calls are made
and which of them mutate; `items add` has two batches, so that one can be refused
after another was confirmed. `phase` is where the command is, `wire` what
has become of the request of the last attempt, `used` the envelope it carried.
Every attempt goes through `S!SendRequest` or `S!Save`, as every `Do` goes
through the transport's token source; `NoToken` has the errors of the latter.
`Kill` is an interrupt, for which `main` installs no handler.

An error (`err`) is what `errors.Is` and `errors.As` find in it, a set of causes and
types, and the exit code attached last. It is built up on its way to `main`, by one
operator per layer: `Transported` (`transportError`, around the token source's
sentinel), `Doubted` and `Refused` (`doJSON`'s two mutation errors), the
`MutationReconciliationError` of `Report`, the `PartialMutationError` of
`StopPartial`, the `PostMutationOutputError` of `WriteRecord`, `Coded`
(`exitcode.New`). Only then do `Classify` look for causes, and `Code` for the
outermost code. `trouble` is history: what went wrong, noted where it did. The exit
code is derived from `err` alone, several steps later.

**Setup.** Each process runs one command, with a step per operation on store
or file. `held` is the credential obtained, `previous` the one kept for the
rollback, `found` the answer of `Exists`. Any process may be killed at any step.
A configuration that `Load` refuses is the value `Unreadable`: `LoadFails` ends
every command but `config clear --all`, which then skips the credential, as it
does not know its place, and removes the file. `Succeed` has the command whose
work is done and whose confirmation cannot be written.

**Authorize.** `results` is the channel of capacity one, a handler per request
has the steps of the code: answer the browser, then deliver without blocking.
`Leave` is the `select`; `ShutDown` the deferred `Shutdown`, which waits for
handlers.

**Listing.** A command is the record of what `searchcmd`, `catalogcmd`,
`librarycmd` and `playlistcmd` pass to the common code: surface, parent, largest
`--max`, cap and client method. `hand` is the token a script passes next; it
keeps the rows of a command that exits 0 and runs a failed one again. `Invoke` is
argument parsing and `pagetoken.Decode`, `ReadPage` and `ReadOddPage` the client
method with its validation (`PageValid`, `ItemsPageValid`), `WriteRows` and
`WriteNotice` the two streams. An odd answer is off in one respect. Two rows are
odd: `Blank`, without the id its kind must have, which all methods but the search
for tracks refuse, and `Unavailable`, a null or one of a kind that needs no id,
which `decodePlaylistItem` takes and shows as such. A listing of
the user's own library has no parent (`NoParent`).

**Output.** A text is a sequence of characters, so that `sanitize` and its
callers are modelled by what they do. A job is one rendering. The column lists
and the cells of the eight families are those of the source. Loops and the `strings`
functions are functions of a position (`Replaced`, `Joins`, `Splits`, `Filters`,
`Selections`), whose last or first value is the result. `Characters`, `Texts`,
`ShortTexts`, `Seconds` and `Pieces`, what a piece of `--fields` may name, are constants;
`MCOutput` picks small ones.

### What is taken from outside the code

Spotify, its accounts service, `credstore`, `oauth2`, `net/http` and the browser
are modelled from how the code uses them and marked external in the map:

- a read answers from the current state of the playlist; a snapshot id never
  stands for two states;
- a 2xx answer means applied, a 4xx answer not applied, anything else either;
- a DELETE by URI removes every occurrence, or every occurrence the snapshot
  holds: both readings are allowed; one by position removes that occurrence of
  that snapshot, if it is still there;
- a page of a listing is the current state of the list at that offset, unless the
  answer is odd in one of the ways of `OddAnswers`;
- every operation of the store is one step; `Set` without `WithOverwrite`
  refuses a place that is taken; renaming the configuration file is one step.

## 3. Runs

| Run | Question | Result |
|---|---|---|
| `MCHttpRequest` | Does one call keep its contract, its retry rules, and end? | holds |
| `MCPlaylistRemove` | Is a removal safe and honestly reported, whatever collaborators do? | holds |
| `MCPlaylistUpdate` | Does an update remove only what it replaced and report every partial outcome? | holds |
| `MCPlaylistAdd` | Do batches land in turn, and does the record count and locate them? | holds |
| `MCLibraryBatch` | Are checks aligned, and is what took effect a known prefix? | holds |
| `MCSession` | Is a refreshed token saved before use, and does the store stay usable? | holds |
| `MCCommand` | Does a command with its retries use the credential as a session may, and tell the truth with the right exit code? | holds |
| `MCSetup` | Is init all or nothing, clear truthful, and nobody's credential lost uninvited? | holds |
| `MCAuthorize` | Does the first result decide, the browser hear the same, and the flow end? | holds |
| `MCListing` | Do the pages of a listing join, and do tokens lead on and nowhere else? | holds |
| `MCOutput` | Is a resource one line that can be read back, with the columns asked for? | holds |
| `MCCommandUncertain` | Does an "uncertain" mutation at least mean that a request went out? | violated |

Properties worth a word:

- `KeepsContract` is the refinement `HttpRequest` => `MutationCall`, reads
  mapped to a call without a verdict; `ImplementsSession` is the refinement
  `Command` => `Session`. The latter is why what `MCSession` shows and
  `SessionProofs` proves holds of every attempt of every call, retries included
  (`CredentialOutlivesCommand`): the mutant that sends the same request again without asking the token source
  breaks it.
- `RetriesAsAllowed` bounds retries from both sides: never more requests than
  allowed, and never fewer before a read gives up on a transient answer.
- `GuardedDelete` (removal) and `GuardedReplacement` (update): the pages are
  read one by one while collaborators edit, so the items collected may belong
  to no state at all; only because the snapshot is compared *after* the last
  page do they belong to the snapshot the DELETE carries. The mutant that only
  compares counts breaks it.
- `NoUncheckedLoss` and `RemovesOnlyReplaced` are about the entries that went,
  after any interleaving of edits between the last check and the deletion.
- The `HonestReport`s and `HonestEnd` hold in every later state too: a request in
  flight may be applied after the command has ended, and only "uncertain" reports
  allow it.
- `PrefixApplied`: a library batch that fails is reported with a plain error
  and no count; the property says what can nevertheless be concluded from it.
- `StoredStaysUsable` names the mishaps (`mishap`) under which the store may end
  up with a refresh token that has been rotated away. The concurrent save
  is one of them: the last save wins (see the divergences).
- `MeShowsWhatItUsed`: `me` prints scopes after its call; the token may have been
  refreshed, and its scopes narrowed, by any attempt of it.
- `InitAllOrNothing` and `ClearAsReported` speak of processes nobody disturbed
  (`alone`), `NoUninvitedLoss` of those that were. The latter has one exception
  that the code really has: an init that undoes its own `Set` does not look
  at what it replaces. `CredentialComesFirst`: at whatever step an init is
  killed, the configuration it wrote never precedes the credential it refers to.
- `PagesJoin`: the listing of a playlist's items is right even when the service
  contradicts itself, for its client method checks total, rows and next link
  against each other: no item is skipped, repeated or moved. What an item is the
  service decides: one that it sends as null, or without an id as of a kind that
  needs none, is shown as unavailable (`Shows`). The other eight methods do
  not check, and there the property only holds as far as the service is honest.
- `ReplacesInPlace` has two halves: the list is the one read with one item
  replaced, and an update back to the old track would be accepted and make it what
  it was. The second is what the refusal of a track that is already in the list
  (`playlist.go:524`) is for; the mutant without it breaks it.
- `ScopesFollowToken` also says what the token in hand is: that of the envelope last
  read or saved, or a later one of the same authorization, and the latter between
  two requests only if a save has failed. `NothingUsedUnsaved` says that it is then
  saved before it goes out.
- `ExitSeparates` relates the exit code to what went wrong however many layers wrapped
  it: the mutant of `Transported` in which the transport's error hides its
  cause makes a refused refresh exit 5 instead of 3. What the code does not tell is
  whether a mutation may be run again: one in doubt exits 5 like a read that failed;
  that is for the text, and for `HonestEnd`.
- `EditsShiftOneWay` says what offsets cannot do, and what they still can, when
  the list changes between two pages: insertions repeat rows and never skip
  them, removals skip rows and never repeat them.
- `ShowsWhatWasAsked` holds the eight column lists, the cells and both copies of
  the selection loop against each other.

`MCCommandUncertain` shows a disagreement between code and documentation, listed
as a finding in `PROJECT.json`: `doJSON` takes every error of `Do` for an
uncertain outcome of a mutation, also those of the token source, before which
nothing was sent, while the comment on the error says "may have taken effect".
The exit code is right all the same (`ExitSeparates`).

### Divergences seen, and how the models have them

Each of these follows from the models' actions as the code has them; the
properties above are stated with it in mind.

- `token_source.go:63` returns `ErrInvalidGrant` ("requires a new authorization
  flow", `:19`) to the loser of a refresh race although the store holds a usable
  credential by then: running the command again would do (`RefreshRefused`).
- `session.go:114` saves a refreshed envelope over whatever the store holds by then,
  also over one that another process has just authorized or refreshed: the last save
  wins. No property can promise otherwise; `StoredStaysUsable` exempts such a save by
  name (`mishap` in `Save`).
- Scopes are checked before the lazy refresh (`playlist.go:760`), so a refresh
  that narrows them lets one request go out without the scopes checked. The
  store is right afterwards (`ScopesFollowToken`), so only that command is
  concerned.
- "atomically persists one Spotify setup" (`initializer.go:57`) are two writes
  and a compensating one: a crash or a failed rollback leaves a half
  (`InitAllOrNothing` speaks of outcomes other than these).
- `--overwrite` is said to have no other meaning (`spotify-cli-behavior.md:81`),
  yet an interactive init that changes the backend overwrites without it
  (`init.go:130`; a test shows that this is intended).
- `config clear --all` removes the configuration also when the credential could
  not be removed or its place is unknown: the credential stays, with nothing left
  that says where. The report says so (`ClearAsReported`).
- A search says nothing when it stops at the largest offset (`search.go:208`),
  though more was announced; `spotify-cli-behavior.md:197` promises a notice. For
  that reason `PagesJoin` allows a walk to end there.
- `sanitize` replaces separators from left to right once (`output/track.go:194`):
  two of them with one blank between leave one in a cell, against
  `spotify-cli-behavior.md:125`. `ReadsBack` is therefore about records, which are
  separated by tabs, and not about the cells of tables.
- The position recorded for an append is the item count read before the first
  request (`playlist.go:374`); an edit in between makes it point at other items
  (`spotify-cli-behavior.md:397`). `RecordLocates` shows it right for lists
  that nobody else edits.
- `me` wraps the usage error of a bad `--backend` into a configuration error
  (`me.go:53`) and exits 3 where the other commands exit 2 (`BadBackend`).

### Bounds, and why they are enough

| Run | Bounds | Why |
|---|---|---|
| `MCHttpRequest` | 3 attempts (as the code), statuses 200, 299, 300, 399, 400, 401, 403, 429, 499, 500, 502, 503, 504, delays -1, 0, 300 and 301 (the limit is 300) | both sides of every boundary and every case of `doJSON`; nothing else is bounded |
| `MCPlaylistRemove`, `MCPlaylistUpdate` | lists of up to 3 items, pages of 2, 2 edits, 2 tracks and an episode | two pages; an edit and its reversal; a track twice; an item that cannot be removed |
| `MCPlaylistAdd` | up to 3 tracks in batches of 2, list of up to 2, 1 edit | a full and a short batch |
| `MCLibraryBatch` | up to 3 references to 3 items in 2 forms, chunks of 2, 1 edit | one full and one short chunk, duplicates of every shape |
| `MCSession` | 2 processes, 2 grants, 2 refreshes each, 2 scopes | a race needs two; a process may run again and again |
| `MCCommand`, `MCCommandUncertain` | this command and one other process, 1 grant, 2 refreshes, 2 requests to a read, 2 batches; the finding needs 1 refresh | a batch that fails after another, a retry with a refresh before it and one by somebody else in between; new grants are in `MCSession` |
| `MCSetup` | 2 processes with one command each, 2 backends, 1 profile, 2 client ids | any pair of commands in any interleaving |
| `MCAuthorize` | 3 callbacks | one taken, one in the channel, one dropped |
| `MCListing` | lists of up to 3, pages of 1 or 2, searches up to offset 2, 2 edits, 2 faults | several pages of changing size; a list that ends on, before and beyond the cap; an edit between any two pages; a fault and another one in the repetition. Three of the nine listings are walked, one of each validation and cap, against tokens of the nearest others |
| `MCOutput` | texts of up to 5 of 6 characters, two texts of up to 2 of 7, `--fields` of up to 3 pieces, lengths around a minute, an hour and ten | every character `sanitize` looks at, a separator with its blanks and something on both sides; a repeated, a blank and an unknown column in any order |

Edits of collaborators stop before the first read and after the last step of
command and service: there they only make another initial list, or change
nothing the properties look at. `MCSession` and `MCSetup` use symmetry (of
processes; of processes and client ids), both without liveness properties.

### Fairness

`FairSpec` in `HttpRequest` and `PlaylistRemove` has weak fairness on the
command's own steps only: a goroutine that can go on does. Among those steps is
the end of a request, by an answer or by an error: that a request ends is a
promise of the transport and the network, for `cmd/sptfy/main.go` sets no
timeout. No fairness is assumed for collaborators, for failures, or for the
service handling a request. In `Authorize` the goroutines of the server and the
timeout that `waitForCallback` sets are fair; nobody has to open the browser. In
`Listing` the command goes on, and so does the script that runs the next one;
edits and faults are bounded, so the walk must end. `Update`, `Add`,
`LibraryBatch` and `Command` are sequences of calls that end for the reasons
`PlaylistRemove` and `HttpRequest` show; their runs are about safety. `Session`
and `Setup` have no liveness properties: a user may leave at any prompt.

The type invariant of every module with a specification of the code is proved
(`Output` has none: its variables are a job and a text). One run, that of the calls,
checks it as well; TLC finds the others true on the instances of their runs, which
list only properties that say more.

## 4. Proofs

`HttpRequestProofs` proves, for every number of attempts, every set of statuses
and delays:

- `TypeCorrect`, `BoundedAttempts`, `Persistence`: the type invariant,
  `AttemptsBounded` and `GivesUpOnlyWhenSpent` are invariants of `Spec`, and so,
  together, is `RetriesAsAllowed` (`RetriesKept`);
- `ResendDiscipline`: `ResendsOnlyTransient` (an action property);
- `ContractKept`: `Spec` implements `MutationCall`;
- `CallRunsDown`: no step of `doJSON` is for nothing (see *What is proved of liveness*).

The argument rests on one inductive invariant, `IInv`, which says what the
properties leave unsaid: how `sends` follows from `attempt` and `pc`, that a
mutation is sent once at most so that its request, its reply and its application
exclude each other, that in `wait` the last reply was a transient one with a
valid delay and an attempt is left, and what each verdict says of
`applications` and the wire. `AttemptsBounded` alone is not inductive: without
the tie between `sends` and `attempt` a send could follow a send. `InitIInv` and
`NextPreserves` (one step per action; `ReceivePreserves` holds the cases of a
received response) establish it, `ContractInit` and `ContractStep` map initial
states and steps to those of `MutationCall`. The assumptions are those of
`HttpRequest`: a positive number of attempts, a natural bound on delays,
statuses between 200 and 599, integer delays.

`PlaylistRemoveProofs` proves of a removal, for lists and pages of any length and
any number of edits by collaborators:

- `DeleteIsGuarded`: `GuardedDelete` is an invariant of `Spec`;
- `NothingElseLost`: so is `NoUncheckedLoss`;
- `ReportsAreHonest`: so is `HonestReport`;
- `RecordUndoes`: so is `RecordIsInverse`;
- `TypeCorrect`: so is `TypeOK`;
- `DeleteIsCall`: the DELETE is a `MutationCall` (see *The contract on both sides*);
- `RemovalRunsDown`: no step of the command is for nothing.

None of the first four is inductive. `GuardedDelete` speaks of the DELETE, but what
makes it true happens while the pages are read; the invariant `IInv` carries it
there in five parts. `Versions`: the versions are a sequence of lists that only
grows, so a version once there stays what it is (`CommitGrows`). `Reading`: while
the version of the first header is the latest one, the items read are a prefix
of its items (`PageFollows` adds a page), and after the last page a recheck that
finds that version still the latest one makes them all of its items; from then
on the version may be overtaken, its items no longer change. `Control` ties
`pc`, `request` and `report` together, which is what `HonestReport` needs to
survive a request applied after the end. `Effect`: an entry removed is an
occurrence of the track asked for; with `GuardedDelete` it is *the* occurrence,
which gives `NoUncheckedLoss`. `Recorded` says that the list the DELETE made of the
version checked is that version without the one item (`OneIsTakenOut`: both
readings of a DELETE by URI agree there); that inserting the item again gives the
list back is a lemma about lists (`RemovalUndone`). For its sake `Without`, what a
DELETE leaves, is defined by ranks (the n-th entry left has n - 1 others before it)
and not by a selection that recurs over the list: then its length is a cardinality, and
`WithoutTyped` and `WithoutOne` say what it is for all lists. `DecisionPreserves`, `ServicePreserves` and
`CollaboratorPreserves` have a step per action. The assumptions are
`MaxInitial \in Nat` and a positive `PageSize`.

`SessionProofs` proves of the shared credential, for any number of processes,
scopes, authorizations and refreshes:

- `UsedWasSaved`: `NothingUsedUnsaved` is an invariant of `Spec`;
- `ScopesAreCurrent`: so is `ScopesFollowToken`;
- `StoredIsUsable`: so is `StoredStaysUsable`;
- `TypeCorrect`: so is `TypeOK`.

`StoredStaysUsable` speaks of the moments when no session holds anything unsaved,
but it is kept up by the ones that do: `ChainInv` says that without a mishap the
stored refresh token is accepted, or some session *carries* the accepted one of
that grant and is about to save it. Two facts make a save keep this up.
`KnownInv`: nobody knows a later token than the accounts service has issued.
`AheadInv`: what a session holds beyond what it read is a later token of the same
grant, so what it saves over its own credential is at least as new; and it is on
its way to the store unless a mishap came in between. When another session has
saved meanwhile, the save is a mishap itself. `OpenInv` and `StoredInv` tie the
scopes and the tokens in use to what has been in the store. The preservation of
the invariant has a lemma per action; `RefreshedIsLater` and `KnownPersists` are
what the two actions that issue a token share. The assumptions are that there is
a scope, that `Required` is among `Scopes`, and that the bounds are numbers.

`PlaylistUpdateProofs` proves of an update, in the same generality as the
removal:

- `ReplacementIsGuarded`: `GuardedReplacement` is an invariant of `Spec`;
- `OnlyReplacedIsRemoved`: so is `RemovesOnlyReplaced`;
- `ReportsAreHonest`: so is `HonestReport`;
- `UpdateReplacesInPlace`: so is `ReplacesInPlace`, the way back included;
- `TypeCorrect`: so is `TypeOK`;
- `MutationsAreCalls`: the POST and the DELETE are two `MutationCall`s.

Here the evidence for the DELETE is gathered in two readings, of which only the
second counts in the end. `Reading` is the argument of the removal, for both.
`Checked` keeps what the first reading found: a list in which the target stands
once, at the position asked for. `Verified` is new: `added` is the version the
service made for the add, and it stays what it was while others append versions;
when the comparison with the expected list is over, the items compared are those
of `added` *if* it is still the latest version, and the last header turns the
*if* into a fact that outlives every later edit. `CompareItems` is what makes it
so: with the counts compared instead, the invariant already fails there. What
the positional DELETE then removes is the entry next to the replacement
(`ExpectedAround` says what stands where in an expected list), and if it acts on the
version of the add itself, the list is the one before with one item replaced
(`ReplacedIsTakenOut`, `ReplacementLeft`). That `Checked` also keeps that the
replacement did not stand in the list read is what the way back rests on
(`ReplacedBack`).

`PlaylistAddProofs` proves of an add, for any number of tracks, any size of batch
and any number of edits:

- `ReportsAreHonest`: `HonestReport` is an invariant of `Spec`;
- `OneBatchAtATime`: so is `BatchesInTurn`;
- `RecordIsTrue`: so is `RecordLocates`;
- `TypeCorrect`: so is `TypeOK`;
- `EachTrackIsACall`: the adding of each track is a `MutationCall`.

The first two follow from `Control` and `Progressing`: what has landed is what was
confirmed, plus the batch under way once it is performed. `RecordLocates` says
something only of runs in which nobody else edited, but its invariant has to hold
in all of them: `Stands(v, n)` says that version `v` is at least as many versions
after the header as `n` tracks fill batches, and *if* it is exactly as many, it
holds what one insertion of those tracks would have made. An edit by somebody
else makes the distance too large for good. The step from one batch to the next
is a lemma about lists (`InsertedTwice`: inserting behind what was inserted is
inserting once) and one about division (`BatchesStep`: a full batch adds one).

`SetupProofs` proves of `init`, `set-credential`, `config clear` and a refresh, for
any number of processes, backends, profiles and client ids:

- `AllOrNothing`: `InitAllOrNothing` is an invariant of `Spec`;
- `CredentialFirst`: so is `CredentialComesFirst`;
- `ClearReportsTruly`: so is `ClearAsReported`;
- `NoLossUninvited`: so is `NoUninvitedLoss`;
- `TypeCorrect`: so is `TypeOK`.

The four properties speak of ends; the invariant says of every place in a command
what an undisturbed process has written when it is there. `InitInv` has, for
`save` and `rollback`, the half-written state (`Half`), and that `previous` is what
stood in the place before, without which a rollback could not be shown to restore
it. `ClearInv` ties the status of every target to store and file, target by
target. `Ties` says which command may be where. `StaysOwn` is the interference
argument: a step of one process leaves another one's part alone (`Kept`), for it
either writes nothing that one relies on or ends its undisturbed time. Each
action then has a lemma for its own process. The assumptions are those of
`Setup`: among them that no place is called like the absence of one.

The same module proves of `Authorize`, for any set of callbacks in any order, with
failing servers, timeouts and cancellation:

- `FirstDecides`: `FirstResultDecides` is an invariant of `FlowSpec`;
- `BrowserKnows`: so is `BrowserToldTheSame`;
- `FlowTypeCorrect`: so is `FlowTypeOK`, with one result in the channel at most;
- `AuthorizeRunsDown`: no step of the flow or of a goroutine is for nothing.

`Heard` is what every step relies on: a result that is delivered, or about to be,
has answered its browser already, and with what it carries. `Choice` says that
until the flow leaves its `select` the channel holds all that was ever delivered,
so what is taken is the first of it although later results are dropped.

`CommandProofs` proves of a command, with any number of attempts of every call and
any number of other processes:

- `CommandIsSession`: `Spec` implements `Session` (`ImplementsSession`);
- `CredentialOutlivesCommand`: what `SessionProofs` proves holds of a command;
- `EndIsHonest`: `HonestEnd` is an invariant of `Spec`;
- `CodesSeparate`: so is `ExitSeparates`;
- `MeIsCurrent`: so is `MeShowsWhatItUsed`;
- `TypeCorrect`: so is `TypeOK`;
- `MutationIsCall`: each mutation of a command is a `MutationCall`.

The refinement needs one invariant only, that a command stays the command it is:
each step that touches the credential is a step of `Session` as it stands
(`StepIsSessions`). The theorems of `SessionProofs` are then taken over instead of
proved again (`SessionKeeps`), and serve the rest: that the session of a command
under way is open, for instance, or that a token in use has scopes at all. `Control`
and `Effect` tie the request on the wire to what the service has done and to
the call that is under way; a mutation lands once at most, because a call that
mutates is not retried, and those before it have all landed (`Confirmed`). `Blame` says
what the error at hand tells: while it is wrapped, its class is that of the trouble;
when it leaves the command, so is its code. `WrappingKeepsClass` is the lemma
about the wrappers, `CodedFacts` the one about codes, `CauseClasses` what the
sentinels are. `Bearer` keeps the envelope that the request went out
with. The types need one thing more, that a call about to be attempted has an
attempt left. The assumptions are those of `Command` and `Session`.

The next part of the same module proves of `LibraryBatch`, for any number of
references, any size of chunk and any number of edits by others:

- `RowsAreAligned`: `RowsAlign` is an invariant of `BatchSpec`;
- `PrefixIsApplied`: so is `PrefixApplied`;
- `BatchTypeCorrect`: so is `BatchTypeOK`;
- `EachReferenceIsACall`: the change of each reference is a `MutationCall`.

`FirstsKept` is the invariant of the parse loop: the references kept are as many as
the arguments that name an id for the first time, each is found under the rank of
its argument among them, and no id is kept twice; `KeptByNext` is its step, an
argument with the cardinalities of finite sets. `Answered` says that each answer in
hand was true of the reference in its row at some time, and `AppliedInTurn` that
what has landed is the prefix of the batch up to the loop variable, plus the chunk
under way once it is performed (`Landed`). Only a chunk's own request can add to it,
and no other is sent while one is in doubt, which is why a late application cannot
leave a gap.

The last part of `HttpRequestProofs` proves of `Listing`, for lists of any length,
any `--max`, any number of edits and faults and any of the nine listings:

- `TokensLead`: `TokensLeadOn` is an invariant of `WalkSpec`;
- `PagesAreJoined`: so is `PagesJoin`;
- `ShiftsOneWay`: so is `EditsShiftOneWay`;
- `WalkTypeCorrect`: so is `WalkTypeOK`;
- `ScriptRunsDown`: no step of script or command is for nothing.

`Leading` says that the token in hand is one that this listing gave, and that the
command under way has its offset unless it was given another one on purpose; that
scopes tell listings apart is a lemma (`ScopeNames`), and it is false of searches,
which is why `StrayTokensRefused` has to except them. `Holding` is what validation
is worth: a page that was accepted is the one the list has at that offset if the
service was honest, or if the method is a strict one, whatever the service said, but
for an item shown as unavailable (`OddAccepted` is where total, rows and next link are
held against each other).
`Prefixed` says that what was kept ends where the token in hand goes on.
`EditsShiftOneWay` gets an invariant for each direction: while others only insert,
each initial entry was kept or stands at or beyond the offset in hand
(`NoneSkipped`); while they only remove, nothing that was kept stands there
(`NoneRepeated`).

The last part of `CommandProofs` proves of `Output`, for any characters, texts and
lists of any length, any `--fields` and any length of a track:

- `OneLineForEach`: `OneLinePerResource` is an invariant of `RenderSpec`;
- `PrintedReadsBack`: so is `ReadsBack`;
- `AskedIsShown`: so is `ShowsWhatWasAsked`.

A rendering is one step, so the invariant (`RenderInv`: what is printed is what the
job renders to) needs little; all that is to be shown is about functions that recur
over a text. The library's induction theorems take an operator for a parameter,
which the provers cannot instantiate. That the natural numbers are well-founded is
stated of a relation, which is a value, and it gives a smallest counterexample in a
set: `SmallestNat`, and from it `Induction`, with the set of the numbers
something is true of for a parameter. `Loop` is the first use: a run of a loop
exists, so that each of the recursive functions is what its definition says
(`ReplacedFacts`, `JoinsFacts`, `FiltersFacts`, `SplitsFacts`, `SelectionsFacts`).
On these rest the lemmas about the operators:

- `Replace` leaves a text alone where the old part is not, takes a letter out that
  is replaced, brings none in that is not in the new part, and works on both sides
  of a foreign letter by itself (`ReplaceAcross`); from these, what `sanitize`, `cell`
  and `mutationCell` return;
- `Split` of what was joined with a letter that no part has gives the parts back, and
  lines ended by a letter are as many pieces;
- `Dropping` keeps the right values, as many as remain and in order;
- `Taken` is the loop invariant of `selectFields`: after some pieces, the fields are
  the names so far, each once, in the order they were first named, or there was
  an unknown one;
- `FamiliesFit` checks the eight families of columns against their cells, and
  `duration` is put together again from quotients and remainders.

`credits` is the delicate one: the whole cell is put in order once more after its
names were, and `ReplaceAcross` is why that changes no name and moves no comma.
The assumptions are those of `Output`: the characters that the code itself writes
are among `Characters`, texts are sequences of them, seconds are integers.

*The contract on both sides.* `HttpRequest` implements `MutationCall`: one
application at most, and no verdict but "uncertain" that could be wrong, then or
later. The modules of the commands do not import `HttpRequest`; they take that
contract for the calls they make. Five theorems show that they do: each mutation of a
command, with what the service has done of it and what the command knows or says of
it, implements `MutationCall` too.

| Theorem | The call | Applications and verdict |
|---|---|---|
| `DeleteIsCall` | the DELETE of a removal | its request is applied; what the user is told |
| `MutationsAreCalls` | the POST and the DELETE of an update | each request; a definite answer, or that the update ended without one |
| `EachTrackIsACall` | the adding of the n-th track | n has landed; n is confirmed, or the add ended at its batch |
| `MutationIsCall` | the n-th mutation of a command among other processes | n has landed; the command has gone on to the next call, or what the user is told |
| `EachReferenceIsACall` | the change of the r-th reference of a batch | r is applied; `start` has passed it, or the report concerns its chunk |

In a batch the view is that of a single element: one request has many, and they are
applied, confirmed and doubted together. For any n the map is a state function of the
command, so the theorem is one for each n. They need what the other invariants of
their modules say, and `Ending` of an add (how it ended says whether the batch under
way was sent) and `Counted` of a batch (as many ids were changed as have landed).

*What is proved of liveness.* That something happens in the end needs fairness and
ENABLED, which this prover cannot treat; `Terminates` and `WalkEnds` are TLC's. What
they rest on besides fairness is proved for every value of the constants: nothing goes
on for ever.

- `CallRunsDown`: each step of `doJSON`, a wait and a retry included, lowers
  `Remaining`, three places an attempt, and no other step changes it;
- `RemovalRunsDown`: each step of a removal leads to a later `Stage` or leaves fewer
  items `Unread`. Collaborators change neither, although the list they edit is the one
  being read: a page is only asked for while the list has the length it had
  (`PageHasItems`);
- `AuthorizeRunsDown`: the flow, and each goroutine of its server, only move on;
- `ScriptRunsDown`: each step of a walk is an edit or a mishap, or lowers `Toll`: what
  is left of the list from the offset in hand, and of the command. A page that
  promises more than there is costs one command more (`Misleading`).

Only model-checked:

- all liveness (`Terminates`, `WalkEnds`): that the steps just counted are taken.

## 5. Plan

Done: the call contract, the guarded playlist commands, sessions, setup, batches,
authorization, listings and their tokens, the composition of session, call and
exit code, rendering; and the theorems of section 4.

Every safety property a run checks is proved, and the type invariant of every module.
Next: more of the code, where section 6 says what is left out.

## 6. Not modelled

- `config show` and `config path`: a read of the file and a rendering, with no
  state and no second actor.
- Of the get commands, the parsing of the resource's fields: a response is valid
  or not; what is printed of a valid one is in `Output`, and how the command ends
  in `Command`.
- How a piece of `--fields` is typed (`table.go:44-48` trims it and takes it in
  capitals before anything looks at it): `Output` starts from what comes of that.
- Wording: help texts, error texts, redaction of secrets in errors, the keys of
  a detail and the lines of `me`.
- The authorization of a terminal without a browser, which reads the redirect from
  standard input (`authorizer.go:116`, `readRedirect`): one read and one parse, with
  nobody to race with but the context. `Authorize` has the callback server.
- PKCE, the state parameter's randomness and URL validation: success or failure.
- The interior of the credential store, `oauth2`, `net/http` and the file system.
- The mutex of the token source: a command makes one request at a time, so
  nothing contends for it.
- Overflow of `offset + limit`: offsets are Go `int`s of 64 bits taken from tokens;
  a token whose offset is that large is a token nobody was given.
- `root`, `version`, packaging: wiring and build data.

Three hazards have no property. That the client sets no timeout
(`cmd/sptfy/main.go:43`) is what `Terminates` has to assume away. That the
position recorded for an append is stale when others edit (`playlist.go:374`) is
what the code does, and so is that the last save of a credential wins
(`session.go:114`); both are among the divergences above.
