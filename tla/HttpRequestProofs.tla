-------------------------- MODULE HttpRequestProofs --------------------------
(***************************************************************************)
(* HttpRequest keeps its invariants and implements MutationCall, for every *)
(* number of attempts, set of statuses and set of Retry-After values.      *)
(* The last part is about Listing, where such calls are pages of a list.   *)
(***************************************************************************)
EXTENDS HttpRequest, Listing, SequenceTheorems, FiniteSetTheorems, TLAPS

\* The loop of doJSON: how many requests were sent in each of its places, what
\* makes it come round again, and what may be on the wire meanwhile.
LoopInv ==
    /\ attempt < Attempts
    /\ pc = "build" => sends = attempt
    /\ pc = "await" => sends = attempt + 1
    /\ pc = "wait"  => sends = attempt + 1 /\ sends < Attempts
    /\ pc = "done"  => sends \in {attempt, attempt + 1}
    /\ pc \in {"build", "wait"} => wire = "idle"
    /\ sends = 0 => wire = "idle"
    /\ pc = "wait" \/ (pc = "build" /\ sends > 0)
         => ~Mutation /\ Retryable(reply.status) /\ ValidDelay(reply)
    /\ wire = "reply" => reply \in Replies
    /\ pc = "done" /\ cause = "upstream" => wire = "idle"
    /\ GivesUpOnlyWhenSpent

\* What the service has done, the response on the wire and the verdict agree. The
\* mutation cannot be performed while no request is travelling.
EffectInv ==
    /\ verdict = "none" <=> pc # "done"
    /\ ~Mutation => applications = 0
    /\ Mutation =>
         /\ applications \in {0, 1}
         /\ sends = 0 \/ wire = "request" => applications = 0
         /\ wire = "reply" /\ Success(reply.status) => applications = 1
         /\ wire = "reply" /\ ClientError(reply.status) => applications = 0
         /\ verdict = "confirmed" => applications = 1
         /\ verdict = "rejected" => applications = 0 /\ wire = "idle"
         /\ verdict # "failed"

IInv == TypeOK /\ LoopInv /\ EffectInv

USE MaxAttemptsAssumption

\* A call begins with nothing sent and every attempt left.
LEMMA InitIInv == Init => IInv
  <1> SUFFICES ASSUME Init PROVE IInv
    OBVIOUS
  <1> USE DEF Init
  <1>1. TypeOK
    <2>1. 0 \in 0..(MaxAttempts - 1) /\ 0 \in 0..MaxAttempts
      OBVIOUS
    <2> QED
      BY <2>1 DEF TypeOK, Kinds, Causes
  <1>2. LoopInv
    BY DEF LoopInv, GivesUpOnlyWhenSpent, Attempts
  <1>3. EffectInv
    BY DEF EffectInv
  <1> QED
    BY <1>1, <1>2, <1>3 DEF IInv

\* Every status falls into one of the classes doJSON tells apart.
LEMMA StatusCauses == \A status : StatusCause(status) \in Causes
  BY DEF StatusCause, Causes

\* The steps by which doJSON returns without a response change nothing remote.
LEMMA EndWithoutResponse ==
    ASSUME IInv, BuildFails \/ SendFails \/ TransportFails \/ WaitCanceled
    PROVE  IInv'
  <1> USE DEF IInv, TypeOK, LoopInv, EffectInv, GivesUpOnlyWhenSpent, Kinds,
              Causes, Mutation, Attempts, Fail, Refuse, Return
  <1>1. CASE BuildFails
    BY <1>1 DEF BuildFails
  <1>2. CASE SendFails
    BY <1>2 DEF SendFails
  <1>3. CASE TransportFails
    BY <1>3 DEF TransportFails
  <1>4. CASE WaitCanceled
    BY <1>4 DEF WaitCanceled
  <1> QED
    BY <1>1, <1>2, <1>3, <1>4

\* A response: refused, retried or accepted, whatever the method.
LEMMA ReceivePreserves == ASSUME IInv, Receive PROVE IInv'
  <1> USE StatusCauses
      DEF IInv, TypeOK, LoopInv, EffectInv, GivesUpOnlyWhenSpent, Kinds,
          Mutation, Attempts, Fail, Refuse, Return, Received
  <1>1. CASE MutationRefused
    BY <1>1 DEF MutationRefused, Causes
  <1>2. CASE ReadRetries
    BY <1>2 DEF ReadRetries, RetriesWhen, Causes
  <1>3. CASE ReadRefused
    BY <1>3 DEF ReadRefused
  <1>4. CASE Accept
    BY <1>4 DEF Accept, Causes
  <1> QED
    BY <1>1, <1>2, <1>3, <1>4 DEF Receive

\* The invariant is inductive.
LEMMA NextPreserves == ASSUME IInv, [Next]_vars PROVE IInv'
  <1> USE DEF IInv, TypeOK, LoopInv, EffectInv, GivesUpOnlyWhenSpent, Kinds,
              Causes, Mutation, Attempts
  <1>1. CASE BuildFails \/ SendFails \/ TransportFails \/ WaitCanceled
    BY <1>1, EndWithoutResponse
  <1>2. CASE Receive
    BY <1>2, ReceivePreserves
  <1>3. CASE Transmit
    BY <1>3 DEF Transmit
  <1>4. CASE TimerFires
    BY <1>4 DEF TimerFires
  <1>5. CASE Cancel
    BY <1>5 DEF Cancel, clientVars
  <1>6. CASE Lose
    BY <1>6 DEF Lose, clientVars
  <1>7. CASE Serve
    <2>1. PICK r \in Replies :
            /\ reply' = r
            /\ applications' \in
                 IF ~Mutation \/ ClientError(r.status) THEN {applications}
                 ELSE IF Success(r.status) THEN {applications + 1}
                 ELSE {applications, applications + 1}
      BY <1>7 DEF Serve
    <2>2. r.status \in 200..599
      BY StatusesAssumption DEF Replies
    <2>3. ~(Success(r.status) /\ ClientError(r.status))
      BY <2>2 DEF Success, ClientError
    <2> QED
      BY <1>7, <2>1, <2>3 DEF Serve, clientVars
  <1>8. CASE UNCHANGED vars
    BY <1>8 DEF vars, ValidDelay, Retryable
  <1> QED
    BY <1>1, <1>2, <1>3, <1>4, <1>5, <1>6, <1>7, <1>8 DEF Next, Client, Finished

\* The inductive invariant of doJSON.
THEOREM Invariance == Spec => []IInv
  BY InitIInv, NextPreserves, PTL DEF Spec

\* Every variable of doJSON, of the network and of the service keeps its type.
THEOREM TypeCorrect == Spec => []TypeOK
  <1>1. IInv => TypeOK
    BY DEF IInv
  <1> QED
    BY Invariance, <1>1, PTL

\* Requests are bounded by the attempts, and nobody waits in vain.
THEOREM BoundedAttempts == Spec => []AttemptsBounded
  <1>1. IInv => AttemptsBounded
    BY DEF IInv, TypeOK, LoopInv, AttemptsBounded, Attempts
  <1> QED
    BY Invariance, <1>1, PTL

\* A read never gives up on a transient response with attempts left.
THEOREM Persistence == Spec => []GivesUpOnlyWhenSpent
  <1>1. IInv => GivesUpOnlyWhenSpent
    BY DEF IInv, LoopInv
  <1> QED
    BY Invariance, <1>1, PTL

\* A read costs at most its attempts, and all of them before it gives up on a
\* response that may be retried.
THEOREM RetriesKept == Spec => []RetriesAsAllowed
  BY BoundedAttempts, Persistence, PTL DEF RetriesAsAllowed

\* No mutation is ever sent a second time, and no read but after a response that
\* asks for it.
THEOREM ResendDiscipline == Spec => ResendsOnlyTransient
  <1>1. IInv /\ [Next]_vars =>
          [sends' # sends /\ sends > 0 =>
             ~Mutation /\ Retryable(reply.status) /\ ValidDelay(reply)]_vars
    BY DEF IInv, LoopInv, Next, Client, Receive, BuildFails, SendFails,
           Transmit, TransportFails, MutationRefused, ReadRetries, RetriesWhen,
           ReadRefused, Accept, TimerFires, WaitCanceled, Cancel, Lose, Serve,
           Finished, Fail, Refuse, Return, clientVars, vars
  <1> QED
    BY Invariance, <1>1, PTL DEF Spec, ResendsOnlyTransient

------------------------------------------------------------------------------
(* Refinement *)

\* A call that has not begun is a mutating call that has not begun.
LEMMA ContractInit == Init => Contract!Init
  BY DEF Init, Contract!Init, Mutation

\* Each step is a step of MutationCall or leaves what it speaks of alone.
LEMMA ContractStep ==
    ASSUME IInv, [Next]_vars
    PROVE  [Contract!Next]_(Contract!vars)
  <1> USE DEF Mutation, Contract!vars, Contract!Next, Contract!Apply,
              Contract!Confirm, Contract!Reject, Contract!DoubtOutcome
  <1> USE DEF Fail, Refuse, Return
  <1>1. CASE BuildFails \/ SendFails \/ TransportFails \/ WaitCanceled
    BY <1>1 DEF IInv, LoopInv, EffectInv, BuildFails, SendFails,
                TransportFails, WaitCanceled
  <1>2. CASE MutationRefused
    BY <1>2 DEF IInv, EffectInv, MutationRefused, Received
  <1>3. CASE ReadRetries \/ ReadRefused
    BY <1>3 DEF ReadRetries, RetriesWhen, ReadRefused
  <1>4. CASE Accept
    BY <1>4 DEF IInv, EffectInv, Accept, Received
  <1>5. CASE Transmit \/ TimerFires \/ Cancel \/ Lose \/ UNCHANGED vars
    BY <1>5 DEF Transmit, TimerFires, Cancel, Lose, clientVars, vars
  <1>6. CASE Serve
    <2>1. applications' \in {applications, applications + 1}
          /\ (~Mutation => applications' = applications)
      BY <1>6 DEF Serve
    <2>2. UNCHANGED <<verdict, kind>>
      BY <1>6 DEF Serve, clientVars
    <2>3. Mutation => applications = 0 /\ verdict \in {"none", "uncertain"}
      BY <1>6 DEF Serve, IInv, TypeOK, EffectInv, Kinds
    <2> QED
      BY <2>1, <2>2, <2>3
  <1> QED
    BY <1>1, <1>2, <1>3, <1>4, <1>5, <1>6
       DEF Next, Client, Receive, Finished

\* One HTTP call implements MutationCall: at most one effect, and no verdict but
\* "uncertain" that could be wrong, then or later.
THEOREM ContractKept == Spec => KeepsContract
  BY Invariance, ContractInit, ContractStep, PTL
     DEF Spec, KeepsContract, Contract!Spec

------------------------------------------------------------------------------
(* A call runs down *)

\* What is left of a call: three places an attempt, and none once it has returned
Remaining ==
    CASE pc = "build" -> 3 * (Attempts - attempt)
      [] pc = "await" -> 3 * (Attempts - attempt) - 1
      [] pc = "wait"  -> 3 * (Attempts - attempt) - 2
      [] pc = "done"  -> 0

\* Each step of doJSON leaves less of the call, and nobody else's leaves more.
RunsDown ==
    /\ Remaining \in Nat /\ Remaining' \in Nat
    /\ IF Client THEN Remaining' < Remaining ELSE Remaining' = Remaining

\* Where doJSON is says how much is left.
LEMMA RemainingFacts ==
    ASSUME IInv
    PROVE  /\ Attempts \in Nat /\ attempt \in Nat /\ attempt < Attempts
           /\ pc \in {"build", "await", "wait", "done"} /\ Remaining \in Nat
           /\ pc # "done" => Remaining > 0
           /\ pc = "wait" => attempt + 1 < Attempts
  <1>1. /\ attempt \in Nat /\ attempt < Attempts
        /\ pc \in {"build", "await", "wait", "done"}
        /\ pc = "wait" => attempt + 1 < Attempts
    BY DEF IInv, TypeOK, LoopInv
  <1>2. Attempts \in Nat
    BY MaxAttemptsAssumption DEF Attempts
  <1>3. Remaining \in Nat /\ (pc # "done" => Remaining > 0)
    BY <1>1, <1>2 DEF Remaining
  <1> QED
    BY <1>1, <1>2, <1>3

\* A step of doJSON ends the call or moves it one place on.
LEMMA ClientRunsDown == ASSUME IInv, IInv', Client PROVE RunsDown
  <1>1. /\ Attempts \in Nat /\ attempt \in Nat /\ attempt < Attempts
        /\ Remaining \in Nat /\ Remaining' \in Nat
        /\ pc \in {"build", "await", "wait", "done"}
        /\ pc # "done" => Remaining > 0
        /\ pc = "wait" => attempt + 1 < Attempts
    <2>1. /\ attempt' \in Nat /\ attempt' < Attempts'
          /\ pc' \in {"build", "await", "wait", "done"}
      BY DEF IInv, TypeOK, LoopInv
    <2>2. Attempts' \in Nat
      BY MaxAttemptsAssumption DEF Attempts
    <2>3. Remaining' \in Nat
      BY <2>1, <2>2 DEF Remaining
    <2> QED
      BY <2>3, RemainingFacts
  <1>2. pc # "done" /\ (pc' = "done" \/ UNCHANGED kind)
    BY DEF Client, BuildFails, SendFails, Transmit, TransportFails, Receive, Received,
           MutationRefused, ReadRetries, RetriesWhen, ReadRefused, Accept, TimerFires,
           WaitCanceled, Return, Fail, Refuse
  <1>3. \/ pc' = "done"
        \/ pc = "build" /\ pc' = "await" /\ attempt' = attempt
        \/ pc = "await" /\ pc' = "wait" /\ attempt' = attempt
        \/ pc = "wait" /\ pc' = "build" /\ attempt' = attempt + 1
    BY DEF Client, BuildFails, SendFails, Transmit, TransportFails, Receive, Received,
           MutationRefused, ReadRetries, RetriesWhen, ReadRefused, Accept, TimerFires,
           WaitCanceled, Return, Fail, Refuse
  <1>4. CASE pc' = "done"
    BY <1>1, <1>2, <1>4 DEF RunsDown, Remaining
  <1>5. CASE pc' # "done"
    <2>1. Attempts' = Attempts
      BY <1>2, <1>5 DEF Attempts, Mutation
    <2>2. Remaining' < Remaining
      BY <1>1, <1>3, <1>5, <2>1 DEF Remaining
    <2> QED
      BY <1>1, <2>2 DEF RunsDown
  <1> QED
    BY <1>4, <1>5

\* doJSON cannot go on for ever: every step it takes, each retry and each wait included,
\* lowers a natural number that nobody else raises. (That it takes them is the fairness
\* of its run.)
THEOREM CallRunsDown == Spec => [][RunsDown]_vars
  <1>1. IInv /\ IInv' /\ [Next]_vars => [RunsDown]_vars
    <2> SUFFICES ASSUME IInv, IInv', Next PROVE RunsDown \/ UNCHANGED vars
      BY Zenon
    <2>1. CASE Client
      BY <2>1, ClientRunsDown
    <2>2. CASE ~Client
      <3>1. CASE Cancel \/ Lose \/ Serve
        <4>1. UNCHANGED <<kind, pc, attempt>>
          BY <3>1 DEF Cancel, Lose, Serve, clientVars
        <4>2. Remaining' = Remaining /\ Remaining \in Nat
          BY <4>1, RemainingFacts DEF Remaining, Attempts, Mutation
        <4> QED
          BY <2>2, <4>2 DEF RunsDown
      <3> QED
        BY <2>2, <3>1 DEF Next, Finished
    <2> QED
      BY <2>1, <2>2
  <1> QED
    BY <1>1, Invariance, PTL DEF Spec

------------------------------------------------------------------------------
(* A listing, one such call a page, and the script that follows its tokens. *)

\* A row as it is shown
ShownRows == [entry : Nat, position : Nat]

\* The page held shows what the list has at the offset and the notice is right.
PageTrue ==
    /\ Len(page.rows) = IF offset + max < Len(list) THEN max
                        ELSE IF offset < Len(list) THEN Len(list) - offset ELSE 0
    /\ \A i \in 1..Len(page.rows) : Shows(page.rows[i], offset + i)
    /\ page.hasNext <=> offset + max < Len(list)

Typed ==
    /\ listing \in Listings
    /\ list \in Seq(Nat) /\ initial \in Nat
    /\ collected \in Seq(ShownRows)
    /\ walk \in {"going", "over"}
    /\ place \in {"idle", "open", "read", "stdout", "stderr"}
    /\ offset \in Nat /\ hand.offset \in Nat /\ edits \in Nat

\* The token in hand is one this listing gave, and the command under way has it,
\* unless it was given another one.
Leading ==
    /\ \/ hand = NoToken
       \/ /\ hand = Encode(Scope(listing), hand.offset)
          /\ listing.command.capped => hand.offset <= MaxOffset
    /\ place # "idle" => walk = "going" /\ max \in 1..listing.command.max
    /\ place # "idle" /\ ~misled => offset = hand.offset
    /\ StrayTokensRefused

\* An honest page is true while it is held, and so is any page of a strict method
\* whose offset the list reaches.
Holding ==
    place \in {"stdout", "stderr"} =>
        /\ page.rows \in Seq(ShownRows)
        /\ page.offset = offset /\ page.limit = max
        /\ place = "stderr" => Noticed
        /\ honest \/ (listing.command.method.strict /\ offset <= Len(list)) => PageTrue

\* What was kept of a list nobody changed ends where the token in hand goes on.
Prefixed ==
    Undisturbed /\ (honest \/ listing.command.method.strict) =>
        /\ Len(collected) <= Len(list)
        /\ \A i \in 1..Len(collected) : Shows(collected[i], i)
        /\ walk = "going" => hand.offset = Len(collected)
        /\ walk = "over" => \/ Len(collected) = Len(list)
                            \/ listing.command.capped /\ Len(collected) > MaxOffset

Kept(e) == \E j \in 1..Len(collected) : collected[j].entry = e
Ahead(e) == \E k \in 1..Len(list) : k > hand.offset /\ list[k] = e

\* While others only insert, an initial entry was kept or is still ahead.
NoneSkipped ==
    Reliable /\ edited \subseteq {"insert"} =>
        \A e \in 1..initial :
            /\ walk = "going" => Kept(e) \/ Ahead(e)
            /\ walk = "over" /\ ~listing.command.capped => Kept(e)

\* While others only remove, nothing that was kept is still ahead.
NoneRepeated ==
    Reliable /\ edited \subseteq {"remove"} =>
        /\ \A j, k \in 1..Len(collected) :
             collected[j].entry = collected[k].entry => j = k
        /\ \A j, k \in 1..Len(list) : list[j] = list[k] => j = k
        /\ walk = "going" => \A j \in 1..Len(collected) : ~Ahead(collected[j].entry)

WalkInv == Typed /\ Leading /\ Holding /\ Prefixed /\ NoneSkipped /\ NoneRepeated

\* What the commands of the listings have in common.
LEMMA CommandFacts ==
    ASSUME NEW c \in Commands
    PROVE  /\ c.max \in Nat
           /\ c.method.strict => c.method.oddRows = {Unavailable}
           /\ c.ofParent => ~c.capped
  <1> USE DEF Command, Method
  <1>0. MaxSearch \in Nat /\ MaxList \in Nat
    BY LimitsAssumption
  <1>1. CASE c \in {SearchTrack, SearchAlbum, SearchArtist}
    BY <1>0, <1>1 DEF SearchTrack, SearchAlbum, SearchArtist, SearchTracks,
                SearchAlbums, SearchArtists
  <1>2. CASE c \in {AlbumTracks, ArtistAlbums, ItemsList}
    BY <1>0, <1>2 DEF AlbumTracks, ArtistAlbums, ItemsList, ListAlbumTracks,
                ListArtistAlbums, ListPlaylistItems
  <1>3. CASE c \in {TrackList, AlbumList, PlaylistList}
    BY <1>0, <1>3 DEF TrackList, AlbumList, PlaylistList, ListSavedTracks,
                ListSavedAlbums, ListCurrentUserPlaylists
  <1> QED
    BY <1>1, <1>2, <1>3 DEF Commands

\* The surface a token names is that of one command.
LEMMA SurfaceNames ==
    ASSUME NEW c \in Commands, NEW d \in Commands, c.surface = d.surface
    PROVE  c = d /\ c.surface # "?"
  <1>1. /\ SearchTrack.surface = "track" /\ SearchAlbum.surface = "album"
        /\ SearchArtist.surface = "artist" /\ AlbumTracks.surface = "album-tracks"
        /\ ArtistAlbums.surface = "artist-albums" 
        /\ TrackList.surface = "library-tracks"
        /\ AlbumList.surface = "library-albums" /\ PlaylistList.surface = "playlists"
        /\ ItemsList.surface = "playlist-items"
    BY DEF Command, SearchTrack, SearchAlbum, SearchArtist, AlbumTracks,
           ArtistAlbums, TrackList, AlbumList, PlaylistList, ItemsList
  <1> QED
    BY <1>1, SMTT(60) DEF Commands

\* No scope is that of a token nobody gave, or of no token.
LEMMA ScopeIsOwn ==
    ASSUME NEW l \in Listings
    PROVE  Scope(l) # <<>> /\ Scope(l) # <<"?">>
  <1>1. l.command.surface # "?"
    BY SurfaceNames DEF Listings
  <1> QED
    BY <1>1 DEF Scope

\* The scope of a token tells listings apart, but for searches of one surface.
LEMMA ScopeNames ==
    ASSUME NEW l \in Listings, NEW k \in Listings,
           Scope(l) = Scope(k), ~l.command.capped
    PROVE  l = k
  <1>1. /\ l.command \in Commands /\ k.command \in Commands
        /\ l = [command |-> l.command, of |-> l.of]
        /\ k = [command |-> k.command, of |-> k.of]
        /\ l.of = NoParent <=> ~(l.command.ofParent \/ l.command.capped)
        /\ k.of = NoParent <=> ~(k.command.ofParent \/ k.command.capped)
    BY DEF Listings
  <1>3. l.command.surface = k.command.surface
    BY DEF Scope
  <1>4. l.command = k.command
    BY <1>1, <1>3, SurfaceNames
  <1>5. l.of = k.of
    <2>1. CASE l.command.ofParent
      BY <1>4, <2>1 DEF Scope
    <2>2. CASE ~l.command.ofParent
      BY <1>1, <1>4, <2>2
    <2> QED
      BY <2>1, <2>2
  <1> QED
    BY <1>1, <1>4, <1>5

\* The token in hand decodes to its own offset, whatever --max it is passed with.
LEMMA HandAccepted ==
    ASSUME Typed, Leading, NEW m \in 1..listing.command.max
    PROVE  Accepts(m, hand) = {hand.offset}
  <1>1. CASE hand = NoToken
    <2>1. hand.offset = 0 /\ (listing.command.capped => hand.offset <= MaxOffset)
      BY <1>1, LimitsAssumption DEF NoToken, Encode
    <2> QED
      BY <1>1, <2>1 DEF Accepts, Decode
  <1>2. CASE hand # NoToken
    <2>1. /\ hand.scope = Scope(listing)
          /\ listing.command.capped => hand.offset <= MaxOffset
      BY <1>2 DEF Leading, Encode
    <2> QED
      BY <1>2, <2>1 DEF Accepts, Decode
  <1> QED
    BY <1>1, <1>2

\* A stray token is only accepted by a search.
LEMMA StraysOnlySearch ==
    ASSUME Typed,
           NEW m, NEW token \in StrayTokens, NEW n \in Accepts(m, token)
    PROVE  listing.command.capped /\ n \in Nat
  <1>1. token # NoToken /\ token.scope = Scope(listing) /\ n = token.offset
    <2>1. token.scope # <<>>
      BY ScopeIsOwn, WalkedAssumption DEF StrayTokens, Garbage, Encode
    <2> QED
      BY <2>1 DEF Accepts, Decode, NoToken, Encode
  <1>2. token # Garbage
    BY <1>1, ScopeIsOwn DEF Garbage, Encode, Typed
  <1>3. PICK l \in Strays \ {listing}, i \in 1..2 : token = Encode(Scope(l), i)
    BY <1>2 DEF StrayTokens
  <1>4. Scope(listing) = Scope(l) /\ n = i /\ l \in Listings /\ l # listing
    BY <1>1, <1>3, WalkedAssumption DEF Encode
  <1> QED
    BY <1>4, ScopeNames DEF Typed

------------------------------------------------------------------------------

\* A walk begins with the list as it is and nothing in hand.
LEMMA WalkInitInv ==
    ASSUME WalkInit
    PROVE  WalkInv
  <1> USE DEF WalkInit
  <1>1. /\ initial \in Nat /\ list \in Seq(Nat) /\ Len(list) = initial
        /\ \A i \in 1..initial : list[i] = i
    <2>1. initial \in Nat
      BY BoundsAssumption
    <2> QED
      BY <2>1, IsASeq
  <1>2. hand.offset = 0 /\ Len(collected) = 0 /\ collected \in Seq(ShownRows)
    BY DEF NoToken, Encode
  <1>3. Typed
    <2>1. listing \in Listings
      BY WalkedAssumption
    <2>2. /\ offset = 0 /\ edits = 0 /\ honest = TRUE /\ misled = FALSE
          /\ walk = "going" /\ place = "idle"
      OBVIOUS
    <2>3. hand.offset \in Nat /\ offset \in Nat /\ edits \in Nat
      BY <1>2, <2>2
    <2>4. walk \in {"going", "over"}
          /\ place \in {"idle", "open", "read", "stdout", "stderr"}
      BY <2>2
    <2> HIDE DEF WalkInit
    <2> QED
      BY <1>1, <1>2, <2>1, <2>3, <2>4 DEF Typed
  <1>4. Leading /\ Holding
    BY DEF Leading, Holding, StrayTokensRefused
  <1>5. Prefixed
    BY <1>1, <1>2 DEF Prefixed
  <1>6. NoneSkipped
    <2>1. \A e \in 1..initial : Ahead(e)
      BY <1>1, <1>2 DEF Ahead
    <2> QED
      BY <2>1 DEF NoneSkipped
  <1>7. NoneRepeated
    BY <1>1, <1>2 DEF NoneRepeated
  <1> QED
    BY <1>3, <1>4, <1>5, <1>6, <1>7 DEF WalkInv

\* What was kept and what is ahead is the same until rows are kept or others edit.
LEMMA WalkKept ==
    ASSUME WalkInv, UNCHANGED <<world, script, edited>>,
           honest' => honest, misled => misled'
    PROVE  Prefixed' /\ NoneSkipped' /\ NoneRepeated'
  <1> USE DEF WalkInv, world, script
  <1>1. UNCHANGED <<listing, list, initial, hand, collected, walk, edited>>
    OBVIOUS
  <1>2. Prefixed'
    BY <1>1 DEF Prefixed, Undisturbed, Shows
  <1>3. \A e : (Kept(e)' <=> Kept(e)) /\ (Ahead(e)' <=> Ahead(e))
    BY <1>1 DEF Kept, Ahead
  <1>4. NoneSkipped'
    BY <1>1, <1>3 DEF NoneSkipped, Reliable
  <1>5. NoneRepeated'
    BY <1>1, <1>3 DEF NoneRepeated, Reliable
  <1> QED
    BY <1>2, <1>4, <1>5

\* A command that fails leaves the walk where it was.
LEMMA FailKeeps ==
    ASSUME WalkInv, NEW how, FailWith(how), honest' => honest, UNCHANGED misled
    PROVE  WalkInv'
  <1> USE DEF WalkInv, FailWith
  <1>1. UNCHANGED <<world, script, offset, edits, edited>> /\ place' = "idle"
    OBVIOUS
  <1>2. Typed' /\ Leading' /\ Holding'
    BY <1>1 DEF Typed, Leading, Holding, StrayTokensRefused, world, script
  <1> QED
    BY <1>1, <1>2, WalkKept

\* A command is run, with the token in hand or with a stray one.
LEMMA InvokePreserves ==
    ASSUME WalkInv, Invoke \/ InvokeBadly
    PROVE  WalkInv'
  <1> USE DEF WalkInv
  <1>1. CASE Invoke
    <2>1. /\ UNCHANGED <<world, script, edits, edited, honest, misled>>
          /\ walk = "going"
      BY <1>1 DEF Invoke, history
    <2>2. PICK m \in 1..listing.command.max :
            /\ max' = m
            /\ \/ place' = "idle" /\ offset' = offset
               \/ place' = "open" /\ offset' = hand.offset
      BY <1>1, HandAccepted DEF Invoke
    <2>3. Typed' /\ Leading' /\ Holding'
      BY <2>1, <2>2 DEF Typed, Leading, Holding, StrayTokensRefused, world, script
    <2> QED
      BY <2>1, <2>3, WalkKept
  <1>2. CASE InvokeBadly
    <2>1. PICK m \in 0..(MaxList + 1), token \in {hand} \cup StrayTokens :
            /\ m \notin 1..listing.command.max \/ token # hand
            /\ IF Accepts(m, token) = {}
                 THEN FailWith("usage") /\ UNCHANGED misled
                 ELSE /\ max' = m /\ offset' \in Accepts(m, token)
                      /\ misled' = TRUE /\ place' = "open"
                      /\ UNCHANGED <<script, world, edits, edited>>
      BY <1>2 DEF InvokeBadly
    <2>2. UNCHANGED honest /\ walk = "going"
      BY <1>2 DEF InvokeBadly
    <2>3. CASE Accepts(m, token) = {}
      BY <2>1, <2>2, <2>3, FailKeeps DEF Typed
    <2>4. CASE Accepts(m, token) # {}
      <3>1. m \in 1..listing.command.max
        BY <2>4 DEF Accepts
      <3>2. listing.command.capped /\ offset' \in Nat
        BY <2>1, <2>4, <3>1, StraysOnlySearch
      <3>3. /\ max' = m /\ misled' = TRUE /\ place' = "open"
            /\ UNCHANGED <<script, world, edits, edited>>
        BY <2>1, <2>4
      <3>4. Typed' /\ Leading' /\ Holding'
        BY <2>2, <3>1, <3>2, <3>3
           DEF Typed, Leading, Holding, StrayTokensRefused, world, script
      <3> QED
        BY <2>2, <3>3, <3>4, WalkKept DEF Typed
    <2> QED
      BY <2>3, <2>4
  <1> QED
    BY <1>1, <1>2

------------------------------------------------------------------------------
(* Pages *)

\* The list from the offset on, as far as --max goes.
LEMMA HeldFacts ==
    ASSUME Typed, Leading, place = "read"
    PROVE  /\ max \in Nat /\ max > 0 /\ Held \in Seq(Nat)
           /\ Len(Held) = IF offset + max < Len(list) THEN max
                          ELSE IF offset < Len(list) THEN Len(list) - offset ELSE 0
           /\ \A i \in 1..Len(Held) : Held[i] = list[offset + i]
  <1>1. max \in Nat /\ max > 0
    <2>1. listing.command.max \in Nat
      BY CommandFacts DEF Typed, Listings
    <2> QED
      BY <2>1 DEF Leading
  <1>2. PICK last : last = IF offset + max < Len(list) THEN offset + max ELSE Len(list)
    OBVIOUS
  <1>3. list \in Seq(Nat) /\ Len(list) \in Nat /\ offset \in Nat
    BY LenProperties DEF Typed
  <1>4. last \in Nat /\ offset + 1 \in Int
    BY <1>1, <1>2, <1>3
  <1>5. \A i \in (offset + 1)..last : list[i] \in Nat
    BY <1>1, <1>2, <1>3, ElementOfSeq
  <1>6. Held = SubSeq(list, offset + 1, last)
    BY <1>2 DEF Held
  <1>7. /\ Held \in Seq(Nat)
        /\ Len(Held) = IF offset + 1 <= last THEN last - (offset + 1) + 1 ELSE 0
        /\ \A i \in 1..(last - (offset + 1) + 1) : Held[i] = list[(offset + 1) + i - 1]
    BY <1>4, <1>5, <1>6, SubSeqProperties
  <1>8. Len(Held) = IF offset + max < Len(list) THEN max
                    ELSE IF offset < Len(list) THEN Len(list) - offset ELSE 0
    BY <1>1, <1>2, <1>3, <1>7
  <1>9. ASSUME NEW i \in 1..Len(Held) PROVE Held[i] = list[offset + i]
    <2>1. i \in 1..(last - (offset + 1) + 1) /\ (offset + 1) + i - 1 = offset + i
      BY <1>2, <1>3, <1>4, <1>7, <1>8
    <2> QED
      BY <1>7, <2>1
  <1> QED
    BY <1>1, <1>7, <1>8, <1>9

\* The positions shown count on from the offset of the page.
LEMMA ShownFacts ==
    ASSUME NEW answer, answer.rows \in Seq(Nat), answer.offset \in Nat
    PROVE  /\ Shown(answer) \in Seq(ShownRows)
           /\ Len(Shown(answer)) = Len(answer.rows)
           /\ \A i \in 1..Len(answer.rows) :
                Shown(answer)[i] =
                  [entry |-> answer.rows[i], position |-> answer.offset + i - 1]
  <1> DEFINE row(i) == [entry |-> answer.rows[i], position |-> answer.offset + i - 1]
  <1>1. Len(answer.rows) \in Nat /\ DOMAIN answer.rows = 1..Len(answer.rows)
    BY LenProperties
  <1>2. \A i \in 1..Len(answer.rows) : row(i) \in ShownRows
    <2> SUFFICES ASSUME NEW i \in 1..Len(answer.rows) PROVE row(i) \in ShownRows
      OBVIOUS
    <2>1. answer.rows[i] \in Nat /\ answer.offset + i - 1 \in Nat
      BY <1>1, ElementOfSeq
    <2> QED
      BY <2>1 DEF ShownRows
  <1>3. Shown(answer) = [i \in 1..Len(answer.rows) |-> row(i)]
    BY <1>1 DEF Shown, PositionShown
  <1> HIDE DEF row
  <1>4. [i \in 1..Len(answer.rows) |-> row(i)] \in Seq(ShownRows)
    BY <1>1, <1>2, IsASeq
  <1>5. Len(Shown(answer)) = Len(answer.rows)
    BY <1>1, <1>3, <1>4, LenProperties
  <1> QED
    BY <1>3, <1>4, <1>5 DEF row

\* A page is held: it is true if the answer was, in rows and in what follows them.
LEMMA HoldKeeps ==
    ASSUME WalkInv, place = "read", NEW answer, Hold(answer),
           answer.rows \in Seq(Nat), answer.offset = offset, answer.limit = max,
           honest' => honest, UNCHANGED misled,
           honest' \/ (listing.command.method.strict /\ offset <= Len(list))
             => /\ Len(answer.rows) = Len(Held)
                /\ \A i \in 1..Len(Held) :
                     \/ answer.rows[i] = Held[i]
                     \/ ~honest' /\ answer.rows[i] = Unavailable
                /\ answer.next <=> offset + max < Len(list)
    PROVE  WalkInv'
  <1> USE DEF WalkInv, Hold
  <1>1. /\ UNCHANGED <<world, script, max, offset, edits, edited>>
        /\ place' = "stdout"
        /\ page' = [rows |-> Shown(answer), offset |-> offset, limit |-> max,
                    hasNext |-> answer.next]
    OBVIOUS
  <1>2. Typed' /\ Leading'
    BY <1>1 DEF Typed, Leading, StrayTokensRefused, world, script
  <1>3. /\ Shown(answer) \in Seq(ShownRows) /\ Len(Shown(answer)) = Len(answer.rows)
        /\ \A i \in 1..Len(answer.rows) :
             Shown(answer)[i] = [entry |-> answer.rows[i], position |-> offset + i - 1]
    BY ShownFacts DEF Typed
  <1>4. ASSUME Len(answer.rows) = Len(Held),
               \A i \in 1..Len(Held) :
                 \/ answer.rows[i] = Held[i]
                 \/ ~honest' /\ answer.rows[i] = Unavailable,
               answer.next <=> offset + max < Len(list)
        PROVE  PageTrue'
    <2>1. list' = list
      BY <1>1 DEF world
    <2>2. /\ Len(Held) = IF offset + max < Len(list) THEN max
                          ELSE IF offset < Len(list) THEN Len(list) - offset ELSE 0
          /\ \A i \in 1..Len(Held) : Held[i] = list[offset + i]
      BY HeldFacts
    <2>3. /\ page'.rows = Shown(answer) /\ page'.hasNext = answer.next
          /\ offset' = offset /\ max' = max
      BY <1>1
    <2>4. Len(page'.rows) = Len(Held)
      BY <1>3, <1>4, <2>3
    <2>5. ASSUME NEW i \in 1..Len(Held)
          PROVE  /\ page'.rows[i].position = offset + i - 1
                 /\ \/ page'.rows[i].entry = list[offset + i]
                    \/ ~honest' /\ page'.rows[i].entry = Unavailable
      <3>1. page'.rows[i] = [entry |-> answer.rows[i], position |-> offset + i - 1]
        BY <1>3, <1>4, <2>3
      <3>2. \/ answer.rows[i] = list[offset + i]
            \/ ~honest' /\ answer.rows[i] = Unavailable
        BY <1>4, <2>2
      <3> QED
        BY <3>1, <3>2
    <2> QED
      <3>1. \A i \in 1..Len(page'.rows) : Shows(page.rows[i], offset + i)'
        BY <2>1, <2>3, <2>4, <2>5 DEF Shows, Typed
      <3>2. Len(page'.rows) = IF offset' + max' < Len(list') THEN max'
                              ELSE IF offset' < Len(list') THEN Len(list') - offset' ELSE 0
        BY <2>1, <2>2, <2>3, <2>4
      <3>3. page'.hasNext <=> offset' + max' < Len(list')
        BY <1>4, <2>1, <2>3
      <3> QED
        BY <3>1, <3>2, <3>3 DEF PageTrue
  <1>5. Holding'
    BY <1>1, <1>3, <1>4 DEF Holding, world
  <1> QED
    BY <1>1, <1>2, <1>5, WalkKept

\* What an answer that is off in one respect is, of an honest one
OffBy(answer, h) ==
    \/ answer = [h EXCEPT !.offset = offset + 1]
    \/ answer = [h EXCEPT !.limit = max - 1]
    \/ answer = [h EXCEPT !.present = FALSE, !.rows = <<>>]
    \/ answer = [h EXCEPT !.next = ~@]
    \/ answer = [h EXCEPT !.total = @ - 1]
    \/ answer = [h EXCEPT !.total = @ + 1]
    \/ Len(h.rows) > 0 /\ answer = [h EXCEPT !.rows = Front(@)]
    \/ \E row \in OddRows : answer = [h EXCEPT !.rows = Append(@, row)]
    \/ \E i \in 1..Len(h.rows), row \in OddRows : answer = [h EXCEPT !.rows[i] = row]

\* An answer that is off in one respect is one of these.
LEMMA OddCases ==
    ASSUME NEW answer \in OddAnswers, NEW h, h = HonestAnswer
    PROVE  OffBy(answer, h)
  <1> USE DEF OffBy
  <1>1. \/ answer \in {[h EXCEPT !.offset = offset + 1],
                       [h EXCEPT !.limit = max - 1],
                       [h EXCEPT !.present = FALSE, !.rows = <<>>],
                       [h EXCEPT !.next = ~@],
                       [h EXCEPT !.total = @ - 1],
                       [h EXCEPT !.total = @ + 1]}
        \/ answer \in {[h EXCEPT !.rows = Front(@)] : i \in 1..Len(h.rows)}
        \/ answer \in {[h EXCEPT !.rows = Append(@, row)] : row \in OddRows}
        \/ answer \in {[h EXCEPT !.rows[i] = row] :
                         i \in 1..Len(h.rows), row \in OddRows}
    BY DEF OddAnswers
  <1>2. CASE answer \in {[h EXCEPT !.rows = Front(@)] : i \in 1..Len(h.rows)}
    <2>1. PICK i \in 1..Len(h.rows) : answer = [h EXCEPT !.rows = Front(@)]
      BY <1>2
    <2> QED
      BY <2>1
  <1>3. CASE \/ answer \in {[h EXCEPT !.rows = Append(@, row)] : row \in OddRows}
             \/ answer \in {[h EXCEPT !.rows[i] = row] :
                              i \in 1..Len(h.rows), row \in OddRows}
    BY <1>3
  <1> QED
    BY <1>1, <1>2, <1>3

\* Odd rows are numbers, as entries are.
LEMMA OddNat == OddRows \subseteq Nat
  BY BoundsAssumption DEF OddRows, Blank, Unavailable

\* Whatever a method accepts has the offset and the limit asked for, and entries; of a
\* method that is strict it has the entries of the list, but for what is unavailable,
\* and tells what follows them.
LEMMA OddAccepted ==
    ASSUME Typed, Leading, place = "read",
           NEW answer \in OddAnswers, PageAccepted(answer)
    PROVE  /\ answer.offset = offset /\ answer.limit = max
           /\ answer.rows \in Seq(Nat)
           /\ listing.command.method.strict /\ offset <= Len(list)
                => /\ Len(answer.rows) = Len(Held)
                   /\ \A i \in 1..Len(Held) :
                        \/ answer.rows[i] = Held[i]
                        \/ answer.rows # Held /\ answer.rows[i] = Unavailable
                   /\ answer.next <=> offset + max < Len(list)
  <1>1. PICK h : h = HonestAnswer
    OBVIOUS
  <1>2. h = [offset |-> offset, limit |-> max, present |-> TRUE, rows |-> Held,
             total |-> Len(list), next |-> offset + max < Len(list)]
    BY <1>1 DEF HonestAnswer
  <1>3. PICK rows : rows = Held
    OBVIOUS
  <1>4. /\ max \in Nat /\ max > 0 /\ rows \in Seq(Nat) /\ Len(rows) \in Nat
        /\ Len(rows) = IF offset + max < Len(list) THEN max
                       ELSE IF offset < Len(list) THEN Len(list) - offset ELSE 0
        /\ offset \in Nat /\ Len(list) \in Nat
    BY <1>3, HeldFacts, LenProperties DEF Typed
  <1>5. /\ answer.offset = offset /\ answer.limit = max /\ answer.present
        /\ Len(answer.rows) <= max
        /\ listing.command.method.strict =>
             /\ ToSet(answer.rows) \cap OddRows \subseteq {Unavailable}
             /\ Len(answer.rows) > 0 => answer.offset <= answer.total - Len(answer.rows)
             /\ answer.next => Len(answer.rows) = answer.limit
             /\ answer.next <=> /\ offset < answer.total
                                /\ Len(answer.rows) < answer.total - offset
    BY CommandFacts DEF PageAccepted, PageValid, ItemsPageValid, Typed, Listings
  <1>6. CASE \/ answer = [h EXCEPT !.offset = offset + 1]
             \/ answer = [h EXCEPT !.limit = max - 1]
             \/ answer = [h EXCEPT !.present = FALSE, !.rows = <<>>]
    <2>1. CASE answer = [h EXCEPT !.offset = offset + 1]
      BY <1>2, <1>4, <1>5, <2>1
    <2>2. CASE answer = [h EXCEPT !.limit = max - 1]
      BY <1>2, <1>4, <1>5, <2>2
    <2>3. CASE answer = [h EXCEPT !.present = FALSE, !.rows = <<>>]
      <3>1. answer.present = FALSE
        BY <1>2, <2>3
      <3> QED
        BY <1>5, <3>1
    <2> QED
      BY <1>6, <2>1, <2>2, <2>3
  <1>7. CASE \/ answer = [h EXCEPT !.total = @ - 1]
             \/ answer = [h EXCEPT !.total = @ + 1]
    BY <1>2, <1>3, <1>4, <1>5, <1>7
  <1>8. CASE answer = [h EXCEPT !.next = ~@]
    <2>1. /\ answer.rows = rows /\ answer.total = Len(list)
          /\ answer.next = ~(offset + max < Len(list))
      BY <1>2, <1>3, <1>8
    <2>2. answer.next <=> ~(offset + max < Len(list))
      BY <2>1
    <2>3. ~listing.command.method.strict \/ offset > Len(list)
      BY <1>4, <1>5, <2>1, <2>2
    <2>4. ~(listing.command.method.strict /\ offset <= Len(list))
      BY <1>4, <2>3
    <2> QED
      BY <1>4, <1>5, <2>1, <2>4
  <1>9. CASE \E row \in OddRows : answer = [h EXCEPT !.rows = Append(@, row)]
    <2>1. PICK row \in OddRows : answer = [h EXCEPT !.rows = Append(@, row)]
      BY <1>9
    <2>2. /\ answer.rows = Append(rows, row) /\ answer.total = Len(list)
          /\ answer.next = (offset + max < Len(list))
      BY <1>2, <1>3, <2>1
    <2>3. answer.rows \in Seq(Nat) /\ Len(answer.rows) = Len(rows) + 1
      BY <1>4, <2>2, OddNat, AppendProperties
    <2>4. ~(listing.command.method.strict /\ offset <= Len(list))
      <3>0. PICK count : count = Len(rows) + 1
        OBVIOUS
      <3>1. count = Len(answer.rows) /\ count \in Nat /\ count > 0
        BY <1>4, <2>3, <3>0
      <3>2. listing.command.method.strict => offset <= Len(list) - count
        BY <1>5, <2>2, <3>1
      <3>3. count <= max
        BY <1>5, <3>1
      <3> QED
        <4>1. CASE offset + max < Len(list)
          BY <1>4, <3>0, <3>1, <3>3, <4>1
        <4>2. CASE ~(offset + max < Len(list)) /\ offset < Len(list)
          BY <1>4, <3>0, <3>1, <3>2, <4>2
        <4>3. CASE ~(offset < Len(list))
          BY <1>4, <3>0, <3>1, <3>2, <4>3
        <4> QED
          BY <4>1, <4>2, <4>3
    <2> QED
      BY <1>5, <2>3, <2>4
  <1>10. CASE Len(h.rows) > 0 /\ answer = [h EXCEPT !.rows = Front(@)]
    <2>1. answer.rows = SubSeq(rows, 1, Len(rows) - 1) /\ Len(rows) > 0
          /\ answer.total = Len(list) /\ answer.next = (offset + max < Len(list))
      BY <1>2, <1>3, <1>10 DEF Front
    <2>2. \A i \in 1..(Len(rows) - 1) : rows[i] \in Nat
      BY <1>4, ElementOfSeq
    <2>3. answer.rows \in Seq(Nat) /\ Len(answer.rows) = Len(rows) - 1
      BY <1>4, <2>1, <2>2, SubSeqProperties
    <2>4. ~(listing.command.method.strict /\ offset <= Len(list))
      BY <1>4, <1>5, <2>1, <2>3
    <2> QED
      BY <1>5, <2>3, <2>4
  <1>11. CASE \E i \in 1..Len(h.rows), row \in OddRows :
               answer = [h EXCEPT !.rows[i] = row]
    <2>1. PICK i \in 1..Len(rows), row \in OddRows : answer = [h EXCEPT !.rows[i] = row]
      BY <1>2, <1>3, <1>11
    <2>2. /\ answer.rows = [rows EXCEPT ![i] = row]
          /\ answer.next = (offset + max < Len(list))
      BY <1>2, <1>3, <2>1
    <2>3. /\ answer.rows \in Seq(Nat) /\ Len(answer.rows) = Len(rows)
          /\ answer.rows[i] = row /\ i \in DOMAIN answer.rows
          /\ \A j \in 1..Len(rows) : j # i => answer.rows[j] = rows[j]
      BY <1>4, <2>2, OddNat, ExceptSeq, LenProperties
    <2>4. row \in ToSet(answer.rows)
      BY <2>3 DEF ToSet
    <2>5. listing.command.method.strict => answer.rows[i] = Unavailable
      BY <1>5, <2>3, <2>4
    <2>6. answer.rows[i] # rows[i] => answer.rows # rows
      OBVIOUS
    <2> QED
      BY <1>3, <1>4, <1>5, <2>2, <2>3, <2>5, <2>6
  <1>12. OffBy(answer, h)
    BY <1>1, OddCases
  <1> QED
    BY <1>6, <1>7, <1>8, <1>9, <1>10, <1>11, <1>12, Zenon DEF OffBy

\* The session, the request and its answer.
LEMMA RequestPreserves ==
    ASSUME WalkInv,
           OpenSession \/ OpenFails \/ ReadPage \/ ReadOddPage
           \/ ReadFails \/ WriteFails
    PROVE  WalkInv'
  <1> USE DEF WalkInv
  <1>1. CASE OpenSession
    <2>1. /\ UNCHANGED <<world, script, max, offset, page, edits, edited, honest,
                       misled>>
          /\ place = "open" /\ place' = "read"
      BY <1>1 DEF OpenSession, history
    <2>2. Typed' /\ Leading' /\ Holding'
      BY <2>1 DEF Typed, Leading, Holding, StrayTokensRefused, world, script
    <2> QED
      BY <2>1, <2>2, WalkKept
  <1>2. CASE OpenFails \/ ReadFails \/ WriteFails
    BY <1>2, FailKeeps DEF OpenFails, ReadFails, WriteFails
  <1>3. CASE ReadPage
    <2>1. /\ Hold(HonestAnswer) /\ place = "read" /\ UNCHANGED <<honest, misled>>
      BY <1>3 DEF ReadPage
    <2>2. PICK h : h = HonestAnswer
      OBVIOUS
    <2>3. /\ h.rows = Held /\ h.next = (offset + max < Len(list))
          /\ h.offset = offset /\ h.limit = max
      BY <2>2 DEF HonestAnswer
    <2>4. h.rows \in Seq(Nat)
      BY <2>1, <2>3, HeldFacts
    <2> QED
      BY <2>1, <2>2, <2>3, <2>4, HoldKeeps
  <1>4. CASE ReadOddPage
    <2>1. PICK answer \in OddAnswers :
            IF PageAccepted(answer)
              THEN /\ Hold(answer)
                   /\ honest' = (honest /\ answer.rows = Held /\
                                 answer.next = HonestAnswer.next)
              ELSE FailWith("upstream") /\ UNCHANGED honest
      BY <1>4 DEF ReadOddPage
    <2>2. place = "read" /\ UNCHANGED misled
      BY <1>4 DEF ReadOddPage
    <2>3. CASE ~PageAccepted(answer)
      BY <2>1, <2>2, <2>3, FailKeeps
    <2>4. CASE PageAccepted(answer)
      <3>1. Hold(answer) /\ honest' = (honest /\ answer.rows = Held /\
                                       answer.next = HonestAnswer.next)
        BY <2>1, <2>4
      <3>2. HonestAnswer.next = (offset + max < Len(list))
        BY DEF HonestAnswer
      <3>3. /\ honest' => honest
            /\ honest' => answer.rows = Held
            /\ honest' => answer.next = (offset + max < Len(list))
            /\ answer.rows # Held => ~honest'
        BY <3>1, <3>2
      <3> QED
        BY <2>2, <2>4, <3>1, <3>3, OddAccepted, HoldKeeps
    <2> QED
      BY <2>3, <2>4
  <1> QED
    BY <1>1, <1>2, <1>3, <1>4

------------------------------------------------------------------------------
(* What is kept *)

\* A script adds the rows of a page to what it has kept.
LEMMA RowsAdded ==
    ASSUME Typed, Holding, place \in {"stdout", "stderr"}, NEW kept,
           kept = collected \o page.rows
    PROVE  /\ kept \in Seq(ShownRows)
           /\ Len(collected) \in Nat /\ Len(page.rows) \in Nat
           /\ Len(kept) = Len(collected) + Len(page.rows)
           /\ \A i \in 1..Len(collected) : kept[i] = collected[i]
           /\ \A i \in 1..Len(page.rows) : kept[Len(collected) + i] = page.rows[i]
           /\ \A i \in 1..Len(kept) : \/ i \in 1..Len(collected)
                                      \/ \E j \in 1..Len(page.rows) : i = Len(collected) + j
  <1>1. collected \in Seq(ShownRows) /\ page.rows \in Seq(ShownRows)
    BY DEF Typed, Holding
  <1>2. Len(collected) \in Nat /\ Len(page.rows) \in Nat
    BY <1>1, LenProperties
  <1>3. /\ kept \in Seq(ShownRows) /\ Len(kept) = Len(collected) + Len(page.rows)
        /\ \A i \in 1..(Len(collected) + Len(page.rows)) :
             kept[i] = IF i <= Len(collected) THEN collected[i]
                                              ELSE page.rows[i - Len(collected)]
    BY <1>1, ConcatProperties
  <1>4. \A i \in 1..Len(collected) : kept[i] = collected[i]
    BY <1>2, <1>3
  <1>5. \A i \in 1..Len(page.rows) : kept[Len(collected) + i] = page.rows[i]
    <2> SUFFICES ASSUME NEW i \in 1..Len(page.rows)
                 PROVE  kept[Len(collected) + i] = page.rows[i]
      OBVIOUS
    <2>1. /\ Len(collected) + i \in 1..(Len(collected) + Len(page.rows))
          /\ ~(Len(collected) + i <= Len(collected))
          /\ (Len(collected) + i) - Len(collected) = i
      BY <1>2
    <2> QED
      BY <1>3, <2>1
  <1>6. ASSUME NEW i \in 1..Len(kept), i \notin 1..Len(collected)
        PROVE  \E j \in 1..Len(page.rows) : i = Len(collected) + j
    <2>1. i - Len(collected) \in 1..Len(page.rows)
          /\ i = Len(collected) + (i - Len(collected))
      BY <1>2, <1>3, <1>6
    <2> QED
      BY <2>1
  <1> QED
    BY <1>2, <1>3, <1>4, <1>5, <1>6

\* The script keeps a page: with a notice it goes on behind it, without one it is done.
LEMMA KeepPreserves ==
    ASSUME WalkInv, place \in {"stdout", "stderr"}, Succeed,
           \/ ~Noticed /\ walk' = "over" /\ hand' = hand
           \/ Noticed /\ walk' = walk
              /\ hand' = Encode(Scope(listing), NextOffset)
    PROVE  WalkInv'
  <1> USE DEF WalkInv
  <1>1. /\ UNCHANGED <<listing, list, initial, max, offset, edits, edited, honest,
                       misled>>
        /\ place' = "idle" /\ walk = "going"
    BY DEF Succeed, world, history, Leading
  <1>2. PICK kept : kept = collected'
    OBVIOUS
  <1>3. kept = collected \o page.rows
    BY <1>2 DEF Succeed
  <1>4. /\ kept \in Seq(ShownRows)
        /\ Len(collected) \in Nat /\ Len(page.rows) \in Nat
        /\ Len(kept) = Len(collected) + Len(page.rows)
        /\ \A i \in 1..Len(collected) : kept[i] = collected[i]
        /\ \A i \in 1..Len(page.rows) : kept[Len(collected) + i] = page.rows[i]
        /\ \A i \in 1..Len(kept) : \/ i \in 1..Len(collected)
                                   \/ \E j \in 1..Len(page.rows) : i = Len(collected) + j
    BY <1>3, RowsAdded
  <1>5. /\ offset \in Nat /\ max \in Nat /\ Len(list) \in Nat /\ hand.offset \in Nat
    <2>1. listing.command.max \in Nat
      BY CommandFacts DEF Typed, Listings
    <2>2. max \in 1..listing.command.max
      BY DEF Leading
    <2> QED
      BY <2>1, <2>2, LenProperties DEF Typed
  <1>6. PICK next : next = hand'.offset
    OBVIOUS
  <1>7. /\ walk' = "going" => /\ page.hasNext /\ next = offset + max
                              /\ hand' = Encode(Scope(listing), next)
                              /\ listing.command.capped => next <= MaxOffset
        /\ walk' = "over" => /\ next = hand.offset /\ hand' = hand
                             /\ \/ ~page.hasNext
                                \/ listing.command.capped /\ offset + max > MaxOffset
        /\ walk' \in {"going", "over"}
    <2>1. NextOffset = offset + max
      BY DEF NextOffset, Holding
    <2>2. MaxOffset \in Nat
      BY LimitsAssumption
    <2> QED
      BY <1>1, <1>5, <1>6, <2>1, <2>2 DEF Noticed, Encode
  <1>8. Typed'
    BY <1>1, <1>2, <1>4, <1>5, <1>6, <1>7 DEF Typed
  <1>9. Leading' /\ Holding'
    BY <1>1, <1>6, <1>7 DEF Leading, Holding, StrayTokensRefused, Typed
  <1>10. ASSUME ~misled, honest \/ (listing.command.method.strict /\ offset <= Len(list))
         PROVE  /\ offset = hand.offset
                /\ Len(page.rows) = IF offset + max < Len(list) THEN max
                                    ELSE IF offset < Len(list) THEN Len(list) - offset
                                                               ELSE 0
                /\ \A i \in 1..Len(page.rows) : Shows(page.rows[i], offset + i)
                /\ page.hasNext <=> offset + max < Len(list)
    BY <1>10 DEF Holding, PageTrue, Leading
  <1>11. Prefixed'
    <2> SUFFICES ASSUME Undisturbed, honest \/ listing.command.method.strict
                 PROVE  /\ Len(kept) <= Len(list)
                        /\ \A i \in 1..Len(kept) : Shows(kept[i], i)
                        /\ walk' = "going" => next = Len(kept)
                        /\ walk' = "over" =>
                             \/ Len(kept) = Len(list)
                             \/ listing.command.capped /\ Len(kept) > MaxOffset
      BY <1>1, <1>2, <1>6 DEF Prefixed, Undisturbed, Shows
    <2>1. /\ hand.offset = Len(collected) /\ Len(collected) <= Len(list)
          /\ \A i \in 1..Len(collected) : Shows(collected[i], i)
      BY <1>1 DEF Prefixed
    <2>2. ~misled /\ offset = hand.offset
      BY DEF Undisturbed, Leading
    <2>3. Len(kept) <= Len(list)
      BY <1>4, <1>5, <1>10, <2>1, <2>2
    <2>4. ASSUME NEW i \in 1..Len(kept) PROVE Shows(kept[i], i)
      <3>1. CASE i \in 1..Len(collected)
        BY <1>4, <2>1, <3>1
      <3>2. CASE \E j \in 1..Len(page.rows) : i = Len(collected) + j
        <4>1. PICK j \in 1..Len(page.rows) : i = Len(collected) + j
          BY <3>2
        <4>2. kept[i] = page.rows[j]
          BY <1>4, <4>1
        <4>3. Shows(page.rows[j], offset + j)
          BY <1>10, <2>1, <2>2
        <4>4. offset + j = i
          BY <2>1, <2>2, <4>1
        <4> QED
          BY <4>2, <4>3, <4>4
      <3> QED
        BY <1>4, <3>1, <3>2
    <2>5. walk' = "going" => next = Len(kept)
      BY <1>4, <1>5, <1>7, <1>10, <2>1, <2>2
    <2>6. ASSUME walk' = "over"
          PROVE  \/ Len(kept) = Len(list)
                 \/ listing.command.capped /\ Len(kept) > MaxOffset
      <3>1. \/ ~page.hasNext
            \/ page.hasNext /\ listing.command.capped /\ offset + max > MaxOffset
        BY <1>7, <2>6
      <3>2. CASE ~page.hasNext
        <4>1. ~(offset + max < Len(list))
          BY <1>10, <2>1, <2>2, <3>2
        <4>2. Len(page.rows) = IF offset < Len(list) THEN Len(list) - offset ELSE 0
          BY <1>10, <2>1, <2>2, <4>1
        <4> QED
          BY <1>4, <1>5, <2>1, <2>2, <4>2
      <3>3. CASE page.hasNext /\ listing.command.capped /\ offset + max > MaxOffset
        <4>1. offset + max < Len(list)
          BY <1>10, <2>1, <2>2, <3>3
        <4>2. Len(page.rows) = max
          BY <1>10, <2>1, <2>2, <4>1
        <4> QED
          BY <1>4, <1>5, <2>1, <2>2, <3>3, <4>2
      <3> QED
        BY <3>1, <3>2, <3>3
    <2> QED
      BY <2>3, <2>4, <2>5, <2>6
  <1>12. NoneSkipped'
    <2> SUFFICES ASSUME Reliable, edited \subseteq {"insert"}, NEW e \in 1..initial
                 PROVE  /\ walk' = "going" => Kept(e)' \/ Ahead(e)'
                        /\ walk' = "over" /\ ~listing.command.capped => Kept(e)'
      BY <1>1 DEF NoneSkipped, Reliable
    <2>1. /\ offset = hand.offset
          /\ Len(page.rows) = IF offset + max < Len(list) THEN max
                              ELSE IF offset < Len(list) THEN Len(list) - offset ELSE 0
          /\ \A i \in 1..Len(page.rows) : page.rows[i].entry = list[offset + i]
          /\ page.hasNext <=> offset + max < Len(list)
      <3>1. /\ Len(page.rows) = IF offset + max < Len(list) THEN max
                                ELSE IF offset < Len(list) THEN Len(list) - offset
                                                           ELSE 0
            /\ offset = hand.offset
            /\ page.hasNext <=> offset + max < Len(list)
        BY <1>10 DEF Reliable
      <3>2. \A i \in 1..Len(page.rows) : Shows(page.rows[i], offset + i)
        BY <1>10 DEF Reliable
      <3>3. \A i \in 1..Len(page.rows) : page.rows[i].entry = list[offset + i]
        BY <3>2 DEF Shows, Reliable
      <3> QED
        BY <3>1, <3>3
    <2>2. Kept(e) \/ Ahead(e)
      BY <1>1 DEF NoneSkipped
    <2>3. ASSUME NEW j \in 1..Len(kept), kept[j].entry = e PROVE Kept(e)'
      BY <1>2, <2>3 DEF Kept
    <2>4. CASE Kept(e)
      <3>1. PICK j \in 1..Len(collected) : collected[j].entry = e
        BY <2>4 DEF Kept
      <3>2. j \in 1..Len(kept) /\ kept[j].entry = e
        BY <1>4, <3>1
      <3> QED
        BY <2>3, <3>2
    <2>5. CASE Ahead(e)
      <3>1. PICK k \in 1..Len(list) : k > offset /\ list[k] = e
        BY <2>1, <2>5 DEF Ahead
      <3>2. CASE k <= offset + Len(page.rows)
        <4>1. PICK j : j = k - offset
          OBVIOUS
        <4>2. j \in 1..Len(page.rows) /\ offset + j = k
          BY <1>4, <1>5, <3>1, <3>2, <4>1
        <4>3. kept[Len(collected) + j] = page.rows[j] /\ page.rows[j].entry = e
          BY <1>4, <2>1, <3>1, <4>2
        <4>4. Len(collected) + j \in 1..Len(kept)
          BY <1>4, <4>2
        <4> QED
          BY <2>3, <4>3, <4>4
      <3>3. CASE k > offset + Len(page.rows)
        <4>1. k > offset + max /\ page.hasNext
          BY <1>4, <1>5, <2>1, <3>1, <3>3
        <4>2. walk' = "going" => Ahead(e)'
          BY <1>1, <1>6, <1>7, <3>1, <4>1 DEF Ahead
        <4> QED
          BY <1>7, <4>1, <4>2
      <3> QED
        BY <1>4, <1>5, <3>1, <3>2, <3>3
    <2> QED
      BY <2>2, <2>4, <2>5
  <1>13. NoneRepeated'
    <2> SUFFICES ASSUME Reliable, edited \subseteq {"remove"}
                 PROVE  /\ \A j, k \in 1..Len(kept) :
                             kept[j].entry = kept[k].entry => j = k
                        /\ \A j, k \in 1..Len(list) : list[j] = list[k] => j = k
                        /\ walk' = "going" =>
                             \A j \in 1..Len(kept), k \in 1..Len(list) :
                               k > next => list[k] # kept[j].entry
      BY <1>1, <1>2, <1>6 DEF NoneRepeated, Reliable, Ahead
    <2>1. /\ offset = hand.offset
          /\ Len(page.rows) = IF offset + max < Len(list) THEN max
                              ELSE IF offset < Len(list) THEN Len(list) - offset ELSE 0
          /\ \A i \in 1..Len(page.rows) : page.rows[i].entry = list[offset + i]
          /\ page.hasNext <=> offset + max < Len(list)
      <3>1. /\ Len(page.rows) = IF offset + max < Len(list) THEN max
                                ELSE IF offset < Len(list) THEN Len(list) - offset
                                                           ELSE 0
            /\ offset = hand.offset
            /\ page.hasNext <=> offset + max < Len(list)
        BY <1>10 DEF Reliable
      <3>2. \A i \in 1..Len(page.rows) : Shows(page.rows[i], offset + i)
        BY <1>10 DEF Reliable
      <3>3. \A i \in 1..Len(page.rows) : page.rows[i].entry = list[offset + i]
        BY <3>2 DEF Shows, Reliable
      <3> QED
        BY <3>1, <3>3
    <2>2. /\ \A j, k \in 1..Len(collected) :
               collected[j].entry = collected[k].entry => j = k
          /\ \A j, k \in 1..Len(list) : list[j] = list[k] => j = k
          /\ \A j \in 1..Len(collected), k \in 1..Len(list) :
               k > offset => list[k] # collected[j].entry
      BY <1>1, <2>1 DEF NoneRepeated, Ahead
    <2>3. \A i \in 1..Len(page.rows) :
            /\ offset + i \in 1..Len(list) /\ offset + i > offset
            /\ offset + i <= offset + max
            /\ kept[Len(collected) + i].entry = list[offset + i]
      <3> SUFFICES ASSUME NEW i \in 1..Len(page.rows)
                   PROVE  /\ offset + i \in 1..Len(list) /\ offset + i > offset
                          /\ offset + i <= offset + max
                          /\ kept[Len(collected) + i].entry = list[offset + i]
        OBVIOUS
      <3>1. kept[Len(collected) + i] = page.rows[i]
            /\ page.rows[i].entry = list[offset + i]
        BY <1>4, <2>1
      <3>2. i <= max /\ offset + i <= Len(list)
        <4>1. PICK n : n = Len(page.rows)
          OBVIOUS
        <4>2. /\ n \in Nat /\ i \in 1..n
              /\ n = IF offset + max < Len(list) THEN max
                     ELSE IF offset < Len(list) THEN Len(list) - offset ELSE 0
          BY <1>4, <2>1, <4>1
        <4> QED
          BY <1>5, <4>2
      <3> QED
        BY <1>4, <1>5, <3>1, <3>2
    <2>4. ASSUME NEW j \in 1..Len(kept), NEW k \in 1..Len(kept),
                 kept[j].entry = kept[k].entry
          PROVE  j = k
      <3>1. CASE j \in 1..Len(collected) /\ k \in 1..Len(collected)
        BY <1>4, <2>2, <2>4, <3>1
      <3>2. ASSUME NEW a \in 1..Len(collected), NEW i \in 1..Len(page.rows)
            PROVE  kept[a].entry # kept[Len(collected) + i].entry
        <4>1. kept[a] = collected[a] /\ list[offset + i] # collected[a].entry
          BY <1>4, <2>2, <2>3
        <4> QED
          BY <2>3, <4>1
      <3>3. ASSUME NEW a \in 1..Len(page.rows), NEW i \in 1..Len(page.rows),
                   kept[Len(collected) + a].entry = kept[Len(collected) + i].entry
            PROVE  a = i
        <4>1. offset + a = offset + i
          BY <2>2, <2>3, <3>3
        <4> QED
          BY <1>5, <4>1
      <3>4. CASE j \in 1..Len(collected) /\ k \notin 1..Len(collected)
        <4>1. PICK i \in 1..Len(page.rows) : k = Len(collected) + i
          BY <1>4, <3>4
        <4> QED
          BY <2>4, <3>2, <3>4, <4>1
      <3>5. CASE j \notin 1..Len(collected) /\ k \in 1..Len(collected)
        <4>1. PICK i \in 1..Len(page.rows) : j = Len(collected) + i
          BY <1>4, <3>5
        <4> QED
          BY <2>4, <3>2, <3>5, <4>1
      <3>6. CASE j \notin 1..Len(collected) /\ k \notin 1..Len(collected)
        <4>1. PICK i \in 1..Len(page.rows) : j = Len(collected) + i
          BY <1>4, <3>6
        <4>2. PICK a \in 1..Len(page.rows) : k = Len(collected) + a
          BY <1>4, <3>6
        <4> QED
          BY <2>4, <3>3, <4>1, <4>2
      <3> QED
        BY <3>1, <3>4, <3>5, <3>6
    <2>5. ASSUME walk' = "going", NEW j \in 1..Len(kept), NEW k \in 1..Len(list), k > next
          PROVE  list[k] # kept[j].entry
      <3>1. k > offset + max /\ k > offset
        BY <1>5, <1>7, <2>5
      <3>2. CASE j \in 1..Len(collected)
        BY <1>4, <2>2, <3>1, <3>2
      <3>3. CASE \E i \in 1..Len(page.rows) : j = Len(collected) + i
        <4>1. PICK i \in 1..Len(page.rows) : j = Len(collected) + i
          BY <3>3
        <4>2. offset + i # k
          BY <1>5, <2>3, <3>1
        <4> QED
          BY <2>2, <2>3, <4>1, <4>2
      <3> QED
        BY <1>4, <3>2, <3>3
    <2> QED
      BY <2>2, <2>4, <2>5
  <1> QED
    BY <1>8, <1>9, <1>11, <1>12, <1>13

\* Rows and notice are written, and the script keeps them or not yet.
LEMMA WritePreserves ==
    ASSUME WalkInv, WriteRows \/ WriteNotice
    PROVE  WalkInv'
  <1> USE DEF WalkInv
  <1>1. CASE WriteRows /\ Noticed
    <2>1. /\ UNCHANGED <<world, script, max, offset, page, edits, edited, honest,
                       misled>>
          /\ place = "stdout" /\ place' = "stderr"
      BY <1>1 DEF WriteRows, history
    <2>2. UNCHANGED listing /\ Noticed' /\ PageTrue' = PageTrue
      BY <1>1, <2>1 DEF Noticed, NextOffset, PageTrue, Shows, world
    <2>3. Typed' /\ Leading' /\ Holding'
      BY <2>1, <2>2 DEF Typed, Leading, Holding, StrayTokensRefused, world, script
    <2> QED
      BY <2>1, <2>3, WalkKept
  <1>2. CASE WriteRows /\ ~Noticed
    BY <1>2, KeepPreserves DEF WriteRows
  <1>3. CASE WriteNotice
    <2>1. Noticed
      BY <1>3 DEF WriteNotice, Holding
    <2> QED
      BY <1>3, <2>1, KeepPreserves DEF WriteNotice
  <1> QED
    BY <1>1, <1>2, <1>3

------------------------------------------------------------------------------
(* Others *)

\* What stood in a list before an insertion stands in it afterwards, not earlier.
LEMMA InsertionKeeps ==
    ASSUME NEW s \in Seq(Nat), NEW i \in 1..(Len(s) + 1), NEW x \in Nat, NEW t,
           t = InsertAt(s, i, x)
    PROVE  /\ t \in Seq(Nat)
           /\ \A k \in 1..Len(s) : \E j \in 1..Len(t) : j >= k /\ t[j] = s[k]
  <1>1. Len(s) \in Nat /\ \A k \in 1..Len(s) : s[k] \in Nat
    BY LenProperties, ElementOfSeq
  <1>2. PICK before : before = SubSeq(s, 1, i - 1)
    OBVIOUS
  <1>3. PICK after : after = SubSeq(s, i, Len(s))
    OBVIOUS
  <1>4. t = (before \o <<x>>) \o after
    BY <1>2, <1>3 DEF InsertAt
  <1>5. /\ before \in Seq(Nat) /\ Len(before) = i - 1
        /\ \A k \in 1..(i - 1) : before[k] = s[k]
    <2>1. \A k \in 1..(i - 1) : s[k] \in Nat
      BY <1>1
    <2> QED
      BY <1>1, <1>2, <2>1, SubSeqProperties
  <1>6. /\ after \in Seq(Nat) /\ Len(after) = Len(s) - i + 1
        /\ \A k \in 1..(Len(s) - i + 1) : after[k] = s[i + k - 1]
    <2>1. \A k \in i..Len(s) : s[k] \in Nat
      BY <1>1
    <2> QED
      BY <1>1, <1>3, <2>1, SubSeqProperties
  <1>7. PICK b : b = before \o <<x>>
    OBVIOUS
  <1>8. /\ b \in Seq(Nat) /\ Len(b) = i /\ \A k \in 1..(i - 1) : b[k] = s[k]
    <2>1. b = Append(before, x)
      BY <1>5, <1>7, AppendIsConcat
    <2> QED
      BY <1>5, <2>1, AppendProperties
  <1>9. /\ t \in Seq(Nat) /\ Len(t) = Len(s) + 1
        /\ \A k \in 1..(i - 1) : t[k] = s[k]
        /\ \A k \in i..Len(s) : t[k + 1] = s[k]
    <2>1. t = b \o after
      BY <1>4, <1>7
    <2>2. /\ t \in Seq(Nat) /\ Len(t) = i + (Len(s) - i + 1)
          /\ \A k \in 1..(i + (Len(s) - i + 1)) :
               t[k] = IF k <= i THEN b[k] ELSE after[k - i]
      <3>1. /\ t \in Seq(Nat) /\ Len(t) = Len(b) + Len(after)
            /\ \A k \in 1..(Len(b) + Len(after)) :
                 t[k] = IF k <= Len(b) THEN b[k] ELSE after[k - Len(b)]
        <4>1. b \in Seq(Nat) /\ after \in Seq(Nat)
          BY <1>6, <1>8
        <4> QED
          BY <2>1, <4>1, ConcatProperties
      <3> QED
        BY <1>6, <1>8, <3>1
    <2>3. \A k \in 1..(i - 1) : t[k] = s[k]
      BY <1>1, <1>8, <2>2
    <2>4. ASSUME NEW k \in i..Len(s) PROVE t[k + 1] = s[k]
      <3>1. k + 1 \in 1..(i + (Len(s) - i + 1)) /\ ~(k + 1 <= i)
            /\ k + 1 - i \in 1..(Len(s) - i + 1) /\ i + (k + 1 - i) - 1 = k
        BY <1>1
      <3>2. t[k + 1] = after[k + 1 - i]
        <4>1. PICK m : m = k + 1
          OBVIOUS
        <4>2. m \in 1..(i + (Len(s) - i + 1)) /\ ~(m <= i)
          BY <3>1, <4>1
        <4>3. t[m] = after[m - i]
          BY <2>2, <4>2
        <4> QED
          BY <4>1, <4>3
      <3>3. after[k + 1 - i] = s[i + (k + 1 - i) - 1]
        BY <1>6, <3>1
      <3> QED
        BY <3>1, <3>2, <3>3
    <2> QED
      BY <1>1, <2>2, <2>3, <2>4
  <1>10. ASSUME NEW k \in 1..Len(s) PROVE \E j \in 1..Len(t) : j >= k /\ t[j] = s[k]
    <2>1. CASE k < i
      BY <1>1, <1>9, <2>1
    <2>2. CASE k >= i
      <3>1. k + 1 \in 1..Len(t) /\ k + 1 >= k /\ t[k + 1] = s[k]
        BY <1>1, <1>9, <2>2
      <3> QED
        BY <3>1
    <2> QED
      BY <1>1, <2>1, <2>2
  <1> QED
    BY <1>9, <1>10

\* What stands in a list after a removal stood in it before, not earlier, and what
\* stands in different places did.
LEMMA RemovalKeeps ==
    ASSUME NEW s \in Seq(Nat), NEW i \in 1..Len(s), NEW t, t = RemoveAt(s, i)
    PROVE  /\ t \in Seq(Nat) /\ Len(t) = Len(s) - 1
           /\ \A k \in 1..Len(t) : t[k] = s[IF k < i THEN k ELSE k + 1]
  <1>1. Len(s) \in Nat /\ \A k \in 1..Len(s) : s[k] \in Nat
    BY LenProperties, ElementOfSeq
  <1>2. PICK before : before = SubSeq(s, 1, i - 1)
    OBVIOUS
  <1>3. PICK after : after = SubSeq(s, i + 1, Len(s))
    OBVIOUS
  <1>4. t = before \o after
    BY <1>2, <1>3 DEF RemoveAt
  <1>5. /\ before \in Seq(Nat) /\ Len(before) = i - 1
        /\ \A k \in 1..(i - 1) : before[k] = s[k]
    <2>1. \A k \in 1..(i - 1) : s[k] \in Nat
      BY <1>1
    <2> QED
      BY <1>1, <1>2, <2>1, SubSeqProperties
  <1>6. /\ after \in Seq(Nat) /\ Len(after) = Len(s) - i
        /\ \A k \in 1..(Len(s) - i) : after[k] = s[i + k]
    <2>1. \A k \in (i + 1)..Len(s) : s[k] \in Nat
      BY <1>1
    <2>2. /\ after \in Seq(Nat)
          /\ Len(after) = IF i + 1 <= Len(s) THEN Len(s) - (i + 1) + 1 ELSE 0
          /\ \A k \in 1..(Len(s) - (i + 1) + 1) : after[k] = s[(i + 1) + k - 1]
      BY <1>1, <1>3, <2>1, SubSeqProperties
    <2>3. ASSUME NEW k \in 1..(Len(s) - i) PROVE after[k] = s[i + k]
      <3>1. k \in 1..(Len(s) - (i + 1) + 1) /\ (i + 1) + k - 1 = i + k
        BY <1>1
      <3> QED
        BY <2>2, <3>1
    <2> QED
      BY <1>1, <2>2, <2>3
  <1>7. /\ t \in Seq(Nat) /\ Len(t) = (i - 1) + (Len(s) - i)
        /\ \A k \in 1..((i - 1) + (Len(s) - i)) :
             t[k] = IF k <= i - 1 THEN before[k] ELSE after[k - (i - 1)]
    <2>1. /\ t \in Seq(Nat) /\ Len(t) = Len(before) + Len(after)
          /\ \A k \in 1..(Len(before) + Len(after)) :
               t[k] = IF k <= Len(before) THEN before[k] ELSE after[k - Len(before)]
      <3>1. before \in Seq(Nat) /\ after \in Seq(Nat)
        BY <1>5, <1>6
      <3> QED
        BY <1>4, <3>1, ConcatProperties
    <2> QED
      BY <1>5, <1>6, <2>1
  <1>8. ASSUME NEW k \in 1..Len(t) PROVE t[k] = s[IF k < i THEN k ELSE k + 1]
    <2>1. CASE k < i
      BY <1>1, <1>5, <1>7, <2>1
    <2>2. CASE k >= i
      <3>1. k - (i - 1) \in 1..(Len(s) - i) /\ i + (k - (i - 1)) = k + 1 /\ ~(k <= i - 1)
            /\ k \in 1..((i - 1) + (Len(s) - i)) /\ ~(k < i)
        BY <1>1, <1>7, <2>2
      <3> QED
        BY <1>6, <1>7, <3>1
    <2> QED
      BY <1>1, <1>7, <2>1, <2>2
  <1> QED
    BY <1>1, <1>7, <1>8

\* Somebody else inserts an entry or removes one while a page is asked for.
LEMMA OthersPreserve ==
    ASSUME WalkInv, OthersInsert \/ OthersRemove
    PROVE  WalkInv'
  <1> USE DEF WalkInv
  <1>1. /\ UNCHANGED <<listing, initial, hand, collected, walk, place, max, offset,
                       page, honest, misled>>
        /\ place = "read" /\ walk = "going" /\ edits \in Nat /\ edits' = edits + 1
    BY DEF OthersInsert, OthersRemove, Edit, script, command, Typed, Leading
  <1>2. list \in Seq(Nat) /\ Len(list) \in Nat /\ hand.offset \in Nat
    BY LenProperties DEF Typed
  <1>3. Leading' /\ Holding'
    BY <1>1 DEF Leading, Holding, StrayTokensRefused
  <1>4. PICK new : new = list'
    OBVIOUS
  <1>5. CASE OthersInsert
    <2>1. PICK i \in 1..(Len(list) + 1) :
            list' = InsertAt(list, i, MaxInitial + edits + 1)
      BY <1>5 DEF OthersInsert, Edit
    <2>2. edited' = edited \cup {"insert"}
      BY <1>5 DEF OthersInsert, Edit
    <2>3. MaxInitial + edits + 1 \in Nat
      BY <1>1, BoundsAssumption
    <2>4. /\ new \in Seq(Nat)
          /\ \A k \in 1..Len(list) : \E j \in 1..Len(new) : j >= k /\ new[j] = list[k]
      <3>1. new = InsertAt(list, i, MaxInitial + edits + 1)
        BY <1>4, <2>1
      <3> QED
        <4>1. PICK s, x : s = list /\ x = MaxInitial + edits + 1
          OBVIOUS
        <4>2. s \in Seq(Nat) /\ i \in 1..(Len(s) + 1) /\ x \in Nat
              /\ new = InsertAt(s, i, x)
          BY <1>2, <2>3, <3>1, <4>1
        <4>3. /\ new \in Seq(Nat)
              /\ \A k \in 1..Len(s) : \E j \in 1..Len(new) : j >= k /\ new[j] = s[k]
          BY ONLY <4>2, InsertionKeeps
        <4> QED
          BY <4>1, <4>3
    <2>5. Typed'
      BY <1>1, <1>4, <2>4 DEF Typed
    <2>6. Prefixed' /\ NoneRepeated'
      BY <1>1, <2>2 DEF Prefixed, NoneRepeated, Undisturbed
    <2>7. NoneSkipped'
      <3> SUFFICES ASSUME Reliable, edited \subseteq {"insert"}, NEW e \in 1..initial
                   PROVE  Kept(e)' \/ Ahead(e)'
        BY <1>1, <2>2 DEF NoneSkipped, Reliable
      <3>1. CASE Kept(e)
        BY <1>1, <3>1 DEF Kept
      <3>2. CASE Ahead(e)
        <4>1. PICK k \in 1..Len(list) : k > hand.offset /\ list[k] = e
          BY <3>2 DEF Ahead
        <4>2. PICK j \in 1..Len(new) : j >= k /\ new[j] = e
          BY <2>4, <4>1
        <4>3. j > hand.offset
          BY <1>2, <2>4, <4>1, <4>2, LenProperties
        <4> QED
          BY <1>1, <1>4, <4>2, <4>3 DEF Ahead
      <3> QED
        BY <1>1, <3>1, <3>2 DEF NoneSkipped
    <2> QED
      BY <1>3, <2>5, <2>6, <2>7
  <1>6. CASE OthersRemove
    <2>1. PICK i \in DOMAIN list : list' = RemoveAt(list, i)
      BY <1>6 DEF OthersRemove, Edit
    <2>2. edited' = edited \cup {"remove"}
      BY <1>6 DEF OthersRemove, Edit
    <2>3. i \in 1..Len(list)
      BY <1>2, LenProperties
    <2>4. /\ new \in Seq(Nat) /\ Len(new) = Len(list) - 1
          /\ \A k \in 1..Len(new) : new[k] = list[IF k < i THEN k ELSE k + 1]
      BY <1>2, <1>4, <2>1, <2>3, RemovalKeeps
    <2>5. Typed'
      BY <1>1, <1>4, <2>4 DEF Typed
    <2>6. Prefixed' /\ NoneSkipped'
      BY <1>1, <2>2 DEF Prefixed, NoneSkipped, Undisturbed
    <2>7. NoneRepeated'
      <3> SUFFICES ASSUME Reliable, edited \subseteq {"remove"}
                   PROVE  /\ \A j, k \in 1..Len(new) : new[j] = new[k] => j = k
                          /\ \A j \in 1..Len(collected), k \in 1..Len(new) :
                               k > hand.offset => new[k] # collected[j].entry
        BY <1>1, <1>4, <2>2 DEF NoneRepeated, Reliable, Ahead
      <3>1. /\ \A j, k \in 1..Len(list) : list[j] = list[k] => j = k
            /\ \A j \in 1..Len(collected), k \in 1..Len(list) :
                 k > hand.offset => list[k] # collected[j].entry
        BY <1>1 DEF NoneRepeated, Ahead
      <3>2. \A k \in 1..Len(new) : /\ k \in 1..Len(list) /\ k + 1 \in 1..Len(list)
                                   /\ new[k] = list[IF k < i THEN k ELSE k + 1]
        <4> SUFFICES ASSUME NEW k \in 1..Len(new)
                     PROVE  /\ k \in 1..Len(list) /\ k + 1 \in 1..Len(list)
                            /\ new[k] = list[IF k < i THEN k ELSE k + 1]
          OBVIOUS
        <4>1. k \in 1..(Len(list) - 1)
          BY <2>4
        <4>2. k \in 1..Len(list) /\ k + 1 \in 1..Len(list)
          BY <1>2, <4>1
        <4> QED
          BY <2>4, <4>2
      <3>3. ASSUME NEW j \in 1..Len(new), NEW k \in 1..Len(new), new[j] = new[k]
            PROVE  j = k
        <4>1. (IF j < i THEN j ELSE j + 1) = (IF k < i THEN k ELSE k + 1)
          BY <3>1, <3>2, <3>3
        <4>2. j \in Int /\ k \in Int /\ i \in Int
          BY <2>3
        <4> QED
          BY <4>1, <4>2
      <3>4. ASSUME NEW j \in 1..Len(collected), NEW k \in 1..Len(new), k > hand.offset
            PROVE  new[k] # collected[j].entry
        <4>1. PICK m : m = IF k < i THEN k ELSE k + 1
          OBVIOUS
        <4>2. m \in 1..Len(list) /\ m > hand.offset /\ new[k] = list[m]
          <5>1. /\ k \in 1..Len(list) /\ k + 1 \in 1..Len(list)
                /\ new[k] = list[IF k < i THEN k ELSE k + 1]
            BY <3>2
          <5> QED
            BY <1>2, <2>3, <3>4, <4>1, <5>1
        <4> QED
          BY <3>1, <4>2
      <3> QED
        BY <3>3, <3>4
    <2> QED
      BY <1>3, <2>5, <2>6, <2>7
  <1> QED
    BY <1>5, <1>6

------------------------------------------------------------------------------

\* Every step of command, script and others keeps the invariant.
LEMMA WalkNextPreserves == WalkInv /\ [WalkNext]_walkVars => WalkInv'
  <1> SUFFICES ASSUME WalkInv, [WalkNext]_walkVars PROVE WalkInv'
    OBVIOUS
  <1>1. CASE WalkOver \/ UNCHANGED walkVars
    <2>1. /\ UNCHANGED <<world, script, place, max, offset, page, edits, edited,
                         honest, misled>>
      BY <1>1 DEF WalkOver, walkVars, command, history
    <2>2. Typed' /\ Leading'
      BY <2>1 DEF WalkInv, Typed, Leading, StrayTokensRefused, world, script
    <2>3. Holding'
      BY <2>1 DEF WalkInv, Holding, PageTrue, Shows, Noticed, NextOffset, world
    <2> QED
      BY <2>1, <2>2, <2>3, WalkKept DEF WalkInv
  <1> QED
    BY <1>1, InvokePreserves, RequestPreserves, WritePreserves, OthersPreserve
       DEF WalkNext, Progress, Trouble

\* The invariant holds of every walk.
THEOREM WalkInvariance == WalkSpec => []WalkInv
  BY WalkInitInv, WalkNextPreserves, PTL DEF WalkSpec

\* pagetoken and the two tests of a search's offset: a token leads on where it was
\* given, with any --max, and to no other listing.
THEOREM TokensLead == WalkSpec => []TokensLeadOn
  <1>1. WalkInv => TokensLeadOn
    <2> SUFFICES ASSUME WalkInv PROVE TokensLeadOn
      OBVIOUS
    <2>1. \A m \in 1..listing.command.max : Accepts(m, hand) # {}
      BY HandAccepted DEF WalkInv
    <2> QED
      BY <2>1 DEF WalkInv, Leading, TokensLeadOn, TokensStayUsable
  <1> QED
    BY <1>1, WalkInvariance, PTL

\* The pages of a list nobody changes join, and those of a playlist's items do whatever
\* the service answers, with an item at most shown as unavailable.
THEOREM PagesAreJoined == WalkSpec => []PagesJoin
  <1>1. WalkInv => PagesJoin
    <2> SUFFICES ASSUME WalkInv PROVE PagesJoin
      OBVIOUS
    <2>1. DOMAIN collected = 1..Len(collected)
      BY LenProperties DEF WalkInv, Typed
    <2> QED
      BY <2>1 DEF WalkInv, Prefixed, PagesJoin
  <1> QED
    BY <1>1, WalkInvariance, PTL

\* Insertions make rows come twice and removals make rows be skipped, never the other
\* way round.
THEOREM ShiftsOneWay == WalkSpec => []EditsShiftOneWay
  <1>1. WalkInv => EditsShiftOneWay
    <2> SUFFICES ASSUME WalkInv PROVE EditsShiftOneWay
      OBVIOUS
    <2>1. DOMAIN collected = 1..Len(collected) /\ Len(collected) \in Nat
      BY LenProperties DEF WalkInv, Typed
    <2>2. NothingSkippedByInserts
      BY <2>1 DEF WalkInv, NoneSkipped, Kept, NothingSkippedByInserts,
                   CollectedEntries
    <2>3. NothingRepeatedByRemovals
      <3> SUFFICES ASSUME Reliable, edited \subseteq {"remove"}
                   PROVE  Cardinality(CollectedEntries) = Len(collected)
        BY DEF NothingRepeatedByRemovals
      <3>1. \A j, k \in 1..Len(collected) :
              collected[j].entry = collected[k].entry => j = k
        BY DEF WalkInv, NoneRepeated
      <3>2. PICK f : f = [j \in 1..Len(collected) |-> collected[j].entry]
        OBVIOUS
      <3>3. CollectedEntries = {f[j] : j \in 1..Len(collected)}
        BY <2>1, <3>2 DEF CollectedEntries
      <3>4. f \in Surjection(1..Len(collected), CollectedEntries)
        BY <3>2, <3>3 DEF Surjection
      <3>5. f \in Injection(1..Len(collected), CollectedEntries)
        BY <3>1, <3>2, <3>3 DEF Injection, IsInjective
      <3>6. IsFiniteSet(1..Len(collected))
            /\ Cardinality(1..Len(collected)) = Len(collected)
        <4>1. PICK n : n = Len(collected)
          OBVIOUS
        <4>2. n \in Nat /\ 1 \in Int /\ n \in Int
          BY <2>1, <4>1
        <4>3. IsFiniteSet(1..n) /\ Cardinality(1..n) = IF 1 > n THEN 0 ELSE n - 1 + 1
          BY <4>2, FS_Interval
        <4>4. Cardinality(1..n) = n
          BY <4>2, <4>3
        <4> QED
          BY <4>1, <4>3, <4>4
      <3>7. Cardinality(CollectedEntries) = Len(collected)
        BY <3>4, <3>5, <3>6, FS_Surjection
      <3> QED
        BY <3>7 DEF Cardinality, Cardinality
    <2> QED
      BY <2>2, <2>3 DEF EditsShiftOneWay
  <1> QED
    BY <1>1, WalkInvariance, PTL

------------------------------------------------------------------------------
(* The types of a walk *)

\* Entries of the list, and what a row may have for one
Entries == 1..(MaxInitial + MaxEdits)
Shownable == OddRows \cup Entries

\* The page held: its rows fit the --max they were asked for with.
PageTyped ==
    /\ page.rows \in Seq(Rows)
    /\ page.offset \in Nat /\ page.limit \in 0..listing.command.max
    /\ Len(page.rows) <= page.limit /\ page.hasNext \in BOOLEAN

\* What the script and the command have
CommandTyped ==
    /\ listing \in Walked /\ initial \in 0..MaxInitial
    /\ hand \in Tokens /\ collected \in Seq(Rows)
    /\ max \in 0..listing.command.max
    /\ outcome \in {"none", "ok", "usage", "config", "upstream", "generic"}
    /\ faults \in 0..MaxFaults /\ honest \in BOOLEAN /\ misled \in BOOLEAN

\* What others change
ListTyped ==
    /\ list \in Seq(Entries)
    /\ edits \in 0..MaxEdits /\ edited \subseteq {"insert", "remove"}

RestTyped == PageTyped /\ CommandTyped /\ ListTyped

\* A sequence with an element put in, taken out or replaced, whatever it is one of
LEMMA EditedTyped ==
    ASSUME NEW V, NEW s \in Seq(V), NEW i \in Nat, NEW x \in V
    PROVE  /\ i \in 1..(Len(s) + 1) => InsertAt(s, i, x) \in Seq(V)
           /\ i \in 1..Len(s) => RemoveAt(s, i) \in Seq(V)
  <1>1. Len(s) \in Nat /\ \A k \in 1..Len(s) : s[k] \in V
    BY LenProperties, ElementOfSeq
  <1>2. \A m \in Nat, n \in Nat : m >= 1 /\ n <= Len(s) => SubSeq(s, m, n) \in Seq(V)
    <2> SUFFICES ASSUME NEW m \in Nat, NEW n \in Nat, m >= 1, n <= Len(s)
                 PROVE  SubSeq(s, m, n) \in Seq(V)
      OBVIOUS
    <2>1. \A k \in m..n : s[k] \in V
      BY <1>1
    <2> QED
      BY <2>1, SubSeqProperties
  <1>3. ASSUME i \in 1..(Len(s) + 1) PROVE InsertAt(s, i, x) \in Seq(V)
    <2>1. SubSeq(s, 1, i - 1) \in Seq(V) /\ SubSeq(s, i, Len(s)) \in Seq(V)
      BY <1>1, <1>2, <1>3
    <2>2. <<x>> \in Seq(V)
      OBVIOUS
    <2>3. SubSeq(s, 1, i - 1) \o <<x>> \in Seq(V)
      BY <2>1, <2>2, ConcatProperties
    <2> QED
      BY <2>1, <2>3, ConcatProperties DEF InsertAt
  <1>4. ASSUME i \in 1..Len(s) PROVE RemoveAt(s, i) \in Seq(V)
    <2>1. SubSeq(s, 1, i - 1) \in Seq(V) /\ SubSeq(s, i + 1, Len(s)) \in Seq(V)
      BY <1>1, <1>2, <1>4
    <2> QED
      BY <2>1, ConcatProperties DEF RemoveAt
  <1> QED
    BY <1>3, <1>4

\* An answer that is off has a row less or more, or another one, than an honest one,
\* and says whether something follows.
LEMMA OddTyped ==
    ASSUME NEW V, Held \in Seq(V), OddRows \subseteq V, NEW answer \in OddAnswers
    PROVE  answer.rows \in Seq(V) /\ answer.next \in BOOLEAN
  <1>1. PICK rows : rows = Held
    OBVIOUS
  <1>2. PICK h : h = HonestAnswer
    OBVIOUS
  <1>3. PICK more \in BOOLEAN : more = (offset + max < Len(list))
    <2>1. (offset + max < Len(list)) \in BOOLEAN
      OBVIOUS
    <2> QED
      BY <2>1, Zenon
  <1>4. h = [offset |-> offset, limit |-> max, present |-> TRUE, rows |-> rows,
             total |-> Len(list), next |-> more]
    BY <1>1, <1>2, <1>3 DEF HonestAnswer
  <1>5. rows \in Seq(V) /\ Len(rows) \in Nat
    BY <1>1, LenProperties
  <1>6. CASE \/ answer = [h EXCEPT !.offset = offset + 1]
             \/ answer = [h EXCEPT !.limit = max - 1]
             \/ answer = [h EXCEPT !.next = ~@]
             \/ answer = [h EXCEPT !.total = @ - 1]
             \/ answer = [h EXCEPT !.total = @ + 1]
    <2>1. answer.rows = rows /\ answer.next \in {more, ~more}
      BY <1>4, <1>6
    <2> QED
      BY <1>3, <1>5, <2>1
  <1>7. CASE answer = [h EXCEPT !.present = FALSE, !.rows = <<>>]
    <2>1. answer.rows = <<>> /\ answer.next = more
      BY <1>4, <1>7
    <2> QED
      BY <1>3, <2>1
  <1>8. CASE \E row \in OddRows : answer = [h EXCEPT !.rows = Append(@, row)]
    <2>1. PICK row \in OddRows : answer = [h EXCEPT !.rows = Append(@, row)]
      BY <1>8
    <2>2. answer.rows = Append(rows, row) /\ answer.next = more
      BY <1>4, <2>1
    <2> QED
      BY <1>3, <1>5, <2>2, AppendProperties
  <1>9. CASE Len(h.rows) > 0 /\ answer = [h EXCEPT !.rows = Front(@)]
    <2>1. answer.rows = SubSeq(rows, 1, Len(rows) - 1) /\ answer.next = more
      BY <1>4, <1>9 DEF Front
    <2>2. \A k \in 1..(Len(rows) - 1) : rows[k] \in V
      BY <1>5, ElementOfSeq
    <2> QED
      BY <1>3, <1>5, <2>1, <2>2, SubSeqProperties
  <1>10. CASE \E i \in 1..Len(h.rows), row \in OddRows :
               answer = [h EXCEPT !.rows[i] = row]
    <2>1. PICK i \in 1..Len(rows), row \in OddRows : answer = [h EXCEPT !.rows[i] = row]
      BY <1>4, <1>10
    <2>2. answer.rows = [rows EXCEPT ![i] = row] /\ answer.next = more
      BY <1>4, <2>1
    <2> QED
      BY <1>3, <1>5, <2>2, ExceptSeq
  <1>11. OffBy(answer, h)
    BY <1>2, OddCases
  <1> QED
    BY <1>6, <1>7, <1>8, <1>9, <1>10, <1>11, Zenon DEF OffBy

\* What the service has of the list from an offset on are entries.
LEMMA HeldTyped ==
    ASSUME Typed, Leading, place = "read", list \in Seq(Entries)
    PROVE  Held \in Seq(Shownable) /\ Len(Held) <= max
  <1>1. PICK rows : rows = Held
    OBVIOUS
  <1>2. /\ max \in Nat /\ rows \in Seq(Nat) /\ Len(rows) \in Nat
        /\ Len(rows) = IF offset + max < Len(list) THEN max
                       ELSE IF offset < Len(list) THEN Len(list) - offset ELSE 0
        /\ \A i \in 1..Len(rows) : rows[i] = list[offset + i]
    BY <1>1, HeldFacts, LenProperties
  <1>3. Len(list) \in Nat /\ offset \in Nat
    BY LenProperties DEF Typed
  <1>4. ASSUME NEW i \in 1..Len(rows) PROVE rows[i] \in Shownable
    <2>1. offset + i \in 1..Len(list)
      BY <1>2, <1>3
    <2>2. list[offset + i] \in Entries
      BY <2>1, ElementOfSeq
    <2> QED
      BY <1>2, <2>2 DEF Shownable
  <1>5. SubSeq(rows, 1, Len(rows)) \in Seq(Shownable)
    BY <1>2, <1>4, SubSeqProperties
  <1>6. SubSeq(rows, 1, Len(rows)) = rows
    BY <1>2, SubSeqFull
  <1> QED
    BY <1>1, <1>2, <1>3, <1>5, <1>6

\* A page that fits is held as such.
LEMMA HoldTyped ==
    ASSUME RestTyped, place = "read", offset \in Nat, NEW answer, Hold(answer),
           max \in 0..listing.command.max, listing.command.max \in Nat,
           answer.offset = offset, answer.limit = max, answer.rows \in Seq(Shownable),
           Len(answer.rows) <= max, answer.next \in BOOLEAN
    PROVE  PageTyped'
  <1> DEFINE row(i) == [entry |-> answer.rows[i], position |-> offset + i - 1]
  <1>1. page' = [rows |-> Shown(answer), offset |-> offset, limit |-> max,
                 hasNext |-> answer.next] /\ listing' = listing
    BY DEF Hold, world
  <1>2. Len(answer.rows) \in Nat /\ DOMAIN answer.rows = 1..Len(answer.rows)
    BY LenProperties
  <1>3. MaxInitial + MaxEdits \in Nat
    BY BoundsAssumption
  <1>4. ASSUME NEW i \in 1..Len(answer.rows) PROVE row(i) \in Rows
    <2>1. answer.rows[i] \in Shownable /\ offset + i - 1 \in Nat
      BY <1>2, ElementOfSeq
    <2> QED
      BY <1>3, <2>1 DEF Rows, Shownable, Entries
  <1>5. Shown(answer) = [i \in 1..Len(answer.rows) |-> row(i)]
    BY <1>2 DEF Shown, PositionShown
  <1> HIDE DEF row
  <1>6. Shown(answer) \in Seq(Rows)
    BY <1>2, <1>4, <1>5, IsASeq
  <1>7. Len(Shown(answer)) = Len(answer.rows)
    BY <1>2, <1>5, <1>6, LenProperties
  <1> QED
    BY <1>1, <1>6, <1>7 DEF PageTyped

\* An empty page has any type a page may have.
LEMMA NoPageTyped == ASSUME page' = NoPage, listing' \in Walked PROVE PageTyped'
  <1>1. listing'.command.max \in Nat
    BY CommandFacts, WalkedAssumption DEF Listings
  <1>2. <<>> \in Seq(Rows) /\ Len(<<>>) = 0
    OBVIOUS
  <1> QED
    BY <1>1, <1>2 DEF NoPage, PageTyped

\* A command that fails leaves only that it did.
LEMMA FailTyped ==
    ASSUME RestTyped, NEW how \in {"usage", "config", "upstream", "generic"},
           FailWith(how), Fault, honest' \in BOOLEAN, misled' \in BOOLEAN
    PROVE  RestTyped'
  <1>1. UNCHANGED <<listing, list, initial, hand, collected, max, edits, edited>>
        /\ outcome' = how /\ page' = NoPage
    BY DEF FailWith, script, world
  <1>2. faults' \in 0..MaxFaults
    BY BoundsAssumption DEF Fault, RestTyped, CommandTyped
  <1>3. PageTyped'
    BY <1>1, NoPageTyped DEF RestTyped, CommandTyped
  <1>4. CommandTyped' /\ ListTyped'
    BY <1>1, <1>2 DEF RestTyped, CommandTyped, ListTyped
  <1> QED
    BY <1>3, <1>4 DEF RestTyped

\* No step changes a type.
LEMMA RestKept == ASSUME WalkInv, RestTyped, [WalkNext]_walkVars PROVE RestTyped'
  <1>1. Typed /\ Leading /\ Holding /\ PageTyped /\ CommandTyped /\ ListTyped
    BY DEF WalkInv, RestTyped
  <1>2. listing.command.max \in Nat
    BY <1>1, CommandFacts DEF Typed, Listings
  <1>3. CASE Invoke
    <2>1. /\ UNCHANGED <<listing, list, initial, hand, collected, page, edits, edited, faults,
                         honest, misled>>
          /\ max' \in 0..listing.command.max /\ outcome' \in {"usage", "none"}
      BY <1>2, <1>3 DEF Invoke, world, script, history
    <2> QED
      BY <1>1, <2>1 DEF RestTyped, PageTyped, CommandTyped, ListTyped
  <1>4. CASE InvokeBadly
    <2>1. PICK m \in 0..(MaxList + 1), token \in {hand} \cup StrayTokens :
            IF Accepts(m, token) = {}
              THEN FailWith("usage") /\ UNCHANGED misled
              ELSE /\ max' = m /\ misled' = TRUE /\ outcome' = "none"
                   /\ UNCHANGED <<page, script, world, edits, edited>>
      BY <1>4 DEF InvokeBadly
    <2>2. Fault /\ UNCHANGED honest
      BY <1>4 DEF InvokeBadly
    <2>3. CASE Accepts(m, token) = {}
      BY <1>1, <2>1, <2>2, <2>3, FailTyped DEF CommandTyped
    <2>4. CASE Accepts(m, token) # {}
      <3>1. m \in 0..listing.command.max
        BY <1>2, <2>4 DEF Accepts
      <3>2. faults' \in 0..MaxFaults
        BY <1>1, <2>2, BoundsAssumption DEF Fault, CommandTyped
      <3> QED
        BY <1>1, <2>1, <2>2, <2>4, <3>1, <3>2
           DEF RestTyped, PageTyped, CommandTyped, ListTyped, world, script
    <2> QED
      BY <2>3, <2>4
  <1>5. CASE OpenFails \/ ReadFails \/ WriteFails
    <2>1. PICK how \in {"config", "upstream", "generic"} : FailWith(how)
      BY <1>5 DEF OpenFails, ReadFails, WriteFails
    <2>2. Fault /\ UNCHANGED <<honest, misled>>
      BY <1>5 DEF OpenFails, ReadFails, WriteFails
    <2> QED
      BY <1>1, <2>1, <2>2, FailTyped DEF CommandTyped, RestTyped
  <1>6. ASSUME place = "read", NEW answer, Hold(answer), answer.offset = offset,
               answer.limit = max, answer.rows \in Seq(Shownable), Len(answer.rows) <= max,
               answer.next \in BOOLEAN, faults' \in 0..MaxFaults, honest' \in BOOLEAN,
               UNCHANGED misled
        PROVE  RestTyped'
    <2>1. UNCHANGED <<listing, list, initial, hand, collected, max, outcome, edits, edited>>
      BY <1>6 DEF Hold, script, world
    <2>2. PageTyped'
      BY <1>1, <1>2, <1>6, HoldTyped DEF RestTyped, CommandTyped, Typed
    <2> QED
      BY <1>1, <1>6, <2>1, <2>2 DEF RestTyped, CommandTyped, ListTyped
  <1>7. CASE ReadPage
    <2>1. PICK h : h = HonestAnswer
      OBVIOUS
    <2>2. /\ h.offset = offset /\ h.limit = max /\ h.rows = Held /\ h.next \in BOOLEAN
      BY <2>1 DEF HonestAnswer
    <2>3. place = "read" /\ Hold(h) /\ UNCHANGED <<honest, misled, faults>>
      BY <1>7, <2>1 DEF ReadPage
    <2>4. Held \in Seq(Shownable) /\ Len(Held) <= max
      BY <1>1, <2>3, HeldTyped DEF ListTyped
    <2>5. h.rows \in Seq(Shownable) /\ Len(h.rows) <= max
      BY <2>2, <2>4
    <2>6. faults' \in 0..MaxFaults /\ honest' \in BOOLEAN
      BY <1>1, <2>3 DEF CommandTyped
    <2> QED
      BY <1>6, <2>2, <2>3, <2>5, <2>6
  <1>8. CASE ReadOddPage
    <2>1. place = "read" /\ Fault /\ UNCHANGED misled
      BY <1>8 DEF ReadOddPage
    <2>2. PICK answer \in OddAnswers :
            IF PageAccepted(answer)
              THEN /\ Hold(answer)
                   /\ honest' = (honest /\ answer.rows = Held /\
                                 answer.next = HonestAnswer.next)
              ELSE FailWith("upstream") /\ UNCHANGED honest
      BY <1>8 DEF ReadOddPage
    <2>3. CASE PageAccepted(answer)
      <3>1. Held \in Seq(Shownable) /\ OddRows \subseteq Shownable
        BY <1>1, <2>1, HeldTyped DEF ListTyped, Shownable
      <3>2. answer.rows \in Seq(Shownable) /\ answer.next \in BOOLEAN
        BY <3>1, OddTyped
      <3>3. answer.offset = offset /\ answer.limit = max
        BY <1>1, <2>1, <2>3, OddAccepted
      <3>4. Len(answer.rows) <= max
        BY <2>3 DEF PageAccepted, PageValid
      <3>5. faults' \in 0..MaxFaults
        BY <1>1, <2>1, BoundsAssumption DEF Fault, CommandTyped
      <3>6. honest' \in BOOLEAN
        BY <2>2, <2>3
      <3>7. Hold(answer)
        BY <2>2, <2>3
      <3> QED
        BY <1>6, <2>1, <3>2, <3>3, <3>4, <3>5, <3>6, <3>7
    <2>4. CASE ~PageAccepted(answer)
      BY <1>1, <2>1, <2>2, <2>4, FailTyped DEF CommandTyped, RestTyped
    <2> QED
      BY <2>3, <2>4
  <1>9. CASE OpenSession \/ (WriteRows /\ Noticed)
    <2>1. UNCHANGED <<listing, list, initial, hand, collected, max, page, outcome, edits,
                      edited, faults, honest, misled>>
      BY <1>9 DEF OpenSession, WriteRows, world, script, history
    <2> QED
      BY <1>1, <2>1 DEF RestTyped, PageTyped, CommandTyped, ListTyped
  <1>10. CASE (WriteRows /\ ~Noticed) \/ WriteNotice
    <2>1. /\ UNCHANGED <<listing, list, initial, max, edits, edited, faults, honest, misled>>
          /\ outcome' = "ok" /\ page' = NoPage /\ collected' = collected \o page.rows
      BY <1>10 DEF WriteRows, WriteNotice, Succeed, world, history
    <2>2. collected' \in Seq(Rows)
      BY <1>1, <2>1, ConcatProperties DEF CommandTyped, PageTyped
    <2>3. hand' \in Tokens
      <3>1. CASE hand' = hand
        BY <1>1, <3>1 DEF CommandTyped
      <3>2. CASE hand' = Encode(Scope(listing), NextOffset)
        <4>1. NextOffset \in Nat
          BY <1>1, <1>2 DEF PageTyped, NextOffset
        <4> QED
          BY <1>1, <3>2, <4>1 DEF Typed, Tokens, Encode
      <3> QED
        BY <1>10, <3>1, <3>2 DEF WriteRows, WriteNotice
    <2>4. PageTyped'
      BY <1>1, <2>1, NoPageTyped DEF CommandTyped
    <2>5. CommandTyped' /\ ListTyped'
      BY <1>1, <2>1, <2>2, <2>3 DEF CommandTyped, ListTyped
    <2> QED
      BY <2>4, <2>5 DEF RestTyped
  <1>11. CASE OthersInsert \/ OthersRemove
    <2>1. /\ UNCHANGED <<listing, initial, hand, collected, max, page, outcome, faults, honest,
                         misled>>
          /\ edits < MaxEdits /\ edits' = edits + 1
          /\ edited' \subseteq edited \cup {"insert", "remove"}
      BY <1>11 DEF OthersInsert, OthersRemove, Edit, script, command
    <2>2. list' \in Seq(Entries)
      <3>1. list \in Seq(Entries) /\ Len(list) \in Nat
        BY <1>1, LenProperties DEF ListTyped
      <3>2. CASE OthersInsert
        <4>1. PICK i \in 1..(Len(list) + 1) :
                list' = InsertAt(list, i, MaxInitial + edits + 1)
          BY <3>2 DEF OthersInsert, Edit
        <4>2. MaxInitial + edits + 1 \in Entries
          BY <1>1, <2>1, BoundsAssumption DEF Entries, ListTyped
        <4> QED
          BY <3>1, <4>1, <4>2, EditedTyped
      <3>3. CASE OthersRemove
        <4>1. PICK i \in 1..Len(list) : list' = RemoveAt(list, i)
          BY <3>1, <3>3, LenProperties DEF OthersRemove, Edit
        <4>2. list[i] \in Entries
          BY <3>1, ElementOfSeq
        <4> QED
          BY <3>1, <4>1, <4>2, EditedTyped
      <3> QED
        BY <1>11, <3>2, <3>3
    <2>3. edits' \in 0..MaxEdits /\ edited' \subseteq {"insert", "remove"}
      BY <1>1, <2>1, BoundsAssumption DEF ListTyped
    <2> QED
      BY <1>1, <2>1, <2>2, <2>3 DEF RestTyped, PageTyped, CommandTyped, ListTyped
  <1>12. CASE WalkOver \/ UNCHANGED walkVars
    BY <1>1, <1>12 DEF WalkOver, walkVars, world, script, command, history, RestTyped,
                       PageTyped, CommandTyped, ListTyped
  <1> QED
    BY <1>3, <1>4, <1>5, <1>7, <1>8, <1>9, <1>10, <1>11, <1>12
       DEF WalkNext, Progress, Trouble

\* Where the types start.
LEMMA RestTypedInit == ASSUME WalkInit PROVE RestTyped
  <1>1. /\ listing \in Walked /\ initial \in 0..MaxInitial /\ hand = NoToken /\ max = 0
        /\ collected = <<>> /\ page = NoPage /\ outcome = "none" /\ edits = 0 /\ faults = 0
        /\ edited = {} /\ honest = TRUE /\ misled = FALSE
        /\ list = [i \in 1..initial |-> i]
    BY DEF WalkInit
  <1>2. listing.command.max \in Nat
    BY <1>1, CommandFacts, WalkedAssumption DEF Listings
  <1>3. PageTyped
    <2>1. <<>> \in Seq(Rows) /\ Len(<<>>) = 0
      OBVIOUS
    <2> QED
      BY <1>1, <1>2, <2>1 DEF NoPage, PageTyped
  <1>4. CommandTyped
    <2>1. hand \in Tokens
      BY <1>1 DEF Tokens, NoToken, Encode
    <2>2. collected \in Seq(Rows)
      BY <1>1
    <2>3. max \in 0..listing.command.max /\ faults \in 0..MaxFaults
      BY <1>1, <1>2, BoundsAssumption
    <2> QED
      BY <1>1, <2>1, <2>2, <2>3 DEF CommandTyped
  <1>5. ListTyped
    <2>1. initial \in Nat /\ \A i \in 1..initial : i \in Entries
      BY <1>1, BoundsAssumption DEF Entries
    <2>2. list \in Seq(Entries)
      BY <1>1, <2>1, IsASeq
    <2> QED
      BY <1>1, <2>2, BoundsAssumption DEF ListTyped
  <1> QED
    BY <1>3, <1>4, <1>5 DEF RestTyped

\* Every variable of a walk keeps its type; no page is longer than it was asked for.
THEOREM WalkTypeCorrect == WalkSpec => []WalkTypeOK
  <1>1. WalkInit => RestTyped
    BY RestTypedInit
  <1>2. WalkInv /\ RestTyped /\ [WalkNext]_walkVars => RestTyped'
    BY RestKept
  <1>3. WalkInv /\ RestTyped => WalkTypeOK
    BY DEF WalkInv, Typed, RestTyped, PageTyped, CommandTyped, ListTyped, Entries, WalkTypeOK
  <1> QED
    BY <1>1, <1>2, <1>3, WalkInvariance, PTL DEF WalkSpec

------------------------------------------------------------------------------
(* A walk runs down *)

\* How much may still go wrong, or be edited
Disturbances == (MaxFaults - faults) + (MaxEdits - edits)

\* Where the command under way reads, or the next one will, and what is left of the
\* list from there
At == IF place = "idle" THEN hand.offset ELSE offset
ToCome == IF At < Len(list) THEN Len(list) - At ELSE 0

\* The steps left of a command
Steps ==
    CASE place = "idle"   -> 5
      [] place = "open"   -> 4
      [] place = "read"   -> 3
      [] place = "stdout" -> 2
      [] place = "stderr" -> 1

\* The page held says there is more where there is not: one more command comes of it.
Misleading == place \in {"stdout", "stderr"} /\ page.hasNext /\ offset + max >= Len(list)

\* What is left of a walk that nobody disturbs any more
Toll == IF walk = "over" THEN 0 ELSE 5 * ToCome + Steps + (IF Misleading THEN 5 ELSE 0)

\* Each step is a disturbance, or leaves less of the walk.
WalkRunsDown ==
    /\ Disturbances \in Nat /\ Toll \in Nat /\ Disturbances' \in Nat /\ Toll' \in Nat
    /\ \/ Disturbances' < Disturbances
       \/ Disturbances' = Disturbances /\ Toll' < Toll

Counts == Disturbances \in Nat /\ Toll \in Nat

\* What is left is a number.
LEMMA TollTyped ==
    ASSUME WalkInv, RestTyped
    PROVE  /\ Counts /\ ToCome \in Nat /\ Steps \in 1..5
           /\ Len(list) \in Nat /\ offset \in Nat /\ max \in Nat /\ hand.offset \in Nat
           /\ faults \in 0..MaxFaults /\ edits \in 0..MaxEdits
  <1>1. Len(list) \in Nat /\ offset \in Nat /\ hand.offset \in Nat
        /\ place \in {"idle", "open", "read", "stdout", "stderr"}
    BY LenProperties DEF WalkInv, Typed
  <1>2. max \in Nat /\ faults \in 0..MaxFaults /\ edits \in 0..MaxEdits
    <2>1. listing.command.max \in Nat
      BY CommandFacts DEF WalkInv, Typed, Listings
    <2> QED
      BY <2>1 DEF RestTyped, CommandTyped, ListTyped
  <1>3. ToCome \in Nat
    BY <1>1 DEF ToCome, At
  <1>4. Steps \in 1..5
    BY <1>1 DEF Steps
  <1>5. Toll \in Nat
    BY <1>3, <1>4 DEF Toll
  <1>6. Disturbances \in Nat
    BY <1>2, BoundsAssumption DEF Disturbances
  <1> QED
    BY <1>1, <1>2, <1>3, <1>4, <1>5, <1>6 DEF Counts

\* What goes wrong and what others edit is counted.
LEMMA DisturbanceRunsDown ==
    ASSUME WalkInv, RestTyped, Counts', Trouble \/ OthersInsert \/ OthersRemove
    PROVE  WalkRunsDown
  <1>1. Counts /\ faults \in 0..MaxFaults /\ edits \in 0..MaxEdits
    BY TollTyped
  <1>2. CASE Trouble
    <2>1. faults' = faults + 1
      BY <1>2 DEF Trouble, InvokeBadly, OpenFails, ReadOddPage, ReadFails, WriteFails, Fault
    <2>2. edits' = edits
      BY <1>2 DEF Trouble, InvokeBadly, OpenFails, ReadOddPage, ReadFails, WriteFails,
                  FailWith, Hold
    <2>3. Disturbances' < Disturbances
      BY <1>1, <2>1, <2>2, BoundsAssumption DEF Disturbances
    <2> QED
      BY <1>1, <2>3 DEF WalkRunsDown, Counts
  <1>3. CASE OthersInsert \/ OthersRemove
    <2>1. faults' = faults /\ edits' = edits + 1
      BY <1>3 DEF OthersInsert, OthersRemove, Edit
    <2>2. Disturbances' < Disturbances
      BY <1>1, <2>1, BoundsAssumption DEF Disturbances
    <2> QED
      BY <1>1, <2>2 DEF WalkRunsDown, Counts
  <1> QED
    BY <1>2, <1>3

\* A step of script or command that nothing disturbs
LEMMA ProgressRunsDown ==
    ASSUME WalkInv, RestTyped, Counts', Progress
    PROVE  WalkRunsDown
  <1>1. /\ Counts /\ ToCome \in Nat /\ Steps \in 1..5
        /\ Len(list) \in Nat /\ offset \in Nat /\ max \in Nat /\ hand.offset \in Nat
    BY TollTyped
  <1>2. UNCHANGED <<faults, edits, list>>
    BY DEF Progress, Invoke, OpenSession, ReadPage, WriteRows, WriteNotice, Hold, Succeed,
           world, history
  <1>3. Disturbances' = Disturbances
    BY <1>2 DEF Disturbances
  <1>4. walk = "going"
    BY DEF WalkInv, Leading, Progress, Invoke, OpenSession, ReadPage, WriteRows, WriteNotice
  <1>5. Toll' < Toll
    <2>1. CASE Invoke
      <3>1. place = "idle" /\ walk' = walk /\ UNCHANGED hand
        BY <2>1 DEF Invoke, script
      <3>2. place' = "open" /\ offset' = hand.offset
        BY <2>1, HandAccepted DEF Invoke, WalkInv
      <3> QED
        BY <1>1, <1>2, <1>4, <3>1, <3>2 DEF Toll, ToCome, At, Steps, Misleading
    <2>2. CASE OpenSession
      <3>1. place = "open" /\ place' = "read" /\ UNCHANGED <<walk, offset>>
        BY <2>2 DEF OpenSession, script
      <3> QED
        BY <1>1, <1>2, <1>4, <3>1 DEF Toll, ToCome, At, Steps, Misleading
    <2>3. CASE ReadPage
      <3>1. place = "read" /\ place' = "stdout" /\ UNCHANGED <<walk, offset, max>>
            /\ page'.hasNext = (offset + max < Len(list))
        BY <2>3 DEF ReadPage, Hold, HonestAnswer, script
      <3>2. ~Misleading'
        <4>1. page'.hasNext => offset + max < Len(list)
          BY <3>1, Zenon
        <4> QED
          BY <1>1, <1>2, <3>1, <4>1 DEF Misleading
      <3>3. ~Misleading /\ ToCome' = ToCome
        BY <1>2, <3>1 DEF Misleading, ToCome, At
      <3>4. Steps = 3 /\ Steps' = 2
        BY <3>1 DEF Steps
      <3> QED
        BY <1>1, <1>4, <3>1, <3>2, <3>3, <3>4 DEF Toll
    <2>4. CASE WriteRows /\ Noticed
      <3>1. place = "stdout" /\ place' = "stderr" /\ UNCHANGED <<walk, offset, max, page>>
        BY <2>4 DEF WriteRows, script
      <3>2. (Misleading' <=> Misleading) /\ ToCome' = ToCome
        BY <1>2, <3>1 DEF Misleading, ToCome, At
      <3>3. Steps = 2 /\ Steps' = 1
        BY <3>1 DEF Steps
      <3> QED
        BY <1>1, <1>4, <3>1, <3>2, <3>3 DEF Toll
    <2>5. CASE WriteRows /\ ~Noticed
      <3>1. walk' = "over"
        BY <2>5 DEF WriteRows
      <3> QED
        BY <1>1, <1>4, <3>1 DEF Toll
    <2>6. CASE WriteNotice
      <3>1. /\ place = "stderr" /\ place' = "idle" /\ walk' = walk
            /\ hand' = Encode(Scope(listing), NextOffset)
        BY <2>6 DEF WriteNotice, Succeed
      <3>2. /\ NextOffset = offset + max /\ page.hasNext
            /\ max \in 1..listing.command.max
        BY <3>1 DEF WalkInv, Holding, Leading, Noticed, NextOffset
      <3>3. At' = offset + max /\ max > 0 /\ At = offset
        BY <1>1, <3>1, <3>2 DEF At, Encode
      <3>4. Steps = 1 /\ Steps' = 5 /\ ~Misleading'
        BY <3>1 DEF Steps, Misleading
      <3>5. ToCome' = IF offset + max < Len(list) THEN Len(list) - (offset + max) ELSE 0
        BY <1>2, <3>3 DEF ToCome
      <3>6. CASE Misleading
        <4>1. ToCome' = 0
          BY <1>1, <3>5, <3>6 DEF Misleading
        <4> QED
          BY <1>1, <1>4, <3>1, <3>4, <3>6, <4>1 DEF Toll
      <3>7. CASE ~Misleading
        <4>1. offset + max < Len(list)
          BY <1>1, <3>1, <3>2, <3>7 DEF Misleading
        <4>2. ToCome' + 1 <= ToCome /\ ToCome' \in Nat
          BY <1>1, <3>3, <3>5, <4>1 DEF ToCome
        <4>3. Toll = 5 * ToCome + 1
          BY <1>1, <1>4, <3>4, <3>7 DEF Toll
        <4>4. Toll' = 5 * ToCome' + 5
          BY <1>4, <3>1, <3>4, <4>2 DEF Toll
        <4>5. PICK before \in Nat, after \in Nat : before = ToCome /\ after = ToCome'
          BY <1>1, <4>2
        <4>6. after + 1 <= before /\ 5 * after + 5 < 5 * before + 1
          <5>1. after + 1 <= before
            BY <4>2, <4>5
          <5> QED
            BY ONLY <5>1, after \in Nat, before \in Nat
        <4> QED
          BY <4>3, <4>4, <4>5, <4>6
      <3> QED
        BY <3>6, <3>7
    <2> QED
      BY <2>1, <2>2, <2>3, <2>4, <2>5, <2>6 DEF Progress
  <1> QED
    BY <1>1, <1>3, <1>5 DEF WalkRunsDown, Counts

\* A script cannot follow tokens for ever: every step of a walk that is not an edit by
\* others or a mishap lowers a natural number, odd pages and stray tokens included.
THEOREM ScriptRunsDown == WalkSpec => [][WalkRunsDown]_walkVars
  <1>1. WalkInv /\ RestTyped => Counts
    BY TollTyped
  <1>2. WalkInv /\ RestTyped /\ Counts' /\ [WalkNext]_walkVars => [WalkRunsDown]_walkVars
    BY ProgressRunsDown, DisturbanceRunsDown DEF WalkNext, WalkOver
  <1>3. WalkInit => RestTyped
    BY RestTypedInit
  <1>4. WalkInv /\ RestTyped /\ [WalkNext]_walkVars => RestTyped'
    BY RestKept
  <1> QED
    BY <1>1, <1>2, <1>3, <1>4, WalkInvariance, PTL DEF WalkSpec

=============================================================================
