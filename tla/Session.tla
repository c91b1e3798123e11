------------------------------- MODULE Session -------------------------------
(***************************************************************************)
(* Authenticated sessions (internal/session/session.go) and the token      *)
(* source under them (internal/auth/token_source.go). Every command is a   *)
(* process of its own; all of them share the one credential kept in the    *)
(* credential store, and none of them locks it.                            *)
(*                                                                         *)
(* The store, the accounts service that refreshes tokens and oauth2's      *)
(* caching of a token until it expires are not part of the repository:     *)
(* they are modelled from how the code uses them.                          *)
(***************************************************************************)
EXTENDS Integers, Sequences, FiniteSets

CONSTANTS
    Sessions,     \* processes that open a session
    Scopes,       \* OAuth scopes
    Required,     \* those a command asks for before it sends anything, if any
    RotateChoices,\* whether a refresh may replace the refresh token
    MaxGrants,    \* bound: authorization flows completed
    MaxRefreshes  \* bound: refreshes of one grant

ASSUME ScopesAssumption == Scopes # {}
ASSUME RequiredAssumption == Required \subseteq Scopes
ASSUME RotateChoicesAssumption ==
    RotateChoices \subseteq BOOLEAN /\ RotateChoices # {}
ASSUME MaxGrantsAssumption == MaxGrants \in Nat \ {0}
ASSUME MaxRefreshesAssumption == MaxRefreshes \in Nat

VARIABLES
    slot,     \* the credential in the store
    live,     \* per grant, the tokens the accounts service issued last
    pc,       \* where each session is
    current,  \* the envelope last read or saved (persistentTokenSource.current)
    base,     \* the token oauth2 holds, maybe refreshed and not yet saved
    fresh,    \* it has not expired
    scopes,   \* Session.scopes
    sent,     \* the envelope whose access token last went out (history)
    stored,   \* the access tokens that have been in the store (history)
    mishap    \* something happened that may cost a refresh token (history)

sessionVars == <<pc, current, base, fresh, scopes>>
history == <<sent, stored, mishap>>
vars == <<slot, live, sessionVars, history>>

Envelopes == [grant : 1..MaxGrants, refresh : 0..MaxRefreshes,
              access : 0..MaxRefreshes, scopes : SUBSET Scopes]
NoCredential == [grant |-> 0, refresh |-> 0, access |-> 0, scopes |-> {}]

\* An access token is known by the flow it came from and its number.
AccessToken(e) == <<e.grant, e.access>>

\* The accounts service still accepts the envelope's refresh token.
Usable(e) == e # NoCredential /\ e.refresh = live[e.grant].refresh

TypeOK ==
    /\ slot \in Envelopes \cup {NoCredential}
    /\ live \in Seq([refresh : 0..MaxRefreshes, access : 0..MaxRefreshes])
    /\ pc \in [Sessions -> {"closed", "ready", "refresh", "persist", "failed"}]
    /\ current \in [Sessions -> Envelopes \cup {NoCredential}]
    /\ base \in [Sessions -> Envelopes \cup {NoCredential}]
    /\ fresh \in [Sessions -> BOOLEAN]
    /\ scopes \in [Sessions -> SUBSET Scopes]
    /\ sent \in Envelopes \cup {NoCredential}
    /\ stored \subseteq (1..MaxGrants) \X (0..MaxRefreshes)
    /\ mishap \in BOOLEAN

NewGrant == [grant |-> Len(live) + 1, refresh |-> 0, access |-> 0,
             scopes |-> Scopes]

Init ==
    /\ live = <<[refresh |-> 0, access |-> 0]>>
    /\ slot = [grant |-> 1, refresh |-> 0, access |-> 0, scopes |-> Scopes]
    /\ pc = [s \in Sessions |-> "closed"]
    /\ current = [s \in Sessions |-> NoCredential]
    /\ base = [s \in Sessions |-> NoCredential]
    /\ fresh = [s \in Sessions |-> FALSE]
    /\ scopes = [s \in Sessions |-> {}]
    /\ sent = NoCredential /\ stored = {AccessToken(slot)} /\ mishap = FALSE

------------------------------------------------------------------------------
(* A session *)

\* Opener.Open and the scope check of the commands that make one. The access
\* token read may have expired since it was saved.
Open(s, needs) ==
    /\ pc[s] = "closed" /\ slot # NoCredential
    /\ current' = [current EXCEPT ![s] = slot]
    /\ base' = [base EXCEPT ![s] = slot]
    /\ scopes' = [scopes EXCEPT ![s] = slot.scopes]
    /\ \E unexpired \in BOOLEAN : fresh' = [fresh EXCEPT ![s] = unexpired]
    /\ pc' = [pc EXCEPT ![s] =
                IF needs \subseteq slot.scopes THEN "ready" ELSE "failed"]
    /\ UNCHANGED <<slot, live, history>>

\* There is no credential, or the configuration or the store cannot be read.
OpenFails(s) ==
    /\ pc[s] = "closed"
    /\ pc' = [pc EXCEPT ![s] = "failed"]
    /\ UNCHANGED <<slot, live, current, base, fresh, scopes, history>>

Expire(s) ==
    /\ pc[s] = "ready" /\ fresh[s]
    /\ fresh' = [fresh EXCEPT ![s] = FALSE]
    /\ UNCHANGED <<slot, live, pc, current, base, scopes, history>>

\* A request whose token is neither expired nor unsaved goes out at once.
SendRequest(s) ==
    /\ pc[s] = "ready" /\ fresh[s] /\ base[s] = current[s]
    /\ sent' = base[s]
    /\ UNCHANGED <<slot, live, sessionVars, stored, mishap>>

\* Any other request first refreshes the token, or saves the one that an earlier
\* request refreshed in vain.
NeedToken(s) ==
    /\ pc[s] = "ready" /\ (~fresh[s] \/ base[s] # current[s])
    /\ pc' = [pc EXCEPT ![s] = IF fresh[s] THEN "persist" ELSE "refresh"]
    /\ UNCHANGED <<slot, live, current, base, fresh, scopes, history>>

\* The accounts service accepts the refresh token; it issues an access token,
\* may replace the refresh token and may grant less than before. An answer that
\* fromOAuthToken rejects (no scope at all stands for it) stays in oauth2's hands
\* and is never saved.
Refreshed(e, rotate, granted) ==
    [e EXCEPT !.access = live[e.grant].access + 1,
              !.refresh = IF rotate THEN @ + 1 ELSE @,
              !.scopes = granted]

Issue(e) ==
    live' = [live EXCEPT ![e.grant] = [refresh |-> e.refresh,
                                       access |-> e.access]]

RefreshAccepted(s) ==
    /\ pc[s] = "refresh" /\ Usable(base[s])
    /\ live[base[s].grant].access < MaxRefreshes
    /\ \E rotate \in RotateChoices, granted \in SUBSET current[s].scopes :
         LET e == Refreshed(base[s], rotate, granted)
         IN  /\ Issue(e)
             /\ base' = [base EXCEPT ![s] = e]
    /\ fresh' = [fresh EXCEPT ![s] = TRUE]
    /\ pc' = [pc EXCEPT ![s] = "persist"]
    /\ UNCHANGED <<slot, current, scopes, history>>

\* ErrRefresh: the request, or the response to it, got lost.
RefreshLost(s) ==
    /\ pc[s] = "refresh"
    /\ \/ UNCHANGED <<live, mishap>>
       \/ /\ Usable(base[s])
          /\ live[base[s].grant].access < MaxRefreshes
          /\ \E rotate \in RotateChoices :
               Issue(Refreshed(base[s], rotate, base[s].scopes))
          /\ mishap' = TRUE
    /\ pc' = [pc EXCEPT ![s] = "ready"]
    /\ UNCHANGED <<slot, current, base, fresh, scopes, sent, stored>>

\* ErrInvalidGrant: the refresh token is not, or no longer, accepted.
RefreshRefused(s) ==
    /\ pc[s] = "refresh" /\ ~Usable(base[s])
    /\ pc' = [pc EXCEPT ![s] = "failed"]
    /\ UNCHANGED <<slot, live, current, base, fresh, scopes, history>>

\* Mutant: the token of a refresh that cannot be saved is used all the same.
SaveFailsSilently(s) ==
    /\ pc[s] = "persist"
    /\ mishap' = TRUE
    /\ sent' = base[s]
    /\ pc' = [pc EXCEPT ![s] = "ready"]
    /\ UNCHANGED <<slot, live, current, base, fresh, scopes, stored>>

\* ErrPersistRefresh: the store refuses; or ErrRefresh: there is nothing to save.
\* The next request tries again.
SaveFails(s) ==
    /\ pc[s] = "persist"
    /\ mishap' = TRUE
    /\ pc' = [pc EXCEPT ![s] = "ready"]
    /\ UNCHANGED <<slot, live, current, base, fresh, scopes, sent, stored>>

\* Mutants: the scopes are those of the credential first read; the refreshed
\* token is kept in memory only.
SavedWithOldScopes(s) ==
    /\ pc[s] = "persist" /\ base[s].scopes # {}
    /\ slot' = base[s] /\ stored' = stored \cup {AccessToken(base[s])}
    /\ mishap' = (mishap \/ slot # current[s])
    /\ current' = [current EXCEPT ![s] = base[s]]
    /\ sent' = base[s]
    /\ pc' = [pc EXCEPT ![s] = "ready"]
    /\ UNCHANGED <<live, base, fresh, scopes>>
KeptInMemory(s) ==
    /\ pc[s] = "persist" /\ base[s].scopes # {}
    /\ mishap' = (mishap \/ slot # current[s])
    /\ current' = [current EXCEPT ![s] = base[s]]
    /\ scopes' = [scopes EXCEPT ![s] = base[s].scopes]
    /\ sent' = base[s]
    /\ pc' = [pc EXCEPT ![s] = "ready"]
    /\ UNCHANGED <<slot, stored, live, base, fresh>>

\* persist overwrites whatever the store holds by now; then the request goes out.
Save(s) ==
    /\ pc[s] = "persist" /\ base[s].scopes # {}
    /\ slot' = base[s] /\ stored' = stored \cup {AccessToken(base[s])}
    /\ mishap' = (mishap \/ slot # current[s])
    /\ current' = [current EXCEPT ![s] = base[s]]
    /\ scopes' = [scopes EXCEPT ![s] = base[s].scopes]
    /\ sent' = base[s]
    /\ pc' = [pc EXCEPT ![s] = "ready"]
    /\ UNCHANGED <<live, base, fresh>>

\* The command ends, or its process is killed, wherever it is.
Exit(s) ==
    /\ pc[s] # "closed"
    /\ mishap' = (mishap \/ base[s] # current[s])
    /\ pc' = [pc EXCEPT ![s] = "closed"]
    /\ current' = [current EXCEPT ![s] = NoCredential]
    /\ base' = [base EXCEPT ![s] = NoCredential]
    /\ fresh' = [fresh EXCEPT ![s] = FALSE]
    /\ scopes' = [scopes EXCEPT ![s] = {}]
    /\ UNCHANGED <<slot, live, sent, stored>>

------------------------------------------------------------------------------
(* Other commands that write the store *)

\* init --overwrite, or set-credential --overwrite with a new credential
Reauthorize ==
    /\ Len(live) < MaxGrants
    /\ slot' = NewGrant /\ stored' = stored \cup {AccessToken(NewGrant)}
    /\ live' = Append(live, [refresh |-> 0, access |-> 0])
    /\ UNCHANGED <<sessionVars, sent, mishap>>

\* config clear
Clear ==
    /\ slot # NoCredential
    /\ slot' = NoCredential
    /\ UNCHANGED <<live, sessionVars, history>>

------------------------------------------------------------------------------

Step(s) ==
    \/ (\E needs \in {{}, Required} : Open(s, needs))
    \/ OpenFails(s) \/ Expire(s) \/ SendRequest(s) \/ NeedToken(s)
    \/ RefreshAccepted(s) \/ RefreshLost(s) \/ RefreshRefused(s)
    \/ SaveFails(s) \/ Save(s) \/ Exit(s)

Next == (\E s \in Sessions : Step(s)) \/ Reauthorize \/ Clear

Spec == Init /\ [][Next]_vars

------------------------------------------------------------------------------
(* Properties *)

\* No request goes out with a token that is not, or was not, in the store: a
\* refreshed token is saved before it is used, so that what the service has
\* seen used a later process can go on from.
NothingUsedUnsaved == sent # NoCredential => AccessToken(sent) \in stored

\* What Scopes() says is what the envelope last read or saved says, whatever the
\* token in hand is. That token is the one of this envelope, or a later one of the
\* same authorization; between requests it is a later one only after a save failed.
\* (That the next request saves it before it goes out is in NothingUsedUnsaved.)
ScopesFollowToken ==
    \A s \in Sessions : pc[s] \in {"ready", "refresh", "persist"} =>
        /\ scopes[s] = current[s].scopes /\ AccessToken(current[s]) \in stored
        /\ base[s] # current[s] =>
             /\ base[s].grant = current[s].grant
             /\ base[s].access > current[s].access
             /\ pc[s] = "persist" \/ mishap

\* The credential in the store can be refreshed and is enough to open a session,
\* unless a session is between its refresh and its save, one of the two failed, a
\* process ended between them, or a session saved over a credential it had not
\* read.
StoredStaysUsable ==
    slot # NoCredential /\ ~mishap /\ (\A s \in Sessions : base[s] = current[s])
        => Usable(slot) /\ slot.scopes # {}
=============================================================================
