---------------------------- MODULE SessionProofs ----------------------------
(***************************************************************************)
(* What Session promises of the shared credential, for any number of       *)
(* processes, scopes, authorization flows and refreshes.                   *)
(***************************************************************************)
EXTENDS Session, TLAPS

USE ScopesAssumption, RequiredAssumption, RotateChoicesAssumption,
    MaxGrantsAssumption, MaxRefreshesAssumption

Tokens == [refresh : 0..MaxRefreshes, access : 0..MaxRefreshes]

\* Every grant is one of the bound; it never has more refresh tokens behind it
\* than refreshes.
LiveInv ==
    /\ Len(live) \in 1..MaxGrants
    /\ \A g \in 1..Len(live) : live[g].refresh <= live[g].access

\* The accounts service has issued it, and maybe later ones since.
Known(e) ==
    e # NoCredential =>
        /\ e.grant \in 1..Len(live)
        /\ e.refresh <= live[e.grant].refresh
        /\ e.access <= live[e.grant].access

KnownInv == Known(slot) /\ \A s \in Sessions : Known(current[s]) /\ Known(base[s])

\* What oauth2 holds beyond what was read or saved is a later token of the same
\* grant, and it is on its way to the store unless something went wrong.
AheadInv ==
    \A s \in Sessions :
        /\ base[s].grant = current[s].grant
        /\ base[s] # current[s] =>
             /\ current[s].refresh <= base[s].refresh
             /\ current[s].access < base[s].access
             /\ mishap \/ pc[s] = "persist"

OpenInv ==
    \A s \in Sessions : pc[s] \in {"ready", "refresh", "persist"} =>
        /\ current[s] # NoCredential
        /\ scopes[s] = current[s].scopes
        /\ AccessToken(current[s]) \in stored

StoredInv ==
    /\ slot # NoCredential => slot.scopes # {} /\ AccessToken(slot) \in stored
    /\ sent # NoCredential => AccessToken(sent) \in stored

\* Session s is about to save the token that keeps the grant of the stored
\* credential alive.
Carries(s) ==
    base[s].grant = slot.grant /\ base[s] # current[s] /\ Usable(base[s])

ChainInv ==
    ~mishap /\ slot # NoCredential =>
        Usable(slot) \/ \E s \in Sessions : Carries(s)

IInv == TypeOK /\ LiveInv /\ KnownInv /\ AheadInv /\ OpenInv /\ StoredInv /\ ChainInv

------------------------------------------------------------------------------


\* What the fields of an envelope are, and that NoCredential is none.
LEMMA Fields ==
    ASSUME NEW e \in Envelopes \cup {NoCredential}
    PROVE  /\ e.grant \in 0..MaxGrants
           /\ e.refresh \in 0..MaxRefreshes
           /\ e.access \in 0..MaxRefreshes
           /\ e.scopes \in SUBSET Scopes
           /\ e # NoCredential =>
                e \in Envelopes /\ AccessToken(e) \in (1..MaxGrants) \X (0..MaxRefreshes)
  BY DEF Envelopes, NoCredential, AccessToken

\* A credential just obtained is an envelope.
LEMMA NewGrantIsEnvelope ==
    ASSUME Len(live) \in Nat, Len(live) < MaxGrants
    PROVE  NewGrant \in Envelopes /\ NewGrant # NoCredential
  BY DEF NewGrant, Envelopes, NoCredential

\* The credential init stores is known, usable and in the store.
LEMMA InitIInv == Init => IInv
  <1> SUFFICES ASSUME Init PROVE IInv
    OBVIOUS
  <1> USE DEF Init
  <1>1. /\ Len(live) = 1
        /\ live[1] = [refresh |-> 0, access |-> 0]
        /\ live \in Seq([refresh : 0..MaxRefreshes, access : 0..MaxRefreshes])
    OBVIOUS
  <1>2. slot \in Envelopes /\ slot # NoCredential
    BY DEF Envelopes, NoCredential
  <1>3. TypeOK
    <2>1. stored \subseteq (1..MaxGrants) \X (0..MaxRefreshes)
      BY <1>2, Fields
    <2>2. /\ current \in [Sessions -> Envelopes \cup {NoCredential}]
          /\ base \in [Sessions -> Envelopes \cup {NoCredential}]
          /\ sent \in Envelopes \cup {NoCredential}
      OBVIOUS
    <2>3. /\ fresh \in [Sessions -> BOOLEAN] /\ scopes \in [Sessions -> SUBSET Scopes]
          /\ pc \in [Sessions -> {"closed", "ready", "refresh", "persist", "failed"}]
      OBVIOUS
    <2> QED
      BY <1>1, <1>2, <2>1, <2>2, <2>3 DEF TypeOK
  <1>4. LiveInv /\ KnownInv
    BY <1>1 DEF LiveInv, KnownInv, Known
  <1>5. AheadInv /\ OpenInv /\ StoredInv
    BY <1>2 DEF AheadInv, OpenInv, StoredInv
  <1>6. ChainInv
    BY <1>1, <1>2 DEF ChainInv, Usable
  <1> QED
    BY <1>3, <1>4, <1>5, <1>6 DEF IInv

------------------------------------------------------------------------------
(* A session *)

\* A session that opens reads what is in the store.
LEMMA OpenPreserves ==
    ASSUME IInv, NEW s \in Sessions, NEW needs, Open(s, needs)
    PROVE  IInv'
  <1> USE DEF IInv, Open, history
  <1>1. TypeOK'
    BY Fields DEF TypeOK
  <1>2. LiveInv' /\ KnownInv'
    BY DEF TypeOK, LiveInv, KnownInv, Known
  <1>3. AheadInv'
    BY DEF TypeOK, AheadInv
  <1>4. OpenInv' /\ StoredInv'
    BY DEF TypeOK, OpenInv, StoredInv
  <1>5. ChainInv'
    <2>1. ~mishap => base[s] = current[s]
      BY DEF AheadInv
    <2> QED
      BY <2>1 DEF TypeOK, ChainInv, Carries, Usable
  <1> QED
    BY <1>1, <1>2, <1>3, <1>4, <1>5

\* Steps that only move a session on: they disturb nothing but its place.
LEMMA MovePreserves ==
    ASSUME IInv, NEW s \in Sessions,
           OpenFails(s) \/ Expire(s) \/ NeedToken(s) \/ RefreshRefused(s)
    PROVE  IInv'
  <1> USE DEF IInv, OpenFails, Expire, NeedToken, RefreshRefused, history
  <1>1. TypeOK'
    BY DEF TypeOK
  <1>2. LiveInv' /\ KnownInv'
    BY DEF LiveInv, KnownInv, Known
  <1>3. AheadInv'
    BY DEF TypeOK, AheadInv
  <1>4. OpenInv' /\ StoredInv'
    BY DEF TypeOK, OpenInv, StoredInv
  <1>5. ChainInv'
    BY DEF ChainInv, Carries, Usable
  <1> QED
    BY <1>1, <1>2, <1>3, <1>4, <1>5

\* A request goes out with the envelope last read or saved.
LEMMA SendPreserves ==
    ASSUME IInv, NEW s \in Sessions, SendRequest(s)
    PROVE  IInv'
  <1> USE DEF IInv, SendRequest, sessionVars
  <1>1. TypeOK'
    BY DEF TypeOK
  <1>2. LiveInv' /\ KnownInv'
    BY DEF LiveInv, KnownInv, Known
  <1>3. AheadInv'
    BY DEF AheadInv
  <1>4. OpenInv' /\ StoredInv'
    BY DEF OpenInv, StoredInv
  <1>5. ChainInv'
    BY DEF ChainInv, Carries, Usable
  <1> QED
    BY <1>1, <1>2, <1>3, <1>4, <1>5

\* What the accounts service records of one grant leaves the others alone.
LEMMA LiveUpdated ==
    ASSUME TypeOK, NEW g \in 1..Len(live), NEW k \in Tokens,
           live' = [live EXCEPT ![g] = k]
    PROVE  /\ live' \in Seq(Tokens)
           /\ Len(live') = Len(live)
           /\ \A h \in 1..Len(live) : live'[h] = IF h = g THEN k ELSE live[h]
  BY DEF TypeOK, Tokens

\* The tokens of a grant, and what they are for an envelope it came from.
LEMMA LiveFields ==
    ASSUME TypeOK, LiveInv, NEW g \in 1..Len(live)
    PROVE  /\ g \in 1..MaxGrants
           /\ live[g] \in Tokens
           /\ live[g].refresh \in 0..MaxRefreshes
           /\ live[g].access \in 0..MaxRefreshes
           /\ live[g].refresh <= live[g].access
  <1>1. live \in Seq(Tokens)
    BY DEF TypeOK, Tokens
  <1>2. live[g] \in Tokens
    BY <1>1
  <1>3. live[g].refresh \in 0..MaxRefreshes /\ live[g].access \in 0..MaxRefreshes
    BY <1>2 DEF Tokens
  <1>4. live[g].refresh <= live[g].access /\ g \in 1..MaxGrants
    BY DEF LiveInv
  <1> QED
    BY <1>2, <1>3, <1>4

\* An envelope with the tokens of grant g that the next refresh issues.
NextOf(g, e) ==
    /\ g \in 1..Len(live)
    /\ e \in Envelopes /\ e # NoCredential
    /\ e.grant = g
    /\ e.access = live[g].access + 1
    /\ e.refresh \in {live[g].refresh, live[g].refresh + 1}
    /\ e.refresh <= e.access
    /\ [refresh |-> e.refresh, access |-> e.access] \in Tokens

\* What a refresh issues: a later token of the same grant.
LEMMA RefreshedIsLater ==
    ASSUME IInv, NEW s \in Sessions, Usable(base[s]),
           NEW g, g = base[s].grant, live[g].access < MaxRefreshes,
           NEW rotate \in BOOLEAN, NEW granted \in SUBSET Scopes,
           NEW e, e = Refreshed(base[s], rotate, granted)
    PROVE  NextOf(g, e)
  <1>1. base[s] \in Envelopes /\ base[s] # NoCredential
    BY DEF IInv, TypeOK, Usable
  <1>2. g \in 1..Len(live)
    BY <1>1 DEF IInv, KnownInv, Known
  <1>3. /\ g \in 1..MaxGrants
        /\ live[g].refresh \in 0..MaxRefreshes /\ live[g].access \in 0..MaxRefreshes
        /\ live[g].refresh <= live[g].access
    BY <1>2, LiveFields DEF IInv
  <1>4. base[s].refresh = live[g].refresh
    BY DEF Usable
  <1> DEFINE r == IF rotate THEN base[s].refresh + 1 ELSE base[s].refresh
  <1>5. e = [base[s] EXCEPT !.access = live[g].access + 1, !.refresh = r,
                            !.scopes = granted]
    BY DEF Refreshed
  <1>6. /\ live[g].access + 1 \in 0..MaxRefreshes
        /\ r \in {live[g].refresh, live[g].refresh + 1}
    BY <1>3, <1>4
  <1> HIDE DEF r
  <1>7. e.grant = g /\ e.access = live[g].access + 1 /\ e.refresh = r
    BY <1>1, <1>5 DEF Envelopes
  <1>8. r \in 0..MaxRefreshes /\ e.refresh <= e.access
    BY <1>3, <1>6, <1>7
  <1>9. e \in Envelopes
    BY <1>1, <1>5, <1>6, <1>8 DEF Envelopes
  <1>10. e # NoCredential
    BY <1>3, <1>7 DEF NoCredential
  <1>11. [refresh |-> e.refresh, access |-> e.access] \in Tokens
    BY <1>6, <1>7, <1>8 DEF Tokens
  <1> QED
    BY <1>2, <1>6, <1>7, <1>8, <1>9, <1>10, <1>11 DEF NextOf

\* What the accounts service has issued it keeps having issued.
LEMMA KnownPersists ==
    ASSUME TypeOK, LiveInv,
           NEW g \in 1..Len(live), NEW k \in Tokens,
           k.refresh >= live[g].refresh, k.access >= live[g].access,
           live' = [live EXCEPT ![g] = k],
           NEW x \in Envelopes \cup {NoCredential}, Known(x)
    PROVE  Known(x)'
  <1>1. CASE x = NoCredential
    BY <1>1 DEF Known
  <1>2. CASE x # NoCredential
    <2>1. /\ x.grant \in 1..Len(live)
          /\ x.refresh <= live[x.grant].refresh /\ x.access <= live[x.grant].access
      BY <1>2 DEF Known
    <2>2. x.refresh \in Int /\ x.access \in Int
      BY Fields
    <2>3. /\ live[x.grant].refresh \in Int /\ live[x.grant].access \in Int
          /\ k.refresh \in Int /\ k.access \in Int
      BY <2>1, LiveFields DEF Tokens
    <2>4. Len(live') = Len(live) /\ live'[x.grant] = IF x.grant = g THEN k ELSE live[x.grant]
      BY <2>1, LiveUpdated
    <2>5. /\ x.refresh <= live'[x.grant].refresh
          /\ x.access <= live'[x.grant].access
      BY <2>1, <2>2, <2>3, <2>4
    <2> QED
      BY <2>1, <2>4, <2>5 DEF Known
  <1> QED
    BY <1>1, <1>2

\* A refresh puts the session ahead of the store: what was known stays known, and
\* the session carries what keeps its grant alive.
LEMMA RefreshAcceptedPreserves ==
    ASSUME IInv, NEW s \in Sessions, RefreshAccepted(s)
    PROVE  IInv'
  <1>0. /\ pc[s] = "refresh" /\ Usable(base[s])
        /\ live[base[s].grant].access < MaxRefreshes
        /\ UNCHANGED <<slot, current, scopes, sent, stored, mishap>>
        /\ fresh' = [fresh EXCEPT ![s] = TRUE]
        /\ pc' = [pc EXCEPT ![s] = "persist"]
    BY DEF RefreshAccepted, history
  <1>1. PICK rotate \in RotateChoices, granted \in SUBSET current[s].scopes :
            /\ Issue(Refreshed(base[s], rotate, granted))
            /\ base' = [base EXCEPT ![s] = Refreshed(base[s], rotate, granted)]
    BY DEF RefreshAccepted
  <1>2. rotate \in BOOLEAN /\ granted \in SUBSET Scopes
    <2>1. current[s] \in Envelopes \cup {NoCredential}
      BY DEF IInv, TypeOK
    <2> QED
      BY <2>1, Fields
  <1>e. PICK e : e = Refreshed(base[s], rotate, granted)
    OBVIOUS
  <1>g. PICK g : g = base[s].grant
    OBVIOUS
  <1> DEFINE k == [refresh |-> e.refresh, access |-> e.access]
  <1>3. /\ g \in 1..Len(live)
        /\ e \in Envelopes /\ e # NoCredential
        /\ e.grant = g
        /\ e.access = live[g].access + 1
        /\ e.refresh \in {live[g].refresh, live[g].refresh + 1}
        /\ k \in Tokens /\ e.refresh <= e.access
    <2>1. Usable(base[s]) /\ live[g].access < MaxRefreshes
      BY <1>0, <1>g
    <2>2. NextOf(g, e)
      BY <1>2, <1>e, <1>g, <2>1, RefreshedIsLater
    <2> QED
      BY <2>2 DEF NextOf
  <1> USE DEF IInv
  <1>4. live' = [live EXCEPT ![g] = k]
    BY <1>1, <1>3, <1>e DEF Issue
  <1>5. base' = [base EXCEPT ![s] = e]
    BY <1>1, <1>e
  <1>6. /\ live' \in Seq(Tokens) /\ Len(live') = Len(live)
        /\ \A h \in 1..Len(live) : live'[h] = IF h = g THEN k ELSE live[h]
    BY <1>3, <1>4, LiveUpdated
  <1>7. /\ live[g].refresh \in Nat /\ live[g].access \in Nat
        /\ live[g].refresh <= live[g].access
    BY <1>3, LiveFields
  <1>8. TypeOK'
    BY <1>0, <1>3, <1>5, <1>6 DEF TypeOK, Tokens
  <1>9. LiveInv'
    BY <1>3, <1>6 DEF LiveInv
  <1>10. ASSUME NEW x \in Envelopes \cup {NoCredential}, Known(x) PROVE Known(x)'
    <2>1. k.refresh >= live[g].refresh /\ k.access >= live[g].access
      BY <1>3, <1>7
    <2> QED
      BY <1>3, <1>4, <1>10, <2>1, KnownPersists
  <1>11. live'[g] = k /\ Len(live') = Len(live) /\ Known(e)'
    <2>1. live'[g] = k /\ Len(live') = Len(live)
      BY <1>3, <1>6
    <2>2. e.refresh \in Int /\ e.access \in Int
      BY <1>3, <1>7
    <2> QED
      BY <1>3, <2>1, <2>2 DEF Known
  <1>12. KnownInv'
    <2>1. /\ slot \in Envelopes \cup {NoCredential}
          /\ \A t \in Sessions : /\ current[t] \in Envelopes \cup {NoCredential}
                                /\ base[t] \in Envelopes \cup {NoCredential}
                                /\ base'[t] = IF t = s THEN e ELSE base[t]
      BY <1>5 DEF TypeOK
    <2>2. Known(slot)'
      BY <1>0, <1>10, <2>1 DEF KnownInv, Known
    <2>3. ASSUME NEW t \in Sessions PROVE  Known(current[t])' /\ Known(base[t])'
      <3>1. Known(current[t])' 
        BY <1>0, <1>10, <2>1 DEF KnownInv, Known
      <3>2. CASE t = s
        BY <1>11, <2>1, <3>1, <3>2 DEF Known
      <3>3. CASE t # s
        BY <1>10, <2>1, <3>1, <3>3 DEF KnownInv, Known
      <3> QED
        BY <3>1, <3>2, <3>3
    <2> QED
      BY <1>0, <2>2, <2>3 DEF KnownInv
  <1>13. AheadInv'
    <2>1. current[s].grant = g
      BY <1>g DEF AheadInv
    <2>2. current[s] # NoCredential
      BY <1>0 DEF OpenInv
    <2>3. current[s].refresh <= live[g].refresh /\ current[s].access <= live[g].access
      BY <2>1, <2>2 DEF KnownInv, Known
    <2>4. current[s].refresh \in Nat /\ current[s].access \in Nat
      BY Fields DEF TypeOK
    <2>5. current[s].refresh <= e.refresh /\ current[s].access < e.access
      BY <1>3, <1>7, <2>3, <2>4
    <2> QED
      BY <1>0, <1>3, <1>5, <2>1, <2>5 DEF AheadInv, TypeOK
  <1>14. OpenInv' /\ StoredInv'
    BY <1>0 DEF TypeOK, OpenInv, StoredInv, AccessToken
  <1>15. ChainInv'
    <2> SUFFICES ASSUME ~mishap, slot # NoCredential
                 PROVE  Usable(slot)' \/ \E t \in Sessions : Carries(t)'
      BY <1>0 DEF ChainInv
    <2>1. CASE slot.grant = g
      <3>1. e # NoCredential /\ e.refresh = live'[e.grant].refresh
        BY <1>3, <1>11
      <3>2. base'[s] = e /\ slot' = slot /\ current' = current
        BY <1>0, <1>5 DEF TypeOK
      <3>3. current[s].access \in Int /\ current[s].access <= live[g].access
        <4>1. current[s] # NoCredential /\ current[s].grant = g
          BY <1>0, <1>g DEF OpenInv, AheadInv
        <4>2. current[s] \in Envelopes \cup {NoCredential}
          BY DEF TypeOK
        <4> QED
          BY <4>1, <4>2, Fields DEF KnownInv, Known
      <3>4. e # current[s]
        BY <1>3, <1>7, <3>3
      <3>5. Carries(s)'
        BY <1>3, <2>1, <3>1, <3>2, <3>4 DEF Carries, Usable
      <3> QED
        BY <3>5
    <2>2. CASE slot.grant # g
      <3>1. ASSUME NEW x \in Envelopes \cup {NoCredential}, Known(x), Usable(x), x.grant # g
            PROVE  Usable(x)'
        BY <3>1, <1>6 DEF Usable, Known
      <3>2. CASE Usable(slot)
        BY <3>1, <3>2, <2>2, <1>0 DEF KnownInv, TypeOK
      <3>3. ASSUME NEW t \in Sessions, Carries(t) PROVE Carries(t)'
        <4>1. t # s /\ base'[t] = base[t]
          BY <2>2, <3>3, <1>5, <1>g DEF Carries, TypeOK
        <4> QED
          BY <4>1, <3>1, <3>3, <2>2, <1>0 DEF Carries, KnownInv, TypeOK
      <3> QED
        BY <3>2, <3>3 DEF ChainInv
    <2> QED
      BY <2>1, <2>2
  <1> QED
    BY <1>8, <1>9, <1>12, <1>13, <1>14, <1>15

\* A refresh that is lost leaves the session where it was; if the service acted
\* on it all the same, a refresh token may be gone.
LEMMA RefreshLostPreserves ==
    ASSUME IInv, NEW s \in Sessions, RefreshLost(s)
    PROVE  IInv'
  <1>0. /\ pc[s] = "refresh"
        /\ pc' = [pc EXCEPT ![s] = "ready"]
        /\ UNCHANGED <<slot, current, base, fresh, scopes, sent, stored>>
    BY DEF RefreshLost
  <1>1. /\ AheadInv' /\ OpenInv' /\ StoredInv'
        /\ pc' \in [Sessions -> {"closed", "ready", "refresh", "persist", "failed"}]
    <2>1. mishap => mishap'
      BY DEF RefreshLost
    <2> QED
      BY <1>0, <2>1 DEF IInv, TypeOK, AheadInv, OpenInv, StoredInv, AccessToken
  <1>2. CASE UNCHANGED <<live, mishap>>
    BY <1>0, <1>1, <1>2
       DEF IInv, TypeOK, LiveInv, KnownInv, Known, ChainInv, Carries, Usable
  <1>3. CASE /\ Usable(base[s])
             /\ live[base[s].grant].access < MaxRefreshes
             /\ \E rotate \in RotateChoices :
                  Issue(Refreshed(base[s], rotate, base[s].scopes))
             /\ mishap'
    <2>1. PICK rotate \in RotateChoices :
              Issue(Refreshed(base[s], rotate, base[s].scopes))
      BY <1>3
    <2>2. rotate \in BOOLEAN /\ base[s].scopes \in SUBSET Scopes
      <3>1. base[s] \in Envelopes \cup {NoCredential}
        BY DEF IInv, TypeOK
      <3> QED
        BY <3>1, Fields
    <2>3. PICK e : e = Refreshed(base[s], rotate, base[s].scopes)
      OBVIOUS
    <2>4. PICK g : g = base[s].grant
      OBVIOUS
    <2>5. NextOf(g, e)
      <3>1. Usable(base[s]) /\ live[g].access < MaxRefreshes
        BY <1>3, <2>4
      <3> QED
        BY <2>2, <2>3, <2>4, <3>1, RefreshedIsLater
    <2>6. PICK k \in Tokens : /\ k = [refresh |-> e.refresh, access |-> e.access]
                              /\ live' = [live EXCEPT ![g] = k]
      BY <2>1, <2>3, <2>5 DEF Issue, NextOf
    <2>7. /\ g \in 1..Len(live) /\ live' \in Seq(Tokens) /\ Len(live') = Len(live)
          /\ \A h \in 1..Len(live) : live'[h] = IF h = g THEN k ELSE live[h]
      BY <2>5, <2>6, LiveUpdated DEF IInv, NextOf
    <2>8. /\ k.refresh >= live[g].refresh /\ k.access >= live[g].access
          /\ k.refresh <= k.access
      <3>1. live[g].refresh \in Int /\ live[g].access \in Int
        BY <2>7, LiveFields DEF IInv
      <3> QED
        BY <2>5, <2>6, <3>1 DEF NextOf
    <2>9. LiveInv'
      BY <2>7, <2>8 DEF IInv, LiveInv
    <2>10. KnownInv'
      <3>1. ASSUME NEW x \in Envelopes \cup {NoCredential}, Known(x) PROVE Known(x)'
        BY <2>6, <2>7, <2>8, <3>1, KnownPersists DEF IInv
      <3> QED
        BY <1>0, <3>1 DEF IInv, KnownInv, Known, TypeOK
    <2>11. TypeOK'
      BY <1>0, <1>1, <1>3, <2>7 DEF IInv, TypeOK, Tokens
    <2> QED
      BY <1>1, <1>3, <2>9, <2>10, <2>11 DEF IInv, ChainInv
  <1> QED
    BY <1>2, <1>3 DEF RefreshLost

\* A refreshed token that cannot be saved stays in memory.
LEMMA SaveFailsPreserves ==
    ASSUME IInv, NEW s \in Sessions, SaveFails(s)
    PROVE  IInv'
  <1> USE DEF IInv, SaveFails
  <1>1. TypeOK'
    BY DEF TypeOK
  <1>2. LiveInv' /\ KnownInv'
    BY DEF LiveInv, KnownInv, Known
  <1>3. AheadInv' /\ OpenInv'
    BY DEF TypeOK, AheadInv, OpenInv
  <1>4. StoredInv' /\ ChainInv'
    BY DEF StoredInv, ChainInv
  <1> QED
    BY <1>1, <1>2, <1>3, <1>4

\* What is saved takes the place of what was read, and keeps its grant alive: it
\* has that credential's refresh token or a later one.
LEMMA SavePreserves ==
    ASSUME IInv, NEW s \in Sessions, Save(s)
    PROVE  IInv'
  <1> USE DEF IInv, Save
  <1>1. base[s] \in Envelopes /\ base[s] # NoCredential /\ base[s].scopes # {}
    BY DEF TypeOK, NoCredential
  <1>2. AccessToken(base[s]) \in (1..MaxGrants) \X (0..MaxRefreshes)
    BY <1>1, Fields
  <1>3. TypeOK'
    <2>1. base[s].scopes \in SUBSET Scopes
      BY <1>1, Fields
    <2> QED
      BY <1>1, <1>2, <2>1 DEF TypeOK
  <1>4. LiveInv'
    BY DEF LiveInv
  <1>5. KnownInv'
    BY DEF TypeOK, KnownInv, Known
  <1>6. AheadInv'
    BY DEF TypeOK, AheadInv
  <1>7. OpenInv' /\ StoredInv'
    BY <1>1 DEF TypeOK, OpenInv, StoredInv, AccessToken
  <1>8. ChainInv'
    <2> SUFFICES ASSUME ~mishap, slot = current[s]
                 PROVE  Usable(slot)' \/ \E t \in Sessions : Carries(t)'
      BY DEF ChainInv
    <2>1. current[s] # NoCredential /\ base[s].grant = current[s].grant
      BY DEF OpenInv, AheadInv
    <2>2. CASE Usable(slot)
      <3>1. base[s].grant \in 1..Len(live)
        BY <1>1 DEF KnownInv, Known
      <3>2. live[base[s].grant].refresh \in Int /\ base[s].refresh \in Int
        BY <1>1, <3>1, LiveFields, Fields
      <3>3. current[s].refresh = live[base[s].grant].refresh
        BY <2>1, <2>2 DEF Usable
      <3>4. base[s].refresh <= live[base[s].grant].refresh
        BY <1>1 DEF KnownInv, Known
      <3>5. current[s].refresh <= base[s].refresh
        BY <3>2, <3>3 DEF AheadInv
      <3> QED
        BY <1>1, <3>2, <3>3, <3>4, <3>5 DEF Usable
    <2>3. ASSUME NEW t \in Sessions, Carries(t)
          PROVE  Usable(slot)' \/ Carries(t)'
      <3>1. CASE t = s
        BY <1>1, <2>3, <3>1 DEF Carries, Usable
      <3>2. CASE t # s
        BY <2>1, <2>3, <3>2 DEF Carries, Usable, TypeOK
      <3> QED
        BY <3>1, <3>2
    <2> QED
      BY <2>1, <2>2, <2>3 DEF ChainInv
  <1> QED
    BY <1>3, <1>4, <1>5, <1>6, <1>7, <1>8

\* A process that ends takes what it has not saved with it.
LEMMA ExitPreserves ==
    ASSUME IInv, NEW s \in Sessions, Exit(s)
    PROVE  IInv'
  <1> USE DEF IInv, Exit
  <1>1. TypeOK'
    BY DEF TypeOK
  <1>2. LiveInv' /\ KnownInv'
    BY DEF TypeOK, LiveInv, KnownInv, Known
  <1>3. AheadInv'
    BY DEF TypeOK, AheadInv
  <1>4. OpenInv' /\ StoredInv'
    BY DEF TypeOK, OpenInv, StoredInv
  <1>5. ChainInv'
    <2> SUFFICES ASSUME ~mishap, base[s] = current[s], slot # NoCredential
                 PROVE  Usable(slot)' \/ \E t \in Sessions : Carries(t)'
      BY DEF ChainInv, TypeOK
    <2>1. ASSUME NEW t \in Sessions, Carries(t) PROVE Carries(t)'
      <3>1. t # s
        BY <2>1 DEF Carries
      <3> QED
        BY <2>1, <3>1 DEF Carries, Usable, TypeOK
    <2>2. Usable(slot) => Usable(slot)'
      BY DEF Usable
    <2> QED
      BY <2>1, <2>2 DEF ChainInv
  <1> QED
    BY <1>1, <1>2, <1>3, <1>4, <1>5

------------------------------------------------------------------------------
(* Other commands that write the store *)

\* A new authorization gives the store a credential of a grant of its own.
LEMMA ReauthorizePreserves ==
    ASSUME IInv, Reauthorize
    PROVE  IInv'
  <1> USE DEF IInv, Reauthorize, sessionVars
  <1> DEFINE k == [refresh |-> 0, access |-> 0]
  <1>1. /\ live \in Seq(Tokens) /\ k \in Tokens /\ Len(live) \in 1..MaxGrants
        /\ live' = Append(live, k)
    BY DEF TypeOK, Tokens, LiveInv
  <1> HIDE DEF k
  <1>2. /\ live' \in Seq(Tokens) /\ Len(live') = Len(live) + 1
        /\ live'[Len(live) + 1] = k
        /\ \A h \in 1..Len(live) : live'[h] = live[h]
    BY <1>1
  <1>3. k.refresh = 0 /\ k.access = 0
    BY DEF k
  <1>4. PICK e : e = NewGrant
    OBVIOUS
  <1>5. /\ e \in Envelopes /\ e # NoCredential
        /\ e.grant = Len(live) + 1 /\ e.refresh = 0 /\ e.access = 0 /\ e.scopes = Scopes
    <2>1. Len(live) \in Nat
      BY <1>1
    <2> QED
      BY <2>1, <1>4, NewGrantIsEnvelope DEF NewGrant
  <1>6. slot' = e /\ stored' = stored \cup {AccessToken(e)}
    BY <1>4
  <1>7. TypeOK'
    BY <1>2, <1>5, <1>6, Fields DEF TypeOK, Tokens
  <1>8. LiveInv'
    <2>1. Len(live') \in 1..MaxGrants
      BY <1>1, <1>2
    <2>2. \A h \in 1..Len(live') : h \in 1..Len(live) \/ h = Len(live) + 1
      BY <1>1, <1>2
    <2> QED
      BY <1>2, <1>3, <2>1, <2>2 DEF LiveInv
  <1>9. ASSUME NEW x \in Envelopes \cup {NoCredential}, Known(x) PROVE Known(x)'
    BY <1>1, <1>2, <1>9 DEF Known
  <1>10. KnownInv'
    <2>1. Known(slot)'
      BY <1>1, <1>2, <1>3, <1>5, <1>6 DEF Known
    <2> QED
      BY <1>9, <2>1 DEF KnownInv, Known, TypeOK
  <1>11. AheadInv' /\ OpenInv' /\ StoredInv'
    BY <1>5, <1>6 DEF AheadInv, OpenInv, StoredInv, AccessToken
  <1>12. ChainInv'
    BY <1>2, <1>3, <1>5, <1>6 DEF ChainInv, Usable
  <1> QED
    BY <1>7, <1>8, <1>10, <1>11, <1>12

\* config clear leaves no credential to keep alive.
LEMMA ClearPreserves ==
    ASSUME IInv, Clear
    PROVE  IInv'
  <1> USE DEF IInv, Clear, sessionVars, history
  <1>1. TypeOK' /\ LiveInv'
    BY DEF TypeOK, LiveInv
  <1>2. KnownInv' /\ AheadInv' /\ OpenInv'
    BY DEF KnownInv, Known, AheadInv, OpenInv
  <1>3. StoredInv' /\ ChainInv'
    BY DEF StoredInv, ChainInv
  <1> QED
    BY <1>1, <1>2, <1>3

------------------------------------------------------------------------------

\* Every step of the system, of any process and of the accounts service, keeps
\* the invariant: one of the lemmas above for each kind of step.
LEMMA NextPreserves == IInv /\ [Next]_vars => IInv'
  <1> SUFFICES ASSUME IInv, [Next]_vars PROVE IInv'
    OBVIOUS
  <1>1. ASSUME NEW s \in Sessions, Step(s) PROVE IInv'
    BY <1>1, OpenPreserves, MovePreserves, SendPreserves, RefreshAcceptedPreserves,
       RefreshLostPreserves, SaveFailsPreserves, SavePreserves, ExitPreserves
       DEF Step
  <1>2. CASE UNCHANGED vars
    BY <1>2 DEF vars, sessionVars, history, IInv, TypeOK, LiveInv, KnownInv, Known,
                AheadInv, OpenInv, StoredInv, ChainInv, Carries, Usable
  <1> QED
    BY <1>1, <1>2, ReauthorizePreserves, ClearPreserves DEF Next

\* The invariant holds of every behaviour.
THEOREM Invariance == Spec => []IInv
  BY InitIInv, NextPreserves, PTL DEF Spec

\* Types: the envelopes, the tokens and the places of Session are what its
\* declarations say.
THEOREM TypeCorrect == Spec => []TypeOK
  <1>1. IInv => TypeOK
    BY DEF IInv
  <1> QED
    BY <1>1, Invariance, PTL

\* persistentTokenSource.Token saves a refreshed token before it hands it out.
THEOREM UsedWasSaved == Spec => []NothingUsedUnsaved
  <1>1. IInv => NothingUsedUnsaved
    BY DEF IInv, StoredInv, NothingUsedUnsaved
  <1> QED
    BY <1>1, Invariance, PTL

\* persistentTokenSource.persist moves the scopes and the current envelope
\* together, and only to what is in the store.
THEOREM ScopesAreCurrent == Spec => []ScopesFollowToken
  <1>1. IInv => ScopesFollowToken
    BY DEF IInv, AheadInv, OpenInv, ScopesFollowToken
  <1> QED
    BY <1>1, Invariance, PTL

\* Without a mishap, and with no session between its refresh and its save, the
\* credential in the store can be refreshed: however many processes share it.
THEOREM StoredIsUsable == Spec => []StoredStaysUsable
  <1>1. IInv => StoredStaysUsable
    BY DEF IInv, StoredInv, ChainInv, Carries, StoredStaysUsable
  <1> QED
    BY <1>1, Invariance, PTL
=============================================================================
