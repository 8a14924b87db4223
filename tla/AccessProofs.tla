---------------------------- MODULE AccessProofs ----------------------------
(***************************************************************************)
(* A revocation holds as long as the process that made it, a challenge     *)
(* opens one session, no connect or re-hydration takes back debt, and the  *)
(* limiter's window holds, for any number of vaults, clients and tokens.   *)
(***************************************************************************)
EXTENDS Access, FiniteSetTheorems, TLAPS

-----------------------------------------------------------------------------
(* Revocation. *)

\* A token is named by the number of tokens handed out before it; this process
\* has minted no token of a later epoch than its own, and those it revoked
\* are of an earlier one.
EpochInv ==
    /\ IsFiniteSet(issued) /\ sessionEpoch \in Nat
    /\ \A t \in issued : t.id \in 1..Cardinality(issued) /\ t.epoch \in Nat
    /\ minted \subseteq issued /\ revoked \subseteq issued
    /\ \A t \in minted : t.epoch <= sessionEpoch
    /\ \A t \in revoked \cap minted : t.epoch < sessionEpoch

\* Steps that leave tokens and epoch alone.
LEMMA EpochQuiet ==
    ASSUME EpochInv, UNCHANGED <<issued, minted, revoked, sessionEpoch>>
    PROVE  EpochInv'
  BY DEF EpochInv

\* A new token is of the current epoch and was never revoked.
LEMMA EpochMints ==
    ASSUME EpochInv, NEW v, NEW proof, createSession(v, proof)
    PROVE  EpochInv'
<1> DEFINE t == [id |-> Cardinality(issued) + 1, vault |-> v, proof |-> proof,
                 expires |-> now + TokenTtl, epoch |-> sessionEpoch]
<1>1. /\ issued' = issued \cup {t} /\ minted' = minted \cup {t}
      /\ revoked' = revoked /\ sessionEpoch' = sessionEpoch
  BY DEF createSession
<1>2. t.id = Cardinality(issued) + 1 /\ t.epoch = sessionEpoch
  OBVIOUS
<1> HIDE DEF t
<1>3. Cardinality(issued) \in Nat
  BY FS_CardinalityType DEF EpochInv
<1>4. t \notin issued
  BY <1>2, <1>3 DEF EpochInv
<1>5. IsFiniteSet(issued') /\ Cardinality(issued') = Cardinality(issued) + 1
  BY <1>1, <1>4, FS_AddElement DEF EpochInv
<1>6. \A u \in issued' : u.id \in 1..Cardinality(issued') /\ u.epoch \in Nat
  BY <1>1, <1>2, <1>3, <1>5 DEF EpochInv
<1>7. /\ \A u \in minted' : u.epoch <= sessionEpoch'
      /\ \A u \in revoked' \cap minted' : u.epoch < sessionEpoch'
  BY <1>1, <1>2, <1>4 DEF EpochInv
<1> QED BY <1>1, <1>5, <1>6, <1>7 DEF EpochInv

LEMMA EpochRevokes ==
    ASSUME EpochInv, NEW t, revokeSession(t)
    PROVE  EpochInv'
  BY DEF EpochInv, revokeSession

\* A reset or a restart begins a new life, with no token of its own.
LEMMA EpochForgets ==
    ASSUME EpochInv, (\E k \in Keys : reset(k)) \/ Restart
    PROVE  EpochInv'
  BY DEF EpochInv, reset, Restart

LEMMA EpochStep == EpochInv /\ [Next]_vars => EpochInv'
<1> SUFFICES ASSUME EpochInv, [Next]_vars PROVE EpochInv'
  OBVIOUS
<1>1. CASE Tick \/ UNCHANGED vars
  BY <1>1, EpochQuiet DEF Tick, vars, registry, history
<1>2. ASSUME NEW k \in Keys, Passes(k) PROVE EpochInv'
  BY <1>2, EpochQuiet DEF Passes, registry, history
<1>3. ASSUME NEW k \in Keys, Arrives(k) PROVE EpochInv'
  <2>1. ASSUME NEW v \in Vaults, challenge(k, v) PROVE EpochInv'
    BY <2>1, EpochQuiet DEF challenge, registry, history
  <2>2. ASSUME NEW r \in Requests, NEW v \in Vaults, connect(k, r, v)
        PROVE  EpochInv'
    BY <2>2, EpochQuiet DEF connect, registry, history
  <2>3. ASSUME NEW t, disconnect(k, t) PROVE EpochInv'
    BY <2>3, EpochRevokes DEF disconnect
  <2>4. ASSUME NEW t, read(k, t) PROVE EpochInv'
    BY <2>4, EpochQuiet DEF read, getSession, history
  <2>5. ASSUME NEW t, NEW r, rehydrate(k, r, t) PROVE EpochInv'
    BY <2>5, EpochQuiet DEF rehydrate, getSession, history
  <2>6. ASSUME NEW t, openPosition(k, t) PROVE EpochInv'
    BY <2>6, EpochQuiet DEF openPosition, getSession, history
  <2>7. ASSUME NEW t, NEW d, act(k, t, d) PROVE EpochInv'
    BY <2>7, EpochQuiet DEF act, getSession, history
  <2>8. CASE reset(k)
    BY <2>8, EpochForgets
  <2> QED BY <1>3, <2>1, <2>2, <2>3, <2>4, <2>5, <2>6, <2>7, <2>8
          DEF Arrives, TokenRequest
<1>4. ASSUME NEW r \in Requests, Continues(r) PROVE EpochInv'
  <2>1. CASE connectFails(r) \/ readCollateral(r) \/ connectDecides(r)
             \/ rehydrated(r)
    BY <2>1, EpochQuiet
    DEF connectFails, readCollateral, connectDecides, rehydrated, registry,
        history
  <2>2. CASE connectOpens(r)
    BY <2>2, EpochMints DEF connectOpens
  <2> QED BY <1>4, <2>1, <2>2 DEF Continues
<1>5. CASE Restart
  BY <1>5, EpochForgets
<1> QED BY <1>1, <1>2, <1>3, <1>4, <1>5 DEF Next

\* A token this process minted and revoked is refused for the rest of its
\* life, by the map and by the stateless fallback (sessions.ts:48-54).
THEOREM RevocationHolds == Spec => []RevokedStaysOut
<1>1. Init => EpochInv
  <2>1. IsFiniteSet({}) /\ Cardinality({}) = 0
    BY FS_EmptySet
  <2> QED BY <2>1 DEF Init, EpochInv
<1>2. EpochInv => RevokedStaysOut
  BY DEF EpochInv, RevokedStaysOut, verifyToken
<1> QED BY <1>1, <1>2, EpochStep, PTL DEF Spec

-----------------------------------------------------------------------------
(* Challenges. *)

InFlight == [at : {"read", "prove", "open", "hydrate"}, vault : Vaults,
             proof : Challenge \cup {NoChallenge}, sats : Nat,
             existing : Positions]

\* What the steps need to know of the types.
AccessTypes ==
    /\ now \in Nat /\ asked \in 0..MaxChallenges
    /\ challenges \subseteq Challenge
    /\ positions \in [Vaults -> Positions]
    /\ inflight \in [Requests -> InFlight \cup {NoRequest}]
    /\ \A t \in issued : t.vault \in Vaults

Busy == {r \in Requests : inflight[r] # NoRequest}
Proving == {r \in Busy : inflight[r].proof # NoChallenge}
Proven == {t \in issued : t.proof # NoChallenge}

\* Challenges are told apart by their number.  One that a request or a token
\* carries was issued for its vault and is open no more, and no other request
\* or token carries it.
ChallengeInv ==
    /\ \A c \in challenges : c.id \in 1..asked
    /\ \A c, d \in challenges : c.id = d.id => c = d
    /\ \A r \in Proving :
         /\ inflight[r].proof.id \in 1..asked
         /\ inflight[r].proof.vault = inflight[r].vault
         /\ \A c \in challenges : c.id # inflight[r].proof.id
    /\ \A t \in Proven :
         /\ t.proof.id \in 1..asked /\ t.proof.vault = t.vault
         /\ \A c \in challenges : c.id # t.proof.id
    /\ \A r, q \in Proving : inflight[r].proof.id = inflight[q].proof.id => r = q
    /\ \A r \in Proving, t \in Proven : inflight[r].proof.id # t.proof.id
    /\ \A t, u \in Proven : t.proof.id = u.proof.id => t = u

AccessInv == AccessTypes /\ ChallengeInv

-----------------------------------------------------------------------------
LEMMA ReadingType ==
    ASSUME NEW v \in Vaults, NEW c \in Challenge \cup {NoChallenge}
    PROVE  /\ Reading(v, c) \in InFlight
           /\ Reading(v, c).vault = v /\ Reading(v, c).proof = c
  BY DEF Reading, InFlight, Positions

LEMMA RestoredType ==
    ASSUME NEW p \in Positions, NEW n \in Nat
    PROVE  Restored(p, n) \in Positions
  BY DEF Restored, Positions, Position

\* Steps that leave challenges, requests and tokens alone.
LEMMA ChallengeQuiet ==
    ASSUME ChallengeInv, UNCHANGED <<asked, inflight, issued>>,
           challenges' \subseteq challenges
    PROVE  ChallengeInv'
  BY DEF ChallengeInv, Proving, Busy, Proven

\* Steps that end requests, or move them on with the proof and the vault they
\* have.
LEMMA ChallengeMoves ==
    ASSUME AccessInv, UNCHANGED <<asked, issued, challenges>>,
           \A r \in Busy' : /\ r \in Busy
                            /\ inflight'[r].proof = inflight[r].proof
                            /\ inflight'[r].vault = inflight[r].vault
    PROVE  ChallengeInv'
<1>1. Proving' \subseteq Proving
  BY DEF Proving, Busy
<1>2. \A r \in Proving' : /\ inflight'[r].proof = inflight[r].proof
                          /\ inflight'[r].vault = inflight[r].vault
  BY DEF Proving
<1> QED BY <1>1, <1>2 DEF AccessInv, ChallengeInv, Proven

\* A challenge is issued under a new number.
LEMMA ChallengeIssues ==
    ASSUME AccessInv, NEW v \in Vaults, issueOwnershipChallenge(v),
           UNCHANGED <<inflight, issued, now>>
    PROVE  /\ ChallengeInv' /\ asked' \in 0..MaxChallenges
           /\ challenges' \subseteq Challenge
<1> DEFINE c == [id |-> asked', vault |-> v, expires |-> now + ChallengeTtl]
<1>1. /\ asked' = asked + 1 /\ asked' \in 1..MaxChallenges
      /\ challenges' = {d \in challenges : d.expires > now} \cup {c}
  BY AccessAssumption DEF issueOwnershipChallenge, AccessInv, AccessTypes
<1>2. c \in Challenge /\ c.id = asked'
  BY <1>1, AccessAssumption DEF Challenge, AccessInv, AccessTypes
<1> HIDE DEF c
<1>3. asked \in Nat
  BY DEF AccessInv, AccessTypes
<1>4. /\ \A d \in challenges' : d.id \in 1..asked'
      /\ \A d, e \in challenges' : d.id = e.id => d = e
  BY <1>1, <1>2, <1>3 DEF AccessInv, ChallengeInv
<1>5. /\ \A r \in Proving : /\ inflight[r].proof.id \in 1..asked'
                            /\ \A d \in challenges' : d.id # inflight[r].proof.id
      /\ \A t \in Proven : /\ t.proof.id \in 1..asked'
                           /\ \A d \in challenges' : d.id # t.proof.id
  BY <1>1, <1>2, <1>3 DEF AccessInv, ChallengeInv
<1>6. Proving' = Proving /\ Proven' = Proven
  BY DEF Proving, Busy, Proven
<1>7. ChallengeInv'
  BY <1>4, <1>5, <1>6 DEF AccessInv, ChallengeInv, Proven
<1> QED BY <1>1, <1>2, <1>7 DEF AccessInv, AccessTypes

\* A connect takes the challenge it presents out of the open ones.
LEMMA ChallengeConnects ==
    ASSUME AccessInv, NEW k \in Keys, NEW r \in Requests, NEW v \in Vaults,
           connect(k, r, v)
    PROVE  AccessInv'
<1>1. /\ inflight[r] = NoRequest
      /\ UNCHANGED <<now, positions, issued, asked>>
  BY DEF connect, rateLimit, history
<1>2. CASE UNCHANGED inflight /\ challenges' \subseteq challenges
  BY <1>1, <1>2, ChallengeQuiet DEF AccessInv, AccessTypes
<1>3. ASSUME NEW c \in Challenge \cup {NoChallenge},
             inflight' = [inflight EXCEPT ![r] = Reading(v, c)],
             challenges' \subseteq challenges,
             c # NoChallenge =>
                 c \in challenges /\ c.vault = v /\ c \notin challenges'
      PROVE  AccessInv'
  <2>1. /\ inflight'[r] = Reading(v, c)
        /\ \A q \in Requests \ {r} : inflight'[q] = inflight[q]
        /\ inflight' \in [Requests -> InFlight \cup {NoRequest}]
    BY <1>3, ReadingType DEF AccessInv, AccessTypes
  <2>2. inflight'[r].proof = c /\ inflight'[r].vault = v
    BY <2>1, ReadingType
  <2>3. \A q \in Proving' : IF q = r THEN c # NoChallenge ELSE q \in Proving
    <3>1. \A q \in Proving' : /\ q \in Requests /\ inflight'[q] # NoRequest
                            /\ inflight'[q].proof # NoChallenge
      BY DEF Proving, Busy
    <3>2. \A q \in Requests :
            inflight[q] # NoRequest /\ inflight[q].proof # NoChallenge
              => q \in Proving
      BY DEF Proving, Busy
    <3>3. TAKE q \in Proving'
    <3>4. q \in Requests /\ inflight'[q] # NoRequest
          /\ inflight'[q].proof # NoChallenge
      BY <3>1, <3>3
    <3>5. CASE q = r
      BY <2>2, <3>4, <3>5
    <3>6. CASE q # r
      <4>1. inflight'[q] = inflight[q]
        BY <2>1, <3>4, <3>6
      <4> QED BY <3>2, <3>4, <3>6, <4>1
    <3> QED BY <3>5, <3>6
  <2>4. \A q \in Proving' :
          /\ q = r => inflight'[q].proof = c /\ inflight'[q].vault = v
          /\ q # r => /\ inflight'[q].proof = inflight[q].proof
                      /\ inflight'[q].vault = inflight[q].vault
    BY <2>1, <2>2 DEF Proving, Busy
  <2>5. Proven' = Proven
    BY <1>1 DEF Proven
  <2>6. c # NoChallenge =>
          /\ c.id \in 1..asked /\ \A d \in challenges' : d.id # c.id
          /\ \A q \in Proving : inflight[q].proof.id # c.id
          /\ \A t \in Proven : t.proof.id # c.id
    BY <1>3 DEF AccessInv, ChallengeInv
  <2>7. /\ \A d \in challenges' : d.id \in 1..asked'
        /\ \A d, e \in challenges' : d.id = e.id => d = e
    BY <1>1, <1>3 DEF AccessInv, ChallengeInv
  <2>8. \A q \in Proving' :
          /\ inflight'[q].proof.id \in 1..asked'
          /\ inflight'[q].proof.vault = inflight'[q].vault
          /\ \A d \in challenges' : d.id # inflight'[q].proof.id
    BY <1>1, <1>3, <2>3, <2>4, <2>6 DEF AccessInv, ChallengeInv
  <2>9. \A t \in Proven' :
          /\ t.proof.id \in 1..asked' /\ t.proof.vault = t.vault
          /\ \A d \in challenges' : d.id # t.proof.id
    BY <1>1, <1>3, <2>5 DEF AccessInv, ChallengeInv
  <2>10. /\ \A q, p \in Proving' :
              inflight'[q].proof.id = inflight'[p].proof.id => q = p
         /\ \A q \in Proving', t \in Proven' :
              inflight'[q].proof.id # t.proof.id
    BY <2>3, <2>4, <2>5, <2>6 DEF AccessInv, ChallengeInv
  <2>11. \A t, u \in Proven' : t.proof.id = u.proof.id => t = u
    BY <2>5 DEF AccessInv, ChallengeInv
  <2>12. ChallengeInv'
    BY <2>7, <2>8, <2>9, <2>10, <2>11 DEF ChallengeInv
  <2> QED BY <1>1, <1>3, <2>1, <2>12 DEF AccessInv, AccessTypes
<1>4. CASE ~RequireProof /\ UNCHANGED challenges
           /\ inflight' = [inflight EXCEPT ![r] = Reading(v, NoChallenge)]
  BY <1>3, <1>4
<1>5. ASSUME NEW c \in challenges, consumeOwnershipChallenge(c, v),
             \/ inflight' = [inflight EXCEPT ![r] = Reading(v, c)]
             \/ UNCHANGED inflight
      PROVE  AccessInv'
  BY <1>2, <1>3, <1>5 DEF consumeOwnershipChallenge, AccessInv, AccessTypes
<1> QED BY <1>4, <1>5 DEF connect

\* The session that opens takes the proof over from its request.
LEMMA ChallengeOpens ==
    ASSUME AccessInv, EpochInv, NEW r \in Requests, connectOpens(r)
    PROVE  AccessInv'
<1> DEFINE t == [id |-> Cardinality(issued) + 1, vault |-> inflight[r].vault,
                 proof |-> inflight[r].proof, expires |-> now + TokenTtl,
                 epoch |-> sessionEpoch]
<1>1. /\ issued' = issued \cup {t} /\ r \in Busy
      /\ UNCHANGED <<now, positions, asked, challenges>>
      /\ inflight' = [inflight EXCEPT ![r] = NoRequest]
  BY DEF connectOpens, createSession, limits, Busy
<1>2. t.vault = inflight[r].vault /\ t.proof = inflight[r].proof
  OBVIOUS
<1> HIDE DEF t
<1>3. inflight[r].vault \in Vaults
  BY <1>1 DEF AccessInv, AccessTypes, Busy, InFlight
<1>4. /\ inflight' \in [Requests -> InFlight \cup {NoRequest}]
      /\ inflight'[r] = NoRequest
      /\ \A q \in Requests \ {r} : inflight'[q] = inflight[q]
  BY <1>1 DEF AccessInv, AccessTypes
<1>5. \A q \in Proving' : q \in Proving /\ q # r /\ inflight'[q] = inflight[q]
  BY <1>4 DEF Proving, Busy
<1>6. \A u \in Proven' : u \in Proven \/ (u = t /\ r \in Proving)
  <2>1. \A u \in Proven' : (u \in issued \/ u = t) /\ u.proof # NoChallenge
    BY <1>1 DEF Proven
  <2>2. inflight[r].proof # NoChallenge => r \in Proving
    BY <1>1 DEF Proving
  <2>3. TAKE u \in Proven'
  <2>4. CASE u \in issued
    BY <2>1, <2>3, <2>4 DEF Proven
  <2>5. CASE u = t
    <3>1. t.proof # NoChallenge
      BY <2>1, <2>3, <2>5
    <3> QED BY <1>2, <2>2, <2>5, <3>1
  <2> QED BY <2>1, <2>3, <2>4, <2>5
<1>7. ChallengeInv'
  <2>1. /\ \A c \in challenges' : c.id \in 1..asked'
        /\ \A c, d \in challenges' : c.id = d.id => c = d
    BY <1>1 DEF AccessInv, ChallengeInv
  <2>2. \A q \in Proving' :
          /\ inflight'[q].proof.id \in 1..asked'
          /\ inflight'[q].proof.vault = inflight'[q].vault
          /\ \A c \in challenges' : c.id # inflight'[q].proof.id
    BY <1>1, <1>5 DEF AccessInv, ChallengeInv
  <2>3. \A u \in Proven' :
          /\ u.proof.id \in 1..asked' /\ u.proof.vault = u.vault
          /\ \A c \in challenges' : c.id # u.proof.id
    BY <1>1, <1>2, <1>6 DEF AccessInv, ChallengeInv
  <2>4. /\ \A q, p \in Proving' :
             inflight'[q].proof.id = inflight'[p].proof.id => q = p
        /\ \A q \in Proving', u \in Proven' :
             inflight'[q].proof.id # u.proof.id
    BY <1>2, <1>5, <1>6 DEF AccessInv, ChallengeInv
  <2>5. \A u, w \in Proven' : u.proof.id = w.proof.id => u = w
    BY <1>2, <1>6 DEF AccessInv, ChallengeInv
  <2> QED BY <2>1, <2>2, <2>3, <2>4, <2>5 DEF ChallengeInv
<1> QED BY <1>1, <1>2, <1>3, <1>4, <1>7 DEF AccessInv, AccessTypes

\* The steps of a request under way, but the last of a connect.
LEMMA ChallengeContinues ==
    ASSUME AccessInv, NEW r \in Requests,
           connectFails(r) \/ readCollateral(r) \/ connectDecides(r)
             \/ rehydrated(r)
    PROVE  AccessInv'
<1>1. /\ inflight[r] # NoRequest
      /\ UNCHANGED <<now, issued, asked, challenges>>
  BY DEF connectFails, readCollateral, connectDecides, rehydrated, limits,
         history
<1>2. inflight[r] \in InFlight /\ inflight[r].vault \in Vaults
      /\ positions[inflight[r].vault] \in Positions /\ inflight[r].sats \in Nat
  BY <1>1 DEF AccessInv, AccessTypes, InFlight
<1>3. positions' \in [Vaults -> Positions]
  <2>1. CASE UNCHANGED positions
    BY <2>1 DEF AccessInv, AccessTypes
  <2>2. CASE connectVault(r)
    <3>1. Restored(positions[inflight[r].vault], inflight[r].sats) \in Positions
      BY <1>2, RestoredType
    <3> QED BY <2>2, <3>1 DEF connectVault, AccessInv, AccessTypes
  <2> QED BY <2>1, <2>2
          DEF connectFails, readCollateral, connectDecides, rehydrated
<1>4. \E x \in InFlight \cup {NoRequest} :
        /\ inflight' = [inflight EXCEPT ![r] = x]
        /\ x # NoRequest => /\ x.proof = inflight[r].proof
                            /\ x.vault = inflight[r].vault
  <2>1. CASE inflight' = [inflight EXCEPT ![r] = NoRequest]
    BY <2>1
  <2>2. CASE readCollateral(r)
    <3>1. PICK n \in Sats : inflight' = [inflight EXCEPT
              ![r].at = "prove", ![r].sats = n,
              ![r].existing = positions[inflight[r].vault]]
      BY <2>2 DEF readCollateral
    <3> DEFINE x == [inflight[r] EXCEPT !.at = "prove", !.sats = n,
                         !.existing = positions[inflight[r].vault]]
    <3>2. inflight' = [inflight EXCEPT ![r] = x]
      BY <3>1 DEF AccessInv, AccessTypes
    <3>3. x \in InFlight /\ x.proof = inflight[r].proof
          /\ x.vault = inflight[r].vault
      BY <1>2, AccessAssumption DEF InFlight
    <3> QED BY <3>2, <3>3
  <2>3. CASE inflight' = [inflight EXCEPT ![r].at = "open"]
    <3> DEFINE x == [inflight[r] EXCEPT !.at = "open"]
    <3>1. inflight' = [inflight EXCEPT ![r] = x]
      BY <2>3
    <3>2. x \in InFlight /\ x.proof = inflight[r].proof
          /\ x.vault = inflight[r].vault
      BY <1>2 DEF InFlight
    <3> QED BY <3>1, <3>2
  <2> QED BY <2>1, <2>2, <2>3 DEF connectFails, connectDecides, rehydrated
<1>5. inflight' \in [Requests -> InFlight \cup {NoRequest}]
  BY <1>4 DEF AccessInv, AccessTypes
<1>6. \A q \in Busy' : /\ q \in Busy
                       /\ inflight'[q].proof = inflight[q].proof
                       /\ inflight'[q].vault = inflight[q].vault
  BY <1>1, <1>4 DEF Busy, AccessInv, AccessTypes
<1>7. ChallengeInv'
  BY <1>1, <1>6, ChallengeMoves
<1> QED BY <1>1, <1>3, <1>5, <1>7 DEF AccessInv, AccessTypes

\* The requests that come with a token.
LEMMA ChallengeTokens ==
    ASSUME AccessInv, NEW k \in Keys, NEW t \in issued, TokenRequest(k, t)
    PROVE  AccessInv'
<1>1. UNCHANGED <<now, issued, asked, challenges>>
  BY DEF TokenRequest, disconnect, revokeSession, read, rehydrate,
         openPosition, act, rateLimit, history
<1>2. t.vault \in Vaults
  BY DEF AccessInv, AccessTypes
<1>3. CASE UNCHANGED <<positions, inflight>>
  BY <1>1, <1>3, ChallengeQuiet DEF AccessInv, AccessTypes
<1>4. ASSUME NEW r \in Requests, rehydrate(k, r, t) PROVE AccessInv'
  <2>1. PICK n \in Sats \cup {0} : inflight' = [inflight EXCEPT ![r] =
            [Reading(t.vault, NoChallenge) EXCEPT !.at = "hydrate", !.sats = n]]
    BY <1>4 DEF rehydrate
  <2> DEFINE x == [Reading(t.vault, NoChallenge) EXCEPT
                      !.at = "hydrate", !.sats = n]
  <2>2. x \in InFlight /\ x.proof = NoChallenge
    <3>1. n \in Nat
      BY AccessAssumption
    <3>2. /\ Reading(t.vault, NoChallenge) \in InFlight
          /\ Reading(t.vault, NoChallenge).proof = NoChallenge
      BY <1>2, ReadingType
    <3> HIDE DEF Reading
    <3> QED BY <3>1, <3>2 DEF InFlight
  <2>3. inflight' = [inflight EXCEPT ![r] = x] /\ UNCHANGED positions
    BY <1>4, <2>1 DEF rehydrate
  <2> HIDE DEF x
  <2>4. inflight' \in [Requests -> InFlight \cup {NoRequest}]
    BY <2>2, <2>3 DEF AccessInv, AccessTypes
  <2>5. \A q \in Proving' : q \in Proving /\ inflight'[q] = inflight[q]
    BY <2>2, <2>3 DEF Proving, Busy, AccessInv, AccessTypes
  <2>6. ChallengeInv'
    BY <1>1, <2>5 DEF AccessInv, ChallengeInv, Proven
  <2> QED BY <1>1, <2>3, <2>4, <2>6 DEF AccessInv, AccessTypes
<1>5. ASSUME UNCHANGED inflight, positions' \in [Vaults -> Positions]
      PROVE  AccessInv'
  BY <1>1, <1>5, ChallengeQuiet DEF AccessInv, AccessTypes
<1>6. CASE openPosition(k, t)
  <2>1. PICK n \in Sats : positions' = [positions EXCEPT ![HomeVault] =
                                            Restored(NoPosition, n)]
    BY <1>6 DEF openPosition
  <2>2. Restored(NoPosition, n) \in Positions
    BY RestoredType, AccessAssumption DEF Positions
  <2>3. positions' \in [Vaults -> Positions]
    BY <2>1, <2>2 DEF AccessInv, AccessTypes
  <2> QED BY <1>5, <1>6, <2>3 DEF openPosition
<1>7. ASSUME NEW d \in {1, -1}, act(k, t, d) PROVE AccessInv'
  <2> DEFINE p == positions[t.vault]
  <2>1. p \in Position /\ p.debt + d \in Nat /\ p.nonce + 1 \in Nat
    <3>1. p \in Position
      BY <1>2, <1>7 DEF act, AccessInv, AccessTypes, Positions
    <3>2. p.debt \in Nat /\ p.nonce \in Nat /\ (d = -1 => p.debt > 0)
      BY <1>7, <3>1 DEF act, Position
    <3> QED BY <3>1, <3>2
  <2>2. positions' = [positions EXCEPT ![t.vault] =
                         [p EXCEPT !.debt = p.debt + d, !.nonce = p.nonce + 1]]
    BY <1>2, <1>7 DEF act, AccessInv, AccessTypes
  <2>3. [p EXCEPT !.debt = p.debt + d, !.nonce = p.nonce + 1] \in Position
    BY <2>1 DEF Position
  <2>4. positions' \in [Vaults -> Positions]
    BY <2>2, <2>3 DEF AccessInv, AccessTypes, Positions
  <2> QED BY <1>5, <1>7, <2>4 DEF act
<1> QED BY <1>3, <1>4, <1>6, <1>7 DEF TokenRequest, disconnect, read

LEMMA ChallengeStep == AccessInv /\ EpochInv /\ [Next]_vars => AccessInv'
<1> SUFFICES ASSUME AccessInv, EpochInv, [Next]_vars PROVE AccessInv'
  OBVIOUS
<1>1. CASE Tick
  BY <1>1, ChallengeQuiet DEF Tick, history, AccessInv, AccessTypes
<1>2. CASE UNCHANGED vars
  BY <1>2, ChallengeQuiet DEF vars, limits, history, AccessInv, AccessTypes
<1>3. ASSUME NEW k \in Keys, Passes(k) PROVE AccessInv'
  BY <1>3, ChallengeQuiet
  DEF Passes, rateLimit, rateLimited, history, AccessInv, AccessTypes
<1>4. ASSUME NEW k \in Keys, Arrives(k) PROVE AccessInv'
  <2>1. ASSUME NEW v \in Vaults, challenge(k, v) PROVE AccessInv'
    BY <2>1, ChallengeIssues
    DEF challenge, rateLimit, history, AccessInv, AccessTypes
  <2>2. ASSUME NEW r \in Requests, NEW v \in Vaults, connect(k, r, v)
        PROVE  AccessInv'
    BY <2>2, ChallengeConnects
  <2>3. CASE disconnect(k, NoToken)
    BY <2>3, ChallengeQuiet
    DEF disconnect, revokeSession, rateLimit, AccessInv, AccessTypes
  <2>4. CASE reset(k)
    <3>1. positions' \in [Vaults -> Positions]
      BY <2>4 DEF reset, Positions
    <3> QED BY <2>4, <3>1, ChallengeQuiet
            DEF reset, rateLimit, AccessInv, AccessTypes
  <2> QED BY <1>4, <2>1, <2>2, <2>3, <2>4, ChallengeTokens DEF Arrives
<1>5. ASSUME NEW r \in Requests, Continues(r) PROVE AccessInv'
  BY <1>5, ChallengeContinues, ChallengeOpens DEF Continues
<1>6. CASE Restart
  <2>1. Proving' = {} /\ Proven' = Proven /\ challenges' = {}
    BY <1>6 DEF Restart, Proving, Busy, Proven
  <2>2. ChallengeInv'
    BY <1>6, <2>1 DEF Restart, AccessInv, ChallengeInv
  <2> QED BY <1>6, <2>2 DEF Restart, AccessInv, AccessTypes
<1> QED BY <1>1, <1>2, <1>3, <1>4, <1>5, <1>6 DEF Next

\* The inductive invariant: types, challenges and token numbers.
THEOREM AccessInvariant == Spec => [](AccessInv /\ EpochInv)
<1>1. Init => AccessInv
  <2>1. ASSUME Init PROVE Proving = {} /\ Proven = {} /\ challenges = {}
    BY <2>1 DEF Init, Proving, Busy, Proven
  <2>2. Init => ChallengeInv
    BY <2>1 DEF Init, ChallengeInv
  <2>3. Init => AccessTypes
    BY AccessAssumption DEF Init, LimiterInit, AccessTypes, Positions
  <2> QED BY <2>2, <2>3 DEF AccessInv
<1>2. Init => EpochInv
  <2>1. IsFiniteSet({}) /\ Cardinality({}) = 0
    BY FS_EmptySet
  <2> QED BY <2>1 DEF Init, EpochInv
<1> QED BY <1>1, <1>2, EpochStep, ChallengeStep, PTL DEF Spec

\* Two connects that present the same challenge never both open a proven
\* session, and the proof is of the vault of the session (ownership.ts:62-82).
THEOREM ChallengeHolds == Spec => []ChallengeOpensOneSession
<1>1. AccessInv => ChallengeOpensOneSession
  BY DEF AccessInv, ChallengeInv, ChallengeOpensOneSession, Proven
<1> QED BY <1>1, AccessInvariant, PTL

-----------------------------------------------------------------------------
(* Debt and nonces. *)

\* What a step may do to one position: RestoreKeepsLedger of one vault.
LedgerKept(p, q) ==
    p # NoPosition /\ q # p =>
        \/ q = NoPosition
        \/ q.nonce > p.nonce
        \/ q.nonce = p.nonce /\ q.debt = p.debt /\ (p.frozen => q.frozen)

\* A restored position has the debt and the nonce of the stored one.
LEMMA RestoredKept ==
    ASSUME NEW p \in Positions, NEW n
    PROVE  LedgerKept(p, Restored(p, n))
<1>1. CASE p = NoPosition
  BY <1>1 DEF LedgerKept
<1>2. CASE p \in Position
  <2> DEFINE q == [p EXCEPT !.collateral = n, !.frozen = p.frozen \/ p.debt > n]
  <2>1. q.nonce = p.nonce /\ q.debt = p.debt /\ q.frozen = (p.frozen \/ p.debt > n)
    BY <1>2 DEF Position
  <2>2. Restored(p, n) = q
    BY <1>2, AccessAssumption DEF Restored
  <2> QED BY <2>1, <2>2 DEF LedgerKept
<1> QED BY <1>1, <1>2 DEF Positions

\* A connect or a re-hydration restores the position as it is when it decides,
\* not as it was when the request read it.
LEMMA ConnectKept ==
    ASSUME AccessTypes, NEW r \in Requests, inflight[r] # NoRequest,
           connectVault(r), NEW v \in Vaults
    PROVE  LedgerKept(positions[v], positions'[v])
<1> DEFINE w == inflight[r].vault
<1>1. w \in Vaults /\ \A u \in Vaults : positions[u] \in Positions
  BY DEF AccessTypes, InFlight
<1>2. positions' = [positions EXCEPT ![w] = Restored(positions[w], inflight[r].sats)]
  BY DEF connectVault
<1>3. positions'[v] = IF v = w THEN Restored(positions[w], inflight[r].sats)
                               ELSE positions[v]
  BY <1>1, <1>2 DEF AccessTypes
<1>4. CASE v = w
  BY <1>1, <1>3, <1>4, RestoredKept
<1>5. CASE v # w
  BY <1>3, <1>5 DEF LedgerKept
<1> QED BY <1>4, <1>5

LEMMA TokenKept ==
    ASSUME AccessTypes, NEW k \in Keys, NEW t \in issued, TokenRequest(k, t),
           NEW v \in Vaults
    PROVE  LedgerKept(positions[v], positions'[v])
<1>1. CASE UNCHANGED positions
  BY <1>1 DEF LedgerKept
<1>2. CASE openPosition(k, t)
  <2>1. PICK n \in Sats : positions' = [positions EXCEPT ![HomeVault] =
                                            Restored(NoPosition, n)]
    BY <1>2 DEF openPosition
  <2>2. v # HomeVault => positions'[v] = positions[v]
    BY <2>1 DEF AccessTypes
  <2>3. positions[HomeVault] = NoPosition
    BY <1>2 DEF openPosition
  <2> QED BY <2>2, <2>3 DEF LedgerKept
<1>3. ASSUME NEW d \in {1, -1}, act(k, t, d)
      PROVE  LedgerKept(positions[v], positions'[v])
  <2> DEFINE p == positions[t.vault]
  <2>1. t.vault \in Vaults /\ p \in Position
    BY <1>3 DEF act, AccessTypes, Positions
  <2>2. positions' = [positions EXCEPT ![t.vault] =
                         [p EXCEPT !.debt = p.debt + d, !.nonce = p.nonce + 1]]
    BY <1>3, <2>1 DEF act, AccessTypes
  <2>3. CASE v = t.vault
    <3>1. positions'[v] = [p EXCEPT !.debt = p.debt + d, !.nonce = p.nonce + 1]
      BY <2>1, <2>2, <2>3 DEF AccessTypes
    <3>2. positions'[v].nonce = p.nonce + 1 /\ p.nonce \in Nat
      BY <2>1, <3>1 DEF Position
    <3> QED BY <2>3, <3>2 DEF LedgerKept
  <2>4. CASE v # t.vault
    BY <2>1, <2>2, <2>4 DEF LedgerKept, AccessTypes
  <2> QED BY <2>3, <2>4
<1> QED BY <1>1, <1>2, <1>3 DEF TokenRequest, disconnect, read, rehydrate

LEMMA StepKept ==
    ASSUME AccessTypes, [Next]_vars, NEW v \in Vaults
    PROVE  LedgerKept(positions[v], positions'[v])
<1>1. CASE UNCHANGED positions
  BY <1>1 DEF LedgerKept
<1>2. ASSUME NEW k \in Keys, Arrives(k)
      PROVE  LedgerKept(positions[v], positions'[v])
  <2>1. CASE \E t \in issued : TokenRequest(k, t)
    BY <2>1, TokenKept
  <2>2. CASE reset(k)
    BY <2>2 DEF reset, LedgerKept
  <2>3. CASE UNCHANGED positions
    BY <1>1, <2>3
  <2> QED BY <1>2, <2>1, <2>2, <2>3 DEF Arrives, challenge, connect, disconnect
<1>3. ASSUME NEW r \in Requests, Continues(r)
      PROVE  LedgerKept(positions[v], positions'[v])
  <2>1. CASE connectVault(r) /\ inflight[r] # NoRequest
    BY <2>1, ConnectKept
  <2>2. CASE UNCHANGED positions
    BY <1>1, <2>2
  <2> QED BY <1>3, <2>1, <2>2
          DEF Continues, connectFails, readCollateral, connectDecides,
              connectOpens, rehydrated
<1> QED BY <1>1, <1>2, <1>3 DEF Next, vars, Tick, Passes, Restart

\* Whatever draws and repayments were made while a request waited for the chain
\* or for its health proof, the position it restores keeps their debt and
\* nonces, and stays frozen if it was (draw/route.ts:33-36, store.ts:207-224).
THEOREM RestoreKeepsLedgerHolds == Spec => RestoreKeepsLedger
<1>1. AccessInv /\ [Next]_vars =>
        [\A v \in Vaults :
            (positions[v] # NoPosition /\ positions'[v] # positions[v]) =>
                \/ positions'[v] = NoPosition
                \/ positions'[v].nonce > positions[v].nonce
                \/ /\ positions'[v].nonce = positions[v].nonce
                   /\ positions'[v].debt = positions[v].debt
                   /\ positions[v].frozen => positions'[v].frozen]_vars
  BY StepKept DEF AccessInv, LedgerKept
<1> QED BY <1>1, AccessInvariant, PTL DEF Spec, RestoreKeepsLedger

-----------------------------------------------------------------------------
(* The limiter's window. *)

\* The accepted hits of k in the window that begins at t.
Inside(k, t) == {hit \in accepted[k] : hit.at \in t..(t + RateWindow - 1)}

\* A bucket holds accepted hits, and all of those that still count; the window
\* holds wherever it begins.
LimiterInv ==
    /\ now \in Nat
    /\ accepted = [k \in Keys |-> accepted[k]]
    /\ buckets = [k \in Keys |-> buckets[k]]
    /\ \A k \in Keys :
         /\ IsFiniteSet(accepted[k])
         /\ \A hit \in accepted[k] :
              hit.at \in 0..now /\ hit.nr \in 1..Cardinality(accepted[k])
         /\ Hits(k) = {hit \in accepted[k] : InWindow(hit)}
         /\ buckets[k] \subseteq accepted[k]
         /\ \A t \in Int : Cardinality(Inside(k, t)) <= RateMax

\* The sweep takes nothing that counts.
LEMMA SweptCounts ==
    ASSUME LimiterInv
    PROVE  /\ Swept(buckets) = [k \in Keys |-> Swept(buckets)[k]]
           /\ DOMAIN Swept(buckets) = Keys
           /\ \A k \in Keys :
                /\ {hit \in Swept(buckets)[k] : InWindow(hit)} = Hits(k)
                /\ Swept(buckets)[k] \subseteq accepted[k]
<1>1. CASE Swept(buckets) = buckets
  BY <1>1 DEF LimiterInv, Hits
<1>2. CASE Swept(buckets) = sweepExpired(buckets)
  <2>1. \A k \in Keys : sweepExpired(buckets)[k] =
          IF \A hit \in buckets[k] : ~InWindow(hit) THEN {} ELSE buckets[k]
    BY DEF sweepExpired
  <2>2. ASSUME NEW k \in Keys
        PROVE  /\ {hit \in sweepExpired(buckets)[k] : InWindow(hit)} = Hits(k)
               /\ sweepExpired(buckets)[k] \subseteq accepted[k]
    BY <2>1 DEF LimiterInv, Hits
  <2> QED BY <1>2, <2>2 DEF sweepExpired
<1> QED BY <1>1, <1>2 DEF Swept

\* A request is let through: the hits that count are those of every window it
\* is in, and there are fewer than the limit.
LEMMA LimiterCounts ==
    ASSUME LimiterInv, NEW k \in Keys, rateLimit(k)
    PROVE  LimiterInv'
<1> DEFINE hit == [at |-> now, nr |-> Cardinality(accepted[k]) + 1]
<1>1. /\ buckets' = [Swept(buckets) EXCEPT ![k] = Hits(k) \cup {hit}]
      /\ accepted' = [accepted EXCEPT ![k] = accepted[k] \cup {hit}]
      /\ now' = now /\ now \in Nat
  BY DEF rateLimit, LimiterInv
<1>2. hit.at = now /\ hit.nr = Cardinality(accepted[k]) + 1
  OBVIOUS
<1> HIDE DEF hit
<1>3. /\ Cardinality(Hits(k)) < RateMax /\ RateMax \in Nat /\ RateWindow \in Nat
      /\ RateWindow > 0
  BY LimiterAssumption DEF rateLimit
<1>4. /\ accepted'[k] = accepted[k] \cup {hit}
      /\ \A j \in Keys \ {k} : accepted'[j] = accepted[j]
      /\ DOMAIN accepted' = Keys /\ accepted' = [j \in Keys |-> accepted'[j]]
  BY <1>1 DEF LimiterInv
<1>5. /\ buckets'[k] = Hits(k) \cup {hit}
      /\ \A j \in Keys \ {k} : buckets'[j] = Swept(buckets)[j]
      /\ DOMAIN buckets' = Keys /\ buckets' = [j \in Keys |-> buckets'[j]]
  BY <1>1, SweptCounts
<1>6. /\ IsFiniteSet(accepted[k]) /\ Cardinality(accepted[k]) \in Nat
      /\ \A h \in accepted[k] :
           h.at \in 0..now /\ h.nr \in 1..Cardinality(accepted[k])
      /\ Hits(k) = {h \in accepted[k] : InWindow(h)}
      /\ Hits(k) \subseteq accepted[k]
  BY FS_CardinalityType DEF LimiterInv
<1>7. hit \notin accepted[k]
  BY <1>2, <1>6
<1>8. IsFiniteSet(accepted'[k])
      /\ Cardinality(accepted'[k]) = Cardinality(accepted[k]) + 1
  <2>1. /\ IsFiniteSet(accepted[k] \cup {hit})
        /\ Cardinality(accepted[k] \cup {hit}) = Cardinality(accepted[k]) + 1
    BY <1>6, <1>7, FS_AddElement
  <2> QED BY <1>4, <2>1
<1>9. \A h \in accepted'[k] :
        h.at \in 0..now' /\ h.nr \in 1..Cardinality(accepted'[k])
  BY <1>1, <1>2, <1>4, <1>6, <1>8
<1>10. InWindow(hit) /\ \A h : InWindow(h)' <=> InWindow(h)
  BY <1>1, <1>2, <1>3 DEF InWindow
<1>11. Hits(k)' = {h \in accepted'[k] : InWindow(h)'}
       /\ buckets'[k] \subseteq accepted'[k]
  BY <1>4, <1>5, <1>6, <1>10 DEF Hits
<1>12. ASSUME NEW t \in Int
       PROVE  Cardinality(Inside(k, t)') <= RateMax
  <2>1. CASE now \in t..(t + RateWindow - 1)
    <3>1. Inside(k, t) \subseteq Hits(k)
      BY <1>1, <1>3, <1>6, <2>1 DEF Inside, InWindow
    <3>2. Inside(k, t)' = Inside(k, t) \cup {hit} /\ hit \notin Inside(k, t)
      BY <1>2, <1>4, <1>7, <2>1 DEF Inside
    <3>3. IsFiniteSet(Hits(k))
      BY <1>6, FS_Subset
    <3>4. /\ IsFiniteSet(Inside(k, t))
          /\ Cardinality(Inside(k, t)) <= Cardinality(Hits(k))
      BY <3>1, <3>3, FS_Subset
    <3>5. Cardinality(Inside(k, t)') = Cardinality(Inside(k, t)) + 1
      BY <3>2, <3>4, FS_AddElement
    <3>6. Cardinality(Inside(k, t)) \in Nat /\ Cardinality(Hits(k)) \in Nat
      BY <3>3, <3>4, FS_CardinalityType
    <3> QED BY <1>3, <3>4, <3>5, <3>6
  <2>2. CASE now \notin t..(t + RateWindow - 1)
    <3>1. Inside(k, t)' = Inside(k, t)
      BY <1>2, <1>4, <2>2 DEF Inside
    <3> QED BY <3>1 DEF LimiterInv
  <2> QED BY <2>1, <2>2
<1>13. ASSUME NEW j \in Keys \ {k}
       PROVE  /\ Hits(j)' = {h \in accepted'[j] : InWindow(h)'}
              /\ buckets'[j] \subseteq accepted'[j]
              /\ \A t \in Int : Inside(j, t)' = Inside(j, t)
  BY <1>4, <1>5, <1>10, SweptCounts DEF LimiterInv, Hits, Inside
<1>14. ASSUME NEW j \in Keys
       PROVE  /\ IsFiniteSet(accepted'[j])
              /\ \A h \in accepted'[j] :
                   h.at \in 0..now' /\ h.nr \in 1..Cardinality(accepted'[j])
              /\ Hits(j)' = {h \in accepted'[j] : InWindow(h)'}
              /\ buckets'[j] \subseteq accepted'[j]
              /\ \A t \in Int : Cardinality(Inside(j, t)') <= RateMax
  <2>1. CASE j = k
    BY <1>8, <1>9, <1>11, <1>12, <2>1
  <2>2. CASE j # k
    <3>1. accepted'[j] = accepted[j] /\ now' = now
      BY <1>1, <1>4, <2>2
    <3>2. /\ IsFiniteSet(accepted[j])
          /\ \A h \in accepted[j] :
               h.at \in 0..now /\ h.nr \in 1..Cardinality(accepted[j])
          /\ \A t \in Int : Cardinality(Inside(j, t)) <= RateMax
      BY DEF LimiterInv
    <3>3. \A t \in Int : Cardinality(Inside(j, t)') <= RateMax
      BY <1>13, <2>2, <3>2
    <3> QED BY <1>13, <2>2, <3>1, <3>2, <3>3
  <2> QED BY <2>1, <2>2
<1> QED BY <1>1, <1>4, <1>5, <1>14 DEF LimiterInv

\* A refused request at most sweeps.
LEMMA LimiterRefuses ==
    ASSUME LimiterInv, NEW k \in Keys, rateLimited(k)
    PROVE  LimiterInv'
<1>1. buckets' = Swept(buckets) /\ UNCHANGED <<now, accepted>>
  BY DEF rateLimited
<1>2. \A h : InWindow(h)' <=> InWindow(h)
  BY <1>1 DEF InWindow
<1>3. \A j \in Keys :
        Hits(j)' = Hits(j) /\ \A t \in Int : Inside(j, t)' = Inside(j, t)
  BY <1>1, <1>2, SweptCounts DEF Hits, Inside
<1> QED BY <1>1, <1>2, <1>3, SweptCounts DEF LimiterInv

\* Time passes: fewer hits count, and no window changes.
LEMMA LimiterTicks ==
    ASSUME LimiterInv, Tick
    PROVE  LimiterInv'
<1>1. now' = now + 1 /\ now \in Nat /\ UNCHANGED <<buckets, accepted>>
  BY DEF Tick, LimiterInv
<1>2. RateWindow \in Nat
  BY LimiterAssumption
<1>3. \A j \in Keys : \A h \in accepted[j] :
        InWindow(h)' => InWindow(h)
  BY <1>1, <1>2 DEF InWindow, LimiterInv
<1>4. \A j \in Keys :
        /\ Hits(j)' = {h \in accepted'[j] : InWindow(h)'}
        /\ \A t \in Int : Inside(j, t)' = Inside(j, t)
  BY <1>1, <1>3 DEF Hits, Inside, LimiterInv
<1>5. \A j \in Keys : \A h \in accepted'[j] :
        h.at \in 0..now' /\ h.nr \in 1..Cardinality(accepted'[j])
  BY <1>1 DEF LimiterInv
<1> QED BY <1>1, <1>4, <1>5 DEF LimiterInv

\* A new process counts from nothing.
LEMMA LimiterStarts ==
    ASSUME now' \in Nat, buckets' = [k \in Keys |-> {}],
           accepted' = [k \in Keys |-> {}]
    PROVE  LimiterInv'
<1>1. IsFiniteSet({}) /\ Cardinality({}) = 0
  BY FS_EmptySet
<1>2. \A k \in Keys : /\ Hits(k)' = {}
                      /\ \A t \in Int : Inside(k, t)' = {}
  BY DEF Hits, Inside
<1>3. 0 <= RateMax
  BY LimiterAssumption
<1> QED BY <1>1, <1>2, <1>3 DEF LimiterInv

LEMMA LimiterStep == LimiterInv /\ [Next]_vars => LimiterInv'
<1> SUFFICES ASSUME LimiterInv, [Next]_vars PROVE LimiterInv'
  OBVIOUS
<1>1. CASE UNCHANGED limits
  <2>1. UNCHANGED <<now, buckets, accepted>>
    BY <1>1 DEF limits
  <2> QED BY <2>1 DEF LimiterInv, Hits, Inside, InWindow
<1>2. CASE \E k \in Keys : rateLimit(k) \/ rateLimited(k)
  BY <1>2, LimiterCounts, LimiterRefuses
<1>3. CASE Tick
  BY <1>3, LimiterTicks
<1>4. CASE Restart
  BY <1>4, LimiterStarts DEF Restart, LimiterForgets, LimiterInv
<1>5. ASSUME NEW k \in Keys, Arrives(k) PROVE rateLimit(k)
  BY <1>5 DEF Arrives, TokenRequest, challenge, connect, disconnect, read,
              rehydrate, openPosition, act, reset
<1>6. ASSUME NEW k \in Keys, Passes(k) PROVE rateLimit(k) \/ rateLimited(k)
  BY <1>6 DEF Passes
<1>7. ASSUME NEW r \in Requests, Continues(r) PROVE UNCHANGED limits
  BY <1>7 DEF Continues, connectFails, readCollateral, connectDecides,
              connectOpens, rehydrated
<1> QED BY <1>1, <1>2, <1>3, <1>4, <1>5, <1>6, <1>7 DEF Next, vars

\* No window of the configured length, wherever it begins, sees more than
\* RateMax accepted requests of one client in one life of the process, whatever
\* the cap on keys sweeps (rate-limit.ts:24-53).
THEOREM WindowBoundHolds == Spec => []WindowBound
<1>1. Init => LimiterInv
  <2>1. IsFiniteSet({}) /\ Cardinality({}) = 0
    BY FS_EmptySet
  <2>2. Init => \A k \in Keys : Hits(k) = {} /\ \A t \in Int : Inside(k, t) = {}
    BY DEF Init, LimiterInit, Hits, Inside
  <2>3. 0 <= RateMax
    BY LimiterAssumption
  <2> QED BY <2>1, <2>2, <2>3 DEF Init, LimiterInit, LimiterInv
<1>2. LimiterInv => WindowBound
  <2>1. \A t \in 0..MaxTime : t \in Int
    OBVIOUS
  <2> QED BY <2>1 DEF LimiterInv, WindowBound, Inside
<1> QED BY <1>1, <1>2, LimiterStep, PTL DEF Spec
=============================================================================
