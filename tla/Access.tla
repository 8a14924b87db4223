------------------------------- MODULE Access -------------------------------
(***************************************************************************)
(* Who may act on which position: session tokens and their revocation      *)
(* (sessions.ts), ownership challenges (ownership.ts), the routes that     *)
(* open, end and use sessions (wallet/challenge, wallet/connect,           *)
(* wallet/disconnect, positions, receipts, reset), all behind the rate     *)
(* limiter.  The deployment is the live one with chain reads required.     *)
(*                                                                         *)
(* A token carries its session and is signed with a secret that survives   *)
(* the process, so a process that never saw a token verifies it; the       *)
(* revocation epoch does not survive.  What a token authorises is here one *)
(* action (act); what draw, repay and unlock do with it is CreditLedger's. *)
(***************************************************************************)
EXTENDS RateLimiter, FiniteSetsExt

CONSTANTS
    Vaults,
    DemoVaults,      \* isDemoVault
    HomeVault,       \* TACHI_VAULT_REF
    RequireProof,    \* REQUIRE_OWNERSHIP_PROOF
    AdminConnects,   \* whether a connect may carry the admin token
    Sats,            \* collateral a chain read may report, in credit units
    Requests,        \* connects and re-hydrations that may be in flight
    Bystanders,      \* clients that at most ask for a challenge; what else
                     \* they send matters to the limiter only
    TokenTtl,        \* SESSION_TTL_MS, in ticks
    ChallengeTtl,    \* OWNERSHIP_CHALLENGE_TTL_MS, in ticks
    SweepInterval,   \* SWEEP_INTERVAL_MS, in ticks
    MaxSessions,     \* MAX_SESSIONS
    MaxTokens, MaxChallenges, MaxDebt, MaxLosses,  \* bounds
    NoToken, NoChallenge, NoPosition, NoRequest    \* null values

Challenge == [id : 1..MaxChallenges, vault : Vaults, expires : Nat]

\* createdAt, the position id (one per vault) and the public key of a session
\* are left out; id stands for the random bytes of a token, proof for
\* ownershipVerified and ownershipAddress.
Token == [id : 1..MaxTokens, vault : Vaults,
          proof : Challenge \cup {NoChallenge}, expires : Nat, epoch : Nat]

Position == [collateral : Nat, debt : Nat, nonce : Nat, frozen : BOOLEAN]
Positions == Position \cup {NoPosition}

ASSUME AccessAssumption ==
    /\ DemoVaults \subseteq Vaults /\ HomeVault \in Vaults
    /\ Bystanders \subseteq Keys
    /\ {RequireProof, AdminConnects} \subseteq BOOLEAN /\ Sats \subseteq Nat
    /\ {TokenTtl, ChallengeTtl, SweepInterval, MaxSessions} \subseteq Nat
    /\ {MaxTokens, MaxChallenges, MaxDebt, MaxLosses} \subseteq Nat
    /\ NoChallenge \notin Challenge /\ NoPosition \notin Position

VARIABLES
    sessions,      \* tokens this process has cached
    sessionEpoch,
    lastSweepAt,
    challenges,    \* CHALLENGES
    positions,     \* the position of each vault
    inflight,      \* what a connect or a re-hydration knows so far
    issued,        \* every token ever handed out (history)
    asked,         \* challenges issued so far (history, names them)
    minted,        \* tokens of this life of the process (history)
    revoked,       \* tokens revoked in this life of the process (history)
    losses         \* restarts and resets (bound)

limits == <<now, buckets, accepted>>
registry == <<sessions, sessionEpoch, lastSweepAt>>
history == <<issued, minted, revoked>>
vars == <<limits, registry, challenges, positions, inflight, history, asked,
          losses>>

Init ==
    /\ LimiterInit
    /\ sessions = {} /\ sessionEpoch = 0 /\ lastSweepAt = 0
    /\ challenges = {} /\ asked = 0
    /\ positions = [v \in Vaults |-> NoPosition]
    /\ inflight = [r \in Requests |-> NoRequest]
    /\ issued = {} /\ minted = {} /\ revoked = {}
    /\ losses = 0

Tick ==
    /\ now < MaxTime
    /\ now' = now + 1
    /\ UNCHANGED <<buckets, accepted, registry, challenges, positions, inflight,
                   history, asked, losses>>

-----------------------------------------------------------------------------
(* sessions.ts *)

\* A token is accepted on the map path and on the stateless path alike: not
\* expired, and not older than the revocation epoch.
verifyToken(t) == t.expires > now /\ t.epoch >= sessionEpoch

\* The token is cached when it verifies and forgotten when it does not.
getSession(t) ==
    /\ sessions' = IF verifyToken(t) THEN sessions \cup {t} ELSE sessions \ {t}
    /\ UNCHANGED <<sessionEpoch, lastSweepAt>>

\* At most once per interval: expired sessions go, and above the cap those
\* that expire first.
sweepExpiredSessions(s) ==
    LET live == {t \in s : t.expires > now} IN
    IF now - lastSweepAt < SweepInterval
    THEN sessions' = s /\ UNCHANGED lastSweepAt
    ELSE /\ lastSweepAt' = now
         /\ IF Cardinality(live) <= MaxSessions THEN sessions' = live
            ELSE \E kept \in SUBSET live :
                   /\ Cardinality(kept) = MaxSessions
                   /\ \A t \in kept, u \in live \ kept : t.expires >= u.expires
                   /\ sessions' = kept

createSession(v, proof) ==
    LET t == [id |-> Cardinality(issued) + 1, vault |-> v, proof |-> proof,
              expires |-> now + TokenTtl, epoch |-> sessionEpoch] IN
    /\ Cardinality(issued) < MaxTokens
    /\ sweepExpiredSessions(sessions \cup {t})
    /\ issued' = issued \cup {t} /\ minted' = minted \cup {t}
    /\ UNCHANGED <<sessionEpoch, revoked>>

\* Mutant: the token only leaves the map.
revokeCached(t) ==
    /\ sessions' = sessions \ {t}
    /\ revoked' = revoked \cup minted \cup ({t} \cap issued)
    /\ UNCHANGED <<lastSweepAt, sessionEpoch, issued, minted>>

\* Revoking a token, known or not, revokes every token minted so far.
revokeSession(t) ==
    /\ sessionEpoch' = sessionEpoch + 1
    /\ sessions' = {u \in sessions \ {t} : u.epoch >= sessionEpoch'}
    /\ revoked' = revoked \cup minted \cup ({t} \cap issued)
    /\ UNCHANGED <<lastSweepAt, issued, minted>>

-----------------------------------------------------------------------------
(* ownership.ts *)

issueOwnershipChallenge(v) ==
    /\ asked < MaxChallenges
    /\ asked' = asked + 1
    /\ challenges' = {c \in challenges : c.expires > now}
         \cup {[id |-> asked', vault |-> v, expires |-> now + ChallengeTtl]}

\* Mutant: a challenge is only looked up.
peekOwnershipChallenge(c, v) ==
    /\ c \in challenges /\ c.expires > now /\ c.vault = v
    /\ UNCHANGED challenges

\* A challenge is good once, in time and for its own vault; one that is not
\* for this vault is kept.
consumeOwnershipChallenge(c, v) ==
    /\ c \in challenges /\ c.expires > now /\ c.vault = v
    /\ challenges' = challenges \ {c}

-----------------------------------------------------------------------------
(* wallet/challenge and wallet/connect *)

challenge(k, v) ==
    /\ rateLimit(k)
    /\ issueOwnershipChallenge(v)
    /\ UNCHANGED <<registry, positions, inflight, history, losses>>

Reading(v, proof) ==
    [at |-> "read", vault |-> v, proof |-> proof, sats |-> 0,
     existing |-> NoPosition]

\* A connect arrives, with or without an ownership proof; a proof whose
\* signature fails has burned its challenge.
connect(k, r, v) ==
    /\ inflight[r] = NoRequest /\ Cardinality(issued) < MaxTokens
    /\ rateLimit(k)
    /\ \/ /\ ~RequireProof
          /\ inflight' = [inflight EXCEPT ![r] = Reading(v, NoChallenge)]
          /\ UNCHANGED challenges
       \/ \E c \in challenges :
            /\ consumeOwnershipChallenge(c, v)
            /\ \/ inflight' = [inflight EXCEPT ![r] = Reading(v, c)]
               \/ UNCHANGED inflight
    /\ UNCHANGED <<registry, positions, history, asked, losses>>

\* The request ends with an error: a read that failed, a daemon on another
\* network, no health proof, or one that does not verify.
connectFails(r) ==
    /\ inflight[r] # NoRequest /\ inflight[r].at \in {"read", "prove"}
    /\ inflight' = [inflight EXCEPT ![r] = NoRequest]
    /\ UNCHANGED <<limits, registry, challenges, positions, history, asked,
                   losses>>

\* The chain was read; the position is looked up before the health proof is
\* fetched.
readCollateral(r) ==
    /\ inflight[r] # NoRequest /\ inflight[r].at = "read"
    /\ \E n \in Sats :
         inflight' = [inflight EXCEPT
             ![r].at = "prove", ![r].sats = n,
             ![r].existing = positions[inflight[r].vault]]
    /\ UNCHANGED <<limits, registry, challenges, positions, history, asked,
                   losses>>

DebtOf(p) == IF p = NoPosition THEN 0 ELSE p.debt

\* connectVault on a position: restored with its debt and nonce, frozen when
\* the collateral no longer carries the debt; opened afresh if there is none.
Restored(p, n) ==
    IF p = NoPosition
    THEN [collateral |-> n, debt |-> 0, nonce |-> 0, frozen |-> FALSE]
    ELSE [p EXCEPT !.collateral = n, !.frozen = p.frozen \/ p.debt > n]

\* Mutant: connectVault writes back the position that the request had read.
connectVaultRead(r) ==
    positions' = [positions EXCEPT
        ![inflight[r].vault] = Restored(inflight[r].existing, inflight[r].sats)]

connectVault(r) ==
    positions' = [positions EXCEPT
        ![inflight[r].vault] = Restored(@, inflight[r].sats)]

\* Refused although everything was read: an empty vault without debt has
\* nothing to borrow against, and a debt is only taken over with a proof, or
\* with the admin token.
Unfunded(q) == q.sats = 0 /\ DebtOf(q.existing) = 0
NeedsProof(q) ==
    DebtOf(q.existing) > 0 /\ q.vault \notin DemoVaults /\ q.proof = NoChallenge

connectDecides(r) ==
    /\ inflight[r] # NoRequest /\ inflight[r].at = "prove"
    /\ \/ /\ Unfunded(inflight[r]) \/ NeedsProof(inflight[r])
          /\ inflight' = [inflight EXCEPT ![r] = NoRequest]
          /\ UNCHANGED positions
       \/ /\ ~Unfunded(inflight[r])
          /\ ~NeedsProof(inflight[r]) \/ AdminConnects
          /\ connectVault(r)
          /\ inflight' = [inflight EXCEPT ![r].at = "open"]
    /\ UNCHANGED <<limits, registry, challenges, history, asked, losses>>

\* The position is saved and the session opened.
connectOpens(r) ==
    /\ inflight[r] # NoRequest /\ inflight[r].at = "open"
    /\ createSession(inflight[r].vault, inflight[r].proof)
    /\ inflight' = [inflight EXCEPT ![r] = NoRequest]
    /\ UNCHANGED <<limits, challenges, positions, asked, losses>>

-----------------------------------------------------------------------------
(* The routes that a token opens. *)

\* wallet/disconnect with any token, known or not (NoToken); a request that
\* presents none at all revokes nothing.
disconnect(k, t) ==
    /\ rateLimit(k)
    /\ revokeSession(t)
    /\ UNCHANGED <<challenges, positions, inflight, asked, losses>>

\* GET /api/receipts, GET /api/positions of a position that is there, and
\* every request whose token is refused.
read(k, t) ==
    /\ rateLimit(k)
    /\ getSession(t)
    /\ UNCHANGED <<challenges, positions, inflight, history, asked, losses>>

\* GET /api/positions of a session whose position is gone: it is re-hydrated
\* after a read of the chain; an incomplete read counts as no collateral.
rehydrate(k, r, t) ==
    /\ inflight[r] = NoRequest
    /\ rateLimit(k)
    /\ verifyToken(t) /\ getSession(t)
    /\ positions[t.vault] = NoPosition
    /\ \E n \in Sats \cup {0} :
         inflight' = [inflight EXCEPT ![r] =
             [Reading(t.vault, NoChallenge) EXCEPT !.at = "hydrate", !.sats = n]]
    /\ UNCHANGED <<challenges, positions, history, asked, losses>>

rehydrated(r) ==
    /\ inflight[r] # NoRequest /\ inflight[r].at = "hydrate"
    /\ inflight' = [inflight EXCEPT ![r] = NoRequest]
    /\ connectVault(r) \/ UNCHANGED positions
    /\ UNCHANGED <<limits, registry, challenges, history, asked, losses>>

\* POST /api/positions opens a position for the configured vault, with the
\* collateral the caller names, unless there is one.
openPosition(k, t) ==
    /\ rateLimit(k)
    /\ verifyToken(t) /\ getSession(t)
    /\ positions[HomeVault] = NoPosition
    /\ \E n \in Sats \ {0} :
         positions' = [positions EXCEPT ![HomeVault] = Restored(NoPosition, n)]
    /\ UNCHANGED <<challenges, inflight, history, asked, losses>>

\* An authenticated draw (1) or repayment (-1).
act(k, t, d) ==
    /\ rateLimit(k)
    /\ verifyToken(t) /\ getSession(t)
    /\ LET p == positions[t.vault] IN
       /\ p # NoPosition
       /\ IF d = 1 THEN p.debt < p.collateral /\ ~p.frozen ELSE p.debt > 0
       /\ p.nonce < MaxDebt
       /\ positions' = [positions EXCEPT
              ![t.vault].debt = @ + d, ![t.vault].nonce = @ + 1]
    /\ UNCHANGED <<challenges, inflight, history, asked, losses>>

-----------------------------------------------------------------------------
(* What a process forgets. *)

\* /api/reset with the admin token: sessions and epoch, then the store.  The
\* seeded demonstration position is none of Vaults.
reset(k) ==
    /\ losses < MaxLosses
    /\ rateLimit(k)
    /\ sessions' = {} /\ sessionEpoch' = 0
    /\ minted' = {} /\ revoked' = {}
    /\ positions' = [v \in Vaults |-> NoPosition]
    /\ losses' = losses + 1
    /\ UNCHANGED <<lastSweepAt, challenges, inflight, issued, asked>>

\* The process ends; positions are on file (JsonStore), all else is memory.
Restart ==
    /\ losses < MaxLosses
    /\ LimiterForgets
    /\ sessions' = {} /\ sessionEpoch' = 0 /\ lastSweepAt' = now
    /\ challenges' = {}
    /\ inflight' = [r \in Requests |-> NoRequest]
    /\ minted' = {} /\ revoked' = {}
    /\ losses' = losses + 1
    /\ UNCHANGED <<now, positions, issued, asked>>

-----------------------------------------------------------------------------
TokenRequest(k, t) ==
    \/ disconnect(k, t)
    \/ read(k, t)
    \/ \E r \in Requests : rehydrate(k, r, t)
    \/ openPosition(k, t)
    \/ \E d \in {1, -1} : act(k, t, d)

Arrives(k) ==
    \/ \E v \in Vaults : challenge(k, v)
    \/ /\ k \notin Bystanders
       /\ \/ \E r \in Requests, v \in Vaults : connect(k, r, v)
          \/ \E t \in issued : TokenRequest(k, t)
          \/ disconnect(k, NoToken)
          \/ reset(k)

\* A request that ends at the limiter, or that is nothing to this module.
Passes(k) ==
    /\ rateLimited(k) \/ (k \in Bystanders /\ rateLimit(k))
    /\ UNCHANGED <<registry, challenges, positions, inflight, history, asked,
                   losses>>

Continues(r) ==
    connectFails(r) \/ readCollateral(r) \/ connectDecides(r)
    \/ connectOpens(r) \/ rehydrated(r)

Next ==
    \/ Tick
    \/ \E k \in Keys : Arrives(k)
    \/ \E k \in Keys : Passes(k)
    \/ \E r \in Requests : Continues(r)
    \/ Restart

Spec == Init /\ [][Next]_vars

-----------------------------------------------------------------------------
\* The types of the state.
TypeOK ==
    /\ sessions \subseteq issued /\ issued \subseteq Token
    /\ minted \subseteq issued /\ revoked \subseteq issued
    /\ sessionEpoch \in Nat /\ now \in Nat /\ lastSweepAt \in Nat
    /\ challenges \subseteq Challenge /\ asked \in 0..MaxChallenges
    /\ positions \in [Vaults -> Positions]
    /\ \A r \in Requests :
         inflight[r] \in {NoRequest} \cup
             [at : {"read", "prove", "open", "hydrate"}, vault : Vaults,
              proof : Challenge \cup {NoChallenge}, sats : Nat,
              existing : Positions]

\* A token minted by this process before a revocation is refused from then on,
\* by the map and by the stateless fallback, whatever was cached, swept or
\* evicted (sessions.ts:48-54, 111-113, 175-180).
RevokedStaysOut == \A t \in revoked \cap minted : ~verifyToken(t)

\* One challenge proves the ownership of one vault to one session: two connects
\* that present the same challenge never both open a proven session, not even
\* over a restart (ownership.ts:62-82).
ChallengeOpensOneSession ==
    \A t, u \in issued :
        t.proof # NoChallenge =>
            /\ t.proof.vault = t.vault
            /\ t.proof = u.proof => t = u

\* Connecting to, re-hydrating or opening a position never takes back debt or
\* nonces of transitions that were made while the request waited for the
\* chain or for the health proof; only a reset does (draw/route.ts:33-36,
\* store.ts:207-224).
RestoreKeepsLedger ==
    [][\A v \in Vaults :
        (positions[v] # NoPosition /\ positions'[v] # positions[v]) =>
            \/ positions'[v] = NoPosition
            \/ positions'[v].nonce > positions[v].nonce
            \/ /\ positions'[v].nonce = positions[v].nonce
               /\ positions'[v].debt = positions[v].debt
               /\ positions[v].frozen => positions'[v].frozen]_vars

\* "Every token from an older epoch is refused everywhere" (sessions.ts:53-54),
\* a token that survived a restart included.
DisconnectDisconnects == \A t \in revoked : ~verifyToken(t)

\* "Restoring an existing position that already has outstanding debt ... must
\* be proven, not assumed" (wallet/connect/route.ts:194-199).
RestoredIsProven ==
    [][\A t \in issued' \ issued :
        /\ t.vault \notin DemoVaults
        /\ DebtOf(positions[t.vault]) > 0
        => t.proof # NoChallenge]_vars
=============================================================================
