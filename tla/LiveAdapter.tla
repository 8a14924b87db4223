----------------------------- MODULE LiveAdapter -----------------------------
(***************************************************************************)
(* The live adapter and the daemon behind it (live-adapter.ts, signet.ts): *)
(* the write gates, the chain attestation and its cache, the daemon's      *)
(* decode, the broadcast, the poll for its commit, and the vault reads     *)
(* that share the cache.                                                   *)
(*                                                                         *)
(* A request leaves, the daemon serves it, and the answer lands, in three  *)
(* steps; it may fail at any of them, and does when its time is up.  Time  *)
(* is counted down in whole units: a step takes none and no timer is late. *)
(* The daemon is modelled from how the adapter reads it; its answer to a   *)
(* broadcast carries a code (one without is read as acceptance).           *)
(*                                                                         *)
(* Not modelled: mainnet without its opt-in, which gets nowhere, and       *)
(* clients without decode or lookup, which the server's own client has.    *)
(***************************************************************************)
EXTENDS Integers

CONSTANTS
    Positions,       \* positions; one submission of each at a time
    Readers,         \* vault reads that may be in flight
    Txs,             \* plausible serialized transactions
    Implausible,     \* any other payload: none, synthetic, wrong size
    Vaults,          \* vault references that may be named
    BoundVaults,     \* those on the allowlist and on the network
    Amounts,         \* units clients may ask for
    MaxTestUnits,    \* MAX_TEST_SATS, in units
    KillSwitch,      \* KILL_SWITCH
    RequireAttestation,  \* LIVE_REQUIRE_CHAIN_ATTESTATION
    ChainIds,        \* what a daemon may advertise
    ExpectedIds,     \* those that pass for the configured network
    Ttl,             \* LIVE_ATTESTATION_TTL_MS
    RequestTimeout,  \* LIVE_REQUEST_TIMEOUT_MS
    ConfirmTimeout,  \* LIVE_CONFIRM_TIMEOUT_MS
    PollInterval,    \* LIVE_POLL_INTERVAL_MS
    None             \* no answer yet

Callers == Positions \cup Readers
Requests == {"attest", "vault", "decode", "broadcast", "lookup"}
Replies == {"bad", "named", "unnamed", "code", "zero", "zeroNamed", "notYet",
            "committed", "failed", "read", "unusable"}
Fates == {"unseen", "held", "committed", "failed", "dropped"}

ASSUME AdapterAssumption ==
    /\ BoundVaults \subseteq Vaults /\ ExpectedIds \subseteq ChainIds
    /\ Amounts \subseteq Nat /\ MaxTestUnits \in Nat
    /\ KillSwitch \in BOOLEAN /\ RequireAttestation \in BOOLEAN
    /\ {Ttl, RequestTimeout, ConfirmTimeout, PollInterval} \subseteq Nat \ {0}
    /\ Positions \cap Readers = {}
    /\ Implausible \notin Txs
    /\ ChainIds \cap Replies = {} /\ None \notin ChainIds \cup Replies

VARIABLES
    pc,          \* what each caller awaits, or "idle"
    tx,          \* the transaction each position submitted last
    reply,       \* the daemon's answer on its way back, or None
    left,        \* time left of the await
    deadline,    \* time left of the poll
    hashed,      \* the decode named a transaction hash
    answer,      \* how each position's last submission ended
    age,         \* age of the cached attestation; Ttl when there is none
    daemon,      \* the chain id the daemon advertises
    astray,      \* how long that has not been an expected one (history)
    ledger,      \* what became of each transaction on each chain
    stray,       \* broadcasts given up on that may still arrive
    sent         \* transactions that were broadcast (history)

client == <<pc, tx, left, deadline, hashed, answer, age, sent>>
world == <<daemon, astray, ledger, stray>>
vars == <<pc, tx, reply, left, deadline, hashed, answer, age, daemon, astray,
          ledger, stray, sent>>

AtMost(a, b) == IF a <= b THEN a ELSE b
AtLeast(a, b) == IF a >= b THEN a ELSE b

\* The longest time the model keeps count of (bound).
Longest == AtLeast(Ttl, RequestTimeout) + RequestTimeout + 1

Init ==
    /\ pc = [c \in Callers |-> "idle"]
    /\ tx \in [Positions -> Txs]
    /\ reply = [c \in Callers |-> None]
    /\ left = [c \in Callers |-> 0]
    /\ deadline = [p \in Positions |-> 0]
    /\ hashed = [p \in Positions |-> FALSE]
    /\ answer = [p \in Positions |-> "none"]
    /\ age = Ttl
    /\ daemon \in ChainIds
    /\ astray = 0
    /\ ledger = [id \in ChainIds |-> [t \in Txs |-> "unseen"]]
    /\ stray = {} /\ sent = {}

-----------------------------------------------------------------------------
(* The steps of a caller.                                                  *)

\* c sends a request and awaits its answer, or sleeps.
Await(c, what, time) ==
    /\ pc' = [pc EXCEPT ![c] = what]
    /\ left' = [left EXCEPT ![c] = time]
    /\ reply' = [reply EXCEPT ![c] = None]

\* c returns or throws.
End(c) ==
    /\ pc' = [pc EXCEPT ![c] = "idle"]
    /\ left' = [left EXCEPT ![c] = 0]
    /\ reply' = [reply EXCEPT ![c] = None]

\* A submission ends with an answer, and its variables are gone.
Conclude(p, a) ==
    /\ End(p)
    /\ answer' = [answer EXCEPT ![p] = a]
    /\ deadline' = [deadline EXCEPT ![p] = 0]
    /\ hashed' = [hashed EXCEPT ![p] = FALSE]

\* The chain is known: c asks for what it came for.
Proceed(c) == Await(c, IF c \in Positions THEN "decode" ELSE "vault",
                    RequestTimeout)

\* attestDaemonNetwork: the cached record serves while it is fresh;
\* otherwise the daemon is asked.
attest(c) ==
    IF age < Ttl \/ ~RequireAttestation THEN Proceed(c)
    ELSE Await(c, "attest", RequestTimeout)

\* The gates that need no daemon.
assertVaultBinding(vault) == vault \in BoundVaults

assertWriteGates(vault, amount) ==
    /\ ~KillSwitch
    /\ assertVaultBinding(vault)
    /\ amount <= MaxTestUnits

\* submitCreditTransition begins, or refuses there and then.
Submit(p) ==
    /\ pc[p] = "idle"
    /\ \E vault \in Vaults, amount \in Amounts, payload \in Txs \cup {Implausible} :
         \/ /\ assertWriteGates(vault, amount)
            /\ payload # Implausible
            /\ tx' = [tx EXCEPT ![p] = payload]
            /\ answer' = [answer EXCEPT ![p] = "none"]
            /\ attest(p)
            /\ UNCHANGED <<deadline, hashed>>
         \/ /\ ~assertWriteGates(vault, amount) \/ payload = Implausible
            /\ Conclude(p, "refused")
            /\ UNCHANGED tx
    /\ UNCHANGED <<age, sent, world>>

\* readVault begins; a vault that is not bound is refused there and then,
\* which changes nothing.
readVault(r) ==
    /\ pc[r] = "idle"
    /\ \E vault \in Vaults : assertVaultBinding(vault)
    /\ attest(r)
    /\ UNCHANGED <<tx, deadline, hashed, answer, age, sent, world>>

\* The caller c fails before anything was handed over.
Refuse(c) ==
    IF c \in Positions THEN Conclude(c, "refused")
    ELSE End(c) /\ UNCHANGED <<answer, deadline, hashed>>

\* Mutant: the attestation is cached as of the moment it lands.
AttestLandsFresh(c) ==
    /\ pc[c] = "attest" /\ reply[c] # None
    /\ \/ /\ reply[c] \in ExpectedIds
          /\ age' = 0
          /\ Proceed(c)
          /\ UNCHANGED <<answer, deadline, hashed>>
       \/ /\ reply[c] \notin ExpectedIds
          /\ Refuse(c)
          /\ UNCHANGED age
    /\ UNCHANGED <<tx, sent, world>>

\* The daemon's chain id: an expected one is cached as of the time the
\* request left, any other is refused and not cached.
AttestLands(c) ==
    /\ pc[c] = "attest" /\ reply[c] # None
    /\ \/ /\ reply[c] \in ExpectedIds
          /\ age' = AtMost(RequestTimeout - left[c], Ttl)
          /\ Proceed(c)
          /\ UNCHANGED <<answer, deadline, hashed>>
       \/ /\ reply[c] \notin ExpectedIds
          /\ Refuse(c)
          /\ UNCHANGED age
    /\ UNCHANGED <<tx, sent, world>>

\* The vault's content, or an answer that does not parse: the read returns or
\* throws.
VaultLands(r) ==
    /\ pc[r] = "vault" /\ reply[r] # None
    /\ End(r)
    /\ UNCHANGED <<tx, deadline, hashed, answer, age, sent, world>>

\* The decode: a fee above the cap or a side without entries is refused.
DecodeLands(p) ==
    /\ pc[p] = "decode" /\ reply[p] # None
    /\ \/ /\ reply[p] = "bad"
          /\ Conclude(p, "refused")
          /\ UNCHANGED sent
       \/ /\ reply[p] # "bad"
          /\ hashed' = [hashed EXCEPT ![p] = reply[p] = "named"]
          /\ Await(p, "broadcast", RequestTimeout)
          /\ sent' = sent \cup {tx[p]}
          /\ UNCHANGED <<answer, deadline>>
    /\ UNCHANGED <<tx, age, world>>

\* Mutant: what the mempool accepts counts as committed.
BroadcastLandsSure(p) ==
    /\ pc[p] = "broadcast" /\ reply[p] # None
    /\ Conclude(p, IF reply[p] = "code" THEN "rejected" ELSE "ok")
    /\ UNCHANGED <<tx, age, sent, world>>

\* The mempool's verdict.  Acceptance without a hash from either answer ends
\* the submission with nothing to look up or journal.
BroadcastLands(p) ==
    /\ pc[p] = "broadcast" /\ reply[p] # None
    /\ \/ reply[p] = "code" /\ Conclude(p, "rejected")
       \/ reply[p] = "zero" /\ ~hashed[p] /\ Conclude(p, "lost")
       \/ /\ \/ reply[p] = "zeroNamed"
             \/ reply[p] = "zero" /\ hashed[p]
          /\ deadline' = [deadline EXCEPT ![p] = ConfirmTimeout]
          /\ Await(p, "lookup", RequestTimeout)
          /\ UNCHANGED <<hashed, answer>>
    /\ UNCHANGED <<tx, age, sent, world>>

\* Mutant: the deadline is not looked at.
NotYetForever(p) ==
    /\ Await(p, "sleep", AtMost(PollInterval, deadline[p]))
    /\ UNCHANGED <<deadline, hashed, answer>>

\* A lookup that told nothing: sleep, or give up when no time is left for
\* another.
NotYet(p) ==
    \/ deadline[p] <= PollInterval /\ Conclude(p, "pending")
    \/ /\ deadline[p] > PollInterval
       /\ Await(p, "sleep", PollInterval)
       /\ UNCHANGED <<deadline, hashed, answer>>

LookupLands(p) ==
    /\ pc[p] = "lookup" /\ reply[p] # None
    /\ \/ reply[p] = "committed" /\ Conclude(p, "ok")
       \/ reply[p] = "failed" /\ Conclude(p, "rejected")
       \/ reply[p] = "notYet" /\ NotYet(p)
    /\ UNCHANGED <<tx, age, sent, world>>

Wake(p) ==
    /\ pc[p] = "sleep" /\ left[p] = 0
    /\ Await(p, "lookup", RequestTimeout)
    /\ UNCHANGED <<tx, deadline, hashed, answer, age, sent, world>>

\* Mutant: no request times out.
ThrowsInTime(c) ==
    /\ pc[c] \in Requests
    /\ left[c] > 0
    /\ \/ pc[c] \in {"attest", "vault", "decode"} /\ Refuse(c)
       \/ pc[c] = "broadcast" /\ Conclude(c, "rejected")
       \/ pc[c] = "lookup" /\ NotYet(c)
    /\ stray' = IF pc[c] = "broadcast" /\ reply[c] = None
                THEN stray \cup {tx[c]} ELSE stray
    /\ UNCHANGED <<tx, age, daemon, astray, ledger, sent>>

\* A request throws: unreachable, an HTTP error, an answer lost on its way,
\* or out of time.  A broadcast that was not served by then may still arrive.
Throws(c) ==
    /\ pc[c] \in Requests
    /\ \/ pc[c] \in {"attest", "vault", "decode"} /\ Refuse(c)
       \/ pc[c] = "broadcast" /\ Conclude(c, "rejected")
       \/ pc[c] = "lookup" /\ NotYet(c)
    /\ stray' = IF pc[c] = "broadcast" /\ reply[c] = None
                THEN stray \cup {tx[c]} ELSE stray
    /\ UNCHANGED <<tx, age, daemon, astray, ledger, sent>>

-----------------------------------------------------------------------------
(* The daemon.                                                             *)

\* The mempool takes t, unless t has been there before.
Accept(t) ==
    ledger' = [ledger EXCEPT ![daemon][t] =
                 IF @ \in {"unseen", "dropped"} THEN "held" ELSE @]

\* What the daemon may answer c now.
Serve(c) ==
    /\ pc[c] \in Requests /\ reply[c] = None
    /\ \E a \in ChainIds \cup Replies :
         /\ reply' = [reply EXCEPT ![c] = a]
         /\ \/ pc[c] = "attest" /\ a = daemon
            \/ pc[c] = "vault" /\ a \in {"read", "unusable"}
            \/ pc[c] = "decode" /\ a \in {"bad", "named", "unnamed"}
            \/ pc[c] = "broadcast" /\ a \in {"code", "zero", "zeroNamed"}
            \/ /\ pc[c] = "lookup"
               /\ a \in {"notYet"} \cup
                    ({ledger[daemon][tx[c]]} \cap {"committed", "failed"})
         /\ IF a \in {"zero", "zeroNamed"} THEN Accept(tx[c])
            ELSE UNCHANGED ledger
    /\ UNCHANGED <<client, daemon, astray, stray>>

\* A broadcast nobody waits for any more arrives.
Arrive(t) ==
    /\ t \in stray
    /\ stray' = stray \ {t}
    /\ Accept(t)
    /\ UNCHANGED <<client, reply, daemon, astray>>

\* The server dies and is restarted: its requests are given up and the
\* cached attestation is gone.
Crash ==
    /\ pc' = [c \in Callers |-> "idle"]
    /\ left' = [c \in Callers |-> 0]
    /\ reply' = [c \in Callers |-> None]
    /\ deadline' = [p \in Positions |-> 0]
    /\ hashed' = [p \in Positions |-> FALSE]
    /\ age' = Ttl
    /\ stray' = stray \cup {tx[p] : p \in
         {q \in Positions : pc[q] = "broadcast" /\ reply[q] = None}}
    /\ UNCHANGED <<tx, answer, sent, daemon, astray, ledger>>

\* A held transaction is committed, fails in its block, or is dropped.
Settle(id, t) ==
    /\ ledger[id][t] = "held"
    /\ \E fate \in {"committed", "failed", "dropped"} :
         ledger' = [ledger EXCEPT ![id][t] = fate]
    /\ UNCHANGED <<client, reply, daemon, astray, stray>>

\* The daemon is restarted on a chain.
Switch(id) ==
    /\ daemon' = id
    /\ astray' = IF id \in ExpectedIds THEN 0 ELSE astray
    /\ UNCHANGED <<client, reply, ledger, stray>>

-----------------------------------------------------------------------------
Polling == {"lookup", "sleep"}
Less(n) == IF n = 0 THEN 0 ELSE n - 1

\* Time passes, unless somebody's time is up.
Tick ==
    /\ \A c \in Callers : pc[c] # "idle" => left[c] > 0
    /\ left' = [c \in Callers |-> Less(left[c])]
    /\ deadline' = [p \in Positions |->
                      IF pc[p] \in Polling THEN deadline[p] - 1 ELSE deadline[p]]
    /\ age' = AtMost(age + 1, Ttl)
    /\ astray' = IF daemon \in ExpectedIds THEN 0
                 ELSE AtMost(astray + 1, Longest)
    /\ UNCHANGED <<pc, tx, reply, hashed, answer, daemon, ledger, stray, sent>>

\* What c's code does next.
Step(c) ==
    \/ AttestLands(c) \/ Throws(c)
    \/ c \in Readers /\ VaultLands(c)
    \/ /\ c \in Positions
       /\ \/ DecodeLands(c) \/ BroadcastLands(c) \/ LookupLands(c) \/ Wake(c)

Next ==
    \/ \E p \in Positions : Submit(p)
    \/ \E r \in Readers : readVault(r)
    \/ \E c \in Callers : Step(c) \/ Serve(c)
    \/ \E t \in Txs : Arrive(t)
    \/ \E id \in ChainIds : Switch(id) \/ \E t \in Txs : Settle(id, t)
    \/ Crash
    \/ Tick

\* Time passes, and a caller whose answer is there or whose time is up goes
\* on; the daemon need not answer, and nobody need ask.
Spec ==
    /\ Init /\ [][Next]_vars
    /\ WF_vars(Tick) /\ \A c \in Callers : WF_vars(Step(c))

-----------------------------------------------------------------------------
\* The types of the state.
TypeOK ==
    /\ pc \in [Callers -> Requests \cup {"idle", "sleep"}]
    /\ tx \in [Positions -> Txs]
    /\ reply \in [Callers -> ChainIds \cup Replies \cup {None}]
    /\ left \in [Callers -> Nat]
    /\ deadline \in [Positions -> Int]
    /\ hashed \in [Positions -> BOOLEAN]
    /\ answer \in [Positions -> {"none", "refused", "rejected", "pending",
                                 "lost", "ok"}]
    /\ age \in 0..Ttl
    /\ daemon \in ChainIds
    /\ astray \in Nat
    /\ ledger \in [ChainIds -> [Txs -> Fates]]
    /\ stray \in SUBSET Txs /\ sent \in SUBSET Txs

\* The poll ends within one request of its deadline, whatever the daemon
\* does: the deadline is looked at between lookups, and one may run over it
\* (live-adapter.ts:394-415).  No other await is longer than a request.
PollEndsInTime ==
    \A p \in Positions :
        pc[p] \in Polling => deadline[p] + RequestTimeout > 0

\* A daemon that has left the expected chain is not used for long: a vault
\* read or a broadcast leaves only if the daemon was on it within the life of
\* an attestation or of the request for one, plus, for a broadcast, its decode
\* (signet.ts:137-143).
WrongChainUnused ==
    [][ RequireAttestation =>
        \A c \in Callers : pc'[c] # pc[c] =>
            /\ pc'[c] \in {"vault", "decode"} =>
                 astray < AtLeast(Ttl, RequestTimeout + 1)
            /\ pc'[c] = "broadcast" =>
                 astray < AtLeast(Ttl, RequestTimeout + 1) + RequestTimeout
      ]_vars

\* Every submission and every read ends, whatever the daemon does.
EveryCallEnds == \A c \in Callers : pc[c] # "idle" ~> pc[c] = "idle"

\* A rejected transaction is not one the daemon holds: "a rejection carries no
\* hash and is safe to retry" (transition.ts:19-20).
RejectedIsNotHeld ==
    \A p \in Positions, id \in ChainIds :
        answer[p] = "rejected" => ledger[id][tx[p]] \notin {"held", "committed"}

\* What TransitionPromise sees of the adapter and its daemon.
StageAt(what) ==
    CASE what = "idle" -> "idle"
      [] what \in {"attest", "decode"} -> "open"
      [] OTHER -> "handed"
Stage == [p \in Positions |-> StageAt(pc[p])]
Taken == {t \in Txs : \E id \in ChainIds : ledger[id][t] # "unseen"}
Committed == {t \in Txs : \E id \in ChainIds : ledger[id][t] = "committed"}

\* The adapter's answers mean what the routes take them for.
Promise == INSTANCE TransitionPromise WITH
    stage <- Stage, handed <- sent, taken <- Taken, committed <- Committed
ImplementsTransitionPromise == Promise!Spec
=============================================================================
