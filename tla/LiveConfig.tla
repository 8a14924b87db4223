----------------------------- MODULE LiveConfig -----------------------------
(***************************************************************************)
(* The configuration of a live deployment and what is decided from it      *)
(* without state: whether the server boots on it (env.ts), whether the     *)
(* readiness report calls it executable (readiness.ts), which vaults and   *)
(* writes the live adapter admits (live-adapter.ts), and from which source *)
(* the loan health of a draw is taken (oracle-client.ts, derive.ts,        *)
(* verify.ts, the reference oracle in scripts/hat-oracle.ts).              *)
(*                                                                         *)
(* An environment is read once: nothing in the server changes process.env. *)
(* Addresses are told apart by the network they belong to, sats by none or *)
(* some; the exposure cap is LiveAdapter's, the health ratio CreditGate's. *)
(***************************************************************************)
EXTENDS Integers

CONSTANTS
    Mine,      \* the vault address the operator's key derives, on signet
    Others,    \* other P2TR addresses on signet
    Foreign,   \* P2TR addresses on mainnet
    Misspelt   \* strings with signet's prefix whose checksum is wrong

Unset == 0                                \* TACHI_VAULT_REF left out
Vaults == {Mine} \cup Others \cup Foreign \cup Misspelt

ASSUME ConfigAssumption ==
    /\ Unset \notin Vaults /\ Mine \notin Others \cup Foreign \cup Misspelt
    /\ Others \cap Foreign = {} /\ Misspelt \cap (Others \cup Foreign) = {}

\* The settings of live mode.  "live" is off, switched on by
\* LIVE_TACHI_ENABLED, or by PROOF_MODE=live alone.
Settings == [live : {"off", "enabled", "proof"}, network : {"signet", "mainnet"},
             allowMainnet : BOOLEAN, chainIdSet : BOOLEAN, killSwitch : BOOLEAN,
             oracle : BOOLEAN, keys : BOOLEAN, attestation : BOOLEAN,
             chainRead : BOOLEAN, vault : {Unset} \cup Vaults,
             allowed : SUBSET Vaults]

\* On signet nothing reads how live mode was switched on, nor the two settings
\* of mainnet: one value stands for all.
Env == {e \in Settings : e.network = "signet" =>
            e.live # "proof" /\ ~e.allowMainnet /\ ~e.chainIdSet}

-----------------------------------------------------------------------------
(* env.ts                                                                  *)

liveEnabled(e) == e.live # "off"

mainnetAllowed(e) == e.allowMainnet /\ e.live = "enabled" /\ ~e.killSwitch

\* checkVaultRef (signet.ts): the address decodes and is the network's.
checkVaultRef(v, network) ==
    v \in IF network = "signet" THEN {Mine} \cup Others ELSE Foreign

\* At boot the prefix and the length decide, not the checksum.
looksLikeP2trForNetwork(v, network) ==
    checkVaultRef(v, network) \/ (network = "signet" /\ v \in Misspelt)

validatePolicy(e) ==
    /\ e.oracle \/ e.keys
    /\ e.network = "mainnet" => e.chainIdSet
    /\ e.attestation \/ e.oracle
    /\ e.allowed # {} /\ e.vault # Unset
    /\ \A v \in e.allowed \cup {e.vault} : looksLikeP2trForNetwork(v, e.network)

boots(e) == liveEnabled(e) => validatePolicy(e)

-----------------------------------------------------------------------------
(* readiness.ts                                                            *)

\* Mutant: the report forgets the kill switch.
configReadinessArmed(e) ==
    /\ liveEnabled(e)
    /\ e.network = "mainnet" => mainnetAllowed(e)
    /\ e.vault # Unset /\ checkVaultRef(e.vault, e.network)
    /\ e.allowed # {} /\ \A v \in e.allowed : checkVaultRef(v, e.network)
    /\ e.chainRead /\ e.attestation

\* executionReady of configReadiness: every blocking check.  A disabled
\* attestation blocks as well, and neither the proof anchor nor the cap does.
configReadiness(e) ==
    /\ liveEnabled(e)
    /\ ~e.killSwitch
    /\ e.network = "mainnet" => mainnetAllowed(e)
    /\ e.vault # Unset /\ checkVaultRef(e.vault, e.network)
    /\ e.allowed # {} /\ \A v \in e.allowed : checkVaultRef(v, e.network)
    /\ e.chainRead /\ e.attestation

-----------------------------------------------------------------------------
(* live-adapter.ts                                                         *)

assertVaultBinding(e, v) ==
    /\ e.network = "mainnet" => mainnetAllowed(e)
    /\ e.allowed # {} => v \in e.allowed
    /\ checkVaultRef(v, e.network)

assertWriteGates(e, v) == ~e.killSwitch /\ assertVaultBinding(e, v)

-----------------------------------------------------------------------------
(* The loan-health proof.                                                  *)

\* What readTachiSnapshot brings home: nothing (a request failed, or the race
\* against its deadline was lost), a daemon on another chain, a vault whose
\* entries do not parse, a vault that is empty, one with locked value.
Reads == {"fails", "otherChain", "unusable", "empty", "funded"}

\* basis is what the health was computed from; "stated" is an oracle's word.
\* bound: it names the position, vault and network that were asked for.
Proof == [source : {"oracle", "derived"}, verified : BOOLEAN, bound : BOOLEAN,
          signer : {"nobody", "broken", "stranger", "trusted"},
          basis : {"observed", "modeled", "stated"}, healthy : BOOLEAN]

\* No collateral is no health; with some it is a matter of the debt.
deriveHealthProof(basis, healthy) ==
    [source |-> "derived", verified |-> TRUE, bound |-> TRUE, signer |-> "nobody",
     basis |-> basis, healthy |-> healthy]

\* The reference oracle signs whatever it computes; what it could not read, or
\* read as empty, it takes from the request, which names none: 5000 sats.
attested(read, healthy) ==
    [deriveHealthProof(IF read = "funded" THEN "observed" ELSE "modeled", healthy)
        EXCEPT !.source = "oracle", !.signer = "trusted"]

\* Any other oracle behind HAT_ORACLE_URL, whose key may be listed or not.
Statements == {p \in Proof : p.source = "oracle" /\ p.basis = "stated"}

NoAnswer == [source |-> "none"]

OracleAnswers ==
    {NoAnswer} \cup Statements
      \cup {attested(r, h) : r \in Reads, h \in BOOLEAN}

\* An answer bound to something else, or out of range, throws inside the try:
\* it is dropped like one that never came.
Taken(e, answer) == e.oracle /\ answer # NoAnswer /\ answer.bound

\* Mutant: an answer that was dropped is made up for without a read.
fetchLiveLoanHealthProofUnread(e, answer, read, healthy) ==
    IF Taken(e, answer) THEN {answer}
    ELSE IF ~(e.oracle /\ answer # NoAnswer) /\ read \in {"empty", "funded"}
    THEN {deriveHealthProof("observed", healthy /\ read = "funded")}
    ELSE {p \in {deriveHealthProof("modeled", healthy)} :
            ~e.chainRead \/ (e.oracle /\ answer # NoAnswer)}

\* fetchLiveLoanHealthProof in live mode: the proof it returns, or none when it
\* throws.  Modeled collateral only where the operator asked for it.
fetchLiveLoanHealthProof(e, answer, read, healthy) ==
    IF Taken(e, answer) THEN {answer}
    ELSE IF read \in {"empty", "funded"}
    THEN {deriveHealthProof("observed", healthy /\ read = "funded")}
    ELSE {p \in {deriveHealthProof("modeled", healthy)} : ~e.chainRead}

\* Its digest is its own (normalizeProof has just computed it); a broken
\* signature never passes, and with an allowlist only a listed key does.
verifyNormalizedProof(e, p) ==
    /\ p.verified /\ p.signer # "broken"
    /\ e.keys => p.signer = "trusted"

\* creditGate and evaluateDraw, as far as the proof goes.
gate(e, p) == verifyNormalizedProof(e, p) /\ p.bound /\ p.healthy
=============================================================================
