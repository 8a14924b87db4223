--------------------------- MODULE LiveDeployment ---------------------------
(***************************************************************************)
(* Bringing a vault live: the onboarding driver and the scripts it runs    *)
(* one after the other (live-onboard.mts: derive, fund, operator-live.mts  *)
(* register, live-check.mts, build-transition.mts), the funding script     *)
(* (fund-vault.mts), the daemon's ledger they all write to, and the server *)
(* that is booted on the same environment and broadcasts the transaction   *)
(* they end with.                                                          *)
(*                                                                         *)
(* Every step of a script is a call of the daemon that may fail, which     *)
(* ends the run, as may the operator; the run can be repeated.  What was   *)
(* broadcast stays with the daemon and commits, or is dropped, when it     *)
(* likes.  The ledger is modelled from how the scripts use it: a           *)
(* transaction commits with the account's nonce, which it consumes even if *)
(* it fails.                                                               *)
(***************************************************************************)
EXTENDS LiveConfig

CONSTANTS
    Deposit,    \* sats of a deposit (OPERATOR_VTXO_AMOUNT)
    Fee,        \* fee of a ledger transaction
    Draw,       \* sats the transition moves (DRAW_AMOUNT_SATS)
    MaxRuns,    \* bound: runs of the scripts
    MaxNonce    \* bound: transactions the ledger commits

NoVtxo == <<"none", 0>>
NoTx == [kind |-> "none", nonce |-> 0, input |-> NoVtxo, amount |-> 0]
Depositing ==
    [kind |-> "deposit", nonce |-> 0, input |-> NoVtxo, amount |-> Deposit]
NoRun == [source |-> "none"]       \* no decision yet
Down == [live |-> "down"]          \* no server, no environment checked

ASSUME DeploymentAssumption ==
    /\ Deposit \in Nat /\ Fee \in Nat /\ Draw \in Nat
    /\ MaxRuns \in Nat /\ MaxNonce \in Nat

VARIABLES
    stage,      \* the step the scripts are at, or "idle"
    runs,
    draft,      \* the transaction being built
    env,        \* environment live-check passed, until it is edited
    hex,        \* the signed transaction of the last run that was READY
    moved,      \* the ledger committed something since the build's listing
    nonce,      \* the account's nonce on the ledger
    vtxos,      \* [id, amount, spent] of the operator's key
    mempool,
    opened,     \* the vault's outpoint is registered: it holds locked value
    server,     \* environment of the server that is up, or Down
    decided     \* proof of the server's last live draw (history)

scripts == <<stage, runs, draft, env, hex>>
ledger == <<nonce, vtxos, mempool, opened, moved>>
vars == <<scripts, ledger, server, decided>>

Init ==
    /\ stage = "idle" /\ runs = 0 /\ draft = NoTx /\ env = Down /\ hex = NoTx
    /\ nonce = 0 /\ vtxos = {} /\ mempool = {} /\ opened = FALSE /\ moved = FALSE
    /\ server = Down /\ decided = NoRun

-----------------------------------------------------------------------------
(* The daemon.                                                             *)

Id(t) == <<t.kind, t.nonce>>
Unspent == {v \in vtxos : ~v.spent}

\* The VTXO a transaction leaves to the key that signed it; a transition moves
\* its value and its change into the vault.
Output(t) ==
    IF t.kind = "transfer" THEN {}
    ELSE {[id |-> Id(t), amount |-> t.amount, spent |-> FALSE]}

Apply(t) ==
    /\ vtxos' = {[v EXCEPT !.spent = @ \/ v.id = t.input] : v \in vtxos}
                  \cup Output(t)
    /\ opened' = (opened \/ t.kind = "open")

\* A transaction commits or fails: it consumes the nonce either way.
Commit(t) ==
    /\ t \in mempool /\ t.nonce = nonce /\ nonce < MaxNonce
    /\ nonce' = nonce + 1
    /\ mempool' = {u \in mempool : u.nonce > nonce}
    /\ moved' = TRUE
    /\ \/ /\ t.input = NoVtxo \/ \E v \in Unspent : v.id = t.input
          /\ Apply(t)
       \/ UNCHANGED <<vtxos, opened>>
    /\ UNCHANGED <<scripts, server, decided>>

Drop(t) ==
    /\ t \in mempool
    /\ mempool' = mempool \ {t}
    /\ UNCHANGED <<scripts, nonce, vtxos, opened, moved, server, decided>>

\* A script ends, and what it knew goes with it.
End == stage' = "idle" /\ draft' = NoTx /\ env' = Down

\* broadcastTachiTx: the daemon has it, and the script goes on with its next
\* draft or, without the answer, does not.
Broadcast(t, next, then) ==
    /\ mempool' = mempool \cup {t}
    /\ \/ stage' = next /\ draft' = then /\ env' = Down
       \/ End
    /\ UNCHANGED <<nonce, vtxos, opened, moved>>

-----------------------------------------------------------------------------
(* live-onboard.mts and operator-live.mts register.                        *)

\* A run begins: the vault is derived from the daemon's live quorum.  The
\* server comes after the scripts, as the runbook has it.
deriveVault ==
    /\ stage = "idle" /\ runs < MaxRuns /\ server = Down
    /\ stage' = "fund" /\ runs' = runs + 1
    /\ draft' = NoTx /\ env' = Down /\ hex' = NoTx
    /\ UNCHANGED <<ledger, server, decided>>

\* A run ends before its time: a call fails, a check refuses, the operator
\* stops it.
Stops ==
    /\ stage # "idle"
    /\ End
    /\ UNCHANGED <<runs, hex, ledger, server, decided>>

\* The deposit has its confirmations, or no bitcoind says otherwise, or the
\* operator has typed the id of one.
fund ==
    /\ stage = "fund" /\ stage' = "register"
    /\ UNCHANGED <<runs, draft, env, hex, ledger, server, decided>>

Opening(input, amount) ==
    [kind |-> "open", nonce |-> 0, input |-> input, amount |-> amount - Fee]

\* registerVaultAction: a free VTXO above the fee is spent; when none is seen,
\* because there is none or because the listing failed, a deposit is made.
registerVaultAction ==
    /\ stage = "register"
    /\ \/ \E v \in Unspent :
            /\ v.amount > Fee
            /\ draft' = Opening(v.id, v.amount)
            /\ stage' = "open"
       \/ /\ draft' = Depositing
          /\ stage' = "nonce"
    /\ UNCHANGED <<runs, env, hex, ledger, server, decided>>

\* The deposit's nonce, or 0 when it cannot be read.
depositNonce ==
    /\ stage = "nonce"
    /\ draft' \in {[draft EXCEPT !.nonce = n] : n \in {nonce, 0}}
    /\ stage' = "deposit"
    /\ UNCHANGED <<runs, env, hex, ledger, server, decided>>

\* The deposit is sent; its VTXO is spent next, and whether it commits in
\* time makes no difference.
onboardDeposit ==
    /\ stage = "deposit"
    /\ Broadcast(draft, "open", Opening(Id(draft), draft.amount))
    /\ UNCHANGED <<runs, hex, server, decided>>

\* registerVault reads the nonce, signs and sends the TxVaultOpen.
registerVault ==
    /\ stage = "open" /\ draft.amount > 0
    /\ LET t == [draft EXCEPT !.nonce = nonce] IN Broadcast(t, "confirm", t)
    /\ UNCHANGED <<runs, hex, server, decided>>

\* ... and waits for its commit.
registered ==
    /\ stage = "confirm" /\ \E v \in vtxos : v.id = Id(draft)
    /\ stage' = "check" /\ draft' = NoTx
    /\ UNCHANGED <<runs, env, hex, ledger, server, decided>>

\* fund-vault.mts: an L1 deposit of its own, a ledger deposit with nonce 0 and
\* no fee, and the registration that spends it; the check and the build are
\* then run by hand.
fundVault ==
    /\ stage = "idle" /\ runs < MaxRuns /\ server = Down
    /\ runs' = runs + 1
    /\ Broadcast(Depositing, "open", [Depositing EXCEPT !.kind = "open",
                                                     !.input = Id(Depositing)])
    /\ hex' = NoTx
    /\ UNCHANGED <<server, decided>>

-----------------------------------------------------------------------------
(* live-check.mts and build-transition.mts.                                *)

\* probeReadiness on an environment: the configuration, the chain id of the
\* daemon, and locked value in the configured vault.
probeReadiness(e) ==
    /\ boots(e) /\ configReadiness(e)
    /\ e.vault = Mine => opened

liveCheck ==
    /\ stage = "check"
    /\ \E e \in Env : probeReadiness(e) /\ env' = e
    /\ stage' = "build"
    /\ UNCHANGED <<runs, draft, hex, ledger, server, decided>>

\* The daemon is on the expected chain, and the vault the key derives is the
\* configured one.
buildTransition ==
    /\ stage = "build" /\ env.vault = Mine
    /\ stage' = "list"
    /\ UNCHANGED <<runs, draft, env, hex, ledger, server, decided>>

\* Mutant: a VTXO that is spent will do.
listVtxosSpent ==
    /\ stage = "list"
    /\ \E v \in vtxos :
         /\ v.amount >= Draw + Fee
         /\ draft' = [kind |-> "transfer", nonce |-> 0, input |-> v.id,
                      amount |-> Draw]
    /\ moved' = FALSE
    /\ stage' = "sign"
    /\ UNCHANGED <<runs, env, hex, nonce, vtxos, mempool, opened, server,
                   decided>>

\* The input: an unspent VTXO that covers amount and fee.  Any of them: those
\* the daemon holds locked are passed over, and argv[7] only states another
\* value for the change.  (With OPERATOR_VTXO_ID set the operator's word is
\* taken for both; left out.)
listVtxos ==
    /\ stage = "list"
    /\ \E v \in Unspent :
         /\ v.amount >= Draw + Fee
         /\ draft' = [kind |-> "transfer", nonce |-> 0, input |-> v.id,
                      amount |-> Draw]
    /\ moved' = FALSE
    /\ stage' = "sign"
    /\ UNCHANGED <<runs, env, hex, nonce, vtxos, mempool, opened, server,
                   decided>>

\* The nonce; without it the build stops.
signTransition ==
    /\ stage = "sign"
    /\ draft' = [draft EXCEPT !.nonce = nonce]
    /\ stage' = "decode"
    /\ UNCHANGED <<runs, env, hex, ledger, server, decided>>

\* The daemon reads the transaction back as it was built: READY.
decodeTransition ==
    /\ stage = "decode"
    /\ hex' = draft /\ stage' = "idle" /\ draft' = NoTx
    /\ UNCHANGED <<runs, env, ledger, server, decided>>

-----------------------------------------------------------------------------
(* The server.                                                             *)

\* validateEnv and validatePolicy at module load.  The environment may have
\* been edited, and then it is no longer the one that was checked; a server
\* without live mode sends nothing.
Boot ==
    /\ server = Down /\ hex # NoTx
    /\ \E e \in Env :
         /\ boots(e) /\ liveEnabled(e)
         /\ server' = e
         /\ env' = IF e = env THEN env ELSE Down
    /\ UNCHANGED <<stage, runs, draft, hex, ledger, decided>>

Stop ==
    /\ server # Down
    /\ server' = Down /\ decided' = NoRun
    /\ UNCHANGED <<scripts, ledger>>

\* A draw on a position of vault v with the operator's transaction: the
\* proof, the gate, the write gates, the broadcast.
DrawLive(v) ==
    /\ server # Down /\ hex # NoTx
    /\ \E answer \in OracleAnswers, read \in Reads, healthy \in BOOLEAN :
         \E p \in fetchLiveLoanHealthProof(server, answer, read, healthy) :
            /\ gate(server, p)
            /\ assertWriteGates(server, v)
            /\ decided' = p
    /\ mempool' = mempool \cup {hex}
    /\ UNCHANGED <<scripts, nonce, vtxos, opened, moved, server>>

-----------------------------------------------------------------------------
Scripts ==
    \/ deriveVault \/ fund \/ registerVaultAction \/ depositNonce
    \/ onboardDeposit \/ registerVault \/ registered \/ fundVault
    \/ liveCheck \/ buildTransition \/ listVtxos \/ signTransition
    \/ decodeTransition \/ Stops

Daemon == \E t \in mempool : Commit(t) \/ Drop(t)

Next ==
    \/ Scripts \/ Daemon
    \/ Boot \/ Stop \/ \E v \in Vaults : DrawLive(v)

Spec == Init /\ [][Next]_vars

-----------------------------------------------------------------------------
\* A transaction printed READY would be applied: unless the ledger has moved
\* since its inputs were listed, its nonce is the account's and its input is
\* unspent and covers it ("never guesses an input, never signs with a
\* fallback nonce", build-transition.mts:26-29).
ReadyIsSpendable ==
    hex # NoTx /\ ~moved =>
        /\ hex.nonce = nonce
        /\ \E v \in Unspent : v.id = hex.input /\ v.amount >= hex.amount + Fee

\* On the environment live-check let through the server boots, the vault holds
\* locked value, and beside the cap on an amount the write gates refuse its
\* draw in exactly one case: the vault is not on the allowlist, which the report
\* does not ask (readiness.ts:95-110) and the adapter does
\* (live-adapter.ts:166-168).
ReadyIsExecutable ==
    hex # NoTx /\ env # Down =>
        /\ boots(env) /\ opened
        /\ (assertWriteGates(env, Mine) <=> Mine \in env.allowed)

\* A draw that rests on the server's own computation rests on sats it read
\* from the chain, unless the operator chose otherwise: also when an oracle's
\* answer was dropped because it is bound to something else
\* (oracle-client.ts:81-97, 113-139).
DerivedIsObserved ==
    decided # NoRun /\ server.chainRead /\ decided.source = "derived" =>
        decided.basis = "observed"

\* "When true (default) live mode refuses to decide on modeled collateral"
\* (env.ts:243-246).
NeverModeled ==
    decided # NoRun /\ server.chainRead => decided.basis # "modeled"

\* Live mode "makes the health input externally verifiable before any real
\* write happens" (env.ts:79-83).
HealthIsExternal == decided # NoRun => decided.source = "oracle"

\* "READY: a signed transaction would be broadcast" (live-check.mts:119): on
\* the environment that was checked some draw of the vault passes every gate.
ReadyIsDrawable ==
    hex # NoTx /\ env # Down =>
        /\ assertWriteGates(env, Mine)
        /\ \E answer \in OracleAnswers, read \in Reads :
             \E p \in fetchLiveLoanHealthProof(env, answer, read, TRUE) : gate(env, p)
=============================================================================
