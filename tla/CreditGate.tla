----------------------------- MODULE CreditGate -----------------------------
(***************************************************************************)
(* The pure part of DrawBound: the credit limit a collateral supports, the *)
(* loan-health ratio, the covenant that gates a draw, and the position     *)
(* records that the three transitions compute.  Every route and the store  *)
(* call these; nothing here has state.                                     *)
(*                                                                         *)
(* Sats, credit units and basis points are integers.  The code divides in  *)
(* floating point and floors; here the division is exact.                  *)
(***************************************************************************)
EXTENDS Integers

CONSTANTS
    CreditUnitSats,       \* sats of collateral that back one unit of credit
    MinHealthBps,         \* lowest loan health at which a draw is allowed
    MaxDrawsPerPosition   \* draws a position may make; 0 disables the cap

ASSUME GateAssumption ==
    /\ CreditUnitSats \in Nat \ {0}
    /\ MinHealthBps \in Nat
    /\ MaxDrawsPerPosition \in Nat

\* The states some handler writes (EMPTY, CREDIT_OPEN and UNLOCKABLE are
\* declared in types.ts but nothing assigns them).
CreditState == {"COLLATERALIZED", "ACTIVE", "FROZEN", "REPAID", "EXITED"}
ExitStatus  == {"LOCKED", "AVAILABLE", "EXITED"}

\* A position without its identity (id, vaultRef), its constant minHealthBps
\* and its latestProof, which no decision reads.
Position == [collateral : Nat, limit : Nat, debt : Nat, draws : Nat,
             nonce : Nat, state : CreditState, exit : ExitStatus]

-----------------------------------------------------------------------------
\* Collateral below one unit still opens one unit of credit.
calculateCreditLimit(collateral) ==
    IF collateral = 0 THEN 0
    ELSE IF collateral < CreditUnitSats THEN 1
    ELSE collateral \div CreditUnitSats

MaxHealthBps == 65000

\* deriveHealthProof in live mode: no collateral is no health, no debt is the
\* best health there is.
healthBps(collateral, debt) ==
    IF collateral = 0 THEN 0
    ELSE IF debt = 0 THEN MaxHealthBps
    ELSE LET ratio == (collateral * 10000) \div (debt * CreditUnitSats)
         IN  IF ratio > MaxHealthBps THEN MaxHealthBps ELSE ratio

\* The limit evaluateDraw applies: a zero creditLimitUnits is recomputed.
effectiveLimit(position) ==
    IF position.limit # 0 THEN position.limit
    ELSE calculateCreditLimit(position.collateral)

\* evaluateDraw: TRUE iff the draw is allowed.  A proof is
\* [usable : BOOLEAN, health : Nat]; usable stands for its verification, its
\* binding to position, vault, network and covenant version, and its expiry.
\* Every refusal has the same effect, so the reasons are not told apart.
evaluateDraw(position, proof, amount, nonce) ==
    /\ position.state # "EXITED"
    /\ amount > 0
    /\ nonce = position.nonce
    /\ MaxDrawsPerPosition # 0 => position.draws < MaxDrawsPerPosition
    /\ position.debt + amount <= effectiveLimit(position)
    /\ proof.usable
    /\ proof.health >= MinHealthBps

\* assertPositionInvariants: what the code throws on.
assertPositionInvariants(position) ==
    /\ position.debt <= position.limit
    /\ position.exit = "AVAILABLE" => position.debt = 0
    /\ position.state = "EXITED" => position.debt = 0

-----------------------------------------------------------------------------
\* Mutant: the whole amount, whatever is owed.
repayableUncapped(position, amount) == amount

\* The amount of a repayment that is applied: capped at the debt.
repayable(position, amount) ==
    IF amount < position.debt THEN amount ELSE position.debt

frozen(position) == [position EXCEPT !.state = "FROZEN"]

\* Mutant: the nonce is not advanced.
drawnSameNonce(position, amount) ==
    [position EXCEPT !.debt  = @ + amount, !.state = "ACTIVE",
                     !.exit  = "LOCKED",   !.draws = @ + 1]

drawn(position, amount) ==
    [position EXCEPT !.debt  = @ + amount, !.state = "ACTIVE",
                     !.exit  = "LOCKED",   !.draws = @ + 1,
                     !.nonce = @ + 1]

repaid(position, amount) ==
    LET rest == position.debt - repayable(position, amount)
    IN  [position EXCEPT
            !.debt  = rest,
            !.state = IF rest = 0 THEN "REPAID" ELSE @,
            !.exit  = IF rest = 0 THEN "AVAILABLE" ELSE @,
            !.nonce = @ + 1]

\* The unlock route spreads the snapshot it authenticated against (before),
\* and takes only the nonce from the position it re-read under the lock.
exited(before, current) ==
    [before EXCEPT !.state = "EXITED", !.exit = "EXITED",
                   !.nonce = current.nonce + 1]

\* Mutant: an overdrawn position is not frozen.
reconnectedUnfrozen(position, collateral) ==
    [position EXCEPT !.collateral = collateral,
                     !.limit = calculateCreditLimit(collateral)]

\* connectVault on a position the store already holds, in live mode.
reconnected(position, collateral) ==
    LET derived == calculateCreditLimit(collateral)
    IN  [position EXCEPT
            !.collateral = collateral,
            !.limit = derived,
            !.state = IF position.debt > derived THEN "FROZEN" ELSE @]

\* connectVault on a vault it has no position for, in live mode.
opened(collateral) ==
    [collateral |-> collateral, limit |-> calculateCreditLimit(collateral),
     debt |-> 0, draws |-> 0, nonce |-> 0,
     state |-> "COLLATERALIZED", exit |-> "LOCKED"]
=============================================================================
