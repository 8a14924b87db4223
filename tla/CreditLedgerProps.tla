-------------------------- MODULE CreditLedgerProps --------------------------
(***************************************************************************)
(* What CreditLedger promises.  Which of these hold depends on which       *)
(* writers run beside the locked routes and on what may fail; the README   *)
(* says which run checks which, and why.                                   *)
(***************************************************************************)
EXTENDS CreditLedger

Database == [position : Position \cup {NoPosition}, receipts : Seq(Receipt),
             journal : SUBSET Receipt]

Context == [req : Request \cup {NoRequest},
            before : Position \cup {NoPosition},
            cur : Position \cup {NoPosition},
            outcome : {"none", "refused", "ok", "rejected", "pending", "lost"}]

\* The types of the state (store.ts:33-34, storage.ts DatabaseState).
TypeOK ==
    /\ cache \in Position \cup {NoPosition}
    /\ processed \in SUBSET Receipt
    /\ mem \in Database
    /\ disk \in Database
    /\ queue \in Seq(Procs)
    /\ pc \in [Actor -> Critical \cup {"idle", "queued", "reload"}]
    /\ waiting \in SUBSET Actor
    /\ ctx \in [Procs -> Context]
    /\ conn \in [busy : BOOLEAN, collateral : Nat, owed : Nat]
    /\ told \in SUBSET [req : Request, result : {"ALLOW", "DENY"},
                        pending : BOOLEAN]
    /\ budget \in [Kinds -> Nat]

-----------------------------------------------------------------------------
(* The lock.                                                               *)

\* Only the head of the promise chain is past the lock, so two transitions
\* never interleave on one position (store.ts:37-46), whatever throws,
\* crashes or is reset meanwhile.
OneHolder ==
    \A p \in Procs : pc[p] \in Critical => queue # <<>> /\ Head(queue) = p

\* Every request that joins the chain leaves it: no refusal, throw or replay
\* keeps the lock (the finally of withPositionLock).
EveryRequestEnds ==
    \A p \in Procs : pc[p] = "queued" ~> pc[p] = "idle"

-----------------------------------------------------------------------------
(* Nonces, receipts and debt.                                              *)

Allowed(receipts) == {i \in DOMAIN receipts : receipts[i].result = "ALLOW"}

\* Two approved transitions never carry the same nonce: the double draw of
\* store.ts:40-43 and the replay of covenant.ts:62.
OneAllowPerNonce ==
    \A i, j \in Allowed(mem.receipts) :
        mem.receipts[i].req.nonce = mem.receipts[j].req.nonce => i = j

\* The debt after a decision, by its receipt: a repayment is capped at what is
\* owed, whatever amount was signed.
OwedAfter(owed, x) ==
    IF x.result # "ALLOW" THEN owed
    ELSE IF x.req.action # "REPAY" THEN owed + x.req.amount
    ELSE IF x.req.amount < owed THEN owed - x.req.amount ELSE 0

\* The debt the receipts account for.
NetDebt(receipts) ==
    LET owed[n \in 0..Len(receipts)] ==
          IF n = 0 THEN 0 ELSE OwedAfter(owed[n - 1], receipts[n])
    IN  owed[Len(receipts)]

\* At every moment, so at every crash point, the debt on file is the debt its
\* receipts account for (draw/route.ts:188-189, storage.ts:203-209).
FileDebtMatchesReceipts ==
    disk.position # NoPosition =>
        disk.position.debt = NetDebt(disk.receipts)

\* The file never shows a position that advanced without its receipt, or a
\* receipt its position never recorded (store.ts:147-151).
FileNonceMatchesReceipts ==
    disk.position # NoPosition =>
        disk.position.nonce = Cardinality(Allowed(disk.receipts))

\* What the file has a receipt for can never be presented again after a
\* restart: the nonce on file is past every approved nonce on file.
FileNonceIsPastReceipts ==
    disk.position # NoPosition =>
        \A i \in Allowed(disk.receipts) :
            disk.receipts[i].req.nonce < disk.position.nonce

\* While the process lives, no write takes the cached nonce back: a stale
\* copy of the position never replaces a later one.
NonceNeverFalls ==
    [][ /\ cache # NoPosition /\ cache' # NoPosition
        /\ budget'["crash"] = budget["crash"]
        => cache'.nonce >= cache.nonce ]_vars

\* A position that owes more than its limit is frozen, wherever a copy of it
\* is read (store.ts:214-223, assertPositionInvariants).
OverdrawnIsFrozen ==
    \A position \in {cache, mem.position, disk.position} \ {NoPosition} :
        position.debt > position.limit => position.state = "FROZEN"

\* "Unilateral exit is available only at zero debt" (unlock/route.ts:36-37):
\* when an unlock is approved, in memory and on file, the receipts before it
\* leave nothing to repay, however old the snapshot it was authenticated with
\* and whatever ran while it waited for the lock.
ExitIsRepaid ==
    \A db \in {mem, disk} : \A i \in Allowed(db.receipts) :
        db.receipts[i].req.action = "UNLOCK"
            => NetDebt(SubSeq(db.receipts, 1, i)) = 0

\* An exited position owes nothing (invariants.ts:10-11).
ExitedOwesNothing ==
    cache # NoPosition /\ cache.state = "EXITED" => cache.debt = 0

\* Between restarts and resets, only a connect changes the collateral on
\* record, so a smaller chain read is never undone (store.ts:208-211).
OnlyConnectMovesCollateral ==
    [][ /\ cache # NoPosition /\ cache' # NoPosition
        /\ cache'.collateral # cache.collateral
        => conn.busy /\ ~conn'.busy ]_vars

\* Nothing leaves the exited state: "never re-runs on an exited position"
\* (unlock/route.ts:38), EXITED: {} (state-machine.ts:15).
ExitIsFinal ==
    [][ /\ cache # NoPosition /\ cache' # NoPosition
        /\ cache.state = "EXITED"
        => cache'.state = "EXITED" ]_vars

\* A frozen position opens no new credit (state-machine.ts:8-10).
FrozenOpensNoCredit ==
    [][ /\ cache # NoPosition /\ cache' # NoPosition
        /\ cache.state = "FROZEN"
        => cache'.debt <= cache.debt ]_vars

-----------------------------------------------------------------------------
(* Answers, retries and restarts.                                          *)

\* A client that was told ALLOW finds the receipt on file, crash or not: the
\* response is sent after the decision is on disk (storage.ts:135-140).
\* (A draw replayed from a pending receipt is told ALLOW too.)
ToldAllowIsOnFile ==
    \A d \in told : d.result = "ALLOW" =>
        \E i \in Allowed(disk.receipts) : disk.receipts[i].req = d.req

\* The same for answers that do not replay a pending receipt.
ToldCommitIsOnFile ==
    \A d \in told : d.result = "ALLOW" /\ ~d.pending =>
        \E i \in Allowed(disk.receipts) : disk.receipts[i].req = d.req

Final(d) == d.result = "ALLOW" \/ d.pending

\* A request whose client was told it committed, or that it is pending, never
\* goes to the daemon again, however often it is retried and across restarts
\* (transition.ts:15-20).
FinalAnswerNeverResubmitted ==
    \A p \in Procs : pc[p] = "submit" =>
        \A d \in told : d.req = ctx[p].req => ~Final(d)

\* A transition the daemon holds a hash for is journaled before anyone else
\* is let in, so at the lock's release a pending receipt is in the journal.
PendingIsJournaled ==
    \A i \in DOMAIN mem.receipts :
        mem.receipts[i].pending =>
            \/ \E x \in processed : x = mem.receipts[i]
            \/ \E p \in Procs : pc[p] = "journal"
                                /\ ctx[p].req = mem.receipts[i].req

\* The retry of a repay or unlock is answered as the original was.
RetryAnsweredAlike ==
    [][ \A d \in told' \ told, e \in told :
            d.req = e.req /\ Final(e) /\ d.req.action # "DRAW" => d = e ]_vars

\* The retry of a request with an approved receipt is answered from the
\* journal, not with a nonce conflict (README.md:41).
CommittedRetryIsReplayed ==
    [][ \A p \in Procs : Conflict(p) =>
            \A i \in Allowed(mem.receipts) :
                mem.receipts[i].req # ctx[p].req ]_vars

\* A request with a pending receipt on file is not broadcast again when it is
\* retried (README.md:140-142).
PendingNeverResubmitted ==
    \A p \in Procs : pc[p] = "submit" =>
        \A i \in DOMAIN mem.receipts :
            mem.receipts[i].req = ctx[p].req => ~mem.receipts[i].pending

\* A repayment that reached the daemon is recorded: the handler goes on to
\* write a receipt (repay/route.ts:23, "Repayment is always permitted").
RepaymentIsRecorded ==
    [][ \A p \in Procs : pc[p] = "submit" /\ ctx[p].req.action = "REPAY"
            => pc'[p] # "idle" ]_<<pc, ctx>>

\* A reset wipes the position: it does not come back until a vault connects
\* (store.ts:253).
ResetWipesPosition ==
    [][ cache = NoPosition /\ cache' # NoPosition => conn.busy ]_vars
==============================================================================
