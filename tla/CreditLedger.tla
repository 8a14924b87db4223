---------------------------- MODULE CreditLedger ----------------------------
(***************************************************************************)
(* One position of DrawBound and everything that writes it: the draw,      *)
(* repay and unlock routes, which run under the per-position lock, and     *)
(* connect, proof refresh and admin reset, which do not.                   *)
(*                                                                         *)
(* The position lives in three places: the store's cache (store.ts), the   *)
(* memory of the database backend and the file.  A step of this module is  *)
(* what one request does between two awaits that may really wait: for the  *)
(* lock, for the daemon, or for the file.  With the sqlite backend a       *)
(* database write is synchronous, so a request never waits for the file    *)
(* and no other request runs between its writes; with the JSON backend     *)
(* every write waits for the next file save, and others run meanwhile.     *)
(*                                                                         *)
(* The deployment is the live one (LIVE mode, chain reads required).  Not  *)
(* modelled: sessions and signatures (a request is authentic), latestProof *)
(* and the proof archive (no decision reads them; writing latestProof also *)
(* rewrites the whole position, and that is modelled).                     *)
(***************************************************************************)
EXTENDS CreditGate, Sequences, FiniteSets

CONSTANTS
    Procs,          \* requests that may be in flight at once
    Admin,          \* the request that runs /api/reset
    Signers,        \* session public keys bound to the position
    MaxAmount,      \* largest signed amount
    MaxNonce,       \* largest signed nonce
    NonceAhead,     \* how far a client signs ahead of the nonce it was shown
    Collaterals,    \* what a chain read of the vault may report
    Failed,         \* a health read that fails
    Unusable,       \* a health proof that does not verify or is stale
    Readings,       \* what a health read may give: collaterals, Failed and
                    \* Unusable
    Outcomes,       \* what the adapter may answer: "ok", "rejected",
                    \* "pending" (hash known), "lost" (no hash known)
    Backend,        \* "json" or "sqlite"
    WriteErrors,    \* whether a file save may fail
    Budget,         \* bound on how often each kind of event happens
    NoPosition,     \* null value for positions
    NoRequest       \* null value for requests

Kinds == {"request", "connect", "proof", "reset", "crash"}

\* What a client signs.  DRAW refuses amounts below 1, UNLOCK all but 0.
Request ==
    {r \in [action : {"DRAW", "REPAY", "UNLOCK"}, amount : 0..MaxAmount,
            nonce : 0..MaxNonce, signer : Signers] :
        /\ r.action = "DRAW" => r.amount > 0
        /\ r.action = "UNLOCK" => r.amount = 0}

\* A decision receipt.  The request stands for the fingerprint it is
\* journaled under; pending marks a receipt that names a transaction to
\* reconcile.
Receipt == [req : Request, result : {"ALLOW", "DENY"}, pending : BOOLEAN]

ASSUME LedgerAssumption ==
    /\ MaxAmount \in Nat /\ MaxNonce \in Nat /\ NonceAhead \in Nat
    /\ Collaterals \subseteq Nat
    /\ Readings \subseteq Collaterals \cup {Failed, Unusable}
    /\ Outcomes \subseteq {"ok", "rejected", "pending", "lost"}
    /\ Backend \in {"json", "sqlite"}
    /\ WriteErrors \in BOOLEAN
    /\ Budget \in [Kinds -> Nat]
    /\ Admin \notin Procs
    /\ {Failed, Unusable} \cap Nat = {}
    /\ NoPosition \notin Position
    /\ NoRequest \notin Request

VARIABLES
    cache,      \* store.ts positions: this position, or NoPosition
    processed,  \* store.ts processedDraws: journaled receipts
    mem,        \* the backend's own copy: position, receipts, journal
    disk,       \* what a restart would read
    queue,      \* requests in the per-position promise chain; the head runs
    pc,         \* what each request does next
    waiting,    \* requests whose file save is pending
    ctx,        \* each request's own variables
    conn,       \* the connect in flight, between its reads and its write
    told,       \* decisions clients have been answered (history)
    budget      \* events left (bound)

vars == <<cache, processed, mem, disk, queue, pc, waiting, ctx, conn, told,
          budget>>

Blank == [req |-> NoRequest, before |-> NoPosition, cur |-> NoPosition,
          outcome |-> "none"]
NoConnect == [busy |-> FALSE, collateral |-> 0, owed |-> 0]

\* Where a request may wait for something other than the file.
Yielding == {"idle", "queued", "reading", "submit"}

\* What a request that holds the lock does next.
Critical == {"reading", "attach", "note", "journal", "submit", "exit",
             "commit", "publish", "reply"}

Actor == Procs \cup {Admin}

Init ==
    /\ \E c \in Collaterals \ {0} : cache = opened(c)
    /\ processed = {}
    /\ mem = [position |-> cache, receipts |-> <<>>, journal |-> {}]
    /\ disk = mem
    /\ queue = <<>>
    /\ pc = [a \in Actor |-> "idle"]
    /\ waiting = {}
    /\ ctx = [p \in Procs |-> Blank]
    /\ conn = NoConnect
    /\ told = {}
    /\ budget = Budget

-----------------------------------------------------------------------------
Spend(kind) ==
    /\ budget[kind] > 0
    /\ budget' = [budget EXCEPT ![kind] = @ - 1]

\* a may run: its file save is done and, with sqlite, no other request is in
\* the middle of a synchronous stretch.
MayRun(a) ==
    /\ a \notin waiting
    /\ Backend = "sqlite" =>
         \A b \in Actor \ {a} : pc[b] \in Yielding

\* Mutant: a write nobody waits for.
WriteUnawaited(db, who) ==
    /\ mem' = db
    /\ UNCHANGED <<disk, waiting>>

\* Database write by the requests in who, which then wait for the file.
Write(db, who) ==
    /\ mem' = db
    /\ IF Backend = "sqlite"
       THEN disk' = db /\ UNCHANGED waiting
       ELSE waiting' = waiting \cup who /\ UNCHANGED disk

Goto(p, label) == pc' = [pc EXCEPT ![p] = label]

\* Mutant: the lock is not passed on.
ReleaseNobody(p) ==
    /\ Goto(p, "idle")
    /\ ctx' = [ctx EXCEPT ![p] = Blank]
    /\ UNCHANGED queue

\* The handler returns or throws: finally, the lock passes to the next.
Release(p) ==
    /\ queue' = Tail(queue)
    /\ Goto(p, "idle")
    /\ ctx' = [ctx EXCEPT ![p] = Blank]

\* store.savePosition: the cache first, then the database.
savePosition(position, who) ==
    /\ cache' = position
    /\ Write([mem EXCEPT !.position = position], who)

\* The position the transition of p computes.
Advanced(p) ==
    LET r == ctx[p].req IN
    CASE r.action = "DRAW"   -> drawn(ctx[p].cur, r.amount)
      [] r.action = "REPAY"  -> repaid(ctx[p].cur, r.amount)
      [] r.action = "UNLOCK" -> exited(ctx[p].before, ctx[p].cur)

\* The receipt p writes, by the outcome it saw.
ReceiptOf(p) ==
    [req     |-> ctx[p].req,
     result  |-> IF ctx[p].outcome = "ok" THEN "ALLOW" ELSE "DENY",
     pending |-> ctx[p].outcome = "pending"]

Decision(req, result, pending) ==
    [req |-> req, result |-> result, pending |-> pending]

-----------------------------------------------------------------------------
(* The three locked routes.                                                *)

\* authenticateAction reads the position (before) and checks the signature;
\* the request then joins the promise chain.
Arrive(p, r) ==
    /\ MayRun(p)
    /\ pc[p] = "idle"
    /\ cache # NoPosition
    /\ r.nonce <= cache.nonce + NonceAhead
    /\ Spend("request")
    /\ ctx' = [ctx EXCEPT ![p] = [Blank EXCEPT !.req = r, !.before = cache]]
    /\ queue' = Append(queue, p)
    /\ Goto(p, "queued")
    /\ UNCHANGED <<cache, processed, mem, disk, waiting, conn, told>>

\* Mutant: a handler runs without the lock.
EnteringUnlocked(p) ==
    /\ MayRun(p)
    /\ pc[p] = "queued"

\* p's callback starts: it is at the head of the promise chain.
Entering(p) ==
    /\ MayRun(p)
    /\ pc[p] = "queued"
    /\ Head(queue) = p

\* Mutant: the journal is not looked up.
JournaledNever(p) == {}

\* What p's request was journaled with.
Journaled(p) == {x \in processed : x.req = ctx[p].req}

\* Mutant: the snapshot from before the lock is used under it.
CurrentStale(p) == ctx[p].before

\* The position re-read under the lock.
Current(p) == IF cache = NoPosition THEN ctx[p].before ELSE cache

\* A request that was journaled is answered from the journal: repay and
\* unlock with the receipt's result, draw always with ALLOW.
Replay(p) ==
    /\ Entering(p)
    /\ \E x \in Journaled(p) :
         told' = told \cup
           {Decision(x.req,
                     IF x.req.action = "DRAW" THEN "ALLOW" ELSE x.result,
                     x.pending)}
    /\ Release(p)
    /\ UNCHANGED <<cache, processed, mem, disk, waiting, conn, budget>>

\* nonceConflict: 409, nothing changes.
Conflict(p) ==
    /\ Entering(p)
    /\ Journaled(p) = {}
    /\ ctx[p].req.nonce # Current(p).nonce
    /\ Release(p)
    /\ UNCHANGED <<cache, processed, mem, disk, waiting, conn, told, budget>>

\* Mutant: an indebted position may be unlocked.
RefusedExited(p) ==
    ctx[p].req.action = "UNLOCK" /\ Current(p).state = "EXITED"

\* An unlock of an exited or indebted position is refused.
Refused(p) ==
    /\ ctx[p].req.action = "UNLOCK"
    /\ Current(p).state = "EXITED" \/ Current(p).debt # 0

\* A refused unlock gets its receipt at once; a draw goes on to its health
\* proof, the rest to the adapter.
Begin(p) ==
    /\ Entering(p)
    /\ Journaled(p) = {}
    /\ ctx[p].req.nonce = Current(p).nonce
    /\ ctx' = [ctx EXCEPT ![p].cur = Current(p),
                  ![p].outcome = IF Refused(p) THEN "refused" ELSE "none"]
    /\ Goto(p, IF ctx[p].req.action = "DRAW" THEN "reading"
               ELSE IF Refused(p) THEN "note" ELSE "submit")
    /\ UNCHANGED <<cache, processed, mem, disk, queue, waiting, conn, told,
                   budget>>

\* The proof a reading gives for the position the request holds.
proofOf(reading, position) ==
    IF reading = Unusable THEN [usable |-> FALSE, health |-> 0]
    ELSE [usable |-> TRUE, health |-> healthBps(reading, position.debt)]

\* The health proof arrives and the gate decides.  A failed read denies
\* without a proof; a refusal freezes the position the request read.
ReadProof(p) ==
    /\ MayRun(p)
    /\ pc[p] = "reading"
    /\ \E reading \in Readings :
         LET r == ctx[p].req
             c == ctx[p].cur
         IN
         \/ /\ reading # Failed
            /\ evaluateDraw(c, proofOf(reading, c), r.amount, r.nonce)
            /\ Goto(p, "submit")
            /\ UNCHANGED <<cache, mem, disk, waiting, ctx>>
         \/ /\ \/ reading = Failed
               \/ /\ reading # Failed
                  /\ ~evaluateDraw(c, proofOf(reading, c), r.amount, r.nonce)
            /\ savePosition(frozen(c), {p})
            /\ ctx' = [ctx EXCEPT ![p].outcome = "refused"]
            /\ Goto(p, IF reading = Failed THEN "note" ELSE "attach")
    /\ UNCHANGED <<processed, queue, conn, told, budget>>

\* store.setProof: writes the cached position, with the new proof, to the
\* database; throws if a reset removed it.
Attach(p) ==
    /\ MayRun(p)
    /\ pc[p] = "attach"
    /\ \/ /\ cache = NoPosition
          /\ Release(p)
          /\ UNCHANGED <<mem, disk, waiting>>
       \/ /\ cache # NoPosition
          /\ Write([mem EXCEPT !.position = cache], {p})
          /\ Goto(p, "note")
          /\ UNCHANGED <<queue, ctx>>
    /\ UNCHANGED <<cache, processed, conn, told, budget>>

\* The adapter answers.  A failed draw freezes the position the request
\* read; a failed repay or unlock changes nothing.  A position that breaks
\* assertPositionInvariants makes a draw or repay throw here, after the
\* daemon has committed it.
Submit(p) ==
    /\ MayRun(p)
    /\ pc[p] = "submit"
    /\ \E o \in Outcomes :
         /\ \/ /\ o = "ok"
               /\ \/ ctx[p].req.action = "UNLOCK"
                  \/ assertPositionInvariants(Advanced(p))
               /\ Goto(p, IF ctx[p].req.action = "UNLOCK" THEN "exit"
                          ELSE "commit")
               /\ ctx' = [ctx EXCEPT ![p].outcome = o]
               /\ UNCHANGED <<cache, mem, disk, waiting, queue>>
            \/ /\ o = "ok"
               /\ ctx[p].req.action # "UNLOCK"
               /\ ~assertPositionInvariants(Advanced(p))
               /\ Release(p)
               /\ UNCHANGED <<cache, mem, disk, waiting>>
            \/ /\ o # "ok"
               /\ IF ctx[p].req.action = "DRAW"
                  THEN savePosition(frozen(ctx[p].cur), {p})
                  ELSE UNCHANGED <<cache, mem, disk, waiting>>
               /\ Goto(p, "note")
               /\ ctx' = [ctx EXCEPT ![p].outcome = o]
               /\ UNCHANGED queue
    /\ UNCHANGED <<processed, conn, told, budget>>

\* Mutant: a receipt with a transaction hash is not journaled.
NoteUnjournaled(p) ==
    /\ MayRun(p)
    /\ pc[p] = "note"
    /\ Write([mem EXCEPT !.receipts = Append(@, ReceiptOf(p))], {p})
    /\ Goto(p, "reply")
    /\ UNCHANGED <<cache, processed, queue, ctx, conn, told, budget>>

\* addReceipt of a refusal.  Only a receipt with a transaction hash is
\* journaled.
Note(p) ==
    /\ MayRun(p)
    /\ pc[p] = "note"
    /\ Write([mem EXCEPT !.receipts = Append(@, ReceiptOf(p))], {p})
    /\ Goto(p, IF ctx[p].outcome = "pending" THEN "journal" ELSE "reply")
    /\ UNCHANGED <<cache, processed, queue, ctx, conn, told, budget>>

\* The unlock route saves the exited position before it commits it.
Exit(p) ==
    /\ MayRun(p)
    /\ pc[p] = "exit"
    /\ savePosition(Advanced(p), {p})
    /\ Goto(p, "commit")
    /\ UNCHANGED <<processed, queue, ctx, conn, told, budget>>

\* Mutant: the position is written without its receipt.
CommitPositionOnly(p) ==
    /\ MayRun(p)
    /\ pc[p] = "commit"
    /\ Write([mem EXCEPT !.position = Advanced(p)], {p})
    /\ Goto(p, "publish")
    /\ UNCHANGED <<cache, processed, queue, ctx, conn, told, budget>>

\* db.commitTransition: position and receipt in one database write.
Commit(p) ==
    /\ MayRun(p)
    /\ pc[p] = "commit"
    /\ Write([mem EXCEPT !.position = Advanced(p),
                         !.receipts = Append(@, ReceiptOf(p))], {p})
    /\ Goto(p, "publish")
    /\ UNCHANGED <<cache, processed, queue, ctx, conn, told, budget>>

\* Map.set: the journal keeps one receipt per fingerprint.
remembered(journal, receipt) ==
    {x \in journal : x.req # receipt.req} \cup {receipt}

\* Mutant: the journal is kept in memory only.
rememberInMemory(p) ==
    /\ processed' = remembered(processed, ReceiptOf(p))
    /\ UNCHANGED <<mem, disk, waiting>>

\* rememberProcessedDraw: the cache first, then the database.
rememberProcessedDraw(p) ==
    /\ processed' = remembered(processed, ReceiptOf(p))
    /\ Write([mem EXCEPT !.journal = remembered(@, ReceiptOf(p))], {p})

\* The commit is saved: the cache takes the position, and the receipt is
\* journaled.
Publish(p) ==
    /\ MayRun(p)
    /\ pc[p] = "publish"
    /\ cache' = Advanced(p)
    /\ rememberProcessedDraw(p)
    /\ Goto(p, "reply")
    /\ UNCHANGED <<queue, ctx, conn, told, budget>>

Journal(p) ==
    /\ MayRun(p)
    /\ pc[p] = "journal"
    /\ rememberProcessedDraw(p)
    /\ Goto(p, "reply")
    /\ UNCHANGED <<cache, queue, ctx, conn, told, budget>>

Reply(p) ==
    /\ MayRun(p)
    /\ pc[p] = "reply"
    /\ told' = told \cup {Decision(ctx[p].req, ReceiptOf(p).result,
                                   ReceiptOf(p).pending)}
    /\ Release(p)
    /\ UNCHANGED <<cache, processed, mem, disk, waiting, conn, budget>>

Handler(p) ==
    \/ Replay(p) \/ Conflict(p) \/ Begin(p) \/ ReadProof(p) \/ Attach(p)
    \/ Submit(p) \/ Note(p) \/ Exit(p) \/ Commit(p) \/ Publish(p)
    \/ Journal(p) \/ Reply(p)

-----------------------------------------------------------------------------
(* The writers that do not take the lock.                                  *)

\* A synchronous stretch of one of them may start.
Undisturbed == Backend = "sqlite" => \A a \in Actor : pc[a] \in Yielding

\* /api/wallet/connect reads the vault's collateral and the position, then
\* awaits its health proof.
ConnectRead ==
    /\ Undisturbed
    /\ ~conn.busy
    /\ Spend("connect")
    /\ \E c \in Collaterals :
         conn' = [busy |-> TRUE, collateral |-> c,
                  owed |-> IF cache = NoPosition THEN 0 ELSE cache.debt]
    /\ UNCHANGED <<cache, processed, mem, disk, queue, pc, waiting, ctx, told>>

\* An unfunded vault that owed nothing when it was read is refused, and so is
\* a proof that fails; otherwise connectVault restores or opens a position.
ConnectWrite ==
    /\ Undisturbed
    /\ conn.busy
    /\ conn' = NoConnect
    /\ \/ UNCHANGED <<cache, mem, disk, waiting>>
       \/ /\ conn.collateral > 0 \/ conn.owed > 0
          /\ savePosition(IF cache = NoPosition
                          THEN opened(conn.collateral)
                          ELSE reconnected(cache, conn.collateral), {})
    /\ UNCHANGED <<processed, queue, pc, ctx, told, budget>>

\* /api/proofs: setProof on the cached position.
RefreshProof ==
    /\ Undisturbed
    /\ cache # NoPosition
    /\ Spend("proof")
    /\ Write([mem EXCEPT !.position = cache], {})
    /\ UNCHANGED <<cache, processed, queue, pc, ctx, conn, told>>

\* resetStore: empties the cache and the database, waits for the file, then
\* loads the cache from the database again.
ResetWipe ==
    /\ MayRun(Admin)
    /\ pc[Admin] = "idle"
    /\ Spend("reset")
    /\ cache' = NoPosition
    /\ processed' = {}
    /\ Write([position |-> NoPosition, receipts |-> <<>>, journal |-> {}],
             {Admin})
    /\ Goto(Admin, "reload")
    /\ UNCHANGED <<queue, ctx, conn, told>>

ResetReload ==
    /\ MayRun(Admin)
    /\ pc[Admin] = "reload"
    /\ cache' = IF mem.position = NoPosition THEN cache ELSE mem.position
    /\ processed' = {x \in processed : \A y \in mem.journal : y.req # x.req}
                      \cup mem.journal
    /\ Goto(Admin, "idle")
    /\ UNCHANGED <<mem, disk, queue, waiting, ctx, conn, told, budget>>

-----------------------------------------------------------------------------
(* The file, and the process.                                              *)

\* A file save: everything in the backend's memory, and every request that
\* waits for the file goes on (JsonStore.tla says why this is one step).
Flush ==
    /\ Backend = "json"
    /\ waiting # {} \/ mem # disk
    /\ disk' = mem
    /\ waiting' = {}
    /\ UNCHANGED <<cache, processed, mem, queue, pc, ctx, conn, told, budget>>

\* A failed save is logged, and the requests go on all the same.
FlushFails ==
    /\ Backend = "json"
    /\ WriteErrors
    /\ waiting # {}
    /\ waiting' = {}
    /\ UNCHANGED <<cache, processed, mem, disk, queue, pc, ctx, conn, told,
                   budget>>

\* The process dies and is restarted: what it held in memory is gone, the
\* store is loaded from the file.
Crash ==
    /\ Spend("crash")
    /\ mem' = disk
    /\ cache' = disk.position
    /\ processed' = disk.journal
    /\ queue' = <<>>
    /\ pc' = [a \in Actor |-> "idle"]
    /\ waiting' = {}
    /\ ctx' = [p \in Procs |-> Blank]
    /\ conn' = NoConnect
    /\ UNCHANGED <<disk, told>>

Next ==
    \/ \E p \in Procs, r \in Request : Arrive(p, r)
    \/ \E p \in Procs : Handler(p)
    \/ ConnectRead \/ ConnectWrite \/ RefreshProof
    \/ ResetWipe \/ ResetReload
    \/ Flush \/ FlushFails \/ Crash

Spec == Init /\ [][Next]_vars

\* Node keeps running whatever is runnable, reads and submissions have
\* timeouts, and a file save ends; clients need not send anything.
Fairness ==
    /\ \A p \in Procs : WF_vars(Handler(p))
    /\ WF_vars(Flush)
    /\ WF_vars(ResetReload)
    /\ WF_vars(ConnectWrite)

FairSpec == Spec /\ Fairness
=============================================================================
