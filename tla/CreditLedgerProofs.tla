-------------------------- MODULE CreditLedgerProofs --------------------------
(***************************************************************************)
(* What CreditLedger keeps for every set of requests, collaterals, events  *)
(* and bounds: the types of its state, that the lock admits one request at *)
(* a time, and what the journal holds.  What is pending is in it, unless   *)
(* the process dies; what a client was told is on file, unless a save      *)
(* fails or the store is reset.                                            *)
(*                                                                         *)
(* A nonce approves one transition, and the cached nonce is never taken    *)
(* back, whatever is reset and crashes, if nothing writes the position     *)
(* beside the locked routes while a request is between its database write  *)
(* and its cache write.  Otherwise the first needs that there is neither,  *)
(* the second that there is no reset.  As far as the first holds, an       *)
(* unlock is approved only when the receipts before it leave no debt.      *)
(* With clients that sign only nonces they were shown and a store nobody   *)
(* resets, a position is overdrawn only when frozen, and what is owed on   *)
(* file is what the receipts on file say.                                  *)
(***************************************************************************)
EXTENDS CreditLedgerProps, FiniteSetTheorems, SequenceTheorems,
        WellFoundedInduction, TLAPS

\* A request that has arrived carries what it signed and what it saw; one
\* past the lock also carries what it read there.
Carries ==
    \A p \in Procs :
        /\ pc[p] \in Critical \cup {"idle", "queued"}
        /\ pc[p] # "idle" => /\ ctx[p].req \in Request
                             /\ ctx[p].before \in Position
        /\ pc[p] \in Critical => ctx[p].cur \in Position

\* A request that has arrived is in the promise chain.
InLine ==
    \A p \in Procs : pc[p] # "idle" => \E i \in 1..Len(queue) : queue[i] = p

\* The inductive invariant of the lock and the types.
LineInv == TypeOK /\ Carries /\ InLine /\ OneHolder

-----------------------------------------------------------------------------
(* The operators keep the types.                                           *)

LEMMA LimitType ==
    ASSUME NEW c \in Nat
    PROVE  calculateCreditLimit(c) \in Nat
  BY GateAssumption DEF calculateCreditLimit

LEMMA PositionOps ==
    ASSUME NEW position \in Position, NEW other \in Position, NEW n \in Nat
    PROVE  /\ frozen(position) \in Position
           /\ drawn(position, n) \in Position
           /\ repaid(position, n) \in Position
           /\ exited(other, position) \in Position
           /\ reconnected(position, n) \in Position
           /\ repayable(position, n) \in Nat
  <1>1. calculateCreditLimit(n) \in Nat
    BY LimitType
  <1>2. repayable(position, n) \in Nat /\ repayable(position, n) <= position.debt
    BY DEF repayable, Position
  <1>3. repaid(position, n) \in Position
    <2> DEFINE rest == position.debt - repayable(position, n)
    <2>1. rest \in Nat
      BY <1>2 DEF Position
    <2>2. position.nonce + 1 \in Nat
      BY DEF Position
    <2>3. CASE rest = 0
      <3>1. repaid(position, n) =
              [position EXCEPT !.debt = rest, !.state = "REPAID",
                               !.exit = "AVAILABLE", !.nonce = @ + 1]
        BY <2>3 DEF repaid
      <3> QED BY <3>1, <2>1, <2>2 DEF Position, CreditState, ExitStatus
    <2>4. CASE rest # 0
      <3>1. repaid(position, n) =
              [position EXCEPT !.debt = rest, !.state = position.state,
                               !.exit = position.exit, !.nonce = @ + 1]
        BY <2>4 DEF repaid
      <3>2. position.state \in CreditState /\ position.exit \in ExitStatus
        BY DEF Position
      <3> HIDE DEF rest
      <3> QED BY <3>1, <3>2, <2>1, <2>2 DEF Position
    <2> QED BY <2>3, <2>4
  <1>4. reconnected(position, n) \in Position
    <2> DEFINE limit == calculateCreditLimit(n)
    <2>1. position.state \in CreditState
      BY DEF Position
    <2>2. CASE position.debt > limit
      <3>1. reconnected(position, n) =
              [position EXCEPT !.collateral = n, !.limit = limit,
                               !.state = "FROZEN"]
        BY <2>2 DEF reconnected
      <3> QED BY <3>1, <1>1 DEF Position, CreditState
    <2>3. CASE ~(position.debt > limit)
      <3>1. reconnected(position, n) =
              [position EXCEPT !.collateral = n, !.limit = limit,
                               !.state = position.state]
        BY <2>3 DEF reconnected
      <3> QED BY <3>1, <1>1, <2>1 DEF Position
    <2> QED BY <2>2, <2>3
  <1>5. frozen(position) \in Position
    BY DEF frozen, Position, CreditState
  <1>6. drawn(position, n) \in Position
    <2>1. /\ position.debt + n \in Nat /\ position.draws + 1 \in Nat
          /\ position.nonce + 1 \in Nat
      BY DEF Position
    <2> QED BY <2>1 DEF drawn, Position, CreditState, ExitStatus
  <1>7. exited(other, position) \in Position
    <2>1. position.nonce + 1 \in Nat
      BY DEF Position
    <2> QED BY <2>1 DEF exited, Position, CreditState, ExitStatus
  <1> QED BY <1>2, <1>3, <1>4, <1>5, <1>6, <1>7

LEMMA OpenedType ==
    ASSUME NEW c \in Nat
    PROVE  opened(c) \in Position
  BY LimitType DEF opened, Position, CreditState, ExitStatus

LEMMA RequestFields ==
    ASSUME NEW r \in Request
    PROVE  /\ r.action \in {"DRAW", "REPAY", "UNLOCK"}
           /\ r.amount \in Nat /\ r.nonce \in Nat
           /\ r.action = "DRAW" => r.amount > 0
           /\ r.action = "UNLOCK" => r.amount = 0
  BY DEF Request

\* What a request past the lock writes is a position and a receipt.
LEMMA Writes ==
    ASSUME TypeOK, Carries, NEW p \in Procs, pc[p] \in Critical
    PROVE  /\ Advanced(p) \in Position
           /\ ReceiptOf(p) \in Receipt
           /\ frozen(ctx[p].cur) \in Position
           /\ ctx[p].req \in Request
           /\ ctx[p].cur \in Position
  <1>1. /\ ctx[p].req \in Request /\ ctx[p].cur \in Position
        /\ ctx[p].before \in Position
    BY DEF Carries, Critical
  <1>2. /\ ctx[p].req.action \in {"DRAW", "REPAY", "UNLOCK"}
        /\ ctx[p].req.amount \in Nat
    BY <1>1, RequestFields
  <1>3. Advanced(p) \in Position
    BY <1>1, <1>2, PositionOps DEF Advanced
  <1>4. ReceiptOf(p) \in Receipt
    BY <1>1 DEF ReceiptOf, Receipt
  <1> QED BY <1>1, <1>3, <1>4, PositionOps

LEMMA WriteType ==
    ASSUME TypeOK, NEW db \in Database, NEW who \in SUBSET Actor, Write(db, who)
    PROVE  /\ mem' \in Database /\ disk' \in Database
           /\ waiting' \in SUBSET Actor
  BY DEF TypeOK, Write

-----------------------------------------------------------------------------
(* The promise chain.                                                      *)

\* Whoever is past the lock, or entering it, is at the head.
LEMMA AtHead ==
    ASSUME LineInv, NEW p \in Procs, pc[p] \in Critical \/ Entering(p)
    PROVE  queue # <<>> /\ Head(queue) = p /\ queue[1] = p
  <1>1. queue \in Seq(Procs)
    BY DEF LineInv, TypeOK
  <1>2. CASE pc[p] \in Critical
    BY <1>1, <1>2 DEF LineInv, OneHolder
  <1>3. CASE Entering(p)
    <2>1. pc[p] # "idle" /\ Head(queue) = p
      BY <1>3 DEF Entering
    <2>2. \E i \in 1..Len(queue) : queue[i] = p
      BY <2>1 DEF LineInv, InLine
    <2> QED BY <1>1, <2>1, <2>2
  <1> QED BY <1>2, <1>3

\* The head of the chain goes on.
LEMMA Stays ==
    ASSUME LineInv, NEW p \in Procs, NEW label \in Critical,
           queue # <<>>, Head(queue) = p, queue[1] = p,
           Goto(p, label), UNCHANGED queue
    PROVE  /\ pc' \in [Actor -> Critical \cup {"idle", "queued", "reload"}]
           /\ \A q \in Procs : pc'[q] = IF q = p THEN label ELSE pc[q]
           /\ InLine' /\ OneHolder'
  <1>1. /\ queue \in Seq(Procs) /\ p \in Actor /\ Procs \subseteq Actor
        /\ pc \in [Actor -> Critical \cup {"idle", "queued", "reload"}]
    BY DEF LineInv, TypeOK, Actor
  <1>2. /\ pc' \in [Actor -> Critical \cup {"idle", "queued", "reload"}]
        /\ \A q \in Procs : pc'[q] = IF q = p THEN label ELSE pc[q]
    BY <1>1 DEF Goto
  <1>3. InLine'
    <2>1. \E i \in 1..Len(queue) : queue[i] = p
      BY <1>1
    <2> QED BY <1>2, <2>1 DEF LineInv, InLine
  <1>4. OneHolder'
    BY <1>2 DEF LineInv, OneHolder
  <1> QED BY <1>2, <1>3, <1>4

\* The head of the chain leaves it.
LEMMA Leaves ==
    ASSUME LineInv, NEW p \in Procs,
           queue # <<>>, Head(queue) = p, queue[1] = p, Release(p)
    PROVE  /\ queue' \in Seq(Procs)
           /\ pc' \in [Actor -> Critical \cup {"idle", "queued", "reload"}]
           /\ ctx' \in [Procs -> Context]
           /\ Carries' /\ InLine' /\ OneHolder'
  <1>1. /\ queue \in Seq(Procs) /\ p \in Actor /\ Procs \subseteq Actor
        /\ pc \in [Actor -> Critical \cup {"idle", "queued", "reload"}]
        /\ ctx \in [Procs -> Context]
    BY DEF LineInv, TypeOK, Actor
  <1>2. /\ pc' \in [Actor -> Critical \cup {"idle", "queued", "reload"}]
        /\ \A q \in Procs : pc'[q] = IF q = p THEN "idle" ELSE pc[q]
    BY <1>1 DEF Release, Goto
  <1>3. Blank \in Context
    BY DEF Blank, Context
  <1>4. /\ ctx' \in [Procs -> Context]
        /\ \A q \in Procs : q # p => ctx'[q] = ctx[q]
    BY <1>1, <1>3 DEF Release
  <1>5. /\ queue' \in Seq(Procs) /\ Len(queue') = Len(queue) - 1
        /\ \A i \in 1..Len(queue') : queue'[i] = queue[i + 1]
    BY <1>1 DEF Release
  <1>6. Carries'
    BY <1>2, <1>4 DEF LineInv, Carries, Critical
  <1>7. InLine'
    <2> SUFFICES ASSUME NEW q \in Procs, pc'[q] # "idle"
                 PROVE  \E i \in 1..Len(queue') : queue'[i] = q
      BY DEF InLine
    <2>1. q # p /\ pc[q] # "idle"
      BY <1>2
    <2>2. PICK j \in 1..Len(queue) : queue[j] = q
      BY <2>1 DEF LineInv, InLine
    <2>3. j # 1
      BY <2>1, <2>2
    <2>4. j - 1 \in 1..Len(queue') /\ queue'[j - 1] = q
      BY <1>1, <1>5, <2>2, <2>3
    <2> QED BY <2>4
  <1>8. OneHolder'
    BY <1>2 DEF LineInv, OneHolder, Critical
  <1> QED BY <1>2, <1>4, <1>5, <1>6, <1>7, <1>8

-----------------------------------------------------------------------------
(* Each action keeps the invariant.                                        *)

LEMMA LineInit == Init => LineInv
  <1> SUFFICES ASSUME Init PROVE LineInv
    OBVIOUS
  <1>1. cache \in Position
    BY OpenedType, LedgerAssumption DEF Init
  <1>2. mem \in Database /\ disk \in Database
    BY <1>1 DEF Init, Database
  <1>3. ctx \in [Procs -> Context]
    BY DEF Init, Blank, Context
  <1>4. conn \in [busy : BOOLEAN, collateral : Nat, owed : Nat]
    BY DEF Init, NoConnect
  <1>5. pc = [a \in Actor |-> "idle"] /\ Procs \subseteq Actor
    BY DEF Init, Actor
  <1>6. TypeOK
    BY <1>1, <1>2, <1>3, <1>4, LedgerAssumption DEF Init, TypeOK
  <1>7. Carries /\ InLine /\ OneHolder
    BY <1>5 DEF Carries, InLine, OneHolder, Critical
  <1> QED BY <1>6, <1>7 DEF LineInv

LEMMA SpendType ==
    ASSUME TypeOK, NEW kind \in Kinds, Spend(kind)
    PROVE  budget' \in [Kinds -> Nat]
  BY DEF TypeOK, Spend

LEMMA ArriveLine ==
    ASSUME LineInv, NEW p \in Procs, NEW r \in Request, Arrive(p, r)
    PROVE  LineInv'
  <1>1. /\ queue \in Seq(Procs) /\ p \in Actor /\ Procs \subseteq Actor
        /\ pc \in [Actor -> Critical \cup {"idle", "queued", "reload"}]
        /\ ctx \in [Procs -> Context]
        /\ cache \in Position
    BY DEF LineInv, TypeOK, Actor, Arrive
  <1>2. /\ pc' \in [Actor -> Critical \cup {"idle", "queued", "reload"}]
        /\ \A q \in Procs : pc'[q] = IF q = p THEN "queued" ELSE pc[q]
    BY <1>1 DEF Arrive, Goto
  <1>3. [Blank EXCEPT !.req = r, !.before = cache] \in Context
    BY <1>1 DEF Blank, Context
  <1>4. /\ ctx' \in [Procs -> Context]
        /\ ctx'[p].req = r /\ ctx'[p].before = cache
        /\ \A q \in Procs : q # p => ctx'[q] = ctx[q]
    BY <1>1, <1>3 DEF Arrive, Blank
  <1>5. /\ queue' \in Seq(Procs) /\ Len(queue') = Len(queue) + 1
        /\ queue'[Len(queue) + 1] = p
        /\ \A i \in 1..Len(queue) : queue'[i] = queue[i]
    BY <1>1 DEF Arrive
  <1>6. TypeOK'
    <2>1. budget' \in [Kinds -> Nat]
      BY SpendType DEF LineInv, Arrive, Kinds
    <2> QED BY <1>2, <1>4, <1>5, <2>1 DEF LineInv, TypeOK, Arrive
  <1>7. Carries'
    BY <1>1, <1>2, <1>4 DEF LineInv, Carries, Critical
  <1>8. InLine'
    <2> SUFFICES ASSUME NEW q \in Procs, pc'[q] # "idle"
                 PROVE  \E i \in 1..Len(queue') : queue'[i] = q
      BY DEF InLine
    <2>1. CASE q = p
      BY <1>1, <1>5, <2>1
    <2>2. CASE q # p
      <3>1. PICK j \in 1..Len(queue) : queue[j] = q
        BY <1>2, <2>2 DEF LineInv, InLine
      <3> QED BY <1>1, <1>5, <3>1
    <2> QED BY <2>1, <2>2
  <1>9. OneHolder'
    <2> SUFFICES ASSUME NEW q \in Procs, pc'[q] \in Critical
                 PROVE  queue' # <<>> /\ Head(queue') = q
      BY DEF OneHolder
    <2>1. pc[q] \in Critical
      BY <1>2 DEF Critical
    <2>2. queue # <<>> /\ Head(queue) = q
      BY <2>1 DEF LineInv, OneHolder
    <2> QED BY <1>1, <1>5, <2>2
  <1> QED BY <1>6, <1>7, <1>8, <1>9 DEF LineInv

\* A handler that only answers: the lock is released.
LEMMA ReplayLine ==
    ASSUME LineInv, NEW p \in Procs, Replay(p)
    PROVE  LineInv'
  <1>1. queue # <<>> /\ Head(queue) = p /\ queue[1] = p
    BY AtHead DEF Replay
  <1>2. Release(p)
    BY DEF Replay
  <1>3. told' \in SUBSET [req : Request, result : {"ALLOW", "DENY"},
                          pending : BOOLEAN]
    <2>1. PICK x \in processed :
            told' = told \cup {Decision(x.req,
                       IF x.req.action = "DRAW" THEN "ALLOW" ELSE x.result,
                       x.pending)}
      BY DEF Replay, Journaled
    <2>2. x \in Receipt
      BY DEF LineInv, TypeOK
    <2> QED BY <2>1, <2>2 DEF LineInv, TypeOK, Decision, Receipt
  <1>4. UNCHANGED <<cache, processed, mem, disk, waiting, conn, budget>>
    BY DEF Replay
  <1>5. TypeOK'
    BY <1>1, <1>2, <1>3, <1>4, Leaves DEF LineInv, TypeOK
  <1> QED BY <1>1, <1>2, <1>5, Leaves DEF LineInv

LEMMA ConflictLine ==
    ASSUME LineInv, NEW p \in Procs, Conflict(p)
    PROVE  LineInv'
  <1>1. queue # <<>> /\ Head(queue) = p /\ queue[1] = p
    BY AtHead DEF Conflict
  <1>2. /\ Release(p)
        /\ UNCHANGED <<cache, processed, mem, disk, waiting, conn, told, budget>>
    BY DEF Conflict
  <1>3. TypeOK'
    BY <1>1, <1>2, Leaves DEF LineInv, TypeOK
  <1> QED BY <1>1, <1>2, <1>3, Leaves DEF LineInv

LEMMA ReplyLine ==
    ASSUME LineInv, NEW p \in Procs, Reply(p)
    PROVE  LineInv'
  <1>1. /\ pc[p] \in Critical /\ Release(p)
        /\ UNCHANGED <<cache, processed, mem, disk, waiting, conn, budget>>
    BY DEF Reply, Critical
  <1>2. queue # <<>> /\ Head(queue) = p /\ queue[1] = p
    BY <1>1, AtHead
  <1>3. ReceiptOf(p) \in Receipt /\ ctx[p].req \in Request
    BY <1>1, Writes DEF LineInv
  <1>4. told' \in SUBSET [req : Request, result : {"ALLOW", "DENY"},
                          pending : BOOLEAN]
    BY <1>3 DEF Reply, LineInv, TypeOK, Decision, Receipt
  <1>5. TypeOK'
    BY <1>1, <1>2, <1>4, Leaves DEF LineInv, TypeOK
  <1> QED BY <1>1, <1>2, <1>5, Leaves DEF LineInv

\* A handler that goes on under the lock with what it carries.
LEMMA Onward ==
    ASSUME LineInv, NEW p \in Procs, NEW label \in Critical,
           pc[p] \in Critical, Goto(p, label), UNCHANGED queue,
           ctx' = ctx \/ \E o \in {"none", "refused", "ok", "rejected",
                                   "pending", "lost"} :
                             ctx' = [ctx EXCEPT ![p].outcome = o]
    PROVE  /\ pc' \in [Actor -> Critical \cup {"idle", "queued", "reload"}]
           /\ ctx' \in [Procs -> Context]
           /\ queue' \in Seq(Procs)
           /\ Carries' /\ InLine' /\ OneHolder'
  <1>1. queue # <<>> /\ Head(queue) = p /\ queue[1] = p
    BY AtHead
  <1>2. /\ pc' \in [Actor -> Critical \cup {"idle", "queued", "reload"}]
        /\ \A q \in Procs : pc'[q] = IF q = p THEN label ELSE pc[q]
        /\ InLine' /\ OneHolder'
    BY <1>1, Stays
  <1>3. /\ ctx \in [Procs -> Context] /\ queue \in Seq(Procs)
    BY DEF LineInv, TypeOK
  <1>4. /\ ctx' \in [Procs -> Context]
        /\ \A q \in Procs : /\ ctx'[q].req = ctx[q].req
                            /\ ctx'[q].before = ctx[q].before
                            /\ ctx'[q].cur = ctx[q].cur
    <2>1. CASE ctx' = ctx
      BY <1>3, <2>1
    <2>2. ASSUME NEW o \in {"none", "refused", "ok", "rejected", "pending", "lost"},
                 ctx' = [ctx EXCEPT ![p].outcome = o]
          PROVE  /\ ctx' \in [Procs -> Context]
                 /\ \A q \in Procs : /\ ctx'[q].req = ctx[q].req
                                     /\ ctx'[q].before = ctx[q].before
                                     /\ ctx'[q].cur = ctx[q].cur
      BY <1>3, <2>2 DEF Context
    <2> QED BY <2>1, <2>2
  <1>5. Carries'
    BY <1>2, <1>4 DEF LineInv, Carries, Critical
  <1> QED BY <1>2, <1>3, <1>4, <1>5

LEMMA BeginLine ==
    ASSUME LineInv, NEW p \in Procs, Begin(p)
    PROVE  LineInv'
  <1>1. queue # <<>> /\ Head(queue) = p /\ queue[1] = p
    BY AtHead DEF Begin
  <1>2. pc[p] = "queued"
    BY DEF Begin, Entering
  <1>3. PICK label \in Critical : Goto(p, label)
    BY DEF Begin, Critical
  <1>4. PICK o \in {"refused", "none"} :
          ctx' = [ctx EXCEPT ![p].cur = Current(p), ![p].outcome = o]
    BY DEF Begin
  <1>5. UNCHANGED <<cache, processed, mem, disk, queue, waiting, conn, told,
                    budget>>
    BY DEF Begin
  <1>6. /\ pc' \in [Actor -> Critical \cup {"idle", "queued", "reload"}]
        /\ \A q \in Procs : pc'[q] = IF q = p THEN label ELSE pc[q]
        /\ InLine' /\ OneHolder'
    BY <1>1, <1>3, <1>5, Stays
  <1>7. /\ ctx \in [Procs -> Context] /\ cache \in Position \cup {NoPosition}
        /\ ctx[p].req \in Request /\ ctx[p].before \in Position
    BY <1>2 DEF LineInv, TypeOK, Carries
  <1>8. Current(p) \in Position
    BY <1>7 DEF Current
  <1>9. /\ ctx' \in [Procs -> Context]
        /\ ctx'[p].cur = Current(p)
        /\ \A q \in Procs : /\ ctx'[q].req = ctx[q].req
                            /\ ctx'[q].before = ctx[q].before
                            /\ q # p => ctx'[q].cur = ctx[q].cur
    BY <1>4, <1>7, <1>8 DEF Context
  <1>10. TypeOK'
    BY <1>5, <1>6, <1>9 DEF LineInv, TypeOK
  <1>11. Carries'
    BY <1>2, <1>6, <1>7, <1>8, <1>9 DEF LineInv, Carries, Critical
  <1> QED BY <1>6, <1>10, <1>11 DEF LineInv

\* store.savePosition.
LEMMA SaveType ==
    ASSUME TypeOK, NEW position \in Position, NEW who \in SUBSET Actor,
           savePosition(position, who)
    PROVE  /\ cache' \in Position \cup {NoPosition}
           /\ mem' \in Database /\ disk' \in Database
           /\ waiting' \in SUBSET Actor
  <1>1. [mem EXCEPT !.position = position] \in Database
    BY DEF TypeOK, Database
  <1>2. Write([mem EXCEPT !.position = position], who) /\ cache' = position
    BY DEF savePosition
  <1> QED BY <1>1, <1>2, WriteType

LEMMA SubmitLine ==
    ASSUME LineInv, NEW p \in Procs, Submit(p)
    PROVE  LineInv'
  <1>1. pc[p] \in Critical /\ UNCHANGED <<processed, conn, told, budget>>
    BY DEF Submit, Critical
  <1>2. queue # <<>> /\ Head(queue) = p /\ queue[1] = p
    BY <1>1, AtHead
  <1>3. PICK o \in Outcomes :
          \/ /\ o = "ok"
             /\ Goto(p, IF ctx[p].req.action = "UNLOCK" THEN "exit" ELSE "commit")
             /\ ctx' = [ctx EXCEPT ![p].outcome = o]
             /\ UNCHANGED <<cache, mem, disk, waiting, queue>>
          \/ /\ Release(p)
             /\ UNCHANGED <<cache, mem, disk, waiting>>
          \/ /\ IF ctx[p].req.action = "DRAW"
                THEN savePosition(frozen(ctx[p].cur), {p})
                ELSE UNCHANGED <<cache, mem, disk, waiting>>
             /\ Goto(p, "note")
             /\ ctx' = [ctx EXCEPT ![p].outcome = o]
             /\ UNCHANGED queue
    BY DEF Submit
  <1>4. o \in {"none", "refused", "ok", "rejected", "pending", "lost"}
    BY LedgerAssumption
  <1>5. CASE /\ Goto(p, IF ctx[p].req.action = "UNLOCK" THEN "exit" ELSE "commit")
             /\ ctx' = [ctx EXCEPT ![p].outcome = o]
             /\ UNCHANGED <<cache, mem, disk, waiting, queue>>
    <2>1. PICK label \in Critical : Goto(p, label)
      BY <1>5 DEF Critical
    <2>2. /\ pc' \in [Actor -> Critical \cup {"idle", "queued", "reload"}]
          /\ ctx' \in [Procs -> Context]
          /\ queue' \in Seq(Procs)
          /\ Carries' /\ InLine' /\ OneHolder'
      BY <1>1, <1>4, <1>5, <2>1, Onward
    <2> QED BY <1>1, <1>5, <2>2 DEF LineInv, TypeOK
  <1>6. CASE Release(p) /\ UNCHANGED <<cache, mem, disk, waiting>>
    <2>1. TypeOK'
      BY <1>1, <1>2, <1>6, Leaves DEF LineInv, TypeOK
    <2> QED BY <1>2, <1>6, <2>1, Leaves DEF LineInv
  <1>7. CASE /\ IF ctx[p].req.action = "DRAW"
                THEN savePosition(frozen(ctx[p].cur), {p})
                ELSE UNCHANGED <<cache, mem, disk, waiting>>
             /\ Goto(p, "note")
             /\ ctx' = [ctx EXCEPT ![p].outcome = o]
             /\ UNCHANGED queue
    <2>1. "note" \in Critical
      BY DEF Critical
    <2>2. /\ pc' \in [Actor -> Critical \cup {"idle", "queued", "reload"}]
          /\ ctx' \in [Procs -> Context]
          /\ queue' \in Seq(Procs)
          /\ Carries' /\ InLine' /\ OneHolder'
      BY <1>1, <1>4, <1>7, <2>1, Onward
    <2>3. /\ cache' \in Position \cup {NoPosition}
          /\ mem' \in Database /\ disk' \in Database /\ waiting' \in SUBSET Actor
      <3>1. frozen(ctx[p].cur) \in Position /\ {p} \in SUBSET Actor
        BY <1>1, Writes DEF LineInv, Actor
      <3>2. CASE ctx[p].req.action = "DRAW"
        BY <1>7, <3>1, <3>2, SaveType DEF LineInv
      <3>3. CASE ctx[p].req.action # "DRAW"
        BY <1>7, <3>3 DEF LineInv, TypeOK
      <3> QED BY <3>2, <3>3
    <2> QED BY <1>1, <2>2, <2>3 DEF LineInv, TypeOK
  <1> QED BY <1>3, <1>5, <1>6, <1>7

LEMMA ReadProofLine ==
    ASSUME LineInv, NEW p \in Procs, ReadProof(p)
    PROVE  LineInv'
  <1>1. pc[p] \in Critical /\ UNCHANGED <<processed, queue, conn, told, budget>>
    BY DEF ReadProof, Critical
  <1>2. \/ /\ Goto(p, "submit")
           /\ UNCHANGED <<cache, mem, disk, waiting, ctx>>
        \/ /\ savePosition(frozen(ctx[p].cur), {p})
           /\ ctx' = [ctx EXCEPT ![p].outcome = "refused"]
           /\ \E label \in {"note", "attach"} : Goto(p, label)
    BY DEF ReadProof
  <1>3. {"submit", "note", "attach"} \subseteq Critical
    BY DEF Critical
  <1>4. CASE Goto(p, "submit") /\ UNCHANGED <<cache, mem, disk, waiting, ctx>>
    <2>1. /\ pc' \in [Actor -> Critical \cup {"idle", "queued", "reload"}]
          /\ ctx' \in [Procs -> Context]
          /\ queue' \in Seq(Procs)
          /\ Carries' /\ InLine' /\ OneHolder'
      BY <1>1, <1>3, <1>4, Onward
    <2> QED BY <1>1, <1>4, <2>1 DEF LineInv, TypeOK
  <1>5. CASE /\ savePosition(frozen(ctx[p].cur), {p})
             /\ ctx' = [ctx EXCEPT ![p].outcome = "refused"]
             /\ \E label \in {"note", "attach"} : Goto(p, label)
    <2>1. PICK label \in Critical : Goto(p, label)
      BY <1>3, <1>5
    <2>2. /\ pc' \in [Actor -> Critical \cup {"idle", "queued", "reload"}]
          /\ ctx' \in [Procs -> Context]
          /\ queue' \in Seq(Procs)
          /\ Carries' /\ InLine' /\ OneHolder'
      BY <1>1, <1>5, <2>1, Onward
    <2>3. frozen(ctx[p].cur) \in Position /\ {p} \in SUBSET Actor
      BY <1>1, Writes DEF LineInv, Actor
    <2>4. /\ cache' \in Position \cup {NoPosition}
          /\ mem' \in Database /\ disk' \in Database /\ waiting' \in SUBSET Actor
      BY <1>5, <2>3, SaveType DEF LineInv
    <2> QED BY <1>1, <2>2, <2>4 DEF LineInv, TypeOK
  <1> QED BY <1>2, <1>4, <1>5

LEMMA AttachLine ==
    ASSUME LineInv, NEW p \in Procs, Attach(p)
    PROVE  LineInv'
  <1>1. pc[p] \in Critical /\ UNCHANGED <<cache, processed, conn, told, budget>>
    BY DEF Attach, Critical
  <1>2. queue # <<>> /\ Head(queue) = p /\ queue[1] = p
    BY <1>1, AtHead
  <1>3. CASE Release(p) /\ UNCHANGED <<mem, disk, waiting>>
    <2>1. TypeOK'
      BY <1>1, <1>2, <1>3, Leaves DEF LineInv, TypeOK
    <2> QED BY <1>2, <1>3, <2>1, Leaves DEF LineInv
  <1>4. CASE /\ cache # NoPosition
             /\ Write([mem EXCEPT !.position = cache], {p})
             /\ Goto(p, "note")
             /\ UNCHANGED <<queue, ctx>>
    <2>1. "note" \in Critical
      BY DEF Critical
    <2>2. /\ pc' \in [Actor -> Critical \cup {"idle", "queued", "reload"}]
          /\ ctx' \in [Procs -> Context]
          /\ queue' \in Seq(Procs)
          /\ Carries' /\ InLine' /\ OneHolder'
      BY <1>1, <1>4, <2>1, Onward
    <2>3. [mem EXCEPT !.position = cache] \in Database /\ {p} \in SUBSET Actor
      BY DEF LineInv, TypeOK, Database, Actor
    <2>4. mem' \in Database /\ disk' \in Database /\ waiting' \in SUBSET Actor
      BY <1>4, <2>3, WriteType DEF LineInv
    <2> QED BY <1>1, <2>2, <2>4 DEF LineInv, TypeOK
  <1> QED BY <1>3, <1>4 DEF Attach

\* A handler that writes a database and goes on.
LEMMA WritesOn ==
    ASSUME LineInv, NEW p \in Procs, NEW label \in Critical, NEW db \in Database,
           pc[p] \in Critical, Write(db, {p}), Goto(p, label),
           cache' \in Position \cup {NoPosition},
           processed' \in SUBSET Receipt,
           UNCHANGED <<queue, ctx, conn, told, budget>>
    PROVE  LineInv'
  <1>1. /\ pc' \in [Actor -> Critical \cup {"idle", "queued", "reload"}]
        /\ ctx' \in [Procs -> Context]
        /\ queue' \in Seq(Procs)
        /\ Carries' /\ InLine' /\ OneHolder'
    BY Onward
  <1>2. {p} \in SUBSET Actor
    BY DEF Actor
  <1>3. mem' \in Database /\ disk' \in Database /\ waiting' \in SUBSET Actor
    BY <1>2, WriteType DEF LineInv
  <1> QED BY <1>1, <1>3 DEF LineInv, TypeOK

LEMMA NoteLine ==
    ASSUME LineInv, NEW p \in Procs, Note(p)
    PROVE  LineInv'
  <1>1. pc[p] \in Critical
    BY DEF Note, Critical
  <1>2. ReceiptOf(p) \in Receipt
    BY <1>1, Writes DEF LineInv
  <1>3. [mem EXCEPT !.receipts = Append(@, ReceiptOf(p))] \in Database
    <2>1. mem \in Database /\ Append(mem.receipts, ReceiptOf(p)) \in Seq(Receipt)
      BY <1>2 DEF LineInv, TypeOK, Database
    <2> QED BY <2>1 DEF Database
  <1>4. PICK label \in Critical : Goto(p, label)
    BY DEF Note, Critical
  <1> QED BY <1>1, <1>3, <1>4, WritesOn DEF Note, LineInv, TypeOK

LEMMA ExitLine ==
    ASSUME LineInv, NEW p \in Procs, Exit(p)
    PROVE  LineInv'
  <1>1. pc[p] \in Critical /\ "commit" \in Critical /\ Goto(p, "commit")
    BY DEF Exit, Critical
  <1>2. Advanced(p) \in Position
    BY <1>1, Writes DEF LineInv
  <1>3. [mem EXCEPT !.position = Advanced(p)] \in Database
    BY <1>2 DEF LineInv, TypeOK, Database
  <1> QED BY <1>1, <1>2, <1>3, WritesOn DEF Exit, savePosition, LineInv, TypeOK

LEMMA CommitLine ==
    ASSUME LineInv, NEW p \in Procs, Commit(p)
    PROVE  LineInv'
  <1>1. pc[p] \in Critical /\ "publish" \in Critical /\ Goto(p, "publish")
    BY DEF Commit, Critical
  <1>2. Advanced(p) \in Position /\ ReceiptOf(p) \in Receipt
    BY <1>1, Writes DEF LineInv
  <1>3. [mem EXCEPT !.position = Advanced(p),
                    !.receipts = Append(@, ReceiptOf(p))] \in Database
    <2>1. mem \in Database /\ Append(mem.receipts, ReceiptOf(p)) \in Seq(Receipt)
      BY <1>2 DEF LineInv, TypeOK, Database
    <2> QED BY <1>2, <2>1 DEF Database
  <1> QED BY <1>1, <1>3, WritesOn DEF Commit, LineInv, TypeOK

LEMMA RememberLine ==
    ASSUME LineInv, NEW p \in Procs, pc[p] \in Critical,
           rememberProcessedDraw(p), Goto(p, "reply"),
           cache' \in Position \cup {NoPosition},
           UNCHANGED <<queue, ctx, conn, told, budget>>
    PROVE  LineInv'
  <1>1. "reply" \in Critical
    BY DEF Critical
  <1>2. ReceiptOf(p) \in Receipt
    BY Writes DEF LineInv
  <1>3. [mem EXCEPT !.journal = remembered(@, ReceiptOf(p))] \in Database
    BY <1>2 DEF LineInv, TypeOK, Database, remembered
  <1>4. processed' \in SUBSET Receipt
    BY <1>2 DEF rememberProcessedDraw, remembered, LineInv, TypeOK
  <1> QED BY <1>1, <1>3, <1>4, WritesOn DEF rememberProcessedDraw

LEMMA PublishLine ==
    ASSUME LineInv, NEW p \in Procs, Publish(p)
    PROVE  LineInv'
  <1>1. pc[p] \in Critical
    BY DEF Publish, Critical
  <1>2. Advanced(p) \in Position
    BY <1>1, Writes DEF LineInv
  <1> QED BY <1>1, <1>2, RememberLine DEF Publish

LEMMA JournalLine ==
    ASSUME LineInv, NEW p \in Procs, Journal(p)
    PROVE  LineInv'
  BY RememberLine DEF Journal, Critical, LineInv, TypeOK

LEMMA HandlerLine ==
    ASSUME LineInv, NEW p \in Procs, Handler(p)
    PROVE  LineInv'
  BY ReplayLine, ConflictLine, BeginLine, ReadProofLine, AttachLine,
     SubmitLine, NoteLine, ExitLine, CommitLine, PublishLine, JournalLine,
     ReplyLine DEF Handler

LEMMA ConnectWriteLine ==
    ASSUME LineInv, ConnectWrite
    PROVE  LineInv'
  <1>1. UNCHANGED <<processed, queue, pc, ctx, told, budget>>
    BY DEF ConnectWrite
  <1>2. conn' \in [busy : BOOLEAN, collateral : Nat, owed : Nat]
    BY DEF ConnectWrite, NoConnect
  <1>3. /\ cache' \in Position \cup {NoPosition}
        /\ mem' \in Database /\ disk' \in Database /\ waiting' \in SUBSET Actor
    <2>1. CASE UNCHANGED <<cache, mem, disk, waiting>>
      BY <2>1 DEF LineInv, TypeOK
    <2>2. CASE savePosition(IF cache = NoPosition
                            THEN opened(conn.collateral)
                            ELSE reconnected(cache, conn.collateral), {})
      <3>1. conn.collateral \in Nat
        BY DEF LineInv, TypeOK
      <3>2. opened(conn.collateral) \in Position
        BY <3>1, OpenedType
      <3>3. cache # NoPosition => reconnected(cache, conn.collateral) \in Position
        BY <3>1, PositionOps DEF LineInv, TypeOK
      <3>4. (IF cache = NoPosition THEN opened(conn.collateral)
             ELSE reconnected(cache, conn.collateral)) \in Position
        BY <3>2, <3>3
      <3> QED BY <2>2, <3>4, SaveType DEF LineInv
    <2> QED BY <2>1, <2>2 DEF ConnectWrite
  <1>4. TypeOK'
    BY <1>1, <1>2, <1>3 DEF LineInv, TypeOK
  <1> QED BY <1>1, <1>4 DEF LineInv, Carries, InLine, OneHolder

LEMMA ConnectReadLine ==
    ASSUME LineInv, ConnectRead
    PROVE  LineInv'
  <1>1. UNCHANGED <<cache, processed, mem, disk, queue, pc, waiting, ctx, told>>
    BY DEF ConnectRead
  <1>2. conn' \in [busy : BOOLEAN, collateral : Nat, owed : Nat]
    BY LedgerAssumption DEF ConnectRead, LineInv, TypeOK, Position
  <1>3. budget' \in [Kinds -> Nat]
    BY SpendType DEF LineInv, ConnectRead, Kinds
  <1>4. TypeOK'
    BY <1>1, <1>2, <1>3 DEF LineInv, TypeOK
  <1> QED BY <1>1, <1>4 DEF LineInv, Carries, InLine, OneHolder

LEMMA RefreshProofLine ==
    ASSUME LineInv, RefreshProof
    PROVE  LineInv'
  <1>1. /\ UNCHANGED <<cache, processed, queue, pc, ctx, conn, told>>
        /\ Write([mem EXCEPT !.position = cache], {})
    BY DEF RefreshProof
  <1>2. [mem EXCEPT !.position = cache] \in Database
    BY DEF LineInv, TypeOK, Database
  <1>3. mem' \in Database /\ disk' \in Database /\ waiting' \in SUBSET Actor
    BY <1>1, <1>2, WriteType DEF LineInv
  <1>4. budget' \in [Kinds -> Nat]
    BY SpendType DEF LineInv, RefreshProof, Kinds
  <1>5. TypeOK'
    BY <1>1, <1>3, <1>4 DEF LineInv, TypeOK
  <1> QED BY <1>1, <1>5 DEF LineInv, Carries, InLine, OneHolder

\* The reset moves its own label only, so the chain is not disturbed.
LEMMA AdminStep ==
    ASSUME LineInv, NEW label \in {"idle", "reload"}, Goto(Admin, label),
           UNCHANGED <<queue, ctx>>
    PROVE  /\ pc' \in [Actor -> Critical \cup {"idle", "queued", "reload"}]
           /\ Carries' /\ InLine' /\ OneHolder'
  <1>1. /\ pc' \in [Actor -> Critical \cup {"idle", "queued", "reload"}]
        /\ \A q \in Procs : pc'[q] = pc[q]
    BY LedgerAssumption DEF Goto, LineInv, TypeOK, Actor
  <1> QED BY <1>1 DEF LineInv, Carries, InLine, OneHolder

LEMMA ResetWipeLine ==
    ASSUME LineInv, ResetWipe
    PROVE  LineInv'
  <1>1. /\ Goto(Admin, "reload") /\ UNCHANGED <<queue, ctx, conn, told>>
        /\ cache' = NoPosition /\ processed' = {}
    BY DEF ResetWipe
  <1>2. [position |-> NoPosition, receipts |-> <<>>, journal |-> {}] \in Database
    BY DEF Database
  <1>3. mem' \in Database /\ disk' \in Database /\ waiting' \in SUBSET Actor
    <2>1. {Admin} \in SUBSET Actor
      BY DEF Actor
    <2> QED BY <1>2, <2>1, WriteType DEF LineInv, ResetWipe
  <1>4. budget' \in [Kinds -> Nat]
    BY SpendType DEF LineInv, ResetWipe, Kinds
  <1>5. TypeOK'
    BY <1>1, <1>3, <1>4, AdminStep DEF LineInv, TypeOK
  <1> QED BY <1>1, <1>5, AdminStep DEF LineInv

LEMMA ResetReloadLine ==
    ASSUME LineInv, ResetReload
    PROVE  LineInv'
  <1>1. /\ Goto(Admin, "idle")
        /\ UNCHANGED <<mem, disk, queue, waiting, ctx, conn, told, budget>>
    BY DEF ResetReload
  <1>2. cache' \in Position \cup {NoPosition} /\ processed' \in SUBSET Receipt
    BY DEF ResetReload, LineInv, TypeOK, Database
  <1>3. TypeOK'
    BY <1>1, <1>2, AdminStep DEF LineInv, TypeOK
  <1> QED BY <1>1, <1>3, AdminStep DEF LineInv

LEMMA FileLine ==
    ASSUME LineInv, Flush \/ FlushFails
    PROVE  LineInv'
  <1>1. /\ UNCHANGED <<cache, processed, mem, queue, pc, ctx, conn, told, budget>>
        /\ waiting' = {} /\ disk' \in {mem, disk}
    BY DEF Flush, FlushFails
  <1>2. TypeOK'
    BY <1>1 DEF LineInv, TypeOK
  <1> QED BY <1>1, <1>2 DEF LineInv, Carries, InLine, OneHolder

LEMMA CrashLine ==
    ASSUME LineInv, Crash
    PROVE  LineInv'
  <1>1. /\ mem' = disk /\ cache' = disk.position /\ processed' = disk.journal
        /\ queue' = <<>> /\ waiting' = {} /\ UNCHANGED <<disk, told>>
        /\ pc' = [a \in Actor |-> "idle"]
        /\ ctx' = [p \in Procs |-> Blank] /\ conn' = NoConnect
    BY DEF Crash
  <1>2. /\ disk \in Database /\ cache' \in Position \cup {NoPosition}
        /\ processed' \in SUBSET Receipt
    BY <1>1 DEF LineInv, TypeOK, Database
  <1>3. budget' \in [Kinds -> Nat]
    BY SpendType DEF LineInv, Crash, Kinds
  <1>4. ctx' \in [Procs -> Context] /\ conn' \in [busy : BOOLEAN, collateral : Nat, owed : Nat]
    BY <1>1 DEF Blank, Context, NoConnect
  <1>5. pc' \in [Actor -> Critical \cup {"idle", "queued", "reload"}]
        /\ \A q \in Procs : pc'[q] = "idle"
    BY <1>1 DEF Actor
  <1>6. TypeOK'
    BY <1>1, <1>2, <1>3, <1>4, <1>5 DEF LineInv, TypeOK
  <1>7. Carries' /\ InLine' /\ OneHolder'
    BY <1>5 DEF Carries, InLine, OneHolder, Critical
  <1> QED BY <1>6, <1>7 DEF LineInv

LEMMA LineStep == LineInv /\ [Next]_vars => LineInv'
  <1> SUFFICES ASSUME LineInv, [Next]_vars PROVE LineInv'
    OBVIOUS
  <1>1. ASSUME NEW p \in Procs, NEW r \in Request, Arrive(p, r)
        PROVE  LineInv'
    BY <1>1, ArriveLine
  <1>2. ASSUME NEW p \in Procs, Handler(p)
        PROVE  LineInv'
    BY <1>2, HandlerLine
  <1>3. CASE ConnectRead \/ ConnectWrite \/ RefreshProof
    BY <1>3, ConnectReadLine, ConnectWriteLine, RefreshProofLine
  <1>4. CASE ResetWipe \/ ResetReload
    BY <1>4, ResetWipeLine, ResetReloadLine
  <1>5. CASE Flush \/ FlushFails \/ Crash
    BY <1>5, FileLine, CrashLine
  <1>6. CASE UNCHANGED vars
    BY <1>6 DEF vars, LineInv, TypeOK, Carries, InLine, OneHolder
  <1> QED BY <1>1, <1>2, <1>3, <1>4, <1>5, <1>6 DEF Next

-----------------------------------------------------------------------------
\* The inductive invariant holds in every behaviour.
THEOREM LineInvariant == Spec => []LineInv
  BY LineInit, LineStep, PTL DEF Spec

\* The state keeps its types, whatever crashes, throws or is reset: the store
\* holds a position or none, never half of one (store.ts:33-34).
THEOREM TypesHold == Spec => []TypeOK
  <1>1. LineInv => TypeOK
    BY DEF LineInv
  <1> QED BY LineInvariant, <1>1, PTL

\* No two requests are ever past the lock of one position (store.ts:37-46),
\* for any number of requests, connects, resets, failed saves and crashes.
THEOREM OneHolderHolds == Spec => []OneHolder
  <1>1. LineInv => OneHolder
    BY DEF LineInv
  <1> QED BY LineInvariant, <1>1, PTL

-----------------------------------------------------------------------------
(* What a step of one request leaves alone.                                *)

\* While one request is past the lock, or entering it, no other is past it.
LEMMA Alone ==
    ASSUME LineInv, NEW p \in Procs, pc[p] \in Critical \/ Entering(p),
           NEW q \in Procs, q # p
    PROVE  pc[q] \notin Critical
  <1>1. Head(queue) = p
    BY AtHead
  <1> QED BY <1>1 DEF LineInv, OneHolder

LEMMA GotoPc ==
    ASSUME LineInv, NEW p \in Procs, NEW label, Goto(p, label)
    PROVE  /\ \A q \in Procs : pc'[q] = IF q = p THEN label ELSE pc[q]
           /\ pc'[Admin] = pc[Admin]
  BY LedgerAssumption DEF Goto, LineInv, TypeOK, Actor

\* The requests receipts were approved for, and those a journal knows.
Approved(receipts) == {receipts[i].req : i \in Allowed(receipts)}

Named(journal) == {x.req : x \in journal}

Functional(journal) == \A x, y \in journal : x.req = y.req => x = y

\* Neither the receipts nor the journal change, in memory or on file.
SameBooks ==
    /\ mem'.receipts = mem.receipts /\ mem'.journal = mem.journal
    /\ disk'.receipts = disk.receipts /\ disk'.journal = disk.journal

\* With sqlite the file is the database, and nobody waits for it.
Synchronous == Backend = "sqlite" => disk = mem /\ waiting = {}

LEMMA SynchronousWrite ==
    ASSUME Synchronous, NEW db, NEW who, Write(db, who)
    PROVE  /\ Synchronous'
           /\ mem' = db
           /\ waiting \subseteq waiting'
           /\ \/ Backend = "sqlite" /\ disk' = db
              \/ Backend # "sqlite" /\ disk' = disk /\ who \subseteq waiting'
  BY DEF Synchronous, Write

\* A write that leaves the books alone.
LEMMA BooksWrite ==
    ASSUME Synchronous, NEW db, NEW who, Write(db, who),
           db.receipts = mem.receipts, db.journal = mem.journal
    PROVE  SameBooks /\ Synchronous' /\ waiting \subseteq waiting'
  <1>1. Synchronous' /\ mem' = db /\ waiting \subseteq waiting'
    BY SynchronousWrite
  <1>2. CASE Backend = "sqlite" /\ disk' = db
    BY <1>1, <1>2 DEF SameBooks, Synchronous
  <1>3. CASE disk' = disk
    BY <1>1, <1>3 DEF SameBooks
  <1> QED BY <1>1, <1>2, <1>3, SynchronousWrite

LEMMA BooksSave ==
    ASSUME TypeOK, Synchronous, NEW position \in Position, NEW who,
           savePosition(position, who)
    PROVE  SameBooks /\ Synchronous' /\ waiting \subseteq waiting'
  <1> DEFINE db == [mem EXCEPT !.position = position]
  <1>1. db.receipts = mem.receipts /\ db.journal = mem.journal
    BY DEF TypeOK, Database
  <1>2. Write(db, who)
    BY DEF savePosition
  <1> HIDE DEF db
  <1> QED BY <1>1, <1>2, BooksWrite

\* The handlers that move no receipt.
Bookkeeping == {"note", "commit", "publish", "journal"}

LEMMA HandlerEntry ==
    ASSUME NEW p \in Procs, Handler(p)
    PROVE  /\ pc[p] \in Critical \/ Entering(p)
           /\ p \notin waiting
           /\ UNCHANGED <<conn, budget>>
           /\ \E label \in Critical \cup {"idle"} : Goto(p, label)
  <1>1. CASE Replay(p) \/ Conflict(p)
    BY <1>1 DEF Replay, Conflict, Entering, MayRun, Release
  <1>2. CASE Begin(p)
    BY <1>2 DEF Begin, Entering, MayRun, Critical
  <1>3. CASE ReadProof(p)
    BY <1>3 DEF ReadProof, MayRun, Critical
  <1>4. CASE Submit(p)
    BY <1>4 DEF Submit, MayRun, Critical, Release
  <1>5. CASE Attach(p) \/ Note(p) \/ Exit(p) \/ Reply(p)
    BY <1>5 DEF Attach, Note, Exit, Reply, MayRun, Critical, Release
  <1>6. CASE Commit(p) \/ Publish(p) \/ Journal(p)
    BY <1>6 DEF Commit, Publish, Journal, MayRun, Critical
  <1> QED BY <1>1, <1>2, <1>3, <1>4, <1>5, <1>6 DEF Handler

LEMMA QuietHandler ==
    ASSUME LineInv, Synchronous, NEW p \in Procs, Handler(p),
           pc[p] \notin Bookkeeping
    PROVE  /\ SameBooks /\ Synchronous' /\ waiting \subseteq waiting'
           /\ UNCHANGED processed
  <1>1. CASE UNCHANGED <<processed, mem, disk, waiting>>
    BY <1>1 DEF SameBooks, Synchronous
  <1>2. CASE /\ \E position \in Position : savePosition(position, {p})
             /\ UNCHANGED processed
    BY <1>2, BooksSave DEF LineInv
  <1>3. CASE Replay(p) \/ Conflict(p) \/ Begin(p) \/ Reply(p)
    BY <1>1, <1>3 DEF Replay, Conflict, Begin, Reply
  <1>4. CASE ReadProof(p)
    <2>1. pc[p] \in Critical
      BY <1>4 DEF ReadProof, Critical
    <2>2. frozen(ctx[p].cur) \in Position
      BY <2>1, Writes DEF LineInv
    <2> QED BY <1>1, <1>2, <1>4, <2>2 DEF ReadProof
  <1>5. CASE Submit(p)
    <2>1. pc[p] \in Critical
      BY <1>5 DEF Submit, Critical
    <2>2. frozen(ctx[p].cur) \in Position
      BY <2>1, Writes DEF LineInv
    <2> QED BY <1>1, <1>2, <1>5, <2>2 DEF Submit
  <1>6. CASE Exit(p)
    <2>1. pc[p] \in Critical
      BY <1>6 DEF Exit, Critical
    <2>2. Advanced(p) \in Position
      BY <2>1, Writes DEF LineInv
    <2> QED BY <1>2, <1>6, <2>2 DEF Exit
  <1>7. CASE Attach(p)
    <2>1. UNCHANGED processed
      BY <1>7 DEF Attach
    <2>2. CASE UNCHANGED <<mem, disk, waiting>>
      BY <1>1, <2>1, <2>2
    <2>3. CASE Write([mem EXCEPT !.position = cache], {p})
      <3> DEFINE db == [mem EXCEPT !.position = cache]
      <3>1. db.receipts = mem.receipts /\ db.journal = mem.journal
        BY DEF LineInv, TypeOK, Database
      <3>2. Write(db, {p})
        BY <2>3
      <3> HIDE DEF db
      <3> QED BY <2>1, <3>1, <3>2, BooksWrite
    <2> QED BY <1>7, <2>2, <2>3 DEF Attach
  <1>8. CASE Note(p) \/ Commit(p) \/ Publish(p) \/ Journal(p)
    BY <1>8 DEF Note, Commit, Publish, Journal, Bookkeeping
  <1> QED BY <1>3, <1>4, <1>5, <1>6, <1>7, <1>8 DEF Handler

-----------------------------------------------------------------------------
(* The journal: one receipt per request, in the cache as in the database.  *)

Open == Critical \ {"reply"}

\* No reset is running or to come.
NotReset == budget["reset"] = 0 /\ pc[Admin] = "idle"

\* A store that may not be reset never is.
Unreset == Budget["reset"] = 0 => NotReset

OneJournal ==
    /\ processed = mem.journal
    /\ Functional(processed) /\ Functional(disk.journal)

\* A request under the lock is not journaled yet, unless it has just done it
\* and no reset has undone it; what it goes on to write agrees with the answer
\* it got.
FreshAt(p) ==
    /\ pc[p] \in Open => ctx[p].req \notin Named(processed)
    /\ pc[p] \in {"exit", "commit", "publish"} => ctx[p].outcome = "ok"
    /\ pc[p] \in {"attach", "note"} => ctx[p].outcome # "ok"
    /\ pc[p] = "journal" => ctx[p].outcome = "pending"
    /\ /\ Budget["reset"] = 0
       /\ pc[p] = "reply" /\ ctx[p].outcome \in {"ok", "pending"}
       => ReceiptOf(p) \in processed
    /\ pc[p] = "reply" /\ ctx[p].outcome \notin {"ok", "pending"} =>
         ctx[p].req \notin Named(processed)

Fresh == \A p \in Procs : FreshAt(p)

JournalInv == Unreset /\ Synchronous /\ OneJournal /\ Fresh

LEMMA JournalInit == Init => JournalInv
  <1> SUFFICES ASSUME Init PROVE JournalInv
    OBVIOUS
  <1>1. /\ processed = {} /\ mem.journal = {} /\ disk = mem /\ waiting = {}
        /\ budget = Budget /\ \A a \in Actor : pc[a] = "idle"
    BY DEF Init
  <1> QED BY <1>1 DEF JournalInv, Unreset, NotReset, Synchronous, OneJournal,
                      Functional, Fresh, FreshAt, Open, Critical, Actor

\* When the step of one request under the lock has to be looked at only.
LEMMA FreshStep ==
    ASSUME LineInv, NEW p \in Procs, pc[p] \in Critical \/ Entering(p),
           NEW label \in Critical \cup {"idle"}, Goto(p, label), FreshAt(p)'
    PROVE  Fresh'
  <1>1. \A q \in Procs : pc'[q] = IF q = p THEN label ELSE pc[q]
    BY GotoPc
  <1>2. \A q \in Procs : q # p => pc[q] \notin Critical
    BY Alone
  <1>3. \A q \in Procs : q # p => FreshAt(q)'
    BY <1>1, <1>2 DEF FreshAt, Open, Critical
  <1> QED BY <1>3 DEF Fresh

LEMMA NotResetStep ==
    ASSUME LineInv, NEW p \in Procs, NEW label, Goto(p, label),
           UNCHANGED budget
    PROVE  NotReset' = NotReset /\ (Unreset => Unreset')
  BY GotoPc DEF NotReset, Unreset

\* A request that leaves the journal as it is.
LEMMA QuietJournal ==
    ASSUME LineInv, JournalInv, NEW p \in Procs, Handler(p),
           SameBooks, Synchronous', UNCHANGED processed, FreshAt(p)'
    PROVE  JournalInv'
  <1>1. PICK label \in Critical \cup {"idle"} : Goto(p, label)
    BY HandlerEntry
  <1>2. (pc[p] \in Critical \/ Entering(p)) /\ UNCHANGED budget
    BY HandlerEntry
  <1>3. Fresh' /\ Unreset'
    BY <1>1, <1>2, FreshStep, NotResetStep DEF JournalInv
  <1>4. OneJournal'
    BY DEF SameBooks, OneJournal, JournalInv, Functional
  <1> QED BY <1>3, <1>4 DEF JournalInv

\* What a request knows of its own step.
LEMMA OwnContext ==
    ASSUME LineInv, NEW p \in Procs, NEW o,
           ctx' = [ctx EXCEPT ![p].outcome = o]
    PROVE  /\ ctx'[p].outcome = o /\ ctx'[p].req = ctx[p].req
           /\ ctx'[p].before = ctx[p].before /\ ctx'[p].cur = ctx[p].cur
  BY DEF LineInv, TypeOK, Context

LEMMA BeginFresh ==
    ASSUME LineInv, JournalInv, NEW p \in Procs, Begin(p)
    PROVE  FreshAt(p)'
  <1> DEFINE o     == IF Refused(p) THEN "refused" ELSE "none"
             label == IF ctx[p].req.action = "DRAW" THEN "reading"
                      ELSE IF Refused(p) THEN "note" ELSE "submit"
  <1>1. /\ label \in {"reading", "note", "submit"}
        /\ o \in {"refused", "none"} /\ Goto(p, label)
        /\ ctx' = [ctx EXCEPT ![p].cur = Current(p), ![p].outcome = o]
        /\ Journaled(p) = {} /\ UNCHANGED processed
    BY DEF Begin
  <1> HIDE DEF o, label
  <1>2. ctx'[p].outcome = o /\ ctx'[p].req = ctx[p].req
    BY <1>1 DEF LineInv, TypeOK, Context
  <1>3. ctx[p].req \notin Named(processed)
    BY <1>1 DEF Journaled, Named
  <1>4. pc'[p] = label
    BY <1>1, GotoPc
  <1> QED BY <1>1, <1>2, <1>3, <1>4 DEF FreshAt

LEMMA ReadProofFresh ==
    ASSUME LineInv, JournalInv, NEW p \in Procs, ReadProof(p)
    PROVE  FreshAt(p)'
  <1>1. /\ pc[p] \in Open /\ UNCHANGED processed
        /\ \/ Goto(p, "submit") /\ UNCHANGED ctx
           \/ /\ ctx' = [ctx EXCEPT ![p].outcome = "refused"]
              /\ \E label \in {"note", "attach"} : Goto(p, label)
    BY DEF ReadProof, Open, Critical
  <1>2. ctx[p].req \notin Named(processed)
    BY <1>1 DEF JournalInv, Fresh, FreshAt
  <1>3. CASE Goto(p, "submit") /\ UNCHANGED ctx
    <2>1. pc'[p] = "submit"
      BY <1>3, GotoPc
    <2> QED BY <1>1, <1>2, <1>3, <2>1 DEF FreshAt
  <1>4. CASE /\ ctx' = [ctx EXCEPT ![p].outcome = "refused"]
             /\ \E label \in {"note", "attach"} : Goto(p, label)
    <2>1. pc'[p] \in {"note", "attach"}
      BY <1>4, GotoPc
    <2>2. ctx'[p].outcome = "refused" /\ ctx'[p].req = ctx[p].req
      BY <1>4, OwnContext
    <2> QED BY <1>1, <1>2, <2>1, <2>2 DEF FreshAt
  <1> QED BY <1>1, <1>3, <1>4

LEMMA SubmitFresh ==
    ASSUME LineInv, JournalInv, NEW p \in Procs, Submit(p)
    PROVE  FreshAt(p)'
  <1>1. /\ pc[p] \in Open /\ UNCHANGED processed
        /\ \/ Goto(p, "idle")
           \/ \E o \in Outcomes, label \in {"exit", "commit", "note"} :
                /\ Goto(p, label) /\ ctx' = [ctx EXCEPT ![p].outcome = o]
                /\ o = "ok" <=> label # "note"
    BY DEF Submit, Open, Critical, Release
  <1>2. ctx[p].req \notin Named(processed)
    BY <1>1 DEF JournalInv, Fresh, FreshAt
  <1>3. CASE Goto(p, "idle")
    BY <1>3, GotoPc DEF FreshAt, Open, Critical
  <1>4. ASSUME NEW o \in Outcomes, NEW label \in {"exit", "commit", "note"},
               Goto(p, label), ctx' = [ctx EXCEPT ![p].outcome = o],
               o = "ok" <=> label # "note"
        PROVE  FreshAt(p)'
    <2>1. pc'[p] = label
      BY <1>4, GotoPc
    <2>2. ctx'[p].outcome = o /\ ctx'[p].req = ctx[p].req
      BY <1>4, OwnContext
    <2> QED BY <1>1, <1>2, <1>4, <2>1, <2>2 DEF FreshAt
  <1> QED BY <1>1, <1>3, <1>4

LEMMA QuietFresh ==
    ASSUME LineInv, JournalInv, NEW p \in Procs, Handler(p),
           pc[p] \notin Bookkeeping
    PROVE  FreshAt(p)'
  <1>1. ASSUME Goto(p, "idle")
        PROVE  FreshAt(p)'
    BY <1>1, GotoPc DEF FreshAt, Open, Critical
  <1>2. CASE Replay(p) \/ Conflict(p) \/ Reply(p)
    BY <1>1, <1>2 DEF Replay, Conflict, Reply, Release
  <1>3. CASE Attach(p)
    <2>1. CASE Goto(p, "note") /\ UNCHANGED ctx
      <3>1. pc'[p] = "note"
        BY <2>1, GotoPc
      <3>2. pc[p] = "attach" /\ UNCHANGED processed
        BY <1>3 DEF Attach
      <3> QED BY <2>1, <3>1, <3>2 DEF FreshAt, JournalInv, Fresh, Open, Critical
    <2> QED BY <1>1, <1>3, <2>1 DEF Attach, Release
  <1>4. CASE Exit(p)
    <2>1. /\ pc[p] = "exit" /\ UNCHANGED <<processed, ctx>> /\ Goto(p, "commit")
      BY <1>4 DEF Exit
    <2>2. pc'[p] = "commit"
      BY <2>1, GotoPc
    <2> QED BY <2>1, <2>2 DEF FreshAt, JournalInv, Fresh, Open, Critical
  <1>5. CASE Note(p) \/ Commit(p) \/ Publish(p) \/ Journal(p)
    BY <1>5 DEF Note, Commit, Publish, Journal, Bookkeeping
  <1> QED BY <1>2, <1>3, <1>4, <1>5, BeginFresh, ReadProofFresh, SubmitFresh
          DEF Handler

\* The write reaches the file at once with sqlite, and is awaited with JSON.
Reaches(p) ==
    \/ Backend = "sqlite" /\ disk' = mem'
    \/ Backend # "sqlite" /\ disk' = disk /\ p \in waiting'

LEMMA NoteBooks ==
    ASSUME LineInv, Synchronous, NEW p \in Procs, Note(p)
    PROVE  /\ Synchronous' /\ Reaches(p) /\ UNCHANGED <<processed, ctx, told>>
           /\ mem'.receipts = Append(mem.receipts, ReceiptOf(p))
           /\ mem'.journal = mem.journal
           /\ waiting \subseteq waiting'
           /\ pc[p] = "note"
           /\ pc'[p] = IF ctx[p].outcome = "pending" THEN "journal" ELSE "reply"
  <1> DEFINE db == [mem EXCEPT !.receipts = Append(@, ReceiptOf(p))]
  <1>1. /\ db.receipts = Append(mem.receipts, ReceiptOf(p))
        /\ db.journal = mem.journal
    BY DEF LineInv, TypeOK, Database
  <1>2. Write(db, {p})
    BY DEF Note
  <1> HIDE DEF db
  <1>3. /\ Synchronous' /\ mem' = db /\ Reaches(p)
        /\ waiting \subseteq waiting'
    BY <1>2, SynchronousWrite DEF JournalInv, Reaches
  <1>4. pc'[p] = IF ctx[p].outcome = "pending" THEN "journal" ELSE "reply"
    BY GotoPc DEF Note
  <1> QED BY <1>1, <1>3, <1>4 DEF Note

LEMMA CommitBooks ==
    ASSUME LineInv, Synchronous, NEW p \in Procs, Commit(p)
    PROVE  /\ Synchronous' /\ Reaches(p)
           /\ UNCHANGED <<cache, processed, ctx, told>>
           /\ mem'.receipts = Append(mem.receipts, ReceiptOf(p))
           /\ mem'.position = Advanced(p)
           /\ mem'.journal = mem.journal
           /\ waiting \subseteq waiting'
           /\ pc[p] = "commit" /\ pc'[p] = "publish"
  <1> DEFINE db == [mem EXCEPT !.position = Advanced(p),
                               !.receipts = Append(@, ReceiptOf(p))]
  <1>1. /\ db.receipts = Append(mem.receipts, ReceiptOf(p))
        /\ db.journal = mem.journal /\ db.position = Advanced(p)
    BY DEF LineInv, TypeOK, Database
  <1>2. Write(db, {p})
    BY DEF Commit
  <1> HIDE DEF db
  <1>3. /\ Synchronous' /\ mem' = db /\ Reaches(p)
        /\ waiting \subseteq waiting'
    BY <1>2, SynchronousWrite DEF JournalInv, Reaches
  <1>4. pc'[p] = "publish"
    BY GotoPc DEF Commit
  <1> QED BY <1>1, <1>3, <1>4 DEF Commit

LEMMA RememberBooks ==
    ASSUME LineInv, Synchronous, NEW p \in Procs, Publish(p) \/ Journal(p)
    PROVE  /\ Synchronous' /\ Reaches(p) /\ UNCHANGED <<ctx, told>>
           /\ mem'.receipts = mem.receipts /\ mem'.position = mem.position
           /\ mem'.journal = remembered(mem.journal, ReceiptOf(p))
           /\ processed' = remembered(processed, ReceiptOf(p))
           /\ waiting \subseteq waiting'
           /\ pc[p] \in {"publish", "journal"} /\ pc'[p] = "reply"
  <1> DEFINE db == [mem EXCEPT !.journal = remembered(@, ReceiptOf(p))]
  <1>1. /\ db.receipts = mem.receipts /\ db.position = mem.position
        /\ db.journal = remembered(mem.journal, ReceiptOf(p))
    BY DEF LineInv, TypeOK, Database
  <1>2. /\ Write(db, {p})
        /\ processed' = remembered(processed, ReceiptOf(p))
    BY DEF Publish, Journal, rememberProcessedDraw
  <1> HIDE DEF db
  <1>3. /\ Synchronous' /\ mem' = db /\ Reaches(p)
        /\ waiting \subseteq waiting'
    BY <1>2, SynchronousWrite DEF JournalInv, Reaches
  <1>4. pc'[p] = "reply"
    BY GotoPc DEF Publish, Journal
  <1> QED BY <1>1, <1>2, <1>3, <1>4 DEF Publish, Journal

\* A request the journal does not know is added to it; nothing is replaced.
LEMMA RememberedFresh ==
    ASSUME NEW journal, NEW x, x.req \notin Named(journal), Functional(journal)
    PROVE  /\ remembered(journal, x) = journal \cup {x}
           /\ Functional(remembered(journal, x))
  BY DEF remembered, Named, Functional

LEMMA ReceiptReq ==
    ASSUME NEW p \in Procs
    PROVE  ReceiptOf(p).req = ctx[p].req
  BY DEF ReceiptOf

LEMMA NoteJournal ==
    ASSUME LineInv, JournalInv, NEW p \in Procs, Note(p)
    PROVE  JournalInv'
  <1>1. Handler(p)
    BY DEF Handler
  <1>2. PICK label \in Critical \cup {"idle"} : Goto(p, label)
    BY <1>1, HandlerEntry
  <1>3. (pc[p] \in Critical \/ Entering(p)) /\ UNCHANGED budget
    BY <1>1, HandlerEntry
  <1>4. FreshAt(p)'
    BY NoteBooks DEF JournalInv, Fresh, FreshAt, Open, Critical
  <1>5. Fresh' /\ Unreset'
    BY <1>2, <1>3, <1>4, FreshStep, NotResetStep DEF JournalInv
  <1>6. OneJournal'
    BY NoteBooks DEF OneJournal, JournalInv, Functional, Reaches
  <1> QED BY <1>5, <1>6, NoteBooks DEF JournalInv

LEMMA CommitJournal ==
    ASSUME LineInv, JournalInv, NEW p \in Procs, Commit(p)
    PROVE  JournalInv'
  <1>1. Handler(p)
    BY DEF Handler
  <1>2. PICK label \in Critical \cup {"idle"} : Goto(p, label)
    BY <1>1, HandlerEntry
  <1>3. (pc[p] \in Critical \/ Entering(p)) /\ UNCHANGED budget
    BY <1>1, HandlerEntry
  <1>4. FreshAt(p)'
    BY CommitBooks DEF JournalInv, Fresh, FreshAt, Open, Critical
  <1>5. Fresh' /\ Unreset'
    BY <1>2, <1>3, <1>4, FreshStep, NotResetStep DEF JournalInv
  <1>6. OneJournal'
    BY CommitBooks DEF OneJournal, JournalInv, Functional, Reaches
  <1> QED BY <1>5, <1>6, CommitBooks DEF JournalInv

LEMMA RememberFresh ==
    ASSUME LineInv, JournalInv, NEW p \in Procs, Publish(p) \/ Journal(p)
    PROVE  /\ processed' = processed \cup {ReceiptOf(p)}
           /\ mem'.journal = processed'
           /\ Functional(processed')
  <1>1. ReceiptOf(p).req \notin Named(processed)
    BY RememberBooks, ReceiptReq DEF JournalInv, Fresh, FreshAt, Open, Critical
  <1> QED BY <1>1, RememberBooks, RememberedFresh DEF JournalInv, OneJournal

LEMMA RememberJournal ==
    ASSUME LineInv, JournalInv, NEW p \in Procs, Publish(p) \/ Journal(p)
    PROVE  JournalInv'
  <1>1. Handler(p)
    BY DEF Handler
  <1>2. PICK label \in Critical \cup {"idle"} : Goto(p, label)
    BY <1>1, HandlerEntry
  <1>3. (pc[p] \in Critical \/ Entering(p)) /\ UNCHANGED budget
    BY <1>1, HandlerEntry
  <1>4. FreshAt(p)'
    <2>1. ReceiptOf(p)' = ReceiptOf(p)
      BY RememberBooks DEF ReceiptOf, JournalInv
    <2>2. ctx[p].outcome \in {"ok", "pending"}
      BY RememberBooks DEF JournalInv, Fresh, FreshAt
    <2>3. ReceiptOf(p)' \in processed'
      BY <2>1, RememberFresh
    <2> QED BY <2>2, <2>3, RememberBooks DEF JournalInv, FreshAt, Open, Critical
  <1>5. Fresh' /\ Unreset'
    BY <1>2, <1>3, <1>4, FreshStep, NotResetStep DEF JournalInv
  <1>6. OneJournal'
    BY RememberBooks, RememberFresh DEF OneJournal, JournalInv, Functional,
                                        Reaches
  <1> QED BY <1>5, <1>6, RememberBooks DEF JournalInv

LEMMA HandlerJournal ==
    ASSUME LineInv, JournalInv, NEW p \in Procs, Handler(p)
    PROVE  JournalInv'
  <1>1. CASE pc[p] \notin Bookkeeping
    <2>1. SameBooks /\ Synchronous' /\ UNCHANGED processed
      BY <1>1, QuietHandler DEF JournalInv
    <2> QED BY <1>1, <2>1, QuietFresh, QuietJournal
  <1>2. CASE pc[p] \in Bookkeeping
    <2>1. Note(p) \/ Commit(p) \/ Publish(p) \/ Journal(p)
      BY <1>2 DEF Handler, Bookkeeping, Replay, Conflict, Begin, Entering,
                  ReadProof, Attach, Submit, Exit, Reply
    <2> QED BY <2>1, NoteJournal, CommitJournal, RememberJournal
  <1> QED BY <1>1, <1>2

\* Connect and proof refresh write positions only, and move no request.
LEMMA BesideBooks ==
    ASSUME LineInv, Synchronous, ConnectRead \/ ConnectWrite \/ RefreshProof
    PROVE  /\ SameBooks /\ Synchronous'
           /\ UNCHANGED <<processed, queue, pc, waiting, ctx, told>>
           /\ NotReset => NotReset'
  <1>1. CASE ConnectRead
    <2>1. UNCHANGED <<cache, processed, mem, disk, queue, pc, waiting, ctx, told>>
      BY <1>1 DEF ConnectRead
    <2>2. budget'["reset"] = budget["reset"]
      BY <1>1 DEF ConnectRead, Spend, LineInv, TypeOK, Kinds
    <2> QED BY <2>1, <2>2 DEF SameBooks, Synchronous, NotReset
  <1>2. CASE ConnectWrite
    <2>1. UNCHANGED <<processed, queue, pc, ctx, told, budget>>
      BY <1>2 DEF ConnectWrite
    <2>2. CASE UNCHANGED <<cache, mem, disk, waiting>>
      BY <2>1, <2>2 DEF SameBooks, Synchronous, NotReset
    <2>3. CASE savePosition(IF cache = NoPosition
                            THEN opened(conn.collateral)
                            ELSE reconnected(cache, conn.collateral), {})
      <3> DEFINE position == IF cache = NoPosition
                             THEN opened(conn.collateral)
                             ELSE reconnected(cache, conn.collateral)
                 db == [mem EXCEPT !.position = position]
      <3>1. db.receipts = mem.receipts /\ db.journal = mem.journal
        BY DEF LineInv, TypeOK, Database
      <3>2. Write(db, {})
        BY <2>3 DEF savePosition
      <3> HIDE DEF db
      <3>3. UNCHANGED waiting
        BY <3>2 DEF Write
      <3> QED BY <2>1, <3>1, <3>2, <3>3, BooksWrite DEF NotReset
    <2> QED BY <1>2, <2>2, <2>3 DEF ConnectWrite
  <1>3. CASE RefreshProof
    <2> DEFINE db == [mem EXCEPT !.position = cache]
    <2>1. db.receipts = mem.receipts /\ db.journal = mem.journal
      BY DEF LineInv, TypeOK, Database
    <2>2. /\ Write(db, {})
          /\ UNCHANGED <<cache, processed, queue, pc, ctx, conn, told>>
      BY <1>3 DEF RefreshProof
    <2> HIDE DEF db
    <2>3. UNCHANGED waiting
      BY <2>2 DEF Write
    <2>4. budget'["reset"] = budget["reset"]
      BY <1>3 DEF RefreshProof, Spend, LineInv, TypeOK, Kinds
    <2> QED BY <2>1, <2>2, <2>3, <2>4, BooksWrite DEF NotReset
  <1> QED BY <1>1, <1>2, <1>3

LEMMA BesideJournal ==
    ASSUME LineInv, JournalInv, ConnectRead \/ ConnectWrite \/ RefreshProof
    PROVE  JournalInv'
  <1>1. /\ SameBooks /\ Synchronous' /\ Unreset'
        /\ UNCHANGED <<processed, pc, ctx>>
    BY BesideBooks DEF JournalInv, Unreset
  <1>2. OneJournal'
    BY <1>1 DEF SameBooks, OneJournal, JournalInv, Functional
  <1>3. Fresh'
    BY <1>1 DEF JournalInv, Fresh, FreshAt, ReceiptOf
  <1> QED BY <1>1, <1>2, <1>3 DEF JournalInv

\* A request that arrives is not past the lock, and touches nobody else.
LEMMA ArriveBooks ==
    ASSUME LineInv, NEW p \in Procs, NEW r \in Request, Arrive(p, r)
    PROVE  /\ pc[p] = "idle" /\ pc'[p] = "queued"
           /\ \A q \in Procs : q # p => pc'[q] = pc[q] /\ ctx'[q] = ctx[q]
           /\ UNCHANGED <<cache, processed, mem, disk, waiting, conn, told>>
           /\ NotReset => NotReset'
  <1>1. /\ pc[p] = "idle" /\ pc'[Admin] = pc[Admin]
        /\ \A q \in Procs : pc'[q] = IF q = p THEN "queued" ELSE pc[q]
    BY GotoPc DEF Arrive
  <1>2. \A q \in Procs : q # p => ctx'[q] = ctx[q]
    BY DEF Arrive, LineInv, TypeOK
  <1>3. budget'["reset"] = budget["reset"]
    BY DEF Arrive, Spend, LineInv, TypeOK, Kinds
  <1> QED BY <1>1, <1>2, <1>3 DEF Arrive, NotReset

LEMMA ArriveJournal ==
    ASSUME LineInv, JournalInv, NEW p \in Procs, NEW r \in Request, Arrive(p, r)
    PROVE  JournalInv'
  <1>1. /\ pc'[p] = "queued" /\ Unreset'
        /\ \A q \in Procs : q # p => pc'[q] = pc[q] /\ ctx'[q] = ctx[q]
        /\ UNCHANGED <<processed, mem, disk, waiting>>
    BY ArriveBooks DEF JournalInv, Unreset
  <1>2. OneJournal' /\ Synchronous'
    BY <1>1 DEF OneJournal, JournalInv, Functional, Synchronous
  <1>3. FreshAt(p)'
    BY <1>1 DEF FreshAt, Open, Critical
  <1>4. \A q \in Procs : q # p => FreshAt(q)'
    BY <1>1 DEF JournalInv, Fresh, FreshAt, ReceiptOf
  <1> QED BY <1>1, <1>2, <1>3, <1>4 DEF JournalInv, Fresh

LEMMA FileJournal ==
    ASSUME LineInv, JournalInv, Flush \/ FlushFails
    PROVE  JournalInv'
  <1>1. /\ UNCHANGED <<cache, processed, mem, queue, pc, ctx, conn, told, budget>>
        /\ Backend = "json" /\ disk' \in {mem, disk}
    BY DEF Flush, FlushFails
  <1>2. OneJournal' /\ Synchronous' /\ Unreset'
    BY <1>1 DEF OneJournal, JournalInv, Functional, Synchronous, NotReset,
                Unreset
  <1>3. Fresh'
    BY <1>1 DEF JournalInv, Fresh, FreshAt, ReceiptOf
  <1> QED BY <1>2, <1>3 DEF JournalInv

LEMMA CrashBooks ==
    ASSUME LineInv, Crash
    PROVE  /\ mem' = disk /\ cache' = disk.position /\ processed' = disk.journal
           /\ waiting' = {} /\ UNCHANGED <<disk, told>>
           /\ \A p \in Procs : pc'[p] = "idle"
           /\ NotReset => NotReset'
           /\ budget["crash"] > 0
  <1>1. \A a \in Actor : pc'[a] = "idle"
    BY DEF Crash
  <1>2. budget'["reset"] = budget["reset"] /\ budget["crash"] > 0
    BY DEF Crash, Spend, LineInv, TypeOK, Kinds
  <1> QED BY <1>1, <1>2 DEF Crash, NotReset, Actor

LEMMA CrashJournal ==
    ASSUME LineInv, JournalInv, Crash
    PROVE  JournalInv'
  <1>1. OneJournal' /\ Synchronous' /\ Unreset'
    BY CrashBooks DEF OneJournal, JournalInv, Functional, Synchronous, Unreset
  <1>2. Fresh'
    BY CrashBooks DEF Fresh, FreshAt, Open, Critical
  <1> QED BY <1>1, <1>2 DEF JournalInv

LEMMA NoReset ==
    ASSUME NotReset
    PROVE  ~ResetWipe /\ ~ResetReload
  BY DEF NotReset, ResetWipe, ResetReload, Spend

\* A reset empties the books; the reload that ends it takes the database's
\* journal, which is the cache's.
LEMMA ResetBooks ==
    ASSUME LineInv, JournalInv, ResetWipe \/ ResetReload
    PROVE  /\ Budget["reset"] # 0 /\ Synchronous'
           /\ UNCHANGED <<conn, ctx, told>>
           /\ \A p \in Procs : pc'[p] = pc[p]
           /\ \/ /\ processed' = {} /\ mem'.journal = {}
                 /\ mem'.receipts = <<>> /\ mem'.position = NoPosition
                 /\ cache' = NoPosition
                 /\ disk' = disk \/ disk' = mem'
              \/ /\ UNCHANGED <<processed, mem, disk>>
                 /\ cache' = IF mem.position = NoPosition THEN cache
                             ELSE mem.position
  <1>1. Budget["reset"] # 0
    BY NoReset DEF JournalInv, Unreset
  <1>2. ASSUME NEW label, Goto(Admin, label)
        PROVE  \A p \in Procs : pc'[p] = pc[p]
    BY <1>2, LedgerAssumption DEF Goto, LineInv, TypeOK, Actor
  <1>3. CASE ResetWipe
    <2> DEFINE db == [position |-> NoPosition, receipts |-> <<>>, journal |-> {}]
    <2>1. /\ db.position = NoPosition /\ db.receipts = <<>> /\ db.journal = {}
      OBVIOUS
    <2>2. Write(db, {Admin})
      BY <1>3 DEF ResetWipe
    <2> HIDE DEF db
    <2>3. Synchronous' /\ mem' = db /\ (disk' = disk \/ disk' = db)
      BY <2>2, SynchronousWrite DEF JournalInv
    <2> QED BY <1>1, <1>2, <1>3, <2>1, <2>3 DEF ResetWipe
  <1>4. CASE ResetReload
    <2>1. processed' = processed
      BY <1>4 DEF ResetReload, JournalInv, OneJournal
    <2>2. Synchronous'
      BY <1>4 DEF ResetReload, JournalInv, Synchronous
    <2> QED BY <1>1, <1>2, <1>4, <2>1, <2>2 DEF ResetReload
  <1> QED BY <1>3, <1>4

LEMMA ResetJournal ==
    ASSUME LineInv, JournalInv, ResetWipe \/ ResetReload
    PROVE  JournalInv'
  <1>1. OneJournal'
    BY ResetBooks DEF JournalInv, OneJournal, Functional
  <1>2. Fresh'
    <2> SUFFICES ASSUME NEW p \in Procs PROVE FreshAt(p)'
      BY DEF Fresh
    <2>1. /\ pc'[p] = pc[p] /\ ctx'[p] = ctx[p]
          /\ processed' \subseteq processed /\ Budget["reset"] # 0
      BY ResetBooks
    <2> QED BY <2>1 DEF JournalInv, Fresh, FreshAt, Named
  <1> QED BY <1>1, <1>2, ResetBooks DEF JournalInv, Unreset

LEMMA JournalStep == LineInv /\ JournalInv /\ [Next]_vars => JournalInv'
  <1> SUFFICES ASSUME LineInv, JournalInv, [Next]_vars PROVE JournalInv'
    OBVIOUS
  <1>1. ASSUME NEW p \in Procs, NEW r \in Request, Arrive(p, r)
        PROVE  JournalInv'
    BY <1>1, ArriveJournal
  <1>2. ASSUME NEW p \in Procs, Handler(p)
        PROVE  JournalInv'
    BY <1>2, HandlerJournal
  <1>3. CASE ConnectRead \/ ConnectWrite \/ RefreshProof
    BY <1>3, BesideJournal
  <1>4. CASE ResetWipe \/ ResetReload
    BY <1>4, ResetJournal
  <1>5. CASE Flush \/ FlushFails \/ Crash
    BY <1>5, FileJournal, CrashJournal
  <1>6. CASE UNCHANGED vars
    BY <1>6 DEF vars, JournalInv, Unreset, NotReset, Synchronous, OneJournal, Functional,
                Fresh, FreshAt, ReceiptOf
  <1> QED BY <1>1, <1>2, <1>3, <1>4, <1>5, <1>6 DEF Next

\* A store keeps the same journal in its cache and in its database, with one
\* receipt per request, and no request that is under the lock is in it before
\* it has put itself there.
THEOREM JournalInvariant == Spec => []JournalInv
  BY JournalInit, JournalStep, LineInvariant, PTL DEF Spec

-----------------------------------------------------------------------------
(* Pending receipts.                                                       *)

\* Events only become fewer.
LEMMA BudgetFalls ==
    ASSUME LineInv, [Next]_vars, NEW k \in Kinds, budget[k] = 0
    PROVE  budget'[k] = 0
  <1>1. ASSUME NEW kind \in Kinds, Spend(kind)
        PROVE  budget'[k] = 0
    BY <1>1 DEF Spend, LineInv, TypeOK
  <1>2. CASE UNCHANGED budget
    BY <1>2
  <1>3. ASSUME NEW p \in Procs, NEW r \in Request, Arrive(p, r)
        PROVE  budget'[k] = 0
    BY <1>1, <1>3 DEF Arrive, Kinds
  <1>4. ASSUME NEW p \in Procs, Handler(p)
        PROVE  budget'[k] = 0
    BY <1>2, <1>4, HandlerEntry
  <1>5. CASE ConnectRead \/ ConnectWrite \/ RefreshProof
    BY <1>1, <1>2, <1>5 DEF ConnectRead, ConnectWrite, RefreshProof, Kinds
  <1>6. CASE ResetWipe \/ ResetReload
    BY <1>1, <1>2, <1>6 DEF ResetWipe, ResetReload, Kinds
  <1>7. CASE Flush \/ FlushFails \/ Crash
    BY <1>1, <1>2, <1>7 DEF Flush, FlushFails, Crash, Kinds
  <1>8. CASE UNCHANGED vars
    BY <1>2, <1>8 DEF vars
  <1> QED BY <1>3, <1>4, <1>5, <1>6, <1>7, <1>8 DEF Next

\* A receipt that names a transaction is journaled, or about to be.
Explained(x) ==
    \/ x \in processed
    \/ \E p \in Procs : pc[p] = "journal" /\ ReceiptOf(p) = x

AllExplained ==
    \A i \in DOMAIN mem.receipts :
        mem.receipts[i].pending => Explained(mem.receipts[i])

PendingInv == budget["crash"] = 0 /\ AllExplained

\* While a request is under the lock and journals nothing itself, nobody is
\* about to.
LEMMA NobodyJournals ==
    ASSUME LineInv, NEW p \in Procs, pc[p] \in Critical \/ Entering(p),
           pc[p] # "journal", NEW x, Explained(x)
    PROVE  x \in processed
  BY Alone DEF Explained, Critical

LEMMA AppendElement ==
    ASSUME NEW s \in Seq(Receipt), NEW x \in Receipt,
           NEW i \in DOMAIN Append(s, x)
    PROVE  \/ i \in DOMAIN s /\ Append(s, x)[i] = s[i]
           \/ i = Len(s) + 1 /\ Append(s, x)[i] = x
  OBVIOUS

LEMMA HandlerPending ==
    ASSUME LineInv, JournalInv, PendingInv, NEW p \in Procs, Handler(p)
    PROVE  AllExplained'
  <1> SUFFICES ASSUME NEW i \in DOMAIN mem'.receipts, mem'.receipts[i].pending
               PROVE  Explained(mem.receipts[i])'
    BY DEF AllExplained
  <1>1. pc[p] \in Critical \/ Entering(p)
    BY HandlerEntry
  <1>2. CASE pc[p] \notin Bookkeeping
    <2>1. SameBooks /\ UNCHANGED processed
      BY <1>2, QuietHandler DEF JournalInv
    <2>2. mem'.receipts = mem.receipts /\ Explained(mem.receipts[i])
      BY <2>1 DEF SameBooks, PendingInv, AllExplained
    <2>3. mem.receipts[i] \in processed
      BY <1>1, <1>2, <2>2, NobodyJournals DEF Bookkeeping
    <2> QED BY <2>1, <2>2, <2>3 DEF Explained
  <1>3. ASSUME mem'.receipts = Append(mem.receipts, ReceiptOf(p)),
               pc[p] \in Critical, pc[p] # "journal", UNCHANGED processed,
               ReceiptOf(p).pending => pc'[p] = "journal" /\ UNCHANGED ctx
        PROVE  Explained(mem.receipts[i])'
    <2>1. mem.receipts \in Seq(Receipt) /\ ReceiptOf(p) \in Receipt
      BY <1>3, Writes DEF LineInv, TypeOK, Database
    <2>2. CASE i \in DOMAIN mem.receipts /\ mem'.receipts[i] = mem.receipts[i]
      <3>1. mem.receipts[i] \in processed
        BY <1>3, <2>2, NobodyJournals DEF PendingInv, AllExplained
      <3> QED BY <1>3, <2>2, <3>1 DEF Explained
    <2>3. CASE mem'.receipts[i] = ReceiptOf(p)
      <3>1. pc'[p] = "journal" /\ UNCHANGED ctx
        BY <1>3, <2>3
      <3>2. ReceiptOf(p)' = mem'.receipts[i]
        BY <2>3, <3>1 DEF ReceiptOf
      <3> QED BY <3>1, <3>2 DEF Explained
    <2> QED BY <1>3, <2>1, <2>2, <2>3, AppendElement
  <1>4. CASE Note(p)
    <2>1. ReceiptOf(p).pending => ctx[p].outcome = "pending"
      BY DEF ReceiptOf
    <2> QED BY <1>3, <1>4, <2>1, NoteBooks DEF JournalInv, Critical
  <1>5. CASE Commit(p)
    <2>1. ctx[p].outcome = "ok"
      BY <1>5 DEF Commit, JournalInv, Fresh, FreshAt
    <2>2. ~ReceiptOf(p).pending
      BY <2>1 DEF ReceiptOf
    <2> QED BY <1>3, <1>5, <2>2, CommitBooks DEF JournalInv, Critical
  <1>6. CASE Publish(p) \/ Journal(p)
    <2>1. /\ mem'.receipts = mem.receipts
          /\ processed' = processed \cup {ReceiptOf(p)}
      BY <1>6, RememberBooks, RememberFresh DEF JournalInv
    <2>2. Explained(mem.receipts[i])
      BY <2>1 DEF PendingInv, AllExplained
    <2>3. mem.receipts[i] \in processed \/ mem.receipts[i] = ReceiptOf(p)
      BY <1>1, <2>2, Alone DEF Explained, Critical
    <2> QED BY <2>1, <2>3 DEF Explained
  <1>7. CASE pc[p] \in Bookkeeping
    <2>1. Note(p) \/ Commit(p) \/ Publish(p) \/ Journal(p)
      BY <1>7 DEF Handler, Bookkeeping, Replay, Conflict, Begin, Entering,
                  ReadProof, Attach, Submit, Exit, Reply
    <2> QED BY <1>4, <1>5, <1>6, <2>1
  <1> QED BY <1>2, <1>7

\* A step that leaves receipts, journal and the requests under the lock alone.
LEMMA StillExplained ==
    ASSUME PendingInv, mem'.receipts = mem.receipts, UNCHANGED processed,
           \A q \in Procs :
             pc[q] = "journal" => pc'[q] = pc[q] /\ ctx'[q] = ctx[q]
    PROVE  AllExplained'
  <1> SUFFICES ASSUME NEW i \in DOMAIN mem.receipts, mem.receipts[i].pending
               PROVE  Explained(mem.receipts[i])'
    BY DEF AllExplained
  <1>1. Explained(mem.receipts[i])
    BY DEF PendingInv, AllExplained
  <1>2. CASE mem.receipts[i] \in processed
    BY <1>2 DEF Explained
  <1>3. ASSUME NEW q \in Procs, pc[q] = "journal",
               ReceiptOf(q) = mem.receipts[i]
        PROVE  Explained(mem.receipts[i])'
    <2>1. ReceiptOf(q)' = ReceiptOf(q)
      BY <1>3 DEF ReceiptOf
    <2>2. pc'[q] = "journal"
      BY <1>3
    <2> QED BY <1>3, <2>1, <2>2 DEF Explained
  <1> QED BY <1>1, <1>2, <1>3 DEF Explained

LEMMA PendingStep ==
    ASSUME LineInv, JournalInv, PendingInv, [Next]_vars
    PROVE  PendingInv'
  <1>1. budget'["crash"] = 0
    BY BudgetFalls DEF PendingInv, Kinds
  <1> SUFFICES AllExplained'
    BY <1>1 DEF PendingInv
  <1>2. ASSUME NEW p \in Procs, NEW r \in Request, Arrive(p, r)
        PROVE  AllExplained'
    <2>1. /\ UNCHANGED <<mem, processed>> /\ pc[p] = "idle"
          /\ \A q \in Procs : q # p => pc'[q] = pc[q] /\ ctx'[q] = ctx[q]
      BY <1>2, ArriveBooks
    <2> QED BY <2>1, StillExplained
  <1>3. ASSUME NEW p \in Procs, Handler(p)
        PROVE  AllExplained'
    BY <1>3, HandlerPending
  <1>4. CASE ConnectRead \/ ConnectWrite \/ RefreshProof
    BY <1>4, BesideBooks, StillExplained DEF JournalInv, SameBooks
  <1>5. CASE ResetWipe \/ ResetReload
    BY <1>5, ResetBooks, StillExplained DEF AllExplained
  <1>6. CASE Flush \/ FlushFails
    <2>1. UNCHANGED <<processed, mem, pc, ctx>>
      BY <1>6 DEF Flush, FlushFails
    <2> QED BY <2>1, StillExplained
  <1>7. CASE Crash
    BY <1>7 DEF Crash, Spend, PendingInv
  <1>8. CASE UNCHANGED vars
    BY <1>8, StillExplained DEF vars
  <1> QED BY <1>2, <1>3, <1>4, <1>5, <1>6, <1>7, <1>8 DEF Next

\* A transition the daemon holds a hash for is journaled before anyone else is
\* let in (transition.ts:15-20), through resets, connects and failed saves, in
\* a process that does not die between the two writes.
THEOREM PendingIsJournaledHolds ==
    ASSUME Budget["crash"] = 0
    PROVE  Spec => []PendingIsJournaled
  <1>1. Init => PendingInv
    BY DEF Init, PendingInv, AllExplained
  <1>2. LineInv /\ JournalInv /\ PendingInv /\ [Next]_vars => PendingInv'
    BY PendingStep
  <1>3. PendingInv => PendingIsJournaled
    BY ReceiptReq DEF PendingInv, AllExplained, Explained, PendingIsJournaled
  <1> QED BY <1>1, <1>2, <1>3, LineInvariant, JournalInvariant, PTL DEF Spec

-----------------------------------------------------------------------------
(* Answers.                                                                *)

\* What the answers of a store assume: nobody resets it, and saves succeed.
Reliable == Budget["reset"] = 0 /\ ~WriteErrors

\* What the file knows is behind what memory knows by the write of the one
\* request that waits for the file.
Behind ==
    /\ Approved(disk.receipts) \subseteq Approved(mem.receipts)
    /\ disk.journal \subseteq processed
    /\ \A x \in processed \ disk.journal :
         \E p \in Procs : pc[p] = "reply" /\ p \in waiting

\* A request goes on from its commit once the receipt is on file.
CommittedAt(p) ==
    /\ pc[p] = "publish" =>
         /\ ctx[p].req \in Approved(mem.receipts)
         /\ p \notin waiting => ctx[p].req \in Approved(disk.receipts)
    /\ pc[p] = "reply" /\ ctx[p].outcome = "ok" =>
         ctx[p].req \in Approved(disk.receipts)

Committed == \A p \in Procs : CommittedAt(p)

\* What is journaled is pending, or approved on file.
Settled ==
    \A x \in processed :
        x.pending \/ (x.result = "ALLOW" /\ x.req \in Approved(disk.receipts))

\* Whoever was told a final answer finds it in the journal on file.
Backed(d) ==
    /\ Final(d) =>
         \E x \in disk.journal :
             /\ x.req = d.req
             /\ d.req.action = "DRAW" \/ d = Decision(x.req, x.result, x.pending)
    /\ d.result = "ALLOW" /\ ~d.pending => d.req \in Approved(disk.receipts)

Answered == \A d \in told : Backed(d)

AnswerInv == Behind /\ Committed /\ Settled /\ Answered

LEMMA AnswerInit == Init => AnswerInv
  <1> SUFFICES ASSUME Init PROVE AnswerInv
    OBVIOUS
  <1>1. /\ processed = {} /\ mem.journal = {} /\ disk = mem /\ told = {}
        /\ \A a \in Actor : pc[a] = "idle"
    BY DEF Init
  <1> QED BY <1>1 DEF AnswerInv, Behind, Committed, CommittedAt, Settled,
                      Answered, Actor

\* When a request steps that does not wait for the file, nobody does, so the
\* journal is on file.
LEMMA CaughtUp ==
    ASSUME LineInv, AnswerInv, NEW p \in Procs,
           pc[p] \in Critical \/ Entering(p), p \notin waiting
    PROVE  disk.journal = processed
  <1>1. \A q \in Procs : ~(pc[q] = "reply" /\ q \in waiting)
    BY Alone DEF Critical
  <1> QED BY <1>1 DEF AnswerInv, Behind

LEMMA CommittedStep ==
    ASSUME LineInv, NEW p \in Procs, pc[p] \in Critical \/ Entering(p),
           NEW label \in Critical \cup {"idle"}, Goto(p, label), CommittedAt(p)'
    PROVE  Committed'
  <1>1. \A q \in Procs : pc'[q] = IF q = p THEN label ELSE pc[q]
    BY GotoPc
  <1>2. \A q \in Procs : q # p => pc[q] \notin Critical
    BY Alone
  <1>3. \A q \in Procs : q # p => CommittedAt(q)'
    BY <1>1, <1>2 DEF CommittedAt, Critical
  <1> QED BY <1>3 DEF Committed

\* A request answers: from its own receipt, or from the journal.
LEMMA ReplyBacked ==
    ASSUME Reliable, LineInv, JournalInv, AnswerInv,
           NEW p \in Procs, Reply(p)
    PROVE  Backed(Decision(ctx[p].req, ReceiptOf(p).result,
                           ReceiptOf(p).pending))
  <1>1. pc[p] = "reply" /\ pc[p] \in Critical /\ p \notin waiting
    BY DEF Reply, MayRun, Critical
  <1>2. disk.journal = processed
    BY <1>1, CaughtUp
  <1> DEFINE d == Decision(ctx[p].req, ReceiptOf(p).result, ReceiptOf(p).pending)
  <1>3. d.req = ctx[p].req /\ d.result = ReceiptOf(p).result
        /\ d.pending = ReceiptOf(p).pending
    BY DEF Decision
  <1>4. Final(d) => ctx[p].outcome \in {"ok", "pending"}
    BY <1>3 DEF Final, ReceiptOf
  <1>5. Final(d) => ReceiptOf(p) \in disk.journal
    BY <1>1, <1>2, <1>4 DEF Reliable, JournalInv, Fresh, FreshAt
  <1>6. d = Decision(ReceiptOf(p).req, ReceiptOf(p).result, ReceiptOf(p).pending)
    BY ReceiptReq
  <1>7. d.result = "ALLOW" => ctx[p].req \in Approved(disk.receipts)
    BY <1>1, <1>3 DEF ReceiptOf, AnswerInv, Committed, CommittedAt
  <1> HIDE DEF d
  <1>8. Backed(d)
    BY <1>3, <1>5, <1>6, <1>7, ReceiptReq DEF Backed
  <1> QED BY <1>8 DEF d

LEMMA ReplayBacked ==
    ASSUME LineInv, JournalInv, AnswerInv, NEW p \in Procs, Entering(p),
           NEW x \in Journaled(p)
    PROVE  Backed(Decision(x.req,
                           IF x.req.action = "DRAW" THEN "ALLOW" ELSE x.result,
                           x.pending))
  <1>1. p \notin waiting
    BY DEF Entering, MayRun
  <1>2. disk.journal = processed
    BY <1>1, CaughtUp
  <1>3. x \in processed
    BY DEF Journaled
  <1> DEFINE d == Decision(x.req,
                     IF x.req.action = "DRAW" THEN "ALLOW" ELSE x.result,
                     x.pending)
  <1>4. d.req = x.req /\ d.pending = x.pending
    BY DEF Decision
  <1>5. d.req.action = "DRAW" \/ d = Decision(x.req, x.result, x.pending)
    BY <1>4 DEF Decision
  <1>6. ~x.pending => x.req \in Approved(disk.receipts)
    BY <1>3 DEF AnswerInv, Settled
  <1> HIDE DEF d
  <1>7. Backed(d)
    BY <1>2, <1>3, <1>4, <1>5, <1>6 DEF Backed
  <1> QED BY <1>7 DEF d

\* Books only grow on file: what was backed stays backed.
LEMMA BackedGrows ==
    ASSUME disk.journal \subseteq disk'.journal,
           Approved(disk.receipts) \subseteq Approved(disk'.receipts),
           NEW d, Backed(d)
    PROVE  Backed(d)'
  BY DEF Backed, Approved, Allowed

LEMMA QuietTold ==
    ASSUME Reliable, LineInv, JournalInv, AnswerInv,
           NEW p \in Procs, Handler(p),
           pc[p] \notin Bookkeeping
    PROVE  /\ \A d \in told' : Backed(d)
           /\ pc'[p] \notin {"publish", "reply"}
  <1>1. CASE Replay(p)
    <2>1. PICK x \in Journaled(p) :
            told' = told \cup {Decision(x.req,
                       IF x.req.action = "DRAW" THEN "ALLOW" ELSE x.result,
                       x.pending)}
      BY <1>1 DEF Replay
    <2>2. Entering(p) /\ pc'[p] = "idle"
      BY <1>1, GotoPc DEF Replay, Release
    <2> QED BY <2>1, <2>2, ReplayBacked DEF AnswerInv, Answered
  <1>2. CASE Reply(p)
    <2>1. /\ told' = told \cup {Decision(ctx[p].req, ReceiptOf(p).result,
                                         ReceiptOf(p).pending)}
          /\ pc'[p] = "idle"
      BY <1>2, GotoPc DEF Reply, Release
    <2> QED BY <1>2, <2>1, ReplyBacked DEF AnswerInv, Answered
  <1>3. CASE /\ UNCHANGED told
             /\ \E label \in {"idle", "reading", "note", "submit", "attach",
                              "exit", "commit"} : Goto(p, label)
    BY <1>3, GotoPc DEF AnswerInv, Answered
  <1>4. CASE Conflict(p) \/ Begin(p) \/ ReadProof(p)
    BY <1>3, <1>4 DEF Conflict, Begin, ReadProof, Release
  <1>5. CASE Attach(p) \/ Submit(p) \/ Exit(p)
    BY <1>3, <1>5 DEF Attach, Submit, Exit, Release
  <1>6. CASE Note(p) \/ Commit(p) \/ Publish(p) \/ Journal(p)
    BY <1>6 DEF Note, Commit, Publish, Journal, Bookkeeping
  <1> QED BY <1>1, <1>2, <1>4, <1>5, <1>6 DEF Handler

LEMMA QuietAnswer ==
    ASSUME Reliable, LineInv, JournalInv, AnswerInv,
           NEW p \in Procs, Handler(p),
           pc[p] \notin Bookkeeping
    PROVE  AnswerInv'
  <1>1. PICK label \in Critical \cup {"idle"} : Goto(p, label)
    BY HandlerEntry
  <1>2. (pc[p] \in Critical \/ Entering(p)) /\ p \notin waiting
    BY HandlerEntry
  <1>3. SameBooks /\ UNCHANGED processed
    BY QuietHandler DEF JournalInv
  <1>4. disk.journal = processed
    BY <1>2, CaughtUp
  <1>5. Behind'
    BY <1>3, <1>4 DEF SameBooks, AnswerInv, Behind, Approved, Allowed
  <1>6. CommittedAt(p)'
    BY QuietTold DEF CommittedAt
  <1>7. Committed'
    BY <1>1, <1>2, <1>6, CommittedStep
  <1>8. Settled'
    BY <1>3 DEF SameBooks, AnswerInv, Settled, Approved, Allowed
  <1>9. Answered'
    <2>1. /\ disk.journal \subseteq disk'.journal
          /\ Approved(disk.receipts) \subseteq Approved(disk'.receipts)
      BY <1>3 DEF SameBooks
    <2> QED BY <2>1, QuietTold, BackedGrows DEF Answered
  <1> QED BY <1>5, <1>7, <1>8, <1>9 DEF AnswerInv

LEMMA AppendApproved ==
    ASSUME NEW s \in Seq(Receipt), NEW x \in Receipt
    PROVE  Approved(Append(s, x)) =
             Approved(s) \cup (IF x.result = "ALLOW" THEN {x.req} ELSE {})
  <1> DEFINE t == Append(s, x)
  <1>1. /\ DOMAIN t = 1..(Len(s) + 1) /\ DOMAIN s = 1..Len(s)
        /\ t[Len(s) + 1] = x /\ Len(s) \in Nat
        /\ \A i \in 1..Len(s) : t[i] = s[i]
    OBVIOUS
  <1> HIDE DEF t
  <1>2. \A i \in Allowed(t) : \/ i \in Allowed(s) /\ t[i] = s[i]
                              \/ i = Len(s) + 1 /\ x.result = "ALLOW"
    BY <1>1 DEF Allowed
  <1>3. \A i \in Allowed(s) : i \in Allowed(t) /\ t[i] = s[i]
    BY <1>1 DEF Allowed
  <1>4. x.result = "ALLOW" => Len(s) + 1 \in Allowed(t)
    BY <1>1 DEF Allowed
  <1>5. Approved(t) = Approved(s) \cup (IF x.result = "ALLOW" THEN {x.req} ELSE {})
    BY <1>1, <1>2, <1>3, <1>4 DEF Approved
  <1> QED BY <1>5 DEF t

LEMMA NoteAnswer ==
    ASSUME LineInv, JournalInv, AnswerInv, NEW p \in Procs, Note(p)
    PROVE  AnswerInv'
  <1>1. Handler(p) /\ pc[p] = "note" /\ pc[p] \in Critical
    BY DEF Handler, Note, Critical
  <1>2. PICK label \in Critical \cup {"idle"} : Goto(p, label)
    BY <1>1, HandlerEntry
  <1>3. disk.journal = processed
    BY <1>1, HandlerEntry, CaughtUp
  <1>4. /\ mem.receipts \in Seq(Receipt) /\ ReceiptOf(p) \in Receipt
        /\ ReceiptOf(p).result # "ALLOW" /\ ctx[p].outcome # "ok"
    BY <1>1, Writes DEF LineInv, TypeOK, Database, JournalInv, Fresh, FreshAt,
                        ReceiptOf
  <1>5. Approved(mem'.receipts) = Approved(mem.receipts)
    BY <1>4, NoteBooks, AppendApproved DEF JournalInv
  <1>6. /\ disk'.journal = disk.journal
        /\ Approved(disk.receipts) \subseteq Approved(disk'.receipts)
        /\ Approved(disk'.receipts) \subseteq Approved(mem'.receipts)
    BY <1>3, <1>5, NoteBooks DEF JournalInv, OneJournal, Reaches, AnswerInv,
                                 Behind
  <1>7. Behind'
    BY <1>3, <1>6, NoteBooks DEF JournalInv, Behind, Approved, Allowed
  <1>8. CommittedAt(p)'
    BY <1>4, NoteBooks DEF JournalInv, CommittedAt
  <1>9. Committed'
    BY <1>1, <1>2, <1>8, CommittedStep
  <1>10. Settled'
    BY <1>6, NoteBooks DEF JournalInv, AnswerInv, Settled, Approved, Allowed
  <1>11. Answered'
    BY <1>6, NoteBooks, BackedGrows DEF JournalInv, AnswerInv, Answered
  <1> QED BY <1>7, <1>9, <1>10, <1>11 DEF AnswerInv

LEMMA CommitAnswer ==
    ASSUME LineInv, JournalInv, AnswerInv, NEW p \in Procs, Commit(p)
    PROVE  AnswerInv'
  <1>1. Handler(p) /\ pc[p] = "commit" /\ pc[p] \in Critical
    BY DEF Handler, Commit, Critical
  <1>2. PICK label \in Critical \cup {"idle"} : Goto(p, label)
    BY <1>1, HandlerEntry
  <1>3. disk.journal = processed
    BY <1>1, HandlerEntry, CaughtUp
  <1>4. /\ mem.receipts \in Seq(Receipt) /\ ReceiptOf(p) \in Receipt
        /\ ReceiptOf(p).result = "ALLOW"
    BY <1>1, Writes DEF LineInv, TypeOK, Database, JournalInv, Fresh, FreshAt,
                        ReceiptOf
  <1>5. Approved(mem'.receipts) = Approved(mem.receipts) \cup {ctx[p].req}
    BY <1>4, CommitBooks, AppendApproved, ReceiptReq DEF JournalInv
  <1>6. /\ disk'.journal = disk.journal
        /\ Approved(disk.receipts) \subseteq Approved(disk'.receipts)
        /\ Approved(disk'.receipts) \subseteq Approved(mem'.receipts)
        /\ p \in waiting' \/ ctx[p].req \in Approved(disk'.receipts)
    BY <1>3, <1>5, CommitBooks DEF JournalInv, OneJournal, Reaches, AnswerInv,
                                   Behind
  <1>7. Behind'
    BY <1>3, <1>6, CommitBooks DEF JournalInv, Behind, Approved, Allowed
  <1>8. CommittedAt(p)'
    <2>1. /\ pc'[p] = "publish" /\ ctx'[p].req = ctx[p].req
          /\ ctx[p].req \in Approved(mem'.receipts)
      BY <1>5, CommitBooks DEF JournalInv
    <2> QED BY <1>6, <2>1 DEF CommittedAt, Approved, Allowed
  <1>9. Committed'
    BY <1>1, <1>2, <1>8, CommittedStep
  <1>10. Settled'
    BY <1>6, CommitBooks DEF JournalInv, AnswerInv, Settled, Approved, Allowed
  <1>11. Answered'
    BY <1>6, CommitBooks, BackedGrows DEF JournalInv, AnswerInv, Answered
  <1> QED BY <1>7, <1>9, <1>10, <1>11 DEF AnswerInv

\* Once a receipt is journaled its request is past its lock, but for the answer.
LEMMA RememberAnswer ==
    ASSUME LineInv, JournalInv, AnswerInv, NEW p \in Procs,
           Publish(p) \/ Journal(p)
    PROVE  AnswerInv'
  <1>1. /\ Handler(p) /\ pc[p] \in {"publish", "journal"}
        /\ pc[p] \in Critical /\ p \notin waiting
    BY DEF Handler, Publish, Journal, MayRun, Critical
  <1>2. PICK label \in Critical \cup {"idle"} : Goto(p, label)
    BY <1>1, HandlerEntry
  <1>3. disk.journal = processed
    BY <1>1, CaughtUp
  <1>4. /\ Synchronous' /\ Reaches(p) /\ UNCHANGED <<ctx, told>>
        /\ mem'.receipts = mem.receipts /\ pc'[p] = "reply"
        /\ processed' = processed \cup {ReceiptOf(p)}
        /\ mem'.journal = processed'
    BY RememberBooks, RememberFresh DEF JournalInv
  <1>5. /\ disk'.journal = disk.journal \/ disk'.journal = processed'
        /\ p \in waiting' \/ disk'.journal = processed'
        /\ Approved(disk.receipts) \subseteq Approved(disk'.receipts)
        /\ Approved(disk'.receipts) \subseteq Approved(mem'.receipts)
    BY <1>4 DEF Reaches, AnswerInv, Behind
  <1>6. Behind'
    BY <1>3, <1>4, <1>5 DEF Behind, Approved, Allowed
  <1>7. ctx[p].outcome = "ok" => ctx[p].req \in Approved(disk.receipts)
    BY <1>1 DEF AnswerInv, Committed, CommittedAt, JournalInv, Fresh, FreshAt
  <1>8. CommittedAt(p)'
    BY <1>4, <1>5, <1>7 DEF CommittedAt, Approved, Allowed
  <1>9. Committed'
    BY <1>1, <1>2, <1>8, CommittedStep
  <1>10. Settled'
    <2>1. ctx[p].outcome \in {"ok", "pending"}
      BY <1>1 DEF JournalInv, Fresh, FreshAt
    <2>2. \/ ReceiptOf(p).pending
          \/ /\ ReceiptOf(p).result = "ALLOW"
             /\ ReceiptOf(p).req \in Approved(disk.receipts)
      BY <1>7, <2>1 DEF ReceiptOf
    <2>3. \A x \in processed' :
            x.pending \/ (x.result = "ALLOW" /\ x.req \in Approved(disk'.receipts))
      BY <1>4, <1>5, <2>2 DEF AnswerInv, Settled
    <2> QED BY <2>3 DEF Settled, Approved, Allowed
  <1>11. Answered'
    <2>1. disk.journal \subseteq disk'.journal
      BY <1>3, <1>4, <1>5
    <2> QED BY <1>4, <1>5, <2>1, BackedGrows DEF AnswerInv, Answered
  <1> QED BY <1>6, <1>9, <1>10, <1>11 DEF AnswerInv

LEMMA HandlerAnswer ==
    ASSUME Reliable, LineInv, JournalInv, AnswerInv,
           NEW p \in Procs, Handler(p)
    PROVE  AnswerInv'
  <1>1. CASE pc[p] \notin Bookkeeping
    BY <1>1, QuietAnswer
  <1>2. CASE pc[p] \in Bookkeeping
    <2>1. Note(p) \/ Commit(p) \/ Publish(p) \/ Journal(p)
      BY <1>2 DEF Handler, Bookkeeping, Replay, Conflict, Begin, Entering,
                  ReadProof, Attach, Submit, Exit, Reply
    <2> QED BY <2>1, NoteAnswer, CommitAnswer, RememberAnswer
  <1> QED BY <1>1, <1>2

\* A step that leaves the books, and the requests under the lock, alone.
LEMMA StillAnswered ==
    ASSUME AnswerInv, SameBooks, UNCHANGED <<processed, waiting, told>>,
           \A q \in Procs :
             pc[q] \in Critical \/ pc'[q] \in Critical =>
                pc'[q] = pc[q] /\ ctx'[q] = ctx[q]
    PROVE  AnswerInv'
  <1>1. /\ Approved(disk'.receipts) = Approved(disk.receipts)
        /\ Approved(mem'.receipts) = Approved(mem.receipts)
        /\ disk'.journal = disk.journal
    BY DEF SameBooks
  <1>2. Behind'
    BY <1>1 DEF AnswerInv, Behind, Approved, Allowed, Critical
  <1>3. Committed'
    BY <1>1 DEF AnswerInv, Committed, CommittedAt, Approved, Allowed, Critical
  <1>4. Settled' /\ Answered'
    BY <1>1, BackedGrows DEF AnswerInv, Settled, Answered, Approved, Allowed
  <1> QED BY <1>2, <1>3, <1>4 DEF AnswerInv

\* A save brings the file up to date.
LEMMA FlushAnswer ==
    ASSUME LineInv, JournalInv, AnswerInv, Flush
    PROVE  AnswerInv'
  <1>1. disk' = mem /\ waiting' = {} /\ UNCHANGED <<processed, mem, pc, ctx, told>>
    BY DEF Flush
  <1>2. /\ Approved(disk.receipts) \subseteq Approved(disk'.receipts)
        /\ Approved(disk'.receipts) = Approved(mem.receipts)
        /\ disk'.journal = processed /\ disk.journal \subseteq processed
    BY <1>1 DEF AnswerInv, Behind, JournalInv, OneJournal
  <1>3. Behind'
    BY <1>1, <1>2 DEF Behind, Approved, Allowed
  <1>4. Committed'
    BY <1>1, <1>2 DEF AnswerInv, Committed, CommittedAt, Approved, Allowed
  <1>5. Settled' /\ Answered'
    BY <1>1, <1>2, BackedGrows DEF AnswerInv, Settled, Answered, Approved, Allowed
  <1> QED BY <1>3, <1>4, <1>5 DEF AnswerInv

LEMMA CrashAnswer ==
    ASSUME LineInv, AnswerInv, Crash
    PROVE  AnswerInv'
  <1>1. /\ mem' = disk /\ processed' = disk.journal /\ waiting' = {}
        /\ UNCHANGED <<disk, told>> /\ \A p \in Procs : pc'[p] = "idle"
    BY CrashBooks
  <1>2. Behind' /\ Committed'
    BY <1>1 DEF Behind, Committed, CommittedAt, Approved, Allowed
  <1>3. Settled' /\ Answered'
    BY <1>1, BackedGrows DEF AnswerInv, Behind, Settled, Answered, Approved,
                             Allowed
  <1> QED BY <1>2, <1>3 DEF AnswerInv

LEMMA AnswerStep ==
    ASSUME Reliable, LineInv, JournalInv, AnswerInv, [Next]_vars
    PROVE  AnswerInv'
  <1>1. ASSUME NEW p \in Procs, NEW r \in Request, Arrive(p, r)
        PROVE  AnswerInv'
    <2>1. /\ UNCHANGED <<mem, disk, processed, waiting, told>>
          /\ pc[p] = "idle" /\ pc'[p] = "queued"
          /\ \A q \in Procs : q # p => pc'[q] = pc[q] /\ ctx'[q] = ctx[q]
      BY <1>1, ArriveBooks
    <2> QED BY <2>1, StillAnswered DEF SameBooks, Critical
  <1>2. ASSUME NEW p \in Procs, Handler(p)
        PROVE  AnswerInv'
    BY <1>2, HandlerAnswer
  <1>3. CASE ConnectRead \/ ConnectWrite \/ RefreshProof
    BY <1>3, BesideBooks, StillAnswered DEF JournalInv
  <1>4. CASE ResetWipe \/ ResetReload
    BY <1>4, NoReset DEF Reliable, JournalInv, Unreset
  <1>5. CASE Flush \/ FlushFails \/ Crash
    BY <1>5, FlushAnswer, CrashAnswer DEF Reliable, FlushFails
  <1>6. CASE UNCHANGED vars
    BY <1>6, StillAnswered DEF vars, SameBooks
  <1> QED BY <1>1, <1>2, <1>3, <1>4, <1>5, <1>6 DEF Next

\* Whatever a client was told finally is in the journal on file.
THEOREM AnswerInvariant ==
    ASSUME Reliable
    PROVE  Spec => []AnswerInv
  <1>1. LineInv /\ JournalInv /\ AnswerInv /\ [Next]_vars => AnswerInv'
    BY AnswerStep
  <1> QED BY AnswerInit, <1>1, JournalInvariant, LineInvariant, PTL DEF Spec

\* A client that was told its transition is committed finds the receipt on
\* file, whenever the process dies (storage.ts:135-140).
THEOREM ToldCommitIsOnFileHolds ==
    ASSUME Reliable
    PROVE  Spec => []ToldCommitIsOnFile
  <1>1. AnswerInv => ToldCommitIsOnFile
    <2> SUFFICES ASSUME AnswerInv, NEW d \in told, d.result = "ALLOW", ~d.pending
                 PROVE  \E i \in Allowed(disk.receipts) :
                            disk.receipts[i].req = d.req
      BY DEF ToldCommitIsOnFile
    <2>1. d.req \in Approved(disk.receipts)
      BY DEF AnswerInv, Answered, Backed
    <2> QED BY <2>1 DEF Approved
  <1> QED BY <1>1, AnswerInvariant, PTL

\* A request whose client was told it committed, or that it is pending, never
\* goes to the daemon again, however often it is retried and across restarts
\* (transition.ts:15-20).
THEOREM FinalAnswerNeverResubmittedHolds ==
    ASSUME Reliable
    PROVE  Spec => []FinalAnswerNeverResubmitted
  <1>1. JournalInv /\ AnswerInv => FinalAnswerNeverResubmitted
    <2> SUFFICES ASSUME JournalInv, AnswerInv, NEW p \in Procs,
                        pc[p] = "submit", NEW d \in told, d.req = ctx[p].req,
                        Final(d)
                 PROVE  FALSE
      BY DEF FinalAnswerNeverResubmitted
    <2>1. PICK x \in disk.journal : x.req = d.req
      BY DEF AnswerInv, Answered, Backed
    <2>2. x \in processed
      BY DEF AnswerInv, Behind
    <2>3. ctx[p].req \in Named(processed)
      BY <2>1, <2>2 DEF Named
    <2> QED BY <2>3 DEF JournalInv, Fresh, FreshAt, Open, Critical
  <1> QED BY <1>1, JournalInvariant, AnswerInvariant, PTL

\* A new answer is the answer of a receipt in the journal, or one of a request
\* the journal does not know.
LEMMA NewAnswer ==
    ASSUME Reliable, LineInv, JournalInv, NEW p \in Procs, Handler(p),
           NEW d \in told' \ told, d.req.action # "DRAW"
    PROVE  \/ \E x \in processed : d = Decision(x.req, x.result, x.pending)
           \/ d.req \notin Named(processed)
  <1>1. CASE Replay(p)
    <2>1. PICK x \in Journaled(p) :
            d = Decision(x.req, IF x.req.action = "DRAW" THEN "ALLOW"
                                ELSE x.result, x.pending)
      BY <1>1 DEF Replay
    <2>2. d.req = x.req
      BY <2>1 DEF Decision
    <2> QED BY <2>1, <2>2 DEF Journaled
  <1>2. CASE Reply(p)
    <2>1. /\ pc[p] = "reply"
          /\ d = Decision(ctx[p].req, ReceiptOf(p).result, ReceiptOf(p).pending)
      BY <1>2 DEF Reply
    <2>2. d.req = ctx[p].req
      BY <2>1 DEF Decision
    <2>3. CASE ctx[p].outcome \in {"ok", "pending"}
      <3>1. ReceiptOf(p) \in processed
        BY <2>1, <2>3 DEF Reliable, JournalInv, Fresh, FreshAt
      <3> QED BY <2>1, <3>1, ReceiptReq
    <2>4. CASE ctx[p].outcome \notin {"ok", "pending"}
      BY <2>1, <2>2, <2>4 DEF JournalInv, Fresh, FreshAt
    <2> QED BY <2>3, <2>4
  <1>3. CASE UNCHANGED told
    BY <1>3
  <1> QED BY <1>1, <1>2, <1>3 DEF Handler, Conflict, Begin, ReadProof, Attach,
                                  Submit, Note, Exit, Commit, Publish, Journal

\* The retry of a repay or unlock is answered as the original was
\* (repay/route.ts, unlock/route.ts: the journaled receipt is returned).
THEOREM RetryAnsweredAlikeHolds ==
    ASSUME Reliable
    PROVE  Spec => RetryAnsweredAlike
  <1>1. LineInv /\ JournalInv /\ AnswerInv /\ [Next]_vars =>
          [\A d \in told' \ told, e \in told :
             d.req = e.req /\ Final(e) /\ d.req.action # "DRAW" => d = e]_vars
    <2> SUFFICES ASSUME LineInv, JournalInv, AnswerInv, Next,
                        NEW d \in told' \ told, NEW e \in told, d.req = e.req,
                        Final(e), d.req.action # "DRAW"
                 PROVE  d = e
      OBVIOUS
    <2>1. PICK p \in Procs : Handler(p)
      BY DEF Next, Arrive, ConnectRead, ConnectWrite, RefreshProof, ResetWipe,
             ResetReload, Flush, FlushFails, Crash
    <2>2. PICK x \in disk.journal :
            x.req = e.req /\ e = Decision(x.req, x.result, x.pending)
      BY DEF AnswerInv, Answered, Backed
    <2>3. x \in processed /\ d.req \in Named(processed)
      BY <2>2 DEF AnswerInv, Behind, Named
    <2>4. PICK y \in processed : d = Decision(y.req, y.result, y.pending)
      BY <2>1, <2>3, NewAnswer
    <2>5. x = y
      BY <2>2, <2>3, <2>4 DEF Decision, JournalInv, OneJournal, Functional
    <2> QED BY <2>2, <2>4, <2>5
  <1> QED BY <1>1, JournalInvariant, LineInvariant, AnswerInvariant, PTL
          DEF Spec, RetryAnsweredAlike
-----------------------------------------------------------------------------
(* Nonces, debt and what is owed on file. *)

\* No write of connect or proof refresh comes between a commit and its
\* publication: sqlite does both in one synchronous stretch, and with the
\* JSON backend there must be none.
InStep ==
    Backend = "sqlite" \/ (Budget["connect"] = 0 /\ Budget["proof"] = 0)

\* What the theorems assume of the deployment: where a commit and its
\* publication may be torn apart, neither a crash nor a reset takes the cache
\* back to the database.
Orderly == InStep \/ (Budget["reset"] = 0 /\ Budget["crash"] = 0)

Below(receipts, nonce) ==
    \A i \in Allowed(receipts) : receipts[i].req.nonce < nonce

Distinct(receipts) ==
    \A i, j \in Allowed(receipts) :
        receipts[i].req.nonce = receipts[j].req.nonce => i = j

\* Every approved nonce is below that of the position; without a position
\* there is none.
Past(receipts, position) ==
    IF position = NoPosition THEN Allowed(receipts) = {}
    ELSE Below(receipts, position.nonce)

\* Events that may not happen have not begun.
Bounded ==
    /\ \A k \in Kinds : Budget[k] = 0 => budget[k] = 0
    /\ Budget["connect"] = 0 => ~conn.busy
    /\ Budget["reset"] = 0 => pc[Admin] = "idle"

\* In memory and on file, approved nonces are distinct, and past ones.
Filed ==
    /\ Distinct(mem.receipts) /\ Distinct(disk.receipts)
    /\ InStep => /\ Past(mem.receipts, mem.position)
                 /\ Past(disk.receipts, disk.position)

\* A request that may still commit presents a nonce nothing was approved for.
Unused ==
    \A p \in Procs :
        /\ pc[p] \in {"reading", "submit", "exit", "commit"} =>
             /\ ctx[p].req.nonce = ctx[p].cur.nonce
             /\ Below(mem.receipts, ctx[p].cur.nonce)
        /\ pc[p] \in {"attach", "note"} => ctx[p].outcome # "ok"
        /\ pc[p] = "publish" => Below(mem.receipts, ctx[p].cur.nonce + 1)

\* So does the cache, unless a commit is about to reach it.
Cached ==
    (\A p \in Procs : pc[p] # "publish") => Past(mem.receipts, cache)

NonceInv == Bounded /\ Filed /\ Unused /\ Cached

-----------------------------------------------------------------------------
(* Lemmas about the receipts and the operators.                            *)

LEMMA ReceiptNonce ==
    ASSUME NEW x \in Receipt
    PROVE  x.req \in Request /\ x.req.nonce \in Nat
  <1>1. x.req \in Request
    BY DEF Receipt
  <1> QED BY <1>1, RequestFields

LEMMA ReceiptNonces ==
    ASSUME NEW s \in Seq(Receipt), NEW i \in DOMAIN s
    PROVE  s[i].req.nonce \in Nat
  <1>1. s[i] \in Receipt
    OBVIOUS
  <1> QED BY <1>1, ReceiptNonce

LEMMA AppendApproval ==
    ASSUME NEW s \in Seq(Receipt), NEW x \in Receipt, Distinct(s),
           Below(s, x.req.nonce)
    PROVE  Distinct(Append(s, x)) /\ Below(Append(s, x), x.req.nonce + 1)
  <1> DEFINE t == Append(s, x)
  <1>1. /\ DOMAIN t = 1..(Len(s) + 1) /\ DOMAIN s = 1..Len(s)
        /\ t[Len(s) + 1] = x
        /\ \A i \in 1..Len(s) : t[i] = s[i]
    OBVIOUS
  <1>2. /\ \A i \in DOMAIN s : s[i].req.nonce \in Nat
        /\ x.req.nonce \in Nat
    BY ReceiptNonce, ReceiptNonces
  <1>3. \A i \in Allowed(t) : i = Len(s) + 1 \/ (i \in Allowed(s) /\ t[i] = s[i])
    BY <1>1 DEF Allowed
  <1> HIDE DEF t
  <1>4. \A i \in Allowed(s) : s[i].req.nonce < x.req.nonce /\ i \in DOMAIN s
    BY DEF Below, Allowed
  <1>5. Distinct(t)
    <2> SUFFICES ASSUME NEW i \in Allowed(t), NEW j \in Allowed(t),
                        t[i].req.nonce = t[j].req.nonce
                 PROVE  i = j
      BY DEF Distinct
    <2>1. CASE i = Len(s) + 1 /\ j = Len(s) + 1
      BY <2>1
    <2>2. CASE i # Len(s) + 1 /\ j # Len(s) + 1
      BY <1>3, <2>2 DEF Distinct
    <2>3. CASE i # Len(s) + 1 /\ j = Len(s) + 1
      <3>1. t[i].req.nonce < x.req.nonce /\ t[i].req.nonce \in Nat
        BY <1>2, <1>3, <1>4, <2>3
      <3> QED BY <1>1, <1>2, <2>3, <3>1
    <2>4. CASE i = Len(s) + 1 /\ j # Len(s) + 1
      <3>1. t[j].req.nonce < x.req.nonce /\ t[j].req.nonce \in Nat
        BY <1>2, <1>3, <1>4, <2>4
      <3> QED BY <1>1, <1>2, <2>4, <3>1
    <2> QED BY <2>1, <2>2, <2>3, <2>4
  <1>6. Below(t, x.req.nonce + 1)
    BY <1>1, <1>2, <1>3, <1>4 DEF Below
  <1> QED BY <1>5, <1>6 DEF t

LEMMA AppendRefusal ==
    ASSUME NEW s \in Seq(Receipt), NEW x \in Receipt, x.result # "ALLOW"
    PROVE  /\ Distinct(s) => Distinct(Append(s, x))
           /\ \A position : Past(s, position) => Past(Append(s, x), position)
  <1> DEFINE t == Append(s, x)
  <1>1. \A i \in Allowed(t) : i \in Allowed(s) /\ t[i] = s[i]
    BY DEF Allowed
  <1> HIDE DEF t
  <1>2. Distinct(s) => Distinct(t)
    BY <1>1 DEF Distinct
  <1>3. \A position : Past(s, position) => Past(t, position)
    BY <1>1 DEF Past, Below
  <1> QED BY <1>2, <1>3 DEF t

\* A smaller bound is a bound.
LEMMA BelowNext ==
    ASSUME NEW s \in Seq(Receipt), NEW n \in Nat, Below(s, n)
    PROVE  Below(s, n + 1)
  <1>1. \A i \in Allowed(s) : s[i].req.nonce \in Nat
    BY ReceiptNonces DEF Allowed
  <1> QED BY <1>1 DEF Below

LEMMA NoNone == \A x \in Position : x # NoPosition
  BY LedgerAssumption

\* Every transition advances the nonce by one.
LEMMA AdvancedNonce ==
    ASSUME LineInv, NEW p \in Procs, pc[p] \in Critical
    PROVE  Advanced(p).nonce = ctx[p].cur.nonce + 1
  <1>1. /\ ctx[p].req \in Request /\ ctx[p].cur \in Position
        /\ ctx[p].before \in Position
    BY DEF LineInv, Carries, Critical
  <1>2. ctx[p].req.action \in {"DRAW", "REPAY", "UNLOCK"}
    BY <1>1, RequestFields
  <1>3. CASE ctx[p].req.action = "DRAW"
    BY <1>1, <1>3 DEF Advanced, drawn, Position
  <1>4. CASE ctx[p].req.action = "REPAY"
    BY <1>1, <1>4 DEF Advanced, repaid, Position
  <1>5. CASE ctx[p].req.action = "UNLOCK"
    BY <1>1, <1>5 DEF Advanced, exited, Position
  <1> QED BY <1>2, <1>3, <1>4, <1>5

\* A write that keeps Filed.
LEMMA WriteFiled ==
    ASSUME Filed, NEW db \in Database, NEW who, Write(db, who),
           Distinct(db.receipts), InStep => Past(db.receipts, db.position)
    PROVE  Filed' /\ mem' = db
  <1>1. mem' = db /\ (disk' = disk \/ disk' = db)
    BY DEF Write
  <1> QED BY <1>1 DEF Filed, Distinct, Past, Below, Allowed

\* What holds of the nonce of a position holds of the position.
LEMMA PastPosition ==
    ASSUME NEW receipts, NEW position \in Position
    PROVE  Past(receipts, position) <=> Below(receipts, position.nonce)
  BY NoNone DEF Past

LEMMA HandlerBounded ==
    ASSUME LineInv, Bounded, NEW p \in Procs, NEW label, Goto(p, label),
           UNCHANGED <<conn, budget>>
    PROVE  Bounded'
  BY GotoPc DEF Bounded

\* When the step of one request under the lock has to be looked at only.
LEMMA OnlyMine ==
    ASSUME LineInv, NEW p \in Procs, pc[p] \in Critical \/ Entering(p),
           NEW label, Goto(p, label),
           label \in {"reading", "submit", "exit", "commit"} =>
             /\ ctx'[p].req.nonce = ctx'[p].cur.nonce
             /\ Below(mem'.receipts, ctx'[p].cur.nonce),
           label \in {"attach", "note"} => ctx'[p].outcome # "ok",
           label = "publish" => Below(mem'.receipts, ctx'[p].cur.nonce + 1)
    PROVE  Unused'
  <1>1. \A q \in Procs : pc'[q] = IF q = p THEN label ELSE pc[q]
    BY GotoPc
  <1>2. \A q \in Procs : q # p => pc[q] \notin Critical
    BY Alone
  <1> QED BY <1>1, <1>2 DEF Unused, Critical, Below, Allowed

-----------------------------------------------------------------------------
(* Each action keeps the invariant.                                        *)

LEMMA NonceInit == Init => NonceInv
  <1> SUFFICES ASSUME Init PROVE NonceInv
    OBVIOUS
  <1>1. cache \in Position
    BY OpenedType, LedgerAssumption DEF Init
  <1>2. Allowed(<<>>) = {}
    BY DEF Allowed
  <1>3. /\ mem.position = cache /\ mem.receipts = <<>> /\ disk = mem
        /\ budget = Budget /\ conn.busy = FALSE
        /\ \A a \in Actor : pc[a] = "idle"
    BY DEF Init, NoConnect
  <1>4. Bounded
    BY <1>3 DEF Bounded, Actor
  <1>5. Filed
    BY <1>1, <1>2, <1>3, NoNone DEF Filed, Distinct, Past, Below
  <1>6. Unused /\ Cached
    BY <1>1, <1>2, <1>3, NoNone DEF Unused, Cached, Past, Below, Actor
  <1> QED BY <1>4, <1>5, <1>6 DEF NonceInv

LEMMA ArriveNonce ==
    ASSUME LineInv, NonceInv, NEW p \in Procs, NEW r \in Request, Arrive(p, r)
    PROVE  NonceInv'
  <1>1. /\ \A q \in Procs : pc'[q] = IF q = p THEN "queued" ELSE pc[q]
        /\ pc'[Admin] = pc[Admin] /\ pc[p] = "idle"
    BY GotoPc DEF Arrive
  <1>2. UNCHANGED <<cache, mem, disk, conn>>
    BY DEF Arrive
  <1>3. \A k \in Kinds : Budget[k] = 0 => budget'[k] = 0
    BY DEF Arrive, Spend, NonceInv, Bounded, LineInv, TypeOK
  <1>4. \A q \in Procs : q # p => ctx'[q] = ctx[q]
    BY DEF Arrive, LineInv, TypeOK
  <1>5. Bounded'
    BY <1>1, <1>2, <1>3 DEF NonceInv, Bounded
  <1>6. Filed'
    BY <1>2 DEF NonceInv, Filed, Distinct, Past, Below, Allowed
  <1>7. Unused'
    BY <1>1, <1>2, <1>4 DEF NonceInv, Unused, Below, Allowed
  <1>8. Cached'
    BY <1>1, <1>2 DEF NonceInv, Cached, Past, Below, Allowed
  <1> QED BY <1>5, <1>6, <1>7, <1>8 DEF NonceInv

\* A request that leaves the lock without a write.
LEMMA LeaveNonce ==
    ASSUME LineInv, NonceInv, NEW p \in Procs, pc[p] # "publish",
           pc[p] \in Critical \/ Entering(p), Release(p),
           UNCHANGED <<cache, mem, disk, conn, budget>>
    PROVE  NonceInv'
  <1>1. Goto(p, "idle")
    BY DEF Release
  <1>2. Bounded'
    BY <1>1, HandlerBounded DEF NonceInv
  <1>3. Filed'
    BY DEF NonceInv, Filed, Distinct, Past, Below, Allowed
  <1>4. Unused'
    BY <1>1, OnlyMine
  <1>5. Cached'
    <2>1. \A q \in Procs : pc'[q] = IF q = p THEN "idle" ELSE pc[q]
      BY <1>1, GotoPc
    <2> QED BY <2>1 DEF NonceInv, Cached, Past, Below, Allowed
  <1> QED BY <1>2, <1>3, <1>4, <1>5 DEF NonceInv

LEMMA AnswerNonce ==
    ASSUME LineInv, NonceInv, NEW p \in Procs,
           Replay(p) \/ Conflict(p) \/ Reply(p)
    PROVE  NonceInv'
  <1>1. /\ pc[p] \in Critical \/ Entering(p)
        /\ pc[p] # "publish" /\ Release(p)
        /\ UNCHANGED <<cache, mem, disk, conn, budget>>
    BY DEF Replay, Conflict, Reply, Entering, Critical
  <1> QED BY <1>1, LeaveNonce

LEMMA BeginNonce ==
    ASSUME LineInv, NonceInv, NEW p \in Procs, Begin(p)
    PROVE  NonceInv'
  <1>1. /\ Entering(p) /\ pc[p] = "queued"
        /\ ctx[p].req.nonce = Current(p).nonce
        /\ UNCHANGED <<cache, processed, mem, disk, queue, waiting, conn, told,
                       budget>>
    BY DEF Begin, Entering
  <1> DEFINE o     == IF Refused(p) THEN "refused" ELSE "none"
             label == IF ctx[p].req.action = "DRAW" THEN "reading"
                      ELSE IF Refused(p) THEN "note" ELSE "submit"
  <1>2. /\ label \in {"reading", "note", "submit"}
        /\ label = "note" => o = "refused"
        /\ o \in {"refused", "none"}
        /\ Goto(p, label)
        /\ ctx' = [ctx EXCEPT ![p].cur = Current(p), ![p].outcome = o]
    BY DEF Begin
  <1> HIDE DEF o, label
  <1>3. /\ ctx'[p].cur = Current(p) /\ ctx'[p].outcome = o
        /\ ctx'[p].req = ctx[p].req
    BY <1>2 DEF LineInv, TypeOK, Context
  <1>4. Past(mem.receipts, cache)
    <2>1. \A q \in Procs : pc[q] # "publish"
      BY <1>1, Alone DEF Critical
    <2> QED BY <2>1 DEF NonceInv, Cached
  <1>5. Below(mem.receipts, Current(p).nonce)
    BY <1>4 DEF Current, Past, Below
  <1>6. Below(mem'.receipts, ctx'[p].cur.nonce)
    BY <1>1, <1>3, <1>5
  <1>7. Bounded'
    BY <1>1, <1>2, HandlerBounded DEF NonceInv
  <1>8. Filed'
    BY <1>1 DEF NonceInv, Filed, Distinct, Past, Below, Allowed
  <1>9. Unused'
    BY <1>1, <1>2, <1>3, <1>6, OnlyMine
  <1>10. Cached'
    BY <1>1, <1>4 DEF NonceInv, Cached, Past, Below, Allowed
  <1> QED BY <1>7, <1>8, <1>9, <1>10 DEF NonceInv

\* Saving a position.
LEMMA SaveNonce ==
    ASSUME LineInv, NonceInv, NEW position \in Position, NEW who,
           InStep => Below(mem.receipts, position.nonce),
           savePosition(position, who)
    PROVE  /\ Filed' /\ mem'.receipts = mem.receipts
           /\ cache' = position
           /\ Below(mem.receipts, position.nonce) => Cached'
  <1> DEFINE db == [mem EXCEPT !.position = position]
  <1>1. /\ db \in Database /\ db.position = position
        /\ db.receipts = mem.receipts
    BY DEF LineInv, TypeOK, Database
  <1>2. Write(db, who) /\ cache' = position
    BY DEF savePosition
  <1> HIDE DEF db
  <1>3. InStep => Past(db.receipts, db.position)
    BY <1>1, PastPosition
  <1>4. Filed' /\ mem' = db
    BY <1>1, <1>2, <1>3, WriteFiled DEF NonceInv, Filed
  <1>5. Below(mem.receipts, position.nonce) => Past(mem'.receipts, cache')
    BY <1>1, <1>2, <1>4, PastPosition
  <1>6. Past(mem'.receipts, cache') => Cached'
    BY DEF Cached, Past, Below, Allowed
  <1> QED BY <1>1, <1>2, <1>4, <1>5, <1>6

LEMMA FrozenNonce ==
    ASSUME NEW position \in Position
    PROVE  frozen(position).nonce = position.nonce
  BY DEF frozen, Position

\* A refusal under the lock: the position is frozen as it was read.
LEMMA FreezeNonce ==
    ASSUME LineInv, NonceInv, NEW p \in Procs, pc[p] \in {"reading", "submit"},
           NEW label \in {"attach", "note"}, Goto(p, label),
           savePosition(frozen(ctx[p].cur), {p}),
           ctx'[p].outcome # "ok", UNCHANGED <<conn, budget>>
    PROVE  NonceInv'
  <1>1. pc[p] \in Critical
    BY DEF Critical
  <1>2. frozen(ctx[p].cur) \in Position /\ ctx[p].cur \in Position
    BY <1>1, Writes DEF LineInv
  <1>3. Below(mem.receipts, frozen(ctx[p].cur).nonce)
    BY <1>2, FrozenNonce DEF NonceInv, Unused
  <1>4. Filed' /\ Cached'
    BY <1>2, <1>3, SaveNonce
  <1>5. Bounded'
    BY HandlerBounded DEF NonceInv
  <1>6. Unused'
    BY <1>1, OnlyMine
  <1> QED BY <1>4, <1>5, <1>6 DEF NonceInv

LEMMA ReadProofNonce ==
    ASSUME LineInv, NonceInv, NEW p \in Procs, ReadProof(p)
    PROVE  NonceInv'
  <1>1. /\ pc[p] = "reading" /\ pc[p] \in Critical
        /\ UNCHANGED <<processed, queue, conn, told, budget>>
    BY DEF ReadProof, Critical
  <1>2. \/ /\ Goto(p, "submit")
           /\ UNCHANGED <<cache, mem, disk, waiting, ctx>>
        \/ /\ savePosition(frozen(ctx[p].cur), {p})
           /\ ctx' = [ctx EXCEPT ![p].outcome = "refused"]
           /\ \E label \in {"note", "attach"} : Goto(p, label)
    BY DEF ReadProof
  <1>3. CASE Goto(p, "submit") /\ UNCHANGED <<cache, mem, disk, waiting, ctx>>
    <2>1. Unused'
      BY <1>1, <1>3, OnlyMine DEF NonceInv, Unused
    <2>2. Bounded'
      BY <1>1, <1>3, HandlerBounded DEF NonceInv
    <2>3. Filed'
      BY <1>3 DEF NonceInv, Filed, Distinct, Past, Below, Allowed
    <2>4. Cached'
      <3>1. \A q \in Procs : pc'[q] = IF q = p THEN "submit" ELSE pc[q]
        BY <1>3, GotoPc
      <3> QED BY <1>1, <1>3, <3>1 DEF NonceInv, Cached, Past, Below, Allowed
    <2> QED BY <2>1, <2>2, <2>3, <2>4 DEF NonceInv
  <1>4. CASE /\ savePosition(frozen(ctx[p].cur), {p})
             /\ ctx' = [ctx EXCEPT ![p].outcome = "refused"]
             /\ \E label \in {"note", "attach"} : Goto(p, label)
    <2>1. ctx'[p].outcome # "ok"
      BY <1>4 DEF LineInv, TypeOK, Context
    <2> QED BY <1>1, <1>4, <2>1, FreezeNonce
  <1> QED BY <1>2, <1>3, <1>4

LEMMA SubmitNonce ==
    ASSUME LineInv, NonceInv, NEW p \in Procs, Submit(p)
    PROVE  NonceInv'
  <1>1. /\ pc[p] = "submit" /\ pc[p] \in Critical
        /\ UNCHANGED <<processed, conn, told, budget>>
    BY DEF Submit, Critical
  <1>2. PICK o \in Outcomes :
          \/ /\ Goto(p, IF ctx[p].req.action = "UNLOCK" THEN "exit" ELSE "commit")
             /\ ctx' = [ctx EXCEPT ![p].outcome = o]
             /\ UNCHANGED <<cache, mem, disk, waiting, queue>>
          \/ /\ Release(p)
             /\ UNCHANGED <<cache, mem, disk, waiting>>
          \/ /\ o # "ok"
             /\ IF ctx[p].req.action = "DRAW"
                THEN savePosition(frozen(ctx[p].cur), {p})
                ELSE UNCHANGED <<cache, mem, disk, waiting>>
             /\ Goto(p, "note")
             /\ ctx' = [ctx EXCEPT ![p].outcome = o]
             /\ UNCHANGED queue
    BY DEF Submit
  <1>3. CASE /\ Goto(p, IF ctx[p].req.action = "UNLOCK" THEN "exit" ELSE "commit")
             /\ ctx' = [ctx EXCEPT ![p].outcome = o]
             /\ UNCHANGED <<cache, mem, disk, waiting, queue>>
    <2>1. PICK label \in {"exit", "commit"} : Goto(p, label)
      BY <1>3
    <2>2. ctx'[p].req = ctx[p].req /\ ctx'[p].cur = ctx[p].cur
      BY <1>3 DEF LineInv, TypeOK, Context
    <2>3. Unused'
      BY <1>1, <1>3, <2>1, <2>2, OnlyMine DEF NonceInv, Unused
    <2>4. Bounded'
      BY <1>1, <2>1, HandlerBounded DEF NonceInv
    <2>5. Filed'
      BY <1>3 DEF NonceInv, Filed, Distinct, Past, Below, Allowed
    <2>6. Cached'
      <3>1. \A q \in Procs : pc'[q] = IF q = p THEN label ELSE pc[q]
        BY <2>1, GotoPc
      <3> QED BY <1>1, <1>3, <3>1 DEF NonceInv, Cached, Past, Below, Allowed
    <2> QED BY <2>3, <2>4, <2>5, <2>6 DEF NonceInv
  <1>4. CASE Release(p) /\ UNCHANGED <<cache, mem, disk, waiting>>
    BY <1>1, <1>4, LeaveNonce
  <1>5. CASE /\ o # "ok"
             /\ IF ctx[p].req.action = "DRAW"
                THEN savePosition(frozen(ctx[p].cur), {p})
                ELSE UNCHANGED <<cache, mem, disk, waiting>>
             /\ Goto(p, "note")
             /\ ctx' = [ctx EXCEPT ![p].outcome = o]
             /\ UNCHANGED queue
    <2>1. ctx'[p].outcome # "ok"
      BY <1>5 DEF LineInv, TypeOK, Context
    <2>2. CASE ctx[p].req.action = "DRAW"
      BY <1>1, <1>5, <2>1, <2>2, FreezeNonce
    <2>3. CASE ctx[p].req.action # "DRAW"
      <3>1. UNCHANGED <<cache, mem, disk>>
        BY <1>5, <2>3
      <3>2. Unused'
        BY <1>1, <1>5, <2>1, OnlyMine
      <3>3. Bounded'
        BY <1>1, <1>5, HandlerBounded DEF NonceInv
      <3>4. Filed'
        BY <3>1 DEF NonceInv, Filed, Distinct, Past, Below, Allowed
      <3>5. Cached'
        <4>1. \A q \in Procs : pc'[q] = IF q = p THEN "note" ELSE pc[q]
          BY <1>5, GotoPc
        <4> QED BY <1>1, <3>1, <4>1 DEF NonceInv, Cached, Past, Below, Allowed
      <3> QED BY <3>2, <3>3, <3>4, <3>5 DEF NonceInv
    <2> QED BY <2>2, <2>3
  <1> QED BY <1>2, <1>3, <1>4, <1>5

\* With nobody publishing, what is cached has an unused nonce.
LEMMA CachedUnused ==
    ASSUME LineInv, NonceInv, NEW p \in Procs, pc[p] \in Critical,
           pc[p] # "publish"
    PROVE  Past(mem.receipts, cache)
  <1>1. \A q \in Procs : pc[q] # "publish"
    BY Alone DEF Critical
  <1> QED BY <1>1 DEF NonceInv, Cached

LEMMA AttachNonce ==
    ASSUME LineInv, NonceInv, NEW p \in Procs, Attach(p)
    PROVE  NonceInv'
  <1>1. /\ pc[p] = "attach" /\ pc[p] \in Critical
        /\ UNCHANGED <<cache, processed, conn, told, budget>>
    BY DEF Attach, Critical
  <1>2. CASE Release(p) /\ UNCHANGED <<mem, disk, waiting>>
    BY <1>1, <1>2, LeaveNonce
  <1>3. CASE /\ Write([mem EXCEPT !.position = cache], {p})
             /\ Goto(p, "note") /\ UNCHANGED <<queue, ctx>>
    <2> DEFINE db == [mem EXCEPT !.position = cache]
    <2>1. Past(mem.receipts, cache)
      BY <1>1, CachedUnused
    <2>2. db \in Database /\ db.position = cache /\ db.receipts = mem.receipts
      BY DEF LineInv, TypeOK, Database
    <2>3. Write(db, {p})
      BY <1>3
    <2> HIDE DEF db
    <2>4. Filed' /\ mem' = db
      BY <2>1, <2>2, <2>3, WriteFiled DEF NonceInv, Filed
    <2>5. Unused'
      BY <1>1, <1>3, OnlyMine DEF NonceInv, Unused
    <2>6. Bounded'
      BY <1>1, <1>3, HandlerBounded DEF NonceInv
    <2>7. Cached'
      BY <1>1, <2>1, <2>2, <2>4 DEF Cached, Past, Below, Allowed
    <2> QED BY <2>4, <2>5, <2>6, <2>7 DEF NonceInv
  <1> QED BY <1>2, <1>3 DEF Attach

LEMMA NoteNonce ==
    ASSUME LineInv, NonceInv, NEW p \in Procs, Note(p)
    PROVE  NonceInv'
  <1>1. /\ pc[p] = "note" /\ pc[p] \in Critical
        /\ UNCHANGED <<cache, processed, queue, ctx, conn, told, budget>>
    BY DEF Note, Critical
  <1>2. PICK label \in {"journal", "reply"} : Goto(p, label)
    BY DEF Note
  <1>3. ReceiptOf(p) \in Receipt /\ ReceiptOf(p).result # "ALLOW"
    BY <1>1, Writes DEF LineInv, NonceInv, Unused, ReceiptOf
  <1> DEFINE db == [mem EXCEPT !.receipts = Append(@, ReceiptOf(p))]
             grown == Append(mem.receipts, ReceiptOf(p))
  <1>4. /\ mem \in Database /\ mem.receipts \in Seq(Receipt)
        /\ grown \in Seq(Receipt)
    BY <1>3 DEF LineInv, TypeOK, Database
  <1>5. /\ Distinct(grown)
        /\ \A position : Past(mem.receipts, position) => Past(grown, position)
    BY <1>3, <1>4, AppendRefusal DEF NonceInv, Filed
  <1>6. Write(db, {p})
    BY DEF Note
  <1> HIDE DEF grown
  <1>7. db \in Database /\ db.position = mem.position /\ db.receipts = grown
    BY <1>4 DEF Database, grown
  <1> HIDE DEF db
  <1>8. Filed' /\ mem' = db
    BY <1>5, <1>6, <1>7, WriteFiled DEF NonceInv, Filed
  <1>9. Unused'
    BY <1>1, <1>2, OnlyMine
  <1>10. Bounded'
    BY <1>1, <1>2, HandlerBounded DEF NonceInv
  <1>11. Cached'
    <2>1. Past(mem'.receipts, cache)
      BY <1>1, <1>5, <1>7, <1>8, CachedUnused
    <2> QED BY <1>1, <2>1 DEF Cached, Past, Below, Allowed
  <1> QED BY <1>8, <1>9, <1>10, <1>11 DEF NonceInv

LEMMA ExitNonce ==
    ASSUME LineInv, NonceInv, NEW p \in Procs, Exit(p)
    PROVE  NonceInv'
  <1>1. /\ pc[p] = "exit" /\ pc[p] \in Critical
        /\ savePosition(Advanced(p), {p}) /\ Goto(p, "commit")
        /\ UNCHANGED <<processed, queue, ctx, conn, told, budget>>
    BY DEF Exit, Critical
  <1>2. /\ Advanced(p) \in Position /\ Advanced(p).nonce = ctx[p].cur.nonce + 1
        /\ ctx[p].cur.nonce \in Nat /\ mem.receipts \in Seq(Receipt)
    BY <1>1, Writes, AdvancedNonce DEF LineInv, TypeOK, Database, Position
  <1>3. Below(mem.receipts, Advanced(p).nonce)
    BY <1>1, <1>2, BelowNext DEF NonceInv, Unused
  <1>4. Filed' /\ mem'.receipts = mem.receipts
    BY <1>1, <1>2, <1>3, SaveNonce
  <1>5. Cached'
    BY <1>1, <1>2, <1>3, SaveNonce
  <1>6. Unused'
    BY <1>1, <1>4, OnlyMine DEF NonceInv, Unused
  <1>7. Bounded'
    BY <1>1, HandlerBounded DEF NonceInv
  <1> QED BY <1>4, <1>5, <1>6, <1>7 DEF NonceInv

LEMMA CommitNonce ==
    ASSUME LineInv, NonceInv, NEW p \in Procs, Commit(p)
    PROVE  NonceInv'
  <1>1. /\ pc[p] = "commit" /\ pc[p] \in Critical /\ Goto(p, "publish")
        /\ UNCHANGED <<cache, processed, queue, ctx, conn, told, budget>>
    BY DEF Commit, Critical
  <1>2. /\ Advanced(p) \in Position /\ Advanced(p).nonce = ctx[p].cur.nonce + 1
        /\ ReceiptOf(p) \in Receipt /\ mem.receipts \in Seq(Receipt)
    BY <1>1, Writes, AdvancedNonce DEF LineInv, TypeOK, Database
  <1>3. ReceiptOf(p).req.nonce = ctx[p].cur.nonce
    BY <1>1 DEF ReceiptOf, NonceInv, Unused
  <1> DEFINE db == [mem EXCEPT !.position = Advanced(p),
                               !.receipts = Append(@, ReceiptOf(p))]
             grown == Append(mem.receipts, ReceiptOf(p))
  <1>4. Distinct(grown) /\ Below(grown, ctx[p].cur.nonce + 1)
    <2>1. Distinct(mem.receipts) /\ Below(mem.receipts, ReceiptOf(p).req.nonce)
      BY <1>1, <1>3 DEF NonceInv, Filed, Unused
    <2>2. /\ Distinct(grown)
          /\ Below(grown, ReceiptOf(p).req.nonce + 1)
      BY <1>2, <2>1, AppendApproval
    <2> QED BY <1>3, <2>2
  <1>5. Write(db, {p})
    BY DEF Commit
  <1>6. grown \in Seq(Receipt) /\ mem \in Database
    BY <1>2 DEF LineInv, TypeOK
  <1> HIDE DEF grown
  <1>7. db \in Database /\ db.position = Advanced(p) /\ db.receipts = grown
    BY <1>2, <1>6 DEF Database, grown
  <1> HIDE DEF db
  <1>8. Filed' /\ mem' = db
    BY <1>2, <1>4, <1>5, <1>7, PastPosition, WriteFiled DEF NonceInv
  <1>9. Below(mem'.receipts, ctx'[p].cur.nonce + 1)
    BY <1>1, <1>4, <1>7, <1>8
  <1>10. Unused'
    BY <1>1, <1>9, OnlyMine
  <1>11. Bounded'
    BY <1>1, HandlerBounded DEF NonceInv
  <1>12. Cached'
    <2>1. pc'[p] = "publish"
      BY <1>1, GotoPc
    <2> QED BY <1>1, <2>1 DEF NonceInv, Cached
  <1> QED BY <1>8, <1>10, <1>11, <1>12 DEF NonceInv

\* Journaling touches neither position nor receipts.
LEMMA RememberNonce ==
    ASSUME LineInv, NonceInv, NEW p \in Procs, pc[p] \in Critical,
           rememberProcessedDraw(p), Goto(p, "reply"),
           UNCHANGED <<queue, ctx, conn, told, budget>>
    PROVE  /\ Filed' /\ Unused' /\ Bounded'
           /\ mem'.receipts = mem.receipts
  <1> DEFINE db == [mem EXCEPT !.journal = remembered(@, ReceiptOf(p))]
  <1>1. Write(db, {p})
    BY DEF rememberProcessedDraw
  <1>2. ReceiptOf(p) \in Receipt
    BY Writes DEF LineInv
  <1>3. /\ db \in Database /\ db.position = mem.position
        /\ db.receipts = mem.receipts
    BY <1>2 DEF LineInv, TypeOK, Database, remembered
  <1> HIDE DEF db
  <1>4. Filed' /\ mem' = db
    BY <1>1, <1>3, WriteFiled DEF NonceInv, Filed
  <1>5. Unused'
    BY OnlyMine
  <1>6. Bounded'
    BY HandlerBounded DEF NonceInv
  <1> QED BY <1>3, <1>4, <1>5, <1>6

LEMMA PublishNonce ==
    ASSUME LineInv, NonceInv, NEW p \in Procs, Publish(p)
    PROVE  NonceInv'
  <1>1. /\ pc[p] = "publish" /\ pc[p] \in Critical /\ cache' = Advanced(p)
        /\ rememberProcessedDraw(p) /\ Goto(p, "reply")
        /\ UNCHANGED <<queue, ctx, conn, told, budget>>
    BY DEF Publish, Critical
  <1>2. /\ Filed' /\ Unused' /\ Bounded' /\ mem'.receipts = mem.receipts
    BY <1>1, RememberNonce
  <1>3. /\ Advanced(p) \in Position /\ Advanced(p) # NoPosition
        /\ Advanced(p).nonce = ctx[p].cur.nonce + 1
    BY <1>1, Writes, AdvancedNonce, NoNone DEF LineInv
  <1>4. Below(mem.receipts, Advanced(p).nonce)
    BY <1>1, <1>3 DEF NonceInv, Unused
  <1>5. Cached'
    BY <1>1, <1>2, <1>3, <1>4 DEF Cached, Past, Below, Allowed
  <1> QED BY <1>2, <1>5 DEF NonceInv

LEMMA JournalNonce ==
    ASSUME LineInv, NonceInv, NEW p \in Procs, Journal(p)
    PROVE  NonceInv'
  <1>1. /\ pc[p] = "journal" /\ pc[p] \in Critical /\ UNCHANGED cache
        /\ rememberProcessedDraw(p) /\ Goto(p, "reply")
        /\ UNCHANGED <<queue, ctx, conn, told, budget>>
    BY DEF Journal, Critical
  <1>2. /\ Filed' /\ Unused' /\ Bounded' /\ mem'.receipts = mem.receipts
    BY <1>1, RememberNonce
  <1>3. Past(mem.receipts, cache)
    BY <1>1, CachedUnused
  <1>4. Cached'
    BY <1>1, <1>2, <1>3 DEF NonceInv, Cached, Past, Below, Allowed
  <1> QED BY <1>2, <1>4 DEF NonceInv

LEMMA HandlerNonce ==
    ASSUME LineInv, NonceInv, NEW p \in Procs, Handler(p)
    PROVE  NonceInv'
  BY AnswerNonce, BeginNonce, ReadProofNonce, AttachNonce, SubmitNonce,
     NoteNonce, ExitNonce, CommitNonce, PublishNonce, JournalNonce DEF Handler

\* A writer beside the locked routes never writes, where it counts, while a
\* commit waits to be published.
LEMMA BesideNonce ==
    ASSUME LineInv, NonceInv, InStep, Undisturbed,
           Budget["connect"] # 0 \/ Budget["proof"] # 0
    PROVE  Past(mem.receipts, cache)
  <1>1. Backend = "sqlite"
    BY DEF InStep
  <1>2. \A q \in Procs : pc[q] # "publish"
    BY <1>1 DEF Undisturbed, Yielding, Actor
  <1> QED BY <1>2 DEF NonceInv, Cached

LEMMA ReconnectedNonce ==
    ASSUME NEW position \in Position, NEW n \in Nat
    PROVE  reconnected(position, n).nonce = position.nonce
  BY DEF reconnected, Position

LEMMA ConnectWriteNonce ==
    ASSUME LineInv, NonceInv, ConnectWrite
    PROVE  NonceInv'
  <1>1. /\ conn.busy /\ conn' = NoConnect /\ Undisturbed
        /\ UNCHANGED <<processed, queue, pc, ctx, told, budget>>
    BY DEF ConnectWrite
  <1>2. Bounded'
    BY <1>1 DEF NonceInv, Bounded, NoConnect
  <1>3. CASE UNCHANGED <<cache, mem, disk, waiting>>
    BY <1>1, <1>2, <1>3 DEF NonceInv, Filed, Distinct, Unused, Cached, Past,
                            Below, Allowed
  <1>4. ASSUME NEW position \in Position, savePosition(position, {}),
               Past(mem.receipts, cache) => Below(mem.receipts, position.nonce)
        PROVE  NonceInv'
    <2>1. InStep => Past(mem.receipts, cache)
      <3>1. Budget["connect"] # 0
        BY <1>1 DEF NonceInv, Bounded
      <3> QED BY <1>1, <3>1, BesideNonce
    <2>2. /\ Filed' /\ mem'.receipts = mem.receipts /\ cache' = position
          /\ Below(mem.receipts, position.nonce) => Cached'
      BY <1>4, <2>1, SaveNonce
    <2>3. Unused'
      BY <1>1, <2>2 DEF NonceInv, Unused, Below, Allowed
    <2>4. Cached'
      BY <1>1, <1>4, <2>2 DEF NonceInv, Cached
    <2> QED BY <1>2, <2>2, <2>3, <2>4 DEF NonceInv
  <1>5. conn.collateral \in Nat /\ cache \in Position \cup {NoPosition}
    BY DEF LineInv, TypeOK
  <1>6. CASE /\ cache # NoPosition
             /\ savePosition(reconnected(cache, conn.collateral), {})
    <2>1. /\ reconnected(cache, conn.collateral) \in Position
          /\ reconnected(cache, conn.collateral).nonce = cache.nonce
      BY <1>5, <1>6, PositionOps, ReconnectedNonce
    <2> QED BY <1>4, <1>6, <2>1 DEF Past
  <1>7. CASE cache = NoPosition /\ savePosition(opened(conn.collateral), {})
    <2>1. opened(conn.collateral) \in Position
      BY <1>5, OpenedType
    <2> QED BY <1>4, <1>7, <2>1 DEF Past, Below
  <1> QED BY <1>3, <1>6, <1>7 DEF ConnectWrite

LEMMA ConnectReadNonce ==
    ASSUME LineInv, NonceInv, ConnectRead
    PROVE  NonceInv'
  <1>1. UNCHANGED <<cache, processed, mem, disk, queue, pc, waiting, ctx, told>>
    BY DEF ConnectRead
  <1>2. /\ \A k \in Kinds : Budget[k] = 0 => budget'[k] = 0
        /\ Budget["connect"] # 0
    BY DEF ConnectRead, Spend, NonceInv, Bounded, LineInv, TypeOK, Kinds
  <1>3. Bounded'
    BY <1>1, <1>2 DEF NonceInv, Bounded
  <1> QED BY <1>1, <1>3 DEF NonceInv, Filed, Distinct, Unused, Cached, Past,
                            Below, Allowed

LEMMA RefreshProofNonce ==
    ASSUME LineInv, NonceInv, RefreshProof
    PROVE  NonceInv'
  <1>1. /\ Undisturbed /\ UNCHANGED <<cache, processed, queue, pc, ctx, conn, told>>
        /\ Write([mem EXCEPT !.position = cache], {})
    BY DEF RefreshProof
  <1>2. /\ \A k \in Kinds : Budget[k] = 0 => budget'[k] = 0
        /\ Budget["proof"] # 0
    BY DEF RefreshProof, Spend, NonceInv, Bounded, LineInv, TypeOK, Kinds
  <1>3. Bounded'
    BY <1>1, <1>2 DEF NonceInv, Bounded
  <1> DEFINE db == [mem EXCEPT !.position = cache]
  <1>4. db \in Database /\ db.position = cache /\ db.receipts = mem.receipts
    BY DEF LineInv, TypeOK, Database
  <1>5. Write(db, {})
    BY <1>1
  <1> HIDE DEF db
  <1>6. InStep => Past(mem.receipts, cache)
    BY <1>1, <1>2, BesideNonce
  <1>7. Filed' /\ mem' = db
    BY <1>4, <1>5, <1>6, WriteFiled DEF NonceInv, Filed, Cached
  <1> QED BY <1>1, <1>3, <1>4, <1>7 DEF NonceInv, Unused, Cached, Past, Below, Allowed

\* A reset leaves nothing to be past; the reload that ends it takes what the
\* database has.
LEMMA ResetNonce ==
    ASSUME LineInv, JournalInv, NonceInv, Orderly, ResetWipe \/ ResetReload
    PROVE  NonceInv'
  <1>1. Budget["reset"] # 0 /\ InStep
    BY ResetBooks DEF Orderly
  <1>2. /\ UNCHANGED <<conn, ctx>>
        /\ \A p \in Procs : pc'[p] = pc[p]
    BY ResetBooks
  <1>3. \A k \in Kinds : Budget[k] = 0 => budget'[k] = 0
    BY BudgetFalls DEF NonceInv, Bounded, Next
  <1>4. Bounded'
    BY <1>1, <1>2, <1>3 DEF NonceInv, Bounded
  <1>5. CASE /\ mem'.receipts = <<>> /\ mem'.position = NoPosition
             /\ cache' = NoPosition
             /\ disk' = disk \/ disk' = mem'
    <2>1. Allowed(mem'.receipts) = {}
      BY <1>5 DEF Allowed
    <2>2. Filed'
      BY <1>5, <2>1 DEF NonceInv, Filed, Distinct, Past, Below, Allowed
    <2>3. Unused'
      BY <1>2, <2>1 DEF NonceInv, Unused, Below, Allowed
    <2>4. Cached'
      BY <1>5, <2>1 DEF Cached, Past, Allowed
    <2> QED BY <1>4, <2>2, <2>3, <2>4 DEF NonceInv
  <1>6. CASE /\ UNCHANGED <<mem, disk>>
             /\ cache' = IF mem.position = NoPosition THEN cache
                         ELSE mem.position
    <2>1. Filed' /\ Unused'
      BY <1>2, <1>6 DEF NonceInv, Filed, Distinct, Unused, Past, Below, Allowed
    <2>2. Cached'
      BY <1>1, <1>2, <1>6 DEF NonceInv, Filed, Cached, Past, Below, Allowed
    <2> QED BY <1>4, <2>1, <2>2 DEF NonceInv
  <1> QED BY <1>5, <1>6, ResetBooks

LEMMA FileNonce ==
    ASSUME LineInv, NonceInv, Flush \/ FlushFails
    PROVE  NonceInv'
  <1>1. /\ UNCHANGED <<cache, processed, mem, queue, pc, ctx, conn, told, budget>>
        /\ disk' \in {mem, disk}
    BY DEF Flush, FlushFails
  <1> QED BY <1>1 DEF NonceInv, Bounded, Filed, Distinct, Unused, Cached, Past,
                      Below, Allowed

LEMMA CrashNonce ==
    ASSUME LineInv, NonceInv, Orderly, Crash
    PROVE  NonceInv'
  <1>1. /\ mem' = disk /\ cache' = disk.position /\ UNCHANGED disk
        /\ pc' = [a \in Actor |-> "idle"] /\ conn' = NoConnect
    BY DEF Crash
  <1>2. /\ \A k \in Kinds : Budget[k] = 0 => budget'[k] = 0
        /\ Budget["crash"] # 0
    BY DEF Crash, Spend, NonceInv, Bounded, LineInv, TypeOK, Kinds
  <1>3. InStep
    BY <1>2 DEF Orderly
  <1>4. \A a \in Actor : pc'[a] = "idle"
    BY <1>1
  <1>5. Bounded'
    BY <1>1, <1>2, <1>4 DEF Bounded, NoConnect, Actor
  <1>6. Filed'
    BY <1>1 DEF NonceInv, Filed, Distinct, Past, Below, Allowed
  <1>7. Unused'
    BY <1>4 DEF Unused, Actor
  <1>8. Cached'
    BY <1>1, <1>3 DEF NonceInv, Filed, Cached, Past, Below, Allowed
  <1> QED BY <1>5, <1>6, <1>7, <1>8 DEF NonceInv

LEMMA NonceStep ==
    ASSUME Orderly, LineInv, JournalInv, NonceInv, [Next]_vars
    PROVE  NonceInv'
  <1>1. ASSUME NEW p \in Procs, NEW r \in Request, Arrive(p, r)
        PROVE  NonceInv'
    BY <1>1, ArriveNonce
  <1>2. ASSUME NEW p \in Procs, Handler(p)
        PROVE  NonceInv'
    BY <1>2, HandlerNonce
  <1>3. CASE ConnectRead \/ ConnectWrite \/ RefreshProof
    BY <1>3, ConnectReadNonce, ConnectWriteNonce, RefreshProofNonce
  <1>4. CASE ResetWipe \/ ResetReload
    BY <1>4, ResetNonce
  <1>5. CASE Flush \/ FlushFails \/ Crash
    BY <1>5, FileNonce, CrashNonce
  <1>6. CASE UNCHANGED vars
    BY <1>6 DEF vars, NonceInv, Bounded, Filed, Distinct, Unused, Cached, Past,
                Below, Allowed
  <1> QED BY <1>1, <1>2, <1>3, <1>4, <1>5, <1>6 DEF Next

-----------------------------------------------------------------------------
\* The inductive invariant holds in every behaviour of an orderly deployment.
THEOREM NonceInvariant ==
    ASSUME Orderly
    PROVE  Spec => []NonceInv
  <1>1. LineInv /\ JournalInv /\ NonceInv /\ [Next]_vars => NonceInv'
    BY NonceStep
  <1> QED BY NonceInit, <1>1, LineInvariant, JournalInvariant, PTL DEF Spec

\* No nonce ever approves two transitions (store.ts:40-43, covenant.ts:62),
\* whatever the daemon answers and however often a request is retried.
THEOREM OneAllowPerNonceHolds ==
    ASSUME Orderly
    PROVE  Spec => []OneAllowPerNonce
  <1>1. NonceInv => OneAllowPerNonce
    BY DEF NonceInv, Filed, Distinct, OneAllowPerNonce
  <1> QED BY NonceInvariant, <1>1, PTL

\* At every moment, so whenever the process dies, the nonce on file is past
\* every approved nonce on file: a restart re-admits none of them
\* (draw/route.ts:188-189, store.ts:147-151).
THEOREM FileNonceIsPastReceiptsHolds ==
    ASSUME InStep
    PROVE  Spec => []FileNonceIsPastReceipts
  <1>1. NonceInv => FileNonceIsPastReceipts
    BY DEF NonceInv, Filed, Past, Below, FileNonceIsPastReceipts
  <1>2. Spec => []NonceInv
    BY NonceInvariant DEF Orderly
  <1> QED BY <1>1, <1>2, PTL

-----------------------------------------------------------------------------
(* What a step writes.                                                     *)

\* The position is nowhere missing.
Present ==
    /\ cache # NoPosition /\ mem.position # NoPosition
    /\ disk.position # NoPosition

Unlocking(p) == ctx[p].req.action = "UNLOCK"

SameContext(p) ==
    /\ ctx'[p].req = ctx[p].req /\ ctx'[p].cur = ctx[p].cur
    /\ ctx'[p].before = ctx[p].before

LEMMA OutcomeContext ==
    ASSUME LineInv, NEW p \in Procs, NEW o,
           ctx' = ctx \/ ctx' = [ctx EXCEPT ![p].outcome = o]
    PROVE  SameContext(p)
  BY OwnContext DEF SameContext

LEMMA SameAdvanced ==
    ASSUME NEW p \in Procs, SameContext(p)
    PROVE  /\ Advanced(p)' = Advanced(p) /\ Unlocking(p)' = Unlocking(p)
  BY DEF SameContext, Advanced, Unlocking, drawn, repaid, repayable, exited

\* Where a handler goes, and from where.
LEMMA HandlerGoes ==
    ASSUME LineInv, NEW p \in Procs, Handler(p)
    PROVE  /\ pc'[p] \in Critical \cup {"idle"}
           /\ pc'[p] \in {"reading", "submit"} =>
                \/ Begin(p)
                \/ /\ pc[p] = "reading" /\ pc'[p] = "submit"
                   /\ SameContext(p) /\ UNCHANGED cache
           /\ pc'[p] = "exit" =>
                /\ pc[p] = "submit" /\ Unlocking(p)
                /\ SameContext(p) /\ UNCHANGED cache
           /\ pc'[p] = "commit" =>
                \/ /\ pc[p] = "submit" /\ ~Unlocking(p)
                   /\ assertPositionInvariants(Advanced(p))
                   /\ SameContext(p) /\ UNCHANGED cache
                \/ /\ pc[p] = "exit" /\ cache' = Advanced(p)
                   /\ SameContext(p)
           /\ pc'[p] = "publish" =>
                /\ pc[p] = "commit" /\ SameContext(p) /\ UNCHANGED cache
  <1>1. pc'[p] \in Critical \cup {"idle"}
    BY HandlerEntry, GotoPc
  <1>2. CASE pc'[p] \in {"idle", "attach", "note", "journal", "reply"}
    BY <1>1, <1>2
  <1>3. ASSUME NEW label \in {"idle", "attach", "note", "journal", "reply"},
               Goto(p, label)
        PROVE  pc'[p] \in {"idle", "attach", "note", "journal", "reply"}
    BY <1>3, GotoPc
  <1>4. CASE Replay(p) \/ Conflict(p) \/ Attach(p) \/ Reply(p)
    BY <1>2, <1>3, <1>4 DEF Replay, Conflict, Attach, Reply, Release
  <1>5. CASE Note(p) \/ Journal(p) \/ Publish(p)
    BY <1>2, <1>3, <1>5 DEF Note, Journal, Publish
  <1>6. CASE Begin(p)
    <2>1. pc'[p] \in {"reading", "note", "submit"}
      BY <1>6, GotoPc DEF Begin
    <2> QED BY <1>1, <1>6, <2>1
  <1>7. CASE ReadProof(p)
    <2>1. CASE Goto(p, "submit") /\ UNCHANGED <<cache, ctx>>
      <3>1. pc'[p] = "submit" /\ pc[p] = "reading" /\ SameContext(p)
        BY <1>7, <2>1, GotoPc DEF ReadProof, SameContext
      <3> QED BY <1>1, <2>1, <3>1
    <2>2. CASE \E label \in {"note", "attach"} : Goto(p, label)
      BY <1>2, <1>3, <2>2
    <2> QED BY <1>7, <2>1, <2>2 DEF ReadProof
  <1>8. CASE Submit(p)
    <2>1. pc[p] = "submit"
      BY <1>8 DEF Submit
    <2>2. CASE \E label \in {"note", "idle"} : Goto(p, label)
      BY <1>2, <1>3, <2>2
    <2>3. ASSUME NEW o \in Outcomes,
                 Unlocking(p) \/ assertPositionInvariants(Advanced(p)),
                 Goto(p, IF Unlocking(p) THEN "exit" ELSE "commit"),
                 ctx' = [ctx EXCEPT ![p].outcome = o], UNCHANGED cache
          PROVE  \/ pc'[p] = "exit" /\ Unlocking(p) /\ SameContext(p)
                 \/ /\ pc'[p] = "commit" /\ ~Unlocking(p) /\ SameContext(p)
                    /\ assertPositionInvariants(Advanced(p))
      BY <2>3, GotoPc, OutcomeContext
    <2>4. CASE \E o \in Outcomes :
                 /\ Unlocking(p) \/ assertPositionInvariants(Advanced(p))
                 /\ Goto(p, IF Unlocking(p) THEN "exit" ELSE "commit")
                 /\ ctx' = [ctx EXCEPT ![p].outcome = o]
                 /\ UNCHANGED cache
      BY <1>1, <2>1, <2>3, <2>4
    <2> QED BY <1>8, <2>2, <2>4 DEF Submit, Release, Unlocking
  <1>9. CASE Exit(p)
    BY <1>1, <1>9, GotoPc DEF Exit, savePosition, SameContext
  <1>10. CASE Commit(p)
    BY <1>1, <1>10, GotoPc DEF Commit, SameContext
  <1> QED BY <1>4, <1>5, <1>6, <1>7, <1>8, <1>9, <1>10 DEF Handler

\* A database write reaches the file now or later.
LEMMA WriteReach ==
    ASSUME NEW db, NEW who, Write(db, who)
    PROVE  mem' = db /\ disk' \in {mem', disk}
  BY DEF Write

LEMMA PositionWrite ==
    ASSUME TypeOK, NEW x, NEW who, Write([mem EXCEPT !.position = x], who)
    PROVE  /\ mem'.position = x /\ mem'.receipts = mem.receipts
           /\ disk' \in {mem', disk}
  <1> DEFINE db == [mem EXCEPT !.position = x]
  <1>1. db.position = x /\ db.receipts = mem.receipts
    BY DEF TypeOK, Database
  <1>2. Write(db, who)
    OBVIOUS
  <1> HIDE DEF db
  <1> QED BY <1>1, <1>2, WriteReach

\* What a handler writes.  The first disjunct writes no position, the second
\* what the cache holds afterwards; then come the two that add a receipt.
Keeps(p) ==
    /\ pc[p] # "commit"
    /\ mem'.position = mem.position /\ mem'.receipts = mem.receipts
    /\ UNCHANGED cache \/ (pc[p] = "publish" /\ cache' = Advanced(p))

Saves(p) ==
    /\ mem'.position = cache' /\ mem'.receipts = mem.receipts
    /\ \/ pc[p] = "attach" /\ UNCHANGED cache
       \/ pc[p] \in {"reading", "submit"} /\ cache' = frozen(ctx[p].cur)
       \/ pc[p] = "exit" /\ cache' = Advanced(p)

Notes(p) ==
    /\ pc[p] = "note" /\ UNCHANGED cache
    /\ mem'.position = mem.position
    /\ mem'.receipts = Append(mem.receipts, ReceiptOf(p))

Commits(p) ==
    /\ pc[p] = "commit" /\ pc'[p] = "publish"
    /\ SameContext(p) /\ UNCHANGED cache
    /\ mem'.position = Advanced(p)
    /\ mem'.receipts = Append(mem.receipts, ReceiptOf(p))

LEMMA HandlerEffect ==
    ASSUME LineInv, NEW p \in Procs, Handler(p)
    PROVE  /\ Keeps(p) \/ Saves(p) \/ Notes(p) \/ Commits(p)
           /\ disk' \in {mem', disk}
           /\ pc[p] = "publish" => Publish(p) /\ cache' = Advanced(p)
  <1>1. CASE /\ UNCHANGED <<cache, mem, disk>> /\ pc[p] \notin {"publish", "commit"}
    BY <1>1 DEF Keeps
  <1>2. CASE Replay(p) \/ Conflict(p) \/ Begin(p) \/ Reply(p)
    BY <1>1, <1>2 DEF Replay, Conflict, Begin, Reply, Entering
  <1>3. ASSUME NEW who, pc[p] \in {"reading", "submit"},
               savePosition(frozen(ctx[p].cur), who)
        PROVE  Saves(p) /\ disk' \in {mem', disk}
    BY <1>3, PositionWrite DEF savePosition, Saves, LineInv
  <1>4. CASE ReadProof(p)
    BY <1>1, <1>3, <1>4 DEF ReadProof
  <1>5. CASE Submit(p)
    BY <1>1, <1>3, <1>5 DEF Submit
  <1>6. CASE Attach(p)
    <2>1. CASE Write([mem EXCEPT !.position = cache], {p})
      BY <1>6, <2>1, PositionWrite DEF Attach, Saves, LineInv
    <2> QED BY <1>1, <1>6, <2>1 DEF Attach
  <1>7. CASE Exit(p)
    BY <1>7, PositionWrite DEF Exit, savePosition, Saves, LineInv
  <1>8. CASE Note(p)
    <2> DEFINE db == [mem EXCEPT !.receipts = Append(@, ReceiptOf(p))]
    <2>1. /\ db.position = mem.position
          /\ db.receipts = Append(mem.receipts, ReceiptOf(p))
      BY DEF LineInv, TypeOK, Database
    <2>2. Write(db, {p}) /\ pc[p] = "note" /\ UNCHANGED cache
      BY <1>8 DEF Note
    <2> HIDE DEF db
    <2> QED BY <2>1, <2>2, WriteReach DEF Notes
  <1>9. CASE Commit(p)
    <2> DEFINE db == [mem EXCEPT !.position = Advanced(p),
                                 !.receipts = Append(@, ReceiptOf(p))]
    <2>1. /\ db.position = Advanced(p)
          /\ db.receipts = Append(mem.receipts, ReceiptOf(p))
      BY DEF LineInv, TypeOK, Database
    <2>2. /\ Write(db, {p}) /\ pc[p] = "commit" /\ UNCHANGED <<cache, ctx>>
          /\ pc'[p] = "publish"
      BY <1>9, GotoPc DEF Commit
    <2> HIDE DEF db
    <2> QED BY <2>1, <2>2, WriteReach DEF Commits, SameContext
  <1>10. CASE Publish(p) \/ Journal(p)
    <2> DEFINE db == [mem EXCEPT !.journal = remembered(@, ReceiptOf(p))]
    <2>1. db.position = mem.position /\ db.receipts = mem.receipts
      BY DEF LineInv, TypeOK, Database
    <2>2. /\ Write(db, {p})
          /\ \/ pc[p] = "publish" /\ Publish(p) /\ cache' = Advanced(p)
             \/ pc[p] = "journal" /\ UNCHANGED cache
      BY <1>10 DEF Publish, Journal, rememberProcessedDraw
    <2> HIDE DEF db
    <2> QED BY <2>1, <2>2, WriteReach DEF Keeps
  <1> QED BY <1>2, <1>4, <1>5, <1>6, <1>7, <1>8, <1>9, <1>10 DEF Handler

\* What connect and proof refresh write.
LEMMA BesideEffect ==
    ASSUME LineInv, Present, ConnectRead \/ ConnectWrite \/ RefreshProof
    PROVE  /\ UNCHANGED <<pc, ctx>> /\ mem'.receipts = mem.receipts
           /\ disk' \in {mem', disk}
           /\ \/ UNCHANGED <<cache, mem>>
              \/ /\ ConnectWrite \/ RefreshProof
                 /\ mem'.position = cache'
                 /\ \/ UNCHANGED cache
                    \/ cache' = reconnected(cache, conn.collateral)
  <1>1. CASE ConnectRead
    BY <1>1 DEF ConnectRead
  <1>2. CASE ConnectWrite
    <2>1. CASE UNCHANGED <<cache, mem, disk, waiting>>
      BY <1>2, <2>1 DEF ConnectWrite
    <2>2. CASE savePosition(reconnected(cache, conn.collateral), {})
      BY <1>2, <2>2, PositionWrite DEF ConnectWrite, savePosition, LineInv
    <2> QED BY <1>2, <2>1, <2>2 DEF ConnectWrite, Present
  <1>3. CASE RefreshProof
    BY <1>3, PositionWrite DEF RefreshProof, LineInv
  <1> QED BY <1>1, <1>2, <1>3

\* What the file and a restart do.
LEMMA FileEffect ==
    ASSUME LineInv, Flush \/ FlushFails
    PROVE  UNCHANGED <<cache, mem, pc, ctx>> /\ disk' \in {mem', disk}
  BY DEF Flush, FlushFails

-----------------------------------------------------------------------------
(* A request under the lock holds the position of the cache.               *)

HeldAt(p) ==
    /\ pc[p] = "reading" => ~Unlocking(p)
    /\ pc[p] = "exit" => Unlocking(p)
    /\ \/ pc[p] \in {"reading", "submit", "exit"}
       \/ pc[p] \in {"commit", "publish"} /\ ~Unlocking(p)
       => cache.nonce = ctx[p].cur.nonce /\ cache.debt = ctx[p].cur.debt
    /\ pc[p] \in {"commit", "publish"} /\ Unlocking(p) =>
         cache.nonce = ctx[p].cur.nonce + 1

HeldInv == NotReset /\ Present /\ \A p \in Procs : HeldAt(p)

LEMMA HeldInit == Budget["reset"] = 0 /\ Init => HeldInv
  <1> SUFFICES ASSUME Budget["reset"] = 0, Init PROVE HeldInv
    OBVIOUS
  <1>1. /\ cache \in Position /\ mem.position = cache /\ disk.position = cache
        /\ budget = Budget /\ \A a \in Actor : pc[a] = "idle"
    BY OpenedType, LedgerAssumption DEF Init
  <1> QED BY <1>1, NoNone DEF HeldInv, NotReset, Present, HeldAt, Actor

LEMMA FrozenFields ==
    ASSUME NEW x \in Position
    PROVE  /\ frozen(x).nonce = x.nonce /\ frozen(x).debt = x.debt
           /\ frozen(x).state = "FROZEN" /\ frozen(x) # NoPosition
  <1>1. frozen(x) \in Position
    BY DEF frozen, Position, CreditState
  <1> QED BY <1>1, NoNone DEF frozen, Position

LEMMA ReconnectedFields ==
    ASSUME NEW x \in Position, NEW n \in Nat
    PROVE  /\ reconnected(x, n).nonce = x.nonce /\ reconnected(x, n).debt = x.debt
           /\ reconnected(x, n) # NoPosition
  <1>1. reconnected(x, n) \in Position
    BY PositionOps
  <1> QED BY <1>1, NoNone DEF reconnected, Position

\* The positions a request carries under the lock.
LEMMA Carried ==
    ASSUME LineInv, NEW p \in Procs, pc[p] \in Critical
    PROVE  /\ ctx[p].req \in Request
           /\ ctx[p].cur \in Position /\ ctx[p].before \in Position
           /\ Advanced(p) \in Position /\ Advanced(p) # NoPosition
           /\ Advanced(p).nonce = ctx[p].cur.nonce + 1
  BY Writes, AdvancedNonce, NoNone DEF LineInv, Carries, Critical

LEMMA HandlerPresent ==
    ASSUME LineInv, Present, NEW p \in Procs, Handler(p)
    PROVE  Present'
  <1>1. CASE pc[p] \notin Critical
    BY <1>1, HandlerEffect DEF Keeps, Saves, Notes, Commits, Present, Critical
  <1>2. CASE pc[p] \in Critical
    <2>1. Advanced(p) # NoPosition /\ frozen(ctx[p].cur) # NoPosition
      BY <1>2, Carried, FrozenFields
    <2> QED BY <2>1, HandlerEffect DEF Keeps, Saves, Notes, Commits, Present
  <1> QED BY <1>1, <1>2

LEMMA HandlerHeld ==
    ASSUME LineInv, HeldInv, NEW p \in Procs, Handler(p)
    PROVE  HeldInv'
  <1>1. PICK label \in Critical \cup {"idle"} : Goto(p, label)
    BY HandlerEntry
  <1>2. (pc[p] \in Critical \/ Entering(p)) /\ UNCHANGED budget
    BY HandlerEntry
  <1>3. \A q \in Procs : q # p => pc'[q] \notin Critical
    BY <1>1, <1>2, Alone, GotoPc
  <1>4. \A q \in Procs : q # p => HeldAt(q)'
    BY <1>3 DEF HeldAt, Critical
  <1>5. HeldAt(p)'
    <2>1. CASE Begin(p)
      <3>1. /\ pc'[p] \in {"reading", "note", "submit"}
            /\ pc'[p] = "reading" => ~Unlocking(p)
        BY <2>1, GotoPc DEF Begin, Unlocking
      <3>2. /\ ctx'[p].cur = cache /\ UNCHANGED cache
            /\ ctx'[p].req = ctx[p].req
        BY <2>1 DEF Begin, Current, HeldInv, Present, LineInv, TypeOK, Context
      <3> QED BY <3>1, <3>2 DEF HeldAt, Unlocking
    <2>2. CASE /\ SameContext(p) /\ UNCHANGED cache
               /\ pc'[p] \in {"submit", "exit"}
               /\ pc[p] \in {"reading", "submit"}
               /\ pc'[p] = "exit" => Unlocking(p)
      BY <2>2, SameAdvanced DEF HeldInv, HeldAt, SameContext
    <2>3. CASE /\ SameContext(p) /\ UNCHANGED cache /\ pc'[p] = "commit"
               /\ pc[p] = "submit" /\ ~Unlocking(p)
      BY <2>3, SameAdvanced DEF HeldInv, HeldAt, SameContext
    <2>4. CASE /\ SameContext(p) /\ cache' = Advanced(p) /\ pc'[p] = "commit"
               /\ pc[p] = "exit"
      <3>1. Unlocking(p) /\ cache'.nonce = ctx[p].cur.nonce + 1
        BY <2>4, Carried DEF HeldInv, HeldAt, Critical
      <3> QED BY <2>4, <3>1, SameAdvanced DEF HeldAt, SameContext
    <2>5. CASE /\ SameContext(p) /\ UNCHANGED cache /\ pc'[p] = "publish"
               /\ pc[p] = "commit"
      BY <2>5, SameAdvanced DEF HeldInv, HeldAt, SameContext
    <2>6. CASE pc'[p] \notin {"reading", "submit", "exit", "commit", "publish"}
      BY <2>6 DEF HeldAt
    <2> QED BY <2>1, <2>2, <2>3, <2>4, <2>5, <2>6, HandlerGoes
  <1>6. Present' /\ NotReset'
    BY <1>1, <1>2, HandlerPresent, NotResetStep DEF HeldInv
  <1> QED BY <1>4, <1>5, <1>6 DEF HeldInv

LEMMA BesideHeld ==
    ASSUME LineInv, HeldInv, ConnectRead \/ ConnectWrite \/ RefreshProof
    PROVE  /\ HeldInv'
           /\ cache'.nonce = cache.nonce /\ cache'.debt = cache.debt
  <1>1. cache \in Position /\ conn.collateral \in Nat
    BY DEF LineInv, TypeOK, HeldInv, Present
  <1>2. /\ cache'.nonce = cache.nonce /\ cache'.debt = cache.debt /\ Present'
    BY <1>1, BesideEffect, ReconnectedFields DEF HeldInv, Present
  <1>3. \A q \in Procs : HeldAt(q)'
    BY <1>2, BesideEffect DEF HeldInv, HeldAt, Unlocking
  <1>4. NotReset'
    <2>1. budget["reset"] = 0 => budget'["reset"] = 0
      BY BudgetFalls DEF Next, Kinds
    <2> QED BY <2>1, BesideEffect DEF HeldInv, NotReset
  <1> QED BY <1>2, <1>3, <1>4 DEF HeldInv

LEMMA HeldStep == LineInv /\ HeldInv /\ [Next]_vars => HeldInv'
  <1> SUFFICES ASSUME LineInv, HeldInv, [Next]_vars PROVE HeldInv'
    OBVIOUS
  <1>1. ASSUME NEW p \in Procs, NEW r \in Request, Arrive(p, r)
        PROVE  HeldInv'
    <2>1. /\ UNCHANGED <<cache, mem, disk>> /\ pc'[p] = "queued" /\ NotReset'
          /\ \A q \in Procs : q # p => pc'[q] = pc[q] /\ ctx'[q] = ctx[q]
      BY <1>1, ArriveBooks DEF HeldInv
    <2>2. HeldAt(p)' /\ Present'
      BY <2>1 DEF HeldInv, HeldAt, Present
    <2>3. \A q \in Procs : q # p => HeldAt(q)'
      BY <2>1 DEF HeldInv, HeldAt, Unlocking
    <2> QED BY <2>1, <2>2, <2>3 DEF HeldInv
  <1>2. ASSUME NEW p \in Procs, Handler(p)
        PROVE  HeldInv'
    BY <1>2, HandlerHeld
  <1>3. CASE ConnectRead \/ ConnectWrite \/ RefreshProof
    BY <1>3, BesideHeld
  <1>4. CASE ResetWipe \/ ResetReload
    BY <1>4, NoReset DEF HeldInv
  <1>5. CASE Flush \/ FlushFails
    <2>1. UNCHANGED <<cache, mem, pc, ctx, budget>> /\ disk' \in {mem', disk}
      BY <1>5 DEF Flush, FlushFails
    <2> QED BY <2>1 DEF HeldInv, NotReset, Present, HeldAt, Unlocking
  <1>6. CASE Crash
    BY <1>6, CrashBooks DEF HeldInv, Present, HeldAt
  <1>7. CASE UNCHANGED vars
    BY <1>7 DEF vars, HeldInv, NotReset, Present, HeldAt, Unlocking
  <1> QED BY <1>1, <1>2, <1>3, <1>4, <1>5, <1>6, <1>7 DEF Next

\* In a store nobody resets, a request past the lock holds the position of
\* the cache until it publishes: whoever writes the cache meanwhile, a connect
\* or its own unlock, takes neither nonce nor debt back.
THEOREM HeldInvariant ==
    ASSUME Budget["reset"] = 0
    PROVE  Spec => []HeldInv
  BY HeldInit, HeldStep, LineInvariant, PTL DEF Spec

\* A handler never takes the cached nonce back.
LEMMA HandlerRises ==
    ASSUME LineInv, HeldInv, NEW p \in Procs, Handler(p)
    PROVE  cache'.nonce >= cache.nonce
  <1>1. cache \in Position
    BY DEF LineInv, TypeOK, HeldInv, Present
  <1>2. CASE UNCHANGED cache
    BY <1>1, <1>2 DEF Position
  <1>3. CASE cache' = frozen(ctx[p].cur) /\ pc[p] \in {"reading", "submit"}
    <2>1. ctx[p].cur \in Position
      BY <1>3, Carried DEF Critical
    <2>2. cache'.nonce = cache.nonce
      BY <1>3, <2>1, FrozenFields DEF HeldInv, HeldAt
    <2> QED BY <1>1, <2>2 DEF Position
  <1>4. CASE cache' = Advanced(p) /\ pc[p] \in {"exit", "publish"}
    <2>1. /\ cache'.nonce = ctx[p].cur.nonce + 1
          /\ ctx[p].cur.nonce \in Nat
      BY <1>4, Carried DEF Critical, Position
    <2>2. cache.nonce \in {ctx[p].cur.nonce, ctx[p].cur.nonce + 1}
      BY <1>4 DEF HeldInv, HeldAt
    <2> QED BY <2>1, <2>2
  <1> QED BY <1>2, <1>3, <1>4, HandlerEffect DEF Keeps, Saves, Notes, Commits

-----------------------------------------------------------------------------
(* A reset takes the position away; what it leaves of the nonce.           *)

AtMost(position, nonce) == position # NoPosition => position.nonce <= nonce

\* The database has what the cache has, unless a commit is about to reach
\* the cache.
Level ==
    (\A p \in Procs : pc[p] # "publish") =>
        \/ mem.position = NoPosition
        \/ cache # NoPosition /\ cache.nonce = mem.position.nonce

\* Neither is ahead of what a request past the lock holds and writes.
Ahead(p) ==
    /\ pc[p] \in {"reading", "submit", "exit"} =>
         /\ AtMost(cache, ctx[p].cur.nonce)
         /\ AtMost(mem.position, ctx[p].cur.nonce)
    /\ pc[p] = "commit" =>
         /\ AtMost(cache, ctx[p].cur.nonce + 1)
         /\ AtMost(mem.position, ctx[p].cur.nonce + 1)
    /\ pc[p] = "publish" =>
         /\ AtMost(cache, ctx[p].cur.nonce + 1)
         /\ mem.position # NoPosition =>
              mem.position.nonce = ctx[p].cur.nonce + 1

RiseInv == Level /\ \A p \in Procs : Ahead(p)

LEMMA RiseInit == Init => RiseInv
  <1> SUFFICES ASSUME Init PROVE RiseInv
    OBVIOUS
  <1>1. /\ cache \in Position /\ mem.position = cache
        /\ \A a \in Actor : pc[a] = "idle"
    BY OpenedType, LedgerAssumption DEF Init
  <1> QED BY <1>1, NoNone DEF RiseInv, Level, Ahead, Actor

\* The cache takes over a position no younger, and the database gets the same.
LEMMA SameRise ==
    ASSUME LineInv, RiseInv, NEW n \in Nat,
           \A p \in Procs : pc[p] # "publish",
           UNCHANGED ctx, \A p \in Procs : pc'[p] = pc[p],
           cache' # NoPosition, cache'.nonce = n,
           cache = NoPosition => n = 0,
           cache # NoPosition => cache.nonce = n,
           mem'.position = cache'
    PROVE  RiseInv'
  <1>1. ASSUME NEW p \in Procs, pc[p] \in Critical
        PROVE  Ahead(p)'
    <2>1. ctx[p].cur.nonce \in Nat
      BY <1>1, Carried DEF Position
    <2> QED BY <1>1, <2>1 DEF RiseInv, Ahead, AtMost
  <1>2. \A p \in Procs : Ahead(p)'
    BY <1>1 DEF Ahead, Critical
  <1> QED BY <1>2 DEF RiseInv, Level

LEMMA HandlerRise ==
    ASSUME LineInv, RiseInv, NEW p \in Procs, Handler(p)
    PROVE  /\ RiseInv'
           /\ cache # NoPosition /\ cache' # NoPosition =>
                cache'.nonce >= cache.nonce
  <1>1. PICK label \in Critical \cup {"idle"} : Goto(p, label)
    BY HandlerEntry
  <1>2. /\ pc[p] \in Critical \/ Entering(p)
        /\ \A q \in Procs : q # p => pc'[q] = pc[q] /\ pc[q] \notin Critical
    BY <1>1, HandlerEntry, Alone, GotoPc
  <1>3. \A q \in Procs : q # p => Ahead(q)'
    BY <1>2 DEF Ahead, Critical
  <1>4. /\ cache \in Position \cup {NoPosition}
        /\ mem.position \in Position \cup {NoPosition}
        /\ \A x \in Position : x.nonce \in Nat
    BY DEF LineInv, TypeOK, Database, Position
  <1>5. pc[p] # "publish" => /\ Level
                            /\ \A q \in Procs : pc[q] # "publish"
    BY <1>2 DEF RiseInv, Critical
  <1>6. CASE Begin(p)
    <2>1. /\ UNCHANGED <<cache, mem>> /\ ctx'[p].cur = Current(p)
          /\ pc[p] = "queued"
      BY <1>6 DEF Begin, Entering, LineInv, TypeOK, Context
    <2>2. pc'[p] \in {"reading", "note", "submit"}
      BY <1>6, GotoPc DEF Begin
    <2>3. Ahead(p)'
      BY <1>4, <1>5, <2>1, <2>2 DEF Level, Ahead, AtMost, Current
    <2>4. Level'
      BY <1>5, <2>1 DEF Level
    <2> QED BY <1>3, <1>4, <2>1, <2>3, <2>4 DEF RiseInv
  <1>7. CASE ~Begin(p) /\ pc[p] \notin Critical
    <2>1. /\ pc'[p] \notin {"reading", "submit", "exit", "commit", "publish"}
          /\ UNCHANGED cache /\ mem'.position = mem.position
      BY <1>7, HandlerGoes, HandlerEffect
         DEF Keeps, Saves, Notes, Commits, Critical
    <2>2. Ahead(p)' /\ Level'
      BY <1>5, <1>7, <2>1 DEF Ahead, Level, Critical
    <2> QED BY <1>3, <1>4, <2>1, <2>2 DEF RiseInv
  <1>8. CASE ~Begin(p) /\ pc[p] \in Critical
    <2> DEFINE n == ctx[p].cur.nonce
    <2>1. /\ n \in Nat /\ Advanced(p).nonce = n + 1
          /\ Advanced(p) # NoPosition
          /\ frozen(ctx[p].cur).nonce = n /\ frozen(ctx[p].cur) # NoPosition
      BY <1>4, <1>8, Carried, FrozenFields
    <2>2. SameContext(p) => ctx'[p].cur.nonce = n
      BY DEF SameContext
    <2> HIDE DEF n
    <2>3. /\ pc[p] \in {"reading", "submit", "exit"} =>
               AtMost(cache, n) /\ AtMost(mem.position, n)
          /\ pc[p] = "commit" =>
               AtMost(cache, n + 1) /\ AtMost(mem.position, n + 1)
          /\ pc[p] = "publish" =>
               /\ AtMost(cache, n + 1)
               /\ mem.position # NoPosition => mem.position.nonce = n + 1
      BY DEF RiseInv, Ahead, n
    <2>4. cache # NoPosition /\ cache' # NoPosition =>
            cache'.nonce >= cache.nonce
      <3>1. CASE UNCHANGED cache
        BY <1>4, <3>1
      <3>2. CASE cache' = frozen(ctx[p].cur) /\ pc[p] \in {"reading", "submit"}
        BY <1>4, <2>1, <2>3, <3>2 DEF AtMost
      <3>3. CASE cache' = Advanced(p) /\ pc[p] \in {"exit", "publish"}
        BY <1>4, <2>1, <2>3, <3>3 DEF AtMost
      <3> QED BY <3>1, <3>2, <3>3, HandlerEffect DEF Keeps, Saves, Notes, Commits
    <2>5. Ahead(p)'
      <3>1. CASE /\ pc[p] \in {"reading", "submit"}
                 /\ pc'[p] \in {"submit", "exit", "commit"}
                 /\ SameContext(p) /\ UNCHANGED cache
        <4>1. mem'.position \in {mem.position, cache}
          BY <3>1, HandlerEffect DEF Keeps, Saves, Notes, Commits
        <4> QED BY <1>4, <2>1, <2>2, <2>3, <3>1, <4>1 DEF Ahead, AtMost
      <3>2. CASE /\ pc[p] = "exit" /\ pc'[p] = "commit"
                 /\ SameContext(p) /\ cache' = Advanced(p)
        <4>1. mem'.position \in {mem.position, Advanced(p)}
          BY <3>2, HandlerEffect DEF Keeps, Saves, Notes, Commits
        <4> QED BY <1>4, <2>1, <2>2, <2>3, <3>2, <4>1 DEF Ahead, AtMost
      <3>3. CASE pc[p] = "commit" /\ pc'[p] = "publish" /\ SameContext(p)
        <4>1. UNCHANGED cache /\ mem'.position = Advanced(p)
          BY <3>3, HandlerEffect DEF Keeps, Saves, Notes, Commits
        <4> QED BY <1>4, <2>1, <2>2, <2>3, <3>3, <4>1 DEF Ahead, AtMost
      <3>4. CASE pc'[p] \notin {"reading", "submit", "exit", "commit", "publish"}
        BY <3>4 DEF Ahead
      <3> QED BY <1>8, <3>1, <3>2, <3>3, <3>4, HandlerGoes
    <2>6. Level'
      <3>1. CASE pc'[p] = "publish"
        BY <3>1 DEF Level
      <3>2. CASE pc[p] = "publish"
        <4>1. cache' = Advanced(p) /\ mem'.position = mem.position
          BY <3>2, HandlerEffect DEF Keeps, Saves, Notes, Commits
        <4> QED BY <2>1, <2>3, <3>2, <4>1 DEF Level
      <3>3. CASE pc[p] # "publish" /\ pc'[p] # "publish"
        <4>1. \/ UNCHANGED cache /\ mem'.position = mem.position
              \/ mem'.position = cache'
          BY <3>3, HandlerEffect DEF Keeps, Saves, Notes, Commits
        <4> QED BY <1>5, <3>3, <4>1 DEF Level
      <3> QED BY <3>1, <3>2, <3>3
    <2> QED BY <1>3, <2>4, <2>5, <2>6 DEF RiseInv
  <1> QED BY <1>6, <1>7, <1>8

\* Connect and proof refresh, which never write while a commit waits to be
\* published, leave the nonce alone.
LEMMA BesideRise ==
    ASSUME LineInv, RiseInv, Bounded, InStep, ConnectWrite \/ RefreshProof
    PROVE  /\ RiseInv'
           /\ cache # NoPosition /\ cache' # NoPosition =>
                cache'.nonce >= cache.nonce
  <1>1. Budget["connect"] # 0 \/ Budget["proof"] # 0
    BY DEF ConnectWrite, RefreshProof, Spend, Bounded, LineInv, TypeOK, Kinds
  <1>2. \A q \in Procs : pc[q] # "publish"
    BY <1>1 DEF InStep, ConnectWrite, RefreshProof, Undisturbed, Yielding, Actor
  <1>3. UNCHANGED <<pc, ctx>>
    BY DEF ConnectWrite, RefreshProof
  <1>4. /\ cache \in Position \cup {NoPosition} /\ conn.collateral \in Nat
        /\ \A x \in Position : x.nonce \in Nat
    BY DEF LineInv, TypeOK, Position
  <1>5. CASE UNCHANGED <<cache, mem>>
    BY <1>3, <1>4, <1>5 DEF RiseInv, Level, Ahead
  <1>6. CASE RefreshProof
    <2>1. cache # NoPosition /\ UNCHANGED cache /\ mem'.position = cache'
      BY <1>6, PositionWrite DEF RefreshProof, LineInv
    <2> QED BY <1>2, <1>3, <1>4, <2>1, SameRise
  <1>7. CASE cache # NoPosition /\ savePosition(reconnected(cache, conn.collateral), {})
    <2>1. /\ cache' # NoPosition /\ cache'.nonce = cache.nonce
          /\ mem'.position = cache'
      BY <1>4, <1>7, PositionWrite, ReconnectedFields DEF savePosition, LineInv
    <2> QED BY <1>2, <1>3, <1>4, <1>7, <2>1, SameRise
  <1>8. CASE cache = NoPosition /\ savePosition(opened(conn.collateral), {})
    <2>1. /\ opened(conn.collateral) # NoPosition
          /\ opened(conn.collateral).nonce = 0
      BY <1>4, OpenedType, NoNone DEF opened
    <2>2. /\ cache' # NoPosition /\ cache'.nonce = 0 /\ mem'.position = cache'
      BY <1>8, <2>1, PositionWrite DEF savePosition, LineInv
    <2> QED BY <1>2, <1>3, <1>8, <2>2, SameRise
  <1> QED BY <1>5, <1>6, <1>7, <1>8 DEF ConnectWrite

\* A reset empties the cache; the reload that ends it takes what the database
\* has, which is no younger.
LEMMA ResetRise ==
    ASSUME LineInv, JournalInv, RiseInv, ResetWipe \/ ResetReload
    PROVE  /\ RiseInv'
           /\ cache # NoPosition /\ cache' # NoPosition =>
                cache'.nonce >= cache.nonce
  <1>1. /\ UNCHANGED ctx
        /\ \A p \in Procs : pc'[p] = pc[p]
    BY ResetBooks
  <1>2. /\ cache \in Position \cup {NoPosition}
        /\ mem.position \in Position \cup {NoPosition}
        /\ \A x \in Position : x.nonce \in Nat
    BY DEF LineInv, TypeOK, Database, Position
  <1>3. CASE mem'.position = NoPosition /\ cache' = NoPosition
    BY <1>1, <1>3 DEF RiseInv, Level, Ahead, AtMost
  <1>4. CASE /\ UNCHANGED mem
             /\ cache' = IF mem.position = NoPosition THEN cache
                         ELSE mem.position
    <2>1. \A p \in Procs : Ahead(p)'
      <3> SUFFICES ASSUME NEW p \in Procs, pc[p] \in Critical PROVE Ahead(p)'
        BY <1>1 DEF Ahead, Critical
      <3>1. ctx[p].cur.nonce \in Nat /\ Ahead(p)
        BY <1>2, Carried DEF RiseInv
      <3> QED BY <1>1, <1>2, <1>4, <3>1 DEF Ahead, AtMost
    <2>2. Level'
      BY <1>1, <1>4 DEF RiseInv, Level
    <2>3. ASSUME cache # NoPosition, mem.position # NoPosition
          PROVE  mem.position.nonce >= cache.nonce
      <3>1. CASE \A p \in Procs : pc[p] # "publish"
        BY <1>2, <2>3, <3>1 DEF RiseInv, Level
      <3>2. ASSUME NEW p \in Procs, pc[p] = "publish"
            PROVE  mem.position.nonce >= cache.nonce
        <4>1. ctx[p].cur.nonce \in Nat /\ Ahead(p)
          BY <1>2, <3>2, Carried DEF RiseInv, Critical
        <4> QED BY <1>2, <2>3, <3>2, <4>1 DEF Ahead, AtMost
      <3> QED BY <3>1, <3>2
    <2> QED BY <1>2, <1>4, <2>1, <2>2, <2>3 DEF RiseInv
  <1> QED BY <1>3, <1>4, ResetBooks

LEMMA RiseStep ==
    ASSUME InStep, LineInv, JournalInv, Bounded, RiseInv, [Next]_vars
    PROVE  /\ RiseInv'
           /\ /\ cache # NoPosition /\ cache' # NoPosition
              /\ budget'["crash"] = budget["crash"]
              => cache'.nonce >= cache.nonce
  <1>1. /\ cache \in Position \cup {NoPosition}
        /\ \A x \in Position : x.nonce \in Nat
    BY DEF LineInv, TypeOK, Position
  <1>2. ASSUME NEW p \in Procs, NEW r \in Request, Arrive(p, r)
        PROVE  RiseInv' /\ UNCHANGED cache
    <2>1. /\ UNCHANGED <<cache, mem>> /\ pc[p] = "idle" /\ pc'[p] = "queued"
          /\ \A q \in Procs : q # p => pc'[q] = pc[q] /\ ctx'[q] = ctx[q]
      BY <1>2, ArriveBooks
    <2> QED BY <2>1 DEF RiseInv, Level, Ahead
  <1>3. CASE \E p \in Procs : Handler(p)
    BY <1>3, HandlerRise
  <1>4. CASE ConnectWrite \/ RefreshProof
    BY <1>4, BesideRise
  <1>5. CASE ResetWipe \/ ResetReload
    BY <1>5, ResetRise
  <1>6. CASE Crash
    <2>1. /\ cache' = mem'.position /\ \A p \in Procs : pc'[p] = "idle"
          /\ budget'["crash"] # budget["crash"]
      BY <1>6, CrashBooks DEF Crash, Spend, LineInv, TypeOK, Kinds
    <2> QED BY <2>1 DEF RiseInv, Level, Ahead
  <1>7. CASE UNCHANGED <<cache, mem, pc, ctx>>
    BY <1>1, <1>7 DEF RiseInv, Level, Ahead
  <1> QED BY <1>1, <1>2, <1>3, <1>4, <1>5, <1>6, <1>7
          DEF Next, ConnectRead, Flush, FlushFails, vars

\* Where commits are published in step, no reset takes the nonce of a request
\* or of the database below that of the cache.
THEOREM RiseInvariant ==
    ASSUME InStep
    PROVE  Spec => []RiseInv
  <1>1. Orderly
    BY DEF Orderly
  <1>2. NonceInv => Bounded
    BY DEF NonceInv
  <1>3. LineInv /\ JournalInv /\ Bounded /\ RiseInv /\ [Next]_vars => RiseInv'
    BY RiseStep
  <1>4. Spec => []NonceInv
    BY <1>1, NonceInvariant
  <1> QED BY RiseInit, <1>2, <1>3, <1>4, LineInvariant, JournalInvariant, PTL
          DEF Spec

\* While the process lives, no stale copy of the position replaces a later
\* one (store.ts:147-151, 208-223): whatever connects and refreshes run beside
\* the locked routes if nobody resets the store, and through resets as well
\* where none of those writers comes between a commit and its publication.
THEOREM NonceNeverFallsHolds ==
    ASSUME InStep \/ Budget["reset"] = 0
    PROVE  Spec => NonceNeverFalls
  <1>1. CASE InStep
    <2>1. LineInv /\ JournalInv /\ Bounded /\ RiseInv /\ [Next]_vars =>
            [ /\ cache # NoPosition /\ cache' # NoPosition
              /\ budget'["crash"] = budget["crash"]
              => cache'.nonce >= cache.nonce ]_vars
      BY <1>1, RiseStep
    <2>2. NonceInv => Bounded
      BY DEF NonceInv
    <2>3. (Spec => []RiseInv) /\ (Spec => []NonceInv)
      BY <1>1, RiseInvariant, NonceInvariant DEF Orderly
    <2> QED BY <2>1, <2>2, <2>3, LineInvariant, JournalInvariant, PTL
            DEF Spec, NonceNeverFalls
  <1>2. CASE Budget["reset"] = 0
    <2>1. LineInv /\ HeldInv /\ [Next]_vars =>
            [ /\ cache # NoPosition /\ cache' # NoPosition
              /\ budget'["crash"] = budget["crash"]
              => cache'.nonce >= cache.nonce ]_vars
      <3> SUFFICES ASSUME LineInv, HeldInv, Next,
                          budget'["crash"] = budget["crash"]
                   PROVE  cache'.nonce >= cache.nonce
        OBVIOUS
      <3>1. cache.nonce \in Nat
        BY DEF LineInv, TypeOK, HeldInv, Present, Position
      <3>2. CASE UNCHANGED cache
        BY <3>1, <3>2
      <3>3. ASSUME NEW p \in Procs, Handler(p)
            PROVE  cache'.nonce >= cache.nonce
        BY <3>3, HandlerRises
      <3>4. CASE ConnectRead \/ ConnectWrite \/ RefreshProof
        BY <3>1, <3>4, BesideHeld
      <3>5. CASE ResetWipe \/ ResetReload
        BY <3>5, NoReset DEF HeldInv
      <3>6. CASE Crash
        BY <3>6 DEF Crash, Spend, LineInv, TypeOK, Kinds
      <3> QED BY <3>2, <3>3, <3>4, <3>5, <3>6 DEF Next, Arrive, Flush, FlushFails
    <2>2. Spec => []HeldInv
      BY <1>2, HeldInvariant
    <2> QED BY <2>1, <2>2, LineInvariant, PTL DEF Spec, NonceNeverFalls
  <1> QED BY <1>1, <1>2
-----------------------------------------------------------------------------
(* Snapshots.  An unlock spreads the position it read before the lock; with *)
(* clients that sign no nonce before they were shown it, that position is   *)
(* the one it finds under the lock, or the nonce tells.                     *)

SnapAt(p) ==
    /\ pc[p] = "queued" =>
         /\ ctx[p].req.nonce <= ctx[p].before.nonce
         /\ ctx[p].before.nonce <= cache.nonce
         /\ ctx[p].before.nonce = cache.nonce => ctx[p].before.debt = cache.debt
    /\ pc[p] \in {"submit", "exit", "commit", "publish"} /\ Unlocking(p) =>
         ctx[p].before.debt = 0 /\ ctx[p].cur.debt = 0
    /\ pc[p] \in {"commit", "publish"} /\ Unlocking(p) => cache.debt = 0

\* A position the code may hold: overdrawn only when frozen.
Sound(x) == x.debt > x.limit => x.state = "FROZEN"

SoundAt(p) == pc[p] \in {"commit", "publish"} => Sound(Advanced(p))

SnapInv ==
    /\ \A p \in Procs : SnapAt(p) /\ SoundAt(p)
    /\ Sound(cache) /\ Sound(mem.position) /\ Sound(disk.position)

LEMMA OpenedSound ==
    ASSUME NEW c \in Nat
    PROVE  Sound(opened(c))
  BY LimitType DEF opened, Sound

LEMMA SnapInit == Init => SnapInv
  <1> SUFFICES ASSUME Init PROVE SnapInv
    OBVIOUS
  <1>1. /\ Sound(cache) /\ mem.position = cache /\ disk.position = cache
        /\ \A a \in Actor : pc[a] = "idle"
    BY OpenedSound, LedgerAssumption DEF Init
  <1> QED BY <1>1 DEF SnapInv, SnapAt, SoundAt, Actor

LEMMA FrozenSound ==
    ASSUME NEW x \in Position
    PROVE  Sound(frozen(x))
  BY FrozenFields DEF Sound

LEMMA ReconnectedSound ==
    ASSUME NEW x \in Position, NEW n \in Nat, Sound(x)
    PROVE  Sound(reconnected(x, n))
  <1>1. /\ reconnected(x, n).debt = x.debt
        /\ reconnected(x, n).limit = calculateCreditLimit(n)
        /\ reconnected(x, n).state =
             IF x.debt > calculateCreditLimit(n) THEN "FROZEN" ELSE x.state
    BY DEF reconnected, Position
  <1> QED BY <1>1 DEF Sound

LEMMA AssertedSound ==
    ASSUME NEW x \in Position, assertPositionInvariants(x)
    PROVE  Sound(x)
  BY DEF assertPositionInvariants, Sound, Position

LEMMA UnlockedFields ==
    ASSUME LineInv, NEW p \in Procs, pc[p] \in Critical, Unlocking(p)
    PROVE  /\ Advanced(p).debt = ctx[p].before.debt
           /\ Advanced(p).limit = ctx[p].before.limit
  BY Carried DEF Advanced, Unlocking, exited, Position

LEMMA UnlockedSound ==
    ASSUME LineInv, NEW p \in Procs, pc[p] \in Critical, Unlocking(p),
           ctx[p].before.debt = 0
    PROVE  Sound(Advanced(p)) /\ Advanced(p).debt = 0
  BY UnlockedFields, Carried DEF Sound, Position

\* What moves in the cache moves its nonce.
LEMMA HandlerMoves ==
    ASSUME LineInv, HeldInv, SnapInv, NEW p \in Procs, Handler(p),
           cache'.nonce = cache.nonce
    PROVE  cache'.debt = cache.debt
  <1>1. CASE UNCHANGED cache
    BY <1>1
  <1>2. CASE cache' = frozen(ctx[p].cur) /\ pc[p] \in {"reading", "submit"}
    <2>1. ctx[p].cur \in Position
      BY <1>2, Carried DEF Critical
    <2> QED BY <1>2, <2>1, FrozenFields DEF HeldInv, HeldAt
  <1>3. CASE cache' = Advanced(p) /\ pc[p] \in {"exit", "publish"}
    <2>1. pc[p] \in Critical
      BY <1>3 DEF Critical
    <2>2. cache.nonce = ctx[p].cur.nonce + 1 /\ ctx[p].cur.nonce \in Nat
      BY <1>3, <2>1, Carried DEF Position
    <2>3. pc[p] = "publish" /\ Unlocking(p)
      BY <1>3, <2>2 DEF HeldInv, HeldAt
    <2> QED BY <1>3, <2>1, <2>3, UnlockedSound DEF SnapInv, SnapAt
  <1> QED BY <1>1, <1>2, <1>3, HandlerEffect DEF Keeps, Saves, Notes, Commits

\* A request that waits for the lock sees no more than its snapshot says.
LEMMA QueuedSnap ==
    ASSUME LineInv, HeldInv, NEW q \in Procs, SnapAt(q), pc[q] = "queued",
           pc'[q] = pc[q], ctx'[q] = ctx[q],
           cache' \in Position, cache'.nonce >= cache.nonce,
           cache'.nonce = cache.nonce => cache'.debt = cache.debt
    PROVE  SnapAt(q)'
  <1>1. ctx[q].before \in Position /\ cache \in Position
    BY DEF LineInv, TypeOK, Carries, HeldInv, Present
  <1>2. /\ ctx[q].before.nonce \in Nat /\ cache.nonce \in Nat
        /\ cache'.nonce \in Nat
    BY <1>1 DEF Position
  <1>3. /\ ctx[q].before.nonce <= cache'.nonce
        /\ ctx[q].before.nonce = cache'.nonce => ctx[q].before.debt = cache'.debt
    BY <1>2 DEF SnapAt
  <1> QED BY <1>3 DEF SnapAt

\* An unlock that goes on found nothing owed, before the lock as under it.
LEMMA BeginSnap ==
    ASSUME LineInv, HeldInv, SnapInv, NEW p \in Procs, Begin(p)
    PROVE  SnapAt(p)' /\ SoundAt(p)'
  <1>1. pc'[p] \in {"reading", "note", "submit"} /\ pc[p] = "queued"
    BY GotoPc DEF Begin, Entering
  <1>2. /\ ctx[p].req.nonce = cache.nonce /\ Current(p) = cache
        /\ ctx'[p].cur = cache /\ ctx'[p].req = ctx[p].req
        /\ ctx'[p].before = ctx[p].before
    BY DEF Begin, Current, HeldInv, Present, LineInv, TypeOK, Context
  <1>3. ctx[p].before \in Position /\ cache \in Position
    BY <1>1 DEF LineInv, TypeOK, Carries, HeldInv, Present
  <1>4. ctx[p].before.debt = cache.debt
    BY <1>1, <1>2, <1>3 DEF SnapInv, SnapAt, Position
  <1>5. pc'[p] = "submit" /\ Unlocking(p) => cache.debt = 0
    BY <1>2, GotoPc DEF Begin, Refused, Unlocking
  <1>6. Unlocking(p)' = Unlocking(p)
    BY <1>2 DEF Unlocking
  <1> QED BY <1>1, <1>2, <1>4, <1>5, <1>6 DEF SnapAt, SoundAt

LEMMA OwnSnap ==
    ASSUME LineInv, HeldInv, SnapInv, NEW p \in Procs, Handler(p)
    PROVE  SnapAt(p)' /\ SoundAt(p)'
  <1>1. CASE Begin(p)
    BY <1>1, BeginSnap
  <1>2. CASE /\ pc[p] = "reading" /\ pc'[p] = "submit" /\ SameContext(p)
    BY <1>2, SameAdvanced DEF SnapAt, SoundAt, HeldInv, HeldAt
  <1>3. CASE pc'[p] = "exit" /\ pc[p] = "submit" /\ SameContext(p)
    BY <1>3, SameAdvanced DEF SnapInv, SnapAt, SoundAt, SameContext
  <1>4. CASE /\ pc'[p] = "commit" /\ pc[p] = "submit" /\ SameContext(p)
             /\ ~Unlocking(p) /\ assertPositionInvariants(Advanced(p))
    <2>1. Sound(Advanced(p))
      BY <1>4, Carried, AssertedSound DEF Critical
    <2> QED BY <1>4, <2>1, SameAdvanced DEF SnapAt, SoundAt, Sound
  <1>5. CASE /\ pc'[p] = "commit" /\ pc[p] = "exit" /\ SameContext(p)
             /\ cache' = Advanced(p)
    <2>1. Unlocking(p) /\ ctx[p].before.debt = 0 /\ ctx[p].cur.debt = 0
      BY <1>5 DEF HeldInv, HeldAt, SnapInv, SnapAt
    <2>2. Sound(Advanced(p)) /\ Advanced(p).debt = 0
      BY <1>5, <2>1, UnlockedSound DEF Critical
    <2> QED BY <1>5, <2>1, <2>2, SameAdvanced
            DEF SnapAt, SoundAt, Sound, SameContext
  <1>6. CASE /\ pc'[p] = "publish" /\ pc[p] = "commit" /\ SameContext(p)
             /\ UNCHANGED cache
    BY <1>6, SameAdvanced DEF SnapInv, SnapAt, SoundAt, Sound, SameContext
  <1>7. CASE pc'[p] \in Critical \cup {"idle"}
             /\ pc'[p] \notin {"reading", "submit", "exit", "commit", "publish"}
    BY <1>7 DEF SnapAt, SoundAt, Critical
  <1> QED BY <1>1, <1>2, <1>3, <1>4, <1>5, <1>6, <1>7, HandlerGoes

\* What a handler leaves in the database and in the cache.
LEMMA HandlerSound ==
    ASSUME LineInv, HeldInv, SnapInv, NEW p \in Procs, Handler(p)
    PROVE  Sound(cache)' /\ Sound(mem.position)' /\ Sound(disk.position)'
  <1>1. Sound(cache') /\ Sound(mem'.position)
    <2>1. CASE Keeps(p)
      <3>1. CASE pc[p] = "publish" /\ cache' = Advanced(p)
        BY <2>1, <3>1 DEF SnapInv, SoundAt, Keeps
      <3> QED BY <2>1, <3>1 DEF SnapInv, Keeps
    <2>2. CASE Saves(p)
      <3>1. CASE UNCHANGED cache
        BY <2>2, <3>1 DEF SnapInv, Saves
      <3>2. CASE pc[p] \in {"reading", "submit"} /\ cache' = frozen(ctx[p].cur)
        BY <2>2, <3>2, Carried, FrozenSound DEF Saves, Critical
      <3>3. CASE pc[p] = "exit" /\ cache' = Advanced(p)
        <4>1. Unlocking(p) /\ ctx[p].before.debt = 0
          BY <3>3 DEF HeldInv, HeldAt, SnapInv, SnapAt
        <4> QED BY <2>2, <3>3, <4>1, UnlockedSound DEF Saves, Critical
      <3> QED BY <2>2, <3>1, <3>2, <3>3 DEF Saves
    <2>3. CASE Notes(p)
      BY <2>3 DEF SnapInv, Notes
    <2>4. CASE Commits(p)
      BY <2>4 DEF SnapInv, SoundAt, Commits
    <2> QED BY <2>1, <2>2, <2>3, <2>4, HandlerEffect
  <1>2. Sound(disk'.position)
    BY <1>1, HandlerEffect DEF SnapInv
  <1> QED BY <1>1, <1>2 DEF Sound

LEMMA HandlerSnap ==
    ASSUME LineInv, HeldInv, SnapInv, NEW p \in Procs, Handler(p)
    PROVE  SnapInv'
  <1>1. PICK label \in Critical \cup {"idle"} : Goto(p, label)
    BY HandlerEntry
  <1>2. pc[p] \in Critical \/ Entering(p)
    BY HandlerEntry
  <1>3. ASSUME NEW q \in Procs, q # p
        PROVE  SnapAt(q)' /\ SoundAt(q)'
    <2>1. pc'[q] = pc[q] /\ pc[q] \notin Critical
      BY <1>1, <1>2, <1>3, Alone, GotoPc
    <2>2. ctx'[q] = ctx[q]
      BY <1>3 DEF Handler, Replay, Conflict, Begin, ReadProof, Attach, Submit,
                  Note, Exit, Commit, Publish, Journal, Reply, Release, LineInv,
                  TypeOK
    <2>3. CASE pc[q] = "queued"
      <3>1. cache' \in Position
        BY HandlerPresent, HandlerLine DEF LineInv, TypeOK, HeldInv, Present
      <3>2. SnapAt(q)'
        BY <2>1, <2>2, <2>3, <3>1, QueuedSnap, HandlerMoves, HandlerRises
           DEF SnapInv
      <3> QED BY <2>1, <2>3, <3>2 DEF SoundAt
    <2>4. CASE pc[q] # "queued"
      BY <2>1, <2>4 DEF SnapAt, SoundAt, Critical
    <2> QED BY <2>3, <2>4
  <1> QED BY <1>3, OwnSnap, HandlerSound DEF SnapInv

LEMMA ArriveSnap ==
    ASSUME NonceAhead = 0, LineInv, HeldInv, SnapInv,
           NEW p \in Procs, NEW r \in Request, Arrive(p, r)
    PROVE  SnapInv'
  <1>1. /\ UNCHANGED <<cache, mem, disk>> /\ pc'[p] = "queued"
        /\ \A q \in Procs : q # p => pc'[q] = pc[q] /\ ctx'[q] = ctx[q]
    BY ArriveBooks
  <1>2. /\ ctx'[p].req = r /\ ctx'[p].before = cache
        /\ r.nonce <= cache.nonce
    <2>1. cache.nonce \in Nat
      BY DEF LineInv, TypeOK, HeldInv, Present, Position
    <2> QED BY <2>1 DEF Arrive, LineInv, TypeOK, Blank
  <1>3. SnapAt(p)' /\ SoundAt(p)'
    <2>1. cache.nonce \in Nat
      BY DEF LineInv, TypeOK, HeldInv, Present, Position
    <2> QED BY <1>1, <1>2, <2>1 DEF SnapAt, SoundAt
  <1>4. ASSUME NEW q \in Procs, q # p
        PROVE  SnapAt(q)' /\ SoundAt(q)'
    <2>1. SameContext(q) /\ pc'[q] = pc[q]
      BY <1>1, <1>4 DEF SameContext
    <2> QED BY <1>1, <2>1, SameAdvanced
            DEF SnapInv, SnapAt, SoundAt, Sound, SameContext
  <1>5. Sound(cache)' /\ Sound(mem.position)' /\ Sound(disk.position)'
    BY <1>1 DEF SnapInv, Sound
  <1> QED BY <1>3, <1>4, <1>5 DEF SnapInv

LEMMA BesideSnap ==
    ASSUME LineInv, HeldInv, SnapInv, ConnectRead \/ ConnectWrite \/ RefreshProof
    PROVE  SnapInv'
  <1>1. cache \in Position /\ conn.collateral \in Nat
    BY DEF LineInv, TypeOK, HeldInv, Present
  <1>2. Sound(cache') /\ Sound(mem'.position) /\ Sound(disk'.position)
    BY <1>1, BesideEffect, ReconnectedSound DEF SnapInv, HeldInv
  <1>3. ASSUME NEW q \in Procs
        PROVE  SnapAt(q)' /\ SoundAt(q)'
    <2>1. /\ SameContext(q) /\ pc'[q] = pc[q]
          /\ cache'.nonce = cache.nonce /\ cache'.debt = cache.debt
      BY BesideEffect, BesideHeld DEF SameContext, HeldInv
    <2> QED BY <2>1, SameAdvanced DEF SnapInv, SnapAt, SoundAt, Sound, SameContext
  <1> QED BY <1>2, <1>3 DEF SnapInv, Sound

LEMMA SnapStep ==
    ASSUME NonceAhead = 0, LineInv, HeldInv, SnapInv, [Next]_vars
    PROVE  SnapInv'
  <1>1. ASSUME UNCHANGED <<cache, mem, pc, ctx>>, disk' \in {mem', disk}
        PROVE  SnapInv'
    <2>1. ASSUME NEW q \in Procs
          PROVE  SnapAt(q)' /\ SoundAt(q)'
      <3>1. SameContext(q)
        BY <1>1 DEF SameContext
      <3> QED BY <1>1, <3>1, SameAdvanced
              DEF SnapInv, SnapAt, SoundAt, Sound, SameContext
    <2> QED BY <1>1, <2>1 DEF SnapInv, Sound
  <1>2. ASSUME NEW p \in Procs, NEW r \in Request, Arrive(p, r)
        PROVE  SnapInv'
    BY <1>2, ArriveSnap
  <1>3. ASSUME NEW p \in Procs, Handler(p)
        PROVE  SnapInv'
    BY <1>3, HandlerSnap
  <1>4. CASE ConnectRead \/ ConnectWrite \/ RefreshProof
    BY <1>4, BesideSnap
  <1>5. CASE ResetWipe \/ ResetReload
    BY <1>5, NoReset DEF HeldInv
  <1>6. CASE Flush \/ FlushFails
    BY <1>1, <1>6, FileEffect
  <1>7. CASE Crash
    <2>1. /\ mem' = disk /\ cache' = disk.position /\ UNCHANGED disk
          /\ \A q \in Procs : pc'[q] = "idle"
      BY <1>7, CrashBooks
    <2> QED BY <2>1 DEF SnapInv, SnapAt, SoundAt, Sound
  <1>8. CASE UNCHANGED vars
    BY <1>1, <1>8 DEF vars
  <1> QED BY <1>2, <1>3, <1>4, <1>5, <1>6, <1>7, <1>8 DEF Next

\* What the position's own invariants assume: nobody resets the store, and no
\* client signs a nonce it has not been shown.
Shown == Budget["reset"] = 0 /\ NonceAhead = 0

\* Every copy of the position is one the code may hold, and so is every one a
\* request is about to write.
THEOREM SnapInvariant ==
    ASSUME Shown
    PROVE  Spec => []SnapInv
  <1>1. LineInv /\ HeldInv /\ SnapInv /\ [Next]_vars => SnapInv'
    BY SnapStep DEF Shown
  <1>2. Spec => []HeldInv
    BY HeldInvariant DEF Shown
  <1> QED BY SnapInit, <1>1, <1>2, LineInvariant, PTL DEF Spec

\* A position that owes more than its limit is frozen, in the cache, in the
\* database and on file (store.ts:214-223), however connects that shrink the
\* limit interleave with draws.
THEOREM OverdrawnIsFrozenHolds ==
    ASSUME Shown
    PROVE  Spec => []OverdrawnIsFrozen
  <1>1. SnapInv => OverdrawnIsFrozen
    BY DEF SnapInv, Sound, OverdrawnIsFrozen
  <1> QED BY <1>1, SnapInvariant, PTL

-----------------------------------------------------------------------------
(* The debt of a list of receipts: a recursive function, so the lemmas go by *)
(* least counterexample.                                                     *)

\* f adds up the first k receipts of s.
AddsUp(f, s, k) ==
    f = [n \in 0..k |-> IF n = 0 THEN 0 ELSE OwedAfter(f[n - 1], s[n])]

\* A set of naturals that is not empty has a least element.
LEMMA LeastNatural ==
    ASSUME NEW T \in SUBSET Nat, T # {}
    PROVE  \E m \in T : \A n \in T : m <= n
  <1>1. PICK t \in T : TRUE
    OBVIOUS
  <1> DEFINE S == FiniteSubsetsOf(1..t)
             R == StrictSubsetOrdering(1..t)
             U == {1..m : m \in {n \in T : n <= t}}
  <1>2. U \subseteq S /\ 1..t \in U
    <2>1. ASSUME NEW m \in T, m <= t
          PROVE  1..m \in S
      <3>1. IsFiniteSet(1..m)
        BY <2>1, FS_Interval
      <3>2. 1..m \subseteq 1..t
        BY <2>1
      <3> QED BY <3>1, <3>2 DEF FiniteSubsetsOf
    <2>2. U \subseteq S
      <3> HIDE DEF S
      <3> QED BY <2>1
    <2>3. t \in {n \in T : n <= t}
      OBVIOUS
    <2> QED BY <2>2, <2>3
  <1>3. IsWellFoundedOn(R, S)
    BY FS_StrictSubsetOrderingWellFounded
  <1>4. \E x \in U : \A y \in U : <<y, x>> \notin R
    <2> HIDE DEF S, R, U
    <2> QED BY <1>2, <1>3, WFMin
  <1>5. PICK m \in T : m <= t /\ \A y \in U : <<y, 1..m>> \notin R
    BY <1>4
  <1>6. ASSUME NEW n \in T, n < m
        PROVE  FALSE
    <2>1. 1..n \in U
      BY <1>5, <1>6
    <2>2. 1..n \in SUBSET (1..t) /\ 1..m \in SUBSET (1..t)
      BY <1>5, <1>6
    <2>3. 1..n \subseteq 1..m /\ 1..n # 1..m
      BY <1>6
    <2>4. <<1..n, 1..m>> \in R
      BY <2>2, <2>3 DEF StrictSubsetOrdering
    <2> QED BY <1>5, <2>1, <2>4
  <1> QED BY <1>6

LEMMA NetDebtIs ==
    ASSUME NEW s
    PROVE  NetDebt(s) = (CHOOSE f : AddsUp(f, s, Len(s)))[Len(s)]
  BY DEF NetDebt, AddsUp

\* There is one such function, however many receipts.
LEMMA AddsUpExists ==
    ASSUME NEW s \in Seq(Receipt)
    PROVE  \E f : AddsUp(f, s, Len(s))
  <1> DEFINE T == {k \in 0..Len(s) : ~ \E f : AddsUp(f, s, k)}
  <1>1. T \in SUBSET Nat /\ Len(s) \in Nat
    OBVIOUS
  <1>2. ASSUME NEW m \in T, \A n \in T : m <= n
        PROVE  FALSE
    <2>1. m \in 0..Len(s) /\ ~ \E f : AddsUp(f, s, m)
      OBVIOUS
    <2>2. CASE m = 0
      <3>1. AddsUp([n \in 0..0 |-> 0], s, 0)
        BY DEF AddsUp
      <3> QED BY <2>1, <2>2, <3>1
    <2>3. CASE m # 0
      <3>1. m - 1 \in 0..Len(s) /\ m - 1 \notin T
        BY <1>2, <2>1, <2>3
      <3>2. PICK g : AddsUp(g, s, m - 1)
        BY <3>1
      <3> DEFINE f == [n \in 0..m |-> IF n = m THEN OwedAfter(g[m - 1], s[m])
                                               ELSE g[n]]
      <3>3. ASSUME NEW n \in 0..m
            PROVE  f[n] = IF n = 0 THEN 0 ELSE OwedAfter(f[n - 1], s[n])
        <4>1. CASE n = m
          BY <2>1, <2>3, <4>1
        <4>2. CASE n # m
          BY <2>1, <2>3, <3>2, <4>2 DEF AddsUp
        <4> QED BY <4>1, <4>2
      <3>4. AddsUp(f, s, m)
        BY <3>3 DEF AddsUp
      <3> QED BY <2>1, <3>4
    <2> QED BY <2>2, <2>3
  <1>3. T = {}
    <2> HIDE DEF T
    <2> QED BY <1>1, <1>2, LeastNatural
  <1>4. Len(s) \in 0..Len(s)
    BY <1>1
  <1> QED BY <1>3, <1>4

\* Receipts added later leave the sum of the earlier ones.
LEMMA AddsUpAgrees ==
    ASSUME NEW s \in Seq(Receipt), NEW t \in Seq(Receipt), Len(s) <= Len(t),
           \A i \in 1..Len(s) : t[i] = s[i],
           NEW f, AddsUp(f, s, Len(s)), NEW g, AddsUp(g, t, Len(t))
    PROVE  g[Len(s)] = f[Len(s)]
  <1> DEFINE T == {n \in 0..Len(s) : g[n] # f[n]}
  <1>1. T \in SUBSET Nat /\ Len(s) \in Nat /\ Len(t) \in Nat
    OBVIOUS
  <1>2. ASSUME NEW m \in T, \A n \in T : m <= n
        PROVE  FALSE
    <2>1. m \in 0..Len(s) /\ g[m] # f[m]
      OBVIOUS
    <2>2. CASE m = 0
      BY <1>1, <2>1, <2>2 DEF AddsUp
    <2>3. CASE m # 0
      <3>1. g[m - 1] = f[m - 1]
        BY <1>2, <2>1, <2>3
      <3>2. /\ f[m] = OwedAfter(f[m - 1], s[m])
            /\ g[m] = OwedAfter(g[m - 1], t[m])
        BY <1>1, <2>1, <2>3 DEF AddsUp
      <3> QED BY <2>1, <2>3, <3>1, <3>2
    <2> QED BY <2>2, <2>3
  <1>3. T = {}
    <2> HIDE DEF T
    <2> QED BY <1>1, <1>2, LeastNatural
  <1> QED BY <1>1, <1>3

\* One more receipt moves the debt by what it says.
LEMMA NetDebtAppend ==
    ASSUME NEW s \in Seq(Receipt), NEW x \in Receipt
    PROVE  NetDebt(Append(s, x)) = OwedAfter(NetDebt(s), x)
  <1> DEFINE t == Append(s, x)
  <1>1. /\ t \in Seq(Receipt) /\ Len(t) = Len(s) + 1 /\ Len(s) \in Nat
        /\ t[Len(s) + 1] = x /\ \A i \in 1..Len(s) : t[i] = s[i]
    OBVIOUS
  <1> HIDE DEF t
  <1> DEFINE f == CHOOSE f : AddsUp(f, s, Len(s))
             g == CHOOSE g : AddsUp(g, t, Len(t))
  <1>2. AddsUp(f, s, Len(s)) /\ AddsUp(g, t, Len(t))
    BY <1>1, AddsUpExists
  <1>3. NetDebt(s) = f[Len(s)] /\ NetDebt(t) = g[Len(t)]
    BY NetDebtIs
  <1> HIDE DEF f, g
  <1>4. g[Len(s)] = f[Len(s)]
    <2>1. Len(s) \in Nat /\ Len(t) \in Nat /\ Len(s) <= Len(t)
      BY <1>1
    <2> QED BY <1>1, <1>2, <2>1, AddsUpAgrees
  <1>5. g[Len(t)] = OwedAfter(g[Len(s)], x)
    BY <1>1, <1>2 DEF AddsUp
  <1>6. NetDebt(t) = OwedAfter(NetDebt(s), x)
    BY <1>1, <1>3, <1>4, <1>5
  <1> QED BY <1>6 DEF t

\* A decision moves the debt by whole units, takes no more than there is, and
\* leaves the larger debt the larger.
LEMMA OwedAfterType ==
    ASSUME NEW n \in Nat, NEW x \in Receipt
    PROVE  OwedAfter(n, x) \in Nat
  <1>1. x.req.amount \in Nat
    BY RequestFields DEF Receipt
  <1> QED BY <1>1 DEF OwedAfter

LEMMA OwedAfterGrows ==
    ASSUME NEW m \in Nat, NEW n \in Nat, m <= n, NEW x \in Receipt
    PROVE  OwedAfter(m, x) <= OwedAfter(n, x)
  <1>1. x.req.amount \in Nat
    BY RequestFields DEF Receipt
  <1> QED BY <1>1 DEF OwedAfter

\* The receipts account for whole units.
LEMMA NetDebtType ==
    ASSUME NEW s \in Seq(Receipt)
    PROVE  NetDebt(s) \in Nat
  <1> DEFINE f == CHOOSE f : AddsUp(f, s, Len(s))
             T == {n \in 0..Len(s) : f[n] \notin Nat}
  <1>1. AddsUp(f, s, Len(s))
    BY AddsUpExists
  <1>2. NetDebt(s) = f[Len(s)]
    BY NetDebtIs
  <1>3. T \in SUBSET Nat /\ Len(s) \in Nat
    OBVIOUS
  <1> HIDE DEF f
  <1>4. ASSUME NEW m \in T, \A n \in T : m <= n
        PROVE  FALSE
    <2>1. m \in 0..Len(s) /\ f[m] \notin Nat
      OBVIOUS
    <2>2. CASE m = 0
      BY <1>1, <2>1, <2>2 DEF AddsUp
    <2>3. CASE m # 0
      <3>1. f[m - 1] \in Nat
        BY <1>4, <2>1, <2>3
      <3>2. s[m] \in Receipt
        BY <2>1, <2>3
      <3>3. OwedAfter(f[m - 1], s[m]) \in Nat
        BY <3>1, <3>2, OwedAfterType
      <3> QED BY <1>1, <2>1, <2>3, <3>1, <3>3 DEF AddsUp
    <2> QED BY <2>2, <2>3
  <1>5. T = {}
    <2> HIDE DEF T
    <2> QED BY <1>3, <1>4, LeastNatural
  <1> QED BY <1>2, <1>3, <1>5

LEMMA NetDebtEmpty == NetDebt(<<>>) = 0
  <1> DEFINE f == CHOOSE f : AddsUp(f, <<>>, Len(<<>>))
  <1>1. AddsUp(f, <<>>, Len(<<>>))
    <2>1. <<>> \in Seq(Receipt)
      OBVIOUS
    <2> QED BY <2>1, AddsUpExists
  <1>2. NetDebt(<<>>) = f[Len(<<>>)]
    BY NetDebtIs
  <1> HIDE DEF f
  <1>3. f[0] = 0
    BY <1>1 DEF AddsUp
  <1> QED BY <1>2, <1>3

\* A refusal moves no debt.
LEMMA RefusedDebt ==
    ASSUME LineInv, JournalInv, NEW p \in Procs, pc[p] = "note"
    PROVE  NetDebt(Append(mem.receipts, ReceiptOf(p))) = NetDebt(mem.receipts)
  <1>1. mem.receipts \in Seq(Receipt) /\ ReceiptOf(p) \in Receipt
    BY Writes DEF LineInv, TypeOK, Database, Critical
  <1>2. ctx[p].outcome # "ok"
    BY DEF JournalInv, Fresh, FreshAt
  <1>3. ReceiptOf(p).result # "ALLOW"
    BY <1>2 DEF ReceiptOf
  <1> QED BY <1>1, <1>3, NetDebtAppend DEF OwedAfter

\* An approval moves the debt by what its receipt says; an unlock leaves it.
LEMMA CommitMoves ==
    ASSUME LineInv, JournalInv, NEW p \in Procs, pc[p] = "commit"
    PROVE  /\ ~Unlocking(p) =>
                Advanced(p).debt = OwedAfter(ctx[p].cur.debt, ReceiptOf(p))
           /\ Unlocking(p) =>
                \A n \in Nat : OwedAfter(n, ReceiptOf(p)) = n
  <1>1. /\ pc[p] \in Critical /\ ctx[p].outcome = "ok"
    BY DEF JournalInv, Fresh, FreshAt, Critical
  <1>2. ctx[p].req \in Request /\ ctx[p].cur \in Position
    BY <1>1, Carried
  <1>3. /\ ctx[p].req.action \in {"DRAW", "REPAY", "UNLOCK"}
        /\ ctx[p].req.amount \in Nat
        /\ ctx[p].req.action = "UNLOCK" => ctx[p].req.amount = 0
    BY <1>2, RequestFields
  <1>4. ReceiptOf(p).result = "ALLOW" /\ ReceiptOf(p).req = ctx[p].req
    BY <1>1 DEF ReceiptOf
  <1>5. CASE ctx[p].req.action = "DRAW"
    <2>1. Advanced(p).debt = ctx[p].cur.debt + ctx[p].req.amount
      BY <1>2, <1>5 DEF Advanced, drawn, Position
    <2> QED BY <1>4, <1>5, <2>1 DEF OwedAfter, Unlocking
  <1>6. CASE ctx[p].req.action = "REPAY"
    <2>1. Advanced(p).debt =
            ctx[p].cur.debt - repayable(ctx[p].cur, ctx[p].req.amount)
      BY <1>2, <1>6 DEF Advanced, repaid, Position
    <2>2. ctx[p].cur.debt \in Nat
      BY <1>2 DEF Position
    <2> QED BY <1>3, <1>4, <1>6, <2>1, <2>2 DEF OwedAfter, Unlocking, repayable
  <1>7. CASE ctx[p].req.action = "UNLOCK"
    BY <1>3, <1>4, <1>7 DEF OwedAfter, Unlocking
  <1> QED BY <1>3, <1>5, <1>6, <1>7

-----------------------------------------------------------------------------
(* Exits.  Whatever snapshots are written back, no position owes less than   *)
(* its receipts account for, so an unlock that finds no debt leaves none.    *)

Covers(receipts, position) ==
    NetDebt(receipts) <= IF position = NoPosition THEN 0 ELSE position.debt

\* Every approved unlock among the receipts came when they left no debt.
Repaid(receipts) ==
    \A i \in Allowed(receipts) :
        receipts[i].req.action = "UNLOCK" => NetDebt(SubSeq(receipts, 1, i)) = 0

\* The position a request decides on, and the one it is about to publish,
\* owes what the receipts account for; an unlock goes on with one that owes
\* nothing.
CoveredAt(p) ==
    /\ pc[p] \in {"reading", "submit", "exit", "commit"} =>
         NetDebt(mem.receipts) <= ctx[p].cur.debt
    /\ pc[p] = "reading" => ~Unlocking(p)
    /\ pc[p] = "exit" => Unlocking(p)
    /\ pc[p] \in {"submit", "exit", "commit"} /\ Unlocking(p) =>
         ctx[p].cur.debt = 0
    /\ pc[p] = "publish" => NetDebt(mem.receipts) <= Advanced(p).debt

Covered ==
    /\ InStep => /\ Covers(mem.receipts, mem.position)
                 /\ Covers(disk.receipts, disk.position)
    /\ (\A p \in Procs : pc[p] # "publish") => Covers(mem.receipts, cache)
    /\ \A p \in Procs : CoveredAt(p)

RepaidInv == Repaid(mem.receipts) /\ Repaid(disk.receipts) /\ Covered

LEMMA RepaidEmpty == Repaid(<<>>)
  BY DEF Repaid, Allowed

LEMMA RepaidAppend ==
    ASSUME NEW s \in Seq(Receipt), NEW x \in Receipt, Repaid(s),
           x.result = "ALLOW" /\ x.req.action = "UNLOCK" =>
             NetDebt(Append(s, x)) = 0
    PROVE  Repaid(Append(s, x))
  <1> DEFINE t == Append(s, x)
  <1>1. /\ t \in Seq(Receipt) /\ Len(t) = Len(s) + 1 /\ Len(s) \in Nat
        /\ DOMAIN t = 1..(Len(s) + 1) /\ DOMAIN s = 1..Len(s)
        /\ t[Len(s) + 1] = x
        /\ \A i \in 1..Len(s) : t[i] = s[i]
    OBVIOUS
  <1> HIDE DEF t
  <1>2. ASSUME NEW i \in Allowed(t), t[i].req.action = "UNLOCK"
        PROVE  NetDebt(SubSeq(t, 1, i)) = 0
    <2>1. CASE i = Len(s) + 1
      <3>1. SubSeq(t, 1, i) = t
        BY <1>1, <2>1, SubSeqFull
      <3>2. t[i] = x /\ x.result = "ALLOW"
        BY <1>1, <1>2, <2>1 DEF Allowed
      <3> QED BY <1>2, <3>1, <3>2 DEF t
    <2>2. CASE i # Len(s) + 1
      <3>1. i \in 1..Len(s) /\ t[i] = s[i] /\ i \in Allowed(s)
        BY <1>1, <1>2, <2>2 DEF Allowed
      <3>2. SubSeq(t, 1, i) = SubSeq(s, 1, i)
        <4>1. SubSeq(t, 1, i) = [j \in 1..i |-> t[j]]
          BY <1>1, <3>1
        <4>2. SubSeq(s, 1, i) = [j \in 1..i |-> s[j]]
          BY <1>1, <3>1
        <4>3. \A j \in 1..i : t[j] = s[j]
          BY <1>1, <3>1
        <4> QED BY <4>1, <4>2, <4>3
      <3> QED BY <1>2, <3>1, <3>2 DEF Repaid
    <2> QED BY <2>1, <2>2
  <1> QED BY <1>2 DEF Repaid, t

LEMMA RepaidInit == Init => RepaidInv
  <1> SUFFICES ASSUME Init PROVE RepaidInv
    OBVIOUS
  <1>1. /\ mem.receipts = <<>> /\ disk.receipts = <<>>
        /\ cache.debt = 0 /\ mem.position = cache /\ disk.position = cache
        /\ \A a \in Actor : pc[a] = "idle"
    BY DEF Init, opened
  <1>2. Covers(<<>>, cache)
    BY <1>1, NetDebtEmpty DEF Covers
  <1> QED BY <1>1, <1>2, RepaidEmpty
          DEF RepaidInv, Covered, CoveredAt, Repaid, Actor

LEMMA NetDebts ==
    ASSUME LineInv
    PROVE  /\ mem.receipts \in Seq(Receipt)
           /\ NetDebt(mem.receipts) \in Nat
           /\ \A x \in Position : x.debt \in Nat
  BY NetDebtType DEF LineInv, TypeOK, Database, Position

\* A handler that writes no receipt.
LEMMA QuietRepaid ==
    ASSUME RepaidInv, mem'.receipts = mem.receipts, disk' \in {mem', disk},
           InStep => Covers(mem'.receipts, mem'.position),
           (\A p \in Procs : pc'[p] # "publish") => Covers(mem'.receipts, cache'),
           \A p \in Procs : CoveredAt(p)'
    PROVE  RepaidInv'
  <1>1. Repaid(mem'.receipts) /\ Repaid(disk'.receipts)
    BY DEF RepaidInv
  <1>2. InStep => Covers(disk'.receipts, disk'.position)
    BY DEF RepaidInv, Covered
  <1>3. Repaid(mem.receipts)' /\ Repaid(disk.receipts)'
    BY <1>1 DEF Repaid, Allowed
  <1>4. Covered'
    BY <1>2 DEF Covered, Covers
  <1> QED BY <1>3, <1>4 DEF RepaidInv

\* What a step leaves alone.
LEMMA StillCovered ==
    ASSUME NEW p \in Procs, CoveredAt(p), pc'[p] = pc[p], ctx'[p] = ctx[p],
           mem'.receipts = mem.receipts
    PROVE  CoveredAt(p)'
  <1>1. Advanced(p)' = Advanced(p) /\ Unlocking(p)' = Unlocking(p)
    BY SameAdvanced DEF SameContext
  <1> QED BY <1>1 DEF CoveredAt

LEMMA StillRepaid ==
    ASSUME RepaidInv, UNCHANGED <<cache, mem, pc, ctx>>, disk' \in {mem', disk}
    PROVE  RepaidInv'
  <1>1. \A q \in Procs : CoveredAt(q)'
    BY StillCovered DEF RepaidInv, Covered
  <1> QED BY <1>1, QuietRepaid DEF RepaidInv, Covered

LEMMA BeginRepaid ==
    ASSUME LineInv, RepaidInv, NEW p \in Procs, Begin(p)
    PROVE  RepaidInv'
  <1> DEFINE net == NetDebt(mem.receipts)
  <1>1. /\ UNCHANGED <<cache, mem, disk>> /\ ctx'[p].cur = Current(p)
        /\ ctx'[p].req = ctx[p].req /\ pc[p] = "queued"
    BY DEF Begin, Entering, LineInv, TypeOK, Context
  <1>2. \A q \in Procs : q # p => /\ pc'[q] = pc[q] /\ ctx'[q] = ctx[q]
                                  /\ pc[q] \notin Critical
    <2>1. pc[p] \in Critical \/ Entering(p)
      BY DEF Begin
    <2>2. \A q \in Procs : q # p => ctx'[q] = ctx[q]
      BY DEF Begin, LineInv, TypeOK
    <2> QED BY <2>1, <2>2, Alone, GotoPc DEF Begin
  <1>3. pc'[p] = IF ctx[p].req.action = "DRAW" THEN "reading"
                 ELSE IF Refused(p) THEN "note" ELSE "submit"
    BY GotoPc DEF Begin
  <1>4. Covers(mem.receipts, cache)
    BY <1>1, <1>2 DEF RepaidInv, Covered, Critical
  <1>5. /\ net \in Nat /\ ctx[p].before \in Position
        /\ cache \in Position \cup {NoPosition}
        /\ \A x \in Position : x.debt \in Nat
    BY <1>1, NetDebts DEF LineInv, TypeOK, Carries
  <1>6. net <= Current(p).debt
    BY <1>4, <1>5 DEF Covers, Current
  <1>7. CoveredAt(p)'
    BY <1>1, <1>3, <1>6 DEF CoveredAt, Unlocking, Refused
  <1>8. \A q \in Procs : CoveredAt(q)'
    BY <1>2, <1>7 DEF CoveredAt, Critical
  <1> QED BY <1>1, <1>4, <1>8, QuietRepaid DEF RepaidInv, Covered

\* What a handler saves before its commit, and what it publishes.
LEMMA HandlerCovers ==
    ASSUME LineInv, RepaidInv, NEW p \in Procs, pc[p] \in Critical,
           Handler(p), ~Notes(p), ~Commits(p)
    PROVE  /\ mem'.receipts = mem.receipts
           /\ InStep => Covers(mem.receipts, mem'.position)
           /\ Covers(mem.receipts, cache')
  <1> DEFINE net == NetDebt(mem.receipts)
  <1>1. /\ ctx[p].cur \in Position /\ ctx[p].before \in Position
        /\ Advanced(p) \in Position /\ Advanced(p) # NoPosition
        /\ frozen(ctx[p].cur).debt = ctx[p].cur.debt
        /\ frozen(ctx[p].cur) # NoPosition
    BY Carried, FrozenFields, Writes, NoNone DEF LineInv
  <1>2. net \in Nat /\ \A x \in Position : x.debt \in Nat
    BY NetDebts
  <1>3. pc[p] # "publish" => Covers(mem.receipts, cache)
    <2>1. \A q \in Procs : q # p => pc[q] \notin Critical
      BY HandlerEntry, Alone
    <2> QED BY <2>1 DEF RepaidInv, Covered, Critical
  <1>4. CoveredAt(p)
    BY DEF RepaidInv, Covered
  <1>5. CASE Keeps(p)
    <2>1. pc[p] = "publish" => Covers(mem.receipts, Advanced(p))
      BY <1>1, <1>4 DEF CoveredAt, Covers
    <2> QED BY <1>3, <1>5, <2>1, HandlerEffect DEF Keeps, RepaidInv, Covered, Covers
  <1>6. CASE Saves(p)
    <2>1. CASE pc[p] = "attach" /\ UNCHANGED cache
      BY <1>3, <1>6, <2>1 DEF Saves
    <2>2. CASE pc[p] \in {"reading", "submit"} /\ cache' = frozen(ctx[p].cur)
      BY <1>1, <1>4, <1>6, <2>2 DEF Saves, CoveredAt, Covers
    <2>3. CASE pc[p] = "exit" /\ cache' = Advanced(p)
      <3>1. net <= 0
        BY <1>4, <2>3 DEF CoveredAt
      <3> QED BY <1>1, <1>2, <1>6, <2>3, <3>1 DEF Saves, Covers
    <2> QED BY <1>6, <2>1, <2>2, <2>3 DEF Saves
  <1> QED BY <1>5, <1>6, HandlerEffect

\* A handler goes on with the position it has.
LEMMA GoesCovered ==
    ASSUME LineInv, RepaidInv, NEW p \in Procs, Handler(p), ~Begin(p),
           mem'.receipts = mem.receipts, pc'[p] # "publish"
    PROVE  CoveredAt(p)'
  <1>1. CoveredAt(p)
    BY DEF RepaidInv, Covered
  <1>2. CASE /\ SameContext(p) /\ pc'[p] \in {"submit", "exit", "commit"}
             /\ \/ pc[p] = "reading" /\ pc'[p] = "submit"
                \/ pc[p] = "submit" /\ pc'[p] = "exit" /\ Unlocking(p)
                \/ pc[p] = "submit" /\ pc'[p] = "commit" /\ ~Unlocking(p)
                \/ pc[p] = "exit" /\ pc'[p] = "commit"
    <2>1. ctx'[p].cur = ctx[p].cur /\ Unlocking(p)' = Unlocking(p)
      BY <1>2 DEF SameContext, Unlocking
    <2> QED BY <1>1, <1>2, <2>1 DEF CoveredAt
  <1>3. CASE pc'[p] \notin {"reading", "submit", "exit", "commit", "publish"}
    BY <1>3 DEF CoveredAt
  <1> QED BY <1>2, <1>3, HandlerGoes

\* A commit adds its receipt to those the position it publishes owes for.
LEMMA CommitRepaid ==
    ASSUME LineInv, JournalInv, RepaidInv, NEW p \in Procs, Handler(p),
           Commits(p)
    PROVE  RepaidInv'
  <1> DEFINE x == ReceiptOf(p)
             net == NetDebt(mem.receipts)
             cur == ctx[p].cur
  <1>1. /\ pc[p] = "commit" /\ pc'[p] = "publish" /\ UNCHANGED cache
        /\ mem'.receipts = Append(mem.receipts, x)
        /\ mem'.position = Advanced(p) /\ Advanced(p)' = Advanced(p)
        /\ disk' \in {mem', disk}
    BY HandlerEffect, SameAdvanced DEF Commits
  <1>2. /\ mem.receipts \in Seq(Receipt) /\ x \in Receipt /\ net \in Nat
        /\ cur \in Position /\ cur.debt \in Nat
        /\ Advanced(p) # NoPosition /\ Advanced(p).debt \in Nat
    BY <1>1, Carried, NetDebts, Writes DEF LineInv, Critical
  <1>3. net <= cur.debt /\ Unlocking(p) => cur.debt = 0
    BY <1>1 DEF RepaidInv, Covered, CoveredAt
  <1>4. NetDebt(mem'.receipts) = OwedAfter(net, x)
    BY <1>1, <1>2, NetDebtAppend
  <1>5. /\ Unlocking(p) => NetDebt(mem'.receipts) = 0
        /\ NetDebt(mem'.receipts) <= Advanced(p).debt
    <2>1. CASE Unlocking(p)
      <3>1. net = 0
        BY <1>1, <1>2, <2>1 DEF RepaidInv, Covered, CoveredAt
      <3>2. OwedAfter(net, x) = net
        BY <1>1, <1>2, <2>1, CommitMoves
      <3> QED BY <1>2, <1>4, <3>1, <3>2
    <2>2. CASE ~Unlocking(p)
      <3>1. Advanced(p).debt = OwedAfter(cur.debt, x)
        BY <1>1, <2>2, CommitMoves
      <3>2. net <= cur.debt
        BY <1>1 DEF RepaidInv, Covered, CoveredAt
      <3>3. OwedAfter(net, x) <= OwedAfter(cur.debt, x)
        BY <1>2, <3>2, OwedAfterGrows
      <3> QED BY <1>4, <2>2, <3>1, <3>3
    <2> QED BY <2>1, <2>2
  <1>6. x.req.action = "UNLOCK" => Unlocking(p)
    BY DEF ReceiptOf, Unlocking
  <1> HIDE DEF x, net, cur
  <1>7. Repaid(mem'.receipts)
    BY <1>1, <1>2, <1>5, <1>6, RepaidAppend DEF RepaidInv
  <1>8. Covers(mem'.receipts, mem'.position)
    BY <1>1, <1>2, <1>5 DEF Covers
  <1>9. \A q \in Procs : q # p => pc'[q] = pc[q] /\ pc[q] \notin Critical
    BY <1>1, Alone, GotoPc, HandlerEntry DEF Critical
  <1>10. CoveredAt(p)'
    BY <1>1, <1>5 DEF CoveredAt
  <1>11. \A q \in Procs : CoveredAt(q)'
    BY <1>9, <1>10 DEF CoveredAt, Critical
  <1>12. /\ Repaid(disk'.receipts)
         /\ InStep => Covers(disk'.receipts, disk'.position)
    BY <1>1, <1>7, <1>8 DEF RepaidInv, Covered
  <1>13. Repaid(mem.receipts)' /\ Repaid(disk.receipts)'
    BY <1>7, <1>12 DEF Repaid, Allowed
  <1>14. Covered'
    BY <1>1, <1>8, <1>11, <1>12 DEF Covered, Covers
  <1> QED BY <1>13, <1>14 DEF RepaidInv

LEMMA NoteRepaid ==
    ASSUME LineInv, JournalInv, RepaidInv, NEW p \in Procs, Handler(p), Notes(p)
    PROVE  RepaidInv'
  <1> DEFINE x == ReceiptOf(p)
  <1>1. /\ pc[p] = "note" /\ UNCHANGED cache
        /\ mem'.receipts = Append(mem.receipts, x)
        /\ mem'.position = mem.position /\ disk' \in {mem', disk}
    BY HandlerEffect DEF Notes
  <1>2. NetDebt(mem'.receipts) = NetDebt(mem.receipts)
    BY <1>1, RefusedDebt
  <1>3. x.result # "ALLOW"
    BY <1>1 DEF ReceiptOf, JournalInv, Fresh, FreshAt
  <1>4. mem.receipts \in Seq(Receipt) /\ x \in Receipt
    BY <1>1, NetDebts, Writes DEF LineInv, Critical
  <1> HIDE DEF x
  <1>5. Repaid(mem'.receipts)
    BY <1>1, <1>3, <1>4, RepaidAppend DEF RepaidInv
  <1>6. InStep => Covers(mem'.receipts, mem'.position)
    BY <1>1, <1>2 DEF RepaidInv, Covered, Covers
  <1>7. \A q \in Procs : q # p => pc'[q] = pc[q] /\ pc[q] \notin Critical
    BY <1>1, Alone, GotoPc, HandlerEntry DEF Critical
  <1>8. Covers(mem'.receipts, cache')
    BY <1>1, <1>2, <1>7 DEF RepaidInv, Covered, Covers, Critical
  <1>9. pc'[p] \notin {"reading", "submit", "exit", "commit", "publish"}
    <2>1. ~Begin(p)
      BY <1>1 DEF Begin, Entering
    <2> QED BY <1>1, <2>1, HandlerGoes
  <1>10. \A q \in Procs : CoveredAt(q)'
    BY <1>7, <1>9 DEF CoveredAt, Critical
  <1>11. /\ Repaid(disk'.receipts)
         /\ InStep => Covers(disk'.receipts, disk'.position)
    BY <1>1, <1>5, <1>6 DEF RepaidInv, Covered
  <1>12. Repaid(mem.receipts)' /\ Repaid(disk.receipts)'
    BY <1>5, <1>11 DEF Repaid, Allowed
  <1>13. Covered'
    BY <1>6, <1>8, <1>10, <1>11 DEF Covered, Covers
  <1> QED BY <1>12, <1>13 DEF RepaidInv

LEMMA HandlerRepaid ==
    ASSUME LineInv, JournalInv, RepaidInv, NEW p \in Procs, Handler(p)
    PROVE  RepaidInv'
  <1>1. CASE Begin(p)
    BY <1>1, BeginRepaid
  <1>2. CASE Commits(p)
    BY <1>2, CommitRepaid
  <1>3. CASE Notes(p)
    BY <1>3, NoteRepaid
  <1>4. CASE ~Begin(p) /\ ~Commits(p) /\ ~Notes(p)
    <2>1. \A q \in Procs : q # p => pc'[q] = pc[q] /\ pc[q] \notin Critical
      BY HandlerEntry, Alone, GotoPc
    <2>2. /\ mem'.receipts = mem.receipts
          /\ InStep => Covers(mem.receipts, mem'.position)
          /\ Covers(mem.receipts, cache')
      <3>1. CASE pc[p] \in Critical
        BY <1>4, <3>1, HandlerCovers
      <3>2. CASE pc[p] \notin Critical
        BY <1>4, <2>1, <3>2, HandlerEffect
           DEF Keeps, Saves, RepaidInv, Covered, Critical
      <3> QED BY <3>1, <3>2
    <2>3. pc'[p] # "publish"
      <3>1. ASSUME pc'[p] = "publish"
            PROVE  FALSE
        <4>1. pc[p] = "commit"
          BY <3>1, HandlerGoes
        <4> QED BY <1>4, <4>1, HandlerEffect DEF Keeps, Saves
      <3> QED BY <3>1
    <2>4. CoveredAt(p)'
      BY <1>4, <2>2, <2>3, GoesCovered
    <2>5. \A q \in Procs : CoveredAt(q)'
      BY <2>1, <2>4 DEF CoveredAt, Critical
    <2> QED BY <2>2, <2>5, HandlerEffect, QuietRepaid
  <1> QED BY <1>1, <1>2, <1>3, <1>4

\* Connect and proof refresh leave the debt alone.
LEMMA BesideRepaid ==
    ASSUME LineInv, Bounded, RepaidInv, ConnectWrite \/ RefreshProof
    PROVE  RepaidInv'
  <1>1. Budget["connect"] # 0 \/ Budget["proof"] # 0
    BY DEF ConnectWrite, RefreshProof, Spend, Bounded, LineInv, TypeOK, Kinds
  <1>2. InStep => \A q \in Procs : pc[q] # "publish"
    BY <1>1 DEF InStep, ConnectWrite, RefreshProof, Undisturbed, Yielding, Actor
  <1>3. UNCHANGED <<pc, ctx>>
    BY DEF ConnectWrite, RefreshProof
  <1>4. /\ cache \in Position \cup {NoPosition} /\ conn.collateral \in Nat
        /\ opened(conn.collateral).debt = 0
    BY DEF LineInv, TypeOK, opened
  <1>5. CASE UNCHANGED <<cache, mem, disk>>
    BY <1>3, <1>5, StillRepaid
  <1>6. ASSUME mem'.receipts = mem.receipts, disk' \in {mem', disk},
               mem'.position = cache', NEW x, cache' = x,
               Covers(mem.receipts, cache) => Covers(mem.receipts, x)
        PROVE  RepaidInv'
    <2>1. \A q \in Procs : CoveredAt(q)'
      BY <1>3, <1>6, StillCovered DEF RepaidInv, Covered
    <2> QED BY <1>2, <1>3, <1>6, <2>1, QuietRepaid DEF RepaidInv, Covered
  <1>7. CASE RefreshProof
    <2>1. UNCHANGED cache
      BY <1>7 DEF RefreshProof
    <2> QED BY <1>6, <1>7, <2>1, PositionWrite DEF RefreshProof, LineInv
  <1>8. CASE cache # NoPosition /\ savePosition(reconnected(cache, conn.collateral), {})
    <2>1. Covers(mem.receipts, cache)
            => Covers(mem.receipts, reconnected(cache, conn.collateral))
      BY <1>4, <1>8, ReconnectedFields DEF Covers
    <2> QED BY <1>6, <1>8, <2>1, PositionWrite DEF savePosition, LineInv
  <1>9. CASE cache = NoPosition /\ savePosition(opened(conn.collateral), {})
    <2>1. Covers(mem.receipts, cache)
            => Covers(mem.receipts, opened(conn.collateral))
      BY <1>4, <1>9 DEF Covers
    <2> QED BY <1>6, <1>9, <2>1, PositionWrite DEF savePosition, LineInv
  <1> QED BY <1>5, <1>7, <1>8, <1>9 DEF ConnectWrite

\* A reset leaves no receipt to pay for; the reload that ends it takes what
\* the database has, where that is no less than its receipts account for.
LEMMA ResetRepaid ==
    ASSUME LineInv, JournalInv, Orderly, RepaidInv, ResetWipe \/ ResetReload
    PROVE  RepaidInv'
  <1>1. Budget["reset"] # 0 /\ InStep
    BY ResetBooks DEF Orderly
  <1>2. UNCHANGED ctx /\ \A p \in Procs : pc'[p] = pc[p]
    BY ResetBooks
  <1>3. CASE /\ mem'.receipts = <<>> /\ mem'.position = NoPosition
             /\ cache' = NoPosition
             /\ disk' = disk \/ disk' = mem'
    <2>1. Repaid(mem'.receipts) /\ Covers(mem'.receipts, NoPosition)
      BY <1>3, RepaidEmpty, NetDebtEmpty DEF Covers
    <2>2. ASSUME NEW p \in Procs
          PROVE  CoveredAt(p)'
      <3>1. CASE pc[p] \in Critical
        <4>1. ctx[p].cur.debt \in Nat /\ Advanced(p).debt \in Nat
          BY <3>1, Carried, NetDebts
        <4>2. NetDebt(mem'.receipts) = 0
          BY <1>3, NetDebtEmpty
        <4>3. Advanced(p)' = Advanced(p) /\ Unlocking(p)' = Unlocking(p)
          BY <1>2, SameAdvanced DEF SameContext
        <4> QED BY <1>2, <4>1, <4>2, <4>3 DEF RepaidInv, Covered, CoveredAt
      <3>2. CASE pc[p] \notin Critical
        BY <1>2, <3>2 DEF CoveredAt, Critical
      <3> QED BY <3>1, <3>2
    <2>3. /\ Repaid(disk'.receipts)
          /\ InStep => Covers(disk'.receipts, disk'.position)
      BY <1>3, <2>1 DEF RepaidInv, Covered
    <2>4. Repaid(mem.receipts)' /\ Repaid(disk.receipts)'
      BY <2>1, <2>3 DEF Repaid, Allowed
    <2>5. Covered'
      BY <1>3, <2>1, <2>2, <2>3 DEF Covered, Covers
    <2> QED BY <2>4, <2>5 DEF RepaidInv
  <1>4. CASE /\ UNCHANGED <<mem, disk>>
             /\ cache' = IF mem.position = NoPosition THEN cache
                         ELSE mem.position
    <2>1. \A q \in Procs : CoveredAt(q)'
      BY <1>2, <1>4, StillCovered DEF RepaidInv, Covered
    <2> QED BY <1>1, <1>2, <1>4, <2>1, QuietRepaid DEF RepaidInv, Covered
  <1> QED BY <1>3, <1>4, ResetBooks

LEMMA CrashRepaid ==
    ASSUME LineInv, Orderly, Bounded, RepaidInv, Crash
    PROVE  RepaidInv'
  <1>1. /\ mem' = disk /\ cache' = disk.position /\ UNCHANGED disk
        /\ \A q \in Procs : pc'[q] = "idle"
    BY CrashBooks
  <1>2. InStep
    BY DEF Orderly, Bounded, Crash, Spend, LineInv, TypeOK, Kinds
  <1>3. \A q \in Procs : CoveredAt(q)'
    BY <1>1 DEF CoveredAt
  <1>4. Repaid(mem.receipts)' /\ Repaid(disk.receipts)'
    BY <1>1 DEF RepaidInv, Repaid, Allowed
  <1>5. Covered'
    BY <1>1, <1>2, <1>3 DEF RepaidInv, Covered, Covers
  <1> QED BY <1>4, <1>5 DEF RepaidInv

LEMMA RepaidStep ==
    ASSUME Orderly, LineInv, JournalInv, Bounded, RepaidInv, [Next]_vars
    PROVE  RepaidInv'
  <1>1. ASSUME NEW p \in Procs, NEW r \in Request, Arrive(p, r)
        PROVE  RepaidInv'
    <2>1. /\ UNCHANGED <<cache, mem, disk>> /\ pc[p] = "idle" /\ pc'[p] = "queued"
          /\ \A q \in Procs : q # p => pc'[q] = pc[q] /\ ctx'[q] = ctx[q]
      BY <1>1, ArriveBooks
    <2>2. ASSUME NEW q \in Procs
          PROVE  CoveredAt(q)'
      <3>1. CASE q = p
        BY <2>1, <3>1 DEF CoveredAt
      <3>2. CASE q # p
        BY <2>1, <3>2, StillCovered DEF RepaidInv, Covered
      <3> QED BY <3>1, <3>2
    <2> QED BY <2>1, <2>2, QuietRepaid DEF RepaidInv, Covered
  <1>2. ASSUME NEW p \in Procs, Handler(p)
        PROVE  RepaidInv'
    BY <1>2, HandlerRepaid
  <1>3. CASE ConnectWrite \/ RefreshProof
    BY <1>3, BesideRepaid
  <1>4. CASE ResetWipe \/ ResetReload
    BY <1>4, ResetRepaid
  <1>5. CASE Crash
    BY <1>5, CrashRepaid
  <1>6. CASE UNCHANGED <<cache, mem, pc, ctx>> /\ disk' \in {mem', disk}
    BY <1>6, StillRepaid
  <1>7. CASE UNCHANGED vars \/ ConnectRead \/ Flush \/ FlushFails
    BY <1>6, <1>7, FileEffect DEF vars, ConnectRead
  <1> QED BY <1>1, <1>2, <1>3, <1>4, <1>5, <1>7 DEF Next

\* What a position owes covers what its receipts account for, whatever
\* snapshots are written back.
THEOREM RepaidInvariant ==
    ASSUME Orderly
    PROVE  Spec => []RepaidInv
  <1>1. NonceInv => Bounded
    BY DEF NonceInv
  <1>2. LineInv /\ JournalInv /\ Bounded /\ RepaidInv /\ [Next]_vars => RepaidInv'
    BY RepaidStep
  <1>3. Spec => []NonceInv
    BY NonceInvariant
  <1> QED BY RepaidInit, <1>1, <1>2, <1>3, LineInvariant, JournalInvariant, PTL
          DEF Spec

\* "Unilateral exit is available only at zero debt" (unlock/route.ts:36-37): at
\* every approved unlock, in memory and on file, the receipts before it leave
\* nothing to repay, although the exited position is spread from a snapshot
\* taken before the lock, for clients that sign as far ahead as they like.
THEOREM ExitIsRepaidHolds ==
    ASSUME Orderly
    PROVE  Spec => []ExitIsRepaid
  <1>1. RepaidInv => ExitIsRepaid
    BY DEF RepaidInv, Repaid, ExitIsRepaid
  <1> QED BY <1>1, RepaidInvariant, PTL
-----------------------------------------------------------------------------
(* The debt and the receipts.                                              *)

Balanced(db) == db.position.debt = NetDebt(db.receipts)

\* In memory and on file the position owes what its receipts account for; so
\* does the cache, or the position a commit is about to put there.
DebtInv ==
    /\ Balanced(mem) /\ Balanced(disk)
    /\ (\A p \in Procs : pc[p] # "publish") => cache.debt = NetDebt(mem.receipts)
    /\ \A p \in Procs :
         pc[p] = "publish" => Advanced(p).debt = NetDebt(mem.receipts)

LEMMA DebtInit == Init => DebtInv
  <1> SUFFICES ASSUME Init PROVE DebtInv
    OBVIOUS
  <1>1. /\ cache.debt = 0 /\ mem.position = cache /\ disk = mem
        /\ mem.receipts = <<>> /\ \A a \in Actor : pc[a] = "idle"
    BY DEF Init, opened
  <1> QED BY <1>1, NetDebtEmpty DEF DebtInv, Balanced, Actor

LEMMA ApprovedDebt ==
    ASSUME LineInv, JournalInv, HeldInv, SnapInv, NEW p \in Procs,
           pc[p] = "commit"
    PROVE  Advanced(p).debt = OwedAfter(cache.debt, ReceiptOf(p))
  <1>1. CASE ~Unlocking(p)
    <2>1. cache.debt = ctx[p].cur.debt
      BY <1>1 DEF HeldInv, HeldAt, Unlocking
    <2> QED BY <1>1, <2>1, CommitMoves
  <1>2. CASE Unlocking(p)
    <2>1. cache.debt = 0 /\ ctx[p].before.debt = 0
      BY <1>2 DEF SnapInv, SnapAt
    <2>2. Advanced(p).debt = 0
      BY <1>2, <2>1, UnlockedFields DEF Critical
    <2> QED BY <1>2, <2>1, <2>2, CommitMoves
  <1> QED BY <1>1, <1>2

\* What a request saves before its commit owes what the cache owed.
LEMMA SavedDebt ==
    ASSUME LineInv, HeldInv, SnapInv, NEW p \in Procs, Saves(p)
    PROVE  cache'.debt = cache.debt
  <1>1. CASE pc[p] \in {"reading", "submit"} /\ cache' = frozen(ctx[p].cur)
    <2>1. ctx[p].cur \in Position
      BY <1>1, Carried DEF Critical
    <2> QED BY <1>1, <2>1, FrozenFields DEF HeldInv, HeldAt
  <1>2. CASE pc[p] = "exit" /\ cache' = Advanced(p)
    <2>1. /\ Unlocking(p) /\ cache.debt = ctx[p].cur.debt
          /\ ctx[p].before.debt = 0 /\ ctx[p].cur.debt = 0
      BY <1>2 DEF HeldInv, HeldAt, SnapInv, SnapAt
    <2>2. Advanced(p).debt = 0
      BY <1>2, <2>1, UnlockedFields DEF Critical
    <2> QED BY <1>2, <2>1, <2>2
  <1> QED BY <1>1, <1>2 DEF Saves

LEMMA HandlerDebt ==
    ASSUME LineInv, JournalInv, HeldInv, SnapInv, DebtInv,
           NEW p \in Procs, Handler(p)
    PROVE  DebtInv'
  <1>1. PICK label \in Critical \cup {"idle"} : Goto(p, label)
    BY HandlerEntry
  <1>2. pc[p] \in Critical \/ Entering(p)
    BY HandlerEntry
  <1>3. \A q \in Procs : q # p => pc[q] # "publish" /\ pc'[q] # "publish"
    BY <1>1, <1>2, Alone, GotoPc DEF Critical
  <1>4. IF pc[p] = "publish" THEN Advanced(p).debt = NetDebt(mem.receipts)
                             ELSE cache.debt = NetDebt(mem.receipts)
    BY <1>3 DEF DebtInv
  <1>5. ASSUME Balanced(mem'), pc'[p] # "publish",
               cache'.debt = NetDebt(mem'.receipts)
        PROVE  DebtInv'
    <2>1. Balanced(disk')
      BY <1>5, HandlerEffect DEF DebtInv
    <2> QED BY <1>3, <1>5, <2>1 DEF DebtInv, Balanced
  <1>6. pc'[p] = "publish" => pc[p] = "commit"
    BY HandlerGoes
  <1>7. CASE Keeps(p)
    <2>1. Balanced(mem') /\ pc'[p] # "publish"
      BY <1>6, <1>7 DEF DebtInv, Balanced, Keeps
    <2>2. cache'.debt = NetDebt(mem'.receipts)
      BY <1>4, <1>7, HandlerEffect DEF Keeps
    <2> QED BY <1>5, <2>1, <2>2
  <1>8. CASE Saves(p)
    <2>1. pc[p] # "publish" /\ pc'[p] # "publish"
      BY <1>6, <1>8 DEF Saves
    <2>2. cache'.debt = NetDebt(mem'.receipts)
      BY <1>4, <1>8, <2>1, SavedDebt DEF Saves
    <2> QED BY <1>5, <1>8, <2>1, <2>2 DEF Balanced, Saves
  <1>9. CASE Notes(p)
    <2>1. pc[p] = "note" /\ pc'[p] # "publish"
      BY <1>6, <1>9 DEF Notes
    <2>2. NetDebt(mem'.receipts) = NetDebt(mem.receipts)
      BY <1>9, <2>1, RefusedDebt DEF Notes
    <2> QED BY <1>4, <1>5, <1>9, <2>1, <2>2 DEF DebtInv, Balanced, Notes
  <1>10. CASE Commits(p)
    <2>1. pc[p] = "commit" /\ mem.receipts \in Seq(Receipt)
          /\ ReceiptOf(p) \in Receipt
      BY <1>10, Writes DEF Commits, LineInv, TypeOK, Database, Critical
    <2>2. NetDebt(mem'.receipts) = OwedAfter(cache.debt, ReceiptOf(p))
      BY <1>4, <1>10, <2>1, NetDebtAppend DEF Commits
    <2>3. Advanced(p).debt = NetDebt(mem'.receipts)
      BY <2>1, <2>2, ApprovedDebt
    <2>4. Balanced(mem') /\ pc'[p] = "publish"
      BY <1>10, <2>3 DEF Commits, Balanced
    <2>5. Balanced(disk')
      BY <2>4, HandlerEffect DEF DebtInv
    <2>6. Advanced(p)' = Advanced(p)
      BY <1>10, SameAdvanced DEF Commits
    <2> QED BY <1>3, <2>3, <2>4, <2>5, <2>6 DEF DebtInv, Balanced
  <1> QED BY <1>7, <1>8, <1>9, <1>10, HandlerEffect

\* A writer beside the locked routes finds no commit waiting to be published.
LEMMA BesideDebt ==
    ASSUME InStep, LineInv, NonceInv, HeldInv, DebtInv,
           ConnectRead \/ ConnectWrite \/ RefreshProof
    PROVE  DebtInv'
  <1>1. /\ UNCHANGED <<pc, ctx>> /\ mem'.receipts = mem.receipts
        /\ disk' \in {mem', disk}
    BY BesideEffect DEF HeldInv
  <1>2. cache'.debt = cache.debt
    BY BesideHeld
  <1>3. \A q \in Procs : Advanced(q)' = Advanced(q)
    BY <1>1, SameAdvanced DEF SameContext
  <1>4. Balanced(mem')
    <2>1. CASE UNCHANGED <<cache, mem>>
      BY <2>1 DEF DebtInv, Balanced
    <2>2. CASE (ConnectWrite \/ RefreshProof) /\ mem'.position = cache'
      <3>1. \A q \in Procs : pc[q] # "publish"
        <4>1. Undisturbed /\ (Budget["connect"] # 0 \/ Budget["proof"] # 0)
          BY <2>2 DEF ConnectWrite, RefreshProof, Spend, NonceInv, Bounded,
                      LineInv, TypeOK, Kinds
        <4>2. Backend = "sqlite"
          BY <4>1 DEF InStep
        <4> QED BY <4>1, <4>2 DEF Undisturbed, Yielding, Actor
      <3> QED BY <1>1, <1>2, <2>2, <3>1 DEF DebtInv, Balanced
    <2> QED BY <2>1, <2>2, BesideEffect DEF HeldInv
  <1>5. Balanced(disk')
    BY <1>1, <1>4 DEF DebtInv
  <1> QED BY <1>1, <1>2, <1>3, <1>4, <1>5 DEF DebtInv, Balanced

LEMMA DebtStep ==
    ASSUME InStep, LineInv, JournalInv, NonceInv, HeldInv, SnapInv, DebtInv,
           [Next]_vars
    PROVE  DebtInv'
  <1>1. ASSUME UNCHANGED <<cache, mem, pc, ctx>>, disk' \in {mem', disk}
        PROVE  DebtInv'
    <2>1. \A q \in Procs : Advanced(q)' = Advanced(q)
      BY <1>1, SameAdvanced DEF SameContext
    <2> QED BY <1>1, <2>1 DEF DebtInv, Balanced
  <1>2. ASSUME NEW p \in Procs, NEW r \in Request, Arrive(p, r)
        PROVE  DebtInv'
    <2>1. /\ UNCHANGED <<cache, mem, disk>> /\ pc'[p] = "queued" /\ pc[p] = "idle"
          /\ \A q \in Procs : q # p => pc'[q] = pc[q] /\ ctx'[q] = ctx[q]
      BY <1>2, ArriveBooks
    <2>2. \A q \in Procs : q # p => Advanced(q)' = Advanced(q)
      BY <2>1, SameAdvanced DEF SameContext
    <2> QED BY <2>1, <2>2 DEF DebtInv, Balanced
  <1>3. ASSUME NEW p \in Procs, Handler(p)
        PROVE  DebtInv'
    BY <1>3, HandlerDebt
  <1>4. CASE ConnectRead \/ ConnectWrite \/ RefreshProof
    BY <1>4, BesideDebt
  <1>5. CASE ResetWipe \/ ResetReload
    BY <1>5, NoReset DEF HeldInv
  <1>6. CASE Flush \/ FlushFails
    BY <1>1, <1>6, FileEffect
  <1>7. CASE Crash
    <2>1. /\ mem' = disk /\ cache' = disk.position /\ UNCHANGED disk
          /\ \A q \in Procs : pc'[q] = "idle"
      BY <1>7, CrashBooks
    <2> QED BY <2>1 DEF DebtInv, Balanced
  <1>8. CASE UNCHANGED vars
    BY <1>1, <1>8 DEF vars
  <1> QED BY <1>2, <1>3, <1>4, <1>5, <1>6, <1>7, <1>8 DEF Next

\* At every moment, so whenever the process dies, the debt on file is the debt
\* its receipts account for (draw/route.ts:188-189, storage.ts:203-209).
THEOREM FileDebtMatchesReceiptsHolds ==
    ASSUME Shown, InStep
    PROVE  Spec => []FileDebtMatchesReceipts
  <1>1. LineInv /\ JournalInv /\ NonceInv /\ HeldInv /\ SnapInv /\ DebtInv
          /\ [Next]_vars => DebtInv'
    BY DebtStep
  <1>2. /\ Spec => []JournalInv
        /\ Spec => []HeldInv
        /\ Spec => []SnapInv
    BY JournalInvariant, HeldInvariant, SnapInvariant DEF Shown
  <1>3. Spec => []NonceInv
    BY NonceInvariant DEF Shown, Orderly
  <1>4. DebtInv => FileDebtMatchesReceipts
    BY DEF DebtInv, Balanced, FileDebtMatchesReceipts
  <1> QED BY DebtInit, <1>1, <1>2, <1>3, <1>4, LineInvariant, PTL DEF Spec
=============================================================================
