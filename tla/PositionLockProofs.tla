------------------------- MODULE PositionLockProofs -------------------------
(***************************************************************************)
(* The promise chain of withPositionLock excludes, and lets its callers in *)
(* in the order of their calls, for any set of calls.                      *)
(***************************************************************************)
EXTENDS PositionLock, FiniteSetTheorems, SequenceTheorems, TLAPS

\* A ticket is drawn once, by a call.
Tickets ==
    /\ \A r \in Runs : ticket[r] <= calls
    /\ \A r \in Runs : status[r] = "uncalled" <=> ticket[r] = 0
    /\ \A r, s \in Runs : ticket[r] = ticket[s] /\ ticket[r] # 0 => r = s

Earlier(s, r) == 0 < ticket[s] /\ ticket[s] < ticket[r]

\* A run hangs on the call right before it, unless all before it settled.
Chain ==
    \A r, s \in Runs : status[r] # "uncalled" /\ Earlier(s, r) =>
        IF previous[r] = NoRun
        THEN Settled(s)
        ELSE Earlier(previous[r], r) /\ ticket[s] <= ticket[previous[r]]

\* What has started has seen everything before it settle.
Past ==
    \A r, s \in Runs :
        status[r] \in {"running", "settled", "returned"} /\ Earlier(s, r)
            => Settled(s)

\* The entry is the last call, until that call takes it out.
Entry ==
    /\ entry # NoRun => /\ ticket[entry] = calls
                        /\ status[entry] \in {"chained", "running", "settled"}
    /\ entry = NoRun => \A r \in Runs : status[r] # "uncalled" => Settled(r)

\* The inductive invariant; PositionLock.cfg's runs are of what it implies.
LockInv == TypeOK /\ Tickets /\ Chain /\ Past /\ Entry

USE RunAssumption

LEMMA LockInit == Init => LockInv
  BY SMT DEF Init, LockInv, TypeOK, Tickets, Chain, Past, Entry, Earlier, Settled

LEMMA LockCall ==
    ASSUME LockInv, NEW r \in Runs, Call(r)
    PROVE  LockInv'
  <1> USE DEF LockInv, Call, Earlier, Settled
  <1>1. TypeOK'
    BY DEF TypeOK
  <1>2. Tickets'
    BY DEF TypeOK, Tickets
  <1>3. Chain'
    <2> SUFFICES ASSUME NEW q \in Runs, NEW s \in Runs,
                        status'[q] # "uncalled", Earlier(s, q)'
                 PROVE  IF previous'[q] = NoRun THEN Settled(s)'
                        ELSE Earlier(previous[q], q)' /\ ticket'[s] <= ticket'[previous'[q]]
      BY DEF Chain
    <2>1. CASE q = r
      BY <2>1 DEF TypeOK, Tickets, Entry
    <2>2. CASE q # r
      BY <2>2 DEF TypeOK, Tickets, Chain
    <2> QED BY <2>1, <2>2
  <1>4. Past'
    BY DEF TypeOK, Tickets, Past
  <1>5. Entry'
    BY DEF TypeOK, Tickets, Entry
  <1> QED BY <1>1, <1>2, <1>3, <1>4, <1>5

LEMMA LockStart ==
    ASSUME LockInv, NEW r \in Runs, Start(r)
    PROVE  LockInv'
  <1> USE DEF LockInv, Start, Earlier, Settled
  <1>1. TypeOK' /\ Tickets'
    BY DEF TypeOK, Tickets
  <1>2. Chain'
    BY DEF TypeOK, Chain
  <1>3. \A s \in Runs : Earlier(s, r) => Settled(s)
    <2> SUFFICES ASSUME NEW s \in Runs, Earlier(s, r)
                 PROVE  Settled(s)
      OBVIOUS
    <2>1. CASE previous[r] = NoRun
      BY <2>1 DEF TypeOK, Chain
    <2>2. CASE previous[r] # NoRun
      <3>1. previous[r] \in Runs /\ Settled(previous[r])
        BY <2>2 DEF TypeOK
      <3>2. ticket[s] <= ticket[previous[r]]
        BY <2>2 DEF Chain
      <3>3. CASE ticket[s] = ticket[previous[r]]
        BY <3>1, <3>3 DEF Tickets
      <3>4. CASE ticket[s] # ticket[previous[r]]
        BY <3>1, <3>2, <3>4 DEF TypeOK, Past
      <3> QED BY <3>3, <3>4
    <2> QED BY <2>1, <2>2
  <1>4. Past'
    BY <1>3 DEF TypeOK, Past
  <1>5. Entry'
    BY DEF TypeOK, Entry
  <1> QED BY <1>1, <1>2, <1>4, <1>5

LEMMA LockSettle ==
    ASSUME LockInv, NEW r \in Runs, Settle(r)
    PROVE  LockInv'
  <1> USE DEF LockInv, Settle, Earlier, Settled
  <1>1. TypeOK' /\ Tickets'
    BY DEF TypeOK, Tickets
  <1>2. Chain'
    BY DEF TypeOK, Chain
  <1>3. Past'
    BY DEF TypeOK, Past
  <1>4. Entry'
    BY DEF TypeOK, Entry
  <1> QED BY <1>1, <1>2, <1>3, <1>4

LEMMA LockFinally ==
    ASSUME LockInv, NEW r \in Runs, Finally(r)
    PROVE  LockInv'
  <1> USE DEF LockInv, Finally, Earlier, Settled
  <1>1. TypeOK' /\ Tickets'
    BY DEF TypeOK, Tickets
  <1>2. Chain'
    BY DEF TypeOK, Chain
  <1>3. Past'
    BY DEF TypeOK, Past
  <1>4. Entry'
    <2>1. CASE entry = r
      \* r was the last call and has settled, so everything before it has.
      <3>1. \A s \in Runs : status[s] # "uncalled" /\ s # r => Earlier(s, r)
        BY <2>1 DEF TypeOK, Tickets, Entry
      <3> QED BY <2>1, <3>1 DEF TypeOK, Past, Entry
    <2>2. CASE entry # r
      BY <2>2 DEF TypeOK, Entry
    <2> QED BY <2>1, <2>2
  <1> QED BY <1>1, <1>2, <1>3, <1>4

\* The invariant holds in every behaviour of the chain.
THEOREM LockInvariant == Spec => []LockInv
  <1>1. LockInv /\ [Next]_vars => LockInv'
    <2> SUFFICES ASSUME LockInv, [Next]_vars PROVE LockInv'
      OBVIOUS
    <2>1. CASE Next
      BY <2>1, LockCall, LockStart, LockSettle, LockFinally DEF Next
    <2>2. CASE UNCHANGED vars
      BY <2>2 DEF vars, LockInv, TypeOK, Tickets, Chain, Past, Entry, Earlier, Settled
    <2> QED BY <2>1, <2>2
  <1> QED BY LockInit, <1>1, PTL DEF Spec

LEMMA LockExcludes == LockInv => MutualExclusion
  BY DEF LockInv, TypeOK, Tickets, Past, Earlier, Settled, MutualExclusion

LEMMA LockEntry == LockInv => EntryWhileBusy
  BY DEF LockInv, TypeOK, Entry, Settled, EntryWhileBusy

\* At most one callback of withPositionLock runs at a time (store.ts:37-46).
THEOREM MutualExclusionHolds == Spec => []MutualExclusion
  BY LockInvariant, LockExcludes, PTL

\* positionLocks has an entry exactly while somebody is in the chain, so it
\* neither leaks nor lets a call start beside a running one (store.ts:58).
THEOREM EntryWhileBusyHolds == Spec => []EntryWhileBusy
  BY LockInvariant, LockEntry, PTL

-----------------------------------------------------------------------------
(* The chain is a queue.                                                   *)

Done == {r \in Runs : Settled(r)}

\* Every ticket up to calls is drawn, and the runs that are done have the
\* first ones.
QueueInv ==
    /\ LockInv
    /\ \A n \in 1..calls : \E r \in Runs : ticket[r] = n
    /\ IsFiniteSet(Done)
    /\ \A r \in Runs : Settled(r) <=> ticket[r] \in 1..done

LEMMA DoneType ==
    ASSUME QueueInv
    PROVE  /\ done = Cardinality(Done) /\ done \in Nat
           /\ calls \in Nat /\ done <= calls
           /\ \A r \in Runs : ticket[r] \in 0..calls
  <1>1. done = Cardinality(Done) /\ done \in Nat
    BY FS_CardinalityType DEF QueueInv, done, Done
  <1>2. calls \in Nat /\ \A r \in Runs : ticket[r] \in 0..calls
    BY DEF QueueInv, LockInv, TypeOK, Tickets
  <1>3. IsFiniteSet(1..calls) /\ Cardinality(1..calls) = calls
    BY <1>2, FS_Interval
  <1> DEFINE f == [r \in Done |-> ticket[r]]
  <1>4. f \in Injection(Done, 1..calls)
    BY <1>2 DEF Done, Injection, IsInjective, QueueInv, LockInv, TypeOK, Tickets, Settled
  <1>5. done <= calls
    BY <1>1, <1>3, <1>4, FS_Injection
  <1> QED BY <1>1, <1>2, <1>5

\* A run that is running, or about to, is the first in line.
LEMMA FirstInLine ==
    ASSUME QueueInv, NEW r \in Runs, status[r] \in {"chained", "running"},
           \A s \in Runs : Earlier(s, r) => Settled(s)
    PROVE  ticket[r] = done + 1
  <1>1. /\ done \in Nat /\ calls \in Nat /\ ticket[r] \in 0..calls
        /\ done <= calls
    BY DoneType
  <1>2. ~Settled(r) /\ ticket[r] # 0
    BY DEF Settled, QueueInv, LockInv, TypeOK, Tickets
  <1>3. ticket[r] > done
    BY <1>1, <1>2 DEF QueueInv
  <1>4. PICK s \in Runs : ticket[s] = done + 1
    BY <1>1, <1>3 DEF QueueInv
  <1>5. ~Settled(s)
    BY <1>1, <1>4 DEF QueueInv
  <1>6. ~(ticket[s] < ticket[r])
    BY <1>1, <1>4, <1>5 DEF Earlier
  <1> QED BY <1>1, <1>3, <1>4, <1>6

RunningFirst == \A r \in Runs : status[r] = "running" => ticket[r] = done + 1

LEMMA RunningIsFirst == QueueInv => RunningFirst
  <1> SUFFICES ASSUME QueueInv, NEW r \in Runs, status[r] = "running"
               PROVE  ticket[r] = done + 1
    BY DEF RunningFirst
  <1>1. \A s \in Runs : Earlier(s, r) => Settled(s)
    BY DEF QueueInv, LockInv, Past
  <1> QED BY <1>1, FirstInLine

\* Calls, starts and the end of a lock leave the runs that are done alone.
LEMMA SameDone ==
    ASSUME \A r \in Runs : Settled(r)' <=> Settled(r)
    PROVE  Done' = Done /\ done' = done
  BY DEF Done, done

LEMMA QueueCall ==
    ASSUME QueueInv, LockInv', NEW r \in Runs, Call(r)
    PROVE  QueueInv' /\ done' = done
  <1>1. /\ calls' = calls + 1 /\ calls \in Nat
        /\ \A q \in Runs :
             /\ ticket'[q] = IF q = r THEN calls + 1 ELSE ticket[q]
             /\ status'[q] = IF q = r THEN "chained" ELSE status[q]
        /\ status[r] = "uncalled" /\ ticket[r] = 0
    BY DEF Call, QueueInv, LockInv, TypeOK, Tickets
  <1>2. \A q \in Runs : Settled(q)' <=> Settled(q)
    BY <1>1 DEF Settled
  <1>3. Done' = Done /\ done' = done
    BY <1>2, SameDone
  <1>4. \A n \in 1..calls' : \E q \in Runs : ticket'[q] = n
    <2>1. ASSUME NEW n \in 1..calls
          PROVE  \E q \in Runs : ticket'[q] = n
      <3>1. PICK q \in Runs : ticket[q] = n
        BY DEF QueueInv
      <3> QED BY <1>1, <3>1
    <2> QED BY <1>1, <2>1
  <1>5. \A q \in Runs : Settled(q)' <=> ticket'[q] \in 1..done'
    BY <1>1, <1>2, <1>3, DoneType DEF QueueInv
  <1> QED BY <1>3, <1>4, <1>5 DEF QueueInv

LEMMA QueueStays ==
    ASSUME QueueInv, LockInv', NEW r \in Runs,
           Start(r) \/ Finally(r) \/ UNCHANGED vars
    PROVE  QueueInv' /\ done' = done
  <1>1. \A q \in Runs : Settled(q)' <=> Settled(q)
    BY DEF Start, Finally, vars, Settled, QueueInv, LockInv, TypeOK
  <1>2. Done' = Done /\ done' = done
    BY <1>1, SameDone
  <1>3. UNCHANGED <<ticket, calls>>
    BY DEF Start, Finally, vars
  <1> QED BY <1>1, <1>2, <1>3 DEF QueueInv

LEMMA QueueSettle ==
    ASSUME QueueInv, LockInv', NEW r \in Runs, Settle(r)
    PROVE  QueueInv' /\ done' = done + 1
  <1>1. /\ UNCHANGED <<ticket, calls>> /\ status[r] = "running"
        /\ \A q \in Runs : Settled(q)' <=> Settled(q) \/ q = r
        /\ ~Settled(r)
    BY DEF Settle, Settled, QueueInv, LockInv, TypeOK
  <1>2. Done' = Done \cup {r} /\ r \notin Done
    BY <1>1 DEF Done
  <1>3. IsFiniteSet(Done') /\ Cardinality(Done') = Cardinality(Done) + 1
    <2>1. /\ IsFiniteSet(Done \cup {r})
          /\ Cardinality(Done \cup {r}) = Cardinality(Done) + 1
      BY <1>2, FS_AddElement DEF QueueInv
    <2> QED BY <1>2, <2>1
  <1>4. done' = done + 1
    BY <1>3 DEF done, Done
  <1>5. ticket[r] = done + 1
    BY <1>1, RunningIsFirst DEF RunningFirst
  <1>6. \A q \in Runs : ticket[q] = done + 1 => q = r
    BY <1>5, DoneType DEF QueueInv, LockInv, Tickets
  <1>7. ASSUME NEW q \in Runs
        PROVE  Settled(q)' <=> ticket'[q] \in 1..done'
    BY <1>1, <1>4, <1>5, <1>6, DoneType DEF QueueInv
  <1> QED BY <1>1, <1>3, <1>4, <1>7 DEF QueueInv

LEMMA QueueStep == QueueInv /\ LockInv' /\ [Next]_vars => QueueInv'
  <1> SUFFICES ASSUME QueueInv, LockInv', [Next]_vars PROVE QueueInv'
    OBVIOUS
  <1>1. CASE Next
    BY <1>1, QueueCall, QueueStays, QueueSettle DEF Next
  <1>2. CASE UNCHANGED vars
    <2>1. UNCHANGED <<Done, done, ticket, calls, status>>
      BY <1>2 DEF vars, Done, done, Settled
    <2> QED BY <2>1 DEF QueueInv, Settled
  <1> QED BY <1>1, <1>2

\* Tickets are drawn without a gap, and runs are done in their order.
THEOREM QueueInvariant == Spec => []QueueInv
  <1>1. Init => QueueInv
    <2> SUFFICES ASSUME Init PROVE QueueInv
      OBVIOUS
    <2>1. Done = {} /\ IsFiniteSet({}) /\ Cardinality({}) = 0
      BY FS_EmptySet DEF Init, Done, Settled
    <2>2. done = 0
      BY <2>1 DEF done, Done
    <2>3. \A r \in Runs : ~Settled(r) /\ ticket[r] = 0
      BY DEF Init, Settled
    <2> QED BY <2>1, <2>2, <2>3, LockInit DEF Init, QueueInv
  <1> QED BY <1>1, QueueStep, LockInvariant, PTL DEF Spec

-----------------------------------------------------------------------------
\* The line holds the runs that are not done, by their tickets.
InLine ==
    /\ line \in Seq(Runs) /\ Len(line) = calls - done
    /\ \A i \in 1..(calls - done) :
         \A r \in Runs : ticket[r] = done + i <=> r = line[i]

LEMMA LineHolds == QueueInv => InLine
  <1> SUFFICES ASSUME QueueInv PROVE InLine
    OBVIOUS
  <1>1. done \in Nat /\ calls \in Nat /\ done <= calls
    BY DoneType
  <1>2. \A i \in 1..(calls - done) :
          line[i] = CHOOSE r \in Runs : ticket[r] = done + i
    BY DEF line
  <1>3. line = [i \in 1..(calls - done) |-> line[i]]
    BY DEF line
  <1> HIDE DEF line
  <1>4. ASSUME NEW i \in 1..(calls - done)
        PROVE  /\ line[i] \in Runs
               /\ \A r \in Runs : ticket[r] = done + i <=> r = line[i]
    <2>1. done + i \in 1..calls
      BY <1>1
    <2>2. \E r \in Runs : ticket[r] = done + i
      BY <2>1 DEF QueueInv
    <2>3. line[i] \in Runs /\ ticket[line[i]] = done + i
      BY <1>2, <2>2
    <2> QED BY <2>1, <2>3 DEF QueueInv, LockInv, Tickets
  <1>5. line \in [1..(calls - done) -> Runs]
    BY <1>3, <1>4
  <1>6. line \in Seq(Runs) /\ Len(line) = calls - done
    BY <1>1, <1>5
  <1> QED BY <1>4, <1>6 DEF InLine

\* What is in line at a place, and that it is nowhere else.
LEMMA LinePlaces ==
    ASSUME QueueInv, InLine
    PROVE  /\ \A i \in 1..Len(line) : line[i] \in Runs /\ ticket[line[i]] = done + i
           /\ Len(line) \in Nat /\ DOMAIN line = 1..Len(line)
  <1>1. line \in Seq(Runs) /\ Len(line) = calls - done
    BY DEF InLine
  <1>2. \A i \in 1..Len(line) : line[i] \in Runs
    BY <1>1, ElementOfSeq
  <1>3. Len(line) \in Nat /\ DOMAIN line = 1..Len(line)
    BY <1>1, LenProperties
  <1> QED BY <1>1, <1>2, <1>3 DEF InLine

LEMMA CallJoins ==
    ASSUME QueueInv, InLine, InLine', done' = done, NEW r \in Runs, Call(r)
    PROVE  Queue!Join(r)
  <1>1. /\ calls' = calls + 1
        /\ \A q \in Runs :
             /\ ticket'[q] = IF q = r THEN calls + 1 ELSE ticket[q]
             /\ status'[q] = IF q = r THEN "chained" ELSE status[q]
        /\ status[r] = "uncalled" /\ ticket[r] = 0
    BY DEF Call, QueueInv, LockInv, TypeOK, Tickets
  <1>2. inside' = inside
    BY <1>1 DEF inside
  <1>3. r \notin Queue!Members
    BY <1>1, LinePlaces, DoneType DEF Queue!Members
  <1>4. /\ line \in Seq(Runs) /\ line' \in Seq(Runs)
        /\ Len(line) = calls - done /\ Len(line') = Len(line) + 1
    BY <1>1, DoneType DEF InLine
  <1>5. /\ Append(line, r) \in Seq(Runs)
        /\ Len(Append(line, r)) = Len(line) + 1
        /\ \A i \in 1..Len(line) : Append(line, r)[i] = line[i]
        /\ Append(line, r)[Len(line) + 1] = r
    BY <1>4
  <1>6. ASSUME NEW i \in 1..Len(line)
        PROVE  line'[i] = line[i]
    <2>1. line[i] \in Runs /\ ticket[line[i]] = done + i /\ i \in 1..(calls' - done')
      BY <1>1, <1>4, LinePlaces, DoneType
    <2>2. ticket'[line[i]] = done' + i
      <3>1. done + i # 0 /\ done' + i = done + i
        BY <2>1, DoneType
      <3>2. line[i] # r
        BY <1>1, <2>1, <3>1
      <3> QED BY <1>1, <2>1, <3>1, <3>2
    <2> QED BY <2>1, <2>2 DEF InLine
  <1>7. line'[Len(line) + 1] = r
    <2>1. ticket'[r] = done' + (Len(line) + 1) /\ Len(line) + 1 \in 1..(calls' - done')
      BY <1>1, <1>4, DoneType
    <2> QED BY <2>1 DEF InLine
  <1>8. line' = Append(line, r)
    <2>1. \A i \in 1..Len(line') : line'[i] = Append(line, r)[i]
      BY <1>4, <1>5, <1>6, <1>7, LinePlaces
    <2> QED BY <1>4, <1>5, <2>1, SeqEqual
  <1> QED BY <1>2, <1>3, <1>8 DEF Queue!Join

\* The line is the same as long as tickets and the number done are.
LEMMA SameLine ==
    ASSUME done' = done, UNCHANGED <<calls, ticket>>
    PROVE  line' = line
  BY DEF line

LEMMA StartEnters ==
    ASSUME QueueInv, InLine, QueueInv', done' = done, NEW r \in Runs, Start(r)
    PROVE  Queue!Enter(r)
  <1>1. /\ UNCHANGED <<calls, ticket>>
        /\ \A q \in Runs : status'[q] = IF q = r THEN "running" ELSE status[q]
        /\ status[r] = "chained"
    BY DEF Start, QueueInv, LockInv, TypeOK
  <1>2. line' = line
    BY <1>1, SameLine
  <1>3. MutualExclusion'
    BY LockExcludes, PTL DEF QueueInv
  <1>4. inside = {} /\ inside' = {r}
    BY <1>1, <1>3 DEF inside, MutualExclusion
  <1>5. ticket[r] = done + 1
    <2>1. RunningFirst'
      BY RunningIsFirst, PTL
    <2> QED BY <1>1, <2>1 DEF RunningFirst
  <1>6. line # <<>> /\ r = Head(line)
    <2>1. calls - done \in Nat /\ 1 \in 1..(calls - done)
      BY <1>5, DoneType
    <2>2. r = line[1] /\ line \in Seq(Runs) /\ Len(line) = calls - done
      BY <1>5, <2>1 DEF InLine
    <2> QED BY <2>1, <2>2
  <1> QED BY <1>2, <1>4, <1>6 DEF Queue!Enter

LEMMA SettleLeaves ==
    ASSUME QueueInv, InLine, InLine', done' = done + 1, NEW r \in Runs, Settle(r)
    PROVE  Queue!Leave(r)
  <1>1. /\ UNCHANGED <<calls, ticket>>
        /\ \A q \in Runs : status'[q] = IF q = r THEN "settled" ELSE status[q]
        /\ status[r] = "running"
    BY DEF Settle, QueueInv, LockInv, TypeOK
  <1>2. inside = {r} /\ inside' = {}
    BY <1>1, LockExcludes DEF inside, MutualExclusion, QueueInv
  <1>3. ticket[r] = done + 1
    BY <1>1, RunningIsFirst DEF RunningFirst
  <1>4. /\ line \in Seq(Runs) /\ line' \in Seq(Runs)
        /\ Len(line) = calls - done /\ Len(line') = Len(line) - 1
        /\ Len(line) \in Nat /\ Len(line) > 0
    BY <1>1, <1>3, DoneType DEF InLine
  <1>5. /\ Tail(line) \in Seq(Runs)
        /\ Len(Tail(line)) = Len(line) - 1
        /\ \A i \in 1..(Len(line) - 1) : Tail(line)[i] = line[i + 1]
    BY <1>4
  <1>6. ASSUME NEW i \in 1..Len(line')
        PROVE  line'[i] = Tail(line)[i]
    <2>1. i + 1 \in 1..Len(line) /\ i \in 1..(calls' - done') /\ i \in 1..(Len(line) - 1)
      BY <1>1, <1>4, DoneType
    <2>2. line[i + 1] \in Runs /\ ticket[line[i + 1]] = done + (i + 1)
      BY <2>1, LinePlaces
    <2>3. ticket'[line[i + 1]] = done' + i
      BY <1>1, <2>2, DoneType
    <2>4. line'[i] = line[i + 1]
      BY <2>1, <2>2, <2>3 DEF InLine
    <2> QED BY <1>5, <2>1, <2>4
  <1>7. line' = Tail(line)
    BY <1>4, <1>5, <1>6, SeqEqual
  <1> QED BY <1>2, <1>7 DEF Queue!Leave

LEMMA NextQueue ==
    ASSUME QueueInv, InLine, QueueInv', InLine', [Next]_vars
    PROVE  Queue!Next \/ UNCHANGED Queue!vars
  <1>1. ASSUME NEW r \in Runs, Call(r) PROVE Queue!Next
    BY <1>1, QueueCall, CallJoins DEF Queue!Next, QueueInv
  <1>2. ASSUME NEW r \in Runs, Start(r) PROVE Queue!Next
    BY <1>2, QueueStays, StartEnters DEF Queue!Next, QueueInv
  <1>3. ASSUME NEW r \in Runs, Settle(r) PROVE Queue!Next
    BY <1>3, QueueSettle, SettleLeaves DEF Queue!Next, QueueInv
  <1>4. ASSUME NEW r \in Runs, Finally(r) PROVE UNCHANGED Queue!vars
    <2>1. UNCHANGED <<calls, ticket>> /\ done' = done
      BY <1>4, QueueStays DEF Finally, QueueInv
    <2>2. line' = line
      BY <2>1, SameLine
    <2>3. inside' = inside
      BY <1>4 DEF Finally, inside, QueueInv, LockInv, TypeOK
    <2> QED BY <2>2, <2>3 DEF Queue!vars
  <1>5. CASE UNCHANGED vars
    <2>1. done' = done /\ inside' = inside /\ UNCHANGED <<calls, ticket>>
      BY <1>5 DEF vars, done, inside, Settled
    <2> QED BY <2>1, SameLine DEF Queue!vars
  <1> QED BY <1>1, <1>2, <1>3, <1>4, <1>5 DEF Next

\* Callers of one position enter one at a time and in the order of their
\* calls: the promises hang on one another as a queue does, whoever throws and
\* whichever entry is deleted (withPositionLock, store.ts:37-60).
THEOREM ChainIsOrderly == Spec => Queue!Orderly
  <1>1. Init => Queue!Init
    <2> SUFFICES ASSUME Init PROVE Queue!Init
      OBVIOUS
    <2>1. Done = {} /\ Cardinality({}) = 0
      BY FS_EmptySet DEF Init, Done, Settled
    <2>2. calls - done = 0
      BY <2>1 DEF done, Done, Init
    <2>3. line = <<>>
      BY <2>2 DEF line
    <2>4. inside = {}
      BY DEF Init, inside
    <2> QED BY <2>3, <2>4 DEF Queue!Init
  <1>2. QueueInv /\ InLine /\ QueueInv' /\ InLine' /\ [Next]_vars
          => [Queue!Next]_(Queue!vars)
    BY NextQueue
  <1> QED BY <1>1, <1>2, QueueInvariant, LineHolds, PTL DEF Spec, Queue!Orderly
=============================================================================
