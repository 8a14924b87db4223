---------------------------- MODULE PositionLock ----------------------------
(***************************************************************************)
(* withPositionLock (store.ts) for one position: a chain of promises.  A   *)
(* call hangs its run on the promise in positionLocks, puts its own there, *)
(* and takes the entry out again if it is still its own.  Each call is a   *)
(* run of its own; a run that throws and one that returns settle alike.    *)
(***************************************************************************)
EXTENDS Integers, FiniteSets

CONSTANTS
    Runs,    \* calls of withPositionLock
    NoRun    \* no entry in positionLocks / Promise.resolve()

ASSUME RunAssumption == NoRun \notin Runs

VARIABLES
    entry,     \* positionLocks.get(positionId)
    previous,  \* the promise each run hangs on
    status,    \* of each run
    ticket,    \* the order of the calls (history)
    calls      \* calls so far (history)

vars == <<entry, previous, status, ticket, calls>>

Init ==
    /\ entry = NoRun
    /\ previous = [r \in Runs |-> NoRun]
    /\ status = [r \in Runs |-> "uncalled"]
    /\ ticket = [r \in Runs |-> 0]
    /\ calls = 0

\* Mutant: the new promise is set before the previous one is read.
CallOnItself(r) ==
    /\ status[r] = "uncalled"
    /\ previous' = [previous EXCEPT ![r] = r]
    /\ entry' = r
    /\ status' = [status EXCEPT ![r] = "chained"]
    /\ calls' = calls + 1
    /\ ticket' = [ticket EXCEPT ![r] = calls + 1]

\* Mutant: a call does not wait for the one before it.
CallUnchained(r) ==
    /\ status[r] = "uncalled"
    /\ entry' = r
    /\ status' = [status EXCEPT ![r] = "chained"]
    /\ calls' = calls + 1
    /\ ticket' = [ticket EXCEPT ![r] = calls + 1]
    /\ UNCHANGED previous

\* previous = get(id) ?? resolved; run = previous.then(fn, fn); set(id, run).
Call(r) ==
    /\ status[r] = "uncalled"
    /\ previous' = [previous EXCEPT ![r] = entry]
    /\ entry' = r
    /\ status' = [status EXCEPT ![r] = "chained"]
    /\ calls' = calls + 1
    /\ ticket' = [ticket EXCEPT ![r] = calls + 1]

Settled(r) == status[r] \in {"settled", "returned"}

\* fn runs once the previous promise has settled, either way.
Start(r) ==
    /\ status[r] = "chained"
    /\ previous[r] # NoRun => Settled(previous[r])
    /\ status' = [status EXCEPT ![r] = "running"]
    /\ UNCHANGED <<entry, previous, ticket, calls>>

\* fn returns or throws.
Settle(r) ==
    /\ status[r] = "running"
    /\ status' = [status EXCEPT ![r] = "settled"]
    /\ UNCHANGED <<entry, previous, ticket, calls>>

\* Mutant: the entry is deleted whoever's it is.
FinallyAlways(r) ==
    /\ status[r] = "settled"
    /\ status' = [status EXCEPT ![r] = "returned"]
    /\ entry' = NoRun
    /\ UNCHANGED <<previous, ticket, calls>>

\* finally: delete the entry if it is still this run's.
Finally(r) ==
    /\ status[r] = "settled"
    /\ status' = [status EXCEPT ![r] = "returned"]
    /\ entry' = IF entry = r THEN NoRun ELSE entry
    /\ UNCHANGED <<previous, ticket, calls>>

Next == \E r \in Runs : Call(r) \/ Start(r) \/ Settle(r) \/ Finally(r)

\* Promise reactions always run, and every handler settles: each await in it
\* is a file write or a network call with a timeout.
Spec ==
    /\ Init /\ [][Next]_vars
    /\ \A r \in Runs : WF_vars(Start(r)) /\ WF_vars(Settle(r))
                         /\ WF_vars(Finally(r))

-----------------------------------------------------------------------------
\* The types of the state.
TypeOK ==
    /\ entry \in Runs \cup {NoRun}
    /\ previous \in [Runs -> Runs \cup {NoRun}]
    /\ status \in [Runs ->
                     {"uncalled", "chained", "running", "settled", "returned"}]
    /\ ticket \in [Runs -> Nat]
    /\ calls \in Nat

\* At most one callback runs at a time (store.ts:37-46).
MutualExclusion ==
    \A r, s \in Runs : status[r] = "running" /\ status[s] = "running" => r = s

\* The map keeps no entry for a position nobody is locking, and one whenever
\* a run has not settled, so a new call always finds whom to wait for.
EntryWhileBusy ==
    /\ (\E r \in Runs : status[r] \in {"chained", "running"}) => entry # NoRun
    /\ (\A r \in Runs : status[r] \in {"uncalled", "returned"})
           => entry = NoRun

\* The chain is a queue: runs settle in the order of their calls, so those in
\* line have the tickets after the ones that are done.
done == Cardinality({r \in Runs : Settled(r)})
line == [i \in 1..(calls - done) |-> CHOOSE r \in Runs : ticket[r] = done + i]
inside == {r \in Runs : status[r] = "running"}

Queue == INSTANCE LockQueue WITH Callers <- Runs
ImplementsLockQueue == Queue!Spec

\* Every call returns, whatever the callbacks before it did.
EveryCallReturns ==
    \A r \in Runs : status[r] = "chained" ~> status[r] = "returned"
=============================================================================
