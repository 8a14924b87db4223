-------------------------- MODULE TransitionPromise --------------------------
(***************************************************************************)
(* What the routes rely on when they submit a transition to the adapter    *)
(* (transition.ts, adapter.ts): the Outcomes CreditLedger chooses from,    *)
(* and what each of them says about the daemon.                            *)
(***************************************************************************)
CONSTANTS
    Positions,   \* each has at most one submission in flight
    Txs          \* signed transactions

VARIABLES
    stage,       \* of each position's submission: "idle", "open" or "handed"
    tx,          \* the transaction each position submitted last
    answer,      \* how its last submission ended
    handed,      \* transactions that were handed to the network
    taken,       \* transactions the daemon has accepted
    committed    \* transactions the daemon has committed

vars == <<stage, tx, answer, handed, taken, committed>>

Answers == {"refused", "rejected", "pending", "lost", "ok"}

\* What is true when a submission ends in an answer.  After "refused" it
\* has handed nothing over; "rejected" says nothing of the daemon, because
\* the daemon's own answer may have been lost.
Meant(p, a) ==
    \/ a = "refused" /\ stage[p] \in {"idle", "open"}
    \/ a = "rejected" /\ stage[p] = "handed"
    \/ a \in {"pending", "lost"} /\ stage[p] = "handed" /\ tx[p] \in taken
    \/ a = "ok" /\ stage[p] = "handed" /\ tx[p] \in committed

Init ==
    /\ stage = [p \in Positions |-> "idle"]
    /\ tx \in [Positions -> Txs]
    /\ answer = [p \in Positions |-> "none"]
    /\ handed = {} /\ taken = {} /\ committed = {}

\* A submission passes the write gates, and goes on to its broadcast if the
\* network is known.
Submit(p, t) ==
    /\ stage[p] = "idle"
    /\ tx' = [tx EXCEPT ![p] = t]
    /\ stage' = [stage EXCEPT ![p] = "open"]
    /\ answer' = [answer EXCEPT ![p] = "none"]
    /\ UNCHANGED <<handed, taken, committed>>

\* The transaction leaves for the daemon.
Hand(p) ==
    /\ stage[p] = "open"
    /\ stage' = [stage EXCEPT ![p] = "handed"]
    /\ handed' = handed \cup {tx[p]}
    /\ UNCHANGED <<tx, answer, taken, committed>>

\* The daemon accepts what was handed over, at any later time.
Take(t) ==
    /\ t \in handed
    /\ taken' = taken \cup {t}
    /\ UNCHANGED <<stage, tx, answer, handed, committed>>

\* The daemon commits what it accepted.
Commit(t) ==
    /\ t \in taken
    /\ committed' = committed \cup {t}
    /\ UNCHANGED <<stage, tx, answer, handed, taken>>

\* The submission ends.
Answer(p, a) ==
    /\ Meant(p, a)
    /\ stage' = [stage EXCEPT ![p] = "idle"]
    /\ answer' = [answer EXCEPT ![p] = a]
    /\ UNCHANGED <<tx, handed, taken, committed>>

\* The server dies: what was under way ends without an answer.
Crash ==
    /\ stage' = [p \in Positions |-> "idle"]
    /\ UNCHANGED <<tx, answer, handed, taken, committed>>

Next ==
    \/ Crash
    \/ \E p \in Positions :
         \/ \E t \in Txs : Submit(p, t)
         \/ Hand(p)
         \/ \E a \in Answers : Answer(p, a)
    \/ \E t \in Txs : Take(t) \/ Commit(t)

Spec == Init /\ [][Next]_vars
==============================================================================
