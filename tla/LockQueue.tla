------------------------------ MODULE LockQueue ------------------------------
(***************************************************************************)
(* What withPositionLock promises: callers of one position enter one at a  *)
(* time, in the order they called, and each leaves.  CreditLedger uses the *)
(* lock in this form.                                                      *)
(***************************************************************************)
EXTENDS Sequences

CONSTANT Callers

VARIABLES
    line,    \* callers that called and have not finished, in order
    inside   \* the callers in the critical section

vars == <<line, inside>>

Members == {line[i] : i \in DOMAIN line}

Init == line = <<>> /\ inside = {}

Join(c) ==
    /\ c \notin Members
    /\ line' = Append(line, c)
    /\ UNCHANGED inside

Enter(c) ==
    /\ line # <<>> /\ c = Head(line)
    /\ inside = {}
    /\ inside' = {c}
    /\ UNCHANGED line

Leave(c) ==
    /\ inside = {c}
    /\ inside' = {}
    /\ line' = Tail(line)

Next == \E c \in Callers : Join(c) \/ Enter(c) \/ Leave(c)

\* The order alone; and that whoever may go on does.
Orderly == Init /\ [][Next]_vars
Spec == Orderly /\ \A c \in Callers : WF_vars(Enter(c)) /\ WF_vars(Leave(c))
==============================================================================
