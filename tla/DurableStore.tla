----------------------------- MODULE DurableStore -----------------------------
(***************************************************************************)
(* What the JSON backend promises the store above it: a call applies its   *)
(* change to memory at once and returns only when the file holds it or a   *)
(* write error is on record; the file goes from one state memory once had  *)
(* to a later one, and a restart continues from the file.  The n-th state  *)
(* of memory is called n.                                                  *)
(***************************************************************************)
EXTENDS Integers

CONSTANTS Callers, MaxVersion

VARIABLES
    memory,  \* the state memory is in
    file,    \* the state a restart would load
    failed,  \* the last save failed
    asked    \* the state each caller waits for; 0 when it waits for none

vars == <<memory, file, failed, asked>>

Init ==
    /\ memory = 0
    /\ file = 0
    /\ failed = FALSE
    /\ asked = [c \in Callers |-> 0]

Change(c) ==
    /\ asked[c] = 0
    /\ memory < MaxVersion
    /\ memory' = memory + 1
    /\ asked' = [asked EXCEPT ![c] = memory + 1]
    /\ UNCHANGED <<file, failed>>

Release(done) ==
    /\ asked' = [c \in Callers |-> IF c \in done THEN 0 ELSE asked[c]]
    /\ UNCHANGED memory

\* A save succeeds: the file takes some state at least as new as its own.
\* Callers whose change is in it return.
Save ==
    \E v \in file..memory, done \in SUBSET Callers :
        /\ \A c \in done : asked[c] <= v
        /\ file' = v
        /\ failed' = FALSE
        /\ Release(done)

\* Callers return while the file holds their change or an error is on record.
Return ==
    \E done \in SUBSET Callers :
        /\ failed' \in {failed, TRUE}
        /\ \A c \in done : asked[c] <= file \/ failed'
        /\ Release(done)
        /\ UNCHANGED file

Crash ==
    /\ memory' = file
    /\ failed' = FALSE
    /\ asked' = [c \in Callers |-> 0]
    /\ UNCHANGED file

Next == (\E c \in Callers : Change(c)) \/ Save \/ Return \/ Crash

Spec == Init /\ [][Next]_vars
=============================================================================
