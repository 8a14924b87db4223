------------------------------ MODULE JsonStore ------------------------------
(***************************************************************************)
(* The JSON backend (StorageRepository, storage.ts): memoryState, the      *)
(* promise chain of saves with its dirty flag, the temporary file and the  *)
(* file.  The n-th state of memoryState is called n; 0 is the seeded one.  *)
(*                                                                         *)
(* Every await of save is a step of its own, so calls change memoryState   *)
(* while a save is under way and the process dies between any two steps.   *)
(***************************************************************************)
EXTENDS Integers, Sequences

CONSTANTS
    Callers,      \* calls of savePosition, addReceipt, commitTransition, ...
    MaxVersion,   \* bound: states memoryState goes through
    MaxCrashes,   \* bound: how often the process dies
    ReadErrors,   \* whether a file that is there may fail to load
    NoFile        \* nothing at the path

\* A file holds a state, wholly or in part.
Content == [version : Nat, whole : BOOLEAN]

ASSUME StoreAssumption ==
    /\ MaxVersion \in Nat /\ MaxCrashes \in Nat
    /\ ReadErrors \in BOOLEAN
    /\ NoFile \notin Content

VARIABLES
    memoryState,  \* which state memory is in
    loaded,       \* loadPromise has resolved
    dirty,        \* memoryState changed since a save last began
    writeChain,   \* callers of persist whose link has not settled, in order
    step,         \* where the save under way is
    tmp, file,    \* what is at the two paths
    lastWriteError,  \* the last save that ended has failed
    asked,        \* the state each caller's change made; 0 when it returned
    kept,         \* newest state whose caller has returned with no write
                  \* error standing (history)
    crashes       \* how often the process died (bound)

vars == <<memoryState, loaded, dirty, writeChain, step, tmp, file,
          lastWriteError, asked, kept, crashes>>

Init ==
    /\ memoryState = 0 /\ loaded = FALSE /\ dirty = FALSE
    /\ writeChain = <<>> /\ step = "none"
    /\ tmp = NoFile /\ file = NoFile
    /\ lastWriteError = FALSE
    /\ asked = [c \in Callers |-> 0]
    /\ kept = 0 /\ crashes = 0

-----------------------------------------------------------------------------
\* The file parses, if there is one.
Readable == file # NoFile => file.whole

\* ensureLoaded: reads the file; if that fails, it saves the seeded defaults,
\* outside the chain.  Every call waits for it.
ensureLoaded ==
    /\ ~loaded /\ step = "none"
    /\ \/ /\ file # NoFile /\ Readable
          /\ memoryState' = file.version
          /\ loaded' = TRUE
          /\ UNCHANGED step
       \/ /\ file = NoFile \/ ~Readable \/ ReadErrors
          /\ step' = "mkdir"
          /\ UNCHANGED <<memoryState, loaded>>
    /\ UNCHANGED <<dirty, writeChain, tmp, file, lastWriteError, asked, kept,
                   crashes>>

\* A call changes memoryState and hangs its link on writeChain.
persist(c) ==
    /\ loaded
    /\ asked[c] = 0
    /\ memoryState < MaxVersion
    /\ memoryState' = memoryState + 1
    /\ asked' = [asked EXCEPT ![c] = memoryState + 1]
    /\ dirty' = TRUE
    /\ writeChain' = Append(writeChain, c)
    /\ UNCHANGED <<loaded, step, tmp, file, lastWriteError, kept, crashes>>

\* The link at the head settles, and its caller returns.
Return ==
    LET c == Head(writeChain) IN
    /\ writeChain' = Tail(writeChain)
    /\ asked' = [asked EXCEPT ![c] = 0]
    /\ kept' = IF ~lastWriteError' /\ asked[c] > kept THEN asked[c] ELSE kept

\* A link runs: it has nothing to save, or clears the flag and begins.
Link ==
    /\ loaded /\ step = "none" /\ writeChain # <<>>
    /\ UNCHANGED lastWriteError
    /\ \/ /\ ~dirty
          /\ Return
          /\ UNCHANGED <<dirty, step>>
       \/ /\ dirty
          /\ dirty' = FALSE
          /\ step' = "mkdir"
          /\ UNCHANGED <<writeChain, asked, kept>>
    /\ UNCHANGED <<memoryState, loaded, tmp, file, crashes>>

Mkdir ==
    /\ step = "mkdir"
    /\ step' = "write"
    /\ UNCHANGED <<memoryState, loaded, dirty, writeChain, tmp, file,
                   lastWriteError, asked, kept, crashes>>

\* writeFile is called with memoryState as it is now.
Write ==
    /\ step = "write"
    /\ tmp' = [version |-> memoryState, whole |-> FALSE]
    /\ step' = "writing"
    /\ UNCHANGED <<memoryState, loaded, dirty, writeChain, file, lastWriteError,
                   asked, kept, crashes>>

Written ==
    /\ step = "writing"
    /\ tmp' = [tmp EXCEPT !.whole = TRUE]
    /\ step' = "rename"
    /\ UNCHANGED <<memoryState, loaded, dirty, writeChain, file, lastWriteError,
                   asked, kept, crashes>>

\* save returns: to the head link, or to ensureLoaded.
Settle ==
    /\ step' = "none"
    /\ IF loaded THEN Return /\ UNCHANGED loaded
       ELSE loaded' = TRUE /\ UNCHANGED <<writeChain, asked, kept>>

\* Mutant: the flag is cleared when the save ends, not when it begins.
RenameClearing ==
    /\ step = "rename"
    /\ file' = tmp
    /\ tmp' = NoFile
    /\ dirty' = FALSE
    /\ lastWriteError' = FALSE
    /\ Settle
    /\ UNCHANGED <<memoryState, crashes>>

Rename ==
    /\ step = "rename"
    /\ file' = tmp
    /\ tmp' = NoFile
    /\ lastWriteError' = FALSE
    /\ Settle
    /\ UNCHANGED <<memoryState, dirty, crashes>>

\* Mutant: a save that throws leaves its link unsettled.
SaveStuck ==
    /\ step # "none"
    /\ step' = "stuck"
    /\ UNCHANGED <<memoryState, loaded, dirty, writeChain, tmp, file,
                   lastWriteError, asked, kept, crashes>>

\* A step of save throws: it is logged, and save returns all the same.
SaveFails ==
    /\ step # "none"
    /\ lastWriteError' = TRUE
    /\ Settle
    /\ UNCHANGED <<memoryState, dirty, tmp, file, crashes>>

\* The process dies and a new one starts: both paths stay as they are.
Crash ==
    /\ crashes < MaxCrashes
    /\ crashes' = crashes + 1
    /\ memoryState' = 0 /\ loaded' = FALSE /\ dirty' = FALSE
    /\ writeChain' = <<>> /\ step' = "none"
    /\ lastWriteError' = FALSE
    /\ asked' = [c \in Callers |-> 0]
    /\ UNCHANGED <<tmp, file, kept>>

Progress ==
    ensureLoaded \/ Link \/ Mkdir \/ Write \/ Written \/ Rename \/ SaveFails

Next == (\E c \in Callers : persist(c)) \/ Progress \/ Crash

\* Promise reactions run and file operations end; nobody has to call.
Spec == Init /\ [][Next]_vars /\ WF_vars(Progress)

-----------------------------------------------------------------------------
\* The state a restart would load: the file's, or the seeded one.
durable == IF file = NoFile THEN 0 ELSE file.version

\* A caller that returned while writeError() reported nothing finds its
\* change on file, whatever fails, dies or changes next: "awaiting the result
\* means the HTTP response is only sent after the decision is durably on
\* disk" (storage.ts:135-140).
ReturnedIsOnFile == kept <= durable

\* "A change that lands while a save is in flight is always persisted
\* afterwards" (storage.ts:46-47), unless the process dies first or a save
\* has failed.
ChangesReachFile ==
    \A v \in 1..MaxVersion :
        loaded /\ memoryState >= v
            ~> durable >= v \/ ~loaded \/ lastWriteError

\* Every call returns, whatever fails, unless the process dies first.
EveryCallReturns ==
    \A c \in Callers : asked[c] # 0 ~> asked[c] = 0

\* The backend keeps the promise of DurableStore, which CreditLedger's Flush
\* uses; before it has loaded the file, its memory counts as the file.
Durable == INSTANCE DurableStore WITH
               memory <- IF loaded THEN memoryState ELSE durable,
               file <- durable,
               failed <- lastWriteError
ImplementsDurableStore == Durable!Spec
=============================================================================
