--------------------------- MODULE JsonStoreProofs ---------------------------
(***************************************************************************)
(* What JsonStore keeps for any number of callers, states and crashes, as  *)
(* long as a file that is there loads: a change whose caller has returned  *)
(* is on file, and the backend is a DurableStore.  A readable file that    *)
(* fails to load is replaced by the defaults, and both end there.          *)
(***************************************************************************)
EXTENDS JsonStore, TLAPS

StoreTypes ==
    /\ memoryState \in Nat /\ kept \in Nat /\ crashes \in Nat
    /\ loaded \in BOOLEAN /\ dirty \in BOOLEAN /\ lastWriteError \in BOOLEAN
    /\ writeChain \in Seq(Callers)
    /\ step \in {"none", "mkdir", "write", "writing", "rename"}
    /\ tmp \in Content \union {NoFile}
    /\ file \in Content \union {NoFile}
    /\ asked \in [Callers -> Nat]

\* Each link belongs to a caller of its own, whose change memory has.
Chain ==
    \A i \in 1..Len(writeChain) :
        /\ asked[writeChain[i]] \in 1..memoryState
        /\ \A j \in 1..Len(writeChain) : j # i => writeChain[j] # writeChain[i]

\* Until the file is loaded nothing has changed, and defaults are saved only
\* where there is no file.
Unloaded ==
    ~loaded =>
        /\ memoryState = 0 /\ ~dirty /\ ~lastWriteError /\ writeChain = <<>>
        /\ step # "none" => file = NoFile

\* What the save under way has read of memory: no less than the file has,
\* the change of the caller it runs for, and all of it unless the flag is
\* set again.
Snapshot ==
    /\ step # "none" /\ loaded => writeChain # <<>>
    /\ step \in {"writing", "rename"} =>
         /\ tmp # NoFile
         /\ durable <= tmp.version /\ tmp.version <= memoryState
         /\ loaded => asked[Head(writeChain)] <= tmp.version
         /\ ~dirty => tmp.version = memoryState
    /\ step = "rename" => tmp.whole

\* What the file has: it is whole, and all of memory when no save is due,
\* under way or failed.
OnFile ==
    /\ file # NoFile => file.whole
    /\ loaded => durable <= memoryState
    /\ loaded /\ ~dirty /\ step = "none" /\ ~lastWriteError
         => durable = memoryState

StoreInv ==
    StoreTypes /\ Chain /\ Unloaded /\ Snapshot /\ OnFile /\ ReturnedIsOnFile

-----------------------------------------------------------------------------
(* What the head of the chain is, and what its return leaves.              *)

LEMMA NothingChanged ==
    /\ <<>> \in Seq(Callers) /\ Len(<<>>) = 0
    /\ [c \in Callers |-> 0] \in [Callers -> Nat]
  <1>1. <<>> \in Seq(Callers) /\ Len(<<>>) = 0
    OBVIOUS
  <1>2. [c \in Callers |-> 0] \in [Callers -> Nat]
    OBVIOUS
  <1> QED BY <1>1, <1>2

LEMMA HeadOfChain ==
    ASSUME StoreTypes, Chain, writeChain # <<>>
    PROVE  /\ Head(writeChain) \in Callers
           /\ asked[Head(writeChain)] \in 1..memoryState
  <1>1. Len(writeChain) \in Nat \ {0} /\ Head(writeChain) = writeChain[1]
    BY DEF StoreTypes
  <1>2. 1 \in 1..Len(writeChain)
    BY <1>1
  <1> QED BY <1>1, <1>2 DEF StoreTypes, Chain

LEMMA ReturnKeeps ==
    ASSUME StoreTypes, Chain, writeChain # <<>>, Return,
           UNCHANGED memoryState, lastWriteError' \in BOOLEAN
    PROVE  /\ writeChain' \in Seq(Callers)
           /\ asked' \in [Callers -> Nat]
           /\ kept' \in Nat
           /\ Chain'
           /\ \/ kept' = kept
              \/ ~lastWriteError' /\ kept' = asked[Head(writeChain)]
  <1> DEFINE c == Head(writeChain)
  <1>1. c \in Callers /\ asked[c] \in 1..memoryState
    BY HeadOfChain
  <1>2. /\ writeChain' = Tail(writeChain)
        /\ asked' = [asked EXCEPT ![c] = 0]
        /\ kept' = IF ~lastWriteError' /\ asked[c] > kept THEN asked[c] ELSE kept
    BY DEF Return
  <1>3. writeChain' \in Seq(Callers) /\ asked' \in [Callers -> Nat] /\ kept' \in Nat
    BY <1>1, <1>2 DEF StoreTypes
  <1>4. /\ Len(writeChain') = Len(writeChain) - 1
        /\ \A i \in 1..Len(writeChain') : writeChain'[i] = writeChain[i + 1]
    BY <1>2 DEF StoreTypes
  <1>5. ASSUME NEW i \in 1..Len(writeChain')
        PROVE  /\ asked'[writeChain'[i]] \in 1..memoryState
               /\ \A j \in 1..Len(writeChain') :
                    j # i => writeChain'[j] # writeChain'[i]
    <2>1. /\ Len(writeChain) \in Nat
          /\ i + 1 \in 1..Len(writeChain) /\ 1 \in 1..Len(writeChain)
          /\ i + 1 # 1 /\ c = writeChain[1]
          /\ writeChain[i + 1] \in Callers
      BY <1>4 DEF StoreTypes
    <2>2. writeChain[i + 1] # c /\ asked[writeChain[i + 1]] \in 1..memoryState
      BY <2>1 DEF Chain
    <2>3. asked'[writeChain'[i]] \in 1..memoryState
      BY <1>2, <1>4, <2>1, <2>2 DEF StoreTypes
    <2>4. ASSUME NEW j \in 1..Len(writeChain'), j # i
          PROVE  writeChain'[j] # writeChain'[i]
      <3>1. j + 1 \in 1..Len(writeChain) /\ j + 1 # i + 1
        BY <1>4, <2>1, <2>4
      <3> QED BY <1>4, <2>1, <3>1, <2>4 DEF Chain
    <2> QED BY <2>3, <2>4
  <1>6. Chain'
    BY <1>5 DEF Chain
  <1> QED BY <1>1, <1>2, <1>3, <1>6 DEF StoreTypes

-----------------------------------------------------------------------------
(* Every step keeps StoreInv.                                              *)

LEMMA LoadKeeps ==
    ASSUME StoreInv, ~ReadErrors, ensureLoaded
    PROVE  StoreInv'
  <1> USE DEF StoreInv, ensureLoaded
  <1>1. CASE loaded'
    <2>1. /\ file # NoFile /\ memoryState' = file.version /\ UNCHANGED step
          /\ step = "none" /\ file \in Content /\ writeChain = <<>>
      BY <1>1 DEF StoreTypes, Unloaded
    <2>2. StoreTypes'
      BY <1>1, <2>1 DEF StoreTypes, Content
    <2>3. Chain'
      BY <2>1 DEF Chain
    <2>4. Unloaded' /\ Snapshot' /\ OnFile' /\ ReturnedIsOnFile'
      BY <1>1, <2>1 DEF Unloaded, Snapshot, OnFile, ReturnedIsOnFile, durable,
                        Content
    <2> QED BY <2>2, <2>3, <2>4
  <1>2. CASE ~loaded'
    <2>1. file = NoFile /\ step' = "mkdir" /\ UNCHANGED <<memoryState, loaded>>
      BY <1>2 DEF Readable, OnFile
    <2>2. StoreTypes'
      BY <2>1 DEF StoreTypes
    <2>3. Chain'
      BY <2>1 DEF Chain
    <2>4. Unloaded' /\ Snapshot' /\ OnFile' /\ ReturnedIsOnFile'
      BY <1>2, <2>1 DEF Unloaded, Snapshot, OnFile, ReturnedIsOnFile, durable
    <2> QED BY <2>2, <2>3, <2>4
  <1> QED BY <1>1, <1>2

LEMMA PersistKeeps ==
    ASSUME StoreInv, NEW c \in Callers, persist(c)
    PROVE  StoreInv'
  <1> USE DEF StoreInv, persist
  <1>1. /\ memoryState' = memoryState + 1 /\ memoryState \in Nat
        /\ \A x \in Callers :
             asked'[x] = IF x = c THEN memoryState + 1 ELSE asked[x]
        /\ asked[c] = 0
    BY DEF StoreTypes
  <1>2. /\ Len(writeChain') = Len(writeChain) + 1
        /\ Len(writeChain) \in Nat
        /\ \A i \in 1..Len(writeChain) :
             writeChain'[i] = writeChain[i] /\ writeChain[i] \in Callers
        /\ writeChain'[Len(writeChain) + 1] = c
        /\ writeChain' # <<>>
        /\ writeChain' \in Seq(Callers)
    BY DEF StoreTypes
  <1>3. StoreTypes'
    BY <1>1, <1>2 DEF StoreTypes
  <1>4. \A i \in 1..Len(writeChain) :
          asked[writeChain[i]] \in 1..memoryState /\ writeChain[i] # c
    BY <1>1 DEF Chain
  <1>5. Chain'
    <2>1. ASSUME NEW i \in 1..Len(writeChain')
          PROVE  asked'[writeChain'[i]] \in 1..memoryState'
      <3>1. CASE i \in 1..Len(writeChain)
        BY <1>1, <1>2, <1>4, <3>1
      <3>2. CASE i = Len(writeChain) + 1
        BY <1>1, <1>2, <3>2
      <3> QED BY <1>2, <3>1, <3>2
    <2>2. ASSUME NEW i \in 1..Len(writeChain'), NEW j \in 1..Len(writeChain'),
                 j # i
          PROVE  writeChain'[j] # writeChain'[i]
      <3>1. CASE i \in 1..Len(writeChain) /\ j \in 1..Len(writeChain)
        BY <1>2, <2>2, <3>1 DEF Chain
      <3>2. CASE i = Len(writeChain) + 1 /\ j \in 1..Len(writeChain)
        BY <1>2, <1>4, <3>2
      <3>3. CASE j = Len(writeChain) + 1 /\ i \in 1..Len(writeChain)
        BY <1>2, <1>4, <3>3
      <3> QED BY <1>2, <2>2, <3>1, <3>2, <3>3
    <2> QED BY <2>1, <2>2 DEF Chain
  <1>6. writeChain # <<>> =>
          /\ Head(writeChain') = Head(writeChain)
          /\ asked'[Head(writeChain')] = asked[Head(writeChain)]
    <2>1. ASSUME writeChain # <<>>
          PROVE  1 \in 1..Len(writeChain) /\ Head(writeChain) = writeChain[1]
      BY <2>1 DEF StoreTypes
    <2>2. ASSUME writeChain # <<>>
          PROVE  Head(writeChain') = writeChain'[1]
      BY <1>2
    <2> QED BY <1>1, <1>2, <1>4, <2>1, <2>2
  <1>7. Snapshot'
    <2>1. step # "none" => writeChain # <<>>
      BY DEF Snapshot
    <2>2. step \in {"writing", "rename"} =>
            tmp \in Content /\ tmp.version \in Nat
      BY DEF StoreTypes, Snapshot, Content
    <2>3. durable' = durable
      BY DEF durable
    <2> QED BY <1>1, <1>2, <1>6, <2>1, <2>2, <2>3 DEF Snapshot
  <1>8. durable \in Nat /\ durable' = durable
    BY DEF durable, StoreTypes, Content
  <1>9. Unloaded' /\ OnFile' /\ ReturnedIsOnFile'
    BY <1>1, <1>8 DEF Unloaded, OnFile, ReturnedIsOnFile
  <1> QED BY <1>3, <1>5, <1>7, <1>9

LEMMA LinkKeeps ==
    ASSUME StoreInv, Link
    PROVE  StoreInv'
  <1> USE DEF StoreInv, Link
  <1>1. durable' = durable /\ durable \in Nat
    BY DEF durable, StoreTypes, Content
  <1>2. CASE ~dirty /\ Return
    <2>1. /\ writeChain' \in Seq(Callers) /\ asked' \in [Callers -> Nat]
          /\ kept' \in Nat /\ Chain'
          /\ \/ kept' = kept
             \/ ~lastWriteError' /\ kept' = asked[Head(writeChain)]
      BY <1>2, ReturnKeeps DEF StoreTypes
    <2>2. UNCHANGED <<dirty, step>>
      BY <1>2
    <2>3. ~lastWriteError' => asked[Head(writeChain)] <= durable
      BY <1>2, HeadOfChain DEF OnFile, StoreTypes
    <2>4. StoreTypes'
      BY <2>1, <2>2 DEF StoreTypes
    <2>5. Unloaded' /\ Snapshot' /\ OnFile' /\ ReturnedIsOnFile'
      BY <1>1, <2>1, <2>2, <2>3
         DEF Unloaded, Snapshot, OnFile, ReturnedIsOnFile
    <2> QED BY <2>1, <2>4, <2>5
  <1>3. CASE dirty /\ dirty' = FALSE /\ step' = "mkdir"
               /\ UNCHANGED <<writeChain, asked, kept>>
    <2>1. StoreTypes'
      BY <1>3 DEF StoreTypes
    <2>2. Chain' /\ Unloaded' /\ Snapshot' /\ OnFile' /\ ReturnedIsOnFile'
      BY <1>1, <1>3 DEF Chain, Unloaded, Snapshot, OnFile, ReturnedIsOnFile
    <2> QED BY <2>1, <2>2
  <1> QED BY <1>2, <1>3

LEMMA MkdirKeeps ==
    ASSUME StoreInv, Mkdir
    PROVE  StoreInv'
  <1> USE DEF StoreInv, Mkdir
  <1>1. StoreTypes'
    BY DEF StoreTypes
  <1>2. durable' = durable
    BY DEF durable
  <1>3. Chain' /\ Unloaded' /\ Snapshot' /\ OnFile' /\ ReturnedIsOnFile'
    BY <1>2 DEF Chain, Unloaded, Snapshot, OnFile, ReturnedIsOnFile
  <1> QED BY <1>1, <1>3

LEMMA WriteKeeps ==
    ASSUME StoreInv, Write
    PROVE  StoreInv'
  <1> USE DEF StoreInv, Write
  <1>1. tmp' \in Content /\ tmp'.version = memoryState /\ tmp' # NoFile
    <2>1. memoryState \in Nat /\ tmp' = [version |-> memoryState, whole |-> FALSE]
      BY DEF StoreTypes
    <2>2. tmp' \in Content /\ tmp'.version = memoryState
      BY <2>1 DEF Content
    <2> QED BY <2>2, StoreAssumption
  <1>2. StoreTypes'
    BY <1>1 DEF StoreTypes
  <1>3. durable' = durable /\ durable \in Nat /\ memoryState \in Nat
    BY DEF durable, StoreTypes, Content
  <1>4. durable <= memoryState
    BY <1>3 DEF OnFile, Unloaded, durable
  <1>5. loaded => asked[Head(writeChain)] <= memoryState
    BY HeadOfChain DEF Snapshot, StoreTypes
  <1>6. Snapshot'
    BY <1>1, <1>3, <1>4, <1>5 DEF Snapshot
  <1>7. Chain' /\ Unloaded' /\ OnFile' /\ ReturnedIsOnFile'
    BY <1>3 DEF Chain, Unloaded, OnFile, ReturnedIsOnFile
  <1> QED BY <1>2, <1>6, <1>7

LEMMA WrittenKeeps ==
    ASSUME StoreInv, Written
    PROVE  StoreInv'
  <1> USE DEF StoreInv, Written
  <1>1. tmp \in Content
    BY DEF StoreTypes, Snapshot
  <1>2. /\ tmp' \in Content /\ tmp'.version = tmp.version /\ tmp'.whole
        /\ tmp' # NoFile
    BY <1>1, StoreAssumption DEF Content
  <1>3. StoreTypes'
    BY <1>2 DEF StoreTypes
  <1>4. durable' = durable
    BY DEF durable
  <1>5. Chain' /\ Unloaded' /\ Snapshot' /\ OnFile' /\ ReturnedIsOnFile'
    BY <1>2, <1>4 DEF Chain, Unloaded, Snapshot, OnFile, ReturnedIsOnFile
  <1> QED BY <1>3, <1>5

\* Where save returns to.
LEMMA SettleKeeps ==
    ASSUME StoreInv, Settle, step # "none", UNCHANGED memoryState,
           lastWriteError' \in BOOLEAN
    PROVE  /\ loaded'
           /\ writeChain' \in Seq(Callers) /\ asked' \in [Callers -> Nat]
           /\ kept' \in Nat /\ Chain'
           /\ \/ kept' = kept
              \/ loaded /\ ~lastWriteError' /\ kept' = asked[Head(writeChain)]
  <1>1. CASE loaded
    <2>1. Return /\ UNCHANGED loaded /\ writeChain # <<>>
      BY <1>1 DEF Settle, StoreInv, Snapshot
    <2> QED BY <1>1, <2>1, ReturnKeeps DEF StoreInv
  <1>2. CASE ~loaded
    BY <1>2 DEF Settle, StoreInv, StoreTypes, Chain
  <1> QED BY <1>1, <1>2

LEMMA RenameKeeps ==
    ASSUME StoreInv, Rename
    PROVE  StoreInv'
  <1> USE DEF StoreInv, Rename
  <1>1. /\ loaded'
        /\ writeChain' \in Seq(Callers) /\ asked' \in [Callers -> Nat]
        /\ kept' \in Nat /\ Chain'
        /\ \/ kept' = kept
           \/ loaded /\ kept' = asked[Head(writeChain)]
    BY SettleKeeps
  <1>2. step' = "none"
    BY DEF Settle
  <1>3. tmp \in Content /\ tmp # NoFile /\ tmp.version \in Nat /\ tmp.whole
    BY DEF StoreTypes, Snapshot, Content
  <1>4. durable' = tmp.version /\ durable \in Nat /\ durable <= tmp.version
    BY <1>3 DEF durable, StoreTypes, Snapshot, Content
  <1>5. StoreTypes'
    BY <1>1, <1>2, <1>3 DEF StoreTypes
  <1>6. Snapshot' /\ Unloaded'
    BY <1>1, <1>2 DEF Snapshot, Unloaded
  <1>7. OnFile'
    BY <1>3, <1>4 DEF OnFile, Snapshot, StoreTypes
  <1>8. ReturnedIsOnFile'
    BY <1>1, <1>3, <1>4, HeadOfChain DEF ReturnedIsOnFile, Snapshot, StoreTypes
  <1> QED BY <1>1, <1>5, <1>6, <1>7, <1>8

LEMMA SaveFailsKeeps ==
    ASSUME StoreInv, SaveFails
    PROVE  StoreInv'
  <1> USE DEF StoreInv, SaveFails
  <1>1. /\ loaded'
        /\ writeChain' \in Seq(Callers) /\ asked' \in [Callers -> Nat]
        /\ kept' \in Nat /\ Chain' /\ kept' = kept
    BY SettleKeeps
  <1>2. step' = "none"
    BY DEF Settle
  <1>3. durable' = durable /\ durable \in Nat /\ durable <= memoryState
    BY DEF durable, StoreTypes, Content, OnFile, Unloaded
  <1>4. StoreTypes'
    BY <1>1, <1>2 DEF StoreTypes
  <1>5. Snapshot' /\ Unloaded' /\ OnFile' /\ ReturnedIsOnFile'
    BY <1>1, <1>2, <1>3 DEF Snapshot, Unloaded, OnFile, ReturnedIsOnFile
  <1> QED BY <1>1, <1>4, <1>5

LEMMA CrashKeeps ==
    ASSUME StoreInv, Crash
    PROVE  StoreInv'
  <1> USE DEF StoreInv, Crash
  <1>1. StoreTypes'
    <2>1. asked' \in [Callers -> Nat] /\ writeChain' \in Seq(Callers)
      BY NothingChanged
    <2>2. crashes' \in Nat
      BY DEF StoreTypes
    <2> QED BY <2>1, <2>2 DEF StoreTypes
  <1>2. durable' = durable
    BY DEF durable
  <1>3. Chain' /\ Unloaded' /\ Snapshot' /\ OnFile' /\ ReturnedIsOnFile'
    BY <1>2 DEF Chain, Unloaded, Snapshot, OnFile, ReturnedIsOnFile
  <1> QED BY <1>1, <1>3

LEMMA InitStore == Init => StoreInv
  <1> SUFFICES ASSUME Init PROVE StoreInv
    OBVIOUS
  <1>1. StoreTypes
    BY NothingChanged DEF Init, StoreTypes
  <1>2. Chain
    BY NothingChanged DEF Init, Chain
  <1>3. Unloaded /\ Snapshot /\ OnFile /\ ReturnedIsOnFile
    BY DEF Init, Unloaded, Snapshot, OnFile, ReturnedIsOnFile, durable
  <1> QED BY <1>1, <1>2, <1>3 DEF StoreInv

LEMMA NextStore ==
    ASSUME StoreInv, ~ReadErrors, [Next]_vars
    PROVE  StoreInv'
  <1>1. CASE \E c \in Callers : persist(c)
    BY <1>1, PersistKeeps
  <1>2. CASE Progress
    BY <1>2, LoadKeeps, LinkKeeps, MkdirKeeps, WriteKeeps, WrittenKeeps,
       RenameKeeps, SaveFailsKeeps DEF Progress
  <1>3. CASE Crash
    BY <1>3, CrashKeeps
  <1>4. CASE UNCHANGED vars
    <2>1. durable' = durable
      BY <1>4 DEF vars, durable
    <2> QED BY <1>4, <2>1 DEF vars, StoreInv, StoreTypes, Chain, Unloaded,
                              Snapshot, OnFile, ReturnedIsOnFile
  <1> QED BY <1>1, <1>2, <1>3, <1>4 DEF Next

\* The inductive invariant, as long as a file that is there loads.
THEOREM StoreInvariant ==
    ASSUME ~ReadErrors
    PROVE  Spec => []StoreInv
  <1>1. StoreInv /\ [Next]_vars => StoreInv'
    BY NextStore
  <1> QED BY <1>1, InitStore, PTL DEF Spec

\* A caller that returned while no write error stood finds its change on file,
\* after any number of crashes: a save clears the flag before it reads memory,
\* and what it read holds the change of the caller it runs for
\* (StorageRepository.save, storage.ts).
THEOREM ReturnedIsOnFileHolds ==
    ASSUME ~ReadErrors
    PROVE  Spec => []ReturnedIsOnFile
  <1> QED BY StoreInvariant, PTL DEF StoreInv
-----------------------------------------------------------------------------
(* Every step of the backend is a step of DurableStore, or none.           *)

\* A step of the promise, or none.
Promised == Durable!Next \/ UNCHANGED Durable!vars

\* One caller returns.
LEMMA OneReturns ==
    ASSUME StoreTypes, Chain, writeChain # <<>>, Return
    PROVE  /\ {Head(writeChain)} \in SUBSET Callers
           /\ asked' = [c \in Callers |->
                         IF c \in {Head(writeChain)} THEN 0 ELSE asked[c]]
  <1>1. Head(writeChain) \in Callers
    BY HeadOfChain
  <1>2. asked' = [asked EXCEPT ![Head(writeChain)] = 0]
    BY DEF Return
  <1> QED BY <1>1, <1>2 DEF StoreTypes

LEMMA LoadPromised ==
    ASSUME StoreInv, ~ReadErrors, ensureLoaded
    PROVE  Promised
  <1>1. durable' = durable
    BY DEF ensureLoaded, durable
  <1>2. loaded' => memoryState' = durable
    BY DEF ensureLoaded, durable
  <1> QED BY <1>1, <1>2 DEF ensureLoaded, Promised, Durable!vars

LEMMA PersistPromised ==
    ASSUME StoreInv, NEW c \in Callers, persist(c)
    PROVE  Promised
  <1>1. durable' = durable
    BY DEF persist, durable
  <1>2. Durable!Change(c)
    BY <1>1 DEF persist, Durable!Change
  <1> QED BY <1>2 DEF Promised, Durable!Next

LEMMA LinkPromised ==
    ASSUME StoreInv, Link
    PROVE  Promised
  <1>1. durable' = durable
    BY DEF Link, durable
  <1>2. CASE ~dirty /\ Return
    <2> DEFINE done == {Head(writeChain)}
    <2>1. /\ done \in SUBSET Callers
          /\ asked' = [c \in Callers |-> IF c \in done THEN 0 ELSE asked[c]]
      BY <1>2, OneReturns DEF Link, StoreInv
    <2>2. asked[Head(writeChain)] <= durable \/ lastWriteError'
      BY <1>2, HeadOfChain DEF Link, StoreInv, OnFile, StoreTypes
    <2>3. \A c \in done : asked[c] <= durable \/ lastWriteError'
      BY <2>2
    <2>4. UNCHANGED <<IF loaded THEN memoryState ELSE durable, lastWriteError>>
      BY <1>1 DEF Link
    <2> HIDE DEF done
    <2>5. Durable!Return
      BY <1>1, <2>1, <2>3, <2>4 DEF Durable!Return, Durable!Release
    <2> QED BY <2>5 DEF Promised, Durable!Next
  <1>3. CASE UNCHANGED asked
    BY <1>1, <1>3 DEF Link, Promised, Durable!vars
  <1> QED BY <1>2, <1>3 DEF Link

LEMMA RenamePromised ==
    ASSUME StoreInv, Rename
    PROVE  Promised
  <1>1. /\ tmp # NoFile /\ durable' = tmp.version
        /\ durable \in Nat /\ tmp.version \in Nat
        /\ durable <= tmp.version /\ tmp.version <= memoryState
    BY DEF Rename, StoreInv, Snapshot, StoreTypes, Content, durable
  <1>2. loaded' /\ memoryState' = memoryState /\ ~lastWriteError'
    BY DEF Rename, Settle
  <1>3. CASE loaded
    <2> DEFINE done == {Head(writeChain)}
    <2>1. writeChain # <<>> /\ Return
      BY <1>3 DEF Rename, Settle, StoreInv, Snapshot
    <2>2. /\ done \in SUBSET Callers
          /\ asked' = [c \in Callers |-> IF c \in done THEN 0 ELSE asked[c]]
      BY <2>1, OneReturns DEF StoreInv
    <2>3. \A c \in done : asked[c] <= tmp.version
      BY <1>3 DEF Rename, StoreInv, Snapshot
    <2>4. tmp.version \in durable..memoryState
      BY <1>1 DEF StoreInv, StoreTypes
    <2> HIDE DEF done
    <2>5. Durable!Save
      BY <1>1, <1>2, <1>3, <2>2, <2>3, <2>4
         DEF Rename, Durable!Save, Durable!Release
    <2> QED BY <2>5 DEF Promised, Durable!Next
  <1>4. CASE ~loaded
    <2>1. durable = 0 /\ memoryState = 0 /\ ~lastWriteError
      BY <1>4 DEF Rename, StoreInv, Unloaded, durable
    <2>2. durable' = 0 /\ UNCHANGED asked
      BY <1>1, <1>4, <2>1 DEF Rename, Settle
    <2> QED BY <1>2, <1>4, <2>1, <2>2
           DEF Rename, StoreInv, StoreTypes, Promised, Durable!vars
  <1> QED BY <1>3, <1>4

LEMMA SaveFailsPromised ==
    ASSUME StoreInv, SaveFails
    PROVE  Promised
  <1>1. durable' = durable
    BY DEF SaveFails, durable
  <1>2. loaded' /\ memoryState' = memoryState /\ lastWriteError'
    BY DEF SaveFails, Settle
  <1>3. ~loaded => durable = memoryState
    BY DEF SaveFails, StoreInv, Unloaded, durable
  <1>4. PICK done \in SUBSET Callers :
          asked' = [c \in Callers |-> IF c \in done THEN 0 ELSE asked[c]]
    <2>1. CASE loaded
      <3>1. writeChain # <<>> /\ Return
        BY <2>1 DEF SaveFails, Settle, StoreInv, Snapshot
      <3> QED BY <3>1, OneReturns DEF StoreInv
    <2>2. CASE ~loaded
      <3>1. asked' = [c \in Callers |-> IF c \in {} THEN 0 ELSE asked[c]]
        BY <2>2 DEF SaveFails, Settle, StoreInv, StoreTypes
      <3>2. {} \in SUBSET Callers
        OBVIOUS
      <3> WITNESS {} \in SUBSET Callers
      <3> QED BY <3>1
    <2> QED BY <2>1, <2>2
  <1>5. Durable!Return
    BY <1>1, <1>2, <1>3, <1>4 DEF Durable!Return, Durable!Release
  <1> QED BY <1>5 DEF Promised, Durable!Next

LEMMA CrashPromised ==
    ASSUME StoreInv, Crash
    PROVE  Promised
  <1>1. durable' = durable
    BY DEF Crash, durable
  <1>2. Durable!Crash
    BY <1>1 DEF Crash, Durable!Crash
  <1> QED BY <1>2 DEF Promised, Durable!Next

LEMMA NextPromised ==
    ASSUME StoreInv, ~ReadErrors, [Next]_vars
    PROVE  Promised
  <1>1. CASE \E c \in Callers : persist(c)
    BY <1>1, PersistPromised
  <1>2. CASE ensureLoaded \/ Link \/ Rename \/ SaveFails
    BY <1>2, LoadPromised, LinkPromised, RenamePromised, SaveFailsPromised
  <1>3. CASE Mkdir \/ Write \/ Written
    <2>1. UNCHANGED <<memoryState, loaded, file, lastWriteError, asked>>
      BY <1>3 DEF Mkdir, Write, Written
    <2>2. durable' = durable
      BY <2>1 DEF durable
    <2> QED BY <2>1, <2>2 DEF Promised, Durable!vars
  <1>4. CASE Crash
    BY <1>4, CrashPromised
  <1>5. CASE UNCHANGED vars
    <2>1. durable' = durable
      BY <1>5 DEF vars, durable
    <2> QED BY <1>5, <2>1 DEF vars, Promised, Durable!vars
  <1> QED BY <1>1, <1>2, <1>3, <1>4, <1>5 DEF Next, Progress

LEMMA InitPromised == Init => Durable!Init
  BY DEF Init, Durable!Init, durable

\* The backend keeps the promise CreditLedger's Flush relies on: a call returns
\* only when the file holds its change or a write error is on record, the file
\* goes from one state memory had to a later one, and a restart continues from
\* the file (StorageRepository, storage.ts).
THEOREM StoreKeepsPromise ==
    ASSUME ~ReadErrors
    PROVE  Spec => ImplementsDurableStore
  <1>1. StoreInv /\ [Next]_vars => [Durable!Next]_(Durable!vars)
    BY NextPromised DEF Promised
  <1> QED BY <1>1, StoreInvariant, InitPromised, PTL
         DEF Spec, ImplementsDurableStore, Durable!Spec
=============================================================================
