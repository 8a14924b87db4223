-------------------------- MODULE LiveAdapterProofs --------------------------
(***************************************************************************)
(* What LiveAdapter keeps for any number of positions, readers,            *)
(* transactions and chains and any setting of its timers: the types, the   *)
(* end of the poll, the use of a daemon that has left its chain, and       *)
(* TransitionPromise.                                                      *)
(***************************************************************************)
EXTENDS LiveAdapter, TLAPS

\* A vault read only attests and reads; a submission never reads.
Roles ==
    /\ \A r \in Readers : pc[r] \in {"idle", "attest", "vault"}
    /\ \A p \in Positions : pc[p] # "vault"

\* No request is awaited for longer than its timeout, a lookup leaves before
\* the deadline, and a sleep ends before it.
Timers ==
    /\ \A c \in Callers : pc[c] \in Requests => left[c] <= RequestTimeout
    /\ \A p \in Positions :
         /\ pc[p] = "lookup" => left[p] < deadline[p] + RequestTimeout
         /\ pc[p] = "sleep" => left[p] < deadline[p]

TimeInv == TypeOK /\ Roles /\ Timers

\* The cached attestation, and one on its way back, are at least as old as
\* the daemon's departure from the expected chain; a decode began no later
\* than either allows.
Attested ==
    /\ daemon \in ExpectedIds => astray = 0
    /\ age < Ttl => astray <= age
    /\ \A c \in Callers :
         /\ pc[c] = "attest" /\ reply[c] \in ExpectedIds
              => astray <= RequestTimeout - left[c]
         /\ pc[c] = "decode" /\ RequireAttestation
              => astray < AtLeast(Ttl, RequestTimeout + 1)
                            + RequestTimeout - left[c]

ChainInv == TimeInv /\ Attested

-----------------------------------------------------------------------------
(* The types and the timers.                                               *)

LEMMA TimeInit == Init => TimeInv
  <1> SUFFICES ASSUME Init PROVE TimeInv
    OBVIOUS
  <1>1. TypeOK
    BY AdapterAssumption DEF Init, TypeOK, Fates
  <1>2. Roles /\ Timers
    BY AdapterAssumption DEF Init, Roles, Timers, Requests, Callers
  <1> QED BY <1>1, <1>2 DEF TimeInv

\* A caller that sends a request keeps the types.
LEMMA AwaitKeeps ==
    ASSUME TimeInv, NEW c \in Callers, NEW what \in Requests \cup {"sleep"},
           NEW time \in Nat, Await(c, what, time),
           what \in Requests => time <= RequestTimeout,
           c \in Readers => what \in {"attest", "vault"},
           c \in Positions =>
             /\ what # "vault"
             /\ what = "lookup" => time < deadline'[c] + RequestTimeout
             /\ what = "sleep" => time < deadline'[c],
           deadline' \in [Positions -> Int],
           \A p \in Positions : p # c => deadline'[p] = deadline[p]
    PROVE  /\ pc' \in [Callers -> Requests \cup {"idle", "sleep"}]
           /\ left' \in [Callers -> Nat]
           /\ reply' \in [Callers -> ChainIds \cup Replies \cup {None}]
           /\ Roles' /\ Timers'
  <1>1. /\ pc' \in [Callers -> Requests \cup {"idle", "sleep"}]
        /\ left' \in [Callers -> Nat]
        /\ reply' \in [Callers -> ChainIds \cup Replies \cup {None}]
    BY DEF Await, TimeInv, TypeOK
  <1>2. Roles'
    BY AdapterAssumption DEF Await, TimeInv, TypeOK, Roles, Callers
  <1>3. Timers'
    BY DEF Await, TimeInv, TypeOK, Timers, Callers, Requests
  <1> QED BY <1>1, <1>2, <1>3

\* So does one that ends.
LEMMA EndKeeps ==
    ASSUME TimeInv, NEW c \in Callers, End(c),
           deadline' \in [Positions -> Int],
           \A p \in Positions : p # c => deadline'[p] = deadline[p]
    PROVE  /\ pc' \in [Callers -> Requests \cup {"idle", "sleep"}]
           /\ left' \in [Callers -> Nat]
           /\ reply' \in [Callers -> ChainIds \cup Replies \cup {None}]
           /\ Roles' /\ Timers'
  <1>1. /\ pc' \in [Callers -> Requests \cup {"idle", "sleep"}]
        /\ left' \in [Callers -> Nat]
        /\ reply' \in [Callers -> ChainIds \cup Replies \cup {None}]
    BY DEF End, TimeInv, TypeOK
  <1>2. Roles'
    BY AdapterAssumption DEF End, TimeInv, TypeOK, Roles, Callers
  <1>3. Timers'
    BY DEF End, TimeInv, TypeOK, Timers, Callers, Requests
  <1> QED BY <1>1, <1>2, <1>3

LEMMA ConcludeKeeps ==
    ASSUME TimeInv, NEW p \in Positions,
           NEW a \in {"refused", "rejected", "pending", "lost", "ok"},
           Conclude(p, a), UNCHANGED <<daemon, astray, ledger>>,
           tx' \in [Positions -> Txs], age' \in 0..Ttl,
           stray' \in SUBSET Txs, sent' \in SUBSET Txs
    PROVE  TimeInv'
  <1>1. /\ deadline' \in [Positions -> Int] /\ hashed' \in [Positions -> BOOLEAN]
        /\ \A q \in Positions : q # p => deadline'[q] = deadline[q]
        /\ answer' \in [Positions -> {"none", "refused", "rejected", "pending",
                                      "lost", "ok"}]
    BY DEF Conclude, TimeInv, TypeOK
  <1>2. End(p) /\ p \in Callers
    BY DEF Conclude, Callers
  <1> QED BY <1>1, <1>2, EndKeeps DEF TimeInv, TypeOK

LEMMA RefuseKeeps ==
    ASSUME TimeInv, NEW c \in Callers, Refuse(c),
           UNCHANGED <<daemon, astray, ledger>>,
           tx' \in [Positions -> Txs], age' \in 0..Ttl,
           stray' \in SUBSET Txs, sent' \in SUBSET Txs
    PROVE  TimeInv'
  <1>1. CASE c \in Positions
    BY <1>1, ConcludeKeeps DEF Refuse
  <1>2. CASE c \notin Positions
    <2>1. End(c) /\ UNCHANGED <<answer, deadline, hashed>>
      BY <1>2 DEF Refuse
    <2>2. deadline' \in [Positions -> Int]
      BY <2>1 DEF TimeInv, TypeOK
    <2> QED BY <2>1, <2>2, EndKeeps DEF TimeInv, TypeOK
  <1> QED BY <1>1, <1>2

\* The chain is known, or is asked for.
LEMMA AskKeeps ==
    ASSUME TimeInv, NEW c \in Callers,
           Proceed(c) \/ Await(c, "attest", RequestTimeout),
           UNCHANGED <<deadline, hashed, daemon, astray, ledger>>,
           answer' \in [Positions -> {"none", "refused", "rejected", "pending",
                                     "lost", "ok"}],
           tx' \in [Positions -> Txs], age' \in 0..Ttl,
           stray' \in SUBSET Txs, sent' \in SUBSET Txs
    PROVE  TimeInv'
  <1>1. PICK what \in {"attest", "decode", "vault"} :
          /\ Await(c, what, RequestTimeout)
          /\ c \in Positions => what # "vault"
          /\ c \in Readers => what # "decode"
    BY AdapterAssumption DEF Proceed, Callers
  <1>2. /\ what \in Requests /\ RequestTimeout \in Nat
        /\ deadline' \in [Positions -> Int]
    BY AdapterAssumption DEF Requests, TimeInv, TypeOK
  <1> QED BY <1>1, <1>2, AwaitKeeps DEF TimeInv, TypeOK

LEMMA TimeSubmit ==
    ASSUME TimeInv, NEW p \in Positions, Submit(p)
    PROVE  TimeInv'
  <1>1. /\ age' \in 0..Ttl /\ stray' \in SUBSET Txs /\ sent' \in SUBSET Txs
        /\ UNCHANGED <<daemon, astray, ledger>>
    BY DEF Submit, world, TimeInv, TypeOK
  <1>2. CASE Conclude(p, "refused") /\ UNCHANGED tx
    BY <1>1, <1>2, ConcludeKeeps DEF TimeInv, TypeOK
  <1>3. CASE /\ attest(p) /\ UNCHANGED <<deadline, hashed>>
             /\ answer' = [answer EXCEPT ![p] = "none"]
             /\ \E t \in Txs : tx' = [tx EXCEPT ![p] = t]
    <2>1. /\ tx' \in [Positions -> Txs]
          /\ answer' \in [Positions -> {"none", "refused", "rejected", "pending",
                                        "lost", "ok"}]
      BY <1>3 DEF TimeInv, TypeOK
    <2>2. Proceed(p) \/ Await(p, "attest", RequestTimeout)
      BY <1>3 DEF attest
    <2> QED BY <1>1, <1>3, <2>1, <2>2, AskKeeps DEF Callers
  <1> QED BY <1>2, <1>3 DEF Submit

LEMMA TimeRead ==
    ASSUME TimeInv, NEW r \in Readers, readVault(r)
    PROVE  TimeInv'
  <1>1. Proceed(r) \/ Await(r, "attest", RequestTimeout)
    BY DEF readVault, attest
  <1> QED BY <1>1, AskKeeps DEF readVault, world, Callers, TimeInv, TypeOK

LEMMA TimeAttest ==
    ASSUME TimeInv, NEW c \in Callers, AttestLands(c)
    PROVE  TimeInv'
  <1>1. age' \in 0..Ttl
    <2>1. /\ left[c] \in Nat /\ left[c] <= RequestTimeout
          /\ RequestTimeout \in Nat /\ Ttl \in Nat
      BY AdapterAssumption DEF AttestLands, TimeInv, TypeOK, Timers, Requests
    <2>2. age' = AtMost(RequestTimeout - left[c], Ttl) \/ age' = age
      BY DEF AttestLands
    <2> QED BY <2>1, <2>2 DEF AtMost, TimeInv, TypeOK
  <1>2. /\ tx' \in [Positions -> Txs] /\ stray' \in SUBSET Txs /\ sent' \in SUBSET Txs
        /\ UNCHANGED <<daemon, astray, ledger>>
    BY DEF AttestLands, world, TimeInv, TypeOK
  <1>3. CASE Refuse(c)
    BY <1>1, <1>2, <1>3, RefuseKeeps
  <1>4. CASE Proceed(c) /\ UNCHANGED <<answer, deadline, hashed>>
    BY <1>1, <1>2, <1>4, AskKeeps DEF TimeInv, TypeOK
  <1> QED BY <1>3, <1>4 DEF AttestLands

LEMMA TimeVault ==
    ASSUME TimeInv, NEW r \in Readers, VaultLands(r)
    PROVE  TimeInv'
  <1>1. End(r) /\ r \in Callers /\ deadline' \in [Positions -> Int]
    BY DEF VaultLands, Callers, TimeInv, TypeOK
  <1> QED BY <1>1, EndKeeps DEF VaultLands, world, TimeInv, TypeOK

LEMMA TimeDecode ==
    ASSUME TimeInv, NEW p \in Positions, DecodeLands(p)
    PROVE  TimeInv'
  <1>1. /\ tx' \in [Positions -> Txs] /\ stray' \in SUBSET Txs /\ sent' \in SUBSET Txs
        /\ age' \in 0..Ttl /\ UNCHANGED <<daemon, astray, ledger>>
    BY DEF DecodeLands, world, TimeInv, TypeOK
  <1>2. CASE Conclude(p, "refused")
    BY <1>1, <1>2, ConcludeKeeps
  <1>3. CASE /\ Await(p, "broadcast", RequestTimeout)
             /\ hashed' = [hashed EXCEPT ![p] = reply[p] = "named"]
             /\ UNCHANGED <<answer, deadline>>
    <2>1. /\ hashed' \in [Positions -> BOOLEAN]
          /\ deadline' \in [Positions -> Int]
      BY <1>3 DEF TimeInv, TypeOK
    <2>2. RequestTimeout \in Nat /\ p \in Callers /\ p \notin Readers
      BY AdapterAssumption DEF Callers
    <2> QED BY <1>1, <1>3, <2>1, <2>2, AwaitKeeps DEF TimeInv, TypeOK, Requests
  <1> QED BY <1>2, <1>3 DEF DecodeLands

LEMMA TimeBroadcast ==
    ASSUME TimeInv, NEW p \in Positions, BroadcastLands(p)
    PROVE  TimeInv'
  <1>1. /\ tx' \in [Positions -> Txs] /\ stray' \in SUBSET Txs /\ sent' \in SUBSET Txs
        /\ age' \in 0..Ttl /\ UNCHANGED <<daemon, astray, ledger>>
    BY DEF BroadcastLands, world, TimeInv, TypeOK
  <1>2. CASE Conclude(p, "rejected") \/ Conclude(p, "lost")
    BY <1>1, <1>2, ConcludeKeeps
  <1>3. CASE /\ Await(p, "lookup", RequestTimeout)
             /\ deadline' = [deadline EXCEPT ![p] = ConfirmTimeout]
             /\ UNCHANGED <<hashed, answer>>
    <2>1. /\ deadline' \in [Positions -> Int]
          /\ deadline'[p] = ConfirmTimeout /\ ConfirmTimeout \in Nat \ {0}
          /\ \A q \in Positions : q # p => deadline'[q] = deadline[q]
      BY <1>3, AdapterAssumption DEF TimeInv, TypeOK
    <2>2. RequestTimeout \in Nat /\ p \in Callers /\ p \notin Readers
      BY AdapterAssumption DEF Callers
    <2>3. RequestTimeout < deadline'[p] + RequestTimeout
      BY <2>1, <2>2
    <2> QED BY <1>1, <1>3, <2>1, <2>2, <2>3, AwaitKeeps
            DEF TimeInv, TypeOK, Requests
  <1> QED BY <1>2, <1>3 DEF BroadcastLands

LEMMA NotYetKeeps ==
    ASSUME TimeInv, NEW p \in Positions, NotYet(p),
           UNCHANGED <<tx, age, daemon, astray, ledger>>,
           stray' \in SUBSET Txs, sent' \in SUBSET Txs
    PROVE  TimeInv'
  <1>1. tx' \in [Positions -> Txs] /\ age' \in 0..Ttl
    BY DEF TimeInv, TypeOK
  <1>2. CASE Conclude(p, "pending")
    BY <1>1, <1>2, ConcludeKeeps
  <1>3. CASE /\ deadline[p] > PollInterval
             /\ Await(p, "sleep", PollInterval)
             /\ UNCHANGED <<deadline, hashed, answer>>
    <2>1. deadline' \in [Positions -> Int] /\ PollInterval < deadline'[p]
      BY <1>3, AdapterAssumption DEF TimeInv, TypeOK
    <2>2. PollInterval \in Nat /\ p \in Callers /\ p \notin Readers
      BY AdapterAssumption DEF Callers
    <2> QED BY <1>1, <1>3, <2>1, <2>2, AwaitKeeps DEF TimeInv, TypeOK, Requests
  <1> QED BY <1>2, <1>3 DEF NotYet

LEMMA TimeLookup ==
    ASSUME TimeInv, NEW p \in Positions, LookupLands(p)
    PROVE  TimeInv'
  <1>1. /\ UNCHANGED <<tx, age, daemon, astray, ledger>>
        /\ tx' \in [Positions -> Txs] /\ stray' \in SUBSET Txs /\ sent' \in SUBSET Txs
        /\ age' \in 0..Ttl
    BY DEF LookupLands, world, TimeInv, TypeOK
  <1>2. CASE Conclude(p, "ok") \/ Conclude(p, "rejected")
    BY <1>1, <1>2, ConcludeKeeps
  <1>3. CASE NotYet(p)
    BY <1>1, <1>3, NotYetKeeps
  <1> QED BY <1>2, <1>3 DEF LookupLands

LEMMA TimeWake ==
    ASSUME TimeInv, NEW p \in Positions, Wake(p)
    PROVE  TimeInv'
  <1>1. /\ RequestTimeout \in Nat /\ p \in Callers /\ p \notin Readers
        /\ deadline' \in [Positions -> Int]
    BY AdapterAssumption DEF Wake, Callers, TimeInv, TypeOK
  <1>2. RequestTimeout < deadline'[p] + RequestTimeout
    \* A sleep ends before the deadline.
    BY <1>1 DEF Wake, TimeInv, TypeOK, Timers
  <1> QED BY <1>1, <1>2, AwaitKeeps
          DEF Wake, world, TimeInv, TypeOK, Requests

LEMMA TimeThrows ==
    ASSUME TimeInv, NEW c \in Callers, Throws(c)
    PROVE  TimeInv'
  <1>1. pc[c] \notin {"attest", "vault", "decode"} => c \in Positions
    BY DEF Throws, Callers, TimeInv, Roles, Requests
  <1>2. /\ UNCHANGED <<tx, age, daemon, astray, ledger>>
        /\ tx' \in [Positions -> Txs] /\ age' \in 0..Ttl
        /\ stray' \in SUBSET Txs /\ sent' \in SUBSET Txs
    BY <1>1 DEF Throws, TimeInv, TypeOK
  <1>3. CASE Refuse(c)
    BY <1>2, <1>3, RefuseKeeps
  <1>4. CASE pc[c] = "broadcast" /\ Conclude(c, "rejected")
    BY <1>1, <1>2, <1>4, ConcludeKeeps
  <1>5. CASE pc[c] = "lookup" /\ NotYet(c)
    BY <1>1, <1>2, <1>5, NotYetKeeps
  <1> QED BY <1>3, <1>4, <1>5 DEF Throws

LEMMA TimeStep ==
    ASSUME TimeInv, NEW c \in Callers, Step(c)
    PROVE  TimeInv'
  BY TimeAttest, TimeVault, TimeDecode, TimeBroadcast, TimeLookup, TimeWake,
     TimeThrows DEF Step

\* The mempool keeps what it has and gains one transaction at most.
LEMMA Accepts ==
    ASSUME TimeInv, NEW t, Accept(t)
    PROVE  /\ ledger' \in [ChainIds -> [Txs -> Fates]]
           /\ t \in Txs => ledger'[daemon][t] # "unseen"
           /\ \A id \in ChainIds, u \in Txs :
                /\ ledger[id][u] # "unseen" => ledger'[id][u] # "unseen"
                /\ ledger[id][u] = "committed" => ledger'[id][u] = "committed"
                /\ ledger'[id][u] # "unseen" => u = t \/ ledger[id][u] # "unseen"
                /\ ledger'[id][u] = "committed" => ledger[id][u] = "committed"
  <1> DEFINE fate == IF ledger[daemon][t] \in {"unseen", "dropped"}
                     THEN "held" ELSE ledger[daemon][t]
  <1>1. /\ daemon \in ChainIds /\ ledger \in [ChainIds -> [Txs -> Fates]]
        /\ ledger' = [ledger EXCEPT ![daemon] = [@ EXCEPT ![t] = fate]]
    BY DEF Accept, TimeInv, TypeOK
  <1>2. \A id \in ChainIds : ledger'[id] =
          IF id = daemon THEN [ledger[id] EXCEPT ![t] = fate] ELSE ledger[id]
    BY <1>1
  <1>3. CASE t \in Txs
    <2>1. fate \in Fates
      BY <1>1, <1>3 DEF Fates
    <2>2. \A id \in ChainIds, u \in Txs : ledger'[id][u] =
            IF id = daemon /\ u = t THEN fate ELSE ledger[id][u]
      BY <1>1, <1>2, <1>3
    <2>3. ledger' \in [ChainIds -> [Txs -> Fates]]
      BY <1>1, <2>1
    <2> QED BY <1>1, <2>2, <2>3
  <1>4. CASE t \notin Txs
    <2>1. \A id \in ChainIds : ledger'[id] = ledger[id]
      BY <1>1, <1>2, <1>4
    <2> QED BY <1>1, <2>1, <1>4
  <1> QED BY <1>3, <1>4

\* The daemon touches no timer.
LEMMA TimeServe ==
    ASSUME TimeInv, NEW c \in Callers, Serve(c)
    PROVE  TimeInv'
  <1>1. reply' \in [Callers -> ChainIds \cup Replies \cup {None}]
    BY DEF Serve, TimeInv, TypeOK
  <1>2. ledger' \in [ChainIds -> [Txs -> Fates]]
    BY Accepts DEF Serve, TimeInv, TypeOK
  <1> QED BY <1>1, <1>2 DEF Serve, client, TimeInv, TypeOK, Roles, Timers

LEMMA TimeArrive ==
    ASSUME TimeInv, NEW t \in Txs, Arrive(t)
    PROVE  TimeInv'
  <1>1. ledger' \in [ChainIds -> [Txs -> Fates]]
    BY Accepts DEF Arrive
  <1> QED BY <1>1 DEF Arrive, client, TimeInv, TypeOK, Roles, Timers

LEMMA TimeSettle ==
    ASSUME TimeInv, NEW id \in ChainIds, NEW t \in Txs, Settle(id, t)
    PROVE  TimeInv'
  <1>1. ledger' \in [ChainIds -> [Txs -> Fates]]
    BY DEF Settle, TimeInv, TypeOK, Fates
  <1> QED BY <1>1 DEF Settle, client, TimeInv, TypeOK, Roles, Timers

LEMMA TimeSwitch ==
    ASSUME TimeInv, NEW id \in ChainIds, Switch(id)
    PROVE  TimeInv'
  BY DEF Switch, client, TimeInv, TypeOK, Roles, Timers

LEMMA TimeCrash ==
    ASSUME TimeInv, Crash
    PROVE  TimeInv'
  <1>1. stray' \in SUBSET Txs
    BY DEF Crash, TimeInv, TypeOK
  <1>2. age' \in 0..Ttl
    BY AdapterAssumption DEF Crash
  <1>3. /\ pc' \in [Callers -> Requests \cup {"idle", "sleep"}]
        /\ left' \in [Callers -> Nat] /\ deadline' \in [Positions -> Int]
        /\ reply' \in [Callers -> ChainIds \cup Replies \cup {None}]
        /\ hashed' \in [Positions -> BOOLEAN]
    BY DEF Crash
  <1> QED BY <1>1, <1>2, <1>3
          DEF Crash, TimeInv, TypeOK, Roles, Timers, Callers, Requests

LEMMA TimeTick ==
    ASSUME TimeInv, Tick
    PROVE  TimeInv'
  <1>1. left' \in [Callers -> Nat] /\ deadline' \in [Positions -> Int]
    BY DEF Tick, Less, TimeInv, TypeOK
  <1>2. age' \in 0..Ttl /\ astray' \in Nat
    BY AdapterAssumption DEF Tick, AtMost, AtLeast, Longest, TimeInv, TypeOK
  <1>3. \A c \in Callers : pc[c] # "idle" => left'[c] = left[c] - 1
    BY DEF Tick, Less, TimeInv, TypeOK
  <1>4. \A p \in Positions : pc[p] \in Polling => deadline'[p] = deadline[p] - 1
    BY DEF Tick, TimeInv, TypeOK
  <1>5. Timers'
    <2>1. pc' = pc /\ RequestTimeout \in Nat
      BY AdapterAssumption DEF Tick
    <2>2. \A c \in Callers : pc[c] \in Requests => left'[c] <= RequestTimeout
      BY <1>3, <2>1 DEF TimeInv, TypeOK, Timers, Requests
    <2>3. ASSUME NEW p \in Positions, pc[p] \in Polling
          PROVE  /\ left'[p] = left[p] - 1 /\ left[p] \in Nat
                 /\ deadline'[p] = deadline[p] - 1 /\ deadline[p] \in Int
      BY <1>3, <1>4, <2>3 DEF TimeInv, TypeOK, Polling, Callers
    <2>4. \A p \in Positions :
            /\ pc[p] = "lookup" => left'[p] < deadline'[p] + RequestTimeout
            /\ pc[p] = "sleep" => left'[p] < deadline'[p]
      BY <2>1, <2>3 DEF TimeInv, Timers, Polling
    <2> QED BY <2>1, <2>2, <2>4 DEF Timers
  <1> QED BY <1>1, <1>2, <1>5 DEF Tick, TimeInv, TypeOK, Roles

LEMMA TimeNext == TimeInv /\ [Next]_vars => TimeInv'
  <1> SUFFICES ASSUME TimeInv, [Next]_vars PROVE TimeInv'
    OBVIOUS
  <1>1. CASE Next
    BY <1>1, TimeSubmit, TimeRead, TimeStep, TimeServe, TimeArrive, TimeSettle,
       TimeSwitch, TimeCrash, TimeTick DEF Next
  <1>2. CASE UNCHANGED vars
    BY <1>2 DEF vars, TimeInv, TypeOK, Roles, Timers
  <1> QED BY <1>1, <1>2

THEOREM TimeInvariant == Spec => []TimeInv
  BY TimeInit, TimeNext, PTL DEF Spec

\* The types of the adapter's state hold.
THEOREM AdapterTypesHold == Spec => []TypeOK
  <1>1. TimeInv => TypeOK
    BY DEF TimeInv
  <1> QED BY <1>1, TimeInvariant, PTL

\* The poll for a commit is over within one request of its deadline
\* (live-adapter.ts:394-415).
THEOREM PollEndsInTimeHolds == Spec => []PollEndsInTime
  <1>1. TimeInv => PollEndsInTime
    BY AdapterAssumption
       DEF TimeInv, TypeOK, Timers, PollEndsInTime, Polling, Callers
  <1> QED BY <1>1, TimeInvariant, PTL

-----------------------------------------------------------------------------
(* A daemon that has left its chain.                                       *)

LEMMA ChainInit == Init => Attested
  BY AdapterAssumption DEF Init, Attested, Callers

\* The caller c awaits something else, or nothing; a decode begins only in time.
LEMMA MoveAttested ==
    ASSUME ChainInv, NEW c \in Callers, NEW what, NEW time,
           pc' = [pc EXCEPT ![c] = what],
           left' = [left EXCEPT ![c] = time],
           reply' = [reply EXCEPT ![c] = None],
           UNCHANGED <<daemon, astray>>,
           age' < Ttl => astray <= age',
           what = "decode" /\ RequireAttestation =>
             astray < AtLeast(Ttl, RequestTimeout + 1) + RequestTimeout - time
    PROVE  Attested'
  <1>1. None \notin ExpectedIds
    BY AdapterAssumption
  <1>2. /\ pc \in [Callers -> Requests \cup {"idle", "sleep"}]
        /\ left \in [Callers -> Nat]
        /\ reply \in [Callers -> ChainIds \cup Replies \cup {None}]
    BY DEF ChainInv, TimeInv, TypeOK
  <1>3. /\ daemon' \in ExpectedIds => astray' = 0
        /\ age' < Ttl => astray' <= age'
    BY DEF ChainInv, Attested
  <1>4. ASSUME NEW d \in Callers
        PROVE  /\ pc'[d] = "attest" /\ reply'[d] \in ExpectedIds
                    => astray' <= RequestTimeout - left'[d]
               /\ pc'[d] = "decode" /\ RequireAttestation
                    => astray' < AtLeast(Ttl, RequestTimeout + 1)
                                   + RequestTimeout - left'[d]
    <2>1. CASE d = c
      BY <1>1, <1>2, <2>1
    <2>2. CASE d # c
      <3>1. pc'[d] = pc[d] /\ left'[d] = left[d] /\ reply'[d] = reply[d]
        BY <1>2, <2>2
      <3> QED BY <3>1 DEF ChainInv, Attested
    <2> QED BY <2>1, <2>2
  <1> QED BY <1>3, <1>4 DEF Attested

LEMMA EndAttested ==
    ASSUME ChainInv, NEW c \in Callers,
           End(c) \/ (\E a : Conclude(c, a)) \/ Refuse(c) \/ NotYet(c),
           UNCHANGED <<daemon, astray, age>>
    PROVE  Attested'
  <1>1. age' < Ttl => astray <= age'
    BY DEF ChainInv, Attested
  <1>2. CASE End(c)
    BY <1>1, <1>2, MoveAttested DEF End
  <1>3. CASE Await(c, "sleep", PollInterval)
    BY <1>1, <1>3, MoveAttested DEF Await
  <1> QED BY <1>2, <1>3 DEF Conclude, Refuse, NotYet

\* c goes on: it is recent enough that the daemon was on the chain.
LEMMA ProceedAttested ==
    ASSUME ChainInv, NEW c \in Callers, Proceed(c),
           UNCHANGED <<daemon, astray>>, age' < Ttl => astray <= age',
           RequireAttestation => astray < AtLeast(Ttl, RequestTimeout + 1)
    PROVE  Attested'
  <1>1. RequestTimeout \in Nat /\ Ttl \in Nat
    BY AdapterAssumption
  <1>2. astray < AtLeast(Ttl, RequestTimeout + 1) =>
          astray < AtLeast(Ttl, RequestTimeout + 1)
                     + RequestTimeout - RequestTimeout
    BY <1>1 DEF AtLeast
  <1> QED BY <1>2, MoveAttested DEF Proceed, Await

LEMMA AttestAttested ==
    ASSUME ChainInv, NEW c \in Callers, attest(c),
           UNCHANGED <<daemon, astray, age>>
    PROVE  Attested'
  <1>1. age' < Ttl => astray <= age'
    BY DEF ChainInv, Attested
  <1>2. CASE Proceed(c) /\ (age < Ttl \/ ~RequireAttestation)
    <2>1. RequireAttestation => astray < AtLeast(Ttl, RequestTimeout + 1)
      BY <1>2, AdapterAssumption
         DEF ChainInv, Attested, AtLeast, TimeInv, TypeOK
    <2> QED BY <1>1, <1>2, <2>1, ProceedAttested
  <1>3. CASE Await(c, "attest", RequestTimeout)
    BY <1>1, <1>3, MoveAttested DEF Await
  <1> QED BY <1>2, <1>3 DEF attest

\* An attestation that lands is as old as its request.
LEMMA Landing ==
    ASSUME ChainInv, NEW c \in Callers,
           pc[c] = "attest", reply[c] \in ExpectedIds
    PROVE  /\ astray \in Nat /\ left[c] \in Nat
           /\ astray <= RequestTimeout - left[c]
           /\ astray < AtLeast(Ttl, RequestTimeout + 1)
  <1>1. /\ astray \in Nat /\ left[c] \in Nat
        /\ RequestTimeout \in Nat /\ Ttl \in Nat
        /\ astray <= RequestTimeout - left[c]
    BY AdapterAssumption DEF ChainInv, Attested, TimeInv, TypeOK
  <1> QED BY <1>1 DEF AtLeast

LEMMA ChainAttest ==
    ASSUME ChainInv, NEW c \in Callers, AttestLands(c)
    PROVE  Attested'
  <1>1. UNCHANGED <<daemon, astray>>
    BY DEF AttestLands, world
  <1>2. CASE Refuse(c) /\ UNCHANGED age
    BY <1>1, <1>2, EndAttested
  <1>3. CASE /\ reply[c] \in ExpectedIds /\ Proceed(c)
             /\ age' = AtMost(RequestTimeout - left[c], Ttl)
    <2>1. pc[c] = "attest"
      BY DEF AttestLands
    <2>2. age' < Ttl => astray <= age'
      BY <1>3, <2>1, Landing, AdapterAssumption DEF AtMost
    <2> QED BY <1>1, <1>3, <2>1, <2>2, Landing, ProceedAttested
  <1> QED BY <1>2, <1>3 DEF AttestLands

LEMMA ChainStep ==
    ASSUME ChainInv, NEW c \in Callers, Step(c)
    PROVE  Attested'
  <1>1. age < Ttl => astray <= age
    BY DEF ChainInv, Attested
  <1>2. CASE AttestLands(c)
    BY <1>2, ChainAttest
  <1>3. CASE Throws(c)
    BY <1>3, EndAttested DEF Throws
  <1>4. CASE VaultLands(c)
    BY <1>4, EndAttested DEF VaultLands, world
  <1>5. CASE DecodeLands(c)
    <2>1. UNCHANGED <<daemon, astray, age>>
      BY <1>5 DEF DecodeLands, world
    <2>2. CASE Conclude(c, "refused")
      BY <2>1, <2>2, EndAttested
    <2>3. CASE Await(c, "broadcast", RequestTimeout)
      BY <1>1, <2>1, <2>3, MoveAttested DEF Await
    <2> QED BY <1>5, <2>2, <2>3 DEF DecodeLands
  <1>6. CASE BroadcastLands(c)
    <2>1. UNCHANGED <<daemon, astray, age>>
      BY <1>6 DEF BroadcastLands, world
    <2>2. CASE Conclude(c, "rejected") \/ Conclude(c, "lost")
      BY <2>1, <2>2, EndAttested
    <2>3. CASE Await(c, "lookup", RequestTimeout)
      BY <1>1, <2>1, <2>3, MoveAttested DEF Await
    <2> QED BY <1>6, <2>2, <2>3 DEF BroadcastLands
  <1>7. CASE LookupLands(c)
    BY <1>7, EndAttested DEF LookupLands, world
  <1>8. CASE Wake(c)
    <2>1. /\ UNCHANGED <<daemon, astray, age>>
          /\ Await(c, "lookup", RequestTimeout)
      BY <1>8 DEF Wake, world
    <2> QED BY <1>1, <2>1, MoveAttested DEF Await
  <1> QED BY <1>2, <1>3, <1>4, <1>5, <1>6, <1>7, <1>8 DEF Step

LEMMA ChainServe ==
    ASSUME ChainInv, NEW c \in Callers, Serve(c)
    PROVE  Attested'
  <1>1. UNCHANGED <<pc, left, age, daemon, astray>>
    BY DEF Serve, client
  <1>2. /\ reply \in [Callers -> ChainIds \cup Replies \cup {None}]
        /\ left[c] \in Nat /\ RequestTimeout \in Nat
        /\ pc[c] = "attest" => left[c] <= RequestTimeout
    BY AdapterAssumption DEF ChainInv, TimeInv, TypeOK, Timers, Requests
  <1>3. PICK a : reply' = [reply EXCEPT ![c] = a]
                 /\ (pc[c] = "attest" => a = daemon)
    BY DEF Serve
  <1>4. ASSUME NEW d \in Callers, pc[d] = "attest", reply'[d] \in ExpectedIds
        PROVE  astray <= RequestTimeout - left[d]
    <2>1. CASE d = c
      <3>1. daemon \in ExpectedIds
        BY <1>2, <1>3, <1>4, <2>1
      <3> QED BY <1>2, <1>4, <2>1, <3>1 DEF ChainInv, Attested
    <2>2. CASE d # c
      BY <1>2, <1>3, <1>4, <2>2 DEF ChainInv, Attested
    <2> QED BY <2>1, <2>2
  <1> QED BY <1>1, <1>4 DEF ChainInv, Attested

LEMMA ChainTick ==
    ASSUME ChainInv, Tick
    PROVE  Attested'
  <1>1. /\ UNCHANGED <<pc, reply, daemon>>
        /\ astray \in Nat /\ age \in 0..Ttl /\ Ttl \in Nat
        /\ RequestTimeout \in Nat
    BY AdapterAssumption DEF Tick, ChainInv, TimeInv, TypeOK
  <1>2. /\ daemon \in ExpectedIds => astray' = 0
        /\ astray' \in Nat /\ astray' <= astray + 1
    BY <1>1, AdapterAssumption DEF Tick, AtMost, AtLeast, Longest
  <1>3. age' < Ttl => age < Ttl /\ age' = age + 1
    BY <1>1 DEF Tick, AtMost
  <1>4. ASSUME NEW c \in Callers, pc[c] # "idle"
        PROVE  left'[c] = left[c] - 1 /\ left[c] \in Nat
    BY <1>4 DEF Tick, Less, ChainInv, TimeInv, TypeOK
  <1>5. age' < Ttl => astray' <= age'
    BY <1>1, <1>2, <1>3 DEF ChainInv, Attested
  <1>6. ASSUME NEW c \in Callers
        PROVE  /\ pc'[c] = "attest" /\ reply'[c] \in ExpectedIds
                    => astray' <= RequestTimeout - left'[c]
               /\ pc'[c] = "decode" /\ RequireAttestation
                    => astray' < AtLeast(Ttl, RequestTimeout + 1)
                                   + RequestTimeout - left'[c]
    <2>1. CASE pc[c] = "attest" /\ reply[c] \in ExpectedIds
      BY <1>1, <1>2, <1>4, <2>1 DEF ChainInv, Attested
    <2>2. CASE pc[c] = "decode" /\ RequireAttestation
      <3>1. AtLeast(Ttl, RequestTimeout + 1) \in Nat
        BY <1>1 DEF AtLeast
      <3> QED BY <1>1, <1>2, <1>4, <2>2, <3>1 DEF ChainInv, Attested
    <2> QED BY <1>1, <2>1, <2>2
  <1> QED BY <1>1, <1>2, <1>5, <1>6 DEF Attested

LEMMA ChainNext == ChainInv /\ [Next]_vars => ChainInv'
  <1> SUFFICES ASSUME ChainInv, [Next]_vars PROVE ChainInv'
    OBVIOUS
  <1>1. TimeInv'
    BY TimeNext DEF ChainInv
  <1>2. ASSUME NEW p \in Positions, Submit(p) PROVE Attested'
    <2>1. UNCHANGED <<daemon, astray, age>> /\ p \in Callers
      BY <1>2 DEF Submit, world, Callers
    <2>2. Conclude(p, "refused") \/ attest(p)
      BY <1>2 DEF Submit
    <2> QED BY <2>1, <2>2, EndAttested, AttestAttested
  <1>3. ASSUME NEW r \in Readers, readVault(r) PROVE Attested'
    BY <1>3, AttestAttested DEF readVault, world, Callers
  <1>4. ASSUME NEW t \in Txs, Arrive(t) PROVE Attested'
    BY <1>4 DEF Arrive, client, ChainInv, Attested
  <1>5. ASSUME NEW id \in ChainIds, NEW t \in Txs, Settle(id, t) PROVE Attested'
    BY <1>5 DEF Settle, client, ChainInv, Attested
  <1>6. ASSUME NEW id \in ChainIds, Switch(id) PROVE Attested'
    <2>1. /\ UNCHANGED <<pc, left, reply, age>>
          /\ astray' \in {0, astray} /\ (daemon' \in ExpectedIds => astray' = 0)
          /\ astray \in Nat
      BY <1>6 DEF Switch, client, ChainInv, TimeInv, TypeOK
    <2>2. /\ RequestTimeout \in Nat /\ Ttl \in Nat /\ age \in 0..Ttl
          /\ \A c \in Callers :
               /\ left[c] \in Nat
               /\ pc[c] \in {"attest", "decode"} => left[c] <= RequestTimeout
      BY AdapterAssumption DEF ChainInv, TimeInv, TypeOK, Timers, Requests
    <2>3. AtLeast(Ttl, RequestTimeout + 1) \in Nat \ {0}
      BY <2>2 DEF AtLeast
    <2>4. ASSUME NEW c \in Callers
          PROVE  /\ pc[c] = "attest" /\ reply[c] \in ExpectedIds
                      => astray' <= RequestTimeout - left[c]
                 /\ pc[c] = "decode" /\ RequireAttestation
                      => astray' < AtLeast(Ttl, RequestTimeout + 1)
                                     + RequestTimeout - left[c]
      <3>1. CASE astray' = 0
        BY <2>2, <2>3, <3>1
      <3>2. CASE astray' = astray
        BY <3>2 DEF ChainInv, Attested
      <3> QED BY <2>1, <3>1, <3>2
    <2>5. age < Ttl => astray' <= age
      BY <2>1, <2>2 DEF ChainInv, Attested
    <2> QED BY <2>1, <2>4, <2>5 DEF Attested
  <1>7. CASE Crash
    BY <1>1, <1>7, AdapterAssumption DEF Crash, ChainInv, Attested, Callers
  <1>8. CASE UNCHANGED vars
    BY <1>1, <1>8 DEF vars, ChainInv, Attested
  <1> QED BY <1>1, <1>2, <1>3, <1>4, <1>5, <1>6, <1>7, <1>8, ChainStep,
             ChainServe, ChainTick DEF Next, ChainInv

THEOREM ChainInvariant == Spec => []ChainInv
  <1>1. Init => ChainInv
    BY TimeInit, ChainInit DEF ChainInv
  <1> QED BY <1>1, ChainNext, PTL DEF Spec

\* A use of the daemon begins in time.
InTime ==
    \A c \in Callers : pc'[c] # pc[c] =>
        /\ pc'[c] \in {"vault", "decode"} =>
             astray < AtLeast(Ttl, RequestTimeout + 1)
        /\ pc'[c] = "broadcast" =>
             astray < AtLeast(Ttl, RequestTimeout + 1) + RequestTimeout

LEMMA MoveInTime ==
    ASSUME ChainInv, NEW c \in Callers, NEW what,
           pc' = [pc EXCEPT ![c] = what],
           what \in {"vault", "decode"} =>
             astray < AtLeast(Ttl, RequestTimeout + 1),
           what = "broadcast" =>
             astray < AtLeast(Ttl, RequestTimeout + 1) + RequestTimeout
    PROVE  InTime
  <1>1. \A d \in Callers : pc'[d] # pc[d] => d = c /\ pc'[d] = what
    BY DEF ChainInv, TimeInv, TypeOK
  <1> QED BY <1>1 DEF InTime

LEMMA EndInTime ==
    ASSUME ChainInv, NEW c \in Callers,
           End(c) \/ (\E a : Conclude(c, a)) \/ Refuse(c) \/ NotYet(c)
    PROVE  InTime
  <1>1. End(c) \/ Await(c, "sleep", PollInterval)
    BY DEF Conclude, Refuse, NotYet
  <1> QED BY <1>1, MoveInTime DEF End, Await

LEMMA ProceedInTime ==
    ASSUME ChainInv, NEW c \in Callers, Proceed(c),
           astray < AtLeast(Ttl, RequestTimeout + 1)
    PROVE  InTime
  <1>1. PICK what \in {"decode", "vault"} : Await(c, what, RequestTimeout)
    BY DEF Proceed
  <1> QED BY <1>1, MoveInTime DEF Await

LEMMA AskInTime ==
    ASSUME ChainInv, RequireAttestation, NEW c \in Callers, attest(c)
    PROVE  InTime
  <1>1. CASE Proceed(c) /\ age < Ttl
    <2>1. astray < AtLeast(Ttl, RequestTimeout + 1)
      BY <1>1, AdapterAssumption DEF ChainInv, Attested, AtLeast, TimeInv, TypeOK
    <2> QED BY <1>1, <2>1, ProceedInTime
  <1>2. CASE Await(c, "attest", RequestTimeout)
    BY <1>2, MoveInTime DEF Await
  <1> QED BY <1>1, <1>2 DEF attest

LEMMA StepInTime ==
    ASSUME ChainInv, RequireAttestation, NEW c \in Callers, Step(c)
    PROVE  InTime
  <1>1. CASE AttestLands(c)
    <2>1. CASE reply[c] \in ExpectedIds /\ Proceed(c)
      BY <1>1, <2>1, Landing, ProceedInTime DEF AttestLands
    <2> QED BY <1>1, <2>1, EndInTime DEF AttestLands
  <1>2. CASE Throws(c)
    BY <1>2, EndInTime DEF Throws
  <1>3. CASE VaultLands(c)
    BY <1>3, EndInTime DEF VaultLands
  <1>4. CASE DecodeLands(c)
    <2>1. CASE Await(c, "broadcast", RequestTimeout)
      <3>1. /\ astray \in Nat /\ left[c] \in Nat /\ RequestTimeout \in Nat
            /\ AtLeast(Ttl, RequestTimeout + 1) \in Nat
        BY AdapterAssumption DEF AtLeast, ChainInv, TimeInv, TypeOK
      <3>2. astray < AtLeast(Ttl, RequestTimeout + 1) + RequestTimeout - left[c]
        BY <1>4 DEF DecodeLands, ChainInv, Attested
      <3>3. astray < AtLeast(Ttl, RequestTimeout + 1) + RequestTimeout
        BY <3>1, <3>2
      <3> QED BY <2>1, <3>3, MoveInTime DEF Await
    <2> QED BY <1>4, <2>1, EndInTime DEF DecodeLands
  <1>5. CASE BroadcastLands(c)
    <2>1. CASE Await(c, "lookup", RequestTimeout)
      BY <2>1, MoveInTime DEF Await
    <2> QED BY <1>5, <2>1, EndInTime DEF BroadcastLands
  <1>6. CASE LookupLands(c)
    BY <1>6, EndInTime DEF LookupLands
  <1>7. CASE Wake(c)
    BY <1>7, MoveInTime DEF Wake, Await
  <1> QED BY <1>1, <1>2, <1>3, <1>4, <1>5, <1>6, <1>7 DEF Step

\* A daemon that has left its chain is not used for long (signet.ts:137-143):
\* every use that begins does so while an attestation, or the request for one,
\* can still be younger than the departure.
THEOREM WrongChainUnusedHolds == Spec => WrongChainUnused
  <1>1. ASSUME ChainInv, Next, RequireAttestation PROVE InTime
    <2>1. ASSUME NEW p \in Positions, Submit(p) PROVE InTime
      BY <1>1, <2>1, EndInTime, AskInTime DEF Submit, Callers
    <2>2. ASSUME NEW r \in Readers, readVault(r) PROVE InTime
      BY <1>1, <2>2, AskInTime DEF readVault, Callers
    <2>3. CASE Crash
      BY <2>3 DEF Crash, InTime
    <2>4. CASE UNCHANGED pc
      BY <2>4 DEF InTime
    <2> QED BY <1>1, <2>1, <2>2, <2>3, <2>4, StepInTime
            DEF Next, Serve, Arrive, Settle, Switch, Tick, client
  <1>2. ChainInv /\ [Next]_vars =>
          [RequireAttestation => InTime]_vars
    BY <1>1
  <1> QED BY <1>2, ChainInvariant, PTL DEF Spec, WrongChainUnused, InTime
-----------------------------------------------------------------------------
(* Every step of LiveAdapter is a step of TransitionPromise, or none.       *)

\* What the daemon's answers say is so, wherever they are on their way.
Truthful ==
    /\ stray \subseteq sent
    /\ Taken \subseteq sent
    /\ \A p \in Positions :
         /\ pc[p] \in {"broadcast", "lookup", "sleep"} => tx[p] \in sent
         /\ pc[p] = "broadcast" /\ reply[p] \in {"zero", "zeroNamed"}
              => tx[p] \in Taken
         /\ pc[p] \in Polling => tx[p] \in Taken
         /\ pc[p] = "lookup" /\ reply[p] = "committed" => tx[p] \in Committed

PromiseInv == TimeInv /\ Truthful

\* A step of the promise, or none.
Promised == Promise!Next \/ UNCHANGED Promise!vars

-----------------------------------------------------------------------------
(* What moves of one caller do to what the promise sees.                   *)

LEMMA SameLedger ==
    ASSUME UNCHANGED ledger
    PROVE  UNCHANGED <<Taken, Committed>>
  BY DEF Taken, Committed

\* The caller c awaits something else, or nothing.
LEMMA MoveStage ==
    ASSUME PromiseInv, NEW c \in Callers, NEW what,
           pc' = [pc EXCEPT ![c] = what]
    PROVE  Stage' = [Stage EXCEPT ![c] = StageAt(what)]
  <1>1. \A p \in Positions : pc'[p] = IF p = c THEN what ELSE pc[p]
    BY DEF PromiseInv, TimeInv, TypeOK, Callers
  <1>2. Stage' = [p \in Positions |-> IF p = c THEN StageAt(what) ELSE Stage[p]]
    BY <1>1 DEF Stage, StageAt
  <1>3. Stage = [p \in Positions |-> Stage[p]]
    BY DEF Stage
  <1> QED BY <1>2, <1>3

LEMMA MoveTruthful ==
    ASSUME PromiseInv, NEW c \in Callers, NEW what,
           pc' = [pc EXCEPT ![c] = what], reply' = [reply EXCEPT ![c] = None],
           \A p \in Positions : p # c => tx'[p] = tx[p],
           UNCHANGED ledger, sent \subseteq sent', stray' \subseteq sent',
           c \in Positions =>
             /\ what \in {"broadcast", "lookup", "sleep"} => tx'[c] \in sent'
             /\ what \in Polling => tx'[c] \in Taken
    PROVE  Truthful'
  <1>1. UNCHANGED <<Taken, Committed>>
    BY SameLedger
  <1>2. None \notin {"zero", "zeroNamed", "committed"}
    BY AdapterAssumption DEF Replies
  <1>3. \A p \in Positions :
          /\ pc'[p] = IF p = c THEN what ELSE pc[p]
          /\ reply'[p] = IF p = c THEN None ELSE reply[p]
    BY DEF PromiseInv, TimeInv, TypeOK, Callers
  <1>4. ASSUME NEW p \in Positions
        PROVE  /\ pc'[p] \in {"broadcast", "lookup", "sleep"} => tx'[p] \in sent'
               /\ pc'[p] = "broadcast" /\ reply'[p] \in {"zero", "zeroNamed"}
                    => tx'[p] \in Taken
               /\ pc'[p] \in Polling => tx'[p] \in Taken
               /\ pc'[p] = "lookup" /\ reply'[p] = "committed"
                    => tx'[p] \in Committed
    <2>1. CASE p = c
      BY <1>2, <1>3, <2>1
    <2>2. CASE p # c
      BY <1>3, <2>2 DEF PromiseInv, Truthful
    <2> QED BY <2>1, <2>2
  <1>5. Taken \subseteq sent'
    BY DEF PromiseInv, Truthful
  <1> QED BY <1>1, <1>4, <1>5 DEF Truthful

\* A submission ends as the promise allows.
LEMMA AnswerPromised ==
    ASSUME PromiseInv, NEW p \in Positions, NEW a \in Promise!Answers,
           Conclude(p, a), Promise!Meant(p, a),
           UNCHANGED <<tx, ledger, sent>>, stray' \subseteq sent
    PROVE  Promised /\ Truthful'
  <1>1. p \in Callers
    BY DEF Callers
  <1>2. Stage' = [Stage EXCEPT ![p] = "idle"]
    BY <1>1, MoveStage DEF Conclude, End, StageAt
  <1>3. answer' = [answer EXCEPT ![p] = a]
    BY DEF Conclude
  <1>4. Promise!Answer(p, a)
    BY <1>2, <1>3, SameLedger DEF Promise!Answer
  <1>5. Truthful'
    BY <1>1, MoveTruthful DEF Conclude, End, Polling
  <1> QED BY <1>4, <1>5 DEF Promised, Promise!Next

\* Nothing the promise sees happens.
LEMMA MovePromised ==
    ASSUME PromiseInv, NEW c \in Callers, NEW what,
           pc' = [pc EXCEPT ![c] = what],
           c \in Positions => StageAt(what) = StageAt(pc[c]),
           UNCHANGED <<tx, answer, ledger, sent>>
    PROVE  Promised
  <1>1. Stage' = Stage
    BY MoveStage DEF Stage
  <1> QED BY <1>1, SameLedger DEF Promised, Promise!vars

\* A caller fails before its broadcast.
LEMMA RefusePromised ==
    ASSUME PromiseInv, NEW c \in Callers, Refuse(c),
           pc[c] \in {"idle", "attest", "vault", "decode"},
           UNCHANGED <<tx, ledger, sent>>, stray' \subseteq sent
    PROVE  Promised /\ Truthful'
  <1>1. CASE c \in Positions
    <2>1. Stage[c] \in {"idle", "open"}
      BY <1>1 DEF Stage, StageAt, PromiseInv, TimeInv, Roles
    <2>2. "refused" \in Promise!Answers /\ Promise!Meant(c, "refused")
      BY <2>1 DEF Promise!Answers, Promise!Meant
    <2> QED BY <1>1, <2>2, AnswerPromised DEF Refuse
  <1>2. CASE c \notin Positions
    <2>1. End(c) /\ UNCHANGED answer
      BY <1>2 DEF Refuse
    <2> QED BY <1>2, <2>1, MovePromised, MoveTruthful DEF End
  <1> QED BY <1>1, <1>2

\* A caller asks for the chain, or goes on to its decode or its vault.
LEMMA AskPromised ==
    ASSUME PromiseInv, NEW c \in Callers,
           Proceed(c) \/ Await(c, "attest", RequestTimeout),
           pc[c] = "attest" \/ (pc[c] = "idle" /\ c \in Readers),
           UNCHANGED <<tx, answer, ledger, sent, stray>>
    PROVE  Promised /\ Truthful'
  <1>1. PICK what \in {"attest", "decode", "vault"} :
          /\ Await(c, what, RequestTimeout)
          /\ c \in Positions => what # "vault"
    BY DEF Proceed
  <1>2. c \in Positions => StageAt(what) = StageAt(pc[c])
    BY <1>1, AdapterAssumption DEF StageAt
  <1>3. stray' \subseteq sent' /\ what \notin {"broadcast", "lookup", "sleep"}
    BY DEF PromiseInv, Truthful
  <1> QED BY <1>1, <1>2, <1>3, MovePromised, MoveTruthful DEF Await, Polling

-----------------------------------------------------------------------------
(* The steps of a caller.                                                  *)

LEMMA PromisedSubmit ==
    ASSUME PromiseInv, NEW p \in Positions, Submit(p)
    PROVE  Promised /\ Truthful'
  <1>1. /\ pc[p] = "idle" /\ p \in Callers
        /\ UNCHANGED <<ledger, sent, stray>> /\ stray \subseteq sent
    BY DEF Submit, world, Callers, PromiseInv, Truthful
  <1>2. CASE Conclude(p, "refused") /\ UNCHANGED tx
    BY <1>1, <1>2, RefusePromised DEF Refuse
  <1>3. ASSUME NEW t \in Txs, tx' = [tx EXCEPT ![p] = t], attest(p),
               answer' = [answer EXCEPT ![p] = "none"]
        PROVE  Promised /\ Truthful'
    <2>1. PICK what \in {"attest", "decode"} : Await(p, what, RequestTimeout)
      BY <1>3 DEF attest, Proceed
    <2>2. Stage' = [Stage EXCEPT ![p] = "open"]
      BY <1>1, <2>1, MoveStage DEF Await, StageAt
    <2>3. Stage[p] = "idle"
      BY <1>1 DEF Stage, StageAt
    <2>4. Promise!Submit(p, t)
      BY <1>1, <1>3, <2>2, <2>3, SameLedger DEF Promise!Submit
    <2>5. \A q \in Positions : q # p => tx'[q] = tx[q]
      BY <1>3 DEF PromiseInv, TimeInv, TypeOK
    <2>6. Truthful'
      BY <1>1, <2>1, <2>5, MoveTruthful DEF Await, Polling
    <2> QED BY <2>4, <2>6 DEF Promised, Promise!Next
  <1> QED BY <1>2, <1>3 DEF Submit

LEMMA PromisedRead ==
    ASSUME PromiseInv, NEW r \in Readers, readVault(r)
    PROVE  Promised /\ Truthful'
  <1>1. Proceed(r) \/ Await(r, "attest", RequestTimeout)
    BY DEF readVault, attest
  <1> QED BY <1>1, AskPromised DEF readVault, world, Callers

LEMMA PromisedAttest ==
    ASSUME PromiseInv, NEW c \in Callers, AttestLands(c)
    PROVE  Promised /\ Truthful'
  <1>1. /\ pc[c] = "attest" /\ UNCHANGED <<tx, ledger, sent, stray>>
        /\ stray \subseteq sent
    BY DEF AttestLands, world, PromiseInv, Truthful
  <1>2. CASE Refuse(c)
    BY <1>1, <1>2, RefusePromised
  <1>3. CASE Proceed(c) /\ UNCHANGED answer
    BY <1>1, <1>3, AskPromised
  <1> QED BY <1>2, <1>3 DEF AttestLands

LEMMA PromisedVault ==
    ASSUME PromiseInv, NEW r \in Readers, VaultLands(r)
    PROVE  Promised /\ Truthful'
  <1>1. /\ End(r) /\ r \in Callers /\ r \notin Positions
        /\ UNCHANGED <<tx, answer, ledger, sent, stray>>
        /\ stray \subseteq sent
    BY AdapterAssumption
       DEF VaultLands, world, Callers, PromiseInv, Truthful
  <1> QED BY <1>1, MovePromised, MoveTruthful DEF End

LEMMA PromisedDecode ==
    ASSUME PromiseInv, NEW p \in Positions, DecodeLands(p)
    PROVE  Promised /\ Truthful'
  <1>1. /\ pc[p] = "decode" /\ p \in Callers
        /\ UNCHANGED <<tx, ledger, stray>> /\ stray \subseteq sent
    BY DEF DecodeLands, world, Callers, PromiseInv, Truthful
  <1>2. CASE Conclude(p, "refused") /\ UNCHANGED sent
    BY <1>1, <1>2, RefusePromised DEF Refuse
  <1>3. CASE /\ Await(p, "broadcast", RequestTimeout)
             /\ sent' = sent \cup {tx[p]} /\ UNCHANGED answer
    <2>1. Stage' = [Stage EXCEPT ![p] = "handed"]
      <3>1. Stage' = [Stage EXCEPT ![p] = StageAt("broadcast")]
        BY <1>1, <1>3, MoveStage DEF Await
      <3> QED BY <3>1 DEF StageAt
    <2>2. Stage[p] = "open"
      BY <1>1 DEF Stage, StageAt
    <2>3. Promise!Hand(p)
      BY <1>1, <1>3, <2>1, <2>2, SameLedger DEF Promise!Hand
    <2>4. Truthful'
      BY <1>1, <1>3, MoveTruthful DEF Await, Polling
    <2> QED BY <2>3, <2>4 DEF Promised, Promise!Next
  <1> QED BY <1>2, <1>3 DEF DecodeLands

\* What is true of a position that has broadcast.
LEMMA Handed ==
    ASSUME PromiseInv, NEW p \in Positions,
           pc[p] \in {"broadcast", "lookup", "sleep"}
    PROVE  /\ Stage[p] = "handed" /\ p \in Callers /\ tx[p] \in sent
           /\ pc[p] \in Polling => tx[p] \in Taken
           /\ {"rejected", "pending", "lost", "ok"} \subseteq Promise!Answers
  BY DEF Stage, StageAt, Callers, PromiseInv, Truthful, Promise!Answers

LEMMA NotYetPromised ==
    ASSUME PromiseInv, NEW p \in Positions, pc[p] = "lookup", NotYet(p),
           UNCHANGED <<tx, ledger, sent>>, stray' \subseteq sent
    PROVE  Promised /\ Truthful'
  <1>1. Stage[p] = "handed" /\ p \in Callers /\ tx[p] \in sent /\ tx[p] \in Taken
    BY Handed DEF Polling
  <1>2. CASE Conclude(p, "pending")
    BY <1>1, <1>2, Handed, AnswerPromised DEF Promise!Meant
  <1>3. CASE Await(p, "sleep", PollInterval) /\ UNCHANGED answer
    BY <1>1, <1>3, MovePromised, MoveTruthful DEF Await, StageAt
  <1> QED BY <1>2, <1>3 DEF NotYet

LEMMA PromisedBroadcast ==
    ASSUME PromiseInv, NEW p \in Positions, BroadcastLands(p)
    PROVE  Promised /\ Truthful'
  <1>1. /\ pc[p] = "broadcast" /\ Stage[p] = "handed" /\ p \in Callers
        /\ UNCHANGED <<tx, ledger, sent, stray>> /\ stray \subseteq sent
        /\ tx[p] \in sent
    BY Handed DEF BroadcastLands, world, PromiseInv, Truthful
  <1>2. CASE Conclude(p, "rejected")
    BY <1>1, <1>2, Handed, AnswerPromised DEF Promise!Meant
  <1>3. CASE reply[p] = "zero" /\ Conclude(p, "lost")
    <2>1. tx[p] \in Taken
      BY <1>1, <1>3 DEF PromiseInv, Truthful
    <2> QED BY <1>1, <1>3, <2>1, Handed, AnswerPromised DEF Promise!Meant
  <1>4. CASE /\ reply[p] \in {"zero", "zeroNamed"}
             /\ Await(p, "lookup", RequestTimeout) /\ UNCHANGED answer
    <2>1. tx[p] \in Taken
      BY <1>1, <1>4 DEF PromiseInv, Truthful
    <2> QED BY <1>1, <1>4, <2>1, MovePromised, MoveTruthful DEF Await, StageAt
  <1> QED BY <1>2, <1>3, <1>4 DEF BroadcastLands

LEMMA PromisedLookup ==
    ASSUME PromiseInv, NEW p \in Positions, LookupLands(p)
    PROVE  Promised /\ Truthful'
  <1>1. /\ pc[p] = "lookup" /\ Stage[p] = "handed"
        /\ UNCHANGED <<tx, ledger, sent, stray>> /\ stray \subseteq sent
    BY Handed DEF LookupLands, world, PromiseInv, Truthful
  <1>2. CASE reply[p] = "committed" /\ Conclude(p, "ok")
    <2>1. tx[p] \in Committed
      BY <1>1, <1>2 DEF PromiseInv, Truthful
    <2> QED BY <1>1, <1>2, <2>1, Handed, AnswerPromised DEF Promise!Meant
  <1>3. CASE Conclude(p, "rejected")
    BY <1>1, <1>3, Handed, AnswerPromised DEF Promise!Meant
  <1>4. CASE NotYet(p)
    BY <1>1, <1>4, NotYetPromised
  <1> QED BY <1>2, <1>3, <1>4 DEF LookupLands

LEMMA PromisedWake ==
    ASSUME PromiseInv, NEW p \in Positions, Wake(p)
    PROVE  Promised /\ Truthful'
  <1>1. /\ pc[p] = "sleep" /\ Await(p, "lookup", RequestTimeout)
        /\ UNCHANGED <<tx, answer, ledger, sent, stray>> /\ stray \subseteq sent
    BY DEF Wake, world, PromiseInv, Truthful
  <1>2. p \in Callers /\ tx[p] \in sent /\ tx[p] \in Taken
    BY <1>1, Handed DEF Polling
  <1> QED BY <1>1, <1>2, MovePromised, MoveTruthful DEF Await, StageAt

LEMMA PromisedThrows ==
    ASSUME PromiseInv, NEW c \in Callers, Throws(c)
    PROVE  Promised /\ Truthful'
  <1>1. UNCHANGED <<tx, ledger, sent>>
    BY DEF Throws
  <1>2. pc[c] \in {"broadcast", "lookup"} => c \in Positions
    BY DEF PromiseInv, TimeInv, Roles, Callers
  <1>3. stray' \subseteq sent
    BY <1>2 DEF Throws, PromiseInv, Truthful
  <1>4. CASE pc[c] \in {"attest", "vault", "decode"} /\ Refuse(c)
    BY <1>1, <1>3, <1>4, RefusePromised
  <1>5. CASE pc[c] = "broadcast" /\ Conclude(c, "rejected")
    BY <1>1, <1>2, <1>3, <1>5, Handed, AnswerPromised DEF Promise!Meant
  <1>6. CASE pc[c] = "lookup" /\ NotYet(c)
    BY <1>1, <1>2, <1>3, <1>6, NotYetPromised
  <1> QED BY <1>4, <1>5, <1>6 DEF Throws

LEMMA PromisedStep ==
    ASSUME PromiseInv, NEW c \in Callers, Step(c)
    PROVE  Promised /\ Truthful'
  BY PromisedAttest, PromisedVault, PromisedDecode, PromisedBroadcast,
     PromisedLookup, PromisedWake, PromisedThrows DEF Step

-----------------------------------------------------------------------------
(* The daemon and the clock.                                               *)

\* What the mempool accepts was handed over.
LEMMA TakePromised ==
    ASSUME PromiseInv, NEW t \in Txs, t \in sent, Accept(t),
           UNCHANGED <<pc, tx, answer, sent>>
    PROVE  Promised /\ Taken' = Taken \cup {t} /\ Committed' = Committed
  <1>1. /\ daemon \in ChainIds /\ ledger'[daemon][t] # "unseen"
        /\ \A id \in ChainIds, u \in Txs :
             /\ ledger[id][u] # "unseen" => ledger'[id][u] # "unseen"
             /\ ledger[id][u] = "committed" => ledger'[id][u] = "committed"
             /\ ledger'[id][u] # "unseen" => u = t \/ ledger[id][u] # "unseen"
             /\ ledger'[id][u] = "committed" => ledger[id][u] = "committed"
    BY Accepts DEF PromiseInv, TimeInv, TypeOK
  <1>2. Taken' = Taken \cup {t}
    BY <1>1 DEF Taken
  <1>3. Committed' = Committed
    BY <1>1 DEF Committed
  <1>4. Stage' = Stage
    BY DEF Stage
  <1>5. Promise!Take(t)
    BY <1>2, <1>3, <1>4 DEF Promise!Take
  <1> QED BY <1>2, <1>3, <1>5 DEF Promised, Promise!Next

LEMMA PromisedServe ==
    ASSUME PromiseInv, NEW c \in Callers, Serve(c)
    PROVE  Promised /\ Truthful'
  <1>1. /\ UNCHANGED <<pc, tx, answer, sent, stray, daemon>>
        /\ stray \subseteq sent /\ daemon \in ChainIds
        /\ reply \in [Callers -> ChainIds \cup Replies \cup {None}]
    BY DEF Serve, client, PromiseInv, Truthful, TimeInv, TypeOK
  <1>2. PICK a \in ChainIds \cup Replies :
          /\ reply' = [reply EXCEPT ![c] = a]
          /\ \/ pc[c] = "attest" /\ a = daemon
             \/ pc[c] = "vault" /\ a \in {"read", "unusable"}
             \/ pc[c] = "decode" /\ a \in {"bad", "named", "unnamed"}
             \/ pc[c] = "broadcast" /\ a \in {"code", "zero", "zeroNamed"}
             \/ /\ pc[c] = "lookup"
                /\ a \in {"notYet"} \cup
                     ({ledger[daemon][tx[c]]} \cap {"committed", "failed"})
          /\ IF a \in {"zero", "zeroNamed"} THEN Accept(tx[c])
             ELSE UNCHANGED ledger
    BY DEF Serve
  <1>3. \A p \in Positions : reply'[p] = IF p = c THEN a ELSE reply[p]
    BY <1>1, <1>2 DEF Callers
  <1>4. CASE a \in {"zero", "zeroNamed"}
    <2>1. pc[c] = "broadcast"
      BY <1>1, <1>2, <1>4, AdapterAssumption DEF Replies
    <2>2. c \in Positions /\ tx[c] \in Txs /\ tx[c] \in sent
      BY <2>1 DEF Callers, PromiseInv, Truthful, TimeInv, TypeOK, Roles
    <2>3. Promised /\ Taken' = Taken \cup {tx[c]} /\ Committed' = Committed
      BY <1>1, <1>2, <1>4, <2>2, TakePromised
    <2>4. Truthful'
      BY <1>1, <1>3, <1>4, <2>1, <2>2, <2>3
         DEF PromiseInv, Truthful, Polling
    <2> QED BY <2>3, <2>4
  <1>5. CASE a \notin {"zero", "zeroNamed"}
    <2>1. UNCHANGED <<ledger, Taken, Committed, Stage>>
      BY <1>1, <1>2, <1>5, SameLedger DEF Stage
    <2>2. ASSUME c \in Positions, pc[c] = "lookup", a = "committed"
          PROVE  tx[c] \in Committed
      <3>1. ledger[daemon][tx[c]] = "committed"
        BY <1>2, <2>2
      <3> QED BY <1>1, <2>2, <3>1 DEF Committed, PromiseInv, TimeInv, TypeOK
    <2>3. Truthful'
      BY <1>1, <1>3, <1>5, <2>1, <2>2 DEF PromiseInv, Truthful, Polling
    <2> QED BY <1>1, <2>1, <2>3 DEF Promised, Promise!vars
  <1> QED BY <1>4, <1>5

LEMMA PromisedArrive ==
    ASSUME PromiseInv, NEW t \in Txs, Arrive(t)
    PROVE  Promised /\ Truthful'
  <1>1. /\ t \in sent /\ Accept(t)
        /\ UNCHANGED <<pc, tx, answer, sent, reply>>
        /\ stray' \subseteq sent
    BY DEF Arrive, client, PromiseInv, Truthful
  <1>2. Promised /\ Taken' = Taken \cup {t} /\ Committed' = Committed
    BY <1>1, TakePromised
  <1> QED BY <1>1, <1>2 DEF PromiseInv, Truthful, Polling

LEMMA PromisedSettle ==
    ASSUME PromiseInv, NEW id \in ChainIds, NEW t \in Txs, Settle(id, t)
    PROVE  Promised /\ Truthful'
  <1>1. /\ UNCHANGED <<pc, tx, answer, sent, reply, stray>>
        /\ ledger \in [ChainIds -> [Txs -> Fates]] /\ t \in Taken
    BY DEF Settle, client, Taken, PromiseInv, TimeInv, TypeOK
  <1>2. PICK fate \in {"committed", "failed", "dropped"} :
          \A i \in ChainIds, u \in Txs : ledger'[i][u] =
            IF i = id /\ u = t THEN fate ELSE ledger[i][u]
    BY <1>1 DEF Settle
  <1>3. ledger[id][t] = "held"
    BY DEF Settle
  <1>4. Taken' = Taken /\ Stage' = Stage
    BY <1>1, <1>2, <1>3 DEF Taken, Stage
  <1>5. Committed' = IF fate = "committed" THEN Committed \cup {t} ELSE Committed
    BY <1>1, <1>2, <1>3 DEF Committed
  <1>6. Promised
    <2>1. CASE fate = "committed"
      <3>1. Promise!Commit(t)
        BY <1>1, <1>4, <1>5, <2>1 DEF Promise!Commit
      <3> QED BY <3>1 DEF Promised, Promise!Next
    <2>2. CASE fate # "committed"
      BY <1>1, <1>4, <1>5, <2>2 DEF Promised, Promise!vars
    <2> QED BY <2>1, <2>2
  <1>7. Truthful'
    BY <1>1, <1>4, <1>5 DEF PromiseInv, Truthful, Polling
  <1> QED BY <1>6, <1>7

LEMMA PromisedCrash ==
    ASSUME PromiseInv, Crash
    PROVE  Promised /\ Truthful'
  <1>1. UNCHANGED <<tx, answer, sent, Taken, Committed>>
    BY SameLedger DEF Crash
  <1>2. \A p \in Positions : pc'[p] = "idle"
    BY DEF Crash, Callers
  <1>3. Stage' = [p \in Positions |-> "idle"]
    BY <1>2 DEF Stage, StageAt
  <1>4. Promise!Crash
    BY <1>1, <1>3 DEF Promise!Crash
  <1>5. stray' \subseteq sent
    BY DEF Crash, PromiseInv, Truthful
  <1>6. Truthful'
    BY <1>1, <1>2, <1>5 DEF PromiseInv, Truthful, Polling
  <1> QED BY <1>4, <1>6 DEF Promised, Promise!Next

\* A step that touches nothing of a submission or of the ledger.
LEMMA PromisedElse ==
    ASSUME PromiseInv,
           UNCHANGED <<pc, tx, reply, answer, ledger, stray, sent>>
    PROVE  Promised /\ Truthful'
  <1>1. UNCHANGED <<Taken, Committed, Stage>>
    BY SameLedger DEF Stage
  <1> QED BY <1>1 DEF Promised, Promise!vars, PromiseInv, Truthful, Polling

LEMMA PromisedNext == PromiseInv /\ [Next]_vars => Promised /\ PromiseInv'
  <1> SUFFICES ASSUME PromiseInv, [Next]_vars PROVE Promised /\ Truthful'
    BY TimeNext DEF PromiseInv
  <1>1. ASSUME NEW id \in ChainIds, Switch(id) PROVE Promised /\ Truthful'
    BY <1>1, PromisedElse DEF Switch, client
  <1>2. CASE Tick
    BY <1>2, PromisedElse DEF Tick
  <1>3. CASE UNCHANGED vars
    BY <1>3, PromisedElse DEF vars
  <1> QED BY <1>1, <1>2, <1>3, PromisedSubmit, PromisedRead, PromisedStep,
             PromisedServe, PromisedArrive, PromisedSettle, PromisedCrash DEF Next

LEMMA PromiseInit == Init => Promise!Init /\ PromiseInv
  <1> SUFFICES ASSUME Init PROVE Promise!Init /\ Truthful
    BY TimeInit DEF PromiseInv
  <1>1. \A p \in Positions : pc[p] = "idle"
    BY DEF Init, Callers
  <1>2. Taken = {} /\ Committed = {}
    BY DEF Init, Taken, Committed
  <1>3. Stage = [p \in Positions |-> "idle"]
    BY <1>1 DEF Stage, StageAt
  <1> QED BY <1>1, <1>2, <1>3 DEF Init, Promise!Init, Truthful, Polling

\* The adapter's answers mean what the routes take them for, whatever the
\* daemon and the network do: a refusal has handed nothing over, a pending
\* or a lost answer names a transaction the daemon has taken, and "ok" one
\* it has committed (transition.ts:26-54).
THEOREM AdapterKeepsPromise == Spec => ImplementsTransitionPromise
  <1>1. PromiseInv /\ [Next]_vars => [Promise!Next]_(Promise!vars)
    BY PromisedNext DEF Promised
  <1>2. PromiseInv /\ [Next]_vars => PromiseInv'
    BY PromisedNext
  <1> QED BY <1>1, <1>2, PromiseInit, PTL
          DEF Spec, Promise!Spec, ImplementsTransitionPromise
=============================================================================
