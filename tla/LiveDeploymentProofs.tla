------------------------ MODULE LiveDeploymentProofs ------------------------
(***************************************************************************)
(* What LiveDeployment promises, for all addresses, amounts and bounds:    *)
(* a READY transaction is spendable; on the checked environment the server *)
(* boots and its write gates refuse the vault only where the allowlist     *)
(* leaves it out; and the health a draw rests on was read where the server *)
(* computes it.                                                            *)
(***************************************************************************)
EXTENDS LiveDeployment, TLAPS

Kinds == {"none", "deposit", "open", "transfer"}
Tx == [kind : Kinds, nonce : Nat, input : Kinds \X Nat, amount : Int]
Vtxo == [id : Kinds \X Nat, amount : Int, spent : BOOLEAN]

TypeInv ==
    /\ draft \in Tx /\ hex \in Tx /\ nonce \in Nat
    /\ vtxos \in SUBSET Vtxo /\ mempool \in SUBSET Tx

\* From the check on, the environment is the one that passed it; from the
\* build on, its vault is the operator's; and nothing runs beside a READY hex.
ScriptInv ==
    /\ stage \in {"build", "list", "sign", "decode"} => probeReadiness(env)
    /\ stage \in {"list", "sign", "decode"} => env.vault = Mine
    /\ hex # NoTx => stage = "idle"
    /\ hex # NoTx /\ env # Down => probeReadiness(env) /\ env.vault = Mine

\* Some unspent VTXO is the input of t and covers it.
Covered(t) == \E v \in Unspent : v.id = t.input /\ v.amount >= t.amount + Fee

SpendInv ==
    /\ stage \in {"sign", "decode"} /\ ~moved => Covered(draft)
    /\ stage = "decode" /\ ~moved => draft.nonce = nonce
    /\ hex # NoTx /\ ~moved => hex.nonce = nonce /\ Covered(hex)

ServerInv ==
    /\ server = Down => decided = NoRun
    /\ decided # NoRun /\ server.chainRead /\ decided.source = "derived" =>
          decided.basis = "observed"

-----------------------------------------------------------------------------
\* The proof of a health read is signed by whoever computed it: what the
\* server derives itself with a required chain read was observed
\* (oracle-client.ts:55-149).
LEMMA FetchedIsObserved ==
    ASSUME NEW e, NEW answer \in OracleAnswers, NEW read, NEW healthy,
           NEW p \in fetchLiveLoanHealthProof(e, answer, read, healthy),
           e.chainRead, p.source = "derived"
    PROVE  p.basis = "observed"
<1>1. CASE Taken(e, answer)
  <2>0. answer # NoAnswer
    BY <1>1 DEF Taken
  <2>1. answer.source = "oracle"
    <3>1. CASE answer \in Statements
      BY <3>1 DEF Statements
    <3>2. CASE \E r \in Reads, h \in BOOLEAN : answer = attested(r, h)
      BY <3>2 DEF attested, deriveHealthProof
    <3> QED BY <2>0, <3>1, <3>2 DEF OracleAnswers
  <2>2. p = answer
    BY <1>1 DEF fetchLiveLoanHealthProof
  <2> QED BY <2>1, <2>2
<1>2. CASE ~(Taken(e, answer)) /\ read \in {"empty", "funded"}
  BY <1>2 DEF fetchLiveLoanHealthProof, deriveHealthProof
<1>3. CASE ~(Taken(e, answer)) /\ read \notin {"empty", "funded"}
  BY <1>3 DEF fetchLiveLoanHealthProof
<1> QED BY <1>1, <1>2, <1>3

-----------------------------------------------------------------------------
LEMMA TypeInitially == Init => TypeInv
BY DEF Init, TypeInv, Tx, Kinds, NoTx, NoVtxo

\* The transactions and VTXOs are records of their fields.
LEMMA TypePreserved ==
    ASSUME DeploymentAssumption, TypeInv, [Next]_vars
    PROVE  TypeInv'
<1> USE DEF TypeInv
<1>0. NoTx \in Tx
  BY DEF Tx, Kinds, NoTx, NoVtxo
<1>a. \A t \in Tx : Id(t) \in Kinds \X Nat
  BY DEF Tx, Id
<1>b. \A i \in Kinds \X Nat, a \in Int : Opening(i, a) \in Tx
  BY DeploymentAssumption DEF Opening, Tx, Kinds, DeploymentAssumption
<1>c. Depositing \in Tx
  BY DeploymentAssumption DEF Depositing, NoVtxo, Tx, Kinds, DeploymentAssumption
<1>1. CASE deriveVault
  BY <1>0, <1>1 DEF deriveVault, ledger
<1>2. CASE fund
  BY <1>2 DEF fund, ledger
<1>3. CASE registerVaultAction
  <2>1. \A v \in Unspent : v.id \in Kinds \X Nat /\ v.amount \in Int
    BY DEF Unspent, Vtxo
  <2>2. draft' \in Tx
    BY <1>3, <1>b, <1>c, <2>1 DEF registerVaultAction
  <2> QED BY <1>3, <2>2 DEF registerVaultAction, ledger
<1>4. CASE depositNonce
  <2>1. \A n \in Nat : [draft EXCEPT !.nonce = n] \in Tx
    BY DEF Tx
  <2>2. draft' \in Tx
    BY <1>4, <2>1 DEF depositNonce
  <2> QED BY <1>4, <2>2 DEF depositNonce, ledger
<1>5. CASE onboardDeposit
  <2>1. Opening(Id(draft), draft.amount) \in Tx
    BY <1>a, <1>b DEF Tx
  <2> QED BY <1>0, <1>5, <2>1 DEF onboardDeposit, Broadcast, End
<1>6. CASE registerVault
  <2>1. [draft EXCEPT !.nonce = nonce] \in Tx
    BY DEF Tx
  <2> QED BY <1>0, <1>6, <2>1 DEF registerVault, Broadcast, End
<1>7. CASE registered
  BY <1>0, <1>7 DEF registered, ledger
<1>8. CASE fundVault
  <2>1. [Depositing EXCEPT !.kind = "open", !.input = Id(Depositing)] \in Tx
    BY <1>a, <1>c DEF Tx, Kinds
  <2> QED BY <1>0, <1>c, <1>8, <2>1 DEF fundVault, Broadcast, End
<1>9. CASE liveCheck
  BY <1>9 DEF liveCheck, ledger
<1>10. CASE buildTransition
  BY <1>10 DEF buildTransition, ledger
<1>11. CASE listVtxos
  <2>1. \A v \in Unspent : v.id \in Kinds \X Nat
    BY DEF Unspent, Vtxo
  <2>2. draft' \in Tx
    BY <1>11, <2>1, DeploymentAssumption
    DEF listVtxos, Tx, Kinds, DeploymentAssumption
  <2> QED BY <1>11, <2>2 DEF listVtxos
<1>12. CASE signTransition
  <2>1. draft' \in Tx
    BY <1>12 DEF signTransition, Tx
  <2> QED BY <1>12, <2>1 DEF signTransition, ledger
<1>13. CASE decodeTransition
  BY <1>0, <1>13 DEF decodeTransition, ledger
<1>14. CASE Stops
  BY <1>0, <1>14 DEF Stops, End, ledger
<1>15. ASSUME NEW t \in mempool, Commit(t)
       PROVE  TypeInv'
  <2>1. t \in Tx
    OBVIOUS
  <2>2. UNCHANGED <<draft, hex>> /\ nonce' \in Nat /\ mempool' \in SUBSET Tx
    BY <1>15 DEF Commit, scripts
  <2>3. Output(t) \in SUBSET Vtxo
    BY <1>a, <2>1 DEF Output, Vtxo, Tx
  <2>4. {[v EXCEPT !.spent = @ \/ v.id = t.input] : v \in vtxos} \in SUBSET Vtxo
    <3>1. ASSUME NEW v \in vtxos
          PROVE  [v EXCEPT !.spent = @ \/ v.id = t.input] \in Vtxo
      <4>1. v \in Vtxo /\ (v.spent \/ v.id = t.input) \in BOOLEAN
        OBVIOUS
      <4>2. [v EXCEPT !.spent = (v.spent \/ v.id = t.input)] \in Vtxo
        BY <4>1 DEF Vtxo
      <4> QED BY <4>2
    <3> QED BY <3>1
  <2>5. vtxos' \in SUBSET Vtxo
    BY <1>15, <2>3, <2>4 DEF Commit, Apply
  <2> QED BY <2>2, <2>5
<1>16. ASSUME NEW t \in mempool, Drop(t)
       PROVE  TypeInv'
  BY <1>16 DEF Drop, scripts
<1>17. CASE Boot
  BY <1>17 DEF Boot, ledger
<1>18. CASE Stop
  BY <1>18 DEF Stop, scripts, ledger
<1>19. ASSUME NEW v \in Vaults, DrawLive(v)
       PROVE  TypeInv'
  BY <1>19 DEF DrawLive, scripts
<1>20. CASE UNCHANGED vars
  BY <1>20 DEF vars, scripts, ledger
<1> QED
  BY <1>1, <1>2, <1>3, <1>4, <1>5, <1>6, <1>7, <1>8, <1>9, <1>10, <1>11,
     <1>12, <1>13, <1>14, <1>15, <1>16, <1>17, <1>18, <1>19, <1>20
  DEF Next, Scripts, Daemon

-----------------------------------------------------------------------------
\* The server's side does not touch the scripts, nor the ledger the scripts
\* look at; a boot may show that the checked environment has been edited.
LEMMA ServerLeaves ==
    ASSUME \/ Boot \/ Stop \/ (\E v \in Vaults : DrawLive(v))
    PROVE  /\ UNCHANGED <<stage, runs, draft, hex, nonce, vtxos, opened, moved>>
           /\ env' = env \/ (env' = Down /\ hex # NoTx)
BY DEF Boot, Stop, DrawLive, ledger, scripts

LEMMA ScriptInitially == Init => ScriptInv /\ SpendInv
BY DEF Init, ScriptInv, SpendInv

LEMMA ScriptPreserved ==
    ASSUME ScriptInv, [Next]_vars
    PROVE  ScriptInv'
<1> USE DEF ScriptInv
<1>1. CASE deriveVault
  BY <1>1 DEF deriveVault
<1>2. CASE fund
  BY <1>2 DEF fund
<1>3. CASE registerVaultAction
  BY <1>3 DEF registerVaultAction
<1>4. CASE depositNonce
  BY <1>4 DEF depositNonce
<1>5. CASE onboardDeposit
  BY <1>5 DEF onboardDeposit, Broadcast, End
<1>6. CASE registerVault
  <2>1. stage = "open" /\ stage' \in {"confirm", "idle"} /\ hex' = hex
    BY <1>6 DEF registerVault, Broadcast, End
  <2> QED BY <2>1
<1>7. CASE registered
  BY <1>7 DEF registered
<1>8. CASE fundVault
  <2>1. stage' \in {"open", "idle"} /\ hex' = NoTx
    BY <1>8 DEF fundVault, Broadcast, End
  <2> QED BY <2>1
<1>9. CASE liveCheck
  BY <1>9 DEF liveCheck, probeReadiness, ledger
<1>10. CASE buildTransition
  BY <1>10 DEF buildTransition, probeReadiness, ledger
<1>11. CASE listVtxos
  BY <1>11 DEF listVtxos, probeReadiness
<1>12. CASE signTransition
  BY <1>12 DEF signTransition, probeReadiness, ledger
<1>13. CASE decodeTransition
  BY <1>13 DEF decodeTransition, probeReadiness, ledger
<1>14. CASE Stops
  BY <1>14 DEF Stops, End
<1>15. ASSUME NEW t \in mempool, Commit(t)
       PROVE  ScriptInv'
  <2>1. UNCHANGED scripts
    BY <1>15 DEF Commit
  <2>2. \/ opened' = (opened \/ t.kind = "open")
        \/ opened' = opened
    BY <1>15 DEF Commit, Apply
  <2>3. opened => opened'
    BY <2>2, Zenon
  <2> QED BY <2>1, <2>3 DEF scripts, probeReadiness
<1>16. ASSUME NEW t \in mempool, Drop(t)
       PROVE  ScriptInv'
  BY <1>16 DEF Drop, scripts, probeReadiness
<1>17. CASE Boot \/ Stop \/ (\E v \in Vaults : DrawLive(v))
  BY <1>17, ServerLeaves DEF probeReadiness
<1>18. CASE UNCHANGED vars
  BY <1>18 DEF vars, scripts, ledger, probeReadiness
<1> QED
  BY <1>1, <1>2, <1>3, <1>4, <1>5, <1>6, <1>7, <1>8, <1>9, <1>10, <1>11,
     <1>12, <1>13, <1>14, <1>15, <1>16, <1>17, <1>18
  DEF Next, Scripts, Daemon

LEMMA SpendPreserved ==
    ASSUME DeploymentAssumption, TypeInv, ScriptInv, SpendInv, [Next]_vars
    PROVE  SpendInv'
<1> USE DEF SpendInv
<1>1. CASE deriveVault
  BY <1>1 DEF deriveVault
<1>2. CASE fund
  BY <1>2 DEF fund, ledger, Covered, Unspent
<1>3. CASE registerVaultAction
  BY <1>3 DEF registerVaultAction, ledger, Covered, Unspent
<1>4. CASE depositNonce
  BY <1>4 DEF depositNonce, ledger, Covered, Unspent
<1>5. CASE onboardDeposit
  <2>1. stage = "deposit" /\ stage' \in {"open", "idle"} /\ hex' = hex
    BY <1>5 DEF onboardDeposit, Broadcast, End
  <2> QED BY <2>1 DEF ScriptInv
<1>6. CASE registerVault
  <2>1. stage = "open" /\ stage' \in {"confirm", "idle"} /\ hex' = hex
    BY <1>6 DEF registerVault, Broadcast, End
  <2> QED BY <2>1 DEF ScriptInv
<1>7. CASE registered
  BY <1>7 DEF registered, ScriptInv
<1>8. CASE fundVault
  <2>1. stage' \in {"open", "idle"} /\ hex' = NoTx
    BY <1>8 DEF fundVault, Broadcast, End
  <2> QED BY <2>1
<1>9. CASE liveCheck
  BY <1>9 DEF liveCheck, ScriptInv
<1>10. CASE buildTransition
  BY <1>10 DEF buildTransition, ScriptInv
<1>11. CASE listVtxos
  <2>1. hex' = NoTx /\ stage' = "sign"
    BY <1>11 DEF listVtxos, ScriptInv
  <2>2. PICK v \in Unspent :
            /\ v.amount >= Draw + Fee
            /\ draft' = [kind |-> "transfer", nonce |-> 0, input |-> v.id,
                         amount |-> Draw]
    BY <1>11 DEF listVtxos
  <2>3. Unspent' = Unspent
    BY <1>11 DEF listVtxos, Unspent
  <2>4. Covered(draft)'
    BY <2>2, <2>3 DEF Covered
  <2> QED BY <2>1, <2>4
<1>12. CASE signTransition
  <2>1. /\ draft' = [draft EXCEPT !.nonce = nonce]
        /\ UNCHANGED <<hex, nonce, vtxos, moved>>
        /\ stage = "sign" /\ stage' = "decode"
    BY <1>12 DEF signTransition, ledger
  <2>2. draft'.nonce = nonce /\ draft'.input = draft.input
          /\ draft'.amount = draft.amount
    BY <2>1 DEF TypeInv, Tx
  <2>3. hex' = NoTx
    BY <2>1 DEF ScriptInv
  <2>4. ~moved => Covered(draft)'
    BY <2>1, <2>2 DEF Covered, Unspent
  <2> QED BY <2>1, <2>2, <2>3, <2>4
<1>13. CASE decodeTransition
  <2>1. /\ hex' = draft /\ stage = "decode" /\ stage' = "idle"
        /\ UNCHANGED <<nonce, vtxos, moved>>
    BY <1>13 DEF decodeTransition, ledger
  <2> QED BY <2>1 DEF Covered, Unspent
<1>14. CASE Stops
  BY <1>14 DEF Stops, End, ScriptInv
<1>15. ASSUME NEW t \in mempool, Commit(t)
       PROVE  SpendInv'
  BY <1>15 DEF Commit
<1>16. ASSUME NEW t \in mempool, Drop(t)
       PROVE  SpendInv'
  BY <1>16 DEF Drop, scripts, Covered, Unspent
<1>17. CASE Boot \/ Stop \/ (\E v \in Vaults : DrawLive(v))
  BY <1>17, ServerLeaves DEF Covered, Unspent
<1>18. CASE UNCHANGED vars
  BY <1>18 DEF vars, scripts, ledger, Covered, Unspent
<1> QED
  BY <1>1, <1>2, <1>3, <1>4, <1>5, <1>6, <1>7, <1>8, <1>9, <1>10, <1>11,
     <1>12, <1>13, <1>14, <1>15, <1>16, <1>17, <1>18
  DEF Next, Scripts, Daemon

-----------------------------------------------------------------------------
LEMMA ServerInitially == Init => ServerInv
BY DEF Init, ServerInv

LEMMA ServerPreserved ==
    ASSUME ServerInv, [Next]_vars
    PROVE  ServerInv'
<1> USE DEF ServerInv
<1>1. CASE Scripts
  <2>1. UNCHANGED <<server, decided>>
    BY <1>1 DEF Scripts, deriveVault, fund, registerVaultAction, depositNonce,
       onboardDeposit, registerVault, registered, fundVault, liveCheck,
       buildTransition, listVtxos, signTransition, decodeTransition, Stops
  <2> QED BY <2>1
<1>2. CASE Daemon
  <2>1. UNCHANGED <<server, decided>>
    BY <1>2 DEF Daemon, Commit, Drop
  <2> QED BY <2>1
<1>3. CASE Boot
  BY <1>3 DEF Boot
<1>4. CASE Stop
  BY <1>4 DEF Stop
<1>5. ASSUME NEW v \in Vaults, DrawLive(v)
      PROVE  ServerInv'
  <2>1. PICK answer \in OracleAnswers, read \in Reads, healthy \in BOOLEAN :
          \E p \in fetchLiveLoanHealthProof(server, answer, read, healthy) :
            decided' = p
    BY <1>5 DEF DrawLive
  <2>2. PICK p \in fetchLiveLoanHealthProof(server, answer, read, healthy) :
            decided' = p
    BY <2>1
  <2>3. server' = server /\ server # Down
    BY <1>5 DEF DrawLive
  <2>4. server.chainRead /\ p.source = "derived" => p.basis = "observed"
    BY <2>2, FetchedIsObserved
  <2> QED BY <2>2, <2>3, <2>4
<1>6. CASE UNCHANGED vars
  BY <1>6 DEF vars
<1> QED BY <1>1, <1>2, <1>3, <1>4, <1>5, <1>6 DEF Next

-----------------------------------------------------------------------------
\* A READY transaction's nonce is the account's and its input covers it, as
\* long as the ledger has not moved since the listing
\* (build-transition.mts:189-273).
THEOREM ReadyIsSpendableHolds ==
    ASSUME DeploymentAssumption
    PROVE  Spec => []ReadyIsSpendable
<1>1. TypeInv /\ ScriptInv /\ SpendInv => ReadyIsSpendable
  BY DEF SpendInv, Covered, ReadyIsSpendable
<1>2. Init => TypeInv /\ ScriptInv /\ SpendInv
  BY TypeInitially, ScriptInitially
<1>3. TypeInv /\ ScriptInv /\ SpendInv /\ [Next]_vars
        => (TypeInv /\ ScriptInv /\ SpendInv)'
  BY DeploymentAssumption, TypePreserved, ScriptPreserved, SpendPreserved
<1> QED BY <1>1, <1>2, <1>3, PTL DEF Spec

\* On an environment live-check let through the server boots, and for all
\* addresses and allowlists the write gates refuse the vault if and only if it is
\* not on the allowlist (readiness.ts:43-179, env.ts:103-158,
\* live-adapter.ts:158-262).
THEOREM ReadyIsExecutableHolds == Spec => []ReadyIsExecutable
<1>1. ASSUME ScriptInv PROVE ReadyIsExecutable
  <2>1. SUFFICES ASSUME hex # NoTx, env # Down
                 PROVE  /\ boots(env) /\ opened
                        /\ (assertWriteGates(env, Mine) <=> Mine \in env.allowed)
    BY DEF ReadyIsExecutable
  <2>2. probeReadiness(env) /\ env.vault = Mine
    BY <1>1, <2>1 DEF ScriptInv
  <2>3. boots(env) /\ opened /\ configReadiness(env)
    BY <2>2 DEF probeReadiness
  <2>4. CASE Mine \in env.allowed
    BY <2>2, <2>3, <2>4 DEF configReadiness, assertWriteGates, assertVaultBinding
  <2>5. CASE Mine \notin env.allowed
    BY <2>3, <2>5 DEF configReadiness, assertWriteGates, assertVaultBinding
  <2> QED BY <2>3, <2>4, <2>5
<1>2. Init => ScriptInv
  BY ScriptInitially
<1>3. ScriptInv /\ [Next]_vars => ScriptInv'
  BY ScriptPreserved
<1> QED BY <1>1, <1>2, <1>3, PTL DEF Spec

\* What the server computes itself it computes from sats it read, where a
\* chain read is required (oracle-client.ts:113-149).
THEOREM DerivedIsObservedHolds == Spec => []DerivedIsObserved
<1>1. ServerInv => DerivedIsObserved
  BY DEF ServerInv, DerivedIsObserved
<1>2. ServerInv /\ [Next]_vars => ServerInv'
  BY ServerPreserved
<1> QED BY <1>1, <1>2, ServerInitially, PTL DEF Spec
=============================================================================
