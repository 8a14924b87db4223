# DrawBound in TLA+

TLA+ specifications of DrawBound (a self-custodial BTC credit protocol: a Next.js
server that gates draws, repayments and unlocks of a vault-backed position and
broadcasts them through a Tachi daemon, with a browser terminal and operator
scripts), the TLC runs that check them and the TLAPS proofs about them. Paths are
relative to the repository root.

Contents: [the system](#the-system) · [the plan](#plan-of-the-modules) ·
[modules and code](#modules-and-the-code-they-model) · [runs](#runs) ·
[disagreements](#where-code-and-promise-part) · [proofs](#proofs) ·
[limits](#what-is-not-modelled)

## The system

| Component | State | Operations | Talks to |
|---|---|---|---|
| Transition routes (`src/app/api/{draw,repay,unlock}`) | none of their own; a request's variables across awaits | authenticate, wait for the lock, replay / conflict / refuse / submit / commit / journal | store, gate, proofs, adapter |
| Covenant gate (`src/lib/domain`, `proofs/derive.ts`) | none | `evaluateDraw`, `calculateCreditLimit`, health ratio, position invariants | routes, store |
| Store (`src/lib/store.ts`) | `positions`, `processedDraws` (caches), `positionLocks`, `loadPromise` | load, save, commit, journal, setProof, connectVault, reset, the per-position lock | backend |
| JSON backend (`src/lib/db/storage.ts`) | `memoryState`, `dirty`, `writeChain`, the file and its `.tmp` | every write: change memory, wait for the next save | file system |
| sqlite backend (`src/lib/db/sqlite.ts`) | four tables | the same, synchronously; one-time import of the JSON file | `node:sqlite` |
| Connect, positions, proofs, reset routes (`src/app/api`) | a request's variables across awaits | change the position **without** the lock | store, vault reads, sessions |
| Sessions and ownership (`src/lib/auth`) | `sessions`, `sessionEpoch`, `CHALLENGES` | create, look up with stateless fallback, revoke all, one-time challenges | routes |
| Rate limiter (`src/lib/security/rate-limit.ts`) | `buckets` | sliding window per client | every route |
| Live adapter (`src/lib/tachi/live-adapter.ts`, `signet.ts`) | attestation cache | gates, attest, decode, broadcast, poll for the commit; vault reads | daemon |
| Proofs and oracle (`src/lib/proofs`, `scripts/hat-oracle.ts`) | none | oracle first, then chain read, then modelled collateral; verify | daemon, oracle |
| Configuration and readiness (`config/env.ts`, `tachi/readiness.ts`) | `process.env` | boot policy, report, readers | everything live |
| Vault terminal (`src/app/vault/page.tsx`) | React state, `localStorage`, the signing key in its module | connect, restore, sign and submit, refresh, disconnect | the routes |
| Operator scripts (`scripts/*.mts`) | a run's variables | derive, fund, register, check, build, sign | the daemon's ledger |
| Receipts, wallet codecs, fixture mode, landing page | – | – | – |

What is hard here is not the arithmetic. Node runs one thread, but every `await` lets
another request in, so the same position is read and written by

* transition requests, one at a time under the lock, which hold a *copy* of the
  position across a chain read, a submission and several file saves;
* connect, proof refresh and reset, which take no lock and may run at each of
  those awaits;
* the file saver, which lags behind memory (JSON backend), and a crash, which
  takes memory back to the file;

and the daemon commits a transaction before the server has recorded it. The browser is
a fourth party: its handlers answer late, outlive their page, and share session, key
and position. The scripts write to a ledger that moves under them. What makes
the components correct: one transition at a time per position; no nonce approved
twice, across retries and restarts; the debt on file is the debt of the receipts on
file; what a client was told is on file; a transaction that may have been accepted is
never broadcast again; an overdrawn position is frozen, an exit is approved only when
everything drawn is repaid; every request ends; a revoked token stays out, one challenge
opens one session, and connecting never takes back debt; a transition is applied to what
the user saw; what a script prints as READY can be applied, and the gates refuse what the
report passed in known cases only.

## Plan of the modules

Written, in this order (most important behaviour first):

1. `CreditGate` – pure gate and position updates.
2. `CreditLedger` + `CreditLedgerProps` – one position and everything that writes
   it; the core. It uses the lock and the file in their *abstract* form.
3. `PositionLock` ⟹ `LockQueue` – the promise chain implements that form of the lock.
4. `JsonStore` ⟹ `DurableStore` – the backend implements that form of the file.
5. `LiveAdapter` ⟹ `TransitionPromise` – the adapter and its daemon implement the
   outcomes `CreditLedger` chooses from.
6. `CreditLedgerProofs`, `PositionLockProofs`, `JsonStoreProofs`,
   `LiveAdapterProofs`: the invariants of 2 and the three refinements.
7. `SqliteOpen` and `SqliteOpenProofs` – from the start of a process to a loaded store.
8. `RateLimiter`, and `Access`, which EXTENDS it: who may act on which position, with
   `AccessProofs`.
9. `VaultPage` – the browser against the routes, with `VaultPageProofs`.
10. `LiveConfig` – what is decided from the environment – and `LiveDeployment`, which
    EXTENDS it with scripts, ledger and server, with `LiveDeploymentProofs`.

Every safety property that a run checks is a theorem as well. Left: debt and snapshots
in a store that is reset (`DebtInv` and `SnapInv` below assume none); bech32 as a module
that only TLC evaluates.

## Modules and the code they model

### CreditGate
Operators only: `calculateCreditLimit` and `evaluateDraw` (`domain/covenant.ts`), the
health ratio of `proofs/derive.ts` in live mode, `assertPositionInvariants`, and the
records the routes and `connectVault` build (`drawn`, `repaid`, `exited`, `frozen`,
`reconnected`, `opened`). Every refusal of `evaluateDraw` has the same effect, so its
reasons are not told apart; a proof is `[usable, health]`. Division is exact where the
code floors a floating-point quotient.

### CreditLedger
One position; `Procs` requests in flight. An action is what one request does between
two awaits that can really let others in: waiting for the lock, the chain read
(`reading`), the adapter (`submit`), and – JSON backend only – each file save
(`waiting`). Awaits of resolved promises are not split. With `Backend = "sqlite"` a
write is synchronous, so `MayRun`/`Undisturbed` let no other request start until the
running one reaches `idle`, `queued`, `reading` or `submit`.

| Variable | Code |
|---|---|
| `cache`, `processed` | `positions.get(id)`, `processedDraws` in `store.ts` |
| `mem`, `disk` | the backend's tables / `memoryState`, and what a restart reads |
| `queue` | the promise chain in `positionLocks` (see `PositionLock`) |
| `pc`, `ctx` | where a handler is; its `before`, `current` and outcome |
| `waiting` | requests awaiting a file save |
| `conn` | the connect in flight, between its reads and `connectVault` |
| `told` | decisions answered (history) |
| `budget` | how many requests, connects, refreshes, resets and crashes are left (bound) |

| Action | Code |
|---|---|
| `Arrive` | `authenticateAction` reads the position; the call of `withPositionLock` |
| `Replay`, `Conflict`, `Begin` | journal look-up, `nonceConflict`, unlock's refusals – the first stretch under the lock |
| `ReadProof`, `Attach` | draw: proof, gate, `deny` (freeze, `setProof`) |
| `Submit` | `submitLiveTransition`; a failed draw freezes; a position that breaks `assertPositionInvariants` throws |
| `Note`, `Journal` | the receipt of a refusal, and its journal entry when a hash is known |
| `Exit`, `Commit`, `Publish`, `Reply` | unlock's early save; `db.commitTransition`; cache and `rememberProcessedDraw`; the response |
| `ConnectRead`, `ConnectWrite`, `RefreshProof`, `ResetWipe`, `ResetReload` | the writers without the lock |
| `Flush`, `FlushFails`, `Crash` | a save of the JSON file, a failed one, a restart |

A journal entry is keyed by position, action, amount, nonce and signer, which is what a
`Request` is, so a request stands for its fingerprint. `Request`s are authentic
(signatures are not modelled); `NonceAhead` says how far a client signs ahead of the
nonce it was last shown (0: it signs the nonce it saw).

**Why a file save is one step.** In the code a save has five steps and changes land
between them. `JsonStore` models those and implements `DurableStore`, where a save
takes the file to *some* state that memory had since the file's own. `CreditLedger`'s
`Flush` takes it to memory as it is now. Given a behaviour of the former, move each
save whose rename happens back to the moment its snapshot was taken: between snapshot
and rename nobody reads the file except a crash, and a crash before the rename has the
old file, i.e. the behaviour in which that save never happened. The callers a save
releases may then go on earlier than in the code, which only adds behaviours, and
never before their change is in the snapshot.

### PositionLock and LockQueue
`Call`, `Start`, `Settle`, `Finally` are the statements of `withPositionLock`;
`LockQueue` is a FIFO lock. A call draws a ticket; the refinement maps the line to the
runs after the `done` first tickets, those of the settled runs. `CreditLedger`'s `queue` is `LockQueue`'s `line`, and a request past `queued` is
`inside`.

### JsonStore and DurableStore
`memoryState` is a version number, since only which change a file holds matters.
`ensureLoaded` (and its fallback to the seeded defaults), `persist`, the link on
`writeChain`, and each await of `save` are actions; any of them may fail,
which sets `lastWriteError` until a later save succeeds, and a crash may come between
any two. `ReadErrors` lets a file that is there fail to load.

### LiveAdapter and TransitionPromise
Positions submit (one submission each, as the lock has it) and readers read vaults;
both share the attestation cache.

| Variable | Code |
|---|---|
| `pc`, `tx`, `hashed` | which await of `submitCreditTransition` / `readVault` a caller is in; its `txHex`; whether `daemonHash` is set |
| `reply` | the daemon's answer on its way back |
| `left`, `deadline` | time left of the await; `deadline` of `waitForCommit` |
| `answer` | receipt or error code: `ok`, `refused` (nothing was broadcast), `rejected` (`REJECTED`), `pending` / `lost` (`UNCONFIRMED` with / without a hash) |
| `age` | age of the cached attestation, `LIVE_ATTESTATION_TTL_MS` when there is none |
| `daemon`, `astray`, `ledger`, `stray` | the daemon's chain, for how long it has not been the expected one, what became of each transaction on each chain, broadcasts that outlived their caller |
| `sent` | what was broadcast (history) |

| Action | Code |
|---|---|
| `Submit`, `readVault` | the gates and the look-up in the cache, up to the first await |
| `AttestLands`, `DecodeLands`, `BroadcastLands`, `LookupLands`, `VaultLands` | what follows each await |
| `Throws` | the same when the request fails: unreachable, HTTP error, answer lost, timeout |
| `NotYet`, `Wake` | the end of one round of `waitForCommit`, and the next |
| `Serve`, `Arrive`, `Settle`, `Switch` | the daemon, as the adapter reads it through `parseDecodedTx`, `parseBroadcastOutcome`, `parseCommitOutcome` |
| `Crash`, `Tick` | a restart of the server; time |

Time counts down in whole units and no timer is late: a step of code takes none, and
`Tick` waits for whoever's time is up. A request fails no later than
`LIVE_REQUEST_TIMEOUT_MS` after it left, which the SDK's client is built with
(`live-client.ts`). A broadcast not served by then may still arrive.
The daemon's JSON is abstracted to the outcomes the parsers tell apart.
`parseBroadcastOutcome` reads an answer without a code as acceptance; the modelled
daemon always gives one.

`TransitionPromise` is what the routes rely on: *refused* has handed nothing over,
*pending* and *lost* name a transaction the daemon has taken, *ok* one it has
committed; *rejected* says nothing about the daemon (see `FindRejectedHeld`).
`CreditLedger`'s `Outcomes` are these answers as `submitLiveTransition` passes them on.

### SqliteOpen
A process with its `DB_BACKEND`, the JSON file, its archived copy, and the tables, of
which a transaction in progress sees its own (`txn`). `open` … `commitThenArchive` are
`SqliteStorageRepository.open`, `migrateFromJson` statement by statement, and
`seedIfEmpty`; `ensureLoaded` is the store's; `change` and `reset` are what the routes
do to a loaded store; `Restart` kills the process between any two of them and may start
the next with the other backend. A ledger is a version number, so "rows without their
receipts" is a row of unequal numbers. A rejected `loadPromise` stays rejected
(`openRejected`): only a restart leaves that state.

### RateLimiter and Access
`Access` is every route that opens, ends or uses a session, behind the limiter.

| Variable | Code |
|---|---|
| `buckets`, `now` | the hits in each of the `buckets` of `rate-limit.ts`, by time and number; the clock in ticks |
| `sessions`, `sessionEpoch`, `lastSweepAt` | the same names in `sessions.ts` |
| `challenges` | `CHALLENGES` of `ownership.ts` |
| `positions` | position of each vault, as connect and the positions routes see it |
| `inflight` | a connect or re-hydration between two awaits, with what it has read |
| `accepted`, `issued`, `minted`, `revoked` | history for the properties |

| Action | Code |
|---|---|
| `challenge`, `connect`, `connectFails`, `readCollateral`, `connectDecides`, `connectOpens` | wallet/challenge; wallet/connect, cut at each await |
| `disconnect`, `read`, `reset` | wallet/disconnect, receipts and the reads, the admin reset |
| `rehydrate`, `rehydrated`, `openPosition` | GET and POST of the positions route |
| `act` | a draw or repayment that authenticates (decided in `CreditLedger`) |
| `Passes`, `Tick`, `Restart` | a request that ends at the limiter or is nothing to this module; time; a new process, which has the positions and the token secret only |

A token carries its own session and is signed, so it verifies in a process that never
saw it; map path and stateless path accept the same tokens, and `verifyToken` is both.
Where the source's comments are loose, the model follows the code: `sessions.ts:20-21`
says a restart invalidates tokens, but a token verifies statelessly under a stable
secret; `rate-limit.ts:20-22` says the sweep runs on every call, but it runs when more
than `MAX_TRACKED_KEYS` are tracked; `MAX_SESSIONS` is applied at most once per sweep
interval; a disconnect with a token nobody knows still raises the epoch; a re-hydration
whose read is incomplete opens a position without collateral
(`positions/route.ts:52-54`, `66-67`).

### VaultPage
What is on screen (`session`, `position`, `busy`, `connecting`), `localStorage`
(`stored`), `inMemoryPrivateKey` (`key`), one `task` per request that is under way, and
the server as the page sees it. A connect makes one key pair and opens at most one
session, so one number names both. A handler is `here` (its page is mounted), `left`
(the user navigated: it goes on, its `setState` goes nowhere, but storage and key are
still written) or `gone` (reload: only what the server does with the request remains).

| Action | Code |
|---|---|
| `submitSigned`, `submitKeyless`, `refreshLiveProof` | the buttons under their `disabled` conditions; Enter in the amount field draws without any (`page.tsx:894-896`), so runs overlap and share one `busy` |
| `run`, `runFails` | the answer of a signed action or of a proof refresh, or its loss |
| `connect`, `connected`, `connectFails` | Enter in the vault's field and a fresh vault that arrives late start one whatever else is under way (`735-737`, `344-365`) |
| `disconnect`, `disconnected`, `refresh` | the same names in the page |
| `restore`, `restoreEnds` | the restore on mount: the position, then the receipts, whose loss refreshes (`226-232`) |
| `ServePosition`, `ServeOther`, `ServeConnect`, `ServeDisconnect` | the routes' answers; receipts and proofs answer without a position |
| `authenticateAction`, `decide` | a signed action before the lock, where the position it was read with is kept, and under it: replay, conflict, refusal (a refused draw freezes and answers the frozen position) or transition |
| `Lost`, `Reload`, `Navigate`, `SessionEnds` | a request or answer that is lost; the user leaves; a session expires |

`task[s].saw` is history: the position on screen at the click. The 401 branch of the
restore (`page.tsx:190-195`) is never taken, since `GET /api/positions` answers an
unknown session with 200 and no position.

### LiveConfig and LiveDeployment
`LiveConfig` has operators only. `Env` is every live environment, up to what any reader
tells apart (on signet two mainnet settings and how live mode was switched on are not
read; addresses are told apart by network, and the boot takes a misspelt one by its
prefix, which every later check decodes). `validatePolicy` and `boots` are `env.ts`,
`configReadiness` is `readiness.ts`, `assertWriteGates` `live-adapter.ts`;
`fetchLiveLoanHealthProof` gives the proof for every oracle answer, those bound to
another position included, and every chain read,
`verifyNormalizedProof` and `gate` what a draw makes of it.

`LiveDeployment` has the scripts as a chain of stages with one action per daemon call
(`deriveVault` … `decodeTransition`; `fundVault` is `fund-vault.mts`), each of which may
fail (`Stops`), the daemon's ledger (`nonce`, `vtxos`, `mempool`, `opened`; `Commit`,
`Drop`) and a server (`Boot`, `DrawLive`, `Stop`). The ledger is external and modelled
from how the scripts use it. `moved` tells whether it has committed anything since the
build listed its inputs, which no client could have seen.

## Runs

All on two workers within the five-minute limit. `Budget` bounds how often things
happen, never in which order. Deadlock checking is off because a system whose budget is
spent stops; progress is checked by the liveness properties instead.

| Run | Question | Instance |
|---|---|---|
| `LedgerJsonCrash` | Is the file a consistent ledger at every crash point, and does a restart forget or repeat anything? | JSON, 2 requests in flight of 3, amounts ≤ 2, all four outcomes, failing and unusable proofs, 1 crash, no unlocked writer |
| `LedgerJsonWriters` | What survives connect and proof refresh interleaved at every file wait? | JSON, 3 requests, 1 connect, 1 refresh, collateral 2 or 6, no crash |
| `LedgerAhead` | Is an exit approved only when everything drawn before it is repaid, for clients that sign ahead and an unlock that writes its old snapshot back? | sqlite, 3 requests with nonces ≤ 2, `NonceAhead = 1`, 1 connect, 1 refresh, 1 crash |
| `LedgerReset` | Does a reset under running requests, with saves that fail, let a nonce be approved twice or a request hang? | JSON, 2 requests, 1 reset, `WriteErrors`, fairness |
| `PositionLock` | Does the promise chain implement a fair FIFO lock? | 4 calls |
| `JsonStore` | Is an awaited change on file, does every change get there, does every caller return? | 3 callers, 5 versions, 2 crashes, saves may fail, fairness |
| `LiveAdapter` | Does the poll end, is a daemon that left its chain left alone, does every call end, and do the answers mean what the routes take them for? | 1 position, 1 reader, 1 transaction, 2 chains (1 expected), times: attestation 2, request 1, confirm 3, poll 1; fairness |
| `SqliteOpen` | Is the import all or nothing, and does a loaded store serve the last change that returned? | both backends, 3 changes, 1 reset, 3 restarts |
| `Access` | Does a revocation hold, does a challenge open one session, does the limiter's window hold, and does connecting keep the ledger? | 1 vault, 2 clients (one only asks for challenges, or fills its window), 2 connects or re-hydrations in flight, 2 requests per window of 2, sweep at every key, 3 clock values, 2 tokens, session cap 1, 1 challenge, 1 restart or reset |
| `VaultPage` | Is a transition applied only to the vault, debt and nonce the user saw, and do the buttons come back? | 1 vault, 2 requests under way, a stored session and 1 new connect, 2 transitions, reload and navigation; fairness |
| `LiveDeployment` | Can a READY transaction be applied, when do report and gates disagree, and where does the health of a draw come from? | every environment over 1 own, 1 other, 1 mainnet and 1 misspelt address; deposit 4, fee 1, draw 2; 2 runs, 3 ledger transactions |

*Why the bounds are enough.* Two requests in flight are one holder and one waiter; the
third request is the retry or the follow-up. One unit of debt and two tell a partial
repayment from a full one; collateral 2 and 6 at 2 sats per unit give limits 1 and 3,
so a connect can push the limit below the debt. A crash, a connect or a refresh is one
event placed anywhere; the damage they do needs one of each. Five versions and three
callers let two changes coalesce behind a save in flight and one arrive after it. In
`LiveAdapter` the reader is the second user of the cache, whose landing may come
between a submission's; the position may submit the same transaction again after every
answer; the confirm time gives the poll up to three lookups; the attestation outlives a
request, so both maxima of `WrongChainUnused` are reached. In `SqliteOpen` three
restarts are: JSON to sqlite, one cut import, the import that succeeds. In `Access` two
tokens are one that is revoked and one minted after it, or two that want the same
challenge; the cap of 1 evicts with the second; two requests in flight are a connect
beside a re-hydration or another connect; `MaxTracked = 0` sweeps whenever a key is
tracked, and the bystander's requests sweep the other's bucket, and leave it
room to present one challenge twice before it expires. The admin token may be
used in a connect. In `VaultPage` two slots let any two handlers overlap, which is what
every mixture of session, key and position takes; the slot that is free first is used; two
transitions are one that is applied and one signed from what was shown before it. That a
transition meant for one vault never reaches another rests on the proof, and on
`VaultPageVaults`, the same instance with two vaults and `AppliedAsShown` alone, to be
run by hand.
In `LiveDeployment` the second run meets what the first left in the mempool, and three
commits are deposit, registration and one more. The proofs cover the other settings.

*Clients that sign ahead.* Nothing stops a client from signing a nonce it was not shown.
`LedgerAhead` has such clients (`NonceAhead = 1`): an exit is still approved only when the
receipts before it leave nothing to repay (`ExitIsRepaid`), and what the approved exit
then *writes* may be the debt of its old snapshot (`FindStaleUnlock`: `ExitedOwesNothing`
and, with it, `FileDebtMatchesReceipts` fail). The other ledger runs have `NonceAhead = 0`;
the theorems that need it say so.

*Fairness.* `Handler(p)`: Node's event loop runs every ready continuation, and each
await of a handler ends (reads and submissions have timeouts, file operations finish).
`Flush`: a pending save runs. `ResetReload`, `ConnectWrite`: the same for those
handlers. No fairness for clients, crashes or failures. `FlushFails` needs none:
`Flush` stays enabled until one of them happens. `PositionLock` and `JsonStore` assume
the same of promise reactions and file operations. `VaultPage` has, per slot, `Serve \/ Lost`
(a fetch is answered or rejects) and `Settles` (its handler goes on); nothing for the
user, the server's sessions, reloads. `LiveAdapter` has `Tick` (time passes)
and `Step(c)` (a continuation whose answer or timer is there runs); the daemon, the
operator and crashes have none.

*Which property holds where.* `OneAllowPerNonce` needs that no stale write meets a
crash: it is checked with all writers but no crash (JSON); with all of them and a
crash (sqlite) it is proved. A reset *and* a connect while a commit waits for its file can approve
one nonce twice with the JSON backend; `LedgerReset` therefore has no connect.
`FileDebtMatchesReceipts` holds at every crash point unless a proof refresh or connect
rewrites the file during a commit (below); with sqlite, whose writes are synchronous, it
holds beside them too, which is proved, and which `LedgerSqlite` checks when run by hand.

## Where code and promise part

One is a listed run, quoted in `PROJECT.json`, `findings`:

| Run | What the code does |
|---|---|
| `FindRepayThrows` | After a connect lowered the limit, a partial repayment is committed by the daemon and then throws in `assertPositionInvariants` (`repay/route.ts:99`): nothing is recorded. |

The others are configurations to run by hand, `tlc -config <name>.cfg <module>`; each
checks one property that TLC refutes.

| Configuration | Property | What the code does |
|---|---|---|
| **`MCCreditLedger`** | | |
| `FindDrawReplay` | `ToldAllowIsOnFile` | A draw whose broadcast is unconfirmed is journaled as DENY; its retry is answered `decision: "ALLOW"` (`draw/route.ts:50`). |
| `FindStaleUnlock` | `ExitedOwesNothing` | The exited position is built from the pre-lock snapshot (`unlock/route.ts:107`): the debt a repayment cleared meanwhile comes back on an EXITED position (with `NonceAhead = 1`). |
| `FindStaleRewrite` | `FileDebtMatchesReceipts` | `setProof` (`store.ts:179`) rewrites the cached, pre-commit position while `commitTransition` waits for the file: new receipt, old debt on file until the journal entry is saved. |
| `FindUnlockCrash` | `FileNonceMatchesReceipts` | The unlock saves its position before it commits it with the receipt (`unlock/route.ts:108`, against `store.ts:147-151`). |
| `FindExitLeft` | `ExitIsFinal` | A draw on an exited position is denied by freezing it (`draw/route.ts:63`, against `unlock/route.ts:38`). |
| `FindFrozenDraw` | `FrozenOpensNoCredit` | Nothing refuses a draw for being frozen (`covenant.ts:59`, against `state-machine.ts:8-10`, `docs/security-review.md:139`). |
| `FindSaveError` | `ToldCommitIsOnFile` | A failed save is logged and the client is told ALLOW (`storage.ts:129-132`, against `storage.ts:138-139`). |
| `FindConnectLost` | `OnlyConnectMovesCollateral` | A transition under way writes the old collateral and limit back over a connect's (`draw/route.ts:159`, against `store.ts:208-209`). |
| `FindResetUndone` | `ResetWipesPosition` | A transition under way writes the wiped position back (`store.ts:153-156`, against `store.ts:253`). |
| `FindRetryConflict` | `CommittedRetryIsReplayed` | A crash between commit and journal entry makes the retry a 409 (`draw/route.ts:190-191`, against `README.md:41`). |
| `FindPendingResent` | `PendingNeverResubmitted` | A crash between a pending receipt and its journal entry lets the retry broadcast again (`draw/route.ts:143-147`, against `README.md:140-142`). |
| **`LiveAdapter`** | | |
| `FindRejectedHeld` | `RejectedIsNotHeld` | Whatever the broadcast throws is `REJECTED`, a lost answer too, while the daemon may hold or commit the transaction (`live-adapter.ts:346`, against `errors.ts:19-20`, `transition.ts:15-20`). |
| **`JsonStore`** | | |
| `FindUnreadableFile` | `ReturnedIsOnFile` | A file that fails to load once is replaced by the seeded defaults (`storage.ts:113-116`, against `storage.ts:138-139`). |
| **`SqliteOpen`** | | |
| `FindImportGivenUp` | `SwitchingLosesNothing` | A file that cannot be read, or an import that is rolled back, leaves a seeded database, and the rows then stand in the way of every later import (`sqlite.ts:106-108`, against `sqlite.ts:12-13`). |
| **`Access`** | | |
| `FindDisconnected` | `DisconnectDisconnects` | The epoch is back at 0 after a restart, and the revoked token verifies through the stateless path (`sessions.ts:59`, against `sessions.ts:53-58`). |
| `FindRestoredUnproven` | `RestoredIsProven` | The gate looks at the position read before the health proof; debt drawn meanwhile is restored to a session without a proof (`connect/route.ts:142`, against `194-199`). |
| **`VaultPage`** | | |
| `FindForeignKey` | `KeyFitsSession` | A restore that answers after a connect shows the old session above the new key, and a connect that answers after its page was left changes the key under the session shown (against `page.tsx:208-214`). |
| `FindFailedOpen` | `FailedClosedIsTrue` | "Request failed closed; no state transition applied" is shown for an answer that was lost (`page.tsx:285`). |
| **`LiveDeployment`** | | |
| `FindSignedModel` | `NeverModeled` | The reference oracle signs modelled collateral when its read fails, and the server cannot tell (`hat-oracle.ts:46-49`, `81`, against `env.ts:243-246`). |
| `FindReadyUndrawable` | `ReadyIsDrawable` | The report passes a vault that is not on the allowlist, and an allowlist of keys without an oracle, with which no draw passes (against `live-check.mts:119`). |

`HealthIsExternal` (`env.ts:79-83`) of `LiveDeployment` falls with the constants of
`FindSignedModel` too: an allowlist alone is enough to boot, and a chain read is a
derived, unsigned health.

## Proofs

`tlapm` proves every obligation; nothing is assumed but the named `ASSUME`s on
constants, which TLC evaluates in the runs.

* **PositionLockProofs** – `MutualExclusionHolds` and `EntryWhileBusyHolds`, for any set
  of runs. Mutual exclusion alone is not inductive. `LockInv` gives every call a
  ticket (`Tickets`), and says that a run hangs on the call right before it or finds
  everything before it settled (`Chain`), that what has started has seen everything
  before it settle (`Past`), and that the map's entry is the last call until that call
  takes it out (`Entry`). `ChainIsOrderly` is the safety half of the refinement of
  `LockQueue`: `QueueInv` adds that every ticket is drawn and that the settled runs have
  the first ones, so that `Call`, `Start` and `Settle` are the lock's steps and
  `Finally` is a stutter.
* **CreditLedgerProofs** – every safety property of the ledger, in ten invariants.
  All rest on the first, most also on some of those above them.

  | Invariant | What it adds | Theorems | Assumes |
  |---|---|---|---|
  | `LineInv` | a request that has arrived carries what it signed and saw, and past the lock the position it read (`Carries`); one that is not idle is in the queue (`InLine`) | `TypesHold`, `OneHolderHolds` | – |
  | `JournalInv` | cache and database hold the same journal, one receipt per request, and a request under the lock is not in it before it put itself there; in a store nobody resets, it is in it when it replies | – | – |
  | `PendingInv` | a pending receipt is journaled or its request is about to | `PendingIsJournaledHolds` | no crash |
  | `AnswerInv` | what is journaled but not on file belongs to a request waiting for a save; a request past its commit has its receipt on file | `ToldCommitIsOnFileHolds`, `FinalAnswerNeverResubmittedHolds`, `RetryAnsweredAlikeHolds` | `Reliable`: no reset, saves succeed |
  | `NonceInv` | approved nonces differ, and are below the nonce of database and file, which without a position have none (`Filed`), of requests that may still commit (`Unused`), of the cache, which lags behind (`Cached`) | `OneAllowPerNonceHolds`, `FileNonceIsPastReceiptsHolds` | `Orderly`; the second `InStep` |
  | `HeldInv` | a request past the lock holds the cache's nonce and debt until it publishes | `NonceNeverFallsHolds`, with the next | no reset |
  | `RiseInv` | the same as far as resets leave it: neither cache nor database is ahead of what a request past the lock holds and writes (`Ahead`), and both agree unless a commit is about to be published (`Level`) | `NonceNeverFallsHolds`, with the one above | `InStep` |
  | `SnapInv` | every copy of the position is sound, and so is what a commit is about to write; the snapshot an unlock took before the lock either owes what the cache owes or has an older nonce | `OverdrawnIsFrozenHolds` | `Shown`: no reset, `NonceAhead = 0` |
  | `DebtInv` | database and file each owe what their receipts account for, and the cache does, or the position a commit is about to put there | `FileDebtMatchesReceiptsHolds` | `Shown`, `InStep` |
  | `RepaidInv` | no copy of the position owes less than the receipts account for, nor does the one a request under the lock holds (`Covered`); so an unlock that finds no debt has receipts that leave none (`Repaid`) | `ExitIsRepaidHolds` | `Orderly` |

  `InStep` is sqlite, or no unlocked writer; `Orderly` is `InStep`, or neither reset nor
  crash. `NonceNeverFallsHolds` assumes `InStep` or no reset. The assumptions are where the code itself stops keeping the promise, and a
  configuration shows most of them: a crash between the two writes leaves a pending
  receipt out of the journal (`FindPendingResent`); a failed save is answered ALLOW
  (`FindSaveError`); a nonce signed ahead lets a stale snapshot back, with more debt, never less (`FindStaleUnlock`, `RepaidInv`);
  an unlocked writer rewrites the file during a commit (`FindStaleRewrite`), and a crash
  then puts an approved nonce back; a connect opens a new position between a commit and
  its publication if a reset took the old one away. A reset also empties the journal, so
  no answer outlives it. None of them bounds how many requests, connects, refreshes or
  (where they are allowed) resets and crashes there are.

  `NetDebt` adds up receipts by a recursive function. What it adds when a receipt is
  appended needs induction, and the library's theorems for that take an operator; the
  lemma `LeastNatural` (a set of naturals that is not empty has a least member, from the
  well-foundedness of strict inclusion on finite sets) does without: the first length at
  which a sum goes wrong contradicts the one before it.
* **JsonStoreProofs** – `ReturnedIsOnFileHolds`, and `StoreKeepsPromise`, the refinement
  of `DurableStore`, for any callers, changes, failed saves and crashes. `StoreInv`: each
  link of the write chain belongs to a caller of its own whose change memory has
  (`Chain`); what a save has read is no less than the file has, has its caller's change,
  and is all of memory unless `dirty` is set again (`Snapshot`); a file is whole, and is
  all of memory when no save is due, under way or failed (`OnFile`). Both assume
  `~ReadErrors`: a file that is there but fails to load is replaced by the defaults, which
  `FindUnreadableFile` shows to lose what was returned.
* **LiveAdapterProofs** – `AdapterTypesHold`, `PollEndsInTimeHolds` and
  `WrongChainUnusedHolds`, for any callers, transactions, chains and timers.
  `TimeInv = TypeOK /\ Roles /\ Timers`: no request is awaited longer than its timeout,
  a lookup left before the deadline, a sleep ends before it. `Attested`: the cached
  attestation, and one on its way back, are at least as old as the daemon's departure
  from the expected chain, so what is decided on them is decided in time.
  `AdapterKeepsPromise` is the refinement of `TransitionPromise`: `Truthful` says that
  what an answer on its way says is so, that whoever polls has a transaction the daemon
  has taken, and that all of it was handed over. Each action is then shown to be a step
  of the promise or a stutter.
* **SqliteOpenProofs** – `ImportIsWholeHolds` and `ServesLatestHolds`. For the first,
  `WholeInv = TypeOK /\ ImportIsWhole /\ ImportInv`: an import runs on an empty
  database, and its transaction holds, table by table, what the file holds. For the
  second `ServeInv`: with JSON the database is empty and the file is the latest ledger
  (`JsonServes`); with sqlite the rows are, and until there are rows the file is
  (`SqliteServes`). It assumes that no start goes from sqlite back to JSON.
* **AccessProofs** – `RevocationHolds`, from `EpochInv`: token numbers never repeat, and
  a token of this process that was revoked has an older epoch. `ChallengeHolds`, from
  `AccessInv = AccessTypes /\ ChallengeInv`: a challenge that a request or a token carries
  is open no more, and no other request and no other token carries it; a restart forgets
  the challenges but not how many there were, as their random ids do not repeat.
  `RestoreKeepsLedgerHolds`: with those types, each handler that writes a position writes
  it from the record it finds there, not from the one it read before its awaits.
  `WindowBoundHolds`, from `LimiterInv`: a bucket holds only accepted hits, and all of
  those that still count, whatever was swept; and *every* window, wherever it begins,
  holds at most `RateMax` of them.
* **VaultPageProofs** – `PageInvariant`: `PageInv` has the types of the page, of every
  request under way and of the server. `ShownInvariant` adds `ShownInv`: a position on
  screen, on its way there or signed from has no later nonce than the server's, and with
  the same nonce the same debt (`Known`), since every step of the ledger raises the nonce
  or keeps both (`Rises`); a message is for the vault that was on screen. From it
  `AppliedAsShownHolds`: what is decided has the current nonce, so what was on screen was
  the server's debt, and an unlock's snapshot lies between the two.
* **LiveDeploymentProofs** – `ReadyIsSpendableHolds`, from `ScriptInv` (what each stage
  knows of its draft) and `SpendInv` (until the ledger moves, the draft's input is
  unspent and covers it, and its nonce is the account's); `ReadyIsExecutableHolds`,
  from the environment the run carries; `DerivedIsObservedHolds`, from `ServerInv` and
  the lemma `FetchedIsObserved`.

Only model-checked, as liveness and ENABLED are out of this prover's reach:
`EveryRequestEnds`, both `EveryCallReturns`, `ChangesReachFile`, `EveryCallEnds`,
`ButtonsComeBack`, and the fairness half of `ImplementsLockQueue`.

## What is not modelled

* `CreditLedger` has one position: positions share only the file and the lock map, and
  no property relates two positions.
* `latestProof` and the proof archive: no decision reads them; that writing one
  rewrites the whole position *is* modelled.
* In the adapter: mainnet without its opt-in and clients without decode or lookup,
  which refuse at once; the fallback client `http-client.ts`, which only tests use;
  late timers.
* In the scripts: `OPERATOR_VTXO_ID` and `OPERATOR_INPUT_SATS`, with which the
  operator's word is taken for the input; the subcommands that only print. Which of the
  VTXOs that qualify the listing puts first, and which the daemon holds locked, is open:
  the model takes any. `argv[7]` restates the input's value for the change only.
* In `SqliteOpen` a transition's commit and its journal entry are one change, because
  the module is about starts and imports; `CreditLedger` has a crash between the two.
* `TRUSTED_PROXY_HOPS=0`, which passes the schema (`env.ts:71`) and throws in `readInt`
  (`194-200`): two parsers of one number, nothing in between.
* The demo position and fixture mode with its relay; `LIVE_REQUIRE_CHAIN_READ=false`
  in `CreditLedger` and `Access` (`LiveConfig` has it).
* Cryptography: tokens, signatures and digests are taken to be unforgeable. Receipt
  digests, bech32 and PSBT codecs and the wallet transports are functions on bytes.
* Who a client is: `X-Forwarded-For` parsing makes the `Keys` of the limiter.
* Several server processes on one store (the documentation restricts both backends to
  one instance).
* The landing page, shared components, notices and layout; the diagnostics and health
  routes, which only report.
