----------------------------- MODULE SqliteOpen -----------------------------
(***************************************************************************)
(* From the start of a process to a loaded store, with either backend:     *)
(* SqliteStorageRepository.open and its one-time import of the JSON store  *)
(* (sqlite.ts), and the store's ensureLoaded above it (store.ts).  A       *)
(* ledger - positions, receipts, journal - is a number: 0 is the seeded    *)
(* one, and every change makes the next.  What changes do, one at a time,  *)
(* is CreditLedger's business, how the JSON file is saved JsonStore's.     *)
(***************************************************************************)
EXTENDS Integers

CONSTANTS
    Backends,      \* backends a process may be started with
    MaySwitchBack, \* whether a start may go from sqlite back to json
    MaxChanges,    \* bound: changes made
    MaxResets,     \* bound: resets
    MaxCrashes     \* bound: restarts

None == -1         \* no file, no rows, nothing loaded

ASSUME OpenAssumption ==
    /\ Backends \subseteq {"json", "sqlite"} /\ Backends # {}
    /\ MaySwitchBack \in BOOLEAN
    /\ MaxChanges \in Nat /\ MaxResets \in Nat /\ MaxCrashes \in Nat

VARIABLES
    backend,   \* DB_BACKEND of this process
    at,        \* where its openPromise and loadPromise are
    json,      \* ledger in drawbound.json
    archive,   \* ledger in drawbound.json.imported
    tables,    \* committed rows of the database, per table
    txn,       \* rows a transaction in progress sees
    cache,     \* ledger in the store's maps
    latest,    \* ledger of the last change or reset that returned (history)
    made,      \* ledgers made so far (bound)
    givenUp,   \* an import was given up, or a reset cut short (history)
    resets, crashes  \* how many there were (bounds)

files == <<json, archive, tables>>
counts == <<made, resets, crashes>>
vars == <<backend, at, files, txn, cache, latest, givenUp, counts>>

Empty == [positions |-> None, receipts |-> 0, journal |-> 0]
Holding(v) == [positions |-> v, receipts |-> v, journal |-> v]

Init ==
    /\ backend \in Backends
    /\ at = "closed"
    /\ json = None /\ archive = None
    /\ tables = Empty /\ txn = Empty
    /\ cache = None /\ latest = 0 /\ givenUp = FALSE
    /\ made = 0 /\ resets = 0 /\ crashes = 0

Goto(from, to) == at = from /\ at' = to

-----------------------------------------------------------------------------
(* Opening the database. *)

\* The first request opens the database and makes the tables; rows in the
\* table of positions mean that there is nothing to import.
open ==
    /\ backend = "sqlite"
    /\ Goto("closed", IF tables.positions # None THEN "list" ELSE "read")
    /\ UNCHANGED <<backend, files, txn, cache, latest, givenUp, counts>>

\* Opening fails: openPromise stays rejected, and loadPromise with it.
openRejected ==
    /\ backend = "sqlite"
    /\ Goto("closed", "rejected")
    /\ UNCHANGED <<backend, files, txn, cache, latest, givenUp, counts>>

\* seedIfEmpty.
Seeded(t) == IF t.positions = None THEN [t EXCEPT !.positions = 0] ELSE t

\* migrateFromJson, before its transaction: a file that is not there or
\* cannot be read means a seeded database.
readFile ==
    /\ \/ json # None /\ Goto("read", "begin") /\ UNCHANGED <<tables, givenUp>>
       \/ /\ Goto("read", "list")
          /\ tables' = Seeded(tables)
          /\ givenUp' = (givenUp \/ json # None)
    /\ UNCHANGED <<backend, json, archive, txn, cache, latest, counts>>

\* Mutant: the rows are inserted outside a transaction.
insertUnbracketed ==
    /\ \/ Goto("begin", "receipts")
          /\ tables' = [tables EXCEPT !.positions = json]
       \/ Goto("receipts", "journal")
          /\ tables' = [tables EXCEPT !.receipts = json]
       \/ Goto("journal", "commit")
          /\ tables' = [tables EXCEPT !.journal = json]
    /\ txn' = tables'
    /\ UNCHANGED <<backend, json, archive, cache, latest, givenUp, counts>>

\* BEGIN and the inserts, table by table.
insert ==
    /\ \/ Goto("begin", "receipts")
          /\ txn' = [tables EXCEPT !.positions = json]
       \/ Goto("receipts", "journal")
          /\ txn' = [txn EXCEPT !.receipts = json]
       \/ Goto("journal", "commit")
          /\ txn' = [txn EXCEPT !.journal = json]
    /\ UNCHANGED <<backend, files, cache, latest, givenUp, counts>>

\* ROLLBACK when the file does not parse or a statement throws, then a seeded
\* database all the same.
rollback ==
    /\ at \in {"begin", "receipts", "journal", "commit"}
    /\ at' = "list"
    /\ tables' = Seeded(tables)
    /\ txn' = Empty
    /\ givenUp' = TRUE
    /\ UNCHANGED <<backend, json, archive, cache, latest, counts>>

\* Mutant: the file is archived before the rows are committed.
archiveThenCommit ==
    /\ \/ /\ Goto("commit", "rename")
          /\ archive' = json /\ json' = None
          /\ UNCHANGED <<tables, txn>>
       \/ /\ Goto("rename", "list")
          /\ tables' = txn /\ txn' = Empty
          /\ UNCHANGED <<json, archive>>
    /\ UNCHANGED <<backend, cache, latest, givenUp, counts>>

\* COMMIT, then the file is archived; when that fails the error is caught,
\* and seedIfEmpty finds the rows.
commitThenArchive ==
    /\ \/ /\ Goto("commit", "rename")
          /\ tables' = txn /\ txn' = Empty
          /\ UNCHANGED <<json, archive>>
       \/ /\ Goto("rename", "list")
          /\ \/ archive' = json /\ json' = None
             \/ UNCHANGED <<json, archive>>
          /\ tables' = Seeded(tables)
          /\ UNCHANGED txn
    /\ UNCHANGED <<backend, cache, latest, givenUp, counts>>

-----------------------------------------------------------------------------
(* Loading the store. *)

\* ensureLoaded of the JSON backend: without a file the seeded ledger is saved.
loadJson ==
    /\ backend = "json"
    /\ Goto("closed", "list")
    /\ json' = IF json = None THEN 0 ELSE json
    /\ UNCHANGED <<backend, archive, tables, txn, cache, latest, givenUp, counts>>

\* ensureLoaded of the store: the positions and then the journal come into
\* the maps; a backend without positions is seeded.
ensureLoaded ==
    /\ \/ /\ Goto("list", "loading")
          /\ tables' = IF backend = "sqlite" THEN Seeded(tables) ELSE tables
          /\ cache' = IF backend = "json" THEN json ELSE tables'.positions
       \/ /\ Goto("loading", "loaded")
          /\ UNCHANGED <<tables, cache>>
    /\ UNCHANGED <<backend, json, archive, txn, latest, givenUp, counts>>

-----------------------------------------------------------------------------
(* The store in use. *)

Store(v) ==
    IF backend = "json" THEN json' = v /\ UNCHANGED tables
    ELSE tables' = Holding(v) /\ UNCHANGED json

\* A transition: commitTransition and rememberProcessedDraw.
change ==
    /\ at = "loaded" /\ made < MaxChanges
    /\ made' = made + 1 /\ latest' = made + 1 /\ cache' = made + 1
    /\ Store(made + 1)
    /\ UNCHANGED <<backend, at, archive, txn, givenUp, resets, crashes>>

\* resetStore: the rows are deleted in one transaction and the database is
\* seeded after it; the JSON backend writes the seeded ledger.
reset ==
    /\ at = "loaded" /\ resets < MaxResets
    /\ resets' = resets + 1
    /\ latest' = 0 /\ cache' = 0
    /\ IF backend = "json" THEN json' = 0 /\ UNCHANGED <<at, tables>>
       ELSE at' = "reseed" /\ tables' = Empty /\ UNCHANGED json
    /\ UNCHANGED <<backend, archive, txn, givenUp, made, crashes>>

seedIfEmpty ==
    /\ Goto("reseed", "loaded")
    /\ tables' = Seeded(tables)
    /\ UNCHANGED <<backend, json, archive, txn, cache, latest, givenUp, counts>>

\* The process ends; the next one may have another DB_BACKEND.
Restart ==
    /\ crashes < MaxCrashes
    /\ crashes' = crashes + 1
    /\ backend' \in Backends
    /\ backend = "sqlite" /\ backend' = "json" => MaySwitchBack
    /\ at' = "closed" /\ txn' = Empty /\ cache' = None
    /\ givenUp' = (givenUp \/ at = "reseed")
    /\ UNCHANGED <<files, latest, made, resets>>

Opening ==
    \/ open \/ openRejected \/ readFile \/ insert \/ rollback
    \/ commitThenArchive \/ loadJson \/ ensureLoaded

Next == Opening \/ change \/ reset \/ seedIfEmpty \/ Restart

Spec == Init /\ [][Next]_vars

-----------------------------------------------------------------------------
\* The types of the state.
TypeOK ==
    LET Ledger == 0..MaxChanges  Held == Ledger \cup {None} IN
    /\ backend \in Backends
    /\ at \in {"closed", "rejected", "read", "begin", "receipts", "journal",
               "commit", "rename", "list", "loading", "loaded", "reseed"}
    /\ {json, archive, cache} \subseteq Held
    /\ \A t \in {tables, txn} :
         t \in [positions : Held, receipts : Ledger, journal : Ledger]
    /\ latest \in Ledger /\ made \in Ledger
    /\ givenUp \in BOOLEAN
    /\ resets \in 0..MaxResets /\ crashes \in 0..MaxCrashes

\* At no crash point do the committed rows hold positions without the receipts
\* and the journal that go with them: the import is all or nothing
\* (sqlite.ts:88-102).
ImportIsWhole == tables \in {Empty} \cup {Holding(v) : v \in 0..MaxChanges}

\* "Switching backends never loses state" (sqlite.ts:13): whatever process
\* was killed where, a store that has loaded serves the last change that
\* returned - as long as no import was given up (a JSON file that could not be
\* read or taken over is left aside for good) and no reset was cut short.
ServesLatest == at = "loaded" /\ ~givenUp => cache = latest

\* The same without the exceptions (sqlite.ts:12-13).
SwitchingLosesNothing == at = "loaded" => cache = latest
=============================================================================
