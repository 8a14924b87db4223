-------------------------- MODULE SqliteOpenProofs --------------------------
(***************************************************************************)
(* What the database holds and what a loaded store serves, for any number  *)
(* of changes, resets and restarts.                                        *)
(***************************************************************************)
EXTENDS SqliteOpen, TLAPS

Ledger == 0..MaxChanges
Rows == [positions : Ledger \cup {None}, receipts : Ledger, journal : Ledger]

Importing == {"begin", "receipts", "journal", "commit"}

\* The import takes its rows from the file it read, into an empty database.
ImportInv ==
    /\ at = "read" \/ at \in Importing => tables = Empty
    /\ at \in Importing => json # None
    /\ at \in {"receipts", "journal", "commit"} => txn.positions = json
    /\ at \in {"journal", "commit"} => txn.receipts = json
    /\ at = "commit" => txn.journal = json

\* Inductive, and enough for ImportIsWhole.
WholeInv == TypeOK /\ ImportIsWhole /\ ImportInv

\* What the next start finds when no rows are there: the JSON file, if there
\* is one, is the latest ledger; if there is none, nothing was ever changed.
FileIsLatest == latest = IF json = None THEN 0 ELSE json

\* With the JSON backend the database is still empty, and memory follows the
\* file once it is loaded.
JsonServes ==
    /\ tables = Empty /\ FileIsLatest
    /\ at \in {"closed", "rejected", "list", "loading", "loaded"}
    /\ at \in {"list", "loading", "loaded"} => json # None
    /\ at \in {"loading", "loaded"} => cache = json

\* With sqlite the rows, once there are any, are the latest ledger; until then
\* the file is, also while it is taken over.
SqliteServes ==
    /\ at \in {"rename", "list", "loading", "loaded"} => tables # Empty
    /\ at = "reseed" => tables = Empty /\ latest = 0 /\ cache = 0
    /\ tables # Empty => tables = Holding(latest)
    /\ tables = Empty /\ at # "reseed" => FileIsLatest
    /\ at \in {"loading", "loaded"} => cache = latest

\* As long as no import was given up and no reset cut short.
ServeInv == ~givenUp => IF backend = "json" THEN JsonServes ELSE SqliteServes

-----------------------------------------------------------------------------
LEMMA LedgerFacts ==
    /\ 0 \in Ledger /\ None \notin Ledger
    /\ Empty \in Rows /\ Empty.positions = None
    /\ \A v \in Ledger : Holding(v) \in Rows /\ Holding(v).positions = v
    /\ \A v \in Ledger : Holding(v) # Empty
  BY OpenAssumption DEF Ledger, Rows, None, Empty, Holding

\* What the type invariant says of the rows, in the terms of this module.
LEMMA TypeFacts ==
    ASSUME TypeOK
    PROVE  /\ tables \in Rows /\ txn \in Rows
           /\ {json, archive, cache} \subseteq Ledger \cup {None}
           /\ latest \in Ledger /\ made \in Ledger
  BY DEF TypeOK, Ledger, Rows

\* Rows are told apart by their fields.
LEMMA WholeRows ==
    ASSUME NEW t \in Rows, NEW v \in Ledger,
           t.positions = v, t.receipts = v, t.journal = v
    PROVE  t = Holding(v)
  BY DEF Rows, Holding

\* Seeding fills an empty database and leaves a whole one alone.
LEMMA SeededFacts ==
    /\ Seeded(Empty) = Holding(0)
    /\ \A v \in Ledger : Seeded(Holding(v)) = Holding(v)
<1>1. ASSUME NEW t \in Rows
      PROVE  /\ t.positions # None => Seeded(t) = t
             /\ t.positions = None /\ t.receipts = 0 /\ t.journal = 0 =>
                  /\ Seeded(t) \in Rows
                  /\ Seeded(t).positions = 0 /\ Seeded(t).receipts = 0
                  /\ Seeded(t).journal = 0
  BY LedgerFacts DEF Rows, Seeded
<1>2. Empty \in Rows /\ Empty.positions = None /\ Empty.receipts = 0
      /\ Empty.journal = 0
  BY LedgerFacts DEF Empty
<1>3. Seeded(Empty) = Holding(0)
  BY <1>1, <1>2, WholeRows, LedgerFacts
<1>4. \A v \in Ledger : Seeded(Holding(v)) = Holding(v)
  BY <1>1, LedgerFacts
<1> QED BY <1>3, <1>4

-----------------------------------------------------------------------------
(* The rows are whole. *)

LEMMA WholeInit == Init => WholeInv
<1> SUFFICES ASSUME Init PROVE WholeInv
  OBVIOUS
<1>1. TypeOK
  <2>1. tables \in Rows /\ txn \in Rows /\ {json, archive, cache} = {None}
    BY LedgerFacts DEF Init
  <2>2. /\ latest \in 0..MaxChanges /\ made \in 0..MaxChanges
        /\ resets \in 0..MaxResets /\ crashes \in 0..MaxCrashes
    BY OpenAssumption DEF Init
  <2>3. givenUp \in BOOLEAN /\ backend \in Backends /\ at = "closed"
    BY DEF Init
  <2> QED BY <2>1, <2>2, <2>3 DEF TypeOK, Ledger, Rows
<1>2. ImportIsWhole /\ ImportInv
  BY DEF Init, ImportIsWhole, ImportInv, Importing
<1> QED BY <1>1, <1>2 DEF WholeInv

\* Steps that only move on, or touch what the rows do not depend on.
LEMMA WholeQuiet ==
    ASSUME WholeInv, open \/ openRejected \/ loadJson \/ UNCHANGED vars
    PROVE  WholeInv'
<1> USE LedgerFacts, TypeFacts, OpenAssumption
<1> USE DEF WholeInv, ImportInv, ImportIsWhole, TypeOK, Ledger, Rows, Importing
<1>1. CASE open
  <2>1. tables.positions = None => tables = Empty
    OBVIOUS
  <2> QED BY <1>1, <2>1 DEF open, Goto, files, counts
<1>2. CASE openRejected
  BY <1>2 DEF openRejected, Goto, files, counts
<1>3. CASE loadJson
  BY <1>3 DEF loadJson, Goto, counts
<1>4. CASE UNCHANGED vars
  BY <1>4 DEF vars, files, counts
<1> QED BY <1>1, <1>2, <1>3, <1>4

\* Seeding keeps rows whole, and typed.
LEMMA SeededWhole ==
    ASSUME WholeInv
    PROVE  /\ Seeded(tables) \in Rows
           /\ Seeded(tables) \in {Empty} \cup {Holding(v) : v \in 0..MaxChanges}
  BY SeededFacts, LedgerFacts DEF WholeInv, ImportIsWhole, Ledger

LEMMA WholeImport ==
    ASSUME WholeInv, readFile \/ insert \/ rollback \/ commitThenArchive
    PROVE  WholeInv'
<1> USE LedgerFacts, TypeFacts, OpenAssumption, SeededWhole
<1> USE DEF WholeInv, ImportInv, ImportIsWhole, TypeOK, Ledger, Rows, Importing
<1>1. CASE readFile
  BY <1>1 DEF readFile, Goto, counts
<1>2. CASE insert
  BY <1>2 DEF insert, Goto, files, counts
<1>3. CASE rollback
  BY <1>3 DEF rollback, counts
<1>4. CASE commitThenArchive
  <2>1. at = "commit" => txn = Holding(json) /\ json \in Ledger
    BY WholeRows
  <2> QED BY <1>4, <2>1 DEF commitThenArchive, Goto, counts
<1> QED BY <1>1, <1>2, <1>3, <1>4

LEMMA WholeUse ==
    ASSUME WholeInv, ensureLoaded \/ change \/ reset \/ seedIfEmpty \/ Restart
    PROVE  WholeInv'
<1> USE LedgerFacts, TypeFacts, OpenAssumption, SeededWhole
<1> USE DEF WholeInv, ImportInv, ImportIsWhole, TypeOK, Ledger, Rows, Importing
<1>1. CASE ensureLoaded
  BY <1>1 DEF ensureLoaded, Goto, counts
<1>2. CASE change
  BY <1>2 DEF change, Store
<1>3. CASE reset
  BY <1>3 DEF reset
<1>4. CASE seedIfEmpty
  BY <1>4 DEF seedIfEmpty, Goto, counts
<1>5. CASE Restart
  BY <1>5 DEF Restart, files
<1> QED BY <1>1, <1>2, <1>3, <1>4, <1>5

LEMMA WholeStep == WholeInv /\ [Next]_vars => WholeInv'
  BY WholeQuiet, WholeImport, WholeUse DEF Next, Opening

\* The import is all or nothing wherever the process is killed
\* (sqlite.ts:88-102).
THEOREM ImportIsWholeHolds == Spec => []ImportIsWhole
<1>1. WholeInv => ImportIsWhole
  BY DEF WholeInv
<1> QED BY WholeInit, WholeStep, <1>1, PTL DEF Spec

-----------------------------------------------------------------------------
(* A loaded store serves the last change. *)

LEMMA ServeInit == Init => ServeInv
  BY LedgerFacts, OpenAssumption
  DEF Init, ServeInv, JsonServes, SqliteServes, FileIsLatest, None

\* The rows, while they are whole, are told from an empty database by their
\* positions.
LEMMA RowFacts ==
    ASSUME WholeInv
    PROVE  /\ tables = Empty <=> tables.positions = None
           /\ tables.positions = None \/ tables = Holding(tables.positions)
           /\ tables # Empty => Seeded(tables) = tables
           /\ Seeded(tables) # Empty
           /\ tables = Empty => Seeded(tables) = Holding(0)
           /\ txn.positions # None \/ at # "commit"
  BY LedgerFacts, SeededFacts
  DEF WholeInv, ImportIsWhole, ImportInv, Ledger, Importing

LEMMA ServeOpening ==
    ASSUME WholeInv, ServeInv, Opening
    PROVE  ServeInv'
<1> USE LedgerFacts, TypeFacts, RowFacts, SeededFacts
<1> USE DEF WholeInv, ServeInv, JsonServes, SqliteServes, FileIsLatest
<1>1. CASE open
  BY <1>1 DEF open, Goto, files, counts
<1>2. CASE openRejected
  BY <1>2 DEF openRejected, Goto, files, counts
<1>3. CASE readFile
  BY <1>3 DEF readFile, Goto, counts, ImportInv
<1>4. CASE insert
  BY <1>4 DEF insert, Goto, files, counts
<1>5. CASE rollback
  BY <1>5 DEF rollback, counts
<1>6. CASE commitThenArchive
  <2>1. at = "commit" => txn = Holding(json) /\ json \in Ledger /\ txn # Empty
    BY WholeRows DEF ImportInv, Importing
  <2>2. at = "commit" => tables = Empty
    BY DEF ImportInv, Importing
  <2> QED BY <1>6, <2>1, <2>2 DEF commitThenArchive, Goto, counts
<1>7. CASE loadJson
  BY <1>7 DEF loadJson, Goto, counts
<1>8. CASE ensureLoaded
  <2>1. \A v \in Ledger : Holding(v).positions = v
    BY LedgerFacts
  <2> QED BY <1>8, <2>1 DEF ensureLoaded, Goto, counts
<1> QED BY <1>1, <1>2, <1>3, <1>4, <1>5, <1>6, <1>7, <1>8 DEF Opening

LEMMA ServeUse ==
    ASSUME ~MaySwitchBack, WholeInv, ServeInv,
           change \/ reset \/ seedIfEmpty \/ Restart \/ UNCHANGED vars
    PROVE  ServeInv'
<1> USE LedgerFacts, TypeFacts, RowFacts, SeededFacts, OpenAssumption
<1> USE DEF WholeInv, ServeInv, JsonServes, SqliteServes, FileIsLatest
<1>1. CASE change
  <2> DEFINE v == made + 1
  <2>1. v \in Ledger /\ v # None /\ Holding(v) # Empty
    <3>1. v \in Ledger
      BY <1>1, OpenAssumption DEF change, Ledger
    <3> QED BY <3>1
  <2>2. /\ at' = at /\ at = "loaded" /\ latest' = v /\ cache' = v
        /\ backend' = backend /\ givenUp' = givenUp
        /\ IF backend = "json" THEN json' = v /\ tables' = tables
           ELSE tables' = Holding(v) /\ json' = json
    BY <1>1 DEF change, Store
  <2> HIDE DEF v
  <2> QED BY <2>1, <2>2
<1>2. CASE reset
  BY <1>2 DEF reset, Ledger, None
<1>3. CASE seedIfEmpty
  BY <1>3 DEF seedIfEmpty, Goto, counts
<1>4. CASE Restart
  BY <1>4 DEF Restart, files, TypeOK
<1>5. CASE UNCHANGED vars
  BY <1>5 DEF vars, files, counts
<1> QED BY <1>1, <1>2, <1>3, <1>4, <1>5

\* "Switching backends never loses state" (sqlite.ts:13), with its exceptions:
\* going from JSON to sqlite and not back, a loaded store serves the last
\* change that returned unless an import was given up or a reset cut short.
THEOREM ServesLatestHolds ==
    ASSUME ~MaySwitchBack PROVE Spec => []ServesLatest
<1>1. WholeInv /\ ServeInv /\ [Next]_vars => WholeInv' /\ ServeInv'
  BY WholeStep, ServeOpening, ServeUse DEF Next
<1>2. ServeInv => ServesLatest
  BY DEF ServeInv, JsonServes, SqliteServes, FileIsLatest, ServesLatest
<1> QED BY WholeInit, ServeInit, <1>1, <1>2, PTL DEF Spec
=============================================================================
