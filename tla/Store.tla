------------------------------- MODULE Store -------------------------------
(***************************************************************************)
(* The database of the engine and how it is opened: schema migrations, the *)
(* import of a state.json that an earlier build left, the mounts each      *)
(* project starts with, and the load of what the engine keeps in RAM.      *)
(* Every step is a transaction of its own or none at all, so the process   *)
(* may die, or a step may fail, between any two of them.                   *)
(*                                                                         *)
(* A table is a function from the ids that may ever exist to rows, None    *)
(* where there is no row.  The own memory of a project has the project's   *)
(* id; memories that are nobody's own are in MemoryMounts.                 *)
(***************************************************************************)
EXTENDS Integers, Sequences, FiniteSets

CONSTANTS
  Projects, Documents, Entries, Terms,   \* the ids rows may have
  Pairs,         \* language pairs
  Sources,       \* source texts of memory entries
  HashOf,        \* HashOf[src]: the hash of a source text after normalization
  Targets,       \* target texts
  TermSources, TermTargets,  \* source and target terms, as they were typed
  None,
  Legacy,        \* the tables state.json holds
  Migrations,    \* number of schema scripts of this build
  MaxFailures,   \* bound: transactions that fail
  MaxCrashes     \* bound: deaths of the process

VARIABLES
  disk,       \* the tables of the database
  header,     \* user_version and the flags of the meta table
  ram,        \* the tables the engine decides on
  index,      \* the fuzzy recall index: the entries it knows, by their source
  phase,      \* "closed", a step of the opening, "open", or "refused"
  legacyFile, \* "none", "json" (the next import would read it), "torn" (it cannot
              \* be parsed) or "backup"
  copies,     \* documents with an engine-managed copy of their file
  gone,       \* history: the rows and mounts of each table removed on purpose
  clean,      \* history: no write failed since the tables were loaded
  failures, crashes

storeVars ==
  <<disk, header, ram, index, phase, legacyFile, copies, gone, clean, failures, crashes>>

Opening == {"migrate", "import", "rename", "materialize", "load"}

RowOf(table, id) == table[id] # None

ProjectRows  == [pair : Pairs, archived : BOOLEAN, gated : BOOLEAN]
DocumentRows == [project : Projects, pair : Pairs]
EntryRows    == [memory : Projects, source : Sources, target : Targets]
IndexRows    == [memory : Projects, source : Sources]

\* The translations of an entry in the order they were added.
Translations == [term : TermTargets, forbidden : BOOLEAN]
TermRows     == [source : TermSources, translations : Seq(Translations)]

Tables ==
  [projects : [Projects -> ProjectRows \cup {None}],
   documents : [Documents -> DocumentRows \cup {None}],
   memories : [Projects -> Pairs \cup {None}],
   mounts : SUBSET (Projects \X Projects),          \* <<project, memory>>
   tm : [Entries -> EntryRows \cup {None}],
   terms : [Terms -> TermRows \cup {None}],
   termMounts : SUBSET Projects]                    \* of the one termbase

EmptyTables ==
  [projects |-> [p \in Projects |-> None], documents |-> [d \in Documents |-> None],
   memories |-> [p \in Projects |-> None], mounts |-> {},
   tm |-> [e \in Entries |-> None], terms |-> [t \in Terms |-> None], termMounts |-> {}]

\* What was removed from each table that the engine deletes from.
NothingGone == [documents |-> {}, memories |-> {}, mounts |-> {}, tm |-> {}, terms |-> {}]

\* The earlier build kept no memories and no mounts of any.
ASSUME StoreAssumption ==
  /\ Migrations \in Nat \ {0}
  /\ MaxFailures \in Nat /\ MaxCrashes \in Nat
  /\ None \notin ProjectRows /\ None \notin DocumentRows /\ None \notin Pairs
  /\ None \notin EntryRows /\ None \notin IndexRows /\ None \notin TermRows
  /\ Legacy \in Tables
  /\ Legacy.memories = EmptyTables.memories /\ Legacy.mounts = {}

SameKey(row, other) == row.memory = other.memory /\ HashOf[row.source] = HashOf[other.source]

\* The unique index tm_entries_by_memory_hash: a transaction that breaks it fails.
Fits(tables) ==
  \A e, f \in Entries :
    e # f /\ RowOf(tables.tm, e) /\ RowOf(tables.tm, f) => ~SameKey(tables.tm[e], tables.tm[f])

-----------------------------------------------------------------------------
(* What the engine loads: the identity tables, and the index rebuilt from   *)
(* one pass over the entries.                                               *)

Loaded(tables) ==
  [projects |-> tables.projects, documents |-> tables.documents,
   memories |-> tables.memories, mounts |-> tables.mounts, termMounts |-> tables.termMounts]

IndexOf(tables) ==
  [e \in Entries |-> IF RowOf(tables.tm, e)
                     THEN [memory |-> tables.tm[e].memory, source |-> tables.tm[e].source]
                     ELSE None]

-----------------------------------------------------------------------------
(* One transaction: all of it or, when it fails, nothing. *)

Commit(new) == Fits(new) /\ disk' = new /\ UNCHANGED failures

Fail == failures < MaxFailures /\ failures' = failures + 1 /\ UNCHANGED disk

Written(new) == Commit(new) /\ UNCHANGED clean

Refused == Fail /\ clean' = FALSE

-----------------------------------------------------------------------------
(* Opening *)

\* A database of a newer build is refused before anything is written.
Start ==
  /\ phase = "closed"
  /\ phase' = IF header.version > Migrations THEN "refused" ELSE "migrate"
  /\ UNCHANGED <<disk, header, ram, index, legacyFile, copies, gone, clean, failures, crashes>>

\* One script and the number of scripts applied, in one transaction.
Migrate ==
  /\ phase = "migrate"
  /\ IF header.version < Migrations
     THEN header' = [header EXCEPT !.version = @ + 1] /\ UNCHANGED phase
     ELSE phase' = "import" /\ UNCHANGED header
  /\ UNCHANGED <<disk, ram, index, legacyFile, copies, gone, clean, failures, crashes>>

\* Variant: a legacy file is taken as it is.
NotDeduped(tables) == {tables}

\* The legacy engine did not keep one entry per source: of the entries with one
\* key the newest stays.
Deduped(tables) ==
  LET rows == {e \in Entries : RowOf(tables.tm, e)}
  IN {[tables EXCEPT !.tm = [e \in Entries |-> IF e \in kept THEN @[e] ELSE None]] :
        kept \in {k \in SUBSET rows :
                    /\ \A e \in rows : \E f \in k : SameKey(tables.tm[e], tables.tm[f])
                    /\ \A e, f \in k : e # f => ~SameKey(tables.tm[e], tables.tm[f])}}

\* Variant: the import looks for the file only.
ImportedEveryTime == FALSE

\* The database was opened before, with or without a legacy file.
Imported == header.imported # "no"

Upserted(table, rows) ==
  [id \in DOMAIN table |-> IF rows[id] # None THEN rows[id] ELSE table[id]]

ImportLegacy ==
  /\ phase = "import"
  /\ \/ /\ Imported
        /\ phase' = "materialize" /\ UNCHANGED <<disk, header>>
     \/ /\ ~Imported /\ legacyFile = "torn"
        /\ phase' = "closed" /\ UNCHANGED <<disk, header>>
     \/ /\ ~Imported /\ legacyFile \notin {"json", "torn"}
        /\ header' = [header EXCEPT !.imported = "fresh"]
        /\ phase' = "materialize" /\ UNCHANGED disk
     \/ /\ ~Imported /\ legacyFile = "json"
        /\ \E state \in Deduped(Legacy) :
             LET new == [disk EXCEPT !.projects = Upserted(@, state.projects),
                                     !.documents = Upserted(@, state.documents),
                                     !.tm = Upserted(@, state.tm),
                                     !.terms = Upserted(@, state.terms),
                                     !.termMounts = @ \cup state.termMounts]
             IN IF Fits(new)
                THEN /\ disk' = new
                     /\ header' = [header EXCEPT !.imported = "imported"]
                     /\ phase' = "rename"
                ELSE phase' = "closed" /\ UNCHANGED <<disk, header>>
  /\ UNCHANGED <<ram, index, legacyFile, copies, gone, clean, failures, crashes>>

\* Best effort: a rename that fails leaves a file nobody reads again.
RenameLegacy ==
  /\ phase = "rename"
  /\ phase' = "materialize"
  /\ legacyFile' \in {"backup", "json"}
  /\ UNCHANGED <<disk, header, ram, index, copies, gone, clean, failures, crashes>>

Materialized == header.materialized

\* Once: every project without a mount gets its own memory, mounted.
Materialize ==
  /\ phase = "materialize"
  /\ phase' = "load"
  /\ LET bare == {p \in Projects : RowOf(disk.projects, p) /\ \A q \in Projects : <<p, q>> \notin disk.mounts}
     IN IF Materialized
        THEN UNCHANGED <<disk, header>>
        ELSE /\ disk' = [disk EXCEPT
                  !.memories = [p \in Projects |-> IF p \in bare /\ @[p] = None
                                                   THEN disk.projects[p].pair ELSE @[p]],
                  !.mounts = @ \cup {<<p, p>> : p \in bare}]
             /\ header' = [header EXCEPT !.materialized = TRUE]
  /\ UNCHANGED <<ram, index, legacyFile, copies, gone, clean, failures, crashes>>

Load ==
  /\ phase = "load"
  /\ phase' = "open"
  /\ ram' = Loaded(disk)
  /\ index' = IndexOf(disk)
  /\ clean' = TRUE
  /\ UNCHANGED <<disk, header, legacyFile, copies, gone, failures, crashes>>

\* A step of the opening fails: the process gives up and is started again.
OpenFails ==
  /\ phase \in Opening
  /\ Fail
  /\ phase' = "closed"
  /\ UNCHANGED <<header, ram, index, legacyFile, copies, gone, clean, crashes>>

\* What the process takes with it when it dies.
Dies ==
  /\ crashes < MaxCrashes
  /\ crashes' = crashes + 1
  /\ phase' = "closed"
  /\ ram' = Loaded(EmptyTables)
  /\ index' = IndexOf(EmptyTables)

Crash ==
  /\ phase \in Opening \cup {"open"}
  /\ Dies
  /\ UNCHANGED <<disk, header, legacyFile, copies, gone, clean, failures>>

\* Somebody puts an old state.json into the directory.
StaleFile ==
  /\ Imported /\ legacyFile # "json"
  /\ legacyFile' = "json"
  /\ UNCHANGED <<disk, header, ram, index, phase, copies, gone, clean, failures, crashes>>

OpenStep == Start \/ Migrate \/ ImportLegacy \/ RenameLegacy \/ Materialize \/ Load

StoreNext == OpenStep \/ OpenFails \/ Crash \/ StaleFile

\* A new directory, one with a legacy file that can be read or not, a database of an
\* earlier build, which has neither memories nor mounts, and one of a newer build.
StoreInit ==
  /\ \/ /\ disk = EmptyTables
        /\ header = [version |-> 0, imported |-> "no", materialized |-> FALSE]
        /\ legacyFile \in {"none", "json", "torn"}
     \/ /\ disk \in Deduped(Legacy)
        /\ header \in [version : {Migrations - 1}, imported : {"fresh", "imported"},
                       materialized : {FALSE}]
        /\ legacyFile \in {"none", "json"}
     \/ /\ disk = EmptyTables
        /\ header = [version |-> Migrations + 1, imported |-> "fresh", materialized |-> TRUE]
        /\ legacyFile = "none"
  /\ ram = Loaded(EmptyTables)
  /\ index = IndexOf(EmptyTables)
  /\ phase = "closed"
  /\ copies = {d \in Documents : \/ RowOf(disk.documents, d)
                                 \/ legacyFile = "json" /\ RowOf(Legacy.documents, d)}
  /\ gone = NothingGone /\ clean = TRUE
  /\ failures = 0 /\ crashes = 0
=============================================================================
