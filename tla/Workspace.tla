----------------------------- MODULE Workspace -----------------------------
(***************************************************************************)
(* Projects, documents, memories and termbases as the engine keeps them:   *)
(* the database, the tables in RAM it decides on, the fuzzy index, and the *)
(* managed copies of imported files.  Some handlers write the database     *)
(* first and some change RAM first; the process may die at any moment and  *)
(* a write may fail.  How mounts are ordered and which one is writable is  *)
(* in MemoryMounts, what rows of a document hold in SegmentGrid.           *)
(***************************************************************************)
EXTENDS Termbase

CONSTANT TmFiles   \* memory files to import: sequences of [source, target]

ASSUME WorkspaceAssumption ==
  IsFiniteSet(Entries) /\ TmFiles \subseteq Seq([source : Sources, target : Targets])

workspaceVars == <<storeVars, writes>>

ProjectIds == {p \in Projects : RowOf(ram.projects, p)}
MemoryIds  == {m \in Projects : RowOf(ram.memories, m)}

EntriesOf(m) == {e \in Entries : RowOf(disk.tm, e) /\ disk.tm[e].memory = m}

\* Ids that were never used: there is no row and none was removed.
New(ids, table) == {i \in ids : ~RowOf(table, i)}

-----------------------------------------------------------------------------
(* Projects *)

ProjectCreate ==
  \E p \in New(Projects, ram.projects), pair \in Pairs :
    LET with(tables) ==
          [tables EXCEPT !.projects[p] = [pair |-> pair, archived |-> FALSE, gated |-> FALSE],
                         !.memories[p] = pair, !.mounts = @ \cup {<<p, p>>}]
    IN /\ Called
       /\ \/ Written(with(disk)) /\ ram' = with(ram)
          \/ Refused /\ UNCHANGED ram
       /\ UNCHANGED <<index, copies, gone>>

\* A handler that changes the RAM row first: a failed write leaves it changed.
SaveProject(p, row) ==
  /\ Called
  /\ ram' = [ram EXCEPT !.projects[p] = row]
  /\ Written([disk EXCEPT !.projects[p] = row]) \/ Refused
  /\ UNCHANGED <<index, copies, gone>>

ProjectArchive ==
  \E p \in ProjectIds, archived \in BOOLEAN :
    /\ ram.projects[p].archived # archived
    /\ SaveProject(p, [ram.projects[p] EXCEPT !.archived = archived])

QaProfileUpdate ==
  \E p \in ProjectIds, gated \in BOOLEAN :
    /\ ram.projects[p].gated # gated
    /\ SaveProject(p, [ram.projects[p] EXCEPT !.gated = gated])

\* Variant: documents do not pin the pair.
PairIsFreeOfEntries(p) ==
  /\ \A m \in Projects : <<p, m>> \in ram.mounts => EntriesOf(m) = {}
  /\ p \notin ram.termMounts

\* The language pair may change while nothing was translated with it.
PairIsFree(p) ==
  /\ \A d \in Documents : RowOf(ram.documents, d) => ram.documents[d].project # p
  /\ \A m \in Projects : <<p, m>> \in ram.mounts => EntriesOf(m) = {}
  /\ p \notin ram.termMounts

\* Mounted memories nobody else mounts follow the project to its new pair.
Followed(p, pair) ==
  [m \in Projects |->
     IF /\ <<p, m>> \in ram.mounts /\ RowOf(ram.memories, m)
        /\ \A q \in Projects \ {p} : <<q, m>> \notin ram.mounts
     THEN pair ELSE ram.memories[m]]

ProjectUpdate ==
  \E p \in ProjectIds, pair \in Pairs :
    LET row == [ram.projects[p] EXCEPT !.pair = pair]
        changed == {m \in Projects : Followed(p, pair)[m] # ram.memories[m]}
    IN /\ ram.projects[p].pair # pair /\ PairIsFree(p)
       /\ Called
       /\ \/ /\ ram' = [ram EXCEPT !.projects[p] = row, !.memories = Followed(p, pair)]
             /\ \/ Written([disk EXCEPT !.projects[p] = row,
                     !.memories = [m \in Projects |-> IF m \in changed THEN pair ELSE @[m]]])
                \/ Refused
          \* the count of a memory's entries cannot be read: memories after it stay
          \/ \E done \in SUBSET changed :
               /\ ram' = [ram EXCEPT !.projects[p] = row,
                     !.memories = [m \in Projects |-> IF m \in done THEN pair ELSE @[m]]]
               /\ Refused
       /\ UNCHANGED <<index, copies, gone>>

-----------------------------------------------------------------------------
(* Documents *)

\* The copy is made before the transaction; a death or a failure after it
\* leaves a copy without a document.
DocumentImport ==
  \E p \in ProjectIds, d \in New(Documents, ram.documents) \ (copies \cup gone.documents) :
    LET row == [project |-> p, pair |-> ram.projects[p].pair]
    IN /\ Called
       /\ copies' = copies \cup {d}
       /\ \/ /\ Written([disk EXCEPT !.documents[d] = row])
             /\ ram' = [ram EXCEPT !.documents[d] = row]
             /\ UNCHANGED <<index, phase, crashes>>
          \/ Refused /\ UNCHANGED <<ram, index, phase, crashes>>
          \/ Dies /\ UNCHANGED <<disk, clean, failures>>
       /\ UNCHANGED gone

\* Variant: the copy goes before the rows, whether they go or not.
CopyGoesFirst(d) == copies' \in {copies \ {d}, copies}

\* The copy goes last, if it can be deleted, and only after the commit.
CopyGoes(d) ==
  copies' \in IF RowOf(disk'.documents, d) THEN {copies} ELSE {copies \ {d}, copies}

DocumentRemove ==
  \E d \in Documents :
    /\ RowOf(ram.documents, d)
    /\ Called
    /\ \/ /\ Written([disk EXCEPT !.documents[d] = None])
          /\ gone' = [gone EXCEPT !.documents = @ \cup {d}]
          /\ \/ ram' = [ram EXCEPT !.documents[d] = None] /\ UNCHANGED <<index, phase, crashes>>
             \/ Dies
       \/ Refused /\ UNCHANGED <<ram, index, phase, crashes, gone>>
    /\ CopyGoes(d)

-----------------------------------------------------------------------------
(* Memories and their mounts, and the mounts of the termbase *)

MemoryAttach ==
  \E p \in ProjectIds, m \in MemoryIds :
    LET with(tables) == [tables EXCEPT !.mounts = @ \cup {<<p, m>>}]
    IN /\ <<p, m>> \notin ram.mounts
       /\ Called
       /\ \/ Written(with(disk)) /\ ram' = with(ram) /\ gone' = [gone EXCEPT !.mounts = @ \ {<<p, m>>}]
          \/ Refused /\ UNCHANGED <<ram, gone>>
       /\ UNCHANGED <<index, copies>>

MemoryDetach ==
  \E p \in ProjectIds, m \in MemoryIds :
    /\ <<p, m>> \in ram.mounts
    /\ Called
    /\ ram' = [ram EXCEPT !.mounts = @ \ {<<p, m>>}]
    /\ \/ /\ Written([disk EXCEPT !.mounts = @ \ {<<p, m>>}])
          /\ gone' = [gone EXCEPT !.mounts = @ \cup {<<p, m>>}]
       \/ Refused /\ UNCHANGED gone
    /\ UNCHANGED <<index, copies>>

\* With its entries, when the caller says so.
MemoryDelete ==
  \E m \in MemoryIds :
    LET rows == EntriesOf(m)
    IN /\ \A p \in Projects : <<p, m>> \notin ram.mounts
       /\ Called
       /\ \/ /\ Written([disk EXCEPT !.memories[m] = None,
                           !.tm = [e \in Entries |-> IF e \in rows THEN None ELSE @[e]]])
             /\ ram' = [ram EXCEPT !.memories[m] = None]
             /\ index' = [e \in Entries |->
                            IF index[e] # None /\ index[e].memory = m THEN None ELSE index[e]]
             /\ gone' = [gone EXCEPT !.tm = @ \cup rows, !.memories = @ \cup {m}]
          \/ Refused /\ UNCHANGED <<ram, index, gone>>
       /\ UNCHANGED copies

TermbaseAttach ==
  \E p \in ProjectIds \ ram.termMounts :
    /\ Called
    /\ \/ /\ Written([disk EXCEPT !.termMounts = @ \cup {p}])
          /\ ram' = [ram EXCEPT !.termMounts = @ \cup {p}]
       \/ Refused /\ UNCHANGED ram
    /\ UNCHANGED <<index, copies, gone>>

TermbaseDetach ==
  \E p \in ProjectIds \cap ram.termMounts :
    /\ Called
    /\ ram' = [ram EXCEPT !.termMounts = @ \ {p}]
    /\ Written([disk EXCEPT !.termMounts = @ \ {p}]) \/ Refused
    /\ UNCHANGED <<index, copies, gone>>

-----------------------------------------------------------------------------
(* Memory entries *)

Fresh(entries) == New(Entries, entries) \ gone.tm

Keyed(m, src) == {e \in EntriesOf(m) : HashOf[disk.tm[e].source] = HashOf[src]}

\* One unit of a batch, after the ones before it: the entry of its key gets the
\* target and keeps its source; a new entry enters the index at once.
UpsertTmEntry(batch, m, unit) ==
  LET same == {e \in Entries : RowOf(batch.tm, e) /\ batch.tm[e].memory = m
                                 /\ HashOf[batch.tm[e].source] = HashOf[unit.source]}
      e == CHOOSE e \in IF same # {} THEN same ELSE Fresh(batch.tm) : TRUE
  IN IF same # {}
     THEN [batch EXCEPT !.tm[e].target = unit.target]
     ELSE [batch EXCEPT !.tm[e] = [memory |-> m, source |-> unit.source, target |-> unit.target],
                        !.index[e] = [memory |-> m, source |-> unit.source]]

Batch(m, file) ==
  FoldLeft(LAMBDA batch, unit : UpsertTmEntry(batch, m, unit),
           [tm |-> disk.tm, index |-> index], file)

\* A confirmed row is the case of one unit.
TmImport ==
  \E p \in ProjectIds, m \in MemoryIds, file \in TmFiles :
    /\ <<p, m>> \in ram.mounts
    /\ Cardinality(Fresh(disk.tm)) >= Len(file)
    /\ Called
    /\ index' = Batch(m, file).index
    /\ Written([disk EXCEPT !.tm = Batch(m, file).tm]) \/ Refused
    /\ UNCHANGED <<ram, copies, gone>>

\* Variant: the index keeps the source the entry was found by.
ReindexedNever(e, src) == index

Reindexed(e, src) ==
  IF disk.tm[e].source = src THEN index
  ELSE [index EXCEPT ![e] = [memory |-> disk.tm[e].memory, source |-> src]]

TmUpdate ==
  \E e \in {f \in Entries : RowOf(disk.tm, f)}, src \in Sources, target \in Targets :
    /\ Keyed(disk.tm[e].memory, src) \subseteq {e}
    /\ Called
    /\ index' = Reindexed(e, src)
    /\ Written([disk EXCEPT !.tm[e].source = src, !.tm[e].target = target]) \/ Refused
    /\ UNCHANGED <<ram, copies, gone>>

TmDelete ==
  \E e \in {f \in Entries : RowOf(disk.tm, f)} :
    /\ Called
    /\ index' = [index EXCEPT ![e] = None]
    /\ \/ Written([disk EXCEPT !.tm[e] = None]) /\ gone' = [gone EXCEPT !.tm = @ \cup {e}]
       \/ Refused /\ UNCHANGED gone
    /\ UNCHANGED <<ram, copies>>

-----------------------------------------------------------------------------
(* The whole engine *)

Handler ==
  \/ ProjectCreate \/ ProjectArchive \/ QaProfileUpdate \/ ProjectUpdate
  \/ MemoryAttach \/ MemoryDetach \/ MemoryDelete \/ TermbaseAttach \/ TermbaseDetach
  \/ TmImport \/ TmUpdate \/ TmDelete

Init == StoreInit /\ writes = 0

Next ==
  \/ StoreNext /\ UNCHANGED writes
  \/ TermNext
  \/ Handler /\ UNCHANGED <<phase, crashes, header, legacyFile>>
  \/ (DocumentImport \/ DocumentRemove) /\ UNCHANGED <<header, legacyFile>>

\* A process that was started does not hang while it opens the database.
Spec == Init /\ [][Next]_workspaceVars /\ WF_workspaceVars(OpenStep /\ UNCHANGED writes)

-----------------------------------------------------------------------------
(* Properties *)

TypeOK ==
  /\ disk \in Tables /\ writes \in 0..MaxWrites
  /\ phase \in Opening \cup {"closed", "open", "refused"}
  /\ header.version \in 0..Migrations + 1
  /\ copies \subseteq Documents /\ clean \in BOOLEAN
  /\ failures \in 0..MaxFailures /\ crashes \in 0..MaxCrashes

(* As long as every write succeeded, what the engine decides on and recalls *)
(* by is what a restart would load, whichever of the two a handler changes  *)
(* first.                                                                   *)
RamIsStored ==
  phase = "open" /\ clean => ram = Loaded(disk) /\ index = IndexOf(disk)

(* Documents, entries, terms and mounts somebody removed stay removed: no   *)
(* restart, no leftover state.json and no backfill of mounts brings them    *)
(* back.                                                                    *)
NothingComesBack ==
  /\ \A d \in gone.documents : ~RowOf(disk.documents, d)
  /\ \A m \in gone.memories : ~RowOf(disk.memories, m)
  /\ \A e \in gone.tm : ~RowOf(disk.tm, e)
  /\ \A t \in gone.terms : ~RowOf(disk.terms, t)
  /\ gone.mounts \cap disk.mounts = {}

(* A document the database lists can be exported: its managed copy is there *)
(* whatever failed or died while it was imported or another was removed.    *)
EveryDocumentHasItsCopy ==
  \A d \in Documents : RowOf(disk.documents, d) => d \in copies

(* As long as no write failed, the rows of a document were cut and          *)
(* translated for the language pair its project has.                        *)
PairsFit ==
  failures = 0 =>
    \A d \in Documents : RowOf(disk.documents, d) =>
      disk.documents[d].pair = disk.projects[disk.documents[d].project].pair

(* Whatever an earlier build, a failed step or a death left behind, the     *)
(* database of this build or an older one opens in the end, but for a       *)
(* state.json that cannot be parsed, which the engine refuses to pass over. *)
StoreOpens ==
  (phase = "closed" /\ header.version <= Migrations /\ legacyFile # "torn")
    ~> (phase = "open")
=============================================================================
