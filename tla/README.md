# A TLA+ model of the Translunar engine

Translunar is a desktop tool for translators: an Electron application whose main
process supervises one engine process (Rust, `crates/tl-engine`) and talks to it in
JSON lines over stdio. The engine owns every row, memory, QA issue and AI run; the
renderer owns none. This directory models the parts of it that decide whether a
translator's work is safe, checks the models with TLC on small instances, and proves
the central invariants with TLAPS for every value of the constants.

Source paths below are relative to the repository (`src/` in `PROJECT.json`);
`engine/` abbreviates `crates/tl-engine/src/`.

Contents: [the system](#1-the-system), [modules](#2-modules-and-code),
[runs](#3-runs), [fairness](#4-fairness), [proofs](#5-proofs),
[where code and documents part](#6-where-code-and-documents-part),
[what is not modelled](#7-what-is-not-modelled), [plan](#8-plan).

## 1. The system

### Processes and threads

| Who | Where | How it interacts |
| --- | --- | --- |
| renderer | `apps/desktop/src/renderer` | sends requests through the preload bridge, keeps the rows it was answered |
| main process | `apps/desktop/src/main/engine-supervisor.ts` | one JavaScript thread: spawns engines, matches answers to calls by id, restarts and replaces engines |
| engine loop | `engine/main.rs`, `Engine::dispatch` | one thread: handles a request, or an event of a worker, at a time, each in at most a few SQLite transactions |
| agent coordinator and pool | `engine/agent.rs` | a thread per run and up to `AGENT_SEGMENT_WORKERS` threads that call a provider; they reach the engine only through its event channel and a cancel flag |
| harness worker | `engine/harness.rs` | a thread per conversation; asks the engine for tools through the event channel and blocks on a reply channel |
| assist worker | `engine/assist.rs` | a thread and one event per request |

Because the engine loop handles one thing at a time and a handler re-reads its rows
from the store, a handler is atomic for other requests. What is concurrent is
everything around it: a client edits from an answer that any number of handlers may
have made stale, worker answers arrive seconds after the row they are for was read,
a cancel crosses a terminal event, a transaction fails between two halves of a
handler, and the engine itself may die at any point and be replaced.

### Components

| Component | State | Operations | What is hard | What makes it correct |
| --- | --- | --- | --- | --- |
| Segment grid (`engine/lib.rs`, `store.rs`) | the `segments` table; the revisions clients hold | list, update, updateSource, replace, confirm (with propagation), lock, pretranslate | lost updates from stale views, lost answers, automation against people | a base revision names its content; locked rows are read-only; automation writes over nobody; state, stamp and text agree |
| TM reads and learning (`assets.rs`) | `tm_entries`, the working memory, enabled mounts | upsert on confirm, ranked matches, pretranslate | entries, sources and stamps change after each other | an entry is a text somebody confirmed or put there; an unedited exact stamp tells the truth |
| QA (`qacheck.rs`, `crates/tl-qa`) | `qa_issues` | `qa.run`, segment refresh, waive, restore, fix, export gate | issues lag behind texts and settings; passes of different scope fold into one table | findings of confirmed rows are on record; a waiver holds; the gate lets no unjudged error pass |
| Memories and mounts (`memories.rs`) | memories, `memory_mounts` in RAM and in the store | create, attach, detach, update, delete, restart | RAM is changed before a transaction that may fail, and a restart loads the store | one working memory at most, contiguous priorities, no orphans |
| Batch agent (`lib.rs`, `agent.rs`) | `agent_runs` (RAM), threads, channel | start in three modes, draft events, cancel, review, prune, document removal | answers race people, cancels race ends, runs race runs | people win; a row belongs to one run; nothing is left behind; runs end |
| Agent harness (`harness.rs`, `lib.rs`) | `harness_runs` (RAM), worker, channels | start, turns, tools, cancel, end, prune | a worker blocks on the engine; events of dead runs | a reply for each request; turns are counted right; runs end |
| Engine supervisor (`engine-supervisor.ts`, `main.rs`) | child, status, pending calls, restart budget and timer | start, handshake, request, timeout, exit, backoff, relaunch, stop | late frames, crossing exits, relaunch during backoff | calls settle with their own answers; one engine is wanted; stop is final |
| Store (`store.rs`) | the database, its version and flags, `state.json` of an earlier build | open: check, migrate, import, rename, backfill, load; `apply` | a death or a failure between any two steps; legacy data without the rules of today | it opens in the end; nothing removed comes back |
| Projects, documents and their copies (`lib.rs`, `import.rs`) | projects, documents in RAM and in the store; a managed file per document | create, update, archive, QA profile, import, remove | RAM before or after the write; files outside the transaction | RAM is what a restart loads; a document has its copy and the languages of its project |
| TM writes (`assets.rs`) | `tm_entries`, the recall index in RAM | import, update, delete | the index is changed before the write | the index is the table |
| Termbases (`assets.rs`) | `term_entries`, mounts | add, update, delete, import, attach, detach | each writer compares normalized terms on its own | one entry per term, one translation per term |
| Document filters (`crates/tl-filter-*`), segmentation (`crates/tl-segmentation`), `export.rs` | none between calls; the destination and a staged sibling | import, cut into rows, merge, export | ranges, escapes, shared strings, runs and tags are taken apart and put together | what was translated is in the file, nothing else changed, a failing export touches nothing |
| AI assist (`assist.rs`, `lib.rs`) | profiles, `assist_runs` (RAM), workers | configure, add, remove; start, cancel, finish, prune | an answer against a cancel, profiles removed under requests | a canceled request shows nothing; the default resolves; requests end |
| AI connectors (`crates/tl-ai/src/connector.rs`) | a registry of leases, flags | attach, replace, detach; invoke | owners change while calls run; connectors send anything | one well-formed stream; no answer of a replaced owner |
| Providers, prompts, editor suggestions, wire types, renderer | none, or presentation | pure conversions, HTTP | - | not modelled |

`PROJECT.json` lists every component with its status, and under `hazards` the places
in the code where these difficulties bite, with the properties that watch them.

## 2. Modules and code

```
 SegmentRow ── QaRules ── SegmentGrid ── QaIssues ── AiDrafts        WorkingMemory
     │                        │             │           │                 ▲ refines
     │                 MCSegmentGrid              MCAiDrafts         MemoryMounts ── MemoryMounts_proofs
     │                                        Segments_proofs             └ MCMemoryMounts
     └── AgentRuns ── AgentRuns_proofs, MCAgentRuns

 Store ── Termbase ── Workspace ── Workspace_proofs, MCWorkspace

 Texts ── Segmenting ── RangeFilters ── OfficeFilters ── XliffFilter ── Documents ── MCDocuments
                                                              │              │
                                                       Filters_proofs ── Documents_proofs
 HarnessRuns, Connectors ── Providers_proofs
 EngineSupervisor, AssistRuns ── Requests_proofs
```

An arrow-less line is EXTENDS. The modules with a name in `MC...` hold the
definitions that give constants their values in the runs. Operators whose comment
starts with "Variant" are deliberate mistakes, each defined just before the operator
it distorts; they are used to see that a property notices them and are never part of
a specification.

**Abstractions used everywhere.** A text, a source, a hash, a memory or an id is a
model value. `Blank` stands for every target that is empty after trimming, the only
thing the code asks of a text by itself; `HashOf` is the engine's hash of the
normalised source, so two sources may share a hash. Timestamps are left out: where
the code orders by them (ties between matches, the oldest run to prune) any order is
possible. A refused request changes nothing and is not an action.

### SegmentRow, QaRules, SegmentGrid

`SegmentRow` is one row and the rules all writers share: `Retarget` (a write of a
target: `segment_update`, `segment_replace`, `qa_fix_apply`), `OriginAfter`
(`apply_origin_rules`), `Fill` (propagation, pretranslation, AI drafts), the guards
`Fillable` and `Confirmable`, and `Upsert`, which is what the store keeps of a
written row: its conflict clause assigns target-side columns only.

`QaRules` has the rules by what they depend on: the text under the settings in force
(one table `Evidence` for all text rules; a setting is a QA profile together with the
attached termbases, `qacheck.rs:91`), the origin of a confirmed row (behavioural rules),
other rows (the consistency rules, with their groups). `Reconcile` is `fold_candidates`: it
opens, keeps waived, or resolves issues of evaluated rules.

`SegmentGrid` has one action per handler. The clients' knowledge is `view[c][s]`, the
last row client `c` was answered; `Commit` writes rows and either updates the view or
loses the answer. `segment.update` stores whatever stamp the client sends along, also
that of an exact match (`engine/lib.rs:1148`), and `TmImport`, `TmUpdate` and `TmDelete`
write entries that no confirm taught, which pretranslation stamps like any other
(`assets.rs:472`). `QaProfileUpdate` is every change of the settings, of which a confirm,
a fix or a run takes note and rows confirmed before do not. Two variables are history:
`learned` has the pairs somebody vouched for, and how (a confirm of what was on the
screen, an import or edit of an entry, an insert stamped as exact), `judged` the settings
each row was last judged under.

### QaIssues, AiDrafts

`QaIssues` adds `qa.run` (locked rows are outside it), waivers and restores by issue,
rule or row, engine corrections, and the export gate, whose run is stored whether or
not the gate opens. `AiDrafts` adds the writes of the AI, each with the guards its
own code has: auto and manual drafts, the turbo gate and confirm, and `write_draft` of
the harness. Here a writer may act at any time; when it really may is the subject of
the next two modules, so what holds here holds with them.

### WorkingMemory, MemoryMounts

`MemoryMounts` keeps the mounts twice, in RAM (`mounts`) and in the store (`stored`).
Create and attach write the store first; detach and update change RAM first, and when
their transaction fails the request is refused and RAM keeps the change. `Restart` loads
the store, at any moment and whatever has failed before. Two history variables follow
what that can lead to. A project is `late` when a transaction of it failed since the last
start: its RAM is ahead, each copy is sound by itself, and a restart falls back to the
older one. It is `torn` when a later transaction, computed from RAM, was written on top
of the store that lacks the failed one, and the two no longer match (or a memory was
deleted that the store still mounts): then the store may hold two working memories, a
gap or a mount of nothing, and the next restart loads them.

`WorkingMemory` is the promise the rest of the engine builds on: confirms of a project
are learned by its working memory alone, a request appoints one only while there is
none, and a memory is not deleted while a project works in it. It has a `kept` copy that
requests may fail to reach and to which a restart falls back. The refinement mapping is
`Working` and `Kept`, the writable mounts of RAM and store.

### AgentRuns

The plan of a run, the pool (`queued`, `inFlight`, `sent`), the terminal event, and
the run's record. The channel is first in first out and the coordinator joins the
workers before it sends the terminal event, so all answers precede it (`Terminal`
waits for `sent = {}`), while answers among themselves come in any order. People's
writes are reduced to `Type`, `Confirm` and `Lock` without revisions, which allows
more than the base-revision guard does. The gate and the writable memory are
nondeterministic inputs here; `AiDrafts` and `MemoryMounts` decide them.

### HarnessRuns

A worker is at a turn, in a provider call, or blocked on the reply to a tool call.
`Handle` is the engine's handling of one event: it sends tool results back, counts
turns, and sets the status. The `late` counter is a history variable for tools that
ran after a cancel.

### EngineSupervisor

JavaScript runs one callback at a time, so an action is a callback with the promise
continuations that run before the next one: a call, a timer, a frame, an exit, a
relaunch, stop. Each child has an inbox (`stdin`) and an outbox (`stdout`) and may die
at any time. What a replaced child still sends is dropped because its listeners are
removed (`heard`), which is also why its exit is never handled.

### Store, Termbase, Workspace

`Store` keeps the database as a record of tables (`disk`), what the engine loads of it
(`ram`), the recall index (`index`), and the steps of opening as phases, each a
transaction of its own (`Migrate`, `ImportLegacy`, `Materialize`) or none
(`RenameLegacy`, `Load`); `OpenFails` and `Crash` may come at any of them, and
`StaleFile` is a user who copies an old `state.json` back. `StoreInit` is a new
directory, one with a legacy file that can be parsed or not, a database of an earlier
build and one of a newer.
`Termbase` has the term calls, which read and write the database only.
`Workspace` has the other calls, each with the order its code has: `ProjectCreate`,
`DocumentImport`, `MemoryAttach` write first; `SaveProject`, `ProjectUpdate`,
`MemoryDetach`, `TermbaseDetach` change RAM first, `TmImport`, `TmUpdate`, `TmDelete`
the index. A refused write keeps what was changed before it and clears the history
variable `clean`. `copies` are the files of imported documents; import and removal may
die between the file and the row, the only calls that touch both. `gone` remembers
what was removed on purpose. Mount priorities and writability are in `MemoryMounts`,
the content of rows in `SegmentGrid`.

### Texts, Segmenting, the filters, Documents

A text is a sequence of lexemes: a word, a space, a line break, a bit of markup, an
entity. That is as fine as the conversions need: `Decoded` and `Escaped` map lexemes,
`Trim` and `Blank` look at white ones, `Spliced` replaces ranges. `Segmenting` cuts a
unit into rows with the gaps between them (`BuildSegments`) and joins them again
(`MergeForExport`). `RangeFilters` has TXT, Markdown and HTML, which find ranges of
the file and splice translations into them; `OfficeFilters` has paragraphs, cells and
shared strings made of nodes (DOCX, PPTX, XLSX and both bilingual tables), where the
first part stands for all that are always imported (in a DOCX the body, headers, footers
and notes);
`XliffFilter` lays a translation over the text slots between inline tags.
`Documents` is the state machine: import into an empty workspace, edits of rows, and
an export that may find a file at its destination, stage, fail at each step, and
rename. Reading the exported file with the same filter again is how the properties
look at it.

### AssistRuns

Profiles in the order they were added, the default one, runs with their cancel flag,
the worker and its stream of pieces, and the events on their way to the engine loop.
`Outcome` is where a cancel that lost the race still wins. `ended` is the order of the
runs' last update, by which `Pruned` drops the oldest.

### Connectors

`entries` and `leases` are the registry, changed under its lock in one step each; a
lease is only ever switched off. A call holds a lease and passes `Invoke`, any events
`Emit`, the connector's return or failure, `Finish` (the end is passed on) and
`Confirm` (the last look at the flags); registry and cancel flag may change between
any two of these. `sink` is the validating sink, `heard` what the consumer got. The
engine of this commit does not route its provider calls through the registry; the
module is the library as its own callers and tests use it.

## 3. Runs

A run with the outcome "violation" shows a disagreement between the code and what the
repository says of it; section 6 describes them. Every property of a passing run has
a mutant in `PROJECT.json`: a plausible mistake in a modelled operator that makes the
run fail on that very property.

| Run | Instance | Properties | What it shows |
| --- | --- | --- | --- |
| `Grid` | 1 client whose answers may be lost, 2 rows in 2 documents imported blank, 1 text to type or insert with no stamp, an exact or a fuzzy one, 2 replaces, 1 source to rewrite into, 2 sources, 1 memory with a file to import and an edit of an entry, 3 texts, 3 revisions | `RevisionNamesContent`, `LearnedPairOnScreen`, `ExactStampIsHonest`, `AutomationNeverOverwrites` | nobody overwrites a text unseen; entries, stamps and texts stay in step through confirms, replaces, pretranslation, inserted suggestions and entries that come, change and go |
| `Ai` | 1 client, 2 rows of one source, 2 texts and AI answers, 2 settings, 3 revisions, all QA requests, all AI writers | `ConfirmedFindingsOnRecord`, `WaiverHolds`, `TurboConfirmsClean`, `LockedIssuesUntouched`, `GateLetsNothingSlip` | drafts and changed settings that come at any moment leave the record, the waivers and the export gate right |
| `Mounts` | 1 project, 3 memories, 1 failing transaction, restarts at any moment | `SoundUnlessTorn`, `OnlyRestartsSpoil`, `ImplementsWorkingMemory` | a failure alone spoils nothing, nor does a restart after it; it takes a transaction on top of the failed one and a restart; every step, failed or not, is one of the abstract working memory |
| `Agent` | 2 runs, manual or turbo, 2 rows of a document of which people write one (`Edited`), a pool of 2 threads, answers good, broken or failed, 4 revisions | `ExclusiveWork`, `NothingLeftBehind`, `OutcomesAreFinal`, `PeopleWin`, `RunsEnd` | no row is worked on twice, no answer or proposal is lost, automation gives way to people, runs end |
| `Harness` | 2 conversations, 2 documents, up to 2 turns | `ReplyPerRequest`, `CancelStopsTools`, `RunsEnd` | requests and replies pair up, nothing waits for ever |
| `Supervisor` | 1 call, 1 automatic restart per launch, 1 relaunch, hence up to 4 engines | `AnswersMatchCalls`, `OneWantedEngine`, `CallsSettle`, `EnginesEnd` | every call settles with its own answer, whatever dies when |
| `Workspace` | 2 projects, 1 document, 2 entries, 2 terms, 2 language pairs, a legacy file with duplicates, 2 migrations, 1 failing write, 1 death, 3 calls | `RamIsStored`, `NothingComesBack`, `EveryDocumentHasItsCopy`, `PairsFit`, `OneEntryPerTerm`, `StoreOpens` | the order of RAM, index, file and transaction in every call, through opening, deaths and failures |
| `Assist` | 2 rows, 2 requests, 2 profiles, 4 profile calls | `CancelWins`, `DefaultIsUsable`, `EveryRequestEnds` | answers, cancels and profile changes in any order |
| `Connectors` | 2 ids, a builtin owner and 2 plugin versions, 1 call, 3 leases, 4 events | `ActiveIsAttached`, `StreamIsHonest`, `AnswersComeFromAttached` | a consumer is protected from the connector and from changes of the registry |
| `Documents` | 14 files of 9 formats, 2 modes, 2 sets of break rules, 3 typed texts, 2 edits, 2 exports | `TranslationsLand`, `NothingElseChanges`, `RowsCoverUnits`, `OutputOnlyOnSuccess` | translations come back from the exported file and nothing else changed; failures touch no file |
| `GridSourceAnswer` | 1 client, 2 rows, 2 sources | `AnsweredSourceIsStored` | violation |
| `XliffEmptyTarget` | 1 XLIFF file with `<target/>` | `OnlyTargetsChange` | violation |

**Bounds, and why they are enough for the question asked.** `MaxRevision` bounds the
writes of a row: three revisions let a client read, be overtaken, and write (in
`Agent` four, of which the runs use three and a person one). The `auto` mode is the
`turbo` mode without a writable memory, which is one of its choices. One
client whose answers may be lost stands for two: a write it never heard of is the
write of somebody else, and the theorem `RevisionGuards` has any number of clients.
Two rows of one source are what propagation and consistency need; in `Grid` they are in
two documents, so that a pretranslation takes one and not the other. Two sources with a
hash each let a row, an entry and a stamp part by a rewritten source or an edited entry;
its one memory is written by confirms, imports and edits and can be switched off for
reading and writing, and which of two memories wins a tie is left to the theorems, which
have any number of them. In `Ai` one setting finds fault with the one text and the other
with the other, so a change of the settings between draft, gate, confirm, run and export
always matters. Three memories are the fewest whose priorities can have a gap in the middle,
and one failing transaction already parts RAM and store. Two agent runs are what
exclusion and pruning need, with `History = 0` so that pruning happens at all; a pool
of two threads lets two answers overtake each other. Two
turns reach the correction turn, the second unparseable reply and the exhausted
budget. One restart and one relaunch make four engines, enough for a frame, a timer
or an exit of any earlier one to meet a later one. `Score = 100` for every pair is
the interesting case of similarity: a fuzzy match that ties with an exact one.

In `Workspace` the legacy file has a project, a document, a term and two entries of
one key, and three calls after it are enough to remove one of them, restart and look
again, or to create a second project that shares a memory and change the language of
the first; one failure and one death can be in any of the calls or steps. `Assist` and
`Connectors` need one more of each than a race has: two requests for one row and
profile, two versions of a plugin and a lease of each. In `Documents` each file is the
smallest that has the cases of its format: a byte order mark, fences and list markers,
entities and quoted attributes, formats that differ inside a paragraph, tracked
deletions, a shared string used twice, formulas, nested inline tags, a target that is
there already. Two edits translate two rows of one unit or one row twice, and two
exports meet the file the first one wrote.

In `AgentRuns` people stop writing a row two revisions below the bound, so that the
bound never keeps a run from writing (`Writable`); elsewhere a handler at the bound
is simply not taken.

**Symmetry** is used in `Mounts` and `Ai`, whose properties are invariants and action
properties that treat the permuted values alike. Runs with liveness properties use none.
`Ai` has a `VIEW` without the history variable `learned`, which none of its guards and
properties read, and a state constraint: its memory stays enabled for reading, since what
pretranslation reads is the subject of `Grid`.

**Deadlock** is checked in `Grid` and `Ai`. `CHECK_DEADLOCK FALSE` stands where the
system may really stop: when all run ids of the model are used and reviewed, when all
memories are deleted, when the supervisor has been stopped, when a database of a newer
build was refused, and in `Assist`, `Connectors`, `Workspace` and `Documents` when the
bound on calls is reached.

## 4. Fairness

Five runs need it.

* `AgentRuns`: weak fairness of each run's workers and of the handling of its events.
  A worker is a thread; the provider call it waits in ends by its HTTP timeout or by
  the cancel flag (`engine/agent.rs:128`); the engine loop takes the next event from
  its channel for as long as the process lives (`engine/main.rs:113`). Nothing makes a
  person review, cancel or write.
* `HarnessRuns`: the same for the worker and the engine loop. That a worker blocked on
  a tool reply goes on is not assumed: it is what `ReplyPerRequest` and `RunsEnd` say.
* `EngineSupervisor`: timers fire, the exit of a dead child is delivered, a signalled
  process ends. Nothing obliges an engine to answer, to die or to stay alive, and
  nothing obliges the user to relaunch or stop.
* `Workspace`: a process that was started goes on opening its database
  (`engine/store.rs:400`), and one that died or gave up is started again, which is what
  the supervisor does. Failures and deaths are bounded, so `StoreOpens` says that no
  state they leave behind is one the opening cannot get out of.
* `AssistRuns`: a worker makes its call, the call ends by its stream, an error or the
  timeout of the profile (`crates/tl-ai/src/lib.rs:868`), and the engine loop takes the
  next event. A provider that sends pieces for ever is cut off; nothing makes a person
  cancel.

## 5. Proofs

`tlapm` checks every theorem below for all values of the constants that meet the
`ASSUME`s of the modules, which say no more than that tables are total, sets of ids
and values are disjoint from their special values, bounds are numbers, ids that are
searched or counted are finitely many, what a translator types is empty or not blank,
files hold what a parser of their format yields (`IsDocument`: lists of lexemes, of
parts, of cells), and a `state.json` (`Legacy`) has tables of the
right type and no memories or mounts, which its build did not have.

| Module | Theorems | Argument |
| --- | --- | --- |
| `Segments_proofs` (the grid) | `TypeCorrect`, `RevisionGuards`, `StateInStep`, `FindingsInStep`, `LockedIsReadOnly`, `MemoriesLearnConfirmed`, `StampsAreHonest`, `AutomationFillsBlanks` | the invariant `IInv` is `TypeOK`, `RevInv`, states in step with targets and `ConfirmedFindingsOnRecord`; `LearnInv` is about the memories and the stamps together |
| `Segments_proofs` (QA) | `QaSafety`, `QaFindingsInStep`, `AcceptedStaysAccepted` | `IInv` again, now under runs, waivers and fixes; `WaiverHolds` from it |
| `Segments_proofs` (the AI writers) | `AiSafety`, `AiStateInStep`, `AiRevisionGuards`, `AiFindingsInStep`, `AiKeepsAccepted`, `TurboIsSelective`, `LockedIssuesStay`, `GateIsTight` | `IInv` with blank drafts; a draft is a transaction nobody is answered |
| `MemoryMounts_proofs` | `MountsSafety`, `RestartIsTransparent`, `MountsStaySound`, `HandlersKeepSound`, `MountsImplement` | `MInv`: types, RAM equals store unless late or torn, and both copies of a project that is not torn are `Sound`: one writable mount, contiguous priorities, no orphan |
| `AgentRuns_proofs` | `WorkIsExclusive`, `RunsAreAccounted`, `DocumentsOutliveRuns`, `PeopleComeFirst`, `DecisionsStand` | `IInv` of that module; with `OneStage` and `HeldIsOpen` for `DecisionsStand` |
| `Requests_proofs` (assist) | `CancelAlwaysWins`, `OneRequestInFlight`, `DefaultsAreUsable` | `CancelInv`: a run that goes on has no result yet; `ProfilesInv`: ids of profiles are unique |
| `Providers_proofs` (the harness) | `TypeCorrect`, `OneReplyPerRequest`, `CancelStops`, `EventsMeetTheirRun`, `OneConversation`, `TurnsHonest` | `IInv`: for each run `Sound`, and no two running conversations on a document |
| `Providers_proofs` (the connectors) | `LeasesFollowTheRegistry`, `AnswersAreOfAttached`, `StreamsAreHonest` | `RegistryInv`: an id resolves to a lease of its own; `CallsInv`: leases are never forgotten; `HeardInv`: what was heard is what the sink took |
| `Workspace_proofs` | `TypeCorrect`, `CopiesStay`, `RamFollows`, `RemovedStays`, `PairsStay`, `TermsStaySingle` | one lemma per handler says what it writes; `TypeInv`, `ImportInv`, `CopyInv`, `RamInv`, `GoneRows` and `OwnInv`, `PairInv`, `TermInv` |
| `Requests_proofs` (the supervisor) | `TypeCorrect`, `AnswersMeetTheirCalls`, `OneEngineIsWanted`, `StatusStaysHonest` | `IInv`: children are counted (`Launched`), handshakes are one per child (`HandshakesFit`), frames are about the request of their id (`IdsFit`), what runs and was not told to go is the current child (`Wanted`) |
| `Filters_proofs` | `PiecesAreTheUnit`, `RenderedReads` | a cut is counted place by place (`Piecewise`), and so are the slots of a translation (`Through`) |
| `Documents_proofs` (import) | `RowsCover` | `RowsInv`: the copy is a document of its format, and the rows are those its units are cut into, but for what people typed |
| `Documents_proofs` (export) | `OutputIsReplacedWhole`, `ExportAlways`, `NothingElseMoves`, `TranslationsReturn`, `PlainTextReturns` | `ExportInv`: what is staged or left as output was built from rows that meet `RowsInv`; `PastInv`: what is in their targets came with the file or was typed |

*Grid.* `RevisionNamesContent` is not inductive: it says that a view with the current
revision shows the current row, and a write that raised the revision to one an old
view already has would break it. `RevInv` adds that no view is ahead of its row, and
that a view at the row's revision agrees with it in every column the store keeps.
`ConfirmedFindingsOnRecord` needs that the only steps that leave a row confirmed keep
its text, and that a confirm and the store write see the same row; the findings of the
row the handler built are those of the row stored because no segment rule reads the
source column (`Upsert`), and the settings they were found under are those `judged`
remembers. `LockedRowUntouched` needs no invariant but the types.
`LearnedPairOnScreen` and `ExactStampIsHonest` are one invariant, `LearnInv`: a
propagation or a pretranslation stamps a row from an entry, so the stamp is as honest as
the entry was, and a stamp outlives the entry because `learned` only grows. An entry is
honest because somebody put it there (`Put`), or because of `RevInv`: the text a confirm
teaches is the text in the store, which is the one the client was answered. `Honest` says
of the rows of a transaction what each handler has to show for `CommitHonest`: a `Fill`
claims an exact match only for the row's own hash, a `Retarget` with a client's exact
stamp has the client as its voucher, and one without never claims it, also when the text
is restored (`OriginAfter`). Neither theorem restricts the stamps, files and edits.
`AutomationNeverOverwrites`
needs only that `Duplicates` and pretranslation look for `Fillable` rows.

*QA.* The step of a run needs that `Found` includes `SegmentFindings` and that a
locked row keeps its issues together with its text. A fix or a fresh refresh uses
`Reconcile`: what is found is open or waived afterwards, and stays waived if it was.

*AI writers.* The same lemmas serve three specifications, because `AiDrafts` extends
`QaIssues`, which extends `SegmentGrid`. A draft is a `Commit` no client is answered
(`StoreCommits`), and turbo is a `Commit` of one row or, with a confirm, of the row and
its duplicates (`TurboWrites`). `IInv(loose)` has a parameter for the one thing that
differs: with `loose` a draft may be blank, as `write_draft` stores it. So `AiSafety` is
about any answers, and `AiStateInStep` about answers that are not blank. `TurboIsSelective` rests on
`GateHolds`: the gate judges the draft before it is confirmed, and the findings of the
confirmed row are the same except for the rule about unedited AI drafts, which the
theorem takes to be no error, as by default. `GateIsTight` needs that what the rules
find is in the range that `Blocking` looks through, and this from the invariant, as a
confirmed row has a target.

*Mounts.* The theorems hold for failures and restarts in any order; nothing is assumed
of when the engine restarts. That a project has one working memory is not inductive over
RAM alone, since a restart replaces RAM by the store, and not over the store alone, since
a transaction is computed from RAM. `MInv` therefore says of both copies that they are
`Sound` as long as the project is not torn. A handler makes a sound table of a sound one
(`Remount`, one lemma per handler); if its transaction goes through, the store either has
that very table or the project is torn from now on, and if it fails the store keeps the
sound one it had. `Sound` is one formula because its parts need each other: a numbering
is one of the mounts that are there, and a mount is no orphan because a delete looks at
RAM. `RestartLosesNothing` is part of it: what `Apply` upserts and deletes turns the old
table into the new one when RAM and store were equal. `OnlyRestartsSpoil` is the half
that also holds of torn projects: RAM, once sound, stays so until a restart.

That priorities are contiguous is about counting: n mounts have distinct numbers of n places, so
every place has one (`NumberingFills`, from the theorems about injections of finite
sets). Sorting by priority gives such a numbering with ties or without
(`PositionsNumber`), and moving one mount of a numbering gives another (`MovedNumbers`).

`MountsImplement` maps the writable mounts of RAM to `working` and those of the store to
`kept`. Each handler's new table keeps the writable mounts of the old one, takes the role
from one, or gives it to one when no other has it, which is a `Rewrite`, a `Demote` or a
`Promote`, with a transaction that writes at least the row of that mount or fails
(`RemountPersists`); a memory is deleted only when nothing in RAM mounts it, which is a
`Forget`, a confirm is a `Learn`, and a restart is a `Restart`.

*Agent.* `ExclusiveWork` follows from: a run is running until its terminal event is
handled (`RunningUntilDone`), so a thread's rows belong to a running run; the rows a
run holds are in its document (`HeldInDocument`); a document has at most one running
run (`OneRunPerDocument`). `NothingLeftBehind` adds that a joined pool has empty hands
(`JoinedIsStopped`), that a planned row without outcome is still held unless the run
was cut short by a cancel (`OpenIsHeld`), and that a run ready for review has none
(`ReviewedIsClosed`); the document of a running run exists because of the guard of
`document_remove` (`RunningDocumentExists`). `PeopleWin` needs no invariant: every path
by which a run writes a row looks at the row in the same step. `OutcomesAreFinal` needs
that an answer is for a row without outcome: a row is in one stage of the pool and has
one answer (`OneStage`), and what is held is open (`HeldIsOpen`).

*Assist.* `CancelWins` is not inductive: a cancel that finds a running run with a result
would break it. `NoEarlyResult` adds that there is none, because a result is only put
into a run together with its end (`Outcome`). `OneInFlight` needs the guard of a new
request (`Free`) and that pruning and the end of a run only take runs away.
`DefaultIsUsable` breaks if an id is there twice and the heir is looked for after one
was removed, so `ProfilesInv` has that ids are unique and that without profiles there is
no default.

*Harness.* None of the four run properties is inductive, because each counts what is on
one of the two channels. `Sound` says of one run what its record, its thread and the
two channels may hold together: a run that is not running has no thread and nothing on
the way (`Outlives`), the end of a conversation and a tool request are the last event
of their thread (`EndsLast`), a waiting thread has its request or its result on the way
(`OneReply`), the turns reported, on the way, in progress and left add up to the budget
as long as the thread lives (`BudgetKept`), and a tool runs late only if its request
was on the way when the cancel came (`LateOnce`). A step of a thread appends at most two
events and a step of the engine takes the first, so the proofs turn on how often an
event occurs in a list with one more or one less (`OneMore`, `OneLess`).

*Workspace.* A handler writes two or three tables in one or another order with RAM, so
each has a lemma that says which tables of the database, of RAM and of the history it
changes and how (`ProjectCreateWrites` to `TermbaseImportWrites`), and the invariants
are proved from those. `CopiesStay` needs how far the opening is (`ImportInv`) and, until
the old file is imported, that its documents have their copies (`CopyInv`). `RamFollows`
adds to `RamIsStored` that without a failed write nothing has parted (`RamInv`); the
index after a batch is compared with the table entry by entry. `NothingComesBack` is not
inductive for memories and mounts: the backfill of `materialize_project_tms` makes them
for every project without one. `OwnInv` says why it brings none back: it finds only
projects it knows nothing of, and of those nothing was removed. `PairsStay` and
`TermsStaySingle` are about the file of an earlier build as well and assume that it was
in order (`LegacyFits`: its documents have projects of their pair; `LegacySingle`: one
entry per term); the file in the `Workspace` run is.

Imports of memories and termbases are folds over a file of any length. The induction
theorems of the library take a predicate as a parameter, which the provers cannot
instantiate; `Ascent` takes the set of places where the fact holds instead and is proved
by counting (a gap in that set would give an injection of a finite set into a smaller
one). `FoldExists` turns a fold into the sequence of its intermediate results, and
`BatchKeeps` and `MergedKeeps` go along it.

*Supervisor.* `AnswersMatchCalls` says nothing of frames that are still in a pipe;
`IdsFit` does, on either pipe of any child: a frame with the id of a waiting call is
about that call's request, and every id in use is below the next one, so that a new call
cannot meet an old frame. `OneWantedEngine` needs that a restart is scheduled only when
there is no child (`Wanted`), which `handleExit` and `relaunch` keep and a restart that
fires relies on. `Launched` counts: children are numbered in the order they are spawned,
and there are no more than launches times one plus the budget, a scheduled restart
included; without it `Start` could name a child the model does not have.
`StatusIsHonest` needs that a handshake waits at most once for a child and only for one
that was spawned (`HandshakesFit`): otherwise the new child of a relaunch could be
reported ready by an entry of an old one.

*Connectors.* `ActiveIsAttached` needs to know that the lease an id resolves to is a
lease of that id (`EntriesFit`): without it, detaching one id could take the lease of
another. New leases are numbered from a sequence of a set (`SetToSeq`), which has one
place for each id because the set is finite (`OrderOfSet`); one lemma,
`ExchangeKeepsRegistry`, covers attaching and replacing. `AnswersComeFromAttached` then
follows from the last look at the flag of the lease. `StreamIsHonest` speaks of a call
whose end was heard; `HeardInv` of every call: its consumer heard `Stream` of what the
sink took, one more event for each the sink admits (`EventHeard`), and the end only when
the result agrees with the sink.

*Documents.* `RowsCoverUnits` compares what the rows say with what the file says, and the
rows come out of folds within folds, of data of any length. `PiecesAreTheUnit` is the
heart of it: a paragraph is cut at ranges that lie in order and inside it
(`ParagraphsCover`, `SentencesCover`), a range is trimmed to its core, and the gap before
a core is the white space between it and the last one (`CoresJoin`), so the gaps and
pieces, one after the other, are the text up to its last core (`Piecewise`). From there
`OwnRowsAreThePieces` finds the pieces of one unit again among the rows of all, which
needs that no two units have the same path. That, and that their texts are lexemes, is
proved of each of the nine formats (`FileUnitsAre` and a lemma for each: the ranges of
TXT, Markdown and HTML start at different places, an attribute of HTML has an end, the
parts, cells and rows of an office file are numbered). `RowsInv` then says that an edit
changes only targets. Nothing here is recursive for the prover: a sorted or flattened
sequence is the one counting gives (`InOrderSorts`, `FlattenHasBlocks`), and a fold is
the sequence of its results (`FoldExists`). `OutputOnlyOnSuccess` follows from the order
in which `Export` builds, stages and renames.

Neither `NothingElseChanges` nor `TranslationsLand` is inductive: both compare an output
with rows that may have been edited since. `ExportInv` says of the staged file and of
the output that some rows meeting `RowsInv` made it, and that people typed texts of the
alphabet into them; so each property is one about `WrittenFile` for any document and any
rows of it. `MergeIs` says what `MergeForExport` asks of a filter: one text for each unit
with a translation, at the path of that unit, over the alphabet (`AskedIs`).

`NothingElseMoves` is about the six formats that lay out their units themselves. A
filter rewrites texts between other nodes, so its output has the same `Bones`
(`BonesKept`): in an office paragraph the first text node takes the translation and the
others lose theirs, in a workbook a cell gets a new index of the shared strings, in a
table the second cell is rewritten, in XLIFF the tags of the source are shared out over
the translation.

`TranslationsReturn` goes on to read the output again (`WrittenLands`, with a lemma for
each format): a unit a text was asked for reads as that text, every other reads as before, and the units
are the same ones at the same paths, because a paragraph, cell or row that had text
still has some. For XLIFF the text is first put between the tags: their places rise and
lie inside the translation, the rest of it follows the last tag, and reading drops the
tags again (`RenderedReads`). The theorem has the hypothesis `Returns`, of which each
part is needed, since the code loses translations without it (section 6):

* DOCX: the main part, or the target cells of a bilingual table, have no tabs;
* bilingual tables: no translation can turn the first row into a header (`HeaderSafe`);
* XLIFF: no unit has an empty target element, and what people type are characters, and
  not the tags and entities the model writes for them (`Clean`).

PPTX and XLSX need none. The files `GoodFiles` of the `Documents` run meet all of them, as do its
texts.

`PlainTextReturns` says both of TXT, where a unit is a range of the text itself and an
export splices translations over the ranges, so nothing tells the reader where a unit
was but blank lines. The paragraphs of a text are the only ranges that begin and end
with a character, hold no blank line, have one between any two, and leave no character
outside (`AreParas`, `ParasUnique`). `PlacesWeave` says what a splice leaves: the texts
in order, each at its place, and between two the gap there was (`Woven`); the places of
the texts are then the paragraphs of the new text (`WovenParas`), and its gaps are those
of the old one, which is `NothingElseChanges`. What is asked of the filter is one
paragraph: the rows of a unit are asked for with the gaps between them, which are white
space of the unit and have no blank line because the unit has none (`CutTexts`,
`ParasJoin`). That needs `PastInv`, since `RowsInv` lets a row hold any text of the
alphabet, and a target must be one that somebody typed. The hypothesis is that a typed
text that is not blank is one paragraph without white space at its ends and does not
begin with the byte order mark (`FitsIn`); section 6 says what happens otherwise. The
texts of the `Documents` run meet it.

Only model-checked: all liveness and `ENABLED` (beyond the prover), and
`TranslationsLand` and `NothingElseChanges` for Markdown and HTML. Their units are
found by looking for prefixes, fences and tags in the text itself; that an export leaves
each of them where the filter finds it again would have to be proved of every text
around them. The `Documents` run checks them on files of these formats that hold each
construct.
`OneRequestInFlight`, `LockedIsReadOnly`, `DocumentsOutliveRuns`,
`StatusStaysHonest`, `AiStateInStep`, `RestartIsTransparent` and `TypeCorrect` are proved and no longer repeated by a run.

## 6. Where code and documents part

With a run and a finding:

* `segment.updateSource` answers a rewritten source that the store never keeps
  (`GridSourceAnswer`; `engine/lib.rs:1221`, `engine/store.rs:1417`).
* A translation of an XLIFF unit with `<target/>` is written beside the element and is
  lost when the file is read again (`XliffEmptyTarget`;
  `crates/tl-filter-xliff/src/lib.rs:786`).

Met while modelling, in the models as the code has them, without a run of their own:

* `memory.detach` and `memory.update` leave RAM changed when their write fails
  (`engine/memories.rs:161`, `:257`). When a detach of the working memory fails, another
  memory is attached and promoted and the engine restarts, the project has two writable
  mounts, while `memories.rs:8` and `docs/prd/s3-multi-tm.md:62` say that at most one
  is: `Mounts` finds this when its invariant is asked of torn projects too.
  `SoundUnlessTorn` says how far the claim does hold, and `OnlyRestartsSpoil` what holds
  of torn projects.
* `write_draft` computes the QA issues of its draft and drops them
  (`HarnessDraftOnRecord` of `AiDrafts` fails; `engine/lib.rs:2970`), while `lib.rs:2898`
  and `docs/agent-harness.md:70` say they are refreshed in the same transaction.
* After `segment.updateSource` a client holds the rewritten source and a confirm teaches
  the memory the stored one, a pair that client was never shown. `LearnedPairOnScreen`
  therefore takes the target from the client's answer and the source from the store;
  with both from the answer `Grid` finds it violated after a list, an update of the
  source and a confirm.
* An entry that was imported or edited by hand counts as an exact match like a confirmed
  one (`TmPretranslate`), and a client may stamp any text as exact (`SegmentUpdate`). An
  unedited exact stamp therefore says that somebody vouched for the text, and not that
  somebody confirmed it; `ExactStampIsHonest` is worded like that.
* A change of the QA profile or of a termbase leaves the issues of rows confirmed before
  it as they are until the next run (`QaProfileUpdate`); `ConfirmedFindingsOnRecord` is
  about the settings of a row's last pass, `GateLetsNothingSlip` about those in force.
* A `state.json` that cannot be parsed makes every start fail at the import, without a
  way out but to remove the file (`ImportLegacy`; `engine/store.rs:1131`). `StoreOpens`
  leaves it out.
* The order of `memory.detach`, RAM before the write, is also in `project.update`, `project.archive`,
  `qa.profile.update` and `termbase.detach`, and the index before the write in
  `tm.import`, `tm.update` and `tm.delete`. After a failed write RAM is ahead until the
  restart, and a repeated `project.archive` finds its work done and stores nothing
  (`engine/lib.rs:702`). `RamIsStored` and `PairsFit` are therefore about runs without
  a failed write.
* `memory.attach` compares no languages: detach a memory, change the project's pair,
  attach it again, and it serves entries of the old pair. `PairsFit` is about documents
  only.
* `tm.import` gives the entry of a key its new target and keeps the source of its first
  occurrence (`UpsertTmEntry`).
* A target the user empties is left out of an export, so a format with targets of its
  own keeps the old one (`MergeForExport`; `Promised` has it so).
* DOCX reads a tab or a break inside a paragraph as text of the unit and leaves the
  element in place when it writes, so a translation that keeps the tab has it twice
  (`TabbedFiles` of `MCDocuments` break `TranslationsLand`). PPTX reads no breaks, and
  the words around one join.
* Typing `Target` into the first row of a bilingual table whose source reads `Source`
  makes that row the header of the exported file; its unit is gone when the file is read
  again (`Header`; the hypothesis `HeaderSafe` of `TranslationsReturn`).
* In Markdown a line that starts with a digit and has a dot and a space anywhere is
  protected up to there, whatever stands between (`PrefixEnd`), and the branch for
  indented code in front of it is never reached.
* The trailing white space of a unit is dropped after its last sentence
  (`Pieces`; `RowsCoverUnits` compares trimmed texts).
* A translation with a blank line in it becomes two units when an exported TXT file is
  read again, white space at its ends is lost, and a byte order mark at the head of the
  first one is taken for that of the file; `segment.update` refuses none of them (`FitsIn` is
  the hypothesis of `PlainTextReturns`).
* A bilingual table with one row that lacks a source or a target is refused as a whole
  (`TableUnits`).
* A provider stream that stops before its terminal event counts as a complete answer
  (`StreamEnds`; `crates/tl-ai/src/lib.rs:1141`).
* A builtin connector can be detached through a lease of it although
  `detach_source` refuses builtins (`DetachLease`, `DetachSource`).
* `qacheck.rs:29` says only `qa.run` resolves issues; the refresh of a confirm, a fix
  or an approved draft resolves them as well (`RefreshSegment`).
* Locking one of two inconsistent rows takes it out of the next run, which resolves
  the other row's issue (`Evaluated`, `ConsistencyFindings`; `qacheck.rs:80`).
* A cancel accepted after the coordinator read the flag leaves a run that completes
  (`Join`, `AgentCancel`, `Terminal`), while the assist handler lets a late cancel win.
* A run waiting for review whose document is removed can be neither decided nor pruned
  (`AgentReview` needs the document, `Prunable` needs no proposal;
  `engine/lib.rs:949`, `:2175`).
* `write_draft` accepts a blank text when the source has no placeholder: a blank draft
  with an origin (`HarnessWritable`). `StateMatchesTarget` is therefore proved of the
  handlers without the AI writers, and of all of them only for answers that are not
  blank (`AiStateInStep`); `Answers` of the `Ai` run has none.
* With `qa.unedited-ai-draft` raised to error by a project's profile, turbo confirms a
  row and leaves it with an open error: the gate looks at a draft and that rule fires
  on confirmed rows only (`GateClear`). `TurboConfirmsClean` is checked with the
  default severities.
* `relaunch()` spawns the new engine before the old one has exited
  (`engine-supervisor.ts:172`), while `docs/agent-harness.md:133` allows one process per
  data directory. `OneWantedEngine` says what does hold: all but one were signalled.

## 7. What is not modelled

ZIP containers, XML syntax, encodings, size limits and degradation reports of files;
the parsing of SRX rules; TMX, TBX and CSV texts; prompts and provider protocols; the
text rules of QA one by one; similarity scores; names and settings of projects; several
termbases and their priorities; severities other than the default ones; CDATA sections
and comments inside XLIFF units; Markdown syntax of more than 256 bytes beside a text,
which gets no tag; notes and terms written by the harness; the renderer's
own state; the command line client. `PROJECT.json` names each component with the
reason. A crash of the engine is modelled where state outlives it (the store and its
opening, copies of documents, mounts, lost answers, the supervisor); agent, harness and
assist runs are RAM only and end with the process, which a client learns as notFound.

## 8. Plan

What is left to prove of `Documents` is `TranslationsLand` and `NothingElseChanges` for
Markdown and HTML. Their exports are splices too, so `PlacesWeave` says what they leave;
missing is the counterpart of `ParasUnique`: that the prefixes, fences and tags between
the units are found in the same places when the texts between them are others.
