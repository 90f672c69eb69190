------------------------------ MODULE AgentRuns ------------------------------
(***************************************************************************)
(* Batch drafting runs (ai.agent): the engine plans the untranslated rows  *)
(* of a document, fills those a memory knows, and hands the others to a    *)
(* pool of worker threads; their answers come back as events that the      *)
(* single-threaded engine loop handles between requests, while people edit *)
(* the same rows, cancel the run, review what it proposes and remove       *)
(* documents.                                                              *)
(*                                                                         *)
(* Runs live in memory only.  A person's write stands for any request      *)
(* that writes a segment (see SegmentGrid); issues are in QaIssues.        *)
(***************************************************************************)
EXTENDS SegmentRow, FiniteSets

CONSTANTS
  Segments,
  Documents,
  DocOf,        \* the document of each segment
  Runs,         \* run ids, each used once
  Modes,        \* approval modes in play, among "manual", "auto" and "turbo"
  Edited,       \* the segments people write (a bound)
  Typed,        \* targets people type
  Answers,      \* targets a provider may answer
  Broken,       \* answers that break the tags of the source
  Clean,        \* targets without an open error of the segment rules
  MaxRunning,   \* AGENT_MAX_CONCURRENT_RUNS
  PoolSize,     \* AGENT_SEGMENT_WORKERS
  History,      \* AGENT_TERMINAL_HISTORY
  NoRun,        \* a run id not used yet
  Pruned        \* a run the engine has dropped

Statuses == {"running", "awaitingReview", "failed", "canceled"}

\* What became of a planned row: not answered yet, filled from the memory,
\* drafted, skipped, failed, or a proposal and its decision.
Outcomes == {"none", "tm", "drafted", "skipped", "failed",
             "pending", "applied", "rejected", "stale"}

RunRecords ==
  [document : Documents, mode : Modes, status : Statuses, cancelRequested : BOOLEAN,
   planned : SUBSET Segments, outcome : [Segments -> Outcomes], draft : [Segments -> Texts]]

ASSUME AgentAssumption ==
  /\ DocOf \in [Segments -> Documents]
  /\ Modes \subseteq {"manual", "auto", "turbo"}
  /\ Typed \subseteq Targets /\ Answers \subseteq Texts
  /\ MaxRunning \in Nat /\ PoolSize \in Nat \ {0} /\ History \in Nat
  /\ NoOrigin \notin Origins
  /\ \A x \in {NoRun, Pruned} : x \notin RunRecords

VARIABLES
  seg,    \* the segments table
  docs,   \* the documents that have not been removed
  tm,     \* tm[h]: the target the project's memory knows for hash h, or Blank
  runs,   \* the agent_runs map
  work    \* work[r]: what the worker threads of run r hold, and what they sent

vars == <<seg, docs, tm, runs, work>>

\* The error an answer may be instead of a text.
Error == "error"

\* The pool: rows not taken yet, rows in a provider call, answers in the event
\* channel, and the terminal event ("no" until it is sent, "done" once handled).
\* The channel is first in, first out and the coordinator sends the terminal
\* event after every worker has stopped, so the answers, whose order is open,
\* come before it.
Pool(queued) == [queued |-> queued, inFlight |-> {}, sent |-> {}, over |-> "no"]
Idle == [Pool({}) EXCEPT !.over = "done"]

Known(r) == runs[r] \notin {NoRun, Pruned}
Running(r) == Known(r) /\ runs[r].status = "running"
Pending(r) == {s \in runs[r].planned : runs[r].outcome[s] = "pending"}
Exists(s) == DocOf[s] \in docs
RowsOf(d) == {s \in Segments : DocOf[s] = d}
Hash(s) == HashOf[seg[s].source]

\* Variant: the row is not looked at again.
StillThere(s) == Exists(s)

\* Nobody has translated or locked the row in the meantime.
StillPending(s) == Exists(s) /\ Fillable(seg[s])

-----------------------------------------------------------------------------
(* segment.confirm of the rows of S, which hold the same target wherever   *)
(* they hold the same source: the memory learns it and untranslated        *)
(* duplicates are filled.                                                  *)

Confirmed(rows, S) ==
  [q \in Segments |->
     LET twins == {s \in S : HashOf[rows[s].source] = HashOf[rows[q].source]}
     IN IF q \in S THEN [rows[q] EXCEPT !.state = "confirmed", !.revision = @ + 1]
        ELSE IF Exists(q) /\ Fillable(rows[q]) /\ twins # {}
             THEN Fill(rows[q], rows[CHOOSE s \in twins : TRUE].target, "tmExact")
             ELSE rows[q]]

Learned(rows, S) ==
  [h \in Hashes |->
     IF \E s \in S : HashOf[rows[s].source] = h
     THEN rows[CHOOSE s \in S : HashOf[rows[s].source] = h].target ELSE tm[h]]

\* The freshly drafted rows of S that pass the turbo gate: no open error, and a
\* writable memory to confirm into (MemoryMounts decides; either is possible).
Gated(rows, S, mode, writable) ==
  IF mode = "turbo" /\ writable THEN {s \in S : rows[s].target \in Clean} ELSE {}

-----------------------------------------------------------------------------
(* ai.agent.start                                                          *)

\* Variant: a run may start beside another one on the same document.
StartableBeside(d) == Cardinality({r \in Runs : Running(r)}) < MaxRunning

Startable(d) ==
  /\ ~\E r \in Runs : Running(r) /\ runs[r].document = d
  /\ Cardinality({r \in Runs : Running(r)}) < MaxRunning

\* Terminal runs that no proposal keeps.
Prunable(map) ==
  {r \in Runs : /\ map[r] \notin {NoRun, Pruned}
                /\ map[r].status # "running"
                /\ \A s \in map[r].planned : map[r].outcome[s] # "pending"}

\* The map after pruning to the History latest; the clock that orders them is
\* not modelled, so any choice of the ones to keep is possible.
PrunedTo(map, kept) ==
  /\ kept \subseteq Prunable(map)
  /\ Cardinality(kept) = IF Cardinality(Prunable(map)) <= History
                         THEN Cardinality(Prunable(map)) ELSE History
  /\ runs' = [r \in Runs |-> IF r \in Prunable(map) \ kept THEN Pruned ELSE map[r]]

\* Ids are new and unordered; which one a run gets makes no difference.
NewId == CHOOSE r \in Runs : runs[r] = NoRun

AgentStart(r, d, mode, planned, writable) ==
  LET hits  == {s \in planned : tm[Hash(s)] # Blank}
      rows  == [s \in Segments |->
                  IF s \in hits THEN Fill(seg[s], tm[Hash(s)], "tmExact") ELSE seg[s]]
      gated == Gated(rows, hits, mode, writable)
      run   == [document |-> d, mode |-> mode, status |-> "running",
                cancelRequested |-> FALSE, planned |-> planned,
                outcome |-> [s \in Segments |-> IF s \in hits THEN "tm" ELSE "none"],
                draft |-> [s \in Segments |-> Blank]]
  IN /\ runs[r] = NoRun /\ r = NewId /\ d \in docs /\ Startable(d)
     /\ planned \subseteq {s \in RowsOf(d) : Fillable(seg[s])}
     /\ seg' = Confirmed(rows, gated)
     /\ tm' = Learned(rows, gated)
     /\ work' = [work EXCEPT ![r] = Pool(planned \ hits)]
     /\ \E kept \in SUBSET Runs : PrunedTo([runs EXCEPT ![r] = run], kept)
     /\ UNCHANGED docs

-----------------------------------------------------------------------------
(* The worker threads.                                                     *)

Take(r, s) ==
  /\ s \in work[r].queued /\ ~runs[r].cancelRequested
  /\ Cardinality(work[r].inFlight) < PoolSize
  /\ work' = [work EXCEPT ![r].queued = @ \ {s}, ![r].inFlight = @ \cup {s}]
  /\ UNCHANGED <<seg, docs, tm, runs>>

\* A provider call ends, at the latest by its timeout.
Answer(r, s, answer) ==
  /\ s \in work[r].inFlight
  /\ work' = [work EXCEPT ![r].inFlight = @ \ {s}, ![r].sent = @ \cup {<<s, answer>>}]
  /\ UNCHANGED <<seg, docs, tm, runs>>

\* A call that sees the cancel flag ends without an answer.
Abandon(r, s) ==
  /\ s \in work[r].inFlight /\ runs[r].cancelRequested
  /\ work' = [work EXCEPT ![r].inFlight = @ \ {s}]
  /\ UNCHANGED <<seg, docs, tm, runs>>

\* Variant: the coordinator does not wait for the calls in flight.
StoppedEarly(r) == work[r].queued = {} \/ runs[r].cancelRequested

\* Variant: the coordinator waits for the queue to drain, canceled or not.
StoppedDrained(r) == work[r].inFlight = {} /\ work[r].queued = {}

\* Every worker has returned: nothing left to take, or it saw the flag.
Stopped(r) ==
  /\ work[r].inFlight = {}
  /\ work[r].queued = {} \/ runs[r].cancelRequested

\* The coordinator joins the workers, reads the flag and sends the last event.
Join(r) ==
  /\ Running(r) /\ work[r].over = "no" /\ Stopped(r)
  /\ work' = [work EXCEPT ![r].queued = {},
                          ![r].over = IF runs[r].cancelRequested THEN "canceled" ELSE "finished"]
  /\ UNCHANGED <<seg, docs, tm, runs>>

-----------------------------------------------------------------------------
(* The engine handles an answer.                                           *)

\* Variant: the message of a failed call is taken for a text.
OutcomeErrorText(r, s, answer) ==
  IF answer = Blank THEN "failed"
  ELSE IF ~StillPending(s) THEN "skipped"
  ELSE IF runs[r].mode = "manual" THEN "pending" ELSE "drafted"

\* What becomes of the row an answer is for: it is looked at as it is now.
OutcomeOf(r, s, answer) ==
  IF answer \in {Error, Blank} THEN "failed"
  ELSE IF ~StillPending(s) THEN "skipped"
  ELSE IF answer \in Broken THEN "failed"
  ELSE IF runs[r].mode = "manual" THEN "pending" ELSE "drafted"

Drafted(r, s, answer, writable) ==
  LET outcome == OutcomeOf(r, s, answer)
      lands   == outcome = "drafted"
      rows    == IF lands THEN [seg EXCEPT ![s] = Fill(@, answer, "aiDraft")] ELSE seg
      gated   == IF lands THEN Gated(rows, {s}, runs[r].mode, writable) ELSE {}
  IN /\ <<s, answer>> \in work[r].sent
     /\ work' = [work EXCEPT ![r].sent = @ \ {<<s, answer>>}]
     /\ IF Running(r)
        THEN /\ seg' = Confirmed(rows, gated)
             /\ tm' = Learned(rows, gated)
             /\ runs' = [runs EXCEPT ![r].outcome[s] = outcome,
                           ![r].draft[s] = IF outcome = "pending" THEN answer ELSE @]
        ELSE UNCHANGED <<seg, tm, runs>>
     /\ UNCHANGED docs

\* The terminal event, after every answer: QA runs over the document of a
\* finished run, which fails when the document is gone.
Terminal(r) ==
  /\ work[r].sent = {} /\ work[r].over \in {"finished", "canceled"}
  /\ work' = [work EXCEPT ![r].over = "done"]
  /\ IF Running(r)
     THEN runs' = [runs EXCEPT ![r].status =
            IF work[r].over = "canceled" THEN "canceled"
            ELSE IF runs[r].document \in docs THEN "awaitingReview" ELSE "failed"]
     ELSE UNCHANGED runs
  /\ UNCHANGED <<seg, docs, tm>>

-----------------------------------------------------------------------------
(* Requests: ai.agent.cancel, ai.agent.review, document.remove, and the    *)
(* writes of people.                                                       *)

AgentCancel(r) ==
  /\ Running(r)
  /\ runs' = [runs EXCEPT ![r].cancelRequested = TRUE]
  /\ UNCHANGED <<seg, docs, tm, work>>

\* Variant: a review decides proposals again.
UndecidedAny(r, S) == S

\* Proposals already decided keep their decision.
Undecided(r, S) == S \cap Pending(r)

AgentReview(r, S, decision) ==
  LET fresh == Undecided(r, S)
      apply == IF decision = "apply" THEN {s \in fresh : StillPending(s)} ELSE {}
  IN /\ Known(r) /\ runs[r].document \in docs
     /\ S # {} /\ S \subseteq {s \in runs[r].planned : runs[r].draft[s] # Blank}
     /\ seg' = [s \in Segments |->
                  IF s \in apply THEN Fill(seg[s], runs[r].draft[s], "aiDraft") ELSE seg[s]]
     /\ runs' = [runs EXCEPT ![r].outcome = [s \in Segments |->
                   IF s \notin fresh THEN @[s]
                   ELSE IF decision = "reject" THEN "rejected"
                   ELSE IF s \in apply THEN "applied" ELSE "stale"]]
     /\ UNCHANGED <<docs, tm, work>>

\* Variant: a document is removed under a running run.
RemovableAny(d) == d \in docs

Removable(d) == d \in docs /\ ~\E r \in Runs : Running(r) /\ runs[r].document = d

DocumentRemove(d) ==
  /\ Removable(d)
  /\ docs' = docs \ {d}
  /\ UNCHANGED <<seg, tm, runs, work>>

\* People write the Edited rows while the bound leaves room for the write and
\* what may follow: a run's fill and confirm after a write that leaves the row
\* open, one more confirm after a confirm.
Writable(s, room) == s \in Edited /\ Exists(s) /\ seg[s].revision <= MaxRevision - room

Type(s, text) ==
  /\ Writable(s, 3) /\ ~seg[s].locked
  /\ seg' = [seg EXCEPT ![s] = Retarget(@, text, NoOrigin)]
  /\ UNCHANGED <<docs, tm, runs, work>>

Confirm(s) ==
  /\ Writable(s, 2) /\ Confirmable(seg[s])
  /\ seg' = Confirmed(seg, {s})
  /\ tm' = Learned(seg, {s})
  /\ UNCHANGED <<docs, runs, work>>

Lock(s, locked) ==
  /\ Writable(s, 3)
  /\ seg' = [seg EXCEPT ![s].locked = locked, ![s].revision = @ + 1]
  /\ UNCHANGED <<docs, tm, runs, work>>

-----------------------------------------------------------------------------
Init ==
  /\ seg \in [Segments -> {row \in Rows : row.target = Blank /\ row.state = "untranslated"
                             /\ ~row.locked /\ row.origin = NoOrigin /\ row.revision = 1}]
  /\ docs = Documents
  /\ tm = [h \in Hashes |-> Blank]
  /\ runs = [r \in Runs |-> NoRun]
  /\ work = [r \in Runs |-> Idle]

Workers(r) ==
  \/ \E s \in Segments : \/ Take(r, s) \/ Abandon(r, s)
                         \/ \E answer \in Answers \cup {Error} : Answer(r, s, answer)
  \/ Join(r)

Events(r) ==
  \/ \E x \in work[r].sent, writable \in BOOLEAN : Drafted(r, x[1], x[2], writable)
  \/ Terminal(r)

Requests(r) ==
  \/ \E d \in Documents, mode \in Modes, planned \in SUBSET Segments, writable \in BOOLEAN :
       AgentStart(r, d, mode, planned, writable)
  \/ AgentCancel(r)
  \/ \E S \in SUBSET Segments, decision \in {"apply", "reject"} : AgentReview(r, S, decision)

People ==
  \/ \E d \in Documents : DocumentRemove(d)
  \/ \E s \in Segments : \/ \E text \in Typed \cup {Blank} : Type(s, text)
                         \/ Confirm(s)
                         \/ \E locked \in BOOLEAN : Lock(s, locked)

Next ==
  \/ \E r \in Runs : Workers(r) \/ Events(r) \/ Requests(r)
  \/ People

Spec == Init /\ [][Next]_vars

\* A provider call ends by its timeout or its cancel, and the engine loop drains
\* its channel; nobody has to start, cancel or review anything.
FairSpec == Spec /\ \A r \in Runs : WF_vars(Workers(r)) /\ WF_vars(Events(r))

-----------------------------------------------------------------------------
(* Properties *)

TypeOK ==
  /\ seg \in [Segments -> Rows]
  /\ docs \in SUBSET Documents
  /\ tm \in [Hashes -> Texts]
  /\ runs \in [Runs -> RunRecords \cup {NoRun, Pruned}]
  /\ work \in [Runs -> [queued : SUBSET Segments, inFlight : SUBSET Segments,
                        sent : SUBSET (Segments \X (Answers \cup {Error})),
                        over : {"no", "finished", "canceled", "done"}]]

\* Rows the threads of a run still hold, in whatever stage.
Held(r) == work[r].queued \cup work[r].inFlight \cup {x[1] : x \in work[r].sent}

\* No row is drafted by two runs at once, however runs start, end, get canceled
\* and start again while the threads of the earlier one wind down.
ExclusiveWork == \A r, q \in Runs : r # q => Held(r) \cap Held(q) = {}

\* A run that stops for review has an outcome for each row it planned: no
\* answer was left behind in a thread or in the channel.
NothingLeftBehind ==
  \A r \in Runs : Known(r) =>
    /\ runs[r].status = "awaitingReview" => \A s \in runs[r].planned : runs[r].outcome[s] # "none"
    /\ runs[r].status # "running" => Held(r) = {}

\* The document under a running run exists, so its QA at the end cannot fail.
RunningDocumentExists == \A r \in Runs : Running(r) => runs[r].document \in docs

\* People win: a run changes a row only while nobody has translated, confirmed
\* or locked it, whenever the answer was asked for or the proposal made.
PeopleWin ==
  [][\A s \in Segments :
       seg'[s] # seg[s] /\ (DocOf[s] \notin docs \/ ~Fillable(seg[s])) => People]_vars

\* What a person decided about a proposal, and what became of any other planned
\* row, is final; and work a person was asked to approve is never discarded.
OutcomesAreFinal ==
  [][\A r \in Runs : Known(r) =>
       /\ Pending(r) # {} => runs'[r] # Pruned
       /\ runs'[r] # Pruned => \A s \in Segments :
            runs[r].outcome[s] \notin {"none", "pending"} =>
              runs'[r].outcome[s] = runs[r].outcome[s]]_vars

\* A run ends.
RunsEnd == \A r \in Runs : Running(r) ~> ~Running(r)
=============================================================================
