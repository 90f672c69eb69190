--------------------------- MODULE AgentRuns_proofs ---------------------------
(***************************************************************************)
(* Proofs about AgentRuns: the threads of two runs never hold the same     *)
(* row, a run ends with an outcome for every row it planned, the document  *)
(* of a running run exists, automation gives way to people, and outcomes   *)
(* are final.                                                              *)
(***************************************************************************)
EXTENDS AgentRuns, TLAPS

Pools == [queued : SUBSET Segments, inFlight : SUBSET Segments,
          sent : SUBSET (Segments \X (Answers \cup {Error})),
          over : {"no", "finished", "canceled", "done"}]

\* The types the argument needs.
Types ==
  /\ docs \in SUBSET Documents
  /\ runs \in [Runs -> RunRecords \cup {NoRun, Pruned}]
  /\ work \in [Runs -> Pools]

\* A run is running until its terminal event was handled, and only then.
RunningUntilDone == \A r \in Runs : Running(r) <=> work[r].over # "done"

\* Threads hold rows of a running run's document only.
HeldInDocument ==
  \A r \in Runs :
    /\ ~Running(r) => Held(r) = {}
    /\ Running(r) => Held(r) \subseteq RowsOf(runs[r].document)

\* Once the coordinator has spoken only answers are left.
JoinedIsStopped ==
  \A r \in Runs : work[r].over \in {"finished", "canceled"} =>
    work[r].queued = {} /\ work[r].inFlight = {}

OneRunPerDocument ==
  \A r, q \in Runs : Running(r) /\ Running(q) /\ r # q => runs[r].document # runs[q].document

\* While no cancel can have taken rows away, a row without outcome is held.
OpenIsHeld ==
  \A r \in Runs : Running(r) /\ (~runs[r].cancelRequested \/ work[r].over = "finished") =>
    \A s \in runs[r].planned : runs[r].outcome[s] = "none" => s \in Held(r)

ReviewedIsClosed ==
  \A r \in Runs : Known(r) /\ runs[r].status = "awaitingReview" =>
    \A s \in runs[r].planned : runs[r].outcome[s] # "none"

IInv == /\ Types /\ RunningUntilDone /\ HeldInDocument /\ JoinedIsStopped
        /\ OneRunPerDocument /\ RunningDocumentExists /\ OpenIsHeld /\ ReviewedIsClosed

-----------------------------------------------------------------------------
\* The rows a pool holds.
HeldBy(w) == w.queued \cup w.inFlight \cup {x[1] : x \in w.sent}

LEMMA InitHolds == Init => IInv
<1> SUFFICES ASSUME Init PROVE IInv
  OBVIOUS
<1>1. \A r \in Runs : runs[r] = NoRun /\ work[r] = Idle
  BY DEF Init
<1>2. Idle \in Pools /\ Idle.over = "done" /\ HeldBy(Idle) = {}
  BY DEF Idle, Pool, Pools, HeldBy
<1>3. \A r \in Runs : ~Known(r) /\ ~Running(r) /\ Held(r) = {}
  BY <1>1, <1>2 DEF Known, Running, Held, HeldBy
<1>4. Types
  BY <1>2 DEF Init, Types
<1> QED
  BY <1>1, <1>2, <1>3, <1>4
  DEF IInv, RunningUntilDone, HeldInDocument, JoinedIsStopped, OneRunPerDocument,
      RunningDocumentExists, OpenIsHeld, ReviewedIsClosed

\* A step that changes one run and its pool keeps the invariant when the pool
\* only loses rows, and loses an open row only after a cancel.
LEMMA OneRunStep ==
  ASSUME IInv, NEW r \in Runs, NEW n \in RunRecords, NEW w \in Pools,
         Known(r), docs' = docs,
         runs' = [runs EXCEPT ![r] = n],
         work' = [work EXCEPT ![r] = w],
         n.document = runs[r].document,
         n.status = "running" => runs[r].status = "running",
         n.status = "running" <=> w.over # "done",
         HeldBy(w) \subseteq Held(r),
         n.status # "running" => HeldBy(w) = {},
         w.over \in {"finished", "canceled"} => w.queued = {} /\ w.inFlight = {},
         n.status = "running" /\ (~n.cancelRequested \/ w.over = "finished") =>
           \A s \in n.planned : n.outcome[s] = "none" => s \in HeldBy(w),
         n.status = "awaitingReview" => \A s \in n.planned : n.outcome[s] # "none"
  PROVE  IInv'
<1> USE AgentAssumption
<1>1. Types'
  BY DEF IInv, Types
<1>2. runs'[r] = n /\ work'[r] = w
  BY DEF IInv, Types
<1>3. \A q \in Runs \ {r} : runs'[q] = runs[q] /\ work'[q] = work[q]
  BY DEF IInv, Types
<1>4. Known(r)' /\ (Running(r)' <=> n.status = "running") /\ Held(r)' = HeldBy(w)
  BY <1>2 DEF Known, Running, Held, HeldBy
<1>5. \A q \in Runs \ {r} : /\ Known(q)' = Known(q) /\ Running(q)' = Running(q)
                            /\ Held(q)' = Held(q)
  BY <1>3 DEF Known, Running, Held
<1>6. Running(r)' => Running(r)
  BY <1>4 DEF Running
<1>7. RunningUntilDone'
  BY <1>2, <1>3, <1>4, <1>5 DEF IInv, RunningUntilDone
<1>8. HeldInDocument'
  <2>1. \A q \in Runs \ {r} : /\ ~Running(q)' => Held(q)' = {}
                              /\ Running(q)' => Held(q)' \subseteq RowsOf(runs'[q].document)
    BY <1>3, <1>5 DEF IInv, HeldInDocument
  <2>2. /\ ~Running(r)' => Held(r)' = {}
        /\ Running(r)' => Held(r)' \subseteq RowsOf(runs'[r].document)
    BY <1>2, <1>4, <1>6 DEF IInv, HeldInDocument
  <2> QED
    BY <2>1, <2>2 DEF HeldInDocument, RowsOf
<1>9. JoinedIsStopped'
  BY <1>2, <1>3 DEF IInv, JoinedIsStopped
<1>10. OneRunPerDocument'
  BY <1>2, <1>3, <1>5, <1>6 DEF IInv, OneRunPerDocument
<1>11. RunningDocumentExists'
  BY <1>2, <1>3, <1>5, <1>6 DEF IInv, RunningDocumentExists
<1>12. OpenIsHeld'
  BY <1>2, <1>3, <1>4, <1>5 DEF IInv, OpenIsHeld
<1>13. ReviewedIsClosed'
  BY <1>2, <1>3, <1>4, <1>5 DEF IInv, ReviewedIsClosed
<1> QED
  BY <1>1, <1>7, <1>8, <1>9, <1>10, <1>11, <1>12, <1>13 DEF IInv

\* A step of the worker threads leaves the runs alone.
LEMMA PoolStep ==
  ASSUME IInv, NEW r \in Runs, NEW w \in Pools,
         Running(r), UNCHANGED <<docs, runs>>,
         work' = [work EXCEPT ![r] = w],
         w.over # "done",
         HeldBy(w) \subseteq Held(r),
         w.over \in {"finished", "canceled"} => w.queued = {} /\ w.inFlight = {},
         ~runs[r].cancelRequested \/ w.over = "finished" => Held(r) \subseteq HeldBy(w),
         w.over = "finished" => work[r].over = "finished" \/ ~runs[r].cancelRequested
  PROVE  IInv'
<1>1. runs[r] \in RunRecords /\ runs[r].status = "running" /\ Known(r)
  BY DEF IInv, Types, Running, Known
<1>2. runs' = [runs EXCEPT ![r] = runs[r]]
  BY DEF IInv, Types
<1>3. ~runs[r].cancelRequested \/ w.over = "finished" =>
        \A s \in runs[r].planned : runs[r].outcome[s] = "none" => s \in HeldBy(w)
  BY DEF IInv, OpenIsHeld
<1> QED
  BY <1>1, <1>2, <1>3, OneRunStep

-----------------------------------------------------------------------------
(* One lemma per action.                                                   *)

LEMMA PoolType ==
  ASSUME IInv, NEW r \in Runs
  PROVE  /\ work[r] \in Pools
         /\ work[r].queued \subseteq Segments /\ work[r].inFlight \subseteq Segments
         /\ work[r].sent \subseteq Segments \X (Answers \cup {Error})
         /\ Held(r) = HeldBy(work[r])
         /\ runs[r] \in RunRecords \cup {NoRun, Pruned}
         /\ ~Running(r) <=> work[r].over = "done"
  BY DEF IInv, Types, Pools, Held, HeldBy, RunningUntilDone

LEMMA TakeStep ==
  ASSUME IInv, NEW r \in Runs, NEW s \in Segments, Take(r, s)
  PROVE  IInv'
<1> DEFINE w == [work[r] EXCEPT !.queued = @ \ {s}, !.inFlight = @ \cup {s}]
<1>1. work' = [work EXCEPT ![r] = w]
  BY DEF Take
<1>2. w \in Pools /\ w.over = work[r].over /\ w.sent = work[r].sent
  BY PoolType DEF Pools
<1>3. w.queued = work[r].queued \ {s} /\ w.inFlight = work[r].inFlight \cup {s}
  BY PoolType DEF Pools
<1>4. HeldBy(w) = Held(r) /\ s \in Held(r)
  BY <1>2, <1>3, PoolType DEF HeldBy, Take
<1>5. Running(r) /\ w.over = "no" /\ ~runs[r].cancelRequested
  BY <1>2, <1>4, PoolType DEF IInv, HeldInDocument, JoinedIsStopped, Take, Pools
<1> HIDE DEF w
<1> QED
  BY <1>1, <1>2, <1>4, <1>5, PoolStep DEF Take

LEMMA AnswerStep ==
  ASSUME IInv, NEW r \in Runs, NEW s \in Segments, NEW a \in Answers \cup {Error},
         Answer(r, s, a)
  PROVE  IInv'
<1> DEFINE w == [work[r] EXCEPT !.inFlight = @ \ {s}, !.sent = @ \cup {<<s, a>>}]
<1>1. work' = [work EXCEPT ![r] = w]
  BY DEF Answer
<1>2. /\ w.over = work[r].over /\ w.queued = work[r].queued
      /\ w.inFlight = work[r].inFlight \ {s} /\ w.sent = work[r].sent \cup {<<s, a>>}
  BY PoolType DEF Pools
<1>3. w \in Pools
  <2>1. work[r].sent \cup {<<s, a>>} \in SUBSET (Segments \X (Answers \cup {Error}))
    <3>1. <<s, a>> \in Segments \X (Answers \cup {Error})
      OBVIOUS
    <3>2. work[r].sent \subseteq Segments \X (Answers \cup {Error})
      BY PoolType
    <3> QED
      BY <3>1, <3>2
  <2>2. work[r].inFlight \ {s} \in SUBSET Segments
    BY PoolType
  <2> QED
    BY <2>1, <2>2, PoolType DEF Pools
<1>4. HeldBy(w) = Held(r) /\ s \in Held(r)
  <2> HIDE DEF w
  <2>1. {x[1] : x \in w.sent} = {x[1] : x \in work[r].sent} \cup {s}
    <3>1. <<s, a>>[1] = s
      OBVIOUS
    <3>2. w.sent = work[r].sent \cup {<<s, a>>}
      BY <1>2
    <3> QED
      BY <3>1, <3>2, Zenon
  <2> QED
    BY <2>1, <1>2, PoolType DEF HeldBy, Answer
<1>5. Running(r) /\ w.over = "no"
  BY <1>2, <1>4, PoolType DEF IInv, HeldInDocument, JoinedIsStopped, Answer, Pools
<1> HIDE DEF w
<1> QED
  BY <1>1, <1>3, <1>4, <1>5, PoolStep DEF Answer

LEMMA AbandonStep ==
  ASSUME IInv, NEW r \in Runs, NEW s \in Segments, Abandon(r, s)
  PROVE  IInv'
<1> DEFINE w == [work[r] EXCEPT !.inFlight = @ \ {s}]
<1>1. work' = [work EXCEPT ![r] = w]
  BY DEF Abandon
<1>2. /\ w \in Pools /\ w.over = work[r].over /\ w.queued = work[r].queued
      /\ w.inFlight = work[r].inFlight \ {s} /\ w.sent = work[r].sent
  BY PoolType DEF Pools
<1>3. HeldBy(w) \subseteq Held(r) /\ s \in Held(r)
  BY <1>2, PoolType DEF HeldBy, Abandon
<1>4. Running(r) /\ w.over = "no" /\ runs[r].cancelRequested
  BY <1>2, <1>3, PoolType DEF IInv, HeldInDocument, JoinedIsStopped, Abandon, Pools
<1> HIDE DEF w
<1> QED
  BY <1>1, <1>2, <1>3, <1>4, PoolStep DEF Abandon

LEMMA JoinStep ==
  ASSUME IInv, NEW r \in Runs, Join(r)
  PROVE  IInv'
<1> DEFINE over == IF runs[r].cancelRequested THEN "canceled" ELSE "finished"
           w    == [work[r] EXCEPT !.queued = {}, !.over = over]
<1>1. work' = [work EXCEPT ![r] = w]
  BY DEF Join
<1>2. /\ w \in Pools /\ w.over = over /\ w.queued = {}
      /\ w.inFlight = {} /\ w.sent = work[r].sent
  BY PoolType DEF Pools, Join, Stopped
<1>3. HeldBy(w) \subseteq Held(r)
  BY <1>2, PoolType DEF HeldBy
<1>4. over = "finished" => ~runs[r].cancelRequested
  OBVIOUS
<1>5. ~runs[r].cancelRequested => Held(r) \subseteq HeldBy(w)
  BY <1>2, PoolType DEF HeldBy, Join, Stopped
<1>6. Running(r) /\ w.over # "done"
  BY <1>2 DEF Join
<1> HIDE DEF w, over
<1> QED
  BY <1>1, <1>2, <1>3, <1>4, <1>5, <1>6, PoolStep DEF Join

LEMMA TerminalStep ==
  ASSUME IInv, NEW r \in Runs, Terminal(r)
  PROVE  IInv'
<1> DEFINE w  == [work[r] EXCEPT !.over = "done"]
           st == IF work[r].over = "canceled" THEN "canceled"
                 ELSE IF runs[r].document \in docs THEN "awaitingReview" ELSE "failed"
           n  == [runs[r] EXCEPT !.status = st]
<1>1. Running(r) /\ Known(r) /\ runs[r] \in RunRecords /\ runs[r].status = "running"
  BY PoolType DEF Terminal, Running, Known
<1>2. work' = [work EXCEPT ![r] = w] /\ docs' = docs
  BY DEF Terminal
<1>3. runs' = [runs EXCEPT ![r] = n]
  BY <1>1 DEF Terminal
<1>4. /\ w \in Pools /\ w.over = "done" /\ w.queued = work[r].queued
      /\ w.inFlight = work[r].inFlight /\ w.sent = {}
  BY PoolType DEF Pools, Terminal
<1>5. HeldBy(w) = {} /\ Held(r) = {}
  BY <1>4, PoolType DEF IInv, JoinedIsStopped, Terminal, HeldBy
<1>6. /\ n \in RunRecords /\ n.status = st /\ n.document = runs[r].document
      /\ n.planned = runs[r].planned /\ n.outcome = runs[r].outcome
  BY <1>1 DEF RunRecords, Statuses
<1>7. st # "running" /\ (st = "awaitingReview" => work[r].over = "finished")
  BY DEF Terminal
<1>8. n.status = "awaitingReview" => \A s \in n.planned : n.outcome[s] # "none"
  BY <1>1, <1>5, <1>6, <1>7 DEF IInv, OpenIsHeld
<1> HIDE DEF w, n, st
<1> QED
  BY <1>1, <1>2, <1>3, <1>4, <1>5, <1>6, <1>7, <1>8, OneRunStep

LEMMA DraftedStep ==
  ASSUME IInv, NEW r \in Runs, NEW x \in work[r].sent, NEW b \in BOOLEAN,
         Drafted(r, x[1], x[2], b)
  PROVE  IInv'
<1> DEFINE s   == x[1]
           a   == x[2]
           out == OutcomeOf(r, s, a)
           w   == [work[r] EXCEPT !.sent = @ \ {<<s, a>>}]
           n   == [runs[r] EXCEPT !.outcome[s] = out,
                                  !.draft[s] = IF out = "pending" THEN a ELSE @]
<1>1. s \in Segments /\ a \in Answers \cup {Error} /\ x = <<s, a>> /\ s \in Held(r)
  BY PoolType DEF HeldBy
<1>2. Running(r) /\ Known(r) /\ runs[r] \in RunRecords /\ runs[r].status = "running"
  BY <1>1, PoolType DEF IInv, HeldInDocument, Running, Known
<1>3. work' = [work EXCEPT ![r] = w] /\ docs' = docs
  BY DEF Drafted
<1>4. runs' = [runs EXCEPT ![r] = n]
  BY <1>2 DEF Drafted
<1>5. /\ w \in Pools /\ w.over = work[r].over /\ w.queued = work[r].queued
      /\ w.inFlight = work[r].inFlight /\ w.sent = work[r].sent \ {<<s, a>>}
  BY PoolType DEF Pools
<1>6. HeldBy(w) \subseteq Held(r) /\ Held(r) \subseteq HeldBy(w) \cup {s}
  BY <1>5, PoolType DEF HeldBy
<1>7. out \in Outcomes \ {"none"} /\ (out = "pending" => a \in Texts)
  BY <1>1, AgentAssumption DEF OutcomeOf, Outcomes
<1>8. /\ n \in RunRecords /\ n.status = "running" /\ n.document = runs[r].document
      /\ n.planned = runs[r].planned /\ n.cancelRequested = runs[r].cancelRequested
      /\ n.outcome = [runs[r].outcome EXCEPT ![s] = out]
  BY <1>1, <1>2, <1>7 DEF RunRecords
<1>9. ~n.cancelRequested \/ w.over = "finished" =>
        \A q \in n.planned : n.outcome[q] = "none" => q \in HeldBy(w)
  <2> SUFFICES ASSUME ~n.cancelRequested \/ w.over = "finished",
                      NEW q \in n.planned, n.outcome[q] = "none"
               PROVE  q \in HeldBy(w)
    OBVIOUS
  <2>1. q \in Segments /\ q # s /\ runs[r].outcome[q] = "none"
    BY <1>1, <1>2, <1>7, <1>8 DEF RunRecords
  <2>2. q \in Held(r)
    BY <2>1, <1>2, <1>5, <1>8 DEF IInv, OpenIsHeld
  <2> QED
    BY <2>1, <2>2, <1>6
<1>10. w.over # "done"
  BY <1>2, <1>5, PoolType
<1>11. w.over \in {"finished", "canceled"} => w.queued = {} /\ w.inFlight = {}
  BY <1>5 DEF IInv, JoinedIsStopped
<1> HIDE DEF w, n
<1> QED
  BY <1>2, <1>3, <1>4, <1>5, <1>6, <1>8, <1>9, <1>10, <1>11, OneRunStep

\* A request that changes the record of one run, not its document, status or
\* rows without an outcome.
LEMMA RecordStep ==
  ASSUME IInv, NEW r \in Runs, NEW n \in RunRecords, Known(r),
         UNCHANGED <<docs, work>>,
         runs' = [runs EXCEPT ![r] = n],
         n.document = runs[r].document, n.status = runs[r].status,
         n.planned = runs[r].planned,
         runs[r].cancelRequested => n.cancelRequested,
         \A s \in Segments : n.outcome[s] = "none" <=> runs[r].outcome[s] = "none"
  PROVE  IInv'
<1>1. work' = [work EXCEPT ![r] = work[r]] /\ work[r] \in Pools
  BY DEF IInv, Types
<1>2. runs[r] \in RunRecords /\ n.planned \subseteq Segments
  BY PoolType DEF Known, RunRecords
<1>3. n.status = "running" <=> Running(r)
  BY DEF Running
<1>4. /\ n.status = "running" <=> work[r].over # "done"
      /\ HeldBy(work[r]) = Held(r)
      /\ n.status # "running" => HeldBy(work[r]) = {}
  BY <1>3, PoolType DEF IInv, HeldInDocument
<1>5. work[r].over \in {"finished", "canceled"} =>
        work[r].queued = {} /\ work[r].inFlight = {}
  BY DEF IInv, JoinedIsStopped
<1>6. n.status = "running" /\ (~n.cancelRequested \/ work[r].over = "finished") =>
        \A s \in n.planned : n.outcome[s] = "none" => s \in HeldBy(work[r])
  BY <1>2, <1>3, <1>4 DEF IInv, OpenIsHeld
<1>7. n.status = "awaitingReview" => \A s \in n.planned : n.outcome[s] # "none"
  BY <1>2 DEF IInv, ReviewedIsClosed
<1> QED
  BY <1>1, <1>4, <1>5, <1>6, <1>7, OneRunStep

LEMMA CancelStep ==
  ASSUME IInv, NEW r \in Runs, AgentCancel(r)
  PROVE  IInv'
<1> DEFINE n == [runs[r] EXCEPT !.cancelRequested = TRUE]
<1>1. Known(r) /\ runs[r] \in RunRecords
  BY PoolType DEF AgentCancel, Running, Known
<1>2. runs' = [runs EXCEPT ![r] = n] /\ UNCHANGED <<docs, work>>
  BY DEF AgentCancel
<1>3. /\ n \in RunRecords /\ n.document = runs[r].document /\ n.status = runs[r].status
      /\ n.planned = runs[r].planned /\ n.cancelRequested /\ n.outcome = runs[r].outcome
  BY <1>1 DEF RunRecords
<1> HIDE DEF n
<1> QED
  BY <1>1, <1>2, <1>3, RecordStep

LEMMA ReviewStep ==
  ASSUME IInv, NEW r \in Runs, NEW S \in SUBSET Segments, NEW decision \in {"apply", "reject"},
         AgentReview(r, S, decision)
  PROVE  IInv'
<1> DEFINE fresh == Undecided(r, S)
           apply == IF decision = "apply" THEN {s \in fresh : StillPending(s)} ELSE {}
           out   == [s \in Segments |->
                       IF s \notin fresh THEN runs[r].outcome[s]
                       ELSE IF decision = "reject" THEN "rejected"
                       ELSE IF s \in apply THEN "applied" ELSE "stale"]
           n     == [runs[r] EXCEPT !.outcome = out]
<1>1. Known(r) /\ runs[r] \in RunRecords
  BY PoolType DEF AgentReview, Known
<1>2. runs' = [runs EXCEPT ![r] = n] /\ UNCHANGED <<docs, work>>
  BY DEF AgentReview
<1>3. \A s \in fresh : runs[r].outcome[s] = "pending"
  BY DEF Undecided, Pending
<1> HIDE DEF fresh, apply
<1>4. out \in [Segments -> Outcomes]
  BY <1>1 DEF RunRecords, Outcomes
<1>5. \A s \in Segments : out[s] = "none" <=> runs[r].outcome[s] = "none"
  BY <1>3
<1> HIDE DEF out
<1>6. /\ n \in RunRecords /\ n.document = runs[r].document /\ n.status = runs[r].status
      /\ n.planned = runs[r].planned /\ n.outcome = out
      /\ n.cancelRequested = runs[r].cancelRequested
  BY <1>1, <1>4 DEF RunRecords
<1> HIDE DEF n
<1> QED
  BY <1>1, <1>2, <1>5, <1>6, RecordStep

\* Starting a run puts its rows under its own document only, and pruning drops
\* nothing that runs.
LEMMA StartStep ==
  ASSUME IInv, NEW r \in Runs, NEW d \in Documents, NEW mode \in Modes,
         NEW planned \in SUBSET Segments, NEW b \in BOOLEAN,
         AgentStart(r, d, mode, planned, b)
  PROVE  IInv'
<1> DEFINE hits == {s \in planned : tm[Hash(s)] # Blank}
           run  == [document |-> d, mode |-> mode, status |-> "running",
                    cancelRequested |-> FALSE, planned |-> planned,
                    outcome |-> [s \in Segments |-> IF s \in hits THEN "tm" ELSE "none"],
                    draft |-> [s \in Segments |-> Blank]]
           map  == [runs EXCEPT ![r] = run]
           w    == Pool(planned \ hits)
<1>1. /\ runs[r] = NoRun /\ d \in docs /\ Startable(d)
      /\ planned \subseteq RowsOf(d)
      /\ work' = [work EXCEPT ![r] = w] /\ docs' = docs
  BY DEF AgentStart
<1>2. PICK kept \in SUBSET Runs : PrunedTo(map, kept)
  BY DEF AgentStart
<1> HIDE DEF hits
<1>3. run \in RunRecords
  BY AgentAssumption DEF RunRecords, Statuses, Outcomes, Texts
<1>4. run.document = d /\ run.status = "running" /\ run.planned = planned
  OBVIOUS
<1>5. w \in Pools /\ w.over = "no" /\ HeldBy(w) = planned \ hits
  BY DEF Pool, Pools, HeldBy
<1>6. \A s \in planned : run.outcome[s] = "none" => s \in HeldBy(w)
  BY <1>5
<1> HIDE DEF run, w
<1>7. map[r] = run /\ (\A q \in Runs \ {r} : map[q] = runs[q])
  BY DEF IInv, Types
<1> HIDE DEF map
<1>8. runs'[r] = run
  <2>1. r \notin Prunable(map)
    BY <1>4, <1>7 DEF Prunable
  <2> QED
    BY <1>2, <1>7, <2>1 DEF PrunedTo
<1>9. \A q \in Runs \ {r} : runs'[q] = runs[q] \/ (runs'[q] = Pruned /\ Known(q) /\ ~Running(q))
  BY <1>2, <1>7 DEF PrunedTo, Prunable, Known, Running
<1>10. work'[r] = w /\ \A q \in Runs \ {r} : work'[q] = work[q]
  BY <1>1 DEF IInv, Types
<1>11. Known(r)' /\ Running(r)' /\ Held(r)' = HeldBy(w) /\ ~Running(r)
  BY <1>1, <1>3, <1>4, <1>8, <1>10, AgentAssumption DEF Known, Running, Held, HeldBy
<1>12. \A q \in Runs \ {r} : /\ Running(q)' = Running(q) /\ Held(q)' = Held(q)
                             /\ Known(q)' => Known(q) /\ runs'[q] = runs[q]
  BY <1>9, <1>10 DEF Known, Running, Held
<1>13. \A q \in Runs \ {r} : Running(q) => runs'[q] = runs[q] /\ runs[q].document # d
  BY <1>1, <1>9 DEF Startable
<1>14. Types'
  <2>1. runs' \in [Runs -> RunRecords \cup {NoRun, Pruned}]
    <3>1. runs' = [q \in Runs |-> runs'[q]]
      BY <1>2 DEF PrunedTo
    <3>2. \A q \in Runs : runs'[q] \in RunRecords \cup {NoRun, Pruned}
      BY <1>3, <1>8, <1>9 DEF IInv, Types
    <3> QED
      BY <3>1, <3>2
  <2>2. work' \in [Runs -> Pools]
    BY <1>1, <1>5 DEF IInv, Types
  <2> QED
    BY <1>1, <2>1, <2>2 DEF IInv, Types, Pools
<1>15. RunningUntilDone'
  BY <1>5, <1>10, <1>11, <1>12 DEF IInv, RunningUntilDone
<1>16. HeldInDocument'
  <2>1. Held(r)' \subseteq RowsOf(runs'[r].document)
    BY <1>1, <1>4, <1>5, <1>8, <1>11
  <2>2. \A q \in Runs \ {r} : /\ ~Running(q)' => Held(q)' = {}
                              /\ Running(q)' => Held(q)' \subseteq RowsOf(runs'[q].document)
    BY <1>12, <1>13 DEF IInv, HeldInDocument
  <2> QED
    BY <1>11, <2>1, <2>2 DEF HeldInDocument, RowsOf
<1>17. JoinedIsStopped'
  BY <1>5, <1>10 DEF IInv, JoinedIsStopped
<1>18. OneRunPerDocument'
  BY <1>4, <1>8, <1>12, <1>13 DEF IInv, OneRunPerDocument
<1>19. RunningDocumentExists'
  BY <1>1, <1>4, <1>8, <1>12, <1>13 DEF IInv, RunningDocumentExists
<1>20. OpenIsHeld'
  BY <1>4, <1>6, <1>8, <1>10, <1>11, <1>12, <1>13 DEF IInv, OpenIsHeld
<1>21. ReviewedIsClosed'
  BY <1>4, <1>8, <1>12 DEF IInv, ReviewedIsClosed
<1> QED
  BY <1>14, <1>15, <1>16, <1>17, <1>18, <1>19, <1>20, <1>21 DEF IInv

LEMMA RemoveStep ==
  ASSUME IInv, NEW d \in Documents, DocumentRemove(d)
  PROVE  IInv'
<1>1. UNCHANGED <<runs, work>> /\ docs' = docs \ {d}
  BY DEF DocumentRemove
<1>2. RunningDocumentExists'
  BY <1>1 DEF IInv, RunningDocumentExists, DocumentRemove, Removable, Running, Known
<1> QED
  BY <1>1, <1>2
  DEF IInv, Types, RunningUntilDone, HeldInDocument, JoinedIsStopped, OneRunPerDocument,
      OpenIsHeld, ReviewedIsClosed, Running, Known, Held, Pools, RowsOf

\* What people write to the rows is of no concern to the bookkeeping.
LEMMA IdleStep ==
  ASSUME IInv, UNCHANGED <<docs, runs, work>>
  PROVE  IInv'
  BY DEF IInv, Types, RunningUntilDone, HeldInDocument, JoinedIsStopped, OneRunPerDocument,
         RunningDocumentExists, OpenIsHeld, ReviewedIsClosed, Running, Known, Held, Pools, RowsOf

-----------------------------------------------------------------------------
LEMMA NextStep == IInv /\ [Next]_vars => IInv'
<1> SUFFICES ASSUME IInv, [Next]_vars PROVE IInv'
  OBVIOUS
<1>1. ASSUME NEW r \in Runs, Workers(r) PROVE IInv'
  BY <1>1, TakeStep, AnswerStep, AbandonStep, JoinStep DEF Workers
<1>2. ASSUME NEW r \in Runs, Events(r) PROVE IInv'
  BY <1>2, DraftedStep, TerminalStep DEF Events
<1>3. ASSUME NEW r \in Runs, Requests(r) PROVE IInv'
  BY <1>3, StartStep, CancelStep, ReviewStep DEF Requests
<1>4. CASE People
  <2>1. ASSUME NEW d \in Documents, DocumentRemove(d) PROVE IInv'
    BY <2>1, RemoveStep
  <2>2. ASSUME NEW s \in Segments,
               \/ \E text \in Typed \cup {Blank} : Type(s, text)
               \/ Confirm(s)
               \/ \E locked \in BOOLEAN : Lock(s, locked)
        PROVE  IInv'
    BY <2>2, IdleStep DEF Type, Confirm, Lock
  <2> QED
    BY <1>4, <2>1, <2>2 DEF People
<1>5. CASE UNCHANGED vars
  BY <1>5, IdleStep DEF vars
<1> QED
  BY <1>1, <1>2, <1>3, <1>4, <1>5 DEF Next

LEMMA InvHolds == Spec => []IInv
  BY InitHolds, NextStep, PTL DEF Spec

\* No row is drafted by two runs at once, whatever the number of runs, rows,
\* documents and worker threads: the start guard looks at the status of runs
\* only, and this shows that the threads of a run hold nothing once it ended.
THEOREM WorkIsExclusive == Spec => []ExclusiveWork
<1>1. IInv => ExclusiveWork
  <2> SUFFICES ASSUME IInv, NEW r \in Runs, NEW q \in Runs, r # q,
                      NEW s \in Held(r) \cap Held(q)
               PROVE  FALSE
    BY DEF ExclusiveWork
  <2>1. Running(r) /\ Running(q)
    BY DEF IInv, HeldInDocument
  <2>2. s \in RowsOf(runs[r].document) /\ s \in RowsOf(runs[q].document)
    BY <2>1 DEF IInv, HeldInDocument
  <2> QED
    BY <2>1, <2>2 DEF IInv, OneRunPerDocument, RowsOf
<1> QED
  BY <1>1, InvHolds, PTL

\* A run that stops for review accounts for every row it planned, and the
\* threads of a run that ended hold nothing.
THEOREM RunsAreAccounted == Spec => []NothingLeftBehind
<1>1. IInv => NothingLeftBehind
  BY DEF IInv, HeldInDocument, ReviewedIsClosed, NothingLeftBehind, Running
<1> QED
  BY <1>1, InvHolds, PTL

\* The document of a running run exists, for any interleaving of removals.
THEOREM DocumentsOutliveRuns == Spec => []RunningDocumentExists
<1>1. IInv => RunningDocumentExists
  BY DEF IInv
<1> QED
  BY <1>1, InvHolds, PTL

-----------------------------------------------------------------------------
(* People win.                                                             *)

\* Nobody has translated or locked row s, and its document exists.
Open(s) == DocOf[s] \in docs /\ Fillable(seg[s])

\* What confirming rows of S does to the others: only open rows are filled.
LEMMA ConfirmedRows ==
  ASSUME NEW rows, NEW S, NEW q \in Segments, q \notin S
  PROVE  Confirmed(rows, S)[q] = rows[q] \/ (Exists(q) /\ Fillable(rows[q]))
  BY DEF Confirmed

LEMMA GatedRows ==
  ASSUME NEW rows, NEW S, NEW mode, NEW b
  PROVE  Gated(rows, S, mode, b) \subseteq S
  BY DEF Gated

LEMMA StartFillsOpen ==
  ASSUME NEW r \in Runs, NEW d \in Documents, NEW mode \in Modes,
         NEW planned \in SUBSET Segments, NEW b \in BOOLEAN,
         AgentStart(r, d, mode, planned, b), NEW q \in Segments, seg'[q] # seg[q]
  PROVE  Open(q)
<1> DEFINE hits  == {s \in planned : tm[Hash(s)] # Blank}
           rows  == [s \in Segments |->
                       IF s \in hits THEN Fill(seg[s], tm[Hash(s)], "tmExact") ELSE seg[s]]
           gated == Gated(rows, hits, mode, b)
<1>1. seg' = Confirmed(rows, gated) /\ d \in docs
  BY DEF AgentStart
<1>2. gated \subseteq hits
  BY GatedRows
<1>3. \A s \in hits : Open(s)
  BY <1>1 DEF AgentStart, Open, RowsOf
<1>4. q \notin hits => rows[q] = seg[q]
  OBVIOUS
<1> HIDE DEF hits, rows, gated
<1>5. CASE q \in hits
  BY <1>3, <1>5
<1>6. CASE q \notin hits
  BY <1>1, <1>2, <1>4, <1>6, ConfirmedRows DEF Open, Exists
<1> QED
  BY <1>5, <1>6

LEMMA DraftFillsOpen ==
  ASSUME NEW r \in Runs, NEW s, NEW a, NEW b \in BOOLEAN,
         Drafted(r, s, a, b), NEW q \in Segments, seg'[q] # seg[q]
  PROVE  Open(q)
<1> DEFINE lands == OutcomeOf(r, s, a) = "drafted"
           rows  == IF lands THEN [seg EXCEPT ![s] = Fill(@, a, "aiDraft")] ELSE seg
           gated == IF lands THEN Gated(rows, {s}, runs[r].mode, b) ELSE {}
<1>1. seg' = Confirmed(rows, gated)
  BY DEF Drafted
<1>2. gated \subseteq {s}
  BY GatedRows
<1>3. lands => Open(s)
  BY DEF OutcomeOf, StillPending, Open, Exists
<1>4. q # s => rows[q] = seg[q]
  OBVIOUS
<1>5. ~lands => gated = {} /\ rows[q] = seg[q]
  OBVIOUS
<1> HIDE DEF lands, rows, gated
<1>6. CASE q = s /\ lands
  BY <1>3, <1>6
<1>7. CASE ~(q = s /\ lands)
  BY <1>1, <1>2, <1>4, <1>5, <1>7, ConfirmedRows DEF Open, Exists
<1> QED
  BY <1>6, <1>7

LEMMA ReviewFillsOpen ==
  ASSUME NEW r \in Runs, NEW S \in SUBSET Segments, NEW decision,
         AgentReview(r, S, decision), NEW q \in Segments, seg'[q] # seg[q]
  PROVE  Open(q)
<1> DEFINE fresh == Undecided(r, S)
           apply == IF decision = "apply" THEN {s \in fresh : StillPending(s)} ELSE {}
<1>1. seg' = [s \in Segments |->
                IF s \in apply THEN Fill(seg[s], runs[r].draft[s], "aiDraft") ELSE seg[s]]
  BY DEF AgentReview
<1>2. \A s \in apply : StillPending(s)
  OBVIOUS
<1> HIDE DEF apply
<1>3. q \in apply
  BY <1>1
<1> QED
  BY <1>2, <1>3 DEF StillPending, Open, Exists

\* A draft, a memory fill or an approved proposal lands in a row only while
\* nobody has translated, confirmed or locked it, for any number of runs, rows
\* and documents, however old the answer or the proposal is.
THEOREM PeopleComeFirst == Spec => PeopleWin
<1>1. ASSUME [Next]_vars, NEW q \in Segments, seg'[q] # seg[q], ~Open(q)
      PROVE  People
  <2>1. ASSUME NEW r \in Runs, Workers(r) PROVE FALSE
    BY <1>1, <2>1 DEF Workers, Take, Answer, Abandon, Join
  <2>2. ASSUME NEW r \in Runs, Events(r) PROVE FALSE
    <3>1. CASE Terminal(r)
      BY <1>1, <3>1 DEF Terminal
    <3>2. ASSUME NEW x \in work[r].sent, NEW b \in BOOLEAN, Drafted(r, x[1], x[2], b)
          PROVE  FALSE
      BY <1>1, <3>2, DraftFillsOpen
    <3> QED
      BY <2>2, <3>1, <3>2 DEF Events
  <2>3. ASSUME NEW r \in Runs, Requests(r) PROVE FALSE
    BY <1>1, <2>3, StartFillsOpen, ReviewFillsOpen DEF Requests, AgentCancel
  <2>4. ~UNCHANGED vars
    BY <1>1 DEF vars
  <2> QED
    BY <1>1, <2>1, <2>2, <2>3, <2>4 DEF Next
<1>2. [Next]_vars =>
        [\A s \in Segments :
           seg'[s] # seg[s] /\ (DocOf[s] \notin docs \/ ~Fillable(seg[s])) => People]_vars
  BY <1>1 DEF Open
<1> QED
  BY <1>2, PTL DEF Spec, PeopleWin

-----------------------------------------------------------------------------
(* Outcomes are final.                                                     *)

\* A row is in one stage of a pool, with one answer at the most.
OneStageIn(w) ==
  /\ w.queued \cap w.inFlight = {}
  /\ \A x \in w.sent : x[1] \notin w.queued \cup w.inFlight
  /\ \A x, y \in w.sent : x[1] = y[1] => x = y

OneStage == \A r \in Runs : OneStageIn(work[r])

\* A row that is still held has no outcome.
HeldIsOpen == \A r \in Runs : Running(r) => \A s \in Held(r) : runs[r].outcome[s] = "none"

OInv == IInv /\ OneStage /\ HeldIsOpen

LEMMA StageInit == Init => OInv
<1> SUFFICES ASSUME Init PROVE OInv
  OBVIOUS
<1>1. \A r \in Runs : ~Running(r) /\ work[r] = Idle
  BY DEF Init, Running, Known
<1>2. OneStageIn(Idle)
  BY DEF Idle, Pool, OneStageIn
<1> QED
  BY <1>1, <1>2, InitHolds DEF OInv, OneStage, HeldIsOpen

\* A step that changes one pool and leaves the records of the runs alone.
LEMMA StageStep ==
  ASSUME OInv, NEW r \in Runs, NEW w,
         work' = [work EXCEPT ![r] = w], UNCHANGED runs,
         OneStageIn(w), HeldBy(w) \subseteq Held(r)
  PROVE  OneStage' /\ HeldIsOpen'
<1>1. work'[r] = w /\ \A q \in Runs \ {r} : work'[q] = work[q]
  BY DEF OInv, IInv, Types
<1>2. OneStage'
  BY <1>1 DEF OInv, OneStage
<1>3. Held(r)' = HeldBy(w) /\ \A q \in Runs \ {r} : Held(q)' = Held(q)
  BY <1>1 DEF Held, HeldBy
<1>4. \A q \in Runs : Running(q)' = Running(q)
  BY DEF Running, Known
<1> QED
  BY <1>2, <1>3, <1>4 DEF OInv, HeldIsOpen

LEMMA WorkersStage ==
  ASSUME OInv, NEW r \in Runs, Workers(r)
  PROVE  OneStage' /\ HeldIsOpen'
<1> USE DEF OInv
<1>0. OneStageIn(work[r])
  BY DEF OneStage
<1>1. ASSUME NEW s \in Segments, Take(r, s) PROVE OneStage' /\ HeldIsOpen'
  <2> DEFINE w == [work[r] EXCEPT !.queued = @ \ {s}, !.inFlight = @ \cup {s}]
  <2>1. work' = [work EXCEPT ![r] = w] /\ UNCHANGED runs /\ s \in work[r].queued
    BY <1>1 DEF Take
  <2>2. /\ w.queued = work[r].queued \ {s} /\ w.inFlight = work[r].inFlight \cup {s}
        /\ w.sent = work[r].sent
    BY PoolType DEF Pools
  <2> HIDE DEF w
  <2>3. HeldBy(w) \subseteq Held(r)
    BY <2>1, <2>2, PoolType DEF HeldBy
  <2>4. OneStageIn(w)
    BY <1>0, <2>1, <2>2 DEF OneStageIn
  <2> QED
    BY <2>1, <2>3, <2>4, StageStep
<1>2. ASSUME NEW s \in Segments, NEW a \in Answers \cup {Error}, Answer(r, s, a)
      PROVE  OneStage' /\ HeldIsOpen'
  <2> DEFINE w == [work[r] EXCEPT !.inFlight = @ \ {s}, !.sent = @ \cup {<<s, a>>}]
  <2>1. work' = [work EXCEPT ![r] = w] /\ UNCHANGED runs /\ s \in work[r].inFlight
    BY <1>2 DEF Answer
  <2>2. /\ w.queued = work[r].queued /\ w.inFlight = work[r].inFlight \ {s}
        /\ w.sent = work[r].sent \cup {<<s, a>>}
    BY PoolType DEF Pools
  <2> HIDE DEF w
  <2>3. <<s, a>>[1] = s
    OBVIOUS
  <2>4. \A x \in w.sent : x \in work[r].sent \/ x = <<s, a>>
    BY <2>2, Zenon
  <2>5. HeldBy(w) \subseteq Held(r)
    <3> SUFFICES ASSUME NEW q \in HeldBy(w) PROVE q \in Held(r)
      OBVIOUS
    <3>1. q \in w.queued \/ q \in w.inFlight \/ \E x \in w.sent : q = x[1]
      BY DEF HeldBy
    <3> QED
      BY <2>1, <2>2, <2>3, <2>4, <3>1, PoolType DEF HeldBy
  <2>6. OneStageIn(w)
    <3>1. \A x \in work[r].sent : x[1] # s
      BY <1>0, <2>1 DEF OneStageIn
    <3>2. \A x, y \in w.sent : x[1] = y[1] => x = y
      BY <1>0, <2>3, <2>4, <3>1 DEF OneStageIn
    <3>3. s \notin work[r].queued
      BY <1>0, <2>1 DEF OneStageIn
    <3> QED
      BY <1>0, <2>2, <2>3, <2>4, <3>2, <3>3 DEF OneStageIn
  <2> QED
    BY <2>1, <2>5, <2>6, StageStep
<1>3. ASSUME NEW s \in Segments, Abandon(r, s) PROVE OneStage' /\ HeldIsOpen'
  <2> DEFINE w == [work[r] EXCEPT !.inFlight = @ \ {s}]
  <2>1. work' = [work EXCEPT ![r] = w] /\ UNCHANGED runs
    BY <1>3 DEF Abandon
  <2>2. /\ w.queued = work[r].queued /\ w.inFlight = work[r].inFlight \ {s}
        /\ w.sent = work[r].sent
    BY PoolType DEF Pools
  <2> HIDE DEF w
  <2>3. HeldBy(w) \subseteq Held(r)
    BY <2>2, PoolType DEF HeldBy
  <2>4. OneStageIn(w)
    BY <1>0, <2>2 DEF OneStageIn
  <2> QED
    BY <2>1, <2>3, <2>4, StageStep
<1>4. CASE Join(r)
  <2> DEFINE over == IF runs[r].cancelRequested THEN "canceled" ELSE "finished"
             w    == [work[r] EXCEPT !.queued = {}, !.over = over]
  <2>1. work' = [work EXCEPT ![r] = w] /\ UNCHANGED runs
    BY <1>4 DEF Join
  <2>2. w.queued = {} /\ w.inFlight = work[r].inFlight /\ w.sent = work[r].sent
    BY PoolType DEF Pools
  <2> HIDE DEF w
  <2>3. HeldBy(w) \subseteq Held(r)
    BY <2>2, PoolType DEF HeldBy
  <2>4. OneStageIn(w)
    BY <1>0, <2>2 DEF OneStageIn
  <2> QED
    BY <2>1, <2>3, <2>4, StageStep
<1> QED
  BY <1>1, <1>2, <1>3, <1>4 DEF Workers

\* The row whose answer is handled had no outcome; it has one afterwards, and no
\* thread holds it any more.
LEMMA DraftedStage ==
  ASSUME OInv, NEW r \in Runs, NEW x \in work[r].sent, NEW b \in BOOLEAN,
         Drafted(r, x[1], x[2], b)
  PROVE  /\ OneStage' /\ HeldIsOpen'
         /\ runs[r].outcome[x[1]] = "none"
         /\ \A q \in Runs : /\ Known(q) => runs'[q] # Pruned
                            /\ Known(q) => \A s \in Segments :
                                 runs'[q].outcome[s] = runs[q].outcome[s] \/ (q = r /\ s = x[1])
<1> USE DEF OInv
<1> DEFINE s   == x[1]
           a   == x[2]
           out == OutcomeOf(r, s, a)
           w   == [work[r] EXCEPT !.sent = @ \ {<<s, a>>}]
           n   == [runs[r] EXCEPT !.outcome[s] = out,
                                  !.draft[s] = IF out = "pending" THEN a ELSE @]
<1>1. s \in Segments /\ x = <<s, a>> /\ s \in Held(r)
  BY PoolType DEF HeldBy
<1>2. Running(r) /\ Known(r) /\ runs[r] \in RunRecords /\ n # Pruned
  <2>1. Running(r) /\ Known(r) /\ runs[r] \in RunRecords
    BY <1>1, PoolType DEF IInv, HeldInDocument, Running, Known
  <2>2. out \in Outcomes /\ (out = "pending" => a \in Texts)
    BY <1>1, PoolType, AgentAssumption DEF OutcomeOf, Outcomes
  <2>3. n \in RunRecords
    BY <1>1, <2>1, <2>2 DEF RunRecords
  <2> QED
    BY <2>1, <2>3, AgentAssumption
<1>3. work' = [work EXCEPT ![r] = w] /\ runs' = [runs EXCEPT ![r] = n]
  BY <1>2 DEF Drafted
<1>4. /\ w.queued = work[r].queued /\ w.inFlight = work[r].inFlight
      /\ w.sent = work[r].sent \ {x}
  BY <1>1, PoolType DEF Pools
<1>5. n.status = runs[r].status /\ n.outcome = [runs[r].outcome EXCEPT ![s] = out]
  BY <1>2 DEF RunRecords
<1>6. runs[r].outcome[s] = "none"
  BY <1>1, <1>2 DEF HeldIsOpen
<1>7. \A q \in Segments \ {s} : n.outcome[q] = runs[r].outcome[q]
  BY <1>1, <1>2, <1>5 DEF RunRecords
<1> HIDE DEF w, n, out
<1>8. /\ work'[r] = w /\ runs'[r] = n
      /\ \A q \in Runs \ {r} : work'[q] = work[q] /\ runs'[q] = runs[q]
  BY <1>3 DEF IInv, Types
<1>9. OneStageIn(work[r])
  BY DEF OneStage
<1>10. OneStageIn(w)
  BY <1>4, <1>9 DEF OneStageIn
<1>11. OneStage'
  BY <1>8, <1>10 DEF OneStage
<1>12. HeldBy(w) \subseteq Held(r) \ {s}
  <2> SUFFICES ASSUME NEW q \in HeldBy(w) PROVE q \in Held(r) /\ q # s
    OBVIOUS
  <2>1. q \in w.queued \/ q \in w.inFlight \/ \E y \in w.sent : q = y[1]
    BY DEF HeldBy
  <2> QED
    BY <1>1, <1>4, <1>9, <2>1, PoolType DEF HeldBy, OneStageIn
<1>13. Held(r)' = HeldBy(w) /\ \A q \in Runs \ {r} : Held(q)' = Held(q)
  BY <1>8 DEF Held, HeldBy
<1>14. \A q \in Runs \ {r} : Running(q)' = Running(q)
  BY <1>8 DEF Running, Known
<1>15. Held(r) \subseteq Segments
  BY PoolType DEF HeldBy
<1>16. HeldIsOpen'
  <2>1. \A q \in Runs \ {r} : Running(q)' => \A t \in Held(q)' : runs'[q].outcome[t] = "none"
    BY <1>8, <1>13, <1>14 DEF HeldIsOpen
  <2>2. \A t \in Held(r)' : runs'[r].outcome[t] = "none"
    BY <1>2, <1>7, <1>8, <1>12, <1>13, <1>15 DEF HeldIsOpen
  <2> QED
    BY <2>1, <2>2 DEF HeldIsOpen
<1>17. \A q \in Runs : Known(q) => runs'[q] # Pruned
  BY <1>2, <1>8 DEF Known
<1>18. \A q \in Runs, t \in Segments :
         runs'[q].outcome[t] = runs[q].outcome[t] \/ (q = r /\ t = s)
  BY <1>7, <1>8
<1> QED
  BY <1>6, <1>11, <1>16, <1>17, <1>18

\* A step that changes the record of one run without touching open rows.
LEMMA RecordStage ==
  ASSUME OInv, NEW r \in Runs, NEW n,
         runs' = [runs EXCEPT ![r] = n], n \in RunRecords,
         n.status = "running" => Running(r),
         \A s \in Segments : runs[r].outcome[s] = "none" => n.outcome[s] = "none",
         \/ work' = work
         \/ n.status # "running" /\ \E w : work' = [work EXCEPT ![r] = w] /\ OneStageIn(w)
  PROVE  OneStage' /\ HeldIsOpen'
<1> USE DEF OInv
<1>1. runs'[r] = n /\ \A q \in Runs \ {r} : runs'[q] = runs[q] /\ work'[q] = work[q]
  BY DEF IInv, Types
<1>2. OneStageIn(work'[r])
  BY DEF OneStage, IInv, Types
<1>3. OneStage'
  BY <1>1, <1>2 DEF OneStage
<1>4. \A q \in Runs \ {r} : Held(q)' = Held(q) /\ Running(q)' = Running(q)
  BY <1>1 DEF Held, Running, Known
<1>5. Running(r)' => Running(r) /\ Held(r)' = Held(r)
  BY <1>1 DEF Running, Known, Held
<1>6. Held(r) \subseteq Segments
  BY PoolType DEF HeldBy
<1>7. Running(r)' => \A s \in Held(r)' : runs'[r].outcome[s] = "none"
  BY <1>1, <1>5, <1>6 DEF HeldIsOpen
<1> QED
  BY <1>1, <1>3, <1>4, <1>7 DEF HeldIsOpen

\* The end of a run whose channel is empty.
LEMMA TerminalStage ==
  ASSUME OInv, NEW r \in Runs, Terminal(r)
  PROVE  /\ OneStage' /\ HeldIsOpen'
         /\ \A q \in Runs : Known(q) => runs'[q] # Pruned /\ runs'[q].outcome = runs[q].outcome
<1> USE DEF OInv
<1> DEFINE w  == [work[r] EXCEPT !.over = "done"]
           st == IF work[r].over = "canceled" THEN "canceled"
                 ELSE IF runs[r].document \in docs THEN "awaitingReview" ELSE "failed"
           n  == [runs[r] EXCEPT !.status = st]
<1>1. Running(r) /\ Known(r) /\ runs[r] \in RunRecords
  BY PoolType DEF Terminal, Running, Known
<1>2. work' = [work EXCEPT ![r] = w] /\ runs' = [runs EXCEPT ![r] = n]
  BY <1>1 DEF Terminal
<1>3. /\ w.queued = work[r].queued /\ w.inFlight = work[r].inFlight
      /\ w.sent = work[r].sent
  BY PoolType DEF Pools
<1>4. n \in RunRecords /\ n.status = st /\ n.outcome = runs[r].outcome /\ st # "running"
  BY <1>1 DEF RunRecords, Statuses
<1> HIDE DEF w, n, st
<1>5. OneStageIn(w)
  BY <1>3 DEF OneStage, OneStageIn
<1>6. runs'[r] = n /\ \A q \in Runs \ {r} : runs'[q] = runs[q]
  BY <1>2 DEF IInv, Types
<1>7. \A q \in Runs : Known(q) => runs'[q] # Pruned /\ runs'[q].outcome = runs[q].outcome
  BY <1>4, <1>6, AgentAssumption DEF Known
<1>8. OneStage' /\ HeldIsOpen'
  BY <1>2, <1>4, <1>5, RecordStage
<1> QED
  BY <1>7, <1>8

LEMMA CancelStage ==
  ASSUME OInv, NEW r \in Runs, AgentCancel(r)
  PROVE  /\ OneStage' /\ HeldIsOpen'
         /\ \A q \in Runs : Known(q) => runs'[q] # Pruned /\ runs'[q].outcome = runs[q].outcome
<1> USE DEF OInv
<1> DEFINE n == [runs[r] EXCEPT !.cancelRequested = TRUE]
<1>1. Running(r) /\ Known(r) /\ runs[r] \in RunRecords
  BY PoolType DEF AgentCancel, Running, Known
<1>2. runs' = [runs EXCEPT ![r] = n] /\ work' = work
  BY DEF AgentCancel
<1>3. n \in RunRecords /\ n.outcome = runs[r].outcome
  BY <1>1 DEF RunRecords
<1> HIDE DEF n
<1>4. runs'[r] = n /\ \A q \in Runs \ {r} : runs'[q] = runs[q]
  BY <1>2 DEF IInv, Types
<1>5. \A q \in Runs : Known(q) => runs'[q] # Pruned /\ runs'[q].outcome = runs[q].outcome
  BY <1>3, <1>4, AgentAssumption DEF Known
<1>6. OneStage' /\ HeldIsOpen'
  BY <1>1, <1>2, <1>3, RecordStage
<1> QED
  BY <1>5, <1>6

\* A review decides proposals only.
LEMMA ReviewStage ==
  ASSUME OInv, NEW r \in Runs, NEW S \in SUBSET Segments, NEW decision \in {"apply", "reject"},
         AgentReview(r, S, decision)
  PROVE  /\ OneStage' /\ HeldIsOpen'
         /\ \A q \in Runs : Known(q) => /\ runs'[q] # Pruned
                                        /\ \A s \in Segments : runs[q].outcome[s] # "pending" =>
                                             runs'[q].outcome[s] = runs[q].outcome[s]
<1> USE DEF OInv
<1> DEFINE fresh == Undecided(r, S)
           apply == IF decision = "apply" THEN {s \in fresh : StillPending(s)} ELSE {}
           out   == [s \in Segments |->
                       IF s \notin fresh THEN runs[r].outcome[s]
                       ELSE IF decision = "reject" THEN "rejected"
                       ELSE IF s \in apply THEN "applied" ELSE "stale"]
           n     == [runs[r] EXCEPT !.outcome = out]
<1>1. Known(r) /\ runs[r] \in RunRecords
  BY PoolType DEF AgentReview, Known
<1>2. runs' = [runs EXCEPT ![r] = n] /\ work' = work
  BY DEF AgentReview
<1>3. \A s \in fresh : runs[r].outcome[s] = "pending"
  BY DEF Undecided, Pending
<1> HIDE DEF fresh, apply
<1>4. out \in [Segments -> Outcomes]
  BY <1>1 DEF RunRecords, Outcomes
<1>5. \A s \in Segments : runs[r].outcome[s] # "pending" => out[s] = runs[r].outcome[s]
  BY <1>3
<1> HIDE DEF out
<1>6. n \in RunRecords /\ n.outcome = out /\ n.status = runs[r].status
  BY <1>1, <1>4 DEF RunRecords
<1> HIDE DEF n
<1>7. runs'[r] = n /\ \A q \in Runs \ {r} : runs'[q] = runs[q]
  BY <1>2 DEF IInv, Types
<1>8. \A q \in Runs : Known(q) => runs'[q] # Pruned
  BY <1>6, <1>7, AgentAssumption DEF Known
<1>9. \A q \in Runs, s \in Segments : runs[q].outcome[s] # "pending" =>
        runs'[q].outcome[s] = runs[q].outcome[s]
  BY <1>5, <1>6, <1>7
<1>10. OneStage' /\ HeldIsOpen'
  <2>1. \A s \in Segments : runs[r].outcome[s] = "none" => n.outcome[s] = "none"
    BY <1>5, <1>6
  <2>2. n.status = "running" => Running(r)
    BY <1>1, <1>6 DEF Running
  <2> QED
    BY <1>2, <1>6, <2>1, <2>2, RecordStage
<1> QED
  BY <1>8, <1>9, <1>10

\* Pruning drops no run with an open proposal, and a new run holds open rows.
LEMMA StartStage ==
  ASSUME OInv, NEW r \in Runs, NEW d \in Documents, NEW mode \in Modes,
         NEW planned \in SUBSET Segments, NEW b \in BOOLEAN,
         AgentStart(r, d, mode, planned, b)
  PROVE  /\ OneStage' /\ HeldIsOpen'
         /\ \A q \in Runs : Known(q) => \/ runs'[q] = runs[q]
                                        \/ runs'[q] = Pruned /\ Pending(q) = {}
<1> USE DEF OInv
<1> DEFINE hits == {s \in planned : tm[Hash(s)] # Blank}
           run  == [document |-> d, mode |-> mode, status |-> "running",
                    cancelRequested |-> FALSE, planned |-> planned,
                    outcome |-> [s \in Segments |-> IF s \in hits THEN "tm" ELSE "none"],
                    draft |-> [s \in Segments |-> Blank]]
           map  == [runs EXCEPT ![r] = run]
           w    == Pool(planned \ hits)
<1>1. runs[r] = NoRun /\ work' = [work EXCEPT ![r] = w]
  BY DEF AgentStart
<1>2. PICK kept \in SUBSET Runs : PrunedTo(map, kept)
  BY DEF AgentStart
<1> HIDE DEF hits
<1>3. /\ run.status = "running"
      /\ \A s \in planned \ hits : run.outcome[s] = "none"
  OBVIOUS
<1>4. OneStageIn(w) /\ HeldBy(w) = planned \ hits
  BY DEF Pool, OneStageIn, HeldBy
<1> HIDE DEF run, w
<1>5. map[r] = run /\ (\A q \in Runs \ {r} : map[q] = runs[q])
  BY DEF IInv, Types
<1> HIDE DEF map
<1>6. runs'[r] = run
  BY <1>2, <1>3, <1>5 DEF PrunedTo, Prunable
<1>7. \A q \in Runs \ {r} : \/ runs'[q] = runs[q]
                            \/ runs'[q] = Pruned /\ ~Running(q) /\ Pending(q) = {}
  BY <1>2, <1>5 DEF PrunedTo, Prunable, Pending, Running
<1>8. work'[r] = w /\ \A q \in Runs \ {r} : work'[q] = work[q]
  BY <1>1 DEF IInv, Types
<1>9. OneStage'
  BY <1>4, <1>8 DEF OneStage
<1>10. Held(r)' = HeldBy(w) /\ \A q \in Runs \ {r} : Held(q)' = Held(q)
  BY <1>8 DEF Held, HeldBy
<1>11. \A q \in Runs \ {r} : Running(q)' => Running(q) /\ runs'[q] = runs[q]
  BY <1>7 DEF Running, Known
<1>12. HeldIsOpen'
  BY <1>3, <1>4, <1>6, <1>10, <1>11 DEF HeldIsOpen
<1>13. ~Known(r)
  BY <1>1 DEF Known
<1> QED
  BY <1>7, <1>9, <1>12, <1>13

LEMMA QuietStage ==
  ASSUME OInv, UNCHANGED <<runs, work>>
  PROVE  OneStage' /\ HeldIsOpen'
  BY DEF OInv, OneStage, OneStageIn, HeldIsOpen, Running, Known, Held

LEMMA WorkersQuiet ==
  ASSUME NEW r \in Runs, Workers(r)
  PROVE  UNCHANGED runs
  BY DEF Workers, Take, Answer, Abandon, Join

LEMMA PeopleQuiet ==
  ASSUME People
  PROVE  UNCHANGED <<runs, work>>
  BY DEF People, DocumentRemove, Type, Confirm, Lock

LEMMA StageHolds == Spec => []OInv
<1>1. ASSUME OInv, [Next]_vars PROVE OInv'
  <2>1. IInv'
    BY <1>1, NextStep DEF OInv
  <2>2. ASSUME NEW r \in Runs, Workers(r) PROVE OneStage' /\ HeldIsOpen'
    BY <1>1, <2>2, WorkersStage
  <2>3. ASSUME NEW r \in Runs, Events(r) PROVE OneStage' /\ HeldIsOpen'
    BY <1>1, <2>3, DraftedStage, TerminalStage DEF Events
  <2>4. ASSUME NEW r \in Runs, Requests(r) PROVE OneStage' /\ HeldIsOpen'
    BY <1>1, <2>4, StartStage, CancelStage, ReviewStage DEF Requests
  <2>5. ASSUME People PROVE OneStage' /\ HeldIsOpen'
    BY <1>1, <2>5, PeopleQuiet, QuietStage
  <2>6. ASSUME UNCHANGED vars PROVE OneStage' /\ HeldIsOpen'
    BY <1>1, <2>6, QuietStage DEF vars
  <2> QED
    BY <1>1, <2>1, <2>2, <2>3, <2>4, <2>5, <2>6 DEF Next, OInv
<1> QED
  BY <1>1, StageInit, PTL DEF Spec

\* What became of a planned row stays, whatever answers come in late, whoever
\* reviews again and whatever runs are pruned; and no run with a proposal to
\* approve is dropped, for any number of runs, rows and documents.
THEOREM DecisionsStand == Spec => OutcomesAreFinal
<1> DEFINE Final(q) ==
      /\ Pending(q) # {} => runs'[q] # Pruned
      /\ runs'[q] # Pruned => \A s \in Segments :
           runs[q].outcome[s] \notin {"none", "pending"} => runs'[q].outcome[s] = runs[q].outcome[s]
<1>1. ASSUME OInv, [Next]_vars PROVE \A q \in Runs : Known(q) => Final(q)
  <2>1. ASSUME UNCHANGED runs PROVE \A q \in Runs : Known(q) => Final(q)
    BY <2>1 DEF Known
  <2>2. ASSUME NEW r \in Runs, Events(r) PROVE \A q \in Runs : Known(q) => Final(q)
    <3>1. CASE Terminal(r)
      BY <1>1, <3>1, TerminalStage
    <3>2. ASSUME NEW x \in work[r].sent, NEW b \in BOOLEAN, Drafted(r, x[1], x[2], b)
          PROVE  \A q \in Runs : Known(q) => Final(q)
      BY <1>1, <3>2, DraftedStage
    <3> QED
      BY <2>2, <3>1, <3>2 DEF Events
  <2>3. ASSUME NEW r \in Runs, Requests(r) PROVE \A q \in Runs : Known(q) => Final(q)
    <3>1. CASE AgentCancel(r)
      BY <1>1, <3>1, CancelStage
    <3>2. ASSUME NEW S \in SUBSET Segments, NEW decision \in {"apply", "reject"},
                 AgentReview(r, S, decision)
          PROVE  \A q \in Runs : Known(q) => Final(q)
      BY <1>1, <3>2, ReviewStage
    <3>3. ASSUME NEW d \in Documents, NEW mode \in Modes, NEW planned \in SUBSET Segments,
                 NEW b \in BOOLEAN, AgentStart(r, d, mode, planned, b)
          PROVE  \A q \in Runs : Known(q) => Final(q)
      BY <1>1, <3>3, StartStage DEF Known
    <3> QED
      BY <2>3, <3>1, <3>2, <3>3 DEF Requests
  <2> QED
    BY <1>1, <2>1, <2>2, <2>3, WorkersQuiet, PeopleQuiet DEF Next, vars
<1>2. OInv /\ [Next]_vars =>
        [\A r \in Runs : Known(r) =>
           /\ Pending(r) # {} => runs'[r] # Pruned
           /\ runs'[r] # Pruned => \A s \in Segments :
                runs[r].outcome[s] \notin {"none", "pending"} =>
                  runs'[r].outcome[s] = runs[r].outcome[s]]_vars
  BY <1>1
<1> QED
  BY <1>2, StageHolds, PTL DEF Spec, OutcomesAreFinal
===============================================================================
