------------------------------ MODULE HarnessRuns ------------------------------
(***************************************************************************)
(* Whole-document agent runs (ai.harness): one worker thread per run holds *)
(* a conversation with a model and asks the engine thread to run the tools *)
(* that touch engine state.  Requests, traces and the terminal event go    *)
(* through the engine's event channel; the result of a tool comes back     *)
(* through a channel of the run, on which the worker blocks.               *)
(*                                                                         *)
(* What the tools do to rows and issues is in AiDrafts.                    *)
(***************************************************************************)
EXTENDS Integers, Sequences, FiniteSets

CONSTANTS
  Runs,         \* run ids, each used once
  Documents,
  MaxTurns,     \* HARNESS_MAX_TURNS_CAP
  MaxRunning,   \* HARNESS_MAX_CONCURRENT_RUNS
  History,      \* HARNESS_TERMINAL_HISTORY
  NoRun, Pruned

Statuses == {"running", "awaitingReview", "failed", "canceled"}

RunRecords == [document : Documents, status : Statuses, cancelRequested : BOOLEAN,
               maxTurns : 1..MaxTurns, turns : Nat]

ASSUME HarnessAssumption ==
  /\ MaxTurns \in Nat \ {0} /\ MaxRunning \in Nat /\ History \in Nat
  /\ NoRun # Pruned /\ \A x \in {NoRun, Pruned} : x \notin RunRecords

VARIABLES
  runs,      \* the harness_runs map
  worker,    \* worker[r]: where the thread is, the turns and failures it counts
  events,    \* events[r]: what the engine has not handled yet of run r.  The
             \* channel is shared by all runs; only the order within a run matters
  replies,   \* replies[r]: tool results the worker has not received
  late       \* history, late[r]: tools executed after a cancel was requested

vars == <<runs, worker, events, replies, late>>

Known(r) == runs[r] \notin {NoRun, Pruned}
Running(r) == Known(r) /\ runs[r].status = "running"

\* Before the first turn, or after the thread has returned.
Gone == [at |-> "gone", left |-> 0, failures |-> 0]

-----------------------------------------------------------------------------
(* Requests: ai.harness.start, ai.harness.cancel.                          *)

\* Variant: a run that was asked to stop does not block a new one.
StartableAfterCancel(d) ==
  /\ ~\E r \in Runs : Running(r) /\ runs[r].document = d /\ ~runs[r].cancelRequested
  /\ Cardinality({r \in Runs : Running(r)}) < MaxRunning

Startable(d) ==
  /\ ~\E r \in Runs : Running(r) /\ runs[r].document = d
  /\ Cardinality({r \in Runs : Running(r)}) < MaxRunning

\* Variant: runs are dropped by age alone.
PrunableAny(map) == {r \in Runs : map[r] \notin {NoRun, Pruned}}

Prunable(map) == {r \in Runs : map[r] \notin {NoRun, Pruned} /\ map[r].status # "running"}

\* The History latest terminal runs are kept; their clock is not modelled.
PrunedTo(map, kept) ==
  /\ kept \subseteq Prunable(map)
  /\ Cardinality(kept) = IF Cardinality(Prunable(map)) <= History
                         THEN Cardinality(Prunable(map)) ELSE History
  /\ runs' = [r \in Runs |-> IF r \in Prunable(map) \ kept THEN Pruned ELSE map[r]]

HarnessStart(r, d, maxTurns) ==
  LET run == [document |-> d, status |-> "running", cancelRequested |-> FALSE,
              maxTurns |-> maxTurns, turns |-> 0]
  IN /\ runs[r] = NoRun /\ Startable(d)
     /\ worker' = [worker EXCEPT ![r] = [at |-> "turn", left |-> maxTurns, failures |-> 0]]
     /\ \E kept \in SUBSET Runs : PrunedTo([runs EXCEPT ![r] = run], kept)
     /\ UNCHANGED <<events, replies, late>>

HarnessCancel(r) ==
  /\ Running(r)
  /\ runs' = [runs EXCEPT ![r].cancelRequested = TRUE]
  /\ UNCHANGED <<worker, events, replies, late>>

-----------------------------------------------------------------------------
(* The worker thread: run_conversation().                                  *)

Send(r, list) == events' = [events EXCEPT ![r] = @ \o list]

\* The thread returns with a last event.
End(r, list) ==
  /\ Send(r, list)
  /\ worker' = [worker EXCEPT ![r] = Gone]

\* Variant: the flag is only looked at inside the provider call.
CancelUnseen(r) == FALSE

\* The flag as the thread sees it at the turn boundary.
CancelSeen(r) == runs[r].cancelRequested

\* Variant: the circuit breaker is missing.
BudgetUnchecked(r) == FALSE

BudgetUsed(r) == worker[r].left = 0

\* A turn begins, unless the budget is used up or the run was canceled.
TurnBegins(r) ==
  /\ worker[r].at = "turn"
  /\ IF BudgetUsed(r) THEN End(r, <<"exhausted">>)
     ELSE IF CancelSeen(r) THEN End(r, <<"canceled">>)
     ELSE /\ worker' = [worker EXCEPT ![r].at = "model", ![r].left = @ - 1]
          /\ UNCHANGED events
  /\ UNCHANGED <<runs, replies, late>>

\* The provider call fails, or is given up because of a cancel.
CallFails(r) ==
  /\ worker[r].at = "model"
  /\ \/ End(r, <<"failed">>)
     \/ runs[r].cancelRequested /\ End(r, <<"canceled">>)
  /\ UNCHANGED <<runs, replies, late>>

\* Variant: the correction turn is free.
CorrectionFree(r) == [worker[r] EXCEPT !.at = "turn", !.left = @ + 1, !.failures = 1]

\* The thread after a first reply that holds no tool call.
Correction(r) == [worker[r] EXCEPT !.at = "turn", !.failures = 1]

\* The reply holds no tool call: a second one in a row fails the run.
Unparseable(r) ==
  /\ worker[r].at = "model"
  /\ IF worker[r].failures = 1 THEN End(r, <<"model", "failed">>)
     ELSE Send(r, <<"model">>) /\ worker' = [worker EXCEPT ![r] = Correction(r)]
  /\ UNCHANGED <<runs, replies, late>>

Finish(r) ==
  /\ worker[r].at = "model"
  /\ End(r, <<"model", "finished">>)
  /\ UNCHANGED <<runs, replies, late>>

\* The network stays on the worker: the fetch ends by its timeout.
WebFetch(r) ==
  /\ worker[r].at = "model"
  /\ Send(r, <<"model", "web">>)
  /\ worker' = [worker EXCEPT ![r].at = "turn", ![r].failures = 0]
  /\ UNCHANGED <<runs, replies, late>>

\* Any other tool is asked of the engine, and the thread blocks on the reply.
ToolCall(r) ==
  /\ worker[r].at = "model"
  /\ Send(r, <<"model", "tool">>)
  /\ worker' = [worker EXCEPT ![r].at = "waiting", ![r].failures = 0]
  /\ UNCHANGED <<runs, replies, late>>

Receive(r) ==
  /\ worker[r].at = "waiting" /\ replies[r] # <<>>
  /\ replies' = [replies EXCEPT ![r] = Tail(@)]
  /\ worker' = [worker EXCEPT ![r].at = "turn"]
  /\ UNCHANGED <<runs, events, late>>

-----------------------------------------------------------------------------
(* The engine thread handles an event of run r.                            *)

\* Variant: a canceled run gets no reply.
AnsweredUnlessCanceled(r) == Running(r) /\ ~runs[r].cancelRequested

\* A tool request is answered as long as the run is known, with an error when
\* the run is not running any more.
Answered(r) == Known(r)

StatusAfter(event) ==
  CASE event \in {"finished", "exhausted"} -> "awaitingReview"
    [] event = "failed"   -> "failed"
    [] event = "canceled" -> "canceled"
    [] OTHER              -> "running"

Handle(r) ==
  LET event == Head(events[r])
  IN /\ events[r] # <<>>
     /\ events' = [events EXCEPT ![r] = Tail(@)]
     /\ runs' = IF ~Running(r) THEN runs
                ELSE [runs EXCEPT ![r].status = StatusAfter(event),
                                  ![r].turns = IF event = "model" THEN @ + 1 ELSE @]
     /\ replies' = IF event = "tool" /\ Answered(r)
                   THEN [replies EXCEPT ![r] = Append(@, "result")] ELSE replies
     /\ late' = IF event = "tool" /\ Running(r) /\ runs[r].cancelRequested
                THEN [late EXCEPT ![r] = @ + 1] ELSE late
     /\ UNCHANGED worker

-----------------------------------------------------------------------------
Init ==
  /\ runs = [r \in Runs |-> NoRun]
  /\ worker = [r \in Runs |-> Gone]
  /\ events = [r \in Runs |-> <<>>]
  /\ replies = [r \in Runs |-> <<>>]
  /\ late = [r \in Runs |-> 0]

Worker(r) ==
  \/ TurnBegins(r) \/ CallFails(r) \/ Unparseable(r)
  \/ Finish(r) \/ WebFetch(r) \/ ToolCall(r) \/ Receive(r)

Next ==
  \E r \in Runs :
    \/ \E d \in Documents, maxTurns \in 1..MaxTurns : HarnessStart(r, d, maxTurns)
    \/ HarnessCancel(r)
    \/ Worker(r)
    \/ Handle(r)

Spec == Init /\ [][Next]_vars

\* A provider call and a fetch end by their timeouts, and the engine loop drains
\* its channel; no tool of the engine blocks.
FairSpec == Spec /\ \A r \in Runs : WF_vars(Worker(r)) /\ WF_vars(Handle(r))

-----------------------------------------------------------------------------
(* Properties *)

EventNames == {"model", "web", "tool", "finished", "exhausted", "failed", "canceled"}

TypeOK ==
  /\ runs \in [Runs -> RunRecords \cup {NoRun, Pruned}]
  /\ worker \in [Runs -> [at : {"gone", "turn", "model", "waiting"},
                          left : 0..MaxTurns, failures : {0, 1}]]
  /\ \A r \in Runs : events[r] \in Seq(EventNames) /\ replies[r] \in Seq({"result"})
  /\ late \in [Runs -> Nat]

Alive(r) == worker[r].at # "gone" \/ events[r] # <<>>

\* Whatever a worker still does or has sent finds its run running: no run turns
\* terminal, or is pruned, over a thread that is not done.
EventsFindTheirRun == \A r \in Runs : Alive(r) => Running(r)

\* A document is in one conversation at a time, also while a canceled one winds
\* down.
OneConversationPerDocument ==
  \A r, q \in Runs : r # q /\ Alive(r) /\ Alive(q) => runs[r].document # runs[q].document

Count(r, event) == Cardinality({i \in DOMAIN events[r] : events[r][i] = event})

\* A worker that waits has asked exactly one question or has exactly one answer;
\* one that does not wait has none.  So no worker waits for ever, and none takes
\* an old result for the answer to its call.
ReplyPerRequest ==
  \A r \in Runs :
    Count(r, "tool") + Len(replies[r]) = IF worker[r].at = "waiting" THEN 1 ELSE 0

\* The turns a run reports are turns its conversation took, and a run that says
\* its budget is exhausted has used it up.
TurnsAreHonest ==
  \A r \in Runs : Known(r) =>
    /\ runs[r].turns + Count(r, "model") + worker[r].left <= runs[r].maxTurns
    /\ Count(r, "exhausted") > 0 => runs[r].turns + Count(r, "model") = runs[r].maxTurns

\* A cancel stops the tools: at most the one the model was about to ask for, or
\* had asked for, still runs.
CancelStopsTools == \A r \in Runs : late[r] <= 1

\* A run ends, whatever the model says.
RunsEnd == \A r \in Runs : Running(r) ~> ~Running(r)
=============================================================================
