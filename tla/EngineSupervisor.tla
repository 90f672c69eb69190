--------------------------- MODULE EngineSupervisor ---------------------------
(***************************************************************************)
(* The Electron main process keeps one engine process running: it spawns   *)
(* it, shakes hands with it, matches answers to calls, restarts it when it *)
(* dies, within a budget, and replaces it when the user asks for it.       *)
(*                                                                         *)
(* JavaScript runs one callback at a time: a timer, a frame from a pipe, a *)
(* child's exit, a call of the application.  What follows a rejected or    *)
(* resolved promise runs before the next callback and is part of the same  *)
(* action.  The engine processes run beside it, at their own pace.         *)
(***************************************************************************)
EXTENDS Integers, Sequences, FiniteSets

CONSTANTS
  Calls,          \* calls of the application, each made once
  MaxRestarts,    \* automatic restarts between two relaunches
  MaxRelaunches   \* bound: relaunches by the user

ASSUME SupervisorAssumption ==
  /\ MaxRestarts \in Nat /\ MaxRelaunches \in Nat
  /\ Calls \cap Int = {}

\* No run of the model spawns more children than this.
MaxSpawns == (MaxRestarts + 1) * (MaxRelaunches + 1)
Children == 1..MaxSpawns
NoChild == 0

\* What a frame asks for: a call, the handshake of a child (named by the
\* child), or the shutdown.
Shutdown == -1
Requests == Calls \cup Children \cup {Shutdown}

VARIABLES
  state,       \* "starting", "ready", "restarting" or "down", as the user sees it
  child,       \* the current child, or NoChild
  restarts,    \* automatic restarts since the last relaunch
  timer,       \* a restart is scheduled
  stopped,     \* stop() was called
  doomed,      \* the child stop() will kill unless it exits first, or NoChild
  relaunches,  \* relaunches so far
  nextId,      \* the next request id
  pending,     \* the calls that wait: records of id, request and child
  result,      \* what became of each call
  answers,     \* history: calls that were answered, each with the request the
               \* answer was made for
  proc,        \* proc[c]: "none", "running" or "dead"
  killed,      \* children that were sent a signal
  heard,       \* children whose events still reach the supervisor
  stdin,       \* stdin[c]: frames child c, if it is alive, has not read
  stdout       \* stdout[c]: answers of child c, if it is heard, not read yet

vars == <<state, child, restarts, timer, stopped, doomed, relaunches, nextId, pending,
          result, answers, proc, killed, heard, stdin, stdout>>

main    == <<state, child, restarts, timer, stopped, doomed, relaunches, nextId>>
signals == <<killed, heard>>

\* A frame written to child c; a dead one does not read it.
Sent(c, frame) ==
  [stdin EXCEPT ![c] = IF proc[c] = "running" THEN Append(@, frame) ELSE @]

Spawned == Cardinality({c \in Children : proc[c] # "none"})

\* The calls among the entries of P.
CallsOf(P) == {p.request : p \in P} \cap Calls

-----------------------------------------------------------------------------
(* Pieces of handlers.  Each takes the values its predecessors produced.   *)

\* start(): spawn the next child and send it the handshake; queue is what
\* waits already.
Start(queue) ==
  LET c == Spawned + 1
  IN /\ state' = "starting"
     /\ child' = c
     /\ proc' = [proc EXCEPT ![c] = "running"]
     /\ nextId' = nextId + 1
     /\ pending' = queue \cup {[id |-> nextId, request |-> c, child |-> c]}
     /\ stdin' = [stdin EXCEPT ![c] = <<[id |-> nextId, request |-> c]>>]

\* The calls among the entries of P come to an end.
Settle(P, reason) ==
  [k \in Calls |-> IF k \in CallsOf(P) THEN reason ELSE result[k]]

\* Variant: the calls are forgotten, not rejected.
RejectNone(P) == result

\* rejectPending(): every entry of P is rejected.
Reject(P) == Settle(P, "engineDown")

\* The handshake continuation after the entries of P were rejected: only the
\* current child's outcome drives the state, which is next otherwise.
HandshakeState(P, current, next) ==
  IF \E p \in P : p.request \in Children /\ p.request = current THEN "down" ELSE next

-----------------------------------------------------------------------------
(* request(): refused at once without a child.                             *)

Call(k) ==
  /\ result[k] = "none"
  /\ IF child = NoChild
     THEN /\ result' = [result EXCEPT ![k] = "engineDown"]
          /\ UNCHANGED <<nextId, pending, stdin>>
     ELSE /\ result' = [result EXCEPT ![k] = "waiting"]
          /\ nextId' = nextId + 1
          /\ pending' = pending \cup {[id |-> nextId, request |-> k, child |-> child]}
          /\ stdin' = Sent(child, [id |-> nextId, request |-> k])
  /\ UNCHANGED <<state, child, restarts, timer, stopped, doomed, relaunches, answers,
                 proc, signals, stdout>>

\* An entry is given up: its timer fired, or its frame could not be written to
\* a dead child.
GiveUp(p, reason) ==
  /\ p \in pending
  /\ pending' = pending \ {p}
  /\ result' = Settle({p}, reason)
  /\ state' = HandshakeState({p}, child, state)
  /\ UNCHANGED <<child, restarts, timer, stopped, doomed, relaunches, nextId, answers,
                 proc, signals, stdin, stdout>>

Timeout(p) == GiveUp(p, "timeout")

WriteFails(p) == proc[p.child] = "dead" /\ GiveUp(p, "engineDown")

\* Variant: answers are taken to come in the order of the requests.
EntryOldest(frame) == {p \in pending : \A q \in pending : p.id <= q.id}

\* The entry that waits for the answer, if there is one still.
Entry(frame) == {p \in pending : p.id = frame.id}

\* onFrame(): the answer settles its entry.
Frame(c) ==
  LET frame == Head(stdout[c])
      entry == Entry(frame)
  IN /\ c \in heard /\ stdout[c] # <<>>
     /\ stdout' = [stdout EXCEPT ![c] = Tail(@)]
     /\ pending' = pending \ entry
     /\ result' = Settle(entry, "answered")
     /\ answers' = answers \cup (CallsOf(entry) \X {frame.request})
     /\ state' = IF \E p \in entry : p.request = child
                 THEN IF frame.ok THEN "ready" ELSE "down"
                 ELSE state
     /\ UNCHANGED <<child, restarts, timer, stopped, doomed, relaunches, nextId,
                    proc, signals, stdin>>

\* Variant: one restart too many.
BudgetOffByOne == restarts <= MaxRestarts

\* The restart budget is not used up.
Budget == restarts < MaxRestarts

\* handleExit(), on "exit" and on "error", one or both of which a dead child
\* brings: only the first counts, and none of a child that was replaced.
HandleExit(c) ==
  LET again == ~stopped /\ Budget
      next  == IF stopped THEN state ELSE IF again THEN "restarting" ELSE "down"
  IN /\ proc[c] = "dead" /\ c \in heard /\ child = c
     /\ child' = NoChild
     /\ pending' = {}
     /\ result' = Reject(pending)
     /\ restarts' = IF again THEN restarts + 1 ELSE restarts
     /\ timer' = (timer \/ again)
     /\ state' = HandshakeState(pending, NoChild, next)
     /\ UNCHANGED <<stopped, doomed, relaunches, nextId, answers, proc, signals, stdin, stdout>>

\* Variant: a restart scheduled earlier spawns even after stop().
StartableAlways == TRUE

\* start() does nothing once stopped.
Startable == ~stopped

TimerFires ==
  /\ timer /\ timer' = FALSE
  /\ IF Startable THEN Start(pending) ELSE UNCHANGED <<state, child, proc, nextId, pending, stdin>>
  /\ UNCHANGED <<restarts, stopped, doomed, relaunches, result, answers, signals, stdout>>

\* Variant: the scheduled restart is left to fire.
ScheduledKept == timer

\* A pending restart would spawn on top of the relaunch.
Scheduled == FALSE

\* relaunch(): detach and kill the child, if any, without waiting for its end,
\* and start over with a new budget.
Relaunch ==
  /\ ~stopped /\ relaunches < MaxRelaunches
  /\ relaunches' = relaunches + 1
  /\ heard' = heard \ {child}
  /\ killed' = IF child = NoChild THEN killed ELSE killed \cup {child}
  /\ timer' = Scheduled
  /\ result' = Reject(pending)
  /\ restarts' = 0
  /\ Start({})
  /\ stdout' = [c \in Children |-> IF c = child THEN <<>> ELSE stdout[c]]
  /\ UNCHANGED <<stopped, doomed, answers>>

\* stop(): ask the child to shut down and kill it if it does not.
Stop ==
  /\ ~stopped
  /\ stopped' = TRUE
  /\ IF child = NoChild
     THEN UNCHANGED <<doomed, nextId, stdin>>
     ELSE /\ doomed' = child
          /\ nextId' = nextId + 1
          /\ stdin' = Sent(child, [id |-> nextId, request |-> Shutdown])
  /\ UNCHANGED <<state, child, restarts, timer, relaunches, pending, result, answers,
                 proc, signals, stdout>>

KillDoomed ==
  /\ doomed # NoChild
  /\ doomed' = NoChild
  /\ killed' = killed \cup {doomed}
  /\ UNCHANGED <<state, child, restarts, timer, stopped, relaunches, nextId, pending, result,
                 answers, proc, heard, stdin, stdout>>

-----------------------------------------------------------------------------
(* The engine: one frame at a time, an answer for each; only a handshake   *)
(* may be refused as far as the supervisor is concerned.                   *)

Execute(c) ==
  LET frame == Head(stdin[c])
  IN /\ proc[c] = "running" /\ stdin[c] # <<>>
     /\ stdin' = [stdin EXCEPT ![c] = Tail(@)]
     /\ \E ok \in IF frame.request \in Children THEN BOOLEAN ELSE {TRUE} :
          stdout' = [stdout EXCEPT ![c] =
            IF c \in heard
            THEN Append(@, [id |-> frame.id, request |-> frame.request, ok |-> ok]) ELSE @]
     /\ proc' = IF frame.request = Shutdown THEN [proc EXCEPT ![c] = "dead"] ELSE proc
     /\ UNCHANGED <<main, pending, result, answers, signals>>

\* A child dies: a crash, a failed spawn, or the signal it was sent.
Die(c) ==
  /\ proc[c] = "running"
  /\ proc' = [proc EXCEPT ![c] = "dead"]
  /\ stdin' = [stdin EXCEPT ![c] = <<>>]
  /\ UNCHANGED <<main, pending, result, answers, signals, stdout>>

-----------------------------------------------------------------------------
Init ==
  /\ state = "starting" /\ child = 1 /\ restarts = 0 /\ timer = FALSE
  /\ stopped = FALSE /\ doomed = NoChild /\ relaunches = 0 /\ nextId = 2
  /\ pending = {[id |-> 1, request |-> 1, child |-> 1]}
  /\ result = [k \in Calls |-> "none"] /\ answers = {}
  /\ proc = [c \in Children |-> IF c = 1 THEN "running" ELSE "none"]
  /\ killed = {} /\ heard = Children
  /\ stdin = [c \in Children |-> IF c = 1 THEN <<[id |-> 1, request |-> 1]>> ELSE <<>>]
  /\ stdout = [c \in Children |-> <<>>]

Application == (\E k \in Calls : Call(k)) \/ Relaunch \/ Stop

Next ==
  \/ Application
  \/ \E p \in pending : Timeout(p) \/ WriteFails(p)
  \/ \E c \in Children : Frame(c) \/ HandleExit(c) \/ Execute(c) \/ Die(c)
  \/ TimerFires
  \/ KillDoomed

Spec == Init /\ [][Next]_vars

\* Timers fire, the exit of a process is delivered, a signal ends a process.
\* Nothing obliges an engine to answer, to crash or to keep running.
FairSpec ==
  /\ Spec
  /\ WF_vars(\E p \in pending : Timeout(p))
  /\ WF_vars(TimerFires)
  /\ WF_vars(KillDoomed)
  /\ \A c \in Children : WF_vars(HandleExit(c)) /\ WF_vars(c \in killed /\ Die(c))

-----------------------------------------------------------------------------
(* Properties *)

Frames == [id : Nat, request : Requests]
AnswerFrames == [id : Nat, request : Requests, ok : BOOLEAN]
Entries == [id : Nat, request : Calls \cup Children, child : Children]

TypeOK ==
  /\ state \in {"starting", "ready", "restarting", "down"}
  /\ child \in Children \cup {NoChild}
  /\ restarts \in 0..MaxRestarts
  /\ {timer, stopped} \subseteq BOOLEAN
  /\ doomed \in Children \cup {NoChild}
  /\ relaunches \in 0..MaxRelaunches
  /\ nextId \in Nat
  /\ pending \subseteq Entries
  /\ result \in [Calls -> {"none", "waiting", "timeout", "engineDown", "answered"}]
  /\ answers \subseteq Calls \X Requests
  /\ proc \in [Children -> {"none", "running", "dead"}]
  /\ killed \in SUBSET Children /\ heard \in SUBSET Children
  /\ stdin \in [Children -> Seq(Frames)]
  /\ stdout \in [Children -> Seq(AnswerFrames)]

\* A call is answered with the answer to itself, however many engines have come
\* and gone: a frame of an earlier engine that is read late resolves nothing.
AnswersMatchCalls == \A x \in answers : x[2] = x[1]

\* Crashes, restarts and relaunches never leave two engines that were not told
\* to go: each would hold the same data directory.
OneWantedEngine ==
  Cardinality({c \in Children : proc[c] = "running" /\ c \notin killed}) <= 1

\* What the user is told is what happens: "restarting" means a restart is
\* scheduled and nothing is scheduled otherwise, so that a user who reads "down"
\* is not overtaken; "ready" means a child that shook hands.
StatusIsHonest ==
  ~stopped =>
    /\ timer <=> state = "restarting"
    /\ state \in {"starting", "ready"} => child # NoChild
    /\ state = "starting" <=> \E p \in pending : p.request = child

\* A call of the application settles, whatever becomes of the engine.
CallsSettle == \A k \in Calls : result[k] = "waiting" ~> result[k] # "waiting"

\* After stop() no engine is left.
EnginesEnd == stopped ~> \A c \in Children : proc[c] # "running"
=============================================================================
