----------------------------- MODULE AssistRuns -----------------------------
(***************************************************************************)
(* AI assist: the provider profiles of a session, one provider call per    *)
(* request on a worker thread, the event that brings its outcome to the    *)
(* engine loop, cancels that race with it, and the short history clients   *)
(* poll.  The answer arrives as a stream of pieces.                        *)
(***************************************************************************)
EXTENDS Naturals, FiniteSets, SequencesExt

CONSTANTS
  Segments,
  Default,      \* the profile id ai.configure writes
  AddedIds,     \* profile ids ai.profile.add hands out
  Assists,      \* assist run ids
  Pieces,       \* what a provider may say
  None,
  MaxProfiles,  \* profiles a session may hold
  History,      \* ended runs that stay for polling
  MaxPieces,    \* bound: pieces of one answer
  MaxProfileCalls \* bound: calls that change the profiles

ASSUME AssistAssumption ==
  /\ MaxProfiles \in Nat \ {0} /\ History \in Nat
  /\ Default \notin AddedIds /\ None \notin Assists

VARIABLES
  profiles,  \* the profiles of the session, in the order they were added
  default,   \* the profile of a request that names none, or None
  rows,      \* what people made of each row: "blank", "draft", "closed"
  runs,      \* the runs the engine knows; None before and after
  worker,    \* each run's worker: where it is and the text so far
  events,    \* outcomes under way to the engine loop
  ended,     \* the ended runs by the time stamp of their end, oldest first
  calls

assistVars == <<profiles, default, rows, runs, worker, events, ended, calls>>

ProfileIds == {Default} \cup AddedIds
Known == {r \in Assists : runs[r] # None}
Running == {r \in Known : runs[r].status = "running"}
Terminal == Known \ Running

AssistInit ==
  /\ profiles = <<>> /\ default = None
  /\ rows \in [Segments -> {"blank", "draft", "closed"}]
  /\ runs = [r \in Assists |-> None]
  /\ worker = [r \in Assists |-> [at |-> "idle", text |-> <<>>]]
  /\ events = <<>> /\ ended = <<>> /\ calls = 0

-----------------------------------------------------------------------------
(* Profiles *)

ProfileCall == calls < MaxProfileCalls /\ calls' = calls + 1
               /\ UNCHANGED <<rows, runs, worker, events, ended>>

\* ai.configure writes the one profile with the reserved id and prefers it.
Configure ==
  /\ ProfileCall
  /\ profiles' = IF Contains(profiles, Default) THEN profiles ELSE Append(profiles, Default)
  /\ default' = Default

\* An id is never handed out twice; a run may still carry a removed one.
ProfileAdd ==
  \E id \in AddedIds :
    /\ Len(profiles) < MaxProfiles
    /\ ~Contains(profiles, id) /\ \A r \in Known : runs[r].profile # id
    /\ ProfileCall
    /\ profiles' = Append(profiles, id)
    /\ default' = IF default = None THEN id ELSE default

\* Variant: the default is forgotten with its profile.
HeirNone(rest) == None

Heir(rest) == IF rest = <<>> THEN None ELSE Head(rest)

\* The entries with the id go; there is one, since no id is added twice.
ProfileRemove ==
  \E i \in DOMAIN profiles :
    /\ ProfileCall
    /\ profiles' = RemoveAt(profiles, i)
    /\ default' = IF default = profiles[i] THEN Heir(profiles') ELSE default

\* The profile a request runs with: the one it names or the default one.
Resolved(requested) ==
  IF requested = None THEN default
  ELSE IF Contains(profiles, requested) THEN requested ELSE None

-----------------------------------------------------------------------------
(* Requests *)

\* Variant: one flight per profile is not enforced.
FreeAlways(s, id) == TRUE

\* One request per row and profile; a canceled one does not block the next.
Free(s, id) ==
  \A r \in Running : runs[r].cancel \/ runs[r].segment # s \/ runs[r].profile # id

Workable(s, action) ==
  /\ rows[s] # "closed"                           \* confirmed or locked
  /\ action = "refine" => rows[s] # "blank"

\* The oldest ended runs beyond the history; order is oldest first.
Prunable(order) == {order[i] : i \in {j \in DOMAIN order : j <= Len(order) - History}}

Pruned(all) ==
  LET order == SelectSeq(ended, LAMBDA r : all[r] # None)
  IN [r \in Assists |-> IF r \in Prunable(order) THEN None ELSE all[r]]

\* Which new id a run gets makes no difference.
Unstarted == {r \in Assists : worker[r].at = "idle"}

AssistStart ==
  \E s \in Segments, action \in {"translate", "refine"}, requested \in ProfileIds \cup {None} :
    LET id == Resolved(requested)
        r  == CHOOSE q \in Unstarted : TRUE
    IN /\ Unstarted # {}
       /\ Workable(s, action) /\ id # None /\ Free(s, id)
       /\ runs' = Pruned([runs EXCEPT ![r] =
            [segment |-> s, profile |-> id, status |-> "running", cancel |-> FALSE,
             result |-> None]])
       /\ worker' = [worker EXCEPT ![r].at = "spawned"]
       /\ UNCHANGED <<profiles, default, rows, events, ended, calls>>

\* The flag the worker polls and the mark in the view are set together.
AssistCancel ==
  \E r \in Running :
    /\ runs' = [runs EXCEPT ![r].cancel = TRUE]
    /\ UNCHANGED <<profiles, default, rows, worker, events, ended, calls>>

\* People edit, confirm and lock rows as they like; a run does not hold a row.
PersonEdits ==
  \E s \in Segments, state \in {"draft", "closed"} :
    /\ rows[s] # state
    /\ rows' = [rows EXCEPT ![s] = state]
    /\ UNCHANGED <<profiles, default, runs, worker, events, ended, calls>>

-----------------------------------------------------------------------------
(* The worker and its provider call; the outcome None is an error. *)

\* Variant: only answers are reported.
SendAnswers(r, outcome) ==
  /\ worker' = [worker EXCEPT ![r].at = "sent"]
  /\ events' = IF outcome = None THEN events ELSE Append(events, [run |-> r, outcome |-> outcome])

Send(r, outcome) ==
  /\ worker' = [worker EXCEPT ![r].at = "sent"]
  /\ events' = Append(events, [run |-> r, outcome |-> outcome])

\* A call canceled before it is made is not made.
ProviderCall(r) ==
  /\ worker[r].at = "spawned"
  /\ IF runs[r].cancel
     THEN Send(r, None)
     ELSE worker' = [worker EXCEPT ![r].at = "reading"] /\ UNCHANGED events

\* A piece of text, or the full text of a terminal event when none came before.
Receive(r) ==
  /\ worker[r].at = "reading" /\ Len(worker[r].text) < MaxPieces
  /\ \E piece \in Pieces : worker' = [worker EXCEPT ![r].text = Append(@, piece)]
  /\ UNCHANGED events

\* The terminal event or the end of the stream; an answer without text is none.
StreamEnds(r) ==
  /\ worker[r].at = "reading"
  /\ Send(r, IF worker[r].text = <<>> THEN None ELSE worker[r].text)

\* The provider refuses, fails or times out, or says what cannot be parsed.
CallFails(r) == worker[r].at = "reading" /\ Send(r, None)

\* The watcher drops the connection; an answer that is ready may still be first.
Abort(r) == worker[r].at = "reading" /\ runs[r].cancel /\ Send(r, None)

WorkerStep(r) ==
  /\ ProviderCall(r) \/ Receive(r) \/ StreamEnds(r) \/ CallFails(r) \/ Abort(r)
  /\ UNCHANGED <<profiles, default, rows, runs, ended, calls>>

-----------------------------------------------------------------------------
(* The engine loop *)

\* Variant: an answer that came in time is shown.
OutcomeInTime(run, outcome) ==
  IF outcome = None
  THEN [run EXCEPT !.status = IF run.cancel THEN "canceled" ELSE "failed"]
  ELSE [run EXCEPT !.status = "done", !.result = outcome]

\* A cancel that lost the race to the answer still wins.
Outcome(run, outcome) ==
  IF run.cancel THEN [run EXCEPT !.status = "canceled"]
  ELSE IF outcome = None THEN [run EXCEPT !.status = "failed"]
  ELSE [run EXCEPT !.status = "done", !.result = outcome]

AssistFinished ==
  /\ events # <<>>
  /\ events' = Tail(events)
  /\ LET r == Head(events).run
     IN IF r \in Running
        THEN /\ runs' = [runs EXCEPT ![r] = Outcome(@, Head(events).outcome)]
             /\ ended' = Append(ended, r)
        ELSE UNCHANGED <<runs, ended>>
  /\ UNCHANGED <<profiles, default, rows, worker, calls>>

AssistNext ==
  \/ Configure \/ ProfileAdd \/ ProfileRemove
  \/ AssistStart \/ AssistCancel \/ PersonEdits
  \/ \E r \in Assists : WorkerStep(r)
  \/ AssistFinished

\* A provider that sends no end is cut off by the timeout of the profile: a
\* worker always has a step that ends its call, and the loop serves its events.
Fairness ==
  /\ \A r \in Assists :
       /\ WF_assistVars(ProviderCall(r) /\ UNCHANGED <<profiles, default, rows, runs, ended, calls>>)
       /\ WF_assistVars((StreamEnds(r) \/ CallFails(r))
                         /\ UNCHANGED <<profiles, default, rows, runs, ended, calls>>)
  /\ WF_assistVars(AssistFinished)

AssistSpec == AssistInit /\ [][AssistNext]_assistVars /\ Fairness

-----------------------------------------------------------------------------
(* Properties *)

RunRows ==
  [segment : Segments, profile : ProfileIds, cancel : BOOLEAN,
   status : {"running", "done", "failed", "canceled"}, result : Seq(Pieces) \cup {None}]

AssistTypeOK ==
  /\ profiles \in Seq(ProfileIds) /\ Len(profiles) <= MaxProfiles + 1
  /\ default \in ProfileIds \cup {None}
  /\ runs \in [Assists -> RunRows \cup {None}]
  /\ \A r \in Assists : worker[r].at \in {"idle", "spawned", "reading", "sent"}

(* A request somebody canceled shows no draft, also when the answer was on  *)
(* its way already; and whether it is canceled never changes afterwards.    *)
CancelWins ==
  \A r \in Known : runs[r].cancel => runs[r].status \in {"running", "canceled"} /\ runs[r].result = None

(* At most one request nobody canceled is in flight for a row and profile,  *)
(* whatever is removed, added and retried in between.                       *)
OneInFlight ==
  \A r, q \in Running :
    r # q /\ ~runs[r].cancel /\ ~runs[q].cancel =>
      runs[r].segment # runs[q].segment \/ runs[r].profile # runs[q].profile

(* As long as a session has a profile, a request that names none finds one. *)
DefaultIsUsable ==
  IF profiles = <<>> THEN default = None ELSE Contains(profiles, default)

(* Every request comes to an end, whatever its provider does.               *)
EveryRequestEnds ==
  \A r \in Assists : (runs[r] # None /\ runs[r].status = "running")
                       ~> (runs[r] = None \/ runs[r].status # "running")
=============================================================================
