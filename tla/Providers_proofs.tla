-------------------------- MODULE Providers_proofs --------------------------
(***************************************************************************)
(* Proofs about the two models that talk to AI providers.  HarnessRuns:    *)
(* every tool request of a conversation has one answer, no thread outlives *)
(* its run, a document is in one conversation, a run reports turns it      *)
(* took, and a cancel stops the tools.  Connectors: a lease works exactly  *)
(* as long as its id resolves to it, and a streamed answer counts only if  *)
(* it still does and is the answer that was streamed.                      *)
(***************************************************************************)
EXTENDS HarnessRuns, Connectors, TLAPS, SequenceTheorems, FunctionTheorems, FiniteSetTheorems

Workers == [at : {"gone", "turn", "model", "waiting"}, left : 0..MaxTurns, failures : {0, 1}]
Ends == {"finished", "exhausted", "failed", "canceled"}

\* How often x occurs in a list of events.
Cnt(ev, x) == Cardinality({i \in DOMAIN ev : ev[i] = x})

\* The last event the engine has not handled asks for a tool.
Asks(ev) == ev # <<>> /\ ev[Len(ev)] = "tool"

Live(run) == run \in RunRecords /\ run.status = "running"

(***************************************************************************)
(* The inductive invariant relates what the five variables hold of a run.  *)
(***************************************************************************)

TypedRun(run, w, ev, rep, n) ==
  /\ run \in RunRecords \cup {NoRun, Pruned}
  /\ w \in Workers /\ ev \in Seq(EventNames) /\ rep \in Seq({"result"}) /\ n \in Nat

\* A run that is not running has no thread and nothing on the way; one that is
\* has either a thread or a last event.
Outlives(run, w, ev, rep) ==
  IF Live(run) THEN w.at # "gone" \/ ev # <<>>
  ELSE w.at = "gone" /\ ev = <<>> /\ rep = <<>>

\* The end of a conversation is the last event and comes from a thread that
\* has returned; a tool request is the last event of a thread that waits.
EndsLast(w, ev) ==
  /\ \A i \in 1..Len(ev) : ev[i] \in Ends => i = Len(ev) /\ w.at = "gone"
  /\ \A i \in 1..Len(ev) : ev[i] = "tool" => i = Len(ev) /\ w.at = "waiting"
  /\ w.at = "gone" /\ ev # <<>> => ev[Len(ev)] \in Ends

OneReply(w, ev, rep) ==
  IF w.at = "waiting" THEN Len(rep) = IF Asks(ev) THEN 0 ELSE 1
  ELSE rep = <<>>

\* Turns: reported, on the way, in progress and left.
Turns(run, w, ev) ==
  run.turns + Cnt(ev, "model") + w.left + IF w.at = "model" THEN 1 ELSE 0

BudgetKept(run, w, ev) ==
  run \in RunRecords =>
    /\ Turns(run, w, ev) <= run.maxTurns
    /\ w.at # "gone" => Turns(run, w, ev) = run.maxTurns
    /\ w.at = "gone" => w.left = 0
    /\ \A i \in 1..Len(ev) : ev[i] = "exhausted" => Turns(run, w, ev) = run.maxTurns

\* A tool that is still to run after a cancel is the first one.
LateOnce(run, w, ev, n) ==
  /\ n <= 1
  /\ run = NoRun => n = 0
  /\ Live(run) /\ (~run.cancelRequested \/ w.at = "model" \/ Asks(ev)) => n = 0

Sound(run, w, ev, rep, n) ==
  /\ TypedRun(run, w, ev, rep, n) /\ Outlives(run, w, ev, rep) /\ EndsLast(w, ev)
  /\ OneReply(w, ev, rep) /\ BudgetKept(run, w, ev) /\ LateOnce(run, w, ev, n)

IInv ==
  /\ runs = [r \in Runs |-> runs[r]] /\ worker = [r \in Runs |-> worker[r]]
  /\ events = [r \in Runs |-> events[r]] /\ replies = [r \in Runs |-> replies[r]]
  /\ late = [r \in Runs |-> late[r]]
  /\ \A r \in Runs : Sound(runs[r], worker[r], events[r], replies[r], late[r])
  /\ OneConversationPerDocument

-----------------------------------------------------------------------------
(* Lists of events.                                                        *)

LEMMA FinitePlaces ==
  ASSUME NEW ev \in Seq(EventNames), NEW x
  PROVE  IsFiniteSet({i \in DOMAIN ev : ev[i] = x})
<1> DEFINE S == {i \in DOMAIN ev : ev[i] = x}
<1>1. DOMAIN ev = 1..Len(ev) /\ Len(ev) \in Nat
  BY LenProperties
<1>2. S \in SUBSET (1..Len(ev))
  BY <1>1
<1>3. IsFiniteSet(1..Len(ev))
  BY <1>1, FS_Interval
<1> HIDE DEF S
<1>4. IsFiniteSet(S)
  BY <1>2, <1>3, FS_Subset
<1> QED
  BY <1>4 DEF S

LEMMA CntType ==
  ASSUME NEW ev \in Seq(EventNames), NEW x
  PROVE  /\ Cnt(ev, x) \in Nat
         /\ Cnt(ev, x) = 0 <=> \A i \in 1..Len(ev) : ev[i] # x
<1> DEFINE S == {i \in DOMAIN ev : ev[i] = x}
<1>1. DOMAIN ev = 1..Len(ev) /\ Len(ev) \in Nat
  BY LenProperties
<1>2. IsFiniteSet(S)
  BY FinitePlaces
<1>3. Cardinality(S) \in Nat /\ (Cardinality(S) = 0 <=> S = {})
  BY <1>2, FS_CardinalityType, FS_EmptySet
<1> QED
  BY <1>1, <1>3 DEF Cnt

\* One more event at the end.
LEMMA OneMore ==
  ASSUME NEW ev \in Seq(EventNames), NEW e \in EventNames
  PROVE  /\ ev \o <<e>> \in Seq(EventNames) /\ Len(ev \o <<e>>) = Len(ev) + 1
         /\ ev \o <<e>> # <<>> /\ (ev \o <<e>>)[Len(ev) + 1] = e
         /\ \A i \in 1..Len(ev) : (ev \o <<e>>)[i] = ev[i]
         /\ \A x : Cnt(ev \o <<e>>, x) = IF e = x THEN Cnt(ev, x) + 1 ELSE Cnt(ev, x)
<1> DEFINE new == Append(ev, e)
<1>1. new = ev \o <<e>>
  BY AppendIsConcat
<1>2. /\ new \in Seq(EventNames) /\ Len(new) = Len(ev) + 1 /\ new # <<>>
      /\ new[Len(ev) + 1] = e /\ \A i \in 1..Len(ev) : new[i] = ev[i]
  BY AppendProperties
<1> HIDE DEF new
<1>3. DOMAIN new = 1..(Len(ev) + 1) /\ DOMAIN ev = 1..Len(ev) /\ Len(ev) \in Nat
  BY <1>2, LenProperties
<1>4. ASSUME NEW x PROVE Cnt(new, x) = IF e = x THEN Cnt(ev, x) + 1 ELSE Cnt(ev, x)
  <2> DEFINE S == {i \in DOMAIN ev : ev[i] = x}
             T == {i \in DOMAIN new : new[i] = x}
  <2>1. IsFiniteSet(S)
    BY FinitePlaces
  <2>2. Cardinality(S \cup {Len(ev) + 1}) = Cardinality(S) + 1
    <3>1. Len(ev) + 1 \notin S
      BY <1>3
    <3> QED BY <2>1, <3>1, FS_AddElement
  <2>3. T = IF e = x THEN S \cup {Len(ev) + 1} ELSE S
    BY <1>2, <1>3
  <2>4. Cardinality(S) \in Nat
    BY <2>1, FS_CardinalityType
  <2>5. Cnt(new, x) = Cardinality(T) /\ Cnt(ev, x) = Cardinality(S)
    BY DEF Cnt
  <2> HIDE DEF S, T
  <2> QED
    BY <2>2, <2>3, <2>4, <2>5
<1> QED
  BY <1>1, <1>2, <1>4

\* A list without its first event.
LEMMA OneLess ==
  ASSUME NEW ev \in Seq(EventNames), ev # <<>>
  PROVE  /\ Tail(ev) \in Seq(EventNames) /\ Len(Tail(ev)) = Len(ev) - 1
         /\ Head(ev) = ev[1] /\ Head(ev) \in EventNames
         /\ \A i \in 1..(Len(ev) - 1) : Tail(ev)[i] = ev[i + 1]
         /\ Len(ev) \in Nat \ {0}
         /\ \A x : Cnt(ev, x) = Cnt(Tail(ev), x) + IF ev[1] = x THEN 1 ELSE 0
<1>1. /\ Tail(ev) \in Seq(EventNames) /\ Len(Tail(ev)) = Len(ev) - 1 /\ Head(ev) = ev[1]
      /\ \A i \in 1..(Len(ev) - 1) : Tail(ev)[i] = ev[i + 1]
      /\ Len(ev) \in Nat \ {0} /\ Head(ev) \in EventNames
  BY HeadTailProperties, EmptySeq
<1> DEFINE t == Tail(ev)
<1>2. DOMAIN ev = 1..Len(ev) /\ DOMAIN t = 1..(Len(ev) - 1)
  BY <1>1, LenProperties
<1> HIDE DEF t
<1>3. ASSUME NEW x PROVE Cnt(ev, x) = Cnt(t, x) + IF ev[1] = x THEN 1 ELSE 0
  <2> DEFINE S == {i \in DOMAIN ev : ev[i] = x}
             T == {i \in DOMAIN t : t[i] = x}
             f == [i \in T |-> i + 1]
  <2>1. IsFiniteSet(S) /\ IsFiniteSet(T)
    BY <1>1, FinitePlaces DEF t
  <2>2. f \in Bijection(T, S \ {1})
    <3>1. \A i \in T : i \in 1..(Len(ev) - 1) /\ ev[i + 1] = x
      BY <1>1, <1>2 DEF t
    <3>2. f \in [T -> S \ {1}]
      BY <1>1, <1>2, <3>1
    <3>3. \A i, j \in T : f[i] = f[j] => i = j
      BY <3>1
    <3>4. ASSUME NEW j \in S \ {1} PROVE \E i \in T : f[i] = j
      <4>1. j - 1 \in 1..(Len(ev) - 1) /\ ev[j] = x /\ (j - 1) + 1 = j
        BY <1>1, <1>2
      <4>2. t[j - 1] = ev[(j - 1) + 1]
        BY <1>1, <4>1 DEF t
      <4>3. j - 1 \in T
        BY <1>2, <4>1, <4>2
      <4> QED BY <4>1, <4>3
    <3> QED
      BY <3>2, <3>3, <3>4, Fun_IsBij
  <2>3. Cardinality(S \ {1}) = Cardinality(T)
    BY <2>1, <2>2, FS_Bijection DEF ExistsBijection
  <2>4. Cardinality(S \ {1}) = IF 1 \in S THEN Cardinality(S) - 1 ELSE Cardinality(S)
    BY <2>1, FS_RemoveElement
  <2>5. 1 \in S <=> ev[1] = x
    BY <1>1, <1>2
  <2>6. Cardinality(S) \in Nat /\ Cardinality(T) \in Nat
    BY <2>1, FS_CardinalityType
  <2> QED
    BY <2>3, <2>4, <2>5, <2>6 DEF Cnt
<1> QED
  BY <1>1, <1>3 DEF t

-----------------------------------------------------------------------------
(* What the steps do to the values of one run.                             *)

LEMMA RunFields ==
  ASSUME NEW run \in RunRecords
  PROVE  /\ run.turns \in Nat /\ run.maxTurns \in Nat /\ run.cancelRequested \in BOOLEAN
         /\ run.status \in Statuses
  BY HarnessAssumption DEF RunRecords

\* The reply of the model is on the way: a turn more, none in progress.
LEMMA ModelSent ==
  ASSUME NEW run, NEW w, NEW ev, NEW rep, NEW n, Sound(run, w, ev, rep, n),
         w.at = "model", NEW w2 \in Workers, w2.at = "turn", w2.left = w.left
  PROVE  Sound(run, w2, ev \o <<"model">>, rep, n)
<1> DEFINE new == ev \o <<"model">>
<1>1. /\ ev \in Seq(EventNames) /\ Len(ev) \in Nat /\ w \in Workers
      /\ run \in RunRecords /\ Live(run) /\ rep = <<>> /\ TypedRun(run, w, ev, rep, n)
  BY EmptySeq DEF Sound, TypedRun, Outlives, OneReply, Live
<1>2. /\ new \in Seq(EventNames) /\ Len(new) = Len(ev) + 1 /\ new # <<>>
      /\ new[Len(ev) + 1] = "model"
      /\ \A i \in 1..Len(ev) : new[i] = ev[i]
      /\ Cnt(new, "model") = Cnt(ev, "model") + 1
  BY <1>1, OneMore DEF EventNames
<1> HIDE DEF new
<1>3. \A i \in 1..Len(new) : i \in 1..Len(ev) \/ (i = Len(new) /\ new[i] = "model")
  BY <1>1, <1>2
<1>4. \A i \in 1..Len(new) : new[i] \notin Ends \cup {"tool"}
  BY <1>2, <1>3 DEF Sound, EndsLast, Ends
<1>5. EndsLast(w2, new)
  BY <1>4 DEF EndsLast
<1>6. ~Asks(new)
  BY <1>1, <1>2, <1>4 DEF Asks
<1>7. Cnt(ev, "model") \in Nat /\ w.left \in Nat
  BY <1>1, CntType, HarnessAssumption DEF Workers
<1>8. Turns(run, w2, new) = Turns(run, w, ev)
  <2>1. run.turns \in Nat
    BY <1>1, RunFields
  <2> QED
    BY <1>2, <1>7, <2>1 DEF Turns
<1>9. BudgetKept(run, w2, new)
  BY <1>4, <1>8 DEF Sound, BudgetKept, Ends
<1>10. LateOnce(run, w2, new, n)
  BY <1>6 DEF Sound, LateOnce
<1>11. OneReply(w2, new, rep) /\ Outlives(run, w2, new, rep)
  BY <1>1 DEF OneReply, Outlives
<1>12. TypedRun(run, w2, new, rep, n)
  BY <1>1, <1>2 DEF TypedRun
<1> QED
  BY <1>5, <1>9, <1>10, <1>11, <1>12 DEF Sound, new

\* The last event of a conversation is on the way.
LEMMA RunEnded ==
  ASSUME NEW run, NEW w, NEW ev, NEW rep, NEW n, Sound(run, w, ev, rep, n),
         w.at \in {"turn", "model"}, NEW e \in Ends,
         e = "exhausted" => w.at = "turn" /\ w.left = 0
  PROVE  Sound(run, Gone, ev \o <<e>>, rep, n)
<1> DEFINE new == ev \o <<e>>
<1>1. /\ ev \in Seq(EventNames) /\ Len(ev) \in Nat /\ w \in Workers
      /\ run \in RunRecords /\ Live(run) /\ rep = <<>> /\ TypedRun(run, w, ev, rep, n)
  BY EmptySeq DEF Sound, TypedRun, Outlives, OneReply, Live
<1>0. e \in EventNames /\ e # "model"
  BY DEF EventNames, Ends
<1>2. /\ new \in Seq(EventNames) /\ Len(new) = Len(ev) + 1 /\ new # <<>>
      /\ new[Len(ev) + 1] = e
      /\ \A i \in 1..Len(ev) : new[i] = ev[i]
      /\ Cnt(new, "model") = Cnt(ev, "model")
  BY <1>0, <1>1, OneMore
<1> HIDE DEF new
<1>3. \A i \in 1..Len(new) : (i \in 1..Len(ev) /\ new[i] = ev[i]) \/ (i = Len(new) /\ new[i] = e)
  BY <1>1, <1>2
<1>4. \A i \in 1..Len(ev) : ev[i] \notin Ends \cup {"tool"}
  BY DEF Sound, EndsLast
<1>5. Gone \in Workers /\ Gone.at = "gone" /\ Gone.left = 0
  BY HarnessAssumption DEF Gone, Workers
<1>6. EndsLast(Gone, new)
  BY <1>1, <1>2, <1>3, <1>4, <1>5 DEF EndsLast, Ends
<1>7. ~Asks(new)
  BY <1>1, <1>2 DEF Asks, Ends
<1>8. Cnt(ev, "model") \in Nat /\ w.left \in Nat
  BY <1>1, CntType, HarnessAssumption DEF Workers
<1>9. /\ Turns(run, Gone, new) <= Turns(run, w, ev)
      /\ e = "exhausted" => Turns(run, Gone, new) = Turns(run, w, ev)
  BY <1>1, <1>2, <1>5, <1>8, RunFields DEF Turns
<1>10. Turns(run, w, ev) = run.maxTurns
  BY <1>1 DEF Sound, BudgetKept
<1>11. \A i \in 1..Len(new) : new[i] = "exhausted" => e = "exhausted"
  BY <1>3, <1>4 DEF Ends
<1>12. BudgetKept(run, Gone, new)
  BY <1>5, <1>9, <1>10, <1>11 DEF BudgetKept
<1>13. LateOnce(run, Gone, new, n)
  BY <1>5, <1>7 DEF Sound, LateOnce
<1>14. OneReply(Gone, new, rep) /\ Outlives(run, Gone, new, rep)
  BY <1>1, <1>2, <1>5 DEF OneReply, Outlives
<1>15. TypedRun(run, Gone, new, rep, n)
  BY <1>1, <1>2, <1>5 DEF TypedRun
<1> QED
  BY <1>6, <1>12, <1>13, <1>14, <1>15 DEF Sound, new

\* A trace or a tool request is on the way.
LEMMA Sent ==
  ASSUME NEW run, NEW w, NEW ev, NEW rep, NEW n, Sound(run, w, ev, rep, n),
         w.at = "turn", NEW w2 \in Workers, w2.left = w.left,
         NEW e \in {"web", "tool"},
         w2.at = IF e = "tool" THEN "waiting" ELSE "turn",
         e = "tool" => n = 0
  PROVE  Sound(run, w2, ev \o <<e>>, rep, n)
<1> DEFINE new == ev \o <<e>>
<1>1. /\ ev \in Seq(EventNames) /\ Len(ev) \in Nat /\ w \in Workers
      /\ run \in RunRecords /\ Live(run) /\ rep = <<>> /\ TypedRun(run, w, ev, rep, n)
  BY EmptySeq DEF Sound, TypedRun, Outlives, OneReply, Live
<1>0. e \in EventNames /\ e # "model"
  BY DEF EventNames, Ends
<1>2. /\ new \in Seq(EventNames) /\ Len(new) = Len(ev) + 1 /\ new # <<>>
      /\ new[Len(ev) + 1] = e
      /\ \A i \in 1..Len(ev) : new[i] = ev[i]
      /\ Cnt(new, "model") = Cnt(ev, "model")
  BY <1>0, <1>1, OneMore
<1> HIDE DEF new
<1>3. \A i \in 1..Len(new) : (i \in 1..Len(ev) /\ new[i] = ev[i]) \/ (i = Len(new) /\ new[i] = e)
  BY <1>1, <1>2
<1>4. \A i \in 1..Len(ev) : ev[i] \notin Ends \cup {"tool"}
  BY DEF Sound, EndsLast
<1>5. EndsLast(w2, new)
  BY <1>3, <1>4 DEF EndsLast, Ends
<1>6. Asks(new) <=> e = "tool"
  BY <1>1, <1>2 DEF Asks
<1>7. Cnt(ev, "model") \in Nat /\ w.left \in Nat
  BY <1>1, CntType, HarnessAssumption DEF Workers
<1>8. Turns(run, w2, new) = Turns(run, w, ev)
  BY <1>1, <1>2, <1>7, RunFields DEF Turns
<1>9. \A i \in 1..Len(new) : new[i] # "exhausted"
  BY <1>3, <1>4 DEF Ends
<1>10. BudgetKept(run, w2, new)
  BY <1>8, <1>9 DEF Sound, BudgetKept
<1>11. LateOnce(run, w2, new, n)
  BY <1>6 DEF Sound, LateOnce
<1>12. OneReply(w2, new, rep) /\ Outlives(run, w2, new, rep)
  BY <1>1, <1>6, EmptySeq DEF OneReply, Outlives
<1>13. TypedRun(run, w2, new, rep, n)
  BY <1>1, <1>2 DEF TypedRun
<1> QED
  BY <1>5, <1>10, <1>11, <1>12, <1>13 DEF Sound, new

\* A turn begins.
LEMMA Began ==
  ASSUME NEW run, NEW w, NEW ev, NEW rep, NEW n, Sound(run, w, ev, rep, n),
         w.at = "turn", w.left # 0, ~run.cancelRequested,
         NEW w2 \in Workers, w2.at = "model", w2.left = w.left - 1
  PROVE  Sound(run, w2, ev, rep, n)
<1>1. /\ ev \in Seq(EventNames) /\ w \in Workers
      /\ run \in RunRecords /\ Live(run) /\ TypedRun(run, w, ev, rep, n)
  BY DEF Sound, TypedRun, Outlives, Live
<1>2. Cnt(ev, "model") \in Nat /\ w.left \in Nat
  BY <1>1, CntType, HarnessAssumption DEF Workers
<1>3. Turns(run, w2, ev) = Turns(run, w, ev)
  BY <1>1, <1>2, RunFields DEF Turns
<1>4. BudgetKept(run, w2, ev)
  BY <1>3 DEF Sound, BudgetKept
<1>5. LateOnce(run, w2, ev, n)
  BY <1>1 DEF Sound, LateOnce
<1> QED
  BY <1>1, <1>4, <1>5 DEF Sound, TypedRun, Outlives, EndsLast, OneReply

\* The thread receives the result it waited for.
LEMMA Received ==
  ASSUME NEW run, NEW w, NEW ev, NEW rep, NEW n, Sound(run, w, ev, rep, n),
         w.at = "waiting", rep # <<>>,
         NEW w2 \in Workers, w2.at = "turn", w2.left = w.left
  PROVE  Sound(run, w2, ev, Tail(rep), n)
<1>1. /\ ev \in Seq(EventNames) /\ w \in Workers /\ rep \in Seq({"result"})
      /\ run \in RunRecords /\ Live(run) /\ TypedRun(run, w, ev, rep, n)
  BY DEF Sound, TypedRun, Outlives, Live
<1>2. Len(rep) = 1 /\ ~Asks(ev)
  <2>1. Len(rep) \in Nat \ {0}
    BY <1>1, EmptySeq
  <2> QED
    BY <2>1 DEF Sound, OneReply
<1>3. Tail(rep) \in Seq({"result"}) /\ Len(Tail(rep)) = 0
  BY <1>1, <1>2, HeadTailProperties
<1>4. Tail(rep) = <<>>
  BY <1>3, EmptySeq
<1>5. EndsLast(w2, ev)
  <2>1. Len(ev) \in Nat /\ (ev # <<>> => Len(ev) \in 1..Len(ev))
    BY <1>1, EmptySeq, LenProperties
  <2>2. \A i \in 1..Len(ev) : ev[i] # "tool"
    BY <1>2, <2>1, EmptySeq DEF Sound, EndsLast, Asks
  <2> QED
    BY <2>2 DEF Sound, EndsLast
<1>6. Turns(run, w2, ev) = Turns(run, w, ev)
  BY DEF Turns
<1>7. BudgetKept(run, w2, ev)
  BY <1>6 DEF Sound, BudgetKept
<1>8. LateOnce(run, w2, ev, n)
  BY <1>2 DEF Sound, LateOnce
<1>9. TypedRun(run, w2, ev, Tail(rep), n)
  BY <1>1, <1>3 DEF TypedRun
<1> QED
  BY <1>1, <1>4, <1>5, <1>7, <1>8, <1>9 DEF Sound, Outlives, OneReply

\* The run after one of its events.
LEMMA HandledRun ==
  ASSUME NEW run \in RunRecords, NEW e
  PROVE  LET new == [run EXCEPT !.status = StatusAfter(e),
                                !.turns = IF e = "model" THEN @ + 1 ELSE @]
         IN  /\ new \in RunRecords /\ new.document = run.document
             /\ new.status = StatusAfter(e) /\ new.cancelRequested = run.cancelRequested
             /\ new.maxTurns = run.maxTurns
             /\ new.turns = IF e = "model" THEN run.turns + 1 ELSE run.turns
<1> DEFINE status == StatusAfter(e)
           turns == IF e = "model" THEN run.turns + 1 ELSE run.turns
           new == [run EXCEPT !.status = status, !.turns = turns]
<1>1. status \in Statuses /\ turns \in Nat
  BY RunFields DEF StatusAfter, Statuses
<1> HIDE DEF status, turns
<1>2. new \in RunRecords
  BY <1>1 DEF RunRecords
<1>3. /\ new.document = run.document /\ new.status = status
      /\ new.cancelRequested = run.cancelRequested /\ new.maxTurns = run.maxTurns
      /\ new.turns = turns
  BY DEF RunRecords
<1> QED
  BY <1>2, <1>3 DEF status, turns

LEMMA SameRun ==
  ASSUME NEW run \in RunRecords, NEW e, StatusAfter(e) = run.status, e # "model"
  PROVE  [run EXCEPT !.status = StatusAfter(e),
                     !.turns = IF e = "model" THEN @ + 1 ELSE @] = run
  BY DEF RunRecords

\* What is handled was sent by the thread of a live run.
LEMMA HandledIsLive ==
  ASSUME NEW run, NEW w, NEW ev, NEW rep, NEW n, Sound(run, w, ev, rep, n), ev # <<>>
  PROVE  /\ Live(run) /\ run \in RunRecords /\ TypedRun(run, w, ev, rep, n)
         /\ ev \in Seq(EventNames) /\ Len(ev) \in Nat \ {0} /\ Len(Tail(ev)) = Len(ev) - 1
         /\ Tail(ev) \in Seq(EventNames)
<1>1. Live(run) /\ run \in RunRecords /\ TypedRun(run, w, ev, rep, n) /\ ev \in Seq(EventNames)
  BY DEF Sound, Outlives, Live, TypedRun
<1> QED
  BY <1>1, OneLess

\* The engine handles the last event of a conversation.
LEMMA HandledEnd ==
  ASSUME NEW run, NEW w, NEW ev, NEW rep, NEW n, Sound(run, w, ev, rep, n),
         ev # <<>>, ev[1] \in Ends,
         NEW run2 \in RunRecords, run2.status # "running",
         run2.turns = run.turns, run2.maxTurns = run.maxTurns
  PROVE  Sound(run2, w, Tail(ev), rep, n)
<1> DEFINE t == Tail(ev)
<1>1. /\ Live(run) /\ run \in RunRecords /\ TypedRun(run, w, ev, rep, n)
      /\ ev \in Seq(EventNames) /\ Len(ev) \in Nat \ {0} /\ Len(t) = Len(ev) - 1
      /\ t \in Seq(EventNames)
  BY HandledIsLive
<1>0. Cnt(ev, "model") = Cnt(t, "model") + IF ev[1] = "model" THEN 1 ELSE 0
  BY <1>1, OneLess
<1> HIDE DEF t
<1>2. Len(ev) = 1 /\ w.at = "gone"
  BY <1>1 DEF Sound, EndsLast
<1>3. t = <<>>
  BY <1>1, <1>2, EmptySeq
<1>4. rep = <<>>
  BY <1>2 DEF Sound, OneReply
<1>5. Cnt(ev, "model") = Cnt(t, "model") /\ Cnt(t, "model") \in Nat
  <2>1. ev[1] # "model"
    BY DEF Ends
  <2>2. Cnt(t, "model") \in Nat
    BY <1>1, CntType
  <2> QED
    BY <1>0, <2>1, <2>2
<1>6. Turns(run2, w, t) = Turns(run, w, ev)
  BY <1>5 DEF Turns
<1>7. EndsLast(w, t) /\ \A i \in 1..Len(t) : FALSE
  BY <1>1, <1>2, <1>3 DEF EndsLast
<1>8. BudgetKept(run2, w, t)
  BY <1>1, <1>6, <1>7 DEF Sound, BudgetKept
<1>9. LateOnce(run2, w, t, n)
  BY HarnessAssumption DEF Sound, LateOnce, Live
<1>10. OneReply(w, t, rep) /\ Outlives(run2, w, t, rep)
  BY <1>2, <1>3, <1>4 DEF OneReply, Outlives, Live
<1>11. TypedRun(run2, w, t, rep, n)
  BY <1>1 DEF TypedRun
<1> QED
  BY <1>7, <1>8, <1>9, <1>10, <1>11 DEF Sound, t

\* The engine handles a trace.
LEMMA HandledTrace ==
  ASSUME NEW run, NEW w, NEW ev, NEW rep, NEW n, Sound(run, w, ev, rep, n),
         ev # <<>>, ev[1] \in {"model", "web"},
         NEW run2 \in RunRecords, run2.status = run.status,
         run2.cancelRequested = run.cancelRequested, run2.maxTurns = run.maxTurns,
         run2.turns = run.turns + IF ev[1] = "model" THEN 1 ELSE 0
  PROVE  Sound(run2, w, Tail(ev), rep, n)
<1> DEFINE t == Tail(ev)
<1>1. /\ Live(run) /\ run \in RunRecords /\ TypedRun(run, w, ev, rep, n)
      /\ ev \in Seq(EventNames) /\ Len(ev) \in Nat \ {0} /\ Len(t) = Len(ev) - 1
      /\ t \in Seq(EventNames)
  BY HandledIsLive
<1>2. /\ \A i \in 1..(Len(ev) - 1) : t[i] = ev[i + 1]
      /\ Cnt(ev, "model") = Cnt(t, "model") + IF ev[1] = "model" THEN 1 ELSE 0
  BY <1>1, OneLess
<1> HIDE DEF t
<1>3. \A i \in 1..Len(t) : i + 1 \in 1..Len(ev) /\ t[i] = ev[i + 1]
  BY <1>1, <1>2
<1>4. t # <<>> => Len(t) \in 1..Len(t) /\ t[Len(t)] = ev[Len(ev)]
  <2>1. t # <<>> => Len(t) \in Nat \ {0}
    BY <1>1, EmptySeq
  <2>2. t # <<>> => Len(t) \in 1..(Len(ev) - 1) /\ Len(t) + 1 = Len(ev)
    BY <1>1, <2>1
  <2> QED
    BY <1>2, <2>2
<1>5. t = <<>> => Len(ev) = 1
  <2>1. t = <<>> => Len(t) = 0
    BY EmptySeq
  <2> QED
    BY <1>1, <2>1
<1>6. Asks(t) <=> Asks(ev)
  BY <1>4, <1>5 DEF Asks
<1>7. w.at = "gone" => t # <<>> /\ ev[Len(ev)] \in Ends
  <2>1. w.at = "gone" => ev[Len(ev)] \in Ends
    BY DEF Sound, EndsLast
  <2> QED
    BY <1>5, <2>1 DEF Ends
<1>8. EndsLast(w, t)
  <2>1. ASSUME NEW i \in 1..Len(t), t[i] \in Ends PROVE i = Len(t) /\ w.at = "gone"
    <3>1. i + 1 \in 1..Len(ev) /\ ev[i + 1] \in Ends
      BY <1>3, <2>1
    <3>2. i + 1 = Len(ev) /\ w.at = "gone"
      BY <3>1 DEF Sound, EndsLast
    <3> QED
      BY <1>1, <3>2
  <2>2. ASSUME NEW i \in 1..Len(t), t[i] = "tool" PROVE i = Len(t) /\ w.at = "waiting"
    <3>1. i + 1 \in 1..Len(ev) /\ ev[i + 1] = "tool"
      BY <1>3, <2>2
    <3>2. i + 1 = Len(ev) /\ w.at = "waiting"
      BY <3>1 DEF Sound, EndsLast
    <3> QED
      BY <1>1, <3>2
  <2> QED
    BY <1>4, <1>7, <2>1, <2>2 DEF EndsLast
<1>9. Cnt(t, "model") \in Nat /\ w.left \in Nat
  BY <1>1, CntType, HarnessAssumption DEF TypedRun, Workers
<1>10. Turns(run2, w, t) = Turns(run, w, ev)
  <2>1. run.turns \in Nat /\ run2.turns \in Nat
    BY <1>1, RunFields
  <2>2. run2.turns + Cnt(t, "model") = run.turns + Cnt(ev, "model")
    BY <1>2, <1>9, <2>1
  <2> QED
    BY <2>2 DEF Turns
<1>11. BudgetKept(run2, w, t)
  <2>1. \A i \in 1..Len(t) : t[i] = "exhausted" => Turns(run, w, ev) = run.maxTurns
    BY <1>1, <1>3 DEF Sound, BudgetKept
  <2> QED
    BY <1>1, <1>10, <2>1 DEF Sound, BudgetKept
<1>12. LateOnce(run2, w, t, n)
  BY <1>1, <1>6, HarnessAssumption DEF Sound, LateOnce, Live
<1>13. OneReply(w, t, rep) /\ Outlives(run2, w, t, rep)
  BY <1>1, <1>6, <1>7 DEF Sound, OneReply, Outlives, Live
<1>14. TypedRun(run2, w, t, rep, n)
  BY <1>1 DEF TypedRun
<1> QED
  BY <1>8, <1>11, <1>12, <1>13, <1>14 DEF Sound, t

\* The engine runs a tool and answers.
LEMMA HandledTool ==
  ASSUME NEW run, NEW w, NEW ev, NEW rep, NEW n, Sound(run, w, ev, rep, n),
         ev # <<>>, ev[1] = "tool", NEW n2,
         n2 = IF run.cancelRequested THEN n + 1 ELSE n
  PROVE  Sound(run, w, Tail(ev), Append(rep, "result"), n2)
<1> DEFINE rep2 == Append(rep, "result")
           t == Tail(ev)
<1>1. /\ Live(run) /\ run \in RunRecords /\ TypedRun(run, w, ev, rep, n)
      /\ ev \in Seq(EventNames) /\ Len(ev) \in Nat \ {0} /\ Len(t) = Len(ev) - 1
      /\ t \in Seq(EventNames)
  BY HandledIsLive
<1>0. Cnt(ev, "model") = Cnt(t, "model") + IF ev[1] = "model" THEN 1 ELSE 0
  BY <1>1, OneLess
<1> HIDE DEF t
<1>2. Len(ev) = 1 /\ w.at = "waiting" /\ Asks(ev)
  BY <1>1 DEF Sound, EndsLast, Asks
<1>3. t = <<>>
  BY <1>1, <1>2, EmptySeq
<1>4. rep2 \in Seq({"result"}) /\ Len(rep2) = 1
  <2>1. rep \in Seq({"result"}) /\ Len(rep) = 0
    BY <1>2 DEF Sound, TypedRun, OneReply
  <2> QED
    BY <2>1, AppendProperties
<1>5. Cnt(ev, "model") = Cnt(t, "model") /\ Cnt(t, "model") \in Nat
  <2>1. Cnt(t, "model") \in Nat
    BY <1>1, CntType
  <2> QED
    BY <1>0, <2>1
<1>6. Turns(run, w, t) = Turns(run, w, ev)
  BY <1>5 DEF Turns
<1>7. EndsLast(w, t) /\ \A i \in 1..Len(t) : FALSE
  BY <1>1, <1>2, <1>3 DEF EndsLast
<1>8. BudgetKept(run, w, t)
  BY <1>1, <1>6, <1>7 DEF Sound, BudgetKept
<1>9. n = 0
  BY <1>1, <1>2 DEF Sound, LateOnce
<1>10. LateOnce(run, w, t, n2)
  BY <1>1, <1>2, <1>3, <1>9, HarnessAssumption DEF LateOnce, Asks
<1> HIDE DEF rep2
<1>11. OneReply(w, t, rep2) /\ Outlives(run, w, t, rep2)
  BY <1>1, <1>2, <1>3, <1>4 DEF OneReply, Outlives, Asks
<1>12. TypedRun(run, w, t, rep2, n2)
  BY <1>1, <1>4, <1>9 DEF TypedRun
<1> QED
  BY <1>7, <1>8, <1>10, <1>11, <1>12 DEF Sound, rep2, t

LEMMA CanceledRun ==
  ASSUME NEW run \in RunRecords
  PROVE  LET new == [run EXCEPT !.cancelRequested = TRUE]
         IN  /\ new \in RunRecords /\ new.document = run.document
             /\ new.status = run.status /\ new.cancelRequested
             /\ new.maxTurns = run.maxTurns /\ new.turns = run.turns
  BY DEF RunRecords

LEMMA AsksWaits ==
  ASSUME NEW w, NEW ev \in Seq(EventNames), EndsLast(w, ev), Asks(ev)
  PROVE  w.at = "waiting" /\ Len(ev) \in 1..Len(ev)
<1>1. Len(ev) \in Nat \ {0}
  BY EmptySeq DEF Asks
<1> QED
  BY <1>1 DEF EndsLast, Asks

\* Only the last event can be a tool request, so it is counted once.
LEMMA OneAsks ==
  ASSUME NEW w, NEW ev \in Seq(EventNames), EndsLast(w, ev)
  PROVE  Cnt(ev, "tool") = IF Asks(ev) THEN 1 ELSE 0
<1>1. CASE Asks(ev)
  <2> DEFINE S == {i \in DOMAIN ev : ev[i] = "tool"}
  <2>1. S = {Len(ev)}
    BY <1>1, AsksWaits, LenProperties DEF EndsLast, Asks
  <2>2. Cardinality({Len(ev)}) = 1
    BY FS_Singleton
  <2> QED
    BY <1>1, <2>1, <2>2 DEF Cnt
<1>2. CASE ~Asks(ev)
  <2>1. \A i \in 1..Len(ev) : ev[i] # "tool"
    <3> SUFFICES ASSUME NEW i \in 1..Len(ev), ev[i] = "tool" PROVE FALSE
      OBVIOUS
    <3>1. i = Len(ev) /\ Len(ev) # 0
      BY LenProperties DEF EndsLast
    <3> QED
      BY <1>2, <3>1, EmptySeq DEF Asks
  <2> QED
    BY <1>2, <2>1, CntType
<1> QED
  BY <1>1, <1>2

-----------------------------------------------------------------------------
(* The steps of the whole module.                                          *)

LEMMA LiveIsRunning ==
  ASSUME IInv, NEW r \in Runs
  PROVE  /\ Live(runs[r]) <=> Running(r)
         /\ Known(r) <=> runs[r] \in RunRecords
         /\ Alive(r) => Running(r)
         /\ Sound(runs[r], worker[r], events[r], replies[r], late[r])
         /\ TypedRun(runs[r], worker[r], events[r], replies[r], late[r])
<1>1. /\ Sound(runs[r], worker[r], events[r], replies[r], late[r])
      /\ TypedRun(runs[r], worker[r], events[r], replies[r], late[r])
  BY DEF IInv, Sound
<1>2. Live(runs[r]) <=> Running(r)
  BY <1>1, HarnessAssumption DEF Live, Running, Known, TypedRun
<1>3. Known(r) <=> runs[r] \in RunRecords
  BY <1>1, HarnessAssumption DEF Known, TypedRun
<1>4. Alive(r) => Running(r)
  BY <1>1, <1>2 DEF Sound, Outlives, Alive
<1> QED
  BY <1>1, <1>2, <1>3, <1>4

\* A step that changes what is kept of one run.
LEMMA OneRunStep ==
  ASSUME IInv, NEW r \in Runs, NEW run, NEW w, NEW ev, NEW rep, NEW n,
         runs' = [runs EXCEPT ![r] = run], worker' = [worker EXCEPT ![r] = w],
         events' = [events EXCEPT ![r] = ev], replies' = [replies EXCEPT ![r] = rep],
         late' = [late EXCEPT ![r] = n],
         Sound(run, w, ev, rep, n),
         Live(run) => Live(runs[r]) /\ run.document = runs[r].document
  PROVE  IInv'
<1>1. /\ runs' = [q \in Runs |-> runs'[q]] /\ worker' = [q \in Runs |-> worker'[q]]
      /\ events' = [q \in Runs |-> events'[q]] /\ replies' = [q \in Runs |-> replies'[q]]
      /\ late' = [q \in Runs |-> late'[q]]
  BY DEF IInv
<1>2. runs'[r] = run /\ worker'[r] = w /\ events'[r] = ev /\ replies'[r] = rep /\ late'[r] = n
  BY DEF IInv
<1>3. \A q \in Runs \ {r} : /\ runs'[q] = runs[q] /\ worker'[q] = worker[q]
                            /\ events'[q] = events[q] /\ replies'[q] = replies[q]
                            /\ late'[q] = late[q]
  BY DEF IInv
<1>4. \A q \in Runs : Sound(runs'[q], worker'[q], events'[q], replies'[q], late'[q])
  BY <1>2, <1>3 DEF IInv
<1>5. \A q \in Runs : Alive(q)' => Alive(q) /\ runs'[q].document = runs[q].document
  <2>1. \A q \in Runs \ {r} : Alive(q)' => Alive(q) /\ runs'[q].document = runs[q].document
    BY <1>3 DEF Alive
  <2>2. Alive(r)' => Live(run)
    BY <1>2 DEF Alive, Sound, Outlives
  <2>3. Live(runs[r]) => Alive(r)
    BY LiveIsRunning DEF Sound, Outlives, Alive
  <2> QED
    BY <1>2, <2>1, <2>2, <2>3
<1>6. OneConversationPerDocument'
  <2> SUFFICES ASSUME NEW a \in Runs, NEW b \in Runs, a # b, Alive(a)', Alive(b)'
               PROVE  runs'[a].document # runs'[b].document
    BY DEF OneConversationPerDocument
  <2>1. Alive(a) /\ Alive(b) /\ runs'[a].document = runs[a].document
        /\ runs'[b].document = runs[b].document
    BY <1>5
  <2>2. runs[a].document # runs[b].document
    BY <2>1 DEF IInv, OneConversationPerDocument
  <2> QED
    BY <2>1, <2>2
<1> QED
  BY <1>1, <1>4, <1>6 DEF IInv

\* A step of the thread leaves its run as it is.
LEMMA ThreadStep ==
  ASSUME IInv, NEW r \in Runs, NEW w, NEW ev, NEW rep,
         UNCHANGED <<runs, late>>, worker' = [worker EXCEPT ![r] = w],
         events' = [events EXCEPT ![r] = ev], replies' = [replies EXCEPT ![r] = rep],
         Sound(runs[r], w, ev, rep, late[r])
  PROVE  IInv'
<1>1. runs' = [runs EXCEPT ![r] = runs[r]] /\ late' = [late EXCEPT ![r] = late[r]]
  BY DEF IInv
<1> QED
  BY <1>1, OneRunStep

\* The thread sends a list of events.
LEMMA ThreadSends ==
  ASSUME IInv, NEW r \in Runs, NEW w, NEW list, NEW ev,
         UNCHANGED <<runs, replies, late>>, worker' = [worker EXCEPT ![r] = w],
         Send(r, list), ev = events[r] \o list,
         Sound(runs[r], w, ev, replies[r], late[r])
  PROVE  IInv'
<1>1. replies' = [replies EXCEPT ![r] = replies[r]]
  BY DEF IInv
<1>2. events' = [events EXCEPT ![r] = ev]
  BY DEF Send
<1> QED
  BY <1>1, <1>2, ThreadStep

\* A thread that is not done finds its run running.
LEMMA ThreadIsLive ==
  ASSUME IInv, NEW r \in Runs, worker[r].at # "gone"
  PROVE  Live(runs[r]) /\ worker[r] \in Workers /\ events[r] \in Seq(EventNames)
  BY LiveIsRunning DEF Alive, TypedRun

LEMMA WorkerFields ==
  ASSUME NEW w \in Workers, NEW at \in {"gone", "turn", "model", "waiting"}, NEW f \in {0, 1}
  PROVE  /\ [w EXCEPT !.at = at] \in Workers /\ [w EXCEPT !.at = at].at = at
         /\ [w EXCEPT !.at = at].left = w.left
         /\ [w EXCEPT !.at = at, !.failures = f] \in Workers
         /\ [w EXCEPT !.at = at, !.failures = f].at = at
         /\ [w EXCEPT !.at = at, !.failures = f].left = w.left
  BY DEF Workers

LEMMA TurnFields ==
  ASSUME NEW w \in Workers, w.left # 0
  PROVE  LET new == [w EXCEPT !.at = "model", !.left = @ - 1]
         IN  new \in Workers /\ new.at = "model" /\ new.left = w.left - 1
<1> DEFINE left == w.left - 1
<1>1. left \in 0..MaxTurns
  BY HarnessAssumption DEF Workers
<1> HIDE DEF left
<1>2. [w EXCEPT !.at = "model", !.left = left] \in Workers
  BY <1>1 DEF Workers
<1>3. /\ [w EXCEPT !.at = "model", !.left = left].at = "model"
      /\ [w EXCEPT !.at = "model", !.left = left].left = left
  BY DEF Workers
<1> QED
  BY <1>2, <1>3 DEF left

\* The thread returns.
LEMMA EndStep ==
  ASSUME IInv, NEW r \in Runs, worker[r].at \in {"turn", "model"}, NEW e \in Ends,
         e = "exhausted" => worker[r].at = "turn" /\ worker[r].left = 0,
         End(r, <<e>>), UNCHANGED <<runs, replies, late>>
  PROVE  IInv'
<1>1. Sound(runs[r], Gone, events[r] \o <<e>>, replies[r], late[r])
  BY LiveIsRunning, RunEnded
<1>2. worker' = [worker EXCEPT ![r] = Gone] /\ Send(r, <<e>>)
  BY DEF End
<1> QED
  BY <1>1, <1>2, ThreadSends

LEMMA OneInSeq ==
  ASSUME NEW S, NEW x \in S
  PROVE  <<x>> \in Seq(S)
  OBVIOUS

\* The two events of a reply are those of the model's reply and one more.
LEMMA TwoMore ==
  ASSUME NEW ev \in Seq(EventNames), NEW e \in EventNames
  PROVE  ev \o <<"model", e>> = (ev \o <<"model">>) \o <<e>>
<1>1. "model" \in EventNames
  BY DEF EventNames
<1>2. <<"model">> \in Seq(EventNames) /\ <<e>> \in Seq(EventNames)
  BY <1>1, OneInSeq
<1>3. <<"model">> \o <<e>> = <<"model", e>>
  <2>1. Append(<<"model">>, e) = <<"model", e>>
    <3> DEFINE c == Append(<<"model">>, e)
               d == <<"model", e>>
    <3>1. c \in Seq(EventNames) /\ Len(c) = 2 /\ c[1] = "model" /\ c[2] = e
      BY <1>2, AppendProperties
    <3>2. d \in Seq(EventNames) /\ Len(d) = 2 /\ d[1] = "model" /\ d[2] = e
      BY <1>1
    <3> HIDE DEF c, d
    <3>3. c = d
      BY <3>1, <3>2, SeqEqual
    <3> QED
      BY <3>3 DEF c, d
  <2>2. Append(<<"model">>, e) = <<"model">> \o <<e>>
    BY <1>2, AppendIsConcat
  <2> QED
    BY <2>1, <2>2
<1>4. (ev \o <<"model">>) \o <<e>> = ev \o (<<"model">> \o <<e>>)
  BY <1>2, ConcatAssociative
<1> QED
  BY <1>3, <1>4

LEMMA TurnBeginsStep ==
  ASSUME IInv, NEW r \in Runs, TurnBegins(r)
  PROVE  IInv'
<1> DEFINE w == [worker[r] EXCEPT !.at = "model", !.left = @ - 1]
<1>1. worker[r].at = "turn" /\ UNCHANGED <<runs, replies, late>>
  BY DEF TurnBegins
<1>2. CASE BudgetUsed(r)
  BY <1>1, <1>2, EndStep DEF TurnBegins, BudgetUsed, Ends
<1>3. CASE ~BudgetUsed(r) /\ CancelSeen(r)
  BY <1>1, <1>3, EndStep DEF TurnBegins, Ends
<1>4. CASE ~BudgetUsed(r) /\ ~CancelSeen(r)
  <2>1. worker' = [worker EXCEPT ![r] = w] /\ events' = events
    BY <1>4 DEF TurnBegins
  <2>2. worker[r] \in Workers /\ worker[r].left # 0 /\ ~runs[r].cancelRequested
    <3>1. worker[r].at # "gone"
      BY <1>1
    <3>2. worker[r] \in Workers
      BY <3>1, ThreadIsLive
    <3> QED
      BY <1>4, <3>2 DEF BudgetUsed, CancelSeen
  <2>3. w \in Workers /\ w.at = "model" /\ w.left = worker[r].left - 1
    BY <2>2, TurnFields
  <2> HIDE DEF w
  <2>4. Sound(runs[r], w, events[r], replies[r], late[r])
    BY <1>1, <2>2, <2>3, LiveIsRunning, Began
  <2>5. events' = [events EXCEPT ![r] = events[r]] /\ replies' = [replies EXCEPT ![r] = replies[r]]
    BY <1>1, <2>1 DEF IInv
  <2> QED
    <3>1. UNCHANGED <<runs, late>>
      BY <1>1
    <3> QED
      BY <2>1, <2>4, <2>5, <3>1, ThreadStep, Zenon
<1> QED
  BY <1>2, <1>3, <1>4

LEMMA CallFailsStep ==
  ASSUME IInv, NEW r \in Runs, CallFails(r)
  PROVE  IInv'
  BY EndStep DEF CallFails, Ends

\* After the reply of the model the conversation ends or goes on.
LEMMA ReplyStep ==
  ASSUME IInv, NEW r \in Runs, worker[r].at = "model", UNCHANGED <<runs, replies, late>>,
         NEW w \in Workers, w.left = worker[r].left,
         worker' = [worker EXCEPT ![r] = w],
         \/ w.at = "turn" /\ Send(r, <<"model">>)
         \/ w.at = "turn" /\ Send(r, <<"model", "web">>)
         \/ w.at = "waiting" /\ Send(r, <<"model", "tool">>)
  PROVE  IInv'
<1> DEFINE w1 == [worker[r] EXCEPT !.at = "turn"]
           ev == events[r] \o <<"model">>
<1>0. worker[r] \in Workers /\ events[r] \in Seq(EventNames) /\ Live(runs[r])
  BY ThreadIsLive
<1>1. w1 \in Workers /\ w1.at = "turn" /\ w1.left = worker[r].left
  BY <1>0, WorkerFields
<1> HIDE DEF w1
<1>2. Sound(runs[r], w1, ev, replies[r], late[r])
  BY <1>1, LiveIsRunning, ModelSent
<1>3. late[r] = 0
  BY <1>0, LiveIsRunning DEF Sound, LateOnce
<1>4. CASE w.at = "turn" /\ Send(r, <<"model">>)
  <2>1. Sound(runs[r], w, ev, replies[r], late[r])
    BY <1>1, <1>4, LiveIsRunning, ModelSent
  <2> QED
    BY <1>4, <2>1, ThreadSends
<1>5. CASE w.at = "turn" /\ Send(r, <<"model", "web">>)
  <2>1. Sound(runs[r], w, ev \o <<"web">>, replies[r], late[r])
    BY <1>1, <1>2, <1>5, Sent
  <2>2. ev \o <<"web">> = events[r] \o <<"model", "web">>
    BY <1>0, TwoMore DEF EventNames
  <2> QED
    BY <1>5, <2>1, <2>2, ThreadSends
<1>6. CASE w.at = "waiting" /\ Send(r, <<"model", "tool">>)
  <2>1. Sound(runs[r], w, ev \o <<"tool">>, replies[r], late[r])
    BY <1>1, <1>2, <1>3, <1>6, Sent
  <2>2. ev \o <<"tool">> = events[r] \o <<"model", "tool">>
    BY <1>0, TwoMore DEF EventNames
  <2> QED
    BY <1>6, <2>1, <2>2, ThreadSends
<1> QED
  BY <1>4, <1>5, <1>6

LEMMA LastReplyStep ==
  ASSUME IInv, NEW r \in Runs, worker[r].at = "model", UNCHANGED <<runs, replies, late>>,
         NEW e \in {"failed", "finished"}, End(r, <<"model", e>>)
  PROVE  IInv'
<1> DEFINE w1 == [worker[r] EXCEPT !.at = "turn"]
           ev == events[r] \o <<"model">>
<1>0. worker[r] \in Workers /\ events[r] \in Seq(EventNames)
  BY ThreadIsLive
<1>1. w1 \in Workers /\ w1.at = "turn" /\ w1.left = worker[r].left
  BY <1>0, WorkerFields
<1> HIDE DEF w1
<1>2. Sound(runs[r], w1, ev, replies[r], late[r])
  BY <1>1, LiveIsRunning, ModelSent
<1>3. Sound(runs[r], Gone, ev \o <<e>>, replies[r], late[r])
  BY <1>1, <1>2, RunEnded DEF Ends
<1>4. ev \o <<e>> = events[r] \o <<"model", e>>
  BY <1>0, TwoMore DEF EventNames
<1>5. worker' = [worker EXCEPT ![r] = Gone] /\ Send(r, <<"model", e>>)
  BY DEF End
<1> QED
  BY <1>3, <1>4, <1>5, ThreadSends

LEMMA UnparseableStep ==
  ASSUME IInv, NEW r \in Runs, Unparseable(r)
  PROVE  IInv'
<1>1. worker[r].at = "model" /\ UNCHANGED <<runs, replies, late>>
  BY DEF Unparseable
<1>2. CASE worker[r].failures = 1
  BY <1>1, <1>2, LastReplyStep DEF Unparseable
<1>3. CASE worker[r].failures # 1
  <2> DEFINE w == Correction(r)
  <2>1. worker' = [worker EXCEPT ![r] = w] /\ Send(r, <<"model">>)
    BY <1>3 DEF Unparseable
  <2>2. worker[r] \in Workers
    BY <1>1, ThreadIsLive
  <2>3. w \in Workers /\ w.at = "turn" /\ w.left = worker[r].left
    BY <2>2, WorkerFields DEF Correction
  <2> HIDE DEF w
  <2> QED
    BY <1>1, <2>1, <2>3, ReplyStep
<1> QED
  BY <1>2, <1>3

LEMMA CallStep ==
  ASSUME IInv, NEW r \in Runs, WebFetch(r) \/ ToolCall(r)
  PROVE  IInv'
<1> DEFINE fetching == [worker[r] EXCEPT !.at = "turn", !.failures = 0]
           calling == [worker[r] EXCEPT !.at = "waiting", !.failures = 0]
<1>0. worker[r].at = "model" /\ UNCHANGED <<runs, replies, late>>
  BY DEF WebFetch, ToolCall
<1>1. worker[r] \in Workers
  BY <1>0, ThreadIsLive
<1>2. fetching \in Workers /\ fetching.at = "turn" /\ fetching.left = worker[r].left
  BY <1>1, WorkerFields
<1>3. calling \in Workers /\ calling.at = "waiting" /\ calling.left = worker[r].left
  BY <1>1, WorkerFields
<1>4. CASE WebFetch(r)
  <2>1. worker' = [worker EXCEPT ![r] = fetching] /\ Send(r, <<"model", "web">>)
    BY <1>4 DEF WebFetch
  <2> HIDE DEF fetching
  <2> QED
    BY <1>0, <1>2, <2>1, ReplyStep
<1>5. CASE ToolCall(r)
  <2>1. worker' = [worker EXCEPT ![r] = calling] /\ Send(r, <<"model", "tool">>)
    BY <1>5 DEF ToolCall
  <2> HIDE DEF calling
  <2> QED
    BY <1>0, <1>3, <2>1, ReplyStep
<1> QED
  BY <1>4, <1>5

LEMMA ReceiveStep ==
  ASSUME IInv, NEW r \in Runs, Receive(r)
  PROVE  IInv'
<1> DEFINE w == [worker[r] EXCEPT !.at = "turn"]
<1>1. /\ worker[r].at = "waiting" /\ replies[r] # <<>> /\ UNCHANGED <<runs, events, late>>
      /\ worker' = [worker EXCEPT ![r] = w]
      /\ replies' = [replies EXCEPT ![r] = Tail(replies[r])]
  BY DEF Receive
<1>0. worker[r] \in Workers
  BY <1>1, ThreadIsLive
<1>2. w \in Workers /\ w.at = "turn" /\ w.left = worker[r].left
  BY <1>0, WorkerFields
<1> HIDE DEF w
<1>3. Sound(runs[r], w, events[r], Tail(replies[r]), late[r])
  BY <1>1, <1>2, LiveIsRunning, Received
<1>4. events' = [events EXCEPT ![r] = events[r]]
  BY <1>1 DEF IInv
<1> QED
  BY <1>1, <1>3, <1>4, ThreadStep

\* The engine handles an event.
LEMMA HandleStep ==
  ASSUME IInv, NEW r \in Runs, Handle(r)
  PROVE  IInv'
<1> DEFINE ev == events[r]
           e == Head(ev)
           run2 == [runs[r] EXCEPT !.status = StatusAfter(e),
                                   !.turns = IF e = "model" THEN @ + 1 ELSE @]
           rep == IF e = "tool" THEN Append(replies[r], "result") ELSE replies[r]
           n == IF e = "tool" /\ runs[r].cancelRequested THEN late[r] + 1 ELSE late[r]
<1>1. /\ ev # <<>> /\ Running(r) /\ Live(runs[r]) /\ runs[r] \in RunRecords
      /\ Sound(runs[r], worker[r], ev, replies[r], late[r])
  BY LiveIsRunning DEF Handle, Alive, Live
<1>2. ev \in Seq(EventNames) /\ e = ev[1] /\ e \in EventNames
  BY <1>1, HandledIsLive, OneLess
<1>3. /\ runs' = [runs EXCEPT ![r] = run2] /\ worker' = [worker EXCEPT ![r] = worker[r]]
      /\ events' = [events EXCEPT ![r] = Tail(ev)]
      /\ replies' = [replies EXCEPT ![r] = rep] /\ late' = [late EXCEPT ![r] = n]
  <2>1. runs' = [runs EXCEPT ![r] = run2]
    BY <1>1 DEF Handle
  <2>2. worker' = [worker EXCEPT ![r] = worker[r]]
    BY DEF Handle, IInv
  <2>3. replies' = [replies EXCEPT ![r] = rep] /\ late' = [late EXCEPT ![r] = n]
    BY <1>1 DEF Handle, IInv, Answered, Running
  <2> QED
    BY <2>1, <2>2, <2>3 DEF Handle
<1>4. /\ run2 \in RunRecords /\ run2.document = runs[r].document
      /\ run2.status = StatusAfter(e) /\ run2.cancelRequested = runs[r].cancelRequested
      /\ run2.maxTurns = runs[r].maxTurns
      /\ run2.turns = IF e = "model" THEN runs[r].turns + 1 ELSE runs[r].turns
  BY <1>1, HandledRun
<1>5. e \notin Ends \cup {"model"} => run2 = runs[r]
  BY <1>1, <1>2, SameRun DEF Live, StatusAfter, Ends, EventNames
<1>6. Sound(run2, worker[r], Tail(ev), rep, n)
  <2> HIDE DEF run2
  <2>1. CASE e \in Ends
    <3>1. run2.status # "running" /\ run2.turns = runs[r].turns /\ rep = replies[r] /\ n = late[r]
      BY <1>4, <2>1 DEF StatusAfter, Ends
    <3> QED
      BY <1>1, <1>2, <1>4, <2>1, <3>1, HandledEnd
  <2>2. CASE e \in {"model", "web"}
    <3>1. /\ run2.status = runs[r].status /\ rep = replies[r] /\ n = late[r]
          /\ run2.turns = runs[r].turns + IF ev[1] = "model" THEN 1 ELSE 0
      BY <1>1, <1>2, <1>4, <2>2, RunFields DEF StatusAfter, Ends, Live
    <3> QED
      BY <1>1, <1>2, <1>4, <2>2, <3>1, HandledTrace
  <2>3. CASE e = "tool"
    <3>1. run2 = runs[r] /\ rep = Append(replies[r], "result")
          /\ n = IF runs[r].cancelRequested THEN late[r] + 1 ELSE late[r]
      BY <1>5, <2>3 DEF Ends
    <3> HIDE DEF n, rep
    <3> QED
      BY <1>1, <1>2, <2>3, <3>1, HandledTool
  <2> QED
    BY <1>2, <2>1, <2>2, <2>3 DEF EventNames, Ends
<1> HIDE DEF run2, rep, n
<1> QED
  BY <1>1, <1>3, <1>4, <1>6, OneRunStep

LEMMA HarnessCancelStep ==
  ASSUME IInv, NEW r \in Runs, HarnessCancel(r)
  PROVE  IInv'
<1> DEFINE run2 == [runs[r] EXCEPT !.cancelRequested = TRUE]
<1>1. /\ Live(runs[r]) /\ runs[r] \in RunRecords
      /\ Sound(runs[r], worker[r], events[r], replies[r], late[r])
  BY LiveIsRunning DEF HarnessCancel, Live
<1>2. /\ run2 \in RunRecords /\ run2.document = runs[r].document
      /\ run2.status = runs[r].status /\ run2.cancelRequested
      /\ run2.maxTurns = runs[r].maxTurns /\ run2.turns = runs[r].turns
  BY <1>1, CanceledRun
<1>3. /\ runs' = [runs EXCEPT ![r] = run2] /\ worker' = [worker EXCEPT ![r] = worker[r]]
      /\ events' = [events EXCEPT ![r] = events[r]]
      /\ replies' = [replies EXCEPT ![r] = replies[r]] /\ late' = [late EXCEPT ![r] = late[r]]
  BY DEF HarnessCancel, IInv
<1> HIDE DEF run2
<1>4. Turns(run2, worker[r], events[r]) = Turns(runs[r], worker[r], events[r])
  BY <1>2 DEF Turns
<1>5. BudgetKept(run2, worker[r], events[r])
  BY <1>1, <1>2, <1>4 DEF Sound, BudgetKept
<1>6. LateOnce(run2, worker[r], events[r], late[r])
  BY <1>1, <1>2, HarnessAssumption DEF Sound, LateOnce
<1>7. Sound(run2, worker[r], events[r], replies[r], late[r])
  BY <1>1, <1>2, <1>5, <1>6 DEF Sound, TypedRun, Outlives, Live
<1> QED
  BY <1>1, <1>2, <1>3, <1>7, OneRunStep

\* A run that is pruned has nothing left to do.
LEMMA PrunedIsSound ==
  ASSUME NEW run \in RunRecords, NEW w, NEW ev, NEW rep, NEW n,
         Sound(run, w, ev, rep, n), run.status # "running"
  PROVE  Sound(Pruned, w, ev, rep, n)
<1>1. Pruned \notin RunRecords /\ Pruned # NoRun
  BY HarnessAssumption
<1>2. BudgetKept(Pruned, w, ev) /\ LateOnce(Pruned, w, ev, n) /\ Outlives(Pruned, w, ev, rep)
  BY <1>1 DEF Sound, BudgetKept, LateOnce, Outlives, Live
<1> QED
  BY <1>2 DEF Sound, TypedRun

\* A run that starts.
LEMMA StartedIsSound ==
  ASSUME NEW run \in RunRecords, run.status = "running", ~run.cancelRequested, run.turns = 0,
         NEW w \in Workers, w.at = "turn", w.left = run.maxTurns
  PROVE  Sound(run, w, <<>>, <<>>, 0)
<1>1. <<>> \in Seq(EventNames) /\ <<>> \in Seq({"result"}) /\ Len(<<>>) = 0
  BY EmptySeq
<1> DEFINE ev == <<>>
<1>2. ev \in Seq(EventNames) /\ Len(ev) = 0 /\ ev = <<>> /\ ev \in Seq({"result"})
  BY <1>1
<1> HIDE DEF ev
<1>3. \A i \in 1..Len(ev) : FALSE
  BY <1>2
<1>4. Cnt(ev, "model") = 0
  BY <1>2, <1>3, CntType
<1>5. Turns(run, w, ev) = run.maxTurns
  BY <1>4, RunFields DEF Turns
<1>6. BudgetKept(run, w, ev)
  BY <1>3, <1>5, RunFields DEF BudgetKept
<1>7. EndsLast(w, ev) /\ OneReply(w, ev, ev) /\ Outlives(run, w, ev, ev)
  BY <1>2, <1>3 DEF EndsLast, OneReply, Outlives, Live
<1>8. LateOnce(run, w, ev, 0)
  BY HarnessAssumption DEF LateOnce
<1>9. Sound(run, w, ev, ev, 0)
  BY <1>2, <1>6, <1>7, <1>8 DEF Sound, TypedRun
<1> QED
  BY <1>9 DEF ev

LEMMA HarnessStartStep ==
  ASSUME IInv, NEW r \in Runs, NEW d \in Documents, NEW maxTurns \in 1..MaxTurns,
         HarnessStart(r, d, maxTurns)
  PROVE  IInv'
<1> DEFINE run == [document |-> d, status |-> "running", cancelRequested |-> FALSE,
                   maxTurns |-> maxTurns, turns |-> 0]
           w == [at |-> "turn", left |-> maxTurns, failures |-> 0]
           map == [runs EXCEPT ![r] = run]
<1>1. /\ run \in RunRecords /\ run.status = "running" /\ ~run.cancelRequested
      /\ run.turns = 0 /\ run.document = d /\ run.maxTurns = maxTurns
  BY HarnessAssumption DEF RunRecords, Statuses
<1>2. w \in Workers /\ w.at = "turn" /\ w.left = run.maxTurns
  BY HarnessAssumption DEF Workers
<1>3. PICK kept \in SUBSET Runs : PrunedTo(map, kept)
  BY DEF HarnessStart
<1>4. /\ runs[r] = NoRun /\ Startable(d) /\ worker' = [worker EXCEPT ![r] = w]
      /\ events' = events /\ replies' = replies /\ late' = late
  BY DEF HarnessStart
<1> HIDE DEF run, w
<1>5. map[r] = run /\ \A q \in Runs \ {r} : map[q] = runs[q]
  BY DEF IInv
<1>6. run # NoRun /\ run # Pruned
  BY <1>1, HarnessAssumption
<1> HIDE DEF map
<1>7. runs' = [q \in Runs |-> IF q \in Prunable(map) \ kept THEN Pruned ELSE map[q]]
  BY <1>3 DEF PrunedTo
<1>8. runs'[r] = run
  BY <1>1, <1>5, <1>7 DEF Prunable
<1>9. \A q \in Runs \ {r} :
        \/ runs'[q] = runs[q]
        \/ runs'[q] = Pruned /\ Known(q) /\ runs[q].status # "running"
  BY <1>5, <1>7 DEF Prunable, Known
<1>10. /\ worker'[r] = w /\ \A q \in Runs \ {r} : worker'[q] = worker[q]
       /\ worker' = [q \in Runs |-> worker'[q]]
  BY <1>4 DEF IInv
<1>11. events[r] = <<>> /\ replies[r] = <<>> /\ late[r] = 0
  BY <1>4, HarnessAssumption DEF IInv, Sound, Outlives, LateOnce, Live
<1>12. Sound(run, w, events[r], replies[r], late[r])
  BY <1>1, <1>2, <1>11, StartedIsSound
<1>13. \A q \in Runs \ {r} : Sound(runs'[q], worker[q], events[q], replies[q], late[q])
  <2> TAKE q \in Runs \ {r}
  <2>1. /\ Sound(runs[q], worker[q], events[q], replies[q], late[q])
        /\ Known(q) <=> runs[q] \in RunRecords
    BY LiveIsRunning
  <2>2. CASE runs'[q] = runs[q]
    BY <2>1, <2>2
  <2>3. CASE runs'[q] = Pruned /\ Known(q) /\ runs[q].status # "running"
    BY <2>1, <2>3, PrunedIsSound
  <2> QED
    BY <1>9, <2>2, <2>3
<1>14. \A q \in Runs : Sound(runs'[q], worker'[q], events'[q], replies'[q], late'[q])
  <2> TAKE q \in Runs
  <2>1. events'[q] = events[q] /\ replies'[q] = replies[q] /\ late'[q] = late[q]
    BY <1>4
  <2>2. CASE q = r
    BY <1>8, <1>10, <1>12, <2>1, <2>2
  <2>3. CASE q # r
    BY <1>10, <1>13, <2>1, <2>3
  <2> QED
    BY <2>2, <2>3
<1>15. \A q \in Runs \ {r} :
         Alive(q)' => Alive(q) /\ runs'[q] = runs[q] /\ runs[q].document # d
  <2> TAKE q \in Runs \ {r}
  <2> HAVE Alive(q)'
  <2>1. Alive(q)
    BY <1>4, <1>10 DEF Alive
  <2>2. Running(q)
    BY <2>1, LiveIsRunning
  <2>3. runs'[q] = runs[q]
    BY <1>9, <2>2 DEF Running
  <2> QED
    BY <1>4, <2>1, <2>2, <2>3 DEF Startable
<1>16. OneConversationPerDocument'
  <2> SUFFICES ASSUME NEW a \in Runs, NEW b \in Runs, a # b, Alive(a)', Alive(b)'
               PROVE  runs'[a].document # runs'[b].document
    BY DEF OneConversationPerDocument
  <2>1. CASE a = r
    BY <1>1, <1>8, <1>15, <2>1
  <2>2. CASE b = r
    BY <1>1, <1>8, <1>15, <2>2
  <2>3. CASE a # r /\ b # r
    <3>1. Alive(a) /\ Alive(b) /\ runs'[a] = runs[a] /\ runs'[b] = runs[b]
      BY <1>15, <2>3
    <3>2. runs[a].document # runs[b].document
      BY <3>1 DEF IInv, OneConversationPerDocument
    <3> QED
      BY <3>1, <3>2
  <2> QED
    BY <2>1, <2>2, <2>3
<1>17. /\ events' = [q \in Runs |-> events'[q]] /\ replies' = [q \in Runs |-> replies'[q]]
       /\ late' = [q \in Runs |-> late'[q]] /\ runs' = [q \in Runs |-> runs'[q]]
  <2>1. runs' = [q \in Runs |-> runs'[q]]
    BY <1>7
  <2> QED
    BY <1>4, <2>1 DEF IInv
<1> QED
  BY <1>10, <1>14, <1>16, <1>17 DEF IInv

-----------------------------------------------------------------------------
(* The invariant holds.                                                    *)

LEMMA InitIInv ==
  ASSUME Init
  PROVE  IInv
<1>1. Gone \in Workers /\ Gone.at = "gone" /\ Gone.left = 0
  BY HarnessAssumption DEF Gone, Workers
<1> DEFINE ev == <<>>
<1>2. /\ ev \in Seq(EventNames) /\ Len(ev) = 0 /\ ev = <<>> /\ ev \in Seq({"result"})
      /\ \A i \in 1..Len(ev) : FALSE
  BY EmptySeq
<1> HIDE DEF ev
<1>3. EndsLast(Gone, ev) /\ OneReply(Gone, ev, ev)
  BY <1>1, <1>2 DEF EndsLast, OneReply
<1>4. /\ BudgetKept(NoRun, Gone, ev) /\ LateOnce(NoRun, Gone, ev, 0)
      /\ Outlives(NoRun, Gone, ev, ev)
  BY <1>1, <1>2, HarnessAssumption DEF BudgetKept, LateOnce, Outlives, Live
<1>5. Sound(NoRun, Gone, ev, ev, 0)
  BY <1>1, <1>2, <1>3, <1>4 DEF Sound, TypedRun
<1>6. \A r \in Runs : /\ runs[r] = NoRun /\ worker[r] = Gone /\ events[r] = ev
                      /\ replies[r] = ev /\ late[r] = 0
  BY <1>2 DEF Init
<1>7. \A r \in Runs : Sound(runs[r], worker[r], events[r], replies[r], late[r])
  BY <1>5, <1>6
<1>8. OneConversationPerDocument
  BY <1>1, <1>2, <1>6 DEF OneConversationPerDocument, Alive
<1>9. /\ runs = [r \in Runs |-> runs[r]] /\ worker = [r \in Runs |-> worker[r]]
      /\ events = [r \in Runs |-> events[r]] /\ replies = [r \in Runs |-> replies[r]]
      /\ late = [r \in Runs |-> late[r]]
  BY DEF Init
<1> QED
  BY <1>7, <1>8, <1>9 DEF IInv

LEMMA NextIInv ==
  ASSUME IInv, [Next]_vars
  PROVE  IInv'
<1>1. CASE UNCHANGED vars
  BY <1>1 DEF IInv, vars, OneConversationPerDocument, Alive
<1>2. CASE Next
  <2>1. PICK r \in Runs :
          \/ \E d \in Documents, maxTurns \in 1..MaxTurns : HarnessStart(r, d, maxTurns)
          \/ HarnessCancel(r) \/ Worker(r) \/ Handle(r)
    BY <1>2 DEF Next
  <2>2. CASE \E d \in Documents, maxTurns \in 1..MaxTurns : HarnessStart(r, d, maxTurns)
    BY <2>2, HarnessStartStep
  <2>3. CASE HarnessCancel(r)
    BY <2>3, HarnessCancelStep
  <2>4. CASE Handle(r)
    BY <2>4, HandleStep
  <2>5. CASE TurnBegins(r)
    BY <2>5, TurnBeginsStep
  <2>6. CASE CallFails(r)
    BY <2>6, CallFailsStep
  <2>7. CASE Unparseable(r)
    BY <2>7, UnparseableStep
  <2>8. CASE Finish(r)
    BY <2>8, LastReplyStep DEF Finish
  <2>9. CASE WebFetch(r) \/ ToolCall(r)
    BY <2>9, CallStep
  <2>10. CASE Receive(r)
    BY <2>10, ReceiveStep
  <2> QED
    BY <2>1, <2>2, <2>3, <2>4, <2>5, <2>6, <2>7, <2>8, <2>9, <2>10 DEF Worker
<1> QED
  BY <1>1, <1>2

LEMMA Invariant == Spec => []IInv
<1>1. Init => IInv
  BY InitIInv
<1>2. IInv /\ [Next]_vars => IInv'
  BY NextIInv
<1> QED
  BY <1>1, <1>2, PTL DEF Spec

-----------------------------------------------------------------------------
(* What it says of the harness.                                            *)

\* The state keeps its shape: the harness_runs map and what the channels hold.
THEOREM TypeCorrect == Spec => []TypeOK
<1>1. IInv => TypeOK
  <2> SUFFICES ASSUME IInv PROVE TypeOK
    OBVIOUS
  <2>1. \A r \in Runs : TypedRun(runs[r], worker[r], events[r], replies[r], late[r])
    BY LiveIsRunning
  <2>2. /\ runs \in [Runs -> RunRecords \cup {NoRun, Pruned}] /\ worker \in [Runs -> Workers]
        /\ late \in [Runs -> Nat]
    BY <2>1 DEF IInv, TypedRun
  <2> QED
    BY <2>1, <2>2 DEF TypeOK, TypedRun, Workers
<1> QED
  BY <1>1, Invariant, PTL

\* A worker that waits on its reply channel has one request on the way or one
\* result, never none and never two, whatever the run's status became.
THEOREM OneReplyPerRequest == Spec => []ReplyPerRequest
<1>1. IInv => ReplyPerRequest
  <2> SUFFICES ASSUME IInv, NEW r \in Runs
               PROVE  Count(r, "tool") + Len(replies[r])
                        = IF worker[r].at = "waiting" THEN 1 ELSE 0
    BY DEF ReplyPerRequest
  <2>1. /\ Sound(runs[r], worker[r], events[r], replies[r], late[r])
        /\ events[r] \in Seq(EventNames)
    BY LiveIsRunning DEF TypedRun
  <2>2. Count(r, "tool") = Cnt(events[r], "tool")
    BY DEF Count, Cnt
  <2>3. Cnt(events[r], "tool") = IF Asks(events[r]) THEN 1 ELSE 0
    BY <2>1, OneAsks DEF Sound
  <2>4. Asks(events[r]) => worker[r].at = "waiting"
    BY <2>1, AsksWaits DEF Sound
  <2>5. Len(<<>>) = 0
    OBVIOUS
  <2> QED
    BY <2>1, <2>2, <2>3, <2>4, <2>5 DEF Sound, OneReply
<1> QED
  BY <1>1, Invariant, PTL

\* At most one tool runs for a run after its cancel was accepted.
THEOREM CancelStops == Spec => []CancelStopsTools
<1>1. IInv => CancelStopsTools
  BY DEF IInv, Sound, LateOnce, CancelStopsTools
<1> QED
  BY <1>1, Invariant, PTL

\* No thread works for, and no event arrives at, a run that is terminal or pruned.
THEOREM EventsMeetTheirRun == Spec => []EventsFindTheirRun
<1>1. IInv => EventsFindTheirRun
  BY LiveIsRunning DEF EventsFindTheirRun
<1> QED
  BY <1>1, Invariant, PTL

\* No two conversations edit one document, not even while one winds down.
THEOREM OneConversation == Spec => []OneConversationPerDocument
<1>1. IInv => OneConversationPerDocument
  BY DEF IInv
<1> QED
  BY <1>1, Invariant, PTL

\* The turns a run reports never exceed its budget, and "exhausted" is the truth.
THEOREM TurnsHonest == Spec => []TurnsAreHonest
<1>1. IInv => TurnsAreHonest
  <2> SUFFICES ASSUME IInv, NEW r \in Runs, Known(r)
               PROVE  /\ runs[r].turns + Count(r, "model") + worker[r].left <= runs[r].maxTurns
                      /\ Count(r, "exhausted") > 0
                           => runs[r].turns + Count(r, "model") = runs[r].maxTurns
    BY DEF TurnsAreHonest
  <2> DEFINE ev == events[r]
  <2>1. /\ Sound(runs[r], worker[r], ev, replies[r], late[r]) /\ runs[r] \in RunRecords
        /\ ev \in Seq(EventNames) /\ worker[r] \in Workers
    BY LiveIsRunning DEF TypedRun
  <2>2. \A x : Count(r, x) = Cnt(ev, x)
    BY DEF Count, Cnt
  <2>3. /\ Cnt(ev, "model") \in Nat /\ worker[r].left \in Nat /\ runs[r].turns \in Nat
        /\ runs[r].maxTurns \in Nat
    BY <2>1, CntType, RunFields, HarnessAssumption DEF Workers
  <2>4. Turns(runs[r], worker[r], ev) <= runs[r].maxTurns
    BY <2>1 DEF Sound, BudgetKept
  <2>5. runs[r].turns + Cnt(ev, "model") + worker[r].left <= runs[r].maxTurns
    BY <2>3, <2>4 DEF Turns
  <2>6. ASSUME Cnt(ev, "exhausted") > 0
        PROVE  runs[r].turns + Cnt(ev, "model") = runs[r].maxTurns
    <3>1. PICK i \in 1..Len(ev) : ev[i] = "exhausted"
      <4>1. Cnt(ev, "exhausted") # 0
        BY <2>1, <2>6, CntType
      <4> QED
        BY <2>1, <4>1, CntType
    <3>2. worker[r].at = "gone" /\ Turns(runs[r], worker[r], ev) = runs[r].maxTurns
      BY <2>1, <3>1 DEF Sound, EndsLast, BudgetKept, Ends
    <3>3. worker[r].left = 0
      BY <2>1, <3>2 DEF Sound, BudgetKept
    <3> QED
      BY <2>3, <3>2, <3>3 DEF Turns
  <2> QED
    BY <2>2, <2>5, <2>6
<1> QED
  BY <1>1, Invariant, PTL


-----------------------------------------------------------------------------
(* Granting leases *)

LEMMA OrderOfSet ==
  ASSUME NEW S, IsFiniteSet(S)
  PROVE  /\ Cardinality(S) \in Nat
         /\ SetToSeq(S) \in [1..Cardinality(S) -> S]
         /\ \A i, j \in 1..Cardinality(S) : SetToSeq(S)[i] = SetToSeq(S)[j] => i = j
  <1>1. Cardinality(S) \in Nat /\ ExistsBijection(1..Cardinality(S), S)
    BY FS_CardinalityType
  <1>2. \E f \in [1..Cardinality(S) -> S] : IsInjective(f)
    BY <1>1 DEF ExistsBijection, Bijection, Injection, Surjection
  <1>3. /\ SetToSeq(S) \in [1..Cardinality(S) -> S]
        /\ IsInjective(SetToSeq(S))
    BY <1>2 DEF SetToSeq
  <1> QED BY <1>1, <1>3 DEF IsInjective

\* New leases: one for each id, all of them good.
LEMMA GrantedLeases ==
  ASSUME NEW ids \in SUBSET Ids, NEW owner, \A id \in ids : owner[id] \in Owners
  PROVE  LET granted == Granted(ids, owner)
         IN \E n \in Nat :
              /\ granted \in [1..n -> Leases]
              /\ \A i \in 1..n : granted[i].id \in ids /\ granted[i].active = TRUE
              /\ \A i, j \in 1..n : granted[i].id = granted[j].id => i = j
  <1>1. IsFiniteSet(ids)
    BY ConnectorAssumption, FS_Subset
  <1> DEFINE n == Cardinality(ids)
             order == SetToSeq(ids)
  <1>2. /\ n \in Nat /\ order \in [1..n -> ids]
        /\ \A i, j \in 1..n : order[i] = order[j] => i = j
    BY <1>1, OrderOfSet
  <1> HIDE DEF n
  <1>3. Granted(ids, owner)
          = [i \in 1..n |-> [id |-> order[i], owner |-> owner[order[i]], active |-> TRUE]]
    BY <1>2 DEF Granted
  <1> HIDE DEF order
  <1>4. \A i \in 1..n :
          /\ order[i] \in ids
          /\ [id |-> order[i], owner |-> owner[order[i]], active |-> TRUE] \in Leases
    BY <1>2 DEF Leases
  <1> QED BY <1>2, <1>3, <1>4

-----------------------------------------------------------------------------
(* The registry *)

\* An id resolves to a lease of its own.
EntriesFit == \A id \in Ids : entries[id] # 0 => leases[entries[id]].id = id

RegistryInv == ConnectorTypeOK /\ EntriesFit /\ ActiveIsAttached

LEMMA RegistryInit == ConnectorInit => RegistryInv
  <1> SUFFICES ASSUME ConnectorInit PROVE RegistryInv
    OBVIOUS
  <1> DEFINE first == CHOOSE id \in Ids : TRUE
             lease == [id |-> first, owner |-> Builtin, active |-> TRUE]
  <1>1. first \in Ids
    BY ConnectorAssumption
  <1>2. IsFiniteSet({first}) /\ Cardinality({first}) = 1
    BY FS_Singleton
  <1>3. SetToSeq({first}) \in [1..1 -> {first}]
    BY <1>2, OrderOfSet
  <1> HIDE DEF first
  <1>4. leases = Granted({first}, [id \in Ids |-> Builtin])
    BY DEF ConnectorInit, first
  <1>5. leases = [i \in 1..1 |-> lease]
    BY <1>1, <1>3, <1>4 DEF Granted
  <1>6. lease \in Leases
    BY <1>1 DEF Leases, Owners
  <1>7. leases \in Seq(Leases) /\ Len(leases) = 1 /\ DOMAIN leases = 1..1 /\ leases[1] = lease
    BY <1>5, <1>6
  <1>8. entries = [id \in Ids |-> IF id = first THEN 1 ELSE 0]
    BY <1>7 DEF ConnectorInit
  <1> QED BY <1>1, <1>7, <1>8 DEF RegistryInv, ConnectorTypeOK, EntriesFit, ActiveIsAttached

\* The ids of "out" leave and those of "ids" come, with new leases.
Exchanged(out, ids, owner) ==
  /\ leases' = Detached(out) \o Granted(ids, owner)
  /\ entries' = Entered(Without(out), Granted(ids, owner))

LEMMA LeaseTable ==
  ASSUME ConnectorTypeOK
  PROVE  /\ Len(leases) \in Nat /\ DOMAIN leases = 1..Len(leases)
         /\ \A g \in 1..Len(leases) : leases[g] \in Leases /\ leases[g].id \in Ids
  <1>1. leases \in Seq(Leases)
    BY DEF ConnectorTypeOK
  <1>2. \A lease \in Leases : lease.id \in Ids
    BY DEF Leases
  <1> QED BY <1>1, <1>2

LEMMA Deactivated ==
  ASSUME NEW lease \in Leases
  PROVE  LET off == [lease EXCEPT !.active = FALSE]
         IN off \in Leases /\ off.id = lease.id /\ off.active = FALSE
  <1>1. \A b \in BOOLEAN :
          LET off == [lease EXCEPT !.active = b]
          IN off \in Leases /\ off.id = lease.id /\ off.active = b
    BY DEF Leases
  <1> QED BY <1>1, Zenon

LEMMA DetachedLeases ==
  ASSUME RegistryInv, NEW out
  PROVE  /\ Detached(out) \in Seq(Leases) /\ Len(Detached(out)) = Len(leases)
         /\ \A g \in 1..Len(leases) :
              /\ Detached(out)[g].id = leases[g].id
              /\ Detached(out)[g].active <=>
                   leases[g].active /\ ~(leases[g].id \in out /\ entries[leases[g].id] = g)
  <1>1. leases \in Seq(Leases) /\ DOMAIN leases = 1..Len(leases) /\ Len(leases) \in Nat
    BY DEF RegistryInv, ConnectorTypeOK
  <1>2. \A g \in 1..Len(leases) :
          /\ leases[g] \in Leases /\ [leases[g] EXCEPT !.active = FALSE] \in Leases
          /\ [leases[g] EXCEPT !.active = FALSE].id = leases[g].id
          /\ [leases[g] EXCEPT !.active = FALSE].active = FALSE
    BY <1>1, Deactivated
  <1> DEFINE after(g) == IF leases[g].id \in out /\ entries[leases[g].id] = g
                         THEN [leases[g] EXCEPT !.active = FALSE] ELSE leases[g]
  <1>3. Detached(out) = [g \in 1..Len(leases) |-> after(g)]
    BY <1>1 DEF Detached
  <1>4. \A g \in 1..Len(leases) :
          /\ after(g) \in Leases /\ after(g).id = leases[g].id
          /\ after(g).active <=>
               leases[g].active /\ ~(leases[g].id \in out /\ entries[leases[g].id] = g)
    BY <1>2
  <1> HIDE DEF after
  <1>5. Detached(out) \in Seq(Leases) /\ Len(Detached(out)) = Len(leases)
    BY <1>1, <1>3, <1>4
  <1> QED BY <1>3, <1>4, <1>5

LEMMA ExchangeKeepsRegistry ==
  ASSUME RegistryInv, NEW out \in SUBSET Ids,
         NEW ids \in SUBSET ((Ids \ Attached) \cup out),
         NEW owner, \A id \in ids : owner[id] \in Owners,
         Exchanged(out, ids, owner)
  PROVE  RegistryInv' /\ Len(leases) <= Len(leases')
  <1> DEFINE granted == Granted(ids, owner)
             old == Detached(out)
             len == Len(leases)
  <1>1. ids \in SUBSET Ids
    BY DEF Attached
  <1>2. PICK n \in Nat :
          /\ granted \in [1..n -> Leases]
          /\ \A i \in 1..n : granted[i].id \in ids /\ granted[i].active = TRUE
          /\ \A i, j \in 1..n : granted[i].id = granted[j].id => i = j
    BY <1>1, GrantedLeases
  <1>3. /\ old \in Seq(Leases) /\ Len(old) = len
        /\ \A g \in 1..len :
             /\ old[g].id = leases[g].id
             /\ old[g].active <=>
                  leases[g].active /\ ~(leases[g].id \in out /\ entries[leases[g].id] = g)
    BY DetachedLeases
  <1>4. /\ len \in Nat /\ entries \in [Ids -> 0..len]
        /\ \A g \in 1..len : leases[g].id \in Ids
        /\ \A g \in 1..len : leases[g].active <=> entries[leases[g].id] = g
        /\ \A id \in Ids : entries[id] # 0 => leases[entries[id]].id = id
    <2>1. DOMAIN leases = 1..len /\ len \in Nat /\ \A g \in 1..len : leases[g].id \in Ids
      BY LeaseTable DEF RegistryInv
    <2> QED BY <2>1 DEF RegistryInv, ConnectorTypeOK, EntriesFit, ActiveIsAttached
  <1>5. /\ leases' = old \o granted
        /\ entries' = Entered(Without(out), granted)
    BY DEF Exchanged
  <1>6. granted \in Seq(Leases) /\ Len(granted) = n /\ DOMAIN granted = 1..n
    BY <1>2
  <1> DEFINE place(id) == CHOOSE i \in 1..n : granted[i].id = id
  <1>7. entries' = [id \in Ids |-> IF \E i \in 1..n : granted[i].id = id THEN len + place(id)
                                   ELSE IF id \in out THEN 0 ELSE entries[id]]
    BY <1>5, <1>6 DEF Entered, Without
  <1>8. \A i \in 1..n : place(granted[i].id) = i
    BY <1>2
  <1> HIDE DEF granted, old, len, place
  <1>9. /\ leases' \in Seq(Leases) /\ Len(leases') = len + n
        /\ \A g \in 1..len : leases'[g] = old[g]
        /\ \A i \in 1..n : leases'[len + i] = granted[i]
    <2>1. /\ old \o granted \in Seq(Leases) /\ Len(old \o granted) = len + n
          /\ \A i \in 1..(len + n) :
               (old \o granted)[i] = IF i <= len THEN old[i] ELSE granted[i - len]
      <3>1. /\ old \o granted \in Seq(Leases)
            /\ Len(old \o granted) = Len(old) + Len(granted)
            /\ \A i \in 1..(Len(old) + Len(granted)) :
                 (old \o granted)[i] = IF i <= Len(old) THEN old[i] ELSE granted[i - Len(old)]
        <4>1. old \in Seq(Leases) /\ granted \in Seq(Leases)
          BY <1>3, <1>6
        <4>2. \A s, t \in Seq(Leases) :
               /\ s \o t \in Seq(Leases)
               /\ Len(s \o t) = Len(s) + Len(t)
               /\ \A i \in 1..(Len(s) + Len(t)) :
                    (s \o t)[i] = IF i <= Len(s) THEN s[i] ELSE t[i - Len(s)]
          BY ConcatProperties, Zenon
        <4> QED BY <4>1, <4>2, Zenon
      <3> QED BY <1>3, <1>6, <3>1
    <2> DEFINE c == old \o granted
    <2>2. /\ c \in Seq(Leases) /\ Len(c) = len + n
          /\ \A i \in 1..(len + n) : c[i] = IF i <= len THEN old[i] ELSE granted[i - len]
      BY <2>1, Zenon
    <2>3. leases' = c
      BY <1>5
    <2> HIDE DEF c
    <2>4. \A g \in 1..len : c[g] = old[g]
      <3>1. \A g \in 1..len : g \in 1..(len + n) /\ g <= len
        BY <1>4
      <3> QED BY <2>2, <3>1
    <2>5. ASSUME NEW i \in 1..n PROVE c[len + i] = granted[i]
      <3>1. PICK j \in 1..(len + n) : j = len + i
        BY <1>4
      <3>2. ~(j <= len) /\ j - len = i
        BY <1>4, <3>1
      <3>3. c[j] = granted[i]
        BY <2>2, <3>2
      <3> QED BY <3>1, <3>3, Zenon
    <2> QED BY <2>2, <2>3, <2>4, <2>5, Zenon
  <1>10. \A i \in 1..n : granted[i].id \in Ids /\ entries'[granted[i].id] = len + i
    BY <1>1, <1>2, <1>7, <1>8
  <1>11. \A id \in Ids : (~\E i \in 1..n : granted[i].id = id) =>
           entries'[id] = IF id \in out THEN 0 ELSE entries[id]
    BY <1>7
  <1>12. ConnectorTypeOK'
    <2>1. ASSUME NEW id \in Ids PROVE entries'[id] \in 0..(len + n)
      <3>1. CASE \E i \in 1..n : granted[i].id = id
        BY <1>4, <1>10, <3>1
      <3>2. CASE ~\E i \in 1..n : granted[i].id = id
        BY <1>4, <1>11, <3>2
      <3> QED BY <3>1, <3>2
    <2> QED BY <1>7, <1>9, <2>1 DEF ConnectorTypeOK
  <1>13. EntriesFit'
    <2> SUFFICES ASSUME NEW id \in Ids, entries'[id] # 0 PROVE leases'[entries'[id]].id = id
      BY DEF EntriesFit
    <2>1. CASE \E i \in 1..n : granted[i].id = id
      BY <1>9, <1>10, <2>1
    <2>2. CASE ~\E i \in 1..n : granted[i].id = id
      <3>1. entries'[id] = entries[id] /\ entries[id] \in 1..len
        BY <1>4, <1>11, <2>2
      <3> QED BY <1>3, <1>4, <1>9, <3>1
    <2> QED BY <2>1, <2>2
  <1>14. ActiveIsAttached'
    <2>1. DOMAIN leases' = 1..(len + n)
      BY <1>4, <1>9
    <2> SUFFICES ASSUME NEW g \in 1..(len + n)
                 PROVE  leases'[g].active <=> entries'[leases'[g].id] = g
      BY <2>1 DEF ActiveIsAttached
    <2>2. CASE g \in 1..len
      <3>1. leases'[g].id = leases[g].id /\ leases[g].id \in Ids
        BY <1>3, <1>4, <1>9, <2>2
      <3>2. CASE \E i \in 1..n : granted[i].id = leases[g].id
        <4>1. PICK i \in 1..n : granted[i].id = leases[g].id
          BY <3>2
        <4>2. entries'[leases[g].id] = len + i /\ len + i # g
          BY <1>4, <1>10, <2>2, <4>1
        <4>3. leases[g].id \in ids
          BY <1>2, <4>1
        <4>4. ~leases'[g].active
          <5>1. CASE leases[g].id \in out
            BY <1>3, <1>4, <1>9, <2>2, <5>1
          <5>2. CASE leases[g].id \notin Attached
            BY <1>3, <1>4, <1>9, <2>2, <3>1, <5>2 DEF Attached
          <5> QED BY <4>3, <5>1, <5>2
        <4> QED BY <3>1, <4>2, <4>4
      <3>3. CASE ~\E i \in 1..n : granted[i].id = leases[g].id
        <4>1. entries'[leases[g].id] = IF leases[g].id \in out THEN 0 ELSE entries[leases[g].id]
          BY <1>11, <3>1, <3>3
        <4> QED BY <1>3, <1>4, <1>9, <2>2, <3>1, <4>1
      <3> QED BY <3>2, <3>3
    <2>3. CASE g \notin 1..len
      <3>1. PICK i \in 1..n : g = len + i
        <4>1. g - len \in 1..n /\ g = len + (g - len)
          BY <1>4, <2>3
        <4> QED BY <4>1
      <3> QED BY <1>2, <1>9, <1>10, <3>1
    <2> QED BY <2>2, <2>3
  <1> QED BY <1>4, <1>9, <1>12, <1>13, <1>14 DEF RegistryInv, len

LEMMA RegistryStep ==
  RegistryInv /\ [ConnectorNext]_connectorVars => RegistryInv' /\ Len(leases) <= Len(leases')
  <1> SUFFICES ASSUME RegistryInv, [ConnectorNext]_connectorVars
               PROVE  RegistryInv' /\ Len(leases) <= Len(leases')
    OBVIOUS
  <1>1. CASE AttachAll
    <2>1. PICK ids \in SUBSET (Ids \ Attached) : \E owner \in [ids -> Owners] :
            /\ leases' = leases \o Granted(ids, owner)
            /\ entries' = Entered(entries, Granted(ids, owner))
      BY <1>1 DEF AttachAll
    <2>2. PICK owner \in [ids -> Owners] :
            /\ leases' = leases \o Granted(ids, owner)
            /\ entries' = Entered(entries, Granted(ids, owner))
      BY <2>1
    <2>3. Detached({}) = leases /\ Without({}) = entries
      BY DEF Detached, Without, RegistryInv, ConnectorTypeOK
    <2>4. Exchanged({}, ids, owner)
      BY <2>2, <2>3 DEF Exchanged
    <2>5. \A id \in ids : owner[id] \in Owners
      OBVIOUS
    <2> QED BY <2>4, <2>5, ExchangeKeepsRegistry
  <1>2. CASE ReplacePluginOwner
    <2>0. PICK previous \in Plugins, candidate \in Plugins :
            \E ids \in SUBSET ((Ids \ Attached) \cup OwnedBy(previous)) :
              Exchanged(OwnedBy(previous), ids, [id \in ids |-> candidate])
      BY <1>2 DEF ReplacePluginOwner, Replaced, Exchanged
    <2>1. PICK ids \in SUBSET ((Ids \ Attached) \cup OwnedBy(previous)) :
            Exchanged(OwnedBy(previous), ids, [id \in ids |-> candidate])
      BY <2>0
    <2>2. OwnedBy(previous) \in SUBSET Ids
      BY DEF OwnedBy, Attached
    <2>3. \A id \in ids : [id2 \in ids |-> candidate][id] \in Owners
      BY DEF Owners
    <2> QED BY <2>1, <2>2, <2>3, ExchangeKeepsRegistry
  <1>3. ASSUME NEW out \in SUBSET Ids, Detach(out)
        PROVE  RegistryInv' /\ Len(leases) <= Len(leases')
    <2>1. leases' = Detached(out) /\ entries' = Without(out)
      BY <1>3 DEF Detach
    <2>2. /\ leases' \in Seq(Leases) /\ Len(leases') = Len(leases)
          /\ \A g \in 1..Len(leases) :
               /\ leases'[g].id = leases[g].id
               /\ leases'[g].active <=>
                    leases[g].active /\ ~(leases[g].id \in out /\ entries[leases[g].id] = g)
      BY <2>1, DetachedLeases
    <2>3. /\ Len(leases) \in Nat /\ DOMAIN leases = 1..Len(leases)
          /\ \A g \in 1..Len(leases) : leases[g].id \in Ids
      BY LeaseTable DEF RegistryInv
    <2>4. DOMAIN leases' = 1..Len(leases)
      BY <2>2
    <2>5. ConnectorTypeOK'
      BY <2>1, <2>2, <2>3 DEF RegistryInv, ConnectorTypeOK, Without
    <2>6. EntriesFit'
      <3> SUFFICES ASSUME NEW id \in Ids, entries'[id] # 0 PROVE leases'[entries'[id]].id = id
        BY DEF EntriesFit
      <3>1. entries'[id] = entries[id] /\ entries[id] \in 1..Len(leases)
        BY <2>1, <2>3 DEF RegistryInv, ConnectorTypeOK, Without
      <3> QED BY <2>2, <3>1 DEF RegistryInv, EntriesFit
    <2>7. ActiveIsAttached'
      <3> SUFFICES ASSUME NEW g \in 1..Len(leases)
                   PROVE  leases'[g].active <=> entries'[leases'[g].id] = g
        BY <2>4 DEF ActiveIsAttached
      <3>1. leases[g].active <=> entries[leases[g].id] = g
        BY <2>3 DEF RegistryInv, ActiveIsAttached
      <3>2. entries'[leases[g].id] = IF leases[g].id \in out THEN 0 ELSE entries[leases[g].id]
        BY <2>1, <2>3 DEF Without
      <3> QED BY <2>2, <2>3, <3>1, <3>2
    <2> QED BY <2>2, <2>3, <2>5, <2>6, <2>7 DEF RegistryInv
  <1>4. CASE DetachPluginOwner
    BY <1>3, <1>4 DEF DetachPluginOwner, OwnedBy, Attached
  <1>5. CASE DetachSource
    BY <1>3, <1>5 DEF DetachSource, OwnedBy, Attached
  <1>6. CASE DetachLease
    <2>1. PICK g \in DOMAIN leases : Detach({leases[g].id})
      BY <1>6 DEF DetachLease
    <2>2. leases[g].id \in Ids
      BY LeaseTable DEF RegistryInv
    <2> QED BY <1>3, <2>1, <2>2
  <1>7. ASSUME UNCHANGED <<entries, leases>>
        PROVE  RegistryInv' /\ Len(leases) <= Len(leases')
    BY <1>7, LeaseTable DEF RegistryInv, ConnectorTypeOK, EntriesFit, ActiveIsAttached
  <1>8. CASE \E c \in Calls : \/ Invoke(c) \/ Emit(c) \/ ConnectorFails(c)
                              \/ ConnectorReturns(c) \/ FinishCall(c) \/ Confirm(c) \/ Cancel(c)
    BY <1>7, <1>8 DEF Invoke, Emit, ConnectorFails, ConnectorReturns, FinishCall, Confirm, Cancel
  <1>9. CASE UNCHANGED connectorVars
    BY <1>7, <1>9 DEF connectorVars
  <1> QED BY <1>1, <1>2, <1>4, <1>5, <1>6, <1>8, <1>9 DEF ConnectorNext, Registry

(* Replacing and detaching leave no connector that works and cannot be      *)
(* looked up, and none attached that refuses to work (ConnectorRegistry).   *)
THEOREM LeasesFollowTheRegistry == ConnectorSpec => []ActiveIsAttached
  <1>1. RegistryInv => ActiveIsAttached
    BY DEF RegistryInv
  <1> QED BY <1>1, RegistryInit, RegistryStep, PTL DEF ConnectorSpec

-----------------------------------------------------------------------------
(* Invocations *)

\* The fields of a call, whatever their values.
Fields(call) ==
  \E l, o, a, k, s, h, r :
    call = [lease |-> l, op |-> o, at |-> a, cancel |-> k, sink |-> s, heard |-> h, result |-> r]

LEMMA CallFields ==
  ASSUME NEW call, Fields(call), NEW v
  PROVE  /\ \A new \in {[call EXCEPT !.at = v], [call EXCEPT !.sink = v],
                         [call EXCEPT !.heard = v], [call EXCEPT !.result = v]} :
              Fields(new) /\ new.lease = call.lease
         /\ [call EXCEPT !.at = v].at = v
         /\ LET new == [call EXCEPT !.cancel = v]
            IN Fields(new) /\ new.lease = call.lease /\ new.at = call.at
  <1>1. PICK l, o, a, k, s, h, r :
          call = [lease |-> l, op |-> o, at |-> a, cancel |-> k, sink |-> s,
                  heard |-> h, result |-> r]
    BY DEF Fields
  <1> DEFINE rec(a2, k2, s2, h2, r2) ==
        [lease |-> l, op |-> o, at |-> a2, cancel |-> k2, sink |-> s2,
         heard |-> h2, result |-> r2]
  <1>2. ASSUME NEW a2, NEW k2, NEW s2, NEW h2, NEW r2
        PROVE  /\ Fields(rec(a2, k2, s2, h2, r2))
               /\ rec(a2, k2, s2, h2, r2).lease = l /\ rec(a2, k2, s2, h2, r2).at = a2
    BY DEF Fields
  <1>3. /\ [call EXCEPT !.at = v] = rec(v, k, s, h, r)
        /\ [call EXCEPT !.cancel = v] = rec(a, v, s, h, r)
        /\ [call EXCEPT !.sink = v] = rec(a, k, v, h, r)
        /\ [call EXCEPT !.heard = v] = rec(a, k, s, v, r)
        /\ [call EXCEPT !.result = v] = rec(a, k, s, h, v)
    BY <1>1
  <1>4. call = rec(a, k, s, h, r)
    BY <1>1
  <1> HIDE DEF rec
  <1> QED BY <1>2, <1>3, <1>4

\* A call is of a lease that was handed out once.
CallsInv ==
  /\ calls = [c \in Calls |-> calls[c]]
  /\ \A c \in Calls : calls[c] # None => Fields(calls[c]) /\ calls[c].lease \in DOMAIN leases

\* Leases are never forgotten.
LEMMA LeasesStay ==
  ASSUME RegistryInv, [ConnectorNext]_connectorVars
  PROVE  DOMAIN leases \subseteq DOMAIN leases'
  <1>1. DOMAIN leases = 1..Len(leases) /\ Len(leases) \in Nat
    BY LeaseTable DEF RegistryInv
  <1>2. RegistryInv' /\ Len(leases) <= Len(leases')
    BY RegistryStep
  <1>3. leases' \in Seq(Leases)
    BY <1>2 DEF RegistryInv, ConnectorTypeOK
  <1> QED BY <1>1, <1>2, <1>3

LEMMA OneCallChanges ==
  ASSUME CallsInv, NEW c \in Calls, NEW call, Fields(call), call.lease \in DOMAIN leases,
         calls' = [calls EXCEPT ![c] = call], UNCHANGED leases
  PROVE  CallsInv'
  <1>1. calls' = [q \in Calls |-> IF q = c THEN call ELSE calls[q]]
    BY DEF CallsInv
  <1> QED BY <1>1 DEF CallsInv

LEMMA CheckedFields ==
  ASSUME NEW call, Fields(call), NEW next, Fields(next), next.lease = call.lease
  PROVE  Fields(Checked(call, next)) /\ Checked(call, next).lease = call.lease
  BY CallFields DEF Checked

LEMMA CallsStep == RegistryInv /\ CallsInv /\ [ConnectorNext]_connectorVars => CallsInv'
  <1> SUFFICES ASSUME RegistryInv, CallsInv, [ConnectorNext]_connectorVars PROVE CallsInv'
    OBVIOUS
  <1>1. CASE UNCHANGED calls
    BY <1>1, LeasesStay DEF CallsInv
  <1>2. ASSUME NEW c \in Calls, Invoke(c) PROVE CallsInv'
    <2>1. PICK g \in DOMAIN leases, op \in Operations, at \in {"refused", "running"} :
            LET call == [lease |-> g, op |-> op, at |-> at, cancel |-> FALSE,
                         sink |-> NewSink, heard |-> <<>>, result |-> None]
            IN calls' = [calls EXCEPT ![c] = Checked(call, call)]
      BY <1>2 DEF Invoke
    <2> DEFINE call == [lease |-> g, op |-> op, at |-> at, cancel |-> FALSE,
                        sink |-> NewSink, heard |-> <<>>, result |-> None]
    <2>2. Fields(call) /\ call.lease = g
      BY DEF Fields
    <2>3. calls' = [calls EXCEPT ![c] = Checked(call, call)] /\ UNCHANGED leases
      BY <1>2, <2>1 DEF Invoke
    <2> HIDE DEF call
    <2>4. Fields(Checked(call, call)) /\ Checked(call, call).lease = g
      BY <2>2, CheckedFields
    <2> QED BY <2>3, <2>4, OneCallChanges
  <1>3. ASSUME NEW c \in Calls, Emit(c) PROVE CallsInv'
    <2>1. PICK event \in Events :
            calls' = [calls EXCEPT ![c].sink = After(@, event), ![c].heard = Forwarded(@, event)]
      BY <1>3 DEF Emit
    <2> DEFINE half == [calls[c] EXCEPT !.sink = After(calls[c].sink, event)]
               call == [half EXCEPT !.heard = Forwarded(half.heard, event)]
    <2>2. Fields(calls[c]) /\ calls[c].lease \in DOMAIN leases
      BY <1>3 DEF CallsInv, Emit
    <2>3. Fields(half) /\ half.lease = calls[c].lease
      BY <2>2, CallFields
    <2>4. Fields(call) /\ call.lease = calls[c].lease
      <3>1. \A v : LET new == [half EXCEPT !.heard = v]
                   IN Fields(new) /\ new.lease = half.lease
        BY <2>3, CallFields
      <3> QED BY <2>3, <3>1, Zenon
    <2>5. calls' = [calls EXCEPT ![c] = call]
      BY <2>1 DEF CallsInv
    <2> QED BY <1>3, <2>2, <2>4, <2>5, OneCallChanges DEF Emit
  <1>4. ASSUME NEW c \in Calls, ConnectorFails(c) PROVE CallsInv'
    <2>1. Fields(calls[c]) /\ calls[c].lease \in DOMAIN leases
      BY <1>4 DEF CallsInv, ConnectorFails
    <2> DEFINE at == IF calls[c].cancel THEN "canceled" ELSE "failed"
               call == [calls[c] EXCEPT !.at = at]
    <2>2. Fields(call) /\ call.lease = calls[c].lease
      <3> HIDE DEF at
      <3> QED BY <2>1, CallFields
    <2>3. calls' = [calls EXCEPT ![c] = call]
      BY <1>4 DEF ConnectorFails
    <2> QED BY <1>4, <2>1, <2>2, <2>3, OneCallChanges DEF ConnectorFails
  <1>5. ASSUME NEW c \in Calls, ConnectorReturns(c) PROVE CallsInv'
    <2>1. Fields(calls[c]) /\ calls[c].lease \in DOMAIN leases
      BY <1>5 DEF CallsInv, ConnectorReturns
    <2>2. PICK result \in Results :
            LET next == IF Acceptable(calls[c], result)
                        THEN [calls[c] EXCEPT !.at = "accepted", !.result = result]
                        ELSE [calls[c] EXCEPT !.at = "failed"]
            IN calls' = [calls EXCEPT ![c] = Checked(@, next)]
      BY <1>5 DEF ConnectorReturns
    <2> DEFINE half == [calls[c] EXCEPT !.at = "accepted"]
               taken == [half EXCEPT !.result = result]
               failed == [calls[c] EXCEPT !.at = "failed"]
               next == IF Acceptable(calls[c], result) THEN taken ELSE failed
    <2>3. Fields(half) /\ half.lease = calls[c].lease
      BY <2>1, CallFields
    <2>4. Fields(taken) /\ taken.lease = calls[c].lease
      BY <2>3, CallFields
    <2>5. Fields(failed) /\ failed.lease = calls[c].lease
      BY <2>1, CallFields
    <2>6. calls' = [calls EXCEPT ![c] = Checked(calls[c], next)]
      BY <2>2, Zenon
    <2> HIDE DEF half, taken, failed
    <2>7. Fields(Checked(calls[c], next)) /\ Checked(calls[c], next).lease = calls[c].lease
      BY <2>1, <2>4, <2>5, CheckedFields
    <2> QED BY <1>5, <2>1, <2>6, <2>7, OneCallChanges DEF ConnectorReturns
  <1>6. ASSUME NEW c \in Calls, FinishCall(c) PROVE CallsInv'
    <2>1. Fields(calls[c]) /\ calls[c].lease \in DOMAIN leases
      BY <1>6 DEF CallsInv, FinishCall
    <2> DEFINE ok == [calls[c] EXCEPT !.at = "ok"]
               failed == [calls[c] EXCEPT !.at = "failed"]
               half == [calls[c] EXCEPT !.at = "finished"]
               done == [half EXCEPT !.heard = Append(half.heard, [kind |-> "completion"])]
    <2>2. /\ Fields(ok) /\ ok.lease = calls[c].lease
          /\ Fields(failed) /\ failed.lease = calls[c].lease
          /\ Fields(half) /\ half.lease = calls[c].lease
      BY <2>1, CallFields
    <2>3. Fields(done) /\ done.lease = calls[c].lease
      <3>1. \A v : LET new == [half EXCEPT !.heard = v]
                   IN Fields(new) /\ new.lease = half.lease
        BY <2>2, CallFields
      <3> QED BY <2>2, <3>1, Zenon
    <2>4. PICK next \in {ok, failed, done} :
            calls' = [calls EXCEPT ![c] = IF Streams(calls[c].op) THEN Checked(calls[c], next)
                                                                  ELSE next]
      BY <1>6, Zenon DEF FinishCall
    <2> HIDE DEF ok, failed, half, done
    <2>5. Fields(next) /\ next.lease = calls[c].lease
      BY <2>2, <2>3
    <2>6. Fields(Checked(calls[c], next)) /\ Checked(calls[c], next).lease = calls[c].lease
      BY <2>1, <2>5, CheckedFields
    <2>7. CASE Streams(calls[c].op)
      BY <1>6, <2>1, <2>4, <2>6, <2>7, OneCallChanges DEF FinishCall
    <2>8. CASE ~Streams(calls[c].op)
      BY <1>6, <2>1, <2>4, <2>5, <2>8, OneCallChanges DEF FinishCall
    <2> QED BY <2>7, <2>8
  <1>7. ASSUME NEW c \in Calls, Confirm(c) PROVE CallsInv'
    <2>1. Fields(calls[c]) /\ calls[c].lease \in DOMAIN leases
      BY <1>7 DEF CallsInv, Confirm
    <2> DEFINE ok == [calls[c] EXCEPT !.at = "ok"]
    <2>2. Fields(ok) /\ ok.lease = calls[c].lease
      BY <2>1, CallFields
    <2>3. calls' = [calls EXCEPT ![c] = Checked(calls[c], ok)]
      BY <1>7 DEF Confirm, Confirmed
    <2> HIDE DEF ok
    <2>4. Fields(Checked(calls[c], ok)) /\ Checked(calls[c], ok).lease = calls[c].lease
      BY <2>1, <2>2, CheckedFields
    <2> QED BY <1>7, <2>1, <2>3, <2>4, OneCallChanges DEF Confirm
  <1>8. ASSUME NEW c \in Calls, Cancel(c) PROVE CallsInv'
    <2>1. Fields(calls[c]) /\ calls[c].lease \in DOMAIN leases
      BY <1>8 DEF CallsInv, Cancel
    <2> DEFINE call == [calls[c] EXCEPT !.cancel = TRUE]
    <2>2. Fields(call) /\ call.lease = calls[c].lease
      <3>1. \A v : LET new == [calls[c] EXCEPT !.cancel = v]
                   IN Fields(new) /\ new.lease = calls[c].lease
        BY <2>1, CallFields
      <3> QED BY <3>1, Zenon
    <2>3. calls' = [calls EXCEPT ![c] = call]
      BY <1>8 DEF Cancel
    <2> QED BY <1>8, <2>1, <2>2, <2>3, OneCallChanges DEF Cancel
  <1>9. CASE Registry \/ UNCHANGED connectorVars
    BY <1>1, <1>9 DEF Registry, AttachAll, ReplacePluginOwner, DetachPluginOwner, DetachSource,
                      DetachLease, Detach, connectorVars
  <1> QED BY <1>2, <1>3, <1>4, <1>5, <1>6, <1>7, <1>8, <1>9 DEF ConnectorNext

\* What the consumer of an answer is promised, of one step.
LEMMA AnswerStep ==
  ASSUME RegistryInv, CallsInv, [ConnectorNext]_connectorVars, NEW c \in Calls,
         calls[c] # None, calls[c].at = "finished", calls'[c].at = "ok"
  PROVE  entries[leases[calls[c].lease].id] = calls[c].lease /\ ~calls[c].cancel
  <1>1. Fields(calls[c]) /\ calls[c].lease \in DOMAIN leases
    BY DEF CallsInv
  <1>2. CASE Confirm(c)
    <2>1. calls'[c] = Confirmed(calls[c])
      BY <1>2 DEF Confirm, CallsInv
    <2>2. [calls[c] EXCEPT !.at = "canceled"].at = "canceled"
      BY <1>1, CallFields
    <2>3. [calls[c] EXCEPT !.at = "unavailable"].at = "unavailable"
      BY <1>1, CallFields
    <2>4. ~calls[c].cancel /\ leases[calls[c].lease].active
      BY <2>1, <2>2, <2>3 DEF Confirmed, Checked
    <2> QED BY <1>1, <2>4 DEF RegistryInv, ActiveIsAttached
  <1>3. CASE Cancel(c)
    <2>1. calls'[c] = [calls[c] EXCEPT !.cancel = TRUE]
      BY <1>3 DEF Cancel, CallsInv
    <2>2. calls'[c].at = calls[c].at
      BY <1>1, <2>1, CallFields
    <2> QED BY <2>2
  <1>4. CASE Invoke(c) \/ Emit(c) \/ ConnectorFails(c) \/ ConnectorReturns(c) \/ FinishCall(c)
    BY <1>4 DEF Invoke, Emit, ConnectorFails, ConnectorReturns, FinishCall
  <1>5. CASE calls'[c] = calls[c]
    BY <1>5
  <1>6. ASSUME NEW d \in Calls, d # c,
               Invoke(d) \/ Emit(d) \/ ConnectorFails(d) \/ ConnectorReturns(d)
                 \/ FinishCall(d) \/ Confirm(d) \/ Cancel(d)
        PROVE  calls'[c] = calls[c]
    <2>1. \E call : calls' = [calls EXCEPT ![d] = call]
      BY <1>6, Zenon DEF Invoke, Emit, ConnectorFails, ConnectorReturns, FinishCall, Confirm, Cancel
    <2> QED BY <1>6, <2>1 DEF CallsInv
  <1>7. CASE Registry \/ UNCHANGED connectorVars
    BY <1>5, <1>7 DEF Registry, AttachAll, ReplacePluginOwner, DetachPluginOwner, DetachSource,
                      DetachLease, Detach, connectorVars
  <1> QED BY <1>2, <1>3, <1>4, <1>5, <1>6, <1>7 DEF ConnectorNext

(* An answer of a replaced or detached connector, or of a canceled call, is *)
(* not taken, however the registry changes while the call is under way      *)
(* (the check after the end was heard in ConnectorLease::invoke).           *)
THEOREM AnswersAreOfAttached == ConnectorSpec => AnswersComeFromAttached
  <1>1. ConnectorInit => CallsInv
    BY DEF ConnectorInit, CallsInv
  <1>2. RegistryInv /\ CallsInv /\ [ConnectorNext]_connectorVars =>
          [\A c \in Calls :
             calls[c] # None /\ calls[c].at = "finished" /\ calls'[c].at = "ok" =>
               entries[leases[calls[c].lease].id] = calls[c].lease /\ ~calls[c].cancel]_connectorVars
    BY AnswerStep
  <1> QED BY <1>1, <1>2, RegistryInit, RegistryStep, CallsStep, PTL
         DEF ConnectorSpec, AnswersComeFromAttached

-----------------------------------------------------------------------------
(* What a consumer hears *)

\* The parts of a call that the stream is about, after one of them changed.
LEMMA CallParts ==
  ASSUME NEW call, Fields(call), NEW v
  PROVE  /\ LET new == [call EXCEPT !.at = v]
            IN /\ new.at = v /\ new.sink = call.sink /\ new.heard = call.heard
               /\ new.result = call.result
         /\ LET new == [call EXCEPT !.cancel = v]
            IN /\ new.at = call.at /\ new.sink = call.sink /\ new.heard = call.heard
               /\ new.result = call.result
         /\ LET new == [call EXCEPT !.sink = v]
            IN /\ new.at = call.at /\ new.sink = v /\ new.heard = call.heard
               /\ new.result = call.result
         /\ LET new == [call EXCEPT !.heard = v]
            IN /\ new.at = call.at /\ new.sink = call.sink /\ new.heard = v
               /\ new.result = call.result
         /\ LET new == [call EXCEPT !.result = v]
            IN /\ new.at = call.at /\ new.sink = call.sink /\ new.heard = call.heard
               /\ new.result = v
  <1>1. PICK l, o, a, k, s, h, r :
          call = [lease |-> l, op |-> o, at |-> a, cancel |-> k, sink |-> s,
                  heard |-> h, result |-> r]
    BY DEF Fields
  <1> DEFINE rec(a2, k2, s2, h2, r2) ==
        [lease |-> l, op |-> o, at |-> a2, cancel |-> k2, sink |-> s2,
         heard |-> h2, result |-> r2]
  <1>2. ASSUME NEW a2, NEW k2, NEW s2, NEW h2, NEW r2
        PROVE  /\ rec(a2, k2, s2, h2, r2).at = a2 /\ rec(a2, k2, s2, h2, r2).sink = s2
               /\ rec(a2, k2, s2, h2, r2).heard = h2 /\ rec(a2, k2, s2, h2, r2).result = r2
    OBVIOUS
  <1>3. /\ [call EXCEPT !.at = v] = rec(v, k, s, h, r)
        /\ [call EXCEPT !.cancel = v] = rec(a, v, s, h, r)
        /\ [call EXCEPT !.sink = v] = rec(a, k, v, h, r)
        /\ [call EXCEPT !.heard = v] = rec(a, k, s, v, r)
        /\ [call EXCEPT !.result = v] = rec(a, k, s, h, v)
    BY <1>1
  <1>4. call = rec(a, k, s, h, r)
    BY <1>1
  <1> HIDE DEF rec
  <1> QED BY <1>2, <1>3, <1>4

LEMMA StreamOfText ==
  ASSUME NEW text \in Seq(Pieces)
  PROVE  /\ Stream(text, None) \in Seq(Events)
         /\ Len(Stream(text, None)) = Len(text)
         /\ \A i \in 1..Len(text) : Stream(text, None)[i] = [kind |-> "delta", piece |-> text[i]]
  <1> DEFINE deltas == [i \in DOMAIN text |-> [kind |-> "delta", piece |-> text[i]]]
  <1>1. deltas \in Seq(Events) /\ Len(deltas) = Len(text) /\ DOMAIN text = 1..Len(text)
    BY DEF Events
  <1>2. \A i \in 1..Len(text) : deltas[i] = [kind |-> "delta", piece |-> text[i]]
    BY <1>1
  <1>3. Stream(text, None) = deltas \o <<>>
    BY DEF Stream
  <1> HIDE DEF deltas
  <1>4. deltas \o <<>> = deltas
    BY <1>1
  <1> QED BY <1>1, <1>2, <1>3, <1>4

\* One more piece of text.
LEMMA StreamGrows ==
  ASSUME NEW text \in Seq(Pieces), NEW piece \in Pieces
  PROVE  Stream(Append(text, piece), None)
           = Append(Stream(text, None), [kind |-> "delta", piece |-> piece])
  <1> DEFINE event == [kind |-> "delta", piece |-> piece]
             longer == Append(text, piece)
  <1>1. event \in Events
    BY DEF Events
  <1>2. /\ longer \in Seq(Pieces) /\ Len(longer) = Len(text) + 1 /\ Len(text) \in Nat
        /\ \A i \in 1..Len(text) : longer[i] = text[i]
        /\ longer[Len(text) + 1] = piece
    OBVIOUS
  <1> HIDE DEF longer
  <1>3. /\ Stream(longer, None) \in Seq(Events) /\ Len(Stream(longer, None)) = Len(text) + 1
        /\ \A i \in 1..Len(longer) : Stream(longer, None)[i] = [kind |-> "delta", piece |-> longer[i]]
    BY <1>2, StreamOfText
  <1>4. /\ Stream(text, None) \in Seq(Events) /\ Len(Stream(text, None)) = Len(text)
        /\ \A i \in 1..Len(text) : Stream(text, None)[i] = [kind |-> "delta", piece |-> text[i]]
    BY StreamOfText
  <1>5. \A i \in 1..Len(text) + 1 : Stream(longer, None)[i] = Append(Stream(text, None), event)[i]
    <2>1. ASSUME NEW i \in 1..Len(text)
          PROVE  Stream(longer, None)[i] = Append(Stream(text, None), event)[i]
      <3>1. Append(Stream(text, None), event)[i] = Stream(text, None)[i]
        BY <1>1, <1>4
      <3>2. i \in 1..Len(longer) /\ longer[i] = text[i]
        BY <1>2
      <3> QED BY <1>3, <1>4, <3>1, <3>2
    <2>2. Append(Stream(text, None), event)[Len(text) + 1] = event
      BY <1>1, <1>4
    <2>3. Stream(longer, None)[Len(text) + 1] = event
      BY <1>2, <1>3
    <2>4. \A i \in 1..Len(text) + 1 : i \in 1..Len(text) \/ i = Len(text) + 1
      BY <1>2
    <2> QED BY <2>1, <2>2, <2>3, <2>4
  <1>6. Append(Stream(text, None), event) \in Seq(Events)
        /\ Len(Append(Stream(text, None), event)) = Len(text) + 1
    BY <1>1, <1>4
  <1> HIDE DEF event
  <1>7. Stream(longer, None) = Append(Stream(text, None), event)
    BY <1>3, <1>5, <1>6
  <1> QED BY <1>7 DEF longer, event

\* Token counts after the text.
LEMMA StreamCounts ==
  ASSUME NEW text \in Seq(Pieces), NEW usage \in Usages
  PROVE  /\ Stream(text, usage) = Append(Stream(text, None), [kind |-> "usage", usage |-> usage])
         /\ Stream(text, usage) \in Seq(Events)
  <1> DEFINE deltas == [i \in DOMAIN text |-> [kind |-> "delta", piece |-> text[i]]]
             event == [kind |-> "usage", usage |-> usage]
  <1>1. deltas \in Seq(Events) /\ event \in Events
    BY DEF Events
  <1>2. usage # None
    BY ConnectorAssumption
  <1>3. Stream(text, usage) = deltas \o <<event>> /\ Stream(text, None) = deltas \o <<>>
    BY <1>2 DEF Stream
  <1> HIDE DEF deltas, event
  <1>4. /\ deltas \o <<>> = deltas /\ deltas \o <<event>> = Append(deltas, event)
        /\ Append(deltas, event) \in Seq(Events)
    BY <1>1
  <1> QED BY <1>3, <1>4 DEF event

\* A stream is a sequence of events without an end.
LEMMA StreamIsOpen ==
  ASSUME NEW text \in Seq(Pieces), NEW usage \in Usages \cup {None}
  PROVE  /\ Stream(text, usage) \in Seq(Events)
         /\ \A i \in DOMAIN Stream(text, usage) : Stream(text, usage)[i] # Completion
  <1>1. /\ Stream(text, None) \in Seq(Events)
        /\ \A i \in DOMAIN Stream(text, None) : Stream(text, None)[i].kind = "delta"
    <2>1. /\ Stream(text, None) \in Seq(Events) /\ Len(Stream(text, None)) = Len(text)
          /\ \A i \in 1..Len(text) : Stream(text, None)[i] = [kind |-> "delta", piece |-> text[i]]
      BY StreamOfText
    <2>2. DOMAIN Stream(text, None) = 1..Len(text)
      BY <2>1
    <2> QED BY <2>1, <2>2
  <1>2. Completion.kind = "completion"
    BY DEF Completion
  <1>3. CASE usage = None
    BY <1>1, <1>2, <1>3
  <1>4. CASE usage \in Usages
    <2> DEFINE event == [kind |-> "usage", usage |-> usage]
    <2>1. event \in Events /\ event.kind = "usage"
      BY <1>4 DEF Events
    <2>2. Stream(text, usage) = Append(Stream(text, None), event) /\ Stream(text, usage) \in Seq(Events)
      BY <1>4, StreamCounts
    <2> HIDE DEF event
    <2>3. \A i \in DOMAIN Stream(text, usage) : Stream(text, usage)[i].kind \in {"delta", "usage"}
      BY <1>1, <2>1, <2>2
    <2> QED BY <1>2, <2>2, <2>3
  <1> QED BY <1>3, <1>4

\* A consumer heard what the sink took, and the end only of a result that agrees.
Heard(call) ==
  /\ call.sink.text \in Seq(Pieces) /\ call.sink.usage \in Usages \cup {None}
  /\ \/ call.heard = Stream(call.sink.text, call.sink.usage)
     \/ /\ call.at \notin {"running", "accepted"}
        /\ Agrees(call.sink, call.result)
        /\ call.heard = Append(Stream(call.sink.text, call.sink.usage), Completion)

HeardInv == \A c \in Calls : calls[c] # None => Heard(calls[c])

\* The flags end a call without a word.
LEMMA CheckedHeard ==
  ASSUME NEW call, Fields(call), Heard(call), NEW next, Heard(next)
  PROVE  Heard(Checked(call, next))
  <1>1. ASSUME NEW v \in {"canceled", "unavailable"}
        PROVE  Heard([call EXCEPT !.at = v])
    <2> DEFINE new == [call EXCEPT !.at = v]
    <2>1. /\ new.at = v /\ new.sink = call.sink /\ new.heard = call.heard
          /\ new.result = call.result
      BY CallParts
    <2> HIDE DEF new
    <2>2. Heard(new)
      BY <2>1 DEF Heard
    <2> QED BY <2>2 DEF new
  <1> QED BY <1>1 DEF Checked

LEMMA OneCallHeard ==
  ASSUME CallsInv, HeardInv, NEW c \in Calls, NEW call, Heard(call),
         calls' = [calls EXCEPT ![c] = call]
  PROVE  HeardInv'
  <1>1. calls' = [q \in Calls |-> IF q = c THEN call ELSE calls[q]]
    BY DEF CallsInv
  <1>2. \A q \in Calls : calls'[q] = calls[q] \/ calls'[q] = call
    BY <1>1
  <1>3. ASSUME NEW q \in Calls, calls'[q] # None
        PROVE  Heard(calls[q])' 
    BY <1>2, <1>3 DEF HeardInv, Heard
  <1> QED BY <1>3 DEF HeardInv

\* An event that is forwarded is heard where the sink took it.
LEMMA EventHeard ==
  ASSUME NEW sink, NEW heard, NEW event \in Events, Admits(sink, event),
         sink.text \in Seq(Pieces), sink.usage \in Usages \cup {None},
         heard = Stream(sink.text, sink.usage)
  PROVE  /\ After(sink, event).text \in Seq(Pieces)
         /\ After(sink, event).usage \in Usages \cup {None}
         /\ Forwarded(heard, event) = Stream(After(sink, event).text, After(sink, event).usage)
  <1>1. CASE event \in [kind : {"delta"}, piece : Pieces]
    <2>1. event.kind = "delta" /\ event.piece \in Pieces /\ event = [kind |-> "delta", piece |-> event.piece]
      BY <1>1
    <2>2. sink.usage = None
      BY <2>1 DEF Admits
    <2>3. After(sink, event).text = Append(sink.text, event.piece) /\ After(sink, event).usage = None
      BY <2>1, <2>2 DEF After
    <2>4. Forwarded(heard, event) = Append(heard, event)
      BY <2>1 DEF Forwarded
    <2> QED BY <2>1, <2>2, <2>3, <2>4, StreamGrows
  <1>2. CASE event \in [kind : {"usage"}, usage : Usages]
    <2>1. event.kind = "usage" /\ event.usage \in Usages /\ event = [kind |-> "usage", usage |-> event.usage]
      BY <1>2
    <2>2. sink.usage = None
      BY <2>1 DEF Admits
    <2>3. After(sink, event).text = sink.text /\ After(sink, event).usage = event.usage
      BY <2>1 DEF After
    <2>4. Forwarded(heard, event) = Append(heard, event)
      BY <2>1 DEF Forwarded
    <2> QED BY <2>1, <2>2, <2>3, <2>4, StreamCounts
  <1>3. CASE event = [kind |-> "completion"]
    <2>1. event.kind = "completion"
      BY <1>3
    <2>2. After(sink, event).text = sink.text /\ After(sink, event).usage = sink.usage
      BY <2>1 DEF After
    <2>3. Forwarded(heard, event) = heard
      BY <2>1 DEF Forwarded
    <2> QED BY <2>2, <2>3
  <1> QED BY <1>1, <1>2, <1>3 DEF Events

LEMMA HeardStep == RegistryInv /\ CallsInv /\ HeardInv /\ [ConnectorNext]_connectorVars => HeardInv'
  <1> SUFFICES ASSUME RegistryInv, CallsInv, HeardInv, [ConnectorNext]_connectorVars PROVE HeardInv'
    OBVIOUS
  <1>0. ASSUME NEW c \in Calls, calls[c] # None
        PROVE  Fields(calls[c]) /\ Heard(calls[c])
    BY <1>0 DEF CallsInv, HeardInv
  <1>1. CASE UNCHANGED calls
    BY <1>1 DEF HeardInv, Heard
  <1>2. ASSUME NEW c \in Calls, Invoke(c) PROVE HeardInv'
    <2>1. PICK g \in DOMAIN leases, op \in Operations, at \in {"refused", "running"} :
            LET call == [lease |-> g, op |-> op, at |-> at, cancel |-> FALSE,
                         sink |-> NewSink, heard |-> <<>>, result |-> None]
            IN calls' = [calls EXCEPT ![c] = Checked(call, call)]
      BY <1>2 DEF Invoke
    <2> DEFINE call == [lease |-> g, op |-> op, at |-> at, cancel |-> FALSE,
                        sink |-> NewSink, heard |-> <<>>, result |-> None]
    <2>2. /\ Fields(call) /\ call.sink.text = <<>> /\ call.sink.usage = None /\ call.heard = <<>>
      BY DEF Fields, NewSink
    <2> HIDE DEF call
    <2>3. <<>> \in Seq(Pieces) /\ Len(<<>>) = 0
      OBVIOUS
    <2>4. Stream(<<>>, None) = <<>>
      <3>1. Stream(<<>>, None) \in Seq(Events) /\ Len(Stream(<<>>, None)) = 0
        BY <2>3, StreamOfText
      <3> QED BY <3>1
    <2>5. Heard(call)
      BY <2>2, <2>3, <2>4 DEF Heard
    <2>6. Heard(Checked(call, call))
      BY <2>2, <2>5, CheckedHeard
    <2> QED BY <2>1, <2>6, OneCallHeard DEF call
  <1>3. ASSUME NEW c \in Calls, Emit(c) PROVE HeardInv'
    <2>1. PICK event \in Events :
            /\ Admits(calls[c].sink, event)
            /\ calls' = [calls EXCEPT ![c].sink = After(@, event), ![c].heard = Forwarded(@, event)]
      BY <1>3 DEF Emit
    <2> DEFINE half == [calls[c] EXCEPT !.sink = After(calls[c].sink, event)]
               call == [half EXCEPT !.heard = Forwarded(half.heard, event)]
    <2>2. Fields(calls[c]) /\ Heard(calls[c]) /\ calls[c].at = "running"
      BY <1>0, <1>3 DEF Emit
    <2>3. /\ Fields(half) /\ half.sink = After(calls[c].sink, event)
          /\ half.heard = calls[c].heard
      <3>1. Fields(half)
        BY <2>2, CallFields
      <3>2. half.sink = After(calls[c].sink, event) /\ half.heard = calls[c].heard
        BY <2>2, CallParts
      <3> QED BY <3>1, <3>2
    <2>4. calls' = [calls EXCEPT ![c] = call]
      BY <2>1 DEF CallsInv
    <2> HIDE DEF half
    <2>5. call.sink = half.sink /\ call.heard = Forwarded(half.heard, event)
      BY <2>3, CallParts
    <2> HIDE DEF call
    <2>6. Heard(call)
      BY <2>1, <2>2, <2>3, <2>5, EventHeard DEF Heard
    <2> QED BY <2>4, <2>6, OneCallHeard
  <1>4. ASSUME NEW c \in Calls, ConnectorFails(c) PROVE HeardInv'
    <2>1. Fields(calls[c]) /\ Heard(calls[c]) /\ calls[c].at = "running"
      BY <1>0, <1>4 DEF ConnectorFails
    <2> DEFINE at == IF calls[c].cancel THEN "canceled" ELSE "failed"
               call == [calls[c] EXCEPT !.at = at]
    <2>2. /\ call.sink = calls[c].sink /\ call.heard = calls[c].heard /\ call.result = calls[c].result
      <3> HIDE DEF at
      <3> QED BY <2>1, CallParts
    <2>3. calls' = [calls EXCEPT ![c] = call]
      BY <1>4 DEF ConnectorFails
    <2> HIDE DEF call
    <2>4. Heard(call)
      BY <2>1, <2>2 DEF Heard
    <2> QED BY <2>3, <2>4, OneCallHeard
  <1>5. ASSUME NEW c \in Calls, ConnectorReturns(c) PROVE HeardInv'
    <2>1. Fields(calls[c]) /\ Heard(calls[c]) /\ calls[c].at = "running"
      BY <1>0, <1>5 DEF ConnectorReturns
    <2>2. PICK result \in Results :
            LET next == IF Acceptable(calls[c], result)
                        THEN [calls[c] EXCEPT !.at = "accepted", !.result = result]
                        ELSE [calls[c] EXCEPT !.at = "failed"]
            IN calls' = [calls EXCEPT ![c] = Checked(@, next)]
      BY <1>5 DEF ConnectorReturns
    <2> DEFINE half == [calls[c] EXCEPT !.at = "accepted"]
               taken == [half EXCEPT !.result = result]
               failed == [calls[c] EXCEPT !.at = "failed"]
               next == IF Acceptable(calls[c], result) THEN taken ELSE failed
    <2>3. Fields(half) /\ half.sink = calls[c].sink /\ half.heard = calls[c].heard
      <3>1. Fields(half)
        BY <2>1, CallFields
      <3>2. half.sink = calls[c].sink /\ half.heard = calls[c].heard
        BY <2>1, CallParts
      <3> QED BY <3>1, <3>2
    <2>4. failed.sink = calls[c].sink /\ failed.heard = calls[c].heard
      BY <2>1, CallParts
    <2>5. calls' = [calls EXCEPT ![c] = Checked(calls[c], next)]
      BY <2>2, Zenon
    <2> HIDE DEF half
    <2>6. taken.sink = calls[c].sink /\ taken.heard = calls[c].heard
      BY <2>3, CallParts
    <2> HIDE DEF taken, failed
    <2>7. Heard(taken) /\ Heard(failed)
      BY <2>1, <2>4, <2>6 DEF Heard
    <2>8. Heard(next)
      BY <2>7
    <2> HIDE DEF next
    <2>9. Heard(Checked(calls[c], next))
      BY <2>1, <2>8, CheckedHeard
    <2> QED BY <2>5, <2>9, OneCallHeard
  <1>6. ASSUME NEW c \in Calls, FinishCall(c) PROVE HeardInv'
    <2>1. Fields(calls[c]) /\ Heard(calls[c]) /\ calls[c].at = "accepted"
      BY <1>0, <1>6 DEF FinishCall
    <2> DEFINE ok == [calls[c] EXCEPT !.at = "ok"]
               failed == [calls[c] EXCEPT !.at = "failed"]
               half == [calls[c] EXCEPT !.at = "finished"]
               done == [half EXCEPT !.heard = Append(half.heard, [kind |-> "completion"])]
    <2>2. /\ ok.sink = calls[c].sink /\ ok.heard = calls[c].heard
          /\ failed.sink = calls[c].sink /\ failed.heard = calls[c].heard
          /\ Fields(half) /\ half.sink = calls[c].sink /\ half.heard = calls[c].heard
          /\ half.at = "finished" /\ half.result = calls[c].result
      <3>1. Fields(half)
        BY <2>1, CallFields
      <3>2. ok.sink = calls[c].sink /\ ok.heard = calls[c].heard
        BY <2>1, CallParts
      <3>3. failed.sink = calls[c].sink /\ failed.heard = calls[c].heard
        BY <2>1, CallParts
      <3>4. /\ half.sink = calls[c].sink /\ half.heard = calls[c].heard
            /\ half.at = "finished" /\ half.result = calls[c].result
        BY <2>1, CallParts
      <3> QED BY <3>1, <3>2, <3>3, <3>4
    <2>3. PICK next :
            /\ next \in {ok, failed} \/ (next = done /\ Agrees(calls[c].sink, calls[c].result))
            /\ calls' = [calls EXCEPT ![c] = IF Streams(calls[c].op) THEN Checked(calls[c], next)
                                                                  ELSE next]
      BY <1>6, Zenon DEF FinishCall
    <2> HIDE DEF half
    <2>4. /\ done.at = "finished" /\ done.sink = calls[c].sink /\ done.result = calls[c].result
          /\ done.heard = Append(calls[c].heard, Completion)
      BY <2>2, CallParts DEF Completion
    <2> HIDE DEF ok, failed, done
    <2>5. Heard(ok) /\ Heard(failed)
      BY <2>1, <2>2 DEF Heard
    <2>6. Agrees(calls[c].sink, calls[c].result) => Heard(done)
      BY <2>1, <2>4 DEF Heard
    <2>7. Heard(next)
      BY <2>3, <2>5, <2>6
    <2>8. Heard(Checked(calls[c], next))
      BY <2>1, <2>7, CheckedHeard
    <2>9. CASE Streams(calls[c].op)
      BY <2>3, <2>8, <2>9, OneCallHeard
    <2>10. CASE ~Streams(calls[c].op)
      BY <2>3, <2>7, <2>10, OneCallHeard
    <2> QED BY <2>9, <2>10
  <1>7. ASSUME NEW c \in Calls, Confirm(c) PROVE HeardInv'
    <2>1. Fields(calls[c]) /\ Heard(calls[c])
      BY <1>0, <1>7 DEF Confirm
    <2> DEFINE ok == [calls[c] EXCEPT !.at = "ok"]
    <2>2. /\ ok.sink = calls[c].sink /\ ok.heard = calls[c].heard /\ ok.at = "ok"
          /\ ok.result = calls[c].result
      BY <2>1, CallParts
    <2>3. calls' = [calls EXCEPT ![c] = Checked(calls[c], ok)]
      BY <1>7 DEF Confirm, Confirmed
    <2> HIDE DEF ok
    <2>4. Heard(ok)
      BY <2>1, <2>2 DEF Heard
    <2>5. Heard(Checked(calls[c], ok))
      BY <2>1, <2>4, CheckedHeard
    <2> QED BY <2>3, <2>5, OneCallHeard
  <1>8. ASSUME NEW c \in Calls, Cancel(c) PROVE HeardInv'
    <2>1. Fields(calls[c]) /\ Heard(calls[c])
      BY <1>0, <1>8 DEF Cancel
    <2> DEFINE call == [calls[c] EXCEPT !.cancel = TRUE]
    <2>2. /\ call.at = calls[c].at /\ call.sink = calls[c].sink /\ call.heard = calls[c].heard
          /\ call.result = calls[c].result
      <3>1. \A v : LET new == [calls[c] EXCEPT !.cancel = v]
                   IN /\ new.at = calls[c].at /\ new.sink = calls[c].sink
                      /\ new.heard = calls[c].heard /\ new.result = calls[c].result
        BY <2>1, CallParts
      <3> QED BY <3>1, Zenon
    <2>3. calls' = [calls EXCEPT ![c] = call]
      BY <1>8 DEF Cancel
    <2> HIDE DEF call
    <2>4. Heard(call)
      BY <2>1, <2>2 DEF Heard
    <2> QED BY <2>3, <2>4, OneCallHeard
  <1>9. CASE Registry \/ UNCHANGED connectorVars
    BY <1>1, <1>9 DEF Registry, AttachAll, ReplacePluginOwner, DetachPluginOwner, DetachSource,
                      DetachLease, Detach, connectorVars
  <1> QED BY <1>2, <1>3, <1>4, <1>5, <1>6, <1>7, <1>8, <1>9 DEF ConnectorNext

LEMMA HeardIsHonest == HeardInv => StreamIsHonest
  <1> SUFFICES ASSUME HeardInv, NEW c \in Calls, calls[c] # None,
                      NEW i \in DOMAIN calls[c].heard, calls[c].heard[i] = Completion
               PROVE  \E text \in {<<>>, calls[c].result.text}, usage \in {None, calls[c].result.usage} :
                        calls[c].heard = Append(Stream(text, usage), Completion)
    BY DEF StreamIsHonest
  <1> DEFINE sink == calls[c].sink
  <1>1. Heard(calls[c])
    BY DEF HeardInv
  <1>2. calls[c].heard # Stream(sink.text, sink.usage)
    BY <1>1, StreamIsOpen DEF Heard
  <1>3. /\ Agrees(sink, calls[c].result)
        /\ calls[c].heard = Append(Stream(sink.text, sink.usage), Completion)
    BY <1>1, <1>2 DEF Heard
  <1>4. sink.text \in {<<>>, calls[c].result.text} /\ sink.usage \in {None, calls[c].result.usage}
    BY <1>3 DEF Agrees
  <1> QED BY <1>3, <1>4

(* Between a connector that may send and return anything and its consumer   *)
(* stands one well-formed stream (ConnectorInvocation).                     *)
THEOREM StreamsAreHonest == ConnectorSpec => []StreamIsHonest
  <1>1. ConnectorInit => CallsInv
    BY DEF ConnectorInit, CallsInv
  <1>2. ConnectorInit => HeardInv
    BY DEF ConnectorInit, HeardInv
  <1> QED BY <1>1, <1>2, RegistryInit, RegistryStep, CallsStep, HeardStep, HeardIsHonest, PTL DEF ConnectorSpec
=============================================================================
