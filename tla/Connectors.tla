------------------------------ MODULE Connectors ------------------------------
(***************************************************************************)
(* AI connectors: the registry that plugins attach connectors to and are   *)
(* replaced in, the leases it hands out, and the invocation of a lease,    *)
(* which stands between a connector that may do anything and a consumer    *)
(* that is promised one well-formed stream.  The registry changes under    *)
(* its lock; an invocation runs outside it and looks at the flag of its    *)
(* lease and at the cancel flag only, so both may change between any two   *)
(* of its steps.                                                           *)
(***************************************************************************)
EXTENDS Naturals, FiniteSets, SequencesExt

CONSTANTS
  Ids,          \* connector ids
  Builtin,      \* owner of the connectors of this build
  Plugins,      \* plugin owners: a plugin and its version
  Calls,
  Pieces,       \* pieces of text
  Usages,       \* token counts
  None,
  MaxEvents,    \* events one call may send
  MaxText,      \* pieces of text one response may have
  MaxLeases     \* bound: generations

ASSUME ConnectorAssumption ==
  /\ IsFiniteSet(Ids) /\ Ids # {}
  /\ MaxEvents \in Nat \ {0} /\ MaxText \in Nat /\ MaxLeases \in Nat
  /\ None \notin Usages

VARIABLES
  entries,  \* the lease each id resolves to, by its generation; 0 where none does
  leases,   \* every lease ever handed out, by generation: [id, owner, active]
  calls     \* invocations; None before

connectorVars == <<entries, leases, calls>>

Owners == Plugins \cup {Builtin}
Operations == {"validateConfig", "modelsList", "generate"}   \* "test" streams as "generate" does
Streams(op) == op = "generate"

Attached == {id \in Ids : entries[id] # 0}
OwnedBy(owner) == {id \in Attached : leases[entries[id]].owner = owner}
Ended == {"ok", "canceled", "unavailable", "refused", "failed"}

-----------------------------------------------------------------------------
(* The registry *)

\* The leases of a set of new registrations, after the ones there are.
Granted(ids, owner) ==
  LET order == SetToSeq(ids)
  IN [i \in DOMAIN order |-> [id |-> order[i], owner |-> owner[order[i]], active |-> TRUE]]

\* Variant: the lease is taken out of the registry only.
DetachedStill(ids) == leases

Detached(ids) ==
  [g \in DOMAIN leases |->
     IF leases[g].id \in ids /\ entries[leases[g].id] = g
     THEN [leases[g] EXCEPT !.active = FALSE] ELSE leases[g]]

Entered(old, granted) ==
  [id \in Ids |->
     IF \E i \in DOMAIN granted : granted[i].id = id
     THEN Len(leases) + (CHOOSE i \in DOMAIN granted : granted[i].id = id)
     ELSE old[id]]

Without(ids) == [id \in Ids |-> IF id \in ids THEN 0 ELSE entries[id]]

\* All of the registrations or none of them: ids that are taken are refused.
AttachAll ==
  \E ids \in SUBSET (Ids \ Attached) \ {{}} : \E owner \in [ids -> Owners] :
    /\ Len(leases) + Cardinality(ids) <= MaxLeases
    /\ leases' = leases \o Granted(ids, owner)
    /\ entries' = Entered(entries, Granted(ids, owner))
    /\ UNCHANGED calls

\* The ids that leave when a plugin is replaced: all of the old version's.
Replaced(previous, ids) == OwnedBy(previous)

\* Ids of another owner cannot be taken over.
ReplacePluginOwner ==
  \E previous, candidate \in Plugins :
    \E ids \in SUBSET ((Ids \ Attached) \cup OwnedBy(previous)) :
      LET granted == Granted(ids, [id \in ids |-> candidate])
          out == Replaced(previous, ids)
      IN /\ OwnedBy(previous) # {}
         /\ Len(leases) + Cardinality(ids) <= MaxLeases
         /\ leases' = Detached(out) \o granted
         /\ entries' = Entered(Without(out), granted)
         /\ UNCHANGED calls

Current(g) == entries[leases[g].id] = g /\ leases[g].active

Detach(ids) ==
  /\ leases' = Detached(ids)
  /\ entries' = Without(ids)
  /\ UNCHANGED calls

DetachPluginOwner == \E owner \in Plugins : Detach(OwnedBy(owner))

DetachSource == \E owner \in Plugins : \E id \in OwnedBy(owner) : Detach({id})

\* By a lease somebody holds, which may be an old one.
DetachLease == \E g \in DOMAIN leases : Current(g) /\ Detach({leases[g].id})

-----------------------------------------------------------------------------
(* What stands between a connector and its consumer *)

NewSink == [text |-> <<>>, usage |-> None, count |-> 0, completed |-> FALSE]

Events == [kind : {"delta"}, piece : Pieces] \cup [kind : {"usage"}, usage : Usages]
            \cup {[kind |-> "completion"]}

\* No event after the end, no text after the token counts, one token count.
Admits(sink, event) ==
  /\ ~sink.completed /\ sink.count < MaxEvents
  /\ event.kind = "delta" => sink.usage = None /\ Len(sink.text) < MaxText
  /\ event.kind = "usage" => sink.usage = None

After(sink, event) ==
  [text |-> IF event.kind = "delta" THEN Append(sink.text, event.piece) ELSE sink.text,
   usage |-> IF event.kind = "usage" THEN event.usage ELSE sink.usage,
   completed |-> event.kind = "completion" \/ sink.completed,
   count |-> sink.count + 1]

\* The end is held back until the result was compared with what was sent.
Forwarded(heard, event) == IF event.kind = "completion" THEN heard ELSE Append(heard, event)

Results ==
  [op : {"validateConfig", "modelsList"}, text : {<<>>}, usage : {None}]
    \cup [op : {"generate"}, text : UNION {[1..n -> Pieces] : n \in 0..MaxText + 1}, usage : Usages]

\* A result of the operation, not blank and within the limit; streams were ended and
\* the other operations sent no events.
Acceptable(call, result) ==
  /\ result.op = call.op
  /\ IF Streams(call.op)
     THEN call.sink.completed /\ Len(result.text) \in 1..MaxText
     ELSE call.sink.count = 0

\* Variant: the result is not compared with the stream.
AgreesAlways(sink, result) == TRUE

\* A connector may stream nothing and answer at once.
Agrees(sink, result) ==
  /\ sink.text # <<>> => sink.text = result.text
  /\ sink.usage # None => sink.usage = result.usage

-----------------------------------------------------------------------------
(* One invocation *)

\* What a look at the two flags makes of a call that would go on with `next`.
Checked(call, next) ==
  IF call.cancel THEN [call EXCEPT !.at = "canceled"]
  ELSE IF ~leases[call.lease].active THEN [call EXCEPT !.at = "unavailable"]
  ELSE next

\* A request may be malformed or late, or ask for what the connector does not offer.
Invoke(c) ==
  /\ calls[c] = None
  /\ \E g \in DOMAIN leases, op \in Operations, at \in {"refused", "running"} :
       LET call == [lease |-> g, op |-> op, at |-> at, cancel |-> FALSE,
                    sink |-> NewSink, heard |-> <<>>, result |-> None]
       IN calls' = [calls EXCEPT ![c] = Checked(call, call)]
  /\ UNCHANGED <<entries, leases>>

\* The connector learns that an event was refused and may send others.
Emit(c) ==
  /\ calls[c] # None /\ calls[c].at = "running"
  /\ \E event \in Events :
       /\ Admits(calls[c].sink, event)
       /\ calls' = [calls EXCEPT ![c].sink = After(@, event),
                                 ![c].heard = Forwarded(@, event)]
  /\ UNCHANGED <<entries, leases>>

ConnectorFails(c) ==
  /\ calls[c] # None /\ calls[c].at = "running"
  /\ calls' = [calls EXCEPT ![c].at = IF calls[c].cancel THEN "canceled" ELSE "failed"]
  /\ UNCHANGED <<entries, leases>>

ConnectorReturns(c) ==
  /\ calls[c] # None /\ calls[c].at = "running"
  /\ \E result \in Results :
       LET next == IF Acceptable(calls[c], result)
                   THEN [calls[c] EXCEPT !.at = "accepted", !.result = result]
                   ELSE [calls[c] EXCEPT !.at = "failed"]
       IN calls' = [calls EXCEPT ![c] = Checked(@, next)]
  /\ UNCHANGED <<entries, leases>>

\* The consumer hears the end after a second look at the flags.
FinishCall(c) ==
  /\ calls[c] # None /\ calls[c].at = "accepted"
  /\ LET call == calls[c]
         next == IF ~Streams(call.op) THEN [call EXCEPT !.at = "ok"]
                 ELSE IF Agrees(call.sink, call.result)
                 THEN [call EXCEPT !.at = "finished",
                                   !.heard = Append(@, [kind |-> "completion"])]
                 ELSE [call EXCEPT !.at = "failed"]
     IN calls' = [calls EXCEPT ![c] = IF Streams(call.op) THEN Checked(call, next) ELSE next]
  /\ UNCHANGED <<entries, leases>>

\* Variant: once the end was heard the call has succeeded.
ConfirmedAlways(call) == [call EXCEPT !.at = "ok"]

\* A third look, after the consumer was told.
Confirmed(call) == Checked(call, [call EXCEPT !.at = "ok"])

Confirm(c) ==
  /\ calls[c] # None /\ calls[c].at = "finished"
  /\ calls' = [calls EXCEPT ![c] = Confirmed(@)]
  /\ UNCHANGED <<entries, leases>>

Cancel(c) ==
  /\ calls[c] # None /\ calls[c].at \notin Ended
  /\ calls' = [calls EXCEPT ![c].cancel = TRUE]
  /\ UNCHANGED <<entries, leases>>

ConnectorInit ==
  /\ leases = Granted({CHOOSE id \in Ids : TRUE}, [id \in Ids |-> Builtin])
  /\ entries = [id \in Ids |-> IF id = leases[1].id THEN 1 ELSE 0]
  /\ calls = [c \in Calls |-> None]

Registry ==
  AttachAll \/ ReplacePluginOwner \/ DetachPluginOwner \/ DetachSource \/ DetachLease

ConnectorNext ==
  \/ Registry
  \/ \E c \in Calls :
       \/ Invoke(c) \/ Emit(c) \/ ConnectorFails(c) \/ ConnectorReturns(c)
       \/ FinishCall(c) \/ Confirm(c) \/ Cancel(c)

ConnectorSpec == ConnectorInit /\ [][ConnectorNext]_connectorVars

-----------------------------------------------------------------------------
(* Properties *)

Leases == [id : Ids, owner : Owners, active : BOOLEAN]

ConnectorTypeOK ==
  /\ leases \in Seq(Leases)
  /\ entries \in [Ids -> 0..Len(leases)]

(* A lease works exactly as long as its id resolves to it: replacing and    *)
(* detaching, by owner, by source or by a lease that may be an old one,     *)
(* leave no connector running that nobody can look up, and none attached    *)
(* that refuses to work.                                                    *)
ActiveIsAttached ==
  \A g \in DOMAIN leases : leases[g].active <=> entries[leases[g].id] = g

Completion == [kind |-> "completion"]

\* What is heard of a text and, if they were sent, of token counts, up to the end.
Stream(text, usage) ==
  [i \in DOMAIN text |-> [kind |-> "delta", piece |-> text[i]]]
    \o IF usage = None THEN <<>> ELSE <<[kind |-> "usage", usage |-> usage]>>

(* A consumer that heard the end heard one well-formed stream before it and *)
(* nothing after it: either the whole text of the result or none of it, and *)
(* then no token counts or those of the result, whatever the connector      *)
(* sends and returns.                                                       *)
StreamIsHonest ==
  \A c \in Calls : calls[c] # None =>
    LET call == calls[c]
    IN (\E i \in DOMAIN call.heard : call.heard[i] = Completion) =>
         \E text \in {<<>>, call.result.text}, usage \in {None, call.result.usage} :
           call.heard = Append(Stream(text, usage), Completion)

(* A streamed answer counts only if, after the consumer heard its end, the  *)
(* connector was still the one its id resolves to and nobody had canceled:  *)
(* an answer of a replaced plugin is not taken.                             *)
AnswersComeFromAttached ==
  [][\A c \in Calls :
       calls[c] # None /\ calls[c].at = "finished" /\ calls'[c].at = "ok" =>
         entries[leases[calls[c].lease].id] = calls[c].lease /\ ~calls[c].cancel]_connectorVars
=============================================================================
