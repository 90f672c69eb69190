--------------------------- MODULE Requests_proofs ---------------------------
(***************************************************************************)
(* Proofs about what becomes of a request.  In the desktop, for any calls  *)
(* and any restart budget: answers meet their calls, one engine is wanted, *)
(* and the status is what happens.  In the engine's assist runs, for any   *)
(* segments, profiles, runs and pieces: a canceled request shows no draft, *)
(* one is in flight for a row and profile, and the default profile is one. *)
(***************************************************************************)
EXTENDS EngineSupervisor, AssistRuns, FiniteSetTheorems, TLAPS

-----------------------------------------------------------------------------
(* The supervisor: the invariant.                                          *)

\* Children are spawned in order, as many as launches and restarts account for;
\* a scheduled restart is accounted for already.
Launched(n) ==
  /\ n \in 1..MaxSpawns
  /\ \A c \in Children : proc[c] = "none" <=> c > n
  /\ n + (IF timer THEN 1 ELSE 0) <= relaunches * (MaxRestarts + 1) + restarts + 1

\* The handshakes that wait are of spawned children, one for each.
HandshakesFit ==
  /\ \A p \in pending : p.request \in Children => proc[p.request] # "none"
  /\ \A p, q \in pending : p.request \in Children /\ p.request = q.request => p = q

\* A frame with the id of an entry is about the request of the entry.
Fits(frame) ==
  /\ frame.id < nextId
  /\ \A p \in pending : p.id = frame.id => p.request = frame.request

\* Ids are not used twice, on either pipe of any child.
IdsFit ==
  /\ \A p \in pending : p.id < nextId
  /\ \A c \in Children :
       /\ \A i \in 1..Len(stdin[c]) : Fits(stdin[c][i])
       /\ \A i \in 1..Len(stdout[c]) : Fits(stdout[c][i])

\* An engine that was not told to go is the current child, and a restart is
\* scheduled only when there is none.
Wanted ==
  /\ \A c \in Children : proc[c] = "running" /\ c \notin killed => c = child
  /\ timer => child = NoChild

IInv ==
  /\ TypeOK
  /\ \E n \in Int : Launched(n)
  /\ HandshakesFit
  /\ IdsFit
  /\ Wanted
  /\ AnswersMatchCalls
  /\ StatusIsHonest

-----------------------------------------------------------------------------
(* The supervisor: lemmas.                                                 *)

LEMMA Numbers ==
  /\ MaxRestarts \in Nat /\ MaxRelaunches \in Nat /\ MaxSpawns \in Nat /\ MaxSpawns >= 1
  /\ \A r \in 0..MaxRelaunches, k \in 0..MaxRestarts, n \in Int :
       n + 1 <= r * (MaxRestarts + 1) + k + 1 => n + 1 <= MaxSpawns
  /\ \A r \in 0..MaxRelaunches, k \in 0..MaxRestarts, n \in Int :
       r < MaxRelaunches /\ n <= r * (MaxRestarts + 1) + k + 1 =>
         /\ n + 1 <= (r + 1) * (MaxRestarts + 1) + 1
         /\ n + 1 <= MaxSpawns
  <1> DEFINE M == MaxRestarts + 1
  <1>1. MaxRestarts \in Nat /\ MaxRelaunches \in Nat /\ M \in Nat /\ M >= 1
    BY SupervisorAssumption
  <1>2. \A r, s \in Nat : r <= s => r * M <= s * M
    BY <1>1
  <1>3. \A r \in Nat : (r + 1) * M = r * M + M /\ r * M \in Nat
    BY <1>1
  <1>4. MaxSpawns = (MaxRelaunches + 1) * M
    BY <1>1 DEF MaxSpawns
  <1>5. MaxSpawns = MaxRelaunches * M + M
    BY <1>1, <1>3, <1>4
  <1>6. MaxSpawns \in Nat /\ MaxSpawns >= 1
    BY <1>1, <1>3, <1>5
  <1>7. ASSUME NEW r \in 0..MaxRelaunches, NEW k \in 0..MaxRestarts, NEW n \in Int,
               n + 1 <= r * M + k + 1
        PROVE  n + 1 <= MaxSpawns
    <2>1. r * M <= MaxRelaunches * M /\ r * M \in Nat /\ MaxRelaunches * M \in Nat
      BY <1>1, <1>2, <1>3
    <2>2. k + 1 <= M
      BY <1>1
    <2> HIDE DEF M
    <2> QED BY <1>1, <1>5, <1>7, <2>1, <2>2
  <1>8. ASSUME NEW r \in 0..MaxRelaunches, NEW k \in 0..MaxRestarts, NEW n \in Int,
               r < MaxRelaunches, n <= r * M + k + 1
        PROVE  n + 1 <= (r + 1) * M + 1 /\ n + 1 <= MaxSpawns
    <2>0. r \in Nat /\ r + 1 \in Nat /\ r + 1 <= MaxRelaunches
      BY <1>1, <1>8
    <2>1. (r + 1) * M <= MaxRelaunches * M /\ r * M \in Nat /\ MaxRelaunches * M \in Nat
      BY <1>1, <1>2, <1>3, <2>0
    <2>2. (r + 1) * M = r * M + M
      BY <1>3
    <2>3. k + 1 <= M
      BY <1>1
    <2> HIDE DEF M
    <2> QED BY <1>1, <1>5, <1>8, <2>1, <2>2, <2>3
  <1> QED BY <1>1, <1>6, <1>7, <1>8

LEMMA SpawnedCount ==
  ASSUME NEW n, Launched(n)
  PROVE  Spawned = n
  <1>1. n \in Nat /\ MaxSpawns \in Nat /\ n <= MaxSpawns
    BY Numbers DEF Launched
  <1>2. {c \in Children : proc[c] # "none"} = 1..n
    BY <1>1 DEF Launched, Children
  <1>3. Cardinality(1..n) = n
    <2>1. 1 \in Int /\ n \in Int /\ (1 > n => n = 0)
      BY <1>1
    <2> QED BY <1>1, <2>1, FS_Interval
  <1> QED BY <1>2, <1>3 DEF Spawned

\* A frame that fits keeps fitting as entries go and ids are used.
LEMMA FitsOn ==
  ASSUME NEW frame \in [id : Int, request : Requests], Fits(frame),
         nextId \in Nat, nextId' \in Nat, nextId <= nextId',
         \A p \in pending' : p \in pending \/ p.id = nextId
  PROVE  Fits(frame)'
  BY DEF Fits

\* The pipes fit after a step that adds only entries and frames with the next id.
LEMMA PipesFit ==
  ASSUME TypeOK, IdsFit, nextId' \in Nat, nextId <= nextId',
         \A p \in pending' : p \in pending \/ p.id = nextId,
         \A p \in pending' : p.id < nextId',
         \A c \in Children : \A i \in 1..Len(stdin'[c]) : \A frame :
           frame = stdin'[c][i] =>
             (\E j \in 1..Len(stdin[c]) : frame = stdin[c][j]) \/ Fits(frame)',
         \A c \in Children : \A i \in 1..Len(stdout'[c]) : \A frame :
           frame = stdout'[c][i] =>
             (\E j \in 1..Len(stdout[c]) : frame = stdout[c][j]) \/ Fits(frame)'
  PROVE  IdsFit'
  <1>1. ASSUME NEW frame, frame.id \in Nat, Fits(frame)
        PROVE  Fits(frame)'
    BY <1>1 DEF Fits, TypeOK
  <1>2. ASSUME NEW c \in Children, NEW i \in 1..Len(stdin'[c]), NEW frame, frame = stdin'[c][i]
        PROVE  Fits(frame)'
    <2>1. ASSUME NEW j \in 1..Len(stdin[c]), frame = stdin[c][j]
          PROVE  frame.id \in Nat /\ Fits(frame)
      <3>1. stdin[c] \in Seq(Frames)
        BY DEF TypeOK
      <3>2. frame \in Frames
        BY <2>1, <3>1
      <3> QED BY <2>1, <3>2 DEF Frames, IdsFit
    <2> QED BY <1>1, <1>2, <2>1
  <1>3. ASSUME NEW c \in Children, NEW i \in 1..Len(stdout'[c]), NEW frame, frame = stdout'[c][i]
        PROVE  Fits(frame)'
    <2>1. ASSUME NEW j \in 1..Len(stdout[c]), frame = stdout[c][j]
          PROVE  frame.id \in Nat /\ Fits(frame)
      <3>1. stdout[c] \in Seq(AnswerFrames)
        BY DEF TypeOK
      <3>2. frame \in AnswerFrames
        BY <2>1, <3>1
      <3> QED BY <2>1, <3>2 DEF AnswerFrames, IdsFit
    <2> QED BY <1>1, <1>3, <2>1
  <1> QED BY <1>2, <1>3 DEF IdsFit, Fits

\* No entry asks for the child that is not there, and calls are no handshakes.
LEMMA EntryRequests ==
  ASSUME TypeOK, NEW p \in pending
  PROVE  /\ p.request # NoChild /\ p.id \in Nat
         /\ p.request \in Calls <=> p.request \notin Children
  BY SupervisorAssumption DEF TypeOK, Entries, Children, NoChild

\* What a write adds to a pipe.
LEMMA SentGrows ==
  ASSUME TypeOK, NEW d \in Children, NEW new \in Frames, stdin' = Sent(d, new)
  PROVE  /\ stdin' \in [Children -> Seq(Frames)]
         /\ \A c \in Children : \A i \in 1..Len(stdin'[c]) :
              \/ \E j \in 1..Len(stdin[c]) : stdin'[c][i] = stdin[c][j]
              \/ stdin'[c][i] = new
  <1>1. stdin \in [Children -> Seq(Frames)]
    BY DEF TypeOK
  <1>2. CASE proc[d] # "running"
    BY <1>1, <1>2 DEF Sent
  <1>3. CASE proc[d] = "running"
    <2>1. stdin' = [stdin EXCEPT ![d] = Append(@, new)]
      BY <1>3 DEF Sent
    <2>2. stdin' \in [Children -> Seq(Frames)]
      BY <1>1, <2>1
    <2>3. ASSUME NEW c \in Children, NEW i \in 1..Len(stdin'[c])
          PROVE  \/ \E j \in 1..Len(stdin[c]) : stdin'[c][i] = stdin[c][j]
                 \/ stdin'[c][i] = new
      <3>1. CASE c = d
        <4>1. stdin[d] \in Seq(Frames) /\ stdin'[d] = Append(stdin[d], new)
          BY <1>1, <2>1
        <4> QED BY <2>3, <3>1, <4>1
      <3>2. CASE c # d
        BY <1>1, <2>1, <3>2
      <3> QED BY <3>1, <3>2
    <2> QED BY <2>2, <2>3
  <1> QED BY <1>2, <1>3

LEMMA SettleType ==
  ASSUME TypeOK, NEW P, NEW reason \in {"none", "waiting", "timeout", "engineDown", "answered"}
  PROVE  Settle(P, reason) \in [Calls -> {"none", "waiting", "timeout", "engineDown", "answered"}]
  BY DEF Settle, TypeOK

-----------------------------------------------------------------------------
(* The supervisor: the steps.                                              *)

LEMMA CallKeeps ==
  ASSUME IInv, NEW k \in Calls, Call(k)
  PROVE  IInv'
  <1>1. /\ UNCHANGED <<state, child, restarts, timer, stopped, doomed, relaunches, answers,
                       proc, killed, heard, stdout>>
        /\ TypeOK /\ k \notin Int
    BY SupervisorAssumption DEF Call, IInv, signals
  <1> DEFINE entry == [id |-> nextId, request |-> k, child |-> child]
             frame == [id |-> nextId, request |-> k]
  <1>2. CASE child = NoChild
    <2>1. UNCHANGED <<nextId, pending, stdin>> /\ result' = [result EXCEPT ![k] = "engineDown"]
      BY <1>2 DEF Call
    <2>2. TypeOK'
      BY <1>1, <2>1 DEF TypeOK
    <2> QED BY <1>1, <2>1, <2>2
            DEF IInv, Launched, HandshakesFit, IdsFit, Fits, Wanted, AnswersMatchCalls, StatusIsHonest
  <1>3. CASE child # NoChild
    <2>1. /\ result' = [result EXCEPT ![k] = "waiting"]
          /\ nextId' = nextId + 1
          /\ pending' = pending \cup {entry}
          /\ stdin' = Sent(child, frame)
      BY <1>3 DEF Call
    <2>2. entry \in Entries /\ frame \in Frames
      BY <1>1, <1>3 DEF TypeOK, Entries, Frames, Requests
    <2>3. /\ stdin' \in [Children -> Seq(Frames)]
          /\ \A c \in Children : \A i \in 1..Len(stdin'[c]) :
               \/ \E j \in 1..Len(stdin[c]) : stdin'[c][i] = stdin[c][j]
               \/ stdin'[c][i] = frame
      BY <1>1, <1>3, <2>1, <2>2, SentGrows DEF TypeOK
    <2>4. TypeOK'
      BY <1>1, <2>1, <2>2, <2>3 DEF TypeOK
    <2>5. nextId \in Nat /\ entry.id = nextId /\ entry.request = k /\ frame.id = nextId /\ frame.request = k
      BY <1>1 DEF TypeOK
    <2> HIDE DEF entry, frame
    <2>6. ASSUME NEW f, f = frame
          PROVE  Fits(f)'
      <3>1. \A p \in pending : p.id < nextId /\ p.id \in Nat
        BY <1>1, EntryRequests DEF IInv, IdsFit
      <3>2. \A p \in pending' : p \in pending \/ p = entry
        BY <2>1
      <3> QED BY <2>1, <2>5, <2>6, <3>1, <3>2 DEF Fits
    <2>7. IdsFit'
      <3>1. \A p \in pending' : p.id < nextId' /\ (p \in pending \/ p.id = nextId)
        BY <1>1, <2>1, <2>5, EntryRequests DEF IInv, IdsFit
      <3>2. ASSUME NEW d \in Children, NEW i \in 1..Len(stdin'[d]), NEW f, f = stdin'[d][i]
            PROVE  (\E j \in 1..Len(stdin[d]) : f = stdin[d][j]) \/ Fits(f)'
        BY <2>3, <2>6, <3>2
      <3>3. \A d \in Children : \A i \in 1..Len(stdout'[d]) : \A f :
              f = stdout'[d][i] => \E j \in 1..Len(stdout[d]) : f = stdout[d][j]
        BY <1>1
      <3>4. nextId' \in Nat /\ nextId <= nextId' /\ IdsFit
        BY <2>1, <2>5 DEF IInv
      <3> QED BY <1>1, <3>1, <3>2, <3>3, <3>4, PipesFit
    <2>8. HandshakesFit'
      BY <1>1, <2>1, <2>5 DEF IInv, HandshakesFit, Children
    <2>9. StatusIsHonest'
      BY <1>1, <2>1, <2>5 DEF IInv, StatusIsHonest, TypeOK, Children, NoChild
    <2> QED BY <1>1, <2>4, <2>7, <2>8, <2>9 DEF IInv, Launched, Wanted, AnswersMatchCalls
  <1> QED BY <1>2, <1>3

LEMMA GiveUpKeeps ==
  ASSUME IInv, NEW p \in pending, NEW reason \in {"timeout", "engineDown"}, GiveUp(p, reason)
  PROVE  IInv'
  <1>1. /\ UNCHANGED <<child, restarts, timer, stopped, doomed, relaunches, nextId, answers,
                       proc, killed, heard, stdin, stdout>>
        /\ pending' = pending \ {p} /\ result' = Settle({p}, reason)
        /\ state' = IF p.request \in Children /\ p.request = child THEN "down" ELSE state
        /\ TypeOK
    BY DEF GiveUp, IInv, HandshakeState, signals
  <1>2. TypeOK'
    BY <1>1, SettleType DEF TypeOK
  <1>3. IdsFit'
    BY <1>1 DEF IInv, IdsFit, Fits
  <1>4. HandshakesFit'
    BY <1>1 DEF IInv, HandshakesFit
  <1>5. StatusIsHonest'
    <2>1. CASE p.request \in Children /\ p.request = child
      BY <1>1, <2>1 DEF IInv, StatusIsHonest, HandshakesFit
    <2>2. CASE ~(p.request \in Children /\ p.request = child)
      <3>1. p.request # child
        BY <1>1, <2>2, EntryRequests DEF TypeOK
      <3> QED BY <1>1, <2>2, <3>1 DEF IInv, StatusIsHonest
    <2> QED BY <2>1, <2>2
  <1> QED BY <1>1, <1>2, <1>3, <1>4, <1>5 DEF IInv, Launched, Wanted, AnswersMatchCalls

LEMMA FrameKeeps ==
  ASSUME IInv, NEW c \in Children, Frame(c)
  PROVE  IInv'
  <1> DEFINE frame == Head(stdout[c])
             entry == Entry(frame)
  <1>1. /\ UNCHANGED <<child, restarts, timer, stopped, doomed, relaunches, nextId,
                       proc, killed, heard, stdin>>
        /\ stdout[c] # <<>> /\ stdout' = [stdout EXCEPT ![c] = Tail(@)]
        /\ pending' = pending \ entry
        /\ result' = Settle(entry, "answered")
        /\ answers' = answers \cup (CallsOf(entry) \X {frame.request})
        /\ state' = IF \E p \in entry : p.request = child
                    THEN IF frame.ok THEN "ready" ELSE "down"
                    ELSE state
        /\ TypeOK
    BY DEF Frame, IInv, signals
  <1>2. /\ stdout' \in [Children -> Seq(AnswerFrames)]
        /\ frame \in AnswerFrames /\ frame = stdout[c][1] /\ 1 \in 1..Len(stdout[c])
        /\ \A d \in Children : \A i \in 1..Len(stdout'[d]) :
             \E j \in 1..Len(stdout[d]) : stdout'[d][i] = stdout[d][j]
    <2>1. stdout \in [Children -> Seq(AnswerFrames)]
      BY <1>1 DEF TypeOK
    <2>2. stdout[c] \in Seq(AnswerFrames)
      BY <2>1
    <2>3. /\ Tail(stdout[c]) \in Seq(AnswerFrames)
          /\ Len(Tail(stdout[c])) = Len(stdout[c]) - 1 /\ Len(stdout[c]) \in Nat \ {0}
          /\ \A i \in 1..Len(Tail(stdout[c])) : Tail(stdout[c])[i] = stdout[c][i + 1]
      BY <1>1, <2>2
    <2>4. frame \in AnswerFrames /\ frame = stdout[c][1] /\ 1 \in 1..Len(stdout[c])
      BY <1>1, <2>2, <2>3
    <2>5. ASSUME NEW d \in Children, NEW i \in 1..Len(stdout'[d])
          PROVE  \E j \in 1..Len(stdout[d]) : stdout'[d][i] = stdout[d][j]
      <3>1. CASE d = c
        <4>1. stdout'[d] = Tail(stdout[c])
          BY <1>1, <2>1, <3>1
        <4>2. i + 1 \in 1..Len(stdout[c])
          BY <2>3, <4>1
        <4> QED BY <2>3, <3>1, <4>1, <4>2
      <3>2. CASE d # c
        BY <1>1, <2>1, <3>2
      <3> QED BY <3>1, <3>2
    <2> QED BY <1>1, <2>1, <2>3, <2>4, <2>5
  <1>3. \A p \in entry : p \in pending /\ p.request = frame.request
    BY <1>2 DEF Entry, IInv, IdsFit, Fits
  <1>4. CallsOf(entry) \subseteq Calls /\ \A x \in CallsOf(entry) : x = frame.request
    BY <1>3 DEF CallsOf
  <1>5. frame.request \in Requests
    BY <1>2 DEF AnswerFrames
  <1> HIDE DEF frame, entry
  <1>6. TypeOK'
    BY <1>1, <1>2, <1>4, <1>5, SettleType DEF TypeOK
  <1>7. IdsFit'
    <2>1. nextId' \in Nat /\ nextId <= nextId' /\ \A p \in pending' : p \in pending /\ p.id < nextId'
      BY <1>1 DEF IInv, IdsFit, TypeOK
    <2>2. \A d \in Children : \A i \in 1..Len(stdout'[d]) : \A f :
            f = stdout'[d][i] => \E j \in 1..Len(stdout[d]) : f = stdout[d][j]
      BY <1>1, <1>2
    <2>3. \A d \in Children : \A i \in 1..Len(stdin'[d]) : \A f :
            f = stdin'[d][i] => \E j \in 1..Len(stdin[d]) : f = stdin[d][j]
      BY <1>1, <1>2
    <2>4. IdsFit
      BY DEF IInv
    <2> QED BY <1>1, <2>1, <2>2, <2>3, <2>4, PipesFit
  <1>8. HandshakesFit'
    BY <1>1 DEF IInv, HandshakesFit
  <1>9. AnswersMatchCalls'
    BY <1>1, <1>4 DEF IInv, AnswersMatchCalls
  <1>10. StatusIsHonest'
    <2>1. CASE \E p \in entry : p.request = child
      <3>1. PICK p \in entry : p.request = child
        BY <2>1
      <3>2. p \in pending /\ child \in Children
        BY <1>1, <1>3, <3>1, EntryRequests DEF TypeOK
      <3>3. \A q \in pending' : q.request # child
        BY <1>1, <3>1, <3>2 DEF IInv, HandshakesFit
      <3>4. state' \in {"ready", "down"} /\ child # NoChild
        BY <1>1, <2>1, <3>2 DEF Children, NoChild
      <3>5. ~timer
        BY <3>4 DEF IInv, Wanted
      <3> QED BY <1>1, <3>3, <3>4, <3>5 DEF StatusIsHonest
    <2>2. CASE ~ \E p \in entry : p.request = child
      BY <1>1, <2>2 DEF IInv, StatusIsHonest
    <2> QED BY <2>1, <2>2
  <1> QED BY <1>1, <1>6, <1>7, <1>8, <1>9, <1>10 DEF IInv, Launched, Wanted

LEMMA HandleExitKeeps ==
  ASSUME IInv, NEW c \in Children, HandleExit(c)
  PROVE  IInv'
  <1> DEFINE again == ~stopped /\ Budget
             next == IF stopped THEN state ELSE IF again THEN "restarting" ELSE "down"
  <1>1. /\ UNCHANGED <<stopped, doomed, relaunches, nextId, answers, proc, killed, heard, stdin, stdout>>
        /\ proc[c] = "dead" /\ child = c /\ child' = NoChild /\ pending' = {}
        /\ result' = Settle(pending, "engineDown")
        /\ restarts' = (IF again THEN restarts + 1 ELSE restarts)
        /\ timer' = (timer \/ again)
        /\ state' = HandshakeState(pending, NoChild, next)
        /\ TypeOK
    BY DEF HandleExit, IInv, signals, Reject
  <1>2. ~timer
    BY <1>1 DEF IInv, Wanted, Children, NoChild
  <1>3. state' = next /\ timer' = again
    BY <1>1, <1>2, EntryRequests DEF HandshakeState
  <1>4. TypeOK'
    BY <1>1, <1>3, SettleType, SupervisorAssumption DEF TypeOK, Budget
  <1>5. IdsFit'
    BY <1>1 DEF IInv, IdsFit, Fits
  <1>6. HandshakesFit'
    BY <1>1 DEF HandshakesFit
  <1>7. \E n \in Int : Launched(n)'
    <2>1. PICK n \in Int : Launched(n)
      BY DEF IInv
    <2>2. relaunches * (MaxRestarts + 1) \in Int /\ restarts \in Int
      BY <1>1, SupervisorAssumption DEF TypeOK
    <2>3. n + (IF timer' THEN 1 ELSE 0) <= relaunches * (MaxRestarts + 1) + restarts' + 1
      <3>1. n <= relaunches * (MaxRestarts + 1) + restarts + 1
        BY <1>2, <2>1 DEF Launched
      <3> HIDE DEF again
      <3>2. CASE again
        BY <1>1, <1>3, <2>2, <3>1, <3>2
      <3>3. CASE ~again
        BY <1>1, <1>3, <2>2, <3>1, <3>3
      <3> QED BY <3>2, <3>3
    <2> QED BY <1>1, <2>1, <2>3 DEF Launched
  <1>8. Wanted'
    BY <1>1 DEF IInv, Wanted
  <1>9. StatusIsHonest'
    BY <1>1, <1>3 DEF StatusIsHonest
  <1> QED BY <1>1, <1>4, <1>5, <1>6, <1>7, <1>8, <1>9 DEF IInv, AnswersMatchCalls

\* start() after a restart was due or the child was let go: the new child is the
\* next one, and its handshake is the only entry with the next id.
LEMMA StartFits ==
  ASSUME TypeOK, NEW n \in Int, Launched(n), n + 1 <= MaxSpawns, HandshakesFit, IdsFit,
         NEW queue, queue \subseteq pending, Start(queue),
         stdout' \in [Children -> Seq(AnswerFrames)],
         \A c \in Children : \A i \in 1..Len(stdout'[c]) :
           \E j \in 1..Len(stdout[c]) : stdout'[c][i] = stdout[c][j]
  PROVE  /\ child' = n + 1 /\ child' \in Children
         /\ state' = "starting" /\ nextId' \in Nat
         /\ proc' = [proc EXCEPT ![n + 1] = "running"]
         /\ pending' \subseteq Entries
         /\ \E p \in pending' : p.request = child'
         /\ proc' \in [Children -> {"none", "running", "dead"}]
         /\ stdin' \in [Children -> Seq(Frames)]
         /\ HandshakesFit' /\ IdsFit'
  <1> DEFINE c == n + 1
             entry == [id |-> nextId, request |-> c, child |-> c]
             frame == [id |-> nextId, request |-> c]
  <1>1. Spawned + 1 = c
    BY SpawnedCount
  <1>2. c \in Children /\ nextId \in Nat /\ c \in Int
    BY Numbers DEF Launched, Children, TypeOK
  <1>3. /\ state' = "starting" /\ child' = c
        /\ proc' = [proc EXCEPT ![c] = "running"]
        /\ nextId' = nextId + 1
        /\ pending' = queue \cup {entry}
        /\ stdin' = [stdin EXCEPT ![c] = <<frame>>]
    BY <1>1 DEF Start
  <1>4. entry \in Entries /\ frame \in Frames
    BY <1>2 DEF Entries, Frames, Requests
  <1>5. /\ entry.id = nextId /\ entry.request = c
        /\ frame.id = nextId /\ frame.request = c
    OBVIOUS
  <1>6. stdin \in [Children -> Seq(Frames)] /\ proc \in [Children -> {"none", "running", "dead"}]
    BY DEF TypeOK
  <1>7. proc[c] = "none"
    BY <1>2 DEF Launched
  <1>8. <<frame>> \in Seq(Frames) /\ Len(<<frame>>) = 1 /\ <<frame>>[1] = frame
    BY <1>4
  <1> HIDE DEF c, entry, frame
  <1>9. \A p \in pending : p.id < nextId /\ p.id \in Nat
    BY EntryRequests DEF IdsFit
  <1>10. \A p \in pending' : p \in pending \/ p = entry
    BY <1>3
  <1>11. HandshakesFit'
    <2>1. \A p \in pending : p.request # c
      BY <1>2, <1>7 DEF HandshakesFit
    <2>2. \A p \in pending' : p.request \in Children => proc'[p.request] # "none"
      BY <1>2, <1>3, <1>5, <1>6, <1>10 DEF HandshakesFit
    <2>3. \A p, q \in pending' : p.request \in Children /\ p.request = q.request => p = q
      BY <1>5, <1>10, <2>1 DEF HandshakesFit
    <2> QED BY <2>2, <2>3 DEF HandshakesFit
  <1>12. ASSUME NEW f, f = frame
         PROVE  Fits(f)'
    BY <1>2, <1>3, <1>5, <1>9, <1>10, <1>12 DEF Fits
  <1>13. ASSUME NEW d \in Children, NEW i \in 1..Len(stdin'[d])
         PROVE  stdin'[d][i] = frame \/ \E j \in 1..Len(stdin[d]) : stdin'[d][i] = stdin[d][j]
    <2>1. CASE d = c
      <3>1. stdin'[d] = <<frame>>
        BY <1>3, <1>6, <2>1
      <3>2. i = 1
        BY <1>8, <1>13, <3>1
      <3> QED BY <1>8, <3>1, <3>2
    <2>2. CASE d # c
      BY <1>3, <1>6, <2>2
    <2> QED BY <2>1, <2>2
  <1>14. IdsFit'
    <2>1. nextId' \in Nat /\ nextId <= nextId'
      BY <1>2, <1>3
    <2>2. \A p \in pending' : p.id < nextId' /\ (p \in pending \/ p.id = nextId)
      BY <1>2, <1>3, <1>5, <1>9, <1>10
    <2>3. ASSUME NEW d \in Children, NEW i \in 1..Len(stdin'[d]), NEW f, f = stdin'[d][i]
          PROVE  (\E j \in 1..Len(stdin[d]) : f = stdin[d][j]) \/ Fits(f)'
      <3>1. CASE f = frame
        BY <1>12, <3>1
      <3>2. CASE f # frame
        BY <1>13, <2>3, <3>2
      <3> QED BY <3>1, <3>2
    <2>4. \A d \in Children : \A i \in 1..Len(stdout'[d]) : \A f :
            f = stdout'[d][i] => (\E j \in 1..Len(stdout[d]) : f = stdout[d][j]) \/ Fits(f)'
      OBVIOUS
    <2> QED BY <2>1, <2>2, <2>3, <2>4, PipesFit
  <1>15. pending' \subseteq Entries
    BY <1>3, <1>4 DEF TypeOK
  <1>16. \E p \in pending' : p.request = child'
    BY <1>3, <1>5
  <1>17. stdin' \in [Children -> Seq(Frames)] /\ proc' \in [Children -> {"none", "running", "dead"}]
    BY <1>3, <1>6, <1>8
  <1> QED BY <1>2, <1>3, <1>11, <1>14, <1>15, <1>16, <1>17 DEF c

LEMMA TimerFiresKeeps ==
  ASSUME IInv, TimerFires
  PROVE  IInv'
  <1>1. /\ timer /\ timer' = FALSE
        /\ UNCHANGED <<restarts, stopped, doomed, relaunches, result, answers, killed, heard, stdout>>
        /\ TypeOK /\ child = NoChild
    BY DEF TimerFires, IInv, signals, Wanted
  <1>2. PICK n \in Int : Launched(n)
    BY DEF IInv
  <1>3. CASE stopped
    <2>1. UNCHANGED <<state, child, proc, nextId, pending, stdin>>
      BY <1>3 DEF TimerFires, Startable
    <2>2. TypeOK'
      BY <1>1, <2>1 DEF TypeOK
    <2>3. Launched(n)'
      <3>1. /\ relaunches * (MaxRestarts + 1) \in Int /\ restarts \in Int
            /\ n + 1 <= relaunches * (MaxRestarts + 1) + restarts + 1
        BY <1>1, <1>2, SupervisorAssumption DEF TypeOK, Launched
      <3>2. n <= relaunches * (MaxRestarts + 1) + restarts + 1
        BY <3>1
      <3> QED BY <1>1, <1>2, <2>1, <3>2 DEF Launched
    <2>4. IdsFit' /\ HandshakesFit' /\ Wanted' /\ AnswersMatchCalls'
      BY <1>1, <2>1 DEF IInv, IdsFit, Fits, HandshakesFit, Wanted, AnswersMatchCalls
    <2>5. StatusIsHonest'
      BY <1>1, <1>3 DEF StatusIsHonest
    <2> QED BY <2>2, <2>3, <2>4, <2>5 DEF IInv
  <1>4. CASE ~stopped
    <2>1. Start(pending)
      BY <1>4 DEF TimerFires, Startable
    <2>2. /\ relaunches * (MaxRestarts + 1) \in Int /\ restarts \in Int
          /\ n + 1 <= relaunches * (MaxRestarts + 1) + restarts + 1
      BY <1>1, <1>2, SupervisorAssumption DEF TypeOK, Launched
    <2>3. n + 1 <= MaxSpawns
      BY <1>1, <2>2, Numbers DEF TypeOK
    <2>4. HandshakesFit /\ IdsFit /\ stdout \in [Children -> Seq(AnswerFrames)]
      BY <1>1 DEF IInv, TypeOK
    <2>5. /\ child' = n + 1 /\ child' \in Children
          /\ state' = "starting" /\ nextId' \in Nat
          /\ proc' = [proc EXCEPT ![n + 1] = "running"]
          /\ pending' \subseteq Entries
          /\ \E p \in pending' : p.request = child'
          /\ proc' \in [Children -> {"none", "running", "dead"}]
          /\ stdin' \in [Children -> Seq(Frames)]
          /\ HandshakesFit' /\ IdsFit'
      BY <1>1, <1>2, <2>1, <2>3, <2>4, StartFits
    <2>6. TypeOK'
      BY <1>1, <2>4, <2>5 DEF TypeOK
    <2>7. Launched(n + 1)'
      <3>1. n + 1 \in 1..MaxSpawns
        BY <1>2, <2>3, Numbers DEF Launched
      <3>2. \A c \in Children : proc'[c] = "none" <=> c > n + 1
        BY <1>1, <1>2, <2>5, Numbers DEF Launched, TypeOK, Children
      <3> QED BY <1>1, <2>2, <3>1, <3>2 DEF Launched
    <2>8. Wanted'
      BY <1>1, <2>5 DEF IInv, Wanted, TypeOK, Children, NoChild
    <2>9. StatusIsHonest'
      BY <1>1, <2>5 DEF StatusIsHonest, Children, NoChild
    <2> QED BY <1>1, <1>2, <2>5, <2>6, <2>7, <2>8, <2>9 DEF IInv, AnswersMatchCalls
  <1> QED BY <1>3, <1>4

LEMMA RelaunchKeeps ==
  ASSUME IInv, Relaunch
  PROVE  IInv'
  <1>1. /\ ~stopped /\ relaunches < MaxRelaunches /\ relaunches' = relaunches + 1
        /\ heard' = heard \ {child}
        /\ killed' = (IF child = NoChild THEN killed ELSE killed \cup {child})
        /\ timer' = FALSE /\ restarts' = 0
        /\ result' = Settle(pending, "engineDown")
        /\ stdout' = [c \in Children |-> IF c = child THEN <<>> ELSE stdout[c]]
        /\ UNCHANGED <<stopped, doomed, answers>>
        /\ Start({}) /\ TypeOK
    BY DEF Relaunch, IInv, Scheduled, Reject
  <1>2. PICK n \in Int : Launched(n)
    BY DEF IInv
  <1>3. /\ relaunches * (MaxRestarts + 1) \in Int /\ restarts \in Int
        /\ n <= relaunches * (MaxRestarts + 1) + restarts + 1
    <2> DEFINE due == IF timer THEN 1 ELSE 0
               room == relaunches * (MaxRestarts + 1)
    <2>1. room \in Int /\ restarts \in Int /\ due \in {0, 1}
      BY <1>1, SupervisorAssumption DEF TypeOK
    <2>2. n + due <= room + restarts + 1
      BY <1>2 DEF Launched
    <2> HIDE DEF due, room
    <2>3. n <= room + restarts + 1
      BY <2>1, <2>2
    <2> QED BY <2>1, <2>3 DEF room
  <1>4. /\ n + 1 <= MaxSpawns
        /\ n + 1 <= (relaunches + 1) * (MaxRestarts + 1) + 1
    BY <1>1, <1>3, Numbers DEF TypeOK
  <1>5. HandshakesFit /\ IdsFit
    BY DEF IInv
  <1>6. /\ stdout' \in [Children -> Seq(AnswerFrames)]
        /\ \A c \in Children : \A i \in 1..Len(stdout'[c]) :
             \E j \in 1..Len(stdout[c]) : stdout'[c][i] = stdout[c][j]
    <2>1. stdout \in [Children -> Seq(AnswerFrames)] /\ <<>> \in Seq(AnswerFrames)
      BY <1>1 DEF TypeOK
    <2> QED BY <1>1, <2>1
  <1>7. /\ child' = n + 1 /\ child' \in Children
        /\ state' = "starting" /\ nextId' \in Nat
        /\ proc' = [proc EXCEPT ![n + 1] = "running"]
        /\ pending' \subseteq Entries
        /\ \E p \in pending' : p.request = child'
        /\ proc' \in [Children -> {"none", "running", "dead"}]
        /\ stdin' \in [Children -> Seq(Frames)]
        /\ HandshakesFit' /\ IdsFit'
    BY <1>1, <1>2, <1>4, <1>5, <1>6, StartFits
  <1>8. TypeOK'
    <2>1. relaunches' \in 0..MaxRelaunches /\ restarts' \in 0..MaxRestarts
      BY <1>1, SupervisorAssumption DEF TypeOK
    <2>2. killed' \in SUBSET Children /\ heard' \in SUBSET Children
      BY <1>1 DEF TypeOK
    <2> QED BY <1>1, <1>6, <1>7, <2>1, <2>2, SettleType DEF TypeOK
  <1>9. Launched(n + 1)'
    <2>1. n + 1 \in 1..MaxSpawns
      BY <1>2, <1>4, Numbers DEF Launched
    <2>2. \A c \in Children : proc'[c] = "none" <=> c > n + 1
      BY <1>1, <1>2, <1>7, Numbers, SMTT(15) DEF Launched, TypeOK, Children
    <2>3. n + 1 + (IF timer' THEN 1 ELSE 0) <= relaunches' * (MaxRestarts + 1) + restarts' + 1
      <3>1. relaunches' * (MaxRestarts + 1) \in Int
        BY <1>1, SupervisorAssumption DEF TypeOK
      <3> QED BY <1>1, <1>4, <3>1
    <2> QED BY <2>1, <2>2, <2>3 DEF Launched
  <1>10. Wanted'
    BY <1>1, <1>7 DEF IInv, Wanted, TypeOK, Children, NoChild
  <1>11. StatusIsHonest'
    BY <1>1, <1>7 DEF StatusIsHonest, Children, NoChild
  <1> QED BY <1>1, <1>2, <1>7, <1>8, <1>9, <1>10, <1>11 DEF IInv, AnswersMatchCalls

LEMMA StopKeeps ==
  ASSUME IInv, Stop
  PROVE  IInv'
  <1>1. /\ stopped' = TRUE
        /\ UNCHANGED <<state, child, restarts, timer, relaunches, pending, result, answers,
                       proc, killed, heard, stdout>>
        /\ TypeOK
    BY DEF Stop, IInv, signals
  <1> DEFINE frame == [id |-> nextId, request |-> Shutdown]
  <1>2. CASE child = NoChild
    <2>1. UNCHANGED <<doomed, nextId, stdin>>
      BY <1>2 DEF Stop
    <2>2. TypeOK'
      BY <1>1, <2>1 DEF TypeOK
    <2> QED BY <1>1, <2>1, <2>2
            DEF IInv, Launched, HandshakesFit, IdsFit, Fits, Wanted, AnswersMatchCalls, StatusIsHonest
  <1>3. CASE child # NoChild
    <2>1. doomed' = child /\ nextId' = nextId + 1 /\ stdin' = Sent(child, frame)
      BY <1>3 DEF Stop
    <2>2. frame \in Frames /\ child \in Children
      BY <1>1, <1>3 DEF TypeOK, Frames, Requests
    <2>3. /\ stdin' \in [Children -> Seq(Frames)]
          /\ \A c \in Children : \A i \in 1..Len(stdin'[c]) :
               \/ \E j \in 1..Len(stdin[c]) : stdin'[c][i] = stdin[c][j]
               \/ stdin'[c][i] = frame
      BY <1>1, <2>1, <2>2, SentGrows
    <2>4. TypeOK'
      BY <1>1, <2>1, <2>3 DEF TypeOK
    <2>5. nextId \in Nat /\ frame.id = nextId
      BY <1>1 DEF TypeOK
    <2> HIDE DEF frame
    <2>6. \A p \in pending' : p \in pending /\ p.id < nextId' /\ p.id < nextId /\ p.id \in Nat
      BY <1>1, <2>1, <2>5, EntryRequests DEF IInv, IdsFit
    <2>7. ASSUME NEW f, f = frame
          PROVE  Fits(f)'
      BY <2>1, <2>5, <2>6, <2>7 DEF Fits
    <2>8. IdsFit'
      <3>1. nextId' \in Nat /\ nextId <= nextId'
        BY <2>1, <2>5
      <3>2. ASSUME NEW d \in Children, NEW i \in 1..Len(stdin'[d]), NEW f, f = stdin'[d][i]
            PROVE  (\E j \in 1..Len(stdin[d]) : f = stdin[d][j]) \/ Fits(f)'
        BY <2>3, <2>7, <3>2
      <3>3. \A d \in Children : \A i \in 1..Len(stdout'[d]) : \A f :
              f = stdout'[d][i] => \E j \in 1..Len(stdout[d]) : f = stdout[d][j]
        BY <1>1
      <3>4. IdsFit
        BY DEF IInv
      <3> QED BY <1>1, <2>6, <3>1, <3>2, <3>3, <3>4, PipesFit
    <2>9. StatusIsHonest'
      BY <1>1 DEF StatusIsHonest
    <2> QED BY <1>1, <2>4, <2>8, <2>9 DEF IInv, Launched, HandshakesFit, Wanted, AnswersMatchCalls
  <1> QED BY <1>2, <1>3

LEMMA KillDoomedKeeps ==
  ASSUME IInv, KillDoomed
  PROVE  IInv'
  <1>1. /\ UNCHANGED <<state, child, restarts, timer, stopped, relaunches, nextId, pending, result,
                       answers, proc, heard, stdin, stdout>>
        /\ doomed # NoChild /\ doomed' = NoChild /\ killed' = killed \cup {doomed}
        /\ TypeOK
    BY DEF KillDoomed, IInv
  <1>2. TypeOK'
    BY <1>1 DEF TypeOK
  <1> QED BY <1>1, <1>2
          DEF IInv, Launched, HandshakesFit, IdsFit, Fits, Wanted, AnswersMatchCalls, StatusIsHonest

LEMMA ExecuteKeeps ==
  ASSUME IInv, NEW c \in Children, Execute(c)
  PROVE  IInv'
  <1> DEFINE frame == Head(stdin[c])
  <1>1. /\ UNCHANGED <<state, child, restarts, timer, stopped, doomed, relaunches, nextId,
                       pending, result, answers, killed, heard>>
        /\ proc[c] = "running" /\ stdin[c] # <<>>
        /\ stdin' = [stdin EXCEPT ![c] = Tail(@)]
        /\ proc' = proc \/ proc' = [proc EXCEPT ![c] = "dead"]
        /\ TypeOK
    BY DEF Execute, IInv, main, signals
  <1>2. PICK ok \in BOOLEAN :
          stdout' = [stdout EXCEPT ![c] =
            IF c \in heard
            THEN Append(@, [id |-> frame.id, request |-> frame.request, ok |-> ok]) ELSE @]
    BY DEF Execute
  <1> DEFINE answer == [id |-> frame.id, request |-> frame.request, ok |-> ok]
  <1>3. stdin \in [Children -> Seq(Frames)] /\ stdout \in [Children -> Seq(AnswerFrames)]
    BY <1>1 DEF TypeOK
  <1>4. stdin[c] \in Seq(Frames) /\ stdout[c] \in Seq(AnswerFrames)
    BY <1>3
  <1>5. frame \in Frames /\ frame = stdin[c][1] /\ 1 \in 1..Len(stdin[c])
    BY <1>1, <1>4
  <1>6. answer \in AnswerFrames /\ answer.id = frame.id /\ answer.request = frame.request
    BY <1>2, <1>5 DEF Frames, AnswerFrames
  <1>7. Fits(frame)
    BY <1>5 DEF IInv, IdsFit
  <1>8. stdout' = [stdout EXCEPT ![c] = Append(@, answer)] \/ stdout' = stdout
    BY <1>2, <1>3
  <1> HIDE DEF frame, answer
  <1>9. /\ Tail(stdin[c]) \in Seq(Frames)
        /\ Len(Tail(stdin[c])) = Len(stdin[c]) - 1 /\ Len(stdin[c]) \in Nat \ {0}
        /\ \A i \in 1..Len(Tail(stdin[c])) : Tail(stdin[c])[i] = stdin[c][i + 1]
    BY <1>1, <1>4
  <1>10. ASSUME NEW d \in Children, NEW i \in 1..Len(stdin'[d])
         PROVE  \E j \in 1..Len(stdin[d]) : stdin'[d][i] = stdin[d][j]
    <2>1. CASE d = c
      <3>1. stdin'[d] = Tail(stdin[c])
        BY <1>1, <1>3, <2>1
      <3>2. i + 1 \in 1..Len(stdin[c])
        BY <1>9, <3>1
      <3> QED BY <1>9, <2>1, <3>1, <3>2
    <2>2. CASE d # c
      BY <1>1, <1>3, <2>2
    <2> QED BY <2>1, <2>2
  <1>11. ASSUME NEW d \in Children, NEW i \in 1..Len(stdout'[d])
         PROVE  stdout'[d][i] = answer \/ \E j \in 1..Len(stdout[d]) : stdout'[d][i] = stdout[d][j]
    <2>1. CASE stdout'[d] = stdout[d]
      BY <2>1
    <2>2. CASE stdout'[d] = Append(stdout[d], answer)
      <3>1. stdout[d] \in Seq(AnswerFrames)
        BY <1>3
      <3> QED BY <1>6, <2>2, <3>1
    <2> QED BY <1>3, <1>8, <2>1, <2>2
  <1>12. stdin' \in [Children -> Seq(Frames)] /\ stdout' \in [Children -> Seq(AnswerFrames)]
    <2>1. Append(stdout[c], answer) \in Seq(AnswerFrames)
      BY <1>4, <1>6
    <2> QED BY <1>1, <1>3, <1>8, <1>9, <2>1
  <1>13. TypeOK'
    BY <1>1, <1>12 DEF TypeOK
  <1>14. IdsFit'
    <2>1. nextId' \in Nat /\ nextId <= nextId' /\ \A p \in pending' : p \in pending /\ p.id < nextId'
      BY <1>1 DEF IInv, IdsFit, TypeOK
    <2>2. ASSUME NEW f, f = answer
          PROVE  Fits(f)'
      BY <1>1, <1>6, <1>7, <2>2 DEF Fits
    <2>3. \A d \in Children : \A i \in 1..Len(stdin'[d]) : \A f :
            f = stdin'[d][i] => \E j \in 1..Len(stdin[d]) : f = stdin[d][j]
      BY <1>10
    <2>4. \A d \in Children : \A i \in 1..Len(stdout'[d]) : \A f :
            f = stdout'[d][i] => (\E j \in 1..Len(stdout[d]) : f = stdout[d][j]) \/ Fits(f)'
      BY <1>11, <2>2
    <2>5. TypeOK /\ IdsFit
      BY <1>1 DEF IInv
    <2>6. /\ nextId' \in Nat /\ nextId <= nextId'
          /\ \A p \in pending' : p \in pending \/ p.id = nextId
          /\ \A p \in pending' : p.id < nextId'
      BY <2>1
    <2>7. \A d \in Children : \A i \in 1..Len(stdin'[d]) : \A f :
            f = stdin'[d][i] => (\E j \in 1..Len(stdin[d]) : f = stdin[d][j]) \/ Fits(f)'
      BY <2>3
    <2> QED BY <2>4, <2>5, <2>6, <2>7, PipesFit
  <1>15. \A d \in Children : (proc'[d] = "none" <=> proc[d] = "none")
                           /\ (proc'[d] = "running" => proc[d] = "running")
    BY <1>1 DEF TypeOK
  <1>16. HandshakesFit' /\ Wanted' /\ \E n \in Int : Launched(n)'
    BY <1>1, <1>15 DEF IInv, HandshakesFit, Wanted, Launched
  <1> QED BY <1>1, <1>13, <1>14, <1>16 DEF IInv, AnswersMatchCalls, StatusIsHonest

LEMMA DieKeeps ==
  ASSUME IInv, NEW c \in Children, Die(c)
  PROVE  IInv'
  <1>1. /\ UNCHANGED <<state, child, restarts, timer, stopped, doomed, relaunches, nextId,
                       pending, result, answers, killed, heard, stdout>>
        /\ proc[c] = "running" /\ proc' = [proc EXCEPT ![c] = "dead"]
        /\ stdin' = [stdin EXCEPT ![c] = <<>>]
        /\ TypeOK
    BY DEF Die, IInv, main, signals
  <1>2. /\ stdin' \in [Children -> Seq(Frames)]
        /\ \A d \in Children : \A i \in 1..Len(stdin'[d]) :
             \E j \in 1..Len(stdin[d]) : stdin'[d][i] = stdin[d][j]
    BY <1>1 DEF TypeOK
  <1>3. TypeOK'
    BY <1>1, <1>2 DEF TypeOK
  <1>4. IdsFit'
    <2>1. nextId' \in Nat /\ nextId <= nextId' /\ \A p \in pending' : p \in pending /\ p.id < nextId'
      BY <1>1 DEF IInv, IdsFit, TypeOK
    <2>2. \A d \in Children : \A i \in 1..Len(stdout'[d]) : \A f :
            f = stdout'[d][i] => \E j \in 1..Len(stdout[d]) : f = stdout[d][j]
      BY <1>1, <1>2
    <2>3. \A d \in Children : \A i \in 1..Len(stdin'[d]) : \A f :
            f = stdin'[d][i] => \E j \in 1..Len(stdin[d]) : f = stdin[d][j]
      BY <1>1, <1>2
    <2>4. IdsFit
      BY DEF IInv
    <2> QED BY <1>1, <2>1, <2>2, <2>3, <2>4, PipesFit
  <1>5. \A d \in Children : (proc'[d] = "none" <=> proc[d] = "none")
                          /\ (proc'[d] = "running" => proc[d] = "running")
    BY <1>1 DEF TypeOK
  <1>6. HandshakesFit' /\ Wanted' /\ \E n \in Int : Launched(n)'
    BY <1>1, <1>5 DEF IInv, HandshakesFit, Wanted, Launched
  <1> QED BY <1>1, <1>3, <1>4, <1>6 DEF IInv, AnswersMatchCalls, StatusIsHonest

LEMMA InitIInv == Init => IInv
  <1> SUFFICES ASSUME Init
               PROVE  IInv
    OBVIOUS
  <1>1. 1 \in Children /\ MaxSpawns \in Nat /\ MaxSpawns >= 1
    BY Numbers DEF Children
  <1>2. TypeOK
    <2>1. [id |-> 1, request |-> 1] \in Frames /\ [id |-> 1, request |-> 1, child |-> 1] \in Entries
      BY <1>1 DEF Frames, Entries, Requests
    <2>2. stdin \in [Children -> Seq(Frames)] /\ stdout \in [Children -> Seq(AnswerFrames)]
      BY <2>1 DEF Init
    <2>3. 0 \in 0..MaxRestarts /\ 0 \in 0..MaxRelaunches
      BY SupervisorAssumption
    <2> QED BY <1>1, <2>1, <2>2, <2>3 DEF Init, TypeOK
  <1>3. Launched(1)
    <2>1. \A c \in Children : proc[c] = "none" <=> c > 1
      BY <1>1 DEF Init, Children
    <2>2. 0 * (MaxRestarts + 1) = 0
      BY SupervisorAssumption
    <2> QED BY <1>1, <2>1, <2>2 DEF Init, Launched
  <1>4. HandshakesFit
    BY <1>1 DEF Init, HandshakesFit
  <1>5. IdsFit
    <2>1. ASSUME NEW c \in Children, NEW i \in 1..Len(stdin[c])
          PROVE  Fits(stdin[c][i])
      <3>1. stdin[c] = <<[id |-> 1, request |-> 1]>> \/ stdin[c] = <<>>
        BY DEF Init
      <3>2. stdin[c] = <<[id |-> 1, request |-> 1]>> /\ i = 1
        <4> DEFINE first == [id |-> 1, request |-> 1]
        <4>1. stdin[c] = <<first>> \/ stdin[c] = <<>>
          BY <3>1
        <4>2. first \in Frames
          BY <1>1 DEF Frames, Requests
        <4> HIDE DEF first
        <4>3. <<first>> \in Seq(Frames) /\ Len(<<first>>) = 1
          BY <4>2
        <4>4. CASE stdin[c] = <<>>
          <5>1. Len(stdin[c]) = 0
            BY <4>4
          <5> QED BY <2>1, <5>1
        <4>5. CASE stdin[c] = <<first>>
          BY <2>1, <4>3, <4>5 DEF first
        <4> QED BY <4>1, <4>4, <4>5
      <3>3. stdin[c][i] = [id |-> 1, request |-> 1]
        BY <3>2
      <3> QED BY <3>3 DEF Init, Fits
    <2>2. \A c \in Children : stdout[c] = <<>>
      BY DEF Init
    <2>3. \A p \in pending : p.id < nextId
      BY DEF Init
    <2> QED BY <2>1, <2>2, <2>3 DEF IdsFit
  <1>6. Wanted
    BY DEF Init, Wanted
  <1>7. AnswersMatchCalls
    BY DEF Init, AnswersMatchCalls
  <1>8. StatusIsHonest
    BY DEF Init, StatusIsHonest, NoChild
  <1> QED BY <1>2, <1>3, <1>4, <1>5, <1>6, <1>7, <1>8 DEF IInv

LEMMA NextIInv ==
  ASSUME IInv, [Next]_vars
  PROVE  IInv'
  <1>1. ASSUME NEW p \in pending, Timeout(p) \/ WriteFails(p)
        PROVE  IInv'
    BY <1>1, GiveUpKeeps DEF Timeout, WriteFails
  <1>2. CASE UNCHANGED vars
    BY <1>2 DEF vars, IInv, TypeOK, Launched, HandshakesFit, IdsFit, Fits, Wanted,
                AnswersMatchCalls, StatusIsHonest
  <1> QED BY <1>1, <1>2, CallKeeps, RelaunchKeeps, StopKeeps, FrameKeeps, HandleExitKeeps,
             ExecuteKeeps, DieKeeps, TimerFiresKeeps, KillDoomedKeeps
          DEF Next, Application

-----------------------------------------------------------------------------
(* The supervisor: the theorems.                                           *)

THEOREM SafetyCore == Spec => []IInv
  <1> QED BY InitIInv, NextIInv, PTL DEF Spec

\* Calls, timers, frames and exits keep the supervisor's fields within their
\* types; in particular no more children are spawned than the budget allows.
THEOREM TypeCorrect == Spec => []TypeOK
  <1>1. IInv => TypeOK
    BY DEF IInv
  <1> QED BY <1>1, SafetyCore, PTL

\* A call is answered with the answer to itself: an id is used once, for one
\* request, so a frame that is read late finds its own entry or none.
THEOREM AnswersMeetTheirCalls == Spec => []AnswersMatchCalls
  <1>1. IInv => AnswersMatchCalls
    BY DEF IInv
  <1> QED BY <1>1, SafetyCore, PTL

\* Every running engine but the current child was sent a signal.
THEOREM OneEngineIsWanted == Spec => []OneWantedEngine
  <1>1. ASSUME IInv
        PROVE  OneWantedEngine
    <2> DEFINE W == {c \in Children : proc[c] = "running" /\ c \notin killed}
    <2>1. W \subseteq {child}
      BY <1>1 DEF IInv, Wanted
    <2>2. IsFiniteSet({child}) /\ Cardinality({child}) = 1
      BY FS_Singleton
    <2> HIDE DEF W
    <2>3. Cardinality(W) <= Cardinality({child})
      BY <2>1, <2>2, FS_Subset
    <2>4. Cardinality(W) <= 1
      BY <2>2, <2>3
    <2> QED BY <2>4 DEF OneWantedEngine, W
  <1> QED BY <1>1, SafetyCore, PTL

\* The status the user sees is what happens, however handshakes, exits, restarts
\* and relaunches interleave.
THEOREM StatusStaysHonest == Spec => []StatusIsHonest
  <1>1. IInv => StatusIsHonest
    BY DEF IInv
  <1> QED BY <1>1, SafetyCore, PTL

-----------------------------------------------------------------------------
(* Assist runs: what a run is, and that a result is only ever put into a   *)
(* run that ends and that nobody canceled.                                 *)

\* The fields of a run, whatever their values.
Fields(run) ==
  \E s, p, st, c, x :
    run = [segment |-> s, profile |-> p, status |-> st, cancel |-> c, result |-> x]

LEMMA CancelFields ==
  ASSUME NEW old, Fields(old)
  PROVE  LET run == [old EXCEPT !.cancel = TRUE]
         IN /\ Fields(run) /\ run.cancel = TRUE
            /\ run.segment = old.segment /\ run.profile = old.profile
            /\ run.status = old.status /\ run.result = old.result
  <1>1. PICK s, p, st, c, x :
          old = [segment |-> s, profile |-> p, status |-> st, cancel |-> c, result |-> x]
    BY DEF Fields
  <1> DEFINE new == [segment |-> s, profile |-> p, status |-> st, cancel |-> TRUE, result |-> x]
             run == [old EXCEPT !.cancel = TRUE]
             same == [segment |-> s, profile |-> p, status |-> st, cancel |-> c, result |-> x]
  <1>2. run = new
    <2>1. run = [same EXCEPT !.cancel = TRUE]
      BY <1>1, Zenon
    <2>2. ASSUME NEW b
          PROVE  [same EXCEPT !.cancel = b]
                   = [segment |-> s, profile |-> p, status |-> st, cancel |-> b, result |-> x]
      OBVIOUS
    <2> QED BY <2>1, <2>2, Zenon
  <1>3. Fields(new)
    BY DEF Fields
  <1>4. /\ new.cancel = TRUE /\ new.segment = s /\ new.profile = p
        /\ new.status = st /\ new.result = x
    OBVIOUS
  <1>5. old.segment = s /\ old.profile = p /\ old.status = st /\ old.result = x
    BY <1>1
  <1> QED BY <1>2, <1>3, <1>4, <1>5

LEMMA OutcomeFields ==
  ASSUME NEW old, Fields(old), old.cancel \in BOOLEAN, NEW outcome
  PROVE  LET run == Outcome(old, outcome)
         IN /\ Fields(run) /\ run.cancel = old.cancel
            /\ run.segment = old.segment /\ run.profile = old.profile
            /\ run.status # "running"
            /\ old.cancel => run.status = "canceled" /\ run.result = old.result
  <1>1. PICK s, p, st, c, x :
          old = [segment |-> s, profile |-> p, status |-> st, cancel |-> c, result |-> x]
    BY DEF Fields
  <1>2. /\ old.segment = s /\ old.profile = p /\ old.result = x
        /\ old.cancel = c /\ c \in BOOLEAN
    BY <1>1
  <1>3. CASE c
    <2> DEFINE run == [segment |-> s, profile |-> p, status |-> "canceled",
                       cancel |-> c, result |-> x]
    <2>1. Outcome(old, outcome) = run
      BY <1>1, <1>3 DEF Outcome
    <2>2. Fields(run)
      BY DEF Fields
    <2>3. /\ run.segment = s /\ run.profile = p /\ run.cancel = c
          /\ run.status = "canceled" /\ run.result = x
      OBVIOUS
    <2> HIDE DEF run
    <2> QED BY <1>2, <1>3, <2>1, <2>2, <2>3
  <1>4. CASE ~c /\ outcome = None
    <2> DEFINE run == [segment |-> s, profile |-> p, status |-> "failed",
                       cancel |-> c, result |-> x]
    <2>1. Outcome(old, outcome) = run
      BY <1>1, <1>4 DEF Outcome
    <2>2. Fields(run)
      BY DEF Fields
    <2>3. /\ run.segment = s /\ run.profile = p /\ run.cancel = c
          /\ run.status = "failed" /\ run.result = x
      OBVIOUS
    <2> HIDE DEF run
    <2> QED BY <1>2, <1>4, <2>1, <2>2, <2>3
  <1>5. CASE ~c /\ outcome # None
    <2> DEFINE run == [segment |-> s, profile |-> p, status |-> "done",
                       cancel |-> c, result |-> outcome]
    <2>1. Outcome(old, outcome) = run
      BY <1>1, <1>5 DEF Outcome
    <2>2. Fields(run)
      BY DEF Fields
    <2>3. /\ run.segment = s /\ run.profile = p /\ run.cancel = c
          /\ run.status = "done" /\ run.result = outcome
      OBVIOUS
    <2> HIDE DEF run
    <2> QED BY <1>2, <1>5, <2>1, <2>2, <2>3
  <1> QED BY <1>3, <1>4, <1>5

RunsType ==
  /\ runs = [r \in Assists |-> runs[r]]
  /\ \A r \in Known : Fields(runs[r]) /\ runs[r].cancel \in BOOLEAN

\* A run that goes on has no result yet.
NoEarlyResult == \A r \in Running : runs[r].result = None

CancelInv == RunsType /\ NoEarlyResult /\ CancelWins

LEMMA CancelInit == AssistInit => CancelInv
  BY DEF AssistInit, CancelInv, RunsType, NoEarlyResult, CancelWins, Known, Running

\* Pruning forgets runs and changes none.
LEMMA PrunedRuns ==
  ASSUME NEW all
  PROVE  /\ Pruned(all) = [q \in Assists |-> Pruned(all)[q]]
         /\ \A q \in Assists : Pruned(all)[q] \in {None, all[q]}
  <1> DEFINE order == SelectSeq(ended, LAMBDA r : all[r] # None)
  <1>1. Pruned(all) = [q \in Assists |-> IF q \in Prunable(order) THEN None ELSE all[q]]
    BY Zenon DEF Pruned
  <1> HIDE DEF order
  <1> QED BY <1>1

\* A new run has no result and nobody has canceled it.
LEMMA StartKeepsRuns ==
  ASSUME CancelInv, AssistStart
  PROVE  CancelInv'
  <1>1. PICK s \in Segments, requested \in ProfileIds \cup {None} :
          LET r == CHOOSE q \in Unstarted : TRUE
          IN /\ Unstarted # {}
             /\ runs' = Pruned([runs EXCEPT ![r] =
                  [segment |-> s, profile |-> Resolved(requested), status |-> "running",
                   cancel |-> FALSE, result |-> None]])
    BY DEF AssistStart
  <1> DEFINE r == CHOOSE q \in Unstarted : TRUE
             new == [segment |-> s, profile |-> Resolved(requested), status |-> "running",
                     cancel |-> FALSE, result |-> None]
             all == [runs EXCEPT ![r] = new]
  <1>2. r \in Assists
    BY <1>1 DEF Unstarted
  <1>3. all = [q \in Assists |-> IF q = r THEN new ELSE runs[q]]
    BY <1>2 DEF CancelInv, RunsType
  <1>4. /\ runs' = [q \in Assists |-> runs'[q]]
        /\ \A q \in Assists : runs'[q] \in {None, all[q]}
    BY <1>1, PrunedRuns, Zenon
  <1>5. Fields(new) /\ new.cancel = FALSE /\ new.result = None /\ new.status = "running"
    BY DEF Fields
  <1> HIDE DEF new, all, r
  <1>6. ASSUME NEW q \in Assists, runs'[q] # None
        PROVE  runs'[q] = new \/ (runs'[q] = runs[q] /\ runs[q] # None)
    BY <1>3, <1>4, <1>6
  <1>7. RunsType'
    BY <1>4, <1>5, <1>6 DEF CancelInv, RunsType, Known
  <1>8. NoEarlyResult'
    BY <1>5, <1>6 DEF CancelInv, NoEarlyResult, Known, Running
  <1>9. CancelWins'
    BY <1>5, <1>6 DEF CancelInv, CancelWins, Known
  <1> QED BY <1>7, <1>8, <1>9 DEF CancelInv

\* Steps that change one run and leave its other fields alone.
LEMMA OneRunChanges ==
  ASSUME CancelInv, NEW r \in Running, NEW run,
         runs' = [runs EXCEPT ![r] = run],
         Fields(run), run.cancel \in BOOLEAN,
         run.status = "running" => run.result = None,
         run.cancel => run.status \in {"running", "canceled"} /\ run.result = None
  PROVE  CancelInv'
  <1>1. r \in Assists
    BY DEF Running, Known
  <1>2. runs' = [q \in Assists |-> IF q = r THEN run ELSE runs[q]]
    BY <1>1 DEF CancelInv, RunsType
  <1>3. RunsType'
    BY <1>1, <1>2 DEF CancelInv, RunsType, Known
  <1>4. NoEarlyResult'
    BY <1>1, <1>2 DEF CancelInv, NoEarlyResult, Known, Running
  <1>5. CancelWins'
    BY <1>1, <1>2 DEF CancelInv, CancelWins, Known
  <1> QED BY <1>3, <1>4, <1>5 DEF CancelInv

LEMMA CancelKeepsRuns ==
  ASSUME CancelInv, AssistCancel
  PROVE  CancelInv'
  <1>1. PICK r \in Running : runs' = [runs EXCEPT ![r].cancel = TRUE]
    BY DEF AssistCancel
  <1> DEFINE run == [runs[r] EXCEPT !.cancel = TRUE]
  <1>2. /\ Fields(runs[r]) /\ runs[r].status = "running" /\ runs[r].result = None
    BY DEF CancelInv, RunsType, NoEarlyResult, Running
  <1>3. /\ Fields(run) /\ run.cancel = TRUE
        /\ run.status = "running" /\ run.result = None
    BY <1>2, CancelFields
  <1>4. runs' = [runs EXCEPT ![r] = run]
    BY <1>1
  <1> QED BY <1>3, <1>4, OneRunChanges

\* The outcome of a run that was canceled is nobody's draft.
LEMMA FinishKeepsRuns ==
  ASSUME CancelInv, AssistFinished
  PROVE  CancelInv'
  <1> DEFINE r == Head(events).run
             outcome == Head(events).outcome
  <1>1. CASE r \in Running
    <2> DEFINE run == Outcome(runs[r], outcome)
    <2>1. runs' = [runs EXCEPT ![r] = run]
      BY <1>1 DEF AssistFinished
    <2>2. /\ Fields(runs[r]) /\ runs[r].cancel \in BOOLEAN
          /\ runs[r].status = "running" /\ runs[r].result = None
      BY <1>1 DEF CancelInv, RunsType, NoEarlyResult, Running
    <2>3. /\ Fields(run) /\ run.cancel = runs[r].cancel /\ run.status # "running"
          /\ runs[r].cancel => run.status = "canceled" /\ run.result = None
      BY <2>2, OutcomeFields
    <2> QED BY <1>1, <2>1, <2>2, <2>3, OneRunChanges
  <1>2. CASE r \notin Running
    <2>1. runs' = runs
      BY <1>2 DEF AssistFinished
    <2> QED BY <2>1 DEF CancelInv, RunsType, NoEarlyResult, CancelWins, Known, Running
  <1> QED BY <1>1, <1>2

\* The steps that do not touch the runs.
LEMMA OthersKeepRuns ==
  ASSUME AssistNext \/ UNCHANGED assistVars, ~AssistStart, ~AssistCancel, ~AssistFinished
  PROVE  runs' = runs
  BY DEF AssistNext, assistVars, Configure, ProfileAdd, ProfileRemove, ProfileCall, PersonEdits, WorkerStep

LEMMA CancelStep == CancelInv /\ [AssistNext]_assistVars => CancelInv'
  <1> SUFFICES ASSUME CancelInv, [AssistNext]_assistVars PROVE CancelInv'
    OBVIOUS
  <1>1. CASE AssistStart
    BY <1>1, StartKeepsRuns
  <1>2. CASE AssistCancel
    BY <1>2, CancelKeepsRuns
  <1>3. CASE AssistFinished
    BY <1>3, FinishKeepsRuns
  <1>4. CASE ~AssistStart /\ ~AssistCancel /\ ~AssistFinished
    <2>1. runs' = runs
      BY <1>4, OthersKeepRuns
    <2> QED BY <2>1 DEF CancelInv, RunsType, NoEarlyResult, CancelWins, Known, Running
  <1> QED BY <1>1, <1>2, <1>3, <1>4

(* A request somebody canceled never shows a draft, however its answer, the *)
(* cancel, later requests and pruning interleave (finish_assist).           *)
THEOREM CancelAlwaysWins == AssistSpec => []CancelWins
  <1>1. CancelInv => CancelWins
    BY DEF CancelInv
  <1> QED BY <1>1, CancelInit, CancelStep, PTL DEF AssistSpec

-----------------------------------------------------------------------------
(* Assist runs: one flight per row and profile                             *)

LEMMA FlightStep == CancelInv /\ OneInFlight /\ [AssistNext]_assistVars => OneInFlight'
  <1> SUFFICES ASSUME CancelInv, OneInFlight, [AssistNext]_assistVars PROVE OneInFlight'
    OBVIOUS
  <1>1. CASE AssistStart
    <2>1. PICK s \in Segments, requested \in ProfileIds \cup {None} :
            LET r == CHOOSE q \in Unstarted : TRUE
            IN /\ Unstarted # {} /\ Free(s, Resolved(requested))
               /\ runs' = Pruned([runs EXCEPT ![r] =
                    [segment |-> s, profile |-> Resolved(requested), status |-> "running",
                     cancel |-> FALSE, result |-> None]])
      BY <1>1 DEF AssistStart
    <2> DEFINE r == CHOOSE q \in Unstarted : TRUE
               new == [segment |-> s, profile |-> Resolved(requested), status |-> "running",
                       cancel |-> FALSE, result |-> None]
               all == [runs EXCEPT ![r] = new]
    <2>2. r \in Assists
      BY <2>1 DEF Unstarted
    <2>3. all = [q \in Assists |-> IF q = r THEN new ELSE runs[q]]
      BY <2>2 DEF CancelInv, RunsType
    <2>4. \A q \in Assists : runs'[q] \in {None, all[q]}
      BY <2>1, PrunedRuns, Zenon
    <2>5. new.segment = s /\ new.profile = Resolved(requested)
      OBVIOUS
    <2> HIDE DEF new, all, r
    <2>6. ASSUME NEW q \in Running', q # r
          PROVE  q \in Running /\ runs'[q] = runs[q]
      BY <2>3, <2>4, <2>6 DEF Running, Known
    <2>7. r \in Running' => runs'[r] = new
      BY <2>2, <2>3, <2>4 DEF Running, Known
    <2>8. ASSUME NEW q \in Running, ~runs[q].cancel
          PROVE  runs[q].segment # s \/ runs[q].profile # Resolved(requested)
      BY <2>1, <2>8 DEF Free
    <2>9. SUFFICES ASSUME NEW p \in Running', NEW q \in Running', p # q,
                          ~runs'[p].cancel, ~runs'[q].cancel
                   PROVE  runs'[p].segment # runs'[q].segment
                            \/ runs'[p].profile # runs'[q].profile
      BY DEF OneInFlight
    <2>10. CASE p # r /\ q # r
      BY <2>6, <2>9, <2>10 DEF OneInFlight
    <2>11. CASE p = r
      BY <2>5, <2>6, <2>7, <2>8, <2>9, <2>11
    <2>12. CASE q = r
      BY <2>5, <2>6, <2>7, <2>8, <2>9, <2>12
    <2> QED BY <2>10, <2>11, <2>12
  <1>2. ASSUME NEW r \in Running, NEW run, runs' = [runs EXCEPT ![r] = run],
               run.segment = runs[r].segment, run.profile = runs[r].profile,
               ~run.cancel => ~runs[r].cancel
        PROVE  OneInFlight'
    <2>1. r \in Assists
      BY DEF Running, Known
    <2>2. runs' = [q \in Assists |-> IF q = r THEN run ELSE runs[q]]
      BY <1>2, <2>1 DEF CancelInv, RunsType
    <2>3. Running' \subseteq Running
      BY <2>1, <2>2 DEF Running, Known
    <2> QED BY <1>2, <2>1, <2>2, <2>3 DEF OneInFlight, Running, Known
  <1>3. CASE AssistCancel
    <2>1. PICK r \in Running : runs' = [runs EXCEPT ![r].cancel = TRUE]
      BY <1>3 DEF AssistCancel
    <2> DEFINE run == [runs[r] EXCEPT !.cancel = TRUE]
    <2>2. Fields(runs[r])
      BY DEF CancelInv, RunsType, Running
    <2>3. run.segment = runs[r].segment /\ run.profile = runs[r].profile /\ run.cancel = TRUE
      BY <2>2, CancelFields
    <2>4. runs' = [runs EXCEPT ![r] = run]
      BY <2>1
    <2> QED BY <1>2, <2>3, <2>4
  <1>4. CASE AssistFinished
    <2> DEFINE r == Head(events).run
               run == Outcome(runs[r], Head(events).outcome)
    <2>1. CASE r \in Running
      <3>1. runs' = [runs EXCEPT ![r] = run]
        BY <1>4, <2>1 DEF AssistFinished
      <3>2. Fields(runs[r]) /\ runs[r].cancel \in BOOLEAN
        BY <2>1 DEF CancelInv, RunsType, Running
      <3>3. run.segment = runs[r].segment /\ run.profile = runs[r].profile
              /\ run.cancel = runs[r].cancel
        BY <3>2, OutcomeFields
      <3> QED BY <1>2, <2>1, <3>1, <3>3
    <2>2. CASE r \notin Running
      BY <1>4, <2>2 DEF AssistFinished, OneInFlight, Running, Known
    <2> QED BY <2>1, <2>2
  <1>5. CASE ~AssistStart /\ ~AssistCancel /\ ~AssistFinished
    <2>1. runs' = runs
      BY <1>5, OthersKeepRuns
    <2> QED BY <2>1 DEF OneInFlight, Running, Known
  <1> QED BY <1>1, <1>3, <1>4, <1>5

(* Two provider calls for one row and profile, with nobody having canceled  *)
(* one of them, are never under way together (ai.assist.start).             *)
THEOREM OneRequestInFlight == AssistSpec => []OneInFlight
  <1>1. AssistInit => OneInFlight
    BY DEF AssistInit, OneInFlight, Running, Known
  <1> QED BY <1>1, CancelInit, CancelStep, FlightStep, PTL DEF AssistSpec

-----------------------------------------------------------------------------
(* Assist runs: profiles                                                   *)

\* The profiles are of different ids, and the default is one of them.
ProfilesInv ==
  /\ profiles \in Seq(ProfileIds)
  /\ \A i, j \in 1..Len(profiles) : profiles[i] = profiles[j] => i = j
  /\ DefaultIsUsable

\* What is left when the place i is taken out.
LEMMA RemovedAt ==
  ASSUME NEW S, NEW s \in Seq(S), NEW i \in 1..Len(s)
  PROVE  /\ RemoveAt(s, i) \in Seq(S) /\ Len(RemoveAt(s, i)) = Len(s) - 1
         /\ \A j \in 1..Len(s) - 1 : RemoveAt(s, i)[j] = s[IF j < i THEN j ELSE j + 1]
  <1> DEFINE front == SubSeq(s, 1, i - 1)
             back  == SubSeq(s, i + 1, Len(s))
  <1>1. Len(s) \in Nat /\ i \in Nat
    OBVIOUS
  <1>2. front \in Seq(S) /\ Len(front) = i - 1 /\ \A j \in 1..(i - 1) : front[j] = s[j]
    OBVIOUS
  <1>3. /\ back \in Seq(S) /\ Len(back) = Len(s) - i
        /\ \A j \in 1..(Len(s) - i) : back[j] = s[i + j]
    OBVIOUS
  <1>4. RemoveAt(s, i) = front \o back
    BY DEF RemoveAt
  <1> HIDE DEF front, back
  <1>5. RemoveAt(s, i) \in Seq(S) /\ Len(RemoveAt(s, i)) = Len(s) - 1
    BY <1>1, <1>2, <1>3, <1>4
  <1>6. ASSUME NEW j \in 1..Len(s) - 1
        PROVE  RemoveAt(s, i)[j] = s[IF j < i THEN j ELSE j + 1]
    <2>1. CASE j < i
      <3>1. j \in 1..Len(front) /\ j \in 1..(i - 1)
        BY <1>1, <1>2, <2>1
      <3>2. (front \o back)[j] = front[j]
        BY <1>2, <1>3, <3>1
      <3> QED BY <1>2, <1>4, <2>1, <3>1, <3>2
    <2>2. CASE ~(j < i)
      <3>1. j - (i - 1) \in 1..(Len(s) - i) /\ i + (j - (i - 1)) = j + 1
        BY <1>1, <2>2
      <3>2. (front \o back)[j] = back[j - (i - 1)]
        BY <1>1, <1>2, <1>3, <2>2
      <3>3. back[j - (i - 1)] = s[i + (j - (i - 1))]
        BY <1>3, <3>1
      <3> QED BY <1>4, <2>2, <3>1, <3>2, <3>3
    <2> QED BY <2>1, <2>2
  <1> QED BY <1>5, <1>6

\* A profile added at the end.
LEMMA AddedProfile ==
  ASSUME profiles \in Seq(ProfileIds),
         \A i, j \in 1..Len(profiles) : profiles[i] = profiles[j] => i = j,
         NEW id \in ProfileIds, ~Contains(profiles, id), profiles' = Append(profiles, id)
  PROVE  /\ profiles' \in Seq(ProfileIds) /\ profiles' # <<>>
         /\ \A i, j \in 1..Len(profiles') : profiles'[i] = profiles'[j] => i = j
         /\ Contains(profiles', id)
         /\ \A x : Contains(profiles, x) => Contains(profiles', x)
  <1>1. /\ profiles' \in Seq(ProfileIds) /\ Len(profiles') = Len(profiles) + 1 /\ Len(profiles) \in Nat
        /\ \A i \in 1..Len(profiles) : profiles'[i] = profiles[i]
        /\ profiles'[Len(profiles) + 1] = id
    OBVIOUS
  <1>2. \A i \in 1..Len(profiles') : i \in 1..Len(profiles) \/ i = Len(profiles) + 1
    BY <1>1
  <1>3. \A i \in 1..Len(profiles) : profiles[i] # id /\ i \in 1..Len(profiles')
    BY <1>1 DEF Contains
  <1>4. Len(profiles) + 1 \in 1..Len(profiles') /\ profiles' # <<>>
    BY <1>1
  <1> QED BY <1>1, <1>2, <1>3, <1>4 DEF Contains

LEMMA ProfilesStep == ProfilesInv /\ [AssistNext]_assistVars => ProfilesInv'
  <1> SUFFICES ASSUME ProfilesInv, [AssistNext]_assistVars
               PROVE  ProfilesInv'
    OBVIOUS
  <1>1. CASE UNCHANGED <<profiles, default>>
    BY <1>1 DEF ProfilesInv, DefaultIsUsable
  <1>2. CASE Configure
    <2>1. /\ profiles' = IF Contains(profiles, Default) THEN profiles ELSE Append(profiles, Default)
          /\ default' = Default
      BY <1>2 DEF Configure
    <2>2. CASE Contains(profiles, Default)
      <3>1. profiles' = profiles /\ profiles # <<>>
        BY <2>1, <2>2 DEF Contains
      <3> QED BY <2>1, <2>2, <3>1 DEF ProfilesInv, DefaultIsUsable
    <2>3. CASE ~Contains(profiles, Default)
      <3>1. profiles' = Append(profiles, Default) /\ Default \in ProfileIds
        BY <2>1, <2>3 DEF ProfileIds
      <3> QED BY <2>1, <2>3, <3>1, AddedProfile DEF ProfilesInv, DefaultIsUsable
    <2> QED BY <2>2, <2>3
  <1>3. CASE ProfileAdd
    <2>1. PICK id \in AddedIds :
            /\ ~Contains(profiles, id) /\ profiles' = Append(profiles, id)
            /\ default' = IF default = None THEN id ELSE default
      BY <1>3 DEF ProfileAdd
    <2>2. id \in ProfileIds
      BY DEF ProfileIds
    <2>3. /\ profiles' \in Seq(ProfileIds) /\ profiles' # <<>>
          /\ \A i, j \in 1..Len(profiles') : profiles'[i] = profiles'[j] => i = j
          /\ Contains(profiles', id)
          /\ \A x : Contains(profiles, x) => Contains(profiles', x)
      BY <2>1, <2>2, AddedProfile DEF ProfilesInv
    <2>4. Contains(profiles', default')
      BY <2>1, <2>3 DEF ProfilesInv, DefaultIsUsable
    <2> QED BY <2>3, <2>4 DEF ProfilesInv, DefaultIsUsable
  <1>4. CASE ProfileRemove
    <2>0. profiles \in Seq(ProfileIds) /\ DOMAIN profiles = 1..Len(profiles)
      BY DEF ProfilesInv
    <2>1. PICK i \in 1..Len(profiles) :
            /\ profiles' = RemoveAt(profiles, i)
            /\ default' = IF default = profiles[i] THEN Heir(profiles') ELSE default
      BY <1>4, <2>0 DEF ProfileRemove
    <2>2. /\ profiles' \in Seq(ProfileIds) /\ Len(profiles') = Len(profiles) - 1
          /\ Len(profiles) \in Nat /\ i \in Nat /\ i <= Len(profiles)
          /\ \A j \in 1..Len(profiles') : profiles'[j] = profiles[IF j < i THEN j ELSE j + 1]
      <3>1. /\ RemoveAt(profiles, i) \in Seq(ProfileIds)
            /\ Len(RemoveAt(profiles, i)) = Len(profiles) - 1
            /\ \A j \in 1..Len(profiles) - 1 :
                 RemoveAt(profiles, i)[j] = profiles[IF j < i THEN j ELSE j + 1]
        BY <2>0, RemovedAt
      <3>2. Len(profiles) \in Nat /\ i \in Nat /\ i <= Len(profiles)
        BY <2>0
      <3> QED BY <2>1, <3>1, <3>2
    <2>3. \A j, k \in 1..Len(profiles') : profiles'[j] = profiles'[k] => j = k
      <3> SUFFICES ASSUME NEW j \in 1..Len(profiles'), NEW k \in 1..Len(profiles'),
                          profiles'[j] = profiles'[k]
                   PROVE  j = k
        OBVIOUS
      <3> DEFINE before(x) == IF x < i THEN x ELSE x + 1
      <3>1. before(j) \in 1..Len(profiles) /\ before(k) \in 1..Len(profiles)
        BY <2>2
      <3>2. profiles[before(j)] = profiles[before(k)]
        BY <2>2
      <3>3. before(j) = before(k)
        BY <3>1, <3>2 DEF ProfilesInv
      <3> QED BY <2>2, <3>3
    <2>4. CASE profiles' = <<>>
      <3>1. Len(profiles) = 1 /\ i = 1
        <4>1. Len(profiles') = 0
          BY <2>4
        <4>2. Len(profiles') = Len(profiles) - 1 /\ Len(profiles) \in Nat /\ i \in Nat
          BY <2>2
        <4>3. i >= 1 /\ i <= Len(profiles)
          BY <4>2
        <4> DEFINE n == Len(profiles)
        <4>4. n \in Nat /\ n - 1 = 0 /\ i \in Nat /\ i >= 1 /\ i <= n
          BY <4>1, <4>2, <4>3
        <4> HIDE DEF n
        <4>5. n = 1 /\ i = 1
          BY <4>4
        <4> QED BY <4>5 DEF n
      <3>2. default = profiles[i]
        <4>1. profiles # <<>>
          BY <3>1
        <4>2. PICK j \in 1..Len(profiles) : profiles[j] = default
          BY <4>1 DEF ProfilesInv, DefaultIsUsable, Contains
        <4> QED BY <3>1, <4>2
      <3>3. default' = None
        BY <2>1, <2>4, <3>2 DEF Heir
      <3> QED BY <2>2, <2>3, <2>4, <3>3 DEF ProfilesInv, DefaultIsUsable
    <2>5. CASE profiles' # <<>>
      <3>1. Contains(profiles', default')
        <4>1. CASE default = profiles[i]
          <5>1. default' = Head(profiles') /\ Head(profiles') = profiles'[1]
            BY <2>1, <2>2, <2>5, <4>1 DEF Heir
          <5>2. 1 \in 1..Len(profiles')
            BY <2>2, <2>5
          <5> QED BY <5>1, <5>2 DEF Contains
        <4>2. CASE default # profiles[i]
          <5>1. default' = default /\ profiles # <<>>
            BY <2>1, <2>2, <4>2
          <5>2. PICK j \in 1..Len(profiles) : profiles[j] = default
            BY <5>1 DEF ProfilesInv, DefaultIsUsable, Contains
          <5>3. j # i /\ j \in Nat
            BY <4>2, <5>2
          <5>4. CASE j < i
            <6>1. j \in 1..Len(profiles') /\ profiles'[j] = profiles[j]
              BY <2>2, <5>4
            <6> QED BY <5>1, <5>2, <6>1 DEF Contains
          <5>5. CASE j > i
            <6>1. j - 1 \in 1..Len(profiles') /\ ~(j - 1 < i) /\ (j - 1) + 1 = j
              BY <2>2, <5>5
            <6>2. profiles'[j - 1] = profiles[j]
              BY <2>2, <6>1
            <6> QED BY <5>1, <5>2, <6>1, <6>2 DEF Contains
          <5> QED BY <2>2, <5>3, <5>4, <5>5
        <4> QED BY <4>1, <4>2
      <3> QED BY <2>2, <2>3, <2>5, <3>1 DEF ProfilesInv, DefaultIsUsable
    <2> QED BY <2>4, <2>5
  <1> QED BY <1>1, <1>2, <1>3, <1>4
        DEF AssistNext, assistVars, AssistStart, AssistCancel, PersonEdits, WorkerStep, AssistFinished

(* As long as there is a profile, a request that names none finds one, in   *)
(* whatever order profiles are configured, added and removed                *)
(* (ai_profile_remove).                                                     *)
THEOREM DefaultsAreUsable == AssistSpec => []DefaultIsUsable
  <1>1. AssistInit => ProfilesInv
    BY DEF AssistInit, ProfilesInv, DefaultIsUsable
  <1>2. ProfilesInv => DefaultIsUsable
    BY DEF ProfilesInv
  <1> QED BY <1>1, <1>2, ProfilesStep, PTL DEF AssistSpec
=============================================================================
