---------------------------- MODULE SeqSyncProofs ----------------------------
(***************************************************************************)
(* That clients converge, for every number of handlers and clients and     *)
(* every capacity of the receivers.                                        *)
(*                                                                         *)
(* The argument is about the message with the highest number.  Its payload *)
(* is read after its number is taken, and every change precedes a number:  *)
(* once no change waits for its number, that message carries the room's    *)
(* state (Good).  A client that is not excused either still has something  *)
(* coming - that message, a snapshot - or shows the state and has the      *)
(* room's number (Reached): then any message that is still queued is out   *)
(* of order and will be noticed as a gap.                                  *)
(***************************************************************************)
EXTENDS SeqSync, TLAPS

\* A change has been made and has no number yet.
Unnumbered == \E e \in Editors : job[e].step = "number"

Good(m) ==
    /\ m.seq <= seq
    /\ m.seq = seq => m.tree = tree \/ Unnumbered

JobsGood ==
    \A e \in Editors : /\ job[e].step = "read" => job[e].seq <= seq
                       /\ job[e].step = "send" => Good(job[e].msg)

QueuesGood ==
    \A w \in Watchers : \A i \in 1..Len(queue[w]) : Good(queue[w][i])

\* The highest number's message is yet to be sent.
TopPending ==
    \E e \in Editors : \/ job[e].step = "read" /\ job[e].seq = seq
                       \/ job[e].step = "send" /\ job[e].msg.seq = seq

TopQueued(w) == \E i \in 1..Len(queue[w]) : queue[w][i].seq = seq

HoldsTree(w) == stage[w] \in {"welcome", "answer"} /\ snap[w] = tree

ShowsTree(w) ==
    stage[w] \in {"subscribe", "loop"} /\ last[w] = seq /\ view[w] = tree

Reached(w) ==
    \/ Unnumbered
    \/ TopPending
    \/ TopQueued(w)
    \/ w \in lagged
    \/ up[w] > 0
    \/ HoldsTree(w)
    \/ ShowsTree(w)

Reaching ==
    \A w \in Watchers : stage[w] # "out" /\ w \notin missed => Reached(w)

SyncInv == TypeOK /\ JobsGood /\ QueuesGood /\ Reaching

-----------------------------------------------------------------------------
(***************************************************************************)
(* Type correctness.                                                       *)
(***************************************************************************)
\* What Push keeps of a receiver's queue.
LEMMA PushFacts ==
  ASSUME NEW q \in Seq(Message), NEW m \in Message
  PROVE  /\ Push(q, m) \in Seq(Message)
         /\ Len(Push(q, m)) \in 1..Len(Push(q, m))
         /\ Push(q, m)[Len(Push(q, m))] = m
         /\ \A i \in 1..Len(Push(q, m)) :
              Push(q, m)[i] = m \/ \E j \in 1..Len(q) : Push(q, m)[i] = q[j]
         /\ Len(q) < Capacity =>
              \A j \in 1..Len(q) : \E i \in 1..Len(Push(q, m)) : Push(q, m)[i] = q[j]
<1>1. CASE Len(q) < Capacity
  <2>1. Push(q, m) = Append(q, m)
    BY <1>1 DEF Push
  <2>2. /\ Len(Append(q, m)) = Len(q) + 1
        /\ Append(q, m) \in Seq(Message)
        /\ \A i \in 1..Len(q) : Append(q, m)[i] = q[i]
        /\ Append(q, m)[Len(q) + 1] = m
    OBVIOUS
  <2> QED
    BY <1>1, <2>1, <2>2
<1>2. CASE ~(Len(q) < Capacity)
  <2>1. Push(q, m) = Append(Tail(q), m)
    BY <1>2 DEF Push
  <2>2. Len(q) \in Nat \ {0}
    BY <1>2, SyncAssumption
  <2>3. /\ Tail(q) \in Seq(Message)
        /\ Len(Tail(q)) = Len(q) - 1
        /\ \A i \in 1..(Len(q) - 1) : Tail(q)[i] = q[i + 1]
    BY <2>2
  <2> HIDE DEF Message
  <2>4. /\ Len(Append(Tail(q), m)) = Len(q)
        /\ Append(Tail(q), m) \in Seq(Message)
        /\ \A i \in 1..(Len(q) - 1) : Append(Tail(q), m)[i] = q[i + 1]
        /\ Append(Tail(q), m)[Len(q)] = m
    BY <2>2, <2>3
  <2>5. \A i \in 1..Len(q) :
          Append(Tail(q), m)[i] = m \/ \E j \in 1..Len(q) : Append(Tail(q), m)[i] = q[j]
    <3> TAKE i \in 1..Len(q)
    <3>1. CASE i = Len(q)
      BY <3>1, <2>4
    <3>2. CASE i # Len(q)
      <4>1. i \in 1..(Len(q) - 1) /\ i + 1 \in 1..Len(q)
        BY <3>2, <2>2
      <4> QED
        BY <4>1, <2>4
    <3> QED
      BY <3>1, <3>2
  <2>6. Len(q) \in 1..Len(q)
    BY <2>2
  <2> QED
    BY <1>2, <2>1, <2>4, <2>5, <2>6
<1> QED
  BY <1>1, <1>2

\* What a handler carries at each step.
LEMMA JobShapes ==
  ASSUME NEW j \in Job
  PROVE  /\ j.step = "read" => j.seq \in Nat
         /\ j.step = "send" => j.msg \in Message
<1>1. CASE j \in {Idle} \cup [step : {"number"}]
  BY <1>1 DEF Idle
<1>2. CASE j \in [step : {"read"}, seq : Nat]
  BY <1>2
<1>3. CASE j \in [step : {"send"}, msg : Message]
  BY <1>3
<1> QED
  BY <1>1, <1>2, <1>3 DEF Job

LEMMA TypeInit == Init => TypeOK
<1> SUFFICES ASSUME Init PROVE TypeOK
  OBVIOUS
<1>1. Idle \in Job /\ <<>> \in Seq(Message)
  BY DEF Job
<1> QED
  BY <1>1 DEF Init, TypeOK, Stages

LEMMA TypeStep == TypeOK /\ [Next]_vars => TypeOK'
<1> SUFFICES ASSUME TypeOK, [Next]_vars PROVE TypeOK'
  OBVIOUS
<1> USE DEF roomVars, taskVars, clientVars
<1>1. ASSUME NEW e \in Editors, EditorStep(e) PROVE TypeOK'
  <2>1. CASE Edit(e)
    <3>1. [step |-> "number"] \in Job
      BY DEF Job
    <3> QED
      BY <2>1, <3>1 DEF Edit, TypeOK
  <2>2. CASE TakeNumber(e)
    <3>1. [step |-> "read", seq |-> seq + 1] \in Job
      BY DEF Job, TypeOK
    <3> QED
      BY <2>2, <3>1 DEF TakeNumber, TypeOK
  <2>3. CASE ReadPayload(e)
    <3>1. job[e].seq \in Nat
      BY <2>3, JobShapes DEF ReadPayload, TypeOK
    <3>2. [step |-> "send", msg |-> [seq |-> job[e].seq, tree |-> tree]] \in Job
      BY <3>1 DEF Job, Message, TypeOK
    <3> QED
      BY <2>3, <3>2 DEF ReadPayload, TypeOK
  <2>4. CASE Send(e)
    <3>1. job[e].msg \in Message
      BY <2>4, JobShapes DEF Send, TypeOK
    <3>2. \A w \in Watchers : Push(queue[w], job[e].msg) \in Seq(Message)
      BY <3>1, PushFacts DEF TypeOK
    <3>3. Idle \in Job
      BY DEF Job
    <3> QED
      BY <2>4, <3>2, <3>3 DEF Send, TypeOK
  <2> QED
    BY <1>1, <2>1, <2>2, <2>3, <2>4 DEF EditorStep
<1>2. ASSUME NEW w \in Watchers, Join(w) \/ Disconnect(w) PROVE TypeOK'
  <2>1. CASE Join(w)
    BY <2>1 DEF Join, TypeOK, Stages
  <2>2. CASE Disconnect(w)
    <3>1. <<>> \in Seq(Message)
      OBVIOUS
    <3> QED
      BY <2>2, <3>1 DEF Disconnect, SnapshotSent, TypeOK, Stages
  <2> QED
    BY <1>2, <2>1, <2>2
<1>3. ASSUME NEW w \in Watchers, WatcherStep(w) PROVE TypeOK'
  <2>1. CASE Welcome(w)
    BY <2>1 DEF Welcome, ApplySnapshot, SnapshotSent, TypeOK, Stages
  <2>2. CASE Subscribe(w)
    BY <2>2 DEF Subscribe, TypeOK, Stages
  <2>3. CASE Answer(w)
    BY <2>3 DEF Answer, ApplySnapshot, SnapshotSent, TypeOK, Stages
  <2>4. CASE GetSnapshot(w)
    BY <2>4 DEF GetSnapshot, ReadSnapshot, TypeOK, Stages
  <2>5. CASE RefuseSnapshot(w)
    BY <2>5 DEF RefuseSnapshot, TypeOK, Stages
  <2>6. CASE Lagged(w)
    BY <2>6 DEF Lagged, ReadSnapshot, TypeOK, Stages
  <2>7. CASE Forward(w)
    <3>1. Head(queue[w]) \in Message /\ Tail(queue[w]) \in Seq(Message)
      BY <2>7 DEF Forward, TypeOK
    <3>2. Head(queue[w]).seq \in Nat /\ Head(queue[w]).tree \in Nat
      BY <3>1 DEF Message
    <3> QED
      BY <2>7, <3>1, <3>2 DEF Forward, TypeOK
  <2> QED
    BY <1>3, <2>1, <2>2, <2>3, <2>4, <2>5, <2>6, <2>7 DEF WatcherStep
<1>4. CASE UNCHANGED vars
  BY <1>4 DEF TypeOK, vars
<1> QED
  BY <1>1, <1>2, <1>3, <1>4 DEF Next

\* Handlers, connections and clients stay well typed.
THEOREM TypeCorrect == Spec => []TypeOK
  BY TypeInit, TypeStep, PTL DEF Spec

-----------------------------------------------------------------------------
(***************************************************************************)
(* The messages on their way.                                              *)
(***************************************************************************)
RoomStep == (\E e \in Editors : EditorStep(e)) \/ UNCHANGED roomVars

\* Only the step that takes its number ends a change's wait for one.
LEMMA WaitsOn ==
  ASSUME TypeOK, NEW e \in Editors, Edit(e) \/ ReadPayload(e) \/ Send(e), Unnumbered
  PROVE  Unnumbered'
<1> PICK f \in Editors : job[f].step = "number"
  BY DEF Unnumbered
<1>1. CASE f = e
  BY <1>1 DEF Edit, ReadPayload, Send, Idle
<1>2. CASE f # e
  <2>1. job'[f] = job[f]
    BY <1>2 DEF Edit, ReadPayload, Send, TypeOK
  <2> QED
    BY <2>1 DEF Unnumbered
<1> QED
  BY <1>1, <1>2

\* No step of a handler makes a message on its way wrong.
LEMMA GoodStays ==
  ASSUME TypeOK, RoomStep, NEW m \in Message, Good(m)
  PROVE  /\ m.seq <= seq'
         /\ m.seq = seq' => m.tree = tree' \/ Unnumbered'
<1>1. m.seq \in Nat
  BY DEF Message
<1>2. ASSUME NEW e \in Editors, Edit(e)
      PROVE  Unnumbered' /\ seq' = seq
  <2>1. job'[e].step = "number"
    BY <1>2 DEF Edit, TypeOK
  <2> QED
    BY <1>2, <2>1 DEF Edit, Unnumbered
<1>3. ASSUME NEW e \in Editors, TakeNumber(e)
      PROVE  m.seq < seq'
  BY <1>1, <1>3 DEF TakeNumber, Good, TypeOK
<1>4. ASSUME NEW e \in Editors, ReadPayload(e) \/ Send(e)
      PROVE  UNCHANGED <<seq, tree>> /\ (Unnumbered => Unnumbered')
  BY <1>4, WaitsOn DEF ReadPayload, Send
<1>5. CASE UNCHANGED roomVars
  BY <1>5 DEF roomVars, Good, Unnumbered
<1>6. ASSUME NEW e \in Editors, EditorStep(e)
      PROVE  /\ m.seq <= seq'
             /\ m.seq = seq' => m.tree = tree' \/ Unnumbered'
  <2>1. CASE Edit(e)
    BY <1>2, <2>1 DEF Good
  <2>2. CASE TakeNumber(e)
    <3>1. seq' \in Nat
      BY <2>2 DEF TakeNumber, TypeOK
    <3> QED
      BY <1>1, <1>3, <2>2, <3>1
  <2>3. CASE ReadPayload(e) \/ Send(e)
    BY <1>4, <2>3 DEF Good
  <2> QED
    BY <1>6, <2>1, <2>2, <2>3 DEF EditorStep
<1> QED
  BY <1>5, <1>6 DEF RoomStep

LEMMA JobsStep ==
  ASSUME TypeOK, RoomStep, JobsGood
  PROVE  JobsGood'
<1> SUFFICES ASSUME NEW f \in Editors
             PROVE  /\ job'[f].step = "read" => job'[f].seq <= seq'
                    /\ job'[f].step = "send" => /\ job'[f].msg.seq <= seq'
                                                /\ job'[f].msg.seq = seq' =>
                                                     job'[f].msg.tree = tree' \/ Unnumbered'
  BY DEF JobsGood, Good
<1>1. ASSUME job'[f] = job[f], seq' \in {seq, seq + 1}
      PROVE  /\ job'[f].step = "read" => job'[f].seq <= seq'
             /\ job'[f].step = "send" => /\ job'[f].msg.seq <= seq'
                                         /\ job'[f].msg.seq = seq' =>
                                              job'[f].msg.tree = tree' \/ Unnumbered'
  <2>1. job[f] \in Job
    BY DEF TypeOK
  <2>2. CASE job[f].step = "read"
    <3>1. job[f].seq \in Nat /\ job[f].seq <= seq
      BY <2>1, <2>2, JobShapes DEF JobsGood
    <3> QED
      BY <1>1, <2>2, <3>1 DEF TypeOK
  <2>3. CASE job[f].step = "send"
    <3>1. job[f].msg \in Message /\ Good(job[f].msg)
      BY <2>1, <2>3, JobShapes DEF JobsGood
    <3> QED
      BY <1>1, <2>3, <3>1, GoodStays
  <2> QED
    BY <1>1, <2>2, <2>3
<1>2. CASE UNCHANGED roomVars
  BY <1>1, <1>2 DEF roomVars
<1>3. ASSUME NEW e \in Editors, EditorStep(e), f # e
      PROVE  job'[f] = job[f] /\ seq' \in {seq, seq + 1}
  BY <1>3 DEF EditorStep, Edit, TakeNumber, ReadPayload, Send, TypeOK
<1>4. CASE EditorStep(f)
  <2>1. CASE Edit(f)
    BY <2>1 DEF Edit, TypeOK
  <2>2. CASE TakeNumber(f)
    BY <2>2 DEF TakeNumber, TypeOK
  <2>3. CASE ReadPayload(f)
    <3>1. job[f].seq <= seq
      BY <2>3 DEF ReadPayload, JobsGood
    <3>2. job'[f] = [step |-> "send", msg |-> [seq |-> job[f].seq, tree |-> tree]]
      BY <2>3 DEF ReadPayload, TypeOK
    <3>3. seq' = seq /\ tree' = tree
      BY <2>3 DEF ReadPayload
    <3> QED
      BY <3>1, <3>2, <3>3
  <2>4. CASE Send(f)
    BY <2>4 DEF Send, TypeOK, Idle
  <2> QED
    BY <1>4, <2>1, <2>2, <2>3, <2>4 DEF EditorStep
<1> QED
  BY <1>1, <1>2, <1>3, <1>4 DEF RoomStep

\* Every step is one of a handler or leaves the room alone.
LEMMA NextIsRoomStep == [Next]_vars => RoomStep
<1> SUFFICES ASSUME [Next]_vars PROVE RoomStep
  OBVIOUS
<1>1. ASSUME NEW w \in Watchers, Join(w) \/ Disconnect(w) PROVE UNCHANGED roomVars
  BY <1>1 DEF Join, Disconnect
<1>2. ASSUME NEW w \in Watchers, WatcherStep(w) PROVE UNCHANGED roomVars
  BY <1>2 DEF WatcherStep, Welcome, Subscribe, Answer, GetSnapshot,
              RefuseSnapshot, Lagged, Forward
<1>3. CASE UNCHANGED vars
  BY <1>3 DEF vars, roomVars, RoomStep
<1> QED
  BY <1>1, <1>2, <1>3 DEF Next, RoomStep

\* What is in a receiver was there before or is the message just sent.
LEMMA QueueOrigin ==
  ASSUME TypeOK, [Next]_vars, NEW w \in Watchers, NEW i \in 1..Len(queue'[w])
  PROVE  \/ \E j \in 1..Len(queue[w]) : queue'[w][i] = queue[w][j]
         \/ \E e \in Editors : job[e].step = "send" /\ queue'[w][i] = job[e].msg
<1> DEFINE Before == \E j \in 1..Len(queue[w]) : queue'[w][i] = queue[w][j]
<1>1. queue[w] \in Seq(Message)
  BY DEF TypeOK
<1>2. CASE queue'[w] = queue[w]
  BY <1>2
<1>3. ASSUME NEW e \in Editors, Send(e), queue'[w] # queue[w]
      PROVE  Before \/ (job[e].step = "send" /\ queue'[w][i] = job[e].msg)
  <2>1. queue'[w] = Push(queue[w], job[e].msg) /\ job[e].step = "send"
    BY <1>3 DEF Send
  <2>2. job[e].msg \in Message
    BY <2>1, JobShapes DEF TypeOK
  <2>3. \A k \in 1..Len(Push(queue[w], job[e].msg)) :
          \/ Push(queue[w], job[e].msg)[k] = job[e].msg
          \/ \E j \in 1..Len(queue[w]) : Push(queue[w], job[e].msg)[k] = queue[w][j]
    BY <1>1, <2>2, PushFacts
  <2> QED
    BY <2>1, <2>3
<1>4. ASSUME NEW e \in Editors, Edit(e) \/ TakeNumber(e) \/ ReadPayload(e)
      PROVE  queue' = queue
  BY <1>4 DEF Edit, TakeNumber, ReadPayload, taskVars
<1>5. ASSUME NEW v \in Watchers, Join(v) PROVE queue' = queue
  BY <1>5 DEF Join
<1>6. ASSUME NEW v \in Watchers, Disconnect(v) PROVE queue'[w] \in {queue[w], <<>>}
  BY <1>6 DEF Disconnect, TypeOK
<1>7. ASSUME NEW v \in Watchers, WatcherStep(v), ~Forward(v) PROVE queue' = queue
  BY <1>7 DEF WatcherStep, Welcome, Subscribe, Answer, GetSnapshot,
              RefuseSnapshot, Lagged, taskVars
<1>8. ASSUME NEW v \in Watchers, Forward(v) PROVE Before
  <2>1. CASE v # w
    BY <1>8, <2>1 DEF Forward, TypeOK
  <2>2. CASE v = w
    <3>1. queue'[w] = Tail(queue[w]) /\ queue[w] # <<>>
      BY <1>8, <2>2 DEF Forward, TypeOK
    <3>2. i + 1 \in 1..Len(queue[w]) /\ queue'[w][i] = queue[w][i + 1]
      BY <1>1, <3>1
    <3> QED
      BY <3>2
  <2> QED
    BY <2>1, <2>2
<1>9. queue'[w] # <<>>
  OBVIOUS
<1>10. CASE queue'[w] # queue[w]
  <2>1. \/ \E e \in Editors : Send(e)
        \/ \E v \in Watchers : Forward(v)
    BY <1>4, <1>5, <1>6, <1>7, <1>9, <1>10 DEF Next, EditorStep, vars, taskVars
  <2> QED
    BY <1>3, <1>8, <1>10, <2>1
<1> QED
  BY <1>2, <1>10

LEMMA QueuesStep ==
  ASSUME TypeOK, [Next]_vars, JobsGood, QueuesGood
  PROVE  QueuesGood'
<1> SUFFICES ASSUME NEW w \in Watchers, NEW i \in 1..Len(queue'[w])
             PROVE  /\ queue'[w][i].seq <= seq'
                    /\ queue'[w][i].seq = seq' =>
                         queue'[w][i].tree = tree' \/ Unnumbered'
  BY DEF QueuesGood, Good
<1>1. RoomStep
  BY NextIsRoomStep
<1>2. queue'[w][i] \in Message /\ Good(queue'[w][i])
  <2>1. ASSUME NEW j \in 1..Len(queue[w]), queue'[w][i] = queue[w][j]
        PROVE  queue'[w][i] \in Message /\ Good(queue'[w][i])
    <3>1. queue[w][j] \in Message
      BY DEF TypeOK
    <3> QED
      BY <2>1, <3>1 DEF QueuesGood
  <2>2. ASSUME NEW e \in Editors, job[e].step = "send", queue'[w][i] = job[e].msg
        PROVE  queue'[w][i] \in Message /\ Good(queue'[w][i])
    <3>1. job[e] \in Job
      BY DEF TypeOK
    <3>2. job[e].msg \in Message
      BY <2>2, <3>1, JobShapes
    <3>3. Good(job[e].msg)
      BY <2>2 DEF JobsGood
    <3> QED
      BY <2>2, <3>2, <3>3
  <2> QED
    BY <2>1, <2>2, QueueOrigin
<1> QED
  BY <1>1, <1>2, GoodStays

-----------------------------------------------------------------------------
(***************************************************************************)
(* What a client still has coming.                                         *)
(***************************************************************************)
\* Nothing but the room changed for w.
Untouched(w) ==
    /\ stage'[w] = stage[w] /\ snap'[w] = snap[w] /\ queue'[w] = queue[w]
    /\ up'[w] = up[w] /\ last'[w] = last[w] /\ view'[w] = view[w]
    /\ w \in lagged' <=> w \in lagged
    /\ w \in missed' <=> w \in missed

LEMMA EditorReaches ==
  ASSUME TypeOK, NEW e \in Editors, EditorStep(e), NEW w \in Watchers,
         stage'[w] # "out", w \notin missed',
         stage[w] # "out" /\ w \notin missed => Reached(w)
  PROVE  Reached(w)'
<1>1. CASE Edit(e)
  <2>1. job'[e].step = "number"
    BY <1>1 DEF Edit, TypeOK
  <2> QED
    BY <2>1 DEF Reached, Unnumbered
<1>2. CASE TakeNumber(e)
  <2>1. job'[e].step = "read" /\ job'[e].seq = seq'
    BY <1>2 DEF TakeNumber, TypeOK
  <2> QED
    BY <2>1 DEF Reached, TopPending
<1>3. CASE ReadPayload(e)
  <2>1. Untouched(w) /\ UNCHANGED <<seq, tree>>
    BY <1>3 DEF ReadPayload, Untouched, taskVars, clientVars
  <2>2. Reached(w)
    BY <2>1 DEF Untouched
  <2>3. ASSUME TopPending PROVE TopPending'
    <3> PICK f \in Editors : \/ job[f].step = "read" /\ job[f].seq = seq
                             \/ job[f].step = "send" /\ job[f].msg.seq = seq
      BY <2>3 DEF TopPending
    <3>1. CASE f = e
      <4>1. /\ job'[e].step = "send"
            /\ job'[e].msg.seq = job[e].seq
        BY <1>3 DEF ReadPayload, TypeOK
      <4> QED
        BY <1>3, <2>1, <3>1, <4>1 DEF TopPending, ReadPayload
    <3>2. CASE f # e
      <4>1. job'[f] = job[f]
        BY <1>3, <3>2 DEF ReadPayload, TypeOK
      <4> QED
        BY <2>1, <4>1 DEF TopPending
    <3> QED
      BY <3>1, <3>2
  <2> QED
    BY <1>3, <2>1, <2>2, <2>3, WaitsOn
       DEF Reached, Untouched, TopQueued, HoldsTree, ShowsTree
<1>4. CASE Send(e)
  <2>1. /\ UNCHANGED <<seq, tree, stage, snap, up, last, view>>
        /\ job[e].step = "send"
        /\ w \notin missed
        /\ ~Joining(w)
    BY <1>4 DEF Send, clientVars
  <2>2. Reached(w) /\ Subscribed(w)
    BY <2>1 DEF Joining, Subscribed, TypeOK, Stages
  <2>3. job[e].msg \in Message /\ queue[w] \in Seq(Message)
    BY <2>1, JobShapes DEF TypeOK
  <2>4. /\ queue'[w] = Push(queue[w], job[e].msg)
        /\ w \in lagged => w \in lagged'
        /\ w \in lagged' \/ Len(queue[w]) < Capacity
    <3>1. Len(queue[w]) \in Nat /\ Capacity \in Nat
      BY <2>3, SyncAssumption
    <3> QED
      BY <1>4, <2>2, <3>1 DEF Send
  <2>5. ASSUME job[e].msg.seq = seq PROVE TopQueued(w)'
    <3> DEFINE q == Push(queue[w], job[e].msg)
    <3>1. Len(q) \in 1..Len(q) /\ q[Len(q)] = job[e].msg
      BY <2>3, PushFacts
    <3> HIDE DEF q
    <3>2. queue'[w] = q
      BY <2>4 DEF q
    <3> QED
      BY <2>1, <2>5, <3>1, <3>2 DEF TopQueued
  <2>6. ASSUME TopQueued(w) PROVE TopQueued(w)' \/ w \in lagged'
    <3> SUFFICES ASSUME w \notin lagged' PROVE TopQueued(w)'
      OBVIOUS
    <3> PICK j \in 1..Len(queue[w]) : queue[w][j].seq = seq
      BY <2>6 DEF TopQueued
    <3>1. Len(queue[w]) < Capacity
      BY <2>4
    <3>2. \A k \in 1..Len(queue[w]) : \E i \in 1..Len(Push(queue[w], job[e].msg)) :
            Push(queue[w], job[e].msg)[i] = queue[w][k]
      BY <2>3, <3>1, PushFacts
    <3> PICK i \in 1..Len(Push(queue[w], job[e].msg)) :
               Push(queue[w], job[e].msg)[i] = queue[w][j]
      BY <3>2
    <3> QED
      BY <2>1, <2>4 DEF TopQueued
  <2>7. ASSUME TopPending PROVE TopPending' \/ TopQueued(w)'
    <3> PICK f \in Editors : \/ job[f].step = "read" /\ job[f].seq = seq
                             \/ job[f].step = "send" /\ job[f].msg.seq = seq
      BY <2>7 DEF TopPending
    <3>1. CASE f = e
      BY <2>1, <2>5, <3>1
    <3>2. CASE f # e
      <4>1. job'[f] = job[f]
        BY <1>4, <3>2 DEF Send, TypeOK
      <4> QED
        BY <2>1, <4>1 DEF TopPending
    <3> QED
      BY <3>1, <3>2
  <2>8. Unnumbered => Unnumbered'
    BY <1>4, WaitsOn
  <2> QED
    BY <2>1, <2>2, <2>4, <2>6, <2>7, <2>8 DEF Reached, HoldsTree, ShowsTree
<1> QED
  BY <1>1, <1>2, <1>3, <1>4 DEF EditorStep

LEMMA WatcherReaches ==
  ASSUME TypeOK, QueuesGood, NEW w \in Watchers,
         Join(w) \/ WatcherStep(w) \/ Disconnect(w),
         stage'[w] # "out", w \notin missed',
         stage[w] # "out" /\ w \notin missed => Reached(w)
  PROVE  Reached(w)'
<1>1. UNCHANGED <<tree, seq, job>>
  BY DEF Join, Disconnect, WatcherStep, Welcome, Subscribe, Answer, GetSnapshot,
         RefuseSnapshot, Lagged, Forward, roomVars
<1>2. (Unnumbered => Unnumbered') /\ (TopPending => TopPending')
  BY <1>1 DEF Unnumbered, TopPending
<1>3. CASE Join(w)
  BY <1>1, <1>3 DEF Join, TypeOK, Reached, HoldsTree
<1>4. CASE GetSnapshot(w)
  BY <1>1, <1>4 DEF GetSnapshot, ReadSnapshot, TypeOK, Reached, HoldsTree
<1>5. CASE Lagged(w)
  BY <1>1, <1>5 DEF Lagged, ReadSnapshot, TypeOK, Reached, HoldsTree
<1>6. CASE Welcome(w)
  BY <1>1, <1>2, <1>6 DEF Welcome, ApplySnapshot, SnapshotSent, TypeOK, Reached,
                          TopQueued, HoldsTree, ShowsTree
<1>7. CASE Answer(w)
  BY <1>1, <1>2, <1>7 DEF Answer, ApplySnapshot, SnapshotSent, TypeOK, Reached,
                          TopQueued, HoldsTree, ShowsTree
<1>8. CASE Subscribe(w)
  BY <1>1, <1>2, <1>8 DEF Subscribe, TypeOK, Reached, TopQueued, HoldsTree,
                          ShowsTree, clientVars
<1>9. CASE RefuseSnapshot(w)
  BY <1>9 DEF RefuseSnapshot
<1>10. CASE Disconnect(w)
  BY <1>10 DEF Disconnect, SnapshotSent, TypeOK
<1>11. CASE Forward(w)
  <2> DEFINE m == Head(queue[w])
  <2>1. /\ stage[w] = "loop" /\ stage'[w] = "loop"
        /\ w \notin missed /\ w \notin lagged
        /\ queue[w] \in Seq(Message) /\ queue[w] # <<>>
        /\ queue'[w] = Tail(queue[w])
        /\ up'[w] = IF Gap(w, m.seq) THEN up[w] + 1 ELSE up[w]
        /\ last'[w] = m.seq /\ view'[w] = m.tree
    BY <1>11 DEF Forward, TypeOK
  <2>2. Reached(w)
    BY <2>1
  <2>3. m = queue[w][1] /\ 1 \in 1..Len(queue[w]) /\ m \in Message /\ Good(m)
    BY <2>1 DEF QueuesGood
  <2>4. m.seq \in Nat /\ m.seq <= seq /\ seq \in Nat /\ up[w] \in Nat
    BY <2>3 DEF Message, Good, TypeOK
  <2>5. CASE m.seq = seq
    <3>1. m.tree = tree \/ Unnumbered
      BY <2>3, <2>5 DEF Good
    <3> QED
      BY <1>1, <1>2, <2>1, <2>5, <3>1 DEF Reached, ShowsTree
  <2>6. CASE m.seq # seq
    <3>1. ASSUME TopQueued(w) PROVE TopQueued(w)'
      <4> PICK i \in 1..Len(queue[w]) : queue[w][i].seq = seq
        BY <3>1 DEF TopQueued
      <4>1. i # 1
        BY <2>3, <2>6
      <4>2. /\ Len(Tail(queue[w])) = Len(queue[w]) - 1
            /\ \A k \in 1..(Len(queue[w]) - 1) : Tail(queue[w])[k] = queue[w][k + 1]
        BY <2>1
      <4>3. i - 1 \in 1..(Len(queue[w]) - 1) /\ (i - 1) + 1 = i
        BY <2>1, <4>1
      <4>4. i - 1 \in 1..Len(Tail(queue[w])) /\ Tail(queue[w])[i - 1] = queue[w][i]
        BY <4>2, <4>3
      <4> QED
        BY <1>1, <2>1, <4>4 DEF TopQueued, Forward
    <3>2. ASSUME up[w] > 0 PROVE up'[w] > 0
      BY <2>1, <2>4, <3>2
    <3>3. ASSUME ShowsTree(w) PROVE up'[w] > 0
      <4>1. Gap(w, m.seq)
        BY <2>4, <3>3 DEF Gap, ShowsTree
      <4> QED
        BY <2>1, <2>4, <4>1
    <3> QED
      BY <1>2, <2>1, <2>2, <3>1, <3>2, <3>3 DEF Reached, HoldsTree
  <2> QED
    BY <2>5, <2>6
<1> QED
  BY <1>3, <1>4, <1>5, <1>6, <1>7, <1>8, <1>9, <1>10, <1>11 DEF WatcherStep

LEMMA ReachingStep == SyncInv /\ [Next]_vars => Reaching'
<1> SUFFICES ASSUME SyncInv, [Next]_vars, NEW w \in Watchers,
                    stage'[w] # "out", w \notin missed'
             PROVE  Reached(w)'
  BY DEF Reaching
<1>1. /\ TypeOK /\ QueuesGood
      /\ stage[w] # "out" /\ w \notin missed => Reached(w)
  BY DEF SyncInv, Reaching
<1>2. ASSUME NEW e \in Editors, EditorStep(e) PROVE Reached(w)'
  BY <1>1, <1>2, EditorReaches
<1>3. CASE Join(w) \/ WatcherStep(w) \/ Disconnect(w)
  BY <1>1, <1>3, WatcherReaches
<1>4. ASSUME Untouched(w), UNCHANGED <<tree, seq, job>> PROVE Reached(w)'
  BY <1>1, <1>4 DEF Untouched, Reached, Unnumbered, TopPending, TopQueued,
                    HoldsTree, ShowsTree
<1>5. ASSUME NEW v \in Watchers, v # w, Join(v) \/ WatcherStep(v) \/ Disconnect(v)
      PROVE  Untouched(w) /\ UNCHANGED <<tree, seq, job>>
  <2>1. CASE Join(v)
    BY <1>1, <1>5, <2>1 DEF Join, Untouched, TypeOK, roomVars, clientVars
  <2>2. CASE Disconnect(v)
    BY <1>1, <1>5, <2>2 DEF Disconnect, SnapshotSent, Untouched, TypeOK, roomVars
  <2>3. CASE Welcome(v) \/ Answer(v)
    BY <1>1, <1>5, <2>3 DEF Welcome, Answer, ApplySnapshot, SnapshotSent,
                            Untouched, TypeOK, roomVars
  <2>4. CASE Subscribe(v)
    BY <1>1, <1>5, <2>4 DEF Subscribe, Untouched, TypeOK, roomVars, clientVars
  <2>5. CASE GetSnapshot(v)
    BY <1>1, <1>5, <2>5 DEF GetSnapshot, ReadSnapshot, Untouched, TypeOK, roomVars
  <2>6. CASE Lagged(v)
    BY <1>1, <1>5, <2>6 DEF Lagged, ReadSnapshot, Untouched, TypeOK, roomVars, clientVars
  <2>7. CASE RefuseSnapshot(v)
    BY <1>1, <1>5, <2>7 DEF RefuseSnapshot, Untouched, TypeOK, roomVars, taskVars
  <2>8. CASE Forward(v)
    BY <1>1, <1>5, <2>8 DEF Forward, Untouched, TypeOK, roomVars
  <2> QED
    BY <1>5, <2>1, <2>2, <2>3, <2>4, <2>5, <2>6, <2>7, <2>8 DEF WatcherStep
<1>6. CASE UNCHANGED vars
  BY <1>4, <1>6 DEF Untouched, vars, roomVars, taskVars, clientVars
<1> QED
  BY <1>2, <1>3, <1>4, <1>5, <1>6 DEF Next

-----------------------------------------------------------------------------
LEMMA SyncInit == Init => SyncInv
<1> SUFFICES ASSUME Init PROVE SyncInv
  OBVIOUS
<1>1. TypeOK
  BY TypeInit
<1>2. JobsGood
  BY DEF Init, JobsGood, Idle
<1>3. QueuesGood
  BY DEF Init, QueuesGood
<1>4. Reaching
  BY DEF Init, Reaching
<1> QED
  BY <1>1, <1>2, <1>3, <1>4 DEF SyncInv

LEMMA SyncStep == SyncInv /\ [Next]_vars => SyncInv'
<1> SUFFICES ASSUME SyncInv, [Next]_vars PROVE SyncInv'
  OBVIOUS
<1>1. TypeOK'
  BY TypeStep DEF SyncInv
<1>2. JobsGood'
  BY JobsStep, NextIsRoomStep DEF SyncInv
<1>3. QueuesGood'
  BY QueuesStep DEF SyncInv
<1>4. Reaching'
  BY ReachingStep
<1> QED
  BY <1>1, <1>2, <1>3, <1>4 DEF SyncInv

\* A client with nothing left to come shows the room.
LEMMA ReachedIsShown == SyncInv => Converged
<1> SUFFICES ASSUME SyncInv, NEW w \in Watchers, Settled(w), w \notin missed
             PROVE  view[w] = tree
  BY DEF Converged
<1>1. Reached(w)
  BY DEF SyncInv, Reaching, Settled
<1>2. ~Unnumbered /\ ~TopPending
  BY DEF Settled, Unnumbered, TopPending, Idle
<1>3. ~TopQueued(w)
  BY DEF Settled, TopQueued
<1> QED
  BY <1>1, <1>2, <1>3 DEF Reached, Settled, HoldsTree, ShowsTree

\* However messages, lags and snapshots of any number of handlers and clients
\* interleave, a client that has received all there is shows the room.
THEOREM ClientsConverge == Spec => []Converged
<1>1. Spec => []SyncInv
  BY SyncInit, SyncStep, PTL DEF Spec
<1> QED
  BY <1>1, ReachedIsShown, PTL
=============================================================================
