------------------------------- MODULE SeqSync -------------------------------
(***************************************************************************)
(* How a change to a room reaches the clients that show it: the numbered   *)
(* broadcasts of intents/helpers.rs, the receiver and the snapshots of a   *)
(* connection in ws.rs, and the gap check of web/src/ws/client.ts.         *)
(*                                                                         *)
(* A handler changes the room, takes the next number, reads what it will   *)
(* broadcast and sends it under four separate acquisitions of locks, so    *)
(* messages may be sent out of the order of their numbers.  A snapshot is  *)
(* read under one lock and numbered under the next, and a connection       *)
(* subscribes only after its Welcome is sent.                              *)
(*                                                                         *)
(* `tree` is the version of whatever a message carries whole: the topics   *)
(* (TopicTreeUpdated); PresenceUpdate and HandsUpdated are sent the same   *)
(* way.  Messages that carry a change computed before the number is taken  *)
(* (votes, questions, boards) are not in this module.                      *)
(* Rows and active topic are read under two locks one after the other,     *)
(* here in one step.                                                       *)
(*                                                                         *)
(* Abstracted: a client applies a frame when its connection sends it (the  *)
(* socket keeps order, and a GetSnapshot may take any time to arrive);     *)
(* the token bucket may refuse any GetSnapshot; a connection either makes  *)
(* changes or watches; an evicted or restarted room is not numbered anew;  *)
(* `view` is what the server last sent, without the client's own edits     *)
(* that the store lays over it until they are confirmed.                   *)
(***************************************************************************)
EXTENDS Integers, Sequences

CONSTANTS
    Editors,   \* connections whose handlers change the room
    Watchers,  \* connections and the browsers behind them
    Capacity,  \* BROADCAST_CAPACITY
    MaxEdits   \* bound of the model on changes

ASSUME SyncAssumption ==
    /\ Capacity \in Nat \ {0}
    /\ MaxEdits \in Nat

VARIABLES
    tree,     \* the room's state, by its version
    seq,      \* RoomInner.seq
    job,      \* what an editor's handler has yet to do
    stage,    \* where a watcher's connection task stands
    snap,     \* the snapshot the task has read and not yet sent
    queue,    \* a receiver's messages not yet forwarded
    lagged,   \* receivers that were overrun since they last received
    up,       \* GetSnapshots a client has sent and the task not yet read
    last,     \* WsClient.lastSeq
    view,     \* the version a client shows
    missed    \* history: watchers excused: a message was sent between their
              \* Welcome's snapshot and their subscription, or a GetSnapshot
              \* was refused, and no snapshot was read for them since

roomVars  == <<tree, seq, job>>
taskVars  == <<stage, snap, queue, lagged>>
clientVars == <<up, last, view>>
vars == <<roomVars, taskVars, clientVars, missed>>

Idle == [step |-> "idle"]

Message == [seq : Nat, tree : Nat]

Job ==      {Idle}
       \cup [step : {"number"}]
       \cup [step : {"read"}, seq : Nat]
       \cup [step : {"send"}, msg : Message]

Stages == {"out", "welcome", "subscribe", "loop", "answer"}

TypeOK ==
    /\ tree \in Nat
    /\ seq \in Nat
    /\ job \in [Editors -> Job]
    /\ stage \in [Watchers -> Stages]
    /\ snap \in [Watchers -> Nat]
    /\ queue \in [Watchers -> Seq(Message)]
    /\ lagged \subseteq Watchers
    /\ up \in [Watchers -> Nat]
    /\ last \in [Watchers -> Nat]
    /\ view \in [Watchers -> Nat]
    /\ missed \subseteq Watchers

Init ==
    /\ tree = 0
    /\ seq = 0
    /\ job = [e \in Editors |-> Idle]
    /\ stage = [w \in Watchers |-> "out"]
    /\ snap = [w \in Watchers |-> 0]
    /\ queue = [w \in Watchers |-> <<>>]
    /\ lagged = {}
    /\ up = [w \in Watchers |-> 0]
    /\ last = [w \in Watchers |-> 0]
    /\ view = [w \in Watchers |-> 0]
    /\ missed = {}

-----------------------------------------------------------------------------
(***************************************************************************)
(* A handler: the change, then broadcast_topic_tree.                       *)
(***************************************************************************)
Edit(e) ==
    /\ job[e] = Idle
    /\ tree < MaxEdits
    /\ tree' = tree + 1
    /\ job' = [job EXCEPT ![e] = [step |-> "number"]]
    /\ UNCHANGED <<seq, taskVars, clientVars, missed>>

\* Room::next_seq
TakeNumber(e) ==
    /\ job[e].step = "number"
    /\ seq' = seq + 1
    /\ job' = [job EXCEPT ![e] = [step |-> "read", seq |-> seq + 1]]
    /\ UNCHANGED <<tree, taskVars, clientVars, missed>>

\* room.topics()
ReadPayload(e) ==
    /\ job[e].step = "read"
    /\ job' = [job EXCEPT ![e] =
                 [step |-> "send", msg |-> [seq |-> job[e].seq, tree |-> tree]]]
    /\ UNCHANGED <<tree, seq, taskVars, clientVars, missed>>

\* The receivers there are; those of tasks that are writing an answer too.
Subscribed(w) == stage[w] \in {"loop", "answer"}

Joining(w) == stage[w] \in {"welcome", "subscribe"}

\* A receiver holds the latest Capacity messages.
Push(q, m) == Append(IF Len(q) < Capacity THEN q ELSE Tail(q), m)

\* room.broadcast.send
Send(e) ==
    /\ job[e].step = "send"
    /\ job' = [job EXCEPT ![e] = Idle]
    /\ queue' = [w \in Watchers |->
                   IF Subscribed(w) THEN Push(queue[w], job[e].msg) ELSE queue[w]]
    /\ lagged' = lagged \cup {w \in Watchers : Subscribed(w) /\ Len(queue[w]) >= Capacity}
    /\ missed' = missed \cup {w \in Watchers : Joining(w)}
    /\ UNCHANGED <<tree, seq, stage, snap, clientVars>>

-----------------------------------------------------------------------------
(***************************************************************************)
(* A connection: the end of the handshake, then the main loop.             *)
(***************************************************************************)
\* room.snapshot_for, for the Welcome.
Join(w) ==
    /\ stage[w] = "out"
    /\ stage' = [stage EXCEPT ![w] = "welcome"]
    /\ snap' = [snap EXCEPT ![w] = tree]
    /\ missed' = missed \ {w}
    /\ UNCHANGED <<roomVars, queue, lagged, clientVars>>

\* Mutant: a snapshot replaces what is shown, but not lastSeq.
ApplyContents(w) ==
    /\ last' = last
    /\ view' = [view EXCEPT ![w] = snap[w]]

\* The client's part in Welcome and RoomSnapshot: lastSeq = parsed.seq, and
\* applyWelcome replaces what it shows.
ApplySnapshot(w) ==
    /\ last' = [last EXCEPT ![w] = seq]
    /\ view' = [view EXCEPT ![w] = snap[w]]

\* The snapshot is done with.
SnapshotSent(w, next) ==
    /\ stage' = [stage EXCEPT ![w] = next]
    /\ snap' = [snap EXCEPT ![w] = 0]

\* current_seq, and the Welcome is sent.
Welcome(w) ==
    /\ stage[w] = "welcome"
    /\ ApplySnapshot(w)
    /\ SnapshotSent(w, "subscribe")
    /\ UNCHANGED <<roomVars, queue, lagged, up, missed>>

Subscribe(w) ==
    /\ stage[w] = "subscribe"
    /\ stage' = [stage EXCEPT ![w] = "loop"]
    /\ UNCHANGED <<roomVars, snap, queue, lagged, clientVars, missed>>

\* snapshot_for, in the main loop.
ReadSnapshot(w) ==
    /\ stage[w] = "loop"
    /\ stage' = [stage EXCEPT ![w] = "answer"]
    /\ snap' = [snap EXCEPT ![w] = tree]
    /\ missed' = missed \ {w}

\* Mutant: the lagged receiver's snapshot is taken for an answer.
GetSnapshotUnasked(w) ==
    /\ ReadSnapshot(w)
    /\ up' = [up EXCEPT ![w] = @ - 1]
    /\ UNCHANGED <<roomVars, queue, lagged, last, view>>

GetSnapshot(w) ==
    /\ up[w] > 0
    /\ ReadSnapshot(w)
    /\ up' = [up EXCEPT ![w] = @ - 1]
    /\ UNCHANGED <<roomVars, queue, lagged, last, view>>

\* The limiter says no; the client shows a toast and asks no more.
RefuseSnapshot(w) ==
    /\ stage[w] = "loop"
    /\ up[w] > 0
    /\ up' = [up EXCEPT ![w] = @ - 1]
    /\ missed' = missed \cup {w}
    /\ UNCHANGED <<roomVars, taskVars, last, view>>

\* RecvError::Lagged
Lagged(w) ==
    /\ w \in lagged
    /\ ReadSnapshot(w)
    /\ lagged' = lagged \ {w}
    /\ UNCHANGED <<roomVars, queue, clientVars>>

\* current_seq, and the RoomSnapshot is sent.
Answer(w) ==
    /\ stage[w] = "answer"
    /\ ApplySnapshot(w)
    /\ SnapshotSent(w, "loop")
    /\ UNCHANGED <<roomVars, queue, lagged, up, missed>>

\* Mutant: only numbers that were skipped are noticed.
SkippedOnly(w, n) == n > last[w] + 1

\* checkSeq
Gap(w, n) == n # last[w] + 1

\* rx.recv, and the client's handleMessage: checkSeq, then applyTopicTree.
Forward(w) ==
    /\ stage[w] = "loop"
    /\ w \notin lagged
    /\ queue[w] # <<>>
    /\ LET m == Head(queue[w])
       IN  /\ up' = [up EXCEPT ![w] = IF Gap(w, m.seq) THEN @ + 1 ELSE @]
           /\ last' = [last EXCEPT ![w] = m.seq]
           /\ view' = [view EXCEPT ![w] = m.tree]
    /\ queue' = [queue EXCEPT ![w] = Tail(@)]
    /\ UNCHANGED <<roomVars, stage, snap, lagged, missed>>

\* The connection ends, with what was under way in both directions; the
\* client goes on showing what it has until its next Welcome.
Disconnect(w) ==
    /\ stage[w] # "out"
    /\ SnapshotSent(w, "out")
    /\ queue' = [queue EXCEPT ![w] = <<>>]
    /\ lagged' = lagged \ {w}
    /\ up' = [up EXCEPT ![w] = 0]
    /\ UNCHANGED <<roomVars, last, view, missed>>

-----------------------------------------------------------------------------
EditorStep(e) == Edit(e) \/ TakeNumber(e) \/ ReadPayload(e) \/ Send(e)

\* What the task of a connection that stays open gets to.
WatcherStep(w) ==
    \/ Welcome(w) \/ Subscribe(w) \/ Answer(w)
    \/ GetSnapshot(w) \/ RefuseSnapshot(w) \/ Lagged(w) \/ Forward(w)

Next ==
    \/ \E e \in Editors : EditorStep(e)
    \/ \E w \in Watchers : Join(w) \/ WatcherStep(w) \/ Disconnect(w)

Spec == Init /\ [][Next]_vars

\* The handlers' steps after the change do not wait for anything, and a task
\* with a frame, a message or a lag to attend to is woken.  Nobody has to make
\* a change, to join or to leave.
Fairness ==
    /\ \A e \in Editors : WF_vars(TakeNumber(e) \/ ReadPayload(e) \/ Send(e))
    /\ \A w \in Watchers : WF_vars(WatcherStep(w))

FairSpec == Spec /\ Fairness

-----------------------------------------------------------------------------
\* Nothing is under way that could still change what w shows.
Settled(w) ==
    /\ \A e \in Editors : job[e] = Idle
    /\ stage[w] = "loop"
    /\ queue[w] = <<>>
    /\ w \notin lagged
    /\ up[w] = 0

(***************************************************************************)
(* However the messages of several handlers overtook each other, were      *)
(* overrun in the receiver or crossed with snapshots, a client that has    *)
(* received all there is shows the room, unless a message was sent while   *)
(* it was between snapshot and subscription or the limiter refused it.     *)
(***************************************************************************)
Converged == \A w \in Watchers : Settled(w) /\ w \notin missed => view[w] = tree

(***************************************************************************)
(* A client that stays connected does come to show the room: gaps noticed  *)
(* because a snapshot overtook queued messages do not go on forever.       *)
(***************************************************************************)
ComesToRest ==
    \A w \in Watchers :
        <>[](stage[w] # "out") => <>[](w \in missed \/ view[w] = tree)

(***************************************************************************)
(* protocol.md's gap detection: a client whose number is the room's has    *)
(* missed nothing.                                                         *)
(***************************************************************************)
NumberTellsAll ==
    \A w \in Watchers : Settled(w) /\ last[w] = seq => view[w] = tree
=============================================================================
