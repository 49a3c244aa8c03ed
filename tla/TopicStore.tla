----------------------------- MODULE TopicStore -----------------------------
(***************************************************************************)
(* The topics of a room together with what makes them durable: the         *)
(* channel of write operations, the single writer task that applies them   *)
(* in batches, the tables `topics` and `rooms.active_topic_id`, and the    *)
(* restart that hydrates the room from those tables.                       *)
(*                                                                         *)
(* A handler changes the room first and sends its operations afterwards,   *)
(* without a lock over both, so the order of the channel need not be the   *)
(* order of the changes.  A batch is one SQLite transaction: one operation *)
(* that breaks a foreign key rolls back the whole batch, which is logged   *)
(* and dropped.                                                            *)
(*                                                                         *)
(* The database is a module of SQLite as writer.rs and the migrations use  *)
(* it: parent_id REFERENCES topics ON DELETE CASCADE, foreign_keys = ON,   *)
(* and no foreign key on rooms.active_topic_id.                            *)
(***************************************************************************)
EXTENDS TopicTree

CONSTANTS
    MaxBatch,   \* writer::MAX_BATCH_SIZE
    MaxBacklog  \* bound of the model on operations sent and not committed:
                \* the channel itself is unbounded

ASSUME BatchAssumption == MaxBatch \in Nat \ {0, 1} /\ MaxBacklog \in Nat \ {0}

VARIABLES
    queue,   \* the mpsc channel to the writer
    batch,   \* the operations of the open transaction, <<>> when there is none
    at,      \* how many of them are applied
    work,    \* the tables as the open transaction sees them
    db       \* the committed tables

storeVars == <<queue, batch, at, work, db>>
allVars   == <<forest, active, used, pending, outbox, queue, batch, at, work, db>>

Tables == [topics : Forests, active : OptTopic]

StoreTypeOK ==
    /\ TypeOK
    /\ queue \in Seq(Op)
    /\ batch \in Seq(Op)
    /\ at \in 0..Len(batch)
    /\ work \in Tables
    /\ db \in Tables

NewTables == [topics |-> EmptyForest, active |-> NoTopic]

StoreInit ==
    /\ Init
    /\ queue = <<>>
    /\ batch = <<>>
    /\ at = 0
    /\ work = NewTables
    /\ db = NewTables

-----------------------------------------------------------------------------
(***************************************************************************)
(* One operation on the tables.                                            *)
(***************************************************************************)
\* The foreign key of parent_id is checked statement by statement; a bulk
\* upsert is one INSERT per row, parents first.
Accepts(tables, op) ==
    LET present == DOMAIN tables.topics IN
    CASE op.kind = "upsert" ->
            \A i \in DOMAIN op.rows :
                op.rows[i].topic.parent \in
                    present \cup {op.rows[j].id : j \in 1..(i - 1)} \cup {NoTopic}
      [] op.kind = "move" ->
            op.id \in present => op.parent \in present \cup {NoTopic}
      [] OTHER -> TRUE

\* Mutant: without PRAGMA foreign_keys a delete does not cascade.
TopicsAfterNoCascade(topics, op) ==
    CASE op.kind = "upsert" -> WithRows(topics, op.rows)
      [] op.kind = "delete" -> Without(topics, {op.id})
      [] OTHER -> topics

\* UPDATE and DELETE of a row that is not there change nothing.
TopicsAfter(topics, op) ==
    CASE op.kind = "upsert" -> WithRows(topics, op.rows)
      [] op.kind = "rename" /\ op.id \in DOMAIN topics -> Retitled(topics, op.id, op.title)
      [] op.kind = "move"   /\ op.id \in DOMAIN topics -> Moved(topics, op.id, op.parent)
      [] op.kind = "status" -> Marked(topics, op.id, op.status)
      [] op.kind = "delete" /\ op.id \in DOMAIN topics -> Without(topics, Subtree(topics, op.id))
      [] OTHER -> topics

Apply(tables, op) ==
    [topics |-> TopicsAfter(tables.topics, op),
     active |-> IF op.kind = "active" THEN op.id ELSE tables.active]

-----------------------------------------------------------------------------
RoomStep(h) == Handle(h) /\ UNCHANGED storeVars

Enqueue(h) ==
    /\ Len(batch) + Len(queue) < MaxBacklog
    /\ SendOp(h)
    /\ queue' = Append(queue, Head(outbox[h]))
    /\ UNCHANGED <<batch, at, work, db>>

\* Mutant: what try_recv returns is not pushed onto the batch.
TakeFirstOnly ==
    /\ batch = <<>>
    /\ queue # <<>>
    /\ batch' = <<Head(queue)>>
    /\ queue' = SubSeq(queue, MaxBatch + 1, Len(queue))
    /\ at' = 0
    /\ work' = db
    /\ UNCHANGED <<vars, db>>

\* recv() of the first operation and try_recv() until the channel is empty
\* or the batch is full; the transaction begins.
TakeBatch ==
    /\ batch = <<>>
    /\ queue # <<>>
    /\ LET n == Min({Len(queue), MaxBatch})
       IN  /\ batch' = SubSeq(queue, 1, n)
           /\ queue' = SubSeq(queue, n + 1, Len(queue))
    /\ at' = 0
    /\ work' = db
    /\ UNCHANGED <<vars, db>>

ApplyOp ==
    /\ at < Len(batch)
    /\ Accepts(work, batch[at + 1])
    /\ work' = Apply(work, batch[at + 1])
    /\ at' = at + 1
    /\ UNCHANGED <<vars, queue, batch, db>>

\* Mutant: the next batch starts where the last one ended.
EndBatchMidway(tables) ==
    /\ batch' = <<>>
    /\ work' = tables
    /\ db' = tables
    /\ UNCHANGED <<vars, queue, at>>

EndBatch(tables) ==
    /\ batch' = <<>>
    /\ at' = 0
    /\ work' = tables
    /\ db' = tables
    /\ UNCHANGED <<vars, queue>>

\* An error leaves apply_batch_sync by `?`: the transaction is dropped, which
\* rolls it back, and with it the operations before and after the failing one.
AbortBatch ==
    /\ at < Len(batch)
    /\ ~Accepts(work, batch[at + 1])
    /\ EndBatch(db)

CommitBatch ==
    /\ batch # <<>>
    /\ at = Len(batch)
    /\ EndBatch(work)

Writer == TakeBatch \/ ApplyOp \/ AbortBatch \/ CommitBatch

\* The process dies, is started again, and the first connection to the room
\* hydrates it.  Nothing writes to the database in between.
Restart ==
    /\ forest' = db.topics
    /\ active' = db.active
    /\ pending' = [h \in Hosts |-> Idle]
    /\ outbox' = [h \in Hosts |-> <<>>]
    /\ queue' = <<>>
    /\ batch' = <<>>
    /\ at' = 0
    /\ work' = db
    /\ UNCHANGED <<used, db>>

StoreNext ==
    \/ \E h \in Hosts : RoomStep(h) \/ Enqueue(h)
    \/ Writer
    \/ Restart

StoreSpec == StoreInit /\ [][StoreNext]_allVars

\* Tokio runs every task that is ready: a handler that has applied its change
\* gets to its enqueue_write, and the writer task to its next operation.
\* Hosts need not send anything, and no crash is due.
Fairness ==
    /\ \A h \in Hosts : WF_allVars(Enqueue(h))
    /\ WF_allVars(Writer)

FairStoreSpec == StoreSpec /\ Fairness

-----------------------------------------------------------------------------
(***************************************************************************)
(* Properties.                                                             *)
(***************************************************************************)
\* An active id whose topic is gone is drawn as no active topic.
View(tables) ==
    [topics |-> tables.topics,
     active |-> IF tables.active \in DOMAIN tables.topics THEN tables.active
                                                         ELSE NoTopic]

RoomView == View([topics |-> forest, active |-> active])

\* With one host connection: the operations the database has yet to see.
Backlog ==
    LET h == CHOOSE h \in Hosts : TRUE IN batch \o queue \o outbox[h]

\* The tables after the first n of ops, for each n.
Replay(tables, ops) ==
    LET after[n \in 0..Len(ops)] ==
            IF n = 0 THEN tables ELSE Apply(after[n - 1], ops[n])
    IN  after

\* The tables on their way to what the room is.
Ahead == Replay(db, Backlog)

\* What is on its way to the database turns the committed tables into the
\* room: no handler forgets, repeats or reorders an operation.  Holds when
\* one connection restructures the room at a time.
ReplayReachesRoom == View(Ahead[Len(Backlog)]) = RoomView

\* No operation of a batch fails, so none takes the others down with it; the
\* handlers' checks of the parent are there for that
\* (tests/ws_topics.rs, add_topic_with_unknown_parent_rejects_before_mutate).
BatchesCommit == at < Len(batch) => Accepts(work, batch[at + 1])

\* The rows a restart would load form a forest: load_topics takes them as
\* they are, and the walks over a loaded cycle would not return.
StoredAcyclic == Acyclic(db.topics)

\* The foreign key of topics.parent_id.
StoredParentsExist ==
    \A t \in DOMAIN db.topics : db.topics[t].parent \in DOMAIN db.topics \cup {NoTopic}

\* After a restart the room is in a state it was in before the crash, later
\* than or equal to the last one written.
WB == INSTANCE WriteBehind
        WITH room <- RoomView,
             disk <- View(db),
             lag  <- [n \in 1..Len(Backlog) |-> View(Ahead[n])]
ImplementsWriteBehind == WB!Spec

\* A topic that stays in the room gets into the database and stays there.
TopicsReachDisk ==
    \A t \in Topics : <>[](t \in DOMAIN forest) => <>[](t \in DOMAIN db.topics)

=============================================================================
