-------------------------- MODULE TopicStoreProofs --------------------------
(***************************************************************************)
(* For any number of host connections, any batch size, and whatever order  *)
(* the operations of the handlers reach the writer in: the types of the    *)
(* room, the channel and the tables, and the foreign key of the rows.      *)
(*                                                                         *)
(* The committed rows alone are not inductive: a commit replaces them by   *)
(* the rows of the open transaction, which have to have the same property  *)
(* after each of its operations.  Nothing of the room is needed: after a   *)
(* reordered channel the tables may be in a state the room never was in.   *)
(*                                                                         *)
(* For one host connection: no batch is aborted, what is on its way to the *)
(* tables makes them the room, and the store implements WriteBehind.       *)
(***************************************************************************)
EXTENDS TopicStore, TopicTreeProofs, SequenceTheorems

\* Every row names a row of the same table as its parent, or none.
ParentsExist(f) == \A t \in DOMAIN f : f[t].parent \in DOMAIN f \cup {NoTopic}

Sound(tables) == tables \in Tables /\ ParentsExist(tables.topics)

StoreInv == StoreTypeOK /\ Sound(work) /\ Sound(db)

-----------------------------------------------------------------------------
(***************************************************************************)
(* The room: its types are kept by every step of a handler, even when the  *)
(* room has been loaded from tables that a lost batch left behind.         *)
(***************************************************************************)
LEMMA TypedFinish ==
    ASSUME TypeOK, NEW h \in Hosts, NEW ops \in Seq(Op), Finish(h, ops),
           used' \subseteq Topics, active' \in OptTopic, forest' \in Forests
    PROVE  TypeOK'
  BY FinishType DEF TypeOK

LEMMA TypedInsert ==
    ASSUME TypeOK, NEW h \in Hosts, NEW rows \in Seq(Row), Insert(h, rows)
    PROVE  TypeOK'
  <1>1. forest' \in Forests /\ RowIds(rows) \subseteq Topics
    BY WithRowsType DEF TypeOK, Insert
  <1>2. <<[kind |-> "upsert", rows |-> rows]>> \in Seq(Op)
    BY OpIntro
  <1>3. /\ Finish(h, <<[kind |-> "upsert", rows |-> rows]>>)
        /\ used' \subseteq Topics
        /\ active' \in OptTopic
    BY <1>1 DEF TypeOK, Insert
  <1>4. QED
    BY <1>1, <1>2, <1>3, TypedFinish

LEMMA OneRowType ==
    ASSUME NEW id \in Topics, NEW p \in OptTopic, NEW ti \in Titles
    PROVE  <<[id |-> id, topic |-> [parent |-> p, title |-> ti,
                                    status |-> "pending"]]>> \in Seq(Row)
  <1>1. [parent |-> p, title |-> ti, status |-> "pending"] \in Topic
    BY DEF Topic, Statuses
  <1>2. QED
    BY <1>1 DEF Row

LEMMA FlatRowsType ==
    ASSUME NEW p \in OptTopic, NEW shape \in Shapes,
           NEW ids \in [1..Len(shape) -> Topics],
           NEW ti \in Titles, NEW st \in Statuses
    PROVE  FlatRows(ids, p, shape, ti, st) \in Seq(Row)
  <1> DEFINE rows == FlatRows(ids, p, shape, ti, st)
  <1>1. /\ shape \in Seq(Nat)
        /\ \A i \in 1..Len(shape) : shape[i] \in Nat /\ shape[i] < i
    BY ShapesAssumption
  <1>2. \A i \in 1..Len(shape) : shape[i] # 0 => shape[i] \in 1..Len(shape)
    BY <1>1
  <1>3. /\ DOMAIN rows = 1..Len(shape)
        /\ \A i \in 1..Len(shape) : rows[i] \in Row
    BY <1>2 DEF FlatRows, Row, Topic, OptTopic
  <1>4. QED
    BY <1>1, <1>3 DEF FlatRows

LEMMA HandleType ==
    ASSUME TypeOK, NEW h \in Hosts, Handle(h)
    PROVE  TypeOK'
  <1>1. /\ forest \in Forests
        /\ DOMAIN forest \subseteq Topics
        /\ active \in OptTopic
        /\ used \subseteq Topics
        /\ pending[h] \in Request
    BY ForestElim DEF TypeOK
  <1>2. CASE AddChecked(h)
    <2>1. PICK p \in OptTopic : Carry(h, [kind |-> "add", parent |-> p])
      BY <1>2 DEF AddChecked
    <2>2. QED
      BY <2>1, CarryType, RequestIntro
  <1>3. CASE AddApplied(h)
    <2> DEFINE p == pending[h].parent
    <2>1. p \in OptTopic
      BY <1>1, <1>3, RequestElim DEF AddApplied
    <2>2. PICK id \in Topics \ used, ti \in Titles :
              Insert(h, <<[id |-> id, topic |-> [parent |-> p, title |-> ti,
                                                 status |-> "pending"]]>>)
      BY <1>3 DEF AddApplied
    <2>3. QED
      BY <2>1, <2>2, OneRowType, TypedInsert
  <1>4. CASE ImportChecked(h)
    <2>1. PICK p \in OptTopic, shape \in Shapes :
              Carry(h, [kind |-> "import", parent |-> p, shape |-> shape])
      BY <1>4 DEF ImportChecked
    <2>2. QED
      BY <2>1, CarryType, RequestIntro
  <1>5. CASE ImportApplied(h)
    <2> DEFINE p     == pending[h].parent
               shape == pending[h].shape
    <2>1. p \in OptTopic /\ shape \in Shapes
      BY <1>1, <1>5, RequestElim DEF ImportApplied
    <2>2. PICK ids \in [1..Len(shape) -> Topics \ used], ti \in Titles, st \in Statuses :
              Insert(h, FlatRows(ids, p, shape, ti, st))
      BY <1>5 DEF ImportApplied
    <2>3. ids \in [1..Len(shape) -> Topics]
      OBVIOUS
    <2>4. FlatRows(ids, p, shape, ti, st) \in Seq(Row)
      BY <2>1, <2>3, FlatRowsType
    <2>5. QED
      BY <2>2, <2>4, TypedInsert
  <1>6. CASE MoveChecked(h)
    <2>1. PICK id \in used, p \in OptTopic :
              Carry(h, [kind |-> "move", id |-> id, parent |-> p])
      BY <1>6 DEF MoveChecked
    <2>2. QED
      BY <1>1, <2>1, CarryType, RequestIntro
  <1>7. CASE MoveApplied(h)
    <2> DEFINE id == pending[h].id
               p  == pending[h].parent
               op == [kind |-> "move", id |-> id, parent |-> p]
    <2>1. /\ id \in DOMAIN forest /\ id \in Topics /\ p \in OptTopic
          /\ forest' = Moved(forest, id, p)
          /\ UNCHANGED <<active, used>>
          /\ Finish(h, <<op>>)
      BY <1>1, <1>7, RequestElim DEF MoveApplied
    <2>2. <<op>> \in Seq(Op)
      BY <2>1, OpIntro
    <2>3. forest' \in Forests
      BY <1>1, <2>1, MovedType
    <2>4. QED
      BY <1>1, <2>1, <2>2, <2>3, TypedFinish
  <1>8. CASE MoveRefused(h)
    BY <1>8, CarryType, RequestIntro DEF MoveRefused
  <1>9. CASE SetActiveRead(h)
    <2>1. PICK new \in used \cup {NoTopic} :
              Carry(h, [kind |-> "setActive", id |-> new, prev |-> active])
      BY <1>9 DEF SetActiveRead
    <2>2. new \in OptTopic
      BY <1>1 DEF OptTopic
    <2>3. QED
      BY <1>1, <2>1, <2>2, CarryType, RequestIntro
  <1>10. CASE SetActiveApplied(h)
    <2> DEFINE new  == pending[h].id
               prev == pending[h].prev
               done == [kind |-> "status", id |-> prev, status |-> "done"]
               act  == [kind |-> "active", id |-> new]
               ops  == IF prev # NoTopic /\ prev # new THEN <<done, act>> ELSE <<act>>
    <2>1. /\ forest' = IF active # new THEN Marked(forest, active, "done") ELSE forest
          /\ active' = new
          /\ used' = used
          /\ Finish(h, ops)
          /\ new \in OptTopic /\ prev \in OptTopic
      BY <1>1, <1>10, RequestElim DEF SetActiveApplied
    <2>2. act \in Op
      BY <2>1, OpIntro
    <2>3. prev # NoTopic => done \in Op
      BY <2>1, OpIntro DEF OptTopic, Statuses
    <2>4. ops \in Seq(Op)
      BY <2>2, <2>3
    <2>5. forest' \in Forests
      BY <1>1, <2>1, MarkedType DEF Statuses
    <2>6. QED
      BY <1>1, <2>1, <2>4, <2>5, TypedFinish
  <1>11. CASE RenameTopic(h)
    <2>1. PICK id \in DOMAIN forest, ti \in Titles :
              /\ forest' = Retitled(forest, id, ti)
              /\ Finish(h, <<[kind |-> "rename", id |-> id, title |-> ti]>>)
      BY <1>11 DEF RenameTopic
    <2>2. <<[kind |-> "rename", id |-> id, title |-> ti]>> \in Seq(Op)
      BY <1>1, OpIntro
    <2>3. forest' \in Forests /\ UNCHANGED <<active, used>>
      BY <1>1, <1>11, <2>1, RetitledType DEF RenameTopic
    <2>4. QED
      BY <1>1, <2>1, <2>2, <2>3, TypedFinish
  <1>12. CASE MarkTopicDone(h)
    <2>1. PICK id \in DOMAIN forest, st \in Statuses :
              /\ forest' = Marked(forest, id, st)
              /\ Finish(h, <<[kind |-> "status", id |-> id, status |-> st]>>)
      BY <1>12 DEF MarkTopicDone
    <2>2. <<[kind |-> "status", id |-> id, status |-> st]>> \in Seq(Op)
      BY <1>1, OpIntro
    <2>3. forest' \in Forests /\ UNCHANGED <<active, used>>
      BY <1>1, <1>12, <2>1, MarkedType DEF MarkTopicDone
    <2>4. QED
      BY <1>1, <2>1, <2>2, <2>3, TypedFinish
  <1>13. CASE DeleteTopic(h)
    <2>1. PICK id \in DOMAIN forest :
              /\ forest' = Without(forest, Subtree(forest, id))
              /\ active' = IF active \in Subtree(forest, id) THEN NoTopic ELSE active
              /\ Finish(h, <<[kind |-> "delete", id |-> id]>>)
      BY <1>13 DEF DeleteTopic
    <2>2. <<[kind |-> "delete", id |-> id]>> \in Seq(Op)
      BY <1>1, OpIntro
    <2>3. forest' \in Forests
      BY <1>1, <2>1, WithoutType
    <2>4. active' \in OptTopic /\ used' = used
      BY <1>1, <1>13, <2>1 DEF DeleteTopic, OptTopic
    <2>5. QED
      BY <1>1, <2>1, <2>2, <2>3, <2>4, TypedFinish
  <1>14. CASE PromoteQuestion(h)
    <2>1. PICK p \in used \cup {NoTopic}, id \in Topics \ used, ti \in Titles :
              Insert(h, <<[id |-> id, topic |-> [parent |-> p, title |-> ti,
                                                 status |-> "pending"]]>>)
      BY <1>14 DEF PromoteQuestion
    <2>2. p \in OptTopic
      BY <1>1 DEF OptTopic
    <2>3. QED
      BY <2>1, <2>2, OneRowType, TypedInsert
  <1>15. QED
    BY <1>2, <1>3, <1>4, <1>5, <1>6, <1>7, <1>8, <1>9, <1>10, <1>11, <1>12,
       <1>13, <1>14 DEF Handle
-----------------------------------------------------------------------------
(***************************************************************************)
(* The tables: one operation keeps the foreign key of parent_id.           *)
(***************************************************************************)
LEMMA OpElim ==
    ASSUME NEW op \in Op
    PROVE  /\ op.kind = "upsert" => op.rows \in Seq(Row)
           /\ op.kind = "rename" => op.id \in Topics /\ op.title \in Titles
           /\ op.kind = "move" => op.id \in Topics /\ op.parent \in OptTopic
           /\ op.kind = "status" => op.id \in Topics /\ op.status \in Statuses
           /\ op.kind = "delete" => op.id \in Topics
           /\ op.kind = "active" => op.id \in OptTopic
  BY DEF Op

\* An upsert: a new row has its parent among the rows before it or in the table.
LEMMA UpsertKeeps ==
    ASSUME NEW f \in Forests, ParentsExist(f), NEW rows \in Seq(Row),
           \A i \in DOMAIN rows :
              rows[i].topic.parent \in
                  DOMAIN f \cup {rows[j].id : j \in 1..(i - 1)} \cup {NoTopic}
    PROVE  WithRows(f, rows) \in Forests /\ ParentsExist(WithRows(f, rows))
  <1> DEFINE g == WithRows(f, rows)
  <1>1. g \in Forests /\ DOMAIN g = DOMAIN f \cup RowIds(rows)
    BY WithRowsType
  <1>2. ASSUME NEW t \in DOMAIN g
        PROVE  g[t].parent \in DOMAIN g \cup {NoTopic}
    <2>1. CASE t \in RowIds(rows)
      <3> DEFINE k == CHOOSE i \in DOMAIN rows : rows[i].id = t
      <3>1. k \in DOMAIN rows
        BY <2>1 DEF RowIds
      <3>2. g[t] = rows[k].topic
        BY <1>1, <1>2, <2>1 DEF WithRows
      <3>3. \A j \in 1..(k - 1) : j \in DOMAIN rows
        BY <3>1
      <3>4. {rows[j].id : j \in 1..(k - 1)} \subseteq RowIds(rows)
        BY <3>3 DEF RowIds
      <3> HIDE DEF k
      <3>5. QED
        BY <1>1, <3>1, <3>2, <3>4
    <2>2. CASE t \notin RowIds(rows)
      <3>1. t \in DOMAIN f /\ g[t] = f[t]
        BY <1>1, <1>2, <2>2 DEF WithRows
      <3>2. QED
        BY <1>1, <3>1 DEF ParentsExist
    <2>3. QED
      BY <2>1, <2>2
  <1>3. QED
    BY <1>1, <1>2 DEF ParentsExist

\* A delete takes every row below the deleted one, so none names it.
LEMMA CascadeKeeps ==
    ASSUME NEW f \in Forests, ParentsExist(f), NEW id \in Topics
    PROVE  /\ Without(f, Subtree(f, id)) \in Forests
           /\ ParentsExist(Without(f, Subtree(f, id)))
  <1> DEFINE R == Subtree(f, id)
             g == Without(f, R)
  <1>1. /\ g \in Forests
        /\ DOMAIN g = DOMAIN f \ R
        /\ \A t \in DOMAIN f \ R : g[t] = f[t]
    BY WithoutType
  <1>2. ASSUME NEW t \in DOMAIN f, t \notin R
        PROVE  f[t].parent \in (DOMAIN f \ R) \cup {NoTopic}
    <2>1. ParentOf(f, t) \notin R
      BY <1>2, SubtreeClosed
    <2>2. QED
      BY <1>2, <2>1 DEF ParentOf, ParentsExist
  <1>3. QED
    BY <1>1, <1>2 DEF ParentsExist

LEMMA MovedKeepsParents ==
    ASSUME NEW f \in Forests, ParentsExist(f), NEW id \in DOMAIN f,
           NEW p \in OptTopic, p \in DOMAIN f \cup {NoTopic}
    PROVE  Moved(f, id, p) \in Forests /\ ParentsExist(Moved(f, id, p))
  <1> DEFINE g == Moved(f, id, p)
  <1>1. /\ g \in Forests
        /\ DOMAIN g = DOMAIN f
        /\ \A x \in DOMAIN f : g[x].parent = IF x = id THEN p ELSE f[x].parent
    BY MovedType
  <1> HIDE DEF g
  <1>2. QED
    BY <1>1 DEF ParentsExist, g

LEMMA SameParentsExist ==
    ASSUME NEW f \in Forests, ParentsExist(f), NEW g \in Forests,
           DOMAIN g = DOMAIN f, \A t : ParentOf(g, t) = ParentOf(f, t)
    PROVE  ParentsExist(g)
  BY DEF ParentsExist, ParentOf

LEMMA TopicsKeep ==
    ASSUME NEW tables, Sound(tables), NEW op \in Op, Accepts(tables, op)
    PROVE  /\ TopicsAfter(tables.topics, op) \in Forests
           /\ ParentsExist(TopicsAfter(tables.topics, op))
  <1> DEFINE f == tables.topics
             g == TopicsAfter(f, op)
  <1>1. f \in Forests /\ ParentsExist(f) /\ DOMAIN f \subseteq Topics
    BY ForestElim DEF Sound, Tables
  <1>2. CASE op.kind = "upsert"
    <2>1. \A i \in DOMAIN op.rows :
              op.rows[i].topic.parent \in
                  DOMAIN f \cup {op.rows[j].id : j \in 1..(i - 1)} \cup {NoTopic}
      BY <1>2 DEF Accepts
    <2>2. op.rows \in Seq(Row)
      BY <1>2, OpElim
    <2>3. g = WithRows(f, op.rows)
      BY <1>2 DEF TopicsAfter
    <2>4. QED
      BY <1>1, <2>1, <2>2, <2>3, UpsertKeeps
  <1>3. CASE op.kind = "rename" /\ op.id \in DOMAIN f
    <2>1. g = Retitled(f, op.id, op.title) /\ op.title \in Titles
      BY <1>3, OpElim DEF TopicsAfter
    <2>2. QED
      BY <1>1, <1>3, <2>1, RetitledType, SameParentsExist
  <1>4. CASE op.kind = "move" /\ op.id \in DOMAIN f
    <2>1. g = Moved(f, op.id, op.parent) /\ op.parent \in OptTopic
      BY <1>4, OpElim DEF TopicsAfter
    <2>2. op.parent \in DOMAIN f \cup {NoTopic}
      BY <1>4 DEF Accepts
    <2>3. QED
      BY <1>1, <1>4, <2>1, <2>2, MovedKeepsParents
  <1>5. CASE op.kind = "status"
    <2>1. g = Marked(f, op.id, op.status) /\ op.status \in Statuses
      BY <1>5, OpElim DEF TopicsAfter
    <2>2. QED
      BY <1>1, <2>1, MarkedType, SameParentsExist
  <1>6. CASE op.kind = "delete" /\ op.id \in DOMAIN f
    <2>1. g = Without(f, Subtree(f, op.id))
      BY <1>6 DEF TopicsAfter
    <2>2. QED
      BY <1>1, <1>6, <2>1, CascadeKeeps
  <1>7. CASE /\ op.kind \notin {"upsert", "status"}
             /\ op.kind \in {"rename", "move", "delete"} => op.id \notin DOMAIN f
    <2>1. g = f
      BY <1>7 DEF TopicsAfter
    <2>2. QED
      BY <1>1, <2>1
  <1>8. QED
    BY <1>2, <1>3, <1>4, <1>5, <1>6, <1>7

LEMMA ApplySound ==
    ASSUME NEW tables, Sound(tables), NEW op \in Op, Accepts(tables, op)
    PROVE  Sound(Apply(tables, op))
  <1>1. /\ TopicsAfter(tables.topics, op) \in Forests
        /\ ParentsExist(TopicsAfter(tables.topics, op))
    BY TopicsKeep
  <1>2. (IF op.kind = "active" THEN op.id ELSE tables.active) \in OptTopic
    BY OpElim DEF Sound, Tables
  <1>3. QED
    BY <1>1, <1>2 DEF Apply, Sound, Tables
-----------------------------------------------------------------------------
(***************************************************************************)
(* The invariant.                                                          *)
(***************************************************************************)
LEMMA StoreInitInv == StoreInit => StoreInv
  <1> SUFFICES ASSUME StoreInit PROVE StoreInv
    OBVIOUS
  <1>1. TypeOK
    BY InitInv DEF StoreInit, IInv
  <1>2. EmptyForest \in Forests /\ DOMAIN EmptyForest = {}
    BY <1>1 DEF StoreInit, Init, TypeOK, EmptyForest
  <1>3. NewTables \in Tables /\ ParentsExist(NewTables.topics)
    BY <1>2 DEF NewTables, Tables, OptTopic, ParentsExist
  <1>4. QED
    BY <1>1, <1>3 DEF StoreInit, StoreInv, StoreTypeOK, Sound

LEMMA EndBatchKeeps ==
    ASSUME StoreInv, NEW tables, Sound(tables), EndBatch(tables)
    PROVE  StoreInv'
  BY DEF StoreInv, StoreTypeOK, TypeOK, Sound, EndBatch, vars

LEMMA TakeBatchKeeps ==
    ASSUME StoreInv, TakeBatch
    PROVE  StoreInv'
  <1> DEFINE n == Min({Len(queue), MaxBatch})
  <1>1. queue \in Seq(Op) /\ Len(queue) \in Nat /\ MaxBatch \in Nat
    BY BatchAssumption DEF StoreInv, StoreTypeOK
  <1>2. n \in 0..Len(queue)
    <2>1. \E x \in {Len(queue), MaxBatch} : \A y \in {Len(queue), MaxBatch} : x <= y
      BY <1>1
    <2>2. /\ n \in {Len(queue), MaxBatch}
          /\ \A y \in {Len(queue), MaxBatch} : n <= y
      BY <2>1 DEF Min
    <2>3. QED
      BY <1>1, <2>2
  <1>3. /\ batch' = SubSeq(queue, 1, n)
        /\ queue' = SubSeq(queue, n + 1, Len(queue))
        /\ at' = 0
        /\ work' = db
        /\ db' = db
        /\ UNCHANGED vars
    BY DEF TakeBatch
  <1> HIDE DEF n
  <1>4. batch' \in Seq(Op) /\ queue' \in Seq(Op)
    BY <1>1, <1>2, <1>3
  <1>5. at' \in 0..Len(batch')
    BY <1>3, <1>4
  <1>6. TypeOK' /\ Sound(db)' /\ Sound(work)'
    BY <1>3 DEF StoreInv, StoreTypeOK, TypeOK, Sound, vars
  <1>7. QED
    BY <1>4, <1>5, <1>6 DEF StoreInv, StoreTypeOK, Sound

LEMMA ApplyOpKeeps ==
    ASSUME StoreInv, ApplyOp
    PROVE  StoreInv'
  <1>1. /\ batch \in Seq(Op)
        /\ at \in 0..Len(batch)
        /\ at < Len(batch)
    BY DEF StoreInv, StoreTypeOK, ApplyOp
  <1>2. batch[at + 1] \in Op /\ at + 1 \in 0..Len(batch)
    BY <1>1
  <1>3. Sound(Apply(work, batch[at + 1]))
    BY <1>2, ApplySound DEF StoreInv, ApplyOp
  <1>4. /\ work' = Apply(work, batch[at + 1])
        /\ at' = at + 1
        /\ UNCHANGED <<queue, batch, db>>
        /\ UNCHANGED vars
    BY DEF ApplyOp
  <1>5. TypeOK'
    BY <1>4 DEF StoreInv, StoreTypeOK, TypeOK, vars
  <1>6. Sound(work)' /\ Sound(db)'
    BY <1>3, <1>4 DEF StoreInv, Sound
  <1>7. QED
    BY <1>2, <1>4, <1>5, <1>6 DEF StoreInv, StoreTypeOK, Sound

LEMMA EnqueueKeeps ==
    ASSUME StoreInv, NEW h \in Hosts, Enqueue(h)
    PROVE  StoreInv'
  <1>1. TypeOK /\ queue \in Seq(Op) /\ outbox[h] \in Seq(Op) /\ outbox[h] # <<>>
    BY DEF StoreInv, StoreTypeOK, TypeOK, Enqueue, SendOp
  <1>2. Head(outbox[h]) \in Op /\ Tail(outbox[h]) \in Seq(Op)
    BY <1>1
  <1>3. queue' \in Seq(Op)
    BY <1>1, <1>2 DEF Enqueue
  <1>4. outbox' \in [Hosts -> Seq(Op)]
    BY <1>1, <1>2 DEF TypeOK, Enqueue, SendOp
  <1>5. TypeOK'
    BY <1>1, <1>4 DEF TypeOK, Enqueue, SendOp
  <1>6. QED
    BY <1>3, <1>5 DEF StoreInv, StoreTypeOK, Sound, Enqueue

LEMMA RestartKeeps ==
    ASSUME StoreInv, Restart
    PROVE  StoreInv'
  <1>1. db \in Tables /\ db.topics \in Forests /\ db.active \in OptTopic
    BY DEF StoreInv, Sound, Tables
  <1>2. TypeOK'
    BY <1>1, RequestIntro DEF StoreInv, StoreTypeOK, TypeOK, Restart
  <1>3. QED
    BY <1>2 DEF StoreInv, StoreTypeOK, Sound, Restart

LEMMA StoreNextInv == StoreInv /\ [StoreNext]_allVars => StoreInv'
  <1> SUFFICES ASSUME StoreInv, [StoreNext]_allVars PROVE StoreInv'
    OBVIOUS
  <1>1. ASSUME NEW h \in Hosts, RoomStep(h) PROVE StoreInv'
    <2>1. TypeOK'
      BY <1>1, HandleType DEF StoreInv, StoreTypeOK, RoomStep
    <2>2. QED
      BY <1>1, <2>1 DEF StoreInv, StoreTypeOK, Sound, RoomStep, storeVars
  <1>2. ASSUME NEW h \in Hosts, Enqueue(h) PROVE StoreInv'
    BY <1>2, EnqueueKeeps
  <1>3. CASE TakeBatch
    BY <1>3, TakeBatchKeeps
  <1>4. CASE ApplyOp
    BY <1>4, ApplyOpKeeps
  <1>5. CASE AbortBatch
    BY <1>5, EndBatchKeeps DEF AbortBatch, StoreInv
  <1>6. CASE CommitBatch
    BY <1>6, EndBatchKeeps DEF CommitBatch, StoreInv
  <1>7. CASE Restart
    BY <1>7, RestartKeeps
  <1>8. CASE UNCHANGED allVars
    BY <1>8 DEF allVars, StoreInv, StoreTypeOK, TypeOK, Sound
  <1>9. QED
    BY <1>1, <1>2, <1>3, <1>4, <1>5, <1>6, <1>7, <1>8 DEF StoreNext, Writer

LEMMA StoreInvariance == StoreSpec => []StoreInv
  BY StoreInitInv, StoreNextInv, PTL DEF StoreSpec

\* The types of the room, of the writer's channel and batch, and of the tables.
THEOREM StoreTypeCorrect == StoreSpec => []StoreTypeOK
  <1>1. StoreInv => StoreTypeOK
    BY DEF StoreInv
  <1>2. QED
    BY <1>1, StoreInvariance, PTL

\* However many hosts restructure the room, in whatever order their operations
\* reach the writer, and whichever batches are rolled back or lost in a crash,
\* the rows a restart loads name only rows of the table as their parents: a
\* bulk upsert comes parents first, and a delete takes the rows below.
THEOREM ParentsStored == StoreSpec => []StoredParentsExist
  <1>1. StoreInv => StoredParentsExist
    BY DEF StoreInv, Sound, ParentsExist, StoredParentsExist
  <1>2. QED
    BY <1>1, StoreInvariance, PTL
-----------------------------------------------------------------------------
(***************************************************************************)
(* One host connection: the channel carries the operations in the order of *)
(* the changes.  The invariant follows the tables from what is committed,  *)
(* over what the open transaction has made of them, to what the room is.   *)
(***************************************************************************)
\* ts are the tables after each of ops, none of which fails.
Chain(ts, tables, ops) ==
    /\ ops \in Seq(Op)
    /\ ts = [n \in 0..Len(ops) |-> ts[n]]
    /\ ts[0] = tables
    /\ \A n \in 1..Len(ops) : /\ Accepts(ts[n - 1], ops[n])
                              /\ ts[n] = Apply(ts[n - 1], ops[n])

LEMMA ChainElim ==
    ASSUME NEW ts, NEW tables, NEW ops \in Seq(Op), Chain(ts, tables, ops),
           NEW n \in 0..Len(ops), n < Len(ops)
    PROVE  Accepts(ts[n], ops[n + 1]) /\ ts[n + 1] = Apply(ts[n], ops[n + 1])
  <1>1. n + 1 \in 1..Len(ops) /\ (n + 1) - 1 = n
    OBVIOUS
  <1>2. QED
    BY <1>1 DEF Chain

\* Two functions that obey the equation of Replay cannot differ first anywhere.
LEMMA ReplayIs ==
    ASSUME NEW tables, NEW ops \in Seq(Op), NEW ts, Chain(ts, tables, ops)
    PROVE  Replay(tables, ops) = ts
  <1> DEFINE After(f) == [n \in 0..Len(ops) |->
                            IF n = 0 THEN tables ELSE Apply(f[n - 1], ops[n])]
  <1>1. Replay(tables, ops) = CHOOSE f : f = After(f)
    BY DEF Replay
  <1>2. ts = After(ts)
    <2>1. \A n \in 0..Len(ops) : n # 0 => n \in 1..Len(ops)
      OBVIOUS
    <2>2. \A n \in 0..Len(ops) :
              ts[n] = IF n = 0 THEN tables ELSE Apply(ts[n - 1], ops[n])
      BY <2>1 DEF Chain
    <2>3. ts = [n \in 0..Len(ops) |-> ts[n]]
      BY DEF Chain
    <2>4. QED
      BY <2>2, <2>3
  <1>3. ASSUME NEW f, f = After(f) PROVE f = ts
    <2> DEFINE Differ == {n \in 0..Len(ops) : f[n] # ts[n]}
    <2>1. \A n \in 0..Len(ops) :
              /\ f[n] = IF n = 0 THEN tables ELSE Apply(f[n - 1], ops[n])
              /\ ts[n] = IF n = 0 THEN tables ELSE Apply(ts[n - 1], ops[n])
      BY <1>2, <1>3
    <2>2. Differ = {}
      <3> SUFFICES ASSUME Differ # {} PROVE FALSE
        OBVIOUS
      <3>1. Differ \in SUBSET Nat
        OBVIOUS
      <3>2. PICK n \in Differ : \A k \in Differ : n <= k
        BY <3>1, SmallestNat
      <3> HIDE DEF After
      <3>3. n # 0 /\ n \in 0..Len(ops) /\ f[n] # ts[n]
        BY <2>1, <3>2
      <3>4. n - 1 \in 0..Len(ops) /\ n - 1 \notin Differ
        BY <3>2, <3>3
      <3>5. QED
        BY <2>1, <3>3, <3>4
    <2>3. ts = [n \in 0..Len(ops) |-> ts[n]] /\ f = [n \in 0..Len(ops) |-> f[n]]
      BY <1>3 DEF Chain
    <2> HIDE DEF After
    <2>4. QED
      BY <2>2, <2>3
  <1> HIDE DEF After
  <1>4. QED
    BY <1>1, <1>2, <1>3

\* One operation more, and what is left after the first k.
Longer(us, ts, tables, ops, op) ==
    /\ Chain(us, tables, Append(ops, op))
    /\ us[Len(ops) + 1] = Apply(ts[Len(ops)], op)
    /\ \A n \in 0..Len(ops) : us[n] = ts[n]

LEMMA ChainGrows ==
    ASSUME NEW tables, NEW ops \in Seq(Op), NEW ts, Chain(ts, tables, ops),
           NEW op \in Op, Accepts(ts[Len(ops)], op)
    PROVE  \E us : Longer(us, ts, tables, ops, op)
  <1> DEFINE N  == Len(ops)
             us == [n \in 0..(N + 1) |-> IF n = N + 1 THEN Apply(ts[N], op) ELSE ts[n]]
             more == Append(ops, op)
  <1>1. N \in Nat /\ Len(more) = N + 1 /\ more[N + 1] = op
        /\ \A n \in 1..N : more[n] = ops[n]
    OBVIOUS
  <1> HIDE DEF more
  <1>2. us[N + 1] = Apply(ts[N], op) /\ \A n \in 0..N : us[n] = ts[n]
    BY <1>1
  <1>3. us = [n \in 0..(N + 1) |-> us[n]]
    OBVIOUS
  <1> HIDE DEF us
  <1>4. ASSUME NEW n \in 1..(N + 1)
        PROVE  Accepts(us[n - 1], more[n]) /\ us[n] = Apply(us[n - 1], more[n])
    <2>1. CASE n = N + 1
      BY <1>1, <1>2, <2>1
    <2>2. CASE n # N + 1
      <3>1. n \in 1..N /\ n - 1 \in 0..N /\ n \in 0..N
        BY <1>1, <2>2
      <3>2. Accepts(ts[n - 1], ops[n]) /\ ts[n] = Apply(ts[n - 1], ops[n])
        BY <3>1 DEF Chain
      <3>3. QED
        BY <1>1, <1>2, <3>1, <3>2
    <2>3. QED
      BY <2>1, <2>2
  <1>5. us[0] = tables
    BY <1>1, <1>2 DEF Chain
  <1>6. Chain(us, tables, more)
    <2>1. more \in Seq(Op)
      BY DEF more
    <2> QED
      BY <1>1, <1>3, <1>4, <1>5, <2>1 DEF Chain
  <1>7. Longer(us, ts, tables, ops, op)
    BY <1>2, <1>6 DEF more, Longer
  <1>8. QED
    BY <1>7

LEMMA ChainRest ==
    ASSUME NEW tables, NEW ops \in Seq(Op), NEW ts, Chain(ts, tables, ops),
           NEW k \in 0..Len(ops), NEW rest \in Seq(Op), Len(rest) = Len(ops) - k,
           \A n \in 1..Len(rest) : rest[n] = ops[k + n]
    PROVE  Chain([n \in 0..Len(rest) |-> ts[k + n]], ts[k], rest)
  <1> DEFINE us == [n \in 0..Len(rest) |-> ts[k + n]]
  <1>1. us[0] = ts[k]
    OBVIOUS
  <1>2. ASSUME NEW n \in 1..Len(rest)
        PROVE  Accepts(us[n - 1], rest[n]) /\ us[n] = Apply(us[n - 1], rest[n])
    <2>1. /\ k + n \in 1..Len(ops)
          /\ (k + n) - 1 = k + (n - 1)
          /\ us[n - 1] = ts[k + (n - 1)]
          /\ us[n] = ts[k + n]
      OBVIOUS
    <2>2. Accepts(ts[(k + n) - 1], ops[k + n]) /\ ts[k + n] = Apply(ts[(k + n) - 1], ops[k + n])
      BY <2>1 DEF Chain
    <2>3. QED
      BY <2>1, <2>2
  <1>3. us = [n \in 0..Len(rest) |-> us[n]]
    OBVIOUS
  <1>4. QED
    BY <1>1, <1>2, <1>3 DEF Chain

-----------------------------------------------------------------------------
\* Tables a restart could hand to the room: a forest of ids that were given out.
Good(tables, ids) ==
    /\ Sound(tables)
    /\ Acyclic(tables.topics)
    /\ DOMAIN tables.topics \subseteq ids
    /\ tables.active \in ids \cup {NoTopic}

Leads(ts) ==
    /\ Chain(ts, db, Backlog)
    /\ ts[at] = work
    /\ View(ts[Len(Backlog)]) = RoomView
    /\ \A n \in 0..Len(Backlog) : Good(ts[n], used)

OneInv(h) ==
    /\ StoreInv
    /\ Rooted
    /\ active \in used \cup {NoTopic}
    /\ outbox[h] # <<>> => pending[h] = Idle
    /\ pending[h].kind = "setActive" => /\ "setActive" \in Kinds
                                        /\ pending[h].prev = active
                                        /\ pending[h].id \in used \cup {NoTopic}
    /\ \E ts : Leads(ts)

LEMMA TheHost ==
    ASSUME NEW h \in Hosts, Hosts = {h}
    PROVE  (CHOOSE g \in Hosts : TRUE) = h
  OBVIOUS

LEMMA Within ==
    ASSUME NEW a, NEW b \in Nat, NEW q \in Nat, NEW o \in Nat, NEW l,
           l = b + q + o, a \in 0..b
    PROVE  /\ a \in 0..l
           /\ a < b => a < l /\ a + 1 \in 1..b
  OBVIOUS

LEMMA BacklogShape ==
    ASSUME StoreTypeOK, NEW h \in Hosts, Hosts = {h}
    PROVE  /\ Backlog = batch \o queue \o outbox[h]
           /\ Backlog \in Seq(Op)
           /\ Len(Backlog) = Len(batch) + Len(queue) + Len(outbox[h])
           /\ \A n \in 1..Len(batch) : Backlog[n] = batch[n]
           /\ batch \in Seq(Op) /\ queue \in Seq(Op) /\ outbox[h] \in Seq(Op)
           /\ Len(batch) \in Nat /\ Len(queue) \in Nat /\ Len(outbox[h]) \in Nat
           /\ at \in 0..Len(batch)
  <1>1. Backlog = batch \o queue \o outbox[h]
    BY TheHost DEF Backlog
  <1>2. /\ batch \in Seq(Op) /\ queue \in Seq(Op) /\ outbox[h] \in Seq(Op)
        /\ at \in 0..Len(batch)
    BY DEF StoreTypeOK, TypeOK
  <1>3. /\ batch \o queue \in Seq(Op)
        /\ Len(batch \o queue) = Len(batch) + Len(queue)
        /\ \A n \in 1..Len(batch) : (batch \o queue)[n] = batch[n]
    BY <1>2
  <1> DEFINE s == batch \o queue
  <1> HIDE DEF s
  <1>4. /\ s \o outbox[h] \in Seq(Op)
        /\ Len(s \o outbox[h]) = Len(s) + Len(outbox[h])
        /\ \A n \in 1..Len(s) : (s \o outbox[h])[n] = s[n]
    BY <1>2, <1>3 DEF s
  <1>5. /\ Backlog = s \o outbox[h]
        /\ s \in Seq(Op)
        /\ Len(s) = Len(batch) + Len(queue)
        /\ \A n \in 1..Len(batch) : s[n] = batch[n]
    BY <1>1, <1>3 DEF s
  <1>6. Len(batch) \in Nat /\ Len(queue) \in Nat /\ Len(outbox[h]) \in Nat
    BY <1>2
  <1>7. \A n \in 1..Len(batch) : Backlog[n] = batch[n]
    BY <1>4, <1>5, <1>6
  <1>8. QED
    BY <1>1, <1>2, <1>4, <1>5, <1>6, <1>7

\* What the invariant says of the runs' properties.
LEMMA LeadsIsAhead ==
    ASSUME StoreTypeOK, NEW h \in Hosts, Hosts = {h}, NEW ts, Leads(ts)
    PROVE  Ahead = ts
  BY BacklogShape, ReplayIs DEF Leads, Ahead

LEMMA OneBatchCommits ==
    ASSUME NEW h \in Hosts, Hosts = {h}, OneInv(h)
    PROVE  BatchesCommit
  <1> SUFFICES ASSUME at < Len(batch) PROVE Accepts(work, batch[at + 1])
    BY DEF BatchesCommit
  <1>1. PICK ts : Leads(ts)
    BY DEF OneInv
  <1>2. /\ Backlog \in Seq(Op)
        /\ at \in 0..Len(Backlog)
        /\ at < Len(Backlog)
        /\ Backlog[at + 1] = batch[at + 1]
    <2>1. StoreTypeOK
      BY DEF OneInv, StoreInv
    <2>2. /\ Backlog \in Seq(Op)
          /\ Len(Backlog) = Len(batch) + Len(queue) + Len(outbox[h])
          /\ \A n \in 1..Len(batch) : Backlog[n] = batch[n]
          /\ Len(batch) \in Nat /\ Len(queue) \in Nat /\ Len(outbox[h]) \in Nat
          /\ at \in 0..Len(batch)
      BY <2>1, BacklogShape
    <2>3. at \in 0..Len(Backlog) /\ at < Len(Backlog) /\ at + 1 \in 1..Len(batch)
      BY <2>2, Within
    <2> QED
      BY <2>2, <2>3
  <1>3. Accepts(ts[at], Backlog[at + 1])
    BY <1>1, <1>2, ChainElim DEF Leads
  <1>4. QED
    BY <1>1, <1>2, <1>3 DEF Leads

-----------------------------------------------------------------------------
(***************************************************************************)
(* The writer's steps and enqueueing only move the backlog along.          *)
(***************************************************************************)
LEMMA SameBacklog ==
    ASSUME NEW h \in Hosts, Hosts = {h}, OneInv(h), StoreInv', Rooted',
           Backlog' = Backlog,
           UNCHANGED <<forest, active, used, pending, db>>,
           outbox'[h] = outbox[h] \/ pending[h] = Idle,
           \A ts : Leads(ts) => ts[at'] = work'
    PROVE  OneInv(h)'
  <1>1. PICK ts : Leads(ts)
    BY DEF OneInv
  <1>2. Leads(ts)'
    <2>1. Chain(ts, db, Backlog)' /\ (ts[at] = work)'
      BY <1>1 DEF Leads
    <2>2. (View(ts[Len(Backlog)]) = RoomView)'
      BY <1>1 DEF Leads, RoomView
    <2>3. (\A n \in 0..Len(Backlog) : Good(ts[n], used))'
      BY <1>1 DEF Leads
    <2> QED
      BY <2>1, <2>2, <2>3 DEF Leads
  <1>3. QED
    BY <1>2 DEF OneInv

LEMMA EnqueueOne ==
    ASSUME NEW h \in Hosts, Hosts = {h}, OneInv(h), StoreInv', Rooted', Enqueue(h)
    PROVE  OneInv(h)' /\ Backlog' = Backlog
  <1>1. StoreTypeOK
    BY DEF OneInv, StoreInv
  <1>2. /\ Backlog = batch \o queue \o outbox[h]
        /\ batch \in Seq(Op) /\ queue \in Seq(Op) /\ outbox[h] \in Seq(Op)
    BY <1>1, BacklogShape
  <1>3. /\ outbox[h] # <<>> /\ outbox'[h] = Tail(outbox[h])
        /\ queue' = Append(queue, Head(outbox[h]))
        /\ UNCHANGED <<batch, at, work, db, forest, active, used, pending>>
    BY DEF Enqueue, SendOp, OneInv, StoreInv, StoreTypeOK, TypeOK
  <1>b. Backlog' = batch' \o queue' \o outbox'[h]
    BY TheHost DEF Backlog
  <1>4. (batch \o queue)' = Append(batch \o queue, Head(outbox[h]))
    <2>1. Head(outbox[h]) \in Op
      BY <1>2, <1>3
    <2> QED
      BY <1>2, <1>3, <2>1
  <1> DEFINE s == batch \o queue
  <1>5. s \in Seq(Op)
    BY <1>2
  <1>6. ASSUME NEW u \in Seq(Op), NEW o \in Seq(Op), o # <<>>
        PROVE  Append(u, Head(o)) \o Tail(o) = u \o o
    <2> DEFINE l == Append(u, Head(o)) \o Tail(o)
               r == u \o o
    <2>1. /\ Append(u, Head(o)) \in Seq(Op) /\ Tail(o) \in Seq(Op)
          /\ Len(Tail(o)) = Len(o) - 1 /\ Len(o) \in Nat \ {0} /\ Len(u) \in Nat
          /\ Len(Append(u, Head(o))) = Len(u) + 1
      BY <1>6
    <2>2. l \in Seq(Op) /\ r \in Seq(Op) /\ Len(l) = Len(r)
      BY <2>1
    <2>3. \A i \in 1..Len(l) : l[i] = r[i]
      BY <2>1, <1>6
    <2> QED
      BY <2>2, <2>3, SeqEqual
  <1>7. Backlog' = Backlog
    <2>1. Append(s, Head(outbox[h])) \o Tail(outbox[h]) = s \o outbox[h]
      BY <1>2, <1>3, <1>5, <1>6
    <2> QED
      BY <1>2, <1>3, <1>4, <1>b, <2>1
  <1>8. \A ts : Leads(ts) => ts[at'] = work'
    BY <1>3 DEF Leads
  <1>9. pending[h] = Idle
    BY <1>3 DEF OneInv
  <1>10. QED
    BY <1>3, <1>7, <1>8, <1>9, SameBacklog

LEMMA TakeBatchOne ==
    ASSUME NEW h \in Hosts, Hosts = {h}, OneInv(h), StoreInv', Rooted', TakeBatch
    PROVE  OneInv(h)' /\ Backlog' = Backlog
  <1> DEFINE n == Min({Len(queue), MaxBatch})
  <1>1. StoreTypeOK
    BY DEF OneInv, StoreInv
  <1>2. /\ Backlog = batch \o queue \o outbox[h]
        /\ queue \in Seq(Op)
    BY <1>1, BacklogShape
  <1>3. n \in 0..Len(queue)
    <2>1. Len(queue) \in Nat /\ MaxBatch \in Nat
      BY <1>2, BatchAssumption
    <2>2. \E x \in {Len(queue), MaxBatch} : \A y \in {Len(queue), MaxBatch} : x <= y
      BY <2>1
    <2>3. /\ n \in {Len(queue), MaxBatch}
          /\ \A y \in {Len(queue), MaxBatch} : n <= y
      BY <2>2 DEF Min
    <2> QED
      BY <2>1, <2>3
  <1>4. /\ batch = <<>>
        /\ batch' = SubSeq(queue, 1, n)
        /\ queue' = SubSeq(queue, n + 1, Len(queue))
        /\ at' = 0 /\ work' = db
        /\ UNCHANGED <<forest, active, used, pending, outbox, db>>
    BY DEF TakeBatch, vars
  <1> HIDE DEF n
  <1>b. Backlog' = batch' \o queue' \o outbox'[h]
    BY TheHost DEF Backlog
  <1>5. batch' \o queue' = queue
    <2> DEFINE s == SubSeq(queue, 1, n)
               t == SubSeq(queue, n + 1, Len(queue))
    <2>1. /\ s \in Seq(Op) /\ t \in Seq(Op)
          /\ Len(s) = n /\ Len(t) = Len(queue) - n
          /\ \A i \in 1..n : s[i] = queue[i]
          /\ \A i \in 1..(Len(queue) - n) : t[i] = queue[n + i]
      BY <1>2, <1>3
    <2> HIDE DEF s, t
    <2>2. s \o t \in Seq(Op) /\ Len(s \o t) = Len(queue)
      BY <1>2, <1>3, <2>1
    <2>3. ASSUME NEW i \in 1..Len(queue) PROVE (s \o t)[i] = queue[i]
      <3>1. (s \o t)[i] = IF i <= n THEN s[i] ELSE t[i - n]
        BY <1>2, <1>3, <2>1
      <3>2. i > n => i - n \in 1..(Len(queue) - n) /\ n + (i - n) = i
        BY <1>2, <1>3
      <3> QED
        BY <1>3, <2>1, <3>1, <3>2
    <2>4. s \o t = queue
      BY <1>2, <2>2, <2>3, SeqEqual
    <2> QED
      BY <1>4, <2>4 DEF s, t
  <1>6. batch \o queue = queue
    BY <1>2, <1>4
  <1>7. Backlog' = Backlog
    BY <1>2, <1>4, <1>5, <1>6, <1>b
  <1>8. \A ts : Leads(ts) => ts[at'] = work'
    BY <1>4 DEF Leads, Chain
  <1>9. QED
    BY <1>4, <1>7, <1>8, SameBacklog

LEMMA ApplyOpOne ==
    ASSUME NEW h \in Hosts, Hosts = {h}, OneInv(h), StoreInv', Rooted', ApplyOp
    PROVE  OneInv(h)' /\ Backlog' = Backlog
  <1>1. StoreTypeOK
    BY DEF OneInv, StoreInv
  <1>2. /\ Backlog = batch \o queue \o outbox[h]
        /\ Backlog \in Seq(Op)
        /\ Len(Backlog) = Len(batch) + Len(queue) + Len(outbox[h])
        /\ \A n \in 1..Len(batch) : Backlog[n] = batch[n]
        /\ Len(batch) \in Nat /\ Len(queue) \in Nat /\ Len(outbox[h]) \in Nat
        /\ at \in 0..Len(batch)
    BY <1>1, BacklogShape
  <1>3. /\ at < Len(batch)
        /\ work' = Apply(work, batch[at + 1])
        /\ at' = at + 1
        /\ UNCHANGED <<queue, batch, db>>
        /\ UNCHANGED <<forest, active, used, pending, outbox>>
    BY DEF ApplyOp, vars
  <1>4. Backlog' = Backlog
    BY <1>3, TheHost DEF Backlog
  <1>5. /\ at \in 0..Len(Backlog) /\ at < Len(Backlog)
        /\ Backlog[at + 1] = batch[at + 1]
    <2>1. at \in 0..Len(Backlog) /\ at < Len(Backlog) /\ at + 1 \in 1..Len(batch)
      BY <1>2, <1>3, Within
    <2> QED
      BY <1>2, <2>1
  <1>6. ASSUME NEW ts, Leads(ts) PROVE ts[at'] = work'
    <2>1. ts[at + 1] = Apply(ts[at], Backlog[at + 1])
      BY <1>2, <1>5, <1>6, ChainElim DEF Leads
    <2> QED
      BY <1>3, <1>5, <1>6, <2>1 DEF Leads
  <1>7. QED
    BY <1>3, <1>4, <1>6, SameBacklog

LEMMA AfterBatch ==
    ASSUME NEW b \in Seq(Op), NEW q \in Seq(Op), NEW o \in Seq(Op)
    PROVE  /\ q \o o \in Seq(Op)
           /\ Len(b) \in 0..Len(b \o q \o o)
           /\ Len(q \o o) = Len(b \o q \o o) - Len(b)
           /\ \A n \in 1..Len(q \o o) : (q \o o)[n] = (b \o q \o o)[Len(b) + n]
  <1> DEFINE r == q \o o
             s == b \o r
  <1>1. b \o q \o o = s
    BY ConcatAssociative
  <1>2. r \in Seq(Op) /\ Len(r) \in Nat /\ Len(b) \in Nat
    OBVIOUS
  <1> HIDE DEF r
  <1>3. /\ s \in Seq(Op) /\ Len(s) = Len(b) + Len(r)
        /\ \A i \in 1..(Len(b) + Len(r)) :
              s[i] = IF i <= Len(b) THEN b[i] ELSE r[i - Len(b)]
    BY <1>2, ConcatProperties
  <1> HIDE DEF s
  <1>4. ASSUME NEW n \in 1..Len(r) PROVE r[n] = s[Len(b) + n]
    <2>1. /\ Len(b) + n \in 1..(Len(b) + Len(r))
          /\ ~ (Len(b) + n <= Len(b))
          /\ (Len(b) + n) - Len(b) = n
      BY <1>2
    <2> QED
      BY <1>3, <2>1
  <1> QED
    BY <1>1, <1>2, <1>3, <1>4 DEF r

LEMMA CommitOne ==
    ASSUME NEW h \in Hosts, Hosts = {h}, OneInv(h), StoreInv', Rooted', CommitBatch,
           NEW ts, Leads(ts)
    PROVE  /\ OneInv(h)'
           /\ Len(batch) \in 1..Len(Backlog)
           /\ Len(Backlog') = Len(Backlog) - Len(batch)
           /\ db' = ts[Len(batch)]
           /\ \E us : Leads(us)' /\ \A n \in 0..Len(Backlog') : us[n] = ts[Len(batch) + n]
  <1>1. StoreTypeOK
    BY DEF OneInv, StoreInv
  <1>2. /\ Backlog = batch \o queue \o outbox[h]
        /\ Backlog \in Seq(Op)
        /\ Len(Backlog) = Len(batch) + Len(queue) + Len(outbox[h])
        /\ batch \in Seq(Op) /\ queue \in Seq(Op) /\ outbox[h] \in Seq(Op)
        /\ Len(batch) \in Nat /\ Len(queue) \in Nat /\ Len(outbox[h]) \in Nat
    BY <1>1, BacklogShape
  <1>3. /\ batch # <<>> /\ at = Len(batch)
        /\ batch' = <<>> /\ at' = 0 /\ work' = work /\ db' = work
        /\ UNCHANGED <<queue, forest, active, used, pending, outbox>>
    BY DEF CommitBatch, EndBatch, vars
  <1> DEFINE rest == queue \o outbox[h]
             k    == Len(batch)
  <1>4. Backlog' = rest
    <2>1. Backlog' = <<>> \o queue \o outbox[h]
      BY <1>3, TheHost DEF Backlog
    <2>2. <<>> \o queue = queue
      BY <1>2
    <2> QED
      BY <2>1, <2>2
  <1>5. /\ rest \in Seq(Op) /\ Len(rest) = Len(Backlog) - k
        /\ k \in 1..Len(Backlog)
        /\ \A n \in 1..Len(rest) : rest[n] = Backlog[k + n]
        /\ k \in Nat /\ Len(Backlog) \in Nat /\ Len(rest) \in Nat
    <2>1. k # 0
      BY <1>2, <1>3
    <2>2. /\ rest \in Seq(Op)
          /\ k \in 0..Len(Backlog)
          /\ Len(rest) = Len(Backlog) - k
          /\ \A n \in 1..Len(rest) : rest[n] = Backlog[k + n]
      <3>1. batch \in Seq(Op) /\ queue \in Seq(Op) /\ outbox[h] \in Seq(Op)
        BY <1>2
      <3> DEFINE all == batch \o queue \o outbox[h]
      <3>2. /\ rest \in Seq(Op)
            /\ k \in 0..Len(all)
            /\ Len(rest) = Len(all) - k
            /\ \A n \in 1..Len(rest) : rest[n] = all[k + n]
        BY <3>1, AfterBatch, Zenon
      <3>3. Backlog = all
        BY <1>2
      <3> HIDE DEF rest, k, all
      <3> QED
        BY <3>2, <3>3
    <2>3. k \in Nat /\ Len(Backlog) \in Nat
      <3>1. Backlog \in Seq(Op)
        BY <1>2
      <3> QED
        BY <1>2, <3>1, LenProperties
    <2> HIDE DEF rest, k
    <2> QED
      BY <2>1, <2>2, <2>3
  <1> HIDE DEF rest, k
  <1> DEFINE vs == [n \in 0..Len(rest) |-> ts[k + n]]
  <1>7. Chain(vs, ts[k], rest)
    <2>1. k \in 0..Len(Backlog) /\ Chain(ts, db, Backlog)
      BY <1>5 DEF Leads
    <2> QED
      BY <1>2, <1>5, <2>1, ChainRest
  <1>8. PICK us : us = vs
    OBVIOUS
  <1>9. \A n \in 0..Len(rest) : us[n] = ts[k + n]
    BY <1>8
  <1>10. /\ \A n \in 0..Len(rest) : k + n \in 0..Len(Backlog)
         /\ k + 0 = k /\ k + Len(rest) = Len(Backlog)
         /\ 0 \in 0..Len(rest) /\ Len(rest) \in 0..Len(rest)
    BY <1>5
  <1>11. ts[k] = work /\ db' = ts[k]
    BY <1>3 DEF Leads, k
  <1>12. Leads(us)'
    <2>1. Chain(us, db', Backlog')
      BY <1>4, <1>7, <1>8, <1>11
    <2>2. us[at'] = work'
      <3>1. us[0] = ts[k]
        BY <1>9, <1>10
      <3> QED
        BY <1>3, <1>11, <3>1
    <2>3. View(us[Len(Backlog')]) = RoomView'
      <3>1. us[Len(rest)] = ts[Len(Backlog)]
        BY <1>9, <1>10
      <3> QED
        BY <1>3, <1>4, <3>1 DEF Leads, RoomView
    <2>4. \A n \in 0..Len(Backlog') : Good(us[n], used')
      BY <1>3, <1>4, <1>9, <1>10 DEF Leads
    <2> QED
      BY <2>1, <2>2, <2>3, <2>4 DEF Leads
  <1>13. OneInv(h)'
    BY <1>3, <1>12 DEF OneInv
  <1>14. QED
    BY <1>4, <1>5, <1>9, <1>11, <1>12, <1>13 DEF k

-----------------------------------------------------------------------------
\* A restart loads tables that are a state the room was in.
LEMMA RestartOne ==
    ASSUME NEW h \in Hosts, Hosts = {h}, OneInv(h), StoreInv', Restart
    PROVE  /\ OneInv(h)' /\ Rooted'
           /\ Backlog' = <<>>
  <1>1. PICK ts : Leads(ts)
    BY DEF OneInv
  <1>2. Good(db, used)
    <2>1. Len(Backlog) \in Nat
      BY BacklogShape DEF OneInv, StoreInv
    <2>2. 0 \in 0..Len(Backlog)
      BY <2>1
    <2> QED
      BY <1>1, <2>2 DEF Leads, Chain
  <1>3. /\ forest' = db.topics /\ active' = db.active
        /\ pending'[h] = Idle /\ outbox'[h] = <<>>
        /\ pending' = [g \in Hosts |-> Idle]
        /\ queue' = <<>> /\ batch' = <<>> /\ at' = 0 /\ work' = db
        /\ used' = used /\ db' = db
    BY DEF Restart
  <1>4. Backlog' = <<>>
    <2>1. Backlog' = <<>> \o <<>> \o <<>>
      BY <1>3, TheHost DEF Backlog
    <2> QED
      BY <2>1
  <1>5. Rooted'
    <2>1. /\ db.topics \in Forests
          /\ \A t \in DOMAIN db.topics :
                db.topics[t].parent \in DOMAIN db.topics \cup {NoTopic}
          /\ Acyclic(db.topics)
          /\ DOMAIN db.topics \subseteq used
      BY <1>2 DEF Good, Sound, ParentsExist, Tables
    <2>2. NoOrphans'
      BY <1>3, <2>1 DEF NoOrphans, Exists
    <2>3. CarriedExists'
      BY <1>3 DEF CarriedExists, Idle
    <2>4. Known'
      <3>1. \A t : ParentOf(db.topics, t) \in used \cup {NoTopic}
        BY <2>1 DEF ParentOf
      <3> QED
        BY <1>3, <2>1, <3>1 DEF Known, Idle
    <2>5. TypeOK'
      BY DEF StoreInv, StoreTypeOK
    <2> QED
      BY <1>3, <2>1, <2>2, <2>3, <2>4, <2>5 DEF Rooted, IInv, ForestAcyclic
  <1>6. PICK us : us = [n \in 0..0 |-> db]
    OBVIOUS
  <1>7. Leads(us)'
    <2>1. us[0] = db /\ us = [n \in 0..Len(<<>>) |-> us[n]] /\ 1..Len(<<>>) = {}
          /\ 0..Len(<<>>) = {0} /\ Len(<<>>) = 0 /\ <<>> \in Seq(Op)
      BY <1>6
    <2>2. Chain(us, db', Backlog')
      BY <1>3, <1>4, <2>1 DEF Chain
    <2>3. View(us[Len(Backlog')]) = RoomView'
      <3>1. db = [topics |-> db.topics, active |-> db.active]
        BY <1>2 DEF Good, Sound, Tables
      <3> QED
        BY <1>3, <1>4, <2>1, <3>1 DEF RoomView
    <2> QED
      BY <1>2, <1>3, <1>4, <2>1, <2>2, <2>3 DEF Leads
  <1>8. active' \in used' \cup {NoTopic}
    BY <1>2, <1>3 DEF Good
  <1>9. QED
    BY <1>3, <1>4, <1>5, <1>7, <1>8 DEF OneInv, Idle

LEMMA InitOne ==
    ASSUME NEW h \in Hosts, Hosts = {h}, StoreInit
    PROVE  OneInv(h) /\ Backlog = <<>>
  <1>1. StoreInv
    BY StoreInitInv
  <1>2. /\ forest = EmptyForest /\ active = NoTopic
        /\ pending = [g \in Hosts |-> Idle] /\ outbox[h] = <<>>
        /\ queue = <<>> /\ batch = <<>> /\ at = 0 /\ work = NewTables /\ db = NewTables
        /\ Init
    BY DEF StoreInit, Init
  <1>3. Backlog = <<>>
    <2>1. Backlog = <<>> \o <<>> \o <<>>
      BY <1>2, TheHost DEF Backlog
    <2> QED
      BY <2>1
  <1>4. Rooted
    <2>1. DOMAIN forest = {}
      BY <1>2 DEF EmptyForest
    <2>2. NoOrphans /\ CarriedExists
      BY <1>2, <2>1 DEF NoOrphans, CarriedExists, Idle
    <2> QED
      BY <1>2, <2>2, InitInv DEF Rooted
  <1>5. Good(NewTables, used)
    <2>1. Sound(NewTables)
      BY <1>1, <1>2 DEF StoreInv
    <2>2. /\ NewTables.topics = EmptyForest /\ NewTables.active = NoTopic
          /\ DOMAIN EmptyForest = {}
      BY DEF NewTables, EmptyForest
    <2> QED
      BY <2>1, <2>2, AcyclicEmpty DEF Good
  <1>6. PICK us : us = [n \in 0..0 |-> NewTables]
    OBVIOUS
  <1>7. Leads(us)
    <2>1. us[0] = NewTables /\ us = [n \in 0..Len(<<>>) |-> us[n]] /\ 1..Len(<<>>) = {}
          /\ 0..Len(<<>>) = {0} /\ Len(<<>>) = 0 /\ <<>> \in Seq(Op)
      BY <1>6
    <2>2. Chain(us, db, Backlog)
      BY <1>2, <1>3, <2>1 DEF Chain
    <2>3. View(us[Len(Backlog)]) = RoomView
      BY <1>2, <1>3, <2>1 DEF RoomView, NewTables
    <2> QED
      BY <1>2, <1>3, <1>5, <2>1, <2>2, <2>3 DEF Leads
  <1>8. QED
    BY <1>1, <1>2, <1>3, <1>4, <1>7 DEF OneInv, Idle

-----------------------------------------------------------------------------
(***************************************************************************)
(* The handlers.  What an operation does to tables that show the same as   *)
(* the room, the handler did to the room.                                  *)
(***************************************************************************)
\* op does to such tables what this step does to the room.
Carries(op) ==
    \A t : Good(t, used) /\ View(t) = RoomView
              => /\ Accepts(t, op)
                 /\ View(Apply(t, op)) = RoomView'
                 /\ Apply(t, op).active \in used' \cup {NoTopic}

LEMMA SameView ==
    ASSUME NEW t, View(t) = RoomView
    PROVE  /\ t.topics = forest
           /\ (IF t.active \in DOMAIN forest THEN t.active ELSE NoTopic)
                = (IF active \in DOMAIN forest THEN active ELSE NoTopic)
  BY DEF View, RoomView

\* The step and the operation agree on the topics and on the active one.
LEMMA CarriesIntro ==
    ASSUME NEW op,
           \A t : Good(t, used) /\ View(t) = RoomView
              => /\ Accepts(t, op)
                 /\ TopicsAfter(forest, op) = forest'
                 /\ LET a == IF op.kind = "active" THEN op.id ELSE t.active
                    IN  /\ a \in used' \cup {NoTopic}
                        /\ (IF a \in DOMAIN forest' THEN a ELSE NoTopic)
                             = (IF active' \in DOMAIN forest' THEN active' ELSE NoTopic)
    PROVE  Carries(op)
  <1> SUFFICES ASSUME NEW t, Good(t, used), View(t) = RoomView
               PROVE  /\ Accepts(t, op)
                      /\ View(Apply(t, op)) = RoomView'
                      /\ Apply(t, op).active \in used' \cup {NoTopic}
    BY DEF Carries
  <1> DEFINE a == IF op.kind = "active" THEN op.id ELSE t.active
  <1>1. t.topics = forest
    BY SameView
  <1>2. /\ Accepts(t, op)
        /\ TopicsAfter(forest, op) = forest'
        /\ a \in used' \cup {NoTopic}
        /\ (IF a \in DOMAIN forest' THEN a ELSE NoTopic)
             = (IF active' \in DOMAIN forest' THEN active' ELSE NoTopic)
    OBVIOUS
  <1>3. Apply(t, op) = [topics |-> forest', active |-> a]
    BY <1>1, <1>2 DEF Apply
  <1> HIDE DEF a
  <1>4. View(Apply(t, op)) = RoomView'
    BY <1>2, <1>3 DEF View, RoomView
  <1> QED
    BY <1>2, <1>3, <1>4

\* add, promote and import: the rows are new, so no stored active topic is one
\* of them, and each names a topic of the room or a row before it.
LEMMA InsertCarries ==
    ASSUME Rooted, active \in used \cup {NoTopic}, NEW h \in Hosts,
           NEW rows, NewRows(rows), Insert(h, rows), NEW p, Exists(p),
           \A i \in DOMAIN rows :
              \/ rows[i].topic.parent = p
              \/ \E j \in 1..(i - 1) : rows[i].topic.parent = rows[j].id
    PROVE  Carries([kind |-> "upsert", rows |-> rows])
  <1> DEFINE op == [kind |-> "upsert", rows |-> rows]
  <1>1. /\ forest' = WithRows(forest, rows)
        /\ DOMAIN forest' = DOMAIN forest \cup RowIds(rows)
        /\ active' = active
        /\ used' = used \cup RowIds(rows)
        /\ RowIds(rows) \cap used = {}
        /\ RowIds(rows) \subseteq Topics
    BY WithRowsType DEF Rooted, IInv, TypeOK, NewRows, Insert
  <1>2. NoTopic \notin RowIds(rows)
    BY <1>1, NoTopicAssumption
  <1>3. op.kind = "upsert" /\ op.rows = rows
    OBVIOUS
  <1> HIDE DEF op
  <1> SUFFICES ASSUME NEW t, Good(t, used), View(t) = RoomView
               PROVE  /\ Accepts(t, op)
                      /\ TopicsAfter(forest, op) = forest'
                      /\ LET a == IF op.kind = "active" THEN op.id ELSE t.active
                         IN  /\ a \in used' \cup {NoTopic}
                             /\ (IF a \in DOMAIN forest' THEN a ELSE NoTopic)
                                  = (IF active' \in DOMAIN forest' THEN active' ELSE NoTopic)
    BY CarriesIntro DEF op
  <1>4. /\ t.topics = forest
        /\ (IF t.active \in DOMAIN forest THEN t.active ELSE NoTopic)
             = (IF active \in DOMAIN forest THEN active ELSE NoTopic)
    BY SameView
  <1>5. t.active \in used \cup {NoTopic}
    BY DEF Good
  <1>6. Accepts(t, op)
    <2>1. ASSUME NEW i \in DOMAIN rows
          PROVE  rows[i].topic.parent \in
                     DOMAIN forest \cup {rows[j].id : j \in 1..(i - 1)} \cup {NoTopic}
      BY DEF Exists
    <2> QED
      BY <1>3, <1>4, <2>1 DEF Accepts
  <1>7. TopicsAfter(forest, op) = forest'
    BY <1>1, <1>3 DEF TopicsAfter
  <1>8. t.active \in used' \cup {NoTopic}
    BY <1>1, <1>5
  <1>9. t.active \notin RowIds(rows) /\ active \notin RowIds(rows)
    BY <1>1, <1>2, <1>5
  <1>10. (IF t.active \in DOMAIN forest' THEN t.active ELSE NoTopic)
             = (IF active' \in DOMAIN forest' THEN active' ELSE NoTopic)
    BY <1>1, <1>4, <1>9
  <1> QED
    BY <1>3, <1>6, <1>7, <1>8, <1>10

\* rename, move and mark done: the same topics are there, and the active one.
LEMMA UpdateCarries ==
    ASSUME NEW op, op.kind \in {"rename", "move", "status"},
           TopicsAfter(forest, op) = forest', DOMAIN forest' = DOMAIN forest,
           active' = active, used' = used,
           op.kind = "move" => Exists(op.parent)
    PROVE  Carries(op)
  <1> SUFFICES ASSUME NEW t, Good(t, used), View(t) = RoomView
               PROVE  /\ Accepts(t, op)
                      /\ TopicsAfter(forest, op) = forest'
                      /\ LET a == IF op.kind = "active" THEN op.id ELSE t.active
                         IN  /\ a \in used' \cup {NoTopic}
                             /\ (IF a \in DOMAIN forest' THEN a ELSE NoTopic)
                                  = (IF active' \in DOMAIN forest' THEN active' ELSE NoTopic)
    BY CarriesIntro
  <1>1. /\ t.topics = forest
        /\ (IF t.active \in DOMAIN forest THEN t.active ELSE NoTopic)
             = (IF active \in DOMAIN forest THEN active ELSE NoTopic)
    BY SameView
  <1>2. Accepts(t, op)
    BY <1>1 DEF Accepts, Exists
  <1>3. t.active \in used \cup {NoTopic}
    BY DEF Good
  <1> QED
    BY <1>1, <1>2, <1>3

LEMMA DeleteCarries ==
    ASSUME Rooted, NEW id \in DOMAIN forest, used' = used,
           forest' = Without(forest, Subtree(forest, id)),
           active' = IF active \in Subtree(forest, id) THEN NoTopic ELSE active
    PROVE  Carries([kind |-> "delete", id |-> id])
  <1> DEFINE op == [kind |-> "delete", id |-> id]
             S  == Subtree(forest, id)
  <1>1. op.kind = "delete" /\ op.id = id
    OBVIOUS
  <1> HIDE DEF op
  <1>2. DOMAIN forest' = DOMAIN forest \ S
    BY DEF Without
  <1>3. NoTopic \notin DOMAIN forest
    BY ForestElim, NoTopicAssumption DEF Rooted, IInv, TypeOK
  <1> HIDE DEF S
  <1> SUFFICES ASSUME NEW t, Good(t, used), View(t) = RoomView
               PROVE  /\ Accepts(t, op)
                      /\ TopicsAfter(forest, op) = forest'
                      /\ LET a == IF op.kind = "active" THEN op.id ELSE t.active
                         IN  /\ a \in used' \cup {NoTopic}
                             /\ (IF a \in DOMAIN forest' THEN a ELSE NoTopic)
                                  = (IF active' \in DOMAIN forest' THEN active' ELSE NoTopic)
    BY CarriesIntro DEF op
  <1>4. /\ t.topics = forest
        /\ (IF t.active \in DOMAIN forest THEN t.active ELSE NoTopic)
             = (IF active \in DOMAIN forest THEN active ELSE NoTopic)
    BY SameView
  <1>5. t.active \in used \cup {NoTopic}
    BY DEF Good
  <1>6. Accepts(t, op)
    BY <1>1 DEF Accepts
  <1>7. TopicsAfter(forest, op) = forest'
    BY <1>1 DEF TopicsAfter
  <1>8. (IF t.active \in DOMAIN forest' THEN t.active ELSE NoTopic)
             = (IF active' \in DOMAIN forest' THEN active' ELSE NoTopic)
    BY <1>2, <1>3, <1>4 DEF S
  <1> QED
    BY <1>1, <1>5, <1>6, <1>7, <1>8

-----------------------------------------------------------------------------
\* What the handler has applied comes last on the way to the database.
LEMMA FinishGrows ==
    ASSUME StoreTypeOK, NEW h \in Hosts, Hosts = {h}, outbox[h] = <<>>,
           NEW ops \in Seq(Op), Finish(h, ops), UNCHANGED storeVars
    PROVE  Backlog' = Backlog \o ops /\ pending'[h] = Idle
  <1>1. /\ batch \in Seq(Op) /\ queue \in Seq(Op)
        /\ outbox \in [Hosts -> Seq(Op)] /\ pending \in [Hosts -> Request]
        /\ batch' = batch /\ queue' = queue
    BY DEF StoreTypeOK, TypeOK, storeVars
  <1>2. outbox'[h] = ops /\ pending'[h] = Idle
    BY <1>1 DEF Finish
  <1>3. Backlog = batch \o queue /\ Backlog' = batch \o queue \o ops
    <2>1. Backlog = batch \o queue \o <<>> /\ Backlog' = batch' \o queue' \o outbox'[h]
      BY TheHost DEF Backlog
    <2>2. batch \o queue \in Seq(Op)
      BY <1>1
    <2> QED
      BY <1>1, <1>2, <2>1, <2>2
  <1> QED
    BY <1>2, <1>3

\* Tables that show what the room shows after the step are good.
LEMMA GoodAfter ==
    ASSUME Rooted', NEW t, Sound(t), View(t) = RoomView', t.active \in used' \cup {NoTopic}
    PROVE  Good(t, used')
  <1>1. t.topics = forest'
    BY DEF View, RoomView
  <1> QED
    BY <1>1 DEF Good, Rooted, IInv, ForestAcyclic, Known

\* The tables lead on to one more state, and are what they were before it.
Leads1(ts) ==
    /\ Len(Backlog') = Len(Backlog) + 1
    /\ \E us : Leads(us)' /\ \A n \in 0..Len(Backlog) : us[n] = ts[n]

LEMMA AppliedOne ==
    ASSUME NEW h \in Hosts, Hosts = {h}, OneInv(h), StoreInv', Rooted',
           UNCHANGED storeVars, outbox[h] = <<>>, used \subseteq used',
           active' \in used' \cup {NoTopic},
           NEW op \in Op, Finish(h, <<op>>), Carries(op), NEW ts, Leads(ts)
    PROVE  OneInv(h)' /\ Leads1(ts)
  <1>1. Leads(ts)
    OBVIOUS
  <1>2. Backlog \in Seq(Op) /\ Len(Backlog) \in Nat
    BY BacklogShape DEF OneInv, StoreInv
  <1>3. Backlog' = Append(Backlog, op) /\ pending'[h] = Idle
    <2>1. <<op>> \in Seq(Op)
      OBVIOUS
    <2>2. Backlog' = Backlog \o <<op>> /\ pending'[h] = Idle
      BY <2>1, FinishGrows DEF OneInv, StoreInv
    <2> QED
      BY <1>2, <2>2
  <1> DEFINE N == Len(Backlog)
  <1>4. Len(Backlog') = N + 1
    BY <1>2, <1>3
  <1>5. Good(ts[N], used) /\ View(ts[N]) = RoomView /\ ts[at] = work /\ at \in 0..N
    <2>1. at \in 0..N
      BY BacklogShape, Within DEF OneInv, StoreInv
    <2> QED
      BY <1>1, <1>2, <2>1 DEF Leads
  <1> DEFINE t == Apply(ts[N], op)
  <1>6. /\ Accepts(ts[N], op)
        /\ View(t) = RoomView'
        /\ t.active \in used' \cup {NoTopic}
    BY <1>5 DEF Carries
  <1>7. Good(t, used')
    <2>1. Sound(t)
      BY <1>5, <1>6, ApplySound DEF Good
    <2> QED
      BY <1>6, <2>1, GoodAfter
  <1>8. PICK us : /\ Chain(us, db, Append(Backlog, op))
                  /\ us[N + 1] = t
                  /\ \A n \in 0..N : us[n] = ts[n]
    <2>1. Chain(ts, db, Backlog) /\ Backlog \in Seq(Op) /\ Accepts(ts[Len(Backlog)], op)
      BY <1>1, <1>2, <1>6 DEF Leads
    <2>2. \E us : Longer(us, ts, db, Backlog, op)
      BY <2>1, ChainGrows
    <2> QED
      BY <2>2 DEF Longer
  <1> HIDE DEF t, N
  <1>9. N \in Nat
    BY <1>2 DEF N
  <1>10. Leads(us)'
    <2>1. db' = db /\ work' = work /\ at' = at
      BY DEF storeVars
    <2>2. \A n \in 0..(N + 1) : Good(us[n], used')
      <3>1. \A n \in 0..(N + 1) : n = N + 1 \/ n \in 0..N
        BY <1>9
      <3>2. \A n \in 0..N : Good(ts[n], used')
        BY <1>1 DEF Leads, Good, N
      <3> QED
        BY <1>7, <1>8, <3>1, <3>2
    <2>3. us[at] = work
      BY <1>5, <1>8
    <2> QED
      BY <1>3, <1>4, <1>6, <1>8, <2>1, <2>2, <2>3 DEF Leads
  <1>11. Leads1(ts)
    BY <1>4, <1>8, <1>10 DEF Leads1, N
  <1> QED
    BY <1>3, <1>10, <1>11 DEF OneInv, Idle

LEMMA SetActiveOne ==
    ASSUME NEW h \in Hosts, Hosts = {h}, OneInv(h), StoreInv', Rooted',
           SetActiveApplied(h), UNCHANGED storeVars
    PROVE  OneInv(h)'
  <1> DEFINE new  == pending[h].id
             done == [kind |-> "status", id |-> active, status |-> "done"]
             act  == [kind |-> "active", id |-> new]
  <1>1. PICK ts : Leads(ts)
    BY DEF OneInv
  <1>2. /\ pending[h].prev = active /\ new \in used \cup {NoTopic}
        /\ active \in used \cup {NoTopic} /\ used \subseteq Topics
        /\ outbox[h] = <<>>
        /\ forest' = IF active # new THEN Marked(forest, active, "done") ELSE forest
        /\ active' = new
        /\ used' = used
        /\ Finish(h, IF active # NoTopic /\ active # new THEN <<done, act>> ELSE <<act>>)
    <2>1. pending[h].kind = "setActive" /\ pending[h] # Idle
      BY DEF SetActiveApplied, Idle
    <2>2. /\ pending[h].prev = active /\ new \in used \cup {NoTopic}
          /\ outbox[h] = <<>>
          /\ active \in used \cup {NoTopic}
      BY <2>1 DEF OneInv
    <2>3. used \subseteq Topics
      BY DEF OneInv, Rooted, IInv, TypeOK
    <2> HIDE DEF new
    <2> QED
      BY <2>2, <2>3 DEF SetActiveApplied, new
  <1>3. act \in Op /\ (active # NoTopic => done \in Op)
    BY <1>2, OpIntro DEF OptTopic, Statuses
  <1>4. act.kind = "active" /\ act.id = new
        /\ done.kind = "status" /\ done.id = active /\ done.status = "done"
    OBVIOUS
  <1>5. NoTopic \notin DOMAIN forest
    <2>1. forest \in Forests
      BY DEF OneInv, Rooted, IInv, TypeOK
    <2> QED
      BY <2>1, ForestElim, NoTopicAssumption
  <1> HIDE DEF new, done, act
  <1>6. CASE ~ (active # NoTopic /\ active # new)
    <2>1. forest' = forest
      BY <1>2, <1>5, <1>6 DEF Marked
    <2>2. Carries(act)
      <3>1. ASSUME NEW t
            PROVE  Accepts(t, act) /\ TopicsAfter(forest, act) = forest'
        BY <1>4, <2>1 DEF Accepts, TopicsAfter
      <3> QED
        BY <1>2, <1>4, <3>1, CarriesIntro
    <2>3. Finish(h, <<act>>)
      BY <1>2, <1>6
    <2> QED
      BY <1>1, <1>2, <1>3, <2>2, <2>3, AppliedOne
  <1>7. CASE active # NoTopic /\ active # new
    <2> DEFINE N  == Len(Backlog)
               B1 == Append(Backlog, done)
               t1 == Apply(ts[N], done)
               t2 == Apply(t1, act)
    <2>1. Backlog \in Seq(Op) /\ N \in Nat /\ at \in 0..N
      <3>1. Backlog \in Seq(Op)
        BY <1>1 DEF Leads, Chain
      <3>2. at \in 0..N
        BY BacklogShape, Within DEF OneInv, StoreInv
      <3> QED
        BY <3>1, <3>2
    <2>2. B1 \in Seq(Op) /\ Len(B1) = N + 1
      BY <1>3, <1>7, <2>1
    <2>3. Backlog' = Append(B1, act) /\ Len(Backlog') = N + 2 /\ pending'[h] = Idle
      <3>1. <<done, act>> \in Seq(Op)
        BY <1>3, <1>7
      <3>2. Finish(h, <<done, act>>)
        BY <1>2, <1>7
      <3>3. Backlog' = Backlog \o <<done, act>> /\ pending'[h] = Idle
        BY <1>2, <3>1, <3>2, FinishGrows DEF OneInv, StoreInv
      <3>4. Backlog \o <<done, act>> = Append(Append(Backlog, done), act)
        BY <1>3, <1>7, <2>1
      <3> QED
        BY <1>3, <2>2, <3>3, <3>4
    <2>4. Good(ts[N], used) /\ View(ts[N]) = RoomView /\ ts[at] = work
      BY <1>1, <2>1 DEF Leads
    <2>5. ts[N].topics = forest
      BY <2>4, SameView
    <2>6. forest' = Marked(forest, active, "done")
      BY <1>2, <1>7
    <2>7. /\ Accepts(ts[N], done)
          /\ t1.topics = forest' /\ t1.active = ts[N].active
      BY <1>4, <2>5, <2>6 DEF Accepts, Apply, TopicsAfter
    <2>8. Sound(t1)
      BY <1>3, <1>7, <2>4, <2>7, ApplySound DEF Good
    <2>9. Good(t1, used')
      BY <1>2, <2>4, <2>7, <2>8 DEF Good, Rooted, IInv, ForestAcyclic, Known
    <2>10. Accepts(t1, act) /\ t2.topics = forest' /\ t2.active = new
      BY <1>4, <2>7 DEF Accepts, Apply, TopicsAfter
    <2>11. Sound(t2)
      BY <1>3, <2>8, <2>10, ApplySound
    <2>12. Good(t2, used')
      BY <1>2, <2>10, <2>11 DEF Good, Rooted, IInv, ForestAcyclic, Known
    <2>13. View(t2) = RoomView'
      BY <1>2, <2>10 DEF View, RoomView
    <2>14. PICK us : Longer(us, ts, db, Backlog, done)
      <3>1. Chain(ts, db, Backlog) /\ Accepts(ts[Len(Backlog)], done)
        BY <1>1, <2>7 DEF Leads
      <3> QED
        BY <1>3, <1>7, <2>1, <3>1, ChainGrows
    <2>15. Chain(us, db, B1) /\ us[N + 1] = t1 /\ \A n \in 0..N : us[n] = ts[n]
      BY <2>14 DEF Longer
    <2>16. PICK vs : Longer(vs, us, db, B1, act)
      <3>1. Chain(us, db, B1) /\ Accepts(us[Len(B1)], act)
        BY <2>2, <2>10, <2>15
      <3> HIDE DEF B1
      <3> QED
        BY <1>3, <2>2, <3>1, ChainGrows
    <2>17. /\ Chain(vs, db, Append(B1, act))
           /\ vs[N + 2] = t2
           /\ \A n \in 0..(N + 1) : vs[n] = us[n]
      <3>1. N + 2 = (N + 1) + 1
        BY <2>1
      <3> HIDE DEF B1, t1, t2, N
      <3>2. vs[(N + 1) + 1] = Apply(us[N + 1], act)
        BY <2>2, <2>16 DEF Longer
      <3> QED
        BY <2>2, <2>15, <2>16, <3>1, <3>2 DEF Longer, t2
    <2> HIDE DEF B1, t1, t2, N
    <2>18. Leads(vs)'
      <3>1. db' = db /\ work' = work /\ at' = at
        BY DEF storeVars
      <3>2. vs[at] = work
        <4>1. at \in 0..(N + 1)
          BY <2>1
        <4> QED
          BY <2>1, <2>4, <2>15, <2>17, <4>1
      <3>3. \A n \in 0..(N + 2) : Good(vs[n], used')
        <4>1. ASSUME NEW n \in 0..N PROVE Good(vs[n], used')
          <5>1. n \in 0..(N + 1)
            BY <2>1
          <5>2. Good(ts[n], used) /\ vs[n] = ts[n]
            BY <1>1, <2>15, <2>17, <5>1 DEF Leads, N
          <5> QED
            BY <1>2, <5>2
        <4>2. Good(vs[N + 1], used')
          <5>1. N + 1 \in 0..(N + 1)
            BY <2>1
          <5> QED
            BY <2>9, <2>15, <2>17, <5>1
        <4>3. \A n \in 0..(N + 2) : n \in 0..N \/ n = N + 1 \/ n = N + 2
          BY <2>1
        <4> QED
          BY <2>12, <2>17, <4>1, <4>2, <4>3
      <3> QED
        BY <2>3, <2>13, <2>17, <3>1, <3>2, <3>3 DEF Leads
    <2> QED
      BY <1>2, <2>3, <2>18 DEF OneInv, Idle
  <1> QED
    BY <1>6, <1>7

\* A step of a handler either touches the room and sends one operation, or
\* changes nothing that is seen; set_active_topic may send two.
LEMMA HandleOne ==
    ASSUME NEW h \in Hosts, Hosts = {h}, "promote" \notin Kinds,
           OneInv(h), StoreInv', Rooted', RoomStep(h), NEW ts, Leads(ts)
    PROVE  /\ OneInv(h)'
           /\ \/ SetActiveApplied(h)
              \/ Leads1(ts)
              \/ Backlog' = Backlog /\ UNCHANGED <<forest, active, db>>
  <1> DEFINE Goal == /\ OneInv(h)'
                     /\ \/ Leads1(ts)
                        \/ Backlog' = Backlog /\ UNCHANGED <<forest, active, db>>
  <1>1. /\ forest \in Forests /\ pending[h] \in Request /\ pending \in [Hosts -> Request]
        /\ active \in used \cup {NoTopic} /\ used \subseteq Topics
        /\ active \in OptTopic
        /\ UNCHANGED storeVars
    BY DEF OneInv, Rooted, IInv, TypeOK, RoomStep
  <1>2. ASSUME NEW op \in Op, Finish(h, <<op>>), Carries(op), outbox[h] = <<>>,
               used \subseteq used', active' \in used' \cup {NoTopic}
        PROVE  Goal
    BY <1>1, <1>2, AppliedOne
  <1>3. ASSUME NEW rows, NewRows(rows), Insert(h, rows), NEW p, Exists(p), outbox[h] = <<>>,
               \A i \in DOMAIN rows :
                  \/ rows[i].topic.parent = p
                  \/ \E j \in 1..(i - 1) : rows[i].topic.parent = rows[j].id
        PROVE  Goal
    <2> DEFINE op == [kind |-> "upsert", rows |-> rows]
    <2>1. op \in Op /\ Finish(h, <<op>>)
      BY <1>3, OpIntro DEF NewRows, Insert
    <2>2. Carries(op)
      BY <1>1, <1>3, InsertCarries DEF OneInv
    <2>3. used \subseteq used' /\ active' \in used' \cup {NoTopic}
      BY <1>1, <1>3 DEF Insert
    <2> HIDE DEF op
    <2> QED
      BY <1>2, <1>3, <2>1, <2>2, <2>3
  <1>4. ASSUME \/ AddChecked(h)  \/ ImportChecked(h) \/ MoveChecked(h)
               \/ MoveRefused(h) \/ SetActiveRead(h)
        PROVE  Goal
    <2>1. UNCHANGED <<forest, active, used, outbox, queue, batch, at, work, db>>
      BY <1>1, <1>4 DEF AddChecked, ImportChecked, MoveChecked, MoveRefused,
                        SetActiveRead, Carry, storeVars
    <2>2. Backlog' = Backlog
      BY <2>1 DEF Backlog
    <2>3. pending'[h].kind = "setActive" => /\ "setActive" \in Kinds
                                            /\ pending'[h].prev = active
                                            /\ pending'[h].id \in used \cup {NoTopic}
      BY <1>1, <1>4 DEF AddChecked, ImportChecked, MoveChecked, MoveRefused,
                        SetActiveRead, Ready, Carry, Idle
    <2>4. outbox[h] # <<>> => pending'[h] = Idle
      BY <1>1, <1>4 DEF AddChecked, ImportChecked, MoveChecked, MoveRefused,
                        SetActiveRead, Carry, Ready, Idle, OneInv
    <2>5. Leads(ts)'
      BY <2>1, <2>2 DEF Leads, RoomView
    <2> QED
      BY <1>1, <2>1, <2>2, <2>3, <2>4, <2>5 DEF OneInv
  <1>5. ASSUME AddApplied(h) PROVE Goal
    <2> DEFINE p == pending[h].parent
    <2>1. PICK id \in Topics \ used, ti \in Titles :
              Insert(h, <<[id |-> id, topic |-> [parent |-> p, title |-> ti,
                                                 status |-> "pending"]]>>)
      BY <1>5 DEF AddApplied
    <2> DEFINE rows == <<[id |-> id, topic |-> [parent |-> p, title |-> ti,
                                                status |-> "pending"]]>>
    <2>2. Exists(p) /\ p \in used \cup {NoTopic} /\ outbox[h] = <<>>
      BY <1>5 DEF AddApplied, OneInv, Rooted, CarriedExists, IInv, Known, Idle
    <2>3. NewRows(rows)
      BY <2>2, OneRowNew DEF OneInv, Rooted
    <2>4. \A i \in DOMAIN rows : rows[i].topic.parent = p
      OBVIOUS
    <2>5. Insert(h, rows)
      BY <2>1
    <2> HIDE DEF rows
    <2> QED
      BY <1>3, <2>2, <2>3, <2>4, <2>5
  <1>6. ASSUME ImportApplied(h) PROVE Goal
    <2> DEFINE p     == pending[h].parent
               shape == pending[h].shape
    <2>1. /\ shape \in Shapes
          /\ Exists(p)
          /\ p \in used \cup {NoTopic}
          /\ outbox[h] = <<>>
      BY <1>1, <1>6, RequestElim
      DEF ImportApplied, OneInv, Rooted, CarriedExists, IInv, Known, Idle
    <2>2. PICK ids \in [1..Len(shape) -> Topics \ used], ti \in Titles, st \in Statuses :
              /\ \A i, j \in 1..Len(shape) : ids[i] = ids[j] => i = j
              /\ Insert(h, FlatRows(ids, p, shape, ti, st))
      BY <1>6 DEF ImportApplied
    <2> DEFINE rows == FlatRows(ids, p, shape, ti, st)
    <2>3. NewRows(rows)
      BY <2>1, <2>2, FlatRowsNew DEF OneInv, Rooted
    <2>4. /\ shape \in Seq(Nat) /\ Len(shape) \in Nat
          /\ \A i \in 1..Len(shape) : shape[i] # 0 => shape[i] \in 1..(i - 1)
      <3>1. shape \in Seq(Nat) /\ \A i \in 1..Len(shape) : shape[i] < i
        BY <2>1, ShapesAssumption
      <3>2. \A i \in 1..Len(shape) : shape[i] \in Nat
        BY <3>1
      <3> QED
        BY <3>1, <3>2
    <2>5. ASSUME NEW i \in DOMAIN rows
          PROVE  \/ rows[i].topic.parent = p
                 \/ \E j \in 1..(i - 1) : rows[i].topic.parent = rows[j].id
      <3>1. i \in 1..Len(shape)
        BY DEF FlatRows
      <3>2. CASE shape[i] = 0
        BY <3>1, <3>2 DEF FlatRows
      <3>3. CASE shape[i] # 0
        <4>1. shape[i] \in 1..(i - 1) /\ shape[i] \in 1..Len(shape)
          BY <2>4, <3>1, <3>3
        <4>2. rows[i].topic.parent = ids[shape[i]] /\ rows[shape[i]].id = ids[shape[i]]
          BY <3>1, <3>3, <4>1 DEF FlatRows
        <4> QED
          BY <4>1, <4>2
      <3> QED
        BY <3>2, <3>3
    <2>6. Insert(h, rows)
      BY <2>2
    <2> HIDE DEF rows
    <2> QED
      BY <1>3, <2>1, <2>3, <2>5, <2>6
  <1>7. ASSUME MoveApplied(h) PROVE Goal
    <2> DEFINE id == pending[h].id
               p  == pending[h].parent
               op == [kind |-> "move", id |-> id, parent |-> p]
    <2>1. /\ id \in DOMAIN forest /\ id \in Topics /\ p \in OptTopic /\ Exists(p)
          /\ forest' = Moved(forest, id, p)
          /\ active' = active /\ used' = used
          /\ Finish(h, <<op>>)
          /\ outbox[h] = <<>>
      BY <1>1, <1>7, RequestElim DEF MoveApplied, OneInv, Rooted, CarriedExists, Idle
    <2>2. op \in Op /\ op.kind = "move" /\ op.id = id /\ op.parent = p
      BY <2>1, OpIntro
    <2>3. DOMAIN forest' = DOMAIN forest
      BY <1>1, <2>1, MovedType
    <2> HIDE DEF op, id, p
    <2>4. Carries(op)
      BY <2>1, <2>2, <2>3, UpdateCarries DEF TopicsAfter
    <2> QED
      BY <1>1, <1>2, <2>1, <2>2, <2>4
  <1>8. ASSUME RenameTopic(h) PROVE Goal
    <2>1. PICK id \in DOMAIN forest, ti \in Titles :
              /\ forest' = Retitled(forest, id, ti)
              /\ Finish(h, <<[kind |-> "rename", id |-> id, title |-> ti]>>)
      BY <1>8 DEF RenameTopic
    <2> DEFINE op == [kind |-> "rename", id |-> id, title |-> ti]
    <2>2. op \in Op /\ op.kind = "rename" /\ op.id = id /\ op.title = ti
      BY <1>1, OpIntro, ForestElim
    <2>3. DOMAIN forest' = DOMAIN forest /\ active' = active /\ used' = used
          /\ outbox[h] = <<>>
      BY <1>1, <1>8, <2>1, RetitledType DEF RenameTopic, Ready
    <2> HIDE DEF op
    <2>4. Carries(op)
      BY <2>1, <2>2, <2>3, UpdateCarries DEF TopicsAfter
    <2>5. Finish(h, <<op>>)
      BY <2>1 DEF op
    <2> QED
      BY <1>1, <1>2, <2>2, <2>3, <2>4, <2>5
  <1>9. ASSUME MarkTopicDone(h) PROVE Goal
    <2>1. PICK id \in DOMAIN forest, st \in Statuses :
              /\ forest' = Marked(forest, id, st)
              /\ Finish(h, <<[kind |-> "status", id |-> id, status |-> st]>>)
      BY <1>9 DEF MarkTopicDone
    <2> DEFINE op == [kind |-> "status", id |-> id, status |-> st]
    <2>2. op \in Op /\ op.kind = "status" /\ op.id = id /\ op.status = st
      BY <1>1, OpIntro, ForestElim
    <2>3. DOMAIN forest' = DOMAIN forest /\ active' = active /\ used' = used
          /\ outbox[h] = <<>>
      BY <1>1, <1>9, <2>1, MarkedType DEF MarkTopicDone, Ready
    <2> HIDE DEF op
    <2>4. Carries(op)
      BY <2>1, <2>2, <2>3, UpdateCarries DEF TopicsAfter
    <2>5. Finish(h, <<op>>)
      BY <2>1 DEF op
    <2> QED
      BY <1>1, <1>2, <2>2, <2>3, <2>4, <2>5
  <1>10. ASSUME DeleteTopic(h) PROVE Goal
    <2>1. PICK id \in DOMAIN forest :
              /\ forest' = Without(forest, Subtree(forest, id))
              /\ active' = IF active \in Subtree(forest, id) THEN NoTopic ELSE active
              /\ Finish(h, <<[kind |-> "delete", id |-> id]>>)
      BY <1>10 DEF DeleteTopic
    <2> DEFINE op == [kind |-> "delete", id |-> id]
    <2>2. used' = used /\ outbox[h] = <<>>
      BY <1>10 DEF DeleteTopic, Ready
    <2>3. op \in Op
      BY <1>1, OpIntro, ForestElim
    <2>4. Carries(op)
      BY <2>1, <2>2, DeleteCarries DEF OneInv
    <2>5. Finish(h, <<op>>) /\ active' \in used' \cup {NoTopic}
      BY <1>1, <2>1, <2>2
    <2> HIDE DEF op
    <2> QED
      BY <1>1, <1>2, <2>2, <2>3, <2>4, <2>5
  <1>11. ASSUME SetActiveApplied(h) PROVE OneInv(h)'
    BY <1>1, <1>11, SetActiveOne
  <1>12. ~PromoteQuestion(h)
    BY DEF PromoteQuestion, Ready
  <1> HIDE DEF Goal
  <1>13. Handle(h)
    BY DEF RoomStep
  <1>14. Goal \/ (OneInv(h)' /\ SetActiveApplied(h))
    BY <1>4, <1>5, <1>6, <1>7, <1>8, <1>9, <1>10, <1>11, <1>12, <1>13 DEF Handle
  <1> QED
    BY <1>14 DEF Goal

LEMMA OneNext ==
    ASSUME NEW h \in Hosts, Hosts = {h}, "promote" \notin Kinds
    PROVE  OneInv(h) /\ [StoreNext]_allVars => OneInv(h)'
  <1> SUFFICES ASSUME OneInv(h), [StoreNext]_allVars PROVE OneInv(h)'
    OBVIOUS
  <1>1. StoreInv'
    BY StoreNextInv DEF OneInv
  <1>2. PICK ts : Leads(ts)
    BY DEF OneInv
  <1>3. CASE RoomStep(h)
    <2>1. Next
      BY <1>3 DEF Next, RoomStep
    <2>2. Rooted'
      BY <2>1, RootedNext DEF OneInv
    <2> QED
      BY <1>1, <1>2, <1>3, <2>2, HandleOne
  <1>4. CASE Enqueue(h)
    <2>1. Next
      BY <1>4 DEF Next, Enqueue
    <2>2. Rooted'
      BY <2>1, RootedNext DEF OneInv
    <2> QED
      BY <1>1, <1>4, <2>2, EnqueueOne
  <1>5. ASSUME UNCHANGED vars PROVE Rooted'
    BY <1>5, RootedNext DEF OneInv
  <1>6. CASE TakeBatch
    BY <1>1, <1>5, <1>6, TakeBatchOne DEF TakeBatch
  <1>7. CASE ApplyOp
    BY <1>1, <1>5, <1>7, ApplyOpOne DEF ApplyOp
  <1>8. ~AbortBatch
    BY OneBatchCommits DEF AbortBatch, BatchesCommit
  <1>9. CASE CommitBatch
    <2>1. UNCHANGED vars
      BY <1>9 DEF CommitBatch, EndBatch
    <2> QED
      BY <1>1, <1>2, <1>5, <1>9, <2>1, CommitOne
  <1>10. CASE Restart
    BY <1>1, <1>10, RestartOne
  <1>11. CASE UNCHANGED allVars
    <2>1. UNCHANGED vars /\ UNCHANGED storeVars
      BY <1>11 DEF allVars, vars, storeVars
    <2>2. Rooted'
      BY <1>5, <2>1
    <2>3. Backlog' = Backlog /\ \A us : Leads(us) => us[at'] = work'
      BY <2>1 DEF Backlog, Leads, vars, storeVars
    <2> QED
      BY <1>1, <2>1, <2>2, <2>3, SameBacklog DEF vars, storeVars
  <1>12. CASE StoreNext
    <2>1. RoomStep(h) \/ Enqueue(h) \/ Writer \/ Restart
      BY <1>12 DEF StoreNext
    <2> QED
      BY <1>3, <1>4, <1>6, <1>7, <1>8, <1>9, <1>10, <2>1 DEF Writer
  <1> QED
    BY <1>11, <1>12

LEMMA OneInvariance ==
    ASSUME NEW h \in Hosts, Hosts = {h}, "promote" \notin Kinds
    PROVE  StoreSpec => []OneInv(h)
  <1>1. StoreInit => OneInv(h)
    BY InitOne
  <1>2. OneInv(h) /\ [StoreNext]_allVars => OneInv(h)'
    BY OneNext
  <1> QED
    BY <1>1, <1>2, PTL DEF StoreSpec

\* With one host connection and no promotions no operation of a batch fails:
\* the parent that a check found is still there when its row is written.
THEOREM OneHostCommits ==
    ASSUME NEW h \in Hosts, Hosts = {h}, "promote" \notin Kinds
    PROVE  StoreSpec => []BatchesCommit
  <1>1. OneInv(h) => BatchesCommit
    BY OneBatchCommits
  <1> QED
    BY <1>1, OneInvariance, PTL

\* With one host connection and no promotions the rows that a restart would
\* load never have a cycle of parents.
THEOREM OneHostStoredAcyclic ==
    ASSUME NEW h \in Hosts, Hosts = {h}, "promote" \notin Kinds
    PROVE  StoreSpec => []StoredAcyclic
  <1>1. OneInv(h) => StoredAcyclic
    <2> SUFFICES ASSUME OneInv(h) PROVE Acyclic(db.topics)
      BY DEF StoredAcyclic
    <2>1. PICK ts : Leads(ts)
      BY DEF OneInv
    <2>2. Len(Backlog) \in Nat
      BY BacklogShape DEF OneInv, StoreInv
    <2>3. Good(ts[0], used) /\ ts[0] = db
      BY <2>1, <2>2 DEF Leads, Chain
    <2> QED
      BY <2>3 DEF Good
  <1> QED
    BY <1>1, OneInvariance, PTL

\* With one host connection and no promotions, what the writer has yet to see
\* turns the committed tables into the room: nothing is forgotten, repeated or
\* reordered, whatever crashes and however the operations fall into batches.
THEOREM OneHostReplay ==
    ASSUME NEW h \in Hosts, Hosts = {h}, "promote" \notin Kinds
    PROVE  StoreSpec => []ReplayReachesRoom
  <1>1. OneInv(h) => ReplayReachesRoom
    <2> SUFFICES ASSUME OneInv(h) PROVE ReplayReachesRoom
      OBVIOUS
    <2>1. PICK ts : Leads(ts)
      BY DEF OneInv
    <2>2. Ahead = ts
      BY <2>1, LeadsIsAhead DEF OneInv, StoreInv
    <2> QED
      BY <2>1, <2>2 DEF Leads, ReplayReachesRoom
  <1> QED
    BY <1>1, OneInvariance, PTL

-----------------------------------------------------------------------------
(***************************************************************************)
(* The store implements WriteBehind: a step of a handler that touches the  *)
(* room is a change, a commit is a flush of as many states as the batch    *)
(* has operations, and enqueueing, taking a batch and applying one of its  *)
(* operations are stuttering.                                              *)
(***************************************************************************)
Lag == [n \in 1..Len(Backlog) |-> View(Ahead[n])]

\* Sequences made of the images of a function.
LEMMA LagGrows ==
    ASSUME NEW N \in Nat, NEW v, NEW w, \A n \in 1..N : w[n] = v[n]
    PROVE  [n \in 1..(N + 1) |-> w[n]] = Append([n \in 1..N |-> v[n]], w[N + 1])
  <1> DEFINE S == {w[n] : n \in 1..(N + 1)}
             s == [n \in 1..N |-> v[n]]
             t == [n \in 1..(N + 1) |-> w[n]]
  <1>1. s \in [1..N -> S] /\ t \in [1..(N + 1) -> S] /\ w[N + 1] \in S
    OBVIOUS
  <1>2. s \in Seq(S) /\ t \in Seq(S)
    <2> HIDE DEF s, t, S
    <2>1. N + 1 \in Nat
      OBVIOUS
    <2> QED
      BY <1>1, <2>1, SeqDef
  <1>3. Len(s) = N /\ Len(t) = N + 1
    BY <1>2
  <1>4. /\ Append(s, w[N + 1]) \in Seq(S)
        /\ Len(Append(s, w[N + 1])) = N + 1
        /\ \A i \in 1..(N + 1) : Append(s, w[N + 1])[i] = t[i]
    <2>1. /\ t[N + 1] = w[N + 1]
          /\ \A i \in 1..N : s[i] = v[i] /\ t[i] = w[i]
      OBVIOUS
    <2> HIDE DEF s, t, S
    <2>2. /\ Append(s, w[N + 1]) \in Seq(S)
          /\ Len(Append(s, w[N + 1])) = N + 1
          /\ \A i \in 1..N : Append(s, w[N + 1])[i] = s[i]
          /\ Append(s, w[N + 1])[N + 1] = w[N + 1]
      BY <1>1, <1>2, <1>3, AppendProperties
    <2>3. \A i \in 1..(N + 1) : i = N + 1 \/ i \in 1..N
      OBVIOUS
    <2> QED
      BY <2>1, <2>2, <2>3
  <1>5. t = Append(s, w[N + 1])
    <2> HIDE DEF s, t, S
    <2> QED
      BY <1>2, <1>3, <1>4, SeqEqual
  <1> QED
    BY <1>5

LEMMA LagShrinks ==
    ASSUME NEW N \in Nat, NEW k \in 1..N, NEW v, NEW w,
           \A n \in 1..(N - k) : w[n] = v[k + n]
    PROVE  [n \in 1..(N - k) |-> w[n]] = SubSeq([n \in 1..N |-> v[n]], k + 1, N)
  <1> DEFINE S == {v[n] : n \in 1..N}
             s == [n \in 1..N |-> v[n]]
             t == [n \in 1..(N - k) |-> w[n]]
             u == SubSeq(s, k + 1, N)
  <1>1. s \in [1..N -> S] /\ t \in [1..(N - k) -> S]
    OBVIOUS
  <1>2. s \in Seq(S) /\ t \in Seq(S) /\ Len(s) = N /\ Len(t) = N - k
    <2>1. N - k \in Nat
      OBVIOUS
    <2>2. s \in Seq(S) /\ t \in Seq(S)
      <3> HIDE DEF s, t, S
      <3> QED
        BY <1>1, <2>1, SeqDef
    <2> QED
      BY <2>1, <2>2
  <1>3. u \in Seq(S) /\ Len(u) = N - k /\ \A i \in 1..(N - k) : u[i] = s[k + i]
    BY <1>2
  <1>4. \A i \in 1..(N - k) : u[i] = t[i]
    BY <1>3
  <1> QED
    BY <1>2, <1>3, <1>4, SeqEqual

LEMMA LagLen ==
    ASSUME NEW N \in Nat, NEW v
    PROVE  Len([n \in 1..N |-> v[n]]) = N
  <1> DEFINE S == {v[n] : n \in 1..N}
             s == [n \in 1..N |-> v[n]]
  <1>1. s \in Seq(S)
    BY SeqDef
  <1> QED
    BY <1>1

\* The lag as what leads to the room.
LEMMA LagIs ==
    ASSUME NEW tables, NEW ops, NEW ts, Chain(ts, tables, ops)
    PROVE  [n \in 1..Len(ops) |-> View(Replay(tables, ops)[n])]
              = [n \in 1..Len(ops) |-> View(ts[n])]
  BY ReplayIs DEF Chain

LEMMA NoLag ==
    ASSUME Backlog = <<>>
    PROVE  Lag = <<>>
  <1>1. 1..Len(<<>>) = {}
    OBVIOUS
  <1> QED
    BY <1>1 DEF Lag

LEMMA ChangeStep ==
    ASSUME NEW ts, Leads(ts), Leads1(ts), db' = db
    PROVE  Lag' = Append(Lag, RoomView')
  <1>1. PICK us : Leads(us)' /\ \A n \in 0..Len(Backlog) : us[n] = ts[n]
    BY DEF Leads1
  <1>2. /\ Chain(ts, db, Backlog) /\ Chain(us, db', Backlog')
        /\ View(us[Len(Backlog')]) = RoomView'
    BY <1>1 DEF Leads
  <1> DEFINE N == Len(Backlog)
             v == [n \in 0..N |-> View(ts[n])]
             w == [n \in 0..(N + 1) |-> View(us[n])]
  <1>3. N \in Nat /\ Len(Backlog') = N + 1
    BY <1>2 DEF Chain, Leads1
  <1>4. Lag = [n \in 1..N |-> View(ts[n])]
    BY <1>2, LagIs DEF Lag, Ahead
  <1>5. Lag' = [n \in 1..(N + 1) |-> View(us[n])]
    BY <1>2, <1>3, LagIs DEF Lag, Ahead
  <1> HIDE DEF N
  <1>6. Lag = [n \in 1..N |-> v[n]]
    <2>1. \A n \in 1..N : v[n] = View(ts[n])
      BY <1>3
    <2> QED
      BY <1>4, <2>1
  <1>7. Lag' = [n \in 1..(N + 1) |-> w[n]]
    <2>1. \A n \in 1..(N + 1) : w[n] = View(us[n])
      BY <1>3
    <2> QED
      BY <1>5, <2>1
  <1>8. /\ \A n \in 1..N : w[n] = v[n]
        /\ w[N + 1] = RoomView'
    BY <1>1, <1>2, <1>3 DEF N
  <1> HIDE DEF v, w
  <1> QED
    BY <1>3, <1>6, <1>7, <1>8, LagGrows

LEMMA FlushStep ==
    ASSUME NEW ts, Leads(ts), NEW us, Leads(us)', NEW k \in 1..Len(Backlog),
           Len(Backlog') = Len(Backlog) - k, db' = ts[k],
           \A n \in 0..Len(Backlog') : us[n] = ts[k + n]
    PROVE  /\ k \in 1..Len(Lag)
           /\ View(db)' = Lag[k]
           /\ Lag' = SubSeq(Lag, k + 1, Len(Lag))
  <1>1. Chain(ts, db, Backlog) /\ Chain(us, db', Backlog')
    BY DEF Leads
  <1> DEFINE N == Len(Backlog)
             v == [n \in 0..N |-> View(ts[n])]
             w == [n \in 0..(N - k) |-> View(us[n])]
  <1>2. N \in Nat /\ Len(Backlog') = N - k /\ k \in 1..N
    BY <1>1 DEF Chain
  <1>3. Lag = [n \in 1..N |-> View(ts[n])]
    BY <1>1, LagIs DEF Lag, Ahead
  <1>4. Lag' = [n \in 1..(N - k) |-> View(us[n])]
    BY <1>1, <1>2, LagIs DEF Lag, Ahead
  <1> HIDE DEF N
  <1>5. Lag = [n \in 1..N |-> v[n]]
    <2>1. \A n \in 1..N : v[n] = View(ts[n])
      BY <1>2
    <2> QED
      BY <1>3, <2>1
  <1>6. Lag' = [n \in 1..(N - k) |-> w[n]]
    <2>1. \A n \in 1..(N - k) : w[n] = View(us[n])
      BY <1>2
    <2> QED
      BY <1>4, <2>1
  <1>7. \A n \in 1..(N - k) : w[n] = v[k + n]
    BY <1>2
  <1>8. Lag[k] = View(db)'
    <2>1. Lag[k] = View(ts[k])
      BY <1>2, <1>3
    <2> QED
      BY <2>1
  <1> HIDE DEF v, w
  <1>9. Len(Lag) = N
    BY <1>2, <1>5, LagLen
  <1> QED
    BY <1>2, <1>5, <1>6, <1>7, <1>8, <1>9, LagShrinks

LEMMA WriteBehindStep ==
    ASSUME NEW h \in Hosts, Hosts = {h}, Kinds \cap {"promote", "setActive"} = {},
           OneInv(h), [StoreNext]_allVars
    PROVE  [WB!Change \/ WB!Flush \/ WB!Restart]_WB!vars
  <1> USE DEF WB!Change, WB!Flush, WB!Restart, WB!vars
  <1>1. StoreInv' /\ OneInv(h)'
    BY StoreNextInv, OneNext DEF OneInv
  <1>2. Rooted' /\ (\E ts : Leads(ts)) /\ StoreTypeOK
    BY <1>1 DEF OneInv, StoreInv
  <1>3. PICK ts : Leads(ts)
    BY <1>2
  <1>4. ASSUME Backlog' = Backlog, UNCHANGED <<forest, active, db>>
        PROVE  UNCHANGED <<RoomView, View(db), Lag>>
    BY <1>4 DEF RoomView, Lag, Ahead
  <1>5. CASE RoomStep(h)
    <2>1. ~SetActiveApplied(h)
      BY DEF SetActiveApplied, OneInv
    <2>2. Leads1(ts) \/ (Backlog' = Backlog /\ UNCHANGED <<forest, active, db>>)
      BY <1>1, <1>2, <1>3, <1>5, <2>1, HandleOne
    <2>3. CASE Leads1(ts)
      <3>1. db' = db
        BY <1>5 DEF RoomStep, storeVars
      <3>2. Lag' = Append(Lag, RoomView')
        BY <1>3, <2>3, <3>1, ChangeStep
      <3> QED
        BY <3>1, <3>2 DEF Lag
    <2> QED
      BY <1>4, <2>2, <2>3 DEF Lag
  <1>6. CASE Enqueue(h)
    <2>1. Backlog' = Backlog
      BY <1>1, <1>2, <1>6, EnqueueOne
    <2> QED
      BY <1>4, <1>6, <2>1 DEF Lag, Enqueue, SendOp
  <1>7. CASE TakeBatch
    <2>1. Backlog' = Backlog
      BY <1>1, <1>2, <1>7, TakeBatchOne
    <2> QED
      BY <1>4, <1>7, <2>1 DEF Lag, TakeBatch, vars
  <1>8. CASE ApplyOp
    <2>1. Backlog' = Backlog
      BY <1>1, <1>2, <1>8, ApplyOpOne
    <2> QED
      BY <1>4, <1>8, <2>1 DEF Lag, ApplyOp, vars
  <1>9. ~AbortBatch
    BY OneBatchCommits DEF AbortBatch, BatchesCommit
  <1>10. CASE CommitBatch
    <2>1. /\ Len(batch) \in 1..Len(Backlog)
          /\ Len(Backlog') = Len(Backlog) - Len(batch)
          /\ db' = ts[Len(batch)]
          /\ \E us : Leads(us)' /\ \A n \in 0..Len(Backlog') : us[n] = ts[Len(batch) + n]
      BY <1>1, <1>2, <1>3, <1>10, CommitOne
    <2>2. PICK us : Leads(us)' /\ \A n \in 0..Len(Backlog') : us[n] = ts[Len(batch) + n]
      BY <2>1
    <2>3. /\ Len(batch) \in 1..Len(Lag)
          /\ View(db)' = Lag[Len(batch)]
          /\ Lag' = SubSeq(Lag, Len(batch) + 1, Len(Lag))
      BY <1>3, <2>1, <2>2, FlushStep
    <2>4. UNCHANGED RoomView
      BY <1>10 DEF CommitBatch, EndBatch, vars, RoomView
    <2>5. \E k \in 1..Len(Lag) : View(db)' = Lag[k] /\ Lag' = SubSeq(Lag, k + 1, Len(Lag))
      BY <2>3
    <2> QED
      BY <2>4, <2>5 DEF Lag
  <1>11. CASE Restart
    <2>1. Backlog' = <<>>
      BY <1>1, <1>11, RestartOne
    <2>2. Lag' = <<>>
      <3>1. 1..Len(<<>>) = {}
        OBVIOUS
      <3> QED
        BY <2>1, <3>1 DEF Lag
    <2>3. RoomView' = View(db) /\ db' = db
      <3>1. db \in Tables
        BY <1>2 DEF StoreTypeOK
      <3>2. db = [topics |-> db.topics, active |-> db.active]
        BY <3>1 DEF Tables
      <3> QED
        BY <1>11, <3>2 DEF Restart, RoomView
    <2> QED
      BY <2>2, <2>3 DEF Lag
  <1>12. CASE UNCHANGED allVars
    <2>1. Backlog' = Backlog
      BY <1>12 DEF allVars, Backlog
    <2> QED
      BY <1>4, <1>12, <2>1 DEF Lag, allVars
  <1>13. CASE StoreNext
    <2>1. RoomStep(h) \/ Enqueue(h) \/ Writer \/ Restart
      BY <1>13 DEF StoreNext
    <2> QED
      BY <1>5, <1>6, <1>7, <1>8, <1>9, <1>10, <1>11, <2>1 DEF Writer
  <1> QED
    BY <1>12, <1>13

\* With one host connection that adds, imports, renames, moves, deletes and
\* marks topics, the room and its tables are a write-behind store: a restart
\* takes the room back to a state it was in, not older than the last commit.
\* set_active_topic is left out because it may send two operations, and what is
\* between them is no state of the room.
THEOREM OneHostWriteBehind ==
    ASSUME NEW h \in Hosts, Hosts = {h}, Kinds \cap {"promote", "setActive"} = {}
    PROVE  StoreSpec => ImplementsWriteBehind
  <1>1. StoreInit => WB!Init
    <2> SUFFICES ASSUME StoreInit PROVE WB!Init
      OBVIOUS
    <2>1. Lag = <<>>
      BY InitOne, NoLag
    <2>2. RoomView = View(db)
      BY DEF StoreInit, Init, NewTables, RoomView
    <2> QED
      BY <2>1, <2>2 DEF WB!Init, Lag
  <1>2. OneInv(h) /\ [StoreNext]_allVars => [WB!Change \/ WB!Flush \/ WB!Restart]_WB!vars
    BY WriteBehindStep
  <1>3. StoreSpec => []OneInv(h)
    <2>1. "promote" \notin Kinds
      OBVIOUS
    <2> QED
      BY <2>1, OneInvariance
  <1> QED
    BY <1>1, <1>2, <1>3, PTL DEF StoreSpec, ImplementsWriteBehind, WB!Spec
=============================================================================
