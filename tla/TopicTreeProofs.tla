-------------------------- MODULE TopicTreeProofs ---------------------------
(***************************************************************************)
(* For any number of host connections, topics, shapes of imports and any   *)
(* interleaving of their handlers: the types, the acyclicity of the topic  *)
(* forest, and the reset of the active topic by a delete.                  *)
(*                                                                         *)
(* Acyclicity is not inductive alone.  A new topic closes a cycle if some  *)
(* topic already has the new id as its parent; that cannot be, because ids *)
(* are generated when the topic is inserted and a handler only carries ids *)
(* that were generated before (Known).                                     *)
(*                                                                         *)
(* With one host connection, which has nobody between its check and its    *)
(* apply, also: no orphans, and no chain beyond the depth cap.  What the   *)
(* connection carries still passes the check it passed (CarriedExists,     *)
(* CarriedFits).                                                           *)
(***************************************************************************)
EXTENDS TopicTree, ForestProofs

Known ==
    /\ DOMAIN forest \subseteq used
    /\ \A t \in Topics : ParentOf(forest, t) \in used \cup {NoTopic}
    /\ \A h \in Hosts : pending[h].kind \in {"add", "import", "move"}
                           => pending[h].parent \in used \cup {NoTopic}

IInv == TypeOK /\ Known /\ ForestAcyclic

-----------------------------------------------------------------------------
LEMMA RequestElim ==
    ASSUME NEW r \in Request
    PROVE  /\ r.kind = "add" => r.parent \in OptTopic
           /\ r.kind = "import" => r.parent \in OptTopic /\ r.shape \in Shapes
           /\ r.kind = "move" => r.id \in Topics /\ r.parent \in OptTopic
           /\ r.kind = "setActive" => r.id \in OptTopic /\ r.prev \in OptTopic
  BY DEF Request, Idle

LEMMA RequestIntro ==
    /\ Idle \in Request
    /\ \A p \in OptTopic : [kind |-> "add", parent |-> p] \in Request
    /\ \A p \in OptTopic, s \in Shapes :
          [kind |-> "import", parent |-> p, shape |-> s] \in Request
    /\ \A t \in Topics, p \in OptTopic :
          [kind |-> "move", id |-> t, parent |-> p] \in Request
    /\ \A t, p \in OptTopic :
          [kind |-> "setActive", id |-> t, prev |-> p] \in Request
  BY DEF Request

LEMMA OpIntro ==
    /\ \A rows \in Seq(Row) : [kind |-> "upsert", rows |-> rows] \in Op
    /\ \A t \in Topics, ti \in Titles :
          [kind |-> "rename", id |-> t, title |-> ti] \in Op
    /\ \A t \in Topics, p \in OptTopic :
          [kind |-> "move", id |-> t, parent |-> p] \in Op
    /\ \A t \in Topics, s \in Statuses :
          [kind |-> "status", id |-> t, status |-> s] \in Op
    /\ \A t \in Topics : [kind |-> "delete", id |-> t] \in Op
    /\ \A t \in OptTopic : [kind |-> "active", id |-> t] \in Op
  BY DEF Op

\* What the two ways to end a step of a handler do to the connections.
LEMMA FinishType ==
    ASSUME TypeOK, NEW h \in Hosts, NEW ops \in Seq(Op), Finish(h, ops)
    PROVE  /\ pending' \in [Hosts -> Request]
           /\ outbox' \in [Hosts -> Seq(Op)]
           /\ \A k \in Hosts : pending'[k] = IF k = h THEN Idle ELSE pending[k]
  BY RequestIntro DEF TypeOK, Finish

LEMMA CarryType ==
    ASSUME TypeOK, NEW h \in Hosts, NEW r \in Request, Carry(h, r)
    PROVE  /\ TypeOK'
           /\ UNCHANGED <<forest, active, used>>
           /\ \A k \in Hosts : pending'[k] = IF k = h THEN r ELSE pending[k]
  BY DEF TypeOK, Carry

-----------------------------------------------------------------------------
(***************************************************************************)
(* Insertions: the rows of add and promote, and those of an import.        *)
(***************************************************************************)
NewRows(rows) ==
    /\ rows \in Seq(Row)
    /\ RowIds(rows) \cap used = {}
    /\ \A i, j \in DOMAIN rows : rows[i].id = rows[j].id => i = j
    /\ \A i \in DOMAIN rows :
          \/ rows[i].topic.parent \in used \cup {NoTopic}
          \/ \E j \in DOMAIN rows : j < i /\ rows[i].topic.parent = rows[j].id

LEMMA NewRowsFresh ==
    ASSUME IInv, NEW rows, NewRows(rows)
    PROVE  FreshRows(forest, rows)
  <1>1. ASSUME NEW i \in DOMAIN rows, NEW j \in DOMAIN rows,
               rows[i].topic.parent = rows[j].id
        PROVE  j < i
    <2>1. rows[j].id \in RowIds(rows) /\ rows[j].id \in Topics
      BY RowsElim DEF RowIds, NewRows
    <2>2. rows[i].topic.parent \notin used \cup {NoTopic}
      BY <1>1, <2>1, NoTopicAssumption DEF NewRows
    <2>3. QED
      BY <1>1, <2>2 DEF NewRows
  <1>2. \A t \in Topics \ RowIds(rows) : ParentOf(forest, t) \notin RowIds(rows)
    <2>1. RowIds(rows) \subseteq Topics
      BY WithRowsType DEF IInv, TypeOK, NewRows
    <2>2. RowIds(rows) \cap (used \cup {NoTopic}) = {}
      BY <2>1, NoTopicAssumption DEF NewRows
    <2>3. QED
      BY <2>2 DEF IInv, Known
  <1>3. QED
    BY <1>1, <1>2 DEF FreshRows, NewRows

LEMMA InsertKeeps ==
    ASSUME IInv, NEW h \in Hosts, NEW rows, NewRows(rows), Insert(h, rows)
    PROVE  IInv'
  <1>1. /\ forest' \in Forests
        /\ DOMAIN forest' = DOMAIN forest \cup RowIds(rows)
        /\ RowIds(rows) \subseteq Topics
    BY WithRowsType DEF IInv, TypeOK, NewRows, Insert
  <1>2. <<[kind |-> "upsert", rows |-> rows]>> \in Seq(Op)
    BY OpIntro DEF NewRows
  <1>3. /\ pending' \in [Hosts -> Request]
        /\ outbox' \in [Hosts -> Seq(Op)]
        /\ \A k \in Hosts : pending'[k] = IF k = h THEN Idle ELSE pending[k]
    BY <1>2, FinishType DEF IInv, Insert
  <1>4. TypeOK'
    BY <1>1, <1>3 DEF IInv, TypeOK, Insert
  <1>5. FreshRows(forest, rows)
    BY NewRowsFresh
  <1>6. ForestAcyclic'
    BY <1>5, AcyclicWithRows DEF IInv, TypeOK, NewRows, Insert, ForestAcyclic
  <1>7. \A t \in Topics : ParentOf(forest', t) \in used' \cup {NoTopic}
    <2> SUFFICES ASSUME NEW t \in Topics
                 PROVE  ParentOf(forest', t) \in used' \cup {NoTopic}
      OBVIOUS
    <2>1. CASE t \in RowIds(rows)
      <3>1. PICK i \in DOMAIN rows : rows[i].id = t
        BY <2>1 DEF RowIds
      <3>2. ParentOf(forest', t) = rows[i].topic.parent
        BY <1>5, <3>1, WithRowsParents DEF IInv, TypeOK, NewRows, Insert
      <3>3. QED
        BY <3>2 DEF NewRows, RowIds, Insert
    <2>2. CASE t \notin RowIds(rows)
      <3>1. ParentOf(forest', t) = ParentOf(forest, t)
        BY <1>5, <2>2, WithRowsParents DEF IInv, TypeOK, NewRows, Insert
      <3>2. QED
        BY <3>1 DEF IInv, Known, Insert
    <2>3. QED
      BY <2>1, <2>2
  <1>8. Known'
    <2>1. (DOMAIN forest \subseteq used)'
      BY <1>1 DEF IInv, Known, Insert
    <2>2. ASSUME NEW k \in Hosts, pending'[k].kind \in {"add", "import", "move"}
          PROVE  pending'[k].parent \in used' \cup {NoTopic}
      <3>1. k # h
        BY <1>3, <2>2 DEF Idle
      <3>2. QED
        BY <1>3, <2>2, <3>1 DEF IInv, Known, Insert
    <2>3. QED
      BY <1>7, <2>1, <2>2 DEF Known
  <1>9. QED
    BY <1>4, <1>6, <1>8 DEF IInv

LEMMA OneRowNew ==
    ASSUME IInv, NEW id \in Topics \ used, NEW p \in used \cup {NoTopic},
           NEW ti \in Titles
    PROVE  NewRows(<<[id |-> id,
                      topic |-> [parent |-> p, title |-> ti, status |-> "pending"]]>>)
  <1> DEFINE topic == [parent |-> p, title |-> ti, status |-> "pending"]
             rows  == <<[id |-> id, topic |-> topic]>>
  <1>1. topic \in Topic
    BY DEF Topic, OptTopic, Statuses, IInv, TypeOK
  <1>2. rows \in Seq(Row)
    BY <1>1 DEF Row
  <1>3. DOMAIN rows = {1} /\ rows[1].id = id /\ rows[1].topic.parent = p
    OBVIOUS
  <1>4. RowIds(rows) = {id}
    BY <1>3 DEF RowIds
  <1>5. QED
    BY <1>2, <1>3, <1>4 DEF NewRows

LEMMA FlatRowsNew ==
    ASSUME IInv, NEW p \in used \cup {NoTopic}, NEW shape \in Shapes,
           NEW ids \in [1..Len(shape) -> Topics \ used],
           \A i, j \in 1..Len(shape) : ids[i] = ids[j] => i = j,
           NEW ti \in Titles, NEW st \in Statuses
    PROVE  NewRows(FlatRows(ids, p, shape, ti, st))
  <1> DEFINE rows == FlatRows(ids, p, shape, ti, st)
  <1>1. /\ shape \in Seq(Nat)
        /\ \A i \in 1..Len(shape) : shape[i] \in Nat /\ shape[i] < i
    BY ShapesAssumption
  <1>2. \A i \in 1..Len(shape) : shape[i] # 0 => shape[i] \in 1..Len(shape)
    BY <1>1
  <1>3. /\ DOMAIN rows = 1..Len(shape)
        /\ \A i \in 1..Len(shape) :
              /\ rows[i].id = ids[i]
              /\ rows[i].topic.parent = IF shape[i] = 0 THEN p ELSE ids[shape[i]]
              /\ rows[i] \in Row
    BY <1>2 DEF FlatRows, Row, Topic, OptTopic, IInv, TypeOK
  <1>4. rows \in Seq(Row)
    BY <1>1, <1>3 DEF FlatRows
  <1>5. RowIds(rows) \cap used = {}
    BY <1>3 DEF RowIds
  <1>6. \A i \in DOMAIN rows :
          \/ rows[i].topic.parent \in used \cup {NoTopic}
          \/ \E j \in DOMAIN rows : j < i /\ rows[i].topic.parent = rows[j].id
    BY <1>1, <1>2, <1>3
  <1>7. QED
    BY <1>3, <1>4, <1>5, <1>6 DEF NewRows

-----------------------------------------------------------------------------
(***************************************************************************)
(* The other actions.                                                      *)
(***************************************************************************)
\* A check carries ids that were generated before.
LEMMA CarryKeeps ==
    ASSUME IInv, NEW h \in Hosts, NEW r \in Request, Carry(h, r),
           r.kind \in {"add", "import", "move"} => r.parent \in used \cup {NoTopic}
    PROVE  IInv'
  <1>1. /\ TypeOK'
        /\ UNCHANGED <<forest, active, used>>
        /\ \A k \in Hosts : pending'[k] = IF k = h THEN r ELSE pending[k]
    BY CarryType DEF IInv
  <1>2. Known'
    BY <1>1 DEF IInv, Known
  <1>3. ForestAcyclic'
    BY <1>1 DEF IInv, ForestAcyclic
  <1>4. QED
    BY <1>1, <1>2, <1>3 DEF IInv

LEMMA ExistsUsed ==
    ASSUME IInv, NEW p \in OptTopic, Exists(p)
    PROVE  p \in used \cup {NoTopic}
  BY DEF IInv, Known, Exists

\* A step that applies a change to topics that are there: it is enough that
\* no new ids appear in the forest, as topics or as parents.
LEMMA UpdateKeeps ==
    ASSUME IInv, NEW h \in Hosts, NEW ops \in Seq(Op), Finish(h, ops),
           used' = used, active' \in OptTopic,
           forest' \in Forests, DOMAIN forest' \subseteq DOMAIN forest,
           \A t \in Topics : ParentOf(forest', t) \in used \cup {NoTopic},
           Acyclic(forest')
    PROVE  IInv'
  <1>1. /\ pending' \in [Hosts -> Request]
        /\ outbox' \in [Hosts -> Seq(Op)]
        /\ \A k \in Hosts : pending'[k] = IF k = h THEN Idle ELSE pending[k]
    BY FinishType DEF IInv
  <1>2. TypeOK'
    BY <1>1 DEF IInv, TypeOK
  <1>3. ASSUME NEW k \in Hosts, pending'[k].kind \in {"add", "import", "move"}
        PROVE  pending'[k].parent \in used' \cup {NoTopic}
    <2>1. k # h
      BY <1>1, <1>3 DEF Idle
    <2>2. QED
      BY <1>1, <1>3, <2>1 DEF IInv, Known
  <1>4. Known'
    BY <1>3 DEF IInv, Known
  <1>5. QED
    BY <1>2, <1>4 DEF IInv, ForestAcyclic

\* The same when no parent moves.
LEMMA SameParentsKeeps ==
    ASSUME IInv, NEW h \in Hosts, NEW ops \in Seq(Op), Finish(h, ops),
           used' = used, active' \in OptTopic,
           forest' \in Forests, DOMAIN forest' = DOMAIN forest,
           \A t : ParentOf(forest', t) = ParentOf(forest, t)
    PROVE  IInv'
  <1>1. Acyclic(forest')
    BY AcyclicSameParents DEF IInv, ForestAcyclic
  <1>2. \A t \in Topics : ParentOf(forest', t) \in used \cup {NoTopic}
    BY DEF IInv, Known
  <1>3. QED
    BY <1>1, <1>2, UpdateKeeps

LEMMA MoveKeeps ==
    ASSUME IInv, NEW h \in Hosts, MoveApplied(h)
    PROVE  IInv'
  <1> DEFINE id == pending[h].id
             p  == pending[h].parent
  <1>1. pending[h] \in Request /\ pending[h].kind = "move"
    BY DEF IInv, TypeOK, MoveApplied
  <1>2. id \in DOMAIN forest /\ id \in Topics /\ p \in OptTopic
    BY <1>1, RequestElim DEF MoveApplied
  <1>3. p \in used \cup {NoTopic}
    BY <1>1 DEF IInv, Known
  <1>4. forest \in Forests /\ Acyclic(forest) /\ active \in OptTopic
    BY DEF IInv, TypeOK, ForestAcyclic
  <1>5. /\ forest' = Moved(forest, id, p)
        /\ p # NoTopic => id \notin Ancestors(forest, p)
        /\ UNCHANGED <<active, used>>
        /\ Finish(h, <<[kind |-> "move", id |-> id, parent |-> p]>>)
    BY DEF MoveApplied, ClosesCycle
  <1>6. Acyclic(forest')
    BY <1>2, <1>4, <1>5, AcyclicMoved
  <1>7. /\ forest' \in Forests
        /\ DOMAIN forest' = DOMAIN forest
        /\ \A x \in DOMAIN forest :
              forest'[x].parent = IF x = id THEN p ELSE forest[x].parent
    BY <1>2, <1>4, <1>5, MovedType
  <1>8. \A t \in Topics : ParentOf(forest', t) \in used \cup {NoTopic}
    BY <1>3, <1>7 DEF IInv, Known, ParentOf
  <1>9. <<[kind |-> "move", id |-> id, parent |-> p]>> \in Seq(Op)
    BY <1>2, OpIntro
  <1>10. QED
    BY <1>4, <1>5, <1>6, <1>7, <1>8, <1>9, UpdateKeeps

LEMMA DeleteKeeps ==
    ASSUME IInv, NEW h \in Hosts, DeleteTopic(h)
    PROVE  IInv'
  <1>1. PICK id \in DOMAIN forest :
            /\ forest' = Without(forest, Subtree(forest, id))
            /\ active' = IF active \in Subtree(forest, id) THEN NoTopic ELSE active
            /\ Finish(h, <<[kind |-> "delete", id |-> id]>>)
            /\ used' = used
    BY DEF DeleteTopic
  <1>2. forest \in Forests /\ Acyclic(forest) /\ active' \in OptTopic
    BY <1>1 DEF IInv, TypeOK, ForestAcyclic, OptTopic
  <1>3. /\ forest' \in Forests
        /\ DOMAIN forest' \subseteq DOMAIN forest
        /\ \A t \in DOMAIN forest' : forest'[t] = forest[t]
    <2> DEFINE R == Subtree(forest, id)
    <2>1. /\ Without(forest, R) \in Forests
          /\ DOMAIN Without(forest, R) = DOMAIN forest \ R
          /\ \A t \in DOMAIN forest \ R : Without(forest, R)[t] = forest[t]
      BY <1>2, WithoutType
    <2> HIDE DEF R
    <2>2. forest' = Without(forest, R)
      BY <1>1 DEF R
    <2>3. QED
      BY <2>1, <2>2
  <1>4. \A t \in Topics : ParentOf(forest', t) \in used \cup {NoTopic}
    BY <1>3 DEF IInv, Known, ParentOf
  <1>5. Acyclic(forest')
    BY <1>1, <1>2, AcyclicWithout
  <1>6. <<[kind |-> "delete", id |-> id]>> \in Seq(Op)
    BY <1>2, ForestElim, OpIntro
  <1>7. QED
    BY <1>1, <1>2, <1>3, <1>4, <1>5, <1>6, UpdateKeeps

LEMMA SetActiveKeeps ==
    ASSUME IInv, NEW h \in Hosts, SetActiveApplied(h)
    PROVE  IInv'
  <1> DEFINE new  == pending[h].id
             prev == pending[h].prev
             done == [kind |-> "status", id |-> prev, status |-> "done"]
             act  == [kind |-> "active", id |-> new]
             ops  == IF prev # NoTopic /\ prev # new THEN <<done, act>> ELSE <<act>>
  <1>1. pending[h] \in Request /\ new \in OptTopic /\ prev \in OptTopic
    BY RequestElim DEF IInv, TypeOK, SetActiveApplied
  <1>2. /\ forest' = IF active # new THEN Marked(forest, active, "done") ELSE forest
        /\ active' = new
        /\ used' = used
        /\ Finish(h, ops)
    BY DEF SetActiveApplied
  <1>3. act \in Op
    BY <1>1, OpIntro
  <1>4. prev # NoTopic => done \in Op
    BY <1>1, OpIntro DEF OptTopic, Statuses
  <1>5. ops \in Seq(Op)
    BY <1>3, <1>4
  <1>6. forest \in Forests /\ "done" \in Statuses
    BY DEF IInv, TypeOK, Statuses
  <1>7. /\ forest' \in Forests
        /\ DOMAIN forest' = DOMAIN forest
        /\ \A t : ParentOf(forest', t) = ParentOf(forest, t)
    BY <1>2, <1>6, MarkedType
  <1>8. QED
    BY <1>1, <1>2, <1>5, <1>7, SameParentsKeeps

-----------------------------------------------------------------------------
(***************************************************************************)
(* The invariant.                                                          *)
(***************************************************************************)
LEMMA InitInv == Init => IInv
  <1> SUFFICES ASSUME Init PROVE IInv
    OBVIOUS
  <1>1. EmptyForest \in Forests /\ DOMAIN EmptyForest = {}
    <2>1. EmptyForest \in [{} -> Topic]
      BY DEF EmptyForest
    <2>2. QED
      BY <2>1, ForestIntro
  <1>2. TypeOK
    BY <1>1, RequestIntro DEF Init, TypeOK, OptTopic
  <1>3. Known
    BY <1>1 DEF Init, Known, ParentOf, Idle
  <1>4. ForestAcyclic
    BY AcyclicEmpty DEF Init, ForestAcyclic
  <1>5. QED
    BY <1>2, <1>3, <1>4 DEF IInv

LEMMA NextInv == IInv /\ [Next]_vars => IInv'
  <1> SUFFICES ASSUME IInv, [Next]_vars PROVE IInv'
    OBVIOUS
  <1>1. ASSUME NEW h \in Hosts, AddChecked(h) PROVE IInv'
    <2>1. PICK p \in OptTopic : Exists(p) /\ Carry(h, [kind |-> "add", parent |-> p])
      BY <1>1 DEF AddChecked
    <2>2. QED
      BY <2>1, CarryKeeps, ExistsUsed, RequestIntro
  <1>2. ASSUME NEW h \in Hosts, AddApplied(h) PROVE IInv'
    <2> DEFINE p == pending[h].parent
    <2>1. PICK id \in Topics \ used, ti \in Titles :
              Insert(h, <<[id |-> id, topic |-> [parent |-> p, title |-> ti,
                                                 status |-> "pending"]]>>)
      BY <1>2 DEF AddApplied
    <2>2. p \in used \cup {NoTopic}
      BY <1>2 DEF AddApplied, IInv, Known
    <2>3. QED
      BY <2>1, <2>2, OneRowNew, InsertKeeps
  <1>3. ASSUME NEW h \in Hosts, ImportChecked(h) PROVE IInv'
    <2>1. PICK p \in OptTopic, shape \in Shapes :
              Exists(p) /\ Carry(h, [kind |-> "import", parent |-> p, shape |-> shape])
      BY <1>3 DEF ImportChecked, ImportAllowed
    <2>2. QED
      BY <2>1, CarryKeeps, ExistsUsed, RequestIntro
  <1>4. ASSUME NEW h \in Hosts, ImportApplied(h) PROVE IInv'
    <2> DEFINE p     == pending[h].parent
               shape == pending[h].shape
    <2>1. pending[h] \in Request /\ shape \in Shapes /\ p \in used \cup {NoTopic}
      BY <1>4, RequestElim DEF ImportApplied, IInv, TypeOK, Known
    <2>2. PICK ids \in [1..Len(shape) -> Topics \ used], ti \in Titles, st \in Statuses :
              /\ \A i, j \in 1..Len(shape) : ids[i] = ids[j] => i = j
              /\ Insert(h, FlatRows(ids, p, shape, ti, st))
      BY <1>4 DEF ImportApplied
    <2>3. QED
      BY <2>1, <2>2, FlatRowsNew, InsertKeeps
  <1>5. ASSUME NEW h \in Hosts, MoveChecked(h) PROVE IInv'
    <2>1. PICK id \in used, p \in OptTopic :
              Exists(p) /\ Carry(h, [kind |-> "move", id |-> id, parent |-> p])
      BY <1>5 DEF MoveChecked
    <2>2. id \in Topics
      BY DEF IInv, TypeOK
    <2>3. QED
      BY <2>1, <2>2, CarryKeeps, ExistsUsed, RequestIntro
  <1>6. ASSUME NEW h \in Hosts, MoveApplied(h) PROVE IInv'
    BY <1>6, MoveKeeps
  <1>7. ASSUME NEW h \in Hosts, MoveRefused(h) PROVE IInv'
    BY <1>7, CarryKeeps, RequestIntro DEF MoveRefused, Idle
  <1>8. ASSUME NEW h \in Hosts, RenameTopic(h) PROVE IInv'
    <2>1. PICK id \in DOMAIN forest, ti \in Titles :
              /\ forest' = Retitled(forest, id, ti)
              /\ Finish(h, <<[kind |-> "rename", id |-> id, title |-> ti]>>)
      BY <1>8 DEF RenameTopic
    <2>2. <<[kind |-> "rename", id |-> id, title |-> ti]>> \in Seq(Op)
      BY OpIntro, ForestElim DEF IInv, TypeOK
    <2>3. UNCHANGED <<active, used>> /\ active \in OptTopic /\ forest \in Forests
      BY <1>8 DEF RenameTopic, IInv, TypeOK
    <2>4. QED
      BY <2>1, <2>2, <2>3, RetitledType, SameParentsKeeps
  <1>9. ASSUME NEW h \in Hosts, MarkTopicDone(h) PROVE IInv'
    <2>1. PICK id \in DOMAIN forest, st \in Statuses :
              /\ forest' = Marked(forest, id, st)
              /\ Finish(h, <<[kind |-> "status", id |-> id, status |-> st]>>)
      BY <1>9 DEF MarkTopicDone
    <2>2. <<[kind |-> "status", id |-> id, status |-> st]>> \in Seq(Op)
      BY OpIntro, ForestElim DEF IInv, TypeOK
    <2>3. UNCHANGED <<active, used>> /\ active \in OptTopic /\ forest \in Forests
      BY <1>9 DEF MarkTopicDone, IInv, TypeOK
    <2>4. QED
      BY <2>1, <2>2, <2>3, MarkedType, SameParentsKeeps
  <1>10. ASSUME NEW h \in Hosts, DeleteTopic(h) PROVE IInv'
    BY <1>10, DeleteKeeps
  <1>11. ASSUME NEW h \in Hosts, PromoteQuestion(h) PROVE IInv'
    <2>1. PICK p \in used \cup {NoTopic}, id \in Topics \ used, ti \in Titles :
              Insert(h, <<[id |-> id, topic |-> [parent |-> p, title |-> ti,
                                                 status |-> "pending"]]>>)
      BY <1>11 DEF PromoteQuestion
    <2>2. QED
      BY <2>1, OneRowNew, InsertKeeps
  <1>12. ASSUME NEW h \in Hosts, SetActiveRead(h) PROVE IInv'
    <2>1. PICK new \in used \cup {NoTopic} :
              Carry(h, [kind |-> "setActive", id |-> new, prev |-> active])
      BY <1>12 DEF SetActiveRead
    <2>2. new \in OptTopic /\ active \in OptTopic
      BY DEF IInv, TypeOK, OptTopic
    <2>3. QED
      BY <2>1, <2>2, CarryKeeps, RequestIntro
  <1>13. ASSUME NEW h \in Hosts, SetActiveApplied(h) PROVE IInv'
    BY <1>13, SetActiveKeeps
  <1>14. ASSUME NEW h \in Hosts, SendOp(h) PROVE IInv'
    <2>1. TypeOK'
      BY <1>14 DEF IInv, TypeOK, SendOp
    <2>2. Known' /\ ForestAcyclic'
      BY <1>14 DEF IInv, Known, ForestAcyclic, SendOp
    <2>3. QED
      BY <2>1, <2>2 DEF IInv
  <1>15. CASE UNCHANGED vars
    BY <1>15 DEF vars, IInv, TypeOK, Known, ForestAcyclic
  <1>16. QED
    BY <1>1, <1>2, <1>3, <1>4, <1>5, <1>6, <1>7, <1>8, <1>9, <1>10, <1>11,
       <1>12, <1>13, <1>14, <1>15 DEF Next, Handle

LEMMA Invariance == Spec => []IInv
  BY InitInv, NextInv, PTL DEF Spec

\* The types of the room, of what a handler carries and of what it sends.
THEOREM TypeCorrect == Spec => []TypeOK
  <1>1. IInv => TypeOK
    BY DEF IInv
  <1>2. QED
    BY <1>1, Invariance, PTL

\* However many host connections restructure the room at once, no parent
\* chain of Room.inner.topics closes into a cycle, so every walk over it ends.
THEOREM AlwaysAcyclic == Spec => []ForestAcyclic
  <1>1. IInv => ForestAcyclic
    BY DEF IInv
  <1>2. QED
    BY <1>1, Invariance, PTL

-----------------------------------------------------------------------------
(***************************************************************************)
(* The active topic.                                                       *)
(***************************************************************************)
\* Only a delete takes topics out of the room, and it resets the active topic
\* when it takes that one.
THEOREM DeletedNeverActive == Spec => DeleteClearsActive
  <1> DEFINE Kept == active' = active /\ active \in DOMAIN forest => Exists(active)'
  <1>1. IInv /\ [Next]_vars => [Kept]_vars
    <2> SUFFICES ASSUME IInv, Next, active' = active, active \in DOMAIN forest
                 PROVE  active \in DOMAIN forest'
      BY DEF Exists
    <2>1. forest \in Forests
      BY DEF IInv, TypeOK
    <2>2. ASSUME NEW h \in Hosts, NEW rows \in Seq(Row), Insert(h, rows)
          PROVE  active \in DOMAIN forest'
      BY <2>1, <2>2, WithRowsType DEF Insert
    <2>3. ASSUME NEW h \in Hosts, AddApplied(h) \/ PromoteQuestion(h)
          PROVE  active \in DOMAIN forest'
      BY <2>3 DEF AddApplied, PromoteQuestion, Insert, WithRows
    <2>4. ASSUME NEW h \in Hosts, ImportApplied(h)
          PROVE  active \in DOMAIN forest'
      BY <2>4 DEF ImportApplied, Insert, WithRows
    <2>5. ASSUME NEW h \in Hosts, DeleteTopic(h)
          PROVE  active \in DOMAIN forest'
      <3>1. PICK id \in DOMAIN forest :
                /\ forest' = Without(forest, Subtree(forest, id))
                /\ active' = IF active \in Subtree(forest, id) THEN NoTopic ELSE active
        BY <2>5 DEF DeleteTopic
      <3>2. active # NoTopic
        BY <2>1, ForestElim, NoTopicAssumption
      <3>3. active \notin Subtree(forest, id)
        BY <3>1, <3>2
      <3>4. QED
        BY <3>1, <3>3 DEF Without
    <2>6. ASSUME NEW h \in Hosts,
                 \/ MoveApplied(h)  \/ RenameTopic(h)
                 \/ MarkTopicDone(h) \/ SetActiveApplied(h)
          PROVE  active \in DOMAIN forest'
      BY <2>6 DEF MoveApplied, RenameTopic, MarkTopicDone, SetActiveApplied,
                  Moved, Retitled, Marked
    <2>7. ASSUME NEW h \in Hosts,
                 \/ AddChecked(h)  \/ ImportChecked(h) \/ MoveChecked(h)
                 \/ MoveRefused(h) \/ SetActiveRead(h) \/ SendOp(h)
          PROVE  active \in DOMAIN forest'
      BY <2>7 DEF AddChecked, ImportChecked, MoveChecked, MoveRefused,
                  SetActiveRead, SendOp, Carry
    <2>8. QED
      BY <2>3, <2>4, <2>5, <2>6, <2>7 DEF Next, Handle
  <1>2. QED
    BY <1>1, Invariance, PTL DEF Spec, DeleteClearsActive

-----------------------------------------------------------------------------
(***************************************************************************)
(* One host connection: nothing happens between a check and its apply.     *)
(***************************************************************************)
\* What a delete leaves has no parent among what it takes.
LEMMA SubtreeClosed ==
    ASSUME NEW f \in Forests, NEW id \in Topics, NEW t \in DOMAIN f,
           ParentOf(f, t) \in Subtree(f, id)
    PROVE  t \in Subtree(f, id)
  <1> DEFINE p == ParentOf(f, t)
  <1>1. p \in Topics /\ p # NoTopic /\ id \in Ancestors(f, p)
    BY ForestElim, NoTopicAssumption DEF Subtree
  <1>2. ASSUME NEW C \in SUBSET Topics, t \in C, UpClosed(f, C)
        PROVE  id \in C
    <2>1. p \in C
      BY <1>1, <1>2 DEF UpClosed
    <2>2. QED
      BY <1>1, <1>2, <2>1 DEF Ancestors
  <1>3. QED
    BY <1>2 DEF Subtree, Ancestors

CarriedExists ==
    \A h \in Hosts : pending[h].kind \in {"add", "import", "move"}
                         => Exists(pending[h].parent)

Rooted == IInv /\ NoOrphans /\ CarriedExists

\* With one connection an insertion finds the parent its check found.
LEMMA InsertRooted ==
    ASSUME Rooted, NEW h \in Hosts, NEW rows, NewRows(rows), Insert(h, rows),
           NEW p, Exists(p), Hosts = {h},
           \A i \in DOMAIN rows :
              \/ rows[i].topic.parent = p
              \/ \E j \in DOMAIN rows : rows[i].topic.parent = rows[j].id
    PROVE  NoOrphans' /\ CarriedExists'
  <1>1. FreshRows(forest, rows) /\ forest \in Forests /\ rows \in Seq(Row)
    BY NewRowsFresh DEF Rooted, IInv, TypeOK, NewRows
  <1>2. DOMAIN forest' = DOMAIN forest \cup RowIds(rows) /\ RowIds(rows) \subseteq Topics
    BY <1>1, WithRowsType DEF Insert
  <1>3. ASSUME NEW t \in DOMAIN forest'
        PROVE  ParentOf(forest', t) \in DOMAIN forest' \cup {NoTopic}
    <2>1. CASE t \in RowIds(rows)
      <3>1. PICK i \in DOMAIN rows : rows[i].id = t
        BY <2>1 DEF RowIds
      <3>2. ParentOf(forest', t) = rows[i].topic.parent
        BY <1>1, <3>1, WithRowsParents DEF Insert
      <3>3. QED
        BY <1>2, <3>2 DEF Exists, RowIds
    <2>2. CASE t \notin RowIds(rows)
      <3>1. t \in DOMAIN forest /\ t \in Topics
        BY <1>1, <1>2, <1>3, <2>2, ForestElim
      <3>2. ParentOf(forest', t) = ParentOf(forest, t)
        BY <1>1, <2>2, <3>1, WithRowsParents DEF Insert
      <3>3. QED
        BY <1>2, <3>1, <3>2 DEF Rooted, NoOrphans, Exists, ParentOf
    <2>3. QED
      BY <2>1, <2>2
  <1>4. NoOrphans'
    BY <1>3 DEF NoOrphans, Exists, ParentOf
  <1>5. CarriedExists'
    BY DEF CarriedExists, Insert, Finish, Idle, Rooted, IInv, TypeOK
  <1>6. QED
    BY <1>4, <1>5

\* A step that leaves nothing carried keeps what only the forest decides.
LEMMA OneIdle ==
    ASSUME Rooted, NEW h \in Hosts, Hosts = {h}, pending'[h] = Idle
    PROVE  CarriedExists'
  BY DEF CarriedExists, Idle

LEMMA RootedNext ==
    ASSUME NEW h \in Hosts, Hosts = {h}, "promote" \notin Kinds
    PROVE  Rooted /\ [Next]_vars => Rooted'
  <1> SUFFICES ASSUME Rooted, [Next]_vars PROVE Rooted'
    OBVIOUS
  <1>1. IInv'
    BY NextInv DEF Rooted
  <1>2. /\ forest \in Forests
        /\ pending \in [Hosts -> Request]
        /\ \A t \in DOMAIN forest : forest[t].parent \in DOMAIN forest \cup {NoTopic}
    BY DEF Rooted, IInv, TypeOK, NoOrphans, Exists
  <1>3. ASSUME \/ AddChecked(h)  \/ ImportChecked(h) \/ MoveChecked(h)
               \/ MoveRefused(h) \/ SetActiveRead(h)
        PROVE  NoOrphans' /\ CarriedExists'
    <2>1. UNCHANGED forest
      BY <1>3 DEF AddChecked, ImportChecked, MoveChecked, MoveRefused,
                  SetActiveRead, Carry
    <2>2. pending'[h].kind \in {"add", "import", "move"} => Exists(pending'[h].parent)
      BY <1>2, <1>3 DEF AddChecked, ImportChecked, ImportAllowed, MoveChecked,
                        MoveRefused, SetActiveRead, Carry, Idle
    <2>3. QED
      BY <2>1, <2>2 DEF Rooted, NoOrphans, CarriedExists, Exists
  <1>4. ASSUME AddApplied(h)
        PROVE  NoOrphans' /\ CarriedExists'
    <2> DEFINE p == pending[h].parent
    <2>1. PICK id \in Topics \ used, ti \in Titles :
              Insert(h, <<[id |-> id, topic |-> [parent |-> p, title |-> ti,
                                                 status |-> "pending"]]>>)
      BY <1>4 DEF AddApplied
    <2> DEFINE rows == <<[id |-> id, topic |-> [parent |-> p, title |-> ti,
                                                status |-> "pending"]]>>
    <2>2. Exists(p) /\ p \in used \cup {NoTopic}
      BY <1>4 DEF AddApplied, Rooted, CarriedExists, IInv, Known
    <2>3. NewRows(rows)
      BY <2>2, OneRowNew DEF Rooted
    <2>4. \A i \in DOMAIN rows : rows[i].topic.parent = p
      OBVIOUS
    <2>5. Insert(h, rows)
      BY <2>1
    <2> HIDE DEF rows
    <2>6. QED
      BY <2>2, <2>3, <2>4, <2>5, InsertRooted
  <1>5. ASSUME ImportApplied(h)
        PROVE  NoOrphans' /\ CarriedExists'
    <2> DEFINE p     == pending[h].parent
               shape == pending[h].shape
    <2>1. /\ shape \in Shapes
          /\ Exists(p)
          /\ p \in used \cup {NoTopic}
      BY <1>2, <1>5, RequestElim DEF ImportApplied, Rooted, CarriedExists, IInv, Known
    <2>2. PICK ids \in [1..Len(shape) -> Topics \ used], ti \in Titles, st \in Statuses :
              /\ \A i, j \in 1..Len(shape) : ids[i] = ids[j] => i = j
              /\ Insert(h, FlatRows(ids, p, shape, ti, st))
      BY <1>5 DEF ImportApplied
    <2> DEFINE rows == FlatRows(ids, p, shape, ti, st)
    <2>3. NewRows(rows)
      BY <2>1, <2>2, FlatRowsNew DEF Rooted
    <2>4. /\ shape \in Seq(Nat)
          /\ \A i \in 1..Len(shape) : shape[i] # 0 => shape[i] \in 1..Len(shape)
      <3>1. shape \in Seq(Nat) /\ \A i \in 1..Len(shape) : shape[i] < i
        BY <2>1, ShapesAssumption
      <3>2. \A i \in 1..Len(shape) : shape[i] \in Nat
        BY <3>1
      <3>3. QED
        BY <3>1, <3>2
    <2>5. \A i \in DOMAIN rows :
              \/ rows[i].topic.parent = p
              \/ \E j \in DOMAIN rows : rows[i].topic.parent = rows[j].id
      BY <2>4 DEF FlatRows
    <2> HIDE DEF rows
    <2>6. QED
      BY <2>1, <2>2, <2>3, <2>5, InsertRooted DEF rows
  <1>6. ASSUME MoveApplied(h)
        PROVE  NoOrphans' /\ CarriedExists'
    <2> DEFINE id == pending[h].id
               p  == pending[h].parent
    <2>1. pending[h] \in Request /\ pending[h].kind = "move" /\ Exists(p)
      BY <1>2, <1>6 DEF MoveApplied, Rooted, CarriedExists
    <2>2. id \in DOMAIN forest /\ forest' = Moved(forest, id, p) /\ p \in OptTopic
      BY <1>6, <2>1, RequestElim DEF MoveApplied
    <2>3. /\ DOMAIN forest' = DOMAIN forest
          /\ \A x \in DOMAIN forest :
                forest'[x].parent = IF x = id THEN p ELSE forest[x].parent
      BY <1>2, <2>2, MovedType
    <2>4. NoOrphans'
      BY <1>2, <2>1, <2>3 DEF NoOrphans, Exists
    <2>5. pending'[h] = Idle
      BY <1>2, <1>6 DEF MoveApplied, Finish
    <2>6. QED
      BY <2>4, <2>5, OneIdle
  <1>7. ASSUME DeleteTopic(h)
        PROVE  NoOrphans' /\ CarriedExists'
    <2>1. PICK id \in DOMAIN forest : forest' = Without(forest, Subtree(forest, id))
      BY <1>7 DEF DeleteTopic
    <2>2. id \in Topics
      BY <1>2, ForestElim
    <2>3. ASSUME NEW t \in DOMAIN forest'
          PROVE  forest'[t].parent \in DOMAIN forest' \cup {NoTopic}
      <3>1. t \in DOMAIN forest /\ t \notin Subtree(forest, id) /\ forest'[t] = forest[t]
        BY <2>1, <2>3 DEF Without
      <3>2. ParentOf(forest, t) \notin Subtree(forest, id)
        BY <1>2, <2>2, <3>1, SubtreeClosed
      <3>3. QED
        BY <1>2, <2>1, <3>1, <3>2 DEF Without, ParentOf
    <2>4. NoOrphans'
      BY <2>3 DEF NoOrphans, Exists
    <2>5. pending'[h] = Idle
      BY <1>2, <1>7 DEF DeleteTopic, Finish
    <2>6. QED
      BY <2>4, <2>5, OneIdle
  <1>8. ASSUME RenameTopic(h) \/ MarkTopicDone(h) \/ SetActiveApplied(h)
        PROVE  NoOrphans' /\ CarriedExists'
    <2>1. DOMAIN forest' = DOMAIN forest /\ pending'[h] = Idle
      BY <1>2, <1>8 DEF RenameTopic, MarkTopicDone, SetActiveApplied, Finish,
                        Retitled, Marked
    <2>2. \A t : ParentOf(forest', t) = ParentOf(forest, t)
      <3>1. CASE RenameTopic(h)
        BY <1>2, <3>1, RetitledType DEF RenameTopic
      <3>2. CASE MarkTopicDone(h)
        BY <1>2, <3>2, MarkedType DEF MarkTopicDone
      <3>3. CASE SetActiveApplied(h)
        BY <1>2, <3>3, MarkedType DEF SetActiveApplied, Statuses
      <3>4. QED
        BY <1>8, <3>1, <3>2, <3>3
    <2>3. NoOrphans'
      BY <1>2, <2>1, <2>2 DEF NoOrphans, Exists, ParentOf
    <2>4. QED
      BY <2>1, <2>3, OneIdle
  <1>9. ASSUME SendOp(h) \/ UNCHANGED vars
        PROVE  NoOrphans' /\ CarriedExists'
    BY <1>9 DEF SendOp, vars, Rooted, NoOrphans, CarriedExists, Exists
  <1>10. ~PromoteQuestion(h)
    BY DEF PromoteQuestion, Ready
  <1>11. CASE UNCHANGED vars
    BY <1>1, <1>9, <1>11 DEF Rooted
  <1>12. CASE Next
    <2>1. Handle(h) \/ SendOp(h)
      BY <1>12 DEF Next
    <2>2. QED
      BY <1>1, <1>3, <1>4, <1>5, <1>6, <1>7, <1>8, <1>9, <1>10, <2>1
      DEF Handle, Rooted
  <1>13. QED
    BY <1>11, <1>12

LEMMA InitRooted == Init => Rooted
  <1> SUFFICES ASSUME Init PROVE Rooted
    OBVIOUS
  <1>1. DOMAIN forest = {}
    BY DEF Init, EmptyForest
  <1>2. NoOrphans /\ CarriedExists
    BY <1>1 DEF Init, NoOrphans, CarriedExists, Idle
  <1>3. QED
    BY <1>2, InitInv DEF Rooted

\* With a single host connection, and no promotions, every parent a topic
\* names is a topic of the room: the checks of add, import and move suffice.
THEOREM OneHostNoOrphans ==
    ASSUME NEW h \in Hosts, Hosts = {h}, "promote" \notin Kinds
    PROVE  Spec => []NoOrphans
  <1>1. Init => Rooted
    BY InitRooted
  <1>2. Rooted /\ [Next]_vars => Rooted'
    BY RootedNext
  <1>3. Rooted => NoOrphans
    BY DEF Rooted
  <1>4. QED
    BY <1>1, <1>2, <1>3, PTL DEF Spec

-----------------------------------------------------------------------------
(***************************************************************************)
(* The depth cap with one host connection.                                 *)
(***************************************************************************)
\* The level function of Levels: one level below the parent.
LevelAt(shape, f, i) == IF shape[i] = 0 THEN 1 ELSE f[shape[i]] + 1

LevelledTo(shape, n) ==
    \E f \in [1..n -> Nat] : \A i \in 1..n : f[i] = LevelAt(shape, f, i)

\* A parent comes before its children, so the levels can be given in order.
LEMMA LevelsExist ==
    ASSUME NEW L \in Nat, NEW shape \in [1..L -> Nat], \A i \in 1..L : shape[i] < i
    PROVE  LevelledTo(shape, L)
  <1> DEFINE Bad == {n \in 0..L : ~LevelledTo(shape, n)}
  <1> SUFFICES ASSUME Bad # {} PROVE FALSE
    OBVIOUS
  <1>1. PICK n \in Bad : \A m \in Bad : n <= m
    <2>1. Bad \in SUBSET Nat
      OBVIOUS
    <2>2. QED
      BY <2>1, SmallestNat
  <1>2. n \in 0..L /\ ~LevelledTo(shape, n)
    BY <1>1
  <1>3. LevelledTo(shape, 0)
    <2>1. 1..0 = {}
      OBVIOUS
    <2>2. [i \in 1..0 |-> 0] \in [1..0 -> Nat]
      OBVIOUS
    <2>3. QED
      BY <2>1, <2>2 DEF LevelledTo
  <1>4. n # 0
    BY <1>2, <1>3
  <1>5. LevelledTo(shape, n - 1)
    BY <1>1, <1>2, <1>4
  <1>6. PICK f \in [1..(n - 1) -> Nat] : \A i \in 1..(n - 1) : f[i] = LevelAt(shape, f, i)
    BY <1>5 DEF LevelledTo
  <1> DEFINE g == [i \in 1..n |-> IF i < n THEN f[i] ELSE LevelAt(shape, f, n)]
  <1>7. \A i \in 1..n : shape[i] \in Nat /\ (shape[i] # 0 => shape[i] \in 1..(n - 1))
    BY <1>2
  <1>8. LevelAt(shape, f, n) \in Nat
    <2>1. n \in 1..n
      BY <1>2, <1>4
    <2>2. shape[n] # 0 => f[shape[n]] \in Nat
      BY <1>7, <2>1
    <2>3. QED
      BY <2>2 DEF LevelAt
  <1>9. g \in [1..n -> Nat]
    BY <1>2, <1>8
  <1>10. ASSUME NEW i \in 1..n PROVE g[i] = LevelAt(shape, g, i)
    <2>1. shape[i] # 0 => g[shape[i]] = f[shape[i]]
      BY <1>2, <1>7
    <2>2. LevelAt(shape, g, i) = LevelAt(shape, f, i)
      BY <2>1 DEF LevelAt
    <2>3. CASE i < n
      BY <1>2, <1>6, <2>2, <2>3
    <2>4. CASE i = n
      BY <1>2, <2>2, <2>4
    <2>5. QED
      BY <1>2, <2>3, <2>4
  <1>11. LevelledTo(shape, n)
    BY <1>9, <1>10 DEF LevelledTo
  <1>12. QED
    BY <1>2, <1>11

\* What Levels computes: each node has a level, one below its parent's, and
\* none is deeper than Levels says.
LEMMA LevelsIs ==
    ASSUME NEW shape \in Shapes
    PROVE  /\ Levels(shape) \in Nat
           /\ \E lev \in [1..Len(shape) -> Nat] :
                 \A i \in 1..Len(shape) :
                    /\ lev[i] = LevelAt(shape, lev, i)
                    /\ lev[i] <= Levels(shape)
  <1> DEFINE L == Len(shape)
             level[i \in 1..L] == IF shape[i] = 0 THEN 1 ELSE level[shape[i]] + 1
             S == {level[i] : i \in 1..L}
  <1>1. /\ L \in Nat /\ L # 0 /\ shape \in [1..L -> Nat]
        /\ \A i \in 1..L : shape[i] < i
    <2>1. shape \in Seq(Nat) /\ shape # <<>> /\ \A i \in 1..Len(shape) : shape[i] < i
      BY ShapesAssumption
    <2>2. QED
      BY <2>1
  <1>2. Levels(shape) = Max(S)
    BY DEF Levels
  <1>3. level = [i \in 1..L |-> IF shape[i] = 0 THEN 1 ELSE level[shape[i]] + 1]
    <2>1. \E f : f = [i \in 1..L |-> IF shape[i] = 0 THEN 1 ELSE f[shape[i]] + 1]
      <3>1. LevelledTo(shape, L)
        BY <1>1, LevelsExist
      <3>2. PICK f \in [1..L -> Nat] : \A i \in 1..L : f[i] = LevelAt(shape, f, i)
        BY <3>1 DEF LevelledTo
      <3>3. f = [i \in 1..L |-> IF shape[i] = 0 THEN 1 ELSE f[shape[i]] + 1]
        BY <3>2 DEF LevelAt
      <3>4. QED
        BY <3>3
    <2> HIDE DEF L
    <2>2. QED
      BY <2>1
  <1> HIDE DEF level
  <1>4. \A i \in 1..L : level[i] = LevelAt(shape, level, i)
    BY <1>3 DEF LevelAt
  <1> DEFINE Bad == {i \in 1..L : ~ (level[i] \in Nat /\ level[i] <= i)}
  <1>5. Bad = {}
    <2> SUFFICES ASSUME Bad # {} PROVE FALSE
      OBVIOUS
    <2>1. PICK i \in Bad : \A j \in Bad : i <= j
      <3> HIDE DEF L
      <3>1. Bad \in SUBSET Nat
        OBVIOUS
      <3>2. QED
        BY <3>1, SmallestNat
    <2>2. i \in 1..L /\ level[i] = LevelAt(shape, level, i) /\ shape[i] \in Nat /\ shape[i] < i
      BY <1>1, <1>4, <2>1
    <2>3. shape[i] # 0
      BY <2>1, <2>2 DEF LevelAt
    <2>4. shape[i] \in 1..L /\ shape[i] \notin Bad
      BY <1>1, <2>1, <2>2, <2>3
    <2>5. level[shape[i]] \in Nat /\ level[shape[i]] <= shape[i]
      BY <2>4
    <2>6. level[i] = level[shape[i]] + 1
      BY <2>2, <2>3 DEF LevelAt
    <2>7. level[i] \in Nat /\ level[i] <= i
      BY <2>2, <2>5, <2>6
    <2>8. QED
      BY <2>1, <2>7
  <1>6. \A i \in 1..L : level[i] \in Nat /\ level[i] <= i
    BY <1>5
  <1>7. level \in [1..L -> Nat]
    <2> HIDE DEF L
    <2>1. level = [i \in 1..L |-> level[i]]
      BY <1>3
    <2>2. QED
      BY <1>6, <2>1
  <1>8. Max(S) \in S /\ \A x \in S : x <= Max(S)
    <2>1. S \in SUBSET Nat /\ \A x \in S : x <= L
      BY <1>1, <1>6
    <2>2. level[1] \in S
      BY <1>1
    <2> HIDE DEF S, L
    <2>3. QED
      BY <1>1, <2>1, <2>2, MaxNat
  <1>9. Levels(shape) \in Nat /\ \A i \in 1..L : level[i] <= Levels(shape)
    BY <1>2, <1>6, <1>8
  <1>10. QED
    BY <1>4, <1>7, <1>9

\* What the connection carries still passes the depth check it passed.
CarriedFits ==
    \A h \in Hosts :
        LET r == pending[h]
        IN  /\ r.kind = "add" => ChildDepth(r.parent) <= MaxTopicDepth
            /\ r.kind = "import" =>
                  ImportBase(r.parent) + Levels(r.shape) + 1 <= MaxTopicDepth
            /\ r.kind = "move" =>
                  ChildDepth(r.parent) + Height(forest, r.id) - 1 <= MaxTopicDepth

Capped == Rooted /\ IsFiniteSet(DOMAIN forest) /\ DepthWithinCap /\ CarriedFits

LEMMA CappedWhole ==
    ASSUME Rooted, IsFiniteSet(DOMAIN forest)
    PROVE  /\ Whole(forest)
           /\ \A t \in DOMAIN forest :
                 /\ Unbroken(forest, t)
                 /\ Depth(forest, t) \in Nat
                 /\ ChildDepth(t) = Depth(forest, t) + 1
                 /\ ImportBase(t) = Depth(forest, t)
           /\ NoTopic \notin DOMAIN forest
  <1>1. forest \in Forests
    BY DEF Rooted, IInv, TypeOK
  <1>2. Whole(forest)
    BY <1>1 DEF Whole, Rooted, NoOrphans, Exists, ParentOf
  <1>3. NoTopic \notin DOMAIN forest
    BY <1>1, ForestElim, NoTopicAssumption
  <1>4. \A t \in DOMAIN forest : Unbroken(forest, t) /\ Depth(forest, t) \in Nat
    BY <1>2, WholeWalk DEF Unbroken
  <1>5. QED
    BY <1>2, <1>3, <1>4 DEF ChildDepth, ImportBase

\* An insertion within the cap leaves every topic within it.
LEMMA InsertCapped ==
    ASSUME Capped, Rooted', NEW h \in Hosts, Hosts = {h},
           NEW rows, NewRows(rows), Insert(h, rows),
           NEW base \in Nat, NEW lev \in [DOMAIN rows -> Nat],
           \A i \in DOMAIN rows :
              /\ base + lev[i] <= MaxTopicDepth
              /\ \/ rows[i].topic.parent = NoTopic /\ lev[i] >= 1
                 \/ /\ rows[i].topic.parent \in DOMAIN forest
                    /\ Depth(forest, rows[i].topic.parent) <= base
                    /\ lev[i] >= 1
                 \/ \E j \in DOMAIN rows : /\ j < i
                                           /\ rows[i].topic.parent = rows[j].id
                                           /\ lev[i] >= lev[j] + 1
    PROVE  Capped'
  <1>1. /\ IInv /\ forest \in Forests /\ rows \in Seq(Row)
        /\ FreshRows(forest, rows)
        /\ RowIds(rows) \cap DOMAIN forest = {}
        /\ Whole(forest)
    BY NewRowsFresh, CappedWhole DEF Capped, Rooted, IInv, TypeOK, NewRows, Known
  <1>2. forest' = WithRows(forest, rows) /\ pending' = [pending EXCEPT ![h] = Idle]
    BY DEF Insert, Finish
  <1>3. DOMAIN forest' = DOMAIN forest \cup RowIds(rows) /\ RowIds(rows) \subseteq Topics
    BY <1>1, <1>2, WithRowsType
  <1>4. IsFiniteSet(DOMAIN forest')
    BY <1>1, <1>3, RowIdsFinite, FS_Union DEF Capped
  <1>5. Whole(forest')
    BY <1>4 DEF Rooted, IInv, TypeOK, Whole, NoOrphans, Exists, ParentOf
  <1>6. /\ \A t \in DOMAIN forest : Depth(forest', t) <= Depth(forest, t)
        /\ \A i \in DOMAIN rows : Depth(forest', rows[i].id) <= base + lev[i]
    BY <1>1, <1>2, <1>5, InsertDepth
  <1>7. MaxTopicDepth \in Nat
    BY LimitsAssumption
  <1>8. ASSUME NEW t \in DOMAIN forest'
        PROVE  Depth(forest', t) <= MaxTopicDepth
    <2>1. Depth(forest', t) \in Nat
      BY <1>5, WholeWalk
    <2>2. CASE t \in DOMAIN forest
      <3>1. /\ Depth(forest, t) \in Nat /\ Depth(forest, t) <= MaxTopicDepth
            /\ Depth(forest', t) <= Depth(forest, t)
        BY <1>1, <1>6, <2>2, WholeWalk DEF Capped, DepthWithinCap
      <3>2. QED
        BY <1>7, <2>1, <3>1
    <2>3. CASE t \in RowIds(rows)
      <3>1. PICK i \in DOMAIN rows : rows[i].id = t
        BY <2>3 DEF RowIds
      <3>2. Depth(forest', t) <= base + lev[i] /\ base + lev[i] <= MaxTopicDepth
        BY <1>6, <3>1
      <3>3. base + lev[i] \in Nat
        OBVIOUS
      <3>4. QED
        BY <1>7, <2>1, <3>2, <3>3
    <2>4. QED
      BY <1>3, <2>2, <2>3
  <1>9. CarriedFits'
    BY <1>1, <1>2 DEF CarriedFits, Idle, IInv, TypeOK
  <1>10. QED
    BY <1>4, <1>8, <1>9 DEF Capped, DepthWithinCap

\* A step that only shortens walks, and carries nothing on.
LEMMA KeptCapped ==
    ASSUME Capped, Rooted', NEW h \in Hosts, Hosts = {h}, pending'[h] = Idle,
           NEW g, g = forest', DOMAIN g \subseteq DOMAIN forest,
           \A x \in Topics : ParentOf(g, x) \in {ParentOf(forest, x), NoTopic}
    PROVE  Capped'
  <1>1. Whole(forest) /\ DOMAIN forest \subseteq Topics /\ MaxTopicDepth \in Nat
    BY CappedWhole, ForestElim, LimitsAssumption DEF Capped, Whole
  <1>2. IsFiniteSet(DOMAIN g)
    BY FS_Subset DEF Capped
  <1>3. ASSUME NEW t \in DOMAIN g PROVE Depth(g, t) <= MaxTopicDepth
    <2>1. t \in DOMAIN forest /\ Ancestors(forest, t) \subseteq Topics
      BY DEF Ancestors
    <2>2. /\ Depth(g, t) \in Nat /\ Depth(g, t) <= Depth(forest, t)
          /\ Depth(forest, t) \in Nat
      BY <1>1, <2>1, DepthKept, WholeWalk
    <2>3. Depth(forest, t) <= MaxTopicDepth
      BY <2>1 DEF Capped, DepthWithinCap
    <2>4. QED
      BY <1>1, <2>2, <2>3
  <1>4. CarriedFits'
    BY DEF CarriedFits, Idle
  <1>5. QED
    BY <1>2, <1>3, <1>4 DEF Capped, DepthWithinCap

LEMMA AddCapped ==
    ASSUME Capped, Rooted', NEW h \in Hosts, Hosts = {h}, AddApplied(h)
    PROVE  Capped'
  <1> DEFINE p == pending[h].parent
             above == IF p = NoTopic THEN 0 ELSE Depth(forest, p)
  <1>1. PICK id \in Topics \ used, ti \in Titles :
            Insert(h, <<[id |-> id, topic |-> [parent |-> p, title |-> ti,
                                               status |-> "pending"]]>>)
    BY DEF AddApplied
  <1> DEFINE rows == <<[id |-> id, topic |-> [parent |-> p, title |-> ti,
                                              status |-> "pending"]]>>
             lev  == [i \in DOMAIN rows |-> 1]
  <1>2. /\ pending[h].kind = "add" /\ p \in used \cup {NoTopic}
        /\ p \in DOMAIN forest \cup {NoTopic}
    BY DEF AddApplied, Capped, Rooted, CarriedExists, Exists, IInv, Known
  <1>3. NewRows(rows) /\ Insert(h, rows)
    BY <1>1, <1>2, OneRowNew DEF Capped, Rooted
  <1>4. ChildDepth(p) <= MaxTopicDepth
    BY <1>2 DEF Capped, CarriedFits
  <1>5. above \in Nat /\ above + 1 <= MaxTopicDepth /\ (p # NoTopic => Depth(forest, p) = above)
    <2>1. CASE p = NoTopic
      BY <1>4, <2>1 DEF ChildDepth
    <2>2. CASE p # NoTopic
      BY <1>2, <1>4, <2>2, CappedWhole DEF Capped
    <2>3. QED
      BY <2>1, <2>2
  <1>6. \A i \in DOMAIN rows : rows[i].topic.parent = p
    OBVIOUS
  <1> HIDE DEF rows
  <1>7. lev \in [DOMAIN rows -> Nat] /\ \A i \in DOMAIN rows : lev[i] = 1
    OBVIOUS
  <1> HIDE DEF lev, above
  <1>8. \A i \in DOMAIN rows :
            /\ above + lev[i] <= MaxTopicDepth
            /\ \/ rows[i].topic.parent = NoTopic /\ lev[i] >= 1
               \/ /\ rows[i].topic.parent \in DOMAIN forest
                  /\ Depth(forest, rows[i].topic.parent) <= above
                  /\ lev[i] >= 1
    BY <1>2, <1>5, <1>6, <1>7
  <1>9. QED
    BY <1>3, <1>5, <1>7, <1>8, InsertCapped

LEMMA ImportCapped ==
    ASSUME Capped, Rooted', NEW h \in Hosts, Hosts = {h}, ImportApplied(h)
    PROVE  Capped'
  <1> DEFINE p     == pending[h].parent
             shape == pending[h].shape
             base  == ImportBase(p)
  <1>1. /\ pending[h].kind = "import" /\ shape \in Shapes
        /\ p \in used \cup {NoTopic} /\ p \in DOMAIN forest \cup {NoTopic}
    BY RequestElim DEF ImportApplied, Capped, Rooted, CarriedExists, Exists,
                       IInv, TypeOK, Known
  <1>2. PICK ids \in [1..Len(shape) -> Topics \ used], ti \in Titles, st \in Statuses :
            /\ \A i, j \in 1..Len(shape) : ids[i] = ids[j] => i = j
            /\ Insert(h, FlatRows(ids, p, shape, ti, st))
    BY DEF ImportApplied
  <1> DEFINE rows == FlatRows(ids, p, shape, ti, st)
  <1>3. NewRows(rows) /\ Insert(h, rows)
    BY <1>1, <1>2, FlatRowsNew DEF Capped, Rooted
  <1>4. base + Levels(shape) + 1 <= MaxTopicDepth
    BY <1>1 DEF Capped, CarriedFits
  <1>5. base \in Nat /\ (p # NoTopic => Depth(forest, p) = base)
    <2>1. CASE p = NoTopic
      BY <2>1 DEF ImportBase
    <2>2. CASE p # NoTopic
      BY <1>1, <2>2, CappedWhole DEF Capped
    <2>3. QED
      BY <2>1, <2>2
  <1>6. Levels(shape) \in Nat
    BY <1>1, LevelsIs
  <1>7. PICK lev \in [1..Len(shape) -> Nat] :
            \A i \in 1..Len(shape) :
               /\ lev[i] = LevelAt(shape, lev, i)
               /\ lev[i] <= Levels(shape)
    BY <1>1, LevelsIs
  <1>8. /\ Len(shape) \in Nat
        /\ \A i \in 1..Len(shape) :
              shape[i] \in Nat /\ shape[i] < i /\ (shape[i] # 0 => shape[i] \in 1..Len(shape))
    <2>1. shape \in Seq(Nat) /\ \A i \in 1..Len(shape) : shape[i] < i
      BY <1>1, ShapesAssumption
    <2>2. \A i \in 1..Len(shape) : shape[i] \in Nat
      BY <2>1
    <2>3. QED
      BY <2>1, <2>2
  <1>9. /\ DOMAIN rows = 1..Len(shape)
        /\ \A i \in 1..Len(shape) :
              /\ rows[i].id = ids[i]
              /\ rows[i].topic.parent = IF shape[i] = 0 THEN p ELSE ids[shape[i]]
    BY DEF FlatRows
  <1> HIDE DEF rows, base
  <1>10. ASSUME NEW i \in DOMAIN rows
         PROVE  /\ base + lev[i] <= MaxTopicDepth
                /\ \/ rows[i].topic.parent = NoTopic /\ lev[i] >= 1
                   \/ /\ rows[i].topic.parent \in DOMAIN forest
                      /\ Depth(forest, rows[i].topic.parent) <= base
                      /\ lev[i] >= 1
                   \/ \E j \in DOMAIN rows : /\ j < i
                                             /\ rows[i].topic.parent = rows[j].id
                                             /\ lev[i] >= lev[j] + 1
    <2>1. i \in 1..Len(shape) /\ lev[i] \in Nat /\ lev[i] <= Levels(shape)
      BY <1>7, <1>9
    <2>2. base + lev[i] <= MaxTopicDepth
      BY <1>4, <1>5, <1>6, <2>1, LimitsAssumption
    <2>3. CASE shape[i] = 0
      <3>1. lev[i] = 1 /\ rows[i].topic.parent = p
        BY <1>7, <1>9, <2>1, <2>3 DEF LevelAt
      <3>2. p = NoTopic \/ (p \in DOMAIN forest /\ Depth(forest, p) <= base)
        BY <1>1, <1>5
      <3>3. QED
        BY <2>2, <3>1, <3>2
    <2>4. CASE shape[i] # 0
      <3>1. shape[i] \in DOMAIN rows /\ shape[i] < i
        BY <1>8, <1>9, <2>1, <2>4
      <3>2. rows[i].topic.parent = rows[shape[i]].id
        BY <1>9, <2>1, <2>4, <3>1
      <3>3. lev[i] = lev[shape[i]] + 1 /\ lev[shape[i]] \in Nat
        BY <1>7, <1>9, <2>1, <2>4, <3>1 DEF LevelAt
      <3>4. lev[i] >= lev[shape[i]] + 1
        BY <3>3
      <3>5. QED
        BY <2>2, <3>1, <3>2, <3>4
    <2>5. QED
      BY <2>3, <2>4
  <1>11. lev \in [DOMAIN rows -> Nat]
    BY <1>7, <1>9
  <1>12. QED
    BY <1>3, <1>5, <1>10, <1>11, InsertCapped

LEMMA MoveCapped ==
    ASSUME Capped, Rooted', NEW h \in Hosts, Hosts = {h}, MoveApplied(h)
    PROVE  Capped'
  <1> DEFINE id == pending[h].id
             p  == pending[h].parent
             above == IF p = NoTopic THEN 0 ELSE Depth(forest, p)
  <1>1. /\ pending[h].kind = "move" /\ id \in DOMAIN forest
        /\ p \in DOMAIN forest \cup {NoTopic} /\ p \in OptTopic
        /\ p # NoTopic => id \notin Ancestors(forest, p)
        /\ forest' = Moved(forest, id, p)
        /\ pending' = [pending EXCEPT ![h] = Idle]
    BY RequestElim DEF MoveApplied, Finish, ClosesCycle, Capped, Rooted,
                       CarriedExists, Exists, IInv, TypeOK
  <1>2. pending'[h] = Idle
    BY <1>1 DEF Capped, Rooted, IInv, TypeOK
  <1>3. ChildDepth(p) + Height(forest, id) - 1 <= MaxTopicDepth
    BY <1>1 DEF Capped, CarriedFits
  <1>4. Whole(forest) /\ forest \in Forests /\ MaxTopicDepth \in Nat
    BY CappedWhole, LimitsAssumption DEF Capped, Whole
  <1>5. DOMAIN forest' = DOMAIN forest
    BY <1>1, <1>4, MovedType
  <1>6. IsFiniteSet(DOMAIN forest')
    BY <1>5 DEF Capped
  <1>7. above \in Nat /\ ChildDepth(p) = above + 1
    <2>1. CASE p = NoTopic
      BY <2>1 DEF ChildDepth
    <2>2. CASE p # NoTopic
      BY <1>1, <2>2, CappedWhole DEF Capped
    <2>3. QED
      BY <2>1, <2>2
  <1>8. Height(forest, id) \in Nat
    <2>1. id \in Topics /\ id \in Ancestors(forest, id)
      BY <1>1, <1>4, ForestElim, AncestorsClosed
    <2>2. id \in Subtree(forest, id)
      BY <1>1, <2>1 DEF Subtree
    <2>3. QED
      BY <1>1, <1>4, <2>2, HeightCovers
  <1>9. Whole(forest')
    BY <1>6 DEF Rooted, IInv, TypeOK, Whole, NoOrphans, Exists, ParentOf
  <1>10. ASSUME NEW d \in DOMAIN forest'
         PROVE  Depth(forest', d) <= MaxTopicDepth
    <2>1. Depth(forest', d) \in Nat
      BY <1>9, WholeWalk
    <2>2. /\ Depth(forest, d) \in Nat /\ Depth(forest, d) <= MaxTopicDepth
      BY <1>4, <1>5, WholeWalk DEF Capped, DepthWithinCap
    <2>3. \/ Depth(forest', d) <= Depth(forest, d)
          \/ Depth(forest', d) <= Height(forest, id) + above
      <3> HIDE DEF id, p
      <3>1. QED
        BY <1>1, <1>4, <1>5, MoveDepth
    <2> HIDE DEF id, p, above
    <2>4. QED
      BY <1>3, <1>4, <1>7, <1>8, <2>1, <2>2, <2>3
  <1>11. CarriedFits'
    BY <1>2 DEF CarriedFits, Idle
  <1>12. QED
    BY <1>6, <1>10, <1>11 DEF Capped, DepthWithinCap

LEMMA CappedNext ==
    ASSUME NEW h \in Hosts, Hosts = {h}, "promote" \notin Kinds
    PROVE  Capped /\ [Next]_vars => Capped'
  <1> SUFFICES ASSUME Capped, [Next]_vars PROVE Capped'
    OBVIOUS
  <1>1. Rooted'
    BY RootedNext DEF Capped
  <1>2. /\ forest \in Forests /\ pending \in [Hosts -> Request]
        /\ DOMAIN forest \subseteq Topics
    BY ForestElim DEF Capped, Rooted, IInv, TypeOK
  <1>3. ASSUME UNCHANGED forest, CarriedFits' PROVE Capped'
    BY <1>1, <1>3 DEF Capped, DepthWithinCap
  <1>4. ASSUME UNCHANGED forest, pending'[h] = pending[h] PROVE Capped'
    <2>1. CarriedFits'
      BY <1>4 DEF Capped, CarriedFits, ChildDepth, ImportBase
    <2>2. QED
      BY <1>3, <1>4, <2>1
  <1>5. ASSUME \/ AddChecked(h)  \/ ImportChecked(h) \/ MoveChecked(h)
               \/ MoveRefused(h) \/ SetActiveRead(h)
        PROVE  Capped'
    <2>1. UNCHANGED forest
      BY <1>5 DEF AddChecked, ImportChecked, MoveChecked, MoveRefused,
                  SetActiveRead, Carry
    <2> DEFINE r == pending'[h]
    <2>2. /\ r.kind = "add" => ChildDepth(r.parent) <= MaxTopicDepth
          /\ r.kind = "import" =>
                ImportBase(r.parent) + Levels(r.shape) + 1 <= MaxTopicDepth
          /\ r.kind = "move" =>
                ChildDepth(r.parent) + Height(forest, r.id) - 1 <= MaxTopicDepth
      BY <1>2, <1>5 DEF AddChecked, ImportChecked, ImportAllowed, MoveChecked,
                        MoveRefused, SetActiveRead, Carry, Idle
    <2>3. CarriedFits'
      BY <2>1, <2>2 DEF CarriedFits, ChildDepth, ImportBase
    <2>4. QED
      BY <1>3, <2>1, <2>3
  <1>6. ASSUME DeleteTopic(h) PROVE Capped'
    <2>1. PICK id \in DOMAIN forest : forest' = Without(forest, Subtree(forest, id))
      BY <1>6 DEF DeleteTopic
    <2> DEFINE R == Subtree(forest, id)
    <2>2. /\ DOMAIN Without(forest, R) = DOMAIN forest \ R
          /\ \A t \in DOMAIN forest \ R : Without(forest, R)[t] = forest[t]
      BY <1>2, WithoutType
    <2> HIDE DEF R
    <2>3. forest' = Without(forest, R)
      BY <2>1 DEF R
    <2>4. /\ DOMAIN forest' \subseteq DOMAIN forest
          /\ \A x \in Topics : ParentOf(forest', x) \in {ParentOf(forest, x), NoTopic}
      BY <2>2, <2>3 DEF ParentOf
    <2>5. pending'[h] = Idle
      BY <1>2, <1>6 DEF DeleteTopic, Finish
    <2>6. QED
      BY <1>1, <2>4, <2>5, KeptCapped
  <1>7. ASSUME RenameTopic(h) \/ MarkTopicDone(h) \/ SetActiveApplied(h)
        PROVE  Capped'
    <2>1. DOMAIN forest' = DOMAIN forest /\ pending'[h] = Idle
      BY <1>2, <1>7 DEF RenameTopic, MarkTopicDone, SetActiveApplied, Finish,
                        Retitled, Marked
    <2>2. \A t : ParentOf(forest', t) = ParentOf(forest, t)
      <3>1. CASE RenameTopic(h)
        BY <1>2, <3>1, RetitledType DEF RenameTopic
      <3>2. CASE MarkTopicDone(h)
        BY <1>2, <3>2, MarkedType DEF MarkTopicDone
      <3>3. CASE SetActiveApplied(h)
        BY <1>2, <3>3, MarkedType DEF SetActiveApplied, Statuses
      <3>4. QED
        BY <1>7, <3>1, <3>2, <3>3
    <2>3. QED
      BY <1>1, <2>1, <2>2, KeptCapped
  <1>8. ASSUME SendOp(h) \/ UNCHANGED vars PROVE Capped'
    BY <1>4, <1>8 DEF SendOp, vars
  <1>9. ~PromoteQuestion(h)
    BY DEF PromoteQuestion, Ready
  <1>10. CASE UNCHANGED vars
    BY <1>8, <1>10
  <1>11. CASE Next
    <2>1. Handle(h) \/ SendOp(h)
      BY <1>11 DEF Next
    <2>2. QED
      BY <1>1, <1>5, <1>6, <1>7, <1>8, <1>9, <2>1, AddCapped, ImportCapped,
         MoveCapped DEF Handle
  <1>12. QED
    BY <1>10, <1>11

\* With a single host connection, and no promotions, the depth checks of add,
\* import and move keep every chain of Room.inner.topics within MAX_TOPIC_DEPTH:
\* what a handler read when it checked is what it changes.
THEOREM OneHostDepth ==
    ASSUME NEW h \in Hosts, Hosts = {h}, "promote" \notin Kinds
    PROVE  Spec => []DepthWithinCap
  <1>1. Init => Capped
    <2> SUFFICES ASSUME Init PROVE Capped
      OBVIOUS
    <2>1. DOMAIN forest = {} /\ IsFiniteSet(DOMAIN forest)
      BY FS_EmptySet DEF Init, EmptyForest
    <2>2. Rooted
      BY InitRooted
    <2>3. DepthWithinCap /\ CarriedFits
      BY <2>1 DEF Init, DepthWithinCap, CarriedFits, Idle
    <2>4. QED
      BY <2>1, <2>2, <2>3 DEF Capped
  <1>2. Capped /\ [Next]_vars => Capped'
    BY CappedNext
  <1>3. Capped => DepthWithinCap
    BY DEF Capped
  <1>4. QED
    BY <1>1, <1>2, <1>3, PTL DEF Spec

=============================================================================
