----------------------------- MODULE TopicTree ------------------------------
(***************************************************************************)
(* The topic intents of intents/topics.rs (and the promotion of a question *)
(* into a topic, intents/questions.rs) run by several host connections at  *)
(* once: two browser tabs of the host are two connections, and each runs   *)
(* its handlers on its own task.                                           *)
(*                                                                         *)
(* Every Room method holds the room mutex for its own duration only.  A    *)
(* handler that reads the room, checks what it read and then calls a       *)
(* mutating method is therefore several atomic steps, and steps of other   *)
(* connections fall between them:                                          *)
(*                                                                         *)
(*    check   `known_topics = room.topics()` and the checks on that copy   *)
(*    apply   room.add_topic / move_topic / set_active_topic / ...         *)
(*    send    enqueue_write of each operation to the writer's channel      *)
(*                                                                         *)
(* pending[h] is what connection h carries from its check to its apply,    *)
(* outbox[h] the operations it has applied and not yet sent.  One          *)
(* connection handles one intent at a time (ws.rs main_loop awaits the     *)
(* handler).  A rejected intent changes nothing and is not a step.         *)
(*                                                                         *)
(* The broadcasts between apply and send belong to module SeqSync; topic   *)
(* votes and the question a promotion removes are not modelled here.       *)
(***************************************************************************)
EXTENDS Forest

CONSTANTS
    Hosts,             \* connections with the host role
    Kinds,             \* the intents the hosts of a run send
    Shapes,            \* imported trees: shape[i] is the index of the parent
                       \* of node i in the flattened import, 0 for the target
    MaxTopicDepth,     \* validation::MAX_TOPIC_DEPTH
    MaxTopicsPerRoom   \* validation::MAX_TOPICS_PER_ROOM

AllKinds == {"add", "rename", "move", "delete", "setActive", "markDone",
             "import", "promote"}

ASSUME KindsAssumption == Kinds \subseteq AllKinds
ASSUME LimitsAssumption ==
    MaxTopicDepth \in Nat \ {0} /\ MaxTopicsPerRoom \in Nat \ {0}

\* flatten() visits a node before its children.
ASSUME ShapesAssumption ==
    \A s \in Shapes : /\ s \in Seq(Nat)
                      /\ s # <<>>
                      /\ \A i \in 1..Len(s) : s[i] < i

VARIABLES
    forest,    \* Room.inner.topics
    active,    \* Room.inner.active_topic_id
    used,      \* every topic id generated so far
    pending,   \* per connection, the intent between its check and its apply
    outbox     \* per connection, the write operations not sent yet

roomVars == <<forest, active, used>>
vars     == <<forest, active, used, pending, outbox>>

Idle == [kind |-> "idle"]

Request ==
         {Idle}
    \cup [kind : {"add"}, parent : OptTopic]
    \cup [kind : {"import"}, parent : OptTopic, shape : Shapes]
    \cup [kind : {"move"}, id : Topics, parent : OptTopic]
    \cup [kind : {"setActive"}, id : OptTopic, prev : OptTopic]

\* db::WriteOpKind, the operations of topics.  "upsert" stands for
\* UpsertTopic, BulkUpsertTopics and PromoteQuestionToTopic.
Op ==    [kind : {"upsert"}, rows : Seq(Row)]
    \cup [kind : {"rename"}, id : Topics, title : Titles]
    \cup [kind : {"move"}, id : Topics, parent : OptTopic]
    \cup [kind : {"status"}, id : Topics, status : Statuses]
    \cup [kind : {"delete"}, id : Topics]
    \cup [kind : {"active"}, id : OptTopic]

TypeOK ==
    /\ forest \in Forests
    /\ active \in OptTopic
    /\ used \subseteq Topics
    /\ pending \in [Hosts -> Request]
    /\ outbox \in [Hosts -> Seq(Op)]

Init ==
    /\ forest = EmptyForest
    /\ active = NoTopic
    /\ used = {}
    /\ pending = [h \in Hosts |-> Idle]
    /\ outbox = [h \in Hosts |-> <<>>]

-----------------------------------------------------------------------------
Ready(h, kind) ==
    /\ kind \in Kinds
    /\ pending[h] = Idle
    /\ outbox[h] = <<>>

Carry(h, request) ==
    /\ pending' = [pending EXCEPT ![h] = request]
    /\ UNCHANGED <<forest, active, used, outbox>>

\* The handler has applied its change; ops are still to be sent.
Finish(h, ops) ==
    /\ pending' = [pending EXCEPT ![h] = Idle]
    /\ outbox' = [outbox EXCEPT ![h] = ops]

Insert(h, rows) ==
    /\ forest' = WithRows(forest, rows)
    /\ used' = used \cup RowIds(rows)
    /\ UNCHANGED active
    /\ Finish(h, <<[kind |-> "upsert", rows |-> rows]>>)

\* Mutant: the parent is not looked up.
ExistedOnce(p) == p \in used \cup {NoTopic}

\* topic_exists on the copied topics, None always passing.
Exists(p) == p \in DOMAIN forest \cup {NoTopic}

\* The depth a new child of p would have; a broken chain counts as too deep.
ChildDepth(p) ==
    IF p = NoTopic THEN 1
    ELSE IF Unbroken(forest, p) THEN Depth(forest, p) + 1
    ELSE MaxTopicDepth + 1

\* The base depth of an import: a broken chain counts as depth 0.
ImportBase(p) ==
    IF p # NoTopic /\ Unbroken(forest, p) THEN Depth(forest, p) ELSE 0

\* How many levels an imported tree has.
Levels(shape) ==
    LET level[i \in 1..Len(shape)] ==
            IF shape[i] = 0 THEN 1 ELSE level[shape[i]] + 1
    IN  Max({level[i] : i \in 1..Len(shape)})

-----------------------------------------------------------------------------
(***************************************************************************)
(* Add, import and move: a check on a copy of the topics, then the apply.  *)
(***************************************************************************)
AddChecked(h) ==
    /\ Ready(h, "add")
    /\ \E p \in OptTopic :
        /\ Exists(p)
        /\ ChildDepth(p) <= MaxTopicDepth
        /\ Carry(h, [kind |-> "add", parent |-> p])

AddApplied(h) ==
    /\ pending[h].kind = "add"
    /\ \E id \in Topics \ used, ti \in Titles :
        Insert(h, <<[id |-> id,
                     topic |-> [parent |-> pending[h].parent, title |-> ti,
                                status |-> "pending"]]>>)

\* The walk of the validation is entered for the children of a leaf, too, and
\* compares the level it is entered at with the cap before it looks for nodes.
ImportAllowed(p, shape) ==
    /\ ImportBase(p) + Levels(shape) + 1 <= MaxTopicDepth
    /\ Exists(p)
    /\ Cardinality(DOMAIN forest) + Len(shape) <= MaxTopicsPerRoom

ImportChecked(h) ==
    /\ Ready(h, "import")
    /\ \E p \in OptTopic, shape \in Shapes :
        /\ ImportAllowed(p, shape)
        /\ Carry(h, [kind |-> "import", parent |-> p, shape |-> shape])

\* flatten(): fresh ids, each node under its parent in the imported tree.
FlatRows(ids, target, shape, ti, st) ==
    [i \in 1..Len(shape) |->
        [id |-> ids[i],
         topic |-> [parent |-> IF shape[i] = 0 THEN target ELSE ids[shape[i]],
                    title |-> ti, status |-> st]]]

ImportApplied(h) ==
    /\ pending[h].kind = "import"
    /\ LET shape == pending[h].shape IN
       \E ids \in [1..Len(shape) -> Topics \ used], ti \in Titles, st \in Statuses :
        /\ \A i, j \in 1..Len(shape) : ids[i] = ids[j] => i = j
        /\ Insert(h, FlatRows(ids, pending[h].parent, shape, ti, st))

MoveChecked(h) ==
    /\ Ready(h, "move")
    /\ \E id \in used, p \in OptTopic :
        /\ Exists(p)
        /\ ChildDepth(p) + Height(forest, id) - 1 <= MaxTopicDepth
        /\ Carry(h, [kind |-> "move", id |-> id, parent |-> p])

\* Mutant: only the topic itself is refused as its parent.
SelfParent(id, p) == p = id

\* The walk of Room::move_topic, up from the new parent and under the lock.
ClosesCycle(id, p) == p # NoTopic /\ id \in Ancestors(forest, p)

\* Whether the new parent still exists is not looked at again, nor the depth.
MoveApplied(h) ==
    /\ pending[h].kind = "move"
    /\ LET id == pending[h].id
           p  == pending[h].parent
       IN  /\ id \in DOMAIN forest
           /\ ~ClosesCycle(id, p)
           /\ forest' = Moved(forest, id, p)
           /\ UNCHANGED <<active, used>>
           /\ Finish(h, <<[kind |-> "move", id |-> id, parent |-> p]>>)

MoveRefused(h) ==
    /\ pending[h].kind = "move"
    /\ \/ pending[h].id \notin DOMAIN forest
       \/ ClosesCycle(pending[h].id, pending[h].parent)
    /\ Carry(h, Idle)

-----------------------------------------------------------------------------
(***************************************************************************)
(* Rename, mark done, delete and promote apply without reading first.      *)
(***************************************************************************)
RenameTopic(h) ==
    /\ Ready(h, "rename")
    /\ \E id \in DOMAIN forest, ti \in Titles :
        /\ forest' = Retitled(forest, id, ti)
        /\ Finish(h, <<[kind |-> "rename", id |-> id, title |-> ti]>>)
    /\ UNCHANGED <<active, used>>

MarkTopicDone(h) ==
    /\ Ready(h, "markDone")
    /\ \E id \in DOMAIN forest, st \in Statuses :
        /\ forest' = Marked(forest, id, st)
        /\ Finish(h, <<[kind |-> "status", id |-> id, status |-> st]>>)
    /\ UNCHANGED <<active, used>>

\* Mutant: the active topic is reset only if it is the deleted one itself.
DeleteTopicKeepsBelow(h) ==
    /\ Ready(h, "delete")
    /\ \E id \in DOMAIN forest :
        /\ forest' = Without(forest, Subtree(forest, id))
        /\ active' = IF active = id THEN NoTopic ELSE active
        /\ Finish(h, <<[kind |-> "delete", id |-> id]>>)
    /\ UNCHANGED used

DeleteTopic(h) ==
    /\ Ready(h, "delete")
    /\ \E id \in DOMAIN forest :
        /\ forest' = Without(forest, Subtree(forest, id))
        /\ active' = IF active \in Subtree(forest, id) THEN NoTopic ELSE active
        /\ Finish(h, <<[kind |-> "delete", id |-> id]>>)
    /\ UNCHANGED used

\* Neither the parent's existence nor the depth is checked.
PromoteQuestion(h) ==
    /\ Ready(h, "promote")
    /\ \E p \in used \cup {NoTopic}, id \in Topics \ used, ti \in Titles :
        Insert(h, <<[id |-> id,
                     topic |-> [parent |-> p, title |-> ti, status |-> "pending"]]>>)

(***************************************************************************)
(* Set active: the handler reads the previous active topic for its writes, *)
(* then calls a method that reads it again under the lock.  The id is not  *)
(* checked: any id a client has ever seen may come.                        *)
(***************************************************************************)
SetActiveRead(h) ==
    /\ Ready(h, "setActive")
    /\ \E new \in used \cup {NoTopic} :
        Carry(h, [kind |-> "setActive", id |-> new, prev |-> active])

\* Mutant: the previous topic is done in the room and not in the database.
SetActiveAppliedSilently(h) ==
    /\ pending[h].kind = "setActive"
    /\ forest' = IF active # pending[h].id THEN Marked(forest, active, "done")
                                           ELSE forest
    /\ active' = pending[h].id
    /\ Finish(h, <<[kind |-> "active", id |-> pending[h].id]>>)
    /\ UNCHANGED used

SetActiveApplied(h) ==
    /\ pending[h].kind = "setActive"
    /\ LET new  == pending[h].id
           prev == pending[h].prev
           done == [kind |-> "status", id |-> prev, status |-> "done"]
           act  == [kind |-> "active", id |-> new]
       IN  /\ forest' = IF active # new THEN Marked(forest, active, "done")
                                        ELSE forest
           /\ active' = new
           /\ Finish(h, IF prev # NoTopic /\ prev # new THEN <<done, act>>
                                                        ELSE <<act>>)
    /\ UNCHANGED used

\* enqueue_write of the next operation of the handler.
SendOp(h) ==
    /\ outbox[h] # <<>>
    /\ outbox' = [outbox EXCEPT ![h] = Tail(@)]
    /\ UNCHANGED <<forest, active, used, pending>>

\* A step of a handler that touches the room.
Handle(h) ==
    \/ AddChecked(h)    \/ AddApplied(h)
    \/ ImportChecked(h) \/ ImportApplied(h)
    \/ MoveChecked(h)   \/ MoveApplied(h)      \/ MoveRefused(h)
    \/ SetActiveRead(h) \/ SetActiveApplied(h)
    \/ RenameTopic(h)   \/ MarkTopicDone(h)
    \/ DeleteTopic(h)   \/ PromoteQuestion(h)

Next == \E h \in Hosts : Handle(h) \/ SendOp(h)

Spec == Init /\ [][Next]_vars

-----------------------------------------------------------------------------
(***************************************************************************)
(* Properties.                                                             *)
(***************************************************************************)
\* No interleaving of moves, adds, imports and deletes closes a parent chain
\* into a cycle.  The walks of topic_depth, subtree_max_depth, delete_topic
\* and move_topic have no bound of their own: on a cycle they do not return,
\* and two of them hold the room mutex.
ForestAcyclic == Acyclic(forest)

\* Every topic hangs below a topic of the room.  Clients draw an orphan at the
\* top level; the foreign key of its row, though, fails in the writer and takes
\* the batch with it.  Holds while one connection restructures the room and no
\* question is promoted (promote does not check its parent).
NoOrphans == \A t \in DOMAIN forest : Exists(forest[t].parent)

\* No chain is longer than the cap that import, add and move enforce.
DepthWithinCap ==
    \A t \in DOMAIN forest : Depth(forest, t) <= MaxTopicDepth

\* An active topic that a step deletes, alone or below an ancestor, is active
\* no longer after that step.
DeleteClearsActive ==
    [][active' = active /\ active \in DOMAIN forest => Exists(active)']_vars

=============================================================================
