------------------------------- MODULE Forest -------------------------------
(***************************************************************************)
(* The topic forest as data.  Room keeps `topics: HashMap<TopicId, Topic>` *)
(* (room.rs) and SQLite keeps the rows of table `topics`; both are here a  *)
(* function from the ids that are present to their rows, so that the room  *)
(* and the database can be compared by equality.                           *)
(*                                                                         *)
(* The ancestor walks of Room::move_topic and validation::topic_depth are  *)
(* loops over parent_id.  They are stated as least closed sets, which have *)
(* the same members as the walk visits and need no recursion.              *)
(*                                                                         *)
(* Abstracted: `ord` and `created_at` (sibling order), the text of titles. *)
(***************************************************************************)
EXTENDS Integers, Sequences, FiniteSets, FiniteSetsExt

CONSTANTS
    Topics,    \* topic ids (v4 UUIDs): never generated twice
    NoTopic,   \* Option::None where the code has Option<TopicId>
    Titles     \* topic titles

ASSUME NoTopicAssumption == NoTopic \notin Topics

OptTopic == Topics \cup {NoTopic}
Statuses == {"pending", "done"}

Topic   == [parent : OptTopic, title : Titles, status : Statuses]
Forests == UNION {[S -> Topic] : S \in SUBSET Topics}

\* A row on its way into a forest (proto::Topic has its id inside).
Row == [id : Topics, topic : Topic]

EmptyForest == [t \in {} |-> [parent |-> NoTopic]]

\* t.parent_id, with None for an id that is not in the map.
ParentOf(f, t) == IF t \in DOMAIN f THEN f[t].parent ELSE NoTopic

UpClosed(f, C) == \A c \in C : ParentOf(f, c) \in C \cup {NoTopic}

\* The ids visited by walking up from t, t included; the walk of the code
\* ends at a root or at an id that is not in the map.
Ancestors(f, t) ==
    {x \in Topics : \A C \in SUBSET Topics : t \in C /\ UpClosed(f, C) => x \in C}

\* Mutant: the topic and its children, not theirs.
TopicAndChildren(f, t) == {x \in DOMAIN f : x = t \/ f[x].parent = t}

\* The ids delete_topic collects breadth-first from t (and what SQLite's
\* ON DELETE CASCADE removes).
Subtree(f, t) == {x \in DOMAIN f : t \in Ancestors(f, x)}

\* No id is its own proper ancestor: every walk up a parent chain ends.
Acyclic(f) ==
    \A S \in SUBSET Topics : S # {} => \E t \in S : ParentOf(f, t) \notin S

\* topic_depth: the length of the walk, None when it meets a missing id.
Unbroken(f, t) == Ancestors(f, t) \subseteq DOMAIN f
Depth(f, t)    == Cardinality(Ancestors(f, t))

\* Mutant: a topic is moved as if nothing hung below it.
TopicAlone(f, t) == 1

\* subtree_max_depth: 1 for an id without children, present or not.
Height(f, t) ==
    Max({1} \cup {Cardinality({x \in Ancestors(f, d) : t \in Ancestors(f, x)}) :
                     d \in Subtree(f, t)})

-----------------------------------------------------------------------------
(***************************************************************************)
(* The forest after each kind of update.                                   *)
(***************************************************************************)
RowIds(rows) == {rows[i].id : i \in DOMAIN rows}

WithRows(f, rows) ==
    [t \in DOMAIN f \cup RowIds(rows) |->
        IF t \in RowIds(rows)
          THEN (rows[CHOOSE i \in DOMAIN rows : rows[i].id = t]).topic
          ELSE f[t]]

Without(f, S) == [t \in DOMAIN f \ S |-> f[t]]

Moved(f, t, p)     == [f EXCEPT ![t].parent = p]
Retitled(f, t, ti) == [f EXCEPT ![t].title = ti]

\* Mutant: the status set_active_topic is told to give is not one of the two.
MarkedActive(f, t, s) ==
    IF t \in DOMAIN f THEN [f EXCEPT ![t].status = "active"] ELSE f

Marked(f, t, s)    == IF t \in DOMAIN f THEN [f EXCEPT ![t].status = s] ELSE f

=============================================================================
