---------------------------- MODULE ForestProofs ----------------------------
(***************************************************************************)
(* What each update of a forest does to its type, to the acyclicity of its *)
(* parent chains, to the presence of its parents and to the depth of its   *)
(* topics.  The lemmas speak of any forest, so they serve the room and the *)
(* tables alike.                                                           *)
(***************************************************************************)
EXTENDS Forest, TLAPS, WellFoundedInduction, FiniteSetTheorems

LEMMA ForestIntro ==
    ASSUME NEW S \in SUBSET Topics, NEW f \in [S -> Topic]
    PROVE  f \in Forests
  BY DEF Forests

LEMMA ForestElim ==
    ASSUME NEW f \in Forests
    PROVE  /\ DOMAIN f \subseteq Topics
           /\ f \in [DOMAIN f -> Topic]
           /\ \A t : ParentOf(f, t) \in OptTopic
  <1>1. PICK S \in SUBSET Topics : f \in [S -> Topic]
    BY DEF Forests
  <1>2. DOMAIN f = S
    BY <1>1
  <1>3. ASSUME NEW t PROVE ParentOf(f, t) \in OptTopic
    BY <1>1 DEF ParentOf, Topic, OptTopic
  <1>4. QED
    BY <1>1, <1>2, <1>3

LEMMA RowsElim ==
    ASSUME NEW rows \in Seq(Row), NEW i \in DOMAIN rows
    PROVE  /\ rows[i] \in Row
           /\ rows[i].id \in Topics
           /\ rows[i].topic \in Topic
  <1>1. rows[i] \in Row
    OBVIOUS
  <1>2. QED
    BY <1>1 DEF Row

-----------------------------------------------------------------------------
(***************************************************************************)
(* Typing of the updates.                                                  *)
(***************************************************************************)
LEMMA WithRowsType ==
    ASSUME NEW f \in Forests, NEW rows \in Seq(Row)
    PROVE  /\ WithRows(f, rows) \in Forests
           /\ DOMAIN WithRows(f, rows) = DOMAIN f \cup RowIds(rows)
           /\ RowIds(rows) \subseteq Topics
  <1> DEFINE D == DOMAIN f \cup RowIds(rows)
  <1>1. RowIds(rows) \subseteq Topics
    BY RowsElim DEF RowIds
  <1>2. D \subseteq Topics
    BY <1>1, ForestElim
  <1>3. \A t \in D : WithRows(f, rows)[t] \in Topic
    <2> SUFFICES ASSUME NEW t \in D PROVE WithRows(f, rows)[t] \in Topic
      OBVIOUS
    <2>1. CASE t \in RowIds(rows)
      <3> DEFINE i == CHOOSE i \in DOMAIN rows : rows[i].id = t
      <3>1. i \in DOMAIN rows
        BY <2>1 DEF RowIds
      <3>2. rows[i].topic \in Topic
        BY <3>1, RowsElim
      <3>3. WithRows(f, rows)[t] = rows[i].topic
        BY <2>1 DEF WithRows
      <3>4. QED
        BY <3>2, <3>3
    <2>2. CASE t \notin RowIds(rows)
      BY <2>2, ForestElim DEF WithRows
    <2>3. QED
      BY <2>1, <2>2
  <1>4. WithRows(f, rows) \in [D -> Topic]
    BY <1>3 DEF WithRows
  <1>5. QED
    BY <1>1, <1>2, <1>4, ForestIntro

LEMMA WithoutType ==
    ASSUME NEW f \in Forests, NEW S
    PROVE  /\ Without(f, S) \in Forests
           /\ DOMAIN Without(f, S) = DOMAIN f \ S
           /\ \A t \in DOMAIN f \ S : Without(f, S)[t] = f[t]
  <1>1. Without(f, S) \in [DOMAIN f \ S -> Topic]
    BY ForestElim DEF Without
  <1>2. DOMAIN f \ S \in SUBSET Topics
    BY ForestElim
  <1>3. Without(f, S) \in Forests
    BY <1>1, <1>2, ForestIntro
  <1>4. QED
    BY <1>3 DEF Without

LEMMA MovedType ==
    ASSUME NEW f \in Forests, NEW t \in DOMAIN f, NEW p \in OptTopic
    PROVE  /\ Moved(f, t, p) \in Forests
           /\ DOMAIN Moved(f, t, p) = DOMAIN f
           /\ \A x \in DOMAIN f :
                 Moved(f, t, p)[x].parent = IF x = t THEN p ELSE f[x].parent
  <1>1. f \in [DOMAIN f -> Topic] /\ DOMAIN f \in SUBSET Topics
    BY ForestElim
  <1>2. Moved(f, t, p) \in [DOMAIN f -> Topic]
    BY <1>1 DEF Moved, Topic
  <1>3. \A x \in DOMAIN f :
            Moved(f, t, p)[x].parent = IF x = t THEN p ELSE f[x].parent
    BY <1>1 DEF Moved, Topic
  <1>4. QED
    BY <1>1, <1>2, <1>3, ForestIntro

\* Renaming and marking leave every parent where it was.
LEMMA RetitledType ==
    ASSUME NEW f \in Forests, NEW t \in DOMAIN f, NEW ti \in Titles
    PROVE  /\ Retitled(f, t, ti) \in Forests
           /\ DOMAIN Retitled(f, t, ti) = DOMAIN f
           /\ \A x : ParentOf(Retitled(f, t, ti), x) = ParentOf(f, x)
  <1>1. f \in [DOMAIN f -> Topic] /\ DOMAIN f \in SUBSET Topics
    BY ForestElim
  <1>2. Retitled(f, t, ti) \in [DOMAIN f -> Topic]
    BY <1>1 DEF Retitled, Topic
  <1>3. \A x \in DOMAIN f : Retitled(f, t, ti)[x].parent = f[x].parent
    BY <1>1 DEF Retitled, Topic
  <1>4. QED
    BY <1>1, <1>2, <1>3, ForestIntro DEF ParentOf

LEMMA MarkedType ==
    ASSUME NEW f \in Forests, NEW t, NEW s \in Statuses
    PROVE  /\ Marked(f, t, s) \in Forests
           /\ DOMAIN Marked(f, t, s) = DOMAIN f
           /\ \A x : ParentOf(Marked(f, t, s), x) = ParentOf(f, x)
  <1>1. f \in [DOMAIN f -> Topic] /\ DOMAIN f \in SUBSET Topics
    BY ForestElim
  <1>2. Marked(f, t, s) \in [DOMAIN f -> Topic]
    BY <1>1 DEF Marked, Topic
  <1>3. \A x \in DOMAIN f : Marked(f, t, s)[x].parent = f[x].parent
    BY <1>1 DEF Marked, Topic
  <1>4. QED
    BY <1>1, <1>2, <1>3, ForestIntro DEF ParentOf

-----------------------------------------------------------------------------
(***************************************************************************)
(* Acyclicity.  A set without a topic whose parent lies outside it is a    *)
(* cycle (with whatever hangs below it); each lemma takes such a set after *)
(* the update back to one before it.                                       *)
(***************************************************************************)
\* Acyclicity depends on the parents only.
LEMMA AcyclicSameParents ==
    ASSUME NEW f, NEW g, \A t \in Topics : ParentOf(g, t) = ParentOf(f, t), Acyclic(f)
    PROVE  Acyclic(g)
  BY DEF Acyclic

LEMMA AcyclicEmpty == Acyclic(EmptyForest)
  <1>1. \A t : ParentOf(EmptyForest, t) = NoTopic
    BY DEF ParentOf, EmptyForest
  <1>2. QED
    BY <1>1, NoTopicAssumption DEF Acyclic

LEMMA AcyclicWithout ==
    ASSUME NEW f \in Forests, NEW R, Acyclic(f)
    PROVE  Acyclic(Without(f, R))
  <1> SUFFICES ASSUME NEW S \in SUBSET Topics, S # {},
                      \A t \in S : ParentOf(Without(f, R), t) \in S
               PROVE  FALSE
    BY DEF Acyclic
  <1>1. ASSUME NEW t \in S PROVE ParentOf(f, t) \in S
    <2>1. ParentOf(Without(f, R), t) \in S
      OBVIOUS
    <2>2. t \in DOMAIN f \ R
      BY <2>1, WithoutType, NoTopicAssumption DEF ParentOf
    <2>3. t \in DOMAIN Without(f, R) /\ Without(f, R)[t] = f[t]
      BY <2>2, WithoutType
    <2>4. ParentOf(Without(f, R), t) = ParentOf(f, t)
      BY <2>2, <2>3 DEF ParentOf
    <2>5. QED
      BY <2>1, <2>4
  <1>2. QED
    BY <1>1 DEF Acyclic

\* The walk of move_topic visits a set that is closed under parents.
LEMMA AncestorsClosed ==
    ASSUME NEW f \in Forests, NEW t \in Topics
    PROVE  t \in Ancestors(f, t) /\ UpClosed(f, Ancestors(f, t))
  <1>1. t \in Ancestors(f, t)
    BY DEF Ancestors
  <1>2. ASSUME NEW c \in Ancestors(f, t), ParentOf(f, c) # NoTopic
        PROVE  ParentOf(f, c) \in Ancestors(f, t)
    <2>1. ParentOf(f, c) \in Topics
      BY <1>2, ForestElim DEF OptTopic
    <2>2. ASSUME NEW C \in SUBSET Topics, t \in C, UpClosed(f, C)
          PROVE  ParentOf(f, c) \in C
      <3>1. c \in C
        BY <2>2 DEF Ancestors
      <3>2. QED
        BY <3>1, <2>2, <1>2 DEF UpClosed
    <2>3. QED
      BY <2>1, <2>2 DEF Ancestors
  <1>3. QED
    BY <1>1, <1>2 DEF UpClosed

\* Moving t below p is safe when the walk up from p does not meet t.  A cycle
\* after the move that contains t contains p, and from p the old parents lead
\* round inside the walk, which is a cycle before the move.
LEMMA AcyclicMoved ==
    ASSUME NEW f \in Forests, NEW t \in DOMAIN f, NEW p \in OptTopic,
           p # NoTopic => t \notin Ancestors(f, p),
           Acyclic(f)
    PROVE  Acyclic(Moved(f, t, p))
  <1> DEFINE g == Moved(f, t, p)
  <1> SUFFICES ASSUME NEW S \in SUBSET Topics, S # {},
                      \A x \in S : ParentOf(g, x) \in S
               PROVE  FALSE
    BY DEF Acyclic
  <1>1. \A x \in Topics : x # t => ParentOf(g, x) = ParentOf(f, x)
    BY MovedType DEF ParentOf
  <1>2. ParentOf(g, t) = p
    BY MovedType DEF ParentOf
  <1>3. CASE t \notin S
    BY <1>1, <1>3 DEF Acyclic
  <1>4. CASE t \in S
    <2>1. p \in S /\ p \in Topics /\ p # NoTopic
      BY <1>2, <1>4, NoTopicAssumption
    <2> DEFINE C == S \cap Ancestors(f, p)
    <2>2. p \in C /\ t \notin C
      BY <2>1, AncestorsClosed
    <2>3. ASSUME NEW x \in C PROVE ParentOf(f, x) \in C
      <3>1. ParentOf(f, x) \in S
        BY <1>1, <2>2, <2>3
      <3>2. ParentOf(f, x) \in Ancestors(f, p)
        BY <3>1, <2>1, AncestorsClosed, NoTopicAssumption DEF UpClosed
      <3>3. QED
        BY <3>1, <3>2
    <2>4. QED
      BY <2>2, <2>3 DEF Acyclic
  <1>5. QED
    BY <1>3, <1>4

\* Rows as add, promote and import make them: fresh ids, nobody's parent yet,
\* each row below an earlier row or below an id that is not among them.
FreshRows(f, rows) ==
    /\ \A i, j \in DOMAIN rows : rows[i].id = rows[j].id => i = j
    /\ \A i \in DOMAIN rows :
          \A j \in DOMAIN rows : rows[i].topic.parent = rows[j].id => j < i
    /\ \A t \in Topics \ RowIds(rows) : ParentOf(f, t) \notin RowIds(rows)

\* Every set of naturals that is not empty has a least element.
LEMMA SmallestNat ==
    ASSUME NEW I \in SUBSET Nat, I # {}
    PROVE  \E i \in I : \A j \in I : i <= j
  <1> DEFINE R == {pair \in Nat \X Nat : pair[1] < pair[2]}
  <1>1. IsWellFoundedOn(R, Nat)
    BY NatLessThanWellFounded, Zenon DEF OpToRel
  <1>2. PICK i \in I : \A j \in I : <<j, i>> \notin R
    BY <1>1, WFMin
  <1>3. ASSUME NEW j \in I PROVE i <= j
    <2>1. <<j, i>> \in Nat \X Nat /\ <<j, i>>[1] = j /\ <<j, i>>[2] = i
      OBVIOUS
    <2>2. ~ (j < i)
      BY <1>2, <2>1
    <2>3. QED
      BY <2>2
  <1>4. QED
    BY <1>3

LEMMA WithRowsParents ==
    ASSUME NEW f \in Forests, NEW rows \in Seq(Row), FreshRows(f, rows)
    PROVE  /\ \A i \in DOMAIN rows :
                 ParentOf(WithRows(f, rows), rows[i].id) = rows[i].topic.parent
           /\ \A t \in Topics \ RowIds(rows) :
                 ParentOf(WithRows(f, rows), t) = ParentOf(f, t)
  <1>1. ASSUME NEW i \in DOMAIN rows
        PROVE  ParentOf(WithRows(f, rows), rows[i].id) = rows[i].topic.parent
    <2> DEFINE t == rows[i].id
               k == CHOOSE k \in DOMAIN rows : rows[k].id = t
    <2>1. t \in RowIds(rows)
      BY DEF RowIds
    <2>2. k \in DOMAIN rows /\ rows[k].id = t
      BY <2>1 DEF RowIds
    <2>3. k = i
      BY <2>2 DEF FreshRows
    <2>4. t \in DOMAIN WithRows(f, rows) /\ WithRows(f, rows)[t] = rows[k].topic
      BY <2>1 DEF WithRows
    <2>5. QED
      BY <2>3, <2>4 DEF ParentOf
  <1>2. ASSUME NEW t \in Topics \ RowIds(rows)
        PROVE  ParentOf(WithRows(f, rows), t) = ParentOf(f, t)
    BY <1>2 DEF ParentOf, WithRows
  <1>3. QED
    BY <1>1, <1>2

\* A cycle after the insertion has no new topic in it: the first row in it
\* would have its parent in it, which is neither a later row nor itself; so
\* either none is, or the old part of the set is a cycle already.
LEMMA AcyclicWithRows ==
    ASSUME NEW f \in Forests, NEW rows \in Seq(Row), FreshRows(f, rows), Acyclic(f)
    PROVE  Acyclic(WithRows(f, rows))
  <1> DEFINE g == WithRows(f, rows)
  <1> SUFFICES ASSUME NEW S \in SUBSET Topics, S # {},
                      \A x \in S : ParentOf(g, x) \in S
               PROVE  FALSE
    BY DEF Acyclic
  <1> DEFINE I == {i \in DOMAIN rows : rows[i].id \in S}
             Old == S \ RowIds(rows)
  <1>1. ASSUME NEW x \in Old PROVE ParentOf(f, x) \in Old
    BY <1>1, WithRowsParents DEF FreshRows
  <1>2. Old = {}
    BY <1>1 DEF Acyclic
  <1>3. I # {}
    BY <1>2 DEF RowIds
  <1>4. I \subseteq Nat
    OBVIOUS
  <1>5. PICK i \in I : \A j \in I : i <= j
    BY <1>3, <1>4, SmallestNat
  <1>6. rows[i].topic.parent \in S
    BY <1>5, WithRowsParents
  <1>7. PICK j \in DOMAIN rows : rows[j].id = rows[i].topic.parent
    BY <1>2, <1>6 DEF RowIds
  <1>8. j \in I /\ j < i
    BY <1>5, <1>6, <1>7 DEF FreshRows
  <1>9. QED
    BY <1>4, <1>5, <1>8

-----------------------------------------------------------------------------
(***************************************************************************)
(* Depth.  Where every parent is there and the topics are finitely many,   *)
(* the walk from a topic is finite, and any finite closed set that holds   *)
(* the topic bounds it: each lemma names such a set for the forest after   *)
(* an update, made from the walks before it.                               *)
(***************************************************************************)
\* A forest of the room as one connection keeps it: finitely many topics, each
\* below a topic that is there.
Whole(f) ==
    /\ f \in Forests
    /\ IsFiniteSet(DOMAIN f)
    /\ \A t \in DOMAIN f : ParentOf(f, t) \in DOMAIN f \cup {NoTopic}

\* Whatever a closed set holds of a walk bounds the walk.
LEMMA WalkBound ==
    ASSUME NEW f, NEW t, NEW C \in SUBSET Topics, t \in C, UpClosed(f, C),
           IsFiniteSet(C)
    PROVE  /\ Ancestors(f, t) \subseteq C
           /\ IsFiniteSet(Ancestors(f, t))
           /\ Depth(f, t) \in Nat
           /\ Depth(f, t) <= Cardinality(C)
  <1>1. Ancestors(f, t) \subseteq C
    BY DEF Ancestors
  <1> DEFINE A == Ancestors(f, t)
  <1> HIDE DEF A
  <1>2. A \in SUBSET C
    BY <1>1 DEF A
  <1>3. IsFiniteSet(A) /\ Cardinality(A) <= Cardinality(C)
    BY <1>2, FS_Subset
  <1>4. Cardinality(A) \in Nat
    BY <1>3, FS_CardinalityType
  <1>5. QED
    BY <1>1, <1>3, <1>4 DEF A, Depth

LEMMA WholeWalk ==
    ASSUME NEW f, Whole(f), NEW t \in DOMAIN f
    PROVE  /\ Ancestors(f, t) \subseteq DOMAIN f
           /\ IsFiniteSet(Ancestors(f, t))
           /\ Depth(f, t) \in Nat
  <1>1. DOMAIN f \in SUBSET Topics /\ IsFiniteSet(DOMAIN f) /\ UpClosed(f, DOMAIN f)
    BY ForestElim DEF Whole, UpClosed
  <1>2. QED
    BY <1>1, WalkBound

\* The walk from t is t and the walk from its parent.
LEMMA WalkStep ==
    ASSUME NEW f \in Forests, NEW t \in Topics
    PROVE  /\ ParentOf(f, t) = NoTopic => Ancestors(f, t) \subseteq {t}
           /\ ParentOf(f, t) # NoTopic =>
                 Ancestors(f, t) \subseteq {t} \cup Ancestors(f, ParentOf(f, t))
  <1> DEFINE p == ParentOf(f, t)
  <1>1. ASSUME p = NoTopic PROVE Ancestors(f, t) \subseteq {t}
    <2>1. {t} \in SUBSET Topics /\ UpClosed(f, {t})
      BY <1>1 DEF UpClosed
    <2>2. QED
      BY <2>1 DEF Ancestors
  <1>2. ASSUME p # NoTopic PROVE Ancestors(f, t) \subseteq {t} \cup Ancestors(f, p)
    <2> DEFINE A == Ancestors(f, p)
               C == {t} \cup A
    <2>1. p \in Topics
      BY <1>2, ForestElim DEF OptTopic
    <2>2. p \in A /\ UpClosed(f, A)
      BY <2>1, AncestorsClosed
    <2>3. A \in SUBSET Topics
      BY DEF Ancestors
    <2> HIDE DEF A
    <2>4. UpClosed(f, C)
      BY <2>2 DEF UpClosed
    <2>5. C \in SUBSET Topics /\ t \in C
      BY <2>3
    <2> HIDE DEF C
    <2>6. Ancestors(f, t) \subseteq C
      BY <2>4, <2>5 DEF Ancestors
    <2>7. QED
      BY <2>6 DEF C, A
  <1>3. QED
    BY <1>1, <1>2

\* A topic is one level below its parent.
LEMMA DepthUp ==
    ASSUME NEW f \in Forests, NEW t \in Topics
    PROVE  /\ ParentOf(f, t) = NoTopic => Depth(f, t) \in Nat /\ Depth(f, t) <= 1
           /\ ParentOf(f, t) # NoTopic /\ IsFiniteSet(Ancestors(f, ParentOf(f, t))) =>
                 /\ Depth(f, t) \in Nat
                 /\ Depth(f, t) <= Depth(f, ParentOf(f, t)) + 1
  <1> DEFINE p == ParentOf(f, t)
             A == Ancestors(f, t)
  <1>1. ASSUME p = NoTopic PROVE Depth(f, t) \in Nat /\ Depth(f, t) <= 1
    <2>1. A \in SUBSET {t}
      BY <1>1, WalkStep
    <2> HIDE DEF A
    <2>2. IsFiniteSet({t}) /\ Cardinality({t}) = 1
      BY FS_Singleton
    <2>3. IsFiniteSet(A) /\ Cardinality(A) <= 1
      BY <2>1, <2>2, FS_Subset
    <2>4. QED
      BY <2>3, FS_CardinalityType DEF Depth, A
  <1>2. ASSUME p # NoTopic, IsFiniteSet(Ancestors(f, p))
        PROVE  Depth(f, t) \in Nat /\ Depth(f, t) <= Depth(f, p) + 1
    <2> DEFINE B == Ancestors(f, p)
               C == B \cup {t}
    <2>1. A \in SUBSET C
      BY <1>2, WalkStep
    <2>2. Cardinality(B) = Depth(f, p) /\ IsFiniteSet(B)
      BY <1>2 DEF Depth
    <2> HIDE DEF A, B
    <2>3. /\ IsFiniteSet(C) /\ Cardinality(B) \in Nat
          /\ Cardinality(C) <= Cardinality(B) + 1
      <3>1. Cardinality(B) \in Nat
        BY <2>2, FS_CardinalityType
      <3>2. /\ IsFiniteSet(B \cup {t})
            /\ Cardinality(B \cup {t}) =
                 IF t \in B THEN Cardinality(B) ELSE Cardinality(B) + 1
        BY <2>2, FS_AddElement
      <3>3. QED
        BY <3>1, <3>2
    <2> HIDE DEF C
    <2>4. IsFiniteSet(A) /\ Cardinality(A) <= Cardinality(C)
      BY <2>1, <2>3, FS_Subset
    <2>5. Cardinality(A) \in Nat /\ Cardinality(C) \in Nat
      BY <2>3, <2>4, FS_CardinalityType
    <2>6. Cardinality(A) <= Depth(f, p) + 1
      BY <2>2, <2>3, <2>4, <2>5
    <2>7. QED
      BY <2>5, <2>6 DEF Depth, A
  <1>3. QED
    BY <1>1, <1>2

\* A walk nobody touched is as long as it was, or shorter.
LEMMA DepthKept ==
    ASSUME NEW f, Whole(f), NEW g, NEW t \in DOMAIN f,
           \A x \in Ancestors(f, t) : ParentOf(g, x) \in {ParentOf(f, x), NoTopic}
    PROVE  /\ Ancestors(g, t) \subseteq Ancestors(f, t)
           /\ IsFiniteSet(Ancestors(g, t))
           /\ Depth(g, t) \in Nat
           /\ Depth(g, t) <= Depth(f, t)
  <1> DEFINE A == Ancestors(f, t)
  <1>1. f \in Forests /\ t \in Topics
    BY ForestElim DEF Whole
  <1>2. t \in A /\ UpClosed(f, A)
    BY <1>1, AncestorsClosed
  <1>3. A \in SUBSET Topics
    BY DEF Ancestors
  <1>4. IsFiniteSet(A) /\ Cardinality(A) = Depth(f, t)
    BY WholeWalk DEF Depth
  <1>5. \A x \in A : ParentOf(g, x) \in {ParentOf(f, x), NoTopic}
    OBVIOUS
  <1> HIDE DEF A
  <1>6. UpClosed(g, A)
    BY <1>2, <1>5 DEF UpClosed
  <1>7. /\ Ancestors(g, t) \subseteq A
        /\ IsFiniteSet(Ancestors(g, t))
        /\ Depth(g, t) \in Nat
        /\ Depth(g, t) <= Cardinality(A)
    BY <1>2, <1>3, <1>4, <1>6, WalkBound
  <1>8. QED
    BY <1>4, <1>7 DEF A

\* A bounded set of naturals that is not empty has a greatest element.
LEMMA MaxNat ==
    ASSUME NEW S \in SUBSET Nat, S # {}, NEW n \in Nat, \A x \in S : x <= n
    PROVE  Max(S) \in S /\ \A x \in S : x <= Max(S)
  <1> DEFINE B == {b \in Nat : \A x \in S : x <= b}
  <1>1. B # {} /\ B \in SUBSET Nat
    OBVIOUS
  <1>2. PICK b \in B : \A c \in B : b <= c
    BY <1>1, SmallestNat
  <1>3. b \in S
    <2> SUFFICES ASSUME b \notin S PROVE FALSE
      OBVIOUS
    <2>1. \A x \in S : x \in Nat /\ x <= b /\ x # b
      BY <1>2
    <2>2. PICK x \in S : TRUE
      OBVIOUS
    <2>3. b \in Nat /\ b # 0
      BY <2>1, <2>2
    <2>4. b - 1 \in B
      BY <2>1, <2>3
    <2>5. b <= b - 1
      BY <1>2, <2>4
    <2>6. QED
      BY <2>3, <2>5
  <1>4. \E x \in S : \A y \in S : x >= y
    BY <1>2, <1>3
  <1>5. Max(S) \in S /\ \A y \in S : Max(S) >= y
    BY <1>4 DEF Max
  <1>6. QED
    BY <1>5

\* What hangs between d and t is no more than the height of t.
LEMMA HeightCovers ==
    ASSUME NEW f, Whole(f), NEW t \in DOMAIN f, NEW d \in Subtree(f, t)
    PROVE  LET B == {x \in Ancestors(f, d) : t \in Ancestors(f, x)}
           IN  IsFiniteSet(B) /\ Cardinality(B) \in Nat /\ Height(f, t) \in Nat
               /\ Cardinality(B) <= Height(f, t)
  <1> DEFINE Above(x) == {y \in Ancestors(f, x) : t \in Ancestors(f, y)}
             n == Cardinality(DOMAIN f) + 1
             S == {1} \cup {Cardinality(Above(x)) : x \in Subtree(f, t)}
  <1>1. IsFiniteSet(DOMAIN f) /\ Cardinality(DOMAIN f) \in Nat
    BY FS_CardinalityType DEF Whole
  <1>2. ASSUME NEW x \in Subtree(f, t)
        PROVE  /\ IsFiniteSet(Above(x)) /\ Cardinality(Above(x)) \in Nat
               /\ Cardinality(Above(x)) <= Cardinality(DOMAIN f)
    <2>1. x \in DOMAIN f
      BY DEF Subtree
    <2>2. Above(x) \in SUBSET DOMAIN f
      BY <2>1, WholeWalk
    <2> HIDE DEF Above
    <2>3. QED
      BY <1>1, <2>2, FS_Subset, FS_CardinalityType
  <1>3. Height(f, t) = Max(S)
    BY DEF Height
  <1>4. S \in SUBSET Nat /\ S # {} /\ n \in Nat /\ \A x \in S : x <= n
    <2> HIDE DEF Above
    <2>1. \A x \in S : x \in Nat /\ x <= n
      BY <1>1, <1>2
    <2> HIDE DEF S
    <2>2. 1 \in S
      BY DEF S
    <2>3. QED
      BY <1>1, <2>1, <2>2
  <1>5. Cardinality(Above(d)) \in S
    OBVIOUS
  <1> HIDE DEF S, n
  <1>6. Max(S) \in Nat /\ Cardinality(Above(d)) <= Max(S)
    BY <1>4, <1>5, MaxNat
  <1>7. QED
    BY <1>2, <1>3, <1>6

\* The rows of one message are finitely many.
LEMMA RowIdsFinite ==
    ASSUME NEW rows \in Seq(Row)
    PROVE  IsFiniteSet(RowIds(rows))
  <1> DEFINE n == Len(rows)
             f == [i \in 1..n |-> rows[i].id]
  <1>1. n \in Nat /\ DOMAIN rows = 1..n
    OBVIOUS
  <1>2. f \in [1..n -> RowIds(rows)]
    BY <1>1 DEF RowIds
  <1>3. \A x \in RowIds(rows) : \E i \in 1..n : f[i] = x
    BY <1>1 DEF RowIds
  <1> HIDE DEF f
  <1>4. f \in Surjection(1..n, RowIds(rows))
    BY <1>2, <1>3 DEF Surjection
  <1>5. IsFiniteSet(1..n)
    BY <1>1, FS_Interval
  <1>6. QED
    BY <1>4, <1>5, FS_Surjection

\* The old topics keep their walks in an insertion; each row is one level
\* below the parent it names, which is old or an earlier row.
LEMMA InsertDepth ==
    ASSUME NEW f, Whole(f), NEW rows \in Seq(Row), FreshRows(f, rows),
           RowIds(rows) \cap DOMAIN f = {},
           NEW g, g = WithRows(f, rows), Whole(g),
           NEW base \in Nat, NEW lev \in [DOMAIN rows -> Nat],
           \A i \in DOMAIN rows :
              \/ rows[i].topic.parent = NoTopic /\ lev[i] >= 1
              \/ /\ rows[i].topic.parent \in DOMAIN f
                 /\ Depth(f, rows[i].topic.parent) <= base
                 /\ lev[i] >= 1
              \/ \E j \in DOMAIN rows : /\ j < i
                                        /\ rows[i].topic.parent = rows[j].id
                                        /\ lev[i] >= lev[j] + 1
    PROVE  /\ \A t \in DOMAIN f : Depth(g, t) <= Depth(f, t)
           /\ \A i \in DOMAIN rows : Depth(g, rows[i].id) <= base + lev[i]
  <1>1. /\ f \in Forests /\ g \in Forests
        /\ DOMAIN f \subseteq Topics
        /\ DOMAIN g = DOMAIN f \cup RowIds(rows)
        /\ RowIds(rows) \subseteq Topics
    BY WithRowsType, ForestElim DEF Whole
  <1>2. ASSUME NEW t \in DOMAIN f
        PROVE  Depth(g, t) \in Nat /\ Depth(f, t) \in Nat /\ Depth(g, t) <= Depth(f, t)
    <2>1. Ancestors(f, t) \subseteq DOMAIN f /\ Depth(f, t) \in Nat
      BY WholeWalk
    <2>2. \A x \in Ancestors(f, t) : ParentOf(g, x) = ParentOf(f, x)
      <3>1. \A x \in Topics \ RowIds(rows) : ParentOf(g, x) = ParentOf(f, x)
        BY <1>1, WithRowsParents
      <3>2. QED
        BY <1>1, <2>1, <3>1
    <2>3. QED
      BY <2>1, <2>2, DepthKept
  <1> DEFINE Bad == {i \in DOMAIN rows : ~ (Depth(g, rows[i].id) <= base + lev[i])}
  <1>3. Bad = {}
    <2> SUFFICES ASSUME Bad # {} PROVE FALSE
      OBVIOUS
    <2>1. Bad \in SUBSET Nat
      OBVIOUS
    <2>2. PICK i \in Bad : \A j \in Bad : i <= j
      BY <2>1, SmallestNat
    <2> DEFINE t == rows[i].id
               q == rows[i].topic.parent
    <2>3. /\ i \in DOMAIN rows /\ i \in Nat
          /\ ~ (Depth(g, t) <= base + lev[i])
          /\ lev[i] \in Nat
      BY <2>2
    <2>4. t \in DOMAIN g /\ t \in Topics
      BY <1>1, <2>3 DEF RowIds
    <2>5. ParentOf(g, t) = q
      BY <1>1, <2>3, WithRowsParents
    <2>6. Depth(g, t) \in Nat
      BY <2>4, WholeWalk
    <2>7. q \in DOMAIN g => /\ Depth(g, q) \in Nat
                            /\ q # NoTopic
                            /\ Depth(g, t) <= Depth(g, q) + 1
      <3> SUFFICES ASSUME q \in DOMAIN g
                   PROVE  Depth(g, q) \in Nat /\ q # NoTopic /\ Depth(g, t) <= Depth(g, q) + 1
        OBVIOUS
      <3>1. q # NoTopic
        BY <1>1, ForestElim, NoTopicAssumption
      <3>2. IsFiniteSet(Ancestors(g, q)) /\ Depth(g, q) \in Nat
        BY WholeWalk
      <3>3. QED
        BY <1>1, <2>4, <2>5, <3>1, <3>2, DepthUp
    <2>8. CASE q = NoTopic /\ lev[i] >= 1
      <3>1. Depth(g, t) <= 1
        BY <1>1, <2>4, <2>5, <2>8, DepthUp
      <3>2. QED
        BY <2>3, <2>6, <2>8, <3>1
    <2>9. CASE q \in DOMAIN f /\ Depth(f, q) <= base /\ lev[i] >= 1
      <3>1. /\ Depth(g, q) \in Nat /\ Depth(f, q) \in Nat
            /\ Depth(g, q) <= Depth(f, q)
            /\ Depth(g, t) <= Depth(g, q) + 1
        BY <1>1, <1>2, <2>7, <2>9
      <3>2. QED
        BY <2>3, <2>6, <2>9, <3>1
    <2>10. CASE \E j \in DOMAIN rows : j < i /\ q = rows[j].id /\ lev[i] >= lev[j] + 1
      <3>1. PICK j \in DOMAIN rows : j < i /\ q = rows[j].id /\ lev[i] >= lev[j] + 1
        BY <2>10
      <3>2. q \in DOMAIN g
        BY <1>1, <3>1 DEF RowIds
      <3>3. j \in Nat /\ lev[j] \in Nat
        OBVIOUS
      <3>4. Depth(g, q) <= base + lev[j]
        BY <2>2, <2>3, <3>1, <3>3
      <3>5. QED
        BY <2>3, <2>6, <2>7, <3>1, <3>2, <3>3, <3>4
    <2>11. QED
      BY <2>3, <2>8, <2>9, <2>10
  <1>4. QED
    BY <1>2, <1>3

\* The walks after a move: below the moved topic they go up to it and on from
\* its new parent; elsewhere they are what they were.
LEMMA MoveDepth ==
    ASSUME NEW f, Whole(f), NEW id \in DOMAIN f, NEW p \in DOMAIN f \cup {NoTopic},
           p # NoTopic => id \notin Ancestors(f, p),
           NEW d \in DOMAIN f
    PROVE  LET g == Moved(f, id, p)
               above == IF p = NoTopic THEN 0 ELSE Depth(f, p)
           IN  \/ Depth(g, d) <= Depth(f, d)
               \/ Depth(g, d) <= Height(f, id) + above
  <1> DEFINE g == Moved(f, id, p)
             above == IF p = NoTopic THEN 0 ELSE Depth(f, p)
             A == Ancestors(f, d)
             B == {x \in A : id \in Ancestors(f, x)}
             P == IF p = NoTopic THEN {} ELSE Ancestors(f, p)
             C == B \cup P
  <1>1. /\ f \in Forests /\ id \in Topics /\ d \in Topics /\ p \in OptTopic
        /\ DOMAIN f \subseteq Topics /\ IsFiniteSet(DOMAIN f)
    BY ForestElim DEF Whole, OptTopic
  <1>2. /\ \A x \in Topics : x # id => ParentOf(g, x) = ParentOf(f, x)
        /\ ParentOf(g, id) = p
    BY <1>1, MovedType DEF ParentOf
  <1>3. CASE id \notin A
    <2>1. \A x \in A : ParentOf(g, x) = ParentOf(f, x)
      BY <1>2, <1>3 DEF Ancestors
    <2>2. Depth(g, d) <= Depth(f, d)
      BY <2>1, DepthKept
    <2>3. QED
      BY <2>2
  <1>4. CASE id \in A
    <2>1. d \in Subtree(f, id)
      BY <1>4 DEF Subtree
    <2>2. d \in A /\ UpClosed(f, A) /\ A \subseteq Topics /\ A \subseteq DOMAIN f
      BY <1>1, AncestorsClosed, WholeWalk
    <2>3. /\ IsFiniteSet(B) /\ Cardinality(B) \in Nat
          /\ Height(f, id) \in Nat /\ Cardinality(B) <= Height(f, id)
      BY <2>1, HeightCovers
    <2>4. /\ IsFiniteSet(P) /\ Cardinality(P) = above /\ above \in Nat
          /\ P \subseteq Topics /\ id \notin P /\ UpClosed(f, P)
          /\ p # NoTopic => p \in P
      <3>1. CASE p = NoTopic
        BY <3>1, FS_EmptySet DEF UpClosed
      <3>2. CASE p # NoTopic
        <4>1. p \in DOMAIN f /\ p \in Topics
          BY <1>1, <3>2
        <4>2. /\ IsFiniteSet(Ancestors(f, p)) /\ Depth(f, p) \in Nat
              /\ Ancestors(f, p) \subseteq Topics
          BY <1>1, <4>1, WholeWalk
        <4>3. p \in Ancestors(f, p) /\ UpClosed(f, Ancestors(f, p))
          BY <1>1, <4>1, AncestorsClosed
        <4>4. P = Ancestors(f, p) /\ above = Depth(f, p)
          BY <3>2
        <4>5. QED
          BY <3>2, <4>2, <4>3, <4>4 DEF Depth
      <3>3. QED
        BY <3>1, <3>2
    <2>5. ASSUME NEW x \in B PROVE ParentOf(g, x) \in C \cup {NoTopic}
      <3>1. x \in A /\ x \in Topics /\ id \in Ancestors(f, x)
        BY <2>2
      <3>2. CASE x = id
        BY <1>2, <2>4, <3>2
      <3>3. CASE x # id
        <4> DEFINE y == ParentOf(f, x)
        <4>1. ParentOf(g, x) = y
          BY <1>2, <3>1, <3>3
        <4>2. y # NoTopic /\ id \in Ancestors(f, y)
          BY <1>1, <3>1, <3>3, WalkStep
        <4>3. y \in A
          BY <2>2, <3>1, <4>2 DEF UpClosed
        <4>4. QED
          BY <4>1, <4>2, <4>3
      <3>4. QED
        BY <3>2, <3>3
    <2>6. ASSUME NEW x \in P PROVE ParentOf(g, x) \in C \cup {NoTopic}
      <3>1. x # id /\ x \in Topics
        BY <2>4
      <3>2. ParentOf(f, x) \in P \cup {NoTopic}
        BY <2>4 DEF UpClosed
      <3>3. QED
        BY <1>2, <3>1, <3>2
    <2>7. d \in C /\ C \in SUBSET Topics
      BY <1>4, <2>2, <2>4
    <2>8. UpClosed(g, C)
      BY <2>5, <2>6 DEF UpClosed
    <2> HIDE DEF B, P
    <2>9. IsFiniteSet(C) /\ Cardinality(C) <= Cardinality(B) + Cardinality(P)
      <3>1. IsFiniteSet(B \cap P) /\ Cardinality(B \cap P) \in Nat
        BY <2>3, FS_Intersection, FS_CardinalityType
      <3>2. /\ IsFiniteSet(B \cup P)
            /\ Cardinality(B \cup P) =
                 Cardinality(B) + Cardinality(P) - Cardinality(B \cap P)
        BY <2>3, <2>4, FS_Union
      <3>3. QED
        BY <2>3, <2>4, <3>1, <3>2
    <2> HIDE DEF C, g, above
    <2>10. Depth(g, d) \in Nat /\ Depth(g, d) <= Cardinality(C)
      BY <2>7, <2>8, <2>9, WalkBound
    <2>11. Cardinality(C) \in Nat
      BY <2>9, FS_CardinalityType
    <2>12. Depth(g, d) <= Height(f, id) + above
      BY <2>3, <2>4, <2>9, <2>10, <2>11
    <2>13. QED
      BY <2>12 DEF g, above
  <1>5. QED
    BY <1>3, <1>4

=============================================================================
