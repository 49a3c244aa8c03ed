---------------------------- MODULE BoardsProofs ----------------------------
(***************************************************************************)
(* The boards of a room, for any number of hosts, boards, strokes, texts   *)
(* and handlers.                                                           *)
(*                                                                         *)
(* Types (TInv).  That an operation is applied to a table it fits rests on *)
(* what was given out: every board and stroke that a handler, the queue or *)
(* a table speaks of is in `used`.                                         *)
(*                                                                         *)
(* The focus (FInv).  The only handler that relies on what it saw under an *)
(* earlier lock is set_focused_board.  While it is under way on the focus, *)
(* whoever deletes a board touches the focus as well and leaves a mark in  *)
(* `crossed`; so without the mark the board that was checked is still      *)
(* there (Checked).                                                        *)
(*                                                                         *)
(* What the browser of a following guest shows (SInv).  A thing that no    *)
(* two hosts have overlapped on has one handler at a time, and a view is   *)
(* like the room there once that handler has spoken (FineAt).              *)
(*                                                                         *)
(* What the tables hold (WInv).  Until a batch is lost there is a chain of *)
(* tables, from the open transaction's through one for each operation of   *)
(* the queue, and the last of them matches the room in everything that no  *)
(* handler still owes an operation for; one that does, brings the match    *)
(* (Ready).  For a pen board to match is that the room's log and the       *)
(* table's rows agree but for strokes under way (Linked), and that every   *)
(* row of the table finds what it undoes (Sound).  No batch is lost while  *)
(* no two hosts have overlapped on a board: each table of the chain then   *)
(* takes the next operation, since a stroke that is yet to be stored is    *)
(* nowhere in the tables (DueOnce).                                        *)
(***************************************************************************)
EXTENDS Boards, SequenceTheorems, TLAPS

LEMMA MapOps ==
    ASSUME NEW D, NEW R, NEW f \in Maps(D, R)
    PROVE  /\ DOMAIN f \subseteq D /\ \A x \in DOMAIN f : f[x] \in R
           /\ NoMap \in Maps(D, R)
           /\ \A x \in D, v \in R : Put(f, x, v) \in Maps(D, R)
           /\ \A S : Without(f, S) \in Maps(D, R)
           /\ \A S : S \subseteq DOMAIN f => Restrict(f, S) \in Maps(D, R)
           /\ \A g \in Maps(D, R) : Over(g, f) \in Maps(D, R)
<1>1. DOMAIN f \subseteq D /\ \A x \in DOMAIN f : f[x] \in R
  BY DEF Maps
<1>2. NoMap \in Maps(D, R)
  <2>1. NoMap \in [{} -> R] /\ {} \in SUBSET D
    BY DEF NoMap
  <2> QED
    BY <2>1 DEF Maps
<1>3. ASSUME NEW x \in D, NEW v \in R PROVE Put(f, x, v) \in Maps(D, R)
  <2>1. Put(f, x, v) \in [DOMAIN f \cup {x} -> R]
    BY <1>1 DEF Put
  <2> QED
    BY <1>1, <2>1 DEF Maps
<1>4. ASSUME NEW S, S \subseteq DOMAIN f PROVE Restrict(f, S) \in Maps(D, R)
  <2>1. Restrict(f, S) \in [S -> R]
    BY <1>1, <1>4 DEF Restrict
  <2> QED
    BY <1>1, <1>4, <2>1 DEF Maps
<1>5. ASSUME NEW S PROVE Without(f, S) \in Maps(D, R)
  BY <1>4 DEF Without
<1>6. ASSUME NEW g \in Maps(D, R) PROVE Over(g, f) \in Maps(D, R)
  <2>1. DOMAIN g \subseteq D /\ \A x \in DOMAIN g : g[x] \in R
    BY DEF Maps
  <2>2. Over(g, f) \in [DOMAIN g \cup DOMAIN f -> R]
    BY <1>1, <2>1 DEF Over
  <2> QED
    BY <1>1, <2>1, <2>2 DEF Maps
<1> QED
  BY <1>1, <1>2, <1>3, <1>4, <1>5, <1>6

LEMMA DrawingOps ==
    ASSUME NEW d \in Drawing
    PROVE  /\ \A s \in Strokes, c \in {"part", "whole"} : WithStroke(d, s, c) \in Drawing
           /\ \A t \in Texts, v \in Contents : WithText(d, t, v) \in Drawing
           /\ \A t : LessText(d, t) \in Drawing
<1> USE DEF Drawing
<1>1. ASSUME NEW s \in Strokes, NEW c \in {"part", "whole"} PROVE WithStroke(d, s, c) \in Drawing
  BY MapOps DEF WithStroke
<1>2. ASSUME NEW t \in Texts, NEW v \in Contents PROVE WithText(d, t, v) \in Drawing
  BY MapOps DEF WithText
<1>3. ASSUME NEW t PROVE LessText(d, t) \in Drawing
  BY MapOps DEF LessText
<1> QED
  BY <1>1, <1>2, <1>3

LEMMA BlankDrawing == Blank \in Drawing
<1>1. NoMap \in Maps(Strokes, {"part", "whole"}) /\ NoMap \in Maps(Texts, Contents)
  <2>1. \A D, R : NoMap \in [{} -> R] /\ {} \in SUBSET D
    BY DEF NoMap
  <2> QED
    BY <2>1 DEF Maps
<1> QED
  BY <1>1 DEF Blank, Drawing

LEMMA UndoneDrawing ==
    ASSUME NEW d \in Drawing, NEW act
    PROVE  LessUndone(d, act) \in Drawing
  BY MapOps DEF LessUndone, Drawing

LEMMA ReversedDrawing ==
    ASSUME NEW d \in Drawing, NEW row, row.before \in Drawing
    PROVE  Reversed(d, row) \in Drawing
<1>1. LessUndone(d, row.act) \in Drawing
  BY UndoneDrawing
<1> QED
  BY <1>1, MapOps DEF Reversed, Drawing

\* Sequences: a set that grows, and what taking elements away leaves.
LEMMA SeqGrows ==
    ASSUME NEW S, NEW T, S \subseteq T
    PROVE  Seq(S) \subseteq Seq(T)
  BY SeqDef

LEMMA SeqLess ==
    ASSUME NEW S, NEW q \in Seq(S), NEW i \in DOMAIN q
    PROVE  /\ RemoveAt(q, i) \in Seq(S)
           /\ \A k \in DOMAIN RemoveAt(q, i) : RemoveAt(q, i)[k] = q[IF k < i THEN k ELSE k + 1]
           /\ Len(RemoveAt(q, i)) = Len(q) - 1
<1>1. i \in 1..Len(q) /\ Len(q) \in Nat
  BY LenProperties
<1> DEFINE a == SubSeq(q, 1, i - 1)
           b == SubSeq(q, i + 1, Len(q))
<1>2. /\ a \in Seq(S) /\ Len(a) = i - 1 /\ \A k \in 1..(i - 1) : a[k] = q[k]
      /\ b \in Seq(S) /\ Len(b) = Len(q) - i /\ \A k \in 1..(Len(q) - i) : b[k] = q[i + k]
  BY <1>1
<1> HIDE DEF a, b
<1>3. RemoveAt(q, i) = a \o b
  BY DEF RemoveAt, a, b
<1>4. /\ a \o b \in Seq(S) /\ Len(a \o b) = Len(q) - 1
      /\ \A k \in 1..(Len(q) - 1) : (a \o b)[k] = q[IF k < i THEN k ELSE k + 1]
  <2>1. /\ a \o b \in Seq(S) /\ Len(a \o b) = Len(a) + Len(b)
        /\ \A k \in 1..(Len(a) + Len(b)) :
              (a \o b)[k] = IF k <= Len(a) THEN a[k] ELSE b[k - Len(a)]
    BY <1>2, ConcatProperties
  <2>2. Len(a) + Len(b) = Len(q) - 1
    BY <1>1, <1>2
  <2>3. ASSUME NEW k \in 1..(Len(q) - 1)
        PROVE  (a \o b)[k] = q[IF k < i THEN k ELSE k + 1]
    <3>1. CASE k < i
      BY <1>1, <1>2, <2>1, <2>2, <3>1
    <3>2. CASE ~(k < i)
      <4>1. k - Len(a) \in 1..(Len(q) - i) /\ i + (k - Len(a)) = k + 1 /\ ~(k <= Len(a))
        BY <1>1, <1>2, <3>2
      <4>2. (a \o b)[k] = b[k - Len(a)]
        BY <2>1, <2>2, <4>1
      <4> QED
        BY <1>2, <3>2, <4>1, <4>2
    <3> QED
      BY <3>1, <3>2
  <2> QED
    BY <2>1, <2>2, <2>3
<1>5. DOMAIN (a \o b) = 1..(Len(q) - 1)
  BY <1>4, LenProperties
<1> QED
  BY <1>3, <1>4, <1>5

LEMMA FrontLast ==
    ASSUME NEW S, NEW q \in Seq(S), q # <<>>
    PROVE  /\ Last(q) \in S /\ Len(q) \in Nat \ {0} /\ Last(q) = q[Len(q)]
           /\ Front(q) \in Seq(S) /\ Len(Front(q)) = Len(q) - 1
           /\ \A i \in 1..(Len(q) - 1) : Front(q)[i] = q[i]
<1>1. Len(q) \in Nat \ {0}
  BY EmptySeq, LenProperties
<1>2. Last(q) = q[Len(q)] /\ q[Len(q)] \in S
  BY <1>1, ElementOfSeq DEF Last
<1>3. Front(q) = SubSeq(q, 1, Len(q) - 1)
  BY DEF Front
<1>4. /\ SubSeq(q, 1, Len(q) - 1) \in Seq(S)
      /\ Len(SubSeq(q, 1, Len(q) - 1)) = Len(q) - 1
      /\ \A i \in 1..(Len(q) - 1) : SubSeq(q, 1, Len(q) - 1)[i] = q[i]
  <2>1. \A i \in 1..(Len(q) - 1) : q[i] \in S
    BY <1>1, ElementOfSeq
  <2>2. Len(q) - 1 \in Int /\ (Len(q) - 1) - 1 + 1 = Len(q) - 1
    BY <1>1
  <2> DEFINE n == Len(q) - 1
             z == SubSeq(q, 1, n)
  <2>3. /\ SubSeq(q, 1, n) \in Seq(S)
        /\ Len(SubSeq(q, 1, n)) = IF 1 <= n THEN n - 1 + 1 ELSE 0
        /\ \A i \in 1..(n - 1 + 1) : SubSeq(q, 1, n)[i] = q[1 + i - 1]
    BY <2>1, <2>2, SubSeqProperties
  <2>n. n \in Nat
    BY <1>1
  <2> HIDE DEF z, n
  <2>4. Len(z) = n
    BY <2>n, <2>3 DEF z
  <2>5. \A i \in 1..n : i \in 1..(n - 1 + 1) /\ 1 + i - 1 = i
    BY <2>n
  <2>6. \A i \in 1..n : z[i] = q[i]
    BY <2>3, <2>5 DEF z
  <2> QED
    BY <2>3, <2>4, <2>6 DEF z, n
<1> QED
  BY <1>1, <1>2, <1>3, <1>4

-----------------------------------------------------------------------------
ActsOf(S) == {a \in Action(ActionIds) : a.kind = "stroke" => a.target \in S}

RowsOf(S) == {r \in Row(ActionIds) : r.act \in ActsOf(S)}

OpsOf(B, S) ==
    {op \in Op \ {NoOp} :
        /\ op.board \in B
        /\ op.kind = "act"  => op.row \in RowsOf(S) /\ op.row.act.kind # "set"
        /\ op.kind = "text" => op.row \in RowsOf(S) /\ op.row.act.kind = "set"}

LEMMA OfGrows ==
    ASSUME NEW B, NEW C, B \subseteq C, NEW S, NEW T, S \subseteq T
    PROVE  /\ ActsOf(S) \subseteq ActsOf(T) /\ RowsOf(S) \subseteq RowsOf(T)
           /\ OpsOf(B, S) \subseteq OpsOf(C, T)
           /\ Seq(ActsOf(S)) \subseteq Seq(ActsOf(T))
           /\ Seq(RowsOf(S)) \subseteq Seq(RowsOf(T))
           /\ Seq(OpsOf(B, S)) \subseteq Seq(OpsOf(C, T))
<1>1. ActsOf(S) \subseteq ActsOf(T)
  BY DEF ActsOf
<1>2. RowsOf(S) \subseteq RowsOf(T)
  BY <1>1 DEF RowsOf
<1>3. OpsOf(B, S) \subseteq OpsOf(C, T)
  BY <1>2 DEF OpsOf
<1> QED
  BY <1>1, <1>2, <1>3, SeqGrows

LEMMA ActionIn ==
    ASSUME NEW ids, NEW id \in ids
    PROVE  /\ \A s \in Strokes : Stroke(id, s) \in Action(ids)
           /\ \A t \in Texts : Set(id, t) \in Action(ids) /\ Delete(id, t) \in Action(ids)
           /\ Clear(id) \in Action(ids)
  BY DEF Stroke, Set, Delete, Clear, Action

LEMMA ActionShapes ==
    ASSUME NEW ids, NEW a \in Action(ids)
    PROVE  /\ a.kind \in {"stroke", "set", "delete", "clear"} /\ a.id \in ids
           /\ a.kind = "stroke" => a.target \in Strokes
           /\ a.kind \in {"set", "delete"} => a.target \in Texts
<1>1. CASE a \in [id : ids, kind : {"stroke"}, target : Strokes]
  BY <1>1
<1>2. CASE a \in [id : ids, kind : {"set", "delete"}, target : Texts]
  BY <1>2
<1>3. CASE a \in [id : ids, kind : {"clear"}]
  BY <1>3
<1> QED
  BY <1>1, <1>2, <1>3 DEF Action

LEMMA RowShape ==
    ASSUME NEW ids, NEW r \in Row(ids)
    PROVE  r.act \in Action(ids) /\ r.before \in Drawing /\ r = [act |-> r.act, before |-> r.before]
  BY DEF Row

\* What the room's operations on a pen board leave of its type.
LEMMA DidIn ==
    ASSUME NEW S, NEW p, p.now \in Drawing, p.log \in Seq(ActsOf(S)), NEW now \in Drawing,
           NEW act \in ActsOf(S)
    PROVE  /\ Did(p, now, act) \in PenState(ActionIds)
           /\ Did(p, now, act).log \in Seq(ActsOf(S))
<1>1. Append(p.log, act) \in Seq(ActsOf(S))
  OBVIOUS
<1>2. ActsOf(S) \subseteq Action(ActionIds)
  BY DEF ActsOf
<1>3. Append(p.log, act) \in Seq(Action(ActionIds))
  BY <1>1, <1>2, SeqGrows
<1> QED
  BY <1>1, <1>3 DEF Did, PenState

LEMMA UndoIn ==
    ASSUME NEW S, NEW p, p.now \in Drawing, p.log \in Seq(ActsOf(S)), p.log # <<>>
    PROVE  /\ Undo(p) \in PenState(ActionIds)
           /\ Undo(p).log \in Seq(ActsOf(S))
           /\ Last(p.log) \in ActsOf(S)
<1>1. Last(p.log) \in ActsOf(S) /\ Front(p.log) \in Seq(ActsOf(S))
  BY FrontLast
<1>2. ActsOf(S) \subseteq Action(ActionIds)
  BY DEF ActsOf
<1>3. Front(p.log) \in Seq(Action(ActionIds))
  BY <1>1, <1>2, SeqGrows
<1>4. LessUndone(p.now, Last(p.log)) \in Drawing
  BY UndoneDrawing
<1> QED
  BY <1>1, <1>3, <1>4 DEF Undo, PenState

\* A pen table whose rows are in R.
Table(R) == [now : Drawing, rows : Seq(R)]

LEMMA StoreIn ==
    ASSUME NEW S, NEW t \in Table(RowsOf(S)), NEW row \in RowsOf(S)
    PROVE  /\ row.act.kind = "set" =>
                 \A v \in Contents : StoreText(t, row, v) \in Table(RowsOf(S))
           /\ row.act.kind # "set" => StoreAction(t, row) \in Table(RowsOf(S))
<1> DEFINE R == RowsOf(S)
<1>1. t.now \in Drawing /\ t.rows \in Seq(R)
  BY DEF Table
<1>2. ASSUME NEW now \in Drawing PROVE Store(t, now, row) \in Table(R)
  <2>1. Append(t.rows, row) \in Seq(R)
    BY <1>1
  <2> QED
    BY <2>1 DEF Store, Table
<1>3. row \in Row(ActionIds) /\ row.act \in Action(ActionIds)
  BY RowShape DEF RowsOf
<1>4. CASE row.act.kind = "set"
  <2>1. row.act.target \in Texts
    BY <1>3, <1>4, ActionShapes
  <2>2. \A v \in Contents : WithText(t.now, row.act.target, v) \in Drawing
    BY <1>1, <2>1, MapOps DEF WithText, Drawing
  <2> QED
    BY <1>2, <1>4, <2>2 DEF StoreText
<1>5. CASE row.act.kind = "stroke"
  <2>1. row.act.target \in Strokes
    BY <1>3, <1>5, ActionShapes
  <2>2. WithStroke(t.now, row.act.target, "whole") \in Drawing
    BY <1>1, <2>1, MapOps DEF WithStroke, Drawing
  <2>3. StoreAction(t, row) = Store(t, WithStroke(t.now, row.act.target, "whole"), row)
    BY <1>5 DEF StoreAction
  <2> QED
    BY <1>2, <1>5, <2>2, <2>3
<1>6. CASE row.act.kind = "delete"
  <2>2. LessText(t.now, row.act.target) \in Drawing
    BY <1>1, MapOps DEF LessText, Drawing
  <2>3. StoreAction(t, row) = Store(t, LessText(t.now, row.act.target), row)
    BY <1>6 DEF StoreAction
  <2> QED
    BY <1>2, <1>6, <2>2, <2>3
<1>7. CASE row.act.kind = "clear"
  <2>1. StoreAction(t, row) = Store(t, Blank, row)
    BY <1>7 DEF StoreAction
  <2> QED
    BY <1>2, <1>7, <2>1, BlankDrawing
<1> QED
  BY <1>3, <1>4, <1>5, <1>6, <1>7, ActionShapes

LEMMA UndoRowIn ==
    ASSUME NEW S, NEW t \in Table(RowsOf(S)), NEW id
    PROVE  UndoRow(t, id) \in Table(RowsOf(S))
<1> DEFINE R == RowsOf(S)
           i == CHOOSE i \in DOMAIN t.rows : t.rows[i].act.id = id
<1>1. t.now \in Drawing /\ t.rows \in Seq(R)
  BY DEF Table
<1>2. CASE ~Stored(t, id)
  BY <1>2 DEF UndoRow
<1>3. CASE Stored(t, id)
  <2>1. i \in DOMAIN t.rows
    BY <1>3 DEF Stored
  <2>2. UndoRow(t, id) = [now |-> Reversed(t.now, t.rows[i]), rows |-> RemoveAt(t.rows, i)]
    BY <1>3 DEF UndoRow
  <2> HIDE DEF i
  <2>3. t.rows[i] \in R
    BY <1>1, <2>1
  <2>4. t.rows[i].before \in Drawing
    BY <2>3, RowShape DEF RowsOf
  <2>5. Reversed(t.now, t.rows[i]) \in Drawing
    BY <1>1, <2>4, ReversedDrawing
  <2>6. RemoveAt(t.rows, i) \in Seq(R)
    BY <1>1, <2>1, SeqLess
  <2> QED
    BY <2>2, <2>5, <2>6 DEF Table
<1> QED
  BY <1>2, <1>3

LEMMA LoadedIn ==
    ASSUME NEW S, NEW t \in Table(RowsOf(S))
    PROVE  /\ Loaded(t) \in PenState(ActionIds)
           /\ Loaded(t).log \in Seq(ActsOf(S))
<1> DEFINE log == [i \in DOMAIN t.rows |-> t.rows[i].act]
<1>1. t.now \in Drawing /\ t.rows \in Seq(RowsOf(S))
  BY DEF Table
<1>2. Len(t.rows) \in Nat /\ DOMAIN t.rows = 1..Len(t.rows)
  BY <1>1, LenProperties
<1>3. \A i \in 1..Len(t.rows) : t.rows[i].act \in ActsOf(S)
  BY <1>1, <1>2 DEF RowsOf
<1>4. log \in [1..Len(t.rows) -> ActsOf(S)]
  BY <1>2, <1>3
<1>5. log \in Seq(ActsOf(S))
  BY <1>2, <1>4, SeqDef
<1>6. log \in Seq(Action(ActionIds))
  <2>1. ActsOf(S) \subseteq Action(ActionIds)
    BY DEF ActsOf
  <2> QED
    BY <1>5, <2>1, SeqGrows
<1> QED
  BY <1>1, <1>5, <1>6 DEF Loaded, PenState

LEMMA LoadedNothing == Loaded(NoTable) = NoPen
<1>1. [i \in DOMAIN <<>> |-> <<>>[i].act] = <<>>
  BY SMT
<1> QED
  BY <1>1 DEF Loaded, NoTable, NoPen

-----------------------------------------------------------------------------
LEMMA MsgShapes ==
    ASSUME NEW m \in Msg
    PROVE  /\ m.kind \in {"created", "renamed", "deleted", "focused", "scene",
                          "begun", "ended", "text", "textGone", "cleared", "undone"}
           /\ m.board \in Ids
           /\ m.kind \in {"created", "renamed"} => m.title \in Titles
           /\ m.kind = "scene" => m.board \in Scenes /\ m.version \in Versions
           /\ m.kind \in {"begun", "ended", "text", "textGone", "cleared", "undone"}
                 => m.board \in Pens
           /\ m.kind \in {"begun", "ended"} => m.stroke \in Strokes
           /\ m.kind \in {"text", "textGone"} => m.text \in Texts
           /\ m.kind = "text" => m.value \in Contents
<1> USE DEF Ids
<1>1. CASE m \in [kind : {"created", "renamed"}, board : Ids, title : Titles]
  BY <1>1
<1>2. CASE m \in [kind : {"deleted", "focused"}, board : Ids]
  BY <1>2
<1>3. CASE m \in [kind : {"scene"}, board : Scenes, version : Versions]
  BY <1>3
<1>4. CASE m \in [kind : {"begun", "ended"}, board : Pens, stroke : Strokes]
  BY <1>4
<1>5. CASE m \in [kind : {"text"}, board : Pens, text : Texts, value : Contents]
  BY <1>5
<1>6. CASE m \in [kind : {"textGone"}, board : Pens, text : Texts]
  BY <1>6
<1>7. CASE m \in [kind : {"cleared"}, board : Pens]
  BY <1>7
<1>8. CASE m \in [kind : {"undone"}, board : Pens, act : Action(ActionIds)]
  BY <1>8
<1> QED
  BY <1>1, <1>2, <1>3, <1>4, <1>5, <1>6, <1>7, <1>8 DEF Msg, ListMsg, PenMsg

LEMMA OpShapes ==
    ASSUME NEW op \in Op \ {NoOp}
    PROVE  /\ op.kind \in {"upsert", "rename", "delete", "focus", "scene", "act", "text", "undo"}
           /\ op.board \in Ids
           /\ op.kind \in {"upsert", "rename"} => op.title \in Titles
           /\ op.kind = "scene" => op.board \in Scenes /\ op.version \in Versions
           /\ op.kind \in {"act", "text", "undo"} => op.board \in Pens
           /\ op.kind \in {"act", "text"} => op.row \in Row(ActionIds)
           /\ op.kind = "text" => op.value \in Contents
<1> USE DEF Ids
<1>1. CASE op \in [kind : {"upsert", "rename"}, board : Ids, title : Titles]
  BY <1>1
<1>2. CASE op \in [kind : {"delete", "focus"}, board : Ids]
  BY <1>2
<1>3. CASE op \in [kind : {"scene"}, board : Scenes, version : Versions]
  BY <1>3
<1>4. CASE op \in [kind : {"act"}, board : Pens, row : Row(ActionIds)]
  BY <1>4
<1>5. CASE op \in [kind : {"text"}, board : Pens, row : Row(ActionIds), value : Contents]
  BY <1>5
<1>6. CASE op \in [kind : {"undo"}, board : Pens, id : ActionIds]
  BY <1>6
<1> QED
  BY <1>1, <1>2, <1>3, <1>4, <1>5, <1>6 DEF Op, ListOp, PenOp

LEMMA JobShapes ==
    ASSUME NEW j \in Job
    PROVE  /\ j.step \in {"idle", "checked", "tell", "save"}
           /\ j.step = "idle" <=> j = Idle
           /\ j.step = "checked" => j.on \subseteq Things /\ j.board \in Ids
           /\ j.step = "tell" => j.on \subseteq Things /\ j.msg \in Msg /\ j.op \in Op
           /\ j.step = "save" => j.on \subseteq Things /\ j.op \in Op
<1> USE DEF Idle
<1>1. CASE j \in {Idle}
  BY <1>1
<1>2. CASE j \in [step : {"checked"}, on : SUBSET Things, board : Ids]
  BY <1>2
<1>3. CASE j \in [step : {"tell"}, on : SUBSET Things, msg : Msg, op : Op]
  BY <1>3
<1>4. CASE j \in [step : {"save"}, on : SUBSET Things, op : Op]
  BY <1>4
<1> QED
  BY <1>1, <1>2, <1>3, <1>4 DEF Job

LEMMA TablesShape ==
    ASSUME NEW t \in Tables
    PROVE  /\ t.title \in Maps(Ids, Titles) /\ t.focus \in Ids \cup {NoBoard}
           /\ t.scene \in [Scenes -> Versions] /\ t.pen \in [Pens -> PenTable(ActionIds)]
           /\ t = [title |-> t.title, focus |-> t.focus, scene |-> t.scene, pen |-> t.pen]
  BY DEF Tables

LEMMA ViewShape ==
    ASSUME NEW v \in View
    PROVE  /\ v.title \in Maps(Ids, Titles) /\ v.focus \in Ids \cup {NoBoard}
           /\ v.scene \in [Scenes -> Versions] /\ v.pen \in [Pens -> Drawing]
           /\ v.fresh \subseteq Pens \X Strokes
           /\ v = [title |-> v.title, focus |-> v.focus, scene |-> v.scene, pen |-> v.pen,
                   fresh |-> v.fresh]
  BY DEF View

\* A view that differs from another on one pen board.
OnlyPen(v, w, b, d) ==
    /\ w = [v EXCEPT !.pen = [v.pen EXCEPT ![b] = d], !.fresh = w.fresh]
    /\ w.fresh \subseteq Pens \X Strokes
    /\ \A c \in Pens \ {b}, s \in Strokes : <<c, s>> \in w.fresh <=> <<c, s>> \in v.fresh

LEMMA OnlyPenIn ==
    ASSUME NEW v \in View, NEW b \in Pens, NEW d \in Drawing, NEW w, OnlyPen(v, w, b, d)
    PROVE  /\ w \in View /\ w.title = v.title /\ w.focus = v.focus /\ w.scene = v.scene
           /\ w.pen[b] = d /\ \A c \in Pens \ {b} : w.pen[c] = v.pen[c]
<1>1. [v.pen EXCEPT ![b] = d] \in [Pens -> Drawing]
  BY ViewShape
<1> DEFINE f == w.fresh
           n == [v.pen EXCEPT ![b] = d]
<1>2. f \subseteq Pens \X Strokes /\ w = [v EXCEPT !.pen = n, !.fresh = f]
  BY DEF OnlyPen
<1>3. n[b] = d /\ \A c \in Pens \ {b} : n[c] = v.pen[c]
  BY ViewShape
<1> HIDE DEF f, n
<1>4. w = [title |-> v.title, focus |-> v.focus, scene |-> v.scene, pen |-> n, fresh |-> f]
  <2>1. v = [title |-> v.title, focus |-> v.focus, scene |-> v.scene, pen |-> v.pen,
             fresh |-> v.fresh]
    BY ViewShape
  <2> QED
    BY ONLY <1>2, <2>1
<1> QED
  BY <1>1, <1>2, <1>3, <1>4, ViewShape DEF View, n

\* What a message about a pen board changes of what a browser shows.
PenShows(v, w, m) ==
    LET b == m.board
        d == v.pen[b]
        mine(s) == <<b, s>>
    IN  CASE m.kind = "begun" ->
               /\ OnlyPen(v, w, b, d)
               /\ \A s \in Strokes : mine(s) \in w.fresh <=> s = m.stroke \/ mine(s) \in v.fresh
          [] m.kind = "ended" /\ mine(m.stroke) \in v.fresh ->
               /\ OnlyPen(v, w, b, WithStroke(d, m.stroke, "whole"))
               /\ \A s \in Strokes : mine(s) \in w.fresh <=> s # m.stroke /\ mine(s) \in v.fresh
          [] m.kind = "ended" /\ mine(m.stroke) \notin v.fresh -> w = v
          [] m.kind = "text" -> OnlyPen(v, w, b, WithText(d, m.text, m.value)) /\ w.fresh = v.fresh
          [] m.kind = "textGone" -> OnlyPen(v, w, b, LessText(d, m.text)) /\ w.fresh = v.fresh
          [] m.kind = "cleared" -> OnlyPen(v, w, b, Blank)
          [] m.kind = "undone" -> OnlyPen(v, w, b, LessUndone(d, m.act)) /\ w.fresh = v.fresh

PenKinds == {"begun", "ended", "text", "textGone", "cleared", "undone"}

LEMMA PenShowsIs ==
    ASSUME NEW v \in View, NEW m \in Msg, m.kind \in PenKinds
    PROVE  PenShows(v, Shows(v, m), m)
<1> DEFINE b == m.board
<1>b. b \in Pens /\ v.pen[b] \in Drawing /\ v.fresh \subseteq Pens \X Strokes
  BY MsgShapes, ViewShape DEF PenKinds
<1>v. /\ v = [title |-> v.title, focus |-> v.focus, scene |-> v.scene, pen |-> v.pen, fresh |-> v.fresh]
      /\ v.pen \in [Pens -> Drawing]
  BY ViewShape
<1>1. CASE m.kind = "begun"
  <2> DEFINE w == [v EXCEPT !.fresh = @ \cup {<<b, m.stroke>>}]
  <2>1. Shows(v, m) = w
    BY <1>1 DEF Shows, StoreApplies, Passes
  <2>2. m.stroke \in Strokes
    BY <1>1, MsgShapes
  <2>3. w.fresh = v.fresh \cup {<<b, m.stroke>>}
    BY <1>v
  <2>4. [v.pen EXCEPT ![b] = v.pen[b]] = v.pen
    BY <1>v, <1>b
  <2>5. w = [v EXCEPT !.pen = [v.pen EXCEPT ![b] = v.pen[b]], !.fresh = w.fresh]
    BY <1>v, <2>3, <2>4
  <2> HIDE DEF w
  <2>6. OnlyPen(v, w, b, v.pen[b])
    BY <1>b, <2>2, <2>3, <2>5 DEF OnlyPen
  <2>7. \A s \in Strokes : <<b, s>> \in w.fresh <=> s = m.stroke \/ <<b, s>> \in v.fresh
    BY <2>3
  <2> QED
    BY <1>1, <2>1, <2>6, <2>7 DEF PenShows
<1>2. CASE m.kind = "ended" /\ <<b, m.stroke>> \in v.fresh
  <2> DEFINE d == WithStroke(v.pen[b], m.stroke, "whole")
             w == [v EXCEPT !.fresh = @ \ {<<b, m.stroke>>}, !.pen[b] = d]
  <2>1. Shows(v, m) = w
    BY <1>2 DEF Shows, StoreApplies, Passes
  <2> HIDE DEF d
  <2>3. w.fresh = v.fresh \ {<<b, m.stroke>>}
    BY <1>v
  <2>5. w = [v EXCEPT !.pen = [v.pen EXCEPT ![b] = d], !.fresh = w.fresh]
    BY <1>v, <2>3
  <2> HIDE DEF w
  <2>6. OnlyPen(v, w, b, d)
    BY <1>b, <2>3, <2>5 DEF OnlyPen
  <2>7. \A s \in Strokes : <<b, s>> \in w.fresh <=> s # m.stroke /\ <<b, s>> \in v.fresh
    BY <2>3
  <2> QED
    BY <1>2, <2>1, <2>6, <2>7 DEF PenShows, d
<1>3. CASE m.kind = "ended" /\ <<b, m.stroke>> \notin v.fresh
  BY <1>3 DEF PenShows, Shows, StoreApplies, Passes
<1>4. ASSUME NEW d, Shows(v, m) = [v EXCEPT !.pen[b] = d]
      PROVE  OnlyPen(v, Shows(v, m), b, d) /\ Shows(v, m).fresh = v.fresh
  BY <1>4, <1>v, <1>b DEF OnlyPen
<1>5. CASE m.kind = "text"
  BY <1>4, <1>5 DEF PenShows, Shows, StoreApplies, Passes
<1>6. CASE m.kind = "textGone"
  BY <1>4, <1>6 DEF PenShows, Shows, StoreApplies, Passes
<1>7. CASE m.kind = "undone"
  BY <1>4, <1>7 DEF PenShows, Shows, StoreApplies, Passes
<1>8. CASE m.kind = "cleared"
  <2> DEFINE w == [v EXCEPT !.pen[b] = Blank, !.fresh = {f \in @ : f[1] # b}]
  <2>1. Shows(v, m) = w
    BY <1>8 DEF Shows, StoreApplies, Passes
  <2>3. w.fresh = {f \in v.fresh : f[1] # b}
    BY <1>v
  <2>5. w = [v EXCEPT !.pen = [v.pen EXCEPT ![b] = Blank], !.fresh = w.fresh]
    BY <1>v, <2>3
  <2> HIDE DEF w
  <2>6. OnlyPen(v, w, b, Blank)
    BY <1>b, <2>3, <2>5 DEF OnlyPen
  <2> QED
    BY <1>8, <2>1, <2>6 DEF PenShows
<1> QED
  BY <1>1, <1>2, <1>3, <1>5, <1>6, <1>7, <1>8 DEF PenKinds

\* At most one pen board looks different after a message.
LEMMA PenShowsOnly ==
    ASSUME NEW v \in View, NEW m \in Msg, m.kind \in PenKinds
    PROVE  \/ Shows(v, m) = v
           \/ \E d \in Drawing : OnlyPen(v, Shows(v, m), m.board, d)
<1> DEFINE b == m.board
           w == Shows(v, m)
<1> USE MsgShapes DEF PenKinds
<1>1. PenShows(v, w, m) /\ b \in Pens /\ v.pen[b] \in Drawing
  BY PenShowsIs, ViewShape
<1> HIDE DEF w
<1>2. CASE m.kind \in {"begun", "cleared"}
  BY <1>1, <1>2, BlankDrawing DEF PenShows, w
<1>3. CASE m.kind = "ended"
  <2>1. WithStroke(v.pen[b], m.stroke, "whole") \in Drawing
    BY <1>1, <1>3, MapOps DEF WithStroke, Drawing
  <2> QED
    BY <1>1, <1>3, <2>1 DEF PenShows, w
<1>4. CASE m.kind = "text"
  <2>1. WithText(v.pen[b], m.text, m.value) \in Drawing
    BY <1>1, <1>4, MapOps DEF WithText, Drawing
  <2> QED
    BY <1>1, <1>4, <2>1 DEF PenShows, w
<1>5. CASE m.kind = "textGone"
  <2>1. LessText(v.pen[b], m.text) \in Drawing
    BY <1>1, <1>5, MapOps DEF LessText, Drawing
  <2> QED
    BY <1>1, <1>5, <2>1 DEF PenShows, w
<1>6. CASE m.kind = "undone"
  BY <1>1, <1>6, UndoneDrawing DEF PenShows, w
<1> QED
  BY <1>2, <1>3, <1>4, <1>5, <1>6

\* What a message about the list of boards changes of what a browser shows.
ListShows(v, w, m) ==
    /\ w.title = CASE m.kind = "created" -> Put(v.title, m.board, m.title)
                   [] m.kind = "renamed" -> Retitle(v.title, m.board, m.title)
                   [] m.kind = "deleted" -> Without(v.title, {m.board})
                   [] OTHER -> v.title
    /\ w.focus = IF m.kind = "focused" THEN m.board
                 ELSE IF m.kind = "deleted" /\ v.focus = m.board THEN NoBoard ELSE v.focus
    /\ w.scene = IF m.kind = "scene" /\ m.board \in DOMAIN v.title
                   THEN [v.scene EXCEPT ![m.board] = m.version] ELSE v.scene
    /\ m.kind \notin PenKinds => w.pen = v.pen /\ w.fresh = v.fresh

LEMMA ShowsIs ==
    ASSUME NEW v \in View, NEW m \in Msg
    PROVE  Shows(v, m) \in View /\ ListShows(v, Shows(v, m), m)
<1> DEFINE b == m.board
           w == Shows(v, m)
<1>t. v.title \in Maps(Ids, Titles) /\ b \in Ids
  BY ViewShape, MsgShapes
<1> USE ViewShape, MsgShapes DEF ListShows, PenKinds
<1>1. CASE m.kind = "created"
  <2>1. w = [v EXCEPT !.title = Put(@, b, m.title)]
    BY <1>1 DEF Shows, StoreApplies, Passes
  <2>2. Put(v.title, b, m.title) \in Maps(Ids, Titles)
    BY <1>1, <1>t, MapOps
  <2> QED
    BY <1>1, <2>1, <2>2 DEF View
<1>2. CASE m.kind = "renamed"
  <2>1. w = [v EXCEPT !.title = Retitle(@, b, m.title)]
    BY <1>2 DEF Shows, StoreApplies, Passes
  <2>2. Retitle(v.title, b, m.title) \in Maps(Ids, Titles)
    BY <1>2, <1>t, MapOps DEF Retitle
  <2> QED
    BY <1>2, <2>1, <2>2 DEF View
<1>3. CASE m.kind = "deleted"
  <2>1. w = [v EXCEPT !.title = Without(@, {b}), !.focus = IF @ = b THEN NoBoard ELSE @]
    BY <1>3 DEF Shows, StoreApplies, Passes
  <2>2. Without(v.title, {b}) \in Maps(Ids, Titles)
    BY <1>t, MapOps
  <2> QED
    BY <1>3, <2>1, <2>2 DEF View
<1>4. CASE m.kind = "focused"
  <2>1. w = [v EXCEPT !.focus = b]
    BY <1>4 DEF Shows, StoreApplies, Passes
  <2> QED
    BY <1>4, <2>1 DEF View
<1>5. CASE m.kind = "scene"
  <2>1. w = IF b \in DOMAIN v.title THEN [v EXCEPT !.scene[b] = m.version] ELSE v
    BY <1>5 DEF Shows, StoreApplies, Passes
  <2>2. [v EXCEPT !.scene[b] = m.version] = [v EXCEPT !.scene = [v.scene EXCEPT ![b] = m.version]]
    OBVIOUS
  <2> QED
    BY <1>5, <2>1, <2>2 DEF View
<1>6. CASE m.kind \in PenKinds
  <2>1. PenShows(v, w, m) /\ b \in Pens /\ v.pen[b] \in Drawing
    BY <1>6, PenShowsIs
  <2>2. w = v \/ \E d \in Drawing : OnlyPen(v, w, b, d)
    BY <1>6, PenShowsOnly
  <2>3. w \in View /\ w.title = v.title /\ w.focus = v.focus /\ w.scene = v.scene
    BY <2>1, <2>2, OnlyPenIn
  <2> QED
    BY <1>6, <2>3
<1> QED
  BY <1>1, <1>2, <1>3, <1>4, <1>5, <1>6

-----------------------------------------------------------------------------
\* What hangs off a board goes with it.
Rooted(t) ==
    /\ \A b \in Scenes : b \notin DOMAIN t.title => t.scene[b] = 0
    /\ \A b \in Pens : b \notin DOMAIN t.title => t.pen[b] = NoTable

LogsIn(p, B) == \A b \in Pens : p[b].log \in Seq(ActsOf(B))

Stock(t, B, S) == DOMAIN t.title \subseteq B /\ \A b \in Pens : t.pen[b].rows \in Seq(RowsOf(S))

JobIn(j, B, S) ==
    /\ j.step = "checked" => j.board \in B
    /\ j.step = "tell" => j.msg.board \in B /\ j.op \in OpsOf(B, S) \cup {NoOp}
    /\ j.step = "save" => j.op \in OpsOf(B, S)

Unseen(v, B) ==
    /\ \A b \in Scenes \ B : v.scene[b] = 0
    /\ \A b \in Pens \ B : v.pen[b] = Blank

\* Strokes that were ended: only these have rows.
Ended == used \ drawing

\* Nothing is about a board or a stroke that was not given out.
InUse ==
    /\ DOMAIN title \subseteq used
    /\ LogsIn(pen, used)
    /\ Stock(work, used, Ended)
    /\ Stock(db, used, Ended)
    /\ queue \in Seq(OpsOf(used, Ended))
    /\ \A h \in Hosts : JobIn(job[h], used, Ended)
    /\ \A r \in resets : r[1] \in used
    /\ Unseen(view, used)

TInv == TypeOK /\ Rooted(work) /\ Rooted(db) /\ InUse

LEMMA InGrows ==
    ASSUME NEW B, NEW C, B \subseteq C, NEW S, NEW T, S \subseteq T
    PROVE  /\ \A p : LogsIn(p, B) => LogsIn(p, C)
           /\ \A t : Stock(t, B, S) => Stock(t, C, T)
           /\ \A j : JobIn(j, B, S) => JobIn(j, C, T)
           /\ \A v : Unseen(v, B) => Unseen(v, C)
<1>0. /\ Seq(ActsOf(B)) \subseteq Seq(ActsOf(C))
      /\ Seq(RowsOf(S)) \subseteq Seq(RowsOf(T))
      /\ OpsOf(B, S) \subseteq OpsOf(C, T)
  BY OfGrows
<1>1. ASSUME NEW p, LogsIn(p, B) PROVE LogsIn(p, C)
  BY <1>0, <1>1 DEF LogsIn
<1>2. ASSUME NEW t, Stock(t, B, S) PROVE Stock(t, C, T)
  BY <1>0, <1>2 DEF Stock
<1>3. ASSUME NEW j, JobIn(j, B, S) PROVE JobIn(j, C, T)
  BY <1>0, <1>3 DEF JobIn
<1>4. ASSUME NEW v, Unseen(v, B) PROVE Unseen(v, C)
  BY <1>4 DEF Unseen
<1> QED
  BY <1>1, <1>2, <1>3, <1>4

LEMMA OpsShape ==
    ASSUME NEW B, NEW S, NEW op \in OpsOf(B, S)
    PROVE  /\ op \in Op /\ op \in Op \ {NoOp} /\ op # NoOp /\ op.board \in B
           /\ op.kind = "act"  => op.row \in RowsOf(S) /\ op.row.act.kind # "set"
           /\ op.kind = "text" => op.row \in RowsOf(S) /\ op.row.act.kind = "set"
  BY DEF OpsOf

\* What an operation makes of the tables: it changes those of its board only.
Shaped(u) ==
    /\ u = [title |-> u.title, focus |-> u.focus, scene |-> u.scene, pen |-> u.pen]
    /\ u.scene = [c \in Scenes |-> u.scene[c]]
    /\ u.pen = [c \in Pens |-> u.pen[c]]

Changes(t, u, op) ==
    LET b == op.board IN
    /\ Shaped(u)
    /\ u.title = CASE op.kind = "upsert" -> Put(t.title, b, op.title)
                   [] op.kind = "rename" -> Retitle(t.title, b, op.title)
                   [] op.kind = "delete" -> Without(t.title, {b})
                   [] OTHER -> t.title
    /\ u.focus = IF op.kind = "focus" THEN b ELSE t.focus
    /\ \A c \in Scenes : u.scene[c] =
          IF c = b /\ op.kind = "scene" THEN op.version
          ELSE IF c = b /\ op.kind = "delete" THEN 0 ELSE t.scene[c]
    /\ \A c \in Pens : u.pen[c] =
          IF c # b THEN t.pen[c]
          ELSE CASE op.kind = "delete" -> NoTable
                 [] op.kind = "act"    -> StoreAction(t.pen[b], op.row)
                 [] op.kind = "text"   -> StoreText(t.pen[b], op.row, op.value)
                 [] op.kind = "undo"   -> UndoRow(t.pen[b], op.id)
                 [] OTHER -> t.pen[c]

LEMMA ApplyIs ==
    ASSUME NEW t \in Tables, NEW op \in Op \ {NoOp}
    PROVE  Changes(t, Apply(t, op), op)
<1> DEFINE b == op.board
           u == Apply(t, op)
<1> USE OpShapes, BoardsAssumption DEF Changes, Ids
<1>t. /\ t = [title |-> t.title, focus |-> t.focus, scene |-> t.scene, pen |-> t.pen]
      /\ t.scene \in [Scenes -> Versions] /\ t.pen \in [Pens -> PenTable(ActionIds)]
      /\ t.scene = [c \in Scenes |-> t.scene[c]]
      /\ t.pen = [c \in Pens |-> t.pen[c]]
  BY TablesShape
<1>0. ASSUME NEW x PROVE
        /\ [t EXCEPT !.title = x] = [title |-> x, focus |-> t.focus, scene |-> t.scene, pen |-> t.pen]
        /\ [t EXCEPT !.focus = x] = [title |-> t.title, focus |-> x, scene |-> t.scene, pen |-> t.pen]
        /\ [t EXCEPT !.scene = x] = [title |-> t.title, focus |-> t.focus, scene |-> x, pen |-> t.pen]
        /\ [t EXCEPT !.pen = x] = [title |-> t.title, focus |-> t.focus, scene |-> t.scene, pen |-> x]
  BY <1>t
<1>1. CASE op.kind = "upsert"
  BY <1>1, <1>t, <1>0 DEF Apply, Shaped
<1>2. CASE op.kind = "rename"
  BY <1>2, <1>t, <1>0 DEF Apply, Shaped
<1>3. CASE op.kind = "delete"
  <2> DEFINE sc == [c \in Scenes |-> IF c = b THEN 0 ELSE t.scene[c]]
             pn == [c \in Pens |-> IF c = b THEN NoTable ELSE t.pen[c]]
  <2>1. u = [title |-> Without(t.title, {b}), focus |-> t.focus, scene |-> sc, pen |-> pn]
    <3>1. u = WithoutBoard(t, b)
      BY <1>3 DEF Apply
    <3>2. WithoutBoard(t, b) = [t EXCEPT !.title = Without(t.title, {b}), !.scene = sc, !.pen = pn]
      BY <1>t DEF WithoutBoard
    <3> QED
      BY <1>t, <3>1, <3>2
  <2>2. sc = [c \in Scenes |-> sc[c]] /\ pn = [c \in Pens |-> pn[c]]
    OBVIOUS
  <2>3. /\ \A c \in Scenes : sc[c] = IF c = b THEN 0 ELSE t.scene[c]
        /\ \A c \in Pens : pn[c] = IF c = b THEN NoTable ELSE t.pen[c]
    OBVIOUS
  <2> HIDE DEF sc, pn
  <2>4. Shaped(u) /\ u.title = Without(t.title, {b}) /\ u.focus = t.focus /\ u.scene = sc /\ u.pen = pn
    BY <2>1, <2>2 DEF Shaped
  <2> HIDE DEF u
  <2>5. Changes(t, u, op)
    BY <1>3, <2>3, <2>4
  <2> QED
    BY <2>5 DEF u
<1>4. CASE op.kind = "focus"
  BY <1>4, <1>t, <1>0 DEF Apply, Shaped
<1>5. CASE op.kind = "scene"
  <2> DEFINE sc == [t.scene EXCEPT ![b] = op.version]
  <2>1. u = [t EXCEPT !.scene = sc]
    BY <1>5, <1>t DEF Apply
  <2>2. sc = [c \in Scenes |-> sc[c]]
    BY <1>t
  <2>3. \A c \in Scenes : sc[c] = IF c = b THEN op.version ELSE t.scene[c]
    BY <1>5, <1>t
  <2> HIDE DEF sc
  <2>4. Shaped(u) /\ u.title = t.title /\ u.focus = t.focus /\ u.scene = sc /\ u.pen = t.pen
    BY <1>0, <1>t, <2>1, <2>2 DEF Shaped
  <2> HIDE DEF u
  <2>5. Changes(t, u, op)
    BY <1>5, <2>3, <2>4
  <2> QED
    BY <2>5 DEF u
<1>6. ASSUME NEW d, b \in Pens, u = [t EXCEPT !.pen[b] = d]
      PROVE  /\ u.title = t.title /\ u.focus = t.focus /\ u.scene = t.scene
             /\ \A c \in Pens : u.pen[c] = IF c # b THEN t.pen[c] ELSE d
             /\ Shaped(u)
  <2> DEFINE pn == [t.pen EXCEPT ![b] = d]
  <2>1. u = [t EXCEPT !.pen = pn]
    BY <1>6, <1>t
  <2>2. pn = [c \in Pens |-> pn[c]]
    BY <1>t
  <2>3. \A c \in Pens : pn[c] = IF c # b THEN t.pen[c] ELSE d
    BY <1>6, <1>t
  <2> HIDE DEF pn
  <2>4. Shaped(u) /\ u.title = t.title /\ u.focus = t.focus /\ u.scene = t.scene /\ u.pen = pn
    BY <1>0, <1>t, <2>1, <2>2 DEF Shaped
  <2> QED
    BY <2>3, <2>4
<1>7. CASE op.kind = "act"
  <2>1. u = [t EXCEPT !.pen[b] = StoreAction(t.pen[b], op.row)]
    BY <1>7 DEF Apply
  <2> HIDE DEF u
  <2>5. Changes(t, u, op)
    BY <1>6, <1>7, <2>1
  <2> QED
    BY <2>5 DEF u
<1>8. CASE op.kind = "text"
  <2>1. u = [t EXCEPT !.pen[b] = StoreText(t.pen[b], op.row, op.value)]
    BY <1>8 DEF Apply
  <2> HIDE DEF u
  <2>5. Changes(t, u, op)
    BY <1>6, <1>8, <2>1
  <2> QED
    BY <2>5 DEF u
<1>9. CASE op.kind = "undo"
  <2>1. u = [t EXCEPT !.pen[b] = UndoRow(t.pen[b], op.id)]
    BY <1>9 DEF Apply
  <2> HIDE DEF u
  <2>5. Changes(t, u, op)
    BY <1>6, <1>9, <2>1
  <2> QED
    BY <2>5 DEF u
<1> QED
  BY <1>1, <1>2, <1>3, <1>4, <1>5, <1>7, <1>8, <1>9

LEMMA UndoNothing == \A id : UndoRow(NoTable, id) = NoTable
  BY DEF UndoRow, Stored, NoTable

LEMMA ApplyStocked ==
    ASSUME NEW B, NEW S, NEW t \in Tables, NEW op \in OpsOf(B, S), Stock(t, B, S)
    PROVE  /\ Apply(t, op) \in Tables
           /\ Stock(Apply(t, op), B, S)
           /\ op.kind # "delete" => DOMAIN t.title \subseteq DOMAIN Apply(t, op).title
           /\ DOMAIN t.title \ {op.board} \subseteq DOMAIN Apply(t, op).title
<1> DEFINE b == op.board
           u == Apply(t, op)
           R == RowsOf(S)
<1>1. Changes(t, u, op) /\ op \in Op \ {NoOp} /\ b \in B /\ b \in Ids
  BY ApplyIs, OpsShape, OpShapes
<1>t. /\ t.title \in Maps(Ids, Titles) /\ t.scene \in [Scenes -> Versions]
      /\ t.pen \in [Pens -> PenTable(ActionIds)] /\ t.focus \in Ids \cup {NoBoard}
  BY TablesShape
<1>s. \A c \in Pens : t.pen[c] \in Table(R)
  BY <1>t DEF Stock, Table, PenTable
<1> HIDE DEF u
<1>2. u.title \in Maps(Ids, Titles) /\ DOMAIN u.title \subseteq B
      /\ (op.kind # "delete" => DOMAIN t.title \subseteq DOMAIN u.title)
      /\ DOMAIN t.title \ {b} \subseteq DOMAIN u.title
  <2>1. CASE op.kind \in {"upsert", "rename"}
    <3>1. Put(t.title, b, op.title) \in Maps(Ids, Titles)
      BY <1>1, <1>t, <2>1, OpShapes, MapOps
    <3>2. DOMAIN Put(t.title, b, op.title) = DOMAIN t.title \cup {b}
      BY DEF Put
    <3> QED
      BY <1>1, <1>t, <2>1, <3>1, <3>2 DEF Changes, Retitle, Stock
  <2>2. CASE op.kind = "delete"
    <3>1. Without(t.title, {b}) \in Maps(Ids, Titles)
      BY <1>t, MapOps
    <3>2. DOMAIN Without(t.title, {b}) = DOMAIN t.title \ {b}
      BY DEF Without, Restrict
    <3> QED
      BY <1>1, <2>2, <3>1, <3>2 DEF Changes, Stock
  <2>3. CASE op.kind \notin {"upsert", "rename", "delete"}
    BY <1>1, <1>t, <2>3 DEF Changes, Stock
  <2> QED
    BY <2>1, <2>2, <2>3
<1>3. \A c \in Scenes : u.scene[c] \in Versions
  <2>1. 0 \in Versions
    BY BoardsAssumption DEF Versions
  <2>2. \A c \in Scenes : t.scene[c] \in Versions
    BY <1>t
  <2> QED
    BY <1>1, <2>1, <2>2, OpShapes DEF Changes
<1>4. ASSUME NEW c \in Pens PROVE u.pen[c] \in Table(R)
  <2>1. CASE c # b
    BY <1>1, <1>s, <2>1 DEF Changes
  <2>2. CASE c = b /\ op.kind = "delete"
    <3>1. NoTable \in Table(R)
      BY BlankDrawing DEF NoTable, Table
    <3> QED
      BY <1>1, <2>2, <3>1 DEF Changes
  <2>3. CASE c = b /\ op.kind = "act"
    <3>1. op.row \in R /\ op.row.act.kind # "set"
      BY <2>3, OpsShape
    <3>3. StoreAction(t.pen[b], op.row) \in Table(R)
      BY <1>s, <2>3, <3>1, StoreIn
    <3> QED
      BY <1>1, <2>3, <3>3 DEF Changes
  <2>4. CASE c = b /\ op.kind = "text"
    <3>1. op.row \in R /\ op.row.act.kind = "set" /\ op.value \in Contents
      BY <1>1, <2>4, OpsShape, OpShapes
    <3>3. StoreText(t.pen[b], op.row, op.value) \in Table(R)
      BY <1>s, <2>4, <3>1, StoreIn
    <3> QED
      BY <1>1, <2>4, <3>3 DEF Changes
  <2>5. CASE c = b /\ op.kind = "undo"
    <3>1. UndoRow(t.pen[b], op.id) \in Table(R)
      BY <1>s, <2>5, UndoRowIn
    <3> QED
      BY <1>1, <2>5, <3>1 DEF Changes
  <2>6. CASE c = b /\ op.kind \notin {"delete", "act", "text", "undo"}
    BY <1>1, <1>s, <2>6 DEF Changes
  <2> QED
    BY <2>1, <2>2, <2>3, <2>4, <2>5, <2>6
<1>5. u.focus \in Ids \cup {NoBoard}
  BY <1>1, <1>t DEF Changes
<1>6. \A c \in Pens : u.pen[c].rows \in Seq(R) /\ u.pen[c] \in PenTable(ActionIds)
  <2>1. R \subseteq Row(ActionIds)
    BY DEF RowsOf
  <2>2. Seq(R) \subseteq Seq(Row(ActionIds))
    BY <2>1, SeqGrows
  <2> QED
    BY <1>4, <2>2 DEF Table, PenTable
<1>7. u \in Tables
  <2>1. u.scene \in [Scenes -> Versions] /\ u.pen \in [Pens -> PenTable(ActionIds)]
    BY <1>1, <1>3, <1>6 DEF Changes, Shaped
  <2>2. u = [title |-> u.title, focus |-> u.focus, scene |-> u.scene, pen |-> u.pen]
    BY <1>1 DEF Changes, Shaped
  <2> QED
    BY <1>2, <1>5, <2>1, <2>2 DEF Tables
<1>8. Stock(u, B, S)
  BY <1>2, <1>6 DEF Stock
<1> QED
  BY <1>2, <1>7, <1>8 DEF u

LEMMA ApplyIn ==
    ASSUME NEW B, NEW S, NEW t \in Tables, NEW op \in OpsOf(B, S), Rooted(t), Stock(t, B, S),
           Accepts(t, op)
    PROVE  /\ Apply(t, op) \in Tables
           /\ Rooted(Apply(t, op))
           /\ Stock(Apply(t, op), B, S)
<1> DEFINE b == op.board
           u == Apply(t, op)
<1>1. Changes(t, u, op) /\ op \in Op \ {NoOp}
  BY ApplyIs, OpsShape
<1>2. /\ u \in Tables /\ Stock(u, B, S)
      /\ op.kind # "delete" => DOMAIN t.title \subseteq DOMAIN u.title
      /\ DOMAIN t.title \ {b} \subseteq DOMAIN u.title
  BY ApplyStocked
<1> HIDE DEF u
<1>9. Rooted(u)
  <2>1. ASSUME NEW c \in Scenes, c \notin DOMAIN u.title PROVE u.scene[c] = 0
    <3>1. CASE c = b /\ op.kind = "delete"
      BY <1>1, <3>1 DEF Changes
    <3>2. CASE ~(c = b /\ op.kind = "delete")
      <4>1. c \notin DOMAIN t.title
        BY <1>2, <2>1, <3>2
      <4>2. t.scene[c] = 0 /\ ~(c = b /\ op.kind = "scene")
        BY <4>1 DEF Rooted, Accepts, NeedsBoard
      <4> QED
        BY <1>1, <3>2, <4>2 DEF Changes
    <3> QED
      BY <3>1, <3>2
  <2>2. ASSUME NEW c \in Pens, c \notin DOMAIN u.title PROVE u.pen[c] = NoTable
    <3>1. CASE c = b /\ op.kind = "delete"
      BY <1>1, <3>1 DEF Changes
    <3>2. CASE ~(c = b /\ op.kind = "delete")
      <4>1. c \notin DOMAIN t.title
        BY <1>2, <2>2, <3>2
      <4>2. t.pen[c] = NoTable /\ ~(c = b /\ op.kind \in {"act", "text"})
        BY <4>1 DEF Rooted, Accepts, NeedsBoard
      <4> QED
        BY <1>1, <3>2, <4>2, UndoNothing DEF Changes
    <3> QED
      BY <3>1, <3>2
  <2> QED
    BY <2>1, <2>2 DEF Rooted
<1> QED
  BY <1>2, <1>9 DEF u

-----------------------------------------------------------------------------
Waiting(h) ==
    job[h].step = "checked" =>
        /\ "focus" \in job[h].on
        /\ "focus" \in crossed \/ Exists(job[h].board)

Checked == DOMAIN job = Hosts /\ \A h \in Hosts : Waiting(h)

FInv == Checked /\ FocusExists

\* A handler begins without taking a board away.
LEMMA BeginStep ==
    ASSUME FInv, NEW h \in Hosts, NEW next, Begin(h, next),
           next.step = "tell" \/ (next.step = "checked" /\ Waiting(h)'),
           DOMAIN title \subseteq DOMAIN title', focus' = focus
    PROVE  FInv'
<1>1. /\ DOMAIN job' = Hosts /\ job'[h] = next
      /\ \A g \in Hosts \ {h} : job'[g] = job[g]
      /\ crossed \subseteq crossed'
  BY DEF Begin, FInv, Checked
<1>2. FocusExists'
  BY <1>1 DEF FInv, FocusExists, Exists
<1>3. ASSUME NEW g \in Hosts PROVE Waiting(g)'
  <2>1. CASE g = h
    BY <1>1, <2>1 DEF Waiting
  <2>2. CASE g # h
    BY <1>1, <2>2 DEF FInv, Checked, Waiting, Exists
  <2> QED
    BY <2>1, <2>2
<1> QED
  BY <1>1, <1>2, <1>3 DEF FInv, Checked

\* What leaves the boards and the focus alone and takes no handler to "checked".
LEMMA OtherStep ==
    ASSUME FInv, UNCHANGED <<title, focus, crossed>>, DOMAIN job' = Hosts,
           \A h \in Hosts : job'[h].step = "checked" => job'[h] = job[h]
    PROVE  FInv'
  BY DEF FInv, Checked, Waiting, FocusExists, Exists

LEMMA DeleteStep ==
    ASSUME FInv, NEW h \in Hosts, NEW b \in Ids, DeleteBoard(h, b)
    PROVE  FInv'
<1> DEFINE next == Tell({b, "focus"}, [kind |-> "deleted", board |-> b],
                        [kind |-> "delete", board |-> b])
<1>1. /\ DOMAIN job' = Hosts /\ job'[h] = next
      /\ \A g \in Hosts \ {h} : job'[g] = job[g]
      /\ crossed' = crossed \cup Meets(h, next.on)
  BY DEF DeleteBoard, Begin, FInv, Checked
<1>2. next.step = "tell" /\ "focus" \in next.on
  BY DEF Tell
<1>3. DOMAIN title' = DOMAIN title \ {b} /\ focus' = FocusWithout(b)
  BY DEF DeleteBoard, Without, Restrict
<1> HIDE DEF next
<1>4. FocusExists'
  BY <1>1, <1>3 DEF FInv, FocusExists, Exists, FocusWithout
<1>5. ASSUME NEW g \in Hosts, job'[g].step = "checked" PROVE Waiting(g)'
  <2>1. g # h /\ job'[g] = job[g] /\ "focus" \in job[g].on
    BY <1>1, <1>2, <1>5 DEF FInv, Checked, Waiting
  <2>2. job[g] # Idle
    BY <1>5, <2>1 DEF Idle
  <2>3. "focus" \in crossed'
    BY <1>1, <1>2, <2>1, <2>2 DEF Meets, On
  <2> QED
    BY <2>1, <2>3 DEF Waiting
<1> QED
  BY <1>1, <1>4, <1>5 DEF FInv, Checked, Waiting

LEMMA SetFocusStep ==
    ASSUME FInv, NEW h \in Hosts, SetFocus(h)
    PROVE  FInv'
<1>1. /\ UNCHANGED <<title, crossed>> /\ focus' = job[h].board
      /\ DOMAIN job' = Hosts /\ \A g \in Hosts \ {h} : job'[g] = job[g]
      /\ job'[h].step = "tell"
  BY DEF SetFocus, FInv, Checked, Tell
<1>2. FocusExists'
  BY <1>1 DEF SetFocus, FInv, Checked, Waiting, FocusExists, Exists
<1>3. ASSUME NEW g \in Hosts PROVE Waiting(g)'
  BY <1>1 DEF FInv, Checked, Waiting, Exists
<1> QED
  BY <1>1, <1>2, <1>3 DEF FInv, Checked

LEMMA ListSteps ==
    ASSUME FInv, NEW h \in Hosts, ListStep(h)
    PROVE  FInv'
<1>1. ASSUME NEW b \in Ids, NEW n \in Titles \ {Untitled}, RenameBoard(h, b, n) PROVE FInv'
  BY <1>1, BeginStep DEF RenameBoard, Put, Tell
<1>2. ASSUME NEW b \in Ids, CreateBoard(h, b) PROVE FInv'
  BY <1>2, BeginStep DEF CreateBoard, Put, Tell
<1>3. ASSUME NEW b \in Ids, CheckFocus(h, b) PROVE FInv'
  <2> DEFINE next == [step |-> "checked", on |-> {b, "focus"}, board |-> b]
  <2>1. next.step = "checked" /\ "focus" \in next.on /\ next.board = b
    OBVIOUS
  <2>2. Begin(h, next) /\ Exists(b) /\ UNCHANGED <<title, focus>>
    BY <1>3 DEF CheckFocus, roomVars
  <2> HIDE DEF next
  <2>3. job'[h] = next
    BY <2>2 DEF Begin, FInv, Checked
  <2>4. Waiting(h)'
    BY <2>1, <2>2, <2>3 DEF Waiting, Exists
  <2> QED
    BY <2>1, <2>2, <2>4, BeginStep
<1>4. ASSUME NEW b \in Scenes, NEW v \in Versions, UpdateScene(h, b, v) PROVE FInv'
  BY <1>4, BeginStep DEF UpdateScene, Tell
<1> QED
  BY <1>1, <1>2, <1>3, <1>4, DeleteStep, SetFocusStep DEF ListStep

LEMMA PenSteps ==
    ASSUME FInv, NEW h \in Hosts, NEW b \in Pens, PenHandler(h, b)
    PROVE  FInv'
<1>1. ASSUME NEW state, NEW msg, NEW op, PenStep(h, b, state, msg, op) PROVE FInv'
  BY <1>1, BeginStep DEF PenStep, listVars, Tell
<1> QED
  BY <1>1 DEF PenHandler, PenBegin, PenEnd, PenTextSet, PenTextDelete, PenClear, PenUndo

LEMMA Start == Init => FInv
  BY DEF Init, FInv, Checked, Waiting, FocusExists, Idle

LEMMA Step == FInv /\ [Next]_vars => FInv'
<1> SUFFICES ASSUME FInv, [Next]_vars PROVE FInv'
  OBVIOUS
<1>1. ASSUME NEW h \in Hosts, Broadcast(h) \/ Enqueue(h) PROVE FInv'
  BY <1>1, OtherStep DEF Broadcast, Enqueue, roomVars, FInv, Checked, Idle
<1>2. ASSUME NEW s \in Strokes, PenEndOfNothing(s) PROVE FInv'
  BY <1>2, OtherStep DEF PenEndOfNothing, roomVars, FInv, Checked
<1>3. CASE ResetTask
  BY <1>3, OtherStep DEF ResetTask, ReadScenes, SendReset, roomVars, FInv, Checked
<1>4. CASE Writer
  BY <1>4, OtherStep DEF Writer, ApplyOp, CommitBatch, AbortBatch, roomVars, FInv, Checked
<1>5. CASE Restart
  BY <1>5 DEF Restart, FInv, Checked, Waiting, FocusExists, Exists, Idle
<1>6. CASE UNCHANGED vars
  BY <1>6, OtherStep DEF vars, roomVars, FInv, Checked
<1> QED
  BY <1>1, <1>2, <1>3, <1>4, <1>5, <1>6, ListSteps, PenSteps DEF Next

\* The focus of the room is on a board that exists, unless set_focused_board
\* overlapped another host or a restart loaded the focus of a deleted board.
THEOREM FocusIsOnABoard == Spec => []FocusExists
<1>1. FInv => FocusExists
  BY DEF FInv
<1> QED
  BY Start, Step, <1>1, PTL DEF Spec

-----------------------------------------------------------------------------
(***************************************************************************)
(* Undo in the tables is the inverse of the action it undoes, if the       *)
(* action's row holds what the action replaced (payload_json).             *)
(***************************************************************************)
Keeps(d, row) ==
    LET a == row.act IN
    CASE a.kind = "stroke" -> a.target \notin DOMAIN d.strokes /\ row.before = Blank
      [] a.kind = "set"    -> row.before = [strokes |-> NoMap,
                                 texts |-> Restrict(d.texts, {a.target} \cap DOMAIN d.texts)]
      [] a.kind = "delete" -> /\ a.target \in DOMAIN d.texts
                              /\ row.before = [strokes |-> NoMap,
                                               texts |-> Restrict(d.texts, {a.target})]
      [] a.kind = "clear"  -> row.before = d

\* The laws of partial functions that the inverses come down to.
Laws(f, x, v) ==
    /\ Without(f, {}) = f
    /\ Over(NoMap, f) = f
    /\ Over(f, NoMap) = f
    /\ x \notin DOMAIN f => Without(Put(f, x, v), {x}) = f
    /\ x \in DOMAIN f => Over(Restrict(f, {x}), Without(f, {x})) = f
    /\ Over(Restrict(f, {x} \cap DOMAIN f), Without(Put(f, x, v), {x})) = f

LEMMA Inverses ==
    ASSUME NEW D, NEW R, NEW f \in Maps(D, R), NEW x, NEW v
    PROVE  Laws(f, x, v)
<1>1. f = [y \in DOMAIN f |-> f[y]]
  BY DEF Maps
<1> USE DEF Without, Over, Put, Restrict, NoMap
<1>2. Without(f, {}) = f
  BY <1>1
<1>3. Over(NoMap, f) = f
  BY <1>1
<1>4. Over(f, NoMap) = f
  BY <1>1
<1>5. x \notin DOMAIN f => Without(Put(f, x, v), {x}) = f
  BY <1>1
<1>6. x \in DOMAIN f => Over(Restrict(f, {x}), Without(f, {x})) = f
  BY <1>1
<1>7. Over(Restrict(f, {x} \cap DOMAIN f), Without(Put(f, x, v), {x})) = f
  BY <1>1
<1> QED
  BY <1>2, <1>3, <1>4, <1>5, <1>6, <1>7 DEF Laws

\* The row that is found and taken out is the one that was stored.
LEMMA RowsBack ==
    ASSUME NEW R, NEW t, t.rows \in Seq(R), NEW row \in R, NEW now, ~Stored(t, row.act.id)
    PROVE  UndoRow(Store(t, now, row), row.act.id)
              = [now |-> Reversed(now, row), rows |-> t.rows]
<1> DEFINE u == Store(t, now, row)
           n == Len(t.rows)
<1>1. /\ u.now = now /\ u.rows = Append(t.rows, row) /\ n \in Nat
      /\ u.rows \in Seq(R) /\ Len(u.rows) = n + 1 /\ u.rows[n + 1] = row
      /\ \A i \in 1..n : u.rows[i] = t.rows[i]
  BY DEF Store
<1>2. \A i \in 1..n : t.rows[i].act.id # row.act.id
  BY DEF Stored
<1> HIDE DEF u
<1>3. DOMAIN u.rows = 1..(n + 1)
  BY <1>1
<1>4. \A i \in DOMAIN u.rows : u.rows[i].act.id = row.act.id <=> i = n + 1
  BY <1>1, <1>2, <1>3
<1>5. Stored(u, row.act.id)
  BY <1>1, <1>3 DEF Stored
<1>6. (CHOOSE i \in DOMAIN u.rows : u.rows[i].act.id = row.act.id) = n + 1
  BY <1>1, <1>3, <1>4
<1>7. RemoveAt(u.rows, n + 1) = t.rows
  <2>1. SubSeq(u.rows, 1, (n + 1) - 1) = t.rows
    BY <1>1
  <2>2. SubSeq(u.rows, (n + 1) + 1, Len(u.rows)) = <<>>
    BY <1>1
  <2>3. t.rows \o <<>> = t.rows
    BY ConcatEmptySeq
  <2> QED
    BY <2>1, <2>2, <2>3 DEF RemoveAt
<1>8. UndoRow(u, row.act.id) = [now |-> Reversed(u.now, u.rows[n + 1]), rows |-> RemoveAt(u.rows, n + 1)]
  BY <1>5, <1>6 DEF UndoRow
<1> QED
  BY <1>1, <1>7, <1>8 DEF u

\* For every board and every action with a complete payload: apply_pen_undo
\* leaves of the tables what they were before the action was stored.
THEOREM UndoRestoresTable ==
    ASSUME NEW ids, NEW t \in PenTable(ids), NEW row \in Row(ids), NEW v \in Contents,
           ~Stored(t, row.act.id), Keeps(t.now, row)
    PROVE  /\ row.act.kind # "set" => UndoRow(StoreAction(t, row), row.act.id) = t
           /\ row.act.kind = "set" => UndoRow(StoreText(t, row, v), row.act.id) = t
<1> DEFINE a == row.act
           d == t.now
<1>1. /\ t = [now |-> d, rows |-> t.rows] /\ t.rows \in Seq(Row(ids)) /\ d \in Drawing
      /\ a \in Action(ids) /\ row.before \in Drawing
  BY DEF PenTable, Row
<1>2. /\ d = [strokes |-> d.strokes, texts |-> d.texts]
      /\ d.strokes \in Maps(Strokes, {"part", "whole"}) /\ d.texts \in Maps(Texts, Contents)
  BY <1>1 DEF Drawing
<1>3. ASSUME NEW now, Reversed(now, row) = d
      PROVE  UndoRow(Store(t, now, row), a.id) = t
  BY <1>1, <1>3, RowsBack
<1> HIDE DEF d
<1>l. \A x, c : Laws(d.strokes, x, c) /\ Laws(d.texts, x, c)
  BY <1>2, Inverses
<1>4. CASE a.kind = "stroke"
  <2> DEFINE now == WithStroke(d, a.target, "whole")
  <2>1. StoreAction(t, row) = Store(t, now, row)
    BY <1>4 DEF StoreAction, d
  <2>2. /\ now = [strokes |-> Put(d.strokes, a.target, "whole"), texts |-> d.texts]
        /\ a.target \notin DOMAIN d.strokes /\ row.before = Blank
    BY <1>2, <1>4 DEF WithStroke, Keeps, d
  <2> HIDE DEF now
  <2>3. LessUndone(now, a) = [strokes |-> Without(now.strokes, {a.target}),
                              texts |-> Without(now.texts, {})]
    BY <1>4 DEF LessUndone, Undone
  <2>4. Without(now.strokes, {a.target}) = d.strokes /\ Without(now.texts, {}) = d.texts
    BY <1>2, <2>2, <1>l DEF Laws
  <2>5. Reversed(now, row) = d
    BY <1>2, <2>2, <2>3, <2>4, <1>l DEF Reversed, Blank, Laws
  <2> QED
    BY <1>3, <1>4, <2>1, <2>5
<1>5. CASE a.kind = "set"
  <2> DEFINE now == WithText(d, a.target, v)
  <2>1. StoreText(t, row, v) = Store(t, now, row)
    BY DEF StoreText, d
  <2>2. /\ now = [strokes |-> d.strokes, texts |-> Put(d.texts, a.target, v)]
        /\ row.before = [strokes |-> NoMap, texts |-> Restrict(d.texts, {a.target} \cap DOMAIN d.texts)]
    BY <1>2, <1>5 DEF WithText, Keeps, d
  <2> HIDE DEF now
  <2>3. LessUndone(now, a) = [strokes |-> Without(now.strokes, {}),
                              texts |-> Without(now.texts, {a.target})]
    BY <1>5 DEF LessUndone, Undone
  <2>4. Without(now.strokes, {}) = d.strokes
    BY <1>2, <2>2, <1>l DEF Laws
  <2>5. Over(row.before.texts, Without(now.texts, {a.target})) = d.texts
    BY <1>2, <2>2, <1>l DEF Laws
  <2>6. Reversed(now, row) = d
    BY <1>2, <2>2, <2>3, <2>4, <2>5, <1>l DEF Reversed, Laws
  <2> QED
    BY <1>3, <1>5, <2>1, <2>6
<1>6. CASE a.kind = "delete"
  <2> DEFINE now == LessText(d, a.target)
  <2>1. StoreAction(t, row) = Store(t, now, row)
    BY <1>6 DEF StoreAction, d
  <2>2. /\ now = [strokes |-> d.strokes, texts |-> Without(d.texts, {a.target})]
        /\ a.target \in DOMAIN d.texts
        /\ row.before = [strokes |-> NoMap, texts |-> Restrict(d.texts, {a.target})]
    BY <1>2, <1>6 DEF LessText, Keeps, d
  <2> HIDE DEF now
  <2>3. LessUndone(now, a) = [strokes |-> Without(now.strokes, {}),
                              texts |-> Without(now.texts, {})]
    BY <1>6 DEF LessUndone, Undone
  <2>4. Without(now.strokes, {}) = d.strokes
    BY <1>2, <2>2, <1>l DEF Laws
  <2>5. Without(now.texts, {}) = now.texts
    BY <1>2, <2>2 DEF Without, Restrict
  <2>6. Over(row.before.texts, now.texts) = d.texts
    BY <1>2, <2>2, <1>l DEF Laws
  <2>7. Reversed(now, row) = d
    BY <1>2, <2>2, <2>3, <2>4, <2>5, <2>6, <1>l DEF Reversed, Laws
  <2> QED
    BY <1>3, <1>6, <2>1, <2>7
<1>7. CASE a.kind = "clear"
  <2>1. StoreAction(t, row) = Store(t, Blank, row)
    BY <1>7 DEF StoreAction, d
  <2>2. row.before = d
    BY <1>7 DEF Keeps, d
  <2>3. LessUndone(Blank, a) = [strokes |-> Without(NoMap, {}), texts |-> Without(NoMap, {})]
    BY <1>7 DEF LessUndone, Undone, Blank
  <2>4. Without(NoMap, {}) = NoMap
    BY DEF Without, Restrict, NoMap
  <2>5. Reversed(Blank, row) = d
    BY <1>2, <2>2, <2>3, <2>4, <1>l DEF Reversed, Laws
  <2> QED
    BY <1>3, <1>7, <2>1, <2>5
<1> QED
  BY <1>1, <1>4, <1>5, <1>6, <1>7, ActionShapes

-----------------------------------------------------------------------------
\* A handler begins: what is left to show is what it changes of the room.
RoomOK ==
    /\ title \in Maps(Ids, Titles)
    /\ focus \in Ids \cup {NoBoard}
    /\ scene \in [Scenes -> Versions]
    /\ marked \in [Scenes -> Versions]
    /\ pen \in [Pens -> PenState(ActionIds)]
    /\ \A b \in Scenes : b \notin DOMAIN title => scene[b] = 0
    /\ \A b \in Pens : b \notin DOMAIN title => pen[b] = NoPen
    /\ used \subseteq Ids \cup Strokes
    /\ drawing \subseteq Strokes
    /\ DOMAIN title \subseteq used
    /\ LogsIn(pen, used)

LEMMA RoomIsOK == TInv => RoomOK
  BY DEF TInv, TypeOK, InUse, RoomOK

\* The rest of TInv does not mind ids that are given out or strokes that end.
LEMMA Grown ==
    ASSUME TInv, used \subseteq used', Ended \subseteq Ended'
    PROVE  /\ Stock(work, used', Ended') /\ Stock(db, used', Ended')
           /\ queue \in Seq(OpsOf(used', Ended'))
           /\ \A h \in Hosts : JobIn(job[h], used', Ended')
           /\ \A r \in resets : r[1] \in used'
           /\ Unseen(view, used')
<1>1. /\ \A t : Stock(t, used, Ended) => Stock(t, used', Ended')
      /\ \A j : JobIn(j, used, Ended) => JobIn(j, used', Ended')
      /\ \A v : Unseen(v, used) => Unseen(v, used')
      /\ Seq(OpsOf(used, Ended)) \subseteq Seq(OpsOf(used', Ended'))
  BY InGrows, OfGrows
<1> QED
  BY <1>1 DEF TInv, InUse

LEMMA Begun ==
    ASSUME TInv, NEW h \in Hosts, NEW next \in Job, next.step # "idle", Begin(h, next)
    PROVE  /\ begun' \in 0..MaxBegun /\ job' \in [Hosts -> Job] /\ job'[h] = next
           /\ \A g \in Hosts \ {h} : job'[g] = job[g]
           /\ crossed' \subseteq Things /\ crossed' = crossed \cup Meets(h, next.on)
           /\ job[h] = Idle
<1>1. next.on \subseteq Things
  BY JobShapes
<1>2. Meets(h, next.on) \subseteq next.on
  BY DEF Meets
<1>3. next.on \subseteq Things => crossed' \subseteq Things
  BY <1>2 DEF Begin, TInv, TypeOK
<1>4. begun' \in 0..MaxBegun
  BY BoardsAssumption DEF Begin, TInv, TypeOK
<1> QED
  BY <1>1, <1>3, <1>4 DEF Begin, TInv, TypeOK

LEMMA BeginTyped ==
    ASSUME TInv, NEW h \in Hosts, NEW next \in Job, next.step # "idle", Begin(h, next),
           UNCHANGED <<queue, applied, work, db, view, lost, resets>>,
           used \subseteq used', Ended \subseteq Ended',
           RoomOK', JobIn(next, used', Ended')
    PROVE  TInv'
<1>1. /\ begun' \in 0..MaxBegun /\ job' \in [Hosts -> Job] /\ job'[h] = next
      /\ \A g \in Hosts \ {h} : job'[g] = job[g]
      /\ crossed' \subseteq Things
  BY Begun
<1>2. TypeOK'
  BY <1>1 DEF TypeOK, RoomOK, TInv
<1>3. \A g \in Hosts : JobIn(job'[g], used', Ended')
  <2>1. \A g \in Hosts : JobIn(job[g], used', Ended')
    BY Grown
  <2> QED
    BY <1>1, <2>1
<1>4. InUse'
  <2>1. /\ Stock(work, used', Ended') /\ Stock(db, used', Ended')
        /\ queue \in Seq(OpsOf(used', Ended'))
        /\ \A r \in resets : r[1] \in used'
        /\ Unseen(view, used')
    BY Grown
  <2> QED
    BY <1>3, <2>1 DEF InUse, RoomOK
<1>5. Rooted(work)' /\ Rooted(db)'
  BY DEF TInv, Rooted
<1> QED
  BY <1>2, <1>4, <1>5 DEF TInv
LEMMA TellIn ==
    ASSUME NEW xs \in SUBSET Things, NEW m \in Msg, NEW B, NEW S, m.board \in B,
           NEW op \in OpsOf(B, S) \cup {NoOp}
    PROVE  /\ Tell(xs, m, op) \in Job /\ Tell(xs, m, op).step = "tell"
           /\ Tell(xs, m, op).on = xs /\ Tell(xs, m, op).msg = m /\ Tell(xs, m, op).op = op
           /\ JobIn(Tell(xs, m, op), B, S)
<1>1. op \in Op
  BY OpsShape DEF Op
<1> QED
  BY <1>1 DEF Tell, Job, JobIn

\* A handler that tells about a board it is on.
LEMMA TellTyped ==
    ASSUME TInv, NEW h \in Hosts, NEW xs \in SUBSET Things, NEW m \in Msg,
           NEW op \in OpsOf(used', Ended') \cup {NoOp}, m.board \in used',
           Begin(h, Tell(xs, m, op)), Unsaved,
           used \subseteq used', Ended \subseteq Ended', RoomOK'
    PROVE  TInv'
<1> DEFINE next == Tell(xs, m, op)
<1>1. next \in Job /\ next.step = "tell" /\ JobIn(next, used', Ended')
  <2>1. op \in Op
    BY OpsShape DEF Op
  <2> QED
    BY <2>1 DEF Tell, Job, JobIn
<1>2. UNCHANGED <<queue, applied, work, db, view, lost, resets>>
  BY DEF Unsaved, tableVars
<1> HIDE DEF next
<1>3. Begin(h, next)
  BY DEF next
<1> QED
  BY <1>1, <1>2, <1>3, BeginTyped

LEMMA CreateTyped ==
    ASSUME TInv, NEW h \in Hosts, NEW b \in Ids, CreateBoard(h, b)
    PROVE  TInv'
<1> DEFINE m  == [kind |-> "created", board |-> b, title |-> Untitled]
           op == [kind |-> "upsert", board |-> b, title |-> Untitled]
<1>1. /\ title' = Put(title, b, Untitled) /\ used' = used \cup {b} /\ b \notin used
      /\ UNCHANGED <<focus, scene, marked, pen, drawing>> /\ Unsaved
      /\ Begin(h, Tell({b}, m, op)) /\ Ended \subseteq Ended'
  BY DEF CreateBoard, Ended
<1>2. /\ m \in Msg /\ m.board \in used' /\ {b} \in SUBSET Things
      /\ op \in OpsOf(used', Ended')
  BY <1>1, BoardsAssumption DEF Msg, ListMsg, OpsOf, Op, ListOp, NoOp, Things
<1>3. RoomOK'
  <2>0. title \in Maps(Ids, Titles) /\ Untitled \in Titles
    BY BoardsAssumption, RoomIsOK DEF RoomOK
  <2>1. title' \in Maps(Ids, Titles)
    BY <1>1, <2>0, MapOps
  <2>3. DOMAIN title' = DOMAIN title \cup {b}
    BY <1>1 DEF Put
  <2>2. LogsIn(pen, used')
    BY <1>1, RoomIsOK, InGrows DEF RoomOK
  <2> QED
    BY <1>1, <2>1, <2>2, <2>3, RoomIsOK DEF RoomOK
<1> HIDE DEF m, op
<1> QED
  BY <1>1, <1>2, <1>3, TellTyped

LEMMA RenameTyped ==
    ASSUME TInv, NEW h \in Hosts, NEW b \in Ids, NEW n \in Titles, RenameBoard(h, b, n)
    PROVE  TInv'
<1> DEFINE m  == [kind |-> "renamed", board |-> b, title |-> n]
           op == [kind |-> "rename", board |-> b, title |-> n]
<1>1. /\ title' = Put(title, b, n) /\ b \in DOMAIN title
      /\ UNCHANGED <<focus, scene, marked, pen, drawing, used>> /\ Unsaved
      /\ Begin(h, Tell({b}, m, op)) /\ Ended \subseteq Ended'
  BY DEF RenameBoard, Ended, Exists, idVars
<1>2. b \in used'
  BY <1>1, RoomIsOK DEF RoomOK
<1>3. /\ m \in Msg /\ m.board \in used' /\ {b} \in SUBSET Things
      /\ op \in OpsOf(used', Ended')
  BY <1>2 DEF Msg, ListMsg, OpsOf, Op, ListOp, NoOp, Things
<1>4. RoomOK'
  <2>0. title \in Maps(Ids, Titles)
    BY RoomIsOK DEF RoomOK
  <2>1. title' \in Maps(Ids, Titles)
    BY <1>1, <2>0, MapOps
  <2>2. DOMAIN title' = DOMAIN title
    BY <1>1 DEF Put
  <2> QED
    BY <1>1, <2>1, <2>2, RoomIsOK DEF RoomOK, LogsIn
<1> HIDE DEF m, op
<1> QED
  BY <1>1, <1>3, <1>4, TellTyped

LEMMA DeleteTyped ==
    ASSUME TInv, NEW h \in Hosts, NEW b \in Ids, DeleteBoard(h, b)
    PROVE  TInv'
<1> DEFINE m  == [kind |-> "deleted", board |-> b]
           op == [kind |-> "delete", board |-> b]
<1>1. /\ title' = Without(title, {b}) /\ focus' = FocusWithout(b) /\ scene' = ScenesWithout(b)
      /\ pen' = [c \in Pens |-> IF c = b THEN NoPen ELSE pen[c]]
      /\ UNCHANGED <<marked, drawing, used>> /\ Unsaved /\ b \in DOMAIN title
      /\ Begin(h, Tell({b, "focus"}, m, op)) /\ Ended \subseteq Ended'
  BY DEF DeleteBoard, Ended, Exists, idVars
<1>2. b \in used'
  BY <1>1, RoomIsOK DEF RoomOK
<1>3. /\ m \in Msg /\ m.board \in used' /\ {b, "focus"} \in SUBSET Things
      /\ op \in OpsOf(used', Ended')
  BY <1>2 DEF Msg, ListMsg, OpsOf, Op, ListOp, NoOp, Things
<1>4. RoomOK'
  <2>1. title' \in Maps(Ids, Titles) /\ DOMAIN title' = DOMAIN title \ {b}
    BY <1>1, RoomIsOK, MapOps DEF RoomOK, Without, Restrict
  <2>2. focus' \in Ids \cup {NoBoard}
    BY <1>1, RoomIsOK DEF RoomOK, FocusWithout
  <2>3. scene' \in [Scenes -> Versions] /\ \A c \in Scenes : scene'[c] = IF c = b THEN 0 ELSE scene[c]
    BY <1>1, RoomIsOK, BoardsAssumption DEF RoomOK, ScenesWithout, Versions
  <2>4. /\ NoPen \in PenState(ActionIds) /\ NoPen.log = <<>>
        /\ <<>> \in Seq(ActsOf(used))
    BY BlankDrawing DEF NoPen, PenState
  <2>5. /\ pen' \in [Pens -> PenState(ActionIds)]
        /\ \A c \in Pens : pen'[c] = IF c = b THEN NoPen ELSE pen[c]
    BY <1>1, <2>4, RoomIsOK DEF RoomOK
  <2>6. LogsIn(pen', used')
    BY <1>1, <2>4, <2>5, RoomIsOK DEF RoomOK, LogsIn
  <2> QED
    BY <1>1, <2>1, <2>2, <2>3, <2>5, <2>6, RoomIsOK DEF RoomOK
<1> HIDE DEF m, op
<1> QED
  BY <1>1, <1>3, <1>4, TellTyped

LEMMA FocusTyped ==
    ASSUME TInv, NEW h \in Hosts
    PROVE  /\ \A b \in Ids : CheckFocus(h, b) => TInv'
           /\ SetFocus(h) => TInv'
<1>1. ASSUME NEW b \in Ids, CheckFocus(h, b) PROVE TInv'
  <2> DEFINE next == [step |-> "checked", on |-> {b, "focus"}, board |-> b]
  <2>1. /\ Begin(h, next) /\ UNCHANGED <<title, focus, scene, marked, pen, used, drawing>>
        /\ UNCHANGED <<queue, applied, work, db, view, lost, resets>> /\ Ended' = Ended
    BY <1>1 DEF CheckFocus, roomVars, idVars, Unsaved, tableVars, Ended
  <2>2. next \in Job /\ next.step = "checked" /\ JobIn(next, used', Ended')
    <3>1. b \in used'
      BY <1>1, <2>1, RoomIsOK DEF RoomOK, CheckFocus, Exists
    <3> QED
      BY <3>1 DEF Job, JobIn, Things
  <2>3. RoomOK'
    BY <2>1, RoomIsOK DEF RoomOK, LogsIn
  <2> HIDE DEF next
  <2> QED
    BY <2>1, <2>2, <2>3, BeginTyped
<1>2. ASSUME SetFocus(h) PROVE TInv'
  <2> DEFINE b  == job[h].board
             m  == [kind |-> "focused", board |-> b]
             op == [kind |-> "focus", board |-> b]
             next == Tell(job[h].on, m, op)
  <2>1. /\ job[h].step = "checked" /\ focus' = b /\ job' = [job EXCEPT ![h] = next]
        /\ UNCHANGED <<title, scene, marked, pen, used, drawing, begun, crossed>>
        /\ UNCHANGED <<queue, applied, work, db, view, lost, resets>> /\ Ended' = Ended
    BY <1>2 DEF SetFocus, idVars, Unsaved, tableVars, Ended
  <2>2. b \in Ids /\ job[h].on \in SUBSET Things /\ b \in used
    BY <2>1, JobShapes DEF TInv, TypeOK, InUse, JobIn
  <2>3. m \in Msg /\ m.board \in used /\ op \in OpsOf(used, Ended)
    BY <2>2 DEF Msg, ListMsg, OpsOf, Op, ListOp, NoOp
  <2> HIDE DEF m, op
  <2>4. next \in Job /\ JobIn(next, used, Ended)
    BY <2>2, <2>3, TellIn
  <2> HIDE DEF next, b
  <2>5. job' \in [Hosts -> Job] /\ \A g \in Hosts : JobIn(job'[g], used, Ended)
    BY <2>1, <2>4 DEF TInv, TypeOK, InUse
  <2>6. RoomOK'
    BY <2>1, <2>2, RoomIsOK DEF RoomOK, LogsIn
  <2>7. TypeOK'
    BY <2>1, <2>5, <2>6 DEF TInv, TypeOK, RoomOK
  <2>8. InUse'
    BY <2>1, <2>5, <2>6 DEF TInv, InUse, RoomOK, Stock, Unseen
  <2> QED
    BY <2>1, <2>7, <2>8 DEF TInv, Rooted
<1> QED
  BY <1>1, <1>2

LEMMA SceneTyped ==
    ASSUME TInv, NEW h \in Hosts, NEW b \in Scenes, NEW v \in Versions, UpdateScene(h, b, v)
    PROVE  TInv'
<1> DEFINE m  == [kind |-> "scene", board |-> b, version |-> v]
           op == [kind |-> "scene", board |-> b, version |-> v]
<1>1. /\ scene' = [scene EXCEPT ![b] = v] /\ b \in DOMAIN title
      /\ UNCHANGED <<title, focus, marked, pen, drawing, used>> /\ Unsaved
      /\ Begin(h, Tell({b}, m, op)) /\ Ended \subseteq Ended'
  BY DEF UpdateScene, Ended, Exists, idVars
<1>2. b \in used'
  BY <1>1, RoomIsOK DEF RoomOK
<1>3. /\ m \in Msg /\ m.board \in used' /\ {b} \in SUBSET Things
      /\ op \in OpsOf(used', Ended')
  BY <1>2 DEF Msg, ListMsg, OpsOf, Op, ListOp, NoOp, Things, Ids
<1>4. RoomOK'
  BY <1>1, RoomIsOK DEF RoomOK, LogsIn
<1> HIDE DEF m, op
<1> QED
  BY <1>1, <1>3, <1>4, TellTyped

LEMMA PenThere ==
    ASSUME TInv, NEW b \in Pens, pen[b] # NoPen
    PROVE  b \in DOMAIN title /\ b \in used /\ b \in Ids
  BY RoomIsOK DEF RoomOK, Ids

LEMMA PenIs ==
    ASSUME TInv, NEW b \in Pens
    PROVE  /\ pen[b] \in PenState(ActionIds) /\ pen[b].now \in Drawing
           /\ pen[b].log \in Seq(ActsOf(used)) /\ pen[b].log \in Seq(Action(ActionIds))
           /\ pen[b] = [now |-> pen[b].now, log |-> pen[b].log]
  BY RoomIsOK DEF RoomOK, LogsIn, PenState

LEMMA PenTyped ==
    ASSUME TInv, NEW h \in Hosts, NEW b \in Pens, NEW state \in PenState(ActionIds),
           NEW m \in Msg, m.board = b, NEW op \in OpsOf(used', Ended') \cup {NoOp},
           PenStep(h, b, state, m, op), b \in DOMAIN title,
           state.log \in Seq(ActsOf(used')),
           used \subseteq used', Ended \subseteq Ended',
           used' \subseteq Ids \cup Strokes, drawing' \subseteq Strokes
    PROVE  TInv'
<1>1. /\ pen' = [pen EXCEPT ![b] = state] /\ Begin(h, Tell({b}, m, op))
      /\ UNCHANGED <<title, focus, scene, marked>> /\ Unsaved
  BY DEF PenStep, listVars
<1>2. m.board \in used' /\ {b} \in SUBSET Things
  BY RoomIsOK DEF RoomOK, Things, Ids
<1>3. /\ pen' \in [Pens -> PenState(ActionIds)]
      /\ \A c \in Pens : pen'[c] = IF c = b THEN state ELSE pen[c]
  BY <1>1, RoomIsOK DEF RoomOK
<1>4. LogsIn(pen', used')
  <2>1. LogsIn(pen, used')
    BY RoomIsOK, InGrows DEF RoomOK
  <2> QED
    BY <1>3, <2>1 DEF LogsIn
<1>5. RoomOK'
  BY <1>1, <1>3, <1>4, RoomIsOK DEF RoomOK
<1> QED
  BY <1>1, <1>2, <1>5, TellTyped

LEMMA NextIdIn == ASSUME TInv, begun < MaxBegun PROVE NextId \in ActionIds
  BY BoardsAssumption DEF TInv, TypeOK, NextId, ActionIds

LEMMA BeginIn ==
    ASSUME TInv, NEW h \in Hosts, NEW b, NEW state, NEW m, NEW op, PenStep(h, b, state, m, op)
    PROVE  NextId \in ActionIds
  BY NextIdIn DEF PenStep, Begin

LEMMA PenBeginTyped ==
    ASSUME TInv, NEW h \in Hosts, NEW b \in Pens, NEW s \in Strokes, PenBegin(h, b, s)
    PROVE  TInv'
<1> DEFINE p == pen[b]
           act == Stroke(NextId, s)
           state == Did(p, WithStroke(p.now, s, "part"), act)
           m == [kind |-> "begun", board |-> b, stroke |-> s]
<1>1. /\ b \in DOMAIN title /\ s \notin used /\ used' = used \cup {s}
      /\ drawing' = drawing \cup {s} /\ PenStep(h, b, state, m, NoOp)
  BY DEF PenBegin, Exists
<1>2. NextId \in ActionIds
  BY <1>1, BeginIn
<1>3. act \in ActsOf(used')
  <2>1. act \in Action(ActionIds)
    BY <1>2, ActionIn
  <2> QED
    BY <1>1, <2>1 DEF ActsOf, Stroke
<1>4. WithStroke(p.now, s, "part") \in Drawing
  BY PenIs, DrawingOps
<1>5. p.log \in Seq(ActsOf(used')) /\ p.now \in Drawing
  BY <1>1, PenIs, OfGrows
<1> HIDE DEF act, p
<1>6. state \in PenState(ActionIds) /\ state.log \in Seq(ActsOf(used'))
  BY <1>3, <1>4, <1>5, DidIn
<1>7. m \in Msg /\ m.board = b
  BY DEF Msg, PenMsg
<1>8. /\ used \subseteq used' /\ Ended \subseteq Ended'
      /\ used' \subseteq Ids \cup Strokes /\ drawing' \subseteq Strokes
  BY <1>1, RoomIsOK DEF RoomOK, Ended
<1> HIDE DEF m, state
<1> QED
  BY <1>1, <1>6, <1>7, <1>8, PenTyped DEF p

LEMMA PenEndTyped ==
    ASSUME TInv, NEW h \in Hosts, NEW b \in Pens, NEW s \in Strokes, PenEnd(h, b, s)
    PROVE  TInv'
<1> DEFINE p == pen[b]
           act == p.log[CHOOSE i \in BeganBy(p, s) : TRUE]
           state == [p EXCEPT !.now = WithStroke(@, s, "whole")]
           m == [kind |-> "ended", board |-> b, stroke |-> s]
           op == Act(b, act, Blank)
<1>1. /\ s \in drawing /\ CanEnd(p, s) /\ used' = used
      /\ drawing' = drawing \ {s} /\ PenStep(h, b, state, m, op)
  BY DEF PenEnd
<1>2. p # NoPen
  BY <1>1 DEF CanEnd, NoPen, Blank, NoMap
<1>3. b \in DOMAIN title /\ b \in used /\ b \in Ids
  BY <1>2, PenThere
<1>4. act \in ActsOf(used) /\ act.kind = "stroke" /\ act.target = s
  <2>1. PICK i \in BeganBy(p, s) : act = p.log[i]
    BY <1>1 DEF CanEnd
  <2>2. i \in DOMAIN p.log /\ p.log[i].kind = "stroke" /\ p.log[i].target = s
    BY DEF BeganBy
  <2>3. p.log \in Seq(ActsOf(used))
    BY PenIs
  <2>4. p.log[i] \in ActsOf(used)
    BY <2>2, <2>3, LenProperties, ElementOfSeq
  <2> QED
    BY <2>1, <2>2, <2>4
<1> HIDE DEF act
<1>5. s \in used /\ s \in Ended'
  BY <1>1, <1>4 DEF Ended, ActsOf
<1>6. op \in OpsOf(used', Ended')
  <2>1. act \in Action(ActionIds) /\ act \in ActsOf(Ended')
    BY <1>4, <1>5 DEF ActsOf
  <2>2. [act |-> act, before |-> Blank] \in RowsOf(Ended')
    BY <2>1, BlankDrawing DEF RowsOf, Row
  <2> QED
    BY <1>1, <1>3, <1>4, <2>2 DEF Act, OpsOf, Op, PenOp, NoOp, RowsOf
<1>7. state = [now |-> WithStroke(p.now, s, "whole"), log |-> p.log]
  <2>1. p = [now |-> p.now, log |-> p.log]
    BY PenIs
  <2> QED
    BY ONLY <2>1
<1>8. WithStroke(p.now, s, "whole") \in Drawing
  BY PenIs, DrawingOps
<1>9. state \in PenState(ActionIds) /\ state.log \in Seq(ActsOf(used'))
  BY <1>1, <1>7, <1>8, PenIs DEF PenState
<1>10. m \in Msg /\ m.board = b
  BY DEF Msg, PenMsg
<1>11. /\ used \subseteq used' /\ Ended \subseteq Ended'
       /\ used' \subseteq Ids \cup Strokes /\ drawing' \subseteq Strokes
  BY <1>1, RoomIsOK DEF RoomOK, Ended
<1> HIDE DEF m, state, op, p
<1> QED
  BY <1>1, <1>3, <1>6, <1>9, <1>10, <1>11, PenTyped

LEMMA TextSetTyped ==
    ASSUME TInv, NEW h \in Hosts, NEW b \in Pens, NEW t \in Texts, NEW v \in Contents,
           PenTextSet(h, b, t, v)
    PROVE  TInv'
<1> DEFINE p == pen[b]
           act == Set(NextId, t)
           prior == [Blank EXCEPT !.texts = Restrict(p.now.texts, {t} \cap DOMAIN p.now.texts)]
           state == Did(p, WithText(p.now, t, v), act)
           row == [act |-> act, before |-> prior]
           m == [kind |-> "text", board |-> b, text |-> t, value |-> v]
           op == [kind |-> "text", board |-> b, value |-> v, row |-> row]
<1>1. /\ b \in DOMAIN title /\ used' = used /\ drawing' = drawing
      /\ PenStep(h, b, state, m, op)
  BY DEF PenTextSet, Exists, idVars
<1>2. NextId \in ActionIds
  BY <1>1, BeginIn
<1>3. /\ act \in Action(ActionIds) /\ act.kind = "set"
      /\ \A S : act \in ActsOf(S)
  <2>1. act \in Action(ActionIds)
    BY <1>2, ActionIn
  <2> QED
    BY <2>1 DEF ActsOf, Set
<1>4. p.now \in Drawing /\ WithText(p.now, t, v) \in Drawing /\ p.log \in Seq(ActsOf(used'))
  BY <1>1, PenIs, DrawingOps
<1>5. prior \in Drawing
  BY <1>4, BlankDrawing, MapOps DEF Drawing
<1> HIDE DEF act, p, prior
<1>6. state \in PenState(ActionIds) /\ state.log \in Seq(ActsOf(used'))
  BY <1>3, <1>4, DidIn
<1>7. m \in Msg /\ m.board = b
  BY DEF Msg, PenMsg
<1>8. b \in Ids /\ b \in used
  BY <1>1, RoomIsOK DEF RoomOK, Ids
<1>9. op \in OpsOf(used', Ended')
  <2>1. row \in Row(ActionIds) /\ row \in RowsOf(Ended') /\ row.act.kind = "set"
    BY <1>3, <1>5 DEF RowsOf, Row
  <2> HIDE DEF row
  <2> QED
    BY <1>1, <1>8, <2>1 DEF OpsOf, Op, PenOp, NoOp
<1>10. /\ used \subseteq used' /\ Ended \subseteq Ended'
       /\ used' \subseteq Ids \cup Strokes /\ drawing' \subseteq Strokes
  BY <1>1, RoomIsOK DEF RoomOK, Ended
<1> HIDE DEF m, state, op
<1> QED
  BY <1>1, <1>6, <1>7, <1>9, <1>10, PenTyped DEF p

LEMMA TextDeleteTyped ==
    ASSUME TInv, NEW h \in Hosts, NEW b \in Pens, NEW t \in Texts, PenTextDelete(h, b, t)
    PROVE  TInv'
<1> DEFINE p == pen[b]
           act == Delete(NextId, t)
           removed == [Blank EXCEPT !.texts = Restrict(p.now.texts, {t})]
           state == Did(p, LessText(p.now, t), act)
           row == [act |-> act, before |-> removed]
           m == [kind |-> "textGone", board |-> b, text |-> t]
           op == Act(b, act, removed)
<1>1. /\ t \in DOMAIN p.now.texts /\ used' = used /\ drawing' = drawing
      /\ PenStep(h, b, state, m, op)
  BY DEF PenTextDelete, idVars
<1>2. NextId \in ActionIds
  BY <1>1, BeginIn
<1>3. /\ act \in Action(ActionIds) /\ act.kind = "delete"
      /\ \A S : act \in ActsOf(S)
  <2>1. act \in Action(ActionIds)
    BY <1>2, ActionIn
  <2> QED
    BY <2>1 DEF ActsOf, Delete
<1>4. p.now \in Drawing /\ LessText(p.now, t) \in Drawing /\ p.log \in Seq(ActsOf(used'))
  BY <1>1, PenIs, DrawingOps
<1>5. removed \in Drawing
  BY <1>1, <1>4, BlankDrawing, MapOps DEF Drawing
<1>8. b \in DOMAIN title /\ b \in Ids /\ b \in used
  <2>1. p # NoPen
    BY <1>1 DEF NoPen, Blank, NoMap
  <2> QED
    BY <2>1, PenThere
<1> HIDE DEF act, p, removed
<1>6. state \in PenState(ActionIds) /\ state.log \in Seq(ActsOf(used'))
  BY <1>3, <1>4, DidIn
<1>7. m \in Msg /\ m.board = b
  BY DEF Msg, PenMsg
<1>9. op \in OpsOf(used', Ended')
  <2>1. row \in Row(ActionIds) /\ row \in RowsOf(Ended') /\ row.act.kind # "set"
    BY <1>3, <1>5 DEF RowsOf, Row
  <2>2. op = [kind |-> "act", board |-> b, row |-> row]
    BY DEF Act
  <2> HIDE DEF row, op
  <2> QED
    BY <1>1, <1>8, <2>1, <2>2 DEF OpsOf, Op, PenOp, NoOp
<1>10. /\ used \subseteq used' /\ Ended \subseteq Ended'
       /\ used' \subseteq Ids \cup Strokes /\ drawing' \subseteq Strokes
  BY <1>1, RoomIsOK DEF RoomOK, Ended
<1> HIDE DEF m, state, op
<1> QED
  BY <1>1, <1>6, <1>7, <1>8, <1>9, <1>10, PenTyped DEF p

LEMMA ClearTyped ==
    ASSUME TInv, NEW h \in Hosts, NEW b \in Pens, PenClear(h, b)
    PROVE  TInv'
<1> DEFINE p == pen[b]
           act == Clear(NextId)
           state == Did(p, Blank, act)
           row == [act |-> act, before |-> p.now]
           m == [kind |-> "cleared", board |-> b]
           op == Act(b, act, p.now)
<1>1. /\ b \in DOMAIN title /\ used' = used /\ drawing' = drawing
      /\ PenStep(h, b, state, m, op)
  BY DEF PenClear, Exists, idVars
<1>2. NextId \in ActionIds
  BY <1>1, BeginIn
<1>3. /\ act \in Action(ActionIds) /\ act.kind = "clear"
      /\ \A S : act \in ActsOf(S)
  <2>1. act \in Action(ActionIds)
    BY <1>2, ActionIn
  <2> QED
    BY <2>1 DEF ActsOf, Clear
<1>4. p.now \in Drawing /\ p.log \in Seq(ActsOf(used'))
  BY <1>1, PenIs
<1>8. b \in Ids /\ b \in used
  BY <1>1, RoomIsOK DEF RoomOK, Ids
<1> HIDE DEF act, p
<1>6. state \in PenState(ActionIds) /\ state.log \in Seq(ActsOf(used'))
  BY <1>3, <1>4, BlankDrawing, DidIn
<1>7. m \in Msg /\ m.board = b
  BY DEF Msg, PenMsg
<1>9. op \in OpsOf(used', Ended')
  <2>1. row \in Row(ActionIds) /\ row \in RowsOf(Ended') /\ row.act.kind # "set"
    BY <1>3, <1>4 DEF RowsOf, Row
  <2>2. op = [kind |-> "act", board |-> b, row |-> row]
    BY DEF Act
  <2> HIDE DEF row, op
  <2> QED
    BY <1>1, <1>8, <2>1, <2>2 DEF OpsOf, Op, PenOp, NoOp
<1>10. /\ used \subseteq used' /\ Ended \subseteq Ended'
       /\ used' \subseteq Ids \cup Strokes /\ drawing' \subseteq Strokes
  BY <1>1, RoomIsOK DEF RoomOK, Ended
<1> HIDE DEF m, state, op
<1> QED
  BY <1>1, <1>6, <1>7, <1>9, <1>10, PenTyped DEF p

LEMMA UndoTyped ==
    ASSUME TInv, NEW h \in Hosts, NEW b \in Pens, PenUndo(h, b)
    PROVE  TInv'
<1> DEFINE p == pen[b]
           act == Last(p.log)
           m == [kind |-> "undone", board |-> b, act |-> act]
           op == [kind |-> "undo", board |-> b, id |-> act.id]
<1>1. /\ p.log # <<>> /\ used' = used /\ drawing' = drawing
      /\ PenStep(h, b, Undo(p), m, op)
  BY DEF PenUndo, idVars
<1>4. p.now \in Drawing /\ p.log \in Seq(ActsOf(used))
  BY PenIs
<1>5. p # NoPen
  BY <1>1 DEF NoPen
<1>8. b \in DOMAIN title /\ b \in Ids /\ b \in used
  BY <1>5, PenThere
<1> HIDE DEF p
<1>6. /\ Undo(p) \in PenState(ActionIds) /\ Undo(p).log \in Seq(ActsOf(used'))
      /\ act \in Action(ActionIds) /\ act.id \in ActionIds
  <2>1. /\ Undo(p) \in PenState(ActionIds) /\ Undo(p).log \in Seq(ActsOf(used'))
        /\ act \in ActsOf(used)
    BY <1>1, <1>4, UndoIn
  <2>2. act \in Action(ActionIds)
    BY <2>1 DEF ActsOf
  <2> HIDE DEF act
  <2> QED
    BY <2>1, <2>2, ActionShapes
<1> HIDE DEF act
<1>7. m \in Msg /\ m.board = b
  BY <1>6 DEF Msg, PenMsg
<1>9. op \in OpsOf(used', Ended')
  BY <1>1, <1>6, <1>8 DEF OpsOf, Op, PenOp, NoOp
<1>10. /\ used \subseteq used' /\ Ended \subseteq Ended'
       /\ used' \subseteq Ids \cup Strokes /\ drawing' \subseteq Strokes
  BY <1>1, RoomIsOK DEF RoomOK, Ended
<1> HIDE DEF m, op
<1> QED
  BY <1>1, <1>6, <1>7, <1>8, <1>9, <1>10, PenTyped DEF p

-----------------------------------------------------------------------------
\* Steps that leave the room alone.
SameRoom == UNCHANGED <<title, focus, scene, pen, used, drawing>>

LEMMA SameRoomOK ==
    ASSUME TInv, SameRoom, marked' \in [Scenes -> Versions]
    PROVE  RoomOK' /\ Ended' = Ended /\ used' = used
  BY RoomIsOK DEF RoomOK, SameRoom, LogsIn, Ended

LEMMA BroadcastTyped ==
    ASSUME TInv, NEW h \in Hosts, Broadcast(h)
    PROVE  TInv'
<1> DEFINE j == job[h]
           next == IF j.op = NoOp THEN Idle ELSE [step |-> "save", on |-> j.on, op |-> j.op]
<1>1. /\ j.step = "tell" /\ view' = Shows(view, j.msg) /\ job' = [job EXCEPT ![h] = next]
      /\ SameRoom
      /\ UNCHANGED <<marked, begun, resets, queue, applied, work, db, crossed, lost>>
  BY DEF Broadcast, roomVars, idVars, tableVars, SameRoom
<1>2. /\ j \in Job /\ j.msg \in Msg /\ j.on \in SUBSET Things /\ j.op \in Op
      /\ j.msg.board \in used /\ j.op \in OpsOf(used, Ended) \cup {NoOp}
  BY <1>1, JobShapes DEF TInv, TypeOK, InUse, JobIn
<1>3. RoomOK' /\ Ended' = Ended /\ used' = used
  BY <1>1, SameRoomOK DEF TInv, TypeOK
<1>4. next \in Job /\ JobIn(next, used, Ended)
  BY <1>2 DEF Job, JobIn, Idle
<1> DEFINE m == j.msg
           w == Shows(view, m)
<1>5. w \in View /\ ListShows(view, w, m) /\ view \in View
  BY <1>2, ShowsIs DEF TInv, TypeOK
<1>6. Unseen(w, used)
  <2>1. Unseen(view, used) /\ m.board \in used
    BY <1>2 DEF TInv, InUse
  <2>2. ASSUME NEW b \in Scenes \ used PROVE w.scene[b] = 0
    BY <1>5, <2>1, ViewShape DEF ListShows, Unseen
  <2>3. ASSUME NEW b \in Pens \ used PROVE w.pen[b] = Blank
    <3>1. CASE m.kind \notin PenKinds
      BY <1>5, <2>1, <3>1 DEF ListShows, Unseen
    <3>2. CASE m.kind \in PenKinds
      <4>1. w = view \/ \E d \in Drawing : OnlyPen(view, w, m.board, d)
        BY <1>2, <1>5, <3>2, PenShowsOnly
      <4>2. m.board \in Pens /\ m.board # b /\ b \in Pens
        BY <1>2, <2>1, <3>2, MsgShapes DEF PenKinds
      <4>3. w.pen[b] = view.pen[b]
        BY <1>5, <4>1, <4>2, OnlyPenIn
      <4> QED
        BY <2>1, <4>3 DEF Unseen
    <3> QED
      BY <3>1, <3>2
  <2> QED
    BY <2>2, <2>3 DEF Unseen
<1> HIDE DEF next, w, m
<1>7. view' = w
  BY <1>1 DEF w, m
<1>8. job' \in [Hosts -> Job] /\ \A g \in Hosts : JobIn(job'[g], used, Ended)
  BY <1>1, <1>4 DEF TInv, TypeOK, InUse
<1>9. TypeOK'
  BY <1>1, <1>3, <1>5, <1>7, <1>8 DEF TInv, TypeOK, RoomOK
<1>10. InUse'
  BY <1>1, <1>3, <1>6, <1>7, <1>8 DEF TInv, InUse, RoomOK, Stock
<1> QED
  BY <1>1, <1>9, <1>10 DEF TInv, Rooted

LEMMA EnqueueTyped ==
    ASSUME TInv, NEW h \in Hosts, Enqueue(h)
    PROVE  TInv'
<1>1. /\ job[h].step = "save" /\ queue' = Append(queue, job[h].op) /\ job' = [job EXCEPT ![h] = Idle]
      /\ SameRoom
      /\ UNCHANGED <<marked, begun, resets, applied, work, db, view, crossed, lost>>
  BY DEF Enqueue, roomVars, idVars, SameRoom
<1>2. job[h].op \in OpsOf(used, Ended)
  BY <1>1 DEF TInv, InUse, JobIn
<1>3. RoomOK' /\ Ended' = Ended /\ used' = used
  BY <1>1, SameRoomOK DEF TInv, TypeOK
<1>4. queue' \in Seq(OpsOf(used, Ended)) /\ queue' \in Seq(Op)
  <2>1. queue' \in Seq(OpsOf(used, Ended))
    BY <1>1, <1>2 DEF TInv, InUse
  <2>2. OpsOf(used, Ended) \subseteq Op
    BY OpsShape
  <2> QED
    BY <2>1, <2>2, SeqGrows
<1>5. job' \in [Hosts -> Job] /\ \A g \in Hosts : JobIn(job'[g], used, Ended)
  <2>1. Idle \in Job /\ JobIn(Idle, used, Ended)
    BY DEF Job, JobIn, Idle
  <2> QED
    BY <1>1, <2>1 DEF TInv, TypeOK, InUse
<1>6. TypeOK'
  BY <1>1, <1>3, <1>4, <1>5 DEF TInv, TypeOK, RoomOK
<1>7. InUse'
  BY <1>1, <1>3, <1>4, <1>5 DEF TInv, InUse, RoomOK, Stock, Unseen
<1> QED
  BY <1>1, <1>6, <1>7 DEF TInv, Rooted

LEMMA ResetTyped ==
    ASSUME TInv, ResetTask
    PROVE  TInv'
<1>1. CASE ReadScenes
  <2>1. /\ resets' = {<<b, scene[b]>> : b \in {b \in Scenes : Exists(b) /\ NeedsReset(b)}}
        /\ SameRoom /\ UNCHANGED <<marked, begun, job, queue, applied, work, db, view, crossed, lost>>
    BY <1>1 DEF ReadScenes, roomVars, idVars, tableVars, SameRoom
  <2>2. resets' \subseteq Scenes \X Versions /\ \A r \in resets' : r[1] \in used
    BY <2>1, RoomIsOK DEF RoomOK, Exists
  <2>3. RoomOK' /\ Ended' = Ended /\ used' = used
    BY <2>1, SameRoomOK DEF TInv, TypeOK
  <2>4. TypeOK'
    BY <2>1, <2>2, <2>3 DEF TInv, TypeOK, RoomOK
  <2>5. InUse'
    BY <2>1, <2>2, <2>3 DEF TInv, InUse, RoomOK, Stock, Unseen
  <2> QED
    BY <2>1, <2>4, <2>5 DEF TInv, Rooted
<1>2. ASSUME NEW b \in Scenes, NEW v \in Versions, SendReset(b, v) PROVE TInv'
  <2> DEFINE m == [kind |-> "scene", board |-> b, version |-> v]
             w == Shows(view, m)
  <2>1. /\ <<b, v>> \in resets /\ resets' = resets \ {<<b, v>>} /\ view' = w
        /\ marked' = [marked EXCEPT ![b] = v]
        /\ SameRoom /\ UNCHANGED <<begun, job, queue, applied, work, db, crossed, lost>>
    BY <1>2 DEF SendReset, idVars, tableVars, SameRoom
  <2>2. marked' \in [Scenes -> Versions]
    BY <2>1 DEF TInv, TypeOK
  <2>3. RoomOK' /\ Ended' = Ended /\ used' = used
    BY <2>1, <2>2, SameRoomOK
  <2>4. m \in Msg /\ m.board = b /\ m.kind = "scene" /\ b \in used
    <3>1. <<b, v>>[1] \in used
      BY <2>1 DEF TInv, InUse
    <3> QED
      BY <3>1 DEF Msg, ListMsg
  <2> HIDE DEF m
  <2>5. w \in View /\ ListShows(view, w, m) /\ view \in View
    BY <2>4, ShowsIs DEF TInv, TypeOK
  <2> HIDE DEF w
  <2>6. Unseen(w, used)
    <3>1. Unseen(view, used)
      BY DEF TInv, InUse
    <3>2. ASSUME NEW c \in Scenes \ used PROVE w.scene[c] = 0
      BY <2>4, <2>5, <3>1, ViewShape DEF ListShows, Unseen
    <3>3. w.pen = view.pen
      BY <2>4, <2>5 DEF ListShows, PenKinds
    <3> QED
      BY <3>1, <3>2, <3>3 DEF Unseen
  <2>7. TypeOK'
    BY <2>1, <2>2, <2>3, <2>5 DEF TInv, TypeOK, RoomOK
  <2>8. InUse'
    BY <2>1, <2>3, <2>6 DEF TInv, InUse, RoomOK, Stock
  <2> QED
    BY <2>1, <2>7, <2>8 DEF TInv, Rooted
<1> QED
  BY <1>1, <1>2 DEF ResetTask

LEMMA QueueRest ==
    ASSUME NEW S, NEW q \in Seq(S), NEW n \in Nat, n <= Len(q)
    PROVE  /\ SubSeq(q, n + 1, Len(q)) \in Seq(S)
           /\ q # <<>> => Head(q) \in S /\ Tail(q) \in Seq(S)
<1>1. \A i \in (n + 1)..Len(q) : q[i] \in S
  BY ElementOfSeq, LenProperties
<1>2. SubSeq(q, n + 1, Len(q)) \in Seq(S)
  BY <1>1, SubSeqProperties, LenProperties
<1> QED
  BY <1>2, HeadTailProperties

LEMMA WriterTyped ==
    ASSUME TInv, Writer
    PROVE  TInv'
<1> DEFINE O == OpsOf(used, Ended)
<1>1. /\ SameRoom /\ UNCHANGED <<marked, begun, job, resets, view, crossed>>
  BY DEF Writer, ApplyOp, CommitBatch, AbortBatch, roomVars, idVars, SameRoom
<1>2. RoomOK' /\ Ended' = Ended /\ used' = used
  BY <1>1, SameRoomOK DEF TInv, TypeOK
<1>3. queue \in Seq(O) /\ O \subseteq Op /\ applied \in 0..MaxBatch /\ MaxBatch \in Nat
  BY OpsShape, BoardsAssumption DEF TInv, InUse, TypeOK
<1>4. ASSUME queue' \in Seq(O), applied' \in 0..MaxBatch, work' \in Tables, db' \in Tables,
             Rooted(work'), Rooted(db'), Stock(work', used, Ended), Stock(db', used, Ended),
             lost' \in BOOLEAN
      PROVE  TInv'
  <2>1. queue' \in Seq(Op)
    BY <1>3, <1>4, SeqGrows
  <2>2. TypeOK'
    BY <1>1, <1>2, <1>4, <2>1 DEF TInv, TypeOK, RoomOK
  <2>3. InUse'
    BY <1>1, <1>2, <1>4 DEF TInv, InUse, RoomOK, Unseen
  <2> QED
    BY <1>4, <2>2, <2>3 DEF TInv
<1>5. /\ work \in Tables /\ db \in Tables /\ Rooted(work) /\ Rooted(db)
      /\ Stock(work, used, Ended) /\ Stock(db, used, Ended) /\ lost \in BOOLEAN
  BY DEF TInv, TypeOK, InUse
<1>6. CASE ApplyOp
  <2>1. /\ queue # <<>> /\ applied < MaxBatch /\ Accepts(work, Head(queue))
        /\ work' = Apply(work, Head(queue)) /\ queue' = Tail(queue) /\ applied' = applied + 1
        /\ UNCHANGED <<db, lost>>
    BY <1>6 DEF ApplyOp
  <2>2. Head(queue) \in O /\ Tail(queue) \in Seq(O)
    BY <1>3, <2>1, HeadTailProperties
  <2>3. work' \in Tables /\ Rooted(work') /\ Stock(work', used, Ended)
    BY <1>5, <2>1, <2>2, ApplyIn
  <2>4. applied' \in 0..MaxBatch
    BY <1>3, <2>1
  <2> QED
    BY <1>4, <1>5, <2>1, <2>2, <2>3, <2>4
<1>7. CASE CommitBatch
  <2>1. /\ db' = work /\ applied' = 0 /\ UNCHANGED <<queue, work, lost>>
    BY <1>7 DEF CommitBatch
  <2> QED
    BY <1>3, <1>4, <1>5, <2>1
<1>8. CASE AbortBatch
  <2>1. PICK n \in 1..(MaxBatch - applied) : n <= Len(queue) /\ queue' = SubSeq(queue, n + 1, Len(queue))
    BY <1>8 DEF AbortBatch
  <2>2. work' = db /\ applied' = 0 /\ lost' = TRUE /\ db' = db
    BY <1>8 DEF AbortBatch
  <2>3. n \in Nat
    OBVIOUS
  <2>4. queue' \in Seq(O)
    BY <1>3, <2>1, <2>3, QueueRest
  <2> QED
    BY <1>3, <1>4, <1>5, <2>2, <2>4
<1> QED
  BY <1>6, <1>7, <1>8 DEF Writer

LEMMA RestartTyped ==
    ASSUME TInv, Restart
    PROVE  TInv'
<1>1. /\ db \in Tables /\ Rooted(db) /\ Stock(db, used, Ended)
      /\ db.title \in Maps(Ids, Titles) /\ db.focus \in Ids \cup {NoBoard}
      /\ db.scene \in [Scenes -> Versions] /\ db.pen \in [Pens -> PenTable(ActionIds)]
  BY TablesShape DEF TInv, TypeOK, InUse
<1>2. /\ title' = db.title /\ focus' = db.focus /\ scene' = db.scene
      /\ marked' = [b \in Scenes |-> 0] /\ pen' = [b \in Pens |-> Loaded(db.pen[b])]
      /\ job' = [h \in Hosts |-> Idle] /\ resets' = {} /\ queue' = <<>> /\ applied' = 0
      /\ work' = db /\ lost' = FALSE /\ UNCHANGED <<used, drawing, begun, db>>
      /\ view' = [title |-> db.title, focus |-> db.focus, scene |-> db.scene,
                  pen |-> [b \in Pens |-> db.pen[b].now], fresh |-> view.fresh]
      /\ crossed' \subseteq crossed \cup {"focus"}
  BY DEF Restart, idVars
<1>3. \A b \in Pens : db.pen[b] \in Table(RowsOf(Ended)) /\ db.pen[b].now \in Drawing
  BY <1>1 DEF Stock, Table, PenTable
<1>4. \A b \in Pens : /\ Loaded(db.pen[b]) \in PenState(ActionIds)
                      /\ Loaded(db.pen[b]).log \in Seq(ActsOf(used))
  <2>1. ActsOf(Ended) \subseteq ActsOf(used)
    BY DEF ActsOf, Ended
  <2>2. Seq(ActsOf(Ended)) \subseteq Seq(ActsOf(used))
    BY <2>1, SeqGrows
  <2> QED
    BY <1>3, <2>2, LoadedIn
<1>5. RoomOK'
  <2>1. pen' \in [Pens -> PenState(ActionIds)] /\ LogsIn(pen', used')
    BY <1>2, <1>4 DEF LogsIn
  <2>2. \A b \in Pens : b \notin DOMAIN title' => pen'[b] = NoPen
    BY <1>1, <1>2, LoadedNothing DEF Rooted
  <2>3. marked' \in [Scenes -> Versions]
    BY <1>2, BoardsAssumption DEF Versions
  <2>4. DOMAIN db.title \subseteq used
    BY <1>1 DEF Stock
  <2> QED
    BY <1>1, <1>2, <2>1, <2>2, <2>3, <2>4, RoomIsOK DEF RoomOK, Rooted
<1>6. view' \in View
  BY <1>1, <1>2, <1>3 DEF View, TInv, TypeOK
<1>7. TypeOK'
  <2>1. job' \in [Hosts -> Job] /\ crossed' \subseteq Things /\ queue' \in Seq(Op)
        /\ applied' \in 0..MaxBatch
    BY <1>2, BoardsAssumption DEF Job, TInv, TypeOK, Things
  <2> QED
    BY <1>1, <1>2, <1>5, <1>6, <2>1 DEF TInv, TypeOK, RoomOK
<1>8. InUse'
  <2>1. \A h \in Hosts : JobIn(job'[h], used', Ended')
    BY <1>2 DEF JobIn, Idle
  <2>2. Ended' = Ended
    BY <1>2 DEF Ended
  <2>3. Unseen(view', used')
    <3>1. \A b \in Scenes \ used : db.scene[b] = 0
      BY <1>1 DEF Rooted, Stock
    <3>2. \A b \in Pens \ used : db.pen[b].now = Blank
      BY <1>1 DEF Rooted, Stock, NoTable
    <3> QED
      BY <1>2, <3>1, <3>2 DEF Unseen
  <2>4. <<>> \in Seq(OpsOf(used', Ended'))
    OBVIOUS
  <2> QED
    BY <1>1, <1>2, <1>5, <2>1, <2>2, <2>3, <2>4 DEF InUse, RoomOK
<1> QED
  BY <1>1, <1>2, <1>7, <1>8 DEF TInv

LEMMA StartTyped == Init => TInv
<1> SUFFICES ASSUME Init PROVE TInv
  OBVIOUS
<1>1. NoMap \in Maps(Ids, Titles) /\ DOMAIN NoMap = {}
  <2>1. NoMap \in [{} -> Titles] /\ {} \in SUBSET Ids
    BY DEF NoMap
  <2> QED
    BY <2>1 DEF Maps, NoMap
<1>2. NoPen \in PenState(ActionIds) /\ NoPen.log = <<>> /\ NoTable \in PenTable(ActionIds)
      /\ NoTable.rows = <<>>
  BY BlankDrawing DEF NoPen, NoTable, PenState, PenTable
<1>3. NewTables \in Tables /\ Rooted(NewTables) /\ Stock(NewTables, {}, {})
  <2> DEFINE sc == [b \in Scenes |-> 0]
             pn == [b \in Pens |-> NoTable]
  <2>1. sc \in [Scenes -> Versions] /\ \A b \in Scenes : sc[b] = 0
    BY BoardsAssumption DEF Versions
  <2>2. pn \in [Pens -> PenTable(ActionIds)] /\ \A b \in Pens : pn[b] = NoTable
    BY <1>2
  <2>3. NewTables = [title |-> NoMap, focus |-> NoBoard, scene |-> sc, pen |-> pn]
    BY DEF NewTables
  <2> HIDE DEF sc, pn
  <2>4. /\ NewTables.title = NoMap /\ NewTables.focus = NoBoard
        /\ NewTables.scene = sc /\ NewTables.pen = pn
    BY <2>3
  <2>5. NewTables \in Tables
    BY <1>1, <2>1, <2>2, <2>3 DEF Tables
  <2>6. Rooted(NewTables)
    BY <2>1, <2>2, <2>4 DEF Rooted
  <2>7. <<>> \in Seq(RowsOf({}))
    OBVIOUS
  <2>8. Stock(NewTables, {}, {})
    BY <1>1, <1>2, <2>2, <2>4, <2>7 DEF Stock
  <2> QED
    BY <2>5, <2>6, <2>8
<1>4. NewView \in View /\ Unseen(NewView, {})
  BY <1>1, BlankDrawing, BoardsAssumption DEF NewView, View, Unseen, Versions
<1>i. /\ title = NoMap /\ focus = NoBoard /\ scene = [b \in Scenes |-> 0]
      /\ marked = [b \in Scenes |-> 0] /\ pen = [b \in Pens |-> NoPen] /\ used = {} /\ drawing = {}
      /\ begun = 0 /\ job = [h \in Hosts |-> Idle] /\ resets = {} /\ queue = <<>> /\ applied = 0
      /\ work = NewTables /\ db = NewTables /\ view = NewView /\ crossed = {} /\ lost = FALSE
  BY DEF Init
<1>5. TypeOK
  <2>1. scene \in [Scenes -> Versions] /\ \A b \in Scenes : scene[b] = 0
    BY <1>i, BoardsAssumption DEF Versions
  <2>2. marked \in [Scenes -> Versions]
    BY <1>i, BoardsAssumption DEF Versions
  <2>3. pen \in [Pens -> PenState(ActionIds)] /\ \A b \in Pens : pen[b] = NoPen
    BY <1>i, <1>2
  <2>4. begun \in 0..MaxBegun /\ applied \in 0..MaxBatch /\ queue \in Seq(Op)
    BY <1>i, BoardsAssumption
  <2>5. job \in [Hosts -> Job]
    BY <1>i DEF Job
  <2>6. title \in Maps(Ids, Titles) /\ focus \in Ids \cup {NoBoard}
    BY <1>i, <1>1
  <2>7. work \in Tables /\ db \in Tables /\ view \in View
    BY <1>i, <1>3, <1>4
  <2>8. /\ used \subseteq Ids \cup Strokes /\ drawing \subseteq Strokes
        /\ resets \subseteq Scenes \X Versions /\ crossed \subseteq Things /\ lost \in BOOLEAN
    BY <1>i
  <2> QED
    BY <2>1, <2>2, <2>3, <2>4, <2>5, <2>6, <2>7, <2>8 DEF TypeOK
<1>6. InUse
  <2>1. Ended = {}
    BY <1>i DEF Ended
  <2>2. Stock(work, used, Ended) /\ Stock(db, used, Ended) /\ Unseen(view, used)
    BY <1>i, <1>3, <1>4, <2>1
  <2>3. <<>> \in Seq(ActsOf(used)) /\ <<>> \in Seq(OpsOf(used, Ended))
    OBVIOUS
  <2>4. LogsIn(pen, used)
    BY <1>i, <1>2, <2>3 DEF LogsIn
  <2>5. \A h \in Hosts : JobIn(job[h], used, Ended)
    BY <1>i DEF JobIn, Idle
  <2> QED
    BY <1>i, <1>1, <2>2, <2>3, <2>4, <2>5 DEF InUse
<1> QED
  BY <1>3, <1>5, <1>6 DEF TInv, Init

LEMMA NextTyped == TInv /\ [Next]_vars => TInv'
<1> SUFFICES ASSUME TInv, [Next]_vars PROVE TInv'
  OBVIOUS
<1>1. ASSUME NEW h \in Hosts, ListStep(h) PROVE TInv'
  BY <1>1, CreateTyped, RenameTyped, DeleteTyped, FocusTyped, SceneTyped DEF ListStep
<1>2. ASSUME NEW h \in Hosts, NEW b \in Pens, PenHandler(h, b) PROVE TInv'
  BY <1>2, PenBeginTyped, PenEndTyped, TextSetTyped, TextDeleteTyped, ClearTyped, UndoTyped
  DEF PenHandler
<1>3. ASSUME NEW s \in Strokes, PenEndOfNothing(s) PROVE TInv'
  <2>1. /\ UNCHANGED <<title, focus, scene, marked, pen, used, begun, job, crossed>>
        /\ UNCHANGED <<queue, applied, work, db, view, lost, resets>> /\ drawing' = drawing \ {s}
    BY <1>3 DEF PenEndOfNothing, roomVars, Unsaved, tableVars
  <2>2. used \subseteq used' /\ Ended \subseteq Ended'
    BY <2>1 DEF Ended
  <2>3. RoomOK'
    BY <2>1, RoomIsOK DEF RoomOK, LogsIn
  <2>4. TypeOK'
    BY <2>1, <2>3 DEF TInv, TypeOK, RoomOK
  <2>5. InUse'
    <3>1. /\ Stock(work, used', Ended') /\ Stock(db, used', Ended')
          /\ queue \in Seq(OpsOf(used', Ended'))
          /\ \A h \in Hosts : JobIn(job[h], used', Ended')
          /\ \A r \in resets : r[1] \in used'
          /\ Unseen(view, used')
      BY <2>2, Grown
    <3> QED
      BY <2>1, <2>3, <3>1 DEF InUse, RoomOK
  <2> QED
    BY <2>1, <2>4, <2>5 DEF TInv, Rooted
<1>4. CASE UNCHANGED vars
  <2>1. UNCHANGED <<title, focus, scene, marked, pen, used, drawing, begun, job, resets,
                    queue, applied, work, db, view, crossed, lost>>
    BY <1>4 DEF vars, roomVars, idVars, tableVars
  <2>2. TypeOK'
    BY <2>1 DEF TInv, TypeOK
  <2>3. InUse'
    BY <2>1 DEF TInv, InUse, Ended, LogsIn, Stock, Unseen, JobIn
  <2> QED
    BY <2>1, <2>2, <2>3 DEF TInv, Rooted
<1> QED
  BY <1>1, <1>2, <1>3, <1>4, BroadcastTyped, EnqueueTyped, ResetTyped, WriterTyped, RestartTyped
  DEF Next

\* What the handlers, the queue, the tables and the browsers hold is well
\* formed, and speaks only of boards and strokes that were given out.
THEOREM BoardsTyped == Spec => []TInv
  BY StartTyped, NextTyped, PTL DEF Spec

\* Every operation of boards.rs, pen.rs, excalidraw.rs, the writer and a
\* restart keeps the types: no scene or stroke is left to a board that is gone.
THEOREM TypeCorrect == Spec => []TypeOK
<1>1. TInv => TypeOK
  BY DEF TInv
<1> QED
  BY BoardsTyped, <1>1, PTL

-----------------------------------------------------------------------------
(***************************************************************************)
(* What a browser shows.  Of a room, a view and the handlers, as values:   *)
(* what is Like the room at x, what a message is About.                    *)
(***************************************************************************)
Room == [title |-> title, focus |-> focus, scene |-> scene, marked |-> marked,
         pen |-> pen, drawing |-> drawing, resets |-> resets]

About(m) == {m.board} \cup IF m.kind \in {"focused", "deleted"} THEN {"focus"} ELSE {}

LikeScene(r, v, b) ==
    v.scene[b] = r.scene[b] \/ r.scene[b] > r.marked[b] \/ \E n \in Versions : <<b, n>> \in r.resets

\* A browser knows the strokes that can still end, to show them when they do.
LikePen(r, v, b) ==
    /\ v.pen[b].texts = r.pen[b].now.texts
    /\ DOMAIN v.pen[b].strokes \subseteq DOMAIN r.pen[b].now.strokes
    /\ \A s \in DOMAIN r.pen[b].now.strokes :
          r.pen[b].now.strokes[s] = "whole" => s \in DOMAIN v.pen[b].strokes
    /\ \A s \in r.drawing : CanEnd(r.pen[b], s) => <<b, s>> \in v.fresh

LikeBoard(r, v, b) ==
    /\ b \in DOMAIN v.title <=> b \in DOMAIN r.title
    /\ b \in DOMAIN r.title =>
          /\ v.title[b] = r.title[b]
          /\ b \in Scenes => LikeScene(r, v, b)
          /\ b \in Pens => LikePen(r, v, b)

Like(r, v, x) ==
    /\ x = "focus" => v.focus = r.focus
    /\ x \in Ids => LikeBoard(r, v, x)

\* Views that do not differ in x.
SameAt(v, w, x) ==
    /\ x = "focus" => w.focus = v.focus
    /\ x \in Ids =>
          /\ x \in DOMAIN w.title <=> x \in DOMAIN v.title
          /\ x \in DOMAIN v.title => w.title[x] = v.title[x]
    /\ x \in Scenes => w.scene[x] = v.scene[x]
    /\ x \in Pens => /\ w.pen[x] = v.pen[x]
                     /\ \A s \in Strokes : <<x, s>> \in w.fresh <=> <<x, s>> \in v.fresh

\* Rooms that ask no more of x.
RoomAt(r, q, x) ==
    /\ x = "focus" => q.focus = r.focus
    /\ x \in Ids =>
          /\ x \in DOMAIN q.title <=> x \in DOMAIN r.title
          /\ x \in DOMAIN r.title => q.title[x] = r.title[x]
    /\ x \in Scenes => /\ q.scene[x] = r.scene[x] /\ q.marked[x] = r.marked[x]
                       /\ \A n \in Versions : <<x, n>> \in r.resets => <<x, n>> \in q.resets
    /\ x \in Pens => /\ q.pen[x] = r.pen[x]
                     /\ \A s \in q.drawing : CanEnd(q.pen[x], s) => s \in r.drawing

LEMMA LikeSame ==
    ASSUME NEW r, NEW v, NEW w, NEW x, SameAt(v, w, x), Like(r, v, x), r.drawing \subseteq Strokes
    PROVE  Like(r, w, x)
<1>1. x = "focus" => w.focus = r.focus
  BY DEF SameAt, Like
<1>2. ASSUME x \in Ids PROVE LikeBoard(r, w, x)
  <2>1. LikeBoard(r, v, x)
    BY <1>2 DEF Like
  <2>2. x \in DOMAIN w.title <=> x \in DOMAIN r.title
    BY <1>2, <2>1 DEF SameAt, LikeBoard
  <2>3. ASSUME x \in DOMAIN r.title
        PROVE  /\ w.title[x] = r.title[x]
               /\ x \in Scenes => LikeScene(r, w, x)
               /\ x \in Pens => LikePen(r, w, x)
    <3>1. w.title[x] = r.title[x]
      BY <1>2, <2>1, <2>3 DEF SameAt, LikeBoard
    <3>2. x \in Scenes => LikeScene(r, w, x)
      BY <2>1, <2>3 DEF SameAt, LikeBoard, LikeScene
    <3>3. x \in Pens => LikePen(r, w, x)
      BY <2>1, <2>3 DEF SameAt, LikeBoard, LikePen
    <3> QED
      BY <3>1, <3>2, <3>3
  <2> QED
    BY <2>2, <2>3 DEF LikeBoard
<1> QED
  BY <1>1, <1>2 DEF Like

LEMMA LikeRoom ==
    ASSUME NEW r, NEW q, NEW v, NEW x, RoomAt(r, q, x), Like(r, v, x)
    PROVE  Like(q, v, x)
<1>1. x = "focus" => v.focus = q.focus
  BY DEF RoomAt, Like
<1>2. ASSUME x \in Ids PROVE LikeBoard(q, v, x)
  <2>1. LikeBoard(r, v, x)
    BY <1>2 DEF Like
  <2>2. x \in DOMAIN v.title <=> x \in DOMAIN q.title
    BY <1>2, <2>1 DEF RoomAt, LikeBoard
  <2>3. ASSUME x \in DOMAIN q.title
        PROVE  /\ v.title[x] = q.title[x]
               /\ x \in Scenes => LikeScene(q, v, x)
               /\ x \in Pens => LikePen(q, v, x)
    <3>0. x \in DOMAIN r.title
      BY <1>2, <2>3 DEF RoomAt
    <3>1. v.title[x] = q.title[x]
      BY <1>2, <2>1, <3>0 DEF RoomAt, LikeBoard
    <3>2. x \in Scenes => LikeScene(q, v, x)
      BY <2>1, <3>0 DEF RoomAt, LikeBoard, LikeScene
    <3>3. x \in Pens => LikePen(q, v, x)
      BY <2>1, <3>0 DEF RoomAt, LikeBoard, LikePen
    <3> QED
      BY <3>1, <3>2, <3>3
  <2> QED
    BY <2>2, <2>3 DEF LikeBoard
<1> QED
  BY <1>1, <1>2 DEF Like

\* A message does not change what it is not about.
LEMMA Elsewhere ==
    ASSUME NEW v \in View, NEW m \in Msg, NEW x \in Things \ About(m)
    PROVE  SameAt(v, Shows(v, m), x)
<1> DEFINE b == m.board
           w == Shows(v, m)
<1>1. ListShows(v, w, m) /\ w \in View /\ b \in Ids /\ x # b
  BY ShowsIs, MsgShapes DEF About
<1>p. m.kind \in PenKinds => w = v \/ \E d \in Drawing : OnlyPen(v, w, b, d)
  BY PenShowsOnly
<1> HIDE DEF w
<1>2. x = "focus" => w.focus = v.focus
  BY <1>1 DEF ListShows, About
<1>3. (x \in DOMAIN w.title <=> x \in DOMAIN v.title) /\ (x \in DOMAIN v.title => w.title[x] = v.title[x])
  <2>1. \/ w.title = Put(v.title, b, m.title) \/ w.title = v.title \/ w.title = Without(v.title, {b})
    BY <1>1 DEF ListShows, Retitle
  <2>2. CASE w.title = Put(v.title, b, m.title)
    BY <1>1, <2>2 DEF Put
  <2>3. CASE w.title = Without(v.title, {b})
    BY <1>1, <2>3 DEF Without, Restrict
  <2> QED
    BY <2>1, <2>2, <2>3
<1>4. x \in Scenes => w.scene[x] = v.scene[x]
  BY <1>1, ViewShape DEF ListShows
<1>5. ASSUME x \in Pens
      PROVE  /\ w.pen[x] = v.pen[x]
             /\ \A s \in Strokes : <<x, s>> \in w.fresh <=> <<x, s>> \in v.fresh
  <2>1. CASE m.kind \notin PenKinds
    BY <1>1, <2>1 DEF ListShows
  <2>2. CASE m.kind \in PenKinds /\ w # v
    <3>1. PICK d \in Drawing : OnlyPen(v, w, b, d)
      BY <1>p, <2>2
    <3>2. b \in Pens
      BY <2>2, MsgShapes DEF PenKinds
    <3>3. w.pen[x] = v.pen[x]
      BY <1>1, <1>5, <3>1, <3>2, OnlyPenIn
    <3>4. \A s \in Strokes : <<x, s>> \in w.fresh <=> <<x, s>> \in v.fresh
      BY <1>1, <1>5, <3>1, <3>2 DEF OnlyPen
    <3> QED
      BY <3>3, <3>4
  <2> QED
    BY <2>1, <2>2
<1>6. SameAt(v, w, x)
  BY <1>2, <1>3, <1>4, <1>5 DEF SameAt
<1> QED
  BY <1>6 DEF w

\* What a message makes of x in a view depends on x in that view only.
LEMMA PenTogether ==
    ASSUME NEW v \in View, NEW w \in View, NEW m \in Msg, m.kind \in PenKinds,
           SameAt(v, w, m.board)
    PROVE  SameAt(Shows(v, m), Shows(w, m), m.board)
<1> DEFINE x == m.board
           a == Shows(v, m)
           z == Shows(w, m)
           Pen(u, d) == u.pen[x] = d
<1>1. /\ ListShows(v, a, m) /\ ListShows(w, z, m) /\ x \in Pens /\ x \in Ids
      /\ PenShows(v, a, m) /\ PenShows(w, z, m)
      /\ w.pen[x] = v.pen[x] /\ v.pen[x] \in Drawing
      /\ \A s \in Strokes : <<x, s>> \in w.fresh <=> <<x, s>> \in v.fresh
  BY ShowsIs, PenShowsIs, MsgShapes, ViewShape DEF PenKinds, SameAt, Ids
<1>f. \A f, g : (f \subseteq Pens \X Strokes /\ g = {e \in f : e[1] # x}) => \A s : <<x, s>> \notin g
  OBVIOUS
<1>2. ASSUME m.kind = "cleared" PROVE a.fresh = {e \in v.fresh : e[1] # x} /\ z.fresh = {e \in w.fresh : e[1] # x}
  <2>1. a = [v EXCEPT !.pen[x] = Blank, !.fresh = {e \in @ : e[1] # x}]
    BY <1>2 DEF Shows, StoreApplies, Passes
  <2>2. z = [w EXCEPT !.pen[x] = Blank, !.fresh = {e \in @ : e[1] # x}]
    BY <1>2 DEF Shows, StoreApplies, Passes
  <2> HIDE DEF a, z
  <2>3. ASSUME NEW u \in View, NEW c, c = [u EXCEPT !.pen[x] = Blank, !.fresh = {e \in @ : e[1] # x}]
        PROVE  c.fresh = {e \in u.fresh : e[1] # x}
    <3>1. u = [title |-> u.title, focus |-> u.focus, scene |-> u.scene, pen |-> u.pen, fresh |-> u.fresh]
      BY ViewShape
    <3> QED
      BY <2>3, <3>1
  <2> QED
    BY <2>1, <2>2, <2>3
<1> HIDE DEF a, z
<1>3. /\ a.title = v.title /\ z.title = w.title /\ a.focus = v.focus /\ z.focus = w.focus
      /\ a.scene = v.scene /\ z.scene = w.scene
  BY <1>1 DEF ListShows, PenKinds
<1>o. \A d \in Drawing : /\ OnlyPen(v, a, x, d) => a.pen[x] = d
                         /\ OnlyPen(w, z, x, d) => z.pen[x] = d
  BY <1>1, OnlyPenIn
<1>d. /\ \A s \in Strokes : WithStroke(v.pen[x], s, "whole") \in Drawing
      /\ \A t \in Texts, c \in Contents : WithText(v.pen[x], t, c) \in Drawing
      /\ \A t : LessText(v.pen[x], t) \in Drawing
      /\ \A act : LessUndone(v.pen[x], act) \in Drawing
      /\ Blank \in Drawing
  BY <1>1, DrawingOps, UndoneDrawing, BlankDrawing
<1>4. /\ z.pen[x] = a.pen[x]
      /\ \A s \in Strokes : <<x, s>> \in z.fresh <=> <<x, s>> \in a.fresh
  <2>1. CASE m.kind = "begun"
    <3>1. OnlyPen(v, a, x, v.pen[x]) /\ OnlyPen(w, z, x, v.pen[x])
      BY <1>1, <2>1 DEF PenShows
    <3>2. \A s \in Strokes : /\ <<x, s>> \in a.fresh <=> s = m.stroke \/ <<x, s>> \in v.fresh
                             /\ <<x, s>> \in z.fresh <=> s = m.stroke \/ <<x, s>> \in w.fresh
      BY <1>1, <2>1 DEF PenShows
    <3> QED
      BY <1>1, <1>o, <3>1, <3>2
  <2>2. CASE m.kind = "ended" /\ <<x, m.stroke>> \in v.fresh
    <3>0. m.stroke \in Strokes /\ <<x, m.stroke>> \in w.fresh
      BY <1>1, <2>2, MsgShapes
    <3>1. /\ OnlyPen(v, a, x, WithStroke(v.pen[x], m.stroke, "whole"))
          /\ OnlyPen(w, z, x, WithStroke(v.pen[x], m.stroke, "whole"))
      BY <1>1, <2>2, <3>0 DEF PenShows
    <3>2. \A s \in Strokes : /\ <<x, s>> \in a.fresh <=> s # m.stroke /\ <<x, s>> \in v.fresh
                             /\ <<x, s>> \in z.fresh <=> s # m.stroke /\ <<x, s>> \in w.fresh
      BY <1>1, <2>2, <3>0 DEF PenShows
    <3> QED
      BY <1>1, <1>o, <1>d, <3>0, <3>1, <3>2
  <2>3. CASE m.kind = "ended" /\ <<x, m.stroke>> \notin v.fresh
    <3>0. m.stroke \in Strokes /\ <<x, m.stroke>> \notin w.fresh
      BY <1>1, <2>3, MsgShapes
    <3>1. a = v /\ z = w
      BY <1>1, <2>3, <3>0 DEF PenShows
    <3> QED
      BY <1>1, <3>1
  <2>4. CASE m.kind = "text"
    <3>1. /\ OnlyPen(v, a, x, WithText(v.pen[x], m.text, m.value)) /\ a.fresh = v.fresh
          /\ OnlyPen(w, z, x, WithText(v.pen[x], m.text, m.value)) /\ z.fresh = w.fresh
      BY <1>1, <2>4 DEF PenShows
    <3>2. m.text \in Texts /\ m.value \in Contents
      BY <2>4, MsgShapes
    <3> QED
      BY <1>1, <1>o, <1>d, <3>1, <3>2
  <2>5. CASE m.kind = "textGone"
    <3>1. /\ OnlyPen(v, a, x, LessText(v.pen[x], m.text)) /\ a.fresh = v.fresh
          /\ OnlyPen(w, z, x, LessText(v.pen[x], m.text)) /\ z.fresh = w.fresh
      BY <1>1, <2>5 DEF PenShows
    <3> QED
      BY <1>1, <1>o, <1>d, <3>1
  <2>6. CASE m.kind = "cleared"
    <3>1. OnlyPen(v, a, x, Blank) /\ OnlyPen(w, z, x, Blank)
      BY <1>1, <2>6 DEF PenShows
    <3>2. \A s : <<x, s>> \notin a.fresh /\ <<x, s>> \notin z.fresh
      BY <1>2, <2>6
    <3> QED
      BY <1>o, <1>d, <3>1, <3>2
  <2>7. CASE m.kind = "undone"
    <3>1. /\ OnlyPen(v, a, x, LessUndone(v.pen[x], m.act)) /\ a.fresh = v.fresh
          /\ OnlyPen(w, z, x, LessUndone(v.pen[x], m.act)) /\ z.fresh = w.fresh
      BY <1>1, <2>7 DEF PenShows
    <3> QED
      BY <1>1, <1>o, <1>d, <3>1
  <2> QED
    BY <2>1, <2>2, <2>3, <2>4, <2>5, <2>6, <2>7 DEF PenKinds
<1>5. SameAt(a, z, x)
  <2>1. SameAt(v, w, x) /\ x # "focus" /\ x \notin Scenes
    BY <1>1, BoardsAssumption DEF Ids
  <2>2. (x \in DOMAIN w.title <=> x \in DOMAIN v.title) /\ (x \in DOMAIN v.title => w.title[x] = v.title[x])
    BY <1>1, <2>1 DEF SameAt
  <2> QED
    BY <1>3, <1>4, <2>1, <2>2 DEF SameAt
<1> QED
  BY <1>5 DEF a, z

LEMMA ListTogether ==
    ASSUME NEW v \in View, NEW w \in View, NEW m \in Msg, m.kind \notin PenKinds,
           NEW x \in About(m), SameAt(v, w, x)
    PROVE  SameAt(Shows(v, m), Shows(w, m), x)
<1> DEFINE a == Shows(v, m)
           z == Shows(w, m)
           b == m.board
<1>1. /\ ListShows(v, a, m) /\ ListShows(w, z, m) /\ b \in Ids /\ b # "focus"
      /\ x = b \/ (x = "focus" /\ m.kind \in {"focused", "deleted"})
  BY ShowsIs, MsgShapes, BoardsAssumption DEF About
<1> HIDE DEF a, z
<1>2. x = "focus" => z.focus = a.focus
  BY <1>1 DEF ListShows, SameAt
<1>3. ASSUME x \in Ids
      PROVE  (x \in DOMAIN z.title <=> x \in DOMAIN a.title) /\ (x \in DOMAIN a.title => z.title[x] = a.title[x])
  <2>0. x = b /\ (x \in DOMAIN w.title <=> x \in DOMAIN v.title)
        /\ (x \in DOMAIN v.title => w.title[x] = v.title[x])
    BY <1>1, <1>3, BoardsAssumption DEF SameAt
  <2> QED
    <3>1. CASE m.kind = "created"
      <4>1. a.title = Put(v.title, b, m.title) /\ z.title = Put(w.title, b, m.title)
        BY <1>1, <3>1 DEF ListShows
      <4> QED
        BY <2>0, <4>1 DEF Put
    <3>2. CASE m.kind = "renamed"
      <4>1. a.title = Retitle(v.title, b, m.title) /\ z.title = Retitle(w.title, b, m.title)
        BY <1>1, <3>2 DEF ListShows
      <4> QED
        BY <2>0, <4>1 DEF Retitle, Put
    <3>3. CASE m.kind = "deleted"
      <4>1. a.title = Without(v.title, {b}) /\ z.title = Without(w.title, {b})
        BY <1>1, <3>3 DEF ListShows
      <4> QED
        BY <2>0, <4>1 DEF Without, Restrict
    <3>4. CASE m.kind \notin {"created", "renamed", "deleted"}
      BY <1>1, <2>0, <3>4 DEF ListShows
    <3> QED
      BY <3>1, <3>2, <3>3, <3>4
<1>4. ASSUME x \in Scenes PROVE z.scene[x] = a.scene[x]
  <2>0. x = b /\ (x \in DOMAIN w.title <=> x \in DOMAIN v.title) /\ w.scene[x] = v.scene[x]
    BY <1>1, <1>4, BoardsAssumption DEF SameAt, Ids
  <2> QED
    BY <1>1, <1>4, <2>0, ViewShape DEF ListShows
<1>5. ASSUME x \in Pens
      PROVE  /\ z.pen[x] = a.pen[x]
             /\ \A s \in Strokes : <<x, s>> \in z.fresh <=> <<x, s>> \in a.fresh
  BY <1>1, <1>5 DEF ListShows, SameAt
<1>6. SameAt(a, z, x)
  BY <1>2, <1>3, <1>4, <1>5 DEF SameAt
<1> QED
  BY <1>6 DEF a, z

LEMMA Together ==
    ASSUME NEW v \in View, NEW w \in View, NEW m \in Msg, NEW x \in About(m), SameAt(v, w, x)
    PROVE  SameAt(Shows(v, m), Shows(w, m), x)
<1>1. CASE m.kind \in PenKinds
  <2>1. x = m.board
    BY <1>1 DEF About, PenKinds
  <2> QED
    BY <1>1, <2>1, PenTogether
<1> QED
  BY <1>1, ListTogether

-----------------------------------------------------------------------------
On2(j, x) == j # Idle /\ x \in j.on

Telling(j, x) == On2(j, x) /\ j.step = "tell"

\* What a message says of a scene that has only one handler.
Tells(r, m, x) ==
    x \in Scenes => /\ m.kind = "scene" => m.version = r.scene[x]
                    /\ m.kind = "created" => r.scene[x] = 0

\* One handler at most is on x, and once it has spoken a view is like the room.
FineAt(r, v, jobs, x) ==
    /\ \A g, h \in Hosts : On2(jobs[g], x) /\ On2(jobs[h], x) => g = h
    /\ \A h \in Hosts : Telling(jobs[h], x) =>
          Like(r, Shows(v, jobs[h].msg), x) /\ Tells(r, jobs[h].msg, x)
    /\ (\A h \in Hosts : ~Telling(jobs[h], x)) => Like(r, v, x)

Addressed(j) ==
    /\ j.step = "checked" => j.on = {j.board, "focus"}
    /\ j.step = "tell" => j.on = About(j.msg)

ResetsOf(r) ==
    \A b \in Scenes, n \in Versions :
        <<b, n>> \in r.resets => n > 0 /\ (b \in DOMAIN r.title => n <= r.scene[b])

SInv ==
    /\ TInv
    /\ \A h \in Hosts : Addressed(job[h])
    /\ ResetsOf(Room)
    /\ \A x \in Things \ crossed : FineAt(Room, view, job, x)

LEMMA FineFacts ==
    ASSUME TInv
    PROVE  /\ view \in View /\ job \in [Hosts -> Job] /\ Room.drawing \subseteq Strokes
           /\ \A h \in Hosts : job[h].step = "tell" => job[h].msg \in Msg
           /\ \A h \in Hosts : job[h] = Idle <=> job[h].step = "idle"
  BY JobShapes DEF TInv, TypeOK, Room

\* Steps that change neither the room nor the view at x.
LEMMA FineKept ==
    ASSUME NEW r, NEW q, NEW v \in View, NEW w \in View, NEW x \in Things,
           r.drawing \subseteq Strokes, q.drawing \subseteq Strokes,
           NEW j \in [Hosts -> Job], NEW k \in [Hosts -> Job],
           SameAt(v, w, x), RoomAt(r, q, x), FineAt(r, v, j, x),
           \A h \in Hosts : j[h].step = "tell" => j[h].msg \in Msg /\ j[h].on = About(j[h].msg),
           \A h \in Hosts : /\ On2(k[h], x) => On2(j[h], x)
                            /\ Telling(k[h], x) <=> Telling(j[h], x)
                            /\ Telling(k[h], x) => k[h].msg = j[h].msg
    PROVE  FineAt(q, w, k, x)
<1>1. \A g, h \in Hosts : On2(k[g], x) /\ On2(k[h], x) => g = h
  BY DEF FineAt
<1>2. ASSUME NEW h \in Hosts, Telling(k[h], x)
      PROVE  Like(q, Shows(w, k[h].msg), x) /\ Tells(q, k[h].msg, x)
  <2> DEFINE m == j[h].msg
  <2>1. Telling(j[h], x) /\ k[h].msg = m /\ m \in Msg /\ x \in About(m)
    BY <1>2 DEF Telling, On2
  <2>2. Like(r, Shows(v, m), x) /\ Tells(r, m, x)
    BY <2>1 DEF FineAt
  <2> HIDE DEF m
  <2>3. SameAt(Shows(v, m), Shows(w, m), x)
    BY <2>1, Together
  <2>4. Like(r, Shows(w, m), x)
    BY <2>2, <2>3, LikeSame
  <2>5. Like(q, Shows(w, m), x)
    BY <2>4, LikeRoom
  <2>6. Tells(q, m, x)
    BY <2>2 DEF Tells, RoomAt
  <2> QED
    BY <2>1, <2>5, <2>6
<1>3. ASSUME \A h \in Hosts : ~Telling(k[h], x) PROVE Like(q, w, x)
  <2>1. Like(r, v, x)
    BY <1>3 DEF FineAt
  <2>2. Like(r, w, x)
    BY <2>1, LikeSame
  <2> QED
    BY <2>2, LikeRoom
<1> QED
  BY <1>1, <1>2, <1>3 DEF FineAt

LEMMA SameAtSelf == \A v, x : SameAt(v, v, x)
  BY DEF SameAt

\* A handler is the first on x.
LEMMA FineBegun ==
    ASSUME NEW r, NEW q, NEW v \in View, NEW x \in Things, NEW h \in Hosts,
           NEW j \in [Hosts -> Job], NEW k \in [Hosts -> Job],
           j[h] = Idle, \A g \in Hosts \ {h} : k[g] = j[g] /\ ~On2(j[g], x),
           FineAt(r, v, j, x),
           Like(r, v, x) => IF Telling(k[h], x)
                              THEN Like(q, Shows(v, k[h].msg), x) /\ Tells(q, k[h].msg, x)
                              ELSE Like(q, v, x)
    PROVE  FineAt(q, v, k, x)
<1>1. \A g \in Hosts : ~On2(j[g], x)
  BY DEF On2
<1>2. Like(r, v, x)
  BY <1>1 DEF FineAt, Telling
<1>3. \A g \in Hosts \ {h} : ~On2(k[g], x) /\ ~Telling(k[g], x)
  BY DEF Telling
<1> QED
  BY <1>2, <1>3 DEF FineAt

LEMMA BeginShown ==
    ASSUME SInv, TInv', NEW h \in Hosts, NEW next \in Job, next.step \in {"tell", "checked"},
           Begin(h, next), UNCHANGED <<view, resets>>, Addressed(next),
           ResetsOf(Room'),
           \A x \in Things \ next.on : RoomAt(Room, Room', x),
           \A x \in next.on : Like(Room, view, x) =>
               IF next.step = "tell" THEN Like(Room', Shows(view, next.msg), x) /\ Tells(Room', next.msg, x)
                                     ELSE Like(Room', view, x)
    PROVE  SInv'
<1>1. /\ job' \in [Hosts -> Job] /\ job'[h] = next
      /\ \A g \in Hosts \ {h} : job'[g] = job[g]
      /\ crossed' = crossed \cup Meets(h, next.on)
      /\ job[h] = Idle
  BY Begun DEF SInv
<1>2. /\ view \in View /\ job \in [Hosts -> Job] /\ Room.drawing \subseteq Strokes
      /\ \A g \in Hosts : job[g].step = "tell" => job[g].msg \in Msg /\ job[g].on = About(job[g].msg)
  BY FineFacts DEF SInv, Addressed
<1>d. Room'.drawing \subseteq Strokes /\ view' = view
  BY DEF Room, TInv, TypeOK
<1>3. \A g \in Hosts : Addressed(job'[g])
  BY <1>1 DEF SInv
<1>4. ASSUME NEW x \in Things \ crossed' PROVE FineAt(Room', view, job', x)
  <2>1. FineAt(Room, view, job, x)
    BY <1>1, <1>4 DEF SInv
  <2>2. CASE x \notin next.on
    <3>1. RoomAt(Room, Room', x)
      BY <2>2
    <3>2. \A g \in Hosts : /\ On2(job'[g], x) => On2(job[g], x)
                           /\ Telling(job'[g], x) <=> Telling(job[g], x)
                           /\ Telling(job'[g], x) => job'[g].msg = job[g].msg
      BY <1>1, <2>2 DEF On2, Telling
    <3> QED
      BY <1>1, <1>2, <1>d, <2>1, <3>1, <3>2, SameAtSelf, FineKept
  <2>3. CASE x \in next.on
    <3>1. \A g \in Hosts \ {h} : job'[g] = job[g] /\ ~On2(job[g], x)
      BY <1>1, <1>4, <2>3 DEF Meets, On, On2
    <3>2. Telling(job'[h], x) <=> next.step = "tell"
      BY <1>1, <2>3, JobShapes DEF Telling, On2
    <3>3. Like(Room, view, x) =>
              IF Telling(job'[h], x)
                THEN Like(Room', Shows(view, job'[h].msg), x) /\ Tells(Room', job'[h].msg, x)
                ELSE Like(Room', view, x)
      BY <1>1, <2>3, <3>2
    <3> QED
      BY <1>1, <1>2, <2>1, <3>1, <3>3, FineBegun
  <2> QED
    BY <2>2, <2>3
<1> QED
  BY <1>3, <1>4, <1>d DEF SInv

-----------------------------------------------------------------------------
LEMMA TellShown ==
    ASSUME SInv, TInv', NEW h \in Hosts, NEW xs, NEW m \in Msg, NEW op,
           Begin(h, Tell(xs, m, op)), Unsaved, xs = About(m),
           ResetsOf(Room'),
           \A x \in Things \ xs : RoomAt(Room, Room', x),
           \A x \in xs : Like(Room, view, x) =>
               Like(Room', Shows(view, m), x) /\ Tells(Room', m, x)
    PROVE  SInv'
<1> DEFINE next == Tell(xs, m, op)
<1>1. next.step = "tell" /\ next.on = xs /\ next.msg = m
  BY DEF Tell
<1>2. next \in Job
  BY DEF Begin, SInv, TInv, TypeOK
<1>3. UNCHANGED <<view, resets>>
  BY DEF Unsaved
<1> HIDE DEF next
<1>4. Addressed(next) /\ Begin(h, next)
  BY <1>1 DEF Addressed, next
<1> QED
  BY <1>1, <1>2, <1>3, <1>4, BeginShown

LEMMA ResetsFacts ==
    ASSUME SInv
    PROVE  /\ \A b \in Scenes, n \in Versions : <<b, n>> \in resets =>
                 b \in used /\ n > 0 /\ (b \in DOMAIN title => n <= scene[b])
           /\ \A b \in Scenes : scene[b] \in Nat /\ marked[b] \in Nat
<1>1. \A b \in Scenes, n \in Versions : <<b, n>> \in resets => b \in used
  <2>1. \A r \in resets : r[1] \in used
    BY DEF SInv, TInv, InUse
  <2> QED
    BY <2>1
<1>2. \A b \in Scenes : scene[b] \in Nat /\ marked[b] \in Nat
  BY BoardsAssumption DEF SInv, TInv, TypeOK, Versions
<1>3. \A b \in Scenes, n \in Versions : <<b, n>> \in resets => n > 0 /\ (b \in DOMAIN title => n <= scene[b])
  BY DEF SInv, ResetsOf, Room
<1> QED
  BY <1>1, <1>2, <1>3

LEMMA CreateShown ==
    ASSUME SInv, TInv', NEW h \in Hosts, NEW b \in Ids, CreateBoard(h, b)
    PROVE  SInv'
<1> DEFINE m  == [kind |-> "created", board |-> b, title |-> Untitled]
           op == [kind |-> "upsert", board |-> b, title |-> Untitled]
           w == Shows(view, m)
<1>1. /\ title' = Put(title, b, Untitled) /\ b \notin used
      /\ UNCHANGED <<focus, scene, marked, pen, drawing>> /\ Unsaved /\ resets' = resets
      /\ Begin(h, Tell({b}, m, op))
  BY DEF CreateBoard, Unsaved
<1>2. m \in Msg /\ {b} = About(m) /\ m.board = b /\ m.kind = "created" /\ m.title = Untitled
  BY BoardsAssumption DEF Msg, ListMsg, About
<1>3. /\ b \notin DOMAIN title /\ view \in View /\ drawing \subseteq Strokes
      /\ b \in Scenes => scene[b] = 0 /\ view.scene[b] = 0
      /\ b \in Pens => pen[b] = NoPen /\ view.pen[b] = Blank
  BY <1>1 DEF SInv, TInv, TypeOK, InUse, Unseen
<1> HIDE DEF m, op
<1>4. ListShows(view, w, m)
  BY <1>2, <1>3, ShowsIs
<1> HIDE DEF w
<1>5. /\ w.title = Put(view.title, b, Untitled) /\ w.scene = view.scene /\ w.pen = view.pen
  BY <1>2, <1>4 DEF ListShows, PenKinds
<1>6. ASSUME NEW x \in Things \ {b} PROVE RoomAt(Room, Room', x)
  BY <1>1 DEF RoomAt, Room, Put
<1>7. Like(Room', w, b) /\ Tells(Room', m, b)
  <2>1. b \in DOMAIN w.title /\ b \in DOMAIN title' /\ w.title[b] = Untitled /\ title'[b] = Untitled
    BY <1>1, <1>5 DEF Put
  <2>2. b \in Scenes => LikeScene(Room', w, b)
    BY <1>1, <1>3, <1>5 DEF LikeScene, Room
  <2>3. ASSUME b \in Pens PROVE LikePen(Room', w, b)
    <3>1. pen'[b] = [now |-> Blank, log |-> <<>>] /\ w.pen[b] = Blank
      BY <1>1, <1>3, <1>5, <2>3 DEF NoPen
    <3>2. Blank = [strokes |-> NoMap, texts |-> NoMap] /\ DOMAIN NoMap = {}
      BY DEF Blank, NoMap
    <3>3. \A s : ~CanEnd(pen'[b], s)
      BY <3>1, <3>2 DEF CanEnd
    <3> QED
      BY <3>1, <3>2, <3>3 DEF LikePen, Room
  <2>4. LikeBoard(Room', w, b)
    BY <2>1, <2>2, <2>3 DEF LikeBoard, Room
  <2>5. b # "focus"
    BY BoardsAssumption
  <2>6. Tells(Room', m, b)
    BY <1>1, <1>2, <1>3 DEF Tells, Room
  <2> QED
    BY <2>4, <2>5, <2>6 DEF Like
<1>8. ResetsOf(Room')
  BY <1>1, ResetsFacts DEF ResetsOf, Room, Put
<1> QED
  BY <1>1, <1>2, <1>6, <1>7, <1>8, TellShown DEF w

LEMMA RenameShown ==
    ASSUME SInv, TInv', NEW h \in Hosts, NEW b \in Ids, NEW n \in Titles, RenameBoard(h, b, n)
    PROVE  SInv'
<1> DEFINE m  == [kind |-> "renamed", board |-> b, title |-> n]
           op == [kind |-> "rename", board |-> b, title |-> n]
           w == Shows(view, m)
<1>1. /\ title' = Put(title, b, n) /\ b \in DOMAIN title
      /\ UNCHANGED <<focus, scene, marked, pen, drawing>> /\ Unsaved /\ resets' = resets
      /\ Begin(h, Tell({b}, m, op))
  BY DEF RenameBoard, Unsaved, idVars, Exists
<1>2. m \in Msg /\ {b} = About(m) /\ m.board = b /\ m.kind = "renamed" /\ m.title = n
  BY DEF Msg, ListMsg, About
<1>3. view \in View
  BY DEF SInv, TInv, TypeOK
<1> HIDE DEF m, op
<1>4. ListShows(view, w, m)
  BY <1>2, <1>3, ShowsIs
<1> HIDE DEF w
<1>5. /\ w.title = Retitle(view.title, b, n) /\ w.scene = view.scene /\ w.pen = view.pen
      /\ w.fresh = view.fresh
  BY <1>2, <1>4 DEF ListShows, PenKinds
<1>6. ASSUME NEW x \in Things \ {b} PROVE RoomAt(Room, Room', x)
  BY <1>1 DEF RoomAt, Room, Put
<1>7. ASSUME Like(Room, view, b) PROVE Like(Room', w, b) /\ Tells(Room', m, b)
  <2>0. LikeBoard(Room, view, b) /\ b \in DOMAIN view.title
    BY <1>1, <1>7 DEF Like, LikeBoard, Room
  <2>1. b \in DOMAIN w.title /\ b \in DOMAIN title' /\ w.title[b] = n /\ title'[b] = n
    BY <1>1, <1>5, <2>0 DEF Put, Retitle
  <2>2. b \in Scenes => LikeScene(Room', w, b)
    BY <1>1, <1>5, <2>0 DEF LikeScene, Room, LikeBoard
  <2>3. b \in Pens => LikePen(Room', w, b)
    BY <1>1, <1>5, <2>0 DEF LikePen, Room, LikeBoard
  <2>4. LikeBoard(Room', w, b)
    BY <2>1, <2>2, <2>3 DEF LikeBoard, Room
  <2>5. b # "focus"
    BY BoardsAssumption
  <2>6. Tells(Room', m, b)
    BY <1>2 DEF Tells
  <2> QED
    BY <2>4, <2>5, <2>6 DEF Like
<1>8. ResetsOf(Room')
  BY <1>1, ResetsFacts DEF ResetsOf, Room, Put
<1> QED
  BY <1>1, <1>2, <1>6, <1>7, <1>8, TellShown DEF w

LEMMA DeleteShown ==
    ASSUME SInv, TInv', NEW h \in Hosts, NEW b \in Ids, DeleteBoard(h, b)
    PROVE  SInv'
<1> DEFINE m  == [kind |-> "deleted", board |-> b]
           op == [kind |-> "delete", board |-> b]
           w == Shows(view, m)
<1>1. /\ title' = Without(title, {b}) /\ b \in DOMAIN title
      /\ focus' = IF focus = b THEN NoBoard ELSE focus
      /\ scene' = [c \in Scenes |-> IF c = b THEN 0 ELSE scene[c]]
      /\ pen' = [c \in Pens |-> IF c = b THEN NoPen ELSE pen[c]]
      /\ UNCHANGED <<marked, drawing>> /\ Unsaved /\ resets' = resets
      /\ Begin(h, Tell({b, "focus"}, m, op))
  BY DEF DeleteBoard, Unsaved, idVars, Exists, FocusWithout, ScenesWithout
<1>2. m \in Msg /\ {b, "focus"} = About(m) /\ m.board = b /\ m.kind = "deleted"
  BY DEF Msg, ListMsg, About
<1>3. view \in View
  BY DEF SInv, TInv, TypeOK
<1> HIDE DEF m, op
<1>4. ListShows(view, w, m)
  BY <1>2, <1>3, ShowsIs
<1> HIDE DEF w
<1>5. /\ w.title = Without(view.title, {b})
      /\ w.focus = IF view.focus = b THEN NoBoard ELSE view.focus
  BY <1>2, <1>4 DEF ListShows, PenKinds
<1>6. ASSUME NEW x \in Things \ {b, "focus"} PROVE RoomAt(Room, Room', x)
  <2>1. x \in Pens => pen'[x] = pen[x]
    BY <1>1
  <2>2. x \in Scenes => scene'[x] = scene[x]
    BY <1>1
  <2> HIDE DEF Exists
  <2> QED
    BY <1>1, <2>1, <2>2 DEF RoomAt, Room, Without, Restrict
<1>7. Like(Room', w, b) /\ Tells(Room', m, b)
  <2>1. b \notin DOMAIN w.title /\ b \notin DOMAIN title'
    BY <1>1, <1>5 DEF Without, Restrict
  <2>4. LikeBoard(Room', w, b)
    BY <2>1 DEF LikeBoard, Room
  <2>5. b # "focus"
    BY BoardsAssumption
  <2>6. Tells(Room', m, b)
    BY <1>2 DEF Tells
  <2> QED
    BY <2>4, <2>5, <2>6 DEF Like
<1>9. ASSUME Like(Room, view, "focus") PROVE Like(Room', w, "focus") /\ Tells(Room', m, "focus")
  BY <1>1, <1>2, <1>5, <1>9, BoardsAssumption DEF Like, Tells, Room, Things
<1>8. ResetsOf(Room')
  <2>1. DOMAIN title' = DOMAIN title \ {b}
    BY <1>1 DEF Without, Restrict
  <2>2. \A c \in Scenes \ {b} : scene'[c] = scene[c]
    BY <1>1
  <2> QED
    BY <1>1, <2>1, <2>2, ResetsFacts DEF ResetsOf, Room
<1> QED
  BY <1>1, <1>2, <1>6, <1>7, <1>8, <1>9, TellShown DEF w

LEMMA SceneShown ==
    ASSUME SInv, TInv', NEW h \in Hosts, NEW b \in Scenes, NEW v \in Versions, UpdateScene(h, b, v)
    PROVE  SInv'
<1> DEFINE m  == [kind |-> "scene", board |-> b, version |-> v]
           op == [kind |-> "scene", board |-> b, version |-> v]
           w == Shows(view, m)
<1>1. /\ scene' = [scene EXCEPT ![b] = v] /\ v > scene[b] /\ b \in DOMAIN title
      /\ UNCHANGED <<title, focus, marked, pen, drawing>> /\ Unsaved /\ resets' = resets
      /\ Begin(h, Tell({b}, m, op))
  BY DEF UpdateScene, Unsaved, idVars, Exists, Newer
<1>2. m \in Msg /\ {b} = About(m) /\ m.board = b /\ m.kind = "scene" /\ m.version = v
  BY DEF Msg, ListMsg, About
<1>3. view \in View /\ view.scene \in [Scenes -> Versions] /\ scene \in [Scenes -> Versions]
  BY ViewShape DEF SInv, TInv, TypeOK
<1> HIDE DEF m, op
<1>4. ListShows(view, w, m)
  BY <1>2, <1>3, ShowsIs
<1> HIDE DEF w
<1>5. /\ w.title = view.title
      /\ w.scene = IF b \in DOMAIN view.title THEN [view.scene EXCEPT ![b] = v] ELSE view.scene
  BY <1>2, <1>4 DEF ListShows, PenKinds
<1>s. scene'[b] = v /\ \A c \in Scenes \ {b} : scene'[c] = scene[c]
  BY <1>1, <1>3
<1>6. ASSUME NEW x \in Things \ {b} PROVE RoomAt(Room, Room', x)
  BY <1>1, <1>s DEF RoomAt, Room
<1>7. ASSUME Like(Room, view, b) PROVE Like(Room', w, b) /\ Tells(Room', m, b)
  <2>0. b \in Ids /\ b \notin Pens /\ b # "focus"
    BY BoardsAssumption DEF Ids
  <2>1. LikeBoard(Room, view, b) /\ b \in DOMAIN view.title
    BY <1>1, <1>7, <2>0 DEF Like, LikeBoard, Room
  <2>2. LikeScene(Room', w, b)
    BY <1>3, <1>5, <1>s, <2>1 DEF LikeScene, Room
  <2>4. LikeBoard(Room', w, b)
    BY <1>1, <1>5, <2>0, <2>1, <2>2 DEF LikeBoard, Room
  <2>6. Tells(Room', m, b)
    BY <1>2, <1>s DEF Tells, Room
  <2> QED
    BY <2>0, <2>4, <2>6 DEF Like
<1>8. ResetsOf(Room')
  <2>1. v \in Nat
    BY BoardsAssumption DEF Versions
  <2>2. \A n \in Versions : n \in Nat
    BY BoardsAssumption DEF Versions
  <2> QED
    BY <1>1, <1>s, <2>1, <2>2, ResetsFacts DEF ResetsOf, Room
<1> QED
  BY <1>1, <1>2, <1>6, <1>7, <1>8, TellShown DEF w

LEMMA CheckShown ==
    ASSUME SInv, TInv', NEW h \in Hosts, NEW b \in Ids, CheckFocus(h, b)
    PROVE  SInv'
<1> DEFINE next == [step |-> "checked", on |-> {b, "focus"}, board |-> b]
<1>1. /\ Begin(h, next) /\ UNCHANGED <<title, focus, scene, marked, pen, drawing>>
      /\ UNCHANGED <<view, resets>>
  BY DEF CheckFocus, roomVars, idVars, Unsaved
<1>2. next \in Job /\ next.step = "checked" /\ Addressed(next)
  BY DEF Job, Things, Addressed
<1> HIDE DEF next
<1>3. Room' = Room
  BY <1>1 DEF Room
<1>4. \A x : RoomAt(Room, Room', x)
  BY <1>3 DEF RoomAt
<1>5. ResetsOf(Room')
  BY <1>3 DEF SInv
<1> QED
  BY <1>1, <1>2, <1>3, <1>4, <1>5, BeginShown

-----------------------------------------------------------------------------
\* LikePen of the values it speaks of.
PenLike(p, dr, b, e, fresh) ==
    /\ e.texts = p.now.texts
    /\ DOMAIN e.strokes \subseteq DOMAIN p.now.strokes
    /\ \A s \in DOMAIN p.now.strokes : p.now.strokes[s] = "whole" => s \in DOMAIN e.strokes
    /\ \A s \in dr : CanEnd(p, s) => <<b, s>> \in fresh

LEMMA PenStepShown ==
    ASSUME SInv, TInv', NEW h \in Hosts, NEW b \in Pens, NEW state, NEW m \in Msg, NEW op,
           m.kind \in PenKinds, m.board = b, PenStep(h, b, state, m, op), b \in DOMAIN title,
           \A c \in Pens \ {b} : \A s \in drawing' : CanEnd(pen[c], s) => s \in drawing,
           PenLike(pen[b], drawing, b, view.pen[b], view.fresh) =>
               PenLike(state, drawing', b, Shows(view, m).pen[b], Shows(view, m).fresh)
    PROVE  SInv'
<1> DEFINE w == Shows(view, m)
<1>1. /\ pen' = [pen EXCEPT ![b] = state] /\ Begin(h, Tell({b}, m, op))
      /\ UNCHANGED <<title, focus, scene, marked>> /\ Unsaved /\ resets' = resets
  BY DEF PenStep, listVars, Unsaved
<1>2. About(m) = {b} /\ b \in Ids /\ b \notin Scenes /\ b # "focus"
  BY BoardsAssumption DEF About, PenKinds, Ids
<1>3. view \in View /\ pen'[b] = state /\ \A c \in Pens \ {b} : pen'[c] = pen[c]
  BY <1>1 DEF SInv, TInv, TypeOK
<1>4. ListShows(view, w, m)
  BY <1>3, ShowsIs
<1>g. PenLike(pen[b], drawing, b, view.pen[b], view.fresh) => PenLike(state, drawing', b, w.pen[b], w.fresh)
  OBVIOUS
<1> HIDE DEF w
<1>5. w.title = view.title
  BY <1>4 DEF ListShows, PenKinds
<1>6. ASSUME NEW x \in Things \ {b} PROVE RoomAt(Room, Room', x)
  BY <1>1, <1>3 DEF RoomAt, Room
<1>7. ASSUME Like(Room, view, b) PROVE Like(Room', w, b) /\ Tells(Room', m, b)
  <2>1. LikeBoard(Room, view, b)
    BY <1>2, <1>7 DEF Like
  <2>2. LikePen(Room, view, b)
    BY <2>1 DEF LikeBoard, Room
  <2>3. PenLike(pen[b], drawing, b, view.pen[b], view.fresh)
    BY <2>2 DEF LikePen, Room, PenLike
  <2>4. PenLike(pen'[b], drawing', b, w.pen[b], w.fresh)
    BY <1>3, <1>g, <2>3
  <2>5. LikePen(Room', w, b)
    BY <2>4 DEF LikePen, Room, PenLike
  <2>6. LikeBoard(Room', w, b)
    BY <1>1, <1>2, <1>5, <2>1, <2>5 DEF LikeBoard, Room
  <2> QED
    BY <1>2, <2>6 DEF Like, Tells
<1>8. ResetsOf(Room')
  BY <1>1 DEF SInv, ResetsOf, Room
<1> QED
  BY <1>1, <1>2, <1>6, <1>7, <1>8, TellShown DEF w

\* No action of a stroke that was not given out is in a log.
LEMMA NotBegun ==
    ASSUME TInv, NEW c \in Pens, NEW s, s \notin used
    PROVE  ~CanEnd(pen[c], s)
<1>1. pen[c].log \in Seq(ActsOf(used))
  BY PenIs
<1>2. \A i \in DOMAIN pen[c].log : pen[c].log[i] \in ActsOf(used)
  BY <1>1
<1> QED
  BY <1>2 DEF CanEnd, BeganBy, ActsOf

LEMMA PenBeginShown ==
    ASSUME SInv, TInv', NEW h \in Hosts, NEW b \in Pens, NEW s \in Strokes, PenBegin(h, b, s)
    PROVE  SInv'
<1> DEFINE p == pen[b]
           state == Did(p, WithStroke(p.now, s, "part"), Stroke(NextId, s))
           m == [kind |-> "begun", board |-> b, stroke |-> s]
           w == Shows(view, m)
<1>1. /\ b \in DOMAIN title /\ s \notin used /\ drawing' = drawing \cup {s}
      /\ PenStep(h, b, state, m, NoOp)
  BY DEF PenBegin, Exists
<1>2. m \in Msg /\ m.kind = "begun" /\ m.board = b /\ m.stroke = s
  BY DEF Msg, PenMsg
<1>3. \A c \in Pens : ~CanEnd(pen[c], s)
  BY <1>1, NotBegun DEF SInv
<1>v. view \in View /\ view.pen[b] \in Drawing /\ p.log \in Seq(Action(ActionIds)) /\ TInv
  BY PenIs, ViewShape DEF SInv, TInv, TypeOK
<1> HIDE DEF m
<1>4. PenShows(view, w, m)
  BY <1>2, <1>v, PenShowsIs DEF PenKinds
<1> HIDE DEF w
<1>5. /\ w.pen[b] = view.pen[b]
      /\ \A z \in Strokes : <<b, z>> \in w.fresh <=> z = s \/ <<b, z>> \in view.fresh
  <2>1. OnlyPen(view, w, b, view.pen[b])
    BY <1>2, <1>4 DEF PenShows
  <2> QED
    BY <1>2, <1>4, <1>v, <2>1, OnlyPenIn DEF PenShows
<1>6. ASSUME PenLike(p, drawing, b, view.pen[b], view.fresh)
      PROVE  PenLike(state, drawing', b, w.pen[b], w.fresh)
  <2>1. /\ state.now.texts = p.now.texts /\ state.now.strokes = Put(p.now.strokes, s, "part")
        /\ state.log = Append(p.log, Stroke(NextId, s))
    <3>1. p.now = [strokes |-> p.now.strokes, texts |-> p.now.texts]
      BY <1>v, PenIs DEF Drawing
    <3> QED
      BY <3>1 DEF Did, WithStroke
  <2>2. ASSUME NEW z \in drawing', CanEnd(state, z) PROVE <<b, z>> \in w.fresh
    <3>0. z \in Strokes
      BY <1>1 DEF SInv, TInv, TypeOK
    <3>1. CASE z = s
      BY <1>5, <3>0, <3>1
    <3>2. CASE z # s
      <4>1. z \in drawing /\ z \in DOMAIN p.now.strokes
        BY <1>1, <2>1, <2>2, <3>2 DEF CanEnd, Put
      <4>2. PICK i \in DOMAIN state.log : state.log[i].kind = "stroke" /\ state.log[i].target = z
        BY <2>2 DEF CanEnd, BeganBy
      <4>3. i \in DOMAIN p.log /\ p.log[i] = state.log[i]
        BY <1>v, <2>1, <3>2, <4>2 DEF Stroke
      <4>4. CanEnd(p, z)
        BY <4>1, <4>2, <4>3 DEF CanEnd, BeganBy
      <4> QED
        BY <1>5, <1>6, <3>0, <4>1, <4>4 DEF PenLike
    <3> QED
      BY <3>1, <3>2
  <2> HIDE DEF state, p
  <2> QED
    BY <1>5, <1>6, <2>1, <2>2 DEF PenLike, Put
<1>7. \A c \in Pens \ {b} : \A z \in drawing' : CanEnd(pen[c], z) => z \in drawing
  BY <1>1, <1>3
<1> HIDE DEF state
<1> QED
  BY <1>1, <1>2, <1>6, <1>7, PenStepShown DEF w, p, PenKinds

LEMMA PenEndShown ==
    ASSUME SInv, TInv', NEW h \in Hosts, NEW b \in Pens, NEW s \in Strokes, PenEnd(h, b, s)
    PROVE  SInv'
<1> DEFINE p == pen[b]
           state == [p EXCEPT !.now = WithStroke(@, s, "whole")]
           m == [kind |-> "ended", board |-> b, stroke |-> s]
           op == Act(b, p.log[CHOOSE i \in BeganBy(p, s) : TRUE], Blank)
           w == Shows(view, m)
<1>1. /\ s \in drawing /\ CanEnd(p, s) /\ drawing' = drawing \ {s}
      /\ PenStep(h, b, state, m, op)
  BY DEF PenEnd
<1>2. m \in Msg /\ m.kind = "ended" /\ m.board = b /\ m.stroke = s
  BY DEF Msg, PenMsg
<1>v. view \in View /\ view.pen[b] \in Drawing /\ TInv /\ drawing \subseteq Strokes
  BY ViewShape DEF SInv, TInv, TypeOK
<1>b. b \in DOMAIN title
  <2>1. p # NoPen
    BY <1>1 DEF CanEnd, NoPen, Blank, NoMap
  <2> QED
    BY <1>v, <2>1, PenThere
<1> HIDE DEF m, op
<1>4. PenShows(view, w, m)
  BY <1>2, <1>v, PenShowsIs DEF PenKinds
<1> HIDE DEF w
<1>6. ASSUME PenLike(p, drawing, b, view.pen[b], view.fresh)
      PROVE  PenLike(state, drawing', b, w.pen[b], w.fresh)
  <2>1. <<b, s>> \in view.fresh
    BY <1>1, <1>6 DEF PenLike
  <2> DEFINE d == WithStroke(view.pen[b], s, "whole")
  <2>2. /\ OnlyPen(view, w, b, d)
        /\ \A z \in Strokes : <<b, z>> \in w.fresh <=> z # s /\ <<b, z>> \in view.fresh
    BY <1>2, <1>4, <2>1 DEF PenShows
  <2>3. d \in Drawing /\ d.texts = view.pen[b].texts /\ d.strokes = Put(view.pen[b].strokes, s, "whole")
    BY <1>v, DrawingOps DEF WithStroke, Drawing
  <2> HIDE DEF d
  <2>4. w.pen[b] = d
    BY <1>v, <2>2, <2>3, OnlyPenIn
  <2>5. /\ state.now.texts = p.now.texts /\ state.now.strokes = Put(p.now.strokes, s, "whole")
        /\ state.log = p.log
    <3>1. p.now = [strokes |-> p.now.strokes, texts |-> p.now.texts] /\ p = [now |-> p.now, log |-> p.log]
      BY <1>v, PenIs DEF Drawing
    <3> QED
      BY <3>1 DEF WithStroke
  <2> HIDE DEF state, p
  <2>6. ASSUME NEW z \in drawing', CanEnd(state, z) PROVE <<b, z>> \in w.fresh
    <3>1. z # s /\ z \in drawing /\ z \in Strokes
      BY <1>1, <1>v
    <3>2. CanEnd(p, z)
      BY <2>5, <2>6, <3>1 DEF CanEnd, BeganBy, Put
    <3> QED
      BY <1>6, <2>2, <3>1, <3>2 DEF PenLike
  <2>7. \A z : z \in DOMAIN Put(view.pen[b].strokes, s, "whole") <=> z \in DOMAIN view.pen[b].strokes \/ z = s
    BY DEF Put
  <2>8. \A z : z \in DOMAIN Put(p.now.strokes, s, "whole") <=> z \in DOMAIN p.now.strokes \/ z = s
    BY DEF Put
  <2>9. \A z \in DOMAIN p.now.strokes : z # s => Put(p.now.strokes, s, "whole")[z] = p.now.strokes[z]
    BY DEF Put
  <2> QED
    BY <1>6, <2>3, <2>4, <2>5, <2>6, <2>7, <2>8, <2>9 DEF PenLike
<1>7. \A c \in Pens \ {b} : \A z \in drawing' : CanEnd(pen[c], z) => z \in drawing
  BY <1>1
<1> HIDE DEF state
<1> QED
  BY <1>1, <1>2, <1>6, <1>7, <1>b, PenStepShown DEF w, p, PenKinds

\* The handlers that leave the strokes under way alone, or take them away.
LEMMA OtherPenShown ==
    ASSUME SInv, TInv', NEW h \in Hosts, NEW b \in Pens, NEW state, NEW m \in Msg, NEW op,
           m.kind \in {"text", "textGone", "cleared", "undone"}, m.board = b,
           PenStep(h, b, state, m, op), b \in DOMAIN title, drawing' = drawing,
           NEW d \in Drawing, OnlyPen(view, Shows(view, m), b, d),
           m.kind = "cleared" \/ Shows(view, m).fresh = view.fresh,
           PenLike(pen[b], drawing, b, view.pen[b], view.fresh) =>
               /\ d.texts = state.now.texts
               /\ DOMAIN d.strokes \subseteq DOMAIN state.now.strokes
               /\ \A s \in DOMAIN state.now.strokes :
                     state.now.strokes[s] = "whole" => s \in DOMAIN d.strokes,
           \A s : CanEnd(state, s) => CanEnd(pen[b], s) /\ m.kind # "cleared"
    PROVE  SInv'
<1> DEFINE w == Shows(view, m)
<1>1. w.pen[b] = d
  BY OnlyPenIn DEF SInv, TInv, TypeOK
<1>2. m.kind = "cleared" \/ w.fresh = view.fresh
  OBVIOUS
<1> HIDE DEF w
<1>3. PenLike(pen[b], drawing, b, view.pen[b], view.fresh) => PenLike(state, drawing', b, w.pen[b], w.fresh)
  BY <1>1, <1>2 DEF PenLike
<1> QED
  BY <1>3, PenStepShown DEF w, PenKinds

LEMMA TextSetShown ==
    ASSUME SInv, TInv', NEW h \in Hosts, NEW b \in Pens, NEW t \in Texts, NEW v \in Contents,
           PenTextSet(h, b, t, v)
    PROVE  SInv'
<1> DEFINE p == pen[b]
           prior == [Blank EXCEPT !.texts = Restrict(p.now.texts, {t} \cap DOMAIN p.now.texts)]
           act == Set(NextId, t)
           state == Did(p, WithText(p.now, t, v), act)
           m == [kind |-> "text", board |-> b, text |-> t, value |-> v]
           op == [kind |-> "text", board |-> b, value |-> v, row |-> [act |-> act, before |-> prior]]
           d == WithText(view.pen[b], t, v)
<1>1. b \in DOMAIN title /\ drawing' = drawing /\ PenStep(h, b, state, m, op)
  BY DEF PenTextSet, Exists, idVars
<1>2. m \in Msg /\ m.kind = "text" /\ m.board = b /\ m.text = t /\ m.value = v
  BY DEF Msg, PenMsg
<1>v. view \in View /\ view.pen[b] \in Drawing /\ p.log \in Seq(Action(ActionIds)) /\ TInv
      /\ p.now \in Drawing
  BY PenIs, ViewShape DEF SInv, TInv, TypeOK
<1>d. d \in Drawing /\ d.texts = Put(view.pen[b].texts, t, v) /\ d.strokes = view.pen[b].strokes
  BY <1>v, DrawingOps DEF WithText, Drawing
<1>s. /\ state.now.texts = Put(p.now.texts, t, v) /\ state.now.strokes = p.now.strokes
      /\ state.log = Append(p.log, act)
  <2>1. p.now = [strokes |-> p.now.strokes, texts |-> p.now.texts]
    BY <1>v DEF Drawing
  <2> QED
    BY <2>1 DEF Did, WithText
<1>a. act.kind = "set"
  BY DEF Set
<1> HIDE DEF m, op, state, act
<1>3. OnlyPen(view, Shows(view, m), b, d) /\ Shows(view, m).fresh = view.fresh
  <2>1. PenShows(view, Shows(view, m), m)
    BY <1>2, <1>v, PenShowsIs DEF PenKinds
  <2> QED
    BY <1>2, <2>1 DEF PenShows
<1> HIDE DEF d
<1>4. \A s : CanEnd(state, s) => CanEnd(p, s)
  <2>1. \A i \in DOMAIN state.log : state.log[i].kind = "stroke" =>
            i \in DOMAIN p.log /\ p.log[i] = state.log[i]
    BY <1>a, <1>s, <1>v
  <2> HIDE DEF p
  <2> QED
    BY <1>s, <2>1 DEF CanEnd, BeganBy
<1>5. PenLike(p, drawing, b, view.pen[b], view.fresh) =>
          /\ d.texts = state.now.texts
          /\ DOMAIN d.strokes \subseteq DOMAIN state.now.strokes
          /\ \A s \in DOMAIN state.now.strokes :
                state.now.strokes[s] = "whole" => s \in DOMAIN d.strokes
  BY <1>d, <1>s DEF PenLike
<1>6. Shows(view, m).pen[b] = d
  BY <1>3, <1>d, <1>v, OnlyPenIn
<1> DEFINE w == Shows(view, m)
<1>7. w.pen[b] = d /\ w.fresh = view.fresh
  BY <1>3, <1>6
<1> HIDE DEF w, p
<1>8. PenLike(p, drawing, b, view.pen[b], view.fresh) => PenLike(state, drawing', b, w.pen[b], w.fresh)
  BY <1>1, <1>4, <1>5, <1>7 DEF PenLike
<1>9. \A c \in Pens \ {b} : \A s \in drawing' : CanEnd(pen[c], s) => s \in drawing
  BY <1>1
<1> QED
  BY <1>1, <1>2, <1>8, <1>9, PenStepShown DEF p, w, PenKinds

LEMMA TextDeleteShown ==
    ASSUME SInv, TInv', NEW h \in Hosts, NEW b \in Pens, NEW t \in Texts, PenTextDelete(h, b, t)
    PROVE  SInv'
<1> DEFINE p == pen[b]
           act == Delete(NextId, t)
           state == Did(p, LessText(p.now, t), act)
           m == [kind |-> "textGone", board |-> b, text |-> t]
           op == Act(b, act, [Blank EXCEPT !.texts = Restrict(p.now.texts, {t})])
           d == LessText(view.pen[b], t)
<1>1. t \in DOMAIN p.now.texts /\ drawing' = drawing /\ PenStep(h, b, state, m, op)
  BY DEF PenTextDelete, idVars
<1>2. m \in Msg /\ m.kind = "textGone" /\ m.board = b /\ m.text = t
  BY DEF Msg, PenMsg
<1>v. view \in View /\ view.pen[b] \in Drawing /\ p.log \in Seq(Action(ActionIds)) /\ TInv
      /\ p.now \in Drawing
  BY PenIs, ViewShape DEF SInv, TInv, TypeOK
<1>b. b \in DOMAIN title
  <2>1. p # NoPen
    BY <1>1 DEF NoPen, Blank, NoMap
  <2> QED
    BY <1>v, <2>1, PenThere
<1>d. d \in Drawing /\ d.texts = Without(view.pen[b].texts, {t}) /\ d.strokes = view.pen[b].strokes
  BY <1>v, DrawingOps DEF LessText, Drawing
<1>s. /\ state.now.texts = Without(p.now.texts, {t}) /\ state.now.strokes = p.now.strokes
      /\ state.log = Append(p.log, act)
  <2>1. p.now = [strokes |-> p.now.strokes, texts |-> p.now.texts]
    BY <1>v DEF Drawing
  <2> QED
    BY <2>1 DEF Did, LessText
<1>a. act.kind = "delete"
  BY DEF Delete
<1> HIDE DEF m, op, state, act
<1>3. OnlyPen(view, Shows(view, m), b, d) /\ Shows(view, m).fresh = view.fresh
  <2>1. PenShows(view, Shows(view, m), m)
    BY <1>2, <1>v, PenShowsIs DEF PenKinds
  <2> QED
    BY <1>2, <2>1 DEF PenShows
<1> HIDE DEF d
<1>4. \A s : CanEnd(state, s) => CanEnd(p, s)
  <2>1. \A i \in DOMAIN state.log : state.log[i].kind = "stroke" =>
            i \in DOMAIN p.log /\ p.log[i] = state.log[i]
    BY <1>a, <1>s, <1>v
  <2> HIDE DEF p
  <2> QED
    BY <1>s, <2>1 DEF CanEnd, BeganBy
<1>5. PenLike(p, drawing, b, view.pen[b], view.fresh) =>
          /\ d.texts = state.now.texts
          /\ DOMAIN d.strokes \subseteq DOMAIN state.now.strokes
          /\ \A s \in DOMAIN state.now.strokes :
                state.now.strokes[s] = "whole" => s \in DOMAIN d.strokes
  BY <1>d, <1>s DEF PenLike
<1> QED
  BY <1>1, <1>2, <1>3, <1>4, <1>5, <1>b, <1>d, OtherPenShown DEF p

LEMMA ClearShown ==
    ASSUME SInv, TInv', NEW h \in Hosts, NEW b \in Pens, PenClear(h, b)
    PROVE  SInv'
<1> DEFINE p == pen[b]
           state == Did(p, Blank, Clear(NextId))
           m == [kind |-> "cleared", board |-> b]
           op == Act(b, Clear(NextId), p.now)
<1>1. b \in DOMAIN title /\ drawing' = drawing /\ PenStep(h, b, state, m, op)
  BY DEF PenClear, idVars, Exists
<1>2. m \in Msg /\ m.kind = "cleared" /\ m.board = b
  BY DEF Msg, PenMsg
<1>v. view \in View /\ view.pen[b] \in Drawing
  BY ViewShape DEF SInv, TInv, TypeOK
<1>s. state.now = Blank /\ Blank.strokes = NoMap /\ DOMAIN NoMap = {}
  BY DEF Did, Blank, NoMap
<1> HIDE DEF m, op, state
<1>3. OnlyPen(view, Shows(view, m), b, Blank)
  <2>1. PenShows(view, Shows(view, m), m)
    BY <1>2, <1>v, PenShowsIs DEF PenKinds
  <2> QED
    BY <1>2, <2>1 DEF PenShows
<1>4. \A s : ~CanEnd(state, s)
  BY <1>s DEF CanEnd
<1> QED
  BY <1>1, <1>2, <1>3, <1>4, <1>s, BlankDrawing, OtherPenShown

LEMMA UndoShown ==
    ASSUME SInv, TInv', NEW h \in Hosts, NEW b \in Pens, PenUndo(h, b)
    PROVE  SInv'
<1> DEFINE p == pen[b]
           act == Last(p.log)
           state == Undo(p)
           m == [kind |-> "undone", board |-> b, act |-> act]
           op == [kind |-> "undo", board |-> b, id |-> act.id]
           d == LessUndone(view.pen[b], act)
<1>1. p.log # <<>> /\ drawing' = drawing /\ PenStep(h, b, state, m, op)
  BY DEF PenUndo, idVars
<1>v. view \in View /\ view.pen[b] \in Drawing /\ p.log \in Seq(Action(ActionIds)) /\ TInv
      /\ p.now \in Drawing
  BY PenIs, ViewShape DEF SInv, TInv, TypeOK
<1>2. m \in Msg /\ m.kind = "undone" /\ m.board = b /\ m.act = act
  <2>1. act \in Action(ActionIds)
    BY <1>1, <1>v, FrontLast
  <2> HIDE DEF act
  <2> QED
    BY <2>1 DEF Msg, PenMsg
<1>b. b \in DOMAIN title
  <2>1. p # NoPen
    BY <1>1 DEF NoPen
  <2> QED
    BY <1>v, <2>1, PenThere
<1>d. d \in Drawing
  BY <1>v, UndoneDrawing
<1>l. /\ Len(Front(p.log)) = Len(p.log) - 1 /\ Front(p.log) \in Seq(Action(ActionIds))
      /\ \A i \in 1..(Len(p.log) - 1) : Front(p.log)[i] = p.log[i]
      /\ Len(p.log) \in Nat \ {0}
  BY <1>1, <1>v, FrontLast
<1>s. state.now = LessUndone(p.now, act) /\ state.log = Front(p.log)
  BY DEF Undo
<1> HIDE DEF m, op, state, act
<1>3. OnlyPen(view, Shows(view, m), b, d) /\ Shows(view, m).fresh = view.fresh
  <2>1. PenShows(view, Shows(view, m), m)
    BY <1>2, <1>v, PenShowsIs DEF PenKinds
  <2> QED
    BY <1>2, <2>1 DEF PenShows
<1>4. \A s : CanEnd(state, s) => CanEnd(p, s)
  <2>1. \A i \in DOMAIN state.log : i \in DOMAIN p.log /\ p.log[i] = state.log[i]
    BY <1>s, <1>v, <1>l, LenProperties
  <2>2. DOMAIN state.now.strokes \subseteq DOMAIN p.now.strokes
    BY <1>s DEF LessUndone, Without, Restrict
  <2> HIDE DEF p
  <2> QED
    BY <2>1, <2>2 DEF CanEnd, BeganBy
<1>5. PenLike(p, drawing, b, view.pen[b], view.fresh) =>
          /\ d.texts = state.now.texts
          /\ DOMAIN d.strokes \subseteq DOMAIN state.now.strokes
          /\ \A s \in DOMAIN state.now.strokes :
                state.now.strokes[s] = "whole" => s \in DOMAIN d.strokes
  BY <1>s DEF PenLike, LessUndone, Without, Restrict
<1> HIDE DEF d
<1>6. Shows(view, m).pen[b] = d
  BY <1>3, <1>d, <1>v, OnlyPenIn
<1> DEFINE w == Shows(view, m)
<1>7. w.pen[b] = d /\ w.fresh = view.fresh
  BY <1>3, <1>6
<1> HIDE DEF w, p
<1>8. PenLike(p, drawing, b, view.pen[b], view.fresh) => PenLike(state, drawing', b, w.pen[b], w.fresh)
  BY <1>1, <1>4, <1>5, <1>7 DEF PenLike
<1>9. \A c \in Pens \ {b} : \A s \in drawing' : CanEnd(pen[c], s) => s \in drawing
  BY <1>1
<1> QED
  BY <1>1, <1>2, <1>b, <1>8, <1>9, PenStepShown DEF p, w, PenKinds

-----------------------------------------------------------------------------
\* A step of one handler that leaves it on what it was on, or on nothing.
LEMMA SetFocusShown ==
    ASSUME SInv, TInv', NEW h \in Hosts, SetFocus(h)
    PROVE  SInv'
<1> DEFINE b  == job[h].board
           m  == [kind |-> "focused", board |-> b]
           op == [kind |-> "focus", board |-> b]
           next == Tell(job[h].on, m, op)
           w == Shows(view, m)
<1>1. /\ job[h].step = "checked" /\ focus' = b /\ job' = [job EXCEPT ![h] = next]
      /\ UNCHANGED <<title, scene, marked, pen, drawing, crossed, view, resets>>
  BY DEF SetFocus, idVars, Unsaved
<1>2. /\ b \in Ids /\ job[h].on = {b, "focus"} /\ job[h] # Idle
  BY <1>1, JobShapes DEF SInv, TInv, TypeOK, Addressed
<1>3. /\ next.step = "tell" /\ next.on = {b, "focus"} /\ next.msg = m /\ next # Idle
      /\ m \in Msg /\ m.kind = "focused" /\ m.board = b /\ About(m) = {b, "focus"}
  BY <1>2 DEF Tell, Idle, Msg, ListMsg, About
<1>4. view \in View /\ job \in [Hosts -> Job] /\ job' \in [Hosts -> Job]
      /\ Room.drawing \subseteq Strokes /\ Room'.drawing \subseteq Strokes
      /\ \A g \in Hosts : job[g].step = "tell" => job[g].msg \in Msg /\ job[g].on = About(job[g].msg)
  BY <1>1, FineFacts DEF SInv, Addressed, TInv, TypeOK, Room
<1> HIDE DEF m, op, b
<1>5. w.title = view.title /\ w.scene = view.scene /\ w.pen = view.pen /\ w.fresh = view.fresh
      /\ w.focus = b
  BY <1>3, <1>4, ShowsIs DEF ListShows, PenKinds
<1> HIDE DEF w, next
<1>6. job'[h] = next /\ \A g \in Hosts \ {h} : job'[g] = job[g]
  BY <1>1, <1>4
<1>7. \A g \in Hosts : Addressed(job'[g])
  <2>1. Addressed(next)
    BY <1>3 DEF Addressed
  <2> QED
    BY <1>6, <2>1 DEF SInv
<1>8. ResetsOf(Room')
  BY <1>1 DEF SInv, ResetsOf, Room
<1>9. ASSUME NEW x \in Things \ crossed' PROVE FineAt(Room', view, job', x)
  <2>1. FineAt(Room, view, job, x)
    BY <1>1, <1>9 DEF SInv
  <2>2. CASE x \notin {b, "focus"}
    <3>1. RoomAt(Room, Room', x)
      BY <1>1, <2>2 DEF RoomAt, Room
    <3>2. \A g \in Hosts : /\ On2(job'[g], x) => On2(job[g], x)
                           /\ Telling(job'[g], x) <=> Telling(job[g], x)
                           /\ Telling(job'[g], x) => job'[g].msg = job[g].msg
      BY <1>2, <1>3, <1>6, <2>2 DEF On2, Telling
    <3> QED
      BY <1>4, <2>1, <3>1, <3>2, SameAtSelf, FineKept
  <2>3. CASE x \in {b, "focus"}
    <3>1. \A g \in Hosts \ {h} : ~On2(job[g], x) /\ ~On2(job'[g], x)
      <4>1. On2(job[h], x)
        BY <1>2, <2>3 DEF On2
      <4> QED
        BY <1>6, <2>1, <4>1 DEF FineAt
    <3>2. Like(Room, view, x)
      <4>1. \A g \in Hosts : ~Telling(job[g], x)
        BY <1>1, <3>1 DEF Telling
      <4> QED
        BY <2>1, <4>1 DEF FineAt
    <3>3. Like(Room', w, x)
      <4>1. CASE x = b
        <5>0. b # "focus" /\ b \in Ids
          BY <1>2, BoardsAssumption
        <5>1. LikeBoard(Room, view, b)
          BY <3>2, <4>1, <5>0 DEF Like
        <5>2. LikeBoard(Room', w, b)
          BY <1>1, <1>5, <5>1 DEF LikeBoard, LikeScene, LikePen, Room
        <5> QED
          BY <4>1, <5>0, <5>2 DEF Like
      <4>2. CASE x = "focus"
        BY <1>1, <1>5, <4>2, BoardsAssumption DEF Like, Room
      <4> QED
        BY <2>3, <4>1, <4>2
    <3>4. Tells(Room', m, x)
      BY <1>3 DEF Tells
    <3>5. \A g \in Hosts : Telling(job'[g], x) => g = h
      BY <3>1 DEF Telling
    <3>6. Telling(job'[h], x) /\ job'[h].msg = m
      BY <1>3, <1>6, <2>3 DEF Telling, On2
    <3>7. Like(Room', Shows(view, m), x)
      BY <3>3 DEF w
    <3> QED
      BY <3>1, <3>4, <3>5, <3>6, <3>7 DEF FineAt
  <2> QED
    BY <2>2, <2>3
<1> QED
  BY <1>1, <1>7, <1>8, <1>9 DEF SInv

LEMMA BroadcastShown ==
    ASSUME SInv, TInv', NEW h \in Hosts, Broadcast(h)
    PROVE  SInv'
<1> DEFINE m == job[h].msg
           w == Shows(view, m)
           next == IF job[h].op = NoOp THEN Idle ELSE [step |-> "save", on |-> job[h].on, op |-> job[h].op]
<1>1. /\ job[h].step = "tell" /\ view' = w /\ job' = [job EXCEPT ![h] = next]
      /\ UNCHANGED <<title, focus, scene, marked, pen, drawing, crossed, resets>>
  BY DEF Broadcast, roomVars, idVars
<1>2. /\ view \in View /\ view' \in View /\ job \in [Hosts -> Job] /\ job' \in [Hosts -> Job]
      /\ Room.drawing \subseteq Strokes /\ m \in Msg /\ job[h].on = About(m)
      /\ \A g \in Hosts : job[g].step = "tell" => job[g].msg \in Msg /\ job[g].on = About(job[g].msg)
  BY <1>1, FineFacts DEF SInv, Addressed, TInv, TypeOK
<1>3. next.step # "tell" /\ next.step # "checked" /\ \A x : On2(next, x) => x \in About(m)
  BY <1>2 DEF Idle, On2
<1> HIDE DEF next
<1>4. job'[h] = next /\ \A g \in Hosts \ {h} : job'[g] = job[g]
  BY <1>1, <1>2
<1>5. \A g \in Hosts : Addressed(job'[g])
  BY <1>3, <1>4 DEF SInv, Addressed
<1>6. Room' = Room
  BY <1>1 DEF Room
<1>7. job[h] # Idle
  BY <1>1 DEF Idle
<1> HIDE DEF m
<1>8. ASSUME NEW x \in Things \ crossed PROVE FineAt(Room, view', job', x)
  <2>1. FineAt(Room, view, job, x)
    BY <1>8 DEF SInv
  <2>2. CASE x \notin About(m)
    <3>1. SameAt(view, view', x)
      BY <1>1, <1>2, <2>2, Elsewhere
    <3>2. \A g \in Hosts : /\ On2(job'[g], x) => On2(job[g], x)
                           /\ Telling(job'[g], x) <=> Telling(job[g], x)
                           /\ Telling(job'[g], x) => job'[g].msg = job[g].msg
      BY <1>2, <1>3, <1>4, <2>2 DEF On2, Telling
    <3>3. RoomAt(Room, Room, x)
      BY DEF RoomAt
    <3> QED
      BY <1>2, <2>1, <3>1, <3>2, <3>3, FineKept
  <2>3. CASE x \in About(m)
    <3>1. Telling(job[h], x) /\ On2(job[h], x)
      BY <1>1, <1>2, <1>7, <2>3 DEF On2, Telling
    <3>2. \A g \in Hosts \ {h} : ~On2(job[g], x) /\ ~On2(job'[g], x)
      BY <1>4, <2>1, <3>1 DEF FineAt
    <3>3. \A g \in Hosts : ~Telling(job'[g], x)
      BY <1>3, <1>4, <3>2 DEF Telling
    <3>4. Like(Room, view', x)
      BY <1>1, <2>1, <3>1 DEF FineAt, m
    <3> QED
      BY <3>2, <3>3, <3>4 DEF FineAt
  <2> QED
    BY <2>2, <2>3
<1>9. ResetsOf(Room')
  BY <1>6 DEF SInv
<1> QED
  BY <1>1, <1>5, <1>6, <1>8, <1>9 DEF SInv

\* Steps of neither room nor view.
LEMMA QuietShown ==
    ASSUME SInv, TInv', UNCHANGED <<title, focus, scene, marked, pen, crossed, resets, view>>,
           drawing' \subseteq drawing,
           \A g \in Hosts : job'[g] = job[g] \/ (job[g].step = "save" /\ job'[g] = Idle)
    PROVE  SInv'
<1>1. /\ view \in View /\ job \in [Hosts -> Job] /\ job' \in [Hosts -> Job]
      /\ Room.drawing \subseteq Strokes /\ Room'.drawing \subseteq Strokes
      /\ \A g \in Hosts : job[g].step = "tell" => job[g].msg \in Msg /\ job[g].on = About(job[g].msg)
  BY FineFacts DEF SInv, Addressed, TInv, TypeOK, Room
<1>2. \A g \in Hosts : Addressed(job'[g])
  BY DEF SInv, Addressed, Idle
<1>3. ASSUME NEW x \in Things \ crossed PROVE FineAt(Room', view, job', x)
  <2>1. FineAt(Room, view, job, x)
    BY <1>3 DEF SInv
  <2>2. RoomAt(Room, Room', x)
    BY DEF RoomAt, Room
  <2>3. \A g \in Hosts : /\ On2(job'[g], x) => On2(job[g], x)
                         /\ Telling(job'[g], x) <=> Telling(job[g], x)
                         /\ Telling(job'[g], x) => job'[g].msg = job[g].msg
    BY DEF On2, Telling, Idle
  <2> QED
    BY <1>1, <2>1, <2>2, <2>3, SameAtSelf, FineKept
<1>4. ResetsOf(Room')
  BY DEF SInv, ResetsOf, Room
<1> QED
  BY <1>2, <1>3, <1>4 DEF SInv

LEMMA ReadShown ==
    ASSUME SInv, TInv', ReadScenes
    PROVE  SInv'
<1>1. /\ resets = {} /\ resets' = {<<b, scene[b]>> : b \in {b \in Scenes : Exists(b) /\ NeedsReset(b)}}
      /\ UNCHANGED <<title, focus, scene, marked, pen, drawing, job, crossed, view>>
  BY DEF ReadScenes, roomVars, idVars
<1>2. /\ view \in View /\ job \in [Hosts -> Job] /\ Room.drawing \subseteq Strokes
      /\ \A g \in Hosts : job[g].step = "tell" => job[g].msg \in Msg /\ job[g].on = About(job[g].msg)
  BY FineFacts DEF SInv, Addressed
<1>3. ASSUME NEW x \in Things \ crossed PROVE FineAt(Room', view, job, x)
  <2>1. FineAt(Room, view, job, x)
    BY <1>3 DEF SInv
  <2>2. RoomAt(Room, Room', x)
    BY <1>1 DEF RoomAt, Room
  <2>3. Room'.drawing \subseteq Strokes
    BY <1>1, <1>2 DEF Room
  <2> QED
    BY <1>2, <2>1, <2>2, <2>3, SameAtSelf, FineKept
<1>4. ResetsOf(Room')
  <2>1. ASSUME NEW b \in Scenes, NEW n \in Versions, <<b, n>> \in resets'
        PROVE  n > 0 /\ n <= scene[b]
    <3>1. n = scene[b] /\ NeedsReset(b)
      BY <1>1, <2>1
    <3>2. scene[b] \in Nat /\ marked[b] \in Nat
      BY ResetsFacts
    <3> QED
      BY <3>1, <3>2 DEF NeedsReset
  <2> QED
    BY <1>1, <2>1 DEF ResetsOf, Room
<1> QED
  BY <1>1, <1>3, <1>4 DEF SInv

\* A reset that meets an edit is followed by another; one that meets none shows
\* the scene there is.
LEMMA SendShown ==
    ASSUME SInv, TInv', NEW b \in Scenes, NEW n \in Versions, SendReset(b, n)
    PROVE  SInv'
<1> DEFINE m == [kind |-> "scene", board |-> b, version |-> n]
           w == Shows(view, m)
<1>1. /\ <<b, n>> \in resets /\ resets' = resets \ {<<b, n>>} /\ view' = w
      /\ marked' = [marked EXCEPT ![b] = n]
      /\ UNCHANGED <<title, focus, scene, pen, drawing, job, crossed>>
  BY DEF SendReset, idVars
<1>2. /\ view \in View /\ view' \in View /\ job \in [Hosts -> Job] /\ Room.drawing \subseteq Strokes
      /\ Room'.drawing \subseteq Strokes /\ Room.drawing = drawing
      /\ \A g \in Hosts : job[g].step = "tell" => job[g].msg \in Msg /\ job[g].on = About(job[g].msg)
  BY <1>1, FineFacts DEF SInv, Addressed, TInv, TypeOK, Room
<1>3. m \in Msg /\ m.kind = "scene" /\ m.board = b /\ m.version = n /\ About(m) = {b} /\ b \in Ids
      /\ b \notin Pens /\ b # "focus"
  BY BoardsAssumption DEF Msg, ListMsg, About, Ids
<1>4. /\ n > 0 /\ (b \in DOMAIN title => n <= scene[b]) /\ n \in Nat /\ scene[b] \in Nat
      /\ marked'[b] = n /\ \A c \in Scenes \ {b} : marked'[c] = marked[c]
  BY <1>1, ResetsFacts, BoardsAssumption DEF SInv, TInv, TypeOK, Versions
<1>v. view.scene \in [Scenes -> Versions]
  BY <1>2, ViewShape
<1> HIDE DEF m
<1>5. /\ w.title = view.title /\ w.focus = view.focus /\ w.pen = view.pen /\ w.fresh = view.fresh
      /\ w.scene = IF b \in DOMAIN view.title THEN [view.scene EXCEPT ![b] = n] ELSE view.scene
  BY <1>2, <1>3, ShowsIs DEF ListShows, PenKinds
<1>6. ASSUME NEW x \in Things \ {b} PROVE RoomAt(Room, Room', x) /\ SameAt(view, view', x)
  <2>1. RoomAt(Room, Room', x)
    BY <1>1, <1>4, <1>6 DEF RoomAt, Room
  <2>2. SameAt(view, view', x)
    BY <1>1, <1>2, <1>3, <1>6, Elsewhere
  <2> QED
    BY <2>1, <2>2
<1> HIDE DEF w
<1>k. \A g \in Hosts, x \in Things : /\ On2(job'[g], x) => On2(job[g], x)
                       /\ Telling(job'[g], x) <=> Telling(job[g], x)
                       /\ Telling(job'[g], x) => job'[g].msg = job[g].msg
  BY <1>1
<1>7. ASSUME NEW x \in Things \ crossed, x # b PROVE FineAt(Room', view', job', x)
  <2>1. FineAt(Room, view, job, x) /\ RoomAt(Room, Room', x) /\ SameAt(view, view', x)
    BY <1>6, <1>7 DEF SInv
  <2>2. job' = job
    BY <1>1
  <2> QED
    BY <1>2, <1>k, <2>1, <2>2, FineKept
<1>8. ASSUME b \notin crossed PROVE FineAt(Room', view', job', b)
  <2>1. FineAt(Room, view, job, b)
    BY <1>3, <1>8 DEF SInv, Things
  <2>2. ASSUME NEW u \in View, LikeBoard(Room, u, b), NEW z, z \in View,
               z.title = u.title, b \in DOMAIN title => z.scene[b] = n \/ z.scene[b] = scene[b]
        PROVE  Like(Room', z, b)
    <3>1. b \in DOMAIN title' =>  LikeScene(Room', z, b)
      BY <1>1, <1>4, <2>2 DEF LikeScene, Room
    <3>2. LikeBoard(Room', z, b)
      BY <1>1, <1>3, <2>2, <3>1 DEF LikeBoard, Room
    <3> QED
      BY <1>3, <3>2 DEF Like
  <2>3. ASSUME \A g \in Hosts : ~Telling(job[g], b) PROVE Like(Room', w, b)
    <3>1. LikeBoard(Room, view, b)
      BY <1>3, <2>1, <2>3 DEF FineAt, Like
    <3>2. b \in DOMAIN title => w.scene[b] = n
      BY <1>5, <1>v, <3>1 DEF LikeBoard, Room
    <3> QED
      BY <1>1, <1>2, <1>5, <2>2, <3>1, <3>2
  <2>4. ASSUME NEW g \in Hosts, Telling(job[g], b)
        PROVE  Like(Room', Shows(w, job[g].msg), b) /\ Tells(Room', job[g].msg, b)
    <3> DEFINE l == job[g].msg
               u == Shows(view, l)
               z == Shows(w, l)
    <3>1. l \in Msg /\ b \in About(l)
      BY <1>2, <2>4 DEF Telling, On2
    <3>2. Like(Room, u, b) /\ Tells(Room, l, b)
      BY <2>1, <2>4 DEF FineAt
    <3>3. LikeBoard(Room, u, b)
      BY <1>3, <3>2 DEF Like
    <3> HIDE DEF l
    <3>4. u \in View /\ z \in View /\ ListShows(view, u, l) /\ ListShows(w, z, l) /\ w \in View
      BY <1>1, <1>2, <3>1, ShowsIs
    <3> HIDE DEF u, z
    <3>5. z.title = u.title
      BY <1>5, <3>4 DEF ListShows
    <3>6. l.board = b
      BY <1>3, <3>1, BoardsAssumption DEF About
    <3>7. ASSUME b \in DOMAIN title PROVE z.scene[b] = n \/ z.scene[b] = scene[b]
      <4>1. b \in DOMAIN u.title
        BY <3>3, <3>7 DEF LikeBoard, Room
      <4>2. CASE l.kind = "created"
        <5>1. scene[b] = 0
          BY <3>2, <4>2 DEF Tells, Room
        <5> QED
          BY <1>4, <3>7, <5>1
      <4>3. CASE l.kind # "created"
        <5>1. b \in DOMAIN view.title
          BY <3>4, <3>6, <4>1, <4>3 DEF ListShows, Retitle, Put, Without, Restrict
        <5>2. w.scene[b] = n /\ w.scene \in [Scenes -> Versions]
          BY <1>5, <1>v, <5>1
        <5>3. CASE l.kind = "scene"
          <6>1. z.scene[b] = l.version
            BY <1>5, <3>4, <3>6, <5>1, <5>2, <5>3 DEF ListShows
          <6> QED
            BY <3>2, <5>3, <6>1 DEF Tells, Room
        <5>4. CASE l.kind # "scene"
          BY <3>4, <5>2, <5>4 DEF ListShows
        <5> QED
          BY <5>3, <5>4
      <4> QED
        BY <4>2, <4>3
    <3>8. Like(Room', z, b)
      BY <2>2, <3>3, <3>4, <3>5, <3>7
    <3>9. Tells(Room', l, b)
      BY <1>1, <3>2 DEF Tells, Room
    <3> QED
      BY <3>8, <3>9 DEF l, z
  <2>5. \A g, h \in Hosts : On2(job[g], b) /\ On2(job[h], b) => g = h
    BY <2>1 DEF FineAt
  <2>6. FineAt(Room', w, job, b)
    BY <2>3, <2>4, <2>5 DEF FineAt
  <2> QED
    BY <1>1, <2>6
<1>9. ResetsOf(Room')
  BY <1>1 DEF SInv, ResetsOf, Room
<1> QED
  BY <1>1, <1>7, <1>8, <1>9 DEF SInv

LEMMA RestartShown ==
    ASSUME SInv, TInv', Restart
    PROVE  SInv'
<1>1. /\ db \in Tables /\ Stock(db, used, Ended) /\ db.scene \in [Scenes -> Versions]
      /\ \A b \in Pens : db.pen[b] \in PenTable(ActionIds)
  BY TablesShape DEF SInv, TInv, TypeOK, InUse
<1>2. /\ title' = db.title /\ focus' = db.focus /\ scene' = db.scene
      /\ pen' = [b \in Pens |-> Loaded(db.pen[b])]
      /\ job' = [h \in Hosts |-> Idle] /\ resets' = {} /\ drawing' = drawing
      /\ view' = [title |-> db.title, focus |-> db.focus, scene |-> db.scene,
                  pen |-> [b \in Pens |-> db.pen[b].now], fresh |-> view.fresh]
  BY DEF Restart, idVars
<1>3. \A h \in Hosts : job'[h] = Idle
  BY <1>2
<1>4. ASSUME NEW b \in Pens, NEW s \in drawing PROVE ~CanEnd(Loaded(db.pen[b]), s)
  <2>1. db.pen[b].rows \in Seq(RowsOf(Ended))
    BY <1>1 DEF Stock
  <2>2. \A i \in DOMAIN db.pen[b].rows : db.pen[b].rows[i].act \in ActsOf(Ended)
    BY <2>1 DEF RowsOf
  <2> QED
    BY <2>2 DEF Loaded, CanEnd, BeganBy, ActsOf, Ended
<1>5. ASSUME NEW x \in Things PROVE Like(Room', view', x)
  <2>1. ASSUME x \in Pens PROVE LikePen(Room', view', x)
    <3>1. pen'[x] = Loaded(db.pen[x]) /\ view'.pen[x] = db.pen[x].now
      BY <1>2, <2>1
    <3>2. pen'[x].now = db.pen[x].now /\ db.pen[x].now \in Drawing
      BY <1>1, <2>1, <3>1 DEF Loaded, PenTable
    <3> QED
      BY <1>2, <1>4, <2>1, <3>1, <3>2 DEF LikePen, Room
  <2>2. x \in Scenes => LikeScene(Room', view', x)
    BY <1>2 DEF LikeScene, Room
  <2> QED
    BY <1>2, <2>1, <2>2 DEF Like, LikeBoard, Room
<1>6. \A x \in Things : FineAt(Room', view', job', x)
  BY <1>3, <1>5 DEF FineAt, On2, Telling
<1>7. ResetsOf(Room')
  BY <1>2 DEF ResetsOf, Room
<1>8. \A h \in Hosts : Addressed(job'[h])
  BY <1>3 DEF Addressed, Idle
<1> QED
  BY <1>6, <1>7, <1>8 DEF SInv

LEMMA StartShown == Init => SInv
<1> SUFFICES ASSUME Init PROVE SInv
  OBVIOUS
<1>1. TInv
  BY StartTyped
<1>2. /\ title = NoMap /\ focus = NoBoard /\ scene = [b \in Scenes |-> 0] /\ pen = [b \in Pens |-> NoPen]
      /\ job = [h \in Hosts |-> Idle] /\ resets = {} /\ drawing = {}
      /\ view = [title |-> NoMap, focus |-> NoBoard, scene |-> [b \in Scenes |-> 0],
                 pen |-> [b \in Pens |-> Blank], fresh |-> {}]
  BY DEF Init, NewView
<1>3. \A h \in Hosts : job[h] = Idle
  BY <1>2
<1>4. ASSUME NEW x \in Things PROVE Like(Room, view, x)
  <2>1. DOMAIN NoMap = {}
    BY DEF NoMap
  <2> QED
    BY <1>2, <2>1 DEF Like, LikeBoard, Room
<1>5. \A x \in Things : FineAt(Room, view, job, x)
  BY <1>3, <1>4 DEF FineAt, On2, Telling
<1> QED
  BY <1>1, <1>2, <1>3, <1>5 DEF SInv, ResetsOf, Room, Addressed, Idle

LEMMA NextShown == SInv /\ [Next]_vars => SInv'
<1> SUFFICES ASSUME SInv, [Next]_vars PROVE SInv'
  OBVIOUS
<1>1. TInv'
  BY NextTyped DEF SInv
<1>2. ASSUME NEW h \in Hosts, ListStep(h) PROVE SInv'
  BY <1>1, <1>2, CreateShown, RenameShown, DeleteShown, CheckShown, SetFocusShown, SceneShown
  DEF ListStep
<1>3. ASSUME NEW h \in Hosts, NEW b \in Pens, PenHandler(h, b) PROVE SInv'
  BY <1>1, <1>3, PenBeginShown, PenEndShown, TextSetShown, TextDeleteShown, ClearShown, UndoShown
  DEF PenHandler
<1>4. ASSUME NEW h \in Hosts, Enqueue(h) PROVE SInv'
  <2>1. /\ UNCHANGED <<title, focus, scene, marked, pen, crossed, resets, view, drawing>>
        /\ job[h].step = "save" /\ job' = [job EXCEPT ![h] = Idle]
    BY <1>4 DEF Enqueue, roomVars, idVars
  <2>2. \A g \in Hosts : job'[g] = job[g] \/ (job[g].step = "save" /\ job'[g] = Idle)
    BY <2>1 DEF SInv, TInv, TypeOK
  <2> QED
    BY <1>1, <2>1, <2>2, QuietShown
<1>5. CASE Writer \/ UNCHANGED vars \/ \E s \in Strokes : PenEndOfNothing(s)
  <2>1. /\ UNCHANGED <<title, focus, scene, marked, pen, crossed, resets, view, job>>
        /\ drawing' \subseteq drawing
    BY <1>5 DEF Writer, ApplyOp, CommitBatch, AbortBatch, PenEndOfNothing, Unsaved, vars, roomVars,
                idVars, tableVars
  <2> QED
    BY <1>1, <2>1, QuietShown
<1>6. CASE ResetTask
  BY <1>1, <1>6, ReadShown, SendShown DEF ResetTask
<1> QED
  BY <1>1, <1>2, <1>3, <1>4, <1>5, <1>6, BroadcastShown, RestartShown DEF Next

LEMMA ShownInv == Spec => []SInv
  BY StartShown, NextShown, PTL DEF Spec

\* With nobody on x, a view is like the room at x.
LEMMA QuietLike ==
    ASSUME SInv, NEW x \in Things \ crossed, ~Busy(x)
    PROVE  Like(Room, view, x)
<1>1. FineAt(Room, view, job, x)
  BY DEF SInv
<1>2. \A h \in Hosts : ~Telling(job[h], x)
  BY DEF Busy, On, Telling, On2
<1> QED
  BY <1>1, <1>2 DEF FineAt

\* Once the handlers have broadcast, the browser of a guest who follows the
\* host shows the boards with their titles and the focus of the room, where no
\* two hosts have overlapped.
THEOREM GuestsShowBoards == Spec => []BoardsShown
<1>1. SInv => BoardsShown
  <2> SUFFICES ASSUME SInv PROVE BoardsShown
    OBVIOUS
  <2>1. ASSUME NEW b \in Ids \ crossed, ~Busy(b)
        PROVE  (b \in DOMAIN view.title <=> Exists(b)) /\ (Exists(b) => view.title[b] = title[b])
    BY <2>1, QuietLike DEF Like, LikeBoard, Room, Exists, Things
  <2>2. ASSUME "focus" \notin crossed, ~Busy("focus") PROVE view.focus = focus
    BY <2>2, QuietLike DEF Like, Room, Things
  <2> QED
    BY <2>1, <2>2 DEF BoardsShown
<1> QED
  BY ShownInv, <1>1, PTL

\* The reset task is enough: when it has nothing more to send, a browser shows
\* the scene of the room, although a reset read earlier may come late.
THEOREM BrowsersShowScenes == Spec => []ScenesShown
<1>1. SInv => ScenesShown
  <2> SUFFICES ASSUME SInv, NEW b \in Scenes \ crossed, Exists(b), ~Busy(b), resets = {},
                      ~NeedsReset(b)
               PROVE  view.scene[b] = scene[b]
    BY DEF ScenesShown
  <2>1. LikeScene(Room, view, b)
    BY QuietLike DEF Like, LikeBoard, Room, Exists, Things, Ids
  <2> QED
    BY <2>1 DEF LikeScene, Room, NeedsReset
<1> QED
  BY ShownInv, <1>1, PTL

\* Through strokes, texts, clears and undos, a guest's browser shows the texts
\* of the room and its ended strokes, and no stroke that the room has not.
THEOREM GuestsShowPen == Spec => []PenShown
<1>1. SInv => PenShown
  <2> SUFFICES ASSUME SInv, NEW b \in Pens \ crossed, Exists(b), ~Busy(b)
               PROVE  /\ view.pen[b].texts = pen[b].now.texts
                      /\ DOMAIN view.pen[b].strokes \subseteq DOMAIN pen[b].now.strokes
                      /\ \A s \in DOMAIN pen[b].now.strokes :
                            pen[b].now.strokes[s] = "whole" => s \in DOMAIN view.pen[b].strokes
    BY DEF PenShown
  <2>1. LikePen(Room, view, b)
    BY QuietLike DEF Like, LikeBoard, Room, Exists, Things, Ids
  <2> QED
    BY <2>1 DEF LikePen, Room
<1> QED
  BY ShownInv, <1>1, PTL

-----------------------------------------------------------------------------
(***************************************************************************)
(* One pen board, its log and its table, as values.                        *)
(***************************************************************************)
Acts(rows) == [i \in DOMAIN rows |-> rows[i].act]

\* An action after which a text is gone.
Takes(a, x) == a.kind = "clear" \/ (a.kind = "delete" /\ a.target = x)

\* Of the first n of some actions, one made the text, and none since took it.
TextAt(A, x, n, i) ==
    /\ A[i].kind = "set" /\ A[i].target = x
    /\ \A j \in 1..n : j > i => ~Takes(A[j], x)

StrokeAt(A, s, n, i) ==
    /\ A[i].kind = "stroke" /\ A[i].target = s
    /\ \A j \in 1..n : j > i => A[j].kind # "clear"

TextFrom(A, x, n)   == \E i \in 1..n : TextAt(A, x, n, i)
StrokeFrom(A, s, n) == \E i \in 1..n : StrokeAt(A, s, n, i)

\* What a drawing shows has actions behind it, to undo it with.
Backed(d, A, n) ==
    /\ \A x \in DOMAIN d.texts : TextFrom(A, x, n)
    /\ \A s \in DOMAIN d.strokes : d.strokes[s] = "whole" => StrokeFrom(A, s, n)

Distinct(A, n) ==
    \A i, j \in 1..n :
        /\ A[i].id = A[j].id => i = j
        /\ A[i].kind = "stroke" /\ A[j].kind = "stroke" /\ A[i].target = A[j].target => i = j

\* What a row keeps to bring back.
Modest(r) ==
    /\ r.act.kind # "clear" => DOMAIN r.before.strokes = {}
    /\ r.act.kind = "stroke" => DOMAIN r.before.texts = {}
    /\ r.act.kind \in {"set", "delete"} => DOMAIN r.before.texts \subseteq {r.act.target}

Sound(t) ==
    LET A == Acts(t.rows)
        N == Len(t.rows)
    IN  /\ Distinct(A, N)
        /\ Backed(t.now, A, N)
        /\ \A i \in 1..N : Modest(t.rows[i]) /\ Backed(t.rows[i].before, A, i - 1)

\* A log and the actions of rows: rows are of actions in the log, in the order
\* of the log but for strokes, and only strokes that were not ended have none.
Logged(now, L, n, A, m) ==
    /\ \A i \in 1..m : \E k \in 1..n : L[k] = A[i]
    /\ \A k \in 1..n :
          \/ \E i \in 1..m : A[i] = L[k]
          \/ /\ L[k].kind = "stroke"
             /\ L[k].target \in DOMAIN now.strokes => now.strokes[L[k].target] = "part"
    /\ \A i, j \in 1..m, k, l \in 1..n :
          i < j /\ A[i] = L[k] /\ A[j] = L[l] => k < l \/ A[j].kind = "stroke"

\* A drawing and one that has all of it, but for strokes under way.
Within(d, e) ==
    /\ \A x \in DOMAIN d.texts : x \in DOMAIN e.texts /\ e.texts[x] = d.texts[x]
    /\ \A s \in DOMAIN d.strokes :
          d.strokes[s] = "whole" => s \in DOMAIN e.strokes /\ e.strokes[s] = "whole"

\* The room and the table that is to be.
Linked(p, t) ==
    /\ Distinct(p.log, Len(p.log))
    /\ Backed(p.now, p.log, Len(p.log))
    /\ Logged(p.now, p.log, Len(p.log), Acts(t.rows), Len(t.rows))
    /\ Within(p.now, t.now)

\* A stroke that can still be ended was not cleared since.
Standing(p, S) == \A s \in S : CanEnd(p, s) => StrokeFrom(p.log, s, Len(p.log))

-----------------------------------------------------------------------------
\* B is A with one action more.
LEMMA FromMore ==
    ASSUME NEW A, NEW B, NEW n \in Nat, \A i \in 1..n : B[i] = A[i]
    PROVE  /\ \A x : TextFrom(A, x, n) /\ ~Takes(B[n + 1], x) => TextFrom(B, x, n + 1)
           /\ \A s : StrokeFrom(A, s, n) /\ B[n + 1].kind # "clear" => StrokeFrom(B, s, n + 1)
           /\ \A x : B[n + 1].kind = "set" /\ B[n + 1].target = x => TextFrom(B, x, n + 1)
           /\ \A s : B[n + 1].kind = "stroke" /\ B[n + 1].target = s => StrokeFrom(B, s, n + 1)
<1>1. ASSUME NEW x, TextFrom(A, x, n), ~Takes(B[n + 1], x) PROVE TextFrom(B, x, n + 1)
  <2>1. PICK i \in 1..n : TextAt(A, x, n, i)
    BY <1>1 DEF TextFrom
  <2>2. TextAt(B, x, n + 1, i) /\ i \in 1..(n + 1)
    BY <1>1, <2>1 DEF TextAt
  <2> QED
    BY <2>2 DEF TextFrom
<1>2. ASSUME NEW s, StrokeFrom(A, s, n), B[n + 1].kind # "clear" PROVE StrokeFrom(B, s, n + 1)
  <2>1. PICK i \in 1..n : StrokeAt(A, s, n, i)
    BY <1>2 DEF StrokeFrom
  <2>2. StrokeAt(B, s, n + 1, i) /\ i \in 1..(n + 1)
    BY <1>2, <2>1 DEF StrokeAt
  <2> QED
    BY <2>2 DEF StrokeFrom
<1>3. ASSUME NEW x, B[n + 1].kind = "set", B[n + 1].target = x PROVE TextFrom(B, x, n + 1)
  <2>1. TextAt(B, x, n + 1, n + 1) /\ n + 1 \in 1..(n + 1)
    BY <1>3 DEF TextAt
  <2> QED
    BY <2>1 DEF TextFrom
<1>4. ASSUME NEW s, B[n + 1].kind = "stroke", B[n + 1].target = s PROVE StrokeFrom(B, s, n + 1)
  <2>1. StrokeAt(B, s, n + 1, n + 1) /\ n + 1 \in 1..(n + 1)
    BY <1>4 DEF StrokeAt
  <2> QED
    BY <2>1 DEF StrokeFrom
<1> QED
  BY <1>1, <1>2, <1>3, <1>4

LEMMA FromSame ==
    ASSUME NEW A, NEW B, NEW n, \A i \in 1..n : B[i] = A[i]
    PROVE  /\ \A x : TextFrom(A, x, n) => TextFrom(B, x, n)
           /\ \A s : StrokeFrom(A, s, n) => StrokeFrom(B, s, n)
           /\ \A d : Backed(d, A, n) => Backed(d, B, n)
<1>1. ASSUME NEW x, TextFrom(A, x, n) PROVE TextFrom(B, x, n)
  BY <1>1 DEF TextFrom, TextAt
<1>2. ASSUME NEW s, StrokeFrom(A, s, n) PROVE StrokeFrom(B, s, n)
  BY <1>2 DEF StrokeFrom, StrokeAt
<1> QED
  BY <1>1, <1>2 DEF Backed

\* B is A without its i-th action, after which there are only strokes.
LEMMA FromLess ==
    ASSUME NEW A, NEW B, NEW n \in Nat, NEW i \in 1..n,
           \A k \in 1..(n - 1) : B[k] = A[IF k < i THEN k ELSE k + 1],
           \A k \in 1..n : k > i => A[k].kind = "stroke"
    PROVE  /\ \A x : TextFrom(A, x, n) /\ ~(A[i].kind = "set" /\ A[i].target = x)
                        => TextFrom(B, x, n - 1)
           /\ \A s : StrokeFrom(A, s, n) /\ ~(A[i].kind = "stroke" /\ A[i].target = s)
                        => StrokeFrom(B, s, n - 1)
           /\ \A d : Backed(d, A, i - 1) => Backed(d, B, n - 1)
<1>k. \A k \in 1..(n - 1) : k >= i => B[k].kind = "stroke"
  BY SMT
<1>1. ASSUME NEW x, NEW j \in 1..n, j < i, A[j].kind = "set", A[j].target = x,
             \A l \in 1..(i - 1) : l > j => ~Takes(A[l], x)
      PROVE  TextFrom(B, x, n - 1)
  <2>1. j \in 1..(n - 1) /\ B[j] = A[j]
    BY <1>1
  <2>2. ASSUME NEW l \in 1..(n - 1), l > j PROVE ~Takes(B[l], x)
    <3>1. CASE l < i
      BY <1>1, <2>2, <3>1
    <3>2. CASE ~(l < i)
      BY <1>k, <2>2, <3>2 DEF Takes
    <3> QED
      BY <3>1, <3>2
  <2> QED
    BY <1>1, <2>1, <2>2 DEF TextFrom, TextAt
<1>2. ASSUME NEW s, NEW j \in 1..n, j < i, A[j].kind = "stroke", A[j].target = s,
             \A l \in 1..(i - 1) : l > j => A[l].kind # "clear"
      PROVE  StrokeFrom(B, s, n - 1)
  <2>1. j \in 1..(n - 1) /\ B[j] = A[j]
    BY <1>2
  <2>2. ASSUME NEW l \in 1..(n - 1), l > j PROVE B[l].kind # "clear"
    <3>1. CASE l < i
      BY <1>2, <2>2, <3>1
    <3>2. CASE ~(l < i)
      BY <1>k, <2>2, <3>2
    <3> QED
      BY <3>1, <3>2
  <2> QED
    BY <1>2, <2>1, <2>2 DEF StrokeFrom, StrokeAt
<1>3. ASSUME NEW x, TextFrom(A, x, n), ~(A[i].kind = "set" /\ A[i].target = x)
      PROVE  TextFrom(B, x, n - 1)
  <2>1. PICK j \in 1..n : TextAt(A, x, n, j)
    BY <1>3 DEF TextFrom
  <2>2. j < i
    BY <1>3, <2>1 DEF TextAt
  <2>3. \A l \in 1..(i - 1) : l > j => ~Takes(A[l], x)
    BY <2>1 DEF TextAt
  <2> QED
    BY <1>1, <2>1, <2>2, <2>3 DEF TextAt
<1>4. ASSUME NEW s, StrokeFrom(A, s, n), ~(A[i].kind = "stroke" /\ A[i].target = s)
      PROVE  StrokeFrom(B, s, n - 1)
  <2>1. PICK j \in 1..n : StrokeAt(A, s, n, j)
    BY <1>4 DEF StrokeFrom
  <2>2. CASE j < i
    <3>1. \A l \in 1..(i - 1) : l > j => A[l].kind # "clear"
      BY <2>1 DEF StrokeAt
    <3> QED
      BY <1>2, <2>1, <2>2, <3>1 DEF StrokeAt
  <2>3. CASE j > i
    <3>1. j - 1 \in 1..(n - 1) /\ B[j - 1] = A[j]
      BY <2>3
    <3>2. \A l \in 1..(n - 1) : l > j - 1 => B[l].kind # "clear"
      BY <1>k, <2>3
    <3> QED
      BY <2>1, <3>1, <3>2 DEF StrokeFrom, StrokeAt
  <2>4. j # i
    BY <1>4, <2>1 DEF StrokeAt
  <2> QED
    BY <2>2, <2>3, <2>4
<1>5. ASSUME NEW x, TextFrom(A, x, i - 1) PROVE TextFrom(B, x, n - 1)
  <2>1. PICK j \in 1..(i - 1) : TextAt(A, x, i - 1, j)
    BY <1>5 DEF TextFrom
  <2> QED
    BY <1>1, <2>1 DEF TextAt
<1>6. ASSUME NEW s, StrokeFrom(A, s, i - 1) PROVE StrokeFrom(B, s, n - 1)
  <2>1. PICK j \in 1..(i - 1) : StrokeAt(A, s, i - 1, j)
    BY <1>6 DEF StrokeFrom
  <2> QED
    BY <1>2, <2>1 DEF StrokeAt
<1> QED
  BY <1>3, <1>4, <1>5, <1>6 DEF Backed

\* The first n of a log, the last of which is undone.
LEMMA FromFront ==
    ASSUME NEW A, NEW B, NEW n \in Nat \ {0}, \A i \in 1..(n - 1) : B[i] = A[i]
    PROVE  /\ \A x : TextFrom(A, x, n) /\ ~(A[n].kind = "set" /\ A[n].target = x)
                        => TextFrom(B, x, n - 1) /\ ~Takes(A[n], x)
           /\ \A s : StrokeFrom(A, s, n) /\ ~(A[n].kind = "stroke" /\ A[n].target = s)
                        => StrokeFrom(B, s, n - 1) /\ A[n].kind # "clear"
<1>1. ASSUME NEW x, TextFrom(A, x, n), ~(A[n].kind = "set" /\ A[n].target = x)
      PROVE  TextFrom(B, x, n - 1) /\ ~Takes(A[n], x)
  <2>1. PICK j \in 1..n : TextAt(A, x, n, j)
    BY <1>1 DEF TextFrom
  <2>2. j \in 1..(n - 1)
    BY <1>1, <2>1 DEF TextAt
  <2>3. TextAt(B, x, n - 1, j) /\ ~Takes(A[n], x)
    BY <2>1, <2>2 DEF TextAt
  <2> QED
    BY <2>2, <2>3 DEF TextFrom
<1>2. ASSUME NEW s, StrokeFrom(A, s, n), ~(A[n].kind = "stroke" /\ A[n].target = s)
      PROVE  StrokeFrom(B, s, n - 1) /\ A[n].kind # "clear"
  <2>1. PICK j \in 1..n : StrokeAt(A, s, n, j)
    BY <1>2 DEF StrokeFrom
  <2>2. j \in 1..(n - 1)
    BY <1>2, <2>1 DEF StrokeAt
  <2>3. StrokeAt(B, s, n - 1, j) /\ A[n].kind # "clear"
    BY <2>1, <2>2 DEF StrokeAt
  <2> QED
    BY <2>2, <2>3 DEF StrokeFrom
<1> QED
  BY <1>1, <1>2

-----------------------------------------------------------------------------
LEMMA DistinctMore ==
    ASSUME NEW A, NEW B, NEW n \in Nat, Distinct(A, n), \A i \in 1..n : B[i] = A[i],
           \A i \in 1..n : /\ A[i].id # B[n + 1].id
                           /\ A[i].kind = "stroke" /\ B[n + 1].kind = "stroke" => A[i].target # B[n + 1].target
    PROVE  Distinct(B, n + 1)
<1>1. ASSUME NEW i \in 1..(n + 1), NEW j \in 1..(n + 1)
      PROVE  /\ B[i].id = B[j].id => i = j
             /\ B[i].kind = "stroke" /\ B[j].kind = "stroke" /\ B[i].target = B[j].target => i = j
  <2>1. CASE i \in 1..n /\ j \in 1..n
    BY <2>1 DEF Distinct
  <2>2. CASE i = n + 1 /\ j \in 1..n
    BY <2>2
  <2>3. CASE i \in 1..n /\ j = n + 1
    BY <2>3
  <2>4. CASE i = n + 1 /\ j = n + 1
    BY <2>4
  <2> QED
    BY <2>1, <2>2, <2>3, <2>4
<1> QED
  BY <1>1 DEF Distinct

LEMMA DistinctLess ==
    ASSUME NEW A, NEW B, NEW n \in Nat, NEW i \in 1..n, Distinct(A, n),
           \A k \in 1..(n - 1) : B[k] = A[IF k < i THEN k ELSE k + 1]
    PROVE  Distinct(B, n - 1)
<1>1. ASSUME NEW k \in 1..(n - 1), NEW l \in 1..(n - 1)
      PROVE  /\ B[k].id = B[l].id => k = l
             /\ B[k].kind = "stroke" /\ B[l].kind = "stroke" /\ B[k].target = B[l].target => k = l
  <2> DEFINE a == IF k < i THEN k ELSE k + 1
             z == IF l < i THEN l ELSE l + 1
  <2>1. a \in 1..n /\ z \in 1..n /\ B[k] = A[a] /\ B[l] = A[z] /\ (a = z => k = l)
    OBVIOUS
  <2> HIDE DEF a, z
  <2> QED
    BY <2>1 DEF Distinct
<1> QED
  BY <1>1 DEF Distinct

\* The same action goes to the end of the log and of the rows.
BothGrow(now, next, L, K, n, A, B, m) ==
    /\ Logged(now, L, n, A, m)
    /\ \A i \in 1..n : K[i] = L[i] /\ L[i].id # K[n + 1].id
    /\ \A i \in 1..m : B[i] = A[i]
    /\ B[m + 1] = K[n + 1]
    /\ \A s \in DOMAIN next.strokes :
          s \in DOMAIN now.strokes /\ next.strokes[s] = now.strokes[s]

LEMMA LoggedBoth ==
    ASSUME NEW now, NEW next, NEW L, NEW K, NEW n \in Nat, NEW A, NEW B, NEW m \in Nat,
           BothGrow(now, next, L, K, n, A, B, m)
    PROVE  Logged(next, K, n + 1, B, m + 1)
<1>h. /\ Logged(now, L, n, A, m)
      /\ \A i \in 1..n : K[i] = L[i] /\ L[i].id # K[n + 1].id
      /\ \A i \in 1..m : B[i] = A[i]
      /\ B[m + 1] = K[n + 1]
      /\ \A s \in DOMAIN next.strokes :
            s \in DOMAIN now.strokes /\ next.strokes[s] = now.strokes[s]
  BY DEF BothGrow
<1> USE <1>h
<1>o. \A i, j \in 1..m, k, l \in 1..n :
          i < j /\ A[i] = L[k] /\ A[j] = L[l] => k < l \/ A[j].kind = "stroke"
  BY DEF Logged
<1>0. \A i \in 1..m : \E k \in 1..n : L[k] = A[i]
  BY DEF Logged
<1>1. ASSUME NEW i \in 1..(m + 1) PROVE \E k \in 1..(n + 1) : K[k] = B[i]
  <2>1. CASE i = m + 1
    BY <2>1
  <2>2. CASE i # m + 1
    <3>1. i \in 1..m
      BY <2>2
    <3>2. PICK k \in 1..n : L[k] = A[i]
      BY <1>0, <3>1
    <3> QED
      BY <3>1, <3>2
  <2> QED
    BY <2>1, <2>2
<1>2. ASSUME NEW k \in 1..(n + 1)
      PROVE  \/ \E i \in 1..(m + 1) : B[i] = K[k]
             \/ /\ K[k].kind = "stroke"
                /\ K[k].target \in DOMAIN next.strokes => next.strokes[K[k].target] = "part"
  <2>1. CASE k = n + 1
    BY <2>1
  <2>2. CASE k # n + 1
    <3>1. k \in 1..n /\ K[k] = L[k]
      BY <2>2
    <3>2. CASE \E i \in 1..m : A[i] = L[k]
      <4>1. PICK i \in 1..m : A[i] = L[k]
        BY <3>2
      <4>2. i \in 1..(m + 1) /\ B[i] = K[k]
        BY <3>1, <4>1
      <4> QED
        BY <4>2
    <3>3. CASE /\ L[k].kind = "stroke"
               /\ L[k].target \in DOMAIN now.strokes => now.strokes[L[k].target] = "part"
      BY <3>1, <3>3
    <3> QED
      BY <3>1, <3>2, <3>3 DEF Logged
  <2> QED
    BY <2>1, <2>2
<1>3. ASSUME NEW i \in 1..(m + 1), NEW j \in 1..(m + 1), NEW k \in 1..(n + 1), NEW l \in 1..(n + 1),
             i < j, B[i] = K[k], B[j] = K[l]
      PROVE  k < l \/ B[j].kind = "stroke"
  <2>1. i \in 1..m /\ B[i] = A[i]
    BY <1>3
  <2>2. k \in 1..n
    <3>1. PICK x \in 1..n : L[x] = A[i]
      BY <1>0, <2>1
    <3>2. L[x].id # K[n + 1].id
      OBVIOUS
    <3>3. K[k] = L[x]
      BY <1>3, <2>1, <3>1
    <3>4. k # n + 1
      BY <3>2, <3>3
    <3> QED
      BY <3>4
  <2>3. CASE j = m + 1
    <3>1. l = n + 1
      <4>1. \A x \in 1..n : K[x].id # K[n + 1].id
        OBVIOUS
      <4> QED
        BY <1>3, <2>3, <4>1
    <3> QED
      BY <2>2, <3>1
  <2>4. CASE j \in 1..m
    <3>1. l \in 1..n
      <4>1. PICK x \in 1..n : L[x] = A[j]
        BY <1>0, <2>4
      <4>2. L[x].id # K[n + 1].id
        OBVIOUS
      <4> QED
        BY <1>3, <2>4, <4>1, <4>2
    <3>2. A[i] = L[k] /\ A[j] = L[l] /\ B[j] = A[j]
      BY <1>3, <2>1, <2>2, <2>4, <3>1
    <3> QED
      BY <1>3, <1>o, <2>1, <2>2, <2>4, <3>1, <3>2
  <2> QED
    BY <2>3, <2>4
<1> QED
  BY <1>1, <1>2, <1>3 DEF Logged

\* A stroke is begun: it has no row yet.
LEMMA LoggedBegun ==
    ASSUME NEW now, NEW next, NEW L, NEW K, NEW n \in Nat, NEW A, NEW m \in Nat,
           Logged(now, L, n, A, m),
           \A i \in 1..n : K[i] = L[i] /\ L[i].id # K[n + 1].id,
           K[n + 1].kind = "stroke", next.strokes = Put(now.strokes, K[n + 1].target, "part")
    PROVE  Logged(next, K, n + 1, A, m)
<1> DEFINE z == K[n + 1].target
<1>0. /\ \A i \in 1..m : \E k \in 1..n : L[k] = A[i]
      /\ DOMAIN next.strokes = DOMAIN now.strokes \cup {z}
      /\ next.strokes[z] = "part"
      /\ \A s \in DOMAIN now.strokes : s # z => next.strokes[s] = now.strokes[s]
  BY DEF Logged, Put
<1> HIDE DEF z
<1>1. ASSUME NEW i \in 1..m PROVE \E k \in 1..(n + 1) : K[k] = A[i]
  <2>1. PICK k \in 1..n : L[k] = A[i]
    BY <1>0
  <2> QED
    BY <2>1
<1>2. ASSUME NEW k \in 1..(n + 1)
      PROVE  \/ \E i \in 1..m : A[i] = K[k]
             \/ /\ K[k].kind = "stroke"
                /\ K[k].target \in DOMAIN next.strokes => next.strokes[K[k].target] = "part"
  <2>1. CASE k = n + 1
    BY <1>0, <2>1 DEF z
  <2>2. CASE k # n + 1
    <3>1. k \in 1..n /\ K[k] = L[k]
      BY <2>2
    <3> QED
      BY <1>0, <3>1 DEF Logged
  <2> QED
    BY <2>1, <2>2
<1>3. ASSUME NEW i \in 1..m, NEW j \in 1..m, NEW k \in 1..(n + 1), NEW l \in 1..(n + 1),
             i < j, A[i] = K[k], A[j] = K[l]
      PROVE  k < l \/ A[j].kind = "stroke"
  <2>1. PICK x \in 1..n, y \in 1..n : L[x] = A[i] /\ L[y] = A[j]
    BY <1>0
  <2>2. L[x].id # K[n + 1].id /\ L[y].id # K[n + 1].id
    OBVIOUS
  <2>3. k \in 1..n /\ l \in 1..n
    BY <1>3, <2>1, <2>2
  <2> QED
    BY <1>3, <2>3 DEF Logged
<1> QED
  BY <1>1, <1>2, <1>3 DEF Logged

\* A stroke is ended: its action, from wherever it is in the log, gets a row.
LEMMA LoggedEnded ==
    ASSUME NEW now, NEW next, NEW L, NEW n \in Nat, NEW A, NEW B, NEW m \in Nat, NEW e \in 1..n,
           Logged(now, L, n, A, m), Distinct(L, n),
           \A i \in 1..m : B[i] = A[i],
           B[m + 1] = L[e], L[e].kind = "stroke",
           next.strokes = Put(now.strokes, L[e].target, "whole")
    PROVE  Logged(next, L, n, B, m + 1)
<1> DEFINE z == L[e].target
<1>0. /\ DOMAIN next.strokes = DOMAIN now.strokes \cup {z}
      /\ \A s \in DOMAIN now.strokes : s # z => next.strokes[s] = now.strokes[s]
  BY DEF Put
<1> HIDE DEF z
<1>o. \A i, j \in 1..m, k, l \in 1..n :
          i < j /\ A[i] = L[k] /\ A[j] = L[l] => k < l \/ A[j].kind = "stroke"
  BY DEF Logged
<1>1. ASSUME NEW i \in 1..(m + 1) PROVE \E k \in 1..n : L[k] = B[i]
  <2>1. CASE i = m + 1
    BY <2>1
  <2>2. CASE i # m + 1
    <3>1. i \in 1..m /\ B[i] = A[i]
      BY <2>2
    <3> QED
      BY <3>1 DEF Logged
  <2> QED
    BY <2>1, <2>2
<1>2. ASSUME NEW k \in 1..n
      PROVE  \/ \E i \in 1..(m + 1) : B[i] = L[k]
             \/ /\ L[k].kind = "stroke"
                /\ L[k].target \in DOMAIN next.strokes => next.strokes[L[k].target] = "part"
  <2>1. CASE k = e
    <3>1. m + 1 \in 1..(m + 1)
      OBVIOUS
    <3> QED
      BY <2>1, <3>1
  <2>2. CASE k # e /\ \E i \in 1..m : A[i] = L[k]
    <3>1. PICK i \in 1..m : A[i] = L[k]
      BY <2>2
    <3>2. i \in 1..(m + 1) /\ B[i] = L[k]
      BY <3>1
    <3> QED
      BY <3>2
  <2>3. CASE k # e /\ ~\E i \in 1..m : A[i] = L[k]
    <3>1. /\ L[k].kind = "stroke"
          /\ L[k].target \in DOMAIN now.strokes => now.strokes[L[k].target] = "part"
      BY <2>3 DEF Logged
    <3>2. L[k].target # z
      BY <2>3, <3>1 DEF Distinct, z
    <3> QED
      BY <1>0, <3>1, <3>2
  <2> QED
    BY <2>1, <2>2, <2>3
<1>3. ASSUME NEW i \in 1..(m + 1), NEW j \in 1..(m + 1), NEW k \in 1..n, NEW l \in 1..n,
             i < j, B[i] = L[k], B[j] = L[l]
      PROVE  k < l \/ B[j].kind = "stroke"
  <2>1. CASE j = m + 1
    BY <2>1
  <2>2. CASE j \in 1..m
    <3>1. i \in 1..m /\ B[i] = A[i] /\ B[j] = A[j]
      BY <1>3, <2>2
    <3> QED
      BY <1>3, <1>o, <2>2, <3>1
  <2> QED
    BY <2>1, <2>2
<1> QED
  BY <1>1, <1>2, <1>3 DEF Logged

\* The last action is undone; it has no row, or its row is the i-th.
LEMMA LoggedFront ==
    ASSUME NEW now, NEW next, NEW L, NEW K, NEW n \in Nat \ {0}, NEW A, NEW m \in Nat,
           Logged(now, L, n, A, m),
           \A k \in 1..(n - 1) : K[k] = L[k],
           \A s \in DOMAIN next.strokes :
              s \in DOMAIN now.strokes /\ next.strokes[s] = now.strokes[s],
           \A i \in 1..m : A[i].id # L[n].id
    PROVE  Logged(next, K, n - 1, A, m)
<1>o. \A i, j \in 1..m, k, l \in 1..n :
          i < j /\ A[i] = L[k] /\ A[j] = L[l] => k < l \/ A[j].kind = "stroke"
  BY DEF Logged
<1>1. ASSUME NEW i \in 1..m PROVE \E k \in 1..(n - 1) : K[k] = A[i]
  <2>1. PICK k \in 1..n : L[k] = A[i]
    BY DEF Logged
  <2>2. k # n
    BY <2>1
  <2>3. k \in 1..(n - 1)
    BY <2>2
  <2> QED
    BY <2>1, <2>3
<1>2. ASSUME NEW k \in 1..(n - 1)
      PROVE  \/ \E i \in 1..m : A[i] = K[k]
             \/ /\ K[k].kind = "stroke"
                /\ K[k].target \in DOMAIN next.strokes => next.strokes[K[k].target] = "part"
  <2>1. k \in 1..n /\ K[k] = L[k]
    OBVIOUS
  <2> QED
    BY <2>1 DEF Logged
<1>3. ASSUME NEW i \in 1..m, NEW j \in 1..m, NEW k \in 1..(n - 1), NEW l \in 1..(n - 1),
             i < j, A[i] = K[k], A[j] = K[l]
      PROVE  k < l \/ A[j].kind = "stroke"
  <2>1. k \in 1..n /\ l \in 1..n /\ K[k] = L[k] /\ K[l] = L[l]
    OBVIOUS
  <2>2. A[i] = L[k] /\ A[j] = L[l]
    BY <1>3, <2>1
  <2> QED
    BY <1>3, <1>o, <2>1, <2>2
<1> QED
  BY <1>1, <1>2, <1>3 DEF Logged

\* The row of the last action: after it there are only strokes' rows.
RowOfLast(L, n, A, m) ==
    \A e \in 1..m : A[e].id = L[n].id =>
        A[e] = L[n] /\ \A i \in 1..m : i > e => A[i].kind = "stroke"

LEMMA LastRow ==
    ASSUME NEW now, NEW L, NEW n \in Nat \ {0}, NEW A, NEW m \in Nat,
           Logged(now, L, n, A, m), Distinct(L, n)
    PROVE  RowOfLast(L, n, A, m)
<1> SUFFICES ASSUME NEW e \in 1..m, A[e].id = L[n].id
             PROVE  A[e] = L[n] /\ \A i \in 1..m : i > e => A[i].kind = "stroke"
  BY DEF RowOfLast
<1>e. A[e] = L[n]
  <2>1. PICK k \in 1..n : L[k] = A[e]
    BY DEF Logged
  <2>2. n \in 1..n /\ L[k].id = L[n].id
    BY <2>1
  <2>3. k = n
    BY <2>2 DEF Distinct
  <2> QED
    BY <2>1, <2>3
<1>r. \A i \in 1..m : i > e => A[i].kind = "stroke"
  <2>1. ASSUME NEW i \in 1..m, i > e PROVE A[i].kind = "stroke"
    <3>1. PICK k \in 1..n : L[k] = A[i]
      BY DEF Logged
    <3>2. n \in 1..n /\ ~(n < k)
      OBVIOUS
    <3> QED
      BY <1>e, <2>1, <3>1, <3>2 DEF Logged
  <2> QED
    BY <2>1
<1> QED
  BY <1>e, <1>r

BothLess(now, next, L, K, n, A, B, m, e) ==
    /\ Logged(now, L, n, A, m) /\ Distinct(L, n) /\ Distinct(A, m)
    /\ \A k \in 1..(n - 1) : K[k] = L[k]
    /\ \A k \in 1..(m - 1) : B[k] = A[IF k < e THEN k ELSE k + 1]
    /\ \A s \in DOMAIN next.strokes :
          s \in DOMAIN now.strokes /\ next.strokes[s] = now.strokes[s]
    /\ A[e].id = L[n].id

LEMMA LoggedLess ==
    ASSUME NEW now, NEW next, NEW L, NEW K, NEW n \in Nat \ {0}, NEW A, NEW B, NEW m \in Nat, NEW e \in 1..m,
           BothLess(now, next, L, K, n, A, B, m, e)
    PROVE  Logged(next, K, n - 1, B, m - 1)
<1>h. /\ Logged(now, L, n, A, m) /\ Distinct(L, n) /\ Distinct(A, m)
      /\ \A k \in 1..(n - 1) : K[k] = L[k]
      /\ \A k \in 1..(m - 1) : B[k] = A[IF k < e THEN k ELSE k + 1]
      /\ \A s \in DOMAIN next.strokes :
            s \in DOMAIN now.strokes /\ next.strokes[s] = now.strokes[s]
      /\ A[e].id = L[n].id
  BY DEF BothLess
<1> USE <1>h
<1>e. A[e] = L[n]
  BY LastRow DEF RowOfLast
<1>o. \A i, j \in 1..m, k, l \in 1..n :
          i < j /\ A[i] = L[k] /\ A[j] = L[l] => k < l \/ A[j].kind = "stroke"
  BY DEF Logged
<1>k. \A k \in 1..(n - 1) : L[k] # L[n]
  <2>1. \A k \in 1..(n - 1) : k \in 1..n /\ n \in 1..n /\ k # n
    OBVIOUS
  <2> QED
    BY <2>1 DEF Distinct
<1>1. ASSUME NEW i \in 1..(m - 1) PROVE \E k \in 1..(n - 1) : K[k] = B[i]
  <2> DEFINE a == IF i < e THEN i ELSE i + 1
  <2>1. a \in 1..m /\ a # e /\ B[i] = A[a]
    OBVIOUS
  <2> HIDE DEF a
  <2>2. PICK k \in 1..n : L[k] = A[a]
    BY <2>1 DEF Logged
  <2>3. k # n
    BY <1>e, <2>1, <2>2 DEF Distinct
  <2>4. k \in 1..(n - 1)
    BY <2>3
  <2> QED
    BY <2>1, <2>2, <2>4
<1>2. ASSUME NEW k \in 1..(n - 1)
      PROVE  \/ \E i \in 1..(m - 1) : B[i] = K[k]
             \/ /\ K[k].kind = "stroke"
                /\ K[k].target \in DOMAIN next.strokes => next.strokes[K[k].target] = "part"
  <2>1. k \in 1..n /\ K[k] = L[k] /\ L[k] # L[n]
    BY <1>k
  <2>2. CASE \E i \in 1..m : A[i] = L[k]
    <3>1. PICK i \in 1..m : A[i] = L[k]
      BY <2>2
    <3>2. i # e
      BY <1>e, <2>1, <3>1
    <3> DEFINE a == IF i < e THEN i ELSE i - 1
    <3>3. a \in 1..(m - 1) /\ B[a] = A[i]
      BY <3>2
    <3> QED
      BY <2>1, <3>1, <3>3
  <2>3. CASE ~\E i \in 1..m : A[i] = L[k]
    <3>1. /\ L[k].kind = "stroke"
          /\ L[k].target \in DOMAIN now.strokes => now.strokes[L[k].target] = "part"
      BY <2>1, <2>3 DEF Logged
    <3> QED
      BY <2>1, <3>1
  <2> QED
    BY <2>2, <2>3
<1>3. ASSUME NEW i \in 1..(m - 1), NEW j \in 1..(m - 1), NEW k \in 1..(n - 1), NEW l \in 1..(n - 1),
             i < j, B[i] = K[k], B[j] = K[l]
      PROVE  k < l \/ B[j].kind = "stroke"
  <2> DEFINE a == IF i < e THEN i ELSE i + 1
             z == IF j < e THEN j ELSE j + 1
  <2>1. a \in 1..m /\ z \in 1..m /\ B[i] = A[a] /\ B[j] = A[z] /\ a < z
    BY <1>3
  <2>2. k \in 1..n /\ l \in 1..n /\ K[k] = L[k] /\ K[l] = L[l]
    OBVIOUS
  <2> HIDE DEF a, z
  <2>3. A[a] = L[k] /\ A[z] = L[l]
    BY <1>3, <2>1, <2>2
  <2> QED
    BY <1>o, <2>1, <2>2, <2>3
<1> QED
  BY <1>1, <1>2, <1>3 DEF Logged

-----------------------------------------------------------------------------
LEMMA BackedMore ==
    ASSUME NEW A, NEW B, NEW n \in Nat, \A i \in 1..n : B[i] = A[i], NEW d, NEW e, Backed(d, A, n),
           \A x \in DOMAIN e.texts :
              \/ x \in DOMAIN d.texts /\ ~Takes(B[n + 1], x)
              \/ B[n + 1].kind = "set" /\ B[n + 1].target = x,
           \A s \in DOMAIN e.strokes : e.strokes[s] = "whole" =>
              \/ s \in DOMAIN d.strokes /\ d.strokes[s] = "whole" /\ B[n + 1].kind # "clear"
              \/ B[n + 1].kind = "stroke" /\ B[n + 1].target = s
    PROVE  Backed(e, B, n + 1)
<1>1. /\ \A x : TextFrom(A, x, n) /\ ~Takes(B[n + 1], x) => TextFrom(B, x, n + 1)
      /\ \A s : StrokeFrom(A, s, n) /\ B[n + 1].kind # "clear" => StrokeFrom(B, s, n + 1)
      /\ \A x : B[n + 1].kind = "set" /\ B[n + 1].target = x => TextFrom(B, x, n + 1)
      /\ \A s : B[n + 1].kind = "stroke" /\ B[n + 1].target = s => StrokeFrom(B, s, n + 1)
  BY FromMore
<1> QED
  BY <1>1 DEF Backed

LEMMA BackedWithin ==
    ASSUME NEW d, NEW e, NEW A, NEW n, Within(d, e), Backed(e, A, n)
    PROVE  Backed(d, A, n)
  BY DEF Within, Backed

LEMMA BackedBlank == \A A, n : Backed(Blank, A, n)
  BY DEF Backed, Blank, NoMap

\* A table and the actions of its rows.
LEMMA ActsAre ==
    ASSUME NEW ids, NEW t \in PenTable(ids)
    PROVE  /\ Len(t.rows) \in Nat /\ DOMAIN t.rows = 1..Len(t.rows) /\ t.rows \in Seq(Row(ids))
           /\ t.now \in Drawing
           /\ \A i \in 1..Len(t.rows) :
                 /\ Acts(t.rows)[i] = t.rows[i].act
                 /\ t.rows[i] \in Row(ids) /\ t.rows[i].act \in Action(ids)
<1>1. t.rows \in Seq(Row(ids)) /\ t.now \in Drawing
  BY DEF PenTable
<1>2. Len(t.rows) \in Nat /\ DOMAIN t.rows = 1..Len(t.rows)
  BY <1>1, LenProperties
<1>3. \A i \in 1..Len(t.rows) : t.rows[i] \in Row(ids)
  BY <1>1, <1>2
<1> QED
  BY <1>1, <1>2, <1>3, RowShape DEF Acts

LEMMA StoreIs ==
    ASSUME NEW ids, NEW t \in PenTable(ids), NEW row \in Row(ids), NEW now
    PROVE  LET u == Store(t, now, row)
               m == Len(t.rows)
           IN  /\ u.now = now /\ Len(u.rows) = m + 1 /\ u.rows[m + 1] = row
               /\ Acts(u.rows)[m + 1] = row.act
               /\ \A i \in 1..m : u.rows[i] = t.rows[i] /\ Acts(u.rows)[i] = Acts(t.rows)[i]
<1> DEFINE m == Len(t.rows)
           more == Append(t.rows, row)
<1>1. m \in Nat /\ t.rows \in Seq(Row(ids))
  BY ActsAre
<1>2. /\ more \in Seq(Row(ids)) /\ Len(more) = m + 1 /\ more[m + 1] = row
      /\ \A i \in 1..m : more[i] = t.rows[i]
  BY <1>1
<1> HIDE DEF more
<1>3. DOMAIN more = 1..(m + 1) /\ DOMAIN t.rows = 1..m
  BY <1>1, <1>2, LenProperties
<1>4. \A i \in 1..(m + 1) : Acts(more)[i] = more[i].act
  BY <1>3 DEF Acts
<1>5. \A i \in 1..m : Acts(t.rows)[i] = t.rows[i].act
  BY <1>3 DEF Acts
<1>6. Store(t, now, row) = [now |-> now, rows |-> more]
  BY DEF Store, more
<1> QED
  BY <1>1, <1>2, <1>4, <1>5, <1>6

Fresh(log, id) == \A i \in DOMAIN log : log[i].id # id

\* No row has the id of an action that is not in the log.
LEMMA FreshRow ==
    ASSUME NEW ids, NEW p \in PenState(ids), NEW t \in PenTable(ids), Linked(p, t), NEW id,
           Fresh(p.log, id)
    PROVE  \A i \in 1..Len(t.rows) : t.rows[i].act.id # id
<1>1. ASSUME NEW i \in 1..Len(t.rows) PROVE t.rows[i].act.id # id
  <2>1. PICK k \in 1..Len(p.log) : p.log[k] = Acts(t.rows)[i]
    BY DEF Linked, Logged
  <2>2. k \in DOMAIN p.log
    BY LenProperties DEF PenState
  <2> QED
    BY <2>1, <2>2, ActsAre DEF Fresh
<1> QED
  BY <1>1

LEMMA SoundStored ==
    ASSUME NEW ids, NEW t \in PenTable(ids), NEW row \in Row(ids), NEW now, Sound(t),
           \A i \in 1..Len(t.rows) :
              /\ t.rows[i].act.id # row.act.id
              /\ t.rows[i].act.kind = "stroke" /\ row.act.kind = "stroke" =>
                    t.rows[i].act.target # row.act.target,
           Modest(row), Backed(row.before, Acts(t.rows), Len(t.rows)),
           Backed(now, Acts(Store(t, now, row).rows), Len(t.rows) + 1)
    PROVE  Sound(Store(t, now, row))
<1> DEFINE u == Store(t, now, row)
           m == Len(t.rows)
           A == Acts(t.rows)
           B == Acts(u.rows)
<1>1. /\ m \in Nat /\ u.now = now /\ Len(u.rows) = m + 1 /\ u.rows[m + 1] = row
      /\ B[m + 1] = row.act
      /\ \A i \in 1..m : u.rows[i] = t.rows[i] /\ B[i] = A[i] /\ A[i] = t.rows[i].act
  BY ActsAre, StoreIs
<1>2. /\ Distinct(A, m) /\ Backed(now, B, m + 1) /\ Backed(row.before, A, m)
      /\ \A i \in 1..m : Modest(t.rows[i]) /\ Backed(t.rows[i].before, A, i - 1)
  BY DEF Sound
<1> HIDE DEF u, m, A, B
<1>3. Distinct(B, m + 1)
  BY <1>1, <1>2, DistinctMore DEF m
<1>4. ASSUME NEW i \in 1..(m + 1) PROVE Modest(u.rows[i]) /\ Backed(u.rows[i].before, B, i - 1)
  <2>1. \A k \in 1..(i - 1) : B[k] = A[k]
    BY <1>1
  <2>2. \A d : Backed(d, A, i - 1) => Backed(d, B, i - 1)
    BY <2>1, FromSame
  <2>3. CASE i = m + 1
    <3>1. i - 1 = m
      BY <1>1, <2>3
    <3> QED
      BY <1>1, <1>2, <2>2, <2>3, <3>1
  <2>4. CASE i \in 1..m
    BY <1>1, <1>2, <2>2, <2>4
  <2> QED
    BY <1>1, <2>3, <2>4
<1>5. Sound(u)
  BY <1>1, <1>2, <1>3, <1>4 DEF Sound, B
<1> QED
  BY <1>5 DEF u

LEMMA LogIs ==
    ASSUME NEW ids, NEW p \in PenState(ids)
    PROVE  /\ p.now \in Drawing /\ p.log \in Seq(Action(ids)) /\ Len(p.log) \in Nat
           /\ DOMAIN p.log = 1..Len(p.log)
           /\ \A i \in 1..Len(p.log) : p.log[i] \in Action(ids)
  BY LenProperties DEF PenState

LEMMA DidIs ==
    ASSUME NEW ids, NEW p \in PenState(ids), NEW now, NEW act
    PROVE  LET q == Did(p, now, act)
               n == Len(p.log)
           IN  /\ q.now = now /\ Len(q.log) = n + 1 /\ q.log[n + 1] = act
               /\ \A i \in 1..n : q.log[i] = p.log[i]
               /\ DOMAIN q.log = 1..(n + 1)
<1>1. p.log \in Seq(Action(ids) \cup {act})
  BY SeqGrows, LogIs
<1>2. act \in Action(ids) \cup {act}
  OBVIOUS
<1>3. /\ Append(p.log, act) \in Seq(Action(ids) \cup {act})
      /\ Len(Append(p.log, act)) = Len(p.log) + 1
      /\ Append(p.log, act)[Len(p.log) + 1] = act
      /\ \A i \in 1..Len(p.log) : Append(p.log, act)[i] = p.log[i]
  BY <1>1, <1>2
<1>4. DOMAIN Append(p.log, act) = 1..(Len(p.log) + 1)
  BY <1>3, LenProperties
<1> QED
  BY <1>3, <1>4 DEF Did

LEMMA DrawingIs ==
    ASSUME NEW d \in Drawing
    PROVE  /\ d = [strokes |-> d.strokes, texts |-> d.texts]
           /\ \A s, c : WithStroke(d, s, c).strokes = Put(d.strokes, s, c) /\ WithStroke(d, s, c).texts = d.texts
           /\ \A x, v : WithText(d, x, v).texts = Put(d.texts, x, v) /\ WithText(d, x, v).strokes = d.strokes
           /\ \A x : LessText(d, x).texts = Without(d.texts, {x}) /\ LessText(d, x).strokes = d.strokes
<1>1. d = [strokes |-> d.strokes, texts |-> d.texts]
  BY DEF Drawing
<1> QED
  BY <1>1 DEF WithStroke, WithText, LessText

LEMMA PutIs ==
    ASSUME NEW f, NEW x, NEW v
    PROVE  /\ DOMAIN Put(f, x, v) = DOMAIN f \cup {x} /\ Put(f, x, v)[x] = v
           /\ \A y \in DOMAIN f : y # x => Put(f, x, v)[y] = f[y]
  BY DEF Put

LEMMA WithoutIs ==
    ASSUME NEW f, NEW S
    PROVE  /\ DOMAIN Without(f, S) = DOMAIN f \ S
           /\ \A y \in DOMAIN f \ S : Without(f, S)[y] = f[y]
  BY DEF Without, Restrict

LEMMA OverIs ==
    ASSUME NEW f, NEW g
    PROVE  /\ DOMAIN Over(f, g) = DOMAIN f \cup DOMAIN g
           /\ \A x \in DOMAIN f : Over(f, g)[x] = f[x]
           /\ \A x \in DOMAIN g : x \notin DOMAIN f => Over(f, g)[x] = g[x]
  BY DEF Over

-----------------------------------------------------------------------------
\* The parts of Linked, with the shapes of the log and of the rows.
LEMMA LinkedIs ==
    ASSUME NEW ids, NEW p \in PenState(ids), NEW t \in PenTable(ids), Linked(p, t)
    PROVE  /\ Distinct(p.log, Len(p.log))
           /\ Backed(p.now, p.log, Len(p.log))
           /\ Logged(p.now, p.log, Len(p.log), Acts(t.rows), Len(t.rows))
           /\ Within(p.now, t.now)
           /\ Len(p.log) \in Nat /\ Len(t.rows) \in Nat
           /\ p.now \in Drawing /\ t.now \in Drawing
           /\ DOMAIN p.log = 1..Len(p.log) /\ DOMAIN t.rows = 1..Len(t.rows)
  BY LogIs, ActsAre DEF Linked

\* Nothing is stored of a stroke that begins.
LEMMA BeginLinked ==
    ASSUME NEW ids, NEW p \in PenState(ids), NEW t \in PenTable(ids), Linked(p, t),
           NEW id, NEW s,
           Fresh(p.log, id), \A i \in DOMAIN p.log : p.log[i].kind = "stroke" => p.log[i].target # s
    PROVE  Linked(Did(p, WithStroke(p.now, s, "part"), Stroke(id, s)), t)
<1> DEFINE q == Did(p, WithStroke(p.now, s, "part"), Stroke(id, s))
           L == p.log
           K == q.log
           n == Len(L)
           A == Acts(t.rows)
           m == Len(t.rows)
<1>1. /\ Distinct(L, n) /\ Backed(p.now, L, n) /\ Logged(p.now, L, n, A, m) /\ Within(p.now, t.now)
      /\ n \in Nat /\ m \in Nat /\ p.now \in Drawing /\ DOMAIN L = 1..n
  BY LinkedIs
<1>2. /\ q.now = WithStroke(p.now, s, "part") /\ Len(K) = n + 1 /\ K[n + 1] = Stroke(id, s)
      /\ \A i \in 1..n : K[i] = L[i]
  BY DidIs
<1>3. q.now.strokes = Put(p.now.strokes, s, "part") /\ q.now.texts = p.now.texts
  BY <1>1, <1>2, DrawingIs
<1>4. K[n + 1].id = id /\ K[n + 1].kind = "stroke" /\ K[n + 1].target = s
  BY <1>2 DEF Stroke
<1>5. \A i \in 1..n : L[i].id # id /\ (L[i].kind = "stroke" => L[i].target # s)
  BY <1>1 DEF Fresh
<1> HIDE DEF q, L, K, n, A, m
<1>6. Distinct(K, n + 1)
  BY <1>1, <1>2, <1>4, <1>5, DistinctMore
<1>7. Logged(q.now, K, n + 1, A, m)
  <2>1. \A i \in 1..n : K[i] = L[i] /\ L[i].id # K[n + 1].id
    BY <1>2, <1>4, <1>5
  <2>2. q.now.strokes = Put(p.now.strokes, K[n + 1].target, "part")
    BY <1>3, <1>4
  <2> QED
    BY <1>1, <1>4, <2>1, <2>2, LoggedBegun
<1>p. /\ DOMAIN q.now.strokes = DOMAIN p.now.strokes \cup {s} /\ q.now.strokes[s] = "part"
      /\ \A z \in DOMAIN p.now.strokes : z # s => q.now.strokes[z] = p.now.strokes[z]
  BY <1>3 DEF Put
<1>8. Backed(q.now, K, n + 1)
  <2>1. \A x \in DOMAIN q.now.texts : x \in DOMAIN p.now.texts /\ ~Takes(K[n + 1], x)
    BY <1>3, <1>4 DEF Takes
  <2>2. \A z \in DOMAIN q.now.strokes : q.now.strokes[z] = "whole" =>
            z \in DOMAIN p.now.strokes /\ p.now.strokes[z] = "whole" /\ K[n + 1].kind # "clear"
    BY <1>p, <1>4
  <2> QED
    BY <1>1, <1>2, <2>1, <2>2, BackedMore
<1>9. Within(q.now, t.now)
  BY <1>1, <1>3, <1>p DEF Within
<1>10. Linked(q, t)
  BY <1>2, <1>6, <1>7, <1>8, <1>9 DEF Linked, K, A, m
<1> QED
  BY <1>10 DEF q

\* The row of a stroke that ends: that of the action it began with.
LEMMA EndLinked ==
    ASSUME NEW ids, NEW p \in PenState(ids), NEW t \in PenTable(ids), Linked(p, t), Sound(t),
           NEW s, NEW e \in BeganBy(p, s), StrokeFrom(p.log, s, Len(p.log)),
           \A i \in DOMAIN t.rows : t.rows[i].act.kind = "stroke" => t.rows[i].act.target # s
    PROVE  LET u == StoreAction(t, [act |-> p.log[e], before |-> Blank])
           IN  /\ Linked([p EXCEPT !.now = WithStroke(@, s, "whole")], u)
               /\ Sound(u)
<1> DEFINE row == [act |-> p.log[e], before |-> Blank]
           u == StoreAction(t, row)
           q == [p EXCEPT !.now = WithStroke(@, s, "whole")]
           L == p.log
           n == Len(L)
           A == Acts(t.rows)
           B == Acts(u.rows)
           m == Len(t.rows)
<1>1. /\ Distinct(L, n) /\ Backed(p.now, L, n) /\ Logged(p.now, L, n, A, m) /\ Within(p.now, t.now)
      /\ n \in Nat /\ m \in Nat /\ p.now \in Drawing /\ t.now \in Drawing
      /\ DOMAIN L = 1..n /\ DOMAIN t.rows = 1..m
  BY LinkedIs
<1>2. e \in 1..n /\ L[e].kind = "stroke" /\ L[e].target = s
  BY <1>1 DEF BeganBy
<1>3. row \in Row(ids)
  <2>1. L[e] \in Action(ids)
    BY <1>2, LogIs
  <2> QED
    BY <2>1, BlankDrawing DEF Row
<1>4. row.act = L[e] /\ row.before = Blank
  OBVIOUS
<1>5. u = Store(t, WithStroke(t.now, s, "whole"), row)
  BY <1>2, <1>4 DEF StoreAction
<1>6. /\ u.now = WithStroke(t.now, s, "whole") /\ Len(u.rows) = m + 1
      /\ B[m + 1] = L[e] /\ \A i \in 1..m : B[i] = A[i]
  BY <1>3, <1>4, <1>5, StoreIs
<1>7. q.now = WithStroke(p.now, s, "whole") /\ q.log = L
  BY DEF PenState
<1>s. /\ q.now.strokes = Put(p.now.strokes, s, "whole") /\ q.now.texts = p.now.texts
      /\ u.now.strokes = Put(t.now.strokes, s, "whole") /\ u.now.texts = t.now.texts
  BY <1>1, <1>6, <1>7, DrawingIs
<1>r. \A i \in 1..m : A[i] = t.rows[i].act /\ (A[i].kind = "stroke" => A[i].target # s)
  BY <1>1, ActsAre
<1> HIDE DEF row, u, q, L, n, A, B, m
<1>p. /\ DOMAIN q.now.strokes = DOMAIN p.now.strokes \cup {s}
      /\ \A z \in DOMAIN p.now.strokes : z # s => q.now.strokes[z] = p.now.strokes[z]
      /\ DOMAIN u.now.strokes = DOMAIN t.now.strokes \cup {s} /\ u.now.strokes[s] = "whole"
      /\ \A z \in DOMAIN t.now.strokes : z # s => u.now.strokes[z] = t.now.strokes[z]
  BY <1>s DEF Put
<1>8. Logged(q.now, L, n, B, m + 1)
  BY <1>1, <1>2, <1>6, <1>s, LoggedEnded
<1>9. Backed(q.now, L, n)
  BY <1>1, <1>s, <1>p DEF Backed, L, n
<1>10. Within(q.now, u.now)
  BY <1>1, <1>s, <1>p DEF Within
<1>11. Linked(q, u)
  BY <1>1, <1>6, <1>7, <1>8, <1>9, <1>10 DEF Linked, B, n
<1>12. Backed(u.now, B, m + 1)
  <2>0. Backed(t.now, A, m)
    BY DEF Sound, A, m
  <2>1. \A x \in DOMAIN u.now.texts : x \in DOMAIN t.now.texts /\ ~Takes(B[m + 1], x)
    BY <1>2, <1>6, <1>s DEF Takes
  <2>2. \A z \in DOMAIN u.now.strokes : u.now.strokes[z] = "whole" =>
            \/ z \in DOMAIN t.now.strokes /\ t.now.strokes[z] = "whole" /\ B[m + 1].kind # "clear"
            \/ B[m + 1].kind = "stroke" /\ B[m + 1].target = z
    BY <1>2, <1>6, <1>p
  <2> QED
    BY <1>1, <1>6, <2>0, <2>1, <2>2, BackedMore
<1>13. ASSUME NEW i \in 1..m PROVE A[i].id # L[e].id
  <2>1. PICK k \in 1..n : L[k] = A[i]
    BY <1>1 DEF Logged
  <2> QED
    BY <1>1, <1>2, <1>r, <2>1 DEF Distinct
<1>14. Sound(Store(t, WithStroke(t.now, s, "whole"), row))
  <2>1. Modest(row)
    BY <1>4 DEF Modest, Blank, NoMap
  <2>2. Backed(row.before, Acts(t.rows), Len(t.rows))
    BY <1>4, BackedBlank
  <2>3. Backed(WithStroke(t.now, s, "whole"), Acts(Store(t, WithStroke(t.now, s, "whole"), row).rows), Len(t.rows) + 1)
    BY <1>5, <1>6, <1>12 DEF B, m
  <2>4. \A i \in 1..Len(t.rows) :
              /\ t.rows[i].act.id # row.act.id
              /\ t.rows[i].act.kind = "stroke" /\ row.act.kind = "stroke" =>
                    t.rows[i].act.target # row.act.target
    BY <1>2, <1>4, <1>r, <1>13 DEF m
  <2> QED
    BY <1>3, <2>1, <2>2, <2>3, <2>4, SoundStored
<1>15. Sound(u)
  BY <1>5, <1>14
<1> QED
  BY <1>11, <1>15 DEF q, u, row

\* A drawing after an action that is no stroke's.
Follows(d, e, act) ==
    /\ \A s \in DOMAIN e.strokes :
          s \in DOMAIN d.strokes /\ e.strokes[s] = d.strokes[s] /\ act.kind # "clear"
    /\ \A x \in DOMAIN e.texts :
          \/ x \in DOMAIN d.texts /\ ~Takes(act, x)
          \/ act.kind = "set" /\ act.target = x

\* An action that is logged and stored at once.
LEMMA DoneLinked ==
    ASSUME NEW ids, NEW p \in PenState(ids), NEW t \in PenTable(ids), Linked(p, t), Sound(t),
           NEW row \in Row(ids), row.act.kind # "stroke",
           Fresh(p.log, row.act.id),
           Modest(row), Backed(row.before, Acts(t.rows), Len(t.rows)),
           NEW d, NEW e, Follows(p.now, d, row.act), Follows(t.now, e, row.act), Within(d, e)
    PROVE  Linked(Did(p, d, row.act), Store(t, e, row)) /\ Sound(Store(t, e, row))
<1> DEFINE q == Did(p, d, row.act)
           u == Store(t, e, row)
           L == p.log
           K == q.log
           n == Len(L)
           A == Acts(t.rows)
           B == Acts(u.rows)
           m == Len(t.rows)
           act == row.act
<1>1. /\ Distinct(L, n) /\ Backed(p.now, L, n) /\ Logged(p.now, L, n, A, m)
      /\ n \in Nat /\ m \in Nat /\ DOMAIN L = 1..n /\ DOMAIN t.rows = 1..m
  BY LinkedIs
<1>2. /\ q.now = d /\ Len(K) = n + 1 /\ K[n + 1] = act
      /\ \A i \in 1..n : K[i] = L[i]
  BY DidIs
<1>3. /\ u.now = e /\ Len(u.rows) = m + 1 /\ B[m + 1] = act
      /\ \A i \in 1..m : B[i] = A[i]
  BY StoreIs
<1>4. \A i \in 1..n : L[i].id # act.id
  BY <1>1 DEF Fresh
<1>5. \A i \in 1..m : t.rows[i].act.id # act.id
  <2>1. \A i \in 1..Len(t.rows) : t.rows[i].act.id # row.act.id
    BY FreshRow
  <2> QED
    BY <2>1
<1>6. Backed(t.now, A, m)
  BY DEF Sound
<1>k. act.kind # "stroke" /\ Follows(p.now, d, act) /\ Follows(t.now, e, act)
  OBVIOUS
<1> HIDE DEF q, u, L, K, n, A, B, m, act
<1>7. Distinct(K, n + 1)
  <2>1. \A i \in 1..n : /\ L[i].id # K[n + 1].id
                        /\ L[i].kind = "stroke" /\ K[n + 1].kind = "stroke" => L[i].target # K[n + 1].target
    BY <1>2, <1>4, <1>k
  <2> QED
    BY <1>1, <1>2, <2>1, DistinctMore
<1>8. Logged(d, K, n + 1, B, m + 1)
  <2>1. \A i \in 1..n : K[i] = L[i] /\ L[i].id # K[n + 1].id
    BY <1>2, <1>4
  <2>2. \A s \in DOMAIN d.strokes : s \in DOMAIN p.now.strokes /\ d.strokes[s] = p.now.strokes[s]
    BY <1>k DEF Follows
  <2>3. B[m + 1] = K[n + 1]
    BY <1>2, <1>3
  <2>4. Logged(p.now, L, n, A, m) /\ n \in Nat /\ m \in Nat /\ \A i \in 1..m : B[i] = A[i]
    BY <1>1, <1>3
  <2> QED
    <3>1. BothGrow(p.now, d, L, K, n, A, B, m)
      BY <2>1, <2>2, <2>3, <2>4 DEF BothGrow
    <3> QED
      BY <1>1, <3>1, LoggedBoth
<1>9. ASSUME NEW c, NEW f, NEW G, NEW H, NEW k \in Nat, Follows(c, f, act), Backed(c, G, k),
             \A i \in 1..k : H[i] = G[i], H[k + 1] = act
      PROVE  Backed(f, H, k + 1)
  <2>1. \A x \in DOMAIN f.texts :
              \/ x \in DOMAIN c.texts /\ ~Takes(H[k + 1], x)
              \/ H[k + 1].kind = "set" /\ H[k + 1].target = x
    BY <1>9 DEF Follows
  <2>2. \A s \in DOMAIN f.strokes : f.strokes[s] = "whole" =>
              \/ s \in DOMAIN c.strokes /\ c.strokes[s] = "whole" /\ H[k + 1].kind # "clear"
              \/ H[k + 1].kind = "stroke" /\ H[k + 1].target = s
    BY <1>9 DEF Follows
  <2> QED
    BY <1>9, <2>1, <2>2, BackedMore
<1>10. Backed(d, K, n + 1)
  BY <1>1, <1>2, <1>9, <1>k
<1>11. Backed(e, B, m + 1)
  BY <1>1, <1>3, <1>6, <1>9, <1>k
<1>12. Linked(q, u)
  BY <1>2, <1>3, <1>7, <1>8, <1>10 DEF Linked, K, B
<1>13. Sound(u)
  <2>1. Backed(e, Acts(Store(t, e, row).rows), Len(t.rows) + 1)
    BY <1>11 DEF B, m, u
  <2>2. \A i \in 1..Len(t.rows) :
              /\ t.rows[i].act.id # row.act.id
              /\ t.rows[i].act.kind = "stroke" /\ row.act.kind = "stroke" =>
                    t.rows[i].act.target # row.act.target
    BY <1>5, <1>k DEF m, act
  <2>3. Sound(Store(t, e, row))
    BY <2>1, <2>2, SoundStored
  <2> QED
    BY <2>3 DEF u
<1> QED
  BY <1>12, <1>13 DEF q, u, act

LEMMA SetLinked ==
    ASSUME NEW ids, NEW p \in PenState(ids), NEW t \in PenTable(ids), Linked(p, t), Sound(t),
           NEW id \in ids, NEW x \in Texts, NEW v,
           Fresh(p.log, id)
    PROVE  LET prior == [Blank EXCEPT !.texts = Restrict(p.now.texts, {x} \cap DOMAIN p.now.texts)]
               u == StoreText(t, [act |-> Set(id, x), before |-> prior], v)
           IN  Linked(Did(p, WithText(p.now, x, v), Set(id, x)), u) /\ Sound(u)
<1> DEFINE prior == [Blank EXCEPT !.texts = Restrict(p.now.texts, {x} \cap DOMAIN p.now.texts)]
           row == [act |-> Set(id, x), before |-> prior]
           d == WithText(p.now, x, v)
           e == WithText(t.now, x, v)
<1>1. Within(p.now, t.now) /\ p.now \in Drawing /\ t.now \in Drawing
  BY LinkedIs
<1>2. /\ prior.strokes = NoMap /\ prior.texts = Restrict(p.now.texts, {x} \cap DOMAIN p.now.texts)
      /\ prior = [strokes |-> NoMap, texts |-> Restrict(p.now.texts, {x} \cap DOMAIN p.now.texts)]
  BY DEF Blank
<1>3. prior \in Drawing
  BY <1>1, <1>2, MapOps, BlankDrawing DEF Drawing, Blank
<1>4. row \in Row(ids) /\ row.act = Set(id, x) /\ row.before = prior
  BY <1>3, ActionIn DEF Row
<1>5. row.act.kind = "set" /\ row.act.target = x /\ row.act.id = id
  BY <1>4 DEF Set
<1>d. DOMAIN prior.texts = {x} \cap DOMAIN p.now.texts /\ DOMAIN prior.strokes = {}
      /\ \A y \in DOMAIN prior.texts : prior.texts[y] = p.now.texts[y]
  BY <1>2 DEF Restrict, NoMap
<1>e. /\ d.texts = Put(p.now.texts, x, v) /\ d.strokes = p.now.strokes
      /\ e.texts = Put(t.now.texts, x, v) /\ e.strokes = t.now.strokes
  BY <1>1, DrawingIs
<1>u. StoreText(t, row, v) = Store(t, e, row)
  BY <1>5 DEF StoreText
<1> HIDE DEF prior, row, d, e
<1>6. Modest(row)
  BY <1>4, <1>5, <1>d DEF Modest
<1>7. Backed(row.before, Acts(t.rows), Len(t.rows))
  <2>1. Within(prior, t.now)
    BY <1>1, <1>d DEF Within
  <2>2. Backed(t.now, Acts(t.rows), Len(t.rows))
    BY DEF Sound
  <2> QED
    BY <1>4, <2>1, <2>2, BackedWithin
<1>8. Follows(p.now, d, row.act) /\ Follows(t.now, e, row.act) /\ Within(d, e)
  BY <1>1, <1>5, <1>e DEF Follows, Within, Put, Takes
<1>9. Linked(Did(p, d, row.act), Store(t, e, row)) /\ Sound(Store(t, e, row))
  BY <1>4, <1>5, <1>6, <1>7, <1>8, DoneLinked
<1> QED
  BY <1>4, <1>9, <1>u DEF prior, row, d

LEMMA DeleteLinked ==
    ASSUME NEW ids, NEW p \in PenState(ids), NEW t \in PenTable(ids), Linked(p, t), Sound(t),
           NEW id \in ids, NEW x \in DOMAIN p.now.texts,
           Fresh(p.log, id)
    PROVE  LET removed == [Blank EXCEPT !.texts = Restrict(p.now.texts, {x})]
               u == StoreAction(t, [act |-> Delete(id, x), before |-> removed])
           IN  Linked(Did(p, LessText(p.now, x), Delete(id, x)), u) /\ Sound(u)
<1> DEFINE removed == [Blank EXCEPT !.texts = Restrict(p.now.texts, {x})]
           row == [act |-> Delete(id, x), before |-> removed]
           d == LessText(p.now, x)
           e == LessText(t.now, x)
<1>1. Within(p.now, t.now) /\ p.now \in Drawing /\ t.now \in Drawing
  BY LinkedIs
<1>2. /\ removed.strokes = NoMap /\ removed.texts = Restrict(p.now.texts, {x})
      /\ removed = [strokes |-> NoMap, texts |-> Restrict(p.now.texts, {x})]
  BY DEF Blank
<1>3. removed \in Drawing
  BY <1>1, <1>2, MapOps, BlankDrawing DEF Drawing, Blank
<1>x. x \in Texts
  BY <1>1, MapOps DEF Drawing
<1>4. row \in Row(ids) /\ row.act = Delete(id, x) /\ row.before = removed
  BY <1>3, <1>x, ActionIn DEF Row
<1>5. row.act.kind = "delete" /\ row.act.target = x /\ row.act.id = id
  BY <1>4 DEF Delete
<1>d. DOMAIN removed.texts = {x} /\ DOMAIN removed.strokes = {}
      /\ \A y \in DOMAIN removed.texts : removed.texts[y] = p.now.texts[y]
  BY <1>2 DEF Restrict, NoMap
<1>e. /\ d.texts = Without(p.now.texts, {x}) /\ d.strokes = p.now.strokes
      /\ e.texts = Without(t.now.texts, {x}) /\ e.strokes = t.now.strokes
  BY <1>1, DrawingIs
<1>u. StoreAction(t, row) = Store(t, e, row)
  BY <1>5 DEF StoreAction
<1> HIDE DEF removed, row, d, e
<1>6. Modest(row)
  BY <1>4, <1>5, <1>d DEF Modest
<1>7. Backed(row.before, Acts(t.rows), Len(t.rows))
  <2>1. Within(removed, t.now)
    BY <1>1, <1>d DEF Within
  <2>2. Backed(t.now, Acts(t.rows), Len(t.rows))
    BY DEF Sound
  <2> QED
    BY <1>4, <2>1, <2>2, BackedWithin
<1>8. Follows(p.now, d, row.act) /\ Follows(t.now, e, row.act) /\ Within(d, e)
  BY <1>1, <1>5, <1>e DEF Follows, Within, Without, Restrict, Takes
<1>9. Linked(Did(p, d, row.act), Store(t, e, row)) /\ Sound(Store(t, e, row))
  BY <1>4, <1>5, <1>6, <1>7, <1>8, DoneLinked
<1> QED
  BY <1>4, <1>9, <1>u DEF removed, row, d

LEMMA ClearLinked ==
    ASSUME NEW ids, NEW p \in PenState(ids), NEW t \in PenTable(ids), Linked(p, t), Sound(t),
           NEW id \in ids, Fresh(p.log, id)
    PROVE  LET u == StoreAction(t, [act |-> Clear(id), before |-> p.now])
           IN  Linked(Did(p, Blank, Clear(id)), u) /\ Sound(u)
<1> DEFINE row == [act |-> Clear(id), before |-> p.now]
<1>1. Within(p.now, t.now) /\ p.now \in Drawing /\ t.now \in Drawing
  BY LinkedIs
<1>4. row \in Row(ids) /\ row.act = Clear(id) /\ row.before = p.now
  BY <1>1, ActionIn DEF Row
<1>5. row.act.kind = "clear" /\ row.act.id = id
  BY <1>4 DEF Clear
<1>u. StoreAction(t, row) = Store(t, Blank, row)
  BY <1>5 DEF StoreAction
<1> HIDE DEF row
<1>6. Modest(row)
  BY <1>5 DEF Modest
<1>7. Backed(row.before, Acts(t.rows), Len(t.rows))
  <2>2. Backed(t.now, Acts(t.rows), Len(t.rows))
    BY DEF Sound
  <2> QED
    BY <1>1, <1>4, <2>2, BackedWithin
<1>8. Follows(p.now, Blank, row.act) /\ Follows(t.now, Blank, row.act) /\ Within(Blank, Blank)
  BY DEF Follows, Within, Blank, NoMap
<1>9. Linked(Did(p, Blank, row.act), Store(t, Blank, row)) /\ Sound(Store(t, Blank, row))
  BY <1>4, <1>5, <1>6, <1>7, <1>8, DoneLinked
<1> QED
  BY <1>4, <1>9, <1>u DEF row

-----------------------------------------------------------------------------
\* u is t without its i-th row, put back.
Taken(t, u, i) ==
    /\ i \in 1..Len(t.rows) /\ Len(u.rows) = Len(t.rows) - 1
    /\ u.now = Reversed(t.now, t.rows[i])
    /\ \A k \in 1..(Len(t.rows) - 1) :
          /\ u.rows[k] = t.rows[IF k < i THEN k ELSE k + 1]
          /\ Acts(u.rows)[k] = Acts(t.rows)[IF k < i THEN k ELSE k + 1]

LEMMA UndoRowIs ==
    ASSUME NEW ids, NEW t \in PenTable(ids), NEW id
    PROVE  /\ ~Stored(t, id) => UndoRow(t, id) = t
           /\ Stored(t, id) =>
                 \E i \in 1..Len(t.rows) : t.rows[i].act.id = id /\ Taken(t, UndoRow(t, id), i)
<1>1. ASSUME Stored(t, id)
      PROVE  \E i \in 1..Len(t.rows) : t.rows[i].act.id = id /\ Taken(t, UndoRow(t, id), i)
  <2> DEFINE i == CHOOSE i \in DOMAIN t.rows : t.rows[i].act.id = id
             u == UndoRow(t, id)
             less == RemoveAt(t.rows, i)
  <2>1. i \in DOMAIN t.rows /\ t.rows[i].act.id = id
    BY <1>1 DEF Stored
  <2>2. u = [now |-> Reversed(t.now, t.rows[i]), rows |-> less]
    BY <1>1 DEF UndoRow
  <2>3. t.rows \in Seq(Row(ids)) /\ DOMAIN t.rows = 1..Len(t.rows) /\ Len(t.rows) \in Nat
    BY ActsAre
  <2> HIDE DEF i
  <2>4. /\ less \in Seq(Row(ids)) /\ Len(less) = Len(t.rows) - 1
        /\ \A k \in DOMAIN less : less[k] = t.rows[IF k < i THEN k ELSE k + 1]
    BY <2>1, <2>3, SeqLess
  <2>5. DOMAIN less = 1..(Len(t.rows) - 1)
    BY <2>4, LenProperties
  <2> HIDE DEF less, u
  <2>6. ASSUME NEW k \in 1..(Len(t.rows) - 1)
        PROVE  /\ less[k] = t.rows[IF k < i THEN k ELSE k + 1]
               /\ Acts(less)[k] = Acts(t.rows)[IF k < i THEN k ELSE k + 1]
    <3>1. less[k] = t.rows[IF k < i THEN k ELSE k + 1]
      BY <2>4, <2>5
    <3>2. (IF k < i THEN k ELSE k + 1) \in 1..Len(t.rows)
      BY <2>1, <2>3
    <3>3. Acts(less)[k] = less[k].act
      BY <2>5 DEF Acts
    <3>4. Acts(t.rows)[IF k < i THEN k ELSE k + 1] = t.rows[IF k < i THEN k ELSE k + 1].act
      BY <2>3, <3>2 DEF Acts
    <3> QED
      BY <3>1, <3>3, <3>4
  <2>7. u.now = Reversed(t.now, t.rows[i]) /\ u.rows = less
    BY <2>2
  <2>8. Taken(t, u, i)
    BY <2>1, <2>3, <2>4, <2>6, <2>7 DEF Taken
  <2> QED
    BY <2>1, <2>3, <2>8 DEF u
<1> QED
  BY <1>1 DEF UndoRow

LEMMA LessUndoneIs ==
    ASSUME NEW d, NEW act
    PROVE  LET e == LessUndone(d, act)
           IN  /\ \A x \in DOMAIN e.texts :
                     /\ x \in DOMAIN d.texts /\ e.texts[x] = d.texts[x]
                     /\ ~(act.kind = "set" /\ act.target = x)
               /\ \A s \in DOMAIN e.strokes :
                     /\ s \in DOMAIN d.strokes /\ e.strokes[s] = d.strokes[s]
                     /\ ~(act.kind = "stroke" /\ act.target = s)
               /\ \A x \in DOMAIN d.texts : ~(act.kind = "set" /\ act.target = x) => x \in DOMAIN e.texts
               /\ \A s \in DOMAIN d.strokes : ~(act.kind = "stroke" /\ act.target = s) => s \in DOMAIN e.strokes
  BY DEF LessUndone, Undone, Without, Restrict

LEMMA ReversedIs ==
    ASSUME NEW d, NEW row
    PROVE  LET e == Reversed(d, row)
               less == LessUndone(d, row.act)
               b == row.before
           IN  /\ DOMAIN e.texts = DOMAIN b.texts \cup DOMAIN less.texts
               /\ DOMAIN e.strokes = DOMAIN b.strokes \cup DOMAIN less.strokes
               /\ \A x \in DOMAIN less.texts : x \notin DOMAIN b.texts => e.texts[x] = less.texts[x]
               /\ \A s \in DOMAIN less.strokes : s \notin DOMAIN b.strokes => e.strokes[s] = less.strokes[s]
               /\ \A s \in DOMAIN b.strokes : e.strokes[s] = b.strokes[s]
<1> DEFINE less == LessUndone(d, row.act)
<1> HIDE DEF less
<1>1. [strokes |-> Over(row.before.strokes, less.strokes),
       texts   |-> Over(row.before.texts, less.texts)] = Reversed(d, row)
  BY DEF Reversed, less
<1>2. /\ Reversed(d, row).strokes = Over(row.before.strokes, less.strokes)
      /\ Reversed(d, row).texts = Over(row.before.texts, less.texts)
  BY <1>1
<1>3. LET e == Reversed(d, row)
          b == row.before
      IN  /\ DOMAIN e.texts = DOMAIN b.texts \cup DOMAIN less.texts
          /\ DOMAIN e.strokes = DOMAIN b.strokes \cup DOMAIN less.strokes
          /\ \A x \in DOMAIN less.texts : x \notin DOMAIN b.texts => e.texts[x] = less.texts[x]
          /\ \A s \in DOMAIN less.strokes : s \notin DOMAIN b.strokes => e.strokes[s] = less.strokes[s]
          /\ \A s \in DOMAIN b.strokes : e.strokes[s] = b.strokes[s]
  BY <1>2 DEF Over
<1> QED
  BY <1>3 DEF less

\* What is left of a log when its last action is undone.
LEMMA UndoIs ==
    ASSUME NEW ids, NEW p \in PenState(ids), p.log # <<>>
    PROVE  LET q == Undo(p)
               n == Len(p.log)
           IN  /\ n \in Nat \ {0} /\ Last(p.log) = p.log[n] /\ q.now = LessUndone(p.now, p.log[n])
               /\ Len(q.log) = n - 1 /\ DOMAIN q.log = 1..(n - 1)
               /\ \A k \in 1..(n - 1) : q.log[k] = p.log[k]
<1>1. p.log \in Seq(Action(ids))
  BY LogIs
<1>2. /\ Len(p.log) \in Nat \ {0} /\ Last(p.log) = p.log[Len(p.log)]
      /\ Front(p.log) \in Seq(Action(ids)) /\ Len(Front(p.log)) = Len(p.log) - 1
      /\ \A i \in 1..(Len(p.log) - 1) : Front(p.log)[i] = p.log[i]
  BY <1>1, FrontLast
<1>3. DOMAIN Front(p.log) = 1..(Len(p.log) - 1)
  BY <1>2, LenProperties
<1> QED
  BY <1>2, <1>3 DEF Undo

\* What an undo leaves of the room has actions behind it, still.
LEMMA UndoBacked ==
    ASSUME NEW ids, NEW p \in PenState(ids), p.log # <<>>,
           Distinct(p.log, Len(p.log)), Backed(p.now, p.log, Len(p.log))
    PROVE  LET q == Undo(p)
               n == Len(p.log)
           IN  /\ Distinct(q.log, n - 1)
               /\ Backed(q.now, q.log, n - 1)
               /\ \A x \in DOMAIN q.now.texts : ~Takes(p.log[n], x) /\ ~(p.log[n].kind = "set" /\ p.log[n].target = x)
               /\ \A s \in DOMAIN q.now.strokes : q.now.strokes[s] = "whole" => p.log[n].kind # "clear"
<1> DEFINE q == Undo(p)
           L == p.log
           K == q.log
           n == Len(L)
<1>1. /\ n \in Nat \ {0} /\ q.now = LessUndone(p.now, L[n])
      /\ \A k \in 1..(n - 1) : K[k] = L[k]
      /\ Distinct(L, n) /\ Backed(p.now, L, n)
  BY UndoIs
<1> HIDE DEF q, L, K, n
<1>2. /\ \A x : TextFrom(L, x, n) /\ ~(L[n].kind = "set" /\ L[n].target = x)
                   => TextFrom(K, x, n - 1) /\ ~Takes(L[n], x)
      /\ \A s : StrokeFrom(L, s, n) /\ ~(L[n].kind = "stroke" /\ L[n].target = s)
                   => StrokeFrom(K, s, n - 1) /\ L[n].kind # "clear"
  BY <1>1, FromFront
<1>3. /\ \A x \in DOMAIN q.now.texts : x \in DOMAIN p.now.texts /\ ~(L[n].kind = "set" /\ L[n].target = x)
      /\ \A s \in DOMAIN q.now.strokes :
            /\ s \in DOMAIN p.now.strokes /\ q.now.strokes[s] = p.now.strokes[s]
            /\ ~(L[n].kind = "stroke" /\ L[n].target = s)
  BY <1>1, LessUndoneIs
<1>4. Backed(q.now, K, n - 1)
  BY <1>1, <1>2, <1>3 DEF Backed
<1>5. Distinct(K, n - 1)
  <2>1. \A k \in 1..(n - 1) : K[k] = L[IF k < n THEN k ELSE k + 1]
    BY <1>1
  <2>2. n \in 1..n /\ n \in Nat
    BY <1>1
  <2> QED
    BY <1>1, <2>1, <2>2, DistinctLess
<1>6. /\ \A x \in DOMAIN q.now.texts : ~Takes(L[n], x) /\ ~(L[n].kind = "set" /\ L[n].target = x)
      /\ \A s \in DOMAIN q.now.strokes : q.now.strokes[s] = "whole" => L[n].kind # "clear"
  BY <1>1, <1>2, <1>3 DEF Backed
<1> QED
  BY <1>4, <1>5, <1>6 DEF q, L, K, n

\* The undo of an action that has no row: a stroke that was not ended.
LEMMA UndoUnstored ==
    ASSUME NEW ids, NEW p \in PenState(ids), NEW t \in PenTable(ids), Linked(p, t), p.log # <<>>,
           ~Stored(t, Last(p.log).id)
    PROVE  Linked(Undo(p), t)
<1> DEFINE q == Undo(p)
           L == p.log
           K == q.log
           n == Len(L)
           A == Acts(t.rows)
           m == Len(t.rows)
<1>1. /\ n \in Nat \ {0} /\ Last(L) = L[n] /\ q.now = LessUndone(p.now, L[n]) /\ Len(K) = n - 1
      /\ \A k \in 1..(n - 1) : K[k] = L[k]
  BY UndoIs
<1>2. Logged(p.now, L, n, A, m) /\ Within(p.now, t.now) /\ m \in Nat /\ DOMAIN t.rows = 1..m
  BY LinkedIs
<1>3. Distinct(K, n - 1) /\ Backed(q.now, K, n - 1)
  BY UndoBacked DEF Linked
<1>4. \A i \in 1..m : A[i].id # L[n].id
  BY <1>1, <1>2, ActsAre DEF Stored
<1> HIDE DEF q, L, K, n, A, m
<1>5. \A s \in DOMAIN q.now.strokes : s \in DOMAIN p.now.strokes /\ q.now.strokes[s] = p.now.strokes[s]
  BY <1>1, LessUndoneIs
<1>6. \A x \in DOMAIN q.now.texts : x \in DOMAIN p.now.texts /\ q.now.texts[x] = p.now.texts[x]
  BY <1>1, LessUndoneIs
<1>7. Logged(q.now, K, n - 1, A, m)
  BY <1>1, <1>2, <1>4, <1>5, LoggedFront
<1>8. Within(q.now, t.now)
  BY <1>2, <1>5, <1>6 DEF Within
<1>9. Linked(q, t)
  BY <1>1, <1>3, <1>7, <1>8 DEF Linked, K, A, m
<1> QED
  BY <1>9 DEF q

\* The undo of an action with a row, in the room and in the table.
LEMMA UndoStored ==
    ASSUME NEW ids, NEW p \in PenState(ids), NEW t \in PenTable(ids), Linked(p, t), Sound(t),
           p.log # <<>>, NEW u, NEW i \in 1..Len(t.rows), t.rows[i].act.id = Last(p.log).id, Taken(t, u, i)
    PROVE  Linked(Undo(p), u) /\ Sound(u)
<1> DEFINE q == Undo(p)
           L == p.log
           K == q.log
           n == Len(L)
           A == Acts(t.rows)
           B == Acts(u.rows)
           m == Len(t.rows)
           row == t.rows[i]
           less == LessUndone(t.now, row.act)
<1>1. /\ n \in Nat \ {0} /\ Last(L) = L[n] /\ q.now = LessUndone(p.now, L[n]) /\ Len(K) = n - 1
      /\ \A k \in 1..(n - 1) : K[k] = L[k]
  BY UndoIs
<1>2. /\ Logged(p.now, L, n, A, m) /\ Within(p.now, t.now) /\ m \in Nat \ {0} /\ DOMAIN t.rows = 1..m
      /\ Distinct(L, n) /\ i \in 1..m
  BY LinkedIs
<1>3. /\ Distinct(K, n - 1) /\ Backed(q.now, K, n - 1)
      /\ \A x \in DOMAIN q.now.texts : ~Takes(L[n], x) /\ ~(L[n].kind = "set" /\ L[n].target = x)
      /\ \A s \in DOMAIN q.now.strokes : q.now.strokes[s] = "whole" => L[n].kind # "clear"
  BY UndoBacked DEF Linked
<1>4. /\ Distinct(A, m) /\ Backed(t.now, A, m)
      /\ \A k \in 1..m : Modest(t.rows[k]) /\ Backed(t.rows[k].before, A, k - 1)
  BY DEF Sound
<1>5. /\ Len(u.rows) = m - 1 /\ u.now = Reversed(t.now, row)
      /\ \A k \in 1..(m - 1) : u.rows[k] = t.rows[IF k < i THEN k ELSE k + 1]
      /\ \A k \in 1..(m - 1) : B[k] = A[IF k < i THEN k ELSE k + 1]
  BY DEF Taken
<1>6. \A k \in 1..m : A[k] = t.rows[k].act
  BY ActsAre
<1>6a. \A k \in 1..m : t.rows[k].act \in Action(ids)
  BY ActsAre
<1>7. A[i].id = L[n].id /\ A[i] = row.act
  BY <1>1, <1>2, <1>6
<1>8. row = t.rows[i]
  OBVIOUS
<1> HIDE DEF q, L, K, n, A, B, m, row
<1>9. \A s \in DOMAIN q.now.strokes : s \in DOMAIN p.now.strokes /\ q.now.strokes[s] = p.now.strokes[s]
  BY <1>1, LessUndoneIs
<1>10. \A x \in DOMAIN q.now.texts : x \in DOMAIN p.now.texts /\ q.now.texts[x] = p.now.texts[x]
  BY <1>1, LessUndoneIs
<1>11. /\ Logged(q.now, K, n - 1, B, m - 1)
       /\ A[i] = L[n] /\ \A k \in 1..m : k > i => A[k].kind = "stroke"
  <2>1. BothLess(p.now, q.now, L, K, n, A, B, m, i)
    BY <1>1, <1>2, <1>4, <1>5, <1>7, <1>9 DEF BothLess
  <2>2. n \in Nat \ {0} /\ m \in Nat /\ i \in 1..m
    BY <1>1, <1>2
  <2>3. Logged(q.now, K, n - 1, B, m - 1)
    BY <2>1, <2>2, LoggedLess
  <2>f. Logged(p.now, L, n, A, m) /\ Distinct(L, n) /\ n \in Nat \ {0} /\ m \in Nat
    BY <1>1, <1>2
  <2>4. RowOfLast(L, n, A, m)
    BY <2>f, LastRow
  <2> QED
    BY <1>7, <2>2, <2>3, <2>4 DEF RowOfLast
<1>12. row.act = L[n] /\ Modest(row) /\ Backed(row.before, A, i - 1)
  BY <1>2, <1>4, <1>7, <1>8, <1>11
<1>13. /\ \A x \in DOMAIN less.texts :
             /\ x \in DOMAIN t.now.texts /\ less.texts[x] = t.now.texts[x]
             /\ ~(A[i].kind = "set" /\ A[i].target = x)
       /\ \A s \in DOMAIN less.strokes :
             /\ s \in DOMAIN t.now.strokes /\ less.strokes[s] = t.now.strokes[s]
             /\ ~(A[i].kind = "stroke" /\ A[i].target = s)
       /\ \A x \in DOMAIN t.now.texts : ~(A[i].kind = "set" /\ A[i].target = x) => x \in DOMAIN less.texts
       /\ \A s \in DOMAIN t.now.strokes : ~(A[i].kind = "stroke" /\ A[i].target = s) => s \in DOMAIN less.strokes
  BY <1>7, LessUndoneIs
<1>14. LET b == row.before
       IN  /\ DOMAIN u.now.texts = DOMAIN b.texts \cup DOMAIN less.texts
           /\ DOMAIN u.now.strokes = DOMAIN b.strokes \cup DOMAIN less.strokes
           /\ \A x \in DOMAIN less.texts : x \notin DOMAIN b.texts => u.now.texts[x] = less.texts[x]
           /\ \A s \in DOMAIN less.strokes : s \notin DOMAIN b.strokes => u.now.strokes[s] = less.strokes[s]
           /\ \A s \in DOMAIN b.strokes : u.now.strokes[s] = b.strokes[s]
  BY <1>5, ReversedIs
<1> HIDE DEF less
<1>15. Within(q.now, u.now)
  <2>k. A[i].kind \in {"stroke", "set", "delete", "clear"}
    BY <1>2, <1>6, <1>6a, ActionShapes
  <2>1. ASSUME NEW x \in DOMAIN q.now.texts PROVE x \in DOMAIN u.now.texts /\ u.now.texts[x] = q.now.texts[x]
    <3>1. x \in DOMAIN t.now.texts /\ t.now.texts[x] = q.now.texts[x]
      BY <1>2, <1>10 DEF Within
    <3>2. ~Takes(A[i], x) /\ ~(A[i].kind = "set" /\ A[i].target = x)
      BY <1>3, <1>11
    <3>3. x \in DOMAIN less.texts /\ less.texts[x] = q.now.texts[x]
      BY <1>13, <3>1, <3>2
    <3>4. x \notin DOMAIN row.before.texts
      BY <1>11, <1>12, <2>k, <3>2 DEF Takes, Modest
    <3> QED
      BY <1>14, <3>3, <3>4
  <2>2. ASSUME NEW s \in DOMAIN q.now.strokes, q.now.strokes[s] = "whole"
        PROVE  s \in DOMAIN u.now.strokes /\ u.now.strokes[s] = "whole"
    <3>1. s \in DOMAIN t.now.strokes /\ t.now.strokes[s] = "whole"
      BY <1>2, <1>9, <2>2 DEF Within
    <3>2. A[i].kind # "clear" /\ ~(A[i].kind = "stroke" /\ A[i].target = s)
      <4>1. ~(L[n].kind = "stroke" /\ L[n].target = s)
        BY <1>1, <2>2, LessUndoneIs
      <4> QED
        BY <1>3, <1>11, <2>2, <4>1
    <3>3. s \in DOMAIN less.strokes /\ less.strokes[s] = "whole"
      BY <1>13, <3>1, <3>2
    <3>4. s \notin DOMAIN row.before.strokes
      BY <1>11, <1>12, <3>2 DEF Modest
    <3> QED
      BY <1>14, <3>3, <3>4
  <2> QED
    BY <2>1, <2>2 DEF Within
<1>16. Linked(q, u)
  BY <1>1, <1>3, <1>5, <1>11, <1>15 DEF Linked, K, B
<1>17. /\ \A x : TextFrom(A, x, m) /\ ~(A[i].kind = "set" /\ A[i].target = x) => TextFrom(B, x, m - 1)
       /\ \A s : StrokeFrom(A, s, m) /\ ~(A[i].kind = "stroke" /\ A[i].target = s) => StrokeFrom(B, s, m - 1)
       /\ \A d : Backed(d, A, i - 1) => Backed(d, B, m - 1)
  BY <1>2, <1>5, <1>11, FromLess
<1>18. Backed(u.now, B, m - 1)
  <2>0. Backed(row.before, B, m - 1)
    BY <1>12, <1>17
  <2>1. ASSUME NEW x \in DOMAIN u.now.texts PROVE TextFrom(B, x, m - 1)
    <3>1. CASE x \in DOMAIN row.before.texts
      BY <2>0, <3>1 DEF Backed
    <3>2. CASE x \in DOMAIN less.texts
      BY <1>4, <1>13, <1>17, <3>2 DEF Backed
    <3> QED
      BY <1>14, <3>1, <3>2
  <2>2. ASSUME NEW s \in DOMAIN u.now.strokes, u.now.strokes[s] = "whole" PROVE StrokeFrom(B, s, m - 1)
    <3>1. CASE s \in DOMAIN row.before.strokes
      BY <1>14, <2>0, <2>2, <3>1 DEF Backed
    <3>2. CASE s \notin DOMAIN row.before.strokes
      <4>1. s \in DOMAIN less.strokes /\ less.strokes[s] = "whole"
        BY <1>14, <2>2, <3>2
      <4>2. /\ s \in DOMAIN t.now.strokes /\ t.now.strokes[s] = "whole"
            /\ ~(A[i].kind = "stroke" /\ A[i].target = s)
        BY <1>13, <4>1
      <4> QED
        BY <1>4, <1>17, <4>2 DEF Backed
    <3> QED
      BY <3>1, <3>2
  <2> QED
    BY <2>1, <2>2 DEF Backed
<1>19. Distinct(B, m - 1)
  BY <1>2, <1>4, <1>5, DistinctLess
<1>20. ASSUME NEW k \in 1..(m - 1) PROVE Modest(u.rows[k]) /\ Backed(u.rows[k].before, B, k - 1)
  <2>1. CASE k < i
    <3>1. u.rows[k] = t.rows[k] /\ \A l \in 1..(k - 1) : B[l] = A[l]
      BY <1>2, <1>5, <2>1
    <3>2. \A d : Backed(d, A, k - 1) => Backed(d, B, k - 1)
      BY <3>1, FromSame
    <3> QED
      BY <1>2, <1>4, <3>1, <3>2
  <2>2. CASE ~(k < i)
    <3>1. u.rows[k] = t.rows[k + 1] /\ k + 1 \in 1..m /\ k + 1 > i
      BY <1>2, <1>5, <2>2
    <3>2. u.rows[k].act.kind = "stroke" /\ Modest(u.rows[k])
      BY <1>4, <1>6, <1>11, <3>1
    <3>3. DOMAIN u.rows[k].before.strokes = {} /\ DOMAIN u.rows[k].before.texts = {}
      BY <3>2 DEF Modest
    <3> QED
      BY <3>2, <3>3 DEF Backed
  <2> QED
    BY <2>1, <2>2
<1>21. Sound(u)
  BY <1>5, <1>18, <1>19, <1>20 DEF Sound, B
<1> QED
  BY <1>16, <1>21 DEF q

-----------------------------------------------------------------------------
LEMMA UndoLinked ==
    ASSUME NEW ids, NEW p \in PenState(ids), NEW t \in PenTable(ids), Linked(p, t), Sound(t),
           p.log # <<>>
    PROVE  Linked(Undo(p), UndoRow(t, Last(p.log).id)) /\ Sound(UndoRow(t, Last(p.log).id))
<1> DEFINE id == Last(p.log).id
<1>1. CASE ~Stored(t, id)
  BY <1>1, UndoUnstored, UndoRowIs
<1>2. CASE Stored(t, id)
  <2>1. PICK i \in 1..Len(t.rows) : t.rows[i].act.id = id /\ Taken(t, UndoRow(t, id), i)
    BY <1>2, UndoRowIs
  <2> HIDE DEF id
  <2>2. t.rows[i].act.id = Last(p.log).id /\ Taken(t, UndoRow(t, id), i)
    BY <2>1 DEF id
  <2>3. Linked(Undo(p), UndoRow(t, id)) /\ Sound(UndoRow(t, id))
    BY <2>2, UndoStored
  <2> QED
    BY <2>3 DEF id
<1> QED
  BY <1>1, <1>2

\* What a restart loads.
LEMMA LoadedLinked ==
    ASSUME NEW ids, NEW t \in PenTable(ids), Sound(t)
    PROVE  Linked(Loaded(t), t)
<1> DEFINE p == Loaded(t)
           A == Acts(t.rows)
           m == Len(t.rows)
<1>1. m \in Nat /\ DOMAIN t.rows = 1..m /\ \A i \in 1..m : A[i] \in Action(ids)
  BY ActsAre
<1>2. p.now = t.now /\ p.log = A
  BY DEF Loaded, Acts
<1>3. A = [i \in 1..m |-> A[i]]
  BY <1>1 DEF Acts
<1> HIDE DEF A, m, p
<1>4. Len(A) = m
  <2>1. A \in [1..m -> Action(ids)]
    BY <1>1, <1>3
  <2>2. A \in Seq(Action(ids))
    BY <1>1, <2>1, SeqDef
  <2>3. DOMAIN A = 1..m
    BY <1>3
  <2> QED
    BY <1>1, <2>2, <2>3, LenProperties
<1>5. Distinct(A, m) /\ Backed(t.now, A, m)
  BY DEF Sound, A, m
<1>6. Logged(t.now, A, m, A, m)
  <2>1. \A i, j \in 1..m, k, l \in 1..m : i < j /\ A[i] = A[k] /\ A[j] = A[l] => k < l
    BY <1>5 DEF Distinct
  <2> QED
    BY <2>1 DEF Logged
<1>7. Within(t.now, t.now)
  BY DEF Within
<1>8. Linked(p, t)
  BY <1>2, <1>4, <1>5, <1>6, <1>7 DEF Linked, A, m
<1> QED
  BY <1>8 DEF p

LEMMA NothingLinked == Linked(NoPen, NoTable) /\ Sound(NoTable)
<1>1. /\ NoPen.now = Blank /\ NoPen.log = <<>> /\ NoTable.now = Blank /\ NoTable.rows = <<>>
      /\ Len(<<>>) = 0 /\ 1..0 = {}
  BY DEF NoPen, NoTable
<1>2. \A A : Distinct(A, 0) /\ Backed(Blank, A, 0)
  BY <1>1, BackedBlank DEF Distinct
<1>3. \A L, A : Logged(Blank, L, 0, A, 0)
  BY <1>1 DEF Logged
<1>4. Within(Blank, Blank)
  BY DEF Within
<1> QED
  BY <1>1, <1>2, <1>3, <1>4 DEF Linked, Sound

-----------------------------------------------------------------------------
LEMMA StandingSame ==
    ASSUME NEW p, NEW q, NEW S, NEW R, Standing(p, S), q.log = p.log, R \subseteq S,
           \A s \in R : s \in DOMAIN q.now.strokes => s \in DOMAIN p.now.strokes
    PROVE  Standing(q, R)
  BY DEF Standing, CanEnd, BeganBy

\* An action more, that is no stroke's.
LEMMA StandingDid ==
    ASSUME NEW ids, NEW p \in PenState(ids), NEW S, Standing(p, S), NEW d, NEW act,
           act.kind # "stroke", Follows(p.now, d, act)
    PROVE  Standing(Did(p, d, act), S)
<1> DEFINE q == Did(p, d, act)
           L == p.log
           K == q.log
           n == Len(L)
<1>1. /\ q.now = d /\ Len(K) = n + 1 /\ K[n + 1] = act /\ n \in Nat
      /\ \A i \in 1..n : K[i] = L[i]
      /\ DOMAIN K = 1..(n + 1) /\ DOMAIN L = 1..n
  BY DidIs, LogIs
<1>2. q.log = K
  OBVIOUS
<1> HIDE DEF q, L, K, n
<1>3. \A s : StrokeFrom(L, s, n) /\ K[n + 1].kind # "clear" => StrokeFrom(K, s, n + 1)
  BY <1>1, FromMore
<1>4. ASSUME NEW s \in S, CanEnd(q, s) PROVE StrokeFrom(q.log, s, Len(q.log))
  <2>1. s \in DOMAIN p.now.strokes /\ act.kind # "clear"
    BY <1>1, <1>4 DEF CanEnd, Follows
  <2>2. PICK i \in 1..(n + 1) : K[i].kind = "stroke" /\ K[i].target = s
    BY <1>1, <1>2, <1>4 DEF CanEnd, BeganBy
  <2>3. i \in 1..n /\ L[i].kind = "stroke" /\ L[i].target = s
    BY <1>1, <2>2
  <2>4. CanEnd(p, s)
    BY <1>1, <2>1, <2>3 DEF CanEnd, BeganBy, L
  <2>5. StrokeFrom(L, s, n)
    BY <2>4 DEF Standing, L, n
  <2> QED
    BY <1>1, <1>2, <1>3, <2>1, <2>5
<1>5. Standing(q, S)
  BY <1>4 DEF Standing
<1> QED
  BY <1>5 DEF q

LEMMA StandingBegun ==
    ASSUME NEW ids, NEW p \in PenState(ids), NEW S, Standing(p, S), NEW s, NEW id
    PROVE  Standing(Did(p, WithStroke(p.now, s, "part"), Stroke(id, s)), S \cup {s})
<1> DEFINE q == Did(p, WithStroke(p.now, s, "part"), Stroke(id, s))
           L == p.log
           K == q.log
           n == Len(L)
<1>1. /\ q.now = WithStroke(p.now, s, "part") /\ Len(K) = n + 1 /\ K[n + 1] = Stroke(id, s) /\ n \in Nat
      /\ \A i \in 1..n : K[i] = L[i]
      /\ DOMAIN K = 1..(n + 1) /\ DOMAIN L = 1..n
  BY DidIs, LogIs
<1>2. q.log = K /\ K[n + 1].kind = "stroke" /\ K[n + 1].target = s
  BY <1>1 DEF Stroke
<1>0. DOMAIN q.now.strokes = DOMAIN p.now.strokes \cup {s}
  <2>1. q.now.strokes = Put(p.now.strokes, s, "part")
    BY <1>1, LogIs, DrawingIs
  <2> QED
    BY <2>1 DEF Put
<1> HIDE DEF q, L, K, n
<1>3. /\ \A z : StrokeFrom(L, z, n) /\ K[n + 1].kind # "clear" => StrokeFrom(K, z, n + 1)
      /\ \A z : K[n + 1].kind = "stroke" /\ K[n + 1].target = z => StrokeFrom(K, z, n + 1)
  BY <1>1, FromMore
<1>4. ASSUME NEW z \in S, z # s, CanEnd(q, z) PROVE StrokeFrom(K, z, n + 1)
  <2>1. z \in DOMAIN p.now.strokes
    BY <1>0, <1>4 DEF CanEnd
  <2>2. PICK i \in 1..(n + 1) : K[i].kind = "stroke" /\ K[i].target = z
    BY <1>1, <1>2, <1>4 DEF CanEnd, BeganBy
  <2>3. i \in 1..n /\ L[i].kind = "stroke" /\ L[i].target = z
    BY <1>1, <1>2, <1>4, <2>2
  <2>4. CanEnd(p, z)
    BY <1>1, <2>1, <2>3 DEF CanEnd, BeganBy, L
  <2>5. StrokeFrom(L, z, n)
    BY <2>4 DEF Standing, L, n
  <2> QED
    BY <1>2, <1>3, <2>5
<1>5. Standing(q, S \cup {s})
  BY <1>1, <1>2, <1>3, <1>4 DEF Standing
<1> QED
  BY <1>5 DEF q

LEMMA StandingUndo ==
    ASSUME NEW ids, NEW p \in PenState(ids), NEW S, Standing(p, S), p.log # <<>>
    PROVE  Standing(Undo(p), S)
<1> DEFINE q == Undo(p)
           L == p.log
           K == q.log
           n == Len(L)
<1>1. /\ n \in Nat \ {0} /\ q.now = LessUndone(p.now, L[n])
      /\ Len(K) = n - 1 /\ DOMAIN K = 1..(n - 1) /\ DOMAIN L = 1..n
      /\ \A k \in 1..(n - 1) : K[k] = L[k]
  BY UndoIs, LogIs
<1>2. q.log = K
  OBVIOUS
<1> HIDE DEF q, L, K, n
<1>3. \A s : StrokeFrom(L, s, n) /\ ~(L[n].kind = "stroke" /\ L[n].target = s)
                => StrokeFrom(K, s, n - 1)
  BY <1>1, FromFront
<1>4. ASSUME NEW s \in S, CanEnd(q, s) PROVE StrokeFrom(q.log, s, Len(q.log))
  <2>1. s \in DOMAIN q.now.strokes
    BY <1>4 DEF CanEnd
  <2>2. s \in DOMAIN p.now.strokes /\ ~(L[n].kind = "stroke" /\ L[n].target = s)
    BY <1>1, <2>1, LessUndoneIs
  <2>3. PICK i \in 1..(n - 1) : K[i].kind = "stroke" /\ K[i].target = s
    BY <1>1, <1>2, <1>4 DEF CanEnd, BeganBy
  <2>4. i \in 1..n /\ L[i].kind = "stroke" /\ L[i].target = s
    BY <1>1, <2>3
  <2>5. CanEnd(p, s)
    BY <1>1, <2>2, <2>4 DEF CanEnd, BeganBy, L
  <2>6. StrokeFrom(L, s, n)
    BY <2>5 DEF Standing, L, n
  <2> QED
    BY <1>1, <1>2, <1>3, <2>2, <2>6
<1>5. Standing(q, S)
  BY <1>4 DEF Standing
<1> QED
  BY <1>5 DEF q

-----------------------------------------------------------------------------
(***************************************************************************)
(* What the tables will hold once the queue is applied, against the room.  *)
(***************************************************************************)
\* A stroke that the tables have, or that an operation brings.
HasIn(t, s) ==
    \/ s \in DOMAIN t.now.strokes
    \/ \E i \in 1..Len(t.rows) : s \in DOMAIN t.rows[i].before.strokes

Has(t, s) == \E b \in Pens : HasIn(t.pen[b], s)

StoresStroke(op, s) == op.kind = "act" /\ op.row.act.kind = "stroke" /\ op.row.act.target = s

Brings(op, s) ==
    /\ op.kind \in {"act", "text"}
    /\ s \in DOMAIN op.row.before.strokes \/ StoresStroke(op, s)

\* A handler that has yet to enqueue an operation.
Owes(j) == j.step \in {"tell", "save"} /\ j.op # NoOp

Owing(j, x) == Owes(j) /\ x \in j.on

OwesIn(j) == Owes(j) => j.op.board \in j.on /\ (j.op.kind = "focus" => "focus" \in j.on)

Home == [title |-> title, focus |-> focus, scene |-> scene, pen |-> pen, apart |-> Apart]

Match(r, t, x) ==
    /\ x = "focus" /\ r.focus # NoBoard => t.focus = r.focus
    /\ x \in Ids =>
          /\ x \in DOMAIN t.title <=> x \in DOMAIN r.title
          /\ x \in DOMAIN r.title => t.title[x] = r.title[x]
    /\ x \in Scenes => t.scene[x] = r.scene[x]
    /\ x \in Pens /\ r.apart => Linked(r.pen[x], t.pen[x]) /\ Sound(t.pen[x])

\* Tables that do not differ in x, and rooms that ask no more of it.
TableAt(t, u, x) ==
    /\ x = "focus" => u.focus = t.focus
    /\ x \in Ids =>
          /\ x \in DOMAIN u.title <=> x \in DOMAIN t.title
          /\ x \in DOMAIN t.title => u.title[x] = t.title[x]
    /\ x \in Scenes => u.scene[x] = t.scene[x]
    /\ x \in Pens => u.pen[x] = t.pen[x]

HomeAt(r, q, x) ==
    /\ x = "focus" => q.focus = r.focus
    /\ x \in Ids =>
          /\ x \in DOMAIN q.title <=> x \in DOMAIN r.title
          /\ x \in DOMAIN r.title => q.title[x] = r.title[x]
    /\ x \in Scenes => q.scene[x] = r.scene[x]
    /\ x \in Pens => q.pen[x] = r.pen[x] /\ (q.apart => r.apart)

LEMMA MatchAt ==
    ASSUME NEW r, NEW t, NEW u, NEW x, TableAt(t, u, x), Match(r, t, x)
    PROVE  Match(r, u, x)
  BY DEF TableAt, Match

LEMMA MatchHome ==
    ASSUME NEW r, NEW q, NEW t, NEW x, HomeAt(r, q, x), Match(r, t, x)
    PROVE  Match(q, t, x)
  BY DEF HomeAt, Match

LEMMA ApplyElsewhere ==
    ASSUME NEW t \in Tables, NEW op \in Op \ {NoOp}, NEW x,
           x # op.board, op.kind = "focus" => x # "focus"
    PROVE  TableAt(t, Apply(t, op), x)
<1> DEFINE b == op.board
           u == Apply(t, op)
<1>1. Changes(t, u, op)
  BY ApplyIs
<1> HIDE DEF u
<1>2. /\ x \in DOMAIN u.title <=> x \in DOMAIN t.title
      /\ x \in DOMAIN t.title => u.title[x] = t.title[x]
  <2>1. CASE op.kind = "upsert"
    BY <1>1, <2>1 DEF Changes, Put
  <2>2. CASE op.kind = "rename"
    BY <1>1, <2>2 DEF Changes, Retitle, Put
  <2>3. CASE op.kind = "delete"
    BY <1>1, <2>3 DEF Changes, Without, Restrict
  <2>4. CASE op.kind \notin {"upsert", "rename", "delete"}
    BY <1>1, <2>4 DEF Changes
  <2> QED
    BY <2>1, <2>2, <2>3, <2>4
<1>3. /\ x \in Scenes => u.scene[x] = t.scene[x]
      /\ x \in Pens => u.pen[x] = t.pen[x]
  BY <1>1 DEF Changes
<1>4. x = "focus" => u.focus = t.focus
  BY <1>1 DEF Changes
<1>5. TableAt(t, u, x)
  BY <1>2, <1>3, <1>4 DEF TableAt
<1> QED
  BY <1>5 DEF u

LEMMA ApplyTogether ==
    ASSUME NEW t \in Tables, NEW u \in Tables, NEW op \in Op \ {NoOp}, NEW x \in Things, TableAt(t, u, x)
    PROVE  TableAt(Apply(t, op), Apply(u, op), x)
<1> DEFINE b == op.board
           v == Apply(t, op)
           w == Apply(u, op)
<1>1. Changes(t, v, op) /\ Changes(u, w, op)
  BY ApplyIs
<1> HIDE DEF v, w
<1>2. x = "focus" => w.focus = v.focus
  BY <1>1 DEF Changes, TableAt
<1>3. ASSUME x \in Ids
      PROVE  /\ x \in DOMAIN w.title <=> x \in DOMAIN v.title
             /\ x \in DOMAIN v.title => w.title[x] = v.title[x]
  <2>0. x \in DOMAIN u.title <=> x \in DOMAIN t.title
    BY <1>3 DEF TableAt
  <2>t. x \in DOMAIN t.title => u.title[x] = t.title[x]
    BY <1>3 DEF TableAt
  <2>1. CASE op.kind = "upsert"
    BY <1>1, <2>0, <2>t, <2>1 DEF Changes, Put
  <2>2. CASE op.kind = "rename"
    <3>1. w.title = Retitle(u.title, b, op.title) /\ v.title = Retitle(t.title, b, op.title)
      BY <1>1, <2>2 DEF Changes
    <3>2. CASE x = b
      BY <2>0, <2>t, <3>1, <3>2 DEF Retitle, Put
    <3>3. CASE x # b
      BY <2>0, <2>t, <3>1, <3>3 DEF Retitle, Put
    <3> QED
      BY <3>2, <3>3
  <2>3. CASE op.kind = "delete"
    BY <1>1, <2>0, <2>t, <2>3 DEF Changes, Without, Restrict
  <2>4. CASE op.kind \notin {"upsert", "rename", "delete"}
    BY <1>1, <2>0, <2>t, <2>4 DEF Changes
  <2> QED
    BY <2>1, <2>2, <2>3, <2>4
<1>4. x \in Scenes => w.scene[x] = v.scene[x]
  BY <1>1 DEF Changes, TableAt
<1>5. ASSUME x \in Pens PROVE w.pen[x] = v.pen[x]
  <2>1. u.pen[x] = t.pen[x]
    BY <1>5 DEF TableAt
  <2>2. CASE x # b
    BY <1>1, <1>5, <2>1, <2>2 DEF Changes
  <2>3. CASE x = b
    <3>1. u.pen[b] = t.pen[b] /\ b \in Pens
      BY <1>5, <2>1, <2>3
    <3>2. w.pen[b] = v.pen[b]
      BY <1>1, <3>1 DEF Changes
    <3> QED
      BY <2>3, <3>2
  <2> QED
    BY <2>2, <2>3
<1>6. TableAt(v, w, x)
  BY <1>2, <1>3, <1>4, <1>5 DEF TableAt
<1> QED
  BY <1>6 DEF v, w

-----------------------------------------------------------------------------
\* Of the tables: strokes that were given out, actions of handlers begun.
IdsUpTo(t, n) == \A i \in 1..Len(t.rows) : t.rows[i].act.id <= n

Known(t, ids, n) ==
    /\ \A s \in Strokes : Has(t, s) => s \in ids
    /\ \A b \in Pens : IdsUpTo(t.pen[b], n)

AllSound(t) == \A b \in Pens : Sound(t.pen[b])

OpFits(t, op) == NeedsBoard(op) => op.board \in DOMAIN t.title

OpKnown(op, ids, n) ==
    /\ \A s \in Strokes : Brings(op, s) => s \in ids
    /\ op.kind \in {"act", "text"} => op.row.act.id <= n

LEMMA StoredHas ==
    ASSUME NEW ids, NEW t \in PenTable(ids), NEW row \in Row(ids), NEW now, NEW s, NEW n
    PROVE  /\ HasIn(Store(t, now, row), s) =>
                 s \in DOMAIN now.strokes \/ HasIn(t, s) \/ s \in DOMAIN row.before.strokes
           /\ IdsUpTo(t, n) /\ row.act.id <= n => IdsUpTo(Store(t, now, row), n)
<1> DEFINE u == Store(t, now, row)
           m == Len(t.rows)
<1>1. /\ u.now = now /\ Len(u.rows) = m + 1 /\ u.rows[m + 1] = row /\ m \in Nat
      /\ \A i \in 1..m : u.rows[i] = t.rows[i]
  BY StoreIs, ActsAre
<1> HIDE DEF u
<1>2. \A i \in 1..(m + 1) : i \in 1..m \/ i = m + 1
  BY <1>1
<1>3. HasIn(u, s) => s \in DOMAIN now.strokes \/ HasIn(t, s) \/ s \in DOMAIN row.before.strokes
  BY <1>1, <1>2 DEF HasIn
<1>4. IdsUpTo(t, n) /\ row.act.id <= n => IdsUpTo(u, n)
  BY <1>1, <1>2 DEF IdsUpTo
<1> QED
  BY <1>3, <1>4 DEF u

LEMMA StoreTextHas ==
    ASSUME NEW ids, NEW t \in PenTable(ids), NEW row \in Row(ids), NEW v, NEW s
    PROVE  HasIn(StoreText(t, row, v), s) => HasIn(t, s) \/ s \in DOMAIN row.before.strokes
<1>1. WithText(t.now, row.act.target, v).strokes = t.now.strokes
  BY ActsAre, DrawingIs
<1>2. HasIn(StoreText(t, row, v), s) =>
        s \in DOMAIN WithText(t.now, row.act.target, v).strokes \/ HasIn(t, s) \/ s \in DOMAIN row.before.strokes
  BY StoredHas DEF StoreText
<1> QED
  BY <1>1, <1>2 DEF HasIn

LEMMA StoreActionHas ==
    ASSUME NEW ids, NEW t \in PenTable(ids), NEW row \in Row(ids), row.act.kind # "set", NEW s
    PROVE  HasIn(StoreAction(t, row), s) =>
              \/ HasIn(t, s) \/ s \in DOMAIN row.before.strokes
              \/ row.act.kind = "stroke" /\ row.act.target = s
<1> DEFINE a == row.act
<1>k. a.kind \in {"stroke", "delete", "clear"}
  BY RowShape, ActionShapes
<1>1. CASE a.kind = "stroke"
  <2>1. WithStroke(t.now, a.target, "whole").strokes = Put(t.now.strokes, a.target, "whole")
    BY ActsAre, DrawingIs
  <2>2. DOMAIN WithStroke(t.now, a.target, "whole").strokes = DOMAIN t.now.strokes \cup {a.target}
    BY <2>1 DEF Put
  <2>3. HasIn(Store(t, WithStroke(t.now, a.target, "whole"), row), s) =>
          \/ s \in DOMAIN WithStroke(t.now, a.target, "whole").strokes
          \/ HasIn(t, s) \/ s \in DOMAIN row.before.strokes
    BY StoredHas
  <2>4. StoreAction(t, row) = Store(t, WithStroke(t.now, a.target, "whole"), row)
    BY <1>1 DEF StoreAction
  <2> QED
    BY <1>1, <2>2, <2>3, <2>4 DEF HasIn
<1>2. CASE a.kind = "delete"
  <2>1. LessText(t.now, a.target).strokes = t.now.strokes
    BY ActsAre, DrawingIs
  <2>3. HasIn(Store(t, LessText(t.now, a.target), row), s) =>
          \/ s \in DOMAIN LessText(t.now, a.target).strokes
          \/ HasIn(t, s) \/ s \in DOMAIN row.before.strokes
    BY StoredHas
  <2>4. StoreAction(t, row) = Store(t, LessText(t.now, a.target), row)
    BY <1>2 DEF StoreAction
  <2> QED
    BY <2>1, <2>3, <2>4 DEF HasIn
<1>3. CASE a.kind = "clear"
  <2>1. DOMAIN Blank.strokes = {}
    BY DEF Blank, NoMap
  <2>3. HasIn(Store(t, Blank, row), s) =>
          \/ s \in DOMAIN Blank.strokes
          \/ HasIn(t, s) \/ s \in DOMAIN row.before.strokes
    BY StoredHas
  <2>4. StoreAction(t, row) = Store(t, Blank, row)
    BY <1>3 DEF StoreAction
  <2> QED
    BY <2>1, <2>3, <2>4
<1> QED
  BY <1>k, <1>1, <1>2, <1>3

LEMMA StoredIds ==
    ASSUME NEW ids, NEW t \in PenTable(ids), NEW row \in Row(ids), NEW n, IdsUpTo(t, n), row.act.id <= n
    PROVE  IdsUpTo(StoreAction(t, row), n) /\ \A v : IdsUpTo(StoreText(t, row, v), n)
  BY StoredHas DEF StoreAction, StoreText

LEMMA UndoRowHas ==
    ASSUME NEW ids, NEW t \in PenTable(ids), NEW id
    PROVE  /\ \A s : HasIn(UndoRow(t, id), s) => HasIn(t, s)
           /\ \A n : IdsUpTo(t, n) => IdsUpTo(UndoRow(t, id), n)
<1>1. CASE ~Stored(t, id)
  BY <1>1, UndoRowIs
<1>2. CASE Stored(t, id)
  <2> DEFINE u == UndoRow(t, id)
             m == Len(t.rows)
  <2>1. PICK i \in 1..m : Taken(t, u, i)
    BY <1>2, UndoRowIs
  <2>2. m \in Nat
    BY ActsAre
  <2> HIDE DEF u
  <2>3. /\ Len(u.rows) = m - 1 /\ u.now = Reversed(t.now, t.rows[i])
        /\ \A k \in 1..(m - 1) : u.rows[k] = t.rows[IF k < i THEN k ELSE k + 1]
    BY <2>1 DEF Taken
  <2>4. \A k \in 1..(m - 1) : \E l \in 1..m : u.rows[k] = t.rows[l]
    BY <2>2, <2>3
  <2>5. \A s \in DOMAIN u.now.strokes : s \in DOMAIN t.now.strokes \/ s \in DOMAIN t.rows[i].before.strokes
    BY <2>3, ReversedIs, LessUndoneIs
  <2>6. \A s : HasIn(u, s) => HasIn(t, s)
    BY <2>3, <2>4, <2>5 DEF HasIn
  <2>7. \A n : IdsUpTo(t, n) => IdsUpTo(u, n)
    BY <2>3, <2>4 DEF IdsUpTo
  <2> QED
    BY <2>6, <2>7 DEF u
<1> QED
  BY <1>1, <1>2

LEMMA NothingHas == /\ \A s : ~HasIn(NoTable, s)
                    /\ \A n : IdsUpTo(NoTable, n)
<1>1. Len(<<>>) = 0 /\ 1..0 = {} /\ NoTable.rows = <<>> /\ NoTable.now.strokes = NoMap /\ DOMAIN NoMap = {}
  BY DEF NoTable, Blank, NoMap
<1> QED
  BY <1>1 DEF HasIn, IdsUpTo

\* Nothing comes into the tables but what an operation brings.
LEMMA ApplyHas ==
    ASSUME NEW t \in Tables, NEW B, NEW S, NEW op \in OpsOf(B, S)
    PROVE  /\ \A s : Has(Apply(t, op), s) => Has(t, s) \/ Brings(op, s)
           /\ \A n : /\ \A c \in Pens : IdsUpTo(t.pen[c], n)
                     /\ op.kind \in {"act", "text"} => op.row.act.id <= n
                     => \A c \in Pens : IdsUpTo(Apply(t, op).pen[c], n)
<1> DEFINE b == op.board
           u == Apply(t, op)
<1>1. Changes(t, u, op) /\ op \in Op \ {NoOp}
  BY ApplyIs, OpsShape
<1>2. \A c \in Pens : t.pen[c] \in PenTable(ActionIds)
  BY TablesShape
<1>3. /\ op.kind \in {"act", "text", "undo"} => b \in Pens
      /\ op.kind \in {"act", "text"} => op.row \in Row(ActionIds)
      /\ op.kind = "act" => op.row.act.kind # "set"
  BY <1>1, OpShapes, OpsShape
<1> HIDE DEF u
<1>4. ASSUME NEW c \in Pens
      PROVE  /\ \A s : HasIn(u.pen[c], s) => HasIn(t.pen[c], s) \/ Brings(op, s)
             /\ \A n : /\ IdsUpTo(t.pen[c], n)
                       /\ op.kind \in {"act", "text"} => op.row.act.id <= n
                       => IdsUpTo(u.pen[c], n)
  <2>1. CASE c # b \/ op.kind \notin {"delete", "act", "text", "undo"}
    <3>1. u.pen[c] = t.pen[c]
      BY <1>1, <2>1 DEF Changes
    <3> QED
      BY <3>1
  <2>2. CASE c = b /\ op.kind = "delete"
    <3>1. u.pen[c] = NoTable
      BY <1>1, <2>2 DEF Changes
    <3> QED
      BY <3>1, NothingHas
  <2>3. CASE c = b /\ op.kind = "act"
    <3>1. u.pen[c] = StoreAction(t.pen[c], op.row)
      BY <1>1, <2>3 DEF Changes
    <3>2. \A s : HasIn(StoreAction(t.pen[c], op.row), s) =>
              \/ HasIn(t.pen[c], s) \/ s \in DOMAIN op.row.before.strokes
              \/ op.row.act.kind = "stroke" /\ op.row.act.target = s
      BY <1>2, <1>3, <2>3, StoreActionHas
    <3>3. \A n : IdsUpTo(t.pen[c], n) /\ op.row.act.id <= n => IdsUpTo(StoreAction(t.pen[c], op.row), n)
      BY <1>2, <1>3, <2>3, StoredIds
    <3> QED
      BY <2>3, <3>1, <3>2, <3>3 DEF Brings, StoresStroke
  <2>4. CASE c = b /\ op.kind = "text"
    <3>1. u.pen[c] = StoreText(t.pen[c], op.row, op.value)
      BY <1>1, <2>4 DEF Changes
    <3>2. \A s : HasIn(StoreText(t.pen[c], op.row, op.value), s) =>
              HasIn(t.pen[c], s) \/ s \in DOMAIN op.row.before.strokes
      BY <1>2, <1>3, <2>4, StoreTextHas
    <3>3. \A n : IdsUpTo(t.pen[c], n) /\ op.row.act.id <= n => IdsUpTo(StoreText(t.pen[c], op.row, op.value), n)
      BY <1>2, <1>3, <2>4, StoredIds
    <3> QED
      BY <2>4, <3>1, <3>2, <3>3 DEF Brings
  <2>5. CASE c = b /\ op.kind = "undo"
    <3>1. u.pen[c] = UndoRow(t.pen[c], op.id)
      BY <1>1, <2>5 DEF Changes
    <3> QED
      BY <1>2, <3>1, UndoRowHas
  <2> QED
    BY <2>1, <2>2, <2>3, <2>4, <2>5
<1>5. \A s : Has(u, s) => Has(t, s) \/ Brings(op, s)
  BY <1>4 DEF Has
<1>6. \A n : /\ \A c \in Pens : IdsUpTo(t.pen[c], n)
             /\ op.kind \in {"act", "text"} => op.row.act.id <= n
             => \A c \in Pens : IdsUpTo(u.pen[c], n)
  BY <1>4
<1> QED
  BY <1>5, <1>6 DEF u

LEMMA ApplyKnown ==
    ASSUME NEW t \in Tables, NEW B, NEW S, NEW op \in OpsOf(B, S), NEW ids, NEW n,
           Known(t, ids, n), OpKnown(op, ids, n)
    PROVE  Known(Apply(t, op), ids, n)
  BY ApplyHas DEF Known, OpKnown

-----------------------------------------------------------------------------
\* A stroke whose row is yet to be sent: it can be ended, or was and waits.
Due(jobs, r, dr, b, s) ==
    \/ s \in dr /\ CanEnd(r.pen[b], s)
    \/ \E h \in Hosts : Owes(jobs[h]) /\ jobs[h].op.board = b /\ StoresStroke(jobs[h].op, s)

\* It is nowhere but on its board, and only its row brings it to the tables.
DueOnce(t, jobs, r, dr) ==
    \A b \in Pens, s \in Strokes : Due(jobs, r, dr, b, s) =>
        /\ ~Has(t, s)
        /\ \A c \in Pens \ {b} : s \notin DOMAIN r.pen[c].now.strokes
        /\ \A h \in Hosts : Owes(jobs[h]) /\ Brings(jobs[h].op, s) =>
                jobs[h].op.board = b /\ StoresStroke(jobs[h].op, s)

PenKnown(p, dr, ids, n) ==
    /\ DOMAIN p.now.strokes \subseteq ids
    /\ \A i \in DOMAIN p.log : p.log[i].id <= n
    /\ Standing(p, dr)

PensKnown(p, dr, ids, n) == \A b \in Pens : PenKnown(p[b], dr, ids, n)

PensFit(t, jobs, r, dr, ids, n) ==
    /\ DueOnce(t, jobs, r, dr)
    /\ PensKnown(r.pen, dr, ids, n)
    /\ \A h \in Hosts : Owes(jobs[h]) => OpFits(t, jobs[h].op) /\ OpKnown(jobs[h].op, ids, n)

Good(t, ids, n) == Known(t, ids, n) /\ AllSound(t)

SavedAt(r, t, jobs, x) ==
    /\ (\A h \in Hosts : ~Owing(jobs[h], x)) => Match(r, t, x)
    /\ \A h \in Hosts : Owing(jobs[h], x) => Match(r, Apply(t, jobs[h].op), x)

\* What the tables will be agrees with the room, but for what handlers owe.
Ready(t) ==
    /\ t \in Tables /\ Stock(t, used, Ended)
    /\ \A x \in Things \ crossed : SavedAt(Home, t, job, x)
    /\ Apart => Good(t, used, begun) /\ PensFit(t, job, Home, drawing, used, begun)

\* The tables after each operation of the queue.
Chain(w, q, ts) == ts[0] = w /\ \A n \in 1..Len(q) : ts[n] = Apply(ts[n - 1], q[n])

Held(ts) ==
    /\ Chain(work, queue, ts)
    /\ \A n \in 0..Len(queue) : ts[n] \in Tables /\ Stock(ts[n], used, Ended)
    /\ Apart => \A n \in 0..Len(queue) : Good(ts[n], used, begun)
    /\ Apart => \A n \in 1..Len(queue) : Accepts(ts[n - 1], queue[n])
    /\ Ready(ts[Len(queue)])

WInv ==
    /\ SInv
    /\ lost => ~Apart
    /\ applied = 0 => work = db
    /\ Apart => Good(db, used, begun)
    /\ \A h \in Hosts : OwesIn(job[h])
    /\ ~lost => \E ts : Held(ts)

-----------------------------------------------------------------------------
LEMMA GoodGrows ==
    ASSUME NEW t \in Tables, NEW ids, NEW n \in Nat, NEW more, NEW m \in Nat, Good(t, ids, n),
           ids \subseteq more, n <= m
    PROVE  Good(t, more, m)
<1>1. ASSUME NEW b \in Pens PROVE IdsUpTo(t.pen[b], m)
  <2>1. IdsUpTo(t.pen[b], n) /\ t.pen[b] \in PenTable(ActionIds)
    BY TablesShape DEF Good, Known
  <2>2. \A i \in 1..Len(t.pen[b].rows) : t.pen[b].rows[i].act.id \in Nat
    <3>1. \A i \in 1..Len(t.pen[b].rows) : t.pen[b].rows[i].act \in Action(ActionIds)
      BY <2>1, ActsAre
    <3>2. \A a \in Action(ActionIds) : a.id \in ActionIds
      BY ActionShapes
    <3> QED
      BY <3>1, <3>2, BoardsAssumption DEF ActionIds
  <2> QED
    BY <2>1, <2>2 DEF IdsUpTo
<1> QED
  BY <1>1 DEF Good, Known

LEMMA TInvFacts ==
    ASSUME TInv
    PROVE  /\ begun \in 0..MaxBegun /\ begun \in Nat /\ queue \in Seq(OpsOf(used, Ended)) /\ Len(queue) \in Nat
           /\ work \in Tables /\ db \in Tables /\ Stock(work, used, Ended) /\ Stock(db, used, Ended)
           /\ job \in [Hosts -> Job] /\ crossed \subseteq Things
           /\ \A h \in Hosts : JobIn(job[h], used, Ended)
  BY BoardsAssumption, LenProperties DEF TInv, TypeOK, InUse

\* Steps that leave the tables and the queue alone.
LEMMA StepHeld ==
    ASSUME WInv, SInv', UNCHANGED <<queue, applied, work, db, lost>>,
           used \subseteq used', Ended \subseteq Ended', crossed \subseteq crossed', begun <= begun',
           \A h \in Hosts : OwesIn(job'[h]),
           \A t : Ready(t) => Ready(t)'
    PROVE  WInv'
<1>1. /\ begun \in Nat /\ begun' \in Nat /\ db \in Tables
      /\ \A t : Stock(t, used, Ended) => Stock(t, used', Ended')
  <2>1. begun \in Nat /\ db \in Tables
    BY TInvFacts DEF WInv, SInv
  <2>2. begun' \in Nat
    BY BoardsAssumption DEF SInv, TInv, TypeOK
  <2> QED
    BY <2>1, <2>2, InGrows
<1>2. Apart' => Apart
  BY DEF Apart
<1>3. \A t \in Tables : Good(t, used, begun) => Good(t, used', begun')
  BY <1>1, GoodGrows
<1>4. ASSUME NEW ts, Held(ts) PROVE Held(ts)'
  <2>1. /\ Chain(work, queue, ts)
        /\ \A n \in 0..Len(queue) : ts[n] \in Tables /\ Stock(ts[n], used, Ended)
        /\ Apart => \A n \in 0..Len(queue) : Good(ts[n], used, begun)
        /\ Apart => \A n \in 1..Len(queue) : Accepts(ts[n - 1], queue[n])
        /\ Ready(ts[Len(queue)])
    BY <1>4 DEF Held
  <2>2. Ready(ts[Len(queue)])'
    BY <2>1
  <2>3. \A n \in 0..Len(queue') : ts[n] \in Tables /\ Stock(ts[n], used', Ended')
    BY <1>1, <2>1
  <2>4. Apart' => \A n \in 0..Len(queue') : Good(ts[n], used', begun')
    BY <1>2, <1>3, <2>1
  <2> QED
    BY <1>2, <2>1, <2>2, <2>3, <2>4 DEF Held
<1>5. ~lost' => (\E ts : Held(ts))'
  BY <1>4 DEF WInv
<1>6. (lost' => ~Apart') /\ (applied' = 0 => work' = db')
  BY <1>2 DEF WInv
<1>7. Apart' => Good(db', used', begun')
  BY <1>1, <1>2, <1>3 DEF WInv
<1> QED
  BY <1>5, <1>6, <1>7 DEF WInv

-----------------------------------------------------------------------------
\* A handler that begins on x, which no two hosts have overlapped on, is alone.
LEMMA BegunAlone ==
    ASSUME TInv, NEW h \in Hosts, NEW next \in Job, next.step # "idle", Begin(h, next),
           NEW x \in next.on \ crossed'
    PROVE  /\ x \notin crossed /\ x \in Things
           /\ \A g \in Hosts : ~Owing(job[g], x)
           /\ \A g \in Hosts \ {h} : ~(job[g] # Idle /\ x \in job[g].on)
<1>1. /\ crossed' = crossed \cup Meets(h, next.on) /\ job[h] = Idle /\ x \notin crossed'
  BY Begun
<1>2. x \notin crossed /\ \A g \in Hosts \ {h} : ~On(g, x)
  BY <1>1 DEF Meets
<1>3. x \in Things
  BY JobShapes
<1>4. \A g \in Hosts \ {h} : ~(job[g] # Idle /\ x \in job[g].on)
  BY <1>2 DEF On
<1>5. ASSUME NEW g \in Hosts PROVE ~Owing(job[g], x)
  <2>1. Idle.step = "idle"
    BY DEF Idle
  <2> QED
    BY <1>1, <1>4, <2>1 DEF Owing, Owes
<1> QED
  BY <1>2, <1>3, <1>4, <1>5

LEMMA OpKnownGrows ==
    ASSUME NEW op \in Op \ {NoOp}, NEW ids, NEW n \in Nat, OpKnown(op, ids, n),
           NEW more, NEW m \in Nat, ids \subseteq more, n <= m
    PROVE  OpKnown(op, more, m)
<1>1. op.kind \in {"act", "text"} => op.row.act.id \in Nat
  <2>1. op.kind \in {"act", "text"} => op.row.act \in Action(ActionIds)
    BY OpShapes, RowShape
  <2>2. \A a \in Action(ActionIds) : a.id \in ActionIds
    BY ActionShapes
  <2> QED
    BY <2>1, <2>2, BoardsAssumption DEF ActionIds
<1> QED
  BY <1>1 DEF OpKnown

LEMMA OwesOp ==
    ASSUME TInv, NEW g \in Hosts, Owes(job[g])
    PROVE  job[g].op \in OpsOf(used, Ended) /\ job[g].op \in Op \ {NoOp}
<1>1. JobIn(job[g], used, Ended)
  BY TInvFacts
<1>2. job[g].op \in OpsOf(used, Ended)
  BY <1>1 DEF JobIn, Owes
<1> QED
  BY <1>2, OpsShape

\* A handler begins: of the things it is on, and of the others.
LEMMA BeginReady ==
    ASSUME TInv, NEW h \in Hosts, NEW next \in Job, next.step # "idle", Begin(h, next),
           NEW t, Ready(t), used \subseteq used', Ended \subseteq Ended', Apart' => Apart, begun' \in Nat,
           \A x \in Things \ next.on : HomeAt(Home, Home', x),
           \A x \in next.on \ crossed' : Match(Home, t, x) =>
               Match(Home', IF Owes(next) THEN Apply(t, next.op) ELSE t, x),
           Apart' => PensFit(t, job', Home', drawing', used', begun')
    PROVE  Ready(t)'
<1>1. /\ job'[h] = next /\ job[h] = Idle /\ \A g \in Hosts \ {h} : job'[g] = job[g]
      /\ crossed \subseteq crossed' /\ begun' = begun + 1 /\ begun \in Nat
  BY Begun, TInvFacts DEF Begin
<1>2. t \in Tables /\ Stock(t, used', Ended')
  BY InGrows DEF Ready
<1>3. ASSUME NEW x \in Things \ crossed', x \in next.on PROVE SavedAt(Home', t, job', x)
  <2>1. /\ x \notin crossed /\ \A g \in Hosts : ~Owing(job[g], x)
    BY <1>3, BegunAlone
  <2>2. Match(Home, t, x)
    BY <2>1 DEF Ready, SavedAt
  <2>3. Match(Home', IF Owes(next) THEN Apply(t, next.op) ELSE t, x)
    BY <1>3, <2>2
  <2>4. Owing(job'[h], x) <=> Owes(next)
    BY <1>1, <1>3 DEF Owing
  <2>5. \A g \in Hosts \ {h} : ~Owing(job'[g], x)
    BY <1>1, <2>1
  <2>6. CASE Owes(next)
    BY <1>1, <2>3, <2>4, <2>5, <2>6 DEF SavedAt
  <2>7. CASE ~Owes(next)
    BY <2>3, <2>4, <2>5, <2>7 DEF SavedAt
  <2> QED
    BY <2>6, <2>7
<1>4. ASSUME NEW x \in Things \ crossed', x \notin next.on PROVE SavedAt(Home', t, job', x)
  <2>1. HomeAt(Home, Home', x) /\ SavedAt(Home, t, job, x)
    BY <1>1, <1>4 DEF Ready
  <2>2. \A u : Match(Home, u, x) => Match(Home', u, x)
    BY <2>1, MatchHome
  <2>3. ~Owing(job'[h], x) /\ ~Owing(job[h], x)
    BY <1>1, <1>4 DEF Owing, Owes, Idle
  <2>4. \A g \in Hosts : Owing(job'[g], x) <=> Owing(job[g], x)
    BY <1>1, <2>3
  <2>5. \A g \in Hosts : Owing(job'[g], x) => job'[g].op = job[g].op
    BY <1>1, <2>3
  <2> QED
    BY <2>1, <2>2, <2>4, <2>5 DEF SavedAt
<1>5. Apart' => Good(t, used', begun')
  BY <1>1, <1>2, GoodGrows DEF Ready
<1> QED
  BY <1>2, <1>3, <1>4, <1>5 DEF Ready

\* What is due after a step was due before.
LEMMA DueKept ==
    ASSUME NEW t, NEW jobs, NEW k, NEW r, NEW q, NEW dr, NEW e, NEW h \in Hosts,
           DueOnce(t, jobs, r, dr), \A g \in Hosts \ {h} : k[g] = jobs[g],
           \A b \in Pens, s \in Strokes : Due(k, q, e, b, s) =>
               /\ Due(jobs, r, dr, b, s)
               /\ \A c \in Pens \ {b} : s \in DOMAIN q.pen[c].now.strokes => s \in DOMAIN r.pen[c].now.strokes
               /\ Owes(k[h]) /\ Brings(k[h].op, s) => k[h].op.board = b /\ StoresStroke(k[h].op, s)
    PROVE  DueOnce(t, k, q, e)
<1>1. ASSUME NEW b \in Pens, NEW s \in Strokes, Due(k, q, e, b, s)
      PROVE  /\ ~Has(t, s)
             /\ \A c \in Pens \ {b} : s \notin DOMAIN q.pen[c].now.strokes
             /\ \A g \in Hosts : Owes(k[g]) /\ Brings(k[g].op, s) =>
                     k[g].op.board = b /\ StoresStroke(k[g].op, s)
  <2>1. /\ ~Has(t, s)
        /\ \A c \in Pens \ {b} : s \notin DOMAIN r.pen[c].now.strokes
        /\ \A g \in Hosts : Owes(jobs[g]) /\ Brings(jobs[g].op, s) =>
                jobs[g].op.board = b /\ StoresStroke(jobs[g].op, s)
    BY <1>1 DEF DueOnce
  <2> QED
    BY <1>1, <2>1
<1> QED
  BY <1>1 DEF DueOnce

\* The other parts of PensFit.
LEMMA BeginFit ==
    ASSUME TInv, NEW h \in Hosts, NEW next \in Job, next.step # "idle", Begin(h, next),
           NEW t, Ready(t), Apart, begun' \in Nat, used \subseteq used',
           DueOnce(t, job', Home', drawing'), PensKnown(pen', drawing', used', begun'),
           Owes(next) => OpFits(t, next.op) /\ OpKnown(next.op, used', begun')
    PROVE  PensFit(t, job', Home', drawing', used', begun')
<1>1. /\ job'[h] = next /\ \A g \in Hosts \ {h} : job'[g] = job[g]
      /\ begun' = begun + 1 /\ begun \in Nat
  BY Begun, TInvFacts DEF Begin
<1>2. ASSUME NEW g \in Hosts \ {h}, Owes(job[g])
      PROVE  OpFits(t, job[g].op) /\ OpKnown(job[g].op, used', begun')
  <2>1. OpFits(t, job[g].op) /\ OpKnown(job[g].op, used, begun)
    BY <1>2 DEF Ready, PensFit
  <2>2. job[g].op \in Op \ {NoOp}
    BY <1>2, OwesOp
  <2> QED
    BY <1>1, <2>1, <2>2, OpKnownGrows
<1>3. Home'.pen = pen'
  BY DEF Home
<1>4. ASSUME NEW g \in Hosts, Owes(job'[g])
      PROVE  OpFits(t, job'[g].op) /\ OpKnown(job'[g].op, used', begun')
  BY <1>1, <1>2, <1>4
<1> QED
  BY <1>3, <1>4 DEF PensFit

-----------------------------------------------------------------------------
\* Where a handler begins alone, the tables will agree with the room.
LEMMA AloneMatch ==
    ASSUME TInv, NEW h \in Hosts, NEW next \in Job, next.step # "idle", Begin(h, next),
           NEW x \in next.on \ crossed', NEW t, Ready(t)
    PROVE  Match(Home, t, x)
<1>1. x \notin crossed /\ x \in Things /\ \A g \in Hosts : ~Owing(job[g], x)
  BY BegunAlone
<1> QED
  BY <1>1 DEF Ready, SavedAt

\* What a handler that changes xs and owes op has to show.
Agrees(t, xs, op) ==
    /\ \A x \in xs \ crossed' : Match(Home, t, x) =>
           Match(Home', IF op # NoOp THEN Apply(t, op) ELSE t, x)
    /\ Apart' => PensFit(t, job', Home', drawing', used', begun')

LEMMA TellHeld ==
    ASSUME WInv, SInv', NEW h \in Hosts, NEW xs \in SUBSET Things, NEW m \in Msg, m.board \in used',
           NEW op \in OpsOf(used', Ended') \cup {NoOp}, op # NoOp => op.board \in xs /\ op.kind # "focus",
           Begin(h, Tell(xs, m, op)), Unsaved, used \subseteq used', Ended \subseteq Ended',
           \A x \in Things \ xs : HomeAt(Home, Home', x),
           \A t : Ready(t) => Agrees(t, xs, op)
    PROVE  WInv'
<1> DEFINE next == Tell(xs, m, op)
<1>1. /\ next \in Job /\ next.step = "tell" /\ next.on = xs /\ next.op = op
      /\ Begin(h, next)
  <2>1. op \in Op
    BY OpsShape DEF Op
  <2> QED
    BY <2>1 DEF Tell, Job
<1> HIDE DEF next
<1>2. TInv /\ next.step # "idle"
  BY <1>1 DEF WInv, SInv
<1>3. /\ job'[h] = next /\ \A g \in Hosts \ {h} : job'[g] = job[g]
      /\ crossed \subseteq crossed' /\ begun' = begun + 1 /\ begun \in Nat
  BY <1>1, <1>2, Begun, TInvFacts DEF Begin
<1>4. Owes(next) <=> op # NoOp
  BY <1>1 DEF Owes
<1>5. (Apart' => Apart) /\ begun' \in Nat
  BY <1>3 DEF Apart
<1>6. ASSUME NEW t, Ready(t) PROVE Ready(t)'
  <2>1. Agrees(t, xs, op)
    BY <1>6
  <2>2. \A x \in next.on \ crossed' : Match(Home, t, x) =>
            Match(Home', IF Owes(next) THEN Apply(t, next.op) ELSE t, x)
    BY <1>1, <1>4, <2>1 DEF Agrees
  <2>3. Apart' => PensFit(t, job', Home', drawing', used', begun')
    BY <2>1 DEF Agrees
  <2>4. \A x \in Things \ next.on : HomeAt(Home, Home', x)
    BY <1>1
  <2> QED
    BY <1>1, <1>2, <1>5, <1>6, <2>2, <2>3, <2>4, BeginReady
<1>7. \A g \in Hosts : OwesIn(job'[g])
  <2>1. OwesIn(next)
    BY <1>1, <1>4 DEF OwesIn
  <2> QED
    BY <1>3, <2>1 DEF WInv
<1>8. UNCHANGED <<queue, applied, work, db, lost>> /\ begun <= begun'
  BY <1>3 DEF Unsaved, tableVars
<1> QED
  BY <1>3, <1>6, <1>7, <1>8, StepHeld

LEMMA PenIds ==
    ASSUME TInv, NEW b \in Pens
    PROVE  \A i \in DOMAIN pen[b].log : pen[b].log[i].id \in Nat
<1>1. pen[b] \in PenState(ActionIds)
  BY PenIs
<1>2. \A i \in DOMAIN pen[b].log : pen[b].log[i] \in Action(ActionIds)
  BY <1>1, LogIs
<1>3. \A a \in Action(ActionIds) : a.id \in ActionIds
  BY ActionShapes
<1> QED
  BY <1>2, <1>3, BoardsAssumption DEF ActionIds

\* Handlers of the list leave pen boards as they are, or without anything.
LEMMA ListFit ==
    ASSUME TInv, NEW h \in Hosts, NEW next \in Job, next.step # "idle", Begin(h, next),
           NEW t, Ready(t), Apart, begun' \in Nat, used \subseteq used', drawing' = drawing,
           \A b \in Pens : pen'[b] = pen[b] \/ pen'[b] = NoPen,
           Owes(next) => next.op.kind \notin {"act", "text"} /\ OpFits(t, next.op)
    PROVE  PensFit(t, job', Home', drawing', used', begun')
<1>1. /\ job'[h] = next /\ \A g \in Hosts \ {h} : job'[g] = job[g]
      /\ begun' = begun + 1 /\ begun \in Nat
  BY Begun, TInvFacts DEF Begin
<1>2. PensFit(t, job, Home, drawing, used, begun)
  BY DEF Ready
<1>3. Home'.pen = pen' /\ Home.pen = pen
  BY DEF Home
<1>4. \A s : ~CanEnd(NoPen, s) /\ s \notin DOMAIN NoPen.now.strokes
  BY DEF CanEnd, NoPen, Blank, NoMap
<1>5. Owes(next) => \A s : ~StoresStroke(next.op, s) /\ ~Brings(next.op, s)
  BY DEF StoresStroke, Brings
<1>6. ASSUME NEW b \in Pens, NEW s \in Strokes, Due(job', Home', drawing', b, s)
      PROVE  /\ Due(job, Home, drawing, b, s)
             /\ \A c \in Pens \ {b} : s \in DOMAIN Home'.pen[c].now.strokes =>
                                         s \in DOMAIN Home.pen[c].now.strokes
             /\ Owes(job'[h]) /\ Brings(job'[h].op, s) =>
                    job'[h].op.board = b /\ StoresStroke(job'[h].op, s)
  <2>1. Due(job, Home, drawing, b, s)
    BY <1>1, <1>3, <1>4, <1>5, <1>6 DEF Due
  <2>2. \A c \in Pens \ {b} : s \in DOMAIN Home'.pen[c].now.strokes =>
                                 s \in DOMAIN Home.pen[c].now.strokes
    BY <1>3, <1>4
  <2> QED
    BY <1>1, <1>5, <2>1, <2>2
<1>7. DueOnce(t, job', Home', drawing')
  <2>1. DueOnce(t, job, Home, drawing)
    BY <1>2 DEF PensFit
  <2> QED
    BY <1>1, <1>6, <2>1, DueKept
<1>8. PensKnown(pen', drawing', used', begun')
  <2>1. PensKnown(pen, drawing, used, begun)
    BY <1>2, <1>3 DEF PensFit
  <2>2. ASSUME NEW b \in Pens PROVE PenKnown(pen'[b], drawing', used', begun')
    <3>1. CASE pen'[b] = NoPen
      <4>1. NoPen.log = <<>> /\ DOMAIN NoPen.log = {}
        BY DEF NoPen
      <4> QED
        BY <1>4, <3>1, <4>1 DEF Standing, PenKnown
    <3>2. CASE pen'[b] = pen[b]
      <4>1. \A i \in DOMAIN pen[b].log : pen[b].log[i].id \in Nat
        BY PenIds
      <4> QED
        BY <1>1, <2>1, <3>2, <4>1 DEF PensKnown, PenKnown
    <3> QED
      BY <3>1, <3>2
  <2> QED
    BY <2>2 DEF PensKnown
<1>9. Owes(next) => OpFits(t, next.op) /\ OpKnown(next.op, used', begun')
  BY <1>5 DEF OpKnown
<1> QED
  BY <1>7, <1>8, <1>9, BeginFit

-----------------------------------------------------------------------------
\* Handlers of the list say and owe the same board's change.
LEMMA ListHeld ==
    ASSUME WInv, SInv', NEW h \in Hosts, NEW xs \in SUBSET Things, NEW m \in Msg, m.board \in used',
           NEW op \in OpsOf(used', Ended'), op.board \in xs, op.kind \notin {"focus", "act", "text"},
           Begin(h, Tell(xs, m, op)), Unsaved, used \subseteq used', drawing' = drawing,
           \A b \in Pens : pen'[b] = pen[b] \/ pen'[b] = NoPen,
           op.kind = "scene" => op.board \in DOMAIN title,
           \A x \in Things \ xs : HomeAt(Home, Home', x),
           \A t \in Tables : \A x \in xs \ crossed' :
               Match(Home, t, x) => Match(Home', Apply(t, op), x)
    PROVE  WInv'
<1>0. TInv /\ TInv'
  BY DEF WInv, SInv
<1>1. Ended \subseteq Ended' /\ op \in Op \ {NoOp} /\ op # NoOp /\ op.board \in Ids
  BY <1>0, OpsShape, OpShapes DEF Ended
<1> DEFINE next == Tell(xs, m, op)
<1>2. /\ next \in Job /\ next.step = "tell" /\ next.on = xs /\ next.op = op
      /\ Begin(h, next)
  BY <1>1 DEF Tell, Job
<1> HIDE DEF next
<1>3. next.step # "idle" /\ begun' \in Nat /\ crossed \subseteq crossed'
  BY <1>0, <1>2, Begun, BoardsAssumption DEF Begin, TInv, TypeOK
<1>4. ASSUME NEW t, Ready(t) PROVE Agrees(t, xs, op)
  <2>1. t \in Tables
    BY <1>4 DEF Ready
  <2>2. ASSUME Apart' PROVE PensFit(t, job', Home', drawing', used', begun')
    <3>1. Apart
      BY <1>3, <2>2 DEF Apart
    <3>2. op.board \in next.on \ crossed'
      BY <1>1, <1>2, <2>2 DEF Apart
    <3>3. Match(Home, t, op.board)
      BY <1>0, <1>2, <1>3, <1>4, <3>2, AloneMatch
    <3>4. OpFits(t, op)
      BY <1>1, <3>3 DEF OpFits, NeedsBoard, Match, Home
    <3> QED
      BY <1>0, <1>2, <1>3, <1>4, <3>1, <3>4, ListFit
  <2> QED
    BY <1>1, <2>1, <2>2 DEF Agrees
<1> QED
  BY <1>1, <1>4, TellHeld

LEMMA CreateHeld ==
    ASSUME WInv, SInv', NEW h \in Hosts, NEW b \in Ids, CreateBoard(h, b)
    PROVE  WInv'
<1> DEFINE m  == [kind |-> "created", board |-> b, title |-> Untitled]
           op == [kind |-> "upsert", board |-> b, title |-> Untitled]
<1>1. /\ title' = Put(title, b, Untitled) /\ used' = used \cup {b} /\ b \notin used
      /\ UNCHANGED <<focus, scene, marked, pen, drawing>> /\ Unsaved
      /\ Begin(h, Tell({b}, m, op)) /\ crossed \subseteq crossed'
  BY DEF CreateBoard, Begin
<1>2. /\ m \in Msg /\ m.board \in used' /\ {b} \in SUBSET Things
      /\ op \in OpsOf(used', Ended')
  BY <1>1, BoardsAssumption DEF Msg, ListMsg, OpsOf, Op, ListOp, NoOp, Things
<1>3. op.board = b /\ op.kind = "upsert" /\ op.title = Untitled /\ b # "focus"
  BY BoardsAssumption
<1> HIDE DEF m, op
<1>4. Apart' => Apart
  BY <1>1 DEF Apart
<1>5. \A x \in Things \ {b} : HomeAt(Home, Home', x)
  BY <1>1, <1>4 DEF HomeAt, Home, Put
<1>6. ASSUME NEW t \in Tables, Match(Home, t, b)
      PROVE  Match(Home', Apply(t, op), b)
  <2> DEFINE u == Apply(t, op)
  <2>1. Changes(t, u, op)
    BY <1>2, OpsShape, ApplyIs
  <2> HIDE DEF u
  <2>2. u.title = Put(t.title, b, Untitled)
    BY <1>3, <2>1 DEF Changes
  <2>3. /\ b \in DOMAIN u.title /\ b \in DOMAIN title'
        /\ u.title[b] = title'[b]
    BY <1>1, <2>2 DEF Put
  <2>4. b \in Scenes => u.scene[b] = scene'[b]
    BY <1>1, <1>3, <1>6, <2>1 DEF Changes, Match, Home
  <2>5. ASSUME b \in Pens, Apart' PROVE Linked(pen'[b], u.pen[b]) /\ Sound(u.pen[b])
    <3>1. u.pen[b] = t.pen[b]
      BY <1>3, <2>1, <2>5 DEF Changes
    <3> QED
      BY <1>1, <1>4, <1>6, <2>5, <3>1 DEF Match, Home
  <2>6. Match(Home', u, b)
    BY <1>3, <2>3, <2>4, <2>5 DEF Match, Home
  <2> QED
    BY <2>6 DEF u
<1>7. /\ \A c \in Pens : pen'[c] = pen[c] \/ pen'[c] = NoPen
      /\ \A t \in Tables : \A x \in {b} \ crossed' : Match(Home, t, x) => Match(Home', Apply(t, op), x)
      /\ used \subseteq used' /\ drawing' = drawing
  BY <1>1, <1>6
<1> QED
  BY <1>1, <1>2, <1>3, <1>5, <1>7, ListHeld

LEMMA RenameHeld ==
    ASSUME WInv, SInv', NEW h \in Hosts, NEW b \in Ids, NEW n \in Titles, RenameBoard(h, b, n)
    PROVE  WInv'
<1> DEFINE m  == [kind |-> "renamed", board |-> b, title |-> n]
           op == [kind |-> "rename", board |-> b, title |-> n]
<1>1. /\ title' = Put(title, b, n) /\ b \in DOMAIN title
      /\ UNCHANGED <<focus, scene, marked, pen, used, drawing>> /\ Unsaved
      /\ Begin(h, Tell({b}, m, op)) /\ crossed \subseteq crossed'
  BY DEF RenameBoard, Begin, Exists, idVars
<1>2. b \in used'
  BY <1>1, RoomIsOK DEF RoomOK, WInv, SInv
<1>3. /\ m \in Msg /\ m.board \in used' /\ {b} \in SUBSET Things
      /\ op \in OpsOf(used', Ended')
  BY <1>2 DEF Msg, ListMsg, OpsOf, Op, ListOp, NoOp, Things
<1>4. op.board = b /\ op.kind = "rename" /\ op.title = n /\ b # "focus"
  BY BoardsAssumption
<1> HIDE DEF m, op
<1>5. Apart' => Apart
  BY <1>1 DEF Apart
<1>6. \A x \in Things \ {b} : HomeAt(Home, Home', x)
  BY <1>1, <1>5 DEF HomeAt, Home, Put
<1>7. ASSUME NEW t \in Tables, Match(Home, t, b)
      PROVE  Match(Home', Apply(t, op), b)
  <2> DEFINE u == Apply(t, op)
  <2>1. Changes(t, u, op)
    BY <1>3, OpsShape, ApplyIs
  <2> HIDE DEF u
  <2>2. u.title = Retitle(t.title, b, n)
    BY <1>4, <2>1 DEF Changes
  <2>3. b \in DOMAIN t.title
    BY <1>1, <1>7 DEF Match, Home
  <2>4. /\ b \in DOMAIN u.title /\ b \in DOMAIN title'
        /\ u.title[b] = title'[b]
    BY <1>1, <2>2, <2>3 DEF Put, Retitle
  <2>5. b \in Scenes => u.scene[b] = scene'[b]
    BY <1>1, <1>4, <1>7, <2>1 DEF Changes, Match, Home
  <2>6. ASSUME b \in Pens, Apart' PROVE Linked(pen'[b], u.pen[b]) /\ Sound(u.pen[b])
    <3>1. u.pen[b] = t.pen[b]
      BY <1>4, <2>1, <2>6 DEF Changes
    <3> QED
      BY <1>1, <1>5, <1>7, <2>6, <3>1 DEF Match, Home
  <2>7. Match(Home', u, b)
    BY <1>4, <2>4, <2>5, <2>6 DEF Match, Home
  <2> QED
    BY <2>7 DEF u
<1>8. /\ \A c \in Pens : pen'[c] = pen[c] \/ pen'[c] = NoPen
      /\ \A t \in Tables : \A x \in {b} \ crossed' : Match(Home, t, x) => Match(Home', Apply(t, op), x)
      /\ used \subseteq used' /\ drawing' = drawing
  BY <1>1, <1>7
<1> QED
  BY <1>1, <1>3, <1>4, <1>6, <1>8, ListHeld

LEMMA DeleteHeld ==
    ASSUME WInv, SInv', NEW h \in Hosts, NEW b \in Ids, DeleteBoard(h, b)
    PROVE  WInv'
<1> DEFINE m  == [kind |-> "deleted", board |-> b]
           op == [kind |-> "delete", board |-> b]
<1>1. /\ title' = Without(title, {b}) /\ focus' = FocusWithout(b) /\ scene' = ScenesWithout(b)
      /\ pen' = [c \in Pens |-> IF c = b THEN NoPen ELSE pen[c]] /\ b \in DOMAIN title
      /\ UNCHANGED <<marked, used, drawing>> /\ Unsaved
      /\ Begin(h, Tell({b, "focus"}, m, op)) /\ crossed \subseteq crossed'
  BY DEF DeleteBoard, Begin, Exists, idVars
<1>2. b \in used'
  BY <1>1, RoomIsOK DEF RoomOK, WInv, SInv
<1>3. /\ m \in Msg /\ m.board \in used' /\ {b, "focus"} \in SUBSET Things
      /\ op \in OpsOf(used', Ended')
  BY <1>2 DEF Msg, ListMsg, OpsOf, Op, ListOp, NoOp, Things
<1>4. op.board = b /\ op.kind = "delete" /\ b # "focus"
  BY BoardsAssumption
<1> HIDE DEF m, op
<1>5. Apart' => Apart
  BY <1>1 DEF Apart
<1>6. /\ \A c \in Scenes : scene'[c] = IF c = b THEN 0 ELSE scene[c]
      /\ \A c \in Pens : pen'[c] = IF c = b THEN NoPen ELSE pen[c]
      /\ b \notin DOMAIN title'
  BY <1>1 DEF ScenesWithout, Without, Restrict
<1>7. \A x \in Things \ {b, "focus"} : HomeAt(Home, Home', x)
  <2>1. \A x \in Things \ {b, "focus"} :
          /\ x \in DOMAIN title' <=> x \in DOMAIN title
          /\ x \in DOMAIN title => title'[x] = title[x]
    BY <1>1 DEF Without, Restrict
  <2> QED
    BY <1>5, <1>6, <2>1 DEF HomeAt, Home
<1>8. ASSUME NEW t \in Tables
      PROVE  /\ Match(Home, t, b) => Match(Home', Apply(t, op), b)
             /\ Match(Home, t, "focus") => Match(Home', Apply(t, op), "focus")
  <2> DEFINE u == Apply(t, op)
  <2>1. Changes(t, u, op)
    BY <1>3, OpsShape, ApplyIs
  <2> HIDE DEF u
  <2>2. b \notin DOMAIN u.title
    BY <1>4, <2>1 DEF Changes, Without, Restrict
  <2>3. b \in Scenes => u.scene[b] = 0
    BY <1>4, <2>1 DEF Changes
  <2>4. b \in Pens => u.pen[b] = NoTable
    BY <1>4, <2>1 DEF Changes
  <2>5. Match(Home', u, b)
    BY <1>4, <1>6, <2>2, <2>3, <2>4, NothingLinked DEF Match, Home
  <2>6. u.focus = t.focus
    BY <1>4, <2>1 DEF Changes
  <2>7. focus' # NoBoard => focus' = focus
    BY <1>1 DEF FocusWithout
  <2>8. "focus" \notin Ids /\ "focus" \notin Scenes /\ "focus" \notin Pens
    BY BoardsAssumption DEF Ids
  <2>9. Match(Home, t, "focus") => Match(Home', u, "focus")
    BY <2>6, <2>7, <2>8 DEF Match, Home
  <2> QED
    BY <2>5, <2>9 DEF u
<1>9. /\ \A c \in Pens : pen'[c] = pen[c] \/ pen'[c] = NoPen
      /\ \A t \in Tables : \A x \in {b, "focus"} \ crossed' :
            Match(Home, t, x) => Match(Home', Apply(t, op), x)
      /\ used \subseteq used' /\ drawing' = drawing
  BY <1>1, <1>6, <1>8
<1> QED
  BY <1>1, <1>3, <1>4, <1>7, <1>9, ListHeld

LEMMA SceneHeld ==
    ASSUME WInv, SInv', NEW h \in Hosts, NEW b \in Scenes, NEW v \in Versions, UpdateScene(h, b, v)
    PROVE  WInv'
<1> DEFINE m  == [kind |-> "scene", board |-> b, version |-> v]
           op == [kind |-> "scene", board |-> b, version |-> v]
<1>1. /\ scene' = [scene EXCEPT ![b] = v] /\ b \in DOMAIN title
      /\ UNCHANGED <<title, focus, marked, pen, used, drawing>> /\ Unsaved
      /\ Begin(h, Tell({b}, m, op)) /\ crossed \subseteq crossed'
  BY DEF UpdateScene, Begin, Exists, idVars
<1>2. b \in used' /\ scene \in [Scenes -> Versions] /\ b \in Ids
  BY <1>1, RoomIsOK DEF RoomOK, WInv, SInv, Ids
<1>3. /\ m \in Msg /\ m.board \in used' /\ {b} \in SUBSET Things
      /\ op \in OpsOf(used', Ended')
  BY <1>2 DEF Msg, ListMsg, OpsOf, Op, ListOp, NoOp, Things, Ids
<1>4. op.board = b /\ op.kind = "scene" /\ op.version = v /\ b # "focus" /\ b \notin Pens
  BY <1>2, BoardsAssumption
<1> HIDE DEF m, op
<1>5. Apart' => Apart
  BY <1>1 DEF Apart
<1>6. \A c \in Scenes : scene'[c] = IF c = b THEN v ELSE scene[c]
  BY <1>1, <1>2
<1>7. \A x \in Things \ {b} : HomeAt(Home, Home', x)
  BY <1>1, <1>5, <1>6 DEF HomeAt, Home
<1>8. ASSUME NEW t \in Tables, Match(Home, t, b)
      PROVE  Match(Home', Apply(t, op), b)
  <2> DEFINE u == Apply(t, op)
  <2>1. Changes(t, u, op)
    BY <1>3, OpsShape, ApplyIs
  <2> HIDE DEF u
  <2>2. u.title = t.title /\ u.scene[b] = v
    BY <1>4, <2>1 DEF Changes
  <2>3. Match(Home', u, b)
    BY <1>1, <1>4, <1>6, <1>8, <2>2 DEF Match, Home
  <2> QED
    BY <2>3 DEF u
<1>9. /\ \A c \in Pens : pen'[c] = pen[c] \/ pen'[c] = NoPen
      /\ \A t \in Tables : \A x \in {b} \ crossed' : Match(Home, t, x) => Match(Home', Apply(t, op), x)
      /\ used \subseteq used' /\ drawing' = drawing
  BY <1>1, <1>8
<1> QED
  BY <1>1, <1>3, <1>4, <1>7, <1>9, ListHeld

LEMMA CheckHeld ==
    ASSUME WInv, SInv', NEW h \in Hosts, NEW b \in Ids, CheckFocus(h, b)
    PROVE  WInv'
<1> DEFINE next == [step |-> "checked", on |-> {b, "focus"}, board |-> b]
<1>1. /\ Begin(h, next) /\ UNCHANGED <<title, focus, scene, marked, pen, used, drawing>>
      /\ UNCHANGED <<queue, applied, work, db, lost>> /\ Ended' = Ended
  BY DEF CheckFocus, roomVars, idVars, Unsaved, tableVars, Ended
<1>2. next \in Job /\ next.step = "checked" /\ ~Owes(next)
  BY DEF Job, Things, Owes
<1> HIDE DEF next
<1>0. TInv /\ TInv'
  BY DEF WInv, SInv
<1>3. /\ next.step # "idle" /\ begun' \in Nat /\ crossed \subseteq crossed'
      /\ begun' = begun + 1 /\ begun \in Nat
      /\ job'[h] = next /\ \A g \in Hosts \ {h} : job'[g] = job[g]
  BY <1>0, <1>1, <1>2, Begun, TInvFacts, BoardsAssumption DEF Begin, TInv, TypeOK
<1>4. Apart' => Apart
  BY <1>3 DEF Apart
<1>5. \A x : HomeAt(Home, Home', x)
  BY <1>1, <1>4 DEF HomeAt, Home
<1>6. ASSUME NEW t, Ready(t) PROVE Ready(t)'
  <2>1. ASSUME Apart' PROVE PensFit(t, job', Home', drawing', used', begun')
    BY <1>0, <1>1, <1>2, <1>3, <1>4, <1>6, <2>1, ListFit
  <2>2. \A x \in next.on \ crossed' : Match(Home, t, x) =>
            Match(Home', IF Owes(next) THEN Apply(t, next.op) ELSE t, x)
    BY <1>2, <1>5, MatchHome
  <2> QED
    BY <1>0, <1>1, <1>2, <1>3, <1>4, <1>5, <1>6, <2>1, <2>2, BeginReady
<1>7. \A g \in Hosts : OwesIn(job'[g])
  BY <1>2, <1>3 DEF WInv, OwesIn
<1> QED
  BY <1>1, <1>3, <1>6, <1>7, StepHeld

-----------------------------------------------------------------------------
\* What an operation makes of its board's pen table.
PenAfter(t, op) ==
    CASE op.kind = "act"  -> StoreAction(t, op.row)
      [] op.kind = "text" -> StoreText(t, op.row, op.value)
      [] op.kind = "undo" -> UndoRow(t, op.id)
      [] OTHER -> t

\* What a handler of a pen board has to show.
PenAgrees(t, b, state, op) ==
    /\ Linked(state, PenAfter(t.pen[b], op)) /\ Sound(PenAfter(t.pen[b], op))
    /\ PenKnown(state, drawing', used', begun')
    /\ DueOnce(t, job', Home', drawing')
    /\ op # NoOp => OpKnown(op, used', begun')

\* The handler of a pen board, as one that begins.
PenBegins(h, b, state, m, op) ==
    /\ Tell({b}, m, op) \in Job /\ Tell({b}, m, op).step = "tell"
    /\ Tell({b}, m, op).on = {b} /\ Tell({b}, m, op).op = op
    /\ Begin(h, Tell({b}, m, op)) /\ Unsaved
    /\ m \in Msg /\ m.board \in used' /\ op \in OpsOf(used', Ended') \cup {NoOp}
    /\ pen' = [pen EXCEPT ![b] = state] /\ UNCHANGED <<title, focus, scene, marked>>
    /\ \A c \in Pens : pen'[c] = IF c = b THEN state ELSE pen[c]
    /\ job'[h] = Tell({b}, m, op) /\ \A g \in Hosts \ {h} : job'[g] = job[g]
    /\ job[h] = Idle /\ begun \in Nat /\ begun' = begun + 1 /\ NextId = begun'
    /\ crossed \subseteq crossed'

LEMMA PenNext ==
    ASSUME SInv, SInv', NEW h \in Hosts, NEW b \in Pens, NEW state, NEW m, NEW op,
           PenStep(h, b, state, m, op)
    PROVE  PenBegins(h, b, state, m, op)
<1> DEFINE next == Tell({b}, m, op)
<1>0. TInv /\ TInv'
  BY DEF SInv
<1>1. /\ pen' = [pen EXCEPT ![b] = state] /\ Begin(h, next) /\ Unsaved
      /\ UNCHANGED <<title, focus, scene, marked>>
  BY DEF PenStep, listVars
<1>2. next.step = "tell" /\ next.on = {b} /\ next.op = op /\ next.msg = m
  BY DEF Tell
<1>3. job \in [Hosts -> Job] /\ begun \in Nat /\ pen \in [Pens -> PenState(ActionIds)]
  BY <1>0, TInvFacts, RoomIsOK DEF RoomOK
<1> HIDE DEF next
<1>4. job'[h] = next /\ job[h] = Idle /\ begun' = begun + 1 /\ crossed \subseteq crossed'
      /\ \A g \in Hosts \ {h} : job'[g] = job[g]
  BY <1>1, <1>3 DEF Begin
<1>5. job' \in [Hosts -> Job] /\ JobIn(job'[h], used', Ended')
  BY <1>0 DEF TInv, TypeOK, InUse
<1>6. next \in Job /\ m \in Msg /\ m.board \in used' /\ op \in OpsOf(used', Ended') \cup {NoOp}
  BY <1>2, <1>4, <1>5, JobShapes DEF JobIn
<1>7. \A c \in Pens : pen'[c] = IF c = b THEN state ELSE pen[c]
  BY <1>1, <1>3
<1>8. NextId = begun'
  BY <1>4 DEF NextId
<1> QED
  BY <1>1, <1>2, <1>3, <1>4, <1>6, <1>7, <1>8 DEF next, PenBegins

\* What it finds there.
LEMMA PenReady ==
    ASSUME WInv, SInv', NEW h \in Hosts, NEW b \in Pens, NEW state, NEW m, NEW op,
           PenStep(h, b, state, m, op), b \in DOMAIN title, NEW t, Ready(t), Apart'
    PROVE  /\ Apart /\ t \in Tables /\ t.pen[b] \in PenTable(ActionIds) /\ b \in DOMAIN t.title
           /\ Linked(pen[b], t.pen[b]) /\ Sound(t.pen[b])
           /\ Fresh(pen[b].log, NextId) /\ PenKnown(pen[b], drawing, used, begun)
           /\ DueOnce(t, job, Home, drawing) /\ Known(t, used, begun)
           /\ PensFit(t, job, Home, drawing, used, begun)
           /\ \A g \in Hosts : ~(Owes(job[g]) /\ job[g].op.board = b)
<1> DEFINE next == Tell({b}, m, op)
<1>0. SInv /\ TInv
  BY DEF WInv, SInv
<1>b. PenBegins(h, b, state, m, op)
  BY <1>0, PenNext
<1>1. /\ next \in Job /\ next.step = "tell" /\ next.on = {b} /\ Begin(h, next)
      /\ begun \in Nat /\ NextId = begun + 1 /\ crossed \subseteq crossed'
  BY <1>b DEF NextId, PenBegins
<1> HIDE DEF next
<1>2. b \in next.on \ crossed' /\ Apart
  BY <1>1 DEF Apart, Ids
<1>3. Match(Home, t, b) /\ Home.apart
  BY <1>0, <1>1, <1>2, AloneMatch DEF Home
<1>4. \A g \in Hosts : ~Owing(job[g], b)
  BY <1>0, <1>1, <1>2, BegunAlone
<1>5. \A g \in Hosts : ~(Owes(job[g]) /\ job[g].op.board = b)
  BY <1>4 DEF WInv, OwesIn, Owing
<1>6. t \in Tables /\ t.pen[b] \in PenTable(ActionIds)
  BY TablesShape DEF Ready
<1>7. b \in DOMAIN t.title /\ Linked(pen[b], t.pen[b]) /\ Sound(t.pen[b])
  BY <1>3 DEF Match, Home, Ids
<1>8. /\ PensFit(t, job, Home, drawing, used, begun) /\ Known(t, used, begun)
  BY <1>2 DEF Ready, Good
<1>9. DueOnce(t, job, Home, drawing) /\ PenKnown(pen[b], drawing, used, begun)
  BY <1>8 DEF PensFit, PensKnown, Home
<1>10. Fresh(pen[b].log, NextId)
  <2>1. \A i \in DOMAIN pen[b].log : pen[b].log[i].id \in Nat
    BY <1>0, PenIds
  <2> QED
    BY <1>1, <1>9, <2>1 DEF Fresh, PenKnown
<1> QED
  BY <1>2, <1>5, <1>6, <1>7, <1>8, <1>9, <1>10

LEMMA PenHeld ==
    ASSUME WInv, SInv', NEW h \in Hosts, NEW b \in Pens, NEW state, NEW m, NEW op,
           PenStep(h, b, state, m, op), b \in DOMAIN title,
           op # NoOp => op.board = b /\ op.kind \in {"act", "text", "undo"},
           used \subseteq used', Ended \subseteq Ended',
           \A c \in Pens \ {b}, s \in drawing' : CanEnd(pen[c], s) => s \in drawing,
           \A t : Ready(t) /\ Apart' => PenAgrees(t, b, state, op)
    PROVE  WInv'
<1> DEFINE next == Tell({b}, m, op)
<1>0. SInv /\ TInv
  BY DEF WInv, SInv
<1>b. PenBegins(h, b, state, m, op)
  BY <1>0, PenNext
<1>1. /\ next \in Job /\ next.step = "tell" /\ next.on = {b} /\ next.op = op
      /\ Begin(h, next) /\ Unsaved
      /\ m \in Msg /\ m.board \in used' /\ op \in OpsOf(used', Ended') \cup {NoOp}
      /\ UNCHANGED <<title, focus, scene>>
      /\ begun \in Nat /\ begun' = begun + 1 /\ crossed \subseteq crossed'
  BY <1>b DEF PenBegins
<1>2. \A c \in Pens : pen'[c] = IF c = b THEN state ELSE pen[c]
  BY <1>b DEF PenBegins
<1>3. (Apart' => Apart) /\ {b} \in SUBSET Things /\ b \notin Scenes /\ b # "focus" /\ b \in Ids
  BY <1>1, BoardsAssumption DEF Apart, Things, Ids
<1>4. \A x \in Things \ {b} : HomeAt(Home, Home', x)
  BY <1>1, <1>2, <1>3 DEF HomeAt, Home
<1>5. op # NoOp => op.board \in {b} /\ op.kind # "focus" /\ op \in Op \ {NoOp}
  BY <1>1, OpsShape
<1>6. ASSUME NEW t, Ready(t) PROVE Agrees(t, {b}, op)
  <2>0. t \in Tables
    BY <1>6 DEF Ready
  <2> DEFINE u == IF op # NoOp THEN Apply(t, op) ELSE t
  <2>1. u.title = t.title /\ u.pen[b] = PenAfter(t.pen[b], op)
    <3>1. CASE op = NoOp
      <4>1. op.kind = "none"
        BY <3>1 DEF NoOp
      <4> QED
        BY <3>1, <4>1 DEF PenAfter
    <3>2. CASE op # NoOp
      <4>1. Changes(t, Apply(t, op), op)
        BY <1>5, <2>0, <3>2, ApplyIs
      <4>2. Apply(t, op).title = t.title /\ Apply(t, op).pen[b] = PenAfter(t.pen[b], op)
        BY <3>2, <4>1 DEF Changes, PenAfter
      <4> QED
        BY <3>2, <4>2
    <3> QED
      BY <3>1, <3>2
  <2> HIDE DEF u
  <2>2. ASSUME Match(Home, t, b) PROVE Match(Home', u, b)
    <3>1. ASSUME Apart' PROVE Linked(pen'[b], u.pen[b]) /\ Sound(u.pen[b])
      BY <1>2, <1>6, <2>1, <3>1 DEF PenAgrees
    <3> QED
      BY <1>1, <1>3, <2>1, <2>2, <3>1 DEF Match, Home
  <2>3. ASSUME Apart' PROVE PensFit(t, job', Home', drawing', used', begun')
    <3>1. /\ PenKnown(state, drawing', used', begun') /\ DueOnce(t, job', Home', drawing')
          /\ op # NoOp => OpKnown(op, used', begun')
      BY <1>6, <2>3 DEF PenAgrees
    <3>2. Apart /\ b \in DOMAIN t.title /\ PensFit(t, job, Home, drawing, used, begun)
      BY <1>6, <2>3, PenReady
    <3>3. PensKnown(pen', drawing', used', begun')
      <4>1. ASSUME NEW c \in Pens \ {b} PROVE PenKnown(pen[c], drawing', used', begun')
        <5>1. PenKnown(pen[c], drawing, used, begun)
          BY <3>2 DEF PensFit, PensKnown, Home
        <5>2. \A i \in DOMAIN pen[c].log : pen[c].log[i].id \in Nat
          BY <1>0, PenIds
        <5>3. Standing(pen[c], drawing')
          BY <5>1 DEF PenKnown, Standing
        <5> QED
          BY <1>1, <5>1, <5>2, <5>3 DEF PenKnown
      <4> QED
        BY <1>2, <3>1, <4>1 DEF PensKnown
    <3>4. Owes(next) => OpFits(t, next.op) /\ OpKnown(next.op, used', begun')
      BY <1>1, <1>5, <3>1, <3>2 DEF Owes, OpFits
    <3>5. next.step # "idle" /\ begun' \in Nat
      BY <1>1
    <3> HIDE DEF next
    <3> QED
      BY <1>0, <1>1, <1>6, <3>1, <3>2, <3>3, <3>4, <3>5, BeginFit
  <2> QED
    BY <2>2, <2>3 DEF Agrees, u
<1> QED
  BY <1>1, <1>3, <1>4, <1>5, <1>6, TellHeld

-----------------------------------------------------------------------------
\* A handler after which no more strokes can be ended, and only that one is
\* brought to the tables which it ends, or those it takes from the board.
Narrows(p, q, op, dr) ==
    /\ \A s : CanEnd(q, s) => CanEnd(p, s)
    /\ DOMAIN q.now.strokes \subseteq DOMAIN p.now.strokes
    /\ \A s : StoresStroke(op, s) => s \in dr /\ CanEnd(p, s)
    /\ \A s : Brings(op, s) => /\ s \in DOMAIN p.now.strokes
                               /\ StoresStroke(op, s) \/ s \notin DOMAIN q.now.strokes

LEMMA PenDue ==
    ASSUME WInv, SInv', NEW h \in Hosts, NEW b \in Pens, NEW state, NEW m, NEW op,
           PenStep(h, b, state, m, op), b \in DOMAIN title, NEW t, Ready(t), Apart',
           drawing' \subseteq drawing, op # NoOp, op.board = b, Narrows(pen[b], state, op, drawing)
    PROVE  DueOnce(t, job', Home', drawing')
<1>0. SInv
  BY DEF WInv
<1>1. PenBegins(h, b, state, m, op)
  BY <1>0, PenNext
<1> DEFINE next == Tell({b}, m, op)
<1>2. /\ job'[h] = next /\ next.step = "tell" /\ next.op = op /\ \A g \in Hosts \ {h} : job'[g] = job[g]
  BY <1>1 DEF PenBegins
<1>3. \A c \in Pens : pen'[c] = IF c = b THEN state ELSE pen[c]
  BY <1>1 DEF PenBegins
<1> HIDE DEF next
<1>4. /\ DueOnce(t, job, Home, drawing)
      /\ \A g \in Hosts : ~(Owes(job[g]) /\ job[g].op.board = b)
  BY PenReady
<1>5. Home.pen = pen /\ Home'.pen = pen' /\ Owes(job'[h])
  BY <1>2 DEF Home, Owes
<1>6. ASSUME NEW c \in Pens, NEW s \in Strokes, Due(job', Home', drawing', c, s)
      PROVE  Due(job, Home, drawing, c, s)
  <2>1. CASE s \in drawing' /\ CanEnd(pen'[c], s)
    <3>1. s \in drawing /\ CanEnd(pen[c], s)
      BY <1>3, <2>1 DEF Narrows
    <3> QED
      BY <1>5, <3>1 DEF Due
  <2>2. CASE \E g \in Hosts : Owes(job'[g]) /\ job'[g].op.board = c /\ StoresStroke(job'[g].op, s)
    <3>1. PICK g \in Hosts : Owes(job'[g]) /\ job'[g].op.board = c /\ StoresStroke(job'[g].op, s)
      BY <2>2
    <3>2. CASE g = h
      <4>1. c = b /\ StoresStroke(op, s)
        BY <1>2, <3>1, <3>2
      <4>2. s \in drawing /\ CanEnd(pen[b], s)
        BY <4>1 DEF Narrows
      <4> QED
        BY <1>5, <4>1, <4>2 DEF Due
    <3>3. CASE g # h
      <4>1. Owes(job[g]) /\ job[g].op.board = c /\ StoresStroke(job[g].op, s)
        BY <1>2, <3>1, <3>3
      <4> QED
        BY <4>1 DEF Due
    <3> QED
      BY <3>2, <3>3
  <2> QED
    BY <1>5, <1>6, <2>1, <2>2 DEF Due
<1>7. ASSUME NEW c \in Pens, NEW s \in Strokes, Due(job', Home', drawing', c, s)
      PROVE  /\ Due(job, Home, drawing, c, s)
             /\ \A e \in Pens \ {c} : s \in DOMAIN Home'.pen[e].now.strokes =>
                                         s \in DOMAIN Home.pen[e].now.strokes
             /\ Owes(job'[h]) /\ Brings(job'[h].op, s) =>
                    job'[h].op.board = c /\ StoresStroke(job'[h].op, s)
  <2>1. Due(job, Home, drawing, c, s)
    BY <1>6, <1>7
  <2>2. \A e \in Pens \ {c} : s \in DOMAIN Home'.pen[e].now.strokes =>
                                 s \in DOMAIN Home.pen[e].now.strokes
    BY <1>3, <1>5 DEF Narrows
  <2>3. ASSUME Brings(op, s) PROVE c = b /\ StoresStroke(op, s)
    <3>1. s \in DOMAIN pen[b].now.strokes /\ (StoresStroke(op, s) \/ s \notin DOMAIN state.now.strokes)
      BY <2>3 DEF Narrows
    <3>2. c = b
      BY <1>4, <1>5, <2>1, <3>1 DEF DueOnce
    <3>3. ASSUME s \notin DOMAIN state.now.strokes PROVE StoresStroke(op, s)
      <4>1. ~CanEnd(pen'[c], s)
        BY <1>3, <3>2, <3>3 DEF CanEnd
      <4>2. PICK g \in Hosts : Owes(job'[g]) /\ job'[g].op.board = c /\ StoresStroke(job'[g].op, s)
        BY <1>5, <1>7, <4>1 DEF Due
      <4>3. g = h
        BY <1>2, <1>4, <3>2, <4>2
      <4> QED
        BY <1>2, <4>2, <4>3
    <3> QED
      BY <3>1, <3>2, <3>3
  <2> QED
    BY <1>2, <2>1, <2>2, <2>3
<1> QED
  BY <1>2, <1>4, <1>7, DueKept

LEMMA DidCanEnd ==
    ASSUME NEW ids, NEW p \in PenState(ids), NEW d, NEW act, act.kind # "stroke", Follows(p.now, d, act)
    PROVE  \A s : CanEnd(Did(p, d, act), s) => CanEnd(p, s)
<1> DEFINE q == Did(p, d, act)
           n == Len(p.log)
<1>1. /\ q.now = d /\ DOMAIN q.log = 1..(n + 1) /\ q.log[n + 1] = act /\ n \in Nat
      /\ \A i \in 1..n : q.log[i] = p.log[i]
      /\ DOMAIN p.log = 1..n
  BY DidIs, LogIs
<1> HIDE DEF q, n
<1>2. ASSUME NEW s, CanEnd(q, s) PROVE CanEnd(p, s)
  <2>1. s \in DOMAIN p.now.strokes
    BY <1>1, <1>2 DEF CanEnd, Follows
  <2>2. PICK i \in 1..(n + 1) : q.log[i].kind = "stroke" /\ q.log[i].target = s
    BY <1>1, <1>2 DEF CanEnd, BeganBy
  <2>3. i \in DOMAIN p.log /\ p.log[i].kind = "stroke" /\ p.log[i].target = s
    BY <1>1, <2>2
  <2> QED
    BY <2>1, <2>3 DEF CanEnd, BeganBy
<1> QED
  BY <1>2 DEF q

LEMMA DidKnown ==
    ASSUME NEW p \in PenState(ActionIds), NEW dr, NEW used0, NEW n \in Nat, PenKnown(p, dr, used0, n),
           NEW d, NEW act, act.kind # "stroke", act.id = n + 1, Follows(p.now, d, act)
    PROVE  PenKnown(Did(p, d, act), dr, used0, n + 1)
<1> DEFINE q == Did(p, d, act)
           k == Len(p.log)
<1>1. /\ q.now = d /\ DOMAIN q.log = 1..(k + 1) /\ q.log[k + 1] = act /\ k \in Nat
      /\ \A i \in 1..k : q.log[i] = p.log[i]
      /\ DOMAIN p.log = 1..k
  BY DidIs, LogIs
<1>2. Standing(q, dr)
  BY StandingDid DEF PenKnown
<1>3. \A i \in 1..k : p.log[i].id \in Nat
  <2>1. \A i \in 1..k : p.log[i] \in Action(ActionIds)
    BY LogIs
  <2>2. \A a \in Action(ActionIds) : a.id \in ActionIds
    BY ActionShapes
  <2> QED
    BY <2>1, <2>2, BoardsAssumption DEF ActionIds
<1> HIDE DEF q, k
<1>4. \A i \in DOMAIN q.log : q.log[i].id <= n + 1
  <2>1. \A i \in 1..k : p.log[i].id <= n
    BY <1>1 DEF PenKnown
  <2> QED
    BY <1>1, <1>3, <2>1
<1>5. DOMAIN q.now.strokes \subseteq used0
  BY <1>1 DEF PenKnown, Follows
<1>6. PenKnown(q, dr, used0, n + 1)
  BY <1>2, <1>4, <1>5 DEF PenKnown
<1> QED
  BY <1>6 DEF q

\* A text is set or deleted, or the board is cleared.
LEMMA DoneHeld ==
    ASSUME WInv, SInv', NEW h \in Hosts, NEW b \in Pens, NEW d, NEW act, NEW m, NEW op,
           PenStep(h, b, Did(pen[b], d, act), m, op), b \in DOMAIN title,
           used' = used, drawing' = drawing,
           op.board = b, op # NoOp, op.kind \in {"act", "text"}, op.row.act = act,
           act.id = NextId, act.kind # "stroke", Follows(pen[b].now, d, act),
           DOMAIN op.row.before.strokes \subseteq DOMAIN pen[b].now.strokes,
           DOMAIN op.row.before.strokes = {} \/ DOMAIN d.strokes = {},
           \A t \in PenTable(ActionIds) : Linked(pen[b], t) /\ Sound(t) /\ Fresh(pen[b].log, NextId) =>
               Linked(Did(pen[b], d, act), PenAfter(t, op)) /\ Sound(PenAfter(t, op))
    PROVE  WInv'
<1> DEFINE state == Did(pen[b], d, act)
<1>0. SInv /\ TInv
  BY DEF WInv, SInv
<1>1. PenBegins(h, b, state, m, op)
  BY <1>0, PenNext
<1>2. begun \in Nat /\ begun' = begun + 1 /\ NextId = begun'
  BY <1>1 DEF PenBegins
<1>3. \A s : CanEnd(state, s) => CanEnd(pen[b], s)
  <2>1. pen[b] \in PenState(ActionIds)
    BY <1>0, PenIs
  <2>2. \A s : CanEnd(Did(pen[b], d, act), s) => CanEnd(pen[b], s)
    BY <2>1, DidCanEnd
  <2> QED
    BY <2>2
<1>4. state.now = d
  BY DEF Did
<1>5. \A s : ~StoresStroke(op, s)
  BY DEF StoresStroke
<1> HIDE DEF state
<1>6. Narrows(pen[b], state, op, drawing)
  <2>1. DOMAIN state.now.strokes \subseteq DOMAIN pen[b].now.strokes
    BY <1>4 DEF Follows
  <2>2. \A s : Brings(op, s) => s \in DOMAIN pen[b].now.strokes /\ s \notin DOMAIN state.now.strokes
    BY <1>4, <1>5 DEF Brings
  <2> QED
    BY <1>3, <1>5, <2>1, <2>2 DEF Narrows
<1>7. ASSUME NEW t, Ready(t), Apart' PROVE PenAgrees(t, b, state, op)
  <2>1. /\ t.pen[b] \in PenTable(ActionIds) /\ Linked(pen[b], t.pen[b]) /\ Sound(t.pen[b])
        /\ Fresh(pen[b].log, NextId) /\ PenKnown(pen[b], drawing, used, begun)
    BY <1>7, PenReady DEF state
  <2>2. DueOnce(t, job', Home', drawing')
    BY <1>6, <1>7, PenDue DEF state
  <2>3. PenKnown(state, drawing', used', begun')
    BY <1>0, <1>2, <2>1, PenIs, DidKnown DEF state
  <2>4. OpKnown(op, used', begun')
    BY <1>2, <1>5, <2>1 DEF OpKnown, PenKnown, Brings
  <2>5. Linked(state, PenAfter(t.pen[b], op)) /\ Sound(PenAfter(t.pen[b], op))
    BY <2>1 DEF state
  <2> QED
    BY <2>2, <2>3, <2>4, <2>5 DEF PenAgrees
<1>8. /\ used \subseteq used' /\ Ended \subseteq Ended'
      /\ \A c \in Pens \ {b}, s \in drawing' : CanEnd(pen[c], s) => s \in drawing
      /\ op # NoOp => op.board = b /\ op.kind \in {"act", "text", "undo"}
  BY DEF Ended
<1>9. PenStep(h, b, state, m, op)
  BY DEF state
<1> QED
  BY <1>7, <1>8, <1>9, PenHeld

-----------------------------------------------------------------------------
LEMMA TextSetHeld ==
    ASSUME WInv, SInv', NEW h \in Hosts, NEW b \in Pens, NEW t \in Texts, NEW v \in Contents,
           PenTextSet(h, b, t, v)
    PROVE  WInv'
<1> DEFINE p == pen[b]
           prior == [Blank EXCEPT !.texts = Restrict(p.now.texts, {t} \cap DOMAIN p.now.texts)]
           act == Set(NextId, t)
           d == WithText(p.now, t, v)
           m == [kind |-> "text", board |-> b, text |-> t, value |-> v]
           op == [kind |-> "text", board |-> b, value |-> v, row |-> [act |-> act, before |-> prior]]
<1>0. TInv /\ p \in PenState(ActionIds) /\ p.now \in Drawing
  BY PenIs DEF WInv, SInv
<1>1. /\ b \in DOMAIN title /\ used' = used /\ drawing' = drawing
      /\ PenStep(h, b, Did(p, d, act), m, op)
  BY DEF PenTextSet, Exists, idVars
<1>2. NextId \in ActionIds
  BY <1>0, <1>1, BeginIn
<1>3. /\ op.board = b /\ op # NoOp /\ op.kind = "text" /\ op.row.act = act /\ op.row.before = prior
      /\ op.value = v /\ act.id = NextId /\ act.kind = "set" /\ act.target = t
  BY DEF NoOp, Set
<1>4. DOMAIN prior.strokes = {}
  BY DEF Blank, NoMap
<1>5. Follows(p.now, d, act)
  <2>1. d.texts = Put(p.now.texts, t, v) /\ d.strokes = p.now.strokes
    BY <1>0, DrawingIs
  <2> HIDE DEF act, d, p
  <2> QED
    BY <1>3, <2>1 DEF Follows, Put, Takes
<1>6. ASSUME NEW u \in PenTable(ActionIds), Linked(p, u), Sound(u), Fresh(p.log, NextId)
      PROVE  Linked(Did(p, d, act), PenAfter(u, op)) /\ Sound(PenAfter(u, op))
  <2>1. PenAfter(u, op) = StoreText(u, [act |-> act, before |-> prior], v)
    BY DEF PenAfter
  <2>2. /\ Linked(Did(p, d, act), StoreText(u, [act |-> act, before |-> prior], v))
        /\ Sound(StoreText(u, [act |-> act, before |-> prior], v))
    BY <1>0, <1>2, <1>6, SetLinked
  <2> QED
    BY <2>1, <2>2
<1> HIDE DEF op, m, act, prior, d
<1> QED
  BY <1>1, <1>3, <1>4, <1>5, <1>6, DoneHeld

LEMMA TextDeleteHeld ==
    ASSUME WInv, SInv', NEW h \in Hosts, NEW b \in Pens, NEW t \in Texts, PenTextDelete(h, b, t)
    PROVE  WInv'
<1> DEFINE p == pen[b]
           removed == [Blank EXCEPT !.texts = Restrict(p.now.texts, {t})]
           act == Delete(NextId, t)
           d == LessText(p.now, t)
           m == [kind |-> "textGone", board |-> b, text |-> t]
           op == Act(b, act, removed)
<1>0. TInv /\ p \in PenState(ActionIds) /\ p.now \in Drawing
  BY PenIs DEF WInv, SInv
<1>1. /\ t \in DOMAIN p.now.texts /\ used' = used /\ drawing' = drawing
      /\ PenStep(h, b, Did(p, d, act), m, op)
  BY DEF PenTextDelete, idVars
<1>b. b \in DOMAIN title
  <2>1. p # NoPen
    BY <1>1 DEF NoPen, Blank, NoMap
  <2> QED
    BY <1>0, <2>1, PenThere
<1>2. NextId \in ActionIds
  BY <1>0, <1>1, BeginIn
<1>3. /\ op.board = b /\ op # NoOp /\ op.kind = "act" /\ op.row.act = act /\ op.row.before = removed
      /\ op.row = [act |-> act, before |-> removed]
      /\ act.id = NextId /\ act.kind = "delete" /\ act.target = t
  BY DEF NoOp, Delete, Act
<1>4. DOMAIN removed.strokes = {}
  BY DEF Blank, NoMap
<1>5. Follows(p.now, d, act)
  <2>1. d.texts = Without(p.now.texts, {t}) /\ d.strokes = p.now.strokes
    BY <1>0, DrawingIs
  <2> HIDE DEF act, d, p
  <2> QED
    BY <1>3, <2>1 DEF Follows, Without, Restrict, Takes
<1>6. ASSUME NEW u \in PenTable(ActionIds), Linked(p, u), Sound(u), Fresh(p.log, NextId)
      PROVE  Linked(Did(p, d, act), PenAfter(u, op)) /\ Sound(PenAfter(u, op))
  <2>1. PenAfter(u, op) = StoreAction(u, [act |-> act, before |-> removed])
    BY <1>3 DEF PenAfter
  <2>2. /\ Linked(Did(p, d, act), StoreAction(u, [act |-> act, before |-> removed]))
        /\ Sound(StoreAction(u, [act |-> act, before |-> removed]))
    BY <1>0, <1>1, <1>2, <1>6, DeleteLinked
  <2> QED
    BY <2>1, <2>2
<1> HIDE DEF op, m, act, removed, d
<1> QED
  BY <1>1, <1>3, <1>4, <1>5, <1>6, <1>b, DoneHeld

LEMMA ClearHeld ==
    ASSUME WInv, SInv', NEW h \in Hosts, NEW b \in Pens, PenClear(h, b)
    PROVE  WInv'
<1> DEFINE p == pen[b]
           act == Clear(NextId)
           m == [kind |-> "cleared", board |-> b]
           op == Act(b, act, p.now)
<1>0. TInv /\ p \in PenState(ActionIds) /\ p.now \in Drawing
  BY PenIs DEF WInv, SInv
<1>1. /\ b \in DOMAIN title /\ used' = used /\ drawing' = drawing
      /\ PenStep(h, b, Did(p, Blank, act), m, op)
  BY DEF PenClear, Exists, idVars
<1>2. NextId \in ActionIds
  BY <1>0, <1>1, BeginIn
<1>3. /\ op.board = b /\ op # NoOp /\ op.kind = "act" /\ op.row.act = act /\ op.row.before = p.now
      /\ op.row = [act |-> act, before |-> p.now]
      /\ act.id = NextId /\ act.kind = "clear"
  BY DEF NoOp, Clear, Act
<1>4. DOMAIN Blank.strokes = {} /\ DOMAIN Blank.texts = {}
  BY DEF Blank, NoMap
<1>5. Follows(p.now, Blank, act)
  BY <1>4 DEF Follows
<1>6. ASSUME NEW u \in PenTable(ActionIds), Linked(p, u), Sound(u), Fresh(p.log, NextId)
      PROVE  Linked(Did(p, Blank, act), PenAfter(u, op)) /\ Sound(PenAfter(u, op))
  <2>1. PenAfter(u, op) = StoreAction(u, [act |-> act, before |-> p.now])
    BY <1>3 DEF PenAfter
  <2>2. /\ Linked(Did(p, Blank, act), StoreAction(u, [act |-> act, before |-> p.now]))
        /\ Sound(StoreAction(u, [act |-> act, before |-> p.now]))
    BY <1>0, <1>2, <1>6, ClearLinked
  <2> QED
    BY <2>1, <2>2
<1> HIDE DEF op, m, act
<1> QED
  BY <1>1, <1>3, <1>4, <1>5, <1>6, DoneHeld

LEMMA UndoHeld ==
    ASSUME WInv, SInv', NEW h \in Hosts, NEW b \in Pens, PenUndo(h, b)
    PROVE  WInv'
<1> DEFINE p == pen[b]
           id == Last(p.log).id
           n == Len(p.log)
           state == Undo(p)
           m == [kind |-> "undone", board |-> b, act |-> Last(p.log)]
           op == [kind |-> "undo", board |-> b, id |-> id]
<1>0. SInv /\ TInv /\ p \in PenState(ActionIds)
  BY PenIs DEF WInv, SInv
<1>1. p.log # <<>> /\ used' = used /\ drawing' = drawing /\ PenStep(h, b, state, m, op)
  BY DEF PenUndo, idVars
<1>b. b \in DOMAIN title
  <2>1. p # NoPen
    BY <1>1 DEF NoPen
  <2> QED
    BY <1>0, <2>1, PenThere
<1>2. PenBegins(h, b, state, m, op)
  BY <1>0, <1>1, PenNext
<1>3. begun \in Nat /\ begun' = begun + 1
  BY <1>2 DEF PenBegins
<1>4. /\ n \in Nat \ {0} /\ state.now = LessUndone(p.now, p.log[n])
      /\ DOMAIN state.log = 1..(n - 1) /\ DOMAIN p.log = 1..n
      /\ \A k \in 1..(n - 1) : state.log[k] = p.log[k]
  BY <1>0, <1>1, UndoIs, LogIs
<1>5. op # NoOp /\ op.board = b /\ op.kind = "undo" /\ op.id = id
  BY DEF NoOp
<1>u. \A S : Standing(p, S) => Standing(state, S)
  BY <1>0, <1>1, StandingUndo
<1> HIDE DEF op, state, m, n
<1>6. DOMAIN state.now.strokes \subseteq DOMAIN p.now.strokes
  BY <1>4, LessUndoneIs
<1>7. Narrows(p, state, op, drawing)
  <2>1. \A s : CanEnd(state, s) => CanEnd(p, s)
    <3> HIDE DEF p
    <3> QED
      BY <1>4, <1>6 DEF CanEnd, BeganBy
  <2> QED
    BY <1>5, <1>6, <2>1 DEF Narrows, StoresStroke, Brings
<1>8. ASSUME NEW t, Ready(t), Apart' PROVE PenAgrees(t, b, state, op)
  <2>1. /\ t.pen[b] \in PenTable(ActionIds) /\ Linked(p, t.pen[b]) /\ Sound(t.pen[b])
        /\ PenKnown(p, drawing, used, begun)
    BY <1>1, <1>8, <1>b, PenReady
  <2>2. DueOnce(t, job', Home', drawing')
    BY <1>1, <1>5, <1>7, <1>8, <1>b, PenDue
  <2>3. PenKnown(state, drawing', used', begun')
    <3>1. \A i \in DOMAIN p.log : p.log[i].id \in Nat
      BY <1>0, PenIds
    <3> QED
      BY <1>1, <1>3, <1>4, <1>6, <1>u, <2>1, <3>1 DEF PenKnown
  <2>4. OpKnown(op, used', begun')
    BY <1>5 DEF OpKnown, Brings
  <2>5. Linked(state, PenAfter(t.pen[b], op)) /\ Sound(PenAfter(t.pen[b], op))
    <3>1. Linked(Undo(p), UndoRow(t.pen[b], id)) /\ Sound(UndoRow(t.pen[b], id))
      BY <1>0, <1>1, <2>1, UndoLinked
    <3> QED
      BY <1>5, <3>1 DEF PenAfter, state
  <2> QED
    BY <2>2, <2>3, <2>4, <2>5 DEF PenAgrees
<1>9. /\ used \subseteq used' /\ Ended \subseteq Ended'
      /\ \A c \in Pens \ {b}, s \in drawing' : CanEnd(pen[c], s) => s \in drawing
      /\ op # NoOp => op.board = b /\ op.kind \in {"act", "text", "undo"}
  BY <1>1, <1>5 DEF Ended
<1> QED
  BY <1>1, <1>8, <1>9, <1>b, PenHeld

-----------------------------------------------------------------------------
LEMMA PenEndHeld ==
    ASSUME WInv, SInv', NEW h \in Hosts, NEW b \in Pens, NEW s \in Strokes, PenEnd(h, b, s)
    PROVE  WInv'
<1> DEFINE p == pen[b]
           e == CHOOSE i \in BeganBy(p, s) : TRUE
           act == p.log[e]
           state == [p EXCEPT !.now = WithStroke(@, s, "whole")]
           m == [kind |-> "ended", board |-> b, stroke |-> s]
           op == Act(b, act, Blank)
<1>0. SInv /\ TInv /\ p \in PenState(ActionIds) /\ p.now \in Drawing
  BY PenIs DEF WInv, SInv
<1>1. /\ s \in drawing /\ CanEnd(p, s) /\ used' = used
      /\ drawing' = drawing \ {s} /\ PenStep(h, b, state, m, op)
  BY DEF PenEnd
<1>b. b \in DOMAIN title
  <2>1. p # NoPen
    BY <1>1 DEF CanEnd, NoPen, Blank, NoMap
  <2> QED
    BY <1>0, <2>1, PenThere
<1>2. e \in BeganBy(p, s)
  BY <1>1 DEF CanEnd
<1>3. e \in DOMAIN p.log /\ act.kind = "stroke" /\ act.target = s /\ s \in DOMAIN p.now.strokes
  BY <1>1, <1>2 DEF BeganBy, CanEnd
<1>4. /\ op # NoOp /\ op.board = b /\ op.kind = "act" /\ op.row.act = act /\ op.row.before = Blank
      /\ op.row = [act |-> act, before |-> Blank]
  BY DEF NoOp, Act
<1>5. PenBegins(h, b, state, m, op)
  BY <1>0, <1>1, PenNext
<1>6. begun \in Nat /\ begun' = begun + 1
  BY <1>5 DEF PenBegins
<1>7. state.log = p.log /\ DOMAIN state.now.strokes = DOMAIN p.now.strokes
  <2>1. p = [now |-> p.now, log |-> p.log]
    BY <1>0, PenIs
  <2>2. state = [now |-> WithStroke(p.now, s, "whole"), log |-> p.log]
    BY ONLY <2>1
  <2>3. WithStroke(p.now, s, "whole").strokes = Put(p.now.strokes, s, "whole")
    BY <1>0, DrawingIs
  <2> QED
    BY <1>3, <2>2, <2>3 DEF Put
<1> HIDE DEF e
<1>8. \A z : /\ StoresStroke(op, z) <=> z = s
             /\ Brings(op, z) <=> z = s
  BY <1>3, <1>4 DEF StoresStroke, Brings, Blank, NoMap
<1>9. Narrows(p, state, op, drawing)
  <2>1. \A z : CanEnd(state, z) => CanEnd(p, z)
    BY <1>7 DEF CanEnd, BeganBy
  <2> QED
    BY <1>1, <1>3, <1>7, <1>8, <2>1 DEF Narrows
<1> HIDE DEF op, m
<1>10. ASSUME NEW t, Ready(t), Apart' PROVE PenAgrees(t, b, state, op)
  <2> DEFINE u == t.pen[b]
             row == [act |-> act, before |-> Blank]
  <2>1. /\ u \in PenTable(ActionIds) /\ Linked(p, u) /\ Sound(u)
        /\ PenKnown(p, drawing, used, begun)
    BY <1>1, <1>10, <1>b, PenReady
  <2>2. DueOnce(t, job', Home', drawing')
    <3>1. drawing' \subseteq drawing
      BY <1>1
    <3> HIDE DEF state
    <3> QED
      BY <1>1, <1>4, <1>9, <1>10, <1>b, <3>1, PenDue
  <2>3. PenKnown(state, drawing', used', begun')
    <3>1. \A i \in DOMAIN p.log : p.log[i].id \in Nat
      BY <1>0, PenIds
    <3>2. Standing(state, drawing')
      <4>1. Standing(p, drawing) /\ drawing' \subseteq drawing
        BY <1>1, <2>1 DEF PenKnown
      <4> HIDE DEF state, p
      <4> QED
        BY <1>7, <4>1, StandingSame
    <3> QED
      BY <1>1, <1>6, <1>7, <2>1, <3>1, <3>2 DEF PenKnown
  <2>4. OpKnown(op, used', begun')
    <3>1. s \in used' /\ act.id <= begun /\ act.id \in Nat
      BY <1>0, <1>1, <1>3, <2>1, PenIds DEF PenKnown
    <3> QED
      BY <1>4, <1>6, <1>8, <3>1 DEF OpKnown
  <2>5. StrokeFrom(p.log, s, Len(p.log))
    BY <1>1, <2>1 DEF PenKnown, Standing
  <2>6. \A i \in DOMAIN u.rows : u.rows[i].act.kind = "stroke" => u.rows[i].act.target # s
    <3>1. u.rows \in Seq(RowsOf(Ended)) /\ s \notin Ended
      BY <1>1, <1>10 DEF Ready, Stock, Ended
    <3>2. \A i \in DOMAIN u.rows : u.rows[i] \in RowsOf(Ended)
      BY <3>1
    <3> QED
      BY <3>1, <3>2 DEF RowsOf, ActsOf
  <2>7. Linked(state, StoreAction(u, row)) /\ Sound(StoreAction(u, row))
    <3> HIDE DEF u, p
    <3>1. /\ Linked([p EXCEPT !.now = WithStroke(@, s, "whole")], StoreAction(u, [act |-> p.log[e], before |-> Blank]))
          /\ Sound(StoreAction(u, [act |-> p.log[e], before |-> Blank]))
      BY <1>0, <1>2, <2>1, <2>5, <2>6, EndLinked
    <3> QED
      BY <3>1
  <2>8. PenAfter(u, op) = StoreAction(u, row)
    BY <1>4 DEF PenAfter
  <2> QED
    BY <2>2, <2>3, <2>4, <2>7, <2>8 DEF PenAgrees
<1>11. /\ used \subseteq used' /\ Ended \subseteq Ended'
       /\ \A c \in Pens \ {b}, z \in drawing' : CanEnd(pen[c], z) => z \in drawing
       /\ op # NoOp => op.board = b /\ op.kind \in {"act", "text", "undo"}
  BY <1>1, <1>4 DEF Ended
<1> HIDE DEF state
<1> QED
  BY <1>1, <1>10, <1>11, <1>b, PenHeld

\* A stroke that begins is new to everything there is.
LEMMA BegunDue ==
    ASSUME WInv, SInv', NEW h \in Hosts, NEW b \in Pens, NEW s \in Strokes, NEW state, NEW m,
           PenStep(h, b, state, m, NoOp), b \in DOMAIN title, NEW t, Ready(t), Apart',
           s \notin used, drawing' = drawing \cup {s},
           DOMAIN state.now.strokes = DOMAIN pen[b].now.strokes \cup {s},
           \A z : CanEnd(state, z) => CanEnd(pen[b], z) \/ z = s
    PROVE  DueOnce(t, job', Home', drawing')
<1>0. SInv /\ TInv
  BY DEF WInv, SInv
<1>1. PenBegins(h, b, state, m, NoOp)
  BY <1>0, PenNext
<1> DEFINE next == Tell({b}, m, NoOp)
<1>2. /\ job'[h] = next /\ next.op = NoOp /\ \A g \in Hosts \ {h} : job'[g] = job[g]
  BY <1>1 DEF PenBegins
<1>3. \A c \in Pens : pen'[c] = IF c = b THEN state ELSE pen[c]
  BY <1>1 DEF PenBegins
<1> HIDE DEF next
<1>4. DueOnce(t, job, Home, drawing) /\ Known(t, used, begun) /\ PensFit(t, job, Home, drawing, used, begun)
  BY PenReady
<1>5. Home.pen = pen /\ Home'.pen = pen' /\ ~Owes(job'[h])
  BY <1>2 DEF Home, Owes
<1>6. ~Has(t, s) /\ \A c \in Pens : s \notin DOMAIN pen[c].now.strokes
  BY <1>4, <1>5 DEF Known, PensFit, PensKnown, PenKnown
<1>7. \A g \in Hosts : Owes(job'[g]) => ~Brings(job'[g].op, s) /\ ~StoresStroke(job'[g].op, s)
  <2>1. ASSUME NEW g \in Hosts, Owes(job'[g]) PROVE ~Brings(job'[g].op, s) /\ ~StoresStroke(job'[g].op, s)
    <3>1. g # h /\ job'[g] = job[g] /\ Owes(job[g])
      BY <1>2, <1>5, <2>1
    <3>2. OpKnown(job[g].op, used, begun)
      BY <1>4, <3>1 DEF PensFit
    <3>3. ~Brings(job[g].op, s)
      BY <3>2 DEF OpKnown
    <3> QED
      BY <3>1, <3>3 DEF Brings, StoresStroke
  <2> QED
    BY <2>1
<1>8. ASSUME NEW c \in Pens, NEW z \in Strokes, Due(job', Home', drawing', c, z)
      PROVE  /\ ~Has(t, z)
             /\ \A f \in Pens \ {c} : z \notin DOMAIN Home'.pen[f].now.strokes
             /\ \A g \in Hosts : Owes(job'[g]) /\ Brings(job'[g].op, z) =>
                     job'[g].op.board = c /\ StoresStroke(job'[g].op, z)
  <2>1. CASE z = s
    <3>1. CanEnd(pen'[c], s)
      BY <1>5, <1>7, <1>8, <2>1 DEF Due
    <3>2. c = b
      BY <1>0, <1>3, <3>1, NotBegun
    <3>3. \A f \in Pens \ {c} : s \notin DOMAIN Home'.pen[f].now.strokes
      BY <1>3, <1>5, <1>6, <3>2
    <3> QED
      BY <1>6, <1>7, <2>1, <3>3
  <2>2. CASE z # s
    <3>1. Due(job, Home, drawing, c, z)
      <4>1. CASE z \in drawing' /\ CanEnd(pen'[c], z)
        <5>1. z \in drawing /\ CanEnd(pen[c], z)
          BY <1>3, <2>2, <4>1
        <5> QED
          BY <1>5, <5>1 DEF Due
      <4>2. CASE \E g \in Hosts : Owes(job'[g]) /\ job'[g].op.board = c /\ StoresStroke(job'[g].op, z)
        <5>1. \E g \in Hosts : Owes(job[g]) /\ job[g].op.board = c /\ StoresStroke(job[g].op, z)
          BY <1>2, <1>5, <4>2
        <5> QED
          BY <5>1 DEF Due
      <4> QED
        BY <1>5, <1>8, <4>1, <4>2 DEF Due
    <3>2. /\ ~Has(t, z)
          /\ \A f \in Pens \ {c} : z \notin DOMAIN pen[f].now.strokes
          /\ \A g \in Hosts : Owes(job[g]) /\ Brings(job[g].op, z) =>
                  job[g].op.board = c /\ StoresStroke(job[g].op, z)
      BY <1>4, <1>5, <3>1 DEF DueOnce
    <3>3. \A f \in Pens \ {c} : z \notin DOMAIN pen'[f].now.strokes
      BY <1>3, <2>2, <3>2
    <3>4. \A g \in Hosts : Owes(job'[g]) /\ Brings(job'[g].op, z) =>
              job'[g].op.board = c /\ StoresStroke(job'[g].op, z)
      BY <1>2, <1>5, <3>2
    <3> QED
      BY <1>5, <3>2, <3>3, <3>4
  <2> QED
    BY <2>1, <2>2
<1> QED
  BY <1>8 DEF DueOnce

LEMMA PenBeginHeld ==
    ASSUME WInv, SInv', NEW h \in Hosts, NEW b \in Pens, NEW s \in Strokes, PenBegin(h, b, s)
    PROVE  WInv'
<1> DEFINE p == pen[b]
           act == Stroke(NextId, s)
           state == Did(p, WithStroke(p.now, s, "part"), act)
           m == [kind |-> "begun", board |-> b, stroke |-> s]
           n == Len(p.log)
<1>0. SInv /\ TInv /\ p \in PenState(ActionIds) /\ p.now \in Drawing
  BY PenIs DEF WInv, SInv
<1>1. /\ b \in DOMAIN title /\ s \notin used /\ used' = used \cup {s}
      /\ drawing' = drawing \cup {s} /\ PenStep(h, b, state, m, NoOp)
  BY DEF PenBegin, Exists
<1>2. PenBegins(h, b, state, m, NoOp)
  BY <1>0, <1>1, PenNext
<1>3. begun \in Nat /\ begun' = begun + 1 /\ NextId = begun'
  BY <1>2 DEF PenBegins
<1>4. /\ state.now = WithStroke(p.now, s, "part") /\ DOMAIN state.log = 1..(n + 1)
      /\ state.log[n + 1] = act /\ DOMAIN p.log = 1..n /\ n \in Nat
      /\ \A i \in 1..n : state.log[i] = p.log[i]
  BY <1>0, DidIs, LogIs
<1>5. act.id = NextId /\ act.kind = "stroke" /\ act.target = s
  BY DEF Stroke
<1>6. DOMAIN state.now.strokes = DOMAIN p.now.strokes \cup {s}
  <2>1. WithStroke(p.now, s, "part").strokes = Put(p.now.strokes, s, "part")
    BY <1>0, DrawingIs
  <2> QED
    BY <1>4, <2>1 DEF Put
<1>7. \A i \in DOMAIN p.log : p.log[i].kind = "stroke" => p.log[i].target # s
  <2>1. p.log \in Seq(ActsOf(used))
    BY <1>0, PenIs
  <2>2. \A i \in DOMAIN p.log : p.log[i] \in ActsOf(used)
    BY <2>1
  <2> QED
    BY <1>1, <2>2 DEF ActsOf
<1>s. \A S : Standing(p, S) => Standing(state, S \cup {s})
  BY <1>0, StandingBegun
<1>l. \A t \in PenTable(ActionIds) : Linked(p, t) /\ Fresh(p.log, NextId) => Linked(state, t)
  BY <1>0, <1>7, BeginLinked
<1> HIDE DEF state, act, n, m
<1>8. \A z : CanEnd(state, z) => CanEnd(p, z) \/ z = s
  <2> HIDE DEF p
  <2> QED
    BY <1>4, <1>5, <1>6 DEF CanEnd, BeganBy
<1>9. ASSUME NEW t, Ready(t), Apart' PROVE PenAgrees(t, b, state, NoOp)
  <2>1. /\ t.pen[b] \in PenTable(ActionIds) /\ Linked(p, t.pen[b]) /\ Sound(t.pen[b])
        /\ PenKnown(p, drawing, used, begun) /\ Fresh(p.log, NextId)
    BY <1>1, <1>9, PenReady
  <2>2. DueOnce(t, job', Home', drawing')
    BY <1>1, <1>6, <1>8, <1>9, BegunDue
  <2>3. PenKnown(state, drawing', used', begun')
    <3>1. \A i \in DOMAIN p.log : p.log[i].id \in Nat /\ p.log[i].id <= begun
      BY <1>0, <2>1, PenIds DEF PenKnown
    <3>2. \A i \in DOMAIN state.log : state.log[i].id <= begun'
      BY <1>3, <1>4, <1>5, <3>1
    <3>3. Standing(state, drawing')
      BY <1>1, <1>s, <2>1 DEF PenKnown
    <3> QED
      BY <1>1, <1>6, <2>1, <3>2, <3>3 DEF PenKnown
  <2>4. PenAfter(t.pen[b], NoOp) = t.pen[b]
    BY DEF PenAfter, NoOp
  <2> QED
    BY <1>l, <2>1, <2>2, <2>3, <2>4 DEF PenAgrees
<1>10. /\ used \subseteq used' /\ Ended \subseteq Ended'
       /\ \A c \in Pens \ {b}, z \in drawing' : CanEnd(pen[c], z) => z \in drawing
  <2>1. \A c \in Pens : ~CanEnd(pen[c], s)
    BY <1>0, <1>1, NotBegun
  <2> QED
    BY <1>1, <2>1 DEF Ended
<1> QED
  BY <1>1, <1>9, <1>10, PenHeld

-----------------------------------------------------------------------------
SameDebts(j, k) ==
    \A h \in Hosts : /\ Owes(k[h]) <=> Owes(j[h])
                     /\ Owes(k[h]) => k[h].op = j[h].op /\ k[h].on = j[h].on

\* Steps after which as much is owed, of the same room.
LEMMA QuietHeld ==
    ASSUME WInv, SInv', UNCHANGED <<title, focus, scene, pen, used, begun, crossed>>,
           UNCHANGED <<queue, applied, work, db, lost>>, drawing' \subseteq drawing, SameDebts(job, job')
    PROVE  WInv'
<1>0. TInv /\ begun \in Nat
  BY TInvFacts DEF WInv, SInv
<1>1. Home' = Home /\ Home.pen = pen
  BY DEF Home, Apart
<1>2. \A h \in Hosts : OwesIn(job'[h])
  <2>1. ASSUME NEW h \in Hosts PROVE OwesIn(job'[h])
    <3>1. OwesIn(job[h])
      BY DEF WInv
    <3> QED
      BY <3>1 DEF SameDebts, OwesIn
  <2> QED
    BY <2>1
<1>3. Ended \subseteq Ended'
  BY DEF Ended
<1>4. ASSUME NEW t, Ready(t) PROVE Ready(t)'
  <2>1. t \in Tables /\ Stock(t, used', Ended')
    BY <1>3, <1>4, InGrows DEF Ready
  <2>2. ASSUME NEW x \in Things \ crossed' PROVE SavedAt(Home', t, job', x)
    <3>1. SavedAt(Home, t, job, x)
      BY <1>4, <2>2 DEF Ready
    <3>2. \A h \in Hosts : Owing(job'[h], x) <=> Owing(job[h], x)
      BY DEF SameDebts, Owing
    <3>3. \A h \in Hosts : Owing(job'[h], x) => job'[h].op = job[h].op
      BY DEF SameDebts, Owing
    <3> QED
      BY <1>1, <3>1, <3>2, <3>3 DEF SavedAt
  <2>3. ASSUME Apart' PROVE Good(t, used', begun') /\ PensFit(t, job', Home', drawing', used', begun')
    <3>1. Good(t, used, begun) /\ PensFit(t, job, Home, drawing, used, begun)
      BY <1>4, <2>3 DEF Ready, Apart
    <3>2. \A b \in Pens, s \in Strokes : Due(job', Home, drawing', b, s) => Due(job, Home, drawing, b, s)
      BY DEF Due, SameDebts
    <3>3. DueOnce(t, job', Home, drawing')
      <4>1. ASSUME NEW b \in Pens, NEW s \in Strokes, Due(job', Home, drawing', b, s)
            PROVE  /\ ~Has(t, s)
                   /\ \A c \in Pens \ {b} : s \notin DOMAIN Home.pen[c].now.strokes
                   /\ \A h \in Hosts : Owes(job[h]) /\ Brings(job[h].op, s) =>
                           job[h].op.board = b /\ StoresStroke(job[h].op, s)
        BY <3>1, <3>2, <4>1 DEF PensFit, DueOnce
      <4>2. ASSUME NEW b \in Pens, NEW s \in Strokes, Due(job', Home, drawing', b, s)
            PROVE  \A h \in Hosts : Owes(job'[h]) /\ Brings(job'[h].op, s) =>
                           job'[h].op.board = b /\ StoresStroke(job'[h].op, s)
        <5>1. \A h \in Hosts : Owes(job'[h]) => Owes(job[h]) /\ job'[h].op = job[h].op
          BY DEF SameDebts
        <5> QED
          BY <4>1, <4>2, <5>1
      <4> QED
        BY <4>1, <4>2 DEF DueOnce
    <3>4. PensKnown(pen, drawing', used, begun)
      BY <1>1, <3>1 DEF PensFit, PensKnown, PenKnown, Standing
    <3>5. \A h \in Hosts : Owes(job'[h]) => OpFits(t, job'[h].op) /\ OpKnown(job'[h].op, used, begun)
      <4>1. \A h \in Hosts : Owes(job'[h]) => Owes(job[h]) /\ job'[h].op = job[h].op
        BY DEF SameDebts
      <4> QED
        BY <3>1, <4>1 DEF PensFit
    <3> QED
      BY <1>1, <3>1, <3>3, <3>4, <3>5 DEF PensFit
  <2> QED
    BY <2>1, <2>2, <2>3 DEF Ready
<1> QED
  BY <1>0, <1>2, <1>3, <1>4, StepHeld

LEMMA NothingHeld ==
    ASSUME WInv, SInv', NEW s \in Strokes, PenEndOfNothing(s)
    PROVE  WInv'
<1>1. UNCHANGED <<title, focus, scene, pen, used, begun, crossed, queue, applied, work, db, lost, job>>
  BY DEF PenEndOfNothing, roomVars, Unsaved, tableVars
<1>2. drawing' \subseteq drawing /\ SameDebts(job, job')
  BY <1>1 DEF PenEndOfNothing, SameDebts
<1> QED
  BY <1>1, <1>2, QuietHeld

LEMMA ResetHeld ==
    ASSUME WInv, SInv', ResetTask
    PROVE  WInv'
<1>1. UNCHANGED <<title, focus, scene, pen, used, drawing, begun, crossed, queue, applied, work, db, lost, job>>
  BY DEF ResetTask, ReadScenes, SendReset, roomVars, idVars, tableVars
<1>2. drawing' \subseteq drawing /\ SameDebts(job, job')
  BY <1>1 DEF SameDebts
<1> QED
  BY <1>1, <1>2, QuietHeld

LEMMA StutterHeld ==
    ASSUME WInv, SInv', UNCHANGED vars
    PROVE  WInv'
<1>1. UNCHANGED <<title, focus, scene, pen, used, drawing, begun, crossed, queue, applied, work, db, lost, job>>
  BY DEF vars, roomVars, idVars, tableVars
<1>2. drawing' \subseteq drawing /\ SameDebts(job, job')
  BY <1>1 DEF SameDebts
<1> QED
  BY <1>1, <1>2, QuietHeld

LEMMA BroadcastHeld ==
    ASSUME WInv, SInv', NEW h \in Hosts, Broadcast(h)
    PROVE  WInv'
<1>1. UNCHANGED <<title, focus, scene, pen, used, drawing, begun, crossed, queue, applied, work, db, lost>>
  BY DEF Broadcast, roomVars, idVars, tableVars
<1> DEFINE next == IF job[h].op = NoOp THEN Idle
                   ELSE [step |-> "save", on |-> job[h].on, op |-> job[h].op]
<1>2. /\ job[h].step = "tell" /\ job' = [job EXCEPT ![h] = next] /\ job \in [Hosts -> Job]
  BY TInvFacts DEF Broadcast, WInv, SInv
<1>3. Owes(job[h]) <=> job[h].op # NoOp
  BY <1>2 DEF Owes
<1>4. Owes(next) <=> job[h].op # NoOp
  BY DEF Owes, Idle
<1>5. job[h].op # NoOp => next.op = job[h].op /\ next.on = job[h].on
  OBVIOUS
<1> HIDE DEF next
<1>6. SameDebts(job, job')
  <2>1. job'[h] = next /\ \A g \in Hosts \ {h} : job'[g] = job[g]
    BY <1>2
  <2>2. ASSUME NEW g \in Hosts
        PROVE  /\ Owes(job'[g]) <=> Owes(job[g])
               /\ Owes(job'[g]) => job'[g].op = job[g].op /\ job'[g].on = job[g].on
    <3>1. CASE g = h
      BY <1>3, <1>4, <1>5, <2>1, <3>1
    <3>2. CASE g # h
      BY <2>1, <3>2
    <3> QED
      BY <3>1, <3>2
  <2> QED
    BY <2>2 DEF SameDebts
<1>7. drawing' \subseteq drawing
  BY <1>1
<1> QED
  BY <1>1, <1>6, <1>7, QuietHeld

LEMMA SetFocusHeld ==
    ASSUME WInv, SInv', NEW h \in Hosts, SetFocus(h)
    PROVE  WInv'
<1> DEFINE b  == job[h].board
           op == [kind |-> "focus", board |-> b]
           next == Tell(job[h].on, [kind |-> "focused", board |-> b], op)
<1>0. SInv /\ TInv /\ job \in [Hosts -> Job] /\ begun \in Nat
  BY TInvFacts DEF WInv, SInv
<1>1. /\ job[h].step = "checked" /\ focus' = b /\ job' = [job EXCEPT ![h] = next]
      /\ UNCHANGED <<title, scene, pen, used, drawing, begun, crossed>>
      /\ UNCHANGED <<queue, applied, work, db, lost>>
  BY DEF SetFocus, idVars, Unsaved, tableVars
<1>2. job[h] # Idle /\ job[h].on = {b, "focus"} /\ b \in Ids /\ b # "focus" /\ ~Owes(job[h])
  BY <1>0, <1>1, JobShapes, BoardsAssumption DEF SInv, Addressed, Idle, Owes
<1>3. /\ op.board = b /\ op.kind = "focus" /\ op # NoOp
      /\ next.step = "tell" /\ next.on = {b, "focus"} /\ next.op = op
  BY <1>2 DEF NoOp, Tell
<1>4. op \in Op \ {NoOp}
  BY <1>2, <1>3 DEF Op, ListOp
<1>5. job'[h] = next /\ \A g \in Hosts \ {h} : job'[g] = job[g]
  BY <1>0, <1>1
<1> HIDE DEF b, op, next
<1>6. ASSUME NEW x \in {b, "focus"} \ crossed PROVE \A g \in Hosts \ {h} : ~Owing(job[g], x)
  <2>1. x \in Things
    BY <1>2 DEF Things
  <2>2. FineAt(Room, view, job, x)
    BY <1>0, <1>6, <2>1 DEF SInv
  <2>3. \A g \in Hosts : On2(job[g], x) => g = h
    BY <1>2, <1>6, <2>2 DEF FineAt, On2
  <2>4. \A g \in Hosts : Owing(job[g], x) => On2(job[g], x)
    BY DEF Owing, Owes, On2, Idle
  <2> QED
    BY <2>3, <2>4
<1>7. \A x \in Things \ {"focus"} : HomeAt(Home, Home', x)
  BY <1>1 DEF HomeAt, Home, Apart
<1>8. Owes(next)
  BY <1>3 DEF Owes
<1>9. \A s : ~StoresStroke(op, s) /\ ~Brings(op, s)
  BY <1>3 DEF StoresStroke, Brings
<1>10. ASSUME NEW t, Ready(t) PROVE Ready(t)'
  <2>0. t \in Tables /\ Stock(t, used', Ended')
    BY <1>1, <1>10 DEF Ready, Ended
  <2>1. Changes(t, Apply(t, op), op)
    BY <1>4, <2>0, ApplyIs
  <2>2. /\ Apply(t, op).focus = b /\ Apply(t, op).title = t.title
        /\ \A c \in Scenes : Apply(t, op).scene[c] = t.scene[c]
        /\ \A c \in Pens : Apply(t, op).pen[c] = t.pen[c]
    BY <1>3, <2>1 DEF Changes
  <2>3. ASSUME NEW x \in Things \ crossed' PROVE SavedAt(Home', t, job', x)
    <3>1. x \notin crossed /\ SavedAt(Home, t, job, x)
      BY <1>1, <1>10, <2>3 DEF Ready
    <3>2. CASE x \in {b, "focus"}
      <4>1. \A g \in Hosts : ~Owing(job[g], x)
        BY <1>2, <1>6, <3>1, <3>2 DEF Owing
      <4>2. Match(Home, t, x)
        BY <3>1, <4>1 DEF SavedAt
      <4>3. Match(Home', Apply(t, op), x)
        <5>1. CASE x = "focus"
          <6>1. x \notin Ids /\ x \notin Scenes /\ x \notin Pens
            BY <5>1, BoardsAssumption DEF Ids
          <6> QED
            BY <1>1, <2>2, <5>1, <6>1 DEF Match, Home
        <5>2. CASE x # "focus"
          <6>1. TableAt(t, Apply(t, op), x)
            BY <2>2, <5>2 DEF TableAt
          <6>2. Match(Home, Apply(t, op), x)
            BY <4>2, <6>1, MatchAt
          <6> QED
            BY <1>7, <5>2, <6>2, MatchHome
        <5> QED
          BY <5>1, <5>2
      <4>4. \A g \in Hosts : Owing(job'[g], x) <=> g = h
        BY <1>3, <1>5, <1>8, <3>2, <4>1 DEF Owing
      <4> QED
        BY <1>3, <1>5, <4>3, <4>4 DEF SavedAt
    <3>3. CASE x \notin {b, "focus"}
      <4>1. \A u : Match(Home, u, x) => Match(Home', u, x)
        BY <1>7, <3>3, MatchHome
      <4>2. ~Owing(job'[h], x) /\ ~Owing(job[h], x)
        BY <1>2, <1>3, <1>5, <3>3 DEF Owing
      <4>3. \A g \in Hosts : /\ Owing(job'[g], x) <=> Owing(job[g], x)
                             /\ Owing(job'[g], x) => job'[g].op = job[g].op
        BY <1>5, <4>2
      <4> QED
        BY <3>1, <4>1, <4>3 DEF SavedAt
    <3> QED
      BY <3>2, <3>3
  <2>4. ASSUME Apart' PROVE Good(t, used', begun') /\ PensFit(t, job', Home', drawing', used', begun')
    <3>1. Good(t, used, begun) /\ PensFit(t, job, Home, drawing, used, begun)
      BY <1>1, <1>10, <2>4 DEF Ready, Apart
    <3>2. Home.pen = pen /\ Home'.pen = pen
      BY <1>1 DEF Home
    <3>3. ASSUME NEW c \in Pens, NEW s \in Strokes, Due(job', Home', drawing', c, s)
          PROVE  /\ Due(job, Home, drawing, c, s)
                 /\ \A e \in Pens \ {c} : s \in DOMAIN Home'.pen[e].now.strokes =>
                                             s \in DOMAIN Home.pen[e].now.strokes
                 /\ Owes(job'[h]) /\ Brings(job'[h].op, s) =>
                        job'[h].op.board = c /\ StoresStroke(job'[h].op, s)
      <4>1. Due(job, Home, drawing, c, s)
        BY <1>1, <1>3, <1>5, <1>9, <3>2, <3>3 DEF Due
      <4> QED
        BY <1>3, <1>5, <1>9, <3>2, <4>1
    <3>4. DueOnce(t, job', Home', drawing')
      BY <1>5, <3>1, <3>3, DueKept DEF PensFit
    <3>5. OpFits(t, op) /\ OpKnown(op, used, begun)
      BY <1>3, <1>9 DEF OpFits, OpKnown, NeedsBoard
    <3>6. \A g \in Hosts : Owes(job'[g]) => OpFits(t, job'[g].op) /\ OpKnown(job'[g].op, used, begun)
      BY <1>3, <1>5, <3>1, <3>5 DEF PensFit
    <3> QED
      BY <1>1, <3>1, <3>2, <3>4, <3>6 DEF PensFit
  <2> QED
    BY <2>0, <2>3, <2>4 DEF Ready
<1>11. \A g \in Hosts : OwesIn(job'[g])
  <2>1. OwesIn(next)
    BY <1>3 DEF OwesIn
  <2> QED
    BY <1>5, <2>1 DEF WInv
<1> QED
  BY <1>0, <1>1, <1>10, <1>11, StepHeld DEF Ended

-----------------------------------------------------------------------------
LEMMA OneOwes ==
    ASSUME SInv, NEW x \in Things \ crossed, NEW g \in Hosts, NEW h \in Hosts,
           Owing(job[g], x), Owing(job[h], x)
    PROVE  g = h
<1>1. FineAt(Room, view, job, x)
  BY DEF SInv
<1>2. On2(job[g], x) /\ On2(job[h], x)
  BY DEF Owing, Owes, On2, Idle
<1> QED
  BY <1>1, <1>2 DEF FineAt

\* What h owes goes to the end of the queue.
LEMMA OwedShape ==
    ASSUME WInv, NEW h \in Hosts, Enqueue(h)
    PROVE  /\ job[h].op \in OpsOf(used, Ended) /\ job[h].op \in Op \ {NoOp} /\ Owes(job[h])
           /\ job[h].op.board \in job[h].on /\ (job[h].op.kind = "focus" => "focus" \in job[h].on)
           /\ job[h].op.board \in Ids
           /\ ~Owes(job'[h]) /\ \A g \in Hosts \ {h} : job'[g] = job[g]
           /\ queue' = Append(queue, job[h].op)
           /\ UNCHANGED <<title, focus, scene, pen, used, drawing, begun, crossed, applied, work, db, lost>>
<1>0. SInv /\ TInv
  BY DEF WInv, SInv
<1>1. /\ job[h].step = "save" /\ job' = [job EXCEPT ![h] = Idle]
      /\ queue' = Append(queue, job[h].op) /\ job \in [Hosts -> Job]
      /\ UNCHANGED <<title, focus, scene, pen, used, drawing, begun, crossed, applied, work, db, lost>>
  BY <1>0, TInvFacts DEF Enqueue, roomVars, idVars
<1>2. JobIn(job[h], used, Ended)
  BY <1>0, TInvFacts
<1>3. job[h].op \in OpsOf(used, Ended)
  BY <1>1, <1>2 DEF JobIn
<1>4. job[h].op \in Op \ {NoOp} /\ Owes(job[h])
  BY <1>1, <1>3, OpsShape DEF Owes
<1>5. OwesIn(job[h])
  BY DEF WInv
<1>6. ~Owes(job'[h]) /\ \A g \in Hosts \ {h} : job'[g] = job[g]
  BY <1>1 DEF Owes, Idle
<1>7. job[h].op.board \in Ids
  BY <1>4, OpShapes
<1> QED
  BY <1>1, <1>3, <1>4, <1>5, <1>6, <1>7 DEF OwesIn

\* It fits the tables that it meets then.
LEMMA EnqueueAccepts ==
    ASSUME WInv, NEW h \in Hosts, Enqueue(h), NEW t, Ready(t), Apart
    PROVE  Accepts(t, job[h].op)
<1> DEFINE op == job[h].op
<1>1. op \in OpsOf(used, Ended) /\ op \in Op \ {NoOp} /\ Owes(job[h])
  BY OwedShape
<1>2. PensFit(t, job, Home, drawing, used, begun)
  BY DEF Ready
<1>3. NeedsBoard(op) => op.board \in DOMAIN t.title
  BY <1>1, <1>2 DEF PensFit, OpFits
<1> HIDE DEF op
<1>4. ~InsertsTwice(t, op)
  <2>1. SUFFICES ASSUME op.kind = "act", op.row.act.kind = "stroke" PROVE ~InsertsTwice(t, op)
    BY DEF InsertsTwice
  <2> DEFINE s == op.row.act.target
  <2>2. StoresStroke(op, s)
    BY <2>1 DEF StoresStroke
  <2>3. op.board \in Pens /\ s \in Strokes
    BY <1>1, <2>1, OpShapes, RowShape, ActionShapes
  <2> HIDE DEF s
  <2>4. Due(job, Home, drawing, op.board, s)
    BY <1>1, <2>2 DEF Due, op
  <2>5. ~Has(t, s)
    BY <1>2, <2>3, <2>4 DEF PensFit, DueOnce
  <2>6. \A b \in Pens : s \notin DOMAIN t.pen[b].now.strokes
    BY <2>5 DEF Has, HasIn
  <2> QED
    BY <2>6 DEF InsertsTwice, s
<1> QED
  BY <1>3, <1>4 DEF Accepts, op

LEMMA EnqueueGood ==
    ASSUME WInv, NEW h \in Hosts, Enqueue(h), NEW t, Ready(t), Apart, NEW u, u = Apply(t, job[h].op)
    PROVE  Good(u, used, begun)
<1> DEFINE op == job[h].op
           b == op.board
<1>1. /\ op \in OpsOf(used, Ended) /\ op \in Op \ {NoOp} /\ Owes(job[h]) /\ b \in job[h].on
      /\ b \in Ids
  BY OwedShape
<1>2. /\ t \in Tables /\ Good(t, used, begun) /\ PensFit(t, job, Home, drawing, used, begun)
  BY DEF Ready
<1>3. OpKnown(op, used, begun)
  BY <1>1, <1>2 DEF PensFit
<1>4. Owing(job[h], b) /\ b \in Things \ crossed
  BY <1>1 DEF Owing, Apart, Things
<1>5. Match(Home, u, b)
  BY <1>4 DEF Ready, SavedAt
<1> HIDE DEF op, b
<1>6. u = Apply(t, op)
  BY DEF op
<1>7. Known(u, used, begun)
  BY <1>1, <1>2, <1>3, <1>6, ApplyKnown DEF Good
<1>8. ASSUME NEW c \in Pens PROVE Sound(u.pen[c])
  <2>1. CASE c = b
    BY <1>5, <2>1 DEF Match, Home
  <2>2. CASE c # b
    <3>1. Changes(t, u, op)
      BY <1>1, <1>2, <1>6, ApplyIs
    <3>2. u.pen[c] = t.pen[c]
      BY <2>2, <3>1 DEF Changes, b
    <3> QED
      BY <1>2, <3>2 DEF Good, AllSound
  <2> QED
    BY <2>1, <2>2
<1> QED
  BY <1>7, <1>8 DEF Good, AllSound

LEMMA EnqueueFits ==
    ASSUME WInv, NEW h \in Hosts, Enqueue(h), NEW t, Ready(t), Apart, NEW u, u = Apply(t, job[h].op)
    PROVE  PensFit(u, job', Home, drawing, used, begun)
<1> DEFINE op == job[h].op
           b == op.board
<1>1. /\ op \in OpsOf(used, Ended) /\ op \in Op \ {NoOp} /\ Owes(job[h]) /\ b \in job[h].on
      /\ b \in Ids /\ ~Owes(job'[h]) /\ \A g \in Hosts \ {h} : job'[g] = job[g]
  BY OwedShape
<1>2. t \in Tables /\ Stock(t, used, Ended) /\ PensFit(t, job, Home, drawing, used, begun) /\ SInv
  BY DEF Ready, WInv
<1>3. DueOnce(t, job, Home, drawing)
  BY <1>2 DEF PensFit
<1>o. op = job[h].op /\ u = Apply(t, op) /\ b = op.board
  OBVIOUS
<1> HIDE DEF op, b
<1>4. \A g \in Hosts : Owes(job'[g]) => g # h /\ Owes(job[g]) /\ job'[g].op = job[g].op
  BY <1>1
\* No other host owes anything of that board.
<1>5. ASSUME NEW g \in Hosts, Owes(job'[g]) PROVE job'[g].op.board # b
  <2>1. g # h /\ Owes(job[g]) /\ job'[g].op = job[g].op
    BY <1>4, <1>5
  <2>2. job[g].op.board \in job[g].on
    BY <2>1 DEF WInv, OwesIn
  <2>3. b \in Things \ crossed /\ Owing(job[h], b)
    BY <1>1 DEF Things, Apart, Owing
  <2>4. job[g].op.board = b => Owing(job[g], b)
    BY <2>1, <2>2 DEF Owing
  <2> QED
    BY <1>2, <2>1, <2>3, <2>4, OneOwes
<1>6. ASSUME NEW c \in Pens, NEW s \in Strokes, Due(job', Home, drawing, c, s)
      PROVE  /\ ~Has(u, s)
             /\ \A e \in Pens \ {c} : s \notin DOMAIN Home.pen[e].now.strokes
             /\ \A g \in Hosts : Owes(job'[g]) /\ Brings(job'[g].op, s) =>
                     job'[g].op.board = c /\ StoresStroke(job'[g].op, s)
  <2>1. Due(job, Home, drawing, c, s)
    BY <1>4, <1>6 DEF Due
  <2>2. /\ ~Has(t, s)
        /\ \A e \in Pens \ {c} : s \notin DOMAIN Home.pen[e].now.strokes
        /\ \A g \in Hosts : Owes(job[g]) /\ Brings(job[g].op, s) =>
                job[g].op.board = c /\ StoresStroke(job[g].op, s)
    BY <1>3, <2>1 DEF DueOnce
  <2>3. ASSUME Has(u, s) PROVE FALSE
    <3>1. Brings(op, s)
      BY <1>1, <1>2, <1>o, <2>2, <2>3, ApplyHas
    <3>2. c = b /\ StoresStroke(op, s)
      BY <1>1, <1>o, <2>2, <3>1
    <3>3. s \notin drawing
      BY <1>1, <3>2, OpsShape DEF StoresStroke, RowsOf, ActsOf, Ended
    <3>4. PICK g \in Hosts : Owes(job'[g]) /\ job'[g].op.board = c
      BY <1>6, <3>3 DEF Due
    <3> QED
      BY <1>5, <3>2, <3>4
  <2>4. \A g \in Hosts : Owes(job'[g]) /\ Brings(job'[g].op, s) =>
            job'[g].op.board = c /\ StoresStroke(job'[g].op, s)
    BY <1>4, <2>2
  <2> QED
    BY <2>2, <2>3, <2>4
<1>7. ASSUME NEW g \in Hosts, Owes(job'[g])
      PROVE  OpFits(u, job'[g].op) /\ OpKnown(job'[g].op, used, begun)
  <2>1. OpFits(t, job'[g].op) /\ OpKnown(job'[g].op, used, begun)
    BY <1>2, <1>4, <1>7 DEF PensFit
  <2>2. DOMAIN t.title \ {b} \subseteq DOMAIN u.title
    BY <1>1, <1>2, <1>o, ApplyStocked
  <2>3. job'[g].op.board # b
    BY <1>5, <1>7
  <2> QED
    BY <2>1, <2>2, <2>3 DEF OpFits
<1>8. PensKnown(Home.pen, drawing, used, begun)
  BY <1>2 DEF PensFit
<1>9. DueOnce(u, job', Home, drawing)
  BY <1>6 DEF DueOnce
<1> QED
  BY <1>7, <1>8, <1>9 DEF PensFit

LEMMA EnqueueSaved ==
    ASSUME WInv, NEW h \in Hosts, Enqueue(h), NEW t, Ready(t), NEW u, u = Apply(t, job[h].op),
           NEW x \in Things \ crossed
    PROVE  SavedAt(Home, u, job', x)
<1> DEFINE op == job[h].op
<1>1. /\ op \in Op \ {NoOp} /\ Owes(job[h]) /\ op.board \in job[h].on
      /\ (op.kind = "focus" => "focus" \in job[h].on) /\ op \in OpsOf(used, Ended)
      /\ ~Owes(job'[h]) /\ \A g \in Hosts \ {h} : job'[g] = job[g]
  BY OwedShape
<1>2. t \in Tables /\ Stock(t, used, Ended) /\ SavedAt(Home, t, job, x) /\ SInv /\ TInv
  BY DEF Ready, WInv, SInv
<1>o. u = Apply(t, op)
  OBVIOUS
<1>3. u \in Tables
  BY <1>1, <1>2, <1>o, ApplyStocked
<1>4. \A g \in Hosts : Owing(job'[g], x) => g # h /\ Owing(job[g], x) /\ job'[g].op = job[g].op
  BY <1>1 DEF Owing
<1>5. CASE Owing(job[h], x)
  <2>1. \A g \in Hosts : ~Owing(job'[g], x)
    BY <1>2, <1>4, <1>5, OneOwes
  <2>2. Match(Home, u, x)
    BY <1>2, <1>5 DEF SavedAt
  <2> QED
    BY <2>1, <2>2 DEF SavedAt
<1>6. CASE ~Owing(job[h], x)
  <2>1. x # op.board /\ (op.kind = "focus" => x # "focus")
    BY <1>1, <1>6 DEF Owing
  <2> HIDE DEF op
  <2>2. TableAt(t, u, x)
    BY <1>1, <1>2, <1>o, <2>1, ApplyElsewhere
  <2>3. ASSUME \A g \in Hosts : ~Owing(job'[g], x) PROVE Match(Home, u, x)
    <3>1. \A g \in Hosts : ~Owing(job[g], x)
      <4>1. \A g \in Hosts \ {h} : ~Owing(job[g], x)
        BY <1>1, <2>3 DEF Owing
      <4> QED
        BY <1>6, <4>1
    <3>2. Match(Home, t, x)
      BY <1>2, <3>1 DEF SavedAt
    <3> QED
      BY <2>2, <3>2, MatchAt
  <2>4. ASSUME NEW g \in Hosts, Owing(job'[g], x) PROVE Match(Home, Apply(u, job'[g].op), x)
    <3>1. g # h /\ Owing(job[g], x) /\ job'[g].op = job[g].op
      BY <1>4, <2>4
    <3>2. Match(Home, Apply(t, job[g].op), x)
      BY <1>2, <3>1 DEF SavedAt
    <3>3. job[g].op \in Op \ {NoOp}
      BY <1>2, <3>1, OwesOp DEF Owing
    <3>4. TableAt(Apply(t, job[g].op), Apply(u, job[g].op), x)
      BY <1>2, <1>3, <2>2, <3>3, ApplyTogether
    <3>5. Match(Home, Apply(u, job[g].op), x)
      BY <3>2, <3>4, MatchAt
    <3> QED
      BY <3>1, <3>5
  <2> QED
    BY <2>3, <2>4 DEF SavedAt
<1> QED
  BY <1>5, <1>6

LEMMA EnqueueReady ==
    ASSUME WInv, NEW h \in Hosts, Enqueue(h), NEW t, Ready(t), NEW u, u = Apply(t, job[h].op)
    PROVE  Ready(u)'
<1>1. /\ job[h].op \in OpsOf(used, Ended)
      /\ UNCHANGED <<title, focus, scene, pen, used, drawing, begun, crossed>>
  BY OwedShape
<1>2. Home' = Home /\ (Apart' <=> Apart) /\ Ended' = Ended
  BY <1>1 DEF Home, Apart, Ended
<1>3. u \in Tables /\ Stock(u, used, Ended)
  BY <1>1, ApplyStocked DEF Ready
<1>4. \A x \in Things \ crossed : SavedAt(Home, u, job', x)
  BY EnqueueSaved
<1>5. Apart => Good(u, used, begun) /\ PensFit(u, job', Home, drawing, used, begun)
  BY EnqueueGood, EnqueueFits
<1> QED
  BY <1>1, <1>2, <1>3, <1>4, <1>5 DEF Ready

-----------------------------------------------------------------------------
LEMMA QueueIs ==
    ASSUME TInv
    PROVE  /\ queue \in Seq(OpsOf(used, Ended)) /\ Len(queue) \in Nat
           /\ \A op : /\ Len(Append(queue, op)) = Len(queue) + 1
                      /\ Append(queue, op)[Len(queue) + 1] = op
                      /\ \A n \in 1..Len(queue) : Append(queue, op)[n] = queue[n]
           /\ queue # <<>> => /\ Len(queue) > 0 /\ Head(queue) = queue[1] /\ Len(Tail(queue)) = Len(queue) - 1
                              /\ \A n \in 1..(Len(queue) - 1) : Tail(queue)[n] = queue[n + 1]
<1>1. queue \in Seq(OpsOf(used, Ended)) /\ Len(queue) \in Nat
  BY TInvFacts
<1> QED
  BY <1>1

LEMMA EnqueueChain ==
    ASSUME WInv, NEW h \in Hosts, Enqueue(h), NEW ts, Held(ts), NEW k, k = Len(queue), NEW u,
           u = Apply(ts[k], job[h].op), NEW us,
           us = [n \in 0..(k + 1) |-> IF n <= k THEN ts[n] ELSE u]
    PROVE  Held(us)'
<1>0. TInv
  BY DEF WInv, SInv
<1>1. /\ job[h].op \in OpsOf(used, Ended) /\ queue' = Append(queue, job[h].op)
      /\ UNCHANGED <<title, focus, scene, pen, used, drawing, begun, crossed, applied, work, db, lost>>
  BY OwedShape
<1>2. /\ k \in Nat /\ Len(queue') = k + 1 /\ queue'[k + 1] = job[h].op
      /\ \A n \in 1..k : queue'[n] = queue[n]
  BY <1>0, <1>1, QueueIs
<1>3. /\ us[k + 1] = u /\ \A n \in 0..k : us[n] = ts[n]
  BY <1>2
<1>4. /\ Chain(work, queue, ts)
      /\ \A n \in 0..k : ts[n] \in Tables /\ Stock(ts[n], used, Ended)
      /\ Apart => \A n \in 0..k : Good(ts[n], used, begun)
      /\ Apart => \A n \in 1..k : Accepts(ts[n - 1], queue[n])
      /\ Ready(ts[k])
  BY DEF Held
<1>5. Ready(u)'
  BY <1>4, EnqueueReady
<1>6. /\ u \in Tables /\ Stock(u, used', Ended')
      /\ Apart' => Good(u, used', begun')
  BY <1>5 DEF Ready
<1>7. Apart => Accepts(ts[k], job[h].op)
  BY <1>4, EnqueueAccepts
<1>8. \A n \in 0..(k + 1) : n \in 0..k \/ n = k + 1
  BY <1>2
<1>9. \A n \in 1..(k + 1) : (n \in 1..k /\ n - 1 \in 0..k) \/ n = k + 1
  BY <1>2
<1>10. (Apart' <=> Apart) /\ Ended' = Ended
  BY <1>1 DEF Apart, Ended
<1>11. Chain(work', queue', us)
  <2>1. us[0] = work'
    BY <1>1, <1>2, <1>3, <1>4 DEF Chain
  <2>2. ASSUME NEW n \in 1..(k + 1) PROVE us[n] = Apply(us[n - 1], queue'[n])
    <3>1. CASE n \in 1..k /\ n - 1 \in 0..k
      BY <1>2, <1>3, <1>4, <3>1 DEF Chain
    <3>2. CASE n = k + 1
      <4>1. n - 1 = k /\ us[k] = ts[k]
        BY <1>2, <1>3, <3>2
      <4> QED
        BY <1>2, <1>3, <3>2, <4>1
    <3> QED
      BY <1>9, <3>1, <3>2
  <2> QED
    BY <1>2, <2>1, <2>2 DEF Chain
<1>12. ASSUME NEW n \in 0..(k + 1)
       PROVE  /\ us[n] \in Tables /\ Stock(us[n], used', Ended')
              /\ Apart' => Good(us[n], used', begun')
  BY <1>1, <1>3, <1>4, <1>6, <1>8, <1>10
<1>13. ASSUME Apart', NEW n \in 1..(k + 1) PROVE Accepts(us[n - 1], queue'[n])
  <2>1. CASE n \in 1..k /\ n - 1 \in 0..k
    BY <1>2, <1>3, <1>4, <1>10, <1>13, <2>1
  <2>2. CASE n = k + 1
    <3>1. n - 1 = k /\ us[k] = ts[k]
      BY <1>2, <1>3, <2>2
    <3> QED
      BY <1>2, <1>7, <1>10, <1>13, <2>2, <3>1
  <2> QED
    BY <1>9, <2>1, <2>2
<1>14. /\ \A x \in Things \ crossed' : SavedAt(Home', u, job', x)
       /\ Apart' => PensFit(u, job', Home', drawing', used', begun')
  BY <1>5 DEF Ready
<1>15. us[Len(queue')] = u
  BY <1>2, <1>3
<1> QED
  BY <1>2, <1>6, <1>11, <1>12, <1>13, <1>14, <1>15 DEF Held, Ready

LEMMA EnqueueHeld ==
    ASSUME WInv, SInv', NEW h \in Hosts, Enqueue(h)
    PROVE  WInv'
<1>1. /\ ~Owes(job'[h]) /\ \A g \in Hosts \ {h} : job'[g] = job[g]
      /\ UNCHANGED <<title, focus, scene, pen, used, drawing, begun, crossed, applied, work, db, lost>>
  BY OwedShape
<1>2. \A g \in Hosts : OwesIn(job'[g])
  BY <1>1 DEF WInv, OwesIn
<1>3. ASSUME ~lost' PROVE (\E ts : Held(ts))'
  <2>1. PICK ts : Held(ts)
    BY <1>1, <1>3 DEF WInv
  <2>2. PICK k : k = Len(queue)
    OBVIOUS
  <2>3. PICK u : u = Apply(ts[k], job[h].op)
    OBVIOUS
  <2>4. PICK us : us = [n \in 0..(k + 1) |-> IF n <= k THEN ts[n] ELSE u]
    OBVIOUS
  <2>5. Held(us)'
    BY <2>1, <2>2, <2>3, <2>4, EnqueueChain
  <2> QED
    BY <2>5
<1> QED
  BY <1>1, <1>2, <1>3 DEF WInv, Apart

-----------------------------------------------------------------------------
\* The writer's steps leave the room and what is owed alone.
LEMMA SameReady ==
    ASSUME UNCHANGED <<title, focus, scene, pen, used, drawing, begun, crossed, job>>,
           NEW t, Ready(t)
    PROVE  Ready(t)'
<1>1. Home' = Home /\ (Apart' <=> Apart) /\ Ended' = Ended
  BY DEF Home, Apart, Ended
<1>2. \A x \in Things \ crossed' : SavedAt(Home', t, job', x)
  BY <1>1 DEF Ready
<1>3. Apart' => Good(t, used', begun') /\ PensFit(t, job', Home', drawing', used', begun')
  BY <1>1 DEF Ready
<1> QED
  BY <1>1, <1>2, <1>3 DEF Ready

LEMMA ApplyChain ==
    ASSUME WInv, NEW ts, Held(ts), ApplyOp, NEW k, k = Len(queue), NEW us,
           us = [n \in 0..(k - 1) |-> ts[n + 1]]
    PROVE  Held(us)'
<1>0. TInv
  BY DEF WInv, SInv
<1>1. /\ queue # <<>> /\ work' = Apply(work, Head(queue)) /\ queue' = Tail(queue)
      /\ UNCHANGED <<title, focus, scene, pen, used, drawing, begun, crossed, job, db, lost>>
  BY DEF ApplyOp, roomVars, idVars
<1>2. /\ k \in Nat /\ k > 0 /\ Head(queue) = queue[1] /\ Len(queue') = k - 1
      /\ \A n \in 1..(k - 1) : queue'[n] = queue[n + 1]
  BY <1>0, <1>1, QueueIs
<1>3. \A n \in 0..(k - 1) : us[n] = ts[n + 1]
  OBVIOUS
<1>4. /\ Chain(work, queue, ts)
      /\ \A n \in 0..k : ts[n] \in Tables /\ Stock(ts[n], used, Ended)
      /\ Apart => \A n \in 0..k : Good(ts[n], used, begun)
      /\ Apart => \A n \in 1..k : Accepts(ts[n - 1], queue[n])
      /\ Ready(ts[k])
  BY DEF Held
<1>5. (Apart' <=> Apart) /\ Ended' = Ended
  BY <1>1 DEF Apart, Ended
<1>6. \A n \in 0..(k - 1) : n + 1 \in 0..k
  BY <1>2
<1>7. \A n \in 1..(k - 1) : n + 1 \in 1..k /\ n - 1 \in 0..(k - 1) /\ (n - 1) + 1 = n /\ (n + 1) - 1 = n
  BY <1>2
<1>8. Chain(work', queue', us)
  <2>1. us[0] = work'
    <3>1. 0 \in 0..(k - 1) /\ 0 + 1 = 1 /\ 1 \in 1..k /\ 1 - 1 = 0
      BY <1>2
    <3>2. ts[1] = Apply(ts[0], queue[1]) /\ ts[0] = work
      BY <1>4, <3>1 DEF Chain
    <3> QED
      BY <1>1, <1>2, <1>3, <3>1, <3>2
  <2>2. ASSUME NEW n \in 1..(k - 1) PROVE us[n] = Apply(us[n - 1], queue'[n])
    <3>1. ts[n + 1] = Apply(ts[n], queue[n + 1])
      BY <1>4, <1>7 DEF Chain
    <3>2. us[n] = ts[n + 1] /\ us[n - 1] = ts[n]
      BY <1>2, <1>3, <1>7
    <3> QED
      BY <1>2, <3>1, <3>2
  <2> QED
    BY <1>2, <2>1, <2>2 DEF Chain
<1>9. ASSUME NEW n \in 0..(k - 1)
      PROVE  /\ us[n] \in Tables /\ Stock(us[n], used', Ended')
             /\ Apart' => Good(us[n], used', begun')
  BY <1>1, <1>3, <1>4, <1>5, <1>6
<1>10. ASSUME Apart', NEW n \in 1..(k - 1) PROVE Accepts(us[n - 1], queue'[n])
  <2>1. Accepts(ts[n], queue[n + 1])
    BY <1>4, <1>5, <1>7, <1>10
  <2>2. us[n - 1] = ts[n]
    BY <1>2, <1>3, <1>7
  <2> QED
    BY <1>2, <2>1, <2>2
<1>11. PICK u : u = ts[k]
  OBVIOUS
<1>12. Ready(u)'
  BY <1>1, <1>4, <1>11, SameReady
<1>13. /\ \A x \in Things \ crossed' : SavedAt(Home', u, job', x)
       /\ Apart' => PensFit(u, job', Home', drawing', used', begun')
  BY <1>12 DEF Ready
<1>14. us[Len(queue')] = u
  BY <1>2, <1>3, <1>11
<1>15. /\ u \in Tables /\ Stock(u, used', Ended')
       /\ Apart' => Good(u, used', begun')
  BY <1>12 DEF Ready
<1> QED
  BY <1>2, <1>8, <1>9, <1>10, <1>13, <1>14, <1>15 DEF Held, Ready

LEMMA ApplyHeld ==
    ASSUME WInv, SInv', ApplyOp
    PROVE  WInv'
<1>1. /\ applied' = applied + 1
      /\ UNCHANGED <<title, focus, scene, pen, used, drawing, begun, crossed, job, db, lost>>
  BY DEF ApplyOp, roomVars, idVars
<1>2. applied' # 0
  BY <1>1 DEF WInv, SInv, TInv, TypeOK
<1>3. ASSUME ~lost' PROVE (\E ts : Held(ts))'
  <2>1. PICK ts : Held(ts)
    BY <1>1, <1>3 DEF WInv
  <2>2. PICK k : k = Len(queue)
    OBVIOUS
  <2>3. PICK us : us = [n \in 0..(k - 1) |-> ts[n + 1]]
    OBVIOUS
  <2>4. Held(us)'
    BY <2>1, <2>2, <2>3, ApplyChain
  <2> QED
    BY <2>4
<1> QED
  BY <1>1, <1>2, <1>3 DEF WInv, Apart

LEMMA CommitHeld ==
    ASSUME WInv, SInv', CommitBatch
    PROVE  WInv'
<1>0. TInv /\ Len(queue) \in Nat
  BY TInvFacts DEF WInv, SInv
<1>1. /\ db' = work
      /\ UNCHANGED <<title, focus, scene, pen, used, drawing, begun, crossed, job, queue, work, lost>>
  BY DEF CommitBatch, roomVars, idVars
<1>2. (Apart' <=> Apart) /\ Ended' = Ended
  BY <1>1 DEF Apart, Ended
<1>3. ASSUME NEW ts, Held(ts) PROVE Held(ts)'
  <2>1. PICK u : u = ts[Len(queue)]
    OBVIOUS
  <2>2. Ready(u)'
    BY <1>1, <1>3, <2>1, SameReady DEF Held
  <2>3. /\ \A x \in Things \ crossed' : SavedAt(Home', u, job', x)
        /\ Apart' => PensFit(u, job', Home', drawing', used', begun')
        /\ u \in Tables /\ Stock(u, used', Ended')
        /\ Apart' => Good(u, used', begun')
    BY <2>2 DEF Ready
  <2>4. u = ts[Len(queue')]
    BY <1>1, <2>1
  <2> QED
    BY <1>1, <1>2, <1>3, <2>3, <2>4 DEF Held, Ready
<1>4. ASSUME Apart' PROVE Good(db', used', begun')
  <2>1. ~lost
    BY <1>2, <1>4 DEF WInv
  <2>2. PICK ts : Held(ts)
    BY <2>1 DEF WInv
  <2>3. 0 \in 0..Len(queue)
    BY <1>0
  <2>4. Good(ts[0], used, begun) /\ ts[0] = work
    BY <1>2, <1>4, <2>2, <2>3 DEF Held, Chain
  <2> QED
    BY <1>1, <2>4
<1>5. ~lost' => (\E ts : Held(ts))'
  BY <1>1, <1>3 DEF WInv
<1>6. /\ lost' => ~Apart'
      /\ applied' = 0 => work' = db'
      /\ \A h \in Hosts : OwesIn(job'[h])
  BY <1>1, <1>2 DEF WInv
<1> QED
  BY <1>4, <1>5, <1>6 DEF WInv

\* A batch is aborted at an operation that the tables before it do not take.
LEMMA AbortHeld ==
    ASSUME WInv, SInv', AbortBatch
    PROVE  WInv'
<1>0. TInv
  BY DEF WInv, SInv
<1>1. /\ queue # <<>> /\ ~Accepts(work, Head(queue)) /\ work' = db /\ lost'
      /\ UNCHANGED <<title, focus, scene, pen, used, drawing, begun, crossed, job, db>>
  BY DEF AbortBatch, roomVars, idVars
<1>2. ~Apart
  <2>1. SUFFICES ASSUME Apart PROVE FALSE
    OBVIOUS
  <2>2. PICK ts : Held(ts)
    BY <2>1 DEF WInv
  <2>3. Head(queue) = queue[1] /\ 1 \in 1..Len(queue) /\ 1 - 1 = 0
    BY <1>0, <1>1, QueueIs
  <2>4. Accepts(ts[1 - 1], queue[1]) /\ ts[0] = work
    BY <2>1, <2>2, <2>3 DEF Held, Chain
  <2> QED
    BY <1>1, <2>3, <2>4
<1>3. ~Apart'
  BY <1>1, <1>2 DEF Apart
<1> QED
  BY <1>1, <1>3 DEF WInv

-----------------------------------------------------------------------------
LEMMA LoadedIs ==
    ASSUME NEW t
    PROVE  Loaded(t).now = t.now /\ Loaded(t).log = [i \in DOMAIN t.rows |-> t.rows[i].act]
  BY DEF Loaded

\* A room just loaded, with nothing owed.
LEMMA LoadedFit ==
    ASSUME NEW t \in Tables, NEW ids, NEW dr, NEW n, Stock(t, ids, ids \ dr), Good(t, ids, n),
           NEW jobs, \A h \in Hosts : ~Owes(jobs[h]),
           NEW r, \A b \in Pens : r.pen[b] = Loaded(t.pen[b])
    PROVE  PensFit(t, jobs, r, dr, ids, n)
<1>1. ASSUME NEW b \in Pens, NEW s, CanEnd(r.pen[b], s) PROVE s \notin dr
  <2>0. r.pen[b].log = [i \in DOMAIN t.pen[b].rows |-> t.pen[b].rows[i].act]
    <3>1. r.pen[b] = Loaded(t.pen[b])
      OBVIOUS
    <3> QED
      BY <3>1, LoadedIs
  <2>1. PICK i \in DOMAIN t.pen[b].rows : t.pen[b].rows[i].act.kind = "stroke" /\ t.pen[b].rows[i].act.target = s
    BY <1>1, <2>0 DEF CanEnd, BeganBy
  <2>2. t.pen[b].rows \in Seq(RowsOf(ids \ dr))
    BY DEF Stock
  <2>3. t.pen[b].rows[i] \in RowsOf(ids \ dr)
    BY <2>1, <2>2
  <2>4. t.pen[b].rows[i].act \in ActsOf(ids \ dr)
    BY <2>3 DEF RowsOf
  <2> QED
    BY <2>1, <2>4 DEF ActsOf
<1>2. DueOnce(t, jobs, r, dr)
  BY <1>1 DEF DueOnce, Due
<1>3. ASSUME NEW b \in Pens PROVE PenKnown(r.pen[b], dr, ids, n)
  <2>1. r.pen[b].now = t.pen[b].now /\ r.pen[b].log = [i \in DOMAIN t.pen[b].rows |-> t.pen[b].rows[i].act]
    <3>1. r.pen[b] = Loaded(t.pen[b])
      OBVIOUS
    <3> QED
      BY <3>1, LoadedIs
  <2>2. DOMAIN t.pen[b].rows = 1..Len(t.pen[b].rows) /\ t.pen[b] \in PenTable(ActionIds)
    BY ActsAre, TablesShape
  <2>3. \A i \in DOMAIN r.pen[b].log : r.pen[b].log[i].id <= n
    BY <2>1, <2>2 DEF Good, Known, IdsUpTo
  <2>4. DOMAIN t.pen[b].now.strokes \subseteq Strokes
    BY <2>2 DEF PenTable, Drawing, Maps
  <2>5. DOMAIN r.pen[b].now.strokes \subseteq ids
    <3>1. \A s \in DOMAIN t.pen[b].now.strokes : Has(t, s)
      BY DEF Has, HasIn
    <3> QED
      BY <2>1, <2>4, <3>1 DEF Good, Known
  <2>6. Standing(r.pen[b], dr)
    BY <1>1 DEF Standing
  <2> QED
    BY <2>3, <2>5, <2>6 DEF PenKnown
<1>4. PensKnown(r.pen, dr, ids, n)
  BY <1>3 DEF PensKnown
<1> QED
  BY <1>2, <1>4 DEF PensFit

LEMMA LoadedSaved ==
    ASSUME NEW t \in Tables, NEW jobs, \A h \in Hosts : ~Owes(jobs[h]),
           NEW r, \A b \in Pens : r.pen[b] = Loaded(t.pen[b]),
           r.title = t.title, r.focus = t.focus, r.scene = t.scene,
           r.apart => AllSound(t),
           NEW x
    PROVE  SavedAt(r, t, jobs, x)
<1>1. ASSUME x \in Pens, r.apart PROVE Linked(r.pen[x], t.pen[x]) /\ Sound(t.pen[x])
  <2>1. Sound(t.pen[x]) /\ t.pen[x] \in PenTable(ActionIds)
    BY <1>1, TablesShape DEF AllSound
  <2>2. Linked(Loaded(t.pen[x]), t.pen[x])
    BY <2>1, LoadedLinked
  <2> QED
    BY <1>1, <2>1, <2>2
<1>2. Match(r, t, x)
  BY <1>1 DEF Match
<1> QED
  BY <1>2 DEF SavedAt, Owing

\* One table is a chain.
LEMMA AloneChain ==
    ASSUME NEW t, NEW ts, ts = [n \in {0} |-> t]
    PROVE  Chain(t, <<>>, ts) /\ ts[0] = t /\ Len(<<>>) = 0 /\ 1..0 = {} /\ 0..0 = {0}
<1>1. Len(<<>>) = 0 /\ 1..0 = {} /\ 0..0 = {0} /\ ts[0] = t
  OBVIOUS
<1> QED
  BY <1>1 DEF Chain

LEMMA RestartHeld ==
    ASSUME WInv, SInv', Restart
    PROVE  WInv'
<1>0. TInv /\ db \in Tables /\ Stock(db, used, Ended)
  BY TInvFacts DEF WInv, SInv
<1>1. /\ title' = db.title /\ focus' = db.focus /\ scene' = db.scene
      /\ pen' = [b \in Pens |-> Loaded(db.pen[b])]
      /\ job' = [h \in Hosts |-> Idle] /\ queue' = <<>> /\ applied' = 0 /\ work' = db /\ lost' = FALSE
      /\ UNCHANGED <<used, drawing, begun, db>>
      /\ crossed' \subseteq crossed \cup {"focus"} /\ crossed \subseteq crossed'
  BY DEF Restart, idVars
<1>2. (Apart' <=> Apart) /\ Ended' = Ended
  BY <1>1, BoardsAssumption DEF Apart, Ended, Ids
<1>3. \A h \in Hosts : ~Owes(job'[h])
  BY <1>1 DEF Owes, Idle
<1>4. /\ Home'.title = db.title /\ Home'.focus = db.focus /\ Home'.scene = db.scene
      /\ \A b \in Pens : Home'.pen[b] = Loaded(db.pen[b])
      /\ Home'.apart <=> Apart
  BY <1>1, <1>2 DEF Home
<1>5. Apart => Good(db, used, begun) /\ AllSound(db)
  BY DEF WInv, Good
<1>6. \A x : SavedAt(Home', db, job', x)
  BY <1>0, <1>3, <1>4, <1>5, LoadedSaved
<1>7. Apart => PensFit(db, job', Home', drawing, used, begun)
  <2>1. SUFFICES ASSUME Apart PROVE PensFit(db, job', Home', drawing, used, begun)
    OBVIOUS
  <2>2. Stock(db, used, used \ drawing) /\ Good(db, used, begun)
    BY <1>0, <1>5, <2>1 DEF Ended
  <2> QED
    BY <1>0, <1>3, <1>4, <2>2, LoadedFit
<1>8. PICK ts : ts = [n \in {0} |-> db]
  OBVIOUS
<1>9. Chain(work', queue', ts) /\ ts[0] = db /\ Len(queue') = 0 /\ 1..0 = {} /\ 0..0 = {0}
  BY <1>1, <1>8, AloneChain
<1>10. ts[Len(queue')] = db
  BY <1>9
<1>11. Held(ts)'
  BY <1>0, <1>1, <1>2, <1>5, <1>6, <1>7, <1>9, <1>10 DEF Held, Ready
<1>12. \A h \in Hosts : OwesIn(job'[h])
  BY <1>3 DEF OwesIn
<1> QED
  BY <1>1, <1>2, <1>5, <1>11, <1>12 DEF WInv

LEMMA StartHeld == Init => WInv
<1> SUFFICES ASSUME Init PROVE WInv
  OBVIOUS
<1>0. SInv /\ TInv /\ db \in Tables /\ Stock(db, used, Ended)
  BY StartShown, TInvFacts DEF SInv
<1>1. /\ title = NoMap /\ focus = NoBoard /\ scene = [b \in Scenes |-> 0]
      /\ pen = [b \in Pens |-> NoPen] /\ used = {} /\ begun = 0
      /\ job = [h \in Hosts |-> Idle] /\ queue = <<>> /\ applied = 0 /\ work = db
      /\ db = NewTables /\ ~lost
  BY DEF Init
<1>2. /\ db.title = title /\ db.focus = focus /\ db.scene = scene
      /\ \A b \in Pens : db.pen[b] = NoTable
  BY <1>1 DEF NewTables
<1>3. \A h \in Hosts : ~Owes(job[h])
  BY <1>1 DEF Owes, Idle
<1>4. Good(db, used, begun) /\ AllSound(db)
  BY <1>2, NothingHas, NothingLinked DEF Good, Known, AllSound, Has
<1>5. /\ Home.title = db.title /\ Home.focus = db.focus /\ Home.scene = db.scene
      /\ \A b \in Pens : Home.pen[b] = Loaded(db.pen[b])
  BY <1>1, <1>2, LoadedNothing DEF Home
<1>6. \A x : SavedAt(Home, db, job, x)
  BY <1>0, <1>3, <1>4, <1>5, LoadedSaved
<1>7. PensFit(db, job, Home, drawing, used, begun)
  <2>1. Stock(db, used, used \ drawing)
    BY <1>0 DEF Ended
  <2> QED
    BY <1>0, <1>3, <1>4, <1>5, <2>1, LoadedFit
<1>8. PICK ts : ts = [n \in {0} |-> db]
  OBVIOUS
<1>9. Chain(work, queue, ts) /\ ts[0] = db /\ Len(queue) = 0 /\ 1..0 = {} /\ 0..0 = {0}
  BY <1>1, <1>8, AloneChain
<1>10. ts[Len(queue)] = db
  BY <1>9
<1>11. Held(ts)
  BY <1>0, <1>4, <1>6, <1>7, <1>9, <1>10 DEF Held, Ready
<1>12. \A h \in Hosts : OwesIn(job[h])
  BY <1>3 DEF OwesIn
<1> QED
  BY <1>0, <1>1, <1>4, <1>11, <1>12 DEF WInv

-----------------------------------------------------------------------------
LEMMA NextHeld == WInv /\ [Next]_vars => WInv'
<1> SUFFICES ASSUME WInv, [Next]_vars PROVE WInv'
  OBVIOUS
<1>1. SInv'
  BY NextShown DEF WInv
<1>2. ASSUME NEW h \in Hosts, ListStep(h) PROVE WInv'
  BY <1>1, <1>2, CreateHeld, RenameHeld, DeleteHeld, CheckHeld, SetFocusHeld, SceneHeld
  DEF ListStep
<1>3. ASSUME NEW h \in Hosts, NEW b \in Pens, PenHandler(h, b) PROVE WInv'
  BY <1>1, <1>3, PenBeginHeld, PenEndHeld, TextSetHeld, TextDeleteHeld, ClearHeld, UndoHeld
  DEF PenHandler
<1>4. ASSUME NEW h \in Hosts, Broadcast(h) \/ Enqueue(h) PROVE WInv'
  BY <1>1, <1>4, BroadcastHeld, EnqueueHeld
<1>5. ASSUME NEW s \in Strokes, PenEndOfNothing(s) PROVE WInv'
  BY <1>1, <1>5, NothingHeld
<1>6. CASE Writer
  BY <1>1, <1>6, ApplyHeld, CommitHeld, AbortHeld DEF Writer
<1>7. CASE ResetTask
  BY <1>1, <1>7, ResetHeld
<1>8. CASE Restart
  BY <1>1, <1>8, RestartHeld
<1>9. CASE UNCHANGED vars
  BY <1>1, <1>9, StutterHeld
<1> QED
  BY <1>2, <1>3, <1>4, <1>5, <1>6, <1>7, <1>8, <1>9 DEF Next

LEMMA StoredInv == Spec => []WInv
  BY StartHeld, NextHeld, PTL DEF Spec

\* With everything saved, the committed tables are what the room asks for.
LEMMA SettledMatch ==
    ASSUME WInv, Settled, NEW x \in Things \ crossed
    PROVE  Match(Home, db, x)
<1>1. queue = <<>> /\ Len(queue) = 0 /\ work = db /\ ~lost /\ \A h \in Hosts : job[h] = Idle
  BY DEF Settled, WInv
<1>2. PICK ts : Held(ts)
  BY <1>1 DEF WInv
<1>3. PICK u : u = ts[Len(queue)]
  OBVIOUS
<1>4. Ready(u) /\ u = db
  BY <1>1, <1>2, <1>3 DEF Held, Chain
<1>5. SavedAt(Home, db, job, x)
  BY <1>4 DEF Ready
<1>6. \A h \in Hosts : ~Owing(job[h], x)
  BY <1>1 DEF Owing, Owes, Idle
<1> QED
  BY <1>5, <1>6 DEF SavedAt

\* Once every handler is done and every operation committed, a restart brings
\* back the boards, titles and scenes that no two hosts have overlapped on,
\* and the focus.
THEOREM BoardsSaved == Spec => []BoardsStored
<1>1. ASSUME WInv PROVE BoardsStored
  <2>1. SUFFICES ASSUME Settled
                 PROVE  /\ \A b \in Ids \ crossed :
                             /\ Exists(b) <=> b \in DOMAIN db.title
                             /\ Exists(b) => title[b] = db.title[b]
                             /\ b \in Scenes => scene[b] = db.scene[b]
                        /\ "focus" \notin crossed /\ focus # NoBoard => db.focus = focus
    BY DEF BoardsStored
  <2>2. ASSUME NEW b \in Ids \ crossed
        PROVE  /\ Exists(b) <=> b \in DOMAIN db.title
               /\ Exists(b) => title[b] = db.title[b]
               /\ b \in Scenes => scene[b] = db.scene[b]
    <3>1. Match(Home, db, b)
      BY <1>1, <2>1, SettledMatch DEF Things
    <3> QED
      BY <3>1 DEF Match, Home, Exists
  <2>3. ASSUME "focus" \notin crossed, focus # NoBoard PROVE db.focus = focus
    <3>1. Match(Home, db, "focus")
      BY <1>1, <2>1, <2>3, SettledMatch DEF Things
    <3> QED
      BY <2>3, <3>1 DEF Match, Home
  <2> QED
    BY <2>2, <2>3
<1> QED
  BY <1>1, StoredInv, PTL

\* A batch is lost only if handlers of two hosts overlapped on some board:
\* otherwise the tables before every operation of the queue take it.
THEOREM LossOnlyCrossed == Spec => []LossExplained
<1>1. WInv => LossExplained
  BY DEF WInv, LossExplained
<1> QED
  BY <1>1, StoredInv, PTL

\* The rows of a table that Linked agrees with, against the log.
LEMMA LinkedStored ==
    ASSUME NEW p \in PenState(ActionIds), NEW t \in PenTable(ActionIds), Linked(p, t)
    PROVE  LET acts == ToSet(p.log)
               rows == {t.rows[i].act : i \in DOMAIN t.rows}
           IN  /\ rows \subseteq acts
               /\ \A a \in acts \ rows :
                     a.kind = "stroke" /\ (a.target \in DOMAIN p.now.strokes =>
                                              p.now.strokes[a.target] = "part")
<1> DEFINE acts == ToSet(p.log)
           rows == {t.rows[i].act : i \in DOMAIN t.rows}
           L == p.log
           A == Acts(t.rows)
<1>1. /\ DOMAIN L = 1..Len(L) /\ DOMAIN t.rows = 1..Len(t.rows)
      /\ \A i \in 1..Len(t.rows) : A[i] = t.rows[i].act
  BY LogIs, ActsAre
<1>2. acts = {L[k] : k \in 1..Len(L)}
  BY <1>1 DEF ToSet, Range
<1>3. rows = {A[i] : i \in 1..Len(t.rows)}
  BY <1>1
<1>4. Logged(p.now, L, Len(L), A, Len(t.rows))
  BY DEF Linked
<1> HIDE DEF acts, rows, L, A
<1>5. rows \subseteq acts
  BY <1>2, <1>3, <1>4 DEF Logged
<1>6. ASSUME NEW a \in acts \ rows
      PROVE  a.kind = "stroke" /\ (a.target \in DOMAIN p.now.strokes => p.now.strokes[a.target] = "part")
  <2>1. PICK k \in 1..Len(L) : a = L[k]
    BY <1>2
  <2>2. ~ \E i \in 1..Len(t.rows) : A[i] = L[k]
    BY <1>3, <1>6, <2>1
  <2> QED
    BY <1>4, <2>1, <2>2 DEF Logged
<1> QED
  BY <1>5, <1>6 DEF acts, rows

\* Once every handler is done and every operation committed, while no two
\* hosts have overlapped on a board, the tables hold all ended strokes and all
\* texts, and a row for each action the room can undo but for strokes not ended.
THEOREM PenSaved == Spec => []PenStored
<1>1. ASSUME WInv PROVE PenStored
  <2>1. ASSUME Settled, Apart, NEW b \in Pens
        PROVE  LET d == pen[b].now
                   t == db.pen[b]
                   acts == ToSet(pen[b].log)
                   rows == {t.rows[i].act : i \in DOMAIN t.rows}
               IN  /\ \A s \in DOMAIN d.strokes : d.strokes[s] = "whole" =>
                         s \in DOMAIN t.now.strokes /\ t.now.strokes[s] = "whole"
                   /\ \A x \in DOMAIN d.texts :
                         x \in DOMAIN t.now.texts /\ t.now.texts[x] = d.texts[x]
                   /\ rows \subseteq acts
                   /\ \A a \in acts \ rows :
                         a.kind = "stroke" /\ (a.target \in DOMAIN d.strokes =>
                                                  d.strokes[a.target] = "part")
    <3>1. b \in Things \ crossed
      BY <2>1 DEF Things, Ids, Apart
    <3>2. Match(Home, db, b)
      BY <1>1, <2>1, <3>1, SettledMatch
    <3>3. Linked(pen[b], db.pen[b])
      BY <2>1, <3>2 DEF Match, Home
    <3>4. pen[b] \in PenState(ActionIds) /\ db.pen[b] \in PenTable(ActionIds)
      BY <1>1, TablesShape DEF WInv, SInv, TInv, TypeOK
    <3>5. Within(pen[b].now, db.pen[b].now)
      BY <3>3 DEF Linked
    <3>6. LET acts == ToSet(pen[b].log)
              rows == {db.pen[b].rows[i].act : i \in DOMAIN db.pen[b].rows}
          IN  /\ rows \subseteq acts
              /\ \A a \in acts \ rows :
                    a.kind = "stroke" /\ (a.target \in DOMAIN pen[b].now.strokes =>
                                             pen[b].now.strokes[a.target] = "part")
      BY <3>3, <3>4, LinkedStored
    <3>7. /\ \A s \in DOMAIN pen[b].now.strokes : pen[b].now.strokes[s] = "whole" =>
                s \in DOMAIN db.pen[b].now.strokes /\ db.pen[b].now.strokes[s] = "whole"
          /\ \A x \in DOMAIN pen[b].now.texts :
                x \in DOMAIN db.pen[b].now.texts /\ db.pen[b].now.texts[x] = pen[b].now.texts[x]
      BY <3>5 DEF Within
    <3> QED
      BY <3>6, <3>7
  <2> QED
    BY <2>1 DEF PenStored
<1> QED
  BY <1>1, StoredInv, PTL

\* While no two hosts have overlapped on a board, every whole stroke in the
\* committed tables has the row that undoes it.
THEOREM StoredUndoable == Spec => []StrokesUndoable
<1>1. ASSUME WInv PROVE StrokesUndoable
  <2>1. ASSUME Apart, NEW b \in Pens, NEW s \in DOMAIN db.pen[b].now.strokes,
               db.pen[b].now.strokes[s] # "part"
        PROVE  \E i \in DOMAIN db.pen[b].rows :
                  db.pen[b].rows[i].act.kind = "stroke" /\ db.pen[b].rows[i].act.target = s
    <3> DEFINE t == db.pen[b]
    <3>1. t \in PenTable(ActionIds) /\ Sound(t)
      BY <1>1, <2>1, TablesShape DEF WInv, SInv, TInv, TypeOK, Good, AllSound
    <3> HIDE DEF t
    <3>2. t.now.strokes \in Maps(Strokes, {"part", "whole"})
      BY <3>1 DEF PenTable, Drawing
    <3>3. s \in DOMAIN t.now.strokes /\ t.now.strokes[s] # "part"
      BY <2>1 DEF t
    <3>4. t.now.strokes[s] = "whole"
      BY <3>2, <3>3 DEF Maps
    <3>5. StrokeFrom(Acts(t.rows), s, Len(t.rows))
      BY <3>1, <3>3, <3>4 DEF Sound, Backed
    <3>6. PICK i \in 1..Len(t.rows) : Acts(t.rows)[i].kind = "stroke" /\ Acts(t.rows)[i].target = s
      BY <3>5 DEF StrokeFrom, StrokeAt
    <3>7. i \in DOMAIN t.rows /\ t.rows[i].act.kind = "stroke" /\ t.rows[i].act.target = s
      BY <3>1, <3>6, ActsAre
    <3> QED
      BY <3>7 DEF t
  <2> QED
    BY <2>1 DEF StrokesUndoable
<1> QED
  BY <1>1, StoredInv, PTL
=============================================================================
