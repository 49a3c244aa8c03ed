------------------------------ MODULE PenBoard ------------------------------
(***************************************************************************)
(* One pen board, as values: what the room keeps of it (PenBoardState of   *)
(* room/model.rs and the pen_* functions of room/boards.rs), what the      *)
(* tables pen_strokes, pen_texts and pen_actions keep of it (the pen part  *)
(* of writer.rs) and how the one is loaded from the other (hydrate.rs).    *)
(*                                                                         *)
(* The room logs an action without what it replaced; the table keeps that  *)
(* with the action's row (payload_json), so undo restores in the table     *)
(* what the room does not get back before the next restart.                *)
(*                                                                         *)
(* Abstracted: of a stroke, whether all of its points are there; of a text *)
(* and its place, which version it is; the drawing order; colours, sizes   *)
(* and times.                                                              *)
(***************************************************************************)
EXTENDS Integers, Sequences, FiniteSets, SequencesExt, Functions

CONSTANTS
    Strokes, Texts,  \* ids, made by the browsers
    Contents         \* what a text may say

\* Partial functions from D to R
Maps(D, R) == UNION {[S -> R] : S \in SUBSET D}

NoMap == [x \in {} |-> x]

Put(f, x, v) == [y \in DOMAIN f \cup {x} |-> IF y = x THEN v ELSE f[y]]

Without(f, S) == Restrict(f, DOMAIN f \ S)

\* f, and where f says nothing, g
Over(f, g) == [x \in DOMAIN f \cup DOMAIN g |-> IF x \in DOMAIN f THEN f[x] ELSE g[x]]

\* A stroke is "part" until PenStrokeEnd.
Drawing == [strokes : Maps(Strokes, {"part", "whole"}), texts : Maps(Texts, Contents)]

Blank == [strokes |-> NoMap, texts |-> NoMap]

Action(ids) ==
         [id : ids, kind : {"stroke"}, target : Strokes]
    \cup [id : ids, kind : {"set", "delete"}, target : Texts]
    \cup [id : ids, kind : {"clear"}]

PenState(ids) == [now : Drawing, log : Seq(Action(ids))]

\* An action and its payload_json
Row(ids) == [act : Action(ids), before : Drawing]

PenTable(ids) == [now : Drawing, rows : Seq(Row(ids))]

NoPen   == [now |-> Blank, log |-> <<>>]
NoTable == [now |-> Blank, rows |-> <<>>]

-----------------------------------------------------------------------------
(***************************************************************************)
(* The room.                                                               *)
(***************************************************************************)
Stroke(id, s) == [id |-> id, kind |-> "stroke", target |-> s]
Set(id, t)    == [id |-> id, kind |-> "set", target |-> t]
Delete(id, t) == [id |-> id, kind |-> "delete", target |-> t]
Clear(id)     == [id |-> id, kind |-> "clear"]

WithStroke(d, s, c) == [d EXCEPT !.strokes = Put(@, s, c)]
WithText(d, t, v)   == [d EXCEPT !.texts = Put(@, t, v)]
LessText(d, t)      == [d EXCEPT !.texts = Without(@, {t})]

Did(p, now, act) == [now |-> now, log |-> Append(p.log, act)]

\* The action of PenStrokeBegin, which PenStrokeEnd stores the stroke with
BeganBy(p, s) == {i \in DOMAIN p.log : p.log[i].kind = "stroke" /\ p.log[i].target = s}

CanEnd(p, s) == s \in DOMAIN p.now.strokes /\ BeganBy(p, s) # {}

\* What Room::pen_undo takes away: a stroke begun, or a text set.
Undone(act, kind) == IF act.kind = kind THEN {act.target} ELSE {}

LessUndone(d, act) ==
    [strokes |-> Without(d.strokes, Undone(act, "stroke")),
     texts   |-> Without(d.texts, Undone(act, "set"))]

\* Mutant: the undo of a text leaves it on the board.
UndoStroke(p) ==
    [now |-> [p.now EXCEPT !.strokes = Without(@, Undone(Last(p.log), "stroke"))],
     log |-> Front(p.log)]

Undo(p) == [now |-> LessUndone(p.now, Last(p.log)), log |-> Front(p.log)]

-----------------------------------------------------------------------------
(***************************************************************************)
(* The tables.                                                             *)
(***************************************************************************)
\* next_pen_action_ord: a new row comes after all there are.
Store(t, now, row) == [now |-> now, rows |-> Append(t.rows, row)]

\* The mutation a row stands for and the row, in one transaction.
StoreText(t, row, value) == Store(t, WithText(t.now, row.act.target, value), row)

StoreAction(t, row) ==
    LET a == row.act IN
    Store(t, CASE a.kind = "stroke" -> WithStroke(t.now, a.target, "whole")
               [] a.kind = "delete" -> LessText(t.now, a.target)
               [] a.kind = "clear"  -> Blank, row)

Stored(t, id) == \E i \in DOMAIN t.rows : t.rows[i].act.id = id

\* The inverse of a row: what was there before it comes back.
Reversed(d, row) ==
    LET less == LessUndone(d, row.act)
    IN  [strokes |-> Over(row.before.strokes, less.strokes),
         texts   |-> Over(row.before.texts, less.texts)]

\* Mutant: the row goes and what it did stays.
DropRow(t, id) == [t EXCEPT !.rows = SelectSeq(@, LAMBDA r : r.act.id # id)]

\* apply_pen_undo; without a row it does nothing.
UndoRow(t, id) ==
    IF ~Stored(t, id) THEN t
    ELSE LET i == CHOOSE i \in DOMAIN t.rows : t.rows[i].act.id = id
         IN  [now |-> Reversed(t.now, t.rows[i]), rows |-> RemoveAt(t.rows, i)]

\* Mutant: nothing can be undone after a restart.
NoLog(t) == [now |-> t.now, log |-> <<>>]

\* hydrate_room_from_db: the log is the rows without their payloads.
Loaded(t) == [now |-> t.now, log |-> [i \in DOMAIN t.rows |-> t.rows[i].act]]
=============================================================================
