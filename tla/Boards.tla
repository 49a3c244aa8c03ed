------------------------------- MODULE Boards -------------------------------
(***************************************************************************)
(* The boards of a room: the list and its focus, the Excalidraw scenes and *)
(* the pen boards, in room/boards.rs, intents/excalidraw.rs,               *)
(* intents/pen.rs, set_focused_board of intents/presence.rs and the reset  *)
(* task of ws.rs; their tables in writer.rs; what a browser makes of the   *)
(* messages.                                                               *)
(*                                                                         *)
(* As in Votes, a handler changes the room, broadcasts and enqueues in     *)
(* three steps, between which other handlers run; set_focused_board checks *)
(* the board and sets it in two.  The writer's batch is as there.          *)
(*                                                                         *)
(* Abstracted: a scene is its version, which the browsers choose, so that  *)
(* a version stands for one drawing until a restart; the order of boards;  *)
(* cursors and clicks, which nobody keeps; lag and sequence numbers        *)
(* (SeqSync).                                                              *)
(*                                                                         *)
(* `view` is what one kind of browser shows: that of a guest who follows   *)
(* the host, and has done so since the last Welcome, and that receives     *)
(* every message in the order they are sent.  Other browsers drop some of  *)
(* the messages (Passes) and change their view themselves: a host's adds   *)
(* the strokes drawn in it, and a guest's who does not follow the host     *)
(* the board that the guest picks.  What they show is not modelled.        *)
(***************************************************************************)
EXTENDS PenBoard

CONSTANTS
    Pens, Scenes,  \* board ids of the two kinds; a board keeps its kind, and
                   \* Uuid::new_v4 never repeats an id
    Titles, Untitled,  \* what a board is renamed to, and its first title
    Hosts,         \* connections with the host role
    NoBoard,       \* None for a focus
    MaxBoards,     \* bound of the model on boards created
    MaxVersion,    \* bound of the model on scene versions
    MaxBatch,      \* writer::MAX_BATCH_SIZE
    MaxQueue,      \* bound of the model on operations sent and not applied
    MaxBegun       \* bound of the model on handlers begun

Ids    == Pens \cup Scenes
Things == Ids \cup {"focus"}

ASSUME BoardsAssumption ==
    /\ Pens \cap Scenes = {}
    /\ Strokes \cap Texts = {}
    /\ Ids \cap {NoBoard, "focus"} = {}
    /\ Untitled \in Titles
    /\ MaxBoards \in Nat
    /\ MaxVersion \in Nat
    /\ MaxBatch \in Nat \ {0}
    /\ MaxQueue \in Nat \ {0}
    /\ MaxBegun \in Nat

VARIABLES
    title,    \* RoomInner.boards: the title of each board there is
    focus,    \* focused_board_id
    scene,    \* the scene version of each Excalidraw board
    marked,   \* excalidraw_last_broadcast_version
    pen,      \* pen_boards
    used,     \* board and stroke ids that were given out
    drawing,  \* strokes a browser has begun and not ended
    begun,    \* how many handlers changed the room so far, up to MaxBegun
    job,      \* what each connection's handler has yet to do
    resets,   \* scenes the reset task has read and not broadcast yet
    queue,    \* the mpsc channel to the writer
    applied,  \* how many operations the open transaction holds
    work,     \* the tables as the transaction sees them
    db,       \* the committed tables
    view,     \* what the browser of a guest who follows the host shows
    crossed,  \* history: what handlers of two hosts have overlapped on; the
              \* focus, if a restart loaded one that is gone
    lost      \* history: a batch was aborted since the last restart

listVars  == <<title, focus>>
roomVars  == <<title, focus, scene, marked, pen>>
idVars    == <<used, drawing>>
tableVars == <<queue, applied, work, db>>
vars      == <<roomVars, idVars, begun, job, resets, tableVars, view, crossed, lost>>

Idle == [step |-> "idle"]
NoOp == [kind |-> "none"]

ActionIds == 1..MaxBegun
Versions  == 0..MaxVersion

ListMsg ==    [kind : {"created", "renamed"}, board : Ids, title : Titles]
         \cup [kind : {"deleted", "focused"}, board : Ids]
         \cup [kind : {"scene"}, board : Scenes, version : Versions]

PenMsg ==    [kind : {"begun", "ended"}, board : Pens, stroke : Strokes]
        \cup [kind : {"text"}, board : Pens, text : Texts, value : Contents]
        \cup [kind : {"textGone"}, board : Pens, text : Texts]
        \cup [kind : {"cleared"}, board : Pens]
        \cup [kind : {"undone"}, board : Pens, act : Action(ActionIds)]

Msg == ListMsg \cup PenMsg

ListOp ==    [kind : {"upsert", "rename"}, board : Ids, title : Titles]
        \cup [kind : {"delete", "focus"}, board : Ids]
        \cup [kind : {"scene"}, board : Scenes, version : Versions]

PenOp ==    [kind : {"act"}, board : Pens, row : Row(ActionIds)]
       \cup [kind : {"text"}, board : Pens, row : Row(ActionIds), value : Contents]
       \cup [kind : {"undo"}, board : Pens, id : ActionIds]

Op == ListOp \cup PenOp \cup {NoOp}

Job ==    {Idle}
     \cup [step : {"checked"}, on : SUBSET Things, board : Ids]
     \cup [step : {"tell"}, on : SUBSET Things, msg : Msg, op : Op]
     \cup [step : {"save"}, on : SUBSET Things, op : Op]

\* scene 0: no row of excalidraw_scenes
Tables == [title : Maps(Ids, Titles), focus : Ids \cup {NoBoard},
           scene : [Scenes -> Versions], pen : [Pens -> PenTable(ActionIds)]]

View == [title : Maps(Ids, Titles), focus : Ids \cup {NoBoard},
         scene : [Scenes -> Versions], pen : [Pens -> Drawing],
         fresh : SUBSET (Pens \X Strokes)]

TypeOK ==
    /\ title \in Maps(Ids, Titles)
    /\ focus \in Ids \cup {NoBoard}
    /\ scene \in [Scenes -> Versions]
    /\ marked \in [Scenes -> Versions]
    /\ pen \in [Pens -> PenState(ActionIds)]
    /\ \A b \in Scenes : b \notin DOMAIN title => scene[b] = 0
    /\ \A b \in Pens : b \notin DOMAIN title => pen[b] = NoPen
    /\ used \subseteq Ids \cup Strokes
    /\ drawing \subseteq Strokes
    /\ begun \in 0..MaxBegun
    /\ job \in [Hosts -> Job]
    /\ resets \subseteq Scenes \X Versions
    /\ queue \in Seq(Op)
    /\ applied \in 0..MaxBatch
    /\ work \in Tables
    /\ db \in Tables
    /\ view \in View
    /\ crossed \subseteq Things
    /\ lost \in BOOLEAN

NewTables == [title |-> NoMap, focus |-> NoBoard,
              scene |-> [b \in Scenes |-> 0], pen |-> [b \in Pens |-> NoTable]]

NewView == [title |-> NoMap, focus |-> NoBoard,
            scene |-> [b \in Scenes |-> 0], pen |-> [b \in Pens |-> Blank],
            fresh |-> {}]

Init ==
    /\ title = NoMap
    /\ focus = NoBoard
    /\ scene = [b \in Scenes |-> 0]
    /\ marked = [b \in Scenes |-> 0]
    /\ pen = [b \in Pens |-> NoPen]
    /\ used = {}
    /\ drawing = {}
    /\ begun = 0
    /\ job = [h \in Hosts |-> Idle]
    /\ resets = {}
    /\ queue = <<>>
    /\ applied = 0
    /\ work = NewTables
    /\ db = NewTables
    /\ view = NewView
    /\ crossed = {}
    /\ lost = FALSE

-----------------------------------------------------------------------------
(***************************************************************************)
(* The first half of a handler: the change, under the room's lock.         *)
(***************************************************************************)
\* Mutant: a board that was deleted still passes for one.
GivenOut(b) == b \in used

Exists(b) == b \in DOMAIN title

On(h, x) == job[h] # Idle /\ x \in job[h].on

\* What h touches of xs while the handler of another host is under way on it
Meets(h, xs) == {x \in xs : \E g \in Hosts \ {h} : On(g, x)}

Begin(h, next) ==
    /\ job[h] = Idle
    /\ begun < MaxBegun
    /\ begun' = begun + 1
    /\ job' = [job EXCEPT ![h] = next]
    /\ crossed' = crossed \cup Meets(h, next.on)

Tell(xs, msg, op) == [step |-> "tell", on |-> xs, msg |-> msg, op |-> op]

Unsaved == UNCHANGED <<tableVars, view, lost, resets>>

\* Room::create_board: a scene starts at version 0, in memory only.
CreateBoard(h, b) ==
    /\ b \in Ids \ used
    /\ Cardinality(used \cap Ids) < MaxBoards
    /\ title' = Put(title, b, Untitled)
    /\ used' = used \cup {b}
    /\ Begin(h, Tell({b}, [kind |-> "created", board |-> b, title |-> Untitled],
                     [kind |-> "upsert", board |-> b, title |-> Untitled]))
    /\ UNCHANGED <<focus, scene, marked, pen, drawing>>
    /\ Unsaved

RenameBoard(h, b, n) ==
    /\ Exists(b)
    /\ title' = Put(title, b, n)
    /\ Begin(h, Tell({b}, [kind |-> "renamed", board |-> b, title |-> n],
                     [kind |-> "rename", board |-> b, title |-> n]))
    /\ UNCHANGED <<focus, scene, marked, pen, idVars>>
    /\ Unsaved

\* Mutant: the focus stays on a board that is deleted.
SameFocus(b) == focus

FocusWithout(b) == IF focus = b THEN NoBoard ELSE focus

\* Mutant: the scene stays in the room.
SameScenes(b) == scene

ScenesWithout(b) == [c \in Scenes |-> IF c = b THEN 0 ELSE scene[c]]

\* Room::delete_board; what was broadcast of its scene stays marked.
DeleteBoard(h, b) ==
    /\ Exists(b)
    /\ title' = Without(title, {b})
    /\ focus' = FocusWithout(b)
    /\ scene' = ScenesWithout(b)
    /\ pen' = [c \in Pens |-> IF c = b THEN NoPen ELSE pen[c]]
    /\ Begin(h, Tell({b, "focus"}, [kind |-> "deleted", board |-> b],
                     [kind |-> "delete", board |-> b]))
    /\ UNCHANGED <<marked, idVars>>
    /\ Unsaved

\* Room::board_exists
CheckFocus(h, b) ==
    /\ Exists(b)
    /\ Begin(h, [step |-> "checked", on |-> {b, "focus"}, board |-> b])
    /\ UNCHANGED <<roomVars, idVars>>
    /\ Unsaved

\* Room::set_focused_board looks no more.
SetFocus(h) ==
    /\ job[h].step = "checked"
    /\ LET b == job[h].board IN
        /\ focus' = b
        /\ job' = [job EXCEPT ![h] =
              Tell(@.on, [kind |-> "focused", board |-> b], [kind |-> "focus", board |-> b])]
    /\ UNCHANGED <<title, scene, marked, pen, idVars, begun, crossed>>
    /\ Unsaved

Newer(b, v) == v > scene[b]

\* Room::update_excalidraw_scene; Stale is acknowledged and changes nothing.
UpdateScene(h, b, v) ==
    /\ Exists(b)
    /\ Newer(b, v)
    /\ scene' = [scene EXCEPT ![b] = v]
    /\ Begin(h, Tell({b}, [kind |-> "scene", board |-> b, version |-> v],
                     [kind |-> "scene", board |-> b, version |-> v]))
    /\ UNCHANGED <<title, focus, marked, pen, idVars>>
    /\ Unsaved

-----------------------------------------------------------------------------
(***************************************************************************)
(* Pen handlers.  The id of an action is the number of its handler.        *)
(***************************************************************************)
NextId == begun + 1

PenStep(h, b, state, msg, op) ==
    /\ pen' = [pen EXCEPT ![b] = state]
    /\ Begin(h, Tell({b}, msg, op))
    /\ UNCHANGED <<listVars, scene, marked>>
    /\ Unsaved

Act(b, act, before) ==
    [kind |-> "act", board |-> b, row |-> [act |-> act, before |-> before]]

\* Nothing is stored of a stroke before its end.
PenBegin(h, b, s) ==
    /\ Exists(b)
    /\ s \in Strokes \ used
    /\ used' = used \cup {s}
    /\ drawing' = drawing \cup {s}
    /\ PenStep(h, b, Did(pen[b], WithStroke(pen[b].now, s, "part"), Stroke(NextId, s)),
               [kind |-> "begun", board |-> b, stroke |-> s], NoOp)

\* The row is that of the action at PenStrokeBegin.  That a stroke ends once is
\* the browser's doing (PenCanvas.tsx): Room::pen_end_stroke would take a second
\* end as well, and the INSERT for that one would fail (InsertsTwice).
PenEnd(h, b, s) ==
    /\ s \in drawing
    /\ CanEnd(pen[b], s)
    /\ drawing' = drawing \ {s}
    /\ LET act == pen[b].log[CHOOSE i \in BeganBy(pen[b], s) : TRUE]
       IN  PenStep(h, b, [pen[b] EXCEPT !.now = WithStroke(@, s, "whole")],
                   [kind |-> "ended", board |-> b, stroke |-> s],
                   Act(b, act, Blank))
    /\ UNCHANGED used

\* The stroke was undone, cleared or lost meanwhile: None.
PenEndOfNothing(s) ==
    /\ s \in drawing
    /\ \A b \in Pens : ~CanEnd(pen[b], s)
    /\ drawing' = drawing \ {s}
    /\ UNCHANGED <<roomVars, used, begun, job, crossed>>
    /\ Unsaved

PenTextSet(h, b, t, v) ==
    /\ Exists(b)
    /\ LET d == pen[b].now
           prior == [Blank EXCEPT !.texts = Restrict(d.texts, {t} \cap DOMAIN d.texts)]
       IN  PenStep(h, b, Did(pen[b], WithText(d, t, v), Set(NextId, t)),
                   [kind |-> "text", board |-> b, text |-> t, value |-> v],
                   [kind |-> "text", board |-> b, value |-> v,
                    row |-> [act |-> Set(NextId, t), before |-> prior]])
    /\ UNCHANGED idVars

PenTextDelete(h, b, t) ==
    /\ t \in DOMAIN pen[b].now.texts
    /\ LET d == pen[b].now
           removed == [Blank EXCEPT !.texts = Restrict(d.texts, {t})]
       IN  PenStep(h, b, Did(pen[b], LessText(d, t), Delete(NextId, t)),
                   [kind |-> "textGone", board |-> b, text |-> t],
                   Act(b, Delete(NextId, t), removed))
    /\ UNCHANGED idVars

\* What is cleared includes strokes that are still drawn.
PenClear(h, b) ==
    /\ Exists(b)
    /\ PenStep(h, b, Did(pen[b], Blank, Clear(NextId)),
               [kind |-> "cleared", board |-> b],
               Act(b, Clear(NextId), pen[b].now))
    /\ UNCHANGED idVars

PenUndo(h, b) ==
    /\ pen[b].log # <<>>
    /\ LET act == Last(pen[b].log)
       IN  PenStep(h, b, Undo(pen[b]), [kind |-> "undone", board |-> b, act |-> act],
                   [kind |-> "undo", board |-> b, id |-> act.id])
    /\ UNCHANGED idVars

-----------------------------------------------------------------------------
(***************************************************************************)
(* A browser: what web/src/ws/reducer.ts passes on of the messages, and    *)
(* what web/src/store/index.ts makes of it.  `fresh` are the strokes the   *)
(* browser has seen begin and not end; its pen boards hold only whole      *)
(* ones, but for those that came with a snapshot.                          *)
(***************************************************************************)
\* Mutant: a rename is not taken over.
SameTitles(titles, b, n) == titles

Retitle(titles, b, n) == IF b \in DOMAIN titles THEN Put(titles, b, n) ELSE titles

\* A host's browser takes no stroke from the server, so neither the end of one
\* that another host drew; a guest who does not follow keeps the board picked.
Passes(role, follows, kind) ==
    /\ kind = "begun"   => role # "host"
    /\ kind = "focused" => role = "host" \/ follows

StoreApplies(v, msg) ==
    LET b == msg.board IN
    CASE msg.kind = "created" -> [v EXCEPT !.title = Put(@, b, msg.title)]
      [] msg.kind = "renamed" -> [v EXCEPT !.title = Retitle(@, b, msg.title)]
      [] msg.kind = "deleted" -> [v EXCEPT !.title = Without(@, {b}),
                               !.focus = IF @ = b THEN NoBoard ELSE @]
      [] msg.kind = "focused" -> [v EXCEPT !.focus = b]
      [] msg.kind = "scene"   ->
            IF b \in DOMAIN v.title THEN [v EXCEPT !.scene[b] = msg.version] ELSE v
      [] msg.kind = "begun"   -> [v EXCEPT !.fresh = @ \cup {<<b, msg.stroke>>}]
      [] msg.kind = "ended"   ->
            IF <<b, msg.stroke>> \in v.fresh
              THEN [v EXCEPT !.fresh = @ \ {<<b, msg.stroke>>},
                             !.pen[b] = WithStroke(@, msg.stroke, "whole")]
              ELSE v
      [] msg.kind = "text"     -> [v EXCEPT !.pen[b] = WithText(@, msg.text, msg.value)]
      [] msg.kind = "textGone" -> [v EXCEPT !.pen[b] = LessText(@, msg.text)]
      [] msg.kind = "cleared"  -> [v EXCEPT !.pen[b] = Blank,
                                            !.fresh = {f \in @ : f[1] # b}]
      [] msg.kind = "undone"   -> [v EXCEPT !.pen[b] = LessUndone(@, msg.act)]

Shows(v, msg) ==
    IF Passes("guest", TRUE, msg.kind) THEN StoreApplies(v, msg) ELSE v

Broadcast(h) ==
    /\ job[h].step = "tell"
    /\ view' = Shows(view, job[h].msg)
    /\ job' = [job EXCEPT ![h] =
          IF @.op = NoOp THEN Idle ELSE [step |-> "save", on |-> @.on, op |-> @.op]]
    /\ UNCHANGED <<roomVars, idVars, begun, resets, tableVars, crossed, lost>>

Enqueue(h) ==
    /\ job[h].step = "save"
    /\ Len(queue) < MaxQueue
    /\ queue' = Append(queue, job[h].op)
    /\ job' = [job EXCEPT ![h] = Idle]
    /\ UNCHANGED <<roomVars, idVars, begun, resets, applied, work, db, view, crossed, lost>>

\* Mutant: the task reads only scenes that were never broadcast.
NeverMarked(b) == scene[b] > 0 /\ marked[b] = 0

NeedsReset(b) == scene[b] > marked[b]

\* spawn_excalidraw_scene_reset_task, every 60 seconds
ReadScenes ==
    /\ resets = {}
    /\ resets' = {<<b, scene[b]>> : b \in {b \in Scenes : Exists(b) /\ NeedsReset(b)}}
    /\ resets' # {}
    /\ UNCHANGED <<roomVars, idVars, begun, job, tableVars, view, crossed, lost>>

\* The mark is read by this task only, so it may share the broadcast's step.
SendReset(b, v) ==
    /\ <<b, v>> \in resets
    /\ resets' = resets \ {<<b, v>>}
    /\ view' = Shows(view, [kind |-> "scene", board |-> b, version |-> v])
    /\ marked' = [marked EXCEPT ![b] = v]
    /\ UNCHANGED <<title, focus, scene, pen, idVars, begun, job, tableVars, crossed, lost>>

-----------------------------------------------------------------------------
(***************************************************************************)
(* The writer.                                                             *)
(***************************************************************************)
\* Foreign keys of excalidraw_scenes, pen_strokes, pen_texts, pen_actions
NeedsBoard(op) == op.kind \in {"scene", "act", "text"}

\* The primary key of pen_strokes: an ended stroke is inserted, never replaced.
InsertsTwice(tables, op) ==
    /\ op.kind = "act"
    /\ op.row.act.kind = "stroke"
    /\ \E b \in Pens : op.row.act.target \in DOMAIN tables.pen[b].now.strokes

Accepts(tables, op) ==
    /\ NeedsBoard(op) => op.board \in DOMAIN tables.title
    /\ ~InsertsTwice(tables, op)

\* Mutant: excalidraw_scenes without ON DELETE CASCADE.
NoCascade(tables, b) == [tables EXCEPT !.title = Without(@, {b})]

\* ON DELETE CASCADE; rooms.focused_board_id is no foreign key and stays.
WithoutBoard(tables, b) ==
    [tables EXCEPT !.title = Without(@, {b}),
                   !.scene = [c \in Scenes |-> IF c = b THEN 0 ELSE @[c]],
                   !.pen = [c \in Pens |-> IF c = b THEN NoTable ELSE @[c]]]

Apply(tables, op) ==
    CASE op.kind = "upsert" -> [tables EXCEPT !.title = Put(@, op.board, op.title)]
      [] op.kind = "rename" -> [tables EXCEPT !.title = Retitle(@, op.board, op.title)]
      [] op.kind = "delete" -> WithoutBoard(tables, op.board)
      [] op.kind = "focus"  -> [tables EXCEPT !.focus = op.board]
      [] op.kind = "scene"  -> [tables EXCEPT !.scene[op.board] = op.version]
      [] op.kind = "act"    -> [tables EXCEPT !.pen[op.board] = StoreAction(@, op.row)]
      [] op.kind = "text"   -> [tables EXCEPT !.pen[op.board] = StoreText(@, op.row, op.value)]
      [] op.kind = "undo"   -> [tables EXCEPT !.pen[op.board] = UndoRow(@, op.id)]

ApplyOp ==
    /\ queue # <<>>
    /\ applied < MaxBatch
    /\ Accepts(work, Head(queue))
    /\ work' = Apply(work, Head(queue))
    /\ queue' = Tail(queue)
    /\ applied' = applied + 1
    /\ UNCHANGED <<roomVars, idVars, begun, job, resets, db, view, crossed, lost>>

CommitBatch ==
    /\ applied > 0
    /\ db' = work
    /\ applied' = 0
    /\ UNCHANGED <<roomVars, idVars, begun, job, resets, queue, work, view, crossed, lost>>

\* The failing operation, those before it and those received with it are gone.
AbortBatch ==
    /\ queue # <<>>
    /\ applied < MaxBatch
    /\ ~Accepts(work, Head(queue))
    /\ \E n \in 1..(MaxBatch - applied) :
        /\ n <= Len(queue)
        /\ queue' = SubSeq(queue, n + 1, Len(queue))
    /\ work' = db
    /\ applied' = 0
    /\ lost' = TRUE
    /\ UNCHANGED <<roomVars, idVars, begun, job, resets, db, view, crossed>>

Writer == ApplyOp \/ CommitBatch \/ AbortBatch

\* The process dies; the browsers connect again and take the Welcome, which
\* brings the focus to every one of them.
Restart ==
    /\ title' = db.title
    /\ focus' = db.focus
    /\ scene' = db.scene
    /\ marked' = [b \in Scenes |-> 0]
    /\ pen' = [b \in Pens |-> Loaded(db.pen[b])]
    /\ job' = [h \in Hosts |-> Idle]
    /\ resets' = {}
    /\ queue' = <<>>
    /\ applied' = 0
    /\ work' = db
    /\ view' = [title |-> db.title, focus |-> db.focus, scene |-> db.scene,
                pen |-> [b \in Pens |-> db.pen[b].now], fresh |-> view.fresh]
    /\ crossed' = crossed \cup
          (IF db.focus \in DOMAIN db.title \cup {NoBoard} THEN {} ELSE {"focus"})
    /\ lost' = FALSE
    /\ UNCHANGED <<idVars, begun, db>>

ListStep(h) ==
    \/ \E b \in Ids, n \in Titles \ {Untitled} : RenameBoard(h, b, n)
    \/ \E b \in Ids : CreateBoard(h, b) \/ DeleteBoard(h, b) \/ CheckFocus(h, b)
    \/ SetFocus(h)
    \/ \E b \in Scenes, v \in Versions : UpdateScene(h, b, v)

PenHandler(h, b) ==
    \/ \E s \in Strokes : PenBegin(h, b, s) \/ PenEnd(h, b, s)
    \/ \E t \in Texts, v \in Contents : PenTextSet(h, b, t, v)
    \/ \E t \in Texts : PenTextDelete(h, b, t)
    \/ PenClear(h, b)
    \/ PenUndo(h, b)

ResetTask == ReadScenes \/ \E b \in Scenes, v \in Versions : SendReset(b, v)

Next ==
    \/ \E h \in Hosts : ListStep(h) \/ Broadcast(h) \/ Enqueue(h)
    \/ \E h \in Hosts, b \in Pens : PenHandler(h, b)
    \/ \E s \in Strokes : PenEndOfNothing(s)
    \/ ResetTask
    \/ Writer
    \/ Restart

Spec == Init /\ [][Next]_vars

-----------------------------------------------------------------------------
(***************************************************************************)
(* Properties.                                                             *)
(***************************************************************************)
Busy(x) == \E h \in Hosts : On(h, x)

\* Everything said was saved, and nothing was lost on the way.
Settled == /\ \A h \in Hosts : job[h] = Idle
           /\ queue = <<>> /\ applied = 0 /\ ~lost

\* No two hosts overlapped on a board, ever: then no batch was lost, either.
Apart == crossed \cap Ids = {}

(***************************************************************************)
(* The room's focus is on a board that exists: set_focused_board sets it   *)
(* some time after it looked, so another host's delete may come between,   *)
(* and a restart may load the focus of a board that was deleted.           *)
(***************************************************************************)
FocusExists == "focus" \in crossed \/ focus = NoBoard \/ Exists(focus)

(***************************************************************************)
(* With nothing under way, a restart brings back the boards with their     *)
(* titles and scenes, and the focus if there is one: a focus that ended    *)
(* with its board is still in the table.                                   *)
(***************************************************************************)
BoardsStored ==
    Settled =>
        /\ \A b \in Ids \ crossed :
             /\ Exists(b) <=> b \in DOMAIN db.title
             /\ Exists(b) => title[b] = db.title[b]
             /\ b \in Scenes => scene[b] = db.scene[b]
        /\ "focus" \notin crossed /\ focus # NoBoard => db.focus = focus

(***************************************************************************)
(* With nothing under way, the tables hold every stroke that was ended and *)
(* every text that the room shows, and for each action the room can undo a *)
(* row, but for strokes that were not ended: the undo stack survives a     *)
(* restart.  (A batch that another board's hosts lost may take an action   *)
(* of this board with it, and the undo of a later one then finds what the  *)
(* room never had: only Apart speaks of all boards.)                       *)
(***************************************************************************)
PenStored ==
    Settled /\ Apart =>
        \A b \in Pens :
            LET d == pen[b].now
                t == db.pen[b]
                acts == ToSet(pen[b].log)
                rows == {t.rows[i].act : i \in DOMAIN t.rows}
            IN  /\ \A s \in DOMAIN d.strokes : d.strokes[s] = "whole" =>
                      s \in DOMAIN t.now.strokes /\ t.now.strokes[s] = "whole"
                /\ \A x \in DOMAIN d.texts :
                      x \in DOMAIN t.now.texts /\ t.now.texts[x] = d.texts[x]
                /\ rows \subseteq acts
                /\ \A a \in acts \ rows :
                      a.kind = "stroke" /\ (a.target \in DOMAIN d.strokes =>
                                               d.strokes[a.target] = "part")

(***************************************************************************)
(* No stroke is in the tables for ever: each has the row that undoes it.   *)
(* Only a stroke that a clear met half drawn comes back, by the undo of    *)
(* that clear, half drawn and without a row.                               *)
(***************************************************************************)
StrokesUndoable ==
    Apart =>
        \A b \in Pens :
            LET t == db.pen[b] IN
            \A s \in DOMAIN t.now.strokes :
                \/ t.now.strokes[s] = "part"
                \/ \E i \in DOMAIN t.rows :
                      t.rows[i].act.kind = "stroke" /\ t.rows[i].act.target = s

(***************************************************************************)
(* A browser shows the boards and titles of the room, and that of a guest  *)
(* who follows the host its focus.  (Another guest's keeps the board the   *)
(* guest picked.  Who starts to follow again stays behind until the focus  *)
(* changes or a snapshot comes.)                                           *)
(***************************************************************************)
BoardsShown ==
    /\ \A b \in Ids \ crossed : ~Busy(b) =>
          /\ b \in DOMAIN view.title <=> Exists(b)
          /\ Exists(b) => view.title[b] = title[b]
    /\ "focus" \notin crossed /\ ~Busy("focus") => view.focus = focus

(***************************************************************************)
(* When the reset task has nothing more to send, a browser shows the       *)
(* room's scene: a reset that was overtaken by an edit is followed by      *)
(* another.  (The edits of two hosts may overtake each other, and then no  *)
(* reset follows before the next edit.)                                    *)
(***************************************************************************)
ScenesShown ==
    \A b \in Scenes \ crossed :
        Exists(b) /\ ~Busy(b) /\ resets = {} /\ ~NeedsReset(b) => view.scene[b] = scene[b]

(***************************************************************************)
(* A guest's browser shows the texts of the room and its ended strokes,    *)
(* and no stroke the room has not.  (A host's shows of strokes only those  *)
(* drawn in it and those of the last Welcome.)                             *)
(***************************************************************************)
PenShown ==
    \A b \in Pens \ crossed :
        Exists(b) /\ ~Busy(b) =>
            /\ view.pen[b].texts = pen[b].now.texts
            /\ DOMAIN view.pen[b].strokes \subseteq DOMAIN pen[b].now.strokes
            /\ \A s \in DOMAIN pen[b].now.strokes :
                  pen[b].now.strokes[s] = "whole" => s \in DOMAIN view.pen[b].strokes

(***************************************************************************)
(* A batch is only ever lost to two hosts that overlapped on a board,      *)
(* while browsers end each stroke once.                                    *)
(***************************************************************************)
LossExplained == lost => ~Apart
=============================================================================
