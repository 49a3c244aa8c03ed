# A verification development of the topic-tree server

The repository is a live-discussion tool: a host prepares a tree of topics,
guests follow it, vote, ask questions, raise hands and draw. A Rust server
(`server/src`) keeps each room in memory, sends every change to all browsers
over WebSockets and writes it behind, through one writer task, to SQLite. This
directory holds TLA+ modules translated from that code, the TLC runs over them
and TLAPS proofs of what matters most.

## 1. Inventory

| Part | State | Operations | Talks to | What is hard |
|---|---|---|---|---|
| Room (`room.rs`, `room/*`) | one mutex over topics, active topic, presence, kicked ids, questions, votes, hands, boards, `seq`; a broadcast sender of capacity 256 | one method per change, each atomic | handlers, handshake, reaper | a handler calls several methods, the lock is free between them |
| Topic intents (`intents/topics.rs`) | none of its own | add, rename, move, delete, set active, mark done, import, vote | room, writer channel | checks are made on a copy; enqueue comes after the room has changed |
| Questions, votes, hands (`intents/questions.rs`, `vote_topic`, `raise_hand.rs`) | none | submit, vote, answer, delete, promote; raise, lower, call on, dismiss | room, writer channel | vote index against count; copies written back |
| Boards (`intents/pen.rs`, `excalidraw.rs`, `room/boards.rs`) | strokes, texts, undo stack; scenes with versions | strokes, texts, clear, undo; scene update, periodic reset | room, writer channel | memory and database keep separate undo stacks; reset against newer deltas |
| Session (`ws.rs`) | per connection: progress of the handshake, receiver, timers | `run_connection`, `main_loop`, `handle_text` | registry, room, database | a handshake is many awaits; kick, mute, eviction fall between them |
| Moderation (`intents/moderation.rs`) | `kicked_guests`, `muted`, table `moderation` | kick, mute | room, writer, sessions | three copies of one fact |
| Registry and reaper (`room/registry.rs`, `main.rs`) | room id to `Arc<Room>` | get or create and hydrate; evict idle rooms | sessions, database | eviction against a join |
| Writer (`writer.rs`) | channel, open transaction | take a batch, apply, commit or drop it | SQLite | one bad operation drops a batch; crash before commit |
| Hydration (`room/hydrate.rs`) | none | load a room from the tables | SQLite, registry | what the tables did not keep |
| Rate limiter (`rate_limit.rs`) | token buckets | check, forget | intents | arithmetic at the boundaries |
| Web client (`web/src/ws`, `web/src/store`) | socket, queue of unsent intents, last `seq`, stores | connect, send, apply, resync | sessions | gaps, stale queue, optimistic updates |
| HTTP API, tokens, metrics, migrations, UI | | | | not protocol |

What makes each part correct:

* **Topics**: parent chains never close into a cycle (two walks over them run
  under the room mutex and have no other bound); every parent is in the room;
  no chain is longer than the cap; a deleted topic is not active.
* **Writer**: what is enqueued reproduces the room; no batch aborts; committed
  rows form a forest; a restart brings back a state the room really had; what
  stays in the room reaches the disk.
* **Session**: the presence list is the set of connections; who was kicked does
  not get in and does leave; an occupied room is not evicted.
* **Broadcasts**: a client that has seen every number has seen every change; a
  gap is noticed; clients converge.
* **Votes**: a count is the number of voters, in memory and in the table.
* **Boards**: the focus is on a board; what is shown is stored and can be undone after
  a restart; an older scene never replaces a newer.
* **Rate limiter**: no more passes than the bucket allows; who keeps to the quota
  is not refused.

## 2. Plan

Written, in this order:

1. `Forest`, `TopicTree`, `TopicStore`, `WriteBehind`: the tree, the writer, the
   restart; proofs of the tree.
2. `Session`: handshake, presence, kicks, mutes, eviction; proofs.
3. `SeqSync`: numbers, lag, snapshots, for messages that carry a whole state; proofs.
4. `Votes`: questions and votes of both kinds, whose messages carry a change that
   is computed before it is sent; proofs.
5. `PenBoard` and `Boards`: undo in memory and in `pen_actions`, scenes and their
   reset, the focus; proofs of every property, and of the inverse of every stored
   action.
6. `RateLimit`; proofs.

`TopicStore` composes `TopicTree` with the writer, the tables and the restart.
`Votes` and `Boards` contain the same writer over their own tables, because what an
operation may fail on differs (`Accepts`).

Left, in the order of what it would add:

1. `Votes` over `SeqSync`. A snapshot may already hold a question whose message is
   not numbered yet; the message then arrives in order and lists it twice.
2. The client's queue of unsent intents and its optimistic edits, over `SeqSync`.
3. The two timers of the main loop. (The idle timeout is made anew in each round
   of `select!` and the heartbeat ends a round every 25 s, so the 60 s of silence
   are never reached.)
4. Raised hands, a single map.

## 3. Modules

* **`Forest`**: rows of topics as a function from the ids present. The walks of
  `move_topic`, `topic_depth`, `subtree_max_depth` and `delete_topic` are least
  closed sets (`Ancestors`, `Subtree`), which need no recursion, so proofs can
  use them. Sibling order and the text of titles are abstracted.
* **`TopicTree`**: handlers of several host connections. A handler is one step
  where it changes the room without having read it, two where it checks a copy
  first (`pending` holds what it carries), and one more for each `enqueue_write`
  (`outbox`). Rejected intents are no steps. `AddChecked`/`AddApplied`,
  `ImportChecked`/`ImportApplied`, `MoveChecked`/`MoveApplied`/`MoveRefused`,
  `SetActiveRead`/`SetActiveApplied`, `RenameTopic`, `MarkTopicDone`,
  `DeleteTopic`, `PromoteQuestion`, `SendOp` are the intents of the same names.
* **`TopicStore`**: adds channel, batch, transaction, tables and restart.
  `TakeBatch`, `ApplyOp`, `CommitBatch`, `AbortBatch` are the writer loop,
  `Accepts` is SQLite's foreign key on `parent_id`, `Restart` is a crash
  anywhere followed by hydration.
* **`WriteBehind`**: the abstract store: a room, a disk, the states between
  them; a restart goes back to the disk.
* **`Session`**: connections through `hello`, `screened` (memory asked),
  `cleared` (table asked), `ready` (mute read), `found` (registry asked),
  `joined` (`add_client`), `main` (subscribed). Kick and mute are the enqueue,
  the room method and the notice, in the order of the code. Instances of a room
  live on while a connection holds them, so an evicted room and its successor
  may be there together. The writer is two actions here: the operation commits,
  or it is lost with a batch that `TopicStore` shows to abort. How long a room
  was idle is left open: the reaper may take any empty one.
* **`SeqSync`**: a handler's change, its number, the payload it reads and the
  send, as four steps (`Edit`, `TakeNumber`, `ReadPayload`, `Send`); a watcher's
  connection through `welcome` (snapshot read), `subscribe` (Welcome sent),
  `loop` and `answer` (another snapshot read), with its receiver as a queue that
  drops its oldest message and remembers having done so; the browser's last
  number, what it shows and the GetSnapshots it has under way. `Forward` is a
  message from the receiver through `checkSeq` to the store. The room's state is
  one version: only messages that carry a whole state are modelled (topics,
  presence, hands).
* **`Votes`**: a handler of `intents/questions.rs` or `vote_topic` is the change
  under the room's lock (`SubmitQuestion`, `VoteQuestion`, `VoteTopic`,
  `DeleteQuestion`, `Promote`, `AddTopic`, `DeleteTopic`), then `Broadcast`, then
  `Enqueue`; `mark_question_answered` has two locks (`CopyQuestion`,
  `WriteCopyBack`). `count` and `index` are `vote_count` and the two vote indexes,
  which the code keeps apart. `shown` and `mine` are what `store/index.ts` makes of
  the messages: counts are set, the own vote is *flipped*. `ApplyOp`,
  `CommitBatch`, `AbortBatch` are the writer with the foreign keys of
  `question_votes` and `topic_votes`. `crossed` is history: on which items
  handlers overlapped, and with whom; the properties excuse by it as little as the
  code allows. A vote that changes nothing is no step.
* **`PenBoard`**: one pen board as values and operators. The room's undo log has no
  payloads, the table's has (`payload_json`), so an undo gives back in the table
  what it does not give back in the room until the next restart. `StoreAction`,
  `StoreText` and `UndoRow` are the pen part of `writer.rs`, `Undo` and `Did` that
  of `room/boards.rs`, `Loaded` that of `hydrate.rs`. A stroke is `part` or `whole`.
* **`Boards`**: the list of boards, the focus (`CheckFocus`, `SetFocus`: two
  locks), scenes as versions, the pen handlers over `PenBoard`, the reset task
  (`ReadScenes`, `SendReset`), the writer with foreign keys and the primary key of
  `pen_strokes`, restarts, and what a browser shows (`view`, with `fresh` for
  strokes it saw begin). `view` is of one kind of browser: a guest's who follows the
  host and has since its last Welcome. `Passes` is which messages the reducer hands
  to the store for whom, `StoreApplies` what the store makes of them. A host's
  browser takes no stroke from the server, a guest's who does not follow takes no
  focus; both change their view themselves, which is not modelled. That a stroke
  is ended once is an assumption on the browser (`PenEnd`): the server would take
  a second end, whose INSERT fails and loses the batch.
* **`RateLimit`**: the buckets, in whole numbers: a token counts for as many units
  as a period has ticks. `Pass` and `Refuse` are the two results of `check`,
  `ForgetClient` the end of a connection. `StartWatch` is not of the program: it
  starts the stretch of time the properties measure.
* **`MC*`**: finite instances. **`*Proofs`**: theorems.

## 4. Runs

| Run | Instance | Question | Result |
|---|---|---|---|
| `TopicTree_two` | 2 hosts, 3 topics, all intents, cap 3 | can interleaved handlers close a cycle or leave a deleted topic active? | no |
| `TopicTree_one` | 1 host, 4 topics, cap 3 | are the checks enough for one connection (no orphans, depth)? | yes |
| `TopicStore_one` | 1 host, 2 topics, batches of 2, backlog 2 | does the backlog reproduce the room, does every batch commit, are stored rows a forest? | yes |
| `TopicStore_order` | 2 hosts, 2 topics, add/move/delete/promote | do committed rows have their parents whatever is reordered or aborted? | yes |
| `TopicStore_behind` | 1 host, 2 topics, add/move/delete | is this a write-behind store, and does what stays reach the disk? | yes |
| `Session` | 1 host, 1 guest with 2 tabs, 2 instances | presence, kicks, mutes, eviction, as above | hold |
| `Session_kick` | the same | is a kicked guest out of the room? | **no** |
| `SeqSync` | 3 handlers, 1 client, receiver of 2, 4 changes | does a client come to show the room, whatever overtakes what? | yes |
| `SeqSync_gap` | 2 handlers, 1 client, receiver of 1 | does a client with the room's number show the room? | **no** |
| `Votes` | 2 hosts, 2 tabs of one guest, 1 of another, a question, a topic, 4 handlers | are counts the voters, do browsers show them, what does a restart bring back, what loses a batch? | holds, but for the overlaps named |
| `Boards` | 2 hosts, a pen board or a scene, a stroke, a text, 5 handlers | does the focus exist, is what is shown stored and undoable, does the browser of a guest who follows the host show it? | holds, but for the overlaps named |
| `RateLimit` | 2 connections, 2 messages in 3 ticks, 9 ticks | how many pass in any stretch, and who is refused? | at most a bucket and its refill; who spent its rate |

Bounds. Three topics are the least in which a cycle needs two moves and a
bystander, and in which a moved topic brings a child below a third; the fourth
in `TopicTree_one` lets a chain pass the cap through a subtree. A batch of two
and a backlog of two let a batch end between two operations of a handler and
abort in its first or second. Two tabs of one guest are what the presence entry
counts; one tab's handshake can straddle the other's kick. Two instances are the
evicted room and its successor. Three handlers with four changes can send the
highest number first, in the middle and last, and overrun a receiver of two while
a snapshot is being answered; clients do not influence each other, so one is
enough.

In `Votes` and `Boards` the number of handlers begun (`MaxBegun`) bounds a run, not
what overlaps: every handler may be under way at once. In `Votes` four handlers are
an item made, voted for, and two that overlap on it: two tabs of one guest voting
against each other, two guests, a guest and a host's copy, a guest and a delete. In
`Boards` five are a board made, a text or stroke begun and ended, cleared and
undone. Batches of two and a backlog of three or one let a batch end or abort
between any two operations; a full backlog only makes handlers wait. Two hosts,
which are interchangeable in `Boards` like the texts' contents (symmetry), are what
can overlap; handlers of a third
overlap with each of them in the same way. Scene versions 0 to 2 are no scene, a
scene and a newer one. One board at a time: what relates two is the focus, which
moves from a board to none in the run as well, the ids of strokes, and the batch,
which one board's hosts may lose for all. The run does not reach these last two; the
theorems, which hold for any number of boards, do. In `RateLimit` nine ticks
are three periods, so a stretch may begin and end inside one.
 Deadlock checking is off throughout: nobody has
to send anything, and fresh topic ids run out.

### What the violated runs show

* `Session_kick`: a second tab has passed both kicked checks, the host kicks the
  guest, the tab joins: `add_client` does not ask `kicked_guests`. The guest is
  present again and `handle_text` lets it speak.
* `SeqSync_gap`: the Welcome's contents are read, a change is made, numbered and
  sent, then the Welcome's number is read and only then does the connection
  subscribe. The client holds the room's number and an older state; no message
  will ever show a gap for it. (`RoomSnapshot.seq`, read with the contents,
  would be the right number, but the client uses the envelope's.) This window and
  a refused GetSnapshot are what `missed` excuses in `Converged`.

### What the excuses of the passing runs say

The properties of `Votes` and `Boards` name in `crossed` what they do not promise.
Each excuse stands for something the code does:

* `CountIsVoters` excuses a question, never a topic, on which a host's handler
  overlapped another: `mark_question_answered` writes back the count it copied.
* `CountsShown` excuses items on which two handlers overlapped: counts are computed
  under one lock and sent later, so the older count may be sent last.
  `OwnVoteShown` needs no such excuse, since flips commute.
* `TalliesStored` excuses an item two tabs of one guest overlapped on: vote and
  unvote reach the writer in either order. Votes of different guests commute.
* `LossExplained` says what loses a batch, for rooms that did nothing but this: a
  vote for something gone, or one that overtakes the INSERT of its item or is
  overtaken by the DELETE; an ended stroke that is inserted a second time, or into a
  board that is gone.
* `PenStored` and `StrokesUndoable` speak only of rooms in which no two hosts have
  overlapped on *any* board (`Apart`): a batch that is lost to two hosts of one board
  takes the actions of all other boards along, and the undo of a later one then finds
  rows the room never had.
* `FocusExists` excuses a `set_focused_board` that overlapped a delete, and a
  restart that loads a focus whose board was deleted: `delete_board` clears the
  focus in the room only.
* `StrokesUndoable` excuses strokes that a clear met half drawn: the clear's payload
  holds them, its undo inserts them, cut off and with no row of their own.
* `ScenesShown` excuses boards on which two hosts overlapped: the newer scene may be
  sent first, and the next reset comes only after the next edit.

### Seen on the way

* With two host connections the depth cap is overtaken; a crash between the two
  operations of set active restores a state the room never had; two opposite moves
  that reach the writer in the other order store a cycle that the next start loads.
  These are why the corresponding invariants are stated for one restructuring
  connection.
* With two host connections a batch can abort: one host's add passes its parent
  check, another deletes the parent, the INSERT fails, and every operation of the
  batch, of whatever room, is dropped. `BatchesCommit` is stated for one.
* The walk over an import is entered once more for the (empty) children of a leaf
  and compares that level with the cap before it looks (`validation.rs:145`). A tree
  that reaches level 10 is refused although add accepts it, while
  `validation.rs:31` speaks of one depth for both.
* `whiteboards.md:52-54` has an undo log of 50 entries and a clear that cannot be
  undone; the code's log has no bound and `pen_undo` takes a clear back, in the
  table at once, in the room after the next restart.
* `persistence.md:105` writes a stroke once, on `PenStrokeEnd`; the undo of a clear
  writes half drawn ones as well.
* `whiteboards.md:129` lets the periodic reset heal any drift; it is sent only when
  the room's version has grown since the last one.
* A host's browser drops `PenStrokeBegun` (`reducer.ts:123-127`) and so, when
  `PenStrokeEnded` comes, finds nothing in progress (`store/index.ts:405-409`): it
  does not show the strokes of a second host until it takes a snapshot, while
  `.plan/2026-05-24-amber-falcon/phases.md:164` has all clients see them. Nor does it
  show a stroke of its own whose beginning crossed the `PenCleared` of an earlier
  clear, which empties what is in progress (`store/index.ts:454-466`). `PenShown` is
  about guests for this reason.
* A guest who starts to follow the host again stays on the board picked until the
  focus changes: the switch fetches nothing (`followHost.ts`, `reducer.ts:91-99`).
  The focus in `BoardsShown` is for guests who have followed all along.
  (With `Passes("host", TRUE, ...)` in `Shows` TLC finds `PenShown` violated, with
  `Passes("guest", FALSE, ...)` `BoardsShown`.)
* `protocol.md:165-179` names rates and a blanket limit for all other messages. A
  full bucket and its refill let up to twice the rate pass in one period
  (`PassesBounded`, which is tight), and no code implements the blanket limit.

## 5. Fairness

`Votes`, `Boards` and `RateLimit` state safety only and assume none.

`TopicStore_behind`: a handler that has applied its change gets to
its `enqueue_write` (there is no wait between them), and the writer task runs
while it has work (Tokio schedules a ready task; its blocking section returns).
Hosts need not act and no crash is due. A crash may come at any time, but the
property is about topics that stay from some point on.

`SeqSync`: a handler that has made its change goes on to the send, which waits for
nothing, and the task of a connection that stays open attends to its frames and
its receiver. Tokio wakes a task for which either is ready; `select!` is biased to
frames, but a client asks once per message it was sent, so frames run out. Nobody
has to join, leave or change anything, and a client that keeps leaving is
promised nothing.

## 6. Proofs

Checked by `tlapm` for every value of the constants, from the named assumptions
on constants only.

* `ForestProofs`: least closed sets contain what they should; deleting a subtree,
  adding rows, retitling and marking keep a forest acyclic; moving does so when
  the topic is no ancestor of its new parent, which is what the walk under the
  lock establishes. `InsertDepth` and `MoveDepth` bound every chain after an update
  by the chains before it, each by naming a finite closed set.
* `TopicTreeProofs`: `TypeCorrect`; `AlwaysAcyclic` for any number of
  connections (the invariant is `TypeOK`, acyclicity, and that rows and ids that
  handlers carry were generated); `DeletedNeverActive`; `OneHostNoOrphans` and
  `OneHostDepth`, which assume one connection and no promotions, and whose
  invariants add that what the connection carries from its check is still true.
  For the cap that is arithmetic on three definitions: the levels an import adds
  below its base (`LevelsIs`: the recursive function of `Levels` exists and is what
  it says), the height a move takes along, and the depth of the parent.
* `TopicStoreProofs`: `StoreTypeCorrect` and `ParentsStored`, for any number of
  hosts, any batch size and any order in which operations reach the writer. The
  committed rows alone are not inductive, since a commit replaces them: the
  invariant says the same of the rows of the open transaction after each operation.
  It says nothing of the room, whose invariant a restart after a lost batch breaks;
  the types of the room are therefore proved again without it (`HandleType`).
  For one host that promotes no question: `OneHostReplay` (what is on its way turns
  the transaction's tables into the room), `OneHostCommits` (no batch aborts) and
  `OneHostStoredAcyclic`. All three need one invariant: there is a chain of tables,
  from those of the open transaction through one for each operation of the batch,
  the channel and the host's outbox, in which each takes the next operation, each is
  acyclic with all parents present, and the last is the room. The chain is asserted
  to exist (`\E`), so that no induction over the operations is needed: a step puts
  one table before it or behind it. With two hosts the chain breaks, as the runs
  show; so does a promotion, whose parent nobody looks up. `OneHostWriteBehind` is the refinement: the initial states map
  to initial states and each step to a step of `WriteBehind` or to a stutter. It
  excludes `set_active_topic` too, which sends two operations between which the
  tables are in a state that no room was in (a hazard of the list).
* `SessionProofs`: `TypeCorrect`, `PresenceIsExact`, `BarredNeverJoins`,
  `KickForgetsNobody`, `OccupiedRoomIsKept`, `UnmutedByHostOnly`.
  The invariant adds who holds an instance (exactly from `found` on), that a barred
  connection past the memory check is barred by the table, and that only connections
  in their main loop are owed a notice. It is needed because the properties alone do
  not say why a fresh instance, whose entries are reset, has nobody in it.
* `SeqSyncProofs`: `TypeCorrect`; `ClientsConverge`, for any number of handlers
  and clients and any capacity. The invariant is about the message with the
  highest number: no message on its way has a higher one, and this one carries
  the room's state unless a change still waits for its number (`Good`); a client
  has this message or a snapshot still coming, or shows the state *and* holds the
  room's number (`Reached`), in which case every message still queued for it is
  out of order and will be noticed. `Converged` alone says nothing of a client
  with messages to come and so is not inductive.
* `VotesProofs`: `TypeCorrect`, `CountsAreVoters`, `OwnVoteIsShown`,
  `StoredVotesRooted`, `CountsAreShown`, `VotesSaved`, `LossOnlyCrossed`: every
  property of `Votes`, for any number of tabs, hosts, guests, questions and topics.
  The invariant adds that nothing is about an id that was not given out; that a
  copy whose question carries no mark has the right count (`Copies`), without which
  the write back could set any; and that a guest's screen and the room differ on an
  item exactly if the guest's tabs have an odd number of flips still to send
  (`Flipping`), with who may send them (`Tellers`). `OwnVoteShown` is the case of
  none to send and says nothing of the steps before it, so it is not inductive.
  `CountsShown` has an invariant of its own (`InStep`): while a single handler is on
  a question its message carries the room's state of it, and before and after that
  the browser agrees with the room.
  `VotesSaved` and `LossOnlyCrossed` share `StoredInv`. Until a batch is lost, what is
  listed has its row or the operation that makes it is under way (`Backed`), and
  nothing under way removes it, since no id is listed twice (`Clear`). For each guest
  and item not only what the table will hold in the end must be right but what is
  still to be sent: a tab that owes a ballot owes the room's, and with none owed the
  guest's last ballot in the channel says what the room says, or the table does where
  there is none (`Told`, `Says`). Ballots of different guests never meet, so no chain
  of tables is needed. While nothing is crossed, each vote in the channel comes after
  what makes its row and before what removes it (`Grounded`), which is why the
  foreign key holds for it.
* `BoardsProofs`, for any number of hosts, boards, strokes, texts and handlers:
  every property of `Boards`. `TypeCorrect` rests on nothing being spoken of that was
  not given out, and on only ended strokes having rows. `FocusIsOnABoard`: the
  invariant adds that a board that was checked is still there unless the focus is
  marked. `UndoRestoresTable`: for every board and every action whose row holds what
  it replaced, `apply_pen_undo` after the action leaves the tables as they were.
  `GuestsShowBoards`, `BrowsersShowScenes` and `GuestsShowPen` are about the browser
  of a guest who follows the host, and share the
  invariant `SInv`: a thing that is not crossed has one handler at a time; a view
  agrees with the room there, or will once the message that handler carries has
  arrived (`FineAt`). For scenes it adds which resets are under way.
  `BoardsSaved`, `PenSaved`, `StoredUndoable` and `LossOnlyCrossed` share `WInv`:
  until a batch is lost there is a chain of tables as above, the last of which
  matches the room in everything not crossed that no handler owes an operation for,
  and where one does, matches it once that operation is applied (`Ready`). Operations
  for different boards commute, which is why handlers may enqueue in any order. For a
  pen board, to match is `Linked`: the rows are of actions in the log, in its order
  but for strokes, which are stored at their end; what has no row is a stroke that is
  not ended; what the room shows the table has. That alone does not survive an undo
  in the table, which brings back what the row kept: `Sound` says that every text
  and whole stroke, in the table and in what each row would bring back, has an
  earlier row that undoes it. No batch is lost while no two hosts have overlapped on
  a board, because a stroke that is yet to be stored is on one board, in no table and
  in no row (`DueOnce`): its INSERT cannot meet the primary key.
* `RateLimitProofs`: `TypeCorrect`, `BoundedPasses`, `FairRefusals` for every rate
  and period. The invariant relates what passed since the stopwatch was started to
  the tokens a bucket would have now, from above and from below.

Every invariant and action property of the passing runs is stated by one of these
theorems, and so is the refinement; a theorem about one host names that as its
assumption. Only model-checked is liveness (`TopicsReachDisk`, `ComesToRest`), which
is out of the prover's reach. That the walks of the code visit what `Ancestors` and
`Subtree` contain is a matter of reading them: what a loop computes for every input is
induction over data.

## 7. Not modelled

Not yet: raised hands, the boards in a host's own browser and in that of a guest who
does not follow the host, the timers of the main loop, the client's queue of intents
and optimistic edits, votes together with snapshots (section 2). Left out of what is
modelled: cursors and clicks, which are passed on and not kept; appending points to a
stroke; the order of boards and strokes; texts and authors. Not at all: HTTP handlers,
token hashing, metrics, serialisation, migrations, rendering; they are one-step or a
library's. The ten-second drain of an orderly shutdown is not modelled: a crash may
fall at any point instead, which loses no less.
