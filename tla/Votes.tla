-------------------------------- MODULE Votes --------------------------------
(***************************************************************************)
(* Questions and votes of a room: intents/questions.rs and vote_topic of   *)
(* intents/topics.rs, the vote indexes and counts of room.rs, the tables   *)
(* questions, question_votes and topic_votes, and what a browser makes of  *)
(* the messages.                                                           *)
(*                                                                         *)
(* A handler changes the room under one lock, then broadcasts what it      *)
(* computed there, then sends its operation to the writer; other handlers  *)
(* fall in between.  mark_question_answered even copies the question under *)
(* one lock and writes the copy back under another.                        *)
(*                                                                         *)
(* The writer applies operations inside a transaction of at most MaxBatch  *)
(* of them.  What it has received for a batch and not applied yet is still *)
(* in `queue` here, so a batch that aborts also takes a prefix of `queue`  *)
(* with it.                                                                *)
(*                                                                         *)
(* Abstracted: texts, authors and anonymity; the mute and the limiter,     *)
(* which only refuse; where a topic stands in the tree (TopicTree), its    *)
(* whole-tree broadcasts, lag and sequence numbers (SeqSync): `shown` and  *)
(* `mine` are those of browsers that receive every message in the order    *)
(* they are sent.                                                          *)
(***************************************************************************)
EXTENDS Integers, Sequences, FiniteSets, FiniteSetsExt

CONSTANTS
    Questions, Topics,   \* ids; Uuid::new_v4 never repeats one
    Tabs,                \* connections with the guest role
    Hosts,               \* connections with the host role
    Guests,              \* guest ids
    OwnerOf,             \* the guest id of each tab: two tabs may share one
    NoOne,               \* not a guest id
    MaxBatch,            \* writer::MAX_BATCH_SIZE
    MaxQueue,            \* bound of the model on operations sent and not applied
    MaxBegun             \* bound of the model on handlers begun

Items  == Questions \cup Topics
Actors == Tabs \cup Hosts

ASSUME VotesAssumption ==
    /\ Questions \cap Topics = {}
    /\ Tabs \cap Hosts = {}
    /\ OwnerOf \in [Tabs -> Guests]
    /\ IsFiniteSet(Tabs) /\ IsFiniteSet(Guests)
    /\ NoOne \notin Guests
    /\ MaxBatch \in Nat \ {0}
    /\ MaxQueue \in Nat \ {0}
    /\ MaxBegun \in Nat

VARIABLES
    listed,    \* the keys of RoomInner.questions and RoomInner.topics
    answered,  \* questions marked answered
    count,     \* vote_count of what is listed
    index,     \* vote_index and topic_vote_index: the voters of each id; an
               \* absent entry and an empty one are the same to every reader
    used,      \* ids that were given out
    begun,     \* how many handlers changed the room so far, up to MaxBegun
    job,       \* what each connection's handler has yet to do
    queue,     \* the mpsc channel to the writer
    applied,   \* how many operations the open transaction holds
    work,      \* the tables as the transaction sees them
    db,        \* the committed tables
    shown,     \* the count a browser shows for each question it lists
    mine,      \* what the browsers of each guest take to be voted for
    crossed,   \* history: <<item, with>> if two handlers on the item
               \* overlapped, since the last restart
    lost       \* history: a batch was aborted since the last restart

roomVars  == <<listed, answered, count, index, used>>
tableVars == <<queue, applied, work, db>>
viewVars  == <<shown, mine>>
vars      == <<roomVars, begun, job, tableVars, viewVars, crossed, lost>>

Idle == [step |-> "idle"]

Msg ==    [kind : {"added", "gone"}, item : Questions]
     \cup [kind : {"tree"}]
     \cup [kind : {"count"}, item : Items, votes : Nat, by : Guests]
     \cup [kind : {"updated"}, item : Questions, votes : Nat]

Op ==    [kind : {"add", "delete"}, item : Items]
    \cup [kind : {"vote", "unvote"}, item : Items, by : Guests]
    \cup [kind : {"answered"}, item : Questions, to : BOOLEAN]
    \cup [kind : {"promote"}, item : Questions, topic : Topics]

Job ==    {Idle}
     \cup [step : {"copied"}, on : SUBSET Items, item : Questions, votes : Nat, to : BOOLEAN]
     \cup [step : {"tell"}, on : SUBSET Items, msg : Msg, op : Op]
     \cup [step : {"save"}, on : SUBSET Items, op : Op]

Tables == [rows : SUBSET Items, answered : SUBSET Questions,
           votes : [Items -> SUBSET Guests]]

\* With whom a handler overlapped: another tab of the same guest, a tab of
\* another guest, a host, or nobody: what it voted for was not there.
Overlaps == {"self", "guest", "host", "gone"}

TypeOK ==
    /\ listed \subseteq Items
    /\ answered \subseteq Questions
    /\ count \in [Items -> Nat]
    /\ index \in [Items -> SUBSET Guests]
    /\ used \subseteq Items
    /\ begun \in 0..MaxBegun
    /\ job \in [Actors -> Job]
    /\ queue \in Seq(Op)
    /\ applied \in 0..MaxBatch
    /\ work \in Tables
    /\ db \in Tables
    /\ DOMAIN shown \subseteq Questions
    /\ \A q \in DOMAIN shown : shown[q] \in Nat
    /\ mine \in [Guests -> SUBSET Items]
    /\ crossed \subseteq Items \X Overlaps
    /\ lost \in BOOLEAN

NewTables == [rows |-> {}, answered |-> {}, votes |-> [x \in Items |-> {}]]

Init ==
    /\ listed = {}
    /\ answered = {}
    /\ count = [x \in Items |-> 0]
    /\ index = [x \in Items |-> {}]
    /\ used = {}
    /\ begun = 0
    /\ job = [a \in Actors |-> Idle]
    /\ queue = <<>>
    /\ applied = 0
    /\ work = NewTables
    /\ db = NewTables
    /\ shown = [q \in {} |-> 0]
    /\ mine = [g \in Guests |-> {}]
    /\ crossed = {}
    /\ lost = FALSE

-----------------------------------------------------------------------------
(***************************************************************************)
(* The first half of a handler: the change, under the room's lock.         *)
(***************************************************************************)
Owner(a) == IF a \in Tabs THEN OwnerOf[a] ELSE NoOne

Overlap(a, b) ==
    IF a \in Hosts \/ b \in Hosts THEN "host"
    ELSE IF Owner(a) = Owner(b) THEN "self" ELSE "guest"

On(b, x) == job[b] # Idle /\ x \in job[b].on

\* Handlers of others that are under way on one of xs when a touches it, and
\* a guest's vote for what is given out and not listed.
Meets(a, xs) ==
    {m \in xs \X Overlaps :
        \/ m[2] = "gone" /\ m[1] \in used \ listed
        \/ \E b \in Actors \ {a} : On(b, m[1]) /\ m[2] = Overlap(a, b)}

Begin(a, next) ==
    /\ job[a] = Idle
    /\ begun < MaxBegun
    /\ begun' = begun + 1
    /\ job' = [job EXCEPT ![a] = next]
    /\ crossed' = crossed \cup Meets(a, next.on)

Tell(xs, msg, op) == [step |-> "tell", on |-> xs, msg |-> msg, op |-> op]

Added(q) == [kind |-> "added", item |-> q]
Gone(q)  == [kind |-> "gone", item |-> q]
Tree     == [kind |-> "tree"]

\* Room::add_question and Room::add_topic
Insert(x) ==
    /\ x \in Items \ used
    /\ listed' = listed \cup {x}
    /\ count' = [count EXCEPT ![x] = 0]
    /\ used' = used \cup {x}
    /\ UNCHANGED <<answered, index>>

SubmitQuestion(a, q) ==
    /\ Insert(q)
    /\ Begin(a, Tell({q}, Added(q), [kind |-> "add", item |-> q]))
    /\ UNCHANGED <<tableVars, viewVars, lost>>

AddTopic(h, t) ==
    /\ Insert(t)
    /\ Begin(h, Tell({t}, Tree, [kind |-> "add", item |-> t]))
    /\ UNCHANGED <<tableVars, viewVars, lost>>

\* Room::delete_question and Room::delete_topic: the index goes as well.
Remove(xs) ==
    /\ listed' = listed \ xs
    /\ answered' = answered \ xs
    /\ count' = [x \in Items |-> IF x \in xs THEN 0 ELSE count[x]]
    /\ index' = [x \in Items |-> IF x \in xs THEN {} ELSE index[x]]
    /\ UNCHANGED used

DeleteQuestion(h, q) ==
    /\ q \in listed
    /\ Remove({q})
    /\ Begin(h, Tell({q}, Gone(q), [kind |-> "delete", item |-> q]))
    /\ UNCHANGED <<tableVars, viewVars, lost>>

\* The code enqueues here before it broadcasts; a Tree says nothing of votes, so
\* nobody tells the order.
DeleteTopic(h, t) ==
    /\ t \in listed
    /\ Remove({t})
    /\ Begin(h, Tell({t}, Tree, [kind |-> "delete", item |-> t]))
    /\ UNCHANGED <<tableVars, viewVars, lost>>

\* Room::promote_question_to_topic, one lock for both.
Promote(h, q, t) ==
    /\ q \in listed
    /\ t \in Topics \ used
    /\ listed' = (listed \ {q}) \cup {t}
    /\ answered' = answered \ {q}
    /\ count' = [count EXCEPT ![q] = 0, ![t] = 0]
    /\ index' = [index EXCEPT ![q] = {}]
    /\ used' = used \cup {t}
    /\ Begin(h, Tell({q, t}, Gone(q), [kind |-> "promote", item |-> q, topic |-> t]))
    /\ UNCHANGED <<tableVars, viewVars, lost>>

\* Mutant: a repeated vote is treated like a new one.
AlwaysChanges(x, g, vote) == TRUE

\* `changed` of Room::vote_question and Room::vote_topic
Changes(x, g, vote) == vote # (g \in index[x])

Voters(x, g, vote) == IF vote THEN index[x] \cup {g} ELSE index[x] \ {g}

\* The two functions are the same but for the map they look into.  A vote for
\* an id that is not there is recorded, too; only one that changes nothing is
\* refused, which like any vote that changes nothing is not a step.
RecordVote(a, x, vote) ==
    LET g == Owner(a)
        voters == Voters(x, g, vote)
        n == Cardinality(voters)
    IN  /\ Changes(x, g, vote)
        /\ index' = [index EXCEPT ![x] = voters]
        /\ count' = [count EXCEPT ![x] = IF x \in listed THEN n ELSE 0]
        /\ Begin(a, Tell({x}, [kind |-> "count", item |-> x, votes |-> n, by |-> g],
                    [kind |-> IF vote THEN "vote" ELSE "unvote", item |-> x, by |-> g]))
        /\ UNCHANGED <<listed, answered, used>>

\* Browsers know only ids that were given out.
VoteQuestion(a, q, vote) ==
    /\ q \in used
    /\ RecordVote(a, q, vote)
    /\ UNCHANGED <<tableVars, viewVars, lost>>

VoteTopic(a, t, vote) ==
    /\ t \in used
    /\ RecordVote(a, t, vote)
    /\ UNCHANGED <<tableVars, viewVars, lost>>

\* Room::get_question
CopyQuestion(h, q, to) ==
    /\ q \in listed
    /\ Begin(h, [step |-> "copied", on |-> {q}, item |-> q, votes |-> count[q], to |-> to])
    /\ UNCHANGED <<roomVars, tableVars, viewVars, lost>>

\* Room::update_question; "question not found" when it is gone meanwhile.
WriteCopyBack(h) ==
    /\ job[h].step = "copied"
    /\ LET c == job[h] IN
       IF c.item \in listed
         THEN /\ answered' = IF c.to THEN answered \cup {c.item} ELSE answered \ {c.item}
              /\ count' = [count EXCEPT ![c.item] = c.votes]
              /\ job' = [job EXCEPT ![h] =
                   Tell({c.item}, [kind |-> "updated", item |-> c.item, votes |-> c.votes],
                        [kind |-> "answered", item |-> c.item, to |-> c.to])]
         ELSE /\ job' = [job EXCEPT ![h] = Idle]
              /\ UNCHANGED <<answered, count>>
    /\ UNCHANGED <<begun, listed, index, used, tableVars, viewVars, crossed, lost>>

-----------------------------------------------------------------------------
(***************************************************************************)
(* The second half: the broadcast and what browsers do with it, then the   *)
(* operation for the writer.                                               *)
(***************************************************************************)
With(f, q, n) == [p \in DOMAIN f \cup {q} |-> IF p = q THEN n ELSE f[p]]

\* Mutant: a deleted question stays listed in the browser.
ShowsGone(msg) ==
    CASE msg.kind = "added" -> With(shown, msg.item, 0)
      [] msg.kind \in {"count", "updated"} /\ msg.item \in DOMAIN shown
                            -> With(shown, msg.item, msg.votes)
      [] OTHER -> shown

\* Mutant: a count lists its item, a topic among the questions.
ShowsAll(msg) ==
    CASE msg.kind = "added" -> With(shown, msg.item, 0)
      [] msg.kind = "gone"  -> [q \in DOMAIN shown \ {msg.item} |-> shown[q]]
      [] msg.kind \in {"count", "updated"} -> With(shown, msg.item, msg.votes)
      [] OTHER -> shown

\* web/src/store/index.ts: a question is listed when it is added, what is not
\* listed is not updated.
Shows(msg) ==
    CASE msg.kind = "added" -> With(shown, msg.item, 0)
      [] msg.kind = "gone"  -> [q \in DOMAIN shown \ {msg.item} |-> shown[q]]
      [] msg.kind \in {"count", "updated"} /\ msg.item \in DOMAIN shown
                            -> With(shown, msg.item, msg.votes)
      [] OTHER -> shown

\* A browser does not learn what its vote is, only that it changed.
Flips(msg) ==
    IF msg.kind = "count"
      THEN [mine EXCEPT ![msg.by] = SymDiff(@, {msg.item})]
      ELSE mine

Broadcast(a) ==
    /\ job[a].step = "tell"
    /\ shown' = Shows(job[a].msg)
    /\ mine' = Flips(job[a].msg)
    /\ job' = [job EXCEPT ![a] = [step |-> "save", on |-> job[a].on, op |-> job[a].op]]
    /\ UNCHANGED <<begun, roomVars, tableVars, crossed, lost>>

Enqueue(a) ==
    /\ job[a].step = "save"
    /\ Len(queue) < MaxQueue
    /\ queue' = Append(queue, job[a].op)
    /\ job' = [job EXCEPT ![a] = Idle]
    /\ UNCHANGED <<begun, roomVars, applied, work, db, viewVars, crossed, lost>>

-----------------------------------------------------------------------------
(***************************************************************************)
(* The writer.                                                             *)
(***************************************************************************)
\* INSERT OR IGNORE does not ignore the foreign key of the votes.
Accepts(tables, op) == op.kind = "vote" => op.item \in tables.rows

\* Mutant: question_votes and topic_votes without ON DELETE CASCADE.
SameVotes(votes, x) == votes

\* ON DELETE CASCADE of the votes
NoVotes(votes, x) == [votes EXCEPT ![x] = {}]

WithoutRow(tables, x) ==
    [rows |-> tables.rows \ {x}, answered |-> tables.answered \ {x},
     votes |-> NoVotes(tables.votes, x)]

\* Mutant: the topic a question is promoted to is not inserted.
Discarded(tables, op) == WithoutRow(tables, op.item)

Promoted(tables, op) ==
    LET t == WithoutRow(tables, op.item) IN [t EXCEPT !.rows = @ \cup {op.topic}]

\* UPDATE of a row that is not there changes nothing.
AnsweredRow(tables, op) ==
    [tables EXCEPT !.answered =
        IF op.item \notin tables.rows THEN @
        ELSE IF op.to THEN @ \cup {op.item} ELSE @ \ {op.item}]

Apply(tables, op) ==
    CASE op.kind = "add"      -> [tables EXCEPT !.rows = @ \cup {op.item}]
      [] op.kind = "delete"   -> WithoutRow(tables, op.item)
      [] op.kind = "vote"     -> [tables EXCEPT !.votes[op.item] = @ \cup {op.by}]
      [] op.kind = "unvote"   -> [tables EXCEPT !.votes[op.item] = @ \ {op.by}]
      [] op.kind = "answered" -> AnsweredRow(tables, op)
      [] op.kind = "promote"  -> Promoted(tables, op)

ApplyOp ==
    /\ queue # <<>>
    /\ applied < MaxBatch
    /\ Accepts(work, Head(queue))
    /\ work' = Apply(work, Head(queue))
    /\ queue' = Tail(queue)
    /\ applied' = applied + 1
    /\ UNCHANGED <<begun, roomVars, job, db, viewVars, crossed, lost>>

CommitBatch ==
    /\ applied > 0
    /\ db' = work
    /\ applied' = 0
    /\ UNCHANGED <<begun, roomVars, job, queue, work, viewVars, crossed, lost>>

\* The failing operation, those before it and those received with it are gone.
AbortBatch ==
    /\ queue # <<>>
    /\ applied < MaxBatch
    /\ ~Accepts(work, Head(queue))
    /\ \E n \in 1..(MaxBatch - applied) :
        /\ n <= Len(queue)
        /\ queue' = SubSeq(queue, n + 1, Len(queue))
    /\ work' = db
    /\ applied' = 0
    /\ lost' = TRUE
    /\ UNCHANGED <<begun, roomVars, job, db, viewVars, crossed>>

Writer == ApplyOp \/ CommitBatch \/ AbortBatch

-----------------------------------------------------------------------------
\* Mutant: a loaded room starts with all counts at zero.
NoTally(votes) == [x \in Items |-> 0]

\* hydrate_room_from_db: vote_count is the number of rows.
Tally(votes) == [x \in Items |-> Cardinality(votes[x])]

\* The process dies; the browsers connect again and take the Welcome.
Restart ==
    /\ listed' = db.rows
    /\ answered' = db.answered
    /\ count' = Tally(db.votes)
    /\ index' = db.votes
    /\ job' = [a \in Actors |-> Idle]
    /\ queue' = <<>>
    /\ applied' = 0
    /\ work' = db
    /\ shown' = [q \in db.rows \cap Questions |-> Cardinality(db.votes[q])]
    /\ mine' = [g \in Guests |-> {x \in Items : g \in db.votes[x]}]
    /\ crossed' = {}
    /\ lost' = FALSE
    /\ UNCHANGED <<begun, used, db>>

GuestStep(a) ==
    \/ \E q \in Questions : SubmitQuestion(a, q)
    \/ \E q \in Questions, vote \in BOOLEAN : VoteQuestion(a, q, vote)
    \/ \E t \in Topics, vote \in BOOLEAN : VoteTopic(a, t, vote)

HostStep(h) ==
    \/ \E q \in Questions : DeleteQuestion(h, q)
    \/ \E q \in Questions, to \in BOOLEAN : CopyQuestion(h, q, to)
    \/ \E q \in Questions, t \in Topics : Promote(h, q, t)
    \/ \E t \in Topics : AddTopic(h, t) \/ DeleteTopic(h, t)
    \/ WriteCopyBack(h)

Next ==
    \/ \E a \in Tabs : GuestStep(a)
    \/ \E h \in Hosts : HostStep(h)
    \/ \E a \in Actors : Broadcast(a) \/ Enqueue(a)
    \/ Writer
    \/ Restart

Spec == Init /\ [][Next]_vars

-----------------------------------------------------------------------------
(***************************************************************************)
(* Properties.                                                             *)
(***************************************************************************)
Busy(x) == \E a \in Actors : On(a, x)

(***************************************************************************)
(* phases.md: "votes = count distinct guests".  Topics never miss one; a   *)
(* question may, but only when mark_question_answered overlapped a vote.   *)
(***************************************************************************)
CountIsVoters ==
    \A x \in listed :
        x \in Topics \/ <<x, "host">> \notin crossed => count[x] = Cardinality(index[x])

(***************************************************************************)
(* A browser that gets every message shows the questions and counts of the *)
(* room, whatever overlapped on other items: a handler whose count is not  *)
(* the room's any more when it is sent must have overlapped on the item.   *)
(***************************************************************************)
CountsShown ==
    \A q \in Questions :
        ~Busy(q) /\ (\A o \in Overlaps : <<q, o>> \notin crossed)
            => /\ q \in DOMAIN shown <=> q \in listed
               /\ q \in listed => shown[q] = count[q]

(***************************************************************************)
(* The store flips the own vote on every VoteUpdated of the own guest id   *)
(* (protocol.md: "the action toggled my vote"): that comes out right even  *)
(* when two tabs of one guest vote against each other and their messages   *)
(* overtake each other.                                                    *)
(***************************************************************************)
OwnVoteShown ==
    \A g \in Guests, x \in listed :
        (\A a \in Tabs : OwnerOf[a] = g => ~On(a, x))
            => (x \in mine[g] <=> g \in index[x])

(***************************************************************************)
(* With no operation under way and no batch lost, a restart would bring    *)
(* back every listed item with its voters, although the handlers of        *)
(* different guests reach the writer in any order; two tabs of one guest   *)
(* may overtake each other.                                                *)
(***************************************************************************)
TalliesStored ==
    (\A a \in Actors : job[a] = Idle) /\ queue = <<>> /\ applied = 0 /\ ~lost
        => \A x \in listed :
              /\ x \in db.rows
              /\ <<x, "self">> \notin crossed => db.votes[x] = index[x]

(***************************************************************************)
(* A batch is only ever lost to a vote: one for something that is gone, or *)
(* one that overlapped the making or the removal of what it is for.  (And  *)
(* to a topic below one that is gone: TopicStore.)                         *)
(***************************************************************************)
LossExplained == lost => crossed # {}

(***************************************************************************)
(* The foreign keys of question_votes and topic_votes: no vote is stored   *)
(* without what it is for, so a restart shows none for what was deleted.   *)
(***************************************************************************)
StoredVotesHaveRows == \A x \in Items : db.votes[x] # {} => x \in db.rows
=============================================================================
