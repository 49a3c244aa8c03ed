----------------------------- MODULE VotesProofs -----------------------------
(***************************************************************************)
(* Counts, stored votes and what a guest takes to be voted for, for any    *)
(* number of tabs, hosts, guests, questions and topics.                    *)
(*                                                                         *)
(* A count is wrong only if a copied question is written back after a vote *)
(* that the copy does not know; such a vote met the copying handler, and   *)
(* has left its mark in `crossed`.  So a copy whose question carries no    *)
(* mark has the right count (Copies), and so has what is written back.     *)
(*                                                                         *)
(* What a guest sees of its own vote is the room's if an even number of    *)
(* its flips is still to be broadcast (Flipping): each vote that changes   *)
(* something makes one, and browsers apply them in any order.              *)
(*                                                                         *)
(* What browsers show of a question is the room's, or will be with the     *)
(* message of the one handler that is on it (InStep).                      *)
(*                                                                         *)
(* What a restart would bring back is the room's when nothing is under     *)
(* way, and only an overlap costs a batch (StoredInv, last section).       *)
(***************************************************************************)
EXTENDS Votes, FiniteSetTheorems, TLAPS

Rooted(t) == \A x \in Items : t.votes[x] # {} => x \in t.rows

Known(op) == op.item \in used /\ (op.kind = "promote" => op.topic \in used)

\* Nothing is about an id that was not given out.
UsedOnly ==
    /\ listed \subseteq used
    /\ \A x \in Items \ used : index[x] = {} /\ \A g \in Guests : x \notin mine[g]
    /\ work.rows \subseteq used /\ db.rows \subseteq used
    /\ \A a \in Actors : /\ job[a].step \in {"tell", "save"} => Known(job[a].op)
                         /\ job[a].step # "idle" => job[a].on \subseteq used
    /\ \A i \in 1..Len(queue) : Known(queue[i])

Copies ==
    \A a \in Actors : job[a].step = "copied" =>
        /\ a \in Hosts
        /\ job[a].item \in job[a].on
        /\ job[a].item \in listed /\ <<job[a].item, "host">> \notin crossed
              => job[a].votes = Cardinality(index[job[a].item])

Flips1(a, g, x) ==
    /\ job[a].step = "tell" /\ job[a].msg.kind = "count"
    /\ job[a].msg.item = x /\ job[a].msg.by = g

\* Only a tab of the guest itself has such a message to send.
Tellers ==
    \A a \in Actors, g \in Guests, x \in Items : Flips1(a, g, x) =>
        a \in Tabs /\ OwnerOf[a] = g /\ x \in job[a].on

Owing(g, x) == {a \in Tabs : Flips1(a, g, x)}

Odd(S) == Cardinality(S) % 2 = 1

Flipping ==
    \A g \in Guests, x \in listed :
        Odd(Owing(g, x)) <=> ~(x \in mine[g] <=> g \in index[x])

IInv == /\ TypeOK /\ UsedOnly /\ Rooted(work) /\ Rooted(db)
        /\ Copies /\ CountIsVoters /\ Tellers /\ Flipping

-----------------------------------------------------------------------------
(***************************************************************************)
(* Shapes.                                                                 *)
(***************************************************************************)
LEMMA JobShapes ==
    ASSUME NEW j \in Job
    PROVE  /\ j.step \in {"idle", "copied", "tell", "save"}
           /\ j.step = "idle" => j = Idle
           /\ j.step = "copied" => /\ j.on \subseteq Items /\ j.item \in Questions
                                   /\ j.votes \in Nat /\ j.to \in BOOLEAN
           /\ j.step = "tell" => j.on \subseteq Items /\ j.msg \in Msg /\ j.op \in Op
           /\ j.step = "save" => j.on \subseteq Items /\ j.op \in Op
<1> USE DEF Idle
<1>1. CASE j \in {Idle}
  BY <1>1
<1>2. CASE j \in [step : {"copied"}, on : SUBSET Items, item : Questions, votes : Nat, to : BOOLEAN]
  BY <1>2
<1>3. CASE j \in [step : {"tell"}, on : SUBSET Items, msg : Msg, op : Op]
  BY <1>3
<1>4. CASE j \in [step : {"save"}, on : SUBSET Items, op : Op]
  BY <1>4
<1> QED
  BY <1>1, <1>2, <1>3, <1>4 DEF Job

LEMMA OpShapes ==
    ASSUME NEW op \in Op
    PROVE  /\ op.kind \in {"add", "delete", "vote", "unvote", "answered", "promote"}
           /\ op.item \in Items
           /\ op.kind \in {"vote", "unvote"} => op.by \in Guests
           /\ op.kind = "answered" => op.item \in Questions /\ op.to \in BOOLEAN
           /\ op.kind = "promote" => op.item \in Questions /\ op.topic \in Topics
<1> USE DEF Items
<1>1. CASE op \in [kind : {"add", "delete"}, item : Items]
  BY <1>1
<1>2. CASE op \in [kind : {"vote", "unvote"}, item : Items, by : Guests]
  BY <1>2
<1>3. CASE op \in [kind : {"answered"}, item : Questions, to : BOOLEAN]
  BY <1>3
<1>4. CASE op \in [kind : {"promote"}, item : Questions, topic : Topics]
  BY <1>4
<1> QED
  BY <1>1, <1>2, <1>3, <1>4 DEF Op

LEMMA MsgShapes ==
    ASSUME NEW m \in Msg
    PROVE  /\ m.kind \in {"added", "gone", "tree", "count", "updated"}
           /\ m.kind \in {"added", "gone"} => m.item \in Questions
           /\ m.kind = "count" => m.item \in Items /\ m.votes \in Nat /\ m.by \in Guests
           /\ m.kind = "updated" => m.item \in Questions /\ m.votes \in Nat
<1>1. CASE m \in [kind : {"added", "gone"}, item : Questions]
  BY <1>1
<1>2. CASE m \in [kind : {"tree"}]
  BY <1>2
<1>3. CASE m \in [kind : {"count"}, item : Items, votes : Nat, by : Guests]
  BY <1>3
<1>4. CASE m \in [kind : {"updated"}, item : Questions, votes : Nat]
  BY <1>4
<1> QED
  BY <1>1, <1>2, <1>3, <1>4 DEF Msg

LEMMA TablesShape ==
    ASSUME NEW t \in Tables
    PROVE  /\ t.rows \subseteq Items /\ t.answered \subseteq Questions
           /\ t.votes \in [Items -> SUBSET Guests]
           /\ t = [rows |-> t.rows, answered |-> t.answered, votes |-> t.votes]
  BY DEF Tables

\* What the writer makes of the tables.
LEMMA Applied ==
    ASSUME NEW t \in Tables, NEW op \in Op, Rooted(t), Accepts(t, op)
    PROVE  /\ Apply(t, op) \in Tables
           /\ Rooted(Apply(t, op))
           /\ Apply(t, op).rows \subseteq t.rows \cup {op.item} \cup
                 (IF op.kind = "promote" THEN {op.topic} ELSE {})
<1> USE OpShapes, TablesShape DEF Apply, Tables, Rooted
<1>w. ASSUME NEW x \in Items
      PROVE  /\ WithoutRow(t, x) \in Tables
             /\ Rooted(WithoutRow(t, x))
             /\ WithoutRow(t, x).rows = t.rows \ {x}
  BY DEF WithoutRow, NoVotes
<1>1. CASE op.kind = "add"
  BY <1>1
<1>2. CASE op.kind = "delete"
  BY <1>2, <1>w
<1>3. CASE op.kind = "vote"
  <2>1. op.item \in t.rows
    BY <1>3 DEF Accepts
  <2> QED
    BY <1>3, <2>1
<1>4. CASE op.kind = "unvote"
  BY <1>4
<1>5. CASE op.kind = "answered"
  BY <1>5 DEF AnsweredRow
<1>6. CASE op.kind = "promote"
  <2> DEFINE u == WithoutRow(t, op.item)
  <2>1. u \in Tables /\ Rooted(u) /\ u.rows = t.rows \ {op.item}
    BY <1>6, <1>w DEF Items
  <2> HIDE DEF u
  <2>2. Apply(t, op) = [u EXCEPT !.rows = @ \cup {op.topic}]
    BY <1>6 DEF Promoted, u
  <2>3. op.topic \in Items
    BY <1>6 DEF Items
  <2> QED
    BY <1>6, <2>1, <2>2, <2>3
<1> QED
  BY <1>1, <1>2, <1>3, <1>4, <1>5, <1>6

-----------------------------------------------------------------------------
(***************************************************************************)
(* The first half of a handler touches what it is under way on.            *)
(***************************************************************************)
LEMMA Begun ==
    ASSUME TypeOK, NEW a \in Actors, NEW next \in Job, next.step # "idle", Begin(a, next)
    PROVE  /\ job[a] = Idle
           /\ begun' \in 0..MaxBegun
           /\ job' \in [Actors -> Job]
           /\ job'[a] = next
           /\ \A b \in Actors \ {a} : job'[b] = job[b]
           /\ crossed \subseteq crossed' /\ crossed' \subseteq Items \X Overlaps
           /\ \A b \in Actors \ {a}, x \in next.on :
                 job[b] # Idle /\ x \in job[b].on => <<x, Overlap(a, b)>> \in crossed'
<1>1. next.on \subseteq Items
  BY JobShapes
<1>2. begun' \in 0..MaxBegun
  BY VotesAssumption DEF Begin, TypeOK
<1>3. Meets(a, next.on) \subseteq Items \X Overlaps
  BY <1>1 DEF Meets
<1>4. \A b \in Actors \ {a}, x \in next.on :
         job[b] # Idle /\ x \in job[b].on => <<x, Overlap(a, b)>> \in Meets(a, next.on)
  BY DEF Meets, On, Overlap, Overlaps
<1> QED
  BY <1>2, <1>3, <1>4 DEF Begin, TypeOK

\* Adding a message to those a guest still owes, or taking one away.
LEMMA OddFlips ==
    ASSUME NEW S, IsFiniteSet(S), NEW b
    PROVE  /\ b \notin S => (Odd(S \cup {b}) <=> ~Odd(S))
           /\ b \in S => (Odd(S \ {b}) <=> ~Odd(S))
<1>1. Cardinality(S) \in Nat
  BY FS_CardinalityType
<1>2. b \notin S => Cardinality(S \cup {b}) = Cardinality(S) + 1
  BY FS_AddElement
<1>3. b \in S => Cardinality(S \ {b}) = Cardinality(S) - 1
  BY FS_RemoveElement
<1> QED
  BY <1>1, <1>2, <1>3 DEF Odd

LEMMA NoneOdd == ~Odd({})
  BY FS_EmptySet DEF Odd

LEMMA OwingFinite == \A g \in Guests, x \in Items : IsFiniteSet(Owing(g, x))
  BY VotesAssumption, FS_Subset DEF Owing

LEMMA BeginStep ==
    ASSUME IInv, NEW a \in Actors, NEW next \in Job, Begin(a, next),
           next.step \in {"copied", "tell"},
           UNCHANGED <<queue, applied, work, db, shown, mine, lost>>,
           used \subseteq used', used' \subseteq Items, next.on \subseteq used',
           next.step = "tell" => Known(next.op)',
           listed' \subseteq used', answered' \subseteq Questions,
           count' \in [Items -> Nat], index' \in [Items -> SUBSET Guests],
           \A x \in Items \ next.on : /\ x \in listed' <=> x \in listed
                                      /\ count'[x] = count[x] /\ index'[x] = index[x],
           \A x \in next.on \cap listed' :
               /\ x \in listed \/ (x \notin used /\ index'[x] = {})
               /\ \/ count'[x] = Cardinality(index'[x])
                  \/ x \in listed /\ count'[x] = count[x] /\ index'[x] = index[x],
           next.step = "copied" =>
               /\ a \in Hosts /\ next.item \in next.on \cap listed
               /\ next.votes = count[next.item] /\ UNCHANGED <<listed, count, index>>,
           next.step = "tell" =>
               \/ /\ next.msg.kind # "count"
                  /\ \A x \in next.on \cap listed' : x \in listed => index'[x] = index[x]
               \/ /\ next.msg.kind = "count" /\ a \in Tabs /\ next.msg.by = OwnerOf[a]
                  /\ next.on = {next.msg.item}
                  /\ index'[next.msg.item] = SymDiff(index[next.msg.item], {OwnerOf[a]})
                  /\ next.msg.item \in used
    PROVE  IInv'
<1> USE DEF IInv
<1>1. /\ job[a] = Idle
      /\ begun' \in 0..MaxBegun
      /\ job' \in [Actors -> Job]
      /\ job'[a] = next
      /\ \A b \in Actors \ {a} : job'[b] = job[b]
      /\ crossed \subseteq crossed' /\ crossed' \subseteq Items \X Overlaps
      /\ \A b \in Actors \ {a}, x \in next.on :
            job[b] # Idle /\ x \in job[b].on => <<x, Overlap(a, b)>> \in crossed'
  BY Begun
<1>2. TypeOK'
  BY <1>1 DEF TypeOK
<1>3. UsedOnly'
  <2>1. \A x \in Items \ used' : index'[x] = {} /\ \A g \in Guests : x \notin mine'[g]
    BY DEF UsedOnly
  <2>2. ASSUME NEW b \in Actors
        PROVE  (/\ job[b].step \in {"tell", "save"} => Known(job[b].op)
                /\ job[b].step # "idle" => job[b].on \subseteq used)'
    BY <1>1 DEF UsedOnly, Known
  <2>3. (\A i \in 1..Len(queue) : Known(queue[i]))'
    BY DEF UsedOnly, Known
  <2>4. work.rows \subseteq used' /\ db.rows \subseteq used'
    BY DEF UsedOnly
  <2> QED
    BY <2>1, <2>2, <2>3, <2>4 DEF UsedOnly
<1>4. Copies'
  <2> SUFFICES ASSUME NEW b \in Actors, job'[b].step = "copied"
               PROVE  /\ b \in Hosts
                      /\ job'[b].item \in job'[b].on
                      /\ job'[b].item \in listed' /\ <<job'[b].item, "host">> \notin crossed'
                            => job'[b].votes = Cardinality(index'[job'[b].item])
    BY DEF Copies
  <2>1. CASE b = a
    <3>1. next.item \in Questions
      BY <1>1, <2>1, JobShapes
    <3> QED
      BY <1>1, <2>1, <3>1, VotesAssumption DEF CountIsVoters
  <2>2. CASE b # a
    <3>1. /\ job'[b] = job[b] /\ b \in Hosts /\ job[b].item \in job[b].on
          /\ job[b].item \in Items /\ job[b] # Idle
      <4>1. job[b] \in Job /\ job'[b] = job[b] /\ job[b].step = "copied"
        BY <1>1, <2>2 DEF TypeOK
      <4>2. job[b].item \in Questions
        BY <4>1, JobShapes
      <4>3. b \in Hosts /\ job[b].item \in job[b].on
        BY <4>1 DEF Copies
      <4>4. job[b] # Idle
        BY <4>1 DEF Idle
      <4> QED
        BY <4>1, <4>2, <4>3, <4>4 DEF Items
    <3>2. CASE job[b].item \in next.on
      <4>1. <<job[b].item, "host">> \in crossed'
        BY <1>1, <2>2, <3>1, <3>2 DEF Overlap
      <4> QED
        BY <3>1, <4>1
    <3>3. CASE job[b].item \notin next.on
      BY <1>1, <2>2, <3>1, <3>3 DEF Copies
    <3> QED
      BY <3>2, <3>3
  <2> QED
    BY <2>1, <2>2
<1>5. CountIsVoters'
  <2>1. ASSUME NEW x \in listed'
        PROVE  (x \in Topics \/ <<x, "host">> \notin crossed
                  => count[x] = Cardinality(index[x]))'
    <3>1. CASE x \in next.on
      BY <1>1, <3>1 DEF CountIsVoters
    <3>2. CASE x \notin next.on
      BY <1>1, <3>2, <1>2 DEF CountIsVoters, TypeOK
    <3> QED
      BY <3>1, <3>2
  <2> QED
    BY <2>1 DEF CountIsVoters
<1>6. Tellers'
  <2> SUFFICES ASSUME NEW b \in Actors, NEW g \in Guests, NEW x \in Items, Flips1(b, g, x)'
               PROVE  b \in Tabs /\ OwnerOf[b] = g /\ x \in job'[b].on
    BY DEF Tellers
  <2>1. CASE b = a
    BY <1>1, <2>1 DEF Flips1
  <2>2. CASE b # a
    BY <1>1, <2>2 DEF Flips1, Tellers
  <2> QED
    BY <2>1, <2>2
<1>7. Flipping'
  <2> SUFFICES ASSUME NEW g \in Guests, NEW x \in listed'
               PROVE  Odd(Owing(g, x)') <=> ~(x \in mine[g] <=> g \in index'[x])
    BY DEF Flipping
  <2>0. x \in Items /\ a \notin Owing(g, x) /\ IsFiniteSet(Owing(g, x))
    BY <1>1, <1>2, OwingFinite DEF TypeOK, Owing, Flips1, Idle
  <2>1. Owing(g, x)' = IF Flips1(a, g, x)' THEN Owing(g, x) \cup {a} ELSE Owing(g, x)
    <3>1. Flips1(a, g, x)' => a \in Tabs
      BY <1>6, <2>0 DEF Tellers
    <3>2. \A b \in Tabs : b # a => (Flips1(b, g, x)' <=> Flips1(b, g, x))
      BY <1>1 DEF Flips1, Actors
    <3> QED
      BY <2>0, <3>1, <3>2 DEF Owing
  <2>2. Flips1(a, g, x)' <=>
           next.step = "tell" /\ next.msg.kind = "count" /\ next.msg.item = x /\ next.msg.by = g
    BY <1>1 DEF Flips1
  <2>3. CASE Flips1(a, g, x)'
    <3>1. g = OwnerOf[a] /\ index'[x] = SymDiff(index[x], {g}) /\ x \in used /\ x \in next.on
      BY <2>2, <2>3
    <3>2. x \in listed
      BY <3>1
    <3>3. Odd(Owing(g, x)') <=> ~Odd(Owing(g, x))
      BY <2>0, <2>1, <2>3, OddFlips
    <3> QED
      BY <3>1, <3>2, <3>3 DEF Flipping, SymDiff
  <2>4. CASE ~Flips1(a, g, x)'
    <3>1. CASE x \in listed
      <4>1. g \in index'[x] <=> g \in index[x]
        BY <2>0, <2>2, <2>4, <3>1 DEF SymDiff
      <4> QED
        BY <2>1, <2>4, <3>1, <4>1 DEF Flipping
    <3>2. CASE x \notin listed
      <4>1. x \notin used /\ index'[x] = {}
        BY <2>0, <3>2
      <4>2. Owing(g, x) = {}
        BY <2>0, <4>1 DEF Tellers, UsedOnly, Owing, Flips1, Actors
      <4>3. x \notin mine[g]
        BY <2>0, <4>1 DEF UsedOnly
      <4> QED
        BY <2>1, <2>4, <4>1, <4>2, <4>3, NoneOdd
    <3> QED
      BY <3>1, <3>2
  <2> QED
    BY <2>3, <2>4
<1> QED
  BY <1>2, <1>3, <1>4, <1>5, <1>6, <1>7 DEF Rooted

\* Messages and operations as the handlers make them.
LEMMA TellJob ==
    ASSUME NEW xs \in SUBSET Items, NEW m \in Msg, NEW op \in Op
    PROVE  /\ Tell(xs, m, op) \in Job
           /\ Tell(xs, m, op).step = "tell" /\ Tell(xs, m, op).on = xs
           /\ Tell(xs, m, op).msg = m /\ Tell(xs, m, op).op = op
  BY DEF Tell, Job

LEMMA InsertStep ==
    ASSUME IInv, NEW a \in Actors, NEW x \in Items, NEW m \in Msg, m.kind # "count",
           Insert(x), Begin(a, Tell({x}, m, [kind |-> "add", item |-> x])),
           UNCHANGED <<queue, applied, work, db, shown, mine, lost>>
    PROVE  IInv'
<1> DEFINE next == Tell({x}, m, [kind |-> "add", item |-> x])
<1>1. [kind |-> "add", item |-> x] \in Op
  BY DEF Op
<1>2. /\ next \in Job /\ next.step = "tell" /\ next.on = {x} /\ next.msg = m
      /\ next.op = [kind |-> "add", item |-> x]
  BY <1>1, TellJob
<1>3. Begin(a, next)
  OBVIOUS
<1> HIDE DEF next
<1>4. /\ x \notin used /\ used' = used \cup {x} /\ listed' = listed \cup {x}
      /\ answered' = answered /\ index' = index /\ index[x] = {}
      /\ count' = [count EXCEPT ![x] = 0]
  BY DEF Insert, IInv, UsedOnly
<1>5. count' \in [Items -> Nat] /\ count'[x] = Cardinality(index'[x])
  BY <1>4, FS_EmptySet DEF IInv, TypeOK
<1>6. Known(next.op)'
  BY <1>2, <1>4 DEF Known
<1> QED
  BY <1>2, <1>3, <1>4, <1>5, <1>6, BeginStep DEF IInv, TypeOK, UsedOnly

LEMMA RemoveStep ==
    ASSUME IInv, NEW a \in Actors, NEW x \in listed, NEW m \in Msg, m.kind # "count",
           Remove({x}), Begin(a, Tell({x}, m, [kind |-> "delete", item |-> x])),
           UNCHANGED <<queue, applied, work, db, shown, mine, lost>>
    PROVE  IInv'
<1> DEFINE next == Tell({x}, m, [kind |-> "delete", item |-> x])
<1>0. x \in Items /\ x \in used
  BY DEF IInv, TypeOK, UsedOnly
<1>1. [kind |-> "delete", item |-> x] \in Op
  BY <1>0 DEF Op
<1>2. /\ next \in Job /\ next.step = "tell" /\ next.on = {x} /\ next.msg = m
      /\ next.op = [kind |-> "delete", item |-> x]
  BY <1>0, <1>1, TellJob
<1>3. Begin(a, next)
  OBVIOUS
<1> HIDE DEF next
<1>4. /\ used' = used /\ listed' = listed \ {x}
      /\ answered' \subseteq Questions
      /\ count' \in [Items -> Nat] /\ index' \in [Items -> SUBSET Guests]
      /\ \A y \in Items \ {x} : count'[y] = count[y] /\ index'[y] = index[y]
  BY DEF Remove, IInv, TypeOK
<1>5. Known(next.op)'
  BY <1>0, <1>2, <1>4 DEF Known
<1> QED
  BY <1>0, <1>2, <1>3, <1>4, <1>5, BeginStep DEF IInv, TypeOK, UsedOnly

LEMMA PromoteStep ==
    ASSUME IInv, NEW h \in Hosts, NEW q \in Questions, NEW t \in Topics, Promote(h, q, t)
    PROVE  IInv'
<1> DEFINE op   == [kind |-> "promote", item |-> q, topic |-> t]
           next == Tell({q, t}, Gone(q), op)
<1>0. q \in used /\ q \in Items /\ t \in Items /\ t \notin used /\ h \in Actors /\ q # t
  BY DEF Promote, IInv, UsedOnly, Items, Actors
<1>1. op \in Op /\ Gone(q) \in Msg /\ Gone(q).kind # "count"
  BY DEF Op, Msg, Gone
<1>2. /\ next \in Job /\ next.step = "tell" /\ next.on = {q, t} /\ next.msg = Gone(q)
      /\ next.op = op
  BY <1>0, <1>1, TellJob
<1>3. Begin(h, next)
  BY DEF Promote
<1>4. /\ used' = used \cup {t} /\ listed' = (listed \ {q}) \cup {t}
      /\ answered' \subseteq Questions
      /\ count' \in [Items -> Nat] /\ index' \in [Items -> SUBSET Guests]
      /\ count'[t] = 0 /\ index'[t] = index[t]
      /\ \A y \in Items \ {q, t} : count'[y] = count[y] /\ index'[y] = index[y]
  BY <1>0 DEF Promote, IInv, TypeOK
<1>5. index[t] = {} /\ Cardinality(index'[t]) = 0
  BY <1>0, <1>4, FS_EmptySet DEF IInv, UsedOnly
<1>6. UNCHANGED <<queue, applied, work, db, shown, mine, lost>>
  BY DEF Promote, tableVars, viewVars
<1>7. Known(op)'
  BY <1>0, <1>4 DEF Known
<1> HIDE DEF next, op
<1> QED
  BY <1>0, <1>1, <1>2, <1>3, <1>4, <1>5, <1>6, <1>7, BeginStep DEF IInv, TypeOK, UsedOnly

LEMMA VoteStep ==
    ASSUME IInv, NEW a \in Tabs, NEW x \in Items, NEW vote \in BOOLEAN,
           x \in used, RecordVote(a, x, vote),
           UNCHANGED <<queue, applied, work, db, shown, mine, lost>>
    PROVE  IInv'
<1> DEFINE g    == OwnerOf[a]
           n    == Cardinality(Voters(x, g, vote))
           m    == [kind |-> "count", item |-> x, votes |-> n, by |-> g]
           op   == [kind |-> IF vote THEN "vote" ELSE "unvote", item |-> x, by |-> g]
           next == Tell({x}, m, op)
<1>0. a \in Actors /\ g \in Guests /\ Owner(a) = g
  BY VotesAssumption DEF Actors, Owner
<1>1. /\ Voters(x, g, vote) \in SUBSET Guests /\ n \in Nat
      /\ Voters(x, g, vote) = SymDiff(index[x], {g})
  <2>1. Changes(x, g, vote)
    BY <1>0 DEF RecordVote
  <2>2. index[x] \subseteq Guests
    BY DEF IInv, TypeOK
  <2>3. Voters(x, g, vote) = SymDiff(index[x], {g})
    <3>1. CASE vote = TRUE
      BY <2>1, <3>1 DEF Changes, Voters, SymDiff
    <3>2. CASE vote = FALSE
      BY <2>1, <3>2 DEF Changes, Voters, SymDiff
    <3> QED
      BY <3>1, <3>2
  <2>4. Voters(x, g, vote) \in SUBSET Guests
    BY <1>0, <2>2 DEF Voters
  <2> QED
    BY <2>3, <2>4, VotesAssumption, FS_Subset, FS_CardinalityType
<1>2. m \in Msg /\ m.kind = "count" /\ m.item = x /\ m.by = g
  BY <1>0, <1>1 DEF Msg
<1>3. op \in Op /\ op.item = x /\ op.kind # "promote"
  BY <1>0 DEF Op
<1>4. next \in Job /\ next.step = "tell" /\ next.on = {x} /\ next.msg = m /\ next.op = op
  BY <1>2, <1>3, TellJob
<1>5. Begin(a, next)
  BY <1>0 DEF RecordVote
<1>6. /\ UNCHANGED <<listed, answered, used>>
      /\ index' = [index EXCEPT ![x] = Voters(x, g, vote)]
      /\ count' = [count EXCEPT ![x] = IF x \in listed THEN n ELSE 0]
  BY <1>0 DEF RecordVote
<1>7. Known(op)'
  BY <1>3, <1>6 DEF Known
<1> HIDE DEF next, op, m
<1>8. /\ count' \in [Items -> Nat] /\ index' \in [Items -> SUBSET Guests]
      /\ index'[x] = SymDiff(index[x], {g})
      /\ x \in listed => count'[x] = Cardinality(index'[x])
      /\ \A y \in Items \ {x} : count'[y] = count[y] /\ index'[y] = index[y]
  BY <1>1, <1>6 DEF IInv, TypeOK
<1>9. /\ used' \subseteq Items /\ listed' \subseteq used' /\ answered' \subseteq Questions
      /\ used \subseteq used' /\ next.on \subseteq used'
      /\ \A y \in Items : y \in listed' <=> y \in listed
  BY <1>4, <1>6 DEF IInv, TypeOK, UsedOnly
<1>10. \A y \in next.on \cap listed' :
          y \in listed /\ count'[y] = Cardinality(index'[y])
  BY <1>4, <1>6, <1>8
<1> HIDE DEF g, n
<1>11. /\ next.msg.kind = "count" /\ next.msg.by = OwnerOf[a]
       /\ next.on = {next.msg.item} /\ next.msg.item \in used
       /\ index'[next.msg.item] = SymDiff(index[next.msg.item], {OwnerOf[a]})
  BY <1>2, <1>4, <1>8 DEF g
<1> QED
  BY <1>0, <1>4, <1>5, <1>7, <1>8, <1>9, <1>10, <1>11, BeginStep

LEMMA CopyStep ==
    ASSUME IInv, NEW h \in Hosts, NEW q \in Questions, NEW to \in BOOLEAN,
           CopyQuestion(h, q, to)
    PROVE  IInv'
<1> DEFINE next == [step |-> "copied", on |-> {q}, item |-> q, votes |-> count[q], to |-> to]
<1>1. q \in listed /\ q \in used /\ q \in Items /\ h \in Actors
  BY DEF CopyQuestion, IInv, UsedOnly, Items, Actors
<1>2. next \in Job
  BY <1>1 DEF Job, IInv, TypeOK
<1>3. Begin(h, next)
  BY DEF CopyQuestion
<1>4. UNCHANGED <<listed, answered, count, index, used>>
      /\ UNCHANGED <<queue, applied, work, db, shown, mine, lost>>
  BY DEF CopyQuestion, roomVars, tableVars, viewVars
<1>5. /\ next.step = "copied" /\ next.on = {q} /\ next.item = q /\ next.votes = count[q]
  OBVIOUS
<1> HIDE DEF next
<1> QED
  BY <1>1, <1>2, <1>3, <1>4, <1>5, BeginStep DEF IInv, TypeOK, UsedOnly

-----------------------------------------------------------------------------
(***************************************************************************)
(* The second half, the writer and the restart.                            *)
(***************************************************************************)
\* A handler that goes on with an operation it was to send anyway.
LEMMA GoesOn ==
    ASSUME TypeOK, NEW a \in Actors, NEW next, job' = [job EXCEPT ![a] = next]
    PROVE  job'[a] = next /\ \A b \in Actors \ {a} : job'[b] = job[b]
  BY DEF TypeOK

LEMMA WriteBackStep ==
    ASSUME IInv, NEW h \in Hosts, WriteCopyBack(h)
    PROVE  IInv'
<1> DEFINE c == job[h]
<1>0. /\ h \in Actors /\ c \in Job /\ c.step = "copied"
      /\ c.on \subseteq Items /\ c.item \in Questions /\ c.votes \in Nat /\ c.to \in BOOLEAN
      /\ c.item \in c.on /\ c.on \subseteq used
  BY JobShapes DEF WriteCopyBack, IInv, TypeOK, Actors, Copies, UsedOnly
<1>1. UNCHANGED <<begun, listed, index, used, queue, applied, work, db, shown, mine, crossed, lost>>
  BY DEF WriteCopyBack, tableVars, viewVars
<1>2. c.item \in Items /\ c.item \notin Topics
  BY <1>0, VotesAssumption DEF Items
<1> DEFINE m  == [kind |-> "updated", item |-> c.item, votes |-> c.votes]
           op == [kind |-> "answered", item |-> c.item, to |-> c.to]
<1>3. CASE c.item \in listed
  <2>1. m \in Msg /\ m.kind = "updated" /\ op \in Op /\ op.item = c.item /\ op.kind = "answered"
    BY <1>0, <1>2 DEF Msg, Op
  <2>2. /\ Tell({c.item}, m, op) \in Job
        /\ Tell({c.item}, m, op).step = "tell" /\ Tell({c.item}, m, op).on = {c.item}
        /\ Tell({c.item}, m, op).msg = m /\ Tell({c.item}, m, op).op = op
    BY <1>2, <2>1, TellJob
  <2>3. /\ answered' \subseteq Questions
        /\ count' = [count EXCEPT ![c.item] = c.votes]
        /\ job' = [job EXCEPT ![h] = Tell({c.item}, m, op)]
    BY <1>0, <1>3 DEF WriteCopyBack, IInv, TypeOK
  <2> HIDE DEF c, m, op
  <2>4. job'[h] = Tell({c.item}, m, op) /\ \A b \in Actors \ {h} : job'[b] = job[b]
    BY <1>0, <2>3, GoesOn DEF IInv
  <2>5. TypeOK'
    BY <1>0, <1>1, <1>2, <2>2, <2>3 DEF IInv, TypeOK
  <2>6. UsedOnly'
    <3>1. ASSUME NEW b \in Actors
          PROVE  (/\ job[b].step \in {"tell", "save"} => Known(job[b].op)
                  /\ job[b].step # "idle" => job[b].on \subseteq used)'
      <4>1. CASE b = h
        <5>1. c.item \in used /\ used' = used
          BY <1>0, <1>1
        <5> QED
          BY <1>1, <2>1, <2>2, <2>4, <4>1, <5>1 DEF Known
      <4>2. CASE b # h
        BY <1>1, <2>4, <4>2 DEF IInv, UsedOnly, Known
      <4> QED
        BY <4>1, <4>2
    <3>2. (\A i \in 1..Len(queue) : Known(queue[i]))'
      BY <1>1 DEF IInv, UsedOnly, Known
    <3> QED
      BY <1>1, <3>1, <3>2 DEF IInv, UsedOnly
  <2>7. Copies'
    BY <1>1, <2>2, <2>4 DEF IInv, Copies
  <2>8. CountIsVoters'
    BY <1>0, <1>1, <1>2, <2>3, <1>3 DEF IInv, CountIsVoters, Copies, TypeOK, c
  <2>9. \A b \in Actors, g \in Guests, x \in Items : Flips1(b, g, x)' <=> Flips1(b, g, x)
    BY <1>0, <2>1, <2>2, <2>4 DEF Flips1, c
  <2>10. Tellers'
    BY <1>0, <2>4, <2>9 DEF IInv, Tellers, Flips1, c
  <2>11. Flipping'
    <3>1. \A g \in Guests, x \in Items : Owing(g, x)' = Owing(g, x)
      BY <2>9 DEF Owing, Actors
    <3> QED
      BY <1>1, <3>1 DEF IInv, Flipping, TypeOK
  <2> QED
    BY <1>1, <2>5, <2>6, <2>7, <2>8, <2>10, <2>11 DEF IInv, Rooted
<1>4. CASE c.item \notin listed
  <2>1. /\ UNCHANGED <<answered, count>> /\ job' = [job EXCEPT ![h] = Idle]
        /\ Idle \in Job /\ Idle.step = "idle"
    BY <1>4 DEF WriteCopyBack, Job, Idle
  <2>2. job'[h] = Idle /\ \A b \in Actors \ {h} : job'[b] = job[b]
    BY <1>0, <2>1, GoesOn DEF IInv
  <2>3. TypeOK'
    BY <1>0, <1>1, <2>1 DEF IInv, TypeOK
  <2>4. UsedOnly'
    BY <1>1, <2>1, <2>2 DEF IInv, UsedOnly, Known
  <2>5. Copies'
    BY <1>1, <2>1, <2>2 DEF IInv, Copies
  <2>6. \A b \in Actors, g \in Guests, x \in Items : Flips1(b, g, x)' <=> Flips1(b, g, x)
    BY <1>0, <2>1, <2>2 DEF Flips1
  <2>7. Tellers'
    BY <1>0, <2>1, <2>2, <2>6 DEF IInv, Tellers, Flips1
  <2>8. Flipping'
    <3>1. \A g \in Guests, x \in Items : Owing(g, x)' = Owing(g, x)
      BY <2>6 DEF Owing, Actors
    <3> QED
      BY <1>1, <3>1 DEF IInv, Flipping, TypeOK
  <2>9. CountIsVoters'
    BY <1>1, <2>1 DEF IInv, CountIsVoters
  <2> QED
    BY <1>1, <2>3, <2>4, <2>5, <2>7, <2>8, <2>9 DEF IInv, Rooted
<1> QED
  BY <1>3, <1>4

LEMMA BroadcastStep ==
    ASSUME IInv, NEW a \in Actors, Broadcast(a)
    PROVE  IInv'
<1> DEFINE j    == job[a]
           m    == j.msg
           next == [step |-> "save", on |-> j.on, op |-> j.op]
<1>0. /\ j \in Job /\ j.step = "tell" /\ j.on \subseteq Items /\ m \in Msg /\ j.op \in Op
      /\ j.on \subseteq used /\ Known(j.op)
  BY JobShapes DEF Broadcast, IInv, TypeOK, UsedOnly
<1>1. /\ UNCHANGED <<begun, listed, answered, count, index, used, queue, applied, work, db>>
      /\ UNCHANGED <<crossed, lost>>
      /\ shown' = Shows(m) /\ mine' = Flips(m)
  BY DEF Broadcast, roomVars, tableVars
<1>2. /\ next \in Job /\ next.step = "save" /\ next.on = j.on /\ next.op = j.op
      /\ job' = [job EXCEPT ![a] = next]
  BY <1>0 DEF Job, Broadcast
<1> HIDE DEF next
<1>3. job'[a] = next /\ \A b \in Actors \ {a} : job'[b] = job[b]
  BY <1>2, GoesOn DEF IInv
<1> HIDE DEF m
<1>4. m.kind = "count" =>
         /\ a \in Tabs /\ m.by \in Guests /\ OwnerOf[a] = m.by
         /\ m.item \in Items /\ m.item \in j.on
         /\ mine' = [mine EXCEPT ![m.by] = SymDiff(mine[m.by], {m.item})]
  <2> HAVE m.kind = "count"
  <2>1. m.by \in Guests /\ m.item \in Items
    BY <1>0, MsgShapes
  <2>2. Flips1(a, m.by, m.item)
    BY <1>0 DEF Flips1, m
  <2> QED
    BY <1>1, <2>1, <2>2 DEF Flips, Tellers, IInv
<1>5. m.kind # "count" => mine' = mine
  BY <1>1 DEF Flips
<1> HIDE DEF j
<1>6. TypeOK'
  <2>1. mine' \in [Guests -> SUBSET Items]
    BY <1>4, <1>5 DEF IInv, TypeOK, SymDiff
  <2>2. DOMAIN shown' \subseteq Questions /\ \A q \in DOMAIN shown' : shown'[q] \in Nat
    <3> USE DEF IInv, TypeOK, Shows, With
    <3>1. CASE m.kind = "added"
      BY <1>0, <1>1, <3>1, MsgShapes
    <3>2. CASE m.kind = "gone"
      BY <1>0, <1>1, <3>2, MsgShapes
    <3>3. CASE m.kind \in {"count", "updated"}
      BY <1>0, <1>1, <3>3, MsgShapes
    <3>4. CASE m.kind = "tree"
      BY <1>1, <3>4
    <3> QED
      BY <1>0, <3>1, <3>2, <3>3, <3>4, MsgShapes
  <2>3. job' \in [Actors -> Job]
    BY <1>2 DEF IInv, TypeOK
  <2> QED
    BY <1>1, <2>1, <2>2, <2>3 DEF IInv, TypeOK
<1>7. UsedOnly'
  <2>1. \A x \in Items \ used' : index'[x] = {} /\ \A g \in Guests : x \notin mine'[g]
    <3>1. \A x \in Items \ used, g \in Guests : x \notin mine'[g]
      BY <1>0, <1>4, <1>5 DEF IInv, UsedOnly, TypeOK, SymDiff
    <3> QED
      BY <1>1, <3>1 DEF IInv, UsedOnly
  <2>2. ASSUME NEW b \in Actors
        PROVE  (/\ job[b].step \in {"tell", "save"} => Known(job[b].op)
                /\ job[b].step # "idle" => job[b].on \subseteq used)'
    <3>1. CASE b = a
      BY <1>0, <1>1, <1>2, <1>3, <3>1 DEF Known
    <3>2. CASE b # a
      BY <1>1, <1>3, <3>2 DEF IInv, UsedOnly, Known
    <3> QED
      BY <3>1, <3>2
  <2>3. (\A i \in 1..Len(queue) : Known(queue[i]))'
    BY <1>1 DEF IInv, UsedOnly, Known
  <2> QED
    BY <1>1, <2>1, <2>2, <2>3 DEF IInv, UsedOnly
<1>8. Copies' /\ CountIsVoters'
  BY <1>1, <1>2, <1>3 DEF IInv, Copies, CountIsVoters
<1>9. \A b \in Actors, g \in Guests, x \in Items :
         Flips1(b, g, x)' <=> b # a /\ Flips1(b, g, x)
  BY <1>2, <1>3 DEF Flips1
<1>10. Tellers'
  BY <1>3, <1>9 DEF IInv, Tellers
<1>11. Flipping'
  <2> SUFFICES ASSUME NEW g \in Guests, NEW x \in listed
               PROVE  Odd(Owing(g, x)') <=> ~(x \in mine'[g] <=> g \in index[x])
    BY <1>1 DEF Flipping
  <2>0. x \in Items /\ IsFiniteSet(Owing(g, x)) /\ Owing(g, x)' = Owing(g, x) \ {a}
    BY <1>9, OwingFinite DEF IInv, TypeOK, Owing, Actors
  <2>1. CASE m.kind = "count" /\ m.by = g /\ m.item = x
    <3>1. a \in Owing(g, x)
      BY <1>0, <1>4, <2>1 DEF Owing, Flips1, m, j
    <3>2. x \in mine'[g] <=> x \notin mine[g]
      BY <1>4, <2>1 DEF IInv, TypeOK, SymDiff
    <3> QED
      BY <2>0, <3>1, <3>2, OddFlips DEF IInv, Flipping
  <2>2. CASE ~(m.kind = "count" /\ m.by = g /\ m.item = x)
    <3>1. a \notin Owing(g, x)
      BY <2>2 DEF Owing, Flips1, m, j
    <3>2. x \in mine'[g] <=> x \in mine[g]
      BY <1>4, <1>5, <2>2 DEF IInv, TypeOK, SymDiff
    <3> QED
      BY <2>0, <3>1, <3>2 DEF IInv, Flipping
  <2> QED
    BY <2>1, <2>2
<1> QED
  BY <1>1, <1>6, <1>7, <1>8, <1>10, <1>11 DEF IInv, Rooted

LEMMA EnqueueStep ==
    ASSUME IInv, NEW a \in Actors, Enqueue(a)
    PROVE  IInv'
<1>0. /\ job[a].step = "save" /\ job[a].op \in Op /\ Known(job[a].op)
  BY JobShapes DEF Enqueue, IInv, TypeOK, UsedOnly
<1>1. /\ UNCHANGED <<begun, listed, answered, count, index, used, applied, work, db>>
      /\ UNCHANGED <<shown, mine, crossed, lost>>
      /\ queue' = Append(queue, job[a].op)
      /\ job' = [job EXCEPT ![a] = Idle] /\ Idle \in Job /\ Idle.step = "idle"
  BY DEF Enqueue, roomVars, viewVars, Job, Idle
<1>2. job'[a] = Idle /\ \A b \in Actors \ {a} : job'[b] = job[b]
  BY <1>1, GoesOn DEF IInv
<1>3. TypeOK'
  BY <1>0, <1>1 DEF IInv, TypeOK
<1>4. UsedOnly'
  <2>1. ASSUME NEW i \in 1..Len(queue')
        PROVE  Known(queue'[i])
    <3>1. queue \in Seq(Op)
      BY DEF IInv, TypeOK
    <3> QED
      BY <1>0, <1>1, <3>1 DEF IInv, UsedOnly
  <2>2. (\A i \in 1..Len(queue) : Known(queue[i]))'
    BY <1>1, <2>1 DEF Known
  <2>3. ASSUME NEW b \in Actors
        PROVE  (/\ job[b].step \in {"tell", "save"} => Known(job[b].op)
                /\ job[b].step # "idle" => job[b].on \subseteq used)'
    BY <1>1, <1>2 DEF IInv, UsedOnly, Known
  <2> QED
    BY <1>1, <2>2, <2>3 DEF IInv, UsedOnly
<1>5. Copies' /\ CountIsVoters'
  BY <1>1, <1>2 DEF IInv, Copies, CountIsVoters
<1>6. \A b \in Actors, g \in Guests, x \in Items : Flips1(b, g, x)' <=> Flips1(b, g, x)
  BY <1>0, <1>1, <1>2 DEF Flips1
<1>7. Tellers'
  BY <1>1, <1>2, <1>6 DEF IInv, Tellers, Flips1
<1>8. Flipping'
  <2>1. \A g \in Guests, x \in Items : Owing(g, x)' = Owing(g, x)
    BY <1>6 DEF Owing, Actors
  <2> QED
    BY <1>1, <2>1 DEF IInv, Flipping, TypeOK
<1> QED
  BY <1>1, <1>3, <1>4, <1>5, <1>7, <1>8 DEF IInv, Rooted

\* The writer touches neither the room nor what browsers show.
LEMMA RoomAlone ==
    ASSUME IInv, UNCHANGED <<roomVars, job, viewVars, crossed>>
    PROVE  Copies' /\ CountIsVoters' /\ Tellers' /\ Flipping'
<1>1. UNCHANGED <<listed, count, index, job, mine, crossed>>
  BY DEF roomVars, viewVars
<1>2. \A b \in Actors, g \in Guests, x \in Items : Flips1(b, g, x)' <=> Flips1(b, g, x)
  BY <1>1 DEF Flips1
<1>3. \A g \in Guests, x \in Items : Owing(g, x)' = Owing(g, x)
  BY <1>2 DEF Owing, Actors
<1>4. Copies' /\ CountIsVoters'
  BY <1>1 DEF IInv, Copies, CountIsVoters
<1>5. Tellers'
  BY <1>1, <1>2 DEF IInv, Tellers
<1>6. Flipping'
  BY <1>1, <1>3 DEF IInv, Flipping, TypeOK
<1> QED
  BY <1>4, <1>5, <1>6

LEMMA ApplyStep ==
    ASSUME IInv, ApplyOp
    PROVE  IInv'
<1> DEFINE op == Head(queue)
<1>1. /\ UNCHANGED <<begun, roomVars, job, db, viewVars, crossed, lost>>
      /\ queue # <<>> /\ applied < MaxBatch /\ applied' = applied + 1
      /\ queue' = Tail(queue) /\ work' = Apply(work, op) /\ Accepts(work, op)
  BY DEF ApplyOp
<1>2. /\ queue \in Seq(Op) /\ op \in Op /\ op = queue[1] /\ Known(op)
      /\ queue' \in Seq(Op)
      /\ \A i \in 1..Len(queue') : queue'[i] = queue[i + 1] /\ i + 1 \in 1..Len(queue)
  BY <1>1 DEF IInv, TypeOK, UsedOnly
<1> HIDE DEF op
<1>3. work' \in Tables /\ Rooted(work')
      /\ work'.rows \subseteq work.rows \cup {op.item} \cup
            (IF op.kind = "promote" THEN {op.topic} ELSE {})
  BY <1>1, <1>2, Applied DEF IInv, TypeOK
<1>4. TypeOK'
  BY <1>1, <1>2, <1>3, VotesAssumption DEF IInv, TypeOK, roomVars, viewVars
<1>5. UsedOnly'
  <2>1. work'.rows \subseteq used
    BY <1>2, <1>3 DEF IInv, UsedOnly, Known
  <2>2. (\A i \in 1..Len(queue) : Known(queue[i]))'
    BY <1>1, <1>2 DEF IInv, UsedOnly, Known, roomVars
  <2> QED
    BY <1>1, <2>1, <2>2 DEF IInv, UsedOnly, Known, roomVars, viewVars
<1>6. Rooted(work)' /\ Rooted(db)'
  BY <1>1, <1>3 DEF IInv, Rooted
<1> QED
  BY <1>1, <1>4, <1>5, <1>6, RoomAlone DEF IInv

LEMMA CommitStep ==
    ASSUME IInv, CommitBatch
    PROVE  IInv'
<1>1. /\ UNCHANGED <<begun, roomVars, job, queue, work, viewVars, crossed, lost>>
      /\ db' = work /\ applied' = 0
  BY DEF CommitBatch
<1>2. TypeOK'
  BY <1>1, VotesAssumption DEF IInv, TypeOK, roomVars, viewVars
<1>3. UsedOnly' /\ Rooted(work)' /\ Rooted(db)'
  BY <1>1 DEF IInv, UsedOnly, Known, Rooted, roomVars, viewVars
<1> QED
  BY <1>1, <1>2, <1>3, RoomAlone DEF IInv

LEMMA AbortStep ==
    ASSUME IInv, AbortBatch
    PROVE  IInv'
<1>1. /\ UNCHANGED <<begun, roomVars, job, db, viewVars, crossed>>
      /\ work' = db /\ applied' = 0 /\ lost' = TRUE
  BY DEF AbortBatch
<1>2. PICK n \in 1..(MaxBatch - applied) :
         n <= Len(queue) /\ queue' = SubSeq(queue, n + 1, Len(queue))
  BY DEF AbortBatch
<1>3. n \in Nat /\ n >= 1
  BY <1>2, VotesAssumption DEF IInv, TypeOK
<1>4. queue \in Seq(Op) /\ Len(queue) \in Nat
  BY DEF IInv, TypeOK
<1>5. /\ queue' \in Seq(Op)
      /\ \A i \in 1..Len(queue') : queue'[i] = queue[i + n] /\ i + n \in 1..Len(queue)
  BY <1>2, <1>3, <1>4
<1>6. TypeOK'
  BY <1>1, <1>5, VotesAssumption DEF IInv, TypeOK, roomVars, viewVars
<1>7. UsedOnly'
  <2>1. (\A i \in 1..Len(queue) : Known(queue[i]))'
    BY <1>1, <1>5 DEF IInv, UsedOnly, Known, roomVars
  <2> QED
    BY <1>1, <2>1 DEF IInv, UsedOnly, Known, roomVars, viewVars
<1>8. Rooted(work)' /\ Rooted(db)'
  BY <1>1 DEF IInv, Rooted
<1> QED
  BY <1>1, <1>6, <1>7, <1>8, RoomAlone DEF IInv

LEMMA RestartStep ==
    ASSUME IInv, Restart
    PROVE  IInv'
<1>1. /\ listed' = db.rows /\ answered' = db.answered /\ count' = Tally(db.votes)
      /\ index' = db.votes /\ job' = [a \in Actors |-> Idle] /\ queue' = <<>> /\ applied' = 0
      /\ work' = db /\ crossed' = {} /\ lost' = FALSE
      /\ shown' = [q \in db.rows \cap Questions |-> Cardinality(db.votes[q])]
      /\ mine' = [g \in Guests |-> {x \in Items : g \in db.votes[x]}]
      /\ UNCHANGED <<begun, used, db>>
  BY DEF Restart
<1>2. /\ db \in Tables /\ db.rows \subseteq used /\ used \subseteq Items
      /\ db.rows \subseteq Items /\ db.answered \subseteq Questions
      /\ db.votes \in [Items -> SUBSET Guests]
      /\ \A x \in Items : db.votes[x] # {} => x \in db.rows
  BY TablesShape DEF IInv, TypeOK, UsedOnly, Rooted
<1>3. \A x \in Items : Cardinality(db.votes[x]) \in Nat
  BY <1>2, VotesAssumption, FS_Subset, FS_CardinalityType
<1>4. Idle \in Job /\ Idle.step = "idle" /\ \A a \in Actors : job'[a] = Idle
  BY <1>1 DEF Job, Idle
<1>5. TypeOK'
  <2>1. count' \in [Items -> Nat]
    BY <1>1, <1>3 DEF Tally
  <2>2. DOMAIN shown' \subseteq Questions /\ \A q \in DOMAIN shown' : shown'[q] \in Nat
    BY <1>1, <1>2, <1>3 DEF Items
  <2>3. mine' \in [Guests -> SUBSET Items] /\ job' \in [Actors -> Job] /\ queue' \in Seq(Op)
    BY <1>1, <1>4
  <2>4. /\ listed' \subseteq Items /\ answered' \subseteq Questions
        /\ index' \in [Items -> SUBSET Guests] /\ used' \subseteq Items
        /\ begun' \in 0..MaxBegun /\ work' \in Tables /\ db' \in Tables
    BY <1>1, <1>2 DEF IInv, TypeOK
  <2>5. applied' \in 0..MaxBatch
    BY <1>1, VotesAssumption
  <2>6. crossed' \subseteq Items \X Overlaps
    BY <1>1
  <2>7. lost' \in BOOLEAN
    BY <1>1
  <2> QED
    BY <2>1, <2>2, <2>3, <2>4, <2>5, <2>6, <2>7 DEF TypeOK
<1>6. UsedOnly'
  <2>1. \A x \in Items \ used : db.votes[x] = {} /\ \A g \in Guests : x \notin mine'[g]
    BY <1>1, <1>2
  <2> QED
    BY <1>1, <1>2, <1>4, <2>1 DEF UsedOnly
<1>7. Rooted(work)' /\ Rooted(db)'
  BY <1>1 DEF IInv, Rooted
<1>8. Copies' /\ CountIsVoters' /\ Tellers'
  BY <1>1, <1>2, <1>4 DEF Copies, CountIsVoters, Tellers, Flips1, Tally
<1>9. Flipping'
  <2> SUFFICES ASSUME NEW g \in Guests, NEW x \in db.rows
               PROVE  Odd(Owing(g, x)') <=> ~(x \in mine'[g] <=> g \in index'[x])
    BY <1>1 DEF Flipping
  <2>1. Owing(g, x)' = {}
    BY <1>4 DEF Owing, Flips1, Actors
  <2>2. x \in mine'[g] <=> g \in index'[x]
    BY <1>1, <1>2
  <2> QED
    BY <2>1, <2>2, NoneOdd
<1> QED
  BY <1>5, <1>6, <1>7, <1>8, <1>9 DEF IInv

LEMMA Start == Init => IInv
<1> SUFFICES ASSUME Init PROVE IInv
  OBVIOUS
<1>1. Idle \in Job /\ Idle.step = "idle" /\ \A a \in Actors : job[a] = Idle
  BY DEF Init, Job, Idle
<1>2. NewTables \in Tables /\ NewTables.rows = {} /\ \A x \in Items : NewTables.votes[x] = {}
  BY DEF NewTables, Tables
<1>3. TypeOK
  <2>1. DOMAIN shown \subseteq Questions /\ \A q \in DOMAIN shown : shown[q] \in Nat
    BY DEF Init
  <2>2. /\ count \in [Items -> Nat] /\ index \in [Items -> SUBSET Guests]
        /\ mine \in [Guests -> SUBSET Items] /\ job \in [Actors -> Job] /\ queue \in Seq(Op)
    BY <1>1 DEF Init
  <2>3. /\ listed \subseteq Items /\ answered \subseteq Questions /\ used \subseteq Items
        /\ crossed \subseteq Items \X Overlaps
    BY DEF Init
  <2>4. begun \in 0..MaxBegun /\ applied \in 0..MaxBatch
    BY VotesAssumption DEF Init
  <2>5. work \in Tables /\ db \in Tables
    BY <1>2 DEF Init
  <2>6. lost \in BOOLEAN
    BY DEF Init
  <2> QED
    BY <2>1, <2>2, <2>3, <2>4, <2>5, <2>6 DEF TypeOK
<1>4. UsedOnly /\ Rooted(work) /\ Rooted(db)
  BY <1>1, <1>2 DEF Init, UsedOnly, Rooted
<1>5. Copies /\ CountIsVoters /\ Tellers /\ Flipping
  BY <1>1 DEF Init, Copies, CountIsVoters, Tellers, Flips1, Flipping
<1> QED
  BY <1>3, <1>4, <1>5 DEF IInv

LEMMA Step == IInv /\ [Next]_vars => IInv'
<1> SUFFICES ASSUME IInv, [Next]_vars PROVE IInv'
  OBVIOUS
<1> USE DEF Items, Actors
<1>1. ASSUME NEW a \in Tabs, GuestStep(a) PROVE IInv'
  <2>1. ASSUME NEW q \in Questions, SubmitQuestion(a, q) PROVE IInv'
    <3>1. Added(q) \in Msg /\ Added(q).kind # "count"
      BY DEF Added, Msg
    <3> QED
      BY <2>1, <3>1, InsertStep DEF SubmitQuestion, tableVars, viewVars
  <2>2. ASSUME NEW q \in Questions, NEW vote \in BOOLEAN, VoteQuestion(a, q, vote) PROVE IInv'
    BY <2>2, VoteStep DEF VoteQuestion, tableVars, viewVars
  <2>3. ASSUME NEW t \in Topics, NEW vote \in BOOLEAN, VoteTopic(a, t, vote) PROVE IInv'
    BY <2>3, VoteStep DEF VoteTopic, tableVars, viewVars
  <2> QED
    BY <1>1, <2>1, <2>2, <2>3 DEF GuestStep
<1>2. ASSUME NEW h \in Hosts, HostStep(h) PROVE IInv'
  <2>0. Tree \in Msg /\ Tree.kind # "count"
    BY DEF Tree, Msg
  <2>1. ASSUME NEW q \in Questions, DeleteQuestion(h, q) PROVE IInv'
    <3>1. Gone(q) \in Msg /\ Gone(q).kind # "count"
      BY DEF Gone, Msg
    <3> QED
      BY <2>1, <3>1, RemoveStep DEF DeleteQuestion, tableVars, viewVars
  <2>2. ASSUME NEW q \in Questions, NEW to \in BOOLEAN, CopyQuestion(h, q, to) PROVE IInv'
    BY <2>2, CopyStep
  <2>3. ASSUME NEW q \in Questions, NEW t \in Topics, Promote(h, q, t) PROVE IInv'
    BY <2>3, PromoteStep
  <2>4. ASSUME NEW t \in Topics, AddTopic(h, t) PROVE IInv'
    BY <2>0, <2>4, InsertStep DEF AddTopic, tableVars, viewVars
  <2>5. ASSUME NEW t \in Topics, DeleteTopic(h, t) PROVE IInv'
    BY <2>0, <2>5, RemoveStep DEF DeleteTopic, tableVars, viewVars
  <2>6. ASSUME WriteCopyBack(h) PROVE IInv'
    BY <2>6, WriteBackStep
  <2> QED
    BY <1>2, <2>1, <2>2, <2>3, <2>4, <2>5, <2>6 DEF HostStep
<1>3. ASSUME NEW a \in Actors, Broadcast(a) \/ Enqueue(a) PROVE IInv'
  BY <1>3, BroadcastStep, EnqueueStep
<1>4. CASE Writer
  BY <1>4, ApplyStep, CommitStep, AbortStep DEF Writer
<1>5. CASE Restart
  BY <1>5, RestartStep
<1>6. CASE UNCHANGED vars
  <2>1. UNCHANGED <<listed, answered, count, index, used, begun, job, queue, applied, work, db,
                    shown, mine, crossed, lost>>
    BY <1>6 DEF vars, roomVars, tableVars, viewVars
  <2>2. UNCHANGED <<roomVars, job, viewVars, crossed>>
    BY <1>6 DEF vars
  <2>3. TypeOK'
    BY <2>1 DEF IInv, TypeOK
  <2>4. UsedOnly' /\ Rooted(work)' /\ Rooted(db)'
    BY <2>1 DEF IInv, UsedOnly, Known, Rooted
  <2> QED
    BY <2>2, <2>3, <2>4, RoomAlone DEF IInv
<1> QED
  BY <1>1, <1>2, <1>3, <1>4, <1>5, <1>6 DEF Next

-----------------------------------------------------------------------------
(***************************************************************************)
(* The theorems.                                                           *)
(***************************************************************************)
\* The inductive invariant holds in every state of a room with its writer.
THEOREM VotesInvariant == Spec => []IInv
  BY Start, Step, PTL DEF Spec

\* Every variable keeps its shape: counts are natural numbers, only ids of
\* questions are listed as questions, a batch never exceeds MAX_BATCH_SIZE.
THEOREM TypeCorrect == Spec => []TypeOK
<1>1. IInv => TypeOK
  BY DEF IInv
<1> QED
  BY VotesInvariant, <1>1, PTL

\* The count of a topic is always the number of its voters, that of a question
\* unless mark_question_answered overlapped another handler on the question.
THEOREM CountsAreVoters == Spec => []CountIsVoters
<1>1. IInv => CountIsVoters
  BY DEF IInv
<1> QED
  BY VotesInvariant, <1>1, PTL

\* Browsers that flip the own vote on every VoteUpdated of their guest agree
\* with the room once no tab of the guest is under way on the item, however
\* many tabs vote against each other and however their messages overtake.
THEOREM OwnVoteIsShown == Spec => []OwnVoteShown
<1>1. ASSUME IInv PROVE OwnVoteShown
  <2> SUFFICES ASSUME NEW g \in Guests, NEW x \in listed,
                      \A a \in Tabs : OwnerOf[a] = g => ~On(a, x)
               PROVE  x \in mine[g] <=> g \in index[x]
    BY DEF OwnVoteShown
  <2>1. x \in Items
    BY <1>1 DEF IInv, TypeOK
  <2>2. Owing(g, x) = {}
    <3> SUFFICES ASSUME NEW a \in Tabs, Flips1(a, g, x) PROVE FALSE
      BY DEF Owing
    <3>1. OwnerOf[a] = g /\ x \in job[a].on /\ job[a].step = "tell"
      BY <1>1, <2>1 DEF IInv, Tellers, Flips1, Actors
    <3> QED
      BY <3>1 DEF On, Idle
  <2> QED
    BY <1>1, <2>2, NoneOdd DEF IInv, Flipping
<1> QED
  BY VotesInvariant, <1>1, PTL

\* The foreign keys hold in what is committed: a vote is stored only with the
\* question or topic it is for, through deletions, promotions and aborts.
THEOREM StoredVotesRooted == Spec => []StoredVotesHaveRows
<1>1. IInv => StoredVotesHaveRows
  BY DEF IInv, Rooted, StoredVotesHaveRows
<1> QED
  BY VotesInvariant, <1>1, PTL

-----------------------------------------------------------------------------
(***************************************************************************)
(* What browsers show of a question.  While one handler is under way on a  *)
(* question and none met it there, its message, once shown, makes the      *)
(* browser agree with the room (Coming); before it has changed anything    *)
(* and after its broadcast, the browser agrees already.  CountsShown       *)
(* speaks of a question that no handler is on and is not inductive alone.  *)
(***************************************************************************)
Clean(q) == \A o \in Overlaps : <<q, o>> \notin crossed

Listed(q) == q \in DOMAIN shown <=> q \in listed

Agrees(q) == Listed(q) /\ (q \in listed => shown[q] = count[q])

\* The room's state of question q is what message m says of it.
Coming(m, q) ==
    /\ m.kind # "tree" /\ m.item = q
    /\ m.kind = "added" => q \in listed /\ count[q] = 0
    /\ m.kind = "gone"  => q \notin listed
    /\ m.kind \in {"count", "updated"} => Listed(q) /\ (q \in listed => m.votes = count[q])

\* A handler's message is about the question the handler is on, and no other.
Addressed ==
    \A a \in Actors :
        /\ job[a].step = "copied" => job[a].on = {job[a].item}
        /\ job[a].step = "tell" =>
              \A q \in Questions :
                  q \in job[a].on <=> job[a].msg.kind # "tree" /\ job[a].msg.item = q

Alone(q) == \A a, b \in Actors : On(a, q) /\ On(b, q) => a = b

Fine(q) ==
    /\ Alone(q)
    /\ \A a \in Actors : On(a, q) /\ job[a].step = "tell" => Coming(job[a].msg, q)
    /\ (\A a \in Actors : On(a, q) => job[a].step # "tell") => Agrees(q)

InStep == \A q \in Questions : Clean(q) => Fine(q)

SInv == Addressed /\ InStep

\* A question that a step leaves alone, in the room and in the browser; a
\* handler on it that has told everybody may end.
LEMMA Untouched ==
    ASSUME NEW q \in Questions, Fine(q),
           \A b \in Actors : On(b, q)' => On(b, q) /\ job'[b] = job[b],
           \A b \in Actors : On(b, q) /\ job[b].step = "tell" => job'[b] = job[b],
           q \in listed' <=> q \in listed,
           count'[q] = count[q],
           q \in DOMAIN shown' <=> q \in DOMAIN shown,
           q \in DOMAIN shown => shown'[q] = shown[q]
    PROVE  Fine(q)'
<1>1. Alone(q)'
  BY DEF Fine, Alone
<1>2. ASSUME NEW b \in Actors, On(b, q)', job'[b].step = "tell"
      PROVE  Coming(job[b].msg, q)'
  <2>1. Coming(job[b].msg, q) /\ job'[b] = job[b]
    BY <1>2 DEF Fine
  <2> QED
    BY <2>1 DEF Coming, Listed
<1>3. ASSUME \A b \in Actors : On(b, q)' => job'[b].step # "tell"
      PROVE  Agrees(q)'
  <2>1. ASSUME NEW b \in Actors, On(b, q), job[b].step = "tell" PROVE FALSE
    BY <1>3, <2>1 DEF On
  <2>2. Agrees(q)
    BY <2>1 DEF Fine
  <2> QED
    BY <2>2 DEF Agrees, Listed
<1> QED
  BY <1>1, <1>2, <1>3 DEF Fine

LEMMA BeginInStep ==
    ASSUME TypeOK, SInv, NEW a \in Actors, NEW next, Begin(a, next),
           next.step \in {"copied", "tell"},
           next.step = "copied" => next.on = {next.item},
           next.step = "tell" =>
               \A q \in Questions :
                   q \in next.on <=> next.msg.kind # "tree" /\ next.msg.item = q,
           shown' = shown,
           \A q \in Questions \ next.on : /\ q \in listed' <=> q \in listed
                                          /\ count'[q] = count[q],
           \A q \in Questions \cap next.on : Agrees(q) /\ Clean(q)' =>
               /\ next.step = "copied" => Agrees(q)'
               /\ next.step = "tell" => Coming(job[a].msg, q)'
    PROVE  SInv'
<1>1. /\ job[a] = Idle /\ next # Idle
      /\ job' = [job EXCEPT ![a] = next]
      /\ job'[a] = next
      /\ \A b \in Actors \ {a} : job'[b] = job[b]
      /\ crossed' = crossed \cup Meets(a, next.on)
  BY DEF Begin, TypeOK, Idle
<1>2. Addressed'
  <2> SUFFICES ASSUME NEW b \in Actors
               PROVE  /\ job'[b].step = "copied" => job'[b].on = {job'[b].item}
                      /\ job'[b].step = "tell" =>
                            \A q \in Questions :
                                q \in job'[b].on <=> job'[b].msg.kind # "tree" /\ job'[b].msg.item = q
    BY DEF Addressed
  <2>1. CASE b = a
    BY <1>1, <2>1
  <2>2. CASE b # a
    BY <1>1, <2>2 DEF SInv, Addressed
  <2> QED
    BY <2>1, <2>2
<1>3. ASSUME NEW q \in Questions, Clean(q)'
      PROVE  Fine(q)'
  <2>1. Clean(q)
    BY <1>1, <1>3 DEF Clean
  <2>2. /\ \A b \in Actors \ {a} : On(b, q)' <=> On(b, q)
        /\ ~On(a, q)
        /\ On(a, q)' <=> q \in next.on
    BY <1>1 DEF On
  <2>3. CASE q \in next.on
    <3>1. ASSUME NEW b \in Actors, b # a, On(b, q) PROVE FALSE
      <4>1. <<q, Overlap(a, b)>> \in Meets(a, next.on)
        BY <2>3, <3>1 DEF Meets, Overlap, Overlaps
      <4>2. Overlap(a, b) \in Overlaps
        BY DEF Overlap, Overlaps
      <4> QED
        BY <1>1, <1>3, <4>1, <4>2 DEF Clean
    <3>2. Agrees(q)
      BY <2>1, <2>2, <3>1 DEF SInv, InStep, Fine
    <3>3. /\ next.step = "copied" => Agrees(q)'
          /\ next.step = "tell" => Coming(job[a].msg, q)'
      BY <1>3, <2>3, <3>2
    <3>4. \A b \in Actors : On(b, q)' => b = a
      BY <2>2, <3>1
    <3>5. Alone(q)'
      BY <3>4 DEF Alone
    <3>6. \A b \in Actors : On(b, q)' /\ job'[b].step = "tell" => Coming(job[b].msg, q)'
      BY <1>1, <3>3, <3>4
    <3>7. On(a, q)'
      BY <2>2, <2>3
    <3>8. (\A b \in Actors : On(b, q)' => job'[b].step # "tell") => Agrees(q)'
      BY <1>1, <3>3, <3>7
    <3> QED
      BY <3>5, <3>6, <3>8 DEF Fine
  <2>4. CASE q \notin next.on
    <3>1. /\ q \in listed' <=> q \in listed
          /\ count'[q] = count[q]
      BY <2>4
    <3>2. \A b \in Actors : On(b, q)' => On(b, q) /\ job'[b] = job[b]
      BY <1>1, <2>2, <2>4
    <3>3. \A b \in Actors : On(b, q) => job'[b] = job[b]
      BY <1>1, <2>2
    <3>4. Fine(q)
      BY <2>1 DEF SInv, InStep
    <3> QED
      BY <3>1, <3>2, <3>3, <3>4, Untouched
  <2> QED
    BY <2>3, <2>4
<1> QED
  BY <1>2, <1>3 DEF SInv, InStep

\* What a browser shows after a message, question by question.
LEMMA ShowsAt ==
    ASSUME NEW m \in Msg, NEW q \in Questions
    PROVE  /\ m.kind = "tree" \/ m.item # q =>
                 /\ q \in DOMAIN Shows(m) <=> q \in DOMAIN shown
                 /\ q \in DOMAIN shown => Shows(m)[q] = shown[q]
           /\ Coming(m, q) =>
                 /\ q \in DOMAIN Shows(m) <=> q \in listed
                 /\ q \in listed => Shows(m)[q] = count[q]
<1>1. CASE m.kind = "added"
  BY <1>1 DEF Shows, With, Coming
<1>2. CASE m.kind = "gone"
  BY <1>2 DEF Shows, Coming
<1>3. CASE m.kind \in {"count", "updated"} /\ m.item \in DOMAIN shown
  <2>1. Shows(m) = With(shown, m.item, m.votes)
    BY <1>3 DEF Shows
  <2> QED
    BY <1>3, <2>1 DEF With, Coming, Listed
<1>4. CASE m.kind \in {"count", "updated"} /\ m.item \notin DOMAIN shown
  <2>1. Shows(m) = shown
    BY <1>4 DEF Shows
  <2> QED
    BY <1>4, <2>1 DEF Coming, Listed
<1>5. CASE m.kind = "tree"
  BY <1>5 DEF Shows, Coming
<1> QED
  BY <1>1, <1>2, <1>3, <1>4, <1>5, MsgShapes

LEMMA BroadcastInStep ==
    ASSUME TypeOK, SInv, NEW a \in Actors, Broadcast(a)
    PROVE  SInv'
<1> DEFINE m == job[a].msg
<1>1. /\ job[a] \in Job /\ job[a].step = "tell" /\ m \in Msg /\ job[a] # Idle
      /\ shown' = Shows(m)
      /\ job'[a] = [step |-> "save", on |-> job[a].on, op |-> job[a].op]
      /\ \A b \in Actors \ {a} : job'[b] = job[b]
      /\ UNCHANGED <<listed, count, crossed>>
  BY JobShapes DEF Broadcast, TypeOK, roomVars, Idle
<1>2. Addressed'
  BY <1>1 DEF SInv, Addressed
<1>3. ASSUME NEW q \in Questions, Clean(q)'
      PROVE  Fine(q)'
  <2>1. Fine(q)
    BY <1>1, <1>3 DEF SInv, InStep, Clean
  <2>2. \A b \in Actors : On(b, q)' <=> On(b, q)
    BY <1>1 DEF On, Idle
  <2>3. q \in job[a].on <=> m.kind # "tree" /\ m.item = q
    BY <1>1 DEF SInv, Addressed
  <2>4. CASE q \in job[a].on
    <3>1. On(a, q)
      BY <1>1, <2>4 DEF On
    <3>2. Coming(m, q)
      BY <1>1, <2>1, <3>1 DEF Fine
    <3>3. /\ q \in DOMAIN shown' <=> q \in listed
          /\ q \in listed => shown'[q] = count[q]
      BY <1>1, <3>2, ShowsAt
    <3>4. Agrees(q)'
      BY <1>1, <3>3 DEF Agrees, Listed
    <3>5. \A b \in Actors : On(b, q)' => b = a
      BY <2>1, <2>2, <3>1 DEF Fine, Alone
    <3>6. Alone(q)' /\ \A b \in Actors : On(b, q)' => job'[b].step # "tell"
      BY <1>1, <3>5 DEF Alone
    <3> QED
      BY <3>4, <3>6 DEF Fine
  <2>5. CASE q \notin job[a].on
    <3>1. /\ q \in DOMAIN shown' <=> q \in DOMAIN shown
          /\ q \in DOMAIN shown => shown'[q] = shown[q]
      BY <1>1, <2>3, <2>5, ShowsAt
    <3>2. ~On(a, q)
      BY <2>5 DEF On
    <3>3. \A b \in Actors : On(b, q) => job'[b] = job[b]
      BY <1>1, <3>2
    <3> QED
      BY <1>1, <2>1, <2>2, <3>1, <3>3, Untouched
  <2> QED
    BY <2>4, <2>5
<1> QED
  BY <1>2, <1>3 DEF SInv, InStep

\* A handler that has told everybody, or found its question gone, is done.
LEMMA DoneInStep ==
    ASSUME TypeOK, SInv, NEW a \in Actors, job[a].step \in {"save", "copied"},
           job' = [job EXCEPT ![a] = Idle],
           UNCHANGED <<listed, count, crossed, shown>>
    PROVE  SInv'
<1>1. job'[a] = Idle /\ \A b \in Actors \ {a} : job'[b] = job[b]
  BY DEF TypeOK
<1>2. Addressed'
  BY <1>1 DEF SInv, Addressed, Idle
<1>3. ASSUME NEW q \in Questions, Clean(q)'
      PROVE  Fine(q)'
  <2>1. Fine(q)
    BY <1>3 DEF SInv, InStep, Clean
  <2>2. \A b \in Actors : On(b, q)' => On(b, q) /\ job'[b] = job[b]
    BY <1>1 DEF On
  <2>3. \A b \in Actors : On(b, q) /\ job[b].step = "tell" => job'[b] = job[b]
    BY <1>1
  <2> QED
    BY <2>1, <2>2, <2>3, Untouched
<1> QED
  BY <1>2, <1>3 DEF SInv, InStep

\* What the copy says is what the room then holds and the message tells.
LEMMA WriteBackInStep ==
    ASSUME TypeOK, SInv, NEW h \in Hosts, WriteCopyBack(h)
    PROVE  SInv'
<1> DEFINE c == job[h]
           next == Tell({c.item}, [kind |-> "updated", item |-> c.item, votes |-> c.votes],
                        [kind |-> "answered", item |-> c.item, to |-> c.to])
<1>1. h \in Actors /\ c.step = "copied" /\ c # Idle /\ c.on = {c.item}
  BY DEF Actors, WriteCopyBack, Idle, SInv, Addressed
<1>2. c.item \in Questions /\ UNCHANGED <<listed, crossed, shown>>
  BY <1>1, JobShapes DEF WriteCopyBack, TypeOK, viewVars
<1>3. CASE c.item \notin listed
  BY <1>1, <1>2, <1>3, DoneInStep DEF WriteCopyBack
<1>4. CASE c.item \in listed
  <2>1. /\ count' = [count EXCEPT ![c.item] = c.votes]
        /\ job' = [job EXCEPT ![h] = next]
    BY <1>4 DEF WriteCopyBack
  <2>2. /\ job'[h] = next /\ next # Idle /\ next.on = {c.item} /\ next.step = "tell"
        /\ next.msg = [kind |-> "updated", item |-> c.item, votes |-> c.votes]
        /\ \A b \in Actors \ {h} : job'[b] = job[b]
    BY <1>1, <2>1 DEF TypeOK, Tell, Idle
  <2>3. /\ count'[c.item] = c.votes
        /\ \A q \in Questions \ {c.item} : count'[q] = count[q]
    BY <1>2, <2>1 DEF TypeOK, Items
  <2> HIDE DEF next
  <2>4. Addressed'
    BY <2>2 DEF SInv, Addressed
  <2>5. ASSUME NEW q \in Questions, Clean(q)'
        PROVE  Fine(q)'
    <3>1. Fine(q)
      BY <1>2, <2>5 DEF SInv, InStep, Clean
    <3>2. \A b \in Actors : On(b, q)' <=> On(b, q)
      BY <1>1, <2>2 DEF On
    <3>3. CASE q = c.item
      <4>1. On(h, q)
        BY <1>1, <3>3 DEF On
      <4>2. \A b \in Actors : On(b, q) => b = h
        BY <1>1, <3>1, <4>1 DEF Fine, Alone
      <4>3. Agrees(q)
        BY <1>1, <3>1, <4>2 DEF Fine
      <4>4. /\ job'[h].msg.kind = "updated" /\ job'[h].msg.item = q
            /\ job'[h].msg.votes = count'[q] /\ job'[h].step = "tell"
        BY <2>2, <2>3, <3>3
      <4>5. Coming(job[h].msg, q)'
        BY <1>2, <4>3, <4>4 DEF Coming, Agrees, Listed
      <4>6. /\ Alone(q)'
            /\ On(h, q)'
            /\ \A b \in Actors : On(b, q)' => b = h
        BY <1>1, <3>2, <4>1, <4>2 DEF Alone
      <4>7. \A b \in Actors : On(b, q)' /\ job'[b].step = "tell" => Coming(job[b].msg, q)'
        BY <4>5, <4>6
      <4> QED
        BY <1>1, <4>4, <4>6, <4>7 DEF Fine
    <3>4. CASE q # c.item
      <4>1. \A b \in Actors : On(b, q) => job'[b] = job[b]
        BY <1>1, <2>2, <3>4 DEF On
      <4> QED
        BY <1>2, <2>3, <3>1, <3>2, <3>4, <4>1, Untouched
    <3> QED
      BY <3>3, <3>4
  <2> QED
    BY <2>4, <2>5 DEF SInv, InStep
<1> QED
  BY <1>3, <1>4


LEMMA FirstHalfInStep ==
    ASSUME TypeOK, SInv, NEW a \in Actors,
           \/ \E q \in Questions : SubmitQuestion(a, q) \/ DeleteQuestion(a, q)
           \/ \E q \in Questions, t \in Topics : Promote(a, q, t)
           \/ \E q \in Questions, to \in BOOLEAN : CopyQuestion(a, q, to)
           \/ \E t \in Topics : AddTopic(a, t) \/ DeleteTopic(a, t)
    PROVE  SInv'
<1> USE VotesAssumption DEF viewVars
<1>1. ASSUME NEW q \in Questions, SubmitQuestion(a, q) PROVE SInv'
  <2> DEFINE next == Tell({q}, Added(q), [kind |-> "add", item |-> q])
  <2>1. Begin(a, next) /\ UNCHANGED shown
    BY <1>1 DEF SubmitQuestion
  <2>2. /\ next.step = "tell" /\ next.on = {q}
        /\ next.msg.kind = "added" /\ next.msg.item = q
    BY DEF Tell, Added
  <2>3. job'[a] = next
    BY <2>1 DEF Begin, TypeOK
  <2> HIDE DEF next
  <2>4. /\ listed' = listed \cup {q}
        /\ count' = [count EXCEPT ![q] = 0]
    BY <1>1 DEF SubmitQuestion, Insert
  <2>5. /\ q \in listed' /\ count'[q] = 0
        /\ \A p \in Questions \ next.on : (p \in listed' <=> p \in listed) /\ count'[p] = count[p]
    BY <2>2, <2>4 DEF TypeOK, Items
  <2>6. Coming(job[a].msg, q)'
    BY <2>2, <2>3, <2>5 DEF Coming
  <2> QED
    BY <2>1, <2>2, <2>5, <2>6, BeginInStep
<1>2. ASSUME NEW q \in Questions, DeleteQuestion(a, q) PROVE SInv'
  <2> DEFINE next == Tell({q}, Gone(q), [kind |-> "delete", item |-> q])
  <2>1. Begin(a, next) /\ UNCHANGED shown
    BY <1>2 DEF DeleteQuestion
  <2>2. /\ next.step = "tell" /\ next.on = {q}
        /\ next.msg.kind = "gone" /\ next.msg.item = q
    BY DEF Tell, Gone
  <2>3. job'[a] = next
    BY <2>1 DEF Begin, TypeOK
  <2> HIDE DEF next
  <2>4. /\ q \notin listed'
        /\ \A p \in Questions \ next.on : (p \in listed' <=> p \in listed) /\ count'[p] = count[p]
    BY <1>2, <2>2 DEF DeleteQuestion, Remove, Items
  <2>5. Coming(job[a].msg, q)'
    BY <2>2, <2>3, <2>4 DEF Coming
  <2> QED
    BY <2>1, <2>2, <2>4, <2>5, BeginInStep
<1>3. ASSUME NEW q \in Questions, NEW t \in Topics, Promote(a, q, t) PROVE SInv'
  <2> DEFINE next == Tell({q, t}, Gone(q), [kind |-> "promote", item |-> q, topic |-> t])
  <2>1. Begin(a, next) /\ UNCHANGED shown
    BY <1>3 DEF Promote
  <2>2. /\ next.step = "tell" /\ next.on = {q, t}
        /\ next.msg.kind = "gone" /\ next.msg.item = q
    BY DEF Tell, Gone
  <2>3. job'[a] = next /\ t \notin Questions
    BY <2>1 DEF Begin, TypeOK
  <2> HIDE DEF next
  <2>4. /\ listed' = (listed \ {q}) \cup {t}
        /\ count' = [count EXCEPT ![q] = 0, ![t] = 0]
    BY <1>3 DEF Promote
  <2>5. /\ q \notin listed'
        /\ \A p \in Questions \ next.on : (p \in listed' <=> p \in listed) /\ count'[p] = count[p]
    BY <2>2, <2>3, <2>4 DEF TypeOK, Items
  <2>6. Coming(job[a].msg, q)'
    BY <2>2, <2>3, <2>5 DEF Coming
  <2> QED
    BY <2>1, <2>2, <2>3, <2>5, <2>6, BeginInStep
<1>4. ASSUME NEW q \in Questions, NEW to \in BOOLEAN, CopyQuestion(a, q, to) PROVE SInv'
  <2> DEFINE next == [step |-> "copied", on |-> {q}, item |-> q, votes |-> count[q], to |-> to]
  <2>1. Begin(a, next) /\ UNCHANGED <<shown, listed, count>>
    BY <1>4 DEF CopyQuestion, roomVars
  <2>2. next.step = "copied" /\ next.on = {q} /\ next.item = q
    OBVIOUS
  <2> HIDE DEF next
  <2>3. Agrees(q) => Agrees(q)'
    BY <2>1 DEF Agrees, Listed
  <2> QED
    BY <2>1, <2>2, <2>3, BeginInStep
<1>5. ASSUME NEW t \in Topics, AddTopic(a, t) \/ DeleteTopic(a, t) PROVE SInv'
  <2>1. PICK op : Begin(a, Tell({t}, Tree, op))
    BY <1>5 DEF AddTopic, DeleteTopic
  <2> DEFINE next == Tell({t}, Tree, op)
  <2>2. /\ next.step = "tell" /\ next.on = {t} /\ next.msg.kind = "tree"
        /\ t \notin Questions
    BY DEF Tell, Tree
  <2>3. Begin(a, next)
    BY <2>1
  <2> HIDE DEF next
  <2>4. /\ shown' = shown
        /\ \A p \in Questions : (p \in listed' <=> p \in listed) /\ count'[p] = count[p]
    BY <1>5, <2>2 DEF AddTopic, DeleteTopic, Insert, Remove, TypeOK, Items
  <2> QED
    BY <2>2, <2>3, <2>4, BeginInStep
<1> QED
  BY <1>1, <1>2, <1>3, <1>4, <1>5

\* A vote on what is not listed leaves a mark; on what is, browsers list it.
LEMMA VoteInStep ==
    ASSUME TypeOK, SInv, NEW a \in Tabs, NEW x \in Items, NEW vote, x \in used,
           RecordVote(a, x, vote), shown' = shown
    PROVE  SInv'
<1> DEFINE g  == Owner(a)
           n  == Cardinality(Voters(x, g, vote))
           op == [kind |-> IF vote THEN "vote" ELSE "unvote", item |-> x, by |-> g]
           next == Tell({x}, [kind |-> "count", item |-> x, votes |-> n, by |-> g], op)
<1>1. /\ Begin(a, next)
      /\ count' = [count EXCEPT ![x] = IF x \in listed THEN n ELSE 0]
      /\ listed' = listed
      /\ a \in Actors
  BY DEF RecordVote, Actors
<1>2. /\ next.step = "tell" /\ next.on = {x}
      /\ next.msg.kind = "count" /\ next.msg.item = x /\ next.msg.votes = n
  BY DEF Tell
<1>3. job'[a] = next
  BY <1>1 DEF Begin, TypeOK
<1> HIDE DEF next, n
<1>4. /\ x \in listed => count'[x] = n
      /\ \A p \in Questions \ next.on : count'[p] = count[p]
  BY <1>1, <1>2 DEF TypeOK, Items
<1>5. ASSUME NEW q \in Questions \cap next.on, Agrees(q), Clean(q)'
      PROVE  Coming(job[a].msg, q)'
  <2>1. q = x
    BY <1>2
  <2>2. x \in listed
    <3>1. SUFFICES ASSUME x \notin listed PROVE FALSE
      OBVIOUS
    <3>2. <<x, "gone">> \in Meets(a, next.on)
      BY <1>2, <3>1 DEF Meets, Overlaps
    <3>3. <<x, "gone">> \in crossed'
      BY <1>1, <3>2 DEF Begin
    <3> QED
      BY <1>5, <2>1, <3>3 DEF Clean, Overlaps
  <2>3. /\ job'[a].msg.kind = "count" /\ job'[a].msg.item = x /\ job'[a].msg.votes = n
    BY <1>2, <1>3
  <2> QED
    BY <1>1, <1>4, <1>5, <2>1, <2>2, <2>3 DEF Coming, Agrees, Listed
<1> QED
  BY <1>1, <1>2, <1>4, <1>5, BeginInStep

LEMMA RestartInStep ==
    ASSUME TypeOK, Restart
    PROVE  SInv'
<1>1. \A a \in Actors : job'[a] = Idle
  BY DEF Restart
<1>2. Addressed'
  BY <1>1 DEF Addressed, Idle
<1>3. ASSUME NEW q \in Questions PROVE Fine(q)'
  <2>1. \A a \in Actors : ~On(a, q)'
    BY <1>1 DEF On
  <2>2. /\ q \in DOMAIN shown' <=> q \in listed'
        /\ q \in listed' => shown'[q] = count'[q]
    BY DEF Restart, Tally, Items
  <2> QED
    BY <2>1, <2>2 DEF Fine, Alone, Agrees, Listed
<1> QED
  BY <1>2, <1>3 DEF SInv, InStep

LEMMA StartInStep == Init => SInv
<1> SUFFICES ASSUME Init PROVE SInv
  OBVIOUS
<1>1. Addressed
  BY DEF Init, Addressed, Idle
<1>2. ASSUME NEW q \in Questions PROVE Fine(q)
  BY DEF Init, Fine, Alone, On, Agrees, Listed
<1> QED
  BY <1>1, <1>2 DEF SInv, InStep

LEMMA NextInStep == TypeOK /\ SInv /\ [Next]_vars => SInv'
<1> SUFFICES ASSUME TypeOK, SInv, [Next]_vars PROVE SInv'
  OBVIOUS
<1>1. ASSUME NEW a \in Tabs, GuestStep(a) PROVE SInv'
  <2>1. CASE \E q \in Questions : SubmitQuestion(a, q)
    BY <2>1, FirstHalfInStep DEF Actors
  <2>2. ASSUME NEW q \in Questions, NEW vote \in BOOLEAN, VoteQuestion(a, q, vote) PROVE SInv'
    BY <2>2, VoteInStep DEF VoteQuestion, viewVars, Items
  <2>3. ASSUME NEW t \in Topics, NEW vote \in BOOLEAN, VoteTopic(a, t, vote) PROVE SInv'
    BY <2>3, VoteInStep DEF VoteTopic, viewVars, Items
  <2> QED
    BY <1>1, <2>1, <2>2, <2>3 DEF GuestStep
<1>2. ASSUME NEW h \in Hosts, HostStep(h) PROVE SInv'
  BY <1>2, FirstHalfInStep, WriteBackInStep DEF HostStep, Actors
<1>3. ASSUME NEW a \in Actors, Broadcast(a) PROVE SInv'
  BY <1>3, BroadcastInStep
<1>4. ASSUME NEW a \in Actors, Enqueue(a) PROVE SInv'
  BY <1>4, DoneInStep DEF Enqueue, roomVars, viewVars
<1>5. CASE Restart
  BY <1>5, RestartInStep
<1>6. CASE UNCHANGED <<job, listed, count, crossed, shown>>
  <2>1. Addressed'
    BY <1>6 DEF SInv, Addressed
  <2>2. ASSUME NEW q \in Questions, Clean(q)' PROVE Fine(q)'
    <3>1. Fine(q)
      BY <1>6, <2>2 DEF SInv, InStep, Clean
    <3> QED
      BY <1>6, <3>1, Untouched DEF On
  <2> QED
    BY <2>1, <2>2 DEF SInv, InStep
<1> QED
  BY <1>1, <1>2, <1>3, <1>4, <1>5, <1>6
  DEF Next, Writer, ApplyOp, CommitBatch, AbortBatch, vars, roomVars, viewVars

\* The list of questions and the counts in a browser are the room's wherever
\* handlers did not overlap on the question itself, whatever happens to others.
THEOREM CountsAreShown == Spec => []CountsShown
<1>1. TypeOK /\ SInv => CountsShown
  BY DEF SInv, InStep, Fine, Clean, Agrees, Listed, CountsShown, Busy
<1>2. Init => SInv
  BY StartInStep
<1>3. TypeOK /\ SInv /\ [Next]_vars => SInv'
  BY NextInStep
<1> QED
  BY <1>1, <1>2, <1>3, TypeCorrect, PTL DEF Spec
-----------------------------------------------------------------------------
(***************************************************************************)
(* What reaches the tables.                                                *)
(*                                                                         *)
(* An id is listed once, so nothing under way removes what is listed       *)
(* (Clear), and what is listed has its row or the operation that makes it  *)
(* is under way (Backed).  For each guest the last ballot on the way       *)
(* decides: a tab that has still to send one has the room's, since another *)
(* tab of the guest would have met it (Told); with none to send, the last  *)
(* one in the channel says what the room says, and where there is none     *)
(* there, the table does (Says).  Ballots of different guests commute.     *)
(*                                                                         *)
(* While nobody overlapped, each vote in the channel comes after what      *)
(* makes its row and before what removes it (Grounded), so the writer      *)
(* refuses none.                                                           *)
(***************************************************************************)
Makes(op, x) == \/ op.kind = "add" /\ op.item = x
                \/ op.kind = "promote" /\ op.topic = x

Drops(op, x) == op.kind \in {"delete", "promote"} /\ op.item = x

Ballot(op, x, g) == op.kind \in {"vote", "unvote"} /\ op.item = x /\ op.by = g

\* A handler that has changed the room and not sent its operation yet.
Due(a) == job[a].step \in {"tell", "save"}

\* A handler is on whatever its operation is about, and votes for its owner.
Ours ==
    \A a \in Actors : Due(a) =>
        LET op == job[a].op
        IN  /\ op.item \in job[a].on
            /\ op.kind = "promote" => op.topic \in job[a].on
            /\ op.kind \in {"vote", "unvote"} => a \in Tabs /\ op.by = OwnerOf[a]

\* Nothing under way removes what is listed: an id is listed once.
Clear ==
    \A x \in listed :
        /\ \A i \in 1..Len(queue) : ~Drops(queue[i], x)
        /\ \A a \in Actors : Due(a) => ~Drops(job[a].op, x)

\* What is listed has its row, or its row is under way.
Backed ==
    \A x \in listed :
        \/ x \in work.rows
        \/ \E i \in 1..Len(queue) : Makes(queue[i], x)
        \/ \E a \in Actors : Due(a) /\ Makes(job[a].op, x)

\* The last ballot of g for x in q, or where there is none the votes stored,
\* says what `voters` says.
Says(q, x, g, voters, stored) ==
    /\ \A i \in 1..Len(q) :
          Ballot(q[i], x, g) /\ (\A j \in 1..Len(q) : j > i => ~Ballot(q[j], x, g))
              => (q[i].kind = "vote" <=> g \in voters)
    /\ (\A i \in 1..Len(q) : ~Ballot(q[i], x, g)) => (g \in stored <=> g \in voters)

\* A ballot of g for x that is not sent yet is the room's, whatever is in the
\* channel; with none, what the channel will make of the table is.
Told(x, g) ==
    /\ \A a \in Actors : Due(a) /\ Ballot(job[a].op, x, g)
           => (job[a].op.kind = "vote" <=> g \in index[x])
    /\ (\A a \in Actors : ~(Due(a) /\ Ballot(job[a].op, x, g)))
           => Says(queue, x, g, index[x], work.votes[x])

Tallied ==
    \A x \in listed, g \in Guests : <<x, "self">> \notin crossed => Told(x, g)

\* Each vote in q finds the row it is for, if `rows` are there at the start.
Grounded(q, rows) ==
    \A k \in 1..Len(q), x \in Items : q[k].kind = "vote" /\ q[k].item = x =>
        /\ \A j \in 1..Len(q) : j < k => ~Drops(q[j], x)
        /\ x \in rows \/ \E j \in 1..Len(q) : j < k /\ Makes(q[j], x)

\* As long as no two handlers overlapped on anything.
Smooth ==
    crossed = {} =>
        /\ ~lost
        /\ \A x \in Items : Alone(x)
        /\ \A a \in Actors : Due(a) /\ job[a].op.kind = "vote" => job[a].op.item \in listed
        /\ Grounded(queue, work.rows)

StoredInv ==
    /\ Ours /\ Clear /\ Smooth
    /\ applied = 0 => work = db
    /\ ~lost => Backed /\ Tallied

-----------------------------------------------------------------------------
LEMMA ApplyRows ==
    ASSUME NEW t \in Tables, NEW op \in Op, NEW x \in Items
    PROVE  x \in Apply(t, op).rows <=> Makes(op, x) \/ (x \in t.rows /\ ~Drops(op, x))
<1> USE OpShapes, TablesShape DEF Apply, Makes, Drops
<1>1. CASE op.kind = "add"
  BY <1>1
<1>2. CASE op.kind = "delete"
  BY <1>2 DEF WithoutRow
<1>3. CASE op.kind = "promote"
  BY <1>3 DEF Promoted, WithoutRow
<1>4. CASE op.kind = "answered"
  BY <1>4 DEF AnsweredRow
<1>5. CASE op.kind = "vote"
  BY <1>5
<1>6. CASE op.kind = "unvote"
  BY <1>6
<1> QED
  BY <1>1, <1>2, <1>3, <1>4, <1>5, <1>6

LEMMA ApplyVotes ==
    ASSUME NEW t \in Tables, NEW op \in Op, NEW x \in Items, NEW g \in Guests,
           ~Drops(op, x)
    PROVE  g \in Apply(t, op).votes[x] <=>
              IF Ballot(op, x, g) THEN op.kind = "vote" ELSE g \in t.votes[x]
<1> USE OpShapes, TablesShape DEF Apply, Ballot, Drops
<1>1. CASE op.kind = "add"
  BY <1>1
<1>2. CASE op.kind = "delete"
  BY <1>2 DEF WithoutRow, NoVotes
<1>3. CASE op.kind = "promote"
  BY <1>3 DEF Promoted, WithoutRow, NoVotes
<1>4. CASE op.kind = "answered"
  BY <1>4 DEF AnsweredRow
<1>5. CASE op.kind = "vote"
  BY <1>5
<1>6. CASE op.kind = "unvote"
  BY <1>6
<1> QED
  BY <1>1, <1>2, <1>3, <1>4, <1>5, <1>6

LEMMA TailAt ==
    ASSUME NEW q \in Seq(Op), q # <<>>
    PROVE  /\ Len(q) \in Nat /\ Len(q) >= 1 /\ Head(q) = q[1] /\ q[1] \in Op
           /\ Tail(q) \in Seq(Op) /\ Len(Tail(q)) = Len(q) - 1
           /\ \A i \in 1..Len(Tail(q)) : Tail(q)[i] = q[i + 1] /\ i + 1 \in 1..Len(q)
  OBVIOUS

LEMMA AppendAt ==
    ASSUME NEW q \in Seq(Op), NEW op \in Op
    PROVE  /\ Len(q) \in Nat /\ Append(q, op) \in Seq(Op)
           /\ Len(Append(q, op)) = Len(q) + 1
           /\ Append(q, op)[Len(q) + 1] = op
           /\ \A i \in 1..Len(q) : Append(q, op)[i] = q[i]
  OBVIOUS

LEMMA SaysTail ==
    ASSUME NEW q \in Seq(Op), q # <<>>, NEW x, NEW g, NEW voters, NEW stored, NEW next,
           Says(q, x, g, voters, stored),
           g \in next <=> IF Ballot(Head(q), x, g) THEN Head(q).kind = "vote"
                                                   ELSE g \in stored
    PROVE  Says(Tail(q), x, g, voters, next)
<1> DEFINE n == Len(q)
           r == Tail(q)
<1>1. /\ n \in Nat /\ n >= 1 /\ Head(q) = q[1] /\ Len(r) = n - 1
      /\ \A i \in 1..Len(r) : r[i] = q[i + 1] /\ i + 1 \in 1..n
  BY TailAt
<1>2. \A j \in 1..n : j > 1 => j - 1 \in 1..Len(r) /\ r[j - 1] = q[j]
  BY <1>1
<1> HIDE DEF r, n
<1>s. /\ \A i \in 1..n :
            Ballot(q[i], x, g) /\ (\A j \in 1..n : j > i => ~Ballot(q[j], x, g))
                => (q[i].kind = "vote" <=> g \in voters)
      /\ (\A i \in 1..n : ~Ballot(q[i], x, g)) => (g \in stored <=> g \in voters)
  BY DEF Says, n
<1>3. ASSUME NEW i \in 1..Len(r), Ballot(r[i], x, g),
             \A j \in 1..Len(r) : j > i => ~Ballot(r[j], x, g)
      PROVE  r[i].kind = "vote" <=> g \in voters
  <2>1. r[i] = q[i + 1] /\ i + 1 \in 1..n
    BY <1>1
  <2>2. ASSUME NEW j \in 1..n, j > i + 1 PROVE ~Ballot(q[j], x, g)
    <3>1. j - 1 \in 1..Len(r) /\ r[j - 1] = q[j] /\ j - 1 > i
      BY <1>1, <1>2, <2>2
    <3> QED
      BY <1>3, <3>1
  <2> QED
    BY <1>3, <1>s, <2>1, <2>2
<1>4. ASSUME \A i \in 1..Len(r) : ~Ballot(r[i], x, g)
      PROVE  g \in next <=> g \in voters
  <2>1. \A j \in 1..n : j > 1 => ~Ballot(q[j], x, g)
    BY <1>2, <1>4
  <2>2. 1 \in 1..n
    BY <1>1
  <2>3. CASE Ballot(q[1], x, g)
    BY <1>1, <1>s, <2>1, <2>2, <2>3
  <2>4. CASE ~Ballot(q[1], x, g)
    <3>1. \A j \in 1..n : ~Ballot(q[j], x, g)
      BY <1>1, <2>1, <2>4
    <3> QED
      BY <1>1, <1>s, <2>4, <3>1
  <2> QED
    BY <2>3, <2>4
<1> QED
  BY <1>3, <1>4 DEF Says, r

LEMMA SaysAppend ==
    ASSUME NEW q \in Seq(Op), NEW op \in Op, NEW x, NEW g, NEW voters, NEW stored,
           IF Ballot(op, x, g) THEN op.kind = "vote" <=> g \in voters
                               ELSE Says(q, x, g, voters, stored)
    PROVE  Says(Append(q, op), x, g, voters, stored)
<1> DEFINE n == Len(q)
           r == Append(q, op)
<1>1. /\ n \in Nat /\ Len(r) = n + 1 /\ r[n + 1] = op
      /\ \A i \in 1..n : r[i] = q[i]
  BY AppendAt
<1> HIDE DEF r, n
<1>2. n + 1 \in 1..Len(r) /\ \A i \in 1..n : i \in 1..Len(r) /\ n + 1 > i
  BY <1>1
<1>3. \A i \in 1..Len(r) : i = n + 1 \/ i \in 1..n
  BY <1>1
<1>4. CASE Ballot(op, x, g)
  <2>1. ASSUME NEW i \in 1..Len(r), Ballot(r[i], x, g),
               \A j \in 1..Len(r) : j > i => ~Ballot(r[j], x, g)
        PROVE  r[i].kind = "vote" <=> g \in voters
    <3>1. i = n + 1
      BY <1>1, <1>2, <1>3, <1>4, <2>1
    <3> QED
      BY <1>1, <1>4, <3>1
  <2>2. ~ \A i \in 1..Len(r) : ~Ballot(r[i], x, g)
    BY <1>1, <1>2, <1>4
  <2> QED
    BY <2>1, <2>2 DEF Says, r
<1>5. CASE ~Ballot(op, x, g)
  <2>s. /\ \A i \in 1..n :
              Ballot(q[i], x, g) /\ (\A j \in 1..n : j > i => ~Ballot(q[j], x, g))
                  => (q[i].kind = "vote" <=> g \in voters)
        /\ (\A i \in 1..n : ~Ballot(q[i], x, g)) => (g \in stored <=> g \in voters)
    BY <1>5 DEF Says, n
  <2>1. ASSUME NEW i \in 1..Len(r), Ballot(r[i], x, g),
               \A j \in 1..Len(r) : j > i => ~Ballot(r[j], x, g)
        PROVE  r[i].kind = "vote" <=> g \in voters
    <3>1. i \in 1..n /\ r[i] = q[i]
      BY <1>1, <1>3, <1>5, <2>1
    <3>2. \A j \in 1..n : j > i => ~Ballot(q[j], x, g)
      BY <1>1, <1>2, <2>1
    <3> QED
      BY <2>1, <2>s, <3>1, <3>2
  <2>2. ASSUME \A i \in 1..Len(r) : ~Ballot(r[i], x, g)
        PROVE  g \in stored <=> g \in voters
    <3>1. \A i \in 1..n : ~Ballot(q[i], x, g)
      BY <1>1, <1>2, <2>2
    <3> QED
      BY <2>s, <3>1
  <2> QED
    BY <2>1, <2>2 DEF Says, r
<1> QED
  BY <1>4, <1>5

LEMMA GroundedTail ==
    ASSUME NEW q \in Seq(Op), q # <<>>, NEW t \in Tables, Grounded(q, t.rows)
    PROVE  /\ Accepts(t, Head(q))
           /\ Grounded(Tail(q), Apply(t, Head(q)).rows)
<1> DEFINE n == Len(q)
           r == Tail(q)
           op == Head(q)
           rows == Apply(t, op).rows
<1>1. /\ n \in Nat /\ n >= 1 /\ op = q[1] /\ op \in Op /\ Len(r) = n - 1
      /\ \A i \in 1..Len(r) : r[i] = q[i + 1] /\ i + 1 \in 1..n
  BY TailAt
<1>2. \A j \in 1..n : j > 1 => j - 1 \in 1..Len(r) /\ r[j - 1] = q[j]
  BY <1>1
<1>3. \A x \in Items : x \in rows <=> Makes(op, x) \/ (x \in t.rows /\ ~Drops(op, x))
  BY <1>1, ApplyRows
<1> HIDE DEF r, n, op, rows
<1>g. \A k \in 1..n, x \in Items : q[k].kind = "vote" /\ q[k].item = x =>
          /\ \A j \in 1..n : j < k => ~Drops(q[j], x)
          /\ x \in t.rows \/ \E j \in 1..n : j < k /\ Makes(q[j], x)
  BY DEF Grounded, n
<1>4. 1 \in 1..n
  BY <1>1
<1>5. Accepts(t, op)
  <2>1. op.item \in Items
    BY <1>1, OpShapes
  <2>2. ~ \E j \in 1..n : j < 1
    BY <1>1
  <2> QED
    BY <1>1, <1>4, <1>g, <2>1, <2>2 DEF Accepts
<1>6. ASSUME NEW k \in 1..Len(r), NEW x \in Items, r[k].kind = "vote", r[k].item = x
      PROVE  /\ \A j \in 1..Len(r) : j < k => ~Drops(r[j], x)
             /\ x \in rows \/ \E j \in 1..Len(r) : j < k /\ Makes(r[j], x)
  <2>1. r[k] = q[k + 1] /\ k + 1 \in 1..n
    BY <1>1
  <2>2. /\ \A j \in 1..n : j < k + 1 => ~Drops(q[j], x)
        /\ x \in t.rows \/ \E j \in 1..n : j < k + 1 /\ Makes(q[j], x)
    BY <1>6, <1>g, <2>1
  <2>3. ASSUME NEW j \in 1..Len(r), j < k PROVE ~Drops(r[j], x)
    <3>1. r[j] = q[j + 1] /\ j + 1 \in 1..n /\ j + 1 < k + 1
      BY <1>1, <2>3
    <3> QED
      BY <2>2, <3>1
  <2>4. ~Drops(op, x)
    <3>1. 1 < k + 1
      OBVIOUS
    <3> QED
      BY <1>1, <1>4, <2>2, <3>1
  <2>5. CASE x \in t.rows
    BY <1>3, <2>3, <2>4, <2>5
  <2>6. CASE \E j \in 1..n : j < k + 1 /\ Makes(q[j], x)
    <3>1. PICK j \in 1..n : j < k + 1 /\ Makes(q[j], x)
      BY <2>6
    <3>2. CASE j = 1
      BY <1>1, <1>3, <2>3, <3>1, <3>2
    <3>3. CASE j # 1
      <4>1. j - 1 \in 1..Len(r) /\ r[j - 1] = q[j] /\ j - 1 < k
        BY <1>1, <1>2, <3>1, <3>3
      <4> QED
        BY <2>3, <3>1, <4>1
    <3> QED
      BY <3>2, <3>3
  <2> QED
    BY <2>2, <2>5, <2>6
<1> QED
  BY <1>5, <1>6 DEF Grounded, r, op, rows

LEMMA GroundedAppend ==
    ASSUME NEW q \in Seq(Op), NEW op \in Op, NEW rows, Grounded(q, rows),
           op.kind = "vote" =>
              /\ \A j \in 1..Len(q) : ~Drops(q[j], op.item)
              /\ op.item \in rows \/ \E j \in 1..Len(q) : Makes(q[j], op.item)
    PROVE  Grounded(Append(q, op), rows)
<1> DEFINE n == Len(q)
           r == Append(q, op)
<1>1. /\ n \in Nat /\ Len(r) = n + 1 /\ r[n + 1] = op
      /\ \A i \in 1..n : r[i] = q[i]
  BY AppendAt
<1>o. op.kind = "vote" =>
          /\ \A j \in 1..n : ~Drops(q[j], op.item)
          /\ op.item \in rows \/ \E j \in 1..n : Makes(q[j], op.item)
  OBVIOUS
<1> HIDE DEF r, n
<1>2. \A i \in 1..n : i \in 1..Len(r) /\ i < n + 1
  BY <1>1
<1>3. \A i \in 1..Len(r) : i = n + 1 \/ i \in 1..n
  BY <1>1
<1>g. \A k \in 1..n, x \in Items : q[k].kind = "vote" /\ q[k].item = x =>
          /\ \A j \in 1..n : j < k => ~Drops(q[j], x)
          /\ x \in rows \/ \E j \in 1..n : j < k /\ Makes(q[j], x)
  BY DEF Grounded, n
<1>4. ASSUME NEW k \in 1..Len(r), NEW x \in Items, r[k].kind = "vote", r[k].item = x
      PROVE  /\ \A j \in 1..Len(r) : j < k => ~Drops(r[j], x)
             /\ x \in rows \/ \E j \in 1..Len(r) : j < k /\ Makes(r[j], x)
  <2>1. CASE k = n + 1
    <3>1. \A j \in 1..Len(r) : j < k => j \in 1..n
      BY <1>1, <1>3, <2>1
    <3> QED
      BY <1>1, <1>2, <1>4, <1>o, <2>1, <3>1
  <2>2. CASE k \in 1..n
    <3>1. \A j \in 1..Len(r) : j < k => j \in 1..n
      BY <1>1, <1>3, <2>2
    <3> QED
      BY <1>1, <1>2, <1>4, <1>g, <2>2, <3>1
  <2> QED
    BY <1>3, <2>1, <2>2
<1> QED
  BY <1>4 DEF Grounded, r

\* A handler begins.  What becomes listed is new, with its row to be made;
\* votes change with a ballot only.
LEMMA BeginStored ==
    ASSUME IInv, StoredInv, NEW a \in Actors, NEW next \in Job, Begin(a, next),
           next.step \in {"copied", "tell"},
           UNCHANGED <<queue, applied, work, db, lost>>,
           listed' \subseteq Items,
           next.step = "tell" =>
              /\ next.op.item \in next.on
              /\ next.op.kind = "promote" => next.op.topic \in next.on
              /\ next.op.kind \in {"vote", "unvote"} =>
                    a \in Tabs /\ next.op.by = OwnerOf[a]
              /\ \A x \in listed' : ~Drops(next.op, x)
              /\ next.op.kind = "vote" =>
                    next.op.item \in listed' \/ <<next.op.item, "gone">> \in crossed'
              /\ \A x \in listed', g \in Guests : Ballot(next.op, x, g) =>
                    (next.op.kind = "vote" <=> g \in index'[x]),
           \A x \in listed' :
              \/ x \in listed
              \/ x \notin used /\ index'[x] = {} /\ next.step = "tell" /\ Makes(next.op, x),
           \A x \in listed \ listed' : x \in next.on,
           \A x \in listed' \cap listed, g \in Guests :
              \/ g \in index'[x] <=> g \in index[x]
              \/ next.step = "tell" /\ Ballot(next.op, x, g)
    PROVE  StoredInv'
<1>1. /\ job[a] = Idle
      /\ job'[a] = next
      /\ \A b \in Actors \ {a} : job'[b] = job[b]
      /\ crossed \subseteq crossed'
      /\ \A b \in Actors \ {a}, x \in next.on :
            job[b] # Idle /\ x \in job[b].on => <<x, Overlap(a, b)>> \in crossed'
  BY Begun DEF IInv
<1>2. ~Due(a) /\ (Due(a)' <=> next.step = "tell")
      /\ \A b \in Actors \ {a} : (Due(b)' <=> Due(b)) /\ (Due(b) => job[b] # Idle)
  BY <1>1 DEF Due, Idle
<1>3. Ours'
  <2> SUFFICES ASSUME NEW b \in Actors, Due(b)'
               PROVE  LET op == job'[b].op
                      IN  /\ op.item \in job'[b].on
                          /\ op.kind = "promote" => op.topic \in job'[b].on
                          /\ op.kind \in {"vote", "unvote"} => b \in Tabs /\ op.by = OwnerOf[b]
    BY DEF Ours
  <2>1. CASE b = a
    BY <1>1, <1>2, <2>1
  <2>2. CASE b # a
    BY <1>1, <1>2, <2>2 DEF StoredInv, Ours
  <2> QED
    BY <2>1, <2>2
\* Nothing sent or to be sent is about an id that is not given out.
<1>4. ASSUME NEW x \in Items \ used
      PROVE  /\ \A i \in 1..Len(queue) :
                    ~Drops(queue[i], x) /\ \A g : ~Ballot(queue[i], x, g)
             /\ \A b \in Actors : Due(b) =>
                    ~Drops(job[b].op, x) /\ \A g : ~Ballot(job[b].op, x, g)
             /\ work.votes[x] = {}
  <2>1. \A i \in 1..Len(queue) : queue[i].item # x
    BY DEF IInv, UsedOnly, Known
  <2>2. \A b \in Actors : Due(b) => job[b].op.item # x
    BY DEF IInv, UsedOnly, Known, Due
  <2>3. work.votes[x] = {}
    BY DEF IInv, UsedOnly, Rooted
  <2> QED
    BY <2>1, <2>2, <2>3 DEF Drops, Ballot
<1>5. Clear'
  <2> SUFFICES ASSUME NEW x \in listed'
               PROVE  /\ \A i \in 1..Len(queue) : ~Drops(queue[i], x)
                      /\ \A b \in Actors : Due(b)' => ~Drops(job'[b].op, x)
    BY DEF Clear
  <2>1. /\ \A i \in 1..Len(queue) : ~Drops(queue[i], x)
        /\ \A b \in Actors : Due(b) => ~Drops(job[b].op, x)
    BY <1>4 DEF StoredInv, Clear
  <2>2. ASSUME NEW b \in Actors, Due(b)' PROVE ~Drops(job'[b].op, x)
    BY <1>1, <1>2, <2>1, <2>2
  <2> QED
    BY <2>1, <2>2
<1>6. ASSUME ~lost PROVE Backed'
  <2> SUFFICES ASSUME NEW x \in listed'
               PROVE  \/ x \in work.rows
                      \/ \E i \in 1..Len(queue) : Makes(queue[i], x)
                      \/ \E b \in Actors : Due(b)' /\ Makes(job'[b].op, x)
    BY DEF Backed
  <2>1. CASE x \in listed
    <3>1. \/ x \in work.rows
          \/ \E i \in 1..Len(queue) : Makes(queue[i], x)
          \/ \E b \in Actors : Due(b) /\ Makes(job[b].op, x)
      BY <1>6, <2>1 DEF StoredInv, Backed
    <3>2. ASSUME NEW b \in Actors, Due(b), Makes(job[b].op, x)
          PROVE  Due(b)' /\ Makes(job'[b].op, x)
      <4>1. b # a
        BY <1>2, <3>2
      <4> QED
        BY <1>1, <1>2, <3>2, <4>1
    <3> QED
      BY <3>1, <3>2
  <2>2. CASE x \notin listed
    BY <1>1, <1>2, <2>2
  <2> QED
    BY <2>1, <2>2
<1>7. ASSUME ~lost PROVE Tallied'
  <2> SUFFICES ASSUME NEW x \in listed', NEW g \in Guests, <<x, "self">> \notin crossed'
               PROVE  Told(x, g)'
    BY DEF Tallied
  <2>0. x \in Items /\ <<x, "self">> \notin crossed
    BY <1>1
  <2>1. CASE x \notin listed
    <3>1. x \notin used /\ index'[x] = {} /\ next.step = "tell" /\ Makes(next.op, x)
      BY <2>1
    <3>2. \A b \in Actors : Due(b)' => ~Ballot(job'[b].op, x, g)
      <4>1. ~Ballot(next.op, x, g)
        BY <3>1 DEF Makes, Ballot
      <4> QED
        BY <1>1, <1>2, <1>4, <2>0, <3>1, <4>1
    <3>3. Says(queue, x, g, index'[x], work.votes[x])
      BY <1>4, <2>0, <3>1 DEF Says
    <3> QED
      BY <3>2, <3>3 DEF Told
  <2>2. CASE x \in listed
    <3>1. Told(x, g)
      BY <1>7, <2>0, <2>2 DEF StoredInv, Tallied
    <3>2. CASE next.step = "tell" /\ Ballot(next.op, x, g)
      <4>1. a \in Tabs /\ g = OwnerOf[a] /\ x \in next.on
        BY <3>2 DEF Ballot
      <4>2. ASSUME NEW b \in Actors, b # a, Due(b), Ballot(job[b].op, x, g)
            PROVE  FALSE
        <5>1. b \in Tabs /\ g = OwnerOf[b] /\ x \in job[b].on
          BY <4>2 DEF StoredInv, Ours, Ballot
        <5>2. Overlap(a, b) = "self"
          BY <4>1, <5>1, VotesAssumption DEF Overlap, Owner
        <5> QED
          BY <1>1, <1>2, <4>1, <4>2, <5>1, <5>2
      <4>3. ASSUME NEW b \in Actors, Due(b)', Ballot(job'[b].op, x, g)
            PROVE  job'[b].op.kind = "vote" <=> g \in index'[x]
        <5>1. b = a
          BY <1>1, <1>2, <4>2, <4>3
        <5> QED
          BY <1>1, <3>2, <5>1
      <4>4. Due(a)' /\ Ballot(job'[a].op, x, g)
        BY <1>1, <1>2, <3>2
      <4> QED
        BY <4>3, <4>4 DEF Told
    <3>3. CASE ~(next.step = "tell" /\ Ballot(next.op, x, g))
      <4>1. g \in index'[x] <=> g \in index[x]
        BY <2>2, <3>3
      <4>2. ASSUME NEW b \in Actors
            PROVE  Due(b)' /\ Ballot(job'[b].op, x, g) <=>
                      Due(b) /\ Ballot(job[b].op, x, g) /\ job'[b] = job[b]
        BY <1>1, <1>2, <3>3
      <4>3. ASSUME NEW b \in Actors, Due(b), Ballot(job[b].op, x, g)
            PROVE  Due(b)' /\ Ballot(job'[b].op, x, g)
        <5>1. b # a
          BY <1>2, <4>3
        <5> QED
          BY <1>1, <1>2, <4>3, <5>1
      <4>4. ASSUME NEW b \in Actors, Due(b)', Ballot(job'[b].op, x, g)
            PROVE  job'[b].op.kind = "vote" <=> g \in index'[x]
        BY <3>1, <4>1, <4>2, <4>4 DEF Told
      <4>5. ASSUME \A b \in Actors : ~(Due(b)' /\ Ballot(job'[b].op, x, g))
            PROVE  Says(queue, x, g, index'[x], work.votes[x])
        <5>1. Says(queue, x, g, index[x], work.votes[x])
          BY <3>1, <4>3, <4>5 DEF Told
        <5> QED
          BY <4>1, <5>1 DEF Says
      <4> QED
        BY <4>4, <4>5 DEF Told
    <3> QED
      BY <3>2, <3>3
  <2> QED
    BY <2>1, <2>2
<1>8. Smooth'
  <2> SUFFICES ASSUME crossed' = {}
               PROVE  /\ ~lost
                      /\ \A x \in Items : Alone(x)'
                      /\ \A b \in Actors : Due(b)' /\ job'[b].op.kind = "vote"
                                               => job'[b].op.item \in listed'
                      /\ Grounded(queue, work.rows)
    BY DEF Smooth
  <2>1. /\ ~lost /\ Grounded(queue, work.rows)
        /\ \A x \in Items : Alone(x)
        /\ \A b \in Actors : Due(b) /\ job[b].op.kind = "vote" => job[b].op.item \in listed
    BY <1>1 DEF StoredInv, Smooth
  <2>2. \A b \in Actors \ {a}, x \in next.on : ~(job[b] # Idle /\ x \in job[b].on)
    BY <1>1
  <2>3. ASSUME NEW x \in Items PROVE Alone(x)'
    <3>1. \A b \in Actors \ {a} : On(b, x)' <=> On(b, x)
      BY <1>1 DEF On
    <3>2. On(a, x)' => x \in next.on
      BY <1>1 DEF On
    <3>3. On(a, x)' => \A b \in Actors \ {a} : ~On(b, x)
      BY <2>2, <3>2 DEF On
    <3> QED
      BY <2>1, <3>1, <3>3 DEF Alone
  <2>4. ASSUME NEW b \in Actors, Due(b)', job'[b].op.kind = "vote"
        PROVE  job'[b].op.item \in listed'
    <3>1. CASE b = a
      BY <1>1, <1>2, <2>4, <3>1
    <3>2. CASE b # a
      <4>1. job[b].op.item \in listed /\ job'[b] = job[b] /\ Due(b) /\ job[b] # Idle
        BY <1>1, <1>2, <2>1, <2>4, <3>2
      <4>2. job[b].op.item \in job[b].on
        BY <4>1 DEF StoredInv, Ours
      <4>3. job[b].op.item \notin next.on
        BY <2>2, <3>2, <4>1, <4>2
      <4> QED
        BY <4>1, <4>3
    <3> QED
      BY <3>1, <3>2
  <2> QED
    BY <2>1, <2>3, <2>4
<1>9. applied' = 0 => work' = db'
  BY DEF StoredInv
<1>10. lost' = lost
  OBVIOUS
<1> QED
  BY <1>3, <1>5, <1>6, <1>7, <1>8, <1>9, <1>10 DEF StoredInv

\* A handler goes on: what it is to send is what it was, or settles a question
\* that was copied.
LEMMA GoesOnStored ==
    ASSUME StoredInv, Ours',
           UNCHANGED <<listed, index, queue, applied, work, db, crossed, lost>>,
           \A b \in Actors : Due(b) => Due(b)' /\ job'[b].op = job[b].op,
           \A b \in Actors : Due(b)' => Due(b) \/ job'[b].op.kind = "answered",
           \A b \in Actors, x \in Items : On(b, x)' => On(b, x)
    PROVE  StoredInv'
<1> DEFINE kinds == {"add", "delete", "promote", "vote", "unvote"}
<1>1. ASSUME NEW b \in Actors, Due(b)', job'[b].op.kind \in kinds
      PROVE  Due(b) /\ job'[b].op = job[b].op
  BY <1>1
<1>2. Clear'
  BY <1>1 DEF StoredInv, Clear, Drops
<1>3. ~lost => Backed'
  <2> SUFFICES ASSUME ~lost, NEW x \in listed
               PROVE  \/ x \in work.rows
                      \/ \E i \in 1..Len(queue) : Makes(queue[i], x)
                      \/ \E b \in Actors : Due(b)' /\ Makes(job'[b].op, x)
    BY DEF Backed
  <2>1. \/ x \in work.rows
        \/ \E i \in 1..Len(queue) : Makes(queue[i], x)
        \/ \E b \in Actors : Due(b) /\ Makes(job[b].op, x)
    BY DEF StoredInv, Backed
  <2> QED
    BY <2>1
<1>4. ~lost => Tallied'
  <2> SUFFICES ASSUME ~lost, NEW x \in listed, NEW g \in Guests, <<x, "self">> \notin crossed
               PROVE  Told(x, g)'
    BY DEF Tallied
  <2>1. Told(x, g)
    BY DEF StoredInv, Tallied
  <2>2. ASSUME NEW b \in Actors
        PROVE  (Due(b)' /\ Ballot(job'[b].op, x, g)) <=> (Due(b) /\ Ballot(job[b].op, x, g))
    BY <1>1 DEF Ballot
  <2>3. ASSUME NEW b \in Actors, Due(b)', Ballot(job'[b].op, x, g)
        PROVE  job'[b].op.kind = "vote" <=> g \in index[x]
    <3>1. Due(b) /\ Ballot(job[b].op, x, g) /\ job'[b].op = job[b].op
      BY <2>2, <2>3
    <3> QED
      BY <2>1, <3>1 DEF Told
  <2>4. ASSUME \A b \in Actors : ~(Due(b)' /\ Ballot(job'[b].op, x, g))
        PROVE  Says(queue, x, g, index[x], work.votes[x])
    BY <2>1, <2>2, <2>4 DEF Told
  <2> QED
    BY <2>3, <2>4 DEF Told
<1>5. Smooth'
  <2> SUFFICES ASSUME crossed = {}
               PROVE  /\ ~lost
                      /\ \A x \in Items : Alone(x)'
                      /\ \A b \in Actors : Due(b)' /\ job'[b].op.kind = "vote"
                                               => job'[b].op.item \in listed
                      /\ Grounded(queue, work.rows)
    BY DEF Smooth
  <2>1. /\ ~lost /\ Grounded(queue, work.rows)
        /\ \A x \in Items : Alone(x)
        /\ \A b \in Actors : Due(b) /\ job[b].op.kind = "vote" => job[b].op.item \in listed
    BY DEF StoredInv, Smooth
  <2>2. \A x \in Items : Alone(x)'
    BY <2>1 DEF Alone
  <2> QED
    BY <1>1, <2>1, <2>2
<1> QED
  BY <1>2, <1>3, <1>4, <1>5 DEF StoredInv

LEMMA WriteBackStored ==
    ASSUME IInv, StoredInv, NEW h \in Hosts, WriteCopyBack(h)
    PROVE  StoredInv'
<1> DEFINE c == job[h]
<1>1. /\ h \in Actors /\ c \in Job /\ c.step = "copied" /\ c.item \in c.on /\ c # Idle
      /\ UNCHANGED <<listed, index, queue, applied, work, db, crossed, lost>>
  <2>1. h \in Actors /\ c.step = "copied" /\ c # Idle
    BY DEF WriteCopyBack, Actors, Idle
  <2>2. c \in Job /\ c.item \in c.on
    BY <2>1 DEF IInv, TypeOK, Copies
  <2>3. UNCHANGED <<listed, index, queue, applied, work, db, crossed, lost>>
    BY DEF WriteCopyBack, tableVars
  <2> QED
    BY <2>1, <2>2, <2>3
<1> DEFINE next == Tell({c.item}, [kind |-> "updated", item |-> c.item, votes |-> c.votes],
                        [kind |-> "answered", item |-> c.item, to |-> c.to])
<1>2. PICK j \in {Idle, next} : job' = [job EXCEPT ![h] = j]
  BY DEF WriteCopyBack
<1>3. /\ next.step = "tell" /\ next.op.kind = "answered" /\ next.op.item = c.item
      /\ next.on = {c.item} /\ Idle.step = "idle"
  BY DEF Tell, Idle
<1> HIDE DEF next
<1>4. /\ job'[h] = j /\ \A b \in Actors \ {h} : job'[b] = job[b]
  BY <1>1, <1>2 DEF IInv, TypeOK
<1>5. ~Due(h) /\ (Due(h)' => j = next)
  BY <1>1, <1>3, <1>4 DEF Due
<1>6. Ours'
  <2> SUFFICES ASSUME NEW b \in Actors, Due(b)'
               PROVE  LET op == job'[b].op
                      IN  /\ op.item \in job'[b].on
                          /\ op.kind = "promote" => op.topic \in job'[b].on
                          /\ op.kind \in {"vote", "unvote"} => b \in Tabs /\ op.by = OwnerOf[b]
    BY DEF Ours
  <2>1. CASE b = h
    BY <1>3, <1>4, <1>5, <2>1
  <2>2. CASE b # h
    <3>1. job'[b] = job[b] /\ Due(b)
      BY <1>4, <2>2 DEF Due
    <3> QED
      BY <3>1 DEF StoredInv, Ours
  <2> QED
    BY <2>1, <2>2
<1>7. \A b \in Actors : Due(b) => Due(b)' /\ job'[b].op = job[b].op
  BY <1>4, <1>5 DEF Due
<1>8. \A b \in Actors : Due(b)' => Due(b) \/ job'[b].op.kind = "answered"
  BY <1>3, <1>4, <1>5 DEF Due
<1>9. \A b \in Actors, x \in Items : On(b, x)' => On(b, x)
  BY <1>1, <1>2, <1>3, <1>4 DEF On
<1> QED
  BY <1>1, <1>6, <1>7, <1>8, <1>9, GoesOnStored

LEMMA BroadcastStored ==
    ASSUME IInv, StoredInv, NEW a \in Actors, Broadcast(a)
    PROVE  StoredInv'
<1> DEFINE next == [step |-> "save", on |-> job[a].on, op |-> job[a].op]
<1>1. /\ job[a].step = "tell" /\ job[a] # Idle /\ job' = [job EXCEPT ![a] = next]
      /\ UNCHANGED <<listed, index, queue, applied, work, db, crossed, lost>>
  BY DEF Broadcast, roomVars, tableVars, Idle
<1>2. next.step = "save" /\ next.on = job[a].on /\ next.op = job[a].op
  OBVIOUS
<1> HIDE DEF next
<1>3. job'[a] = next /\ \A b \in Actors \ {a} : job'[b] = job[b]
  BY <1>1 DEF IInv, TypeOK
<1>4. \A b \in Actors : /\ Due(b)' <=> Due(b)
                        /\ Due(b) => job'[b].op = job[b].op /\ job'[b].on = job[b].on
  BY <1>1, <1>2, <1>3 DEF Due
<1>5. Ours'
  BY <1>4 DEF StoredInv, Ours
<1>6. \A b \in Actors, x \in Items : On(b, x)' => On(b, x)
  BY <1>1, <1>2, <1>3 DEF On
<1> QED
  BY <1>1, <1>4, <1>5, <1>6, GoesOnStored

\* The operation moves from the handler to the end of the channel.  A vote of
\* a handler that nobody overlapped is for something listed, whose row nobody
\* else is about to make.
LEMMA EnqueueStored ==
    ASSUME IInv, StoredInv, NEW a \in Actors, Enqueue(a)
    PROVE  StoredInv'
<1> DEFINE op == job[a].op
           n  == Len(queue)
<1>1. /\ job[a].step = "save" /\ op \in Op /\ queue \in Seq(Op) /\ job[a] # Idle
      /\ UNCHANGED <<listed, index, applied, work, db, crossed, lost>>
      /\ queue' = Append(queue, op) /\ job' = [job EXCEPT ![a] = Idle]
  BY JobShapes DEF Enqueue, IInv, TypeOK, roomVars, Idle
<1>2. /\ job'[a] = Idle /\ \A b \in Actors \ {a} : job'[b] = job[b]
  BY <1>1, GoesOn DEF IInv
<1>3. /\ n \in Nat /\ Len(queue') = n + 1 /\ queue'[n + 1] = op
      /\ \A i \in 1..n : queue'[i] = queue[i] /\ i \in 1..Len(queue')
      /\ n + 1 \in 1..Len(queue')
  BY <1>1, AppendAt
<1>4. \A i \in 1..Len(queue') : i = n + 1 \/ i \in 1..n
  BY <1>3
<1>5. /\ Due(a) /\ ~Due(a)'
      /\ \A b \in Actors \ {a} : Due(b)' <=> Due(b)
  BY <1>1, <1>2 DEF Due, Idle
<1> HIDE DEF op, n
<1>6. op = job[a].op
  BY DEF op
<1>7. Ours'
  BY <1>2, <1>5 DEF StoredInv, Ours
<1>8. Clear'
  <2> SUFFICES ASSUME NEW x \in listed
               PROVE  /\ \A i \in 1..Len(queue') : ~Drops(queue'[i], x)
                      /\ \A b \in Actors : Due(b)' => ~Drops(job'[b].op, x)
    BY <1>1 DEF Clear
  <2>1. /\ \A i \in 1..n : ~Drops(queue[i], x)
        /\ \A b \in Actors : Due(b) => ~Drops(job[b].op, x)
    BY DEF StoredInv, Clear, n
  <2>2. ASSUME NEW i \in 1..Len(queue') PROVE ~Drops(queue'[i], x)
    BY <1>3, <1>4, <1>5, <1>6, <2>1, <2>2
  <2>3. ASSUME NEW b \in Actors, Due(b)' PROVE ~Drops(job'[b].op, x)
    BY <1>2, <1>5, <2>1, <2>3
  <2> QED
    BY <2>2, <2>3
<1>9. ~lost => Backed'
  <2> SUFFICES ASSUME ~lost, NEW x \in listed
               PROVE  \/ x \in work.rows
                      \/ \E i \in 1..Len(queue') : Makes(queue'[i], x)
                      \/ \E b \in Actors : Due(b)' /\ Makes(job'[b].op, x)
    BY <1>1 DEF Backed
  <2>1. \/ x \in work.rows
        \/ \E i \in 1..n : Makes(queue[i], x)
        \/ \E b \in Actors : Due(b) /\ Makes(job[b].op, x)
    BY DEF StoredInv, Backed, n
  <2>2. ASSUME NEW i \in 1..n, Makes(queue[i], x)
        PROVE  \E k \in 1..Len(queue') : Makes(queue'[k], x)
    BY <1>3, <2>2
  <2>3. ASSUME NEW b \in Actors, Due(b), Makes(job[b].op, x)
        PROVE  \/ \E i \in 1..Len(queue') : Makes(queue'[i], x)
               \/ \E d \in Actors : Due(d)' /\ Makes(job'[d].op, x)
    <3>1. CASE b = a
      BY <1>3, <1>6, <2>3, <3>1
    <3>2. CASE b # a
      BY <1>2, <1>5, <2>3, <3>2
    <3> QED
      BY <3>1, <3>2
  <2> QED
    BY <2>1, <2>2, <2>3
<1>10. ~lost => Tallied'
  <2> SUFFICES ASSUME ~lost, NEW x \in listed, NEW g \in Guests, <<x, "self">> \notin crossed
               PROVE  Told(x, g)'
    BY <1>1 DEF Tallied
  <2>1. Told(x, g)
    BY DEF StoredInv, Tallied
  <2>2. ASSUME NEW b \in Actors, Due(b)', Ballot(job'[b].op, x, g)
        PROVE  job'[b].op.kind = "vote" <=> g \in index[x]
    <3>1. Due(b) /\ job'[b] = job[b]
      BY <1>2, <1>5, <2>2
    <3> QED
      BY <2>1, <2>2, <3>1 DEF Told
  <2>3. ASSUME \A b \in Actors : ~(Due(b)' /\ Ballot(job'[b].op, x, g))
        PROVE  Says(queue', x, g, index[x], work.votes[x])
    <3>1. CASE Ballot(op, x, g)
      <4>1. op.kind = "vote" <=> g \in index[x]
        BY <1>5, <1>6, <2>1, <3>1 DEF Told
      <4> QED
        BY <1>1, <3>1, <4>1, SaysAppend
    <3>2. CASE ~Ballot(op, x, g)
      <4>1. \A b \in Actors : ~(Due(b) /\ Ballot(job[b].op, x, g))
        BY <1>2, <1>5, <1>6, <2>3, <3>2
      <4>2. Says(queue, x, g, index[x], work.votes[x])
        BY <2>1, <4>1 DEF Told
      <4> QED
        BY <1>1, <3>2, <4>2, SaysAppend
    <3> QED
      BY <3>1, <3>2
  <2> QED
    BY <1>1, <2>2, <2>3 DEF Told
<1>11. Smooth'
  <2> SUFFICES ASSUME crossed = {}
               PROVE  /\ ~lost
                      /\ \A x \in Items : Alone(x)'
                      /\ \A b \in Actors : Due(b)' /\ job'[b].op.kind = "vote"
                                               => job'[b].op.item \in listed
                      /\ Grounded(queue', work.rows)
    BY <1>1 DEF Smooth
  <2>1. /\ ~lost /\ Grounded(queue, work.rows)
        /\ \A x \in Items : Alone(x)
        /\ \A b \in Actors : Due(b) /\ job[b].op.kind = "vote" => job[b].op.item \in listed
    BY DEF StoredInv, Smooth
  <2>2. \A x \in Items : Alone(x)'
    <3>1. \A b \in Actors, x \in Items : On(b, x)' => On(b, x)
      BY <1>2 DEF On
    <3> QED
      BY <2>1, <3>1 DEF Alone
  <2>3. ASSUME NEW b \in Actors, Due(b)', job'[b].op.kind = "vote"
        PROVE  job'[b].op.item \in listed
    BY <1>2, <1>5, <2>1, <2>3
  <2>4. ASSUME op.kind = "vote"
        PROVE  /\ \A j \in 1..Len(queue) : ~Drops(queue[j], op.item)
               /\ op.item \in work.rows \/ \E j \in 1..Len(queue) : Makes(queue[j], op.item)
    <3>1. op.item \in listed
      BY <1>5, <1>6, <2>1, <2>4
    <3>2. \A j \in 1..Len(queue) : ~Drops(queue[j], op.item)
      BY <3>1 DEF StoredInv, Clear
    <3>3. \/ op.item \in work.rows
          \/ \E i \in 1..Len(queue) : Makes(queue[i], op.item)
          \/ \E b \in Actors : Due(b) /\ Makes(job[b].op, op.item)
      BY <2>1, <3>1 DEF StoredInv, Backed
    <3>4. ASSUME NEW b \in Actors, Due(b), Makes(job[b].op, op.item)
          PROVE  FALSE
      <4>1. op.item \in job[b].on /\ job[b] # Idle
        BY <3>4 DEF StoredInv, Ours, Makes, Due, Idle
      <4>2. op.item \in job[a].on /\ op.item \in Items
        BY <1>1, <1>5, <1>6, OpShapes DEF StoredInv, Ours
      <4>3. b = a
        BY <1>1, <2>1, <4>1, <4>2 DEF Alone, On
      <4> QED
        BY <1>6, <2>4, <3>4, <4>3 DEF Makes
    <3> QED
      BY <3>2, <3>3, <3>4
  <2>5. Grounded(queue', work.rows)
    BY <1>1, <2>1, <2>4, GroundedAppend
  <2> QED
    BY <2>1, <2>2, <2>3, <2>5
<1> QED
  BY <1>1, <1>7, <1>8, <1>9, <1>10, <1>11 DEF StoredInv

\* The writer takes the next operation into its transaction.
LEMMA ApplyStored ==
    ASSUME IInv, StoredInv, ApplyOp
    PROVE  StoredInv'
<1> DEFINE op == Head(queue)
           n  == Len(queue)
<1>1. /\ UNCHANGED <<listed, index, job, db, crossed, lost>>
      /\ queue # <<>> /\ applied' = applied + 1 /\ applied \in Nat
      /\ queue' = Tail(queue) /\ work' = Apply(work, op)
      /\ queue \in Seq(Op) /\ work \in Tables
  BY DEF ApplyOp, roomVars, IInv, TypeOK
<1>2. /\ n \in Nat /\ n >= 1 /\ op = queue[1] /\ op \in Op /\ Len(queue') = n - 1
      /\ \A i \in 1..Len(queue') : queue'[i] = queue[i + 1] /\ i + 1 \in 1..n
  BY <1>1, TailAt
<1>3. \A j \in 1..n : j > 1 => j - 1 \in 1..Len(queue') /\ queue'[j - 1] = queue[j]
  BY <1>2
<1> HIDE DEF op, n
<1>4. 1 \in 1..n
  BY <1>2
<1>5. \A b \in Actors : Due(b)' <=> Due(b)
  BY <1>1 DEF Due
<1>6. Ours'
  BY <1>1, <1>5 DEF StoredInv, Ours
<1>7. \A x \in listed : x \in Items /\ ~Drops(op, x)
  BY <1>2, <1>4 DEF StoredInv, Clear, IInv, TypeOK, n
<1>8. Clear'
  <2> SUFFICES ASSUME NEW x \in listed
               PROVE  /\ \A i \in 1..Len(queue') : ~Drops(queue'[i], x)
                      /\ \A b \in Actors : Due(b)' => ~Drops(job[b].op, x)
    BY <1>1 DEF Clear
  <2>1. /\ \A i \in 1..n : ~Drops(queue[i], x)
        /\ \A b \in Actors : Due(b) => ~Drops(job[b].op, x)
    BY DEF StoredInv, Clear, n
  <2>2. ASSUME NEW i \in 1..Len(queue') PROVE ~Drops(queue'[i], x)
    BY <1>2, <2>1
  <2> QED
    BY <1>5, <2>1, <2>2
<1>9. ~lost => Backed'
  <2> SUFFICES ASSUME ~lost, NEW x \in listed
               PROVE  \/ x \in work'.rows
                      \/ \E i \in 1..Len(queue') : Makes(queue'[i], x)
                      \/ \E b \in Actors : Due(b)' /\ Makes(job[b].op, x)
    BY <1>1 DEF Backed
  <2>1. \/ x \in work.rows
        \/ \E i \in 1..n : Makes(queue[i], x)
        \/ \E b \in Actors : Due(b) /\ Makes(job[b].op, x)
    BY DEF StoredInv, Backed, n
  <2>2. x \in work'.rows <=> Makes(op, x) \/ x \in work.rows
    BY <1>1, <1>2, <1>7, ApplyRows
  <2>3. ASSUME NEW i \in 1..n, Makes(queue[i], x)
        PROVE  \/ x \in work'.rows
               \/ \E k \in 1..Len(queue') : Makes(queue'[k], x)
    <3>1. CASE i = 1
      BY <1>2, <2>2, <2>3, <3>1
    <3>2. CASE i # 1
      <4>1. i - 1 \in 1..Len(queue') /\ queue'[i - 1] = queue[i]
        BY <1>2, <1>3, <3>2
      <4> QED
        BY <2>3, <4>1
    <3> QED
      BY <3>1, <3>2
  <2> QED
    BY <1>5, <2>1, <2>2, <2>3
<1>10. ~lost => Tallied'
  <2> SUFFICES ASSUME ~lost, NEW x \in listed, NEW g \in Guests, <<x, "self">> \notin crossed
               PROVE  Told(x, g)'
    BY <1>1 DEF Tallied
  <2>1. Told(x, g)
    BY DEF StoredInv, Tallied
  <2>2. g \in work'.votes[x] <=>
            IF Ballot(op, x, g) THEN op.kind = "vote" ELSE g \in work.votes[x]
    BY <1>1, <1>2, <1>7, ApplyVotes
  <2>3. ASSUME \A b \in Actors : ~(Due(b)' /\ Ballot(job[b].op, x, g))
        PROVE  Says(queue', x, g, index[x], work'.votes[x])
    <3>1. Says(queue, x, g, index[x], work.votes[x])
      BY <1>5, <2>1, <2>3 DEF Told
    <3> DEFINE stored == work.votes[x]
               next   == work'.votes[x]
               voters == index[x]
    <3>2. Says(queue, x, g, voters, stored)
      BY <3>1
    <3>3. g \in next <=> IF Ballot(Head(queue), x, g) THEN Head(queue).kind = "vote"
                                                      ELSE g \in stored
      BY <2>2 DEF op
    <3> HIDE DEF stored, next, voters
    <3>4. Says(Tail(queue), x, g, voters, next)
      BY <1>1, <3>2, <3>3, SaysTail
    <3> QED
      BY <1>1, <3>4 DEF voters, next
  <2>4. \A b \in Actors : Due(b)' /\ Ballot(job[b].op, x, g)
            => (job[b].op.kind = "vote" <=> g \in index[x])
    BY <1>5, <2>1 DEF Told
  <2> QED
    BY <1>1, <2>3, <2>4 DEF Told
<1>11. Smooth'
  <2> SUFFICES ASSUME crossed = {}
               PROVE  /\ ~lost
                      /\ \A x \in Items : Alone(x)'
                      /\ \A b \in Actors : Due(b)' /\ job[b].op.kind = "vote"
                                               => job[b].op.item \in listed
                      /\ Grounded(queue', work'.rows)
    BY <1>1 DEF Smooth
  <2>1. /\ ~lost /\ Grounded(queue, work.rows)
        /\ \A x \in Items : Alone(x)
        /\ \A b \in Actors : Due(b) /\ job[b].op.kind = "vote" => job[b].op.item \in listed
    BY DEF StoredInv, Smooth
  <2>2. \A x \in Items : Alone(x)'
    BY <1>1, <2>1 DEF Alone, On
  <2>3. Grounded(Tail(queue), Apply(work, Head(queue)).rows)
    BY <1>1, <2>1, GroundedTail
  <2>4. Grounded(queue', work'.rows)
    BY <1>1, <2>3 DEF op
  <2> QED
    BY <1>5, <2>1, <2>2, <2>4
<1>12. applied' # 0
  BY <1>1
<1> QED
  BY <1>1, <1>6, <1>8, <1>9, <1>10, <1>11, <1>12 DEF StoredInv

\* What the last two steps of the writer leave of the room and its handlers.
LEMMA CommitStored ==
    ASSUME IInv, StoredInv, CommitBatch
    PROVE  StoredInv'
<1>1. /\ UNCHANGED <<listed, index, job, queue, work, crossed, lost>>
      /\ db' = work
  BY DEF CommitBatch, roomVars
<1>2. Ours' /\ Clear'
  BY <1>1 DEF StoredInv, Ours, Clear, Due
<1>3. ~lost => Backed'
  BY <1>1 DEF StoredInv, Backed, Due
<1>4. ~lost => Tallied'
  BY <1>1 DEF StoredInv, Tallied, Told, Due
<1>5. Smooth'
  BY <1>1 DEF StoredInv, Smooth, Alone, On, Due
<1> QED
  BY <1>1, <1>2, <1>3, <1>4, <1>5 DEF StoredInv

\* A batch aborts at a vote that does not find its row, so handlers overlapped.
LEMMA AbortStored ==
    ASSUME IInv, StoredInv, AbortBatch
    PROVE  StoredInv'
<1>1. /\ UNCHANGED <<listed, job, db, crossed>>
      /\ queue # <<>> /\ ~Accepts(work, Head(queue))
      /\ work' = db /\ lost' = TRUE
      /\ queue \in Seq(Op) /\ Len(queue) \in Nat /\ work \in Tables
  BY DEF AbortBatch, roomVars, IInv, TypeOK
<1>2. PICK n \in 1..(MaxBatch - applied) :
         n <= Len(queue) /\ queue' = SubSeq(queue, n + 1, Len(queue))
  BY DEF AbortBatch
<1>3. n \in Nat /\ n >= 1
  BY <1>2, VotesAssumption DEF IInv, TypeOK
<1>4. \A i \in 1..Len(queue') : queue'[i] = queue[i + n] /\ i + n \in 1..Len(queue)
  BY <1>1, <1>2, <1>3
<1>5. Ours' /\ Clear'
  BY <1>1, <1>4 DEF StoredInv, Ours, Clear, Due
<1>6. Smooth'
  <2>1. crossed # {}
    <3> SUFFICES ASSUME crossed = {} PROVE FALSE
      OBVIOUS
    <3>1. Grounded(queue, work.rows)
      BY DEF StoredInv, Smooth
    <3> QED
      BY <1>1, <3>1, GroundedTail
  <2> QED
    BY <1>1, <2>1 DEF Smooth
<1> QED
  BY <1>1, <1>5, <1>6 DEF StoredInv

\* After a restart the room is what the tables hold, and nothing is under way.
LEMMA RestartStored ==
    ASSUME IInv, Restart
    PROVE  StoredInv'
<1>1. /\ listed' = db.rows /\ index' = db.votes /\ queue' = <<>> /\ work' = db
      /\ crossed' = {} /\ lost' = FALSE /\ db' = db
      /\ \A a \in Actors : job'[a] = Idle
  BY DEF Restart
<1>2. \A a \in Actors : ~Due(a)' /\ \A x : ~On(a, x)'
  BY <1>1 DEF Due, On, Idle
<1>3. Len(queue') = 0 /\ 1..Len(queue') = {}
  BY <1>1
<1>4. Ours' /\ Clear' /\ Backed'
  BY <1>1, <1>2, <1>3 DEF Ours, Clear, Backed
<1>5. Tallied'
  BY <1>1, <1>2, <1>3 DEF Tallied, Told, Says
<1>6. Smooth'
  BY <1>1, <1>2, <1>3 DEF Smooth, Alone, Grounded
<1> QED
  BY <1>1, <1>4, <1>5, <1>6 DEF StoredInv

LEMMA StartStored == Init => StoredInv
<1> SUFFICES ASSUME Init PROVE StoredInv
  OBVIOUS
<1>1. /\ listed = {} /\ queue = <<>> /\ work = db /\ crossed = {} /\ lost = FALSE
      /\ \A a \in Actors : job[a] = Idle
  BY DEF Init
<1>2. \A a \in Actors : ~Due(a) /\ \A x : ~On(a, x)
  BY <1>1 DEF Due, On, Idle
<1>3. Len(queue) = 0 /\ 1..Len(queue) = {}
  BY <1>1
<1>4. Ours /\ Clear /\ Backed /\ Tallied
  BY <1>1, <1>2 DEF Ours, Clear, Backed, Tallied
<1>5. Smooth
  BY <1>1, <1>2, <1>3 DEF Smooth, Alone, Grounded
<1> QED
  BY <1>1, <1>4, <1>5 DEF StoredInv

LEMMA InsertStored ==
    ASSUME IInv, StoredInv, NEW a \in Actors, NEW x \in Items, NEW m \in Msg,
           Insert(x), Begin(a, Tell({x}, m, [kind |-> "add", item |-> x])),
           UNCHANGED <<queue, applied, work, db, lost>>
    PROVE  StoredInv'
<1> DEFINE op   == [kind |-> "add", item |-> x]
           next == Tell({x}, m, op)
<1>1. op \in Op /\ op.kind = "add" /\ op.item = x
  BY DEF Op
<1>2. next \in Job /\ next.step = "tell" /\ next.on = {x} /\ next.op = op
  BY <1>1, TellJob
<1>3. Begin(a, next)
  OBVIOUS
<1> HIDE DEF next, op
<1>4. /\ x \notin used /\ listed' = listed \cup {x} /\ index' = index /\ index[x] = {}
      /\ listed \subseteq Items
  BY DEF Insert, IInv, TypeOK, UsedOnly
<1>5. Makes(op, x) /\ \A y, g : ~Drops(op, y) /\ ~Ballot(op, y, g)
  BY <1>1 DEF Makes, Drops, Ballot
<1>6. /\ listed' \subseteq Items
      /\ \A y \in listed \ listed' : y \in next.on
      /\ \A y \in listed' : index'[y] = index[y]
      /\ \A y \in listed' : y \in listed \/ (y \notin used /\ index'[y] = {} /\ Makes(op, y))
  BY <1>4, <1>5
<1>7. op.kind = "add" /\ op.item \in next.on
  BY <1>1, <1>2
<1>8. \A y \in listed' \cap listed, g \in Guests : g \in index'[y] <=> g \in index[y]
  BY <1>6
<1>9. \A y \in listed' : ~Drops(next.op, y) /\ \A g \in Guests : ~Ballot(next.op, y, g)
  BY <1>2, <1>5
<1>10. \A y \in listed' : y \in listed \/ (y \notin used /\ index'[y] = {}
                                         /\ next.step = "tell" /\ Makes(next.op, y))
  BY <1>2, <1>6
<1> QED
  BY <1>2, <1>3, <1>6, <1>7, <1>8, <1>9, <1>10, BeginStored

LEMMA RemoveStored ==
    ASSUME IInv, StoredInv, NEW a \in Actors, NEW x \in listed, NEW m \in Msg,
           Remove({x}), Begin(a, Tell({x}, m, [kind |-> "delete", item |-> x])),
           UNCHANGED <<queue, applied, work, db, lost>>
    PROVE  StoredInv'
<1> DEFINE op   == [kind |-> "delete", item |-> x]
           next == Tell({x}, m, op)
<1>0. x \in Items /\ listed \subseteq Items
  BY DEF IInv, TypeOK
<1>1. op \in Op /\ op.kind = "delete" /\ op.item = x
  BY <1>0 DEF Op
<1>2. next \in Job /\ next.step = "tell" /\ next.on = {x} /\ next.op = op
  BY <1>0, <1>1, TellJob
<1>3. Begin(a, next)
  OBVIOUS
<1> HIDE DEF next, op
<1>4. listed' = listed \ {x} /\ \A y \in Items \ {x} : index'[y] = index[y]
  BY DEF Remove
<1>5. \A y, g : (Drops(op, y) => y = x) /\ ~Ballot(op, y, g)
  BY <1>1 DEF Drops, Ballot
<1>6. \A y \in listed' : y \in listed /\ y \in Items /\ ~Drops(op, y) /\ index'[y] = index[y]
  BY <1>0, <1>4, <1>5
<1>7. listed' \subseteq Items /\ \A y \in listed \ listed' : y \in next.on
  BY <1>2, <1>4, <1>6
<1> QED
  BY <1>1, <1>2, <1>3, <1>5, <1>6, <1>7, BeginStored

LEMMA PromoteStored ==
    ASSUME IInv, StoredInv, NEW h \in Hosts, NEW q \in Questions, NEW t \in Topics,
           Promote(h, q, t)
    PROVE  StoredInv'
<1> DEFINE op   == [kind |-> "promote", item |-> q, topic |-> t]
           next == Tell({q, t}, Gone(q), op)
<1>0. /\ q \in Items /\ t \in Items /\ t \notin used /\ h \in Actors /\ q # t
      /\ listed \subseteq Items /\ q \in used
  BY DEF Promote, IInv, TypeOK, UsedOnly, Items, Actors
<1>1. /\ op \in Op /\ Gone(q) \in Msg
      /\ op.kind = "promote" /\ op.item = q /\ op.topic = t
  BY DEF Op, Msg, Gone
<1>2. next \in Job /\ next.step = "tell" /\ next.on = {q, t} /\ next.op = op
  BY <1>0, <1>1, TellJob
<1>3. Begin(h, next)
  BY DEF Promote
<1>4. /\ listed' = (listed \ {q}) \cup {t}
      /\ index' = [index EXCEPT ![q] = {}]
  BY DEF Promote
<1>5. UNCHANGED <<queue, applied, work, db, lost>>
  BY DEF Promote, tableVars
<1> HIDE DEF next, op
<1>6. index[t] = {} /\ \A y \in Items \ {q} : index'[y] = index[y]
  BY <1>0, <1>4 DEF IInv, TypeOK, UsedOnly
<1>7. Makes(op, t) /\ \A y, g : (Drops(op, y) => y = q) /\ ~Ballot(op, y, g)
  BY <1>1 DEF Makes, Drops, Ballot
<1>8. \A y \in listed' : y \in Items /\ y # q /\ (y \in listed \/ y = t) /\ ~Drops(op, y)
  BY <1>0, <1>4, <1>7
<1>9. listed' \subseteq Items /\ \A y \in listed \ listed' : y \in next.on
  BY <1>2, <1>4, <1>8
<1>10. \A y \in listed' : index'[y] = index[y]
  BY <1>6, <1>8
<1>11. \A y \in listed' : y \in listed \/ (y \notin used /\ index'[y] = {} /\ Makes(op, y))
  BY <1>0, <1>6, <1>7, <1>8
<1> QED
  BY <1>0, <1>1, <1>2, <1>3, <1>5, <1>7, <1>8, <1>9, <1>10, <1>11, BeginStored

LEMMA VoteStored ==
    ASSUME IInv, StoredInv, NEW a \in Tabs, NEW x \in Items, NEW vote \in BOOLEAN,
           x \in used, RecordVote(a, x, vote),
           UNCHANGED <<queue, applied, work, db, lost>>
    PROVE  StoredInv'
<1> DEFINE g    == OwnerOf[a]
           n    == Cardinality(Voters(x, g, vote))
           m    == [kind |-> "count", item |-> x, votes |-> n, by |-> g]
           op   == [kind |-> IF vote THEN "vote" ELSE "unvote", item |-> x, by |-> g]
           next == Tell({x}, m, op)
<1>0. a \in Actors /\ g \in Guests /\ Owner(a) = g
  BY VotesAssumption DEF Actors, Owner
<1>1. Voters(x, g, vote) \in SUBSET Guests /\ (g \in Voters(x, g, vote) <=> vote)
      /\ \A v \in Guests \ {g} : v \in Voters(x, g, vote) <=> v \in index[x]
  BY <1>0 DEF Voters, IInv, TypeOK
<1>2. m \in Msg
  <2>1. n \in Nat
    BY <1>1, VotesAssumption, FS_Subset, FS_CardinalityType
  <2> QED
    BY <1>0, <2>1 DEF Msg
<1>3. /\ op \in Op /\ op.item = x /\ op.by = g /\ op.kind \in {"vote", "unvote"}
      /\ op.kind = "vote" <=> vote
  BY <1>0 DEF Op
<1>4. next \in Job /\ next.step = "tell" /\ next.on = {x} /\ next.op = op
  BY <1>2, <1>3, TellJob
<1>5. Begin(a, next)
  BY <1>0 DEF RecordVote
<1>6. listed' = listed /\ index' = [index EXCEPT ![x] = Voters(x, g, vote)]
      /\ listed \subseteq Items
  BY <1>0 DEF RecordVote, IInv, TypeOK
<1> HIDE DEF next, op, m, n, g
<1>7. index'[x] = Voters(x, g, vote) /\ \A y \in Items \ {x} : index'[y] = index[y]
  BY <1>6 DEF IInv, TypeOK
<1>8. \A y, v : ~Drops(op, y) /\ (Ballot(op, y, v) <=> y = x /\ v = g)
  BY <1>3 DEF Drops, Ballot
<1>9. x \in listed' \/ <<x, "gone">> \in crossed'
  <2> SUFFICES ASSUME x \notin listed PROVE <<x, "gone">> \in crossed'
    BY <1>6
  <2>1. <<x, "gone">> \in Meets(a, next.on)
    BY <1>4 DEF Meets, Overlaps
  <2> QED
    BY <1>5, <2>1 DEF Begin
<1>10. \A y \in listed', v \in Guests : Ballot(op, y, v) => (op.kind = "vote" <=> v \in index'[y])
  BY <1>1, <1>3, <1>7, <1>8
<1>11. \A y \in listed' \cap listed, v \in Guests :
          (v \in index'[y] <=> v \in index[y]) \/ Ballot(op, y, v)
  BY <1>1, <1>6, <1>7, <1>8
<1>12. op.by = OwnerOf[a] /\ op.kind # "promote"
  BY <1>3 DEF g
<1> QED
  BY <1>0, <1>3, <1>4, <1>5, <1>6, <1>8, <1>9, <1>10, <1>11, <1>12, BeginStored

LEMMA CopyStored ==
    ASSUME IInv, StoredInv, NEW h \in Hosts, NEW q \in Questions, NEW to \in BOOLEAN,
           CopyQuestion(h, q, to)
    PROVE  StoredInv'
<1> DEFINE next == [step |-> "copied", on |-> {q}, item |-> q, votes |-> count[q], to |-> to]
<1>1. q \in Items /\ h \in Actors /\ listed \subseteq Items
  BY DEF Items, Actors, IInv, TypeOK
<1>2. next \in Job /\ next.step = "copied"
  BY <1>1 DEF Job, IInv, TypeOK
<1>3. Begin(h, next)
  BY DEF CopyQuestion
<1>4. UNCHANGED <<listed, index>> /\ UNCHANGED <<queue, applied, work, db, lost>>
  BY DEF CopyQuestion, roomVars, tableVars
<1> HIDE DEF next
<1> QED
  BY <1>1, <1>2, <1>3, <1>4, BeginStored

LEMMA NextStored == IInv /\ StoredInv /\ [Next]_vars => StoredInv'
<1> SUFFICES ASSUME IInv, StoredInv, [Next]_vars PROVE StoredInv'
  OBVIOUS
<1> USE DEF Items, Actors
<1>1. ASSUME NEW a \in Tabs, GuestStep(a) PROVE StoredInv'
  <2>1. ASSUME NEW q \in Questions, SubmitQuestion(a, q) PROVE StoredInv'
    <3>1. Added(q) \in Msg
      BY DEF Added, Msg
    <3> QED
      BY <2>1, <3>1, InsertStored DEF SubmitQuestion, tableVars
  <2>2. ASSUME NEW q \in Questions, NEW vote \in BOOLEAN, VoteQuestion(a, q, vote)
        PROVE  StoredInv'
    BY <2>2, VoteStored DEF VoteQuestion, tableVars
  <2>3. ASSUME NEW t \in Topics, NEW vote \in BOOLEAN, VoteTopic(a, t, vote)
        PROVE  StoredInv'
    BY <2>3, VoteStored DEF VoteTopic, tableVars
  <2> QED
    BY <1>1, <2>1, <2>2, <2>3 DEF GuestStep
<1>2. ASSUME NEW h \in Hosts, HostStep(h) PROVE StoredInv'
  <2>0. Tree \in Msg
    BY DEF Tree, Msg
  <2>1. ASSUME NEW q \in Questions, DeleteQuestion(h, q) PROVE StoredInv'
    <3>1. Gone(q) \in Msg
      BY DEF Gone, Msg
    <3> QED
      BY <2>1, <3>1, RemoveStored DEF DeleteQuestion, tableVars
  <2>2. ASSUME NEW q \in Questions, NEW to \in BOOLEAN, CopyQuestion(h, q, to)
        PROVE  StoredInv'
    BY <2>2, CopyStored
  <2>3. ASSUME NEW q \in Questions, NEW t \in Topics, Promote(h, q, t) PROVE StoredInv'
    BY <2>3, PromoteStored
  <2>4. ASSUME NEW t \in Topics, AddTopic(h, t) PROVE StoredInv'
    BY <2>0, <2>4, InsertStored DEF AddTopic, tableVars
  <2>5. ASSUME NEW t \in Topics, DeleteTopic(h, t) PROVE StoredInv'
    BY <2>0, <2>5, RemoveStored DEF DeleteTopic, tableVars
  <2>6. ASSUME WriteCopyBack(h) PROVE StoredInv'
    BY <2>6, WriteBackStored
  <2> QED
    BY <1>2, <2>1, <2>2, <2>3, <2>4, <2>5, <2>6 DEF HostStep
<1>3. ASSUME NEW a \in Actors, Broadcast(a) \/ Enqueue(a) PROVE StoredInv'
  BY <1>3, BroadcastStored, EnqueueStored
<1>4. CASE Writer
  BY <1>4, ApplyStored, CommitStored, AbortStored DEF Writer
<1>5. CASE Restart
  BY <1>5, RestartStored
<1>6. CASE UNCHANGED vars
  <2>1. UNCHANGED <<listed, index, job, queue, applied, work, db, crossed, lost>>
    BY <1>6 DEF vars, roomVars, tableVars
  <2>2. Ours' /\ Clear' /\ (Backed <=> Backed')
    BY <2>1 DEF StoredInv, Ours, Clear, Backed, Due
  <2>3. Tallied <=> Tallied'
    BY <2>1 DEF Tallied, Told, Due
  <2>4. Smooth'
    BY <2>1 DEF StoredInv, Smooth, Alone, On, Due
  <2> QED
    BY <2>1, <2>2, <2>3, <2>4 DEF StoredInv
<1> QED
  BY <1>1, <1>2, <1>3, <1>4, <1>5, <1>6 DEF Next

\* With nothing under way and no batch lost, a restart would bring back what is
\* listed, with the voters the room has unless two tabs of one guest overlapped.
THEOREM VotesSaved == Spec => []TalliesStored
<1>1. ASSUME IInv, StoredInv PROVE TalliesStored
  <2> SUFFICES ASSUME \A a \in Actors : job[a] = Idle, queue = <<>>, applied = 0, ~lost,
                      NEW x \in listed
               PROVE  x \in db.rows /\ (<<x, "self">> \notin crossed => db.votes[x] = index[x])
    BY DEF TalliesStored
  <2>1. /\ \A a \in Actors : ~Due(a)
        /\ 1..Len(queue) = {}
        /\ work = db /\ Backed /\ Tallied
    BY <1>1 DEF Due, Idle, StoredInv
  <2>2. x \in db.rows
    BY <2>1 DEF Backed
  <2>3. ASSUME <<x, "self">> \notin crossed PROVE db.votes[x] = index[x]
    <3>1. ASSUME NEW g \in Guests PROVE g \in db.votes[x] <=> g \in index[x]
      <4>1. Told(x, g)
        BY <2>1, <2>3 DEF Tallied
      <4> QED
        BY <2>1, <4>1 DEF Told, Says
    <3>2. db.votes[x] \subseteq Guests /\ index[x] \subseteq Guests
      BY <1>1, TablesShape DEF IInv, TypeOK
    <3> QED
      BY <3>1, <3>2
  <2> QED
    BY <2>2, <2>3
<1>2. StoredInv /\ IInv /\ [Next]_vars => StoredInv'
  BY NextStored
<1> QED
  BY <1>1, <1>2, StartStored, VotesInvariant, PTL DEF Spec

\* Only handlers that overlapped on an item, or a vote for what was gone already,
\* cost a batch: handlers that follow each other, or are on different items, never
\* make the writer refuse a vote.
THEOREM LossOnlyCrossed == Spec => []LossExplained
<1>1. StoredInv => LossExplained
  BY DEF StoredInv, Smooth, LossExplained
<1>2. StoredInv /\ IInv /\ [Next]_vars => StoredInv'
  BY NextStored
<1> QED
  BY <1>1, <1>2, StartStored, VotesInvariant, PTL DEF Spec
=============================================================================
