---------------------------- MODULE SessionProofs ----------------------------
(***************************************************************************)
(* What holds of the connections to a room, for every number of hosts,     *)
(* guests, tabs and instances.                                             *)
(*                                                                         *)
(* The inductive invariant adds three parts to the properties:             *)
(*   Holding   a connection holds an instance exactly from get_or_create   *)
(*             to the end of its task, and only a host in its main loop    *)
(*             runs a handler;                                             *)
(*   BarredBy  a barred connection past the check of the memory is barred  *)
(*             by the table;                                               *)
(*   OwedInMain  a connection that is owed a notice is in its main loop.   *)
(***************************************************************************)
EXTENDS Session, TLAPS

Holding ==
    /\ \A c \in Conns : room[c] \in Rooms <=> pc[c] \in {"found", "joined", "main"}
    /\ \A h \in HostConns : task[h] # Resting => pc[h] = "main"

BarredBy ==
    \A c \in barred : /\ pc[c] \in {"hello", "screened"}
                      /\ Barred(OwnerOf[c])
                      /\ pc[c] = "screened" => OwnerOf[c] \in table.kicked

OwedInMain == \A c \in owed : pc[c] = "main"

-----------------------------------------------------------------------------
(***************************************************************************)
(* Type correctness.                                                       *)
(***************************************************************************)
LEMMA TypeInit == Init => TypeOK
<1> SUFFICES ASSUME Init PROVE TypeOK
  OBVIOUS
<1>1. /\ Resting \in Task
      /\ <<>> \in Seq(Op)
  BY DEF Task
<1>2. [i \in Ids |-> {}] \in [Ids -> SUBSET Conns]
  OBVIOUS
<1> QED
  BY <1>1, <1>2 DEF Init, TypeOK, Stages

LEMMA RemoveTypes ==
  ASSUME TypeOK, NEW c \in Conns, room[c] \in Rooms, RemoveClient(c)
  PROVE  /\ clients' \in [Rooms -> [Ids -> SUBSET Conns]]
         /\ muted' \in [Rooms -> SUBSET Ids]
         /\ UNCHANGED <<registry, kicked, candidate>>
<1> OwnerOf[c] \in Ids
  BY ConnAssumption
<1> QED
  BY DEF RemoveClient, TypeOK

LEMMA CloseTypes ==
  ASSUME TypeOK, NEW c \in Conns, Close(c),
         clients' \in [Rooms -> [Ids -> SUBSET Conns]],
         muted' \in [Rooms -> SUBSET Ids],
         UNCHANGED <<registry, kicked, candidate>>
  PROVE  TypeOK'
  BY DEF Close, TypeOK, Stages, hostVars

LEMMA TypeStep == TypeOK /\ Holding /\ [Next]_vars => TypeOK'
<1> SUFFICES ASSUME TypeOK, Holding, [Next]_vars PROVE TypeOK'
  OBVIOUS
<1> USE ConnAssumption DEF roomVars, connVars, hostVars, historyVars
<1>1. ASSUME NEW c \in Conns, Handshake(c) PROVE TypeOK'
  <2>1. CASE Hello(c)
    BY <2>1 DEF TypeOK, Hello, Advance, Stages, Conns
  <2>2. CASE CheckMemory(c) \/ CheckTable(c) \/ Subscribe(c)
    BY <2>2 DEF TypeOK, CheckMemory, CheckTable, Subscribe, Advance, Stages
  <2>3. CASE Refuse(c) \/ HandshakeFails(c)
    BY <2>3 DEF TypeOK, Refuse, HandshakeFails, Close, Stages
  <2>4. CASE ReadMuted(c)
    BY <2>4 DEF TypeOK, ReadMuted, Advance, Stages
  <2>5. CASE FindRoom(c)
    <3> DEFINE Fresh(r) ==
              /\ registry = NoRoom
              /\ registry' = r
              /\ clients' = [clients EXCEPT ![r] = [i \in Ids |-> {}]]
              /\ muted' = [muted EXCEPT ![r] = {}]
              /\ kicked' = [kicked EXCEPT ![r] = {}]
              /\ room' = [room EXCEPT ![c] = r]
              /\ candidate' = candidate
    <3>1. CASE registry # NoRoom
      <4>1. room' = [room EXCEPT ![c] = registry] /\ UNCHANGED roomVars
        BY <2>5, <3>1 DEF FindRoom
      <4> QED
        BY <2>5, <4>1 DEF TypeOK, FindRoom, Advance, Stages
    <3>2. CASE registry = NoRoom
      <4>1. PICK r \in Rooms : Fresh(r)
        BY <2>5, <3>2 DEF FindRoom, Unheld
      <4>2. [i \in Ids |-> {}] \in [Ids -> SUBSET Conns]
        OBVIOUS
      <4>3. clients' \in [Rooms -> [Ids -> SUBSET Conns]]
        BY <4>1, <4>2 DEF TypeOK
      <4> QED
        BY <2>5, <4>1, <4>3 DEF TypeOK, FindRoom, Advance, Stages
    <3> QED
      BY <3>1, <3>2
  <2>6. CASE Join(c)
    <3>1. room[c] \in Rooms /\ OwnerOf[c] \in Ids
      BY <2>6 DEF TypeOK, Holding, Join, Advance
    <3>2. clients' \in [Rooms -> [Ids -> SUBSET Conns]]
      BY <2>6, <3>1 DEF TypeOK, Join
    <3> QED
      BY <2>6, <3>1, <3>2 DEF TypeOK, Join, Advance, Stages
  <2>7. CASE WelcomeFails(c)
    <3>1. room[c] \in Rooms /\ RemoveClient(c) /\ Close(c)
      BY <2>7 DEF TypeOK, Holding, WelcomeFails
    <3> QED
      BY <3>1, RemoveTypes, CloseTypes
  <2> QED
    BY <1>1, <2>1, <2>2, <2>3, <2>4, <2>5, <2>6, <2>7 DEF Handshake
<1>2. ASSUME NEW c \in Conns, MainLoop(c) PROVE TypeOK'
  <2>1. CASE Leave(c) \/ ReceiveKick(c)
    <3>1. room[c] \in Rooms /\ RemoveClient(c) /\ Close(c)
      BY <2>1 DEF TypeOK, Holding, Leave, ReceiveKick, AtLoop
    <3> QED
      BY <3>1, RemoveTypes, CloseTypes
  <2>2. CASE Lag(c)
    BY <2>2 DEF TypeOK, Lag
  <2> QED
    BY <1>2, <2>1, <2>2 DEF MainLoop
<1>3. ASSUME NEW h \in HostConns, StartKick(h) \/ StartMute(h) PROVE TypeOK'
  <2>1. PICK op \in Op, next \in Task : EnqueueThen(h, op, next)
    BY <1>3 DEF StartKick, StartMute, Op, Task
  <2> QED
    BY <2>1 DEF TypeOK, EnqueueThen
<1>4. ASSUME NEW h \in HostConns, Moderate(h) PROVE TypeOK'
  <2>1. h \in Conns /\ (task[h] # Resting => task[h].id \in Targets /\ room[h] \in Rooms)
    BY DEF TypeOK, Holding, Task, Conns
  <2>2. task[h] # Resting
    BY <1>4 DEF Moderate, KickRoom, KickNotify, MuteRoom, Resting
  <2>3. CASE KickRoom(h)
    <3>1. [step |-> "kickNotify", id |-> task[h].id] \in Task
      BY <2>1, <2>2 DEF Task
    <3>2. clients' \in [Rooms -> [Ids -> SUBSET Conns]]
      BY <2>1, <2>2, <2>3 DEF TypeOK, KickRoom
    <3> QED
      BY <2>1, <2>2, <2>3, <3>1, <3>2 DEF TypeOK, KickRoom, Members
  <2>4. CASE KickNotify(h)
    BY <2>4 DEF TypeOK, KickNotify, Members, Task
  <2>5. CASE MuteRoom(h)
    BY <2>1, <2>2, <2>5 DEF TypeOK, MuteRoom, Task
  <2> QED
    BY <1>4, <2>3, <2>4, <2>5 DEF Moderate
<1>5. CASE Persist \/ LoseBatch
  <2>1. queue # <<>> /\ Head(queue) \in Op /\ Tail(queue) \in Seq(Op)
    BY <1>5 DEF TypeOK, Persist, LoseBatch
  <2>2. table' \in [kicked : SUBSET Ids, muted : SUBSET Ids]
    BY <1>5, <2>1 DEF TypeOK, Persist, LoseBatch, Op
  <2> QED
    BY <1>5, <2>1, <2>2 DEF TypeOK, Persist, LoseBatch
<1>6. CASE ReapScan \/ ReapRemove
  BY <1>6 DEF TypeOK, ReapScan, ReapRemove, Evict
<1>7. CASE Restart
  <2>1. Resting \in Task /\ <<>> \in Seq(Op)
    BY DEF Task
  <2>2. [i \in Ids |-> {}] \in [Ids -> SUBSET Conns]
    OBVIOUS
  <2> QED
    BY <1>7, <2>1, <2>2 DEF TypeOK, Restart, Stages
<1>8. CASE UNCHANGED vars
  BY <1>8 DEF TypeOK, vars
<1> QED
  BY <1>1, <1>2, <1>3, <1>4, <1>5, <1>6, <1>7, <1>8 DEF Next

-----------------------------------------------------------------------------
(***************************************************************************)
(* Who holds an instance.                                                  *)
(***************************************************************************)
LEMMA HoldingStep == TypeOK /\ Holding /\ [Next]_vars => Holding'
<1> SUFFICES ASSUME TypeOK, Holding, [Next]_vars PROVE Holding'
  OBVIOUS
<1> USE ConnAssumption DEF roomVars, connVars, hostVars, historyVars
<1>1. ASSUME NEW c \in Conns, Handshake(c) PROVE Holding'
  <2>1. CASE Hello(c) \/ CheckMemory(c) \/ CheckTable(c) \/ ReadMuted(c) \/ Join(c) \/ Subscribe(c)
    BY <2>1 DEF TypeOK, Holding, Hello, CheckMemory, CheckTable, ReadMuted, Join, Subscribe,
                Advance, Stages, Conns
  <2>2. CASE Refuse(c) \/ HandshakeFails(c) \/ WelcomeFails(c)
    BY <2>2 DEF TypeOK, Holding, Refuse, HandshakeFails, WelcomeFails, Close, Stages, Conns
  <2>3. CASE FindRoom(c)
    <3>1. \E r \in Rooms : room' = [room EXCEPT ![c] = r]
      BY <2>3 DEF TypeOK, FindRoom, Unheld
    <3> QED
      BY <2>3, <3>1 DEF TypeOK, Holding, FindRoom, Advance, Stages, Conns
  <2> QED
    BY <1>1, <2>1, <2>2, <2>3 DEF Handshake
<1>2. ASSUME NEW c \in Conns, MainLoop(c) PROVE Holding'
  <2>1. CASE Leave(c) \/ ReceiveKick(c)
    <3>1. AtLoop(c) /\ Close(c)
      BY <2>1 DEF Leave, ReceiveKick
    <3> QED
      BY <3>1 DEF TypeOK, Holding, AtLoop, Close, Stages, Conns
  <2>2. CASE Lag(c)
    BY <2>2 DEF Holding, Lag
  <2> QED
    BY <1>2, <2>1, <2>2 DEF MainLoop
<1>3. ASSUME NEW h \in HostConns, StartKick(h) \/ StartMute(h) PROVE Holding'
  BY <1>3 DEF TypeOK, Holding, StartKick, StartMute, EnqueueThen, AtLoop
<1>4. ASSUME NEW h \in HostConns, Moderate(h) PROVE Holding'
  <2>1. task[h] # Resting
    BY <1>4 DEF Moderate, KickRoom, KickNotify, MuteRoom, Resting
  <2> QED
    BY <1>4, <2>1 DEF TypeOK, Holding, Moderate, KickRoom, KickNotify, MuteRoom
<1>5. CASE Persist \/ LoseBatch \/ ReapScan \/ ReapRemove \/ UNCHANGED vars
  BY <1>5 DEF Holding, Persist, LoseBatch, ReapScan, ReapRemove, vars
<1>6. CASE Restart
  BY <1>6 DEF Holding, Restart, Conns
<1> QED
  BY <1>1, <1>2, <1>3, <1>4, <1>5, <1>6 DEF Next

-----------------------------------------------------------------------------
(***************************************************************************)
(* The presence list.                                                      *)
(***************************************************************************)
\* remove_client by a connection that ends keeps the presence list exact.
LEMMA RemoveExact ==
  ASSUME TypeOK, Holding, PresenceExact, NEW c \in Conns, pc[c] \in {"joined", "main"},
         RemoveClient(c), Close(c)
  PROVE  PresenceExact'
<1> SUFFICES ASSUME NEW r \in Rooms, NEW i \in Ids
             PROVE  /\ clients'[r][i] \subseteq Seated(r, i)'
                    /\ i \notin kicked'[r] => clients'[r][i] = Seated(r, i)'
  BY DEF PresenceExact
<1>1. room[c] \in Rooms /\ OwnerOf[c] \in Ids
  BY ConnAssumption DEF Holding
<1>2. Seated(r, i)' = Seated(r, i) \ {c}
  BY <1>1 DEF Seated, Close, TypeOK
<1>3. clients'[r][i] = IF r = room[c] /\ i = OwnerOf[c] THEN clients[r][i] \ {c}
                                                       ELSE clients[r][i]
  BY <1>1 DEF RemoveClient, TypeOK
<1>4. ~(r = room[c] /\ i = OwnerOf[c]) => c \notin Seated(r, i)
  BY DEF Seated
<1>5. UNCHANGED kicked
  BY DEF RemoveClient
<1> QED
  BY <1>2, <1>3, <1>4, <1>5 DEF PresenceExact

\* A step that moves nobody into or out of an entry.
LEMMA SameSeats ==
  ASSUME PresenceExact, UNCHANGED <<clients, kicked>>,
         \A r \in Rooms, i \in Ids : Seated(r, i)' = Seated(r, i)
  PROVE  PresenceExact'
  BY DEF PresenceExact

LEMMA PresenceStep == TypeOK /\ Holding /\ PresenceExact /\ [Next]_vars => PresenceExact'
<1> SUFFICES ASSUME TypeOK, Holding, PresenceExact, [Next]_vars PROVE PresenceExact'
  OBVIOUS
<1> USE ConnAssumption DEF roomVars, connVars, hostVars, historyVars
<1>1. ASSUME NEW c \in Conns, Handshake(c) PROVE PresenceExact'
  <2>1. CASE Hello(c) \/ CheckMemory(c) \/ CheckTable(c) \/ ReadMuted(c) \/ Subscribe(c)
    <3>1. UNCHANGED <<clients, kicked>>
      BY <2>1 DEF Hello, CheckMemory, CheckTable, ReadMuted, Subscribe
    <3>2. \A r \in Rooms, i \in Ids : Seated(r, i)' = Seated(r, i)
      BY <2>1 DEF TypeOK, Hello, CheckMemory, CheckTable, ReadMuted, Subscribe, Advance, Seated
    <3> QED
      BY <3>1, <3>2, SameSeats
  <2>2. CASE Refuse(c) \/ HandshakeFails(c)
    <3>1. UNCHANGED <<clients, kicked>>
      BY <2>2 DEF Refuse, HandshakeFails
    <3>2. \A r \in Rooms, i \in Ids : Seated(r, i)' = Seated(r, i)
      BY <2>2 DEF TypeOK, Refuse, HandshakeFails, Close, Seated
    <3> QED
      BY <3>1, <3>2, SameSeats
  <2>3. CASE FindRoom(c) /\ registry # NoRoom
    <3>1. UNCHANGED <<clients, kicked>>
      BY <2>3 DEF FindRoom
    <3>2. \A r \in Rooms, i \in Ids : Seated(r, i)' = Seated(r, i)
      BY <2>3 DEF TypeOK, FindRoom, Advance, Seated
    <3> QED
      BY <3>1, <3>2, SameSeats
  <2>4. CASE FindRoom(c) /\ registry = NoRoom
    <3>1. PICK n \in Unheld : /\ clients' = [clients EXCEPT ![n] = [i \in Ids |-> {}]]
                              /\ kicked' = [kicked EXCEPT ![n] = {}]
                              /\ room' = [room EXCEPT ![c] = n]
      BY <2>4 DEF FindRoom
    <3>2. \A r \in Rooms, i \in Ids : Seated(r, i)' = Seated(r, i)
      BY <2>4, <3>1 DEF TypeOK, FindRoom, Advance, Seated
    <3>3. \A i \in Ids : Seated(n, i) = {}
      BY <3>1 DEF Seated, Unheld
    <3>4. ASSUME NEW r \in Rooms, NEW i \in Ids
          PROVE  /\ clients'[r][i] \subseteq Seated(r, i)
                 /\ i \notin kicked'[r] => clients'[r][i] = Seated(r, i)
      <4>1. CASE r = n
        BY <3>1, <3>3, <4>1 DEF TypeOK
      <4>2. CASE r # n
        BY <3>1, <4>2 DEF TypeOK, PresenceExact
      <4> QED
        BY <4>1, <4>2
    <3> QED
      BY <3>2, <3>4 DEF PresenceExact
  <2>5. CASE Join(c)
    <3>1. room[c] \in Rooms /\ OwnerOf[c] \in Ids
      BY <2>5 DEF Holding, Join, Advance
    <3>2. ASSUME NEW r \in Rooms, NEW i \in Ids
          PROVE  /\ clients'[r][i] \subseteq Seated(r, i)'
                 /\ i \notin kicked'[r] => clients'[r][i] = Seated(r, i)'
      <4>1. CASE r = room[c] /\ i = OwnerOf[c]
        <5>1. Seated(r, i)' = Seated(r, i) \cup {c}
          BY <2>5, <3>1, <4>1 DEF Seated, Join, Advance, TypeOK
        <5>2. clients'[r][i] = clients[r][i] \cup {c}
          BY <2>5, <3>1, <4>1 DEF Join, TypeOK
        <5> QED
          BY <2>5, <5>1, <5>2 DEF PresenceExact, Join
      <4>2. CASE ~(r = room[c] /\ i = OwnerOf[c])
        <5>1. Seated(r, i)' = Seated(r, i)
          BY <2>5, <3>1, <4>2 DEF Seated, Join, Advance, TypeOK
        <5>2. clients'[r][i] = clients[r][i]
          BY <2>5, <3>1, <4>2 DEF Join, TypeOK
        <5> QED
          BY <2>5, <5>1, <5>2 DEF PresenceExact, Join
      <4> QED
        BY <4>1, <4>2
    <3> QED
      BY <3>2 DEF PresenceExact
  <2>6. CASE WelcomeFails(c)
    BY <2>6, RemoveExact DEF WelcomeFails
  <2> QED
    BY <1>1, <2>1, <2>2, <2>3, <2>4, <2>5, <2>6 DEF Handshake
<1>2. ASSUME NEW c \in Conns, MainLoop(c) PROVE PresenceExact'
  <2>1. CASE Leave(c) \/ ReceiveKick(c)
    BY <2>1, RemoveExact DEF Leave, ReceiveKick, AtLoop
  <2>2. CASE Lag(c)
    BY <2>2, SameSeats DEF Lag, Seated
  <2> QED
    BY <1>2, <2>1, <2>2 DEF MainLoop
<1>3. ASSUME NEW h \in HostConns, StartKick(h) \/ StartMute(h) PROVE PresenceExact'
  BY <1>3, SameSeats DEF StartKick, StartMute, EnqueueThen, Seated
<1>4. ASSUME NEW h \in HostConns, Moderate(h) PROVE PresenceExact'
  <2>1. CASE KickRoom(h)
    <3>1. \A r \in Rooms, i \in Ids : Seated(r, i)' = Seated(r, i)
      BY <2>1 DEF KickRoom, Seated
    <3>2. task[h] # Resting /\ task[h].id \in Ids
      BY <2>1 DEF TypeOK, KickRoom, Resting, Task
    <3>3. room[h] \in Rooms
      BY <3>2 DEF Holding, Conns
    <3>4. ASSUME NEW r \in Rooms, NEW i \in Ids
          PROVE  /\ clients'[r][i] \subseteq Seated(r, i)
                 /\ i \notin kicked'[r] => clients'[r][i] = Seated(r, i)
      <4>1. CASE r = room[h] /\ i = task[h].id
        BY <2>1, <3>2, <3>3, <4>1 DEF KickRoom, TypeOK
      <4>2. CASE ~(r = room[h] /\ i = task[h].id)
        <5>1. clients'[r][i] = clients[r][i]
          BY <2>1, <3>2, <3>3, <4>2 DEF KickRoom, TypeOK
        <5>2. kicked[r] \subseteq kicked'[r]
          BY <2>1, <3>3 DEF KickRoom, TypeOK
        <5> QED
          BY <5>1, <5>2 DEF PresenceExact
      <4> QED
        BY <4>1, <4>2
    <3> QED
      BY <3>1, <3>4 DEF PresenceExact
  <2>2. CASE KickNotify(h) \/ MuteRoom(h)
    BY <2>2, SameSeats DEF KickNotify, MuteRoom, Seated
  <2> QED
    BY <1>4, <2>1, <2>2 DEF Moderate
<1>5. CASE Persist \/ LoseBatch \/ ReapScan \/ ReapRemove \/ UNCHANGED vars
  BY <1>5, SameSeats DEF Persist, LoseBatch, ReapScan, ReapRemove, vars, Seated
<1>6. CASE Restart
  BY <1>6 DEF PresenceExact, Restart, Seated
<1> QED
  BY <1>1, <1>2, <1>3, <1>4, <1>5, <1>6 DEF Next

-----------------------------------------------------------------------------
(***************************************************************************)
(* Who was barred at Hello.                                                *)
(***************************************************************************)
LEMMA BarredStep == TypeOK /\ Holding /\ BarredBy /\ [Next]_vars => BarredBy'
<1> SUFFICES ASSUME TypeOK, Holding, BarredBy, [Next]_vars PROVE BarredBy'
  OBVIOUS
<1> USE ConnAssumption DEF roomVars, connVars, hostVars, historyVars
<1>1. ASSUME NEW c \in Conns, Handshake(c) PROVE BarredBy'
  <2>1. CASE Hello(c)
    BY <2>1 DEF TypeOK, BarredBy, Hello, Advance, Barred
  <2>2. CASE CheckMemory(c)
    BY <2>2 DEF TypeOK, BarredBy, CheckMemory, Advance, Barred, KickedInMemory
  <2>3. CASE CheckTable(c) \/ ReadMuted(c) \/ Join(c) \/ Subscribe(c)
    BY <2>3 DEF TypeOK, BarredBy, CheckTable, ReadMuted, Join, Subscribe, Advance, Barred
  <2>4. CASE Refuse(c) \/ HandshakeFails(c)
    BY <2>4 DEF TypeOK, BarredBy, Refuse, HandshakeFails, Close, Barred
  <2>5. CASE FindRoom(c) /\ registry # NoRoom
    BY <2>5 DEF TypeOK, BarredBy, FindRoom, Advance, Barred
  <2>6. CASE FindRoom(c) /\ registry = NoRoom
    BY <2>6 DEF TypeOK, BarredBy, FindRoom, Advance, Barred
  <2>7. CASE WelcomeFails(c)
    BY <2>7 DEF TypeOK, BarredBy, WelcomeFails, RemoveClient, Close, Barred
  <2> QED
    BY <1>1, <2>1, <2>2, <2>3, <2>4, <2>5, <2>6, <2>7 DEF Handshake
<1>2. ASSUME NEW c \in Conns, MainLoop(c) PROVE BarredBy'
  BY <1>2 DEF TypeOK, BarredBy, MainLoop, Leave, ReceiveKick, Lag, RemoveClient, Close, Barred
<1>3. ASSUME NEW h \in HostConns, StartKick(h) \/ StartMute(h) PROVE BarredBy'
  BY <1>3 DEF BarredBy, StartKick, StartMute, EnqueueThen, Barred
<1>4. ASSUME NEW h \in HostConns, Moderate(h) PROVE BarredBy'
  <2>1. \A r \in Rooms : kicked[r] \subseteq kicked'[r]
    <3>1. CASE KickRoom(h)
      BY <3>1 DEF TypeOK, KickRoom
    <3>2. CASE KickNotify(h) \/ MuteRoom(h)
      BY <3>2 DEF KickNotify, MuteRoom
    <3> QED
      BY <1>4, <3>1, <3>2 DEF Moderate
  <2> QED
    BY <1>4, <2>1 DEF TypeOK, BarredBy, Moderate, KickRoom, KickNotify, MuteRoom, Barred
<1>5. CASE Persist
  <2>1. table.kicked \subseteq table'.kicked
    BY <1>5 DEF TypeOK, Persist
  <2> QED
    BY <1>5, <2>1 DEF BarredBy, Persist, Barred
<1>6. CASE LoseBatch \/ ReapScan \/ UNCHANGED vars
  BY <1>6 DEF BarredBy, LoseBatch, ReapScan, vars, Barred
<1>7. CASE ReapRemove
  BY <1>7 DEF BarredBy, ReapRemove, Evict, Barred
<1>8. CASE Restart
  BY <1>8 DEF BarredBy, Restart
<1> QED
  BY <1>1, <1>2, <1>3, <1>4, <1>5, <1>6, <1>7, <1>8 DEF Next

-----------------------------------------------------------------------------
(***************************************************************************)
(* Who is owed a notice.                                                   *)
(***************************************************************************)
LEMMA OwedStep ==
  TypeOK /\ Holding /\ OwedInMain /\ KickReachesAll /\ [Next]_vars
     => OwedInMain' /\ KickReachesAll'
<1> SUFFICES ASSUME TypeOK, Holding, OwedInMain, KickReachesAll, [Next]_vars
             PROVE  OwedInMain' /\ KickReachesAll'
  OBVIOUS
<1> USE ConnAssumption DEF roomVars, connVars, hostVars, historyVars
\* A step of a connection that runs no handler: the owed that stay are in the
\* main loop, and no notifying host is disturbed.
<1>a. ASSUME NEW c \in Conns, ~(c \in HostConns /\ task[c] # Resting),
             owed' = owed \ {c}, told \ {c} \subseteq told', UNCHANGED task,
             \A d \in Conns \ {c} : pc'[d] = pc[d] /\ room'[d] = room[d]
      PROVE  OwedInMain' /\ KickReachesAll'
  <2>1. \A d \in owed' : d \in Conns \ {c}
    BY <1>a DEF TypeOK
  <2>2. ASSUME NEW d \in owed', d \notin told'
        PROVE  \E h \in HostConns : /\ task'[h] = [step |-> "kickNotify", id |-> OwnerOf[d]]
                                    /\ room'[h] = room'[d]
    <3>1. PICK h \in HostConns : /\ task[h] = [step |-> "kickNotify", id |-> OwnerOf[d]]
                                 /\ room[h] = room[d]
      BY <1>a, <2>1, <2>2 DEF KickReachesAll
    <3>2. h # c
      BY <1>a, <3>1 DEF Resting
    <3> QED
      BY <1>a, <2>1, <3>1, <3>2 DEF Conns
  <2> QED
    BY <1>a, <2>1, <2>2 DEF OwedInMain, KickReachesAll
<1>1. ASSUME NEW c \in Conns, Handshake(c) PROVE OwedInMain' /\ KickReachesAll'
  <2>1. c \notin owed /\ ~(c \in HostConns /\ task[c] # Resting)
    BY <1>1 DEF Handshake, Hello, CheckMemory, CheckTable, Refuse, HandshakeFails, ReadMuted,
                FindRoom, Join, WelcomeFails, Subscribe, Advance, OwedInMain, Holding
  <2>2. \A d \in Conns \ {c} : pc'[d] = pc[d] /\ room'[d] = room[d]
    BY <1>1 DEF TypeOK, Handshake, Hello, CheckMemory, CheckTable, Refuse, HandshakeFails,
                ReadMuted, FindRoom, Join, WelcomeFails, Subscribe, Advance, Close
  <2>3. owed' = owed \ {c} /\ told \ {c} \subseteq told' /\ UNCHANGED task
    BY <1>1, <2>1 DEF Handshake, Hello, CheckMemory, CheckTable, Refuse, HandshakeFails,
                ReadMuted, FindRoom, Join, WelcomeFails, Subscribe, Close
  <2> QED
    BY <2>1, <2>2, <2>3, <1>a
<1>2. ASSUME NEW c \in Conns, MainLoop(c) PROVE OwedInMain' /\ KickReachesAll'
  <2>1. /\ ~(c \in HostConns /\ task[c] # Resting)
        /\ owed' = owed \ {c} /\ told \ {c} \subseteq told' /\ UNCHANGED task
        /\ \A d \in Conns \ {c} : pc'[d] = pc[d] /\ room'[d] = room[d]
    <3>1. CASE Leave(c) \/ ReceiveKick(c)
      <4>1. AtLoop(c) /\ Close(c)
        BY <3>1 DEF Leave, ReceiveKick
      <4> QED
        BY <4>1 DEF TypeOK, AtLoop, Close
    <3>2. CASE Lag(c)
      BY <3>2 DEF Lag, AtLoop
    <3> QED
      BY <1>2, <3>1, <3>2 DEF MainLoop
  <2> QED
    BY <2>1, <1>a
<1>3. ASSUME NEW h \in HostConns, StartKick(h) \/ StartMute(h)
      PROVE  OwedInMain' /\ KickReachesAll'
  <2>1. task[h] = Resting /\ \A g \in HostConns \ {h} : task'[g] = task[g]
    BY <1>3 DEF TypeOK, StartKick, StartMute, EnqueueThen, AtLoop, Conns
  <2>2. UNCHANGED <<pc, room, told, owed>>
    BY <1>3 DEF StartKick, StartMute, EnqueueThen
  <2> QED
    BY <2>1, <2>2 DEF OwedInMain, KickReachesAll, Resting
<1>4. ASSUME NEW h \in HostConns, KickRoom(h) PROVE OwedInMain' /\ KickReachesAll'
  <2>1. /\ owed' = owed \cup Members(room[h], task[h].id)
        /\ task'[h] = [step |-> "kickNotify", id |-> task[h].id]
        /\ task[h].step = "kickRoom"
        /\ \A g \in HostConns \ {h} : task'[g] = task[g]
        /\ UNCHANGED <<pc, room, told>>
    BY <1>4 DEF TypeOK, KickRoom
  <2> QED
    BY <2>1 DEF OwedInMain, KickReachesAll, Members
<1>5. ASSUME NEW h \in HostConns, KickNotify(h) PROVE OwedInMain' /\ KickReachesAll'
  <2>1. /\ told' = told \cup Members(room[h], task[h].id)
        /\ \A g \in HostConns \ {h} : task'[g] = task[g]
        /\ UNCHANGED <<pc, room, owed>>
    BY <1>5 DEF TypeOK, KickNotify
  <2>2. ASSUME NEW c \in owed, c \notin told'
        PROVE  \E g \in HostConns : /\ task'[g] = [step |-> "kickNotify", id |-> OwnerOf[c]]
                                    /\ room[g] = room[c]
    <3>1. PICK g \in HostConns : /\ task[g] = [step |-> "kickNotify", id |-> OwnerOf[c]]
                                 /\ room[g] = room[c]
      BY <2>1, <2>2 DEF KickReachesAll
    <3>2. g # h
      BY <2>1, <2>2, <3>1 DEF Members, OwedInMain, TypeOK
    <3> QED
      BY <2>1, <3>1, <3>2
  <2> QED
    BY <2>1, <2>2 DEF OwedInMain, KickReachesAll
<1>6. ASSUME NEW h \in HostConns, MuteRoom(h) PROVE OwedInMain' /\ KickReachesAll'
  BY <1>6 DEF TypeOK, MuteRoom, OwedInMain, KickReachesAll
<1>7. CASE Persist \/ LoseBatch \/ ReapScan \/ ReapRemove \/ UNCHANGED vars
  BY <1>7 DEF Persist, LoseBatch, ReapScan, ReapRemove, vars, OwedInMain, KickReachesAll
<1>8. CASE Restart
  BY <1>8 DEF Restart, OwedInMain, KickReachesAll
<1> QED
  BY <1>1, <1>2, <1>3, <1>4, <1>5, <1>6, <1>7, <1>8 DEF Next, Moderate

-----------------------------------------------------------------------------
(***************************************************************************)
(* The theorems.                                                           *)
(***************************************************************************)
IInv == TypeOK /\ Holding /\ PresenceExact /\ BarredBy /\ OwedInMain /\ KickReachesAll

LEMMA Inductive == Spec => []IInv
<1>1. Init => IInv
  <2> SUFFICES ASSUME Init PROVE IInv
    OBVIOUS
  <2>1. Holding
    BY ConnAssumption DEF Init, Holding, Conns
  <2>2. PresenceExact
    BY DEF Init, PresenceExact, Seated
  <2>3. BarredBy /\ OwedInMain /\ KickReachesAll
    BY DEF Init, BarredBy, OwedInMain, KickReachesAll
  <2> QED
    BY <2>1, <2>2, <2>3, TypeInit DEF IInv
<1>2. IInv /\ [Next]_vars => IInv'
  BY TypeStep, HoldingStep, PresenceStep, BarredStep, OwedStep DEF IInv
<1> QED
  BY <1>1, <1>2, PTL DEF Spec

\* Handshakes, rooms, handlers and what is under way stay well typed.
THEOREM TypeCorrect == Spec => []TypeOK
  BY Inductive, PTL DEF IInv

\* The presence list of every instance is its connections.
THEOREM PresenceIsExact == Spec => []PresenceExact
  BY Inductive, PTL DEF IInv

\* No interleaving of reads, kicks and writes lets in a guest who was already
\* kicked when the Hello came.
THEOREM BarredNeverJoins == Spec => []BarredStaysOut
<1>1. BarredBy => BarredStaysOut
  BY DEF BarredBy, BarredStaysOut
<1> QED
  BY <1>1, Inductive, PTL DEF IInv

\* A kick forgets no connection that was in its main loop.
THEOREM KickForgetsNobody == Spec => []KickReachesAll
  BY Inductive, PTL DEF IInv

\* Neither the reaper nor a new connection replaces an occupied room.
THEOREM OccupiedRoomIsKept == Spec => OccupiedRoomStays
<1> DEFINE Kept == \A c \in Conns : InRegistered(c) /\ pc'[c] # "closed" => registry' = registry
<1>1. TypeOK /\ [Next]_vars => [Kept]_vars
  <2> SUFFICES ASSUME TypeOK, Next, NEW c \in Conns, InRegistered(c), pc'[c] # "closed"
               PROVE  registry' = registry
    BY DEF vars, roomVars
  <2>1. ~Empty(registry)
    BY ConnAssumption DEF InRegistered, Empty
  <2>2. registry # NoRoom
    BY DEF InRegistered
  <2>3. ~Restart
    BY DEF Restart
  <2> QED
    BY <2>1, <2>2, <2>3
    DEF Next, Handshake, MainLoop, Moderate, Hello, CheckMemory, CheckTable, Refuse,
        HandshakeFails, ReadMuted, FindRoom, Join, WelcomeFails, Subscribe, Leave, ReceiveKick,
        Lag, StartKick, StartMute, EnqueueThen, KickRoom, KickNotify, MuteRoom, Persist,
        LoseBatch, ReapScan, ReapRemove, Reapable, RemoveClient, roomVars
<1> QED
  BY <1>1, TypeCorrect, PTL DEF Spec, OccupiedRoomStays

\* A muted guest who is present is not heard again by another handshake, a
\* kick of someone else, the reaper or the table: the host's unmute it takes.
THEOREM UnmutedByHostOnly == Spec => MutedUntilUnmuted
<1> DEFINE ByHost == \E h \in HostConns : task'[h] # task[h] /\ task[h].step = "muteRoom"
           Kept   == \A r \in Rooms : \A i \in muted[r] \ muted'[r] : clients'[r][i] = {} \/ ByHost
<1>1. TypeOK /\ Holding /\ [Next]_vars => [Kept]_vars
  <2> SUFFICES ASSUME TypeOK, Holding, Next, NEW r \in Rooms, NEW i \in muted[r] \ muted'[r]
               PROVE  clients'[r][i] = {} \/ ByHost
    OBVIOUS
  <2> USE ConnAssumption DEF roomVars, connVars, hostVars, historyVars
  <2>1. i \in Ids
    BY DEF TypeOK
  <2>2. muted' # muted
    OBVIOUS
  <2>3. CASE \E c \in Conns : FindRoom(c)
    <3>1. PICK n \in Unheld : /\ clients' = [clients EXCEPT ![n] = [k \in Ids |-> {}]]
                              /\ muted' = [muted EXCEPT ![n] = {}]
      BY <2>2, <2>3 DEF FindRoom
    <3>2. r = n
      BY <3>1 DEF TypeOK
    <3> QED
      BY <2>1, <3>1, <3>2 DEF TypeOK
  <2>4. ASSUME NEW c \in Conns, Join(c) PROVE FALSE
    BY <2>4 DEF Join, TypeOK
  <2>5. ASSUME NEW c \in Conns, RemoveClient(c) PROVE clients'[r][i] = {}
    <3>1. r = room[c] /\ i = OwnerOf[c] /\ clients[r][i] \subseteq {c}
      BY <2>5 DEF RemoveClient, TypeOK
    <3>2. clients'[r][i] = clients[r][i] \ {c}
      BY <2>1, <2>5, <3>1 DEF RemoveClient, TypeOK
    <3> QED
      BY <3>1, <3>2
  <2>6. ASSUME NEW h \in HostConns, KickRoom(h) PROVE clients'[r][i] = {}
    <3>1. r = room[h] /\ i = task[h].id
      BY <2>6 DEF KickRoom, TypeOK
    <3> QED
      BY <2>1, <2>6, <3>1 DEF KickRoom, TypeOK
  <2>7. ASSUME NEW h \in HostConns, MuteRoom(h) PROVE ByHost
    BY <2>7 DEF MuteRoom, TypeOK, Resting
  <2>8. CASE Restart
    BY <2>1, <2>8 DEF Restart
  <2>9. QED
    BY <2>2, <2>3, <2>4, <2>5, <2>6, <2>7, <2>8
    DEF Next, Handshake, MainLoop, Moderate, Hello, CheckMemory, CheckTable, Refuse,
        HandshakeFails, ReadMuted, WelcomeFails, Subscribe, Leave, ReceiveKick, Lag,
        StartKick, StartMute, EnqueueThen, KickNotify, Persist, LoseBatch, ReapScan,
        ReapRemove
<1>2. IInv => TypeOK /\ Holding
  BY DEF IInv
<1> QED
  BY <1>1, <1>2, Inductive, PTL DEF Spec, MutedUntilUnmuted
=============================================================================
