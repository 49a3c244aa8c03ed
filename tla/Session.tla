------------------------------- MODULE Session -------------------------------
(***************************************************************************)
(* Connections to one room: the handshake of ws.rs::run_connection, the    *)
(* presence list of Room, the host's kick and mute (intents/moderation.rs) *)
(* and the registry with its idle reaper.                                  *)
(*                                                                         *)
(* A handshake is a series of separate reads: the room's kicked set, the   *)
(* `kicked` and then the `muted` column of table moderation, the registry, *)
(* and only then add_client and, after the Welcome is sent, subscribe.     *)
(* Kicks, mutes, other handshakes of the same guest (a guest id is kept by *)
(* the browser: two tabs share it), the writer and the reaper fall between *)
(* any two of them.                                                        *)
(*                                                                         *)
(* An instance of Room lives while the registry or a connection holds its  *)
(* Arc.  A room that was evicted while a connection held it goes on        *)
(* existing beside the one the next connection creates.                    *)
(*                                                                         *)
(* Abstracted: clocks (a room without clients may be ten minutes idle at    *)
(* any time, a receiver may lag at any time), the contents of Welcome and  *)
(* of the presence broadcasts, display names, token verification.          *)
(***************************************************************************)
EXTENDS Integers, Sequences, FiniteSets

CONSTANTS
    HostConns,   \* connections that present a valid admin token
    GuestConns,  \* connections with the guest role
    Ids,         \* guest ids; a host connection has one as well
    OwnerOf,     \* the guest id each connection says Hello with
    Targets,     \* the ids hosts kick and mute
    Rooms,       \* instances of Room for the one room id
    NoRoom,      \* no instance
    MaxQueue     \* bound of the model on moderation operations under way

Conns == HostConns \cup GuestConns

ASSUME ConnAssumption ==
    /\ HostConns \cap GuestConns = {}
    /\ OwnerOf \in [Conns -> Ids]
    /\ Targets \subseteq Ids
    /\ NoRoom \notin Rooms
    /\ MaxQueue \in Nat \ {0}

VARIABLES
    registry,   \* RoomRegistry.rooms for this id
    clients,    \* per instance, the client_ids of each id's PresenceEntry;
                \* {} when the id has no entry
    muted,      \* per instance, the ids whose entry is muted
    kicked,     \* per instance, Room.kicked_guests
    candidate,  \* the reaper has listed the room id
    pc,         \* how far each connection has come
    room,       \* the instance a connection holds
    sawMute,    \* initial_muted of a handshake
    told,       \* connections with their own KickNotice still to receive
    task,       \* what a host's kick or mute handler has yet to do
    queue,      \* SetKicked and SetMuted on their way to the writer
    table,      \* the committed rows of table moderation
    barred,     \* history: connections whose id was barred at Hello and since
    owed        \* history: connections in the main loop when their id was
                \* kicked, not closed and not lagged since

roomVars    == <<registry, clients, muted, kicked, candidate>>
connVars    == <<pc, room, sawMute, told>>
hostVars    == <<task, queue, table>>
historyVars == <<barred, owed>>
vars        == <<roomVars, connVars, hostVars, historyVars>>

Stages == {"closed", "hello", "screened", "cleared", "ready", "found", "joined", "main"}

Resting == [step |-> "none"]

Task ==      {Resting}
        \cup [step : {"kickRoom", "kickNotify"}, id : Targets]
        \cup [step : {"muteRoom"}, id : Targets, muted : BOOLEAN]

Op ==    [kind : {"kicked"}, id : Targets]
    \cup [kind : {"muted"}, id : Targets, muted : BOOLEAN]

TypeOK ==
    /\ registry \in Rooms \cup {NoRoom}
    /\ clients \in [Rooms -> [Ids -> SUBSET Conns]]
    /\ muted \in [Rooms -> SUBSET Ids]
    /\ kicked \in [Rooms -> SUBSET Ids]
    /\ candidate \in BOOLEAN
    /\ pc \in [Conns -> Stages]
    /\ room \in [Conns -> Rooms \cup {NoRoom}]
    /\ sawMute \in [Conns -> BOOLEAN]
    /\ told \subseteq Conns
    /\ task \in [HostConns -> Task]
    /\ queue \in Seq(Op)
    /\ table \in [kicked : SUBSET Ids, muted : SUBSET Ids]
    /\ barred \subseteq Conns
    /\ owed \subseteq Conns

Init ==
    /\ registry = NoRoom
    /\ clients = [r \in Rooms |-> [i \in Ids |-> {}]]
    /\ muted = [r \in Rooms |-> {}]
    /\ kicked = [r \in Rooms |-> {}]
    /\ candidate = FALSE
    /\ pc = [c \in Conns |-> "closed"]
    /\ room = [c \in Conns |-> NoRoom]
    /\ sawMute = [c \in Conns |-> FALSE]
    /\ told = {}
    /\ task = [h \in HostConns |-> Resting]
    /\ queue = <<>>
    /\ table = [kicked |-> {}, muted |-> {}]
    /\ barred = {}
    /\ owed = {}

-----------------------------------------------------------------------------
(***************************************************************************)
(* The handshake.                                                          *)
(***************************************************************************)
\* Mutant: only the table is asked, whose row may not be committed yet.
KickedNowhere(i) == FALSE

\* state.rooms.get(id).map(|r| r.is_kicked(i)).unwrap_or(false)
KickedInMemory(i) == registry # NoRoom /\ i \in kicked[registry]

Barred(i) == (registry # NoRoom /\ i \in kicked[registry]) \/ i \in table.kicked

Advance(c, from, to) ==
    /\ pc[c] = from
    /\ pc' = [pc EXCEPT ![c] = to]

\* The connection is gone; its task drops the Arc and the receiver.
Close(c) ==
    /\ pc' = [pc EXCEPT ![c] = "closed"]
    /\ room' = [room EXCEPT ![c] = NoRoom]
    /\ sawMute' = [sawMute EXCEPT ![c] = FALSE]
    /\ told' = told \ {c}
    /\ barred' = barred \ {c}
    /\ owed' = owed \ {c}
    /\ UNCHANGED hostVars

\* A Hello that passes validation; hosts are past moderation.
Hello(c) ==
    /\ Advance(c, "closed", IF c \in HostConns THEN "ready" ELSE "hello")
    /\ barred' = IF c \in GuestConns /\ Barred(OwnerOf[c]) THEN barred \cup {c}
                                                           ELSE barred
    /\ UNCHANGED <<roomVars, room, sawMute, told, hostVars, owed>>

CheckMemory(c) ==
    /\ ~KickedInMemory(OwnerOf[c])
    /\ Advance(c, "hello", "screened")
    /\ UNCHANGED <<roomVars, room, sawMute, told, hostVars, historyVars>>

CheckTable(c) ==
    /\ OwnerOf[c] \notin table.kicked
    /\ Advance(c, "screened", "cleared")
    /\ UNCHANGED <<roomVars, room, sawMute, told, hostVars, historyVars>>

\* A kicked guest is told so and refused.
Refuse(c) ==
    /\ \/ pc[c] = "hello" /\ KickedInMemory(OwnerOf[c])
       \/ pc[c] = "screened" /\ OwnerOf[c] \in table.kicked
    /\ Close(c)
    /\ UNCHANGED roomVars

\* The database does not answer one of the reads.
HandshakeFails(c) ==
    /\ pc[c] \in {"hello", "screened", "cleared"}
    /\ Close(c)
    /\ UNCHANGED roomVars

ReadMuted(c) ==
    /\ Advance(c, "cleared", "ready")
    /\ sawMute' = [sawMute EXCEPT ![c] = OwnerOf[c] \in table.muted]
    /\ UNCHANGED <<roomVars, room, told, hostVars, historyVars>>

\* An instance no connection holds and the registry does not know.
Unheld == Rooms \ ({registry} \cup {room[c] : c \in Conns})

\* get_or_create_hydrated, under the shard lock.  Hydration does not read
\* table moderation: a fresh instance has kicked and muted nobody.  Finding
\* an instance does not touch it.
FindRoom(c) ==
    /\ Advance(c, "ready", "found")
    /\ \/ /\ registry # NoRoom
          /\ room' = [room EXCEPT ![c] = registry]
          /\ UNCHANGED roomVars
       \/ /\ registry = NoRoom
          /\ \E r \in Unheld :
                /\ registry' = r
                /\ clients' = [clients EXCEPT ![r] = [i \in Ids |-> {}]]
                /\ muted' = [muted EXCEPT ![r] = {}]
                /\ kicked' = [kicked EXCEPT ![r] = {}]
                /\ room' = [room EXCEPT ![c] = r]
          /\ UNCHANGED candidate
    /\ UNCHANGED <<sawMute, told, hostVars, historyVars>>

\* Mutant: the muted flag just read replaces the one of an existing entry.
JoinOverwrites(c) ==
    LET r == room[c]
        i == OwnerOf[c]
    IN  /\ Advance(c, "found", "joined")
        /\ clients' = [clients EXCEPT ![r][i] = @ \cup {c}]
        /\ muted' = [muted EXCEPT ![r] = IF sawMute[c] THEN @ \cup {i} ELSE @ \ {i}]
        /\ UNCHANGED <<registry, kicked, candidate, room, sawMute, told, hostVars, historyVars>>

\* add_client: a further connection of a present guest shares its entry; the
\* kicked set is not looked at.
Join(c) ==
    LET r == room[c]
        i == OwnerOf[c]
    IN  /\ Advance(c, "found", "joined")
        /\ clients' = [clients EXCEPT ![r][i] = @ \cup {c}]
        /\ muted' = IF clients[r][i] = {} /\ sawMute[c]
                      THEN [muted EXCEPT ![r] = @ \cup {i}]
                      ELSE muted
        /\ UNCHANGED <<registry, kicked, candidate, room, sawMute, told, hostVars, historyVars>>

\* remove_client: the last connection takes the entry with it.
RemoveClient(c) ==
    LET r == room[c]
        i == OwnerOf[c]
    IN  /\ clients' = [clients EXCEPT ![r][i] = @ \ {c}]
        /\ muted' = IF clients[r][i] \subseteq {c} THEN [muted EXCEPT ![r] = @ \ {i}]
                                                   ELSE muted
        /\ UNCHANGED <<registry, kicked, candidate>>

\* Mutant: the early return of a failed Welcome skips the cleanup.
WelcomeFailsQuietly(c) ==
    /\ pc[c] = "joined"
    /\ Close(c)
    /\ UNCHANGED roomVars

\* The socket is closed before the Welcome is out.
WelcomeFails(c) ==
    /\ pc[c] = "joined"
    /\ RemoveClient(c)
    /\ Close(c)

Subscribe(c) ==
    /\ Advance(c, "joined", "main")
    /\ UNCHANGED <<roomVars, room, sawMute, told, hostVars, historyVars>>

-----------------------------------------------------------------------------
(***************************************************************************)
(* The main loop, as far as it decides who stays.                          *)
(***************************************************************************)
\* A connection that is not inside one of its own handlers.
AtLoop(c) == pc[c] = "main" /\ (c \in HostConns => task[c] = Resting)

Leave(c) ==
    /\ AtLoop(c)
    /\ RemoveClient(c)
    /\ Close(c)

\* Mutant: the notice is forwarded and the loop goes on.
ForwardKick(c) ==
    /\ AtLoop(c)
    /\ c \in told
    /\ told' = told \ {c}
    /\ UNCHANGED <<roomVars, pc, room, sawMute, hostVars, historyVars>>

ReceiveKick(c) ==
    /\ AtLoop(c)
    /\ c \in told
    /\ RemoveClient(c)
    /\ Close(c)

\* The notice was overwritten in the broadcast buffer: RecvError::Lagged, a
\* snapshot is sent and the loop goes on.
Lag(c) ==
    /\ AtLoop(c)
    /\ c \in told
    /\ told' = told \ {c}
    /\ owed' = owed \ {c}
    /\ UNCHANGED <<roomVars, pc, room, sawMute, hostVars, barred>>

-----------------------------------------------------------------------------
(***************************************************************************)
(* Moderation.  The operation is enqueued before the room is changed.      *)
(***************************************************************************)
EnqueueThen(h, op, next) ==
    /\ AtLoop(h)
    /\ Len(queue) < MaxQueue
    /\ queue' = Append(queue, op)
    /\ task' = [task EXCEPT ![h] = next]
    /\ UNCHANGED <<roomVars, connVars, table, historyVars>>

StartKick(h) ==
    \E i \in Targets : EnqueueThen(h, [kind |-> "kicked", id |-> i],
                                      [step |-> "kickRoom", id |-> i])

StartMute(h) ==
    \E i \in Targets, m \in BOOLEAN :
        EnqueueThen(h, [kind |-> "muted", id |-> i, muted |-> m],
                       [step |-> "muteRoom", id |-> i, muted |-> m])

Members(r, i) == {c \in Conns : OwnerOf[c] = i /\ room[c] = r /\ pc[c] = "main"}

\* Room::kick_guest
KickRoom(h) ==
    /\ task[h].step = "kickRoom"
    /\ LET r == room[h]
           i == task[h].id
       IN  /\ kicked' = [kicked EXCEPT ![r] = @ \cup {i}]
           /\ clients' = [clients EXCEPT ![r][i] = {}]
           /\ muted' = [muted EXCEPT ![r] = @ \ {i}]
           /\ task' = [task EXCEPT ![h] = [step |-> "kickNotify", id |-> i]]
           /\ owed' = owed \cup Members(r, i)
    /\ UNCHANGED <<registry, candidate, connVars, queue, table, barred>>

\* Mutant: the notice is addressed to the id and not to its connections.
KickNotifyId(h) ==
    /\ task[h].step = "kickNotify"
    /\ told' = told \cup {task[h].id}
    /\ task' = [task EXCEPT ![h] = Resting]
    /\ UNCHANGED <<roomVars, pc, room, sawMute, queue, table, historyVars>>

\* The KickNotice goes to whoever has subscribed by now.
KickNotify(h) ==
    /\ task[h].step = "kickNotify"
    /\ told' = told \cup Members(room[h], task[h].id)
    /\ task' = [task EXCEPT ![h] = Resting]
    /\ UNCHANGED <<roomVars, pc, room, sawMute, queue, table, historyVars>>

\* Room::set_muted does nothing for a guest without an entry.
MuteRoom(h) ==
    /\ task[h].step = "muteRoom"
    /\ LET r == room[h]
           i == task[h].id
       IN  muted' = IF clients[r][i] = {} THEN muted
                    ELSE [muted EXCEPT ![r] = IF task[h].muted THEN @ \cup {i}
                                                               ELSE @ \ {i}]
    /\ task' = [task EXCEPT ![h] = Resting]
    /\ UNCHANGED <<registry, clients, kicked, candidate, connVars, queue, table, historyVars>>

\* A batch of the writer commits.
Persist ==
    /\ queue # <<>>
    /\ LET op == Head(queue) IN
        table' = IF op.kind = "kicked" THEN [table EXCEPT !.kicked = @ \cup {op.id}]
                 ELSE [table EXCEPT !.muted = IF op.muted THEN @ \cup {op.id}
                                                          ELSE @ \ {op.id}]
    /\ queue' = Tail(queue)
    /\ UNCHANGED <<roomVars, connVars, task, historyVars>>

\* An operation of another kind breaks a foreign key in the same batch.
LoseBatch ==
    /\ queue # <<>>
    /\ queue' = Tail(queue)
    /\ UNCHANGED <<roomVars, connVars, task, table, historyVars>>

-----------------------------------------------------------------------------
(***************************************************************************)
(* The reaper, and the restart of the process.                             *)
(***************************************************************************)
Empty(r) == \A i \in Ids : clients[r][i] = {}

\* How long ago the last add_client or remove_client was is left open.
Reapable == registry # NoRoom /\ Empty(registry)

ReapScan ==
    /\ Reapable
    /\ candidate' = TRUE
    /\ UNCHANGED <<registry, clients, muted, kicked, connVars, hostVars, historyVars>>

\* Evicted from the registry, a kick of the instance bars nobody any more.
Evict ==
    /\ registry' = NoRoom
    /\ barred' = {c \in barred : OwnerOf[c] \in table.kicked}

\* Mutant: remove instead of remove_if.
ReapUnchecked ==
    /\ candidate
    /\ registry # NoRoom
    /\ Evict
    /\ candidate' = FALSE
    /\ UNCHANGED <<clients, muted, kicked, connVars, hostVars, owed>>

\* remove_if checks again under the shard lock.
ReapRemove ==
    /\ candidate
    /\ IF Reapable THEN Evict ELSE UNCHANGED <<registry, barred>>
    /\ candidate' = FALSE
    /\ UNCHANGED <<clients, muted, kicked, connVars, hostVars, owed>>

Restart ==
    /\ registry' = NoRoom
    /\ clients' = [r \in Rooms |-> [i \in Ids |-> {}]]
    /\ muted' = [r \in Rooms |-> {}]
    /\ kicked' = [r \in Rooms |-> {}]
    /\ candidate' = FALSE
    /\ pc' = [c \in Conns |-> "closed"]
    /\ room' = [c \in Conns |-> NoRoom]
    /\ sawMute' = [c \in Conns |-> FALSE]
    /\ told' = {}
    /\ task' = [h \in HostConns |-> Resting]
    /\ queue' = <<>>
    /\ barred' = {}
    /\ owed' = {}
    /\ UNCHANGED table

-----------------------------------------------------------------------------
Handshake(c) ==
    \/ Hello(c) \/ CheckMemory(c) \/ CheckTable(c) \/ Refuse(c) \/ HandshakeFails(c)
    \/ ReadMuted(c) \/ FindRoom(c) \/ Join(c) \/ WelcomeFails(c) \/ Subscribe(c)

MainLoop(c) == Leave(c) \/ ReceiveKick(c) \/ Lag(c)

Moderate(h) == KickRoom(h) \/ KickNotify(h) \/ MuteRoom(h)

Next ==
    \/ \E c \in Conns : Handshake(c) \/ MainLoop(c)
    \/ \E h \in HostConns : StartKick(h) \/ StartMute(h) \/ Moderate(h)
    \/ Persist \/ LoseBatch
    \/ ReapScan \/ ReapRemove
    \/ Restart

Spec == Init /\ [][Next]_vars

-----------------------------------------------------------------------------
(***************************************************************************)
(* Properties.                                                             *)
(***************************************************************************)
Seated(r, i) ==
    {c \in Conns : OwnerOf[c] = i /\ room[c] = r /\ pc[c] \in {"joined", "main"}}

\* The presence list is the connections: no entry survives its last
\* connection, whatever way that ended, and no connection is missing from the
\* entry of its guest, unless the guest was kicked.  The reaper counts these
\* entries, and handle_text lets a guest speak by them.
PresenceExact ==
    \A r \in Rooms, i \in Ids :
        /\ clients[r][i] \subseteq Seated(r, i)
        /\ i \notin kicked[r] => clients[r][i] = Seated(r, i)

\* A guest who was already kicked when the Hello came, by the room or by the
\* table, and is still kicked, does not get to the room.
BarredStaysOut == \A c \in barred : pc[c] \in {"hello", "screened"}

InRegistered(c) == registry # NoRoom /\ c \in clients[registry][OwnerOf[c]]

\* The room a connected client is in is not replaced under it.
OccupiedRoomStays ==
    [][\A c \in Conns : InRegistered(c) /\ pc'[c] # "closed" => registry' = registry]_vars

\* A present guest who is muted is heard again only by the host's unmute:
\* opening another tab, whose handshake may have read an older row, does not
\* do it.
MutedUntilUnmuted ==
    [][\A r \in Rooms : \A i \in muted[r] \ muted'[r] :
          clients'[r][i] = {} \/ \E h \in HostConns : task'[h] # task[h] /\ task[h].step = "muteRoom"]_vars

\* Nobody is forgotten by a kick: a connection that was in its main loop when
\* its guest was kicked is closed, or its notice is on the way to it, or the
\* handler that will send the notice is still running, or it lagged.
KickReachesAll ==
    \A c \in owed \ told :
        \E h \in HostConns : /\ task[h] = [step |-> "kickNotify", id |-> OwnerOf[c]]
                             /\ room[h] = room[c]

\* room.rs:61 says the kicked set is there "so a fast reconnect cannot race
\* the kick": a kicked guest has no entry in the room.
KickIsFinal == \A r \in Rooms : \A i \in kicked[r] : clients[r][i] = {}

=============================================================================
