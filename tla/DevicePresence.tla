---------------------------- MODULE DevicePresence ----------------------------
(***************************************************************************)
(* One enrolled device on one relay process: its presence sockets          *)
(* (relay/app/api/ws.py, device_socket), the hub's table of devices and    *)
(* their Redis listeners (relay/app/services/hub.py), the device row that  *)
(* the console reads, the device's session as far as it touches that row,  *)
(* the operator who opens the session, and the agent's serve loop          *)
(* (agent/rmm_agent/device.py).                                            *)
(*                                                                         *)
(* A handler decides and commits in two steps, because it awaits its       *)
(* SELECT in between.  The commit itself is one step: what SQLAlchemy      *)
(* writes is what one atomic update writes, either at the SELECT or at the *)
(* COMMIT.                                                                 *)
(***************************************************************************)
EXTENDS Naturals, FiniteSets

CONSTANTS
    Conns,      \* the presence sockets the agent opens, one after the other
    None

ASSUME ConnsAssumption == None \notin Conns

VARIABLES
    row,        \* the device's status and last_seen_at, and its session's guest_connected
    slot,       \* hub._devices[id]
    task,       \* hub._device_tasks[id]: the connection whose attach created it
    listening,  \* the listener tasks that run, registered or not
    redis,      \* hub._redis and hub._redis_failed
    pc,         \* where each device_socket handler is
    alive,      \* the sockets both ends of which are up
    guest,      \* the handler of the session the device streams in
    op,         \* the operator's handler while it opens the session
    pending,    \* listeners that have a published start_session to deliver
    link,       \* agent: the socket serve() reads
    active      \* agent: serve()'s `active` task is running

hub == <<slot, task, listening, redis>>
agent == <<link, active>>
vars == <<row, hub, pc, alive, guest, op, pending, agent>>

Attached == {"subscribing", "opening", "loop"}
Positions == Attached \cup {"new", "asking", "leaving", "raised", "done"}
NotAsking == [at |-> "idle", here |-> FALSE, to |-> None]

(* What the console shows of the device (_mark_devices). *)
Reported == slot # None \/ (row.status = "online" /\ row.fresh)

Online(r) == [r EXCEPT !.status = "online", !.fresh = TRUE]
\* Fault: a status of its own for a device that has gone.
OfflineAsLost(r) == [r EXCEPT !.status = "lost", !.fresh = TRUE]
Offline(r) == [r EXCEPT !.status = "offline", !.fresh = TRUE]

Rows == [status : {"online", "offline"}, fresh : BOOLEAN, guest : BOOLEAN]
Clients == {"none", "pinging", "up", "failed"}
Guests == {"none", "on", "leaving", "marking", "clearing"}
Openings == [at : {"idle", "opened", "sending"}, here : BOOLEAN, to : Conns \cup {None}]

TypeOK ==
    /\ row \in Rows
    /\ slot \in Conns \cup {None}
    /\ task \in Conns \cup {None}
    /\ listening \subseteq Conns
    /\ redis \in Clients
    /\ pc \in [Conns -> Positions]
    /\ alive \subseteq Conns
    /\ guest \in Guests
    /\ op \in Openings
    /\ pending \subseteq Conns
    /\ link \in Conns \cup {None}
    /\ active \in BOOLEAN

Init ==
    /\ row = [status |-> "offline", fresh |-> FALSE, guest |-> FALSE]
    /\ slot = None
    /\ task = None
    /\ listening = {}
    /\ redis = "none"
    /\ pc = [c \in Conns |-> "new"]
    /\ alive = {}
    /\ guest = "none"
    /\ op = NotAsking
    /\ pending = {}
    /\ link = None
    /\ active = FALSE

-----------------------------------------------------------------------------
(* The agent. *)

AgentConnects(c) ==
    /\ link = None
    /\ pc[c] = "new"
    /\ link' = c
    /\ pc' = [pc EXCEPT ![c] = "asking"]
    /\ alive' = alive \cup {c}
    /\ UNCHANGED <<row, hub, guest, op, pending, active>>

(* The network, a sleep, a handshake that takes too long, or the agent      *)
(* noticing that the relay closed: serve() leaves the socket and retries.   *)
(* The relay has noticed nothing yet.                                       *)
AgentLoses(c) ==
    /\ link = c
    /\ link' = None
    /\ alive' = alive \ {c}
    /\ UNCHANGED <<row, hub, pc, guest, op, pending, active>>

(* A start_session sent on socket c: the agent reads it, and ignores it      *)
(* while a session runs; or it is lost with the socket.  The sender waits   *)
(* for as long as the message is under way.                                 *)
Reaches(c) == active' = (active \/ c \in alive)

SessionOver ==
    /\ active
    /\ active' = FALSE
    /\ UNCHANGED <<row, hub, pc, alive, guest, op, pending, link>>

-----------------------------------------------------------------------------
(* The device's handler on the relay. *)

(* The secret has been verified in a thread, the socket is accepted, the    *)
(* device takes the slot and the listener of its predecessor is cancelled.  *)
(* Only the first caller of _client waits for the ping: whoever comes while *)
(* it waits finds _redis set already.                                       *)
Attaches(c) ==
    /\ pc[c] = "asking"
    /\ slot' = c
    /\ LET kept == listening \ {task}
       IN IF redis \in {"pinging", "up"}
          THEN task' = c /\ listening' = kept \cup {c}
          ELSE task' = None /\ listening' = kept
    /\ redis' = IF redis = "none" THEN "pinging" ELSE redis
    /\ pc' = [pc EXCEPT ![c] = IF redis = "none" THEN "subscribing" ELSE "opening"]
    /\ pending' = pending \ {task}
    /\ UNCHANGED <<row, alive, guest, op, agent>>

AcceptFails(c) ==
    /\ pc[c] = "asking"
    /\ c \notin alive
    /\ pc' = [pc EXCEPT ![c] = "done"]
    /\ UNCHANGED <<row, hub, alive, guest, op, pending, agent>>

(* The first ping answers.  What was registered meanwhile is overwritten.   *)
PingReturns(c) ==
    /\ pc[c] = "subscribing"
    /\ redis' = "up"
    /\ task' = c
    /\ listening' = listening \cup {c}
    /\ pc' = [pc EXCEPT ![c] = "opening"]
    /\ UNCHANGED <<row, slot, alive, guest, op, pending, agent>>

PingFails(c) ==
    /\ pc[c] = "subscribing"
    /\ redis' = "failed"
    /\ pc' = [pc EXCEPT ![c] = "opening"]
    /\ UNCHANGED <<row, slot, task, listening, alive, guest, op, pending, agent>>

OpenCommits(c) ==
    /\ pc[c] = "opening"
    /\ row' = Online(row)
    /\ pc' = [pc EXCEPT ![c] = "loop"]
    /\ UNCHANGED <<hub, alive, guest, op, pending, agent>>

(* The transaction comes before the try block: the handler ends without its *)
(* cleanup, and the server closes the socket.                               *)
OpenFails(c) ==
    /\ pc[c] = "opening"
    /\ pc' = [pc EXCEPT ![c] = "raised"]
    /\ alive' = alive \ {c}
    /\ UNCHANGED <<row, hub, guest, op, pending, agent>>

(* One heartbeat and its transaction. *)
Beats(c) ==
    /\ pc[c] = "loop"
    /\ link = c
    /\ row' = [row EXCEPT !.fresh = TRUE]
    /\ UNCHANGED <<hub, pc, alive, guest, op, pending, agent>>

(* detach_device: the slot and the registered listener go only with the     *)
(* socket that holds the slot.                                              *)
\* Faults: the entry goes whoever holds it; the listener goes on; nothing goes.
DetachedWhoever(c) ==
    /\ slot' = None
    /\ task' = None
    /\ listening' = listening \ {task}
    /\ pending' = pending \ {task}
DetachedStillListening(c) ==
    IF slot = c
    THEN slot' = None /\ task' = None /\ UNCHANGED <<listening, pending>>
    ELSE UNCHANGED <<slot, task, listening, pending>>
DetachedNever(c) == UNCHANGED <<slot, task, listening, pending>>
Detached(c) ==
    IF slot = c
    THEN /\ slot' = None
         /\ task' = None
         /\ listening' = listening \ {task}
         /\ pending' = pending \ {task}
    ELSE UNCHANGED <<slot, task, listening, pending>>

(* The finally block, after a disconnect or a heartbeat whose transaction   *)
(* failed: unless a newer socket is in the table the row will say offline.  *)
Leaves(c) ==
    /\ pc[c] = "loop"
    /\ c \notin alive \/ link = c
    /\ Detached(c)
    /\ alive' = alive \ {c}
    /\ pc' = [pc EXCEPT ![c] = IF slot' = None THEN "leaving" ELSE "done"]
    /\ UNCHANGED <<row, redis, guest, op, agent>>

LeaveCommits(c) ==
    /\ pc[c] = "leaving"
    /\ row' = Offline(row)
    /\ pc' = [pc EXCEPT ![c] = "done"]
    /\ UNCHANGED <<hub, alive, guest, op, pending, agent>>

LeaveFails(c) ==
    /\ pc[c] = "leaving"
    /\ pc' = [pc EXCEPT ![c] = "done"]
    /\ UNCHANGED <<row, hub, alive, guest, op, pending, agent>>

-----------------------------------------------------------------------------
(* The session's own guest socket, as far as it writes the device's row.    *)

GuestJoins ==
    /\ active
    /\ guest = "none"
    /\ guest' = "on"
    /\ row' = [row EXCEPT !.guest = TRUE]
    /\ UNCHANGED <<hub, pc, alive, op, pending, agent>>

GuestPings ==
    /\ guest = "on"
    /\ row' = Online(row)
    /\ UNCHANGED <<hub, pc, alive, guest, op, pending, agent>>

GuestLeaves ==
    /\ guest = "on"
    /\ guest' = "leaving"
    /\ UNCHANGED <<row, hub, pc, alive, op, pending, agent>>

(* Whether a presence socket holds the device up is asked before the        *)
(* device's row is read.                                                    *)
GuestDecides ==
    /\ guest = "leaving"
    /\ guest' = IF slot = None THEN "marking" ELSE "clearing"
    /\ UNCHANGED <<row, hub, pc, alive, op, pending, agent>>

GuestLeaveCommits ==
    /\ guest \in {"marking", "clearing"}
    /\ guest' = "none"
    /\ row' = [row EXCEPT !.guest = FALSE,
                          !.status = IF guest = "marking" THEN "offline" ELSE @]
    /\ UNCHANGED <<hub, pc, alive, op, pending, agent>>

GuestLeaveFails ==
    /\ guest \in {"marking", "clearing"}
    /\ guest' = "none"
    /\ UNCHANGED <<row, hub, pc, alive, op, pending, agent>>

-----------------------------------------------------------------------------
(* The operator opens the device's session. *)

(* The row is read before the socket is accepted and attached; the attach   *)
(* asks for the Redis client too.                                           *)
OperatorOpens ==
    /\ op.at = "idle"
    /\ op' = [op EXCEPT !.at = "opened", !.here = row.guest]
    /\ redis' \in IF redis = "none" THEN {"up", "failed"} ELSE {redis}
    /\ UNCHANGED <<row, slot, task, listening, pc, alive, guest, pending, agent>>

Publish == pending' = IF redis = "failed" THEN pending ELSE pending \cup listening

\* Fault: the local table is not looked at first.
OperatorAsksThroughRedis ==
    /\ op.at = "opened"
    /\ op' = NotAsking
    /\ IF op.here \/ guest = "on" THEN UNCHANGED pending ELSE Publish
    /\ UNCHANGED <<row, hub, pc, alive, guest, agent>>
OperatorAsks ==
    /\ op.at = "opened"
    /\ IF op.here \/ guest = "on"
       THEN op' = NotAsking /\ UNCHANGED pending
       ELSE IF slot # None
            THEN op' = [op EXCEPT !.at = "sending", !.to = slot] /\ UNCHANGED pending
            ELSE op' = NotAsking /\ Publish
    /\ UNCHANGED <<row, hub, pc, alive, guest, agent>>

(* A send to a dead socket may look like a success. *)
SendReturns ==
    /\ op.at = "sending"
    /\ Reaches(op.to)
    /\ op' = NotAsking
    /\ UNCHANGED <<row, hub, pc, alive, guest, pending, link>>

(* to_device_json empties the slot, whoever holds it by now, and publishes. *)
SendRaises ==
    /\ op.at = "sending"
    /\ op.to \notin alive
    /\ slot' = None
    /\ op' = NotAsking
    /\ Publish
    /\ UNCHANGED <<row, task, listening, redis, pc, alive, guest, agent>>

(* A listener hands a message to the socket it finds in the table; a send   *)
(* that fails ends the listener, which nothing starts again.                *)
Delivers(c) ==
    /\ c \in pending
    /\ pending' = pending \ {c}
    /\ \/ Reaches(slot) /\ UNCHANGED listening
       \/ slot \in Conns \ alive /\ listening' = listening \ {c} /\ UNCHANGED active
    /\ UNCHANGED <<row, slot, task, redis, pc, alive, guest, op, link>>

ListenerEnds(c) ==
    /\ c \in listening
    /\ listening' = listening \ {c}
    /\ pending' = pending \ {c}
    /\ UNCHANGED <<row, slot, task, redis, pc, alive, guest, op, agent>>

-----------------------------------------------------------------------------
(* Ninety seconds pass since last_seen_at. *)
Ages ==
    /\ row.fresh
    /\ row' = [row EXCEPT !.fresh = FALSE]
    /\ UNCHANGED <<hub, pc, alive, guest, op, pending, agent>>

(* The relay process is replaced; reset_stale_presence runs before it serves. *)
Restarts ==
    /\ \E c \in Conns : pc[c] \in Attached
    /\ row' = [row EXCEPT !.status = "offline", !.guest = FALSE]
    /\ slot' = None
    /\ task' = None
    /\ listening' = {}
    /\ redis' = "none"
    /\ pc' = [c \in Conns |-> IF pc[c] = "new" THEN "new" ELSE "done"]
    /\ alive' = {}
    /\ guest' = "none"
    /\ op' = NotAsking
    /\ pending' = {}
    /\ UNCHANGED agent

Handles(c) ==
    \/ Attaches(c) \/ AcceptFails(c) \/ PingReturns(c) \/ PingFails(c)
    \/ OpenCommits(c) \/ OpenFails(c) \/ (c \notin alive /\ Leaves(c))
    \/ LeaveCommits(c) \/ LeaveFails(c)

GuestHandles == GuestDecides \/ GuestLeaveCommits \/ GuestLeaveFails

Next ==
    \/ \E c \in Conns :
          \/ AgentConnects(c) \/ AgentLoses(c)
          \/ Handles(c) \/ Beats(c) \/ Leaves(c)
          \/ Delivers(c) \/ ListenerEnds(c)
    \/ SessionOver
    \/ GuestJoins \/ GuestPings \/ GuestLeaves \/ GuestHandles
    \/ OperatorOpens \/ OperatorAsks \/ SendReturns \/ SendRaises
    \/ Ages \/ Restarts

(* asyncio runs every handler that can go on, a socket that is gone or whose *)
(* session is over is noticed, and time passes.  Nothing is assumed of the  *)
(* network, the operator, the session or Redis.                             *)
Fairness ==
    /\ \A c \in Conns : WF_vars(Handles(c))
    /\ WF_vars(GuestHandles)
    /\ WF_vars(~active /\ GuestLeaves)
    /\ WF_vars(OperatorAsks)
    /\ WF_vars(SendReturns \/ SendRaises)
    /\ WF_vars(Ages)

Spec == Init /\ [][Next]_vars
FairSpec == Spec /\ Fairness

-----------------------------------------------------------------------------
(* hub.py:167: the table names a connection whose handler is still inside,  *)
(* or one that raised before its try block and will never clean up.  Old    *)
(* and new sockets attach and leave in any order.                           *)
SlotHeldByLiveHandler == slot # None => pc[slot] \in Attached \cup {"raised"}

(* hub.py:160-165: replacing a device's socket any number of times leaves   *)
(* at most one listener behind, and only if the first ping was overtaken.   *)
AtMostOneStray == \A c, d \in listening \ {task} : c = d

(* ws.py:334: the cleanup of a socket that has been replaced takes nothing  *)
(* from its successor: neither its place, nor its listener, nor its row.    *)
CleanupSparesSuccessor ==
    [][\A c \in Conns :
          pc[c] = "loop" /\ pc'[c] \in {"leaving", "done"} /\ slot \notin {c, None}
             => \/ slot' = slot /\ task' = task /\ listening' = listening /\ pc'[c] = "done"
                \/ redis' = "none"]_vars

(* sessions.py:146-161: a device that is gone for good, with its session,   *)
(* stops being reported, whatever failed on the way: through its handler's  *)
(* cleanup, or through the ninety seconds.  The one exception is a socket   *)
(* whose opening transaction failed (ws.py:306): it stays in the table.     *)
Gone == alive = {} /\ guest = "none"
GoneGoesOffline ==
    <>[]Gone => <>[](~Reported \/ (slot # None /\ pc[slot] = "raised"))

(* ws.py:293, 409: an operator who keeps opening the session of a device    *)
(* that stays connected gets it started.  Two things can prevent it: the    *)
(* table has lost the device (a send to its previous socket failed late,    *)
(* hub.py:270, or an abandoned handshake was attached after it), or the row *)
(* claims a guest because a leaving transaction failed (ws.py:261).         *)
Lost(c) == slot # c
Stuck == row.guest /\ guest = "none"
OpenReachesDevice ==
    \A c \in Conns :
        /\ <>[](link = c /\ c \in alive /\ pc[c] = "loop")
        /\ []<><<OperatorOpens>>_vars
        => \/ []<>active
           \/ <>[]Lost(c)
           \/ <>[]Stuck
=============================================================================
