------------------------- MODULE DevicePresenceProofs -------------------------
(***************************************************************************)
(* What DevicePresence guarantees for any set of connections: its type     *)
(* invariant, that the table of devices names a handler that is still      *)
(* inside, that at most one listener is left behind, and that a cleanup    *)
(* spares the successor.                                                   *)
(***************************************************************************)
EXTENDS DevicePresence, TLAPS

(* One handler waits for the first ping, and only while it is under way.    *)
OnePing ==
    /\ \A c \in Conns : pc[c] = "subscribing" => redis = "pinging"
    /\ \A c, d \in Conns : pc[c] = "subscribing" /\ pc[d] = "subscribing" => c = d

(* Without a client nothing listens; during the ping only the listener      *)
(* that is registered does.                                                 *)
NoEarlyListener ==
    /\ redis = "none" => listening = {} /\ task = None
    /\ redis = "pinging" => listening \subseteq {task}

IInv == TypeOK /\ SlotHeldByLiveHandler /\ OnePing /\ NoEarlyListener /\ AtMostOneStray

-----------------------------------------------------------------------------
(* The type of the state. *)

LEMMA RowTypes == ASSUME row \in Rows
                  PROVE  /\ Online(row) \in Rows /\ Offline(row) \in Rows
                         /\ [row EXCEPT !.fresh = TRUE] \in Rows
                         /\ [row EXCEPT !.fresh = FALSE] \in Rows
                         /\ [row EXCEPT !.guest = TRUE] \in Rows
                         /\ [row EXCEPT !.guest = FALSE, !.status = "offline"] \in Rows
                         /\ [row EXCEPT !.guest = FALSE, !.status = row.status] \in Rows
                         /\ [row EXCEPT !.status = "offline", !.guest = FALSE] \in Rows
                         /\ row.guest \in BOOLEAN
  BY DEF Rows, Online, Offline

LEMMA OpeningTypes == ASSUME op \in Openings
                      PROVE  /\ \A here \in BOOLEAN :
                                    [op EXCEPT !.at = "opened", !.here = here] \in Openings
                             /\ \A to \in Conns :
                                    [op EXCEPT !.at = "sending", !.to = to] \in Openings
  BY DEF Openings

LEMMA NotAskingType == NotAsking \in Openings
  BY DEF NotAsking, Openings

LEMMA InitIInv == Init => IInv
  <1> SUFFICES ASSUME Init PROVE IInv
    OBVIOUS
  <1> USE ConnsAssumption DEF Init
  <1>1. row \in Rows
    BY DEF Rows
  <1>2. redis \in Clients /\ guest \in Guests /\ op \in Openings
    BY NotAskingType DEF Clients, Guests
  <1>3. TypeOK
    BY <1>1, <1>2 DEF TypeOK, Positions
  <1> QED
    BY <1>3 DEF IInv, SlotHeldByLiveHandler, OnePing, NoEarlyListener, AtMostOneStray

(* Every step keeps the types. *)
LEMMA NextTypes == TypeOK /\ [Next]_vars => TypeOK'
  <1> SUFFICES ASSUME TypeOK, [Next]_vars PROVE TypeOK'
    OBVIOUS
  <1> USE ConnsAssumption, RowTypes DEF hub, agent, TypeOK
  <1>2. ASSUME NEW c \in Conns,
               AgentConnects(c) \/ AgentLoses(c) \/ Beats(c) \/ Delivers(c) \/ ListenerEnds(c)
        PROVE  TypeOK'
    BY <1>2
    DEF AgentConnects, AgentLoses, Beats, Delivers, ListenerEnds, Reaches, Positions
  <1>3. ASSUME NEW c \in Conns, Attaches(c) \/ AcceptFails(c) PROVE TypeOK'
    BY <1>3 DEF Attaches, AcceptFails, Positions, Attached, Clients
  <1>4. ASSUME NEW c \in Conns, PingReturns(c) \/ PingFails(c) PROVE TypeOK'
    BY <1>4 DEF PingReturns, PingFails, Positions, Attached, Clients
  <1>5. ASSUME NEW c \in Conns, OpenCommits(c) \/ OpenFails(c) PROVE TypeOK'
    BY <1>5 DEF OpenCommits, OpenFails, Positions, Attached
  <1>6. ASSUME NEW c \in Conns, Leaves(c) \/ LeaveCommits(c) \/ LeaveFails(c) PROVE TypeOK'
    BY <1>6 DEF Leaves, LeaveCommits, LeaveFails, Detached, Positions
  <1>7. CASE SessionOver \/ GuestJoins \/ GuestPings \/ GuestLeaves
    BY <1>7 DEF SessionOver, GuestJoins, GuestPings, GuestLeaves, Guests
  <1>8. CASE GuestDecides
    BY <1>8 DEF GuestDecides, Guests
  <1>9. CASE GuestLeaveCommits \/ GuestLeaveFails
    BY <1>9 DEF GuestLeaveCommits, GuestLeaveFails, Guests
  <1>10. CASE OperatorOpens
    BY <1>10, OpeningTypes, NotAskingType DEF OperatorOpens, Clients
  <1>11. CASE OperatorAsks
    BY <1>11, OpeningTypes, NotAskingType DEF OperatorAsks, Publish
  <1>12. CASE SendReturns \/ SendRaises
    BY <1>12, OpeningTypes, NotAskingType DEF SendReturns, SendRaises, Reaches, Publish
  <1>13. CASE Ages
    BY <1>13 DEF Ages
  <1>14. CASE Restarts
    BY <1>14, OpeningTypes, NotAskingType DEF Restarts, Positions, Clients, Guests
  <1>15. CASE UNCHANGED vars
    BY <1>15 DEF vars
  <1> QED
    BY <1>2, <1>3, <1>4, <1>5, <1>6, <1>7, <1>8, <1>9, <1>10, <1>11, <1>12, <1>13, <1>14, <1>15
    DEF Next, Handles, GuestHandles

-----------------------------------------------------------------------------
(* Places and listeners. *)

LEMMA NextPlaces ==
    TypeOK /\ SlotHeldByLiveHandler /\ [Next]_vars => SlotHeldByLiveHandler'
  <1> SUFFICES ASSUME TypeOK, SlotHeldByLiveHandler, [Next]_vars
               PROVE  SlotHeldByLiveHandler'
    OBVIOUS
  <1> USE ConnsAssumption DEF hub, agent, SlotHeldByLiveHandler, Attached
  <1>1. pc \in [Conns -> Positions] /\ slot \in Conns \cup {None}
    BY DEF TypeOK
  <1>2. ASSUME NEW c \in Conns,
               \/ AgentConnects(c) \/ Attaches(c) \/ AcceptFails(c)
               \/ PingReturns(c) \/ PingFails(c) \/ OpenCommits(c) \/ OpenFails(c)
        PROVE  SlotHeldByLiveHandler'
    BY <1>1, <1>2
    DEF AgentConnects, Attaches, AcceptFails, PingReturns, PingFails, OpenCommits, OpenFails
  <1>3. ASSUME NEW c \in Conns, Leaves(c) \/ LeaveCommits(c) \/ LeaveFails(c)
        PROVE  SlotHeldByLiveHandler'
    BY <1>1, <1>3 DEF Leaves, LeaveCommits, LeaveFails, Detached
  <1>4. ASSUME NEW c \in Conns, AgentLoses(c) \/ Beats(c) \/ Delivers(c) \/ ListenerEnds(c)
        PROVE  SlotHeldByLiveHandler'
    BY <1>4 DEF AgentLoses, Beats, Delivers, ListenerEnds
  <1>5. CASE SendRaises \/ Restarts
    BY <1>5 DEF SendRaises, Restarts
  <1>6. CASE \/ SessionOver \/ GuestJoins \/ GuestPings \/ GuestLeaves \/ GuestHandles
             \/ OperatorOpens \/ OperatorAsks \/ SendReturns \/ Ages \/ UNCHANGED vars
    BY <1>6
    DEF SessionOver, GuestJoins, GuestPings, GuestLeaves, GuestHandles, GuestDecides,
        GuestLeaveCommits, GuestLeaveFails, OperatorOpens, OperatorAsks, SendReturns,
        Ages, vars
  <1> QED
    BY <1>2, <1>3, <1>4, <1>5, <1>6 DEF Next, Handles

LEMMA NextPing == TypeOK /\ OnePing /\ [Next]_vars => OnePing'
  <1> SUFFICES ASSUME TypeOK, OnePing, [Next]_vars PROVE OnePing'
    OBVIOUS
  <1> USE DEF hub, agent, OnePing
  <1>1. pc \in [Conns -> Positions]
    BY DEF TypeOK
  <1>2. ASSUME NEW c \in Conns,
               \/ AgentConnects(c) \/ Attaches(c) \/ AcceptFails(c)
               \/ PingReturns(c) \/ PingFails(c) \/ OpenCommits(c) \/ OpenFails(c)
        PROVE  OnePing'
    BY <1>1, <1>2
    DEF AgentConnects, Attaches, AcceptFails, PingReturns, PingFails, OpenCommits, OpenFails
  <1>3. ASSUME NEW c \in Conns, Leaves(c) \/ LeaveCommits(c) \/ LeaveFails(c)
        PROVE  OnePing'
    BY <1>1, <1>3 DEF Leaves, LeaveCommits, LeaveFails
  <1>4. ASSUME NEW c \in Conns, AgentLoses(c) \/ Beats(c) \/ Delivers(c) \/ ListenerEnds(c)
        PROVE  OnePing'
    BY <1>4 DEF AgentLoses, Beats, Delivers, ListenerEnds
  <1>5. CASE OperatorOpens
    BY <1>5 DEF OperatorOpens
  <1>6. CASE Restarts
    BY <1>1, <1>6 DEF Restarts
  <1>7. CASE \/ SessionOver \/ GuestJoins \/ GuestPings \/ GuestLeaves \/ GuestHandles
             \/ OperatorAsks \/ SendReturns \/ SendRaises \/ Ages \/ UNCHANGED vars
    BY <1>7
    DEF SessionOver, GuestJoins, GuestPings, GuestLeaves, GuestHandles, GuestDecides,
        GuestLeaveCommits, GuestLeaveFails, OperatorAsks, SendReturns, SendRaises,
        Ages, vars
  <1> QED
    BY <1>2, <1>3, <1>4, <1>5, <1>6, <1>7 DEF Next, Handles

Listeners == NoEarlyListener /\ AtMostOneStray

LEMMA NextListeners == TypeOK /\ OnePing /\ Listeners /\ [Next]_vars => Listeners'
  <1> SUFFICES ASSUME TypeOK, OnePing, Listeners, [Next]_vars PROVE Listeners'
    OBVIOUS
  <1> USE ConnsAssumption DEF hub, agent, Listeners, NoEarlyListener, AtMostOneStray
  <1>1. listening \subseteq Conns /\ task \in Conns \cup {None}
    BY DEF TypeOK
  <1>2. ASSUME NEW c \in Conns, Attaches(c) PROVE Listeners'
    BY <1>1, <1>2 DEF Attaches
  <1>3. ASSUME NEW c \in Conns, PingReturns(c) \/ PingFails(c) PROVE Listeners'
    BY <1>1, <1>3 DEF PingReturns, PingFails, OnePing
  <1>4. ASSUME NEW c \in Conns, Leaves(c) PROVE Listeners'
    BY <1>1, <1>4 DEF Leaves, Detached
  <1>5. ASSUME NEW c \in Conns, Delivers(c) \/ ListenerEnds(c) PROVE Listeners'
    BY <1>1, <1>5 DEF Delivers, ListenerEnds
  <1>6. CASE OperatorOpens \/ Restarts
    BY <1>6 DEF OperatorOpens, Restarts
  <1>7. ASSUME NEW c \in Conns,
               \/ AgentConnects(c) \/ AgentLoses(c) \/ Beats(c) \/ AcceptFails(c)
               \/ OpenCommits(c) \/ OpenFails(c) \/ LeaveCommits(c) \/ LeaveFails(c)
        PROVE  Listeners'
    BY <1>7
    DEF AgentConnects, AgentLoses, Beats, AcceptFails, OpenCommits, OpenFails,
        LeaveCommits, LeaveFails
  <1>8. CASE \/ SessionOver \/ GuestJoins \/ GuestPings \/ GuestLeaves \/ GuestHandles
             \/ OperatorAsks \/ SendReturns \/ SendRaises \/ Ages \/ UNCHANGED vars
    BY <1>8
    DEF SessionOver, GuestJoins, GuestPings, GuestLeaves, GuestHandles, GuestDecides,
        GuestLeaveCommits, GuestLeaveFails, OperatorAsks, SendReturns, SendRaises,
        Ages, vars
  <1> QED
    BY <1>2, <1>3, <1>4, <1>5, <1>6, <1>7, <1>8 DEF Next, Handles

-----------------------------------------------------------------------------
(* The cleanup of a socket that was replaced (ws.py:334).                   *)
Spares(c) ==
    pc[c] = "loop" /\ pc'[c] \in {"leaving", "done"} /\ slot \notin {c, None}
        => \/ slot' = slot /\ task' = task /\ listening' = listening /\ pc'[c] = "done"
           \/ redis' = "none"

LEMMA NextSpares == TypeOK /\ [Next]_vars => \A c \in Conns : Spares(c)
  <1> SUFFICES ASSUME TypeOK, [Next]_vars, NEW c \in Conns,
                      pc[c] = "loop", pc'[c] \in {"leaving", "done"}, slot \notin {c, None}
               PROVE  \/ slot' = slot /\ task' = task /\ listening' = listening /\ pc'[c] = "done"
                      \/ redis' = "none"
    BY DEF Spares
  <1> USE DEF hub, agent
  <1>1. pc \in [Conns -> Positions] /\ slot \in Conns \cup {None}
    BY DEF TypeOK
  <1>2. ASSUME NEW d \in Conns,
               \/ AgentConnects(d) \/ Attaches(d) \/ AcceptFails(d)
               \/ PingReturns(d) \/ PingFails(d) \/ OpenCommits(d) \/ OpenFails(d)
               \/ LeaveCommits(d) \/ LeaveFails(d)
        PROVE  FALSE
    BY <1>1, <1>2
    DEF AgentConnects, Attaches, AcceptFails, PingReturns, PingFails, OpenCommits, OpenFails,
        LeaveCommits, LeaveFails
  <1>3. ASSUME NEW d \in Conns, AgentLoses(d) \/ Beats(d) \/ Delivers(d) \/ ListenerEnds(d)
        PROVE  FALSE
    BY <1>3 DEF AgentLoses, Beats, Delivers, ListenerEnds
  <1>4. ASSUME NEW d \in Conns, Leaves(d)
        PROVE  slot' = slot /\ task' = task /\ listening' = listening /\ pc'[c] = "done"
    BY <1>1, <1>4 DEF Leaves, Detached
  <1>5. CASE Restarts
    BY <1>5 DEF Restarts
  <1>6. CASE \/ SessionOver \/ GuestJoins \/ GuestPings \/ GuestLeaves \/ GuestHandles
             \/ OperatorOpens \/ OperatorAsks \/ SendReturns \/ SendRaises
             \/ Ages \/ UNCHANGED vars
    BY <1>6
    DEF SessionOver, GuestJoins, GuestPings, GuestLeaves, GuestHandles, GuestDecides,
        GuestLeaveCommits, GuestLeaveFails, OperatorOpens, OperatorAsks, SendReturns,
        SendRaises, Ages, vars
  <1> QED
    BY <1>2, <1>3, <1>4, <1>5, <1>6 DEF Next, Handles

-----------------------------------------------------------------------------
(* The theorems. *)

THEOREM Inductive == Spec => []IInv
  <1>1. IInv /\ [Next]_vars => IInv'
    BY NextTypes, NextPlaces, NextPing, NextListeners DEF IInv, Listeners
  <1> QED
    BY InitIInv, <1>1, PTL DEF Spec

(* ws.py:290-352 and hub.py:151-173: in every reachable state of any number *)
(* of sockets each variable has its type.                                   *)
THEOREM TypeCorrect == Spec => []TypeOK
  BY Inductive, PTL DEF IInv

(* hub.py:167: the table never names a handler that has cleaned up.         *)
THEOREM SlotHeld == Spec => []SlotHeldByLiveHandler
  BY Inductive, PTL DEF IInv

(* hub.py:160-165: however often the device's socket is replaced, at most   *)
(* one listener runs that nothing can cancel.                               *)
THEOREM OneStray == Spec => []AtMostOneStray
  BY Inductive, PTL DEF IInv

(* ws.py:334: the cleanup of a replaced socket takes nothing from its       *)
(* successor.                                                               *)
THEOREM SuccessorSpared == Spec => CleanupSparesSuccessor
  <1>1. IInv /\ [Next]_vars => [\A c \in Conns : Spares(c)]_vars
    BY NextSpares DEF IInv
  <1>2. Spec => [][\A c \in Conns : Spares(c)]_vars
    BY Inductive, <1>1, PTL DEF Spec
  <1> QED
    BY <1>2 DEF CleanupSparesSuccessor, Spares
=============================================================================
