---------------------------- MODULE SessionRelay ----------------------------
(***************************************************************************)
(* One session code on one relay process: the hub's channel objects, the   *)
(* guest and operator WebSocket handlers, the REST calls that change the   *)
(* session row, and the row itself.                                        *)
(*                                                                         *)
(* The relay is one asyncio process, so code between two awaits is atomic  *)
(* and every await lets any other handler run.  An action below is the     *)
(* code between two awaits.  A database transaction is two actions: the    *)
(* SELECT, whose values the handler keeps, and the flush and commit, which *)
(* write only the columns whose value the handler changed (Written).       *)
(*                                                                         *)
(* Connections and calls have single-use identifiers: a reconnect is a new *)
(* member of Guests or Operators.                                          *)
(***************************************************************************)
EXTENDS FiniteSets

CONSTANTS
    Guests,      \* connections to /ws/guest/{code}
    Operators,   \* connections to /ws/operator/{code}
    Calls,       \* REST calls that name the session
    Requests,    \* what those calls ask for
    Modes,       \* how the session may have been created
    Faults,      \* what may go wrong: "store", "restart", "expiry"
    Chans,       \* SessionChannel objects; a bound on how many live at once
    None         \* no object, no socket

RequestKinds == {"rename", "active", "ended", "delete", "enrol"}

Conns == Guests \cup Operators
Actors == Conns \cup Calls

ASSUME ActorsAssumption ==
    /\ Guests \cap Operators = {}
    /\ Conns \cap Calls = {}
    /\ None \notin Actors \cup Chans
    /\ Requests \subseteq RequestKinds
    /\ Modes \subseteq {"attended", "unattended"}

VARIABLES
    row,        \* the sessions row, the columns the rules read
    past,       \* whether the clock has passed the row's expires_at
    current,    \* hub._channels[code], or None
    guest,      \* SessionChannel.guest of every channel object
    operator,   \* SessionChannel.operator of every channel object
    pc,         \* where each handler is suspended
    chan,       \* the channel object a handler keeps in a local
    rd,         \* the row as a handler last read it
    snd,        \* the send or the hang-up a handler is suspended in
    req,        \* what each REST call asks for
    consented,  \* the guest handler's local of that name
    gone,       \* sockets that are dead: closed by the relay or lost
    audit,      \* connections with a consent entry of each kind in the trail,
                \* and which of the granted ones are from since the last start
    streamed    \* guests of which a frame or a reply was forwarded

vars == <<row, past, current, guest, operator, pc, chan, rd, snd, req,
          consented, gone, audit, streamed>>

-----------------------------------------------------------------------------
(* The row and its rules.                                                  *)

Row == [state: {"pending", "active", "ended"},
        consent: {"pending", "granted", "denied"},
        mode: {"attended", "unattended"},
        connected: BOOLEAN,
        expires: BOOLEAN]

\* A row as create_session leaves it, and the value of an unread snapshot.
NewRow(mode) == [state |-> "pending", consent |-> "pending", mode |-> mode,
                 connected |-> FALSE, expires |-> TRUE]
Unread == NewRow("attended")

IsExpired(r) == /\ r.expires
                /\ ~r.connected
                /\ r.consent # "granted"
                /\ past

IsJoinable(r) == r.state # "ended" /\ ~IsExpired(r)

\* A flush writes a column only when the handler changed what it had read.
Written(read, new, stored) == IF new # read THEN new ELSE stored

GuestOnline == current # None /\ guest[current] # None

\* What the console's session list reports as "guest connected".
Present == /\ row.consent = "granted"
           /\ row.state # "ended"
           /\ ~IsExpired(row)
           /\ GuestOnline \/ row.connected

-----------------------------------------------------------------------------
(* The hub.                                                                *)

NoSend == [ch |-> None, to |-> None, next |-> "done"]

\* A channel object nobody refers to: what SessionChannel() may return.
Fresh(c) == /\ current = None
            /\ guest[c] = None /\ operator[c] = None
            /\ \A a \in Actors : chan[a] # c /\ snd[a].ch # c

\* hub.channel(code) returns c, creating it when there is none.  Which of the
\* objects nobody refers to a new channel is makes no difference.
ChannelIs(c) ==
    \/ current = c
    \/ Fresh(c) /\ c = CHOOSE d \in Chans : Fresh(d)

\* Mutant: the slot is cleared whoever holds it.
DetachedAnyone(slot, x) ==
    IF current # None THEN [slot EXCEPT ![current] = None] ELSE slot

\* Mutant: the slot is left as it is.
DetachedNobody(slot, x) == slot

\* Clearing a slot of the channel now registered, if x holds it.
Detached(slot, x) ==
    IF current # None /\ slot[current] = x
    THEN [slot EXCEPT ![current] = None] ELSE slot

\* hub.drop: the channel goes when both of its slots are empty.
Dropped(g, o) ==
    IF current # None /\ g[current] = None /\ o[current] = None
    THEN None ELSE current

\* The start of to_operator_json, to_operator_bytes or to_guest_json: h waits
\* for the send if the slot of channel ch is held, and otherwise goes on.
Sends(h, ch, slot, next) ==
    IF ch # None /\ slot[ch] # None
    THEN /\ pc' = [pc EXCEPT ![h] = "sending"]
         /\ snd' = [snd EXCEPT ![h] = [ch |-> ch, to |-> slot[ch], next |-> next]]
    ELSE /\ pc' = [pc EXCEPT ![h] = next]
         /\ snd' = snd

\* Its end: the slot is left alone, or emptied when the send failed.
SendReturns(h) ==
    /\ pc[h] = "sending"
    /\ pc' = [pc EXCEPT ![h] = snd[h].next]
    /\ snd' = [snd EXCEPT ![h] = NoSend]
    /\ UNCHANGED <<row, past, current, guest, operator, chan, rd, req,
                   consented, gone, audit, streamed>>

SendRaises(h) ==
    /\ pc[h] = "sending"
    /\ snd[h].to \in gone
    /\ IF h \in Guests
       THEN /\ operator' = [operator EXCEPT ![snd[h].ch] = None]
            /\ guest' = guest
       ELSE /\ guest' = [guest EXCEPT ![snd[h].ch] = None]
            /\ operator' = operator
    /\ pc' = [pc EXCEPT ![h] = snd[h].next]
    /\ snd' = [snd EXCEPT ![h] = NoSend]
    /\ UNCHANGED <<row, past, current, chan, rd, req, consented, gone, audit,
                   streamed>>

-----------------------------------------------------------------------------
(* The guest handler, guest_socket.                                        *)

\* The row is read; a code that does not join, or device credentials that a
\* standing session refuses, end the handler before the socket is accepted.
GuestLooksUp(g) ==
    /\ pc[g] = "new"
    /\ \/ /\ IsJoinable(row)
          /\ pc' = [pc EXCEPT ![g] = "accepting"]
       \/ /\ ~IsJoinable(row) \/ row.mode = "unattended"
          /\ pc' = [pc EXCEPT ![g] = "done"]
    /\ UNCHANGED <<row, past, current, guest, operator, chan, rd, snd, req,
                   consented, gone, audit, streamed>>

GuestAcceptFails(g) ==
    /\ pc[g] = "accepting"
    /\ g \in gone
    /\ pc' = [pc EXCEPT ![g] = "done"]
    /\ UNCHANGED <<row, past, current, guest, operator, chan, rd, snd, req,
                   consented, gone, audit, streamed>>

\* Mutant: the socket is registered in the wrong slot.
GuestAttachesAsOperator(g) ==
    /\ pc[g] = "accepting"
    /\ \E c \in Chans :
          /\ ChannelIs(c)
          /\ guest[c] = None
          /\ chan' = [chan EXCEPT ![g] = c]
          /\ current' = c
          /\ operator' = [operator EXCEPT ![c] = g]
    /\ pc' = [pc EXCEPT ![g] = "hello"]
    /\ UNCHANGED <<row, past, guest, rd, snd, req, consented, gone, audit,
                   streamed>>

\* Accepted: the handler keeps the channel object, and takes a free slot in
\* the same step or first closes the connection that holds it.
GuestAttaches(g) ==
    /\ pc[g] = "accepting"
    /\ \E c \in Chans :
          /\ ChannelIs(c)
          /\ guest[c] = None
          /\ chan' = [chan EXCEPT ![g] = c]
          /\ current' = c
          /\ guest' = [guest EXCEPT ![c] = g]
    /\ pc' = [pc EXCEPT ![g] = "hello"]
    /\ UNCHANGED <<row, past, operator, rd, snd, req, consented, gone, audit,
                   streamed>>

GuestClosesStale(g) ==
    /\ pc[g] = "accepting"
    /\ GuestOnline
    /\ chan' = [chan EXCEPT ![g] = current]
    /\ gone' = gone \cup {guest[current]}
    /\ pc' = [pc EXCEPT ![g] = "replacing"]
    /\ UNCHANGED <<row, past, current, guest, operator, rd, snd, req,
                   consented, audit, streamed>>

\* attach_guest looks the channel up again after the stale socket's close.
GuestReplaces(g) ==
    /\ pc[g] = "replacing"
    /\ \E c \in Chans :
          /\ ChannelIs(c)
          /\ current' = c
          /\ guest' = [guest EXCEPT ![c] = g]
    /\ pc' = [pc EXCEPT ![g] = "hello"]
    /\ UNCHANGED <<row, past, operator, chan, rd, snd, req, consented, gone,
                   audit, streamed>>

GuestSaysHello(g) ==
    /\ pc[g] = "hello"
    /\ pc' = [pc EXCEPT ![g] = "greeting"]
    /\ rd' = [rd EXCEPT ![g] = row]
    /\ UNCHANGED <<row, past, current, guest, operator, chan, snd, req,
                   consented, gone, audit, streamed>>

GuestHelloCommits(g) ==
    /\ pc[g] = "greeting"
    /\ row' = [row EXCEPT !.consent = Written(rd[g].consent, "pending", @)]
    /\ rd' = [rd EXCEPT ![g] = Unread]
    /\ Sends(g, current, operator, "loop")
    /\ UNCHANGED <<past, current, guest, operator, chan, req, consented, gone,
                   audit, streamed>>

\* The consent message: the local changes at once, the row after its read.
\* An agent decides once per connection (session.py:254).
GuestDecides(g) ==
    /\ pc[g] = "loop"
    /\ ~consented[g]
    /\ \E granted \in BOOLEAN :
          consented' = [consented EXCEPT ![g] = granted]
    /\ pc' = [pc EXCEPT ![g] = "consenting"]
    /\ rd' = [rd EXCEPT ![g] = row]
    /\ UNCHANGED <<row, past, current, guest, operator, chan, snd, req, gone,
                   audit, streamed>>

GuestGrantCommits(g) ==
    /\ pc[g] = "consenting"
    /\ consented[g]
    /\ row' = [row EXCEPT
          !.consent = Written(rd[g].consent, "granted", @),
          !.connected = Written(rd[g].connected, TRUE, @),
          !.state = IF rd[g].state = "pending" THEN "active" ELSE @]
    /\ audit' = [audit EXCEPT !.granted = @ \cup {g}, !.since = @ \cup {g}]
    /\ rd' = [rd EXCEPT ![g] = Unread]
    /\ Sends(g, current, operator, "loop")
    /\ UNCHANGED <<past, current, guest, operator, chan, req, consented, gone,
                   streamed>>

GuestDenialCommits(g) ==
    /\ pc[g] = "consenting"
    /\ ~consented[g]
    /\ row' = [row EXCEPT
          !.consent = Written(rd[g].consent, "denied", @),
          !.connected = Written(rd[g].connected, FALSE, @)]
    /\ audit' = [audit EXCEPT !.denied = @ \cup {g}]
    /\ rd' = [rd EXCEPT ![g] = Unread]
    /\ Sends(g, current, operator, "denying")
    /\ UNCHANGED <<past, current, guest, operator, chan, req, consented, gone,
                   streamed>>

\* A refused guest is hung up on and its loop ends.
GuestHangsUp(g) ==
    /\ pc[g] = "denying"
    /\ gone' = gone \cup {g}
    /\ pc' = [pc EXCEPT ![g] = "cleanup"]
    /\ UNCHANGED <<row, past, current, guest, operator, chan, rd, snd, req,
                   consented, audit, streamed>>

\* Mutant: everything is forwarded.
GuestForwardsUnasked(g) ==
    /\ pc[g] = "loop"
    /\ streamed' = streamed \cup {g}
    /\ Sends(g, current, operator, "loop")
    /\ UNCHANGED <<row, past, current, guest, operator, chan, rd, req,
                   consented, gone, audit>>

\* Frames and replies pass only once this connection consented.
GuestForwards(g) ==
    /\ pc[g] = "loop"
    /\ consented[g]
    /\ streamed' = streamed \cup {g}
    /\ Sends(g, current, operator, "loop")
    /\ UNCHANGED <<row, past, current, guest, operator, chan, rd, req,
                   consented, gone, audit>>

\* Mutant: a socket that dies before its hello is not noticed.
GuestDisconnectsInLoop(g) ==
    /\ pc[g] = "loop"
    /\ g \in gone
    /\ pc' = [pc EXCEPT ![g] = "cleanup"]
    /\ UNCHANGED <<row, past, current, guest, operator, chan, rd, snd, req,
                   consented, gone, audit, streamed>>

\* The read loop notices that the socket is dead.
GuestDisconnects(g) ==
    /\ pc[g] \in {"hello", "loop"}
    /\ g \in gone
    /\ pc' = [pc EXCEPT ![g] = "cleanup"]
    /\ UNCHANGED <<row, past, current, guest, operator, chan, rd, snd, req,
                   consented, gone, audit, streamed>>

\* Mutant: a failed transaction is swallowed and the loop goes on.
GuestStoreFailsSilently(g) ==
    /\ "store" \in Faults
    /\ pc[g] \in {"greeting", "consenting"}
    /\ pc' = [pc EXCEPT ![g] = "loop"]
    /\ rd' = [rd EXCEPT ![g] = Unread]
    /\ UNCHANGED <<row, past, current, guest, operator, chan, snd, req,
                   consented, gone, audit, streamed>>

\* The database refuses a transaction: the handler's `except Exception`, or,
\* for the one in the `finally` block, the end of the handler.
GuestStoreFails(g) ==
    /\ "store" \in Faults
    /\ pc[g] \in {"greeting", "consenting", "left"}
    /\ pc' = [pc EXCEPT ![g] = IF pc[g] = "left" THEN "done" ELSE "cleanup"]
    /\ rd' = [rd EXCEPT ![g] = Unread]
    /\ UNCHANGED <<row, past, current, guest, operator, chan, snd, req,
                   consented, gone, audit, streamed>>

\* The `finally` block up to its first await.  Whether this connection is
\* still the channel's guest is asked of the object the handler captured.
GuestCleansUp(g) ==
    /\ pc[g] = "cleanup"
    /\ guest' = Detached(guest, g)
    /\ current' = Dropped(Detached(guest, g), operator)
    /\ pc' = [pc EXCEPT
          ![g] = IF guest[chan[g]] = g THEN "leaving" ELSE "done"]
    /\ chan' = [chan EXCEPT ![g] = None]
    /\ consented' = [consented EXCEPT ![g] = FALSE]
    /\ UNCHANGED <<row, past, operator, rd, snd, req, gone, audit, streamed>>

GuestReadsLeaving(g) ==
    /\ pc[g] = "leaving"
    /\ rd' = [rd EXCEPT ![g] = row]
    /\ pc' = [pc EXCEPT ![g] = "left"]
    /\ UNCHANGED <<row, past, current, guest, operator, chan, snd, req,
                   consented, gone, audit, streamed>>

GuestLeaveCommits(g) ==
    /\ pc[g] = "left"
    /\ row' = [row EXCEPT !.connected = Written(rd[g].connected, FALSE, @)]
    /\ rd' = [rd EXCEPT ![g] = Unread]
    /\ Sends(g, current, operator, "done")
    /\ UNCHANGED <<past, current, guest, operator, chan, req, consented, gone,
                   audit, streamed>>

-----------------------------------------------------------------------------
(* The operator handler, operator_socket.                                  *)

OperatorOpens(o) ==
    /\ pc[o] = "new"
    /\ IF row.state = "ended"
       THEN /\ pc' = [pc EXCEPT ![o] = "done"]
            /\ rd' = rd
       ELSE /\ pc' = [pc EXCEPT ![o] = "accepting"]
            /\ rd' = [rd EXCEPT ![o].mode = row.mode]
    /\ UNCHANGED <<row, past, current, guest, operator, chan, snd, req,
                   consented, gone, audit, streamed>>

OperatorAcceptFails(o) ==
    /\ pc[o] = "accepting"
    /\ o \in gone
    /\ pc' = [pc EXCEPT ![o] = "done"]
    /\ UNCHANGED <<row, past, current, guest, operator, chan, rd, snd, req,
                   consented, gone, audit, streamed>>

\* The slot is overwritten: an operator already there is not closed.
OperatorAttaches(o) ==
    /\ pc[o] = "accepting"
    /\ \E c \in Chans :
          /\ ChannelIs(c)
          /\ chan' = [chan EXCEPT ![o] = c]
          /\ current' = c
          /\ operator' = [operator EXCEPT ![c] = o]
    /\ pc' = [pc EXCEPT ![o] = "attached"]
    /\ UNCHANGED <<row, past, guest, rd, snd, req, consented, gone, audit,
                   streamed>>

\* The "attached" message is sent, then the guest is asked for a keyframe.
OperatorGreets(o) ==
    /\ pc[o] = "attached"
    /\ Sends(o, current, guest, "loop")
    /\ UNCHANGED <<row, past, current, guest, operator, chan, rd, req,
                   consented, gone, audit, streamed>>

\* Sending "attached" to a dead socket raises before the `try` is entered.
OperatorGreetFails(o) ==
    /\ pc[o] = "attached"
    /\ o \in gone
    /\ pc' = [pc EXCEPT ![o] = "done"]
    /\ chan' = [chan EXCEPT ![o] = None]
    /\ UNCHANGED <<row, past, current, guest, operator, rd, snd, req,
                   consented, gone, audit, streamed>>

\* Input, tools, "end" from someone who may: all go to the guest as they are.
OperatorForwards(o) ==
    /\ pc[o] = "loop"
    /\ Sends(o, current, guest, "loop")
    /\ UNCHANGED <<row, past, current, guest, operator, chan, rd, req,
                   consented, gone, audit, streamed>>

OperatorDisconnects(o) ==
    /\ pc[o] = "loop"
    /\ o \in gone
    /\ pc' = [pc EXCEPT ![o] = "cleanup"]
    /\ UNCHANGED <<row, past, current, guest, operator, chan, rd, snd, req,
                   consented, gone, audit, streamed>>

\* The `finally` block: detach, drop, and tell a standing device to stop.
OperatorCleansUp(o) ==
    LET kept == Dropped(guest, Detached(operator, o))
        last == operator[chan[o]] = o
    IN  /\ pc[o] = "cleanup"
        /\ operator' = Detached(operator, o)
        /\ current' = kept
        /\ IF last /\ rd[o].mode = "unattended"
           THEN Sends(o, kept, guest, "done")
           ELSE /\ pc' = [pc EXCEPT ![o] = "done"]
                /\ snd' = snd
        /\ chan' = [chan EXCEPT ![o] = None]
        /\ rd' = [rd EXCEPT ![o] = Unread]
        /\ UNCHANGED <<row, past, guest, req, consented, gone, audit, streamed>>

-----------------------------------------------------------------------------
(* The REST calls: update_session (rename, active, ended), delete_session   *)
(* and enrol_by_code.                                                      *)

\* A call whose request the row as read refuses (409) changes nothing.
Accepts(r, what) ==
    CASE what \in {"rename", "delete"} -> TRUE
      [] what = "enrol" -> /\ r.state # "ended"
                           /\ r.mode = "attended"
                           /\ r.consent = "granted"
                           /\ r.connected \/ GuestOnline
      [] OTHER          -> r.state = what \/ r.state # "ended"

CallReads(e) ==
    /\ pc[e] = "new"
    /\ \E what \in Requests :
          IF Accepts(row, what)
          THEN /\ req' = [req EXCEPT ![e] = what]
               /\ rd' = [rd EXCEPT ![e] = row]
               /\ pc' = [pc EXCEPT ![e] = "writing"]
          ELSE /\ pc' = [pc EXCEPT ![e] = "done"]
               /\ UNCHANGED <<req, rd>>
    /\ UNCHANGED <<row, past, current, guest, operator, chan, snd, consented,
                   gone, audit, streamed>>

\* The row after the call's commit, from what it had read.
Updated(e) ==
    CASE req[e] = "active" ->
            [row EXCEPT !.state = Written(rd[e].state, "active", @)]
      [] req[e] \in {"ended", "delete"} /\ rd[e].state # "ended" ->
            [row EXCEPT !.state = "ended",
                        !.connected = Written(rd[e].connected, FALSE, @)]
      [] req[e] = "enrol" ->
            [row EXCEPT !.mode = "unattended",
                        !.expires = Written(rd[e].expires, FALSE, @)]
      [] OTHER -> row

CallCommits(e) ==
    /\ pc[e] = "writing"
    /\ row' = Updated(e)
    /\ pc' = [pc EXCEPT ![e] = CASE req[e] = "delete" -> "closing"
                                 [] req[e] = "enrol"  -> "done"
                                 [] OTHER             -> "refreshing"]
    /\ rd' = [rd EXCEPT ![e] = Unread]
    /\ UNCHANGED <<past, current, guest, operator, chan, snd, req, consented,
                   gone, audit, streamed>>

\* update_session decides to hang up from the row as it is after the commit.
CallRefreshes(e) ==
    /\ pc[e] = "refreshing"
    /\ pc' = [pc EXCEPT
          ![e] = IF row.state = "ended" THEN "closing" ELSE "done"]
    /\ UNCHANGED <<row, past, current, guest, operator, chan, rd, snd, req,
                   consented, gone, audit, streamed>>

\* The commit, or the refresh after it, raises: the call answers 500, and what
\* comes after is not done.
CallStoreFails(e) ==
    /\ "store" \in Faults
    /\ pc[e] \in {"writing", "refreshing"}
    /\ pc' = [pc EXCEPT ![e] = "done"]
    /\ rd' = [rd EXCEPT ![e] = Unread]
    /\ UNCHANGED <<row, past, current, guest, operator, chan, snd, req,
                   consented, gone, audit, streamed>>

\* close_session captures the channel and both of its sockets, closes the
\* guest's, then the operator's, and empties and unregisters the channel.
CloseFindsNothing(e) ==
    /\ pc[e] = "closing"
    /\ current # None => guest[current] = None /\ operator[current] = None
    /\ current' = None
    /\ pc' = [pc EXCEPT ![e] = "done"]
    /\ UNCHANGED <<row, past, guest, operator, chan, rd, snd, req, consented,
                   gone, audit, streamed>>

CloseHangsUpGuest(e) ==
    /\ pc[e] = "closing"
    /\ GuestOnline
    /\ gone' = gone \cup {guest[current]}
    /\ snd' = [snd EXCEPT ![e] = [ch |-> current, to |-> operator[current],
                                  next |-> "popping"]]
    /\ pc' = [pc EXCEPT
          ![e] = IF operator[current] = None THEN "popping" ELSE "hanging"]
    /\ UNCHANGED <<row, past, current, guest, operator, chan, rd, req,
                   consented, audit, streamed>>

\* Mutant: an operator that is already gone is waited for.
CloseWaitsForOperator(e) ==
    /\ \/ pc[e] = "hanging" /\ snd[e].to \notin gone /\ snd' = snd
       \/ /\ pc[e] = "closing"
          /\ current # None
          /\ guest[current] = None
          /\ operator[current] # None
          /\ operator[current] \notin gone
          /\ snd' = [snd EXCEPT ![e] = [ch |-> current,
                                        to |-> operator[current],
                                        next |-> "popping"]]
    /\ gone' = gone \cup {snd'[e].to}
    /\ pc' = [pc EXCEPT ![e] = "popping"]
    /\ UNCHANGED <<row, past, current, guest, operator, chan, rd, req,
                   consented, audit, streamed>>

CloseHangsUpOperator(e) ==
    /\ \/ pc[e] = "hanging" /\ snd' = snd
       \/ /\ pc[e] = "closing"
          /\ current # None
          /\ guest[current] = None
          /\ operator[current] # None
          /\ snd' = [snd EXCEPT ![e] = [ch |-> current,
                                        to |-> operator[current],
                                        next |-> "popping"]]
    /\ gone' = gone \cup {snd'[e].to}
    /\ pc' = [pc EXCEPT ![e] = "popping"]
    /\ UNCHANGED <<row, past, current, guest, operator, chan, rd, req,
                   consented, audit, streamed>>

ClosePops(e) ==
    /\ pc[e] = "popping"
    /\ guest' = [guest EXCEPT ![snd[e].ch] = None]
    /\ operator' = [operator EXCEPT ![snd[e].ch] = None]
    /\ current' = None
    /\ snd' = [snd EXCEPT ![e] = NoSend]
    /\ pc' = [pc EXCEPT ![e] = "done"]
    /\ UNCHANGED <<row, past, chan, rd, req, consented, gone, audit, streamed>>

-----------------------------------------------------------------------------
(* The environment.                                                        *)

\* A peer's process or network dies, or it closes its socket.
PeerGoes(h) ==
    /\ h \notin gone
    /\ pc[h] \notin {"new", "done"}
    /\ gone' = gone \cup {h}
    /\ UNCHANGED <<row, past, current, guest, operator, pc, chan, rd, snd, req,
                   consented, audit, streamed>>

CodeExpires ==
    /\ "expiry" \in Faults
    /\ ~past
    /\ past' = TRUE
    /\ UNCHANGED <<row, current, guest, operator, pc, chan, rd, snd, req,
                   consented, gone, audit, streamed>>

\* The process dies and starts again: handlers and hub are gone, and startup
\* clears the presence the dead process left in the row.
StartsOver ==
    /\ current' = None
    /\ guest' = [c \in Chans |-> None]
    /\ operator' = [c \in Chans |-> None]
    /\ pc' = [a \in Actors |-> IF pc[a] = "new" THEN "new" ELSE "done"]
    /\ chan' = [a \in Actors |-> None]
    /\ rd' = [a \in Actors |-> Unread]
    /\ snd' = [a \in Actors |-> NoSend]
    /\ consented' = [g \in Guests |-> FALSE]
    /\ gone' = {h \in Conns : pc[h] # "new"}
    /\ audit' = [audit EXCEPT !.since = {}]
    /\ UNCHANGED <<past, req, streamed>>

\* Mutant: startup leaves the rows as they are.
RestartsAsItWas ==
    /\ "restart" \in Faults
    /\ StartsOver
    /\ UNCHANGED row

Restarts ==
    /\ "restart" \in Faults
    /\ StartsOver
    /\ row' = [row EXCEPT !.connected = FALSE]

-----------------------------------------------------------------------------
Init ==
    /\ row \in {NewRow(m) : m \in Modes}
    /\ past = FALSE
    /\ current = None
    /\ guest = [c \in Chans |-> None]
    /\ operator = [c \in Chans |-> None]
    /\ pc = [a \in Actors |-> "new"]
    /\ chan = [a \in Actors |-> None]
    /\ rd = [a \in Actors |-> Unread]
    /\ snd = [a \in Actors |-> NoSend]
    /\ req = [e \in Calls |-> "rename"]
    /\ consented = [g \in Guests |-> FALSE]
    /\ gone = {}
    /\ audit = [granted |-> {}, denied |-> {}, since |-> {}]
    /\ streamed = {}

GuestStep(g) ==
    \/ GuestLooksUp(g) \/ GuestAcceptFails(g) \/ GuestAttaches(g)
    \/ GuestClosesStale(g) \/ GuestReplaces(g) \/ GuestSaysHello(g)
    \/ GuestHelloCommits(g) \/ GuestDecides(g) \/ GuestGrantCommits(g)
    \/ GuestDenialCommits(g) \/ GuestHangsUp(g) \/ GuestForwards(g)
    \/ GuestDisconnects(g) \/ GuestStoreFails(g) \/ GuestCleansUp(g)
    \/ GuestReadsLeaving(g) \/ GuestLeaveCommits(g)

OperatorStep(o) ==
    \/ OperatorOpens(o) \/ OperatorAcceptFails(o) \/ OperatorAttaches(o)
    \/ OperatorGreets(o) \/ OperatorGreetFails(o) \/ OperatorForwards(o)
    \/ OperatorDisconnects(o) \/ OperatorCleansUp(o)

CallStep(e) ==
    \/ CallReads(e) \/ CallCommits(e) \/ CallRefreshes(e)
    \/ CallStoreFails(e) \/ CloseFindsNothing(e) \/ CloseHangsUpGuest(e)
    \/ CloseHangsUpOperator(e) \/ ClosePops(e)

Next ==
    \/ \E g \in Guests : GuestStep(g)
    \/ \E o \in Operators : OperatorStep(o)
    \/ \E e \in Calls : CallStep(e)
    \/ \E h \in Conns : SendReturns(h) \/ SendRaises(h) \/ PeerGoes(h)
    \/ CodeExpires
    \/ Restarts

Spec == Init /\ [][Next]_vars

\* The scheduling the code gets from asyncio and its libraries: a handler that
\* is not waiting for its peer to speak goes on, and a read loop drains the
\* finitely many messages a dead socket left behind and then sees the end.
GuestProgress(g) ==
    \/ GuestAcceptFails(g) \/ GuestAttaches(g) \/ GuestClosesStale(g)
    \/ GuestReplaces(g) \/ GuestHelloCommits(g) \/ GuestGrantCommits(g)
    \/ GuestDenialCommits(g) \/ GuestHangsUp(g) \/ GuestCleansUp(g)
    \/ GuestReadsLeaving(g) \/ GuestLeaveCommits(g)
    \/ SendReturns(g) \/ SendRaises(g)

OperatorProgress(o) ==
    \/ OperatorAcceptFails(o) \/ OperatorAttaches(o) \/ OperatorGreets(o)
    \/ OperatorCleansUp(o) \/ SendReturns(o) \/ SendRaises(o)

CallProgress(e) ==
    \/ CallCommits(e) \/ CallRefreshes(e) \/ CloseFindsNothing(e)
    \/ CloseHangsUpGuest(e) \/ CloseHangsUpOperator(e) \/ ClosePops(e)

Fairness ==
    /\ \A g \in Guests : /\ WF_vars(GuestProgress(g))
                         /\ SF_vars(GuestDisconnects(g))
    /\ \A o \in Operators : /\ WF_vars(OperatorProgress(o))
                            /\ SF_vars(OperatorDisconnects(o))
    /\ \A e \in Calls : WF_vars(CallProgress(e))

FairSpec == Spec /\ Fairness

-----------------------------------------------------------------------------
(* Properties.                                                             *)

PCs == {"new", "accepting", "replacing", "hello", "greeting", "loop",
        "consenting", "denying", "sending", "cleanup", "leaving", "left",
        "attached", "writing", "refreshing", "closing", "hanging", "popping",
        "done"}

\* Every variable holds a value of its type.
TypeOK ==
    /\ row \in Row
    /\ past \in BOOLEAN
    /\ current \in Chans \cup {None}
    /\ guest \in [Chans -> Guests \cup {None}]
    /\ operator \in [Chans -> Operators \cup {None}]
    /\ pc \in [Actors -> PCs]
    /\ chan \in [Actors -> Chans \cup {None}]
    /\ rd \in [Actors -> Row]
    /\ snd \in [Actors -> [ch: Chans \cup {None}, to: Conns \cup {None},
                           next: PCs]]
    /\ req \in [Calls -> RequestKinds]
    /\ consented \in [Guests -> BOOLEAN]
    /\ gone \subseteq Conns
    /\ audit \in [granted: SUBSET Guests, denied: SUBSET Guests,
                   since: SUBSET Guests]
    /\ streamed \subseteq Guests

\* The handlers between attach_guest and the detach_guest of the `finally`
\* block.
GuestInside(g) ==
    \/ pc[g] \in {"hello", "greeting", "loop", "consenting", "denying",
                  "cleanup"}
    \/ pc[g] = "sending" /\ snd[g].next \in {"loop", "denying"}

\* Frames and tool replies leave a connection only after the consent of that
\* very connection is in the audit trail, whatever the reconnects, failed
\* transactions and restarts around it (ws.py:192-243).
FramesFollowRecordedGrant == streamed \subseteq audit.granted

\* The guest slot of the registered channel never names a connection whose
\* handler has cleaned up, so presence is never answered for a socket that is
\* gone for good (hub.py:137-144, ws.py:256-258).
SlotHeldByLiveHandler ==
    current # None => guest[current] = None \/ GuestInside(guest[current])

\* The row claims consent, presence or a standing permission (a session that no
\* longer expires) only if somebody's consent was recorded, and presence only if
\* that was since the relay last started: no order of REST calls, enrolments,
\* reconnects and failed transactions invents one, and no restart leaves the
\* presence of a dead process (connector.py:231-233, sessions.py:164-171,
\* main.py:76).
NothingWithoutAGrant ==
    /\ row.connected => audit.since # {}
    /\ audit.granted = {} =>
          /\ row.consent # "granted"
          /\ row.expires
          /\ row.mode = "unattended" => "unattended" \in Modes

\* A handler's cleanup never evicts another connection from the registered
\* channel, nor unregisters a channel another connection still holds
\* (hub.py:175-191, 131-136).
CleanupSparesOthers ==
    [][\A h \in Conns :
          /\ pc[h] = "cleanup" /\ pc'[h] # "cleanup"
          /\ ~Restarts
          /\ current # None
          => /\ guest[current] \notin {None, h} =>
                   current' = current /\ guest'[current] = guest[current]
             /\ operator[current] \notin {None, h} =>
                   current' = current /\ operator'[current] = operator[current]
      ]_vars

\* The relay implements the gate: a connection is asked once its handler reads
\* it, and shares once its grant is committed.
Phase(g) ==
    CASE pc[g] \in {"new", "accepting", "replacing"} -> "away"
      [] GuestInside(g) /\ pc[g] # "cleanup" ->
            IF g \in audit.denied THEN "refused"
            ELSE IF g \in audit.granted THEN "sharing" ELSE "asked"
      [] OTHER -> "over"

Gate == INSTANCE ConsentGate WITH
            phase <- [g \in Guests |-> Phase(g)],
            shown <- streamed

GateHolds == Gate!Spec

\* Every socket the relay closed or lost is forgotten: its handler cleans up
\* and returns, so nothing is forwarded for it forever (ws.py:249-289).
DeadSocketsAreForgotten == \A h \in Conns : h \in gone ~> pc[h] = "done"

\* Every REST call that was let in returns, whatever sockets it waits to close
\* (sessions.py:186-270, hub.py:273-301).
CallsReturn == \A e \in Calls : pc[e] # "new" ~> pc[e] = "done"

-----------------------------------------------------------------------------
(* What the documentation says and the code does not do.                   *)

\* "Ending a session must actually stop the endpoint capturing" (hub.py:276):
\* once the call that ended the row has returned, no live connection streams.
EndStopsStreaming ==
    (\E e \in Calls : pc[e] = "done" /\ req[e] \in {"ended", "delete"})
    /\ row.state = "ended"
    => \A g \in Guests :
          ~(pc[g] = "loop" /\ consented[g] /\ g \notin gone)

\* "Session has already ended" (sessions.py:213): no way back.
EndedStaysEnded == [][row.state = "ended" => row'.state = "ended"]_vars

\* "A stale connection's own cleanup running after a newer one has already
\* replaced it must not tear down the live connection's state - neither the
\* in-memory socket reference nor the 'guest left' row" (ws.py:250-255): a
\* leaving guest's commit does not take away the presence of another
\* connection that holds the slot and streams under a recorded grant.
CleanupKeepsReconnect ==
    [][\A g, h \in Guests :
          /\ GuestLeaveCommits(g)
          /\ GuestOnline /\ guest[current] = h
          /\ pc[h] = "loop" /\ consented[h] /\ h \notin gone
          => row'.connected = row.connected
      ]_vars
=============================================================================
