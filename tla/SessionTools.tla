----------------------------- MODULE SessionTools -----------------------------
(***************************************************************************)
(* The tools of one agent session (agent/rmm_agent/session.py): the        *)
(* terminal (terminal.py) with its shells and the threads that read them,  *)
(* the chat windows (chat.py) and their one GUI thread, and the keys and   *)
(* buttons the operator holds down (remote_input.py).  The event loop runs *)
(* the receive task of each connection and, when the connection's stream   *)
(* ends, _close_tools; shells, readers, the GUI and the person at the      *)
(* keyboard go on beside it.                                               *)
(*                                                                         *)
(* A shell is named by its number; the pty it was opened on has the same.  *)
(***************************************************************************)
EXTENDS Naturals, Sequences

CONSTANTS
    Conns,      \* the number of connections
    Shells,     \* the number of shells opened
    Windows,    \* the number of chat windows opened
    Keys,       \* keys and mouse buttons
    Queued      \* the longest queue of GUI commands a message is added to

ASSUME BoundsAssumption == Conns \in Nat /\ Shells \in Nat /\ Windows \in Nat

VARIABLES
    up,         \* the connection streams
    used,       \* connections so far
    receiver,   \* the receive task: "off", "idle", or awaiting a "reply"'s send
    raised,     \* what the last _close_tools raised at: "no"thing, the "blank",
                \* which it releases first, or the "keys", which come last
    held,       \* what is held down
    pressed,    \* what the injector knows to be
    stuck,      \* what it could not release when a connection ended
    term,       \* _terminal: the shell it was created with, or 0
    object,     \* of each shell, the RemoteTerminal it was opened by
    proc, fd,   \* of each RemoteTerminal: process, and the pty it has open
    closing,    \* of each RemoteTerminal: _closing
    shell,      \* what has become of each shell
    orphan,     \* shells whose pty a background child still has open
    reader,     \* where the thread started for each shell is
    reads,      \* and the pty it waits to read, or 0
    chat,       \* _chat: a window or 0
    gui,        \* the GUI thread
    commands,   \* its queue
    window      \* what each window looks like

connection == <<up, used, receiver, raised>>
terminal == <<term, object, proc, fd, closing, shell, orphan, reader, reads>>
chats == <<chat, gui, commands, window>>
keys == <<held, pressed, stuck>>
vars == <<connection, keys, terminal, chats>>

S == 1..Shells
W == 1..Windows
First(free) == {n \in free : \A m \in free : n <= m}
NewShell == First({s \in S : shell[s] = "none"})
NewWindow == First({w \in W : window[w] = "none"})

Shelled == {"none", "runs", "hungup", "dead"}
Readers == {"none", "looks", "reads", "ended"}
Guis == {"none", "starting", "up", "dead"}
Commands == {"create", "receive", "close"} \X W
Looks == {"none", "ordered", "hidden", "shown", "gone"}

ConnectionOK ==
    /\ up \in BOOLEAN /\ used \in 0..Conns /\ raised \in {"no", "blank", "keys"}
    /\ receiver \in {"off", "idle", "reply"}
    /\ held \subseteq Keys /\ pressed \subseteq Keys /\ stuck \subseteq Keys

TerminalOK ==
    /\ term \in 0..Shells
    /\ object \in [S -> 0..Shells]
    /\ proc \in [S -> 0..Shells] /\ fd \in [S -> 0..Shells]
    /\ closing \subseteq S
    /\ shell \in [S -> Shelled]
    /\ orphan \subseteq S
    /\ reader \in [S -> Readers]
    /\ reads \in [S -> 0..Shells]

ChatOK ==
    /\ chat \in 0..Windows
    /\ gui \in Guis
    /\ commands \in Seq(Commands)
    /\ window \in [W -> Looks]

TypeOK == ConnectionOK /\ TerminalOK /\ ChatOK

Init ==
    /\ up = FALSE /\ used = 0
    /\ receiver = "off"
    /\ raised = "no"
    /\ held = {} /\ pressed = {} /\ stuck = {}
    /\ term = 0
    /\ object = [s \in S |-> 0]
    /\ proc = [s \in S |-> 0] /\ fd = [s \in S |-> 0]
    /\ closing = {}
    /\ shell = [s \in S |-> "none"]
    /\ orphan = {}
    /\ reader = [s \in S |-> "none"]
    /\ reads = [s \in S |-> 0]
    /\ chat = 0
    /\ gui = "none"
    /\ commands = <<>>
    /\ window = [w \in W |-> "none"]

-----------------------------------------------------------------------------
(* The receive task: what the operator sends. *)

Handles == receiver = "idle"
Replies == receiver' = "reply" /\ UNCHANGED <<up, used, raised>>

ReplySent ==
    /\ receiver = "reply"
    /\ receiver' = "idle"
    /\ UNCHANGED <<up, used, raised, keys, terminal, chats>>

KeyDown(k) ==
    /\ Handles
    /\ held' = held \cup {k} /\ pressed' = pressed \cup {k} /\ stuck' = stuck \ {k}
    /\ UNCHANGED <<connection, terminal, chats>>

KeyUp(k) ==
    /\ Handles
    /\ held' = held \ {k} /\ pressed' = pressed \ {k} /\ stuck' = stuck \ {k}
    /\ UNCHANGED <<connection, terminal, chats>>

(* RemoteTerminal.open on object o: a shell that has died leaves its pty    *)
(* where it is, and its reader on the object that now has another.          *)
Forks(o, s) ==
    /\ shell' = [shell EXCEPT ![s] = "runs"]
    /\ object' = [object EXCEPT ![s] = o]
    /\ proc' = [proc EXCEPT ![o] = s]
    /\ fd' = [fd EXCEPT ![o] = s]

OpensShell(o, s) ==
    /\ Forks(o, s)
    /\ closing' = closing \ {o}
    /\ reader' = [reader EXCEPT ![s] = "looks"]
    /\ UNCHANGED <<orphan, reads>>

(* There may be no shell to have, or no thread to read the one there is.    *)
OpenRaises(o, s) ==
    /\ Forks(o, s) \/ UNCHANGED <<shell, object, proc, fd>>
    /\ closing' = closing \ {o}
    /\ UNCHANGED <<orphan, reader, reads>>

Running(o) == proc[o] # 0 /\ shell[proc[o]] \in {"runs", "hungup"}

(* The object stays, whatever came of the shell; only an answer is missing. *)
Opens(s) ==
    LET o == IF term = 0 THEN s ELSE term
    IN /\ term' = o
       /\ \/ OpensShell(o, s) /\ Replies
          \/ OpenRaises(o, s) /\ UNCHANGED connection

\* Fault: a shell that runs does not keep another from being opened.
TerminalOpenTwice ==
    /\ Handles
    /\ \E s \in NewShell : Opens(s)
    /\ UNCHANGED <<keys, chats>>
TerminalOpen ==
    /\ Handles
    /\ IF term # 0 /\ Running(term)
       THEN Replies /\ UNCHANGED terminal
       ELSE \E s \in NewShell : Opens(s)
    /\ UNCHANGED <<keys, chats>>

(* RemoteTerminal.close, and the session forgets the object. *)
\* Fault: the shell is not hung up.
ClosedQuietly ==
    IF term = 0
    THEN UNCHANGED terminal
    ELSE /\ closing' = closing \cup {term}
         /\ fd' = [fd EXCEPT ![term] = 0]
         /\ proc' = [proc EXCEPT ![term] = 0]
         /\ term' = 0
         /\ UNCHANGED <<object, shell, orphan, reader, reads>>
Closed ==
    IF term = 0
    THEN UNCHANGED terminal
    ELSE /\ closing' = closing \cup {term}
         /\ shell' = [s \in S |->
               IF s = proc[term] /\ shell[s] = "runs" THEN "hungup" ELSE shell[s]]
         /\ fd' = [fd EXCEPT ![term] = 0]
         /\ proc' = [proc EXCEPT ![term] = 0]
         /\ term' = 0
         /\ UNCHANGED <<object, orphan, reader, reads>>

TerminalClose ==
    /\ Handles
    /\ Closed
    /\ Replies
    /\ UNCHANGED <<keys, chats>>

(* The first message makes a window.  The constructor waits three seconds   *)
(* for the GUI thread to fail; if it fails later nobody hears of it.        *)
Orders(w) ==
    /\ gui' \in IF gui \in {"none", "starting"} THEN {"starting", "up", "dead"} ELSE {gui}
    /\ chat' = w
    /\ IF gui' = "dead"
       THEN window' = [window EXCEPT ![w] = "gone"] /\ UNCHANGED commands
       ELSE /\ window' = [window EXCEPT ![w] = "ordered"]
            /\ commands' = commands \o << <<"create", w>>, <<"receive", w>> >>

ChatMessage ==
    /\ Handles
    /\ IF chat = 0
       THEN \E w \in NewWindow : Orders(w)
       ELSE /\ Len(commands) < Queued
            /\ commands' = IF window[chat] = "gone" THEN commands
                           ELSE Append(commands, <<"receive", chat>>)
            /\ UNCHANGED <<chat, gui, window>>
    /\ UNCHANGED <<connection, keys, terminal>>

\* Fault: the GUI thread is not told.
ChatClosedSilently ==
    /\ chat' = 0
    /\ UNCHANGED <<gui, commands, window>>
ChatClosed ==
    /\ chat' = 0
    /\ commands' = IF chat = 0 \/ window[chat] = "gone" THEN commands
                   ELSE Append(commands, <<"close", chat>>)
    /\ UNCHANGED <<gui, window>>

-----------------------------------------------------------------------------
(* The connection. *)

Begins ==
    /\ ~up
    /\ used < Conns
    /\ up' = TRUE
    /\ used' = used + 1
    /\ receiver' = "idle"
    /\ raised' = "no"
    /\ UNCHANGED <<keys, terminal, chats>>

(* The receive loop ends by itself: the operator's "end", or the socket.    *)
ReceiverEnds ==
    /\ receiver # "off"
    /\ receiver' = "off"
    /\ UNCHANGED <<up, used, raised, keys, terminal, chats>>

(* Something may not come up.  pynput's injector forgets it all the same;   *)
(* the portal's raises there, and knows what it knew.                       *)
ReleasesAll ==
    \E left \in SUBSET pressed :
        /\ held' = held \ (pressed \ left)
        /\ stuck' = (stuck \ pressed) \cup left
        /\ \/ pressed' = {} /\ raised' = "no"
           \/ left # {} /\ UNCHANGED pressed /\ raised' = "keys"

(* The stream ends: the receive task is cancelled, wherever it waits, and   *)
(* _close_tools runs before the loop does anything else.  Releasing the     *)
(* privacy blank comes first, and may raise; closing the terminal, the chat *)
(* and the uploads swallow what can fail in them; the keys come last.       *)
StreamEndsListening ==  \* Fault: the receive task goes on.
    /\ up
    /\ up' = FALSE
    /\ Closed /\ ChatClosed /\ ReleasesAll
    /\ UNCHANGED <<used, receiver>>
StreamEnds ==
    /\ up
    /\ up' = FALSE
    /\ receiver' = "off"
    /\ \/ Closed /\ ChatClosed /\ ReleasesAll
       \/ raised' = "blank" /\ UNCHANGED <<keys, terminal, chats>>
    /\ UNCHANGED used

-----------------------------------------------------------------------------
(* Shells and their readers. *)

ShellDies(s) ==
    /\ shell[s] \in {"runs", "hungup"}
    /\ shell' = [shell EXCEPT ![s] = "dead"]
    /\ orphan' \in {orphan, orphan \cup {s}}
    /\ UNCHANGED <<connection, keys, term, object, proc, fd, closing, reader, reads, chats>>

OrphanDies(s) ==
    /\ s \in orphan
    /\ orphan' = orphan \ {s}
    /\ UNCHANGED <<connection, keys, term, object, proc, fd, closing, shell, reader, reads, chats>>

Moves(s, to, pty) ==
    /\ reader' = [reader EXCEPT ![s] = to]
    /\ reads' = [reads EXCEPT ![s] = pty]
    /\ UNCHANGED <<connection, keys, term, object, proc, fd, closing, shell, orphan, chats>>

(* The guard of the loop, and the descriptor it will read.  One that is     *)
(* gone by the time of the read raises, which ends the thread as well.      *)
ReaderLooks(s) ==
    /\ reader[s] = "looks"
    /\ LET o == object[s]
       IN IF o \in closing \/ fd[o] = 0
          THEN Moves(s, "ended", 0)
          ELSE Moves(s, "reads", fd[o])

(* Something is printed; or every process that had the pty open is gone.    *)
Silent(f) == shell[f] = "dead" /\ f \notin orphan
ReadPrints(s) == reader[s] = "reads" /\ ~Silent(reads[s]) /\ Moves(s, "looks", 0)
ReadEnds(s) == reader[s] = "reads" /\ Silent(reads[s]) /\ Moves(s, "ended", 0)

-----------------------------------------------------------------------------
(* The GUI thread and the person. *)

GuiStarts ==
    /\ gui = "starting"
    /\ gui' \in {"up", "dead"}
    /\ UNCHANGED <<connection, keys, terminal, chat, commands, window>>

\* Fault: a window that was closed has a state nobody knows.
ObeyedOddly(command, w) ==
    CASE command = "create" -> "hidden"
      [] command = "receive" -> IF window[w] = "gone" THEN "gone" ELSE "shown"
      [] command = "close" -> "closed"
Obeyed(command, w) ==
    CASE command = "create" -> "hidden"
      [] command = "receive" -> IF window[w] = "gone" THEN "gone" ELSE "shown"
      [] command = "close" -> "gone"

GuiPolls ==
    /\ gui = "up"
    /\ commands # <<>>
    /\ LET c == Head(commands)
       IN window' = [window EXCEPT ![c[2]] = Obeyed(c[1], c[2])]
    /\ commands' = Tail(commands)
    /\ UNCHANGED <<connection, keys, terminal, chat, gui>>

PersonHides(w) ==
    /\ window[w] = "shown"
    /\ window' = [window EXCEPT ![w] = "hidden"]
    /\ UNCHANGED <<connection, keys, terminal, chat, gui, commands>>

Next ==
    \/ Begins \/ StreamEnds \/ ReceiverEnds \/ ReplySent
    \/ \E k \in Keys : KeyDown(k) \/ KeyUp(k)
    \/ TerminalOpen \/ TerminalClose \/ ChatMessage
    \/ \E s \in S : \/ ShellDies(s) \/ OrphanDies(s)
                    \/ ReaderLooks(s) \/ ReadPrints(s) \/ ReadEnds(s)
    \/ GuiStarts \/ GuiPolls
    \/ \E w \in W : PersonHides(w)

Spec == Init /\ [][Next]_vars

(* Threads run, and a shell that has been hung up dies.  A shell's own end, *)
(* what it leaves behind, the person, the operator and the network are free. *)
FairSpec ==
    /\ Spec
    /\ \A s \in S : /\ WF_vars(shell[s] = "hungup" /\ ShellDies(s))
                    /\ WF_vars(ReaderLooks(s)) /\ WF_vars(ReadEnds(s))
    /\ WF_vars(GuiStarts) /\ WF_vars(GuiPolls)

-----------------------------------------------------------------------------
(* session.py:356-374: between two connections nothing of the first is      *)
(* left: no shell that was not hung up, no chat, nothing held down but what *)
(* could not be released.  Of what _close_tools does, releasing the blank   *)
(* is all that keeps the rest from being done when it raises.               *)
ConnectionLeavesNothing ==
    ~up /\ raised # "blank" =>
        /\ held \subseteq stuck /\ term = 0 /\ chat = 0
        /\ \A s \in S : shell[s] # "runs"

(* remote_input.py:192: "Let go of everything still held down", "whenever a *)
(* session ends for any reason".  Not when the blank's release raises       *)
(* before it, nor when an injector fails.  (Unchecked.)                     *)
EndReleasesAll == ~up => held = {} /\ term = 0 /\ chat = 0

(* terminal.py:44, 84: a shell that runs is the one `_terminal` has, so     *)
(* that there is one at most and closing the terminal reaches it, and its   *)
(* thread, if there could be one, has not ended: what it prints is sent,    *)
(* although the object and its flags outlive a shell.                       *)
RunningShellIsServed ==
    \A s \in S : shell[s] = "runs" =>
        /\ term # 0 /\ proc[term] = s
        /\ reader[s] # "ended"

(* terminal.py:85: every reader of a terminal that has been closed ends,    *)
(* unless a child that survived the hangup keeps the pty open for good.     *)
ReadersEnd ==
    \A s \in S : reader[s] # "none" /\ object[s] \in closing ~>
        \/ reader[s] = "ended"
        \/ reader[s] = "reads" /\ reads[s] \in orphan

(* chat.py:166: the window of a conversation that is over goes away,        *)
(* however far the GUI thread was behind; it is not shown again.            *)
WindowsGoAway ==
    \A w \in W : window[w] = "shown" /\ chat # w ~> [](window[w] = "gone")
=============================================================================
