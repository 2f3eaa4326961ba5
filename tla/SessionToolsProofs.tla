-------------------------- MODULE SessionToolsProofs --------------------------
(***************************************************************************)
(* What SessionTools guarantees for any number of connections, shells and  *)
(* chat windows and any keys: its type invariant, that a shell which runs  *)
(* can be reached and is read, and that a connection leaves nothing.       *)
(***************************************************************************)
EXTENDS SessionTools, SequenceTheorems, TLAPS

(* The receive task lives inside a stream. *)
ReceiverOnlyUp == receiver # "off" => up

(* The object of a shell that runs is the one the session has: its pty is   *)
(* that shell's, it is not closing, and its reader reads no other pty.      *)
RunningShellIsWhole ==
    \A s \in S : shell[s] = "runs" =>
        /\ object[s] = term /\ fd[term] = s /\ term \notin closing
        /\ reader[s] = "reads" => reads[s] = s

(* What is down the injector knows, or could not release. *)
HeldIsKnown == held \subseteq pressed \cup stuck

(* A reader knows the object that started it, and was started for a shell.  *)
ReaderHasObject ==
    \A s \in S : reader[s] # "none" => object[s] # 0 /\ shell[s] # "none"

IInv ==
    /\ TypeOK /\ ReceiverOnlyUp /\ HeldIsKnown /\ ReaderHasObject
    /\ RunningShellIsServed /\ RunningShellIsWhole
    /\ ConnectionLeavesNothing

-----------------------------------------------------------------------------
(* The type of the state. *)

LEMMA InitIInv == Init => IInv
  <1> SUFFICES ASSUME Init PROVE IInv
    OBVIOUS
  <1> USE BoundsAssumption DEF Init
  <1>1. ConnectionOK
    <2>1. used \in 0..Conns
      OBVIOUS
    <2> QED
      BY <2>1 DEF ConnectionOK
  <1>2. TerminalOK
    BY DEF TerminalOK, S, Shelled, Readers
  <1>3. ChatOK
    BY DEF ChatOK, Guis, Looks
  <1> QED
    BY <1>1, <1>2, <1>3
    DEF IInv, TypeOK, ReceiverOnlyUp, HeldIsKnown, ReaderHasObject, RunningShellIsServed,
        RunningShellIsWhole, ConnectionLeavesNothing

(* The connection, and what is held down. *)
LEMMA ReleasesOK ==
    ASSUME held \subseteq Keys, pressed \subseteq Keys, stuck \subseteq Keys, HeldIsKnown,
           ReleasesAll
    PROVE  /\ held' \subseteq Keys /\ pressed' \subseteq Keys /\ stuck' \subseteq Keys
           /\ raised' \in {"no", "keys"}
           /\ held' \subseteq stuck'
  <1>1. PICK left \in SUBSET pressed :
           /\ held' = held \ (pressed \ left)
           /\ stuck' = (stuck \ pressed) \cup left
           /\ \/ pressed' = {} /\ raised' = "no"
              \/ left # {} /\ UNCHANGED pressed /\ raised' = "keys"
    BY DEF ReleasesAll
  <1> QED
    BY <1>1 DEF HeldIsKnown

LEMMA NextConnectionOK ==
    ASSUME ConnectionOK, HeldIsKnown, [Next]_vars PROVE ConnectionOK' /\ HeldIsKnown'
  <1> USE BoundsAssumption DEF connection, keys, ConnectionOK
  <1>1. CASE UNCHANGED <<connection, keys>>
    BY <1>1 DEF HeldIsKnown
  <1>2. CASE Begins \/ ReceiverEnds \/ ReplySent \/ StreamEnds
    <2>1. used' \in 0..Conns
      BY <1>2 DEF Begins, ReceiverEnds, ReplySent, StreamEnds
    <2>2. receiver' \in {"off", "idle", "reply"} /\ up' \in BOOLEAN
      BY <1>2, Zenon DEF Begins, ReceiverEnds, ReplySent, StreamEnds
    <2>3. \/ ReleasesAll
          \/ UNCHANGED keys /\ raised' \in {"no", "blank", raised}
      BY <1>2 DEF Begins, ReceiverEnds, ReplySent, StreamEnds
    <2>4. CASE ReleasesAll
      BY <2>1, <2>2, <2>4, ReleasesOK DEF HeldIsKnown
    <2>5. CASE ~ReleasesAll
      BY <2>1, <2>2, <2>3, <2>5 DEF HeldIsKnown
    <2> QED
      BY <2>4, <2>5
  <1>3. ASSUME NEW k \in Keys, KeyDown(k) \/ KeyUp(k) PROVE ConnectionOK' /\ HeldIsKnown'
    BY <1>3 DEF KeyDown, KeyUp, HeldIsKnown
  <1>4. CASE TerminalOpen \/ TerminalClose
    <2>1. UNCHANGED keys /\ (Replies \/ UNCHANGED connection)
      BY <1>4 DEF TerminalOpen, TerminalClose, Opens
    <2> QED
      BY <2>1 DEF Replies, HeldIsKnown
  <1>5. CASE \/ ChatMessage \/ GuiStarts \/ GuiPolls \/ \E w \in W : PersonHides(w)
             \/ \E s \in S : \/ ShellDies(s) \/ OrphanDies(s)
                             \/ ReaderLooks(s) \/ ReadPrints(s) \/ ReadEnds(s)
             \/ UNCHANGED vars
    <2>1. UNCHANGED <<connection, keys>>
      BY <1>5
      DEF ChatMessage, GuiStarts, GuiPolls, PersonHides, ShellDies, OrphanDies,
          ReaderLooks, ReadPrints, ReadEnds, Moves, vars
    <2> QED
      BY <2>1, <1>1
  <1> QED
    BY <1>2, <1>3, <1>4, <1>5 DEF Next

(* The terminal: opened, closed, and the steps of shells and readers. *)
LEMMA ForksOK ==
    ASSUME TerminalOK, NEW s \in S, NEW o \in S, Forks(o, s)
    PROVE  /\ object' \in [S -> 0..Shells] /\ proc' \in [S -> 0..Shells]
           /\ fd' \in [S -> 0..Shells] /\ shell' \in [S -> Shelled]
  <1>1. S \subseteq 0..Shells
    BY BoundsAssumption DEF S
  <1> QED
    BY <1>1 DEF TerminalOK, Forks, Shelled

LEMMA OpensOK ==
    ASSUME TerminalOK, NEW s \in S, NEW o \in S, OpensShell(o, s) \/ OpenRaises(o, s),
           term' = o
    PROVE  TerminalOK'
  <1>1. S \subseteq 0..Shells
    BY BoundsAssumption DEF S
  <1>2. /\ object' \in [S -> 0..Shells] /\ proc' \in [S -> 0..Shells]
        /\ fd' \in [S -> 0..Shells] /\ shell' \in [S -> Shelled]
    <2>1. Forks(o, s) \/ UNCHANGED <<shell, object, proc, fd>>
      BY DEF OpensShell, OpenRaises
    <2> QED
      BY <2>1, ForksOK DEF TerminalOK
  <1>3. reader' \in [S -> Readers]
    BY DEF TerminalOK, OpensShell, OpenRaises, Readers
  <1>4. closing' \subseteq S /\ UNCHANGED <<orphan, reads>>
    BY DEF TerminalOK, OpensShell, OpenRaises
  <1> QED
    BY <1>1, <1>2, <1>3, <1>4 DEF TerminalOK

LEMMA ClosedOK == ASSUME TerminalOK, Closed PROVE TerminalOK'
  <1>1. CASE term = 0
    BY <1>1 DEF Closed, terminal, TerminalOK
  <1>2. CASE term # 0
    <2>1. term \in S
      BY <1>2, BoundsAssumption DEF TerminalOK, S
    <2>2. shell' \in [S -> Shelled]
      BY <1>2 DEF Closed, TerminalOK, Shelled
    <2>3. term' \in 0..Shells /\ fd' \in [S -> 0..Shells] /\ proc' \in [S -> 0..Shells]
      BY <1>2, BoundsAssumption DEF Closed, TerminalOK
    <2> QED
      BY <1>2, <2>1, <2>2, <2>3 DEF Closed, TerminalOK
  <1> QED
    BY <1>1, <1>2

LEMMA ReaderOK == ASSUME TerminalOK, ReaderHasObject, NEW s \in S,
                         ReaderLooks(s) \/ ReadPrints(s) \/ ReadEnds(s)
                  PROVE  TerminalOK' /\ ReaderHasObject'
  <1>1. PICK to \in Readers \ {"none"}, pty \in 0..Shells :
           Moves(s, to, pty) /\ reader[s] # "none"
    <2>1. 0 \in 0..Shells
      BY BoundsAssumption
    <2>2. CASE ReaderLooks(s)
      <3>1. object[s] \in S
        BY <2>2, BoundsAssumption DEF ReaderLooks, ReaderHasObject, TerminalOK, S
      <3> QED
        BY <2>1, <2>2, <3>1 DEF ReaderLooks, Readers, TerminalOK
    <2>3. CASE ReadPrints(s) \/ ReadEnds(s)
      BY <2>1, <2>3 DEF ReadPrints, ReadEnds, Readers
    <2> QED
      BY <2>2, <2>3
  <1> QED
    BY <1>1 DEF Moves, TerminalOK, ReaderHasObject

(* The terminal changes by opening, by closing and by its own threads. *)
LEMMA TerminalSteps ==
    ASSUME [Next]_vars
    PROVE  \/ UNCHANGED terminal \/ Closed \/ TerminalOpen
           \/ \E s \in S : \/ ShellDies(s) \/ OrphanDies(s)
                           \/ ReaderLooks(s) \/ ReadPrints(s) \/ ReadEnds(s)
  BY DEF Next, Begins, StreamEnds, ReceiverEnds, ReplySent, KeyDown, KeyUp, TerminalClose,
         ChatMessage, GuiStarts, GuiPolls, PersonHides, vars

LEMMA OpenIs ==
    ASSUME TerminalOK, TerminalOpen
    PROVE  \/ UNCHANGED terminal
           \/ \E n \in S, o \in S :
                 /\ ~(term # 0 /\ Running(term)) /\ term' = o /\ shell[n] = "none"
                 /\ OpensShell(o, n) \/ OpenRaises(o, n)
  <1>1. \A n \in NewShell : n \in S /\ shell[n] = "none"
    BY DEF NewShell, First
  <1>2. term # 0 => term \in S
    BY BoundsAssumption DEF TerminalOK, S
  <1> QED
    BY <1>1, <1>2 DEF TerminalOpen, Opens

LEMMA NextTerminalOK ==
    ASSUME TerminalOK, ReaderHasObject, [Next]_vars PROVE TerminalOK' /\ ReaderHasObject'
  <1>1. CASE UNCHANGED terminal
    BY <1>1 DEF terminal, TerminalOK, ReaderHasObject
  <1>2. CASE Closed
    <2>1. ReaderHasObject'
      BY <1>2 DEF Closed, terminal, TerminalOK, ReaderHasObject
    <2> QED
      BY <1>2, <2>1, ClosedOK
  <1>3. CASE TerminalOpen
    <2>1. ASSUME NEW n \in S, NEW o \in S, term' = o, OpensShell(o, n) \/ OpenRaises(o, n)
          PROVE  TerminalOK' /\ ReaderHasObject'
      <3>1. ReaderHasObject'
        <4>1. CASE Forks(o, n)
          <5>1. /\ reader' \in {reader, [reader EXCEPT ![n] = "looks"]}
                /\ object' = [object EXCEPT ![n] = o] /\ shell' = [shell EXCEPT ![n] = "runs"]
            BY <2>1, <4>1 DEF OpensShell, OpenRaises, Forks
          <5> QED
            <6>1. ASSUME NEW x \in S, reader'[x] # "none" PROVE object'[x] # 0 /\ shell'[x] # "none"
              <7>1. CASE x = n
                BY <5>1, <7>1 DEF TerminalOK, S
              <7>2. CASE x # n
                BY <5>1, <6>1, <7>2 DEF TerminalOK, ReaderHasObject
              <7> QED
                BY <7>1, <7>2
            <6> QED
              BY <6>1 DEF ReaderHasObject
        <4>2. CASE ~Forks(o, n)
          BY <2>1, <4>2 DEF OpensShell, OpenRaises, ReaderHasObject
        <4> QED
          BY <4>1, <4>2
      <3> QED
        BY <2>1, <3>1, OpensOK
    <2> QED
      BY <1>1, <1>3, <2>1, OpenIs
  <1>4. ASSUME NEW s \in S, ShellDies(s) \/ OrphanDies(s)
        PROVE  TerminalOK' /\ ReaderHasObject'
    BY <1>4 DEF ShellDies, OrphanDies, TerminalOK, ReaderHasObject, Shelled
  <1> QED
    BY <1>1, <1>2, <1>3, <1>4, ReaderOK, TerminalSteps

(* The chat: what is queued, and what the GUI thread makes of it. *)
LEMMA CommandTypes ==
    ASSUME NEW w \in W, commands \in Seq(Commands)
    PROVE  /\ commands \o << <<"create", w>>, <<"receive", w>> >> \in Seq(Commands)
           /\ Append(commands, <<"receive", w>>) \in Seq(Commands)
           /\ Append(commands, <<"close", w>>) \in Seq(Commands)
  <1>1. /\ <<"create", w>> \in Commands /\ <<"receive", w>> \in Commands
        /\ <<"close", w>> \in Commands
    BY DEF Commands
  <1>2. << <<"create", w>>, <<"receive", w>> >> \in Seq(Commands)
    BY <1>1
  <1> QED
    BY <1>1, <1>2, ConcatProperties, AppendProperties

LEMMA NextChatOK == ChatOK /\ [Next]_vars => ChatOK'
  <1> SUFFICES ASSUME ChatOK, [Next]_vars PROVE ChatOK'
    OBVIOUS
  <1> USE BoundsAssumption DEF ChatOK
  <1>0. NewWindow \subseteq W /\ W \subseteq 0..Windows /\ (chat # 0 => chat \in W)
    BY DEF W, NewWindow, First
  <1>1. CASE UNCHANGED chats
    BY <1>1 DEF chats
  <1>2. ASSUME NEW w \in W, Orders(w) PROVE ChatOK'
    BY <1>0, <1>2, CommandTypes DEF Orders, Guis, Looks
  <1>3. CASE ChatMessage
    BY <1>0, <1>2, <1>3, CommandTypes DEF ChatMessage
  <1>4. CASE ChatClosed
    <2>1. commands' \in Seq(Commands)
      BY <1>0, <1>4, CommandTypes DEF ChatClosed
    <2>2. chat' \in 0..Windows
      BY <1>4 DEF ChatClosed
    <2> QED
      BY <1>4, <2>1, <2>2 DEF ChatClosed
  <1>5. CASE GuiStarts
    BY <1>5 DEF GuiStarts, Guis
  <1>6. CASE GuiPolls
    <2>1. commands' \in Seq(Commands) /\ Head(commands) \in Commands
      BY <1>6, HeadTailProperties DEF GuiPolls
    <2>2. Obeyed(Head(commands)[1], Head(commands)[2]) \in Looks
      BY <2>1 DEF Obeyed, Commands, Looks
    <2> QED
      BY <1>6, <2>1, <2>2 DEF GuiPolls
  <1>7. ASSUME NEW w \in W, PersonHides(w) PROVE ChatOK'
    BY <1>7 DEF PersonHides, Looks
  <1>8. UNCHANGED chats \/ ChatMessage \/ ChatClosed \/ GuiStarts \/ GuiPolls
        \/ \E w \in W : PersonHides(w)
    BY DEF Next, Begins, StreamEnds, ReceiverEnds, ReplySent, KeyDown, KeyUp, TerminalOpen,
           TerminalClose, ShellDies, OrphanDies, ReaderLooks, ReadPrints, ReadEnds, Moves, vars
  <1> QED
    BY <1>1, <1>3, <1>4, <1>5, <1>6, <1>7, <1>8

-----------------------------------------------------------------------------
(* The shell that runs. *)

OneShell == RunningShellIsServed /\ RunningShellIsWhole

(* Closing the terminal hangs up whatever runs. *)
LEMMA ClosedHangsUp ==
    ASSUME TerminalOK, RunningShellIsServed, Closed
    PROVE  term' = 0 /\ \A s \in S : shell'[s] # "runs"
  <1>1. CASE term = 0
    BY <1>1 DEF Closed, terminal, RunningShellIsServed
  <1>2. CASE term # 0
    BY <1>2 DEF Closed, RunningShellIsServed, TerminalOK
  <1> QED
    BY <1>1, <1>2

(* A shell is opened only when none runs. *)
LEMMA OpensOne == ASSUME TerminalOK, ReaderHasObject, OneShell, TerminalOpen PROVE OneShell'
  <1> USE DEF OneShell, RunningShellIsServed, RunningShellIsWhole
  <1>1. CASE UNCHANGED terminal
    BY <1>1 DEF terminal
  <1>2. ASSUME NEW n \in S, NEW o \in S, ~(term # 0 /\ Running(term)), term' = o,
               shell[n] = "none",
               OpensShell(o, n) \/ OpenRaises(o, n)
        PROVE  OneShell'
    <2>1. \A s \in S : shell[s] # "runs" /\ s # 0
      BY <1>2 DEF Running, S
    <2>2. CASE UNCHANGED shell
      BY <2>1, <2>2
    <2>3. CASE ~UNCHANGED shell
      <3>1. Forks(o, n) /\ closing' = closing \ {o}
            /\ reader' \in {reader, [reader EXCEPT ![n] = "looks"]}
        BY <1>2, <2>3 DEF OpensShell, OpenRaises
      <3>2. ASSUME NEW s \in S, shell'[s] = "runs" PROVE s = n
        BY <2>1, <3>1, <3>2 DEF TerminalOK, Forks
      <3>3. /\ object'[n] = o /\ proc'[o] = n /\ fd'[o] = n /\ o \notin closing'
            /\ reader'[n] \in {"looks", "none"}
        <4>1. reader[n] = "none"
          BY <1>2 DEF ReaderHasObject
        <4> QED
          BY <3>1, <4>1 DEF TerminalOK, Forks
      <3> QED
        BY <1>2, <2>1, <3>2, <3>3
    <2> QED
      BY <2>2, <2>3
  <1> QED
    BY <1>1, <1>2, OpenIs

(* A reader of a shell that runs goes on. *)
LEMMA ReaderGoesOn ==
    ASSUME TerminalOK, OneShell, NEW r \in S, ReaderLooks(r) \/ ReadPrints(r) \/ ReadEnds(r)
    PROVE  OneShell'
  <1> USE DEF OneShell, RunningShellIsServed, RunningShellIsWhole
  <1>1. ASSUME NEW to, NEW pty, Moves(r, to, pty),
               shell[r] = "runs" => to \in {"looks", "reads"} /\ (to = "reads" => pty = r)
        PROVE  OneShell'
    BY <1>1 DEF Moves, TerminalOK
  <1>2. CASE ReaderLooks(r)
    <2>1. r # 0
      BY DEF S
    <2> QED
      BY <2>1, <1>1, <1>2 DEF ReaderLooks
  <1>3. CASE ReadPrints(r)
    BY <1>1, <1>3 DEF ReadPrints
  <1>4. CASE ReadEnds(r)
    BY <1>1, <1>4 DEF ReadEnds, Silent
  <1> QED
    BY <1>2, <1>3, <1>4

LEMMA NextShells ==
    ASSUME TerminalOK, ReaderHasObject, OneShell, [Next]_vars PROVE OneShell'
  <1>1. CASE UNCHANGED terminal
    BY <1>1 DEF OneShell, RunningShellIsServed, RunningShellIsWhole, terminal
  <1>2. CASE Closed
    BY <1>2, ClosedHangsUp DEF OneShell, RunningShellIsServed, RunningShellIsWhole
  <1>3. ASSUME NEW s \in S, ShellDies(s) \/ OrphanDies(s) PROVE OneShell'
    BY <1>3
    DEF ShellDies, OrphanDies, OneShell, RunningShellIsServed, RunningShellIsWhole, TerminalOK
  <1> QED
    BY <1>1, <1>2, <1>3, OpensOne, ReaderGoesOn, TerminalSteps

-----------------------------------------------------------------------------
(* The connection. *)

LEMMA NextConnection ==
    ASSUME TypeOK, ReceiverOnlyUp, HeldIsKnown, RunningShellIsServed,
           ConnectionLeavesNothing, [Next]_vars
    PROVE  ReceiverOnlyUp' /\ ConnectionLeavesNothing'
  <1> USE DEF connection, ReceiverOnlyUp, ConnectionLeavesNothing
  <1>1. CASE StreamEnds
    <2>1. CASE Closed /\ ChatClosed /\ ReleasesAll
      <3>1. held' \subseteq stuck'
        BY <2>1, ReleasesOK DEF TypeOK, ConnectionOK
      <3>2. term' = 0 /\ chat' = 0 /\ \A s \in S : shell'[s] # "runs"
        BY <2>1, ClosedHangsUp DEF ChatClosed, TypeOK
      <3> QED
        BY <1>1, <3>1, <3>2 DEF StreamEnds
    <2>2. CASE raised' = "blank"
      BY <1>1, <2>2 DEF StreamEnds
    <2> QED
      BY <1>1, <2>1, <2>2 DEF StreamEnds
  <1>2. CASE Begins
    BY <1>2 DEF Begins
  <1>3. CASE ReceiverEnds \/ ReplySent
    BY <1>3 DEF ReceiverEnds, ReplySent, keys, terminal, chats
  <1>4. CASE \/ \E k \in Keys : KeyDown(k) \/ KeyUp(k)
             \/ TerminalOpen \/ TerminalClose \/ ChatMessage
    <2>1. up /\ UNCHANGED up
      BY <1>4
      DEF KeyDown, KeyUp, TerminalOpen, Opens, TerminalClose, ChatMessage, Handles, Replies
    <2> QED
      BY <2>1
  <1>5. CASE GuiStarts \/ GuiPolls \/ \E w \in W : PersonHides(w)
    BY <1>5 DEF GuiStarts, GuiPolls, PersonHides, keys, terminal
  <1>6. ASSUME NEW s \in S, ShellDies(s) \/ OrphanDies(s)
        PROVE  ReceiverOnlyUp' /\ ConnectionLeavesNothing'
    BY <1>6 DEF ShellDies, OrphanDies, TypeOK, TerminalOK, keys, chats
  <1>7. ASSUME NEW s \in S, ReaderLooks(s) \/ ReadPrints(s) \/ ReadEnds(s)
        PROVE  ReceiverOnlyUp' /\ ConnectionLeavesNothing'
    BY <1>7 DEF ReaderLooks, ReadPrints, ReadEnds, Moves, keys, chats
  <1>8. CASE UNCHANGED vars
    BY <1>8 DEF vars, keys, terminal, chats
  <1> QED
    BY <1>1, <1>2, <1>3, <1>4, <1>5, <1>6, <1>7, <1>8 DEF Next

-----------------------------------------------------------------------------
(* The theorems. *)

THEOREM Inductive == Spec => []IInv
  <1>1. IInv /\ [Next]_vars => IInv'
    BY NextConnectionOK, NextTerminalOK, NextChatOK, NextShells, NextConnection
    DEF IInv, TypeOK, OneShell
  <1> QED
    BY InitIInv, <1>1, PTL DEF Spec

(* terminal.py, chat.py, session.py: each field, thread and queue holds     *)
(* what its code can give it.                                               *)
THEOREM TypeCorrect == Spec => []TypeOK
  BY Inductive, PTL DEF IInv

(* terminal.py:44, 84: a shell that runs is the one the session can close,  *)
(* and a thread reads it, however many were opened before.                  *)
THEOREM ShellServed == Spec => []RunningShellIsServed
  BY Inductive, PTL DEF IInv

(* session.py:356-374: between two connections nothing is left of the       *)
(* first but keys that could not be released, unless releasing the blank    *)
(* raised.                                                                  *)
THEOREM NothingLeft == Spec => []ConnectionLeavesNothing
  BY Inductive, PTL DEF IInv
=============================================================================
