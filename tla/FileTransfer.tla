----------------------------- MODULE FileTransfer -----------------------------
(***************************************************************************)
(* Sending a file to the endpoint and retrieving one from it: the panel    *)
(* (console/src/components/viewer/FilesPanel.tsx) on its stream            *)
(* (console/src/lib/stream.ts), the relay as the two queues it is to them, *)
(* and the agent (session.py, _handle_files; files.py).                    *)
(*                                                                         *)
(* All transfers are to or from one path, which is the agent's only key.   *)
(* A chunk is the pair of its transfer and its number; what a chunk holds  *)
(* matters only in that a full chunk is not a multiple of three bytes.     *)
(***************************************************************************)
EXTENDS Naturals, Sequences, SequencesExt

CONSTANTS
    Puts,       \* files the operator sends
    Gets,       \* files the operator retrieves
    Size,       \* the number of chunks of each file
    CHUNK,      \* bytes in a full chunk
    Faults,     \* which of "operator", "agent", "crash", "disk" fail
    None

Transfers == Puts \cup Gets

ASSUME TransfersAssumption ==
    /\ Puts \cap Gets = {}
    /\ None \notin Transfers
    /\ Size \in [Transfers -> Nat \ {0}]
    /\ CHUNK \in Nat \ {0}

Chunks(t) == [i \in 1..Size[t] |-> <<t, i>>]
Chunk == Transfers \X Nat
File == Seq(Chunk)
Replies == {"received", "error", "chunk"} \X Chunk

ASSUME NoneAssumption == None \notin File

VARIABLES
    todo,       \* transfers the operator has not started
    busy,       \* panel: what the busy line is about
    reading,    \* panel: the files being read into memory before they are sent
    parts,      \* panel: download.current, the chunks of a download so far
    opUp,       \* the operator's socket is open
    wire,       \* messages on their way to the agent
    back,       \* messages on their way to the panel
    agentUp,    \* the agent's connection shares the session
    upload,     \* agent: what has been written through _uploads[path], if open
    disk,       \* agent: the file at the path
    left,       \* history: the file at the path is what an upload left behind
                \* when it could not be removed, or when the agent died
    get,        \* agent: the download its receive loop is sending, and how far
    reports,    \* every "received" the agent sent, with the file as it then was
    cut         \* transfers a link or the disk failed under

panel == <<todo, busy, reading, parts>>
agent == <<upload, disk, left, get, reports>>
vars == <<panel, opUp, wire, back, agentUp, agent, cut>>

\* Fault: the last chunk is one too late.
FinalLate(m) == m[2] > Size[m[1]]
Final(m) == m[2] = Size[m[1]]

TypeOK ==
    /\ todo \subseteq Transfers
    /\ busy \in Transfers \cup {None}
    /\ reading \subseteq Puts
    /\ parts \in File
    /\ opUp \in BOOLEAN /\ agentUp \in BOOLEAN /\ left \in BOOLEAN
    /\ wire \in File
    /\ back \in Seq(Replies)
    /\ upload \in File \cup {None}
    /\ disk \in File \cup {None}
    /\ get = None \/ \E t \in Gets : get \in {t} \X (1..Size[t])
    /\ reports \subseteq (Puts \X File)
    /\ cut \subseteq Transfers

Init ==
    /\ todo = Transfers
    /\ busy = None
    /\ reading = {}
    /\ parts = <<>>
    /\ opUp = TRUE /\ agentUp = TRUE
    /\ wire = <<>>
    /\ back = <<>>
    /\ upload = None
    /\ disk = None /\ left = FALSE
    /\ get = None
    /\ reports = {}
    /\ cut = {}

-----------------------------------------------------------------------------
(* The panel. *)

StartsSending(t) ==
    /\ busy = None
    /\ t \in todo \cap Puts
    /\ todo' = todo \ {t}
    /\ busy' = t
    /\ reading' = reading \cup {t}
    /\ UNCHANGED <<parts, opUp, wire, back, agentUp, agent, cut>>

(* Once the file is read the loop never yields: every chunk goes, or the    *)
(* first send says that the socket is not open.                             *)
SendsChunks(t) ==
    /\ t \in reading
    /\ reading' = reading \ {t}
    /\ IF opUp
       THEN wire' = wire \o Chunks(t) /\ UNCHANGED <<busy, cut>>
       ELSE busy' = None /\ cut' = cut \cup {t} /\ UNCHANGED wire
    /\ UNCHANGED <<todo, parts, opUp, back, agentUp, agent>>

(* Whether the request went out is not asked. *)
Retrieves(t) ==
    /\ busy = None
    /\ t \in todo \cap Gets
    /\ todo' = todo \ {t}
    /\ busy' = t
    /\ wire' = IF opUp THEN Append(wire, <<t, 0>>) ELSE wire
    /\ cut' = IF opUp THEN cut ELSE cut \cup {t}
    /\ UNCHANGED <<reading, parts, opUp, back, agentUp, agent>>

(* base64 of a block that is not a multiple of three bytes ends in padding, *)
(* and atob refuses padding anywhere but at the end.                        *)
Joinable(chunks) == CHUNK % 3 = 0 \/ Len(chunks) = 1

(* The chunks of another name start a new list; the last chunk saves the    *)
(* file, or raises in atob and leaves the list and the busy line as they are. *)
\* Fault: the busy line stays when the file is saved.
HearsChunkBusily(m) ==
    LET got == Append(IF parts # <<>> /\ parts[1][1] = m[1] THEN parts ELSE <<>>, m)
    IN /\ parts' = IF Final(m) /\ Joinable(got) THEN <<>> ELSE got
       /\ UNCHANGED busy
HearsChunk(m) ==
    LET got == Append(IF parts # <<>> /\ parts[1][1] = m[1] THEN parts ELSE <<>>, m)
    IN IF Final(m) /\ Joinable(got)
       THEN parts' = <<>> /\ busy' = None
       ELSE parts' = got /\ UNCHANGED busy

PanelHears ==
    /\ back # <<>>
    /\ back' = Tail(back)
    /\ IF ~opUp
       THEN cut' = cut \cup {Head(back)[2][1]} /\ UNCHANGED <<busy, parts>>
       ELSE /\ IF Head(back)[1] = "chunk"
               THEN HearsChunk(Head(back)[2])
               ELSE busy' = None /\ UNCHANGED parts
            /\ UNCHANGED cut
    /\ UNCHANGED <<todo, reading, opUp, wire, agentUp, agent>>

-----------------------------------------------------------------------------
(* The agent.  Its receive loop handles one message at a time, a whole      *)
(* download included.                                                       *)

Reply(kind, m) == back' = Append(back, <<kind, m>>)

(* Upload(path) truncates; an upload that is open is written to as it is.   *)
\* Fault: every chunk opens the file anew.
PutWritesAnew(m) ==
    /\ disk' = <<m>> /\ left' = FALSE
    /\ IF Final(m)
       THEN upload' = None /\ reports' = reports \cup {<<m[1], <<m>>>>} /\ Reply("received", m)
       ELSE upload' = <<m>> /\ UNCHANGED <<reports, back>>
    /\ UNCHANGED cut
PutWrites(m) ==
    LET written == Append(IF upload = None THEN <<>> ELSE upload, m)
    IN /\ disk' = written /\ left' = FALSE
       /\ IF Final(m)
          THEN /\ upload' = None
               /\ reports' = reports \cup {<<m[1], written>>}
               /\ Reply("received", m)
          ELSE upload' = written /\ UNCHANGED <<reports, back>>
       /\ UNCHANGED cut

(* abort closes the file and deletes it, and says nothing when either fails: *)
(* what had been written is then left.                                      *)
Removed == disk' = None /\ left' = FALSE
LeftWith(files) == "disk" \in Faults /\ disk' \in files /\ left' = TRUE

(* The file cannot be opened: what is there stays.  A write or the close    *)
(* fails, with or without the chunk: the upload is aborted.                 *)
PutFails(m) ==
    LET written == IF upload = None THEN <<>> ELSE upload
    IN /\ "disk" \in Faults
       /\ \/ upload = None /\ UNCHANGED <<disk, left>>
          \/ Removed
          \/ LeftWith({written, Append(written, m)})
       /\ upload' = None
       /\ Reply("error", m)
       /\ cut' = cut \cup {m[1]}
       /\ UNCHANGED reports

AgentHears ==
    /\ wire # <<>>
    /\ get = None
    /\ wire' = Tail(wire)
    /\ LET m == Head(wire)
       IN IF ~agentUp
          THEN cut' = cut \cup {m[1]} /\ UNCHANGED <<upload, disk, left, get, reports, back>>
          ELSE IF m[1] \in Gets
               THEN get' = <<m[1], 1>> /\ UNCHANGED <<upload, disk, left, reports, back, cut>>
               ELSE (PutWrites(m) \/ PutFails(m)) /\ UNCHANGED get
    /\ UNCHANGED <<panel, opUp, agentUp>>

GetSends ==
    /\ get # None
    /\ Reply("chunk", get)
    /\ get' = IF Final(get) THEN None ELSE <<get[1], get[2] + 1>>
    /\ UNCHANGED <<panel, opUp, wire, agentUp, upload, disk, left, reports, cut>>

GetFails ==
    /\ "disk" \in Faults
    /\ get # None
    /\ Reply("error", get)
    /\ get' = None
    /\ cut' = cut \cup {get[1]}
    /\ UNCHANGED <<panel, opUp, wire, agentUp, upload, disk, left, reports>>

-----------------------------------------------------------------------------
(* The links.  What was under way when one drops is lost: the last messages *)
(* sent on the operator's, the next ones due on the agent's, and replies.   *)

UnderWay ==
    ({busy} \ {None}) \cup {m[1] : m \in ToSet(wire)} \cup {r[2][1] : r \in ToSet(back)}
Cut == cut' = cut \cup UnderWay

OperatorDrops ==
    /\ "operator" \in Faults
    /\ opUp
    /\ opUp' = FALSE
    /\ Cut
    /\ \E n \in 0..Len(wire) : wire' = SubSeq(wire, 1, n)
    /\ \E n \in 1..Len(back) + 1 : back' = SubSeq(back, n, Len(back))
    /\ UNCHANGED <<panel, agentUp, agent>>

OperatorReturns ==
    /\ ~opUp
    /\ opUp' = TRUE
    /\ UNCHANGED <<panel, wire, back, agentUp, agent, cut>>

(* The connection's end cancels the receive loop and aborts what is open.   *)
\* Fault: the files are closed but not deleted.
ClosesUploadsKept == upload' = None /\ UNCHANGED <<disk, left>>
ClosesUploads ==
    /\ upload' = None
    /\ IF upload = None
       THEN UNCHANGED <<disk, left>>
       ELSE Removed \/ LeftWith({disk})

(* The agent's process dies with whatever it has open.                      *)
LosesUploads ==
    /\ upload' = None
    /\ left' = (left \/ upload # None)
    /\ UNCHANGED disk

AgentDrops ==
    /\ agentUp
    /\ agentUp' = FALSE
    /\ \/ "agent" \in Faults /\ ClosesUploads
       \/ "crash" \in Faults /\ LosesUploads
    /\ get' = None
    /\ \E n \in 1..Len(wire) + 1 : wire' = SubSeq(wire, n, Len(wire))
    /\ \E n \in 0..Len(back) : back' = SubSeq(back, 1, n)
    /\ Cut
    /\ UNCHANGED <<panel, opUp, reports>>

AgentReturns ==
    /\ ~agentUp
    /\ agentUp' = TRUE
    /\ UNCHANGED <<panel, opUp, wire, back, agent, cut>>

Next ==
    \/ \E t \in Transfers : StartsSending(t) \/ Retrieves(t)
    \/ \E t \in Puts : SendsChunks(t)
    \/ PanelHears
    \/ AgentHears \/ GetSends \/ GetFails
    \/ OperatorDrops \/ OperatorReturns \/ AgentDrops \/ AgentReturns

Spec == Init /\ [][Next]_vars

(* A file is read, a queue moves and a download goes on; nothing is assumed *)
(* of the operator, the links or the disk.                                  *)
FairSpec ==
    /\ Spec
    /\ (\A t \in Puts : WF_vars(SendsChunks(t))) /\ WF_vars(PanelHears)
    /\ WF_vars(AgentHears) /\ WF_vars(GetSends)

-----------------------------------------------------------------------------
(* session.py:422-440: a file the agent reports as received ends with the   *)
(* whole of its transfer, unless a link or the disk failed under it; and as *)
(* long as nothing has failed it is that transfer and nothing else.  (An    *)
(* upload cut off earlier stays open, and the next one is appended to it.)  *)
ReceivedIsWhole ==
    \A r \in reports :
        /\ r[1] \notin cut => IsSuffix(Chunks(r[1]), r[2])
        /\ cut = {} => r[2] = Chunks(r[1])

(* files.py:99, session.py:368: whatever was interrupted, a file on the     *)
(* endpoint is being written or was reported.  The two ways past it are an  *)
(* abort whose close or unlink fails and an agent that dies, and they last  *)
(* until the path is written again.                                         *)
NoLeftovers ==
    /\ disk # None /\ ~left => disk = upload \/ \E r \in reports : r[2] = disk
    /\ left => upload = None

(* FilesPanel.tsx:113, 123: the busy line blocks every further transfer, so *)
(* it must go away: for every transfer nothing failed under, except a       *)
(* download of several chunks.                                              *)
BusyClears ==
    \A t \in Transfers :
        busy = t ~> busy # t \/ t \in cut \/ (t \in Gets /\ Size[t] > 1)

(* files.py:3: chunking lets a large file be transferred: a download under  *)
(* which nothing fails is saved.                                            *)
DownloadsComplete == \A t \in Gets : busy = t ~> busy # t \/ t \in cut
=============================================================================
