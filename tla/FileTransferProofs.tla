-------------------------- MODULE FileTransferProofs --------------------------
(***************************************************************************)
(* Proofs about FileTransfer for any sets of transfers, any sizes and any  *)
(* subset of the faults.                                                   *)
(***************************************************************************)
EXTENDS FileTransfer, TLAPS, SequenceTheorems

-----------------------------------------------------------------------------
(* The inductive invariant.                                                *)

\* What the panel sends: a chunk of a file it sends, or a request.
Sendable(m) ==
    \/ m[1] \in Puts /\ m[2] \in 1..Size[m[1]]
    \/ m[1] \in Gets /\ m[2] = 0
WireIsSendable == \A n \in 1..Len(wire) : Sendable(wire[n])

\* A chunk that is not the first follows the chunk before it, unless it is the
\* head: what is lost is lost at the ends of the queue.
Follows(m, k) == k[1] = m[1] /\ k[2] = m[2] + 1
WireIsInOrder ==
    \A n \in 1..Len(wire) - 1 : wire[n + 1][2] > 1 => Follows(wire[n], wire[n + 1])

\* The last k elements of the file are the first k chunks of t.
EndsWith(file, t, k) ==
    /\ Len(file) >= k
    /\ \A i \in 1..k : file[Len(file) - k + i] = <<t, i>>

\* The chunks before the head were written, one after the other, at the end of
\* the upload that is open, if nothing failed under the transfer.
HeadIsNext ==
    wire # <<>> =>
        LET m == Head(wire)
        IN m[2] > 1 /\ m[1] \notin cut => upload # None /\ EndsWith(upload, m[1], m[2] - 1)

\* As long as nothing has failed every chunk is followed by the next, and the
\* upload is open only between the chunks of one transfer and holds only these.
WireIsWhole ==
    \A n \in 1..Len(wire) :
        wire[n][1] \in Puts /\ ~Final(wire[n])
            => n < Len(wire) /\ Follows(wire[n], wire[n + 1])
FirstChunks(m) == [i \in 1..m[2] - 1 |-> <<m[1], i>>]
UploadIsHeads ==
    IF wire # <<>> /\ Head(wire)[2] > 1
    THEN upload = FirstChunks(Head(wire))
    ELSE upload = None
UndisturbedIsExact == cut = {} => WireIsWhole /\ UploadIsHeads

OrderInv ==
    /\ WireIsSendable /\ WireIsInOrder
    /\ HeadIsNext
    /\ UndisturbedIsExact

\* A received file ends with its transfer: EndsWith for IsSuffix.
ReportsAreWhole ==
    \A r \in reports :
        /\ r[1] \notin cut => EndsWith(r[2], r[1], Size[r[1]])
        /\ cut = {} => r[2] = Chunks(r[1])

-----------------------------------------------------------------------------
(* Types.                                                                  *)

LEMMA ChunkType ==
    /\ \A m \in Chunk : m[1] \in Transfers /\ m[2] \in Nat /\ m = <<m[1], m[2]>>
    /\ \A t \in Transfers, n \in Nat : <<t, n>> \in Chunk
  BY DEF Chunk

LEMMA RepliesType ==
    /\ \A r \in Replies : r[2] \in Chunk /\ r[2][1] \in Transfers
    /\ \A m \in Chunk : /\ <<"received", m>> \in Replies
                        /\ <<"error", m>> \in Replies
                        /\ <<"chunk", m>> \in Replies
  BY DEF Replies, Chunk

LEMMA ChunksType ==
    ASSUME NEW t \in Transfers
    PROVE  /\ Chunks(t) \in File
           /\ Len(Chunks(t)) = Size[t]
           /\ \A i \in 1..Size[t] : Chunks(t)[i] = <<t, i>>
  BY TransfersAssumption DEF Chunks, File, Chunk

\* What is left of a queue that loses a part at one end.
LEMMA PartOf ==
    ASSUME NEW S, NEW s \in Seq(S), NEW m \in 1..Len(s) + 1, NEW n \in 0..Len(s),
           m = 1 \/ n = Len(s)
    PROVE  /\ SubSeq(s, m, n) \in Seq(S)
           /\ Len(SubSeq(s, m, n)) = IF m <= n THEN n - m + 1 ELSE 0
           /\ \A i \in 1..n - m + 1 : SubSeq(s, m, n)[i] = s[m + i - 1]
  <1>1. Len(s) \in Nat
    BY LenProperties
  <1>2. \A i \in m..n : s[i] \in S
    BY <1>1, ElementOfSeq
  <1>3. QED
    BY <1>1, <1>2, SubSeqProperties

LEMMA InitType == Init => TypeOK
  <1> SUFFICES ASSUME Init PROVE TypeOK
    OBVIOUS
  <1>1. opUp \in BOOLEAN /\ agentUp \in BOOLEAN /\ left \in BOOLEAN
    BY Zenon DEF Init
  <1>2. QED
    BY <1>1, TransfersAssumption DEF Init, TypeOK, File

LEMMA NextType == TypeOK /\ [Next]_vars => TypeOK'
  <1> SUFFICES ASSUME TypeOK, [Next]_vars PROVE TypeOK'
    OBVIOUS
  <1> USE TransfersAssumption, ChunkType DEF TypeOK, agent, panel
  <1>1. ASSUME NEW t \in Transfers, StartsSending(t) PROVE TypeOK'
    BY <1>1 DEF StartsSending
  <1>2. ASSUME NEW t \in Transfers, Retrieves(t) PROVE TypeOK'
    <2>1. wire' \in File
      BY <1>2, AppendProperties DEF Retrieves, File
    <2>2. QED
      BY <1>2, <2>1 DEF Retrieves
  <1>3. ASSUME NEW t \in Puts, SendsChunks(t) PROVE TypeOK'
    <2>1. Chunks(t) \in File
      BY ChunksType DEF Transfers
    <2>2. wire \o Chunks(t) \in File
      BY <2>1, ConcatProperties DEF File
    <2>3. wire' \in File
      BY <1>3, <2>2 DEF SendsChunks
    <2>4. QED
      BY <1>3, <2>3 DEF SendsChunks, Transfers
  <1>4. CASE PanelHears
    <2>1. Head(back) \in Replies /\ Tail(back) \in Seq(Replies)
      BY <1>4, HeadTailProperties DEF PanelHears
    <2>2. back' \in Seq(Replies)
      BY <1>4, <2>1 DEF PanelHears
    <2>3. parts' \in File /\ busy' \in Transfers \cup {None}
      <3>1. \A m \in Chunk : HearsChunk(m) => parts' \in File /\ busy' \in Transfers \cup {None}
        <4> SUFFICES ASSUME NEW m \in Chunk, HearsChunk(m)
                     PROVE  parts' \in File /\ busy' \in Transfers \cup {None}
          OBVIOUS
        <4> DEFINE old == IF parts # <<>> /\ parts[1][1] = m[1] THEN parts ELSE <<>>
        <4>1. old \in File /\ <<>> \in File
          BY EmptySeq DEF File
        <4>2. Append(old, m) \in File
          BY <4>1, AppendProperties DEF File
        <4>3. parts' \in {<<>>, Append(old, m)} /\ busy' \in {None, busy}
          BY DEF HearsChunk
        <4>4. QED
          BY <4>1, <4>2, <4>3
      <3>2. QED
        BY <1>4, <2>1, <3>1, RepliesType DEF PanelHears
    <2>4. cut' \subseteq Transfers
      BY <1>4, <2>1, RepliesType DEF PanelHears
    <2>5. QED
      BY <1>4, <2>2, <2>3, <2>4 DEF PanelHears
  <1>5. CASE AgentHears
    <2>1. Head(wire) \in Chunk /\ Tail(wire) \in File
      BY <1>5, HeadTailProperties DEF AgentHears, File
    <2>2. CASE ~agentUp
      BY <1>5, <2>1, <2>2 DEF AgentHears
    <2>3. CASE agentUp /\ Head(wire)[1] \in Gets
      BY <1>5, <2>1, <2>3 DEF AgentHears, Transfers
    <2>4. CASE agentUp /\ PutWrites(Head(wire)) /\ Head(wire)[1] \in Puts
      <3>1. Append(IF upload = None THEN <<>> ELSE upload, Head(wire)) \in File
        BY <2>1, AppendProperties, EmptySeq DEF File
      <3>2. upload' \in File \cup {None} /\ disk' \in File \cup {None}
        BY <2>4, <3>1 DEF PutWrites
      <3>3. reports' \subseteq Puts \X File
        <4> DEFINE written == Append(IF upload = None THEN <<>> ELSE upload, Head(wire))
        <4>1. <<Head(wire)[1], written>> \in Puts \X File
          BY <2>4, <3>1
        <4>2. reports' \subseteq reports \cup {<<Head(wire)[1], written>>}
          BY <2>4 DEF PutWrites
        <4>3. QED
          BY <4>1, <4>2
      <3>4. back' \in Seq(Replies)
        <4>1. Append(back, <<"received", Head(wire)>>) \in Seq(Replies)
          BY <2>1, AppendProperties, RepliesType
        <4>2. QED
          BY <2>4, <4>1 DEF PutWrites, Reply
      <3>5. QED
        BY <1>5, <2>1, <2>4, <3>2, <3>3, <3>4 DEF AgentHears, PutWrites
    <2>5. CASE agentUp /\ PutFails(Head(wire)) /\ Head(wire)[1] \in Puts
      <3>1. back' \in Seq(Replies)
        BY <2>1, <2>5, AppendProperties, RepliesType DEF PutFails, Reply
      <3>2. /\ (IF upload = None THEN <<>> ELSE upload) \in File
            /\ Append(IF upload = None THEN <<>> ELSE upload, Head(wire)) \in File
        BY <2>1, AppendProperties, EmptySeq DEF File
      <3>3. disk' \in File \cup {None} /\ left' \in BOOLEAN /\ upload' = None
        BY <2>5, <3>2 DEF PutFails, Removed, LeftWith
      <3>4. QED
        BY <1>5, <2>1, <2>5, <3>1, <3>3 DEF AgentHears, PutFails
    <2>6. QED
      BY <1>5, <2>1, <2>2, <2>3, <2>4, <2>5 DEF AgentHears, Transfers
  <1>6. CASE GetSends \/ GetFails
    <2>1. PICK t \in Gets : get \in {t} \X (1..Size[t])
      BY <1>6 DEF GetSends, GetFails
    <2>2. get \in Chunk
      BY <2>1 DEF Transfers
    <2>3. back' \in Seq(Replies)
      <3>1. /\ Append(back, <<"chunk", get>>) \in Seq(Replies)
            /\ Append(back, <<"error", get>>) \in Seq(Replies)
        BY <2>2, AppendProperties, RepliesType
      <3>2. QED
        BY <1>6, <3>1 DEF GetSends, GetFails, Reply
    <2>4. get' = None \/ get' \in {t} \X (1..Size[t])
      <3>1. Size[t] \in Nat /\ get[1] = t /\ get[2] \in 1..Size[t]
        BY <2>1 DEF Transfers
      <3>2. ~Final(get) => get[2] + 1 \in 1..Size[t]
        BY <3>1 DEF Final
      <3>3. ~Final(get) => <<get[1], get[2] + 1>> \in {t} \X (1..Size[t])
        BY <3>1, <3>2
      <3>4. QED
        BY <1>6, <3>3 DEF GetSends, GetFails
    <2>5. QED
      BY <1>6, <2>1, <2>2, <2>3, <2>4 DEF GetSends, GetFails
  <1>7. CASE OperatorDrops \/ AgentDrops
    <2>1. Len(wire) \in Nat /\ Len(back) \in Nat
      BY LenProperties DEF File
    <2>2. wire' \in File
      <3>1. /\ \A n \in 0..Len(wire) : SubSeq(wire, 1, n) \in File
            /\ \A n \in 1..Len(wire) + 1 : SubSeq(wire, n, Len(wire)) \in File
        BY <2>1, PartOf DEF File
      <3>2. QED
        BY <1>7, <3>1, ZenonT(30) DEF OperatorDrops, AgentDrops
    <2>3. back' \in Seq(Replies)
      <3>1. /\ \A n \in 0..Len(back) : SubSeq(back, 1, n) \in Seq(Replies)
            /\ \A n \in 1..Len(back) + 1 : SubSeq(back, n, Len(back)) \in Seq(Replies)
        BY <2>1, PartOf
      <3>2. QED
        BY <1>7, <3>1, ZenonT(30) DEF OperatorDrops, AgentDrops
    <2>4. UnderWay \subseteq Transfers
      <3>1. \A m \in ToSet(wire) : m \in Chunk
        BY LenProperties DEF ToSet, File
      <3>2. \A r \in ToSet(back) : r \in Replies
        BY LenProperties DEF ToSet
      <3>3. QED
        BY <3>1, <3>2, RepliesType DEF UnderWay
    <2>5. cut' \subseteq Transfers
      BY <1>7, <2>4 DEF OperatorDrops, AgentDrops, Cut
    <2>6. upload' \in File \cup {None} /\ disk' \in File \cup {None} /\ left' \in BOOLEAN
      BY <1>7
      DEF OperatorDrops, AgentDrops, ClosesUploads, LosesUploads, Removed, LeftWith
    <2>7. QED
      BY <1>7, <2>2, <2>3, <2>5, <2>6 DEF OperatorDrops, AgentDrops
  <1>8. CASE OperatorReturns \/ AgentReturns
    BY <1>8 DEF OperatorReturns, AgentReturns
  <1>9. CASE UNCHANGED vars
    BY <1>9 DEF vars
  <1>10. QED
    BY <1>1, <1>2, <1>3, <1>4, <1>5, <1>6, <1>7, <1>8, <1>9 DEF Next

(* Every reachable state is well typed: in particular what the agent sends  *)
(* of a download stays within the file, and only files that are sent are    *)
(* reported as received (session.py, _handle_files).                        *)
THEOREM TypeCorrect == Spec => []TypeOK
  BY InitType, NextType, PTL DEF Spec

-----------------------------------------------------------------------------
(* The queue of chunks.                                                    *)

LEMMA InitOrder == Init => OrderInv
  BY DEF Init, OrderInv, WireIsSendable, WireIsInOrder, HeadIsNext,
         UndisturbedIsExact, WireIsWhole, UploadIsHeads

\* A step that leaves the queue and the upload alone.
LEMMA OrderUntouched ==
    ASSUME OrderInv, UNCHANGED <<wire, upload>>, cut \subseteq cut'
    PROVE  OrderInv'
  <1> USE DEF OrderInv
  <1>1. WireIsSendable' /\ WireIsInOrder'
    BY DEF WireIsSendable, WireIsInOrder, Sendable, Follows
  <1>2. HeadIsNext'
    BY DEF HeadIsNext, EndsWith
  <1>3. UndisturbedIsExact'
    BY DEF UndisturbedIsExact, WireIsWhole, UploadIsHeads, Final, Follows, FirstChunks
  <1>4. QED
    BY <1>1, <1>2, <1>3

\* A file that is sent, or a request, goes to the end of the queue.
LEMMA OrderAppended ==
    ASSUME TypeOK, OrderInv, UNCHANGED <<upload, cut>>,
           NEW sent \in File, sent # <<>>, wire' = wire \o sent,
           \A n \in 1..Len(sent) : Sendable(sent[n]),
           sent[1][2] <= 1,
           \A n \in 1..Len(sent) - 1 : Follows(sent[n], sent[n + 1]),
           sent[Len(sent)][1] \in Puts => Final(sent[Len(sent)])
    PROVE  OrderInv'
  <1> USE DEF OrderInv
  <1>1. /\ Len(wire) \in Nat /\ Len(sent) \in Nat \ {0}
        /\ Len(wire') = Len(wire) + Len(sent)
        /\ wire' # <<>>
        /\ \A n \in 1..Len(wire) : wire'[n] = wire[n]
        /\ \A n \in 1..Len(sent) : wire'[Len(wire) + n] = sent[n]
    BY ConcatProperties, LenProperties, EmptySeq DEF TypeOK, File
  <1>2. \A n \in 1..Len(wire') : n \in 1..Len(wire) \/ n - Len(wire) \in 1..Len(sent)
    BY <1>1
  <1>3. WireIsSendable'
    <2>1. \A n \in 1..Len(wire') : Sendable(wire'[n])
      <3> TAKE n \in 1..Len(wire')
      <3>1. CASE n \in 1..Len(wire)
        BY <1>1, <3>1 DEF WireIsSendable
      <3>2. CASE n - Len(wire) \in 1..Len(sent)
        BY <1>1, <3>2
      <3>3. QED
        BY <1>2, <3>1, <3>2
    <2>2. QED
      BY <2>1 DEF WireIsSendable, Sendable
  <1>4. WireIsInOrder'
    <2> SUFFICES ASSUME NEW n \in 1..Len(wire') - 1, wire'[n + 1][2] > 1
                 PROVE  Follows(wire'[n], wire'[n + 1])
      BY DEF WireIsInOrder, Follows
    <2>1. CASE n + 1 <= Len(wire)
      BY <1>1, <2>1 DEF WireIsInOrder
    <2>2. CASE n = Len(wire)
      <3>1. sent[1] \in Chunk /\ wire'[n + 1] = sent[1]
        BY <1>1, <2>2, ElementOfSeq DEF File
      <3>2. QED
        BY <3>1, ChunkType
    <2>3. CASE n > Len(wire)
      <3>1. n - Len(wire) \in 1..Len(sent) - 1
        BY <1>1, <2>3
      <3>2. wire'[n] = sent[n - Len(wire)] /\ wire'[n + 1] = sent[n - Len(wire) + 1]
        BY <1>1, <3>1
      <3>3. QED
        BY <3>1, <3>2
    <2>4. QED
      BY <1>1, <2>1, <2>2, <2>3
  <1>5. IF wire = <<>> THEN Head(wire') = sent[1] ELSE Head(wire') = Head(wire)
    BY <1>1, EmptySeq, LenProperties DEF TypeOK, File
  <1>6. HeadIsNext'
    <2>1. sent[1] \in Chunk /\ ~(sent[1][2] > 1)
      BY <1>1, ElementOfSeq, ChunkType DEF File
    <2>2. CASE wire = <<>>
      BY <1>5, <2>1, <2>2 DEF HeadIsNext
    <2>3. CASE wire # <<>>
      BY <1>5, <2>3 DEF HeadIsNext, EndsWith
    <2>4. QED
      BY <2>2, <2>3
  <1>7. cut = {} => WireIsWhole'
    <2> SUFFICES ASSUME cut = {}, NEW n \in 1..Len(wire'),
                        wire'[n][1] \in Puts, ~Final(wire'[n])
                 PROVE  n < Len(wire') /\ Follows(wire'[n], wire'[n + 1])
      BY DEF WireIsWhole, Final, Follows
    <2>1. CASE n \in 1..Len(wire)
      BY <1>1, <2>1 DEF UndisturbedIsExact, WireIsWhole
    <2>2. CASE n - Len(wire) \in 1..Len(sent) - 1
      <3>1. wire'[n] = sent[n - Len(wire)] /\ wire'[n + 1] = sent[n - Len(wire) + 1]
        BY <1>1, <2>2
      <3>2. QED
        BY <1>1, <2>2, <3>1
    <2>3. CASE n - Len(wire) = Len(sent)
      <3>1. wire'[n] = sent[Len(sent)]
        BY <1>1, <2>3
      <3>2. QED
        BY <3>1
    <2>4. QED
      BY <1>1, <1>2, <2>1, <2>2, <2>3
  <1>8. cut = {} => UploadIsHeads'
    <2>1. sent[1] \in Chunk /\ sent[1][2] \in Nat
      BY <1>1, ElementOfSeq, ChunkType DEF File
    <2>2. CASE wire = <<>>
      BY <1>1, <1>5, <2>1, <2>2 DEF UndisturbedIsExact, UploadIsHeads
    <2>3. CASE wire # <<>>
      BY <1>1, <1>5, <2>3 DEF UndisturbedIsExact, UploadIsHeads, FirstChunks
    <2>4. QED
      BY <2>2, <2>3
  <1>9. QED
    BY <1>3, <1>4, <1>6, <1>7, <1>8 DEF UndisturbedIsExact

\* A link that drops loses the queue at one of its ends, and everything in it
\* is cut.
LEMMA OrderDropped ==
    ASSUME TypeOK, OrderInv,
           \/ /\ \E n \in 0..Len(wire) : wire' = SubSeq(wire, 1, n)
              /\ upload' = upload
           \/ /\ \E n \in 1..Len(wire) + 1 : wire' = SubSeq(wire, n, Len(wire))
              /\ upload' = None,
           cut \subseteq cut', \A n \in 1..Len(wire) : wire[n][1] \in cut'
    PROVE  OrderInv'
  <1> USE DEF OrderInv
  <1>1. PICK m \in 1..Len(wire) + 1, n \in 0..Len(wire) :
          (m = 1 \/ n = Len(wire)) /\ wire' = SubSeq(wire, m, n)
    <2>1. Len(wire) \in Nat
      BY LenProperties DEF TypeOK, File
    <2>2. 1 \in 1..Len(wire) + 1 /\ Len(wire) \in 0..Len(wire)
      BY <2>1
    <2>3. QED
      BY <2>2
  <1>2. Len(wire) \in Nat /\ wire' \in File
    BY <1>1, PartOf, LenProperties DEF TypeOK, File
  <1>3. /\ Len(wire') = IF m <= n THEN n - m + 1 ELSE 0
        /\ \A i \in 1..Len(wire') : m + i - 1 \in 1..Len(wire) /\ wire'[i] = wire[m + i - 1]
    <2>1. Len(wire') = IF m <= n THEN n - m + 1 ELSE 0
      BY <1>1, PartOf DEF TypeOK, File
    <2>2. \A i \in 1..n - m + 1 : wire'[i] = wire[m + i - 1]
      BY <1>1, PartOf DEF TypeOK, File
    <2>3. QED
      BY <1>2, <2>1, <2>2
  <1>4. WireIsSendable'
    <2> SUFFICES ASSUME NEW i \in 1..Len(wire') PROVE Sendable(wire'[i])
      BY DEF WireIsSendable, Sendable
    <2>1. m + i - 1 \in 1..Len(wire) /\ wire'[i] = wire[m + i - 1]
      BY <1>3
    <2>2. Sendable(wire[m + i - 1])
      BY <2>1, Zenon DEF WireIsSendable
    <2>3. QED
      BY <2>1, <2>2
  <1>5. WireIsInOrder'
    <2> SUFFICES ASSUME NEW i \in 1..Len(wire') - 1, wire'[i + 1][2] > 1
                 PROVE  Follows(wire'[i], wire'[i + 1])
      BY DEF WireIsInOrder, Follows
    <2>1. i \in 1..Len(wire') /\ i + 1 \in 1..Len(wire')
      BY <1>2, <1>3
    <2>2. m + i - 1 \in 1..Len(wire) /\ wire'[i] = wire[m + i - 1]
      BY <1>3, <2>1
    <2>3. m + (i + 1) - 1 \in 1..Len(wire) /\ wire'[i + 1] = wire[m + (i + 1) - 1]
      BY <1>3, <2>1
    <2>4. m + i - 1 \in 1..Len(wire) - 1 /\ m + (i + 1) - 1 = (m + i - 1) + 1
      BY <1>2, <2>2, <2>3, SMTT(30)
    <2>5. QED
      BY <2>2, <2>3, <2>4 DEF WireIsInOrder
  <1>6. wire' # <<>> => Head(wire')[1] \in cut'
    <2> SUFFICES ASSUME wire' # <<>> PROVE Head(wire')[1] \in cut'
      OBVIOUS
    <2>1. 1 \in 1..Len(wire') /\ Head(wire') = wire'[1]
      BY <1>2, EmptySeq DEF File
    <2>2. QED
      BY <1>3, <2>1
  <1>7. HeadIsNext'
    BY <1>6 DEF HeadIsNext
  <1>8. cut' = {} => UndisturbedIsExact'
    <2> SUFFICES ASSUME cut' = {} PROVE UndisturbedIsExact'
      OBVIOUS
    <2>1. wire = <<>>
      BY <1>2, EmptySeq DEF TypeOK, File
    <2>2. upload = None /\ Len(wire) = 0
      BY <2>1 DEF UndisturbedIsExact, UploadIsHeads
    <2>3. wire' = <<>> /\ upload' = None
      BY <1>2, <1>3, <2>2, EmptySeq DEF File
    <2>4. QED
      BY <2>3 DEF UndisturbedIsExact, WireIsWhole, UploadIsHeads
  <1>9. QED
    BY <1>4, <1>5, <1>7, <1>8 DEF UndisturbedIsExact

-----------------------------------------------------------------------------
(* What the agent writes.                                                  *)

Opened == IF upload = None THEN <<>> ELSE upload

LEMMA OpenedType ==
    ASSUME TypeOK
    PROVE  Opened \in File
  BY EmptySeq DEF TypeOK, Opened, File

LEMMA WrittenEndsWith ==
    ASSUME NEW file \in File, NEW m \in Chunk, m[2] >= 1,
           m[2] > 1 => EndsWith(file, m[1], m[2] - 1)
    PROVE  EndsWith(Append(file, m), m[1], m[2])
  <1>1. /\ Len(file) \in Nat /\ m[2] \in Nat /\ m = <<m[1], m[2]>>
        /\ Len(Append(file, m)) = Len(file) + 1
        /\ Append(file, m)[Len(file) + 1] = m
        /\ \A i \in 1..Len(file) : Append(file, m)[i] = file[i]
    BY LenProperties, AppendProperties, ChunkType DEF File
  <1>2. Len(Append(file, m)) >= m[2]
    BY <1>1 DEF EndsWith
  <1>3. ASSUME NEW i \in 1..m[2]
        PROVE  Append(file, m)[Len(Append(file, m)) - m[2] + i] = <<m[1], i>>
    <2>1. CASE i = m[2]
      BY <1>1, <2>1
    <2>2. CASE i # m[2]
      <3>1. i \in 1..m[2] - 1 /\ m[2] > 1
        BY <1>1, <2>2
      <3>2. /\ file[Len(file) - (m[2] - 1) + i] = <<m[1], i>>
            /\ Len(file) >= m[2] - 1
        BY <3>1 DEF EndsWith
      <3>3. /\ Len(file) - (m[2] - 1) + i \in 1..Len(file)
            /\ Len(Append(file, m)) - m[2] + i = Len(file) - (m[2] - 1) + i
        BY <1>1, <3>1, <3>2
      <3>4. QED
        BY <1>1, <3>2, <3>3
    <2>3. QED
      BY <2>1, <2>2
  <1>4. QED
    BY <1>2, <1>3 DEF EndsWith

LEMMA WrittenExactly ==
    ASSUME NEW m \in Chunk, m[2] >= 1
    PROVE  /\ Append(FirstChunks(m), m) = [i \in 1..m[2] |-> <<m[1], i>>]
           /\ m[2] = 1 => FirstChunks(m) = <<>>
  <1> DEFINE whole == [i \in 1..m[2] |-> <<m[1], i>>]
  <1>1. m[2] \in Nat /\ m[1] \in Transfers /\ m = <<m[1], m[2]>>
    BY ChunkType
  <1>2. /\ FirstChunks(m) \in Seq(Chunk)
        /\ Len(FirstChunks(m)) = m[2] - 1
        /\ \A i \in 1..m[2] - 1 : FirstChunks(m)[i] = <<m[1], i>>
    BY <1>1, ChunkType DEF FirstChunks
  <1>3. whole \in Seq(Chunk) /\ Len(whole) = m[2] /\ \A i \in 1..m[2] : whole[i] = <<m[1], i>>
    BY <1>1, ChunkType
  <1>4. /\ Append(FirstChunks(m), m) \in Seq(Chunk)
        /\ Len(Append(FirstChunks(m), m)) = m[2]
        /\ \A i \in 1..m[2] - 1 : Append(FirstChunks(m), m)[i] = <<m[1], i>>
        /\ Append(FirstChunks(m), m)[m[2]] = m
    BY <1>1, <1>2, AppendProperties
  <1>5. \A i \in 1..m[2] : Append(FirstChunks(m), m)[i] = whole[i]
    BY <1>1, <1>3, <1>4
  <1>6. Append(FirstChunks(m), m) = whole
    BY <1>3, <1>4, <1>5, SeqEqual
  <1>7. m[2] = 1 => FirstChunks(m) = <<>>
    BY <1>2, EmptySeq
  <1>8. QED
    BY <1>6, <1>7

\* What the head of the queue finds when it is a chunk to be written.
LEMMA HeadIsWritten ==
    ASSUME TypeOK, OrderInv, wire # <<>>, Head(wire)[1] \in Puts
    PROVE  /\ Head(wire)[1] \notin cut
                => EndsWith(Append(Opened, Head(wire)), Head(wire)[1], Head(wire)[2])
           /\ cut = {}
                => Append(Opened, Head(wire)) = [i \in 1..Head(wire)[2] |-> <<Head(wire)[1], i>>]
  <1> DEFINE m == Head(wire)
  <1> USE DEF OrderInv
  <1>1. m \in Chunk /\ m = wire[1] /\ 1 \in 1..Len(wire)
    BY HeadTailProperties, EmptySeq DEF TypeOK, File
  <1>2. m[2] \in Nat /\ m[2] >= 1
    BY <1>1, ChunkType, TransfersAssumption DEF WireIsSendable, Sendable
  <1>3. m[1] \notin cut => EndsWith(Append(Opened, m), m[1], m[2])
    <2>1. m[1] \notin cut /\ m[2] > 1 => EndsWith(Opened, m[1], m[2] - 1)
      BY DEF HeadIsNext, Opened
    <2>2. QED
      BY <1>1, <1>2, <2>1, OpenedType, WrittenEndsWith
  <1>4. cut = {} => Opened = FirstChunks(m)
    <2>1. CASE m[2] > 1
      <3>1. cut = {} => upload = FirstChunks(m) /\ upload # None
        BY <1>2, <2>1 DEF UndisturbedIsExact, UploadIsHeads, HeadIsNext
      <3>2. QED
        BY <3>1 DEF Opened
    <2>2. CASE m[2] = 1
      BY <1>1, <2>2, WrittenExactly DEF UndisturbedIsExact, UploadIsHeads, Opened
    <2>3. QED
      BY <1>2, <2>1, <2>2
  <1>5. QED
    BY <1>1, <1>2, <1>3, <1>4, WrittenExactly

LEMMA OrderHeard ==
    ASSUME TypeOK, OrderInv, AgentHears
    PROVE  OrderInv'
  <1> DEFINE m == Head(wire)
             k == Head(wire')
  <1> USE DEF OrderInv
  <1>1. /\ m \in Chunk /\ m = wire[1] /\ Len(wire) \in Nat /\ 1 \in 1..Len(wire)
        /\ wire' \in Seq(Chunk) /\ Len(wire') = Len(wire) - 1
        /\ \A n \in 1..Len(wire') : wire'[n] = wire[n + 1]
    BY HeadTailProperties, LenProperties, EmptySeq DEF AgentHears, TypeOK, File
  <1>2. cut \subseteq cut'
    BY DEF AgentHears, PutWrites, PutFails
  <1>3. WireIsSendable'
    BY <1>1 DEF WireIsSendable, Sendable
  <1>4. WireIsInOrder'
    <2> SUFFICES ASSUME NEW n \in 1..Len(wire') - 1, wire'[n + 1][2] > 1
                 PROVE  Follows(wire'[n], wire'[n + 1])
      BY DEF WireIsInOrder, Follows
    <2>1. n \in 1..Len(wire') /\ n + 1 \in 1..Len(wire') /\ n + 1 \in 1..Len(wire) - 1
      BY <1>1
    <2>2. wire'[n] = wire[n + 1] /\ wire'[n + 1] = wire[(n + 1) + 1]
      BY <1>1, <2>1
    <2>3. QED
      BY <2>1, <2>2 DEF WireIsInOrder
  <1>5. ASSUME wire' # <<>>, k[2] > 1
        PROVE  /\ k[1] = m[1] /\ k[2] = m[2] + 1 /\ m[1] \in Puts
               /\ k[2] \in 1..Size[m[1]] /\ ~Final(m)
    <2>1. k = wire[1 + 1] /\ 1 \in 1..Len(wire) - 1 /\ 1 + 1 \in 1..Len(wire)
      BY <1>1, <1>5, EmptySeq
    <2>2. Follows(m, k) /\ Sendable(k)
      BY <1>1, <1>5, <2>1 DEF WireIsInOrder, WireIsSendable
    <2>3. m[2] \in Nat
      BY <1>1, ChunkType
    <2>4. QED
      BY <1>5, <2>2, <2>3, TransfersAssumption DEF Follows, Sendable, Final, Transfers
  <1>6. ASSUME m[1] \notin cut', m[1] \in Puts
        PROVE  agentUp /\ PutWrites(m)
    BY <1>6, TransfersAssumption DEF AgentHears, PutFails
  <1>7. HeadIsNext'
    <2> SUFFICES ASSUME wire' # <<>>, k[2] > 1, k[1] \notin cut'
                 PROVE  upload' # None /\ EndsWith(upload', k[1], k[2] - 1)
      BY DEF HeadIsNext, EndsWith
    <2>1. m[1] \in Puts /\ m[1] \notin cut /\ ~Final(m) /\ k[1] = m[1] /\ k[2] - 1 = m[2]
      BY <1>1, <1>2, <1>5, ChunkType
    <2>2. upload' = Append(Opened, m)
      BY <1>5, <1>6, <2>1 DEF PutWrites, Opened
    <2>3. upload' # None
      <3>1. Append(Opened, m) \in Seq(Chunk)
        BY <1>1, OpenedType, AppendProperties DEF File
      <3>2. QED
        BY <2>2, <3>1, NoneAssumption DEF File
    <2>4. EndsWith(upload', m[1], m[2])
      BY <2>1, <2>2, HeadIsWritten DEF AgentHears
    <2>5. QED
      BY <2>1, <2>3, <2>4
  <1>8. ASSUME cut' = {} PROVE WireIsWhole'
    <2> SUFFICES ASSUME NEW n \in 1..Len(wire'), wire'[n][1] \in Puts, ~Final(wire'[n])
                 PROVE  n < Len(wire') /\ Follows(wire'[n], wire'[n + 1])
      BY DEF WireIsWhole, Final, Follows
    <2>1. n + 1 \in 1..Len(wire) /\ wire'[n] = wire[n + 1] /\ cut = {}
      BY <1>1, <1>2, <1>8
    <2>2. n + 1 < Len(wire) /\ Follows(wire[n + 1], wire[(n + 1) + 1])
      BY <2>1 DEF UndisturbedIsExact, WireIsWhole
    <2>3. n < Len(wire') /\ wire'[n + 1] = wire[(n + 1) + 1]
      BY <1>1, <2>2
    <2>4. QED
      BY <2>1, <2>2, <2>3
  <1>9. ASSUME cut' = {} PROVE UploadIsHeads'
    <2>1. cut = {} /\ m[1] \notin cut'
      BY <1>2, <1>9
    <2>2. CASE m[1] \in Puts /\ Final(m)
      <3>1. upload' = None
        BY <1>6, <2>1, <2>2 DEF PutWrites
      <3>2. ~(wire' # <<>> /\ k[2] > 1)
        BY <1>5, <2>2
      <3>3. QED
        BY <3>1, <3>2 DEF UploadIsHeads
    <2>3. CASE m[1] \in Puts /\ ~Final(m)
      <3>1. upload' = [i \in 1..m[2] |-> <<m[1], i>>]
        <4>1. upload' = Append(Opened, m)
          BY <1>6, <2>1, <2>3 DEF PutWrites, Opened
        <4>2. QED
          BY <2>1, <2>3, <4>1, HeadIsWritten DEF AgentHears
      <3>2. wire' # <<>> /\ Follows(m, k)
        <4>1. 1 < Len(wire) /\ Follows(wire[1], wire[1 + 1])
          BY <1>1, <2>1, <2>3 DEF UndisturbedIsExact, WireIsWhole
        <4>2. wire' # <<>> /\ k = wire[1 + 1]
          BY <1>1, <4>1, EmptySeq
        <4>3. QED
          BY <1>1, <4>1, <4>2
      <3>3. m[2] \in Nat /\ m[2] >= 1
        BY <1>1, <2>3, ChunkType, TransfersAssumption DEF WireIsSendable, Sendable
      <3>4. k[1] = m[1] /\ k[2] > 1 /\ k[2] - 1 = m[2]
        BY <3>2, <3>3 DEF Follows
      <3>5. QED
        BY <3>1, <3>2, <3>4 DEF UploadIsHeads, FirstChunks
    <2>4. CASE m[1] \notin Puts
      <3>1. m[1] \in Gets /\ m[2] = 0
        BY <1>1, <2>4 DEF WireIsSendable, Sendable
      <3>2. upload = None
        BY <2>1, <3>1 DEF UndisturbedIsExact, UploadIsHeads
      <3>3. upload' = upload
        BY <2>1, <3>1 DEF AgentHears
      <3>4. ~(wire' # <<>> /\ k[2] > 1)
        BY <1>5, <2>4
      <3>5. QED
        BY <3>2, <3>3, <3>4 DEF UploadIsHeads
    <2>5. QED
      BY <2>2, <2>3, <2>4
  <1>10. QED
    BY <1>3, <1>4, <1>7, <1>8, <1>9 DEF UndisturbedIsExact

LEMMA NextOrder == TypeOK /\ OrderInv /\ [Next]_vars => OrderInv'
  <1> SUFFICES ASSUME TypeOK, OrderInv, [Next]_vars PROVE OrderInv'
    OBVIOUS
  <1> USE DEF panel, agent
  <1>1. ASSUME NEW t \in Transfers, StartsSending(t) PROVE OrderInv'
    BY <1>1, OrderUntouched DEF StartsSending
  <1>2. ASSUME NEW t \in Transfers, Retrieves(t) PROVE OrderInv'
    <2>1. CASE opUp
      <3> DEFINE sent == <<<<t, 0>>>>
      <3>1. t \in Gets /\ sent \in File /\ Len(sent) = 1 /\ sent[1] = <<t, 0>>
        BY <1>2, ChunkType DEF Retrieves, File
      <3>2. wire' = wire \o sent
        BY <1>2, <2>1, <3>1, AppendIsConcat, ChunkType, ZenonT(30) DEF Retrieves, TypeOK, File
      <3>3. t \notin Puts
        BY <3>1, TransfersAssumption
      <3>4. \A n \in 1..Len(sent) : Sendable(sent[n])
        BY <3>1 DEF Sendable
      <3>5. /\ sent # <<>> /\ sent[1][2] <= 1 /\ 1..Len(sent) - 1 = {}
            /\ ~(sent[Len(sent)][1] \in Puts)
        BY <3>1, <3>3, EmptySeq DEF File
      <3>6. UNCHANGED <<upload, cut>>
        BY <1>2, <2>1 DEF Retrieves
      <3> HIDE DEF sent
      <3>7. QED
        BY <3>1, <3>2, <3>4, <3>5, <3>6, OrderAppended
    <2>2. CASE ~opUp
      BY <1>2, <2>2, OrderUntouched DEF Retrieves
    <2>3. QED
      BY <2>1, <2>2
  <1>3. ASSUME NEW t \in Puts, SendsChunks(t) PROVE OrderInv'
    <2>1. CASE opUp
      <3>1. /\ Chunks(t) \in File /\ Len(Chunks(t)) = Size[t] /\ Size[t] \in Nat \ {0}
            /\ \A i \in 1..Size[t] : Chunks(t)[i] = <<t, i>>
        BY ChunksType, TransfersAssumption DEF Transfers
      <3>2. wire' = wire \o Chunks(t) /\ UNCHANGED <<upload, cut>>
        BY <1>3, <2>1 DEF SendsChunks
      <3>3. \A n \in 1..Len(Chunks(t)) : Sendable(Chunks(t)[n])
        BY <3>1 DEF Sendable
      <3>4. \A n \in 1..Len(Chunks(t)) - 1 : Follows(Chunks(t)[n], Chunks(t)[n + 1])
        BY <3>1 DEF Follows
      <3>5. Final(Chunks(t)[Len(Chunks(t))]) /\ Chunks(t)[1][2] <= 1
        BY <3>1 DEF Final
      <3>6. Chunks(t) # <<>>
        BY <3>1, EmptySeq
      <3>7. QED
        BY <3>1, <3>2, <3>3, <3>4, <3>5, <3>6, OrderAppended
    <2>2. CASE ~opUp
      BY <1>3, <2>2, OrderUntouched DEF SendsChunks
    <2>3. QED
      BY <2>1, <2>2
  <1>4. CASE PanelHears
    BY <1>4, OrderUntouched DEF PanelHears
  <1>5. CASE AgentHears
    BY <1>5, OrderHeard
  <1>6. CASE GetSends \/ GetFails
    BY <1>6, OrderUntouched DEF GetSends, GetFails
  <1>7. CASE OperatorDrops \/ AgentDrops
    <2>1. \A n \in 1..Len(wire) : wire[n][1] \in cut'
      <3>1. \A n \in 1..Len(wire) : wire[n] \in ToSet(wire)
        BY LenProperties DEF TypeOK, File, ToSet
      <3>2. cut' = cut \cup UnderWay
        BY <1>7 DEF OperatorDrops, AgentDrops, Cut
      <3>3. QED
        BY <3>1, <3>2 DEF UnderWay
    <2>2. cut \subseteq cut'
      BY <1>7 DEF OperatorDrops, AgentDrops, Cut
    <2>3. \/ /\ \E n \in 0..Len(wire) : wire' = SubSeq(wire, 1, n)
             /\ upload' = upload
          \/ /\ \E n \in 1..Len(wire) + 1 : wire' = SubSeq(wire, n, Len(wire))
             /\ upload' = None
      BY <1>7 DEF OperatorDrops, AgentDrops, ClosesUploads, LosesUploads
    <2>4. QED
      BY <2>1, <2>2, <2>3, OrderDropped
  <1>8. CASE OperatorReturns \/ AgentReturns
    BY <1>8, OrderUntouched DEF OperatorReturns, AgentReturns
  <1>9. CASE UNCHANGED vars
    BY <1>9, OrderUntouched DEF vars
  <1>10. QED
    BY <1>1, <1>2, <1>3, <1>4, <1>5, <1>6, <1>7, <1>8, <1>9 DEF Next

-----------------------------------------------------------------------------
(* What the agent reports.                                                 *)

LEMMA ReverseProperties ==
    ASSUME NEW S, NEW s \in Seq(S)
    PROVE  /\ Reverse(s) \in Seq(S) /\ Len(Reverse(s)) = Len(s)
           /\ \A i \in 1..Len(s) : Reverse(s)[i] = s[Len(s) - i + 1]
  <1>1. Len(s) \in Nat /\ \A i \in 1..Len(s) : s[Len(s) - i + 1] \in S
    BY LenProperties, ElementOfSeq
  <1>2. QED
    BY <1>1 DEF Reverse

LEMMA SuffixOfFile ==
    ASSUME NEW t \in Transfers, NEW file \in File, EndsWith(file, t, Size[t])
    PROVE  IsSuffix(Chunks(t), file)
  <1> DEFINE c == Reverse(Chunks(t))
             f == Reverse(file)
  <1>1. /\ Len(Chunks(t)) = Size[t] /\ Size[t] \in Nat \ {0}
        /\ Chunks(t) \in File
        /\ \A i \in 1..Size[t] : Chunks(t)[i] = <<t, i>>
    BY ChunksType, TransfersAssumption
  <1>2. Len(file) \in Nat /\ Len(file) >= Size[t]
    BY LenProperties DEF EndsWith, File
  <1>3. /\ c \in Seq(Chunk) /\ Len(c) = Size[t]
        /\ \A i \in 1..Size[t] : c[i] = Chunks(t)[Size[t] - i + 1]
    BY <1>1, ReverseProperties DEF File
  <1>4. /\ f \in Seq(Chunk) /\ Len(f) = Len(file)
        /\ \A i \in 1..Len(file) : f[i] = file[Len(file) - i + 1]
    BY ReverseProperties DEF File
  <1>5. \A i \in 1..Size[t] : c[i] = f[i]
    <2> SUFFICES ASSUME NEW i \in 1..Size[t] PROVE c[i] = f[i]
      OBVIOUS
    <2>1. Size[t] - i + 1 \in 1..Size[t] /\ i \in 1..Len(file)
      BY <1>1, <1>2
    <2>2. c[i] = <<t, Size[t] - i + 1>>
      BY <1>1, <1>3, <2>1
    <2>3. Len(file) - Size[t] + (Size[t] - i + 1) = Len(file) - i + 1
      BY <1>1, <1>2
    <2>4. file[Len(file) - i + 1] = <<t, Size[t] - i + 1>>
      BY <2>1, <2>3 DEF EndsWith
    <2>5. QED
      BY <1>4, <2>1, <2>2, <2>4
  <1> HIDE DEF c, f
  <1>6. SubSeq(c, 1, Len(c)) = SubSeq(f, 1, Len(c))
    <2>1. /\ \A i \in 1..Size[t] : c[i] \in Chunk /\ f[i] \in Chunk
      BY <1>2, <1>3, <1>4, <1>5, ElementOfSeq
    <2>2. /\ SubSeq(c, 1, Size[t]) \in Seq(Chunk) /\ Len(SubSeq(c, 1, Size[t])) = Size[t]
          /\ \A i \in 1..Size[t] : SubSeq(c, 1, Size[t])[i] = c[i]
      BY <1>1, <2>1, SubSeqProperties
    <2>3. /\ SubSeq(f, 1, Size[t]) \in Seq(Chunk) /\ Len(SubSeq(f, 1, Size[t])) = Size[t]
          /\ \A i \in 1..Size[t] : SubSeq(f, 1, Size[t])[i] = f[i]
      BY <1>1, <2>1, SubSeqProperties
    <2>4. SubSeq(c, 1, Size[t]) = SubSeq(f, 1, Size[t])
      BY <1>5, <2>2, <2>3, SeqEqual
    <2>5. QED
      BY <1>3, <2>4
  <1>7. IsPrefix(c, f)
    BY <1>2, <1>3, <1>4, <1>6 DEF IsPrefix
  <1>8. QED
    BY <1>7 DEF IsSuffix, c, f

LEMMA NextReports ==
    ASSUME TypeOK, OrderInv, ReportsAreWhole, [Next]_vars
    PROVE  ReportsAreWhole'
  <1>1. CASE ~AgentHears
    <2>1. cut \subseteq cut' /\ reports' = reports
      BY <1>1 DEF Next, vars, panel, agent, StartsSending, Retrieves, SendsChunks, PanelHears,
                  GetSends, GetFails, OperatorDrops, OperatorReturns, AgentDrops,
                  AgentReturns, Cut
    <2>2. QED
      BY <2>1 DEF ReportsAreWhole, EndsWith
  <1>2. CASE AgentHears
    <2> DEFINE m == Head(wire)
               report == <<m[1], Append(Opened, m)>>
    <2>1. cut \subseteq cut'
      BY <1>2 DEF AgentHears, PutWrites, PutFails
    <2>2. \/ reports' = reports
          \/ /\ reports' = reports \cup {report}
             /\ cut' = cut /\ m[1] \notin Gets /\ Final(m)
      BY <1>2 DEF AgentHears, PutWrites, PutFails, Opened
    <2>3. ASSUME m[1] \notin Gets, Final(m)
          PROVE  /\ m[1] \notin cut => EndsWith(Append(Opened, m), m[1], Size[m[1]])
                 /\ cut = {} => Append(Opened, m) = Chunks(m[1])
      <3>1. wire # <<>> /\ m[1] \in Puts
        BY <1>2, <2>3, HeadTailProperties, ChunkType DEF AgentHears, TypeOK, File, Transfers
      <3>2. m[2] = Size[m[1]]
        BY <2>3 DEF Final
      <3>3. QED
        BY <3>1, <3>2, HeadIsWritten DEF Chunks
    <2>4. \A r \in reports :
            /\ r[1] \notin cut' => EndsWith(r[2], r[1], Size[r[1]])
            /\ cut' = {} => r[2] = Chunks(r[1])
      BY <2>1 DEF ReportsAreWhole
    <2>5. report[1] = m[1] /\ report[2] = Append(Opened, m)
      OBVIOUS
    <2>6. \A r \in reports' :
            /\ r[1] \notin cut' => EndsWith(r[2], r[1], Size[r[1]])
            /\ cut' = {} => r[2] = Chunks(r[1])
      BY <2>2, <2>3, <2>4, <2>5
    <2>7. QED
      BY <2>6 DEF ReportsAreWhole, EndsWith
  <1>3. QED
    BY <1>1, <1>2

FileInv == TypeOK /\ OrderInv /\ ReportsAreWhole

LEMMA FileInvariant == Spec => []FileInv
  <1>1. Init => FileInv
    BY InitType, InitOrder DEF Init, FileInv, ReportsAreWhole
  <1>2. FileInv /\ [Next]_vars => FileInv'
    BY NextType, NextOrder, NextReports DEF FileInv
  <1>3. QED
    BY <1>1, <1>2, PTL DEF Spec

(* A file the agent reports as received ends with the whole of its          *)
(* transfer unless something failed under it, and is exactly that transfer  *)
(* while nothing has failed at all (session.py:422-440): the queue keeps    *)
(* the order of the chunks, whatever is lost at its ends.                   *)
THEOREM ReceivedWhole == Spec => []ReceivedIsWhole
  <1>1. FileInv => ReceivedIsWhole
    <2> SUFFICES ASSUME FileInv, NEW r \in reports
                 PROVE  /\ r[1] \notin cut => IsSuffix(Chunks(r[1]), r[2])
                        /\ cut = {} => r[2] = Chunks(r[1])
      BY DEF ReceivedIsWhole
    <2>1. r[1] \in Transfers /\ r[2] \in File
      BY DEF FileInv, TypeOK, Transfers
    <2>2. QED
      BY <2>1, SuffixOfFile DEF FileInv, ReportsAreWhole
  <1>2. QED
    BY <1>1, FileInvariant, PTL

-----------------------------------------------------------------------------
(* What is left on the endpoint.                                           *)

(* Whatever was interrupted, a file on the endpoint is being written or was *)
(* reported, unless an abort could not remove it or the agent died with it  *)
(* open (files.py:99, session.py:368); and no upload is ever written after  *)
(* what such an end left: the next one starts the file anew.                *)
THEOREM NothingLeftOver == Spec => []NoLeftovers
  <1>1. Init => NoLeftovers
    BY DEF Init, NoLeftovers
  <1>2. NoLeftovers /\ [Next]_vars => NoLeftovers'
    <2> SUFFICES ASSUME NoLeftovers, [Next]_vars PROVE NoLeftovers'
      OBVIOUS
    <2> USE DEF NoLeftovers
    <2>1. CASE AgentHears
      <3>1. CASE PutWrites(Head(wire))
        <4> DEFINE report == <<Head(wire)[1], Append(Opened, Head(wire))>>
        <4>1. /\ disk' = Append(Opened, Head(wire)) /\ left' = FALSE
              /\ disk' = upload' \/ report \in reports'
          BY <3>1 DEF PutWrites, Opened
        <4>2. report[2] = Append(Opened, Head(wire))
          OBVIOUS
        <4>3. QED
          BY <4>1, <4>2
      <3>2. CASE PutFails(Head(wire))
        BY <3>2 DEF PutFails, Removed, LeftWith
      <3>3. CASE ~PutWrites(Head(wire)) /\ ~PutFails(Head(wire))
        BY <2>1, <3>3 DEF AgentHears
      <3>4. QED
        BY <3>1, <3>2, <3>3
    <2>2. CASE AgentDrops
      BY <2>2 DEF AgentDrops, ClosesUploads, LosesUploads, Removed, LeftWith
    <2>3. CASE ~AgentHears /\ ~AgentDrops
      BY <2>3 DEF Next, vars, panel, agent, StartsSending, Retrieves, SendsChunks, PanelHears,
                  GetSends, GetFails, OperatorDrops, OperatorReturns, AgentReturns
    <2>4. QED
      BY <2>1, <2>2, <2>3
  <1>3. QED
    BY <1>1, <1>2, PTL DEF Spec
=============================================================================
