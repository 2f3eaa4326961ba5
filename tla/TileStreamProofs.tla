--------------------------- MODULE TileStreamProofs ---------------------------
(***************************************************************************)
(* Proofs about TileStream for any sizes, number of colours and bounds, and *)
(* that it implements PictureChannel.                                      *)
(***************************************************************************)
EXTENDS TileStream, TLAPS, SequenceTheorems, FiniteSetTheorems, WellFoundedInduction

-----------------------------------------------------------------------------
(* The inductive invariant.                                                *)

(* What a picture and the first k frames add up to, one after the other.    *)
(* Added is such a function for the link if there is one; that there is one *)
(* is part of the invariant, and all else is said of every such function.   *)
AddsUp(s, picture, frames, k) ==
    /\ s = [n \in 0..k |-> s[n]]
    /\ s[0] = picture
    /\ \A n \in 1..k : s[n] = Patched(s[n - 1], frames[n])
IsSum(s) == AddsUp(s, seen, link, Len(link))
SumExists == \E s : IsSum(s)

\* The agent's loop takes a frame only while it streams; a frame that is sent as
\* tiles is of the size of the one it was compared with.
Compared == job # Nothing /\ ~job.must
JobWhileStreaming == job # Nothing => streaming
ComparedIsAlike == Compared => previous # Nothing /\ Len(job.image) = Len(previous)

\* Nothing is under way to a console that is not there.
ClosedLinkIsEmpty == ~open => link = <<>>

\* FramesAddUp, up to the moment the frame that was compared is sent.
SumIsPrevious ==
    attached /\ streaming /\ linked /\ (~force \/ Compared) =>
        \A s : IsSum(s) => s[Len(link)] \in {Nothing, previous}

\* No tile frame meets a picture of another size.
TilesFit ==
    \A n \in 1..Len(link) :
        \/ link[n].kind = "key"
        \/ \A s : AddsUp(s, seen, link, n - 1) =>
              s[n - 1] = Nothing \/ Len(s[n - 1]) = Len(link[n].tiles)

StreamInv ==
    /\ SumExists
    /\ JobWhileStreaming /\ ComparedIsAlike
    /\ ClosedLinkIsEmpty
    /\ SumIsPrevious
    /\ TilesFit

\* What is decoded alone will make the canvas what the frames add up to.
CanvasInv ==
    ~muddled =>
        IF decoding = <<>> THEN primed => canvas = seen
        ELSE /\ Len(decoding) = 1
             /\ Len(canvas) = Len(decoding[1].tiles)
             /\ decoding[1].kind = "key" \/ primed
             /\ seen = Patched(canvas, decoding[1])

-----------------------------------------------------------------------------
(* Pictures and frames.                                                    *)

LEMMA LenOfFunction ==
    ASSUME NEW S, NEW n \in Nat, NEW f \in [1..n -> S]
    PROVE  f \in Seq(S) /\ Len(f) = n
  OBVIOUS

LEMMA PictureProperties ==
    /\ \A p \in Pictures : /\ Len(p) \in Sizes /\ Len(p) \in Nat \ {0} /\ p # Nothing
                           /\ DOMAIN p = 1..Len(p)
                           /\ \A i \in 1..Len(p) : p[i] \in 1..Colours
                           /\ p \in [1..Len(p) -> 1..Colours]
    /\ \A n \in Sizes : [1..n -> 1..Colours] \subseteq Pictures
  <1> USE SizesAssumption
  <1>1. ASSUME NEW p \in Pictures
        PROVE  /\ Len(p) \in Sizes /\ Len(p) \in Nat \ {0} /\ p # Nothing
               /\ DOMAIN p = 1..Len(p)
               /\ \A i \in 1..Len(p) : p[i] \in 1..Colours
               /\ p \in [1..Len(p) -> 1..Colours]
    <2>1. PICK n \in Sizes : p \in [1..n -> 1..Colours]
      BY DEF Pictures
    <2>2. n \in Nat \ {0}
      OBVIOUS
    <2>3. p \in Seq(1..Colours) /\ Len(p) = n
      BY <2>1, <2>2
    <2>4. p # Nothing
      BY <2>2, <2>3, EmptySeq DEF Nothing
    <2>5. QED
      BY <2>1, <2>2, <2>3, <2>4
  <1>2. \A n \in Sizes : [1..n -> 1..Colours] \subseteq Pictures
    BY DEF Pictures
  <1>3. QED
    BY <1>1, <1>2

LEMMA CanvasProperties ==
    /\ \A c \in Canvases : /\ Len(c) \in Sizes \cup {0} /\ Len(c) \in Nat
                           /\ DOMAIN c = 1..Len(c)
                           /\ \A i \in 1..Len(c) : c[i] \in 0..Colours
                           /\ c \in [1..Len(c) -> 0..Colours]
                           /\ Len(c) = 0 => c = Nothing
    /\ \A n \in Sizes \cup {0} : [1..n -> 0..Colours] \subseteq Canvases
    /\ Pictures \subseteq Canvases
    /\ Nothing \in Canvases /\ Len(Nothing) = 0
  <1> USE SizesAssumption
  <1>1. ASSUME NEW c \in Canvases
        PROVE  /\ Len(c) \in Sizes \cup {0} /\ Len(c) \in Nat
               /\ DOMAIN c = 1..Len(c)
               /\ \A i \in 1..Len(c) : c[i] \in 0..Colours
               /\ c \in [1..Len(c) -> 0..Colours]
               /\ Len(c) = 0 => c = Nothing
    <2>1. PICK n \in Sizes \cup {0} : c \in [1..n -> 0..Colours]
      <3>1. Nothing \in [1..0 -> 0..Colours]
        BY EmptySeq, LenProperties DEF Nothing
      <3>2. QED
        BY <3>1 DEF Canvases
    <2>2. n \in Nat
      OBVIOUS
    <2>3. c \in Seq(0..Colours) /\ Len(c) = n
      BY <2>1, <2>2
    <2>4. n = 0 => c = Nothing
      BY <2>3, EmptySeq DEF Nothing
    <2>5. QED
      BY <2>1, <2>2, <2>3, <2>4
  <1>2. ASSUME NEW n \in Sizes \cup {0}, NEW c \in [1..n -> 0..Colours]
        PROVE  c \in Canvases
    <2>1. CASE n \in Sizes
      BY <2>1 DEF Canvases
    <2>2. CASE n = 0
      <3>1. c \in Seq(0..Colours) /\ Len(c) = 0
        BY <2>2
      <3>2. c = Nothing
        BY <3>1, EmptySeq DEF Nothing
      <3>3. QED
        BY <3>2 DEF Canvases
    <2>3. QED
      BY <2>1, <2>2
  <1>3. Pictures \subseteq Canvases
    <2> SUFFICES ASSUME NEW p \in Pictures PROVE p \in Canvases
      OBVIOUS
    <2>1. p \in [1..Len(p) -> 0..Colours] /\ Len(p) \in Sizes
      BY PictureProperties
    <2>2. QED
      BY <1>2, <2>1
  <1>4. Nothing \in Canvases /\ Len(Nothing) = 0
    BY EmptySeq DEF Canvases, Nothing
  <1>5. QED
    BY <1>1, <1>2, <1>3, <1>4

LEMMA PayloadProperties ==
    ASSUME NEW p \in Payloads
    PROVE  /\ p.tiles \in Canvases
           /\ p.kind = "key" \/ p.kind = "tiles"
           /\ p.kind = "key" => p.tiles \in Pictures
  BY CanvasProperties DEF Payloads

LEMMA PatchedType ==
    ASSUME NEW old \in Pictures \cup {Nothing}, NEW p \in Payloads
    PROVE  Patched(old, p) \in Pictures \cup {Nothing}
  <1>1. CASE p.kind = "key"
    BY <1>1, PayloadProperties DEF Patched
  <1>2. CASE p.kind # "key" /\ Len(old) # Len(p.tiles)
    BY <1>2 DEF Patched
  <1>3. CASE p.kind # "key" /\ Len(old) = Len(p.tiles)
    <2> DEFINE new == [i \in 1..Len(old) |-> IF p.tiles[i] = 0 THEN old[i] ELSE p.tiles[i]]
    <2>1. Patched(old, p) = new
      BY <1>3 DEF Patched
    <2>2. CASE old \in Pictures
      <3>1. /\ Len(old) \in Sizes
            /\ \A i \in 1..Len(old) : old[i] \in 1..Colours /\ p.tiles[i] \in 0..Colours
        BY <1>3, <2>2, PictureProperties, PayloadProperties, CanvasProperties
      <3>2. \A i \in 1..Len(old) : p.tiles[i] # 0 => p.tiles[i] \in 1..Colours
        BY <3>1, SizesAssumption
      <3>3. new \in [1..Len(old) -> 1..Colours]
        BY <3>1, <3>2
      <3>4. QED
        BY <2>1, <3>1, <3>3, PictureProperties
    <2>3. CASE old = Nothing
      <3>1. Len(old) = 0
        BY <2>3, CanvasProperties
      <3>2. new \in Seq(Nat) /\ Len(new) = 0
        BY <3>1
      <3>3. new = Nothing
        BY <3>2, EmptySeq DEF Nothing
      <3>4. QED
        BY <2>1, <3>3
    <2>4. QED
      BY <2>2, <2>3
  <1>4. QED
    BY <1>1, <1>2, <1>3

LEMMA ChangedType ==
    ASSUME NEW image \in Pictures
    PROVE  /\ Changed(image) \in Canvases
           /\ Len(Changed(image)) = Len(image)
           /\ \A i \in 1..Len(image) :
                 Changed(image)[i] = IF image[i] = previous[i] THEN 0 ELSE image[i]
  <1>1. Len(image) \in Sizes /\ Len(image) \in Nat
    BY PictureProperties
  <1>2. Changed(image) \in [1..Len(image) -> 0..Colours]
    BY PictureProperties, SizesAssumption DEF Changed
  <1>3. Changed(image) \in Canvases
    BY <1>1, <1>2, CanvasProperties
  <1>4. Len(Changed(image)) = Len(image)
    BY <1>1, <1>2, CanvasProperties
  <1>5. QED
    BY <1>3, <1>4 DEF Changed

\* Patching a picture with what changed since it gives the frame.
LEMMA PatchedWithChanged ==
    ASSUME NEW image \in Pictures, previous \in Pictures, Len(image) = Len(previous),
           NEW p, p.kind # "key", p.tiles = Changed(image)
    PROVE  Patched(previous, p) = image
  <1>1. /\ Len(image) \in Nat /\ image \in [1..Len(image) -> 1..Colours]
        /\ \A i \in 1..Len(image) : image[i] # 0
    BY PictureProperties, SizesAssumption
  <1>2. Patched(previous, p)
          = [i \in 1..Len(image) |->
               IF Changed(image)[i] = 0 THEN previous[i] ELSE Changed(image)[i]]
    BY ChangedType DEF Patched
  <1>3. \A i \in 1..Len(image) :
          (IF Changed(image)[i] = 0 THEN previous[i] ELSE Changed(image)[i]) = image[i]
    BY <1>1, ChangedType
  <1>4. image = [i \in 1..Len(image) |-> image[i]]
    BY <1>1
  <1>5. QED
    BY <1>2, <1>3, <1>4

LEMMA NoTilesAreZero ==
    ASSUME NEW tiles \in Canvases, ~(Count(tiles) > 0)
    PROVE  \A i \in 1..Len(tiles) : tiles[i] = 0
  <1> DEFINE drawn == {i \in DOMAIN tiles : tiles[i] # 0}
  <1>1. Len(tiles) \in Nat /\ DOMAIN tiles = 1..Len(tiles)
    BY CanvasProperties
  <1>2. IsFiniteSet(drawn)
    <2>1. IsFiniteSet(1..Len(tiles))
      BY <1>1, FS_Interval
    <2>2. drawn \subseteq 1..Len(tiles)
      BY <1>1
    <2>3. QED
      BY <2>1, <2>2, FS_Subset
  <1>3. Cardinality(drawn) \in Nat /\ Cardinality(drawn) = Count(tiles)
    BY <1>2, FS_CardinalityType DEF Count
  <1>4. Cardinality(drawn) = 0
    BY <1>3
  <1>5. drawn = {}
    BY <1>2, <1>4, FS_EmptySet
  <1>6. QED
    BY <1>1, <1>5

LEMMA DrawnProperties ==
    ASSUME NEW tiles \in Canvases, canvas \in Canvases
    PROVE  /\ Drawn(tiles) \in Canvases
           /\ Len(Drawn(tiles)) = Len(canvas)
  <1>1. /\ Len(canvas) \in Sizes \cup {0} /\ Len(canvas) \in Nat /\ Len(tiles) \in Nat
        /\ \A i \in 1..Len(canvas) : canvas[i] \in 0..Colours
        /\ \A i \in 1..Len(tiles) : tiles[i] \in 0..Colours
    BY CanvasProperties
  <1>2. Drawn(tiles) \in [1..Len(canvas) -> 0..Colours]
    BY <1>1 DEF Drawn
  <1>3. Drawn(tiles) \in Seq(0..Colours) /\ Len(Drawn(tiles)) = Len(canvas)
    BY <1>1, <1>2, LenOfFunction
  <1>4. QED
    BY <1>1, <1>2, <1>3, CanvasProperties

\* A keyframe that fits the canvas covers it; tiles on a canvas that is the
\* picture patch it.
LEMMA DrawnIsPatched ==
    ASSUME NEW p \in Payloads, canvas \in Canvases, Len(canvas) = Len(p.tiles)
    PROVE  Drawn(p.tiles) = Patched(canvas, p)
  <1>1. /\ Len(canvas) \in Nat /\ p.tiles \in [1..Len(canvas) -> 0..Colours]
    BY PayloadProperties, CanvasProperties
  <1>2. p.kind = "key" => \A i \in 1..Len(canvas) : p.tiles[i] # 0
    BY PayloadProperties, PictureProperties, SizesAssumption
  <1>3. p.tiles = [i \in 1..Len(canvas) |-> p.tiles[i]]
    BY <1>1
  <1>4. p.kind = "key" => Drawn(p.tiles) = [i \in 1..Len(canvas) |-> p.tiles[i]]
    BY <1>1, <1>2 DEF Drawn
  <1>5. p.kind # "key" => Drawn(p.tiles) = Patched(canvas, p)
    BY <1>1 DEF Drawn, Patched
  <1>6. p.kind = "key" => Patched(canvas, p) = p.tiles
    BY DEF Patched
  <1>7. QED
    BY <1>3, <1>4, <1>5, <1>6

-----------------------------------------------------------------------------
(* Types.                                                                  *)

\* What is taken out of the frames being decoded.
LEMMA Removed ==
    ASSUME NEW s \in Seq(Payloads), NEW i \in 1..Len(s)
    PROVE  RemoveAt(s, i) \in Seq(Payloads) /\ Len(RemoveAt(s, i)) = Len(s) - 1
  <1> DEFINE before == SubSeq(s, 1, i - 1)
             after == SubSeq(s, i + 1, Len(s))
  <1>1. Len(s) \in Nat /\ \A n \in 1..Len(s) : s[n] \in Payloads
    BY LenProperties, ElementOfSeq
  <1>2. before \in Seq(Payloads) /\ Len(before) = i - 1
    <2>1. /\ 1 \in Int /\ i - 1 \in Int
          /\ \A n \in 1..i - 1 : s[n] \in Payloads
      BY <1>1
    <2>2. /\ before \in Seq(Payloads)
          /\ Len(before) = IF 1 <= i - 1 THEN (i - 1) - 1 + 1 ELSE 0
      BY <2>1, SubSeqProperties
    <2>3. QED
      BY <1>1, <2>2
  <1>3. after \in Seq(Payloads) /\ Len(after) = Len(s) - i
    <2>1. /\ i + 1 \in Int /\ Len(s) \in Int
          /\ \A n \in i + 1..Len(s) : s[n] \in Payloads
      BY <1>1
    <2>2. /\ after \in Seq(Payloads)
          /\ Len(after) = IF i + 1 <= Len(s) THEN Len(s) - (i + 1) + 1 ELSE 0
      BY <2>1, SubSeqProperties
    <2>3. QED
      BY <1>1, <2>2
  <1>4. RemoveAt(s, i) = before \o after
    BY DEF RemoveAt
  <1> HIDE DEF before, after
  <1>5. before \o after \in Seq(Payloads) /\ Len(before \o after) = Len(before) + Len(after)
    BY <1>2, <1>3, ConcatProperties
  <1>6. Len(before) + Len(after) = Len(s) - 1
    BY <1>1, <1>2, <1>3
  <1>7. QED
    BY <1>4, <1>5, <1>6

LEMMA InitType == Init => TypeOK
  <1> SUFFICES ASSUME Init PROVE TypeOK
    OBVIOUS
  <1> USE SizesAssumption, BoundsAssumption DEF Init, TypeOK
  <1>1. screen \in Pictures
    BY PictureProperties
  <1>2. link \in Seq(Payloads) /\ Len(link) <= Depth
    BY EmptySeq
  <1>3. decoding \in Seq(Payloads) /\ Len(decoding) <= Decodings
    BY EmptySeq
  <1>4. canvas \in Canvases
    BY CanvasProperties
  <1>5. changes \in 0..Changes /\ mishaps \in 0..Mishaps
    OBVIOUS
  <1>6. /\ open \in BOOLEAN /\ attached \in BOOLEAN /\ asking \in BOOLEAN /\ stuck \in BOOLEAN
        /\ (attached \/ asking => open)
    BY Zenon
  <1>7. QED
    BY <1>1, <1>2, <1>3, <1>4, <1>5, <1>6, Zenon

(* The type invariant in parts, each of which an action leaves alone or not. *)
WorldOK == screen \in Pictures /\ changes \in 0..Changes
MishapsOK == mishaps \in 0..Mishaps
AgentOK ==
    /\ streaming \in BOOLEAN /\ linked \in BOOLEAN
    /\ force \in BOOLEAN /\ stale \in BOOLEAN
    /\ previous \in Pictures \cup {Nothing}
    /\ job \in {Nothing} \cup [image : Pictures, must : BOOLEAN]
ConsoleOK ==
    /\ open \in BOOLEAN /\ attached \in BOOLEAN
    /\ asking \in BOOLEAN /\ stuck \in BOOLEAN
    /\ attached \/ asking => open
LinkOK == link \in Seq(Payloads) /\ Len(link) <= Depth
CanvasOK ==
    /\ canvas \in Canvases /\ primed \in BOOLEAN
    /\ decoding \in Seq(Payloads) /\ Len(decoding) <= Decodings
SeenOK == seen \in Pictures \cup {Nothing} /\ muddled \in BOOLEAN
AskedOK == asked \in BOOLEAN

LEMMA TypeParts ==
    /\ TypeOK <=> /\ WorldOK /\ MishapsOK /\ AgentOK /\ ConsoleOK
                  /\ LinkOK /\ CanvasOK /\ SeenOK /\ AskedOK
    /\ TypeOK' <=> /\ WorldOK' /\ MishapsOK' /\ AgentOK' /\ ConsoleOK'
                   /\ LinkOK' /\ CanvasOK' /\ SeenOK' /\ AskedOK'
  BY Zenon DEF TypeOK, WorldOK, MishapsOK, AgentOK, ConsoleOK, LinkOK, CanvasOK, SeenOK, AskedOK

LEMMA TypeKept ==
    ASSUME TypeOK
    PROVE  /\ UNCHANGED world => WorldOK'
           /\ UNCHANGED mishaps => MishapsOK'
           /\ mishaps < Mishaps /\ mishaps' = mishaps + 1 => MishapsOK'
           /\ UNCHANGED agent => AgentOK'
           /\ UNCHANGED console => ConsoleOK'
           /\ UNCHANGED link => LinkOK'
           /\ UNCHANGED <<canvas, primed, decoding>> => CanvasOK'
           /\ UNCHANGED <<seen, muddled>> => SeenOK'
           /\ UNCHANGED asked => AskedOK'
           /\ asked' \in {FALSE, linked} => AskedOK'
  <1>1. /\ WorldOK /\ MishapsOK /\ AgentOK /\ ConsoleOK /\ LinkOK /\ CanvasOK /\ SeenOK
        /\ AskedOK
    BY TypeParts
  <1>2. UNCHANGED world => WorldOK'
    BY <1>1 DEF world, WorldOK
  <1>3. /\ UNCHANGED mishaps => MishapsOK'
        /\ mishaps < Mishaps /\ mishaps' = mishaps + 1 => MishapsOK'
    BY <1>1, BoundsAssumption DEF MishapsOK
  <1>4. UNCHANGED agent => AgentOK'
    BY <1>1 DEF agent, encoder, AgentOK
  <1>5. UNCHANGED console => ConsoleOK'
    BY <1>1 DEF console, ConsoleOK
  <1>6. UNCHANGED link => LinkOK'
    BY <1>1 DEF LinkOK
  <1>7. UNCHANGED <<canvas, primed, decoding>> => CanvasOK'
    BY <1>1 DEF CanvasOK
  <1>8. UNCHANGED <<seen, muddled>> => SeenOK'
    BY <1>1 DEF SeenOK
  <1>9. (UNCHANGED asked => AskedOK') /\ (asked' \in {FALSE, linked} => AskedOK')
    BY <1>1 DEF AskedOK, AgentOK
  <1>10. QED
    BY <1>2, <1>3, <1>4, <1>5, <1>6, <1>7, <1>8, <1>9

LEMMA NextType == TypeOK /\ [Next]_vars => TypeOK'
  <1> SUFFICES ASSUME TypeOK, [Next]_vars PROVE TypeOK'
    OBVIOUS
  <1> USE BoundsAssumption
  <1>0. /\ screen \in Pictures /\ changes \in 0..Changes
        /\ streaming \in BOOLEAN /\ linked \in BOOLEAN /\ force \in BOOLEAN /\ stale \in BOOLEAN
        /\ previous \in Pictures \cup {Nothing}
        /\ job \in {Nothing} \cup [image : Pictures, must : BOOLEAN]
        /\ link \in Seq(Payloads) /\ Len(link) <= Depth
        /\ canvas \in Canvases /\ primed \in BOOLEAN
        /\ decoding \in Seq(Payloads) /\ Len(decoding) <= Decodings
        /\ seen \in Pictures \cup {Nothing} /\ muddled \in BOOLEAN
    BY Zenon DEF TypeOK
  <1>1. CASE ScreenChanges
    <2>1. WorldOK'
      BY <1>0, <1>1 DEF ScreenChanges, WorldOK
    <2>2. QED
      BY <1>1, <2>1, TypeParts, TypeKept DEF ScreenChanges, assembler
  <1>2. CASE Ages \/ StreamBegins \/ AgentHears
    <2>1. AgentOK' /\ asked' \in {asked, FALSE}
      BY <1>0, <1>2 DEF Ages, StreamBegins, AgentHears, AgentOK
    <2>2. QED
      BY <1>2, <2>1, TypeParts, TypeKept DEF Ages, StreamBegins, AgentHears, assembler
  <1>3. CASE Grabs
    <2>1. MustKey(screen) \in BOOLEAN
      BY <1>0 DEF MustKey, Full
    <2>2. AgentOK'
      BY <1>0, <1>3, <2>1 DEF Grabs, AgentOK
    <2>3. QED
      BY <1>3, <2>2, TypeParts, TypeKept DEF Grabs, assembler
  <1>4. CASE Sends
    <2>1. job \in [image : Pictures, must : BOOLEAN]
      BY <1>0, <1>4 DEF Sends
    <2>2. Payload \in Payloads
      BY <2>1, ChangedType DEF Payload, Keyframe, Payloads
    <2>3. link' \in Seq(Payloads) /\ Len(link') <= Depth
      <3>1. /\ Append(link, Payload) \in Seq(Payloads) /\ Len(link) \in Nat
            /\ Len(Append(link, Payload)) = Len(link) + 1
        BY <1>0, <2>2, AppendProperties, LenProperties
      <3>2. CASE linked /\ attached
        <4>1. Len(link) < Depth /\ link' = Append(link, Payload)
          BY <1>4, <3>2 DEF Sends
        <4>2. QED
          BY <1>0, <3>1, <4>1
      <3>3. CASE ~(linked /\ attached)
        BY <1>0, <1>4, <3>3 DEF Sends
      <3>4. QED
        BY <3>2, <3>3
    <2>4. previous' \in Pictures /\ force' \in BOOLEAN /\ stale' \in BOOLEAN
      BY <1>0, <1>4, <2>1 DEF Sends, Encoded
    <2>5. AgentOK'
      BY <1>0, <1>4, <2>4 DEF Sends, AgentOK
    <2>6. LinkOK'
      BY <2>3 DEF LinkOK
    <2>7. QED
      BY <1>4, <2>5, <2>6, TypeParts, TypeKept DEF Sends, assembler
  <1>5. CASE AgentDrops
    <2>1. PICK n \in 0..Len(link) : link' = SubSeq(link, 1, n)
      BY <1>5 DEF AgentDrops
    <2>2. Len(link) \in Nat /\ \A i \in 1..n : link[i] \in Payloads
      BY <1>0, LenProperties, ElementOfSeq
    <2>3. link' \in Seq(Payloads) /\ Len(link') <= Depth
      <3>1. link' \in Seq(Payloads) /\ Len(link') = IF 1 <= n THEN n - 1 + 1 ELSE 0
        BY <2>1, <2>2, SubSeqProperties
      <3>2. QED
        BY <1>0, <2>2, <3>1
    <2>4. AgentOK' /\ asked' = FALSE
      BY <1>0, <1>5 DEF AgentDrops, encoder, AgentOK
    <2>5. LinkOK'
      BY <2>3 DEF LinkOK
    <2>6. QED
      BY <1>5, <2>4, <2>5, TypeParts, TypeKept DEF AgentDrops, assembler
  <1>6. CASE Attaches
    <2>1. ConsoleOK'
      <3>1. stuck \in BOOLEAN
        BY DEF TypeOK
      <3>2. open' = TRUE /\ attached' = TRUE /\ asking' = TRUE /\ stuck' = stuck
        BY <1>6 DEF Attaches
      <3>3. QED
        BY <3>1, <3>2, Zenon DEF ConsoleOK
    <2>2. CanvasOK'
      BY <1>0, <1>6 DEF Attaches, CanvasOK
    <2>3. SeenOK'
      BY <1>6 DEF Attaches, SeenOK
    <2>4. QED
      BY <1>6, <2>1, <2>2, <2>3, TypeParts, TypeKept DEF Attaches
  <1>7. CASE Asks \/ Evicts
    <2>1. ConsoleOK'
      <3>1. ConsoleOK
        BY TypeParts
      <3>2. /\ open' = open
            /\ attached' = FALSE \/ attached' = attached
            /\ asking' = FALSE \/ asking' = asking
            /\ stuck' = FALSE \/ stuck' = stuck
        BY <1>7 DEF Asks, Evicts
      <3>3. open' \in BOOLEAN /\ attached' \in BOOLEAN /\ asking' \in BOOLEAN /\ stuck' \in BOOLEAN
        BY <3>1, <3>2 DEF ConsoleOK
      <3>4. attached' \/ asking' => open'
        BY <3>1, <3>2 DEF ConsoleOK
      <3>5. QED
        BY <3>3, <3>4 DEF ConsoleOK
    <2>2. asked' \in {asked, linked}
      BY <1>7 DEF Asks, Evicts
    <2>3. QED
      BY <1>7, <2>1, <2>2, TypeParts, TypeKept DEF Asks, Evicts, assembler
  <1>8. CASE ConsoleDrops
    <2>1. LinkOK'
      BY <1>8, EmptySeq DEF ConsoleDrops, LinkOK
    <2>2. ConsoleOK'
      <3>1. attached \in BOOLEAN /\ stuck \in BOOLEAN
        BY DEF TypeOK
      <3>2. /\ open' = FALSE /\ attached' = FALSE /\ asking' = FALSE
            /\ stuck' = stuck \/ stuck' = (stuck \/ attached)
        BY <1>8 DEF ConsoleDrops
      <3>3. (stuck \/ attached) \in BOOLEAN
        OBVIOUS
      <3>4. stuck' \in BOOLEAN
        BY <3>1, <3>2, <3>3
      <3>5. QED
        BY <3>2, <3>4 DEF ConsoleOK
    <2>3. QED
      BY <1>8, <2>1, <2>2, TypeParts, TypeKept DEF ConsoleDrops, assembler
  <1>9. CASE Arrives
    <2> DEFINE payload == Head(link)
    <2>1. payload \in Payloads /\ Tail(link) \in Seq(Payloads) /\ Len(Tail(link)) = Len(link) - 1
      BY <1>0, <1>9, HeadTailProperties DEF Arrives
    <2>2. canvas' \in Canvases /\ primed' \in BOOLEAN
      <3>1. payload.tiles \in Canvases
        BY <2>1, PayloadProperties
      <3>2. Same(Len(payload.tiles)) \in Canvases
        <4>1. Len(payload.tiles) \in Sizes \cup {0}
          BY <3>1, CanvasProperties
        <4>2. Same(Len(payload.tiles)) \in [1..Len(payload.tiles) -> 0..Colours]
          BY SizesAssumption DEF Same
        <4>3. QED
          BY <4>1, <4>2, CanvasProperties
      <3>3. QED
        BY <1>0, <1>9, <3>2 DEF Arrives, Ensures
    <2>3. decoding' \in Seq(Payloads) /\ Len(decoding') <= Decodings
      <3>1. /\ Append(decoding, payload) \in Seq(Payloads) /\ Len(decoding) \in Nat
            /\ Len(Append(decoding, payload)) = Len(decoding) + 1
        BY <1>0, <2>1, AppendProperties, LenProperties
      <3>2. Len(decoding) < Decodings /\ decoding' \in {decoding, Append(decoding, payload)}
        BY <1>0, <1>9 DEF Arrives
      <3>3. Len(decoding) + 1 <= Decodings
        BY <3>1, <3>2
      <3>4. CASE decoding' = decoding
        BY <1>0, <3>4
      <3>5. CASE decoding' = Append(decoding, payload)
        BY <3>1, <3>3, <3>5
      <3>6. QED
        BY <3>2, <3>4, <3>5
    <2>4. seen' \in Pictures \cup {Nothing}
      BY <1>0, <1>9, <2>1, PatchedType DEF Arrives
    <2>5. muddled' \in BOOLEAN
      BY <1>0, <1>9 DEF Arrives
    <2>6. link' \in Seq(Payloads) /\ Len(link') <= Depth
      <3>1. Len(link) \in Nat /\ link' = Tail(link)
        BY <1>0, <1>9, LenProperties DEF Arrives
      <3>2. QED
        BY <1>0, <2>1, <3>1
    <2>7. CanvasOK' /\ SeenOK' /\ LinkOK'
      BY <2>2, <2>3, <2>4, <2>5, <2>6 DEF CanvasOK, SeenOK, LinkOK
    <2>8. QED
      BY <1>9, <2>7, TypeParts, TypeKept DEF Arrives
  <1>10. ASSUME NEW i \in 1..Decodings, Draws(i) \/ DecodeFails(i) PROVE TypeOK'
    <2>1. i \in 1..Len(decoding) /\ decoding' = RemoveAt(decoding, i)
      BY <1>0, <1>10 DEF Draws, DecodeFails
    <2>2. decoding' \in Seq(Payloads) /\ Len(decoding') <= Decodings
      <3>1. /\ decoding' \in Seq(Payloads) /\ Len(decoding) \in Nat
            /\ Len(decoding') = Len(decoding) - 1
        BY <1>0, <2>1, Removed, LenProperties
      <3>2. QED
        BY <1>0, <3>1
    <2>3. canvas' \in Canvases
      <3>1. decoding[i].tiles \in Canvases
        BY <1>0, <2>1, ElementOfSeq, PayloadProperties
      <3>2. Drawn(decoding[i].tiles) \in Canvases
        BY <1>0, <3>1, DrawnProperties
      <3>3. QED
        BY <1>0, <1>10, <3>2 DEF Draws, DecodeFails
    <2>4. primed' \in BOOLEAN
      BY <1>0, <1>10 DEF Draws, DecodeFails
    <2>5. CanvasOK'
      BY <2>2, <2>3, <2>4 DEF CanvasOK
    <2>6. SeenOK'
      BY <1>0, <1>10 DEF Draws, DecodeFails, SeenOK
    <2>7. QED
      BY <1>10, <2>5, <2>6, TypeParts, TypeKept DEF Draws, DecodeFails
  <1>11. CASE UNCHANGED vars
    BY <1>11, TypeParts, TypeKept DEF vars, assembler
  <1>12. QED
    BY <1>1, <1>2, <1>3, <1>4, <1>5, <1>6, <1>7, <1>8, <1>9, <1>10, <1>11 DEF Next

(* Every reachable state is well typed: in particular what the frames that  *)
(* arrived add up to is a whole picture or nothing, never a patchwork with  *)
(* holes in it (tiles.py `encode`, frames.ts `apply`).                      *)
THEOREM TypeCorrect == Spec => []TypeOK
  BY InitType, NextType, PTL DEF Spec

-----------------------------------------------------------------------------
(* Sums over the frames under way, when a frame is added or taken off.     *)

\* The same as one function, in the form of Added.
IsAdded(s, picture, frames, k) ==
    s = [n \in 0..k |-> IF n = 0 THEN picture ELSE Patched(s[n - 1], frames[n])]
LEMMA SumAsFunction ==
    ASSUME NEW picture, NEW frames, NEW k \in Nat, NEW s
    PROVE  AddsUp(s, picture, frames, k) <=> IsAdded(s, picture, frames, k)
  <1> DEFINE F(n) == IF n = 0 THEN picture ELSE Patched(s[n - 1], frames[n])
  <1>1. ASSUME AddsUp(s, picture, frames, k) PROVE s = [n \in 0..k |-> F(n)]
    <2>1. \A n \in 0..k : s[n] = F(n)
      <3> TAKE n \in 0..k
      <3>1. n = 0 \/ n \in 1..k
        OBVIOUS
      <3>2. CASE n = 0
        BY <1>1, <3>2, Zenon DEF AddsUp
      <3>3. CASE n \in 1..k
        <4>1. n # 0
          BY <3>3
        <4>2. s[n] = Patched(s[n - 1], frames[n])
          BY <1>1, <3>3, Zenon DEF AddsUp
        <4>3. QED
          BY <4>1, <4>2, Zenon
      <3>4. QED
        BY <3>1, <3>2, <3>3
    <2>2. s = [n \in 0..k |-> s[n]]
      BY <1>1 DEF AddsUp
    <2>3. QED
      BY <2>1, <2>2, Zenon
  <1>2. ASSUME s = [n \in 0..k |-> F(n)] PROVE AddsUp(s, picture, frames, k)
    <2>1. \A n \in 0..k : s[n] = F(n)
      BY <1>2, Zenon
    <2>2. 0 \in 0..k /\ \A n \in 1..k : n \in 0..k /\ n # 0
      OBVIOUS
    <2>3. s[0] = picture /\ \A n \in 1..k : s[n] = Patched(s[n - 1], frames[n])
      BY <2>1, <2>2
    <2>4. s = [n \in 0..k |-> s[n]]
      BY <1>2, Zenon
    <2>5. QED
      BY <2>3, <2>4 DEF AddsUp
  <1>3. QED
    BY <1>1, <1>2, Zenon DEF IsAdded

LEMMA AddedIsSum ==
    ASSUME TypeOK, SumExists
    PROVE  IsSum(Added)
  <1>1. Len(link) \in Nat
    BY LenProperties DEF TypeOK
  <1>2. PICK s : AddsUp(s, seen, link, Len(link))
    BY DEF SumExists, IsSum
  <1>3. IsAdded(s, seen, link, Len(link))
    BY <1>1, <1>2, SumAsFunction
  <1>4. IsAdded(Added, seen, link, Len(link))
    BY <1>3, Zenon DEF IsAdded, Added
  <1>5. QED
    BY <1>1, <1>4, SumAsFunction DEF IsSum

LEMMA SumRestricted ==
    ASSUME NEW picture, NEW frames, NEW k \in Nat, NEW j \in 0..k, NEW s,
           AddsUp(s, picture, frames, k)
    PROVE  AddsUp([n \in 0..j |-> s[n]], picture, frames, j)
  <1> DEFINE t == [n \in 0..j |-> s[n]]
  <1>1. /\ \A n \in 0..j : t[n] = s[n]
        /\ t = [n \in 0..j |-> t[n]]
    OBVIOUS
  <1> HIDE DEF t
  <1>2. t[0] = picture
    <2>1. 0 \in 0..j
      OBVIOUS
    <2>2. QED
      BY <1>1, <2>1, Zenon DEF AddsUp
  <1>3. ASSUME NEW n \in 1..j PROVE t[n] = Patched(t[n - 1], frames[n])
    <2>1. n \in 1..k /\ n \in 0..j /\ n - 1 \in 0..j
      OBVIOUS
    <2>2. t[n] = s[n] /\ t[n - 1] = s[n - 1]
      BY <1>1, <2>1, Zenon
    <2>3. QED
      BY <2>1, <2>2, Zenon DEF AddsUp
  <1>4. AddsUp(t, picture, frames, j)
    BY <1>1, <1>2, <1>3, Zenon DEF AddsUp
  <1>5. QED
    BY <1>4 DEF t

LEMMA SumExtended ==
    ASSUME NEW picture, NEW frames, NEW k \in Nat, NEW s, AddsUp(s, picture, frames, k)
    PROVE  \E t : AddsUp(t, picture, frames, k + 1)
  <1> DEFINE t == [n \in 0..k + 1 |-> IF n = k + 1 THEN Patched(s[k], frames[k + 1]) ELSE s[n]]
  <1>1. /\ \A n \in 0..k : t[n] = s[n]
        /\ t[k + 1] = Patched(s[k], frames[k + 1])
        /\ t = [n \in 0..k + 1 |-> t[n]]
    OBVIOUS
  <1> HIDE DEF t
  <1>2. t[0] = picture
    <2>1. 0 \in 0..k
      OBVIOUS
    <2>2. QED
      BY <1>1, <2>1, Zenon DEF AddsUp
  <1>3. ASSUME NEW n \in 1..k + 1 PROVE t[n] = Patched(t[n - 1], frames[n])
    <2>1. CASE n = k + 1
      BY <1>1, <2>1
    <2>2. CASE n \in 1..k
      <3>1. n - 1 \in 0..k /\ n \in 0..k
        BY <2>2
      <3>2. t[n] = s[n] /\ t[n - 1] = s[n - 1]
        BY <1>1, <3>1
      <3>3. QED
        BY <2>2, <3>2, Zenon DEF AddsUp
    <2>3. QED
      BY <2>1, <2>2
  <1>4. AddsUp(t, picture, frames, k + 1)
    BY <1>1, <1>2, <1>3, Zenon DEF AddsUp
  <1>5. QED
    BY <1>4

\* Frames that are the same up to k.
LEMMA SumSame ==
    ASSUME NEW picture, NEW frames, NEW others, NEW k \in Nat, NEW s,
           \A n \in 1..k : others[n] = frames[n], AddsUp(s, picture, frames, k)
    PROVE  AddsUp(s, picture, others, k)
  BY Zenon DEF AddsUp

\* The first frame added to the picture, or the picture without it.
SumsWithFirst(s, picture, frames, k) ==
    \E t : AddsUp(t, picture, frames, k + 1) /\ \A n \in 0..k : t[n + 1] = s[n]
LEMMA SumPrepended ==
    ASSUME NEW picture, NEW frames, NEW others, NEW k \in Nat, NEW s,
           \A n \in 1..k : others[n] = frames[n + 1],
           AddsUp(s, Patched(picture, frames[1]), others, k)
    PROVE  SumsWithFirst(s, picture, frames, k)
  <1> DEFINE t == [n \in 0..k + 1 |-> IF n = 0 THEN picture ELSE s[n - 1]]
  <1>1. /\ t[0] = picture
        /\ \A n \in 1..k + 1 : t[n] = s[n - 1]
        /\ t = [n \in 0..k + 1 |-> t[n]]
    OBVIOUS
  <1> HIDE DEF t
  <1>2. ASSUME NEW n \in 1..k + 1 PROVE t[n] = Patched(t[n - 1], frames[n])
    <2>1. CASE n = 1
      <3>1. 1 \in 1..k + 1 /\ 1 - 1 = 0
        OBVIOUS
      <3>2. t[1] = s[0] /\ t[0] = picture
        BY <1>1, <3>1
      <3>3. t[1] = Patched(t[0], frames[1])
        BY <3>2, Zenon DEF AddsUp
      <3>4. QED
        BY <2>1, <3>3
    <2>2. CASE n # 1
      <3>1. n - 1 \in 1..k /\ n - 1 \in 1..k + 1 /\ n - 1 + 1 = n
        BY <2>2
      <3>2. t[n] = s[n - 1] /\ t[n - 1] = s[n - 1 - 1] /\ others[n - 1] = frames[n]
        BY <1>1, <3>1
      <3>3. s[n - 1] = Patched(s[n - 1 - 1], others[n - 1])
        BY <3>1 DEF AddsUp
      <3>4. QED
        BY <3>2, <3>3
    <2>3. QED
      BY <2>1, <2>2
  <1>3. AddsUp(t, picture, frames, k + 1)
    BY <1>1, <1>2, Zenon DEF AddsUp
  <1>4. ASSUME NEW n \in 0..k PROVE t[n + 1] = s[n]
    <2>1. n + 1 \in 1..k + 1 /\ (n + 1) - 1 = n
      OBVIOUS
    <2>2. t[n + 1] = s[(n + 1) - 1]
      BY <1>1, <2>1, Zenon
    <2>3. QED
      BY <2>1, <2>2, Zenon
  <1>5. QED
    BY <1>3, <1>4 DEF SumsWithFirst

LEMMA SumWithoutFirst ==
    ASSUME NEW picture, NEW frames, NEW others, NEW k \in Nat, NEW s,
           \A n \in 1..k : others[n] = frames[n + 1],
           AddsUp(s, picture, frames, k + 1)
    PROVE  \E t : AddsUp(t, Patched(picture, frames[1]), others, k)
  <1> DEFINE t == [n \in 0..k |-> s[n + 1]]
  <1>1. ASSUME NEW n \in 0..k PROVE s[n + 1] = Patched(s[n], frames[n + 1])
    <2>1. n + 1 \in 1..k + 1 /\ n + 1 - 1 = n
      OBVIOUS
    <2>2. \A i \in 1..k + 1 : s[i] = Patched(s[i - 1], frames[i])
      BY Zenon DEF AddsUp
    <2>3. QED
      BY <2>1, <2>2
  <1>2. /\ \A n \in 0..k : t[n] = s[n + 1]
        /\ t = [n \in 0..k |-> t[n]]
    OBVIOUS
  <1> HIDE DEF t
  <1>3. t[0] = Patched(picture, frames[1])
    <2>1. 0 \in 0..k /\ 0 + 1 = 1
      OBVIOUS
    <2>2. t[0] = Patched(s[0], frames[1])
      BY <1>1, <1>2, <2>1
    <2>3. QED
      BY <2>2, Zenon DEF AddsUp
  <1>4. ASSUME NEW n \in 1..k PROVE t[n] = Patched(t[n - 1], others[n])
    <2>1. n \in 0..k /\ n - 1 \in 0..k /\ n - 1 + 1 = n
      OBVIOUS
    <2>2. t[n] = s[n + 1] /\ t[n - 1] = s[n] /\ others[n] = frames[n + 1]
      BY <1>2, <2>1
    <2>3. QED
      BY <1>1, <2>1, <2>2
  <1>5. AddsUp(t, Patched(picture, frames[1]), others, k)
    BY <1>2, <1>3, <1>4, Zenon DEF AddsUp
  <1>6. QED
    BY <1>5

-----------------------------------------------------------------------------
(* The frames under way.                                                   *)

LEMMA InitStream == TypeOK /\ Init => StreamInv
  <1> SUFFICES ASSUME TypeOK, Init PROVE StreamInv
    OBVIOUS
  <1> USE DEF Init
  <1>1. Len(link) = 0
    BY EmptySeq
  <1>2. SumExists
    <2> DEFINE s == [n \in 0..0 |-> seen]
    <2>1. s[0] = seen /\ s = [n \in 0..0 |-> s[n]] /\ 1..0 = {} /\ 0 \in Nat
      OBVIOUS
    <2> HIDE DEF s
    <2>2. AddsUp(s, seen, link, 0)
      BY <2>1, Zenon DEF AddsUp
    <2>3. QED
      BY <1>1, <2>2 DEF SumExists, IsSum
  <1>3. TilesFit
    BY <1>1 DEF TilesFit
  <1>4. QED
    BY <1>2, <1>3 DEF StreamInv, JobWhileStreaming, ComparedIsAlike, Compared,
                      ClosedLinkIsEmpty, SumIsPrevious

\* A step that leaves the frames under way and what was seen alone.
LEMMA SumUntouched ==
    ASSUME TypeOK, SumExists, TilesFit, UNCHANGED <<link, seen>>
    PROVE  /\ SumExists' /\ TilesFit'
           /\ \A s : IsSum(s)' <=> IsSum(s)
  <1>1. \A s : IsSum(s)' <=> IsSum(s)
    BY DEF IsSum
  <1>2. SumExists'
    BY <1>1 DEF SumExists
  <1>3. TilesFit'
    BY DEF TilesFit
  <1>4. QED
    BY <1>1, <1>2, <1>3

\* A connection that drops leaves the first frames.
LEMMA SumTruncated ==
    ASSUME TypeOK, SumExists, TilesFit, seen' = seen,
           NEW n \in 0..Len(link), link' = SubSeq(link, 1, n)
    PROVE  SumExists' /\ TilesFit'
  <1>1. /\ Len(link) \in Nat /\ n \in Nat /\ Len(link') = n
        /\ \A i \in 1..n : link'[i] = link[i]
    <2>1. Len(link) \in Nat /\ \A i \in 1..n : link[i] \in Payloads
      BY LenProperties, ElementOfSeq DEF TypeOK
    <2>2. /\ Len(link') = IF 1 <= n THEN n - 1 + 1 ELSE 0
          /\ \A i \in 1..n - 1 + 1 : link'[i] = link[1 + i - 1]
      BY <2>1, SubSeqProperties
    <2>3. QED
      BY <2>1, <2>2
  <1>2. \A k \in 0..n : \A s : AddsUp(s, seen', link', k) <=> AddsUp(s, seen, link, k)
    <2> TAKE k \in 0..n
    <2>1. k \in Nat /\ (\A i \in 1..k : link'[i] = link[i]) /\ seen' = seen
      BY <1>1
    <2>2. \A i \in 1..k : link[i] = link'[i]
      BY <2>1
    <2>3. \A s : AddsUp(s, seen, link, k) => AddsUp(s, seen, link', k)
      BY <2>1, SumSame
    <2>4. \A s : AddsUp(s, seen, link', k) => AddsUp(s, seen, link, k)
      BY <2>1, <2>2, SumSame
    <2>5. QED
      BY <2>1, <2>3, <2>4
  <1>3. SumExists'
    <2>1. PICK s : AddsUp(s, seen, link, Len(link))
      BY DEF SumExists, IsSum
    <2>2. AddsUp([i \in 0..n |-> s[i]], seen, link, n)
      BY <1>1, <2>1, SumRestricted
    <2>3. n \in 0..n
      BY <1>1
    <2>4. AddsUp([i \in 0..n |-> s[i]], seen', link', n)
      BY <1>2, <2>2, <2>3
    <2>5. QED
      BY <1>1, <2>4 DEF SumExists, IsSum
  <1>4. TilesFit'
    <2> SUFFICES ASSUME NEW i \in 1..n, link'[i].kind # "key", NEW s, AddsUp(s, seen', link', i - 1)
                 PROVE  s[i - 1] = Nothing \/ Len(s[i - 1]) = Len(link'[i].tiles)
      BY <1>1 DEF TilesFit
    <2>1. i - 1 \in 0..n /\ i \in 1..Len(link) /\ link'[i] = link[i]
      BY <1>1
    <2>2. AddsUp(s, seen, link, i - 1)
      BY <1>2, <2>1
    <2>3. QED
      BY <2>1, <2>2 DEF TilesFit
  <1>5. QED
    BY <1>3, <1>4

\* A frame that is sent: what the frames before it add up to is unchanged.
LEMMA SumAppended ==
    ASSUME TypeOK, SumExists, TilesFit, seen' = seen,
           NEW p \in Payloads, link' = Append(link, p),
           p.kind # "key" =>
              \A s : IsSum(s) => s[Len(link)] = Nothing \/ Len(s[Len(link)]) = Len(p.tiles)
    PROVE  /\ SumExists' /\ TilesFit'
           /\ \A s : IsSum(s)' =>
                 \E t : IsSum(t) /\ s[Len(link')] = Patched(t[Len(link)], p)
  <1>1. /\ Len(link) \in Nat /\ Len(link') = Len(link) + 1
        /\ \A i \in 1..Len(link) : link'[i] = link[i]
        /\ link'[Len(link) + 1] = p
    BY AppendProperties, LenProperties DEF TypeOK
  <1>2. \A k \in 0..Len(link) : \A s : AddsUp(s, seen', link', k) <=> AddsUp(s, seen, link, k)
    <2> TAKE k \in 0..Len(link)
    <2>1. k \in Nat /\ (\A i \in 1..k : link'[i] = link[i]) /\ seen' = seen
      BY <1>1
    <2>2. \A i \in 1..k : link[i] = link'[i]
      BY <2>1
    <2>3. \A s : AddsUp(s, seen, link, k) => AddsUp(s, seen, link', k)
      BY <2>1, SumSame
    <2>4. \A s : AddsUp(s, seen, link', k) => AddsUp(s, seen, link, k)
      BY <2>1, <2>2, SumSame
    <2>5. QED
      BY <2>1, <2>3, <2>4
  <1>3. \A s : AddsUp(s, seen', link', Len(link)) <=> IsSum(s)
    <2>1. Len(link) \in 0..Len(link)
      BY <1>1
    <2>2. QED
      BY <1>2, <2>1 DEF IsSum
  <1>4. SumExists'
    <2>1. PICK s : AddsUp(s, seen', link', Len(link))
      BY <1>3 DEF SumExists
    <2>2. \E t : AddsUp(t, seen', link', Len(link) + 1)
      BY <1>1, <2>1, SumExtended
    <2>3. QED
      BY <1>1, <2>2 DEF SumExists, IsSum
  <1>5. TilesFit'
    <2> SUFFICES ASSUME NEW i \in 1..Len(link'), link'[i].kind # "key",
                        NEW s, AddsUp(s, seen', link', i - 1)
                 PROVE  s[i - 1] = Nothing \/ Len(s[i - 1]) = Len(link'[i].tiles)
      BY DEF TilesFit
    <2>1. CASE i = Len(link) + 1
      <3>1. i - 1 = Len(link) /\ link'[i] = p
        BY <1>1, <2>1
      <3>2. IsSum(s)
        BY <1>3, <3>1
      <3>3. QED
        BY <3>1, <3>2
    <2>2. CASE i \in 1..Len(link)
      <3>1. i - 1 \in 0..Len(link) /\ link'[i] = link[i]
        BY <1>1, <2>2
      <3>2. AddsUp(s, seen, link, i - 1)
        BY <1>2, <3>1
      <3>3. QED
        BY <2>2, <3>1, <3>2 DEF TilesFit
    <2>3. QED
      BY <1>1, <2>1, <2>2
  <1>6. ASSUME NEW s, IsSum(s)'
        PROVE  \E t : IsSum(t) /\ s[Len(link')] = Patched(t[Len(link)], p)
    <2> DEFINE t == [n \in 0..Len(link) |-> s[n]]
    <2>1. AddsUp(s, seen', link', Len(link) + 1)
      BY <1>1, <1>6 DEF IsSum
    <2>2. Len(link) + 1 \in Nat /\ Len(link) \in 0..Len(link) + 1 /\ Len(link) \in 0..Len(link)
          /\ Len(link) + 1 \in 1..Len(link) + 1 /\ Len(link) + 1 - 1 = Len(link)
      BY <1>1
    <2>3. AddsUp(t, seen', link', Len(link))
      BY <2>1, <2>2, SumRestricted
    <2>4. s[Len(link')] = Patched(s[Len(link)], link'[Len(link')])
      <3>1. Len(link') \in Nat \ {0}
        BY <1>1
      <3>2. Len(link') \in 1..Len(link')
        BY <3>1
      <3>3. AddsUp(s, seen', link', Len(link'))
        BY <1>6 DEF IsSum
      <3>4. s[Len(link')] = Patched(s[Len(link') - 1], link'[Len(link')])
        BY <3>2, <3>3, Zenon DEF AddsUp
      <3>5. Len(link') - 1 = Len(link)
        BY <1>1
      <3>6. QED
        BY <3>4, <3>5
    <2>5. IsSum(t) /\ t[Len(link)] = s[Len(link)]
      BY <1>3, <2>2, <2>3
    <2>6. QED
      BY <1>1, <2>2, <2>4, <2>5
  <1>7. QED
    BY <1>4, <1>5, <1>6

\* A frame that arrives: it is added to what was seen, and the sum is the same.
LEMMA SumArrived ==
    ASSUME TypeOK, SumExists, TilesFit, link # <<>>,
           link' = Tail(link), seen' = Patched(seen, Head(link))
    PROVE  /\ SumExists' /\ TilesFit'
           /\ \A s : IsSum(s)' => \E t : IsSum(t) /\ t[Len(link)] = s[Len(link')]
  <1>1. /\ Len(link) \in Nat /\ Len(link') \in Nat /\ Len(link) = Len(link') + 1
        /\ \A i \in 1..Len(link') : link'[i] = link[i + 1]
        /\ seen' = Patched(seen, link[1])
    BY HeadTailProperties, LenProperties DEF TypeOK
  <1>2. \A k \in 0..Len(link') : \A s :
            AddsUp(s, seen', link', k) => SumsWithFirst(s, seen, link, k)
    <2> SUFFICES ASSUME NEW k \in 0..Len(link'), NEW s, AddsUp(s, seen', link', k)
                 PROVE  SumsWithFirst(s, seen, link, k)
      OBVIOUS
    <2>1. k \in Nat /\ \A n \in 1..k : link'[n] = link[n + 1]
      BY <1>1
    <2>2. AddsUp(s, Patched(seen, link[1]), link', k)
      BY <1>1, Zenon
    <2>3. QED
      BY <2>1, <2>2, SumPrepended, Zenon
  <1>3. SumExists'
    <2>1. PICK s : AddsUp(s, seen, link, Len(link') + 1)
      BY <1>1 DEF SumExists, IsSum
    <2>2. \E t : AddsUp(t, Patched(seen, link[1]), link', Len(link'))
      BY <1>1, <2>1, SumWithoutFirst, Zenon
    <2>3. QED
      BY <1>1, <2>2 DEF SumExists, IsSum
  <1>4. TilesFit'
    <2> SUFFICES ASSUME NEW i \in 1..Len(link'), link'[i].kind # "key",
                        NEW s, AddsUp(s, seen', link', i - 1)
                 PROVE  s[i - 1] = Nothing \/ Len(s[i - 1]) = Len(link'[i].tiles)
      BY DEF TilesFit
    <2>1. /\ i - 1 \in 0..Len(link') /\ i - 1 + 1 = i /\ i + 1 \in 1..Len(link)
          /\ i - 1 \in 0..i - 1 /\ i + 1 - 1 = i /\ link'[i] = link[i + 1]
      BY <1>1
    <2>2. PICK t : AddsUp(t, seen, link, i - 1 + 1) /\ \A n \in 0..i - 1 : t[n + 1] = s[n]
      BY <1>2, <2>1 DEF SumsWithFirst
    <2>3. AddsUp(t, seen, link, i + 1 - 1) /\ t[i] = s[i - 1]
      BY <2>1, <2>2
    <2>4. t[i + 1 - 1] = Nothing \/ Len(t[i + 1 - 1]) = Len(link[i + 1].tiles)
      BY <2>1, <2>3 DEF TilesFit
    <2>5. QED
      BY <2>1, <2>3, <2>4
  <1>5. ASSUME NEW s, IsSum(s)'
        PROVE  \E t : IsSum(t) /\ t[Len(link)] = s[Len(link')]
    <2>1. AddsUp(s, seen', link', Len(link')) /\ Len(link') \in 0..Len(link')
      BY <1>1, <1>5 DEF IsSum
    <2>2. PICK t : /\ AddsUp(t, seen, link, Len(link') + 1)
                   /\ \A n \in 0..Len(link') : t[n + 1] = s[n]
      BY <1>2, <2>1 DEF SumsWithFirst
    <2>3. QED
      BY <1>1, <2>1, <2>2 DEF IsSum
  <1>6. QED
    BY <1>3, <1>4, <1>5

\* Nothing is under way: what was seen is all there is.
LEMMA SumOfNone ==
    ASSUME link' = <<>>
    PROVE  SumExists' /\ TilesFit' /\ \A s : IsSum(s)' => s[Len(link')] = seen'
  <1>1. Len(link') = 0
    BY EmptySeq
  <1>2. SumExists'
    <2> DEFINE s == [n \in 0..0 |-> seen']
    <2>1. s[0] = seen' /\ s = [n \in 0..0 |-> s[n]] /\ 1..0 = {} /\ 0 \in Nat
      OBVIOUS
    <2> HIDE DEF s
    <2>2. AddsUp(s, seen', link', 0)
      BY <2>1, Zenon DEF AddsUp
    <2>3. QED
      BY <1>1, <2>2 DEF SumExists, IsSum
  <1>3. TilesFit'
    BY <1>1 DEF TilesFit
  <1>4. ASSUME NEW s, IsSum(s)' PROVE s[Len(link')] = seen'
    <2>1. AddsUp(s, seen', link', 0) /\ 0 \in Nat
      BY <1>1, <1>4 DEF IsSum
    <2>2. s[0] = seen'
      BY <2>1, Zenon DEF AddsUp
    <2>3. QED
      BY <1>1, <2>2
  <1>5. QED
    BY <1>2, <1>3, <1>4

\* What was sent: a keyframe is the frame itself, and tiles make it of the last.
LEMMA SentProperties ==
    ASSUME TypeOK, job # Nothing, ComparedIsAlike
    PROVE  /\ Payload \in Payloads /\ job.image \in Pictures /\ job.must \in BOOLEAN
           /\ job.must => Payload.kind = "key" /\ Payload.tiles = job.image
           /\ ~job.must => /\ Payload.kind # "key"
                           /\ Len(Payload.tiles) = Len(previous)
                           /\ Patched(previous, Payload) = job.image
                           /\ Patched(Nothing, Payload) = Nothing
  <1>1. job \in [image : Pictures, must : BOOLEAN]
    BY DEF TypeOK
  <1>2. Payload \in Payloads
    BY <1>1, ChangedType DEF Payload, Keyframe, Payloads
  <1>3. job.must => Payload.kind = "key" /\ Payload.tiles = job.image
    BY DEF Payload, Keyframe
  <1>4. ASSUME ~job.must
        PROVE  /\ Payload.kind # "key"
               /\ Len(Payload.tiles) = Len(previous)
               /\ Patched(previous, Payload) = job.image
               /\ Patched(Nothing, Payload) = Nothing
    <2>1. Payload.kind # "key" /\ Payload.tiles = Changed(job.image)
      BY <1>4 DEF Payload
    <2>2. previous \in Pictures /\ Len(job.image) = Len(previous)
      BY <1>4 DEF TypeOK, ComparedIsAlike, Compared
    <2>3. Len(Payload.tiles) = Len(previous)
      BY <1>1, <2>1, <2>2, ChangedType
    <2>4. Patched(previous, Payload) = job.image
      BY <1>1, <2>1, <2>2, PatchedWithChanged
    <2>5. Len(Nothing) = 0 /\ Len(Payload.tiles) # 0
      BY <2>2, <2>3, PictureProperties, CanvasProperties
    <2>6. QED
      BY <2>1, <2>3, <2>4, <2>5 DEF Patched
  <1>5. QED
    BY <1>1, <1>2, <1>3, <1>4

LEMMA NextStream == TypeOK /\ StreamInv /\ [Next]_vars => StreamInv'
  <1> SUFFICES ASSUME TypeOK, StreamInv, [Next]_vars PROVE StreamInv'
    OBVIOUS
  <1> USE DEF StreamInv, world, encoder, agent, console, assembler
  <1>1. CASE /\ UNCHANGED <<streaming, linked, previous, job, open, link, seen>>
             /\ attached' = attached \/ attached' = FALSE
             /\ force' = force \/ force'
    <2>1. SumExists' /\ TilesFit' /\ \A s : IsSum(s)' <=> IsSum(s)
      BY <1>1, SumUntouched
    <2>2. JobWhileStreaming' /\ ComparedIsAlike' /\ ClosedLinkIsEmpty'
      BY <1>1 DEF JobWhileStreaming, ComparedIsAlike, Compared, ClosedLinkIsEmpty
    <2>3. CASE attached'
      <3>1. attached /\ (force' = force \/ force')
        BY <1>1, <2>3
      <3>2. SumIsPrevious'
        BY <1>1, <2>1, <2>3, <3>1 DEF SumIsPrevious, Compared
      <3>3. QED
        BY <2>1, <2>2, <3>2
    <2>4. CASE ~attached'
      BY <2>1, <2>2, <2>4 DEF SumIsPrevious
    <2>5. QED
      BY <2>3, <2>4
  <1>2. CASE StreamBegins
    <2> USE <1>2 DEF StreamBegins
    <2>1. SumExists' /\ TilesFit'
      BY SumUntouched
    <2>2. job' = Nothing
      BY DEF JobWhileStreaming
    <2>3. QED
      BY <2>1, <2>2 DEF JobWhileStreaming, ComparedIsAlike, Compared, ClosedLinkIsEmpty,
                        SumIsPrevious
  <1>3. CASE Grabs
    <2> USE <1>3 DEF Grabs
    <2>1. SumExists' /\ TilesFit' /\ \A s : IsSum(s)' <=> IsSum(s)
      BY SumUntouched
    <2>2. Compared' => ~force /\ previous # Nothing /\ Len(job'.image) = Len(previous)
      BY DEF Compared, MustKey
    <2>3. JobWhileStreaming' /\ ComparedIsAlike' /\ ClosedLinkIsEmpty'
      BY <2>2 DEF JobWhileStreaming, ComparedIsAlike, ClosedLinkIsEmpty
    <2>4. SumIsPrevious'
      BY <2>1, <2>2 DEF SumIsPrevious
    <2>5. QED
      BY <2>1, <2>3, <2>4
  <1>4. CASE Sends
    <2> USE <1>4 DEF Sends
    <2>1. job' = Nothing /\ previous' = job.image /\ seen' = seen /\ streaming' = linked
          /\ linked' = linked /\ open' = open /\ attached' = attached
          /\ streaming /\ job # Nothing
      BY DEF Encoded
    <2>2. JobWhileStreaming' /\ ComparedIsAlike' /\ ~Compared'
      BY <2>1 DEF JobWhileStreaming, ComparedIsAlike, Compared
    <2>3. CASE linked /\ attached
      <3>1. link' = Append(link, Payload)
        BY <2>3
      <3>2. ~job.must => \A s : IsSum(s) => s[Len(link)] \in {Nothing, previous}
        BY <2>1, <2>3 DEF SumIsPrevious, Compared
      <3>3. Payload.kind # "key" =>
               \A s : IsSum(s) => s[Len(link)] = Nothing \/ Len(s[Len(link)]) = Len(Payload.tiles)
        BY <2>1, <3>2, SentProperties
      <3>4. /\ SumExists' /\ TilesFit'
            /\ \A s : IsSum(s)' =>
                  \E t : IsSum(t) /\ s[Len(link')] = Patched(t[Len(link)], Payload)
        BY <2>1, <3>1, <3>3, SentProperties, SumAppended
      <3>5. ASSUME NEW s, IsSum(s)' PROVE s[Len(link')] \in {Nothing, previous'}
        <4>1. PICK t : IsSum(t) /\ s[Len(link')] = Patched(t[Len(link)], Payload)
          BY <3>4, <3>5
        <4>2. CASE job.must
          BY <2>1, <4>1, <4>2, SentProperties DEF Patched
        <4>3. CASE ~job.must
          <5>1. t[Len(link)] = Nothing \/ t[Len(link)] = previous
            BY <3>2, <4>1, <4>3
          <5>2. QED
            BY <2>1, <4>1, <4>3, <5>1, SentProperties
        <4>4. QED
          BY <4>2, <4>3
      <3>6. QED
        BY <2>1, <2>2, <2>3, <3>4, <3>5 DEF TypeOK, SumIsPrevious, ClosedLinkIsEmpty
    <2>4. CASE ~(linked /\ attached)
      <3>1. link' = link
        BY <2>4
      <3>2. SumExists' /\ TilesFit'
        BY <2>1, <3>1, SumUntouched
      <3>3. QED
        BY <2>1, <2>2, <2>4, <3>1, <3>2 DEF SumIsPrevious, ClosedLinkIsEmpty
    <2>5. QED
      BY <2>3, <2>4
  <1>5. CASE AgentDrops
    <2>1. PICK n \in 0..Len(link) : link' = SubSeq(link, 1, n)
      BY <1>5 DEF AgentDrops
    <2>2. /\ UNCHANGED <<streaming, encoder, console, seen>> /\ linked' = FALSE
      BY <1>5 DEF AgentDrops
    <2>3. SumExists' /\ TilesFit'
      BY <2>1, <2>2, SumTruncated
    <2>4. ClosedLinkIsEmpty'
      <3>1. ASSUME ~open PROVE link' = <<>>
        <4>1. link = <<>> /\ Len(link) = 0 /\ n = 0
          BY <2>1, <3>1, EmptySeq DEF ClosedLinkIsEmpty
        <4>2. /\ 1 \in Int /\ 0 \in Int /\ \A i \in 1..0 : link[i] \in Payloads
          OBVIOUS
        <4>3. link' \in Seq(Payloads) /\ Len(link') = IF 1 <= 0 THEN 0 - 1 + 1 ELSE 0
          BY <2>1, <4>1, <4>2, SubSeqProperties
        <4>4. QED
          BY <4>3, EmptySeq
      <3>2. QED
        BY <2>2, <3>1 DEF ClosedLinkIsEmpty
    <2>5. QED
      BY <2>2, <2>3, <2>4
         DEF JobWhileStreaming, ComparedIsAlike, Compared, SumIsPrevious
  <1>6. CASE Attaches
    <2>1. link' = <<>> /\ seen' = Nothing /\ open'
      BY <1>6 DEF Attaches, ClosedLinkIsEmpty
    <2>2. SumExists' /\ TilesFit' /\ \A s : IsSum(s)' => s[Len(link')] = Nothing
      BY <2>1, SumOfNone
    <2>3. QED
      BY <1>6, <2>1, <2>2 DEF Attaches, JobWhileStreaming, ComparedIsAlike, Compared,
                              ClosedLinkIsEmpty, SumIsPrevious
  <1>7. CASE ConsoleDrops
    <2>1. link' = <<>> /\ ~open' /\ ~attached' /\ UNCHANGED agent
      BY <1>7 DEF ConsoleDrops
    <2>2. SumExists' /\ TilesFit'
      BY <2>1, SumOfNone
    <2>3. QED
      BY <2>1, <2>2 DEF JobWhileStreaming, ComparedIsAlike, Compared,
                        ClosedLinkIsEmpty, SumIsPrevious
  <1>8. CASE Arrives
    <2>1. /\ link # <<>> /\ link' = Tail(link) /\ seen' = Patched(seen, Head(link))
          /\ open /\ UNCHANGED <<agent, console>>
      BY <1>8 DEF Arrives
    <2>2. /\ SumExists' /\ TilesFit'
          /\ \A s : IsSum(s)' => \E t : IsSum(t) /\ t[Len(link)] = s[Len(link')]
      BY <2>1, SumArrived
    <2>3. SumIsPrevious'
      BY <2>1, <2>2 DEF SumIsPrevious, Compared
    <2>4. QED
      BY <2>1, <2>2, <2>3 DEF JobWhileStreaming, ComparedIsAlike, Compared, ClosedLinkIsEmpty
  <1>9. CASE ScreenChanges \/ Ages \/ AgentHears \/ Asks \/ Evicts
    BY <1>1, <1>9 DEF ScreenChanges, Ages, AgentHears, Asks, Evicts
  <1>10. CASE \E i \in 1..Decodings : Draws(i) \/ DecodeFails(i)
    BY <1>1, <1>10 DEF Draws, DecodeFails
  <1>11. CASE UNCHANGED vars
    BY <1>1, <1>11 DEF vars
  <1>12. QED
    BY <1>2, <1>3, <1>4, <1>5, <1>6, <1>7, <1>8, <1>9, <1>10, <1>11 DEF Next

LEMMA StreamInvariant == Spec => [](TypeOK /\ StreamInv)
  <1>1. Init => TypeOK /\ StreamInv
    BY InitType, InitStream
  <1>2. TypeOK /\ StreamInv /\ [Next]_vars => (TypeOK /\ StreamInv)'
    BY NextType, NextStream
  <1>3. QED
    BY <1>1, <1>2, PTL DEF Spec

(* What has been sent adds up to the frame the next one is compared with,   *)
(* whatever mixture of keyframes, tiles and resizes it was, for a viewer    *)
(* that has one keyframe (tiles.py `encode`, its _previous), whatever the   *)
(* connections dropped before.                                              *)
THEOREM FramesSum == Spec => []FramesAddUp
  <1>1. TypeOK /\ StreamInv => FramesAddUp
    <2> SUFFICES ASSUME TypeOK, StreamInv, attached, streaming, linked, ~force,
                        Added[Len(link)] # Nothing
                 PROVE  Added[Len(link)] = previous
      BY DEF FramesAddUp, NothingMissing
    <2>1. IsSum(Added)
      BY AddedIsSum DEF StreamInv
    <2>2. Added[Len(link)] \in {Nothing, previous}
      BY <2>1 DEF StreamInv, SumIsPrevious
    <2>3. QED
      BY <2>2
  <1>2. QED
    BY <1>1, StreamInvariant, PTL

-----------------------------------------------------------------------------
(* The picture an attached operator waits for.                             *)

\* A frame that arrives does not take the picture away.
LEMMA ArrivedIsPicture ==
    ASSUME TypeOK, StreamInv, link # <<>>, Head(link).kind = "key" \/ seen # Nothing
    PROVE  Patched(seen, Head(link)) # Nothing
  <1>1. /\ Len(link) \in Nat /\ 1 \in 1..Len(link)
        /\ Head(link) = link[1] /\ link[1] \in Payloads
    BY HeadTailProperties, LenProperties, ElementOfSeq DEF TypeOK
  <1>2. CASE Head(link).kind = "key"
    BY <1>1, <1>2, PayloadProperties, PictureProperties DEF Patched
  <1>3. CASE Head(link).kind # "key" /\ seen # Nothing
    <2>1. PICK s : AddsUp(s, seen, link, 0)
      <3>1. PICK t : AddsUp(t, seen, link, Len(link))
        BY DEF StreamInv, SumExists, IsSum
      <3>2. 0 \in 0..Len(link)
        BY <1>1
      <3>3. QED
        BY <1>1, <3>1, <3>2, SumRestricted
    <2>2. s[0] = seen
      <3>1. 0 \in Nat
        OBVIOUS
      <3>2. QED
        BY <2>1, <3>1, Zenon DEF AddsUp
    <2>3. Len(seen) = Len(link[1].tiles)
      <3>1. s[1 - 1] = Nothing \/ Len(s[1 - 1]) = Len(link[1].tiles)
        <4>1. AddsUp(s, seen, link, 1 - 1)
          BY <2>1
        <4>2. QED
          BY <1>1, <1>3, <4>1 DEF StreamInv, TilesFit
      <3>2. QED
        BY <1>3, <2>2, <3>1
    <2>4. seen \in Pictures /\ Len(seen) \in Nat \ {0}
      BY <1>3, PictureProperties DEF TypeOK
    <2> DEFINE new == [i \in 1..Len(seen) |->
                          IF link[1].tiles[i] = 0 THEN seen[i] ELSE link[1].tiles[i]]
    <2>5. Patched(seen, link[1]) = new
      BY <1>1, <1>3, <2>3 DEF Patched
    <2>6. DOMAIN new = 1..Len(seen) /\ 1 \in DOMAIN new
      BY <2>4
    <2>7. DOMAIN Nothing = {}
      BY EmptySeq DEF Nothing
    <2>8. QED
      BY <1>1, <2>5, <2>6, <2>7
  <1>4. QED
    BY <1>2, <1>3, Zenon

LEMMA NextPicture ==
    TypeOK /\ StreamInv /\ PictureIsComing /\ [Next]_vars => PictureIsComing'
  <1> SUFFICES ASSUME TypeOK, StreamInv, PictureIsComing, [Next]_vars,
                      attached', streaming', linked'
               PROVE  \/ (seen # Nothing)'
                      \/ asking' \/ asked' \/ force'
                      \/ (job # Nothing /\ job.must)'
                      \/ \E i \in DOMAIN link' : link'[i].kind = "key"
    BY DEF PictureIsComing
  <1> USE DEF world, encoder, agent, console, assembler
  <1>1. CASE ScreenChanges \/ Ages \/ StreamBegins \/ AgentHears
    BY <1>1 DEF PictureIsComing, ScreenChanges, Ages, StreamBegins, AgentHears
  <1>2. CASE Grabs
    <2>1. job' = [image |-> screen, must |-> MustKey(screen)]
      BY <1>2 DEF Grabs
    <2>2. job' # Nothing
      <3>1. DOMAIN job' = {"image", "must"} /\ DOMAIN Nothing = {}
        BY <2>1, EmptySeq DEF Nothing
      <3>2. QED
        BY <3>1
    <2>3. force => job'.must
      BY <2>1 DEF MustKey
    <2>4. QED
      BY <1>2, <2>2, <2>3 DEF Grabs, PictureIsComing
  <1>3. CASE Sends
    <2>1. linked /\ attached /\ link' = Append(link, Payload) /\ streaming
      BY <1>3 DEF Sends
    <2>2. /\ Payload \in Payloads /\ job.must \in BOOLEAN
          /\ job.must => Payload.kind = "key"
      BY <1>3, SentProperties DEF Sends, StreamInv
    <2>3. /\ Len(link) \in Nat /\ DOMAIN link = 1..Len(link)
          /\ DOMAIN link' = 1..Len(link) + 1
          /\ link'[Len(link) + 1] = Payload
          /\ \A i \in 1..Len(link) : link'[i] = link[i]
      BY <2>1, <2>2, AppendProperties, LenProperties DEF TypeOK
    <2>4. CASE job.must
      BY <2>2, <2>3, <2>4
    <2>5. CASE ~job.must
      <3>1. UNCHANGED <<seen, asking, asked, force>>
        BY <1>3, <2>5 DEF Sends, Encoded
      <3>2. (\E i \in DOMAIN link : link[i].kind = "key")
               => \E i \in DOMAIN link' : link'[i].kind = "key"
        BY <2>3
      <3>3. QED
        BY <2>1, <2>5, <3>1, <3>2 DEF PictureIsComing
    <2>6. QED
      BY <2>2, <2>4, <2>5
  <1>4. CASE AgentDrops \/ ConsoleDrops \/ Evicts
    BY <1>4 DEF AgentDrops, ConsoleDrops, Evicts
  <1>5. CASE Attaches \/ Asks
    <2>1. CASE Attaches
      BY <2>1 DEF Attaches
    <2>2. CASE Asks
      <3>1. asked' = linked /\ linked' = linked
        BY <2>2 DEF Asks
      <3>2. QED
        BY <3>1
    <2>3. QED
      BY <1>5, <2>1, <2>2
  <1>6. CASE Arrives
    <2>1. /\ link # <<>> /\ link' = Tail(link) /\ seen' = Patched(seen, Head(link))
          /\ UNCHANGED <<streaming, linked, console, asked, force, job>>
      BY <1>6 DEF Arrives
    <2>2. CASE Head(link).kind = "key" \/ seen # Nothing
      BY <2>1, <2>2, ArrivedIsPicture
    <2>3. CASE ~(Head(link).kind = "key" \/ seen # Nothing)
      <3>1. ASSUME NEW i \in DOMAIN link, link[i].kind = "key"
            PROVE  \E j \in DOMAIN link' : link'[j].kind = "key"
        <4>1. /\ Len(link) \in Nat /\ i \in 1..Len(link) /\ Len(link') = Len(link) - 1
              /\ Head(link) = link[1] /\ DOMAIN link' = 1..Len(link')
              /\ \A j \in 1..Len(link') : link'[j] = link[j + 1]
          BY <2>1, HeadTailProperties, LenProperties DEF TypeOK
        <4>2. i # 1
          BY <2>3, <3>1, <4>1
        <4>3. i - 1 \in 1..Len(link') /\ (i - 1) + 1 = i
          BY <4>1, <4>2
        <4>4. link'[i - 1] = link[i]
          BY <4>1, <4>3
        <4>5. QED
          BY <3>1, <4>1, <4>3, <4>4
      <3>2. QED
        BY <2>1, <2>3, <3>1 DEF PictureIsComing
    <2>4. QED
      BY <2>2, <2>3
  <1>7. CASE \E i \in 1..Decodings : Draws(i) \/ DecodeFails(i)
    <2>1. UNCHANGED <<agent, asked, console, link, seen>>
      BY <1>7 DEF Draws, DecodeFails
    <2>2. QED
      BY <2>1 DEF PictureIsComing
  <1>8. CASE UNCHANGED vars
    BY <1>8 DEF vars, PictureIsComing
  <1>9. QED
    BY <1>1, <1>2, <1>3, <1>4, <1>5, <1>6, <1>7, <1>8 DEF Next

(* An operator who is attached has a picture, or a keyframe is on its way:  *)
(* about to be asked for, asked for, in the request flag, in the worker     *)
(* thread or in the link (tiles.py `request_keyframe`, ws.py's request some *)
(* awaits after a console was attached).                                    *)
(* Neither the flag that is cleared after the worker's await nor a lost     *)
(* connection breaks the chain.                                             *)
THEOREM PictureComes == Spec => []PictureIsComing
  <1>1. Init => PictureIsComing
    BY DEF Init, PictureIsComing
  <1>2. QED
    BY <1>1, StreamInvariant, NextPicture, PTL DEF Spec

-----------------------------------------------------------------------------
(* The canvas.                                                             *)

LEMMA NextCanvas == TypeOK /\ CanvasInv /\ [Next]_vars => CanvasInv'
  <1> SUFFICES ASSUME TypeOK, CanvasInv, [Next]_vars, ~muddled'
               PROVE  IF decoding' = <<>> THEN primed' => canvas' = seen'
                      ELSE /\ Len(decoding') = 1
                           /\ Len(canvas') = Len(decoding'[1].tiles)
                           /\ decoding'[1].kind = "key" \/ primed'
                           /\ seen' = Patched(canvas', decoding'[1])
    BY DEF CanvasInv
  <1> USE DEF world, encoder, agent, console, assembler
  <1>1. CASE UNCHANGED assembler
    BY <1>1 DEF CanvasInv
  <1>2. CASE Attaches
    BY <1>2 DEF Attaches
  <1>3. CASE Arrives
    <2> DEFINE payload == Head(link)
    <2>1. /\ link # <<>> /\ decoding = <<>>
          /\ Ensures(Len(payload.tiles))
          /\ decoding' = IF payload.kind = "key" \/ (primed' /\ Count(payload.tiles) > 0)
                         THEN Append(decoding, payload) ELSE decoding
          /\ seen' = Patched(seen, payload)
          /\ payload.kind = "key" \/ ~muddled
      BY <1>3 DEF Arrives
    <2>2. payload \in Payloads /\ payload.tiles \in Canvases
      BY <2>1, HeadTailProperties, PayloadProperties DEF TypeOK
    <2> HIDE DEF payload
    <2>3. Len(canvas') = Len(payload.tiles)
      <3>1. Len(payload.tiles) \in Nat
        BY <2>2, CanvasProperties
      <3>2. Same(Len(payload.tiles)) \in [1..Len(payload.tiles) -> Nat]
        BY DEF Same
      <3>3. Len(Same(Len(payload.tiles))) = Len(payload.tiles)
        BY <3>1, <3>2, LenOfFunction
      <3>4. QED
        BY <2>1, <3>3 DEF Ensures
    <2>4. primed' => primed /\ canvas' = canvas
      BY <2>1 DEF Ensures
    <2>5. /\ Append(decoding, payload) # <<>>
          /\ Len(Append(decoding, payload)) = 1
          /\ Append(decoding, payload)[1] = payload
      <3>1. decoding \in Seq(Payloads) /\ Len(decoding) = 0 /\ Len(<<>>) = 0
        BY <2>1, EmptySeq DEF TypeOK
      <3>2. /\ Len(Append(decoding, payload)) = 0 + 1
            /\ Append(decoding, payload)[0 + 1] = payload
        BY <2>2, <3>1, AppendProperties
      <3>3. Len(Append(decoding, payload)) # Len(<<>>)
        BY <3>1, <3>2
      <3>4. QED
        BY <3>2, <3>3, SMTT(30)
    <2>6. CASE payload.kind = "key"
      <3>1. seen' = Patched(canvas', payload) /\ decoding' = Append(decoding, payload)
        BY <2>1, <2>6 DEF Patched
      <3>2. QED
        BY <2>3, <2>5, <2>6, <3>1
    <2>7. CASE payload.kind # "key" /\ primed'
      <3>1. canvas = seen /\ canvas' = seen /\ Len(canvas) = Len(payload.tiles)
        BY <2>1, <2>3, <2>4, <2>7 DEF CanvasInv
      <3>2. CASE Count(payload.tiles) > 0
        <4>1. decoding' = Append(decoding, payload) /\ seen' = Patched(canvas', payload)
          BY <2>1, <2>7, <3>1, <3>2
        <4>2. QED
          BY <2>3, <2>5, <2>7, <4>1
      <3>3. CASE ~(Count(payload.tiles) > 0)
        <4>1. decoding' = <<>>
          BY <2>1, <2>7, <3>3
        <4>2. \A i \in 1..Len(canvas) : payload.tiles[i] = 0
          BY <2>2, <3>1, <3>3, NoTilesAreZero
        <4>3. Patched(canvas, payload) = [i \in 1..Len(canvas) |-> canvas[i]]
          BY <2>7, <3>1, <4>2 DEF Patched
        <4>4. [i \in 1..Len(canvas) |-> canvas[i]] = canvas
          BY CanvasProperties DEF TypeOK
        <4>5. seen' = canvas'
          BY <2>1, <3>1, <4>3, <4>4
        <4>6. QED
          BY <4>1, <4>5
      <3>4. QED
        BY <3>2, <3>3
    <2>8. CASE payload.kind # "key" /\ ~primed'
      BY <2>1, <2>8
    <2>9. QED
      BY <2>6, <2>7, <2>8
  <1>4. ASSUME NEW i \in 1..Decodings, Draws(i)
        PROVE  decoding' = <<>> /\ canvas' = seen'
    <2>1. /\ i \in 1..Len(decoding) /\ ~muddled
          /\ canvas' = Drawn(decoding[i].tiles)
          /\ decoding' = RemoveAt(decoding, i) /\ seen' = seen
      BY <1>4 DEF Draws
    <2>2. decoding # <<>>
      BY <2>1, EmptySeq
    <2>3. /\ Len(decoding) = 1 /\ Len(canvas) = Len(decoding[1].tiles)
          /\ seen = Patched(canvas, decoding[1])
      BY <2>1, <2>2 DEF CanvasInv
    <2>4. i = 1 /\ decoding[1] \in Payloads
      <3>1. i = 1
        BY <2>1, <2>3
      <3>2. decoding \in Seq(Payloads) /\ 1 \in 1..Len(decoding)
        BY <2>1, <3>1 DEF TypeOK
      <3>3. QED
        BY <3>1, <3>2, ElementOfSeq
    <2>5. decoding' = <<>>
      <3>1. decoding \in Seq(Payloads)
        BY DEF TypeOK
      <3>2. decoding' \in Seq(Payloads) /\ Len(decoding') = Len(decoding) - 1
        BY <2>1, <3>1, Removed
      <3>3. Len(decoding') = 0
        BY <2>3, <3>2
      <3>4. QED
        BY <3>2, <3>3, EmptySeq
    <2>6. canvas' = seen'
      BY <2>1, <2>3, <2>4, DrawnIsPatched DEF TypeOK
    <2>7. QED
      BY <2>5, <2>6
  <1>5. CASE \E i \in 1..Decodings : DecodeFails(i)
    BY <1>5 DEF DecodeFails
  <1>6. CASE \/ ScreenChanges \/ Ages
             \/ StreamBegins \/ AgentHears \/ Grabs \/ Sends \/ AgentDrops
             \/ Asks \/ ConsoleDrops \/ Evicts
             \/ UNCHANGED vars
    BY <1>1, <1>6 DEF ScreenChanges, Ages, StreamBegins, AgentHears, Grabs, Sends, AgentDrops,
                      Asks, ConsoleDrops, Evicts, vars
  <1>7. QED
    BY <1>2, <1>3, <1>4, <1>5, <1>6 DEF Next

(* Once everything is decoded the canvas is the picture the frames add up   *)
(* to, if each was decoded before the next arrived; after one that was not, *)
(* from the next keyframe decoded alone (frames.ts `apply`, which decodes   *)
(* without waiting for its turn).                                           *)
THEOREM CanvasExact == Spec => []CanvasIsExact
  <1>1. Init => CanvasInv
    BY DEF Init, CanvasInv
  <1>2. CanvasInv => CanvasIsExact
    BY DEF CanvasInv, CanvasIsExact
  <1>3. QED
    BY <1>1, <1>2, TypeCorrect, NextCanvas, PTL DEF Spec

-----------------------------------------------------------------------------
(* The refinement: frames that carry what changed are whole pictures on a  *)
(* channel.  What the first n frames add up to is unique, so that a step   *)
(* says of Added what it says of any sum.                                  *)

\* Induction, without a predicate for a parameter.
LEMMA Least ==
    ASSUME NEW T \in SUBSET Nat, T # {}
    PROVE  \E m \in T : \A n \in T : m <= n
  <1> DEFINE R == OpToRel(<, Nat)
  <1>1. \A m, n \in Nat : <<n, m>> \in R <=> n < m
    BY DEF OpToRel
  <1>2. IsWellFoundedOn(R, Nat)
    BY NatLessThanWellFounded, Zenon
  <1> HIDE DEF R
  <1>3. \E m \in T : \A n \in T : ~(<<n, m>> \in R)
    BY <1>2, WFMin
  <1>4. PICK m \in T : \A n \in T : ~(<<n, m>> \in R)
    BY <1>3
  <1>5. \A n \in T : ~(n < m) /\ n \in Nat /\ m \in Nat
    BY <1>1, <1>4
  <1>6. \A n \in T : m <= n
    BY <1>5
  <1>7. QED
    BY <1>6

LEMMA SumUnique ==
    ASSUME NEW picture, NEW frames, NEW k \in Nat, NEW s, NEW t,
           AddsUp(s, picture, frames, k), AddsUp(t, picture, frames, k)
    PROVE  s = t
  <1> DEFINE D == {n \in 0..k : s[n] # t[n]}
  <1>1. ASSUME D # {} PROVE FALSE
    <2>1. D \in SUBSET Nat
      OBVIOUS
    <2>2. PICK m \in D : \A n \in D : m <= n
      BY <1>1, <2>1, Least
    <2>3. m \in 0..k /\ s[m] # t[m]
      BY <2>2
    <2>4. m # 0
      BY <2>3, Zenon DEF AddsUp
    <2>5. m \in 1..k /\ m - 1 \in 0..k /\ ~(m <= m - 1)
      BY <2>3, <2>4
    <2>6. s[m - 1] = t[m - 1]
      BY <2>2, <2>5
    <2>7. s[m] = Patched(s[m - 1], frames[m]) /\ t[m] = Patched(t[m - 1], frames[m])
      BY <2>5, Zenon DEF AddsUp
    <2>8. QED
      BY <2>3, <2>6, <2>7
  <1>2. \A n \in 0..k : s[n] = t[n]
    BY <1>1
  <1>3. s = [n \in 0..k |-> s[n]] /\ t = [n \in 0..k |-> t[n]]
    BY Zenon DEF AddsUp
  <1>4. QED
    BY <1>2, <1>3, Zenon

Alike(s, t, from, k) == \A n \in from..k : t[n] = s[n]
Follows(s, t, from, k) == \A n \in from..k : t[n] = s[n + 1]

\* What is on its way, as pictures.
Frames(s, k) == [n \in 1..k |-> s[n]]
LEMMA FramesProperties ==
    ASSUME NEW k \in Nat, NEW s, NEW S, \A n \in 1..k : s[n] \in S
    PROVE  /\ Frames(s, k) \in Seq(S) /\ Len(Frames(s, k)) = k
           /\ \A n \in 1..k : Frames(s, k)[n] = s[n]
  <1>1. Frames(s, k) \in [1..k -> S]
    BY DEF Frames
  <1>2. Frames(s, k) \in Seq(S) /\ Len(Frames(s, k)) = k
    BY <1>1, LenOfFunction
  <1>3. QED
    BY <1>2 DEF Frames

LEMMA FramesAppended ==
    ASSUME NEW k \in Nat, NEW s, NEW t, Alike(s, t, 1, k)
    PROVE  Frames(t, k + 1) = Append(Frames(s, k), t[k + 1])
  <1> USE DEF Alike
  <1> DEFINE S == {t[n] : n \in 1..k + 1}
  <1>1. k + 1 \in Nat /\ k + 1 \in 1..k + 1 /\ \A n \in 1..k : n \in 1..k + 1
    OBVIOUS
  <1>2. \A n \in 1..k + 1 : t[n] \in S
    OBVIOUS
  <1>3. \A n \in 1..k : s[n] \in S
    BY <1>1, <1>2
  <1> HIDE DEF S
  <1>4. /\ Frames(t, k + 1) \in Seq(S) /\ Len(Frames(t, k + 1)) = k + 1
        /\ \A n \in 1..k + 1 : Frames(t, k + 1)[n] = t[n]
    BY <1>1, <1>2, FramesProperties
  <1>5. /\ Frames(s, k) \in Seq(S) /\ Len(Frames(s, k)) = k
        /\ \A n \in 1..k : Frames(s, k)[n] = s[n]
    BY <1>3, FramesProperties
  <1> DEFINE a == Append(Frames(s, k), t[k + 1])
  <1>6. /\ a \in Seq(S) /\ Len(a) = k + 1
        /\ \A n \in 1..k : a[n] = s[n]
        /\ a[k + 1] = t[k + 1]
    <2>1. t[k + 1] \in S
      BY <1>1, <1>2
    <2>2. /\ a \in Seq(S) /\ Len(a) = Len(Frames(s, k)) + 1
          /\ \A n \in 1..Len(Frames(s, k)) : a[n] = Frames(s, k)[n]
          /\ a[Len(Frames(s, k)) + 1] = t[k + 1]
      BY <1>5, <2>1, AppendProperties
    <2>3. QED
      BY <1>5, <2>2
  <1> HIDE DEF a
  <1>7. \A n \in 1..k + 1 : Frames(t, k + 1)[n] = a[n]
    <2> TAKE n \in 1..k + 1
    <2>1. n \in 1..k \/ n = k + 1
      OBVIOUS
    <2>2. QED
      BY <1>4, <1>6, <2>1
  <1>8. Frames(t, k + 1) = a
    BY <1>4, <1>6, <1>7, SeqEqual
  <1>9. QED
    BY <1>8 DEF a

LEMMA FramesShifted ==
    ASSUME NEW k \in Nat, NEW s, NEW t, Follows(s, t, 1, k)
    PROVE  /\ Frames(s, k + 1) # <<>> /\ Head(Frames(s, k + 1)) = s[1]
           /\ Frames(t, k) = Tail(Frames(s, k + 1))
  <1> USE DEF Follows
  <1> DEFINE S == {s[n] : n \in 1..k + 1}
             f == Frames(s, k + 1)
  <1>1. k + 1 \in Nat /\ \A n \in 1..k : n + 1 \in 1..k + 1
    OBVIOUS
  <1>2. \A n \in 1..k + 1 : s[n] \in S
    OBVIOUS
  <1>3. \A n \in 1..k : t[n] \in S
    BY <1>1, <1>2
  <1> HIDE DEF S
  <1>4. f \in Seq(S) /\ Len(f) = k + 1 /\ \A n \in 1..k + 1 : f[n] = s[n]
    BY <1>1, <1>2, FramesProperties
  <1>5. Frames(t, k) \in Seq(S) /\ Len(Frames(t, k)) = k /\ \A n \in 1..k : Frames(t, k)[n] = t[n]
    BY <1>3, FramesProperties
  <1> HIDE DEF f
  <1>6. f # <<>>
    BY <1>4, EmptySeq
  <1>7. /\ Tail(f) \in Seq(S) /\ Len(Tail(f)) = k
        /\ \A n \in 1..k : Tail(f)[n] = s[n + 1]
    BY <1>1, <1>4, <1>6, HeadTailProperties
  <1>8. Head(f) = s[1]
    BY <1>4, <1>6
  <1>9. Frames(t, k) = Tail(f)
    BY <1>5, <1>7, SeqEqual
  <1>10. QED
    BY <1>6, <1>8, <1>9 DEF f

LEMMA FramesCut ==
    ASSUME NEW k \in Nat, NEW n \in 0..k, NEW s, NEW t, Alike(s, t, 1, n)
    PROVE  Frames(t, n) = SubSeq(Frames(s, k), 1, n)
  <1> USE DEF Alike
  <1> DEFINE S == {s[i] : i \in 1..k}
             f == Frames(s, k)
  <1>1. n \in Nat /\ 1 \in Int /\ n \in Int /\ \A i \in 1..n : i \in 1..k
    OBVIOUS
  <1>2. \A i \in 1..k : s[i] \in S
    OBVIOUS
  <1>3. \A i \in 1..n : t[i] \in S
    BY <1>1, <1>2
  <1> HIDE DEF S
  <1>4. f \in Seq(S) /\ Len(f) = k /\ \A i \in 1..k : f[i] = s[i]
    BY <1>2, FramesProperties
  <1>5. Frames(t, n) \in Seq(S) /\ Len(Frames(t, n)) = n /\ \A i \in 1..n : Frames(t, n)[i] = t[i]
    BY <1>1, <1>3, FramesProperties
  <1> HIDE DEF f
  <1>6. \A i \in 1..n : f[i] \in S
    BY <1>1, <1>2, <1>4
  <1>7. /\ SubSeq(f, 1, n) \in Seq(S)
        /\ Len(SubSeq(f, 1, n)) = IF 1 <= n THEN n - 1 + 1 ELSE 0
        /\ \A i \in 1..n - 1 + 1 : SubSeq(f, 1, n)[i] = f[1 + i - 1]
    BY <1>1, <1>6, SubSeqProperties
  <1>8. Len(SubSeq(f, 1, n)) = n /\ \A i \in 1..n : SubSeq(f, 1, n)[i] = f[i]
    BY <1>1, <1>7
  <1>9. Frames(t, n) = SubSeq(f, 1, n)
    BY <1>1, <1>4, <1>5, <1>7, <1>8, SeqEqual
  <1>10. QED
    BY <1>9 DEF f

\* Added, and all of it that a step says of every sum.
LEMMA AddedProperties ==
    ASSUME TypeOK, SumExists
    PROVE  /\ IsSum(Added) /\ Len(link) \in Nat /\ Added[0] = seen
           /\ \A s : IsSum(s) => s = Added
  <1>1. Len(link) \in Nat
    BY LenProperties DEF TypeOK
  <1>2. IsSum(Added)
    BY AddedIsSum
  <1>3. Added[0] = seen
    BY <1>2, Zenon DEF IsSum, AddsUp
  <1>4. \A s : IsSum(s) => s = Added
    BY <1>1, <1>2, SumUnique, Zenon DEF IsSum
  <1>5. QED
    BY <1>1, <1>2, <1>3, <1>4

LEMMA AddedIsSumNext ==
    ASSUME TypeOK', SumExists'
    PROVE  IsSum(Added)' /\ Len(link') \in Nat /\ Added'[0] = seen'
  <1>1. Len(link') \in Nat
    BY LenProperties DEF TypeOK
  <1>2. PICK s : AddsUp(s, seen', link', Len(link'))
    BY DEF SumExists, IsSum
  <1>3. IsAdded(s, seen', link', Len(link'))
    BY <1>1, <1>2, SumAsFunction
  <1>4. IsAdded(Added', seen', link', Len(link'))
    BY <1>3, Zenon DEF IsAdded, Added
  <1>5. AddsUp(Added', seen', link', Len(link'))
    BY <1>1, <1>4, SumAsFunction
  <1>6. QED
    BY <1>1, <1>5, Zenon DEF IsSum, AddsUp

\* Frames in front that are the same add up to the same.
LEMMA SumsAgree ==
    ASSUME NEW picture, NEW frames, NEW others, NEW k \in Nat, NEW l \in Nat,
           NEW j \in Nat, j <= k, j <= l, NEW s, NEW t,
           Alike(frames, others, 1, j),
           AddsUp(s, picture, frames, k), AddsUp(t, picture, others, l)
    PROVE  Alike(s, t, 0, j)
  <1> USE DEF Alike
  <1>1. j \in 0..k /\ j \in 0..l /\ \A n \in 1..j : frames[n] = others[n]
    OBVIOUS
  <1> DEFINE u == [n \in 0..j |-> s[n]]
             v == [n \in 0..j |-> t[n]]
  <1>2. AddsUp(u, picture, frames, j)
    BY <1>1, SumRestricted
  <1>3. AddsUp(v, picture, others, j)
    BY <1>1, SumRestricted
  <1>4. AddsUp(v, picture, frames, j)
    BY <1>1, <1>3, SumSame
  <1>5. u = v
    BY <1>2, <1>4, SumUnique
  <1>6. \A n \in 0..j : u[n] = s[n] /\ v[n] = t[n]
    OBVIOUS
  <1>7. QED
    BY <1>5, <1>6

\* Frames after the first add up, from where it leaves off, to the same.
LEMMA SumsAgreeShifted ==
    ASSUME NEW picture, NEW frames, NEW others, NEW k \in Nat, NEW s, NEW t,
           Follows(frames, others, 1, k),
           AddsUp(s, picture, frames, k + 1),
           AddsUp(t, Patched(picture, frames[1]), others, k)
    PROVE  Follows(s, t, 0, k)
  <1> USE DEF Follows
  <1>1. SumsWithFirst(t, picture, frames, k)
    BY SumPrepended
  <1>2. PICK u : AddsUp(u, picture, frames, k + 1) /\ \A n \in 0..k : u[n + 1] = t[n]
    BY <1>1 DEF SumsWithFirst
  <1>3. k + 1 \in Nat
    OBVIOUS
  <1>4. u = s
    BY <1>2, <1>3, SumUnique
  <1>5. QED
    BY <1>2, <1>4

\* The frames on their way, after a step: the same, one more, one less, or only
\* the first of them.
LEMMA FramesKept ==
    ASSUME TypeOK, TypeOK', SumExists, SumExists', UNCHANGED <<link, seen>>
    PROVE  Frames(Added', Len(link')) = Frames(Added, Len(link))
  <1>1. IsSum(Added) /\ IsSum(Added)' /\ Len(link) \in Nat
    BY AddedProperties, AddedIsSumNext
  <1>2. AddsUp(Added, seen, link, Len(link)) /\ AddsUp(Added', seen, link, Len(link))
    BY <1>1 DEF IsSum
  <1>3. Added' = Added
    BY <1>1, <1>2, SumUnique
  <1>4. QED
    BY <1>3

LEMMA FramesSent ==
    ASSUME TypeOK, TypeOK', SumExists, SumExists', seen' = seen,
           NEW p \in Payloads, link' = Append(link, p)
    PROVE  Frames(Added', Len(link'))
              = Append(Frames(Added, Len(link)), Patched(Added[Len(link)], p))
  <1>1. IsSum(Added) /\ IsSum(Added)' /\ Len(link) \in Nat
    BY AddedProperties, AddedIsSumNext
  <1>2. /\ Len(link') = Len(link) + 1 /\ Len(link') \in Nat
        /\ \A n \in 1..Len(link) : link'[n] = link[n]
        /\ link'[Len(link) + 1] = p
    BY <1>1, AppendProperties DEF TypeOK
  <1>3. AddsUp(Added, seen, link, Len(link)) /\ AddsUp(Added', seen, link', Len(link'))
    BY <1>1 DEF IsSum
  <1>4. Alike(Added, Added', 0, Len(link))
    <2>1. Len(link) <= Len(link) /\ Len(link) <= Len(link') /\ Alike(link, link', 1, Len(link))
      BY <1>1, <1>2 DEF Alike
    <2>2. QED
      BY <1>1, <1>2, <1>3, <2>1, SumsAgree, Zenon
  <1>5. Added'[Len(link')] = Patched(Added[Len(link)], p)
    <2>1. Len(link') \in 1..Len(link') /\ Len(link') - 1 = Len(link) /\ Len(link) \in 0..Len(link)
      BY <1>1, <1>2
    <2>2. Added'[Len(link')] = Patched(Added'[Len(link') - 1], link'[Len(link')])
      BY <1>3, <2>1, Zenon DEF AddsUp
    <2>3. Added'[Len(link') - 1] = Added[Len(link)] /\ link'[Len(link')] = p
      BY <1>2, <1>4, <2>1 DEF Alike
    <2>4. QED
      BY <2>2, <2>3
  <1>6. Alike(Added, Added', 1, Len(link))
    BY <1>1, <1>4 DEF Alike
  <1>7. Frames(Added', Len(link) + 1) = Append(Frames(Added, Len(link)), Added'[Len(link) + 1])
    BY <1>1, <1>6, FramesAppended
  <1>8. QED
    BY <1>2, <1>5, <1>7

LEMMA FramesLost ==
    ASSUME TypeOK, TypeOK', SumExists, SumExists', seen' = seen,
           NEW j \in 0..Len(link), link' = SubSeq(link, 1, j)
    PROVE  Frames(Added', Len(link')) = SubSeq(Frames(Added, Len(link)), 1, j)
  <1>1. IsSum(Added) /\ IsSum(Added)' /\ Len(link) \in Nat
    BY AddedProperties, AddedIsSumNext
  <1>2. Len(link') = j /\ j \in Nat /\ j <= Len(link) /\ \A n \in 1..j : link'[n] = link[n]
    <2>1. \A n \in 1..j : link[n] \in Payloads
      BY <1>1, ElementOfSeq DEF TypeOK
    <2>2. /\ Len(link') = IF 1 <= j THEN j - 1 + 1 ELSE 0
          /\ \A n \in 1..j - 1 + 1 : link'[n] = link[1 + n - 1]
      BY <1>1, <2>1, SubSeqProperties
    <2>3. QED
      BY <1>1, <2>1, <2>2
  <1>3. AddsUp(Added, seen, link, Len(link)) /\ AddsUp(Added', seen, link', j)
    BY <1>1, <1>2 DEF IsSum
  <1>4. Alike(Added, Added', 0, j)
    <2>1. j <= j /\ Alike(link, link', 1, j)
      BY <1>2 DEF Alike
    <2>2. QED
      BY <1>1, <1>2, <1>3, <2>1, SumsAgree, Zenon
  <1>5. Alike(Added, Added', 1, j)
    BY <1>4 DEF Alike
  <1>6. QED
    BY <1>1, <1>2, <1>5, FramesCut

LEMMA FramesArrived ==
    ASSUME TypeOK, TypeOK', SumExists, SumExists', link # <<>>,
           link' = Tail(link), seen' = Patched(seen, Head(link))
    PROVE  /\ Frames(Added, Len(link)) # <<>>
           /\ seen' = Head(Frames(Added, Len(link)))
           /\ Frames(Added', Len(link')) = Tail(Frames(Added, Len(link)))
  <1>1. IsSum(Added) /\ IsSum(Added)' /\ Len(link) \in Nat
    BY AddedProperties, AddedIsSumNext
  <1>2. /\ Len(link') \in Nat /\ Len(link) = Len(link') + 1
        /\ \A n \in 1..Len(link') : link'[n] = link[n + 1]
        /\ seen' = Patched(seen, link[1])
    BY HeadTailProperties, LenProperties DEF TypeOK
  <1>3. AddsUp(Added, seen, link, Len(link') + 1) /\ AddsUp(Added', seen', link', Len(link'))
    BY <1>1, <1>2 DEF IsSum
  <1>4. Follows(Added, Added', 0, Len(link'))
    <2>1. AddsUp(Added', Patched(seen, link[1]), link', Len(link'))
      BY <1>2, <1>3, Zenon
    <2>2. Follows(link, link', 1, Len(link'))
      BY <1>2 DEF Follows
    <2>3. QED
      BY <1>2, <1>3, <2>1, <2>2, SumsAgreeShifted, Zenon
  <1>5. Added[1] = seen'
    <2>1. 0 \in 0..Len(link') /\ 0 + 1 = 1
      BY <1>2
    <2>2. Added'[0] = Added[1]
      BY <1>4, <2>1 DEF Follows
    <2>3. QED
      BY <2>2, AddedIsSumNext
  <1>6. Follows(Added, Added', 1, Len(link'))
    BY <1>2, <1>4 DEF Follows
  <1>7. /\ Frames(Added, Len(link') + 1) # <<>>
        /\ Head(Frames(Added, Len(link') + 1)) = Added[1]
        /\ Frames(Added', Len(link')) = Tail(Frames(Added, Len(link') + 1))
    BY <1>2, <1>6, FramesShifted, Zenon
  <1>8. QED
    BY <1>2, <1>5, <1>7

LEMMA OnTheirWayIs ==
    /\ OnTheirWay = Frames(Added, Len(link))
    /\ OnTheirWay' = Frames(Added', Len(link'))
  BY Zenon DEF OnTheirWay, Frames

LEMMA OnTheirWayProperties ==
    ASSUME TypeOK, SumExists
    PROVE  /\ OnTheirWay \in Seq({Added[n] : n \in 1..Len(link)})
           /\ Len(OnTheirWay) = Len(link) /\ Len(link) \in Nat
           /\ Channel!Last = Added[Len(link)]
  <1> DEFINE S == {Added[n] : n \in 1..Len(link)}
  <1>1. Len(link) \in Nat /\ Added[0] = seen
    BY AddedProperties
  <1>2. \A n \in 1..Len(link) : Added[n] \in S
    OBVIOUS
  <1> HIDE DEF S
  <1>3. /\ OnTheirWay \in Seq(S) /\ Len(OnTheirWay) = Len(link)
        /\ \A n \in 1..Len(link) : OnTheirWay[n] = Added[n]
    BY <1>1, <1>2, FramesProperties, OnTheirWayIs
  <1>4. CASE Len(link) = 0
    <2>1. OnTheirWay = <<>>
      BY <1>3, <1>4, EmptySeq
    <2>2. QED
      BY <1>1, <1>3, <1>4, <2>1 DEF S, Channel!Last
  <1>5. CASE Len(link) # 0
    <2>1. OnTheirWay # <<>> /\ Len(link) \in 1..Len(link)
      BY <1>1, <1>3, <1>5, EmptySeq
    <2>2. QED
      BY <1>1, <1>3, <2>1 DEF S, Channel!Last
  <1>6. QED
    BY <1>4, <1>5

LEMMA InitChannel == Init => Channel!Init
  <1> SUFFICES ASSUME Init PROVE Channel!Init
    OBVIOUS
  <1>1. OnTheirWay = <<>>
    <2>1. Len(link) = 0
      BY EmptySeq DEF Init
    <2>2. OnTheirWay \in Seq({}) /\ Len(OnTheirWay) = 0
      BY <2>1, FramesProperties, OnTheirWayIs
    <2>3. QED
      BY <2>2, EmptySeq
  <1>2. QED
    BY <1>1 DEF Init, NothingMissing, Channel!Init

\* Nothing happens to the frames under way, unless the next one will be a keyframe.
LEMMA KeptOrBehind ==
    ASSUME TypeOK, TypeOK', SumExists, SumExists',
           UNCHANGED <<previous, open, link, seen>>,
           NothingMissing' = NothingMissing \/ NothingMissing' = FALSE
    PROVE  [Channel!Next]_Channel!channelVars
  <1>1. OnTheirWay' = OnTheirWay
    BY FramesKept, OnTheirWayIs
  <1>2. CASE NothingMissing' = NothingMissing
    BY <1>1, <1>2 DEF Channel!channelVars
  <1>3. CASE NothingMissing' = FALSE
    <2>1. Len(OnTheirWay) \in 0..Len(OnTheirWay)
      BY OnTheirWayProperties
    <2>2. OnTheirWay = SubSeq(OnTheirWay, 1, Len(OnTheirWay))
      <3> DEFINE S == {Added[n] : n \in 1..Len(link)}
                 w == OnTheirWay
      <3>1. w \in Seq(S) /\ Len(w) \in Nat
        BY OnTheirWayProperties
      <3> HIDE DEF S, w
      <3>2. \A i \in 1..Len(w) : w[i] \in S
        BY <3>1, ElementOfSeq
      <3>3. 1 \in Int /\ Len(w) \in Int
        BY <3>1
      <3>4. /\ SubSeq(w, 1, Len(w)) \in Seq(S)
            /\ Len(SubSeq(w, 1, Len(w))) = IF 1 <= Len(w) THEN Len(w) - 1 + 1 ELSE 0
            /\ \A i \in 1..Len(w) - 1 + 1 : SubSeq(w, 1, Len(w))[i] = w[1 + i - 1]
        BY <3>2, <3>3, SubSeqProperties
      <3>5. /\ Len(SubSeq(w, 1, Len(w))) = Len(w)
            /\ \A i \in 1..Len(w) : w[i] = SubSeq(w, 1, Len(w))[i]
        BY <3>1, <3>4
      <3>6. w = SubSeq(w, 1, Len(w))
        BY <3>1, <3>4, <3>5, SeqEqual
      <3>7. QED
        BY <3>6 DEF w
    <2>3. Channel!FallsBehind
      BY <1>1, <1>3, <2>1, <2>2 DEF Channel!FallsBehind
    <2>4. QED
      BY <2>3 DEF Channel!Next
  <1>4. QED
    BY <1>2, <1>3

\* A frame that is sent carries a whole picture to who has the one before.
LEMMA SendsWhole ==
    ASSUME TypeOK, TypeOK', StreamInv, StreamInv', Sends
    PROVE  Channel!Next
  <1> DEFINE picture == job.image
  <1>1. /\ job # Nothing /\ previous' = picture /\ streaming /\ streaming' = linked
        /\ UNCHANGED <<linked, open, attached, seen>>
    BY DEF Sends, Encoded, console, assembler
  <1>2. Payload \in Payloads /\ picture \in Pictures
    BY <1>1, SentProperties DEF StreamInv
  <1>3. CASE linked /\ attached
    <2>1. link' = Append(link, Payload)
      BY <1>3 DEF Sends
    <2>2. OnTheirWay' = Append(OnTheirWay, Patched(Added[Len(link)], Payload))
      BY <1>1, <1>2, <2>1, FramesSent, OnTheirWayIs DEF StreamInv
    <2>3. \/ Patched(Added[Len(link)], Payload) = picture
          \/ /\ Added[Len(link)] = Nothing
             /\ Patched(Added[Len(link)], Payload) = Nothing
      <3>1. CASE job.must
        BY <1>1, <3>1, SentProperties DEF StreamInv, Patched
      <3>2. CASE ~job.must
        <4>1. Added[Len(link)] \in {Nothing, previous}
          BY <1>1, <1>3, <3>2, AddedIsSum DEF StreamInv, SumIsPrevious, Compared
        <4>2. QED
          BY <1>1, <3>2, <4>1, SentProperties DEF StreamInv
      <3>3. QED
        BY <3>1, <3>2
    <2>4. Channel!Last = Added[Len(link)]
      BY OnTheirWayProperties DEF StreamInv
    <2>5. NothingMissing' \in BOOLEAN
      BY DEF NothingMissing
    <2>6. Channel!Sends(picture)
      BY <1>1, <1>3, <2>2, <2>3, <2>4, <2>5 DEF TypeOK, Channel!Sends
    <2>7. QED
      BY <1>2, <2>6 DEF Channel!Next
  <1>4. CASE ~(linked /\ attached)
    <2>1. link' = link
      BY <1>4 DEF Sends
    <2>2. OnTheirWay' = OnTheirWay
      BY <1>1, <2>1, FramesKept, OnTheirWayIs DEF StreamInv
    <2>3. NothingMissing' = FALSE
      BY <1>1, <1>4 DEF NothingMissing
    <2>4. Channel!SendsInVain(picture)
      BY <1>1, <2>2, <2>3 DEF Channel!SendsInVain
    <2>5. QED
      BY <1>2, <2>4 DEF Channel!Next
  <1>5. QED
    BY <1>3, <1>4

LEMMA NextChannel ==
    ASSUME TypeOK, TypeOK', StreamInv, StreamInv', [Next]_vars
    PROVE  [Channel!Next]_Channel!channelVars
  <1> USE DEF StreamInv, world, encoder, agent, console, assembler
  <1>1. CASE \/ ScreenChanges \/ Ages \/ StreamBegins \/ AgentHears \/ Grabs
             \/ Asks \/ Evicts
             \/ \E i \in 1..Decodings : Draws(i) \/ DecodeFails(i)
             \/ UNCHANGED vars
    <2>1. /\ UNCHANGED <<previous, open, link, seen>>
          /\ \/ UNCHANGED <<attached, streaming, linked, force>>
             \/ force' \/ ~attached'
      BY <1>1 DEF ScreenChanges, Ages, StreamBegins, AgentHears, Grabs, Asks, Evicts,
                  Draws, DecodeFails, vars
    <2>2. NothingMissing' = NothingMissing \/ NothingMissing' = FALSE
      BY <2>1 DEF NothingMissing
    <2>3. QED
      BY <2>1, <2>2, KeptOrBehind
  <1>2. CASE Sends
    BY <1>2, SendsWhole
  <1>3. CASE AgentDrops
    <2>1. PICK n \in 0..Len(link) : link' = SubSeq(link, 1, n)
      BY <1>3 DEF AgentDrops
    <2>2. UNCHANGED <<previous, console, seen>> /\ NothingMissing' = FALSE
      BY <1>3 DEF AgentDrops, NothingMissing
    <2>3. OnTheirWay' = SubSeq(OnTheirWay, 1, n)
      BY <2>1, <2>2, FramesLost, OnTheirWayIs
    <2>4. n \in 0..Len(OnTheirWay)
      BY OnTheirWayProperties
    <2>5. Channel!FallsBehind
      BY <2>2, <2>3, <2>4 DEF Channel!FallsBehind
    <2>6. QED
      BY <2>5 DEF Channel!Next
  <1>4. CASE Attaches
    <2>1. link = <<>> /\ link' = <<>> /\ ~open /\ open' = TRUE /\ seen' = Nothing
          /\ previous' = previous
      BY <1>4 DEF Attaches, ClosedLinkIsEmpty
    <2>2. OnTheirWay' = OnTheirWay
      <3>1. Len(link) = 0 /\ Len(link') = 0
        BY <2>1, EmptySeq
      <3>2. /\ OnTheirWay \in Seq({}) /\ Len(OnTheirWay) = 0
            /\ OnTheirWay' \in Seq({}) /\ Len(OnTheirWay') = 0
        BY <3>1, FramesProperties, OnTheirWayIs
      <3>3. QED
        BY <3>2, EmptySeq
    <2>3. NothingMissing' \in BOOLEAN
      BY DEF NothingMissing
    <2>4. Channel!Attaches
      BY <2>1, <2>2, <2>3 DEF Channel!Attaches, TypeOK
    <2>5. QED
      BY <2>4 DEF Channel!Next
  <1>5. CASE ConsoleDrops
    <2>1. link' = <<>> /\ open' = FALSE /\ attached' = FALSE /\ UNCHANGED <<previous, seen>>
      BY <1>5 DEF ConsoleDrops
    <2>2. OnTheirWay' = <<>>
      <3>1. Len(link') = 0
        BY <2>1, EmptySeq
      <3>2. OnTheirWay' \in Seq({}) /\ Len(OnTheirWay') = 0
        BY <3>1, FramesProperties, OnTheirWayIs
      <3>3. QED
        BY <3>2, EmptySeq
    <2>3. NothingMissing' = FALSE
      BY <2>1 DEF NothingMissing
    <2>4. Channel!Leaves
      BY <2>1, <2>2, <2>3 DEF Channel!Leaves
    <2>5. QED
      BY <2>4 DEF Channel!Next
  <1>6. CASE Arrives
    <2>1. /\ link # <<>> /\ link' = Tail(link) /\ seen' = Patched(seen, Head(link))
          /\ UNCHANGED <<agent, console>>
      BY <1>6 DEF Arrives
    <2>2. /\ OnTheirWay # <<>>
          /\ seen' = Head(OnTheirWay)
          /\ OnTheirWay' = Tail(OnTheirWay)
      BY <2>1, FramesArrived, OnTheirWayIs
    <2>3. NothingMissing' = NothingMissing
      BY <2>1 DEF NothingMissing
    <2>4. Channel!Arrives
      BY <2>1, <2>2, <2>3 DEF Channel!Arrives
    <2>5. QED
      BY <2>4 DEF Channel!Next
  <1>7. QED
    BY <1>1, <1>2, <1>3, <1>4, <1>5, <1>6 DEF Next

(* Although most frames carry only tiles, every step of the agent, the      *)
(* relay and the console is a step of a channel that carries whole          *)
(* pictures: what a viewer has seen is one picture the encoder sent after   *)
(* another, in order, whatever dropped (tiles.py `encode`, frames.ts        *)
(* `apply`).                                                                *)
THEOREM PicturesWhole == Spec => PicturesTravelWhole
  <1>1. TypeOK /\ StreamInv /\ (TypeOK /\ StreamInv)' /\ [Next]_vars
        => [Channel!Next]_Channel!channelVars
    BY NextChannel
  <1>2. QED
    BY <1>1, InitChannel, StreamInvariant, PTL DEF Spec, PicturesTravelWhole, Channel!Spec
=============================================================================
