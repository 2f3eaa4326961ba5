------------------------------ MODULE TileStream ------------------------------
(***************************************************************************)
(* The picture of the screen on its way to the operator: the agent's       *)
(* encoder (agent/rmm_agent/tiles.py), which sends a keyframe or the tiles *)
(* that changed, encoding in a worker thread while the receive task may    *)
(* ask for a keyframe; the relay, which hands frames to whichever operator *)
(* is attached and asks for a keyframe when one attaches (ws.py); and the  *)
(* console's assembler (console/src/lib/frames.ts), which decodes without  *)
(* waiting for its turn: what arrived later may be drawn earlier.          *)
(*                                                                         *)
(* A picture is a sequence of tiles, each a colour; its length is the size *)
(* of the screen.  Colour 0 is a tile nothing was drawn on.                *)
(***************************************************************************)
EXTENDS Naturals, Sequences, FiniteSets, SequencesExt

CONSTANTS
    Sizes,      \* the sizes a screen has
    Colours,    \* the number of colours
    Changes,    \* how often the screen changes
    Mishaps,    \* how often a connection drops or a decode fails
    Depth,      \* how many messages are on their way at most
    Decodings   \* how many are being decoded at most

ASSUME SizesAssumption == Sizes \subseteq Nat \ {0} /\ Colours \in Nat \ {0}
ASSUME BoundsAssumption ==
    Changes \in Nat /\ Mishaps \in Nat /\ Depth \in Nat /\ Decodings \in Nat

VARIABLES
    screen,     \* what the monitor shows
    changes, mishaps,
    streaming,  \* the agent's stream runs
    linked,     \* and its connection holds
    force, stale, previous,     \* _force_keyframe, _last_keyframe is old, _previous
    job,        \* the frame the worker thread encodes
    asked,      \* a keyframe request on its way to the agent
    open,       \* the console's socket
    attached,   \* the relay has it in the operator's slot
    asking,     \* and has yet to ask the agent for a keyframe
    stuck,      \* a send to a socket that has gone is still suspended
    link,       \* the frames on their way to it
    canvas, primed, decoding,   \* the assembler, and what it is decoding
    seen,       \* what the frames that arrived at this socket add up to
    muddled     \* some were decoded side by side, or one was not decoded

world == <<screen, changes>>
encoder == <<force, stale, previous, job>>
agent == <<streaming, linked, encoder>>
console == <<open, attached, asking, stuck>>
assembler == <<canvas, primed, decoding, seen, muddled>>
vars == <<world, mishaps, agent, asked, console, link, assembler>>

Nothing == <<>>
Pictures == UNION {[1..n -> 1..Colours] : n \in Sizes}
Canvases == {Nothing} \cup UNION {[1..n -> 0..Colours] : n \in Sizes}

(* A tile frame carries the tiles that changed: colour 0 stands for "same". *)
Keyframe(picture) == [kind |-> "key", tiles |-> picture]
Payloads == [kind : {"key"}, tiles : Pictures] \cup [kind : {"tiles"}, tiles : Canvases]

TypeOK ==
    /\ screen \in Pictures
    /\ changes \in 0..Changes /\ mishaps \in 0..Mishaps
    /\ streaming \in BOOLEAN /\ linked \in BOOLEAN
    /\ force \in BOOLEAN /\ stale \in BOOLEAN
    /\ previous \in Pictures \cup {Nothing}
    /\ job \in {Nothing} \cup [image : Pictures, must : BOOLEAN]
    /\ asked \in BOOLEAN /\ open \in BOOLEAN
    /\ attached \in BOOLEAN /\ asking \in BOOLEAN /\ stuck \in BOOLEAN
    /\ attached \/ asking => open
    /\ link \in Seq(Payloads) /\ Len(link) <= Depth
    /\ canvas \in Canvases
    /\ primed \in BOOLEAN
    /\ decoding \in Seq(Payloads) /\ Len(decoding) <= Decodings
    /\ seen \in Pictures \cup {Nothing}
    /\ muddled \in BOOLEAN

Init ==
    /\ \E n \in Sizes : screen = [i \in 1..n |-> 1]
    /\ changes = 0 /\ mishaps = 0
    /\ streaming = FALSE /\ linked = FALSE
    /\ force = TRUE /\ stale = TRUE
    /\ previous = Nothing
    /\ job = Nothing
    /\ asked = FALSE
    /\ open = FALSE /\ attached = FALSE
    /\ asking = FALSE /\ stuck = FALSE
    /\ link = <<>>
    /\ canvas = Nothing /\ primed = FALSE
    /\ decoding = <<>>
    /\ seen = Nothing
    /\ muddled = FALSE

-----------------------------------------------------------------------------
(* The screen, and the clock of the encoder. *)

ScreenChanges ==
    /\ changes < Changes
    /\ changes' = changes + 1
    /\ \E picture \in Pictures \ {screen} : screen' = picture
    /\ UNCHANGED <<mishaps, agent, asked, console, link, assembler>>

Ages ==
    /\ ~stale
    /\ stale' = TRUE
    /\ UNCHANGED <<world, mishaps, streaming, linked, force, previous, job,
                   asked, console, link, assembler>>

-----------------------------------------------------------------------------
(* The agent. *)

(* Consent is granted, or the relay is there again: the stream begins.      *)
StreamBegins ==
    /\ ~streaming
    /\ streaming' = TRUE /\ linked' = TRUE
    /\ force' = TRUE
    /\ UNCHANGED <<world, mishaps, stale, previous, job,
                   asked, console, link, assembler>>

AgentHears ==
    /\ asked /\ streaming
    /\ asked' = FALSE
    /\ force' = TRUE
    /\ UNCHANGED <<world, mishaps, streaming, linked, stale, previous, job,
                   console, link, assembler>>

Same(n) == [i \in 1..n |-> 0]
Changed(image) ==
    [i \in 1..Len(image) |-> IF image[i] = previous[i] THEN 0 ELSE image[i]]
Count(tiles) == Cardinality({i \in DOMAIN tiles : tiles[i] # 0})

(* More than 55 per cent of the tiles. *)
Full(tiles) == 100 * Count(tiles) > 55 * Len(tiles)

\* Fault: the age of the last keyframe does not count.
MustKeyUnlessOld(image) ==
    \/ force \/ previous = Nothing
    \/ Len(image) # Len(previous)
    \/ Full(Changed(image))
MustKey(image) ==
    \/ force \/ stale \/ previous = Nothing
    \/ Len(image) # Len(previous)
    \/ Full(Changed(image))

(* The frame is grabbed and the worker decides what it will be. *)
Grabs ==
    /\ streaming /\ job = Nothing
    /\ job' = [image |-> screen, must |-> MustKey(screen)]
    /\ UNCHANGED <<world, mishaps, streaming, linked, force, stale, previous,
                   asked, console, link, assembler>>

Payload ==
    IF job.must THEN Keyframe(job.image)
    ELSE [kind |-> "tiles", tiles |-> Changed(job.image)]

(* It is encoded and sent.  Whoever is attached to the relay gets it; a     *)
(* connection that is gone ends the stream instead.                         *)
\* Fault: every frame answers the request, not only keyframes.
EncodedForgetful ==
    /\ previous' = job.image
    /\ force' = FALSE
    /\ stale' = IF job.must THEN FALSE ELSE stale
\* Fault: what was sent is kept, not the frame.
EncodedAsSent ==
    /\ previous' = Payload.tiles
    /\ IF job.must
       THEN force' = FALSE /\ stale' = FALSE
       ELSE UNCHANGED <<force, stale>>
\* Fault: what a tile frame changed is not remembered.
EncodedFromKeyframe ==
    IF job.must
    THEN previous' = job.image /\ force' = FALSE /\ stale' = FALSE
    ELSE UNCHANGED <<previous, force, stale>>
Encoded ==
    /\ previous' = job.image
    /\ IF job.must
       THEN force' = FALSE /\ stale' = FALSE
       ELSE UNCHANGED <<force, stale>>

Sends ==
    /\ streaming /\ job # Nothing
    /\ Encoded
    /\ job' = Nothing
    /\ streaming' = linked
    /\ IF linked /\ attached
       THEN Len(link) < Depth /\ link' = Append(link, Payload)
       ELSE UNCHANGED link
    /\ UNCHANGED <<world, mishaps, linked, asked, console, assembler>>

(* The connection is lost, with what it had not delivered. *)
AgentDrops ==
    /\ streaming /\ linked
    /\ mishaps < Mishaps
    /\ mishaps' = mishaps + 1
    /\ linked' = FALSE
    /\ asked' = FALSE
    /\ \E n \in 0..Len(link) : link' = SubSeq(link, 1, n)
    /\ UNCHANGED <<world, streaming, encoder, console, assembler>>

-----------------------------------------------------------------------------
(* The console. *)

(* The relay accepts the socket and puts it into the operator's slot.  What *)
(* an earlier socket brought may still be being decoded.                    *)
Attaches ==
    /\ ~open
    /\ open' = TRUE /\ attached' = TRUE
    /\ asking' = TRUE
    /\ primed' = FALSE
    /\ seen' = Nothing
    /\ muddled' = (decoding # <<>>)
    /\ UNCHANGED <<world, mishaps, agent, asked, stuck, link, canvas, decoding>>

(* Some awaits later it asks the agent, if there is one, for a keyframe.    *)
Asks ==
    /\ asking
    /\ asking' = FALSE
    /\ asked' = linked
    /\ UNCHANGED <<world, mishaps, agent, open, attached, stuck, link, assembler>>

(* The socket goes, and may leave a send to it suspended.                   *)
ConsoleDrops ==
    /\ open
    /\ mishaps < Mishaps
    /\ mishaps' = mishaps + 1
    /\ open' = FALSE /\ attached' = FALSE
    /\ asking' = FALSE
    /\ stuck' \in {stuck, stuck \/ attached}
    /\ link' = <<>>
    /\ UNCHANGED <<world, agent, asked, assembler>>

(* That send raises and empties the slot, whoever is in it by now.  (Until  *)
(* then the handler that is suspended passes nothing on; others may.)       *)
Evicts ==
    /\ stuck
    /\ stuck' = FALSE
    /\ attached' = FALSE
    /\ UNCHANGED <<world, mishaps, agent, asked, open, asking, link, assembler>>

Patched(old, payload) ==
    IF payload.kind = "key" THEN payload.tiles
    ELSE IF Len(old) # Len(payload.tiles) THEN Nothing
    ELSE [i \in 1..Len(old) |-> IF payload.tiles[i] = 0 THEN old[i] ELSE payload.tiles[i]]

(* A frame of another size begins a new canvas.  Tiles without a picture    *)
(* are of no use, nor is a frame without tiles.                             *)
\* Fault: a canvas is kept whatever the size.
EnsuresOnce(size) ==
    IF canvas # Nothing
    THEN UNCHANGED <<canvas, primed>>
    ELSE canvas' = Same(size) /\ primed' = FALSE
Ensures(size) ==
    IF Len(canvas) = size
    THEN UNCHANGED <<canvas, primed>>
    ELSE canvas' = Same(size) /\ primed' = FALSE

Arrives ==
    /\ open /\ link # <<>>
    /\ Len(decoding) < Decodings
    /\ LET payload == Head(link)
       IN /\ Ensures(Len(payload.tiles))
          /\ decoding' = IF payload.kind = "key" \/ (primed' /\ Count(payload.tiles) > 0)
                         THEN Append(decoding, payload) ELSE decoding
          /\ seen' = Patched(seen, payload)
          /\ muddled' = IF decoding # <<>> THEN TRUE
                        ELSE IF payload.kind = "key" THEN FALSE ELSE muddled
    /\ link' = Tail(link)
    /\ UNCHANGED <<world, mishaps, agent, asked, console>>

(* A decoded picture is drawn on the canvas there is now, as much of it as  *)
(* fits, and a keyframe makes it a picture.                                 *)
Drawn(tiles) ==
    [i \in 1..Len(canvas) |->
        IF i <= Len(tiles) /\ tiles[i] # 0 THEN tiles[i] ELSE canvas[i]]

Draws(i) ==
    /\ i \in 1..Len(decoding)
    /\ canvas' = Drawn(decoding[i].tiles)
    /\ primed' = IF decoding[i].kind = "key" THEN TRUE ELSE primed
    /\ decoding' = RemoveAt(decoding, i)
    /\ UNCHANGED <<world, mishaps, agent, asked, console, link, seen, muddled>>

DecodeFails(i) ==
    /\ i \in 1..Len(decoding)
    /\ mishaps < Mishaps
    /\ mishaps' = mishaps + 1
    /\ decoding' = RemoveAt(decoding, i)
    /\ muddled' = TRUE
    /\ UNCHANGED <<world, agent, asked, console, link, canvas, primed, seen>>

Next ==
    \/ ScreenChanges \/ Ages
    \/ StreamBegins \/ AgentHears \/ Grabs \/ Sends \/ AgentDrops
    \/ Attaches \/ Asks \/ ConsoleDrops \/ Evicts \/ Arrives
    \/ \E i \in 1..Decodings : Draws(i) \/ DecodeFails(i)

Spec == Init /\ [][Next]_vars

(* Time passes, the agent and the console come back after a drop, the relay *)
(* asks, frames travel and decodes end; what changes, drops or fails is     *)
(* free, and so is whether a suspended send raises.                         *)
FairSpec ==
    /\ Spec
    /\ WF_vars(Ages)
    /\ WF_vars(StreamBegins) /\ WF_vars(AgentHears) /\ WF_vars(Grabs) /\ WF_vars(Sends)
    /\ WF_vars(Attaches) /\ WF_vars(Asks) /\ WF_vars(Arrives) /\ WF_vars(Draws(1))

-----------------------------------------------------------------------------
(* tiles.py:60 and ws.py:423: an operator who is attached has a picture, or *)
(* a keyframe is on its way: about to be asked for, asked for, in the       *)
(* request flag, in the worker thread or in the link.  The flag is cleared when a keyframe has been     *)
(* encoded, even if it was raised meanwhile: that keyframe answers it.      *)
PictureIsComing ==
    attached /\ streaming /\ linked =>
        \/ seen # Nothing
        \/ asking \/ asked \/ force
        \/ job # Nothing /\ job.must
        \/ \E i \in DOMAIN link : link[i].kind = "key"

(* tiles.py:118: what has been sent adds up to the frame the next one is    *)
(* compared with, whatever mixture of keyframes, tiles and resizes it was,  *)
(* for everybody who has seen one keyframe.  (A frame that was lost with    *)
(* the connection is forgiven: the next stream begins with a keyframe.)     *)
Added[n \in 0..Len(link)] ==
    IF n = 0 THEN seen ELSE Patched(Added[n - 1], link[n])
NothingMissing == attached /\ streaming /\ linked /\ ~force
FramesAddUp ==
    LET picture == Added[Len(link)]
    IN NothingMissing /\ picture # Nothing => picture = previous

(* The same over every step: the frames are whole pictures on a channel.    *)
OnTheirWay == [n \in 1..Len(link) |-> Added[n]]
Channel == INSTANCE PictureChannel WITH
    sent <- previous,
    attached <- open,
    complete <- NothingMissing,
    queue <- OnTheirWay,
    view <- seen

(* tiles.py:118, frames.ts:60: what a viewer sees is one frame the encoder  *)
(* sent after another, in order and whole, although most carry only tiles.  *)
PicturesTravelWhole == Channel!Spec

(* frames.ts:61: once everything is decoded the canvas is the picture the   *)
(* frames add up to, if each was decoded before the next arrived; after one *)
(* that was not, from the next keyframe decoded alone.                      *)
CanvasIsExact ==
    decoding = <<>> /\ primed /\ ~muddled => canvas = seen

(* tiles.py:17: a viewer that missed an update, drew two in the wrong order *)
(* or was away does not stay wrong: when the screen is still it is shown,   *)
(* unless a send to an earlier socket evicted the one there is (hub.py:239).*)
PictureIsRepaired == <>[](canvas = screen) \/ <>[](open /\ ~attached)

(* stream.ts:123: "the next keyframe repairs it".  Not so for the evicted   *)
(* viewer, whose socket stays open and is not attached again.  (Unchecked.) *)
PictureIsAlwaysRepaired == <>[](canvas = screen)
=============================================================================
