---------------------------- MODULE PictureChannel ----------------------------
(***************************************************************************)
(* What the encoder, the relay and the assembler promise together: frames  *)
(* carry only what has changed, and yet it is as if every frame were a     *)
(* whole picture, travelling in order to whoever watches.  A viewer sees   *)
(* one picture that was sent after another, never a mixture of two, and    *)
(* does not lose the one it has while it stays attached; with nothing      *)
(* missing the last one under way is the one that was sent last.           *)
(***************************************************************************)
EXTENDS Naturals, Sequences

CONSTANTS Pictures, Nothing

VARIABLES
    sent,       \* the picture that was sent last
    attached,   \* somebody watches
    complete,   \* and nothing that was sent is missing
    queue,      \* the pictures on their way
    view        \* the picture that arrived last

channelVars == <<sent, attached, complete, queue, view>>

Init ==
    /\ sent = Nothing
    /\ attached = FALSE /\ complete = FALSE
    /\ queue = <<>>
    /\ view = Nothing

Last == IF queue = <<>> THEN view ELSE queue[Len(queue)]

(* Who has no picture yet may have to wait for another one. *)
Sends(picture) ==
    /\ attached
    /\ sent' = picture
    /\ complete' \in BOOLEAN
    /\ \/ queue' = Append(queue, picture)
       \/ Last = Nothing /\ queue' = Append(queue, Nothing)
    /\ UNCHANGED <<attached, view>>

SendsInVain(picture) ==
    /\ sent' = picture
    /\ complete' = FALSE
    /\ UNCHANGED <<attached, queue, view>>

Arrives ==
    /\ queue # <<>>
    /\ view' = Head(queue)
    /\ queue' = Tail(queue)
    /\ UNCHANGED <<sent, attached, complete>>

(* What was sent last is lost, or the next picture will have to be sent     *)
(* whatever the viewer has.                                                 *)
FallsBehind ==
    /\ complete' = FALSE
    /\ \E n \in 0..Len(queue) : queue' = SubSeq(queue, 1, n)
    /\ UNCHANGED <<sent, attached, view>>

Attaches ==
    /\ ~attached
    /\ attached' = TRUE
    /\ complete' \in BOOLEAN
    /\ view' = Nothing
    /\ UNCHANGED <<sent, queue>>

Leaves ==
    /\ attached' = FALSE /\ complete' = FALSE
    /\ queue' = <<>>
    /\ UNCHANGED <<sent, view>>

Next ==
    \/ \E picture \in Pictures : Sends(picture) \/ SendsInVain(picture)
    \/ Arrives \/ FallsBehind
    \/ Attaches \/ Leaves

Spec == Init /\ [][Next]_channelVars
=============================================================================
