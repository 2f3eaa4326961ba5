----------------------------- MODULE ConsentGate -----------------------------
(***************************************************************************)
(* What the relay promises the person at the endpoint, whatever handlers,  *)
(* sockets and transactions do it: a connection is asked once, shows       *)
(* something only after its own recorded permission, never after a         *)
(* refusal, and never again once it is over.                               *)
(***************************************************************************)
CONSTANT Guests

VARIABLES
    phase,   \* "away", "asked", "sharing", "refused" or "over"
    shown    \* the connections something of which reached the operator's side

gateVars == <<phase, shown>>

Init == /\ phase = [g \in Guests |-> "away"]
        /\ shown = {}

Moves(g, from, to) == /\ phase[g] \in from
                      /\ phase' = [phase EXCEPT ![g] = to]
                      /\ shown' = shown

Asks(g) == Moves(g, {"away"}, "asked")
Allows(g) == Moves(g, {"asked"}, "sharing")
Refuses(g) == Moves(g, {"asked"}, "refused")
Leaves(g) == Moves(g, {"away", "asked", "sharing", "refused"}, "over")

Shows(g) == /\ phase[g] = "sharing"
            /\ shown' = shown \cup {g}
            /\ phase' = phase

\* The relay stops: every connection that was not still to come is over.
Stops == /\ phase' \in [Guests -> {"away", "over"}]
         /\ \A g \in Guests : phase'[g] = "away" => phase[g] = "away"
         /\ shown' = shown

Next == \/ \E g \in Guests :
              Asks(g) \/ Allows(g) \/ Refuses(g) \/ Leaves(g) \/ Shows(g)
        \/ Stops

Spec == Init /\ [][Next]_gateVars
=============================================================================
