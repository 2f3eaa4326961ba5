------------------------- MODULE SessionRelayProofs -------------------------
(***************************************************************************)
(* Proofs about SessionRelay for any sets of connections, calls and        *)
(* channel objects, and any subset of the requests and faults: its types;  *)
(* that what leaves a connection follows that connection's recorded        *)
(* consent, and so implements ConsentGate; and that the hub's slots name   *)
(* live handlers, which no cleanup but their own evicts.                   *)
(***************************************************************************)
EXTENDS SessionRelay, TLAPS

-----------------------------------------------------------------------------
(* The inductive invariant.                                                *)

\* A handler in a send resumes where one of the three senders would.
SendsResume ==
    \A h \in Conns : pc[h] = "sending" => snd[h].next \in {"loop", "denying", "done"}

\* close_session waits on an operator socket only when there was one.
HangingHasOperator ==
    \A e \in Calls : pc[e] = "hanging" => snd[e].to \in Conns

TypeInv == TypeOK /\ SendsResume /\ HangingHasOperator

\* What the start of a send leaves of pc and snd: the handler waits in the send
\* or has passed it.
SendRecords == [ch: Chans \cup {None}, to: Conns \cup {None}, next: PCs]

SendShape(h) ==
    \E next \in {"loop", "denying", "done"} :
       \/ /\ pc' = [pc EXCEPT ![h] = "sending"]
          /\ \E d \in SendRecords :
                d.next = next /\ snd' = [snd EXCEPT ![h] = d]
       \/ /\ pc' = [pc EXCEPT ![h] = next]
          /\ snd' = snd

LEMMA SendKeepsTypes ==
    ASSUME TypeInv, NEW h \in Conns, SendShape(h)
    PROVE  /\ pc' \in [Actors -> PCs]
           /\ snd' \in [Actors -> SendRecords]
           /\ SendsResume'
           /\ HangingHasOperator'
  <1> USE ActorsAssumption DEF TypeInv, TypeOK, Conns, Actors, SendRecords
  <1>1. PICK next \in {"loop", "denying", "done"} :
           \/ /\ pc' = [pc EXCEPT ![h] = "sending"]
              /\ \E d \in SendRecords :
                    d.next = next /\ snd' = [snd EXCEPT ![h] = d]
           \/ /\ pc' = [pc EXCEPT ![h] = next]
              /\ snd' = snd
    BY DEF SendShape
  <1>2. pc' \in [Actors -> PCs]
    BY <1>1 DEF PCs
  <1>3. snd' \in [Actors -> SendRecords]
    BY <1>1
  <1>4. \A x \in Actors \ {h} : pc'[x] = pc[x] /\ snd'[x] = snd[x]
    BY <1>1
  <1>5. pc'[h] = "sending" => snd'[h].next \in {"loop", "denying", "done"}
    BY <1>1
  <1>6. SendsResume'
    BY <1>4, <1>5 DEF SendsResume
  <1>7. HangingHasOperator'
    BY <1>4 DEF HangingHasOperator
  <1>8. QED
    BY <1>2, <1>3, <1>6, <1>7

LEMMA SendsShape ==
    ASSUME TypeInv, NEW h \in Conns, NEW next \in {"loop", "denying", "done"},
           \/ Sends(h, current, operator, next)
           \/ Sends(h, current, guest, next)
           \/ Sends(h, None, guest, next)
    PROVE  SendShape(h)
  <1> USE DEF TypeInv, TypeOK
  <1>1. CASE snd' = snd /\ pc' = [pc EXCEPT ![h] = next]
    BY <1>1 DEF SendShape
  <1>2. CASE current # None
    <2> DEFINE toOperator == [ch |-> current, to |-> operator[current], next |-> next]
               toGuest == [ch |-> current, to |-> guest[current], next |-> next]
    <2>1. toOperator \in SendRecords /\ toGuest \in SendRecords
      BY <1>2 DEF SendRecords, Conns, PCs
    <2>2. toOperator.next = next /\ toGuest.next = next
      OBVIOUS
    <2>3. \/ snd' = snd /\ pc' = [pc EXCEPT ![h] = next]
          \/ /\ pc' = [pc EXCEPT ![h] = "sending"]
             /\ \/ snd' = [snd EXCEPT ![h] = toOperator]
                \/ snd' = [snd EXCEPT ![h] = toGuest]
      BY <1>2 DEF Sends
    <2> HIDE DEF toOperator, toGuest
    <2>4. QED
      BY <1>1, <2>1, <2>2, <2>3 DEF SendShape
  <1>3. CASE current = None
    BY <1>1, <1>3 DEF Sends
  <1>4. QED
    BY <1>2, <1>3

LEMMA GuestSends ==
    ASSUME TypeInv, NEW g \in Guests,
           \/ GuestHelloCommits(g) \/ GuestGrantCommits(g) \/ GuestForwards(g)
           \/ GuestDenialCommits(g) \/ GuestLeaveCommits(g)
    PROVE  SendShape(g)
  <1>1. g \in Conns
    BY DEF Conns
  <1>2. PICK next \in {"loop", "denying", "done"} : Sends(g, current, operator, next)
    <2>1. \/ Sends(g, current, operator, "loop")
          \/ Sends(g, current, operator, "denying")
          \/ Sends(g, current, operator, "done")
      BY DEF GuestHelloCommits, GuestGrantCommits, GuestForwards,
             GuestDenialCommits, GuestLeaveCommits
    <2>2. QED
      BY <2>1
  <1>3. QED
    BY <1>1, <1>2, SendsShape

LEMMA UnreadType == Unread \in Row /\ \A m \in Modes : NewRow(m) \in Row
  BY ActorsAssumption DEF Unread, NewRow, Row

LEMMA InitTypeInv == Init => TypeInv
  <1> SUFFICES ASSUME Init PROVE TypeInv
    OBVIOUS
  <1>1. row \in Row /\ rd \in [Actors -> Row]
    BY UnreadType DEF Init
  <1>2. snd \in [Actors -> [ch: Chans \cup {None}, to: Conns \cup {None},
                             next: PCs]]
    BY DEF Init, NoSend, PCs
  <1>3. TypeOK
    BY <1>1, <1>2 DEF Init, TypeOK, PCs, RequestKinds
  <1>4. SendsResume /\ HangingHasOperator
    BY DEF Init, SendsResume, HangingHasOperator, Conns, Actors
  <1>5. QED
    BY <1>3, <1>4 DEF TypeInv

LEMMA GuestTypeInv ==
    ASSUME TypeInv, NEW g \in Guests, GuestStep(g)
    PROVE  TypeInv'
  <1>0. ASSUME \/ GuestHelloCommits(g) \/ GuestGrantCommits(g) \/ GuestForwards(g)
               \/ GuestDenialCommits(g) \/ GuestLeaveCommits(g)
        PROVE  /\ pc' \in [Actors -> PCs]
               /\ snd' \in [Actors -> SendRecords]
               /\ SendsResume'
               /\ HangingHasOperator'
    <2>1. SendShape(g)
      BY <1>0, GuestSends
    <2>2. g \in Conns
      BY DEF Conns
    <2>3. QED
      BY <2>1, <2>2, SendKeepsTypes
  <1> USE ActorsAssumption
      DEF TypeInv, TypeOK, SendsResume, HangingHasOperator, Conns, Actors, PCs
  <1>1. CASE GuestLooksUp(g) BY <1>1 DEF GuestLooksUp
  <1>2. CASE GuestAcceptFails(g) BY <1>2 DEF GuestAcceptFails
  <1>3. CASE GuestAttaches(g) BY <1>3 DEF GuestAttaches
  <1>4. CASE GuestClosesStale(g) BY <1>4 DEF GuestClosesStale, GuestOnline
  <1>5. CASE GuestReplaces(g) BY <1>5 DEF GuestReplaces
  <1>6. CASE GuestSaysHello(g) BY <1>6 DEF GuestSaysHello
  <1>7. CASE GuestHelloCommits(g)
    <2>1. row' \in Row
      BY <1>7 DEF GuestHelloCommits, Written, Row
    <2>2. rd' \in [Actors -> Row]
      BY <1>7, UnreadType DEF GuestHelloCommits
    <2>3. QED
      BY <1>7, <1>0, <2>1, <2>2 DEF GuestHelloCommits, SendRecords
  <1>8. CASE GuestDecides(g) BY <1>8 DEF GuestDecides
  <1>9. CASE GuestGrantCommits(g)
    <2>1. row' \in Row
      BY <1>9 DEF GuestGrantCommits, Written, Row
    <2>2. rd' \in [Actors -> Row]
      BY <1>9, UnreadType DEF GuestGrantCommits
    <2>3. QED
      BY <1>9, <1>0, <2>1, <2>2 DEF GuestGrantCommits, SendRecords
  <1>10. CASE GuestDenialCommits(g)
    <2>1. row' \in Row
      BY <1>10 DEF GuestDenialCommits, Written, Row
    <2>2. rd' \in [Actors -> Row]
      BY <1>10, UnreadType DEF GuestDenialCommits
    <2>3. QED
      BY <1>10, <1>0, <2>1, <2>2 DEF GuestDenialCommits, SendRecords
  <1>11. CASE GuestHangsUp(g)
    <2>1. gone' \subseteq Conns
      BY <1>11 DEF GuestHangsUp
    <2>2. QED
      BY <1>11, <2>1 DEF GuestHangsUp
  <1>12. CASE GuestForwards(g)
    BY <1>12, <1>0 DEF GuestForwards, SendRecords
  <1>13. CASE GuestDisconnects(g) BY <1>13 DEF GuestDisconnects
  <1>14. CASE GuestStoreFails(g)
    BY <1>14, UnreadType DEF GuestStoreFails
  <1>15. CASE GuestCleansUp(g)
    BY <1>15 DEF GuestCleansUp, Detached, Dropped
  <1>16. CASE GuestReadsLeaving(g) BY <1>16 DEF GuestReadsLeaving
  <1>17. CASE GuestLeaveCommits(g)
    <2>1. row' \in Row
      BY <1>17 DEF GuestLeaveCommits, Written, Row
    <2>2. rd' \in [Actors -> Row]
      BY <1>17, UnreadType DEF GuestLeaveCommits
    <2>3. QED
      BY <1>17, <1>0, <2>1, <2>2 DEF GuestLeaveCommits, SendRecords
  <1>18. QED
    BY <1>1, <1>2, <1>3, <1>4, <1>5, <1>6, <1>7, <1>8, <1>9, <1>10, <1>11,
       <1>12, <1>13, <1>14, <1>15, <1>16, <1>17 DEF GuestStep

LEMMA OperatorTypeInv ==
    ASSUME TypeInv, NEW o \in Operators, OperatorStep(o)
    PROVE  TypeInv'
  <1>0. ASSUME \/ Sends(o, current, guest, "loop")
               \/ Sends(o, current, guest, "done")
               \/ Sends(o, None, guest, "done")
        PROVE  /\ pc' \in [Actors -> PCs]
               /\ snd' \in [Actors -> SendRecords]
               /\ SendsResume'
               /\ HangingHasOperator'
    <2>1. o \in Conns
      BY DEF Conns
    <2>2. SendShape(o)
      BY <1>0, <2>1, SendsShape
    <2>3. QED
      BY <2>1, <2>2, SendKeepsTypes
  <1> USE ActorsAssumption
      DEF TypeInv, TypeOK, SendsResume, HangingHasOperator, Conns, Actors, PCs
  <1>1. CASE OperatorOpens(o)
    <2> DEFINE r == [rd[o] EXCEPT !.mode = row.mode]
    <2>0. rd[o] \in Row /\ row \in Row
      OBVIOUS
    <2>1. r \in Row
      BY ONLY <2>0 DEF Row
    <2>2. rd' = rd \/ rd' = [rd EXCEPT ![o] = r]
      BY <1>1 DEF OperatorOpens
    <2> HIDE DEF r
    <2>3. rd' \in [Actors -> Row]
      BY <2>1, <2>2
    <2>4. pc' \in [Actors -> PCs] /\ SendsResume' /\ HangingHasOperator'
      BY <1>1 DEF OperatorOpens
    <2>5. QED
      BY <1>1, <2>3, <2>4 DEF OperatorOpens
  <1>2. CASE OperatorAcceptFails(o) BY <1>2 DEF OperatorAcceptFails
  <1>3. CASE OperatorAttaches(o) BY <1>3 DEF OperatorAttaches
  <1>4. CASE OperatorGreets(o) BY <1>4, <1>0 DEF OperatorGreets, SendRecords
  <1>5. CASE OperatorGreetFails(o) BY <1>5 DEF OperatorGreetFails
  <1>6. CASE OperatorForwards(o) BY <1>6, <1>0 DEF OperatorForwards, SendRecords
  <1>7. CASE OperatorDisconnects(o) BY <1>7 DEF OperatorDisconnects
  <1>8. CASE OperatorCleansUp(o)
    <2>1. \/ Sends(o, current, guest, "done")
          \/ Sends(o, None, guest, "done")
          \/ pc' = [pc EXCEPT ![o] = "done"] /\ snd' = snd
      BY <1>8 DEF OperatorCleansUp, Dropped
    <2>2. operator' \in [Chans -> Operators \cup {None}]
          /\ current' \in Chans \cup {None}
      BY <1>8 DEF OperatorCleansUp, Dropped, Detached
    <2>3. rd' \in [Actors -> Row] /\ chan' \in [Actors -> Chans \cup {None}]
      BY <1>8, UnreadType DEF OperatorCleansUp
    <2>4. CASE pc' = [pc EXCEPT ![o] = "done"] /\ snd' = snd
      BY <1>8, <2>2, <2>3, <2>4 DEF OperatorCleansUp
    <2>5. CASE Sends(o, current, guest, "done") \/ Sends(o, None, guest, "done")
      BY <1>8, <1>0, <2>2, <2>3, <2>5 DEF OperatorCleansUp, SendRecords
    <2>6. QED
      BY <2>1, <2>4, <2>5
  <1>9. QED
    BY <1>1, <1>2, <1>3, <1>4, <1>5, <1>6, <1>7, <1>8 DEF OperatorStep

LEMMA CallTypeInv ==
    ASSUME TypeInv, NEW e \in Calls, CallStep(e)
    PROVE  TypeInv'
  <1> USE ActorsAssumption
      DEF TypeInv, TypeOK, SendsResume, HangingHasOperator, Conns, Actors, PCs
  <1>1. CASE CallReads(e)
    <2>1. PICK what \in RequestKinds :
             \/ /\ req' = [req EXCEPT ![e] = what]
                /\ rd' = [rd EXCEPT ![e] = row]
                /\ pc' = [pc EXCEPT ![e] = "writing"]
             \/ /\ pc' = [pc EXCEPT ![e] = "done"]
                /\ req' = req /\ rd' = rd
      BY <1>1 DEF CallReads
    <2> row \in Row /\ rd \in [Actors -> Row] /\ req \in [Calls -> RequestKinds]
      OBVIOUS
    <2>2. req' \in [Calls -> RequestKinds]
      BY <2>1
    <2>2a. rd' \in [Actors -> Row]
      BY <2>1
    <2>3. pc' \in [Actors -> PCs] /\ snd' = snd
      BY <1>1, <2>1 DEF CallReads
    <2>4. SendsResume' /\ HangingHasOperator'
      BY <2>1, <2>3
    <2>5. QED
      BY <1>1, <2>2, <2>2a, <2>3, <2>4 DEF CallReads
  <1>2. CASE CallCommits(e)
    <2>1. row' \in Row
      BY <1>2 DEF CallCommits, Updated, Written, Row
    <2>2. rd' \in [Actors -> Row]
      BY <1>2, UnreadType DEF CallCommits
    <2>3. QED
      BY <1>2, <2>1, <2>2 DEF CallCommits
  <1>3. CASE CallRefreshes(e) BY <1>3 DEF CallRefreshes
  <1>4. CASE CloseFindsNothing(e) BY <1>4 DEF CloseFindsNothing
  <1>5. CASE CloseHangsUpGuest(e) BY <1>5 DEF CloseHangsUpGuest, GuestOnline
  <1>6. CASE CloseHangsUpOperator(e)
    <2>1. /\ pc' = [pc EXCEPT ![e] = "popping"] /\ pc' \in [Actors -> PCs]
          /\ UNCHANGED <<row, past, current, guest, operator, chan, rd, req,
                         consented, audit, streamed>>
      BY <1>6 DEF CloseHangsUpOperator
    <2>2. \/ snd' = snd /\ pc[e] = "hanging" /\ snd[e].to \in Conns
          \/ /\ current \in Chans /\ operator[current] \in Operators
             /\ snd' = [snd EXCEPT ![e] = [ch |-> current,
                                           to |-> operator[current],
                                           next |-> "popping"]]
      BY <1>6 DEF CloseHangsUpOperator
    <2>3. snd'[e].to \in Conns /\ snd' \in [Actors -> SendRecords]
      BY <2>2 DEF SendRecords
    <2>4. gone' \subseteq Conns
      BY <1>6, <2>3 DEF CloseHangsUpOperator
    <2>5. \A x \in Actors \ {e} : pc'[x] = pc[x] /\ snd'[x] = snd[x]
      BY <2>1, <2>2
    <2>7. pc'[e] = "popping"
      BY <2>1
    <2>8. SendsResume' /\ HangingHasOperator'
      BY <2>5, <2>7
    <2>6. QED
      BY <2>1, <2>3, <2>4, <2>8 DEF SendRecords
  <1>7. CASE ClosePops(e) BY <1>7 DEF ClosePops, NoSend
  <1>8. CASE CallStoreFails(e)
    BY <1>8, UnreadType DEF CallStoreFails
  <1>9. QED
    BY <1>1, <1>2, <1>3, <1>4, <1>5, <1>6, <1>7, <1>8 DEF CallStep

LEMMA WorldTypeInv ==
    ASSUME TypeInv,
           \/ \E h \in Conns : SendReturns(h) \/ SendRaises(h) \/ PeerGoes(h)
           \/ CodeExpires \/ Restarts
    PROVE  TypeInv'
  <1> USE ActorsAssumption
      DEF TypeInv, TypeOK, SendsResume, HangingHasOperator, Conns, Actors, PCs
  <1>1. ASSUME NEW h \in Conns, SendReturns(h) PROVE TypeInv'
    BY <1>1 DEF SendReturns, NoSend
  <1>2. ASSUME NEW h \in Conns, SendRaises(h) PROVE TypeInv'
    BY <1>2 DEF SendRaises, NoSend
  <1>3. ASSUME NEW h \in Conns, PeerGoes(h) PROVE TypeInv'
    BY <1>3 DEF PeerGoes
  <1>4. CASE CodeExpires
    BY <1>4 DEF CodeExpires
  <1>5. CASE Restarts
    BY <1>5, UnreadType DEF Restarts, StartsOver, NoSend, Row
  <1>6. QED
    BY <1>1, <1>2, <1>3, <1>4, <1>5

LEMMA NextTypeInv ==
    ASSUME TypeInv, [Next]_vars
    PROVE  TypeInv'
  <1>1. CASE UNCHANGED vars
    BY <1>1 DEF vars, TypeInv, TypeOK, SendsResume, HangingHasOperator
  <1>2. CASE Next
    BY <1>2, GuestTypeInv, OperatorTypeInv, CallTypeInv, WorldTypeInv DEF Next
  <1>3. QED
    BY <1>1, <1>2

\* Every variable of the relay keeps its type: no handler leaves a slot, a
\* snapshot or a suspended send that the next one could not read.
THEOREM TypeCorrect == Spec => []TypeOK
  <1>1. TypeInv => TypeOK
    BY DEF TypeInv
  <1>2. Spec => []TypeInv
    BY InitTypeInv, NextTypeInv, PTL DEF Spec
  <1>3. QED
    BY <1>1, <1>2, PTL

-----------------------------------------------------------------------------
(* The stages of a guest handler.  A handler suspended in a send is where   *)
(* the send returns to.                                                     *)

Away(g) == pc[g] \in {"new", "accepting", "replacing"}
Greeting(g) == pc[g] \in {"hello", "greeting"}
Consenting(g) == pc[g] = "consenting"
Looping(g) == \/ pc[g] = "loop"
              \/ pc[g] = "sending" /\ snd[g].next = "loop"
Denying(g) == \/ pc[g] = "denying"
              \/ pc[g] = "sending" /\ snd[g].next = "denying"
Over(g) == \/ pc[g] \in {"cleanup", "leaving", "left", "done"}
           \/ pc[g] = "sending" /\ snd[g].next = "done"

\* What the audit trail and the handler's local say at each stage.
GuestInv(g) ==
    /\ \/ Away(g) \/ Greeting(g) \/ Consenting(g) \/ Looping(g)
       \/ Denying(g) \/ Over(g)
    /\ Away(g) \/ Greeting(g) \/ Consenting(g) =>
          g \notin audit.granted \cup audit.denied
    /\ Away(g) \/ Greeting(g) => ~consented[g]
    /\ Looping(g) => /\ g \notin audit.denied
                     /\ consented[g] <=> g \in audit.granted
    /\ Denying(g) => g \in audit.denied
    /\ g \in streamed => g \in audit.granted

ConsentInv == \A g \in Guests : GuestInv(g)

-----------------------------------------------------------------------------
(* What a step is to one guest.                                            *)

Keeps(g) == /\ consented'[g] = consented[g]
            /\ g \in audit'.granted <=> g \in audit.granted
            /\ g \in audit'.denied <=> g \in audit.denied
            /\ g \in audit'.since <=> g \in audit.since
            /\ g \in streamed' <=> g \in streamed

Untouched(g) == pc'[g] = pc[g] /\ snd'[g] = snd[g] /\ Keeps(g)

\* The handler of g goes from one stage to another.
Moves(g) ==
    \/ /\ consented'[g] = consented[g]
       /\ audit' = audit /\ streamed' = streamed
       /\ \/ Away(g) /\ Away(g)'
          \/ Away(g) /\ Greeting(g)'
          \/ Greeting(g) /\ Greeting(g)'
          \/ Greeting(g) /\ Looping(g)'
          \/ Looping(g) /\ Looping(g)'
          \/ Denying(g) /\ Denying(g)'
    \/ /\ Looping(g) /\ ~consented[g] /\ Consenting(g)'
       /\ audit' = audit /\ streamed' = streamed
    \/ /\ Consenting(g) /\ consented[g] /\ Looping(g)' /\ consented'[g]
       /\ audit' = [audit EXCEPT !.granted = @ \cup {g}, !.since = @ \cup {g}]
       /\ streamed' = streamed
    \/ /\ Consenting(g) /\ ~consented[g] /\ Denying(g)'
       /\ audit' = [audit EXCEPT !.denied = @ \cup {g}]
       /\ streamed' = streamed
    \/ /\ Looping(g) /\ consented[g] /\ Looping(g)' /\ consented'[g]
       /\ audit' = audit /\ streamed' = streamed \cup {g}
    \/ Over(g)' /\ audit' = audit /\ streamed' = streamed

\* A step of one handler or call leaves every other guest as it was.
LEMMA OthersUntouched ==
    ASSUME TypeInv, NEW g \in Guests, NEW a \in Actors, a # g,
           \/ a \in Guests /\ GuestStep(a)
           \/ a \in Operators /\ OperatorStep(a)
           \/ a \in Calls /\ CallStep(a)
           \/ SendReturns(a) \/ SendRaises(a) \/ PeerGoes(a)
    PROVE  Untouched(g)
  <1> USE DEF TypeInv, TypeOK, Untouched, Keeps, Actors, Conns
  <1>1. CASE a \in Guests /\ GuestStep(a)
    <2>1. CASE \/ GuestLooksUp(a) \/ GuestAcceptFails(a) \/ GuestAttaches(a)
               \/ GuestClosesStale(a) \/ GuestReplaces(a)
      BY <2>1 DEF GuestLooksUp, GuestAcceptFails, GuestAttaches,
         GuestClosesStale, GuestReplaces
    <2>2. CASE GuestSaysHello(a) \/ GuestHelloCommits(a) \/ GuestDecides(a)
      BY <2>2, <1>1 DEF GuestSaysHello, GuestHelloCommits, GuestDecides, Sends
    <2>3. CASE GuestGrantCommits(a)
      <3>1. /\ audit'.granted = audit.granted \cup {a}
            /\ audit'.since = audit.since \cup {a}
            /\ audit'.denied = audit.denied
        BY <2>3 DEF GuestGrantCommits
      <3>2. consented'[g] = consented[g] /\ streamed' = streamed
        BY <2>3 DEF GuestGrantCommits
      <3>3. pc'[g] = pc[g] /\ snd'[g] = snd[g]
        BY <2>3, <1>1 DEF GuestGrantCommits, Sends
      <3>4. QED
        BY <3>1, <3>2, <3>3
    <2>7. CASE GuestDenialCommits(a)
      <3>1. /\ audit'.denied = audit.denied \cup {a}
            /\ audit'.since = audit.since
            /\ audit'.granted = audit.granted
        BY <2>7 DEF GuestDenialCommits
      <3>2. consented'[g] = consented[g] /\ streamed' = streamed
        BY <2>7 DEF GuestDenialCommits
      <3>3. pc'[g] = pc[g] /\ snd'[g] = snd[g]
        BY <2>7, <1>1 DEF GuestDenialCommits, Sends
      <3>4. QED
        BY <3>1, <3>2, <3>3
    <2>8. CASE GuestForwards(a)
      BY <2>8, <1>1 DEF GuestForwards, Sends
    <2>4. CASE GuestHangsUp(a) \/ GuestDisconnects(a) \/ GuestStoreFails(a)
      BY <2>4 DEF GuestHangsUp, GuestDisconnects, GuestStoreFails
    <2>5. CASE GuestCleansUp(a) \/ GuestReadsLeaving(a) \/ GuestLeaveCommits(a)
      BY <2>5, <1>1 DEF GuestCleansUp, GuestReadsLeaving, GuestLeaveCommits, Sends
    <2>6. QED
      BY <1>1, <2>1, <2>2, <2>3, <2>4, <2>5, <2>7, <2>8 DEF GuestStep
  <1>2. CASE a \in Operators /\ OperatorStep(a)
    BY <1>2 DEF OperatorStep, OperatorOpens, OperatorAcceptFails,
       OperatorAttaches, OperatorGreets, OperatorGreetFails, OperatorForwards,
       OperatorDisconnects, OperatorCleansUp, Sends
  <1>3. CASE a \in Calls /\ CallStep(a)
    BY <1>3 DEF CallStep, CallReads, CallCommits, CallRefreshes, CallStoreFails,
       CloseFindsNothing, CloseHangsUpGuest, CloseHangsUpOperator, ClosePops
  <1>4. CASE SendReturns(a) \/ SendRaises(a) \/ PeerGoes(a)
    BY <1>4 DEF SendReturns, SendRaises, PeerGoes
  <1>5. QED
    BY <1>1, <1>2, <1>3, <1>4

LEMMA GuestMoves ==
    ASSUME TypeInv, NEW g \in Guests, GuestStep(g)
    PROVE  Moves(g)
  <1> USE DEF TypeInv, TypeOK, Moves, Keeps, Actors, Conns,
              Away, Greeting, Consenting, Looping, Denying, Over
  <1>1. CASE GuestLooksUp(g) BY <1>1 DEF GuestLooksUp
  <1>2. CASE GuestAcceptFails(g) BY <1>2 DEF GuestAcceptFails
  <1>3. CASE GuestAttaches(g) BY <1>3 DEF GuestAttaches
  <1>4. CASE GuestClosesStale(g) BY <1>4 DEF GuestClosesStale
  <1>5. CASE GuestReplaces(g) BY <1>5 DEF GuestReplaces
  <1>6. CASE GuestSaysHello(g) BY <1>6 DEF GuestSaysHello
  <1>7. CASE GuestHelloCommits(g) BY <1>7 DEF GuestHelloCommits, Sends
  <1>8. CASE GuestDecides(g) BY <1>8 DEF GuestDecides
  <1>9. CASE GuestGrantCommits(g) BY <1>9 DEF GuestGrantCommits, Sends
  <1>10. CASE GuestDenialCommits(g) BY <1>10 DEF GuestDenialCommits, Sends
  <1>11. CASE GuestHangsUp(g) BY <1>11 DEF GuestHangsUp
  <1>12. CASE GuestForwards(g) BY <1>12 DEF GuestForwards, Sends
  <1>13. CASE GuestDisconnects(g) BY <1>13 DEF GuestDisconnects
  <1>14. CASE GuestStoreFails(g) BY <1>14 DEF GuestStoreFails
  <1>15. CASE GuestCleansUp(g) BY <1>15 DEF GuestCleansUp
  <1>16. CASE GuestReadsLeaving(g) BY <1>16 DEF GuestReadsLeaving
  <1>17. CASE GuestLeaveCommits(g) BY <1>17 DEF GuestLeaveCommits, Sends
  <1>18. QED
    BY <1>1, <1>2, <1>3, <1>4, <1>5, <1>6, <1>7, <1>8, <1>9, <1>10, <1>11,
       <1>12, <1>13, <1>14, <1>15, <1>16, <1>17 DEF GuestStep

LEMMA SendMoves ==
    ASSUME TypeInv, NEW g \in Guests,
           SendReturns(g) \/ SendRaises(g) \/ PeerGoes(g)
    PROVE  (\A h \in Guests : Untouched(h)) \/ Moves(g)
  <1>1. g \in Conns
    BY DEF Conns
  <1>2. ASSUME SendReturns(g) \/ SendRaises(g) PROVE Moves(g)
    <2>1. snd[g].next \in {"loop", "denying", "done"}
      BY <1>1, <1>2 DEF TypeInv, SendsResume, SendReturns, SendRaises
    <2>2. pc'[g] = snd[g].next /\ pc[g] = "sending"
      BY <1>1, <1>2 DEF TypeInv, TypeOK, SendReturns, SendRaises, Actors
    <2>3. UNCHANGED <<consented, audit, streamed>>
      BY <1>2 DEF SendReturns, SendRaises
    <2>4. QED
      BY <2>1, <2>2, <2>3 DEF Moves, Keeps, Looping, Denying, Over
  <1>3. CASE PeerGoes(g)
    BY <1>3 DEF PeerGoes, Untouched, Keeps
  <1>4. QED
    BY <1>2, <1>3

\* Every step of the relay that is not a restart moves at most one guest.
LEMMA NextMoves ==
    ASSUME TypeInv, Next, ~Restarts
    PROVE  \/ \A h \in Guests : Untouched(h)
           \/ \E g \in Guests : Moves(g) /\ \A h \in Guests \ {g} : Untouched(h)
  <1> USE DEF Actors, Conns
  <1>1. ASSUME NEW g \in Guests, GuestStep(g)
        PROVE  Moves(g) /\ \A h \in Guests \ {g} : Untouched(h)
    BY <1>1, GuestMoves, OthersUntouched
  <1>2. ASSUME NEW o \in Operators, OperatorStep(o)
        PROVE  \A h \in Guests : Untouched(h)
    BY <1>2, OthersUntouched, ActorsAssumption
  <1>3. ASSUME NEW e \in Calls, CallStep(e)
        PROVE  \A h \in Guests : Untouched(h)
    BY <1>3, OthersUntouched, ActorsAssumption
  <1>4. ASSUME NEW x \in Conns, SendReturns(x) \/ SendRaises(x) \/ PeerGoes(x)
        PROVE  \/ \A h \in Guests : Untouched(h)
               \/ \E g \in Guests : Moves(g) /\ \A h \in Guests \ {g} : Untouched(h)
    <2>1. \A h \in Guests \ {x} : Untouched(h)
      BY <1>4, OthersUntouched
    <2>2. CASE x \in Guests
      BY <1>4, <2>1, <2>2, SendMoves
    <2>3. CASE x \notin Guests
      BY <2>1, <2>3
    <2>4. QED
      BY <2>2, <2>3
  <1>5. CASE CodeExpires
    BY <1>5 DEF CodeExpires, Untouched, Keeps
  <1>6. QED
    BY <1>1, <1>2, <1>3, <1>4, <1>5 DEF Next

-----------------------------------------------------------------------------
(* The invariant.                                                          *)

LEMMA UntouchedKeepsGuestInv ==
    ASSUME NEW g \in Guests, GuestInv(g), Untouched(g)
    PROVE  GuestInv(g)'
  BY DEF GuestInv, Untouched, Keeps, Away, Greeting, Consenting, Looping,
         Denying, Over

LEMMA MovesKeepGuestInv ==
    ASSUME TypeInv, NEW g \in Guests, GuestInv(g), Moves(g)
    PROVE  GuestInv(g)'
  <1> DEFINE Grants == /\ Consenting(g) /\ consented[g] /\ Looping(g)'
                       /\ consented'[g] /\ streamed' = streamed
                       /\ audit' = [audit EXCEPT !.granted = @ \cup {g},
                                                 !.since = @ \cup {g}]
  <1>1. CASE Grants
    <2>1. /\ audit'.granted = audit.granted \cup {g}
          /\ audit'.denied = audit.denied
      BY <1>1 DEF TypeInv, TypeOK
    <2>2. g \notin audit.denied
      BY <1>1 DEF GuestInv
    <2>3. QED
      BY <1>1, <2>1, <2>2 DEF GuestInv, Away, Greeting, Consenting, Looping,
         Denying, Over
  <1>2. CASE ~Grants
    BY <1>2 DEF TypeInv, TypeOK, GuestInv, Moves, Away, Greeting, Consenting,
       Looping, Denying, Over
  <1>3. QED
    BY <1>1, <1>2

LEMMA RestartKeepsGuestInv ==
    ASSUME TypeInv, NEW g \in Guests, GuestInv(g), Restarts
    PROVE  GuestInv(g)'
  BY DEF TypeInv, TypeOK, GuestInv, Restarts, StartsOver, Away, Greeting, Consenting,
         Looping, Denying, Over, Actors, Conns

LEMMA InitConsentInv == Init => ConsentInv
  <1> SUFFICES ASSUME Init, NEW g \in Guests PROVE GuestInv(g)
    BY DEF ConsentInv
  <1>2. Away(g) /\ pc[g] = "new"
    BY DEF Init, Away, Actors, Conns
  <1>3. /\ ~consented[g] /\ g \notin streamed
        /\ g \notin audit.granted \cup audit.denied
    BY DEF Init
  <1>4. QED
    BY <1>2, <1>3 DEF GuestInv, Looping, Denying

LEMMA NextConsentInv ==
    ASSUME TypeInv, ConsentInv, [Next]_vars
    PROVE  ConsentInv'
  <1>1. CASE UNCHANGED vars
    BY <1>1, UntouchedKeepsGuestInv DEF vars, ConsentInv, Untouched, Keeps
  <1>2. CASE Restarts
    BY <1>2, RestartKeepsGuestInv DEF ConsentInv
  <1>3. CASE Next /\ ~Restarts
    BY <1>3, NextMoves, UntouchedKeepsGuestInv, MovesKeepGuestInv DEF ConsentInv
  <1>4. QED
    BY <1>1, <1>2, <1>3

LEMMA ConsentInvariant == Spec => [](TypeInv /\ ConsentInv)
  <1>1. Init => TypeInv /\ ConsentInv
    BY InitTypeInv, InitConsentInv
  <1>2. TypeInv /\ ConsentInv /\ [Next]_vars => TypeInv' /\ ConsentInv'
    BY NextTypeInv, NextConsentInv
  <1>3. QED
    BY <1>1, <1>2, PTL DEF Spec

\* No order of reconnects, failed transactions, restarts and calls makes the
\* relay forward something from a connection before that connection's own
\* consent is in the audit trail (ws.py:192-243).
THEOREM FramesFollowGrant == Spec => []FramesFollowRecordedGrant
  <1>1. TypeInv /\ ConsentInv => FramesFollowRecordedGrant
    <2> SUFFICES ASSUME TypeInv, ConsentInv
                   PROVE  FramesFollowRecordedGrant
      OBVIOUS
    <2>2. streamed \subseteq Guests
      BY DEF TypeInv, TypeOK
    <2>3. \A g \in streamed : g \in audit.granted
      BY <2>2 DEF ConsentInv, GuestInv
    <2>4. QED
      BY <2>3 DEF FramesFollowRecordedGrant
  <1>2. QED
    BY <1>1, ConsentInvariant, PTL

-----------------------------------------------------------------------------
(* The relay implements the gate.                                          *)

phaseBar == [g \in Guests |-> Phase(g)]

\* Where the abstract gate sees a guest, from its stage and its record.
LEMMA PhaseOfStage ==
    ASSUME NEW g \in Guests, GuestInv(g)
    PROVE  /\ Away(g) => Phase(g) = "away"
           /\ Greeting(g) \/ Consenting(g) => Phase(g) = "asked"
           /\ Looping(g) /\ ~consented[g] => Phase(g) = "asked"
           /\ Looping(g) /\ consented[g] => Phase(g) = "sharing"
           /\ Denying(g) => Phase(g) = "refused"
           /\ Over(g) => Phase(g) = "over"
           /\ Phase(g) \in {"away", "asked", "sharing", "refused", "over"}
  BY DEF GuestInv, Phase, GuestInside, Away, Greeting, Consenting, Looping,
         Denying, Over

LEMMA NextPhaseOfStage ==
    ASSUME NEW g \in Guests, GuestInv(g)'
    PROVE  /\ Away(g)' => Phase(g)' = "away"
           /\ (Greeting(g) \/ Consenting(g))' => Phase(g)' = "asked"
           /\ (Looping(g) /\ ~consented[g])' => Phase(g)' = "asked"
           /\ (Looping(g) /\ consented[g])' => Phase(g)' = "sharing"
           /\ Denying(g)' => Phase(g)' = "refused"
           /\ Over(g)' => Phase(g)' = "over"
  BY DEF GuestInv, Phase, GuestInside, Away, Greeting, Consenting, Looping,
         Denying, Over

LEMMA UntouchedPhase ==
    ASSUME NEW g \in Guests, Untouched(g)
    PROVE  Phase(g)' = Phase(g)
  BY DEF Untouched, Keeps, Phase, GuestInside

LEMMA InitGate == Init => Gate!Init
  <1> SUFFICES ASSUME Init PROVE Gate!Init
    OBVIOUS
  <1>1. \A g \in Guests : Phase(g) = "away"
    BY InitConsentInv, PhaseOfStage DEF Init, ConsentInv, Away, Actors, Conns
  <1>2. QED
    BY <1>1 DEF Init, Gate!Init

\* What the abstract gate does when one guest moves.
LEMMA MovesGate ==
    ASSUME TypeInv, ConsentInv, ConsentInv', NEW g \in Guests, Moves(g),
           \A h \in Guests \ {g} : Untouched(h)
    PROVE  [Gate!Next]_Gate!gateVars
  <1> DEFINE was == [h \in Guests |-> Phase(h)]
             is == [h \in Guests |-> Phase(h)']
  <1>1. \A h \in Guests \ {g} : is[h] = was[h]
    BY UntouchedPhase
  <1>2. GuestInv(g) /\ GuestInv(g)'
    BY DEF ConsentInv
  <1>3. is = [was EXCEPT ![g] = Phase(g)']
    BY <1>1
  <1>4. \A to : Phase(g)' = to => is = [was EXCEPT ![g] = to]
    BY <1>3
  <1>5. /\ Phase(g) = was[g]
        /\ Phase(g) \in {"away", "asked", "sharing", "refused", "over"}
    BY <1>2, PhaseOfStage
  <1>6. CASE Phase(g)' # Phase(g) /\ streamed' = streamed
    <2>1. CASE Phase(g)' = "over"
      BY <1>4, <1>5, <1>6, <2>1 DEF Gate!Next, Gate!Leaves, Gate!Moves
    <2>2. CASE Phase(g)' = "asked"
      <3>1. Phase(g) = "away"
        BY <1>2, <1>6, <2>2, PhaseOfStage, NextPhaseOfStage DEF Moves
      <3>2. QED
        BY <1>4, <1>5, <1>6, <2>2, <3>1 DEF Gate!Next, Gate!Asks, Gate!Moves
    <2>3. CASE Phase(g)' = "sharing"
      <3>1. Phase(g) = "asked"
        BY <1>2, <1>6, <2>3, PhaseOfStage, NextPhaseOfStage DEF Moves
      <3>2. QED
        BY <1>4, <1>5, <1>6, <2>3, <3>1 DEF Gate!Next, Gate!Allows, Gate!Moves
    <2>4. CASE Phase(g)' = "refused"
      <3>1. Phase(g) = "asked"
        BY <1>2, <1>6, <2>4, PhaseOfStage, NextPhaseOfStage DEF Moves
      <3>2. QED
        BY <1>4, <1>5, <1>6, <2>4, <3>1 DEF Gate!Next, Gate!Refuses, Gate!Moves
    <2>5. Phase(g)' \in {"over", "asked", "sharing", "refused"}
      BY <1>2, <1>6, PhaseOfStage, NextPhaseOfStage DEF Moves
    <2>6. QED
      BY <2>1, <2>2, <2>3, <2>4, <2>5
  <1>7. CASE Phase(g)' = Phase(g) /\ streamed' = streamed
    <2>1. is = was
      BY <1>4, <1>5, <1>7
    <2>2. QED
      BY <1>7, <2>1 DEF Gate!gateVars
  <1>8. CASE Looping(g) /\ consented[g] /\ Looping(g)' /\ consented'[g]
             /\ streamed' = streamed \cup {g}
    <2>1. Phase(g) = "sharing" /\ Phase(g)' = "sharing"
      BY <1>2, <1>8, PhaseOfStage, NextPhaseOfStage
    <2>2. is = was /\ was[g] = "sharing"
      BY <1>4, <1>5, <2>1
    <2>3. Gate!Shows(g)
      BY <1>8, <2>2 DEF Gate!Shows
    <2>4. QED
      BY <2>3 DEF Gate!Next
  <1>9. QED
    BY <1>6, <1>7, <1>8 DEF Moves

LEMMA RestartGate ==
    ASSUME TypeInv, ConsentInv, ConsentInv', Restarts
    PROVE  Gate!Next
  <1>1. ASSUME NEW g \in Guests
        PROVE  /\ Phase(g)' \in {"away", "over"}
               /\ Phase(g)' = "away" => Phase(g) = "away"
    <2>1. pc'[g] = IF pc[g] = "new" THEN "new" ELSE "done"
      BY DEF Restarts, StartsOver, Actors, Conns
    <2>2. GuestInv(g) /\ GuestInv(g)'
      BY DEF ConsentInv
    <2>3. QED
      BY <2>1, <2>2, PhaseOfStage, NextPhaseOfStage DEF Away, Over
  <1>2. streamed' = streamed
    BY DEF Restarts, StartsOver
  <1>3. Gate!Stops
    BY <1>1, <1>2 DEF Gate!Stops
  <1>4. QED
    BY <1>3 DEF Gate!Next

LEMMA NextGate ==
    ASSUME TypeInv, TypeInv', ConsentInv, ConsentInv', [Next]_vars
    PROVE  [Gate!Next]_Gate!gateVars
  <1>1. ASSUME \A h \in Guests : Untouched(h)
        PROVE  UNCHANGED Gate!gateVars
    <2>1. [h \in Guests |-> Phase(h)]' = [h \in Guests |-> Phase(h)]
      BY <1>1, UntouchedPhase
    <2>2. streamed \subseteq Guests /\ streamed' \subseteq Guests
      BY DEF TypeInv, TypeOK
    <2>3. streamed' = streamed
      BY <1>1, <2>2 DEF Untouched, Keeps
    <2>4. QED
      BY <2>1, <2>3 DEF Gate!gateVars
  <1>2. CASE UNCHANGED vars
    BY <1>1, <1>2 DEF vars, Untouched, Keeps
  <1>3. CASE Restarts
    BY <1>3, RestartGate
  <1>4. CASE Next /\ ~Restarts
    BY <1>1, <1>4, NextMoves, MovesGate
  <1>5. QED
    BY <1>2, <1>3, <1>4

\* The relay implements the gate: a connection is asked once, streams only
\* while its own grant stands, never after a refusal, and never again once its
\* handler has left its loop (ws.py:192-263).
THEOREM GateImplemented == Spec => GateHolds
  <1>1. TypeInv /\ ConsentInv /\ TypeInv' /\ ConsentInv' /\ [Next]_vars
        => [Gate!Next]_Gate!gateVars
    BY NextGate
  <1>2. QED
    BY <1>1, InitGate, ConsentInvariant, PTL DEF Spec, GateHolds, Gate!Spec

-----------------------------------------------------------------------------
(* The row claims nothing that nobody granted.                             *)

\* With no grant in the trail the row claims none, and no enrolment that read
\* it is on its way to the commit.
RowInv ==
    /\ NothingWithoutAGrant
    /\ \A e \in Calls :
          pc[e] = "writing" /\ req[e] = "enrol" => audit.granted # {}

Claimless == /\ row.consent # "granted"
             /\ row.expires
             /\ row.mode = "unattended" => "unattended" \in Modes

\* A handler's step strikes no grant from the trail.
LEMMA MovesGrow ==
    ASSUME TypeInv, NEW g \in Guests, Moves(g) \/ Untouched(g)
    PROVE  /\ g \in audit.granted => g \in audit'.granted
           /\ g \in audit.since => g \in audit'.since
  <1>1. CASE Untouched(g)
    BY <1>1 DEF Untouched, Keeps
  <1>2. CASE audit' = audit
    BY <1>2
  <1>3. CASE audit' = [audit EXCEPT !.granted = @ \cup {g}, !.since = @ \cup {g}]
    BY <1>3 DEF TypeInv, TypeOK
  <1>4. CASE audit' = [audit EXCEPT !.denied = @ \cup {g}]
    BY <1>4 DEF TypeInv, TypeOK
  <1>5. QED
    BY <1>1, <1>2, <1>3, <1>4 DEF Moves

LEMMA GrantsGrow ==
    ASSUME TypeInv, [Next]_vars
    PROVE  audit.granted \subseteq audit'.granted
  <1>1. CASE UNCHANGED vars
    BY <1>1 DEF vars
  <1>2. CASE Restarts
    BY <1>2 DEF Restarts, StartsOver, TypeInv, TypeOK
  <1>3. CASE Next /\ ~Restarts
    <2>1. \A g \in Guests : g \in audit.granted => g \in audit'.granted
      BY <1>3, NextMoves, MovesGrow
    <2>2. QED
      BY <2>1 DEF TypeInv, TypeOK
  <1>4. QED
    BY <1>1, <1>2, <1>3

\* No step but a grant's commit makes the row claim anything.
LEMMA RowStaysClaimless ==
    ASSUME TypeInv, RowInv, [Next]_vars, audit'.granted = {}
    PROVE  Claimless'
  <1>1. audit.granted = {} /\ Claimless
    BY GrantsGrow DEF RowInv, NothingWithoutAGrant, Claimless
  <1>2. CASE row' = row
    BY <1>1, <1>2 DEF Claimless
  <1>3. ASSUME NEW g \in Guests, GuestStep(g) PROVE Claimless'
    <2>1. CASE GuestHelloCommits(g) \/ GuestDenialCommits(g) \/ GuestLeaveCommits(g)
      BY <1>1, <2>1 DEF Claimless, GuestHelloCommits, GuestDenialCommits,
         GuestLeaveCommits, Written, TypeInv, TypeOK, Row
    <2>2. ~GuestGrantCommits(g)
      <3>1. GuestGrantCommits(g) =>
               audit' = [audit EXCEPT !.granted = @ \cup {g}, !.since = @ \cup {g}]
        BY DEF GuestGrantCommits
      <3>2. GuestGrantCommits(g) => g \in audit'.granted
        <4>1. audit \in [granted: SUBSET Guests, denied: SUBSET Guests,
                          since: SUBSET Guests]
          BY DEF TypeInv, TypeOK
        <4>2. QED
          BY ONLY <3>1, <4>1
      <3>3. QED
        BY <3>2
    <2>3. QED
      BY <1>2, <1>3, <2>1, <2>2 DEF GuestStep, GuestLooksUp, GuestAcceptFails,
         GuestAttaches, GuestClosesStale, GuestReplaces, GuestSaysHello,
         GuestDecides, GuestHangsUp, GuestForwards, GuestDisconnects,
         GuestStoreFails, GuestCleansUp, GuestReadsLeaving
  <1>4. ASSUME NEW e \in Calls, CallStep(e) PROVE Claimless'
    <2>1. CASE CallCommits(e)
      <3>1. req[e] # "enrol"
        BY <1>1, <2>1 DEF RowInv, CallCommits
      <3>2. QED
        BY <1>1, <2>1, <3>1 DEF Claimless, CallCommits, Updated, Written,
           TypeInv, TypeOK, Row
    <2>2. QED
      BY <1>2, <1>4, <2>1 DEF CallStep, CallReads, CallRefreshes, CallStoreFails,
         CloseFindsNothing, CloseHangsUpGuest, CloseHangsUpOperator, ClosePops
  <1>5. ASSUME NEW o \in Operators, OperatorStep(o) PROVE row' = row
    BY <1>5 DEF OperatorStep, OperatorOpens, OperatorAcceptFails,
       OperatorAttaches, OperatorGreets, OperatorGreetFails, OperatorForwards,
       OperatorDisconnects, OperatorCleansUp
  <1>6. ASSUME NEW h \in Conns, SendReturns(h) \/ SendRaises(h) \/ PeerGoes(h)
        PROVE  row' = row
    BY <1>6 DEF SendReturns, SendRaises, PeerGoes
  <1>7. CASE Restarts
    BY <1>1, <1>7 DEF Restarts, StartsOver, Claimless, TypeInv, TypeOK, Row
  <1>8. QED
    BY <1>2, <1>3, <1>4, <1>5, <1>6, <1>7 DEF Next, CodeExpires, vars

\* Only a grant's commit makes the row claim presence, and a restart takes it
\* back.
PresenceIsRecent == row.connected => audit.since # {}

LEMMA NextPresence ==
    ASSUME TypeInv, PresenceIsRecent, [Next]_vars
    PROVE  PresenceIsRecent'
  <1>1. CASE Restarts
    BY <1>1 DEF Restarts, PresenceIsRecent, TypeInv, TypeOK, Row
  <1>2. CASE ~Restarts
    <2>1. audit.since \subseteq audit'.since
      <3>1. \A g \in Guests : g \in audit.since => g \in audit'.since
        <4>1. CASE UNCHANGED vars
          BY <4>1 DEF vars
        <4>2. QED
          BY <1>2, <4>1, NextMoves, MovesGrow
      <3>2. QED
        BY <3>1 DEF TypeInv, TypeOK
    <2>2. CASE row'.connected => row.connected
      BY <2>1, <2>2 DEF PresenceIsRecent
    <2>3. CASE \E g \in Guests : GuestGrantCommits(g)
      <3>1. PICK g \in Guests :
               audit' = [audit EXCEPT !.granted = @ \cup {g}, !.since = @ \cup {g}]
        BY <2>3 DEF GuestGrantCommits
      <3>2. g \in audit'.since
        BY <3>1 DEF TypeInv, TypeOK
      <3>3. QED
        BY <3>2 DEF PresenceIsRecent
    <2>4. (row'.connected => row.connected) \/ \E g \in Guests : GuestGrantCommits(g)
      <3>1. ASSUME NEW g \in Guests, GuestStep(g), ~GuestGrantCommits(g)
            PROVE  row'.connected => row.connected
        <4>1. CASE GuestHelloCommits(g) \/ GuestDenialCommits(g) \/ GuestLeaveCommits(g)
          BY <4>1 DEF GuestHelloCommits, GuestDenialCommits, GuestLeaveCommits,
             Written, TypeInv, TypeOK, Row
        <4>2. QED
          BY <3>1, <4>1 DEF GuestStep, GuestLooksUp, GuestAcceptFails,
             GuestAttaches, GuestClosesStale, GuestReplaces, GuestSaysHello,
             GuestDecides, GuestHangsUp, GuestForwards, GuestDisconnects,
             GuestStoreFails, GuestCleansUp, GuestReadsLeaving
      <3>2. ASSUME NEW e \in Calls, CallStep(e) PROVE row'.connected => row.connected
        <4>1. CASE CallCommits(e)
          BY <4>1 DEF CallCommits, Updated, Written, TypeInv, TypeOK, Row
        <4>2. QED
          BY <3>2, <4>1 DEF CallStep, CallReads, CallRefreshes, CallStoreFails,
             CloseFindsNothing, CloseHangsUpGuest, CloseHangsUpOperator, ClosePops
      <3>3. ASSUME NEW o \in Operators, OperatorStep(o) PROVE row' = row
        BY <3>3 DEF OperatorStep, OperatorOpens, OperatorAcceptFails,
           OperatorAttaches, OperatorGreets, OperatorGreetFails, OperatorForwards,
           OperatorDisconnects, OperatorCleansUp
      <3>4. ASSUME NEW h \in Conns, SendReturns(h) \/ SendRaises(h) \/ PeerGoes(h)
            PROVE  row' = row
        BY <3>4 DEF SendReturns, SendRaises, PeerGoes
      <3>5. QED
        BY <1>2, <3>1, <3>2, <3>3, <3>4 DEF Next, CodeExpires, vars
    <2>5. QED
      BY <2>2, <2>3, <2>4
  <1>3. QED
    BY <1>1, <1>2

LEMMA GuestLeavesCalls ==
    ASSUME TypeInv, NEW g \in Guests, GuestStep(g), NEW e \in Calls
    PROVE  pc'[e] = pc[e]
  <1>0. \/ GuestHelloCommits(g) \/ GuestGrantCommits(g) \/ GuestForwards(g)
        \/ GuestDenialCommits(g) \/ GuestLeaveCommits(g)
        => SendShape(g)
    BY GuestSends
  <1> USE ActorsAssumption DEF TypeInv, TypeOK, Actors, Conns
  <1>1. CASE \/ GuestHelloCommits(g) \/ GuestGrantCommits(g) \/ GuestForwards(g)
             \/ GuestDenialCommits(g) \/ GuestLeaveCommits(g)
    BY <1>0, <1>1 DEF SendShape
  <1>2. CASE \/ GuestLooksUp(g) \/ GuestAcceptFails(g) \/ GuestAttaches(g)
             \/ GuestClosesStale(g) \/ GuestReplaces(g) \/ GuestSaysHello(g)
    BY <1>2 DEF GuestLooksUp, GuestAcceptFails, GuestAttaches,
       GuestClosesStale, GuestReplaces, GuestSaysHello
  <1>3. CASE \/ GuestDecides(g) \/ GuestHangsUp(g) \/ GuestDisconnects(g)
             \/ GuestStoreFails(g) \/ GuestCleansUp(g) \/ GuestReadsLeaving(g)
    BY <1>3 DEF GuestDecides, GuestHangsUp, GuestDisconnects, GuestStoreFails,
       GuestCleansUp, GuestReadsLeaving
  <1>4. QED
    BY <1>1, <1>2, <1>3 DEF GuestStep

LEMMA NextRowInv ==
    ASSUME TypeInv, RowInv, [Next]_vars
    PROVE  RowInv'
  <1>1. NothingWithoutAGrant'
    BY RowStaysClaimless, NextPresence
    DEF RowInv, NothingWithoutAGrant, PresenceIsRecent, Claimless
  <1>2. ASSUME NEW e \in Calls, pc'[e] = "writing", req'[e] = "enrol"
        PROVE  audit'.granted # {}
    <2>1. CASE CallReads(e)
      BY <2>1, <1>2, GrantsGrow
         DEF CallReads, Accepts, RowInv, NothingWithoutAGrant, TypeInv, TypeOK,
             Actors
    <2>2. CASE pc[e] = "writing" /\ req[e] = "enrol"
      BY <2>2, GrantsGrow DEF RowInv
    <2>3. CallReads(e) \/ (pc[e] = "writing" /\ req[e] = "enrol")
      <3> USE <1>2, ActorsAssumption DEF TypeInv, TypeOK, Actors, Conns
      <3>1. CASE UNCHANGED vars \/ CodeExpires
        BY <3>1 DEF vars, CodeExpires
      <3>2. ASSUME NEW d \in Calls, CallStep(d)
            PROVE  CallReads(e) \/ (pc[e] = "writing" /\ req[e] = "enrol")
        <4>1. CASE CallReads(d)
          <5>1. d # e => pc'[e] = pc[e] /\ req'[e] = req[e]
            BY <4>1 DEF CallReads
          <5>2. QED
            BY <4>1, <5>1
        <4>2. CASE CallCommits(d) \/ CallRefreshes(d) \/ CallStoreFails(d)
          BY <4>2 DEF CallCommits, CallRefreshes, CallStoreFails
        <4>3. CASE CloseFindsNothing(d) \/ ClosePops(d)
          BY <4>3 DEF CloseFindsNothing, ClosePops
        <4>4. CASE CloseHangsUpGuest(d) \/ CloseHangsUpOperator(d)
          BY <4>4 DEF CloseHangsUpGuest, CloseHangsUpOperator
        <4>5. QED
          BY <3>2, <4>1, <4>2, <4>3, <4>4 DEF CallStep
      <3>3. ASSUME NEW h \in Conns, SendReturns(h) \/ SendRaises(h) \/ PeerGoes(h)
            PROVE  pc[e] = pc'[e] /\ req[e] = req'[e]
        BY <3>3 DEF SendReturns, SendRaises, PeerGoes
      <3>4. ASSUME NEW o \in Operators, OperatorStep(o)
            PROVE  pc[e] = pc'[e] /\ req[e] = req'[e]
        BY <3>4 DEF OperatorStep, OperatorOpens, OperatorAcceptFails,
           OperatorAttaches, OperatorGreets, OperatorGreetFails,
           OperatorForwards, OperatorDisconnects, OperatorCleansUp, Sends
      <3>5. ASSUME NEW g \in Guests, GuestStep(g)
            PROVE  pc[e] = pc'[e] /\ req[e] = req'[e]
        <4>1. pc[e] = pc'[e]
          BY <3>5, GuestLeavesCalls
        <4>2. req' = req
          BY <3>5 DEF GuestStep, GuestLooksUp, GuestAcceptFails, GuestAttaches,
             GuestClosesStale, GuestReplaces, GuestSaysHello,
             GuestHelloCommits, GuestDecides, GuestGrantCommits,
             GuestDenialCommits, GuestHangsUp, GuestForwards,
             GuestDisconnects, GuestStoreFails, GuestCleansUp,
             GuestReadsLeaving, GuestLeaveCommits
        <4>3. QED
          BY <4>1, <4>2
      <3>6. CASE Restarts
        BY <3>6 DEF Restarts, StartsOver
      <3>7. QED
        BY <3>1, <3>2, <3>3, <3>4, <3>5, <3>6 DEF Next
    <2>4. QED
      BY <2>1, <2>2, <2>3
  <1>3. QED
    BY <1>1, <1>2 DEF RowInv

\* No order of enrolments, session updates, reconnects and restarts makes the
\* row claim consent or a standing mode before some connection's consent was
\* recorded, nor presence before one was recorded by the relay as it runs
\* (sessions.py:164-171, connector.py:231-248, main.py:76).
THEOREM NothingClaimedUngranted == Spec => []NothingWithoutAGrant
  <1>1. Init => RowInv
    BY DEF Init, RowInv, NothingWithoutAGrant, NewRow, Actors
  <1>2. TypeInv /\ RowInv /\ [Next]_vars => RowInv'
    BY NextRowInv
  <1>3. RowInv => NothingWithoutAGrant
    BY DEF RowInv
  <1>4. QED
    BY <1>1, <1>2, <1>3, ConsentInvariant, PTL DEF Spec

-----------------------------------------------------------------------------
(* The guest slot of the registered channel.                               *)

\* A guest whose handler is not between its attach and its detach does not
\* hold the registered channel's slot: the invariant, read backwards.
LEMMA OutsideHoldsNothing ==
    ASSUME TypeInv, SlotHeldByLiveHandler, NEW g \in Guests, ~GuestInside(g),
           current # None
    PROVE  guest[current] # g
  BY ActorsAssumption DEF TypeInv, TypeOK, SlotHeldByLiveHandler, Actors, Conns

\* A step that leaves the guest slots alone, or only empties some of them,
\* registers no channel but the one that was or an unused one, and takes nobody
\* out of the section that the slot stands for, keeps the invariant.
LEMMA SlotKept ==
    ASSUME TypeInv, SlotHeldByLiveHandler,
           current' = current \/ current' = None
              \/ (current' \in Chans /\ guest[current'] = None),
           \A c \in Chans : guest'[c] = guest[c] \/ guest'[c] = None,
           \A g \in Guests : GuestInside(g) => GuestInside(g)'
    PROVE  SlotHeldByLiveHandler'
  BY ActorsAssumption
     DEF TypeInv, TypeOK, SlotHeldByLiveHandler, Actors, Conns

LEMMA GuestSlot ==
    ASSUME TypeInv, SlotHeldByLiveHandler, NEW g \in Guests, GuestStep(g)
    PROVE  SlotHeldByLiveHandler'
  <1> USE DEF TypeInv, TypeOK, Actors, Conns
  <1>1. \A h \in Guests \ {g} : GuestInside(h)' = GuestInside(h)
    BY OthersUntouched DEF Untouched, GuestInside
  <1>2. CASE GuestAttaches(g) \/ GuestReplaces(g)
    <2>1. PICK c \in Chans : /\ ChannelIs(c)
                             /\ current' = c
                             /\ guest' = [guest EXCEPT ![c] = g]
      BY <1>2 DEF GuestAttaches, GuestReplaces
    <2>2. GuestInside(g)'
      BY <1>2 DEF GuestAttaches, GuestReplaces, GuestInside
    <2>3. guest'[current'] = g
      BY <2>1
    <2>4. QED
      BY <2>2, <2>3 DEF SlotHeldByLiveHandler
  <1>3. CASE GuestCleansUp(g)
    <2>1. current' = current \/ current' = None
      BY <1>3 DEF GuestCleansUp, Dropped
    <2>2. guest' = Detached(guest, g)
      BY <1>3 DEF GuestCleansUp
    <2>3. current # None => guest'[current] # g \/ guest'[current] = None
      BY <2>2 DEF Detached
    <2>4. current # None => guest'[current] = guest[current] \/ guest'[current] = None
      BY <2>2 DEF Detached
    <2>5. QED
      BY <1>1, <2>1, <2>3, <2>4, ActorsAssumption DEF SlotHeldByLiveHandler
  <1>4. CASE ~(GuestAttaches(g) \/ GuestReplaces(g) \/ GuestCleansUp(g))
    <2>1. current' = current /\ guest' = guest
      BY <1>4 DEF GuestStep, GuestLooksUp, GuestAcceptFails, GuestClosesStale,
         GuestSaysHello, GuestHelloCommits, GuestDecides, GuestGrantCommits,
         GuestDenialCommits, GuestHangsUp, GuestForwards, GuestDisconnects,
         GuestStoreFails, GuestReadsLeaving, GuestLeaveCommits
    <2>2. GuestInside(g) => GuestInside(g)'
      <3>1. CASE \/ GuestHelloCommits(g) \/ GuestGrantCommits(g)
                 \/ GuestDenialCommits(g) \/ GuestForwards(g)
        BY <3>1 DEF GuestInside, Sends, GuestHelloCommits, GuestGrantCommits,
           GuestDenialCommits, GuestForwards
      <3>2. CASE \/ GuestLooksUp(g) \/ GuestAcceptFails(g)
                 \/ GuestClosesStale(g) \/ GuestReadsLeaving(g)
                 \/ GuestLeaveCommits(g)
        BY <3>2 DEF GuestInside, GuestLooksUp, GuestAcceptFails,
           GuestClosesStale, GuestReadsLeaving, GuestLeaveCommits
      <3>3. CASE \/ GuestSaysHello(g) \/ GuestDecides(g) \/ GuestHangsUp(g)
                 \/ GuestDisconnects(g) \/ GuestStoreFails(g)
        BY <3>3 DEF GuestInside, GuestSaysHello, GuestDecides, GuestHangsUp,
           GuestDisconnects, GuestStoreFails
      <3>4. QED
        BY <1>4, <3>1, <3>2, <3>3 DEF GuestStep
    <2>3. QED
      BY <1>1, <2>1, <2>2, SlotKept
  <1>5. QED
    BY <1>2, <1>3, <1>4

LEMMA OperatorSlot ==
    ASSUME TypeInv, SlotHeldByLiveHandler, NEW o \in Operators, OperatorStep(o)
    PROVE  SlotHeldByLiveHandler'
  <1>1. \A g \in Guests : GuestInside(g) => GuestInside(g)'
    BY OthersUntouched, ActorsAssumption
       DEF Untouched, GuestInside, Actors, Conns
  <1>2. guest' = guest
    BY DEF OperatorStep, OperatorOpens, OperatorAcceptFails, OperatorAttaches,
       OperatorGreets, OperatorGreetFails, OperatorForwards,
       OperatorDisconnects, OperatorCleansUp
  <1>3. \/ current' = current \/ current' = None
        \/ current' \in Chans /\ guest[current'] = None
    <2>1. CASE OperatorAttaches(o)
      BY <2>1 DEF OperatorAttaches, ChannelIs, Fresh
    <2>2. CASE OperatorCleansUp(o)
      BY <2>2 DEF OperatorCleansUp, Dropped
    <2>3. CASE ~(OperatorAttaches(o) \/ OperatorCleansUp(o))
      BY <2>3 DEF OperatorStep, OperatorOpens, OperatorAcceptFails,
         OperatorGreets, OperatorGreetFails, OperatorForwards,
         OperatorDisconnects
    <2>4. QED
      BY <2>1, <2>2, <2>3
  <1>4. QED
    BY <1>1, <1>2, <1>3, SlotKept

LEMMA CallSlot ==
    ASSUME TypeInv, SlotHeldByLiveHandler, NEW e \in Calls, CallStep(e)
    PROVE  SlotHeldByLiveHandler'
  <1>1. \A g \in Guests : GuestInside(g) => GuestInside(g)'
    BY OthersUntouched, ActorsAssumption
       DEF Untouched, GuestInside, Actors, Conns
  <1>2. /\ current' = current \/ current' = None
        /\ \A c \in Chans : guest'[c] = guest[c] \/ guest'[c] = None
    BY DEF TypeInv, TypeOK, CallStep, CallReads, CallCommits, CallRefreshes, CallStoreFails,
       CloseFindsNothing, CloseHangsUpGuest, CloseHangsUpOperator, ClosePops
  <1>3. QED
    BY <1>1, <1>2, SlotKept

LEMMA WorldSlot ==
    ASSUME TypeInv, SlotHeldByLiveHandler,
           \/ \E h \in Conns : SendReturns(h) \/ SendRaises(h) \/ PeerGoes(h)
           \/ CodeExpires \/ Restarts
    PROVE  SlotHeldByLiveHandler'
  <1> USE DEF TypeInv, TypeOK, Actors, Conns
  <1>1. ASSUME NEW h \in Conns, SendReturns(h) \/ SendRaises(h)
        PROVE  SlotHeldByLiveHandler'
    <2>1. \A g \in Guests : GuestInside(g) => GuestInside(g)'
      BY <1>1 DEF SendReturns, SendRaises, GuestInside
    <2>2. /\ current' = current
          /\ \A c \in Chans : guest'[c] = guest[c] \/ guest'[c] = None
      BY <1>1 DEF SendReturns, SendRaises
    <2>3. QED
      BY <2>1, <2>2, SlotKept
  <1>2. ASSUME NEW h \in Conns, PeerGoes(h) PROVE SlotHeldByLiveHandler'
    BY <1>2 DEF PeerGoes, SlotHeldByLiveHandler, GuestInside
  <1>3. CASE CodeExpires
    BY <1>3 DEF CodeExpires, SlotHeldByLiveHandler, GuestInside
  <1>4. CASE Restarts
    BY <1>4 DEF Restarts, StartsOver, SlotHeldByLiveHandler
  <1>5. QED
    BY <1>1, <1>2, <1>3, <1>4

\* However reconnects, closes and failed sends interleave, a connection that
\* has cleaned up is never again the registered channel's guest, so presence is
\* not answered for it (hub.py:137-144, ws.py:249-260).
THEOREM SlotHeld == Spec => []SlotHeldByLiveHandler
  <1>1. Init => SlotHeldByLiveHandler
    BY DEF Init, SlotHeldByLiveHandler
  <1>2. TypeInv /\ SlotHeldByLiveHandler /\ [Next]_vars => SlotHeldByLiveHandler'
    <2> SUFFICES ASSUME TypeInv, SlotHeldByLiveHandler, [Next]_vars
                 PROVE  SlotHeldByLiveHandler'
      OBVIOUS
    <2>1. CASE UNCHANGED vars
      BY <2>1 DEF vars, SlotHeldByLiveHandler, GuestInside
    <2>2. CASE Next
      BY <2>2, GuestSlot, OperatorSlot, CallSlot, WorldSlot DEF Next
    <2>3. QED
      BY <2>1, <2>2
  <1>3. QED
    BY <1>1, <1>2, ConsentInvariant, PTL DEF Spec

-----------------------------------------------------------------------------
(* Whose slots a cleanup empties.                                          *)

Spared(h) ==
    /\ pc[h] = "cleanup" /\ pc'[h] # "cleanup"
    /\ ~Restarts
    /\ current # None
    => /\ guest[current] \notin {None, h} =>
             current' = current /\ guest'[current] = guest[current]
       /\ operator[current] \notin {None, h} =>
             current' = current /\ operator'[current] = operator[current]

\* Only the handler's own cleanup, or a restart, takes it out of "cleanup".
LEMMA OnlyCleanupLeaves ==
    ASSUME TypeInv, [Next]_vars, NEW h \in Conns,
           pc[h] = "cleanup", pc'[h] # "cleanup", ~Restarts
    PROVE  \/ h \in Guests /\ GuestCleansUp(h)
           \/ h \in Operators /\ OperatorCleansUp(h)
  <1> USE DEF TypeInv, TypeOK, Actors, Conns
  <1>1. PICK a \in Actors :
           \/ a \in Guests /\ GuestStep(a)
           \/ a \in Operators /\ OperatorStep(a)
           \/ a \in Calls /\ CallStep(a)
           \/ SendReturns(a) \/ SendRaises(a)
    BY DEF Next, vars, PeerGoes, CodeExpires
  <1>2. CASE a \in Guests /\ GuestStep(a)
    BY <1>2 DEF GuestStep, GuestLooksUp, GuestAcceptFails, GuestAttaches,
       GuestClosesStale, GuestReplaces, GuestSaysHello, GuestHelloCommits,
       GuestDecides, GuestGrantCommits, GuestDenialCommits, GuestHangsUp,
       GuestForwards, GuestDisconnects, GuestStoreFails, GuestReadsLeaving,
       GuestLeaveCommits, GuestCleansUp, Sends
  <1>3. CASE a \in Operators /\ OperatorStep(a)
    BY <1>3 DEF OperatorStep, OperatorOpens, OperatorAcceptFails,
       OperatorAttaches, OperatorGreets, OperatorGreetFails, OperatorForwards,
       OperatorDisconnects, OperatorCleansUp, Sends
  <1>4. CASE a \in Calls /\ CallStep(a)
    BY <1>4, ActorsAssumption DEF CallStep, CallReads, CallCommits, CallRefreshes, CallStoreFails,
       CloseFindsNothing, CloseHangsUpGuest, CloseHangsUpOperator, ClosePops
  <1>5. CASE SendReturns(a) \/ SendRaises(a)
    BY <1>5 DEF SendReturns, SendRaises
  <1>6. QED
    BY <1>1, <1>2, <1>3, <1>4, <1>5

\* A connection that cleans up empties its own slots only: the other side, and
\* a newer connection in its own slot, stay registered (hub.py:175-191).
THEOREM CleanupSpares == Spec => CleanupSparesOthers
  <1>1. ASSUME TypeInv, [Next]_vars, NEW h \in Conns PROVE Spared(h)
    <2> SUFFICES ASSUME pc[h] = "cleanup", pc'[h] # "cleanup", ~Restarts,
                        current # None
                 PROVE  /\ guest[current] \notin {None, h} =>
                              current' = current /\ guest'[current] = guest[current]
                        /\ operator[current] \notin {None, h} =>
                              current' = current /\ operator'[current] = operator[current]
      BY DEF Spared
    <2>1. CASE h \in Guests /\ GuestCleansUp(h)
      BY <2>1 DEF TypeInv, TypeOK, GuestCleansUp, Detached, Dropped
    <2>2. CASE h \in Operators /\ OperatorCleansUp(h)
      BY <2>2 DEF TypeInv, TypeOK, OperatorCleansUp, Detached, Dropped
    <2>3. QED
      BY <1>1, <2>1, <2>2, OnlyCleanupLeaves
  <1>2. TypeInv /\ [Next]_vars => [\A h \in Conns : Spared(h)]_vars
    BY <1>1
  <1>3. QED
    BY <1>2, ConsentInvariant, PTL DEF Spec, CleanupSparesOthers, Spared
=============================================================================
