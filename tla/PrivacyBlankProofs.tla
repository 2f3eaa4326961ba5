-------------------------- MODULE PrivacyBlankProofs --------------------------
(***************************************************************************)
(* What PrivacyBlank guarantees for any number of "blank on" and "blank    *)
(* off" messages, presses of Escape and reconnects, on any machine and     *)
(* with any faults: its type invariant, that a blank nobody has told to    *)
(* stop always has a thread that will, and that a dark display always has  *)
(* something left that will light it.                                      *)
(***************************************************************************)
EXTENDS PrivacyBlank, TLAPS

(* What dim read of the display is what it will save. *)
DimKnowsLevel ==
    \A e \in Enables : pc[e] \in {"darkening", "saving"} => target[e] \in Levels

(* The thread that will end the blank has not told it to stop yet.  A       *)
(* disable past that point may be overtaken: another one finishes, and a    *)
(* new enable clears the flag it had set.                                   *)
Stopping == {"disabling", "restoring", "clearing", "releasing"}
CeilingAhead ==
    active /\ ~stop => \/ \E e \in Enables : pc[e] \in Enabling \cup {"watching"}
                      \/ \E t \in Threads : pc[t] \in Stopping

IInv == TypeOK /\ DimKnowsLevel /\ CeilingAhead

-----------------------------------------------------------------------------
(* Threads. *)

LEMMA ThreadFacts ==
    /\ Enables \subseteq Threads /\ Workers \subseteq Threads /\ Escapes \subseteq Threads
    /\ Loop \in Threads /\ None \notin Threads /\ Enables \subseteq Workers
    /\ None \notin Enables /\ Loop \notin Enables
    /\ \A e \in Enables : e \notin Escapes
  BY ThreadsAssumption DEF Threads, Workers

LEMMA InitIInv == Init => IInv
  <1> SUFFICES ASSUME Init PROVE IInv
    OBVIOUS
  <1> USE DEF Init
  <1>1. FieldsOK /\ KeysOK
    BY DEF FieldsOK, KeysOK
  <1>2. ScreenOK
    BY DEF ScreenOK, Overlays, Levels
  <1>3. ThreadsOK
    BY DEF ThreadsOK, Positions
  <1>4. SessionOK
    BY ThreadsAssumption DEF SessionOK, Connections
  <1>5. DimKnowsLevel /\ LapsesOK
    BY ThreadFacts DEF DimKnowsLevel, LapsesOK
  <1> QED
    BY <1>1, <1>2, <1>3, <1>4, <1>5 DEF IInv, TypeOK, CeilingAhead

LEMMA NextFieldsOK == FieldsOK /\ [Next]_vars => FieldsOK'
  <1> SUFFICES ASSUME FieldsOK, [Next]_vars PROVE FieldsOK'
    OBVIOUS
  <1> USE DEF FieldsOK
  <1>1. CASE UNCHANGED <<active, stop, thread, ready, dims, locks>>
    BY <1>1
  <1>2. ASSUME NEW e \in Enables,
               \/ EnableStarts(e) \/ DimFails(e)
               \/ DimCannotRead(e) \/ DimSucceeds(e) \/ EnableSpawns(e)
               \/ EnableGets(e) \/ EnableFails(e) \/ EnableSucceeds(e)
        PROVE  FieldsOK'
    BY <1>2
    DEF EnableStarts, DimFails, DimCannotRead, FallsBack, DimSucceeds, EnableSpawns,
    EnableGets, EnableFails,
        EnableSucceeds, dimmer
  <1>3. ASSUME NEW e \in Enables, OverlayReports(e) PROVE FieldsOK'
    <2>1. ready' \in Results \cup {None}
      BY <1>3 DEF OverlayReports, Results
    <2>2. locks' \in BOOLEAN
      <3>1. locks' = locks \/ locks' = TRUE
        BY <1>3 DEF OverlayReports
      <3> QED
        BY <3>1
    <2> QED
      BY <1>3, <2>1, <2>2 DEF OverlayReports, dimmer
  <1>4. ASSUME NEW e \in Enables, OverlayFails(e) \/ OverlayHearsEscape(e) PROVE FieldsOK'
    BY <1>4 DEF OverlayFails, OverlayHearsEscape, Results, dimmer
  <1>5. ASSUME NEW t \in Threads, DisableReleases(t) \/ DisableFinishes(t) PROVE FieldsOK'
    BY <1>5 DEF DisableReleases, DisableFinishes, dimmer
  <1>6. CASE Crashes
    BY <1>6 DEF Crashes
  <1>7. \/ UNCHANGED <<active, stop, thread, ready, dims, locks>> \/ Crashes
        \/ \E t \in Threads : DisableReleases(t) \/ DisableFinishes(t)
        \/ \E e \in Enables :
              \/ EnableStarts(e) \/ DimFails(e)
              \/ DimCannotRead(e) \/ DimSucceeds(e) \/ EnableSpawns(e)
              \/ EnableGets(e) \/ EnableFails(e) \/ EnableSucceeds(e)
              \/ OverlayReports(e) \/ OverlayFails(e) \/ OverlayHearsEscape(e)
    BY DEF Next, EnableGoesOn, DisableGoesOn, OverlayGoesOn, DimArms, DimDarkens,
           DimRaises, DimSaves,
           EnableTimesOut, BlocksLocalInput, WatchdogEnds, WatchdogExpires, DisableStarts,
           DimmerRelights, DimmerClears, DisableJoins, OverlayPolls, GuardFires,
           OperatorBlanks,
           HandlerReturns, EscapePressed, ConnectionEnds, ToolsClosed, Reconnect, vars,
           dimmer
  <1> QED
    BY <1>1, <1>2, <1>3, <1>4, <1>5, <1>6, <1>7

LEMMA NextKeysOK == KeysOK /\ [Next]_vars => KeysOK'
  <1> SUFFICES ASSUME KeysOK, [Next]_vars PROVE KeysOK'
    OBVIOUS
  <1>1. CASE UNCHANGED keys
    BY <1>1 DEF keys, KeysOK
  <1>2. ASSUME NEW e \in Enables, DimSucceeds(e) \/ BlocksLocalInput(e) PROVE KeysOK'
    BY <1>2 DEF DimSucceeds, BlocksLocalInput, KeysOK
  <1>3. ASSUME NEW t \in Threads, DisableReleases(t) PROVE KeysOK'
    BY <1>3 DEF DisableReleases, KeysOK
  <1>4. CASE Crashes
    BY <1>4 DEF Crashes, KeysOK
  <1>5. \/ UNCHANGED keys \/ Crashes \/ \E t \in Threads : DisableReleases(t)
        \/ \E e \in Enables : DimSucceeds(e) \/ BlocksLocalInput(e)
    BY DEF Next, EnableGoesOn, DisableGoesOn, OverlayGoesOn, EnableStarts, DimArms,
           DimDarkens,
           DimRaises, DimSaves, DimFails, DimCannotRead, FallsBack, EnableSpawns,
           EnableGets, EnableTimesOut, EnableFails,
           EnableSucceeds, WatchdogEnds, WatchdogExpires, DisableStarts, DimmerRelights,
           DimmerClears,
           DisableJoins, DisableFinishes, OverlayReports, OverlayPolls, OverlayFails,
           OverlayHearsEscape, GuardFires, OperatorBlanks, HandlerReturns, EscapePressed,
           ConnectionEnds, ToolsClosed, Reconnect, vars
  <1> QED
    BY <1>1, <1>2, <1>3, <1>4, <1>5

LEMMA NextScreenOK == ScreenOK /\ DimKnowsLevel /\ [Next]_vars => ScreenOK'
  <1> SUFFICES ASSUME ScreenOK, DimKnowsLevel, [Next]_vars PROVE ScreenOK'
    OBVIOUS
  <1>1. CASE UNCHANGED <<screen, saved, guard, guards>>
    BY <1>1 DEF screen, ScreenOK
  <1>2. ASSUME NEW e \in Enables, DimArms(e) \/ DimFails(e) \/ DimCannotRead(e) PROVE ScreenOK'
    BY <1>2 DEF DimArms, DimFails, DimCannotRead, FallsBack, ScreenOK, screen
  <1>3. ASSUME NEW e \in Enables, DimDarkens(e) PROVE ScreenOK'
    BY <1>3 DEF DimDarkens, ScreenOK, Levels, dimmer
  <1>4. ASSUME NEW e \in Enables, DimSaves(e) PROVE ScreenOK'
    BY <1>4 DEF DimSaves, DimKnowsLevel, ScreenOK, screen
  <1>5. ASSUME NEW e \in Enables,
               \/ EnableSpawns(e) \/ OverlayReports(e) \/ OverlayPolls(e) \/ OverlayFails(e)
        PROVE  ScreenOK'
    <2>1. PICK what \in Overlays : overlay' = [overlay EXCEPT ![e] = what]
      BY <1>5 DEF EnableSpawns, OverlayReports, OverlayPolls, OverlayFails, Overlays
    <2>2. bound' \subseteq Enables
      BY <1>5 DEF EnableSpawns, OverlayReports, OverlayPolls, OverlayFails, ScreenOK
    <2> QED
      BY <1>5, <2>1, <2>2
      DEF EnableSpawns, OverlayReports, OverlayPolls, OverlayFails, ScreenOK, dimmer
  <1>6. ASSUME NEW e \in Enables, GuardFires(e) PROVE ScreenOK'
    BY <1>6 DEF GuardFires, ScreenOK
  <1>7. ASSUME NEW t \in Threads, DimmerRelights(t) \/ DimmerClears(t) PROVE ScreenOK'
    <2>1. CASE DimmerRelights(t)
      BY <1>7, <2>1 DEF DimmerRelights, ScreenOK, dimmer
    <2>2. CASE DimmerClears(t)
      BY <1>7, <2>2 DEF DimmerClears, ScreenOK, screen
    <2> QED
      BY <1>7, <2>1, <2>2
  <1>8. CASE Crashes
    BY <1>8 DEF Crashes, ScreenOK, Overlays
  <1>9. \/ UNCHANGED <<screen, saved, guard, guards>> \/ Crashes
        \/ \E t \in Threads : DimmerRelights(t) \/ DimmerClears(t)
        \/ \E e \in Enables :
              \/ DimArms(e) \/ DimFails(e)
              \/ DimCannotRead(e) \/ DimDarkens(e) \/ DimSaves(e)
              \/ EnableSpawns(e) \/ OverlayReports(e) \/ OverlayPolls(e) \/ OverlayFails(e)
              \/ GuardFires(e)
    BY DEF Next, EnableGoesOn, DisableGoesOn, OverlayGoesOn, EnableStarts, DimSucceeds,
           DimRaises, EnableGets, EnableTimesOut, EnableFails, EnableSucceeds,
           BlocksLocalInput,
           WatchdogEnds, WatchdogExpires, DisableStarts, DisableReleases, DisableJoins,
           DisableFinishes, OverlayHearsEscape, OperatorBlanks, HandlerReturns,
           EscapePressed, ConnectionEnds, ToolsClosed, Reconnect, vars, dimmer
  <1> QED
    BY <1>1, <1>2, <1>3, <1>4, <1>5, <1>6, <1>7, <1>8, <1>9

LEMMA NextSessionOK == SessionOK /\ [Next]_vars => SessionOK'
  <1> SUFFICES ASSUME SessionOK, [Next]_vars PROVE SessionOK'
    OBVIOUS
  <1>1. CASE UNCHANGED session
    BY <1>1 DEF session, SessionOK
  <1>2. CASE \/ \E c \in Workers : OperatorBlanks(c)
             \/ HandlerReturns \/ ConnectionEnds \/ ToolsClosed
    BY <1>2
    DEF OperatorBlanks, HandlerReturns, ConnectionEnds, ToolsClosed, SessionOK, Connections
  <1>3. CASE Reconnect
    <2>1. connects' \in 0..Reconnects
      BY <1>3, ThreadsAssumption DEF Reconnect, SessionOK
    <2> QED
      BY <1>3, <2>1 DEF Reconnect, SessionOK, Connections
  <1>4. CASE Crashes
    BY <1>4 DEF Crashes, SessionOK, Connections
  <1>5. \/ UNCHANGED session \/ Reconnect \/ Crashes
        \/ \E c \in Workers : OperatorBlanks(c)
        \/ HandlerReturns \/ ConnectionEnds \/ ToolsClosed
    BY DEF Next, EnableGoesOn, DisableGoesOn, OverlayGoesOn, EnableStarts, DimArms,
           DimDarkens,
           DimRaises, DimSaves, DimFails, DimCannotRead, FallsBack, DimSucceeds,
           EnableSpawns, EnableGets, EnableTimesOut,
           EnableFails, EnableSucceeds, BlocksLocalInput, WatchdogEnds, WatchdogExpires,
           DisableStarts, DimmerRelights, DimmerClears, DisableReleases, DisableJoins,
           DisableFinishes,
           OverlayReports, OverlayPolls, OverlayFails, OverlayHearsEscape, GuardFires,
           EscapePressed, vars
  <1> QED
    BY <1>1, <1>2, <1>3, <1>4, <1>5

LEMMA NextLapsesOK == LapsesOK /\ [Next]_vars => LapsesOK'
  <1> SUFFICES ASSUME LapsesOK, [Next]_vars PROVE LapsesOK'
    OBVIOUS
  <1> USE DEF LapsesOK, Lapses
  <1>1. CASE UNCHANGED lapses
    BY <1>1
  <1>2. ASSUME NEW e \in Enables,
               EnableStarts(e) \/ DimArms(e) \/ DimRaises(e) \/ GuardFires(e)
        PROVE  LapsesOK'
    BY <1>2 DEF EnableStarts, DimArms, DimRaises, GuardFires
  <1>3. ASSUME NEW t \in Threads, DimmerRelights(t) PROVE LapsesOK'
    BY <1>3 DEF DimmerRelights
  <1>4. CASE Crashes
    BY <1>4 DEF Crashes
  <1>5. \/ UNCHANGED lapses \/ Crashes
        \/ \E t \in Threads : DimmerRelights(t)
        \/ \E e \in Enables :
              EnableStarts(e) \/ DimArms(e) \/ DimRaises(e) \/ GuardFires(e)
    BY DEF Next, EnableGoesOn, DisableGoesOn, OverlayGoesOn, DimCannotRead, FallsBack,
           DimDarkens, DimSaves, DimFails, DimSucceeds, EnableSpawns, EnableGets,
           EnableTimesOut, EnableFails, EnableSucceeds, BlocksLocalInput, WatchdogEnds,
           WatchdogExpires, DisableStarts, DimmerClears, DisableReleases, DisableJoins,
           DisableFinishes, OverlayReports, OverlayPolls, OverlayFails, OverlayHearsEscape,
           OperatorBlanks, HandlerReturns, EscapePressed, ConnectionEnds, ToolsClosed,
           Reconnect, vars
  <1> QED
    BY <1>1, <1>2, <1>3, <1>4, <1>5
-----------------------------------------------------------------------------
(* Where threads go, and what they carry. *)

Threading == ThreadsOK /\ DimKnowsLevel

LEMMA GoesOK ==
    ASSUME Threading, NEW t \in Threads, NEW where \in Positions, Goes(t, where),
           where \notin {"darkening", "saving"}, UNCHANGED target
    PROVE  Threading'
  BY DEF Threading, ThreadsOK, DimKnowsLevel, Goes

LEMMA NextThreading == Threading /\ ScreenOK /\ FieldsOK /\ [Next]_vars => Threading'
  <1> SUFFICES ASSUME Threading, ScreenOK, FieldsOK, [Next]_vars PROVE Threading'
    OBVIOUS
  <1>0. /\ Positions = Enabling \cup Disabling \cup {"idle", "called", "watching", "raised", "done"}
        /\ Enabling = {"dimming", "darkening", "saving", "dimmed", "spawning", "waiting",
                      "failing", "covered", "blocking"}
        /\ Disabling = {"disabling", "restoring", "clearing", "releasing", "joining", "finishing"}
    BY DEF Positions, Enabling, Starting, Disabling, Undoing
  <1>1. CASE UNCHANGED <<pc, target>>
    BY <1>1 DEF Threading, ThreadsOK, DimKnowsLevel
  <1>2. ASSUME NEW e \in Enables,
               \/ EnableStarts(e) \/ DimSucceeds(e) \/ EnableSpawns(e) \/ EnableGets(e)
               \/ EnableTimesOut(e) \/ EnableFails(e) \/ EnableSucceeds(e)
               \/ BlocksLocalInput(e) \/ WatchdogEnds(e) \/ WatchdogExpires(e)
        PROVE  Threading'
    <2>1. /\ UNCHANGED target
          /\ \E where \in {"done", "dimming", "spawning", "watching", "waiting", "covered",
                           "failing", "blocking", "disabling"} : Goes(e, where)
      BY <1>2
      DEF EnableStarts, DimSucceeds, EnableSpawns, EnableGets, EnableTimesOut, EnableFails,
          EnableSucceeds, BlocksLocalInput, WatchdogEnds, WatchdogExpires
    <2> QED
      BY <1>0, <2>1, GoesOK, ThreadFacts
  <1>3. ASSUME NEW e \in Enables, DimArms(e) \/ DimDarkens(e) PROVE Threading'
    BY <1>0, <1>3, ThreadFacts
    DEF DimArms, DimDarkens, Goes, Threading, ThreadsOK, DimKnowsLevel, ScreenOK
  <1>4. ASSUME NEW e \in Enables,
               DimSaves(e) \/ DimRaises(e) \/ DimFails(e) \/ DimCannotRead(e)
        PROVE  Threading'
    BY <1>0, <1>4, ThreadFacts
    DEF DimSaves, DimRaises, DimFails, DimCannotRead, FallsBack, Goes, Threading,
    ThreadsOK, DimKnowsLevel
  <1>5. ASSUME NEW t \in Threads,
               \/ DisableStarts(t) \/ DimmerRelights(t) \/ DimmerClears(t)
               \/ DisableFinishes(t)
        PROVE  Threading'
    <2>1. /\ UNCHANGED target
          /\ \E where \in {"done", "restoring", "clearing", "releasing"} : Goes(t, where)
      BY <1>5 DEF DisableStarts, DimmerRelights, DimmerClears, DisableFinishes
    <2> QED
      BY <1>0, <2>1, GoesOK
  <1>6. ASSUME NEW t \in Threads, DisableReleases(t) \/ DisableJoins(t) PROVE Threading'
    <2>1. PICK where \in {"finishing", "joining", "raised"}, what \in Enables \cup {None} :
             Goes(t, where) /\ target' = [target EXCEPT ![t] = what]
      BY <1>6 DEF DisableReleases, DisableJoins, FieldsOK
    <2> QED
      BY <1>0, <2>1, ThreadFacts DEF Goes, Threading, ThreadsOK, DimKnowsLevel
  <1>7. ASSUME NEW c \in Workers, OperatorBlanks(c) PROVE Threading'
    <2>1. /\ UNCHANGED target
          /\ \E where \in {"called", "disabling"} : Goes(c, where)
      BY <1>7 DEF OperatorBlanks
    <2> QED
      BY <1>0, <2>1, GoesOK, ThreadFacts
  <1>8. ASSUME NEW t \in Threads, Goes(t, "disabling") /\ UNCHANGED target PROVE Threading'
    BY <1>0, <1>8, GoesOK
  <1>9. CASE Crashes
    <2>1. /\ pc' = [t \in Threads |-> IF pc[t] = "idle" THEN "idle" ELSE "done"]
          /\ target' = [t \in Threads |-> None]
      BY <1>9 DEF Crashes
    <2> QED
      BY <1>0, <2>1, ThreadFacts DEF Threading, ThreadsOK, DimKnowsLevel
  <1>10. \/ UNCHANGED <<pc, target>> \/ Crashes
         \/ \E t \in Threads : \/ Goes(t, "disabling") /\ UNCHANGED target
                               \/ DisableStarts(t) \/ DimmerRelights(t)
                               \/ DimmerClears(t) \/ DisableFinishes(t)
                               \/ DisableReleases(t) \/ DisableJoins(t)
         \/ \E c \in Workers : OperatorBlanks(c)
         \/ \E e \in Enables :
               \/ EnableStarts(e) \/ DimSucceeds(e) \/ EnableSpawns(e) \/ EnableGets(e)
               \/ EnableTimesOut(e) \/ EnableFails(e) \/ EnableSucceeds(e)
               \/ BlocksLocalInput(e) \/ WatchdogEnds(e) \/ WatchdogExpires(e)
               \/ DimArms(e) \/ DimDarkens(e) \/ DimRaises(e)
               \/ DimSaves(e) \/ DimFails(e) \/ DimCannotRead(e)
    BY ThreadFacts
    DEF Next, EnableGoesOn, DisableGoesOn, OverlayGoesOn, OverlayReports, OverlayPolls,
        OverlayFails, OverlayHearsEscape, GuardFires, HandlerReturns, EscapePressed,
        ConnectionEnds, ToolsClosed, Reconnect, vars
  <1> QED
    BY <1>1, <1>2, <1>3, <1>4, <1>5, <1>6, <1>7, <1>8, <1>9, <1>10

-----------------------------------------------------------------------------
(* The ceiling. *)

(* A step that leaves the two flags and takes no thread away from where it  *)
(* is counted.                                                              *)
LEMMA StillAhead ==
    ASSUME ThreadsOK, CeilingAhead, UNCHANGED <<active, stop>>,
           \A e \in Enables : pc[e] \in Enabling \cup {"watching"}
                              => pc'[e] \in Enabling \cup {"watching"} \cup Stopping,
           \A t \in Threads : pc[t] \in Stopping => pc'[t] \in Stopping
    PROVE  CeilingAhead'
  BY ThreadFacts DEF CeilingAhead

LEMMA NextAhead == ThreadsOK /\ CeilingAhead /\ [Next]_vars => CeilingAhead'
  <1> SUFFICES ASSUME ThreadsOK, CeilingAhead, [Next]_vars PROVE CeilingAhead'
    OBVIOUS
  <1>0. /\ pc \in [Threads -> Positions]
        /\ Enabling = {"dimming", "darkening", "saving", "dimmed", "spawning", "waiting",
                      "failing", "covered", "blocking"}
        /\ Stopping = {"disabling", "restoring", "clearing", "releasing"}
    BY DEF ThreadsOK, Enabling, Starting, Stopping
  <1>1. CASE UNCHANGED <<active, stop, pc>>
    BY <1>1 DEF CeilingAhead
  <1>2. ASSUME NEW e \in Enables, EnableStarts(e) PROVE CeilingAhead'
    <2>1. CASE active
      BY <1>0, <1>2, <2>1, StillAhead, ThreadFacts DEF EnableStarts, Goes
    <2>2. CASE ~active
      BY <1>2, <2>2 DEF EnableStarts, CeilingAhead
    <2> QED
      BY <2>1, <2>2
  <1>3. ASSUME NEW e \in Enables, DimSucceeds(e) \/ EnableSucceeds(e) PROVE CeilingAhead'
    <2>1. pc'[e] \in Enabling \cup {"watching"}
      BY <1>0, <1>3, ThreadFacts DEF DimSucceeds, EnableSucceeds, Goes
    <2> QED
      BY <2>1 DEF CeilingAhead
  <1>4. ASSUME NEW e \in Enables,
               \/ DimArms(e) \/ DimDarkens(e) \/ DimRaises(e)
               \/ DimSaves(e) \/ DimFails(e) \/ DimCannotRead(e) \/ EnableSpawns(e)
               \/ EnableGets(e) \/ EnableTimesOut(e)
               \/ BlocksLocalInput(e) \/ WatchdogExpires(e)
        PROVE  CeilingAhead'
    <2>1. /\ UNCHANGED <<active, stop>> /\ pc[e] \notin Stopping
          /\ \E where \in Enabling \cup {"watching", "disabling"} : Goes(e, where)
      BY <1>0, <1>4
      DEF DimArms, DimDarkens, DimRaises, DimSaves, DimFails, DimCannotRead, FallsBack,
      EnableSpawns, EnableGets, EnableTimesOut,
          BlocksLocalInput, WatchdogExpires
    <2> QED
      BY <1>0, <2>1, StillAhead, ThreadFacts DEF Goes
  <1>5. ASSUME NEW e \in Enables, EnableFails(e) \/ OverlayHearsEscape(e) PROVE CeilingAhead'
    BY <1>5 DEF EnableFails, OverlayHearsEscape, CeilingAhead
  <1>6. ASSUME NEW e \in Enables, WatchdogEnds(e) PROVE CeilingAhead'
    BY <1>6 DEF WatchdogEnds, CeilingAhead
  <1>7. ASSUME NEW t \in Threads, DisableStarts(t) PROVE CeilingAhead'
    <2>1. CASE active
      BY <1>0, <1>7, <2>1, StillAhead DEF DisableStarts, Goes
    <2>2. CASE ~active
      BY <1>7, <2>2 DEF DisableStarts, CeilingAhead
    <2> QED
      BY <2>1, <2>2
  <1>8. ASSUME NEW t \in Threads, DimmerRelights(t) \/ DimmerClears(t) PROVE CeilingAhead'
    <2>1. /\ UNCHANGED <<active, stop>> /\ pc[t] \in {"restoring", "clearing"}
          /\ \E where \in {"clearing", "releasing"} : Goes(t, where)
      BY <1>8 DEF DimmerRelights, DimmerClears
    <2> QED
      BY <1>0, <2>1, StillAhead DEF Goes
  <1>9. ASSUME NEW t \in Threads, DisableReleases(t) \/ DisableFinishes(t) PROVE CeilingAhead'
    BY <1>9 DEF DisableReleases, DisableFinishes, CeilingAhead
  <1>10. ASSUME NEW t \in Threads, DisableJoins(t) PROVE CeilingAhead'
    BY <1>0, <1>10, StillAhead DEF DisableJoins, Goes
  <1>11. ASSUME NEW c \in Workers, OperatorBlanks(c) PROVE CeilingAhead'
    BY <1>0, <1>11, StillAhead, ThreadFacts DEF OperatorBlanks, Goes
  <1>12. ASSUME NEW t \in Threads, Goes(t, "disabling"), UNCHANGED <<active, stop>>
         PROVE  CeilingAhead'
    BY <1>0, <1>12, StillAhead DEF Goes
  <1>13. CASE Crashes
    BY <1>13 DEF Crashes, CeilingAhead
  <1>14. \/ UNCHANGED <<active, stop, pc>> \/ Crashes
         \/ \E t \in Threads : \/ Goes(t, "disabling") /\ UNCHANGED <<active, stop>>
                               \/ DisableStarts(t) \/ DimmerRelights(t)
                               \/ DimmerClears(t) \/ DisableFinishes(t)
                               \/ DisableReleases(t) \/ DisableJoins(t)
         \/ \E c \in Workers : OperatorBlanks(c)
         \/ \E e \in Enables :
               \/ EnableStarts(e) \/ DimSucceeds(e) \/ EnableSpawns(e) \/ EnableGets(e)
               \/ EnableTimesOut(e) \/ EnableFails(e) \/ EnableSucceeds(e)
               \/ BlocksLocalInput(e) \/ WatchdogEnds(e) \/ WatchdogExpires(e)
               \/ DimArms(e) \/ DimDarkens(e) \/ DimRaises(e)
               \/ DimSaves(e) \/ DimFails(e) \/ DimCannotRead(e)
               \/ OverlayHearsEscape(e)
    BY ThreadFacts
    DEF Next, EnableGoesOn, DisableGoesOn, OverlayGoesOn, OverlayReports, OverlayPolls,
        OverlayFails, GuardFires, HandlerReturns, EscapePressed, ConnectionEnds,
        ToolsClosed,
        Reconnect, vars
  <1> QED
    BY <1>1, <1>2, <1>3, <1>4, <1>5, <1>6, <1>7, <1>8, <1>9, <1>10, <1>11, <1>12, <1>13, <1>14

-----------------------------------------------------------------------------
(* The darkness.  As long as nothing the code has no answer to has          *)
(* happened, one enable at a time is on its way, and none while the blank   *)
(* is on or being undone; so what one thread reads of the display no other  *)
(* thread changes under it.                                                 *)

Clean == lapses \cap {"restore", "darken", "misread", "overlap"} = {}

WithWindow == {"spawning", "waiting", "failing", "covered"}
Leaving == {"releasing", "joining", "finishing"}

(* The way to a window is taken only once there is no dimmer.               *)
WindowsAfterDimmer == \A e \in Enables : pc[e] \in WithWindow => ~dims

OneStarts == \A d, e \in Enables : pc[d] \in Starting /\ pc[e] \in Starting => d = e
NoneStartsWhileOn == active => \A e \in Enables : pc[e] \notin Starting
NoneStartsWhileUndoing ==
    \A t \in Threads : pc[t] \in Undoing => \A e \in Enables : pc[e] \notin Starting

(* What was read, saved and given to the guards is how the display was.     *)
OriginalKnown ==
    /\ saved \in {"lit", None}
    /\ \A e \in Enables : /\ guards[e] \in {"lit", None}
                          /\ pc[e] \in {"darkening", "saving"} => target[e] = "lit"

DimmerWhileDimming ==
    \A e \in Enables : pc[e] \in {"dimming", "darkening", "saving", "dimmed"} => dims

(* Up to the darkening, and when nothing was noted, the display is lit.     *)
LitBefore ==
    \A e \in Enables :
        pc[e] = "darkening" \/ (pc[e] = "dimmed" /\ saved = None) => level = "lit"

ArmedWhileDimming ==
    \A e \in Enables : pc[e] \in {"darkening", "saving", "dimmed"}
                          => guards[e] = "lit" \/ "guard" \in lapses

(* Whoever undoes the blank finds what to put back, or a display that is    *)
(* lit; once it is past, the display is lit, or an agent that died left it. *)
UndoingLights ==
    \A t \in Threads : /\ pc[t] = "restoring" => saved = "lit" \/ level = "lit"
                       /\ pc[t] = "clearing" => level = "lit"
                       /\ pc[t] \in Leaving => level = "lit" \/ "crash" \in lapses
OnRemembers ==
    active => level = "lit" \/ (IF dims THEN saved = "lit" ELSE "crash" \in lapses)

(* Each of the two ways back exists but for the fault that takes it away.   *)
Guarded == level = "dark" => "guard" \in lapses \/ \E e \in Enables : guards[e] = "lit"
RememberedUnlessDead == level = "dark" => "crash" \in lapses \/ Remembered

Tidy ==
    /\ OneStarts /\ NoneStartsWhileOn /\ NoneStartsWhileUndoing
    /\ OriginalKnown /\ DimmerWhileDimming /\ LitBefore /\ ArmedWhileDimming
    /\ UndoingLights /\ OnRemembers /\ Guarded /\ RememberedUnlessDead

DarkInv == WindowsAfterDimmer /\ (Clean => Tidy)

LEMMA InitDark == Init => DarkInv
  <1> SUFFICES ASSUME Init PROVE DarkInv
    OBVIOUS
  <1>1. \A t \in Threads : pc[t] = "idle"
    BY DEF Init
  <1>2. WindowsAfterDimmer /\ OneStarts /\ NoneStartsWhileOn /\ NoneStartsWhileUndoing
    BY <1>1, ThreadFacts
    DEF WindowsAfterDimmer, OneStarts, NoneStartsWhileOn, NoneStartsWhileUndoing, WithWindow,
        Starting, Undoing
  <1>3. OriginalKnown /\ LitBefore /\ ArmedWhileDimming /\ UndoingLights
    BY <1>1, ThreadFacts DEF Init, OriginalKnown, LitBefore, ArmedWhileDimming, UndoingLights,
       Leaving
  <1>4. DimmerWhileDimming /\ OnRemembers /\ Guarded /\ RememberedUnlessDead
    BY <1>1, ThreadFacts
    DEF Init, DimmerWhileDimming, OnRemembers, Guarded, RememberedUnlessDead
  <1> QED
    BY <1>2, <1>3, <1>4 DEF DarkInv, Tidy

(* A thread that moves, and changes nothing of the display, the dimmer or   *)
(* whether the blank is on.                                                 *)
LEMMA MoveKeeps ==
    ASSUME ThreadsOK, DarkInv, NEW t \in Threads, NEW where, Goes(t, where),
           UNCHANGED <<active, dims, level, saved, guards, lapses>>,
           \A e \in Enables : pc'[e] \in {"darkening", "saving"} => target'[e] = target[e],
           t \in Enables => pc[t] \notin {"dimmed", "saving"},
           where \notin {"dimming", "darkening", "saving", "dimmed", "restoring", "clearing"},
           where \in WithWindow => pc[t] \in WithWindow,
           where \in Leaving => pc[t] \in Leaving
    PROVE  DarkInv'
  <1>0. /\ pc \in [Threads -> Positions] /\ Enables \subseteq Threads
        /\ pc' = [pc EXCEPT ![t] = where]
        /\ Starting = {"dimming", "darkening", "saving", "dimmed"} \cup WithWindow
        /\ Undoing = {"restoring", "clearing"} \cup Leaving
        /\ WithWindow = {"spawning", "waiting", "failing", "covered"}
        /\ Leaving = {"releasing", "joining", "finishing"}
    BY ThreadFacts DEF ThreadsOK, Goes, Starting, Undoing, WithWindow, Leaving
  <1>1. /\ where \in Starting => pc[t] \in Starting
        /\ where \in Undoing => pc[t] \in Undoing
    BY <1>0
  <1>2. WindowsAfterDimmer'
    BY <1>0 DEF DarkInv, WindowsAfterDimmer
  <1>3. ASSUME Clean PROVE Tidy'
    <2>1. OneStarts'
      BY <1>0, <1>1, <1>3 DEF DarkInv, Tidy, OneStarts
    <2>2. NoneStartsWhileOn' /\ NoneStartsWhileUndoing'
      BY <1>0, <1>1, <1>3 DEF DarkInv, Tidy, NoneStartsWhileOn, NoneStartsWhileUndoing
    <2>3. OriginalKnown' /\ DimmerWhileDimming' /\ LitBefore'
      BY <1>0, <1>3 DEF DarkInv, Tidy, OriginalKnown, DimmerWhileDimming, LitBefore
    <2>4. ArmedWhileDimming' /\ UndoingLights'
      BY <1>0, <1>3 DEF DarkInv, Tidy, ArmedWhileDimming, UndoingLights
    <2>5. OnRemembers' /\ Guarded'
      BY <1>3 DEF DarkInv, Tidy, OnRemembers, Guarded
    <2>6. \A e \in Enables : pc[e] \in {"dimmed", "saving"} => pc'[e] = pc[e]
      BY <1>0
    <2>7. RememberedUnlessDead'
      BY <1>3, <2>6 DEF DarkInv, Tidy, RememberedUnlessDead, Remembered
    <2> QED
      BY <2>1, <2>2, <2>3, <2>4, <2>5, <2>7 DEF Tidy
  <1> QED
    BY <1>2, <1>3 DEF DarkInv, Clean

(* An enable starts; unless it overlaps with another, nothing is going on.  *)
LEMMA EnableStartsKeeps ==
    ASSUME ThreadsOK, DarkInv, NEW e \in Enables, EnableStarts(e)
    PROVE  DarkInv'
  <1>0. /\ pc \in [Threads -> Positions] /\ Enables \subseteq Threads
        /\ {"dimming", "spawning"} \subseteq Starting /\ WithWindow \subseteq Starting
        /\ {"dimming", "spawning", "done"} \cap (Undoing \cup Leaving) = {}
        /\ {"called", "dimming", "done"} \cap WithWindow = {}
    BY ThreadFacts DEF ThreadsOK, Starting, Undoing, WithWindow, Leaving
  <1>1. CASE active
    <2>1. /\ Goes(e, "done") /\ UNCHANGED <<target, active, dims, level, saved, guards, lapses>>
          /\ pc[e] = "called"
      BY <1>1 DEF EnableStarts, dimmer, screen
    <2> QED
      BY <1>0, <2>1, MoveKeeps DEF Leaving, WithWindow
  <1>2. CASE ~active
    <2>1. /\ UNCHANGED <<target, active, dims, level, saved, guards>>
          /\ Goes(e, IF dims THEN "dimming" ELSE "spawning") /\ pc[e] = "called"
          /\ lapses' = IF Amid THEN lapses \cup {"overlap"} ELSE lapses
      BY <1>2 DEF EnableStarts, dimmer, screen
    <2>2. WindowsAfterDimmer'
      BY <1>0, <2>1 DEF DarkInv, WindowsAfterDimmer, Goes
    <2>3. ASSUME Clean' PROVE Tidy'
      <3>1. ~Amid /\ lapses' = lapses
        BY <2>1, <2>3 DEF Clean
      <3>2. Tidy
        BY <2>3, <3>1 DEF DarkInv, Clean
      <3>3. \A t \in Threads : t # e => pc'[t] = pc[t] /\ pc[t] \notin Starting \cup Undoing
        BY <1>0, <2>1, <3>1 DEF Goes, Amid
      <3>4. pc'[e] \in {"dimming", "spawning"} /\ pc'[e] \notin Undoing \cup Leaving
        BY <1>0, <2>1 DEF Goes
      <3>5. \A t \in Threads : pc'[t] \notin Undoing
        BY <3>3, <3>4
      <3>6. OneStarts' /\ NoneStartsWhileOn' /\ NoneStartsWhileUndoing'
        BY <1>0, <1>2, <2>1, <3>3, <3>5
        DEF OneStarts, NoneStartsWhileOn, NoneStartsWhileUndoing
      <3>7. \A d \in Enables : pc'[d] \notin {"darkening", "saving", "dimmed"}
        BY <1>0, <3>3, <3>4 DEF Starting
      <3>8. OriginalKnown' /\ LitBefore' /\ ArmedWhileDimming'
        BY <2>1, <3>2, <3>7 DEF Tidy, OriginalKnown, LitBefore, ArmedWhileDimming
      <3>9. UndoingLights' /\ OnRemembers'
        BY <1>2, <2>1, <3>5 DEF UndoingLights, OnRemembers, Undoing, Leaving
      <3>10. Guarded'
        BY <2>1, <3>1, <3>2 DEF Tidy, Guarded
      <3>11. DimmerWhileDimming'
        <4>1. pc'[e] = "dimming" => dims
          BY <1>0, <2>1 DEF Goes
        <4> QED
          BY <1>0, <2>1, <3>3, <3>4, <4>1 DEF DimmerWhileDimming, Starting
      <3>12. ~Remembered
        BY <1>0, <1>2, <2>1, <3>3 DEF Remembered, Starting
      <3>13. RememberedUnlessDead'
        BY <2>1, <3>1, <3>2, <3>12 DEF Tidy, RememberedUnlessDead
      <3> QED
        BY <3>6, <3>8, <3>9, <3>10, <3>11, <3>13 DEF Tidy
    <2> QED
      BY <2>2, <2>3 DEF DarkInv
  <1> QED
    BY <1>1, <1>2

(* What an enable on its way knows: no other is, and nobody undoes.         *)
LEMMA Alone ==
    ASSUME ThreadsOK, DarkInv, Clean, NEW e \in Enables, pc[e] \in Starting
    PROVE  /\ Tidy /\ ~active
           /\ \A t \in Threads : pc[t] \notin Undoing
           /\ \A d \in Enables : d # e => pc[d] \notin Starting
  BY DEF DarkInv, Tidy, OneStarts, NoneStartsWhileOn, NoneStartsWhileUndoing

(* A step of the only enable on its way that leaves it there, and the dimmer *)
(* in place.                                                                 *)
LEMMA DimmingKeeps ==
    ASSUME ThreadsOK, DarkInv, NEW e \in Enables, NEW where, Goes(e, where),
           pc[e] \in {"dimming", "darkening", "saving"}, UNCHANGED <<active, dims>>,
           where \in {"darkening", "saving", "dimmed"},
           lapses \subseteq lapses',
           ASSUME Clean', Tidy,
                  \A d \in Enables : d # e => pc'[d] = pc[d] /\ pc[d] \notin Starting
           PROVE  /\ OriginalKnown' /\ LitBefore' /\ ArmedWhileDimming'
                  /\ Guarded' /\ RememberedUnlessDead'
    PROVE  DarkInv'
  <1>0. /\ pc \in [Threads -> Positions] /\ Enables \subseteq Threads
        /\ pc' = [pc EXCEPT ![e] = where]
        /\ {"dimming", "darkening", "saving", "dimmed"} \subseteq Starting
        /\ where \notin WithWindow \cup Undoing \cup Leaving
        /\ Leaving \subseteq Undoing /\ {"restoring", "clearing"} \subseteq Undoing
    BY ThreadFacts DEF ThreadsOK, Goes, Starting, Undoing, WithWindow, Leaving
  <1>1. WindowsAfterDimmer'
    BY <1>0 DEF DarkInv, WindowsAfterDimmer
  <1>2. ASSUME Clean' PROVE Tidy'
    <2>1. Clean
      BY <1>2 DEF Clean
    <2>2. /\ Tidy /\ ~active /\ \A t \in Threads : pc[t] \notin Undoing
          /\ \A d \in Enables : d # e => pc[d] \notin Starting
      BY <1>0, <2>1, Alone
    <2>3. \A d \in Enables : d # e => pc'[d] = pc[d] /\ pc[d] \notin Starting
      BY <1>0, <2>2
    <2>4. \A t \in Threads : pc'[t] \notin Undoing
      BY <1>0, <2>2
    <2>5. OneStarts' /\ NoneStartsWhileOn' /\ NoneStartsWhileUndoing'
      BY <2>2, <2>3, <2>4 DEF OneStarts, NoneStartsWhileOn, NoneStartsWhileUndoing
    <2>6. UndoingLights' /\ OnRemembers'
      BY <1>0, <2>2, <2>4 DEF UndoingLights, OnRemembers
    <2>7. DimmerWhileDimming'
      BY <1>0, <2>2, <2>3 DEF Tidy, DimmerWhileDimming
    <2> QED
      BY <1>2, <2>2, <2>3, <2>5, <2>6, <2>7 DEF Tidy
  <1> QED
    BY <1>1, <1>2 DEF DarkInv

LEMMA DimArmsKeeps ==
    ASSUME ThreadsOK, ScreenOK, DarkInv, NEW e \in Enables, DimArms(e) PROVE DarkInv'
  <1>0. /\ pc \in [Threads -> Positions] /\ target \in [Threads -> Enables \cup Levels \cup {None}]
        /\ guards \in [Enables -> Levels \cup {None}] /\ level \in {"lit", "dark"}
        /\ e \in Threads /\ Enables \subseteq Threads /\ e # None
        /\ pc[e] = "dimming" /\ Goes(e, "darkening") /\ "dimming" \in Starting
        /\ target' = [target EXCEPT ![e] = level]
        /\ UNCHANGED <<active, dims, saved, level>> /\ lapses \subseteq lapses'
        /\ {"darkening", "saving", "dimmed"} \subseteq Starting
    BY ThreadFacts DEF ThreadsOK, ScreenOK, Levels, DimArms, screen, Starting
  <1>1. /\ Clean' => level = "lit"
        /\ \/ guards' = [guards EXCEPT ![e] = level]
           \/ guards' = guards /\ "guard" \in lapses'
    BY DEF DimArms, Clean, ScreenOK, Levels
  <1>2. ASSUME Clean', Tidy,
               \A d \in Enables : d # e => pc'[d] = pc[d] /\ pc[d] \notin Starting
        PROVE  /\ OriginalKnown' /\ LitBefore' /\ ArmedWhileDimming'
               /\ Guarded' /\ RememberedUnlessDead'
    <2>1. level = "lit" /\ pc'[e] = "darkening" /\ target'[e] = "lit"
      BY <1>0, <1>1, <1>2 DEF Goes
    <2>2. \A d \in Enables : guards'[d] \in {"lit", None}
      BY <1>0, <1>1, <1>2, <2>1 DEF Tidy, OriginalKnown
    <2>3. OriginalKnown'
      BY <1>0, <1>2, <2>1, <2>2 DEF Tidy, OriginalKnown
    <2>4. guards'[e] = "lit" \/ "guard" \in lapses'
      BY <1>0, <1>1, <2>1
    <2>5. ArmedWhileDimming'
      BY <1>0, <1>2, <2>4 DEF ArmedWhileDimming
    <2> QED
      BY <1>0, <2>1, <2>3, <2>5 DEF LitBefore, Guarded, RememberedUnlessDead
  <1> QED
    BY <1>0, <1>2, DimmingKeeps

LEMMA DimDarkensKeeps ==
    ASSUME ThreadsOK, ScreenOK, DarkInv, NEW e \in Enables,
           DimDarkens(e) \/ DimSaves(e) \/ DimRaises(e)
    PROVE  DarkInv'
  <1>0. /\ pc \in [Threads -> Positions] /\ target \in [Threads -> Enables \cup Levels \cup {None}]
        /\ guards \in [Enables -> Levels \cup {None}] /\ level \in {"lit", "dark"}
        /\ e \in Threads /\ Enables \subseteq Threads
        /\ {"darkening", "saving", "dimmed"} \subseteq Starting
        /\ pc[e] \in {"darkening", "saving"}
        /\ UNCHANGED <<active, dims, guards>> /\ lapses \subseteq lapses'
    BY ThreadFacts
    DEF ThreadsOK, ScreenOK, Levels, DimDarkens, DimSaves, DimRaises, Starting, dimmer
  <1>1. PICK where \in {"saving", "dimmed"} : Goes(e, where)
    BY DEF DimDarkens, DimSaves, DimRaises
  <1>2. ASSUME Clean', Tidy,
               \A d \in Enables : d # e => pc'[d] = pc[d] /\ pc[d] \notin Starting
        PROVE  /\ OriginalKnown' /\ LitBefore' /\ ArmedWhileDimming'
               /\ Guarded' /\ RememberedUnlessDead'
    <2>1. /\ \A d \in Enables : d # e => pc'[d] \notin {"darkening", "saving", "dimmed"}
          /\ target[e] = "lit" /\ (guards[e] = "lit" \/ "guard" \in lapses)
          /\ saved \in {"lit", None} /\ pc'[e] = where
          /\ \A d \in Enables : guards[d] \in {"lit", None}
      BY <1>0, <1>1, <1>2 DEF Goes, Tidy, OriginalKnown, ArmedWhileDimming
    <2>2. ArmedWhileDimming' /\ Guarded'
      BY <1>0, <2>1 DEF ArmedWhileDimming, Guarded
    <2>3. CASE DimDarkens(e)
      <3>1. pc'[e] = "saving" /\ target'[e] = "lit" /\ saved' = saved
        BY <1>0, <2>1, <2>3 DEF DimDarkens, Goes, dimmer
      <3> QED
        BY <1>0, <2>1, <2>2, <3>1
        DEF OriginalKnown, LitBefore, RememberedUnlessDead, Remembered
    <2>4. CASE DimSaves(e)
      <3>1. pc'[e] = "dimmed" /\ saved' = "lit"
        BY <1>0, <2>1, <2>4, ThreadsAssumption DEF DimSaves, Goes
      <3>2. saved' # None
        BY <3>1, ThreadsAssumption
      <3> QED
        BY <1>0, <2>1, <2>2, <3>1, <3>2
        DEF OriginalKnown, LitBefore, RememberedUnlessDead, Remembered
    <2>5. CASE DimRaises(e)
      <3>1. pc[e] = "darkening"
        BY <1>0, <1>2, <2>5 DEF DimRaises, Clean
      <3>2. level = "lit" /\ level' = level /\ saved' = saved /\ pc'[e] = "dimmed"
        BY <1>0, <1>2, <2>5, <3>1 DEF Tidy, LitBefore, DimRaises, Goes, screen, dimmer
      <3> QED
        BY <1>0, <2>1, <2>2, <3>2 DEF OriginalKnown, LitBefore, RememberedUnlessDead
    <2> QED
      BY <2>3, <2>4, <2>5
  <1> QED
    BY <1>0, <1>1, <1>2, DimmingKeeps

LEMMA DimReturnsKeeps ==
    ASSUME ThreadsOK, ScreenOK, DarkInv, NEW e \in Enables,
           DimFails(e) \/ DimCannotRead(e) \/ DimSucceeds(e)
    PROVE  DarkInv'
  <1>0. /\ pc \in [Threads -> Positions] /\ guards \in [Enables -> Levels \cup {None}]
        /\ guard \in Enables \cup {None} /\ level \in {"lit", "dark"}
        /\ e \in Threads /\ Enables \subseteq Threads
        /\ {"darkening", "saving", "dimming", "dimmed"} \subseteq Starting
        /\ pc[e] \in {"dimming", "dimmed"}
        /\ UNCHANGED <<level, saved, target, lapses>>
        /\ {"spawning", "watching"} \cap (Undoing \cup Leaving) = {}
        /\ Leaving \subseteq Undoing /\ {"restoring", "clearing"} \subseteq Undoing
        /\ WithWindow \subseteq Starting
    BY ThreadFacts
    DEF ThreadsOK, ScreenOK, Levels, DimFails, DimCannotRead, FallsBack, DimSucceeds,
        Starting, Undoing, Leaving, WithWindow, dimmer, screen
  <1>1. PICK where \in {"spawning", "watching"} : Goes(e, where)
    BY DEF DimFails, DimCannotRead, FallsBack, DimSucceeds
  <1>2. /\ where = "spawning" => ~dims' /\ active' = active /\ (DimFails(e) \/ DimCannotRead(e))
        /\ dims' => dims
        /\ where = "watching" => DimSucceeds(e)
    <2>1. pc'[e] = where
      BY <1>0, <1>1 DEF Goes
    <2>2. CASE DimFails(e) \/ DimCannotRead(e)
      <3>1. pc'[e] = "spawning" /\ ~dims' /\ active' = active
        BY <1>0, <2>2 DEF DimFails, DimCannotRead, FallsBack, Goes
      <3> QED
        BY <2>1, <2>2, <3>1
    <2>3. CASE DimSucceeds(e)
      <3>1. pc'[e] = "watching" /\ dims' = dims
        BY <1>0, <2>3 DEF DimSucceeds, Goes, dimmer
      <3> QED
        BY <2>1, <2>3, <3>1
    <2> QED
      BY <2>2, <2>3
  <1>3. WindowsAfterDimmer'
    BY <1>0, <1>1, <1>2 DEF DarkInv, WindowsAfterDimmer, Goes, WithWindow
  <1>4. ASSUME Clean' PROVE Tidy'
    <2>1. Clean
      BY <1>0, <1>4 DEF Clean
    <2>2. /\ Tidy /\ ~active /\ \A t \in Threads : pc[t] \notin Undoing
          /\ \A d \in Enables : d # e => pc[d] \notin Starting
      BY <1>0, <2>1, Alone
    <2>3. \A d \in Enables : d # e => pc'[d] = pc[d] /\ pc[d] \notin Starting
      BY <1>0, <1>1, <2>2 DEF Goes
    <2>4. \A t \in Threads : pc'[t] \notin Undoing
      BY <1>0, <1>1, <2>2 DEF Goes
    <2>5. pc'[e] = where /\ where \notin {"darkening", "saving", "dimming", "dimmed"}
      BY <1>0, <1>1 DEF Goes
    <2>6. \A d \in Enables : pc'[d] \notin {"darkening", "saving", "dimming", "dimmed"}
      BY <1>0, <2>3, <2>5
    <2>7. active' => where = "watching"
      BY <1>1, <1>2, <2>2
    <2>8. OneStarts' /\ NoneStartsWhileUndoing'
      BY <2>3, <2>4 DEF OneStarts, NoneStartsWhileUndoing
    <2>9. NoneStartsWhileOn'
      <3>1. "watching" \notin Starting
        BY DEF Starting
      <3> QED
        BY <2>3, <2>5, <2>7, <3>1 DEF NoneStartsWhileOn
    <2>10. guards' = guards \/ \E g \in Enables : guards' = [guards EXCEPT ![g] = None]
      BY <1>0 DEF DimFails, DimCannotRead, DimSucceeds, dimmer
    <2>11. \A d \in Enables : guards'[d] \in {"lit", None}
      BY <1>0, <2>2, <2>10 DEF Tidy, OriginalKnown
    <2>12. /\ OriginalKnown' /\ LitBefore' /\ ArmedWhileDimming' /\ UndoingLights'
           /\ DimmerWhileDimming'
      BY <1>0, <2>2, <2>4, <2>6, <2>11
      DEF Tidy, OriginalKnown, LitBefore, ArmedWhileDimming, UndoingLights, DimmerWhileDimming
    <2>13. CASE where = "watching"
      <3>1. /\ guards' = guards /\ dims' = dims /\ saved = "lit" /\ active'
            /\ pc[e] = "dimmed" /\ dims
        <4>1. /\ guards' = guards /\ dims' = dims /\ saved # None /\ active' /\ pc[e] = "dimmed"
          BY <1>2, <2>13 DEF DimSucceeds, dimmer
        <4> QED
          BY <1>0, <2>2, <4>1 DEF Tidy, OriginalKnown, DimmerWhileDimming
      <3>2. OnRemembers' /\ Guarded' /\ RememberedUnlessDead'
        BY <1>0, <2>2, <3>1
        DEF Tidy, OnRemembers, Guarded, RememberedUnlessDead, Remembered
      <3> QED
        BY <2>8, <2>9, <2>12, <3>2 DEF Tidy
    <2>14. CASE where = "spawning"
      <3>1. ~active' /\ (DimFails(e) \/ DimCannotRead(e))
        BY <1>2, <2>2, <2>14
      <3>2. OnRemembers'
        BY <3>1 DEF OnRemembers
      <3>3. CASE DimFails(e)
        <4>1. level = "lit" /\ level # "dark"
          BY <1>0, <2>2, <3>3 DEF DimFails, Tidy, LitBefore
        <4> QED
          BY <1>0, <2>8, <2>9, <2>12, <3>2, <4>1 DEF Tidy, Guarded, RememberedUnlessDead
      <3>4. CASE DimCannotRead(e)
        <4>1. guards' = guards /\ pc[e] = "dimming"
          BY <3>4 DEF DimCannotRead
        <4>2. ~Remembered
          BY <1>0, <2>2, <4>1 DEF Remembered
        <4>3. Guarded' /\ RememberedUnlessDead'
          BY <1>0, <2>2, <4>1, <4>2 DEF Tidy, Guarded, RememberedUnlessDead
        <4> QED
          BY <2>8, <2>9, <2>12, <3>2, <4>3 DEF Tidy
      <3> QED
        BY <3>1, <3>3, <3>4
    <2> QED
      BY <1>1, <2>13, <2>14
  <1> QED
    BY <1>3, <1>4 DEF DarkInv

LEMMA EnableSucceedsKeeps ==
    ASSUME ThreadsOK, ScreenOK, DarkInv, NEW e \in Enables, EnableSucceeds(e)
    PROVE  DarkInv'
  <1>0. /\ pc \in [Threads -> Positions] /\ level \in {"lit", "dark"}
        /\ e \in Threads /\ Enables \subseteq Threads
        /\ pc[e] = "covered" /\ pc[e] \in Starting
        /\ UNCHANGED <<level, saved, target, lapses, guards, dims>> /\ active'
        /\ {"blocking", "watching"} \cap (Starting \cup WithWindow \cup Undoing \cup Leaving) = {}
        /\ {"darkening", "saving", "dimming", "dimmed"} \subseteq Starting
        /\ Leaving \subseteq Undoing /\ {"restoring", "clearing"} \subseteq Undoing
        /\ "covered" \in WithWindow
    BY ThreadFacts
    DEF ThreadsOK, ScreenOK, Levels, EnableSucceeds, Starting, Undoing, Leaving, WithWindow,
        dimmer, screen
  <1>1. PICK where \in {"blocking", "watching"} : Goes(e, where)
    BY DEF EnableSucceeds
  <1>2. WindowsAfterDimmer' /\ ~dims
    BY <1>0, <1>1 DEF DarkInv, WindowsAfterDimmer, Goes
  <1>3. ASSUME Clean' PROVE Tidy'
    <2>1. Clean
      BY <1>0, <1>3 DEF Clean
    <2>2. /\ Tidy /\ ~active /\ \A t \in Threads : pc[t] \notin Undoing
          /\ \A d \in Enables : d # e => pc[d] \notin Starting
      BY <1>0, <2>1, Alone
    <2>3. \A d \in Enables : pc'[d] \notin Starting
      BY <1>0, <1>1, <2>2 DEF Goes
    <2>4. \A t \in Threads : pc'[t] \notin Undoing
      BY <1>0, <1>1, <2>2 DEF Goes
    <2>5. OneStarts' /\ NoneStartsWhileUndoing' /\ NoneStartsWhileOn'
      BY <2>3 DEF OneStarts, NoneStartsWhileUndoing, NoneStartsWhileOn
    <2>6. /\ OriginalKnown' /\ LitBefore' /\ ArmedWhileDimming' /\ UndoingLights'
          /\ DimmerWhileDimming'
      BY <1>0, <2>2, <2>3, <2>4
      DEF Tidy, OriginalKnown, LitBefore, ArmedWhileDimming, UndoingLights, DimmerWhileDimming
    <2>7. ~Remembered
      BY <1>0, <2>2 DEF Remembered
    <2>8. level = "lit" \/ "crash" \in lapses
      BY <1>0, <2>2, <2>7 DEF Tidy, RememberedUnlessDead
    <2>9. OnRemembers' /\ Guarded' /\ RememberedUnlessDead'
      BY <1>0, <1>2, <2>2, <2>8 DEF Tidy, OnRemembers, Guarded, RememberedUnlessDead
    <2> QED
      BY <2>5, <2>6, <2>9 DEF Tidy
  <1> QED
    BY <1>2, <1>3 DEF DarkInv

LEMMA DisableStartsKeeps ==
    ASSUME ThreadsOK, ScreenOK, DarkInv, NEW t \in Threads, DisableStarts(t)
    PROVE  DarkInv'
  <1>0. /\ pc \in [Threads -> Positions] /\ Enables \subseteq Threads
        /\ pc[t] = "disabling" /\ level \in {"lit", "dark"}
        /\ UNCHANGED <<active, target, level, saved, lapses, guards, dims>>
        /\ {"done", "restoring", "releasing"} \cap (Starting \cup WithWindow) = {}
        /\ {"darkening", "saving", "dimming", "dimmed"} \subseteq Starting
        /\ "done" \notin Leaving /\ "disabling" \notin Leaving /\ WithWindow \subseteq Starting
    BY ThreadFacts
    DEF ThreadsOK, ScreenOK, Levels, DisableStarts, Starting, Leaving, WithWindow, dimmer, screen
  <1>1. CASE ~active
    <2>1. Goes(t, "done")
      BY <1>1 DEF DisableStarts
    <2> QED
      BY <1>0, <2>1, MoveKeeps
  <1>2. CASE active
    <2>1. PICK where \in {"restoring", "releasing"} :
             Goes(t, where) /\ (where = "restoring" <=> dims)
      BY <1>2 DEF DisableStarts
    <2>2. WindowsAfterDimmer'
      BY <1>0, <2>1 DEF DarkInv, WindowsAfterDimmer, Goes
    <2>3. ASSUME Clean' PROVE Tidy'
      <3>1. Tidy /\ \A e \in Enables : pc[e] \notin Starting
        BY <1>0, <1>2, <2>3 DEF DarkInv, Clean, Tidy, NoneStartsWhileOn
      <3>2. \A e \in Enables : pc'[e] \notin Starting
        BY <1>0, <2>1, <3>1 DEF Goes
      <3>3. OneStarts' /\ NoneStartsWhileUndoing' /\ NoneStartsWhileOn'
        BY <3>2 DEF OneStarts, NoneStartsWhileUndoing, NoneStartsWhileOn
      <3>4. OriginalKnown' /\ LitBefore' /\ ArmedWhileDimming' /\ DimmerWhileDimming'
        BY <1>0, <3>1, <3>2
        DEF Tidy, OriginalKnown, LitBefore, ArmedWhileDimming, DimmerWhileDimming
      <3>5. level = "lit" \/ (IF dims THEN saved = "lit" ELSE "crash" \in lapses)
        BY <1>2, <3>1 DEF Tidy, OnRemembers
      <3>6. UndoingLights'
        <4>1. /\ pc'[t] = "restoring" => dims
              /\ pc'[t] \in Leaving => ~dims
              /\ pc'[t] # "clearing"
          BY <1>0, <2>1 DEF Goes, Leaving
        <4>2. \A u \in Threads : u # t => pc'[u] = pc[u]
          BY <1>0, <2>1 DEF Goes
        <4> QED
          BY <1>0, <3>1, <3>5, <4>1, <4>2 DEF Tidy, UndoingLights
      <3>7. OnRemembers' /\ Guarded' /\ RememberedUnlessDead'
        BY <1>0, <1>2, <3>1, <3>2
        DEF Tidy, OnRemembers, Guarded, RememberedUnlessDead, Remembered
      <3> QED
        BY <3>3, <3>4, <3>6, <3>7 DEF Tidy
    <2> QED
      BY <2>2, <2>3 DEF DarkInv
  <1> QED
    BY <1>1, <1>2

(* What a thread that undoes the blank knows: no enable is on its way.      *)
LEMMA UndoingKeeps ==
    ASSUME ThreadsOK, DarkInv, NEW t \in Threads, NEW where, Goes(t, where),
           pc[t] \in Undoing, UNCHANGED dims, active' => active,
           where \in Undoing \cup {"done"}, lapses \subseteq lapses',
           saved' \in {saved, "lit", None},
           \A e \in Enables : guards'[e] \in {guards[e], None},
           ASSUME Clean', Tidy, \A u \in Threads : u # t => pc'[u] = pc[u], pc'[t] = where,
                  \A e \in Enables : pc[e] \notin Starting
           PROVE  UndoingLights' /\ OnRemembers' /\ Guarded' /\ RememberedUnlessDead'
    PROVE  DarkInv'
  <1>0. /\ pc \in [Threads -> Positions] /\ Enables \subseteq Threads
        /\ (Undoing \cup {"done"}) \cap (Starting \cup WithWindow) = {}
        /\ {"darkening", "saving", "dimming", "dimmed"} \subseteq Starting
        /\ WithWindow \subseteq Starting
    BY ThreadFacts DEF ThreadsOK, Starting, Undoing, WithWindow
  <1>1. WindowsAfterDimmer'
    BY <1>0 DEF DarkInv, WindowsAfterDimmer, Goes
  <1>2. ASSUME Clean' PROVE Tidy'
    <2>1. Tidy /\ \A e \in Enables : pc[e] \notin Starting
      <3>1. Clean
        BY <1>2 DEF Clean
      <3> QED
        BY <3>1 DEF DarkInv, Tidy, NoneStartsWhileUndoing
    <2>2. (\A u \in Threads : u # t => pc'[u] = pc[u]) /\ pc'[t] = where
      BY <1>0 DEF Goes
    <2>3. \A e \in Enables : pc'[e] \notin Starting
      BY <1>0, <2>1, <2>2
    <2>4. OneStarts' /\ NoneStartsWhileUndoing' /\ NoneStartsWhileOn'
      BY <2>3 DEF OneStarts, NoneStartsWhileUndoing, NoneStartsWhileOn
    <2>5. \A e \in Enables : guards'[e] \in {"lit", None}
      BY <2>1 DEF Tidy, OriginalKnown
    <2>6. OriginalKnown' /\ LitBefore' /\ ArmedWhileDimming' /\ DimmerWhileDimming'
      BY <1>0, <2>1, <2>3, <2>5
      DEF Tidy, OriginalKnown, LitBefore, ArmedWhileDimming, DimmerWhileDimming
    <2>7. UndoingLights' /\ OnRemembers' /\ Guarded' /\ RememberedUnlessDead'
      BY <1>2, <2>1, <2>2
    <2> QED
      BY <2>4, <2>6, <2>7 DEF Tidy
  <1> QED
    BY <1>1, <1>2 DEF DarkInv

LEMMA DimmerRelightsKeeps ==
    ASSUME ThreadsOK, ScreenOK, DarkInv, NEW t \in Threads, DimmerRelights(t)
    PROVE  DarkInv'
  <1>0. /\ pc[t] = "restoring" /\ Goes(t, "clearing") /\ {"restoring", "clearing"} \subseteq Undoing
        /\ UNCHANGED <<dims, active, saved, guards>> /\ lapses \subseteq lapses'
        /\ level \in {"lit", "dark"}
    BY DEF DimmerRelights, Undoing, ScreenOK, Levels, dimmer
  <1>1. ASSUME Clean', Tidy, \A u \in Threads : u # t => pc'[u] = pc[u], pc'[t] = "clearing",
               \A e \in Enables : pc[e] \notin Starting
        PROVE  UndoingLights' /\ OnRemembers' /\ Guarded' /\ RememberedUnlessDead'
    <2>1. level' = "lit"
      <3>1. level' = IF saved = None THEN level ELSE saved
        BY <1>1 DEF DimmerRelights, Clean
      <3>2. saved \in {"lit", None} /\ (saved = "lit" \/ level = "lit")
        BY <1>0, <1>1 DEF Tidy, OriginalKnown, UndoingLights
      <3> QED
        BY <3>1, <3>2, ThreadsAssumption
    <2> QED
      BY <2>1 DEF UndoingLights, OnRemembers, Guarded, RememberedUnlessDead
  <1> QED
    BY <1>0, <1>1, UndoingKeeps

LEMMA DimmerClearsKeeps ==
    ASSUME ThreadsOK, ScreenOK, DarkInv, NEW t \in Threads, DimmerClears(t)
    PROVE  DarkInv'
  <1>0. /\ pc[t] = "clearing" /\ Goes(t, "releasing") /\ {"releasing", "clearing"} \subseteq Undoing
        /\ UNCHANGED <<dims, active, level, lapses>> /\ saved' = None
        /\ level \in {"lit", "dark"} /\ guards \in [Enables -> Levels \cup {None}]
        /\ guards' = guards \/ \E g \in Enables : guards' = [guards EXCEPT ![g] = None]
    BY DEF DimmerClears, Undoing, ScreenOK, Levels, screen
  <1>1. \A e \in Enables : guards'[e] \in {guards[e], None}
    BY <1>0
  <1>2. ASSUME Clean', Tidy, \A u \in Threads : u # t => pc'[u] = pc[u], pc'[t] = "releasing",
               \A e \in Enables : pc[e] \notin Starting
        PROVE  UndoingLights' /\ OnRemembers' /\ Guarded' /\ RememberedUnlessDead'
    <2>1. level' = "lit"
      BY <1>0, <1>2 DEF Tidy, UndoingLights
    <2> QED
      BY <2>1 DEF UndoingLights, OnRemembers, Guarded, RememberedUnlessDead
  <1> QED
    BY <1>0, <1>1, <1>2, UndoingKeeps

LEMMA DisableFinishesKeeps ==
    ASSUME ThreadsOK, ScreenOK, DarkInv, NEW t \in Threads, DisableFinishes(t)
    PROVE  DarkInv'
  <1>0. /\ pc[t] = "finishing" /\ Goes(t, "done") /\ "finishing" \in Undoing \cap Leaving
        /\ "done" \notin {"restoring", "clearing"} \cup Leaving
        /\ UNCHANGED <<dims, level, lapses, saved, guards>> /\ ~active'
        /\ level \in {"lit", "dark"}
    BY DEF DisableFinishes, Undoing, Leaving, ScreenOK, Levels, screen, dimmer
  <1>1. ASSUME Clean', Tidy, \A u \in Threads : u # t => pc'[u] = pc[u], pc'[t] = "done",
               \A e \in Enables : pc[e] \notin Starting
        PROVE  UndoingLights' /\ OnRemembers' /\ Guarded' /\ RememberedUnlessDead'
    <2>1. level = "lit" \/ "crash" \in lapses
      BY <1>0, <1>1 DEF Tidy, UndoingLights
    <2>2. UndoingLights'
      BY <1>0, <1>1 DEF Tidy, UndoingLights
    <2> QED
      BY <1>0, <1>1, <2>1, <2>2
      DEF Tidy, OnRemembers, Guarded, RememberedUnlessDead
  <1> QED
    BY <1>0, <1>1, UndoingKeeps

LEMMA GuardFiresKeeps ==
    ASSUME ThreadsOK, ScreenOK, DarkInv, NEW e \in Enables, GuardFires(e) PROVE DarkInv'
  <1>0. /\ pc[e] \notin {"darkening", "saving", "dimmed"} /\ guards[e] # None
        /\ guards' = [guards EXCEPT ![e] = None] /\ guards \in [Enables -> Levels \cup {None}]
        /\ UNCHANGED <<active, dims, saved, pc, target>> /\ lapses \subseteq lapses'
        /\ level \in {"lit", "dark"}
        /\ Clean' => level' = guards[e] /\ lapses' = lapses
    BY DEF GuardFires, ScreenOK, Levels, Clean
  <1>1. WindowsAfterDimmer'
    BY <1>0 DEF DarkInv, WindowsAfterDimmer
  <1>2. ASSUME Clean' PROVE Tidy'
    <2>1. Tidy
      BY <1>0, <1>2 DEF DarkInv, Clean
    <2>2. level' = "lit" /\ lapses' = lapses
      BY <1>0, <1>2, <2>1 DEF Tidy, OriginalKnown
    <2>3. OneStarts' /\ NoneStartsWhileUndoing' /\ NoneStartsWhileOn' /\ DimmerWhileDimming'
      BY <1>0, <2>1
      DEF Tidy, OneStarts, NoneStartsWhileUndoing, NoneStartsWhileOn, DimmerWhileDimming
    <2>4. OriginalKnown' /\ ArmedWhileDimming'
      BY <1>0, <2>1, <2>2 DEF Tidy, OriginalKnown, ArmedWhileDimming
    <2>5. LitBefore' /\ UndoingLights' /\ OnRemembers' /\ Guarded' /\ RememberedUnlessDead'
      BY <2>2 DEF LitBefore, UndoingLights, OnRemembers, Guarded, RememberedUnlessDead
    <2> QED
      BY <2>3, <2>4, <2>5 DEF Tidy
  <1> QED
    BY <1>1, <1>2 DEF DarkInv

LEMMA CrashesKeeps == ASSUME ThreadsOK, DarkInv, Crashes PROVE DarkInv'
  <1>0. /\ UNCHANGED <<level, guards>> /\ ~active' /\ saved' = None
        /\ lapses' = lapses \cup {"crash"}
        /\ \A t \in Threads : pc'[t] \in {"idle", "done"}
        /\ {"idle", "done"} \cap (Starting \cup Undoing \cup WithWindow \cup Leaving) = {}
        /\ Enables \subseteq Threads
        /\ {"darkening", "saving", "dimming", "dimmed"} \subseteq Starting
        /\ {"restoring", "clearing"} \subseteq Undoing
    BY ThreadFacts DEF Crashes, Starting, Undoing, WithWindow, Leaving
  <1>1. WindowsAfterDimmer'
    BY <1>0 DEF WindowsAfterDimmer
  <1>2. ASSUME Clean' PROVE Tidy'
    <2>1. Tidy
      BY <1>0, <1>2 DEF DarkInv, Clean
    <2>2. OneStarts' /\ NoneStartsWhileUndoing' /\ NoneStartsWhileOn' /\ DimmerWhileDimming'
      BY <1>0 DEF OneStarts, NoneStartsWhileUndoing, NoneStartsWhileOn, DimmerWhileDimming
    <2>3. OriginalKnown' /\ ArmedWhileDimming' /\ LitBefore' /\ UndoingLights'
      BY <1>0, <2>1 DEF Tidy, OriginalKnown, ArmedWhileDimming, LitBefore, UndoingLights
    <2>4. OnRemembers' /\ Guarded' /\ RememberedUnlessDead'
      BY <1>0, <2>1 DEF Tidy, OnRemembers, Guarded, RememberedUnlessDead
    <2> QED
      BY <2>2, <2>3, <2>4 DEF Tidy
  <1> QED
    BY <1>1, <1>2 DEF DarkInv

LEMMA NextDark == ThreadsOK /\ ScreenOK /\ DarkInv /\ [Next]_vars => DarkInv'
  <1> SUFFICES ASSUME ThreadsOK, ScreenOK, DarkInv, [Next]_vars PROVE DarkInv'
    OBVIOUS
  <1>0. /\ pc \in [Threads -> Positions] /\ Enables \subseteq Threads /\ Workers \subseteq Threads
        /\ WithWindow = {"spawning", "waiting", "failing", "covered"}
        /\ Leaving = {"releasing", "joining", "finishing"}
    BY ThreadFacts DEF ThreadsOK, WithWindow, Leaving
  <1>1. CASE UNCHANGED <<active, dims, level, saved, guards, lapses, pc, target>>
    <2>1. WindowsAfterDimmer' /\ Clean' = Clean
      BY <1>1 DEF DarkInv, WindowsAfterDimmer, Clean
    <2>2. ASSUME Tidy PROVE Tidy'
      <3>1. OneStarts' /\ NoneStartsWhileUndoing' /\ NoneStartsWhileOn' /\ DimmerWhileDimming'
        BY <1>1, <2>2
        DEF Tidy, OneStarts, NoneStartsWhileUndoing, NoneStartsWhileOn, DimmerWhileDimming
      <3>2. OriginalKnown' /\ ArmedWhileDimming' /\ LitBefore' /\ UndoingLights'
        BY <1>1, <2>2 DEF Tidy, OriginalKnown, ArmedWhileDimming, LitBefore, UndoingLights
      <3>3. OnRemembers' /\ Guarded' /\ RememberedUnlessDead'
        BY <1>1, <2>2 DEF Tidy, OnRemembers, Guarded, RememberedUnlessDead, Remembered
      <3> QED
        BY <3>1, <3>2, <3>3 DEF Tidy
    <2> QED
      BY <2>1, <2>2 DEF DarkInv
  <1>2. ASSUME NEW t \in Threads, NEW where, Goes(t, where),
               UNCHANGED <<active, dims, level, saved, guards, lapses, target>>,
               \/ pc[t] \in WithWindow /\ where \in WithWindow \cup {"done"}
               \/ where \in {"done", "watching", "called", "disabling", "raised"}
                  /\ pc[t] \notin {"dimmed", "saving"}
        PROVE  DarkInv'
    BY <1>0, <1>2, MoveKeeps
  <1>3. ASSUME NEW e \in Enables, EnableSpawns(e) \/ EnableGets(e) \/ EnableTimesOut(e) \/ EnableFails(e)
        PROVE  DarkInv'
    <2>1. /\ UNCHANGED <<active, dims, level, saved, guards, lapses, target>>
          /\ pc[e] \in WithWindow /\ \E where \in WithWindow \cup {"done"} : Goes(e, where)
      BY <1>0, <1>3
      DEF EnableSpawns, EnableGets, EnableTimesOut, EnableFails, dimmer, screen
    <2> QED
      BY <1>0, <1>2, <2>1
  <1>4. ASSUME NEW e \in Enables, BlocksLocalInput(e) \/ WatchdogEnds(e) \/ WatchdogExpires(e)
        PROVE  DarkInv'
    <2>1. /\ UNCHANGED <<active, dims, level, saved, guards, lapses, target>>
          /\ pc[e] \in {"blocking", "watching"}
          /\ \E where \in {"watching", "done", "disabling"} : Goes(e, where)
      BY <1>4 DEF BlocksLocalInput, WatchdogEnds, WatchdogExpires, dimmer, screen
    <2> QED
      BY <1>0, <1>2, <2>1
  <1>5. ASSUME NEW t \in Threads, DisableReleases(t) \/ DisableJoins(t) PROVE DarkInv'
    <2>1. /\ UNCHANGED <<active, dims, level, saved, guards, lapses>>
          /\ pc[t] \in Leaving
          /\ \E what : target' = [target EXCEPT ![t] = what]
      BY <1>0, <1>5 DEF DisableReleases, DisableJoins, dimmer, screen
    <2>2. PICK where \in Leaving \cup {"raised"} : Goes(t, where)
      BY <1>0, <1>5 DEF DisableReleases, DisableJoins
    <2>3. \A e \in Enables : pc'[e] \in {"darkening", "saving"} => target'[e] = target[e]
      BY <1>0, <2>1, <2>2 DEF Goes, ThreadsOK
    <2> QED
      BY <1>0, <2>1, <2>2, <2>3, MoveKeeps
  <1>6. ASSUME NEW c \in Workers, OperatorBlanks(c) PROVE DarkInv'
    <2>1. /\ UNCHANGED <<active, dims, level, saved, guards, lapses, target>>
          /\ pc[c] = "idle" /\ \E where \in {"called", "disabling"} : Goes(c, where)
      BY <1>6 DEF OperatorBlanks, dimmer, screen
    <2> QED
      BY <1>0, <1>2, <2>1
  <1>7. ASSUME NEW t \in Escapes \cup {Loop}, Goes(t, "disabling"),
               UNCHANGED <<active, dims, level, saved, guards, lapses, target>>
        PROVE  DarkInv'
    <2>1. t \in Threads /\ t \notin Enables /\ \A e \in Enables : pc'[e] = pc[e]
      BY <1>0, <1>7, ThreadFacts DEF Goes
    <2> QED
      BY <1>0, <1>7, <2>1, MoveKeeps
  <1>8. \/ UNCHANGED <<active, dims, level, saved, guards, lapses, pc, target>> \/ Crashes
        \/ \E t \in Threads : \/ DisableStarts(t) \/ DimmerRelights(t) \/ DimmerClears(t)
                              \/ DisableFinishes(t) \/ DisableReleases(t) \/ DisableJoins(t)
        \/ \E t \in Escapes \cup {Loop} :
              /\ Goes(t, "disabling")
              /\ UNCHANGED <<active, dims, level, saved, guards, lapses, target>>
        \/ \E c \in Workers : OperatorBlanks(c)
        \/ \E e \in Enables :
              \/ EnableStarts(e) \/ DimArms(e) \/ DimCannotRead(e) \/ DimDarkens(e)
              \/ DimSaves(e) \/ DimRaises(e) \/ DimFails(e) \/ DimSucceeds(e)
              \/ EnableSpawns(e) \/ EnableGets(e) \/ EnableTimesOut(e) \/ EnableFails(e)
              \/ EnableSucceeds(e) \/ BlocksLocalInput(e) \/ WatchdogEnds(e)
              \/ WatchdogExpires(e) \/ GuardFires(e)
    BY DEF Next, EnableGoesOn, DisableGoesOn, OverlayGoesOn, OverlayReports, OverlayPolls,
           OverlayFails, OverlayHearsEscape, HandlerReturns, EscapePressed, ConnectionEnds,
           ToolsClosed, Reconnect, vars, dimmer, screen
  <1> QED
    BY <1>1, <1>3, <1>4, <1>5, <1>6, <1>7, <1>8, EnableStartsKeeps, DimArmsKeeps,
       DimDarkensKeeps, DimReturnsKeeps, EnableSucceedsKeeps, DisableStartsKeeps,
       DimmerRelightsKeeps, DimmerClearsKeeps, DisableFinishesKeeps, GuardFiresKeeps,
       CrashesKeeps

-----------------------------------------------------------------------------
(* The theorems. *)

THEOREM Inductive == Spec => []IInv
  <1>1. IInv /\ [Next]_vars => IInv'
    BY NextFieldsOK, NextKeysOK, NextScreenOK, NextSessionOK, NextLapsesOK, NextThreading, NextAhead
    DEF IInv, TypeOK, Threading
  <1> QED
    BY InitIInv, <1>1, PTL DEF Spec

(* privacy.py, dimmer.py: every field, thread and display holds what the    *)
(* code can give it.                                                        *)
THEOREM TypeCorrect == Spec => []TypeOK
  BY Inductive, PTL DEF IInv

(* privacy.py:487: however many blanks, releases, presses of Escape and     *)
(* reconnects overlap, a blank that nobody has told to stop has a thread    *)
(* that will.                                                               *)
THEOREM CeilingHolds == Spec => []CeilingStands
  <1>1. CeilingAhead => CeilingStands
    BY DEF CeilingAhead, CeilingStands, Stopping, Disabling, Undoing
  <1> QED
    BY Inductive, <1>1, PTL DEF IInv

(* dimmer.py:94, privacy.py:183: however many blanks, releases, presses of  *)
(* Escape, crashes and reconnects there are, and whatever of xrandr and the *)
(* guards fails, a display that is dark has something left that will light  *)
(* it, the blank itself or a guard, unless something happened that the code *)
(* has no answer to (BeyondRepair).                                         *)
THEOREM DarkBounded == Spec => []DarkIsBounded
  <1>1. IInv /\ DarkInv /\ [Next]_vars => DarkInv'
    BY NextDark DEF IInv, TypeOK
  <1>2. DarkInv => DarkIsBounded
    BY DEF DarkInv, Clean, Tidy, Guarded, RememberedUnlessDead, DarkIsBounded, BeyondRepair
  <1> QED
    BY Inductive, InitDark, <1>1, <1>2, PTL DEF Spec
=============================================================================
