------------------------- MODULE AgentSessionProofs -------------------------
(***************************************************************************)
(* Proofs about AgentSession for any set of session codes.                 *)
(***************************************************************************)
EXTENDS AgentSession, TLAPS

-----------------------------------------------------------------------------
(* Types.                                                                  *)

\* The first state has its shapes.
LEMMA InitShapes == Init => Shapes
  BY NoneAssumption
  DEF Init, Shapes, AgentShapes, RelayShapes, Procs, Tasks, Choices, Links,
      States, Streams, Offs

\* Every step keeps the shapes of the agent's own state.
LEMMA NextAgentShapes == Shapes /\ [Next]_vars => AgentShapes'
  <1> SUFFICES ASSUME AgentShapes, RelayShapes, [Next]_vars PROVE AgentShapes'
    BY DEF Shapes
  <1> USE NoneAssumption DEF AgentShapes, session, device, disk, relay
  <1>1. ASSUME NEW c \in Codes, Starts(c) PROVE AgentShapes'
    BY <1>1 DEF Starts, NewSession, NewBoot,
               Procs, Tasks, Choices, Links, Streams, Offs
  <1>2. CASE Resumes
    <2>1. CASE creds # None
      BY <1>2, <2>1 DEF Resumes, BecomesDevice, Procs
    <2>2. CASE creds = None
      BY <1>2, <2>2 DEF Resumes, NewSession, Procs, Tasks, Choices, Links, Streams
    <2> QED
      BY <2>1, <2>2
  <1>3. CASE JoinOver
    BY <1>3 DEF JoinOver, BecomesDevice,
               Procs
  <1>4. CASE Crash
    BY <1>4 DEF Crash, Dies, NoSession, NewBoot,
               Procs, Tasks, Links, Offs, Choices
  <1>5. CASE RelayAdmits \/ Connects \/ RelayAttaches \/ ConnectFails \/ Wakes
    BY <1>5 DEF RelayAdmits, Connects, RelayAttaches, ConnectFails, Wakes, Ends,
               TriesAgain, Tasks, Choices, Links
  <1>6. ASSUME NEW ch \in Choices, Answers(ch) PROVE AgentShapes'
    BY <1>6 DEF Answers,
               Tasks
  <1>7. CASE SendsConsent
    BY <1>7 DEF SendsConsent, GivesUp, Over, InTouch,
               Tasks, Links, Streams
  <1>8. CASE SendFails
    BY <1>8 DEF SendFails, GivesUp, Over, Ends, TriesAgain,
               Tasks, Links
  <1>9. CASE EnrolCommits \/ EnrolFails \/ EnrolSaves
    BY <1>9 DEF EnrolCommits, EnrolFails, EnrolSaves,
               Tasks
  <1>10. CASE Begins \/ StreamStops
    BY <1>10 DEF Begins, StreamStops, Ends, TriesAgain,
               Tasks, Links, Streams
  <1>11. CASE StreamFails
    BY <1>11 DEF StreamFails, GivesUp, Over, Ends, TriesAgain,
               Tasks, Links, Streams
  <1>12. CASE HearsEnd \/ Elapses \/ LinkDrops
    BY <1>12 DEF HearsEnd, Elapses, LinkDrops,
               Links, Streams, Choices
  <1>13. ASSUME NEW c \in Codes, RelayEnds(c) PROVE AgentShapes'
    BY <1>13 DEF RelayEnds,
               Links
  <1>14. CASE ServeConnects \/ ServeDrops
    BY <1>14 DEF ServeConnects, ServeDrops
  <1>15. CASE ServeReturns \/ TrayExits
    BY <1>15 DEF ServeReturns, TrayExits, Dies, NoSession,
               Procs, Tasks, Links
  <1>16. CASE OperatorOpens
    BY <1>16 DEF OperatorOpens, NewSession,
               Tasks, Choices, Links, Streams
  <1>17. CASE OffForgets \/ OffDeletes
    BY <1>17 DEF OffForgets, OffDeletes,
               Offs
  <1>18. ASSUME NEW how \in Switched, OffStops(how) PROVE AgentShapes'
    BY <1>18 DEF OffStops,
               Offs, Switched
  <1>19. CASE RelayReads \/ RelayLosesConsent
    BY <1>19 DEF RelayReads, RelayLosesConsent,
               Links
  <1>20. CASE RelayRecords
    BY <1>20 DEF RelayRecords
  <1>21. CASE UNCHANGED vars
    BY <1>21 DEF vars
  <1> QED
    BY <1>1, <1>2, <1>3, <1>4, <1>5, <1>6, <1>7, <1>8, <1>9, <1>10, <1>11,
       <1>12, <1>13, <1>14, <1>15, <1>16, <1>17, <1>18, <1>19, <1>20, <1>21
    DEF Next

\* Every step keeps the shapes of the relay's.
LEMMA NextRelayShapes == Shapes /\ [Next]_vars => RelayShapes'
  <1> SUFFICES ASSUME AgentShapes, RelayShapes, [Next]_vars PROVE RelayShapes'
    BY DEF Shapes
  <1>1. CASE UNCHANGED <<row, consent, raced>>
    BY <1>1 DEF RelayShapes
  <1> USE NoneAssumption DEF RelayShapes
  <1>2. CASE RelayAttaches
    BY <1>2, code \in Codes \/ code = None DEF RelayAttaches, AgentShapes, relay
  <1>3. CASE SendsConsent
    BY <1>3 DEF SendsConsent, AgentShapes
  <1>4. CASE EnrolCommits
    BY <1>4 DEF EnrolCommits, AgentShapes, relay
  <1>5. ASSUME NEW c \in Codes, RelayEnds(c) PROVE RelayShapes'
    BY <1>5 DEF RelayEnds, States
  <1>6. CASE RelayReads
    BY <1>6 DEF RelayReads
  <1>7. CASE RelayRecords
    BY <1>7 DEF RelayRecords, States
  <1>8. CASE RelayLosesConsent
    BY <1>8 DEF RelayLosesConsent
  <1>9. ASSUME ~RelayAttaches, ~SendsConsent, ~EnrolCommits,
               ~(\E c \in Codes: RelayEnds(c)), ~RelayReads, ~RelayRecords,
               ~RelayLosesConsent
        PROVE  UNCHANGED <<row, consent, raced>>
    BY <1>9, Zenon
    DEF Next, vars, relay, Starts, Resumes, JoinOver, Crash, RelayAdmits, Connects,
        ConnectFails, Wakes, Answers, SendFails, EnrolFails, EnrolSaves, Begins,
        StreamStops, StreamFails, HearsEnd, Elapses, LinkDrops, ServeConnects,
        ServeDrops, ServeReturns, OperatorOpens, OffForgets, OffDeletes, OffStops,
        TrayExits
  <1> QED
    BY <1>1, <1>2, <1>3, <1>4, <1>5, <1>6, <1>7, <1>8, <1>9

\* Every step keeps the shapes.
LEMMA NextShapes == Shapes /\ [Next]_vars => Shapes'
  BY NextAgentShapes, NextRelayShapes DEF Shapes

\* The flags are Boolean to begin with.
LEMMA InitFlags == Init => Flags
  BY Zenon DEF Init, Flags

\* Every step keeps the flags Boolean.
LEMMA NextFlags == Flags /\ [Next]_vars => Flags'
  <1> SUFFICES ASSUME Flags, [Next]_vars PROVE Flags'
    OBVIOUS
  <1> USE DEF Flags, session, device, disk, relay
  <1>1. ASSUME NEW c \in Codes, Starts(c) PROVE Flags'
    BY Zenon, <1>1 DEF Starts, NewSession, NewBoot
  <1>2. CASE Resumes
    BY Zenon, <1>2 DEF Resumes, NewSession, BecomesDevice
  <1>3. CASE JoinOver
    BY Zenon, <1>3 DEF JoinOver, BecomesDevice
  <1>4. CASE Crash
    BY Zenon, <1>4 DEF Crash, Dies, NoSession, NewBoot
  <1>5. CASE RelayAdmits \/ Connects \/ RelayAttaches \/ ConnectFails \/ Wakes
    BY Zenon, <1>5 DEF RelayAdmits, Connects, RelayAttaches, ConnectFails, Wakes,
                       Ends, TriesAgain
  <1>6. ASSUME NEW ch \in Choices, Answers(ch) PROVE Flags'
    BY Zenon, <1>6 DEF Answers
  <1>7. CASE SendsConsent
    BY Zenon, <1>7 DEF SendsConsent, GivesUp, Over
  <1>8. CASE SendFails
    BY Zenon, <1>8 DEF SendFails, GivesUp, Over, Ends, TriesAgain
  <1>9. CASE EnrolCommits \/ EnrolFails \/ EnrolSaves
    BY Zenon, <1>9 DEF EnrolCommits, EnrolFails, EnrolSaves
  <1>10. CASE Begins \/ StreamStops
    BY Zenon, <1>10 DEF Begins, StreamStops, Ends, TriesAgain
  <1>11. CASE StreamFails
    BY Zenon, <1>11 DEF StreamFails, GivesUp, Over, Ends, TriesAgain
  <1>12. CASE HearsEnd \/ Elapses \/ LinkDrops
    BY Zenon, <1>12 DEF HearsEnd, Elapses, LinkDrops
  <1>13. ASSUME NEW c \in Codes, RelayEnds(c) PROVE Flags'
    BY Zenon, <1>13 DEF RelayEnds
  <1>14. CASE ServeConnects \/ ServeDrops
    BY Zenon, <1>14 DEF ServeConnects, ServeDrops
  <1>15. CASE ServeReturns \/ TrayExits
    BY Zenon, <1>15 DEF ServeReturns, TrayExits, Dies, NoSession
  <1>16. CASE OperatorOpens
    BY Zenon, <1>16 DEF OperatorOpens, NewSession
  <1>17. CASE OffForgets \/ OffDeletes
    BY Zenon, <1>17 DEF OffForgets, OffDeletes
  <1>18. ASSUME NEW how \in Switched, OffStops(how) PROVE Flags'
    BY Zenon, <1>18 DEF OffStops
  <1>19. CASE RelayReads \/ RelayLosesConsent
    BY Zenon, <1>19 DEF RelayReads, RelayLosesConsent
  <1>20. CASE RelayRecords
    BY Zenon, <1>20 DEF RelayRecords
  <1>21. CASE UNCHANGED vars
    BY Zenon, <1>21 DEF vars
  <1> QED
    BY <1>1, <1>2, <1>3, <1>4, <1>5, <1>6, <1>7, <1>8, <1>9, <1>10, <1>11,
       <1>12, <1>13, <1>14, <1>15, <1>16, <1>17, <1>18, <1>19, <1>20, <1>21
    DEF Next

\* Both together.
LEMMA NextTypes == TypeOK /\ [Next]_vars => TypeOK'
  BY NextShapes, NextFlags DEF TypeOK

\* The agent's state has its types, whatever the set of codes.
THEOREM TypeCorrect == Spec => []TypeOK
  <1>1. Init => TypeOK
    BY InitShapes, InitFlags DEF TypeOK
  <1> QED
    BY <1>1, NextTypes, PTL DEF Spec

-----------------------------------------------------------------------------
(* Permission.  What makes SharesOnlyAsAllowed inductive is where an       *)
(* answer can be taken back or overwritten: a window is only ever open for *)
(* a session that is not standing, and what is on disk is a standing one.  *)

\* The way from an answer to a shared screen.
AnswerCarried ==
    /\ task = "answering" /\ choice # "deny" => Allowed(code)
    /\ task = "answering" /\ choice = "always" => answer[code] = "always"
    /\ task \in {"enrolling", "saving"} => answer[code] = "always"
    /\ task = "starting" => Allowed(code)

\* A link that may resume without asking had been allowed.
ResumeCarried ==
    task # "none" /\ streamed = "lately" => Allowed(code) /\ task # "asking"

\* A device works for the session it was enrolled by, and never asks.
DeviceCarried ==
    /\ proc = "off" => task = "none"
    /\ proc = "device" => answer[serving] = "always"
    /\ proc = "device" /\ task # "none" => code = serving /\ task # "asking"

\* What the disk and the relay's rows say of enrolment.
EnrolmentCarried ==
    /\ creds # None => answer[creds] = "always" /\ row[creds].standing
    /\ link = "admitted" => task = "connecting"
    /\ link = "admitted" /\ proc = "join" => ~row[code].standing
    /\ task = "asking" => ~row[code].standing
    /\ task = "saving" => row[code].standing

Permission ==
    Shapes /\ SharesOnlyAsAllowed /\ AnswerCarried /\ ResumeCarried
        /\ DeviceCarried /\ EnrolmentCarried

\* Nothing is running to begin with.
LEMMA InitPermission == Init => Permission
  BY InitShapes
  DEF Init, Permission, SharesOnlyAsAllowed, AnswerCarried, ResumeCarried,
      DeviceCarried, EnrolmentCarried

\* Every step keeps the permission.
LEMMA NextPermission == Permission /\ [Next]_vars => Permission'
  <1> SUFFICES ASSUME Permission, [Next]_vars PROVE Permission'
    OBVIOUS
  <1>0. Shapes'
    BY NextShapes DEF Permission
  <1> USE <1>0, NoneAssumption
      DEF Permission, SharesOnlyAsAllowed, AnswerCarried, ResumeCarried,
          DeviceCarried, EnrolmentCarried, Allowed, Shapes, AgentShapes, session, device, disk,
          RelayShapes, relay, Procs
  <1>1. ASSUME NEW c \in Codes, Starts(c) PROVE Permission'
    BY <1>1 DEF Starts, NewSession, NewBoot
  <1>2. CASE Resumes
    BY <1>2 DEF Resumes, NewSession, BecomesDevice
  <1>3. CASE JoinOver
    BY <1>3 DEF JoinOver, BecomesDevice
  <1>4. CASE Crash
    BY <1>4 DEF Crash, Dies, NoSession, NewBoot
  <1>5. CASE RelayAdmits \/ Connects \/ RelayAttaches
    BY <1>5 DEF RelayAdmits, Connects, RelayAttaches, CanResume, Admits
  <1>6. CASE ConnectFails \/ Wakes
    BY <1>6 DEF ConnectFails, Wakes, Ends, TriesAgain
  <1>7. ASSUME NEW ch \in Choices, Answers(ch) PROVE Permission'
    BY <1>7 DEF Answers, Choices
  <1>8. CASE SendsConsent
    BY <1>8 DEF SendsConsent, GivesUp, Over, Choices
  <1>9. CASE SendFails
    BY <1>9 DEF SendFails, GivesUp, Over, Ends, TriesAgain
  <1>10. CASE EnrolCommits
    BY <1>10 DEF EnrolCommits
  <1>11. CASE EnrolFails \/ EnrolSaves
    BY <1>11 DEF EnrolFails, EnrolSaves
  <1>12. CASE Begins \/ StreamStops
    BY <1>12 DEF Begins, StreamStops, Ends, TriesAgain
  <1>13. CASE StreamFails
    BY <1>13 DEF StreamFails, GivesUp, Over, Ends, TriesAgain
  <1>14. CASE HearsEnd \/ LinkDrops
    BY <1>14 DEF HearsEnd, LinkDrops
  <1>15. CASE Elapses
    BY <1>15 DEF Elapses
  <1>16. ASSUME NEW c \in Codes, RelayEnds(c) PROVE Permission'
    BY <1>16 DEF RelayEnds
  <1>17. CASE ServeConnects \/ ServeDrops
    BY <1>17 DEF ServeConnects, ServeDrops
  <1>18. CASE ServeReturns \/ TrayExits
    BY <1>18 DEF ServeReturns, TrayExits, Dies, NoSession
  <1>19. CASE OperatorOpens
    BY <1>19 DEF OperatorOpens, NewSession
  <1>20. CASE OffForgets \/ OffDeletes
    BY <1>20 DEF OffForgets, OffDeletes
  <1>21. ASSUME NEW how \in Switched, OffStops(how) PROVE Permission'
    BY <1>21 DEF OffStops
  <1>22. CASE RelayReads \/ RelayLosesConsent
    BY <1>22 DEF RelayReads, RelayLosesConsent, InTouch
  <1>23. CASE RelayRecords
    BY <1>23 DEF RelayRecords
  <1>24. CASE UNCHANGED vars
    BY <1>24 DEF vars
  <1> QED
    BY <1>1, <1>2, <1>3, <1>4, <1>5, <1>6, <1>7, <1>8, <1>9, <1>10, <1>11,
       <1>12, <1>13, <1>14, <1>15, <1>16, <1>17, <1>18, <1>19, <1>20, <1>21,
       <1>22, <1>23, <1>24 DEF Next

\* Nothing is shared that nobody allowed, for any set of session codes: no
\* order of reconnects, crashes, enrolments and uses of the off switch shares a
\* screen on an answer that does not stand.
THEOREM NothingSharedUnasked == Spec => []SharesOnlyAsAllowed
  <1>1. Permission => SharesOnlyAsAllowed
    BY DEF Permission
  <1> QED
    BY <1>1, InitPermission, NextPermission, PTL DEF Spec
=============================================================================
