---------------------------- MODULE AgentSession ----------------------------
(***************************************************************************)
(* The agent on one computer, from the code a person types to the device   *)
(* that starts sessions by itself: the process and what it leaves on disk, *)
(* the session client's loop (connect, ask, share, try again), enrolment,  *)
(* the off switch, and crashes and restarts.                               *)
(*                                                                         *)
(* The relay is what the agent can tell of it: a row for each code, how    *)
(* far the relay has let the guest socket in, and the consent it has been  *)
(* sent, which it reads, and records in a transaction of its own, while    *)
(* the agent is already sharing.  SessionRelay has the relay's side in     *)
(* full.  Clocks are not modelled: the resume window lapses by an action   *)
(* of its own.  One consent is on its way at a time: one that is sent      *)
(* while an earlier one still is makes the earlier one a lost one.         *)
(***************************************************************************)
CONSTANTS
    Codes,   \* session codes
    None

ASSUME NoneAssumption == None \notin Codes \cup {"pending", "active", "ended"}

VARIABLES
    proc,       \* "off", "join" (cmd_join) or "device" (run_device)
    code,       \* the AgentSession's code
    serving,    \* the session of the device that run_device serves
    task,       \* where the AgentSession's run_forever is
    choice,     \* _run_once's choice
    offers,     \* standing_allowed
    link,       \* the guest socket: let in by the check of the row, accepted,
                \* attached, or as the agent will find it
    consent,    \* the consent message the relay has not recorded yet, or None
    stop,       \* the AgentSession's _stop
    halt,       \* run_device's stop
    streamed,   \* _streamed_until, and whether the resume window has passed
    hooked,     \* on_over is not None
    enrolled,   \* the field of that name
    online,     \* device.serve's socket is up
    row,        \* the relay's row of each code
    saved,      \* session.json
    autostart,  \* the login entry is enabled
    creds,      \* enrolment.json
    off,        \* how far the off switch has got
    answer,     \* what the person last said about each code, while it stands
    raced       \* history: the codes whose end the relay let a guest or a
                \* consent slip past

session == <<code, task, choice, offers, link, stop, streamed, hooked, enrolled>>
device == <<serving, halt, online>>
disk == <<saved, autostart, creds>>
relay == <<consent, raced>>
vars == <<proc, session, device, row, disk, off, answer, relay>>

Procs == {"off", "join", "device"}
Tasks == {"none", "connecting", "asking", "answering", "enrolling", "saving",
          "starting", "sharing", "pausing"}
Choices == {"once", "always", "deny"}
Links == {"none", "admitted", "accepted", "attached", "lost", "ended"}
States == {"pending", "active", "ended"}
Streams == {"never", "lately", "long ago"}
Switched == {"tray", "terminal"}   \* the off switch has done all it does
Offs == {"none", "forgot", "deleted"} \cup Switched

AgentShapes ==
    /\ proc \in Procs /\ task \in Tasks /\ choice \in Choices
    /\ link \in Links /\ streamed \in Streams /\ off \in Offs
    /\ code \in Codes \cup {None} /\ (task # "none" => code \in Codes)
    /\ serving \in Codes \cup {None} /\ (proc = "device" => serving \in Codes)
    /\ saved \in Codes \cup {None} /\ creds \in Codes \cup {None}
    /\ answer \in [Codes -> Choices \cup {"unasked"}]

RelayShapes ==
    /\ row \in [Codes -> [state: States, granted: BOOLEAN, standing: BOOLEAN]]
    /\ consent \in [code: Codes, granted: BOOLEAN, read: States \cup {None}] \cup {None}
    /\ raced \subseteq Codes

Shapes == AgentShapes /\ RelayShapes

Flags ==
    /\ offers \in BOOLEAN /\ stop \in BOOLEAN /\ halt \in BOOLEAN
    /\ hooked \in BOOLEAN /\ enrolled \in BOOLEAN /\ online \in BOOLEAN
    /\ autostart \in BOOLEAN

TypeOK == Shapes /\ Flags

Init ==
    /\ proc = "off" /\ task = "none" /\ code = None /\ serving = None
    /\ choice = "once" /\ link = "none" /\ streamed = "never"
    /\ offers = FALSE /\ stop = FALSE /\ halt = FALSE
    /\ hooked = FALSE /\ enrolled = FALSE /\ online = FALSE
    /\ row = [c \in Codes |-> [state |-> "pending", granted |-> FALSE, standing |-> FALSE]]
    /\ consent = None /\ raced = {}
    /\ saved = None /\ autostart = FALSE /\ creds = None
    /\ off = "none"
    /\ answer = [c \in Codes |-> "unasked"]
-----------------------------------------------------------------------------
(* The process.                                                            *)

NewSession(c, hook, standing) ==
    /\ code' = c /\ task' = "connecting" /\ choice' = "once" /\ link' = "none"
    /\ stop' = FALSE /\ streamed' = "never" /\ enrolled' = FALSE
    /\ hooked' = hook /\ offers' = standing

NoSession ==
    /\ task' = "none" /\ link' = "none"
    /\ UNCHANGED <<code, choice, offers, stop, streamed, hooked, enrolled>>

BecomesDevice(d) ==
    /\ proc' = "device" /\ serving' = d /\ halt' = FALSE /\ online' = FALSE

\* What somebody said holds until the computer restarts; only an enrolment
\* on disk carries a permission over.
NewBoot == answer' = [c \in Codes |-> IF creds = c THEN answer[c] ELSE "unasked"]

\* A person types a code, whatever is on disk.
Starts(c) ==
    /\ proc = "off"
    /\ proc' = "join" /\ NewSession(c, TRUE, TRUE)
    /\ saved' = c /\ autostart' = TRUE
    /\ off' = "none" /\ NewBoot
    /\ UNCHANGED <<device, row, creds, relay>>

\* Login, or the watchdog: a device first, else the remembered session.
Resumes ==
    /\ proc = "off" /\ autostart
    /\ \/ /\ creds # None
          /\ BecomesDevice(creds) /\ UNCHANGED session
       \/ /\ creds = None /\ saved # None
          /\ proc' = "join" /\ NewSession(saved, TRUE, FALSE)
          /\ UNCHANGED device
    /\ UNCHANGED <<row, disk, off, answer, relay>>

\* A change to JoinOver: it trusts the field and not the file.
JoinOverUnread ==
    /\ proc = "join" /\ task = "none"
    /\ IF enrolled
       THEN BecomesDevice(creds)
       ELSE proc' = "off" /\ UNCHANGED device
    /\ UNCHANGED session /\ UNCHANGED <<row, disk, off, answer, relay>>

JoinOver ==
    /\ proc = "join" /\ task = "none"
    /\ IF enrolled /\ creds # None
       THEN BecomesDevice(creds)
       ELSE proc' = "off" /\ UNCHANGED device
    /\ UNCHANGED session /\ UNCHANGED <<row, disk, off, answer, relay>>

Dies ==
    /\ proc' = "off" /\ NoSession
    /\ online' = FALSE /\ UNCHANGED <<serving, halt>>

\* The computer restarts or the agent is killed.  A half-used off switch is
\* lost with it.
Crash ==
    /\ proc # "off"
    /\ Dies /\ NewBoot
    /\ off' = IF off \in Switched THEN off ELSE "none"
    /\ UNCHANGED <<row, disk, relay>>
-----------------------------------------------------------------------------
(* The session client's loop.                                              *)

\* on_over: the session is over for good, so nothing starts it again.
Over ==
    IF hooked /\ saved = code
    THEN saved' = None /\ autostart' = FALSE /\ UNCHANGED creds
    ELSE UNCHANGED disk

\* What run_forever does after a connection it may make again.  The session
\* a device starts is a single shot.
TriesAgain(stopped) ==
    task' = IF stopped \/ proc = "device" THEN "none" ELSE "pausing"

Ends(stopped) ==
    /\ link' = "none" /\ TriesAgain(stopped)
    /\ UNCHANGED <<code, choice, offers, stop, hooked, enrolled>>

GivesUp ==
    /\ Over /\ stop' = TRUE /\ task' = "none" /\ link' = "none"
    /\ UNCHANGED <<code, choice, offers, hooked, enrolled>>

Open(c) == row[c].state # "ended"
InTouch == link \in {"accepted", "attached"}


\* The relay takes a guest for an open session; a standing one only with the
\* credentials of its own device, which one that joined by code never has.
Admits(c) == Open(c) /\ (row[c].standing => proc = "device" /\ serving = c)

\* A change to CanResume: once shared, never asked again.
CanAlwaysResume == streamed # "never"

CanResume == streamed = "lately"

\* The relay's check of the row, and, for a device, of its credentials.
RelayAdmits ==
    /\ task = "connecting" /\ link = "none" /\ Admits(code)
    /\ link' = "admitted"
    /\ UNCHANGED <<code, task, choice, offers, stop, streamed, hooked, enrolled>>
    /\ UNCHANGED <<proc, device, row, disk, off, answer, relay>>

\* The relay has accepted, and the agent goes on.
Connects ==
    /\ task = "connecting" /\ link = "admitted"
    /\ link' = "accepted" /\ choice' = "once"
    /\ task' = IF proc = "device" \/ CanResume THEN "answering" ELSE "asking"
    /\ UNCHANGED <<code, offers, stop, streamed, hooked, enrolled>>
    /\ UNCHANGED <<proc, device, row, disk, off, answer, relay>>

\* The relay attaches the socket, and notes the hello it was sent.
RelayAttaches ==
    /\ link = "accepted"
    /\ link' = "attached"
    /\ row' = [row EXCEPT ![code].granted = FALSE]
    /\ UNCHANGED <<code, task, choice, offers, stop, streamed, hooked, enrolled>>
    /\ UNCHANGED <<proc, device, disk, off, answer, relay>>

\* The network, or a relay that turns the agent away: both look the same.
ConnectFails ==
    /\ task = "connecting"
    /\ Ends(stop)
    /\ UNCHANGED <<proc, streamed, device, row, disk, off, answer, relay>>

Wakes ==
    /\ task = "pausing"
    /\ task' = IF stop THEN "none" ELSE "connecting"
    /\ UNCHANGED <<code, choice, offers, link, stop, streamed, hooked, enrolled>>
    /\ UNCHANGED <<proc, device, row, disk, off, answer, relay>>

\* The window; nobody answering in time is a "deny".
Answers(ch) ==
    /\ task = "asking" /\ (ch = "always" => offers)
    /\ task' = "answering" /\ choice' = ch
    /\ answer' = [answer EXCEPT ![code] = ch]
    /\ UNCHANGED <<code, offers, link, stop, streamed, hooked, enrolled>>
    /\ UNCHANGED <<proc, device, row, disk, off, relay>>

SendsConsent ==
    /\ task = "answering" /\ InTouch
    /\ consent' = [code |-> code, granted |-> choice # "deny", read |-> None]
    /\ IF choice = "deny"
       THEN GivesUp /\ streamed' = "never"
       ELSE /\ task' = IF choice = "always" THEN "enrolling" ELSE "starting"
            /\ UNCHANGED <<code, choice, offers, link, stop, streamed, hooked,
                           enrolled, disk>>
    /\ UNCHANGED <<proc, device, row, off, answer, raced>>

\* The socket went while the window was open: the answer is lost.
SendFails ==
    /\ task = "answering"
    /\ \/ link = "ended" /\ GivesUp
       \/ link = "lost" /\ Ends(stop) /\ UNCHANGED disk
    /\ UNCHANGED <<proc, streamed, device, row, off, answer, relay>>

\* POST /connector/enrol: the relay makes the session standing.
EnrolCommits ==
    /\ task = "enrolling"
    /\ Open(code) /\ row[code].granted /\ ~row[code].standing
    /\ row' = [row EXCEPT ![code].standing = TRUE]
    /\ task' = "saving"
    /\ UNCHANGED <<code, choice, offers, link, stop, streamed, hooked, enrolled>>
    /\ UNCHANGED <<proc, device, disk, off, answer, relay>>

\* The relay refused, its answer was lost, or the file could not be written.
EnrolFails ==
    /\ task \in {"enrolling", "saving"}
    /\ task' = "starting"
    /\ UNCHANGED <<code, choice, offers, link, stop, streamed, hooked, enrolled>>
    /\ UNCHANGED <<proc, device, row, disk, off, answer, relay>>

EnrolSaves ==
    /\ task = "saving"
    /\ creds' = code /\ enrolled' = TRUE /\ hooked' = FALSE
    /\ task' = "starting"
    /\ UNCHANGED <<code, choice, offers, link, stop, streamed>>
    /\ UNCHANGED <<proc, device, row, saved, autostart, off, answer, relay>>

\* _stream looks at _stop before each frame, the first one too.
Begins ==
    /\ task = "starting"
    /\ IF stop
       THEN Ends(TRUE) /\ streamed' = "lately"
       ELSE /\ task' = "sharing"
            /\ UNCHANGED <<code, choice, offers, link, stop, streamed, hooked, enrolled>>
    /\ UNCHANGED <<proc, device, row, disk, off, answer, relay>>

StreamStops ==
    /\ task = "sharing" /\ stop
    /\ Ends(TRUE) /\ streamed' = "lately"
    /\ UNCHANGED <<proc, device, row, disk, off, answer, relay>>

StreamFails ==
    /\ task = "sharing"
    /\ \/ link = "ended" /\ GivesUp
       \/ link = "lost" /\ Ends(stop) /\ UNCHANGED disk
    /\ streamed' = "lately"
    /\ UNCHANGED <<proc, device, row, off, answer, relay>>

\* The "end" message, which the operator sends, or the relay when the operator
\* of a standing session leaves.
HearsEnd ==
    /\ task = "sharing" /\ link = "attached"
    /\ stop' = TRUE
    /\ UNCHANGED <<code, task, choice, offers, link, streamed, hooked, enrolled>>
    /\ UNCHANGED <<proc, device, row, disk, off, answer, relay>>

\* Five minutes without a link: the permission given for one session lapses.
Elapses ==
    /\ streamed = "lately" /\ task \in {"pausing", "connecting"}
    /\ streamed' = "long ago"
    /\ answer' = [answer EXCEPT ![code] = IF @ = "once" THEN "unasked" ELSE @]
    /\ UNCHANGED <<code, task, choice, offers, link, stop, hooked, enrolled>>
    /\ UNCHANGED <<proc, device, row, disk, off, relay>>
-----------------------------------------------------------------------------
(* The relay and the network.                                              *)

\* Ending a session commits the row, then closes the sockets attached to it.  A
\* guest that is past the check and not attached yet is not among them.
RelayEnds(c) ==
    /\ Open(c)
    /\ row' = [row EXCEPT ![c].state = "ended"]
    /\ link' = IF code = c /\ link = "attached" THEN "ended" ELSE link
    /\ raced' = IF code = c /\ link \in {"admitted", "accepted"} THEN raced \cup {c} ELSE raced
    /\ UNCHANGED <<code, task, choice, offers, stop, streamed, hooked, enrolled>>
    /\ UNCHANGED <<proc, device, disk, off, answer, consent>>

\* The guest's handler takes the consent up, in the order it was sent: after the
\* socket it came over was attached.
RelayReads ==
    /\ consent # None /\ consent.read = None
    /\ link = "accepted" => task \in {"asking", "answering"}
    /\ consent' = [consent EXCEPT !.read = row[consent.code].state]
    /\ UNCHANGED session
    /\ UNCHANGED <<proc, device, row, disk, off, answer, raced>>

\* What it commits is what it read: a session read as pending becomes active,
\* whatever was committed in between.
RelayRecords ==
    /\ consent # None /\ consent.read # None
    /\ LET c == consent.code
           starts == consent.granted /\ consent.read = "pending"
       IN  /\ row' = [row EXCEPT ![c].granted = consent.granted,
                                 ![c].state = IF starts THEN "active" ELSE @]
           /\ raced' = IF starts /\ ~Open(c) THEN raced \cup {c} ELSE raced
    /\ consent' = None
    /\ UNCHANGED session
    /\ UNCHANGED <<proc, device, disk, off, answer>>

\* The handler, or the message, goes with its socket.
RelayLosesConsent ==
    /\ consent # None
    /\ consent' = None
    /\ link' = IF InTouch THEN "lost" ELSE link
    /\ UNCHANGED <<code, task, choice, offers, stop, streamed, hooked, enrolled>>
    /\ UNCHANGED <<proc, device, row, disk, off, answer, raced>>

LinkDrops ==
    /\ InTouch
    /\ link' = "lost"
    /\ UNCHANGED <<code, task, choice, offers, stop, streamed, hooked, enrolled>>
    /\ UNCHANGED <<proc, device, row, disk, off, answer, relay>>
-----------------------------------------------------------------------------
(* The device: device.serve keeps its socket and starts sessions.  The     *)
(* presence socket a join holds once enrolled hears nothing, so it has no  *)
(* state here.                                                             *)

ServeConnects ==
    /\ proc = "device" /\ ~online /\ ~halt
    /\ online' = TRUE
    /\ UNCHANGED session
    /\ UNCHANGED <<proc, serving, halt, row, disk, off, answer, relay>>

ServeDrops ==
    /\ online
    /\ online' = FALSE
    /\ UNCHANGED session
    /\ UNCHANGED <<proc, serving, halt, row, disk, off, answer, relay>>

\* The loop looks at stop only when its socket is gone.
ServeReturns ==
    /\ proc = "device" /\ ~online /\ halt
    /\ Dies
    /\ UNCHANGED <<row, disk, off, answer, relay>>

\* An operator opens the standing session: start_session, once.
OperatorOpens ==
    /\ proc = "device" /\ online /\ task = "none"
    /\ Open(serving) /\ row[serving].standing
    /\ NewSession(serving, FALSE, FALSE)
    /\ UNCHANGED <<proc, device, row, disk, off, answer, relay>>
-----------------------------------------------------------------------------
(* The off switch: turn_off, then the process is asked to stop.            *)

OffForgets ==
    /\ off = "none"
    /\ saved' = None /\ autostart' = FALSE
    /\ off' = "forgot"
    /\ UNCHANGED session
    /\ UNCHANGED <<proc, device, row, creds, answer, relay>>

OffDeletes ==
    /\ off = "forgot"
    /\ creds' = None
    /\ off' = "deleted"
    /\ UNCHANGED session
    /\ UNCHANGED <<proc, device, row, saved, autostart, answer, relay>>

\* A change to OffStops: the device stops, the session it runs does not.
OffStopsDeviceOnly(how) ==
    /\ off = "deleted"
    /\ off' = how
    /\ stop' = (stop \/ (proc = "join" /\ task # "none"))
    /\ halt' = (halt \/ proc = "device")
    /\ UNCHANGED <<code, task, choice, offers, link, streamed, hooked, enrolled>>
    /\ UNCHANGED <<proc, serving, online, row, disk, answer, relay>>

OffStops(how) ==
    /\ off = "deleted"
    /\ off' = how
    /\ stop' = (stop \/ (proc # "off" /\ task # "none"))
    /\ halt' = (halt \/ proc = "device")
    /\ UNCHANGED <<code, task, choice, offers, link, streamed, hooked, enrolled>>
    /\ UNCHANGED <<proc, serving, online, row, disk, answer, relay>>

\* Quit in the tray waits for the loop's thread, but not for ever.
TrayExits ==
    /\ off = "tray" /\ proc # "off"
    /\ Dies
    /\ UNCHANGED <<row, disk, off, answer, relay>>
-----------------------------------------------------------------------------
Next ==
    \/ \E c \in Codes: Starts(c) \/ RelayEnds(c)
    \/ Resumes \/ JoinOver \/ Crash
    \/ RelayAdmits \/ Connects \/ RelayAttaches \/ ConnectFails \/ Wakes
    \/ \E ch \in Choices: Answers(ch)
    \/ SendsConsent \/ SendFails
    \/ RelayReads \/ RelayRecords \/ RelayLosesConsent
    \/ EnrolCommits \/ EnrolFails \/ EnrolSaves
    \/ Begins \/ StreamStops \/ StreamFails \/ HearsEnd \/ Elapses
    \/ LinkDrops \/ ServeConnects \/ ServeDrops \/ ServeReturns \/ OperatorOpens
    \/ OffForgets \/ OffDeletes \/ \E how \in Switched: OffStops(how)
    \/ TrayExits

\* The code's own steps go on.  A connection that can be made is made in the
\* end, and a standing session is opened again and again.
Fairness ==
    /\ WF_vars(RelayAdmits \/ Connects \/ ConnectFails)
    /\ SF_vars(RelayAdmits) /\ SF_vars(Connects) /\ WF_vars(RelayAttaches) /\ WF_vars(Wakes)
    /\ WF_vars(RelayReads) /\ WF_vars(RelayRecords)
    /\ WF_vars(\E ch \in Choices: Answers(ch))
    /\ WF_vars(SendsConsent) /\ WF_vars(SendFails)
    /\ WF_vars(EnrolFails \/ EnrolSaves)
    /\ WF_vars(Begins) /\ WF_vars(StreamStops) /\ WF_vars(StreamFails)
    /\ WF_vars(JoinOver) /\ WF_vars(ServeReturns) /\ WF_vars(TrayExits)
    /\ SF_vars(ServeConnects) /\ SF_vars(OperatorOpens)
    /\ WF_vars(OffDeletes) /\ WF_vars(\E how \in Switched: OffStops(how))

Spec == Init /\ [][Next]_vars /\ Fairness
-----------------------------------------------------------------------------
Allowed(c) == answer[c] \in {"once", "always"}

\* A screen is shared only under an answer that still stands: the person
\* allowed this session since the computer started, no more than the resume
\* window before the link came back, or chose "Always allow" and the
\* enrolment is on this disk.
SharesOnlyAsAllowed == task = "sharing" => Allowed(code)


\* The off switch, used while a session connects, asks, enrols or is shared,
\* ends that session, in either kind of process.
OffEndsSession == (task # "none" /\ off = "deleted") ~> task = "none"

\* "Quit, or rmm-agent stop, turns it off for good": once rmm-agent stop is
\* through, no capture starts until somebody starts the agent again.
OffIsForGood ==
    [][task # "sharing" /\ off = "terminal" => task' # "sharing"]_vars

\* "From now on the computer stays online by itself ... and joins when an
\* operator opens that session": an agent that has enrolled, and goes on
\* running, comes to share its standing session again.
StandingReachable ==
    (enrolled \/ proc = "device") /\ off = "none" ~>
        task = "sharing" \/ proc = "off" \/ off # "none"
            \/ \E c \in Codes: ~Open(c)

\* Autostart "turns itself off again when ... consent is refused": a person who
\* has refused is not asked again by an agent that goes on by itself.
RefusalIsFinal ==
    [][task # "asking" /\ task' = "asking" => answer[code] # "deny"]_vars
=============================================================================
