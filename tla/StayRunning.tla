----------------------------- MODULE StayRunning -----------------------------
(***************************************************************************)
(* How the agent stays running on a Windows computer: the processes that   *)
(* `start`, `resume` and `stop` make (__main__.py), the pid file by which  *)
(* they know of each other (background.py), the session remembered on disk *)
(* (autostart.py, durable.py), the Run key that resumes it at login and    *)
(* the task that does so every minute (watchdog_check.py).  AgentSession   *)
(* has one process and takes its disk in one step; here the processes are  *)
(* several, the remembered session is written in the steps of durable.py,  *)
(* and what Windows has not written out yet may be undone when the power    *)
(* fails: it is not forced to write out a rename or a registry value.       *)
(***************************************************************************)
EXTENDS Naturals, FiniteSets

CONSTANTS
    Slots,      \* how many processes there are at a time
    Codes,      \* session codes
    None, Empty, Gone,
    Events      \* how often a person starts or stops the agent, a process is
                \* killed, the computer restarted, or Windows refuses to change
                \* a file or the start at login

ASSUME NoneAssumption == None \notin Codes \cup Nat /\ Empty \notin Codes /\ None # Empty /\
                         Gone \notin Nat /\ Gone # None
ASSUME BoundsAssumption == Slots \in Nat /\ Events \in Nat

Procs == 1..Slots

VARIABLES
    pc,         \* where each process is
    code,       \* the code it was started with
    path,       \* why it resumes ("login" or "task") or forgets
    enrolled,   \* processes whose session was allowed for always
    device,     \* processes that run the device
    resumed,    \* processes that `resume` started
    saved,      \* session.json
    temp,       \* session.json.tmp
    creds,      \* enrolment.json
    runkey, watchdog,   \* the Run key, the scheduled task
    before,     \* what all of this was when Windows last wrote it out
    pidfile,    \* agent.pid; Gone is the id of a process that has ended
    alien,      \* the process id in it is another Python program's by now
    login,      \* the computer has started and nobody has logged in
    events,     \* how many of those there have been
    promise,    \* the session last remembered, start at login turned on
    crossed,    \* a forget overlapped what another session relied on, or
                \* two processes wrote the session at once
    tangled     \* the record of a running agent was overwritten, removed or
                \* not written

process == <<pc, code, path, enrolled, device, resumed>>
disk == <<saved, temp, creds, runkey, watchdog, before>>
record == <<pidfile, alien, tangled>>
vars == <<process, disk, record, login, events, promise, crossed>>

Places == {"none", "writing", "replacing", "enabling", "resuming", "recording", "agent", "forgetting",
           "unlinking", "disabling", "deleting", "leaving", "clearing",
           "looking", "unpid"}
Reasons == {"over", "quit", "stop", "login", "task"}

ProcessOK ==
    /\ pc \in [Procs -> Places]
    /\ code \in [Procs -> Codes \cup {None}]
    /\ path \in [Procs -> Reasons]
    /\ enrolled \subseteq Procs /\ device \subseteq Procs /\ resumed \subseteq Procs

Contents == Codes \cup {None, Empty}
Disks == [saved : Contents, creds : BOOLEAN, runkey : BOOLEAN, watchdog : BOOLEAN]
Disk == [saved |-> saved, creds |-> creds, runkey |-> runkey, watchdog |-> watchdog]

DiskOK ==
    /\ saved \in Contents /\ temp \in Contents
    /\ creds \in BOOLEAN /\ runkey \in BOOLEAN /\ watchdog \in BOOLEAN
    /\ before \in Disks

RecordOK ==
    /\ pidfile \in Procs \cup {None, Gone}
    /\ alien \in BOOLEAN /\ tangled \in BOOLEAN

TypeOK ==
    /\ ProcessOK /\ DiskOK /\ RecordOK
    /\ login \in BOOLEAN
    /\ events \in 0..Events
    /\ promise \in Codes \cup {None}
    /\ crossed \in BOOLEAN

Init ==
    /\ pc = [p \in Procs |-> "none"]
    /\ code = [p \in Procs |-> None]
    /\ path = [p \in Procs |-> "over"]
    /\ enrolled = {} /\ device = {} /\ resumed = {}
    /\ saved = None /\ temp = None /\ creds = FALSE
    /\ runkey = FALSE /\ watchdog = FALSE
    /\ before = Disk
    /\ pidfile = None /\ alien = FALSE /\ login = FALSE
    /\ events = 0
    /\ promise = None /\ crossed = FALSE /\ tangled = FALSE

-----------------------------------------------------------------------------
(* Processes. *)

Free == {p \in Procs : pc[p] = "none"}
New == {p \in Free : \A q \in Free : p <= q}
Agents == {p \in Procs : pc[p] = "agent"}

Goes(p, place) == pc' = [pc EXCEPT ![p] = place]

Begins(p, place, c, why) ==
    /\ Goes(p, place)
    /\ code' = [code EXCEPT ![p] = c]
    /\ path' = [path EXCEPT ![p] = why]
    /\ UNCHANGED <<enrolled, device, resumed>>

Ends(p) ==
    /\ Goes(p, "none")
    /\ code' = [code EXCEPT ![p] = None]
    /\ path' = [path EXCEPT ![p] = "over"]
    /\ enrolled' = enrolled \ {p} /\ device' = device \ {p} /\ resumed' = resumed \ {p}

Outlived(p) == IF pidfile = p THEN Gone ELSE pidfile

Only(p, place) == Goes(p, place) /\ UNCHANGED <<code, path, enrolled, device, resumed>>

(* Somebody is about to unlink the session or to turn the login start off.  *)
Forgetting == \E p \in Procs : pc[p] \in {"unlinking", "disabling"}

(* One of the few things that happen, or Windows does not let it happen.    *)
Happens == events < Events /\ events' = events + 1
Lets == UNCHANGED events
Refuses == Happens

-----------------------------------------------------------------------------
(* start: whatever runs already, the session is remembered, the start at    *)
(* login turned on, as far as Windows lets it, and the process recorded.    *)

Writers == {q \in Procs : pc[q] \in {"writing", "replacing"}}

(* The temporary file is opened, which empties it, ...                      *)
PersonStarts(p, c) ==
    /\ ~login /\ Happens
    /\ p \in New
    /\ Begins(p, "writing", c, "over")
    /\ temp' = Empty
    /\ crossed' = (crossed \/ Writers # {})
    /\ UNCHANGED <<saved, creds, runkey, watchdog, before, record, login, promise>>

(* ... written and forced to the disk, or not, ...                          *)
Writes(p) ==
    /\ pc[p] = "writing"
    /\ \/ Lets /\ temp' = code[p] /\ Only(p, "replacing")
       \/ Refuses /\ UNCHANGED temp /\ Only(p, "recording")
    /\ UNCHANGED <<saved, creds, runkey, watchdog, before, record, login, promise, crossed>>

(* ... and takes the session's place, unless somebody has it open or took   *)
(* it away.                                                                 *)
\* Fault: the contents were not forced: the name may be on disk before them.
RemembersLoosely ==
    /\ saved' = temp /\ temp' = None
    /\ before' = [before EXCEPT !.saved = Empty]
Remembers ==
    /\ saved' = temp /\ temp' = None
    /\ UNCHANGED before

Replaces(p) ==
    /\ pc[p] = "replacing"
    /\ \/ /\ temp # None /\ \A q \in Writers : pc[q] # "writing"
          /\ Lets /\ Remembers
          /\ promise' = None
          /\ crossed' = (crossed \/ Forgetting)
          /\ Only(p, "enabling")
       \/ /\ \/ Lets /\ (temp = None \/ \E q \in Writers : pc[q] = "writing")
             \/ Refuses
          /\ Only(p, "recording")
          /\ UNCHANGED <<saved, temp, before, promise, crossed>>
    /\ UNCHANGED <<creds, runkey, watchdog, record, login>>

TaskCreated == (Lets /\ watchdog' = TRUE) \/ (Refuses /\ UNCHANGED watchdog)
TaskDeleted == (Lets /\ watchdog' = FALSE) \/ (Refuses /\ UNCHANGED watchdog)

Enables(p) ==
    /\ pc[p] = "enabling"
    /\ \/ /\ runkey' = TRUE
          /\ TaskCreated
          /\ promise' = IF saved = code[p] THEN code[p] ELSE promise
       \/ Refuses /\ UNCHANGED <<runkey, watchdog, promise>>
    /\ crossed' = (crossed \/ Forgetting)
    /\ Only(p, "recording")
    /\ UNCHANGED <<saved, temp, creds, before, record, login>>

(* A record that names a running agent is overwritten like any other, also  *)
(* between the reading and the removal of it; one that cannot be written is *)
(* not.                                                                     *)
Records(p) ==
    /\ pc[p] = "recording"
    /\ \/ /\ Lets
          /\ tangled' = (tangled \/ \E q \in Procs : pc[q] \in {"agent", "clearing"})
          /\ pidfile' = p /\ alien' = FALSE
       \/ Refuses /\ tangled' = TRUE /\ UNCHANGED <<pidfile, alien>>
    /\ Begins(p, "agent", code[p], "over")
    /\ UNCHANGED <<disk, login, promise, crossed>>

-----------------------------------------------------------------------------
(* resume: at login and every minute.                                       *)

\* Fault: a process id that is on record runs.
RunningOnRecord == pidfile # None
Running == alien \/ pidfile \in Procs

LogsIn ==
    /\ login
    /\ login' = FALSE
    /\ IF runkey
       THEN \E p \in New : Begins(p, "resuming", None, "login")
       ELSE UNCHANGED process
    /\ UNCHANGED <<disk, record, events, promise, crossed>>

(* A minute is enough for what the task started to write its record.        *)
WatchdogFires(p) ==
    /\ ~login /\ watchdog /\ ~Running
    /\ p \in New
    /\ \A q \in Procs : path[q] # "task"
    /\ Begins(p, "resuming", None, "task")
    /\ UNCHANGED <<disk, record, login, events, promise, crossed>>

(* Not while one runs; the device first, else the remembered session.       *)
Resumes(p) ==
    /\ pc[p] = "resuming"
    /\ IF Running \/ (~creds /\ saved \notin Codes)
       THEN Ends(p)
       ELSE /\ Goes(p, "recording")
            /\ code' = [code EXCEPT ![p] = IF creds THEN None ELSE saved]
            /\ device' = IF creds THEN device \cup {p} ELSE device
            /\ resumed' = resumed \cup {p}
            /\ UNCHANGED <<path, enrolled>>
    /\ UNCHANGED <<disk, record, login, events, promise, crossed>>

-----------------------------------------------------------------------------
(* The life of an agent. *)

(* "Always allow": the session's end is not the end any more.               *)
Enrols(p) ==
    /\ pc[p] = "agent" /\ p \notin device \cup enrolled \cup resumed
    /\ creds' = TRUE
    /\ enrolled' = enrolled \cup {p}
    /\ UNCHANGED <<pc, code, path, device, resumed, saved, temp, runkey, watchdog,
                   before, record, login, events, promise, crossed>>

(* The session is over: forgotten if it is the remembered one, unless it    *)
(* was allowed for always and the credentials are still there.              *)
SessionOver(p) ==
    /\ pc[p] = "agent" /\ p \notin device
    /\ IF p \in enrolled
       THEN /\ Goes(p, IF creds THEN "agent" ELSE "leaving")
            /\ device' = IF creds THEN device \cup {p} ELSE device
            /\ UNCHANGED <<code, path, enrolled, resumed>>
       ELSE Only(p, "forgetting")
    /\ UNCHANGED <<disk, record, login, events, promise, crossed>>

(* The operator ends it: the agent stops and forgets nothing.               *)
HearsEnd(p) ==
    /\ pc[p] = "agent" /\ p \notin device \cup enrolled
    /\ Only(p, "leaving")
    /\ UNCHANGED <<disk, record, login, events, promise, crossed>>

(* The tray's Quit, or the device has been revoked: the off switch.         *)
Quits(p) ==
    /\ pc[p] = "agent"
    /\ Begins(p, "forgetting", code[p], "quit")
    /\ UNCHANGED <<disk, record, login, events, promise, crossed>>

Revoked(p) ==
    /\ pc[p] = "agent" /\ p \in device
    /\ Begins(p, "forgetting", None, "quit")
    /\ UNCHANGED <<disk, record, login, events, promise, crossed>>

(* clear_pid: read and compared, ... *)
\* Fault: whoever leaves removes the record.
LeavesAnyway(p) ==
    /\ pc[p] = "leaving"
    /\ Only(p, "clearing")
    /\ UNCHANGED <<disk, record, login, events, promise, crossed>>
Leaves(p) ==
    /\ pc[p] = "leaving"
    /\ \/ pidfile = p /\ Lets /\ Only(p, "clearing") /\ UNCHANGED pidfile
       \/ /\ (pidfile # p /\ Lets) \/ Refuses
          /\ Ends(p) /\ pidfile' = Outlived(p)
    /\ UNCHANGED <<disk, alien, tangled, login, promise, crossed>>

(* ... and then removed, whoever it names by now. *)
Clears(p) ==
    /\ pc[p] = "clearing"
    /\ \/ Lets /\ pidfile' = None /\ alien' = FALSE
       \/ Refuses /\ pidfile' = Outlived(p) /\ UNCHANGED alien
    /\ Ends(p)
    /\ UNCHANGED <<disk, tangled, login, promise, crossed>>

-----------------------------------------------------------------------------
(* forget and turn_off, by an agent or by the stop command. *)

PersonStops(p) ==
    /\ ~login /\ Happens
    /\ p \in New
    /\ Begins(p, "forgetting", None, "stop")
    /\ UNCHANGED <<disk, record, login, promise, crossed>>

\* What follows the forgetting.
\* Fault: a session that is over goes nowhere.
FollowsNowhere(p) == IF path[p] = "over" THEN path[p] ELSE "deleting"
Follows(p) == IF path[p] = "over" THEN "leaving" ELSE "deleting"

Others(p) == {q \in Procs \ {p} : pc[q] # "none" /\ code[q] = code[p]}

(* forget compares codes.  An agent that quits forgets even what cannot be  *)
(* read; one whose session is over does not.                                *)
Forgets(p) ==
    /\ pc[p] = "forgetting"
    /\ IF \/ saved \notin Codes /\ path[p] = "over"
          \/ saved \in Codes /\ code[p] # None /\ saved # code[p]
       THEN Only(p, Follows(p)) /\ UNCHANGED <<promise, crossed>>
       ELSE /\ Only(p, "unlinking")
            /\ promise' = IF path[p] # "over" \/ promise = code[p] THEN None ELSE promise
            /\ crossed' = (crossed \/ (path[p] = "over" /\ (creds \/ Others(p) # {})))
    /\ UNCHANGED <<disk, record, login, events>>

Unlinks(p) ==
    /\ pc[p] = "unlinking"
    /\ (Lets /\ saved' = None) \/ (Refuses /\ UNCHANGED saved)
    /\ Only(p, "disabling")
    /\ UNCHANGED <<temp, creds, runkey, watchdog, before, record, login, promise, crossed>>

(* The task goes when the key has gone, and whether it went is not asked. *)
Disables(p) ==
    /\ pc[p] = "disabling"
    /\ \/ runkey' = FALSE /\ TaskDeleted
       \/ Refuses /\ UNCHANGED <<runkey, watchdog>>
    /\ Only(p, Follows(p))
    /\ UNCHANGED <<saved, temp, creds, before, record, login, promise, crossed>>

Deletes(p) ==
    /\ pc[p] = "deleting"
    /\ (Lets /\ creds' = FALSE) \/ (Refuses /\ UNCHANGED creds)
    /\ Only(p, IF path[p] = "stop" THEN "looking" ELSE "leaving")
    /\ UNCHANGED <<saved, temp, runkey, watchdog, before, record, login, promise, crossed>>

(* stop: the process on record is ended, unless it takes too long; then the *)
(* record is removed, whoever it names by now.                              *)
Looks(p) ==
    /\ pc[p] = "looking"
    /\ IF ~Running
       THEN Ends(p) /\ UNCHANGED <<pidfile, alien>>
       ELSE \/ Ends(p) /\ UNCHANGED <<pidfile, alien>>
            \/ /\ IF alien
                  THEN Only(p, "unpid")
                  ELSE /\ pc' = [pc EXCEPT ![p] = "unpid", ![pidfile] = "none"]
                       /\ code' = [code EXCEPT ![pidfile] = None]
                       /\ path' = [path EXCEPT ![pidfile] = "over"]
                       /\ enrolled' = enrolled \ {pidfile}
                       /\ device' = device \ {pidfile}
                       /\ resumed' = resumed \ {pidfile}
               /\ pidfile' = Gone /\ alien' = FALSE
    /\ UNCHANGED <<disk, tangled, login, events, promise, crossed>>

RemovesRecord(p) ==
    /\ pc[p] = "unpid"
    /\ \/ /\ Lets
          /\ tangled' = (tangled \/ pidfile \in Procs)
          /\ pidfile' = None /\ alien' = FALSE
       \/ Refuses /\ UNCHANGED record
    /\ Ends(p)
    /\ UNCHANGED <<disk, login, promise, crossed>>

-----------------------------------------------------------------------------
(* Mishaps. *)

Killed(p) ==
    /\ pc[p] # "none"
    /\ Happens
    /\ Ends(p)
    /\ pidfile' = Outlived(p)
    /\ UNCHANGED <<disk, alien, tangled, login, promise, crossed>>

(* The computer starts anew, and the process ids of before are others'.     *)
StartsAnew(file) ==
    /\ Happens
    /\ pc' = [p \in Procs |-> "none"]
    /\ code' = [p \in Procs |-> None]
    /\ path' = [p \in Procs |-> "over"]
    /\ enrolled' = {} /\ device' = {} /\ resumed' = {}
    /\ login' = TRUE
    /\ pidfile' = file /\ alien' \in {FALSE, file # None}
    /\ UNCHANGED <<temp, tangled, crossed>>

Restarts ==
    /\ StartsAnew(IF pidfile = None THEN None ELSE Gone)
    /\ before' = Disk
    /\ UNCHANGED <<saved, creds, runkey, watchdog, promise>>

(* Windows writes out what it held back.                                    *)
Settles ==
    /\ before # Disk
    /\ before' = Disk
    /\ UNCHANGED <<process, saved, temp, creds, runkey, watchdog, record, login, events,
                   promise, crossed>>

(* What it still held back is as it was, or not; with the session or the    *)
(* Run key among it nothing is promised.  Of the pid file too, an earlier   *)
(* state may come back.                                                     *)
PowerFails ==
    /\ \E file \in {None, Gone} : StartsAnew(file)
    /\ saved' \in {saved, before.saved}
    /\ creds' \in {creds, before.creds}
    /\ runkey' \in {runkey, before.runkey}
    /\ watchdog' \in {watchdog, before.watchdog}
    /\ before' = Disk'
    /\ promise' = IF saved = before.saved /\ runkey = before.runkey THEN promise ELSE None

AlienEnds ==
    /\ alien
    /\ alien' = FALSE
    /\ UNCHANGED <<process, disk, pidfile, tangled, login, events, promise, crossed>>

Works(p) ==
    \/ Writes(p) \/ Replaces(p) \/ Enables(p) \/ Records(p) \/ Resumes(p)
    \/ Forgets(p) \/ Unlinks(p) \/ Disables(p) \/ Deletes(p)
    \/ Looks(p) \/ RemovesRecord(p) \/ Leaves(p) \/ Clears(p)

Next ==
    \/ \E p \in Procs :
          \/ \E c \in Codes : PersonStarts(p, c)
          \/ PersonStops(p) \/ WatchdogFires(p) \/ Works(p)
          \/ Enrols(p) \/ SessionOver(p) \/ HearsEnd(p) \/ Quits(p) \/ Revoked(p)
          \/ Killed(p)
    \/ LogsIn \/ Restarts \/ PowerFails \/ Settles \/ AlienEnds

Spec == Init /\ [][Next]_vars

(* A process that has begun something goes on with it, the task is run      *)
(* every minute, and somebody logs in.  People, the relay and what happens  *)
(* to the computer are free.                                                *)
FairSpec ==
    /\ Spec
    /\ \A p \in Procs : WF_vars(Works(p))
    /\ WF_vars(\E p \in Procs : WatchdogFires(p))
    /\ WF_vars(LogsIn)

-----------------------------------------------------------------------------
(* durable.py:8 and autostart.py:11: session.json is whole, wherever in a   *)
(* write the agent or the power dies; and once a session is remembered and  *)
(* the start at login turned on, it is on disk and stays turned on until    *)
(* that session is over, another is started, the person turns it off or the *)
(* power fails before Windows has written it out, whatever other processes, *)
(* kills and restarts there are, unless another session's start or forget   *)
(* overlaps it: forget compares codes and neither is one step.              *)
PromiseStands ==
    ~crossed => /\ saved # Empty
                /\ promise # None => saved = promise /\ runkey

(* durable.py:1: "writes that survive the computer being switched off       *)
(* straight afterwards".  Not on Windows, where the rename is not forced    *)
(* out, nor is the Run key.  (Unchecked.)                                   *)
PromiseOutlivesPower == [][promise # None /\ login' => promise' = promise]_vars

(* watchdog_check.py:1: while the promise stands and the task is there an   *)
(* agent runs again, however it ended, unless the process id on record is   *)
(* that of another Python program: background.py:161 takes it for an agent. *)
StaysRunning ==
    promise # None /\ watchdog ~>
        Agents # {} \/ promise = None \/ ~watchdog \/ crossed \/ alien

(* background.py:129: an agent that runs is the one on record, unless a     *)
(* record was written beside another agent or between that one's reading    *)
(* and removing it, or could not be written, or one was removed by a stop   *)
(* that had ended another.                                                  *)
RunningAgentIsRecorded ==
    \A p \in Agents : ~tangled => pidfile = p

(* __main__.py:297: "it must be a no-op rather than start a second,         *)
(* competing instance".  Two that look before either has written its record *)
(* both start: the Run key and the task at login do.                        *)
ResumedAlone == Cardinality(resumed \cap Agents) <= 1

(* enrol.py:5: an enrolled computer "starts again after a restart".  It is  *)
(* the off switch that ends that, but so does the end of a session of       *)
(* another code that was started on it.                                     *)
EnrolledStartsAgain ==
    [][creds /\ runkey /\ ~runkey' =>
           \E p \in Procs : pc[p] = "disabling" /\ path[p] # "over"]_vars
=============================================================================
