--------------------------- MODULE StayRunningProofs ---------------------------
(***************************************************************************)
(* What StayRunning guarantees for any number of processes, codes and      *)
(* events: its type invariant, that the session on disk is whole and, once  *)
(* remembered with the start at login, stays remembered, and that a running *)
(* agent is on record.                                                      *)
(***************************************************************************)
EXTENDS StayRunning, TLAPS

(* A process that is not the device has the code of its session, until it   *)
(* has been forgotten.                                                      *)
SessionNamed ==
    \A p \in Procs :
        /\ pc[p] \in {"writing", "replacing", "enabling"} => code[p] # None
        /\ pc[p] \in {"recording", "agent"} /\ p \notin device => code[p] # None
        /\ pc[p] = "forgetting" /\ path[p] = "over" => code[p] # None

(* A process writes the session by itself, or the writes have crossed; the  *)
(* file it has written is whole, and so is what is on disk, also what a     *)
(* power failure may bring back.                                            *)
WritesAlone == \A p, q \in Writers : p = q
WrittenWhole == \A p \in Procs : pc[p] = "replacing" => temp = code[p]
DiskWhole == saved # Empty /\ before.saved # Empty
Whole == ~crossed => WritesAlone /\ WrittenWhole /\ DiskWhole

(* Whoever is about to remove the session or the start at login has broken  *)
(* no promise: there is none, or another session has crossed it.            *)
ForgetsNoPromise ==
    \A p \in Procs : pc[p] \in {"unlinking", "disabling"} => promise = None \/ crossed

(* The process id of another program is never that of a process of ours,    *)
(* and who is about to remove the record has found its own.                 *)
AlienIsGone == alien => pidfile = Gone
RecordKept ==
    \A p \in Procs : pc[p] \in {"agent", "clearing"} /\ ~tangled => pidfile = p

IInv ==
    /\ TypeOK /\ SessionNamed
    /\ Whole /\ ForgetsNoPromise /\ PromiseStands
    /\ AlienIsGone /\ RecordKept

-----------------------------------------------------------------------------
(* The type of the state. *)

LEMMA InitIInv == Init => IInv
  <1> SUFFICES ASSUME Init PROVE IInv
    OBVIOUS
  <1> USE DEF Init
  <1>1. ProcessOK
    BY DEF ProcessOK, Places, Reasons
  <1>2. DiskOK /\ RecordOK
    BY DEF DiskOK, RecordOK, Contents, Disks, Disk
  <1>3. events \in 0..Events
    BY BoundsAssumption
  <1>4. TypeOK
    BY <1>1, <1>2, <1>3 DEF TypeOK
  <1>5. Whole
    BY NoneAssumption DEF Whole, WritesAlone, WrittenWhole, DiskWhole, Writers, Disk
  <1>6. PromiseStands
    BY NoneAssumption DEF PromiseStands
  <1> QED
    BY <1>4, <1>5, <1>6
    DEF IInv, SessionNamed, ForgetsNoPromise, AlienIsGone, RecordKept

LEMMA BeginsOK ==
    ASSUME ProcessOK, NEW p \in Procs, NEW place \in Places, NEW c \in Codes \cup {None},
           NEW why \in Reasons, Begins(p, place, c, why)
    PROVE  ProcessOK'
  BY DEF ProcessOK, Begins, Goes

LEMMA EndsOK == ASSUME ProcessOK, NEW p \in Procs, Ends(p) PROVE ProcessOK'
  BY DEF ProcessOK, Ends, Goes, Places, Reasons

LEMMA OnlyOK ==
    ASSUME ProcessOK, NEW p \in Procs, NEW place \in Places, Only(p, place) PROVE ProcessOK'
  BY DEF ProcessOK, Only, Goes

LEMMA NewIsFree == \A p \in New : p \in Procs /\ pc[p] = "none"
  BY DEF New, Free

LEMMA NextProcessOK == ProcessOK /\ DiskOK /\ RecordOK /\ [Next]_vars => ProcessOK'
  <1> SUFFICES ASSUME ProcessOK, DiskOK, RecordOK, [Next]_vars PROVE ProcessOK'
    OBVIOUS
  <1>0. /\ Places = {"none", "writing", "replacing", "enabling", "resuming", "recording",
                     "agent", "forgetting", "unlinking", "disabling", "deleting",
                     "leaving", "clearing", "looking", "unpid"}
        /\ Reasons = {"over", "quit", "stop", "login", "task"}
    BY DEF Places, Reasons
  <1>1. ASSUME NEW p \in Procs, NEW c \in Codes, PersonStarts(p, c) PROVE ProcessOK'
    BY <1>0, <1>1, BeginsOK DEF PersonStarts
  <1>2. ASSUME NEW p \in Procs, PersonStops(p) \/ WatchdogFires(p) PROVE ProcessOK'
    BY <1>0, <1>2, BeginsOK DEF PersonStops, WatchdogFires
  <1>3. ASSUME NEW p \in Procs, Records(p) \/ Quits(p) \/ Revoked(p) PROVE ProcessOK'
    <2>1. code[p] \in Codes \cup {None}
      BY DEF ProcessOK
    <2> QED
      BY <1>0, <1>3, <2>1, BeginsOK DEF Records, Quits, Revoked
  <1>4. ASSUME NEW p \in Procs,
               Leaves(p) \/ Clears(p) \/ RemovesRecord(p) \/ Killed(p)
        PROVE  ProcessOK'
    <2>1. Ends(p) \/ Only(p, "clearing")
      BY <1>4 DEF Leaves, Clears, RemovesRecord, Killed
    <2> QED
      BY <1>0, <2>1, EndsOK, OnlyOK
  <1>5. ASSUME NEW p \in Procs,
               \/ Writes(p) \/ Replaces(p) \/ Enables(p) \/ Forgets(p)
               \/ Unlinks(p) \/ Disables(p) \/ Deletes(p) \/ HearsEnd(p)
        PROVE  ProcessOK'
    <2>1. \E place \in Places : Only(p, place)
      BY <1>0, <1>5
      DEF Writes, Replaces, Enables, Forgets, Unlinks, Disables, Deletes, HearsEnd, Follows
    <2> QED
      BY <2>1, OnlyOK
  <1>6. ASSUME NEW p \in Procs, Resumes(p) PROVE ProcessOK'
    <2>1. CASE Ends(p)
      BY <2>1, EndsOK
    <2>2. CASE ~Ends(p)
      BY <1>0, <1>6, <2>2 DEF Resumes, ProcessOK, DiskOK, Goes
    <2> QED
      BY <2>1, <2>2
  <1>7. ASSUME NEW p \in Procs, Enrols(p) PROVE ProcessOK'
    BY <1>7 DEF Enrols, ProcessOK
  <1>8. ASSUME NEW p \in Procs, SessionOver(p) PROVE ProcessOK'
    <2>1. CASE Only(p, "forgetting")
      BY <1>0, <2>1, OnlyOK
    <2>2. CASE ~Only(p, "forgetting")
      BY <1>0, <1>8, <2>2 DEF SessionOver, ProcessOK, Goes
    <2> QED
      BY <2>1, <2>2
  <1>9. ASSUME NEW p \in Procs, Looks(p) PROVE ProcessOK'
    <2>1. CASE Ends(p) \/ Only(p, "unpid")
      BY <1>0, <2>1, EndsOK, OnlyOK
    <2>2. CASE ~(Ends(p) \/ Only(p, "unpid"))
      <3>1. pidfile \in Procs
        BY <1>9, <2>2 DEF Looks, Running, RecordOK
      <3>2. /\ pc' = [pc EXCEPT ![p] = "unpid", ![pidfile] = "none"]
            /\ code' = [code EXCEPT ![pidfile] = None]
            /\ path' = [path EXCEPT ![pidfile] = "over"]
            /\ enrolled' = enrolled \ {pidfile}
            /\ device' = device \ {pidfile}
            /\ resumed' = resumed \ {pidfile}
        BY <1>9, <2>2 DEF Looks
      <3> QED
        BY <1>0, <3>1, <3>2 DEF ProcessOK
    <2> QED
      BY <2>1, <2>2
  <1>10. CASE LogsIn
    <2>1. ASSUME NEW p \in New, Begins(p, "resuming", None, "login") PROVE ProcessOK'
      BY <1>0, <2>1, NewIsFree, BeginsOK
    <2>2. CASE UNCHANGED process
      BY <2>2 DEF process, ProcessOK
    <2> QED
      BY <1>10, <2>1, <2>2 DEF LogsIn
  <1>11. CASE Restarts \/ PowerFails
    <2>1. PICK file : StartsAnew(file)
      BY <1>11 DEF Restarts, PowerFails
    <2>2. /\ pc' = [p \in Procs |-> "none"] /\ code' = [p \in Procs |-> None]
          /\ path' = [p \in Procs |-> "over"]
          /\ enrolled' = {} /\ device' = {} /\ resumed' = {}
      BY <2>1 DEF StartsAnew
    <2> QED
      BY <1>0, <2>2 DEF ProcessOK
  <1>12. CASE Settles \/ AlienEnds \/ UNCHANGED vars
    BY <1>12 DEF Settles, AlienEnds, vars, process, ProcessOK
  <1> QED
    BY <1>1, <1>2, <1>3, <1>4, <1>5, <1>6, <1>7, <1>8, <1>9, <1>10, <1>11, <1>12
    DEF Next, Works

(* The steps that touch the record. *)
LEMMA RecordSteps ==
    ASSUME [Next]_vars
    PROVE  \/ UNCHANGED record \/ Restarts \/ PowerFails \/ AlienEnds
           \/ \E p \in Procs : \/ Records(p) \/ RemovesRecord(p) \/ Looks(p)
                               \/ Leaves(p) \/ Clears(p) \/ Killed(p)
  BY DEF Next, Works, PersonStarts, PersonStops, WatchdogFires, Writes, Replaces, Enables,
         Resumes, Forgets, Unlinks, Disables, Deletes, Enrols, SessionOver, HearsEnd, Quits,
         Revoked, LogsIn, Settles, vars

LEMMA NextRecordOK == RecordOK /\ [Next]_vars => RecordOK'
  <1> SUFFICES ASSUME RecordOK, [Next]_vars PROVE RecordOK'
    OBVIOUS
  <1> USE DEF RecordOK
  <1>1. CASE UNCHANGED record
    BY <1>1 DEF record
  <1>2. ASSUME NEW p \in Procs, Records(p) \/ RemovesRecord(p) PROVE RecordOK'
    BY <1>2 DEF Records, RemovesRecord, record
  <1>3. ASSUME NEW p \in Procs, Leaves(p) \/ Clears(p) \/ Killed(p) PROVE RecordOK'
    BY <1>3 DEF Leaves, Clears, Killed, Outlived
  <1>4. ASSUME NEW p \in Procs, Looks(p) PROVE RecordOK'
    BY <1>4 DEF Looks
  <1>5. ASSUME NEW file \in {None, Gone}, StartsAnew(file) PROVE RecordOK'
    <2>1. pidfile' \in {None, Gone} /\ tangled' = tangled
      BY <1>5 DEF StartsAnew
    <2>2. alien' \in BOOLEAN
      BY <1>5 DEF StartsAnew
    <2> QED
      BY <2>1, <2>2
  <1>6. CASE AlienEnds
    BY <1>6 DEF AlienEnds
  <1>7. CASE Restarts \/ PowerFails
    BY <1>5, <1>7 DEF Restarts, PowerFails
  <1> QED
    BY <1>1, <1>2, <1>3, <1>4, <1>6, <1>7, RecordSteps

(* The steps that write the disk. *)
LEMMA DiskSteps ==
    ASSUME [Next]_vars
    PROVE  \/ UNCHANGED disk \/ Restarts \/ PowerFails \/ Settles
           \/ \E p \in Procs : \/ \E c \in Codes : PersonStarts(p, c)
                               \/ Writes(p) \/ Replaces(p)
                               \/ Enables(p) \/ Unlinks(p) \/ Disables(p)
                               \/ Deletes(p) \/ Enrols(p)
  BY DEF Next, Works, PersonStops, WatchdogFires, Records, Resumes, Forgets, Looks,
         RemovesRecord, Leaves, Clears, SessionOver, HearsEnd, Quits, Revoked, Killed,
         LogsIn, AlienEnds, vars

LEMMA TaskType == ASSUME DiskOK, TaskCreated \/ TaskDeleted PROVE watchdog' \in BOOLEAN
  BY DEF DiskOK, TaskCreated, TaskDeleted

(* What is on disk is among what a disk can hold. *)
LEMMA DiskIsADisk == DiskOK => Disk \in Disks
  BY DEF DiskOK, Disk, Disks

LEMMA NextDiskOK == ProcessOK /\ DiskOK /\ [Next]_vars => DiskOK'
  <1> SUFFICES ASSUME ProcessOK, DiskOK, [Next]_vars PROVE DiskOK'
    OBVIOUS
  <1>0. Disk \in Disks
    BY DiskIsADisk
  <1>1. CASE UNCHANGED disk
    BY <1>1 DEF disk, DiskOK
  <1>2. ASSUME NEW p \in Procs, NEW c \in Codes, PersonStarts(p, c) PROVE DiskOK'
    BY <1>2 DEF PersonStarts, DiskOK, Contents
  <1>3. ASSUME NEW p \in Procs, Writes(p) \/ Replaces(p) PROVE DiskOK'
    <2>1. code[p] \in Contents /\ None \in Contents
      BY DEF ProcessOK, Contents
    <2>2. /\ temp' \in {temp, code[p], None} /\ saved' \in {saved, temp}
          /\ UNCHANGED <<creds, runkey, watchdog, before>>
      BY <1>3 DEF Writes, Replaces, Remembers
    <2> QED
      BY <2>1, <2>2 DEF DiskOK
  <1>4. ASSUME NEW p \in Procs, Enables(p) \/ Disables(p) PROVE DiskOK'
    <2>1. watchdog' \in BOOLEAN
      BY <1>4, TaskType DEF Enables, Disables, DiskOK
    <2>2. runkey' \in BOOLEAN
      BY <1>4 DEF Enables, Disables, DiskOK
    <2> QED
      BY <1>4, <2>1, <2>2 DEF Enables, Disables, DiskOK
  <1>5. ASSUME NEW p \in Procs, Unlinks(p) \/ Deletes(p) \/ Enrols(p) PROVE DiskOK'
    BY <1>5 DEF Unlinks, Deletes, Enrols, DiskOK, Contents
  <1>6. CASE Restarts \/ Settles
    BY <1>0, <1>6 DEF Restarts, StartsAnew, Settles, DiskOK
  <1>7. CASE PowerFails
    <2>1. saved' \in Contents /\ creds' \in BOOLEAN /\ runkey' \in BOOLEAN
          /\ watchdog' \in BOOLEAN
      BY <1>7 DEF PowerFails, DiskOK, Disks
    <2>2. before' = [saved |-> saved', creds |-> creds', runkey |-> runkey',
                     watchdog |-> watchdog']
      BY <1>7 DEF PowerFails, Disk
    <2>3. temp' = temp
      BY <1>7 DEF PowerFails, StartsAnew
    <2> QED
      BY <2>1, <2>2, <2>3 DEF DiskOK, Disks
  <1> QED
    BY <1>1, <1>2, <1>3, <1>4, <1>5, <1>6, <1>7, DiskSteps

(* The steps that make or break a promise. *)
LEMMA PromiseSteps ==
    ASSUME [Next]_vars
    PROVE  \/ UNCHANGED <<promise, crossed>> \/ PowerFails
           \/ \E p \in Procs : \/ \E c \in Codes : PersonStarts(p, c)
                               \/ Replaces(p) \/ Enables(p) \/ Forgets(p)
  <1>1. ASSUME NEW p \in Procs,
               \/ PersonStops(p) \/ WatchdogFires(p) \/ Writes(p) \/ Records(p)
               \/ Resumes(p) \/ Unlinks(p) \/ Disables(p) \/ Deletes(p)
        PROVE  UNCHANGED <<promise, crossed>>
    BY <1>1 DEF PersonStops, WatchdogFires, Writes, Records, Resumes, Unlinks, Disables, Deletes
  <1>2. ASSUME NEW p \in Procs,
               \/ Looks(p) \/ RemovesRecord(p) \/ Leaves(p) \/ Clears(p) \/ Enrols(p)
               \/ SessionOver(p) \/ HearsEnd(p) \/ Quits(p) \/ Revoked(p) \/ Killed(p)
        PROVE  UNCHANGED <<promise, crossed>>
    BY <1>2 DEF Looks, RemovesRecord, Leaves, Clears, Enrols, SessionOver, HearsEnd, Quits,
                Revoked, Killed
  <1>3. CASE LogsIn \/ Restarts \/ Settles \/ AlienEnds \/ UNCHANGED vars
    BY <1>3 DEF LogsIn, Restarts, StartsAnew, Settles, AlienEnds, vars
  <1> QED
    BY <1>1, <1>2, <1>3 DEF Next, Works

LEMMA NextEvents ==
    ASSUME events \in 0..Events, [Next]_vars PROVE events' \in 0..Events
  <1>1. ASSUME NEW p \in Procs,
               \/ \E c \in Codes : PersonStarts(p, c)
               \/ PersonStops(p) \/ WatchdogFires(p) \/ Writes(p) \/ Replaces(p)
               \/ Enables(p) \/ Disables(p) \/ Records(p) \/ Resumes(p)
        PROVE  UNCHANGED events \/ Happens
    BY <1>1 DEF PersonStarts, PersonStops, WatchdogFires, Writes, Replaces, Enables, Disables,
                TaskCreated, TaskDeleted, Records, Resumes, Lets, Refuses
  <1>2. ASSUME NEW p \in Procs,
               \/ Forgets(p) \/ Unlinks(p) \/ Deletes(p) \/ Looks(p) \/ RemovesRecord(p)
               \/ Leaves(p) \/ Clears(p) \/ Killed(p)
        PROVE  UNCHANGED events \/ Happens
    BY <1>2 DEF Forgets, Unlinks, Deletes, Looks, RemovesRecord, Leaves, Clears, Killed, Lets,
                Refuses
  <1>3. ASSUME NEW p \in Procs,
               Enrols(p) \/ SessionOver(p) \/ HearsEnd(p) \/ Quits(p) \/ Revoked(p)
        PROVE  UNCHANGED events
    BY <1>3 DEF Enrols, SessionOver, HearsEnd, Quits, Revoked
  <1>4. Restarts \/ PowerFails => Happens
    BY DEF Restarts, PowerFails, StartsAnew
  <1>5. LogsIn \/ Settles \/ AlienEnds \/ UNCHANGED vars => UNCHANGED events
    BY DEF LogsIn, Settles, AlienEnds, vars
  <1>6. UNCHANGED events \/ Happens
    BY <1>1, <1>2, <1>3, <1>4, <1>5 DEF Next, Works
  <1> QED
    BY <1>6, BoundsAssumption DEF Happens

(* The steps that change whether anybody has logged in. *)
LEMMA LoginSteps ==
    ASSUME [Next]_vars PROVE UNCHANGED login \/ LogsIn \/ Restarts \/ PowerFails
  <1>1. ASSUME NEW p \in Procs,
               \/ \E c \in Codes : PersonStarts(p, c)
               \/ PersonStops(p) \/ WatchdogFires(p) \/ Writes(p) \/ Replaces(p)
               \/ Enables(p) \/ Records(p) \/ Resumes(p) \/ Forgets(p)
        PROVE  UNCHANGED login
    BY <1>1 DEF PersonStarts, PersonStops, WatchdogFires, Writes, Replaces, Enables, Records,
                Resumes, Forgets
  <1>2. ASSUME NEW p \in Procs,
               \/ Unlinks(p) \/ Disables(p) \/ Deletes(p) \/ Looks(p) \/ RemovesRecord(p)
               \/ Leaves(p) \/ Clears(p) \/ Killed(p)
        PROVE  UNCHANGED login
    BY <1>2 DEF Unlinks, Disables, Deletes, Looks, RemovesRecord, Leaves, Clears, Killed
  <1>3. ASSUME NEW p \in Procs,
               Enrols(p) \/ SessionOver(p) \/ HearsEnd(p) \/ Quits(p) \/ Revoked(p)
        PROVE  UNCHANGED login
    BY <1>3 DEF Enrols, SessionOver, HearsEnd, Quits, Revoked
  <1>4. CASE Settles \/ AlienEnds \/ UNCHANGED vars
    BY <1>4 DEF Settles, AlienEnds, vars
  <1> QED
    BY <1>1, <1>2, <1>3, <1>4 DEF Next, Works

LEMMA NextTypes == TypeOK /\ [Next]_vars => TypeOK'
  <1> SUFFICES ASSUME TypeOK, [Next]_vars PROVE TypeOK'
    OBVIOUS
  <1>1. ProcessOK' /\ DiskOK' /\ RecordOK'
    BY NextProcessOK, NextDiskOK, NextRecordOK DEF TypeOK
  <1>2. login' \in BOOLEAN
    BY LoginSteps DEF TypeOK, LogsIn, Restarts, PowerFails, StartsAnew
  <1>3. events' \in 0..Events
    BY NextEvents DEF TypeOK
  <1>4. promise' \in Codes \cup {None} /\ crossed' \in BOOLEAN
    <2>1. ASSUME NEW p \in Procs, Replaces(p) \/ Enables(p) \/ Forgets(p)
          PROVE  promise' \in Codes \cup {None} /\ crossed' \in BOOLEAN
      <3>1. code[p] \in Codes \cup {None}
        BY DEF TypeOK, ProcessOK
      <3>2. promise' \in {promise, code[p], None}
        BY <2>1 DEF Replaces, Enables, Forgets
      <3>3. crossed' \in BOOLEAN
        BY <2>1 DEF Replaces, Enables, Forgets, TypeOK
      <3> QED
        BY <3>1, <3>2, <3>3 DEF TypeOK
    <2>2. ASSUME NEW p \in Procs, NEW c \in Codes, PersonStarts(p, c)
          PROVE  promise' \in Codes \cup {None} /\ crossed' \in BOOLEAN
      BY <2>2 DEF PersonStarts, TypeOK
    <2>3. CASE PowerFails
      BY <2>3 DEF PowerFails, StartsAnew, TypeOK
    <2> QED
      BY <2>1, <2>2, <2>3, PromiseSteps DEF TypeOK
  <1> QED
    BY <1>1, <1>2, <1>3, <1>4 DEF TypeOK

-----------------------------------------------------------------------------
(* Where processes go. *)

(* Every step keeps the names. *)
LEMMA NextNamed == TypeOK /\ SessionNamed /\ [Next]_vars => SessionNamed'
  <1> SUFFICES ASSUME TypeOK, SessionNamed, [Next]_vars PROVE SessionNamed'
    OBVIOUS
  <1>0. /\ pc \in [Procs -> Places] /\ code \in [Procs -> Codes \cup {None}]
        /\ path \in [Procs -> Reasons] /\ None \notin Codes
    BY NoneAssumption DEF TypeOK, ProcessOK
  <1> USE DEF SessionNamed
  <1>1. ASSUME NEW p \in Procs, NEW c \in Codes, PersonStarts(p, c) PROVE SessionNamed'
    BY <1>0, <1>1 DEF PersonStarts, Begins, Goes
  <1>2. ASSUME NEW p \in Procs, PersonStops(p) \/ WatchdogFires(p) PROVE SessionNamed'
    BY <1>0, <1>2 DEF PersonStops, WatchdogFires, Begins, Goes
  <1>3. ASSUME NEW p \in Procs, Records(p) \/ Quits(p) \/ Revoked(p) PROVE SessionNamed'
    BY <1>0, <1>3 DEF Records, Quits, Revoked, Begins, Goes
  <1>4. ASSUME NEW p \in Procs,
               Leaves(p) \/ Clears(p) \/ RemovesRecord(p) \/ Killed(p)
        PROVE  SessionNamed'
    <2>1. Ends(p) \/ Only(p, "clearing")
      BY <1>4 DEF Leaves, Clears, RemovesRecord, Killed
    <2> QED
      BY <1>0, <2>1 DEF Ends, Only, Goes
  <1>5. ASSUME NEW p \in Procs,
               \/ Writes(p) \/ Replaces(p) \/ Enables(p)
               \/ Unlinks(p) \/ Deletes(p) \/ HearsEnd(p)
        PROVE  SessionNamed'
    <2>1. PICK place \in Places : Only(p, place) /\ place # "forgetting" /\
              (place \in {"replacing", "enabling", "recording", "agent"} =>
                   pc[p] \in {"writing", "replacing", "enabling"}) /\ place # "writing"
      BY <1>5 DEF Writes, Replaces, Enables, Unlinks, Deletes, HearsEnd, Places
    <2> QED
      BY <1>0, <2>1 DEF Only, Goes
  <1>6. ASSUME NEW p \in Procs, Forgets(p) \/ Disables(p) PROVE SessionNamed'
    <2>1. PICK place \in {"leaving", "deleting", "unlinking"} : Only(p, place)
      BY <1>6 DEF Forgets, Disables, Follows
    <2> QED
      BY <1>0, <2>1 DEF Only, Goes
  <1>7. ASSUME NEW p \in Procs, Resumes(p) PROVE SessionNamed'
    <2>1. CASE Ends(p)
      BY <1>0, <2>1 DEF Ends, Goes
    <2>2. CASE ~Ends(p)
      BY <1>0, <1>7, <2>2 DEF Resumes, Goes
    <2> QED
      BY <2>1, <2>2
  <1>8. ASSUME NEW p \in Procs, Enrols(p) PROVE SessionNamed'
    BY <1>8 DEF Enrols
  <1>9. ASSUME NEW p \in Procs, SessionOver(p) PROVE SessionNamed'
    <2>1. pc[p] = "agent" /\ p \notin device /\ code[p] # None /\ code' = code /\ path' = path
      BY <1>9 DEF SessionOver, Only
    <2>2. PICK place \in {"agent", "leaving", "forgetting"} : Goes(p, place)
      BY <1>9 DEF SessionOver, Only
    <2>3. device \subseteq device'
      BY <1>9 DEF SessionOver, Only
    <2> QED
      BY <1>0, <2>1, <2>2, <2>3 DEF Goes
  <1>10. ASSUME NEW p \in Procs, Looks(p) PROVE SessionNamed'
    <2>1. CASE Ends(p) \/ Only(p, "unpid")
      BY <1>0, <2>1 DEF Ends, Only, Goes
    <2>2. CASE ~(Ends(p) \/ Only(p, "unpid"))
      <3>1. /\ pc' = [pc EXCEPT ![p] = "unpid", ![pidfile] = "none"]
            /\ code' = [code EXCEPT ![pidfile] = None]
            /\ path' = [path EXCEPT ![pidfile] = "over"]
            /\ device' = device \ {pidfile}
        BY <1>10, <2>2 DEF Looks
      <3> QED
        BY <1>0, <3>1
    <2> QED
      BY <2>1, <2>2
  <1>11. CASE LogsIn
    <2>1. ASSUME NEW p \in New, Begins(p, "resuming", None, "login") PROVE SessionNamed'
      BY <1>0, <2>1, NewIsFree DEF Begins, Goes
    <2>2. CASE UNCHANGED process
      BY <2>2 DEF process
    <2> QED
      BY <1>11, <2>1, <2>2 DEF LogsIn
  <1>12. CASE Restarts \/ PowerFails
    BY <1>12 DEF Restarts, PowerFails, StartsAnew
  <1>13. CASE Settles \/ AlienEnds \/ UNCHANGED vars
    BY <1>13 DEF Settles, AlienEnds, vars, process
  <1> QED
    BY <1>1, <1>2, <1>3, <1>4, <1>5, <1>6, <1>7, <1>8, <1>9, <1>10, <1>11, <1>12, <1>13
    DEF Next, Works

(* Only Forgets brings a process to where it will unlink, and only Unlinks  *)
(* to where it will turn the start at login off; only a start and Writes    *)
(* bring it to the writing of the session, only Records makes an agent and  *)
(* only Leaves has it remove the record.                                    *)
Arrives(q) ==
    /\ pc'[q] = "writing" => pc[q] = "writing" \/ \E c \in Codes : PersonStarts(q, c)
    /\ pc'[q] = "replacing" => pc[q] = "replacing" \/ Writes(q)
    /\ pc'[q] = "clearing" => pc[q] = "clearing" \/ Leaves(q)
    /\ pc'[q] = "unlinking" => pc[q] = "unlinking" \/ Forgets(q)
    /\ pc'[q] = "disabling" => pc[q] \in {"unlinking", "disabling"}
    /\ pc'[q] = "agent" => pc[q] = "agent" \/ Records(q)

LEMMA NextArrives == ASSUME TypeOK, [Next]_vars PROVE \A q \in Procs : Arrives(q)
  <1> SUFFICES ASSUME NEW q \in Procs PROVE Arrives(q)
    OBVIOUS
  <1>0. pc \in [Procs -> Places]
    BY DEF TypeOK, ProcessOK
  <1> USE DEF Arrives
  <1>1. ASSUME NEW p \in Procs, NEW c \in Codes, PersonStarts(p, c) PROVE Arrives(q)
    <2>1. pc' = [pc EXCEPT ![p] = "writing"]
      BY <1>1 DEF PersonStarts, Begins, Goes
    <2>2. q # p => Arrives(q)
      BY <1>0, <2>1
    <2>3. q = p => Arrives(q)
      BY <1>0, <1>1, <2>1
    <2> QED
      BY <2>2, <2>3
  <1>2. ASSUME NEW p \in Procs, PersonStops(p) \/ WatchdogFires(p) \/ Quits(p) \/ Revoked(p)
        PROVE  Arrives(q)
    <2>1. PICK place \in {"forgetting", "resuming"} : pc' = [pc EXCEPT ![p] = place]
      BY <1>2 DEF PersonStops, WatchdogFires, Quits, Revoked, Begins, Goes
    <2> QED
      BY <1>0, <2>1
  <1>3. ASSUME NEW p \in Procs, Records(p) PROVE Arrives(q)
    <2>1. pc' = [pc EXCEPT ![p] = "agent"]
      BY <1>3 DEF Records, Begins, Goes
    <2> QED
      BY <1>0, <1>3, <2>1
  <1>4. ASSUME NEW p \in Procs,
               Clears(p) \/ RemovesRecord(p) \/ Killed(p) \/ HearsEnd(p)
        PROVE  Arrives(q)
    <2>1. PICK place \in {"none", "leaving"} : pc' = [pc EXCEPT ![p] = place]
      BY <1>4 DEF Clears, RemovesRecord, Killed, Ends, HearsEnd, Only, Goes
    <2> QED
      BY <1>0, <2>1
  <1>15. ASSUME NEW p \in Procs, Leaves(p) PROVE Arrives(q)
    <2>1. PICK place \in {"none", "clearing"} : pc' = [pc EXCEPT ![p] = place]
      BY <1>15 DEF Leaves, Ends, Only, Goes
    <2> QED
      BY <1>0, <1>15, <2>1
  <1>5. ASSUME NEW p \in Procs, Enables(p) \/ Unlinks(p) \/ Deletes(p) PROVE Arrives(q)
    <2>1. \/ pc' = [pc EXCEPT ![p] = "recording"]
          \/ pc[p] = "unlinking" /\ pc' = [pc EXCEPT ![p] = "disabling"]
          \/ pc' = [pc EXCEPT ![p] = "looking"]
          \/ pc' = [pc EXCEPT ![p] = "leaving"]
      BY <1>5 DEF Enables, Unlinks, Deletes, Only, Goes
    <2> QED
      BY <1>0, <2>1
  <1>16. ASSUME NEW p \in Procs, Writes(p) PROVE Arrives(q)
    <2>1. PICK place \in {"replacing", "recording"} : pc' = [pc EXCEPT ![p] = place]
      BY <1>16 DEF Writes, Only, Goes
    <2> QED
      BY <1>0, <1>16, <2>1
  <1>17. ASSUME NEW p \in Procs, Replaces(p) PROVE Arrives(q)
    <2>1. PICK place \in {"enabling", "recording"} : pc' = [pc EXCEPT ![p] = place]
      BY <1>17 DEF Replaces, Only, Goes
    <2> QED
      BY <1>0, <2>1
  <1>6. ASSUME NEW p \in Procs, Disables(p) PROVE Arrives(q)
    BY <1>0, <1>6 DEF Disables, Follows, Only, Goes
  <1>7. ASSUME NEW p \in Procs, Forgets(p) PROVE Arrives(q)
    <2>1. PICK place \in {"leaving", "deleting", "unlinking"} : pc' = [pc EXCEPT ![p] = place]
      BY <1>7 DEF Forgets, Follows, Only, Goes
    <2> QED
      BY <1>0, <1>7, <2>1
  <1>8. ASSUME NEW p \in Procs, Resumes(p) PROVE Arrives(q)
    <2>1. PICK place \in {"none", "recording"} : pc' = [pc EXCEPT ![p] = place]
      BY <1>8 DEF Resumes, Ends, Goes
    <2> QED
      BY <1>0, <2>1
  <1>9. ASSUME NEW p \in Procs, Enrols(p) PROVE Arrives(q)
    BY <1>9 DEF Enrols
  <1>10. ASSUME NEW p \in Procs, SessionOver(p) PROVE Arrives(q)
    <2>1. PICK place \in {"agent", "leaving", "forgetting"} : pc' = [pc EXCEPT ![p] = place]
      BY <1>10 DEF SessionOver, Only, Goes
    <2>2. pc[p] = "agent"
      BY <1>10 DEF SessionOver
    <2> QED
      BY <1>0, <2>1, <2>2
  <1>11. ASSUME NEW p \in Procs, Looks(p) PROVE Arrives(q)
    <2>1. \/ pc' = [pc EXCEPT ![p] = "none"] \/ pc' = [pc EXCEPT ![p] = "unpid"]
          \/ pc' = [pc EXCEPT ![p] = "unpid", ![pidfile] = "none"]
      BY <1>11 DEF Looks, Ends, Only, Goes
    <2> QED
      BY <1>0, <2>1
  <1>12. CASE LogsIn
    <2>1. ASSUME NEW p \in New, Begins(p, "resuming", None, "login") PROVE Arrives(q)
      BY <1>0, <2>1, NewIsFree DEF Begins, Goes
    <2>2. CASE UNCHANGED process
      BY <2>2 DEF process
    <2> QED
      BY <1>12, <2>1, <2>2 DEF LogsIn
  <1>13. CASE Restarts \/ PowerFails
    BY <1>13 DEF Restarts, PowerFails, StartsAnew
  <1>14. CASE Settles \/ AlienEnds \/ UNCHANGED vars
    BY <1>14 DEF Settles, AlienEnds, vars, process
  <1> QED
    BY <1>1, <1>2, <1>3, <1>4, <1>5, <1>6, <1>7, <1>8, <1>9, <1>10, <1>11, <1>12, <1>13, <1>14,
       <1>15, <1>16, <1>17
    DEF Next, Works

-----------------------------------------------------------------------------
(* The promise. *)

Promise == ForgetsNoPromise /\ PromiseStands

(* Whoever starts to forget has the session that was promised, and takes    *)
(* the promise back; or there was none to break.                            *)
LEMMA ForgettingIsFair ==
    ASSUME TypeOK, SessionNamed, Promise, NEW p \in Procs, Forgets(p), pc'[p] = "unlinking"
    PROVE  promise' = None \/ crossed'
  <1>0. /\ pc \in [Procs -> Places] /\ code \in [Procs -> Codes \cup {None}]
        /\ promise \in Codes \cup {None} /\ crossed \in BOOLEAN
    BY DEF TypeOK, ProcessOK
  <1>1. /\ saved \in Codes \/ path[p] # "over"
        /\ saved \notin Codes \/ code[p] = None \/ saved = code[p]
    <2>1. ASSUME \/ saved \notin Codes /\ path[p] = "over"
                 \/ saved \in Codes /\ code[p] # None /\ saved # code[p]
          PROVE  FALSE
      <3>1. Only(p, Follows(p))
        BY <2>1 DEF Forgets
      <3>2. pc'[p] \in {"leaving", "deleting"}
        BY <1>0, <3>1 DEF Only, Goes, Follows
      <3> QED
        BY <3>2
    <2> QED
      BY <2>1
  <1>2. promise' = (IF path[p] # "over" \/ promise = code[p] THEN None ELSE promise)
        /\ (crossed => crossed')
    BY <1>1 DEF Forgets
  <1>3. CASE path[p] = "over" /\ promise # code[p]
    <2>1. pc[p] = "forgetting"
      BY DEF Forgets
    <2>2. saved = code[p]
      <3>1. code[p] # None
        BY <1>3, <2>1 DEF SessionNamed
      <3>2. saved \in Codes
        BY <1>1, <1>3
      <3> QED
        BY <1>1, <3>1, <3>2
    <2>3. promise = None \/ crossed
      BY <1>3, <2>2 DEF Promise, PromiseStands
    <2> QED
      BY <1>2, <1>3, <2>3
  <1> QED
    BY <1>2, <1>3

(* Crossed once, crossed for good. *)
LEMMA CrossedStays == ASSUME TypeOK, [Next]_vars PROVE crossed => crossed'
  <1>1. ASSUME NEW p \in Procs, NEW c \in Codes, PersonStarts(p, c) PROVE crossed => crossed'
    BY <1>1 DEF PersonStarts
  <1>2. ASSUME NEW p \in Procs, Replaces(p) \/ Enables(p) \/ Forgets(p)
        PROVE  crossed => crossed'
    BY <1>2 DEF Replaces, Enables, Forgets
  <1>3. CASE PowerFails
    BY <1>3 DEF PowerFails, StartsAnew
  <1> QED
    BY <1>1, <1>2, <1>3, PromiseSteps

(* The steps that write the temporary file, and those that put it, or what  *)
(* was there before, in its place.                                          *)
LEMMA NextAlone ==
    ASSUME TypeOK, Whole, [Next]_vars, ~crossed' PROVE WritesAlone'
  <1>0. /\ \A q \in Procs : Arrives(q)
        /\ WritesAlone
        /\ pc \in [Procs -> Places]
    BY NextArrives, CrossedStays DEF Whole, TypeOK, ProcessOK
  <1>1. ASSUME NEW p \in Procs, NEW c \in Codes, PersonStarts(p, c) PROVE WritesAlone'
    <2>1. Writers = {} /\ pc' = [pc EXCEPT ![p] = "writing"]
      BY <1>1 DEF PersonStarts, Begins, Goes
    <2>2. Writers' = {p}
      BY <1>0, <2>1 DEF Writers
    <2> QED
      BY <2>2 DEF WritesAlone
  <1>2. CASE ~\E p \in Procs, c \in Codes : PersonStarts(p, c)
    <2>1. \A q \in Writers' : q \in Writers
      BY <1>0, <1>2 DEF Arrives, Writers, Writes
    <2> QED
      BY <1>0, <2>1 DEF WritesAlone
  <1> QED
    BY <1>1, <1>2

(* Who writes the session keeps its code. *)
LEMMA NextKeepsCode ==
    ASSUME TypeOK, [Next]_vars, NEW q \in Procs, pc'[q] = "replacing"
    PROVE  code'[q] = code[q]
  <1>0. pc \in [Procs -> Places] /\ code \in [Procs -> Codes \cup {None}]
    BY DEF TypeOK, ProcessOK
  <1>1. ASSUME NEW p \in Procs, NEW c \in Codes, PersonStarts(p, c) PROVE code'[q] = code[q]
    BY <1>0, <1>1 DEF PersonStarts, Begins, Goes
  <1>2. ASSUME NEW p \in Procs,
               \/ PersonStops(p) \/ WatchdogFires(p) \/ Records(p) \/ Quits(p) \/ Revoked(p)
        PROVE  code'[q] = code[q]
    <2>1. PICK place \in {"forgetting", "resuming", "agent"}, c \in Codes \cup {None},
               why \in Reasons : Begins(p, place, c, why)
      BY <1>0, <1>2 DEF PersonStops, WatchdogFires, Records, Quits, Revoked, Reasons
    <2> QED
      BY <1>0, <2>1 DEF Begins, Goes
  <1>3. ASSUME NEW p \in Procs, Ends(p) PROVE code'[q] = code[q]
    BY <1>0, <1>3 DEF Ends, Goes
  <1>4. ASSUME NEW p \in Procs, Resumes(p) PROVE code'[q] = code[q]
    BY <1>0, <1>3, <1>4 DEF Resumes, Goes
  <1>5. ASSUME NEW p \in Procs, Looks(p) PROVE code'[q] = code[q]
    BY <1>0, <1>3, <1>5 DEF Looks, Only
  <1>6. CASE LogsIn
    <2>1. ASSUME NEW p \in New, Begins(p, "resuming", None, "login")
          PROVE  code'[q] = code[q]
      BY <1>0, <2>1, NewIsFree DEF Begins, Goes
    <2> QED
      BY <1>6, <2>1 DEF LogsIn, process
  <1>7. CASE Restarts \/ PowerFails
    BY <1>7 DEF Restarts, PowerFails, StartsAnew
  <1>8. ASSUME NEW p \in Procs, Leaves(p) \/ Clears(p) \/ RemovesRecord(p) \/ Killed(p)
        PROVE  code'[q] = code[q]
    BY <1>3, <1>8 DEF Leaves, Clears, RemovesRecord, Killed, Only
  <1>9. \/ code' = code \/ LogsIn \/ Restarts \/ PowerFails
        \/ \E p \in Procs :
              \/ \E c \in Codes : PersonStarts(p, c)
              \/ PersonStops(p) \/ WatchdogFires(p) \/ Records(p) \/ Quits(p) \/ Revoked(p)
              \/ Resumes(p) \/ Looks(p)
              \/ Leaves(p) \/ Clears(p) \/ RemovesRecord(p) \/ Killed(p)
    BY DEF Next, Works, Writes, Replaces, Enables, Forgets, Unlinks, Disables, Deletes, Enrols,
           SessionOver, HearsEnd, Only, Settles, AlienEnds, process, vars
  <1> QED
    BY <1>1, <1>2, <1>4, <1>5, <1>6, <1>7, <1>8, <1>9

LEMMA NextWritten ==
    ASSUME TypeOK, Whole, [Next]_vars, ~crossed' PROVE WrittenWhole'
  <1>0. /\ \A q \in Procs : Arrives(q)
        /\ WritesAlone /\ WrittenWhole
        /\ pc \in [Procs -> Places] /\ code \in [Procs -> Codes \cup {None}]
    BY NextArrives, CrossedStays DEF Whole, TypeOK, ProcessOK
  <1> SUFFICES ASSUME NEW q \in Procs, pc'[q] = "replacing" PROVE temp' = code'[q]
    BY DEF WrittenWhole
  <1>1. CASE Writes(q)
    <2>1. code' = code /\ pc' = [pc EXCEPT ![q] = "replacing"] /\ temp' = code[q]
      BY <1>0, <1>1 DEF Writes, Only, Goes
    <2> QED
      BY <2>1
  <1>2. CASE ~Writes(q)
    <2>0. pc[q] = "replacing" /\ q \in Writers /\ temp = code[q]
      BY <1>0, <1>2 DEF Arrives, WrittenWhole, Writers
    <2>1. ASSUME NEW p \in Procs, NEW c \in Codes, PersonStarts(p, c) PROVE FALSE
      BY <2>0, <2>1 DEF PersonStarts
    <2>2. ASSUME NEW p \in Procs, Writes(p) PROVE FALSE
      <3>1. p \in Writers
        BY <2>2 DEF Writes, Writers
      <3> QED
        BY <1>0, <1>2, <2>0, <2>2, <3>1 DEF WritesAlone
    <2>3. ASSUME NEW p \in Procs, Replaces(p) PROVE FALSE
      <3>1. p \in Writers
        BY <2>3 DEF Replaces, Writers
      <3>2. p = q
        BY <1>0, <2>0, <3>1 DEF WritesAlone
      <3>3. pc'[p] # "replacing"
        BY <1>0, <2>3 DEF Replaces, Only, Goes
      <3> QED
        BY <3>2, <3>3
    <2>4. ASSUME Restarts \/ PowerFails PROVE FALSE
      BY <2>4 DEF Restarts, PowerFails, StartsAnew
    <2>5. temp' = temp
      <3>1. ASSUME NEW p \in Procs,
                   Enables(p) \/ Unlinks(p) \/ Disables(p) \/ Deletes(p) \/ Enrols(p)
            PROVE  temp' = temp
        BY <3>1 DEF Enables, Unlinks, Disables, Deletes, Enrols
      <3>2. UNCHANGED disk \/ Settles => temp' = temp
        BY DEF disk, Settles
      <3> QED
        BY <2>1, <2>2, <2>3, <2>4, <3>1, <3>2, DiskSteps
    <2>6. code'[q] = code[q]
      BY NextKeepsCode
    <2> QED
      BY <2>0, <2>5, <2>6
  <1> QED
    BY <1>1, <1>2

LEMMA NextDiskWhole ==
    ASSUME TypeOK, SessionNamed, Whole, [Next]_vars, ~crossed' PROVE DiskWhole'
  <1>0. DiskWhole /\ WrittenWhole
    BY CrossedStays DEF Whole
  <1> USE DEF DiskWhole
  <1>1. CASE UNCHANGED <<saved, before>>
    BY <1>0, <1>1
  <1>2. ASSUME NEW p \in Procs, Replaces(p) PROVE DiskWhole'
    <2>1. temp = code[p] /\ code[p] \in Codes
      BY <1>0, <1>2 DEF Replaces, WrittenWhole, SessionNamed, TypeOK, ProcessOK
    <2> QED
      BY <1>0, <1>2, <2>1, NoneAssumption DEF Replaces, Remembers
  <1>3. ASSUME NEW p \in Procs, Unlinks(p) PROVE DiskWhole'
    BY <1>0, <1>3, NoneAssumption DEF Unlinks
  <1>4. CASE Restarts \/ Settles
    <2>1. before' = [saved |-> saved, creds |-> creds, runkey |-> runkey,
                     watchdog |-> watchdog]
      BY <1>4 DEF Restarts, Settles, Disk
    <2>2. saved' = saved
      BY <1>4 DEF Restarts, Settles
    <2> QED
      BY <1>0, <2>1, <2>2
  <1>5. CASE PowerFails
    BY <1>0, <1>5 DEF PowerFails, Disk
  <1>6. ASSUME NEW p \in Procs,
               \/ \E c \in Codes : PersonStarts(p, c)
               \/ Writes(p) \/ Enables(p) \/ Disables(p) \/ Deletes(p) \/ Enrols(p)
        PROVE  UNCHANGED <<saved, before>>
    BY <1>6 DEF PersonStarts, Writes, Enables, Disables, Deletes, Enrols
  <1> QED
    BY <1>1, <1>2, <1>3, <1>4, <1>5, <1>6, DiskSteps DEF disk

LEMMA NextWhole == ASSUME TypeOK, SessionNamed, Whole, [Next]_vars PROVE Whole'
  BY NextAlone, NextWritten, NextDiskWhole DEF Whole

LEMMA NextForgets ==
    ASSUME TypeOK, SessionNamed, Promise, [Next]_vars PROVE ForgetsNoPromise'
  <1>0. /\ \A q \in Procs : Arrives(q)
        /\ crossed => crossed'
        /\ ForgetsNoPromise
        /\ pc \in [Procs -> Places]
    BY NextArrives, CrossedStays DEF Promise, TypeOK, ProcessOK
  <1> SUFFICES ASSUME NEW q \in Procs, pc'[q] \in {"unlinking", "disabling"}
               PROVE  promise' = None \/ crossed'
    BY DEF ForgetsNoPromise
  <1>1. CASE Forgets(q)
    <2>1. pc'[q] # "disabling"
      BY <1>0, <1>1 DEF Forgets, Follows, Only, Goes
    <2> QED
      BY <1>1, <2>1, ForgettingIsFair
  <1>2. CASE ~Forgets(q)
    <2>1. pc[q] \in {"unlinking", "disabling"} /\ (promise = None \/ crossed) /\ Forgetting
      BY <1>0, <1>2 DEF Arrives, ForgetsNoPromise, Forgetting
    <2>2. ASSUME NEW p \in Procs, Forgets(p) PROVE promise = None => promise' = None
      BY <2>2 DEF Forgets
    <2>3. ASSUME NEW p \in Procs, Enables(p) PROVE crossed'
      BY <2>1, <2>3 DEF Enables
    <2>4. ASSUME NEW p \in Procs, Replaces(p) PROVE promise = None => promise' = None
      BY <2>4 DEF Replaces
    <2>5. ASSUME NEW p \in Procs, NEW c \in Codes, PersonStarts(p, c)
          PROVE  promise = None => promise' = None
      BY <2>5 DEF PersonStarts
    <2>6. PowerFails => (promise = None => promise' = None)
      BY DEF PowerFails
    <2> QED
      BY <1>0, <2>1, <2>2, <2>3, <2>4, <2>5, <2>6, PromiseSteps
  <1> QED
    BY <1>1, <1>2

LEMMA NextStands ==
    ASSUME TypeOK, SessionNamed, Whole, Promise, [Next]_vars PROVE PromiseStands'
  <1> SUFFICES ASSUME ~crossed', promise' # None PROVE saved' = promise' /\ runkey'
    BY NextDiskWhole DEF PromiseStands, DiskWhole
  <1>0. ~crossed /\ (promise # None => saved = promise /\ runkey)
    BY CrossedStays DEF Promise, PromiseStands
  <1>1. ASSUME NEW p \in Procs, Enables(p) PROVE saved' = promise' /\ runkey'
    <2>1. /\ saved' = saved
          /\ \/ runkey' = TRUE /\ promise' = IF saved = code[p] THEN code[p] ELSE promise
             \/ UNCHANGED <<runkey, promise>>
      BY <1>1 DEF Enables
    <2> QED
      BY <1>0, <2>1
  <1>2. ASSUME NEW p \in Procs, Replaces(p) PROVE saved' = promise' /\ runkey'
    BY <1>0, <1>2 DEF Replaces
  <1>3. ASSUME NEW p \in Procs, Forgets(p) PROVE saved' = promise' /\ runkey'
    <2>1. promise' \in {promise, None} /\ UNCHANGED <<saved, runkey>>
      BY <1>3 DEF Forgets, disk
    <2> QED
      BY <1>0, <2>1
  <1>4. CASE PowerFails
    BY <1>0, <1>4 DEF PowerFails
  <1>5. CASE UNCHANGED promise
    <2>1. promise # None /\ saved = promise /\ runkey
      BY <1>0, <1>5
    <2>2. ASSUME NEW p \in Procs, Unlinks(p) \/ Disables(p) PROVE FALSE
      BY <1>0, <2>1, <2>2 DEF Unlinks, Disables, Promise, ForgetsNoPromise
    <2>3. CASE Restarts \/ Settles
      BY <1>5, <2>1, <2>3 DEF Restarts, Settles
    <2>4. ASSUME NEW p \in Procs, Writes(p) \/ Deletes(p) \/ Enrols(p)
          PROVE  UNCHANGED <<saved, runkey>>
      BY <2>4 DEF Writes, Deletes, Enrols
    <2>5. ASSUME NEW p \in Procs, NEW c \in Codes, PersonStarts(p, c)
          PROVE  UNCHANGED <<saved, runkey>>
      BY <2>5 DEF PersonStarts
    <2> QED
      BY <1>1, <1>2, <1>4, <1>5, <2>1, <2>2, <2>3, <2>4, <2>5, DiskSteps DEF disk
  <1>6. ASSUME NEW p \in Procs, NEW c \in Codes, PersonStarts(p, c) PROVE UNCHANGED promise
    BY <1>6 DEF PersonStarts
  <1> QED
    BY <1>1, <1>2, <1>3, <1>4, <1>5, <1>6, PromiseSteps

LEMMA NextPromise ==
    ASSUME TypeOK, SessionNamed, Whole, Promise, [Next]_vars PROVE Promise'
  BY NextForgets, NextStands DEF Promise

-----------------------------------------------------------------------------
(* The record. *)

Recorded == AlienIsGone /\ RecordKept

LEMMA NextAlien == ASSUME TypeOK, Recorded, [Next]_vars PROVE AlienIsGone'
  <1>0. AlienIsGone /\ None \notin Procs /\ Gone \notin Procs
    BY NoneAssumption DEF Recorded, Procs
  <1> USE DEF AlienIsGone
  <1>1. CASE UNCHANGED record
    BY <1>0, <1>1 DEF record
  <1>2. ASSUME NEW p \in Procs, Records(p) \/ RemovesRecord(p) PROVE AlienIsGone'
    BY <1>0, <1>2 DEF Records, RemovesRecord, record
  <1>3. ASSUME NEW p \in Procs, Looks(p) PROVE AlienIsGone'
    BY <1>0, <1>3 DEF Looks
  <1>4. ASSUME NEW p \in Procs, Leaves(p) \/ Clears(p) \/ Killed(p) PROVE AlienIsGone'
    BY <1>0, <1>4 DEF Leaves, Clears, Killed, Outlived
  <1>5. ASSUME NEW file \in {None, Gone}, StartsAnew(file) PROVE AlienIsGone'
    BY <1>5 DEF StartsAnew
  <1>6. CASE Restarts \/ PowerFails
    BY <1>5, <1>6 DEF Restarts, PowerFails
  <1>7. CASE AlienEnds
    BY <1>7 DEF AlienEnds
  <1> QED
    BY <1>1, <1>2, <1>3, <1>4, <1>6, <1>7, RecordSteps

LEMMA NextKept == ASSUME TypeOK, Recorded, [Next]_vars PROVE RecordKept'
  <1>0. /\ \A q \in Procs : Arrives(q)
        /\ pc \in [Procs -> Places] /\ pidfile \in Procs \cup {None, Gone}
        /\ None \notin Procs /\ Gone \notin Procs
        /\ AlienIsGone /\ RecordKept
    BY NextArrives, NoneAssumption DEF Recorded, TypeOK, ProcessOK, RecordOK, Procs
  <1> SUFFICES ASSUME NEW q \in Procs, pc'[q] \in {"agent", "clearing"}, ~tangled'
               PROVE  pidfile' = q
    BY DEF RecordKept
  <1>1. ASSUME NEW p \in Procs, Records(p) PROVE pidfile' = q
    <2>1. /\ pidfile' = p /\ \A r \in Procs : pc[r] \notin {"agent", "clearing"}
          /\ pc' = [pc EXCEPT ![p] = "agent"]
      BY <1>1 DEF Records, Begins, Goes
    <2> QED
      BY <1>0, <2>1
  <1>2. CASE Leaves(q)
    <2>1. pidfile = q /\ pidfile' = pidfile
      BY <1>0, <1>2 DEF Leaves, Ends, Goes
    <2> QED
      BY <2>1
  <1>3. CASE ~Leaves(q) /\ ~\E p \in Procs : Records(p)
    <2>1. pc[q] \in {"agent", "clearing"}
      BY <1>0, <1>3 DEF Arrives
    <2>2. ~tangled => pidfile = q /\ ~alien
      BY <1>0, <2>1 DEF RecordKept, AlienIsGone
    <2>3. CASE UNCHANGED record
      BY <2>2, <2>3 DEF record
    <2>4. ASSUME NEW p \in Procs, RemovesRecord(p) PROVE pidfile' = q
      <3>1. CASE UNCHANGED record
        BY <2>3, <3>1
      <3>2. CASE ~UNCHANGED record
        <4>1. tangled' = (tangled \/ pidfile \in Procs)
          BY <2>4, <3>2 DEF RemovesRecord
        <4> QED
          BY <2>2, <4>1
      <3> QED
        BY <3>1, <3>2
    <2>5. ASSUME NEW p \in Procs, Leaves(p) \/ Clears(p) \/ Killed(p) PROVE pidfile' = q
      <3>1. UNCHANGED tangled
        BY <2>5 DEF Leaves, Clears, Killed
      <3>2. p = q => Ends(p) \/ Leaves(p)
        BY <2>5 DEF Clears, Killed
      <3>3. Ends(p) => pc'[p] = "none"
        BY <1>0 DEF Ends, Goes
      <3>4. p # q
        BY <1>3, <3>2, <3>3
      <3>5. pidfile # p
        BY <2>2, <3>1, <3>4
      <3>6. ~Clears(p) \/ tangled
        BY <1>0, <3>5 DEF RecordKept, Clears
      <3>7. pidfile' \in {pidfile, Outlived(p)}
        BY <2>5, <3>1, <3>6 DEF Leaves, Killed
      <3> QED
        BY <2>2, <3>1, <3>5, <3>7 DEF Outlived
    <2>6. ASSUME NEW p \in Procs, Looks(p) PROVE pidfile' = q
      <3>1. UNCHANGED tangled
        BY <2>6 DEF Looks
      <3>2. CASE UNCHANGED pidfile
        BY <2>2, <3>1, <3>2
      <3>3. CASE ~UNCHANGED pidfile
        <4>1. pc' = [pc EXCEPT ![p] = "unpid", ![pidfile] = "none"]
          BY <2>2, <2>6, <3>1, <3>3 DEF Looks
        <4>2. pc'[q] = "none"
          BY <1>0, <2>2, <3>1, <4>1
        <4> QED
          BY <4>2
      <3> QED
        BY <3>2, <3>3
    <2>7. CASE Restarts \/ PowerFails
      BY <2>7 DEF Restarts, PowerFails, StartsAnew
    <2>8. CASE AlienEnds
      BY <2>2, <2>8 DEF AlienEnds
    <2> QED
      BY <1>3, <2>3, <2>4, <2>5, <2>6, <2>7, <2>8, RecordSteps
  <1> QED
    BY <1>1, <1>2, <1>3

-----------------------------------------------------------------------------
(* The theorems. *)

THEOREM Inductive == Spec => []IInv
  <1>1. IInv /\ [Next]_vars => IInv'
    BY NextTypes, NextNamed, NextWhole, NextPromise, NextAlien, NextKept
    DEF IInv, Promise, Recorded
  <1> QED
    BY InitIInv, <1>1, PTL DEF Spec

(* __main__.py, autostart.py, background.py: every process, file and        *)
(* registry entry holds what the code can give it.                          *)
THEOREM TypeCorrect == Spec => []TypeOK
  BY Inductive, PTL DEF IInv

(* durable.py:8 and autostart.py:11: session.json is whole wherever a write *)
(* stops, and a session remembered with the start at login turned on stays  *)
(* so, through any number of processes, kills, restarts and refusals of     *)
(* Windows, until it is over, replaced or turned off, or the power fails    *)
(* before it is written out, unless another session's write or forget       *)
(* overlaps it.                                                             *)
THEOREM PromiseKept == Spec => []PromiseStands
  BY Inductive, PTL DEF IInv

(* background.py:129: an agent that runs is the one on record, unless a     *)
(* record was written beside another agent, could not be written, or was    *)
(* removed by a late stop.                                                  *)
THEOREM AgentRecorded == Spec => []RunningAgentIsRecorded
  <1>1. IInv => RunningAgentIsRecorded
    BY DEF IInv, RecordKept, RunningAgentIsRecorded, Agents
  <1> QED
    BY Inductive, <1>1, PTL
=============================================================================
