---------------------------- MODULE PrivacyBlank ----------------------------
(***************************************************************************)
(* The privacy blank of one agent: the PrivacyBlank object and its Dimmer, *)
(* shared without a lock by the threads that run enable and disable, the   *)
(* overlay threads, the watchdogs, the key listeners and the event loop,   *)
(* which releases the blank when the connection ends.                      *)
(*                                                                         *)
(* An action is what a thread does between two points where another can    *)
(* change something it looks at.  A member of Enables is the thread that   *)
(* runs one enable and, from then on, the watchdog that call starts; the   *)
(* overlay thread it starts is overlay[e].  Clocks are not modelled: a     *)
(* timeout or a deadline may pass whenever the code waits for it.          *)
(***************************************************************************)
EXTENDS Naturals, FiniteSets

CONSTANTS
    Enables,      \* "blank on" messages
    Disables,     \* "blank off" messages
    Escapes,      \* presses of the Escape key that a listener hears
    Loop,         \* the event loop's thread
    Reconnects,   \* how often the agent connects again; a bound
    Kinds,        \* subset of {"dim", "lock", "cover"}: what the machine can do
    Faults,       \* subset of {"slow", "overlay", "dimmer", "guard", "crash"}
    None

Workers == Enables \cup Disables
Threads == Workers \cup Escapes \cup {Loop}

ASSUME ThreadsAssumption ==
    /\ Enables \cap Disables = {} /\ Workers \cap Escapes = {}
    /\ Loop \notin Workers \cup Escapes
    /\ None \notin Threads \cup {"lit", "dark"}
    /\ Reconnects \in Nat

VARIABLES
    active, stop, thread, ready,   \* the fields of those names
    dims,          \* whether _dimmer is there
    locks,         \* whether mode is (or becomes, once up) the guest lock
    suppressors,   \* whose listeners _suppressors holds
    blocking,      \* the calls whose suppressing listeners run
    watcher,       \* whose listener _escape_listener holds
    watching,      \* the calls whose Escape listeners run
    overlay,       \* the overlay thread of each enable
    bound,         \* the overlays whose own window listens for Escape
    kind,          \* what this machine can do
    level,         \* the display's brightness
    saved,         \* what the dimmer will put back, or None
    guard,         \* whose guard process _guard is
    guards,        \* what each guard process that still sleeps will put back
    pc,            \* where each thread is
    target,        \* the overlay a disable joins
    conn,          \* "up", "closing", "down": the connection to the relay
    handling,      \* the call the receive loop awaits
    connects,
    lapses         \* history: what went wrong with the display so far

screen == <<overlay, bound, kind, level>>
dimmer == <<dims, saved, guard, guards>>
keys == <<suppressors, blocking, watcher, watching>>
session == <<conn, handling, connects>>
vars == <<active, stop, thread, ready, locks, dimmer, keys, screen, pc, target,
          session, lapses>>

Goes(t, where) == pc' = [pc EXCEPT ![t] = where]
Covered == {e \in Enables : overlay[e] \in {"mapped", "stuck", "up"}}

\* Where an enable may still darken the display or cover it, and where a disable
\* has found the blank on.
Starting == {"dimming", "darkening", "saving", "dimmed", "spawning", "waiting",
             "failing", "covered"}
Undoing == {"restoring", "clearing", "releasing", "joining", "finishing"}
Amid == \E t \in Threads : pc[t] \in Starting \cup Undoing

-----------------------------------------------------------------------------
(* enable                                                                  *)

EnableStarts(e) ==
    /\ pc[e] = "called"
    /\ IF active THEN Goes(e, "done") /\ UNCHANGED <<stop, lapses>>
       ELSE /\ stop' = FALSE
            /\ Goes(e, IF dims THEN "dimming" ELSE "spawning")
            /\ lapses' = IF Amid THEN lapses \cup {"overlap"} ELSE lapses
    /\ UNCHANGED <<active, thread, ready, locks, dimmer, keys, screen, target,
                   session>>

\* Mutant of DimArms: the display is darkened before the safety net is armed.
DimArmsLate(e) ==
    /\ pc[e] = "dimming"
    /\ target' = [target EXCEPT ![e] = level]
    /\ lapses' = IF level = "dark" THEN lapses \cup {"misread"} ELSE lapses
    /\ Goes(e, "darkening")
    /\ UNCHANGED <<active, stop, thread, ready, locks, dimmer, keys, screen,
                   session>>

\* dim reads the outputs and arms the guard before it darkens anything.  Without
\* a guard process it goes on all the same.
DimArms(e) ==
    /\ pc[e] = "dimming"
    /\ \/ guard' = e /\ guards' = [guards EXCEPT ![e] = level]
       \/ "guard" \in Faults /\ guard' = None /\ guards' = guards
    /\ target' = [target EXCEPT ![e] = level]
    /\ lapses' = lapses \cup (IF guard' = None THEN {"guard"} ELSE {})
                        \cup (IF level = "dark" THEN {"misread"} ELSE {})
    /\ Goes(e, "darkening")
    /\ UNCHANGED <<active, stop, thread, ready, locks, dims, saved, keys, screen,
                   session>>

\* xrandr may fail and only say so in an exit status nobody reads.
DimDarkens(e) ==
    /\ pc[e] = "darkening"
    /\ level' = "dark" \/ ("dimmer" \in Faults /\ level' = level)
    /\ Goes(e, "saving")
    /\ UNCHANGED <<active, stop, thread, ready, locks, dimmer, keys, overlay,
                   bound, kind, target, session, lapses>>

\* What to put back is noted once the display is dark.
DimSaves(e) ==
    /\ pc[e] = "saving"
    /\ saved' = target[e]
    /\ target' = [target EXCEPT ![e] = None]
    /\ Goes(e, "dimmed")
    /\ UNCHANGED <<active, stop, thread, ready, locks, dims, guard, guards, keys,
                   screen, session, lapses>>

\* xrandr raises, before it has done anything or, when it overruns its ten
\* seconds, after; either way nothing is noted.
DimRaises(e) ==
    /\ "dimmer" \in Faults
    /\ pc[e] \in {"darkening", "saving"}
    /\ lapses' = IF pc[e] = "saving" THEN lapses \cup {"darken"} ELSE lapses
    /\ target' = [target EXCEPT ![e] = None]
    /\ Goes(e, "dimmed")
    /\ UNCHANGED <<active, stop, thread, ready, locks, dimmer, keys, screen,
                   session>>

FallsBack(e) ==
    /\ dims' = FALSE
    /\ locks' = TRUE
    /\ Goes(e, "spawning")
    /\ UNCHANGED <<active, stop, thread, ready, saved, keys, screen, target,
                   session, lapses>>

\* Nothing could be darkened: the guard is stood down and an overlay is used.
DimFails(e) ==
    /\ pc[e] = "dimmed"
    /\ saved = None
    /\ guards' = IF guard = None THEN guards ELSE [guards EXCEPT ![guard] = None]
    /\ guard' = None
    /\ FallsBack(e)

DimCannotRead(e) ==
    /\ "dimmer" \in Faults
    /\ pc[e] = "dimming"
    /\ UNCHANGED <<guard, guards>>
    /\ FallsBack(e)

\* The Escape listener may not start.
DimSucceeds(e) ==
    /\ pc[e] = "dimmed"
    /\ saved # None
    /\ active' = TRUE
    /\ \/ watcher' = e /\ watching' = watching \cup {e}
       \/ "dimmer" \in Faults /\ UNCHANGED <<watcher, watching>>
    /\ Goes(e, "watching")
    /\ UNCHANGED <<stop, thread, ready, locks, dimmer, suppressors, blocking,
                   screen, target, session, lapses>>

EnableSpawns(e) ==
    /\ pc[e] = "spawning"
    /\ thread' = e
    /\ overlay' = [overlay EXCEPT ![e] = "mapped"]
    /\ bound' = IF locks THEN bound \cup {e} ELSE bound
    /\ Goes(e, "waiting")
    /\ UNCHANGED <<active, stop, ready, locks, dimmer, keys, kind, level, target,
                   session, lapses>>

\* The oldest result in the queue is taken, whichever overlay put it there.
EnableGets(e) ==
    /\ pc[e] = "waiting"
    /\ ready # None
    /\ ready' = None
    /\ Goes(e, IF ready = "up" THEN "covered" ELSE "failing")
    /\ UNCHANGED <<active, stop, thread, locks, dimmer, keys, screen, target,
                   session, lapses>>

EnableTimesOut(e) ==
    /\ "slow" \in Faults
    /\ pc[e] = "waiting"
    /\ ready = None
    /\ Goes(e, "failing")
    /\ UNCHANGED <<active, stop, thread, ready, locks, dimmer, keys, screen,
                   target, session, lapses>>

EnableFails(e) ==
    /\ pc[e] = "failing"
    /\ stop' = TRUE
    /\ Goes(e, "done")
    /\ UNCHANGED <<active, thread, ready, locks, dimmer, keys, screen, target,
                   session, lapses>>

\* Mutant of EnableSucceeds: the watchdog only ever guards an input block.
EnableSucceedsUnwatched(e) ==
    /\ pc[e] = "covered"
    /\ active' = TRUE
    /\ Goes(e, IF locks THEN "blocking" ELSE "done")
    /\ UNCHANGED <<stop, thread, ready, locks, dimmer, keys, screen, target,
                   session, lapses>>

EnableSucceeds(e) ==
    /\ pc[e] = "covered"
    /\ active' = TRUE
    /\ Goes(e, IF locks THEN "blocking" ELSE "watching")
    /\ UNCHANGED <<stop, thread, ready, locks, dimmer, keys, screen, target,
                   session, lapses>>

\* The listeners start, or cannot be started.
BlocksLocalInput(e) ==
    /\ pc[e] = "blocking"
    /\ \/ suppressors' = e /\ blocking' = blocking \cup {e}
       \/ suppressors' = None /\ blocking' = blocking
    /\ Goes(e, "watching")
    /\ UNCHANGED <<active, stop, thread, ready, locks, dimmer, watcher, watching,
                   screen, target, session, lapses>>

-----------------------------------------------------------------------------
(* The overlay thread and the watchdog.                                    *)

\* A window the captures would see after all makes this a guest lock.  The
\* queue holds one result: a thread that finds it full waits in put, with its
\* window on the screen and not yet polling.
OverlayReports(e) ==
    /\ overlay[e] \in {"mapped", "stuck"}
    /\ locks' \in IF "overlay" \in Faults THEN {locks, TRUE} ELSE {locks}
    /\ IF ready = None
       THEN ready' = "up" /\ overlay' = [overlay EXCEPT ![e] = "up"]
       ELSE ready' = ready /\ overlay' = [overlay EXCEPT ![e] = "stuck"]
    /\ UNCHANGED <<active, stop, thread, dimmer, keys, bound, kind, level, pc,
                   target, session, lapses>>

OverlayFails(e) ==
    /\ "overlay" \in Faults
    /\ overlay[e] = "mapped"
    /\ ready' = IF ready = None THEN "failed" ELSE ready
    /\ overlay' = [overlay EXCEPT ![e] = "gone"]
    /\ UNCHANGED <<active, stop, thread, locks, dimmer, keys, bound, kind, level, pc, target,
                   session, lapses>>

\* poll: the thread that owns the window destroys it once told to stop.
OverlayPolls(e) ==
    /\ overlay[e] = "up"
    /\ stop
    /\ overlay' = [overlay EXCEPT ![e] = "gone"]
    /\ UNCHANGED <<active, stop, thread, ready, locks, dimmer, keys, bound, kind, level, pc,
                   target, session, lapses>>

\* Escape typed into the lock's own window, which no listener swallows.
OverlayHearsEscape(e) ==
    /\ overlay[e] = "up"
    /\ e \in bound /\ blocking = {}
    /\ ~stop
    /\ stop' = TRUE
    /\ UNCHANGED <<active, thread, ready, locks, dimmer, keys, screen, pc, target,
                   session, lapses>>

WatchdogEnds(e) ==
    /\ pc[e] = "watching"
    /\ ~active \/ stop
    /\ Goes(e, "done")
    /\ UNCHANGED <<active, stop, thread, ready, locks, dimmer, keys, screen,
                   target, session, lapses>>

WatchdogExpires(e) ==
    /\ pc[e] = "watching"
    /\ active /\ ~stop
    /\ Goes(e, "disabling")
    /\ UNCHANGED <<active, stop, thread, ready, locks, dimmer, keys, screen,
                   target, session, lapses>>

-----------------------------------------------------------------------------
(* disable, in any thread                                                  *)

DisableStarts(t) ==
    /\ pc[t] = "disabling"
    /\ Goes(t, IF ~active THEN "done" ELSE IF dims THEN "restoring" ELSE "releasing")
    /\ UNCHANGED <<active, stop, thread, ready, locks, dimmer, keys, screen,
                   target, session, lapses>>

\* Mutant of DimmerRelights: something is put back even if nothing was saved.
DimmerRelightsBlindly(t) ==
    /\ pc[t] = "restoring"
    /\ \/ level' = saved /\ lapses' = lapses
       \/ "dimmer" \in Faults /\ saved # None /\ level' = level
          /\ lapses' = lapses \cup {"restore"}
    /\ Goes(t, "clearing")
    /\ UNCHANGED <<active, stop, thread, ready, locks, dimmer, keys, overlay,
                   bound, kind, target, session>>

\* The dimmer puts back what it saved; when xrandr fails, restore carries on.
DimmerRelights(t) ==
    /\ pc[t] = "restoring"
    /\ \/ level' = (IF saved = None THEN level ELSE saved) /\ lapses' = lapses
       \/ "dimmer" \in Faults /\ saved # None /\ level' = level
          /\ lapses' = lapses \cup {"restore"}
    /\ Goes(t, "clearing")
    /\ UNCHANGED <<active, stop, thread, ready, locks, dimmer, keys, overlay,
                   bound, kind, target, session>>

\* Whatever xrandr did, it forgets what it saved and stands its guard down.
DimmerClears(t) ==
    /\ pc[t] = "clearing"
    /\ saved' = None
    /\ guards' = IF guard = None THEN guards ELSE [guards EXCEPT ![guard] = None]
    /\ guard' = None
    /\ Goes(t, "releasing")
    /\ UNCHANGED <<active, stop, thread, ready, locks, dims, keys, screen, target,
                   session, lapses>>

\* Mutant of DisableReleases: the overlay is joined without being told to stop.
DisableReleasesQuietly(t) ==
    /\ pc[t] = "releasing"
    /\ watching' = watching \ {watcher}
    /\ watcher' = None
    /\ blocking' = blocking \ {suppressors}
    /\ suppressors' = None
    /\ target' = [target EXCEPT ![t] = thread]
    /\ Goes(t, IF thread = None THEN "finishing" ELSE "joining")
    /\ UNCHANGED <<active, stop, thread, ready, locks, dimmer, screen, session, lapses>>

\* The listeners are stopped, those the fields still name, and the overlay told.
DisableReleases(t) ==
    /\ pc[t] = "releasing"
    /\ watching' = watching \ {watcher}
    /\ watcher' = None
    /\ blocking' = blocking \ {suppressors}
    /\ suppressors' = None
    /\ stop' = TRUE
    /\ target' = [target EXCEPT ![t] = thread]
    /\ Goes(t, IF thread = None THEN "finishing" ELSE "joining")
    /\ UNCHANGED <<active, thread, ready, locks, dimmer, screen, session, lapses>>

\* The join ends with the overlay, or after its five seconds.  What it joined
\* is asked of the field again, which another disable may have emptied.
DisableJoins(t) ==
    /\ pc[t] = "joining"
    /\ overlay[target[t]] = "gone" \/ "slow" \in Faults
    /\ target' = [target EXCEPT ![t] = None]
    /\ Goes(t, IF thread = None THEN "raised" ELSE "finishing")
    /\ UNCHANGED <<active, stop, thread, ready, locks, dimmer, keys, screen,
                   session, lapses>>

DisableFinishes(t) ==
    /\ pc[t] = "finishing"
    /\ thread' = None
    /\ active' = FALSE
    /\ Goes(t, "done")
    /\ UNCHANGED <<stop, ready, locks, dimmer, keys, screen, target, session, lapses>>

-----------------------------------------------------------------------------
(* Who calls.                                                              *)

\* The receive loop hands the message to a worker thread and awaits it.
OperatorBlanks(c) ==
    /\ conn = "up" /\ handling = None
    /\ pc[c] = "idle"
    /\ handling' = c
    /\ Goes(c, IF c \in Enables THEN "called" ELSE "disabling")
    /\ UNCHANGED <<active, stop, thread, ready, locks, dimmer, keys, screen,
                   target, conn, connects, lapses>>

HandlerReturns ==
    /\ handling # None
    /\ pc[handling] \in {"watching", "done", "raised"}
    /\ handling' = None
    /\ UNCHANGED <<active, stop, thread, ready, locks, dimmer, keys, screen, pc,
                   target, conn, connects, lapses>>

EscapePressed(k) ==
    /\ pc[k] = "idle"
    /\ blocking \cup watching # {}
    /\ Goes(k, "disabling")
    /\ UNCHANGED <<active, stop, thread, ready, locks, dimmer, keys, screen,
                   target, session, lapses>>

\* The connection ends: the receive task is cancelled, its worker is not, and
\* _close_tools releases the blank.
ConnectionEnds ==
    /\ conn = "up"
    /\ conn' = "closing"
    /\ handling' = None
    /\ Goes(Loop, "disabling")
    /\ UNCHANGED <<active, stop, thread, ready, locks, dimmer, keys, screen,
                   target, connects, lapses>>

ToolsClosed ==
    /\ conn = "closing"
    /\ pc[Loop] \in {"done", "raised"}
    /\ conn' = "down"
    /\ UNCHANGED <<active, stop, thread, ready, locks, dimmer, keys, screen, pc,
                   target, handling, connects, lapses>>

Reconnect ==
    /\ conn = "down"
    /\ connects < Reconnects
    /\ connects' = connects + 1
    /\ conn' = "up"
    /\ UNCHANGED <<active, stop, thread, ready, locks, dimmer, keys, screen, pc,
                   target, handling, lapses>>

\* A guard outsleeps the watchdog of its own enable by fifteen seconds.  Its
\* xrandr may fail as well.
GuardFires(e) ==
    /\ guards[e] # None
    /\ pc[e] \notin {"darkening", "saving", "dimmed", "watching"}
    /\ \/ level' = guards[e] /\ lapses' = lapses
       \/ "dimmer" \in Faults /\ level' = level /\ lapses' = lapses \cup {"restore"}
    /\ guards' = [guards EXCEPT ![e] = None]
    /\ UNCHANGED <<active, stop, thread, ready, locks, dims, saved, guard, keys,
                   overlay, bound, kind, pc, target, session>>

\* The agent dies at any point and is started again: windows and listeners go
\* with it, the brightness and the guards do not.
Crashes ==
    /\ "crash" \in Faults
    /\ active' = FALSE /\ stop' = FALSE /\ thread' = None /\ ready' = None
    /\ dims' = (kind = "dim")
    /\ locks' = (kind = "lock")
    /\ saved' = None /\ guard' = None
    /\ suppressors' = None /\ blocking' = {} /\ watcher' = None /\ watching' = {}
    /\ overlay' = [e \in Enables |-> IF overlay[e] = "none" THEN "none" ELSE "gone"]
    /\ pc' = [t \in Threads |-> IF pc[t] = "idle" THEN "idle" ELSE "done"]
    /\ target' = [t \in Threads |-> None]
    /\ conn' = "down" /\ handling' = None
    /\ bound' = {}
    /\ lapses' = lapses \cup {"crash"}
    /\ UNCHANGED <<kind, level, guards, connects>>

-----------------------------------------------------------------------------
Init ==
    /\ kind \in Kinds
    /\ active = FALSE /\ stop = FALSE /\ thread = None /\ ready = None
    /\ dims = (kind = "dim") /\ locks = (kind = "lock")
    /\ suppressors = None /\ blocking = {} /\ watcher = None /\ watching = {}
    /\ overlay = [e \in Enables |-> "none"] /\ bound = {}
    /\ level = "lit" /\ saved = None /\ guard = None
    /\ guards = [e \in Enables |-> None]
    /\ pc = [t \in Threads |-> "idle"]
    /\ target = [t \in Threads |-> None]
    /\ conn = "up" /\ handling = None /\ connects = 0 /\ lapses = {}

\* The steps a thread takes once it has been called.
EnableGoesOn(e) ==
    \/ EnableStarts(e) \/ DimArms(e) \/ DimCannotRead(e) \/ DimDarkens(e)
    \/ DimSaves(e) \/ DimRaises(e) \/ DimFails(e) \/ DimSucceeds(e)
    \/ EnableSpawns(e) \/ EnableGets(e)
    \/ EnableTimesOut(e) \/ EnableFails(e) \/ EnableSucceeds(e) \/ BlocksLocalInput(e)
    \/ WatchdogEnds(e) \/ WatchdogExpires(e)

DisableGoesOn(t) ==
    \/ DisableStarts(t) \/ DimmerRelights(t) \/ DimmerClears(t)
    \/ DisableReleases(t) \/ DisableJoins(t) \/ DisableFinishes(t)

OverlayGoesOn(e) == OverlayReports(e) \/ OverlayPolls(e)

Next ==
    \/ \E e \in Enables : \/ EnableGoesOn(e) \/ OverlayGoesOn(e)
                          \/ OverlayFails(e) \/ OverlayHearsEscape(e)
                          \/ GuardFires(e)
    \/ \E t \in Threads : DisableGoesOn(t)
    \/ \E c \in Workers : OperatorBlanks(c)
    \/ \E k \in Escapes : EscapePressed(k)
    \/ HandlerReturns \/ ConnectionEnds \/ ToolsClosed \/ Reconnect \/ Crashes

Spec == Init /\ [][Next]_vars

\* Every thread that may run runs, every deadline passes.
Fairness ==
    /\ \A e \in Enables : /\ WF_vars(EnableGoesOn(e)) /\ WF_vars(OverlayGoesOn(e))
                          /\ WF_vars(GuardFires(e))
    /\ \A t \in Threads : WF_vars(DisableGoesOn(t))
    /\ WF_vars(ToolsClosed)

FairSpec == Spec /\ Fairness

-----------------------------------------------------------------------------
(* Properties.                                                             *)

Enabling == Starting \cup {"blocking"}
Disabling == Undoing \cup {"disabling"}

Positions == Enabling \cup Disabling \cup {"idle", "called", "watching", "raised", "done"}
Overlays == {"none", "mapped", "stuck", "up", "gone"}
Levels == {"lit", "dark"}
Results == {"up", "failed"}
Connections == {"up", "closing", "down"}
Lapses == {"guard", "restore", "darken", "misread", "overlap", "crash"}

FieldsOK ==
    /\ active \in BOOLEAN /\ stop \in BOOLEAN
    /\ thread \in Enables \cup {None}
    /\ ready \in Results \cup {None}
    /\ dims \in BOOLEAN /\ locks \in BOOLEAN

KeysOK ==
    /\ suppressors \in Enables \cup {None} /\ blocking \subseteq Enables
    /\ watcher \in Enables \cup {None} /\ watching \subseteq Enables

ScreenOK ==
    /\ overlay \in [Enables -> Overlays]
    /\ bound \subseteq Enables /\ kind \in Kinds
    /\ level \in Levels /\ saved \in Levels \cup {None}
    /\ guard \in Enables \cup {None}
    /\ guards \in [Enables -> Levels \cup {None}]

ThreadsOK ==
    /\ pc \in [Threads -> Positions]
    /\ target \in [Threads -> Enables \cup Levels \cup {None}]

SessionOK ==
    /\ conn \in Connections
    /\ handling \in Workers \cup {None} /\ connects \in 0..Reconnects

LapsesOK == lapses \subseteq Lapses

\* Every field and every thread holds a value its code can give it.
TypeOK == FieldsOK /\ KeysOK /\ ScreenOK /\ ThreadsOK /\ SessionOK /\ LapsesOK

\* What the code has no answer to: an xrandr that fails to light the display
\* again, or darkens it and then raises; a dim that finds the display still dark
\* and takes that for how it was; blanks and releases that overlap; a guard that
\* could not be started, once the agent has died as well.
BeyondRepair ==
    \/ lapses \cap {"restore", "darken", "misread", "overlap"} # {}
    \/ {"guard", "crash"} \subseteq lapses

\* The blank remembers how the display was, and is on or about to be.
Remembered ==
    \/ saved = "lit" /\ (active \/ \E e \in Enables : pc[e] = "dimmed")
    \/ \E e \in Enables : pc[e] = "saving" /\ target[e] = "lit"

\* A display that is dark is one that the blank, or a guard process that
\* outlives the agent, knows how to light again, and one of the two is enough:
\* at no point of dim, restore, a failure or a crash is it dark with nothing to
\* bring it back, unless something happened the code has no answer to.
DarkIsBounded ==
    level = "dark" => Remembered \/ (\E e \in Enables : guards[e] = "lit") \/ BeyondRepair

\* A blank that nobody has told to stop has a thread that will: a watchdog, or
\* a call of enable or disable that has not returned.
CeilingStands ==
    active /\ ~stop => \/ \E e \in Enables : pc[e] \in Enabling \cup {"watching"}
                      \/ \E t \in Threads : pc[t] \in Disabling

\* Whatever happens to the operator, the connection and the agent, a screen
\* that was covered by a window is seen again, and one that was darkened is lit
\* again unless something happened the code has no answer to.
ScreenComesBack ==
    /\ Covered # {} ~> Covered = {}
    /\ level = "dark" ~> level = "lit" \/ BeyondRepair

\* As dimmer.py has it, there is no moment where the screen is dark and nothing
\* is set to bring it back.
DarkIsAlwaysBounded ==
    level = "dark" => saved = "lit" \/ \E e \in Enables : guards[e] = "lit"

\* As the module's docstring has it, every blank is released when the session
\* ends or the connection drops.
BlankEndsWithSession == conn = "down" => ~active

\* When every thread has returned or is a watchdog and the blank says it is
\* off, local input is back: there is always a ceiling on a block, and once the
\* blank is off neither a watchdog nor Escape reaches the listeners any more.
InputComesBack ==
    ~active /\ (\A t \in Threads : pc[t] \notin Enabling \cup Disabling) => blocking = {}
=============================================================================
