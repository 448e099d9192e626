----------------------------- MODULE DaemonLoop -----------------------------
(***************************************************************************)
(* daemon/loop.ts: startDaemon, stopDaemon, the interval timer, the ticks  *)
(* it fires and the monitoring cycles they run, with the module-level      *)
(* variables that hold them together.                                      *)
(*                                                                         *)
(* Node runs one callback at a time, so an action is the code between two  *)
(* awaits on the network.  A flow is an asynchronous call in progress: an  *)
(* invocation of startDaemon, which runs the first cycle itself, or a      *)
(* tick.  A tick that finds cycleInFlight set changes nothing and is a     *)
(* stuttering step.  Clocks are abstracted to "the digest interval has     *)
(* elapsed"; awaits that end within the same turn (initTracing) are part   *)
(* of the step they follow.                                                *)
(***************************************************************************)
EXTENDS Naturals, FiniteSets

CONSTANTS
  Starts,      \* the invocations of startDaemon
  Ticks,       \* bound: the ticks that may be in progress together
  NoTimer      \* the null of intervalHandle

ASSUME LoopAssumption ==
  /\ Starts \cap Ticks = {}
  /\ NoTimer \notin Starts

VARIABLES
  patient,         \* the caller waits for startDaemon to return before it calls
                   \* startDaemon or stopDaemon again, and for the last cycle
                   \* to finish before it restarts; chosen once
  hasDigest,       \* digest_configs has an enabled webhook; chosen once
  pc,              \* pc[f]: where flow f is
  cycleInFlight,   \* the re-entrance guard
  intervalHandle,  \* the timer stopDaemon would clear
  armed,           \* the timers the event loop will fire
  digestDue,       \* digestIntervalMs have passed since lastDigestAt
  stopped,         \* stopDaemon was called and startDaemon not since
  alive            \* the process runs

settings == <<patient, hasDigest>>
loopVars == <<settings, pc, cycleInFlight, intervalHandle, armed, digestDue, stopped, alive>>

Flows == Starts \cup Ticks
InCycle == {f \in Flows : pc[f] \in {"monitor", "deliver"}}
Starting == {s \in Starts : pc[s] \in {"monitor", "deliver"}}

Goto(f, l) == pc' = [pc EXCEPT ![f] = l]

LoopInit ==
  /\ patient \in BOOLEAN /\ hasDigest \in BOOLEAN
  /\ pc = [f \in Flows |-> IF f \in Starts THEN "new" ELSE "idle"]
  /\ cycleInFlight = FALSE
  /\ intervalHandle = NoTimer
  /\ armed = {}
  /\ digestDue = FALSE
  /\ stopped = FALSE
  /\ alive = TRUE

-----------------------------------------------------------------------------
(* Mutant: the handle is forgotten but the timer not cleared. *)
ForgetTimer == UNCHANGED armed /\ intervalHandle' = NoTimer

(* stopDaemon: clears the timer it knows of, if any; the guard and the     *)
(* flows in progress are left alone.                                       *)
ClearTimer ==
  /\ armed' = armed \ {intervalHandle}
  /\ intervalHandle' = NoTimer

Start(s) ==
  /\ pc[s] = "new"
  /\ patient => Starting = {} /\ InCycle = {}
  /\ ClearTimer
  /\ digestDue' = FALSE
  /\ cycleInFlight' = TRUE
  /\ Goto(s, "monitor")
  /\ stopped' = FALSE
  /\ UNCHANGED <<settings, alive>>

Stop ==
  /\ patient => Starting = {}
  /\ ClearTimer
  /\ stopped' = TRUE
  /\ UNCHANGED <<settings, pc, cycleInFlight, digestDue, alive>>

(* Time passes. *)
DigestComesDue ==
  /\ ~digestDue
  /\ digestDue' = TRUE
  /\ UNCHANGED <<settings, pc, cycleInFlight, intervalHandle, armed, stopped, alive>>

-----------------------------------------------------------------------------
(* Mutant: the tick does not look at the guard. *)
TickUnguarded(k) == pc[k] = "idle" /\ armed # {}

(* scheduledTick.  executeCycle raises the guard, not the tick. *)
TickAllowed(k) == pc[k] = "idle" /\ armed # {} /\ ~cycleInFlight

(* The digest is not due, or there is nobody to send it to (the interval   *)
(* starts again), or building it throws (it does not).                     *)
TickStraight(k) ==
  /\ TickAllowed(k)
  /\ cycleInFlight' = TRUE
  /\ Goto(k, "monitor")
  /\ \/ ~digestDue /\ UNCHANGED digestDue
     \/ digestDue /\ ~hasDigest /\ digestDue' = FALSE
     \/ digestDue /\ hasDigest /\ UNCHANGED digestDue
  /\ UNCHANGED <<settings, intervalHandle, armed, stopped, alive>>

(* The digest is due: the tick awaits one POST per webhook. *)
TickDigest(k) ==
  /\ TickAllowed(k)
  /\ digestDue /\ hasDigest
  /\ Goto(k, "digest")
  /\ UNCHANGED <<settings, cycleInFlight, intervalHandle, armed, digestDue, stopped, alive>>

(* The last POST has been answered or has timed out: on to executeCycle.   *)
DigestSent(k) ==
  /\ pc[k] = "digest"
  /\ digestDue' = FALSE
  /\ cycleInFlight' = TRUE
  /\ Goto(k, "monitor")
  /\ UNCHANGED <<settings, intervalHandle, armed, stopped, alive>>

(* vacuumDatabase, called before the digest, rethrows any error but busy;  *)
(* nothing catches the tick's rejection and node ends the process.         *)
VacuumThrows(k) ==
  /\ TickAllowed(k)
  /\ alive' = FALSE
  /\ armed' = {}
  /\ UNCHANGED <<settings, pc, cycleInFlight, intervalHandle, digestDue, stopped>>

-----------------------------------------------------------------------------
(* runMonitorCycle has resolved: on to deliverPendingAlerts. *)
Monitored(f) ==
  /\ pc[f] = "monitor"
  /\ Goto(f, "deliver")
  /\ UNCHANGED <<settings, cycleInFlight, intervalHandle, armed, digestDue, stopped, alive>>

(* Mutant: the guard stays up after the cycle. *)
FinishUnlowered(f, from) ==
  /\ pc[f] = from
  /\ UNCHANGED cycleInFlight
  /\ \/ /\ f \in Starts
        /\ intervalHandle' = f /\ armed' = armed \cup {f} /\ Goto(f, "returned")
     \/ /\ f \in Ticks
        /\ Goto(f, "idle") /\ UNCHANGED <<intervalHandle, armed>>
  /\ UNCHANGED <<settings, digestDue, stopped, alive>>

(* The finally block lowers the guard; the first cycle of startDaemon is   *)
(* followed by setInterval.                                                *)
Finish(f, from) ==
  /\ pc[f] = from
  /\ cycleInFlight' = FALSE
  /\ \/ /\ f \in Starts
        /\ intervalHandle' = f /\ armed' = armed \cup {f} /\ Goto(f, "returned")
     \/ /\ f \in Ticks
        /\ Goto(f, "idle") /\ UNCHANGED <<intervalHandle, armed>>
  /\ UNCHANGED <<settings, digestDue, stopped, alive>>

(* runMonitorCycle rejects: delivery and snapshots are skipped. *)
MonitorFails(f) == Finish(f, "monitor")

(* deliverPendingAlerts is over, or threw; the snapshots and onCycle cannot *)
(* fail the cycle either.                                                   *)
Delivered(f) == Finish(f, "deliver")

Tick(k) == TickStraight(k) \/ TickDigest(k)
Advance(f) == Monitored(f) \/ MonitorFails(f) \/ Delivered(f)

LoopNext ==
  /\ alive
  /\ \/ \E s \in Starts : Start(s)
     \/ Stop
     \/ DigestComesDue
     \/ \E k \in Ticks : Tick(k) \/ DigestSent(k) \/ VacuumThrows(k)
     \/ \E f \in Flows : Advance(f)

(* Timers fire, and every await of a cycle or a digest ends: channel sends *)
(* and digests have timeouts, an RPC call tries each endpoint once and the *)
(* transport ends it, polling gives up after 30 attempts.                  *)
LoopFairness ==
  /\ WF_loopVars(alive /\ \E k \in Ticks : Tick(k))
  /\ \A k \in Ticks : WF_loopVars(alive /\ DigestSent(k))
  /\ \A f \in Flows : WF_loopVars(alive /\ Advance(f))

LoopSpec == LoopInit /\ [][LoopNext]_loopVars
LoopFairSpec == LoopSpec /\ LoopFairness

-----------------------------------------------------------------------------
(* Type invariant of the loop's variables. *)
LoopTypeOK ==
  /\ pc \in [Flows -> {"new", "idle", "digest", "monitor", "deliver", "returned"}]
  /\ \A s \in Starts : pc[s] \in {"new", "monitor", "deliver", "returned"}
  /\ \A k \in Ticks : pc[k] \in {"idle", "digest", "monitor", "deliver"}
  /\ cycleInFlight \in BOOLEAN
  /\ intervalHandle \in Starts \cup {NoTimer}
  /\ armed \subseteq Starts
  /\ patient \in BOOLEAN /\ hasDigest \in BOOLEAN
  /\ digestDue \in BOOLEAN /\ stopped \in BOOLEAN /\ alive \in BOOLEAN

(* The setting in which the loop promises most: a patient caller, and no    *)
(* digests to wait for.                                                     *)
Calm == patient /\ ~hasDigest

(* What the guard is for: "prevents a new tick from starting while the     *)
(* previous cycle is still running" (docs/ARCHITECTURE.md:57).  It does so *)
(* in the calm setting, and not otherwise.                                 *)
AtMostOneCycle == Calm => Cardinality(InCycle) <= 1

(* The guard is up only while some cycle really runs, whatever overlaps:   *)
(* no failed or abandoned cycle leaves it up and silences the daemon.      *)
GuardIsHonest == cycleInFlight => InCycle # {}

(* In the calm setting the guard says exactly whether a cycle runs.        *)
GuardIsExact == cycleInFlight <=> InCycle # {}

(* "Calling startDaemon while a daemon is already running will stop the    *)
(* previous loop first (kills the old timer)": one loop at a time, in the  *)
(* calm setting.                                                           *)
OneTimer == Calm => Cardinality(armed) <= 1

(* Every tick fired belongs to a daemon that was not stopped ("no new      *)
(* cycle will be scheduled after it", doc comment of stopDaemon), in the   *)
(* calm setting: a timer armed after the stop is fired all the same.       *)
NoTickAfterStop ==
  [][Calm /\ stopped => \A k \in Ticks : pc[k] = "idle" => pc'[k] = "idle"]_loopVars

(* A daemon whose timer stays armed never stops monitoring, whatever the   *)
(* caller does and whatever fails.                                         *)
KeepsMonitoring ==
  <>[](alive /\ armed # {}) => []<>(\E f \in Flows : pc[f] = "monitor")

(* A raised guard comes down again, so skipped ticks are not the last.     *)
GuardComesDown == cycleInFlight ~> ~cycleInFlight \/ ~alive
=============================================================================
