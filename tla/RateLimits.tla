------------------------------ MODULE RateLimits ------------------------------
(***************************************************************************)
(* The two limiters: acquireSlot of the RPC client (rpc/client.ts), which  *)
(* reserves a time for each request in a sliding window of one second, and *)
(* ToolRateLimiter of the MCP server (mcp/rateLimiter.ts), which counts    *)
(* the calls of a tool in a fixed window of a minute.  Both are driven by  *)
(* the wall clock, here a number that only grows; their windows have the   *)
(* same length here.                                                       *)
(***************************************************************************)
EXTENDS Integers, Sequences, FiniteSets

CONSTANTS
  maxRequestsPerSecond,
  toolLimit,     \* requests a tool may get in a window
  Window,        \* the length of both windows
  MaxTime,       \* bound: the last time of the clock
  MaxSlots       \* bound: the requests and the calls

(* The constructor takes a limit of zero or less for five; both windows    *)
(* are a constant of the code.                                             *)
ASSUME RateAssumption ==
  /\ maxRequestsPerSecond \in Nat \ {0}
  /\ toolLimit \in Nat
  /\ Window \in Nat \ {0}

VARIABLES
  now,
  recentRequestTimes,  \* the client's list, times still to come included
  granted,             \* every time it gave out, in order
  toolWindow,          \* ToolRateLimiter: windowStart and count, or none
  consumed             \* the times tryConsume said yes

rateVars == <<now, recentRequestTimes, granted, toolWindow, consumed>>

RateInit ==
  /\ now = 0
  /\ recentRequestTimes = <<>> /\ granted = <<>>
  /\ toolWindow = <<>> /\ consumed = <<>>

(* The times that are still in the window, in the order of the list. *)
InWindow ==
  LET kept == {i \in DOMAIN recentRequestTimes : recentRequestTimes[i] > now - Window}
      nth(j) == CHOOSE i \in kept : Cardinality({h \in kept : h <= i}) = j
  IN  [j \in 1 .. Cardinality(kept) |-> recentRequestTimes[nth(j)]]

(* Mutant: the oldest time of the list makes room. *)
SlotAfterOldest(list) ==
  IF Len(list) < maxRequestsPerSecond THEN now ELSE list[1] + Window

(* The request waits until the one maxRequestsPerSecond before it, which   *)
(* may itself be still to come, falls out of the window.                   *)
Slot(list) ==
  IF Len(list) < maxRequestsPerSecond THEN now
  ELSE list[Len(list) - maxRequestsPerSecond + 1] + Window

acquireSlot ==
  /\ Len(granted) < MaxSlots
  /\ recentRequestTimes' = Append(InWindow, Slot(InWindow))
  /\ granted' = Append(granted, Slot(InWindow))
  /\ UNCHANGED <<now, toolWindow, consumed>>

(* A window that is over is replaced by one that begins now. *)
CurrentWindow ==
  IF toolWindow = <<>> \/ now - toolWindow[1] >= Window THEN <<now, 0>> ELSE toolWindow

tryConsume ==
  LET w == CurrentWindow IN
  /\ Len(consumed) < MaxSlots
  /\ IF w[2] >= toolLimit
     THEN toolWindow' = w /\ UNCHANGED consumed
     ELSE toolWindow' = <<w[1], w[2] + 1>> /\ consumed' = Append(consumed, now)
  /\ UNCHANGED <<now, recentRequestTimes, granted>>

Tick ==
  /\ now < MaxTime
  /\ now' = now + 1
  /\ UNCHANGED <<recentRequestTimes, granted, toolWindow, consumed>>

RateNext == acquireSlot \/ tryConsume \/ Tick

RateSpec == RateInit /\ [][RateNext]_rateVars

(* However many requests reserve ahead, no window of a second holds more   *)
(* than the limit; and the calls of a tool, counted from fixed points,     *)
(* never exceed twice the limit in a window.                               *)
RatesAreKept ==
  /\ \A i \in 1 .. Len(granted) - maxRequestsPerSecond :
       granted[i + maxRequestsPerSecond] - granted[i] >= Window
  /\ \A i \in 1 .. Len(consumed) - 2 * toolLimit :
       consumed[i + 2 * toolLimit] - consumed[i] >= Window
=============================================================================
