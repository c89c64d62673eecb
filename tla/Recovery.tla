------------------------------ MODULE Recovery ------------------------------
(***************************************************************************)
(* The channel table against the truth, in real time: upstreams go down    *)
(* and come back, the health checker (src/upstream/health.rs and the three *)
(* probes) finds out, and requests mark channels too, fairly or not.       *)
(*                                                                         *)
(* Time advances only when no task is ready: a finished probe is joined,   *)
(* and a pass that is due is started, at the instant it can be.            *)
(***************************************************************************)
EXTENDS ChannelManager

CONSTANTS
  Flaky,            \* the channels that fail and are used; the others are up
  ConnectTimeout,   \* configuration connect_timeout, in seconds
  ProbeInterval     \* configuration probe_interval, in seconds

ASSUME RecoveryAssumption ==
  /\ Flaky \subseteq Ids
  /\ ConnectTimeout \in Nat \ {0} /\ ProbeInterval \in Nat \ {0}

VARIABLES
  up,        \* up[c]: the upstream accepts connections
  changed,   \* history: when that last changed
  marked,    \* history: when a request last marked the channel
  attempt,   \* attempt[c]: "none", or a request is trying the channel: "doomed"
             \* if the upstream has been down ever since, else "hopeful"
  checker,   \* "start", "probing" or "idle"
  due,       \* when the ticker fires next; NoTime until it is created
  began,     \* when the current pass began
  probe,     \* probe[c]: "none", "running", or its result "up" or "down"
  seen       \* seen[c]: the states of the upstream since the pass began

worldVars == <<up, changed, attempt>>
checkVars == <<checker, due, began, probe>>
vars == <<channels, clock, worldVars, marked, checkVars, seen>>

Init ==
  /\ ManagerInit
  /\ up \in [Ids -> BOOLEAN] /\ \A c \in Ids \ Flaky : up[c]
  /\ changed = [c \in Ids |-> 0] /\ marked = [c \in Ids |-> 0]
  /\ attempt = [c \in Ids |-> "none"]
  /\ checker = "start" /\ due = NoTime /\ began = 0
  /\ probe = [c \in Ids |-> "none"] /\ seen = [c \in Ids |-> {up[c]}]

-----------------------------------------------------------------------------
(* The world.                                                              *)

Flip(c) ==
  /\ c \in Flaky
  /\ up' = [up EXCEPT ![c] = ~ @] /\ changed' = [changed EXCEPT ![c] = clock]
  /\ seen' = [seen EXCEPT ![c] = @ \cup {~ up[c]}]
  /\ attempt' = [attempt EXCEPT ![c] = IF @ = "doomed" THEN "hopeful" ELSE @]
  /\ UNCHANGED <<channels, clock, marked, checkVars>>

\* A request starts on the channel, maybe by an old copy of the table.
Attempt(c) ==
  /\ c \in Flaky /\ attempt[c] = "none"
  /\ attempt' = [attempt EXCEPT ![c] = IF up[c] THEN "hopeful" ELSE "doomed"]
  /\ UNCHANGED <<channels, clock, up, changed, marked, checkVars, seen>>

\* It ends after any time: well only if the upstream was up meanwhile, badly
\* for reasons of its own too (a rejected password, a target that is down).
AttemptEnds(c) ==
  /\ attempt[c] # "none"
  /\ MarkUnhealthy(c) \/ (attempt[c] = "hopeful" /\ MarkHealthy(c))
  /\ attempt' = [attempt EXCEPT ![c] = "none"]
  /\ marked' = [marked EXCEPT ![c] = clock]
  /\ UNCHANGED <<clock, up, changed, checkVars, seen>>

-----------------------------------------------------------------------------
(* start_health_checker and run_check.                                     *)

Due == checker = "start" \/ (checker = "idle" /\ clock >= due)

\* One probe per channel, all at once; the ticker makes up for missed ticks.
\* Mutant: channels that are backing off are not probed.
StartCheckUsable ==
  /\ Due /\ checker' = "probing" /\ began' = clock
  /\ due' = IF checker = "start" THEN due ELSE due + ProbeInterval
  /\ probe' = [c \in Ids |-> IF ShouldRetry(channels[c], clock) THEN "running" ELSE "none"]
  /\ seen' = [c \in Ids |-> {up[c]}]
  /\ UNCHANGED <<channels, clock, worldVars, marked>>
StartCheck ==
  /\ Due /\ checker' = "probing" /\ began' = clock
  /\ due' = IF checker = "start" THEN due ELSE due + ProbeInterval
  /\ probe' = [c \in Ids |-> "running"]
  /\ seen' = [c \in Ids |-> {up[c]}]
  /\ UNCHANGED <<channels, clock, worldVars, marked>>

\* probe: a TCP connect under the timeout; it tells how the upstream was at
\* some moment of the pass.
ProbeEnds(c) ==
  /\ probe[c] = "running"
  /\ \E was \in seen[c] : probe' = [probe EXCEPT ![c] = IF was THEN "up" ELSE "down"]
  /\ UNCHANGED <<channels, clock, worldVars, marked, checker, due, began, seen>>

\* Mutant: failures are left to the requests to find.
JoinOnlyUp(c) ==
  /\ \/ probe[c] = "up" /\ MarkHealthy(c)
     \/ probe[c] = "down" /\ UNCHANGED channels
  /\ probe' = [probe EXCEPT ![c] = "none"]
  /\ UNCHANGED <<clock, worldVars, marked, checker, due, began, seen>>
JoinNext(c) ==
  /\ \/ probe[c] = "up" /\ MarkHealthy(c)
     \/ probe[c] = "down" /\ MarkUnhealthy(c)
  /\ probe' = [probe EXCEPT ![c] = "none"]
  /\ UNCHANGED <<clock, worldVars, marked, checker, due, began, seen>>

\* The pass is over with the last result; the ticker is created after the
\* first pass.
\* Mutant: with the first result.
PassOverEarly == checker = "probing" /\ \E c \in Ids : probe[c] = "none"
PassOver == checker = "probing" /\ \A c \in Ids : probe[c] = "none"
FinishCheck ==
  /\ PassOver
  /\ checker' = "idle"
  /\ due' = IF due = NoTime THEN clock + ProbeInterval ELSE due
  /\ UNCHANGED <<channels, clock, worldVars, marked, began, probe, seen>>

\* Nothing is ready, no probe outlives its timeout, no tick is late.
Elapse ==
  /\ Tick
  /\ ~ Due /\ ~ PassOver
  /\ checker = "idle" => clock' <= due
  /\ \A c \in Ids : probe[c] = "none" \/ (probe[c] = "running" /\ clock' <= began + ConnectTimeout)
  /\ UNCHANGED <<worldVars, marked, checkVars, seen>>

Next ==
  \/ \E c \in Ids : Flip(c) \/ Attempt(c) \/ AttemptEnds(c) \/ ProbeEnds(c) \/ JoinNext(c)
  \/ StartCheck \/ FinishCheck
  \/ Elapse

Spec == Init /\ [][Next]_vars

-----------------------------------------------------------------------------
(* Properties.                                                             *)

\* Types, and the checker's clockwork: probes run only in a pass, and a pass
\* is never longer than the timeout.
RecoveryTypeOK ==
  /\ ManagerTypeOK
  /\ up \in [Ids -> BOOLEAN] /\ seen \in [Ids -> SUBSET BOOLEAN]
  /\ changed \in [Ids -> 0 .. clock] /\ marked \in [Ids -> 0 .. clock]
  /\ attempt \in [Ids -> {"none", "doomed", "hopeful"}]
  /\ probe \in [Ids -> {"none", "running", "up", "down"}]
  /\ checker = "probing" => clock <= began + ConnectTimeout
  /\ checker # "probing" => probe = [c \in Ids |-> "none"]

\* The longest the table can be wrong: from the start of one pass to the
\* end of the next one.
Lag == ProbeInterval + 2 * ConnectTimeout

Later(s, t) == IF s > t THEN s ELSE t
Settled(c) == clock > Later(changed[c], marked[c]) + Lag

\* README:86 "failed lines are isolated automatically": an upstream that has
\* been down for the lag is Unhealthy, unless a request that was under way
\* has since succeeded on it.  A verdict that is stale when it is applied
\* does not outlive the next pass.
IsolatesInTime == \A c \in Ids : Settled(c) /\ ~ up[c] => channels[c].health = "Unhealthy"

\* "... and rejoin once they recover": an upstream that accepts connections
\* is Healthy again within the lag of its recovery and of the last request
\* that failed on it, however long its backoff and whatever the failure was:
\* one with a wrong password rejoins too.
RejoinsInTime == \A c \in Ids : Settled(c) /\ up[c] => channels[c].health = "Healthy"
=============================================================================
