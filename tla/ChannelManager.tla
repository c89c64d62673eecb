--------------------------- MODULE ChannelManager ---------------------------
(***************************************************************************)
(* The shared channel table of src/upstream/mod.rs: one record per         *)
(* configured upstream, its health, and the circuit breaker that decides   *)
(* whether the channel may be tried again.                                 *)
(*                                                                         *)
(* The table is an Arc<RwLock<Vec<Channel>>> that every request and the    *)
(* health checker share.  Each mark runs under the write lock and does not *)
(* await, so a mark is one atomic action; ManagerNext lets any caller mark *)
(* any channel at any time, which is all this module assumes of them.      *)
(*                                                                         *)
(* `last_success` is left out: the program writes it and never reads it.   *)
(* `id` is left out too: it is the index of the record in the table.       *)
(***************************************************************************)
EXTENDS Integers

CONSTANTS
  NChannels,     \* number of configured upstreams
  MaxFailures,   \* where failure_count saturates: u32::MAX in the program
  MaxClock,      \* bound: the last second of the modelled run
  TimeSteps      \* bound: the amounts by which the clock may advance

ASSUME ManagerAssumption ==
  /\ NChannels \in Nat
  /\ MaxFailures \in Nat \ {0}
  /\ MaxClock \in Nat
  /\ TimeSteps \subseteq Nat \ {0}

VARIABLES
  channels,      \* the table: a Channel for every id
  clock          \* std::time::Instant::now(), in whole seconds

managerVars == <<channels, clock>>

Ids == 0 .. NChannels - 1
NoTime == -1     \* Option::None of an Instant
Health == {"Healthy", "Unhealthy", "Unknown"}

Channel == [health        : Health,
            failure_count : 0 .. MaxFailures,
            last_failure  : Nat \cup {NoTime}]

NewChannel == [health |-> "Unknown", failure_count |-> 0, last_failure |-> NoTime]

ManagerInit ==
  /\ channels = [id \in Ids |-> NewChannel]
  /\ clock = 0

-----------------------------------------------------------------------------
(* The circuit breaker.                                                    *)

\* Seconds a channel is left alone after n consecutive failures, written out
\* as a table (entry n + 1 is 3^n): 3^n up to five failures, then 300.  n is at least 1 whenever it is consulted.
\* Mutants: 3^(n-1); the cap of 300 left out.
BackoffOffByOne(n) == IF n > 5 THEN 300 ELSE <<1, 1, 3, 9, 27, 81>>[n + 1]
BackoffUncapped(n) == IF n > 5 THEN 729 ELSE <<1, 3, 9, 27, 81, 243>>[n + 1]
Backoff(n) == IF n > 5 THEN 300 ELSE <<1, 3, 9, 27, 81, 243>>[n + 1]

\* A channel that is not Unhealthy is usable; an Unhealthy one is usable once
\* its backoff window has elapsed.
ShouldRetry(ch, now) ==
  \/ ch.health # "Unhealthy"
  \/ ch.last_failure = NoTime
  \/ now - ch.last_failure >= Backoff(ch.failure_count)

-----------------------------------------------------------------------------
(* The operations on a record and on the table.                            *)

\* Channel::mark_healthy.  Mutants: the count is left; the failure time is
\* forgotten.
HealedKeepsCount(ch) == [ch EXCEPT !.health = "Healthy"]
HealedForgets(ch) == [NewChannel EXCEPT !.health = "Healthy"]
Healed(ch) ==
  [health        |-> "Healthy",
   failure_count |-> 0,
   last_failure  |-> ch.last_failure]

\* u32::saturating_add(1).  Mutants: wrapping_add; no limit.
WrappingInc(n) == (n + 1) % (MaxFailures + 1)
UnboundedInc(n) == n + 1
SaturatingInc(n) == IF n = MaxFailures THEN n ELSE n + 1

\* Channel::mark_unhealthy.
Failed(ch, now) ==
  [health        |-> "Unhealthy",
   failure_count |-> SaturatingInc(ch.failure_count),
   last_failure  |-> now]

\* ChannelManager::mark_healthy and mark_unhealthy, under the write lock.
MarkHealthy(id) == channels' = [channels EXCEPT ![id] = Healed(@)]
MarkUnhealthy(id) == channels' = [channels EXCEPT ![id] = Failed(@, clock)]

\* Real time passes.
Tick ==
  /\ \E d \in TimeSteps : clock + d <= MaxClock /\ clock' = clock + d
  /\ UNCHANGED channels

Mark(id) ==
  /\ MarkHealthy(id) \/ MarkUnhealthy(id)
  /\ UNCHANGED clock

ManagerNext == (\E id \in Ids : Mark(id)) \/ Tick

ManagerSpec == ManagerInit /\ [][ManagerNext]_managerVars

-----------------------------------------------------------------------------
(* Properties.                                                             *)

\* Every field stays in its machine range; in particular failure_count never
\* leaves u32 (Channel, mark_unhealthy).
ManagerTypeOK ==
  /\ channels \in [Ids -> Channel]
  /\ clock \in 0 .. MaxClock

\* The three fields of a record tell one story, whatever the order in which
\* requests and probes mark it: a channel is Unhealthy exactly while it has
\* failures since its last success, it then has a failure time, and no
\* failure time lies in the future.
RecordCoherent ==
  \A id \in Ids :
    LET ch == channels[id] IN
    /\ ch.health = "Unhealthy" <=> ch.failure_count > 0
    /\ ch.health = "Unhealthy" => ch.last_failure # NoTime
    /\ ch.last_failure <= clock

\* A failed channel is isolated for at least three seconds, at every failure
\* count, the saturated one included (should_retry, backoff).
FailureIsolates ==
  \A id \in Ids :
    /\ channels[id].health = "Unhealthy"
    /\ clock - channels[id].last_failure < 3
    => ~ShouldRetry(channels[id], clock)

\* ... and never for longer than 300 seconds: "a recovered node is
\* periodically re-probed rather than abandoned" (should_retry).
NeverAbandoned ==
  \A id \in Ids :
    clock - channels[id].last_failure >= 300 => ShouldRetry(channels[id], clock)

RetryAt(ch) == ch.last_failure + Backoff(ch.failure_count)

\* A further failure never brings the end of the isolation forward, not even
\* where the counter saturates (mark_unhealthy's saturating_add).
BackoffNeverShrinks ==
  [][\A id \in Ids :
       /\ channels[id].health = "Unhealthy"
       /\ channels'[id].health = "Unhealthy"
       => RetryAt(channels'[id]) >= RetryAt(channels[id])]_managerVars
=============================================================================
