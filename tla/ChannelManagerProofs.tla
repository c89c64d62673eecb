------------------------ MODULE ChannelManagerProofs ------------------------
(***************************************************************************)
(* The invariants of ChannelManager, for any number of channels, any       *)
(* saturation point of the failure counter and any run of the clock.       *)
(***************************************************************************)
EXTENDS ChannelManager, TLAPS

\* A backoff window is between 3 and 300 seconds once there is a failure.
LEMMA BackoffRange ==
  ASSUME NEW n \in Nat
  PROVE  /\ Backoff(n) \in 1 .. 300
         /\ n > 0 => Backoff(n) >= 3
<1>1. CASE n > 5
  BY <1>1 DEF Backoff
<1>2. CASE n \in 0 .. 5
  <2>1. n = 0 \/ n = 1 \/ n = 2 \/ n = 3 \/ n = 4 \/ n = 5
    BY <1>2
  <2>2. QED
    BY <2>1 DEF Backoff
<1>3. QED
  BY <1>1, <1>2

\* A further failure never shortens the window.
LEMMA BackoffMonotone ==
  ASSUME NEW n \in Nat
  PROVE  Backoff(n) <= Backoff(n + 1)
<1>1. CASE n > 5
  BY <1>1 DEF Backoff
<1>2. CASE n \in 0 .. 5
  <2>1. n = 0 \/ n = 1 \/ n = 2 \/ n = 3 \/ n = 4 \/ n = 5
    BY <1>2
  <2>2. QED
    BY <2>1 DEF Backoff
<1>3. QED
  BY <1>1, <1>2

\* The inductive invariant: types, and the coherence of each record.
ManagerInv == ManagerTypeOK /\ RecordCoherent

\* What one record must satisfy.
Coherent(ch) ==
  /\ ch.health = "Unhealthy" <=> ch.failure_count > 0
  /\ ch.health = "Unhealthy" => ch.last_failure # NoTime
  /\ ch.last_failure <= clock

\* A verdict applied to a coherent record gives a coherent record.
LEMMA VerdictKeepsRecord ==
  ASSUME NEW ch \in Channel, clock \in Nat, Coherent(ch)
  PROVE  /\ Healed(ch) \in Channel /\ Coherent(Healed(ch))
         /\ Failed(ch, clock) \in Channel /\ Coherent(Failed(ch, clock))
<1> USE ManagerAssumption DEF Channel, Coherent, NoTime, Health
<1>1. Healed(ch) \in Channel /\ Coherent(Healed(ch))
  BY DEF Healed
<1>2. /\ SaturatingInc(ch.failure_count) \in 0 .. MaxFailures
      /\ SaturatingInc(ch.failure_count) > 0
  BY DEF SaturatingInc
<1>3. Failed(ch, clock) \in Channel /\ Coherent(Failed(ch, clock))
  BY <1>2 DEF Failed
<1>4. QED
  BY <1>1, <1>3

\* A mark of any channel preserves the invariant.  Stated apart from the
\* specification because Dispatch's steps use it too.
LEMMA MarkKeepsInv ==
  ASSUME ManagerInv, NEW id \in Ids,
         MarkHealthy(id) \/ MarkUnhealthy(id), UNCHANGED clock
  PROVE  ManagerInv'
<1>1. /\ channels \in [Ids -> Channel]
      /\ clock \in 0 .. MaxClock /\ clock \in Nat
      /\ \A c \in Ids : Coherent(channels[c])
  BY ManagerAssumption DEF ManagerInv, ManagerTypeOK, RecordCoherent, Coherent
<1>2. PICK new \in {Healed(channels[id]), Failed(channels[id], clock)} :
        channels' = [channels EXCEPT ![id] = new]
  BY DEF MarkHealthy, MarkUnhealthy
<1>3. new \in Channel /\ Coherent(new)
  BY <1>1, <1>2, VerdictKeepsRecord
<1>4. channels' \in [Ids -> Channel] /\ \A c \in Ids : Coherent(channels'[c])
  BY <1>1, <1>2, <1>3
<1>5. QED
  BY <1>1, <1>4 DEF ManagerInv, ManagerTypeOK, RecordCoherent, Coherent

LEMMA TickKeepsInv ==
  ASSUME ManagerInv, Tick
  PROVE  ManagerInv'
BY ManagerAssumption DEF ManagerInv, ManagerTypeOK, RecordCoherent, Channel, Health, NoTime, Tick

LEMMA ManagerInitInv == ManagerInit => ManagerInv
BY ManagerAssumption
   DEF ManagerInit, ManagerInv, ManagerTypeOK, RecordCoherent, Channel, Health, NoTime, NewChannel

LEMMA ManagerInvariant == ManagerSpec => [](ManagerTypeOK /\ RecordCoherent)
<1>1. ManagerInit => ManagerInv
  BY ManagerInitInv
<1>2. ManagerInv /\ [ManagerNext]_managerVars => ManagerInv'
  <2> SUFFICES ASSUME ManagerInv, [ManagerNext]_managerVars
               PROVE  ManagerInv'
    OBVIOUS
  <2>1. ASSUME NEW id \in Ids, Mark(id)
        PROVE  ManagerInv'
    BY <2>1, MarkKeepsInv DEF Mark
  <2>2. CASE Tick
    BY <2>2, TickKeepsInv
  <2>3. CASE UNCHANGED managerVars
    BY <2>3 DEF managerVars, ManagerInv, ManagerTypeOK, RecordCoherent
  <2>4. QED
    BY <2>1, <2>2, <2>3 DEF ManagerNext
<1>3. ManagerInv => ManagerTypeOK /\ RecordCoherent
  BY DEF ManagerInv
<1>4. QED
  BY <1>1, <1>2, <1>3, PTL DEF ManagerSpec

\* Every field stays in its machine range, failure_count included.
THEOREM ManagerTypes == ManagerSpec => []ManagerTypeOK
BY ManagerInvariant, PTL

\* The fields of a record tell one story in every reachable state.
THEOREM RecordsStayCoherent == ManagerSpec => []RecordCoherent
BY ManagerInvariant, PTL

\* A failure isolates a channel for at least three seconds, whatever the count.
THEOREM FailureIsolatesAlways == ManagerSpec => []FailureIsolates
<1>1. ManagerTypeOK /\ RecordCoherent => FailureIsolates
  <2> SUFFICES ASSUME ManagerTypeOK, RecordCoherent, NEW id \in Ids,
                      channels[id].health = "Unhealthy",
                      clock - channels[id].last_failure < 3
               PROVE  ~ShouldRetry(channels[id], clock)
    BY DEF FailureIsolates
  <2>1. /\ channels[id].failure_count \in Nat \ {0}
        /\ channels[id].last_failure \in Nat
        /\ clock \in Nat
    BY ManagerAssumption DEF ManagerTypeOK, RecordCoherent, Channel, NoTime
  <2>2. Backoff(channels[id].failure_count) \in 3 .. 300
    BY <2>1, BackoffRange
  <2>3. QED
    BY <2>1, <2>2 DEF ShouldRetry, NoTime
<1>2. QED
  BY <1>1, ManagerInvariant, PTL

\* No channel is isolated for longer than 300 seconds after its last failure.
THEOREM NeverAbandonedAlways == ManagerSpec => []NeverAbandoned
<1>1. ManagerTypeOK => NeverAbandoned
  <2> SUFFICES ASSUME ManagerTypeOK, NEW id \in Ids,
                      clock - channels[id].last_failure >= 300
               PROVE  ShouldRetry(channels[id], clock)
    BY DEF NeverAbandoned
  <2>1. /\ channels[id].failure_count \in Nat
        /\ channels[id].last_failure \in Nat \cup {NoTime}
        /\ clock \in Nat
    BY ManagerAssumption DEF ManagerTypeOK, Channel
  <2>2. Backoff(channels[id].failure_count) \in 1 .. 300
    BY <2>1, BackoffRange
  <2>3. QED
    BY <2>1, <2>2 DEF ShouldRetry, NoTime
<1>2. QED
  BY <1>1, ManagerInvariant, PTL

\* While a channel stays failed, its next retry only moves later.
THEOREM BackoffNeverShrinksAlways == ManagerSpec => BackoffNeverShrinks
<1> DEFINE Later(id) ==
      /\ channels[id].health = "Unhealthy"
      /\ channels'[id].health = "Unhealthy"
      => RetryAt(channels'[id]) >= RetryAt(channels[id])
<1>1. ManagerTypeOK /\ RecordCoherent /\ [ManagerNext]_managerVars
        => [\A id \in Ids : Later(id)]_managerVars
  <2> SUFFICES ASSUME ManagerTypeOK, RecordCoherent, ManagerNext, NEW id \in Ids,
                      channels[id].health = "Unhealthy",
                      channels'[id].health = "Unhealthy"
               PROVE  RetryAt(channels'[id]) >= RetryAt(channels[id])
    BY DEF managerVars
  <2>1. /\ channels[id].failure_count \in 0 .. MaxFailures
        /\ channels[id].last_failure \in Nat
        /\ channels[id].last_failure <= clock
        /\ clock \in Nat
    BY ManagerAssumption DEF ManagerTypeOK, RecordCoherent, Channel, NoTime
  <2>2. \/ channels'[id] = channels[id]
        \/ /\ channels'[id].failure_count = SaturatingInc(channels[id].failure_count)
           /\ channels'[id].last_failure = clock
    <3>1. ASSUME NEW other \in Ids, MarkUnhealthy(other)
          PROVE  <2>2
      BY <3>1 DEF MarkUnhealthy, Failed, ManagerTypeOK, Channel
    <3>2. ASSUME NEW other \in Ids, MarkHealthy(other)
          PROVE  <2>2
      <4>1. CASE other = id
        BY <3>2, <4>1 DEF MarkHealthy, Healed, ManagerTypeOK, Channel
      <4>2. CASE other # id
        BY <3>2, <4>2 DEF MarkHealthy, Healed, ManagerTypeOK, Channel
      <4>3. QED
        BY <4>1, <4>2
    <3>3. CASE Tick
      BY <3>3 DEF Tick
    <3>4. QED
      BY <3>1, <3>2, <3>3 DEF ManagerNext, Mark
  <2>3. CASE channels'[id] = channels[id]
    <3>1. Backoff(channels[id].failure_count) \in Int
      BY <2>1, ManagerAssumption, BackoffRange
    <3>2. QED
      BY <2>1, <2>3, <3>1 DEF RetryAt
  <2>4. CASE /\ channels'[id].failure_count = SaturatingInc(channels[id].failure_count)
             /\ channels'[id].last_failure = clock
    <3> DEFINE n == channels[id].failure_count
    <3>1. n \in Nat
      BY <2>1, ManagerAssumption
    <3>2. SaturatingInc(n) \in {n, n + 1}
      BY <2>1 DEF SaturatingInc
    <3>3. /\ Backoff(n) \in Int
          /\ Backoff(n + 1) \in Int
          /\ Backoff(n) <= Backoff(n + 1)
      <4>1. n + 1 \in Nat
        BY <3>1
      <4>2. QED
        BY <3>1, <4>1, BackoffRange, BackoffMonotone
    <3>4. Backoff(SaturatingInc(n)) >= Backoff(n)
      BY <3>2, <3>3
    <3>5. Backoff(SaturatingInc(n)) \in Int
      BY <3>2, <3>3
    <3>6. QED
      BY <2>1, <2>4, <3>3, <3>4, <3>5 DEF RetryAt
  <2>5. QED
    BY <2>2, <2>3, <2>4
<1>2. QED
  BY <1>1, ManagerInvariant, PTL DEF ManagerSpec, BackoffNeverShrinks
=============================================================================
