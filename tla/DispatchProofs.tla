--------------------------- MODULE DispatchProofs ---------------------------
(***************************************************************************)
(* The invariants of Dispatch and its refinement of Failover, for any      *)
(* number of channels, requests and targets, any hash, either strategy,    *)
(* direct_first or not, any faults and any probe interval.                 *)
(***************************************************************************)
EXTENDS Dispatch, ChannelManagerProofs

-----------------------------------------------------------------------------
(* The order of the walk.                                                  *)

\* Either strategy starts the walk inside a table that is not empty.
LEMMA StartInRange ==
  ASSUME NEW target \in Targets, NChannels > 0
  PROVE  StartIndex(target) \in Ids
<1>1. NChannels \in Nat \ {0} /\ HashOf[target] \in Nat
  BY ManagerAssumption, DispatchAssumption
<1>2. HashOf[target] % NChannels \in 0 .. NChannels - 1
  BY <1>1
<1>3. QED
  BY <1>1, <1>2 DEF StartIndex, HashIndex, Ids

\* rotate_left permutes the table: no channel is lost and none comes twice.
LEMMA RotationPermutes ==
  ASSUME NEW start \in Ids
  PROVE  /\ RotateLeft(start) \in [Ids -> Ids]
         /\ \A i, j \in Ids : RotateLeft(start)[i] = RotateLeft(start)[j] => i = j
BY ManagerAssumption DEF RotateLeft, Ids

LEMMA WalkPermutes ==
  ASSUME NEW target \in Targets
  PROVE  /\ OrderedChannels(target) \in [Ids -> Ids]
         /\ \A i, j \in Ids :
              OrderedChannels(target)[i] = OrderedChannels(target)[j] => i = j
<1>1. CASE NChannels = 0
  BY <1>1 DEF OrderedChannels, RotateLeft, Ids
<1>2. CASE NChannels > 0
  BY <1>2, StartInRange, RotationPermutes DEF OrderedChannels
<1>3. QED
  BY <1>1, <1>2, ManagerAssumption

\* The channel a task is at is a channel of the table.
LEMMA CurrentInRange ==
  ASSUME TypeOK, NEW r \in Requests, pos[r] < NChannels
  PROVE  Current(r) \in Ids
<1>1. req[r].target \in Targets /\ pos[r] \in Ids
  BY ManagerAssumption DEF TypeOK, Request, Ids
<1>2. QED
  BY <1>1, WalkPermutes DEF Current

-----------------------------------------------------------------------------
(* Types.                                                                  *)

LEMMA InitTypeOK == Init => TypeOK
<1> SUFFICES ASSUME Init
             PROVE  TypeOK
  OBVIOUS
<1>1. ManagerTypeOK
  BY ManagerInitInv DEF Init, ManagerInv
<1>2. NewChannel \in Channel
  BY ManagerAssumption DEF NewChannel, Channel, Health, NoTime
<1>3. QED
  BY <1>1, <1>2, ManagerAssumption
     DEF Init, TypeOK, Labels, AtChannel, Fates, Outcomes, NoSnapshot, NoTime

\* A mark of a channel, or a step that leaves table and clock alone, keeps
\* the table well formed and coherent.
LEMMA TableKept ==
  ASSUME ManagerInv, UNCHANGED clock,
         \/ UNCHANGED channels
         \/ \E id \in Ids : MarkHealthy(id) \/ MarkUnhealthy(id)
  PROVE  ManagerInv'
<1>1. CASE UNCHANGED channels
  BY <1>1 DEF ManagerInv, ManagerTypeOK, RecordCoherent
<1>2. ASSUME NEW id \in Ids, MarkHealthy(id) \/ MarkUnhealthy(id)
      PROVE  ManagerInv'
  BY <1>2, MarkKeepsInv
<1>3. QED
  BY <1>1, <1>2

\* What every step does to the table and the clock.
LEMMA StepKeepsTable ==
  ASSUME TypeOK, RecordCoherent, [Next]_vars
  PROVE  ManagerInv'
<1> USE DEF Apart
<1>0. ManagerInv
  BY DEF ManagerInv, TypeOK
<1>1. ASSUME NEW r \in Requests, RequestStep(r) \/ Accept(r) \/ Hang(r) \/ Abandon(r)
      PROVE  ManagerInv'
  <2>1. CASE ChannelTunnel(r) \/ ChannelForwarded(r) \/ ChannelFailed(r)
    <3>1. pos[r] < NChannels /\ UNCHANGED clock
      BY <2>1 DEF TypeOK, AtChannel, Established, ChannelTunnel, ChannelForwarded, ChannelFailed
    <3>2. MarkHealthy(Current(r)) \/ MarkUnhealthy(Current(r))
      BY <2>1 DEF ChannelTunnel, ChannelForwarded, ChannelFailed
    <3>3. QED
      BY <1>0, <3>1, <3>2, CurrentInRange, TableKept
  <2>2. CASE ~(ChannelTunnel(r) \/ ChannelForwarded(r) \/ ChannelFailed(r))
    <3>1. UNCHANGED <<channels, clock>>
      BY <1>1, <2>2
         DEF RequestStep, Accept, Hang, Abandon, DirectTunnel, DirectConnected,
             DirectForwarded, DirectFailed, TakeSnapshot, SkipChannel, TryChannel,
             EndLoop, HandSession, LockSession, ChannelConnected, Reject
    <3>2. QED
      BY <1>0, <3>1, TableKept
  <2>3. QED
    BY <2>1, <2>2
<1>2. ASSUME CheckerStep
      PROVE  ManagerInv'
  BY <1>0, <1>2, TableKept DEF CheckerStep, StartCheck, FinishCheck, ProbeEnds, JoinNext
<1>3. CASE Elapse
  BY <1>0, <1>3, TickKeepsInv DEF Elapse
<1>4. CASE Terminating \/ UNCHANGED vars
  BY <1>0, <1>4, TableKept DEF Terminating, vars
<1>5. QED
  BY <1>1, <1>2, <1>3, <1>4 DEF Next

\* The part of TypeOK that the tasks of the requests own.
RequestTypeOK ==
  /\ pc \in [Requests -> Labels]
  /\ snap \in [Requests -> [Ids -> Channel]]
  /\ pos \in [Requests -> 0 .. NChannels]
  /\ session \in [Requests -> Sessions \cup {NoSession}]
  /\ \A r \in Requests : pc[r] \in AtChannel => pos[r] < NChannels
  /\ fate \in [Requests -> [Routes -> Fates]]
  /\ outcome \in [Requests -> Outcomes]

LEMMA RequestKeepsTypes ==
  ASSUME TypeOK, NEW r \in Requests, RequestStep(r) \/ Accept(r) \/ Hang(r) \/ Abandon(r)
  PROVE  RequestTypeOK'
<1>1. /\ NoSnapshot \in [Ids -> Channel]
      /\ NChannels \in Nat
      /\ channels \in [Ids -> Channel]
  BY ManagerAssumption DEF NoSnapshot, NewChannel, Channel, Health, NoTime, TypeOK, ManagerTypeOK
<1>2. Direct \in Routes /\ (pos[r] < NChannels => Current(r) \in Routes)
  BY <1>1, CurrentInRange DEF Direct, Routes, Ids
<1>3. RequestTypeOK
  BY DEF TypeOK, RequestTypeOK
<1> DEFINE NewPc == \E l \in Labels : pc' = [pc EXCEPT ![r] = l]
           NewFate == \E route \in Routes, how \in Fates : fate' = [fate EXCEPT ![r][route] = how]
           NewPos == \/ pos' = [pos EXCEPT ![r] = 0]
                     \/ pos[r] < NChannels /\ pos' = [pos EXCEPT ![r] = @ + 1]
           NewSnap == snap' = [snap EXCEPT ![r] = channels] \/ snap' = [snap EXCEPT ![r] = NoSnapshot]
           NewSession == \E s \in Sessions : session' = [session EXCEPT ![r] = s]
           NewOutcome == \E o \in Outcomes : outcome' = [outcome EXCEPT ![r] = o]
<1>4. /\ NewPc \/ UNCHANGED pc
      /\ NewFate \/ UNCHANGED fate
      /\ NewPos \/ UNCHANGED pos
      /\ NewSnap \/ UNCHANGED snap
      /\ NewSession \/ UNCHANGED session
      /\ NewOutcome \/ UNCHANGED outcome
  <2> USE <1>1 DEF RequestStep, Accept, Hang, Abandon, DirectTunnel, DirectConnected,
         DirectForwarded, DirectFailed, TakeSnapshot, SkipChannel, TryChannel, EndLoop,
         HandSession, LockSession, ChannelTunnel, ChannelConnected, ChannelForwarded,
         ChannelFailed, Reject
  <2>1. NewPc \/ UNCHANGED pc
    BY DEF GoTo, Finish, Labels
  <2>2. NewFate \/ UNCHANGED fate
    BY <1>2, <1>3 DEF Fate, Fates, RequestTypeOK, AtChannel, Established
  <2>3. NewPos \/ UNCHANGED pos
    BY <1>3 DEF Finish, RequestTypeOK, AtChannel
  <2>4. NewSnap \/ UNCHANGED snap
    BY DEF Finish
  <2>5. NewOutcome \/ UNCHANGED outcome
    BY DEF Finish, Outcomes
  <2>6. NewSession \/ UNCHANGED session
    BY DEF Apart
  <2>7. QED
    BY <2>1, <2>2, <2>3, <2>4, <2>5, <2>6
<1>5. pc' \in [Requests -> Labels]
  BY <1>3, <1>4 DEF RequestTypeOK
<1>6. fate' \in [Requests -> [Routes -> Fates]]
  <2>1. fate \in [Requests -> [Routes -> Fates]]
    BY <1>3 DEF RequestTypeOK
  <2>2. ASSUME NEW route \in Routes, NEW how \in Fates, fate' = [fate EXCEPT ![r][route] = how]
        PROVE  fate' \in [Requests -> [Routes -> Fates]]
    <3>1. [fate[r] EXCEPT ![route] = how] \in [Routes -> Fates]
      BY <2>1
    <3>2. QED
      BY <2>1, <2>2, <3>1, Zenon
  <2>3. QED
    BY <1>4, <2>1, <2>2
<1>7. pos' \in [Requests -> 0 .. NChannels]
  <2>1. pos \in [Requests -> 0 .. NChannels]
    BY <1>3 DEF RequestTypeOK
  <2>2. QED
    BY <1>1, <1>4, <2>1
<1>8. snap' \in [Requests -> [Ids -> Channel]]
  BY <1>1, <1>3, <1>4 DEF RequestTypeOK
<1>9. outcome' \in [Requests -> Outcomes]
  BY <1>3, <1>4 DEF RequestTypeOK
<1>10. ASSUME NEW q \in Requests, pc'[q] \in AtChannel
       PROVE  pos'[q] < NChannels
  BY <1>1, <1>3, <1>5, <1>10 DEF RequestStep, Accept, Hang, Abandon, DirectTunnel,
       DirectConnected, DirectForwarded, DirectFailed, TakeSnapshot, SkipChannel,
       TryChannel, EndLoop, HandSession, LockSession, ChannelTunnel, ChannelConnected,
       ChannelForwarded, ChannelFailed, Reject, GoTo, Finish, RequestTypeOK, AtChannel,
       Established
<1>11. session' \in [Requests -> Sessions \cup {NoSession}]
  BY <1>3, <1>4 DEF RequestTypeOK
<1>12. QED
  BY <1>5, <1>6, <1>7, <1>8, <1>9, <1>10, <1>11 DEF RequestTypeOK

LEMMA StepKeepsTypes ==
  ASSUME TypeOK, RecordCoherent, [Next]_vars
  PROVE  TypeOK'
<1>1. ManagerTypeOK'
  BY StepKeepsTable DEF ManagerInv
<1>2. ASSUME NEW r \in Requests, RequestStep(r) \/ Accept(r) \/ Hang(r) \/ Abandon(r)
      PROVE  TypeOK'
  <2>1. UNCHANGED <<req, checkerVars>>
    BY <1>2 DEF RequestStep, Accept, Hang, Abandon, DirectTunnel, DirectConnected,
         DirectForwarded, DirectFailed, TakeSnapshot, SkipChannel, TryChannel, EndLoop,
         HandSession, LockSession, ChannelTunnel, ChannelConnected, ChannelForwarded,
         ChannelFailed, Reject, Apart
  <2>2. RequestTypeOK'
    BY <1>2, RequestKeepsTypes
  <2>3. QED
    BY <1>1, <2>1, <2>2 DEF TypeOK, RequestTypeOK, checkerVars
<1>3. CASE CheckerStep
  <2> USE <1>1, DispatchAssumption DEF TypeOK, requestVars, NoTime
  <2>1. CASE StartCheck
    <3>1. ASSUME NEW t \in Nat \cup {NoTime}
          PROVE  t + ProbeInterval \in Nat \cup {NoTime}
      BY DispatchAssumption
    <3>2. nextProbe' \in Nat \cup {NoTime}
      BY <2>1, <3>1 DEF StartCheck
    <3>3. QED
      BY <2>1, <3>2 DEF StartCheck
  <2>2. CASE FinishCheck
    BY <2>2 DEF FinishCheck, ManagerTypeOK
  <2>3. ASSUME NEW id \in Ids, ProbeEnds(id)
        PROVE  TypeOK'
    BY <2>3 DEF ProbeEnds
  <2>4. ASSUME NEW id \in Ids, JoinNext(id)
        PROVE  TypeOK'
    BY <2>4 DEF JoinNext
  <2>5. QED
    BY <1>3, <2>1, <2>2, <2>3, <2>4 DEF CheckerStep
<1>4. CASE Elapse \/ Terminating \/ UNCHANGED vars
  BY <1>1, <1>4 DEF Elapse, Terminating, vars, requestVars, checkerVars, TypeOK
<1>5. QED
  BY <1>2, <1>3, <1>4 DEF Next

-----------------------------------------------------------------------------
(* Snapshots.                                                              *)

\* What a stale copy still tells the truth about.
SnapshotsCoherent ==
  \A r \in Requests, c \in Ids :
    snap[r][c].health = "Unhealthy" =>
      snap[r][c].last_failure # NoTime /\ snap[r][c].failure_count > 0

DispatchInv == TypeOK /\ RecordCoherent /\ SnapshotsLagBehind /\ SnapshotsCoherent

\* The last failure of a channel is never forgotten nor put back.
LEMMA LastFailureAdvances ==
  ASSUME TypeOK, RecordCoherent, [Next]_vars, NEW c \in Ids
  PROVE  channels'[c].last_failure >= channels[c].last_failure
<1>1. /\ channels \in [Ids -> Channel]
      /\ channels[c].last_failure <= clock
      /\ channels[c].last_failure \in Nat \cup {NoTime}
      /\ clock \in Nat
  BY DEF TypeOK, ManagerTypeOK, RecordCoherent, Channel
<1>2. ASSUME NEW id \in Ids, MarkHealthy(id) \/ MarkUnhealthy(id)
      PROVE  channels'[c].last_failure >= channels[c].last_failure
  BY <1>1, <1>2 DEF MarkHealthy, MarkUnhealthy, Healed, Failed, NoTime
<1>3. UNCHANGED channels \/ \E id \in Ids : MarkHealthy(id) \/ MarkUnhealthy(id)
  <2>1. ASSUME NEW r \in Requests, ChannelTunnel(r) \/ ChannelForwarded(r) \/ ChannelFailed(r)
        PROVE  \E id \in Ids : MarkHealthy(id) \/ MarkUnhealthy(id)
    <3>1. pos[r] < NChannels
      BY <2>1 DEF TypeOK, AtChannel, Established, ChannelTunnel, ChannelForwarded, ChannelFailed
    <3>2. QED
      BY <2>1, <3>1, CurrentInRange DEF ChannelTunnel, ChannelForwarded, ChannelFailed
  <2>2. QED
    BY <2>1 DEF Next, RequestStep, Accept, Hang, Abandon, DirectTunnel, DirectConnected,
         DirectForwarded, DirectFailed, TakeSnapshot, SkipChannel, TryChannel, EndLoop,
         HandSession, LockSession, ChannelConnected, Reject, CheckerStep, StartCheck, FinishCheck, ProbeEnds,
         JoinNext, Elapse, Tick, Terminating, vars
<1>4. QED
  BY <1>1, <1>2, <1>3 DEF NoTime

\* A task's copy changes only when it is taken and when it is dropped.
LEMMA SnapshotSteps ==
  ASSUME TypeOK, [Next]_vars, NEW r \in Requests, NEW c \in Ids
  PROVE  \/ snap'[r][c] = snap[r][c]
         \/ snap'[r][c] = NewChannel
         \/ snap'[r][c] = channels[c] /\ UNCHANGED channels
<1>1. snap \in [Requests -> [Ids -> Channel]] /\ NoSnapshot[c] = NewChannel
  BY DEF TypeOK, NoSnapshot
<1>2. CASE UNCHANGED snap
  BY <1>2
<1>3. ASSUME NEW q \in Requests, snap' = [snap EXCEPT ![q] = NoSnapshot]
      PROVE  snap'[r][c] = snap[r][c] \/ snap'[r][c] = NewChannel
  BY <1>1, <1>3
<1>4. ASSUME NEW q \in Requests, TakeSnapshot(q)
      PROVE  snap'[r][c] = snap[r][c] \/ (snap'[r][c] = channels[c] /\ UNCHANGED channels)
  BY <1>1, <1>4 DEF TakeSnapshot
<1>5. QED
  BY <1>2, <1>3, <1>4 DEF Next, RequestStep, Accept, Hang, Abandon, DirectTunnel,
       DirectConnected, DirectForwarded, DirectFailed, SkipChannel, TryChannel, EndLoop,
       HandSession, LockSession, ChannelTunnel, ChannelConnected, ChannelForwarded,
       ChannelFailed, Reject, Finish, CheckerStep, StartCheck, FinishCheck, ProbeEnds, JoinNext, Elapse, Terminating,
       vars, requestVars

LEMMA DispatchInvHolds == Spec => []DispatchInv
<1>1. Init => DispatchInv
  <2>1. Init => TypeOK /\ RecordCoherent
    BY InitTypeOK, ManagerInitInv DEF Init, ManagerInv
  <2>2. Init => SnapshotsLagBehind /\ SnapshotsCoherent
    BY DEF Init, ManagerInit, NoSnapshot, NewChannel, SnapshotsLagBehind, SnapshotsCoherent, NoTime
  <2>3. QED
    BY <2>1, <2>2 DEF DispatchInv
<1>2. ASSUME DispatchInv, [Next]_vars
      PROVE  DispatchInv'
  <2>1. TypeOK' /\ RecordCoherent'
    BY <1>2, StepKeepsTypes, StepKeepsTable DEF DispatchInv, ManagerInv
  <2>2. ASSUME NEW r \in Requests, NEW c \in Ids
        PROVE  /\ snap'[r][c].last_failure <= channels'[c].last_failure
               /\ snap'[r][c].health = "Unhealthy" =>
                    snap'[r][c].last_failure # NoTime /\ snap'[r][c].failure_count > 0
    <3>1. /\ snap[r][c] \in Channel
          /\ channels[c] \in Channel
          /\ channels'[c] \in Channel
      BY <1>2, <2>1 DEF DispatchInv, TypeOK, ManagerTypeOK
    <3>2. channels'[c].last_failure >= channels[c].last_failure
      BY <1>2, LastFailureAdvances DEF DispatchInv
    <3>3. CASE snap'[r][c] = snap[r][c]
      BY <1>2, <3>1, <3>2, <3>3
         DEF DispatchInv, SnapshotsLagBehind, SnapshotsCoherent, Channel, NoTime
    <3>4. CASE snap'[r][c] = NewChannel
      BY <3>1, <3>4 DEF NewChannel, Channel, NoTime
    <3>5. CASE snap'[r][c] = channels[c] /\ UNCHANGED channels
      BY <1>2, <3>1, <3>5 DEF DispatchInv, RecordCoherent, Channel, NoTime
    <3>6. QED
      BY <1>2, <3>3, <3>4, <3>5, SnapshotSteps DEF DispatchInv
  <2>3. QED
    BY <2>1, <2>2 DEF DispatchInv, SnapshotsLagBehind, SnapshotsCoherent
<1>3. QED
  BY <1>1, <1>2, PTL DEF Spec

\* Types: every field keeps its range, walks stay inside the table and probes
\* run only during a pass.
THEOREM DispatchTypes == Spec => []TypeOK
BY DispatchInvHolds, PTL DEF DispatchInv

\* No snapshot is ahead of the table.
THEOREM SnapshotsLagBehindAlways == Spec => []SnapshotsLagBehind
BY DispatchInvHolds, PTL DEF DispatchInv

\* A channel that should not be retried failed in the last 300 seconds.
LEMMA IsolationIsRecent ==
  ASSUME NEW ch \in Channel, NEW now \in Nat, ~ShouldRetry(ch, now),
         ch.health = "Unhealthy" => ch.last_failure # NoTime /\ ch.failure_count > 0
  PROVE  ch.last_failure # NoTime /\ now - ch.last_failure < 300
<1>1. ch.failure_count \in Nat \ {0} /\ ch.last_failure \in Nat
  BY ManagerAssumption DEF ShouldRetry, Channel, NoTime
<1>2. Backoff(ch.failure_count) \in 3 .. 300
  BY <1>1, BackoffRange
<1>3. now - ch.last_failure < Backoff(ch.failure_count)
  BY <1>1, <1>2 DEF ShouldRetry
<1>4. QED
  BY <1>1, <1>2, <1>3 DEF NoTime

\* A route is passed over in one action only.
LEMMA SkipIsSkipChannel ==
  ASSUME TypeOK, [Next]_vars, NEW r \in Requests, NEW c \in Ids, Settles(r, c, "skipped")
  PROVE  SkipChannel(r) /\ c = Current(r)
<1>1. fate \in [Requests -> [Routes -> Fates]] /\ c \in Routes
  BY ManagerAssumption DEF TypeOK, Ids, Routes
<1>2. ASSUME NEW q \in Requests, NEW route, NEW how,
             fate' = [fate EXCEPT ![q][route] = how]
      PROVE  q = r /\ route = c /\ how = "skipped"
  BY <1>1, <1>2 DEF Settles
<1>3. fate' # fate
  BY DEF Settles
<1>4. PICK q \in Requests : RequestStep(q) \/ Accept(q) \/ Hang(q) \/ Abandon(q)
  BY <1>3 DEF Next, CheckerStep, StartCheck, FinishCheck, ProbeEnds, JoinNext, Elapse,
       Terminating, vars, requestVars
<1>5. SkipChannel(q)
  <2>1. \/ DirectTunnel(q) \/ DirectForwarded(q) \/ DirectFailed(q) \/ SkipChannel(q)
        \/ ChannelTunnel(q) \/ ChannelForwarded(q) \/ ChannelFailed(q)
    BY <1>3, <1>4 DEF RequestStep, Accept, Hang, Abandon, DirectConnected, TakeSnapshot,
         TryChannel, EndLoop, HandSession, LockSession, ChannelConnected, Reject
  <2>2. SkipChannel(q) \/ \E route : \/ fate' = [fate EXCEPT ![q][route] = "served"]
                                   \/ fate' = [fate EXCEPT ![q][route] = "failed"]
    BY <2>1, Zenon DEF DirectTunnel, DirectForwarded, DirectFailed, ChannelTunnel,
         ChannelForwarded, ChannelFailed, Fate
  <2>3. QED
    BY <1>2, <2>2
<1>6. q = r /\ Current(q) = c
  <2>1. fate' = [fate EXCEPT ![q][Current(q)] = "skipped"]
    BY <1>5 DEF SkipChannel, Fate
  <2>2. QED
    BY <1>2, <2>1
<1>7. QED
  BY <1>5, <1>6

\* A channel is passed over only if the table itself, at that moment, shows a
\* failure of it in the last 300 seconds.
THEOREM SkipsOnEvidenceAlways == Spec => SkipsOnEvidence
<1> DEFINE OnEvidence ==
      \A r \in Requests, c \in Ids :
        Settles(r, c, "skipped") =>
          /\ channels[c].last_failure # NoTime
          /\ clock - channels[c].last_failure < 300
<1>1. DispatchInv /\ [Next]_vars => [OnEvidence]_vars
  <2> SUFFICES ASSUME DispatchInv, [Next]_vars,
                      NEW r \in Requests, NEW c \in Ids, Settles(r, c, "skipped")
               PROVE  channels[c].last_failure # NoTime /\ clock - channels[c].last_failure < 300
    OBVIOUS
  <2>1. SkipChannel(r) /\ c = Current(r)
    BY SkipIsSkipChannel DEF DispatchInv
  <2>2. ~ShouldRetry(snap[r][c], clock)
    BY <2>1 DEF SkipChannel, Seen
  <2>3. /\ snap[r][c] \in Channel
        /\ channels[c] \in Channel
        /\ clock \in Nat
    BY DEF DispatchInv, TypeOK, ManagerTypeOK
  <2>4. snap[r][c].last_failure # NoTime /\ clock - snap[r][c].last_failure < 300
    BY <2>2, <2>3, IsolationIsRecent DEF DispatchInv, SnapshotsCoherent
  <2>5. snap[r][c].last_failure <= channels[c].last_failure
    BY DEF DispatchInv, SnapshotsLagBehind
  <2>6. QED
    BY <2>3, <2>4, <2>5 DEF Channel, NoTime
<1>2. QED
  BY <1>1, DispatchInvHolds, PTL DEF Spec, SkipsOnEvidence

=============================================================================
