--------------------------- MODULE RecoveryProofs ---------------------------
(***************************************************************************)
(* The table catches up with the truth within Lag, for any number of       *)
(* channels and any timeouts.  The argument: a pass lasts at most          *)
(* ConnectTimeout and the next one begins at most ProbeInterval after it   *)
(* ends, so at any time a pass has begun in the last ConnectTimeout +      *)
(* ProbeInterval seconds.  A pass that began after a channel last changed  *)
(* or was marked can only find what is true, and applies it.               *)
(***************************************************************************)
EXTENDS Recovery, ChannelManagerProofs

Span == ConnectTimeout + ProbeInterval

\* Where the checker is says how long ago the pass began and how soon the next
\* one does.
Clockwork ==
  /\ checker \in {"start", "probing", "idle"}
  /\ began \in 0 .. clock /\ due \in Nat \cup {NoTime}
  /\ checker = "start" => clock = 0 /\ due = NoTime
  /\ checker = "probing" => due <= began + ProbeInterval
  /\ checker = "idle" => due \in 0 .. began + Span /\ clock <= began + Span

\* When the truth about the channel last changed, or its record did.
Touched(c) == Later(changed[c], marked[c])

Agrees(c) == channels[c].health = IF up[c] THEN "Healthy" ELSE "Unhealthy"

\* A channel that was left alone since the pass began: its probe knows the
\* truth, and so does its record unless that probe, the first since it was
\* touched, is not joined yet.
Tracked(c) ==
  Touched(c) < began =>
    /\ seen[c] = {up[c]}
    /\ probe[c] = "up" => up[c]
    /\ probe[c] = "down" => ~ up[c]
    /\ Agrees(c) \/ (probe[c] # "none" /\ began <= Touched(c) + Span)

RecoveryInv ==
  ManagerInv /\ RecoveryTypeOK /\ Clockwork /\ \A c \in Ids : Tracked(c)

-----------------------------------------------------------------------------
(* What the invariant says in the terms the steps use.                     *)

LEMMA Numbers ==
  ASSUME RecoveryInv
  PROVE  /\ clock \in Nat /\ began \in Nat /\ began <= clock /\ Span \in Nat
         /\ due \in Int
         /\ clock <= began + Span
         /\ \A c \in Ids : /\ changed[c] \in 0 .. clock /\ marked[c] \in 0 .. clock
                           /\ Touched(c) \in 0 .. clock
BY RecoveryAssumption, ManagerAssumption
   DEF RecoveryInv, RecoveryTypeOK, ManagerTypeOK, Clockwork, Touched, Later, Span, NoTime

\* A step that leaves everything about a channel and the pass alone.
LEMMA OthersStayTracked ==
  ASSUME NEW c \in Ids, Tracked(c),
         UNCHANGED <<channels[c], up[c], changed[c], marked[c], seen[c], probe[c], began>>
  PROVE  Tracked(c)'
BY DEF Tracked, Touched, Later, Agrees

\* A channel that is touched now is tracked again from the next pass on.
LEMMA TouchedNow ==
  ASSUME RecoveryInv, NEW c \in Ids, began' = began, changed'[c] \in Nat, marked'[c] \in Nat,
         changed'[c] = clock \/ marked'[c] = clock
  PROVE  Tracked(c)'
<1>1. ~ (Touched(c)' < began')
  BY Numbers DEF Touched, Later
<1>2. QED
  BY <1>1 DEF Tracked

LEMMA InitRecoveryInv == Init => RecoveryInv
<1> SUFFICES ASSUME Init
             PROVE  RecoveryInv
  OBVIOUS
<1>1. ManagerInv
  BY ManagerInitInv DEF Init
<1>2. clock = 0 /\ ManagerTypeOK
  BY <1>1 DEF Init, ManagerInit, ManagerInv
<1>3. RecoveryTypeOK /\ Clockwork
  BY <1>2, RecoveryAssumption DEF Init, RecoveryTypeOK, Clockwork, NoTime, Span
<1>4. \A c \in Ids : Tracked(c)
  BY DEF Init, Tracked, Touched, Later
<1>5. QED
  BY <1>1, <1>3, <1>4 DEF RecoveryInv

-----------------------------------------------------------------------------
(* The world.                                                              *)

LEMMA FlipKeepsInv ==
  ASSUME RecoveryInv, NEW c \in Ids, Flip(c)
  PROVE  RecoveryInv'
<1>1. /\ UNCHANGED <<channels, clock, marked, checker, due, began, probe>>
      /\ up' = [up EXCEPT ![c] = ~ up[c]]
      /\ changed' = [changed EXCEPT ![c] = clock]
      /\ seen' = [seen EXCEPT ![c] = seen[c] \cup {~ up[c]}]
      /\ attempt' = [attempt EXCEPT ![c] = IF attempt[c] = "doomed" THEN "hopeful" ELSE attempt[c]]
  BY DEF Flip, checkVars
<1>2. RecoveryTypeOK /\ clock \in Nat
  BY Numbers DEF RecoveryInv
<1>3. up' \in [Ids -> BOOLEAN] /\ seen' \in [Ids -> SUBSET BOOLEAN]
  BY <1>1, <1>2 DEF RecoveryTypeOK
<1>4. changed' \in [Ids -> 0 .. clock] /\ attempt' \in [Ids -> {"none", "doomed", "hopeful"}]
  BY <1>1, <1>2 DEF RecoveryTypeOK
<1>5. RecoveryTypeOK'
  BY <1>1, <1>2, <1>3, <1>4 DEF RecoveryTypeOK, ManagerTypeOK
<1>6. ManagerInv' /\ Clockwork'
  BY <1>1 DEF RecoveryInv, ManagerInv, ManagerTypeOK, RecordCoherent, Clockwork
<1>7. ASSUME NEW d \in Ids
      PROVE  Tracked(d)'
  <2>1. CASE d = c
    <3>1. changed'[d] = clock /\ marked'[d] \in Nat /\ began' = began
      BY <1>1, <1>2, <2>1, Numbers DEF RecoveryTypeOK
    <3>2. QED
      BY <3>1, <1>2, TouchedNow
  <2>2. CASE d # c
    <3>1. UNCHANGED <<channels[d], up[d], changed[d], marked[d], seen[d], probe[d], began>>
      BY <1>1, <1>2, <2>2 DEF RecoveryTypeOK
    <3>2. QED
      BY <3>1, OthersStayTracked DEF RecoveryInv
  <2>3. QED
    BY <2>1, <2>2
<1>8. QED
  BY <1>5, <1>6, <1>7 DEF RecoveryInv

LEMMA AttemptKeepsInv ==
  ASSUME RecoveryInv, NEW c \in Ids, Attempt(c)
  PROVE  RecoveryInv'
<1>1. UNCHANGED <<channels, clock, up, changed, marked, checker, due, began, probe, seen>>
  BY DEF Attempt, checkVars
<1>2. attempt' \in [Ids -> {"none", "doomed", "hopeful"}]
  BY DEF Attempt, RecoveryInv, RecoveryTypeOK
<1>3. RecoveryTypeOK' /\ ManagerInv' /\ Clockwork'
  BY <1>1, <1>2
     DEF RecoveryInv, RecoveryTypeOK, ManagerInv, ManagerTypeOK, RecordCoherent, Clockwork
<1>4. \A d \in Ids : Tracked(d)'
  BY <1>1, OthersStayTracked DEF RecoveryInv
<1>5. QED
  BY <1>3, <1>4 DEF RecoveryInv

\* What marking the channel c does to the table.
LEMMA MarkEffect ==
  ASSUME RecoveryInv, NEW c \in Ids, MarkHealthy(c) \/ MarkUnhealthy(c), UNCHANGED clock
  PROVE  /\ ManagerInv'
         /\ \A d \in Ids : d # c => channels'[d] = channels[d]
         /\ MarkHealthy(c) => channels'[c].health = "Healthy"
         /\ MarkUnhealthy(c) => channels'[c].health = "Unhealthy"
<1>1. channels \in [Ids -> Channel] /\ ManagerInv
  BY DEF RecoveryInv, RecoveryTypeOK, ManagerTypeOK
<1>2. ManagerInv'
  BY <1>1, MarkKeepsInv
<1>3. QED
  BY <1>1, <1>2 DEF MarkHealthy, MarkUnhealthy, Healed, Failed

LEMMA AttemptEndsKeepsInv ==
  ASSUME RecoveryInv, NEW c \in Ids, AttemptEnds(c)
  PROVE  RecoveryInv'
<1>1. /\ UNCHANGED <<clock, up, changed, checker, due, began, probe, seen>>
      /\ MarkHealthy(c) \/ MarkUnhealthy(c)
      /\ marked' = [marked EXCEPT ![c] = clock]
      /\ attempt' = [attempt EXCEPT ![c] = "none"]
  BY DEF AttemptEnds, checkVars
<1>2. RecoveryTypeOK /\ clock \in Nat
  BY Numbers DEF RecoveryInv
<1>3. ManagerInv' /\ \A d \in Ids : d # c => channels'[d] = channels[d]
  BY <1>1, MarkEffect
<1>4. marked' \in [Ids -> 0 .. clock] /\ attempt' \in [Ids -> {"none", "doomed", "hopeful"}]
  BY <1>1, <1>2 DEF RecoveryTypeOK
<1>5. RecoveryTypeOK' /\ Clockwork'
  BY <1>1, <1>2, <1>3, <1>4 DEF RecoveryTypeOK, ManagerInv, Clockwork, RecoveryInv
<1>6. ASSUME NEW d \in Ids
      PROVE  Tracked(d)'
  <2>1. CASE d = c
    <3>1. marked'[d] = clock /\ changed'[d] \in Nat /\ began' = began
      BY <1>1, <1>2, <2>1, Numbers DEF RecoveryTypeOK
    <3>2. QED
      BY <3>1, <1>2, TouchedNow
  <2>2. CASE d # c
    <3>1. UNCHANGED <<channels[d], up[d], changed[d], marked[d], seen[d], probe[d], began>>
      BY <1>1, <1>2, <1>3, <2>2 DEF RecoveryTypeOK
    <3>2. QED
      BY <3>1, OthersStayTracked DEF RecoveryInv
  <2>3. QED
    BY <2>1, <2>2
<1>7. QED
  BY <1>3, <1>5, <1>6 DEF RecoveryInv

-----------------------------------------------------------------------------
(* The checker.                                                            *)

\* The step that matters: a channel touched before the new pass was either
\* touched after the last one began, no longer ago than Span, or that pass has
\* brought its record up to date.
LEMMA StartCheckKeepsInv ==
  ASSUME RecoveryInv, StartCheck
  PROVE  RecoveryInv'
<1>1. /\ UNCHANGED <<channels, clock, up, changed, attempt, marked>>
      /\ Due /\ checker' = "probing" /\ began' = clock
      /\ due' = IF checker = "start" THEN due ELSE due + ProbeInterval
      /\ probe' = [c \in Ids |-> "running"]
      /\ seen' = [c \in Ids |-> {up[c]}]
  BY DEF StartCheck, worldVars
<1>2. RecoveryTypeOK /\ Clockwork /\ checker # "probing"
  BY <1>1 DEF RecoveryInv, Due
<1>3. RecoveryTypeOK'
  BY <1>1, <1>2, RecoveryAssumption, Numbers DEF RecoveryTypeOK, ManagerTypeOK
<1>4. Clockwork'
  BY <1>1, <1>2, RecoveryAssumption, Numbers DEF Clockwork, Due, NoTime
<1>5. ManagerInv'
  BY <1>1 DEF RecoveryInv, ManagerInv, ManagerTypeOK, RecordCoherent
<1>6. ASSUME NEW c \in Ids, Touched(c)' < began'
      PROVE  Agrees(c)' \/ began' <= Touched(c)' + Span
  <2>1. Touched(c)' = Touched(c) /\ Agrees(c)' = Agrees(c)
    BY <1>1 DEF Touched, Agrees
  <2>2. CASE Touched(c) < began
    <3>1. probe[c] = "none" /\ Tracked(c)
      BY <1>2 DEF RecoveryTypeOK, RecoveryInv
    <3>2. QED
      BY <2>1, <2>2, <3>1 DEF Tracked
  <2>3. CASE began <= Touched(c)
    BY <1>1, <2>1, <2>3, Numbers
  <2>4. QED
    BY <2>2, <2>3, Numbers
<1>7. \A c \in Ids : Tracked(c)'
  <2> SUFFICES ASSUME NEW c \in Ids, Touched(c)' < began'
               PROVE  /\ seen'[c] = {up'[c]} /\ probe'[c] = "running"
                      /\ Agrees(c)' \/ began' <= Touched(c)' + Span
    BY DEF Tracked
  <2>1. QED
    BY <1>1, <1>6
<1>8. QED
  BY <1>3, <1>4, <1>5, <1>7 DEF RecoveryInv

LEMMA ProbeEndsKeepsInv ==
  ASSUME RecoveryInv, NEW c \in Ids, ProbeEnds(c)
  PROVE  RecoveryInv'
<1>1. /\ UNCHANGED <<channels, clock, up, changed, attempt, marked, checker, due, began, seen>>
      /\ probe[c] = "running"
  BY DEF ProbeEnds, worldVars
<1>2. PICK was \in seen[c] : probe' = [probe EXCEPT ![c] = IF was THEN "up" ELSE "down"]
  BY DEF ProbeEnds
<1>3. RecoveryTypeOK /\ checker = "probing"
  BY <1>1 DEF RecoveryInv, RecoveryTypeOK
<1>4. probe' \in [Ids -> {"none", "running", "up", "down"}]
  BY <1>2, <1>3 DEF RecoveryTypeOK
<1>5. RecoveryTypeOK' /\ ManagerInv' /\ Clockwork'
  BY <1>1, <1>3, <1>4
     DEF RecoveryInv, RecoveryTypeOK, ManagerInv, ManagerTypeOK, RecordCoherent, Clockwork
<1>6. ASSUME NEW d \in Ids
      PROVE  Tracked(d)'
  <2>1. CASE d = c
    <3> SUFFICES ASSUME Touched(c) < began
                 PROVE  /\ probe'[c] = "up" => up[c]
                        /\ probe'[c] = "down" => ~ up[c]
                        /\ probe'[c] # "none"
      BY <1>1, <2>1 DEF Tracked, Touched, Agrees, RecoveryInv
    <3>1. was = up[c]
      BY <1>2 DEF Tracked, RecoveryInv
    <3>2. probe'[c] = IF was THEN "up" ELSE "down"
      BY <1>2, <1>3 DEF RecoveryTypeOK
    <3>3. QED
      BY <3>1, <3>2
  <2>2. CASE d # c
    <3>1. UNCHANGED <<channels[d], up[d], changed[d], marked[d], seen[d], probe[d], began>>
      BY <1>1, <1>2, <1>3, <2>2 DEF RecoveryTypeOK
    <3>2. QED
      BY <3>1, OthersStayTracked DEF RecoveryInv
  <2>3. QED
    BY <2>1, <2>2
<1>7. QED
  BY <1>5, <1>6 DEF RecoveryInv

LEMMA JoinNextKeepsInv ==
  ASSUME RecoveryInv, NEW c \in Ids, JoinNext(c)
  PROVE  RecoveryInv'
<1>1. /\ UNCHANGED <<clock, up, changed, attempt, marked, checker, due, began, seen>>
      /\ \/ probe[c] = "up" /\ MarkHealthy(c)
         \/ probe[c] = "down" /\ MarkUnhealthy(c)
      /\ probe' = [probe EXCEPT ![c] = "none"]
  BY DEF JoinNext, worldVars
<1>2. RecoveryTypeOK
  BY DEF RecoveryInv
<1>3. /\ ManagerInv'
      /\ \A d \in Ids : d # c => channels'[d] = channels[d]
      /\ channels'[c].health = IF probe[c] = "up" THEN "Healthy" ELSE "Unhealthy"
  BY <1>1, MarkEffect
<1>4. probe' \in [Ids -> {"none", "running", "up", "down"}]
  BY <1>1, <1>2 DEF RecoveryTypeOK
<1>5. checker # "probing" => probe' = [d \in Ids |-> "none"]
  BY <1>1, <1>2 DEF RecoveryTypeOK
<1>6. RecoveryTypeOK' /\ Clockwork'
  BY <1>1, <1>2, <1>3, <1>4, <1>5 DEF RecoveryTypeOK, ManagerInv, Clockwork, RecoveryInv
<1>7. ASSUME NEW d \in Ids
      PROVE  Tracked(d)'
  <2>1. CASE d = c
    <3> SUFFICES ASSUME Touched(c) < began
                 PROVE  /\ seen[c] = {up[c]}
                        /\ probe'[c] = "none"
                        /\ Agrees(c)'
      BY <1>1, <2>1 DEF Tracked, Touched
    <3>1. seen[c] = {up[c]} /\ (probe[c] = "up" => up[c]) /\ (probe[c] = "down" => ~ up[c])
      BY DEF Tracked, RecoveryInv
    <3>2. probe'[c] = "none"
      BY <1>1, <1>2 DEF RecoveryTypeOK
    <3>3. Agrees(c)'
      BY <1>1, <1>3, <3>1 DEF Agrees
    <3>4. QED
      BY <3>1, <3>2, <3>3
  <2>2. CASE d # c
    <3>1. UNCHANGED <<channels[d], up[d], changed[d], marked[d], seen[d], probe[d], began>>
      BY <1>1, <1>2, <1>3, <2>2 DEF RecoveryTypeOK
    <3>2. QED
      BY <3>1, OthersStayTracked DEF RecoveryInv
  <2>3. QED
    BY <2>1, <2>2
<1>8. QED
  BY <1>3, <1>6, <1>7 DEF RecoveryInv

LEMMA FinishCheckKeepsInv ==
  ASSUME RecoveryInv, FinishCheck
  PROVE  RecoveryInv'
<1>1. /\ UNCHANGED <<channels, clock, up, changed, attempt, marked, began, probe, seen>>
      /\ PassOver /\ checker' = "idle"
      /\ due' = IF due = NoTime THEN clock + ProbeInterval ELSE due
  BY DEF FinishCheck, worldVars
<1>2. RecoveryTypeOK /\ Clockwork /\ checker = "probing"
  BY <1>1 DEF RecoveryInv, PassOver
<1>3. probe = [c \in Ids |-> "none"]
  BY <1>1, <1>2 DEF PassOver, RecoveryTypeOK
<1>4. RecoveryTypeOK' /\ ManagerInv'
  BY <1>1, <1>2, <1>3 DEF RecoveryTypeOK, RecoveryInv, ManagerInv, ManagerTypeOK, RecordCoherent
<1>5. clock <= began + ConnectTimeout
  BY <1>2 DEF RecoveryTypeOK
<1>6. Clockwork'
  BY <1>1, <1>2, <1>5, RecoveryAssumption, Numbers DEF Clockwork, Span, NoTime
<1>7. \A c \in Ids : Tracked(c)'
  BY <1>1, OthersStayTracked DEF RecoveryInv
<1>8. QED
  BY <1>4, <1>6, <1>7 DEF RecoveryInv

LEMMA ElapseKeepsInv ==
  ASSUME RecoveryInv, Elapse
  PROVE  RecoveryInv'
<1>1. /\ UNCHANGED <<channels, up, changed, attempt, marked, checker, due, began, probe, seen>>
      /\ Tick /\ ~ Due /\ ~ PassOver
      /\ checker = "idle" => clock' <= due
      /\ \A c \in Ids : probe[c] = "none" \/ (probe[c] = "running" /\ clock' <= began + ConnectTimeout)
  BY DEF Elapse, Tick, worldVars, checkVars
<1>2. RecoveryTypeOK /\ Clockwork
  BY DEF RecoveryInv
<1>3. ManagerInv'
  BY <1>1, TickKeepsInv DEF RecoveryInv
<1>4. clock' \in Nat /\ clock <= clock' /\ clock' \in 0 .. MaxClock
  BY <1>1, <1>3, Numbers, ManagerAssumption DEF Tick, ManagerInv, ManagerTypeOK
<1>5. checker = "probing" => clock' <= began + ConnectTimeout
  BY <1>1 DEF PassOver
<1>6. changed \in [Ids -> 0 .. clock'] /\ marked \in [Ids -> 0 .. clock']
  BY <1>2, <1>4, Numbers DEF RecoveryTypeOK
<1>7. RecoveryTypeOK'
  BY <1>1, <1>2, <1>3, <1>5, <1>6 DEF RecoveryTypeOK, ManagerInv
<1>8. Clockwork'
  BY <1>1, <1>2, <1>4, Numbers DEF Clockwork, Due
<1>9. \A c \in Ids : Tracked(c)'
  BY <1>1, OthersStayTracked DEF RecoveryInv
<1>10. QED
  BY <1>3, <1>7, <1>8, <1>9 DEF RecoveryInv

-----------------------------------------------------------------------------
LEMMA RecoveryInvHolds == Spec => []RecoveryInv
<1>1. ASSUME RecoveryInv, [Next]_vars
      PROVE  RecoveryInv'
  <2>1. ASSUME NEW c \in Ids,
               Flip(c) \/ Attempt(c) \/ AttemptEnds(c) \/ ProbeEnds(c) \/ JoinNext(c)
        PROVE  RecoveryInv'
    BY <1>1, <2>1, FlipKeepsInv, AttemptKeepsInv, AttemptEndsKeepsInv, ProbeEndsKeepsInv,
       JoinNextKeepsInv
  <2>2. CASE UNCHANGED vars
    <3>1. UNCHANGED <<channels, clock, up, changed, attempt, marked, checker, due, began, probe, seen>>
      BY <2>2 DEF vars, worldVars, checkVars
    <3>2. RecoveryTypeOK' /\ ManagerInv' /\ Clockwork'
      BY <1>1, <3>1
         DEF RecoveryInv, RecoveryTypeOK, ManagerInv, ManagerTypeOK, RecordCoherent, Clockwork
    <3>3. \A c \in Ids : Tracked(c)'
      BY <1>1, <3>1, OthersStayTracked DEF RecoveryInv
    <3>4. QED
      BY <3>2, <3>3 DEF RecoveryInv
  <2>3. QED
    BY <1>1, <2>1, <2>2, StartCheckKeepsInv, FinishCheckKeepsInv, ElapseKeepsInv DEF Next
<1>2. QED
  BY <1>1, InitRecoveryInv, PTL DEF Spec

\* A channel that was left alone for Lag seconds was left alone by a whole
\* pass, and its record is right.
LEMMA SettledAgrees ==
  ASSUME RecoveryInv, NEW c \in Ids, clock > Touched(c) + Lag
  PROVE  Agrees(c)
<1>1. Lag = Span + ConnectTimeout /\ ConnectTimeout \in Nat
  BY RecoveryAssumption DEF Lag, Span
<1>2. Touched(c) < began
  BY <1>1, Numbers, RecoveryAssumption DEF Span
<1>3. Agrees(c) \/ (probe[c] # "none" /\ began <= Touched(c) + Span)
  BY <1>2 DEF Tracked, RecoveryInv
<1>4. ASSUME probe[c] # "none"
      PROVE  clock <= began + ConnectTimeout
  BY <1>4 DEF RecoveryInv, RecoveryTypeOK
<1>5. QED
  BY <1>1, <1>3, <1>4, Numbers

\* The clockwork of the checker and the types.
THEOREM RecoveryTypes == Spec => []RecoveryTypeOK
<1>1. RecoveryInv => RecoveryTypeOK
  BY DEF RecoveryInv
<1>2. QED
  BY <1>1, RecoveryInvHolds, PTL

\* An upstream that has been down for Lag seconds, and has not been marked
\* since, is isolated: for any number of channels, any connect_timeout and any
\* probe_interval above zero, whatever stale verdicts there are.
THEOREM IsolatesInTimeAlways == Spec => []IsolatesInTime
<1>1. RecoveryInv => IsolatesInTime
  BY SettledAgrees DEF IsolatesInTime, Settled, Touched, Agrees
<1>2. QED
  BY <1>1, RecoveryInvHolds, PTL

\* An upstream that has been up for Lag seconds is Healthy again.
THEOREM RejoinsInTimeAlways == Spec => []RejoinsInTime
<1>1. RecoveryInv => RejoinsInTime
  BY SettledAgrees DEF RejoinsInTime, Settled, Touched, Agrees
<1>2. QED
  BY <1>1, RecoveryInvHolds, PTL
=============================================================================
