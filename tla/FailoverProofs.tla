--------------------------- MODULE FailoverProofs ---------------------------
(***************************************************************************)
(* What the clients may rely on follows from Failover alone, for any       *)
(* number of channels and requests.  The invariants of interest are about  *)
(* answered requests; the strengthening says how the fates of a request    *)
(* that is still pending are ordered.                                      *)
(***************************************************************************)
EXTENDS Failover, TLAPS

\* While r is pending, nothing below an unsettled route has been touched, and
\* the direct route is never passed over.
InOrder(r) ==
  outcome[r] = "pending" =>
    \A i, j \in Routes :
      i < j /\ fate[r][ranking[r][j]] # "open" => Settled(r, ranking[r][i])

Injective(r) == \A i, j \in Routes : ranking[r][i] = ranking[r][j] => i = j

\* A request's part of the invariant.
Safe(r) ==
  /\ Injective(r)
  /\ InOrder(r)
  /\ fate[r][Direct] # "skipped"
  /\ outcome[r] = "bad_gateway" =>
       /\ fate[r][Direct] = "failed"
       /\ \A route \in Routes : Settled(r, route)
  /\ outcome[r] = "ok" =>
       \E i \in Routes :
         /\ fate[r][ranking[r][i]] = "served"
         /\ \A j \in Routes :
              /\ j < i => Settled(r, ranking[r][j])
              /\ j > i => fate[r][ranking[r][j]] = "open"

FailoverInv == NChannels \in Nat /\ TypeOK /\ \A r \in Requests : Safe(r)

LEMMA InitFailoverInv == NChannels \in Nat /\ Init => FailoverInv
BY DEF Init, FailoverInv, Safe, TypeOK, Injective, InOrder, Fates, Outcomes, Routes, Direct

\* What settling the route in place i of r does to the fates.
LEMMA SettleEffect ==
  ASSUME FailoverInv, NEW r \in Requests, NEW i \in Routes, NEW how \in Fates,
         Settle(r, i, how)
  PROVE  /\ fate' \in [Requests -> [Routes -> Fates]]
         /\ \A q \in Requests : q # r => fate'[q] = fate[q]
         /\ fate'[r][ranking[r][i]] = how
         /\ \A j \in Routes : j # i => fate'[r][ranking[r][j]] = fate[r][ranking[r][j]]
         /\ \A route \in Routes : route # ranking[r][i] => fate'[r][route] = fate[r][route]
<1>1. fate \in [Requests -> [Routes -> Fates]] /\ ranking[r] \in [Routes -> Routes] /\ Injective(r)
  BY DEF FailoverInv, Safe, TypeOK
<1>2. fate' = [fate EXCEPT ![r] = [fate[r] EXCEPT ![ranking[r][i]] = how]]
  BY <1>1 DEF Settle
<1>3. [fate[r] EXCEPT ![ranking[r][i]] = how] \in [Routes -> Fates]
  BY <1>1
<1>4. fate' \in [Requests -> [Routes -> Fates]]
  BY <1>1, <1>2, <1>3
<1>5. QED
  BY <1>1, <1>2, <1>4 DEF Injective

LEMMA OthersStaySafe ==
  ASSUME NEW q \in Requests, Safe(q), UNCHANGED <<ranking, fate[q], outcome[q]>>
  PROVE  Safe(q)'
BY DEF Safe, Injective, InOrder, Settled

\* At the turn of the route in place i, all below it are settled and all
\* above it are open.
LEMMA TurnSplits ==
  ASSUME FailoverInv, NEW r \in Requests, NEW i \in Routes, Turn(r, i)
  PROVE  \A j \in Routes :
           /\ j < i => Settled(r, ranking[r][j])
           /\ j > i => fate[r][ranking[r][j]] = "open"
BY DEF FailoverInv, Safe, Turn, InOrder, Settled, Routes

LEMMA SettleKeepsSafe ==
  ASSUME FailoverInv, NEW r \in Requests, NEW i \in Routes, NEW how \in {"skipped", "failed"},
         how = "skipped" => ranking[r][i] # Direct,
         Turn(r, i), Settle(r, i, how), UNCHANGED <<ranking, outcome>>
  PROVE  FailoverInv'
<1>1. how \in Fates /\ Direct \in Routes /\ TypeOK
  BY DEF Fates, Direct, Routes, FailoverInv
<1>2. /\ fate' \in [Requests -> [Routes -> Fates]]
      /\ \A q \in Requests : q # r => fate'[q] = fate[q]
      /\ fate'[r][ranking[r][i]] = how
      /\ \A j \in Routes : j # i => fate'[r][ranking[r][j]] = fate[r][ranking[r][j]]
      /\ \A route \in Routes : route # ranking[r][i] => fate'[r][route] = fate[r][route]
  BY <1>1, SettleEffect
<1>3. \A j \in Routes :
        /\ j < i => Settled(r, ranking[r][j])
        /\ j > i => fate[r][ranking[r][j]] = "open"
  BY TurnSplits
<1>4. outcome[r] = "pending" /\ Safe(r)
  BY DEF Turn, FailoverInv
<1>5. InOrder(r)'
  <2> SUFFICES ASSUME NEW j \in Routes, NEW k \in Routes, j < k,
                      fate'[r][ranking[r][k]] # "open"
               PROVE  Settled(r, ranking[r][j])'
    BY DEF InOrder
  <2>1. CASE k > i
    BY <1>2, <1>3, <2>1 DEF Routes
  <2>2. CASE k <= i
    <3>1. j < i /\ j # i
      BY <2>2 DEF Routes
    <3>2. QED
      BY <1>2, <1>3, <3>1 DEF Settled
  <2>3. QED
    BY <2>1, <2>2 DEF Routes
<1>6. fate'[r][Direct] # "skipped"
  BY <1>1, <1>2, <1>4 DEF Safe
<1>7. Safe(r)'
  BY <1>4, <1>5, <1>6 DEF Safe, Injective
<1>8. \A q \in Requests : q # r => Safe(q)'
  BY <1>2, OthersStaySafe DEF FailoverInv
<1>9. TypeOK'
  BY <1>1, <1>2 DEF TypeOK
<1>10. QED
  BY <1>7, <1>8, <1>9 DEF FailoverInv

LEMMA ServeKeepsSafe ==
  ASSUME FailoverInv, NEW r \in Requests, NEW i \in Routes, Serve(r, i)
  PROVE  FailoverInv'
<1>1. /\ "served" \in Fates /\ Direct \in Routes /\ TypeOK
      /\ Turn(r, i) /\ Settle(r, i, "served") /\ UNCHANGED ranking
      /\ outcome'[r] = "ok"
      /\ outcome' \in [Requests -> Outcomes]
      /\ \A q \in Requests : q # r => outcome'[q] = outcome[q]
  <2>1. outcome \in [Requests -> Outcomes] /\ outcome' = [outcome EXCEPT ![r] = "ok"]
    BY DEF FailoverInv, TypeOK, Serve
  <2>2. "served" \in Fates /\ Direct \in Routes /\ TypeOK
    BY DEF Fates, Direct, Routes, FailoverInv
  <2>3. QED
    BY <2>1, <2>2 DEF Serve, Outcomes
<1>2. /\ fate' \in [Requests -> [Routes -> Fates]]
      /\ \A q \in Requests : q # r => fate'[q] = fate[q]
      /\ fate'[r][ranking[r][i]] = "served"
      /\ \A j \in Routes : j # i => fate'[r][ranking[r][j]] = fate[r][ranking[r][j]]
      /\ \A route \in Routes : route # ranking[r][i] => fate'[r][route] = fate[r][route]
  BY <1>1, SettleEffect
<1>3. \A j \in Routes :
        /\ j < i => Settled(r, ranking[r][j])
        /\ j > i => fate[r][ranking[r][j]] = "open"
  BY <1>1, TurnSplits
<1>4. Safe(r)
  BY DEF FailoverInv
<1>5. \A j \in Routes :
        /\ j < i => Settled(r, ranking[r][j])'
        /\ j > i => fate'[r][ranking[r][j]] = "open"
  BY <1>1, <1>2, <1>3 DEF Settled, Routes
<1>6. fate'[r][Direct] # "skipped"
  BY <1>1, <1>2, <1>4 DEF Safe
<1>7. Safe(r)'
  BY <1>1, <1>2, <1>4, <1>5, <1>6 DEF Safe, Injective, InOrder
<1>8. \A q \in Requests : q # r => Safe(q)'
  BY <1>1, <1>2, OthersStaySafe DEF FailoverInv
<1>9. TypeOK'
  BY <1>1, <1>2 DEF TypeOK
<1>10. QED
  BY <1>7, <1>8, <1>9 DEF FailoverInv

LEMMA EndKeepsSafe ==
  ASSUME FailoverInv, NEW r \in Requests, Reject(r) \/ Abandon(r)
  PROVE  FailoverInv'
<1>1. /\ UNCHANGED <<ranking, fate>>
      /\ outcome' \in [Requests -> Outcomes]
      /\ \A q \in Requests : q # r => outcome'[q] = outcome[q]
      /\ outcome'[r] # "pending" /\ outcome'[r] # "ok"
      /\ TypeOK
      /\ Direct \in Routes
  <2>1. outcome \in [Requests -> Outcomes] /\ TypeOK
    BY DEF FailoverInv, TypeOK
  <2>2. UNCHANGED <<ranking, fate>>
    BY DEF Reject, Abandon
  <2>3. \E answer \in {"bad_gateway", "closed"} : outcome' = [outcome EXCEPT ![r] = answer]
    BY DEF Reject, Abandon
  <2>4. Direct \in Routes
    BY DEF Direct, Routes, FailoverInv
  <2>5. QED
    BY <2>1, <2>2, <2>3, <2>4 DEF Outcomes
<1>2. Safe(r)
  BY DEF FailoverInv
<1>3. outcome'[r] = "bad_gateway" => \A route \in Routes : Settled(r, route)
  BY <1>1 DEF Reject, Abandon, TypeOK
<1>4. Safe(r)'
  BY <1>1, <1>2, <1>3 DEF Safe, Injective, InOrder, Settled
<1>5. \A q \in Requests : q # r => Safe(q)'
  BY <1>1, OthersStaySafe DEF FailoverInv
<1>6. TypeOK'
  BY <1>1 DEF TypeOK
<1>7. QED
  BY <1>4, <1>5, <1>6 DEF FailoverInv

LEMMA FailoverInvHolds == NChannels \in Nat /\ Spec => []FailoverInv
<1>1. ASSUME FailoverInv, [Next]_failoverVars
      PROVE  FailoverInv'
  <2>1. ASSUME NEW r \in Requests, NEW i \in Routes, Skip(r, i) \/ Fail(r, i)
        PROVE  FailoverInv'
    BY <1>1, <2>1, SettleKeepsSafe DEF Skip, Fail
  <2>2. CASE UNCHANGED failoverVars
    BY <1>1, <2>2, OthersStaySafe DEF failoverVars, TypeOK, FailoverInv
  <2>3. QED
    BY <1>1, <2>1, <2>2, ServeKeepsSafe, EndKeepsSafe DEF Next
<1>2. QED
  BY <1>1, InitFailoverInv, PTL DEF Spec

\* 502 means that no route is left: every channel was passed over or failed,
\* and the origin was tried directly.
THEOREM RejectedOnlyWhenExhaustedAlways ==
  NChannels \in Nat /\ Spec => []RejectedOnlyWhenExhausted
<1>1. FailoverInv => RejectedOnlyWhenExhausted
  BY DEF FailoverInv, Safe, RejectedOnlyWhenExhausted
<1>2. QED
  BY <1>1, FailoverInvHolds, PTL

\* An answer comes from the best route that was not settled, and nothing below
\* it in the ranking was touched.
THEOREM ServedByBestRouteAlways ==
  NChannels \in Nat /\ Spec => []ServedByBestRoute
<1>1. FailoverInv => ServedByBestRoute
  BY DEF FailoverInv, Safe, ServedByBestRoute
<1>2. QED
  BY <1>1, FailoverInvHolds, PTL
=============================================================================
