------------------------- MODULE DispatchRefinement -------------------------
(***************************************************************************)
(* Dispatch implements Failover.  The argument: at any time the routes of  *)
(* a request, taken in the order of its ranking, are settled below one     *)
(* place and open from it on, and that place follows from where the task   *)
(* is (pc, pos).  So the route a step settles is the one whose turn it is. *)
(* It also shows that the channel a task is at is still open in its walk,  *)
(* hence that every verdict about it is a new one.                         *)
(***************************************************************************)
EXTENDS DispatchProofs

\* How many routes of r are settled.
Place(r) ==
  IF pc[r] = "reject" THEN NChannels + 1
  ELSE IF pc[r] = "idle" THEN 0
  ELSE IF pc[r] \in {"direct", "direct_forward"}
         THEN IF DirectFirst THEN 0 ELSE NChannels
         ELSE IF DirectFirst THEN pos[r] + 1 ELSE pos[r]

\* The routes below Place(r) are settled and the others are open.
Frontier(r) ==
  \A i \in Routes :
    IF i < Place(r)
      THEN fate[r][Ranking(r)[i]] \in {"skipped", "failed"}
      ELSE fate[r][Ranking(r)[i]] = "open"

WalkOf(r) ==
  /\ outcome[r] = "pending" <=> pc[r] # "done"
  /\ pc[r] \notin AtChannel \cup Silent \cup {"loop"} => pos[r] = 0
  /\ pc[r] \notin Silent \cup {"done"} => Frontier(r)

WalkInv == \A r \in Requests : WalkOf(r)

-----------------------------------------------------------------------------
(* The ranking.                                                            *)

\* A ranking permutes the routes.
LEMMA RankingPermutes ==
  ASSUME TypeOK, NEW r \in Requests
  PROVE  /\ Ranking(r) \in [Routes -> Routes]
         /\ \A i, j \in Routes : Ranking(r)[i] = Ranking(r)[j] => i = j
<1> DEFINE walk == OrderedChannels(req[r].target)
<1>1. /\ walk \in [Ids -> Ids]
      /\ \A i, j \in Ids : walk[i] = walk[j] => i = j
  BY WalkPermutes DEF TypeOK, Request
<1> HIDE DEF walk
<1>2. CASE DirectFirst
  <2>1. Ranking(r) = [i \in Routes |-> IF i = 0 THEN Direct ELSE walk[i - 1]]
    BY <1>2 DEF Ranking, walk
  <2>2. \A i \in Routes : i # 0 => i - 1 \in Ids
    BY ManagerAssumption DEF Routes, Ids
  <2>3. QED
    BY <1>1, <2>1, <2>2, ManagerAssumption DEF Routes, Ids, Direct
<1>3. CASE ~DirectFirst
  <2>1. Ranking(r) = [i \in Routes |-> IF i = NChannels THEN Direct ELSE walk[i]]
    BY <1>3 DEF Ranking, walk
  <2>2. \A i \in Routes : i # NChannels => i \in Ids
    BY ManagerAssumption DEF Routes, Ids
  <2>3. QED
    BY <1>1, <2>1, <2>2, ManagerAssumption DEF Routes, Ids, Direct
<1>4. QED
  BY <1>2, <1>3

\* The route a task is at is the one in place Place(r) of its ranking.
LEMMA PlaceOfRoute ==
  ASSUME TypeOK, NEW r \in Requests
  PROVE  /\ pc[r] \in {"direct", "direct_forward"} =>
              Place(r) \in Routes /\ Ranking(r)[Place(r)] = Direct
         /\ pc[r] \in AtChannel \cup {"loop"} /\ pos[r] < NChannels =>
              /\ Place(r) \in Routes
              /\ Ranking(r)[Place(r)] = Current(r)
              /\ Current(r) # Direct
<1>1. NChannels \in Nat /\ pos[r] \in 0 .. NChannels
  BY ManagerAssumption DEF TypeOK
<1>2. ASSUME pc[r] \in {"direct", "direct_forward"}
      PROVE  Place(r) \in Routes /\ Ranking(r)[Place(r)] = Direct
  BY <1>1, <1>2 DEF Place, Ranking, Routes
<1>3. ASSUME pc[r] \in AtChannel \cup {"loop"}, pos[r] < NChannels
      PROVE  /\ Place(r) \in Routes
             /\ Ranking(r)[Place(r)] = Current(r)
             /\ Current(r) # Direct
  <2>1. Place(r) \in Routes /\ Ranking(r)[Place(r)] = Current(r)
    BY <1>1, <1>3 DEF Place, Ranking, Routes, Current, AtChannel
  <2>2. Current(r) # Direct
    BY <1>1, <1>3, CurrentInRange DEF Ids, Direct
  <2>3. QED
    BY <2>1, <2>2
<1>4. QED
  BY <1>2, <1>3

\* Settling the route whose turn it is moves the frontier by one place.
LEMMA SettleMovesFrontier ==
  ASSUME TypeOK, NEW r \in Requests, Frontier(r), Place(r) \in Routes,
         NEW how \in {"skipped", "failed"},
         fate' = [fate EXCEPT ![r][Ranking(r)[Place(r)]] = how],
         UNCHANGED req, Place(r)' = Place(r) + 1
  PROVE  Frontier(r)'
<1>1. /\ Ranking(r) \in [Routes -> Routes]
      /\ \A i, j \in Routes : Ranking(r)[i] = Ranking(r)[j] => i = j
      /\ Ranking(r)' = Ranking(r)
  BY RankingPermutes DEF Ranking, OrderedChannels
<1>2. fate[r] \in [Routes -> Fates] /\ fate'[r] = [fate[r] EXCEPT ![Ranking(r)[Place(r)]] = how]
  BY DEF TypeOK
<1>3. SUFFICES ASSUME NEW i \in Routes
               PROVE  IF i < Place(r) + 1
                        THEN fate'[r][Ranking(r)[i]] \in {"skipped", "failed"}
                        ELSE fate'[r][Ranking(r)[i]] = "open"
  BY <1>1 DEF Frontier
<1>4. CASE i = Place(r)
  BY <1>1, <1>2, <1>4, ManagerAssumption DEF Routes
<1>5. CASE i # Place(r)
  <2>1. fate'[r][Ranking(r)[i]] = fate[r][Ranking(r)[i]]
    BY <1>1, <1>2, <1>5
  <2>2. i < Place(r) + 1 <=> i < Place(r)
    BY <1>5, ManagerAssumption DEF Routes
  <2>3. QED
    BY <2>1, <2>2 DEF Frontier
<1>6. QED
  BY <1>4, <1>5

-----------------------------------------------------------------------------
(* Every step keeps the frontier where the task is.                        *)

\* A task leaves the walks of the others alone.
LEMMA OthersKeepWalk ==
  ASSUME NEW q \in Requests, WalkOf(q), UNCHANGED req,
         UNCHANGED <<pc[q], pos[q], fate[q], outcome[q]>>
  PROVE  WalkOf(q)'
BY DEF WalkOf, Frontier, Place, Ranking, OrderedChannels

\* The four kinds of step of a task.
Moves(r) == Accept(r) \/ DirectConnected(r) \/ TakeSnapshot(r) \/ TryChannel(r) \/ EndLoop(r)
            \/ HandSession(r) \/ LockSession(r) \/ ChannelConnected(r) \/ Hang(r)
SettlesOne(r) == DirectFailed(r) \/ SkipChannel(r) \/ ChannelFailed(r)
Answers(r) == DirectTunnel(r) \/ DirectForwarded(r) \/ ChannelTunnel(r) \/ ChannelForwarded(r)
GivesUp(r) == Reject(r) \/ Abandon(r)

LEMMA KindsOfSteps ==
  ASSUME NEW r \in Requests, RequestStep(r) \/ Accept(r) \/ Hang(r) \/ Abandon(r)
  PROVE  Moves(r) \/ SettlesOne(r) \/ Answers(r) \/ GivesUp(r)
BY DEF RequestStep, Moves, SettlesOne, Answers, GivesUp

LEMMA MovesKeepWalk ==
  ASSUME TypeOK, WalkInv, NEW r \in Requests, Moves(r)
  PROVE  WalkInv' /\ UNCHANGED <<req, fate, outcome>>
<1>1. /\ NChannels \in Nat
      /\ pc \in [Requests -> Labels]
      /\ pos \in [Requests -> 0 .. NChannels]
      /\ WalkOf(r)
  BY ManagerAssumption DEF TypeOK, WalkInv
<1>2. /\ UNCHANGED <<req, fate, outcome>>
      /\ \A q \in Requests : q # r => UNCHANGED <<pc[q], pos[q]>>
      /\ pc[r] # "done" /\ pc'[r] # "done"
  BY <1>1 DEF Moves, Accept, DirectConnected, TakeSnapshot, TryChannel, EndLoop,
       HandSession, LockSession,
       ChannelConnected, Established, AtChannel, Silent, Hang, GoTo, Apart
<1>3. pc'[r] \notin AtChannel \cup Silent \cup {"loop"} => pos'[r] = 0
  BY <1>1 DEF WalkOf, Moves, Accept, DirectConnected, TakeSnapshot, TryChannel, EndLoop,
       HandSession, LockSession,
       ChannelConnected, Established, AtChannel, Silent, Hang, GoTo, Apart
<1>4. ASSUME Hang(r)
      PROVE  WalkOf(r)'
  BY <1>1, <1>2, <1>3, <1>4 DEF WalkOf, Hang, GoTo, Silent
<1>5. ASSUME ~Hang(r)
      PROVE  WalkOf(r)'
  <2>1. pc[r] \notin Silent \cup {"done"} /\ pc'[r] \notin Silent \cup {"done"}
    BY <1>1, <1>5 DEF Moves, Accept, DirectConnected, TakeSnapshot, TryChannel, EndLoop,
         HandSession, LockSession, ChannelConnected, Established, AtChannel, Silent, GoTo, Apart
  <2>2. Place(r)' = Place(r)
    BY <1>1, <1>5 DEF WalkOf, Place, Moves, Accept, DirectConnected, TakeSnapshot,
         TryChannel, EndLoop, HandSession, LockSession, ChannelConnected, Established,
         AtChannel, Silent, GoTo, Apart
  <2>3. Frontier(r)'
    BY <1>1, <1>2, <2>1, <2>2 DEF WalkOf, Frontier, Ranking, OrderedChannels
  <2>4. QED
    BY <1>1, <1>2, <1>3, <2>3 DEF WalkOf
<1>6. \A q \in Requests : q # r => WalkOf(q)'
  BY <1>2, OthersKeepWalk DEF WalkInv
<1>7. WalkOf(r)'
  BY <1>4, <1>5
<1>8. QED
  BY <1>2, <1>6, <1>7 DEF WalkInv

LEMMA SettlesOneKeepsWalk ==
  ASSUME TypeOK, WalkInv, NEW r \in Requests, SettlesOne(r)
  PROVE  /\ WalkInv' /\ UNCHANGED <<req, outcome>>
         /\ Place(r) \in Routes
         /\ \E how \in {"skipped", "failed"} :
              /\ fate' = [fate EXCEPT ![r][Ranking(r)[Place(r)]] = how]
              /\ how = "skipped" => Ranking(r)[Place(r)] # Direct
<1>1. /\ NChannels \in Nat
      /\ pc \in [Requests -> Labels]
      /\ pos \in [Requests -> 0 .. NChannels]
      /\ WalkOf(r)
  BY ManagerAssumption DEF TypeOK, WalkInv
<1>2. /\ UNCHANGED <<req, outcome>>
      /\ \A q \in Requests : q # r => UNCHANGED <<pc[q], pos[q]>>
      /\ pc[r] \notin Silent \cup {"done"} /\ pc'[r] \notin Silent \cup {"done"}
      /\ pc'[r] \notin AtChannel \cup Silent \cup {"loop"} => pos'[r] = 0
  BY <1>1 DEF WalkOf, SettlesOne, DirectFailed, SkipChannel, ChannelFailed, GoTo, Apart,
       AtChannel, Silent
<1>3. Place(r)' = Place(r) + 1
  BY <1>1 DEF WalkOf, Place, SettlesOne, DirectFailed, SkipChannel, ChannelFailed, GoTo, Apart,
       AtChannel, Silent
<1>4. Place(r) \in Routes
  BY PlaceOfRoute DEF SettlesOne, DirectFailed, SkipChannel, ChannelFailed, TypeOK, AtChannel
<1>5. \E how \in {"skipped", "failed"} :
        /\ fate' = [fate EXCEPT ![r][Ranking(r)[Place(r)]] = how]
        /\ how = "skipped" => Ranking(r)[Place(r)] # Direct
  <2>1. CASE DirectFailed(r)
    BY <2>1, PlaceOfRoute DEF DirectFailed, Fate
  <2>2. CASE SkipChannel(r)
    BY <2>2, PlaceOfRoute DEF SkipChannel, Fate
  <2>3. CASE ChannelFailed(r)
    BY <2>3, PlaceOfRoute DEF ChannelFailed, Fate, TypeOK, AtChannel
  <2>4. QED
    BY <2>1, <2>2, <2>3 DEF SettlesOne
<1>6. Frontier(r)'
  BY <1>1, <1>2, <1>3, <1>4, <1>5, SettleMovesFrontier DEF WalkOf
<1>7. WalkOf(r)'
  BY <1>1, <1>2, <1>6 DEF WalkOf
<1>8. \A q \in Requests : q # r => WalkOf(q)'
  <2>1. \A q \in Requests : q # r => UNCHANGED fate[q]
    BY <1>5 DEF TypeOK
  <2>2. QED
    BY <1>2, <2>1, OthersKeepWalk DEF WalkInv
<1>9. QED
  BY <1>2, <1>4, <1>5, <1>7, <1>8 DEF WalkInv

LEMMA EndsKeepWalk ==
  ASSUME TypeOK, WalkInv, NEW r \in Requests, Answers(r) \/ GivesUp(r)
  PROVE  WalkInv' /\ UNCHANGED req
<1>1. /\ pc \in [Requests -> Labels]
      /\ pos \in [Requests -> 0 .. NChannels]
      /\ outcome \in [Requests -> Outcomes]
      /\ fate \in [Requests -> [Routes -> Fates]]
  BY DEF TypeOK
<1>2. /\ UNCHANGED req
      /\ pc'[r] = "done" /\ pos'[r] = 0 /\ outcome'[r] # "pending"
      /\ \A q \in Requests : q # r => UNCHANGED <<pc[q], pos[q], outcome[q]>>
  BY <1>1, ManagerAssumption DEF Answers, GivesUp, DirectTunnel, DirectForwarded, ChannelTunnel,
       ChannelForwarded, Reject, Abandon, Finish, Apart
<1>3. \A q \in Requests : q # r => UNCHANGED fate[q]
  <2>1. UNCHANGED fate \/ \E route, how : fate' = [fate EXCEPT ![r][route] = how]
    BY DEF Answers, GivesUp, DirectTunnel, DirectForwarded, ChannelTunnel,
         ChannelForwarded, Reject, Abandon, Fate
  <2>2. QED
    BY <1>1, <2>1
<1>4. \A q \in Requests : q # r => WalkOf(q)'
  BY <1>2, <1>3, OthersKeepWalk DEF WalkInv
<1>5. WalkOf(r)'
  BY <1>2 DEF WalkOf
<1>6. QED
  BY <1>2, <1>4, <1>5 DEF WalkInv

\* What is neither a step of a task nor of the environment on its behalf.
LEMMA OtherSteps ==
  ASSUME CheckerStep \/ Elapse \/ Terminating \/ UNCHANGED vars
  PROVE  UNCHANGED requestVars
BY DEF CheckerStep, StartCheck, FinishCheck, ProbeEnds, JoinNext, Elapse, Terminating,
     vars, requestVars

LEMMA WalkInvHolds == Spec => [](DispatchInv /\ WalkInv)
<1>1. Init => WalkInv
  <2> SUFFICES ASSUME Init, NEW r \in Requests
               PROVE  WalkOf(r)
    BY DEF WalkInv
  <2>1. \A i \in Routes : Ranking(r)[i] \in Routes
    BY InitTypeOK, RankingPermutes
  <2>2. Frontier(r)
    BY <2>1 DEF Init, Frontier, Place, Routes
  <2>3. QED
    BY <2>2 DEF Init, WalkOf
<1>2. ASSUME DispatchInv, WalkInv, [Next]_vars
      PROVE  WalkInv'
  <2>1. ASSUME NEW r \in Requests, RequestStep(r) \/ Accept(r) \/ Hang(r) \/ Abandon(r)
        PROVE  WalkInv'
    BY <1>2, <2>1, KindsOfSteps, MovesKeepWalk, SettlesOneKeepsWalk, EndsKeepWalk
       DEF DispatchInv
  <2>2. ASSUME CheckerStep \/ Elapse \/ Terminating \/ UNCHANGED vars
        PROVE  WalkInv'
    BY <1>2, <2>2, OtherSteps, OthersKeepWalk DEF WalkInv, requestVars
  <2>3. QED
    BY <1>2, <2>1, <2>2 DEF Next
<1>3. QED
  BY <1>1, <1>2, DispatchInvHolds, PTL DEF Spec

-----------------------------------------------------------------------------
(* The refinement.                                                         *)

\* Every route has a place in the ranking.
LEMMA RankingOnto ==
  ASSUME TypeOK, NEW r \in Requests, NEW route \in Routes
  PROVE  \E i \in Routes : Ranking(r)[i] = route
<1> DEFINE start == StartIndex(req[r].target)
           walk == RotateLeft(start)
<1>1. req[r].target \in Targets /\ NChannels \in Nat
  BY ManagerAssumption DEF TypeOK, Request
<1>2. ASSUME NEW c \in Ids
      PROVE  \E i \in Ids : walk[i] = c
  <2>1. start \in Ids /\ c \in Ids
    BY <1>1, <1>2, StartInRange DEF Ids
  <2> HIDE DEF start
  <2>2. CASE c >= start
    <3>1. c - start \in Ids /\ walk[c - start] = c
      BY <1>1, <2>1, <2>2 DEF RotateLeft, Ids
    <3>2. QED
      BY <3>1
  <2>3. CASE c < start
    <3>1. c - start + NChannels \in Ids /\ walk[c - start + NChannels] = c
      BY <1>1, <2>1, <2>3 DEF RotateLeft, Ids
    <3>2. QED
      BY <3>1
  <2>4. QED
    BY <2>1, <2>2, <2>3 DEF Ids
<1>3. OrderedChannels(req[r].target) = walk
  BY DEF OrderedChannels
<1> HIDE DEF walk
<1>4. CASE route = Direct
  BY <1>1, <1>4 DEF Ranking, Routes
<1>5. CASE route # Direct
  <2>1. PICK i \in Ids : walk[i] = route
    BY <1>1, <1>2, <1>5 DEF Routes, Ids, Direct
  <2>2. CASE DirectFirst
    <3>1. i + 1 \in Routes /\ Ranking(r)[i + 1] = route
      BY <1>1, <1>3, <2>1, <2>2 DEF Ranking, Routes, Ids
    <3>2. QED
      BY <3>1
  <2>3. CASE ~DirectFirst
    <3>1. i \in Routes /\ Ranking(r)[i] = route
      BY <1>1, <1>3, <2>1, <2>3 DEF Ranking, Routes, Ids
    <3>2. QED
      BY <3>1
  <2>4. QED
    BY <2>2, <2>3
<1>6. QED
  BY <1>4, <1>5

LEMMA InitRefines == Init => F!Init
<1> SUFFICES ASSUME Init
             PROVE  F!Init
  OBVIOUS
<1>1. \A r \in Requests :
        /\ Ranking(r) \in [Routes -> Routes]
        /\ \A i, j \in Routes : Ranking(r)[i] = Ranking(r)[j] => i = j
  BY InitTypeOK, RankingPermutes
<1>2. QED
  BY <1>1 DEF F!Init, F!Routes, Routes, Init

LEMMA MovesStutter ==
  ASSUME UNCHANGED <<req, fate, outcome>>
  PROVE  UNCHANGED F!failoverVars
BY DEF F!failoverVars, Ranking, OrderedChannels

\* It is the turn of the route at the frontier.
LEMMA FrontierTurn ==
  ASSUME TypeOK, WalkInv, NEW r \in Requests, pc[r] \notin Silent \cup {"done"},
         Place(r) \in Routes
  PROVE  F!Turn(r, Place(r))
<1>1. outcome[r] = "pending" /\ Frontier(r)
  BY DEF WalkInv, WalkOf
<1>2. QED
  BY <1>1, ManagerAssumption DEF F!Turn, F!Settled, F!Routes, Routes, Frontier

LEMMA SettlesOneRefines ==
  ASSUME TypeOK, WalkInv, NEW r \in Requests, SettlesOne(r)
  PROVE  F!Next
<1>1. /\ UNCHANGED <<req, outcome>>
      /\ Place(r) \in Routes
      /\ pc[r] \notin Silent \cup {"done"}
  BY SettlesOneKeepsWalk DEF SettlesOne, DirectFailed, SkipChannel, ChannelFailed, Silent
<1>2. F!Turn(r, Place(r))
  BY <1>1, FrontierTurn
<1>3. PICK how \in {"skipped", "failed"} :
        /\ fate' = [fate EXCEPT ![r][Ranking(r)[Place(r)]] = how]
        /\ how = "skipped" => Ranking(r)[Place(r)] # Direct
  BY SettlesOneKeepsWalk
<1>4. UNCHANGED [q \in Requests |-> Ranking(q)]
  BY <1>1 DEF Ranking, OrderedChannels
<1>5. CASE how = "failed"
  BY <1>1, <1>2, <1>3, <1>4, <1>5 DEF F!Next, F!Fail, F!Settle, F!Routes, Routes
<1>6. CASE how = "skipped"
  BY <1>1, <1>2, <1>3, <1>4, <1>6 DEF F!Next, F!Skip, F!Settle, F!Routes, Routes, F!Direct, Direct
<1>7. QED
  BY <1>5, <1>6

LEMMA AnswersRefines ==
  ASSUME TypeOK, WalkInv, NEW r \in Requests, Answers(r)
  PROVE  F!Next
<1>1. /\ pc[r] \notin Silent \cup {"done"}
      /\ UNCHANGED req
      /\ outcome' = [outcome EXCEPT ![r] = "ok"]
  BY DEF Answers, DirectTunnel, DirectForwarded, ChannelTunnel, ChannelForwarded,
       Established, Silent, Finish, Apart
<1>2. /\ Place(r) \in Routes
      /\ fate' = [fate EXCEPT ![r][Ranking(r)[Place(r)]] = "served"]
  <2>1. CASE DirectTunnel(r) \/ DirectForwarded(r)
    BY <2>1, PlaceOfRoute DEF DirectTunnel, DirectForwarded, Fate
  <2>2. CASE ChannelTunnel(r) \/ ChannelForwarded(r)
    BY <2>2, PlaceOfRoute DEF ChannelTunnel, ChannelForwarded, Established, AtChannel, Fate,
         TypeOK
  <2>3. QED
    BY <2>1, <2>2 DEF Answers
<1>3. F!Turn(r, Place(r))
  BY <1>1, <1>2, FrontierTurn
<1>4. UNCHANGED [q \in Requests |-> Ranking(q)]
  BY <1>1 DEF Ranking, OrderedChannels
<1>5. QED
  BY <1>1, <1>2, <1>3, <1>4 DEF F!Next, F!Serve, F!Settle, F!Routes, Routes

LEMMA GivesUpRefines ==
  ASSUME TypeOK, WalkInv, NEW r \in Requests, GivesUp(r)
  PROVE  F!Next
<1>1. outcome[r] = "pending" /\ UNCHANGED <<req, fate>>
  BY DEF WalkInv, WalkOf, GivesUp, Reject, Abandon, MayPanic, Awaiting, AtChannel, Silent,
       Apart
<1>2. UNCHANGED [q \in Requests |-> Ranking(q)]
  BY <1>1 DEF Ranking, OrderedChannels
<1>3. CASE Abandon(r)
  BY <1>1, <1>2, <1>3 DEF Abandon, Finish, F!Next, F!Abandon
<1>4. CASE Reject(r)
  <2>1. Frontier(r) /\ Place(r) = NChannels + 1
    BY <1>4 DEF Reject, WalkInv, WalkOf, Place, Silent
  <2>2. \A i \in Routes : fate[r][Ranking(r)[i]] \in {"skipped", "failed"}
    BY <2>1, ManagerAssumption DEF Frontier, Routes
  <2>3. \A route \in Routes : fate[r][route] \in {"skipped", "failed"}
    BY <2>2, RankingOnto
  <2>4. QED
    BY <1>1, <1>2, <1>4, <2>3
       DEF Reject, Finish, F!Next, F!Reject, F!Settled, F!Routes, Routes
<1>5. QED
  BY <1>3, <1>4 DEF GivesUp

\* The dispatch of requests implements Failover: over stale copies of a table
\* that others are marking, routes are settled in the order of a ranking fixed
\* by the target, and a request is rejected only when all of them are.
THEOREM DispatchImplementsFailover == Spec => FailoverSpec
<1>1. DispatchInv /\ WalkInv /\ [Next]_vars => [F!Next]_(F!failoverVars)
  <2> SUFFICES ASSUME DispatchInv, WalkInv, [Next]_vars
               PROVE  [F!Next]_(F!failoverVars)
    OBVIOUS
  <2>1. ASSUME NEW r \in Requests, RequestStep(r) \/ Accept(r) \/ Hang(r) \/ Abandon(r)
        PROVE  F!Next \/ UNCHANGED F!failoverVars
    BY <2>1, KindsOfSteps, MovesKeepWalk, MovesStutter, SettlesOneRefines, AnswersRefines,
       GivesUpRefines DEF DispatchInv
  <2>2. ASSUME CheckerStep \/ Elapse \/ Terminating \/ UNCHANGED vars
        PROVE  UNCHANGED F!failoverVars
    BY <2>2, OtherSteps, MovesStutter DEF requestVars
  <2>3. QED
    BY <2>1, <2>2 DEF Next
<1>2. QED
  BY <1>1, InitRefines, WalkInvHolds, PTL DEF Spec, FailoverSpec, F!Spec

-----------------------------------------------------------------------------
(* What Failover promises therefore holds of Dispatch.                     *)

FP == INSTANCE FailoverProofs WITH ranking <- [r \in Requests |-> Ranking(r)]

LEMMA SameSpec == F!Spec => FP!Spec
BY PTL DEF F!Spec, F!Init, F!Next, F!failoverVars, F!Skip, F!Fail, F!Serve, F!Reject,
   F!Abandon, F!Turn, F!Settle, F!Settled, F!Routes, F!Direct,
   FP!Spec, FP!Init, FP!Next, FP!failoverVars, FP!Skip, FP!Fail, FP!Serve, FP!Reject,
   FP!Abandon, FP!Turn, FP!Settle, FP!Settled, FP!Routes, FP!Direct

\* A client is told 502 only when the origin was tried directly and failed
\* and every channel failed or was passed over, for any number of channels
\* and requests, however stale the copies of the table.
THEOREM RejectsWhenExhaustedAlways == Spec => []RejectsWhenExhausted
<1>1. NChannels \in Nat
  BY ManagerAssumption
<1>2. Spec => FP!Spec
  BY DispatchImplementsFailover, SameSpec DEF FailoverSpec
<1>3. FP!Spec => []FP!RejectedOnlyWhenExhausted
  BY <1>1, FP!RejectedOnlyWhenExhaustedAlways
<1>4. FP!RejectedOnlyWhenExhausted => RejectsWhenExhausted
  BY DEF RejectsWhenExhausted, F!RejectedOnlyWhenExhausted, F!Routes, F!Direct, F!Settled,
     FP!RejectedOnlyWhenExhausted, FP!Routes, FP!Direct, FP!Settled
<1>5. QED
  BY <1>2, <1>3, <1>4, PTL

\* An answer comes from the best route that was not settled, and no worse one
\* was tried.
THEOREM ServesFromBestAlways == Spec => []ServesFromBest
<1>1. NChannels \in Nat
  BY ManagerAssumption
<1>2. Spec => FP!Spec
  BY DispatchImplementsFailover, SameSpec DEF FailoverSpec
<1>3. FP!Spec => []FP!ServedByBestRoute
  BY <1>1, FP!ServedByBestRouteAlways
<1>4. FP!ServedByBestRoute => ServesFromBest
  BY DEF ServesFromBest, F!ServedByBestRoute, F!Routes, F!Settled,
     FP!ServedByBestRoute, FP!Routes, FP!Settled
<1>5. QED
  BY <1>2, <1>3, <1>4, PTL

-----------------------------------------------------------------------------
(* Verdicts and marks: every verdict about a channel reaches its record in *)
(* the step that brings it, and nothing else changes a record.             *)

\* A channel that a task is trying is open in its walk.
LEMMA TriedIsOpen ==
  ASSUME TypeOK, WalkInv, NEW r \in Requests, pc[r] \in AtChannel
  PROVE  Current(r) \in Ids /\ fate[r][Current(r)] = "open"
<1>1. pos[r] < NChannels
  BY DEF TypeOK
<1>2. /\ Place(r) \in Routes
      /\ Ranking(r)[Place(r)] = Current(r)
  BY <1>1, PlaceOfRoute
<1>3. Frontier(r)
  BY DEF WalkInv, WalkOf, AtChannel, Silent
<1>4. fate[r][Current(r)] = "open"
  BY <1>2, <1>3, ManagerAssumption DEF Frontier, Routes, Place
<1>5. QED
  BY <1>1, <1>4, CurrentInRange

\* A step that gives a route its fate settles that route, of that request.
LEMMA FateOfOne ==
  ASSUME TypeOK, NEW q \in Requests, NEW route, NEW how,
         fate' = [fate EXCEPT ![q][route] = how],
         NEW r \in Requests, NEW c \in Ids, NEW w, w # "open", Settles(r, c, w)
  PROVE  q = r /\ route = c /\ how = w
<1>1. fate \in [Requests -> [Routes -> Fates]] /\ c \in Routes
  BY ManagerAssumption DEF TypeOK, Ids, Routes
<1>2. QED
  BY <1>1 DEF Settles

NoVerdict(c) == ~Failure(c) /\ ~Success(c)
OnlyAbout(c) == \A d \in Ids : d # c => NoVerdict(d)

\* A step brings no verdict and no mark, or one of each that agree.
QuietStep == UNCHANGED channels /\ \A c \in Ids : NoVerdict(c)
GoodNews(c) == MarkHealthy(c) /\ Success(c) /\ ~Failure(c) /\ OnlyAbout(c)
BadNews(c) == MarkUnhealthy(c) /\ Failure(c) /\ ~Success(c) /\ OnlyAbout(c)
VerdictStep == QuietStep \/ \E c \in Ids : GoodNews(c) \/ BadNews(c)

LEMMA RequestVerdict ==
  ASSUME TypeOK, WalkInv, NEW r \in Requests,
         RequestStep(r) \/ Accept(r) \/ Hang(r) \/ Abandon(r)
  PROVE  VerdictStep
<1>1. UNCHANGED probe
  BY DEF RequestStep, Accept, Hang, Abandon, DirectTunnel, DirectConnected, DirectForwarded,
     DirectFailed, TakeSnapshot, SkipChannel, TryChannel, EndLoop, HandSession,
     LockSession, ChannelTunnel, ChannelConnected, ChannelForwarded, ChannelFailed, Reject,
     Apart, checkerVars
<1>2. \A c \in Ids : ~ProbeSays(c, "up") /\ ~ProbeSays(c, "down")
  BY <1>1 DEF ProbeSays
<1>3. ASSUME UNCHANGED <<channels, fate>>
      PROVE  QuietStep
  BY <1>2, <1>3 DEF QuietStep, NoVerdict, Failure, Success, Settles
<1>4. ASSUME NEW how \in {"served", "failed", "skipped"}, NEW route,
             UNCHANGED channels, fate' = [fate EXCEPT ![r][route] = how],
             route = Direct \/ how = "skipped"
      PROVE  QuietStep
  <2>1. ASSUME NEW c \in Ids, NEW q \in Requests, NEW w \in {"served", "failed"}, Settles(q, c, w)
        PROVE  FALSE
    <3>1. route = c /\ how = w
      BY <1>4, <2>1, FateOfOne
    <3>2. c # Direct
      BY ManagerAssumption DEF Ids, Direct
    <3>3. QED
      BY <1>4, <2>1, <3>1, <3>2
  <2>2. QED
    BY <1>2, <1>4, <2>1 DEF QuietStep, NoVerdict, Failure, Success
<1>5. ASSUME NEW how \in {"served", "failed"}, pc[r] \in AtChannel,
             fate' = [fate EXCEPT ![r][Current(r)] = how]
      PROVE  /\ Current(r) \in Ids
             /\ OnlyAbout(Current(r))
             /\ how = "served" => Success(Current(r)) /\ ~Failure(Current(r))
             /\ how = "failed" => Failure(Current(r)) /\ ~Success(Current(r))
  <2>1. Current(r) \in Ids /\ fate[r][Current(r)] = "open"
    BY <1>5, TriedIsOpen
  <2>2. Settles(r, Current(r), how)
    <3>1. fate \in [Requests -> [Routes -> Fates]] /\ Current(r) \in Routes
      BY <2>1, ManagerAssumption DEF TypeOK, Ids, Routes
    <3>2. QED
      BY <1>5, <2>1, <3>1 DEF Settles
  <2>3. ASSUME NEW c \in Ids, NEW q \in Requests, NEW w \in {"served", "failed"}, Settles(q, c, w)
        PROVE  c = Current(r) /\ w = how
    BY <1>5, <2>3, FateOfOne
  <2>4. OnlyAbout(Current(r))
    BY <1>2, <2>3 DEF OnlyAbout, NoVerdict, Failure, Success
  <2>5. how = "served" => Success(Current(r)) /\ ~Failure(Current(r))
    BY <1>2, <2>1, <2>2, <2>3 DEF Failure, Success
  <2>6. how = "failed" => Failure(Current(r)) /\ ~Success(Current(r))
    BY <1>2, <2>1, <2>2, <2>3 DEF Failure, Success
  <2>7. QED
    BY <2>1, <2>4, <2>5, <2>6
<1>6. CASE Moves(r) \/ GivesUp(r)
  BY <1>3, <1>6 DEF VerdictStep, Moves, GivesUp, Accept, Hang, Abandon, DirectConnected,
     TakeSnapshot, TryChannel, EndLoop, HandSession, LockSession, ChannelConnected, Reject
<1>7. CASE DirectTunnel(r) \/ DirectForwarded(r) \/ DirectFailed(r) \/ SkipChannel(r)
  BY <1>4, <1>7 DEF VerdictStep, DirectTunnel, DirectForwarded, DirectFailed, SkipChannel, Fate
<1>8. CASE ChannelTunnel(r) \/ ChannelForwarded(r)
  <2>1. GoodNews(Current(r)) /\ Current(r) \in Ids
    BY <1>5, <1>8 DEF GoodNews, ChannelTunnel, ChannelForwarded, Established, AtChannel, Fate
  <2>2. QED
    BY <2>1 DEF VerdictStep
<1>9. CASE ChannelFailed(r)
  <2>1. BadNews(Current(r)) /\ Current(r) \in Ids
    BY <1>5, <1>9 DEF BadNews, ChannelFailed, AtChannel, Fate
  <2>2. QED
    BY <2>1 DEF VerdictStep
<1>10. QED
  BY <1>6, <1>7, <1>8, <1>9, KindsOfSteps DEF SettlesOne, Answers

LEMMA CheckerVerdict ==
  ASSUME TypeOK, CheckerStep \/ Elapse \/ Terminating \/ UNCHANGED vars
  PROVE  VerdictStep
<1>1. UNCHANGED fate
  BY OtherSteps DEF requestVars
<1>2. \A r \in Requests, c \in Ids : ~Settles(r, c, "served") /\ ~Settles(r, c, "failed")
  BY <1>1 DEF Settles
<1>3. probe \in [Ids -> {"none", "running", "up", "down"}]
  BY DEF TypeOK
<1>4. ASSUME NEW id \in Ids, JoinNext(id)
      PROVE  VerdictStep
  <2>1. \A d \in Ids : d # id => probe'[d] = probe[d]
    BY <1>3, <1>4 DEF JoinNext
  <2>2. OnlyAbout(id)
    BY <1>2, <2>1 DEF OnlyAbout, NoVerdict, Failure, Success, ProbeSays
  <2>3. probe'[id] = "none"
    BY <1>3, <1>4 DEF JoinNext
  <2>4. CASE probe[id] = "up"
    <3>1. GoodNews(id)
      BY <1>2, <1>4, <2>2, <2>3, <2>4 DEF GoodNews, JoinNext, Failure, Success, ProbeSays
    <3>2. QED
      BY <3>1 DEF VerdictStep
  <2>5. CASE probe[id] = "down"
    <3>1. BadNews(id)
      BY <1>2, <1>4, <2>2, <2>3, <2>5 DEF BadNews, JoinNext, Failure, Success, ProbeSays
    <3>2. QED
      BY <3>1 DEF VerdictStep
  <2>6. QED
    BY <1>4, <2>4, <2>5 DEF JoinNext
<1>5. ASSUME ~\E id \in Ids : JoinNext(id)
      PROVE  QuietStep
  <2>1. UNCHANGED channels
    BY <1>5 DEF CheckerStep, StartCheck, FinishCheck, ProbeEnds, Elapse, Tick, Terminating, vars
  <2>2. UNCHANGED probe \/ StartCheck \/ \E id \in Ids : ProbeEnds(id)
    BY <1>5 DEF CheckerStep, FinishCheck, Elapse, Terminating, vars, checkerVars
  <2>3. ASSUME NEW c \in Ids
        PROVE  probe'[c] = "none" => probe[c] = "none"
    BY <1>3, <2>2 DEF StartCheck, ProbeEnds
  <2>4. QED
    BY <1>2, <2>1, <2>3 DEF QuietStep, NoVerdict, Failure, Success, ProbeSays
<1>6. QED
  BY <1>4, <1>5 DEF VerdictStep

LEMMA VerdictsAndMarks ==
  ASSUME TypeOK, WalkInv, [Next]_vars
  PROVE  VerdictStep
BY RequestVerdict, CheckerVerdict DEF Next

\* A mark follows a verdict about its channel and applies it to the record as
\* it is now, not to the copy that a task walks over.
THEOREM MarksFollowVerdictsAlways == Spec => MarksFollowVerdicts
<1> DEFINE Follow ==
      \A c \in Ids :
        channels'[c] # channels[c] =>
          \/ Success(c) /\ channels'[c].failure_count = 0
          \/ /\ Failure(c)
             /\ channels'[c].failure_count = SaturatingInc(channels[c].failure_count)
<1>1. DispatchInv /\ WalkInv /\ [Next]_vars => [Follow]_vars
  <2> SUFFICES ASSUME DispatchInv, WalkInv, [Next]_vars, NEW c \in Ids,
                      channels'[c] # channels[c]
               PROVE  \/ Success(c) /\ channels'[c].failure_count = 0
                      \/ /\ Failure(c)
                         /\ channels'[c].failure_count = SaturatingInc(channels[c].failure_count)
    OBVIOUS
  <2>1. PICK d \in Ids : GoodNews(d) \/ BadNews(d)
    BY VerdictsAndMarks DEF DispatchInv, VerdictStep, QuietStep
  <2>2. channels \in [Ids -> Channel]
    BY DEF DispatchInv, TypeOK, ManagerTypeOK
  <2>3. d = c
    BY <2>1, <2>2 DEF GoodNews, BadNews, MarkHealthy, MarkUnhealthy
  <2>4. CASE GoodNews(c)
    BY <2>2, <2>4 DEF GoodNews, MarkHealthy, Healed
  <2>5. CASE BadNews(c)
    BY <2>2, <2>5 DEF BadNews, MarkUnhealthy, Failed
  <2>6. QED
    BY <2>1, <2>3, <2>4, <2>5
<1>2. QED
  BY <1>1, WalkInvHolds, PTL DEF Spec, MarksFollowVerdicts

\* A verdict takes effect in the step that brings it: a failed channel is
\* isolated from then on, a working one is healthy.
THEOREM VerdictsTakeEffectAlways == Spec => VerdictsTakeEffect
<1> DEFINE Effect ==
      \A c \in Ids :
        /\ Failure(c) => ~ShouldRetry(channels'[c], clock)
        /\ Success(c) => channels'[c].health = "Healthy"
<1>1. DispatchInv /\ WalkInv /\ [Next]_vars => [Effect]_vars
  <2> SUFFICES ASSUME DispatchInv, WalkInv, [Next]_vars, NEW c \in Ids
               PROVE  /\ Failure(c) => ~ShouldRetry(channels'[c], clock)
                      /\ Success(c) => channels'[c].health = "Healthy"
    OBVIOUS
  <2>1. VerdictStep
    BY VerdictsAndMarks DEF DispatchInv
  <2>2. /\ channels \in [Ids -> Channel]
        /\ channels[c].failure_count \in 0 .. MaxFailures
        /\ clock \in Nat
    BY DEF DispatchInv, TypeOK, ManagerTypeOK, Channel
  <2>3. ASSUME Success(c)
        PROVE  channels'[c].health = "Healthy"
    <3>1. GoodNews(c)
      BY <2>1, <2>3 DEF VerdictStep, QuietStep, GoodNews, BadNews, OnlyAbout, NoVerdict
    <3>2. QED
      BY <2>2, <3>1 DEF GoodNews, MarkHealthy, Healed
  <2>4. ASSUME Failure(c)
        PROVE  ~ShouldRetry(channels'[c], clock)
    <3>1. BadNews(c)
      BY <2>1, <2>4 DEF VerdictStep, QuietStep, GoodNews, BadNews, OnlyAbout, NoVerdict
    <3>2. channels'[c] = Failed(channels[c], clock)
      BY <2>2, <3>1 DEF BadNews, MarkUnhealthy
    <3>3. SaturatingInc(channels[c].failure_count) \in Nat \ {0}
      BY <2>2, ManagerAssumption DEF SaturatingInc
    <3>4. Backoff(SaturatingInc(channels[c].failure_count)) \in 3 .. 300
      BY <3>3, BackoffRange
    <3>5. QED
      BY <2>2, <3>2, <3>4 DEF Failed, ShouldRetry, NoTime
  <2>5. QED
    BY <2>3, <2>4
<1>2. QED
  BY <1>1, WalkInvHolds, PTL DEF Spec, VerdictsTakeEffect
=============================================================================
