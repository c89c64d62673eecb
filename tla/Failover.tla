------------------------------ MODULE Failover ------------------------------
(***************************************************************************)
(* What the proxy promises to one client request, without saying how: the  *)
(* routes to the target are ranked once and for all when the request       *)
(* arrives, they are settled strictly in that order, a channel (never the  *)
(* direct route) may be passed over, the first route that works answers,   *)
(* and 502 is the answer only when no route is left.                       *)
(*                                                                         *)
(* Dispatch implements this specification: see Dispatch!FailoverSpec.      *)
(***************************************************************************)
EXTENDS Integers

CONSTANTS
  Requests,   \* the client requests
  NChannels   \* routes 0 .. NChannels - 1 are channels, NChannels is direct

VARIABLES
  ranking,    \* ranking[r][i]: the route request r prefers in i-th place
  fate,       \* fate[r][route]: what became of the route
  outcome     \* outcome[r]: the answer to the client

failoverVars == <<ranking, fate, outcome>>

Direct == NChannels
Routes == 0 .. NChannels
Fates == {"open", "skipped", "failed", "served"}
Outcomes == {"pending", "ok", "bad_gateway", "closed"}

Settled(r, route) == fate[r][route] \in {"skipped", "failed"}

\* It is the turn of the route in place i: every better one is settled.
Turn(r, i) ==
  /\ outcome[r] = "pending"
  /\ fate[r][ranking[r][i]] = "open"
  /\ \A j \in Routes : j < i => Settled(r, ranking[r][j])

Settle(r, i, how) ==
  fate' = [fate EXCEPT ![r][ranking[r][i]] = how]

Init ==
  /\ ranking \in [Requests -> [Routes -> Routes]]
  /\ \A r \in Requests, i, j \in Routes :
       ranking[r][i] = ranking[r][j] => i = j
  /\ fate = [r \in Requests |-> [route \in Routes |-> "open"]]
  /\ outcome = [r \in Requests |-> "pending"]

Skip(r, i) ==
  /\ Turn(r, i) /\ ranking[r][i] # Direct
  /\ Settle(r, i, "skipped")
  /\ UNCHANGED <<ranking, outcome>>

Fail(r, i) ==
  /\ Turn(r, i) /\ Settle(r, i, "failed")
  /\ UNCHANGED <<ranking, outcome>>

Serve(r, i) ==
  /\ Turn(r, i) /\ Settle(r, i, "served")
  /\ outcome' = [outcome EXCEPT ![r] = "ok"]
  /\ UNCHANGED ranking

\* The request ends unanswered: its handler died or its client went away.
Abandon(r) ==
  /\ outcome[r] = "pending"
  /\ outcome' = [outcome EXCEPT ![r] = "closed"]
  /\ UNCHANGED <<ranking, fate>>

Reject(r) ==
  /\ outcome[r] = "pending"
  /\ \A route \in Routes : Settled(r, route)
  /\ outcome' = [outcome EXCEPT ![r] = "bad_gateway"]
  /\ UNCHANGED <<ranking, fate>>

Next ==
  \E r \in Requests :
    \/ \E i \in Routes : Skip(r, i) \/ Fail(r, i) \/ Serve(r, i)
    \/ Reject(r) \/ Abandon(r)

Spec == Init /\ [][Next]_failoverVars

-----------------------------------------------------------------------------
\* The ranking is a permutation of the routes and stays one.
TypeOK ==
  /\ ranking \in [Requests -> [Routes -> Routes]]
  /\ fate \in [Requests -> [Routes -> Fates]]
  /\ outcome \in [Requests -> Outcomes]

\* The direct route is never passed over, so a 502 means that the origin was
\* tried directly and could not be reached, and no channel was left untried
\* except the ones passed over (README: 502 when all channels and the origin
\* are unreachable).
RejectedOnlyWhenExhausted ==
  \A r \in Requests :
    outcome[r] = "bad_gateway" =>
      /\ fate[r][Direct] = "failed"
      /\ \A route \in Routes : Settled(r, route)

\* The answer comes from the best route that was not settled, and the routes
\* below it were left alone (a request is never sent twice once answered).
ServedByBestRoute ==
  \A r \in Requests :
    outcome[r] = "ok" =>
      \E i \in Routes :
        /\ fate[r][ranking[r][i]] = "served"
        /\ \A j \in Routes :
             /\ j < i => Settled(r, ranking[r][j])
             /\ j > i => fate[r][ranking[r][j]] = "open"
=============================================================================
