------------------------------ MODULE Dispatch ------------------------------
(***************************************************************************)
(* How a request finds a route (src/proxy.rs: handle_connect,              *)
(* acquire_tunnel, handle_path_forward, ordered_channels), together with   *)
(* the background health checker (src/upstream/health.rs), over the        *)
(* channel table they share (ChannelManager).                              *)
(*                                                                         *)
(* A request is an asynchronous task: every `.await` on the network is a   *)
(* point where other requests, the probes and the clock run.  The steps    *)
(* between two awaits that touch only the task's own data are merged.      *)
(* What the network does is a choice of the environment, limited by        *)
(* Faults.  The two handlers share one walk over the channels; they differ *)
(* in that a "path" request must also be forwarded and answered on the     *)
(* route before the route counts as working.                               *)
(***************************************************************************)
EXTENDS ChannelManager

CONSTANTS
  Requests,       \* client requests, one task each
  Kinds,          \* the kinds of request sent: subset of AllKinds
  Targets,        \* the "host:port" keys requested
  HashOf,         \* HashOf[t]: the 64-bit SHA-256 prefix of a target key
  Strategy,       \* "Order" or "Hash" (strategy.rs)
  DirectFirst,    \* configuration direct_first
  Dsn,            \* Dsn[id]: its protocol; "socks5" has no user and password
  Sessions,       \* SSH sessions; SshPool says which one a call is handed
  Faults,         \* what the network may do: subset of AllFaults
  ProbeInterval   \* configuration probe_interval, in seconds

\* "err": a connection is refused or times out, or a handshake is rejected.
\* "hang": a peer accepts the connection and then stays silent.
\* "crash": a peer's reply makes the handler panic (an unsolicited SOCKS5
\* method, the end of the stream before the end of the response headers).
\* "leave": a client closes its connection before it is answered.
AllFaults == {"err", "hang", "crash", "leave"}

AllKinds == {"connect", "path"}

ASSUME DispatchAssumption ==
  /\ Kinds \subseteq AllKinds
  /\ HashOf \in [Targets -> Nat]
  /\ Strategy \in {"Order", "Hash"}
  /\ DirectFirst \in BOOLEAN
  /\ Dsn \in [Ids -> {"http", "socks5", "socks5_auth", "ssh"}]
  /\ Faults \subseteq AllFaults
  /\ ProbeInterval \in Nat

VARIABLES
  req,        \* req[r]: kind of request and target key
  pc,         \* pc[r]: where the task of r is
  session,    \* session[r]: the SSH session r was last handed, or NoSession
  snap,       \* snap[r]: the copy of the table the task walks over
  pos,        \* pos[r]: the place in the walk
  fate,       \* history: what became of each route for r
  outcome,    \* outcome[r]: what the client gets
  checker,    \* the health checker task
  probe,      \* probe[id]: the probe task of a channel
  nextProbe   \* when the ticker fires next; NoTime until it is created

requestVars == <<req, pc, session, snap, pos, fate, outcome>>
checkerVars == <<checker, probe, nextProbe>>
vars == <<channels, clock, requestVars, checkerVars>>

Direct == NChannels            \* the route that uses no channel
Routes == 0 .. NChannels
NoSnapshot == [id \in Ids |-> NewChannel]
NoSession == "none"

Request == [kind : Kinds, target : Targets]
Fates == {"open", "skipped", "failed", "served"}
Outcomes == {"pending", "ok", "bad_gateway", "closed"}
Labels == {"idle", "direct", "direct_forward", "order", "loop", "establish",
           "lock", "open", "forward", "reject", "done", "hung", "open_hung"}
\* The labels of a task that is trying the channel at its place, and of one
\* whose own peer is silent.
AtChannel == {"establish", "lock", "open", "forward"}
Silent == {"hung", "open_hung"}

-----------------------------------------------------------------------------
(* The order in which a request tries the channels.                        *)

HashIndex(target) == IF NChannels = 0 THEN 0 ELSE HashOf[target] % NChannels

StartIndex(target) == IF Strategy = "Order" THEN 0 ELSE HashIndex(target)

\* Vec::rotate_left(start).  Mutant: the rotation drops the wrapped part.
RotateWithoutWrap(start) ==
  [i \in Ids |-> IF i + start < NChannels THEN i + start ELSE NChannels - 1]

RotateLeft(start) ==
  [i \in Ids |-> IF i + start < NChannels THEN i + start ELSE i + start - NChannels]

OrderedChannels(target) == RotateLeft(StartIndex(target))

\* The channel request r is at, and what r's snapshot says of it.
Current(r) == OrderedChannels(req[r].target)[pos[r]]
Seen(r) == snap[r][Current(r)]

-----------------------------------------------------------------------------
(* Steps every action is made of.                                          *)

GoTo(r, label) == pc' = [pc EXCEPT ![r] = label]
Fate(r, route, how) == fate' = [fate EXCEPT ![r][route] = how]
\* What no step of a request touches.
Apart == UNCHANGED <<clock, req, session, checkerVars>>

\* The task ends; the copy of the table is dropped with it.
Finish(r, answer) ==
  /\ pc' = [pc EXCEPT ![r] = "done"]
  /\ outcome' = [outcome EXCEPT ![r] = answer]
  /\ snap' = [snap EXCEPT ![r] = NoSnapshot]
  /\ pos' = [pos EXCEPT ![r] = 0]

Init ==
  /\ ManagerInit
  /\ req \in [Requests -> Request]
  /\ pc = [r \in Requests |-> "idle"]
  /\ session = [r \in Requests |-> NoSession]
  /\ snap = [r \in Requests |-> NoSnapshot]
  /\ pos = [r \in Requests |-> 0]
  /\ fate = [r \in Requests |-> [route \in Routes |-> "open"]]
  /\ outcome = [r \in Requests |-> "pending"]
  /\ checker = "start"
  /\ probe = [id \in Ids |-> "none"]
  /\ nextProbe = NoTime

-----------------------------------------------------------------------------
(* The direct route: establish_direct and, for "path", forward_through.    *)

\* A request arrives and its handler starts.
Accept(r) ==
  /\ pc[r] = "idle"
  /\ GoTo(r, IF DirectFirst THEN "direct" ELSE "order")
  /\ UNCHANGED <<channels, snap, pos, fate, outcome>> /\ Apart

\* The origin accepts: a CONNECT tunnel is complete, a path request is sent.
DirectTunnel(r) ==
  /\ pc[r] = "direct" /\ req[r].kind = "connect"
  /\ Fate(r, Direct, "served") /\ Finish(r, "ok")
  /\ UNCHANGED channels /\ Apart

DirectConnected(r) ==
  /\ pc[r] = "direct" /\ req[r].kind = "path"
  /\ GoTo(r, "direct_forward")
  /\ UNCHANGED <<channels, snap, pos, fate, outcome>> /\ Apart

DirectForwarded(r) ==
  /\ pc[r] = "direct_forward"
  /\ Fate(r, Direct, "served") /\ Finish(r, "ok")
  /\ UNCHANGED channels /\ Apart

\* The origin does not answer, or answers badly: with direct_first the
\* channels come next, without it this was the last resort.
DirectFailed(r) ==
  /\ "err" \in Faults
  /\ pc[r] \in {"direct", "direct_forward"}
  /\ Fate(r, Direct, "failed")
  /\ GoTo(r, IF DirectFirst THEN "order" ELSE "reject")
  /\ UNCHANGED <<channels, snap, pos, outcome>> /\ Apart

-----------------------------------------------------------------------------
(* The walk over the channels.                                             *)

\* ordered_channels clones the whole table once, before the loop.
TakeSnapshot(r) ==
  /\ pc[r] = "order"
  /\ snap' = [snap EXCEPT ![r] = channels]
  /\ GoTo(r, "loop")
  /\ UNCHANGED <<channels, pos, fate, outcome>> /\ Apart

\* `if !ch.should_retry() { continue; }` on the clone.  Mutant: a channel not
\* yet probed is skipped like a failed one.
SkipUnlessHealthy(r) ==
  /\ pc[r] = "loop" /\ pos[r] < NChannels
  /\ Seen(r).health # "Healthy"
  /\ Fate(r, Current(r), "skipped")
  /\ pos' = [pos EXCEPT ![r] = @ + 1]
  /\ UNCHANGED <<channels, snap, pc, outcome>> /\ Apart

SkipChannel(r) ==
  /\ pc[r] = "loop" /\ pos[r] < NChannels
  /\ ~ShouldRetry(Seen(r), clock)
  /\ Fate(r, Current(r), "skipped")
  /\ pos' = [pos EXCEPT ![r] = @ + 1]
  /\ UNCHANGED <<channels, snap, pc, outcome>> /\ Apart

\* establish_via_dsn is called and awaits the network.
TryChannel(r) ==
  /\ pc[r] = "loop" /\ pos[r] < NChannels
  /\ ShouldRetry(Seen(r), clock)
  /\ GoTo(r, "establish")
  /\ UNCHANGED <<channels, snap, pos, fate, outcome>> /\ Apart

\* The loop is over; the direct route is the last resort unless it was first.
\* Mutants: it is left out; direct_first is ignored here.
EndLoopReject(r) ==
  /\ pc[r] = "loop" /\ pos[r] = NChannels
  /\ GoTo(r, "reject")
  /\ snap' = [snap EXCEPT ![r] = NoSnapshot]
  /\ pos' = [pos EXCEPT ![r] = 0]
  /\ UNCHANGED <<channels, fate, outcome>> /\ Apart

EndLoopDirect(r) ==
  /\ pc[r] = "loop" /\ pos[r] = NChannels
  /\ GoTo(r, "direct")
  /\ snap' = [snap EXCEPT ![r] = NoSnapshot]
  /\ pos' = [pos EXCEPT ![r] = 0]
  /\ UNCHANGED <<channels, fate, outcome>> /\ Apart

EndLoop(r) ==
  /\ pc[r] = "loop" /\ pos[r] = NChannels
  /\ GoTo(r, IF DirectFirst THEN "reject" ELSE "direct")
  /\ snap' = [snap EXCEPT ![r] = NoSnapshot]
  /\ pos' = [pos EXCEPT ![r] = 0]
  /\ UNCHANGED <<channels, fate, outcome>> /\ Apart

\* ssh::establish: get_or_connect hands the task some session, the task waits
\* for its mutex behind whoever opens a channel through it, then opens its own.
HandSession(r) ==
  /\ pc[r] = "establish" /\ Dsn[Current(r)] = "ssh"
  /\ \E s \in Sessions : session' = [session EXCEPT ![r] = s]
  /\ GoTo(r, "lock")
  /\ UNCHANGED <<channels, clock, req, snap, pos, fate, outcome, checkerVars>>

\* Mutant: the guard lives on while the stream is used.
HoldsWhileForwarding(q) == pc[q] \in {"open", "open_hung", "forward", "hung"}

Holds(q) == pc[q] \in {"open", "open_hung"}

LockSession(r) ==
  /\ pc[r] = "lock"
  /\ ~ \E q \in Requests : Holds(q) /\ session[q] = session[r]
  /\ GoTo(r, "open")
  /\ UNCHANGED <<channels, snap, pos, fate, outcome>> /\ Apart

\* establish_via_dsn has its stream next: over SSH the channel-open is the
\* last of its awaits, and the mutex is released with it.
Established(r) ==
  \/ pc[r] = "open"
  \/ pc[r] = "establish" /\ Dsn[Current(r)] # "ssh"

\* The channel leads to the target: it is marked and a CONNECT is answered.
ChannelTunnel(r) ==
  /\ Established(r) /\ req[r].kind = "connect"
  /\ MarkHealthy(Current(r))
  /\ Fate(r, Current(r), "served") /\ Finish(r, "ok")
  /\ Apart

\* A path request is forwarded first, and marks the channel only when the
\* response headers have arrived.
ChannelConnected(r) ==
  /\ Established(r) /\ req[r].kind = "path"
  /\ GoTo(r, "forward")
  /\ UNCHANGED <<channels, snap, pos, fate, outcome>> /\ Apart

ChannelForwarded(r) ==
  /\ pc[r] = "forward"
  /\ MarkHealthy(Current(r))
  /\ Fate(r, Current(r), "served") /\ Finish(r, "ok")
  /\ Apart

\* Either step fails: the channel is marked and the loop goes on.  Mutants:
\* the next channel is passed over with it; the mark is computed from the
\* clone and written back.
ChannelFailedSkipsNext(r) ==
  /\ "err" \in Faults
  /\ pc[r] \in {"establish", "open", "forward"}
  /\ MarkUnhealthy(Current(r))
  /\ Fate(r, Current(r), "failed")
  /\ pos' = [pos EXCEPT ![r] = IF @ + 2 > NChannels THEN NChannels ELSE @ + 2]
  /\ GoTo(r, "loop")
  /\ UNCHANGED <<snap, outcome>> /\ Apart

ChannelFailedFromClone(r) ==
  /\ "err" \in Faults
  /\ pc[r] \in {"establish", "open", "forward"}
  /\ channels' = [channels EXCEPT ![Current(r)] =
       [health |-> "Unhealthy", last_failure |-> clock,
        failure_count |-> SaturatingInc(Seen(r).failure_count)]]
  /\ Fate(r, Current(r), "failed")
  /\ pos' = [pos EXCEPT ![r] = @ + 1]
  /\ GoTo(r, "loop")
  /\ UNCHANGED <<snap, outcome>> /\ Apart

ChannelFailed(r) ==
  /\ "err" \in Faults
  /\ pc[r] \in {"establish", "open", "forward"}
  /\ MarkUnhealthy(Current(r))
  /\ Fate(r, Current(r), "failed")
  /\ pos' = [pos EXCEPT ![r] = @ + 1]
  /\ GoTo(r, "loop")
  /\ UNCHANGED <<snap, outcome>> /\ Apart

\* 502 Bad Gateway.
Reject(r) ==
  /\ pc[r] = "reject"
  /\ Finish(r, "bad_gateway")
  /\ UNCHANGED <<channels, fate>> /\ Apart

-----------------------------------------------------------------------------
(* Peers that are worse than an error.                                     *)

\* A peer goes silent where the task awaits it without a deadline: in the
\* proxy handshakes after the TCP connect, the SSH connect and authentication,
\* make_tls and the request write of forward_through, and the channel-open,
\* which keeps the mutex of its session for as long.
Hang(r) ==
  /\ "hang" \in Faults
  /\ \/ pc[r] \in {"establish", "forward", "direct_forward"} /\ GoTo(r, "hung")
     \/ pc[r] = "open" /\ GoTo(r, "open_hung")
  /\ UNCHANGED <<channels, snap, pos, fate, outcome>> /\ Apart

\* Where a panic can unwind the task of the connection.
MayPanic(r) ==
  \/ pc[r] \in {"forward", "direct_forward"}
  \/ pc[r] = "establish" /\ Dsn[Current(r)] = "socks5"

\* Where the task awaits the network or a mutex, and is dropped by hyper, with
\* the mutex it holds, if the client's connection ends meanwhile.
Awaiting(r) == pc[r] \in {"direct", "direct_forward"} \cup AtChannel \cup Silent

\* The task is gone from one await to the next: no mark, no answer.
Abandon(r) ==
  /\ \/ "crash" \in Faults /\ MayPanic(r)
     \/ "leave" \in Faults /\ Awaiting(r)
  /\ Finish(r, "closed")
  /\ UNCHANGED <<channels, fate>> /\ Apart

-----------------------------------------------------------------------------
(* The health checker: one task that starts a probe task per channel and   *)
(* applies their results, in whatever order they end.                      *)

\* run_check starts, at once the first time and then at every tick; missed
\* ticks are made up for (the ticker's default).
StartCheck ==
  /\ \/ checker = "start" /\ UNCHANGED nextProbe
     \/ /\ checker = "idle" /\ clock >= nextProbe
        /\ nextProbe' = nextProbe + ProbeInterval
  /\ checker' = "probing"
  /\ probe' = [id \in Ids |-> "running"]
  /\ UNCHANGED <<channels, clock, requestVars>>

\* A probe is a TCP connect under a timeout: it always ends.
ProbeEnds(id) ==
  /\ probe[id] = "running"
  /\ \E result \in {"up"} \cup (IF "err" \in Faults THEN {"down"} ELSE {}) :
       probe' = [probe EXCEPT ![id] = result]
  /\ UNCHANGED <<channels, clock, checker, nextProbe, requestVars>>

\* join_next delivers a finished probe and its verdict is applied.
\* Mutants: only bad news is applied; the finished probe stays in the set.
JoinOnlyDown(id) ==
  /\ \/ probe[id] = "up" /\ UNCHANGED channels
     \/ probe[id] = "down" /\ MarkUnhealthy(id)
  /\ probe' = [probe EXCEPT ![id] = "none"]
  /\ UNCHANGED <<clock, checker, nextProbe, requestVars>>

JoinKeeps(id) ==
  /\ \/ probe[id] = "up" /\ MarkHealthy(id)
     \/ probe[id] = "down" /\ MarkUnhealthy(id)
  /\ UNCHANGED <<clock, checkerVars, requestVars>>

JoinNext(id) ==
  /\ \/ probe[id] = "up" /\ MarkHealthy(id)
     \/ probe[id] = "down" /\ MarkUnhealthy(id)
  /\ probe' = [probe EXCEPT ![id] = "none"]
  /\ UNCHANGED <<clock, checker, nextProbe, requestVars>>

\* All results are in.  After the first pass the ticker is created, and a
\* period of zero makes tokio's interval panic: the task dies.
\* Mutant: the pass ends with the first result.
FinishCheckEarly ==
  /\ checker = "probing" /\ (NChannels = 0 \/ \E id \in Ids : probe[id] = "none")
  /\ checker' = "idle" /\ nextProbe' = clock + ProbeInterval
  /\ UNCHANGED <<channels, clock, probe, requestVars>>

FinishCheck ==
  /\ checker = "probing" /\ \A id \in Ids : probe[id] = "none"
  /\ IF nextProbe # NoTime
       THEN checker' = "idle" /\ UNCHANGED nextProbe
       ELSE IF ProbeInterval = 0
              THEN checker' = "dead" /\ UNCHANGED nextProbe
              ELSE checker' = "idle" /\ nextProbe' = clock + ProbeInterval
  /\ UNCHANGED <<channels, clock, probe, requestVars>>

CheckerStep == StartCheck \/ FinishCheck \/ \E id \in Ids : ProbeEnds(id) \/ JoinNext(id)

RequestStep(r) ==
  \/ DirectTunnel(r) \/ DirectConnected(r) \/ DirectForwarded(r) \/ DirectFailed(r)
  \/ TakeSnapshot(r) \/ SkipChannel(r) \/ TryChannel(r) \/ EndLoop(r)
  \/ HandSession(r) \/ LockSession(r)
  \/ ChannelTunnel(r) \/ ChannelConnected(r) \/ ChannelForwarded(r) \/ ChannelFailed(r)
  \/ Reject(r)

\* Time passes (ManagerNext's Tick) whatever the tasks are doing.
Elapse == Tick /\ UNCHANGED <<requestVars, checkerVars>>

\* The peer that holds r up is silent: one of its own, or the one that the
\* channel-open under the mutex of r's session waits for.
HeldUp(r) ==
  \/ pc[r] \in Silent
  \/ /\ pc[r] = "lock"
     /\ \E q \in Requests : pc[q] = "open_hung" /\ session[q] = session[r]

\* The end of a bounded run: nothing else can happen, and nothing is stuck.
Terminating ==
  /\ \A r \in Requests : pc[r] = "done" \/ HeldUp(r)
  /\ checker = "dead" \/ (checker = "idle" /\ clock < nextProbe)
  /\ \A d \in TimeSteps : clock + d > MaxClock
  /\ UNCHANGED vars

Next ==
  \/ \E r \in Requests : Accept(r) \/ RequestStep(r) \/ Hang(r) \/ Abandon(r)
  \/ CheckerStep
  \/ Elapse
  \/ Terminating

Spec == Init /\ [][Next]_vars

\* The runtime polls every task that is ready, and the program's own
\* deadlines end the awaits that have one, so a task that has not been hung
\* by its peer goes on.  Clients, faults and the clock owe nothing.
Fairness ==
  /\ \A r \in Requests : WF_vars(RequestStep(r))
  /\ WF_vars(FinishCheck)
  /\ \A id \in Ids : WF_vars(ProbeEnds(id)) /\ WF_vars(JoinNext(id))

FairSpec == Spec /\ Fairness

-----------------------------------------------------------------------------
(* Properties.                                                             *)

\* Types of every variable; a walk never leaves the table, and probe tasks
\* exist only during a pass of the checker.
TypeOK ==
  /\ ManagerTypeOK
  /\ req \in [Requests -> Request]
  /\ pc \in [Requests -> Labels]
  /\ snap \in [Requests -> [Ids -> Channel]]
  /\ pos \in [Requests -> 0 .. NChannels]
  /\ session \in [Requests -> Sessions \cup {NoSession}]
  /\ \A r \in Requests : pc[r] \in AtChannel => pos[r] < NChannels
  /\ fate \in [Requests -> [Routes -> Fates]]
  /\ outcome \in [Requests -> Outcomes]
  /\ checker \in {"start", "probing", "idle", "dead"}
  /\ probe \in [Ids -> {"none", "running", "up", "down"}]
  /\ checker # "probing" => probe = [id \in Ids |-> "none"]
  /\ nextProbe \in Nat \cup {NoTime}

\* The routes of r from the most to the least preferred.
Ranking(r) ==
  [i \in Routes |->
     IF DirectFirst
       THEN IF i = 0 THEN Direct ELSE OrderedChannels(req[r].target)[i - 1]
       ELSE IF i = NChannels THEN Direct ELSE OrderedChannels(req[r].target)[i]]

F == INSTANCE Failover WITH ranking <- [r \in Requests |-> Ranking(r)]

\* The two handlers, over stale copies of a table that others are marking,
\* still settle the routes one at a time in a ranking fixed by the target
\* alone, never twice, never the direct route unattempted, and give up only
\* when all are settled (acquire_tunnel, handle_path_forward).
FailoverSpec == F!Spec

\* What the promise means for a client, here and in Failover: a 502 says that
\* the origin was tried directly and failed and that every channel was settled
\* (README: all channels and the origin are unreachable) ...
RejectsWhenExhausted == F!RejectedOnlyWhenExhausted

\* ... and an answer comes from the best route that was not settled, the
\* routes below it left alone (the request is not sent a second time).
ServesFromBest == F!ServedByBestRoute

\* Step of r that settles the channel c in the given way.
Settles(r, c, how) == fate[r][c] = "open" /\ fate'[r][c] = how

ProbeSays(c, verdict) == probe[c] = verdict /\ probe'[c] = "none"

Failure(c) == ProbeSays(c, "down") \/ \E r \in Requests : Settles(r, c, "failed")
Success(c) == ProbeSays(c, "up") \/ \E r \in Requests : Settles(r, c, "served")

\* No lost and no misdirected mark: the record of a channel changes only in
\* a step that brings a verdict about that very channel, and by exactly that
\* verdict applied to the current record (not to anyone's older copy).
MarksFollowVerdicts ==
  [][\A c \in Ids :
       channels'[c] # channels[c] =>
         \/ Success(c) /\ channels'[c].failure_count = 0
         \/ /\ Failure(c)
            /\ channels'[c].failure_count = SaturatingInc(channels[c].failure_count)]_vars

\* No verdict is dropped: from the step that brings it on, a new request
\* finds a failed channel isolated and a working one usable.
VerdictsTakeEffect ==
  [][\A c \in Ids :
       /\ Failure(c) => ~ShouldRetry(channels'[c], clock)
       /\ Success(c) => channels'[c].health = "Healthy"]_vars

\* A copy of the table never holds a failure the table has not seen.
SnapshotsLagBehind ==
  \A r \in Requests, c \in Ids : snap[r][c].last_failure <= channels[c].last_failure

\* A request passes over a channel only on evidence: the table itself shows a
\* failure of that channel in the last 300 seconds, however old the copy is
\* by which the request decided.
SkipsOnEvidence ==
  [][\A r \in Requests, c \in Ids :
       Settles(r, c, "skipped") =>
         /\ channels[c].last_failure # NoTime
         /\ clock - channels[c].last_failure < 300]_vars

\* A request waits for ever only for a peer that accepted and went silent: a
\* peer of its own or, over SSH, the server that leaves unanswered a
\* channel-open under the mutex of the session it was handed.  Never for the
\* table, the checker, or a request that has its stream and is using it
\* (ssh.rs:219 "Lock during channel-open, release before forwarding").
OnlyPeersDelay ==
  \A r \in Requests : pc[r] # "idle" ~> pc[r] = "done" \/ HeldUp(r)

\* README "a failed channel is switched for the next automatically": every
\* request that arrives is answered, unless its handler dies or its client
\* leaves.
EveryRequestEnds ==
  \A r \in Requests : pc[r] # "idle" ~> pc[r] = "done"

\* Every pass of the health checker ends.
EveryCheckEnds == checker = "probing" ~> checker # "probing"
=============================================================================
