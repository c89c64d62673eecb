------------------------------- MODULE SshPool -------------------------------
(***************************************************************************)
(* The process-wide SSH session pool of src/upstream/ssh.rs: establish,    *)
(* SshPool::get_or_connect, SshPool::check_idle and the idle reaper.       *)
(*                                                                         *)
(* A task is one call of establish.  It connects at most once, so a        *)
(* session is named by the task that opened it.  The pool's RwLock is      *)
(* never held across an await: each critical section is one action.  The   *)
(* mutex of a session is held across the channel-open, so it is a variable.*)
(*                                                                         *)
(* russh is external: a session may close at any time (peer, keepalive,    *)
(* inactivity), a handle then reports is_closed, and a session that no     *)
(* handle and no stream refers to any more closes.                         *)
(***************************************************************************)
EXTENDS Integers

CONSTANTS
  Tasks,         \* calls of establish
  NoTask,        \* stands for Option::None of a task or session
  Dsns,          \* the SSH upstreams configured
  Faults,        \* what peers may do: subset of {"err", "hang"}
  IdleTimeout,   \* SESSION_IDLE_TIMEOUT, 60 seconds
  ReapPeriod,    \* period of the reaper's ticker, 30 seconds
  MaxClock,      \* bound: the last second of the modelled run
  TimeStep       \* bound: seconds by which the clock advances at a time

ASSUME PoolAssumption ==
  /\ NoTask \notin Tasks
  /\ Faults \subseteq {"err", "hang"}
  /\ IdleTimeout \in Nat
  /\ ReapPeriod \in Nat \ {0}
  /\ MaxClock \in Nat
  /\ TimeStep \in Nat \ {0}

VARIABLES
  pool,       \* SSH_POOL.inner: the one entry, or Empty
  session,    \* session[t]: the session that task t opened
  pc,         \* pc[t]: where the call is
  dsn,        \* dsn[t]: the upstream it is called for
  handle,     \* handle[t]: the session it has a handle of or a stream in
  holder,     \* holder[s]: the task that holds the mutex of session s
  lastUse,    \* history: when session s was last handed to a task
  clock,      \* Instant::now(), in seconds
  nextReap    \* when the reaper's ticker fires next

poolVars == <<pool, lastUse>>
vars == <<pool, session, pc, dsn, handle, holder, lastUse, clock, nextReap>>

Empty == [session |-> NoTask, last_used |-> 0]
Entry == [session : Tasks, last_used : Nat]

Init ==
  /\ pool = Empty
  /\ session = [t \in Tasks |-> "none"]
  /\ pc = [t \in Tasks |-> "idle"]
  /\ dsn \in [Tasks -> Dsns]
  /\ handle = [t \in Tasks |-> NoTask]
  /\ holder = [t \in Tasks |-> NoTask]
  /\ lastUse = [t \in Tasks |-> 0]
  /\ clock = 0
  /\ nextReap = 0

GoTo(t, label) == pc' = [pc EXCEPT ![t] = label]

\* Reference counting of russh sessions: what is left of `sessions` once only
\* the entry p and the handles h refer to them.  A call refers by the Arc that
\* get_or_connect gave it, and its tunnel, later, by the sender in its channel.
Unreferenced(s, p, h) == p.session # s /\ \A t \in Tasks : h[t] # s
Dropped(sessions, p, h) ==
  [s \in Tasks |-> IF sessions[s] = "open" /\ Unreferenced(s, p, h)
                     THEN "closed" ELSE sessions[s]]

\* try_lock().map(is_closed).unwrap_or(false), for the pooled session.
SeenClosed(s) == holder[s] = NoTask /\ session[s] = "closed"

-----------------------------------------------------------------------------
(* SshPool::get_or_connect.                                                *)

Call(t) ==
  /\ pc[t] = "idle"
  /\ GoTo(t, "get")
  /\ UNCHANGED <<poolVars, session, dsn, handle, holder, clock, nextReap>>

\* Fast path: the entry is reused unless it is seen to be closed.  Mutants:
\* last_used is left alone; the session is locked instead of try-locked.
ReuseNoRefresh(t) ==
  /\ pc[t] = "get" /\ pool # Empty /\ ~SeenClosed(pool.session)
  /\ lastUse' = [lastUse EXCEPT ![pool.session] = clock]
  /\ handle' = [handle EXCEPT ![t] = pool.session]
  /\ GoTo(t, "lock")
  /\ UNCHANGED <<pool, session, dsn, holder, clock, nextReap>>

ReuseWhenFree(t) ==
  /\ pc[t] = "get" /\ pool # Empty /\ ~SeenClosed(pool.session)
  /\ holder[pool.session] = NoTask
  /\ pool' = [pool EXCEPT !.last_used = clock]
  /\ lastUse' = [lastUse EXCEPT ![pool.session] = clock]
  /\ handle' = [handle EXCEPT ![t] = pool.session]
  /\ GoTo(t, "lock")
  /\ UNCHANGED <<session, dsn, holder, clock, nextReap>>

Reuse(t) ==
  /\ pc[t] = "get" /\ pool # Empty /\ ~SeenClosed(pool.session)
  /\ pool' = [pool EXCEPT !.last_used = clock]
  /\ lastUse' = [lastUse EXCEPT ![pool.session] = clock]
  /\ handle' = [handle EXCEPT ![t] = pool.session]
  /\ GoTo(t, "lock")
  /\ UNCHANGED <<session, dsn, holder, clock, nextReap>>

\* A closed entry is discarded, and the slow path starts.
Miss(t) ==
  /\ pc[t] = "get"
  /\ pool # Empty => SeenClosed(pool.session)
  /\ pool' = Empty
  /\ GoTo(t, "connect")
  /\ UNCHANGED <<session, dsn, handle, holder, lastUse, clock, nextReap>>

\* Slow path, no lock held: connect and authenticate.
Connected(t) ==
  /\ pc[t] = "connect"
  /\ session' = [session EXCEPT ![t] = "open"]
  /\ handle' = [handle EXCEPT ![t] = t]
  /\ GoTo(t, "store")
  /\ UNCHANGED <<poolVars, dsn, holder, clock, nextReap>>

\* Refused, bad credentials, or no key to offer.
ConnectFailed(t) ==
  /\ "err" \in Faults
  /\ pc[t] = "connect"
  /\ GoTo(t, "failed")
  /\ UNCHANGED <<poolVars, session, dsn, handle, holder, clock, nextReap>>

\* The new session takes the place of whatever entry is there by now; the
\* pool lets go of the old one.
Store(t) ==
  /\ pc[t] = "store"
  /\ pool' = [session |-> t, last_used |-> clock]
  /\ lastUse' = [lastUse EXCEPT ![t] = clock]
  /\ session' = Dropped(session, pool', handle)
  /\ GoTo(t, "lock")
  /\ UNCHANGED <<dsn, handle, holder, clock, nextReap>>

-----------------------------------------------------------------------------
(* The rest of establish: the channel-open under the session's mutex, then *)
(* the stream.                                                             *)

Lock(t) ==
  /\ pc[t] = "lock" /\ holder[handle[t]] = NoTask
  /\ holder' = [holder EXCEPT ![handle[t]] = t]
  /\ GoTo(t, "open")
  /\ UNCHANGED <<poolVars, session, dsn, handle, clock, nextReap>>

ChannelOpened(t) ==
  /\ pc[t] = "open" /\ session[handle[t]] = "open"
  /\ holder' = [holder EXCEPT ![handle[t]] = NoTask]
  /\ GoTo(t, "stream")
  /\ UNCHANGED <<poolVars, session, dsn, handle, clock, nextReap>>

\* The server refuses, or the session is dead.  Mutant: the early return
\* keeps the mutex.
OpenFailedKeepsLock(t) ==
  /\ \/ pc[t] = "open" /\ "err" \in Faults
     \/ pc[t] \in {"open", "open_hung"} /\ session[handle[t]] = "closed"
  /\ handle' = [handle EXCEPT ![t] = NoTask]
  /\ session' = Dropped(session, pool, handle')
  /\ GoTo(t, "failed")
  /\ UNCHANGED <<poolVars, dsn, holder, clock, nextReap>>

OpenFailed(t) ==
  /\ \/ pc[t] = "open" /\ "err" \in Faults
     \/ pc[t] \in {"open", "open_hung"} /\ session[handle[t]] = "closed"
  /\ holder' = [holder EXCEPT ![handle[t]] = NoTask]
  /\ handle' = [handle EXCEPT ![t] = NoTask]
  /\ session' = Dropped(session, pool, handle')
  /\ GoTo(t, "failed")
  /\ UNCHANGED <<poolVars, dsn, clock, nextReap>>

\* The tunnel is over; the stream is dropped.
StreamEnds(t) ==
  /\ pc[t] = "stream"
  /\ handle' = [handle EXCEPT ![t] = NoTask]
  /\ session' = Dropped(session, pool, handle')
  /\ GoTo(t, "done")
  /\ UNCHANGED <<poolVars, dsn, holder, clock, nextReap>>

\* The peer goes silent: neither the slow path nor the channel-open has a
\* deadline (`_timeout_dur` is not used).
Hang(t) ==
  /\ "hang" \in Faults
  /\ \/ pc[t] = "connect" /\ GoTo(t, "connect_hung")
     \/ pc[t] = "open" /\ GoTo(t, "open_hung")
  /\ UNCHANGED <<poolVars, session, dsn, handle, holder, clock, nextReap>>

\* The request that made the call is dropped at one of its awaits, and with it
\* the guard and the handle that the call holds.
Abandon(t) ==
  /\ pc[t] \in {"get", "connect", "connect_hung", "store", "lock", "open", "open_hung"}
  /\ holder' = [s \in Tasks |-> IF holder[s] = t THEN NoTask ELSE holder[s]]
  /\ handle' = [handle EXCEPT ![t] = NoTask]
  /\ session' = Dropped(session, pool, handle')
  /\ GoTo(t, "failed")
  /\ UNCHANGED <<poolVars, dsn, clock, nextReap>>

-----------------------------------------------------------------------------
(* The environment and the reaper.                                         *)

SessionDies(s) ==
  /\ session[s] = "open"
  /\ session' = [session EXCEPT ![s] = "closed"]
  /\ UNCHANGED <<poolVars, pc, dsn, handle, holder, clock, nextReap>>

\* check_idle at a tick.  Mutants: the session is only looked at when its
\* mutex is free; the session is disconnected instead of let go.
ReapUnlessBusy ==
  /\ clock >= nextReap
  /\ nextReap' = nextReap + ReapPeriod
  /\ pool' = IF /\ pool # Empty
                /\ holder[pool.session] = NoTask
                /\ session[pool.session] = "closed" \/ clock - pool.last_used > IdleTimeout
               THEN Empty ELSE pool
  /\ session' = Dropped(session, pool', handle)
  /\ UNCHANGED <<pc, dsn, handle, holder, lastUse, clock>>

ReapDisconnects ==
  /\ clock >= nextReap
  /\ nextReap' = nextReap + ReapPeriod
  /\ IF pool # Empty /\ (SeenClosed(pool.session) \/ clock - pool.last_used > IdleTimeout)
       THEN pool' = Empty /\ session' = [session EXCEPT ![pool.session] = "closed"]
       ELSE UNCHANGED <<pool, session>>
  /\ UNCHANGED <<pc, dsn, handle, holder, lastUse, clock>>

Reap ==
  /\ clock >= nextReap
  /\ nextReap' = nextReap + ReapPeriod
  /\ pool' = IF /\ pool # Empty
                /\ SeenClosed(pool.session) \/ clock - pool.last_used > IdleTimeout
               THEN Empty ELSE pool
  /\ session' = Dropped(session, pool', handle)
  /\ UNCHANGED <<pc, dsn, handle, holder, lastUse, clock>>

\* Time passes.  The reaper only ever waits for the pool's lock, which is
\* held for an instant, so no tick of its is late.
Elapse ==
  /\ clock + TimeStep <= nextReap
  /\ clock + TimeStep <= MaxClock
  /\ clock' = clock + TimeStep
  /\ UNCHANGED <<poolVars, session, pc, dsn, handle, holder, nextReap>>

Terminating ==
  /\ \A t \in Tasks : pc[t] \in {"done", "failed", "connect_hung", "open_hung", "lock"}
  /\ clock + TimeStep > MaxClock /\ clock < nextReap
  /\ UNCHANGED vars

GetStep(t) == Reuse(t) \/ Miss(t)

TaskStep(t) ==
  \/ GetStep(t)
  \/ Connected(t) \/ ConnectFailed(t) \/ Store(t)
  \/ Lock(t) \/ ChannelOpened(t) \/ OpenFailed(t)

Next ==
  \/ \E t \in Tasks : Call(t) \/ TaskStep(t) \/ StreamEnds(t) \/ Hang(t) \/ Abandon(t)
  \/ \E s \in Tasks : SessionDies(s)
  \/ Reap
  \/ Elapse
  \/ Terminating

Spec == Init /\ [][Next]_vars

\* The runtime polls every ready task, the reaper's included, and peers that
\* have not gone silent answer.
FairSpec == Spec /\ \A t \in Tasks : WF_vars(TaskStep(t))

-----------------------------------------------------------------------------
(* Properties.                                                             *)

Labels == {"idle", "get", "connect", "connect_hung", "store", "lock", "open",
           "open_hung", "stream", "done", "failed"}

\* Types; only an authenticated session is ever pooled or used, and whoever
\* holds a mutex is opening a channel under it.
TypeOK ==
  /\ pool # Empty => pool \in Entry /\ session[pool.session] # "none"
  /\ session \in [Tasks -> {"none", "open", "closed"}]
  /\ pc \in [Tasks -> Labels]
  /\ dsn \in [Tasks -> Dsns]
  /\ handle \in [Tasks -> Tasks \cup {NoTask}]
  /\ \A t \in Tasks :
       pc[t] \in {"store", "lock", "open", "open_hung", "stream"} <=>
         handle[t] # NoTask /\ session[handle[t]] # "none"
  /\ holder \in [Tasks -> Tasks \cup {NoTask}]
  /\ \A s, t \in Tasks :
       holder[s] = t <=> pc[t] \in {"open", "open_hung"} /\ handle[t] = s
  /\ lastUse \in [Tasks -> Nat]
  /\ clock \in 0 .. MaxClock
  /\ nextReap \in Nat

\* A live session leaves the pool only after IdleTimeout without a request or
\* because a newer one replaces it, whatever requests and the reaper do at the
\* same time (last_used in get_or_connect and check_idle).
EvictionSparesRecentlyUsed ==
  [][\A s \in Tasks :
       pool.session = s /\ pool'.session # s /\ session[s] = "open" =>
         \/ clock - lastUse[s] > IdleTimeout
         \/ \E t \in Tasks : pc[t] = "store" /\ pool'.session = t]_vars

\* Letting go of a session never cuts the calls that were handed it, which keep
\* its Arc until establish returns, nor the tunnels that run through it: each
\* holds a sender of the session's, and russh ends a session that has no sender
\* left (Dropped).
EvictionSparesTunnels ==
  [][\A s, t \in Tasks :
       /\ pool.session = s /\ pool'.session # s
       /\ session[s] = "open" /\ handle[t] = s
       => session'[s] = "open"]_vars

\* No entry outlives its last request by more than the timeout and one period
\* of the reaper, even if a channel-open is stuck under its mutex
\* ("Sessions idle 60s auto-close").
IdleEntriesGo ==
  pool # Empty => clock - pool.last_used <= IdleTimeout + ReapPeriod

\* A call waits for ever only for its own silent peer, or for the call that
\* holds the mutex of the very session it was handed and whose peer is silent:
\* never for the pool itself (try_lock in get_or_connect), nor because a session
\* died or a channel-open failed.
WaitsForPeer(t) ==
  \/ pc[t] \in {"connect_hung", "open_hung"}
  \/ /\ pc[t] = "lock" /\ holder[handle[t]] # NoTask
     /\ pc[holder[handle[t]]] = "open_hung"
EveryCallEnds ==
  \A t \in Tasks :
    pc[t] # "idle" ~> pc[t] \in {"stream", "done", "failed"} \/ WaitsForPeer(t)

\* "Global SSH session pool (one entry per DSN)": a call uses a session to
\* the server it was called for.
OwnServer ==
  \A t \in Tasks : handle[t] # NoTask => dsn[handle[t]] = dsn[t]
=============================================================================
