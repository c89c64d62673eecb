---------------------------- MODULE SshPoolProofs ----------------------------
(***************************************************************************)
(* The safety of the session pool, for any number of calls, any timeouts   *)
(* and any faults of the peers.  TypeOK is not inductive: that a mutex is  *)
(* held by the call that opens a channel under it needs every other call   *)
(* to have no handle, and that entries go in time needs the reaper's       *)
(* clockwork and last_used to be the time of the last use.                 *)
(***************************************************************************)
EXTENDS SshPool, TLAPS

\* A call that is not using a session holds no handle; one that has just
\* connected holds the handle of its own session.
HandlesFit ==
  \A t \in Tasks :
    /\ pc[t] \notin {"store", "lock", "open", "open_hung", "stream"} => handle[t] = NoTask
    /\ pc[t] = "store" => handle[t] = t

\* The next tick is not overdue, and it comes before the entry is too old.
EntryFresh ==
  /\ clock <= nextReap /\ nextReap <= clock + ReapPeriod
  /\ pool # Empty =>
       /\ pool.last_used = lastUse[pool.session] /\ pool.last_used <= clock
       /\ nextReap - pool.last_used <= IdleTimeout + ReapPeriod

PoolInv == TypeOK /\ HandlesFit /\ EntryFresh

-----------------------------------------------------------------------------
LEMMA InitPoolInv == Init => PoolInv
BY PoolAssumption
   DEF Init, PoolInv, TypeOK, HandlesFit, EntryFresh, Empty, Labels

\* Reference counting closes sessions and does nothing else to them.
LEMMA DroppedCloses ==
  ASSUME session \in [Tasks -> {"none", "open", "closed"}], NEW p, NEW h
  PROVE  /\ Dropped(session, p, h) \in [Tasks -> {"none", "open", "closed"}]
         /\ \A s \in Tasks : /\ Dropped(session, p, h)[s] = "none" <=> session[s] = "none"
                             /\ p.session = s => Dropped(session, p, h)[s] = session[s]
                             /\ \A t \in Tasks : h[t] = s => Dropped(session, p, h)[s] = session[s]
BY DEF Dropped, Unreferenced

\* An entry names a task; no entry does not.
LEMMA EntryOrEmpty ==
  ASSUME TypeOK
  PROVE  /\ pool # Empty => /\ pool \in Entry /\ pool.session \in Tasks
                            /\ pool.last_used \in Nat /\ session[pool.session] # "none"
         /\ \A s \in Tasks : pool.session = s => pool # Empty
BY PoolAssumption DEF TypeOK, Entry, Empty

-----------------------------------------------------------------------------
(* Steps of the calls.                                                     *)

\* Steps that only move a call between places where it holds nothing.
LEMMA MovesKeepPoolInv ==
  ASSUME PoolInv, NEW t \in Tasks, Call(t) \/ ConnectFailed(t) \/ Hang(t)
  PROVE  PoolInv'
<1>1. /\ UNCHANGED <<pool, lastUse, session, dsn, handle, holder, clock, nextReap>>
      /\ TypeOK
  BY DEF Call, ConnectFailed, Hang, poolVars, PoolInv
<1>2. PICK to \in {"get", "failed", "connect_hung", "open_hung"} :
        /\ pc' = [pc EXCEPT ![t] = to]
        /\ IF to = "open_hung" THEN pc[t] = "open" ELSE pc[t] \in {"idle", "connect"}
  <2>1. CASE Call(t)
    BY <2>1 DEF Call, GoTo
  <2>2. CASE ConnectFailed(t)
    BY <2>2 DEF ConnectFailed, GoTo
  <2>3. CASE Hang(t)
    BY <2>3 DEF Hang, GoTo
  <2>4. QED
    BY <2>1, <2>2, <2>3
<1>3. pc' \in [Tasks -> Labels] /\ \A u \in Tasks : pc'[u] = IF u = t THEN to ELSE pc[u]
  BY <1>1, <1>2 DEF TypeOK, Labels
<1>4. TypeOK'
  BY <1>1, <1>2, <1>3 DEF TypeOK
<1>5. HandlesFit' /\ EntryFresh'
  BY <1>1, <1>2, <1>3 DEF PoolInv, HandlesFit, EntryFresh
<1>6. QED
  BY <1>4, <1>5 DEF PoolInv

LEMMA ReuseKeepsPoolInv ==
  ASSUME PoolInv, NEW t \in Tasks, Reuse(t)
  PROVE  PoolInv'
<1> DEFINE s == pool.session
<1>1. /\ UNCHANGED <<session, dsn, holder, clock, nextReap>>
      /\ pc[t] = "get" /\ pool # Empty
      /\ pool' = [pool EXCEPT !.last_used = clock]
      /\ lastUse' = [lastUse EXCEPT ![s] = clock]
      /\ handle' = [handle EXCEPT ![t] = s]
      /\ pc' = [pc EXCEPT ![t] = "lock"]
      /\ TypeOK /\ clock \in Nat
  BY PoolAssumption DEF Reuse, GoTo, PoolInv, TypeOK
<1>2. pool \in Entry /\ s \in Tasks /\ session[s] # "none" /\ s # NoTask
  BY <1>1, EntryOrEmpty, PoolAssumption
<1>3. pool' \in Entry /\ pool'.session = s /\ pool'.last_used = clock
  BY <1>1, <1>2 DEF Entry
<1>4. lastUse' \in [Tasks -> Nat] /\ lastUse'[s] = clock
  BY <1>1, <1>2 DEF TypeOK
<1>5. /\ pc' \in [Tasks -> Labels] /\ handle' \in [Tasks -> Tasks \cup {NoTask}]
      /\ pc'[t] = "lock" /\ handle'[t] = s
      /\ \A u \in Tasks : u # t => pc'[u] = pc[u] /\ handle'[u] = handle[u]
  BY <1>1, <1>2 DEF TypeOK, Labels
<1>6. TypeOK'
  BY <1>1, <1>2, <1>3, <1>4, <1>5 DEF TypeOK
<1>7. HandlesFit'
  BY <1>1, <1>5 DEF PoolInv, HandlesFit
<1>8. EntryFresh'
  BY <1>1, <1>3, <1>4, PoolAssumption DEF PoolInv, EntryFresh, TypeOK
<1>9. QED
  BY <1>6, <1>7, <1>8 DEF PoolInv

LEMMA MissKeepsPoolInv ==
  ASSUME PoolInv, NEW t \in Tasks, Miss(t)
  PROVE  PoolInv'
<1>1. /\ UNCHANGED <<session, dsn, handle, holder, lastUse, clock, nextReap>>
      /\ pc[t] = "get" /\ pool' = Empty
      /\ pc' = [pc EXCEPT ![t] = "connect"]
      /\ TypeOK
  BY DEF Miss, GoTo, PoolInv
<1>2. pc' \in [Tasks -> Labels] /\ \A u \in Tasks : pc'[u] = IF u = t THEN "connect" ELSE pc[u]
  BY <1>1 DEF TypeOK, Labels
<1>3. TypeOK'
  BY <1>1, <1>2 DEF TypeOK, Empty
<1>4. HandlesFit' /\ EntryFresh'
  BY <1>1, <1>2 DEF PoolInv, HandlesFit, EntryFresh, Empty
<1>5. QED
  BY <1>3, <1>4 DEF PoolInv

LEMMA ConnectedKeepsPoolInv ==
  ASSUME PoolInv, NEW t \in Tasks, Connected(t)
  PROVE  PoolInv'
<1>1. /\ UNCHANGED <<pool, lastUse, dsn, holder, clock, nextReap>>
      /\ pc[t] = "connect" /\ handle[t] = NoTask
      /\ session' = [session EXCEPT ![t] = "open"]
      /\ handle' = [handle EXCEPT ![t] = t]
      /\ pc' = [pc EXCEPT ![t] = "store"]
      /\ TypeOK
  BY DEF Connected, GoTo, poolVars, PoolInv, HandlesFit
<1>2. /\ pc' \in [Tasks -> Labels] /\ handle' \in [Tasks -> Tasks \cup {NoTask}]
      /\ pc'[t] = "store" /\ handle'[t] = t
      /\ \A u \in Tasks : u # t => pc'[u] = pc[u] /\ handle'[u] = handle[u]
  BY <1>1 DEF TypeOK, Labels
<1>3. /\ session' \in [Tasks -> {"none", "open", "closed"}]
      /\ session'[t] # "none"
      /\ \A u \in Tasks : session[u] # "none" => session'[u] # "none"
  BY <1>1 DEF TypeOK
<1>4. TypeOK'
  <2>1. pool' # Empty => pool' \in Entry /\ session'[pool'.session] # "none"
    BY <1>1, <1>3, EntryOrEmpty
  <2>2. \A u \in Tasks :
          pc'[u] \in {"store", "lock", "open", "open_hung", "stream"} <=>
            handle'[u] # NoTask /\ session'[handle'[u]] # "none"
    BY <1>1, <1>2, <1>3, PoolAssumption DEF PoolInv, TypeOK, HandlesFit
  <2>3. \A a, u \in Tasks :
          holder'[a] = u <=> pc'[u] \in {"open", "open_hung"} /\ handle'[u] = a
    BY <1>1, <1>2 DEF TypeOK
  <2>4. QED
    BY <1>1, <1>2, <1>3, <2>1, <2>2, <2>3 DEF TypeOK
<1>5. HandlesFit' /\ EntryFresh'
  BY <1>1, <1>2 DEF PoolInv, HandlesFit, EntryFresh
<1>6. QED
  BY <1>4, <1>5 DEF PoolInv

LEMMA StoreKeepsPoolInv ==
  ASSUME PoolInv, NEW t \in Tasks, Store(t)
  PROVE  PoolInv'
<1>1. /\ UNCHANGED <<dsn, handle, holder, clock, nextReap>>
      /\ pc[t] = "store" /\ handle[t] = t
      /\ pool' = [session |-> t, last_used |-> clock]
      /\ lastUse' = [lastUse EXCEPT ![t] = clock]
      /\ session' = Dropped(session, pool', handle)
      /\ pc' = [pc EXCEPT ![t] = "lock"]
      /\ TypeOK /\ clock \in Nat /\ t # NoTask
  BY PoolAssumption DEF Store, GoTo, PoolInv, HandlesFit, TypeOK
<1>2. /\ session' \in [Tasks -> {"none", "open", "closed"}]
      /\ \A s \in Tasks : session'[s] = "none" <=> session[s] = "none"
  BY <1>1, DroppedCloses DEF TypeOK
<1>3. pc' \in [Tasks -> Labels] /\ \A u \in Tasks : pc'[u] = IF u = t THEN "lock" ELSE pc[u]
  BY <1>1 DEF TypeOK, Labels
<1>4. lastUse' \in [Tasks -> Nat] /\ lastUse'[t] = clock
  BY <1>1 DEF TypeOK
<1>5. TypeOK'
  <2>1. pool' \in Entry /\ session'[pool'.session] # "none"
    BY <1>1, <1>2 DEF Entry, TypeOK
  <2>2. \A u \in Tasks :
          pc'[u] \in {"store", "lock", "open", "open_hung", "stream"} <=>
            handle'[u] # NoTask /\ session'[handle'[u]] # "none"
    BY <1>1, <1>2, <1>3 DEF TypeOK
  <2>3. \A a, u \in Tasks :
          holder'[a] = u <=> pc'[u] \in {"open", "open_hung"} /\ handle'[u] = a
    BY <1>1, <1>3 DEF TypeOK
  <2>4. QED
    BY <1>1, <1>2, <1>3, <1>4, <2>1, <2>2, <2>3 DEF TypeOK
<1>6. HandlesFit'
  BY <1>1, <1>3 DEF PoolInv, HandlesFit
<1>7. EntryFresh'
  BY <1>1, <1>4, PoolAssumption DEF PoolInv, EntryFresh, TypeOK
<1>8. QED
  BY <1>5, <1>6, <1>7 DEF PoolInv

\* Taking the mutex, and giving it back with a stream.
LEMMA MutexKeepsPoolInv ==
  ASSUME PoolInv, NEW t \in Tasks, Lock(t) \/ ChannelOpened(t)
  PROVE  PoolInv'
<1>1. UNCHANGED <<pool, lastUse, session, dsn, handle, clock, nextReap>> /\ TypeOK
  BY DEF Lock, ChannelOpened, poolVars, PoolInv
<1>2. handle[t] \in Tasks
  BY DEF Lock, ChannelOpened, PoolInv, TypeOK
<1>3. \/ /\ pc[t] = "lock" /\ holder[handle[t]] = NoTask
         /\ holder' = [holder EXCEPT ![handle[t]] = t] /\ pc' = [pc EXCEPT ![t] = "open"]
      \/ /\ pc[t] = "open" /\ holder[handle[t]] = t
         /\ holder' = [holder EXCEPT ![handle[t]] = NoTask] /\ pc' = [pc EXCEPT ![t] = "stream"]
  BY <1>1, <1>2 DEF Lock, ChannelOpened, GoTo, TypeOK
<1>4. /\ pc' \in [Tasks -> Labels] /\ holder' \in [Tasks -> Tasks \cup {NoTask}]
      /\ \A u \in Tasks : u # t => pc'[u] = pc[u]
      /\ \A s \in Tasks : s # handle[t] => holder'[s] = holder[s]
      /\ pc'[t] \in {"open", "stream"}
      /\ holder'[handle[t]] = IF pc'[t] = "open" THEN t ELSE NoTask
  BY <1>1, <1>2, <1>3 DEF TypeOK, Labels
<1>5. TypeOK'
  <2>1. \A u \in Tasks :
          pc'[u] \in {"store", "lock", "open", "open_hung", "stream"} <=>
            handle'[u] # NoTask /\ session'[handle'[u]] # "none"
    BY <1>1, <1>3, <1>4 DEF TypeOK
  <2>2. ASSUME NEW s \in Tasks, NEW u \in Tasks
        PROVE  holder'[s] = u <=> pc'[u] \in {"open", "open_hung"} /\ handle'[u] = s
    <3>1. CASE s = handle[t]
      BY <1>1, <1>2, <1>3, <1>4, <3>1, PoolAssumption DEF TypeOK
    <3>2. CASE s # handle[t]
      BY <1>1, <1>3, <1>4, <3>2 DEF TypeOK
    <3>3. QED
      BY <3>1, <3>2
  <2>3. QED
    BY <1>1, <1>4, <2>1, <2>2 DEF TypeOK
<1>6. HandlesFit' /\ EntryFresh'
  BY <1>1, <1>3, <1>4 DEF PoolInv, HandlesFit, EntryFresh
<1>7. QED
  BY <1>5, <1>6 DEF PoolInv

\* A call ends: it lets go of its handle, and of the mutex if it has it.
LEMMA EndKeepsPoolInv ==
  ASSUME PoolInv, NEW t \in Tasks, OpenFailed(t) \/ StreamEnds(t) \/ Abandon(t)
  PROVE  PoolInv'
<1>1. /\ UNCHANGED <<pool, lastUse, dsn, clock, nextReap>> /\ TypeOK
      /\ handle' = [handle EXCEPT ![t] = NoTask]
      /\ session' = Dropped(session, pool, handle')
      /\ \E to \in {"failed", "done"} : pc' = [pc EXCEPT ![t] = to]
  BY DEF OpenFailed, StreamEnds, Abandon, GoTo, poolVars, PoolInv
<1>2. /\ session' \in [Tasks -> {"none", "open", "closed"}]
      /\ \A s \in Tasks : session'[s] = "none" <=> session[s] = "none"
  BY <1>1, DroppedCloses DEF TypeOK
<1>3. /\ pc' \in [Tasks -> Labels] /\ handle' \in [Tasks -> Tasks \cup {NoTask}]
      /\ pc'[t] \in {"failed", "done"} /\ handle'[t] = NoTask
      /\ \A u \in Tasks : u # t => pc'[u] = pc[u] /\ handle'[u] = handle[u]
  BY <1>1 DEF TypeOK, Labels
<1>4. /\ holder' \in [Tasks -> Tasks \cup {NoTask}]
      /\ \A s \in Tasks : holder'[s] = IF holder[s] = t THEN NoTask ELSE holder[s]
  <2>1. CASE OpenFailed(t)
    <3>1. /\ handle[t] \in Tasks /\ \A s \in Tasks : holder[s] = t <=> s = handle[t]
          /\ holder' = [holder EXCEPT ![handle[t]] = NoTask]
      BY <1>1, <2>1 DEF OpenFailed, TypeOK
    <3>2. QED
      BY <1>1, <3>1 DEF TypeOK
  <2>2. CASE StreamEnds(t)
    BY <1>1, <2>2 DEF StreamEnds, TypeOK
  <2>3. CASE Abandon(t)
    BY <1>1, <2>3 DEF Abandon, TypeOK
  <2>4. QED
    BY <2>1, <2>2, <2>3
<1>5. TypeOK'
  <2>1. pool' # Empty => pool' \in Entry /\ session'[pool'.session] # "none"
    BY <1>1, <1>2, EntryOrEmpty
  <2>2. ASSUME NEW u \in Tasks
        PROVE  pc'[u] \in {"store", "lock", "open", "open_hung", "stream"} <=>
                 handle'[u] # NoTask /\ session'[handle'[u]] # "none"
    <3>1. CASE u = t
      BY <1>3, <3>1
    <3>2. CASE u # t
      <4>1. handle[u] # NoTask => handle[u] \in Tasks
        BY <1>1 DEF TypeOK
      <4>2. pc[u] \in {"store", "lock", "open", "open_hung", "stream"} <=>
              handle[u] # NoTask /\ session[handle[u]] # "none"
        BY <1>1 DEF TypeOK
      <4>3. pc'[u] = pc[u] /\ handle'[u] = handle[u]
        BY <1>3, <3>2
      <4>4. handle[u] # NoTask =>
              (session'[handle[u]] = "none" <=> session[handle[u]] = "none")
        BY <1>2, <4>1
      <4>5. QED
        BY <4>2, <4>3, <4>4
    <3>3. QED
      BY <3>1, <3>2
  <2>3. \A a, u \in Tasks :
          holder'[a] = u <=> pc'[u] \in {"open", "open_hung"} /\ handle'[u] = a
    BY <1>1, <1>3, <1>4, PoolAssumption DEF TypeOK
  <2>4. QED
    BY <1>1, <1>2, <1>3, <1>4, <2>1, <2>2, <2>3 DEF TypeOK
<1>6. HandlesFit' /\ EntryFresh'
  BY <1>1, <1>3 DEF PoolInv, HandlesFit, EntryFresh
<1>7. QED
  BY <1>5, <1>6 DEF PoolInv

-----------------------------------------------------------------------------
(* Steps of the environment and the reaper.                                *)

LEMMA DiesKeepsPoolInv ==
  ASSUME PoolInv, NEW s \in Tasks, SessionDies(s)
  PROVE  PoolInv'
<1>1. /\ UNCHANGED <<pool, lastUse, pc, dsn, handle, holder, clock, nextReap>> /\ TypeOK
      /\ session' = [session EXCEPT ![s] = "closed"] /\ session[s] = "open"
  BY DEF SessionDies, poolVars, PoolInv
<1>2. /\ session' \in [Tasks -> {"none", "open", "closed"}]
      /\ \A u \in Tasks : session'[u] = "none" <=> session[u] = "none"
  BY <1>1 DEF TypeOK
<1>3. TypeOK'
  BY <1>1, <1>2, EntryOrEmpty DEF TypeOK
<1>4. HandlesFit' /\ EntryFresh'
  BY <1>1 DEF PoolInv, HandlesFit, EntryFresh
<1>5. QED
  BY <1>3, <1>4 DEF PoolInv

LEMMA ReapKeepsPoolInv ==
  ASSUME PoolInv, Reap
  PROVE  PoolInv'
<1>1. /\ UNCHANGED <<lastUse, pc, dsn, handle, holder, clock>> /\ TypeOK
      /\ clock >= nextReap /\ nextReap' = nextReap + ReapPeriod
      /\ session' = Dropped(session, pool', handle)
      /\ pool' \in {pool, Empty}
      /\ pool' # Empty => clock - pool.last_used <= IdleTimeout
  <2>1. pool # Empty => pool.last_used \in Nat /\ clock \in Nat
    BY EntryOrEmpty, PoolAssumption DEF PoolInv, TypeOK
  <2>2. QED
    BY <2>1, PoolAssumption DEF Reap, PoolInv, Empty
<1>2. clock \in Nat /\ nextReap \in Nat /\ nextReap = clock
  BY <1>1, PoolAssumption DEF PoolInv, TypeOK, EntryFresh
<1>3. /\ session' \in [Tasks -> {"none", "open", "closed"}]
      /\ \A u \in Tasks : session'[u] = "none" <=> session[u] = "none"
  BY <1>1, DroppedCloses DEF TypeOK
<1>4. TypeOK'
  BY <1>1, <1>2, <1>3, EntryOrEmpty, PoolAssumption DEF TypeOK
<1>5. HandlesFit'
  BY <1>1 DEF PoolInv, HandlesFit
<1>6. EntryFresh'
  BY <1>1, <1>2, EntryOrEmpty, PoolAssumption DEF PoolInv, EntryFresh
<1>7. QED
  BY <1>4, <1>5, <1>6 DEF PoolInv

LEMMA ElapseKeepsPoolInv ==
  ASSUME PoolInv, Elapse
  PROVE  PoolInv'
<1>1. /\ UNCHANGED <<pool, lastUse, session, pc, dsn, handle, holder, nextReap>> /\ TypeOK
      /\ clock' = clock + TimeStep /\ clock' <= nextReap /\ clock' <= MaxClock
      /\ clock \in Nat /\ nextReap \in Nat
  BY PoolAssumption DEF Elapse, poolVars, PoolInv, TypeOK
<1>2. TypeOK'
  BY <1>1, PoolAssumption DEF TypeOK
<1>3. HandlesFit'
  BY <1>1 DEF PoolInv, HandlesFit
<1>4. EntryFresh'
  <2>1. pool # Empty => pool.last_used \in Nat
    BY <1>1, EntryOrEmpty
  <2>2. QED
    BY <1>1, <2>1, PoolAssumption DEF PoolInv, EntryFresh
<1>5. QED
  BY <1>2, <1>3, <1>4 DEF PoolInv

LEMMA PoolInvHolds == Spec => []PoolInv
<1>1. ASSUME PoolInv, [Next]_vars
      PROVE  PoolInv'
  <2>1. ASSUME NEW t \in Tasks,
               Call(t) \/ TaskStep(t) \/ StreamEnds(t) \/ Hang(t) \/ Abandon(t)
        PROVE  PoolInv'
    BY <1>1, <2>1, MovesKeepPoolInv, ReuseKeepsPoolInv, MissKeepsPoolInv, ConnectedKeepsPoolInv,
       StoreKeepsPoolInv, MutexKeepsPoolInv, EndKeepsPoolInv DEF TaskStep, GetStep
  <2>2. CASE UNCHANGED vars
    BY <1>1, <2>2 DEF vars, poolVars, PoolInv, TypeOK, HandlesFit, EntryFresh
  <2>3. QED
    BY <1>1, <2>1, <2>2, DiesKeepsPoolInv, ReapKeepsPoolInv, ElapseKeepsPoolInv
       DEF Next, Terminating
<1>2. QED
  BY <1>1, InitPoolInv, PTL DEF Spec

\* Types, and who may hold the mutex of a session.
THEOREM PoolTypes == Spec => []TypeOK
<1>1. PoolInv => TypeOK
  BY DEF PoolInv
<1>2. QED
  BY <1>1, PoolInvHolds, PTL

\* No entry outlives its last use by more than the timeout and one period of
\* the reaper, whoever holds its mutex.
THEOREM IdleEntriesGoAlways == Spec => []IdleEntriesGo
<1>1. PoolInv => IdleEntriesGo
  <2> SUFFICES ASSUME PoolInv, pool # Empty
               PROVE  clock - pool.last_used <= IdleTimeout + ReapPeriod
    BY DEF IdleEntriesGo
  <2>1. pool.last_used \in Nat /\ clock \in Nat /\ nextReap \in Nat
    BY EntryOrEmpty, PoolAssumption DEF PoolInv, TypeOK
  <2>2. QED
    BY <2>1, PoolAssumption DEF PoolInv, EntryFresh
<1>2. QED
  BY <1>1, PoolInvHolds, PTL

-----------------------------------------------------------------------------
(* The action properties.                                                  *)

\* Only three kinds of steps touch the entry's session.
LEMMA EntryChanges ==
  ASSUME PoolInv, [Next]_vars, NEW s \in Tasks, pool.session = s, pool'.session # s
  PROVE  Reap \/ \E t \in Tasks : Miss(t) \/ Store(t)
<1>1. ASSUME UNCHANGED pool
      PROVE  FALSE
  BY <1>1
<1>2. ASSUME NEW t \in Tasks, Reuse(t)
      PROVE  FALSE
  <2>1. pool \in Entry /\ pool' = [pool EXCEPT !.last_used = clock]
    BY <1>2, EntryOrEmpty DEF Reuse, PoolInv
  <2>2. QED
    BY <2>1 DEF Entry
<1>3. ASSUME NEW t \in Tasks,
             \/ Call(t) \/ Connected(t) \/ ConnectFailed(t) \/ Lock(t) \/ ChannelOpened(t)
             \/ OpenFailed(t) \/ StreamEnds(t) \/ Hang(t) \/ Abandon(t) \/ SessionDies(t)
      PROVE  UNCHANGED pool
  BY <1>3 DEF Call, Connected, ConnectFailed, Lock, ChannelOpened, OpenFailed, StreamEnds, Hang,
     Abandon, SessionDies, poolVars
<1>4. ASSUME Elapse \/ Terminating \/ UNCHANGED vars
      PROVE  UNCHANGED pool
  BY <1>4 DEF Elapse, Terminating, vars, poolVars
<1>5. QED
  BY <1>1, <1>2, <1>3, <1>4 DEF Next, TaskStep, GetStep

\* A live session leaves the pool only when it was idle for the timeout or
\* a newer session takes its place, for any number of calls.
THEOREM EvictionSparesRecentlyUsedAlways == Spec => EvictionSparesRecentlyUsed
<1> DEFINE Spared(s) ==
      pool.session = s /\ pool'.session # s /\ session[s] = "open" =>
        \/ clock - lastUse[s] > IdleTimeout
        \/ \E t \in Tasks : pc[t] = "store" /\ pool'.session = t
<1>1. PoolInv /\ [Next]_vars => [\A s \in Tasks : Spared(s)]_vars
  <2> SUFFICES ASSUME PoolInv, [Next]_vars, NEW s \in Tasks,
                      pool.session = s, pool'.session # s, session[s] = "open"
               PROVE  \/ clock - lastUse[s] > IdleTimeout
                      \/ \E t \in Tasks : pc[t] = "store" /\ pool'.session = t
    OBVIOUS
  <2>1. pool # Empty /\ pool.last_used = lastUse[s]
    BY EntryOrEmpty DEF PoolInv, EntryFresh
  <2>2. CASE Reap
    BY <2>1, <2>2 DEF Reap, SeenClosed
  <2>3. ASSUME NEW t \in Tasks, Miss(t)
        PROVE  FALSE
    BY <2>1, <2>3 DEF Miss, SeenClosed
  <2>4. ASSUME NEW t \in Tasks, Store(t)
        PROVE  pc[t] = "store" /\ pool'.session = t
    BY <2>4 DEF Store
  <2>5. QED
    BY <2>2, <2>3, <2>4, EntryChanges
<1>2. QED
  BY <1>1, PoolInvHolds, PTL DEF Spec, EvictionSparesRecentlyUsed

\* Letting go of a session never closes it under a call or a tunnel.
THEOREM EvictionSparesTunnelsAlways == Spec => EvictionSparesTunnels
<1> DEFINE Spared(s, t) ==
      /\ pool.session = s /\ pool'.session # s
      /\ session[s] = "open" /\ handle[t] = s
      => session'[s] = "open"
<1>1. PoolInv /\ [Next]_vars => [\A s, t \in Tasks : Spared(s, t)]_vars
  <2> SUFFICES ASSUME PoolInv, [Next]_vars, NEW s \in Tasks, NEW t \in Tasks,
                      pool.session = s, pool'.session # s,
                      session[s] = "open", handle[t] = s
               PROVE  session'[s] = "open"
    OBVIOUS
  <2>1. session \in [Tasks -> {"none", "open", "closed"}]
    BY DEF PoolInv, TypeOK
  <2>2. Dropped(session, pool', handle)[s] = session[s]
    BY <2>1, DroppedCloses
  <2>3. UNCHANGED session \/ session' = Dropped(session, pool', handle)
    BY EntryChanges DEF Reap, Miss, Store
  <2>4. QED
    BY <2>2, <2>3
<1>2. QED
  BY <1>1, PoolInvHolds, PTL DEF Spec, EvictionSparesTunnels
=============================================================================
