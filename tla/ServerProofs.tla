---------------------------- MODULE ServerProofs ----------------------------
(***************************************************************************)
(* The process is configured as it was told or does not listen, a request  *)
(* is dialled where it names, and the end leaves nothing behind, for any   *)
(* connections, requests and settings.  The argument: what main knows in a *)
(* phase is a function of what it was started with, and connections exist  *)
(* only in three phases.  parse_authority reads what the grammar of an     *)
(* authority reads: a port has no colon in it, so the last colon is the    *)
(* one in front of the port; an address has no bracket in it, so the first *)
(* closing bracket ends it.                                                *)
(***************************************************************************)
EXTENDS Server, Integers, SequenceTheorems, TLAPS

Serving    == {"serving", "returned_ok", "returned_error"}
Dropping   == {"drop_ok", "drop_error"}
Bound      == {"bind"} \cup Serving \cup Dropping
Parsed     == {"start"} \cup Bound
Configured == {"parse"} \cup Parsed

\* What main has found out by the time it is in a phase.
MainInv ==
  /\ given \in Startups
  /\ phase \in Configured =>
       config = Load(given.file, Args(given.flag, given.env), given.ups) /\ config # Error
  /\ phase \in Parsed => dsns = ParseUpstreams(config.upstreams) /\ dsns # Error
  /\ phase \in Bound => config.host # Bad /\ tasks # "none"
  /\ phase = "exit_ok" /\ dsns # <<>> => tasks # "none"
  /\ tasks = "aborted" => phase \in Over \cup Dropping

\* When there are connections, and what they hold.
ConnInv ==
  /\ \A c \in Conns : conn[c] # "none" => phase \in Serving
  /\ \A c \in Conns : lookup[c] => phase \in Serving \cup Dropping
  /\ \A c \in Conns : conn[c] = "handle" => request[c] \in Requests[c]
  /\ \A c \in Conns : copier[c] # "none" => phase \in Serving
  /\ \A c \in Conns : copier[c] = "upgrade" => conn[c] \in {"200", "upgraded"}
  /\ \A c \in Conns : copier[c] = "copy" => conn[c] = "none"

ServerTypes ==
  /\ phase \in Over \cup Configured \cup {"load"}
  /\ tasks \in {"none", "running", "aborted"} /\ handlers \in BOOLEAN
  /\ signal \in {"none", "default", "caught"}
  /\ conn \in [Conns -> Labels] /\ lookup \in [Conns -> BOOLEAN]
  /\ copier \in [Conns -> {"none", "upgrade", "copy"}]
  /\ request = [c \in Conns |-> request[c]] /\ target = [c \in Conns |-> target[c]]

ServerInv == ServerTypes /\ MainInv /\ ConnInv

LEMMA InitServerInv == Init => ServerInv
<1> SUFFICES ASSUME Init
             PROVE  ServerInv
  OBVIOUS
<1>1. ServerTypes
  BY DEF Init, ServerTypes, Labels
<1>2. MainInv
  BY DEF Init, MainInv, Serving, Dropping, Bound, Parsed, Configured
<1>3. ConnInv
  BY DEF Init, ConnInv
<1>4. QED
  BY <1>1, <1>2, <1>3 DEF ServerInv

-----------------------------------------------------------------------------
(* main.                                                                   *)

LEMMA MainKeepsInv ==
  ASSUME ServerInv, MainStep
  PROVE  ServerInv'
<1> USE DEF ServerInv, ServerTypes, MainInv, ConnInv, Serving, Dropping, Bound, Parsed, Configured, Over
<1>1. CASE LoadConfig
  BY <1>1 DEF LoadConfig, Quiet, connVars
<1>2. CASE ParseDsns
  BY <1>2 DEF ParseDsns, Quiet, connVars
<1>3. CASE StartTasks
  BY <1>3 DEF StartTasks, Quiet, connVars
<1>4. CASE Bind
  BY <1>4 DEF Bind, Quiet, connVars
<1>5. CASE PollShutdown
  BY <1>5 DEF PollShutdown, mainVars, connVars
<1>6. CASE Shutdown
  BY <1>6 DEF Shutdown, Quiet, connVars
<1>7. CASE EndMain
  BY <1>7 DEF EndMain, Labels, NoRequest
<1>8. CASE Exit
  BY <1>8 DEF Exit, Quiet, connVars
<1>9. QED
  BY <1>1, <1>2, <1>3, <1>4, <1>5, <1>6, <1>7, <1>8 DEF MainStep

LEMMA SignalKeepsInv ==
  ASSUME ServerInv, Signal
  PROVE  ServerInv'
<1>1. CASE handlers
  BY <1>1 DEF Signal, connVars, ServerInv, ServerTypes, MainInv, ConnInv
<1>2. CASE ~ handlers
  <2>1. /\ phase' = "killed" /\ conn' = [c \in Conns |-> "none"] /\ lookup' = [c \in Conns |-> FALSE]
        /\ copier' = [c \in Conns |-> "none"]
        /\ signal' = "default" /\ UNCHANGED <<given, config, dsns, tasks, handlers, request, target>>
    BY <1>2 DEF Signal
  <2>2. ServerTypes'
    BY <2>1 DEF ServerInv, ServerTypes, Over, Labels
  <2>3. MainInv'
    BY <2>1 DEF ServerInv, MainInv, Serving, Dropping, Bound, Parsed, Configured, Over
  <2>4. ConnInv'
    BY <2>1 DEF ConnInv
  <2>5. QED
    BY <2>2, <2>3, <2>4 DEF ServerInv
<1>3. QED
  BY <1>1, <1>2

-----------------------------------------------------------------------------
(* Connections.                                                            *)

\* A connection that exists, or that is accepted, goes on.
LEMMA MoveKeepsInv ==
  ASSUME ServerInv, NEW c \in Conns, NEW from, NEW to \in Labels, NEW r, NEW t,
         Move(c, from, to, r, t), phase \in Serving,
         to = "handle" => r \in Requests[c],
         lookup' \in [Conns -> BOOLEAN],
         NEW task \in {"none", "upgrade", "copy"}, copier' = [copier EXCEPT ![c] = task],
         task = "upgrade" => to \in {"200", "upgraded"},
         task = "copy" => to = "none"
  PROVE  ServerInv'
<1>1. /\ ServerTypes /\ MainInv /\ ConnInv
      /\ conn' = [conn EXCEPT ![c] = to]
      /\ request' = [request EXCEPT ![c] = r]
      /\ target' = [target EXCEPT ![c] = t]
      /\ copier' = [copier EXCEPT ![c] = task]
      /\ UNCHANGED <<given, phase, config, dsns, tasks, signal, handlers>>
  BY DEF ServerInv, Move, mainVars
<1>2. /\ conn' \in [Conns -> Labels] /\ copier' \in [Conns -> {"none", "upgrade", "copy"}]
      /\ request' = [d \in Conns |-> request'[d]]
      /\ target' = [d \in Conns |-> target'[d]]
  BY <1>1 DEF ServerTypes
<1>3. /\ conn'[c] = to /\ request'[c] = r /\ copier'[c] = task
      /\ \A d \in Conns \ {c} :
           conn'[d] = conn[d] /\ request'[d] = request[d] /\ copier'[d] = copier[d]
  BY <1>1 DEF ServerTypes
<1>4. ServerTypes'
  BY <1>1, <1>2 DEF ServerTypes
<1>5. MainInv'
  BY <1>1 DEF MainInv
<1>6. ConnInv'
  BY <1>1, <1>3 DEF ConnInv
<1>7. QED
  BY <1>4, <1>5, <1>6 DEF ServerInv

\* The same for the steps that leave the task of the tunnel alone.
LEMMA QuietMoveKeepsInv ==
  ASSUME ServerInv, NEW c \in Conns, NEW from, NEW to \in Labels, NEW r, NEW t,
         Move(c, from, to, r, t), phase \in Serving,
         to = "handle" => r \in Requests[c],
         lookup' \in [Conns -> BOOLEAN], UNCHANGED copier,
         copier[c] = "upgrade" => to \in {"200", "upgraded"},
         copier[c] = "copy" => to = "none"
  PROVE  ServerInv'
<1>1. copier[c] \in {"none", "upgrade", "copy"} /\ copier' = [copier EXCEPT ![c] = copier[c]]
  BY DEF ServerInv, ServerTypes
<1>2. QED
  BY <1>1, MoveKeepsInv

\* A connection at a label other than these has no tunnel.
LEMMA NoTunnelYet ==
  ASSUME ServerInv, NEW c \in Conns, conn[c] \notin {"none", "200", "upgraded"}
  PROVE  copier[c] = "none" /\ phase \in Serving
BY DEF ServerInv, ServerTypes, ConnInv

\* The steps that leave a connection without a request or a target.
LEMMA StepKeepsInv ==
  ASSUME ServerInv, NEW c \in Conns, NEW from, NEW to \in Labels \ {"handle"},
         Step(c, from, to), from # "none" \/ phase = "serving",
         copier[c] = "upgrade" => to = "upgraded", copier[c] # "copy"
  PROVE  ServerInv'
<1>1. Move(c, from, to, NoRequest, Refused) /\ UNCHANGED <<lookup, copier>> /\ conn[c] = from
  BY DEF Step, Move
<1>2. phase \in Serving /\ lookup' \in [Conns -> BOOLEAN]
  BY <1>1 DEF ServerInv, ServerTypes, ConnInv, Serving
<1>3. QED
  BY <1>1, <1>2, QuietMoveKeepsInv

\* The steps that begin to dial.
LEMMA DialKeepsInv ==
  ASSUME ServerInv, NEW c \in Conns, NEW from \in {"handle", "collect"}, NEW t, Dial(c, from, t)
  PROVE  ServerInv'
<1>1. /\ Move(c, from, "dial", request[c], t) /\ conn[c] = from
      /\ lookup' = [lookup EXCEPT ![c] = TRUE] /\ UNCHANGED copier
  BY DEF Dial, Move
<1>2. copier[c] = "none" /\ phase \in Serving
  BY <1>1, NoTunnelYet
<1>3. lookup' \in [Conns -> BOOLEAN] /\ "dial" \in Labels
  BY <1>1 DEF ServerInv, ServerTypes, Labels
<1>4. QED
  BY <1>1, <1>2, <1>3, QuietMoveKeepsInv

\* The steps that spawn the task of a tunnel, or end or fail its wait.
LEMMA SpawnKeepsInv ==
  ASSUME ServerInv, NEW c \in Conns, NEW from \in Labels \ {"none"}, NEW to, NEW task,
         Move(c, from, to, NoRequest, Refused), Spawn(c, task),
         <<to, task>> \in {<<"200", "upgrade">>, <<"none", "copy">>, <<"none", "none">>}
  PROVE  ServerInv'
<1>1. /\ conn[c] = from /\ UNCHANGED lookup
      /\ copier' = [copier EXCEPT ![c] = task]
      /\ to \in Labels \ {"handle"} /\ task \in {"none", "upgrade", "copy"}
      /\ task = "upgrade" => to \in {"200", "upgraded"}
      /\ task = "copy" => to = "none"
  BY DEF Move, Spawn, Labels
<1>2. phase \in Serving /\ lookup' \in [Conns -> BOOLEAN]
  BY <1>1 DEF ServerInv, ServerTypes, ConnInv
<1>3. QED
  BY <1>1, <1>2, MoveKeepsInv

LEMMA ConnKeepsInv ==
  ASSUME ServerInv, NEW c \in Conns,
         \/ Accept(c) \/ Receive(c) \/ ConnStep(c) \/ Collected(c)
         \/ LookupEnds(c) \/ Respond(c) \/ StreamEnds(c) \/ Tunnel(c) \/ CopyEnds(c) \/ Close(c)
  PROVE  ServerInv'
<1>1. CASE Accept(c)
  BY <1>1, StepKeepsInv DEF Accept, Labels
<1>2. CASE Receive(c)
  <2>1. PICK r \in Requests[c] : Move(c, "open", "handle", r, Refused) /\ UNCHANGED <<lookup, copier>>
    BY <1>2 DEF Receive
  <2>2. copier[c] = "none" /\ phase \in Serving
    BY <2>1, NoTunnelYet DEF Move
  <2>3. lookup' \in [Conns -> BOOLEAN] /\ "handle" \in Labels
    BY <2>1 DEF ServerInv, ServerTypes, Labels
  <2>4. QED
    BY <2>1, <2>2, <2>3, QuietMoveKeepsInv
<1>3. ASSUME NEW from \in {"handle", "dial", "stream"}, NEW to \in Labels \ {"handle"}, Step(c, from, to)
      PROVE  ServerInv'
  <2>1. conn[c] = from
    BY <1>3 DEF Step, Move
  <2>2. copier[c] = "none"
    BY <2>1, NoTunnelYet
  <2>3. QED
    BY <1>3, <2>2, StepKeepsInv
<1>4. CASE Health(c) \/ Respond(c) \/ StreamEnds(c)
  BY <1>3, <1>4 DEF Health, Respond, StreamEnds, Labels
<1>5. CASE HandleConnect(c)
  <2>1. Step(c, "handle", "none") \/ \E t : Dial(c, "handle", t)
    BY <1>5 DEF HandleConnect
  <2>2. QED
    BY <1>3, <2>1, DialKeepsInv DEF Labels
<1>6. CASE HandlePath(c)
  <2>1. \/ Step(c, "handle", "400") \/ Step(c, "handle", "none")
        \/ Move(c, "handle", "collect", request[c], Refused) /\ UNCHANGED <<lookup, copier>>
    BY <1>6 DEF HandlePath
  <2>2. ASSUME Move(c, "handle", "collect", request[c], Refused), UNCHANGED <<lookup, copier>>
        PROVE  ServerInv'
    <3>1. copier[c] = "none" /\ phase \in Serving
      BY <2>2, NoTunnelYet DEF Move
    <3>2. lookup' \in [Conns -> BOOLEAN] /\ "collect" \in Labels
      BY <2>2 DEF ServerInv, ServerTypes, Labels
    <3>3. QED
      BY <2>2, <3>1, <3>2, QuietMoveKeepsInv
  <2>3. QED
    BY <1>3, <2>1, <2>2 DEF Labels
<1>7. CASE Collected(c)
  BY <1>7, DialKeepsInv DEF Collected
<1>8. CASE LookupEnds(c)
  <2>1. /\ lookup' = [lookup EXCEPT ![c] = FALSE]
        /\ UNCHANGED <<given, phase, config, dsns, tasks, signal, handlers, conn, request, target, copier>>
    BY <1>8 DEF LookupEnds, mainVars
  <2>2. QED
    BY <2>1 DEF ServerInv, ServerTypes, MainInv, ConnInv
<1>9. CASE Sent(c)
  <2>1. PICK code \in {"200", "400", "502"} :
          Step(c, code, IF copier[c] = "upgrade" THEN "upgraded" ELSE "open")
    BY <1>9 DEF Sent
  <2>2. conn[c] = code
    BY <2>1 DEF Step, Move
  <2>3. copier[c] # "copy"
    BY <2>2 DEF ServerInv, ConnInv
  <2>4. QED
    BY <2>1, <2>3, StepKeepsInv DEF Labels
<1>10. CASE Tunnel(c) \/ Upgraded(c)
  BY <1>10, SpawnKeepsInv DEF Tunnel, Upgraded, Labels
<1>11. CASE Close(c)
  <2>1. Move(c, conn[c], "none", NoRequest, Refused) /\ Spawn(c, "none") /\ conn[c] # "none"
    BY <1>11 DEF Close
  <2>2. conn[c] \in Labels
    BY DEF ServerInv, ServerTypes
  <2>3. QED
    BY <2>1, <2>2, SpawnKeepsInv
<1>12. CASE CopyEnds(c)
  <2>1. /\ copier' = [copier EXCEPT ![c] = "none"] /\ UNCHANGED lookup
        /\ UNCHANGED <<given, phase, config, dsns, tasks, signal, handlers, conn, request, target>>
    BY <1>12 DEF CopyEnds, Spawn, mainVars
  <2>2. QED
    BY <2>1 DEF ServerInv, ServerTypes, MainInv, ConnInv
<1>13. QED
  BY <1>1, <1>2, <1>4, <1>5, <1>6, <1>7, <1>8, <1>9, <1>10, <1>11, <1>12 DEF ConnStep

LEMMA ServerStep ==
  ASSUME ServerInv, [Next]_vars
  PROVE  ServerInv'
<1>1. CASE UNCHANGED vars
  BY <1>1 DEF vars, mainVars, connVars, ServerInv, ServerTypes, MainInv, ConnInv
<1>2. QED
  BY <1>1, MainKeepsInv, SignalKeepsInv, ConnKeepsInv DEF Next

LEMMA ServerInvariance == Spec => []ServerInv
BY InitServerInv, ServerStep, PTL DEF Spec

\* The types; and connections, lookups and background tasks live only as long
\* as main lets them (main.rs:65-94, proxy.rs:732-763).
THEOREM ServerTypesAlways == Spec => []ServerTypeOK
<1>1. ServerInv => ServerTypeOK
  BY DEF ServerInv, ServerTypes, MainInv, ConnInv, ServerTypeOK, Serving, Dropping, Bound, Parsed,
         Configured, Over
<1>2. QED
  BY <1>1, ServerInvariance, PTL

-----------------------------------------------------------------------------
(* The configuration.                                                      *)

LEMMA SequenceLength ==
  ASSUME NEW s, IsSeq(s)
  PROVE  Len(s) \in Nat /\ DOMAIN s = 1 .. Len(s)
BY LenProperties DEF IsSeq

LEMMA FunctionIsSeq ==
  ASSUME NEW n \in Nat, NEW f, f = [i \in 1 .. n |-> f[i]]
  PROVE  IsSeq(f) /\ Len(f) = n
<1> DEFINE S == {f[i] : i \in DOMAIN f}
<1>1. DOMAIN f = 1 .. n
  OBVIOUS
<1>2. f \in [1 .. n -> S]
  BY <1>1
<1>3. f \in Seq(S)
  BY <1>2, SeqDef
<1>4. 1 .. n = 1 .. Len(f) /\ Len(f) \in Nat
  BY <1>1, <1>3, LenProperties
<1>5. ~ (n > Len(f))
  <2>1. n > Len(f) => n \in 1 .. n /\ n \notin 1 .. Len(f)
    BY <1>4
  <2>2. QED
    BY <1>4, <2>1
<1>6. ~ (Len(f) > n)
  <2>1. Len(f) > n => Len(f) \notin 1 .. n /\ Len(f) \in 1 .. Len(f)
    BY <1>4
  <2>2. QED
    BY <1>4, <2>1
<1>7. QED
  BY <1>3, <1>4, <1>5, <1>6 DEF IsSeq

LEMMA Concatenation ==
  ASSUME NEW a, NEW b, IsSeq(a), IsSeq(b)
  PROVE  /\ Len(a) \in Nat /\ Len(b) \in Nat
         /\ DOMAIN (a \o b) = 1 .. Len(a) + Len(b)
         /\ \A i \in 1 .. Len(a) + Len(b) :
              (a \o b)[i] = IF i <= Len(a) THEN a[i] ELSE b[i - Len(a)]
<1> DEFINE A == {a[i] : i \in DOMAIN a}
           B == {b[i] : i \in DOMAIN b}
<1>1. a \in Seq(A) /\ b \in Seq(B)
  BY DEF IsSeq
<1> HIDE DEF A, B
<1>2. A \subseteq A \cup B /\ B \subseteq A \cup B
  OBVIOUS
<1>3. a \in Seq(A \cup B) /\ b \in Seq(A \cup B)
  BY <1>1, <1>2, SeqMonotonic
<1>4. /\ a \o b \in Seq(A \cup B) /\ Len(a \o b) = Len(a) + Len(b)
      /\ \A i \in 1 .. Len(a) + Len(b) :
           (a \o b)[i] = IF i <= Len(a) THEN a[i] ELSE b[i - Len(a)]
  BY <1>3, ConcatProperties
<1>5. DOMAIN (a \o b) = 1 .. Len(a \o b) /\ Len(a) \in Nat /\ Len(b) \in Nat
  BY <1>3, <1>4, LenProperties
<1>6. QED
  BY <1>4, <1>5

\* What the process listens with: no part of it failed to parse, every setting
\* is the merged one, and the channels are those of the file and then the flags.
LEMMA ListensAsTold ==
  ASSUME MainInv, Listening
  PROVE  /\ given.file # Broken /\ (given.file # Absent => given.file.upstreams # Unset)
         /\ \A k \in {"port", "strategy", "direct_first"} : Args(given.flag, given.env)[k] # Bad
         /\ config.host # Bad
         /\ \A k \in Options :
              config[k] = IF Args(given.flag, given.env)[k] # Unset THEN Args(given.flag, given.env)[k]
                          ELSE FromFile(given.file, k)
         /\ config.upstreams = Listed \o given.ups
         /\ dsns = ParseUpstreams(config.upstreams) /\ dsns # Error
<1> DEFINE args == Args(given.flag, given.env)
<1>1. phase \in Bound
  BY DEF Listening, Bound, Serving
<1>2. /\ config = Load(given.file, args, given.ups) /\ config # Error
      /\ dsns = ParseUpstreams(config.upstreams) /\ dsns # Error /\ config.host # Bad
  BY <1>1 DEF MainInv, Configured, Parsed
<1> HIDE DEF args
<1>3. /\ FileReads(given.file)
      /\ args.port # Bad /\ args.strategy # Bad /\ args.direct_first # Bad
      /\ config = Merged(given.file, args, given.ups)
  BY <1>2 DEF Load
<1>4. "upstreams" \notin Options
  BY DEF Options
<1>5. config.upstreams = Listed \o given.ups
  BY <1>3 DEF Merged, Listed
<1>6. \A k \in Options : config[k] = IF args[k] # Unset THEN args[k] ELSE FromFile(given.file, k)
  BY <1>3, <1>4 DEF Merged
<1>7. QED
  BY <1>2, <1>3, <1>5, <1>6 DEF FileReads, args

LEMMA ListedIsSeq ==
  ASSUME MainInv, Listening
  PROVE  IsSeq(Listed) /\ IsSeq(given.ups)
<1>1. given \in Startups
  BY DEF MainInv
<1>2. given.file # Broken /\ (given.file # Absent => given.file.upstreams # Unset)
  BY ListensAsTold
<1>3. IsSeq(given.ups) /\ (given.file # Absent => IsSeq(given.file.upstreams))
  BY <1>1, <1>2, ServerAssumption
<1>4. IsSeq(<<>>)
  BY EmptySeq DEF IsSeq
<1>5. QED
  BY <1>3, <1>4 DEF Listed

\* The channels one by one.
LEMMA EveryDsnParses ==
  ASSUME MainInv, Listening
  PROVE  /\ IsSeq(dsns) /\ Len(dsns) = Len(Listed) + Len(given.ups)
         /\ \A i \in 1 .. Len(dsns) :
              /\ dsns[i] = ParseDsn(config.upstreams[i]) /\ dsns[i] # Error
              /\ config.upstreams[i] = IF i <= Len(Listed) THEN Listed[i] ELSE given.ups[i - Len(Listed)]
<1> DEFINE n == Len(Listed) + Len(given.ups)
           read == [i \in DOMAIN config.upstreams |-> ParseDsn(config.upstreams[i])]
<1>1. IsSeq(Listed) /\ IsSeq(given.ups) /\ config.upstreams = Listed \o given.ups
  BY ListedIsSeq, ListensAsTold
<1>2. /\ n \in Nat /\ DOMAIN config.upstreams = 1 .. n
      /\ \A i \in 1 .. n :
           config.upstreams[i] = IF i <= Len(Listed) THEN Listed[i] ELSE given.ups[i - Len(Listed)]
  BY <1>1, Concatenation
<1>3. dsns = read /\ \A i \in DOMAIN read : read[i] # Error
  BY ListensAsTold DEF ParseUpstreams
<1>4. dsns = [i \in 1 .. n |-> dsns[i]]
  BY <1>2, <1>3
<1>5. \A i \in 1 .. n : dsns[i] = ParseDsn(config.upstreams[i]) /\ dsns[i] # Error
  BY <1>2, <1>3
<1> HIDE DEF n, read
<1>6. IsSeq(dsns) /\ Len(dsns) = n
  BY <1>2, <1>4, FunctionIsSeq
<1>7. QED
  BY <1>2, <1>5, <1>6 DEF n

\* No listener exists for a file that cannot be read, for a flag, or a variable
\* no flag overrides, that does not parse, for an address that is none, or for
\* a malformed DSN in the file or in a flag (config.rs:113-166, main.rs:37-79;
\* README:93).
THEOREM RefusesBadSettingsAlways == Spec => []RefusesBadSettings
<1>1. ASSUME MainInv, Listening
      PROVE  /\ given.file # Broken /\ (given.file # Absent => given.file.upstreams # Unset)
             /\ \A k \in {"port", "strategy", "direct_first"} : given.flag[k] # Bad
             /\ \A k \in {"port", "direct_first"} : given.flag[k] = Unset => given.env[k] # Bad
             /\ config.host # Bad
             /\ \A list \in {Listed, given.ups} : \A i \in DOMAIN list :
                  /\ list[i].scheme \in DOMAIN DsnPorts
                  /\ list[i].host # Unset /\ list[i].port # Bad
  <2> DEFINE WellFormed(url) == /\ url.scheme \in DOMAIN DsnPorts
                                /\ url.host # Unset /\ url.port # Bad
  <2>1. \A k \in {"port", "strategy", "direct_first"} :
          Args(given.flag, given.env)[k] # Bad /\ k \in Options
    BY <1>1, ListensAsTold DEF Options
  <2>2. \A k \in Options :
          Args(given.flag, given.env)[k] = IF k \in Environment /\ given.flag[k] = Unset
                                           THEN given.env[k] ELSE given.flag[k]
    BY DEF Args
  <2>3. \A k \in {"port", "strategy", "direct_first"} : given.flag[k] # Bad
    BY <2>1, <2>2, SettingsAssumption
  <2>4. \A k \in {"port", "direct_first"} : given.flag[k] = Unset => given.env[k] # Bad
    BY <2>1, <2>2 DEF Environment
  <2>5. ASSUME NEW url, ParseDsn(url) # Error
        PROVE  WellFormed(url)
    BY <2>5 DEF ParseDsn
  <2> HIDE DEF WellFormed
  <2>6. /\ Len(Listed) \in Nat /\ DOMAIN Listed = 1 .. Len(Listed)
        /\ Len(given.ups) \in Nat /\ DOMAIN given.ups = 1 .. Len(given.ups)
    BY <1>1, ListedIsSeq, SequenceLength
  <2>7. /\ Len(dsns) = Len(Listed) + Len(given.ups)
        /\ \A j \in 1 .. Len(dsns) :
             ParseDsn(IF j <= Len(Listed) THEN Listed[j] ELSE given.ups[j - Len(Listed)]) # Error
    BY <1>1, EveryDsnParses
  <2>8. ASSUME NEW i \in DOMAIN Listed
        PROVE  WellFormed(Listed[i])
    <3>1. i \in 1 .. Len(dsns) /\ i <= Len(Listed)
      BY <2>6, <2>7
    <3>2. ParseDsn(Listed[i]) # Error
      BY <2>7, <3>1
    <3>3. QED
      BY <2>5, <3>2
  <2>9. ASSUME NEW i \in DOMAIN given.ups
        PROVE  WellFormed(given.ups[i])
    <3> DEFINE j == Len(Listed) + i
    <3>1. j \in 1 .. Len(dsns) /\ ~ (j <= Len(Listed)) /\ j - Len(Listed) = i
      BY <2>6, <2>7
    <3>2. ParseDsn(given.ups[i]) # Error
      BY <2>7, <3>1
    <3>3. QED
      BY <2>5, <3>2
  <2>10. \A list \in {Listed, given.ups} : \A i \in DOMAIN list : WellFormed(list[i])
    BY <2>8, <2>9
  <2>11. given.file # Broken /\ (given.file # Absent => given.file.upstreams # Unset) /\ config.host # Bad
    BY <1>1, ListensAsTold
  <2>12. QED
    BY <2>3, <2>4, <2>10, <2>11 DEF WellFormed
<1>2. MainInv => RefusesBadSettings
  BY <1>1 DEF RefusesBadSettings
<1>3. QED
  BY <1>2, ServerInvariance, PTL DEF ServerInv

\* Flag over environment (which strategy has none of) over file over default,
\* setting by setting, and the channels in the order of the file and then of the flags (config.rs:100-159,
\* main.rs:46-53), for any settings.
THEOREM RunsAsConfiguredAlways == Spec => []RunsAsConfigured
<1> DEFINE inEnv(k) == IF k \in Environment THEN given.env[k] ELSE Unset
           inFile(k) == IF given.file = Absent THEN Unset ELSE given.file[k]
<1>1. ASSUME MainInv, Listening
      PROVE  /\ \A k \in Options :
                  config[k] = CASE given.flag[k] # Unset -> given.flag[k]
                                [] given.flag[k] = Unset /\ inEnv(k) # Unset -> inEnv(k)
                                [] OTHER -> IF inFile(k) # Unset THEN inFile(k) ELSE Default[k]
             /\ Len(dsns) = Len(Listed) + Len(given.ups)
             /\ \A i \in DOMAIN dsns :
                  dsns[i].host = (IF i <= Len(Listed) THEN Listed[i] ELSE given.ups[i - Len(Listed)]).host
  <2>1. ASSUME NEW k \in Options
        PROVE  config[k] = CASE given.flag[k] # Unset -> given.flag[k]
                             [] given.flag[k] = Unset /\ inEnv(k) # Unset -> inEnv(k)
                             [] OTHER -> IF inFile(k) # Unset THEN inFile(k) ELSE Default[k]
    <3> DEFINE args == Args(given.flag, given.env)
    <3>1. config[k] = IF args[k] # Unset THEN args[k] ELSE FromFile(given.file, k)
      BY <1>1, <2>1, ListensAsTold
    <3>2. args[k] = IF given.flag[k] # Unset THEN given.flag[k] ELSE inEnv(k)
      <4>1. args[k] = IF k \in Environment /\ given.flag[k] = Unset THEN given.env[k] ELSE given.flag[k]
        BY <2>1 DEF Args
      <4>2. QED
        BY <4>1
    <3>3. FromFile(given.file, k) = IF inFile(k) # Unset THEN inFile(k) ELSE Default[k]
      BY DEF FromFile
    <3> HIDE DEF args, inEnv, inFile
    <3>4. CASE given.flag[k] # Unset
      BY <3>1, <3>2, <3>4
    <3>5. CASE given.flag[k] = Unset /\ inEnv(k) # Unset
      BY <3>1, <3>2, <3>5
    <3>6. CASE given.flag[k] = Unset /\ inEnv(k) = Unset
      BY <3>1, <3>2, <3>3, <3>6
    <3>7. QED
      BY <3>4, <3>5, <3>6
  <2>2. ASSUME NEW i \in DOMAIN dsns
        PROVE  dsns[i].host = (IF i <= Len(Listed) THEN Listed[i] ELSE given.ups[i - Len(Listed)]).host
    <3>1. i \in 1 .. Len(dsns)
      BY <1>1, EveryDsnParses, SequenceLength
    <3>2. /\ dsns[i] = ParseDsn(config.upstreams[i]) /\ dsns[i] # Error
          /\ config.upstreams[i] = IF i <= Len(Listed) THEN Listed[i] ELSE given.ups[i - Len(Listed)]
      BY <1>1, <3>1, EveryDsnParses
    <3>3. dsns[i].host = config.upstreams[i].host
      BY <3>2 DEF ParseDsn
    <3>4. QED
      BY <3>2, <3>3
  <2>3. QED
    BY <1>1, <2>1, <2>2, EveryDsnParses
<1>2. MainInv => RunsAsConfigured
  BY <1>1 DEF RunsAsConfigured, Listed
<1>3. QED
  BY <1>2, ServerInvariance, PTL DEF ServerInv

-----------------------------------------------------------------------------
(* Authorities.                                                            *)

Text == Seq(Characters)

LEMMA TextShape ==
  ASSUME NEW s \in Text
  PROVE  Len(s) \in Nat /\ DOMAIN s = 1 .. Len(s) /\ \A i \in 1 .. Len(s) : s[i] \in Characters
<1>1. s \in Seq(Characters)
  BY DEF Text
<1>2. Len(s) \in Nat /\ s \in [1 .. Len(s) -> Characters] /\ DOMAIN s = 1 .. Len(s)
  BY <1>1, LenProperties
<1>3. QED
  BY <1>2

LEMMA Slice ==
  ASSUME NEW s \in Text, NEW m \in Nat, NEW n \in Nat, 1 <= m, m <= n + 1, n <= Len(s)
  PROVE  /\ SubSeq(s, m, n) \in Text /\ Len(SubSeq(s, m, n)) = n - m + 1
         /\ \A i \in 1 .. n - m + 1 : SubSeq(s, m, n)[i] = s[m + i - 1]
<1>1. m \in Int /\ n \in Int /\ \A i \in m .. n : s[i] \in Characters
  BY TextShape
<1>2. /\ SubSeq(s, m, n) \in Seq(Characters)
      /\ Len(SubSeq(s, m, n)) = IF m <= n THEN n - m + 1 ELSE 0
      /\ \A i \in 1 .. n - m + 1 : SubSeq(s, m, n)[i] = s[m + i - 1]
  BY <1>1, SubSeqProperties, SMTT(30)
<1>3. (IF m <= n THEN n - m + 1 ELSE 0) = n - m + 1
  OBVIOUS
<1>4. QED
  BY <1>2, <1>3 DEF Text

\* A port that can be read leaves no colon behind it.
LEMMA PortIsLast ==
  ASSUME NEW s \in Text, NEW i \in Colons(s), IsPort(After(s, i))
  PROVE  /\ i \in 1 .. Len(s) - 1
         /\ \A j \in i + 1 .. Len(s) : s[j] \in Digits
         /\ \A j \in Colons(s) : j <= i
<1>1. i \in 1 .. Len(s) /\ Len(s) \in Nat
  BY TextShape DEF Colons
<1> DEFINE p == After(s, i)
<1>2. /\ p \in Text /\ Len(p) = Len(s) - i
      /\ \A j \in 1 .. Len(s) - i : p[j] = s[i + j]
  <2>1. i + 1 \in Nat /\ 1 <= i + 1 /\ i + 1 <= Len(s) + 1
    BY <1>1
  <2>2. /\ p \in Text /\ Len(p) = Len(s) - (i + 1) + 1
        /\ \A j \in 1 .. Len(s) - (i + 1) + 1 : p[j] = s[i + 1 + j - 1]
    <3> DEFINE m == i + 1
    <3>1. m \in Nat /\ 1 <= m /\ m <= Len(s) + 1 /\ Len(s) <= Len(s) /\ p = SubSeq(s, m, Len(s))
      BY <1>1, <2>1 DEF After
    <3> HIDE DEF m, p
    <3>2. /\ p \in Text /\ Len(p) = Len(s) - m + 1
          /\ \A j \in 1 .. Len(s) - m + 1 : p[j] = s[m + j - 1]
      BY <1>1, <3>1, Slice
    <3>3. QED
      BY <3>2 DEF m
  <2> HIDE DEF p
  <2>3. QED
    BY <1>1, <2>2
<1>3. p # <<>> /\ \A j \in DOMAIN p : p[j] \in Digits
  BY DEF IsPort
<1> HIDE DEF p
<1>4. DOMAIN p = 1 .. Len(s) - i
  BY <1>2, TextShape
<1>5. Len(p) # 0
  BY <1>2, <1>3, EmptySeq DEF Text
<1>6. i \in 1 .. Len(s) - 1
  BY <1>1, <1>2, <1>5
<1>7. ASSUME NEW j \in i + 1 .. Len(s)
      PROVE  s[j] \in Digits
  <2>1. j - i \in 1 .. Len(s) - i /\ i + (j - i) = j
    BY <1>1
  <2>2. QED
    BY <1>2, <1>3, <1>4, <2>1
<1>8. ASSUME NEW j \in Colons(s)
      PROVE  j <= i
  <2>1. j \in 1 .. Len(s) /\ s[j] \notin Digits
    BY TextShape DEF Colons, Digits
  <2>2. QED
    BY <1>1, <1>7, <2>1
<1>9. QED
  BY <1>6, <1>7, <1>8

\* The first closing bracket.
LEMMA FirstShut ==
  ASSUME NEW s \in Text, NEW i \in 1 .. Len(s), s[i] = "]", \A j \in 1 .. i - 1 : s[j] # "]"
  PROVE  SelectInSeq(s, LAMBDA t : t = "]") = i
<1> DEFINE I == {j \in 1 .. Len(s) : s[j] = "]"}
<1>1. Len(s) \in Nat
  BY TextShape
<1>2. i \in I /\ I \subseteq Int /\ \A j \in I : i <= j
  BY <1>1
<1>3. SelectInSeq(s, LAMBDA t : t = "]") = Min(I)
  BY <1>2 DEF SelectInSeq
<1> HIDE DEF I
<1>4. Min(I) \in I /\ \A j \in I : Min(I) <= j
  BY <1>2 DEF Min
<1>5. Min(I) = i
  <2> DEFINE m == Min(I)
  <2>1. m \in I /\ m <= i /\ i <= m /\ m \in Int /\ i \in Int
    BY <1>2, <1>4
  <2> HIDE DEF m
  <2>2. m = i
    BY <2>1
  <2>3. QED
    BY <2>2 DEF m
<1>6. QED
  BY <1>3, <1>5

\* One colon is trimmed where a port follows it.
LEMMA TrimOne ==
  ASSUME NEW t \in Text, Len(t) > 1, t[1] = ":", t[2] # ":"
  PROVE  TrimColons(t) = SubSeq(t, 2, Len(t))
<1> DEFINE first(i) == (\A j \in 1 .. i - 1 : t[j] = ":") /\ (i <= Len(t) => t[i] # ":")
           m == CHOOSE i \in 1 .. Len(t) + 1 : first(i)
<1>1. Len(t) \in Nat
  BY TextShape
<1>2. 2 \in 1 .. Len(t) + 1 /\ first(2)
  BY <1>1
<1>3. m \in 1 .. Len(t) + 1 /\ first(m)
  <2> HIDE DEF first
  <2>1. \E i \in 1 .. Len(t) + 1 : first(i)
    BY <1>2
  <2>2. QED
    BY <2>1
<1>4. TrimColons(t) = SubSeq(t, m, Len(t))
  BY DEF TrimColons
<1> HIDE DEF m
<1>5. m # 1
  BY <1>1, <1>3
<1>6. ~ (m > 2)
  <2>1. m > 2 => 2 \in 1 .. m - 1
    BY <1>3
  <2>2. QED
    BY <1>3, <2>1
<1>7. m = 2
  BY <1>1, <1>3, <1>5, <1>6
<1>8. QED
  BY <1>4, <1>7

LEMMA ParsesName ==
  ASSUME NEW s \in Text, NEW i \in Colons(s), IsPort(After(s, i)), i > 1, s[1] # "["
  PROVE  ParseAuthority(s) = Found(Before(s, i), Number(After(s, i)))
<1> DEFINE last(k) == \A j \in Colons(s) : j <= k
           m == CHOOSE k \in Colons(s) : last(k)
<1>1. Colons(s) \subseteq Int /\ last(i)
  BY PortIsLast, TextShape DEF Colons
<1>2. m \in Colons(s) /\ last(m)
  <2> HIDE DEF last
  <2>1. \E k \in Colons(s) : last(k)
    BY <1>1
  <2>2. QED
    BY <2>1
<1>3. ParseAuthority(s) = AtColon(s, m)
  BY DEF ParseAuthority
<1> HIDE DEF m
<1>4. m <= i /\ i <= m /\ m \in Int /\ i \in Int
  BY <1>1, <1>2
<1>5. m = i
  BY <1>4
<1>6. QED
  BY <1>3, <1>5 DEF AtColon

LEMMA ParsesAddress ==
  ASSUME NEW s \in Text, NEW i \in Colons(s), IsPort(After(s, i)), i > 3, s[1] = "[", s[i - 1] = "]",
         \A j \in 2 .. i - 2 : s[j] # "]"
  PROVE  ParseAuthority(s) = Found(SubSeq(s, 2, i - 2), Number(After(s, i)))
<1> DEFINE close == SelectInSeq(s, LAMBDA t : t = "]")
           t == After(s, i - 1)
<1>1. Len(s) \in Nat /\ i \in 1 .. Len(s) - 1 /\ s[i] = ":" /\ s[i + 1] \in Digits
  BY PortIsLast, TextShape DEF Colons
<1>2. close = i - 1
  <2>1. \A j \in 1 .. (i - 1) - 1 : s[j] # "]"
    BY <1>1
  <2>2. i - 1 \in 1 .. Len(s)
    BY <1>1
  <2>3. QED
    BY <2>1, <2>2, FirstShut
<1> HIDE DEF close
<1>3. t = SubSeq(s, i, Len(s))
  <2>1. i - 1 + 1 = i
    BY <1>1
  <2>2. QED
    BY <2>1 DEF After
<1> HIDE DEF t
<1>4. /\ t \in Text /\ Len(t) = Len(s) - i + 1
      /\ \A j \in 1 .. Len(s) - i + 1 : t[j] = s[i + j - 1]
  BY <1>1, <1>3, Slice
<1>5. Len(t) > 1 /\ t[1] = ":" /\ t[2] # ":"
  <2>1. 1 \in 1 .. Len(s) - i + 1 /\ 2 \in 1 .. Len(s) - i + 1 /\ i + 1 - 1 = i /\ i + 2 - 1 = i + 1
    BY <1>1
  <2>2. t[1] = s[i] /\ t[2] = s[i + 1]
    BY <1>4, <2>1
  <2>3. QED
    BY <1>1, <1>4, <2>2 DEF Digits
<1>6. TrimColons(t) = SubSeq(t, 2, Len(t))
  BY <1>4, <1>5, TrimOne
<1>7. SubSeq(t, 2, Len(t)) = After(s, i)
  BY <1>1, <1>3, <1>4 DEF After
<1>8. s # <<>> /\ close # 0 /\ SubSeq(s, 2, close - 1) = SubSeq(s, 2, i - 2)
  <2>1. i - 1 # 0 /\ i - 1 - 1 = i - 2 /\ Len(s) # 0
    BY <1>1
  <2>2. QED
    BY <1>2, <2>1
<1>9. ParseAuthority(s) =
        LET port == TrimColons(After(s, close))
        IN IF close # 0 /\ IsPort(port) THEN Found(SubSeq(s, 2, close - 1), Number(port)) ELSE Refused
  BY <1>8 DEF ParseAuthority, close
<1>10. TrimColons(After(s, close)) = After(s, i)
  BY <1>2, <1>6, <1>7 DEF t
<1>11. QED
  BY <1>8, <1>9, <1>10

\* The host that stands in front of a colon.
HostAt(s, i) == IF s[1] = "[" THEN SubSeq(s, 2, i - 2) ELSE Before(s, i)

\* Where the grammar reads a name in front of the colon, so does the parser.
LEMMA NameIsRead ==
  ASSUME NEW s \in Text, NEW i \in Colons(s), NEW k \in Colons(s),
         IsPort(After(s, k)), HostAt(s, i) = Before(s, k), HostAt(s, i) # <<>>,
         {HostAt(s, i)[j] : j \in DOMAIN HostAt(s, i)} \cap {":", "[", "]"} = {}
  PROVE  ParseAuthority(s) = Found(HostAt(s, i), Number(After(s, k)))
<1>1. Len(s) \in Nat /\ i \in 1 .. Len(s) /\ k \in 1 .. Len(s)
  BY TextShape DEF Colons
<1> DEFINE h == Before(s, k)
<1>2. h \in Text /\ Len(h) = k - 1 /\ \A j \in 1 .. k - 1 : h[j] = s[j]
  <2> DEFINE n == k - 1
  <2>1. n \in Nat /\ 1 <= n + 1 /\ n <= Len(s) /\ h = SubSeq(s, 1, n)
    BY <1>1 DEF Before
  <2> HIDE DEF n, h
  <2>2. /\ h \in Text /\ Len(h) = n - 1 + 1 /\ \A j \in 1 .. n - 1 + 1 : h[j] = s[1 + j - 1]
    BY <2>1, Slice
  <2>3. n - 1 + 1 = k - 1 /\ \A j \in 1 .. k - 1 : 1 + j - 1 = j
    BY <1>1 DEF n
  <2>4. QED
    BY <2>2, <2>3
<1>3. h # <<>> /\ \A j \in DOMAIN h : h[j] # "["
  OBVIOUS
<1> HIDE DEF h
<1>4. k > 1
  <2>1. Len(h) # 0
    BY <1>2, <1>3, EmptySeq DEF Text
  <2>2. QED
    BY <1>1, <1>2, <2>1
<1>5. s[1] # "["
  <2>1. 1 \in 1 .. k - 1 /\ DOMAIN h = 1 .. k - 1
    BY <1>1, <1>2, <1>4, TextShape
  <2>2. QED
    BY <1>2, <1>3, <2>1
<1>6. QED
  BY <1>4, ParsesName, <1>5

\* ... and so it does where the grammar reads an address in brackets.
LEMMA AddressIsRead ==
  ASSUME NEW s \in Text, NEW i \in Colons(s), NEW k \in Colons(s),
         IsPort(After(s, k)), k > 3, s[1] = "[", s[k - 1] = "]", HostAt(s, i) = SubSeq(s, 2, k - 2),
         {HostAt(s, i)[j] : j \in DOMAIN HostAt(s, i)} \cap {"[", "]"} = {}
  PROVE  ParseAuthority(s) = Found(HostAt(s, i), Number(After(s, k)))
<1>1. Len(s) \in Nat /\ k \in 1 .. Len(s)
  BY TextShape DEF Colons
<1> DEFINE h == SubSeq(s, 2, k - 2)
<1>2. h \in Text /\ Len(h) = k - 3 /\ \A j \in 1 .. k - 3 : h[j] = s[j + 1]
  <2> DEFINE n == k - 2
  <2>1. n \in Nat /\ 2 \in Nat /\ 1 <= 2 /\ 2 <= n + 1 /\ n <= Len(s) /\ h = SubSeq(s, 2, n)
    BY <1>1
  <2> HIDE DEF n, h
  <2>2. /\ h \in Text /\ Len(h) = n - 2 + 1 /\ \A j \in 1 .. n - 2 + 1 : h[j] = s[2 + j - 1]
    BY <2>1, Slice
  <2>3. n - 2 + 1 = k - 3 /\ \A j \in 1 .. k - 3 : 2 + j - 1 = j + 1
    BY <1>1 DEF n
  <2>4. QED
    BY <2>2, <2>3
<1>3. \A j \in DOMAIN h : h[j] # "]"
  OBVIOUS
<1> HIDE DEF h
<1>4. ASSUME NEW j \in 2 .. k - 2
      PROVE  s[j] # "]"
  <2>1. j - 1 \in 1 .. k - 3 /\ j - 1 + 1 = j
    BY <1>1
  <2>2. DOMAIN h = 1 .. k - 3
    BY <1>2, TextShape
  <2>3. QED
    BY <1>2, <1>3, <2>1, <2>2
<1>5. QED
  BY <1>4, ParsesAddress

\* parse_authority reads whatever the grammar reads, and reads that.
LEMMA AuthorityIsRead ==
  ASSUME NEW s \in Text, NEW i \in Colons(s), Reads(s, HostAt(s, i), Number(After(s, i)))
  PROVE  ParseAuthority(s) = Found(HostAt(s, i), Number(After(s, i)))
<1> DEFINE h == HostAt(s, i)
<1>1. PICK k \in Colons(s) :
        /\ IsPort(After(s, k)) /\ Number(After(s, i)) = Number(After(s, k))
        /\ \/ h = Before(s, k) /\ h # <<>> /\ {h[j] : j \in DOMAIN h} \cap {":", "[", "]"} = {}
           \/ /\ k > 3 /\ s[1] = "[" /\ s[k - 1] = "]" /\ h = SubSeq(s, 2, k - 2)
              /\ {h[j] : j \in DOMAIN h} \cap {"[", "]"} = {}
  BY DEF Reads
<1>2. QED
  BY <1>1, NameIsRead, AddressIsRead

\* Only handle_connect takes a CONNECT out of the handler while main stands.
LEMMA OnlyHandleConnect ==
  ASSUME ServerInv, Next, NEW c \in Conns, conn[c] = "handle", conn'[c] # "handle",
         phase' = phase, request[c].kind = "connect"
  PROVE  HandleConnect(c)
<1> USE DEF ServerInv, ServerTypes, ConnInv
<1>1. ASSUME NEW d \in Conns, NEW from, NEW to, NEW r, NEW t, Move(d, from, to, r, t)
      PROVE  d = c /\ from = "handle"
  <2>1. conn[d] = from /\ conn' = [conn EXCEPT ![d] = to]
    BY <1>1 DEF Move
  <2>2. QED
    BY <2>1
<1>2. ASSUME NEW d \in Conns, NEW from, NEW to, Step(d, from, to)
      PROVE  d = c /\ from = "handle"
  BY <1>1, <1>2 DEF Step
<1>3. ASSUME NEW d \in Conns, NEW from, NEW t, Dial(d, from, t)
      PROVE  d = c /\ from = "handle"
  BY <1>1, <1>3 DEF Dial
<1>4. ~ MainStep
  <2>1. ~ EndMain
    BY DEF EndMain
  <2>2. conn' # conn
    OBVIOUS
  <2>3. QED
    BY <2>1, <2>2 DEF MainStep, LoadConfig, ParseDsns, StartTasks, Bind, PollShutdown, Shutdown, Exit, Quiet, connVars
<1>5. ~ Signal
  BY DEF Signal, connVars, Over
<1>6. ASSUME NEW d \in Conns
      PROVE  ~ (\/ Accept(d) \/ Receive(d) \/ Collected(d) \/ LookupEnds(d) \/ Respond(d)
                \/ StreamEnds(d) \/ Tunnel(d) \/ CopyEnds(d) \/ Close(d))
  <2>1. ~ (Accept(d) \/ Respond(d) \/ StreamEnds(d))
    BY <1>2 DEF Accept, Respond, StreamEnds
  <2>2. ~ (Receive(d) \/ Tunnel(d))
    BY <1>1 DEF Receive, Tunnel
  <2>3. ~ Collected(d)
    BY <1>3 DEF Collected
  <2>4. ~ (LookupEnds(d) \/ CopyEnds(d))
    BY DEF LookupEnds, CopyEnds
  <2>5. ~ Close(d)
    BY <1>1 DEF Close
  <2>6. QED
    BY <2>1, <2>2, <2>3, <2>4, <2>5
<1>7. ASSUME NEW d \in Conns, ConnStep(d)
      PROVE  HandleConnect(c)
  <2>1. CASE Upgraded(d) \/ Sent(d)
    BY <1>1, <1>2, <2>1 DEF Upgraded, Sent
  <2>2. CASE Health(d)
    BY <1>2, <2>2 DEF Health
  <2>3. CASE HandleConnect(d)
    BY <1>2, <1>3, <2>3 DEF HandleConnect
  <2>4. CASE HandlePath(d)
    BY <1>1, <1>2, <2>4 DEF HandlePath
  <2>5. QED
    BY <1>7, <2>1, <2>2, <2>3, <2>4 DEF ConnStep
<1>8. ~ (phase \in Over /\ UNCHANGED vars)
  BY DEF vars, connVars
<1>9. QED
  BY <1>4, <1>5, <1>6, <1>7, <1>8 DEF Next

\* A CONNECT with a well-formed authority is never dropped, and connects to
\* exactly the host and port it names, IPv6 included (proxy.rs:100-124,
\* 701-705), for every authority of any length.
THEOREM AuthorityIsHonouredAlways == Spec => AuthorityIsHonoured
<1> DEFINE Honoured ==
      \A c \in Conns :
        /\ conn[c] = "handle" /\ conn'[c] # "handle" /\ phase' = phase
        /\ request[c].kind = "connect"
        => \A i \in Colons(request[c].authority) :
             LET s == request[c].authority
                 host == IF s[1] = "[" THEN SubSeq(s, 2, i - 2) ELSE Before(s, i)
             IN Reads(s, host, Number(After(s, i)))
                  => conn'[c] = "dial" /\ target'[c] = Found(host, Number(After(s, i)))
<1>1. ASSUME ServerInv, Next
      PROVE  Honoured
  <2> SUFFICES ASSUME NEW c \in Conns,
                      conn[c] = "handle", conn'[c] # "handle", phase' = phase,
                      request[c].kind = "connect",
                      NEW i \in Colons(request[c].authority),
                      Reads(request[c].authority, HostAt(request[c].authority, i),
                            Number(After(request[c].authority, i)))
               PROVE  /\ conn'[c] = "dial"
                      /\ target'[c] = Found(HostAt(request[c].authority, i),
                                            Number(After(request[c].authority, i)))
    BY DEF HostAt
  <2> DEFINE s == request[c].authority
             found == Found(HostAt(s, i), Number(After(s, i)))
  <2>1. s \in Text
    <3>1. request[c] \in Requests[c]
      BY <1>1 DEF ServerInv, ConnInv
    <3>2. QED
      BY <3>1, ServerAssumption DEF Text
  <2>2. ParseAuthority(s) = found
    BY <2>1, AuthorityIsRead
  <2>3. HandleConnect(c)
    BY <1>1, OnlyHandleConnect
  <2>4. found.ok
    BY DEF Found
  <2>5. Dial(c, "handle", found)
    <3> HIDE DEF found
    <3>1. QED
      BY <2>2, <2>3, <2>4 DEF HandleConnect
  <2>6. conn' = [conn EXCEPT ![c] = "dial"] /\ target' = [target EXCEPT ![c] = found]
    <3> HIDE DEF found
    <3>1. QED
      BY <2>5 DEF Dial, Move
  <2>7. conn'[c] = "dial" /\ target'[c] = found
    <3> HIDE DEF found
    <3>1. conn = [d \in Conns |-> conn[d]] /\ target = [d \in Conns |-> target[d]]
      BY <1>1 DEF ServerInv, ServerTypes
    <3>2. QED
      BY <2>6, <3>1
  <2>8. QED
    BY <2>7
<1>2. ASSUME ServerInv, [Next]_vars
      PROVE  [Honoured]_vars
  BY <1>1, <1>2
<1>3. QED
  BY <1>2, ServerInvariance, PTL DEF Spec, AuthorityIsHonoured
=============================================================================
