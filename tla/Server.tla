------------------------------- MODULE Server -------------------------------
(***************************************************************************)
(* The process from its start to its exit (src/main.rs, src/proxy.rs:      *)
(* serve, handle_request, handle_connect): the configuration is loaded,    *)
(* the background tasks and the listener start, every connection is served *)
(* by a task of its own, and a signal ends the accept loop.                *)
(*                                                                         *)
(* What a request does between its parsing and its answer is Dispatch; it  *)
(* is one step here, which may also never come.                            *)
(***************************************************************************)
EXTENDS Settings, RequestLine

CONSTANTS
  Conns,      \* the connections of clients
  Startups,   \* what the process may be started with: [file, flag, env, ups]
  Requests    \* Requests[c]: what the client of c may send

IsSeq(s) == s \in Seq({s[i] : i \in DOMAIN s})

ASSUME ServerAssumption ==
  /\ \A s \in Startups :
       /\ DOMAIN s = {"file", "flag", "env", "ups"} /\ IsSeq(s.ups)
       /\ s.file \notin {Absent, Broken} => s.file.upstreams = Unset \/ IsSeq(s.file.upstreams)
  /\ Conns = DOMAIN Requests
  /\ \A c \in Conns : \A r \in Requests[c] :
       /\ r.kind \in {"health", "connect", "path"}
       /\ r.kind = "connect" => r.authority \in Seq(Characters) /\ UriAuthority(r.authority)

VARIABLES
  given,     \* what the process was started with
  phase,     \* where main is
  config,    \* the configuration, once loaded
  dsns,      \* the channels, once parsed
  tasks,     \* the health checker and the reaper: "none", "running", "aborted"
  signal,    \* "none", "default" or "caught": what SIGINT or SIGTERM found
  handlers,  \* whether the signal handlers are installed
  conn,      \* conn[c]: where the task of the connection is
  request,   \* request[c]: what it is serving
  target,    \* target[c]: where it connects to
  lookup,    \* lookup[c]: name lookups run for it, on threads of their own
  copier     \* copier[c]: the task spawned for its CONNECT tunnel

mainVars == <<given, phase, config, dsns, tasks>>
connVars == <<conn, request, target, lookup, copier>>
vars == <<mainVars, signal, handlers, connVars>>

NoRequest == [kind |-> "none"]

Init ==
  /\ given \in Startups
  /\ phase = "load" /\ config = Error /\ dsns = Error
  /\ tasks = "none" /\ signal = "none" /\ handlers = FALSE
  /\ conn = [c \in Conns |-> "none"]
  /\ request = [c \in Conns |-> NoRequest]
  /\ target = [c \in Conns |-> Refused]
  /\ lookup = [c \in Conns |-> FALSE]
  /\ copier = [c \in Conns |-> "none"]

-----------------------------------------------------------------------------
(* main up to the call of serve.                                           *)

\* main returns Err, Ok, or is killed by a signal it does not handle.
Over == {"exit_error", "exit_ok", "killed"}
Quiet == UNCHANGED <<signal, handlers, connVars>>

LoadConfig ==
  /\ phase = "load"
  /\ config' = Load(given.file, Args(given.flag, given.env), given.ups)
  /\ phase' = IF config' = Error THEN "exit_error" ELSE "parse"
  /\ UNCHANGED <<given, dsns, tasks>> /\ Quiet

ParseDsns ==
  /\ phase = "parse"
  /\ dsns' = ParseUpstreams(config.upstreams)
  /\ phase' = IF dsns' = Error THEN "exit_error"
              ELSE IF dsns' = <<>> /\ ~ config.direct_first THEN "exit_ok"
              ELSE "start"
  /\ UNCHANGED <<given, config, tasks>> /\ Quiet

\* The background tasks start before the listen address is parsed.  Mutant:
\* they are forgotten.
StartNoTasks ==
  /\ phase = "start"
  /\ phase' = IF config.host = Bad THEN "exit_error" ELSE "bind"
  /\ UNCHANGED <<given, config, dsns, tasks>> /\ Quiet
StartTasks ==
  /\ phase = "start"
  /\ tasks' = "running"
  /\ phase' = IF config.host = Bad THEN "exit_error" ELSE "bind"
  /\ UNCHANGED <<given, config, dsns>> /\ Quiet

Bind ==
  /\ phase = "bind"
  /\ phase' \in {"serving", "returned_error"}
  /\ UNCHANGED <<given, config, dsns, tasks>> /\ Quiet

-----------------------------------------------------------------------------
(* The select loop of serve.                                               *)

\* The handlers are installed when the loop first polls the shutdown future.
PollShutdown ==
  /\ phase = "serving" /\ ~ handlers
  /\ handlers' = TRUE
  /\ UNCHANGED <<mainVars, signal, connVars>>

\* SIGINT or SIGTERM.  Until the handlers are there it kills the process.
Signal ==
  /\ phase \notin Over /\ signal = "none"
  /\ signal' = IF handlers THEN "caught" ELSE "default"
  /\ phase' = IF handlers THEN phase ELSE "killed"
  /\ IF handlers THEN UNCHANGED connVars
     ELSE /\ conn' = [c \in Conns |-> "none"] /\ copier' = [c \in Conns |-> "none"]
          /\ lookup' = [c \in Conns |-> FALSE] /\ UNCHANGED <<request, target>>
  /\ UNCHANGED <<given, config, dsns, tasks, handlers>>

Shutdown ==
  /\ phase = "serving" /\ signal = "caught"
  /\ phase' = "returned_ok"
  /\ UNCHANGED <<given, config, dsns, tasks>> /\ Quiet

\* serve has returned: main aborts the tasks and returns, and the runtime
\* drops every connection, whatever it is doing ...  Mutant: it waits for the
\* requests in flight.
EndMainWhenIdle ==
  /\ phase \in {"returned_ok", "returned_error"}
  /\ \A c \in Conns : conn[c] \notin {"collect", "dial", "stream"}
  /\ phase' = IF phase = "returned_ok" THEN "drop_ok" ELSE "drop_error"
  /\ tasks' = "aborted"
  /\ conn' = [c \in Conns |-> "none"] /\ copier' = [c \in Conns |-> "none"]
  /\ UNCHANGED <<given, config, dsns, signal, handlers, request, target, lookup>>
EndMain ==
  /\ phase \in {"returned_ok", "returned_error"}
  /\ phase' = IF phase = "returned_ok" THEN "drop_ok" ELSE "drop_error"
  /\ tasks' = "aborted"
  /\ conn' = [c \in Conns |-> "none"] /\ copier' = [c \in Conns |-> "none"]
  /\ request' = [c \in Conns |-> NoRequest] /\ target' = [c \in Conns |-> Refused]
  /\ UNCHANGED <<given, config, dsns, signal, handlers, lookup>>

\* ... and waits for the lookups, which run on threads of their own.
Exit ==
  /\ phase \in {"drop_ok", "drop_error"} /\ \A c \in Conns : ~ lookup[c]
  /\ phase' = IF phase = "drop_ok" THEN "exit_ok" ELSE "exit_error"
  /\ UNCHANGED <<given, config, dsns, tasks>> /\ Quiet

-----------------------------------------------------------------------------
(* The task of a connection, while the runtime lives.                      *)

Move(c, from, to, r, t) ==
  /\ conn[c] = from
  /\ conn' = [conn EXCEPT ![c] = to]
  /\ request' = [request EXCEPT ![c] = r]
  /\ target' = [target EXCEPT ![c] = t]
  /\ UNCHANGED <<mainVars, signal, handlers>>
Step(c, from, to) == Move(c, from, to, NoRequest, Refused) /\ UNCHANGED <<lookup, copier>>
Dial(c, from, t) ==
  /\ Move(c, from, "dial", request[c], t)
  /\ lookup' = [lookup EXCEPT ![c] = TRUE] /\ UNCHANGED copier
Spawn(c, task) == copier' = [copier EXCEPT ![c] = task] /\ UNCHANGED lookup

Accept(c) == phase = "serving" /\ copier[c] = "none" /\ Step(c, "none", "open")

Receive(c) ==
  \E r \in Requests[c] : Move(c, "open", "handle", r, Refused) /\ UNCHANGED <<lookup, copier>>

\* handle_request: /health, a CONNECT with an authority, or a path.  An Err
\* closes the connection without an answer.
Health(c) == request[c].kind = "health" /\ Step(c, "handle", "200")

HandleConnect(c) ==
  /\ request[c].kind = "connect"
  /\ LET read == ParseAuthority(request[c].authority)
     IN IF read.ok THEN Dial(c, "handle", read) ELSE Step(c, "handle", "none")

\* A path request is collected to its end first, however long that takes.
HandlePath(c) ==
  /\ request[c].kind = "path"
  /\ IF ~ IsTarget(request[c].url) THEN Step(c, "handle", "400")
     ELSE IF ~ UrlParses(request[c].url) THEN Step(c, "handle", "none")
     ELSE Move(c, "handle", "collect", request[c], Refused) /\ UNCHANGED <<lookup, copier>>

Collected(c) == Dial(c, "collect", Forward(request[c].url))

\* The last lookup for c is over.  Nothing waits for it: a connect that times
\* out leaves its lookup behind on its thread.
LookupEnds(c) ==
  /\ lookup[c] /\ lookup' = [lookup EXCEPT ![c] = FALSE]
  /\ UNCHANGED <<mainVars, signal, handlers, conn, request, target, copier>>

\* No route, or the headers of the target's response, whose body is then
\* streamed for as long as the target and the client take.
Respond(c) ==
  \/ Step(c, "dial", "502")
  \/ request[c].kind = "path" /\ Step(c, "dial", "stream")

StreamEnds(c) == Step(c, "stream", "open")

\* A CONNECT tunnel: a task is spawned that waits for the upgrade, and 200 is
\* returned.  Mutant: the handler waits for the upgrade itself.
TunnelInHandler(c) ==
  /\ request[c].kind = "connect"
  /\ Move(c, "dial", "handle", NoRequest, Refused) /\ Spawn(c, "upgrade")
Tunnel(c) ==
  /\ request[c].kind = "connect"
  /\ Move(c, "dial", "200", NoRequest, Refused) /\ Spawn(c, "upgrade")

\* An answer that is all in memory is sent.  The connection waits for the next
\* request, unless the answer opened a tunnel: then hyper lets go of it ...
Sent(c) ==
  \E code \in {"200", "400", "502"} :
    Step(c, code, IF copier[c] = "upgrade" THEN "upgraded" ELSE "open")

\* ... which resolves the upgrade, and the task copies the bytes.
Upgraded(c) ==
  /\ copier[c] = "upgrade"
  /\ Move(c, "upgraded", "none", NoRequest, Refused) /\ Spawn(c, "copy")

CopyEnds(c) ==
  /\ copier[c] = "copy" /\ Spawn(c, "none")
  /\ UNCHANGED <<mainVars, signal, handlers, conn, request, target>>

\* The client or the target closes, a body cannot be read, a panic; an upgrade
\* that is waited for fails.
Close(c) ==
  /\ conn[c] \notin {"none", "handle"}
  /\ Move(c, conn[c], "none", NoRequest, Refused) /\ Spawn(c, "none")

ConnStep(c) ==
  \/ Health(c) \/ HandleConnect(c) \/ HandlePath(c) \/ Upgraded(c) \/ Sent(c)

MainStep ==
  \/ LoadConfig \/ ParseDsns \/ StartTasks \/ Bind
  \/ PollShutdown \/ Shutdown \/ EndMain \/ Exit

Next ==
  \/ MainStep \/ Signal
  \/ \E c \in Conns :
       \/ Accept(c) \/ Receive(c) \/ ConnStep(c) \/ Collected(c)
       \/ LookupEnds(c) \/ Respond(c) \/ StreamEnds(c) \/ Tunnel(c) \/ CopyEnds(c) \/ Close(c)
  \/ phase \in Over /\ UNCHANGED vars

\* main and the connections run when they can, an answer of a few bytes fits
\* the buffer of its socket, and name lookups end: the resolver has its own
\* timeouts.  Clients, targets and operators owe nothing: a body that is
\* streamed and a tunnel need never end.
Spec ==
  /\ Init /\ [][Next]_vars
  /\ WF_vars(MainStep)
  /\ \A c \in Conns : WF_vars(ConnStep(c)) /\ WF_vars(LookupEnds(c))

-----------------------------------------------------------------------------
(* Properties.                                                             *)

Labels == {"none", "open", "handle", "collect", "dial", "stream", "200", "400", "502", "upgraded"}

\* Types; connections and the background tasks exist only where main lets
\* them, and nothing of a connection is left when the process is over.
ServerTypeOK ==
  /\ phase \in Over \cup {"load", "parse", "start", "bind", "serving",
                         "returned_ok", "returned_error", "drop_ok", "drop_error"}
  /\ tasks \in {"none", "running", "aborted"} /\ handlers \in BOOLEAN
  /\ signal \in {"none", "default", "caught"}
  /\ conn \in [Conns -> Labels] /\ lookup \in [Conns -> BOOLEAN]
  /\ copier \in [Conns -> {"none", "upgrade", "copy"}]
  /\ \A c \in Conns : copier[c] = "copy" => conn[c] = "none"
  /\ phase \in Over => \A c \in Conns : ~ lookup[c]
  /\ phase \in Over \/ tasks = "aborted" =>
       \A c \in Conns : conn[c] = "none" /\ copier[c] = "none"
  /\ phase \in {"serving", "exit_ok"} /\ dsns # <<>> => tasks # "none"

Listening == phase \in {"bind", "serving", "returned_ok"}
\* The upstreams of the file.
Listed == IF given.file = Absent THEN <<>> ELSE given.file.upstreams

\* README:93 "configuration or DSN errors: start-up fails": no listener exists
\* if the file cannot be read, a flag or a variable that no flag overrides does
\* not parse, the address is none, or any DSN is malformed, in the file or not.
RefusesBadSettings ==
  Listening =>
    /\ given.file # Broken /\ (given.file # Absent => given.file.upstreams # Unset)
    /\ \A k \in {"port", "strategy", "direct_first"} : given.flag[k] # Bad
    /\ \A k \in {"port", "direct_first"} : given.flag[k] = Unset => given.env[k] # Bad
    /\ config.host # Bad
    /\ \A list \in {Listed, given.ups} : \A i \in DOMAIN list :
         /\ list[i].scheme \in DOMAIN DsnPorts
         /\ list[i].host # Unset /\ list[i].port # Bad

\* config.rs:100 "CLI flag > env var > config file > default", setting by
\* setting, and the channels in the order of the file and then the -u flags,
\* which is their priority.
RunsAsConfigured ==
  Listening =>
    LET inEnv(k)  == IF k \in Environment THEN given.env[k] ELSE Unset
        inFile(k) == IF given.file = Absent THEN Unset ELSE given.file[k]
    IN /\ \A k \in Options :
            config[k] = CASE given.flag[k] # Unset -> given.flag[k]
                          [] given.flag[k] = Unset /\ inEnv(k) # Unset -> inEnv(k)
                          [] OTHER -> IF inFile(k) # Unset THEN inFile(k) ELSE Default[k]
       /\ Len(dsns) = Len(Listed) + Len(given.ups)
       /\ \A i \in DOMAIN dsns :
            dsns[i].host = (IF i <= Len(Listed) THEN Listed[i] ELSE given.ups[i - Len(Listed)]).host

\* A signal that the program handles ends it, whatever its connections are
\* waiting for: a silent route, a client that never finishes its body (serve,
\* and the drop of the runtime behind main).
ShutdownCompletes == signal = "caught" ~> phase \in Over

\* A connection and the task of its tunnel rest only where a client, a route,
\* a body or the end of a tunnel is waited for: a tunnel that was acquired is
\* answered and then copied, and no handler waits for the upgrade that only
\* its own answer brings about (proxy.rs:394-395 "otherwise we'd deadlock the
\* handler").
OnlyPeersHold ==
  \A c \in Conns :
    TRUE ~> /\ conn[c] \in {"none", "open", "collect", "dial", "stream"}
            /\ copier[c] \in {"none", "copy"}

\* The grammar of an authority: a name, or an address in brackets, and a port.
Reads(s, host, port) ==
  \E i \in Colons(s) :
    /\ IsPort(After(s, i)) /\ port = Number(After(s, i))
    /\ \/ host = Before(s, i) /\ host # <<>> /\ {host[j] : j \in DOMAIN host} \cap {":", "[", "]"} = {}
       \/ /\ i > 3 /\ s[1] = "[" /\ s[i - 1] = "]" /\ host = SubSeq(s, 2, i - 2)
          /\ {host[j] : j \in DOMAIN host} \cap {"[", "]"} = {}

\* A CONNECT with a well-formed authority is never dropped, and connects to
\* exactly the host and port it names, IPv6 included (parse_authority).
AuthorityIsHonoured ==
  [][\A c \in Conns :
       /\ conn[c] = "handle" /\ conn'[c] # "handle" /\ phase' = phase
       /\ request[c].kind = "connect"
       => \A i \in Colons(request[c].authority) :
            LET s == request[c].authority
                host == IF s[1] = "[" THEN SubSeq(s, 2, i - 2) ELSE Before(s, i)
            IN Reads(s, host, Number(After(s, i)))
                 => conn'[c] = "dial" /\ target'[c] = Found(host, Number(After(s, i)))]_vars

\* README:12 "passes method, headers, cookies and body through completely": a
\* target that decodes the body by the headers it gets finds the client's body.
TargetDecodesBody ==
  \A c \in Conns :
    conn[c] = "dial" /\ request[c].kind = "path" =>
      Decoded(target[c].framing, target[c].body) =
        IF request[c].url.framing = "none" THEN "empty" ELSE "plain"

\* README:27 "http://proxy:port/https://target address", and proxy.rs:455: the
\* URL that was asked for is the URL that is requested, its query included.
ForwardsTargetUrl ==
  \A c \in Conns :
    conn[c] = "dial" /\ request[c].kind = "path" =>
      target[c].query = request[c].url.query
=============================================================================
