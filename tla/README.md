# multi-proxy: a verification project

TLA+ models of the program in `src/`, the TLC runs that check them on small
instances, and TLAPS proofs of the properties that matter most. Paths below are
relative to the repository's Rust sources (`src/`); line numbers are theirs.

## The system

multi-proxy is an HTTP proxy. A client sends `CONNECT host:port` or
`GET /https://host/path`; the proxy reaches the target through one of several
configured upstream *channels* (HTTP proxy, SOCKS5 proxy, SSH server) or
directly, falling over from one to the next, and answers 502 when nothing works.
A background task probes the channels.

| Component | State | Operations | Talks to |
|---|---|---|---|
| Channel table and circuit breaker (`upstream/mod.rs`) | `Arc<RwLock<Vec<Channel>>>`: health, `failure_count`, `last_failure` per channel | `mark_healthy`, `mark_unhealthy`, `should_retry`, `channels` (clone) | shared by all requests and the checker |
| Request dispatch (`proxy.rs` 297-551, `strategy.rs`) | per request: a clone of the table, the place in the walk | `acquire_tunnel`, `handle_connect`, `handle_path_forward`, `ordered_channels`, `start_index` | reads and marks the table, calls the channels |
| Health checker (`upstream/health.rs`, `probe` in `http.rs`, `socks5.rs`, `ssh.rs`) | a ticker, a `JoinSet` of probe tasks | `run_check` at once and at every tick | marks the table |
| SSH session pool (`upstream/ssh.rs`) | one global entry: session handle (`Arc<Mutex>`), `last_used` | `get_or_connect`, `establish`, `check_idle`, reaper task | called by dispatch for an SSH channel |
| Upstream handshakes (`proxy.rs` 141-295) | the bytes exchanged with an HTTP or SOCKS5 proxy | `establish_direct`, `establish_http`, `establish_socks5` | called by dispatch |
| Response relay (`proxy.rs` 47-93, 396-410, 553-658) | header buffer, leading bytes, the upstream stream | the copy of a CONNECT, `forward_through`, `read_streaming_response`, `ReaderBody::poll_frame` | called by dispatch, polled by hyper |
| Request parsing (`proxy.rs` 99-135, 423-497, 676-709) | none | `parse_authority`, `parse_path_target`, request rewriting, `/health` | before dispatch |
| Server lifecycle (`proxy.rs` 711-767, `main.rs`) | listener, connection tasks, background task handles | start-up, accept loop, signals, abort of the tasks | starts everything |
| Configuration (`config.rs`, `dsn.rs`) | none after start-up | `Config::load`, DSN parsing | gives the constants of all the others |

What makes each component correct, and what is hard about it:

* **Table and breaker.** The fields of a record agree whatever the order of
  marks; a failed channel is isolated, never for ever, at every value of the
  saturating counter. Hard: boundaries of the window table and of `u32`.
* **Dispatch.** Routes are tried once each, in an order fixed by the target, a
  channel is passed over only with a reason, 502 comes only when everything was
  tried. Hard: requests decide on *stale copies* of a table that others mark; the
  walk is written twice, with two places for the direct route; any await can be
  the last (panic, client gone) or last for ever (silent peer), and over SSH a
  request waits for the mutex of a session that others open channels through.
* **Checker.** No verdict is lost or misdirected; a pass ends; the table agrees
  with the world within a fixed time. Hard: results arrive in any order, between
  the steps of requests, and may be stale when they are applied.
* **SSH pool.** A live session is reused and not evicted while in use; a dead one
  does not wedge the pool; no call waits for the pool because of another's
  peer. Hard: an `RwLock`, a mutex held across an await, a slow path without a
  lock, a reaper, sessions dying at any time.
* **Handshakes and relay.** The client receives the target's bytes, all of them,
  in order, and nothing else; what was cut does not look whole. Hard: TCP cuts
  every answer anywhere; three parsers share one stream; the body is framed by
  the origin and once more by hyper.
* **Parsing and configuration.** Boundary values, defaults that differ from the
  url crate's, precedence of sources.
* **Lifecycle.** Bad settings never listen; a signal ends the process whatever
  its connections wait for. Hard: a signal at any moment, the runtime's drop, an
  upgrade that resolves only after the answer.

## Modules

| Module | Models | Notes |
|---|---|---|
| `ChannelManager` | the table, the breaker, the marks | any caller may mark any channel at any time |
| `Failover` | the abstract promise to a client | ranking, fate of each route, answer |
| `Dispatch` | requests and the health checker over `ChannelManager` | implements `Failover` |
| `Recovery` | the checker over `ChannelManager` in real time, with the upstreams' true state | |
| `SshPool` | the pool, `establish`, the reaper | |
| `Tunnel` | the set-up of a stream on one route, over a cut byte stream | |
| `Relay` | `Tunnel`, then the copy of a CONNECT or a request and its response | extends `Tunnel` |
| `Settings` | `Config::load`, DSNs | operators only |
| `RequestLine` | authorities, path targets, the request that is sent on | operators only |
| `Server` | the process: `main`, `serve`, connection tasks, signals | runs the operators of the two above |
| `MC*` | values of the constants for TLC | |
| `ChannelManagerProofs`, `FailoverProofs`, `DispatchProofs`, `DispatchRefinement`, `RecoveryProofs`, `SshPoolProofs`, `RelayProofs`, `ServerProofs` | theorems | |

`Dispatch` and `Recovery` extend `ChannelManager` (they use its marks and its
clock); `Dispatch` instantiates `Failover` as `F`. What `Dispatch` sees of a route
(success, error, silence, panic) is what `Tunnel`, `Relay` and `SshPool` end in
(`done` or `tunnel`, `failed`, waiting on a silent peer, `panicked`); what `Server`
sees of a request (`dial`, then an answer or never one) is what `Dispatch` ends in.

### Correspondence

**ChannelManager.** `channels[id]` is the record with index `id`. `Healed` and
`Failed` are `Channel::mark_healthy` and `mark_unhealthy`; they run under the
write lock with no await, so each is one step. `Backoff` is the window of
`should_retry` in seconds: `3^n` up to five failures, then 300. `clock` counts
whole seconds (the code compares `elapsed().as_secs()`). `last_success` is
written and never read and is left out.

**Dispatch.** A request is a task; `pc[r]` is where it awaits.

| `pc` | Code |
|---|---|
| `idle` | not arrived |
| `direct`, `direct_forward` | `establish_direct`, then `forward_through` for a path request |
| `order` | about to call `ordered_channels` (`TakeSnapshot` is the clone) |
| `loop` | at the head of the `for` |
| `establish`, `forward` | awaiting `establish_via_dsn`, `forward_through` |
| `lock`, `open` | over SSH, the last two awaits of `establish`: the session's mutex, and the channel-open under it |
| `reject` | all routes failed, the 502 is next |
| `done` | over |
| `hung`, `open_hung` | waiting for a silent peer, in the latter case with the mutex |

`snap[r]` is the clone, `pos[r]` the iterator. `fate` is a history variable: what
became of each route. A `connect` request marks the channel as soon as the tunnel
stands, a `path` request only when the response headers have come. `Abandon` is a
handler that panics or that hyper drops because its client went away: no mark,
no answer. `session[r]` is the SSH session that `get_or_connect` handed the request,
any of `Sessions`: which one it is, and that a dead one may be handed out, is
`SshPool`. `Holds` says who has the mutex of a session; it is freed when the
channel is open, the open fails or the request is dropped. `checker`, `probe` and `nextProbe` are `start_health_checker`'s loop,
the `JoinSet` and the ticker, which makes up for missed ticks. A probe interval
of zero makes the ticker panic: the checker is `dead` from then on.

**Recovery.** The same checker where only time matters: `up[c]` is whether the
upstream of channel c accepts connections, which `Flip` changes at any moment.
A probe is a TCP connect, so it tells how the upstream was at some moment since
the pass began (`seen`). A request on the channel (`attempt`) may be older than
the pass and may last for any time; it can succeed only if the upstream was up
meanwhile and can fail for reasons a probe does not see (a rejected password).
`Elapse` lets time advance only when no task is ready: that is what a runtime
that is not overloaded does, and it is the assumption behind the two bounds.

**SshPool.** A task is a call of `establish`; it connects at most once, so the
session it opens bears its name. `Reuse` and `Miss` are the fast path under the
pool's lock, `SeenClosed` the `try_lock` expression, `Connected`/`ConnectFailed`
the slow path, `Store` its last critical section, `Lock` ... `OpenFailed` the
channel-open under the session's mutex. `Reap` is `check_idle` at a tick. What
russh does is external: a session may close at any time and closes when nothing
refers to it (`Dropped`); a call refers to it by its `Arc` until `establish`
returns, then by the sender inside its channel. `Abandon` is a request dropped at an await of the call.

**Tunnel and Relay.** A stream is a sequence of tokens; `wire` is what has been
sent and not read. Every read takes any prefix that fits the buffer, every
answer may stop after any prefix, and then the peer closes, resets or goes
silent; a peer that has stopped says nothing more, though the program may still
read and write what it can. `reply` (the proxy's answer), `payload` (what the target sent) and
`origin` (the response it meant) are history; the properties compare `client`
with them. One pass over one route is modelled; several passes are `Dispatch`.

| `pc` | Code |
|---|---|
| `connect` | the TCP connect |
| `status` | `establish_http`'s read loop |
| `method`, `auth`, `reply` | the three `read_exact` of `establish_socks5` |
| `tunnel` | the stream is handed over: the copy of a CONNECT, TLS, or the request is next |
| `request` | TLS stands, the request is next |
| `headers`, `body` | `read_streaming_response`, `ReaderBody` |
| `done`, `failed`, `aborted`, `panicked` | ended well, with an Err, in the middle of the body, by an unwinding task |

`Encoded` is hyper's encoder, which stops at Content-Length and aborts the
connection when a body ends before it. The buffers are 4 tokens instead of 256
and 4096 bytes, the limits 5 and 8 instead of 1024 and 65536; every case (a reply
longer than one read, headers over the limit) is still there.

**Server.** `phase` is where `main` is, `conn[c]` where a connection's task is;
`collect` is the wait for the body of a path request, `dial` everything from the
first connect to the response headers, `stream` the body of a path request's 200,
which `ReaderBody` passes on without a deadline for as long as target and client
take; `200`, `400` and `502` are answers that are all in memory. `copier[c]` is the
task that `handle_connect` spawns: it waits for the upgrade (`upgrade`), which hyper
resolves when the 200 has been sent and it lets go of the connection (`upgraded`),
and then copies (`copy`), while the connection's own task is over. `lookup` is the
name lookup, which tokio runs on a blocking thread: a connect that times out
leaves it behind, and the runtime's drop waits for it. `Settings` and `RequestLine`
give the operators that the steps evaluate: an authority is a sequence of
characters (with "443" as one), a URL or DSN the record of its parts, a setting a
text that may be missing or not parse. `Environment` names the settings that have
a variable: the strategy has none (`config.rs` 116-117).

## Runs

| Run | Shows | Bounds |
|---|---|---|
| `channel_manager` | breaker: types, coherent records, isolation of 3 s at least and 300 s at most, windows never brought forward | 1 channel (records are independent), counter saturating at 7 (past the last table entry at 5), steps of 1, 2 and 100 s up to 310 s, so every window can be under- and overrun |
| `dispatch_table` | verdicts reach the table, exactly once and on the right record; skips have a reason; what 200 and 502 mean | 2 CONNECT requests, 2 channels, clock to 6 s in steps of 3 and 6 (the first window is 3 s), checker period 6 s: two passes |
| `dispatch_live` | refinement of `Failover`; what a request can wait for; checker passes end | 2 path requests, a SOCKS5 and an SSH channel with one session that both requests are handed, hash strategy with a walk that starts at the second channel, direct first, all faults, a checker that dies of `probe_interval = 0` |
| `ssh_pool` | types and lock discipline, idle bound, what eviction spares, what a call can be stuck on | 2 calls, clock to 150 s in steps of 30 s with the program's 60 s and 30 s |
| `recovery` | the table is right within `probe_interval + 2 * connect_timeout` of the last change | 2 channels, one of them flaky, interval 1 s, timeout 2 s, so a pass may be shorter than the interval or outlast two ticks, which are then made up for; clock to 12 s (the lag is 5 s), counter saturating at 2, so the backoff reaches 9 s, longer than the lag |
| `relay` | tunnels are exact, responses faithful, cut bodies not complete, headers bounded in size and time | 4 routes, 3 uses, 3 HTTP replies, 3 lengths of SOCKS5 address, 6 responses, one for each case of the parser; all cuts and all endings |
| `server` | bad settings never listen, precedence, request parsing, no wait in the handler, shutdown completes | 15 ways to start, each error alone (DSNs that are malformed in the file and in the flags, a `direct_first` that is no bool) and each source against the weaker ones; 2 connections, one with every authority of up to 4 tokens that the http crate lets through and the longer IPv6 cases |

The other five runs each refute one sentence of the repository, see below.

Two requests are enough for the table: every property of it speaks of one
channel, one mark and one older copy, so one request that holds the copy and one
that marks (or the checker) meet in every order. One SSH session is the case in
which requests delay one another; two of them would only add walks that do not
meet, and `ssh_pool` covers several sessions. Two calls are enough for the
pool: its properties speak of one session and one other call. `MaxFailures`,
`MaxClock`, `TimeSteps` and `TimeStep` are the only bounds of the models that
are proved about; the theorems are free of them except for the upper end of the
clock, which only the type invariants mention.

`recovery` and `relay` switch the deadlock check off: the former ends with the
bounded clock, and in the latter a task may wait for a silent peer for ever,
which is what the code does.

### Fairness

* `Dispatch!FairSpec`: weak fairness of each task's next step and of the probes
  and the end of a pass. The runtime polls every ready task; every probe and
  every direct connect is under a timeout; a task whose peer went silent in an
  await *without* a deadline is in `hung` or `open_hung`, where nothing is owed.
  `LockSession` needs no more than weak fairness: tokio's mutex queues its waiters
  in order, and a walk locks once per SSH channel. No fairness for clients, faults
  or the clock.
* `SshPool!FairSpec`: weak fairness of each call; tokio's mutex queues its
  waiters in order, and a call locks only once, so weak fairness of `Lock` asks
  for no more than that. A tick of the reaper is never late, since it only needs a
  lock that is never held across an await.
* `Relay!Spec`: weak fairness of the reads of the header phase, because data that
  is there is read and tokio's timer fires. None for peers, and none for the
  handshakes, which have no deadline.
* `Server!Spec`: weak fairness of `main`, of a connection's steps that wait for
  nobody (an answer that is all in memory is a few bytes, which fit the socket's
  buffer; the upgrade resolves behind it), and of name lookups (the system's
  resolver has its own timeouts). None for clients, targets, routes or the
  operator: a body that is streamed, and a tunnel, may last for ever.

## What the code does otherwise than it says

* `dispatch_hang`: a peer that accepts and stays silent is never left
  (`proxy.rs` 164-181, 213-255, 577-585; `_timeout_dur` in `ssh.rs` 208), and over
  SSH it stops the other requests on its session too (`ssh.rs` 220), while the
  README promises to switch to the next channel when one fails.
* `ssh_pool_server`: one entry for the whole process, not "one entry per DSN"
  (`ssh.rs` 76): with two SSH upstreams a tunnel goes through the wrong server.
* `relay_chunked`: `Transfer-Encoding` is passed on with the raw stream
  (`proxy.rs` 647-652), and hyper frames the body once more: the client decodes
  one layer and finds the origin's chunk sizes in the body, while the comment at
  592 says that it decodes the body correctly.
* `request_url`: the query of `/https://host/path?query` is dropped, since the
  target is read from `uri().path()` (`proxy.rs` 429); the branch that adds a query
  (455-456) is never taken, and the README's form of a request is the target's
  address behind a slash, whatever it is.
* `request_body`: a body that came in chunks is written without them, as hyper
  decoded it (`proxy.rs` 489-497), behind headers that keep `Transfer-Encoding`
  (465-485): the target finds no chunks where it is told of some. The README
  promises to pass method, headers, cookies and body through completely.

Not contradictions that a run is spent on, but worth knowing, and, unless said,
in the models:

* `should_retry` is asked of a copy of the table as old as the slowest channel
  tried before (`proxy.rs` 345-346, 512-513), so a request may start on a channel
  that another one has failed meanwhile, and that attempt counts towards the next
  window. What the copy does guarantee is `SkipsOnEvidence`.
* A wrong password never isolates an upstream for longer than one pass: the
  probe is a TCP connect and resets the count (`RejoinsInTime`).
* Concurrent first calls open an SSH session each (`ssh.rs` 3 says "established
  once"), and a closed session is handed out while another call holds its mutex
  (`ssh.rs` 92-96).
* An HTTP proxy that answers CONNECT with more than a status line leaves the rest
  in the tunnel or not, as TCP cuts it (`proxy.rs` 172-181); a SOCKS5 reply with
  an IPv6 or domain address leaves bytes (`proxy.rs` 254). The properties of
  `Relay` speak of tunnels whose reply was read exactly (`Aligned`); over https
  the TLS handshake fails on any other, so there they hold always.
* An interim `100 Continue` is taken for the response and becomes a 500; end of
  stream inside the headers panics the task (`proxy.rs` 626).
* Plain http to port 443 gets a `Host` without a port, which names port 80
  (`proxy.rs` 469); the `Host` header is not in the models, as no document of the
  repository speaks of it.
* `/https://` without a host, or with a bad port, closes the connection instead
  of answering 400 (`proxy.rs` 443-452).
* "Graceful shutdown" (`proxy.rs` 723) stops accepting and returns: requests and
  tunnels in flight are dropped with the runtime, and before the select loop runs
  a signal kills the process.
* `http://q:80` is contacted on port 8080 (`dsn.rs` 74), because the url crate
  reports no port when it is the scheme's default (`UrlPort`).
* A configuration file without `upstreams` is an error even with `-u`.

## Proofs

All theorems hold for every value of the constants under the named assumptions
(`ManagerAssumption`, `DispatchAssumption`, `RecoveryAssumption`,
`PoolAssumption`, `TunnelAssumption`, `RelayAssumption`, `SettingsAssumption`,
`ServerAssumption`), which TLC also evaluates. The theorems of `FailoverProofs`
state their only assumption, `NChannels \in Nat`, themselves. The assumptions of
the last four modules say what the constants are: answers are sequences of
`Words`, limits are numbers and buffers hold something, a text that does not
parse differs from no text, channels are listed in sequences, and the authority
of a CONNECT is made of characters that the http crate lets through.

* **ChannelManagerProofs.** `ManagerTypeOK /\ RecordCoherent` is inductive:
  coherence is what makes the window well defined (a count of at least one). From
  it and two lemmas about `Backoff` (range 3..300, monotone): `FailureIsolates`,
  `NeverAbandoned`, `BackoffNeverShrinks`.
* **FailoverProofs.** The properties speak of answered requests; the
  strengthening (`InOrder`) says that while a request is pending nothing below an
  unsettled route was touched, and that the direct route is never skipped.
* **DispatchProofs.** `DispatchInv` adds to types and coherent records that copies
  lag behind the table and are coherent themselves. A skip is decided on a copy;
  the copy's failure is no later than the table's, hence `SkipsOnEvidence`.
  `WalkPermutes`: the rotation loses no channel, for any hash.
* **DispatchRefinement.** `Spec => F!Spec`. The invariant `WalkInv` computes from
  `pc` and `pos` how many routes are settled (`Place`) and says that the ranking
  is settled below that place and open from it on. Each action then either moves
  within one place (a stutter), settles the route there (`Skip`, `Fail`,
  `Serve`), or ends the request; a reject happens at the place past the last
  route, and since the ranking is onto, all routes are settled then. With the
  theorems of `FailoverProofs`: `RejectsWhenExhausted`, `ServesFromBest`. And
  since the channel a task is at is open in its walk, a step that marks it brings
  a new verdict: every step is quiet, or marks one channel by the one verdict it
  brings (`VerdictStep`), hence `MarksFollowVerdicts` and `VerdictsTakeEffect`.
* **RecoveryProofs.** The invariant has two parts. The clockwork: a pass is never
  longer than the timeout and a tick never late, so two consecutive passes span no
  more than the lag. The tracking of one channel: once world and requests have
  left it alone, a pass that began after that brings only true results, and its
  verdict stays in the table until the next one. Neither half is inductive alone:
  what a pass may still report depends on when it began.
* **SshPoolProofs.** `PoolInv` adds to the types that a handle fits the state of its
  call, that a mutex is held exactly by the call that opens a channel under it,
  and that the entry's `last_used` is the last use of its session, never older than
  the idle bound at the last tick. The mutex part is what the types need when a
  call is dropped; the rest gives the bound and both eviction properties.

* **RelayProofs.** `RelayInv` says of every place what was read and what is unread:
  together they are the peer's answer, or, of a response, where it begins; a peer
  that stops early leaves less behind and never anything else (`Answered`,
  `Open`, `InHeaders`, `InBody`). The safety properties alone are not inductive:
  they speak of the end, and what makes it right is that no read before it lost,
  repeated or reordered a byte. The heart is `TopShape`: a response that is no
  interim one has its first empty line where its own headers end, and a buffer
  that holds no empty line has not reached it, so whatever the reads were cut to
  and whatever the body holds, the first one found ends the headers. Hence
  `TunnelIsExact`, `ResponseIsFaithful`, `CutIsNotComplete` and the bounds in
  `RelayTypeOK`.
* **ServerProofs.** `ServerInv` says what `main` has found out by each phase (the
  configuration is `Load` of what it was started with, the channels are
  `ParseUpstreams` of that, the listen address parses), in which phases there are
  connections and spawned tasks. From it: `ServerTypeOK`, `RefusesBadSettings`
  (the channels that all parse are the file's and then the flags', so each of
  those does) and `RunsAsConfigured` (they stand where a concatenation puts them).
  For `AuthorityIsHonoured`,
  `AuthorityIsRead` shows that `parse_authority` reads whatever the grammar of an
  authority reads, at any length: a port has no colon, so the last colon is the
  port's; an address has no bracket, so the first closing one ends it; one colon
  is trimmed. What digits amount to (`Number`) is the same on both sides.

Both invariants were checked by TLC on the instances of the runs first. The
proofs found two places where the models were wrong: a peer that had stopped
inside one answer could still give the next one, and a SOCKS5 method that is none
of those named had no step, where the code returns an Err (`proxy.rs` 244).

Only model-checked is what the prover cannot reach, liveness: `EveryCheckEnds`,
`OnlyPeersDelay`, `EveryCallEnds`, `HeaderPhaseEnds`, `ShutdownCompletes`,
`OnlyPeersHold`. Every invariant and every action property of a passing run is
also a theorem. What recursive functions compute (`Number`, the decimal value of
a port) would need induction over data and stays with TLC; no theorem rests on
its value.

## Not modelled

* User, password, key path and keepalive of a DSN, Basic and RFC 1929
  credentials as bytes: they are written and never looked at again. For the
  record, credentials are taken percent-encoded from the URL (`dsn.rs` 75-76), and
  `len() as u8` truncates (`proxy.rs` 232, 234, 249).
* The copy of a CONNECT from the client to the target, symmetric to the other.
* The request as bytes: of a path request only host, port, query and framing
  matter to what is checked. Its method, its other headers and `Host` are left out.
* A clock in `Relay`: that the header phase has one deadline and not one per read
  is not distinguished there; that it ends while the target trickles is the
  fairness of `HeadFails`.
* Logging, the TLS library, hyper's own parsing, SSH key files and russh's
  protocol: they appear by their outcomes only.
* Accept errors (`proxy.rs` 757), which are logged and retried at once.

## What could come next

* A composition of `Dispatch` with `SshPool`: `Dispatch` has the mutex of the
  sessions, but hands out any session; the pool decides which. Their product is
  large.
* `Relay` over aligned tunnels as a refinement of an abstract pipe that delivers a
  prefix of what was sent; the invariant of `RelayProofs` is what its mapping needs.
