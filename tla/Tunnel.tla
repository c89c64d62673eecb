------------------------------- MODULE Tunnel -------------------------------
(***************************************************************************)
(* How a stream to the target is set up on one route (src/proxy.rs:        *)
(* establish_direct, establish_http, establish_socks5).                    *)
(*                                                                         *)
(* `wire` is what the peer has sent and the program has not read, a        *)
(* sequence of tokens ("CRLF" stands for the two bytes).  TCP delivers it  *)
(* in pieces of any size: a read takes any non-empty prefix of it that     *)
(* fits the buffer, read_exact takes its bytes however they arrive.  The   *)
(* peer may stop after any prefix of an answer (`ending`): close, reset,   *)
(* or go silent.                                                           *)
(***************************************************************************)
EXTENDS Naturals, Sequences

CONSTANTS
  Upstreams,     \* the routes: subset of Upstream
  Uses,          \* what the tunnel is for: subset of {"connect", "http", "https"}
  Words,         \* what HTTP replies and banners are made of
  HttpReplies,   \* what an HTTP proxy may answer to CONNECT
  BoundLengths,  \* bytes of BND.ADDR and BND.PORT in a SOCKS5 reply
  Banners,       \* what a CONNECT target may send before it is spoken to
  Endings,       \* subset of {"eof", "reset", "silent"}
  ReadMax,       \* the read buffer of establish_http, 256 bytes
  LineMax        \* the limit on what it reads, 1024 bytes

Upstream == [proto : {"direct", "http", "socks5"}, creds : BOOLEAN]

ASSUME TunnelAssumption ==
  /\ Upstreams \subseteq Upstream
  /\ Uses \subseteq {"connect", "http", "https"}
  /\ HttpReplies \subseteq Seq(Words) /\ Banners \subseteq Seq(Words)
  /\ BoundLengths \subseteq Nat
  /\ Endings \subseteq {"eof", "reset", "silent"}
  /\ ReadMax \in Nat \ {0} /\ LineMax \in Nat

VARIABLES
  dsn, use,   \* the route and what the tunnel is for
  pc,         \* where the task is
  wire,       \* sent by the peer, not read yet
  ending,     \* what comes after `wire`: "open" while the peer may say more
  line,       \* line_buf of establish_http
  reply,      \* history: the proxy's answer to the connect command
  payload     \* history: what the target has sent through the tunnel

tunnelVars == <<dsn, use, pc, wire, ending, line, reply, payload>>

TunnelInit ==
  /\ dsn \in Upstreams /\ use \in Uses
  /\ pc = "connect"
  /\ wire = <<>> /\ ending = "open"
  /\ line = <<>> /\ reply = <<>> /\ payload = <<>>

\* The peer answers and then relays the target's `data`, or stops after a
\* prefix of the two; `rest` is still unread.  A peer that has stopped says
\* nothing more.
Sends(rest, answer, data) ==
  IF ending = "open"
    THEN LET all == answer \o data
         IN \E k \in 0 .. Len(all) :
              /\ wire' = rest \o SubSeq(all, 1, k)
              /\ payload' = payload \o SubSeq(all, Len(answer) + 1, k)
              /\ ending' \in IF k = Len(all) THEN {"open"} ELSE Endings
    ELSE wire' = rest /\ UNCHANGED <<payload, ending>>

\* What the target may say once it is connected.
TargetSays == IF use = "connect" THEN Banners ELSE {<<>>}

Rest(n) == SubSeq(wire, n + 1, Len(wire))

Stop(label) == pc' = label /\ UNCHANGED <<wire, ending, line, reply, payload>>

-----------------------------------------------------------------------------
\* The TCP connection, the only step with a timeout: it fails, or ...
ConnectFailed == pc = "connect" /\ Stop("failed")

\* ... the stream is the tunnel (establish_direct), ...
ConnectDirect ==
  /\ pc = "connect" /\ dsn.proto = "direct"
  /\ \E data \in TargetSays : Sends(<<>>, <<>>, data)
  /\ pc' = "tunnel"
  /\ UNCHANGED <<line, reply>>

\* ... CONNECT is written and answered (establish_http), ...
ConnectHttp ==
  /\ pc = "connect" /\ dsn.proto = "http"
  /\ \E answer \in HttpReplies : \E data \in IF answer[2] = "200" THEN TargetSays ELSE {<<>>} :
       reply' = answer /\ Sends(<<>>, answer, data)
  /\ pc' = "status"
  /\ UNCHANGED line

\* ... or the methods are offered and the proxy picks one (establish_socks5).
ConnectSocks ==
  /\ pc = "connect" /\ dsn.proto = "socks5"
  /\ \E version \in {"5", "4"}, method \in {"0", "2", "ff"} :
       Sends(<<>>, <<version, method>>, <<>>)
  /\ pc' = "method"
  /\ UNCHANGED <<line, reply>>

-----------------------------------------------------------------------------
\* establish_http reads until it holds a CRLF and looks at the status code.
HasLine(buf) == \E i \in DOMAIN buf : buf[i] = "CRLF"
Granted(buf) == Len(buf) >= 2 /\ buf[1] # "CRLF" /\ buf[2] = "200"
Judge(buf)   == pc' = IF Granted(buf) THEN "tunnel" ELSE "failed"

ReadStatus ==
  /\ pc = "status"
  /\ \E k \in 1 .. Len(wire) :
       k <= ReadMax /\ line' = line \o SubSeq(wire, 1, k) /\ wire' = Rest(k)
  /\ IF HasLine(line') \/ Len(line') > LineMax THEN Judge(line') ELSE UNCHANGED pc
  /\ UNCHANGED <<ending, reply, payload>>

\* End of the stream: what has been read is judged all the same.
StatusEnds ==
  /\ pc = "status" /\ wire = <<>> /\ ending = "eof"
  /\ Judge(line)
  /\ UNCHANGED <<wire, ending, line, reply, payload>>

-----------------------------------------------------------------------------
\* establish_socks5 goes on by read_exact of 2, 2 and 10 bytes.  The command
\* is answered by a code and the address bound, 6 bytes for IPv4.
Command(rest) ==
  /\ pc' = "reply"
  /\ \E code \in {"0", "5"}, n \in BoundLengths :
       /\ reply' = <<"5", code, "0", "atyp">> \o [i \in 1 .. n |-> "bnd"]
       /\ \E data \in IF code = "0" THEN TargetSays ELSE {<<>>} : Sends(rest, reply', data)
  /\ UNCHANGED line

\* A proxy that picks authentication when it was not offered makes the
\* unwrap of the user panic.
ReadMethod ==
  /\ pc = "method" /\ Len(wire) >= 2
  /\ CASE wire[1] = "5" /\ wire[2] = "0" -> Command(Rest(2))
       [] wire[1] = "5" /\ wire[2] = "2" ->
            IF dsn.creds
              THEN /\ pc' = "auth"
                   /\ \E status \in {"0", "1"} : Sends(Rest(2), <<"1", status>>, <<>>)
                   /\ UNCHANGED <<line, reply>>
              ELSE Stop("panicked")
       [] OTHER -> Stop("failed")

ReadAuth ==
  /\ pc = "auth" /\ Len(wire) >= 2
  /\ IF wire[2] = "0" THEN Command(Rest(2)) ELSE Stop("failed")

\* Mutant: nine bytes, as if the command had no reserved byte in its answer.
ReadReplyOfNine ==
  /\ pc = "reply" /\ Len(wire) >= 9
  /\ pc' = IF wire[2] = "0" THEN "tunnel" ELSE "failed"
  /\ wire' = Rest(9)
  /\ UNCHANGED <<ending, line, reply, payload>>

\* Ten bytes are read whatever the type of the address.
ReadReply ==
  /\ pc = "reply" /\ Len(wire) >= 10
  /\ pc' = IF wire[2] = "0" THEN "tunnel" ELSE "failed"
  /\ wire' = Rest(10)
  /\ UNCHANGED <<ending, line, reply, payload>>

\* The stream ends before what is being read is there.
Needs == [status |-> 1, method |-> 2, auth |-> 2, reply |-> 10]
ReadFails ==
  /\ pc \in DOMAIN Needs
  /\ Len(wire) < Needs[pc]
  /\ \/ ending = "reset"
     \/ ending = "eof" /\ pc # "status"
  /\ Stop("failed")

TunnelStep ==
  /\ \/ ConnectFailed \/ ConnectDirect \/ ConnectHttp \/ ConnectSocks
     \/ ReadStatus \/ StatusEnds
     \/ ReadMethod \/ ReadAuth \/ ReadReply \/ ReadFails
  /\ UNCHANGED <<dsn, use>>
=============================================================================
