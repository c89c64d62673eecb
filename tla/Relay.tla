------------------------------- MODULE Relay --------------------------------
(***************************************************************************)
(* What is done with a tunnel once it is open (src/proxy.rs:               *)
(* handle_connect's copy, forward_through, read_streaming_response,        *)
(* ReaderBody): the target's bytes are copied to the client, or a request  *)
(* is written and the response parsed, headers first, and its body relayed *)
(* as it arrives.  TLS is an exact pipe that can only be set up on a       *)
(* stream that begins at the target's first byte.                          *)
(*                                                                         *)
(* A header is one token: "len" for Content-Length, "te" for               *)
(* Transfer-Encoding: chunked, "conn" for Connection, "bad" for one whose  *)
(* name is not a legal name.                                               *)
(***************************************************************************)
EXTENDS Tunnel

CONSTANTS
  Responses,   \* what a target may answer: subset of Response
  HeadRead,    \* the read buffer of the header phase, 4096 bytes
  HeadMax      \* the limit on the headers, 65536 bytes

Fields   == {"len", "te", "conn", "bad", "h"}
Statuses == {"200", "404", "100"}
Tokens   == Fields \cup Statuses \cup {"HTTP", "CRLF", "size", "last", "b1", "b2"}

\* `content` is what `body` decodes to; `interim` says that a 100 Continue
\* comes first.
Response == [status : {"200", "404"}, interim : BOOLEAN, fields : Seq(Fields),
             body : Seq(Tokens), content : Seq(Tokens)]

ASSUME RelayAssumption ==
  Responses \subseteq Response /\ HeadRead \in Nat \ {0} /\ HeadMax \in Nat

VARIABLES
  origin,    \* history: the response the target was asked for
  head,      \* header_buf
  status,    \* the status the client is given
  framing,   \* how hyper frames the body: "none" yet, "len", "te" or "close"
  leading,   \* the bytes of the body read with the headers
  client     \* the bytes of the target the client has received

relayVars == <<origin, head, status, framing, leading, client>>
vars == <<tunnelVars, relayVars>>

NoResponse == [status |-> "200", interim |-> FALSE, fields |-> <<>>, body |-> <<>>, content |-> <<>>]

Init ==
  /\ TunnelInit
  /\ origin = NoResponse
  /\ head = <<>> /\ status = "none" /\ framing = "none"
  /\ leading = <<>> /\ client = <<>>

\* The response on the wire.
Lines(r) == [i \in 1 .. 2 * Len(r.fields) |-> IF i % 2 = 1 THEN r.fields[(i + 1) \div 2] ELSE "CRLF"]
Raw(r)   == (IF r.interim THEN <<"HTTP", "100", "CRLF", "CRLF">> ELSE <<>>)
            \o <<"HTTP", r.status, "CRLF">> \o Lines(r) \o <<"CRLF">> \o r.body

-----------------------------------------------------------------------------
(* CONNECT: copy_bidirectional, the direction to the client.               *)

CopyToClient ==
  /\ pc = "tunnel" /\ use = "connect"
  /\ \E k \in 1 .. Len(wire) : client' = client \o SubSeq(wire, 1, k) /\ wire' = Rest(k)
  /\ UNCHANGED <<pc, ending, line, reply, payload, origin, head, status, framing, leading>>

CopyEnds ==
  /\ pc = "tunnel" /\ use = "connect"
  /\ wire = <<>> /\ ending \in {"eof", "reset"}
  /\ Stop("done")
  /\ UNCHANGED relayVars

-----------------------------------------------------------------------------
(* forward_through: make_tls for https, then the request is written.       *)

TlsHandshake ==
  /\ pc = "tunnel" /\ use = "https"
  /\ \/ wire = <<>> /\ ending = "open" /\ Stop("request")
     \/ (wire # <<>> \/ ending # "silent") /\ Stop("failed")
  /\ UNCHANGED relayVars

WriteRequest ==
  /\ pc = IF use = "https" THEN "request" ELSE "tunnel"
  /\ use # "connect"
  /\ pc' = "headers"
  /\ \E r \in Responses :
       /\ origin' = r
       /\ Sends(wire, <<>>, Raw(r))
  /\ UNCHANGED <<line, reply, head, status, framing, leading, client>>

WriteFails ==
  /\ pc = IF use = "https" THEN "request" ELSE "tunnel"
  /\ use # "connect" /\ ending \in {"eof", "reset"}
  /\ Stop("failed")
  /\ UNCHANGED relayVars

-----------------------------------------------------------------------------
(* read_streaming_response, the header phase.                              *)

Separators(buf) == {i \in 1 .. Len(buf) - 1 : buf[i] = "CRLF" /\ buf[i + 1] = "CRLF"}
\* Mutant: the last separator in the buffer is taken.
LastSeparator(buf) == CHOOSE i \in Separators(buf) : \A j \in Separators(buf) : j <= i
Separator(buf)  == CHOOSE i \in Separators(buf) : \A j \in Separators(buf) : i <= j

\* The second word of the first line, 200 when it is not a status; bytes of a
\* SOCKS5 address left in front of the line stick to its first word.
Breaks(h)     == {i \in DOMAIN h : h[i] = "CRLF"}
StatusAt(h)   == {i \in 2 .. Len(h) :
                    /\ h[i] \in Statuses /\ h[i - 1] \notin {"bnd", "CRLF"}
                    /\ \A j \in 1 .. i - 2 : h[j] = "bnd"}
StatusOf(h)   == IF StatusAt(h) = {} THEN "200" ELSE h[CHOOSE i \in StatusAt(h) : TRUE]

\* The headers are below the first line.
HeadersOf(h)  == {h[i] : i \in {j \in DOMAIN h : \E b \in Breaks(h) : b < j}} \cap Fields
Kept(h)       == HeadersOf(h) \ {"conn"}

\* Only Connection is dropped; hyper frames the body by the headers that are
\* left.  An illegal name makes the builder's unwrap panic, and hyper answers
\* 500 in place of a 1xx.
GiveResponse(h, rest) ==
  IF "bad" \in Kept(h)
    THEN pc' = "panicked" /\ UNCHANGED <<status, framing, leading>>
  ELSE IF StatusOf(h) = "100"
    THEN pc' = "done" /\ status' = "500" /\ UNCHANGED <<framing, leading>>
  ELSE /\ pc' = "body"
       /\ status' = StatusOf(h)
       /\ framing' = CASE "te" \in Kept(h) -> "te"
                       [] "len" \in Kept(h) /\ "te" \notin Kept(h) -> "len"
                       [] OTHER -> "close"
       /\ leading' = rest

\* Mutant: no limit on the headers.
ReadHeadUnbounded ==
  /\ pc = "headers"
  /\ \E k \in 1 .. Len(wire) :
       k <= HeadRead /\ head' = head \o SubSeq(wire, 1, k) /\ wire' = Rest(k)
  /\ IF Separators(head') # {}
       THEN LET i == Separator(head')
            IN GiveResponse(SubSeq(head', 1, i - 1), SubSeq(head', i + 2, Len(head')))
       ELSE UNCHANGED <<pc, status, framing, leading>>
  /\ UNCHANGED <<ending, line, reply, payload, origin, client>>

ReadHead ==
  /\ pc = "headers"
  /\ \E k \in 1 .. Len(wire) :
       k <= HeadRead /\ head' = head \o SubSeq(wire, 1, k) /\ wire' = Rest(k)
  /\ IF Separators(head') # {}
       THEN LET i == Separator(head')
            IN GiveResponse(SubSeq(head', 1, i - 1), SubSeq(head', i + 2, Len(head')))
       ELSE /\ pc' = IF Len(head') > HeadMax THEN "failed" ELSE "headers"
            /\ UNCHANGED <<status, framing, leading>>
  /\ UNCHANGED <<ending, line, reply, payload, origin, client>>

\* End of the stream inside the headers: the slice behind the separator
\* that was not found is out of bounds.
HeadEnds ==
  /\ pc = "headers" /\ wire = <<>> /\ ending = "eof"
  /\ Stop("panicked")
  /\ UNCHANGED relayVars

\* Mutant: the deadline covers the first read only.
HeadFailsAtFirst ==
  /\ pc = "headers" /\ wire = <<>> /\ ending # "eof"
  /\ (ending = "reset" \/ head = <<>>)
  /\ Stop("failed")
  /\ UNCHANGED relayVars

\* A reset, or the deadline while nothing comes.
HeadFails ==
  /\ pc = "headers" /\ wire = <<>> /\ ending # "eof"
  /\ Stop("failed")
  /\ UNCHANGED relayVars

-----------------------------------------------------------------------------
(* ReaderBody under hyper's encoder, which stops at Content-Length.        *)

Prefixes(s) == {SubSeq(s, 1, n) : n \in 0 .. Len(s)}
Encoded(data) ==
  LET all == client \o data
  IN client' = IF framing = "len" /\ Len(all) > Len(origin.body)
                 THEN SubSeq(all, 1, Len(origin.body)) ELSE all
AllSent == framing = "len" /\ Len(client) = Len(origin.body)

EmitLeading ==
  /\ pc = "body" /\ leading # <<>>
  /\ Encoded(leading) /\ leading' = <<>>
  /\ UNCHANGED <<pc, wire, ending, line, reply, payload, origin, head, status, framing>>

ReadBody ==
  /\ pc = "body" /\ leading = <<>> /\ ~ AllSent
  /\ \E k \in 1 .. Len(wire) : Encoded(SubSeq(wire, 1, k)) /\ wire' = Rest(k)
  /\ UNCHANGED <<pc, ending, line, reply, payload, origin, head, status, framing, leading>>

\* Mutant: the end of the stream ends every body well.
BodyEndsWell ==
  /\ pc = "body" /\ leading = <<>>
  /\ (AllSent \/ (wire = <<>> /\ ending = "eof"))
  /\ Stop("done")
  /\ UNCHANGED relayVars

\* Complete when the length is reached or, without one, at the end of the
\* stream; a stream that ends early aborts the client's connection.
BodyEnds ==
  /\ pc = "body" /\ leading = <<>>
  /\ \/ AllSent /\ Stop("done")
     \/ /\ ~ AllSent /\ wire = <<>> /\ ending \in {"eof", "reset"}
        /\ Stop(IF ending = "eof" /\ framing # "len" THEN "done" ELSE "aborted")
  /\ UNCHANGED relayVars

-----------------------------------------------------------------------------
\* The peer goes away or falls silent while the task reads.
PeerStops ==
  /\ ending = "open" /\ pc \notin {"connect", "done", "failed", "aborted", "panicked"}
  /\ ending' \in Endings
  /\ UNCHANGED <<pc, wire, line, reply, payload, relayVars>>

Next ==
  \/ TunnelStep /\ UNCHANGED relayVars
  \/ /\ UNCHANGED <<dsn, use>>
     /\ \/ CopyToClient \/ CopyEnds
        \/ TlsHandshake \/ WriteRequest \/ WriteFails
        \/ ReadHead \/ HeadEnds \/ HeadFails
        \/ EmitLeading \/ ReadBody \/ BodyEnds
        \/ PeerStops

\* Data is read when it is there, and tokio's timer fires; a peer owes
\* nothing.
Spec == Init /\ [][Next]_vars /\ WF_vars((ReadHead \/ HeadEnds \/ HeadFails) /\ UNCHANGED <<dsn, use>>)
-----------------------------------------------------------------------------
(* Properties.                                                             *)

\* Types of the control, and the line and the header buffers stay within their
\* limit and one read, whatever is sent (proxy.rs:172-177, 608-614).
RelayTypeOK ==
  /\ pc \in {"connect", "status", "method", "auth", "reply", "tunnel", "request",
            "headers", "body", "done", "failed", "aborted", "panicked"}
  /\ ending \in Endings \cup {"open"}
  /\ framing \in {"none", "len", "te", "close"}
  /\ status \in {"none", "500"} \cup Statuses
  /\ Len(line) <= LineMax + ReadMax /\ Len(head) <= HeadMax + HeadRead

\* The set-up took exactly the proxy's answer off the stream: nothing to
\* take, an IPv4 address in a SOCKS5 reply, or an HTTP reply that was read
\* to its end and no further.
Aligned ==
  CASE dsn.proto = "direct" -> TRUE
    [] dsn.proto = "socks5" -> Len(reply) = 10
    [] dsn.proto = "http"   -> line = reply

\* Over an aligned tunnel the client of CONNECT receives the target's bytes
\* from the first on, none lost, repeated or invented, whichever way TCP cuts
\* the proxy's answers (establish_*, proxy.rs:404-406).
TunnelIsExact ==
  use = "connect" /\ pc \in {"tunnel", "done"} /\ Aligned => client \o wire = payload

\* A path response carries the target's own status and body bytes in order,
\* whichever way TCP cuts it, over an aligned tunnel and, TLS being
\* impossible over any other, always for https (proxy.rs:601-657, 72-92).
\* An interim 100 Continue takes the place of the response.
ResponseIsFaithful ==
  pc \in {"body", "done", "aborted"} /\ use # "connect"
    /\ (Aligned \/ use = "https") /\ ~ origin.interim
  => /\ status = origin.status
     /\ client \o leading \o wire \in Prefixes(origin.body)

\* A response whose length the target announced is never shown complete
\* with a part of it missing: what is cut is aborted (ReaderBody ends, hyper
\* counts).
CutIsNotComplete ==
  pc = "done" /\ framing = "len" /\ (Aligned \/ use = "https") => client = origin.body

\* The header phase ends whatever the target does: its deadline covers every
\* read (proxy.rs:598-605).
HeaderPhaseEnds == pc = "headers" ~> pc # "headers"

\* proxy.rs:592-593: "Upstream framing (Content-Length / Transfer-Encoding)
\* is preserved as-is so the client decodes the body correctly".
ClientDecodesBody ==
  (pc = "done" /\ use # "connect" /\ Aligned /\ ~ origin.interim /\ payload = Raw(origin))
    => client = origin.content
=============================================================================
