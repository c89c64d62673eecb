---------------------------- MODULE RequestLine -----------------------------
(***************************************************************************)
(* What is read from a request, and what is sent on for it (src/proxy.rs:  *)
(* parse_authority, parse_path_target, the first half of                   *)
(* handle_path_forward).  Operators only; Server runs them.                *)
(*                                                                         *)
(* An authority is a sequence of tokens: the characters "[", "]", ":", any *)
(* letter "a", and the digits "8" and "443".  The target of a path request *)
(* is a record of the parts of its URL and of the framing of its body:     *)
(* "none", "length" (Content-Length) or "chunked" (Transfer-Encoding).     *)
(***************************************************************************)
EXTENDS Naturals, Sequences, SequencesExt

Refused == [ok |-> FALSE]
Found(host, port) == [ok |-> TRUE, host |-> host, port |-> port]

Before(s, i) == SubSeq(s, 1, i - 1)
After(s, i)  == SubSeq(s, i + 1, Len(s))

\* str::parse::<u16>; a number that is too large stays so.
Digits == {"8", "443"}
Characters == {"[", "]", ":", "a"} \cup Digits
Number(s) == FoldLeft(LAMBDA n, t : IF n > 65535 THEN n
                                    ELSE IF t = "8" THEN 10 * n + 8 ELSE 1000 * n + 443, 0, s)
IsPort(s) == s # <<>> /\ (\A i \in DOMAIN s : s[i] \in Digits) /\ Number(s) < 65536
Colons(s) == {i \in DOMAIN s : s[i] = ":"}

\* trim_start_matches(':').
TrimColons(s) == SubSeq(s, CHOOSE i \in 1 .. Len(s) + 1 :
                            /\ \A j \in 1 .. i - 1 : s[j] = ":"
                            /\ i <= Len(s) => s[i] # ":", Len(s))

\* parse_authority.  Mutant: the port begins at the first colon.
AtColon(s, i) ==
  IF i > 1 /\ IsPort(After(s, i)) THEN Found(Before(s, i), Number(After(s, i))) ELSE Refused
ParseAtFirstColon(s) ==
  IF Colons(s) = {} THEN Refused
  ELSE AtColon(s, CHOOSE i \in Colons(s) : \A j \in Colons(s) : i <= j)
ParseAuthority(s) ==
  IF s # <<>> /\ s[1] = "["
    THEN LET close == SelectInSeq(s, LAMBDA t : t = "]")
             port  == TrimColons(After(s, close))
         IN IF close # 0 /\ IsPort(port) THEN Found(SubSeq(s, 2, close - 1), Number(port)) ELSE Refused
  ELSE IF Colons(s) = {} THEN Refused
  ELSE AtColon(s, CHOOSE i \in Colons(s) : \A j \in Colons(s) : j <= i)

\* What the http crate lets through as the authority of a CONNECT: one pair
\* of brackets at most, one colon at most outside.
UriAuthority(s) ==
  LET open  == SelectSeq(s, LAMBDA t : t = "[")
      shut  == SelectSeq(s, LAMBDA t : t = "]")
      close == SelectInSeq(s, LAMBDA t : t = "]")
  IN /\ s # <<>> /\ Len(open) <= 1 /\ Len(open) = Len(shut)
     /\ close # 0 => SelectInSeq(s, LAMBDA t : t = "[") < close
     /\ Len(SelectSeq(After(s, close), LAMBDA t : t = ":")) <= 1

-----------------------------------------------------------------------------
\* parse_path_target: one of two prefixes.
IsTarget(path) == path.scheme \in {"http", "https"}

\* Url::parse of what follows fails without a host or with a bad port; the
\* path of the request has no query, so the URL never has one.
NoPort == 0
SchemePort(path) == IF path.scheme = "https" THEN 443 ELSE 80
UrlParses(path)  == path.host # <<>> /\ path.port < 65536
TargetPort(path) == IF path.port = NoPort THEN SchemePort(path) ELSE path.port

\* The request that is sent on: its headers go with it but for Host and the
\* hop headers, so the framing that the client announced does, and the body
\* follows as hyper has decoded it.
Forward(path) ==
  [host |-> path.host, port |-> TargetPort(path), query |-> "none",
   framing |-> path.framing, body |-> IF path.framing = "none" THEN "empty" ELSE "plain"]

\* What a target makes of a body that is framed as announced, or is not.
Decoded(framing, body) ==
  CASE framing = "none" -> "empty"
    [] framing = "length" -> body
    [] framing = "chunked" -> IF body = "chunks" THEN "plain" ELSE "broken"
=============================================================================
