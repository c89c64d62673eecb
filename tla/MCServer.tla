------------------------------ MODULE MCServer ------------------------------
EXTENDS Server, TLC

CONSTANTS c1, c2

Opt(host, port, strategy, direct) ==
  [host |-> host, port |-> port, strategy |-> strategy, direct_first |-> direct]
None == Opt(Unset, Unset, Unset, Unset)
File(opt, ups) == opt @@ [upstreams |-> ups]
Url(scheme, host, port) == [scheme |-> scheme, host |-> host, port |-> port]
Start(file, flag, env, ups) == [file |-> file, flag |-> flag, env |-> env, ups |-> ups]

ups == <<Url("ssh", "s", Unset), Url("socks5", "p", 9050)>>
one == <<Url("http", "q", 3128)>>

\* Each way to fail, alone; each source of a setting against the weaker ones.
MCStartups ==
  {Start(Broken, None, None, one), Start(File(None, Unset), None, None, one),
   Start(Absent, None, None, <<>>),
   Start(Absent, Opt(Unset, Bad, Unset, Unset), None, one),
   Start(Absent, None, Opt(Unset, Bad, Unset, Unset), one),
   Start(Absent, Opt(Unset, Unset, Bad, Unset), None, one),
   Start(File(Opt(Bad, Unset, Unset, Unset), ups), None, None, <<>>),
   Start(File(None, ups), None, None, <<Url("ftp", "q", Unset)>>),
   Start(File(None, ups), None, None, <<Url("socks5", Unset, 1080)>>),
   Start(File(None, <<Url("ssh", "s", 22), Url("ftp", "q", Unset)>>), None, None, one),
   Start(File(None, <<Url("http", "q", Bad)>>), None, None, <<>>),
   Start(Absent, Opt(Unset, Unset, Unset, Bad), None, one),
   Start(Absent, None, Opt(Unset, Unset, Unset, Bad), one),
   Start(Absent, Opt(Unset, Unset, Unset, TRUE), Opt(Unset, Unset, Unset, Bad), <<>>),
   Start(File(Opt("f", "1", "hash", TRUE), ups), Opt(Unset, "2", "order", FALSE),
         Opt("e", "3", Unset, TRUE), one)}

Alphabet == {"[", "]", ":", "a", "443"}
Authorities ==
  {s \in UNION {[1 .. n -> Alphabet] : n \in 1 .. 4} : UriAuthority(s)}
    \cup {<<"[", "a", "]", ":", "443">>, <<"[", ":", "]", ":", "443">>,
          <<"[", ":", ":", "8", "]", ":", "8", "8">>, <<"[", ":", "8", "]", "443">>,
          <<"a", ":", "443", "8", "8">>}
Path(scheme, host, port, query, framing) ==
  [kind |-> "path", url |-> [scheme |-> scheme, host |-> host, port |-> port,
                             query |-> query, framing |-> framing]]
Plain == Path("https", <<"a">>, NoPort, "none", "none")
Post(framing) == Path("https", <<"a">>, 8080, "none", framing)
MCRequests ==
  [c \in {c1, c2} |->
     IF c = c1
       THEN {[kind |-> "connect", authority |-> s] : s \in Authorities}
              \cup {[kind |-> "health"], Plain, Path("other", <<"a">>, NoPort, "none", "none"),
                    Path("https", <<>>, NoPort, "none", "none"),
                    Path("https", <<"a">>, 99999, "none", "none"), Post("length")}
       ELSE {Plain, [kind |-> "connect", authority |-> <<"a", ":", "443">>]}]
MCQuery == [c \in {c1} |-> {Plain, Path("https", <<"a">>, NoPort, "q", "none")}]
MCBody  == [c \in {c1} |-> {Plain, Post("length"), Post("chunked")}]
=============================================================================
