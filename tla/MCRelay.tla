------------------------------ MODULE MCRelay -------------------------------
EXTENDS Relay

\* Five routes, the SOCKS5 proxy with and without credentials.
MCUpstreams == {[proto |-> "direct", creds |-> FALSE], [proto |-> "http", creds |-> FALSE],
                [proto |-> "socks5", creds |-> TRUE], [proto |-> "socks5", creds |-> FALSE]}

\* A refusal, a bare success, and a success with a header behind the first
\* line, longer than one read.
MCHttpReplies == {<<"HTTP", "407", "CRLF", "CRLF">>, <<"HTTP", "200", "CRLF", "CRLF">>,
                  <<"HTTP", "200", "CRLF", "h", "CRLF", "CRLF">>}

MCBanners == {<<>>, <<"b1", "CRLF", "b2">>}

Answer(code, interim, fields, body, content) ==
  [status |-> code, interim |-> interim, fields |-> fields, body |-> body, content |-> content]

\* One response per case: a length; no framing and the separator in the
\* body; chunks; an illegal header; headers over the limit; an interim.
MCResponses ==
  LET two == <<"b1", "b2">>
      gap == <<"b1", "CRLF", "CRLF", "b2">>
  IN {Answer("404", FALSE, <<"conn", "len">>, two, two),
      Answer("404", FALSE, <<>>, gap, gap),
      Answer("200", FALSE, <<"te">>, <<"size", "b1", "last">>, <<"b1">>),
      Answer("200", FALSE, <<"bad">>, two, two),
      Answer("200", FALSE, <<"h", "h", "h", "h", "h">>, two, two),
      Answer("200", TRUE, <<"len">>, two, two)}
=============================================================================
