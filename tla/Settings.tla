------------------------------ MODULE Settings ------------------------------
(***************************************************************************)
(* How the configuration is put together and its DSNs are read             *)
(* (src/config.rs: Config::load, parse_upstreams; src/dsn.rs).  Operators  *)
(* only; Server runs them.                                                 *)
(*                                                                         *)
(* A configuration file is Absent, Broken or a record of its settings;     *)
(* flags and environment are records of texts.  A DSN is the record of the *)
(* parts the url crate finds in it.                                        *)
(***************************************************************************)
EXTENDS Naturals, Sequences

CONSTANTS
  Unset,    \* a setting, or a part of a URL, that is not given
  Bad,      \* a text that does not parse
  Absent,   \* there is no file
  Broken,   \* the file is not TOML, or a field in it has the wrong type
  Error     \* Result::Err

ASSUME SettingsAssumption == Unset # Bad

Options == {"host", "port", "strategy", "direct_first"}
Environment == {"host", "port", "direct_first"}
Default == [host |-> "127.0.0.1", port |-> "12380", strategy |-> "order", direct_first |-> FALSE]

\* clap: a flag wins over the environment variable, which is then not even
\* read; the strategy has no variable.  Mutant: the variable wins.
EnvOverFlag(flag, env) ==
  [k \in Options |-> IF k \in Environment /\ env[k] # Unset THEN env[k] ELSE flag[k]]
Args(flag, env) ==
  [k \in Options |-> IF k \in Environment /\ flag[k] = Unset THEN env[k] ELSE flag[k]]

\* serde: a field that is not in the file has its default, but `upstreams`
\* has none, and a file without it is an error.
FileReads(file) == file # Broken /\ (file # Absent => file.upstreams # Unset)
FromFile(file, k) == IF file = Absent THEN Default[k]
                     ELSE IF file[k] = Unset THEN Default[k] ELSE file[k]

\* Config::load: arguments override the file, `-u` appends.  A direct_first
\* that is no bool is refused before, by Args::parse.  Mutant: a PORT that
\* does not parse is ignored.
Merged(file, args, ups) ==
  [k \in Options \cup {"upstreams"} |->
     IF k = "upstreams" THEN (IF file = Absent THEN <<>> ELSE file.upstreams) \o ups
     ELSE IF args[k] # Unset THEN args[k] ELSE FromFile(file, k)]
LoadLenient(file, args, ups) ==
  IF ~ FileReads(file) \/ Bad \in {args.strategy, args.direct_first} THEN Error
  ELSE Merged(file, [args EXCEPT !.port = IF @ = Bad THEN Unset ELSE @], ups)
Load(file, args, ups) ==
  IF ~ FileReads(file) \/ Bad \in {args.port, args.strategy, args.direct_first} THEN Error
  ELSE Merged(file, args, ups)

-----------------------------------------------------------------------------
\* Url::port is None when the port is the scheme's own default, which only
\* http has one of.
UrlPort(url) == IF url.scheme = "http" /\ url.port = 80 THEN Unset ELSE url.port
DsnPorts == [http |-> 8080, socks5 |-> 1080, ssh |-> 22]

\* Dsn::from_str: the scheme is one of three, and the url crate reads the rest
\* and finds a host in it.
ParseDsn(url) ==
  IF url.scheme \notin DOMAIN DsnPorts \/ url.host = Unset \/ url.port = Bad THEN Error
  ELSE [scheme |-> url.scheme, host |-> url.host,
        port |-> IF UrlPort(url) = Unset THEN DsnPorts[url.scheme] ELSE UrlPort(url)]

\* collect: all of them, in order, or an error.
ParseUpstreams(ups) ==
  LET dsns == [i \in DOMAIN ups |-> ParseDsn(ups[i])]
  IN IF \E i \in DOMAIN dsns : dsns[i] = Error THEN Error ELSE dsns
=============================================================================
