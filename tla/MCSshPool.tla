----------------------------- MODULE MCSshPool -----------------------------
(* Values for checking SshPool: the program's own timeouts, and two calls,   *)
(* told apart because a liveness property is checked.                        *)
EXTENDS SshPool
=============================================================================
