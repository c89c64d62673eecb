----------------------------- MODULE MCDispatch -----------------------------
(* Values for checking Dispatch: two channels, two hosts that the hash maps *)
(* to different channels, requests as interchangeable model values.         *)
EXTENDS Dispatch, TLC

CONSTANTS t1, t2

MCHashOf == [t \in Targets |-> IF t = t1 THEN 4 ELSE 5]
MCDsn == [id \in Ids |-> IF id = 0 THEN "socks5" ELSE "ssh"]
RequestSymmetry == Permutations(Requests)
=============================================================================
