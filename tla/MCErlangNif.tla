----------------------------- MODULE MCErlangNif -----------------------------
(* Small instances of ErlangNif.                                           *)
EXTENDS ErlangNif

CONSTANTS t1, t2
=============================================================================
