------------------------------ MODULE MCSslNif ------------------------------
(* Small instances of SslNif.                                              *)
EXTENDS SslNif

CONSTANTS t1, t2
=============================================================================
