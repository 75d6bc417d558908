----------------------------- MODULE TokenCache -----------------------------
(***************************************************************************)
(* What the launch token file of erlang-nif_SSL promises the loads of its  *)
(* enclave: a cache of one cell that may lose what it holds at any time,   *)
(* but never holds, nor gives, anything else than a token that a load got  *)
(* from sgx_create_enclave.  A load ends as its enclave does, whatever     *)
(* becomes of the cache.                                                   *)
(***************************************************************************)
CONSTANTS
  Proc,    \* the loads under way, by the BEAM they run in
  Token,   \* the launch tokens
  Nothing

VARIABLES
  cell,    \* the token in the cache, or Nothing
  issued,  \* the tokens that have been got
  phase,   \* "idle", "looking", "looked", "running" or "failed"
  got      \* what each load has found in the cache, until it is used

vars == <<cell, issued, phase, got>>

Init ==
  /\ cell = Nothing /\ issued = {}
  /\ phase = [p \in Proc |-> "idle"]
  /\ got = [p \in Proc |-> Nothing]

Begin(p) ==
  /\ phase[p] \in {"idle", "failed"}
  /\ phase' = [phase EXCEPT ![p] = "looking"]
  /\ UNCHANGED <<cell, issued, got>>

(* A hit or a miss.                                                        *)
Look(p) ==
  /\ phase[p] = "looking"
  /\ phase' = [phase EXCEPT ![p] = "looked"]
  /\ got' \in {[got EXCEPT ![p] = c] : c \in {cell, Nothing}}
  /\ UNCHANGED <<cell, issued>>

(* The enclave runs; a token that is no longer good is replaced.           *)
Launch(p) ==
  /\ phase[p] = "looked"
  /\ phase' = [phase EXCEPT ![p] = "running"]
  /\ got' = [got EXCEPT ![p] = Nothing]
  /\ \/ got[p] # Nothing /\ UNCHANGED issued
     \/ \E k \in Token : issued' = issued \cup {k}
  /\ UNCHANGED cell

Fail(p) ==
  /\ phase[p] = "looked"
  /\ phase' = [phase EXCEPT ![p] = "failed"]
  /\ got' = [got EXCEPT ![p] = Nothing]
  /\ UNCHANGED <<cell, issued>>

End(p) ==
  /\ phase[p] # "idle"
  /\ phase' = [phase EXCEPT ![p] = "idle"]
  /\ got' = [got EXCEPT ![p] = Nothing]
  /\ UNCHANGED <<cell, issued>>

Store == cell' \in issued /\ UNCHANGED <<issued, phase, got>>
Forget == cell' = Nothing /\ UNCHANGED <<issued, phase, got>>

Next ==
  \/ \E p \in Proc : Begin(p) \/ Look(p) \/ Launch(p) \/ Fail(p) \/ End(p)
  \/ Store \/ Forget

Spec == Init /\ [][Next]_vars
=============================================================================
