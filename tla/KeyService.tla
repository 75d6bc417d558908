----------------------------- MODULE KeyService -----------------------------
(***************************************************************************)
(* What erlang-nif_SSL promises its callers: CounterService's number and,  *)
(* beside it, one RSA key pair that rsa_key_gen/0 replaces by a new one    *)
(* (enclave_communicator.erl: "newly generated and overwritten for each    *)
(* call").  Signing, encrypting and reading the public key all use the     *)
(* pair generated last, and generating one sets the number to zero.  There *)
(* is no answer that uses a key before the first is generated.  When the   *)
(* module is loaded anew it forgets the pair, and the number.              *)
(***************************************************************************)
EXTENDS Int32

CONSTANTS
  Proc,     \* the callers
  Key,      \* the key pairs
  NoKey     \* before the first one

Fn == {"increment", "return", "key_gen", "sign", "encrypt", "get_pubkey"}

NoAnswer == [kind |-> "none", val |-> 0]
OK(v) == [kind |-> "ok", val |-> v]

VARIABLES
  up,       \* does the service answer?
  val,      \* the number
  key,      \* the key pair
  used,     \* the key pairs generated so far
  phase,    \* how far each caller is with its call
  fn,       \* the function it called last
  ans,      \* the answer a call that took effect is going to get
  result    \* the last answer it got

vars == <<up, val, key, used, phase, fn, ans, result>>

Init ==
  /\ up = TRUE
  /\ val = 0 /\ key = NoKey /\ used = {}
  /\ phase = [p \in Proc |-> "idle"]
  /\ fn \in [Proc -> Fn]
  /\ ans = [p \in Proc |-> NoAnswer]
  /\ result = [p \in Proc |-> NoAnswer]

Invoke(p, f) ==
  /\ phase[p] = "idle"
  /\ phase' = [phase EXCEPT ![p] = "pending"]
  /\ fn' = [fn EXCEPT ![p] = f]
  /\ UNCHANGED <<up, val, key, used, ans, result>>

Takes(p, r) ==
  /\ up
  /\ phase[p] = "pending"
  /\ phase' = [phase EXCEPT ![p] = "applied"]
  /\ ans' = [ans EXCEPT ![p] = OK(r)]
  /\ UNCHANGED <<up, fn, result>>

Increment(p) ==
  /\ fn[p] = "increment" /\ Takes(p, 0)
  /\ val' = Succ32(val)
  /\ UNCHANGED <<key, used>>

ReturnVal(p) ==
  /\ fn[p] = "return" /\ Takes(p, val)
  /\ UNCHANGED <<val, key, used>>

(* The new key pair was never anyone's before.                             *)
Generate(p) ==
  /\ fn[p] = "key_gen" /\ Takes(p, 0)
  /\ key' \in Key \ used
  /\ used' = used \cup {key'}
  /\ val' = 0

UseKey(p) ==
  /\ fn[p] \in {"sign", "encrypt", "get_pubkey"} /\ key # NoKey
  /\ Takes(p, key)
  /\ UNCHANGED <<val, key, used>>

(* There is no public key yet: the caller gets an empty buffer.            *)
NoPubkey(p) ==
  /\ up /\ phase[p] = "pending" /\ fn[p] = "get_pubkey" /\ key = NoKey
  /\ phase' = [phase EXCEPT ![p] = "applied"]
  /\ ans' = [ans EXCEPT ![p] = [kind |-> "blank", val |-> 0]]
  /\ UNCHANGED <<up, val, key, used, fn, result>>

Finish(p) ==
  /\ phase[p] = "applied"
  /\ phase' = [phase EXCEPT ![p] = "idle"]
  /\ result' = [result EXCEPT ![p] = ans[p]]
  /\ ans' = [ans EXCEPT ![p] = NoAnswer]
  /\ UNCHANGED <<up, val, key, used, fn>>

(* The module is loaded: nobody is being served.                           *)
Restart ==
  /\ up /\ \A p \in Proc : phase[p] = "idle"
  /\ val' = 0 /\ key' = NoKey
  /\ UNCHANGED <<up, used, phase, fn, ans, result>>

(* The service ends, and with it every call.                               *)
Stop ==
  /\ up' = FALSE
  /\ phase' = [p \in Proc |-> IF phase[p] = "idle" THEN "idle" ELSE "lost"]
  /\ ans' = [p \in Proc |-> NoAnswer]
  /\ UNCHANGED <<val, key, used, fn, result>>

Next ==
  \/ \E p \in Proc, f \in Fn : Invoke(p, f)
  \/ \E p \in Proc : \/ Increment(p) \/ ReturnVal(p) \/ Generate(p)
                     \/ UseKey(p) \/ NoPubkey(p) \/ Finish(p)
  \/ Restart \/ Stop

Spec == Init /\ [][Next]_vars
=============================================================================
