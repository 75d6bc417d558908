--------------------------- MODULE CounterService ---------------------------
(***************************************************************************)
(* What the enclave_communicator module promises its callers, whatever     *)
(* carries the calls: a secret int32_t that increment/0 adds one to and    *)
(* return/0 (rtrn/0 in the NIF) reads.  Every call takes effect at one     *)
(* instant between its invocation and its answer, at most once; a call may *)
(* be lost, and its caller then waits for ever; the number starts again    *)
(* from zero when what hosts it is started again or, where MayReload says  *)
(* so, loaded anew under its callers.                                      *)
(***************************************************************************)
EXTENDS Int32

CONSTANTS
  Proc,      \* the Erlang processes that call the service
  NoAnswer,  \* the answer of a call that has not taken effect
  MayReload  \* may the number be reset while the service is up?

(* The functions a caller may name; "other" stands for every atom that     *)
(* neither strncmp test of the C node recognises.                          *)
Fn == {"increment", "return", "other"}

VARIABLES
  up,       \* is the hosting process running?
  val,      \* the secret number
  phase,    \* how far each process is with its call
  fn,       \* the function each process called last
  ans,      \* the answer a call that took effect is going to get
  result    \* the last answer each process got

vars == <<up, val, phase, fn, ans, result>>

Init ==
  /\ up = FALSE
  /\ val = 0
  /\ phase = [p \in Proc |-> "idle"]
  /\ fn \in [Proc -> Fn]
  /\ ans = [p \in Proc |-> NoAnswer]
  /\ result = [p \in Proc |-> NoAnswer]

Invoke(p, f) ==
  /\ phase[p] = "idle"
  /\ phase' = [phase EXCEPT ![p] = "pending"]
  /\ fn' = [fn EXCEPT ![p] = f]
  /\ UNCHANGED <<up, val, ans, result>>

(* The answers function f may give when the number is v.                   *)
Answers(f, v) ==
  CASE f = "increment" -> {0}
    [] f = "return"    -> {v}
    [] f = "other"     -> Int32

(* The call of p takes effect.                                             *)
Apply(p) ==
  /\ up
  /\ phase[p] = "pending"
  /\ phase' = [phase EXCEPT ![p] = "applied"]
  /\ val' = IF fn[p] = "increment" THEN Succ32(val) ELSE val
  /\ \E r \in Answers(fn[p], val) : ans' = [ans EXCEPT ![p] = r]
  /\ UNCHANGED <<up, fn, result>>

(* The answer reaches p.                                                   *)
Finish(p) ==
  /\ phase[p] = "applied"
  /\ phase' = [phase EXCEPT ![p] = "idle"]
  /\ result' = [result EXCEPT ![p] = ans[p]]
  /\ ans' = [ans EXCEPT ![p] = NoAnswer]
  /\ UNCHANGED <<up, val, fn>>

(* The calls of the processes in P are lost, before or after they took     *)
(* effect, and with them, perhaps, the process that hosts the enclave.     *)
Lose(P) ==
  /\ \A p \in P : phase[p] \in {"pending", "applied"}
  /\ phase' = [p \in Proc |-> IF p \in P THEN "lost" ELSE phase[p]]
  /\ ans' = [p \in Proc |-> IF p \in P THEN NoAnswer ELSE ans[p]]
  /\ up' \in {up, FALSE}
  /\ UNCHANGED <<val, fn, result>>

(* The host starts, or a fresh copy of the number replaces the old one.    *)
Start ==
  /\ ~up \/ MayReload
  /\ up' = TRUE
  /\ val' = 0
  /\ UNCHANGED <<phase, fn, ans, result>>

Next ==
  \/ \E p \in Proc, f \in Fn : Invoke(p, f)
  \/ \E p \in Proc : Apply(p) \/ Finish(p)
  \/ \E P \in SUBSET Proc : Lose(P)
  \/ Start

Spec == Init /\ [][Next]_vars
=============================================================================
