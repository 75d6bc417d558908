------------------------------ MODULE ErlangNif ------------------------------
(***************************************************************************)
(* The NIF prototypes: erlang-nif/ (SGX = TRUE) and without-sgx/erlang-nif *)
(* (SGX = FALSE).  The BEAM's scheduler threads run increment_nif and      *)
(* rtrn_nif at the same time, without a lock; reloading the Erlang module  *)
(* calls load, upgrade and unload, which share one global_eid because the  *)
(* library is opened once.                                                 *)
(*                                                                         *)
(* External, from how the code uses it: the code server keeps a current    *)
(* and an old version and purges the old one before a load; the BEAM       *)
(* (OTP 20, the release the README names) blocks all schedulers around the *)
(* load, upgrade and unload callbacks; an ecall needs a live enclave and a *)
(* free thread control structure (TCS).                                    *)
(***************************************************************************)
EXTENDS Int32, FiniteSets

CONSTANTS
  Thread,    \* the scheduler threads
  SGX,       \* erlang-nif/ or without-sgx/erlang-nif/
  TCSNum,    \* <TCSNum> of Enclave.config.xml
  MaxLoads,  \* bound: times the module is loaded
  MaxCalls,  \* bound: NIF calls of each thread
  NoAnswer

ASSUME SchedulerAssumption == IsFiniteSet(Thread) /\ SGX \in BOOLEAN
ASSUME LimitsAssumption == TCSNum \in Nat /\ MaxLoads \in Nat /\ MaxCalls \in Nat
ASSUME NoAnswerAssumption == NoAnswer \notin Int

Fn == {"increment", "return"}

(* Version v of the module is the v-th that was loaded, and enclave v (the *)
(* library's data, in the plain NIF) the one its load created; 0: none.    *)
Version == 0 .. MaxLoads

VARIABLES
  beam,        \* is the BEAM running?
  cur, old,    \* the current and the old version of the module
  loads,       \* versions loaded so far (bound)
  global_eid,  \* the enclave the NIFs call into
  enclave,     \* the state of each enclave
  a,           \* static int32_t a of each enclave
  at,          \* where each thread stands in a NIF
  fn,          \* the NIF it runs
  eid,         \* the enclave it entered
  reg,         \* the a it read: to be written back plus one, or returned
  result,      \* the result of its last NIF call
  calls,       \* NIF calls made (bound)
  done         \* history: increments carried out in each enclave

codeVars == <<cur, old, loads, global_eid>>
callVars == <<at, fn, eid, reg, result, calls>>
vars == <<beam, codeVars, enclave, a, callVars, done>>

Init ==
  /\ beam = "up"
  /\ cur = 0 /\ old = 0 /\ loads = 0 /\ global_eid = 0
  /\ enclave = [e \in Version |-> "none"]
  /\ a = [e \in Version |-> 0]
  /\ at = [t \in Thread |-> "idle"]
  /\ fn \in [Thread -> Fn]
  /\ eid = [t \in Thread |-> 0]
  /\ reg = [t \in Thread |-> 0]
  /\ result = [t \in Thread |-> NoAnswer]
  /\ calls = [t \in Thread |-> 0]
  /\ done = [e \in Version |-> 0]

-----------------------------------------------------------------------------
(* The code server and the library's callbacks.                            *)

Blocked == beam = "up" /\ \A t \in Thread : at[t] = "idle"

(* initialize_enclave() succeeds for the version being loaded; when it     *)
(* fails load_nif fails, the on_load function with it, and the version is  *)
(* not loaded: nothing changes.                                            *)
InitializeEnclave ==
  /\ global_eid' = loads + 1
  /\ enclave' = [enclave EXCEPT ![loads + 1] = "live"]

(* load(): no version of the module is loaded.                             *)
Load ==
  /\ Blocked /\ loads < MaxLoads
  /\ cur = 0 /\ old = 0
  /\ InitializeEnclave
  /\ loads' = loads + 1 /\ cur' = loads + 1
  /\ UNCHANGED <<beam, old, a, callVars, done>>

(* Variant: the plain NIF starts with fresh data on an upgrade, too.       *)
Upgrade_Fresh ==
  /\ Blocked /\ loads < MaxLoads
  /\ cur # 0 /\ old = 0
  /\ InitializeEnclave
  /\ loads' = loads + 1 /\ cur' = loads + 1 /\ old' = cur
  /\ UNCHANGED <<beam, a, callVars, done>>

(* upgrade(): it calls load(), which in the SGX version makes a second     *)
(* enclave and forgets the first.                                          *)
Upgrade ==
  /\ Blocked /\ loads < MaxLoads
  /\ cur # 0 /\ old = 0
  /\ IF SGX THEN InitializeEnclave ELSE UNCHANGED <<global_eid, enclave>>
  /\ loads' = loads + 1 /\ cur' = loads + 1 /\ old' = cur
  /\ UNCHANGED <<beam, a, callVars, done>>

(* code:delete/1: the current version becomes old.                         *)
Delete ==
  /\ beam = "up" /\ cur # 0 /\ old = 0
  /\ old' = cur /\ cur' = 0
  /\ UNCHANGED <<beam, loads, global_eid, enclave, a, callVars, done>>

(* unload(), when the old version is purged: it destroys the enclave that  *)
(* global_eid names.  With the last version the library is closed, and its *)
(* data is gone.                                                           *)
Purge ==
  /\ Blocked /\ old # 0
  /\ old' = 0
  /\ enclave' = IF SGX \/ cur = 0
                THEN [enclave EXCEPT ![global_eid] = "destroyed"]
                ELSE enclave
  /\ UNCHANGED <<beam, cur, loads, global_eid, a, callVars, done>>

-----------------------------------------------------------------------------
(* The NIFs.                                                               *)

Inside(t) == at[t] \in {"read", "write"}

(* Variant: one thread control structure is kept back.                     *)
FreeTCS_OneLess == Cardinality({t \in Thread : Inside(t)}) < TCSNum - 1

FreeTCS == Cardinality({t \in Thread : Inside(t)}) < TCSNum

(* An ecall into the enclave global_eid names gets in.                     *)
EcallOK == ~SGX \/ (enclave[global_eid] = "live" /\ FreeTCS)

(* A process on scheduler t calls increment/0 or rtrn/0.                   *)
Call(t, f) ==
  /\ beam = "up" /\ cur # 0
  /\ at[t] = "idle" /\ calls[t] < MaxCalls
  /\ at' = [at EXCEPT ![t] = "ecall"]
  /\ fn' = [fn EXCEPT ![t] = f]
  /\ calls' = [calls EXCEPT ![t] = @ + 1]
  /\ UNCHANGED <<beam, codeVars, enclave, a, eid, reg, result, done>>

Enter(t) ==
  /\ beam = "up" /\ at[t] = "ecall" /\ EcallOK
  /\ eid' = [eid EXCEPT ![t] = global_eid]
  /\ at' = [at EXCEPT ![t] = "read"]
  /\ UNCHANGED <<beam, codeVars, enclave, a, fn, reg, result, calls, done>>

(* Variant: a NIF that cannot enter tries again instead of aborting.       *)
Abort_Retries(t) ==
  /\ beam = "up" /\ SGX
  /\ Inside(t) /\ enclave[eid[t]] = "lost"
  /\ beam' = "aborted"
  /\ UNCHANGED <<codeVars, enclave, a, callVars, done>>

(* The ecall does not return SGX_SUCCESS: abort() ends the whole BEAM.     *)
(* So does one whose enclave is lost under it.                             *)
Abort(t) ==
  /\ beam = "up" /\ SGX
  /\ \/ at[t] = "ecall" /\ ~EcallOK
     \/ Inside(t) /\ enclave[eid[t]] = "lost"
  /\ beam' = "aborted"
  /\ UNCHANGED <<codeVars, enclave, a, callVars, done>>

(* Variant: a value read by an earlier call is used again.                 *)
IncrementRead_Cached(t) ==
  /\ beam = "up" /\ at[t] = "read" /\ fn[t] = "increment"
  /\ enclave[eid[t]] = "live"
  /\ at' = [at EXCEPT ![t] = "write"]
  /\ UNCHANGED <<beam, codeVars, enclave, a, fn, eid, reg, result, calls, done>>

(* a++ reads a ...                                                         *)
IncrementRead(t) ==
  /\ beam = "up" /\ at[t] = "read" /\ fn[t] = "increment"
  /\ enclave[eid[t]] = "live"
  /\ reg' = [reg EXCEPT ![t] = a[eid[t]]]
  /\ at' = [at EXCEPT ![t] = "write"]
  /\ UNCHANGED <<beam, codeVars, enclave, a, fn, eid, result, calls, done>>

(* Variant: the ecall is made twice for one call of increment/0.           *)
IncrementWrite_Twice(t) ==
  /\ beam = "up" /\ at[t] = "write" /\ enclave[eid[t]] = "live"
  /\ a' = [a EXCEPT ![eid[t]] = Succ32(Succ32(reg[t]))]
  /\ done' = [done EXCEPT ![eid[t]] = @ + 1]
  /\ at' = [at EXCEPT ![t] = "return"]
  /\ UNCHANGED <<beam, codeVars, enclave, fn, eid, reg, result, calls>>

(* ... and writes it back; the ecall leaves the enclave.                   *)
IncrementWrite(t) ==
  /\ beam = "up" /\ at[t] = "write" /\ enclave[eid[t]] = "live"
  /\ a' = [a EXCEPT ![eid[t]] = Succ32(reg[t])]
  /\ done' = [done EXCEPT ![eid[t]] = @ + 1]
  /\ at' = [at EXCEPT ![t] = "return"]
  /\ UNCHANGED <<beam, codeVars, enclave, fn, eid, reg, result, calls>>

(* ecall_return_a()                                                        *)
ReturnA(t) ==
  /\ beam = "up" /\ at[t] = "read" /\ fn[t] = "return"
  /\ enclave[eid[t]] = "live"
  /\ reg' = [reg EXCEPT ![t] = a[eid[t]]]
  /\ at' = [at EXCEPT ![t] = "return"]
  /\ UNCHANGED <<beam, codeVars, enclave, a, fn, eid, result, calls, done>>

(* enif_make_int(env, 0) or enif_make_int(env, ret)                        *)
Answer(t) == IF fn[t] = "increment" THEN 0 ELSE reg[t]

Return(t) ==
  /\ beam = "up" /\ at[t] = "return"
  /\ result' = [result EXCEPT ![t] = Answer(t)]
  /\ at' = [at EXCEPT ![t] = "idle"]
  /\ UNCHANGED <<beam, codeVars, enclave, a, fn, eid, reg, calls, done>>

(* A power transition loses every enclave.                                 *)
PowerTransition ==
  /\ SGX /\ beam = "up" /\ \E e \in Version : enclave[e] = "live"
  /\ enclave' = [e \in Version |-> IF enclave[e] = "live" THEN "lost" ELSE enclave[e]]
  /\ UNCHANGED <<beam, codeVars, a, callVars, done>>

-----------------------------------------------------------------------------
Step(t) == \/ Enter(t) \/ Abort(t) \/ IncrementRead(t) \/ IncrementWrite(t)
           \/ ReturnA(t) \/ Return(t)

Next ==
  \/ Load \/ Upgrade \/ Delete \/ Purge
  \/ \E t \in Thread, f \in Fn : Call(t, f)
  \/ \E t \in Thread : Step(t)
  \/ PowerTransition

Spec == Init /\ [][Next]_vars

(* The operating system runs every scheduler thread; nobody has to call a  *)
(* NIF, to reload the module or to suspend the machine.                    *)
FairSpec == Spec /\ \A t \in Thread : WF_vars(Step(t))

-----------------------------------------------------------------------------
(* Properties.                                                             *)

TypeOK ==
  /\ beam \in {"up", "aborted"}
  /\ cur \in Version /\ old \in Version /\ loads \in Version
  /\ global_eid \in Version
  /\ enclave \in [Version -> {"none", "live", "lost", "destroyed"}]
  /\ a \in [Version -> Int32]
  /\ at \in [Thread -> {"idle", "ecall", "read", "write", "return"}]
  /\ fn \in [Thread -> Fn]
  /\ eid \in [Thread -> Version]
  /\ reg \in [Thread -> Int32]
  /\ result \in [Thread -> Int32 \cup {NoAnswer}]
  /\ calls \in [Thread -> Nat]
  /\ done \in [Version -> Nat]

(* An abort() of the BEAM is never the fault of the callers: it takes an   *)
(* enclave that is gone, or more schedulers than the enclave has thread    *)
(* control structures.                                                     *)
AbortOnlyWithout ==
  beam = "aborted" =>
    \/ enclave[global_eid] # "live"
    \/ Cardinality(Thread) > TCSNum

(* However increments race, none counts twice and the counter never falls  *)
(* back to zero: the first one to finish is not lost.  (Where the counter  *)
(* does not wrap.)                                                         *)
CounterBounds ==
  \A e \in Version :
    done[e] <= IntMax =>
      /\ a[e] <= done[e]
      /\ done[e] > 0 => a[e] > 0

(* App.c:155-156, "Unload will automatically be called when two reloads    *)
(* have been called, killing the oldest version": purging version v        *)
(* destroys the enclave version v was loaded with and no other.            *)
PurgeKillsOldest ==
  [][old # 0 /\ old' = 0 =>
       \A e \in Version : enclave[e] # enclave'[e] => e = old]_vars

(* Every NIF call returns, unless the BEAM aborts.                         *)
CallsReturn ==
  \A t \in Thread : at[t] # "idle" ~> (at[t] = "idle" \/ beam = "aborted")

(* With one scheduler the NIF implements CounterService: a call takes      *)
(* effect once, when it reads or writes a.  A reload starts a new number   *)
(* in the SGX version only.                                                *)
CallPhase(t) ==
  CASE at[t] = "idle" -> "idle"
    [] at[t] # "idle" /\ beam = "aborted" -> "lost"
    [] at[t] = "return" /\ beam = "up" -> "applied"
    [] OTHER -> "pending"

Service == INSTANCE CounterService WITH
  Proc <- Thread,
  up <- beam = "up" /\ enclave[global_eid] = "live",
  val <- a[global_eid],
  phase <- [t \in Thread |-> CallPhase(t)],
  ans <- [t \in Thread |-> IF CallPhase(t) = "applied" THEN Answer(t) ELSE NoAnswer],
  MayReload <- SGX

ImplementsCounterService == Service!Spec
=============================================================================
