-------------------------- MODULE ErlangNif_proofs --------------------------
(***************************************************************************)
(* Proofs about ErlangNif, for any number of scheduler threads, thread     *)
(* control structures, loads of the module and calls, and for any width of *)
(* the counter: type correctness, what an abort() takes, the bounds that   *)
(* racing increments stay within, and the refinement of CounterService by  *)
(* a BEAM with one scheduler.                                              *)
(***************************************************************************)
EXTENDS ErlangNif, FiniteSetTheorems, TLAPS

LEMMA Succ32Type ==
  ASSUME NEW n \in Int32
  PROVE  Succ32(n) \in Int32
BY IntMaxAssumption DEF Succ32, Int32, IntMin

LEMMA ZeroInt32 == 0 \in Int32
BY IntMaxAssumption DEF Int32, IntMin

LEMMA ZeroVersion == 0 \in Version
BY LimitsAssumption DEF Version

(* A load numbers the next version.                                        *)
LEMMA NextVersion ==
  ASSUME TypeOK, loads < MaxLoads
  PROVE  loads + 1 \in Version
BY LimitsAssumption DEF TypeOK, Version

LEMMA InitType == Init => TypeOK
BY ZeroInt32, ZeroVersion DEF Init, TypeOK

LEMMA NextType == TypeOK /\ [Next]_vars => TypeOK'
<1> SUFFICES ASSUME TypeOK, [Next]_vars
             PROVE  TypeOK'
  OBVIOUS
<1>1. CASE Load
  BY <1>1, NextVersion DEF Load, InitializeEnclave, TypeOK, callVars
<1>2. CASE Upgrade
  BY <1>2, NextVersion DEF Upgrade, InitializeEnclave, TypeOK, callVars
<1>3. CASE Delete
  BY <1>3, ZeroVersion DEF Delete, TypeOK, callVars
<1>4. CASE Purge
  <2>1. enclave' \in [Version -> {"none", "live", "lost", "destroyed"}]
    BY <1>4 DEF Purge, TypeOK
  <2>2. QED
    BY <1>4, <2>1, ZeroVersion DEF Purge, TypeOK, callVars
<1>5. ASSUME NEW t \in Thread, NEW f \in Fn, Call(t, f)
      PROVE  TypeOK'
  BY <1>5 DEF Call, TypeOK, codeVars
<1>6. ASSUME NEW t \in Thread, Enter(t)
      PROVE  TypeOK'
  BY <1>6 DEF Enter, TypeOK, codeVars
<1>7. ASSUME NEW t \in Thread, Abort(t)
      PROVE  TypeOK'
  BY <1>7 DEF Abort, TypeOK, codeVars, callVars
<1>8. ASSUME NEW t \in Thread, IncrementRead(t)
      PROVE  TypeOK'
  BY <1>8 DEF IncrementRead, TypeOK, codeVars
<1>9. ASSUME NEW t \in Thread, IncrementWrite(t)
      PROVE  TypeOK'
  <2>1. Succ32(reg[t]) \in Int32
    BY Succ32Type DEF TypeOK
  <2>2. a' \in [Version -> Int32]
    BY <1>9, <2>1 DEF IncrementWrite, TypeOK
  <2>3. done' \in [Version -> Nat]
    BY <1>9 DEF IncrementWrite, TypeOK
  <2>4. QED
    BY <1>9, <2>2, <2>3 DEF IncrementWrite, TypeOK, codeVars
<1>10. ASSUME NEW t \in Thread, ReturnA(t)
       PROVE  TypeOK'
  BY <1>10 DEF ReturnA, TypeOK, codeVars
<1>11. ASSUME NEW t \in Thread, Return(t)
       PROVE  TypeOK'
  <2>1. Answer(t) \in Int32
    BY ZeroInt32 DEF Answer, TypeOK
  <2>2. QED
    BY <1>11, <2>1 DEF Return, TypeOK, codeVars
<1>12. CASE PowerTransition
  BY <1>12 DEF PowerTransition, TypeOK, codeVars, callVars
<1>13. CASE UNCHANGED vars
  BY <1>13 DEF vars, codeVars, callVars, TypeOK
<1>14. QED
  BY <1>1, <1>2, <1>3, <1>4, <1>5, <1>6, <1>7, <1>8, <1>9, <1>10, <1>11,
     <1>12, <1>13 DEF Next, Step

(* Every reachable state of the NIF, its enclaves and its callers is well  *)
(* typed; in particular the counter never leaves int32_t.                  *)
THEOREM TypeCorrect == Spec => []TypeOK
<1>1. Init => TypeOK
  BY InitType
<1>2. TypeOK /\ [Next]_vars => TypeOK'
  BY NextType
<1>3. QED
  BY <1>1, <1>2, PTL DEF Spec

-----------------------------------------------------------------------------
(* The BEAM loads and purges only while no NIF runs, so a thread in an     *)
(* enclave is in the one global_eid names: if that one is live nobody      *)
(* is in an enclave that was lost.                                         *)
InCurrentEnclave == \A t \in Thread : Inside(t) => eid[t] = global_eid

AbortInv == AbortOnlyWithout /\ InCurrentEnclave

LEMMA InitAbort == Init => AbortInv
BY DEF Init, AbortInv, AbortOnlyWithout, InCurrentEnclave, Inside

(* A thread that finds no free TCS is not in the enclave itself: there are *)
(* more threads than control structures.                                   *)
LEMMA TCSTaken ==
  ASSUME NEW t \in Thread, ~Inside(t), ~FreeTCS
  PROVE  Cardinality(Thread) > TCSNum
<1> DEFINE In == {s \in Thread : Inside(s)}
<1>1. IsFiniteSet(In) /\ Cardinality(In) <= Cardinality(Thread)
  BY SchedulerAssumption, FS_Subset
<1>2. In # Thread
  OBVIOUS
<1>3. Cardinality(In) # Cardinality(Thread)
  BY <1>2, SchedulerAssumption, FS_Subset
<1>4. Cardinality(In) \in Nat /\ Cardinality(Thread) \in Nat
  BY <1>1, SchedulerAssumption, FS_CardinalityType
<1>5. Cardinality(In) >= TCSNum
  BY <1>4, LimitsAssumption DEF FreeTCS
<1>6. QED
  BY <1>1, <1>3, <1>4, <1>5, LimitsAssumption

LEMMA NextAbort == TypeOK /\ AbortInv /\ [Next]_vars => AbortInv'
<1> SUFFICES ASSUME TypeOK, AbortInv, [Next]_vars
             PROVE  AbortInv'
  OBVIOUS
<1> USE DEF AbortInv, AbortOnlyWithout, InCurrentEnclave, Inside
<1>1. CASE Load
  BY <1>1 DEF Load, Blocked, InitializeEnclave, callVars
<1>2. CASE Upgrade
  BY <1>2 DEF Upgrade, Blocked, InitializeEnclave, callVars
<1>3. CASE Delete
  BY <1>3 DEF Delete, callVars
<1>4. CASE Purge
  BY <1>4 DEF Purge, Blocked, callVars
<1>5. ASSUME NEW t \in Thread, NEW f \in Fn, Call(t, f)
      PROVE  AbortInv'
  BY <1>5 DEF Call, codeVars, TypeOK
<1>6. ASSUME NEW t \in Thread, Enter(t)
      PROVE  AbortInv'
  BY <1>6 DEF Enter, codeVars, TypeOK
<1>7. ASSUME NEW t \in Thread, Abort(t)
      PROVE  AbortInv'
  <2>1. CASE at[t] = "ecall" /\ enclave[global_eid] # "live"
    BY <1>7, <2>1 DEF Abort, codeVars, callVars
  <2>2. CASE at[t] = "ecall" /\ ~FreeTCS
    BY <1>7, <2>2, TCSTaken DEF Abort, codeVars, callVars
  <2>3. CASE Inside(t) /\ enclave[eid[t]] = "lost"
    BY <1>7, <2>3 DEF Abort, codeVars, callVars
  <2>4. QED
    BY <1>7, <2>1, <2>2, <2>3 DEF Abort, EcallOK
<1>8. ASSUME NEW t \in Thread, IncrementRead(t)
      PROVE  AbortInv'
  BY <1>8 DEF IncrementRead, codeVars, TypeOK
<1>9. ASSUME NEW t \in Thread, IncrementWrite(t)
      PROVE  AbortInv'
  BY <1>9 DEF IncrementWrite, codeVars, TypeOK
<1>10. ASSUME NEW t \in Thread, ReturnA(t)
       PROVE  AbortInv'
  BY <1>10 DEF ReturnA, codeVars, TypeOK
<1>11. ASSUME NEW t \in Thread, Return(t)
       PROVE  AbortInv'
  BY <1>11 DEF Return, codeVars, TypeOK
<1>12. CASE PowerTransition
  BY <1>12 DEF PowerTransition, codeVars, callVars
<1>13. CASE UNCHANGED vars
  BY <1>13 DEF vars, codeVars, callVars
<1>14. QED
  BY <1>1, <1>2, <1>3, <1>4, <1>5, <1>6, <1>7, <1>8, <1>9, <1>10, <1>11,
     <1>12, <1>13 DEF Next, Step

(* abort() in my_increment or my_return_a takes an enclave that is gone,   *)
(* or more scheduler threads than thread control structures.               *)
THEOREM AbortCause == Spec => []AbortOnlyWithout
<1>1. Init => AbortInv
  BY InitAbort
<1>2. TypeOK /\ AbortInv /\ [Next]_vars => AbortInv'
  BY NextAbort
<1>3. AbortInv => AbortOnlyWithout
  BY DEF AbortInv
<1>4. QED
  BY <1>1, <1>2, <1>3, TypeCorrect, PTL DEF Spec

-----------------------------------------------------------------------------
(* Until the counter wraps, what a thread has read and will write back     *)
(* plus one never exceeds the increments already carried out.              *)
Counted(e) == done[e] <= IntMax

RegWithin ==
  \A t \in Thread :
    at[t] = "write" /\ Counted(eid[t]) => 0 <= reg[t] /\ reg[t] <= done[eid[t]]

ValueWithin ==
  \A e \in Version :
    Counted(e) => 0 <= a[e] /\ a[e] <= done[e] /\ (done[e] > 0 => a[e] > 0)

CounterInv == ValueWithin /\ RegWithin

LEMMA InitCounter == Init => CounterInv
BY DEF Init, CounterInv, ValueWithin, RegWithin

(* A step that changes no counter and puts no thread before its write.     *)
LEMMA CounterStutter ==
  ASSUME CounterInv, UNCHANGED <<a, done, eid, reg>>,
         \A t \in Thread : at'[t] = "write" => at[t] = "write"
  PROVE  CounterInv'
BY DEF CounterInv, ValueWithin, RegWithin, Counted

LEMMA NextCounter == TypeOK /\ CounterInv /\ [Next]_vars => CounterInv'
<1> SUFFICES ASSUME TypeOK, CounterInv, [Next]_vars
             PROVE  CounterInv'
  OBVIOUS
<1>1. CASE Load \/ Upgrade \/ Delete \/ Purge \/ PowerTransition
  BY <1>1, CounterStutter
     DEF Load, Upgrade, Delete, Purge, PowerTransition, callVars
<1>2. ASSUME NEW t \in Thread, NEW f \in Fn, Call(t, f)
      PROVE  CounterInv'
  <2>1. \A s \in Thread : at'[s] = "write" => at[s] = "write"
    BY <1>2 DEF Call, TypeOK
  <2>2. QED
    BY <1>2, <2>1, CounterStutter DEF Call
<1>3. ASSUME NEW t \in Thread, Enter(t)
      PROVE  CounterInv'
  BY <1>3 DEF Enter, TypeOK, CounterInv, ValueWithin, RegWithin, Counted
<1>4. ASSUME NEW t \in Thread, Abort(t)
      PROVE  CounterInv'
  BY <1>4, CounterStutter DEF Abort, callVars
<1>5. ASSUME NEW t \in Thread, IncrementRead(t)
      PROVE  CounterInv'
  <2>1. ValueWithin'
    BY <1>5 DEF IncrementRead, CounterInv, ValueWithin, Counted
  <2>2. ASSUME NEW s \in Thread, at'[s] = "write", Counted(eid[s])'
        PROVE  0 <= reg'[s] /\ reg'[s] <= done'[eid'[s]]
    <3>1. CASE s = t
      BY <1>5, <2>2, <3>1
         DEF IncrementRead, TypeOK, CounterInv, ValueWithin, Counted
    <3>2. CASE s # t
      BY <1>5, <2>2, <3>2
         DEF IncrementRead, TypeOK, CounterInv, RegWithin, Counted
    <3>3. QED
      BY <3>1, <3>2
  <2>3. QED
    BY <2>1, <2>2 DEF CounterInv, RegWithin
<1>6. ASSUME NEW t \in Thread, IncrementWrite(t)
      PROVE  CounterInv'
  <2>1. /\ IntMax \in Nat
        /\ eid[t] \in Version
        /\ reg[t] \in Int
        /\ \A e \in Version : done[e] \in Nat
    BY IntMaxAssumption DEF TypeOK, Int32, IntMin
  <2>2. ASSUME NEW e \in Version, done'[e] <= IntMax
        PROVE  0 <= a'[e] /\ a'[e] <= done'[e] /\ (done'[e] > 0 => a'[e] > 0)
    <3>1. CASE e = eid[t]
      <4>1. a'[e] = Succ32(reg[t]) /\ done'[e] = done[e] + 1
        BY <1>6, <3>1 DEF IncrementWrite, TypeOK
      <4>2. 0 <= reg[t] /\ reg[t] <= done[e] /\ done[e] < IntMax
        BY <1>6, <2>1, <2>2, <3>1, <4>1
           DEF IncrementWrite, CounterInv, RegWithin, Counted
      <4>3. Succ32(reg[t]) = reg[t] + 1
        BY <2>1, <4>2 DEF Succ32
      <4>4. QED
        BY <2>1, <4>1, <4>2, <4>3
    <3>2. CASE e # eid[t]
      BY <1>6, <2>2, <3>2
         DEF IncrementWrite, TypeOK, CounterInv, ValueWithin, Counted
    <3>3. QED
      BY <3>1, <3>2
  <2>3. ASSUME NEW s \in Thread, at'[s] = "write", Counted(eid[s])'
        PROVE  0 <= reg'[s] /\ reg'[s] <= done'[eid'[s]]
    <3>1. /\ at[s] = "write" /\ eid[s] \in Version /\ reg[s] \in Int
          /\ UNCHANGED <<eid, reg>>
      BY <1>6, <2>3 DEF IncrementWrite, TypeOK, Int32
    <3>2. done[eid[s]] <= done'[eid[s]]
      BY <1>6, <2>1, <3>1 DEF IncrementWrite, TypeOK
    <3>3. done'[eid[s]] \in Nat /\ done'[eid[s]] <= IntMax
      BY <1>6, <2>1, <2>3, <3>1 DEF IncrementWrite, TypeOK, Counted
    <3>4. 0 <= reg[s] /\ reg[s] <= done[eid[s]]
      BY <2>1, <3>1, <3>2, <3>3 DEF CounterInv, RegWithin, Counted
    <3>5. QED
      BY <2>1, <3>1, <3>2, <3>3, <3>4
  <2>4. QED
    BY <2>2, <2>3 DEF CounterInv, ValueWithin, RegWithin, Counted
<1>7. ASSUME NEW t \in Thread, ReturnA(t)
      PROVE  CounterInv'
  BY <1>7 DEF ReturnA, TypeOK, CounterInv, ValueWithin, RegWithin, Counted
<1>8. ASSUME NEW t \in Thread, Return(t)
      PROVE  CounterInv'
  <2>1. \A s \in Thread : at'[s] = "write" => at[s] = "write"
    BY <1>8 DEF Return, TypeOK
  <2>2. QED
    BY <1>8, <2>1, CounterStutter DEF Return
<1>9. CASE UNCHANGED vars
  BY <1>9, CounterStutter DEF vars, callVars
<1>10. QED
  BY <1>1, <1>2, <1>3, <1>4, <1>5, <1>6, <1>7, <1>8, <1>9 DEF Next, Step

(* However many threads race on a++, no increment counts twice and the     *)
(* first one to finish is not lost.                                        *)
THEOREM RacingIncrements == Spec => []CounterBounds
<1>1. Init => CounterInv
  BY InitCounter
<1>2. TypeOK /\ CounterInv /\ [Next]_vars => CounterInv'
  BY NextCounter
<1>3. CounterInv => CounterBounds
  BY DEF CounterInv, ValueWithin, CounterBounds, Counted
<1>4. QED
  BY <1>1, <1>2, <1>3, TypeCorrect, PTL DEF Spec

-----------------------------------------------------------------------------
(* With one scheduler the NIF implements CounterService.  (With two it     *)
(* does not: an increment that another one overtakes is lost.)             *)
OneScheduler == \A s, t \in Thread : s = t

(* What is going to be written back is what a still holds ...              *)
RegCurrent ==
  \A t \in Thread : at[t] = "write" => fn[t] = "increment" /\ reg[t] = a[eid[t]]

(* ... the enclave, or the library's data, of the next load is untouched   *)
(* ...                                                                     *)
FreshData == global_eid <= loads /\ \A e \in Version : e > loads => a[e] = 0

(* ... and without SGX there is no data while no version is loaded.        *)
DataGone == ~SGX /\ cur = 0 /\ old = 0 => enclave[global_eid] # "live"

ServiceInv == InCurrentEnclave /\ RegCurrent /\ FreshData /\ DataGone

LEMMA InitService == Init => ServiceInv
BY LimitsAssumption
   DEF Init, ServiceInv, InCurrentEnclave, RegCurrent, FreshData, DataGone, Inside, Version

LEMMA NextService ==
  ASSUME OneScheduler
  PROVE  TypeOK /\ AbortInv /\ ServiceInv /\ [Next]_vars => ServiceInv'
<1> SUFFICES ASSUME TypeOK, AbortInv, ServiceInv, [Next]_vars
             PROVE  ServiceInv'
  OBVIOUS
<1>0. InCurrentEnclave'
  BY NextAbort DEF AbortInv
<1> USE DEF ServiceInv, RegCurrent, FreshData, DataGone
<1>1. CASE Load
  <2>1. loads + 1 \in Version /\ loads \in Nat /\ loads' = loads + 1
    BY <1>1, NextVersion, LimitsAssumption DEF Load, TypeOK, Version
  <2>2. global_eid' = loads + 1 /\ UNCHANGED <<a, callVars>>
    BY <1>1 DEF Load, InitializeEnclave
  <2>3. FreshData'
    BY <2>1, <2>2, LimitsAssumption DEF Version
  <2>4. RegCurrent' /\ DataGone'
    BY <1>1, <2>1, <2>2 DEF Load, callVars
  <2>5. QED
    BY <1>0, <2>3, <2>4
<1>2. CASE Upgrade
  <2>1. loads + 1 \in Version /\ loads \in Nat /\ loads' = loads + 1
    BY <1>2, NextVersion, LimitsAssumption DEF Upgrade, TypeOK, Version
  <2>2. /\ global_eid' \in {loads + 1, global_eid} /\ global_eid \in Nat
        /\ UNCHANGED <<a, callVars>>
    BY <1>2 DEF Upgrade, InitializeEnclave, TypeOK, Version
  <2>3. FreshData'
    BY <2>1, <2>2, LimitsAssumption DEF Version
  <2>4. RegCurrent' /\ DataGone'
    BY <1>2, <2>1, <2>2 DEF Upgrade, callVars
  <2>5. QED
    BY <1>0, <2>3, <2>4
<1>3. CASE Delete
  BY <1>0, <1>3 DEF Delete, callVars
<1>4. CASE Purge
  <2>1. DataGone'
    BY <1>4 DEF Purge, TypeOK
  <2>2. QED
    BY <1>0, <1>4, <2>1 DEF Purge, callVars
<1>5. ASSUME NEW t \in Thread, NEW f \in Fn, Call(t, f)
      PROVE  ServiceInv'
  BY <1>0, <1>5 DEF OneScheduler, Call, codeVars, TypeOK
<1>6. ASSUME NEW t \in Thread, Enter(t)
      PROVE  ServiceInv'
  BY <1>0, <1>6 DEF OneScheduler, Enter, codeVars, TypeOK
<1>7. ASSUME NEW t \in Thread, Abort(t)
      PROVE  ServiceInv'
  BY <1>0, <1>7 DEF Abort, codeVars, callVars
<1>8. ASSUME NEW t \in Thread, IncrementRead(t)
      PROVE  ServiceInv'
  BY <1>0, <1>8 DEF OneScheduler, IncrementRead, codeVars, TypeOK
<1>9. ASSUME NEW t \in Thread, IncrementWrite(t)
      PROVE  ServiceInv'
  <2>1. eid[t] = global_eid
    BY <1>9 DEF IncrementWrite, InCurrentEnclave, Inside
  <2>2. \A e \in Version : e > loads => a'[e] = 0
    BY <1>9, <2>1, LimitsAssumption DEF IncrementWrite, TypeOK, Version
  <2>3. RegCurrent'
    BY <1>9 DEF OneScheduler, IncrementWrite, TypeOK
  <2>4. QED
    BY <1>0, <1>9, <2>2, <2>3 DEF IncrementWrite, codeVars
<1>10. ASSUME NEW t \in Thread, ReturnA(t)
       PROVE  ServiceInv'
  BY <1>0, <1>10 DEF OneScheduler, ReturnA, codeVars, TypeOK
<1>11. ASSUME NEW t \in Thread, Return(t)
       PROVE  ServiceInv'
  BY <1>0, <1>11 DEF OneScheduler, Return, codeVars, TypeOK
<1>12. CASE PowerTransition
  BY <1>0, <1>12 DEF PowerTransition, codeVars, callVars, TypeOK
<1>13. CASE UNCHANGED vars
  BY <1>0, <1>13 DEF vars, codeVars, callVars
<1>14. QED
  BY <1>1, <1>2, <1>3, <1>4, <1>5, <1>6, <1>7, <1>8, <1>9, <1>10, <1>11,
     <1>12, <1>13 DEF Next, Step

(* How far a call is, and the answer that is on its way.                   *)
CallAnswer(t) == IF CallPhase(t) = "applied" THEN Answer(t) ELSE NoAnswer

PhaseFacts(t) ==
  /\ at[t] = "idle" => CallPhase(t) = "idle"
  /\ at[t] # "idle" /\ beam = "aborted" => CallPhase(t) = "lost"
  /\ at[t] = "return" /\ beam = "up" => CallPhase(t) = "applied"
  /\ at[t] \notin {"idle", "return"} /\ beam = "up" => CallPhase(t) = "pending"

LEMMA CallPhases == \A t \in Thread : PhaseFacts(t)
BY DEF PhaseFacts, CallPhase

LEMMA CallPhasesNext == \A t \in Thread : PhaseFacts(t)'
<1>1. (\A t \in Thread : PhaseFacts(t))'
  BY CallPhases, PTL
<1>2. QED
  BY <1>1

Keeps(t) == CallPhase(t)' = CallPhase(t) /\ CallAnswer(t)' = CallAnswer(t)

(* A thread that stays where it is, or moves on before its call takes      *)
(* effect.                                                                 *)
LEMMA KeepsCall ==
  ASSUME NEW t \in Thread, beam' = beam, beam \in {"up", "aborted"},
         \/ UNCHANGED <<at[t], fn[t], reg[t]>>
         \/ {at[t], at'[t]} \cap {"idle", "return"} = {}
  PROVE  Keeps(t)
<1>1. PhaseFacts(t) /\ PhaseFacts(t)'
  BY CallPhases, CallPhasesNext
<1>2. QED
  BY <1>1 DEF PhaseFacts, Keeps, CallAnswer, Answer

(* A thread becomes the only one whose call moves.                         *)
LEMMA MovesCall ==
  ASSUME TypeOK, NEW t \in Thread, beam' = beam,
         UNCHANGED <<at, fn, reg>> \/ \E w : at' = [at EXCEPT ![t] = w],
         fn' = fn \/ \E w : fn' = [fn EXCEPT ![t] = w],
         reg' = reg \/ \E w : reg' = [reg EXCEPT ![t] = w]
  PROVE  \A s \in Thread \ {t} : Keeps(s)
BY KeepsCall DEF TypeOK

(* A step at which every call stays where it is.                           *)
LEMMA StutterStep ==
  ASSUME \A t \in Thread : Keeps(t), UNCHANGED <<fn, result>>,
         a'[global_eid'] = a[global_eid],
         LET up == beam = "up" /\ enclave[global_eid] = "live"
         IN  up' = up \/ up' = FALSE
  PROVE  Service!Next
<1>1. {} \in SUBSET Thread
  OBVIOUS
<1>2. Service!Lose({})
  BY DEF Service!Lose, Keeps, CallAnswer
<1>3. QED
  BY <1>1, <1>2 DEF Service!Next

(* load() and, in the SGX version, upgrade() start the number again.       *)
LEMMA InitializeStep ==
  ASSUME TypeOK, ServiceInv, loads < MaxLoads, InitializeEnclave,
         beam = "up", UNCHANGED <<beam, a, callVars>>,
         SGX \/ (cur = 0 /\ old = 0)
  PROVE  Service!Start
<1>1. /\ loads + 1 \in Version /\ loads \in Nat
      /\ global_eid' = loads + 1 /\ enclave'[loads + 1] = "live"
  BY NextVersion, LimitsAssumption DEF InitializeEnclave, TypeOK, Version
<1>2. a[loads + 1] = 0
  BY <1>1 DEF ServiceInv, FreshData
<1>3. \A t \in Thread : Keeps(t)
  BY KeepsCall DEF callVars
<1>4. SGX \/ ~(beam = "up" /\ enclave[global_eid] = "live")
  BY SchedulerAssumption DEF ServiceInv, DataGone
<1>5. QED
  BY <1>1, <1>2, <1>3, <1>4 DEF Service!Start, Keeps, CallAnswer, callVars

LEMMA CallStep ==
  ASSUME TypeOK, NEW t \in Thread, NEW f \in Fn, Call(t, f)
  PROVE  Service!Invoke(t, f)
<1>1. /\ CallPhase(t) = "idle" /\ CallPhase(t)' = "pending"
      /\ CallAnswer(t) = NoAnswer /\ CallAnswer(t)' = NoAnswer
  <2>1. PhaseFacts(t) /\ PhaseFacts(t)'
    BY CallPhases, CallPhasesNext
  <2>2. at'[t] = "ecall"
    BY DEF Call, TypeOK
  <2>3. QED
    BY <2>1, <2>2 DEF PhaseFacts, CallAnswer, Call
<1>2. \A s \in Thread \ {t} : Keeps(s)
  BY MovesCall DEF Call
<1>3. QED
  BY <1>1, <1>2 DEF Service!Invoke, Call, Keeps, CallAnswer, codeVars

(* The call takes effect: a is written, or read for the caller.            *)
LEMMA EffectStep ==
  ASSUME TypeOK, ServiceInv, NEW t \in Thread, IncrementWrite(t) \/ ReturnA(t)
  PROVE  Service!Apply(t)
<1>1. /\ eid[t] = global_eid /\ global_eid \in Version
      /\ beam = "up" /\ enclave[global_eid] = "live"
      /\ UNCHANGED <<beam, enclave, global_eid, fn, result>>
  BY DEF IncrementWrite, ReturnA, ServiceInv, InCurrentEnclave, Inside, TypeOK, codeVars
<1>2. at[t] \in {"read", "write"} /\ at'[t] = "return"
  BY DEF IncrementWrite, ReturnA, TypeOK
<1>3. CallPhase(t) = "pending" /\ CallPhase(t)' = "applied"
  <2>1. PhaseFacts(t) /\ PhaseFacts(t)'
    BY CallPhases, CallPhasesNext
  <2>2. QED
    BY <1>1, <1>2, <2>1 DEF PhaseFacts
<1>4. \A s \in Thread \ {t} : Keeps(s)
  BY MovesCall DEF IncrementWrite, ReturnA
<1>5. /\ a'[global_eid] = IF fn[t] = "increment"
                          THEN Service!Succ32(a[global_eid]) ELSE a[global_eid]
      /\ Answer(t)' \in Service!Answers(fn[t], a[global_eid])
  <2>1. CASE IncrementWrite(t)
    BY <1>1, <2>1
       DEF IncrementWrite, ServiceInv, RegCurrent, TypeOK, Answer, Service!Answers,
           Service!Succ32, Succ32, Service!IntMin, IntMin
  <2>2. CASE ReturnA(t)
    BY <1>1, <2>2 DEF ReturnA, TypeOK, Answer, Service!Answers
  <2>3. QED
    BY <2>1, <2>2
<1>6. QED
  BY <1>1, <1>3, <1>4, <1>5 DEF Service!Apply, Keeps, CallAnswer

LEMMA ReturnStep ==
  ASSUME TypeOK, NEW t \in Thread, Return(t)
  PROVE  Service!Finish(t)
<1>1. /\ CallPhase(t) = "applied" /\ CallPhase(t)' = "idle"
      /\ CallAnswer(t) = Answer(t) /\ CallAnswer(t)' = NoAnswer
  <2>1. PhaseFacts(t) /\ PhaseFacts(t)'
    BY CallPhases, CallPhasesNext
  <2>2. at'[t] = "idle"
    BY DEF Return, TypeOK
  <2>3. QED
    BY <2>1, <2>2 DEF PhaseFacts, CallAnswer, Return
<1>2. \A s \in Thread \ {t} : Keeps(s)
  BY MovesCall DEF Return
<1>3. QED
  BY <1>1, <1>2 DEF Service!Finish, Return, Keeps, CallAnswer, codeVars

(* abort() loses every call under way.                                     *)
LEMMA AbortStep ==
  ASSUME TypeOK, NEW t \in Thread, Abort(t)
  PROVE  Service!Next
<1> DEFINE P == {s \in Thread : at[s] # "idle"}
<1>1. beam = "up" /\ beam' = "aborted" /\ at' = at
  BY DEF Abort, callVars
<1>2. ASSUME NEW s \in Thread
      PROVE  /\ s \in P => /\ CallPhase(s) \in {"pending", "applied"}
                           /\ CallPhase(s)' = "lost"
                           /\ CallAnswer(s)' = NoAnswer
             /\ s \notin P => Keeps(s)
  <2>1. PhaseFacts(s) /\ PhaseFacts(s)'
    BY CallPhases, CallPhasesNext
  <2>2. QED
    BY <1>1, <2>1 DEF PhaseFacts, CallAnswer, Keeps
<1>3. Service!Lose(P)
  BY <1>1, <1>2 DEF Service!Lose, Keeps, CallAnswer, Abort, codeVars, callVars
<1>4. P \in SUBSET Thread
  OBVIOUS
<1>5. QED
  BY <1>3, <1>4 DEF Service!Next

LEMMA InitStep == Init => Service!Init
<1> SUFFICES ASSUME Init
             PROVE  Service!Init
  OBVIOUS
<1>1. \A t \in Thread : CallPhase(t) = "idle"
  BY CallPhases DEF Init, PhaseFacts
<1>2. QED
  BY <1>1, ZeroVersion DEF Init, Service!Init, Service!Fn, Fn

LEMMA NextStep == TypeOK /\ ServiceInv /\ [Next]_vars => [Service!Next]_(Service!vars)
<1> SUFFICES ASSUME TypeOK, ServiceInv, [Next]_vars
             PROVE  Service!Next
  OBVIOUS
<1>0. beam \in {"up", "aborted"}
  BY DEF TypeOK
<1>1. CASE Load
  BY <1>1, InitializeStep DEF Load, Blocked, Service!Next
<1>2. CASE Upgrade
  <2>1. CASE SGX
    BY <1>2, <2>1, InitializeStep DEF Upgrade, Blocked, Service!Next
  <2>2. CASE ~SGX
    BY <1>0, <1>2, <2>2, KeepsCall, StutterStep DEF Upgrade, callVars
  <2>3. QED
    BY <2>1, <2>2
<1>3. CASE Delete
  BY <1>0, <1>3, KeepsCall, StutterStep DEF Delete, callVars
<1>4. CASE Purge
  <2>1. enclave'[global_eid] \in {enclave[global_eid], "destroyed"}
    BY <1>4 DEF Purge, TypeOK
  <2>2. \A t \in Thread : Keeps(t)
    BY <1>0, <1>4, KeepsCall DEF Purge, callVars
  <2>3. QED
    BY <1>4, <2>1, <2>2, StutterStep DEF Purge, callVars
<1>5. ASSUME NEW t \in Thread, NEW f \in Fn, Call(t, f)
      PROVE  Service!Next
  BY <1>5, CallStep DEF Service!Next, Service!Fn, Fn
<1>6. ASSUME NEW t \in Thread, Enter(t) \/ IncrementRead(t)
      PROVE  Service!Next
  <2>1. Keeps(t)
    BY <1>0, <1>6, KeepsCall DEF Enter, IncrementRead, TypeOK
  <2>2. \A s \in Thread \ {t} : Keeps(s)
    BY <1>6, MovesCall DEF Enter, IncrementRead
  <2>3. QED
    BY <1>6, <2>1, <2>2, StutterStep DEF Enter, IncrementRead, codeVars
<1>7. ASSUME NEW t \in Thread, Abort(t)
      PROVE  Service!Next
  BY <1>7, AbortStep
<1>8. ASSUME NEW t \in Thread, IncrementWrite(t) \/ ReturnA(t)
      PROVE  Service!Next
  BY <1>8, EffectStep DEF Service!Next
<1>9. ASSUME NEW t \in Thread, Return(t)
      PROVE  Service!Next
  BY <1>9, ReturnStep DEF Service!Next
<1>10. CASE PowerTransition
  <2>1. enclave'[global_eid] \in {enclave[global_eid], "lost"}
    BY <1>10 DEF PowerTransition, TypeOK
  <2>2. \A t \in Thread : Keeps(t)
    BY <1>0, <1>10, KeepsCall DEF PowerTransition, callVars
  <2>3. QED
    BY <1>10, <2>1, <2>2, StutterStep DEF PowerTransition, codeVars, callVars
<1>11. CASE UNCHANGED vars
  BY <1>0, <1>11, KeepsCall, StutterStep DEF vars, codeVars, callVars
<1>12. QED
  BY <1>1, <1>2, <1>3, <1>4, <1>5, <1>6, <1>7, <1>8, <1>9, <1>10, <1>11
     DEF Next, Step

(* On a BEAM with one scheduler thread a call of increment/0 or rtrn/0     *)
(* takes effect once, through loads, upgrades, purges and lost enclaves,   *)
(* with SGX and without; only the SGX version forgets the number in an     *)
(* upgrade.                                                                *)
THEOREM Refinement ==
  ASSUME OneScheduler
  PROVE  Spec => ImplementsCounterService
<1>1. Init => AbortInv /\ ServiceInv /\ Service!Init
  BY InitAbort, InitService, InitStep
<1>2. TypeOK /\ AbortInv /\ ServiceInv /\ [Next]_vars => (AbortInv /\ ServiceInv)'
  BY NextAbort, NextService
<1>3. TypeOK /\ ServiceInv /\ [Next]_vars => [Service!Next]_(Service!vars)
  BY NextStep
<1>4. QED
  BY <1>1, <1>2, <1>3, TypeCorrect, PTL DEF Spec, ImplementsCounterService, Service!Spec
=============================================================================
