---------------------- MODULE QuoteVerification_proofs ----------------------
(* Proofs about QuoteVerification, for any length of time that passes.     *)
EXTENDS QuoteVerification, TLAPS

(* Where the enclave and the collateral are held: from their creation in   *)
(* the trusted mode to the return from it.                                 *)
HeldInv ==
  /\ pc \in {"create", "target", "qveid"} \cup Inside => use_qve
  /\ pc \in {"start", "create", "exit", "terminated"} \/ ~use_qve =>
       enclave \in {"none", "destroyed"} /\ collateral = "null"
  /\ use_qve /\ pc \in {"target", "prepare", "verify", "qveid", "verdict"} \cup Inside =>
       eid
  /\ pc \in {"target", "prepare", "verify", "qveid"} => collateral = "null"
  /\ ~use_qve => ~eid /\ pc # "start"

(* A verdict in the variable is this call's, and none survives the call.   *)
VerdictInv ==
  /\ result # "unspecified" => use_qve \in answered
  /\ VerdictIsTheLibrarys

(* A genuine report is bound to what will be passed, once it is there.     *)
ReportInv ==
  /\ genuine => Argument = bound
  /\ genuine => pc \notin {"start", "create", "target", "prepare", "verify"}

(* How far the ecall has come says what the report has passed.             *)
PassedInv ==
  /\ passed # {} => genuine
  /\ pc \in {"start", "create", "target", "prepare", "verify", "qveid", "ecall",
            "report"} => passed = {}
  /\ pc = "hash" => passed = {"report"}
  /\ pc = "data" => passed = {"report", "hash"}
  /\ pc = "chain" => passed = {"report", "hash", "data"}
  /\ pc = "identity" => passed = Check \ {"identity"}
  /\ pc \in {"start", "create", "target", "prepare", "verify", "qveid"} \cup Inside =>
       verify_report_ret = "unexpected"
  /\ verify_report_ret = "success" => passed \in {{"report"}, Check}

IInv == TypeOK /\ HeldInv /\ VerdictInv /\ ReportInv /\ PassedInv

-----------------------------------------------------------------------------
(* A call starts with the locals it should have.                           *)
LEMMA BoundType ==
  ASSUME NEW t \in Time, NEW e \in {0, 1}, NEW r \in Result, NEW b \in BOOLEAN
  PROVE  Bound(t, e, r, b) \in
           [date : Time, expiry : {0, 1}, result : Result, supplemental : BOOLEAN]
BY DEF Bound

LEMMA LocalsType ==
  ASSUME NEW q \in BOOLEAN, Locals(q)
  PROVE
  /\ use_qve' \in BOOLEAN /\ eid' \in BOOLEAN /\ target' \in BOOLEAN
  /\ supplemental' \in {"null", "nomemory", "buffer"}
  /\ current_time' \in Time /\ expiry' \in {0, 1} /\ result' \in Result
  /\ genuine' \in BOOLEAN
  /\ bound' \in [date : Time, expiry : {0, 1}, result : Result, supplemental : BOOLEAN]
  /\ verify_report_ret' \in {"unexpected", "success"}
  /\ passed' \subseteq Check
<1>1. 0 \in Time /\ "unspecified" \in Result
  BY TimeAssumption DEF Time, Result
<1>2. bound' \in [date : Time, expiry : {0, 1}, result : Result, supplemental : BOOLEAN]
  BY <1>1, BoundType DEF Locals
<1> QED
  BY <1>1, <1>2 DEF Locals

LEMMA InitInv == Init => IInv
<1> SUFFICES ASSUME Init PROVE IInv
  OBVIOUS
<1>1. 0 \in Time /\ "unspecified" \in Result
  BY TimeAssumption DEF Time, Result
<1>2. bound \in [date : Time, expiry : {0, 1}, result : Result, supplemental : BOOLEAN]
  BY <1>1, BoundType DEF Init
<1>3. verdict \in [BOOLEAN -> {-1, 0, 1, NoVerdict}]
  BY DEF Init
<1>4. TypeOK
  BY <1>1, <1>2, <1>3 DEF Init, TypeOK
<1> QED
  BY <1>4 DEF Init, IInv, HeldInv, VerdictInv, ReportInv, PassedInv, Inside,
     VerdictIsTheLibrarys, NoVerdict, Argument, Bound

-----------------------------------------------------------------------------
(* The return from a call, whose verdict is r: the other variables.        *)
LEMMA ReturnType ==
  ASSUME TypeOK, NEW r \in {-1, 0, 1}, ReturnsTo(r),
         enclave' \in {"none", "live", "lost", "destroyed"},
         collateral' \in {"null", "held"}
  PROVE  TypeOK'
<1>1. CASE use_qve
  BY <1>1, LocalsType DEF TypeOK, ReturnsTo
<1>2. CASE ~use_qve
  BY <1>2 DEF TypeOK, ReturnsTo, callVars, checkVars
<1> QED
  BY <1>1, <1>2

LEMMA ReturnInv ==
  ASSUME IInv, NEW r \in {-1, 0, 1}, ReturnsTo(r),
         r \in {0, 1} => result # "unspecified",
         enclave' \in {"none", "destroyed"}, collateral' = "null",
         pc \in {"create", "qveid", "verdict"}
  PROVE  IInv'
<1>1. TypeOK'
  BY ReturnType DEF IInv
<1>2. VerdictIsTheLibrarys'
  BY DEF IInv, TypeOK, VerdictInv, VerdictIsTheLibrarys, ReturnsTo
<1>3. CASE use_qve
  BY <1>1, <1>2, <1>3 DEF IInv, HeldInv, VerdictInv, ReportInv, PassedInv,
     Inside, ReturnsTo, Locals
<1>4. CASE ~use_qve
  BY <1>1, <1>2, <1>4 DEF IInv, HeldInv, VerdictInv, ReportInv, PassedInv,
     Inside, ReturnsTo, callVars, checkVars, Argument, Bound
<1> QED
  BY <1>3, <1>4

LEMMA StepInv == IInv /\ [Next]_vars => IInv'
<1> SUFFICES ASSUME IInv, [Next]_vars PROVE IInv'
  OBVIOUS
<1> USE DEF Inside
<1>1. CASE Start
  <2>1. TypeOK'
    <3>1. CASE Locals(TRUE) /\ pc' = "create" /\ UNCHANGED code
      BY <1>1, <3>1, LocalsType DEF Start, IInv, TypeOK, resourceVars
    <3>2. CASE UNCHANGED <<callVars, checkVars>> /\ pc' \in {"exit", "terminated"}
               /\ code' \in {0, -1, code}
      BY <1>1, <3>2 DEF Start, IInv, TypeOK, resourceVars, callVars, checkVars
    <3> QED
      BY <1>1, <3>1, <3>2 DEF Start
  <2> QED
    BY <1>1, <2>1 DEF Start, IInv, HeldInv, VerdictInv, ReportInv, PassedInv,
       VerdictIsTheLibrarys, Locals, resourceVars, callVars, checkVars, Argument, Bound
<1>2. CASE CreateEnclave
  BY <1>2 DEF CreateEnclave, IInv, TypeOK, HeldInv, VerdictInv, ReportInv, PassedInv,
     VerdictIsTheLibrarys, checkVars, endVars, Argument, Bound
<1>3. CASE CreateFails
  BY <1>3, ReturnInv DEF CreateFails, IInv, HeldInv, resourceVars
<1>4. CASE GetTargetInfo
  <2>1. TypeOK'
    BY <1>4 DEF GetTargetInfo, IInv, TypeOK, resourceVars, checkVars, endVars
  <2>2. HeldInv'
    BY <1>4 DEF GetTargetInfo, IInv, TypeOK, HeldInv, resourceVars, checkVars, endVars
  <2>3. VerdictInv' /\ ReportInv'
    BY <1>4 DEF GetTargetInfo, IInv, VerdictInv, ReportInv, VerdictIsTheLibrarys, resourceVars, checkVars,
       endVars, Argument, Bound
  <2>4. PassedInv'
    BY <1>4 DEF GetTargetInfo, IInv, PassedInv, ReportInv, checkVars
  <2> QED
    BY <2>1, <2>2, <2>3, <2>4 DEF IInv
<1>5. CASE Prepare
  BY <1>5 DEF Prepare, IInv, TypeOK, HeldInv, VerdictInv, ReportInv, PassedInv,
     VerdictIsTheLibrarys, checkVars, endVars, resourceVars, Argument, Bound
<1>6. CASE VerifyQuote
  <2>1. TypeOK'
    <3>1. bound' \in [date : Time, expiry : {0, 1}, result : Result,
                      supplemental : BOOLEAN]
      <4>1. current_time \in Time /\ expiry' \in {0, 1} /\ result' \in Result
        BY <1>6 DEF VerifyQuote, IInv, TypeOK
      <4>2. CASE use_qve
        <5> DEFINE b == supplemental = "buffer"
        <5>1. bound' = Bound(current_time, expiry', result', b)
          BY <1>6, <4>2, Zenon DEF VerifyQuote
        <5>2. b \in BOOLEAN
          OBVIOUS
        <5> HIDE DEF b
        <5> QED
          BY <4>1, <5>1, <5>2, BoundType
      <4>3. CASE ~use_qve
        BY <1>6, <4>3 DEF VerifyQuote, IInv, TypeOK
      <4> QED
        BY <4>2, <4>3
    <3> QED
      BY <1>6, <3>1 DEF VerifyQuote, IInv, TypeOK, checkVars, resourceVars
  <2> QED
    BY <1>6, <2>1 DEF VerifyQuote, IInv, TypeOK, HeldInv, VerdictInv, ReportInv,
       PassedInv, VerdictIsTheLibrarys, checkVars, resourceVars, Argument, Bound
<1>7. CASE VerifyQuoteFails
  BY <1>7 DEF VerifyQuoteFails, IInv, TypeOK, HeldInv, VerdictInv, ReportInv, PassedInv,
     VerdictIsTheLibrarys, callVars, checkVars, endVars, resourceVars, Argument, Bound
<1>8. CASE GetQveIdentity
  <2>1. TypeOK'
    BY <1>8 DEF GetQveIdentity, IInv, TypeOK, checkVars, endVars
  <2>2. HeldInv'
    BY <1>8 DEF GetQveIdentity, IInv, TypeOK, HeldInv, checkVars, endVars
  <2>3. VerdictInv' /\ ReportInv'
    BY <1>8 DEF GetQveIdentity, IInv, VerdictInv, ReportInv, VerdictIsTheLibrarys, checkVars,
       endVars, Argument, Bound
  <2>4. PassedInv'
    BY <1>8 DEF GetQveIdentity, IInv, PassedInv, ReportInv, checkVars
  <2> QED
    BY <2>1, <2>2, <2>3, <2>4 DEF IInv
<1>9. CASE QveIdentityFails
  BY <1>9, ReturnInv DEF QveIdentityFails, IInv, HeldInv
<1>10. CASE Return
  <2>1. /\ VerdictOf(result) \in {-1, 0, 1}
        /\ VerdictOf(result) \in {0, 1} => result # "unspecified"
    BY DEF IInv, TypeOK, Result, VerdictOf
  <2>2. enclave' \in {"none", "destroyed"}
    BY <1>10 DEF Return, IInv, HeldInv
  <2> QED
    BY <1>10, <2>1, <2>2, ReturnInv DEF Return
<1>11. CASE ecall_verify_report
  <2> USE DEF IInv, callVars, checkVars, resourceVars, endVars
  <2>1. TypeOK'
    <3>1. /\ UNCHANGED <<now, callVars, resourceVars, endVars>>
          /\ pc' \in Inside \cup {"verdict"}
          /\ verify_report_ret' \in {verify_report_ret, "unexpected", "success"}
          /\ passed' \in {passed} \cup {passed \cup {c} : c \in Check}
      BY <1>11 DEF ecall_verify_report, Enter, EcallFails, VerifyMac, Hash, HashFails,
         CompareData, VerifyIdentity, VerifyEnclaveReport, CheckFails, Passes, Reports,
         Check
    <3> QED
      BY <3>1 DEF TypeOK
  <2>2. HeldInv'
    BY <1>11 DEF ecall_verify_report, Enter, EcallFails, VerifyMac, Hash, HashFails,
       CompareData, VerifyIdentity, VerifyEnclaveReport, CheckFails, Passes, Reports,
       HeldInv
  <2>3. VerdictInv' /\ ReportInv'
    BY <1>11 DEF ecall_verify_report, Enter, EcallFails, VerifyMac, Hash, HashFails,
       CompareData, VerifyIdentity, VerifyEnclaveReport, CheckFails, Passes, Reports,
       VerdictInv, ReportInv, VerdictIsTheLibrarys, Argument, Bound
  <2>4. PassedInv'
    <3> USE DEF PassedInv, TypeOK, Check
    <3>1. CASE Enter \/ EcallFails
      BY <3>1 DEF Enter, EcallFails
    <3>2. CASE VerifyMac \/ Hash \/ VerifyIdentity
      BY <3>2 DEF VerifyMac, Hash, VerifyIdentity, Passes
    <3>3. CASE HashFails \/ CheckFails
      BY <3>3 DEF HashFails, CheckFails, Reports
    <3>4. CASE CompareData
      BY <3>4 DEF CompareData, Passes, Reports
    <3>5. CASE VerifyEnclaveReport
      BY <3>5 DEF VerifyEnclaveReport, Reports
    <3> QED
      BY <1>11, <3>1, <3>2, <3>3, <3>4, <3>5 DEF ecall_verify_report
  <2> QED
    BY <2>1, <2>2, <2>3, <2>4
<1>12. CASE Tick \/ PowerTransition \/ UNCHANGED vars
  <2>1. TypeOK'
    <3>1. CASE Tick
      BY <3>1, TimeAssumption DEF Tick, IInv, TypeOK, Time, callVars, checkVars,
         endVars, resourceVars
    <3>2. CASE PowerTransition \/ UNCHANGED vars
      BY <3>2 DEF PowerTransition, IInv, TypeOK, vars, callVars, checkVars, endVars,
         resourceVars
    <3> QED
      BY <1>12, <3>1, <3>2
  <2> QED
    BY <1>12, <2>1 DEF Tick, PowerTransition, IInv, HeldInv, VerdictInv, ReportInv,
       PassedInv, VerdictIsTheLibrarys, vars, callVars, checkVars, endVars,
       resourceVars, Argument, Bound
<1> QED
  BY <1>1, <1>2, <1>3, <1>4, <1>5, <1>6, <1>7, <1>8, <1>9, <1>10, <1>11, <1>12
     DEF Next, main

LEMMA Invariance == Spec => []IInv
BY InitInv, StepInv, PTL DEF Spec

-----------------------------------------------------------------------------
(* Every variable has its type.                                            *)
THEOREM TypeCorrect == Spec => []TypeOK
<1>1. IInv => TypeOK
  BY DEF IInv
<1> QED
  BY <1>1, Invariance, PTL

(* App.cpp:234-255: no mode accepts a quote the library did not answer     *)
(* for in that mode.                                                       *)
THEOREM VerdictThm == Spec => []VerdictIsTheLibrarys
<1>1. IInv => VerdictIsTheLibrarys
  BY DEF IInv, VerdictInv
<1> QED
  BY <1>1, Invariance, PTL

(* App.cpp:327-333: whatever fails, nothing is held after the mode that    *)
(* created it.                                                             *)
THEOREM NothingHeldThm == Spec => []NothingHeld
<1>1. IInv => NothingHeld
  BY DEF IInv, HeldInv, NothingHeld
<1> QED
  BY <1>1, Invariance, PTL

(* App.cpp:206-225, Enclave.cpp:93: what the app passes to the enclave for *)
(* comparison is what the QvE made a genuine report of, however long the   *)
(* calls in between take: no genuine report is refused for its data.       *)
THEOREM GenuineDataThm == Spec => []GenuineDataMatches
<1>1. IInv => GenuineDataMatches
  BY DEF IInv, ReportInv, PassedInv, GenuineDataMatches
<1> QED
  BY <1>1, Invariance, PTL

(* Enclave.cpp:93: a report that could be hashed is accepted after every   *)
(* check only.                                                             *)
THEOREM ReportThm == Spec => []AcceptedIfAllPassed
<1>1. IInv => AcceptedIfAllPassed
  BY DEF IInv, ReportInv, PassedInv, AcceptedIfAllPassed, Check
<1> QED
  BY <1>1, Invariance, PTL
=============================================================================
