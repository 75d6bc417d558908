------------------------- MODULE QuoteVerification -------------------------
(***************************************************************************)
(* attestation_abandoned/attestation/.../QuoteVerificationServer: main()   *)
(* verifies the ECDSA quote of a file twice, by Intel's quote verification *)
(* enclave (QvE) and by the untrusted library.  In the first mode it asks  *)
(* an enclave of its own to check the report the QvE made of its verdict.  *)
(*                                                                         *)
(* External, from how App.cpp uses it: the verification library, which     *)
(* leaves its outputs alone when it fails; the cache (PCCS) the identity   *)
(* of the QvE comes from; the SDK, whose calls may fail, and lose the      *)
(* enclave at a power transition.                                          *)
(***************************************************************************)
EXTENDS Integers

CONSTANTS
  MaxTime  \* bound: seconds that pass

ASSUME TimeAssumption == MaxTime \in Nat

Time == 0 .. MaxTime

(* SGX_QL_QV_RESULT_OK, the five non-terminal results, the terminal ones   *)
(* and SGX_QL_QV_RESULT_UNSPECIFIED.                                       *)
Result == {"ok", "nonterminal", "terminal", "unspecified"}

(* The verdict of a mode before it has one.                                *)
NoVerdict == 2

(* What ecall_verify_report does.                                          *)
Check == {"report", "hash", "data", "chain", "identity"}

VARIABLES
  now,               \* time()
  pc, code,          \* main(), and what it returns
  \* ecdsa_quote_verification()
  use_qve,
  eid,               \* eid # 0
  target,            \* app_enclave_target_info is filled in
  supplemental,      \* p_supplemental_data
  current_time, expiry, result,
  genuine, bound,    \* qe_report: is it the QvE's, for this enclave, on what
  verify_report_ret,
  \* what is to be given back
  enclave,
  collateral,        \* p_qveid, p_qveid_issue_chain, p_root_ca_crl
  passed,            \* history: the checks the report has passed
  \* history: the modes the library answered in, and the verdict of each
  answered, verdict

checkVars == <<verify_report_ret, passed>>
callVars == <<use_qve, eid, target, supplemental, current_time, expiry,
              result, genuine, bound>>
resourceVars == <<enclave, collateral>>
endVars == <<code, answered, verdict>>
vars == <<now, pc, callVars, checkVars, resourceVars, endVars>>

(* What the report data is the hash of, beside the nonce and the quote.    *)
Bound(t, e, r, s) == [date |-> t, expiry |-> e, result |-> r, supplemental |-> s]

(* Variant: the verdict is a static variable.                              *)
Locals_Static(q) ==
  /\ use_qve' = q
  /\ eid' = FALSE /\ target' = FALSE
  /\ supplemental' = "null" /\ current_time' = 0
  /\ expiry' = 1 /\ UNCHANGED result
  /\ genuine' = FALSE /\ bound' = Bound(0, 1, "unspecified", FALSE)
  /\ verify_report_ret' = "unexpected" /\ passed' = {}

(* ecdsa_quote_verification(quote, q) is called: its local variables.      *)
Locals(q) ==
  /\ use_qve' = q
  /\ eid' = FALSE /\ target' = FALSE
  /\ supplemental' = "null" /\ current_time' = 0
  /\ expiry' = 1 /\ result' = "unspecified"
  /\ genuine' = FALSE /\ bound' = Bound(0, 1, "unspecified", FALSE)
  /\ verify_report_ret' = "unexpected" /\ passed' = {}

Init ==
  /\ now = 0 /\ pc = "start" /\ code = 0
  /\ use_qve = TRUE /\ eid = FALSE /\ target = FALSE
  /\ supplemental = "null" /\ current_time = 0
  /\ expiry = 1 /\ result = "unspecified"
  /\ genuine = FALSE /\ bound = Bound(0, 1, "unspecified", FALSE)
  /\ verify_report_ret = "unexpected" /\ passed = {}
  /\ enclave = "none" /\ collateral = "null"
  /\ answered = {} /\ verdict = [q \in BOOLEAN |-> NoVerdict]

-----------------------------------------------------------------------------
(* main(): a wrong number of arguments; no file, or an empty one; a file   *)
(* without a size, whose vector throws what nobody catches; a quote.       *)
Start ==
  /\ pc = "start"
  /\ \/ pc' = "exit" /\ code' \in {0, -1} /\ UNCHANGED <<callVars, checkVars>>
     \/ pc' = "terminated" /\ UNCHANGED <<code, callVars, checkVars>>
     \/ pc' = "create" /\ Locals(TRUE) /\ UNCHANGED code
  /\ UNCHANGED <<now, resourceVars, answered, verdict>>

(* ecdsa_quote_verification() returns r: the untrusted mode follows the    *)
(* trusted one, whatever r is.                                             *)
ReturnsTo(r) ==
  /\ verdict' = [verdict EXCEPT ![use_qve] = r]
  /\ IF use_qve THEN pc' = "prepare" /\ Locals(FALSE)
     ELSE pc' = "exit" /\ UNCHANGED <<callVars, checkVars>>
  /\ UNCHANGED <<now, code, answered>>

CreateEnclave ==
  /\ pc = "create"
  /\ pc' = "target" /\ eid' = TRUE /\ enclave' = "live"
  /\ UNCHANGED <<now, use_qve, target, supplemental, current_time, expiry,
                 result, genuine, bound, checkVars, collateral, endVars>>

CreateFails == pc = "create" /\ ReturnsTo(-1) /\ UNCHANGED resourceVars

(* ecall_get_target_info: a failure is printed.                            *)
GetTargetInfo ==
  /\ pc = "target"
  /\ target' \in BOOLEAN /\ (target' => enclave = "live")
  /\ pc' = "prepare"
  /\ UNCHANGED <<now, use_qve, eid, supplemental, current_time, expiry,
                 result, genuine, bound, checkVars, resourceVars, endVars>>

(* The loading policy, where a failure is printed; the supplemental data's *)
(* size, none if it is not the expected one; its buffer; the time.         *)
Prepare ==
  /\ pc = "prepare"
  /\ supplemental' \in {"null", "nomemory", "buffer"}
  /\ current_time' = now
  /\ pc' = "verify"
  /\ UNCHANGED <<now, use_qve, eid, target, expiry, result, genuine, bound,
                 checkVars, resourceVars, endVars>>

(* sgx_qv_verify_quote, which refuses a size without a buffer.  A report   *)
(* that is targeted at garbage is of no use to the enclave.                *)
VerifyQuote ==
  /\ pc = "verify" /\ supplemental # "nomemory"
  /\ result' \in Result \ {"unspecified"} /\ expiry' \in {0, 1}
  /\ IF use_qve
     THEN /\ genuine' = target
          /\ bound' = Bound(current_time, expiry', result', supplemental = "buffer")
          /\ pc' = "qveid"
     ELSE pc' = "verdict" /\ UNCHANGED <<genuine, bound>>
  /\ answered' = answered \cup {use_qve}
  /\ UNCHANGED <<now, use_qve, eid, target, supplemental, current_time,
                 checkVars, resourceVars, code, verdict>>

VerifyQuoteFails ==
  /\ pc = "verify"
  /\ pc' = IF use_qve THEN "qveid" ELSE "verdict"
  /\ UNCHANGED <<now, callVars, checkVars, resourceVars, endVars>>

GetQveIdentity ==
  /\ pc = "qveid"
  /\ collateral' = "held"
  /\ pc' = "ecall"
  /\ UNCHANGED <<now, use_qve, eid, target, supplemental, current_time,
                 expiry, result, genuine, bound, checkVars, enclave, endVars>>

(* Variant: return -1 without sgx_destroy_enclave.                         *)
QveIdentityFails_Leaves ==
  pc = "qveid" /\ ReturnsTo(-1) /\ UNCHANGED resourceVars

(* The cache has no identity, or is not there.                             *)
QveIdentityFails ==
  /\ pc = "qveid"
  /\ ReturnsTo(-1)
  /\ enclave' = "destroyed" /\ UNCHANGED collateral

-----------------------------------------------------------------------------
(* ecall_verify_report.                                                    *)

Inside == {"ecall", "report", "hash", "data", "chain", "identity"}

(* Variant: the time is asked again for the call.                          *)
Argument_TimeAgain == Bound(now, expiry, result, supplemental = "buffer")

(* What the app passes, to be hashed.                                      *)
Argument == Bound(current_time, expiry, result, supplemental = "buffer")

(* The ecall goes on to p, having passed the check c.                      *)
Passes(c, p) ==
  /\ pc = c /\ enclave = "live"
  /\ passed' = passed \cup {c}
  /\ pc' = p
  /\ UNCHANGED <<now, callVars, verify_report_ret, resourceVars, endVars>>

(* It returns s.                                                           *)
Reports(s) ==
  /\ enclave = "live"
  /\ verify_report_ret' = s
  /\ pc' = "verdict"
  /\ UNCHANGED <<now, callVars, resourceVars, endVars>>

(* No argument is missing: the quote is not empty, and the app had the     *)
(* collateral.                                                             *)
Enter ==
  /\ pc = "ecall" /\ enclave = "live" /\ collateral = "held"
  /\ pc' = "report"
  /\ UNCHANGED <<now, callVars, checkVars, resourceVars, endVars>>

(* SGX_ERROR_ENCLAVE_LOST, or no room for the arguments.                   *)
EcallFails ==
  /\ pc \in Inside
  /\ pc = "ecall" \/ enclave = "lost"
  /\ pc' = "verdict"
  /\ UNCHANGED <<now, callVars, checkVars, resourceVars, endVars>>

(* sgx_verify_report: the MAC of the report.                               *)
VerifyMac == genuine /\ Passes("report", "hash")

(* Every sgx_sha256_...; SGX_ERR_BREAK leaves ret at the SGX_SUCCESS of    *)
(* sgx_verify_report.                                                      *)
Hash == Passes("hash", "data")
HashFails == pc = "hash" /\ Reports("success") /\ UNCHANGED passed

CompareData ==
  IF Argument = bound THEN Passes("data", "chain")
  ELSE pc = "data" /\ Reports("unexpected") /\ UNCHANGED passed

(* sgxAttestationVerifyEnclaveIdentity: up to Intel's root.                *)
VerifyIdentity == Passes("chain", "identity")

(* sgxAttestationVerifyEnclaveReport: the report is one of that identity.  *)
VerifyEnclaveReport ==
  pc = "identity" /\ Reports("success") /\ passed' = passed \cup {"identity"}

(* Variant: qveid_res is looked at after both calls.                       *)
CheckFails_Late ==
  \/ pc \in {"report", "identity"} /\ Reports("unexpected") /\ UNCHANGED passed
  \/ /\ pc = "chain" /\ enclave = "live"
     /\ pc' = "identity"
     /\ UNCHANGED <<now, callVars, checkVars, resourceVars, endVars>>

(* The MAC, the chain or the identity is not good.                         *)
CheckFails ==
  /\ pc \in {"report", "chain", "identity"}
  /\ Reports("unexpected")
  /\ UNCHANGED passed

-----------------------------------------------------------------------------
(* Variant: a terminal verdict is told from none.                          *)
VerdictOf_Four(r) ==
  CASE r = "ok" -> 0
    [] r = "nonterminal" -> 1
    [] r = "terminal" -> -2
    [] r = "unspecified" -> -1

(* The switch over the verdict.                                            *)
VerdictOf(r) ==
  CASE r = "ok" -> 0
    [] r = "nonterminal" -> 1
    [] r \in {"terminal", "unspecified"} -> -1

(* It is returned, whatever verify_report_ret is; before that the          *)
(* collateral is freed and the enclave destroyed, if there are any.  The   *)
(* supplemental data stays on the heap.                                    *)
Return ==
  /\ pc = "verdict"
  /\ ReturnsTo(VerdictOf(result))
  /\ collateral' = "null"
  /\ enclave' = IF eid THEN "destroyed" ELSE enclave

-----------------------------------------------------------------------------
Tick ==
  /\ now < MaxTime
  /\ now' = now + 1
  /\ UNCHANGED <<pc, callVars, checkVars, resourceVars, endVars>>

PowerTransition ==
  /\ enclave = "live"
  /\ enclave' = "lost"
  /\ UNCHANGED <<now, pc, callVars, checkVars, collateral, endVars>>

ecall_verify_report ==
  \/ Enter \/ EcallFails \/ VerifyMac \/ Hash \/ HashFails \/ CompareData
  \/ VerifyIdentity \/ VerifyEnclaveReport \/ CheckFails

main ==
  \/ Start \/ CreateEnclave \/ CreateFails \/ GetTargetInfo \/ Prepare
  \/ VerifyQuote \/ VerifyQuoteFails \/ GetQveIdentity \/ QveIdentityFails
  \/ ecall_verify_report \/ Return

Next == main \/ Tick \/ PowerTransition

Spec == Init /\ [][Next]_vars

-----------------------------------------------------------------------------
(* Properties.                                                             *)

TypeOK ==
  /\ now \in Time
  /\ pc \in {"start", "create", "target", "prepare", "verify", "qveid", "verdict",
            "exit", "terminated"} \cup Inside
  /\ code \in {0, -1}
  /\ use_qve \in BOOLEAN /\ eid \in BOOLEAN /\ target \in BOOLEAN
  /\ supplemental \in {"null", "nomemory", "buffer"}
  /\ current_time \in Time /\ expiry \in {0, 1} /\ result \in Result
  /\ genuine \in BOOLEAN
  /\ bound \in [date : Time, expiry : {0, 1}, result : Result, supplemental : BOOLEAN]
  /\ verify_report_ret \in {"unexpected", "success"}
  /\ passed \subseteq Check
  /\ enclave \in {"none", "live", "lost", "destroyed"}
  /\ collateral \in {"null", "held"}
  /\ answered \subseteq BOOLEAN
  /\ verdict \in [BOOLEAN -> {-1, 0, 1, NoVerdict}]

(* App.cpp:234-255: a mode accepts the quote, with or without a warning,   *)
(* only if the library answered in this very mode: neither a failed call,  *)
(* which is only printed, nor the verdict of the other mode counts.        *)
VerdictIsTheLibrarys == \A q \in BOOLEAN : verdict[q] \in {0, 1} => q \in answered

(* App.cpp:327-333: when the first mode is over and when the program ends, *)
(* by whichever return, the enclave is destroyed and the collateral freed. *)
NothingHeld ==
  pc \in {"exit", "terminated"} \/ ~use_qve =>
    enclave \in {"none", "destroyed"} /\ collateral = "null"

(* Enclave.cpp:93, "report_data = SHA256([nonce || quote ||                *)
(* expiration_check_date || ...])": what the app passes to the enclave,    *)
(* four calls after the QvE made its report, is what the report is bound   *)
(* to: a genuine report is never refused for its data.                     *)
GenuineDataMatches == pc = "data" => Argument = bound

(* A report that could be hashed is accepted only after every check: it is *)
(* the QvE's, for this enclave, on this verdict, and the identity of the   *)
(* QvE leads up to Intel's root.                                           *)
AcceptedIfAllPassed ==
  verify_report_ret = "success" /\ "hash" \in passed => passed = Check /\ Argument = bound
=============================================================================
