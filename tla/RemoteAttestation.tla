-------------------------- MODULE RemoteAttestation --------------------------
(***************************************************************************)
(* attestation_abandoned/erlang-c-node-remote: main() of isv_app.cpp       *)
(* attests its enclave to a service provider in two rounds, and receives a *)
(* secret in the enclave.  The service provider, and the attestation       *)
(* server it asks, are simulated in the same process: a message is a call, *)
(* answered at once.  What may fail is memory, cryptography, the quoting   *)
(* enclave, which may be busy, and the enclave, which is lost at a power   *)
(* transition between any two statements.                                  *)
(*                                                                         *)
(* A message is abstracted to the session it belongs to: whose public key  *)
(* g_a it was made with, an enclave's or the one of the precomputed        *)
(* messages of "isv_app <verification index>".                             *)
(***************************************************************************)
EXTENDS Integers

CONSTANTS
  MaxLost  \* bound: power transitions

ASSUME LostAssumption == MaxLost \in Nat

Rounds == 2

(* Every round creates one enclave, and another one for each that was lost *)
(* in enclave_init_ra.                                                     *)
Enclave == 1 .. Rounds + MaxLost
NoEnclave == 0
Sample == -1
Session == Enclave \cup {NoEnclave, Sample}

(* What g_sp_db holds, in the order msg1 is processed in.                  *)
Field == 1 .. 6
g_a == 1   smk_key == 3   mk_key == 4   sk_key == 5

VARIABLES
  \* main()
  pc, i,
  ret, status,              \* 0 stands for success
  context,                  \* context # INT_MAX
  enclave_id,
  enclave_lost_retry_time, busy_retry_time,
  precomputed,              \* VERIFICATION_INDEX_IS_VALID()
  \* the enclaves
  enclave,
  ra,                       \* the key exchange context of each
  secret,                   \* g_secret, received
  lost,                     \* power transitions so far (bound)
  \* the service provider
  supported,                \* the platform's extended EPID group is its own
  g_is_sp_registered,
  g_return_ecdsa_att_key_id,
  g_sp_db,
  verified                  \* the sessions whose quote it found good

mainVars == <<pc, i, ret, status, context, enclave_id, enclave_lost_retry_time,
              busy_retry_time>>
inputVars == <<precomputed, supported>>
enclaveVars == <<enclave, ra, secret, lost>>
spVars == <<g_is_sp_registered, g_return_ecdsa_att_key_id, g_sp_db, verified>>
vars == <<mainVars, inputVars, enclaveVars, spVars>>

Init ==
  /\ pc = "start" /\ i = Rounds
  /\ ret = 0 /\ status = 0
  /\ context = FALSE /\ enclave_id = NoEnclave
  /\ enclave_lost_retry_time = 1 /\ busy_retry_time = 4
  /\ precomputed \in BOOLEAN /\ supported \in BOOLEAN
  /\ enclave = [e \in Enclave |-> "none"]
  /\ ra = [e \in Enclave |-> "none"]
  /\ secret = [e \in Enclave |-> FALSE]
  /\ lost = 0
  /\ g_is_sp_registered = FALSE /\ g_return_ecdsa_att_key_id = TRUE
  /\ g_sp_db = [f \in Field |-> NoEnclave]
  /\ verified = {}

-----------------------------------------------------------------------------
(* main() goes on to p with ret = r; every failure goes to CLEANUP.        *)
Goto(p, r) == pc' = p /\ ret' = r
Fails == Goto("cleanup", -1)

(* Variant: a retry is not counted.                                        *)
Dec_Never(n) == n

(* The counter of a loop, n--: when it has run out it is -1, and true in   *)
(* every test from then on (the 2^31 retries until it is 0 again are not   *)
(* followed).                                                              *)
Dec(n) == IF n = -1 THEN -1 ELSE n - 1

Live(e) == e # NoEnclave /\ enclave[e] = "live"

(* An ecall, or a call of the key exchange library that makes one, on      *)
(* enclave_id with the context of that enclave in state s.                 *)
InContext(s) == Live(enclave_id) /\ context /\ ra[enclave_id] = s

(* The session main() is in with the service provider.                     *)
Peer == IF precomputed THEN Sample ELSE enclave_id

(* sgx_get_extended_epid_group_id: a failure leaves main() at once.        *)
Start ==
  /\ pc = "start"
  /\ Goto("msg0", 0) \/ Goto("exit", -1) \/ Fails
  /\ UNCHANGED <<i, status, context, enclave_id, enclave_lost_retry_time,
                 busy_retry_time, inputVars, enclaveVars, spVars>>

(* sp_ra_proc_msg0_req.  An extended EPID group it does not support is     *)
(* answered as well: SP_OK overwrites the error.                           *)
Msg0 ==
  /\ pc = "msg0"
  /\ g_is_sp_registered' = (g_is_sp_registered \/ supported)
  /\ \/ /\ Goto("select", 0)
        /\ g_return_ecdsa_att_key_id' = FALSE
     \/ /\ Goto("cleanup", 1)
        /\ UNCHANGED g_return_ecdsa_att_key_id
  /\ UNCHANGED <<i, status, context, enclave_id, enclave_lost_retry_time,
                 busy_retry_time, inputVars, enclaveVars, g_sp_db, verified>>

(* The platform may not have the attestation key that was answered.        *)
SelectAttKeyId ==
  /\ pc = "select"
  /\ Goto("create", 0) \/ Fails
  /\ UNCHANGED <<i, status, context, enclave_id, enclave_lost_retry_time,
                 busy_retry_time, inputVars, enclaveVars, spVars>>

CreateEnclave ==
  /\ pc = "create"
  /\ \/ \E e \in Enclave :
          /\ enclave[e] = "none"
          /\ \A f \in Enclave : f < e => enclave[f] # "none"
          /\ enclave' = [enclave EXCEPT ![e] = "live"]
          /\ enclave_id' = e
          /\ Goto("init", 0)
     \/ Fails /\ UNCHANGED <<enclave, enclave_id>>
  /\ UNCHANGED <<i, status, context, enclave_lost_retry_time, busy_retry_time,
                 inputVars, ra, secret, lost, spVars>>

(* Variant: enclave_init_ra is tried again after any failure.              *)
InitRa_AnyRetry ==
  /\ pc = "init" /\ Live(enclave_id)
  /\ \/ /\ Goto("msg1", 0)
        /\ status' = 0 /\ context' = TRUE
        /\ ra' = [ra EXCEPT ![enclave_id] = "open"]
     \/ /\ Goto("create", 1)
        /\ UNCHANGED <<status, context, ra>>
  /\ UNCHANGED <<i, enclave_id, enclave_lost_retry_time, busy_retry_time,
                 inputVars, enclave, secret, lost, spVars>>

(* enclave_init_ra writes context back even when it returns an error.      *)
InitRa ==
  /\ pc = "init" /\ Live(enclave_id)
  /\ \/ /\ Goto("msg1", 0)
        /\ status' = 0 /\ context' = TRUE
        /\ ra' = [ra EXCEPT ![enclave_id] = "open"]
     \/ /\ Fails
        /\ status' = 1 /\ context' = TRUE
        /\ UNCHANGED ra
     \/ /\ Fails
        /\ UNCHANGED <<status, context, ra>>
  /\ UNCHANGED <<i, enclave_id, enclave_lost_retry_time, busy_retry_time,
                 inputVars, enclave, secret, lost, spVars>>

(* SGX_ERROR_ENCLAVE_LOST: another one is created, the lost one is not     *)
(* destroyed.                                                              *)
InitRaLost ==
  /\ pc = "init" /\ ~Live(enclave_id)
  /\ enclave_lost_retry_time' = Dec(enclave_lost_retry_time)
  /\ IF enclave_lost_retry_time # 0 THEN Goto("create", 1) ELSE Fails
  /\ UNCHANGED <<i, status, context, enclave_id, busy_retry_time, inputVars,
                 enclaveVars, spVars>>

-----------------------------------------------------------------------------
(* sgx_ra_get_msg1_ex, 3 s apart while the quoting enclave is busy.        *)
GetMsg1 ==
  /\ pc = "msg1"
  /\ \/ /\ InContext("open")
        /\ Goto("send1", 0)
        /\ ra' = [ra EXCEPT ![enclave_id] = "msg1"]
     \/ Fails /\ UNCHANGED ra
  /\ UNCHANGED <<i, status, context, enclave_id, enclave_lost_retry_time,
                 busy_retry_time, inputVars, enclave, secret, lost, spVars>>

GetMsg1Busy ==
  /\ pc = "msg1"
  /\ Goto("sleep", 1)
  /\ UNCHANGED <<i, status, context, enclave_id, enclave_lost_retry_time,
                 busy_retry_time, inputVars, enclaveVars, spVars>>

Sleep ==
  /\ pc = "sleep"
  /\ busy_retry_time' = Dec(busy_retry_time)
  /\ IF busy_retry_time # 0 THEN Goto("msg1", 1) ELSE Fails
  /\ UNCHANGED <<i, status, context, enclave_id, enclave_lost_retry_time,
                 inputVars, enclaveVars, spVars>>

(* sp_ra_proc_msg1_req fills g_sp_db one field after the other; a failure  *)
(* leaves it half updated.                                                 *)
Fill(n) == g_sp_db' = [f \in Field |-> IF f <= n THEN Peer ELSE g_sp_db[f]]

(* Msg1 is answered with msg2, for which two tries are granted anew.       *)
Msg1 ==
  /\ pc = "send1" /\ g_is_sp_registered
  /\ Fill(6)
  /\ Goto(IF precomputed THEN "send3" ELSE "msg2", 0)
  /\ busy_retry_time' = IF precomputed THEN busy_retry_time ELSE 2
  /\ UNCHANGED <<i, status, context, enclave_id, enclave_lost_retry_time,
                 inputVars, enclaveVars, g_is_sp_registered,
                 g_return_ecdsa_att_key_id, verified>>

(* It is not: with precomputed messages main() goes on.                    *)
Msg1Fails ==
  /\ pc = "send1"
  /\ \/ ~g_is_sp_registered /\ UNCHANGED g_sp_db
     \/ g_is_sp_registered /\ \E n \in Field : Fill(n)
  /\ Goto(IF precomputed THEN "send3" ELSE "cleanup", 1)
  /\ UNCHANGED <<i, status, context, enclave_id, enclave_lost_retry_time,
                 busy_retry_time, inputVars, enclaveVars, g_is_sp_registered,
                 g_return_ecdsa_att_key_id, verified>>

(* sgx_ra_proc_msg2_ex checks the signature and the MAC of msg2, derives   *)
(* the session's keys and gets a quote of the enclave.                     *)
ProcMsg2 ==
  /\ pc = "msg2"
  /\ \/ /\ InContext("msg1")
        /\ Goto("send3", 0)
        /\ ra' = [ra EXCEPT ![enclave_id] = "keys"]
     \/ Fails /\ UNCHANGED ra
  /\ UNCHANGED <<i, status, context, enclave_id, enclave_lost_retry_time,
                 busy_retry_time, inputVars, enclave, secret, lost, spVars>>

ProcMsg2Busy ==
  /\ pc = "msg2"
  /\ busy_retry_time' = Dec(busy_retry_time)
  /\ IF busy_retry_time # 0 THEN Goto("msg2", 1) ELSE Fails
  /\ UNCHANGED <<i, status, context, enclave_id, enclave_lost_retry_time,
                 inputVars, enclaveVars, spVars>>

(* sp_ra_proc_msg3_req: g_a, the MAC under smk and the hash of g_a, g_b    *)
(* and vk in the quote must all be those of the session; the attestation   *)
(* server finds every quote good that it answers for.  An allocation or a  *)
(* cipher may fail before or after that.                                   *)
GoodMsg3 == g_is_sp_registered /\ \A f \in Field \ {mk_key, sk_key} : g_sp_db[f] = Peer

(* Variant: the attestation server's error is not looked at.               *)
Msg3_AnyQuote ==
  /\ pc = "send3"
  /\ \/ /\ GoodMsg3
        /\ verified' = verified \/ verified' = verified \cup {Peer}
        /\ Fails \/ Goto(IF precomputed THEN "cleanup" ELSE "mac", 0)
     \/ Fails /\ UNCHANGED verified
  /\ UNCHANGED <<i, status, context, enclave_id, enclave_lost_retry_time,
                 busy_retry_time, inputVars, enclaveVars, g_is_sp_registered,
                 g_return_ecdsa_att_key_id, g_sp_db>>

Msg3 ==
  /\ pc = "send3"
  /\ \/ /\ GoodMsg3
        /\ verified' = verified \cup {Peer}
        /\ Fails \/ Goto(IF precomputed THEN "cleanup" ELSE "mac", 0)
     \/ Fails /\ UNCHANGED verified
  /\ UNCHANGED <<i, status, context, enclave_id, enclave_lost_retry_time,
                 busy_retry_time, inputVars, enclaveVars, g_is_sp_registered,
                 g_return_ecdsa_att_key_id, g_sp_db>>

(* verify_att_result_mac, under mk of the enclave and of the provider.     *)
VerifyMac ==
  /\ pc = "mac"
  /\ \/ /\ InContext("keys") /\ g_sp_db[mk_key] = enclave_id
        /\ status' = 0
        /\ Goto("secret", 0)
     \/ /\ Live(enclave_id)
        /\ status' = 1
        /\ Fails
     \/ Fails /\ UNCHANGED status
  /\ UNCHANGED <<i, context, enclave_id, enclave_lost_retry_time, busy_retry_time,
                 inputVars, enclaveVars, spVars>>

(* put_secret_data, under sk.  When the enclave reports a failure, main()  *)
(* leaves ret at 0.                                                        *)
PutSecret ==
  /\ pc = "secret"
  /\ \/ /\ InContext("keys") /\ g_sp_db[sk_key] = enclave_id
        /\ status' = 0
        /\ secret' = [secret EXCEPT ![enclave_id] = TRUE]
        /\ Goto("cleanup", 0)
     \/ /\ Live(enclave_id)
        /\ status' = 1
        /\ Goto("cleanup", 0)
        /\ UNCHANGED secret
     \/ /\ Goto("cleanup", 1)
        /\ UNCHANGED <<status, secret>>
  /\ UNCHANGED <<i, context, enclave_id, enclave_lost_retry_time, busy_retry_time,
                 inputVars, enclave, ra, lost, spVars>>

-----------------------------------------------------------------------------
(* CLEANUP.  Neither context nor enclave_id is reset between the rounds: a *)
(* round that fails early closes the context of the one before.            *)

(* Variant: the result of enclave_ra_close is what main() returns.         *)
CloseContext_NotRestored ==
  /\ pc = "cleanup" /\ context
  /\ IF Live(enclave_id) /\ ra[enclave_id] # "none"
     THEN /\ Goto("destroy", 0)
          /\ ra' = [ra EXCEPT ![enclave_id] = "closed"]
          /\ status' = 0
     ELSE /\ Goto("destroy", -1)
          /\ status' = IF Live(enclave_id) THEN 1 ELSE status
          /\ UNCHANGED ra
  /\ UNCHANGED <<i, context, enclave_id, enclave_lost_retry_time, busy_retry_time,
                 inputVars, enclave, secret, lost, spVars>>

(* Variant: the context is closed after a successful round only.           *)
CloseContext_OnSuccess ==
  /\ pc = "cleanup" /\ context
  /\ Goto("destroy", ret)
  /\ ra' = IF Live(enclave_id) /\ ret = 0
           THEN [ra EXCEPT ![enclave_id] = "closed"] ELSE ra
  /\ UNCHANGED <<i, status, context, enclave_id, enclave_lost_retry_time,
                 busy_retry_time, inputVars, enclave, secret, lost, spVars>>

CloseContext ==
  /\ pc = "cleanup" /\ context
  /\ IF Live(enclave_id) /\ ra[enclave_id] # "none"
     THEN /\ Goto("destroy", ret)
          /\ ra' = [ra EXCEPT ![enclave_id] = "closed"]
          /\ status' = 0
     ELSE /\ Goto("destroy", -1)
          /\ status' = IF Live(enclave_id) THEN 1 ELSE status
          /\ UNCHANGED ra
  /\ UNCHANGED <<i, context, enclave_id, enclave_lost_retry_time, busy_retry_time,
                 inputVars, enclave, secret, lost, spVars>>

NoContext ==
  /\ pc = "cleanup" /\ ~context
  /\ Goto("destroy", ret)
  /\ UNCHANGED <<i, status, context, enclave_id, enclave_lost_retry_time,
                 busy_retry_time, inputVars, enclaveVars, spVars>>

(* Variant: do ... while(i--)                                              *)
DestroyEnclave_PostDecrement ==
  /\ pc = "destroy"
  /\ enclave' = [e \in Enclave |-> IF e = enclave_id THEN "destroyed" ELSE enclave[e]]
  /\ i' = i - 1
  /\ Goto(IF i > 0 THEN "start" ELSE "exit", ret)
  /\ UNCHANGED <<status, context, enclave_id, enclave_lost_retry_time,
                 busy_retry_time, inputVars, ra, secret, lost, spVars>>

DestroyEnclave ==
  /\ pc = "destroy"
  /\ enclave' = [e \in Enclave |-> IF e = enclave_id THEN "destroyed" ELSE enclave[e]]
  /\ i' = i - 1
  /\ Goto(IF i > 1 THEN "start" ELSE "exit", ret)
  /\ UNCHANGED <<status, context, enclave_id, enclave_lost_retry_time,
                 busy_retry_time, inputVars, ra, secret, lost, spVars>>

-----------------------------------------------------------------------------
(* The machine is suspended: the enclave is lost.                          *)
PowerTransition(e) ==
  /\ lost < MaxLost /\ enclave[e] = "live"
  /\ lost' = lost + 1
  /\ enclave' = [enclave EXCEPT ![e] = "lost"]
  /\ UNCHANGED <<mainVars, inputVars, ra, secret, spVars>>

main ==
  \/ Start \/ Msg0 \/ SelectAttKeyId \/ CreateEnclave \/ InitRa \/ InitRaLost
  \/ GetMsg1 \/ GetMsg1Busy \/ Sleep \/ Msg1 \/ Msg1Fails
  \/ ProcMsg2 \/ ProcMsg2Busy \/ Msg3 \/ VerifyMac \/ PutSecret
  \/ CloseContext \/ NoContext \/ DestroyEnclave

Next == main \/ \E e \in Enclave : PowerTransition(e)

Spec == Init /\ [][Next]_vars

(* The operating system runs the process.  Nothing is said of how often    *)
(* the quoting enclave is busy.                                            *)
FairSpec == Spec /\ WF_vars(main)

-----------------------------------------------------------------------------
(* Properties.                                                             *)

TypeOK ==
  /\ pc \in {"start", "msg0", "select", "create", "init", "msg1", "sleep", "send1",
             "msg2", "send3", "mac", "secret", "cleanup", "destroy", "exit"}
  /\ i \in 0 .. Rounds
  /\ ret \in -1 .. 1 /\ status \in 0 .. 1
  /\ context \in BOOLEAN
  /\ enclave_id \in Enclave \cup {NoEnclave}
  /\ enclave_lost_retry_time \in -1 .. 1
  /\ busy_retry_time \in -1 .. 4
  /\ precomputed \in BOOLEAN /\ supported \in BOOLEAN
  /\ enclave \in [Enclave -> {"none", "live", "lost", "destroyed"}]
  /\ ra \in [Enclave -> {"none", "open", "msg1", "keys", "closed"}]
  /\ secret \in [Enclave -> BOOLEAN]
  /\ lost \in 0 .. MaxLost
  /\ g_is_sp_registered \in BOOLEAN /\ g_return_ecdsa_att_key_id \in BOOLEAN
  /\ g_sp_db \in [Field -> Session]
  /\ verified \subseteq Session

(* service_provider.cpp:833, "Generate shared secret and encrypt it with   *)
(* SK, if attestation passed": an enclave has the secret only if the       *)
(* service provider of a supported group found that enclave's quote good,  *)
(* however far an earlier round got and whatever it left in g_sp_db.       *)
SecretNeedsAttestation ==
  \A e \in Enclave : secret[e] => supported /\ e \in verified

(* Between the rounds and when main() returns no enclave is left running,  *)
(* and no second one ever runs: only an enclave that was lost is abandoned *)
(* by the retry loop.                                                      *)
NoEnclaveLeft ==
  \A e \in Enclave : Live(e) => e = enclave_id /\ pc \notin {"start", "exit"}

(* isv_app.cpp:704, "Need to close the RA key state": on every path, an    *)
(* enclave that still runs is destroyed after its key exchange context was *)
(* closed.                                                                 *)
KeyStateClosed ==
  [][\A e \in Enclave :
       Live(e) /\ enclave'[e] = "destroyed" => ra[e] \in {"none", "closed"}]_vars

(* isv_app.cpp:717, "restore the value that led us to this point": main()  *)
(* returns 0 only if the service provider found the quote of its last      *)
(* enclave good, or the precomputed one.                                   *)
ZeroMeansAttested ==
  pc = "exit" /\ ret = 0 => IF precomputed THEN Sample \in verified
                           ELSE enclave_id \in verified

(* Through both rounds, retries, precomputed messages and lost enclaves    *)
(* main() and the service provider implement SecretRelease: the steps that *)
(* map to none of its actions leave it as it is.                           *)
Outcome == IF pc # "exit" THEN "none" ELSE IF ret = 0 THEN "success" ELSE "failure"

Abstract == INSTANCE SecretRelease WITH
  NoSession <- NoEnclave,
  session <- Peer,
  started <- {e \in Enclave : enclave[e] # "none"},
  running <- {e \in Enclave : enclave[e] = "live"},
  attested <- verified,
  holders <- {e \in Enclave : secret[e]},
  outcome <- Outcome

ImplementsSecretRelease == Abstract!Spec

(* The first round comes to an end, however long the quoting enclave is    *)
(* busy and however often the enclave is lost.                             *)
FirstRoundEnds == i = Rounds ~> (i < Rounds \/ pc = "exit")

(* isv_app.cpp:183 and :509 grant four and two retries: main() returns     *)
(* however long the quoting enclave is busy.                               *)
MainReturns == <>(pc = "exit")
=============================================================================
