----------------------- MODULE RemoteAttestation_proofs -----------------------
(***************************************************************************)
(* Proofs about RemoteAttestation, for any number of power transitions:    *)
(* type correctness, that secrets go to attested enclaves only and 0 means *)
(* attested, that enclaves and their contexts are cleaned up, and that all *)
(* of it together implements SecretRelease.                                *)
(***************************************************************************)
EXTENDS RemoteAttestation, TLAPS

LEMMA EnclaveFacts == Enclave \subseteq Nat \ {NoEnclave} /\ Sample \notin Enclave
BY LostAssumption DEF Enclave, NoEnclave, Sample, Rounds

LEMMA PeerSession == ASSUME TypeOK PROVE Peer \in Session
BY DEF TypeOK, Peer, Session

LEMMA DecBusy == \A n \in -1 .. 4 : Dec(n) \in -1 .. 4
BY DEF Dec

LEMMA DecLost == \A n \in -1 .. 1 : Dec(n) \in -1 .. 1
BY DEF Dec

-----------------------------------------------------------------------------
(* Type correctness.  main() only leaves its loop when i has reached 0.    *)

TypeInv == TypeOK /\ (pc # "exit" => i >= 1)

LEMMA InitType == Init => TypeInv
<1> SUFFICES ASSUME Init
             PROVE  TypeInv
  OBVIOUS
<1>1. /\ context \in BOOLEAN
      /\ secret \in [Enclave -> BOOLEAN]
      /\ g_is_sp_registered \in BOOLEAN /\ g_return_ecdsa_att_key_id \in BOOLEAN
  BY Zenon DEF Init
<1>2. QED
  BY <1>1, LostAssumption DEF Init, TypeInv, TypeOK, Rounds, Session

LEMMA NextType == TypeInv /\ [Next]_vars => TypeInv'
<1> SUFFICES ASSUME TypeInv, [Next]_vars
             PROVE  TypeInv'
  OBVIOUS
<1> USE DEF TypeInv, TypeOK, Goto, Fails, mainVars, inputVars, enclaveVars, spVars, Rounds
<1>1. CASE Start
  BY <1>1 DEF Start
<1>2. CASE Msg0
  <2>1. g_is_sp_registered' \in BOOLEAN /\ g_return_ecdsa_att_key_id' \in BOOLEAN
    BY <1>2, Zenon DEF Msg0
  <2>2. QED
    BY <1>2, <2>1 DEF Msg0
<1>3. CASE SelectAttKeyId
  BY <1>3 DEF SelectAttKeyId
<1>4. CASE CreateEnclave
  BY <1>4 DEF CreateEnclave
<1>5. CASE InitRa
  <2>1. context' \in BOOLEAN
    BY <1>5, Zenon DEF InitRa
  <2>2. QED
    BY <1>5, <2>1 DEF InitRa
<1>6. CASE InitRaLost
  BY <1>6, DecLost DEF InitRaLost
<1>7. CASE GetMsg1
  BY <1>7 DEF GetMsg1
<1>8. CASE GetMsg1Busy
  BY <1>8 DEF GetMsg1Busy
<1>9. CASE Sleep
  BY <1>9, DecBusy DEF Sleep
<1>10. ASSUME NEW n \in Field, Fill(n)
       PROVE  g_sp_db' \in [Field -> Session]
  BY <1>10, PeerSession DEF Fill
<1>11. CASE Msg1
  <2>1. g_sp_db' \in [Field -> Session]
    BY <1>10, <1>11 DEF Msg1, Field
  <2>2. QED
    BY <1>11, <2>1 DEF Msg1
<1>12. CASE Msg1Fails
  <2>1. g_sp_db' \in [Field -> Session]
    BY <1>10, <1>12 DEF Msg1Fails
  <2>2. QED
    BY <1>12, <2>1 DEF Msg1Fails
<1>13. CASE ProcMsg2
  BY <1>13 DEF ProcMsg2
<1>14. CASE ProcMsg2Busy
  BY <1>14, DecBusy DEF ProcMsg2Busy
<1>15. CASE Msg3
  <2>1. verified' \subseteq Session
    BY <1>15, PeerSession DEF Msg3
  <2>2. QED
    BY <1>15, <2>1 DEF Msg3
<1>16. CASE VerifyMac
  BY <1>16 DEF VerifyMac
<1>17. CASE PutSecret
  <2>1. secret' \in [Enclave -> BOOLEAN]
    BY <1>17 DEF PutSecret
  <2>2. QED
    BY <1>17, <2>1 DEF PutSecret
<1>18. CASE CloseContext
  BY <1>18 DEF CloseContext
<1>19. CASE NoContext
  BY <1>19 DEF NoContext
<1>20. CASE DestroyEnclave
  <2>1. enclave' \in [Enclave -> {"none", "live", "lost", "destroyed"}]
    BY <1>20 DEF DestroyEnclave
  <2>2. i' \in 0 .. Rounds /\ (pc' # "exit" => i' >= 1)
    BY <1>20 DEF DestroyEnclave
  <2>3. QED
    BY <1>20, <2>1, <2>2 DEF DestroyEnclave
<1>21. ASSUME NEW e \in Enclave, PowerTransition(e)
       PROVE  TypeInv'
  BY <1>21, LostAssumption DEF PowerTransition
<1>22. CASE UNCHANGED vars
  BY <1>22 DEF vars
<1>23. QED
  BY <1>1, <1>2, <1>3, <1>4, <1>5, <1>6, <1>7, <1>8, <1>9, <1>11, <1>12, <1>13,
     <1>14, <1>15, <1>16, <1>17, <1>18, <1>19, <1>20, <1>21, <1>22 DEF Next, main

LEMMA TypeInvariant == Spec => []TypeInv
BY InitType, NextType, PTL DEF Spec

(* Every reachable state of isv_app and the service provider is well       *)
(* typed: a retry counter never falls below -1, however many rounds and    *)
(* retries there were.                                                     *)
THEOREM TypeCorrect == Spec => []TypeOK
<1>1. TypeInv => TypeOK
  BY DEF TypeInv
<1>2. QED
  BY <1>1, TypeInvariant, PTL

-----------------------------------------------------------------------------
(* The secret and the exit code.  Once the service provider has answered   *)
(* msg3, the session main() is in is attested, through every later step of *)
(* the round; whatever fails before leaves ret different from 0.           *)

Attested == Peer \in verified

AttestInv ==
  /\ SecretNeedsAttestation
  /\ g_is_sp_registered => supported
  /\ verified # {} => supported
  /\ pc \in {"mac", "secret"} => ~precomputed /\ Attested
  /\ pc \in {"cleanup", "destroy", "exit"} /\ ret = 0 => Attested

LEMMA InitAttest == Init => AttestInv
BY DEF Init, AttestInv, SecretNeedsAttestation

LEMMA NextAttest == TypeInv /\ AttestInv /\ [Next]_vars => AttestInv'
<1> SUFFICES ASSUME TypeInv, AttestInv, [Next]_vars
             PROVE  AttestInv'
  OBVIOUS
<1> USE DEF TypeInv, TypeOK, AttestInv, SecretNeedsAttestation, Attested, Peer, Goto,
            Fails, mainVars, inputVars, enclaveVars, spVars
<1>1. CASE Start \/ SelectAttKeyId \/ InitRaLost \/ GetMsg1Busy \/ Sleep
             \/ ProcMsg2Busy \/ NoContext
  BY <1>1 DEF Start, SelectAttKeyId, InitRaLost, GetMsg1Busy, Sleep, ProcMsg2Busy, NoContext
<1>2. CASE Msg0
  BY <1>2 DEF Msg0
<1>3. CASE CreateEnclave
  BY <1>3 DEF CreateEnclave
<1>4. CASE InitRa \/ GetMsg1 \/ ProcMsg2
  BY <1>4 DEF InitRa, GetMsg1, ProcMsg2
<1>5. CASE Msg1 \/ Msg1Fails
  BY <1>5 DEF Msg1, Msg1Fails
<1>6. CASE Msg3
  <2>1. CASE GoodMsg3 /\ verified' = verified \cup {Peer}
    <3>1. supported /\ Peer' = Peer /\ Peer \in verified' /\ verified \subseteq verified'
      BY <1>6, <2>1 DEF Msg3, GoodMsg3
    <3>2. QED
      BY <1>6, <2>1, <3>1 DEF Msg3
  <2>2. CASE Fails /\ UNCHANGED verified
    BY <1>6, <2>2 DEF Msg3
  <2>3. QED
    BY <1>6, <2>1, <2>2 DEF Msg3
<1>7. CASE VerifyMac
  BY <1>7 DEF VerifyMac
<1>8. CASE PutSecret
  <2>1. supported /\ enclave_id \in verified /\ verified' = verified
    BY <1>8 DEF PutSecret
  <2>2. \A e \in Enclave : secret'[e] => secret[e] \/ e = enclave_id
    BY <1>8 DEF PutSecret
  <2>3. QED
    BY <1>8, <2>1, <2>2 DEF PutSecret
<1>9. CASE CloseContext
  BY <1>9 DEF CloseContext
<1>10. CASE DestroyEnclave
  BY <1>10 DEF DestroyEnclave
<1>11. ASSUME NEW e \in Enclave, PowerTransition(e)
       PROVE  AttestInv'
  BY <1>11 DEF PowerTransition
<1>12. CASE UNCHANGED vars
  BY <1>12 DEF vars
<1>13. QED
  BY <1>1, <1>2, <1>3, <1>4, <1>5, <1>6, <1>7, <1>8, <1>9, <1>10, <1>11, <1>12
     DEF Next, main

LEMMA AttestInvariant == Spec => []AttestInv
BY InitAttest, NextAttest, TypeInvariant, PTL DEF Spec

(* An enclave receives the secret only if the service provider supports    *)
(* the platform's group and found that enclave's quote good.               *)
THEOREM SecretsOnlyAttested == Spec => []SecretNeedsAttestation
<1>1. AttestInv => SecretNeedsAttestation
  BY DEF AttestInv
<1>2. QED
  BY <1>1, AttestInvariant, PTL

(* main() does not return 0 unless the last session was attested.          *)
THEOREM ExitZeroAttested == Spec => []ZeroMeansAttested
<1>1. AttestInv => ZeroMeansAttested
  BY DEF AttestInv, Attested, Peer, ZeroMeansAttested
<1>2. QED
  BY <1>1, AttestInvariant, PTL

-----------------------------------------------------------------------------
(* Cleaning up.  An enclave that runs is the current one, from its         *)
(* creation to the end of the round; as long as it has a key exchange      *)
(* context, main() knows of one, and closes it before the last step.       *)

CleanInv ==
  /\ \A e \in Enclave :
       Live(e) => /\ e = enclave_id
                  /\ pc \notin {"start", "msg0", "select", "create", "exit"}
                  /\ ra[e] # "none" => context
                  /\ pc = "destroy" => ra[e] \in {"none", "closed"}
  /\ \A e \in Enclave : enclave[e] = "none" => ra[e] = "none"

LEMMA InitClean == Init => CleanInv
BY DEF Init, CleanInv, Live

LEMMA NextClean == TypeInv /\ CleanInv /\ [Next]_vars => CleanInv'
<1> SUFFICES ASSUME TypeInv, CleanInv, [Next]_vars
             PROVE  CleanInv'
  OBVIOUS
<1> USE EnclaveFacts DEF TypeInv, TypeOK, CleanInv, Live, Goto, Fails, mainVars,
                         inputVars, enclaveVars, spVars
<1>1. CASE Start \/ Msg0 \/ SelectAttKeyId \/ InitRaLost
  BY <1>1 DEF Start, Msg0, SelectAttKeyId, InitRaLost
<1>2. CASE CreateEnclave
  BY <1>2 DEF CreateEnclave
<1>3. CASE InitRa
  BY <1>3 DEF InitRa
<1>4. CASE GetMsg1 \/ ProcMsg2
  BY <1>4 DEF GetMsg1, ProcMsg2, InContext
<1>5. CASE GetMsg1Busy \/ Sleep \/ ProcMsg2Busy
  BY <1>5 DEF GetMsg1Busy, Sleep, ProcMsg2Busy
<1>6. CASE Msg1 \/ Msg1Fails \/ Msg3 \/ VerifyMac \/ PutSecret
  BY <1>6 DEF Msg1, Msg1Fails, Msg3, VerifyMac, PutSecret
<1>7. CASE CloseContext
  BY <1>7 DEF CloseContext
<1>8. CASE NoContext
  BY <1>8 DEF NoContext
<1>9. CASE DestroyEnclave
  BY <1>9 DEF DestroyEnclave
<1>10. ASSUME NEW e \in Enclave, PowerTransition(e)
       PROVE  CleanInv'
  BY <1>10 DEF PowerTransition
<1>11. CASE UNCHANGED vars
  BY <1>11 DEF vars
<1>12. QED
  BY <1>1, <1>2, <1>3, <1>4, <1>5, <1>6, <1>7, <1>8, <1>9, <1>10, <1>11 DEF Next, main

LEMMA CleanInvariant == Spec => []CleanInv
BY InitClean, NextClean, TypeInvariant, PTL DEF Spec

(* No round leaves an enclave running, and no two enclaves ever run.       *)
THEOREM NoEnclaveLeftRunning == Spec => []NoEnclaveLeft
<1>1. CleanInv => NoEnclaveLeft
  BY DEF CleanInv, NoEnclaveLeft
<1>2. QED
  BY <1>1, CleanInvariant, PTL

(* On every path the key exchange context of an enclave that runs is       *)
(* closed before the enclave is destroyed.                                 *)
THEOREM KeyStatesClosed == Spec => KeyStateClosed
<1> DEFINE Closed == \A e \in Enclave :
             Live(e) /\ enclave'[e] = "destroyed" => ra[e] \in {"none", "closed"}
<1>1. TypeInv /\ CleanInv /\ [Next]_vars => [Closed]_vars
  <2> SUFFICES ASSUME TypeInv, CleanInv, Next, NEW e \in Enclave,
                      Live(e), enclave'[e] = "destroyed"
               PROVE  ra[e] \in {"none", "closed"}
    OBVIOUS
  <2>1. enclave[e] = "live"
    BY DEF Live
  <2>2. ASSUME NEW f \in Enclave, PowerTransition(f)
        PROVE  FALSE
    BY <2>1, <2>2 DEF PowerTransition, TypeInv, TypeOK
  <2>3. pc = "destroy"
    <3>1. ASSUME ~DestroyEnclave, main
          PROVE  FALSE
      BY <2>1, <3>1 DEF main, Start, Msg0, SelectAttKeyId, CreateEnclave, InitRa,
         InitRaLost, GetMsg1, GetMsg1Busy, Sleep, Msg1, Msg1Fails, ProcMsg2,
         ProcMsg2Busy, Msg3, VerifyMac, PutSecret, CloseContext, NoContext,
         enclaveVars, TypeInv, TypeOK
    <3>2. QED
      BY <2>2, <3>1 DEF Next, DestroyEnclave
  <2>4. QED
    BY <2>3 DEF CleanInv
<1>2. QED
  BY <1>1, TypeInvariant, CleanInvariant, PTL DEF Spec, KeyStateClosed

-----------------------------------------------------------------------------
(* The refinement.  From its creation on the enclave of the round is named *)
(* by enclave_id, so that there is a session to attest; what enclave_id    *)
(* names was created.                                                      *)

InRound == pc \in {"init", "msg1", "sleep", "send1", "msg2", "send3", "mac", "secret"}

SessionInv ==
  /\ InRound => enclave_id # NoEnclave
  /\ \A e \in Enclave : e = enclave_id => enclave[e] # "none"

LEMMA InitSession == Init => SessionInv
BY EnclaveFacts DEF Init, SessionInv, InRound

LEMMA NextSession == TypeInv /\ SessionInv /\ [Next]_vars => SessionInv'
<1> SUFFICES ASSUME TypeInv, SessionInv, [Next]_vars
             PROVE  SessionInv'
  OBVIOUS
<1> USE DEF TypeInv, TypeOK, SessionInv, InRound, Goto, Fails, mainVars, enclaveVars
<1>1. CASE CreateEnclave
  BY <1>1, EnclaveFacts DEF CreateEnclave
<1>2. CASE DestroyEnclave
  BY <1>2 DEF DestroyEnclave
<1>3. ASSUME main, ~CreateEnclave, ~DestroyEnclave
      PROVE  SessionInv'
  <2>1. UNCHANGED <<enclave, enclave_id>>
    BY <1>3 DEF main, Start, Msg0, SelectAttKeyId, InitRa, InitRaLost, GetMsg1,
       GetMsg1Busy, Sleep, Msg1, Msg1Fails, ProcMsg2, ProcMsg2Busy, Msg3, VerifyMac,
       PutSecret, CloseContext, NoContext
  <2>2. InRound' => InRound
    BY <1>3 DEF main, Start, Msg0, SelectAttKeyId, InitRa, InitRaLost, GetMsg1,
       GetMsg1Busy, Sleep, Msg1, Msg1Fails, ProcMsg2, ProcMsg2Busy, Msg3, VerifyMac,
       PutSecret, CloseContext, NoContext
  <2>3. QED
    BY <2>1, <2>2
<1>4. CASE (\E e \in Enclave : PowerTransition(e)) \/ UNCHANGED vars
  BY <1>4 DEF PowerTransition, vars
<1>5. QED
  BY <1>1, <1>2, <1>3, <1>4 DEF Next

LEMMA SessionInvariant == Spec => []SessionInv
BY InitSession, NextSession, TypeInvariant, PTL DEF Spec

Started == {e \in Enclave : enclave[e] # "none"}
Running == {e \in Enclave : enclave[e] = "live"}
Holders == {e \in Enclave : secret[e]}

mapped == <<Peer, Started, Running, verified, Holders, Outcome>>

LEMMA InitRefines == Init => Abstract!Init
BY DEF Init, Abstract!Init, Peer, Outcome

LEMMA NextRefines ==
  TypeInv /\ AttestInv /\ CleanInv /\ SessionInv /\ [Next]_vars
    => [Abstract!Next]_Abstract!vars
<1> SUFFICES ASSUME TypeInv, AttestInv, CleanInv, SessionInv, [Next]_vars
             PROVE  [Abstract!Next]_Abstract!vars
  OBVIOUS
<1>0. /\ Abstract!vars = mapped
      /\ Abstract!vars' = mapped'
  BY DEF Abstract!vars, mapped, Started, Running, Holders
<1>a. NoEnclave \notin Enclave /\ Sample \notin Enclave /\ Sample # NoEnclave
  BY EnclaveFacts DEF Sample, NoEnclave
(* The steps of a round that say nothing to the client's environment.      *)
<1>1. ASSUME Start \/ Msg0 \/ SelectAttKeyId \/ InitRa \/ InitRaLost \/ GetMsg1
               \/ GetMsg1Busy \/ Sleep \/ Msg1 \/ Msg1Fails \/ ProcMsg2
               \/ ProcMsg2Busy \/ VerifyMac \/ CloseContext \/ NoContext,
             pc' # "exit"
      PROVE  UNCHANGED mapped
  <2>1. UNCHANGED <<enclave, secret, enclave_id, precomputed, verified>>
    BY <1>1 DEF Start, Msg0, SelectAttKeyId, InitRa, InitRaLost, GetMsg1,
       GetMsg1Busy, Sleep, Msg1, Msg1Fails, ProcMsg2, ProcMsg2Busy, VerifyMac,
       CloseContext, NoContext, inputVars, enclaveVars, spVars
  <2>2. pc # "exit"
    BY <1>1 DEF Start, Msg0, SelectAttKeyId, InitRa, InitRaLost, GetMsg1,
       GetMsg1Busy, Sleep, Msg1, Msg1Fails, ProcMsg2, ProcMsg2Busy, VerifyMac,
       CloseContext, NoContext
  <2>3. QED
    BY <1>1, <2>1, <2>2 DEF mapped, Peer, Started, Running, Holders, Outcome
<1>2. ASSUME Start, pc' = "exit"
      PROVE  Abstract!End("failure")
  <2>1. UNCHANGED <<enclave, secret, enclave_id, precomputed, verified>>
    BY <1>2 DEF Start, inputVars, enclaveVars, spVars
  <2>2. pc = "start" /\ ret' = -1
    BY <1>2 DEF Start, Goto, Fails
  <2>3. \A e \in Enclave : enclave[e] # "live"
    BY <2>2, <1>a DEF CleanInv, Live
  <2>4. Peer' = Peer /\ Outcome = "none" /\ Outcome' = "failure"
    BY <1>2, <2>1, <2>2 DEF Peer, Outcome
  <2>5. QED
    BY <2>1, <2>3, <2>4 DEF Abstract!End
<1>3. CASE CreateEnclave
  <2>1. CASE UNCHANGED <<enclave, enclave_id>>
    <3>1. UNCHANGED <<secret, precomputed, verified>> /\ Outcome = "none" /\ Outcome' = "none"
      BY <1>3, EnclaveFacts DEF CreateEnclave, inputVars, spVars, Goto, Fails, Outcome
    <3>2. UNCHANGED mapped
      BY <2>1, <3>1 DEF mapped, Peer, Started, Running, Holders
    <3>3. QED
      BY <1>0, <3>2
  <2>2. ASSUME NEW e \in Enclave, enclave[e] = "none", enclave_id' = e,
               enclave' = [enclave EXCEPT ![e] = "live"]
        PROVE  Abstract!Begin(e)
    <3>1. /\ UNCHANGED <<secret, precomputed, verified>>
          /\ Outcome = "none" /\ Outcome' = "none" /\ pc = "create"
      BY <1>3 DEF CreateEnclave, inputVars, spVars, Goto, Fails, Outcome
    <3>2. \A f \in Enclave : enclave[f] # "live"
      BY <3>1, <1>a DEF CleanInv, Live
    <3>3. {f \in Enclave : enclave'[f] # "none"} = {f \in Enclave : enclave[f] # "none"} \cup {e}
      BY <2>2 DEF TypeInv, TypeOK
    <3>4. {f \in Enclave : enclave'[f] = "live"} = {e}
      BY <2>2, <3>2 DEF TypeInv, TypeOK
    <3>5. Peer' = IF Peer = Sample THEN Sample ELSE e
      <4>1. enclave_id # Sample
        BY <1>a DEF TypeInv, TypeOK
      <4>2. QED
        BY <2>2, <3>1, <4>1 DEF Peer
    <3>6. QED
      BY <2>2, <3>1, <3>2, <3>3, <3>4, <3>5 DEF Abstract!Begin
  <2>3. QED
    BY <1>3, <2>1, <2>2 DEF CreateEnclave, Abstract!Next
<1>4. CASE Msg3
  <2>1. /\ UNCHANGED <<enclave, secret, enclave_id, precomputed>>
        /\ Outcome = "none" /\ Outcome' = "none" /\ pc = "send3"
    BY <1>4 DEF Msg3, inputVars, enclaveVars, Goto, Fails, Outcome
  <2>2. Peer' = Peer /\ Peer # NoEnclave
    BY <2>1, <1>a DEF Peer, SessionInv, InRound
  <2>3. CASE verified' = verified \cup {Peer}
    <3>1. Abstract!Attest
      BY <2>1, <2>2, <2>3 DEF Abstract!Attest
    <3>2. QED
      BY <3>1 DEF Abstract!Next
  <2>4. CASE verified' = verified
    <3>1. UNCHANGED mapped
      BY <2>1, <2>2, <2>4 DEF mapped, Started, Running, Holders
    <3>2. QED
      BY <1>0, <3>1
  <2>5. QED
    BY <1>4, <2>3, <2>4 DEF Msg3
<1>5. CASE PutSecret
  <2>1. /\ UNCHANGED <<enclave, enclave_id, precomputed, verified>>
        /\ Outcome = "none" /\ Outcome' = "none" /\ pc = "secret"
    BY <1>5 DEF PutSecret, inputVars, spVars, Goto, Outcome
  <2>2. Peer' = Peer /\ Peer = enclave_id /\ Peer \in verified
    BY <2>1 DEF Peer, AttestInv, Attested
  <2>3. CASE secret' = secret
    <3>1. UNCHANGED mapped
      BY <2>1, <2>2, <2>3 DEF mapped, Started, Running, Holders
    <3>2. QED
      BY <1>0, <3>1
  <2>4. CASE InContext("keys") /\ secret' = [secret EXCEPT ![enclave_id] = TRUE]
    <3>1. enclave_id \in Enclave /\ enclave[enclave_id] = "live"
      BY <2>4 DEF InContext, Live, TypeInv, TypeOK
    <3>2. {e \in Enclave : secret'[e]} = {e \in Enclave : secret[e]} \cup {enclave_id}
      BY <2>4, <3>1 DEF TypeInv, TypeOK
    <3>3. Abstract!Release
      BY <2>1, <2>2, <3>1, <3>2 DEF Abstract!Release
    <3>4. QED
      BY <3>3 DEF Abstract!Next
  <2>5. QED
    BY <1>5, <2>3, <2>4 DEF PutSecret
<1>6. CASE DestroyEnclave
  <2>1. /\ UNCHANGED <<secret, enclave_id, precomputed, verified>>
        /\ pc = "destroy" /\ ret' = ret
        /\ enclave' = [e \in Enclave |-> IF e = enclave_id THEN "destroyed" ELSE enclave[e]]
    BY <1>6 DEF DestroyEnclave, inputVars, spVars, Goto
  <2>2. Peer' = Peer /\ Outcome = "none"
    BY <2>1 DEF Peer, Outcome
  <2>3. {e \in Enclave : enclave'[e] = "live"} = {}
    BY <2>1, <1>a DEF CleanInv, Live
  <2>4. {e \in Enclave : enclave'[e] # "none"} = {e \in Enclave : enclave[e] # "none"}
    BY <2>1 DEF SessionInv
  <2>5. CASE pc' # "exit"
    <3>1. Outcome' = "none"
      BY <2>5 DEF Outcome
    <3>2. Abstract!Stop
      BY <2>1, <2>2, <2>3, <2>4, <3>1 DEF Abstract!Stop
    <3>3. QED
      BY <3>2 DEF Abstract!Next
  <2>6. CASE pc' = "exit"
    <3>1. Outcome' \in {"success", "failure"} /\ (Outcome' = "success" => ret = 0)
      BY <2>1, <2>6 DEF Outcome
    <3>2. ret = 0 => Peer \in verified
      BY <2>1 DEF AttestInv, Attested
    <3>3. PICK o \in {"success", "failure"} : o = Outcome'
      BY <3>1
    <3>4. Abstract!End(o)
      BY <2>1, <2>2, <2>3, <2>4, <3>1, <3>2, <3>3 DEF Abstract!End
    <3>5. QED
      BY <3>4 DEF Abstract!Next
  <2>7. QED
    BY <2>5, <2>6
<1>7. ASSUME NEW e \in Enclave, PowerTransition(e)
      PROVE  Abstract!Stop
  <2>1. /\ UNCHANGED <<secret, enclave_id, precomputed, verified, pc, ret>>
        /\ enclave' = [enclave EXCEPT ![e] = "lost"] /\ enclave[e] = "live"
    BY <1>7 DEF PowerTransition, mainVars, inputVars, spVars
  <2>2. e = enclave_id /\ pc # "exit"
    BY <2>1, <1>a DEF CleanInv, Live
  <2>3. {f \in Enclave : enclave'[f] = "live"} = {}
    BY <2>1, <2>2, <1>a DEF CleanInv, Live, TypeInv, TypeOK
  <2>4. {f \in Enclave : enclave'[f] # "none"} = {f \in Enclave : enclave[f] # "none"}
    BY <2>1 DEF TypeInv, TypeOK
  <2>5. Peer' = Peer /\ Outcome = "none" /\ Outcome' = "none"
    BY <2>1, <2>2 DEF Peer, Outcome
  <2>6. QED
    BY <2>1, <2>3, <2>4, <2>5 DEF Abstract!Stop
<1>8. CASE UNCHANGED vars
  <2>1. UNCHANGED mapped
    BY <1>8 DEF vars, mainVars, inputVars, enclaveVars, spVars, mapped, Peer, Started,
                Running, Holders, Outcome
  <2>2. QED
    BY <1>0, <2>1
<1>9. ASSUME main
      PROVE  [Abstract!Next]_Abstract!vars
  <2>1. CASE Start /\ pc' = "exit"
    BY <1>2, <2>1 DEF Abstract!Next
  <2>2. CASE CreateEnclave \/ Msg3 \/ PutSecret \/ DestroyEnclave
    BY <1>3, <1>4, <1>5, <1>6, <2>2
  <2>3. CASE \/ Start /\ pc' # "exit"
             \/ Msg0 \/ SelectAttKeyId \/ InitRa \/ InitRaLost \/ GetMsg1 \/ GetMsg1Busy
             \/ Sleep \/ Msg1 \/ Msg1Fails \/ ProcMsg2 \/ ProcMsg2Busy \/ VerifyMac
             \/ CloseContext \/ NoContext
    <3>1. pc' # "exit"
      BY <2>3 DEF Msg0, SelectAttKeyId, InitRa, InitRaLost, GetMsg1, GetMsg1Busy,
         Sleep, Msg1, Msg1Fails, ProcMsg2, ProcMsg2Busy, VerifyMac, CloseContext,
         NoContext, Goto, Fails
    <3>2. QED
      BY <1>0, <1>1, <2>3, <3>1
  <2>4. QED
    BY <1>9, <2>1, <2>2, <2>3 DEF main
<1>10. ASSUME NEW e \in Enclave, PowerTransition(e)
       PROVE  [Abstract!Next]_Abstract!vars
  BY <1>7, <1>10 DEF Abstract!Next
<1>11. QED
  BY <1>8, <1>9, <1>10 DEF Next

(* isv_app and the service provider release the secret as SecretRelease    *)
(* demands, for any number of power transitions.                           *)
THEOREM Refinement == Spec => ImplementsSecretRelease
BY InitRefines, NextRefines, TypeInvariant, AttestInvariant, CleanInvariant,
   SessionInvariant, PTL DEF Spec, Abstract!Spec, ImplementsSecretRelease
=============================================================================
