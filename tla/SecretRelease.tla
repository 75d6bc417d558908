---------------------------- MODULE SecretRelease ----------------------------
(***************************************************************************)
(* What remote attestation is for (isv_app.cpp, service_provider.cpp): a   *)
(* client runs one enclave at a time, and the secret is released to the    *)
(* enclave of the current session, while it runs, once the session is      *)
(* attested.  Nothing an earlier session was attested for is of use to a   *)
(* later one.  When the client ends it leaves no enclave running, and it   *)
(* reports success only if its last session was attested.                  *)
(*                                                                         *)
(* A client with precomputed messages is in one session, Sample, that has  *)
(* no enclave.                                                             *)
(***************************************************************************)
CONSTANTS Enclave, Sample, NoSession

VARIABLES
  session,  \* the current session: an enclave, or Sample
  started,  \* the enclaves that have been started
  running,  \* those that run
  attested, \* the sessions that were attested
  holders,  \* the enclaves that have received the secret
  outcome   \* "none" until the client has ended

vars == <<session, started, running, attested, holders, outcome>>

Init ==
  /\ session \in {NoSession, Sample}
  /\ started = {} /\ running = {} /\ attested = {} /\ holders = {}
  /\ outcome = "none"

(* An enclave that never ran before is started, alone.                     *)
Begin(e) ==
  /\ outcome = "none" /\ running = {} /\ e \notin started
  /\ started' = started \cup {e} /\ running' = {e}
  /\ session' = IF session = Sample THEN Sample ELSE e
  /\ UNCHANGED <<attested, holders, outcome>>

Attest ==
  /\ outcome = "none" /\ session # NoSession
  /\ attested' = attested \cup {session}
  /\ UNCHANGED <<session, started, running, holders, outcome>>

Release ==
  /\ outcome = "none" /\ session \in running /\ session \in attested
  /\ holders' = holders \cup {session}
  /\ UNCHANGED <<session, started, running, attested, outcome>>

(* An enclave is destroyed, or lost.                                       *)
Stop ==
  /\ outcome = "none"
  /\ running' = {}
  /\ UNCHANGED <<session, started, attested, holders, outcome>>

End(o) ==
  /\ outcome = "none"
  /\ o = "success" => session \in attested
  /\ outcome' = o /\ running' = {}
  /\ UNCHANGED <<session, started, attested, holders>>

Next ==
  \/ \E e \in Enclave : Begin(e)
  \/ Attest \/ Release \/ Stop
  \/ \E o \in {"success", "failure"} : End(o)

Spec == Init /\ [][Next]_vars
=============================================================================
