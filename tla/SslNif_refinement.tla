-------------------------- MODULE SslNif_refinement --------------------------
(***************************************************************************)
(* SslNif on a BEAM with one scheduler thread implements KeyService, for   *)
(* any number of calls, key generations and loads, with SGX and without,   *)
(* while the heap is not short of memory.  (With two schedulers it does    *)
(* not: a signature may meet a key that is half generated.)  From the same *)
(* invariant it follows that the return code 0 means that there is a key.  *)
(***************************************************************************)
EXTENDS SslNif_proofs

(* There is at most one scheduler thread.                                  *)
OneScheduler == \A s, t \in Thread : s = t

-----------------------------------------------------------------------------
(* The inductive invariant.                                                *)

(* From RSA_new on, and until a = 0, keypair is not yet the key pair of    *)
(* the service.                                                            *)
Making == {"gen", "generating", "evp", "assign", "finish"}

(* Both globals are NULL, or they are the two halves of one key.           *)
KeyComplete ==
  \/ keypair = NULL /\ evp_pkey = NULL
  \/ /\ keypair \in 1 .. rsas
     /\ rsa[keypair] = "ready"
     /\ evp_pkey # NULL /\ holds[evp_pkey] = keypair

KeyInv ==
  /\ (\A t \in Thread : at[t] \notin Making) => KeyComplete
  /\ evp_pkey <= evps
  /\ \A e \in Object : e > evps => holds[e] = NULL

(* Nothing has failed before the ecall returns ...                         *)
Clean(t) ==
  /\ at[t] \notin {"idle", "return"} => status[t] = 0 /\ out[t] = "ok"
  /\ at[t] \in Making \cup {"new"} => reg[t] = 0

(* ... and what a thread has read of the globals is still what they hold.  *)
Counts(t) ==
  /\ at[t] \in {"read", "write"} => fn[t] \in {"increment", "return"}
  /\ at[t] = "write" => fn[t] = "increment" /\ reg[t] = a

Uses(t) ==
  /\ at[t] \in {"pick", "use"} => fn[t] \in {"sign", "encrypt", "get_pubkey"}
  /\ at[t] = "use" => ptr[t] = IF fn[t] = "get_pubkey" THEN evp_pkey ELSE keypair

(* How far a key generation is with its two objects.                       *)
Makes(t) ==
  /\ at[t] \in {"ecall", "init", "new"} => before[t] = keypair
  /\ at[t] \in Making => keypair = rsas /\ ptr[t] = keypair /\ keypair # NULL
  /\ at[t] \in {"gen", "generating"} => rsa[keypair] = "partial"
  /\ at[t] \in {"evp", "assign", "finish"} => rsa[keypair] = "ready"
  /\ at[t] \in {"assign", "finish"} => evp_pkey # NULL
  /\ at[t] = "assign" => holds[evp_pkey] = NULL
  /\ at[t] = "finish" => holds[evp_pkey] = keypair

ThreadInv(t) == Clean(t) /\ Counts(t) /\ Uses(t) /\ Makes(t)

SoloInv == KeyInv /\ \A t \in Thread : ThreadInv(t)

LEMMA InitSolo == Init => SoloInv
BY DEF Init, NULL, SoloInv, ThreadInv, KeyInv, KeyComplete, Clean, Counts, Uses, Makes, Making

(* The only thread stands at a place that is no part of a key generation.  *)
LEMMA CompleteUnless ==
  ASSUME OneScheduler, SoloInv, NEW t \in Thread, at[t] \notin Making
  PROVE  KeyComplete
BY DEF OneScheduler, SoloInv, KeyInv

LEMMA NextSolo ==
  ASSUME OneScheduler
  PROVE  TypeInv /\ ~Short /\ SoloInv /\ [Next]_vars => SoloInv'
<1> SUFFICES ASSUME TypeInv, ~Short, SoloInv, [Next]_vars
             PROVE  SoloInv'
  OBVIOUS
<1> USE DEF Making, KeyComplete, KeyInv, Clean, Counts, Uses, Makes, ThreadInv, SoloInv,
            Runs, GoesOn, Fails
<1>0. /\ TypeOK /\ NULL = 0 /\ keypair \in Nat /\ evp_pkey \in Nat
      /\ rsas \in Nat /\ evps \in Nat
  BY PointerType DEF TypeInv, TypeOK, NULL
<1>1. CASE Load \/ (Upgrade /\ SGX)
  <2>1. /\ keypair' = NULL /\ evp_pkey' = NULL
        /\ UNCHANGED <<rsa, holds, rsas, evps, at, localVars, callVars>>
        /\ \A t \in Thread : at[t] = "idle"
    BY <1>1 DEF Load, Upgrade, Fresh, Blocked
  <2>2. QED
    BY <1>0, <2>1 DEF localVars, callVars
<1>2. CASE (Upgrade /\ ~SGX) \/ Delete \/ Purge \/ PowerTransition \/ UNCHANGED vars
  <2>1. UNCHANGED <<keyVars, a, at, localVars, callVars>>
    BY <1>2 DEF Upgrade, Delete, Purge, PowerTransition, vars
  <2>2. QED
    BY <2>1 DEF keyVars, localVars, callVars
<1>3. ASSUME NEW t \in Thread, Abort(t) \/ Crash(t) \/ ReturnAborts(t)
      PROVE  SoloInv'
  <2>1. UNCHANGED <<keyVars, a, at, localVars, callVars>>
    BY <1>3 DEF Abort, Crash, ReturnAborts
  <2>2. QED
    BY <2>1 DEF keyVars, localVars, callVars
<1>4. ASSUME NEW t \in Thread, NEW f \in Fn, Call(t, f)
      PROVE  SoloInv'
  <2>1. KeyComplete
    BY <1>4, CompleteUnless DEF Call
  <2>2. KeyInv'
    BY <1>4, <2>1 DEF Call, keyVars
  <2>3. ThreadInv(t)'
    BY <1>0, <1>4 DEF Call, keyVars, TypeOK
  <2>4. QED
    BY <2>2, <2>3 DEF OneScheduler
<1>5. ASSUME NEW t \in Thread, Enter(t)
      PROVE  SoloInv'
  <2>1. KeyComplete
    BY <1>5, CompleteUnless DEF Enter
  <2>2. KeyInv'
    BY <1>5, <2>1 DEF Enter, keyVars
  <2>3. ThreadInv(t)'
    BY <1>0, <1>5 DEF Enter, Entry, Fn, keyVars, localVars, callVars, TypeOK
  <2>4. QED
    BY <2>2, <2>3 DEF OneScheduler
<1>6. ASSUME NEW t \in Thread, ReadA(t) \/ WriteA(t) \/ Return(t)
      PROVE  SoloInv'
  <2>1. KeyComplete
    BY <1>6, CompleteUnless DEF ReadA, WriteA, Return
  <2>2. KeyInv'
    BY <1>6, <2>1 DEF ReadA, WriteA, Return, keyVars
  <2>3. ThreadInv(t)'
    BY <1>0, <1>6 DEF ReadA, WriteA, Return, keyVars, localVars, callVars, TypeOK
  <2>4. QED
    BY <2>2, <2>3 DEF OneScheduler
<1>7. ASSUME NEW t \in Thread, InitCrypto(t)
      PROVE  SoloInv'
  <2>1. KeyComplete
    BY <1>7, CompleteUnless DEF InitCrypto
  <2>2. KeyInv'
    BY <1>7, <2>1 DEF InitCrypto, keyVars
  <2>3. status' = [status EXCEPT ![t] = 0] /\ reg' = [reg EXCEPT ![t] = 0]
    BY <1>7 DEF InitCrypto
  <2>4. ThreadInv(t)'
    BY <1>0, <1>7, <2>3 DEF InitCrypto, keyVars, callVars, TypeOK
  <2>5. QED
    BY <2>2, <2>4 DEF OneScheduler
<1>8. ASSUME NEW t \in Thread, RsaNew(t)
      PROVE  SoloInv'
  <2>1. rsas + 1 \in Object
    BY <1>8, RsaThere DEF RsaNew
  <2>2. /\ at' = [at EXCEPT ![t] = "gen"]
        /\ rsas' = rsas + 1 /\ keypair' = rsas + 1
        /\ rsa' = [rsa EXCEPT ![rsas + 1] = "partial"]
        /\ ptr' = [ptr EXCEPT ![t] = rsas + 1]
    BY <1>8 DEF RsaNew
  <2>3. KeyInv'
    BY <1>0, <1>8, <2>2 DEF RsaNew, TypeOK
  <2>4. ThreadInv(t)'
    BY <1>0, <1>8, <2>1, <2>2 DEF RsaNew, callVars, TypeOK
  <2>5. QED
    BY <2>3, <2>4 DEF OneScheduler
<1>9. ASSUME NEW t \in Thread, GenBegin(t)
      PROVE  SoloInv'
  <2>1. ptr[t] = keypair /\ keypair \in Object /\ rsa[keypair] = "partial"
    BY <1>0, <1>9 DEF GenBegin, TypeOK, Pointer
  <2>2. \A s \in Thread : at[s] # "generating"
    BY <1>9 DEF GenBegin, OneScheduler
  <2>3. ptr' = ptr /\ rsa' = rsa
    BY <1>0, <1>9, <2>1, <2>2 DEF GenBegin, TypeOK
  <2>4. at' = [at EXCEPT ![t] = "generating"]
    BY <1>9 DEF GenBegin
  <2>5. KeyInv'
    BY <1>0, <1>9, <2>4 DEF GenBegin, TypeOK
  <2>6. ThreadInv(t)'
    BY <1>0, <1>9, <2>3, <2>4 DEF GenBegin, callVars, TypeOK
  <2>7. QED
    BY <2>5, <2>6 DEF OneScheduler
<1>10. ASSUME NEW t \in Thread, GenEnd(t)
       PROVE  SoloInv'
  <2>1. keypair \in Object
    BY <1>0, <1>10 DEF GenEnd, TypeOK, Pointer
  <2>2. /\ at' = [at EXCEPT ![t] = "evp"]
        /\ rsa' = [rsa EXCEPT ![keypair] = "ready"]
    BY <1>10 DEF GenEnd
  <2>3. KeyInv'
    BY <1>0, <1>10, <2>2 DEF GenEnd, TypeOK
  <2>4. ThreadInv(t)'
    BY <1>0, <1>10, <2>1, <2>2 DEF GenEnd, localVars, callVars, TypeOK
  <2>5. QED
    BY <2>3, <2>4 DEF OneScheduler
<1>11. ASSUME NEW t \in Thread, EvpNew(t)
       PROVE  SoloInv'
  <2>1. evps + 1 \in Object
    BY <1>11, EvpThere DEF EvpNew
  <2>2. /\ at' = [at EXCEPT ![t] = "assign"]
        /\ evps' = evps + 1 /\ evp_pkey' = evps + 1
    BY <1>11 DEF EvpNew
  <2>3. holds[evps + 1] = NULL
    BY <1>0, <2>1
  <2>4. KeyInv'
    <3>1. \A e \in Object : e > evps + 1 => e > evps
      BY <1>0 DEF Object
    <3>2. QED
      BY <1>0, <1>11, <2>2, <3>1 DEF EvpNew, TypeOK
  <2>5. ThreadInv(t)'
    BY <1>0, <1>11, <2>2, <2>3 DEF EvpNew, localVars, callVars, TypeOK
  <2>6. QED
    BY <2>4, <2>5 DEF OneScheduler
<1>12. ASSUME NEW t \in Thread, AssignRsa(t)
       PROVE  SoloInv'
  <2>1. evp_pkey # NULL /\ evp_pkey \in Object /\ holds[evp_pkey] = NULL
    BY <1>12 DEF AssignRsa, TypeInv, TypeOK, Pointer
  <2>2. holds' = [holds EXCEPT ![evp_pkey] = keypair]
    BY <1>12, <2>1 DEF AssignRsa
  <2>3. rsa' = rsa
    <3>1. rsa' = [k \in Object |-> IF k = NULL THEN "freed" ELSE rsa[k]]
      BY <1>12, <2>1 DEF AssignRsa
    <3>2. \A k \in Object : k # NULL
      BY <1>0 DEF Object
    <3>3. rsa = [k \in Object |-> rsa[k]]
      BY <1>0 DEF TypeOK
    <3>4. QED
      BY <3>1, <3>2, <3>3
  <2>4. at' = [at EXCEPT ![t] = "finish"]
    BY <1>12 DEF AssignRsa
  <2>5. KeyInv'
    BY <1>0, <1>12, <2>1, <2>2, <2>4 DEF AssignRsa, TypeOK
  <2>6. ThreadInv(t)'
    BY <1>0, <1>12, <2>1, <2>2, <2>3, <2>4 DEF AssignRsa, localVars, callVars, TypeOK
  <2>7. QED
    BY <2>5, <2>6 DEF OneScheduler
<1>13. ASSUME NEW t \in Thread, FinishKeyGen(t)
       PROVE  SoloInv'
  <2>1. rsa' = rsa /\ at' = [at EXCEPT ![t] = "return"]
    BY <1>13 DEF FinishKeyGen, PkeyPtr
  <2>2. keypair \in 1 .. rsas
    BY <1>0, <1>13 DEF FinishKeyGen
  <2>3. KeyInv'
    BY <1>0, <1>13, <2>1, <2>2 DEF FinishKeyGen, TypeOK
  <2>4. ThreadInv(t)'
    BY <1>0, <1>13, <2>1 DEF FinishKeyGen, localVars, callVars, TypeOK
  <2>5. QED
    BY <2>3, <2>4 DEF OneScheduler
<1>14. ASSUME NEW t \in Thread, PickKey(t)
       PROVE  SoloInv'
  <2>1. KeyComplete
    BY <1>14, CompleteUnless DEF PickKey
  <2>2. KeyInv'
    BY <1>14, <2>1 DEF PickKey, keyVars
  <2>3. ThreadInv(t)'
    <3>1. CASE fn[t] = "get_pubkey" /\ evp_pkey = NULL
      BY <1>0, <1>14, <3>1 DEF PickKey, keyVars, callVars, TypeOK
    <3>2. CASE fn[t] = "get_pubkey" /\ evp_pkey # NULL
      BY <1>0, <1>14, <3>2 DEF PickKey, keyVars, callVars, TypeOK
    <3>3. CASE fn[t] # "get_pubkey"
      BY <1>0, <1>14, <3>3 DEF PickKey, keyVars, callVars, TypeOK
    <3>4. QED
      BY <3>1, <3>2, <3>3
  <2>4. QED
    BY <2>2, <2>3 DEF OneScheduler
<1>15. ASSUME NEW t \in Thread, UseKey(t)
       PROVE  SoloInv'
  <2>1. KeyComplete
    BY <1>15, CompleteUnless DEF UseKey
  <2>2. at' = [at EXCEPT ![t] = "return"] /\ UNCHANGED <<keyVars, a, fn, before>>
    BY <1>15 DEF UseKey, callVars
  <2>3. KeyInv'
    BY <2>1, <2>2 DEF keyVars
  <2>4. ThreadInv(t)'
    BY <1>0, <2>2 DEF TypeOK
  <2>5. QED
    BY <2>3, <2>4 DEF OneScheduler
<1>16. QED
  BY <1>1, <1>2, <1>3, <1>4, <1>5, <1>6, <1>7, <1>8, <1>9, <1>10, <1>11, <1>12,
     <1>13, <1>14, <1>15 DEF Next, Step, KeyGen

-----------------------------------------------------------------------------
(* How far a call is, and the answer that is on its way.                   *)
CallAnswer(t) == IF CallPhase(t) = "applied" THEN Answer(t) ELSE NoAnswer

PhaseFacts(t) ==
  /\ at[t] = "idle" => CallPhase(t) = "idle"
  /\ at[t] # "idle" /\ beam = "aborted" => CallPhase(t) = "lost"
  /\ at[t] = "return" /\ beam = "up" => CallPhase(t) = "applied"
  /\ at[t] \notin {"idle", "return"} /\ beam = "up" => CallPhase(t) = "pending"

LEMMA CallPhases == \A t \in Thread : PhaseFacts(t)
BY DEF PhaseFacts, CallPhase

LEMMA CallPhasesNext == \A t \in Thread : PhaseFacts(t)'
<1>1. (\A t \in Thread : PhaseFacts(t))'
  BY CallPhases, PTL
<1>2. QED
  BY <1>1

(* What the service's key pairs are, with the only thread at its place.    *)
KeyFacts(t) ==
  /\ Generating(t) => CurrentKey = before[t]
  /\ ~Generating(t) => CurrentKey = keypair
  /\ at[t] \in Making => UsedKeys = 1 .. rsas - 1
  /\ at[t] \notin Making => UsedKeys = 1 .. rsas

LEMMA KeysOf == ASSUME OneScheduler PROVE \A t \in Thread : KeyFacts(t)
<1> SUFFICES ASSUME NEW t \in Thread
             PROVE  KeyFacts(t)
  OBVIOUS
<1>1. Generating(t) => (CHOOSE s \in Thread : Generating(s)) = t
  BY DEF OneScheduler
<1>2. ~Generating(t) => ~ \E s \in Thread : Generating(s)
  BY DEF OneScheduler
<1>3. QED
  BY <1>1, <1>2 DEF OneScheduler, KeyFacts, CurrentKey, UsedKeys, Making

LEMMA KeysOfNext == ASSUME OneScheduler PROVE \A t \in Thread : KeyFacts(t)'
<1>1. (\A t \in Thread : KeyFacts(t))'
  BY KeysOf, PTL
<1>2. QED
  BY <1>1

(* While nobody is in a NIF the pair is what the global holds.             *)
LEMMA KeysIdle ==
  ASSUME \A t \in Thread : at[t] = "idle"
  PROVE  CurrentKey = keypair /\ UsedKeys = 1 .. rsas
BY DEF CurrentKey, UsedKeys, Generating, Inside

Keeps(t) == CallPhase(t)' = CallPhase(t) /\ CallAnswer(t)' = CallAnswer(t)
KeepsKeys == CurrentKey' = CurrentKey /\ UsedKeys' = UsedKeys

(* A thread that stays where it is, or moves on before its call takes      *)
(* effect.                                                                 *)
LEMMA KeepsCall ==
  ASSUME NEW t \in Thread, beam' = beam, beam \in {"up", "aborted"},
         \/ UNCHANGED <<at[t], fn[t], reg[t], status[t], out[t]>>
         \/ {at[t], at'[t]} \cap {"idle", "return"} = {}
  PROVE  Keeps(t)
<1>1. PhaseFacts(t) /\ PhaseFacts(t)'
  BY CallPhases, CallPhasesNext
<1>2. QED
  BY <1>1 DEF PhaseFacts, Keeps, CallAnswer, Answer

(* A step at which the calls and the key pairs stay what they are.         *)
LEMMA StutterStep ==
  ASSUME \A t \in Thread : Keeps(t), KeepsKeys, UNCHANGED <<beam, a, fn, result>>
  PROVE  UNCHANGED Service!vars
BY DEF Keeps, KeepsKeys, CallAnswer, Service!vars

LEMMA KeysStay ==
  ASSUME UNCHANGED <<at, fn, before, keypair, rsas>>
  PROVE  KeepsKeys
BY DEF KeepsKeys, CurrentKey, UsedKeys, Generating, Inside

(* The only thread changes the phase of its call, and the answer that is   *)
(* on its way.                                                             *)
Moves(t, from, to, r) ==
  /\ CallPhase(t) = from /\ CallPhase(t)' = to
  /\ CallAnswer(t)' = r

LEMMA MovesTo ==
  ASSUME NEW t \in Thread, beam = "up", beam' = "up"
  PROVE  /\ at[t] = "idle" => CallPhase(t) = "idle"
         /\ at[t] \notin {"idle", "return"} => CallPhase(t) = "pending"
         /\ at'[t] = "ecall" => CallPhase(t)' = "pending" /\ CallAnswer(t)' = NoAnswer
         /\ at'[t] = "return" => CallPhase(t)' = "applied" /\ CallAnswer(t)' = Answer(t)'
<1>1. PhaseFacts(t) /\ PhaseFacts(t)'
  BY CallPhases, CallPhasesNext
<1>2. QED
  BY <1>1 DEF PhaseFacts, CallAnswer

LEMMA CallStep ==
  ASSUME OneScheduler, TypeInv, NEW t \in Thread, NEW f \in Fn, Call(t, f)
  PROVE  Service!Invoke(t, f)
<1>1. at[t] = "idle" /\ at'[t] = "ecall" /\ beam = "up" /\ beam' = "up"
  BY DEF Call, TypeInv, TypeOK, hostVars
<1>2. Moves(t, "idle", "pending", NoAnswer) /\ CallAnswer(t) = NoAnswer
  BY <1>1, MovesTo DEF Moves, CallAnswer
<1>3. KeepsKeys
  <2>1. KeyFacts(t) /\ KeyFacts(t)'
    BY KeysOf, KeysOfNext
  <2>2. QED
    BY <1>1, <2>1 DEF KeyFacts, KeepsKeys, Generating, Inside, Making, Call, keyVars
<1>4. UNCHANGED <<beam, a, result>> /\ fn' = [fn EXCEPT ![t] = f]
  BY DEF Call, hostVars
<1>5. QED
  BY <1>2, <1>3, <1>4 DEF Service!Invoke, Moves, OneScheduler, KeepsKeys, CallAnswer

(* A call takes effect with the answer r.                                  *)
LEMMA TakesEffect ==
  ASSUME OneScheduler, NEW t \in Thread, NEW r, beam = "up",
         at[t] \notin {"idle", "return"}, at'[t] = "return",
         Answer(t)' = r, UNCHANGED <<beam, fn, result>>
  PROVE  /\ CallPhase(t) = "pending"
         /\ [s \in Thread |-> CallPhase(s)]'
              = [[s \in Thread |-> CallPhase(s)] EXCEPT ![t] = "applied"]
         /\ [s \in Thread |-> CallAnswer(s)]'
              = [[s \in Thread |-> CallAnswer(s)] EXCEPT ![t] = r]
<1>1. Moves(t, "pending", "applied", r)
  BY MovesTo DEF Moves
<1>2. QED
  BY <1>1 DEF Moves, OneScheduler

(* ecall_increment and ecall_return_a.                                     *)
LEMMA NumberStep ==
  ASSUME OneScheduler, TypeInv, SoloInv, NEW t \in Thread,
         WriteA(t) \/ (ReadA(t) /\ fn[t] # "increment")
  PROVE  Service!Increment(t) \/ Service!ReturnVal(t)
<1>1. /\ beam = "up" /\ at[t] \in {"read", "write"} /\ at'[t] = "return"
      /\ status[t] = 0 /\ out[t] = "ok" /\ fn[t] \in {"increment", "return"}
      /\ UNCHANGED <<beam, fn, status, out, result, keyVars, before>>
  BY DEF WriteA, ReadA, Runs, TypeInv, TypeOK, SoloInv, ThreadInv, Clean, Counts,
         hostVars, callVars
<1>2. KeepsKeys
  <2>1. KeyFacts(t) /\ KeyFacts(t)'
    BY KeysOf, KeysOfNext
  <2>2. QED
    BY <1>1, <2>1 DEF KeyFacts, KeepsKeys, Generating, Making, keyVars
<1>3. CASE WriteA(t)
  <2>1. /\ fn[t] = "increment" /\ reg[t] = a
        /\ a' = Service!Succ32(a) /\ reg'[t] = 0
    BY <1>3 DEF WriteA, Runs, SoloInv, ThreadInv, Counts, TypeInv, TypeOK,
                Service!Succ32, Succ32, Service!IntMin, IntMin
  <2>2. Answer(t)' = Service!OK(0)
    BY <1>1, <2>1 DEF Answer, Service!OK
  <2>3. QED
    BY <1>1, <1>2, <2>1, <2>2, TakesEffect
       DEF Service!Increment, Service!Takes, KeepsKeys, CallAnswer
<1>4. CASE ReadA(t) /\ fn[t] # "increment"
  <2>1. fn[t] = "return" /\ a' = a /\ reg'[t] = a
    BY <1>1, <1>4 DEF ReadA, TypeInv, TypeOK
  <2>2. Answer(t)' = Service!OK(a)
    BY <1>1, <2>1 DEF Answer, Service!OK
  <2>3. QED
    BY <1>1, <1>2, <2>1, <2>2, TakesEffect
       DEF Service!ReturnVal, Service!Takes, KeepsKeys, CallAnswer
<1>5. QED
  BY <1>3, <1>4

(* a = 0: the key pair generated last is the service's from here on.       *)
LEMMA GenerateStep ==
  ASSUME OneScheduler, TypeInv, SoloInv, NEW t \in Thread, FinishKeyGen(t)
  PROVE  Service!Generate(t)
<1>1. /\ beam = "up" /\ at[t] = "finish" /\ at'[t] = "return" /\ fn[t] = "key_gen"
      /\ status[t] = 0 /\ out[t] = "ok" /\ reg[t] = 0 /\ a' = 0
      /\ UNCHANGED <<beam, fn, reg, status, out, result, keypair, rsas>>
  BY DEF FinishKeyGen, Runs, GoesOn, TypeInv, TypeOK, LocalOK, SoloInv, ThreadInv,
         Clean, Making, hostVars, localVars, callVars
<1>2. keypair = rsas /\ rsas \in Object
  BY <1>1 DEF SoloInv, ThreadInv, Makes, Making, TypeInv, TypeOK, Pointer
<1>3. CurrentKey' = rsas /\ UsedKeys = 1 .. rsas - 1 /\ UsedKeys' = 1 .. rsas
  <2>1. KeyFacts(t) /\ KeyFacts(t)'
    BY KeysOf, KeysOfNext
  <2>2. QED
    BY <1>1, <1>2, <2>1 DEF KeyFacts, Generating, Inside, Making
<1>4. CurrentKey' \in Object \ UsedKeys /\ UsedKeys' = UsedKeys \cup {CurrentKey'}
  BY <1>2, <1>3, LimitsAssumption DEF Object
<1>5. Answer(t)' = Service!OK(0)
  BY <1>1 DEF Answer, Service!OK
<1>6. QED
  BY <1>1, <1>4, <1>5, TakesEffect DEF Service!Generate, Service!Takes, CallAnswer

(* Signing, encrypting and the public key: with the pair there is.         *)
LEMMA UseStep ==
  ASSUME OneScheduler, TypeInv, SoloInv, NEW t \in Thread, UseKey(t)
  PROVE  Service!UseKey(t)
<1>1. /\ beam = "up" /\ at[t] = "use" /\ at'[t] = "return"
      /\ fn[t] \in {"sign", "encrypt", "get_pubkey"}
      /\ UNCHANGED <<beam, a, fn, result, keyVars, before>>
  BY DEF UseKey, Runs, GoesOn, TypeInv, TypeOK, SoloInv, ThreadInv, Uses,
         hostVars, callVars
<1>2. KeyComplete /\ ptr[t] = IF fn[t] = "get_pubkey" THEN evp_pkey ELSE keypair
  BY <1>1, CompleteUnless DEF SoloInv, ThreadInv, Uses, Making
<1>3. ptr[t] # NULL
  BY <1>1 DEF UseKey, TypeInv, LocalOK
<1>4. UsedKey(t) = keypair /\ keypair # NULL /\ rsa[keypair] = "ready"
  BY <1>2, <1>3, PointerType DEF KeyComplete, UsedKey, NULL, TypeInv, TypeOK
<1>5. reg'[t] = keypair /\ status'[t] = 0 /\ out'[t] = "ok"
  BY <1>4 DEF UseKey, TypeInv, TypeOK
<1>6. Answer(t)' = Service!OK(keypair)
  BY <1>5 DEF Answer, Service!OK
<1>7. CurrentKey = keypair /\ KeepsKeys
  <2>1. KeyFacts(t) /\ KeyFacts(t)'
    BY KeysOf, KeysOfNext
  <2>2. QED
    BY <1>1, <2>1 DEF KeyFacts, KeepsKeys, Generating, Making, keyVars
<1>8. QED
  BY <1>1, <1>4, <1>6, <1>7, TakesEffect
     DEF Service!UseKey, Service!Takes, KeepsKeys, CallAnswer

(* There is no public key before there is a pair.                          *)
LEMMA NoPubkeyStep ==
  ASSUME OneScheduler, TypeInv, SoloInv, NEW t \in Thread, PickKey(t),
         fn[t] = "get_pubkey", evp_pkey = NULL
  PROVE  Service!NoPubkey(t)
<1>1. /\ beam = "up" /\ at[t] = "pick" /\ at'[t] = "return" /\ status'[t] = 1
      /\ UNCHANGED <<beam, a, fn, result, keyVars, before>>
  BY DEF PickKey, Runs, GoesOn, TypeInv, TypeOK, hostVars, callVars
<1>2. keypair = NULL
  BY <1>1, CompleteUnless DEF KeyComplete, Making
<1>3. Answer(t)' = [kind |-> "blank", val |-> 0]
  BY <1>1 DEF Answer
<1>4. CurrentKey = NULL /\ KeepsKeys
  <2>1. KeyFacts(t) /\ KeyFacts(t)'
    BY KeysOf, KeysOfNext
  <2>2. QED
    BY <1>1, <1>2, <2>1 DEF KeyFacts, KeepsKeys, Generating, Making, keyVars
<1>5. QED
  BY <1>1, <1>3, <1>4, TakesEffect DEF Service!NoPubkey, KeepsKeys, CallAnswer

LEMMA ReturnStep ==
  ASSUME OneScheduler, TypeInv, NEW t \in Thread, Return(t)
  PROVE  Service!Finish(t)
<1>1. /\ beam = "up" /\ at[t] = "return" /\ at'[t] = "idle"
      /\ result' = [result EXCEPT ![t] = Answer(t)]
      /\ UNCHANGED <<beam, a, fn, keyVars, before>>
  BY DEF Return, TypeInv, TypeOK, hostVars, localVars
<1>2. Moves(t, "applied", "idle", NoAnswer) /\ CallAnswer(t) = Answer(t)
  <2>1. PhaseFacts(t) /\ PhaseFacts(t)'
    BY CallPhases, CallPhasesNext
  <2>2. QED
    BY <1>1, <2>1 DEF PhaseFacts, Moves, CallAnswer
<1>3. KeepsKeys
  <2>1. KeyFacts(t) /\ KeyFacts(t)'
    BY KeysOf, KeysOfNext
  <2>2. QED
    BY <1>1, <2>1 DEF KeyFacts, KeepsKeys, Generating, Inside, Making, keyVars
<1>4. QED
  BY <1>1, <1>2, <1>3 DEF Service!Finish, Moves, OneScheduler, KeepsKeys, CallAnswer,
                          Service!NoAnswer, NoAnswer

(* load() and, in the SGX version, upgrade() forget the pair.              *)
LEMMA RestartStep ==
  ASSUME TypeInv, Blocked, Fresh, UNCHANGED <<beam, at, localVars, callVars>>
  PROVE  Service!Restart
<1>1. \A t \in Thread : CallPhase(t) = "idle" /\ Keeps(t)
  BY CallPhases, KeepsCall DEF PhaseFacts, Blocked, localVars, callVars
<1>2. CurrentKey = keypair /\ UsedKeys = 1 .. rsas
  BY KeysIdle DEF Blocked
<1>3. CurrentKey' = NULL /\ UsedKeys' = UsedKeys
  BY <1>2 DEF Blocked, Fresh, CurrentKey, UsedKeys, Generating, Inside
<1>4. QED
  BY <1>1, <1>3 DEF Service!Restart, Blocked, Fresh, Keeps, CallAnswer, localVars, callVars

(* The BEAM ends with every call that is under way.                        *)
LEMMA StopStep ==
  ASSUME TypeInv, NEW t \in Thread, Abort(t) \/ Crash(t) \/ ReturnAborts(t)
  PROVE  Service!Stop
<1>1. /\ beam = "up" /\ beam' = "aborted"
      /\ UNCHANGED <<at, keyVars, a, localVars, callVars>>
  BY DEF Abort, Crash, ReturnAborts
<1>2. ASSUME NEW s \in Thread
      PROVE  /\ CallPhase(s)' = IF CallPhase(s) = "idle" THEN "idle" ELSE "lost"
             /\ CallAnswer(s)' = NoAnswer
  <2>1. PhaseFacts(s) /\ PhaseFacts(s)'
    BY CallPhases, CallPhasesNext
  <2>2. QED
    BY <1>1, <2>1 DEF PhaseFacts, CallAnswer
<1>3. KeepsKeys
  BY <1>1, KeysStay DEF keyVars, localVars, callVars
<1>4. QED
  BY <1>1, <1>2, <1>3 DEF Service!Stop, KeepsKeys, CallAnswer, localVars, callVars,
                          Service!NoAnswer, NoAnswer

(* The steps of a key generation before its last.                          *)
LEMMA MakingStep ==
  ASSUME OneScheduler, TypeInv, ~Short, SoloInv, NEW t \in Thread,
         \/ InitCrypto(t) \/ RsaNew(t) \/ GenBegin(t) \/ GenEnd(t)
         \/ EvpNew(t) \/ AssignRsa(t)
  PROVE  UNCHANGED Service!vars
<1>1. /\ fn[t] = "key_gen" /\ Generating(t)
      /\ at[t] \notin {"idle", "return", "ecall"}
      /\ at'[t] \notin {"idle", "return", "ecall"}
      /\ UNCHANGED <<beam, a, fn, result, before>>
  BY DEF InitCrypto, RsaNew, GenBegin, GenEnd, EvpNew, AssignRsa, Runs, GoesOn, Fails,
         Generating, Inside, TypeInv, TypeOK, LocalOK, hostVars, localVars, callVars
<1>2. /\ at[t] \in Making => at'[t] \in Making /\ rsas' = rsas
      /\ at[t] \notin Making /\ at'[t] \notin Making => rsas' = rsas
      /\ at[t] \notin Making /\ at'[t] \in Making => rsas' = rsas + 1
  BY DEF InitCrypto, RsaNew, GenBegin, GenEnd, EvpNew, AssignRsa, Runs, GoesOn, Fails,
         Making, TypeInv, TypeOK, keyVars
<1>3. \A s \in Thread : Keeps(s)
  BY <1>1, KeepsCall DEF OneScheduler, TypeInv, TypeOK
<1>4. KeepsKeys
  <2>1. KeyFacts(t) /\ KeyFacts(t)'
    BY KeysOf, KeysOfNext
  <2>2. Generating(t)'
    BY <1>1 DEF Generating, Inside
  <2>3. rsas \in Nat
    BY PointerType DEF TypeInv, TypeOK
  <2>4. QED
    BY <1>1, <1>2, <2>1, <2>2, <2>3 DEF KeyFacts, KeepsKeys
<1>5. QED
  BY <1>1, <1>3, <1>4, StutterStep

(* A call enters the enclave, or reads what it is going to use.  The pair  *)
(* of a key generation that enters is still the global's.                  *)
LEMMA EnterStep ==
  ASSUME OneScheduler, TypeInv, SoloInv, NEW t \in Thread,
         \/ Enter(t) \/ (ReadA(t) /\ fn[t] = "increment")
         \/ (PickKey(t) /\ ~(fn[t] = "get_pubkey" /\ evp_pkey = NULL))
  PROVE  UNCHANGED Service!vars
<1>1. /\ at[t] \in {"ecall", "read", "pick"}
      /\ at'[t] \notin {"idle", "return"} \cup Making
      /\ UNCHANGED <<beam, a, fn, result, keyVars, before>>
  BY DEF Enter, Entry, Fn, ReadA, PickKey, Runs, GoesOn, Making, TypeInv, TypeOK,
         hostVars, localVars, callVars
<1>2. /\ Generating(t) => FALSE
      /\ Generating(t)' => before[t] = keypair
  <2>1. at[t] \in {"read", "pick"} => fn[t] # "key_gen"
    BY DEF SoloInv, ThreadInv, Counts, Uses
  <2>2. at[t] = "ecall" => before[t] = keypair
    BY DEF SoloInv, ThreadInv, Makes
  <2>3. QED
    BY <1>1, <2>1, <2>2 DEF Generating, Inside
<1>3. \A s \in Thread : Keeps(s)
  BY <1>1, KeepsCall DEF OneScheduler, TypeInv, TypeOK
<1>4. KeepsKeys
  <2>1. KeyFacts(t) /\ KeyFacts(t)'
    BY KeysOf, KeysOfNext
  <2>2. QED
    BY <1>1, <1>2, <2>1 DEF KeyFacts, KeepsKeys, Making, keyVars
<1>5. QED
  BY <1>1, <1>3, <1>4, StutterStep

LEMMA InitStep == Init => Service!Init
<1> SUFFICES ASSUME Init
             PROVE  Service!Init
  OBVIOUS
<1>1. \A t \in Thread : CallPhase(t) = "idle"
  BY CallPhases DEF Init, PhaseFacts
<1>2. CurrentKey = NULL /\ UsedKeys = {}
  BY KeysIdle DEF Init
<1>3. QED
  BY <1>1, <1>2 DEF Init, Service!Init, Service!Fn, Fn, Service!NoAnswer, NoAnswer

LEMMA NextStep ==
  ASSUME OneScheduler
  PROVE  TypeInv /\ ~Short /\ SoloInv /\ [Next]_vars => [Service!Next]_(Service!vars)
<1> SUFFICES ASSUME TypeInv, ~Short, SoloInv, [Next]_vars
             PROVE  Service!Next \/ UNCHANGED Service!vars
  OBVIOUS
<1>0. beam \in {"up", "aborted"}
  BY DEF TypeInv, TypeOK
<1>1. CASE Load \/ (Upgrade /\ SGX)
  BY <1>1, RestartStep DEF Load, Upgrade, Service!Next
<1>2. CASE (Upgrade /\ ~SGX) \/ Delete \/ Purge \/ PowerTransition \/ UNCHANGED vars
  <2>1. UNCHANGED <<beam, keyVars, a, at, localVars, callVars>>
    BY <1>2 DEF Upgrade, Delete, Purge, PowerTransition, vars, hostVars
  <2>2. \A t \in Thread : Keeps(t)
    BY <1>0, <2>1, KeepsCall DEF localVars
  <2>3. KeepsKeys
    BY <2>1, KeysStay DEF keyVars, localVars, callVars
  <2>4. QED
    BY <2>1, <2>2, <2>3, StutterStep DEF localVars, callVars
<1>3. ASSUME NEW t \in Thread, NEW f \in Fn, Call(t, f)
      PROVE  Service!Next
  BY <1>3, CallStep DEF Service!Next, Service!Fn, Fn
<1>4. ASSUME NEW t \in Thread, Enter(t)
      PROVE  UNCHANGED Service!vars
  BY <1>4, EnterStep
<1>5. ASSUME NEW t \in Thread, Abort(t) \/ Crash(t) \/ ReturnAborts(t)
      PROVE  Service!Next
  BY <1>5, StopStep DEF Service!Next
<1>6. ASSUME NEW t \in Thread, ReadA(t) \/ WriteA(t)
      PROVE  Service!Next \/ UNCHANGED Service!vars
  BY <1>6, NumberStep, EnterStep DEF Service!Next
<1>7. ASSUME NEW t \in Thread,
             \/ InitCrypto(t) \/ RsaNew(t) \/ GenBegin(t) \/ GenEnd(t)
             \/ EvpNew(t) \/ AssignRsa(t)
      PROVE  UNCHANGED Service!vars
  BY <1>7, MakingStep
<1>8. ASSUME NEW t \in Thread, FinishKeyGen(t)
      PROVE  Service!Next
  BY <1>8, GenerateStep DEF Service!Next
<1>9. ASSUME NEW t \in Thread, PickKey(t)
      PROVE  Service!Next \/ UNCHANGED Service!vars
  BY <1>9, NoPubkeyStep, EnterStep DEF Service!Next
<1>10. ASSUME NEW t \in Thread, UseKey(t)
       PROVE  Service!Next
  BY <1>10, UseStep DEF Service!Next
<1>11. ASSUME NEW t \in Thread, Return(t)
       PROVE  Service!Next
  BY <1>11, ReturnStep DEF Service!Next
<1>12. QED
  BY <1>1, <1>2, <1>3, <1>4, <1>5, <1>6, <1>7, <1>8, <1>9, <1>10, <1>11
     DEF Next, Step, KeyGen

(* On a BEAM with one scheduler thread, and as long as the heap is not     *)
(* short, a call of any of the six NIFs takes effect once: what signs,     *)
(* encrypts and is handed out as the public key is the pair that the last  *)
(* finished rsa_key_gen/0 generated, and no key generation answers         *)
(* without a new pair.                                                     *)
THEOREM RefinementWhileNotShort ==
  ASSUME OneScheduler
  PROVE  Spec /\ []~Short => ImplementsKeyService
<1>1. Init => SoloInv /\ Service!Init
  BY InitSolo, InitStep
<1>2. TypeInv /\ ~Short /\ SoloInv /\ [Next]_vars => SoloInv'
  BY NextSolo
<1>3. TypeInv /\ ~Short /\ SoloInv /\ [Next]_vars => [Service!Next]_(Service!vars)
  BY NextStep
<1>4. QED
  BY <1>1, <1>2, <1>3, TypeInvariant, PTL DEF Spec, ImplementsKeyService, Service!Spec

(* A heap with room for every key pair that is going to be generated is    *)
(* never short, whatever the loads: the refinement needs no more.          *)
THEOREM Refinement ==
  ASSUME OneScheduler, HeapKeys > MaxGens
  PROVE  Spec => ImplementsKeyService
<1>1. TypeInv => ~Short
  BY PointerType, LimitsAssumption DEF TypeInv, TypeOK, Short
<1>2. QED
  BY <1>1, RefinementWhileNotShort, TypeInvariant, PTL

-----------------------------------------------------------------------------
(* A key generation that is about to return has left a pair.               *)
MadeInv == \A t \in Thread : at[t] = "return" /\ fn[t] = "key_gen" => keypair # NULL

LEMMA NextMade ==
  ASSUME OneScheduler
  PROVE  TypeInv /\ ~Short /\ SoloInv /\ MadeInv /\ [Next]_vars => MadeInv'
<1> SUFFICES ASSUME TypeInv, ~Short, SoloInv, MadeInv, [Next]_vars
             PROVE  MadeInv'
  OBVIOUS
<1> USE DEF MadeInv, TypeInv, TypeOK
<1>1. CASE Load \/ Upgrade \/ Delete \/ Purge \/ PowerTransition \/ UNCHANGED vars
  BY <1>1 DEF Load, Upgrade, Delete, Purge, PowerTransition, Blocked, Fresh, vars,
              keyVars, localVars, callVars
<1>2. ASSUME NEW t \in Thread, NEW f \in Fn, Call(t, f)
      PROVE  MadeInv'
  BY <1>2 DEF Call, keyVars
<1>3. ASSUME NEW t \in Thread, Enter(t) \/ Abort(t) \/ Crash(t) \/ Return(t) \/ ReturnAborts(t)
      PROVE  MadeInv'
  BY <1>3 DEF Enter, Entry, Fn, Abort, Crash, Return, ReturnAborts, keyVars, localVars,
              callVars
<1>4. ASSUME NEW t \in Thread, ReadA(t) \/ WriteA(t) \/ PickKey(t) \/ UseKey(t)
      PROVE  MadeInv'
  <2>1. at[t] \in {"read", "write", "pick", "use"} /\ UNCHANGED <<fn, keypair>>
    BY <1>4 DEF ReadA, WriteA, PickKey, UseKey, Runs, keyVars
  <2>2. fn[t] # "key_gen"
    BY <2>1 DEF SoloInv, ThreadInv, Counts, Uses
  <2>3. QED
    BY <2>1, <2>2 DEF OneScheduler
<1>5. ASSUME NEW t \in Thread,
             \/ InitCrypto(t) \/ RsaNew(t) \/ GenBegin(t) \/ GenEnd(t)
             \/ EvpNew(t) \/ AssignRsa(t)
      PROVE  MadeInv'
  <2>1. at'[t] # "return"
    BY <1>5 DEF InitCrypto, RsaNew, GenBegin, GenEnd, EvpNew, AssignRsa, GoesOn, Fails
  <2>2. QED
    BY <2>1 DEF OneScheduler
<1>6. ASSUME NEW t \in Thread, FinishKeyGen(t)
      PROVE  MadeInv'
  <2>1. keypair # NULL /\ keypair' = keypair
    BY <1>6 DEF FinishKeyGen, Runs, SoloInv, ThreadInv, Makes, Making
  <2>2. QED
    BY <2>1
<1>7. QED
  BY <1>1, <1>2, <1>3, <1>4, <1>5, <1>6 DEF Next, Step, KeyGen

(* enclave_communicator.erl:61 can rely on the return code 0 as long as    *)
(* the heap is not short and nobody else is in a NIF: then there is a      *)
(* complete key pair when rsa_key_gen/0 returns.  The silent returns of    *)
(* rsa_key_gen() when memory is short are what breaks it.                  *)
THEOREM KeyGenReportsWhileNotShort ==
  ASSUME OneScheduler
  PROVE  Spec /\ []~Short => KeyGenReports
<1>1. Init => SoloInv /\ MadeInv
  BY InitSolo DEF Init, MadeInv
<1>2. TypeInv /\ ~Short /\ SoloInv /\ MadeInv /\ [Next]_vars => (SoloInv /\ MadeInv)'
  BY NextSolo, NextMade
<1>3. SoloInv /\ MadeInv =>
        [\A t \in Thread :
           fn[t] = "key_gen" /\ at[t] = "return" /\ at'[t] = "idle" /\ reg[t] = 0 =>
             keypair # NULL /\ rsa[keypair] = "ready"]_vars
  BY CompleteUnless DEF MadeInv, KeyComplete, Making
<1>4. QED
  BY <1>1, <1>2, <1>3, TypeInvariant, PTL DEF Spec, KeyGenReports
=============================================================================
