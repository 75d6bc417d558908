------------------------------- MODULE SslNif -------------------------------
(***************************************************************************)
(* erlang-nif_SSL/: the NIF extended with RSA through OpenSSL 1.1.1d, in   *)
(* the enclave (SGX = TRUE) or in the BEAM itself (App_no-sgx, SGX =       *)
(* FALSE).  The enclave keeps one key pair in two unprotected globals,     *)
(* keypair and evp_pkey, next to the counter a.  A key generation is       *)
(* followed statement by statement wherever it touches them, as scheduler  *)
(* threads interleave there.                                               *)
(*                                                                         *)
(* External, from how the code uses it: OpenSSL and the enclave's heap.    *)
(* Payloads are Latin-1 strings; no more schedulers than thread control    *)
(* structures; the code server and its callbacks are as in ErlangNif, and  *)
(* only the enclave that global_eid names is followed.                     *)
(***************************************************************************)
EXTENDS Int32, FiniteSets

CONSTANTS
  Thread,    \* the scheduler threads
  SGX,       \* App or App_no-sgx
  HeapKeys,  \* from this many RSA objects on an allocation may fail
  MaxLoads,  \* bound: times the module is loaded
  MaxGens,   \* bound: calls of rsa_key_gen/0
  MaxCalls   \* bound: NIF calls of each thread

ASSUME SchedulerAssumption == IsFiniteSet(Thread) /\ SGX \in BOOLEAN
ASSUME LimitsAssumption ==
  HeapKeys \in Nat /\ MaxLoads \in Nat /\ MaxGens \in Nat /\ MaxCalls \in Nat

Fn == {"increment", "return", "key_gen", "sign", "encrypt", "get_pubkey"}

(* The RSA objects, and the EVP_PKEY objects, in the order of their        *)
(* allocation; 0 is NULL.                                                  *)
NULL == 0
Object == 1 .. MaxGens
Pointer == Object \cup {NULL}

(* What a NIF answers: "ok" with the number, or the key it used; "blank",  *)
(* a buffer nothing was written to; "garbage", the output of a key that    *)
(* is not one.                                                             *)
NoAnswer == [kind |-> "none", val |-> 0]

VARIABLES
  beam,      \* is the BEAM running?
  cur, old,  \* is there a current version of the module, and an old one?
  live,      \* is the enclave there, or the library's data?
  keypair,   \* static RSA *keypair
  evp_pkey,  \* static EVP_PKEY *evp_pkey
  a,         \* static int32_t a
  rsa,       \* the state of each RSA object
  holds,     \* the RSA object assigned to each EVP_PKEY
  rsas, evps,\* objects allocated so far
  base,      \* those of them that are not in the enclave's heap
  at,        \* where each thread stands in a NIF
  fn,        \* the NIF it runs
  ptr,       \* the pointer it has read, or allocated
  reg,       \* the number, or the key, it is going to answer
  status,    \* the value its ecall returns
  out,       \* what the output buffer of its ecall holds
  result,    \* the answer of its last NIF call
  before,    \* history: keypair when that call was made
  loads, gens, calls  \* loads, and calls made (bounds)

codeVars == <<cur, old, base, loads>>
hostVars == <<beam, codeVars, live>>
keyVars == <<keypair, evp_pkey, rsa, holds, rsas, evps>>
localVars == <<fn, ptr, reg, status, out>>
callVars == <<result, before, gens, calls>>
vars == <<hostVars, keyVars, a, at, localVars, callVars>>

Init ==
  /\ beam = "up" /\ cur = FALSE /\ old = FALSE /\ live = FALSE
  /\ keypair = NULL /\ evp_pkey = NULL /\ a = 0
  /\ rsa = [k \in Object |-> "none"]
  /\ holds = [e \in Object |-> NULL]
  /\ rsas = 0 /\ evps = 0 /\ base = 0
  /\ at = [t \in Thread |-> "idle"]
  /\ fn = [t \in Thread |-> "increment"]
  /\ ptr = [t \in Thread |-> NULL]
  /\ reg = [t \in Thread |-> 0]
  /\ status = [t \in Thread |-> 0]
  /\ out = [t \in Thread |-> "ok"]
  /\ result = [t \in Thread |-> NoAnswer]
  /\ before = [t \in Thread |-> NULL]
  /\ loads = 0 /\ gens = 0
  /\ calls = [t \in Thread |-> 0]

-----------------------------------------------------------------------------
(* The code server and the library's callbacks.                            *)

Blocked == beam = "up" /\ \A t \in Thread : at[t] = "idle"

(* The data of a library, or an enclave, that was just loaded; an enclave  *)
(* has a heap of its own, the BEAM's is that of the process.               *)
Fresh ==
  /\ live' = TRUE
  /\ keypair' = NULL /\ evp_pkey' = NULL /\ a' = 0
  /\ base' = IF SGX THEN rsas ELSE base
  /\ UNCHANGED <<rsa, holds, rsas, evps>>

(* load(); when it fails nothing changes.                                  *)
Load ==
  /\ Blocked /\ loads < MaxLoads
  /\ ~cur /\ ~old
  /\ Fresh
  /\ cur' = TRUE /\ loads' = loads + 1
  /\ UNCHANGED <<beam, old, at, localVars, callVars>>

(* upgrade(): in the SGX version it makes a new enclave, without keys;     *)
(* App_no-sgx goes on with the data it has.                                *)
Upgrade ==
  /\ Blocked /\ loads < MaxLoads
  /\ cur /\ ~old
  /\ IF SGX THEN Fresh ELSE UNCHANGED <<live, base, keyVars, a>>
  /\ old' = TRUE /\ loads' = loads + 1
  /\ UNCHANGED <<beam, cur, at, localVars, callVars>>

(* code:delete/1: the current version becomes old.                         *)
Delete ==
  /\ beam = "up" /\ cur /\ ~old
  /\ cur' = FALSE /\ old' = TRUE
  /\ UNCHANGED <<beam, base, loads, live, keyVars, a, at, localVars, callVars>>

(* unload(): it destroys the enclave of the current version if there is    *)
(* one; without SGX the data goes with the last version.                   *)
Purge ==
  /\ Blocked /\ old
  /\ old' = FALSE
  /\ live' = (live /\ ~SGX /\ cur)
  /\ UNCHANGED <<beam, cur, base, loads, keyVars, a, at, localVars, callVars>>

-----------------------------------------------------------------------------
(* A process calls one of the NIFs on scheduler t.                         *)
Call(t, f) ==
  /\ beam = "up" /\ cur /\ at[t] = "idle" /\ calls[t] < MaxCalls
  /\ f = "key_gen" => gens < MaxGens
  /\ at' = [at EXCEPT ![t] = "ecall"]
  /\ fn' = [fn EXCEPT ![t] = f]
  /\ status' = [status EXCEPT ![t] = 0]
  /\ out' = [out EXCEPT ![t] = "ok"]
  /\ before' = [before EXCEPT ![t] = keypair]
  /\ gens' = IF f = "key_gen" THEN gens + 1 ELSE gens
  /\ calls' = [calls EXCEPT ![t] = @ + 1]
  /\ UNCHANGED <<hostVars, keyVars, a, ptr, reg, result>>

(* Thread t runs in the enclave, at p.                                     *)
Inside(t) == at[t] \notin {"idle", "ecall", "return"}
Runs(t, p) == beam = "up" /\ live /\ at[t] = p

Entry(f) ==
  CASE f \in {"increment", "return"} -> "read"
    [] f = "key_gen" -> "init"
    [] f \in {"sign", "encrypt", "get_pubkey"} -> "pick"

Enter(t) ==
  /\ Runs(t, "ecall")
  /\ at' = [at EXCEPT ![t] = Entry(fn[t])]
  /\ UNCHANGED <<hostVars, keyVars, a, localVars, callVars>>

(* The ecall does not return SGX_SUCCESS, as the enclave is gone.          *)
Abort(t) ==
  /\ beam = "up" /\ ~live
  /\ at[t] = "ecall" \/ Inside(t)
  /\ beam' = "aborted"
  /\ UNCHANGED <<codeVars, live, keyVars, a, at, localVars, callVars>>

PowerTransition ==
  /\ SGX /\ beam = "up" /\ live
  /\ live' = FALSE
  /\ UNCHANGED <<beam, codeVars, keyVars, a, at, localVars, callVars>>

-----------------------------------------------------------------------------
(* ecall_increment and ecall_return_a.                                     *)

ReadA(t) ==
  /\ Runs(t, "read")
  /\ reg' = [reg EXCEPT ![t] = a]
  /\ at' = [at EXCEPT ![t] = IF fn[t] = "increment" THEN "write" ELSE "return"]
  /\ UNCHANGED <<hostVars, keyVars, a, fn, ptr, status, out, callVars>>

WriteA(t) ==
  /\ Runs(t, "write")
  /\ a' = Succ32(reg[t])
  /\ reg' = [reg EXCEPT ![t] = 0]
  /\ at' = [at EXCEPT ![t] = "return"]
  /\ UNCHANGED <<hostVars, keyVars, fn, ptr, status, out, callVars>>

-----------------------------------------------------------------------------
(* ecall_rsa_key_gen.  No RSA object is ever given back to the heap by a   *)
(* key generation that runs alone: once memory is short it stays so, until *)
(* there is a new enclave.                                                 *)

Short == rsas - base >= HeapKeys

(* A step that goes on to p, or a failure that returns from rsa_key_gen(), *)
(* void, with the status it has.                                           *)
GoesOn(t, p) == at' = [at EXCEPT ![t] = p]
Fails(t) == Short /\ at' = [at EXCEPT ![t] = "return"]

(* OPENSSL_init_crypto, whose failure is remembered and ignored; BN_new    *)
(* and BN_set_word.                                                        *)
InitCrypto(t) ==
  /\ Runs(t, "init")
  /\ \E s \in {0, 1} :
       /\ s = 1 => Short
       /\ status' = [status EXCEPT ![t] = s]
       /\ reg' = [reg EXCEPT ![t] = s]
  /\ GoesOn(t, "new") \/ Fails(t)
  /\ UNCHANGED <<hostVars, keyVars, a, fn, ptr, out, callVars>>

(* keypair = RSA_new(): the global is overwritten before there is a key,   *)
(* or with NULL.                                                           *)
RsaNew(t) ==
  /\ Runs(t, "new")
  /\ \/ /\ GoesOn(t, "gen")
        /\ rsas' = rsas + 1
        /\ rsa' = [rsa EXCEPT ![rsas + 1] = "partial"]
        /\ keypair' = rsas + 1
     \/ /\ Fails(t)
        /\ keypair' = NULL
        /\ UNCHANGED <<rsa, rsas>>
  /\ ptr' = [ptr EXCEPT ![t] = keypair']
  /\ UNCHANGED <<hostVars, evp_pkey, holds, evps, a, fn, reg, status, out, callVars>>

(* RSA_generate_key_ex(keypair, ...) is called: with what the global holds *)
(* by now, or the pointer still in a register.                             *)
GenBegin(t) ==
  /\ Runs(t, "gen")
  /\ \E k \in {ptr[t], keypair} \ {NULL} :
       /\ ptr' = [ptr EXCEPT ![t] = k]
       /\ rsa' = [rsa EXCEPT ![k] =
                    IF @ = "freed" THEN "freed"
                    ELSE IF \E s \in Thread : at[s] = "generating" /\ ptr[s] = k
                         THEN "mixed" ELSE "partial"]
  /\ GoesOn(t, "generating")
  /\ UNCHANGED <<hostVars, keypair, evp_pkey, holds, rsas, evps, a, fn, reg,
                 status, out, callVars>>

(* ... and returns: the object is a key, unless two threads generated into *)
(* it at once.                                                             *)
GenEnd(t) ==
  /\ Runs(t, "generating")
  /\ \/ /\ GoesOn(t, "evp")
        /\ rsa' = [rsa EXCEPT ![ptr[t]] = IF @ = "partial" THEN "ready" ELSE @]
     \/ /\ Fails(t)
        /\ UNCHANGED rsa
  /\ UNCHANGED <<hostVars, keypair, evp_pkey, holds, rsas, evps, a, localVars, callVars>>

(* evp_pkey = EVP_PKEY_new()                                               *)
EvpNew(t) ==
  /\ Runs(t, "evp")
  /\ \/ /\ GoesOn(t, "assign")
        /\ evps' = evps + 1
        /\ evp_pkey' = evps + 1
     \/ /\ Fails(t)
        /\ evp_pkey' = NULL
        /\ UNCHANGED evps
  /\ UNCHANGED <<hostVars, keypair, rsa, holds, rsas, a, localVars, callVars>>

(* Variant: the key the thread generated is assigned, not the global's.    *)
AssignRsa_Own(t) ==
  /\ Runs(t, "assign")
  /\ GoesOn(t, "finish")
  /\ IF evp_pkey = NULL THEN UNCHANGED holds
     ELSE holds' = [holds EXCEPT ![evp_pkey] = ptr[t]]
  /\ UNCHANGED <<hostVars, keypair, evp_pkey, rsa, rsas, evps, a, localVars, callVars>>

(* EVP_PKEY_assign_RSA(evp_pkey, keypair): it frees the key that another   *)
(* thread already assigned there.                                          *)
AssignRsa(t) ==
  /\ Runs(t, "assign")
  /\ GoesOn(t, "finish")
  /\ IF evp_pkey = NULL THEN UNCHANGED <<holds, rsa>>
     ELSE /\ holds' = [holds EXCEPT ![evp_pkey] = keypair]
          /\ rsa' = [k \in Object |-> IF k = holds[evp_pkey] THEN "freed" ELSE rsa[k]]
  /\ UNCHANGED <<hostVars, keypair, evp_pkey, rsas, evps, a, localVars, callVars>>

(* Variant: the struct is laid out as OpenSSL lays it out.                 *)
PkeyPtr_SameLayout(e) == holds[e]

(* evp_pkey->pkey.ptr.  The struct declared in Enclave.cpp has no field    *)
(* pmeth_engine, which OpenSSL 1.1.1d keeps where this reads pkey: NULL.   *)
PkeyPtr(e) == NULL

(* Both halves are serialised and discarded; RSA_free(keypair) if pkey.ptr *)
(* is not NULL; a = 0.                                                     *)
FinishKeyGen(t) ==
  /\ Runs(t, "finish") /\ evp_pkey # NULL
  /\ rsa' = IF PkeyPtr(evp_pkey) # NULL /\ keypair # NULL
            THEN [rsa EXCEPT ![keypair] = "freed"] ELSE rsa
  /\ a' = 0
  /\ GoesOn(t, "return")
  /\ UNCHANGED <<hostVars, keypair, evp_pkey, holds, rsas, evps, localVars, callVars>>

-----------------------------------------------------------------------------
(* ecall_rsa_sign, ecall_rsa_encrypt and ecall_rsa_get_pubkey.             *)

(* The global is read; get_pubkey tests it.                                *)
PickKey(t) ==
  /\ Runs(t, "pick")
  /\ IF fn[t] = "get_pubkey"
     THEN /\ ptr' = [ptr EXCEPT ![t] = evp_pkey]
          /\ status' = [status EXCEPT ![t] = IF evp_pkey = NULL THEN 1 ELSE 0]
          /\ GoesOn(t, IF evp_pkey = NULL THEN "return" ELSE "use")
     ELSE /\ ptr' = [ptr EXCEPT ![t] = keypair]
          /\ GoesOn(t, "use")
          /\ UNCHANGED status
  /\ UNCHANGED <<hostVars, keyVars, a, fn, reg, out, callVars>>

(* The RSA object thread t uses.                                           *)
UsedKey(t) == IF fn[t] = "get_pubkey" THEN holds[ptr[t]] ELSE ptr[t]

(* An error is 1, or 2 from get_pubkey: the length is not the expected.    *)
ErrorStatus(t) == IF fn[t] = "get_pubkey" THEN 2 ELSE 1

(* RSA_sign, RSA_public_encrypt, i2d_PublicKey: with an object that is not *)
(* a complete key they fail, or put out what is no one's.  An EVP_PKEY     *)
(* that holds no key has no length.                                        *)
UseKey(t) ==
  /\ Runs(t, "use")
  /\ fn[t] # "get_pubkey" => ptr[t] # NULL
  /\ \/ /\ UsedKey(t) # NULL
        /\ out' = [out EXCEPT ![t] =
                     IF rsa[UsedKey(t)] = "ready" THEN "ok" ELSE "garbage"]
        /\ status' = [status EXCEPT ![t] = 0]
     \/ /\ UsedKey(t) # NULL => rsa[UsedKey(t)] # "ready"
        /\ out' = [out EXCEPT ![t] = "blank"]
        /\ status' = [status EXCEPT ![t] = ErrorStatus(t)]
  /\ reg' = [reg EXCEPT ![t] = UsedKey(t)]
  /\ GoesOn(t, "return")
  /\ UNCHANGED <<hostVars, keyVars, a, fn, ptr, callVars>>

-----------------------------------------------------------------------------
(* NULL is dereferenced, or an object that is no complete key is used: in  *)
(* the enclave the ecall returns SGX_ERROR_ENCLAVE_CRASHED and my_...()    *)
(* abort()s, in the BEAM it is a segmentation fault.                       *)
Unusable(k) == k # NULL /\ rsa[k] # "ready"

Crash(t) ==
  /\ beam = "up" /\ live
  /\ \/ at[t] = "gen" /\ keypair = NULL
     \/ at[t] = "generating" /\ rsa[ptr[t]] \in {"mixed", "freed"}
     \/ at[t] = "finish" /\ evp_pkey = NULL
     \/ at[t] = "finish" /\ evp_pkey # NULL /\ Unusable(holds[evp_pkey])
     \/ at[t] = "use" /\ fn[t] # "get_pubkey" /\ ptr[t] = NULL
     \/ at[t] = "use" /\ Unusable(UsedKey(t))
  /\ beam' = "aborted"
  /\ UNCHANGED <<codeVars, live, keyVars, a, at, localVars, callVars>>

(* The NIF makes a term of the number, or of its whole buffer.  The SGX    *)
(* version does not look at the status of the ecall; without SGX my_...()  *)
(* abort()s when it is not 0.                                              *)
Answer(t) ==
  IF status[t] # 0 /\ fn[t] # "key_gen"
  THEN [kind |-> "blank", val |-> 0]
  ELSE [kind |-> out[t], val |-> reg[t]]

(* Variant: without SGX, too, the status is not looked at.                 *)
Return_Always(t) ==
  /\ beam = "up" /\ at[t] = "return"
  /\ result' = [result EXCEPT ![t] = Answer(t)]
  /\ at' = [at EXCEPT ![t] = "idle"]
  /\ UNCHANGED <<hostVars, keyVars, a, localVars, before, gens, calls>>

Return(t) ==
  /\ beam = "up" /\ at[t] = "return"
  /\ SGX \/ status[t] = 0
  /\ result' = [result EXCEPT ![t] = Answer(t)]
  /\ at' = [at EXCEPT ![t] = "idle"]
  /\ UNCHANGED <<hostVars, keyVars, a, localVars, before, gens, calls>>

(* Variant: a call that fails is made again.                               *)
ReturnAborts_Retries(t) ==
  /\ beam = "up" /\ at[t] = "return"
  /\ ~SGX /\ status[t] # 0
  /\ at' = [at EXCEPT ![t] = "ecall"]
  /\ UNCHANGED <<hostVars, keyVars, a, localVars, callVars>>

ReturnAborts(t) ==
  /\ beam = "up" /\ at[t] = "return"
  /\ ~SGX /\ status[t] # 0
  /\ beam' = "aborted"
  /\ UNCHANGED <<codeVars, live, keyVars, a, at, localVars, callVars>>

-----------------------------------------------------------------------------
KeyGen(t) == \/ InitCrypto(t) \/ RsaNew(t) \/ GenBegin(t) \/ GenEnd(t)
             \/ EvpNew(t) \/ AssignRsa(t) \/ FinishKeyGen(t)

Step(t) == \/ Enter(t) \/ Abort(t) \/ ReadA(t) \/ WriteA(t) \/ KeyGen(t)
           \/ PickKey(t) \/ UseKey(t) \/ Crash(t) \/ Return(t) \/ ReturnAborts(t)

Next ==
  \/ Load \/ Upgrade \/ Delete \/ Purge
  \/ \E t \in Thread, f \in Fn : Call(t, f)
  \/ \E t \in Thread : Step(t)
  \/ PowerTransition

Spec == Init /\ [][Next]_vars

(* The operating system runs every scheduler thread.                       *)
FairSpec == Spec /\ \A t \in Thread : WF_vars(Step(t))

-----------------------------------------------------------------------------
(* Properties.                                                             *)

TypeOK ==
  /\ beam \in {"up", "aborted"}
  /\ cur \in BOOLEAN /\ old \in BOOLEAN /\ live \in BOOLEAN
  /\ keypair \in Pointer /\ evp_pkey \in Pointer
  /\ a \in Int32
  /\ rsa \in [Object -> {"none", "partial", "mixed", "ready", "freed"}]
  /\ holds \in [Object -> Pointer]
  /\ rsas \in Pointer /\ evps \in Pointer /\ base \in 0 .. rsas
  /\ at \in [Thread -> {"idle", "ecall", "read", "write", "init", "new", "gen",
                        "generating", "evp", "assign", "finish", "pick", "use",
                        "return"}]
  /\ fn \in [Thread -> Fn]
  /\ ptr \in [Thread -> Pointer]
  /\ reg \in [Thread -> Int32 \cup Pointer]
  /\ status \in [Thread -> 0 .. 2]
  /\ out \in [Thread -> {"ok", "blank", "garbage"}]
  /\ result \in [Thread -> [kind : {"none", "ok", "blank", "garbage"},
                            val : Int32 \cup Pointer]]
  /\ before \in [Thread -> Pointer]
  /\ loads \in 0 .. MaxLoads /\ gens \in 0 .. MaxGens
  /\ calls \in [Thread -> 0 .. MaxCalls]

Generating(t) == fn[t] = "key_gen" /\ Inside(t)

(* Enclave.cpp:264, "Returns pubkey created by ecall_rsa_key_gen": however *)
(* key generations race, when none is under way the public key handed out  *)
(* is that of the pair that signs, as long as the heap never was short.    *)
KeysAgree ==
  ~Short /\ (\A t \in Thread : ~Generating(t)) =>
    \/ keypair = NULL /\ evp_pkey = NULL
    \/ evp_pkey # NULL /\ holds[evp_pkey] = keypair

(* README.md:33-34, the C code is "as similar as possible between these     *)
(* two versions with the same functionality": neither hands out a buffer   *)
(* as a signature, ciphertext or public key that nothing was written to.   *)
NoBlankAnswers == \A t \in Thread : result[t].kind # "blank"

(* enclave_communicator.erl:61, "abort if return code != 0": a return code *)
(* of 0 means that rsa_key_gen/0 generated the key pair.                   *)
KeyGenReports ==
  [][\A t \in Thread :
       fn[t] = "key_gen" /\ at[t] = "return" /\ at'[t] = "idle" /\ reg[t] = 0 =>
         keypair # NULL /\ rsa[keypair] = "ready"]_vars

(* Every NIF call returns, unless the BEAM aborts.                         *)
CallsReturn ==
  \A t \in Thread : at[t] # "idle" ~> (at[t] = "idle" \/ beam = "aborted")

(* With one scheduler and a heap that is not short the NIF implements      *)
(* KeyService, reloaded or not.  A key generation takes effect at its last *)
(* statement.                                                              *)
CallPhase(t) ==
  CASE at[t] = "idle" -> "idle"
    [] at[t] # "idle" /\ beam = "aborted" -> "lost"
    [] at[t] = "return" /\ beam = "up" -> "applied"
    [] OTHER -> "pending"

CurrentKey ==
  IF \E t \in Thread : Generating(t)
  THEN before[CHOOSE t \in Thread : Generating(t)] ELSE keypair

(* The object a key generation has allocated is no one's key before.       *)
UsedKeys ==
  IF \E t \in Thread : at[t] \in {"gen", "generating", "evp", "assign", "finish"}
  THEN 1 .. rsas - 1 ELSE 1 .. rsas

Service == INSTANCE KeyService WITH
  Proc <- Thread,
  Key <- Object,
  NoKey <- NULL,
  up <- beam = "up",
  val <- a,
  key <- CurrentKey,
  used <- UsedKeys,
  phase <- [t \in Thread |-> CallPhase(t)],
  ans <- [t \in Thread |-> IF CallPhase(t) = "applied" THEN Answer(t) ELSE NoAnswer]

ImplementsKeyService == Service!Spec
=============================================================================
