---------------------------- MODULE SslNif_proofs ----------------------------
(***************************************************************************)
(* Proofs about SslNif, for any number of scheduler threads and calls:     *)
(* type correctness, which rests on there being an RSA object and an       *)
(* EVP_PKEY object for every key generation, and the agreement of the two  *)
(* global pointers while the heap is not short.                            *)
(***************************************************************************)
EXTENDS SslNif, FiniteSetTheorems, TLAPS

LEMMA Succ32Type ==
  ASSUME NEW n \in Int32
  PROVE  Succ32(n) \in Int32
BY IntMaxAssumption DEF Succ32, Int32, IntMin

LEMMA ZeroInt32 == 0 \in Int32
BY IntMaxAssumption DEF Int32, IntMin

LEMMA PointerType == NULL \in Pointer /\ Object \subseteq Pointer /\ Pointer = 0 .. MaxGens
BY LimitsAssumption DEF Pointer, Object, NULL

-----------------------------------------------------------------------------
(* The key generations that have yet to allocate their objects.            *)
BeforeRsa == {"ecall", "init", "new"}
BeforeEvp == BeforeRsa \cup {"gen", "generating", "evp"}

AllocatesRsa == {t \in Thread : fn[t] = "key_gen" /\ at[t] \in BeforeRsa}
AllocatesEvp == {t \in Thread : fn[t] = "key_gen" /\ at[t] \in BeforeEvp}

(* There is an object for each of them.                                    *)
Room ==
  /\ rsas + Cardinality(AllocatesRsa) <= gens
  /\ evps + Cardinality(AllocatesEvp) <= gens

(* What a thread's place says of its locals.                               *)
LocalOK ==
  \A t \in Thread :
    /\ at[t] = "write" => reg[t] \in Int32
    /\ at[t] = "use" /\ fn[t] = "get_pubkey" => ptr[t] # NULL
    /\ at[t] \in {"init", "new", "gen", "generating", "evp", "assign", "finish"}
         => fn[t] = "key_gen"

TypeInv == TypeOK /\ LocalOK /\ Room

LEMMA AllocatesFinite ==
  /\ IsFiniteSet(AllocatesRsa) /\ Cardinality(AllocatesRsa) \in Nat
  /\ IsFiniteSet(AllocatesEvp) /\ Cardinality(AllocatesEvp) \in Nat
<1>1. AllocatesRsa \subseteq Thread /\ AllocatesEvp \subseteq Thread
  BY DEF AllocatesRsa, AllocatesEvp
<1>2. QED
  BY <1>1, SchedulerAssumption, FS_Subset, FS_CardinalityType

(* No call and no allocation: the sets of those who are still to allocate  *)
(* do not grow, and there is room as before.                               *)
LEMMA RoomKept ==
  ASSUME TypeOK, Room, gens' = gens, rsas' = rsas, evps' = evps,
         AllocatesRsa' \subseteq AllocatesRsa,
         AllocatesEvp' \subseteq AllocatesEvp
  PROVE  Room'
<1>1. /\ Cardinality(AllocatesRsa') <= Cardinality(AllocatesRsa)
      /\ Cardinality(AllocatesRsa') \in Nat
      /\ Cardinality(AllocatesEvp') <= Cardinality(AllocatesEvp)
      /\ Cardinality(AllocatesEvp') \in Nat
  BY AllocatesFinite, FS_Subset, FS_CardinalityType
<1>2. /\ gens \in Nat /\ rsas \in Nat /\ evps \in Nat
  BY PointerType DEF TypeOK
<1>3. QED
  BY <1>1, <1>2, AllocatesFinite DEF Room

(* Thread t joins the set of those who are still to allocate ...           *)
LEMMA OneMore ==
  ASSUME NEW S, NEW T, NEW t, T = S \cup {t}, IsFiniteSet(S)
  PROVE  Cardinality(T) \in Nat /\ Cardinality(T) <= Cardinality(S) + 1
<1>1. Cardinality(S) \in Nat
  BY FS_CardinalityType
<1>2. IsFiniteSet(T) /\ Cardinality(T) = IF t \in S THEN Cardinality(S) ELSE Cardinality(S) + 1
  BY FS_AddElement
<1>3. QED
  BY <1>1, <1>2

(* ... and leaves it.                                                      *)
LEMMA OneLess ==
  ASSUME NEW S, NEW T, NEW t \in S, T = S \ {t}, IsFiniteSet(S)
  PROVE  Cardinality(T) + 1 = Cardinality(S)
<1>1. Cardinality(S) \in Nat
  BY FS_CardinalityType
<1>2. QED
  BY <1>1, FS_RemoveElement

LEMMA InitType == Init => TypeInv
<1> SUFFICES ASSUME Init
             PROVE  TypeInv
  OBVIOUS
<1>1. TypeOK
  <2>1. /\ rsas \in Pointer /\ evps \in Pointer /\ base \in 0 .. rsas
        /\ status \in [Thread -> 0 .. 2]
        /\ loads \in 0 .. MaxLoads /\ gens \in 0 .. MaxGens
        /\ calls \in [Thread -> 0 .. MaxCalls]
    BY PointerType, LimitsAssumption DEF Init, NULL
  <2>2. QED
    BY <2>1, ZeroInt32, PointerType DEF Init, TypeOK, NoAnswer, Fn
<1>2. AllocatesRsa = {} /\ AllocatesEvp = {}
  BY DEF Init, AllocatesRsa, AllocatesEvp
<1>3. Room
  BY <1>2, FS_EmptySet DEF Init, Room
<1>4. QED
  BY <1>1, <1>3 DEF Init, TypeInv, LocalOK

(* The object a key generation is about to allocate is there.              *)
LEMMA RsaThere ==
  ASSUME TypeInv, NEW t \in Thread, at[t] = "new"
  PROVE  rsas + 1 \in Object
<1>1. t \in AllocatesRsa
  BY DEF TypeInv, LocalOK, AllocatesRsa, BeforeRsa
<1>2. Cardinality(AllocatesRsa) # 0
  BY <1>1, AllocatesFinite, FS_EmptySet
<1>3. QED
  BY <1>2, AllocatesFinite, PointerType, LimitsAssumption
     DEF TypeInv, TypeOK, Room, Object

LEMMA EvpThere ==
  ASSUME TypeInv, NEW t \in Thread, at[t] = "evp"
  PROVE  evps + 1 \in Object
<1>1. t \in AllocatesEvp
  BY DEF TypeInv, LocalOK, AllocatesEvp, BeforeEvp
<1>2. Cardinality(AllocatesEvp) # 0
  BY <1>1, AllocatesFinite, FS_EmptySet
<1>3. QED
  BY <1>2, AllocatesFinite, PointerType, LimitsAssumption
     DEF TypeInv, TypeOK, Room, Object

LEMMA NextRoom == TypeInv /\ [Next]_vars => Room'
<1> SUFFICES ASSUME TypeInv, [Next]_vars
             PROVE  Room'
  OBVIOUS
<1> USE DEF AllocatesRsa, AllocatesEvp, BeforeRsa, BeforeEvp
<1>1. ASSUME NEW t \in Thread, NEW f \in Fn, Call(t, f)
      PROVE  Room'
  <2>1. CASE f = "key_gen"
    <3>1. /\ AllocatesRsa' = AllocatesRsa \cup {t}
          /\ AllocatesEvp' = AllocatesEvp \cup {t}
      BY <1>1, <2>1 DEF Call, TypeInv, TypeOK
    <3> HIDE DEF AllocatesRsa, AllocatesEvp
    <3>2. /\ Cardinality(AllocatesRsa') <= Cardinality(AllocatesRsa) + 1
          /\ Cardinality(AllocatesEvp') <= Cardinality(AllocatesEvp) + 1
          /\ Cardinality(AllocatesRsa') \in Nat
          /\ Cardinality(AllocatesEvp') \in Nat
      BY <3>1, AllocatesFinite, OneMore
    <3>3. gens' = gens + 1 /\ rsas' = rsas /\ evps' = evps
      BY <1>1, <2>1 DEF Call, keyVars
    <3>4. rsas \in Nat /\ evps \in Nat /\ gens \in Nat
      BY PointerType DEF TypeInv, TypeOK
    <3>5. /\ rsas + Cardinality(AllocatesRsa) <= gens
          /\ evps + Cardinality(AllocatesEvp) <= gens
      BY DEF TypeInv, Room
    <3>6. /\ rsas' + Cardinality(AllocatesRsa') <= gens'
          /\ evps' + Cardinality(AllocatesEvp') <= gens'
      BY <3>2, <3>3, <3>4, <3>5, AllocatesFinite
    <3>7. QED
      BY <3>6 DEF Room
  <2>2. CASE f # "key_gen"
    BY <1>1, <2>2, RoomKept DEF Call, TypeInv, TypeOK, keyVars
  <2>3. QED
    BY <2>1, <2>2
<1>2. ASSUME NEW t \in Thread, RsaNew(t)
      PROVE  Room'
  <2>1. CASE rsas' = rsas
    BY <1>2, <2>1, RoomKept
       DEF RsaNew, Runs, GoesOn, Fails, TypeInv, TypeOK, localVars, callVars
  <2>2. CASE rsas' # rsas
    <3>1. rsas' = rsas + 1 /\ at' = [at EXCEPT ![t] = "gen"]
      BY <1>2, <2>2 DEF RsaNew, GoesOn
    <3>2. UNCHANGED <<fn, gens, evps>>
      BY <1>2 DEF RsaNew, callVars
    <3>3. t \in AllocatesRsa
      BY <1>2 DEF RsaNew, Runs, TypeInv, LocalOK
    <3>4. AllocatesRsa' = AllocatesRsa \ {t} /\ AllocatesEvp' = AllocatesEvp
      BY <1>2, <3>1, <3>2 DEF RsaNew, Runs, TypeInv, TypeOK
    <3>5. Cardinality(AllocatesRsa') + 1 = Cardinality(AllocatesRsa)
      BY <3>3, <3>4, AllocatesFinite, OneLess
    <3>6. Cardinality(AllocatesRsa') \in Nat
      BY <3>4, AllocatesFinite, FS_RemoveElement, FS_CardinalityType
    <3> HIDE DEF AllocatesRsa, AllocatesEvp
    <3>7. rsas \in Nat /\ evps \in Nat /\ gens \in Nat
      BY PointerType DEF TypeInv, TypeOK
    <3>8. /\ rsas + Cardinality(AllocatesRsa) <= gens
          /\ evps + Cardinality(AllocatesEvp) <= gens
      BY DEF TypeInv, Room
    <3>9. /\ rsas' + Cardinality(AllocatesRsa') <= gens'
          /\ evps' + Cardinality(AllocatesEvp') <= gens'
      BY <3>1, <3>2, <3>4, <3>5, <3>6, <3>7, <3>8, AllocatesFinite
    <3>10. QED
      BY <3>9 DEF Room
  <2>3. QED
    BY <2>1, <2>2
<1>3. ASSUME NEW t \in Thread, EvpNew(t)
      PROVE  Room'
  <2>1. CASE evps' = evps
    BY <1>3, <2>1, RoomKept
       DEF EvpNew, Runs, GoesOn, Fails, TypeInv, TypeOK, localVars, callVars
  <2>2. CASE evps' # evps
    <3>1. evps' = evps + 1 /\ at' = [at EXCEPT ![t] = "assign"]
      BY <1>3, <2>2 DEF EvpNew, GoesOn
    <3>2. UNCHANGED <<fn, gens, rsas>>
      BY <1>3 DEF EvpNew, localVars, callVars
    <3>3. t \in AllocatesEvp
      BY <1>3 DEF EvpNew, Runs, TypeInv, LocalOK
    <3>4. AllocatesEvp' = AllocatesEvp \ {t} /\ AllocatesRsa' = AllocatesRsa
      BY <1>3, <3>1, <3>2 DEF EvpNew, Runs, TypeInv, TypeOK
    <3>5. Cardinality(AllocatesEvp') + 1 = Cardinality(AllocatesEvp)
      BY <3>3, <3>4, AllocatesFinite, OneLess
    <3>6. Cardinality(AllocatesEvp') \in Nat
      BY <3>4, AllocatesFinite, FS_RemoveElement, FS_CardinalityType
    <3> HIDE DEF AllocatesRsa, AllocatesEvp
    <3>7. rsas \in Nat /\ evps \in Nat /\ gens \in Nat
      BY PointerType DEF TypeInv, TypeOK
    <3>8. /\ rsas + Cardinality(AllocatesRsa) <= gens
          /\ evps + Cardinality(AllocatesEvp) <= gens
      BY DEF TypeInv, Room
    <3>9. /\ rsas' + Cardinality(AllocatesRsa') <= gens'
          /\ evps' + Cardinality(AllocatesEvp') <= gens'
      BY <3>1, <3>2, <3>4, <3>5, <3>6, <3>7, <3>8, AllocatesFinite
    <3>10. QED
      BY <3>9 DEF Room
  <2>3. QED
    BY <2>1, <2>2
<1>4. ASSUME NEW t \in Thread, Enter(t)
      PROVE  Room'
  BY <1>4, RoomKept
     DEF Enter, Entry, Runs, TypeInv, TypeOK, keyVars, localVars, callVars
<1>5. ASSUME NEW t \in Thread, InitCrypto(t)
      PROVE  Room'
  BY <1>5, RoomKept
     DEF InitCrypto, GoesOn, Fails, Runs, TypeInv, TypeOK, keyVars, callVars
<1>6. ASSUME NEW t \in Thread, GenBegin(t) \/ GenEnd(t)
      PROVE  Room'
  BY <1>6, RoomKept
     DEF GenBegin, GenEnd, GoesOn, Fails, Runs, TypeInv, TypeOK, localVars, callVars
<1>7. ASSUME NEW t \in Thread, AssignRsa(t) \/ FinishKeyGen(t)
      PROVE  Room'
  BY <1>7, RoomKept
     DEF AssignRsa, FinishKeyGen, GoesOn, Runs, TypeInv, TypeOK, localVars, callVars
<1>8. ASSUME NEW t \in Thread, ReadA(t) \/ WriteA(t) \/ Return(t)
      PROVE  Room'
  BY <1>8, RoomKept
     DEF ReadA, WriteA, Return, Runs, TypeInv, TypeOK, keyVars, localVars, callVars
<1>9. ASSUME NEW t \in Thread, PickKey(t) \/ UseKey(t)
      PROVE  Room'
  BY <1>9, RoomKept
     DEF PickKey, UseKey, GoesOn, Runs, TypeInv, TypeOK, keyVars, callVars
<1>10. ASSUME NEW t \in Thread, Abort(t) \/ Crash(t) \/ ReturnAborts(t)
       PROVE  Room'
  BY <1>10, RoomKept
     DEF Abort, Crash, ReturnAborts, TypeInv, keyVars, localVars, callVars
<1>11. CASE PowerTransition \/ UNCHANGED vars
  BY <1>11, RoomKept
     DEF PowerTransition, TypeInv, vars, keyVars, localVars, callVars
<1>12. CASE Load \/ Upgrade \/ Delete \/ Purge
  BY <1>12, RoomKept
     DEF Load, Upgrade, Delete, Purge, Fresh, TypeInv, keyVars, localVars, callVars
<1>13. QED
  BY <1>1, <1>2, <1>3, <1>4, <1>5, <1>6, <1>7, <1>8, <1>9, <1>10, <1>11, <1>12
     DEF Next, Step, KeyGen

(* One value of a function is replaced by another of its range.            *)
LEMMA UpdateType ==
  ASSUME NEW D, NEW S, NEW f \in [D -> S], NEW d, NEW x \in S
  PROVE  [f EXCEPT ![d] = x] \in [D -> S]
OBVIOUS

LEMMA NextTypeOK == TypeInv /\ [Next]_vars => TypeOK' /\ LocalOK'
<1> SUFFICES ASSUME TypeInv, [Next]_vars
             PROVE  TypeOK' /\ LocalOK'
  OBVIOUS
<1> USE DEF TypeInv, TypeOK, LocalOK, Runs, GoesOn, Fails, codeVars
<1>1. ASSUME NEW t \in Thread, NEW f \in Fn, Call(t, f)
      PROVE  TypeOK' /\ LocalOK'
  BY <1>1, LimitsAssumption DEF Call, hostVars, keyVars
<1>2. ASSUME NEW t \in Thread, Enter(t)
      PROVE  TypeOK' /\ LocalOK'
  BY <1>2 DEF Enter, Entry, Fn, hostVars, keyVars, localVars, callVars
<1>3. ASSUME NEW t \in Thread, ReadA(t)
      PROVE  TypeOK' /\ LocalOK'
  BY <1>3 DEF ReadA, hostVars, keyVars, callVars
<1>4. ASSUME NEW t \in Thread, WriteA(t)
      PROVE  TypeOK' /\ LocalOK'
  BY <1>4, Succ32Type, ZeroInt32 DEF WriteA, hostVars, keyVars, callVars
<1>5. ASSUME NEW t \in Thread, InitCrypto(t)
      PROVE  TypeOK' /\ LocalOK'
  <2>1. PICK n \in {0, 1} : /\ status' = [status EXCEPT ![t] = n]
                            /\ reg' = [reg EXCEPT ![t] = n]
    BY <1>5 DEF InitCrypto
  <2>2. n \in Int32 /\ n \in 0 .. 2
    BY IntMaxAssumption DEF Int32, IntMin
  <2>3. QED
    BY <1>5, <2>1, <2>2 DEF InitCrypto, hostVars, keyVars, callVars
<1>6. ASSUME NEW t \in Thread, RsaNew(t)
      PROVE  TypeOK' /\ LocalOK'
  <2>1. rsas + 1 \in Object
    BY <1>6, RsaThere DEF RsaNew
  <2>2. keypair' \in Pointer /\ rsas' \in Pointer /\ base' \in 0 .. rsas'
    BY <1>6, <2>1, PointerType DEF RsaNew, hostVars, Object
  <2>3. ptr' \in [Thread -> Pointer]
    BY <1>6, <2>2 DEF RsaNew
  <2>4. rsa' \in [Object -> {"none", "partial", "mixed", "ready", "freed"}]
    BY <1>6, <2>1 DEF RsaNew
  <2>5. QED
    BY <1>6, <2>2, <2>3, <2>4 DEF RsaNew, hostVars, callVars
<1>7. ASSUME NEW t \in Thread, GenBegin(t)
      PROVE  TypeOK' /\ LocalOK'
  <2>1. PICK k \in {ptr[t], keypair} \ {NULL} : ptr' = [ptr EXCEPT ![t] = k]
    BY <1>7 DEF GenBegin
  <2>2. ptr' \in [Thread -> Pointer]
    BY <2>1
  <2>3. rsa' \in [Object -> {"none", "partial", "mixed", "ready", "freed"}]
    BY <1>7 DEF GenBegin
  <2>4. QED
    BY <1>7, <2>2, <2>3 DEF GenBegin, hostVars, callVars
<1>8. ASSUME NEW t \in Thread, GenEnd(t)
      PROVE  TypeOK' /\ LocalOK'
  <2>1. rsa' \in [Object -> {"none", "partial", "mixed", "ready", "freed"}]
    BY <1>8 DEF GenEnd
  <2>2. QED
    BY <1>8, <2>1 DEF GenEnd, hostVars, localVars, callVars
<1>9. ASSUME NEW t \in Thread, EvpNew(t)
      PROVE  TypeOK' /\ LocalOK'
  <2>1. evps + 1 \in Object
    BY <1>9, EvpThere DEF EvpNew
  <2>2. QED
    BY <1>9, <2>1, PointerType DEF EvpNew, hostVars, localVars, callVars
<1>10. ASSUME NEW t \in Thread, AssignRsa(t)
       PROVE  TypeOK' /\ LocalOK'
  BY <1>10 DEF AssignRsa, hostVars, localVars, callVars
<1>11. ASSUME NEW t \in Thread, FinishKeyGen(t)
       PROVE  TypeOK' /\ LocalOK'
  BY <1>11, ZeroInt32 DEF FinishKeyGen, hostVars, localVars, callVars
<1>12. ASSUME NEW t \in Thread, PickKey(t)
       PROVE  TypeOK' /\ LocalOK'
  <2>1. /\ ptr' \in [Thread -> Pointer]
        /\ status' \in [Thread -> 0 .. 2]
        /\ at' \in [Thread -> {"idle", "ecall", "read", "write", "init", "new",
                               "gen", "generating", "evp", "assign", "finish",
                               "pick", "use", "return"}]
    <3>1. CASE fn[t] = "get_pubkey"
      <4>1. /\ ptr' = [ptr EXCEPT ![t] = evp_pkey]
            /\ status' = [status EXCEPT ![t] = IF evp_pkey = NULL THEN 1 ELSE 0]
            /\ at' = [at EXCEPT ![t] = IF evp_pkey = NULL THEN "return" ELSE "use"]
        BY <1>12, <3>1 DEF PickKey
      <4>2. (IF evp_pkey = NULL THEN 1 ELSE 0) \in 0 .. 2
        OBVIOUS
      <4>3. QED
        BY <4>1, <4>2, UpdateType
    <3>2. CASE fn[t] # "get_pubkey"
      <4>1. /\ ptr' = [ptr EXCEPT ![t] = keypair]
            /\ at' = [at EXCEPT ![t] = "use"]
            /\ status' = status
        BY <1>12, <3>2 DEF PickKey
      <4>2. QED
        BY <4>1, UpdateType
    <3>3. QED
      BY <3>1, <3>2
  <2>2. TypeOK'
    BY <1>12, <2>1 DEF PickKey, hostVars, keyVars, callVars
  <2>3. UNCHANGED <<fn, reg>>
    BY <1>12 DEF PickKey
  <2>4. /\ at'[t] \in {"use", "return"}
        /\ at'[t] = "use" /\ fn[t] = "get_pubkey" => ptr'[t] # NULL
    BY <1>12 DEF PickKey
  <2>5. \A s \in Thread \ {t} : at'[s] = at[s] /\ ptr'[s] = ptr[s]
    BY <1>12 DEF PickKey
  <2>6. LocalOK'
    BY <2>3, <2>4, <2>5
  <2>7. QED
    BY <2>2, <2>6
<1>13. ASSUME NEW t \in Thread, UseKey(t)
       PROVE  TypeOK' /\ LocalOK'
  <2>1. UsedKey(t) \in Pointer
    BY <1>13 DEF UseKey, UsedKey, Pointer
  <2>2. ErrorStatus(t) \in 0 .. 2
    BY DEF ErrorStatus
  <2>3. PICK o \in {"ok", "blank", "garbage"}, n \in 0 .. 2 :
          /\ out' = [out EXCEPT ![t] = o]
          /\ status' = [status EXCEPT ![t] = n]
    <3>1. 0 \in 0 .. 2
      OBVIOUS
    <3>2. CASE UsedKey(t) # NULL /\ rsa[UsedKey(t)] = "ready"
      BY <1>13, <3>1, <3>2 DEF UseKey
    <3>3. CASE ~(UsedKey(t) # NULL /\ rsa[UsedKey(t)] = "ready")
      BY <1>13, <2>2, <3>1, <3>3 DEF UseKey
    <3>4. QED
      BY <3>2, <3>3
  <2>4. /\ reg' = [reg EXCEPT ![t] = UsedKey(t)]
        /\ at' = [at EXCEPT ![t] = "return"]
    BY <1>13 DEF UseKey
  <2>5. TypeOK'
    BY <1>13, <2>1, <2>3, <2>4, UpdateType DEF UseKey, hostVars, keyVars, callVars
  <2>6. at'[t] = "return" /\ UNCHANGED <<fn, ptr>>
    BY <1>13 DEF UseKey
  <2>7. \A s \in Thread \ {t} : at'[s] = at[s] /\ reg'[s] = reg[s]
    BY <1>13 DEF UseKey
  <2>8. LocalOK'
    BY <2>6, <2>7
  <2>9. QED
    BY <2>5, <2>8
<1>14. ASSUME NEW t \in Thread, Return(t)
       PROVE  TypeOK' /\ LocalOK'
  <2>1. Answer(t) \in [kind : {"none", "ok", "blank", "garbage"},
                       val : Int32 \cup Pointer]
    BY ZeroInt32 DEF Answer
  <2>2. QED
    BY <1>14, <2>1 DEF Return, hostVars, keyVars, localVars
<1>15. ASSUME NEW t \in Thread, Abort(t) \/ Crash(t) \/ ReturnAborts(t)
       PROVE  TypeOK' /\ LocalOK'
  BY <1>15 DEF Abort, Crash, ReturnAborts, keyVars, localVars, callVars
<1>16. CASE PowerTransition \/ UNCHANGED vars
  BY <1>16 DEF PowerTransition, vars, hostVars, keyVars, localVars, callVars
<1>17. CASE Load \/ Upgrade
  <2>1. rsas \in 0 .. rsas
    BY PointerType
  <2>2. loads + 1 \in 0 .. MaxLoads
    BY <1>17, LimitsAssumption DEF Load, Upgrade
  <2>3. QED
    BY <1>17, <2>1, <2>2, ZeroInt32, PointerType
       DEF Load, Upgrade, Fresh, keyVars, localVars, callVars
<1>18. CASE Delete \/ Purge
  BY <1>18 DEF Delete, Purge, keyVars, localVars, callVars
<1>19. QED
  BY <1>1, <1>2, <1>3, <1>4, <1>5, <1>6, <1>7, <1>8, <1>9, <1>10, <1>11,
     <1>12, <1>13, <1>14, <1>15, <1>16, <1>17, <1>18 DEF Next, Step, KeyGen

LEMMA TypeInvariant == Spec => []TypeInv
<1>1. Init => TypeInv
  BY InitType
<1>2. TypeInv /\ [Next]_vars => TypeInv'
  BY NextTypeOK, NextRoom DEF TypeInv
<1>3. QED
  BY <1>1, <1>2, PTL DEF Spec

(* Every reachable state of the RSA NIF is well typed: keypair and         *)
(* evp_pkey are NULL or name objects that were allocated, and the counter  *)
(* is an int32_t.                                                          *)
THEOREM TypeCorrect == Spec => []TypeOK
<1>1. TypeInv => TypeOK
  BY DEF TypeInv
<1>2. QED
  BY <1>1, TypeInvariant, PTL

-----------------------------------------------------------------------------
(* A key generation that has overwritten keypair has yet to assign: while  *)
(* one of them has, the globals may disagree, and the last assignment      *)
(* reads both after every overwriting.                                     *)
Unassigned(t) == at[t] \in {"gen", "generating", "evp", "assign"}

Agree ==
  \/ keypair = NULL /\ evp_pkey = NULL
  \/ evp_pkey # NULL /\ holds[evp_pkey] = keypair

AgreeInv ==
  /\ (\A t \in Thread : ~Unassigned(t)) => Agree
  /\ \A t \in Thread : at[t] = "assign" => evp_pkey # NULL

LEMMA InitAgree == Init => AgreeInv
BY DEF Init, AgreeInv, Agree

LEMMA NextAgree ==
  TypeInv /\ ~Short /\ AgreeInv /\ [Next]_vars => AgreeInv'
<1> SUFFICES ASSUME TypeInv, ~Short, AgreeInv, [Next]_vars
             PROVE  AgreeInv'
  OBVIOUS
<1> USE DEF TypeInv, TypeOK, AgreeInv, Agree, Unassigned, Runs, GoesOn, Fails
<1>1. ASSUME NEW t \in Thread, NEW f \in Fn, Call(t, f)
      PROVE  AgreeInv'
  BY <1>1 DEF Call, keyVars
<1>2. ASSUME NEW t \in Thread,
             Enter(t) \/ ReadA(t) \/ WriteA(t) \/ InitCrypto(t) \/ PickKey(t)
               \/ UseKey(t) \/ Return(t)
      PROVE  AgreeInv'
  <2>1. UNCHANGED <<keypair, evp_pkey, holds>>
    BY <1>2 DEF Enter, ReadA, WriteA, InitCrypto, PickKey, UseKey, Return, keyVars
  <2>2. ~Unassigned(t) /\ ~Unassigned(t)'
    BY <1>2 DEF Enter, Entry, Fn, ReadA, WriteA, InitCrypto, PickKey, UseKey, Return
  <2>3. \A s \in Thread \ {t} : at'[s] = at[s]
    BY <1>2 DEF Enter, ReadA, WriteA, InitCrypto, PickKey, UseKey, Return
  <2>4. QED
    BY <2>1, <2>2, <2>3
<1>3. ASSUME NEW t \in Thread, RsaNew(t)
      PROVE  AgreeInv'
  BY <1>3 DEF RsaNew
<1>4. ASSUME NEW t \in Thread, GenBegin(t) \/ GenEnd(t)
      PROVE  AgreeInv'
  BY <1>4 DEF GenBegin, GenEnd
<1>5. ASSUME NEW t \in Thread, EvpNew(t)
      PROVE  AgreeInv'
  <2>1. evps + 1 # NULL
    BY <1>5, EvpThere DEF EvpNew, Object, NULL
  <2>2. QED
    BY <1>5, <2>1 DEF EvpNew
<1>6. ASSUME NEW t \in Thread, AssignRsa(t)
      PROVE  AgreeInv'
  <2>1. evp_pkey # NULL /\ evp_pkey \in Object
    BY <1>6 DEF AssignRsa, Pointer
  <2>2. holds'[evp_pkey] = keypair
    BY <1>6, <2>1 DEF AssignRsa
  <2>3. QED
    BY <1>6, <2>1, <2>2 DEF AssignRsa
<1>7. ASSUME NEW t \in Thread, FinishKeyGen(t)
      PROVE  AgreeInv'
  BY <1>7 DEF FinishKeyGen
<1>8. ASSUME NEW t \in Thread, Abort(t) \/ Crash(t) \/ ReturnAborts(t)
      PROVE  AgreeInv'
  BY <1>8 DEF Abort, Crash, ReturnAborts, keyVars
<1>9. CASE PowerTransition \/ UNCHANGED vars
  BY <1>9 DEF PowerTransition, vars, keyVars
<1>10. CASE Fresh /\ Blocked /\ at' = at
  BY <1>10 DEF Fresh, Blocked
<1>11. CASE Load \/ (Upgrade /\ SGX)
  BY <1>10, <1>11 DEF Load, Upgrade
<1>12. CASE Upgrade /\ ~SGX
  BY <1>12 DEF Upgrade, keyVars
<1>13. CASE Delete \/ Purge
  BY <1>13 DEF Delete, Purge, keyVars
<1>14. QED
  BY <1>1, <1>2, <1>3, <1>4, <1>5, <1>6, <1>7, <1>8, <1>9, <1>11, <1>12, <1>13
     DEF Next, Step, KeyGen

(* The heap of an enclave never recovers: RSA objects are only ever        *)
(* allocated.  A new enclave starts with a new heap, and without keys.     *)
LEMMA ShortOrNew ==
  TypeInv /\ Short /\ [Next]_vars => Short' \/ AgreeInv'
<1> SUFFICES ASSUME TypeInv, Short, [Next]_vars
             PROVE  Short' \/ AgreeInv'
  OBVIOUS
<1>1. rsas \in Nat /\ HeapKeys \in Nat /\ base \in Nat
  BY LimitsAssumption DEF TypeInv, TypeOK, Pointer, Object, NULL
<1>2. ASSUME NEW t \in Thread, Step(t)
      PROVE  base' = base
  BY <1>2 DEF Step, KeyGen, Enter, Abort, ReadA, WriteA, InitCrypto, RsaNew, GenBegin,
              GenEnd, EvpNew, AssignRsa, FinishKeyGen, PickKey, UseKey, Crash,
              Return, ReturnAborts, hostVars, codeVars
<1>3. ASSUME NEW t \in Thread, Step(t)
      PROVE  rsas' = rsas \/ rsas' = rsas + 1
  <2>1. CASE RsaNew(t)
    BY <2>1 DEF RsaNew
  <2>2. CASE ~RsaNew(t)
    BY <1>3, <2>2 DEF Step, KeyGen, Enter, Abort, ReadA, WriteA, InitCrypto, GenBegin,
                GenEnd, EvpNew, AssignRsa, FinishKeyGen, PickKey, UseKey, Crash,
                Return, ReturnAborts, keyVars
  <2>3. QED
    BY <2>1, <2>2
<1>4. ASSUME Fresh, Blocked, at' = at
      PROVE  AgreeInv'
  BY <1>4 DEF Fresh, Blocked, AgreeInv, Agree
<1>5. CASE Load \/ (Upgrade /\ SGX)
  BY <1>4, <1>5 DEF Load, Upgrade
<1>6. CASE Upgrade /\ ~SGX
  BY <1>6 DEF Upgrade, keyVars, Short
<1>7. CASE Delete \/ Purge \/ PowerTransition \/ UNCHANGED vars
  BY <1>7 DEF Delete, Purge, PowerTransition, vars, hostVars, codeVars, keyVars, Short
<1>8. ASSUME NEW t \in Thread, NEW f \in Fn, Call(t, f)
      PROVE  Short'
  BY <1>8 DEF Call, hostVars, codeVars, keyVars, Short
<1>9. ASSUME NEW t \in Thread, Step(t)
      PROVE  Short'
  <2>1. rsas - base >= HeapKeys
    BY DEF Short
  <2>2. rsas' - base' >= HeapKeys
    BY <1>1, <1>2, <1>3, <1>9, <2>1
  <2>3. QED
    BY <2>2 DEF Short
<1>10. QED
  BY <1>5, <1>6, <1>7, <1>8, <1>9 DEF Next

(* As long as the heap is not short, the public key handed out while no    *)
(* key generation is under way is that of the pair that signs, however     *)
(* many key generations raced before.                                      *)
THEOREM RacingKeyGensAgree == Spec => []KeysAgree
<1> DEFINE Inv == Short \/ AgreeInv
<1>1. Init => Inv
  BY InitAgree
<1>2. TypeInv /\ Inv /\ [Next]_vars => Inv'
  BY NextAgree, ShortOrNew
<1>3. TypeInv /\ Inv => KeysAgree
  BY DEF TypeInv, LocalOK, AgreeInv, Agree, Unassigned, KeysAgree, Generating, Inside
<1>4. QED
  <2> HIDE DEF Inv
  <2> QED
    BY <1>1, <1>2, <1>3, TypeInvariant, PTL DEF Spec

-----------------------------------------------------------------------------
(* A thread that has status 0 has a buffer that was, or can still be,       *)
(* written to.                                                             *)
Written ==
  \A t \in Thread : at[t] # "idle" /\ out[t] = "blank" =>
    at[t] = "return" /\ status[t] # 0

NoBlankInv == Written /\ NoBlankAnswers

LEMMA InitBlank == Init => NoBlankInv
BY DEF Init, NoBlankInv, Written, NoBlankAnswers, NoAnswer

LEMMA NextBlank ==
  ~SGX /\ TypeInv /\ NoBlankInv /\ [Next]_vars => NoBlankInv'
<1> SUFFICES ASSUME ~SGX, TypeInv, NoBlankInv, [Next]_vars
             PROVE  NoBlankInv'
  OBVIOUS
<1> USE DEF TypeInv, TypeOK, NoBlankInv, Written, NoBlankAnswers, GoesOn, Fails, Runs
<1>1. ASSUME NEW t \in Thread, NEW f \in Fn, Call(t, f)
      PROVE  NoBlankInv'
  BY <1>1 DEF Call
<1>2. ASSUME NEW t \in Thread,
             Enter(t) \/ ReadA(t) \/ WriteA(t) \/ GenBegin(t) \/ GenEnd(t)
               \/ EvpNew(t) \/ RsaNew(t) \/ AssignRsa(t) \/ FinishKeyGen(t)
      PROVE  NoBlankInv'
  <2>1. UNCHANGED <<status, out, result>>
    BY <1>2 DEF Enter, ReadA, WriteA, GenBegin, GenEnd, EvpNew, RsaNew, AssignRsa,
                FinishKeyGen, localVars, callVars
  <2>2. at[t] \notin {"idle", "return"} /\ \A s \in Thread \ {t} : at'[s] = at[s]
    BY <1>2 DEF Enter, ReadA, WriteA, GenBegin, GenEnd, EvpNew, RsaNew, AssignRsa,
                FinishKeyGen
  <2>3. QED
    BY <2>1, <2>2
<1>3. ASSUME NEW t \in Thread, InitCrypto(t)
      PROVE  NoBlankInv'
  BY <1>3 DEF InitCrypto, callVars, LocalOK
<1>4. ASSUME NEW t \in Thread, PickKey(t)
      PROVE  NoBlankInv'
  BY <1>4 DEF PickKey, callVars
<1>5. ASSUME NEW t \in Thread, UseKey(t)
      PROVE  NoBlankInv'
  <2>1. UNCHANGED result /\ \A s \in Thread \ {t} :
          at'[s] = at[s] /\ status'[s] = status[s] /\ out'[s] = out[s]
    BY <1>5 DEF UseKey, callVars
  <2>2. at'[t] = "return" /\ (out'[t] # "blank" \/ status'[t] # 0)
    BY <1>5 DEF UseKey, ErrorStatus
  <2>3. QED
    BY <2>1, <2>2
<1>6. ASSUME NEW t \in Thread, Return(t)
      PROVE  NoBlankInv'
  <2>1. Answer(t).kind # "blank"
    BY <1>6 DEF Return, Answer
  <2>2. result' = [result EXCEPT ![t] = Answer(t)] /\ UNCHANGED <<status, out>>
    BY <1>6 DEF Return, localVars
  <2>3. at' = [at EXCEPT ![t] = "idle"]
    BY <1>6 DEF Return
  <2>4. QED
    BY <2>1, <2>2, <2>3
<1>7. ASSUME NEW t \in Thread, Abort(t) \/ Crash(t) \/ ReturnAborts(t)
      PROVE  NoBlankInv'
  BY <1>7 DEF Abort, Crash, ReturnAborts, localVars, callVars
<1>8. CASE Load \/ Upgrade \/ Delete \/ Purge \/ PowerTransition \/ UNCHANGED vars
  BY <1>8 DEF Load, Upgrade, Delete, Purge, PowerTransition, vars, localVars, callVars
<1>9. QED
  BY <1>1, <1>2, <1>3, <1>4, <1>5, <1>6, <1>7, <1>8 DEF Next, Step, KeyGen

(* The plain version never hands out a buffer nothing was written to,      *)
(* whatever memory it has: my_...() aborts on any status but 0.            *)
THEOREM PlainNeverBlank == ~SGX => (Spec => []NoBlankAnswers)
<1> SUFFICES ASSUME ~SGX
             PROVE  Spec => []NoBlankAnswers
  OBVIOUS
<1>1. Init => NoBlankInv
  BY InitBlank
<1>2. TypeInv /\ NoBlankInv /\ [Next]_vars => NoBlankInv'
  BY NextBlank
<1>3. NoBlankInv => NoBlankAnswers
  BY DEF NoBlankInv
<1>4. QED
  BY <1>1, <1>2, <1>3, TypeInvariant, PTL DEF Spec
=============================================================================
