------------------------- MODULE LaunchToken_proofs -------------------------
(* Proofs about LaunchToken, for any BEAMs, images and numbers of loads.   *)
EXTENDS LaunchToken, TLAPS

(* What a BEAM has at each place of initialize_enclave().                  *)
LoadInv ==
  \A b \in Beam :
    /\ at[b] \in {"open", "fopen", "read", "create"} => ~enclave[b] /\ ret[b] = 1
    /\ at[b] \in {"reopen", "save"} => enclave[b] /\ ret[b] = 1
    /\ at[b] = "idle" => (ret[b] # 1 => (ret[b] = 0 <=> enclave[b]))

(* Every token, in the file or in a buffer, was issued.                    *)
TokenInv ==
  /\ file \in Image => file \in issued
  /\ \A b \in Beam :
       /\ at[b] \in {"open", "fopen"} => token[b] = Zero
       /\ at[b] = "create" => token[b] \in issued \cup {Zero}
       /\ at[b] \in {"reopen", "save"} => token[b] \in issued

(* A BEAM that has truncated the file, or is about to, will save a token.  *)
Saving(b) ==
  \/ at[b] \in {"read", "create"} /\ fp[b] = "write"
  \/ at[b] \in {"reopen", "save"}

StreamInv ==
  /\ \A b \in Beam : at[b] = "fopen" => fp[b] = "null"
  /\ \A b \in Beam : at[b] = "create" /\ fp[b] = "write" => token[b] = Zero
  /\ \A b \in Beam : at[b] \in {"read", "create"} /\ ~spoilt => fp[b] # "null"
  /\ ~spoilt /\ issued # {} => file \in issued \/ \E b \in Beam : Saving(b)

IInv == TypeOK /\ LoadInv /\ TokenInv /\ StreamInv

-----------------------------------------------------------------------------
LEMMA InitInv == Init => IInv
<1> SUFFICES ASSUME Init PROVE IInv
  OBVIOUS
<1>1. TypeOK
  <2>1. ret \in [Beam -> {-1, 0, 1}] /\ enclave \in [Beam -> BOOLEAN]
    BY DEF Init
  <2>2. loads \in 0 .. MaxLoads /\ builds \in 0 .. MaxBuilds
    BY BoundsAssumption DEF Init
  <2> QED
    BY <2>1, <2>2 DEF Init, TypeOK
<1>2. LoadInv
  BY DEF Init, LoadInv
<1>3. TokenInv
  BY DistinctAssumption DEF Init, TokenInv
<1>4. StreamInv
  BY DEF Init, StreamInv
<1> QED
  BY <1>1, <1>2, <1>3, <1>4 DEF IInv

LEMMA TypeStep == TypeOK /\ [Next]_vars => TypeOK'
<1> SUFFICES ASSUME TypeOK, [Next]_vars PROVE TypeOK'
  OBVIOUS
<1> USE DEF TypeOK, Goto, Returns, fileVars, historyVars, boundVars
<1>1. ASSUME NEW b \in Beam, Load(b) PROVE TypeOK'
  BY <1>1, BoundsAssumption DEF Load
<1>2. ASSUME NEW b \in Beam, initialize_enclave(b) PROVE TypeOK'
  <2>1. CASE Open(b) \/ OpenNew(b) \/ OpenFails(b)
    BY <2>1 DEF Open, OpenNew, OpenFails
  <2>2. CASE Read(b)
    BY <2>2 DEF Read
  <2>3. CASE CreateHit(b) \/ CreateFails(b)
    BY <2>3 DEF CreateHit, CreateFails
  <2>4. CASE CreateUpdates(b)
    BY <2>4 DEF CreateUpdates
  <2>5. CASE Reopen(b) \/ ReopenFails(b)
    BY <2>5 DEF Reopen, ReopenFails
  <2>6. CASE Save(b) \/ SaveShort(b)
    BY <2>6 DEF Save, SaveShort
  <2> QED
    BY <1>2, <2>1, <2>2, <2>3, <2>4, <2>5, <2>6 DEF initialize_enclave
<1>3. ASSUME NEW b \in Beam, Exit(b) PROVE TypeOK'
  BY <1>3 DEF Exit
<1>4. ASSUME NEW i \in Image, Build(i) PROVE TypeOK'
  BY <1>4, BoundsAssumption DEF Build, loadVars
<1>5. CASE UNCHANGED vars
  BY <1>5 DEF vars, loadVars
<1> QED
  BY <1>1, <1>2, <1>3, <1>4, <1>5 DEF Next

-----------------------------------------------------------------------------
LEMMA LoadStep == TypeOK /\ LoadInv /\ [Next]_vars => LoadInv'
<1> SUFFICES ASSUME TypeOK, LoadInv, [Next]_vars PROVE LoadInv'
  OBVIOUS
<1> USE DEF TypeOK, LoadInv, Goto, Returns
<1>1. ASSUME NEW b \in Beam, Load(b) PROVE LoadInv'
  BY <1>1 DEF Load
<1>2. ASSUME NEW b \in Beam, initialize_enclave(b) PROVE LoadInv'
  <2>1. CASE Open(b) \/ OpenNew(b) \/ OpenFails(b)
    BY <2>1 DEF Open, OpenNew, OpenFails
  <2>6. CASE Read(b) \/ Reopen(b)
    BY <2>6 DEF Read, Reopen
  <2>2. CASE CreateHit(b)
    BY <2>2 DEF CreateHit
  <2>4. CASE CreateUpdates(b)
    BY <2>4 DEF CreateUpdates
  <2>5. CASE CreateFails(b)
    BY <2>5 DEF CreateFails
  <2>3. CASE ReopenFails(b) \/ Save(b) \/ SaveShort(b)
    BY <2>3 DEF ReopenFails, Save, SaveShort
  <2> QED
    BY <1>2, <2>1, <2>2, <2>3, <2>4, <2>5, <2>6 DEF initialize_enclave
<1>3. ASSUME NEW b \in Beam, Exit(b) PROVE LoadInv'
  BY <1>3 DEF Exit
<1>4. CASE (\E i \in Image : Build(i)) \/ UNCHANGED vars
  BY <1>4 DEF Build, vars, loadVars
<1> QED
  BY <1>1, <1>2, <1>3, <1>4 DEF Next

LEMMA TokenStep == TypeOK /\ TokenInv /\ [Next]_vars => TokenInv'
<1> SUFFICES ASSUME TypeOK, TokenInv, [Next]_vars PROVE TokenInv'
  OBVIOUS
<1> USE DistinctAssumption DEF TypeOK, TokenInv, Goto, Returns, fileVars, historyVars
<1>1. ASSUME NEW b \in Beam, Load(b) PROVE TokenInv'
  BY <1>1 DEF Load
<1>2. ASSUME NEW b \in Beam, initialize_enclave(b) PROVE TokenInv'
  <2>1. CASE Open(b) \/ OpenNew(b) \/ OpenFails(b) \/ Read(b) \/ Reopen(b)
    BY <2>1 DEF Open, OpenNew, OpenFails, Read, Reopen
  <2>2. CASE CreateHit(b) \/ CreateFails(b) \/ ReopenFails(b)
    BY <2>2 DEF CreateHit, CreateFails, ReopenFails
  <2>3. CASE CreateUpdates(b)
    BY <2>3 DEF CreateUpdates
  <2>4. CASE Save(b) \/ SaveShort(b)
    BY <2>4 DEF Save, SaveShort
  <2> QED
    BY <1>2, <2>1, <2>2, <2>3, <2>4 DEF initialize_enclave
<1>3. ASSUME NEW b \in Beam, Exit(b) PROVE TokenInv'
  BY <1>3 DEF Exit
<1>4. CASE (\E i \in Image : Build(i)) \/ UNCHANGED vars
  BY <1>4 DEF Build, vars, loadVars
<1> QED
  BY <1>1, <1>2, <1>3, <1>4 DEF Next

-----------------------------------------------------------------------------
(* The step that truncates the file, or gets a token, is one of a BEAM     *)
(* that will save; the one that saves leaves a token.                      *)
LEMMA StreamStep == TypeOK /\ TokenInv /\ StreamInv /\ [Next]_vars => StreamInv'
<1> SUFFICES ASSUME TypeOK, TokenInv, StreamInv, [Next]_vars PROVE StreamInv'
  OBVIOUS
<1> USE DistinctAssumption
    DEF TypeOK, StreamInv, Saving, Goto, Returns, fileVars, historyVars
<1>1. ASSUME NEW b \in Beam, Load(b) PROVE StreamInv'
  BY <1>1 DEF Load
<1>2. ASSUME NEW b \in Beam, initialize_enclave(b) PROVE StreamInv'
  <2>1. CASE Open(b)
    BY <2>1 DEF Open
  <2>2. CASE OpenNew(b)
    BY <2>2 DEF OpenNew
  <2>3. CASE Read(b)
    BY <2>3 DEF Read
  <2>4. CASE CreateHit(b)
    BY <2>4 DEF CreateHit
  <2>5. CASE CreateUpdates(b)
    BY <2>5 DEF CreateUpdates
  <2>6. CASE Reopen(b)
    BY <2>6 DEF Reopen
  <2>7. CASE Save(b)
    BY <2>7 DEF Save, TokenInv
  <2>8. CASE OpenFails(b)
    BY <2>8 DEF OpenFails
  <2>9. CASE CreateFails(b) \/ ReopenFails(b)
    BY <2>9 DEF CreateFails, ReopenFails
  <2>10. CASE SaveShort(b)
    BY <2>10 DEF SaveShort
  <2> QED
    BY <1>2, <2>1, <2>2, <2>3, <2>4, <2>5, <2>6, <2>7, <2>8, <2>9, <2>10
       DEF initialize_enclave
<1>3. ASSUME NEW b \in Beam, Exit(b) PROVE StreamInv'
  BY <1>3 DEF Exit
<1>4. CASE (\E i \in Image : Build(i)) \/ UNCHANGED vars
  BY <1>4 DEF Build, vars, loadVars
<1> QED
  BY <1>1, <1>2, <1>3, <1>4 DEF Next

LEMMA Invariance == Spec => []IInv
<1>1. IInv /\ [Next]_vars => IInv'
  BY TypeStep, LoadStep, TokenStep, StreamStep DEF IInv
<1> QED
  BY InitInv, <1>1, PTL DEF Spec

-----------------------------------------------------------------------------
(* Every variable has its type.                                            *)
THEOREM TypeCorrect == Spec => []TypeOK
<1>1. IInv => TypeOK
  BY DEF IInv
<1> QED
  BY <1>1, Invariance, PTL

(* App.c:166: sgx_create_enclave is given an issued token or none, for any *)
(* number of BEAMs that share the file.                                    *)
THEOREM OnlyIssuedThm == Spec => []OnlyIssuedTokens
<1>1. IInv => OnlyIssuedTokens
  BY DEF IInv, TokenInv, OnlyIssuedTokens
<1> QED
  BY <1>1, Invariance, PTL

(* App.c:175-200: no failure of the file makes a load fail.                *)
THEOREM ReturnsThm == Spec => []ReturnsAsEnclave
<1>1. IInv => ReturnsAsEnclave
  BY DEF IInv, LoadInv, ReturnsAsEnclave
<1> QED
  BY <1>1, Invariance, PTL

(* App.c:192: however the loads of any number of BEAMs interleave, a token *)
(* is there when they are through, unless one of them was cut short.       *)
THEOREM SavedThm == Spec => []SavedForNext
<1>1. IInv => SavedForNext
  BY DEF IInv, TypeOK, StreamInv, Saving, SavedForNext
<1> QED
  BY <1>1, Invariance, PTL

-----------------------------------------------------------------------------
(* The refinement: a step of one BEAM changes that BEAM's phase, and what  *)
(* it has found, only.                                                     *)
LEMMA OneBeam ==
  ASSUME NEW b \in Beam,
         \A c \in Beam \ {b} : /\ at'[c] = at[c] /\ enclave'[c] = enclave[c]
                              /\ ret'[c] = ret[c] /\ token'[c] = token[c]
  PROVE  /\ Phases' = [Phases EXCEPT ![b] = Phase(b)']
         /\ Got' = [Got EXCEPT ![b] = IF at'[b] = "create" THEN token'[b] ELSE Zero]
<1>1. \A c \in Beam \ {b} : Phase(c)' = Phase(c)
  BY DEF Phase
<1> QED
  BY <1>1 DEF Phases, Got

LEMMA OneCell ==
  /\ file' \notin Image => Cell' = Zero
  /\ file' \in Image => Cell' = file'
  /\ file' = file => Cell' = Cell
BY DEF Cell

LEMMA CacheInit == Init => Cache!Init
BY DistinctAssumption DEF Init, Cache!Init, Cell, Phases, Phase, Got

LEMMA CacheStep == IInv /\ [Next]_vars => [Cache!Next]_(Cache!vars)
<1> SUFFICES ASSUME IInv, [Next]_vars PROVE [Cache!Next]_(Cache!vars)
  OBVIOUS
<1> USE DEF TypeOK, Goto, Returns, fileVars, historyVars
<1>0. TypeOK /\ LoadInv /\ TokenInv
  BY DEF IInv
<1>1. ASSUME NEW b \in Beam, Load(b) PROVE Cache!Begin(b)
  <2>1. /\ Phases' = [Phases EXCEPT ![b] = "looking"]
        /\ Got' = [Got EXCEPT ![b] = Zero]
    BY <1>0, <1>1, OneBeam DEF Load, Phase
  <2>2. Phases[b] \in {"idle", "failed"} /\ Got[b] = Zero
    BY <1>1 DEF Load, Phases, Phase, Got
  <2>3. Got' = Got
    BY <2>1, <2>2 DEF Got
  <2> QED
    BY <1>1, <2>1, <2>2, <2>3, OneCell DEF Load, Cache!Begin
<1>2. ASSUME NEW b \in Beam, Open(b) \/ OpenNew(b)
      PROVE  Cache!Forget \/ UNCHANGED Cache!vars
  <2>1. Phases' = Phases /\ Got' = Got
    BY <1>0, <1>2 DEF Open, OpenNew, Phases, Phase, Got
  <2>2. Cell' \in {Cell, Zero} /\ issued' = issued
    BY <1>2, OneCell, DistinctAssumption DEF Open, OpenNew
  <2> QED
    BY <2>1, <2>2 DEF Cache!Forget, Cache!vars
<1>3. ASSUME NEW b \in Beam, OpenFails(b) \/ Read(b) PROVE Cache!Look(b)
  <2>1. Phases' = [Phases EXCEPT ![b] = "looked"] /\ Phases[b] = "looking"
    BY <1>0, <1>3, OneBeam DEF OpenFails, Read, Phases, Phase
  <2>2. Got' = [Got EXCEPT ![b] = token'[b]]
    BY <1>0, <1>3, OneBeam DEF OpenFails, Read
  <2>3. token'[b] \in {Cell, Zero}
    BY <1>0, <1>3 DEF OpenFails, Read, TokenInv, Cell
  <2>4. Cell' = Cell /\ issued' = issued
    BY <1>3, OneCell DEF OpenFails, Read
  <2> QED
    BY <2>1, <2>2, <2>3, <2>4 DEF Cache!Look
<1>4. ASSUME NEW b \in Beam, CreateHit(b) \/ CreateUpdates(b) PROVE Cache!Launch(b)
  <2>1. Phases' = [Phases EXCEPT ![b] = "running"] /\ Phases[b] = "looked"
    <3>1. CASE CreateHit(b)
      BY <1>0, <3>1, OneBeam DEF CreateHit, Phases, Phase
    <3>2. CASE CreateUpdates(b)
      <4>1. Phase(b)' = "running" /\ Phase(b) = "looked"
        <5>1. CASE fp[b] = "null"
          BY <1>0, <3>2, <5>1 DEF CreateUpdates, Phase
        <5>2. CASE fp[b] # "null"
          BY <1>0, <3>2, <5>2 DEF CreateUpdates, Phase
        <5> QED
          BY <5>1, <5>2
      <4>2. Phases' = [Phases EXCEPT ![b] = Phase(b)']
        BY <1>0, <3>2, OneBeam DEF CreateUpdates
      <4> QED
        BY <4>1, <4>2 DEF Phases
    <3> QED
      BY <1>4, <3>1, <3>2
  <2>2. Got' = [Got EXCEPT ![b] = Zero]
    <3>1. CASE CreateHit(b)
      BY <1>0, <3>1, OneBeam DEF CreateHit
    <3>2. CASE CreateUpdates(b)
      BY <1>0, <3>2, OneBeam DEF CreateUpdates
    <3> QED
      BY <1>4, <3>1, <3>2
  <2>3. \/ Got[b] # Zero /\ issued' = issued
        \/ \E k \in Image : issued' = issued \cup {k}
    BY <1>0, <1>4, DistinctAssumption DEF CreateHit, CreateUpdates, Got
  <2>4. Cell' = Cell
    BY <1>4, OneCell DEF CreateHit, CreateUpdates
  <2> QED
    BY <2>1, <2>2, <2>3, <2>4 DEF Cache!Launch
<1>5. ASSUME NEW b \in Beam, CreateFails(b) PROVE Cache!Fail(b)
  <2>1. Phases' = [Phases EXCEPT ![b] = "failed"] /\ Phases[b] = "looked"
    BY <1>0, <1>5, OneBeam DEF CreateFails, LoadInv, Phases, Phase
  <2>2. Got' = [Got EXCEPT ![b] = Zero]
    BY <1>0, <1>5, OneBeam DEF CreateFails
  <2> QED
    BY <1>5, <2>1, <2>2, OneCell DEF CreateFails, Cache!Fail
<1>6. ASSUME NEW b \in Beam, Reopen(b) \/ ReopenFails(b) \/ Save(b) \/ SaveShort(b)
      PROVE  Cache!Forget \/ Cache!Store \/ UNCHANGED Cache!vars
  <2>1. Phases' = Phases /\ Got' = Got
    <3>1. CASE Reopen(b)
      BY <1>0, <3>1 DEF Reopen, Phases, Phase, Got
    <3>2. CASE ReopenFails(b) \/ Save(b) \/ SaveShort(b)
      BY <1>0, <3>2 DEF ReopenFails, Save, SaveShort, LoadInv, Phases, Phase, Got
    <3> QED
      BY <1>6, <3>1, <3>2
  <2>2. issued' = issued /\ Cell' \in issued \cup {Cell, Zero}
    <3>1. CASE Reopen(b) \/ ReopenFails(b) \/ SaveShort(b)
      BY <1>0, <3>1, OneCell, DistinctAssumption DEF Reopen, ReopenFails, SaveShort, Cell
    <3>2. CASE Save(b)
      BY <1>0, <3>2, OneCell DEF Save, TokenInv
    <3> QED
      BY <1>6, <3>1, <3>2
  <2> QED
    BY <2>1, <2>2 DEF Cache!Forget, Cache!Store, Cache!vars
<1>7. ASSUME NEW b \in Beam, Exit(b) PROVE Cache!End(b)
  <2>1. Phases' = [Phases EXCEPT ![b] = "idle"] /\ Phases[b] # "idle"
    <3>1. Phase(b)' = "idle"
      BY <1>0, <1>7 DEF Exit, Phase
    <3>2. Phase(b) # "idle"
      BY <1>0, <1>7 DEF Exit, LoadInv, Phase
    <3>3. Phases' = [Phases EXCEPT ![b] = Phase(b)']
      BY <1>0, <1>7, OneBeam DEF Exit
    <3> QED
      BY <3>1, <3>2, <3>3 DEF Phases
  <2>2. Got' = [Got EXCEPT ![b] = Zero]
    BY <1>0, <1>7, OneBeam DEF Exit
  <2> QED
    BY <1>7, <2>1, <2>2, OneCell DEF Exit, Cache!End
<1>8. ASSUME (\E i \in Image : Build(i)) \/ UNCHANGED vars PROVE UNCHANGED Cache!vars
  BY <1>8 DEF Build, vars, loadVars, Cache!vars, Cell, Phases, Phase, Got
<1> QED
  BY <1>1, <1>2, <1>3, <1>4, <1>5, <1>6, <1>7, <1>8
     DEF Next, initialize_enclave, Cache!Next

(* initialize_enclave() in any number of BEAMs that share the file is a    *)
(* cache of one cell that may forget.                                      *)
THEOREM Refinement == Spec => ImplementsTokenCache
BY CacheInit, CacheStep, Invariance, PTL DEF Spec, Cache!Spec, ImplementsTokenCache
=============================================================================
