---------------------------- MODULE LaunchToken ----------------------------
(***************************************************************************)
(* erlang-nif_SSL/App/App.c, initialize_enclave(): the launch token is     *)
(* kept in $HOME/enclave.token between two loads of the enclave.  Every    *)
(* BEAM of the user shares the file, and nothing locks it: it is read, or  *)
(* created, at the beginning, and truncated and written when the SDK has   *)
(* updated the token.                                                      *)
(*                                                                         *)
(* External: the SDK, which updates a token that is not the one of the     *)
(* enclave's image, and the file system.  The 1024 bytes of a token are    *)
(* read by one read, and written, when the stream is closed, by one write; *)
(* a write may be cut short only where the file has to grow.               *)
(***************************************************************************)
EXTENDS Integers

CONSTANTS
  Beam,      \* the BEAMs, each runs initialize_enclave() from one scheduler
  Image,     \* the builds of the enclave; a token is named after its image
  Zero,      \* the token that is all zero
  Torn,      \* part of a token
  MaxLoads,  \* bound: loads
  MaxBuilds  \* bound: times the enclave is rebuilt

ASSUME BoundsAssumption == MaxLoads \in Nat /\ MaxBuilds \in Nat
ASSUME DistinctAssumption == Zero \notin Image /\ Torn \notin Image /\ Zero # Torn

VARIABLES
  installed,  \* the image ENCLAVE_FILENAME is
  file,       \* what enclave.token holds; Zero is an empty file
  exists,     \* there is one
  at,         \* where each BEAM is
  fp,         \* its stream: "null", "read" or "write"
  token,      \* its launch token
  ret,        \* what initialize_enclave() returned; 1 before that
  enclave,    \* its enclave runs
  issued,     \* history: the tokens the SDK gave out
  spoilt,     \* history: a load was cut short, or could not write
  loads, builds

fileVars == <<file, exists>>
loadVars == <<at, fp, token, ret, enclave>>
historyVars == <<issued, spoilt>>
boundVars == <<loads, builds>>
vars == <<installed, fileVars, loadVars, historyVars, boundVars>>

Init ==
  /\ installed \in Image
  /\ file = Zero /\ exists = FALSE
  /\ at = [b \in Beam |-> "idle"]
  /\ fp = [b \in Beam |-> "null"]
  /\ token = [b \in Beam |-> Zero]
  /\ ret = [b \in Beam |-> 1]
  /\ enclave = [b \in Beam |-> FALSE]
  /\ issued = {} /\ spoilt = FALSE
  /\ loads = 0 /\ builds = 0

-----------------------------------------------------------------------------
Goto(b, p) == at' = [at EXCEPT ![b] = p]

(* The BEAM loads the NIF library.                                         *)
Load(b) ==
  /\ at[b] = "idle" /\ ~enclave[b] /\ loads < MaxLoads
  /\ Goto(b, "open")
  /\ token' = [token EXCEPT ![b] = Zero]
  /\ ret' = [ret EXCEPT ![b] = 1]
  /\ loads' = loads + 1
  /\ UNCHANGED <<installed, fileVars, fp, enclave, historyVars, builds>>

(* fopen(token_path, "rb")                                                 *)
Open(b) ==
  /\ at[b] = "open"
  /\ fp' = [fp EXCEPT ![b] = IF exists THEN "read" ELSE "null"]
  /\ Goto(b, IF exists THEN "read" ELSE "fopen")
  /\ UNCHANGED <<installed, fileVars, token, ret, enclave, historyVars, boundVars>>

(* fopen(token_path, "wb"): another BEAM may have created, and filled, the *)
(* file in the meantime.                                                   *)
OpenNew(b) ==
  /\ at[b] = "fopen"
  /\ fp' = [fp EXCEPT ![b] = "write"]
  /\ file' = Zero /\ exists' = TRUE
  /\ Goto(b, "read")
  /\ UNCHANGED <<installed, token, ret, enclave, historyVars, boundVars>>

(* The home directory cannot be written to: no token is kept.              *)
OpenFails(b) ==
  /\ at[b] = "fopen"
  /\ Goto(b, "create")
  /\ spoilt' = TRUE
  /\ UNCHANGED <<installed, fileVars, fp, token, ret, enclave, issued, boundVars>>

(* Variant: a token that was read in part is not cleared.                  *)
Read_Kept(b) ==
  /\ at[b] = "read"
  /\ token' = [token EXCEPT ![b] = IF fp[b] = "read" THEN file ELSE Zero]
  /\ Goto(b, "create")
  /\ UNCHANGED <<installed, fileVars, fp, ret, enclave, historyVars, boundVars>>

(* fread: nothing, from an empty file or a stream that cannot be read; a   *)
(* part, which is cleared; a token.                                        *)
Read(b) ==
  /\ at[b] = "read"
  /\ token' = [token EXCEPT ![b] =
                 IF fp[b] = "read" /\ file \in Image THEN file ELSE Zero]
  /\ Goto(b, "create")
  /\ UNCHANGED <<installed, fileVars, fp, ret, enclave, historyVars, boundVars>>

(* Variant: what it returns is sgx_create_enclave's status.                *)
Returns_Status(b, r) ==
  /\ Goto(b, "idle")
  /\ ret' = [ret EXCEPT ![b] = IF r = -1 THEN 2 ELSE r]
  /\ fp' = [fp EXCEPT ![b] = "null"]

(* initialize_enclave() returns r, after fclose(fp).                       *)
Returns(b, r) ==
  /\ Goto(b, "idle")
  /\ ret' = [ret EXCEPT ![b] = r]
  /\ fp' = [fp EXCEPT ![b] = "null"]

(* sgx_create_enclave.                                                     *)
CreateHit(b) ==
  /\ at[b] = "create" /\ token[b] = installed
  /\ enclave' = [enclave EXCEPT ![b] = TRUE]
  /\ Returns(b, 0)
  /\ UNCHANGED <<installed, fileVars, token, historyVars, boundVars>>

(* The token is updated; it is not saved without a stream.                 *)
CreateUpdates(b) ==
  /\ at[b] = "create" /\ token[b] # installed
  /\ enclave' = [enclave EXCEPT ![b] = TRUE]
  /\ token' = [token EXCEPT ![b] = installed]
  /\ issued' = issued \cup {installed}
  /\ IF fp[b] = "null" THEN Returns(b, 0) ELSE Goto(b, "reopen") /\ UNCHANGED <<fp, ret>>
  /\ UNCHANGED <<installed, fileVars, spoilt, boundVars>>

(* Variant: the token is saved before the status is looked at.             *)
CreateFails_Saves(b) ==
  /\ at[b] = "create"
  /\ Returns(b, -1)
  /\ file' = IF fp[b] = "write" THEN installed ELSE file
  /\ spoilt' = TRUE
  /\ UNCHANGED <<installed, exists, token, enclave, issued, boundVars>>

CreateFails(b) ==
  /\ at[b] = "create"
  /\ Returns(b, -1)
  /\ spoilt' = TRUE
  /\ UNCHANGED <<installed, fileVars, token, enclave, issued, boundVars>>

(* freopen(token_path, "wb", fp): the file is truncated.                   *)
Reopen(b) ==
  /\ at[b] = "reopen"
  /\ fp' = [fp EXCEPT ![b] = "write"]
  /\ file' = Zero /\ exists' = TRUE
  /\ Goto(b, "save")
  /\ UNCHANGED <<installed, token, ret, enclave, historyVars, boundVars>>

(* Variant: a token that cannot be kept fails the load.                    *)
ReopenFails_Reported(b) ==
  /\ at[b] = "reopen"
  /\ Returns(b, -1)
  /\ spoilt' = TRUE
  /\ UNCHANGED <<installed, fileVars, token, enclave, issued, boundVars>>

ReopenFails(b) ==
  /\ at[b] = "reopen"
  /\ Returns(b, 0)
  /\ spoilt' = TRUE
  /\ UNCHANGED <<installed, fileVars, token, enclave, issued, boundVars>>

(* Variant: return without fclose(fp), while the BEAM goes on.             *)
Save_NotClosed(b) ==
  /\ at[b] = "save"
  /\ Returns(b, 0)
  /\ UNCHANGED <<installed, fileVars, token, enclave, historyVars, boundVars>>

(* fwrite, and fclose, which writes the buffer out.                        *)
Save(b) ==
  /\ at[b] = "save"
  /\ file' = token[b]
  /\ Returns(b, 0)
  /\ UNCHANGED <<installed, exists, token, enclave, historyVars, boundVars>>

(* The disk is full: fclose(fp) says so, but nobody looks.                 *)
SaveShort(b) ==
  /\ at[b] = "save" /\ file \notin Image
  /\ file' \in {file, Torn}
  /\ Returns(b, 0)
  /\ spoilt' = TRUE
  /\ UNCHANGED <<installed, exists, token, enclave, issued, boundVars>>

-----------------------------------------------------------------------------
(* The BEAM ends, or dies: in initialize_enclave() the load is cut short,  *)
(* and what its stream has in its buffer is lost.                          *)
Exit(b) ==
  /\ at[b] # "idle" \/ enclave[b]
  /\ Goto(b, "idle")
  /\ fp' = [fp EXCEPT ![b] = "null"]
  /\ enclave' = [enclave EXCEPT ![b] = FALSE]
  /\ ret' = [ret EXCEPT ![b] = 1]
  /\ spoilt' = (spoilt \/ at[b] # "idle")
  /\ UNCHANGED <<installed, fileVars, token, issued, boundVars>>

(* The enclave is built anew.                                              *)
Build(i) ==
  /\ builds < MaxBuilds
  /\ installed' = i
  /\ builds' = builds + 1
  /\ UNCHANGED <<fileVars, loadVars, historyVars, loads>>

initialize_enclave(b) ==
  \/ Open(b) \/ OpenNew(b) \/ OpenFails(b) \/ Read(b)
  \/ CreateHit(b) \/ CreateUpdates(b) \/ CreateFails(b)
  \/ Reopen(b) \/ ReopenFails(b) \/ Save(b) \/ SaveShort(b)

Next ==
  \/ \E b \in Beam : Load(b) \/ initialize_enclave(b) \/ Exit(b)
  \/ \E i \in Image : Build(i)

Spec == Init /\ [][Next]_vars

-----------------------------------------------------------------------------
(* Properties.                                                             *)

TypeOK ==
  /\ installed \in Image
  /\ file \in Image \cup {Zero, Torn} /\ exists \in BOOLEAN
  /\ at \in [Beam -> {"idle", "open", "fopen", "read", "create", "reopen", "save"}]
  /\ fp \in [Beam -> {"null", "read", "write"}]
  /\ token \in [Beam -> Image \cup {Zero, Torn}]
  /\ ret \in [Beam -> {-1, 0, 1}]
  /\ enclave \in [Beam -> BOOLEAN]
  /\ issued \subseteq Image /\ spoilt \in BOOLEAN
  /\ loads \in 0 .. MaxLoads /\ builds \in 0 .. MaxBuilds

(* App.c:166, "if token is invalid, clear the buffer": whatever other      *)
(* BEAMs do to the file, and wherever they die, sgx_create_enclave is      *)
(* given a token the SDK once issued, or none.                             *)
OnlyIssuedTokens ==
  \A b \in Beam : at[b] = "create" => token[b] \in issued \cup {Zero}

(* The file is a cache: initialize_enclave() returns 0 exactly when its    *)
(* enclave runs, whatever happens to the token.                            *)
ReturnsAsEnclave ==
  \A b \in Beam : at[b] = "idle" /\ ret[b] # 1 => (ret[b] = 0 <=> enclave[b])

(* App.c:192, "reopen the file with write capablity": BEAMs that start at  *)
(* the same time truncate each other's file, but when all are through, and *)
(* none failed, died or found the disk full, a token has been saved for    *)
(* the next load.                                                          *)
SavedForNext ==
  ~spoilt /\ issued # {} /\ (\A b \in Beam : at[b] = "idle") => file \in issued

(* initialize_enclave() implements TokenCache: what the file holds in      *)
(* whole is the cell, and opening it to write forgets.                     *)
Phase(b) ==
  CASE at[b] \in {"open", "fopen", "read"} -> "looking"
    [] at[b] = "create" -> "looked"
    [] at[b] \in {"reopen", "save"} -> "running"
    [] at[b] = "idle" /\ enclave[b] -> "running"
    [] at[b] = "idle" /\ ~enclave[b] /\ ret[b] = -1 -> "failed"
    [] OTHER -> "idle"

Cell == IF file \in Image THEN file ELSE Zero
Phases == [b \in Beam |-> Phase(b)]
Got == [b \in Beam |-> IF at[b] = "create" THEN token[b] ELSE Zero]

Cache == INSTANCE TokenCache WITH
  Proc <- Beam,
  Token <- Image,
  Nothing <- Zero,
  cell <- Cell,
  phase <- Phases,
  got <- Got

ImplementsTokenCache == Cache!Spec
=============================================================================
