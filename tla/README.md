# TLA+ models of the Erlang-SGX prototypes

The repository holds prototypes that let Erlang call C code inside Intel SGX
enclaves, and an abandoned attempt at remote attestation. This directory models
their control: what the processes, threads, enclaves and messages may do, in
which order, and what can fail in between. TLC checks the models on small
instances; TLAPS proves, for every value of the constants, every safety property
the passing runs check, and that the detailed models implement the abstract ones.

- [Inventory](#inventory): the parts of the system
- [Modules](#modules): what models what, and how it corresponds to the code
- [Runs](#runs): what TLC checks, with which bounds
- [Proofs](#proofs): what TLAPS proves, and along which argument
- [Findings](#findings): where the code does not do what the repository says
- [Not modelled](#not-modelled), and [Plan](#plan)

To check: `tlc -config CNode_sgx.cfg MCCNode.tla` and so on for the other
configurations (the `.cfg` name starts with the module's), and
`tlapm CNode_proofs.tla` for each `*_proofs.tla` and `*_refinement.tla`. Paths below are relative to
the repository root; `ra/` stands for `attestation_abandoned/erlang-c-node-remote/`, `qv/`
for `attestation_abandoned/attestation/quote-validation/QuoteVerificationServer/`.

## Inventory

### The C node (`erlang-c-node/`, `without-sgx/erlang-c-node/`)

*State.* The process: where `main()` stands, `res` (the local the reply is made
from), `emsg`, the accepted connection `fd`, `global_eid`. The enclave: a static
`int32_t a`. Around it: the kernel's listen queue, the connection's bytes in both
directions, and, in each Erlang process, a pending call and a mailbox.

*Operations.* `initialize_enclave`, `my_listen`, `erl_publish`, `erl_accept`
(once), then a loop of `erl_receive_msg`, dispatch on the function's name, ecall,
`erl_send`; on `ERL_ERROR` the loop ends, the enclave is destroyed and the
process exits. The Erlang side is `call_cnode/1`: a send to `{any, 'c1@...'}` and
a receive of `{cnode, Result}`, without a reference and without a timeout.

*Hard.* Many processes of several nodes against one thread and one connection;
sends that vanish silently; the C node dying (`abort()` when the enclave is lost)
and being started again while messages of its earlier life are on their way;
a reply that names no call.

*Correct when.* A caller gets the answer of its own call, computed once; only the
accepted node is served; what reached a connection that stays up is answered; the
process goes away with its connection, so that it can be started again.

### The NIF (`erlang-nif/`, `without-sgx/erlang-nif/`)

*State.* One `global_eid` for all versions of the Erlang module, the enclaves and
the counter in each; per scheduler thread, where it stands in a NIF.

*Operations.* `load`, `upgrade`, `unload` (called by the code server), and
`increment_nif`, `rtrn_nif`, which make one ecall each and `abort()` the BEAM if it
fails.

*Hard.* All schedulers run NIFs at once, without a lock; the module is reloaded
under its callers; the enclave has ten thread control structures (TCS) and is lost
at every power transition.

*Correct when.* An answered increment counts, once; the BEAM is aborted only when
the enclave cannot be entered; a purge takes the purged version's enclave and no
other.

### The RSA NIF (`erlang-nif_SSL/`: `App`+`Enclave` with SGX, `App_no-sgx` without)

*State.* As above, plus two globals for one key pair: `keypair` (signs, encrypts)
and `evp_pkey` (hands out the public key), and the enclave's 1 MB heap. `upgrade` makes a
new enclave, with a number, key pair and heap of its own; without SGX it goes on with the
library's data.

*Operations.* `rsa_key_gen/0`, `rsa_sign/1`, `rsa_encrypt/1`, `rsa_get_pubkey/0`
and the two counter NIFs; `load`, `upgrade` and `unload`.

*Hard.* A key generation takes seconds and publishes its objects before they are
keys; generations race each other and the users of the key; every allocation may
fail, after which `rsa_key_gen()` returns without a word.

*Correct when.* The public key handed out belongs to the pair that signs; return
code 0 means there is a key; no buffer is handed out that nothing was written to;
a reload forgets the pair and the number, and nothing of them comes back.

### The launch token (`erlang-nif_SSL/App/App.c`, `initialize_enclave`)

*State.* The file `$HOME/enclave.token`, shared by every BEAM of the user and locked by
none; per load, its stream, its token and where it stands.

*Operations.* Open or create the file, read the token or clear it, create the enclave,
and, if the SDK has updated the token, truncate the file and write it.

*Hard.* Two BEAMs start at once; a BEAM dies, or the disk is full, between the
truncation and the write; the enclave is rebuilt under a BEAM that still runs.

*Correct when.* `sgx_create_enclave` is given a token the SDK issued or none; a load
fails only if its enclave does; the next load finds a token.

### Remote attestation (`attestation_abandoned/erlang-c-node-remote/`)

*State.* `main()` of `isv_app`: `ret`, `status`, `context`, `enclave_id` and two
retry counters that survive from its first round (ECDSA) to its second (EPID); the
enclaves, each with a key exchange context and perhaps the secret; the service
provider's statics `g_sp_db` (public keys and derived keys of the session),
`g_is_sp_registered`, `g_return_ecdsa_att_key_id`.

*Operations.* msg0, msg1/msg2, msg3/attestation result, the check of the result's
MAC, the secret, clean-up; retries when the enclave is lost or the quoting enclave
is busy; verification with precomputed messages (`isv_app <index>`). Service
provider and attestation server are simulated in the same process.

*Hard.* Any of some twenty calls fails at any time; state of one round is read in
the next; `g_sp_db` is updated field by field.

*Correct when.* Only an enclave whose quote was found good has the secret; no
enclave is left running and no context open; 0 is returned only after an
attestation; the retries end.

### Quote verification (`qv/`)

*State.* One enclave and one set of collateral at a time, the locals of
`ecdsa_quote_verification` (the verdict, its date and expiry, the report the quote
verification enclave (QvE) made of them), the clock.

*Operations.* `main` verifies the quote of a file in two modes: by the QvE, whose report
is checked in an enclave of the server's own (`ecall_verify_report`: its MAC, its hash,
Intel's certificate chain, the QvE's identity), and by the untrusted library.

*Hard.* A dozen calls that may fail, some of which return early, some of which are only
printed; what is hashed in one call is compared four calls later; `do ... while (0)`
with `SGX_ERR_BREAK` as error handling in the enclave.

*Correct when.* No verdict is given that the library did not give in this mode; the
enclave and the collateral are given back on every path; the enclave refuses no genuine
report and accepts no other.

### Interactions

Erlang processes talk to the C node by messages over one TCP connection, and to a
NIF by calls on the scheduler thread they run on. C code reaches an enclave
through ecalls (synchronous, need a live enclave and a free TCS) and is called
back only to print. The BEAM's code server calls a NIF library's `load`,
`upgrade` and `unload` with all schedulers blocked. `isv_app` and the service
provider exchange messages by procedure calls and share nothing else. BEAMs that run
`erlang-nif_SSL` share the launch token file. Otherwise the prototypes do not
talk to each other.

## Modules

| module | models | builds on |
|---|---|---|
| `Int32` | `a++` on an `int32_t` | |
| `CounterService` | *abstract*: what `enclave_communicator` promises its callers | `Int32` |
| `CNode` | C node, its clients, their connections | `Int32`; implements `CounterService` |
| `ErlangNif` | the NIF under racing schedulers and reloads | `Int32`; implements `CounterService` |
| `KeyService` | *abstract*: the counter and one key pair, until the module is reloaded | `Int32` |
| `SslNif` | the RSA NIF, key generation statement by statement, loads and upgrades | `Int32`; implements `KeyService` |
| `TokenCache` | *abstract*: a cache of one cell that may forget | |
| `LaunchToken` | `initialize_enclave` in BEAMs that share a token file | implements `TokenCache` |
| `SecretRelease` | *abstract*: sessions, their attestation, the release of a secret | |
| `RemoteAttestation` | `isv_app`, the service provider, the enclaves | implements `SecretRelease` |
| `QuoteVerification` | the quote verification server, both modes, and its enclave | |
| `MC...` | constants of the runs | the module of that name |
| `..._proofs` | theorems and lemmas | the module of that name, `TLAPS` |
| `CNode_refinement`, `SslNif_refinement` | the longer refinement proofs | `CNode_proofs`, `SslNif_proofs` |

A definition whose name has a suffix after an underscore (`Take_TimesOut`,
`AssignRsa_Own`) is a *variant*: the action as it would be with a plausible bug.
No specification uses one; replacing the action by its variant must make TLC report
the property it is listed with in `PROJECT.json`, which shows that the property
depends on the code. `PROJECT.json` also maps every definition to its lines.

**CNode.** `app` is the program counter of `main()`; one action per statement that
blocks, fails or can be overtaken (`Start`, `Setup`, `Accept`, `Receive`,
`Dispatch...`, `SendReply`, `Finish`). `Exit` is shared by every way the process
ends: the kernel closes its sockets and drops what it had not received. `link` is
what each Erlang node believes of its connection (`backlog`: connected but not
accepted; `dead`: the C node is gone and the node has not noticed). `Fn` is
the class of the function's name under the two `strncmp`: "increment...",
"return...", neither. `SGX` selects the version: an `else` branch and no enclave
in the plain one. `Garbage` is what the uninitialised `res` may hold. External,
from the way the code uses them: TCP, the distribution protocol, the Erlang runtime.

**ErlangNif.** Version *v* of the module loads enclave *v*. `Load`, `Upgrade`,
`Purge` need every thread outside the NIFs (`Blocked`), which is what OTP 20, the
release the README names, guarantees around the callbacks. A call is `Call`,
`Enter`, then `IncrementRead`/`IncrementWrite` or `ReturnA`, then `Return`, with
`Abort` whenever the ecall fails or the enclave is lost under it. `done` is a
history variable: the increments answered. The plain library has one counter, kept
across an upgrade and gone with its last version.

**SslNif.** A pointer is the number of the object it names, 0 is `NULL`; an RSA
object is `partial` (allocated), `ready` (generated), `mixed` (generated into by
two threads at once) or `freed`. `InitCrypto` ... `FinishKeyGen` are the statements
of `rsa_key_gen()` that touch a global. Where the compiled code may re-read a
global or keep it in a register (`GenBegin`) both are possible. `Crash` is every
use of `NULL` or of an object that is no key: a segmentation fault in the BEAM, or
`SGX_ERROR_ENCLAVE_CRASHED` and `abort()`. `PkeyPtr` is `NULL`: the struct
declared in `Enclave.cpp:83` lacks the field `pmeth_engine`, which OpenSSL 1.1.1d
has between `engine` and `pkey`, so `evp_pkey->pkey.ptr` reads that field, and the
`RSA_free` it guards never runs. The heap is abstracted to a number of RSA objects
(`HeapKeys`) from which on an allocation may fail. Restrictions: payloads are
Latin-1 strings (with others the NIFs execute `return;` without a value,
`App/App.c:311-316` and `:341-346`, and what they answer is undefined); no more
schedulers than TCS (the default four against ten; `ErlangNif` models the other
case). `Load`, `Upgrade`, `Delete` and `Purge` are the code server's steps with the
callbacks they make; `base` is the number of RSA objects that are not in the current
heap: a new enclave has a heap of its own (`Fresh`), while in the BEAM the objects of an
unloaded library stay allocated. Only the enclave `global_eid` names is followed; that a
purge of the old version destroys the new version's enclave is in `Purge` as in the code.

**LaunchToken.** `at` is the next call of stdio or the SDK in `initialize_enclave`; the
stream is `null`, `read` or `write`. A token is named after the build of the enclave it
was issued for; `Zero` is an empty file or a cleared buffer, `Torn` a part of a token.
Assumed of the environment: the 1024 bytes of a token are read by one `read` and written
by one `write`, when the stream is closed; a write is cut short only where the file has
to grow (the disk is full); the SDK updates a token exactly when it is not the one of
the enclave's image. `Exit` is a BEAM that ends or dies anywhere, `Build` a rebuilt
enclave. `issued` and `spoilt` are history variables. Only this application keeps a
token, so no other process writes the file.

**QuoteVerification.** `pc` names the next call. A report is genuine or not and bound to
one verdict with its date (`Bound`); `Argument` is what the app passes for comparison.
`passed` is a history variable: the checks `ecall_verify_report` has made. The library
and the cache it asks are external: they answer, or fail and leave their outputs alone.
The six verdicts are abstracted to the four classes the `switch` tells apart.

**RemoteAttestation.** `pc` names the call `main()` makes next; each action is the
call, what the callee does, and the branch `main()` takes on its result. A message,
key or quote is abstracted to its *session*: whose public key `g_a` it was made
with, an enclave's or the one of the precomputed messages. The six fields of
`g_sp_db` are, in the order `sp_ra_proc_msg1_req` fills them, `g_a`; `b` and `g_b`;
`smk`; `mk`; `sk`; `vk`. A MAC, signature or hash verifies exactly when its keys are
of one session. The attestation server is the simulated one, which finds every
quote it answers for good (`ias_ra.cpp:125`, `:182`); `attestation_passed = false`
is therefore unreachable, as in the program. The retry counters stop at -1 (the 2^31
further decrements are not followed). A context index is 0 in every enclave, so an
old one is valid in a new enclave as soon as that has a context. Lost enclaves cost
`MaxLost`.

## Runs

| run | instance | states | checks |
|---|---|---|---|
| `cnode_sgx` | 3 processes on 2 nodes, 1 call each, 2 starts, backlog 1, `IntMax` 1 | 312,882 | `TypeOK`, `SingleFlight`, `OnePeer`, `LostIsForever`, `ImplementsCounterService`, `ServedWhileLinked`, `ExitsWithConnection` |
| `nif_race` | 2 threads, 2 calls each, 3 loads, 2 TCS, `IntMax` 3 | 219,164 | `TypeOK`, `AbortOnlyWithout`, `CounterBounds`, `CallsReturn` |
| `nif_one` | 1 thread, 4 calls, 4 loads, `IntMax` 1 | 60,022 | `ImplementsCounterService` |
| `ssl_one` | SGX, 1 thread, 6 calls, 3 key generations, 2 loads, heap not short | 73,747 | `ImplementsKeyService` |
| `ssl_race` | without SGX, 2 threads, 2 calls each, 2 loads, memory short from the 3rd object on | 1,045,566 | `TypeOK`, `KeysAgree`, `NoBlankAnswers`, `CallsReturn` |
| `token` | 2 BEAMs, 4 loads, 2 builds of the enclave | 34,464 | `TypeOK`, `OnlyIssuedTokens`, `ReturnsAsEnclave`, `SavedForNext`, `ImplementsTokenCache` |
| `ra_rounds` | two rounds, 3 power transitions | 69,857 | `TypeOK`, `SecretNeedsAttestation`, `NoEnclaveLeft`, `ZeroMeansAttested`, `ImplementsSecretRelease`, `KeyStateClosed`, `FirstRoundEnds` |
| `qv_modes` | both modes, 2 ticks of the clock | 3,846 | `TypeOK`, `VerdictIsTheLibrarys`, `NothingHeld`, `GenuineDataMatches`, `AcceptedIfAllPassed` |
| `cnode_unknown`, `nif_reload`, `ssl_keygen`, `ra_busy` | | | one property each, violated: see [Findings](#findings) |

What they show:

- *C node.* Whatever breaks, the C node and its clients implement
  `CounterService`: each call takes effect once, at one instant, or not at all, and
  the answer a caller takes is its own call's (`ImplementsCounterService`), although
  replies carry no reference. The reason is `SingleFlight`: a process never has two
  messages under way, *because* `call_cnode/1` has no timeout; with one (variant
  `Take_TimesOut`) a stale reply answers the next call. The price is `LostIsForever`:
  once a call's message is gone, nothing that happens later wakes its caller. `OnePeer`
  relates the connection, the messages on it and the replies to the node that was
  accepted. `ServedWhileLinked` and `ExitsWithConnection` are the liveness of the loop.
- *NIF.* Racing increments can be lost (two schedulers in `a++` at once), but never
  count twice and never take the counter back to zero (`CounterBounds`). A call cannot take the BEAM down
  while the enclave is there and schedulers do not outnumber the TCS
  (`AbortOnlyWithout`). With one scheduler the NIF implements `CounterService`; a
  reload resets the number only in the SGX version (`MayReload`).
- *RSA NIF.* However key generations interleave, once none is under way `keypair` and
  `evp_pkey` name the same pair (`KeysAgree`), although neither statement order nor
  locks arrange it: the last assignment reads both globals after every overwriting. The
  variant that assigns the thread's own key, which looks safer, breaks it. With one
  scheduler and enough heap the NIF implements `KeyService` through reloads and lost
  enclaves; here `PkeyPtr` matters, as with OpenSSL's own layout the key would be freed
  under its users. Without SGX no blank buffer is handed out: a call that fails ends the
  BEAM instead, so that every call returns or there is no BEAM left.
- *Launch token.* BEAMs that start together truncate each other's file, even between the
  other's check that there is none and its creation. Still no torn or foreign token gets
  to the SDK, no load fails because of the file, and when undisturbed loads are through a
  token is there (`SavedForNext`): whoever truncates the file last also writes it, unless
  it could read a token, when it leaves it alone. To its users the file is a cache of one
  cell that may forget (`TokenCache`).
- *Remote attestation.* Over two rounds with a failure at every call, nothing the first
  round leaves behind gives an unattested enclave the secret, a zero exit value, a
  leftover enclave or an open context. `SecretRelease` says so in one place: enclaves run
  one at a time and are never restarted, the secret goes to the enclave of the current
  session while it runs and once it is attested, success is reported only of an attested
  session. Zero does *not* mean that the secret arrived: when `put_secret_data` reports an
  error in `status` only, `ret` stays 0 (`isv_app.cpp:689`).
- *Quote verification.* A verdict is given only in a mode the library answered in, though a
  failed call is merely printed; what was hashed is what is compared; nothing is left held.
  `AcceptedIfAllPassed` is weaker than one would like: when a hash function fails inside
  `ecall_verify_report`, `SGX_ERR_BREAK` leaves the loop with `ret` still `SGX_SUCCESS`
  from `sgx_verify_report`, and the report counts as verified without any comparison
  (`HashFails`, `qv/Enclave/Enclave.cpp:96`). The app's verdict does not depend on it.

*Bounds, and why they are enough.* Three processes on two nodes are two rivals on one
node plus one on a node that cannot be served meanwhile; two starts give a restart with
old messages; a backlog of one is full with the second node (`my_listen` asks for 5).
`IntMax` 1 or 3 makes `a++` wrap within the calls there are. Three
loads are a load, an upgrade, a purge and another upgrade. Two racing threads show every
interleaving of two `a++` or two key generations; three generations with a memory that is
short once three objects were allocated give a race with enough memory and a failure at
every statement after the third allocation; two loads are a load and an upgrade, or a
purge and a fresh load. Four loads of two BEAMs overlap pairwise and still leave one that
reads what they left; two builds make a stale token. Two ticks of the clock let a time
asked for twice differ in either mode. Three power
transitions use up the one retry a round has for a lost enclave and lose one more. The
theorems remove these bounds for the properties they state. `CHECK_DEADLOCK
FALSE` stands in every configuration because each system may really stop: all calls
made, the BEAM aborted, `main()` returned.

*Fairness.* `FairSpec` of `CNode`: weak fairness of `main()`'s loop (the operating system
runs it; `erl_receive_msg` returns when there is a message or the connection is gone),
of each client's send and receive (the BEAM schedules its processes), of delivery on a
connection that is up (TCP), of the handshake timeout and the detection of a dead
connection (the runtime's timers). Calling, starting `./app`, accepting, losing the
enclave and breaking a connection are not fair: nobody has to. `ErlangNif` and `SslNif`:
weak fairness of each thread's steps inside a NIF (the operating system runs scheduler
threads). `RemoteAttestation`: weak fairness of `main()` as a whole; nothing is assumed of
how often the quoting enclave is busy, which is why `FirstRoundEnds` says something and
`MainReturns` fails.

## Proofs

Each theorem holds for every value of the constants under the named assumptions in the
modules (for instance `NodeOf \in [Proc -> Node]`, `SGX \in BOOLEAN`, a finite set of
threads, `IntMax \in Nat \ {0}`). With `SGX \in BOOLEAN` the theorems about `CNode`,
`ErlangNif` and `SslNif` are about the versions with and without SGX at once; for the plain
C node and the plain NIF they are the only check, as their runs take `SGX = TRUE`. Some
theorems have a hypothesis of their own. The refinements of `ErlangNif` and `SslNif` assume
`OneScheduler` (no two threads are different): with two schedulers an increment can be lost
and a half-generated key be used, so they do not hold. That of `SslNif` and
`KeyGenReportsWhileNotShort` also assume a heap that is not short, either of the behaviour
(`[]~Short`) or of the constants (`HeapKeys > MaxGens`, from which the former follows): with
a short heap a key generation answers without a key, finding 3. `PlainNeverBlank` is about
the version without SGX.

| module | theorem | states | inductive invariant |
|---|---|---|---|
| `CNode_proofs` | `TypeCorrect` | `TypeOK` | itself: it ties `emsg` to `app`, so the dispatch has a message |
| | `OnePeerServed` | `OnePeer` | `PeerInv`: with `NoPeer`, before `accept` nothing is open or received; without it `Accept` could take over old messages |
| | `RepliesMatchCalls` | `SingleFlight` | itself, with `TypeOK`; every step but a send only removes or moves a message (`Shrink`, `Frame`) |
| `CNode_refinement` | `Refinement` | `ImplementsCounterService` | `IInv`: the above with `FnMatches`, a message names the function its sender called last; see below |
| | `LostThm` | `LostIsForever` | none of its own: no step of `CounterService` leaves `lost`, so the refinement carries it over |
| `ErlangNif_proofs` | `TypeCorrect` | `TypeOK` | itself |
| | `AbortCause` | `AbortOnlyWithout` | `AbortInv`: threads inside are inside the enclave `global_eid` names, since reloads wait for them; a pigeonhole argument on the TCS (`TCSTaken`) |
| | `RacingIncrements` | `CounterBounds` | `CounterInv`: what a thread has read and is about to write back lies between 0 and the increments done |
| | `Refinement`, if `OneScheduler` | `ImplementsCounterService` | `ServiceInv`: what is going to be written back is what `a` still holds (`RegCurrent`); the enclave of the next load is untouched (`FreshData`); without SGX there is no data while no version is loaded (`DataGone`) |
| `SslNif_proofs` | `TypeCorrect` | `TypeOK` | `TypeInv`: with `Room`, the objects allocated and the generations that still have to allocate never exceed the calls made, so an allocation finds an object; this counts threads (`FS_AddElement`, `FS_RemoveElement`) |
| | `RacingKeyGensAgree` | `KeysAgree` | `Short \/ AgreeInv`: while some generation has overwritten and not yet assigned, the globals may differ; when none has, they agree. `ShortOrNew` carries the other disjunct: a heap that is short stays so until a new enclave starts with a new heap and no keys |
| | `PlainNeverBlank` | `NoBlankAnswers`, if `~SGX` | `NoBlankInv`: a blank buffer has an error status, and only a thread about to return has one |
| `SslNif_refinement` | `RefinementWhileNotShort`, `Refinement`, if `OneScheduler` | `ImplementsKeyService` | `SoloInv`: outside a key generation both globals are `NULL` or the halves of one `ready` key (`KeyComplete`), inside one `Makes` says how far its two objects are; see below |
| | `KeyGenReportsWhileNotShort`, if `OneScheduler` | `KeyGenReports`, which a short heap breaks (finding 3) | `SoloInv`, `MadeInv`: a generation about to return has left a pair |
| `LaunchToken_proofs` | `TypeCorrect` | `TypeOK` | itself |
| | `OnlyIssuedThm`, `ReturnsThm`, `SavedThm` | `OnlyIssuedTokens`, `ReturnsAsEnclave`, `SavedForNext` | `IInv`: every token in a buffer or in the file was issued; a stream is open exactly where the code has one; while the file is empty and undisturbed, some load is on its way to write it |
| | `Refinement` | `ImplementsTokenCache` | `IInv`; one step per action of `Next` |
| `RemoteAttestation_proofs` | `TypeCorrect` | `TypeOK` | `TypeInv`: before the exit `i` is at least 1 |
| | `SecretsOnlyAttested`, `ExitZeroAttested` | `SecretNeedsAttestation`, `ZeroMeansAttested` | `AttestInv`: at every later step of a round with `ret = 0` the session has been attested, and only a supported group registers the provider, so `verified` implies `supported` |
| | `NoEnclaveLeftRunning` | `NoEnclaveLeft` | `CleanInv`: a running enclave is the current one, in a round, and as long as it has a context `main()` knows of one |
| | `KeyStatesClosed` | `KeyStateClosed` (an action property) | `CleanInv`: before the last step of a round the context is closed |
| | `Refinement` | `ImplementsSecretRelease` | `AttestInv`, `CleanInv`, `SessionInv`: in a round there is a session, and what `enclave_id` names was created. Most steps are stutters (`mapped`) |
| `QuoteVerification_proofs` | `TypeCorrect` | `TypeOK` | itself |
| | `VerdictThm`, `NothingHeldThm`, `GenuineDataThm`, `ReportThm` | `VerdictIsTheLibrarys`, `NothingHeld`, `GenuineDataMatches`, `AcceptedIfAllPassed` | `IInv`: what is held at each `pc`; a verdict other than "unspecified" was answered; from `VerifyQuote` on the report is bound to the locals; the checks are passed in order |

*The refinements, step by step.* Each proof maps initial states to initial states and every
step to a step or a stutter; what differs is where a call takes effect.

- `CNode` to `CounterService`: a call is one message on its way through the connection,
  `main()`, the replies and the mailbox, and `SingleFlight` makes it the only one of its
  caller. Each action is shown to move that message, to dispatch it (the call takes effect)
  or to lose it (`KeepsCall`, `DispatchStep`, `KeepsOrLosesCall`); an exit of the process or a
  broken connection loses the calls of many callers in one step (`MessagesVanish`). `FnMatches`
  is needed because the effect depends on the function in `emsg`, the promise on the one called.
- `ErlangNif` to `CounterService`: a call takes effect when `a` is written, or read for the
  caller. An enclave lost or purged makes the service unavailable (`Lose`), a load starts it
  again (`Start`), and `FreshData` is why it starts at 0.
- `SslNif` to `KeyService`: a key generation takes effect at its last statement, `a = 0`. Until
  then the service's key is the one `keypair` held at the call, although the global already
  names another object. `KeyComplete` and `Uses` give the two ways to the key the same answer:
  what `get_pubkey` finds behind `evp_pkey` is what `sign` finds in `keypair`. That the new pair
  is nobody's before follows from `keypair = rsas` while it is made.

Only model-checked: the liveness properties (`ServedWhileLinked`, `ExitsWithConnection`,
`CallsReturn`, `FirstRoundEnds`), as the prover has no rule for `ENABLED`. Of the properties
the violation runs refute only `KeyGenReports` has a theorem, under its hypothesis.

## Findings

Each has a run in which TLC finds the property violated.

1. `cnode_unknown` (`AnswersLikePlainNode`). `without-sgx/erlang-c-node/README.md:2` says the
   two C nodes have the same functionality. An unknown function is answered with 1 by the
   plain one; the SGX one has no `else` and answers with whatever `res` holds.
2. `nif_reload` (`PurgeKillsOldest`). `App.c:156` says that unload kills the oldest
   version; it destroys what `global_eid` names, the newest one's enclave.
3. `ssl_keygen` (`KeyGenReports`). `enclave_communicator.erl:61` aborts on a return code
   other than 0; a key generation that fails returns 0.
4. `ra_busy` (`MainReturns`). `busy_retry_time` is set before the loop over the rounds and
   left at -1 when the first round gives up: the second round tests -1 and retries for as
   long as the quoting enclave is busy.

## Not modelled

Third-party and generated code (`erlang-nif_SSL/Enclave/tests`, the prebuilt libraries and
their headers), build files, container descriptions and manifests (`graphene/`, `scone/`,
`pccs/`, `quote-generation/`), measurements, traces and set-up guides, and the hello worlds
have no control of their own. `ucreate_thread` and `new_thread_func` of the RSA NIF are never
called by its enclave. `sample_messages.h` is data: the precomputed messages, abstracted to
the session `Sample`. Formatting, printing and what messages look like on the wire are left
out everywhere.

Four hazards have no property. What a NIF answers that executes `return;` (`App/App.c:312`) is
not one of a set of outcomes. The SGX version of the RSA NIF hands out blank buffers
(`App/App.c:321`), so `NoBlankAnswers` is checked, and proved, without SGX only. Nothing in the
repository says what an exit value of 0 has to do with the secret (`isv_app.cpp:689`). Which
key list msg0 answers (`service_provider.cpp:262`) no later step depends on.

## Plan

Done, in this order: `Int32`, `CounterService`, `CNode`; `ErlangNif`; `KeyService`,
`SslNif`; `RemoteAttestation`; `QuoteVerification`; `TokenCache`, `LaunchToken`; loads and
upgrades in `SslNif`; `SecretRelease`; the proofs listed above, the refinements last.

Next, proofs: the answer of the plain C node to an unknown function, which is 1 as its
README says (`AnswersLikePlainNode` without SGX); what is left of `PurgeKillsOldest` when
nothing was loaded since; a refinement of a counter that may lose increments by the NIF
with any number of schedulers, of which `CounterBounds` is a consequence.
