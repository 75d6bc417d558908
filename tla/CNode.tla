-------------------------------- MODULE CNode --------------------------------
(***************************************************************************)
(* The Erlang C node: main() of erlang-c-node/App/App.c (SGX = TRUE) and   *)
(* of without-sgx/erlang-c-node/App/App.c (SGX = FALSE), the Erlang        *)
(* processes that run enclave_communicator:call_cnode/1 on some Erlang     *)
(* nodes, and the distribution connections between them.                   *)
(*                                                                         *)
(* main() is one thread: it creates the enclave, listens, accepts ONE      *)
(* connection and handles its messages until erl_receive_msg fails, then   *)
(* destroys the enclave and exits.  It never accepts again.                *)
(*                                                                         *)
(* Abstracted: message encoding, EPMD, ticks and distribution messages     *)
(* other than ERL_REG_SEND (the loop ignores both: no state changes).      *)
(***************************************************************************)
EXTENDS Int32, Sequences, FiniteSets

CONSTANTS
  Node,       \* the Erlang nodes
  Proc,       \* the Erlang processes that call the C node
  NodeOf,     \* NodeOf[p] is the node process p runs on
  SGX,        \* TRUE: erlang-c-node/; FALSE: without-sgx/erlang-c-node/
  Garbage,    \* what the uninitialised local "int res" may hold
  Backlog,    \* the backlog my_listen asks for
  MaxCalls,   \* bound: calls each process makes
  MaxStarts,  \* bound: times the operator starts ./app
  NoNode, NoMsg, NoAnswer

ASSUME NodeOfAssumption == NodeOf \in [Proc -> Node]
ASSUME SGXAssumption == SGX \in BOOLEAN
ASSUME GarbageAssumption == Garbage \subseteq Int32
ASSUME BoundsAssumption == Backlog \in Nat /\ MaxCalls \in Nat /\ MaxStarts \in Nat
ASSUME NoValueAssumption ==
  /\ NoNode \notin Node
  /\ NoAnswer \notin Int
  /\ NoMsg \notin [from : Proc, fn : {"increment", "return", "other"}]

(* The class of the function atom under the two strncmp tests: every atom  *)
(* that starts with "increment", with "return", or with neither.           *)
Fn == {"increment", "return", "other"}

Request == [from : Proc, fn : Fn]
Reply == [to : Proc, val : Int32]

VARIABLES
  app,       \* where main() stands
  enclave,   \* the enclave global_eid names
  a,         \* static int32_t a, in the enclave (in the process if ~SGX)
  res,       \* the local of main() the reply is made from
  emsg,      \* the message being handled
  fd,        \* the Erlang node the accepted connection leads to
  open,      \* is the other end of that connection still there?
  inq,       \* messages on that connection, not yet received by main()
  outq,      \* replies on the way to each node
  link,      \* what each Erlang node thinks of its connection
  client,    \* where each Erlang process stands in call_cnode/1
  request,   \* the function it called last
  mailbox,   \* the {cnode, Result} messages in its mailbox
  result,    \* the result of its last finished call
  calls,     \* the calls it has made (bound)
  starts     \* times ./app has been started (bound)

appVars == <<app, enclave, a, res, emsg, fd, starts>>
netVars == <<open, inq, outq, link>>
clientVars == <<client, request, mailbox, result, calls>>
vars == <<app, enclave, a, res, emsg, fd, open, inq, outq, link,
          client, request, mailbox, result, calls, starts>>

Init ==
  /\ app = "exited" /\ enclave = "none" /\ a = 0 /\ res \in Garbage
  /\ emsg = NoMsg /\ fd = NoNode /\ open = FALSE
  /\ inq = <<>> /\ outq = [n \in Node |-> <<>>]
  /\ link = [n \in Node |-> "down"]
  /\ client = [p \in Proc |-> "idle"]
  /\ request = [p \in Proc |-> "increment"]
  /\ mailbox = [p \in Proc |-> <<>>]
  /\ result = [p \in Proc |-> NoAnswer]
  /\ calls = [p \in Proc |-> 0] /\ starts = 0

-----------------------------------------------------------------------------
(* The Erlang processes and their nodes.                                   *)

(* The listening socket exists from my_listen until the process ends.      *)
Listening == app \in {"accept", "receive", "dispatch", "reply", "destroy"}

Backlogged == {m \in Node : link[m] = "backlog"}

(* The processes of the nodes in N that are blocked in a send: their       *)
(* messages are discarded, the send returns and they go on to the receive. *)
DropSends(N) ==
  [p \in Proc |-> IF client[p] = "sending" /\ NodeOf[p] \in N
                  THEN "waiting" ELSE client[p]]

(* call_cnode/1 is entered.                                                *)
Call(p, f) ==
  /\ client[p] = "idle" /\ calls[p] < MaxCalls
  /\ client' = [client EXCEPT ![p] = "sending"]
  /\ request' = [request EXCEPT ![p] = f]
  /\ calls' = [calls EXCEPT ![p] = @ + 1]
  /\ UNCHANGED <<appVars, netVars, mailbox, result>>

(* The send finds no connection: the node opens one, which the kernel      *)
(* queues until main() accepts it.                                         *)
Connect(n) ==
  /\ \E p \in Proc : client[p] = "sending" /\ NodeOf[p] = n
  /\ link[n] = "down" /\ Listening
  /\ Cardinality(Backlogged) < Backlog
  /\ link' = [link EXCEPT ![n] = "backlog"]
  /\ UNCHANGED <<appVars, open, inq, outq, clientVars>>

(* Variant: a caller sends again when its call has vanished.               *)
Send_Resends(p) ==
  /\ \/ client[p] = "sending"
     \/ /\ client[p] = "waiting" /\ mailbox[p] = <<>>
        /\ inq = <<>> /\ emsg = NoMsg /\ outq[NodeOf[p]] = <<>>
  /\ link[NodeOf[p]] = "up"
  /\ inq' = Append(inq, [from |-> p, fn |-> request[p]])
  /\ client' = [client EXCEPT ![p] = "waiting"]
  /\ UNCHANGED <<appVars, open, outq, link, request, mailbox, result, calls>>

(* {any, 'c1@...'} ! {call, self(), Msg} over a connection that is up.     *)
Send(p) ==
  /\ client[p] = "sending" /\ link[NodeOf[p]] = "up"
  /\ inq' = Append(inq, [from |-> p, fn |-> request[p]])
  /\ client' = [client EXCEPT ![p] = "waiting"]
  /\ UNCHANGED <<appVars, open, outq, link, request, mailbox, result, calls>>

(* The same send when the message cannot reach the C node: Erlang discards *)
(* it and says nothing.                                                    *)
SendDropped(p) ==
  /\ client[p] = "sending"
  /\ \/ link[NodeOf[p]] = "dead"
     \/ /\ link[NodeOf[p]] = "down"
        /\ ~Listening \/ Cardinality(Backlogged) >= Backlog
  /\ client' = [client EXCEPT ![p] = "waiting"]
  /\ UNCHANGED <<appVars, netVars, request, mailbox, result, calls>>

(* No handshake within net_setuptime: main() is serving its connection.    *)
HandshakeTimeout(n) ==
  /\ link[n] = "backlog"
  /\ link' = [link EXCEPT ![n] = "down"]
  /\ client' = DropSends({n})
  /\ UNCHANGED <<appVars, open, inq, outq, request, mailbox, result, calls>>

(* The connection breaks: replies on the way are lost, and so is all but   *)
(* a prefix of what the C node has not received.                           *)
Disconnect(n) ==
  /\ link[n] = "up"
  /\ link' = [link EXCEPT ![n] = "down"]
  /\ open' = FALSE
  /\ \E k \in 0 .. Len(inq) : inq' = SubSeq(inq, 1, k)
  /\ outq' = [outq EXCEPT ![n] = <<>>]
  /\ UNCHANGED <<appVars, clientVars>>

(* An Erlang node notices that the C node is gone.                         *)
NodeDown(n) ==
  /\ link[n] = "dead"
  /\ link' = [link EXCEPT ![n] = "down"]
  /\ outq' = [outq EXCEPT ![n] = <<>>]
  /\ UNCHANGED <<appVars, open, inq, clientVars>>

(* A reply reaches the mailbox of the process it is addressed to.          *)
Deliver(n) ==
  /\ link[n] \in {"up", "dead"} /\ outq[n] # <<>>
  /\ LET r == Head(outq[n])
     IN mailbox' = [mailbox EXCEPT ![r.to] = Append(@, r.val)]
  /\ outq' = [outq EXCEPT ![n] = Tail(@)]
  /\ UNCHANGED <<appVars, open, inq, link, client, request, result, calls>>

(* Variant: the receive has an "after" clause.                             *)
Take_TimesOut(p) ==
  /\ client[p] = "waiting"
  /\ mailbox' = [mailbox EXCEPT ![p] = IF @ = <<>> THEN @ ELSE Tail(@)]
  /\ client' = [client EXCEPT ![p] = "idle"]
  /\ UNCHANGED <<appVars, netVars, request, result, calls>>

(* receive {cnode, Result} -> Result end: the first reply in the mailbox,  *)
(* whichever call it answers; no "after" clause.                           *)
Take(p) ==
  /\ client[p] = "waiting" /\ mailbox[p] # <<>>
  /\ result' = [result EXCEPT ![p] = Head(mailbox[p])]
  /\ mailbox' = [mailbox EXCEPT ![p] = Tail(@)]
  /\ client' = [client EXCEPT ![p] = "idle"]
  /\ UNCHANGED <<appVars, netVars, request, calls>>

-----------------------------------------------------------------------------
(* main().                                                                 *)

(* The process ends, one way or another: the kernel closes its sockets,    *)
(* drops its enclave and what it had not received.                         *)
Exit ==
  /\ app' = "exited" /\ enclave' = "none"
  /\ emsg' = NoMsg /\ fd' = NoNode /\ open' = FALSE /\ inq' = <<>>
  /\ link' = [n \in Node |-> CASE link[n] = "up" -> "dead"
                               [] link[n] = "backlog" -> "down"
                               [] OTHER -> link[n]]
  /\ client' = DropSends(Backlogged)
  /\ UNCHANGED <<a, res, outq, request, mailbox, result, calls, starts>>

(* initialize_enclave() succeeds and a fresh copy of the data is loaded.   *)
Start ==
  /\ app = "exited" /\ starts < MaxStarts
  /\ starts' = starts + 1
  /\ app' = "setup"
  /\ enclave' = IF SGX THEN "live" ELSE "none"
  /\ a' = 0
  /\ res' \in Garbage
  /\ UNCHANGED <<emsg, fd, netVars, clientVars>>

(* erl_connect_init, my_listen and erl_publish succeed.                    *)
Setup ==
  /\ app = "setup"
  /\ app' = "accept"
  /\ UNCHANGED <<enclave, a, res, emsg, fd, starts, netVars, clientVars>>

(* One of them fails, or erl_accept does: erl_err_quit.                    *)
SetupFails == app \in {"setup", "accept"} /\ Exit

(* Variant: main() accepts again while it serves a connection.             *)
Accept_Again(n) ==
  /\ app \in {"accept", "receive"} /\ link[n] = "backlog"
  /\ app' = "receive" /\ fd' = n /\ open' = TRUE
  /\ link' = [link EXCEPT ![n] = "up"]
  /\ UNCHANGED <<enclave, a, res, emsg, starts, inq, outq, clientVars>>

(* fd = erl_accept(listen, &conn).                                         *)
Accept(n) ==
  /\ app = "accept" /\ link[n] = "backlog"
  /\ app' = "receive" /\ fd' = n /\ open' = TRUE
  /\ link' = [link EXCEPT ![n] = "up"]
  /\ UNCHANGED <<enclave, a, res, emsg, starts, inq, outq, clientVars>>

(* erl_receive_msg returns an ERL_REG_SEND message.                        *)
Receive ==
  /\ app = "receive" /\ inq # <<>>
  /\ emsg' = Head(inq) /\ inq' = Tail(inq)
  /\ app' = "dispatch"
  /\ UNCHANGED <<enclave, a, res, fd, starts, open, outq, link, clientVars>>

(* Variant: ERL_ERROR is ignored like ERL_TICK.                            *)
ReceiveError_Ignored ==
  /\ app = "receive" /\ inq = <<>> /\ ~open
  /\ UNCHANGED vars

(* erl_receive_msg returns ERL_ERROR: loop = 0.                            *)
ReceiveError ==
  /\ app = "receive" /\ inq = <<>> /\ ~open
  /\ app' = "destroy"
  /\ UNCHANGED <<enclave, a, res, emsg, fd, starts, netVars, clientVars>>

(* An ecall succeeds only in a live enclave; the plain C node makes none.  *)
EcallOK == enclave = "live" \/ ~SGX

(* my_increment(); res = 0                                                 *)
DispatchIncrement ==
  /\ app = "dispatch" /\ emsg.fn = "increment" /\ EcallOK
  /\ a' = Succ32(a) /\ res' = 0
  /\ app' = "reply"
  /\ UNCHANGED <<enclave, emsg, fd, starts, netVars, clientVars>>

(* Variant: the result of my_return_a() is not stored.                     *)
DispatchReturn_Drops ==
  /\ app = "dispatch" /\ emsg.fn = "return" /\ EcallOK
  /\ app' = "reply"
  /\ UNCHANGED <<enclave, a, res, emsg, fd, starts, netVars, clientVars>>

(* res = my_return_a()                                                     *)
DispatchReturn ==
  /\ app = "dispatch" /\ emsg.fn = "return" /\ EcallOK
  /\ res' = a
  /\ app' = "reply"
  /\ UNCHANGED <<enclave, a, emsg, fd, starts, netVars, clientVars>>

(* Variant: no else branch in either version.                              *)
DispatchOther_NoElse ==
  /\ app = "dispatch" /\ emsg.fn = "other"
  /\ app' = "reply"
  /\ UNCHANGED <<enclave, a, res, emsg, fd, starts, netVars, clientVars>>

(* Neither test holds: the plain C node sets res to 1, the SGX one leaves  *)
(* it as the last request, or nothing, left it.                            *)
DispatchOther ==
  /\ app = "dispatch" /\ emsg.fn = "other"
  /\ res' = IF SGX THEN res ELSE 1
  /\ app' = "reply"
  /\ UNCHANGED <<enclave, a, emsg, fd, starts, netVars, clientVars>>

(* The ecall fails, SGX_ERROR_ENCLAVE_LOST: abort().                       *)
DispatchAborts ==
  /\ app = "dispatch" /\ emsg.fn \in {"increment", "return"} /\ ~EcallOK
  /\ Exit

(* Variant: requests for unknown functions are not answered.               *)
SendReply_KnownOnly ==
  /\ app = "reply"
  /\ outq' = IF open /\ emsg.fn # "other"
             THEN [outq EXCEPT ![fd] = Append(@, [to |-> emsg.from, val |-> res])]
             ELSE outq
  /\ emsg' = NoMsg
  /\ app' = "receive"
  /\ UNCHANGED <<enclave, a, res, fd, starts, open, inq, link, clientVars>>

(* erl_send(fd, fromp, resp), whose result is ignored, and the frees.      *)
SendReply ==
  /\ app = "reply"
  /\ outq' = IF open
             THEN [outq EXCEPT ![fd] = Append(@, [to |-> emsg.from, val |-> res])]
             ELSE outq
  /\ emsg' = NoMsg
  /\ app' = "receive"
  /\ UNCHANGED <<enclave, a, res, fd, starts, open, inq, link, clientVars>>

(* sgx_destroy_enclave(global_eid); return 0                               *)
Finish == app = "destroy" /\ Exit

(* A power transition loses the enclave; nothing tells main().             *)
PowerTransition ==
  /\ enclave = "live"
  /\ enclave' = "lost"
  /\ UNCHANGED <<app, a, res, emsg, fd, starts, netVars, clientVars>>

-----------------------------------------------------------------------------
Handle == \/ Receive \/ ReceiveError \/ DispatchIncrement \/ DispatchReturn
          \/ DispatchOther \/ DispatchAborts \/ SendReply \/ Finish

Runtime(p) == Send(p) \/ SendDropped(p) \/ Take(p)

Network(n) == Connect(n) \/ Deliver(n) \/ HandshakeTimeout(n) \/ NodeDown(n)

Next ==
  \/ \E p \in Proc, f \in Fn : Call(p, f)
  \/ \E p \in Proc : Runtime(p)
  \/ \E n \in Node : Network(n) \/ Disconnect(n) \/ Accept(n)
  \/ Start \/ Setup \/ SetupFails
  \/ Handle
  \/ PowerTransition

Spec == Init /\ [][Next]_vars

(* main() is never descheduled for ever inside its loop, the Erlang VM     *)
(* runs its processes and delivers what has arrived, a handshake that is   *)
(* not answered times out and a node notices a dead connection.  Nothing   *)
(* obliges anyone to call, to start ./app, or a connection to break.       *)
FairSpec ==
  /\ Spec
  /\ WF_vars(Handle)
  /\ \A p \in Proc : WF_vars(Send(p)) /\ WF_vars(SendDropped(p)) /\ WF_vars(Take(p))
  /\ \A n \in Node : /\ WF_vars(Connect(n)) /\ WF_vars(Deliver(n))
                     /\ WF_vars(HandshakeTimeout(n)) /\ WF_vars(NodeDown(n))

-----------------------------------------------------------------------------
(* Properties.                                                             *)

TypeOK ==
  /\ app \in {"exited", "setup", "accept", "receive", "dispatch", "reply", "destroy"}
  /\ enclave \in {"none", "live", "lost"}
  /\ a \in Int32 /\ res \in Int32
  /\ emsg \in IF app \in {"dispatch", "reply"} THEN Request ELSE {NoMsg}
  /\ fd \in Node \cup {NoNode}
  /\ open \in BOOLEAN
  /\ inq \in Seq(Request) /\ outq \in [Node -> Seq(Reply)]
  /\ link \in [Node -> {"down", "backlog", "up", "dead"}]
  /\ client \in [Proc -> {"idle", "sending", "waiting"}]
  /\ request \in [Proc -> Fn]
  /\ mailbox \in [Proc -> Seq(Int32)]
  /\ result \in [Proc -> Int32 \cup {NoAnswer}]
  /\ calls \in [Proc -> Nat] /\ starts \in Nat

(* Where the one message of a call can be.                                 *)
Queued(p) == \E i \in 1 .. Len(inq) : inq[i].from = p
Handled(p) == emsg # NoMsg /\ emsg.from = p
Answered(p) == \E n \in Node : \E i \in 1 .. Len(outq[n]) : outq[n][i].to = p
Delivered(p) == mailbox[p] # <<>>
InFlight(p) == Queued(p) \/ Handled(p) \/ Answered(p) \/ Delivered(p)
Lost(p) == client[p] = "waiting" /\ ~InFlight(p)

(* At most one message of process p is under way, and only while p waits.  *)
OneMessage(p) ==
  /\ InFlight(p) => client[p] = "waiting"
  /\ Queued(p) => ~Handled(p) /\ ~Answered(p) /\ ~Delivered(p)
  /\ Handled(p) => ~Answered(p) /\ ~Delivered(p)
  /\ Answered(p) => ~Delivered(p)
  /\ \A i, j \in 1 .. Len(inq) : inq[i].from = p /\ inq[j].from = p => i = j
  /\ \A m, n \in Node : \A i \in 1 .. Len(outq[m]), j \in 1 .. Len(outq[n]) :
       outq[m][i].to = p /\ outq[n][j].to = p => m = n /\ i = j
  /\ Len(mailbox[p]) <= 1

(* {cnode, Result} carries no reference to the call it answers             *)
(* (enclave_communicator.erl:40-45), so a caller may take any reply for    *)
(* its own.  It gets the right one because each process has at most one    *)
(* message under way, request or reply, and only while it waits for it.    *)
SingleFlight == \A p \in Proc : OneMessage(p)

(* main() serves one connection for its whole life (App.c:184-223): the    *)
(* node that was accepted is the only one whose messages it handles and    *)
(* the only one its replies go to, and it answers that node's processes    *)
(* only.                                                                   *)
OnePeer ==
  /\ \A n \in Node : link[n] = "up" <=> open /\ fd = n
  /\ \A i \in 1 .. Len(inq) : NodeOf[inq[i].from] = fd
  /\ emsg # NoMsg => NodeOf[emsg.from] = fd
  /\ \A n \in Node : \A i \in 1 .. Len(outq[n]) : NodeOf[outq[n][i].to] = n

(* A call whose request or reply was dropped never returns: call_cnode/1   *)
(* has no timeout and sends once, so no later event, not even a new ./app, *)
(* gives its caller an answer.                                             *)
LostIsForever == [][\A p \in Proc : Lost(p) => Lost(p)']_vars

(* While the connection stays up, every request that was sent on it is     *)
(* answered and the caller gets the answer.                                *)
ServedWhileLinked ==
  \A p \in Proc : InFlight(p) ~> (client[p] = "idle" \/ link[NodeOf[p]] # "up")

(* The C node does not outlive its one connection: once the other end is   *)
(* gone main() handles what it still has, leaves the loop and exits, so    *)
(* that it can be started again.                                           *)
ExitsWithConnection == (fd # NoNode /\ ~open) ~> app = "exited"

(* without-sgx/erlang-c-node/README.md:2, "The very same functionlity as   *)
(* the SGX version": a request for an unknown function is answered with    *)
(* the 1 the plain version answers it with.                                *)
AnswersLikePlainNode ==
  app = "reply" /\ emsg.fn = "other" => res = 1

(* The C node and its clients implement CounterService.  A call is pending *)
(* until main() has dispatched it, then its answer is on its way, and it   *)
(* is lost once no message of it is left.                                  *)
CallPhase(p) ==
  IF client[p] = "idle" THEN "idle"
  ELSE IF client[p] = "sending" \/ Queued(p) \/ (Handled(p) /\ app = "dispatch") THEN "pending"
  ELSE IF InFlight(p) THEN "applied"
  ELSE "lost"

CallAnswer(p) ==
  IF CallPhase(p) # "applied" THEN NoAnswer
  ELSE IF Handled(p) THEN res
  ELSE IF Delivered(p) THEN Head(mailbox[p])
  ELSE LET q == outq[NodeOf[p]]
       IN q[CHOOSE i \in 1 .. Len(q) : q[i].to = p].val

Service == INSTANCE CounterService WITH
  up <- app # "exited",
  val <- a,
  phase <- [p \in Proc |-> CallPhase(p)],
  fn <- request,
  ans <- [p \in Proc |-> CallAnswer(p)],
  MayReload <- FALSE

(* Every step of the C node, its clients and their connections is a step   *)
(* of CounterService: a call takes effect once, atomically, and the answer *)
(* a caller gets is the one its own call produced.                         *)
ImplementsCounterService == Service!Spec
=============================================================================
