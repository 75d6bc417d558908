---------------------------- MODULE CNode_proofs ----------------------------
(***************************************************************************)
(* Proofs about CNode: type correctness, the single served connection and  *)
(* the at-most-one-message discipline that lets call_cnode/1 do without a  *)
(* reference.  They hold for every set of nodes and processes, every       *)
(* placement of the processes and every bound.                             *)
(***************************************************************************)
EXTENDS CNode, SequenceTheorems, TLAPS

(* a++ stays within an int32_t.                                            *)
LEMMA Succ32Type ==
  ASSUME NEW n \in Int32
  PROVE  Succ32(n) \in Int32
BY IntMaxAssumption DEF Succ32, Int32, IntMin

LEMMA SmallInt32 == {0, 1} \subseteq Int32
BY IntMaxAssumption DEF Int32, IntMin

(* The end of the process, and the discarding of blocked sends, keep the   *)
(* types.                                                                  *)
LEMMA DropSendsType ==
  ASSUME NEW N, TypeOK
  PROVE  DropSends(N) \in [Proc -> {"idle", "sending", "waiting"}]
BY DEF DropSends, TypeOK

LEMMA ExitType ==
  ASSUME TypeOK, Exit
  PROVE  TypeOK'
<1>1. client' \in [Proc -> {"idle", "sending", "waiting"}]
  BY DropSendsType DEF Exit
<1>2. link' \in [Node -> {"down", "backlog", "up", "dead"}]
  BY DEF Exit, TypeOK
<1>3. QED
  BY <1>1, <1>2, EmptySeq DEF Exit, TypeOK

LEMMA InitType == Init => TypeOK
<1> SUFFICES ASSUME Init
             PROVE  TypeOK
  OBVIOUS
<1>1. a \in Int32 /\ res \in Int32
  BY SmallInt32, GarbageAssumption DEF Init
<1>2. inq \in Seq(Request) /\ outq \in [Node -> Seq(Reply)]
  BY EmptySeq DEF Init
<1>3. mailbox \in [Proc -> Seq(Int32)]
  BY EmptySeq DEF Init
<1>4. QED
  BY <1>1, <1>2, <1>3 DEF Init, TypeOK, Fn

LEMMA NextType == TypeOK /\ [Next]_vars => TypeOK'
<1> SUFFICES ASSUME TypeOK, [Next]_vars
             PROVE  TypeOK'
  OBVIOUS
<1>1. ASSUME NEW p \in Proc, NEW f \in Fn, Call(p, f)
      PROVE  TypeOK'
  BY <1>1 DEF Call, TypeOK, appVars, netVars
<1>2. ASSUME NEW p \in Proc, Send(p)
      PROVE  TypeOK'
  <2>1. [from |-> p, fn |-> request[p]] \in Request
    BY DEF TypeOK, Request
  <2>2. inq' \in Seq(Request)
    BY <1>2, <2>1, AppendProperties DEF Send, TypeOK
  <2>3. QED
    BY <1>2, <2>2 DEF Send, TypeOK, appVars
<1>3. ASSUME NEW p \in Proc, SendDropped(p)
      PROVE  TypeOK'
  BY <1>3 DEF SendDropped, TypeOK, appVars, netVars
<1>4. ASSUME NEW p \in Proc, Take(p)
      PROVE  TypeOK'
  <2>1. /\ Head(mailbox[p]) \in Int32
        /\ Tail(mailbox[p]) \in Seq(Int32)
    BY <1>4, HeadTailProperties DEF Take, TypeOK
  <2>2. QED
    BY <1>4, <2>1 DEF Take, TypeOK, appVars, netVars
<1>5. ASSUME NEW n \in Node, Connect(n)
      PROVE  TypeOK'
  BY <1>5 DEF Connect, TypeOK, appVars, clientVars
<1>6. ASSUME NEW n \in Node, Deliver(n)
      PROVE  TypeOK'
  <2>1. /\ Head(outq[n]) \in Reply
        /\ Tail(outq[n]) \in Seq(Reply)
    BY <1>6, HeadTailProperties DEF Deliver, TypeOK
  <2>2. /\ Head(outq[n]).to \in Proc
        /\ Head(outq[n]).val \in Int32
    BY <2>1 DEF Reply
  <2>3. Append(mailbox[Head(outq[n]).to], Head(outq[n]).val) \in Seq(Int32)
    BY <2>2, AppendProperties DEF TypeOK
  <2>4. mailbox' \in [Proc -> Seq(Int32)]
    BY <1>6, <2>2, <2>3 DEF Deliver, TypeOK
  <2>5. outq' \in [Node -> Seq(Reply)]
    BY <1>6, <2>1 DEF Deliver, TypeOK
  <2>6. QED
    BY <1>6, <2>4, <2>5 DEF Deliver, TypeOK, appVars
<1>7. ASSUME NEW n \in Node, HandshakeTimeout(n)
      PROVE  TypeOK'
  <2>1. client' \in [Proc -> {"idle", "sending", "waiting"}]
    BY <1>7, DropSendsType DEF HandshakeTimeout
  <2>2. QED
    BY <1>7, <2>1 DEF HandshakeTimeout, TypeOK, appVars
<1>8. ASSUME NEW n \in Node, NodeDown(n)
      PROVE  TypeOK'
  BY <1>8, EmptySeq DEF NodeDown, TypeOK, appVars, clientVars
<1>9. ASSUME NEW n \in Node, Disconnect(n)
      PROVE  TypeOK'
  <2>1. PICK k \in 0 .. Len(inq) : inq' = SubSeq(inq, 1, k)
    BY <1>9 DEF Disconnect
  <2>2. inq' \in Seq(Request)
    BY <2>1, SubSeqProperties, ElementOfSeq, LenProperties DEF TypeOK
  <2>3. QED
    BY <1>9, <2>2, EmptySeq DEF Disconnect, TypeOK, appVars, clientVars
<1>10. ASSUME NEW n \in Node, Accept(n)
       PROVE  TypeOK'
  BY <1>10 DEF Accept, TypeOK, clientVars
<1>11. CASE Start
  BY <1>11, SmallInt32, GarbageAssumption
     DEF Start, TypeOK, netVars, clientVars
<1>12. CASE Setup
  BY <1>12 DEF Setup, TypeOK, netVars, clientVars
<1>13. CASE SetupFails
  BY <1>13, ExitType DEF SetupFails
<1>14. CASE Receive
  <2>1. Head(inq) \in Request /\ Tail(inq) \in Seq(Request)
    BY <1>14, HeadTailProperties DEF Receive, TypeOK
  <2>2. QED
    BY <1>14, <2>1 DEF Receive, TypeOK, clientVars
<1>15. CASE ReceiveError
  BY <1>15 DEF ReceiveError, TypeOK, netVars, clientVars
<1>16. CASE DispatchIncrement
  BY <1>16, Succ32Type, SmallInt32
     DEF DispatchIncrement, TypeOK, netVars, clientVars
<1>17. CASE DispatchReturn
  BY <1>17 DEF DispatchReturn, TypeOK, netVars, clientVars
<1>18. CASE DispatchOther
  BY <1>18, SmallInt32
     DEF DispatchOther, TypeOK, netVars, clientVars
<1>19. CASE DispatchAborts
  BY <1>19, ExitType DEF DispatchAborts
<1>20. CASE SendReply
  <2>1. outq' \in [Node -> Seq(Reply)]
    <3>1. CASE ~open
      BY <1>20, <3>1 DEF SendReply, TypeOK
    <3>2. CASE open
      <4>1. [to |-> emsg.from, val |-> res] \in Reply
        BY <1>20 DEF SendReply, TypeOK, Request, Reply
      <4>2. \A q \in Seq(Reply) :
              Append(q, [to |-> emsg.from, val |-> res]) \in Seq(Reply)
        BY <4>1, AppendProperties
      <4>3. QED
        BY <1>20, <3>2, <4>2 DEF SendReply, TypeOK
    <3>3. QED
      BY <3>1, <3>2 DEF TypeOK
  <2>2. QED
    BY <1>20, <2>1 DEF SendReply, TypeOK, clientVars
<1>21. CASE Finish
  BY <1>21, ExitType DEF Finish
<1>22. CASE PowerTransition
  BY <1>22 DEF PowerTransition, TypeOK, netVars, clientVars
<1>23. CASE UNCHANGED vars
  BY <1>23 DEF vars, TypeOK
<1>24. QED
  BY <1>1, <1>2, <1>3, <1>4, <1>5, <1>6, <1>7, <1>8, <1>9, <1>10, <1>11,
     <1>12, <1>13, <1>14, <1>15, <1>16, <1>17, <1>18, <1>19, <1>20, <1>21,
     <1>22, <1>23
     DEF Next, Runtime, Network, Handle

(* Every reachable state of the C node, its clients and their connections  *)
(* is well typed; in particular main() is handling a message exactly while *)
(* it stands between erl_receive_msg and erl_send.                         *)
THEOREM TypeCorrect == Spec => []TypeOK
<1>1. Init => TypeOK
  BY InitType
<1>2. TypeOK /\ [Next]_vars => TypeOK'
  BY NextType
<1>3. QED
  BY <1>1, <1>2, PTL DEF Spec

-----------------------------------------------------------------------------
(* OnePeer is inductive together with what holds while main() has no       *)
(* connection: there is nothing to receive, and nobody at the other end.   *)
NoPeer ==
  /\ app \in {"exited", "setup", "accept"} => ~open /\ inq = <<>>
  /\ open => fd \in Node

PeerInv == OnePeer /\ NoPeer

LEMMA InitPeer == Init => PeerInv
BY DEF Init, PeerInv, OnePeer, NoPeer

LEMMA ExitPeer ==
  ASSUME TypeOK, PeerInv, Exit
  PROVE  PeerInv'
BY DEF Exit, PeerInv, OnePeer, NoPeer, TypeOK

LEMMA NextPeer == TypeOK /\ PeerInv /\ [Next]_vars => PeerInv'
<1> SUFFICES ASSUME TypeOK, PeerInv, [Next]_vars
             PROVE  PeerInv'
  OBVIOUS
<1> USE DEF PeerInv, OnePeer, NoPeer
<1>1. ASSUME NEW p \in Proc, NEW f \in Fn, Call(p, f)
      PROVE  PeerInv'
  BY <1>1 DEF Call, appVars, netVars
<1>2. ASSUME NEW p \in Proc, Send(p)
      PROVE  PeerInv'
  <2>1. \A i \in 1 .. Len(inq') : NodeOf[inq'[i].from] = fd
    <3>1. [from |-> p, fn |-> request[p]] \in Request
      BY DEF TypeOK, Request
    <3>2. fd = NodeOf[p]
      BY <1>2, NodeOfAssumption DEF Send
    <3>3. QED
      BY <1>2, <3>1, <3>2, AppendProperties DEF Send, TypeOK
  <2>2. open
    BY <1>2, NodeOfAssumption DEF Send
  <2>3. QED
    BY <1>2, <2>1, <2>2 DEF Send, appVars
<1>3. ASSUME NEW p \in Proc, SendDropped(p)
      PROVE  PeerInv'
  BY <1>3 DEF SendDropped, appVars, netVars
<1>4. ASSUME NEW p \in Proc, Take(p)
      PROVE  PeerInv'
  BY <1>4 DEF Take, appVars, netVars
<1>5. ASSUME NEW n \in Node, Connect(n)
      PROVE  PeerInv'
  BY <1>5 DEF Connect, TypeOK, appVars
<1>6. ASSUME NEW n \in Node, Deliver(n)
      PROVE  PeerInv'
  <2>1. /\ Len(Tail(outq[n])) = Len(outq[n]) - 1
        /\ \A i \in 1 .. Len(Tail(outq[n])) : Tail(outq[n])[i] = outq[n][i + 1]
    BY <1>6, HeadTailProperties DEF Deliver, TypeOK
  <2>2. \A i \in 1 .. Len(Tail(outq[n])) : NodeOf[Tail(outq[n])[i].to] = n
    BY <2>1, LenProperties DEF TypeOK
  <2>3. \A m \in Node : \A i \in 1 .. Len(outq'[m]) : NodeOf[outq'[m][i].to] = m
    BY <1>6, <2>2 DEF Deliver, TypeOK
  <2>4. QED
    BY <1>6, <2>3 DEF Deliver, appVars
<1>7. ASSUME NEW n \in Node, HandshakeTimeout(n)
      PROVE  PeerInv'
  BY <1>7 DEF HandshakeTimeout, TypeOK, appVars
<1>8. ASSUME NEW n \in Node, NodeDown(n)
      PROVE  PeerInv'
  BY <1>8 DEF NodeDown, TypeOK, appVars
<1>9. ASSUME NEW n \in Node, Disconnect(n)
      PROVE  PeerInv'
  <2>1. PICK k \in 0 .. Len(inq) : inq' = SubSeq(inq, 1, k)
    BY <1>9 DEF Disconnect
  <2>2. \A i \in 1 .. Len(inq') : i \in 1 .. Len(inq) /\ inq'[i] = inq[i]
    BY <2>1, SubSeqProperties, ElementOfSeq, LenProperties DEF TypeOK
  <2>3. app \notin {"exited", "setup", "accept"}
    BY <1>9 DEF Disconnect
  <2>4. QED
    BY <1>9, <2>2, <2>3 DEF Disconnect, TypeOK, appVars
<1>10. ASSUME NEW n \in Node, Accept(n)
       PROVE  PeerInv'
  BY <1>10 DEF Accept, TypeOK
<1>11. CASE Start
  BY <1>11 DEF Start, TypeOK, netVars
<1>12. CASE Setup
  BY <1>12 DEF Setup, TypeOK, netVars
<1>13. CASE SetupFails
  BY <1>13, ExitPeer DEF SetupFails
<1>14. CASE Receive
  <2>1. /\ Head(inq) = inq[1] /\ 1 \in 1 .. Len(inq)
        /\ Len(Tail(inq)) = Len(inq) - 1
        /\ \A i \in 1 .. Len(Tail(inq)) : Tail(inq)[i] = inq[i + 1]
    BY <1>14, HeadTailProperties, EmptySeq DEF Receive, TypeOK
  <2>2. \A i \in 1 .. Len(inq') : NodeOf[inq'[i].from] = fd
    BY <1>14, <2>1, LenProperties DEF Receive, TypeOK
  <2>3. QED
    BY <1>14, <2>1, <2>2 DEF Receive
<1>15. CASE ReceiveError
  BY <1>15 DEF ReceiveError, netVars
<1>16. CASE DispatchIncrement
  BY <1>16 DEF DispatchIncrement, netVars
<1>17. CASE DispatchReturn
  BY <1>17 DEF DispatchReturn, netVars
<1>18. CASE DispatchOther
  BY <1>18 DEF DispatchOther, netVars
<1>19. CASE DispatchAborts
  BY <1>19, ExitPeer DEF DispatchAborts
<1>20. CASE SendReply
  <2> DEFINE reply == [to |-> emsg.from, val |-> res]
  <2>1. \A n \in Node : \A i \in 1 .. Len(outq'[n]) : NodeOf[outq'[n][i].to] = n
    <3>1. CASE ~open
      BY <1>20, <3>1 DEF SendReply
    <3>2. CASE open
      <4>1. reply \in Reply /\ NodeOf[reply.to] = fd
        BY <1>20, NoValueAssumption DEF SendReply, TypeOK, Request, Reply, Fn
      <4>2. \A i \in 1 .. Len(Append(outq[fd], reply)) :
              NodeOf[Append(outq[fd], reply)[i].to] = fd
        BY <3>2, <4>1, AppendProperties DEF TypeOK
      <4>3. outq' = [outq EXCEPT ![fd] = Append(outq[fd], reply)]
        BY <1>20, <3>2 DEF SendReply
      <4>4. QED
        BY <4>2, <4>3 DEF TypeOK
    <3>3. QED
      BY <3>1, <3>2
  <2>2. QED
    BY <1>20, <2>1 DEF SendReply
<1>21. CASE Finish
  BY <1>21, ExitPeer DEF Finish
<1>22. CASE PowerTransition
  BY <1>22 DEF PowerTransition, netVars
<1>23. CASE UNCHANGED vars
  BY <1>23 DEF vars
<1>24. QED
  BY <1>1, <1>2, <1>3, <1>4, <1>5, <1>6, <1>7, <1>8, <1>9, <1>10, <1>11,
     <1>12, <1>13, <1>14, <1>15, <1>16, <1>17, <1>18, <1>19, <1>20, <1>21,
     <1>22, <1>23
     DEF Next, Runtime, Network, Handle

(* main() exchanges messages with the processes of one node only, the one  *)
(* whose connection it accepted.                                           *)
THEOREM OnePeerServed == Spec => []OnePeer
<1>1. Init => PeerInv
  BY InitPeer
<1>2. TypeOK /\ PeerInv /\ [Next]_vars => PeerInv'
  BY NextPeer
<1>3. PeerInv => OnePeer
  BY DEF PeerInv
<1>4. QED
  BY <1>1, <1>2, <1>3, TypeCorrect, PTL DEF Spec

-----------------------------------------------------------------------------
(* SingleFlight.                                                           *)

(* Losing messages, and letting blocked sends return, preserves it.        *)
LEMMA Shrink ==
  ASSUME TypeOK, SingleFlight,
         Len(inq') \in 0 .. Len(inq),
         \A i \in 1 .. Len(inq') : inq'[i] = inq[i],
         emsg' \in {emsg, NoMsg},
         \A m \in Node : outq'[m] = outq[m] \/ outq'[m] = <<>>,
         mailbox' = mailbox,
         \A q \in Proc : client[q] = "waiting" => client'[q] = "waiting"
  PROVE  SingleFlight'
<1> SUFFICES ASSUME NEW q \in Proc
             PROVE  OneMessage(q)'
  BY DEF SingleFlight
<1>1. OneMessage(q)
  BY DEF SingleFlight
<1>2. Len(inq) \in Nat
  BY LenProperties DEF TypeOK
<1>3. Queued(q)' => Queued(q)
  BY <1>2 DEF Queued
<1>4. Handled(q)' => Handled(q)
  BY DEF Handled
<1>5. Answered(q)' => Answered(q)
  BY DEF Answered
<1>6. Delivered(q)' <=> Delivered(q)
  BY DEF Delivered
<1>7. \A i, j \in 1 .. Len(inq') : inq'[i].from = q /\ inq'[j].from = q => i = j
  BY <1>1, <1>2 DEF OneMessage
<1>8. \A m, n \in Node : \A i \in 1 .. Len(outq'[m]), j \in 1 .. Len(outq'[n]) :
        outq'[m][i].to = q /\ outq'[n][j].to = q => m = n /\ i = j
  BY <1>1 DEF OneMessage
<1>9. QED
  BY <1>1, <1>3, <1>4, <1>5, <1>6, <1>7, <1>8 DEF OneMessage, InFlight

LEMMA DropSendsWaits ==
  ASSUME NEW N, TypeOK, client' = DropSends(N)
  PROVE  \A q \in Proc : client[q] = "waiting" => client'[q] = "waiting"
BY DEF DropSends, TypeOK

LEMMA ExitSingle ==
  ASSUME TypeOK, SingleFlight, Exit
  PROVE  SingleFlight'
<1>1. Len(inq') \in 0 .. Len(inq) /\ \A i \in 1 .. Len(inq') : inq'[i] = inq[i]
  BY LenProperties DEF Exit, TypeOK
<1>2. QED
  BY <1>1, Shrink, DropSendsWaits DEF Exit

(* An action that moves no message preserves it.                           *)
LEMMA Frame ==
  ASSUME TypeOK, SingleFlight, UNCHANGED <<inq, emsg, outq, mailbox>>,
         \A q \in Proc : client[q] = "waiting" => client'[q] = "waiting"
  PROVE  SingleFlight'
<1>1. Len(inq') \in 0 .. Len(inq)
  BY LenProperties DEF TypeOK
<1>2. QED
  BY <1>1, Shrink

(* The request leaves the process that just stopped being idle.            *)
LEMMA SendSingle ==
  ASSUME TypeOK, SingleFlight, NEW p \in Proc, Send(p)
  PROVE  SingleFlight'
<1> SUFFICES ASSUME NEW q \in Proc
             PROVE  OneMessage(q)'
  BY DEF SingleFlight
<1> DEFINE m == [from |-> p, fn |-> request[p]]
<1>1. OneMessage(p) /\ OneMessage(q)
  BY DEF SingleFlight
<1>2. /\ Len(inq) \in Nat /\ Len(inq') = Len(inq) + 1
      /\ \A i \in 1 .. Len(inq) : inq'[i] = inq[i]
      /\ inq'[Len(inq) + 1] = m
  <2>1. m \in Request
    BY DEF TypeOK, Request
  <2>2. QED
    BY <2>1, AppendProperties, LenProperties DEF Send, TypeOK
<1>3. ~InFlight(p)
  BY <1>1 DEF Send, OneMessage
<1>4. Queued(q)' => Queued(q) \/ q = p
  BY <1>2 DEF Queued
<1>5. /\ Handled(q)' <=> Handled(q)
      /\ Answered(q)' <=> Answered(q)
      /\ Delivered(q)' <=> Delivered(q)
  BY DEF Send, appVars, Handled, Answered, Delivered
<1>6. \A i, j \in 1 .. Len(inq') : inq'[i].from = q /\ inq'[j].from = q => i = j
  <2>1. CASE q = p
    BY <2>1, <1>2, <1>3 DEF InFlight, Queued
  <2>2. CASE q # p
    BY <2>2, <1>1, <1>2 DEF OneMessage
  <2>3. QED
    BY <2>1, <2>2
<1>7. client'[q] = IF q = p THEN "waiting" ELSE client[q]
  BY DEF Send, TypeOK
<1>8. QED
  BY <1>1, <1>3, <1>4, <1>5, <1>6, <1>7 DEF OneMessage, InFlight, Send

(* erl_receive_msg moves the first message from the connection to main().  *)
LEMMA ReceiveSingle ==
  ASSUME TypeOK, SingleFlight, Receive
  PROVE  SingleFlight'
<1> SUFFICES ASSUME NEW q \in Proc
             PROVE  OneMessage(q)'
  BY DEF SingleFlight
<1>1. OneMessage(q)
  BY DEF SingleFlight
<1>2. /\ Len(inq) \in Nat /\ 1 \in 1 .. Len(inq) /\ emsg' = inq[1]
      /\ Len(inq') = Len(inq) - 1
      /\ \A i \in 1 .. Len(inq') : inq'[i] = inq[i + 1]
  BY HeadTailProperties, EmptySeq, LenProperties DEF Receive, TypeOK
<1>3. ~Handled(q)
  BY DEF Receive, TypeOK, Handled
<1>4. Queued(q)' => Queued(q) /\ ~Handled(q)'
  BY <1>1, <1>2 DEF Queued, Handled, OneMessage
<1>5. Handled(q)' => Queued(q)
  BY <1>2 DEF Queued, Handled
<1>6. /\ Answered(q)' <=> Answered(q)
      /\ Delivered(q)' <=> Delivered(q)
  BY DEF Receive, clientVars, Answered, Delivered
<1>7. ASSUME NEW i \in 1 .. Len(inq'), NEW j \in 1 .. Len(inq'),
             inq'[i].from = q, inq'[j].from = q
      PROVE  i = j
  <2>1. i + 1 \in 1 .. Len(inq) /\ j + 1 \in 1 .. Len(inq)
    BY <1>2
  <2>2. inq[i + 1].from = q /\ inq[j + 1].from = q
    BY <1>2, <1>7
  <2>3. i + 1 = j + 1
    BY <1>1, <2>1, <2>2 DEF OneMessage
  <2>4. QED
    BY <2>3
<1>8. QED
  BY <1>1, <1>4, <1>5, <1>6, <1>7 DEF OneMessage, InFlight, Receive, clientVars

(* erl_send moves it to the replies of the node, or loses it.              *)
LEMMA SendReplySingle ==
  ASSUME TypeOK, PeerInv, SingleFlight, SendReply
  PROVE  SingleFlight'
<1> DEFINE reply == [to |-> emsg.from, val |-> res]
<1>1. CASE ~open
  BY <1>1, Shrink, LenProperties DEF SendReply, TypeOK, clientVars
<1>2. CASE open
  <2> SUFFICES ASSUME NEW q \in Proc
               PROVE  OneMessage(q)'
    BY DEF SingleFlight
  <2>1. OneMessage(q)
    BY DEF SingleFlight
  <2>2. emsg # NoMsg /\ reply \in Reply /\ fd \in Node
    BY <1>2, NoValueAssumption
       DEF SendReply, TypeOK, Request, Reply, Fn, PeerInv, NoPeer
  <2>3. /\ \A n \in Node \ {fd} : outq'[n] = outq[n]
        /\ Len(outq[fd]) \in Nat /\ Len(outq'[fd]) = Len(outq[fd]) + 1
        /\ \A i \in 1 .. Len(outq[fd]) : outq'[fd][i] = outq[fd][i]
        /\ outq'[fd][Len(outq[fd]) + 1] = reply
    <3>1. outq' = [outq EXCEPT ![fd] = Append(outq[fd], reply)]
      BY <1>2 DEF SendReply
    <3>2. QED
      BY <2>2, <3>1, AppendProperties, LenProperties DEF TypeOK
  <2>4. /\ ~Handled(q)'
        /\ Queued(q)' <=> Queued(q)
        /\ Delivered(q)' <=> Delivered(q)
    BY DEF SendReply, clientVars, Handled, Queued, Delivered
  <2>5. Answered(q)' => Answered(q) \/ Handled(q)
    BY <2>2, <2>3 DEF Answered, Handled
  <2>6. \A m, n \in Node : \A i \in 1 .. Len(outq'[m]), j \in 1 .. Len(outq'[n]) :
          outq'[m][i].to = q /\ outq'[n][j].to = q => m = n /\ i = j
    <3>1. CASE emsg.from = q
      <4>1. \A n \in Node : \A i \in 1 .. Len(outq[n]) : outq[n][i].to # q
        BY <2>1, <2>2, <3>1 DEF OneMessage, Handled, Answered
      <4>2. ASSUME NEW n \in Node, NEW i \in 1 .. Len(outq'[n]),
                   outq'[n][i].to = q
            PROVE  n = fd /\ i = Len(outq[fd]) + 1
        <5>1. CASE n # fd
          BY <2>3, <4>1, <4>2, <5>1
        <5>2. CASE n = fd /\ i \in 1 .. Len(outq[fd])
          BY <2>2, <2>3, <4>1, <4>2, <5>2
        <5>3. QED
          BY <2>3, <4>2, <5>1, <5>2
      <4>3. QED
        BY <4>2
    <3>2. CASE emsg.from # q
      <4>1. ASSUME NEW n \in Node, NEW i \in 1 .. Len(outq'[n]),
                   outq'[n][i].to = q
            PROVE  i \in 1 .. Len(outq[n]) /\ outq[n][i].to = q
        <5>1. CASE n # fd
          BY <2>3, <4>1, <5>1
        <5>2. CASE n = fd
          BY <2>3, <3>2, <4>1, <5>2
        <5>3. QED
          BY <5>1, <5>2
      <4>2. QED
        BY <2>1, <4>1 DEF OneMessage
    <3>3. QED
      BY <3>1, <3>2
  <2>7. QED
    BY <2>1, <2>4, <2>5, <2>6 DEF OneMessage, InFlight, SendReply, clientVars
<1>3. QED
  BY <1>1, <1>2

(* The network moves it to the mailbox it is addressed to.                 *)
LEMMA DeliverSingle ==
  ASSUME TypeOK, SingleFlight, NEW n \in Node, Deliver(n)
  PROVE  SingleFlight'
<1> SUFFICES ASSUME NEW q \in Proc
             PROVE  OneMessage(q)'
  BY DEF SingleFlight
<1> DEFINE r == outq[n][1]
<1>1. OneMessage(q)
  BY DEF SingleFlight
<1>2. /\ \A m \in Node \ {n} : outq'[m] = outq[m]
      /\ Len(outq[n]) \in Nat /\ 1 \in 1 .. Len(outq[n])
      /\ Head(outq[n]) = r /\ r \in Reply
      /\ Len(outq'[n]) = Len(outq[n]) - 1
      /\ \A i \in 1 .. Len(outq'[n]) : outq'[n][i] = outq[n][i + 1]
  BY HeadTailProperties, EmptySeq, LenProperties DEF Deliver, TypeOK
<1>3. /\ Queued(q)' <=> Queued(q)
      /\ Handled(q)' <=> Handled(q)
  BY DEF Deliver, appVars, Queued, Handled
<1>4. mailbox' = [mailbox EXCEPT ![r.to] = Append(mailbox[r.to], r.val)]
  BY <1>2 DEF Deliver
<1> DEFINE pos(m, i) == IF m = n THEN i + 1 ELSE i
<1>5. ASSUME NEW m \in Node, NEW i \in 1 .. Len(outq'[m]), outq'[m][i].to = q
      PROVE  /\ pos(m, i) \in 1 .. Len(outq[m])
             /\ outq[m][pos(m, i)].to = q
             /\ m = n => pos(m, i) # 1
  <2>1. CASE m = n
    BY <1>2, <1>5, <2>1
  <2>2. CASE m # n
    BY <1>2, <1>5, <2>2
  <2>3. QED
    BY <2>1, <2>2
<1>6. ASSUME NEW m \in Node, NEW k \in Node,
             NEW i \in 1 .. Len(outq'[m]), NEW j \in 1 .. Len(outq'[k]),
             outq'[m][i].to = q, outq'[k][j].to = q
      PROVE  m = k /\ i = j
  <2>1. m = k /\ pos(m, i) = pos(k, j)
    <3> HIDE DEF pos
    <3>1. /\ pos(m, i) \in 1 .. Len(outq[m]) /\ outq[m][pos(m, i)].to = q
          /\ pos(k, j) \in 1 .. Len(outq[k]) /\ outq[k][pos(k, j)].to = q
      BY <1>6, <1>5
    <3>2. QED
      BY <1>1, <3>1 DEF OneMessage
  <2>2. QED
    BY <1>2, <2>1
<1>7. CASE r.to = q
  <2>1. Answered(q) /\ mailbox[q] = <<>>
    BY <1>1, <1>2, <1>7 DEF Answered, OneMessage, Delivered
  <2>2. ~Answered(q)'
    <3>1. SUFFICES ASSUME NEW m \in Node, NEW i \in 1 .. Len(outq'[m]),
                          outq'[m][i].to = q
                   PROVE  FALSE
      BY DEF Answered
    <3>2. /\ pos(m, i) \in 1 .. Len(outq[m])
          /\ outq[m][pos(m, i)].to = q
          /\ m = n => pos(m, i) # 1
      BY <1>5, <3>1
    <3> HIDE DEF pos
    <3>3. m = n /\ pos(m, i) = 1
      BY <1>1, <1>2, <1>7, <3>2 DEF OneMessage
    <3>4. QED
      BY <3>2, <3>3
  <2>3. Len(mailbox'[q]) <= 1
    BY <1>2, <1>4, <1>7, <2>1, EmptySeq, AppendProperties DEF TypeOK, Reply
  <2>4. QED
    BY <1>1, <1>3, <1>6, <2>1, <2>2, <2>3
       DEF OneMessage, InFlight, Deliver
<1>8. CASE r.to # q
  <2>1. mailbox'[q] = mailbox[q]
    BY <1>4, <1>8 DEF TypeOK
  <2>2. Answered(q)' => Answered(q)
    BY <1>2 DEF Answered
  <2>3. Delivered(q)' <=> Delivered(q)
    BY <2>1 DEF Delivered
  <2>4. client' = client
    BY DEF Deliver
  <2>5. /\ InFlight(q)' => InFlight(q)
        /\ Len(mailbox'[q]) <= 1
        /\ \A i, j \in 1 .. Len(inq') : inq'[i].from = q /\ inq'[j].from = q => i = j
    BY <1>1, <1>3, <2>1, <2>2, <2>3 DEF OneMessage, InFlight, Deliver
  <2>6. \A m, k \in Node : \A i \in 1 .. Len(outq'[m]), j \in 1 .. Len(outq'[k]) :
          outq'[m][i].to = q /\ outq'[k][j].to = q => m = k /\ i = j
    BY <1>6
  <2>7. QED
    BY <1>1, <1>3, <2>2, <2>3, <2>4, <2>5, <2>6 DEF OneMessage
<1>9. QED
  BY <1>7, <1>8

(* The caller takes the only reply there is and becomes idle.              *)
LEMMA TakeSingle ==
  ASSUME TypeOK, SingleFlight, NEW p \in Proc, Take(p)
  PROVE  SingleFlight'
<1> SUFFICES ASSUME NEW q \in Proc
             PROVE  OneMessage(q)'
  BY DEF SingleFlight
<1>1. OneMessage(q) /\ OneMessage(p)
  BY DEF SingleFlight
<1>2. /\ Queued(q)' <=> Queued(q)
      /\ Handled(q)' <=> Handled(q)
      /\ Answered(q)' <=> Answered(q)
  BY DEF Take, appVars, netVars, Queued, Handled, Answered
<1>3. CASE q = p
  <2>1. mailbox'[q] = Tail(mailbox[q]) /\ mailbox[q] \in Seq(Int32)
    BY <1>3 DEF Take, TypeOK
  <2>2. Len(mailbox'[q]) = 0 /\ mailbox'[q] = <<>>
    <3>1. /\ Len(Tail(mailbox[q])) = Len(mailbox[q]) - 1
          /\ Tail(mailbox[q]) \in Seq(Int32)
          /\ Len(mailbox[q]) \in Nat \ {0}
      BY <1>3, <2>1, HeadTailProperties, EmptySeq DEF Take
    <3>2. Len(mailbox[q]) <= 1
      BY <1>1 DEF OneMessage
    <3>3. \A k \in Nat \ {0} : k <= 1 => k - 1 = 0
      OBVIOUS
    <3>4. Len(Tail(mailbox[q])) = 0
      BY <3>1, <3>2, <3>3
    <3>5. QED
      BY <2>1, <3>1, <3>4, EmptySeq
  <2>3. ~InFlight(q)'
    BY <1>1, <1>2, <1>3, <2>2 DEF OneMessage, InFlight, Delivered, Take
  <2>4. QED
    BY <1>1, <2>2, <2>3 DEF OneMessage, InFlight, Take, netVars
<1>4. CASE q # p
  <2>1. mailbox'[q] = mailbox[q] /\ client'[q] = client[q]
    BY <1>4 DEF Take, TypeOK
  <2>2. QED
    BY <1>1, <1>2, <2>1 DEF OneMessage, InFlight, Delivered, Take, netVars
<1>5. QED
  BY <1>3, <1>4

LEMMA InitSingle == Init => SingleFlight
BY EmptySeq
   DEF Init, SingleFlight, OneMessage, InFlight, Queued, Handled, Answered, Delivered

LEMMA NextSingle ==
  TypeOK /\ PeerInv /\ SingleFlight /\ [Next]_vars => SingleFlight'
<1> SUFFICES ASSUME TypeOK, PeerInv, SingleFlight, [Next]_vars
             PROVE  SingleFlight'
  OBVIOUS
<1>1. ASSUME NEW p \in Proc, NEW f \in Fn, Call(p, f)
      PROVE  SingleFlight'
  BY <1>1, Frame DEF Call, appVars, netVars, TypeOK
<1>2. ASSUME NEW p \in Proc, Runtime(p)
      PROVE  SingleFlight'
  <2>1. CASE Send(p)
    BY <2>1, SendSingle
  <2>2. CASE SendDropped(p)
    BY <2>2, Frame DEF SendDropped, appVars, netVars, TypeOK
  <2>3. CASE Take(p)
    BY <2>3, TakeSingle
  <2>4. QED
    BY <1>2, <2>1, <2>2, <2>3 DEF Runtime
<1>3. ASSUME NEW n \in Node, Connect(n)
      PROVE  SingleFlight'
  BY <1>3, Frame DEF Connect, appVars, clientVars
<1>4. ASSUME NEW n \in Node, Deliver(n)
      PROVE  SingleFlight'
  BY <1>4, DeliverSingle
<1>5. ASSUME NEW n \in Node, HandshakeTimeout(n)
      PROVE  SingleFlight'
  BY <1>5, Frame, DropSendsWaits DEF HandshakeTimeout, appVars
<1>6. ASSUME NEW n \in Node, NodeDown(n)
      PROVE  SingleFlight'
  <2>1. \A m \in Node : outq'[m] = outq[m] \/ outq'[m] = <<>>
    BY <1>6 DEF NodeDown, TypeOK
  <2>2. QED
    BY <1>6, <2>1, Shrink, LenProperties DEF NodeDown, appVars, clientVars, TypeOK
<1>7. ASSUME NEW n \in Node, Disconnect(n)
      PROVE  SingleFlight'
  <2>1. PICK k \in 0 .. Len(inq) : inq' = SubSeq(inq, 1, k)
    BY <1>7 DEF Disconnect
  <2>2. Len(inq') \in 0 .. Len(inq) /\ \A i \in 1 .. Len(inq') : inq'[i] = inq[i]
    BY <2>1, SubSeqProperties, ElementOfSeq, LenProperties DEF TypeOK
  <2>3. \A m \in Node : outq'[m] = outq[m] \/ outq'[m] = <<>>
    BY <1>7 DEF Disconnect, TypeOK
  <2>4. QED
    BY <1>7, <2>2, <2>3, Shrink DEF Disconnect, appVars, clientVars
<1>8. ASSUME NEW n \in Node, Accept(n)
      PROVE  SingleFlight'
  BY <1>8, Frame DEF Accept, clientVars
<1>9. CASE Start \/ Setup \/ ReceiveError \/ PowerTransition
  BY <1>9, Frame DEF Start, Setup, ReceiveError, PowerTransition, netVars, clientVars
<1>10. CASE DispatchIncrement \/ DispatchReturn \/ DispatchOther
  BY <1>10, Frame
     DEF DispatchIncrement, DispatchReturn, DispatchOther, netVars, clientVars
<1>11. CASE SetupFails \/ DispatchAborts \/ Finish
  BY <1>11, ExitSingle DEF SetupFails, DispatchAborts, Finish
<1>12. CASE Receive
  BY <1>12, ReceiveSingle
<1>13. CASE SendReply
  BY <1>13, SendReplySingle
<1>14. CASE UNCHANGED vars
  BY <1>14, Frame DEF vars
<1>15. QED
  BY <1>1, <1>2, <1>3, <1>4, <1>5, <1>6, <1>7, <1>8, <1>9, <1>10, <1>11,
     <1>12, <1>13, <1>14
     DEF Next, Network, Handle

(* Each caller gets the reply to its own call although replies carry no    *)
(* reference: no process ever has two messages under way.                  *)
THEOREM RepliesMatchCalls == Spec => []SingleFlight
<1>1. Init => PeerInv /\ SingleFlight
  BY InitPeer, InitSingle
<1>2. TypeOK /\ PeerInv /\ SingleFlight /\ [Next]_vars => (PeerInv /\ SingleFlight)'
  BY NextPeer, NextSingle
<1>3. QED
  BY <1>1, <1>2, TypeCorrect, PTL DEF Spec
=============================================================================
