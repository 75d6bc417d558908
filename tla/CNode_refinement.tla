-------------------------- MODULE CNode_refinement --------------------------
(***************************************************************************)
(* Proof that the C node, its clients and their connections implement      *)
(* CounterService, step by step, and that a lost call stays lost.          *)
(*                                                                         *)
(* A call is one message that moves from the connection to main(), to the  *)
(* replies and to the mailbox.  Each step moves it, dispatches it or loses *)
(* it; so the proof shows for each action what becomes of Pending(q), and  *)
(* of the answers AnswerIs(q, v) on their way, and derives from these two  *)
(* what becomes of CallPhase(q) and CallAnswer(q).                         *)
(***************************************************************************)
EXTENDS CNode_proofs

(* A message names the function its sender called last.                    *)
FnMatches ==
  /\ \A i \in 1 .. Len(inq) : inq[i].fn = request[inq[i].from]
  /\ emsg # NoMsg => emsg.fn = request[emsg.from]

IInv == TypeOK /\ PeerInv /\ SingleFlight /\ FnMatches

LEMMA InitFn == Init => FnMatches
BY DEF Init, FnMatches

LEMMA ExitFn ==
  ASSUME TypeOK, Exit
  PROVE  FnMatches'
BY EmptySeq DEF Exit, FnMatches

LEMMA NextFn == TypeOK /\ SingleFlight /\ FnMatches /\ [Next]_vars => FnMatches'
<1> SUFFICES ASSUME TypeOK, SingleFlight, FnMatches, [Next]_vars
             PROVE  FnMatches'
  OBVIOUS
<1>1. ASSUME NEW p \in Proc, NEW f \in Fn, Call(p, f)
      PROVE  FnMatches'
  <2>1. ~Queued(p) /\ ~Handled(p)
    BY <1>1 DEF Call, SingleFlight, OneMessage, InFlight
  <2>2. \A q \in Proc \ {p} : request'[q] = request[q]
    BY <1>1 DEF Call, TypeOK
  <2>3. \A i \in 1 .. Len(inq) : inq[i].from \in Proc \ {p}
    <3>1. \A i \in 1 .. Len(inq) : inq[i] \in Request
      BY ElementOfSeq DEF TypeOK
    <3>2. QED
      BY <2>1, <3>1 DEF Queued, Request
  <2>4. emsg # NoMsg => emsg.from \in Proc \ {p}
    BY <2>1 DEF Handled, TypeOK, Request
  <2>5. QED
    BY <1>1, <2>2, <2>3, <2>4 DEF Call, FnMatches, appVars, netVars
<1>2. ASSUME NEW p \in Proc, Send(p)
      PROVE  FnMatches'
  <2>1. [from |-> p, fn |-> request[p]] \in Request
    BY DEF TypeOK, Request
  <2>2. QED
    BY <1>2, <2>1, AppendProperties, LenProperties DEF Send, FnMatches, TypeOK, appVars
<1>3. ASSUME NEW n \in Node, Disconnect(n)
      PROVE  FnMatches'
  <2>1. PICK k \in 0 .. Len(inq) : inq' = SubSeq(inq, 1, k)
    BY <1>3 DEF Disconnect
  <2>2. \A i \in 1 .. Len(inq') : i \in 1 .. Len(inq) /\ inq'[i] = inq[i]
    BY <2>1, SubSeqProperties, ElementOfSeq, LenProperties DEF TypeOK
  <2>3. QED
    BY <1>3, <2>2 DEF Disconnect, FnMatches, appVars, clientVars
<1>4. CASE Receive
  <2>1. /\ Len(inq) \in Nat /\ 1 \in 1 .. Len(inq) /\ emsg' = inq[1]
        /\ Len(inq') = Len(inq) - 1
        /\ \A i \in 1 .. Len(inq') : inq'[i] = inq[i + 1]
    BY <1>4, HeadTailProperties, EmptySeq, LenProperties DEF Receive, TypeOK
  <2>2. QED
    BY <1>4, <2>1 DEF Receive, FnMatches, clientVars
<1>5. CASE SendReply
  BY <1>5 DEF SendReply, FnMatches, clientVars
<1>6. CASE SetupFails \/ DispatchAborts \/ Finish
  BY <1>6, ExitFn DEF SetupFails, DispatchAborts, Finish
<1>7. CASE UNCHANGED <<inq, emsg, request>>
  BY <1>7 DEF FnMatches
<1>8. QED
  BY <1>1, <1>2, <1>3, <1>4, <1>5, <1>6, <1>7
     DEF Next, Runtime, Network, Handle, SendDropped, Take, Connect, Deliver,
         HandshakeTimeout, NodeDown, Accept, Start, Setup, ReceiveError,
         DispatchIncrement, DispatchReturn, DispatchOther, PowerTransition,
         vars, appVars, netVars, clientVars

LEMMA Inductive == Spec => []IInv
<1>1. Init => PeerInv /\ SingleFlight /\ FnMatches
  BY InitPeer, InitSingle, InitFn
<1>2. TypeOK /\ PeerInv /\ SingleFlight /\ FnMatches /\ [Next]_vars
        => (PeerInv /\ SingleFlight /\ FnMatches)'
  BY NextPeer, NextSingle, NextFn
<1>3. QED
  BY <1>1, <1>2, TypeCorrect, PTL DEF Spec, IInv

-----------------------------------------------------------------------------
(* The abstract state of a call, from where its message is.                *)

Pending(q) ==
  client[q] = "sending" \/ Queued(q) \/ (Handled(q) /\ app = "dispatch")

Carries(q, v) ==
  \E n \in Node : \E i \in 1 .. Len(outq[n]) :
    outq[n][i].to = q /\ outq[n][i].val = v

AnswerIs(q, v) ==
  \/ app = "reply" /\ Handled(q) /\ v = res
  \/ Carries(q, v)
  \/ Delivered(q) /\ v = Head(mailbox[q])

CallState(q) ==
  /\ CallPhase(q) \in {"idle", "pending", "applied", "lost"}
  /\ CallPhase(q) = "idle" <=> client[q] = "idle"
  /\ CallPhase(q) = "pending" <=> Pending(q)
  /\ CallPhase(q) = "applied" <=> \E v : AnswerIs(q, v)
  /\ CallPhase(q) = "applied" => \A v : AnswerIs(q, v) <=> v = CallAnswer(q)
  /\ CallPhase(q) # "applied" => CallAnswer(q) = NoAnswer

(* The reply that carries an answer is on the caller's own connection, and *)
(* it is the only one.                                                     *)
LEMMA OneReply ==
  ASSUME IInv, NEW q \in Proc, Answered(q)
  PROVE  LET s == outq[NodeOf[q]]
             v == s[CHOOSE i \in 1 .. Len(s) : s[i].to = q].val
         IN  \A w : Carries(q, w) <=> w = v
<1> DEFINE s == outq[NodeOf[q]]
           k == CHOOSE i \in 1 .. Len(s) : s[i].to = q
<1>1. \A n \in Node : \A i \in 1 .. Len(outq[n]) : outq[n][i].to = q => n = NodeOf[q]
  BY DEF IInv, PeerInv, OnePeer
<1>2. \E i \in 1 .. Len(s) : s[i].to = q
  BY <1>1 DEF Answered
<1>3. k \in 1 .. Len(s) /\ s[k].to = q
  BY <1>2
<1>4. NodeOf[q] \in Node
  BY NodeOfAssumption
<1>5. \A i \in 1 .. Len(s) : s[i].to = q => i = k
  <2>1. OneMessage(q)
    BY DEF IInv, SingleFlight
  <2>2. QED
    BY <2>1, <1>3, <1>4 DEF OneMessage
<1> HIDE DEF k
<1>6. \A w : Carries(q, w) <=> w = s[k].val
  BY <1>1, <1>3, <1>4, <1>5 DEF Carries
<1>7. QED
  BY <1>6 DEF k

LEMMA CallStates == IInv => \A q \in Proc : CallState(q)
<1> SUFFICES ASSUME IInv, NEW q \in Proc
             PROVE  CallState(q)
  OBVIOUS
<1>1. OneMessage(q) /\ client[q] \in {"idle", "sending", "waiting"}
  BY DEF IInv, SingleFlight, TypeOK
<1>2. Handled(q) => app \in {"dispatch", "reply"}
  BY DEF IInv, TypeOK, Handled
<1>3. Answered(q) <=> \E v : Carries(q, v)
  BY DEF Answered, Carries
<1>4. CASE Queued(q) \/ client[q] # "waiting"
  BY <1>1, <1>3, <1>4
     DEF CallState, CallPhase, CallAnswer, Pending, AnswerIs, OneMessage, InFlight
<1>5. CASE Handled(q)
  BY <1>1, <1>2, <1>3, <1>5
     DEF CallState, CallPhase, CallAnswer, Pending, AnswerIs, OneMessage, InFlight
<1>6. CASE Answered(q)
  <2>1. CallPhase(q) = "applied" /\ client[q] = "waiting"
    BY <1>1, <1>6 DEF CallPhase, OneMessage, InFlight
  <2>2. \A w : Carries(q, w) <=> w = CallAnswer(q)
    BY <1>1, <1>6, <2>1, OneReply DEF CallAnswer, OneMessage
  <2>3. QED
    BY <1>1, <1>6, <2>1, <2>2 DEF CallState, Pending, AnswerIs, OneMessage
<1>7. CASE Delivered(q)
  BY <1>1, <1>3, <1>7
     DEF CallState, CallPhase, CallAnswer, Pending, AnswerIs, OneMessage, InFlight
<1>8. CASE client[q] = "waiting" /\ ~InFlight(q)
  BY <1>3, <1>8
     DEF CallState, CallPhase, CallAnswer, Pending, AnswerIs, InFlight
<1>9. QED
  BY <1>1, <1>4, <1>5, <1>6, <1>7, <1>8 DEF InFlight

LEMMA CallStatesNext == IInv' => \A q \in Proc : CallState(q)'
<1>1. (IInv => \A q \in Proc : CallState(q))'
  BY CallStates, PTL
<1>2. QED
  BY <1>1

(* What a step does to a call it does not dispatch and does not finish.    *)

Keeps(q) == CallPhase(q)' = CallPhase(q) /\ CallAnswer(q)' = CallAnswer(q)

Loses(q) ==
  /\ CallPhase(q) \in {"pending", "applied"}
  /\ CallPhase(q)' = "lost" /\ CallAnswer(q)' = NoAnswer

LEMMA KeepsCall ==
  ASSUME IInv, IInv', NEW q \in Proc,
         client'[q] = "idle" <=> client[q] = "idle",
         Pending(q)' <=> Pending(q),
         \A v : AnswerIs(q, v)' <=> AnswerIs(q, v)
  PROVE  Keeps(q)
<1>1. CallState(q) /\ CallState(q)'
  BY CallStates, CallStatesNext
<1>2. QED
  BY <1>1 DEF CallState, Keeps

LEMMA KeepsOrLosesCall ==
  ASSUME IInv, IInv', NEW q \in Proc,
         client'[q] = "idle" <=> client[q] = "idle",
         Pending(q)' => Pending(q),
         \A v : AnswerIs(q, v)' => AnswerIs(q, v)
  PROVE  Keeps(q) \/ Loses(q)
<1>1. CallState(q) /\ CallState(q)'
  BY CallStates, CallStatesNext
<1>2. QED
  BY <1>1 DEF CallState, Keeps, Loses

(* Messages vanish, and nothing else happens to them.                      *)
LEMMA MessagesVanish ==
  ASSUME IInv, IInv',
         Len(inq') \in 0 .. Len(inq),
         \A i \in 1 .. Len(inq') : inq'[i] = inq[i],
         emsg' = NoMsg \/ UNCHANGED <<emsg, res, app>>,
         \A m \in Node : outq'[m] = outq[m] \/ outq'[m] = <<>>,
         mailbox' = mailbox,
         \A q \in Proc : \/ client'[q] = client[q]
                         \/ client[q] = "sending" /\ client'[q] = "waiting"
  PROVE  \A q \in Proc : Keeps(q) \/ Loses(q)
<1> SUFFICES ASSUME NEW q \in Proc
             PROVE  Keeps(q) \/ Loses(q)
  OBVIOUS
<1>1. Len(inq) \in Nat
  BY LenProperties DEF IInv, TypeOK
<1>2. Queued(q)' => Queued(q)
  BY <1>1 DEF Queued
<1>3. Pending(q)' => Pending(q)
  BY <1>2 DEF Pending, Handled
<1>4. ASSUME NEW v
      PROVE  Carries(q, v)' => Carries(q, v)
  BY DEF Carries
<1>5. ASSUME NEW v
      PROVE  AnswerIs(q, v)' => AnswerIs(q, v)
  BY <1>4 DEF AnswerIs, Handled, Delivered
<1>6. QED
  BY <1>3, <1>5, KeepsOrLosesCall

(* A step at which calls are kept or lost is one at which CounterService   *)
(* loses calls, perhaps none.                                              *)
LEMMA LossyStep ==
  ASSUME \A q \in Proc : Keeps(q) \/ Loses(q),
         UNCHANGED <<a, request, result>>,
         app' = "exited" \/ (app' # "exited" <=> app # "exited")
  PROVE  Service!Next
<1>1. PICK P \in SUBSET Proc : \A q \in Proc : q \in P <=> Loses(q)
  <2>1. {q \in Proc : Loses(q)} \in SUBSET Proc
    OBVIOUS
  <2>2. QED
    BY <2>1
<1>2. Service!Lose(P)
  BY <1>1 DEF Service!Lose, Keeps, Loses
<1>3. QED
  BY <1>2 DEF Service!Next

-----------------------------------------------------------------------------
(* The steps that move, dispatch or finish a call.                         *)

(* A process that calls is in no other call.                               *)
LEMMA CallStep ==
  ASSUME IInv, IInv', NEW p \in Proc, NEW f \in Fn, Call(p, f)
  PROVE  Service!Invoke(p, f)
<1>1. CallState(p) /\ CallState(p)'
  BY CallStates, CallStatesNext
<1>2. client[p] = "idle" /\ client' = [client EXCEPT ![p] = "sending"]
  BY DEF Call
<1>3. client'[p] = "sending"
  BY <1>2 DEF IInv, TypeOK
<1>4. /\ CallPhase(p) = "idle" /\ CallPhase(p)' = "pending"
      /\ CallAnswer(p) = NoAnswer /\ CallAnswer(p)' = NoAnswer
  BY <1>1, <1>2, <1>3 DEF CallState, Pending
<1>5. ASSUME NEW q \in Proc \ {p}
      PROVE  Keeps(q)
  <2>1. client'[q] = client[q]
    BY <1>2 DEF IInv, TypeOK
  <2>2. Pending(q)' <=> Pending(q)
    BY <2>1 DEF Call, Pending, Queued, Handled, appVars, netVars
  <2>3. \A v : AnswerIs(q, v)' <=> AnswerIs(q, v)
    BY DEF Call, AnswerIs, Carries, Handled, Delivered, appVars, netVars
  <2>4. QED
    BY <2>1, <2>2, <2>3, KeepsCall
<1>6. QED
  BY <1>4, <1>5 DEF Service!Invoke, Call, Keeps, appVars

(* The request goes from the process to the connection.                    *)
LEMMA SendStep ==
  ASSUME IInv, IInv', NEW p \in Proc, Send(p)
  PROVE  \A q \in Proc : Keeps(q) \/ Loses(q)
<1> SUFFICES ASSUME NEW q \in Proc
             PROVE  Keeps(q)
  OBVIOUS
<1>1. /\ Len(inq) \in Nat /\ Len(inq') = Len(inq) + 1
      /\ \A i \in 1 .. Len(inq) : inq'[i] = inq[i]
      /\ inq'[Len(inq) + 1].from = p
  <2>1. [from |-> p, fn |-> request[p]] \in Request
    BY DEF IInv, TypeOK, Request
  <2>2. QED
    BY <2>1, AppendProperties, LenProperties DEF Send, IInv, TypeOK
<1>2. client'[q] = IF q = p THEN "waiting" ELSE client[q]
  BY DEF Send, IInv, TypeOK
<1>3. Queued(q)' <=> Queued(q) \/ q = p
  BY <1>1 DEF Queued
<1>4. Pending(q)' <=> Pending(q)
  BY <1>2, <1>3 DEF Pending, Send, Handled, appVars
<1>5. \A v : AnswerIs(q, v)' <=> AnswerIs(q, v)
  BY DEF Send, AnswerIs, Carries, Handled, Delivered, appVars
<1>6. QED
  BY <1>2, <1>4, <1>5, KeepsCall DEF Send

(* From the connection to main().                                          *)
LEMMA ReceiveStep ==
  ASSUME IInv, IInv', Receive
  PROVE  \A q \in Proc : Keeps(q) \/ Loses(q)
<1> SUFFICES ASSUME NEW q \in Proc
             PROVE  Keeps(q)
  OBVIOUS
<1>1. /\ Len(inq) \in Nat /\ 1 \in 1 .. Len(inq) /\ emsg' = inq[1]
      /\ Len(inq') = Len(inq) - 1
      /\ \A i \in 1 .. Len(inq') : inq'[i] = inq[i + 1]
  BY HeadTailProperties, EmptySeq, LenProperties DEF Receive, IInv, TypeOK
<1>2. emsg' # NoMsg /\ emsg = NoMsg /\ app' = "dispatch" /\ app = "receive"
  BY NoValueAssumption DEF Receive, IInv, TypeOK, Request, Fn
<1>3. ~Handled(q) /\ (Handled(q)' <=> inq[1].from = q)
  BY <1>1, <1>2 DEF Handled
<1>4. Queued(q) <=> Queued(q)' \/ Handled(q)'
  <2>1. ASSUME NEW i \in 1 .. Len(inq), inq[i].from = q
        PROVE  Queued(q)' \/ Handled(q)'
    <3>1. CASE i = 1
      BY <1>3, <2>1, <3>1
    <3>2. CASE i # 1
      <4>1. i - 1 \in 1 .. Len(inq') /\ inq'[i - 1] = inq[i]
        BY <1>1, <3>2
      <4>2. QED
        BY <2>1, <4>1 DEF Queued
    <3>3. QED
      BY <3>1, <3>2
  <2>2. Queued(q)' => Queued(q)
    BY <1>1 DEF Queued
  <2>3. QED
    BY <1>1, <1>3, <2>1, <2>2 DEF Queued
<1>5. Pending(q)' <=> Pending(q)
  BY <1>2, <1>3, <1>4 DEF Pending, Receive, clientVars
<1>6. \A v : AnswerIs(q, v)' <=> AnswerIs(q, v)
  BY <1>2, <1>3 DEF Receive, AnswerIs, Carries, Delivered, clientVars
<1>7. QED
  BY <1>5, <1>6, KeepsCall DEF Receive, clientVars

(* The call takes effect: main() looks at the message once.                *)
LEMMA DispatchStep ==
  ASSUME IInv, IInv', DispatchIncrement \/ DispatchReturn \/ DispatchOther
  PROVE  Service!Next
<1>1. /\ app = "dispatch" /\ app' = "reply"
      /\ UNCHANGED <<emsg, netVars, clientVars>>
  BY DEF DispatchIncrement, DispatchReturn, DispatchOther
<1>2. PICK p \in Proc : p = emsg.from
  BY <1>1 DEF IInv, TypeOK, Request
<1>3. emsg # NoMsg /\ emsg.fn \in Fn /\ emsg.fn = request[p]
  BY <1>1, <1>2, NoValueAssumption DEF IInv, TypeOK, Request, Fn, FnMatches
<1>4. /\ CallPhase(p) = "pending" /\ CallPhase(p)' = "applied"
      /\ CallAnswer(p)' = res'
  <2>1. CallState(p) /\ CallState(p)'
    BY CallStates, CallStatesNext
  <2>2. Pending(p) /\ AnswerIs(p, res)'
    BY <1>3, <1>1, <1>2 DEF Pending, AnswerIs, Handled, clientVars
  <2>3. QED
    BY <2>1, <2>2 DEF CallState
<1>5. ASSUME NEW q \in Proc \ {p}
      PROVE  Keeps(q)
  <2>1. ~Handled(q) /\ ~Handled(q)'
    BY <1>1, <1>2 DEF Handled
  <2>2. Pending(q)' <=> Pending(q)
    BY <1>1, <2>1 DEF Pending, Queued, netVars, clientVars
  <2>3. \A v : AnswerIs(q, v)' <=> AnswerIs(q, v)
    BY <1>1, <2>1 DEF AnswerIs, Carries, Delivered, netVars, clientVars
  <2>4. QED
    BY <1>1, <2>2, <2>3, KeepsCall DEF clientVars
<1>6. /\ a' = IF request[p] = "increment" THEN Service!Succ32(a) ELSE a
      /\ res' \in Service!Answers(request[p], a)
  <2>1. res' \in Int32
    BY DEF IInv, TypeOK
  <2>2. QED
    BY <1>3, <2>1
       DEF DispatchIncrement, DispatchReturn, DispatchOther, Service!Answers,
           Service!Succ32, Succ32, Service!Int32, Int32, Service!IntMin, IntMin, Fn
<1>7. Service!Apply(p)
  BY <1>1, <1>2, <1>4, <1>5, <1>6 DEF Service!Apply, Keeps, clientVars
<1>8. QED
  BY <1>7 DEF Service!Next

(* From main() to the replies of the node, or nowhere.                     *)
LEMMA SendReplyStep ==
  ASSUME IInv, IInv', SendReply
  PROVE  \A q \in Proc : Keeps(q) \/ Loses(q)
<1> SUFFICES ASSUME NEW q \in Proc
             PROVE  Keeps(q) \/ Loses(q)
  OBVIOUS
<1> DEFINE reply == [to |-> emsg.from, val |-> res]
<1>1. emsg # NoMsg /\ reply \in Reply /\ (open => fd \in Node)
  BY NoValueAssumption
     DEF SendReply, IInv, TypeOK, Request, Reply, Fn, PeerInv, NoPeer
<1>2. ~Handled(q)'
  BY DEF SendReply, Handled
<1>3. Pending(q)' <=> Pending(q)
  BY <1>2 DEF SendReply, Pending, Queued, clientVars
<1>4. ASSUME NEW v
      PROVE  Carries(q, v)' => Carries(q, v) \/ (Handled(q) /\ v = res)
  <2>1. CASE ~open
    BY <2>1 DEF SendReply, Carries
  <2>2. CASE open
    <3>1. /\ \A n \in Node \ {fd} : outq'[n] = outq[n]
          /\ Len(outq[fd]) \in Nat /\ Len(outq'[fd]) = Len(outq[fd]) + 1
          /\ \A i \in 1 .. Len(outq[fd]) : outq'[fd][i] = outq[fd][i]
          /\ outq'[fd][Len(outq[fd]) + 1] = reply
      <4>1. outq' = [outq EXCEPT ![fd] = Append(outq[fd], reply)]
        BY <2>2 DEF SendReply
      <4>2. QED
        BY <1>1, <2>2, <4>1, AppendProperties, LenProperties DEF IInv, TypeOK
    <3>2. QED
      BY <1>1, <3>1 DEF Carries, Handled
  <2>3. QED
    BY <2>1, <2>2
<1>5. ASSUME NEW v
      PROVE  AnswerIs(q, v)' => AnswerIs(q, v)
  BY <1>2, <1>4 DEF SendReply, AnswerIs, Delivered, clientVars
<1>6. QED
  BY <1>3, <1>5, KeepsOrLosesCall DEF SendReply, clientVars

(* From the replies to the mailbox.                                        *)
LEMMA DeliverStep ==
  ASSUME IInv, IInv', NEW n \in Node, Deliver(n)
  PROVE  \A q \in Proc : Keeps(q) \/ Loses(q)
<1> SUFFICES ASSUME NEW q \in Proc
             PROVE  Keeps(q) \/ Loses(q)
  OBVIOUS
<1> DEFINE r == outq[n][1]
<1>1. /\ \A m \in Node \ {n} : outq'[m] = outq[m]
      /\ Len(outq[n]) \in Nat /\ 1 \in 1 .. Len(outq[n])
      /\ Head(outq[n]) = r /\ r \in Reply
      /\ Len(outq'[n]) = Len(outq[n]) - 1
      /\ \A i \in 1 .. Len(outq'[n]) : outq'[n][i] = outq[n][i + 1]
  BY HeadTailProperties, EmptySeq, LenProperties DEF Deliver, IInv, TypeOK
<1>2. mailbox' = [mailbox EXCEPT ![r.to] = Append(mailbox[r.to], r.val)]
  BY <1>1 DEF Deliver
<1>3. Pending(q)' <=> Pending(q)
  BY DEF Deliver, Pending, Queued, Handled, appVars
<1>4. \A v : Carries(q, v)' => Carries(q, v)
  BY <1>1 DEF Carries
<1>5. Handled(q)' <=> Handled(q)
  BY DEF Deliver, Handled, appVars
<1>6. ASSUME NEW v, Delivered(q)', v = Head(mailbox'[q])
      PROVE  Carries(q, v) \/ (Delivered(q) /\ v = Head(mailbox[q]))
  <2>1. CASE r.to # q
    <3>1. mailbox'[q] = mailbox[q]
      BY <1>2, <2>1 DEF IInv, TypeOK
    <3>2. QED
      BY <1>6, <3>1 DEF Delivered
  <2>2. CASE r.to = q
    <3>1. Answered(q)
      BY <1>1, <2>2 DEF Answered
    <3>2. mailbox[q] = <<>>
      BY <3>1 DEF IInv, SingleFlight, OneMessage, Delivered
    <3>3. mailbox'[q] = Append(<<>>, r.val) /\ r.val \in Int32
      BY <1>1, <1>2, <2>2, <3>2 DEF IInv, TypeOK, Reply
    <3>4. Head(mailbox'[q]) = r.val
      BY <3>3, EmptySeq, HeadTailAppend
    <3>5. QED
      BY <1>1, <1>6, <2>2, <3>4 DEF Carries
  <2>3. QED
    BY <2>1, <2>2
<1>7. ASSUME NEW v
      PROVE  AnswerIs(q, v)' => AnswerIs(q, v)
  BY <1>4, <1>5, <1>6 DEF AnswerIs, Deliver, appVars
<1>8. QED
  BY <1>3, <1>7, KeepsOrLosesCall DEF Deliver

(* From the mailbox to the caller.                                         *)
LEMMA TakeStep ==
  ASSUME IInv, IInv', NEW p \in Proc, Take(p)
  PROVE  Service!Finish(p)
<1>1. CallState(p) /\ CallState(p)'
  BY CallStates, CallStatesNext
<1>2. client'[p] = "idle"
  BY DEF Take, IInv, TypeOK
<1>3. /\ CallPhase(p) = "applied" /\ CallAnswer(p) = Head(mailbox[p])
      /\ CallPhase(p)' = "idle" /\ CallAnswer(p)' = NoAnswer
  <2>1. AnswerIs(p, Head(mailbox[p]))
    BY DEF Take, AnswerIs, Delivered
  <2>2. QED
    BY <1>1, <1>2, <2>1 DEF CallState
<1>4. ASSUME NEW q \in Proc \ {p}
      PROVE  Keeps(q)
  <2>1. client'[q] = client[q] /\ mailbox'[q] = mailbox[q]
    BY DEF Take, IInv, TypeOK
  <2>2. Pending(q)' <=> Pending(q)
    BY <2>1 DEF Take, Pending, Queued, Handled, appVars, netVars
  <2>3. \A v : AnswerIs(q, v)' <=> AnswerIs(q, v)
    BY <2>1 DEF Take, AnswerIs, Carries, Handled, Delivered, appVars, netVars
  <2>4. QED
    BY <2>1, <2>2, <2>3, KeepsCall
<1>5. QED
  BY <1>3, <1>4 DEF Service!Finish, Take, Keeps, appVars

LEMMA ExitStep ==
  ASSUME IInv, IInv', Exit
  PROVE  Service!Next
<1>1. Len(inq') \in 0 .. Len(inq) /\ \A i \in 1 .. Len(inq') : inq'[i] = inq[i]
  BY LenProperties DEF Exit, IInv, TypeOK
<1>2. \A q \in Proc : \/ client'[q] = client[q]
                      \/ client[q] = "sending" /\ client'[q] = "waiting"
  BY DEF Exit, DropSends
<1>3. \A q \in Proc : Keeps(q) \/ Loses(q)
  BY <1>1, <1>2, MessagesVanish DEF Exit
<1>4. QED
  BY <1>3, LossyStep DEF Exit

(* The number starts again with the process, and no call is under way      *)
(* whose answer could change with it.                                      *)
LEMMA StartStep ==
  ASSUME IInv, IInv', Start
  PROVE  Service!Start
<1>1. emsg = NoMsg /\ app' = "setup"
  BY DEF Start, IInv, TypeOK
<1>2. ASSUME NEW q \in Proc
      PROVE  Keeps(q)
  <2>1. ~Handled(q) /\ ~Handled(q)'
    BY <1>1 DEF Start, Handled
  <2>2. Pending(q)' <=> Pending(q)
    BY <2>1 DEF Start, Pending, Queued, netVars, clientVars
  <2>3. \A v : AnswerIs(q, v)' <=> AnswerIs(q, v)
    BY <2>1 DEF Start, AnswerIs, Carries, Delivered, netVars, clientVars
  <2>4. QED
    BY <2>2, <2>3, KeepsCall DEF Start, clientVars
<1>3. QED
  BY <1>2 DEF Start, Service!Start, Keeps, clientVars

LEMMA InitStep == Init => Service!Init
<1> SUFFICES ASSUME Init
             PROVE  Service!Init
  OBVIOUS
<1>1. \A p \in Proc : CallPhase(p) = "idle" /\ CallAnswer(p) = NoAnswer
  BY DEF Init, CallPhase, CallAnswer
<1>2. QED
  BY <1>1 DEF Init, Service!Init, Service!Fn

(* The steps of each action.                                               *)
LEMMA NextStep == IInv /\ IInv' /\ [Next]_vars => [Service!Next]_(Service!vars)
<1> SUFFICES ASSUME IInv, IInv', [Next]_vars
             PROVE  Service!Next
  OBVIOUS
<1>0. Len(inq) \in 0 .. Len(inq) /\ TypeOK
  BY LenProperties DEF IInv, TypeOK
<1>1. ASSUME NEW p \in Proc, NEW f \in Fn, Call(p, f)
      PROVE  Service!Next
  BY <1>1, CallStep DEF Service!Next, Service!Fn, Fn
<1>2. ASSUME NEW p \in Proc, Send(p)
      PROVE  Service!Next
  BY <1>2, SendStep, LossyStep DEF Send, appVars
<1>3. ASSUME NEW p \in Proc, SendDropped(p)
      PROVE  Service!Next
  <2>1. \A q \in Proc : Keeps(q) \/ Loses(q)
    BY <1>0, <1>3, MessagesVanish DEF SendDropped, appVars, netVars, TypeOK
  <2>2. QED
    BY <1>3, <2>1, LossyStep DEF SendDropped, appVars
<1>4. ASSUME NEW p \in Proc, Take(p)
      PROVE  Service!Next
  BY <1>4, TakeStep DEF Service!Next
<1>5. ASSUME NEW n \in Node, Connect(n) \/ Accept(n)
      PROVE  Service!Next
  <2>1. ASSUME NEW q \in Proc
        PROVE  Keeps(q)
    <3>1. Pending(q)' <=> Pending(q)
      BY <1>5 DEF Connect, Accept, appVars, clientVars, Pending, Queued, Handled
    <3>2. \A v : AnswerIs(q, v)' <=> AnswerIs(q, v)
      BY <1>5 DEF Connect, Accept, appVars, clientVars, AnswerIs, Carries, Handled, Delivered
    <3>3. QED
      BY <1>5, <3>1, <3>2, KeepsCall DEF Connect, Accept, clientVars
  <2>2. QED
    BY <1>5, <2>1, LossyStep DEF Connect, Accept, appVars, clientVars
<1>6. ASSUME NEW n \in Node, Deliver(n)
      PROVE  Service!Next
  BY <1>6, DeliverStep, LossyStep DEF Deliver, appVars
<1>7. ASSUME NEW n \in Node, HandshakeTimeout(n)
      PROVE  Service!Next
  <2>1. \A q \in Proc : Keeps(q) \/ Loses(q)
    BY <1>0, <1>7, MessagesVanish DEF HandshakeTimeout, DropSends, appVars
  <2>2. QED
    BY <1>7, <2>1, LossyStep DEF HandshakeTimeout, appVars
<1>8. ASSUME NEW n \in Node, NodeDown(n)
      PROVE  Service!Next
  <2>1. \A m \in Node : outq'[m] = outq[m] \/ outq'[m] = <<>>
    BY <1>0, <1>8 DEF NodeDown, TypeOK
  <2>2. \A q \in Proc : Keeps(q) \/ Loses(q)
    BY <1>0, <1>8, <2>1, MessagesVanish DEF NodeDown, appVars, clientVars
  <2>3. QED
    BY <1>8, <2>2, LossyStep DEF NodeDown, appVars, clientVars
<1>9. ASSUME NEW n \in Node, Disconnect(n)
      PROVE  Service!Next
  <2>1. PICK k \in 0 .. Len(inq) : inq' = SubSeq(inq, 1, k)
    BY <1>9 DEF Disconnect
  <2>2. Len(inq') \in 0 .. Len(inq) /\ \A i \in 1 .. Len(inq') : inq'[i] = inq[i]
    BY <1>0, <2>1, SubSeqProperties, ElementOfSeq, LenProperties DEF TypeOK
  <2>3. \A m \in Node : outq'[m] = outq[m] \/ outq'[m] = <<>>
    BY <1>0, <1>9 DEF Disconnect, TypeOK
  <2>4. \A q \in Proc : Keeps(q) \/ Loses(q)
    BY <1>9, <2>2, <2>3, MessagesVanish DEF Disconnect, appVars, clientVars
  <2>5. QED
    BY <1>9, <2>4, LossyStep DEF Disconnect, appVars, clientVars
<1>10. CASE Start
  BY <1>10, StartStep DEF Service!Next
<1>11. CASE Setup \/ ReceiveError \/ PowerTransition
  <2>1. ASSUME NEW q \in Proc
        PROVE  Keeps(q)
    <3>1. /\ UNCHANGED <<emsg, res, netVars, clientVars>>
          /\ app' = app \/ emsg = NoMsg
      BY <1>0, <1>11 DEF Setup, ReceiveError, PowerTransition, TypeOK
    <3>2. Pending(q)' <=> Pending(q)
      BY <3>1 DEF netVars, clientVars, Pending, Queued, Handled
    <3>3. \A v : AnswerIs(q, v)' <=> AnswerIs(q, v)
      BY <3>1 DEF netVars, clientVars, AnswerIs, Carries, Handled, Delivered
    <3>4. QED
      BY <3>1, <3>2, <3>3, KeepsCall DEF clientVars
  <2>2. QED
    BY <1>11, <2>1, LossyStep DEF Setup, ReceiveError, PowerTransition, clientVars
<1>12. CASE SetupFails \/ DispatchAborts \/ Finish
  BY <1>12, ExitStep DEF SetupFails, DispatchAborts, Finish
<1>13. CASE Receive
  BY <1>13, ReceiveStep, LossyStep DEF Receive, clientVars
<1>14. CASE DispatchIncrement \/ DispatchReturn \/ DispatchOther
  BY <1>14, DispatchStep
<1>15. CASE SendReply
  BY <1>15, SendReplyStep, LossyStep DEF SendReply, clientVars
<1>16. CASE UNCHANGED vars
  <2>1. \A q \in Proc : Keeps(q)
    BY <1>16 DEF vars, Keeps, CallPhase, CallAnswer, Queued, Handled, InFlight,
                 Answered, Delivered
  <2>2. QED
    BY <1>16, <2>1, LossyStep DEF vars
<1>17. QED
  BY <1>1, <1>2, <1>3, <1>4, <1>5, <1>6, <1>7, <1>8, <1>9, <1>10, <1>11,
     <1>12, <1>13, <1>14, <1>15, <1>16
     DEF Next, Runtime, Network, Handle

(* The C node and its clients implement CounterService, with and without   *)
(* SGX, for any number of processes and nodes, through crashes, restarts   *)
(* and broken connections: a call takes effect at most once, and the       *)
(* answer its caller gets is its own.                                      *)
THEOREM Refinement == Spec => ImplementsCounterService
<1>1. IInv /\ IInv' /\ [Next]_vars => [Service!Next]_(Service!vars)
  BY NextStep
<1>2. QED
  BY <1>1, InitStep, Inductive, PTL DEF Spec, ImplementsCounterService, Service!Spec

(* A call that was lost is never answered, whatever happens later, as no   *)
(* step of CounterService takes a call out of the phase "lost".            *)
THEOREM LostThm == Spec => LostIsForever
<1>1. IInv /\ IInv' /\ [Next]_vars => [\A p \in Proc : Lost(p) => Lost(p)']_vars
  <2> SUFFICES ASSUME IInv, IInv', [Next]_vars, NEW p \in Proc, Lost(p)
               PROVE  Lost(p)'
    OBVIOUS
  <2>1. CallPhase(p) = "lost"
    BY DEF Lost, CallPhase, InFlight
  <2>2. CallPhase(p)' = "lost"
    <3>1. CASE Service!Next
      BY <2>1, <3>1
         DEF Service!Next, Service!Invoke, Service!Apply, Service!Finish,
             Service!Lose, Service!Start
    <3>2. CASE UNCHANGED Service!vars
      BY <2>1, <3>2 DEF Service!vars
    <3>3. QED
      BY <3>1, <3>2, NextStep
  <2>3. client'[p] \in {"idle", "sending", "waiting"}
    BY DEF IInv, TypeOK
  <2>4. QED
    BY <2>2, <2>3 DEF CallPhase, Lost
<1>2. QED
  BY <1>1, Inductive, PTL DEF Spec, LostIsForever
=============================================================================
