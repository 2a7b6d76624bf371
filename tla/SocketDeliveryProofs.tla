------------------------ MODULE SocketDeliveryProofs ------------------------
(***************************************************************************)
(* What users of a socket may rely on: the theorems that follow from where *)
(* messages are (SocketProofs), the order of what is received, and what    *)
(* Close sends before it ends.                                             *)
(***************************************************************************)
EXTENDS SocketProofs

\* the provers, in the order in which they are tried
USE ZenonT(3), SMT, ZenonT(20), Z3

\* Initially no message is anywhere.
LEMMA MsgInit == Init => StopInv /\ HoldInv /\ MsgInv
<1> SUFFICES ASSUME Init PROVE StopInv /\ HoldInv /\ MsgInv
  OBVIOUS
<1>1. StopInv
  BY FS_EmptySet DEF Init, StopInv, DrainPCs, SenderPCs
<1>2. HoldInv
  <2>1. \A S : <<>> \in Seq(S) /\ Len(<<>>) = 0
    OBVIOUS
  <2> QED
    BY <2>1, QueueAssumption DEF Init, HoldInv, Holding
<1>3. \A x : ~In(x, <<>>) /\ Once(x, <<>>)
  BY DEF In, Once
<1>4. \A m \in Msgs : m # None
  BY MsgsAssumption
<1>5. ASSUME NEW m \in ToOne PROVE OneInv(m)
  BY <1>3, <1>4 DEF Init, OneInv, Held, Sent, Msgs
<1>6. ASSUME NEW m \in Addressed, NEW p \in Pipes PROVE CopyInv(m, p)
  BY <1>3, <1>4 DEF Init, CopyInv, On, Addressed, Msgs
<1>7. ASSUME NEW m \in ToAll PROVE FanInv(m)
  BY <1>3 DEF Init, FanInv
<1> QED
  BY <1>1, <1>2, <1>5, <1>6, <1>7 DEF MsgInv

\* A ToOne message with one place has one element in Places.
LEMMA OnePlace == HoldInv /\ MsgInv => ToOneExactlyOnce
<1> SUFFICES ASSUME HoldInv, MsgInv, NEW m \in ToOne
             PROVE  Cardinality(Places(m)) = (IF api[m] = "ok" THEN 1 ELSE 0)
  BY DEF ToOneExactlyOnce
<1> DEFINE queued == {i \in 1 .. Len(sendq) : sendq[i] = m}
           sent(p) == {i \in 1 .. Len(wire[p]) : wire[p][i] = m}
           held == {p \in Pipes : smsg[p] = m}
           A == {<<"sendq", i>> : i \in queued}
           B == {<<"sender", p>> : p \in held}
           E == {<<"drain", p>> : p \in {p \in Pipes : dmsg[p] = m}}
           C == UNION {{<<"wire", p, i>> : i \in sent(p)} : p \in Pipes}
           D == IF m \in dropped THEN {<<"dropped", m>>} ELSE {}
<1>1. OneInv(m)
  BY DEF MsgInv
<1>2. E = {}
  <2>1. {p \in Pipes : dmsg[p] = m} = {}
    BY MsgsAssumption DEF HoldInv, Addressed, Msgs
  <2> QED
    BY <2>1
<1>3. Places(m) = A \cup B \cup E \cup C \cup D
  BY DEF Places
<1>4. (~In(m, sendq) => A = {}) /\ (~Held(m) => B = {})
  BY DEF In, Held
<1>5. ~Sent(m) => C = {}
  <2>1. ASSUME ~Sent(m), NEW p \in Pipes PROVE sent(p) = {}
    BY <2>1 DEF Sent, In
  <2> QED
    BY <2>1
<1>6. ASSUME In(m, sendq) PROVE \E x : A = {x}
  <2>1. PICK i \in 1 .. Len(sendq) : sendq[i] = m
    BY <1>6 DEF In
  <2>2. queued = {i}
    BY <1>1, <2>1 DEF OneInv, Once
  <2>3. A = {<<"sendq", i>>}
    BY <2>2
  <2> QED
    BY <2>3
<1>7. ASSUME Held(m) PROVE \E x : B = {x}
  <2>1. PICK p \in Pipes : smsg[p] = m
    BY <1>7 DEF Held
  <2>2. held = {p}
    BY <1>1, <2>1 DEF OneInv
  <2>3. B = {<<"sender", p>>}
    BY <2>2
  <2> QED
    BY <2>3
<1>8. ASSUME Sent(m) PROVE \E x : C = {x}
  <2>1. PICK p \in Pipes : In(m, wire[p])
    BY <1>8 DEF Sent
  <2>2. PICK i \in 1 .. Len(wire[p]) : wire[p][i] = m
    BY <2>1 DEF In
  <2>3. sent(p) = {i}
    BY <1>1, <2>2 DEF OneInv, Once
  <2>4. ASSUME NEW q \in Pipes, q # p PROVE sent(q) = {}
    BY <1>1, <2>1, <2>4 DEF OneInv, In
  <2>5. ASSUME NEW x \in C PROVE x = <<"wire", p, i>>
    <3>1. PICK q \in Pipes : x \in {<<"wire", q, j>> : j \in sent(q)}
      BY <2>5
    <3>2. PICK j \in sent(q) : x = <<"wire", q, j>>
      BY <3>1
    <3>3. q = p /\ j = i
      BY <2>3, <2>4, <3>2
    <3> QED
      BY <3>2, <3>3
  <2>6. <<"wire", p, i>> \in C
    <3>1. <<"wire", p, i>> \in {<<"wire", p, j>> : j \in sent(p)}
      BY <2>3
    <3> QED
      BY <3>1
  <2> HIDE DEF C
  <2>7. C = {<<"wire", p, i>>}
    BY <2>5, <2>6
  <2> QED
    BY <2>7
<1>9. (m \in dropped => \E x : D = {x}) /\ (m \notin dropped => D = {})
  OBVIOUS
<1> HIDE DEF A, B, C, D, E
<1>10. (api[m] = "ok" => \E x : Places(m) = {x}) /\ (api[m] # "ok" => Places(m) = {})
  <2>1. CASE In(m, sendq)
    <3>1. B = {} /\ C = {} /\ D = {} /\ api[m] = "ok"
      BY <1>1, <1>4, <1>5, <1>9, <2>1 DEF OneInv
    <3> QED
      BY <1>2, <1>3, <1>6, <2>1, <3>1
  <2>2. CASE Held(m)
    <3>1. A = {} /\ C = {} /\ D = {} /\ api[m] = "ok"
      BY <1>1, <1>4, <1>5, <1>9, <2>2 DEF OneInv
    <3> QED
      BY <1>2, <1>3, <1>7, <2>2, <3>1
  <2>3. CASE Sent(m)
    <3>1. A = {} /\ B = {} /\ D = {} /\ api[m] = "ok"
      BY <1>1, <1>4, <1>9, <2>3 DEF OneInv
    <3> QED
      BY <1>2, <1>3, <1>8, <2>3, <3>1
  <2>4. CASE ~In(m, sendq) /\ ~Held(m) /\ ~Sent(m)
    <3>1. A = {} /\ B = {} /\ C = {} /\ (api[m] = "ok" <=> m \in dropped)
      BY <1>1, <1>4, <1>5, <2>4 DEF OneInv
    <3> QED
      BY <1>2, <1>3, <1>9, <3>1
  <2> QED
    BY <2>1, <2>2, <2>3, <2>4
<1> QED
  BY <1>10, FS_EmptySet, FS_Singleton

\* For any pipes, messages and queue sizes: a ToOne message that Send accepted
\* is in exactly one place, however often it is resent (resendMsg, socket.go).
THEOREM ToOneIsNeitherLostNorDoubled == Spec => []ToOneExactlyOnce
<1>1. StopInv /\ HoldInv /\ MsgInv /\ [Next]_vars => StopInv' /\ HoldInv' /\ MsgInv'
  BY StopStep, HoldStep, MsgStep
<1> QED
  BY <1>1, MsgInit, OnePlace, PTL DEF Spec

\* One of two places at most of the queue, the wire and the two hands.
LEMMA OneCopy ==
    ASSUME HoldInv, NEW m \in Addressed, NEW p \in Pipes, CopyInv(m, p)
    PROVE  LET here == psendq[p] \o wire[p] \o <<smsg[p], dmsg[p]>>
           IN  Cardinality({i \in 1 .. Len(here) : here[i] = m}) <= 1
<1>a. PICK q, w, x, y : q = psendq[p] /\ w = wire[p] /\ x = smsg[p] /\ y = dmsg[p]
  OBVIOUS
<1> DEFINE here == q \o w \o <<x, y>>
           at == {i \in 1 .. Len(here) : here[i] = m}
<1>b. q \in Seq(Msgs) /\ w \in Seq(Msgs)
  <2>1. q \in Seq(Addressed) /\ Addressed \subseteq Msgs /\ w \in Seq(Msgs)
    BY <1>a DEF HoldInv, Addressed, Msgs
  <2> QED
    BY <2>1
<1>c. /\ Once(m, q) /\ Once(m, w)
      /\ In(m, q) => ~In(m, w) /\ x # m /\ y # m
      /\ In(m, w) => x # m /\ y # m
      /\ x = m => y # m
  BY <1>a DEF CopyInv
<1>1. Len(q) \in Nat /\ Len(w) \in Nat /\ Len(here) = Len(q) + Len(w) + 2
  BY <1>b
<1>2. /\ \A i \in 1 .. Len(q) : here[i] = q[i]
      /\ \A i \in Len(q) + 1 .. Len(q) + Len(w) : here[i] = w[i - Len(q)]
      /\ here[Len(q) + Len(w) + 1] = x /\ here[Len(q) + Len(w) + 2] = y
  BY <1>b
<1> HIDE DEF here
<1>3. ASSUME NEW i \in at, NEW j \in at PROVE i = j
  <2>1. i \in 1 .. Len(here) /\ j \in 1 .. Len(here) /\ here[i] = m /\ here[j] = m
    OBVIOUS
  <2>2. ASSUME NEW k \in 1 .. Len(here), here[k] = m
        PROVE  \/ k \in 1 .. Len(q) /\ q[k] = m /\ In(m, q)
               \/ k \in Len(q) + 1 .. Len(q) + Len(w) /\ w[k - Len(q)] = m /\ In(m, w)
               \/ k = Len(q) + Len(w) + 1 /\ x = m
               \/ k = Len(q) + Len(w) + 2 /\ y = m
    <3>1. CASE k \in 1 .. Len(q)
      BY <1>2, <2>2, <3>1 DEF In
    <3>2. CASE k \in Len(q) + 1 .. Len(q) + Len(w)
      <4>1. k - Len(q) \in 1 .. Len(w) /\ w[k - Len(q)] = m
        BY <1>1, <1>2, <2>2, <3>2
      <4> QED
        BY <3>2, <4>1 DEF In
    <3>3. CASE k \in {Len(q) + Len(w) + 1, Len(q) + Len(w) + 2}
      BY <1>2, <2>2, <3>3
    <3> QED
      BY <1>1, <3>1, <3>2, <3>3
  <2>3. CASE In(m, q)
    BY <1>c, <2>1, <2>2, <2>3 DEF Once
  <2>4. CASE In(m, w)
    <3>1. i - Len(q) \in 1 .. Len(w) /\ j - Len(q) \in 1 .. Len(w) /\ w[i - Len(q)] = m /\ w[j - Len(q)] = m
      BY <1>1, <1>c, <2>1, <2>2, <2>4
    <3>2. i - Len(q) = j - Len(q)
      BY <1>c, <3>1 DEF Once
    <3> QED
      BY <1>1, <2>1, <3>2
  <2>5. CASE ~In(m, q) /\ ~In(m, w)
    BY <1>1, <1>c, <2>1, <2>2, <2>5
  <2> QED
    BY <2>3, <2>4, <2>5
<1>4. at = {} \/ \E i : at = {i}
  BY <1>3
<1> HIDE DEF at
<1>5. Cardinality(at) <= 1
  <2>1. CASE at = {}
    <3>1. Cardinality(at) = 0
      BY <2>1, FS_EmptySet
    <3> QED
      BY <3>1
  <2>2. ASSUME NEW i, at = {i} PROVE Cardinality(at) <= 1
    <3>1. Cardinality(at) = 1
      BY <2>2, FS_Singleton
    <3> QED
      BY <3>1
  <2> QED
    BY <1>4, <2>1, <2>2
<1> QED
  BY <1>a, <1>5 DEF here, at

\* MsgInv says where ToDest and ToAll messages are.
LEMMA OnTheirPipes == HoldInv /\ MsgInv => StaysOnItsPipe
<1> SUFFICES ASSUME HoldInv, MsgInv PROVE StaysOnItsPipe
  OBVIOUS
<1>1. ASSUME NEW p \in Pipes, NEW m \in ToDest,
             m \in Elements(psendq[p]) \cup Elements(wire[p]) \cup {smsg[p], dmsg[p]}
      PROVE  p = Dest[m]
  <2>1. CopyInv(m, p)
    BY DEF MsgInv, Addressed
  <2>2. On(m, p)
    BY <1>1 DEF On, In, Elements
  <2> QED
    BY <2>1, <2>2 DEF CopyInv
<1>2. Elements(sendq) \subseteq ToOne
  BY DEF HoldInv, Elements
<1>3. ASSUME NEW p \in Pipes, NEW m \in ToDest \cup ToAll
      PROVE  LET here == psendq[p] \o wire[p] \o <<smsg[p], dmsg[p]>>
             IN Cardinality({i \in 1 .. Len(here) : here[i] = m}) <= 1
  <2>1. CopyInv(m, p) /\ m \in Addressed
    BY DEF MsgInv, Addressed
  <2> QED
    BY <2>1, OneCopy
<1> QED
  BY <1>1, <1>2, <1>3 DEF StaysOnItsPipe

\* For any pipes, messages and queue sizes: messages stay on the pipes they
\* were put on, one copy each, although sender and stopPipe share the queue.
THEOREM AddressedMessagesStay == Spec => []StaysOnItsPipe
<1>1. StopInv /\ HoldInv /\ MsgInv /\ [Next]_vars => StopInv' /\ HoldInv' /\ MsgInv'
  BY StopStep, HoldStep, MsgStep
<1> QED
  BY <1>1, MsgInit, OnTheirPipes, PTL DEF Spec

-----------------------------------------------------------------------------
(* While the socket is open *)

\* where Close is until it has s.Lock
BeforeClose == {"open", "lock"}

\* The options stay, and Close has closed closedq once it is under way.
Ahead ==
    /\ scenario' = scenario
    /\ closedq => closedq'
    /\ closer' \notin BeforeClose => closer \notin BeforeClose \/ closedq'

\* What receivers and RecvMsg change, and that no pipe is new again.
NewConn == {"none", "adding"}
RecvStill ==
    /\ UNCHANGED <<rpc, rmsg, nin, recvq, taken>>
    /\ \A p \in Pipes : conn'[p] \in NewConn => conn[p] \in NewConn
RecvMoves(p) ==
    \/ HandleAdd(p) \/ ReceiverHello(p) \/ ReceiverReads(p) \/ ReceiverFails(p) \/ ReceiverClosed(p)
    \/ ReceiverEOF(p) \/ ReceiverRefuses(p) \/ ReceiverPushes(p) \/ ReceiverSeesClose(p) \/ ReceiverRemoves(p) \/ ReceiverDrained(p)

\* Every step is one of these.
LEMMA RecvSteps ==
    ASSUME StopInv, [Next]_vars
    PROVE  Ahead /\ (RecvStill \/ RecvMsg \/ \E p \in Pipes : RecvMoves(p))
<1> USE DEF lockVars, closeVars, mapVars, apiVars, killVars, drainVars, senderVars, recvVars, msgVars
<1> DEFINE Still2 == Ahead /\ RecvStill
<1>1. UNCHANGED <<rpc, rmsg, nin, recvq, taken, conn>> => RecvStill
  BY DEF RecvStill
<1>2. ASSUME UNCHANGED <<rpc, rmsg, nin, recvq, taken>>, NEW p \in Pipes, ClosePipe(p) PROVE RecvStill
  BY <1>2 DEF RecvStill, ClosePipe, StopInv, NewConn
<1>3. UNCHANGED <<scenario, closedq, closer>> => Ahead
  BY DEF Ahead
<1>4. ASSUME NEW p \in Pipes, AddPipe(p) \/ Break(p) PROVE Still2
  BY <1>3, <1>4 DEF AddPipe, Break, RecvStill, StopInv, NewConn
<1>5. ASSUME NEW p \in Pipes, UserClosesPipe(p) \/ SenderFails(p) \/ DrainFails(p) PROVE Still2
  BY <1>1, <1>2, <1>3, <1>5 DEF UserClosesPipe, SenderFails, DrainFails
<1>6. ASSUME NEW p \in Pipes, CloseNext(p) PROVE Still2
  BY <1>1, <1>2, <1>3, <1>6 DEF CloseNext
<1>7. ASSUME NEW p \in Pipes, KillRemove(p) \/ KillHandler(p) \/ KillDrained(p) \/ KillCheck(p) PROVE Still2
  BY <1>1, <1>3, <1>7 DEF KillRemove, KillHandler, KillDrained, KillCheck
<1>8. ASSUME NEW p \in Pipes, SenderStart(p) \/ SenderTakes(p) \/ SenderTakesOwn(p) \/ SenderSends(p) \/ SenderClosed(p) PROVE Still2
  BY <1>1, <1>3, <1>8 DEF SenderStart, SenderTakes, SenderTakesOwn, SenderSends, SenderClosed
<1>9. ASSUME NEW p \in Pipes, SenderResends(p) \/ SenderStops(p) \/ SenderSeesClose(p) \/ SenderRemainingEnds(p) PROVE Still2
  BY <1>1, <1>3, <1>9 DEF SenderResends, SenderStops, SenderSeesClose, SenderRemainingEnds
<1>10. ASSUME NEW p \in Pipes, SenderRemoves(p) \/ SenderDrained(p) \/ DrainTakes(p) \/ DrainSends(p) PROVE Still2
  BY <1>1, <1>3, <1>10 DEF SenderRemoves, SenderDrained, DrainTakes, DrainSends
<1>11. ASSUME NEW p \in Pipes, DrainClosed(p) \/ DrainResends(p) \/ DrainTimesOut(p) \/ DrainDrops(p) \/ DrainEnds(p) PROVE Still2
  BY <1>1, <1>3, <1>11 DEF DrainClosed, DrainResends, DrainTimesOut, DrainDrops, DrainEnds
<1>12. ASSUME NEW m \in Msgs, Send(m) \/ SendTo(m) \/ SendAll(m) \/ SendAllReturns(m) PROVE Still2
  BY <1>1, <1>3, <1>12 DEF Send, SendTo, SendAll, SendAllReturns
<1>13. ASSUME NEW m \in Msgs, Push(m) \/ PushRefused(m) \/ SendAllPush(m) \/ SendAllSkips(m) PROVE Still2
  BY <1>1, <1>3, <1>13 DEF Push, PushRefused, SendAllPush, SendAllSkips
<1>14. ASSUME CallClose \/ Close \/ CloseClears \/ CloseWaited \/ CloseTimesOut PROVE Still2
  BY <1>1, <1>14 DEF CallClose, Close, CloseClears, CloseWaited, CloseTimesOut, Ahead, BeforeClose
<1>15. ASSUME CloseDrops \/ CloseDropped \/ CloseConnector \/ CloseReturns PROVE Still2
  BY <1>1, <1>15 DEF CloseDrops, CloseDropped, CloseConnector, CloseReturns, Ahead, BeforeClose
<1>16. ASSUME NEW p \in Pipes, CloseClosed(p) PROVE Still2
  BY <1>1, <1>3, <1>16 DEF CloseClosed
<1>17. ASSUME UNCHANGED vars PROVE Still2
  BY <1>1, <1>3, <1>17 DEF vars
<1>18. ASSUME NEW p \in Pipes, RecvMoves(p) PROVE Ahead
  <2>1. HandleAdd(p) \/ ReceiverHello(p) \/ ReceiverReads(p) \/ ReceiverFails(p) \/ ReceiverClosed(p) => Ahead
    BY <1>3 DEF HandleAdd, ReceiverHello, ReceiverReads, ReceiverFails, ReceiverClosed
  <2>2. ReceiverPushes(p) \/ ReceiverSeesClose(p) \/ ReceiverRemoves(p) \/ ReceiverDrained(p) => Ahead
    BY <1>3 DEF ReceiverPushes, ReceiverSeesClose, ReceiverRemoves, ReceiverDrained
  <2>3. ReceiverEOF(p) \/ ReceiverRefuses(p) => Ahead
    BY <1>3 DEF ReceiverEOF, ReceiverRefuses
  <2> QED
    BY <1>18, <2>1, <2>2, <2>3 DEF RecvMoves
<1>19. RecvMsg => Ahead
  BY <1>3 DEF RecvMsg
<1> HIDE DEF Still2
<1>20. UserNext => Still2 \/ RecvMsg \/ \E p \in Pipes : RecvMoves(p)
  BY <1>4, <1>5, <1>12, <1>14 DEF UserNext, RecvMoves
<1>21. ASSUME NEW p \in Pipes, SenderNext(p) \/ DrainNext(p) \/ TransportNext(p) PROVE Still2
  BY <1>21, <1>5, <1>8, <1>9, <1>10, <1>11 DEF SenderNext, DrainNext, TransportNext
<1>22. ASSUME NEW p \in Pipes, KillNext(p) \/ ReceiverNext(p) PROVE Still2 \/ RecvMoves(p)
  BY <1>22, <1>7 DEF KillNext, ReceiverNext, RecvMoves
<1>23. ASSUME NEW m \in Msgs, CallNext(m) PROVE Still2
  BY <1>23, <1>12, <1>13 DEF CallNext
<1>24. CloserNext => Still2
  BY <1>6, <1>14, <1>15, <1>16 DEF CloserNext
<1>25. Still2 \/ RecvMsg \/ \E p \in Pipes : RecvMoves(p)
  BY <1>17, <1>20, <1>21, <1>22, <1>23, <1>24 DEF Next
<1> QED
  BY <1>18, <1>19, <1>25 DEF Still2

\* For any pipes, messages and queue sizes: while the socket is open, and not
\* in best effort mode, no ToOne message is freed (doSendMsg, resendMsg).
THEOREM OpenSocketDropsNoToOne == Spec => []ToOneNotDropped
<1> DEFINE OpenInv == (closer \notin BeforeClose => closedq) /\ ToOneNotDropped
<1>1. Init => OpenInv
  BY DEF Init, ToOneNotDropped, BeforeClose
<1>2. StopInv /\ HoldInv /\ OpenInv /\ [Next]_vars => OpenInv'
  <2> SUFFICES ASSUME StopInv, HoldInv, OpenInv, [Next]_vars PROVE OpenInv'
    OBVIOUS
  <2> USE DEF lockVars, closeVars, mapVars, apiVars, killVars, drainVars, senderVars, recvVars, msgVars
  <2>1. Ahead
    BY RecvSteps
  <2>2. closer' \notin BeforeClose => closedq'
    BY <2>1 DEF Ahead
  <2>3. ASSUME ~closedq', ~BestEffort', NEW m \in ToOne PROVE m \notin dropped'
    <3>1. ~closedq /\ ~BestEffort /\ m \notin dropped /\ closer \in BeforeClose /\ m \notin Addressed
      BY <2>1, <2>3, MsgsAssumption DEF Ahead, BestEffort, ToOneNotDropped, Addressed
    <3>2. CASE Still \/ CloseDrops \/ \E x \in Msgs : Calls(x)
      <4>1. ASSUME NEW x \in Msgs, Calls(x) PROVE dropped' = dropped
        <5>1. Send(x) \/ SendTo(x) \/ Push(x) \/ PushRefused(x) => dropped' = dropped
          BY DEF Send, SendTo, Push, PushRefused
        <5>2. SendAll(x) \/ SendAllPush(x) \/ SendAllSkips(x) \/ SendAllReturns(x) => dropped' = dropped
          BY DEF SendAll, SendAllPush, SendAllSkips, SendAllReturns
        <5> QED
          BY <4>1, <5>1, <5>2 DEF Calls
      <4>2. ~CloseDrops
        BY <3>1 DEF CloseDrops, BeforeClose
      <4> QED
        BY <3>1, <3>2, <4>1, <4>2 DEF Still
    <3>3. ASSUME NEW p \in Pipes, Moves(p) PROVE m \notin dropped'
      <4>1. SenderTakes(p) \/ SenderTakesOwn(p) \/ SenderSends(p) => dropped' = dropped
        BY DEF SenderTakes, SenderTakesOwn, SenderSends
      <4>2. DrainTakes(p) \/ DrainSends(p) => dropped' = dropped
        BY DEF DrainTakes, DrainSends
      <4>3. SenderResends(p) => m \notin dropped'
        BY <3>1 DEF SenderResends, ResendMsg
      <4>4. DrainResends(p) => dmsg[p] \in Addressed
        BY DEF DrainResends, HoldInv, Holding
      <4>5. DrainResends(p) => m \notin dropped'
        BY <3>1, <4>4 DEF DrainResends, ResendMsg
      <4>6. DrainDrops(p) => Head(psendq[p]) \in Addressed
        BY TakeOut DEF DrainDrops, HoldInv
      <4>7. DrainDrops(p) => m \notin dropped'
        BY <3>1, <4>6 DEF DrainDrops
      <4> QED
        BY <3>1, <3>3, <4>1, <4>2, <4>3, <4>5, <4>7 DEF Moves
    <3> QED
      BY <3>2, <3>3, OtherSteps
  <2> QED
    BY <2>2, <2>3 DEF ToOneNotDropped
<1> QED
  BY <1>1, <1>2, MsgInit, StopStep, HoldStep, PTL DEF Spec

-----------------------------------------------------------------------------
(* Receiving *)

RecvTypes ==
    /\ rpc \in [Pipes -> ReceiverPCs] /\ rmsg \in [Pipes -> 0 .. MaxIn] /\ nin \in [Pipes -> 0 .. MaxIn]
    /\ recvq \in Seq(Pipes \X (0 .. MaxIn)) /\ Len(recvq) <= RecvQueueSize
    /\ taken \in [Pipes -> 0 .. MaxIn]
    /\ MaxIn \in Nat

\* recvq ends with the message that the receiver of p read last, or with the
\* one before it when the receiver still holds it.
RecvEnd(p) ==
    /\ conn[p] \in NewConn => rpc[p] = "off"
    /\ rpc[p] \in {"off", "hello"} =>
          nin[p] = 0 /\ taken[p] = 0 /\ \A k \in 1 .. Len(recvq) : recvq[k][1] # p
    /\ rpc[p] = "hello" => p \in Raw
    /\ rpc[p] \in {"push", "last"} => ~NoRecv /\ rmsg[p] = nin[p] /\ LastOf(p, Len(recvq), nin[p] - 1)
    /\ rpc[p] = "read" /\ ~NoRecv => LastOf(p, Len(recvq), nin[p])

\* RecvInOrder for the i-th message of recvq.
Fits(p, i) ==
    recvq[i][1] = p =>
        \/ p \in Raw /\ recvq[i][2] = 0 /\ \A k \in 1 .. i - 1 : recvq[k][1] # p
        \/ LastOf(p, i - 1, recvq[i][2] - 1)

RecvInv == RecvTypes /\ \A p \in Pipes : RecvEnd(p) /\ \A i \in 1 .. Len(recvq) : Fits(p, i)

\* LastOf depends on the first messages of recvq and on taken.
LEMMA LastFrame ==
    ASSUME NEW p, NEW i \in Int, NEW n, LastOf(p, i, n), taken' = taken, \A k \in 1 .. i : recvq'[k] = recvq[k]
    PROVE  LastOf(p, i, n)'
<1>1. CASE taken[p] = n /\ \A k \in 1 .. i : recvq[k][1] # p
  BY <1>1 DEF LastOf
<1>2. ASSUME NEW j \in 1 .. i, recvq[j] = <<p, n>>, \A k \in j + 1 .. i : recvq[k][1] # p
      PROVE  LastOf(p, i, n)'
  <2>1. \A k \in j + 1 .. i : k \in 1 .. i
    OBVIOUS
  <2>2. \A k \in j + 1 .. i : recvq'[k][1] # p
    BY <1>2, <2>1
  <2> QED
    BY <1>2, <2>2 DEF LastOf
<1> QED
  BY <1>1, <1>2 DEF LastOf

\* RecvMsg moves the first message of recvq into taken.
LEMMA TailKeeps ==
    ASSUME RecvTypes, RecvMsg, NEW p \in Pipes, NEW i \in 1 .. Len(recvq), NEW n \in Int, LastOf(p, i, n)
    PROVE  LastOf(p, i - 1, n)'
<1>1. /\ recvq \in Seq(Pipes \X (0 .. MaxIn)) /\ recvq # <<>> /\ recvq' = Tail(recvq)
      /\ taken \in [Pipes -> 0 .. MaxIn] /\ taken' = [taken EXCEPT ![recvq[1][1]] = recvq[1][2]]
  <2>1. recvq \in Seq(Pipes \X (0 .. MaxIn)) /\ taken \in [Pipes -> 0 .. MaxIn]
    BY DEF RecvTypes
  <2>2. /\ recvq # <<>> /\ recvq' = Tail(recvq)
        /\ taken' = [taken EXCEPT ![Head(recvq)[1]] = Head(recvq)[2]]
    BY DEF RecvMsg
  <2>3. Head(recvq) = recvq[1]
    BY <2>1, <2>2
  <2> QED
    BY <2>1, <2>2, <2>3
<1>2. recvq[1] \in Pipes \X (0 .. MaxIn)
  BY <1>1
<1>3. \A k \in 1 .. i - 1 : recvq'[k] = recvq[k + 1]
  BY <1>1
<1>4. CASE taken[p] = n /\ \A k \in 1 .. i : recvq[k][1] # p
  <2>1. recvq[1][1] # p
    BY <1>4
  <2>2. taken'[p] = n
    BY <1>1, <1>2, <1>4, <2>1
  <2>3. \A k \in 1 .. i - 1 : recvq'[k][1] # p
    BY <1>3, <1>4
  <2> QED
    BY <2>2, <2>3 DEF LastOf
<1>5. ASSUME NEW j \in 1 .. i, recvq[j] = <<p, n>>, \A k \in j + 1 .. i : recvq[k][1] # p
      PROVE  LastOf(p, i - 1, n)'
  <2>1. CASE j = 1
    <3>1. taken'[p] = n
      BY <1>1, <1>2, <1>5, <2>1
    <3>2. \A k \in 1 .. i - 1 : recvq'[k][1] # p
      BY <1>3, <1>5, <2>1
    <3> QED
      BY <3>1, <3>2 DEF LastOf
  <2>2. CASE j # 1
    <3>1. j - 1 \in 1 .. i - 1 /\ recvq'[j - 1] = <<p, n>>
      BY <1>3, <1>5, <2>2
    <3>2. \A k \in (j - 1) + 1 .. i - 1 : recvq'[k][1] # p
      BY <1>3, <1>5, <2>2
    <3> QED
      BY <3>1, <3>2 DEF LastOf
  <2> QED
    BY <2>1, <2>2
<1> QED
  BY <1>4, <1>5 DEF LastOf

\* A receiver puts the message after its last into recvq.
LEMMA PutKeeps ==
    ASSUME RecvInv, NEW q \in Pipes, NEW n \in 0 .. MaxIn, recvq' = Append(recvq, <<q, n>>),
           UNCHANGED <<rmsg, nin, taken, conn, scenario>>, Len(recvq) < RecvQueueSize,
           rpc[q] \in {"hello", "push", "last"}, NEW v \in {"read", "done"}, rpc' = [rpc EXCEPT ![q] = v],
           nin[q] = n,
           \/ q \in Raw /\ n = 0 /\ \A k \in 1 .. Len(recvq) : recvq[k][1] # q
           \/ LastOf(q, Len(recvq), n - 1)
    PROVE  RecvInv'
<1>1. RecvTypes
  BY DEF RecvInv
<1>2. <<q, n>> \in Pipes \X (0 .. MaxIn)
  OBVIOUS
<1>3. /\ Len(recvq') = Len(recvq) + 1 /\ recvq'[Len(recvq) + 1] = <<q, n>>
      /\ \A k \in 1 .. Len(recvq) : recvq'[k] = recvq[k]
      /\ Len(recvq) \in Nat
  BY <1>1 DEF RecvTypes
<1>4. RecvTypes'
  <2>1. recvq' \in Seq(Pipes \X (0 .. MaxIn))
    BY <1>1, <1>2 DEF RecvTypes
  <2>2. Len(recvq') <= RecvQueueSize
    BY <1>1, <1>3, QueueAssumption DEF RecvTypes
  <2>3. MaxIn' = MaxIn
    BY DEF MaxIn
  <2>4. rpc' \in [Pipes -> ReceiverPCs]
    BY <1>1 DEF RecvTypes, ReceiverPCs
  <2> QED
    BY <1>1, <2>1, <2>2, <2>3, <2>4 DEF RecvTypes
<1>5. ASSUME NEW p \in Pipes PROVE RecvEnd(p)'
  <2>1. CASE p = q
    <3>1. rpc'[p] \in {"read", "done"}
      BY <1>1, <2>1 DEF RecvTypes
    <3>2. LastOf(p, Len(recvq), nin[p])'
      <4>1. nin'[p] = n /\ Len(recvq') \in 1 .. Len(recvq') /\ recvq'[Len(recvq')] = <<p, nin'[p]>>
        BY <1>3, <2>1
      <4>2. \A k \in Len(recvq') + 1 .. Len(recvq') : recvq'[k][1] # p
        BY <1>3
      <4> QED
        BY <4>1, <4>2 DEF LastOf
    <3>3. conn[p] \notin NewConn
      BY <2>1 DEF RecvInv, RecvEnd
    <3> QED
      BY <3>1, <3>2, <3>3 DEF RecvEnd
  <2>2. CASE p # q
    <3>1. rpc'[p] = rpc[p] /\ RecvEnd(p)
      BY <1>1, <2>2 DEF RecvTypes, RecvInv
    <3>2. \A k \in 1 .. Len(recvq) : recvq[k][1] # p => recvq'[k][1] # p
      BY <1>3
    <3>3. ASSUME NEW l \in Int, LastOf(p, Len(recvq), l) PROVE LastOf(p, Len(recvq), l)'
      <4>1. recvq'[Len(recvq')][1] # p /\ Len(recvq') = Len(recvq) + 1
        BY <1>3, <2>2
      <4>2. ASSUME NEW j \in 0 .. Len(recvq), \A k \in j + 1 .. Len(recvq) : recvq[k][1] # p
            PROVE  \A k \in j + 1 .. Len(recvq') : recvq'[k][1] # p
        <5> TAKE k \in j + 1 .. Len(recvq')
        <5>1. CASE k = Len(recvq')
          BY <4>1, <5>1
        <5>2. CASE k # Len(recvq')
          BY <1>3, <4>1, <4>2, <5>2
        <5> QED
          BY <5>1, <5>2
      <4>3. CASE taken[p] = l /\ \A k \in 1 .. Len(recvq) : recvq[k][1] # p
        <5>1. \A k \in 1 .. Len(recvq') : recvq'[k][1] # p
          BY <1>3, <4>2, <4>3
        <5> QED
          BY <4>3, <5>1 DEF LastOf
      <4>4. ASSUME NEW j \in 1 .. Len(recvq), recvq[j] = <<p, l>>, \A k \in j + 1 .. Len(recvq) : recvq[k][1] # p
            PROVE  LastOf(p, Len(recvq), l)'
        <5>1. \A k \in j + 1 .. Len(recvq') : recvq'[k][1] # p
          <6>1. j \in 0 .. Len(recvq)
            BY <1>3
          <6> QED
            BY <4>2, <4>4, <6>1
        <5>2. j \in 1 .. Len(recvq') /\ recvq'[j] = <<p, l>>
          BY <1>3, <4>4
        <5> QED
          BY <5>1, <5>2 DEF LastOf
      <4> QED
        BY <3>3, <4>3, <4>4 DEF LastOf
    <3>4. nin[p] \in Int /\ nin[p] - 1 \in Int
      BY <1>1 DEF RecvTypes
    <3>5. rpc[p] \in {"off", "hello"} => \A k \in 1 .. Len(recvq') : recvq'[k][1] # p
      BY <1>3, <2>2, <3>1 DEF RecvEnd
    <3> QED
      BY <3>1, <3>3, <3>4, <3>5 DEF RecvEnd, NoRecv
  <2> QED
    BY <2>1, <2>2
<1>6. ASSUME NEW p \in Pipes, NEW i \in 1 .. Len(recvq') PROVE Fits(p, i)'
  <2>1. CASE i \in 1 .. Len(recvq)
    <3>1. Fits(p, i) /\ recvq'[i] = recvq[i] /\ \A k \in 1 .. i - 1 : recvq'[k] = recvq[k]
      BY <1>3, <2>1 DEF RecvInv
    <3>2. LastOf(p, i - 1, recvq[i][2] - 1) => LastOf(p, i - 1, recvq[i][2] - 1)'
      <4> PICK l : l = recvq[i][2] - 1
        OBVIOUS
      <4>1. LastOf(p, i - 1, l) => LastOf(p, i - 1, l)'
        BY <3>1, LastFrame
      <4> QED
        BY <3>1, <4>1
    <3> QED
      BY <3>1, <3>2 DEF Fits
  <2>2. CASE i = Len(recvq) + 1
    <3>1. recvq'[i] = <<q, n>> /\ i - 1 = Len(recvq) /\ \A k \in 1 .. i - 1 : recvq'[k] = recvq[k]
      BY <1>3, <2>2
    <3>2. LastOf(q, Len(recvq), n - 1) => LastOf(q, i - 1, n - 1)'
      BY <3>1 DEF LastOf
    <3> QED
      BY <3>1, <3>2 DEF Fits
  <2> QED
    BY <1>3, <2>1, <2>2
<1> QED
  BY <1>4, <1>5, <1>6 DEF RecvInv

\* What a receiver does without touching recvq.
LEMMA ReceiverKeeps ==
    ASSUME RecvInv, NEW q \in Pipes, UNCHANGED <<recvq, taken, scenario>>,
           RecvTypes', RecvEnd(q)',
           \A p \in Pipes : /\ p # q => rpc'[p] = rpc[p] /\ rmsg'[p] = rmsg[p] /\ nin'[p] = nin[p]
                            /\ p # q => (conn'[p] \in NewConn => conn[p] \in NewConn)
    PROVE  RecvInv'
<1>1. ASSUME NEW p \in Pipes, p # q PROVE RecvEnd(p)'
  <2>1. RecvEnd(p) /\ rpc'[p] = rpc[p] /\ rmsg'[p] = rmsg[p] /\ nin'[p] = nin[p]
    BY <1>1 DEF RecvInv
  <2> QED
    BY <1>1, <2>1 DEF RecvEnd, NoRecv, LastOf
<1>2. ASSUME NEW p \in Pipes, NEW i \in 1 .. Len(recvq) PROVE Fits(p, i)'
  <2>1. Fits(p, i)
    BY DEF RecvInv
  <2> QED
    BY <2>1 DEF Fits, LastOf
<1> QED
  BY <1>1, <1>2 DEF RecvInv

\* Every step preserves RecvInv.
LEMMA RecvStep ==
    ASSUME StopInv, RecvInv, [Next]_vars
    PROVE  RecvInv'
<1> USE DEF lockVars, closeVars, mapVars, apiVars, killVars, drainVars, senderVars, recvVars, msgVars
<1>1. Ahead /\ RecvTypes /\ MaxIn' = MaxIn /\ conn \in [Pipes -> {"none", "adding", "up", "down"}]
  BY RecvSteps DEF RecvInv, Ahead, MaxIn, StopInv
<1>2. CASE RecvStill
  <2>1. RecvTypes'
    BY <1>1, <1>2 DEF RecvTypes, RecvStill
  <2>2. ASSUME NEW p \in Pipes PROVE RecvEnd(p)'
    <3>1. RecvEnd(p) /\ (conn'[p] \in NewConn => conn[p] \in NewConn)
      BY <1>2 DEF RecvInv, RecvStill
    <3> QED
      BY <1>1, <1>2, <3>1 DEF RecvEnd, NoRecv, LastOf, RecvStill, Ahead
  <2>3. ASSUME NEW p \in Pipes, NEW i \in 1 .. Len(recvq) PROVE Fits(p, i)'
    <3>1. Fits(p, i)
      BY DEF RecvInv
    <3> QED
      BY <1>2, <3>1 DEF Fits, LastOf, RecvStill
  <2> QED
    BY <1>2, <2>1, <2>2, <2>3 DEF RecvInv, RecvStill
<1>3. CASE RecvMsg
  <2>1. /\ UNCHANGED <<rpc, rmsg, nin, conn>> /\ recvq # <<>> /\ recvq' = Tail(recvq)
        /\ taken' = [taken EXCEPT ![Head(recvq)[1]] = Head(recvq)[2]]
    BY <1>3 DEF RecvMsg
  <2>2. recvq \in Seq(Pipes \X (0 .. MaxIn)) /\ Len(recvq) <= RecvQueueSize
    BY <1>1 DEF RecvTypes
  <2>3. /\ Head(recvq) = recvq[1] /\ recvq[1] \in Pipes \X (0 .. MaxIn)
        /\ recvq' \in Seq(Pipes \X (0 .. MaxIn)) /\ Len(recvq') = Len(recvq) - 1
        /\ Len(recvq) \in Nat /\ Len(recvq) >= 1
        /\ \A k \in 1 .. Len(recvq) - 1 : recvq'[k] = recvq[k + 1]
    BY <2>1, <2>2
  <2>4. taken' \in [Pipes -> 0 .. MaxIn]
    BY <1>1, <2>1, <2>3 DEF RecvTypes
  <2>5. RecvTypes'
    BY <1>1, <2>1, <2>2, <2>3, <2>4, QueueAssumption DEF RecvTypes
  <2>6. ASSUME NEW p \in Pipes PROVE RecvEnd(p)'
    <3>1. RecvEnd(p) /\ nin[p] \in Int /\ nin[p] - 1 \in Int
      BY <1>1 DEF RecvInv, RecvTypes
    <3>2. ASSUME NEW n \in Int, LastOf(p, Len(recvq), n) PROVE LastOf(p, Len(recvq), n)'
      <4>1. Len(recvq) \in 1 .. Len(recvq)
        BY <2>3
      <4>2. PICK i : i = Len(recvq)
        OBVIOUS
      <4>3. LastOf(p, i - 1, n)'
        BY <1>1, <1>3, <3>2, <4>1, <4>2, TailKeeps
      <4> QED
        BY <2>3, <4>2, <4>3
    <3>3. ASSUME \A k \in 1 .. Len(recvq) : recvq[k][1] # p
          PROVE  taken'[p] = taken[p] /\ \A k \in 1 .. Len(recvq') : recvq'[k][1] # p
      <4>1. recvq[1][1] # p
        BY <2>3, <3>3
      <4>2. taken'[p] = taken[p]
        BY <1>1, <2>1, <2>3, <4>1 DEF RecvTypes
      <4>3. ASSUME NEW k \in 1 .. Len(recvq') PROVE recvq'[k][1] # p
        <5>1. k + 1 \in 1 .. Len(recvq) /\ recvq'[k] = recvq[k + 1]
          BY <2>3
        <5> QED
          BY <3>3, <5>1
      <4> QED
        BY <4>2, <4>3
    <3> QED
      BY <1>1, <2>1, <3>1, <3>2, <3>3 DEF RecvEnd, NoRecv, Ahead
  <2>7. ASSUME NEW p \in Pipes, NEW i \in 1 .. Len(recvq') PROVE Fits(p, i)'
    <3>1. i + 1 \in 1 .. Len(recvq) /\ recvq'[i] = recvq[i + 1] /\ i \in 1 .. Len(recvq) /\ (i + 1) - 1 = i
      BY <2>3
    <3>2. Fits(p, i + 1) /\ recvq[i + 1] \in Pipes \X (0 .. MaxIn)
      BY <2>2, <3>1 DEF RecvInv
    <3>3. PICK l \in Int : l = recvq[i + 1][2] - 1
      BY <1>1, <3>2 DEF RecvTypes
    <3>4. LastOf(p, i, l) => LastOf(p, i - 1, l)'
      BY <1>1, <1>3, <3>1, TailKeeps
    <3>5. ASSUME \A k \in 1 .. i : recvq[k][1] # p, NEW k \in 1 .. i - 1 PROVE recvq'[k][1] # p
      <4>1. k \in 1 .. Len(recvq) - 1 /\ k + 1 \in 1 .. i
        BY <2>3
      <4>2. recvq'[k] = recvq[k + 1]
        BY <2>3, <4>1
      <4> QED
        BY <3>5, <4>1, <4>2
    <3> QED
      BY <3>1, <3>2, <3>3, <3>4, <3>5 DEF Fits
  <2> QED
    BY <2>5, <2>6, <2>7 DEF RecvInv
<1>4. ASSUME NEW q \in Pipes, RecvMoves(q) PROVE RecvInv'
  <2>1. RecvEnd(q) /\ nin[q] \in 0 .. MaxIn /\ MaxIn \in Nat /\ rpc \in [Pipes -> ReceiverPCs] /\ rmsg[q] \in 0 .. MaxIn
    BY <1>1 DEF RecvInv, RecvTypes
  <2>2. CASE ReceiverHello(q)
    BY <1>1, <2>1, <2>2, PutKeeps DEF ReceiverHello, RecvRoom, RecvEnd, Ahead
  <2>3. CASE ReceiverPushes(q)
    BY <1>1, <2>1, <2>3, PutKeeps DEF ReceiverPushes, RecvRoom, RecvEnd, Ahead
  <2>4. CASE HandleAdd(q)
    <3>1. rpc[q] = "off" /\ rpc' = [rpc EXCEPT ![q] = IF q \in Raw THEN "hello" ELSE "read"]
      BY <2>1, <2>4 DEF HandleAdd, RecvEnd, NewConn
    <3>2. UNCHANGED <<recvq, taken, rmsg, nin, scenario>> /\ conn' = [conn EXCEPT ![q] = "up"]
      BY <2>4 DEF HandleAdd
    <3>3. RecvTypes'
      BY <1>1, <3>1, <3>2 DEF RecvTypes, ReceiverPCs
    <3>4. RecvEnd(q)'
      BY <1>1, <2>1, <3>1, <3>2 DEF RecvEnd, NewConn, LastOf
    <3> QED
      BY <1>1, <2>1, <3>1, <3>2, <3>3, <3>4, ReceiverKeeps
  <2>5. ASSUME UNCHANGED <<recvq, taken, conn, scenario>>, rpc[q] = "read", nin[q] < MaxIn, nin' = [nin EXCEPT ![q] = @ + 1],
               NEW v \in {"push", "last"},
               IF NoRecv THEN UNCHANGED <<rpc, rmsg>>
               ELSE rpc' = [rpc EXCEPT ![q] = v] /\ rmsg' = [rmsg EXCEPT ![q] = nin[q] + 1]
        PROVE  RecvInv'
    <3>1. UNCHANGED <<recvq, taken, conn, scenario>> /\ rpc[q] = "read" /\ nin[q] < MaxIn /\ nin' = [nin EXCEPT ![q] = @ + 1]
      BY <2>5
    <3>2. IF NoRecv THEN UNCHANGED <<rpc, rmsg>>
          ELSE rpc' = [rpc EXCEPT ![q] = v] /\ rmsg' = [rmsg EXCEPT ![q] = nin[q] + 1]
      BY <2>5
    <3>3. RecvTypes'
      <4>1. nin' \in [Pipes -> 0 .. MaxIn]
        <5>1. nin[q] + 1 \in 0 .. MaxIn /\ nin \in [Pipes -> 0 .. MaxIn]
          BY <1>1, <2>1, <3>1 DEF RecvTypes
        <5> QED
          BY <3>1, <5>1
      <4>2. rmsg' \in [Pipes -> 0 .. MaxIn]
        <5>1. nin[q] + 1 \in 0 .. MaxIn /\ rmsg \in [Pipes -> 0 .. MaxIn]
          BY <1>1, <2>1, <3>1 DEF RecvTypes
        <5> QED
          BY <3>2, <5>1
      <4>3. rpc' \in [Pipes -> ReceiverPCs]
        BY <2>1, <3>2 DEF ReceiverPCs
      <4> QED
        BY <1>1, <3>1, <4>1, <4>2, <4>3 DEF RecvTypes
    <3>4. nin'[q] = nin[q] + 1 /\ nin'[q] - 1 = nin[q]
      BY <1>1, <2>1, <3>1 DEF RecvTypes
    <3>5. RecvEnd(q)'
      <4>1. CASE NoRecv
        BY <1>1, <2>1, <3>1, <3>2, <3>4, <4>1 DEF RecvEnd, NoRecv
      <4>2. CASE ~NoRecv
        <5>1. rpc'[q] \in {"push", "last"} /\ rmsg'[q] = nin'[q] /\ ~NoRecv'
          BY <1>1, <2>1, <3>1, <3>2, <3>4, <4>2 DEF RecvTypes, NoRecv
        <5>2. LastOf(q, Len(recvq), nin[q] - 1)'
          BY <2>1, <3>1, <3>4, <4>2 DEF RecvEnd, LastOf
        <5> QED
          BY <2>1, <3>1, <5>1, <5>2 DEF RecvEnd
      <4> QED
        BY <4>1, <4>2
    <3>6. \A p \in Pipes : p # q => rpc'[p] = rpc[p] /\ rmsg'[p] = rmsg[p] /\ nin'[p] = nin[p]
      BY <1>1, <3>1, <3>2 DEF RecvTypes
    <3> QED
      BY <3>1, <3>3, <3>5, <3>6, ReceiverKeeps
  <2>6. ASSUME UNCHANGED <<recvq, taken, rmsg, nin>>, rpc[q] \notin {"off", "hello"},
               NEW v \in {"done", "closing", "rem", "drain"}, rpc' = [rpc EXCEPT ![q] = v],
               \A p \in Pipes : conn'[p] \in NewConn => conn[p] \in NewConn
        PROVE  RecvInv'
    <3>1. RecvTypes'
      BY <1>1, <2>6 DEF RecvTypes, ReceiverPCs
    <3>2. rpc'[q] = v
      BY <2>1, <2>6
    <3>3. RecvEnd(q)'
      BY <2>1, <2>6, <3>2 DEF RecvEnd
    <3> QED
      BY <1>1, <2>1, <2>6, <3>1, <3>3, ReceiverKeeps DEF Ahead
  <2>7. CASE ReceiverFails(q) \/ ReceiverRefuses(q) \/ (ReceiverEOF(q) /\ nin' = nin)
    <3>1. /\ rpc[q] = "read" /\ UNCHANGED <<recvq, taken, rmsg, nin>>
          /\ ReceiverCloses(q) \/ ReceiverLeaves(q)
      <4>1. ReceiverFails(q) \/ ReceiverRefuses(q) =>
                /\ rpc[q] = "read" /\ UNCHANGED <<recvq, taken, rmsg, nin>>
                /\ ReceiverCloses(q) \/ ReceiverLeaves(q)
        BY DEF ReceiverFails, ReceiverRefuses
      <4>2. ~(nin' = nin /\ rpc[q] = "read" /\ nin[q] < MaxIn /\ nin' = [nin EXCEPT ![q] = @ + 1])
        BY <1>1, <2>1 DEF RecvTypes
      <4>3. ReceiverEOF(q) /\ nin' = nin =>
                /\ rpc[q] = "read" /\ UNCHANGED <<recvq, taken, rmsg, nin>>
                /\ ReceiverCloses(q) \/ ReceiverLeaves(q)
        BY <4>2 DEF ReceiverEOF
      <4> QED
        BY <2>7, <4>1, <4>3
    <3>2. \A p \in Pipes : conn'[p] \in NewConn => conn[p] \in NewConn
      BY <1>1, <3>1 DEF ReceiverCloses, ReceiverLeaves, ClosePipe, NewConn
    <3>3. \E v \in {"done", "closing"} : rpc' = [rpc EXCEPT ![q] = v]
      BY <3>1 DEF ReceiverCloses, ReceiverLeaves
    <3> QED
      BY <2>6, <3>1, <3>2, <3>3
  <2>10. CASE ReceiverReads(q)
    BY <2>5, <2>10 DEF ReceiverReads
  <2>11. CASE ReceiverEOF(q) /\ nin' # nin
    <3>1. /\ UNCHANGED <<recvq, taken, conn, scenario>> /\ rpc[q] = "read" /\ nin[q] < MaxIn
          /\ nin' = [nin EXCEPT ![q] = @ + 1] /\ ~NoRecv
          /\ rpc' = [rpc EXCEPT ![q] = "last"] /\ rmsg' = [rmsg EXCEPT ![q] = nin[q] + 1]
      BY <2>11 DEF ReceiverEOF
    <3> QED
      BY <2>5, <3>1
  <2>8. CASE ReceiverClosed(q) \/ ReceiverSeesClose(q) \/ ReceiverDrained(q)
    BY <2>6, <2>8 DEF ReceiverClosed, ReceiverSeesClose, ReceiverDrained
  <2>9. CASE ReceiverRemoves(q)
    BY <2>6, <2>9 DEF ReceiverRemoves
  <2> QED
    BY <1>4, <2>2, <2>3, <2>4, <2>7, <2>8, <2>9, <2>10, <2>11 DEF RecvMoves
<1> QED
  BY <1>2, <1>3, <1>4, RecvSteps

\* For any pipes, queue sizes and interleaving of receivers, RecvMsg and Close:
\* users receive the messages of a pipe in order, without a gap (receiver, RecvMsg).
THEOREM MessagesAreReceivedInOrder == Spec => []RecvInOrder
<1>1. Init => RecvInv
  <2> SUFFICES ASSUME Init PROVE RecvInv
    OBVIOUS
  <2>1. MaxIn \in Nat
    BY ScenarioAssumption DEF Init, MaxIn, Scenario
  <2> QED
    BY <2>1, QueueAssumption DEF Init, RecvInv, RecvTypes, RecvEnd, ReceiverPCs
<1>2. RecvInv => RecvInOrder
  BY DEF RecvInv, RecvInOrder, Fits
<1> QED
  BY <1>1, <1>2, MsgInit, StopStep, RecvStep, PTL DEF Spec

-----------------------------------------------------------------------------
(* What Close flushes *)

\* no connection breaks and no timer fires, and the connector is still open
Unbroken == ~Breaks /\ ~Timeouts /\ closer \in {"open", "lock", "clear", "wait", "drop", "connector"}

\* the receiver has seen the closed socket, or ended
Gone == {"rem", "drain", "done"}

\* Without failures nothing but the sender removes a pipe whose receiver goes
\* on, and only once the socket is closed: the sender ends after a full drain.
UnbrokenPipe(p) ==
    /\ conn[p] # "down" /\ kpc[p] = "no" /\ rpc[p] # "last"
    /\ spc[p] \notin {"closing", "resend"} /\ dpc[p] \in {"no", "loop", "send", "done"}
    /\ fin[p] \/ spc[p] \in {"remaining", "rem", "drain", "done"} \/ rpc[p] \in Gone => closedq
    /\ rpc[p] \notin Gone => /\ p \in spipes <=> spc[p] \in {"start", "loop", "send", "remaining", "rem"}
                             /\ stopq[p] => spc[p] \in {"drain", "done"}
                             /\ spc[p] = "done" => dpc[p] = "done"

UnbrokenInv ==
    /\ rpc \in [Pipes -> ReceiverPCs] /\ fin \in [Pipes -> BOOLEAN]
    /\ \A p \in Pipes : conn[p] \in NewConn => rpc[p] = "off"
    /\ Unbroken => /\ ~senderStoppedq /\ (closedq <=> closer \notin BeforeClose)
                   /\ \A p \in Pipes : UnbrokenPipe(p)

\* m was queued for p when Close was called: it is still on p, and sent once
\* the queue of p has been drained.
OwedBy(p, m) ==
    /\ spc[p] \notin {"off", "start"} /\ On(m, p)
    /\ dpc[p] = "done" \/ closer \in {"drop", "connector"} => In(m, wire[p])

\* m was in s.sendq then: it is not freed, and is sent once the wait for the
\* senders is over.
OwedByAny(m) ==
    /\ m \in ToOne /\ api[m] = "ok" /\ m \notin dropped
    /\ closer \in {"drop", "connector"} => Sent(m)

\* some sender that empties s.sendq has not ended SEND_REMAINING
Emptying == \E p \in Pipes \ Raw : spc[p] \in {"loop", "send", "remaining"}

FlushInv ==
    /\ owed \subseteq Msgs \X (Pipes \cup {None})
    /\ closer \in BeforeClose => owed = {}
    /\ owed # {} => ~Breaks /\ ~Timeouts
    /\ Unbroken /\ early = {} /\ (\A p \in Pipes : rpc[p] \notin Gone) =>
           /\ \A m \in Msgs, p \in Pipes : <<m, p>> \in owed => OwedBy(p, m)
           /\ \A m \in Msgs : <<m, None>> \in owed => OwedByAny(m)
           /\ Emptying \/ \A m \in Msgs : <<m, None>> \in owed => ~In(m, sendq)

\* What a step may do to a pipe while nothing is broken.
Goes ==
    Unbroken' => /\ Unbroken
                 /\ \A p \in Pipes : /\ spc'[p] \in {"off", "start"} => spc[p] \in {"off", "start"}
                                     /\ rpc'[p] \notin Gone => rpc[p] \notin Gone
                                     /\ dpc'[p] = "done" => dpc[p] = "done" \/ (dpc[p] = "loop" /\ psendq[p] = <<>>)
                                     /\ rpc[p] \notin Gone /\ p \notin Raw /\ spc[p] \in {"loop", "send", "remaining"}
                                            => spc'[p] \in {"loop", "send", "remaining"} \/ sendq' = <<>>

\* Close is called once, and goes on step by step.
LEMMA CloserSteps ==
    [Next]_vars => /\ scenario' = scenario
                   /\ \/ UNCHANGED <<closer, closedq, senderStoppedq, owed, early>>
                      \/ CallClose \/ Close \/ CloseClears \/ CloseWaited \/ CloseTimesOut
                      \/ CloseDropped \/ CloseConnector \/ CloseReturns
<1> SUFFICES ASSUME [Next]_vars
             PROVE  /\ scenario' = scenario
                    /\ \/ UNCHANGED <<closer, closedq, senderStoppedq, owed, early>>
                       \/ CallClose \/ Close \/ CloseClears \/ CloseWaited \/ CloseTimesOut
                       \/ CloseDropped \/ CloseConnector \/ CloseReturns
  OBVIOUS
<1> DEFINE Rest == UNCHANGED <<scenario, closer, closedq, senderStoppedq, owed, early>>
<1> USE DEF closeVars
<1>1. ASSUME NEW p \in Pipes, SenderNext(p) PROVE Rest
  <2>1. SenderStart(p) \/ SenderTakes(p) \/ SenderTakesOwn(p) \/ SenderFails(p) \/ SenderClosed(p) => Rest
    BY DEF SenderStart, SenderTakes, SenderTakesOwn, SenderFails, SenderClosed
  <2>2. SenderResends(p) \/ SenderStops(p) \/ SenderSeesClose(p) => Rest
    BY DEF SenderResends, SenderStops, SenderSeesClose
  <2>3. SenderRemainingEnds(p) \/ SenderRemoves(p) \/ SenderDrained(p) => Rest
    BY DEF SenderRemainingEnds, SenderRemoves, SenderDrained
  <2> QED
    BY <1>1, <2>1, <2>2, <2>3 DEF SenderNext
<1>2. ASSUME NEW p \in Pipes, DrainNext(p) \/ TransportNext(p) PROVE Rest
  <2>1. DrainTakes(p) \/ DrainFails(p) \/ DrainClosed(p) \/ DrainResends(p) \/ DrainTimesOut(p) => Rest
    BY DEF DrainTakes, DrainFails, DrainClosed, DrainResends, DrainTimesOut
  <2>2. DrainDrops(p) \/ DrainEnds(p) \/ SenderSends(p) \/ DrainSends(p) => Rest
    BY DEF DrainDrops, DrainEnds, SenderSends, DrainSends
  <2> QED
    BY <1>2, <2>1, <2>2 DEF DrainNext, TransportNext
<1>3. ASSUME NEW p \in Pipes, KillNext(p) \/ ReceiverNext(p) PROVE Rest
  <2>1. HandleAdd(p) \/ KillRemove(p) \/ KillHandler(p) \/ KillDrained(p) \/ KillCheck(p) => Rest
    BY DEF HandleAdd, KillRemove, KillHandler, KillDrained, KillCheck
  <2>2. ReceiverHello(p) \/ ReceiverFails(p) \/ ReceiverClosed(p) \/ ReceiverPushes(p) => Rest
    BY DEF ReceiverHello, ReceiverFails, ReceiverClosed, ReceiverPushes
  <2>3. ReceiverSeesClose(p) \/ ReceiverRemoves(p) \/ ReceiverDrained(p) => Rest
    BY DEF ReceiverSeesClose, ReceiverRemoves, ReceiverDrained
  <2> QED
    BY <1>3, <2>1, <2>2, <2>3 DEF KillNext, ReceiverNext
<1>4. ASSUME NEW m \in Msgs, CallNext(m) \/ Send(m) \/ SendTo(m) \/ SendAll(m) PROVE Rest
  <2>1. Push(m) \/ PushRefused(m) \/ SendAllReturns(m) \/ SendAllPush(m) \/ SendAllSkips(m) => Rest
    BY DEF Push, PushRefused, SendAllReturns, SendAllPush, SendAllSkips
  <2>2. Send(m) \/ SendTo(m) \/ SendAll(m) => Rest
    BY DEF Send, SendTo, SendAll
  <2> QED
    BY <1>4, <2>1, <2>2 DEF CallNext
<1>5. ASSUME NEW p \in Pipes, AddPipe(p) \/ Break(p) \/ UserClosesPipe(p) PROVE Rest
  BY <1>5 DEF AddPipe, Break, UserClosesPipe
<1>13. ASSUME NEW p \in Pipes, ReceiverReads(p) \/ ReceiverEOF(p) \/ ReceiverRefuses(p) PROVE Rest
  BY <1>13 DEF ReceiverReads, ReceiverEOF, ReceiverRefuses
<1>6. ASSUME NEW p \in Pipes, CloseNext(p) \/ CloseClosed(p) PROVE Rest
  BY <1>6 DEF CloseNext, CloseClosed
<1>7. RecvMsg \/ CloseDrops \/ UNCHANGED vars => Rest
  BY DEF RecvMsg, CloseDrops, vars
<1>8. CallClose \/ Close \/ CloseClears \/ CloseWaited \/ CloseTimesOut => scenario' = scenario
  BY DEF CallClose, Close, CloseClears, CloseWaited, CloseTimesOut
<1>9. CloseDropped \/ CloseConnector \/ CloseReturns => scenario' = scenario
  BY DEF CloseDropped, CloseConnector, CloseReturns
<1>10. UserNext => Rest \/ CallClose
  BY <1>4, <1>5, <1>7, <1>13 DEF UserNext
<1>11. CloserNext => \/ Rest \/ Close \/ CloseClears \/ CloseWaited \/ CloseTimesOut
                     \/ CloseDropped \/ CloseConnector \/ CloseReturns
  BY <1>6, <1>7 DEF CloserNext
<1>12. \/ Rest \/ CallClose \/ Close \/ CloseClears \/ CloseWaited \/ CloseTimesOut
       \/ CloseDropped \/ CloseConnector \/ CloseReturns
  <2>1. CASE UserNext
    BY <1>10, <2>1
  <2>2. CASE CloserNext
    BY <1>11, <2>2
  <2> QED
    BY <1>1, <1>2, <1>3, <1>4, <1>7, <2>1, <2>2 DEF Next
<1> HIDE DEF closeVars
<1> QED
  BY <1>8, <1>9, <1>12

\* Where a broken connection, a timer or the closed connector would be needed.
LEMMA BrokenStep ==
    ASSUME UnbrokenInv, ~Unbroken, UNCHANGED <<scenario, closer>>,
           rpc' \in [Pipes -> ReceiverPCs], fin' \in [Pipes -> BOOLEAN],
           \A p \in Pipes : conn'[p] \in NewConn => rpc'[p] = "off"
    PROVE  UnbrokenInv' /\ Goes
<1>1. ~Unbroken'
  BY DEF Unbroken, Breaks, Timeouts
<1> QED
  BY <1>1 DEF UnbrokenInv, Goes

\* nothing of pipe q changes
Same(q) ==
    /\ conn'[q] = conn[q] /\ kpc'[q] = kpc[q] /\ spc'[q] = spc[q] /\ dpc'[q] = dpc[q]
    /\ fin'[q] = fin[q] /\ rpc'[q] = rpc[q] /\ stopq'[q] = stopq[q] /\ (q \in spipes' <=> q \in spipes)

\* A step of one pipe.
LEMMA OnePipe ==
    ASSUME UnbrokenInv, NEW p \in Pipes, \A q \in Pipes : q # p => Same(q),
           UNCHANGED <<scenario, closer, closedq, senderStoppedq>>,
           rpc' \in [Pipes -> ReceiverPCs], fin' \in [Pipes -> BOOLEAN], conn'[p] \in NewConn => rpc'[p] = "off",
           Unbroken => /\ UnbrokenPipe(p)'
                       /\ spc'[p] \in {"off", "start"} => spc[p] \in {"off", "start"}
                       /\ rpc'[p] \notin Gone => rpc[p] \notin Gone
                       /\ dpc'[p] = "done" => dpc[p] = "done" \/ (dpc[p] = "loop" /\ psendq[p] = <<>>)
                       /\ rpc[p] \notin Gone /\ p \notin Raw /\ spc[p] \in {"loop", "send", "remaining"}
                              => spc'[p] \in {"loop", "send", "remaining"} \/ sendq' = <<>>
    PROVE  UnbrokenInv' /\ Goes
<1>1. Unbroken' <=> Unbroken
  BY DEF Unbroken, Breaks, Timeouts
<1>2. ASSUME NEW q \in Pipes, Unbroken PROVE UnbrokenPipe(q)'
  <2>1. CASE q # p
    <3>1. UnbrokenPipe(q) /\ Same(q)
      BY <1>2, <2>1 DEF UnbrokenInv
    <3> QED
      BY <3>1 DEF UnbrokenPipe, Same
  <2> QED
    BY <1>2, <2>1
<1>3. \A q \in Pipes : conn'[q] \in NewConn => rpc'[q] = "off"
  BY DEF UnbrokenInv, Same
<1>4. UnbrokenInv'
  BY <1>1, <1>2, <1>3 DEF UnbrokenInv
<1>5. Goes
  BY <1>1 DEF Goes, Same
<1> QED
  BY <1>4, <1>5

\* A step that changes no goroutine of a pipe.
LEMMA NoPipe ==
    ASSUME UnbrokenInv, \A q \in Pipes : Same(q), UNCHANGED <<scenario, rpc, fin>>, Unbroken' => Unbroken,
           Unbroken' => ~senderStoppedq' /\ (closedq' <=> closer' \notin BeforeClose) /\ (closedq => closedq')
    PROVE  UnbrokenInv' /\ Goes
<1>1. ASSUME NEW q \in Pipes, Unbroken' PROVE UnbrokenPipe(q)'
  <2>1. UnbrokenPipe(q) /\ Same(q) /\ (closedq => closedq')
    BY <1>1 DEF UnbrokenInv
  <2> QED
    BY <2>1 DEF UnbrokenPipe, Same
<1>2. UnbrokenInv'
  BY <1>1 DEF UnbrokenInv, Same
<1>3. Goes
  BY DEF Goes, Same
<1> QED
  BY <1>2, <1>3

\* Every step keeps UnbrokenInv.
LEMMA UnbrokenStep == StopInv /\ UnbrokenInv /\ [Next]_vars => UnbrokenInv' /\ Goes
<1> SUFFICES ASSUME StopInv, UnbrokenInv, [Next]_vars PROVE UnbrokenInv' /\ Goes
  OBVIOUS
<1> DEFINE Good == UnbrokenInv' /\ Goes
           Here == UNCHANGED <<scenario, closer, closedq, senderStoppedq>>
<1> USE DEF lockVars, closeVars, mapVars, apiVars, killVars, drainVars, senderVars, recvVars, msgVars
<1>1. /\ conn \in [Pipes -> {"none", "adding", "up", "down"}] /\ stopq \in [Pipes -> BOOLEAN]
      /\ dpc \in [Pipes -> DrainPCs] /\ spc \in [Pipes -> SenderPCs]
      /\ rpc \in [Pipes -> ReceiverPCs] /\ fin \in [Pipes -> BOOLEAN]
      /\ \A p \in Pipes : conn[p] \in NewConn => rpc[p] = "off"
  BY DEF StopInv, UnbrokenInv
<1>2. ASSUME NEW p \in Pipes
      PROVE  Unbroken => UnbrokenPipe(p)
  BY DEF UnbrokenInv
<1> HIDE DEF Good
\* steps that need a failure
<1>3. ASSUME NEW p \in Pipes, KillRemove(p) \/ KillHandler(p) \/ KillDrained(p) \/ KillCheck(p) PROVE Good
  <2>1. UNCHANGED <<scenario, closer, rpc, fin, conn>> /\ kpc[p] # "no"
    BY <1>3 DEF KillRemove, KillHandler, KillDrained, KillCheck
  <2> QED
    BY <1>1, <1>2, <2>1, BrokenStep DEF UnbrokenPipe, Good
<1>4. ASSUME NEW p \in Pipes, Break(p) \/ UserClosesPipe(p) \/ CloseNext(p) PROVE Good
  <2>1. UNCHANGED <<scenario, closer, rpc, fin>> /\ ~Unbroken
    BY <1>4 DEF Break, UserClosesPipe, CloseNext, Unbroken
  <2>2. conn' = conn \/ conn' = [conn EXCEPT ![p] = "down"]
    BY <1>4 DEF Break, UserClosesPipe, CloseNext, ClosePipe
  <2>3. \A q \in Pipes : conn'[q] \in NewConn => rpc'[q] = "off"
    BY <1>1, <2>1, <2>2 DEF NewConn
  <2> QED
    BY <1>1, <2>1, <2>3, BrokenStep DEF Good
<1>5. ASSUME NEW p \in Pipes, SenderFails(p) \/ SenderClosed(p) \/ SenderResends(p) PROVE Good
  <2>1. UNCHANGED <<scenario, closer, rpc, fin>> /\ (conn[p] = "down" \/ spc[p] \in {"closing", "resend"})
    BY <1>5 DEF SenderFails, SenderClosed, SenderResends
  <2>2. conn' = conn \/ conn' = [conn EXCEPT ![p] = "down"]
    BY <1>5 DEF SenderFails, SenderClosed, SenderResends, ClosePipe
  <2>3. \A q \in Pipes : conn'[q] \in NewConn => rpc'[q] = "off"
    BY <1>1, <2>1, <2>2 DEF NewConn
  <2>4. ~Unbroken
    BY <1>2, <2>1 DEF UnbrokenPipe
  <2> QED
    BY <1>1, <2>1, <2>3, <2>4, BrokenStep DEF Good
<1>6. ASSUME NEW p \in Pipes, DrainFails(p) \/ DrainClosed(p) \/ DrainResends(p) \/ DrainDrops(p) PROVE Good
  <2>1. UNCHANGED <<scenario, closer, rpc, fin>> /\ (conn[p] = "down" \/ dpc[p] \in {"closing", "resend", "drop"})
    BY <1>6 DEF DrainFails, DrainClosed, DrainResends, DrainDrops
  <2>2. conn' = conn \/ conn' = [conn EXCEPT ![p] = "down"]
    BY <1>6 DEF DrainFails, DrainClosed, DrainResends, DrainDrops, ClosePipe
  <2>3. \A q \in Pipes : conn'[q] \in NewConn => rpc'[q] = "off"
    BY <1>1, <2>1, <2>2 DEF NewConn
  <2>4. ~Unbroken
    BY <1>2, <2>1 DEF UnbrokenPipe
  <2> QED
    BY <1>1, <2>1, <2>3, <2>4, BrokenStep DEF Good
<1>7. ASSUME NEW p \in Pipes, DrainTimesOut(p) PROVE Good
  <2>1. UNCHANGED <<scenario, closer, rpc, fin, conn>> /\ ~Unbroken
    BY <1>7 DEF DrainTimesOut, Unbroken, UnbrokenInv
  <2> QED
    BY <1>1, <2>1, BrokenStep DEF Good
<1>8. ASSUME NEW p \in Pipes, ReceiverFails(p) \/ ReceiverClosed(p) PROVE Good
  <2>1. /\ UNCHANGED <<scenario, closer, fin>> /\ (conn[p] = "down" \/ kpc[p] = "done")
        /\ rpc[p] \in {"read", "closing"} /\ \E k \in {"done", "closing"} : rpc' = [rpc EXCEPT ![p] = k]
    BY <1>8 DEF ReceiverFails, ReceiverClosed, ReceiverCloses, ReceiverLeaves
  <2>2. conn' = conn \/ conn' = [conn EXCEPT ![p] = "down"]
    BY <1>8 DEF ReceiverFails, ReceiverClosed, ReceiverCloses, ReceiverLeaves, ClosePipe
  <2>3. rpc' \in [Pipes -> ReceiverPCs] /\ \A q \in Pipes : conn'[q] \in NewConn => rpc'[q] = "off"
    BY <1>1, <2>1, <2>2 DEF NewConn, ReceiverPCs
  <2>4. ~Unbroken
    BY <1>2, <2>1 DEF UnbrokenPipe
  <2> QED
    BY <1>1, <2>1, <2>3, <2>4, BrokenStep DEF Good
<1>35. ASSUME NEW p \in Pipes, ReceiverEOF(p) \/ ReceiverRefuses(p) PROVE Good
  <2>1. UNCHANGED <<scenario, closer, fin>> /\ rpc[p] = "read" /\ Breaks
    BY <1>35 DEF ReceiverEOF, ReceiverRefuses
  <2>2. /\ \E k \in {"done", "closing", "last"} : rpc' = [rpc EXCEPT ![p] = k]
        /\ conn' = conn \/ conn' = [conn EXCEPT ![p] = "down"]
    BY <1>35 DEF ReceiverEOF, ReceiverRefuses, ReceiverCloses, ReceiverLeaves, ClosePipe
  <2>3. rpc' \in [Pipes -> ReceiverPCs] /\ \A q \in Pipes : conn'[q] \in NewConn => rpc'[q] = "off"
    BY <1>1, <2>1, <2>2 DEF NewConn, ReceiverPCs
  <2> QED
    BY <1>1, <2>1, <2>3, BrokenStep DEF Good, Unbroken
<1>36. ASSUME NEW p \in Pipes, rpc[p] = "last", ReceiverPushes(p) PROVE Good
  <2>1. UNCHANGED <<scenario, closer, fin, conn>> /\ rpc' = [rpc EXCEPT ![p] = "done"]
    BY <1>36 DEF ReceiverPushes
  <2>2. rpc' \in [Pipes -> ReceiverPCs] /\ \A q \in Pipes : conn'[q] \in NewConn => rpc'[q] = "off"
    BY <1>1, <1>36, <2>1 DEF ReceiverPCs
  <2>3. ~Unbroken
    BY <1>2, <1>36 DEF UnbrokenPipe
  <2> QED
    BY <1>1, <2>1, <2>2, <2>3, BrokenStep DEF Good
\* a pipe is added
<1>9. ASSUME NEW p \in Pipes, AddPipe(p) PROVE Good
  <2>1. /\ Here /\ UNCHANGED <<rpc, fin, spc, dpc, stopq, spipes, kpc>> /\ conn[p] = "none"
        /\ \E k \in {"adding", "up"} : conn' = [conn EXCEPT ![p] = k]
    BY <1>9 DEF AddPipe
  <2>2. \A q \in Pipes : q # p => Same(q)
    BY <1>1, <2>1 DEF Same
  <2>3. Unbroken => UnbrokenPipe(p)'
    BY <1>1, <1>2, <2>1 DEF UnbrokenPipe
  <2>4. rpc[p] = "off"
    BY <1>1, <2>1 DEF NewConn
  <2> QED
    BY <1>1, <2>1, <2>2, <2>3, <2>4, OnePipe DEF Good
<1>10. ASSUME NEW p \in Pipes, HandleAdd(p) PROVE Good
  <2>1. /\ Here /\ UNCHANGED <<fin, dpc, stopq, kpc>> /\ conn[p] = "adding" /\ conn' = [conn EXCEPT ![p] = "up"]
        /\ spipes' = spipes \cup {p} /\ spc' = [spc EXCEPT ![p] = "start"]
        /\ \E k \in {"hello", "read"} : rpc' = [rpc EXCEPT ![p] = k]
    BY <1>10 DEF HandleAdd
  <2>2. \A q \in Pipes : q # p => Same(q)
    BY <1>1, <2>1 DEF Same
  <2>3. rpc[p] = "off" /\ spc[p] = "off" /\ ~stopq[p]
    BY <1>1, <2>1 DEF NewConn, StopInv
  <2>4. /\ rpc'[p] \in {"hello", "read"} /\ spc'[p] = "start" /\ conn'[p] = "up" /\ p \in spipes'
        /\ rpc' \in [Pipes -> ReceiverPCs]
    BY <1>1, <2>1 DEF ReceiverPCs
  <2>5. Unbroken => UnbrokenPipe(p)'
    BY <1>2, <2>1, <2>3, <2>4 DEF UnbrokenPipe, Gone
  <2> QED
    BY <1>1, <2>1, <2>2, <2>3, <2>4, <2>5, OnePipe DEF Good, NewConn, Gone
\* the sender
<1>11. ASSUME NEW p \in Pipes, NEW k \in SenderPCs \ {"off", "start"}, spc' = [spc EXCEPT ![p] = k],
              Here, UNCHANGED <<conn, kpc, dpc, rpc, stopq, spipes>>,
              fin' = fin \/ (closedq /\ fin' = [fin EXCEPT ![p] = TRUE]),
              Unbroken /\ rpc[p] \notin Gone => /\ k = "done" => dpc[p] = "done"
                                                /\ k = "drain" => p \notin spipes
                                                /\ spc[p] \in {"start", "loop", "send", "remaining", "rem"}
                                                       <=> k \in {"start", "loop", "send", "remaining", "rem"},
              Unbroken => /\ k \notin {"closing", "resend"}
                          /\ k \in {"remaining", "rem", "drain", "done"} => closedq
                          /\ rpc[p] \notin Gone /\ p \notin Raw /\ spc[p] \in {"loop", "send", "remaining"}
                                 => k \in {"loop", "send", "remaining"} \/ sendq' = <<>>
       PROVE  Good
  <2>1. \A q \in Pipes : q # p => Same(q)
    BY <1>1, <1>11 DEF Same
  <2>2. spc'[p] = k
    BY <1>1, <1>11
  <2>3. fin' \in [Pipes -> BOOLEAN] /\ (fin'[p] => fin[p] \/ closedq)
    BY <1>1, <1>11
  <2>4. Unbroken => UnbrokenPipe(p)'
    BY <1>2, <1>11, <2>2, <2>3 DEF UnbrokenPipe, SenderPCs
  <2> QED
    BY <1>1, <1>11, <2>1, <2>2, <2>3, <2>4, OnePipe DEF Good

<1>12. ASSUME NEW p \in Pipes, SenderStart(p) \/ SenderTakes(p) \/ SenderTakesOwn(p) PROVE Good
  <2>1. /\ Here /\ UNCHANGED <<conn, kpc, dpc, rpc, stopq, spipes, fin>>
        /\ spc[p] \in {"start", "loop", "remaining"} /\ \E k \in {"loop", "send"} : spc' = [spc EXCEPT ![p] = k]
    BY <1>12 DEF SenderStart, SenderTakes, SenderTakesOwn
  <2> QED
    BY <1>11, <2>1 DEF SenderPCs
<1>13. ASSUME NEW p \in Pipes, SenderSends(p) PROVE Good
  <2>1. /\ Here /\ UNCHANGED <<conn, kpc, dpc, rpc, stopq, spipes, fin>>
        /\ spc[p] = "send" /\ spc' = [spc EXCEPT ![p] = IF fin[p] THEN "remaining" ELSE "loop"]
    BY <1>13 DEF SenderSends
  <2>2. Unbroken /\ fin[p] => closedq
    BY <1>2 DEF UnbrokenPipe
  <2>3. CASE fin[p]
    BY <1>11, <2>1, <2>2, <2>3 DEF SenderPCs
  <2>4. CASE ~fin[p]
    BY <1>11, <2>1, <2>4 DEF SenderPCs
  <2> QED
    BY <2>3, <2>4
<1>14. ASSUME NEW p \in Pipes, SenderStops(p) PROVE Good
  <2>1. /\ Here /\ UNCHANGED <<conn, kpc, dpc, rpc, stopq, spipes, fin>>
        /\ spc[p] = "loop" /\ stopq[p] /\ spc' = [spc EXCEPT ![p] = "done"]
    BY <1>14 DEF SenderStops
  <2>2. Unbroken => rpc[p] \in Gone /\ closedq
    BY <1>2, <2>1 DEF UnbrokenPipe
  <2> QED
    BY <1>11, <2>1, <2>2 DEF SenderPCs
<1>15. ASSUME NEW p \in Pipes, SenderSeesClose(p) PROVE Good
  <2>1. /\ Here /\ UNCHANGED <<conn, kpc, dpc, rpc, stopq, spipes>> /\ closedq /\ fin' = [fin EXCEPT ![p] = TRUE]
        /\ spc[p] = "loop" /\ spc' = [spc EXCEPT ![p] = "remaining"]
    BY <1>15 DEF SenderSeesClose
  <2> QED
    BY <1>11, <2>1 DEF SenderPCs
<1>16. ASSUME NEW p \in Pipes, SenderRemainingEnds(p) PROVE Good
  <2>1. /\ Here /\ UNCHANGED <<conn, kpc, dpc, rpc, stopq, spipes, fin, sendq>>
        /\ p \in Raw \/ sendq = <<>> \/ senderStoppedq
        /\ spc[p] = "remaining" /\ spc' = [spc EXCEPT ![p] = "rem"]
    BY <1>16 DEF SenderRemainingEnds
  <2>2. Unbroken => closedq /\ ~senderStoppedq
    BY <1>2, <2>1 DEF UnbrokenPipe, UnbrokenInv
  <2> QED
    BY <1>11, <2>1, <2>2 DEF SenderPCs
<1>17. ASSUME NEW p \in Pipes, SenderDrained(p) PROVE Good
  <2>1. /\ Here /\ UNCHANGED <<conn, kpc, dpc, rpc, stopq, spipes, fin>> /\ dpc[p] = "done"
        /\ spc[p] = "drain" /\ spc' = [spc EXCEPT ![p] = "done"]
    BY <1>17 DEF SenderDrained
  <2>2. Unbroken => closedq
    BY <1>2, <2>1 DEF UnbrokenPipe
  <2> QED
    BY <1>11, <2>1, <2>2 DEF SenderPCs
\* a pipe is removed
<1>18. ASSUME NEW p \in Pipes, RemPipe(p)
       PROVE  /\ \A q \in Pipes : q # p => dpc'[q] = dpc[q] /\ stopq'[q] = stopq[q] /\ (q \in spipes' <=> q \in spipes)
              /\ p \notin spipes' /\ (p \in spipes => dpc'[p] = "loop" /\ stopq'[p])
              /\ p \notin spipes => dpc'[p] = dpc[p] /\ (stopq'[p] <=> stopq[p])
  BY <1>1, <1>18 DEF RemPipe
<1>19. ASSUME NEW p \in Pipes, SenderRemoves(p) PROVE Good
  <2>1. /\ Here /\ UNCHANGED <<conn, kpc, rpc, fin>> /\ RemPipe(p)
        /\ spc[p] = "rem" /\ spc' = [spc EXCEPT ![p] = IF p \in spipes THEN "drain" ELSE "done"]
    BY <1>19 DEF SenderRemoves
  <2>2. \A q \in Pipes : q # p => Same(q)
    BY <1>1, <1>18, <2>1 DEF Same
  <2>3. spc'[p] = IF p \in spipes THEN "drain" ELSE "done"
    BY <1>1, <2>1
  <2>4. ASSUME Unbroken PROVE UnbrokenPipe(p)'
    <3>1. UnbrokenPipe(p) /\ closedq
      BY <1>2, <2>1, <2>4 DEF UnbrokenPipe
    <3>2. CASE p \in spipes
      BY <1>18, <2>1, <2>3, <3>1, <3>2 DEF UnbrokenPipe
    <3>3. CASE p \notin spipes
      BY <1>18, <2>1, <2>3, <3>1, <3>3 DEF UnbrokenPipe
    <3> QED
      BY <3>2, <3>3
  <2>5. dpc'[p] \in {dpc[p], "loop"}
    BY <1>18, <2>1
  <2> QED
    BY <1>1, <2>1, <2>2, <2>3, <2>4, <2>5, OnePipe DEF Good
<1>20. ASSUME NEW p \in Pipes, ReceiverRemoves(p) PROVE Good
  <2>1. /\ Here /\ UNCHANGED <<conn, kpc, spc, fin>> /\ RemPipe(p)
        /\ rpc[p] = "rem" /\ \E k \in {"drain", "done"} : rpc' = [rpc EXCEPT ![p] = k]
    BY <1>20 DEF ReceiverRemoves
  <2>2. \A q \in Pipes : q # p => Same(q)
    BY <1>1, <1>18, <2>1 DEF Same
  <2>3. rpc'[p] \in Gone /\ rpc' \in [Pipes -> ReceiverPCs] /\ rpc[p] \in Gone
    BY <1>1, <2>1 DEF Gone, ReceiverPCs
  <2>4. dpc'[p] \in {dpc[p], "loop"}
    BY <1>18, <2>1
  <2>5. Unbroken => UnbrokenPipe(p)'
    BY <1>2, <2>1, <2>3, <2>4 DEF UnbrokenPipe
  <2>6. conn'[p] \notin NewConn
    BY <1>1, <2>1
  <2> QED
    BY <1>1, <2>1, <2>2, <2>3, <2>4, <2>5, <2>6, OnePipe DEF Good
<1>21. ASSUME NEW p \in Pipes, DrainTakes(p) \/ DrainSends(p) \/ DrainEnds(p) PROVE Good
  <2>1. /\ Here /\ UNCHANGED <<conn, kpc, spc, rpc, fin, stopq, spipes>>
        /\ dpc[p] \in {"loop", "send", "drop"} /\ \E k \in {"loop", "send", "done"} : dpc' = [dpc EXCEPT ![p] = k]
    BY <1>21 DEF DrainTakes, DrainSends, DrainEnds
  <2>2. \A q \in Pipes : q # p => Same(q)
    BY <1>1, <2>1 DEF Same
  <2>3. dpc'[p] \in {"loop", "send", "done"}
    BY <1>1, <2>1
  <2>4. Unbroken => UnbrokenPipe(p)'
    BY <1>2, <2>1, <2>3 DEF UnbrokenPipe
  <2>5. dpc'[p] = "done" => dpc[p] \in {"loop", "drop"} /\ psendq[p] = <<>>
    BY <1>1, <1>21 DEF DrainTakes, DrainSends, DrainEnds
  <2>6. Unbroken => dpc[p] # "drop"
    BY <1>2 DEF UnbrokenPipe
  <2> QED
    BY <1>1, <2>1, <2>2, <2>4, <2>5, <2>6, OnePipe DEF Good
\* the receiver
<1>22. ASSUME NEW p \in Pipes, rpc[p] # "off", NEW k \in ReceiverPCs, rpc' = [rpc EXCEPT ![p] = k],
              Here, UNCHANGED <<conn, kpc, spc, dpc, fin, stopq, spipes>>,
              rpc[p] \in Gone => k \in Gone, k \in Gone => rpc[p] \in Gone \/ closedq, k # "last"
       PROVE  Good
  <2>1. \A q \in Pipes : q # p => Same(q)
    BY <1>1, <1>22 DEF Same
  <2>2. rpc'[p] = k /\ rpc' \in [Pipes -> ReceiverPCs]
    BY <1>1, <1>22
  <2>3. Unbroken => UnbrokenPipe(p)'
    BY <1>2, <1>22, <2>2 DEF UnbrokenPipe
  <2>4. conn'[p] \notin NewConn
    BY <1>1, <1>22
  <2> QED
    BY <1>1, <1>22, <2>1, <2>2, <2>3, <2>4, OnePipe DEF Good
<1>23. ASSUME NEW p \in Pipes, ReceiverHello(p) \/ ReceiverPushes(p) PROVE Good
  BY <1>22, <1>23, <1>36 DEF ReceiverHello, ReceiverPushes, ReceiverPCs, Gone
<1>24. ASSUME NEW p \in Pipes, ReceiverSeesClose(p) \/ ReceiverDrained(p) PROVE Good
  BY <1>22, <1>24 DEF ReceiverSeesClose, ReceiverDrained, ReceiverPCs, Gone
\* steps of no pipe
<1>25. ASSUME Here, UNCHANGED <<conn, kpc, spc, dpc, fin, rpc, stopq, spipes>> PROVE Good
  <2>1. \A q \in Pipes : Same(q)
    BY <1>25 DEF Same
  <2>2. Unbroken' <=> Unbroken
    BY <1>25 DEF Unbroken, Breaks, Timeouts
  <2>3. Unbroken => ~senderStoppedq /\ (closedq <=> closer \notin BeforeClose)
    BY DEF UnbrokenInv
  <2> QED
    BY <1>25, <2>1, <2>2, <2>3, NoPipe DEF Good
<1>26. ASSUME NEW p \in Pipes, ReceiverReads(p) PROVE Good
  <2>1. CASE NoRecv
    BY <1>25, <1>26, <2>1 DEF ReceiverReads
  <2>2. CASE ~NoRecv
    BY <1>22, <1>26, <2>2 DEF ReceiverReads, ReceiverPCs, Gone
  <2> QED
    BY <2>1, <2>2
<1>27. ASSUME NEW m \in Msgs, CallNext(m) \/ Send(m) \/ SendTo(m) \/ SendAll(m) PROVE Good
  <2>1. Push(m) \/ PushRefused(m) \/ SendAllReturns(m) \/ SendAllPush(m) \/ SendAllSkips(m) => Good
    BY <1>25 DEF Push, PushRefused, SendAllReturns, SendAllPush, SendAllSkips
  <2>2. Send(m) \/ SendTo(m) \/ SendAll(m) => Good
    BY <1>25 DEF Send, SendTo, SendAll
  <2> QED
    BY <1>27, <2>1, <2>2 DEF CallNext
<1>28. ASSUME RecvMsg \/ CloseDrops \/ (\E p \in Pipes : CloseClosed(p)) \/ UNCHANGED vars PROVE Good
  BY <1>25, <1>28 DEF RecvMsg, CloseDrops, CloseClosed, vars
<1>29. ASSUME CallClose \/ Close \/ CloseClears \/ CloseWaited \/ CloseTimesOut \/ CloseDropped \/ CloseConnector \/ CloseReturns
       PROVE  Good
  <2>1. UNCHANGED <<scenario, conn, kpc, spc, dpc, fin, rpc, stopq, spipes>>
    BY <1>29 DEF CallClose, Close, CloseClears, CloseWaited, CloseTimesOut, CloseDropped, CloseConnector, CloseReturns
  <2>2. \A q \in Pipes : Same(q)
    BY <2>1 DEF Same
  <2>3. (Unbroken' => Unbroken) /\ (CloseTimesOut => ~Unbroken)
    BY <1>29, <2>1 DEF Unbroken, Breaks, Timeouts, CallClose, Close, CloseClears, CloseWaited, CloseTimesOut,
                       CloseDropped, CloseConnector, CloseReturns
  <2>4. Unbroken => ~senderStoppedq /\ (closedq <=> closer \notin BeforeClose)
    BY DEF UnbrokenInv
  <2>5. Unbroken' => ~senderStoppedq' /\ (closedq' <=> closer' \notin BeforeClose) /\ (closedq => closedq')
    BY <1>29, <2>3, <2>4 DEF CallClose, Close, CloseClears, CloseWaited, CloseDropped, CloseConnector, CloseReturns,
                             BeforeClose
  <2> QED
    BY <2>1, <2>2, <2>3, <2>5, NoPipe DEF Good
<1>30. ASSUME NEW p \in Pipes, SenderNext(p) \/ TransportNext(p) PROVE Good
  BY <1>30, <1>5, <1>12, <1>13, <1>14, <1>15, <1>16, <1>17, <1>19, <1>21 DEF SenderNext, TransportNext
<1>31. ASSUME NEW p \in Pipes, DrainNext(p) PROVE Good
  BY <1>31, <1>6, <1>7, <1>21 DEF DrainNext
<1>32. ASSUME NEW p \in Pipes, KillNext(p) \/ ReceiverNext(p) PROVE Good
  BY <1>32, <1>3, <1>8, <1>10, <1>20, <1>23, <1>24 DEF KillNext, ReceiverNext
<1>33. ASSUME UserNext \/ CloserNext PROVE Good
  BY <1>33, <1>4, <1>9, <1>26, <1>35, <1>27, <1>28, <1>29 DEF UserNext, CloserNext
<1>34. Good
  BY <1>27, <1>28, <1>30, <1>31, <1>32, <1>33 DEF Next
<1> QED
  BY <1>34 DEF Good

\* Nothing is taken back from the transport.
LEMMA WireGrows ==
    ASSUME HoldInv, [Next]_vars, NEW p \in Pipes, NEW m, In(m, wire[p])
    PROVE  In(m, wire'[p])
<1> USE DEF lockVars, closeVars, mapVars, apiVars, killVars, drainVars, senderVars, recvVars, msgVars
<1>1. ASSUME NEW q \in Pipes, NEW x \in Msgs, wire' = [wire EXCEPT ![q] = Append(@, x)]
      PROVE  In(m, wire'[p])
  <2>1. wire[p] \in Seq(Msgs) /\ wire'[p] = IF p = q THEN Append(wire[p], x) ELSE wire[p]
    BY <1>1 DEF HoldInv
  <2> QED
    BY <2>1, PutIn
<1>2. ASSUME NEW q \in Pipes, Moves(q) PROVE In(m, wire'[p])
  <2>1. CASE SenderSends(q)
    BY <1>1, <2>1, MsgsAssumption DEF SenderSends, Transmit, HoldInv, Holding
  <2>2. CASE DrainSends(q)
    BY <1>1, <2>2, MsgsAssumption DEF DrainSends, Transmit, HoldInv, Holding, Addressed, Msgs
  <2>3. SenderTakes(q) \/ SenderTakesOwn(q) \/ SenderResends(q) => wire' = wire
    BY DEF SenderTakes, SenderTakesOwn, SenderResends
  <2>4. DrainTakes(q) \/ DrainResends(q) \/ DrainDrops(q) => wire' = wire
    BY DEF DrainTakes, DrainResends, DrainDrops
  <2> QED
    BY <1>2, <2>1, <2>2, <2>3, <2>4 DEF Moves
<1>3. ASSUME NEW x \in Msgs, Calls(x) PROVE wire' = wire
  <2>1. Send(x) \/ SendTo(x) \/ Push(x) \/ PushRefused(x) => wire' = wire
    BY DEF Send, SendTo, Push, PushRefused
  <2>2. SendAll(x) \/ SendAllPush(x) \/ SendAllSkips(x) \/ SendAllReturns(x) => wire' = wire
    BY DEF SendAll, SendAllPush, SendAllSkips, SendAllReturns
  <2> QED
    BY <1>3, <2>1, <2>2 DEF Calls
<1>4. Still \/ CloseDrops => wire' = wire
  BY DEF Still, CloseDrops
<1> QED
  BY <1>2, <1>3, <1>4, OtherSteps

\* Without failures, what is on a pipe stays there.
LEMMA OnKeeps ==
    ASSUME HoldInv, UnbrokenInv, Unbroken, [Next]_vars, NEW p \in Pipes, NEW m \in Msgs, On(m, p)
    PROVE  On(m, p)'
<1> USE DEF lockVars, closeVars, mapVars, apiVars, killVars, drainVars, senderVars, recvVars, msgVars
<1>1. m # None /\ psendq[p] \in Seq(Addressed) /\ wire[p] \in Seq(Msgs)
  BY MsgsAssumption DEF HoldInv
<1>2. ASSUME NEW q \in Pipes, Moves(q), q # p PROVE On(m, p)'
  <2>1. SenderTakes(q) \/ SenderTakesOwn(q) \/ SenderSends(q) \/ SenderResends(q) =>
            psendq'[p] = psendq[p] /\ wire'[p] = wire[p] /\ smsg'[p] = smsg[p] /\ dmsg'[p] = dmsg[p]
    BY <1>2 DEF SenderTakes, SenderTakesOwn, SenderSends, SenderResends, Transmit, HoldInv
  <2>2. DrainTakes(q) \/ DrainSends(q) \/ DrainResends(q) \/ DrainDrops(q) =>
            psendq'[p] = psendq[p] /\ wire'[p] = wire[p] /\ smsg'[p] = smsg[p] /\ dmsg'[p] = dmsg[p]
    BY <1>2 DEF DrainTakes, DrainSends, DrainResends, DrainDrops, Transmit, HoldInv
  <2> QED
    BY <1>2, <2>1, <2>2 DEF On, Moves
<1>3. ASSUME Moves(p) PROVE On(m, p)'
  <2>1. ASSUME psendq[p] # <<>>, psendq' = [psendq EXCEPT ![p] = Tail(@)]
        PROVE  In(m, psendq[p]) <=> m = Head(psendq[p]) \/ In(m, psendq'[p])
    <3>1. psendq'[p] = Tail(psendq[p])
      BY <2>1 DEF HoldInv
    <3> QED
      BY <1>1, <2>1, <3>1, TakeOut
  <2>2. ASSUME NEW x \in Msgs, wire' = [wire EXCEPT ![p] = Append(@, x)]
        PROVE  In(m, wire'[p]) <=> In(m, wire[p]) \/ m = x
    <3>1. wire'[p] = Append(wire[p], x)
      BY <2>2 DEF HoldInv
    <3> QED
      BY <1>1, <3>1, PutIn
  <2>3. CASE SenderTakes(p)
    <3>1. smsg[p] = None /\ UNCHANGED <<psendq, wire, dmsg>>
      BY <2>3 DEF SenderTakes, HoldInv, Holding
    <3> QED
      BY <1>1, <3>1 DEF On
  <2>4. CASE SenderTakesOwn(p)
    <3>1. /\ psendq[p] # <<>> /\ psendq' = [psendq EXCEPT ![p] = Tail(@)] /\ UNCHANGED <<wire, dmsg>>
          /\ smsg[p] = None /\ smsg'[p] = Head(psendq[p])
      BY <2>4 DEF SenderTakesOwn, HoldInv, Holding
    <3> QED
      BY <1>1, <2>1, <3>1 DEF On
  <2>5. CASE SenderSends(p)
    <3>1. /\ smsg[p] \in Msgs /\ wire' = [wire EXCEPT ![p] = Append(@, smsg[p])] /\ UNCHANGED <<psendq, dmsg>>
      BY <2>5 DEF SenderSends, Transmit, HoldInv, Holding
    <3> QED
      BY <2>2, <3>1 DEF On
  <2>6. CASE DrainTakes(p)
    <3>1. /\ psendq[p] # <<>> /\ psendq' = [psendq EXCEPT ![p] = Tail(@)] /\ UNCHANGED <<wire, smsg>>
          /\ dmsg[p] = None /\ dmsg'[p] = Head(psendq[p])
      BY <2>6 DEF DrainTakes, HoldInv, Holding
    <3> QED
      BY <1>1, <2>1, <3>1 DEF On
  <2>7. CASE DrainSends(p)
    <3>1. /\ dmsg[p] \in Msgs /\ wire' = [wire EXCEPT ![p] = Append(@, dmsg[p])] /\ UNCHANGED <<psendq, smsg>>
      BY <2>7 DEF DrainSends, Transmit, HoldInv, Holding, Addressed, Msgs
    <3> QED
      BY <2>2, <3>1 DEF On
  <2>8. ~SenderResends(p) /\ ~DrainResends(p) /\ ~DrainDrops(p)
    BY DEF UnbrokenInv, UnbrokenPipe, SenderResends, DrainResends, DrainDrops
  <2> QED
    BY <1>3, <2>3, <2>4, <2>5, <2>6, <2>7, <2>8 DEF Moves
<1>4. ASSUME NEW x \in Msgs, Calls(x) PROVE On(m, p)'
  <2>1. ASSUME NEW q \in Pipes, x \in Addressed, psendq' = [psendq EXCEPT ![q] = Append(@, x)], UNCHANGED <<wire, smsg, dmsg>>
        PROVE  On(m, p)'
    <3>1. psendq'[p] = IF p = q THEN Append(psendq[p], x) ELSE psendq[p]
      BY <2>1 DEF HoldInv
    <3>2. In(m, psendq[p]) => In(m, psendq'[p])
      BY <1>1, <2>1, <3>1, PutIn
    <3> QED
      BY <2>1, <3>2 DEF On
  <2>2. CASE UNCHANGED <<psendq, wire, smsg, dmsg>>
    BY <2>2 DEF On
  <2>3. CASE Push(x)
    <3>1. CASE x \in ToOne
      BY <2>2, <2>3, <3>1 DEF Push
    <3>2. CASE x \notin ToOne
      <4>1. x \in ToDest /\ x \in Addressed /\ Dest[x] \in Pipes
        BY <2>3, <3>2, MsgsAssumption DEF Push, HoldInv, Msgs, Addressed
      <4> QED
        BY <2>1, <2>3, <3>2, <4>1 DEF Push
    <3> QED
      BY <3>1, <3>2
  <2>4. CASE SendAllPush(x)
    <3>1. x \in ToAll /\ x \in Addressed /\ fan[x] # <<>> /\ fan[x] \in Seq(Pipes)
      BY <2>4 DEF SendAllPush, HoldInv, Addressed
    <3>2. Head(fan[x]) \in Pipes
      BY <3>1, TakeOut
    <3> QED
      BY <2>1, <2>4, <3>1, <3>2 DEF SendAllPush
  <2>5. Send(x) \/ SendTo(x) \/ PushRefused(x) => UNCHANGED <<psendq, wire, smsg, dmsg>>
    BY DEF Send, SendTo, PushRefused
  <2>6. SendAll(x) \/ SendAllSkips(x) \/ SendAllReturns(x) => UNCHANGED <<psendq, wire, smsg, dmsg>>
    BY DEF SendAll, SendAllSkips, SendAllReturns
  <2> QED
    BY <1>4, <2>2, <2>3, <2>4, <2>5, <2>6 DEF Calls
<1>5. ASSUME Still \/ CloseDrops PROVE On(m, p)'
  BY <1>5 DEF Still, CloseDrops, On
<1> QED
  BY <1>2, <1>3, <1>4, <1>5, OtherSteps

\* What a pipe owes stays owed until it is sent.
LEMMA OwedByKeeps ==
    ASSUME StopInv, HoldInv, UnbrokenInv, [Next]_vars, Unbroken', \A q \in Pipes : rpc'[q] \notin Gone,
           NEW p \in Pipes, NEW m \in Msgs, OwedBy(p, m)
    PROVE  OwedBy(p, m)'
<1>1. Goes /\ Unbroken /\ rpc[p] \notin Gone /\ UnbrokenPipe(p)
  BY UnbrokenStep DEF Goes, UnbrokenInv
<1>2. On(m, p)' /\ (In(m, wire[p]) => In(m, wire'[p]))
  BY <1>1, OnKeeps, WireGrows DEF OwedBy
<1>3. spc'[p] \notin {"off", "start"}
  BY <1>1 DEF Goes, OwedBy
<1>4. ASSUME dpc'[p] = "done" PROVE In(m, wire'[p])
  <2>1. CASE dpc[p] = "done"
    BY <1>2, <2>1 DEF OwedBy
  <2>2. CASE dpc[p] = "loop" /\ psendq[p] = <<>>
    <3>1. stopq[p] /\ spc[p] \in {"drain", "done"}
      BY <1>1, <2>2 DEF StopInv, UnbrokenPipe
    <3>2. smsg[p] = None /\ dmsg[p] = None /\ m # None
      BY <2>2, <3>1, MsgsAssumption DEF HoldInv, Holding
    <3>3. ~In(m, psendq[p])
      BY <2>2 DEF In
    <3> QED
      BY <1>2, <3>2, <3>3 DEF OwedBy, On
  <2> QED
    BY <1>1, <1>4, <2>1, <2>2 DEF Goes
<1>5. ASSUME closer' \in {"drop", "connector"} PROVE In(m, wire'[p])
  <2>1. CASE closer \in {"drop", "connector"}
    BY <1>2, <2>1 DEF OwedBy
  <2>2. CASE CloseWaited
    <3>1. spc[p] = "done"
      BY <2>2 DEF CloseWaited, SendersAreDone, OwedBy
    <3> QED
      BY <1>1, <1>2, <3>1 DEF UnbrokenPipe, OwedBy
  <2>3. ~CloseTimesOut
    BY <1>1 DEF CloseTimesOut, Unbroken
  <2>4. CallClose \/ Close \/ CloseClears \/ CloseConnector \/ CloseReturns => closer' \notin {"drop", "connector"}
    BY DEF CallClose, Close, CloseClears, CloseConnector, CloseReturns
  <2>5. CloseDropped => closer = "drop"
    BY DEF CloseDropped
  <2> QED
    BY <1>5, <2>1, <2>2, <2>3, <2>4, <2>5, CloserSteps
<1> QED
  BY <1>2, <1>3, <1>4, <1>5 DEF OwedBy

\* Without failures an accepted ToOne message does not go back to s.sendq.
LEMMA NotQueuedAgain ==
    ASSUME HoldInv, UnbrokenInv, Unbroken, [Next]_vars, NEW m \in ToOne, api[m] = "ok"
    PROVE  /\ api'[m] = "ok"
           /\ In(m, sendq') => In(m, sendq)
           /\ m \in dropped' => m \in dropped \/ (closer = "drop" /\ In(m, sendq))
<1> USE DEF lockVars, closeVars, mapVars, apiVars, killVars, drainVars, senderVars, recvVars, msgVars
<1>1. sendq \in Seq(ToOne) /\ m \in Msgs
  BY DEF HoldInv, Msgs
<1>2. ASSUME sendq # <<>>, sendq' = Tail(sendq) PROVE In(m, sendq') => In(m, sendq)
  BY <1>1, <1>2, TakeOut
<1>3. ASSUME NEW p \in Pipes, Moves(p)
      PROVE  api' = api /\ dropped' = dropped /\ (In(m, sendq') => In(m, sendq))
  <2>1. ~SenderResends(p) /\ ~DrainResends(p) /\ ~DrainDrops(p)
    BY DEF UnbrokenInv, UnbrokenPipe, SenderResends, DrainResends, DrainDrops
  <2>2. SenderTakes(p) => api' = api /\ dropped' = dropped /\ sendq # <<>> /\ sendq' = Tail(sendq)
    BY DEF SenderTakes
  <2>3. SenderTakesOwn(p) \/ SenderSends(p) \/ DrainTakes(p) \/ DrainSends(p) => UNCHANGED <<api, dropped, sendq>>
    BY DEF SenderTakesOwn, SenderSends, DrainTakes, DrainSends
  <2> QED
    BY <1>2, <1>3, <2>1, <2>2, <2>3 DEF Moves
<1>4. ASSUME NEW x \in Msgs, Calls(x)
      PROVE  api'[m] = "ok" /\ dropped' = dropped /\ (In(m, sendq') => In(m, sendq))
  <2>1. CASE Push(x)
    <3>1. api[x] = "push" /\ api' = [api EXCEPT ![x] = "ok"] /\ dropped' = dropped
      BY <2>1 DEF Push
    <3>2. x # m /\ api'[m] = "ok"
      BY <1>1, <3>1 DEF HoldInv
    <3>3. CASE x \in ToOne
      <4>1. sendq' = Append(sendq, x)
        BY <2>1, <3>3 DEF Push
      <4>2. In(m, sendq') <=> In(m, sendq) \/ m = x
        BY <1>1, <3>3, <4>1, PutIn
      <4> QED
        BY <3>1, <3>2, <4>2
    <3>4. CASE x \notin ToOne
      BY <2>1, <3>1, <3>2, <3>4 DEF Push
    <3> QED
      BY <3>3, <3>4
  <2>2. Send(x) \/ SendTo(x) \/ PushRefused(x) => UNCHANGED <<dropped, sendq>> /\ api'[m] = "ok"
    BY <1>1 DEF Send, SendTo, PushRefused, HoldInv
  <2>3. SendAll(x) \/ SendAllPush(x) \/ SendAllSkips(x) \/ SendAllReturns(x) => UNCHANGED <<dropped, sendq>> /\ api'[m] = "ok"
    BY <1>1 DEF SendAll, SendAllPush, SendAllSkips, SendAllReturns, HoldInv
  <2> QED
    BY <1>4, <2>1, <2>2, <2>3 DEF Calls
<1>5. ASSUME CloseDrops PROVE /\ api' = api /\ (In(m, sendq') => In(m, sendq))
                              /\ m \in dropped' => m \in dropped \/ (closer = "drop" /\ In(m, sendq))
  <2>1. /\ api' = api /\ closer = "drop" /\ sendq # <<>> /\ sendq' = Tail(sendq)
        /\ dropped' = dropped \cup {Head(sendq)}
    BY <1>5 DEF CloseDrops
  <2> QED
    BY <1>1, <2>1, TakeOut
<1>6. Still => UNCHANGED <<api, dropped, sendq>>
  BY DEF Still
<1> QED
  BY <1>3, <1>4, <1>5, <1>6, OtherSteps

\* What any pipe owes stays owed until it is sent, by a sender in SEND_REMAINING at the latest.
LEMMA OwedByAnyKeeps ==
    ASSUME HoldInv, UnbrokenInv, StopInv, [Next]_vars, Unbroken', NEW m \in Msgs, OneInv(m), OwedByAny(m),
           Emptying \/ ~In(m, sendq)
    PROVE  OwedByAny(m)'
<1>1. Goes /\ Unbroken
  BY UnbrokenStep DEF Goes
<1>2. m \in ToOne /\ api[m] = "ok" /\ m \notin dropped /\ m # None
  BY MsgsAssumption DEF OwedByAny
<1>3. Sent(m) => Sent(m)'
  BY WireGrows DEF Sent
<1>4. api'[m] = "ok" /\ m \notin dropped'
  <2>1. closer = "drop" => ~In(m, sendq)
    BY DEF OwedByAny, OneInv
  <2> QED
    BY <1>1, <1>2, <2>1, NotQueuedAgain
<1>5. ASSUME closer' \in {"drop", "connector"} PROVE Sent(m)'
  <2>1. CASE closer \in {"drop", "connector"}
    BY <1>3, <2>1 DEF OwedByAny
  <2>2. CASE CloseWaited
    <3>1. ~Emptying
      BY <2>2 DEF CloseWaited, SendersAreDone, Emptying
    <3>2. ~Held(m)
      BY <1>2, <2>2 DEF CloseWaited, SendersAreDone, HoldInv, Holding, Held
    <3> QED
      BY <1>2, <1>3, <3>1, <3>2 DEF OneInv
  <2>3. ~CloseTimesOut
    BY <1>1 DEF CloseTimesOut, Unbroken
  <2>4. CallClose \/ Close \/ CloseClears \/ CloseConnector \/ CloseReturns => closer' \notin {"drop", "connector"}
    BY DEF CallClose, Close, CloseClears, CloseConnector, CloseReturns
  <2>5. CloseDropped => closer = "drop"
    BY DEF CloseDropped
  <2> QED
    BY <1>5, <2>1, <2>2, <2>3, <2>4, <2>5, CloserSteps
<1> QED
  BY <1>2, <1>4, <1>5 DEF OwedByAny

\* What Close finds queued is owed, if the senders of all pipes have started.
LEMMA CloseOwes == StopInv /\ HoldInv /\ MsgInv /\ UnbrokenInv /\ Close => FlushInv'
<1> SUFFICES ASSUME StopInv, HoldInv, MsgInv, UnbrokenInv, Close PROVE FlushInv'
  OBVIOUS
<1> DEFINE up == {p \in spipes : conn[p] = "up" /\ ~Breaks /\ ~Timeouts}
<1>1. /\ closer = "lock" /\ closer' = "clear" /\ scenario' = scenario /\ owed' = Queued
      /\ early' = IF owed' = {} THEN {} ELSE {p \in Pipes : spc[p] = "start"}
      /\ UNCHANGED <<sendq, psendq, wire, dropped, api, smsg, dmsg, spc, dpc, rpc>>
  BY DEF Close, apiVars, drainVars, senderVars, recvVars, msgVars
<1>2. up \subseteq spipes /\ spipes \subseteq Pipes /\ None \notin Pipes /\ (up # {} => ~Breaks /\ ~Timeouts)
  BY MsgsAssumption DEF StopInv
<1>3. /\ Elements(sendq) \subseteq ToOne /\ ToOne \subseteq Msgs /\ \A m : m \in Elements(sendq) <=> In(m, sendq)
      /\ \A p \in Pipes : \A m : m \in Elements(psendq[p]) <=> In(m, psendq[p])
  BY DEF Elements, In, HoldInv, Msgs
<1>4. /\ \A o \in owed' : up # {} /\ o \in Msgs \X (Pipes \cup {None})
      /\ \A m, p : <<m, p>> \in owed' /\ p \in Pipes => p \in up /\ m \in Elements(psendq[p])
      /\ \A m : <<m, None>> \in owed' => m \in Elements(sendq) /\ ~(up \subseteq Raw)
  BY <1>1, <1>2, <1>3 DEF Queued
<1>5. owed' \subseteq Msgs \X (Pipes \cup {None}) /\ (owed' # {} => ~Breaks' /\ ~Timeouts')
  BY <1>1, <1>2, <1>4 DEF Breaks, Timeouts
<1>6. ASSUME Unbroken', early' = {}, \A p \in Pipes : rpc'[p] \notin Gone, owed' # {}
      PROVE  /\ \A m \in Msgs, p \in Pipes : <<m, p>> \in owed' => OwedBy(p, m)'
             /\ \A m \in Msgs : <<m, None>> \in owed' => OwedByAny(m)'
             /\ (\E m \in Msgs : <<m, None>> \in owed') => Emptying'
  <2>1. Unbroken /\ ~closedq
    BY <1>1, <1>6 DEF Unbroken, Breaks, Timeouts, UnbrokenInv, BeforeClose
  <2>2. ASSUME NEW p \in up PROVE p \in Pipes /\ spc[p] \in {"loop", "send"} /\ dpc[p] = "no"
    <3>1. p \in Pipes /\ p \in spipes /\ UnbrokenPipe(p) /\ rpc[p] \notin Gone /\ spc[p] # "start"
      BY <1>1, <1>2, <1>6, <2>1 DEF UnbrokenInv
    <3>2. dpc[p] = "no"
      BY <3>1 DEF StopInv
    <3> QED
      BY <2>1, <3>1, <3>2 DEF UnbrokenPipe
  <2>3. ASSUME NEW m \in Msgs, NEW p \in Pipes, <<m, p>> \in owed' PROVE OwedBy(p, m)'
    <3>1. p \in up /\ In(m, psendq[p])
      BY <1>3, <1>4, <2>3
    <3> QED
      BY <1>1, <2>2, <3>1 DEF OwedBy, On
  <2>4. ASSUME NEW m \in Msgs, <<m, None>> \in owed' PROVE OwedByAny(m)' /\ Emptying'
    <3>1. m \in ToOne /\ In(m, sendq) /\ OneInv(m)
      BY <1>3, <1>4, <2>4 DEF MsgInv
    <3>2. OwedByAny(m)'
      BY <1>1, <3>1 DEF OwedByAny, OneInv
    <3>3. PICK p \in up : p \notin Raw
      BY <1>4, <2>4
    <3> QED
      BY <1>1, <2>2, <3>2, <3>3 DEF Emptying
  <2> QED
    BY <2>3, <2>4
<1>7. CASE owed' = {}
  BY <1>1, <1>7 DEF FlushInv, BeforeClose
<1>8. CASE owed' # {}
  BY <1>1, <1>5, <1>6, <1>8 DEF FlushInv, BeforeClose
<1> QED
  BY <1>7, <1>8

\* Every step keeps FlushInv.
LEMMA FlushStep == StopInv /\ HoldInv /\ MsgInv /\ UnbrokenInv /\ FlushInv /\ [Next]_vars => FlushInv'
<1> SUFFICES ASSUME StopInv, HoldInv, MsgInv, UnbrokenInv, FlushInv, [Next]_vars, ~Close PROVE FlushInv'
  BY CloseOwes
<1>1. scenario' = scenario /\ UNCHANGED <<owed, early>> /\ (closer' \in BeforeClose => closer \in BeforeClose)
  BY CloserSteps DEF BeforeClose, CallClose, CloseClears, CloseWaited, CloseTimesOut, CloseDropped, CloseConnector, CloseReturns
<1>2. /\ owed' \subseteq Msgs \X (Pipes \cup {None}) /\ (closer' \in BeforeClose => owed' = {})
      /\ owed' # {} => ~Breaks' /\ ~Timeouts'
  BY <1>1 DEF FlushInv, Breaks, Timeouts
<1>3. ASSUME Unbroken', early' = {}, \A p \in Pipes : rpc'[p] \notin Gone
      PROVE  /\ \A m \in Msgs, p \in Pipes : <<m, p>> \in owed' => OwedBy(p, m)'
             /\ \A m \in Msgs : <<m, None>> \in owed' => OwedByAny(m)'
             /\ Emptying' \/ \A m \in Msgs : <<m, None>> \in owed' => ~In(m, sendq')
  <2>1. Goes /\ Unbroken /\ \A p \in Pipes : rpc[p] \notin Gone
    BY <1>3, UnbrokenStep DEF Goes
  <2>2. /\ \A m \in Msgs, p \in Pipes : <<m, p>> \in owed => OwedBy(p, m)
        /\ \A m \in Msgs : <<m, None>> \in owed => OwedByAny(m)
        /\ Emptying \/ \A m \in Msgs : <<m, None>> \in owed => ~In(m, sendq)
    BY <1>1, <1>3, <2>1 DEF FlushInv
  <2>3. ASSUME NEW m \in Msgs, NEW p \in Pipes, <<m, p>> \in owed PROVE OwedBy(p, m)'
    BY <1>3, <2>2, <2>3, OwedByKeeps
  <2>4. ASSUME NEW m \in Msgs, <<m, None>> \in owed PROVE OwedByAny(m)'
    <3>1. OneInv(m) /\ OwedByAny(m) /\ (Emptying \/ ~In(m, sendq))
      BY <2>2, <2>4 DEF MsgInv, OwedByAny
    <3> QED
      BY <1>3, <3>1, OwedByAnyKeeps
  <2>5. Emptying' \/ \A m \in Msgs : <<m, None>> \in owed => ~In(m, sendq')
    <3>1. CASE Emptying
      <4>1. PICK p \in Pipes \ Raw : spc[p] \in {"loop", "send", "remaining"}
        BY <3>1 DEF Emptying
      <4>2. spc'[p] \in {"loop", "send", "remaining"} \/ sendq' = <<>>
        BY <1>3, <2>1, <4>1 DEF Goes
      <4>3. \A m : ~In(m, <<>>)
        BY DEF In
      <4> QED
        BY <4>1, <4>2, <4>3 DEF Emptying
    <3>2. CASE \A m \in Msgs : <<m, None>> \in owed => ~In(m, sendq)
      <4>1. ASSUME NEW m \in Msgs, <<m, None>> \in owed PROVE ~In(m, sendq')
        <5>1. m \in ToOne /\ api[m] = "ok" /\ ~In(m, sendq)
          BY <2>2, <3>2, <4>1 DEF OwedByAny
        <5> QED
          BY <2>1, <5>1, NotQueuedAgain
      <4> QED
        BY <4>1
    <3> QED
      BY <2>2, <3>1, <3>2
  <2> QED
    BY <1>1, <2>3, <2>4, <2>5
<1> QED
  BY <1>2, <1>3 DEF FlushInv

\* For any pipes, messages and queue sizes, and any order of senders, receivers
\* and calls around it: if nothing fails and no timer fires, Close gives what it
\* found queued to the transport before it closes the connector (Close, sender,
\* stopPipe and stopSender: socket.go), except where CloseFlushes says.
THEOREM CloseFlushesQueues == Spec => []CloseFlushes
<1>1. Init => UnbrokenInv /\ FlushInv
  <2> SUFFICES ASSUME Init PROVE UnbrokenInv /\ FlushInv
    OBVIOUS
  <2>1. UnbrokenInv
    BY DEF Init, UnbrokenInv, UnbrokenPipe, Gone, ReceiverPCs, BeforeClose
  <2>2. FlushInv
    <3>1. \A m : ~In(m, <<>>)
      BY DEF In
    <3> QED
      BY <3>1 DEF Init, FlushInv
  <2> QED
    BY <2>1, <2>2
<1>2. FlushInv => CloseFlushes
  <2> SUFFICES ASSUME FlushInv, closer = "connector", early = {}, \A p \in Pipes : rpc[p] \notin Gone, NEW o \in owed
               PROVE  \E p \in Pipes : o[2] \in {None, p} /\ o[1] \in Elements(wire[p])
    BY DEF CloseFlushes, Gone
  <2>1. Unbroken /\ o \in Msgs \X (Pipes \cup {None}) /\ o = <<o[1], o[2]>>
    BY DEF FlushInv, Unbroken
  <2>2. \A m, p : In(m, wire[p]) => m \in Elements(wire[p])
    BY DEF In, Elements
  <2>3. CASE o[2] \in Pipes
    <3>1. OwedBy(o[2], o[1])
      BY <2>1, <2>3 DEF FlushInv
    <3> QED
      BY <2>2, <2>3, <3>1 DEF OwedBy
  <2>4. CASE o[2] = None
    <3>1. OwedByAny(o[1])
      BY <2>1, <2>4 DEF FlushInv
    <3> QED
      BY <2>2, <2>4, <3>1 DEF OwedByAny, Sent
  <2> QED
    BY <2>1, <2>3, <2>4
<1> QED
  BY <1>1, <1>2, MsgInit, StopStep, HoldStep, MsgStep, UnbrokenStep, FlushStep, PTL DEF Spec

=============================================================================
