---------------------------- MODULE SocketProofs ----------------------------
(***************************************************************************)
(* The messages of a socket, for any pipes, messages and queue sizes: each *)
(* is where it should be, once, however pipes come, break and go.          *)
(***************************************************************************)
EXTENDS Socket, FiniteSetTheorems, TLAPS

\* the provers, in the order in which they are tried
USE ZenonT(3), SMT, ZenonT(20), Z3

\* m is in queue q; at one place only
In(m, q) == \E i \in 1 .. Len(q) : q[i] = m
Once(m, q) == \A i, j \in 1 .. Len(q) : q[i] = m /\ q[j] = m => i = j

\* What a channel holds after a message was put in.
LEMMA PutIn ==
    ASSUME NEW S, NEW q \in Seq(S), NEW x \in S
    PROVE  /\ Append(q, x) \in Seq(S) /\ Len(Append(q, x)) = Len(q) + 1
           /\ \A m : In(m, Append(q, x)) <=> In(m, q) \/ m = x
           /\ \A m : Once(m, q) /\ ~(In(m, q) /\ m = x) => Once(m, Append(q, x))
<1>1. /\ Append(q, x) \in Seq(S) /\ Len(q) \in Nat /\ Len(Append(q, x)) = Len(q) + 1
      /\ \A i \in 1 .. Len(q) : Append(q, x)[i] = q[i]
      /\ Append(q, x)[Len(q) + 1] = x
  OBVIOUS
<1>2. ASSUME NEW m PROVE In(m, Append(q, x)) <=> In(m, q) \/ m = x
  BY <1>1 DEF In
<1>3. ASSUME NEW m, Once(m, q), ~(In(m, q) /\ m = x) PROVE Once(m, Append(q, x))
  BY <1>1, <1>3 DEF In, Once
<1> QED
  BY <1>1, <1>2, <1>3

\* What it holds after the first was taken out.
LEMMA TakeOut ==
    ASSUME NEW S, NEW q \in Seq(S), q # <<>>
    PROVE  /\ Head(q) \in S /\ Tail(q) \in Seq(S) /\ Len(Tail(q)) = Len(q) - 1
           /\ \A m : In(m, q) <=> m = Head(q) \/ In(m, Tail(q))
           /\ \A m : Once(m, q) => Once(m, Tail(q)) /\ ~(m = Head(q) /\ In(m, Tail(q)))
<1>1. /\ Head(q) \in S /\ Tail(q) \in Seq(S) /\ Len(q) \in Nat /\ Len(q) >= 1
      /\ Len(Tail(q)) = Len(q) - 1 /\ q[1] = Head(q)
      /\ \A i \in 1 .. Len(q) - 1 : Tail(q)[i] = q[i + 1]
  OBVIOUS
<1>2. \A i \in 2 .. Len(q) : i - 1 \in 1 .. Len(q) - 1 /\ Tail(q)[i - 1] = q[i]
  BY <1>1
<1>3. ASSUME NEW m PROVE In(m, q) <=> m = Head(q) \/ In(m, Tail(q))
  <2>1. ASSUME NEW i \in 1 .. Len(q), q[i] = m PROVE m = Head(q) \/ In(m, Tail(q))
    <3>1. CASE i = 1
      BY <1>1, <2>1, <3>1
    <3>2. CASE i # 1
      BY <1>1, <1>2, <2>1, <3>2 DEF In
    <3> QED
      BY <3>1, <3>2
  <2>2. ASSUME NEW i \in 1 .. Len(Tail(q)), Tail(q)[i] = m PROVE In(m, q)
    BY <1>1, <2>2 DEF In
  <2> QED
    BY <1>1, <2>1, <2>2 DEF In
<1>4. ASSUME NEW m, Once(m, q) PROVE Once(m, Tail(q)) /\ ~(m = Head(q) /\ In(m, Tail(q)))
  <2>1. Once(m, Tail(q))
    BY <1>1, <1>4 DEF Once
  <2>2. ~(m = Head(q) /\ In(m, Tail(q)))
    BY <1>1, <1>4 DEF Once, In
  <2> QED
    BY <2>1, <2>2
<1> QED
  BY <1>1, <1>3, <1>4

-----------------------------------------------------------------------------
(* Removing a pipe *)

\* A pipe that is not connected yet has no goroutine and is not in s.pipes; one
\* that is there is not stopped, and only a stopped one is drained.
StopInv ==
    /\ conn \in [Pipes -> {"none", "adding", "up", "down"}]
    /\ stopq \in [Pipes -> BOOLEAN] /\ dpc \in [Pipes -> DrainPCs] /\ spc \in [Pipes -> SenderPCs]
    /\ spipes \subseteq Pipes /\ IsFiniteSet(spipes)
    /\ \A p \in Pipes : /\ conn[p] \in {"none", "adding"} => p \notin spipes /\ ~stopq[p] /\ spc[p] = "off"
                        /\ p \in spipes => ~stopq[p]
                        /\ ~stopq[p] => dpc[p] = "no"

\* StopInv depends on the connections, s.pipes, stopq and where sender and drain are.
LEMMA StopFrame ==
    ASSUME StopInv, UNCHANGED <<conn, stopq, dpc, spc, spipes>>
    PROVE  StopInv'
BY DEF StopInv

\* remPipe stops a pipe that it finds in s.pipes, once.
LEMMA RemPipeStops ==
    ASSUME StopInv, NEW p \in Pipes, RemPipe(p), conn' = conn, spc' \in [Pipes -> SenderPCs],
           \A q \in Pipes : spc[q] = "off" => spc'[q] = "off"
    PROVE  StopInv'
<1>1. /\ spipes' = spipes \ {p} /\ stopq' = [stopq EXCEPT ![p] = @ \/ p \in spipes]
      /\ dpc' = [dpc EXCEPT ![p] = IF p \in spipes THEN "loop" ELSE @]
  BY DEF RemPipe
<1>2. IsFiniteSet(spipes')
  BY <1>1, FS_RemoveElement DEF StopInv
<1> QED
  BY <1>1, <1>2 DEF StopInv, DrainPCs

\* A closed connection is neither new nor being added.
LEMMA ClosePipeStops ==
    ASSUME StopInv, NEW p \in Pipes, ClosePipe(p), UNCHANGED <<stopq, spipes>>,
           dpc' \in [Pipes -> DrainPCs], spc' \in [Pipes -> SenderPCs],
           \A q \in Pipes : (spc[q] = "off" => spc'[q] = "off") /\ (dpc[q] = "no" => dpc'[q] = "no")
    PROVE  StopInv'
BY DEF StopInv, ClosePipe

\* Every step keeps StopInv.
LEMMA StopStep == StopInv /\ [Next]_vars => StopInv'
<1> SUFFICES ASSUME StopInv, [Next]_vars PROVE StopInv'
  OBVIOUS
<1> USE DEF lockVars, closeVars, mapVars, apiVars, killVars, drainVars, senderVars, recvVars, msgVars
<1>1. ASSUME NEW p \in Pipes, AddPipe(p) PROVE StopInv'
  BY <1>1 DEF StopInv, AddPipe
<1>2. ASSUME NEW p \in Pipes, HandleAdd(p) PROVE StopInv'
  <2>1. /\ conn[p] = "adding" /\ conn' = [conn EXCEPT ![p] = "up"] /\ spipes' = spipes \cup {p}
        /\ spc' = [spc EXCEPT ![p] = "start"] /\ UNCHANGED <<stopq, dpc>>
    BY <1>2 DEF HandleAdd
  <2>2. IsFiniteSet(spipes')
    BY <2>1, FS_AddElement DEF StopInv
  <2> QED
    BY <2>1, <2>2 DEF StopInv, SenderPCs
<1>3. ASSUME NEW p \in Pipes, Break(p) PROVE StopInv'
  BY <1>3 DEF StopInv, Break
<1>4. ASSUME NEW p \in Pipes, UserClosesPipe(p) \/ CloseNext(p) PROVE StopInv'
  <2>1. /\ UNCHANGED <<stopq, spipes, dpc, spc>>
        /\ ClosePipe(p) \/ conn' = conn
    BY <1>4 DEF UserClosesPipe, CloseNext
  <2> QED
    BY <2>1, ClosePipeStops, StopFrame DEF StopInv
<1>5. ASSUME NEW p \in Pipes, ReceiverFails(p) \/ ReceiverEOF(p) \/ ReceiverRefuses(p) PROVE StopInv'
  <2>1. /\ UNCHANGED <<stopq, spipes, dpc, spc>>
        /\ ClosePipe(p) \/ conn' = conn
    BY <1>5 DEF ReceiverFails, ReceiverEOF, ReceiverRefuses, ReceiverCloses, ReceiverLeaves
  <2> QED
    BY <2>1, ClosePipeStops, StopFrame DEF StopInv
<1>6. ASSUME NEW p \in Pipes, SenderFails(p) PROVE StopInv'
  <2>1. /\ UNCHANGED <<stopq, spipes, dpc>>
        /\ ClosePipe(p) \/ conn' = conn
        /\ spc[p] = "send" /\ \E k \in {"resend", "closing"} : spc' = [spc EXCEPT ![p] = k]
    BY <1>6 DEF SenderFails
  <2>2. spc' \in [Pipes -> SenderPCs] /\ \A q \in Pipes : spc[q] = "off" => spc'[q] = "off"
    BY <2>1 DEF StopInv, SenderPCs
  <2>3. CASE conn' = conn
    BY <2>1, <2>2, <2>3 DEF StopInv
  <2> QED
    BY <2>1, <2>2, <2>3, ClosePipeStops DEF StopInv
<1>7. ASSUME NEW p \in Pipes, DrainFails(p) PROVE StopInv'
  <2>1. /\ UNCHANGED <<stopq, spipes, spc>>
        /\ ClosePipe(p) \/ conn' = conn
        /\ dpc[p] = "send" /\ \E k \in {"resend", "closing"} : dpc' = [dpc EXCEPT ![p] = k]
    BY <1>7 DEF DrainFails
  <2>2. dpc' \in [Pipes -> DrainPCs] /\ \A q \in Pipes : dpc[q] = "no" => dpc'[q] = "no"
    BY <2>1 DEF StopInv, DrainPCs
  <2>3. CASE conn' = conn
    BY <2>1, <2>2, <2>3 DEF StopInv
  <2> QED
    BY <2>1, <2>2, <2>3, ClosePipeStops DEF StopInv
<1>8. ASSUME NEW p \in Pipes, KillHandler(p) \/ ReceiverRemoves(p) PROVE StopInv'
  <2>1. RemPipe(p) /\ conn' = conn /\ spc' = spc
    BY <1>8 DEF KillHandler, ReceiverRemoves
  <2> QED
    BY <2>1, RemPipeStops DEF StopInv
<1>9. ASSUME NEW p \in Pipes, SenderRemoves(p) PROVE StopInv'
  <2>1. RemPipe(p) /\ conn' = conn /\ spc[p] = "rem" /\ \E k \in {"drain", "done"} : spc' = [spc EXCEPT ![p] = k]
    BY <1>9 DEF SenderRemoves
  <2>2. spc' \in [Pipes -> SenderPCs] /\ \A q \in Pipes : spc[q] = "off" => spc'[q] = "off"
    BY <2>1 DEF StopInv, SenderPCs
  <2> QED
    BY <2>1, <2>2, RemPipeStops
\* the other steps of the sender, and of a drain
<1>10. ASSUME NEW p \in Pipes, spc[p] # "off", NEW k \in SenderPCs \ {"off"}, spc' = [spc EXCEPT ![p] = k],
              UNCHANGED <<conn, stopq, dpc, spipes>>
       PROVE  StopInv'
  BY <1>10 DEF StopInv
<1>11. ASSUME NEW p \in Pipes, SenderStart(p) \/ SenderTakes(p) \/ SenderTakesOwn(p) \/ SenderSends(p) PROVE StopInv'
  BY <1>10, <1>11 DEF SenderStart, SenderTakes, SenderTakesOwn, SenderSends, SenderPCs
<1>12. ASSUME NEW p \in Pipes, SenderClosed(p) \/ SenderResends(p) \/ SenderStops(p) PROVE StopInv'
  BY <1>10, <1>12 DEF SenderClosed, SenderResends, SenderStops, SenderPCs
<1>13. ASSUME NEW p \in Pipes, SenderSeesClose(p) \/ SenderRemainingEnds(p) \/ SenderDrained(p) PROVE StopInv'
  BY <1>10, <1>13 DEF SenderSeesClose, SenderRemainingEnds, SenderDrained, SenderPCs
<1>14. ASSUME NEW p \in Pipes, dpc[p] # "no", NEW k \in DrainPCs, dpc' = [dpc EXCEPT ![p] = k],
              UNCHANGED <<conn, stopq, spc, spipes>>
       PROVE  StopInv'
  BY <1>14 DEF StopInv
<1>15. ASSUME NEW p \in Pipes, DrainTakes(p) \/ DrainSends(p) \/ DrainClosed(p) PROVE StopInv'
  BY <1>14, <1>15 DEF DrainTakes, DrainSends, DrainClosed, DrainPCs
<1>16. ASSUME NEW p \in Pipes, DrainResends(p) \/ DrainTimesOut(p) \/ DrainEnds(p) PROVE StopInv'
  BY <1>14, <1>16 DEF DrainResends, DrainTimesOut, DrainEnds, DrainPCs
\* steps that change none of these
<1>17. ASSUME NEW p \in Pipes, ReceiverReads(p) \/ KillRemove(p) \/ KillDrained(p) \/ KillCheck(p) PROVE StopInv'
  BY <1>17, StopFrame DEF ReceiverReads, KillRemove, KillDrained, KillCheck
<1>18. ASSUME NEW p \in Pipes, ReceiverHello(p) \/ ReceiverClosed(p) \/ ReceiverPushes(p) \/ ReceiverSeesClose(p) PROVE StopInv'
  BY <1>18, StopFrame DEF ReceiverHello, ReceiverClosed, ReceiverPushes, ReceiverSeesClose
<1>19. ASSUME NEW p \in Pipes, ReceiverDrained(p) \/ DrainDrops(p) \/ CloseClosed(p) PROVE StopInv'
  BY <1>19, StopFrame DEF ReceiverDrained, DrainDrops, CloseClosed
<1>20. ASSUME NEW m \in Msgs, Send(m) \/ SendTo(m) \/ SendAll(m) \/ SendAllReturns(m) PROVE StopInv'
  BY <1>20, StopFrame DEF Send, SendTo, SendAll, SendAllReturns
<1>21. ASSUME NEW m \in Msgs, Push(m) \/ PushRefused(m) \/ SendAllPush(m) \/ SendAllSkips(m) PROVE StopInv'
  BY <1>21, StopFrame DEF Push, PushRefused, SendAllPush, SendAllSkips
<1>22. ASSUME RecvMsg \/ CallClose \/ Close \/ CloseClears \/ CloseWaited \/ CloseTimesOut PROVE StopInv'
  BY <1>22, StopFrame DEF RecvMsg, CallClose, Close, CloseClears, CloseWaited, CloseTimesOut
<1>23. ASSUME CloseDrops \/ CloseDropped \/ CloseConnector \/ CloseReturns \/ UNCHANGED vars PROVE StopInv'
  BY <1>23, StopFrame DEF CloseDrops, CloseDropped, CloseConnector, CloseReturns, vars
<1>24. ASSUME UserNext PROVE StopInv'
  BY <1>24, <1>1, <1>3, <1>4, <1>5, <1>17, <1>20, <1>22 DEF UserNext
<1>25. ASSUME NEW p \in Pipes, SenderNext(p) \/ TransportNext(p) PROVE StopInv'
  BY <1>25, <1>6, <1>9, <1>11, <1>12, <1>13, <1>15 DEF SenderNext, TransportNext
<1>26. ASSUME NEW p \in Pipes, DrainNext(p) PROVE StopInv'
  BY <1>26, <1>7, <1>15, <1>16, <1>19 DEF DrainNext
<1>27. ASSUME NEW p \in Pipes, KillNext(p) \/ ReceiverNext(p) PROVE StopInv'
  BY <1>27, <1>2, <1>5, <1>8, <1>17, <1>18, <1>19 DEF KillNext, ReceiverNext
<1>28. ASSUME NEW m \in Msgs, CallNext(m) PROVE StopInv'
  BY <1>28, <1>20, <1>21 DEF CallNext
<1>29. ASSUME CloserNext PROVE StopInv'
  BY <1>29, <1>4, <1>19, <1>22, <1>23 DEF CloserNext
<1> QED
  BY <1>23, <1>24, <1>25, <1>26, <1>27, <1>28, <1>29 DEF Next

\* For any pipes: stopq is closed once, by whoever finds the pipe in s.pipes
\* (remPipe, stopPipe: socket.go).
THEOREM PipesAreStoppedOnce == Spec => []StopqClosedOnce
<1>1. Init => StopInv
  BY FS_EmptySet DEF Init, StopInv, DrainPCs, SenderPCs
<1>2. StopInv => StopqClosedOnce
  BY DEF StopInv, StopqClosedOnce
<1> QED
  BY <1>1, <1>2, StopStep, PTL DEF Spec

-----------------------------------------------------------------------------
(* Where messages are *)

Addressed == ToDest \cup ToAll
Holding == {"send", "closing", "resend"}

\* What is in a queue has a send type of that queue; a goroutine has a message
\* in hand from when it takes one until it is sent, put back or freed.
HoldInv ==
    /\ sendq \in Seq(ToOne) /\ Len(sendq) <= QueueSize
    /\ psendq \in [Pipes -> Seq(Addressed)] /\ \A p \in Pipes : Len(psendq[p]) <= QueueSize
    /\ wire \in [Pipes -> Seq(Msgs)] /\ dropped \subseteq Msgs
    /\ api \in [Msgs -> {"idle", "push", "fan", "ok", "err"}] /\ fan \in [ToAll -> Seq(Pipes)]
    /\ \A m \in Msgs : (api[m] = "push" => m \notin ToAll) /\ (api[m] = "fan" => m \in ToAll)
    /\ smsg \in [Pipes -> Msgs \cup {None}] /\ dmsg \in [Pipes -> Addressed \cup {None}]
    /\ \A p \in Pipes : /\ spc[p] \in Holding <=> smsg[p] # None
                        /\ dpc[p] \in Holding <=> dmsg[p] # None

\* Messages stay where they are, and goroutines go from one wait to another.
LEMMA HoldFrame ==
    ASSUME HoldInv, UNCHANGED <<sendq, psendq, wire, dropped, api, fan, smsg, dmsg>>,
           \A p \in Pipes : (spc'[p] \in Holding <=> spc[p] \in Holding) /\ (dpc'[p] \in Holding <=> dpc[p] \in Holding)
    PROVE  HoldInv'
BY DEF HoldInv

\* Steps after which the same goroutines have messages in hand.
LEMMA IdleStep ==
    ASSUME StopInv, HoldInv, NEW p \in Pipes
    PROVE  /\ HandleAdd(p) \/ KillHandler(p) \/ ReceiverRemoves(p) \/ SenderRemoves(p) => HoldInv'
           /\ SenderStart(p) \/ SenderFails(p) \/ SenderClosed(p) \/ SenderStops(p) => HoldInv'
           /\ SenderSeesClose(p) \/ SenderRemainingEnds(p) \/ SenderDrained(p) => HoldInv'
           /\ DrainFails(p) \/ DrainClosed(p) \/ DrainTimesOut(p) \/ DrainEnds(p) => HoldInv'
<1> USE DEF lockVars, closeVars, mapVars, apiVars, killVars, drainVars, senderVars, recvVars, msgVars
<1>1. ASSUME NEW k, spc' = [spc EXCEPT ![p] = k], k \in Holding <=> spc[p] \in Holding,
             UNCHANGED <<sendq, psendq, wire, dropped, api, fan, smsg, dmsg, dpc>>
      PROVE  HoldInv'
  <2>1. \A q \in Pipes : (spc'[q] \in Holding <=> spc[q] \in Holding)
    BY <1>1 DEF StopInv
  <2> QED
    BY <1>1, <2>1, HoldFrame
<1>2. ASSUME NEW k, dpc' = [dpc EXCEPT ![p] = k], k \in Holding <=> dpc[p] \in Holding,
             UNCHANGED <<sendq, psendq, wire, dropped, api, fan, smsg, dmsg, spc>>
      PROVE  HoldInv'
  <2>1. \A q \in Pipes : (dpc'[q] \in Holding <=> dpc[q] \in Holding)
    BY <1>2 DEF StopInv
  <2> QED
    BY <1>2, <2>1, HoldFrame
<1>3. ASSUME RemPipe(p) PROVE \A q \in Pipes : dpc'[q] \in Holding <=> dpc[q] \in Holding
  BY <1>3 DEF StopInv, RemPipe, Holding
<1>4. HandleAdd(p) => HoldInv'
  BY <1>1 DEF HandleAdd, StopInv, Holding
<1>5. KillHandler(p) \/ ReceiverRemoves(p) => HoldInv'
  BY <1>3, HoldFrame DEF KillHandler, ReceiverRemoves, RemPipe
<1>6. ASSUME SenderRemoves(p) PROVE HoldInv'
  <2>1. /\ RemPipe(p) /\ spc[p] = "rem" /\ \E k \in {"drain", "done"} : spc' = [spc EXCEPT ![p] = k]
        /\ UNCHANGED <<sendq, psendq, wire, dropped, api, fan, smsg, dmsg>>
    BY <1>6 DEF SenderRemoves, RemPipe
  <2>2. \A q \in Pipes : spc'[q] \in Holding <=> spc[q] \in Holding
    BY <2>1 DEF StopInv, Holding
  <2> QED
    BY <1>3, <2>1, <2>2, HoldFrame
<1>7. SenderStart(p) \/ SenderFails(p) => HoldInv'
  BY <1>1 DEF SenderStart, SenderFails, Holding
<1>8. SenderClosed(p) \/ SenderStops(p) => HoldInv'
  BY <1>1 DEF SenderClosed, SenderStops, Holding
<1>9. SenderSeesClose(p) \/ SenderRemainingEnds(p) \/ SenderDrained(p) => HoldInv'
  BY <1>1 DEF SenderSeesClose, SenderRemainingEnds, SenderDrained, Holding
<1>10. DrainFails(p) \/ DrainClosed(p) => HoldInv'
  BY <1>2 DEF DrainFails, DrainClosed, Holding
<1>11. DrainTimesOut(p) \/ DrainEnds(p) => HoldInv'
  BY <1>2 DEF DrainTimesOut, DrainEnds, Holding
<1> QED
  BY <1>4, <1>5, <1>6, <1>7, <1>8, <1>9, <1>10, <1>11

\* Steps that take a message from a queue, or get rid of the one in hand.
LEMMA HandStep ==
    ASSUME StopInv, HoldInv, NEW p \in Pipes
    PROVE  /\ SenderTakes(p) \/ SenderTakesOwn(p) \/ SenderSends(p) \/ SenderResends(p) => HoldInv'
           /\ DrainTakes(p) \/ DrainSends(p) \/ DrainResends(p) \/ DrainDrops(p) => HoldInv'
<1> USE DEF lockVars, closeVars, mapVars, apiVars, killVars, drainVars, senderVars, recvVars, msgVars
<1>1. ASSUME SenderTakes(p) PROVE HoldInv'
  <2>1. /\ spc[p] \notin Holding /\ sendq # <<>> /\ smsg' = [smsg EXCEPT ![p] = Head(sendq)]
        /\ sendq' = Tail(sendq) /\ spc' = [spc EXCEPT ![p] = "send"]
        /\ UNCHANGED <<psendq, wire, dropped, api, fan, dmsg, dpc>>
    BY <1>1 DEF SenderTakes, Holding
  <2>2. Head(sendq) \in ToOne /\ Tail(sendq) \in Seq(ToOne) /\ Len(Tail(sendq)) = Len(sendq) - 1
    BY <2>1, TakeOut DEF HoldInv
  <2>3. Len(sendq') <= QueueSize
    BY <2>1, <2>2, QueueAssumption DEF HoldInv
  <2>4. Head(sendq) \in Msgs /\ Head(sendq) # None
    BY <2>2, MsgsAssumption DEF Msgs
  <2> QED
    BY <2>1, <2>2, <2>3, <2>4 DEF HoldInv, StopInv, Holding
<1>2. ASSUME psendq[p] # <<>>
      PROVE  /\ Head(psendq[p]) \in Addressed /\ Head(psendq[p]) \in Msgs /\ Head(psendq[p]) # None
             /\ [psendq EXCEPT ![p] = Tail(@)] \in [Pipes -> Seq(Addressed)]
             /\ \A q \in Pipes : Len([psendq EXCEPT ![p] = Tail(@)][q]) <= QueueSize
  <2>1. psendq[p] \in Seq(Addressed) /\ Len(psendq[p]) <= QueueSize
    BY DEF HoldInv
  <2>2. /\ Head(psendq[p]) \in Addressed /\ Tail(psendq[p]) \in Seq(Addressed)
        /\ Len(Tail(psendq[p])) = Len(psendq[p]) - 1
    BY <1>2, <2>1, TakeOut
  <2>3. Len(Tail(psendq[p])) <= QueueSize
    BY <2>1, <2>2, QueueAssumption
  <2>4. Head(psendq[p]) \in Msgs /\ Head(psendq[p]) # None
    BY <2>2, MsgsAssumption DEF Msgs, Addressed
  <2> QED
    BY <2>2, <2>3, <2>4 DEF HoldInv
<1>3. ASSUME SenderTakesOwn(p) PROVE HoldInv'
  BY <1>2, <1>3 DEF SenderTakesOwn, HoldInv, StopInv, Holding
<1>4. ASSUME DrainTakes(p) PROVE HoldInv'
  BY <1>2, <1>4 DEF DrainTakes, HoldInv, StopInv, Holding
<1>5. ASSUME DrainDrops(p) PROVE HoldInv'
  BY <1>2, <1>5 DEF DrainDrops, HoldInv
<1>6. ASSUME NEW m \in Msgs PROVE [wire EXCEPT ![p] = Append(@, m)] \in [Pipes -> Seq(Msgs)]
  <2>1. wire[p] \in Seq(Msgs)
    BY DEF HoldInv
  <2>2. Append(wire[p], m) \in Seq(Msgs)
    BY <2>1, PutIn
  <2> QED
    BY <2>2 DEF HoldInv
<1>7. ASSUME SenderSends(p) PROVE HoldInv'
  <2>1. smsg[p] \in Msgs
    BY <1>7 DEF SenderSends, HoldInv, Holding
  <2>2. wire' \in [Pipes -> Seq(Msgs)]
    BY <1>6, <1>7, <2>1 DEF SenderSends, Transmit
  <2> QED
    BY <1>7, <2>2 DEF SenderSends, HoldInv, StopInv, Holding
<1>8. ASSUME DrainSends(p) PROVE HoldInv'
  <2>1. dmsg[p] \in Msgs
    BY <1>8 DEF DrainSends, HoldInv, Holding, Addressed, Msgs
  <2>2. wire' \in [Pipes -> Seq(Msgs)]
    BY <1>6, <1>8, <2>1 DEF DrainSends, Transmit
  <2> QED
    BY <1>8, <2>2 DEF DrainSends, HoldInv, StopInv, Holding
<1>9. ASSUME NEW m \in Msgs, ResendMsg(m)
      PROVE  sendq' \in Seq(ToOne) /\ Len(sendq') <= QueueSize /\ dropped' \subseteq Msgs
  <2>1. CASE m \in ToOne /\ Room(sendq) /\ sendq' = Append(sendq, m) /\ UNCHANGED dropped
    <3>1. sendq' \in Seq(ToOne) /\ Len(sendq') = Len(sendq) + 1
      BY <2>1, PutIn DEF HoldInv
    <3> QED
      BY <2>1, <3>1, QueueAssumption DEF HoldInv, Room
  <2>2. CASE dropped' = dropped \cup {m} /\ UNCHANGED sendq
    BY <2>2 DEF HoldInv
  <2> QED
    BY <1>9, <2>1, <2>2 DEF ResendMsg
<1>10. ASSUME SenderResends(p) PROVE HoldInv'
  <2>1. smsg[p] \in Msgs
    BY <1>10 DEF SenderResends, HoldInv, Holding
  <2>2. sendq' \in Seq(ToOne) /\ Len(sendq') <= QueueSize /\ dropped' \subseteq Msgs
    BY <1>9, <1>10, <2>1 DEF SenderResends
  <2> QED
    BY <1>10, <2>2 DEF SenderResends, HoldInv, StopInv, Holding
<1>11. ASSUME DrainResends(p) PROVE HoldInv'
  <2>1. dmsg[p] \in Msgs
    BY <1>11 DEF DrainResends, HoldInv, Holding, Addressed, Msgs
  <2>2. sendq' \in Seq(ToOne) /\ Len(sendq') <= QueueSize /\ dropped' \subseteq Msgs
    BY <1>9, <1>11, <2>1 DEF DrainResends
  <2> QED
    BY <1>11, <2>2 DEF DrainResends, HoldInv, StopInv, Holding
<1> QED
  BY <1>1, <1>3, <1>4, <1>5, <1>7, <1>8, <1>10, <1>11

\* Steps of the send calls.
LEMMA CallStep ==
    ASSUME StopInv, HoldInv, NEW m \in Msgs
    PROVE  /\ Send(m) \/ SendTo(m) \/ PushRefused(m) \/ SendAllReturns(m) => HoldInv'
           /\ Push(m) \/ SendAll(m) \/ SendAllPush(m) \/ SendAllSkips(m) => HoldInv'
<1> USE DEF lockVars, closeVars, mapVars, apiVars, killVars, drainVars, senderVars, recvVars, msgVars
<1>1. ASSUME NEW k \in {"push", "ok", "err"}, api' = [api EXCEPT ![m] = k], k = "push" => m \notin ToAll,
             UNCHANGED <<sendq, psendq, wire, dropped, fan, smsg, dmsg, spc, dpc>>
      PROVE  HoldInv'
  BY <1>1 DEF HoldInv
<1>2. Send(m) \/ SendTo(m) \/ PushRefused(m) \/ SendAllReturns(m) => HoldInv'
  BY <1>1, MsgsAssumption DEF Send, SendTo, PushRefused, SendAllReturns
<1>3. ASSUME NEW p \in Pipes, m \in Addressed, Room(psendq[p])
      PROVE  /\ [psendq EXCEPT ![p] = Append(@, m)] \in [Pipes -> Seq(Addressed)]
             /\ \A q \in Pipes : Len([psendq EXCEPT ![p] = Append(@, m)][q]) <= QueueSize
  <2>1. psendq[p] \in Seq(Addressed) /\ Len(psendq[p]) < QueueSize
    BY <1>3 DEF HoldInv, Room
  <2>2. Append(psendq[p], m) \in Seq(Addressed) /\ Len(Append(psendq[p], m)) = Len(psendq[p]) + 1
    BY <1>3, <2>1, PutIn
  <2>3. Len(Append(psendq[p], m)) <= QueueSize
    BY <2>1, <2>2, QueueAssumption
  <2> QED
    BY <2>2, <2>3 DEF HoldInv
<1>4. ASSUME Push(m), m \in ToOne PROVE HoldInv'
  <2>1. /\ sendq' = Append(sendq, m) /\ api' = [api EXCEPT ![m] = "ok"] /\ Len(sendq) < QueueSize
        /\ UNCHANGED <<psendq, wire, dropped, fan, smsg, dmsg, spc, dpc>>
    BY <1>4 DEF Push, Queue, Room
  <2>2. sendq' \in Seq(ToOne) /\ Len(sendq') = Len(sendq) + 1
    BY <1>4, <2>1, PutIn DEF HoldInv
  <2>3. Len(sendq') <= QueueSize
    BY <2>1, <2>2, QueueAssumption DEF HoldInv
  <2> QED
    BY <2>1, <2>2, <2>3 DEF HoldInv
<1>5. ASSUME Push(m), m \notin ToOne PROVE HoldInv'
  <2>1. m \in ToDest /\ m \in Addressed /\ Dest[m] \in Pipes
    BY <1>5, MsgsAssumption DEF Push, HoldInv, Msgs, Addressed
  <2>2. /\ psendq' = [psendq EXCEPT ![Dest[m]] = Append(@, m)] /\ api' = [api EXCEPT ![m] = "ok"]
        /\ Room(psendq[Dest[m]]) /\ UNCHANGED <<sendq, wire, dropped, fan, smsg, dmsg, spc, dpc>>
    BY <1>5 DEF Push, Queue
  <2> QED
    BY <1>3, <2>1, <2>2 DEF HoldInv
<1>6. ASSUME SendAll(m) PROVE HoldInv'
  <2>1. PICK o \in Orders(spipes) : fan' = [fan EXCEPT ![m] = o]
    BY <1>6 DEF SendAll
  <2>2. o \in Seq(Pipes)
    <3>1. Cardinality(spipes) \in Nat /\ spipes \subseteq Pipes
      BY FS_CardinalityType DEF StopInv
    <3>2. o \in [1 .. Cardinality(spipes) -> Pipes]
      BY <3>1 DEF Orders
    <3> QED
      BY <3>1, <3>2
  <2>3. /\ m \in ToAll /\ api' = [api EXCEPT ![m] = "fan"]
        /\ UNCHANGED <<sendq, psendq, wire, dropped, smsg, dmsg, spc, dpc>>
    BY <1>6 DEF SendAll
  <2> QED
    BY <2>1, <2>2, <2>3 DEF HoldInv
<1>7. ASSUME api[m] = "fan", fan[m] # <<>>
      PROVE  m \in ToAll /\ Head(fan[m]) \in Pipes /\ [fan EXCEPT ![m] = Tail(@)] \in [ToAll -> Seq(Pipes)]
  <2>1. m \in ToAll /\ fan[m] \in Seq(Pipes)
    BY <1>7 DEF HoldInv
  <2>2. Head(fan[m]) \in Pipes /\ Tail(fan[m]) \in Seq(Pipes)
    BY <1>7, <2>1, TakeOut
  <2> QED
    BY <2>1, <2>2 DEF HoldInv
<1>8. ASSUME SendAllPush(m) PROVE HoldInv'
  <2>1. /\ api[m] = "fan" /\ fan[m] # <<>> /\ Room(psendq[Head(fan[m])])
        /\ psendq' = [psendq EXCEPT ![Head(fan[m])] = Append(@, m)] /\ fan' = [fan EXCEPT ![m] = Tail(@)]
        /\ UNCHANGED <<sendq, wire, dropped, api, smsg, dmsg, spc, dpc>>
    BY <1>8 DEF SendAllPush
  <2> QED
    BY <1>3, <1>7, <2>1 DEF HoldInv, Addressed
<1>9. ASSUME SendAllSkips(m) PROVE HoldInv'
  BY <1>7, <1>9 DEF SendAllSkips, HoldInv
<1> QED
  BY <1>2, <1>4, <1>5, <1>6, <1>8, <1>9

\* Every step keeps HoldInv.
LEMMA HoldStep == StopInv /\ HoldInv /\ [Next]_vars => HoldInv'
<1> SUFFICES ASSUME StopInv, HoldInv, [Next]_vars PROVE HoldInv'
  OBVIOUS
<1> USE DEF lockVars, closeVars, mapVars, apiVars, killVars, drainVars, senderVars, recvVars, msgVars
<1>1. ASSUME NEW p \in Pipes, AddPipe(p) \/ Break(p) \/ UserClosesPipe(p) \/ ReceiverReads(p) PROVE HoldInv'
  BY <1>1, HoldFrame DEF AddPipe, Break, UserClosesPipe, ReceiverReads
<1>2. ASSUME NEW p \in Pipes, KillRemove(p) \/ KillDrained(p) \/ KillCheck(p) \/ CloseNext(p) PROVE HoldInv'
  BY <1>2, HoldFrame DEF KillRemove, KillDrained, KillCheck, CloseNext
<1>3. ASSUME NEW p \in Pipes, ReceiverHello(p) \/ ReceiverClosed(p) \/ ReceiverPushes(p) PROVE HoldInv'
  BY <1>3, HoldFrame DEF ReceiverHello, ReceiverClosed, ReceiverPushes
<1>13. ASSUME NEW p \in Pipes, ReceiverFails(p) \/ ReceiverEOF(p) \/ ReceiverRefuses(p) PROVE HoldInv'
  BY <1>13, HoldFrame DEF ReceiverFails, ReceiverEOF, ReceiverRefuses
<1>4. ASSUME NEW p \in Pipes, ReceiverSeesClose(p) \/ ReceiverDrained(p) \/ CloseClosed(p) PROVE HoldInv'
  BY <1>4, HoldFrame DEF ReceiverSeesClose, ReceiverDrained, CloseClosed
<1>5. ASSUME RecvMsg \/ CallClose \/ Close \/ CloseClears \/ CloseWaited \/ CloseTimesOut PROVE HoldInv'
  BY <1>5, HoldFrame DEF RecvMsg, CallClose, Close, CloseClears, CloseWaited, CloseTimesOut
<1>6. ASSUME CloseDropped \/ CloseConnector \/ CloseReturns \/ UNCHANGED vars PROVE HoldInv'
  BY <1>6, HoldFrame DEF CloseDropped, CloseConnector, CloseReturns, vars
<1>7. ASSUME UserNext PROVE HoldInv'
  BY <1>7, <1>1, <1>5, <1>13, CallStep DEF UserNext
<1>8. ASSUME NEW p \in Pipes, SenderNext(p) \/ TransportNext(p) PROVE HoldInv'
  BY <1>8, IdleStep, HandStep DEF SenderNext, TransportNext
<1>9. ASSUME NEW p \in Pipes, DrainNext(p) \/ KillNext(p) PROVE HoldInv'
  BY <1>9, <1>2, IdleStep, HandStep DEF DrainNext, KillNext
<1>10. ASSUME NEW p \in Pipes, ReceiverNext(p) PROVE HoldInv'
  BY <1>10, <1>3, <1>4, <1>13, IdleStep DEF ReceiverNext
<1>11. ASSUME NEW m \in Msgs, CallNext(m) PROVE HoldInv'
  BY <1>11, CallStep DEF CallNext
<1>12. ASSUME CloserNext PROVE HoldInv'
  <2>1. CASE CloseDrops
    <3>1. /\ sendq # <<>> /\ sendq' = Tail(sendq) /\ dropped' = dropped \cup {Head(sendq)}
          /\ UNCHANGED <<psendq, wire, api, fan, smsg, spc, dmsg, dpc>>
      BY <2>1 DEF CloseDrops
    <3>2. Head(sendq) \in ToOne /\ Tail(sendq) \in Seq(ToOne) /\ Len(Tail(sendq)) = Len(sendq) - 1
      BY <3>1, TakeOut DEF HoldInv
    <3>3. Len(sendq') <= QueueSize
      BY <3>1, <3>2, QueueAssumption DEF HoldInv
    <3> QED
      BY <3>1, <3>2, <3>3 DEF HoldInv, Msgs
  <2> QED
    BY <1>12, <1>2, <1>4, <1>5, <1>6, <2>1 DEF CloserNext
<1> QED
  BY <1>6, <1>7, <1>8, <1>9, <1>10, <1>11, <1>12 DEF Next

-----------------------------------------------------------------------------
(***************************************************************************)
(* What becomes of a message that a socket has accepted: a ToOne message   *)
(* is in one place, and is not freed while the socket is open; a ToDest    *)
(* message stays on its pipe; no pipe has two copies of a message.         *)
(***************************************************************************)

Held(m) == \E p \in Pipes : smsg[p] = m
Sent(m) == \E p \in Pipes : In(m, wire[p])

\* A ToOne message is in the queue, in a sender's hand, sent or freed, at one
\* place of one of these, if Send has put it into the queue.
OneInv(m) ==
    /\ Once(m, sendq) /\ \A p \in Pipes : Once(m, wire[p])
    /\ \A p, q \in Pipes : smsg[p] = m /\ smsg[q] = m => p = q
    /\ \A p, q \in Pipes : In(m, wire[p]) /\ In(m, wire[q]) => p = q
    /\ In(m, sendq) => ~Held(m) /\ ~Sent(m) /\ m \notin dropped
    /\ Held(m) => ~Sent(m) /\ m \notin dropped
    /\ Sent(m) => m \notin dropped
    /\ api[m] = "ok" <=> (In(m, sendq) \/ Held(m) \/ Sent(m) \/ m \in dropped)

On(m, p) == In(m, psendq[p]) \/ In(m, wire[p]) \/ smsg[p] = m \/ dmsg[p] = m

\* A pipe has one copy of a ToDest or ToAll message: that of the pipe its path
\* names, or of a pipe that sendToAll has done.
CopyInv(m, p) ==
    /\ Once(m, psendq[p]) /\ Once(m, wire[p])
    /\ In(m, psendq[p]) => ~In(m, wire[p]) /\ smsg[p] # m /\ dmsg[p] # m
    /\ In(m, wire[p]) => smsg[p] # m /\ dmsg[p] # m
    /\ smsg[p] = m => dmsg[p] # m
    /\ On(m, p) => IF m \in ToDest THEN p = Dest[m] /\ api[m] = "ok"
                   ELSE api[m] \in {"fan", "ok"} /\ ~In(p, fan[m])

\* sendToAll visits a pipe once.
FanInv(m) ==
    /\ api[m] # "fan" => fan[m] = <<>>
    /\ \A p \in Pipes : Once(p, fan[m])

MsgInv ==
    /\ \A m \in ToOne : OneInv(m)
    /\ \A m \in Addressed, p \in Pipes : CopyInv(m, p)
    /\ \A m \in ToAll : FanInv(m)

\* The steps that move messages.
Moves(p) ==
    \/ SenderTakes(p) \/ SenderTakesOwn(p) \/ SenderSends(p) \/ SenderResends(p)
    \/ DrainTakes(p) \/ DrainSends(p) \/ DrainResends(p) \/ DrainDrops(p)
Calls(m) ==
    \/ Send(m) \/ SendTo(m) \/ Push(m) \/ PushRefused(m)
    \/ SendAll(m) \/ SendAllPush(m) \/ SendAllSkips(m) \/ SendAllReturns(m)
Still == UNCHANGED <<sendq, psendq, wire, dropped, api, fan, smsg, dmsg>>

\* Every other step leaves them alone.
LEMMA OtherSteps == [Next]_vars => Still \/ (\E p \in Pipes : Moves(p)) \/ (\E m \in Msgs : Calls(m)) \/ CloseDrops
<1> SUFFICES ASSUME [Next]_vars
             PROVE  Still \/ (\E p \in Pipes : Moves(p)) \/ (\E m \in Msgs : Calls(m)) \/ CloseDrops
  OBVIOUS
<1> USE DEF lockVars, closeVars, mapVars, apiVars, killVars, drainVars, senderVars, recvVars, msgVars
<1>1. ASSUME NEW p \in Pipes, AddPipe(p) \/ Break(p) \/ UserClosesPipe(p) \/ ReceiverReads(p) PROVE Still
  BY <1>1 DEF AddPipe, Break, UserClosesPipe, ReceiverReads, Still
<1>13. ASSUME NEW p \in Pipes, ReceiverFails(p) \/ ReceiverEOF(p) \/ ReceiverRefuses(p) PROVE Still
  BY <1>13 DEF ReceiverFails, ReceiverEOF, ReceiverRefuses, Still
<1>2. ASSUME NEW p \in Pipes, HandleAdd(p) \/ KillRemove(p) \/ KillHandler(p) \/ KillDrained(p) \/ KillCheck(p) PROVE Still
  BY <1>2 DEF HandleAdd, KillRemove, KillHandler, RemPipe, KillDrained, KillCheck, Still
<1>3. ASSUME NEW p \in Pipes, ReceiverNext(p) PROVE Still
  <2>1. ReceiverHello(p) \/ ReceiverClosed(p) \/ ReceiverPushes(p) => Still
    BY DEF ReceiverHello, ReceiverClosed, ReceiverPushes, Still
  <2>2. ReceiverSeesClose(p) \/ ReceiverRemoves(p) \/ ReceiverDrained(p) => Still
    BY DEF ReceiverSeesClose, ReceiverRemoves, RemPipe, ReceiverDrained, Still
  <2> QED
    BY <1>3, <1>13, <2>1, <2>2 DEF ReceiverNext
<1>4. ASSUME NEW p \in Pipes, SenderNext(p) PROVE Still \/ Moves(p)
  <2>1. SenderStart(p) \/ SenderFails(p) \/ SenderClosed(p) \/ SenderStops(p) => Still
    BY DEF SenderStart, SenderFails, SenderClosed, SenderStops, Still
  <2>2. SenderSeesClose(p) \/ SenderRemainingEnds(p) \/ SenderRemoves(p) \/ SenderDrained(p) => Still
    BY DEF SenderSeesClose, SenderRemainingEnds, SenderRemoves, RemPipe, SenderDrained, Still
  <2> QED
    BY <1>4, <2>1, <2>2 DEF SenderNext, Moves
<1>5. ASSUME NEW p \in Pipes, DrainNext(p) PROVE Still \/ Moves(p)
  <2>1. DrainFails(p) \/ DrainClosed(p) \/ DrainTimesOut(p) \/ DrainEnds(p) => Still
    BY DEF DrainFails, DrainClosed, DrainTimesOut, DrainEnds, Still
  <2> QED
    BY <1>5, <2>1 DEF DrainNext, Moves
<1>6. ASSUME RecvMsg \/ CallClose \/ Close \/ CloseClears \/ CloseWaited \/ CloseTimesOut PROVE Still
  BY <1>6 DEF RecvMsg, CallClose, Close, CloseClears, CloseWaited, CloseTimesOut, Still
<1>7. ASSUME CloseDropped \/ CloseConnector \/ CloseReturns \/ UNCHANGED vars PROVE Still
  BY <1>7 DEF CloseDropped, CloseConnector, CloseReturns, vars, Still
<1>8. ASSUME NEW p \in Pipes, CloseNext(p) \/ CloseClosed(p) PROVE Still
  BY <1>8 DEF CloseNext, CloseClosed, Still
<1>9. UserNext => Still \/ \E m \in Msgs : Calls(m)
  BY <1>1, <1>6, <1>13 DEF UserNext, Calls
<1>10. CloserNext => Still \/ CloseDrops
  BY <1>6, <1>7, <1>8 DEF CloserNext
<1>11. ASSUME NEW p \in Pipes, SenderNext(p) \/ DrainNext(p) \/ KillNext(p) \/ ReceiverNext(p) \/ TransportNext(p)
       PROVE  Still \/ Moves(p)
  BY <1>11, <1>2, <1>3, <1>4, <1>5 DEF KillNext, TransportNext, Moves
<1>12. ASSUME NEW m \in Msgs, CallNext(m) PROVE Calls(m)
  BY <1>12 DEF CallNext, Calls
<1> QED
  BY <1>7, <1>9, <1>10, <1>11, <1>12 DEF Next

-----------------------------------------------------------------------------
(* ToOne messages *)

\* A step that moves other messages only.
LEMMA OneFrame ==
    ASSUME NEW m, OneInv(m), sendq' = sendq, api'[m] = api[m], m \in dropped' <=> m \in dropped,
           \A p \in Pipes : /\ smsg'[p] = m <=> smsg[p] = m
                            /\ In(m, wire'[p]) <=> In(m, wire[p])
                            /\ Once(m, wire[p]) => Once(m, wire'[p])
    PROVE  OneInv(m)'
BY DEF OneInv, Held, Sent

\* A sender's steps, with the message that it takes or has.
LEMMA OneMoves ==
    ASSUME HoldInv, NEW m \in ToOne, OneInv(m), NEW p \in Pipes, Moves(p)
    PROVE  OneInv(m)'
<1> USE DEF lockVars, closeVars, mapVars, apiVars, killVars, drainVars, senderVars, recvVars, msgVars
<1>1. m # None /\ m \notin Addressed
  BY MsgsAssumption DEF Msgs, Addressed
<1>2. ASSUME SenderTakes(p) PROVE OneInv(m)'
  <2>1. /\ sendq # <<>> /\ sendq' = Tail(sendq) /\ smsg' = [smsg EXCEPT ![p] = Head(sendq)]
        /\ smsg[p] = None /\ UNCHANGED <<wire, dropped, api>>
    BY <1>2 DEF SenderTakes, HoldInv, Holding
  <2>2. /\ In(m, sendq) <=> m = Head(sendq) \/ In(m, sendq')
        /\ Once(m, sendq) => Once(m, sendq') /\ ~(m = Head(sendq) /\ In(m, sendq'))
    BY <2>1, TakeOut DEF HoldInv
  <2>3. smsg'[p] = Head(sendq) /\ \A q \in Pipes \ {p} : smsg'[q] = smsg[q]
    BY <2>1 DEF HoldInv
  <2> QED
    BY <1>1, <2>1, <2>2, <2>3 DEF OneInv, Held, Sent
<1>3. ASSUME SenderTakesOwn(p) PROVE OneInv(m)'
  <2>1. /\ psendq[p] # <<>> /\ smsg' = [smsg EXCEPT ![p] = Head(psendq[p])]
        /\ smsg[p] = None /\ UNCHANGED <<sendq, wire, dropped, api>>
    BY <1>3 DEF SenderTakesOwn, HoldInv, Holding
  <2>2. Head(psendq[p]) \in Addressed
    BY <2>1, TakeOut DEF HoldInv
  <2>3. \A q \in Pipes : smsg'[q] = m <=> smsg[q] = m
    BY <1>1, <2>1, <2>2 DEF HoldInv
  <2> QED
    BY <2>1, <2>3, OneFrame
<1>4. ASSUME NEW x \in Msgs, wire' = [wire EXCEPT ![p] = Append(@, x)]
      PROVE  /\ In(m, wire'[p]) <=> In(m, wire[p]) \/ m = x
             /\ Once(m, wire[p]) /\ ~(In(m, wire[p]) /\ m = x) => Once(m, wire'[p])
             /\ \A q \in Pipes \ {p} : wire'[q] = wire[q]
  <2>1. wire[p] \in Seq(Msgs) /\ wire'[p] = Append(wire[p], x) /\ \A q \in Pipes \ {p} : wire'[q] = wire[q]
    BY <1>4 DEF HoldInv
  <2> QED
    BY <2>1, PutIn
<1>5. ASSUME SenderSends(p) PROVE OneInv(m)'
  <2>1. /\ smsg[p] \in Msgs /\ smsg' = [smsg EXCEPT ![p] = None] /\ UNCHANGED <<sendq, dropped, api>>
        /\ wire' = [wire EXCEPT ![p] = Append(@, smsg[p])]
    BY <1>5 DEF SenderSends, Transmit, HoldInv, Holding
  <2>2. smsg'[p] = None /\ \A q \in Pipes \ {p} : smsg'[q] = smsg[q]
    BY <2>1 DEF HoldInv
  <2>3. CASE smsg[p] = m
    <3>1. In(m, wire'[p]) /\ Once(m, wire'[p]) /\ \A q \in Pipes \ {p} : wire'[q] = wire[q] /\ smsg[q] # m
      BY <1>4, <2>1, <2>3 DEF OneInv, Held, Sent
    <3> QED
      BY <1>1, <2>1, <2>2, <2>3, <3>1 DEF OneInv, Held, Sent
  <2>4. CASE smsg[p] # m
    BY <1>1, <1>4, <2>1, <2>2, <2>4, OneFrame
  <2> QED
    BY <2>3, <2>4
<1>6. ASSUME SenderResends(p) PROVE OneInv(m)'
  <2>1. /\ smsg[p] \in Msgs /\ smsg' = [smsg EXCEPT ![p] = None] /\ UNCHANGED <<wire, api>>
        /\ ResendMsg(smsg[p])
    BY <1>6 DEF SenderResends, HoldInv, Holding
  <2>2. smsg'[p] = None /\ \A q \in Pipes \ {p} : smsg'[q] = smsg[q]
    BY <2>1 DEF HoldInv
  <2>3. CASE smsg[p] \in ToOne /\ sendq' = Append(sendq, smsg[p]) /\ UNCHANGED dropped
    <3>1. /\ In(m, sendq') <=> In(m, sendq) \/ m = smsg[p]
          /\ Once(m, sendq) /\ ~(In(m, sendq) /\ m = smsg[p]) => Once(m, sendq')
      BY <2>3, PutIn DEF HoldInv
    <3> QED
      BY <1>1, <2>1, <2>2, <2>3, <3>1 DEF OneInv, Held, Sent
  <2>4. CASE dropped' = dropped \cup {smsg[p]} /\ UNCHANGED sendq
    BY <1>1, <2>1, <2>2, <2>4 DEF OneInv, Held, Sent
  <2> QED
    BY <2>1, <2>3, <2>4 DEF ResendMsg
<1>7. ASSUME DrainTakes(p) PROVE OneInv(m)'
  BY <1>7, OneFrame DEF DrainTakes
<1>8. ASSUME DrainSends(p) PROVE OneInv(m)'
  <2>1. /\ dmsg[p] \in Addressed /\ dmsg[p] \in Msgs /\ UNCHANGED <<sendq, dropped, api, smsg>>
        /\ wire' = [wire EXCEPT ![p] = Append(@, dmsg[p])]
    BY <1>8 DEF DrainSends, Transmit, HoldInv, Holding, Addressed, Msgs
  <2> QED
    BY <1>1, <1>4, <2>1, OneFrame
<1>9. ASSUME DrainResends(p) \/ DrainDrops(p) PROVE OneInv(m)'
  <2>1. DrainResends(p) => dmsg[p] \in Addressed
    BY DEF DrainResends, HoldInv, Holding
  <2>2. DrainDrops(p) => Head(psendq[p]) \in Addressed
    BY TakeOut DEF DrainDrops, HoldInv
  <2>3. /\ \E x \in Addressed : dropped' \subseteq dropped \cup {x} /\ dropped \subseteq dropped'
        /\ UNCHANGED <<sendq, api, smsg, wire>>
    BY <1>9, <2>1, <2>2, MsgsAssumption DEF DrainResends, DrainDrops, ResendMsg, Addressed
  <2> QED
    BY <1>1, <2>3, OneFrame
<1> QED
  BY <1>2, <1>3, <1>5, <1>6, <1>7, <1>8, <1>9 DEF Moves

\* The send calls, and what Close frees.
LEMMA OneCalls ==
    ASSUME HoldInv, NEW m \in ToOne, OneInv(m), (\E x \in Msgs : Calls(x)) \/ CloseDrops
    PROVE  OneInv(m)'
<1> USE DEF lockVars, closeVars, mapVars, apiVars, killVars, drainVars, senderVars, recvVars, msgVars
<1>1. ASSUME NEW x \in Msgs, Push(x), x \in ToOne PROVE OneInv(m)'
  <2>1. /\ api[x] = "push" /\ api' = [api EXCEPT ![x] = "ok"] /\ sendq' = Append(sendq, x)
        /\ UNCHANGED <<wire, dropped, smsg>>
    BY <1>1 DEF Push
  <2>2. /\ In(m, sendq') <=> In(m, sendq) \/ m = x
        /\ Once(m, sendq) /\ ~(In(m, sendq) /\ m = x) => Once(m, sendq')
    BY <1>1, <2>1, PutIn DEF HoldInv
  <2>3. api'[m] = IF m = x THEN "ok" ELSE api[m]
    BY <2>1 DEF HoldInv, Msgs
  <2> QED
    BY <2>1, <2>2, <2>3 DEF OneInv, Held, Sent
<1>2. ASSUME NEW x \in Msgs, Calls(x), ~(Push(x) /\ x \in ToOne) PROVE OneInv(m)'
  <2>1. UNCHANGED <<sendq, wire, dropped, smsg>>
    <3>1. Send(x) \/ SendTo(x) \/ Push(x) \/ PushRefused(x) => UNCHANGED <<sendq, wire, dropped, smsg>>
      BY <1>2 DEF Send, SendTo, Push, PushRefused
    <3>2. SendAll(x) \/ SendAllPush(x) \/ SendAllSkips(x) \/ SendAllReturns(x) => UNCHANGED <<sendq, wire, dropped, smsg>>
      BY DEF SendAll, SendAllPush, SendAllSkips, SendAllReturns
    <3> QED
      BY <1>2, <3>1, <3>2 DEF Calls
  <2>2. api'[m] = "ok" <=> api[m] = "ok"
    <3>1. Send(x) \/ SendTo(x) \/ PushRefused(x) => (api'[m] = "ok" <=> api[m] = "ok")
      BY DEF Send, SendTo, PushRefused, HoldInv, Msgs
    <3>2. Push(x) => (api'[m] = "ok" <=> api[m] = "ok")
      BY <1>2 DEF Push, HoldInv, Msgs
    <3>3. SendAll(x) \/ SendAllPush(x) \/ SendAllSkips(x) \/ SendAllReturns(x) => (api'[m] = "ok" <=> api[m] = "ok")
      BY MsgsAssumption DEF SendAll, SendAllPush, SendAllSkips, SendAllReturns, HoldInv, Msgs
    <3> QED
      BY <1>2, <3>1, <3>2, <3>3 DEF Calls
  <2> QED
    BY <2>1, <2>2 DEF OneInv, Held, Sent
<1>3. ASSUME CloseDrops PROVE OneInv(m)'
  <2>1. /\ sendq # <<>> /\ sendq' = Tail(sendq) /\ dropped' = dropped \cup {Head(sendq)}
        /\ UNCHANGED <<wire, smsg, api>>
    BY <1>3 DEF CloseDrops
  <2>2. /\ In(m, sendq) <=> m = Head(sendq) \/ In(m, sendq')
        /\ Once(m, sendq) => Once(m, sendq') /\ ~(m = Head(sendq) /\ In(m, sendq'))
    BY <2>1, TakeOut DEF HoldInv
  <2> QED
    BY <2>1, <2>2 DEF OneInv, Held, Sent
<1> QED
  BY <1>1, <1>2, <1>3

-----------------------------------------------------------------------------
(* ToDest and ToAll messages *)

\* A step that does not move message m on pipe p, and does not undo its call.
LEMMA CopyFrame ==
    ASSUME NEW m \in Addressed, NEW p \in Pipes, CopyInv(m, p),
           In(m, psendq'[p]) <=> In(m, psendq[p]), Once(m, psendq[p]) => Once(m, psendq'[p]),
           In(m, wire'[p]) <=> In(m, wire[p]), Once(m, wire[p]) => Once(m, wire'[p]),
           smsg'[p] = m <=> smsg[p] = m, dmsg'[p] = m <=> dmsg[p] = m,
           api[m] \in {"fan", "ok"} => api'[m] \in {api[m], "ok"}, In(p, fan'[m]) => In(p, fan[m]) \/ ~On(m, p)
    PROVE  CopyInv(m, p)'
BY DEF CopyInv, On

\* The step of another pipe does not.
LEMMA OtherPipe ==
    ASSUME NEW m \in Addressed, NEW p \in Pipes, CopyInv(m, p), UNCHANGED <<api, fan>>,
           psendq'[p] = psendq[p], wire'[p] = wire[p], smsg'[p] = smsg[p], dmsg'[p] = dmsg[p]
    PROVE  CopyInv(m, p)'
BY CopyFrame

\* The steps of the sender and of stopPipe, which empty the same queue.
LEMMA CopyMoves ==
    ASSUME HoldInv, NEW m \in Addressed, NEW p \in Pipes, CopyInv(m, p), NEW r \in Pipes, Moves(r)
    PROVE  CopyInv(m, p)'
<1> USE DEF lockVars, closeVars, mapVars, apiVars, killVars, drainVars, senderVars, recvVars, msgVars
<1>1. m # None /\ m \notin ToOne /\ m \in Msgs
  BY MsgsAssumption DEF Msgs, Addressed
<1>2. UNCHANGED <<api, fan>>
  <2>1. SenderTakes(r) \/ SenderTakesOwn(r) \/ SenderSends(r) \/ SenderResends(r) => UNCHANGED <<api, fan>>
    BY DEF SenderTakes, SenderTakesOwn, SenderSends, SenderResends
  <2>2. DrainTakes(r) \/ DrainSends(r) \/ DrainResends(r) \/ DrainDrops(r) => UNCHANGED <<api, fan>>
    BY DEF DrainTakes, DrainSends, DrainResends, DrainDrops
  <2> QED
    BY <2>1, <2>2 DEF Moves
<1>3. CASE r # p
  <2>1. SenderTakes(r) \/ SenderTakesOwn(r) \/ SenderSends(r) \/ SenderResends(r) =>
            psendq'[p] = psendq[p] /\ wire'[p] = wire[p] /\ smsg'[p] = smsg[p] /\ dmsg'[p] = dmsg[p]
    BY <1>3 DEF SenderTakes, SenderTakesOwn, SenderSends, Transmit, SenderResends, HoldInv
  <2>2. DrainTakes(r) \/ DrainSends(r) \/ DrainResends(r) \/ DrainDrops(r) =>
            psendq'[p] = psendq[p] /\ wire'[p] = wire[p] /\ smsg'[p] = smsg[p] /\ dmsg'[p] = dmsg[p]
    BY <1>3 DEF DrainTakes, DrainSends, Transmit, DrainResends, DrainDrops, HoldInv
  <2> QED
    BY <1>2, <2>1, <2>2, OtherPipe DEF Moves
<1>4. CASE r = p
  <2>1. ASSUME psendq[p] # <<>>, psendq' = [psendq EXCEPT ![p] = Tail(@)]
        PROVE  /\ In(m, psendq[p]) <=> m = Head(psendq[p]) \/ In(m, psendq'[p])
               /\ Once(m, psendq[p]) => Once(m, psendq'[p]) /\ ~(m = Head(psendq[p]) /\ In(m, psendq'[p]))
    <3>1. psendq[p] \in Seq(Addressed) /\ psendq'[p] = Tail(psendq[p])
      BY <2>1 DEF HoldInv
    <3> QED
      BY <2>1, <3>1, TakeOut
  <2>2. ASSUME NEW x \in Msgs, wire' = [wire EXCEPT ![p] = Append(@, x)]
        PROVE  /\ In(m, wire'[p]) <=> In(m, wire[p]) \/ m = x
               /\ Once(m, wire[p]) /\ ~(In(m, wire[p]) /\ m = x) => Once(m, wire'[p])
    <3>1. wire[p] \in Seq(Msgs) /\ wire'[p] = Append(wire[p], x)
      BY <2>2 DEF HoldInv
    <3> QED
      BY <3>1, PutIn
  <2>3. ASSUME SenderTakes(p) PROVE CopyInv(m, p)'
    <3>1. /\ smsg[p] = None /\ smsg' = [smsg EXCEPT ![p] = Head(sendq)] /\ sendq # <<>>
          /\ UNCHANGED <<psendq, wire, dmsg>>
      BY <2>3 DEF SenderTakes, HoldInv, Holding
    <3>2. Head(sendq) \in ToOne /\ smsg'[p] = Head(sendq)
      BY <3>1, TakeOut DEF HoldInv
    <3> QED
      BY <1>1, <1>2, <3>1, <3>2, CopyFrame
  <2>4. ASSUME SenderTakesOwn(p) PROVE CopyInv(m, p)'
    <3>1. /\ smsg[p] = None /\ smsg' = [smsg EXCEPT ![p] = Head(psendq[p])] /\ psendq[p] # <<>>
          /\ psendq' = [psendq EXCEPT ![p] = Tail(@)] /\ UNCHANGED <<wire, dmsg>>
      BY <2>4 DEF SenderTakesOwn, HoldInv, Holding
    <3>2. smsg'[p] = Head(psendq[p])
      BY <3>1 DEF HoldInv
    <3> QED
      BY <1>1, <1>2, <2>1, <3>1, <3>2 DEF CopyInv, On
  <2>5. ASSUME SenderSends(p) PROVE CopyInv(m, p)'
    <3>1. /\ smsg[p] \in Msgs /\ smsg' = [smsg EXCEPT ![p] = None]
          /\ wire' = [wire EXCEPT ![p] = Append(@, smsg[p])] /\ UNCHANGED <<psendq, dmsg>>
      BY <2>5 DEF SenderSends, Transmit, HoldInv, Holding
    <3>2. smsg'[p] = None
      BY <3>1 DEF HoldInv
    <3> QED
      BY <1>1, <1>2, <2>2, <3>1, <3>2 DEF CopyInv, On
  <2>6. ASSUME SenderResends(p) PROVE CopyInv(m, p)'
    <3>1. smsg'[p] = None /\ UNCHANGED <<psendq, wire, dmsg>>
      BY <2>6 DEF SenderResends, HoldInv
    <3> QED
      BY <1>1, <1>2, <3>1 DEF CopyInv, On
  <2>7. ASSUME DrainTakes(p) PROVE CopyInv(m, p)'
    <3>1. /\ dmsg[p] = None /\ dmsg' = [dmsg EXCEPT ![p] = Head(psendq[p])] /\ psendq[p] # <<>>
          /\ psendq' = [psendq EXCEPT ![p] = Tail(@)] /\ UNCHANGED <<wire, smsg>>
      BY <2>7 DEF DrainTakes, HoldInv, Holding
    <3>2. dmsg'[p] = Head(psendq[p])
      BY <3>1 DEF HoldInv
    <3> QED
      BY <1>1, <1>2, <2>1, <3>1, <3>2 DEF CopyInv, On
  <2>8. ASSUME DrainSends(p) PROVE CopyInv(m, p)'
    <3>1. /\ dmsg[p] \in Msgs /\ dmsg' = [dmsg EXCEPT ![p] = None]
          /\ wire' = [wire EXCEPT ![p] = Append(@, dmsg[p])] /\ UNCHANGED <<psendq, smsg>>
      BY <2>8 DEF DrainSends, Transmit, HoldInv, Holding, Addressed, Msgs
    <3>2. dmsg'[p] = None
      BY <3>1 DEF HoldInv
    <3> QED
      BY <1>1, <1>2, <2>2, <3>1, <3>2 DEF CopyInv, On
  <2>9. ASSUME DrainResends(p) PROVE CopyInv(m, p)'
    <3>1. dmsg'[p] = None /\ UNCHANGED <<psendq, wire, smsg>>
      BY <2>9 DEF DrainResends, HoldInv
    <3> QED
      BY <1>1, <1>2, <3>1 DEF CopyInv, On
  <2>10. ASSUME DrainDrops(p) PROVE CopyInv(m, p)'
    <3>1. /\ psendq[p] # <<>> /\ psendq' = [psendq EXCEPT ![p] = Tail(@)]
          /\ UNCHANGED <<wire, smsg, dmsg>>
      BY <2>10 DEF DrainDrops
    <3> QED
      BY <1>1, <1>2, <2>1, <3>1 DEF CopyInv, On
  <2> QED
    BY <1>4, <2>3, <2>4, <2>5, <2>6, <2>7, <2>8, <2>9, <2>10 DEF Moves
<1> QED
  BY <1>3, <1>4

\* The send calls: a queue gets a message that is not on its pipe.
LEMMA CopyCalls ==
    ASSUME HoldInv, NEW m \in Addressed, NEW p \in Pipes, CopyInv(m, p),
           \A x \in ToAll : FanInv(x), NEW x \in Msgs, Calls(x)
    PROVE  CopyInv(m, p)'
<1> USE DEF lockVars, closeVars, mapVars, apiVars, killVars, drainVars, senderVars, recvVars, msgVars
<1>1. m \in Msgs
  BY DEF Msgs, Addressed
<1>2. UNCHANGED <<wire, smsg, dmsg>>
  <2>1. Send(x) \/ SendTo(x) \/ Push(x) \/ PushRefused(x) => UNCHANGED <<wire, smsg, dmsg>>
    BY DEF Send, SendTo, Push, PushRefused
  <2>2. SendAll(x) \/ SendAllPush(x) \/ SendAllSkips(x) \/ SendAllReturns(x) => UNCHANGED <<wire, smsg, dmsg>>
    BY DEF SendAll, SendAllPush, SendAllSkips, SendAllReturns
  <2> QED
    BY <2>1, <2>2 DEF Calls
<1>3. ASSUME NEW q \in Pipes, x \in Addressed, psendq' = [psendq EXCEPT ![q] = Append(@, x)]
      PROVE  IF p = q
             THEN /\ In(m, psendq'[p]) <=> In(m, psendq[p]) \/ m = x
                  /\ Once(m, psendq[p]) /\ ~(In(m, psendq[p]) /\ m = x) => Once(m, psendq'[p])
             ELSE psendq'[p] = psendq[p]
  <2>1. psendq[p] \in Seq(Addressed) /\ psendq'[p] = IF p = q THEN Append(psendq[p], x) ELSE psendq[p]
    BY <1>3 DEF HoldInv
  <2> QED
    BY <1>3, <2>1, PutIn
<1>4. ASSUME Send(x) \/ SendTo(x) \/ PushRefused(x) \/ SendAllReturns(x) PROVE CopyInv(m, p)'
  <2>1. psendq' = psendq /\ fan' = fan
    BY <1>4 DEF Send, SendTo, PushRefused, SendAllReturns
  <2>2. api[m] \in {"fan", "ok"} => api'[m] \in {api[m], "ok"}
    BY <1>1, <1>4 DEF Send, SendTo, PushRefused, SendAllReturns, HoldInv
  <2> QED
    BY <1>2, <2>1, <2>2, CopyFrame
<1>5. ASSUME Push(x), x \in ToOne PROVE CopyInv(m, p)'
  <2>1. psendq' = psendq /\ fan' = fan /\ api'[m] = api[m]
    BY <1>1, <1>5, MsgsAssumption DEF Push, HoldInv, Addressed
  <2> QED
    BY <1>2, <2>1, CopyFrame
<1>6. ASSUME Push(x), x \notin ToOne PROVE CopyInv(m, p)'
  <2>1. x \in ToDest /\ x \in Addressed /\ Dest[x] \in Pipes
    BY <1>6, MsgsAssumption DEF Push, HoldInv, Msgs, Addressed
  <2>2. /\ psendq' = [psendq EXCEPT ![Dest[x]] = Append(@, x)] /\ fan' = fan
        /\ api[x] = "push" /\ api' = [api EXCEPT ![x] = "ok"]
    BY <1>6 DEF Push
  <2>3. api'[m] = IF m = x THEN "ok" ELSE api[m]
    BY <1>1, <2>2 DEF HoldInv
  <2>4. CASE p = Dest[x] /\ m = x
    <3>1. ~On(m, p)
      BY <2>1, <2>2, <2>4 DEF CopyInv
    <3> QED
      BY <1>2, <1>3, <2>1, <2>2, <2>3, <2>4, <3>1 DEF CopyInv, On
  <2>5. CASE ~(p = Dest[x] /\ m = x)
    <3>1. In(m, psendq'[p]) <=> In(m, psendq[p])
      BY <1>3, <2>1, <2>2, <2>5
    <3>2. Once(m, psendq[p]) => Once(m, psendq'[p])
      BY <1>3, <2>1, <2>2, <2>5
    <3> QED
      BY <1>2, <2>2, <2>3, <3>1, <3>2, CopyFrame
  <2> QED
    BY <2>4, <2>5
<1>7. ASSUME SendAll(x) PROVE CopyInv(m, p)'
  <2>1. /\ psendq' = psendq /\ x \in ToAll /\ api[x] = "idle" /\ api' = [api EXCEPT ![x] = "fan"]
        /\ \E o \in Orders(spipes) : fan' = [fan EXCEPT ![x] = o]
    BY <1>7 DEF SendAll
  <2>2. m # x => api'[m] = api[m] /\ (m \in ToAll => fan'[m] = fan[m])
    BY <1>1, <2>1 DEF HoldInv
  <2>3. CASE m = x
    <3>1. ~On(m, p)
      BY <2>1, <2>3, MsgsAssumption DEF CopyInv
    <3> QED
      BY <1>2, <2>1, <3>1 DEF CopyInv, On
  <2>4. CASE m # x /\ m \in ToAll
    BY <1>2, <2>1, <2>2, <2>4, CopyFrame
  <2>5. CASE m # x /\ m \in ToDest
    BY <1>2, <2>1, <2>2, <2>5 DEF CopyInv, On
  <2> QED
    BY <2>3, <2>4, <2>5 DEF Addressed
<1>8. ASSUME SendAllPush(x) \/ SendAllSkips(x) PROVE CopyInv(m, p)'
  <2>1. /\ api[x] = "fan" /\ fan[x] # <<>> /\ fan' = [fan EXCEPT ![x] = Tail(@)] /\ api' = api
        /\ psendq' = psendq \/ psendq' = [psendq EXCEPT ![Head(fan[x])] = Append(@, x)]
    BY <1>8 DEF SendAllPush, SendAllSkips
  <2>2. x \in ToAll /\ x \in Addressed /\ x \notin ToDest /\ fan[x] \in Seq(Pipes) /\ fan'[x] = Tail(fan[x])
    BY <2>1, MsgsAssumption DEF HoldInv, Addressed
  <2>3. /\ Head(fan[x]) \in Pipes
        /\ In(p, fan[x]) <=> p = Head(fan[x]) \/ In(p, fan'[x])
        /\ ~(p = Head(fan[x]) /\ In(p, fan'[x]))
    BY <2>1, <2>2, TakeOut DEF FanInv
  <2>4. CASE m = x /\ p = Head(fan[x])
    <3>1. ~On(m, p)
      BY <2>2, <2>3, <2>4 DEF CopyInv
    <3>2. ~In(p, fan'[m]) /\ api'[m] = "fan"
      BY <2>1, <2>3, <2>4
    <3>3. CASE psendq' = psendq
      BY <1>2, <3>1, <3>3 DEF CopyInv, On
    <3>4. CASE psendq' = [psendq EXCEPT ![p] = Append(@, x)]
      BY <1>2, <1>3, <2>2, <2>4, <3>1, <3>2, <3>4 DEF CopyInv, On
    <3> QED
      BY <2>1, <2>4, <3>3, <3>4
  <2>5. CASE ~(m = x /\ p = Head(fan[x]))
    <3>1. In(m, psendq'[p]) <=> In(m, psendq[p])
      BY <1>3, <2>1, <2>2, <2>3, <2>5
    <3>2. Once(m, psendq[p]) => Once(m, psendq'[p])
      BY <1>3, <2>1, <2>2, <2>3, <2>5
    <3>3. m \in ToAll => (In(p, fan'[m]) => In(p, fan[m]))
      BY <2>1, <2>2, <2>3 DEF HoldInv
    <3>4. CASE m \in ToAll
      BY <1>2, <2>1, <3>1, <3>2, <3>3, <3>4, CopyFrame
    <3>5. CASE m \in ToDest
      BY <1>2, <2>1, <3>1, <3>2, <3>5 DEF CopyInv, On
    <3> QED
      BY <3>4, <3>5 DEF Addressed
  <2> QED
    BY <2>4, <2>5
<1> QED
  BY <1>4, <1>5, <1>6, <1>7, <1>8 DEF Calls

\* sendToAll visits the pipes of s.pipes in some order, once each.
LEMMA FanStep ==
    ASSUME StopInv, HoldInv, NEW m \in ToAll, FanInv(m),
           Still \/ (\E p \in Pipes : Moves(p)) \/ (\E x \in Msgs : Calls(x)) \/ CloseDrops
    PROVE  FanInv(m)'
<1> USE DEF lockVars, closeVars, mapVars, apiVars, killVars, drainVars, senderVars, recvVars, msgVars
<1>1. m \in Msgs /\ m \notin ToOne /\ m \notin ToDest
  BY MsgsAssumption DEF Msgs
<1>2. ASSUME Still \/ CloseDrops PROVE FanInv(m)'
  BY <1>2 DEF Still, CloseDrops, FanInv
<1>3. ASSUME NEW p \in Pipes, Moves(p) PROVE FanInv(m)'
  <2>1. SenderTakes(p) \/ SenderTakesOwn(p) \/ SenderSends(p) \/ SenderResends(p) => UNCHANGED <<api, fan>>
    BY DEF SenderTakes, SenderTakesOwn, SenderSends, SenderResends
  <2>2. DrainTakes(p) \/ DrainSends(p) \/ DrainResends(p) \/ DrainDrops(p) => UNCHANGED <<api, fan>>
    BY DEF DrainTakes, DrainSends, DrainResends, DrainDrops
  <2> QED
    BY <1>3, <2>1, <2>2 DEF Moves, FanInv
<1>4. ASSUME NEW x \in Msgs, Send(x) \/ SendTo(x) \/ Push(x) \/ PushRefused(x) PROVE FanInv(m)'
  <2>1. fan' = fan /\ (api'[m] = api[m] \/ api[m] # "fan")
    BY <1>1, <1>4 DEF Send, SendTo, Push, PushRefused, HoldInv
  <2> QED
    BY <2>1 DEF FanInv
<1>5. ASSUME NEW x \in Msgs, SendAll(x) PROVE FanInv(m)'
  <2>1. PICK o \in Orders(spipes) : fan' = [fan EXCEPT ![x] = o]
    BY <1>5 DEF SendAll
  <2>2. x \in ToAll /\ api' = [api EXCEPT ![x] = "fan"]
    BY <1>5 DEF SendAll
  <2>3. CASE m = x
    <3>1. fan'[m] = o /\ api'[m] = "fan" /\ \A i, j \in DOMAIN o : o[i] = o[j] => i = j
      BY <1>1, <2>1, <2>2, <2>3 DEF HoldInv, Orders
    <3>2. 1 .. Len(o) = DOMAIN o
      <4>1. fan'[m] \in Seq(Pipes)
        BY <1>5, CallStep DEF HoldInv
      <4> QED
        BY <3>1, <4>1
    <3> QED
      BY <3>1, <3>2 DEF FanInv, Once
  <2>4. CASE m # x
    BY <1>1, <2>1, <2>2, <2>4 DEF HoldInv, FanInv
  <2> QED
    BY <2>3, <2>4
<1>6. ASSUME NEW x \in Msgs, SendAllPush(x) \/ SendAllSkips(x) PROVE FanInv(m)'
  <2>1. api[x] = "fan" /\ fan[x] # <<>> /\ fan' = [fan EXCEPT ![x] = Tail(@)] /\ api' = api
    BY <1>6 DEF SendAllPush, SendAllSkips
  <2>2. x \in ToAll /\ fan[x] \in Seq(Pipes) /\ fan'[x] = Tail(fan[x])
    BY <2>1 DEF HoldInv
  <2>3. \A p : Once(p, fan[x]) => Once(p, fan'[x])
    BY <2>1, <2>2, TakeOut
  <2> QED
    BY <2>1, <2>2, <2>3 DEF HoldInv, FanInv
<1>7. ASSUME NEW x \in Msgs, SendAllReturns(x) PROVE FanInv(m)'
  BY <1>1, <1>7 DEF SendAllReturns, HoldInv, FanInv
<1> QED
  BY <1>2, <1>3, <1>4, <1>5, <1>6, <1>7 DEF Calls

\* Every step keeps MsgInv.
LEMMA MsgStep == StopInv /\ HoldInv /\ MsgInv /\ [Next]_vars => MsgInv'
<1> SUFFICES ASSUME StopInv, HoldInv, MsgInv, [Next]_vars PROVE MsgInv'
  OBVIOUS
<1>1. Still \/ (\E p \in Pipes : Moves(p)) \/ (\E x \in Msgs : Calls(x)) \/ CloseDrops
  BY OtherSteps
<1>2. ASSUME NEW m \in ToOne PROVE OneInv(m)'
  <2>1. OneInv(m)
    BY DEF MsgInv
  <2>2. CASE Still
    BY <2>1, <2>2 DEF Still, OneInv, Held, Sent
  <2> QED
    BY <1>1, <2>1, <2>2, OneMoves, OneCalls
<1>3. ASSUME NEW m \in Addressed, NEW p \in Pipes PROVE CopyInv(m, p)'
  <2>1. CopyInv(m, p) /\ \A x \in ToAll : FanInv(x)
    BY DEF MsgInv
  <2>2. CASE Still
    BY <2>1, <2>2, OtherPipe DEF Still
  <2>3. CASE CloseDrops
    <3>1. UNCHANGED <<psendq, wire, api, fan, smsg, dmsg>>
      BY <2>3 DEF CloseDrops, apiVars, drainVars, senderVars
    <3> QED
      BY <2>1, <3>1, OtherPipe
  <2> QED
    BY <1>1, <2>1, <2>2, <2>3, CopyMoves, CopyCalls
<1>4. ASSUME NEW m \in ToAll PROVE FanInv(m)'
  BY <1>1, FanStep DEF MsgInv
<1> QED
  BY <1>2, <1>3, <1>4 DEF MsgInv

=============================================================================
