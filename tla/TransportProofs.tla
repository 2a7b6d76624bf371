--------------------------- MODULE TransportProofs ---------------------------
(***************************************************************************)
(* The in-process transport: how dials and listeners meet, and what a      *)
(* connection promises its reader; and the ids of the pipes that are made  *)
(* of connections.                                                         *)
(***************************************************************************)
EXTENDS Inproc, ChannelConn, PipeIds, SequenceTheorems, FiniteSetTheorems, TLAPS

\* the provers, in the order in which they are tried
USE ZenonT(3), SMT, ZenonT(20), Z3

-----------------------------------------------------------------------------
(***************************************************************************)
(* ChannelConn implements Stream, for every size of the channel and of the *)
(* slices.  What has to be known of the state is where the next byte is:   *)
(* the slice in the reader's hands and the slices in the channel follow    *)
(* each other without gaps, from the last byte read to the last written.   *)
(***************************************************************************)

\* The variables have the values their comments say.
ConnTypeOK ==
    /\ kind \in {"rw", "block"} /\ rc \in Seq(Nat \X Nat)
    /\ s \in Nat \X Nat /\ i \in Nat /\ holds \in BOOLEAN
    /\ sent \in Nat /\ ret \in Nat \X Nat /\ writes \in Nat
    /\ connClosedq \in BOOLEAN /\ wpc \in {"open", "ended"} /\ rpc \in {"select", "remaining", "ended"}

\* the byte after which the channel goes on
Pos == IF holds THEN s[2] ELSE ret[2]

\* The slice that Read hands out begins where the last read ended.
InHand == holds => rpc = "select" /\ s[1] + i = ret[2] /\ i <= Size(s) /\ s[1] <= s[2]

\* The slices of the channel follow each other, up to the last byte written.
Contiguous ==
    /\ \A k \in 1 .. Len(rc) : rc[k][1] <= rc[k][2] /\ rc[k][2] <= sent
    /\ \A k \in 1 .. Len(rc) : k + 1 <= Len(rc) => rc[k][2] = rc[k + 1][1]
    /\ IF rc = <<>> THEN Pos = sent ELSE rc[1][1] = Pos /\ rc[Len(rc)][2] = sent
    /\ Pos <= sent

ConnInv == ConnTypeOK /\ InHand /\ Contiguous /\ (rpc # "select" => connClosedq)

-----------------------------------------------------------------------------
\* ConnInv holds of a new connection.
LEMMA ConnInvInit == ConnInit => ConnInv
  <1> SUFFICES ASSUME ConnInit PROVE ConnInv
    OBVIOUS
  <1> USE DEF ConnInit
  <1>1. ConnTypeOK
    BY EmptySeq DEF ConnTypeOK
  <1>2. InHand
    BY DEF InHand
  <1>3. Contiguous
    <2>1. Len(rc) = 0 /\ 1 .. Len(rc) = {} /\ ret[2] = 0
      OBVIOUS
    <2> QED BY <2>1 DEF Contiguous, Pos
  <1> QED BY <1>1, <1>2, <1>3 DEF ConnInv

\* Taking a slice from the channel, in Read, Recv or RecvMsg, keeps the order.
LEMMA TakesKeepsOrder ==
  ASSUME ConnInv, rc # <<>>, ~holds, Takes, sent' = sent, rpc' = "select"
  PROVE  /\ rc' \in Seq(Nat \X Nat) /\ s' \in Nat \X Nat /\ i' \in Nat /\ holds' \in BOOLEAN /\ ret' \in Nat \X Nat
         /\ InHand' /\ Contiguous'
  <1> USE DEF ConnInv, ConnTypeOK
  <1>1. /\ Len(rc) \in Nat \ {0} /\ rc[1] \in Nat \X Nat /\ Head(rc) = rc[1]
        /\ Tail(rc) \in Seq(Nat \X Nat) /\ Len(Tail(rc)) = Len(rc) - 1
        /\ \A k \in 1 .. Len(rc) - 1 : Tail(rc)[k] = rc[k + 1]
    OBVIOUS
  <1>2. rc' = Tail(rc) /\ rc' \in Seq(Nat \X Nat) /\ Len(rc') = Len(rc) - 1
    BY <1>1 DEF Takes
  <1>e. rc' = <<>> <=> Len(rc') = 0
    <2>1. rc' \in Seq(Nat \X Nat)
      BY <1>2
    <2>2. Len(<<>>) = 0 /\ \A seq \in Seq(Nat \X Nat) : seq # <<>> => Len(seq) \in Nat \ {0}
      BY EmptySeq
    <2> QED BY <2>1, <2>2, Zenon
  <1>3. rc[1][1] = ret[2] /\ rc[1][1] <= rc[1][2] /\ rc[1][2] <= sent
    BY <1>1 DEF Contiguous, Pos
  <1>4. /\ s' \in Nat \X Nat /\ i' \in Nat /\ holds' \in BOOLEAN /\ ret' \in Nat \X Nat
        /\ InHand' /\ Pos' = rc[1][2]
    <2>1. CASE kind = "rw"
      <3>1. s' = rc[1] /\ i' = 0 /\ holds' = TRUE /\ ret' = ret
        BY <2>1, <1>1 DEF Takes
      <3> QED BY <3>1, <1>1, <1>3 DEF InHand, Pos, Size
    <2>2. CASE kind = "block"
      <3>1. ret' = rc[1] /\ s' = s /\ i' = i /\ holds' = FALSE
        BY <2>2, <1>1 DEF Takes
      <3> QED BY <3>1, <1>1, <1>3 DEF InHand, Pos, Size
    <2> QED BY <2>1, <2>2
  <1>5. \A k \in 1 .. Len(rc') : rc'[k][1] <= rc'[k][2] /\ rc'[k][2] <= sent'
    BY <1>1, <1>2 DEF Contiguous
  <1>6. \A k \in 1 .. Len(rc') : k + 1 <= Len(rc') => rc'[k][2] = rc'[k + 1][1]
    BY <1>1, <1>2 DEF Contiguous
  <1>7. IF rc' = <<>> THEN Pos' = sent' ELSE rc'[1][1] = Pos' /\ rc'[Len(rc')][2] = sent'
    <2>1. CASE Len(rc) = 1
      <3>1. rc' = <<>>
        BY <2>1, <1>2, <1>e
      <3>2. rc[1][2] = sent
        BY <2>1 DEF Contiguous
      <3> QED BY <3>1, <3>2, <1>4
    <2>2. CASE Len(rc) > 1
      <3>1. rc' # <<>>
        <4>1. PICK u, v : u = Len(rc) /\ v = Len(rc')
          OBVIOUS
        <4>2. u \in Nat /\ u > 1 /\ v = u - 1
          BY <2>2, <1>1, <1>2, <4>1
        <4>3. v # 0
          BY ONLY <4>2
        <4> QED BY ONLY <4>1, <4>3, <1>e
      <3>3. rc'[1] = rc[1 + 1] /\ rc'[Len(rc')] = rc[Len(rc') + 1]
        <4>1. 1 \in 1 .. Len(rc) - 1 /\ Len(rc') \in 1 .. Len(rc) - 1
          BY ONLY <2>2, <1>1, <1>2
        <4> QED BY <4>1, <1>1, <1>2
      <3>4. 1 + 1 = 2 /\ Len(rc') + 1 = Len(rc)
        BY <1>1, <1>2
      <3>2. rc[1][2] = rc[2][1] /\ rc[Len(rc)][2] = sent
        BY <2>2, <1>1 DEF Contiguous
      <3> QED BY <3>1, <3>2, <3>3, <3>4, <1>4
    <2> QED BY <2>1, <2>2, <1>1
  <1> QED BY <1>2, <1>3, <1>4, <1>5, <1>6, <1>7 DEF Contiguous

\* A write goes to the end.
LEMMA WriteKeepsOrder ==
  ASSUME ConnInv, NEW n \in 0 .. MaxSlice, ConnWrite(n)
  PROVE  rc' \in Seq(Nat \X Nat) /\ sent' \in Nat /\ Contiguous'
  <1> USE ConnAssumption DEF ConnInv, ConnTypeOK
  <1>1. /\ n \in Nat /\ sent' = sent + n /\ rc' = Append(rc, <<sent, sent + n>>)
        /\ holds' = holds /\ s' = s /\ ret' = ret
    BY DEF ConnWrite
  <1>s. n \in Nat /\ sent \in Nat /\ sent' = sent + n
    BY <1>1
  <1>2. /\ rc' \in Seq(Nat \X Nat) /\ Len(rc') = Len(rc) + 1 /\ rc' # <<>> /\ Len(rc) \in Nat
        /\ rc'[Len(rc) + 1] = <<sent, sent + n>>
        /\ \A k \in 1 .. Len(rc) : rc'[k] = rc[k]
    <2>1. <<sent, sent + n>> \in Nat \X Nat
      BY <1>1
    <2>2. /\ rc' \in Seq(Nat \X Nat) /\ Len(rc') = Len(rc) + 1 /\ Len(rc) \in Nat
          /\ rc'[Len(rc) + 1] = <<sent, sent + n>>
          /\ \A k \in 1 .. Len(rc) : rc'[k] = rc[k]
      BY <1>1, <2>1, AppendProperties
    <2> QED BY <2>2
  <1>3. Pos' = Pos /\ Pos \in Nat
    BY <1>1 DEF Pos
  <1>4. \A k \in 1 .. Len(rc') : rc'[k][1] <= rc'[k][2] /\ rc'[k][2] <= sent'
    <2> TAKE k \in 1 .. Len(rc')
    <2>1. CASE k = Len(rc) + 1
      <3>1. rc'[k][1] = sent /\ rc'[k][2] = sent + n
        BY <2>1, <1>2
      <3> QED BY <3>1, <1>s
    <2>2. CASE k \in 1 .. Len(rc)
      <3>1. rc[k][2] \in Nat
        BY <2>2
      <3>2. rc'[k] = rc[k] /\ rc[k][1] <= rc[k][2] /\ rc[k][2] <= sent
        BY <2>2, <1>2 DEF Contiguous
      <3>3. rc[k][2] <= sent'
        <4>1. PICK u, v, w : u = rc[k][2] /\ v = sent /\ w = sent'
          OBVIOUS
        <4>2. u \in Nat /\ v \in Nat /\ n \in Nat /\ u <= v /\ w = v + n
          BY <3>1, <3>2, <4>1, <1>s
        <4>3. u <= w
          BY ONLY <4>2
        <4> QED BY <4>1, <4>3
      <3> QED BY <3>2, <3>3
    <2> QED BY <2>1, <2>2, <1>2
  <1>5. \A k \in 1 .. Len(rc') : k + 1 <= Len(rc') => rc'[k][2] = rc'[k + 1][1]
    <2> SUFFICES ASSUME NEW k \in 1 .. Len(rc'), k + 1 <= Len(rc')
                 PROVE  rc'[k][2] = rc'[k + 1][1]
      OBVIOUS
    <2>0. k \in 1 .. Len(rc)
      BY <1>2
    <2>1. k \in 1 .. Len(rc) /\ rc'[k] = rc[k]
      BY <2>0, <1>2
    <2>2. CASE k = Len(rc)
      <3>1. rc # <<>> /\ rc[k][2] = sent
        BY <2>1, <2>2, EmptySeq DEF Contiguous
      <3>2. rc'[k + 1] = <<sent, sent + n>>
        BY <2>2, <1>2
      <3> QED BY <2>1, <3>1, <3>2
    <2>3. CASE k + 1 \in 1 .. Len(rc)
      <3>1. rc'[k + 1] = rc[k + 1]
        BY <2>3, <1>2
      <3>2. rc[k][2] = rc[k + 1][1]
        BY <2>1, <2>3 DEF Contiguous
      <3> QED BY <2>1, <3>1, <3>2
    <2> QED BY <2>1, <2>2, <2>3, <1>2
  <1>6. rc'[1][1] = Pos' /\ rc'[Len(rc')][2] = sent'
    <2>1. CASE rc = <<>>
      BY <2>1, <1>1, <1>2, <1>3 DEF Contiguous
    <2>2. CASE rc # <<>>
      <3>1. rc[1][1] = Pos /\ 1 \in 1 .. Len(rc)
        BY <2>2 DEF Contiguous
      <3>2. rc'[1] = rc[1] /\ rc'[Len(rc')] = <<sent, sent + n>>
        BY <3>1, <1>2
      <3> QED BY <3>1, <3>2, <1>1, <1>3
    <2> QED BY <2>1, <2>2
  <1>7. Pos' <= sent'
    BY <1>s, <1>3 DEF Contiguous
  <1>8. Contiguous'
    BY <1>2, <1>4, <1>5, <1>6, <1>7, Zenon DEF Contiguous
  <1> QED BY <1>1, <1>2, <1>8

\* Handing out a piece of a slice keeps the order.
LEMMA CopyKeepsOrder ==
  ASSUME ConnInv, NEW n \in 1 .. MaxSlice, ReadCopies(n)
  PROVE  /\ ret' = <<ret[2], ret[2] + n>> /\ ret[2] + n \in ret[2] .. sent /\ i' \in Nat
         /\ InHand' /\ Pos' = Pos
  <1> USE ConnAssumption DEF ConnInv, ConnTypeOK
  <1>1. /\ holds /\ holds' = holds /\ s' = s /\ rpc' = rpc /\ i' = i + n /\ n <= Size(s) - i
        /\ ret' = <<s[1] + i, s[1] + i + n>>
    BY DEF ReadCopies
  <1>2. /\ rpc = "select" /\ s[1] + i = ret[2] /\ s[1] <= s[2] /\ s[2] <= sent
        /\ s[1] \in Nat /\ s[2] \in Nat /\ n \in Nat
    BY <1>1 DEF InHand, Contiguous, Pos
  <1>3. ret' = <<ret[2], ret[2] + n>> /\ ret[2] + n \in ret[2] .. sent /\ i' \in Nat
    BY <1>1, <1>2 DEF Size
  <1>4. InHand'
    BY <1>1, <1>2 DEF InHand, Size
  <1>5. Pos' = Pos
    BY <1>1 DEF Pos
  <1> QED BY <1>3, <1>4, <1>5

-----------------------------------------------------------------------------
\* Every step of a connection keeps ConnInv.
LEMMA ConnInvStep == ConnInv /\ [ConnNext]_connvars => ConnInv'
  <1> SUFFICES ASSUME ConnInv, [ConnNext]_connvars PROVE ConnInv'
    OBVIOUS
  <1> USE DEF ConnInv
  <1>1. ASSUME NEW n \in 0 .. MaxSlice, ConnWrite(n) PROVE ConnInv'
    <2>1. rc' \in Seq(Nat \X Nat) /\ sent' \in Nat /\ Contiguous'
      BY <1>1, WriteKeepsOrder
    <2>2. /\ UNCHANGED <<kind, s, i, holds, ret, connClosedq, wpc, rpc>> /\ writes' = writes + 1
      BY <1>1 DEF ConnWrite
    <2>3. ConnTypeOK'
      BY <2>1, <2>2 DEF ConnTypeOK
    <2>4. InHand'
      BY <2>2 DEF InHand, Size
    <2> QED BY <2>1, <2>2, <2>3, <2>4
  <1>2. CASE ConnWriteFails
    BY <1>2 DEF ConnWriteFails, ConnTypeOK, InHand, Contiguous, Pos, Size
  <1>3. CASE ConnClose
    BY <1>3 DEF ConnClose, ConnTypeOK, InHand, Contiguous, Pos, Size
  <1>4. CASE ReadSelects
    <2>1. /\ rc # <<>> /\ ~holds /\ Takes /\ rpc' = "select"
          /\ UNCHANGED <<kind, sent, writes, connClosedq, wpc>>
      BY <1>4 DEF ReadSelects
    <2> QED BY <2>1, TakesKeepsOrder DEF ConnTypeOK
  <1>5. CASE ReadSeesClosed
    BY <1>5 DEF ReadSeesClosed, ConnTypeOK, InHand, Contiguous, Pos, Size
  <1>6. CASE ReadRemaining
    <2>1. ~holds
      BY <1>6 DEF ReadRemaining, InHand, ConnTypeOK
    <2>2. CASE rc # <<>> /\ Takes /\ rpc' = "select"
      <3>1. UNCHANGED <<kind, sent, writes, connClosedq, wpc>>
        BY <1>6 DEF ReadRemaining
      <3> QED BY <2>1, <2>2, <3>1, TakesKeepsOrder DEF ConnTypeOK
    <2>3. CASE rpc' = "ended" /\ UNCHANGED <<rc, s, i, holds, ret>>
      <3>1. UNCHANGED <<kind, sent, writes, connClosedq, wpc>> /\ rpc = "remaining"
        BY <1>6 DEF ReadRemaining
      <3> QED BY <2>1, <2>3, <3>1 DEF ConnTypeOK, InHand, Contiguous, Pos, Size
    <2> QED BY <1>6, <2>2, <2>3 DEF ReadRemaining
  <1>7. CASE ReadFrees
    <2>1. /\ holds /\ i >= Size(s) /\ s' = <<0, 0>> /\ holds' = FALSE
          /\ UNCHANGED <<kind, rc, i, sent, ret, writes, connClosedq, wpc, rpc>>
      BY <1>7 DEF ReadFrees
    <2>2. Pos' = Pos
      BY <2>1 DEF Pos, InHand, Size, ConnTypeOK
    <2> QED BY <2>1, <2>2 DEF ConnTypeOK, InHand, Contiguous
  <1>8. ASSUME NEW n \in 1 .. MaxSlice, ReadCopies(n) PROVE ConnInv'
    <2>1. /\ ret' = <<ret[2], ret[2] + n>> /\ ret[2] + n \in ret[2] .. sent /\ i' \in Nat
          /\ InHand' /\ Pos' = Pos
      BY <1>8, CopyKeepsOrder
    <2>2. UNCHANGED <<kind, rc, s, holds, sent, writes, connClosedq, wpc, rpc>>
      BY <1>8 DEF ReadCopies
    <2>3. ConnTypeOK'
      BY <2>1, <2>2 DEF ConnTypeOK
    <2>4. Contiguous'
      BY <2>1, <2>2 DEF Contiguous
    <2> QED BY <2>1, <2>2, <2>3, <2>4
  <1>9. CASE UNCHANGED connvars
    BY <1>9 DEF connvars, ConnTypeOK, InHand, Contiguous, Pos, Size
  <1> QED BY <1>1, <1>2, <1>3, <1>4, <1>5, <1>6, <1>7, <1>8, <1>9 DEF ConnNext, ConnReads

\* Every step of a connection is a step of the stream, or none.
LEMMA ConnStepSimulates == ConnInv /\ [ConnNext]_connvars => [Promised!StreamNext]_Promised!svars
  <1> SUFFICES ASSUME ConnInv, [ConnNext]_connvars PROVE [Promised!StreamNext]_Promised!svars
    OBVIOUS
  <1> USE DEF ConnInv, ConnTypeOK, Promised!StreamNext, Promised!svars
  <1>1. ASSUME NEW n \in 0 .. MaxSlice, ConnWrite(n) PROVE Promised!StreamWrites
    BY <1>1, ConnAssumption DEF ConnWrite, Promised!StreamWrites
  <1>2. CASE ConnWriteFails \/ ReadSeesClosed \/ ReadFrees \/ UNCHANGED connvars
    BY <1>2 DEF ConnWriteFails, ReadSeesClosed, ReadFrees, connvars
  <1>3. CASE ConnClose
    BY <1>3 DEF ConnClose, Promised!StreamCloses
  <1>4. ASSUME rc # <<>>, ~holds, Takes, rpc # "ended", rpc' = "select", UNCHANGED <<sent, connClosedq>>
        PROVE  [Promised!StreamNext]_Promised!svars
    <2>1. CASE kind = "rw"
      BY <1>4, <2>1 DEF Takes
    <2>2. CASE kind = "block"
      <3>1. /\ ret' = rc[1] /\ rc[1] \in Nat \X Nat /\ rc[1][1] = ret[2]
            /\ rc[1][1] <= rc[1][2] /\ rc[1][2] <= sent
        BY <1>4, <2>2 DEF Takes, Contiguous, Pos
      <3>2. ret' = <<ret[2], rc[1][2]>> /\ rc[1][2] \in ret[2] .. sent
        BY <3>1
      <3> QED BY <1>4, <3>2 DEF Promised!StreamReads
    <2> QED BY <2>1, <2>2
  <1>5. CASE ReadSelects
    BY <1>5, <1>4 DEF ReadSelects
  <1>6. CASE ReadRemaining
    <2>1. ~holds /\ connClosedq
      BY <1>6 DEF ReadRemaining, InHand
    <2>2. CASE rc # <<>> /\ Takes /\ rpc' = "select"
      BY <1>6, <1>4, <2>1, <2>2 DEF ReadRemaining
    <2>3. CASE rc = <<>> /\ rpc' = "ended" /\ UNCHANGED ret
      <3>1. ret[2] = sent
        BY <2>1, <2>3 DEF Contiguous, Pos
      <3> QED BY <1>6, <2>1, <2>3, <3>1 DEF ReadRemaining, Promised!StreamEnds
    <2> QED BY <1>6, <2>2, <2>3 DEF ReadRemaining
  <1>7. ASSUME NEW n \in 1 .. MaxSlice, ReadCopies(n) PROVE Promised!StreamReads
    <2>1. ret' = <<ret[2], ret[2] + n>> /\ ret[2] + n \in ret[2] .. sent
      BY <1>7, CopyKeepsOrder
    <2>2. rpc = "select" /\ UNCHANGED <<sent, connClosedq, rpc>>
      BY <1>7 DEF ReadCopies, InHand
    <2> QED BY <2>1, <2>2 DEF Promised!StreamReads
  <1> QED BY <1>1, <1>2, <1>3, <1>5, <1>6, <1>7 DEF ConnNext, ConnReads

\* The two ends of an inproc channel connection are a stream, whatever the
\* sizes of the channel and of the slices and however often it is written:
\* every byte is read once and in order, and ErrClosed is returned only after
\* the last byte (channel.go:83, channel_sr.go:47, channel_msr.go:50).
THEOREM ConnIsStream == ConnSpec => ImplementsStream
  <1>1. ConnInit => Promised!StreamInit
    BY DEF ConnInit, Promised!StreamInit
  <1> QED BY <1>1, ConnInvInit, ConnInvStep, ConnStepSimulates, PTL DEF ConnSpec, ImplementsStream, Promised!StreamSpec

-----------------------------------------------------------------------------
(***************************************************************************)
(* How dials and listeners of the in-process transport meet, for every     *)
(* number of dials and listeners and every size of the accept queue.       *)
(***************************************************************************)

\* Close begins with closedq, also for the listener whose Listen it overtakes
Closing == \A l \in Listeners : closePc[l] # "new" => l \in closedq

\* the serve loop begins when Listen has returned
Serving == \A l \in Listeners : servePc[l] # "none" => listenPc[l] = "listening"

AddrInv == InprocTypeOK /\ Closing /\ Serving /\ AddressIsKept

\* Accept, called once Listen has returned, has a dial to answer between its two selects
Notified ==
    \A l \in Listeners :
        /\ servePc[l] = "notify" <=> notified[l] # None
        /\ listenPc[l] # "listening" => servePc[l] = "none"

\* a dial that has looked for a listener and goes on has found one
HasListener == \A d \in Dials : dialPc[d] \in {"found", "queue", "stuck", "wait"} => dialed[d] \in Listeners

\* only the listener that a dial found has it, and only while it waits or after it gave up
Owned ==
    \A d \in Dials, l \in Listeners, k \in 0 .. QueueSize :
        HeldAt(d, l, k) => dialed[d] = l /\ dialPc[d] \in {"wait", "refused"}

\* that listener has it once
Once ==
    \A d \in Dials, l \in Listeners, j \in 0 .. QueueSize, k \in 0 .. QueueSize :
        HeldAt(d, l, j) /\ HeldAt(d, l, k) => j = k

\* and does have it, unless it is closed
Held ==
    \A d \in Dials :
        dialPc[d] = "wait" /\ dialed[d] \notin closedq => \E k \in 0 .. QueueSize : HeldAt(d, dialed[d], k)

MeetInv == InprocTypeOK /\ Notified /\ HasListener /\ Owned /\ Once /\ Held

-----------------------------------------------------------------------------
\* The variables keep their types.
LEMMA InprocTypeStep == InprocTypeOK /\ [InprocNext]_inprocvars => InprocTypeOK'
  <1> SUFFICES ASSUME InprocTypeOK, [InprocNext]_inprocvars PROVE InprocTypeOK'
    OBVIOUS
  <1> USE QueueAssumption DEF InprocTypeOK
  <1>1. ASSUME NEW l \in Listeners, ListenChecks(l) PROVE InprocTypeOK'
    BY <1>1 DEF ListenChecks, dvars
  <1>2. ASSUME NEW l \in Listeners, AddListener(l) PROVE InprocTypeOK'
    BY <1>2 DEF AddListener, dvars
  <1>3. ASSUME NEW l \in Listeners, ListenReturns(l) PROVE InprocTypeOK'
    BY <1>3 DEF ListenReturns, dvars
  <1>4. ASSUME NEW l \in Listeners, CloseListener(l) PROVE InprocTypeOK'
    BY <1>4 DEF CloseListener, dvars
  <1>5. ASSUME NEW l \in Listeners, RemoveListener(l) PROVE InprocTypeOK'
    BY <1>5 DEF RemoveListener, dvars
  <1>6. ASSUME NEW l \in Listeners, AcceptChecks(l) PROVE InprocTypeOK'
    BY <1>6 DEF AcceptChecks, dvars
  <1>7. ASSUME NEW l \in Listeners, ServeWakes(l) PROVE InprocTypeOK'
    BY <1>7 DEF ServeWakes, dvars
  <1>8. ASSUME NEW l \in Listeners, AcceptTakes(l) PROVE InprocTypeOK'
    <2>1. /\ Head(accepts[l]) \in Dials /\ Tail(accepts[l]) \in Seq(Dials)
          /\ Len(Tail(accepts[l])) = Len(accepts[l]) - 1 /\ Len(accepts[l]) \in Nat
      BY <1>8, HeadTailProperties, LenProperties DEF AcceptTakes
    <2> QED BY <1>8, <2>1 DEF AcceptTakes, dvars
  <1>9. ASSUME NEW l \in Listeners, AcceptSeesClosed(l) PROVE InprocTypeOK'
    BY <1>9 DEF AcceptSeesClosed, dvars
  <1>10. ASSUME NEW l \in Listeners, Meet(l) PROVE InprocTypeOK'
    BY <1>10 DEF Meet
  <1>11. ASSUME NEW d \in Dials, DialFinds(d) PROVE InprocTypeOK'
    BY <1>11 DEF DialFinds, lvars
  <1>12. ASSUME NEW d \in Dials, DialSelects(d) PROVE InprocTypeOK'
    BY <1>12 DEF DialSelects, lvars
  <1>13. ASSUME NEW d \in Dials, DialQueues(d) PROVE InprocTypeOK'
    <2>1. /\ accepts' = [accepts EXCEPT ![dialed[d]] = Append(@, d)] /\ Len(accepts[dialed[d]]) < QueueSize
      BY <1>13 DEF DialQueues
    <2>2. accepts' \in [Listeners -> Seq(Dials)] /\ \A l \in Listeners : Len(accepts'[l]) <= QueueSize
      <3>1. ASSUME NEW l \in Listeners PROVE accepts'[l] \in Seq(Dials) /\ Len(accepts'[l]) <= QueueSize
        <4>1. CASE l = dialed[d]
          <5>1. accepts'[l] = Append(accepts[l], d)
            BY <2>1, <4>1
          <5>2. Append(accepts[l], d) \in Seq(Dials) /\ Len(Append(accepts[l], d)) = Len(accepts[l]) + 1
            BY AppendProperties
          <5> QED BY <2>1, <4>1, <5>1, <5>2, LenProperties
        <4>2. CASE l # dialed[d]
          BY <2>1, <4>2
        <4> QED BY <4>1, <4>2
      <3> QED BY <2>1, <3>1
    <2> QED BY <1>13, <2>2 DEF DialQueues
  <1>14. ASSUME NEW d \in Dials, DialRefused(d) PROVE InprocTypeOK'
    BY <1>14 DEF DialRefused, lvars
  <1>15. CASE UNCHANGED inprocvars
    BY <1>15 DEF inprocvars, lvars, dvars
  <1> QED BY <1>1, <1>2, <1>3, <1>4, <1>5, <1>6, <1>7, <1>8, <1>9, <1>10, <1>11, <1>12, <1>13, <1>14, <1>15
          DEF InprocNext, ListenNext, ServeNext, DialNext

\* No step takes the address from an open listener that has it.
LEMMA AddrStep == AddrInv /\ [InprocNext]_inprocvars => Closing' /\ Serving' /\ AddressIsKept'
  <1> DEFINE Kept == Closing /\ Serving /\ AddressIsKept
  <1> SUFFICES ASSUME AddrInv, [InprocNext]_inprocvars PROVE Kept'
    OBVIOUS
  <1> USE NamesAssumption DEF AddrInv, InprocTypeOK, Closing, Serving, AddressIsKept
  <1>1. ASSUME NEW l \in Listeners, ListenChecks(l) PROVE Kept'
    BY <1>1 DEF ListenChecks, dvars
  <1>2. ASSUME NEW l \in Listeners, AddListener(l) PROVE Kept'
    BY <1>2 DEF AddListener, dvars
  <1>3. ASSUME NEW l \in Listeners, ListenReturns(l) PROVE Kept'
    BY <1>3 DEF ListenReturns, dvars
  <1>4. ASSUME NEW l \in Listeners, CloseListener(l) PROVE Kept'
    BY <1>4 DEF CloseListener, dvars
  <1>5. ASSUME NEW l \in Listeners, RemoveListener(l) PROVE Kept'
    BY <1>5 DEF RemoveListener, dvars
  <1>6. ASSUME NEW l \in Listeners, AcceptChecks(l) PROVE Kept'
    BY <1>6 DEF AcceptChecks, IsListening, dvars
  <1>7. ASSUME NEW l \in Listeners, ServeWakes(l) PROVE Kept'
    BY <1>7 DEF ServeWakes, dvars
  <1>8. ASSUME NEW l \in Listeners, AcceptTakes(l) PROVE Kept'
    BY <1>8 DEF AcceptTakes, dvars
  <1>9. ASSUME NEW l \in Listeners, AcceptSeesClosed(l) PROVE Kept'
    BY <1>9 DEF AcceptSeesClosed, dvars
  <1>10. ASSUME NEW l \in Listeners, Meet(l) PROVE Kept'
    BY <1>10 DEF Meet
  <1>11. ASSUME NEW d \in Dials, DialFinds(d) PROVE Kept'
    BY <1>11 DEF DialFinds, lvars
  <1>12. ASSUME NEW d \in Dials, DialSelects(d) PROVE Kept'
    BY <1>12 DEF DialSelects, lvars
  <1>13. ASSUME NEW d \in Dials, DialQueues(d) PROVE Kept'
    BY <1>13 DEF DialQueues
  <1>14. ASSUME NEW d \in Dials, DialRefused(d) PROVE Kept'
    BY <1>14 DEF DialRefused, lvars
  <1>15. CASE UNCHANGED inprocvars
    BY <1>15 DEF inprocvars, lvars, dvars
  <1> QED BY <1>1, <1>2, <1>3, <1>4, <1>5, <1>6, <1>7, <1>8, <1>9, <1>10, <1>11, <1>12, <1>13, <1>14, <1>15
          DEF InprocNext, ListenNext, ServeNext, DialNext

\* Accept has a dial exactly between its selects, and a dial that goes on has
\* its listener.
LEMMA SidesStep == InprocTypeOK /\ Notified /\ HasListener /\ [InprocNext]_inprocvars => Notified' /\ HasListener'
  <1> DEFINE Sides == Notified /\ HasListener
  <1> SUFFICES ASSUME InprocTypeOK, Sides, [InprocNext]_inprocvars PROVE Sides'
    OBVIOUS
  <1> USE NamesAssumption DEF InprocTypeOK, Notified, HasListener
  <1>1. ASSUME NEW l \in Listeners, ListenChecks(l) PROVE Sides'
    BY <1>1 DEF ListenChecks, dvars
  <1>2. ASSUME NEW l \in Listeners, AddListener(l) PROVE Sides'
    BY <1>2 DEF AddListener, dvars
  <1>3. ASSUME NEW l \in Listeners, ListenReturns(l) PROVE Sides'
    BY <1>3 DEF ListenReturns, dvars
  <1>4. ASSUME NEW l \in Listeners, CloseListener(l) PROVE Sides'
    BY <1>4 DEF CloseListener, dvars
  <1>5. ASSUME NEW l \in Listeners, RemoveListener(l) PROVE Sides'
    BY <1>5 DEF RemoveListener, dvars
  <1>6. ASSUME NEW l \in Listeners, AcceptChecks(l) PROVE Sides'
    BY <1>6 DEF AcceptChecks, dvars
  <1>7. ASSUME NEW l \in Listeners, ServeWakes(l) PROVE Sides'
    BY <1>7 DEF ServeWakes, dvars
  <1>8. ASSUME NEW l \in Listeners, AcceptTakes(l) PROVE Sides'
    <2>1. Head(accepts[l]) \in Dials
      BY <1>8, HeadTailProperties DEF AcceptTakes
    <2> QED BY <1>8, <2>1 DEF AcceptTakes, dvars
  <1>9. ASSUME NEW l \in Listeners, AcceptSeesClosed(l) PROVE Sides'
    BY <1>9 DEF AcceptSeesClosed, dvars
  <1>10. ASSUME NEW l \in Listeners, Meet(l) PROVE Sides'
    BY <1>10 DEF Meet
  <1>11. ASSUME NEW d \in Dials, DialFinds(d) PROVE Sides'
    BY <1>11 DEF DialFinds, lvars
  <1>12. ASSUME NEW d \in Dials, DialSelects(d) PROVE Sides'
    BY <1>12 DEF DialSelects, lvars
  <1>13. ASSUME NEW d \in Dials, DialQueues(d) PROVE Sides'
    BY <1>13 DEF DialQueues
  <1>14. ASSUME NEW d \in Dials, DialRefused(d) PROVE Sides'
    BY <1>14 DEF DialRefused, lvars
  <1>15. CASE UNCHANGED inprocvars
    BY <1>15 DEF inprocvars, lvars, dvars
  <1> QED BY <1>1, <1>2, <1>3, <1>4, <1>5, <1>6, <1>7, <1>8, <1>9, <1>10, <1>11, <1>12, <1>13, <1>14, <1>15
          DEF InprocNext, ListenNext, ServeNext, DialNext

\* A dial that waits for nobody goes on, or one that waits gives up: every
\* listener holds what it held.
LEMMA DialKeepsPlaces ==
    ASSUME MeetInv, NEW d \in Dials, UNCHANGED <<accepts, notified, closedq>>, dialPc'[d] # "wait",
           dialPc[d] \notin {"wait", "refused"} \/ (dialPc'[d] = "refused" /\ dialed'[d] = dialed[d]),
           \A e \in Dials \ {d} : dialPc'[e] = dialPc[e] /\ dialed'[e] = dialed[e]
    PROVE  Owned' /\ Once' /\ Held'
  <1>1. \A e, l, k : HeldAt(e, l, k)' <=> HeldAt(e, l, k)
    BY DEF HeldAt
  <1>2. Owned /\ Once /\ Held
    BY DEF MeetInv
  <1>3. Owned'
    <2> SUFFICES ASSUME NEW e \in Dials, NEW l \in Listeners, NEW k \in 0 .. QueueSize, HeldAt(e, l, k)'
                 PROVE  dialed'[e] = l /\ dialPc'[e] \in {"wait", "refused"}
      BY DEF Owned
    <2>1. dialed[e] = l /\ dialPc[e] \in {"wait", "refused"}
      BY <1>1, <1>2 DEF Owned
    <2> QED BY <2>1
  <1>4. Once'
    BY <1>1, <1>2 DEF Once
  <1>5. Held'
    <2> SUFFICES ASSUME NEW e \in Dials, dialPc'[e] = "wait", dialed'[e] \notin closedq'
                 PROVE  (\E k \in 0 .. QueueSize : HeldAt(e, dialed[e], k))'
      BY DEF Held
    <2>1. e # d
      OBVIOUS
    <2>2. dialPc[e] = "wait" /\ dialed'[e] = dialed[e] /\ dialed[e] \notin closedq
      BY <2>1
    <2>3. PICK k \in 0 .. QueueSize : HeldAt(e, dialed[e], k)
      BY <1>2, <2>2 DEF Held
    <2>4. (HeldAt(e, dialed[e], k))'
      BY <2>2, <2>3 DEF HeldAt
    <2> QED BY <2>4
  <1> QED BY <1>3, <1>4, <1>5

\* No step puts a dial into a second place or loses one that waits.
LEMMA PlaceStep == MeetInv /\ [InprocNext]_inprocvars => Owned' /\ Once' /\ Held'
  <1> DEFINE Places == Owned /\ Once /\ Held
  <1> SUFFICES ASSUME MeetInv, [InprocNext]_inprocvars PROVE Places'
    OBVIOUS
  <1>0. ASSUME UNCHANGED <<accepts, notified, dialPc, dialed, closedq>> PROVE Places'
    BY <1>0 DEF MeetInv, Owned, Once, Held, HeldAt
  <1> USE QueueAssumption, NamesAssumption DEF MeetInv, InprocTypeOK, Notified, HasListener, Owned, Once, Held
  <1>1. ASSUME NEW l \in Listeners, ListenChecks(l) PROVE Places'
    BY <1>0, <1>1 DEF ListenChecks, dvars
  <1>2. ASSUME NEW l \in Listeners, AddListener(l) PROVE Places'
    BY <1>0, <1>2 DEF AddListener, dvars
  <1>3. ASSUME NEW l \in Listeners, ListenReturns(l) PROVE Places'
    BY <1>0, <1>3 DEF ListenReturns, dvars
  <1>4. ASSUME NEW l \in Listeners, CloseListener(l) PROVE Places'
    <2>1. \A d \in Dials, m \in Listeners, k \in 0 .. QueueSize : HeldAt(d, m, k)' <=> HeldAt(d, m, k)
      BY <1>4 DEF CloseListener, HeldAt
    <2> QED BY <1>4, <2>1 DEF CloseListener, dvars
  <1>5. ASSUME NEW l \in Listeners, RemoveListener(l) PROVE Places'
    BY <1>0, <1>5 DEF RemoveListener, dvars
  <1>6. ASSUME NEW l \in Listeners, AcceptChecks(l) PROVE Places'
    BY <1>0, <1>6 DEF AcceptChecks, dvars
  <1>7. ASSUME NEW l \in Listeners, ServeWakes(l) PROVE Places'
    BY <1>0, <1>7 DEF ServeWakes, dvars
  <1>8. ASSUME NEW l \in Listeners, AcceptTakes(l) PROVE Places'
    <2>1. /\ accepts' = [accepts EXCEPT ![l] = Tail(@)] /\ notified' = [notified EXCEPT ![l] = Head(accepts[l])]
          /\ accepts[l] # <<>> /\ notified[l] = None /\ UNCHANGED <<dialPc, dialed, closedq>>
      BY <1>8 DEF AcceptTakes, dvars
    <2>2. /\ Head(accepts[l]) = accepts[l][1] /\ Len(accepts[l]) \in Nat \ {0}
          /\ Len(Tail(accepts[l])) = Len(accepts[l]) - 1
          /\ \A k \in 1 .. Len(accepts[l]) - 1 : Tail(accepts[l])[k] = accepts[l][k + 1]
      BY <2>1, HeadTailProperties, EmptySeq, LenProperties
    <2>3. \A d \in Dials, k \in 0 .. QueueSize :
            HeldAt(d, l, k)' <=> k + 1 <= QueueSize /\ HeldAt(d, l, k + 1)
      BY <2>1, <2>2 DEF HeldAt
    <2>4. \A d \in Dials, m \in Listeners \ {l}, k \in 0 .. QueueSize : HeldAt(d, m, k)' <=> HeldAt(d, m, k)
      BY <2>1 DEF HeldAt
    <2>5. \A d \in Dials : ~HeldAt(d, l, 0)
      BY <2>1 DEF HeldAt
    <2>6. Owned' /\ Once'
      <3>1. ASSUME NEW d \in Dials, NEW m \in Listeners, NEW k \in 0 .. QueueSize, HeldAt(d, m, k)'
            PROVE  dialed[d] = m /\ dialPc[d] \in {"wait", "refused"}
        <4>1. CASE m = l
          <5>1. k + 1 \in 0 .. QueueSize /\ HeldAt(d, l, k + 1)
            BY <2>3, <3>1, <4>1
          <5> QED BY <4>1, <5>1
        <4>2. CASE m # l
          BY <2>4, <3>1, <4>2
        <4> QED BY <4>1, <4>2
      <3>2. ASSUME NEW d \in Dials, NEW m \in Listeners, NEW j \in 0 .. QueueSize, NEW k \in 0 .. QueueSize,
                   HeldAt(d, m, j)', HeldAt(d, m, k)'
            PROVE  j = k
        <4>1. CASE m = l
          <5>1. /\ j + 1 \in 0 .. QueueSize /\ HeldAt(d, l, j + 1)
                /\ k + 1 \in 0 .. QueueSize /\ HeldAt(d, l, k + 1)
            BY <2>3, <3>2, <4>1
          <5>2. j + 1 = k + 1
            BY <5>1
          <5> QED BY <5>2
        <4>2. CASE m # l
          BY <2>4, <3>2, <4>2
        <4> QED BY <4>1, <4>2
      <3> QED BY <2>1, <3>1, <3>2
    <2>7. Held'
      <3> SUFFICES ASSUME NEW d \in Dials, dialPc[d] = "wait", dialed[d] \notin closedq
                   PROVE \E k \in 0 .. QueueSize : HeldAt(d, dialed[d], k)'
        BY <2>1
      <3>1. PICK k \in 0 .. QueueSize : HeldAt(d, dialed[d], k)
        OBVIOUS
      <3>2. CASE dialed[d] = l
        <4>1. k - 1 \in 0 .. QueueSize /\ (k - 1) + 1 = k
          BY <2>5, <3>1, <3>2
        <4>2. HeldAt(d, l, k - 1)'
          <5>1. HeldAt(d, l, (k - 1) + 1)
            BY <3>1, <3>2, <4>1
          <5> QED BY <2>3, <4>1, <5>1
        <4> QED BY <3>2, <4>1, <4>2, <2>1
      <3>3. CASE dialed[d] # l
        BY <2>1, <2>4, <3>1, <3>3
      <3> QED BY <3>2, <3>3
    <2> QED BY <2>6, <2>7
  <1>9. ASSUME NEW l \in Listeners, AcceptSeesClosed(l) PROVE Places'
    <2>1. notified' = [notified EXCEPT ![l] = None] /\ UNCHANGED <<accepts, dialPc, dialed, closedq>> /\ l \in closedq
      BY <1>9 DEF AcceptSeesClosed, dvars
    <2>2. \A d \in Dials, m \in Listeners, k \in 0 .. QueueSize :
            HeldAt(d, m, k)' <=> HeldAt(d, m, k) /\ ~(m = l /\ k = 0)
      BY <2>1 DEF HeldAt
    <2> QED BY <2>1, <2>2
  <1>10. ASSUME NEW l \in Listeners, Meet(l) PROVE Places'
    <2> DEFINE e == notified[l]
    <2>1. /\ notified' = [notified EXCEPT ![l] = None] /\ UNCHANGED <<accepts, dialed, closedq>>
          /\ dialPc' = [dialPc EXCEPT ![e] = "conn"] /\ e \in Dials
      BY <1>10 DEF Meet
    <2>2. \A d \in Dials, m \in Listeners, k \in 0 .. QueueSize :
            HeldAt(d, m, k)' <=> HeldAt(d, m, k) /\ ~(m = l /\ k = 0)
      BY <2>1 DEF HeldAt
    <2>3. HeldAt(e, l, 0)
      BY DEF HeldAt
    <2>4. \A d \in Dials : HeldAt(d, l, 0) => d = e
      BY DEF HeldAt
    <2>5. \A m \in Listeners, k \in 0 .. QueueSize : HeldAt(e, m, k) => m = l /\ k = 0
      BY <2>1, <2>3
    <2> HIDE DEF e
    <2>6. Owned' /\ Once'
      BY <2>1, <2>2, <2>5
    <2>7. Held'
      BY <2>1, <2>2, <2>4
    <2> QED BY <2>6, <2>7
  <1>11. ASSUME NEW d \in Dials, DialFinds(d) PROVE Places'
    <2>1. /\ UNCHANGED <<accepts, notified, closedq>> /\ dialPc[d] = "new" /\ dialPc'[d] # "wait"
          /\ \A e \in Dials \ {d} : dialPc'[e] = dialPc[e] /\ dialed'[e] = dialed[e]
      BY <1>11 DEF DialFinds, lvars
    <2> QED BY <2>1, DialKeepsPlaces
  <1>12. ASSUME NEW d \in Dials, DialSelects(d) PROVE Places'
    <2>1. /\ UNCHANGED <<accepts, notified, closedq>> /\ dialPc[d] = "found" /\ dialPc'[d] # "wait"
          /\ \A e \in Dials \ {d} : dialPc'[e] = dialPc[e] /\ dialed'[e] = dialed[e]
      BY <1>12 DEF DialSelects, lvars
    <2> QED BY <2>1, DialKeepsPlaces
  <1>13. ASSUME NEW d \in Dials, DialQueues(d) PROVE Places'
    <2> PICK l \in Listeners : l = dialed[d]
      BY <1>13 DEF DialQueues
    <2> PICK n \in 1 .. QueueSize : n = Len(accepts[l]) + 1
      BY <1>13, LenProperties DEF DialQueues
    <2>1. /\ accepts' = [accepts EXCEPT ![l] = Append(@, d)] /\ dialPc' = [dialPc EXCEPT ![d] = "wait"]
          /\ UNCHANGED <<notified, dialed, closedq>> /\ dialPc[d] = "queue"
      BY <1>13 DEF DialQueues
    <2>2. /\ accepts'[l] = Append(accepts[l], d) /\ Len(Append(accepts[l], d)) = n
          /\ Append(accepts[l], d)[n] = d /\ \A k \in 1 .. Len(accepts[l]) : Append(accepts[l], d)[k] = accepts[l][k]
      BY <2>1, AppendProperties
    <2>3. \A e \in Dials, k \in 0 .. QueueSize : HeldAt(e, l, k)' <=> HeldAt(e, l, k) \/ (e = d /\ k = n)
      BY <2>1, <2>2 DEF HeldAt
    <2>4. \A e \in Dials, m \in Listeners \ {l}, k \in 0 .. QueueSize : HeldAt(e, m, k)' <=> HeldAt(e, m, k)
      BY <2>1 DEF HeldAt
    <2>5. \A m \in Listeners, k \in 0 .. QueueSize : ~HeldAt(d, m, k)
      BY <2>1
    <2>6. dialed[d] = l
      OBVIOUS
    <2>7. Owned' /\ Once'
      <3>1. \A e \in Dials, m \in Listeners, k \in 0 .. QueueSize :
              HeldAt(e, m, k)' <=> HeldAt(e, m, k) \/ (e = d /\ m = l /\ k = n)
        BY <2>3, <2>4
      <3>2. \A e \in Dials : dialPc'[e] = IF e = d THEN "wait" ELSE dialPc[e]
        BY <2>1
      <3>3. Owned'
        BY <2>1, <2>6, <3>1, <3>2 DEF Owned
      <3>4. Once'
        <4> SUFFICES ASSUME NEW e \in Dials, NEW m \in Listeners, NEW j \in 0 .. QueueSize, NEW k \in 0 .. QueueSize,
                            HeldAt(e, m, j)', HeldAt(e, m, k)'
                     PROVE  j = k
          BY DEF Once
        <4>1. CASE e = d
          BY <2>5, <3>1, <4>1
        <4>2. CASE e # d
          BY <3>1, <4>2 DEF Once
        <4> QED BY <4>1, <4>2
      <3> QED BY <3>3, <3>4
    <2>8. Held'
      <3> SUFFICES ASSUME NEW e \in Dials, dialPc'[e] = "wait", dialed[e] \notin closedq
                   PROVE \E k \in 0 .. QueueSize : HeldAt(e, dialed[e], k)'
        BY <2>1
      <3>1. CASE e = d
        <4>1. n \in 0 .. QueueSize /\ HeldAt(d, l, n)'
          BY <2>1, <2>3
        <4> QED BY <2>1, <2>6, <3>1, <4>1
      <3>2. CASE e # d
        <4>1. dialPc[e] = "wait"
          BY <2>1, <3>2
        <4>2. PICK m \in Listeners : m = dialed[e]
          BY <4>1
        <4>3. PICK k \in 0 .. QueueSize : HeldAt(e, m, k)
          BY <4>1, <4>2
        <4>4. HeldAt(e, m, k)'
          BY <2>3, <2>4, <4>2, <4>3
        <4> QED BY <2>1, <4>2, <4>4
      <3> QED BY <3>1, <3>2
    <2> QED BY <2>7, <2>8
  <1>14. ASSUME NEW d \in Dials, DialRefused(d) PROVE Places'
    <2>1. /\ UNCHANGED <<accepts, notified, closedq>> /\ dialPc'[d] = "refused" /\ dialed'[d] = dialed[d]
          /\ \A e \in Dials \ {d} : dialPc'[e] = dialPc[e] /\ dialed'[e] = dialed[e]
      BY <1>14 DEF DialRefused, lvars
    <2> QED BY <2>1, DialKeepsPlaces
  <1>15. CASE UNCHANGED inprocvars
    BY <1>0, <1>15 DEF inprocvars, lvars, dvars
  <1> QED BY <1>1, <1>2, <1>3, <1>4, <1>5, <1>6, <1>7, <1>8, <1>9, <1>10, <1>11, <1>12, <1>13, <1>14, <1>15
          DEF InprocNext, ListenNext, ServeNext, DialNext

-----------------------------------------------------------------------------
\* The invariants hold when nothing has been called.
LEMMA InprocInitInv == InprocInit => AddrInv /\ MeetInv
  <1> SUFFICES ASSUME InprocInit PROVE AddrInv /\ MeetInv
    OBVIOUS
  <1> USE QueueAssumption, NamesAssumption DEF InprocInit
  <1>1. InprocTypeOK
    BY EmptySeq DEF InprocTypeOK
  <1>2. \A d \in Dials, l \in Listeners, k \in 0 .. QueueSize : ~HeldAt(d, l, k)
    BY EmptySeq DEF HeldAt
  <1>3. Closing /\ Serving /\ AddressIsKept
    BY DEF Closing, Serving, AddressIsKept
  <1>4. Notified /\ HasListener
    BY DEF Notified, HasListener
  <1>5. Owned /\ Once /\ Held
    BY <1>2 DEF Owned, Once, Held
  <1> QED BY <1>1, <1>3, <1>4, <1>5 DEF AddrInv, MeetInv

\* The places where a dial is held are no more than one, and one while it
\* waits for a listener that is open.
LEMMA PlacesCounted == MeetInv => WaitsInOnePlace
  <1> SUFFICES ASSUME MeetInv, NEW d \in Dials
               PROVE  LET places == {p \in Listeners \X (0 .. QueueSize) : HeldAt(d, p[1], p[2])}
                      IN  /\ Cardinality(places) <= 1
                          /\ dialPc[d] = "wait" /\ dialed[d] \notin closedq => Cardinality(places) = 1
    BY DEF WaitsInOnePlace
  <1> DEFINE places == {p \in Listeners \X (0 .. QueueSize) : HeldAt(d, p[1], p[2])}
  <1>1. ASSUME NEW p \in places, NEW q \in places PROVE p = q
    <2>1. p[1] = dialed[d] /\ q[1] = dialed[d]
      BY <1>1 DEF MeetInv, Owned
    <2>2. p[2] = q[2]
      BY <1>1, <2>1 DEF MeetInv, Once
    <2>3. p = <<p[1], p[2]>> /\ q = <<q[1], q[2]>>
      BY <1>1
    <2> QED BY <2>1, <2>2, <2>3
  <1>2. places = {} \/ \E p \in places : places = {p}
    BY <1>1
  <1>3. Cardinality(places) <= 1
    <2> HIDE DEF places
    <2>1. CASE places = {}
      <3>1. Cardinality(places) = 0
        BY <2>1, FS_EmptySet, Zenon
      <3> QED BY <3>1
    <2>2. CASE \E p \in places : places = {p}
      BY <2>2, FS_Singleton
    <2> QED BY <1>2, <2>1, <2>2
  <1>4. ASSUME dialPc[d] = "wait", dialed[d] \notin closedq PROVE Cardinality(places) = 1
    <2>1. PICK k \in 0 .. QueueSize : HeldAt(d, dialed[d], k)
      BY <1>4 DEF MeetInv, Held
    <2>2. dialed[d] \in Listeners
      BY <1>4 DEF MeetInv, HasListener
    <2>3. <<dialed[d], k>> \in places
      BY <2>1, <2>2
    <2>4. \E p \in places : places = {p}
      BY <1>2, <2>3
    <2> QED BY <2>4, FS_Singleton
  <1> QED BY <1>3, <1>4

\* However many listeners share an address, however many dials come and
\* however long the queue is, the listener that has got the address keeps it
\* until its own Close, and its serve loop never finds that it does not listen
\* (inproc.go:105, inproc.go:164, inproc.go:183).
THEOREM AddressStays == InprocSpec => []AddressIsKept
  <1>1. InprocInit => AddrInv
    BY InprocInitInv
  <1>2. AddrInv /\ [InprocNext]_inprocvars => AddrInv'
    BY InprocTypeStep, AddrStep DEF AddrInv
  <1>3. AddrInv => AddressIsKept
    BY DEF AddrInv
  <1> QED BY <1>1, <1>2, <1>3, PTL DEF InprocSpec

\* ... and a dial is held by at most one listener, once, and by exactly one
\* while it waits for a listener that is open: none is answered twice and none
\* is forgotten (inproc.go:72, inproc.go:110).
THEOREM DialIsHeldOnce == InprocSpec => []WaitsInOnePlace
  <1>1. InprocInit => MeetInv
    BY InprocInitInv
  <1>2. MeetInv /\ [InprocNext]_inprocvars => MeetInv'
    BY InprocTypeStep, SidesStep, PlaceStep DEF MeetInv
  <1>3. MeetInv => WaitsInOnePlace
    BY PlacesCounted
  <1> QED BY <1>1, <1>2, <1>3, PTL DEF InprocSpec

-----------------------------------------------------------------------------
(***************************************************************************)
(* For every set of pipes and every size of the id space, the pipes that   *)
(* have not given their ids back have distinct ids, and the maps keyed by  *)
(* id hold the right pipes.  Neither fact is inductive alone: NextID       *)
(* avoids the ids in g.ids, so the proof needs that g.ids holds the id of  *)
(* every such pipe, and deleting an id from g.ids is safe only because no  *)
(* other pipe has it.                                                      *)
(***************************************************************************)

\* a pipe has an id from the time it is made
HasIDOnceMade == \A p \in Pipes : phase[p] = "none" <=> pid[p] = 0

\* a pipe is in c.pipes already while the handler is called for it
InMapWhileAdding == \A p \in Pipes : phase[p] = "adding" /\ ~cclosed => cpipes[pid[p]] = p

IInv ==
    /\ TypeOK
    /\ HasIDOnceMade
    /\ InMapWhileAdding
    /\ ~sclosed => handler
    /\ UniqueIDs
    /\ MapsHoldTheirPipes
    /\ IdsInUseAreHeld

\* The remainder of g.next by the size of the id space is an id or 0.
LEMMA IDAtType ==
    ASSUME TypeOK, NEW k \in Nat
    PROVE  IDAt(k) \in 0 .. (IDSpace - 1)
  BY IDSpaceAssumption DEF TypeOK, IDAt

\* What a completed NextID call gives: an id that was not in use.
LEMMA NextIDFresh ==
    ASSUME TypeOK, NEW p \in Pipes, NextID(p)
    PROVE  \E n \in IDs : /\ n \notin ids
                          /\ ids' = ids \cup {n}
                          /\ pid' = [pid EXCEPT ![p] = n]
  <1>1. PICK k \in 0 .. (IDSpace - 1) :
               /\ Usable(IDAt(k))
               /\ pid' = [pid EXCEPT ![p] = IDAt(k)]
               /\ ids' = ids \cup {IDAt(k)}
    BY DEF NextID
  <1>2. IDAt(k) \in 0 .. (IDSpace - 1)
    BY IDAtType, IDSpaceAssumption
  <1>3. IDAt(k) \in IDs /\ IDAt(k) \notin ids
    BY <1>1, <1>2, IDSpaceAssumption DEF Usable, IDs
  <1> QED
    BY <1>1, <1>3

\* NextID leaves the counter in its range.
LEMMA NextIDCounter ==
    ASSUME TypeOK, NEW p \in Pipes, NextID(p)
    PROVE  next' \in 0 .. (2 * IDSpace - 1)
  <1>1. PICK k \in 0 .. (IDSpace - 1) : next' = (next + k + 1) % (2 * IDSpace)
    BY DEF NextID
  <1> QED
    BY <1>1, IDSpaceAssumption DEF TypeOK

-----------------------------------------------------------------------------

\* The initial state, before any pipe exists, satisfies the invariant.
LEMMA InitInv == Init => IInv
  <1> SUFFICES ASSUME Init PROVE IInv
    OBVIOUS
  <1>1. TypeOK
    <2>1. 0 \in 0 .. (2 * IDSpace - 1)
      BY IDSpaceAssumption
    <2>2. ids \in SUBSET IDs /\ pid \in [Pipes -> IDs \cup {0}]
      BY DEF Init
    <2>3. cpipes \in [IDs -> Pipes \cup {NoPipe}] /\ spipes \in [IDs -> Pipes \cup {NoPipe}]
      BY DEF Init
    <2>4. phase \in [Pipes -> Phases]
      BY DEF Init, Phases
    <2>5. workers \in [Pipes -> 0 .. 2]
      <3>1. 0 \in 0 .. 2
        OBVIOUS
      <3> QED BY <3>1 DEF Init
    <2> QED
      BY <2>1, <2>2, <2>3, <2>4, <2>5 DEF Init, TypeOK
  <1>2. HasIDOnceMade /\ InMapWhileAdding /\ MapsHoldTheirPipes /\ (~sclosed => handler)
    BY DEF Init, HasIDOnceMade, InMapWhileAdding, MapsHoldTheirPipes
  <1>3. Holding = {}
    BY DEF Init, Holding
  <1>4. UniqueIDs /\ IdsInUseAreHeld
    BY <1>3 DEF Init, UniqueIDs, IdsInUseAreHeld
  <1> QED
    BY <1>1, <1>2, <1>4 DEF IInv

\* newPipe preserves the invariant: the id it takes belongs to no pipe that has
\* not given its own back, and no map refers to the object.
LEMMA NewPipeInv ==
    ASSUME IInv, NEW p \in Pipes, NewPipe(p)
    PROVE  IInv'
  <1> USE DEF IInv
  <1>1. PICK n \in IDs : /\ n \notin ids
                         /\ ids' = ids \cup {n}
                         /\ pid' = [pid EXCEPT ![p] = n]
    BY NextIDFresh DEF NewPipe
  <1>2. next' \in 0 .. (2 * IDSpace - 1)
    BY NextIDCounter DEF NewPipe
  <1>3. /\ phase[p] \in {"none", "done"}
        /\ phase' = [phase EXCEPT ![p] = "new"]
        /\ UNCHANGED <<hung, cpipes, spipes, closevars, workers>>
        /\ ~hung
    BY DEF NewPipe, NextID, Garbage
  <1>4. \A q \in Holding : pid[q] # n
    BY <1>1 DEF IdsInUseAreHeld
  <1>5. n # 0
    BY DEF IDs
  <1>6. Holding' = Holding \cup {p} /\ p \notin Holding
    BY <1>3 DEF TypeOK, Holding
  <1>7. \A k \in IDs : cpipes[k] # p /\ spipes[k] # p
    <2> TAKE k \in IDs
    <2>1. cpipes[k] # p
      BY <1>3, NoPipeAssumption DEF MapsHoldTheirPipes
    <2>2. CASE phase[p] = "none"
      <3>1. pid[p] = 0 /\ k # 0
        BY <2>2 DEF HasIDOnceMade, IDs
      <3> QED BY <2>1, <3>1, NoPipeAssumption DEF MapsHoldTheirPipes
    <2>3. CASE phase[p] # "none"
      BY <2>1, <2>3 DEF NewPipe, Garbage
    <2> QED BY <2>2, <2>3
  <1>8. TypeOK'
    BY <1>1, <1>2, <1>3 DEF TypeOK, Phases, closevars
  <1>9. HasIDOnceMade' /\ InMapWhileAdding' /\ (~sclosed' => handler')
    BY <1>1, <1>3, <1>5 DEF TypeOK, HasIDOnceMade, InMapWhileAdding, closevars
  <1>10. UniqueIDs'
    BY <1>1, <1>4, <1>6 DEF TypeOK, UniqueIDs, Holding
  <1>11. MapsHoldTheirPipes'
    BY <1>1, <1>3, <1>7, NoPipeAssumption DEF TypeOK, MapsHoldTheirPipes, closevars
  <1>12. IdsInUseAreHeld'
    BY <1>1, <1>3, <1>6 DEF TypeOK, IdsInUseAreHeld, Holding
  <1> QED
    BY <1>8, <1>9, <1>10, <1>11, <1>12

\* The end of pipe.Close preserves the invariant: nobody else has the id.
LEMMA RecycleInv ==
    ASSUME IInv, NEW p \in Pipes, Recycle(p)
    PROVE  IInv'
  <1> USE DEF IInv
  <1>1. /\ phase[p] = "removed" /\ phase' = [phase EXCEPT ![p] = "done"] /\ ids' = ids \ {pid[p]} /\ ~hung
        /\ UNCHANGED <<next, hung, pid, cpipes, spipes, handler, sclosed, cclosed, workers>>
    BY DEF Recycle, closevars
  <1>2. Holding' = Holding \ {p} /\ p \in Holding
    BY <1>1 DEF TypeOK, Holding
  <1>3. TypeOK'
    BY <1>1 DEF TypeOK, Phases
  <1>4. HasIDOnceMade' /\ InMapWhileAdding' /\ (~sclosed' => handler')
    BY <1>1 DEF TypeOK, HasIDOnceMade, InMapWhileAdding
  <1>5. UniqueIDs'
    BY <1>1, <1>2 DEF UniqueIDs
  <1>6. MapsHoldTheirPipes'
    BY <1>1, NoPipeAssumption DEF TypeOK, MapsHoldTheirPipes
  <1>7. IdsInUseAreHeld'
    BY <1>1, <1>2 DEF IdsInUseAreHeld, UniqueIDs
  <1> QED
    BY <1>3, <1>4, <1>5, <1>6, <1>7

\* What the steps of a pipe that keeps its id have in common: they move it
\* through its life and leave the generator alone.
LifeStep(p) ==
    /\ phase[p] \notin {"none", "done"}
    /\ \E ph \in Phases \ {"none", "done"} : phase' = [phase EXCEPT ![p] = ph]
    /\ UNCHANGED <<next, ids, hung, pid, handler, sclosed, cclosed>>

\* Such a step keeps what is said of ids alone.
LEMMA LifeStepKeeps ==
    ASSUME IInv, NEW p \in Pipes, LifeStep(p)
    PROVE  /\ pid[p] \in IDs /\ \A q \in Pipes : q # p /\ phase[q] \notin {"none", "done"} => pid[q] # pid[p]
           /\ phase' \in [Pipes -> Phases]
           /\ HasIDOnceMade' /\ UniqueIDs' /\ IdsInUseAreHeld' /\ (~sclosed' => handler')
  <1> USE DEF IInv, LifeStep
  <1>1. Holding' = Holding /\ p \in Holding
    BY DEF TypeOK, Holding
  <1>2. pid[p] \in IDs /\ \A q \in Pipes : q # p /\ phase[q] \notin {"none", "done"} => pid[q] # pid[p]
    BY <1>1 DEF TypeOK, HasIDOnceMade, UniqueIDs, Holding
  <1>3. HasIDOnceMade' /\ phase' \in [Pipes -> Phases]
    BY DEF TypeOK, HasIDOnceMade
  <1>4. UniqueIDs' /\ IdsInUseAreHeld'
    BY <1>1 DEF UniqueIDs, IdsInUseAreHeld
  <1> QED
    BY <1>2, <1>3, <1>4

\* The steps of a pipe that keeps its id preserve the invariant: they touch
\* only the map entries under that id.
LEMMA LifeStepInv ==
    ASSUME IInv, NEW p \in Pipes,
           \/ NegotiateFails(p) \/ AddPipe(p) \/ SocketAddPipe(p) \/ DropPipe(p)
           \/ Close(p) \/ RemPipe(p) \/ SocketRemPipe(p)
    PROVE  IInv'
  <1> USE DEF IInv
  <1>1. CASE NegotiateFails(p) \/ DropPipe(p) \/ Close(p)
    <2>1. /\ UNCHANGED <<cpipes, spipes, workers, handler, sclosed, cclosed, pid>>
          /\ \/ phase[p] = "new" /\ \E ph \in {"leaked", "dropped"} : phase' = [phase EXCEPT ![p] = ph]
             \/ phase[p] \in {"added", "dropped"} /\ phase' = [phase EXCEPT ![p] = "closing"]
      BY <1>1 DEF NegotiateFails, DropPipe, Close, closevars
    <2>2. LifeStep(p)
      BY <1>1 DEF NegotiateFails, DropPipe, Close, closevars, LifeStep, Phases
    <2>3. InMapWhileAdding'
      BY <2>1 DEF TypeOK, InMapWhileAdding
    <2>4. MapsHoldTheirPipes'
      BY <2>1, NoPipeAssumption DEF TypeOK, MapsHoldTheirPipes
    <2>5. TypeOK'
      BY <1>1, <2>1, <2>2, LifeStepKeeps DEF TypeOK, LifeStep
    <2> QED BY <2>2, <2>3, <2>4, <2>5, LifeStepKeeps
  <1>2. CASE AddPipe(p)
    <2>1. /\ phase[p] = "new" /\ phase' = [phase EXCEPT ![p] = IF handler THEN "adding" ELSE "added"]
          /\ cpipes' = [cpipes EXCEPT ![pid[p]] = p] /\ ~cclosed
          /\ UNCHANGED <<spipes, workers, handler, sclosed, cclosed, pid>>
      BY <1>2 DEF AddPipe, closevars
    <2>2. LifeStep(p)
      BY <1>2 DEF AddPipe, closevars, LifeStep, Phases
    <2>6. /\ pid[p] \in IDs /\ phase' \in [Pipes -> Phases]
          /\ \A q \in Pipes : q # p /\ phase[q] \notin {"none", "done"} => pid[q] # pid[p]
      BY <2>2, LifeStepKeeps
    <2>3. InMapWhileAdding'
      BY <2>1, <2>6 DEF TypeOK, InMapWhileAdding
    <2>4. MapsHoldTheirPipes'
      <3>1. ASSUME NEW q \in Pipes, phase'[q] = "added"
            PROVE  (~cclosed' => cpipes'[pid'[q]] = q) /\ (~sclosed' => spipes'[pid'[q]] = q)
        <4>1. CASE q = p
          BY <2>1, <2>6, <3>1, <4>1 DEF TypeOK
        <4>2. CASE q # p
          <5>1. phase[q] = "added" /\ pid[q] # pid[p]
            BY <2>1, <2>6, <3>1, <4>2 DEF TypeOK
          <5> QED BY <2>1, <5>1 DEF TypeOK, MapsHoldTheirPipes
        <4> QED BY <4>1, <4>2
      <3>2. ASSUME NEW k \in IDs
            PROVE  /\ cpipes'[k] # NoPipe => pid'[cpipes'[k]] = k /\ phase'[cpipes'[k]] \in {"adding", "added", "closing"}
                   /\ spipes'[k] # NoPipe => pid'[spipes'[k]] = k
                   /\ spipes'[k] # NoPipe /\ handler' => phase'[spipes'[k]] \in {"added", "closing", "removing"}
        BY <2>1, <2>6, NoPipeAssumption DEF TypeOK, MapsHoldTheirPipes
      <3> QED BY <3>1, <3>2 DEF MapsHoldTheirPipes
    <2>5. TypeOK'
      BY <2>1, <2>2, <2>6 DEF TypeOK, LifeStep
    <2> QED BY <2>2, <2>3, <2>4, <2>5, LifeStepKeeps
  <1>3. CASE SocketAddPipe(p)
    <2>1. /\ phase[p] = "adding" /\ phase' = [phase EXCEPT ![p] = "added"]
          /\ spipes' = [spipes EXCEPT ![pid[p]] = p] /\ workers' = [workers EXCEPT ![p] = 2]
          /\ UNCHANGED <<cpipes, handler, sclosed, cclosed, pid>>
      BY <1>3 DEF SocketAddPipe, closevars
    <2>2. LifeStep(p)
      BY <1>3 DEF SocketAddPipe, closevars, LifeStep, Phases
    <2>6. /\ pid[p] \in IDs /\ phase' \in [Pipes -> Phases]
          /\ \A q \in Pipes : q # p /\ phase[q] \notin {"none", "done"} => pid[q] # pid[p]
      BY <2>2, LifeStepKeeps
    <2>3. InMapWhileAdding'
      BY <2>1 DEF TypeOK, InMapWhileAdding
    <2>4. MapsHoldTheirPipes'
      <3>1. ASSUME NEW q \in Pipes, phase'[q] = "added"
            PROVE  (~cclosed' => cpipes'[pid'[q]] = q) /\ (~sclosed' => spipes'[pid'[q]] = q)
        <4>1. CASE q = p
          BY <2>1, <2>6, <4>1 DEF TypeOK, InMapWhileAdding
        <4>2. CASE q # p
          <5>1. phase[q] = "added" /\ pid[q] # pid[p]
            BY <2>1, <2>6, <3>1, <4>2 DEF TypeOK
          <5> QED BY <2>1, <5>1 DEF TypeOK, MapsHoldTheirPipes
        <4> QED BY <4>1, <4>2
      <3>2. ASSUME NEW k \in IDs
            PROVE  /\ cpipes'[k] # NoPipe => pid'[cpipes'[k]] = k /\ phase'[cpipes'[k]] \in {"adding", "added", "closing"}
                   /\ spipes'[k] # NoPipe => pid'[spipes'[k]] = k
                   /\ spipes'[k] # NoPipe /\ handler' => phase'[spipes'[k]] \in {"added", "closing", "removing"}
        BY <2>1, <2>6, NoPipeAssumption DEF TypeOK, MapsHoldTheirPipes
      <3> QED BY <3>1, <3>2 DEF MapsHoldTheirPipes
    <2>5. TypeOK'
      BY <2>1, <2>2, <2>6 DEF TypeOK, LifeStep
    <2> QED BY <2>2, <2>3, <2>4, <2>5, LifeStepKeeps
  <1>4. CASE RemPipe(p)
    <2>1. /\ phase[p] = "closing" /\ phase' = [phase EXCEPT ![p] = IF handler THEN "removing" ELSE "removed"]
          /\ cpipes' = [cpipes EXCEPT ![pid[p]] = NoPipe]
          /\ UNCHANGED <<spipes, workers, handler, sclosed, cclosed, pid>>
      BY <1>4 DEF RemPipe, closevars
    <2>2. LifeStep(p)
      BY <1>4 DEF RemPipe, closevars, LifeStep, Phases
    <2>6. /\ pid[p] \in IDs /\ phase' \in [Pipes -> Phases]
          /\ \A q \in Pipes : q # p /\ phase[q] \notin {"none", "done"} => pid[q] # pid[p]
      BY <2>2, LifeStepKeeps
    <2>3. InMapWhileAdding'
      BY <2>1, <2>6 DEF TypeOK, InMapWhileAdding
    <2>4. MapsHoldTheirPipes'
      BY <2>1, <2>6, NoPipeAssumption DEF TypeOK, MapsHoldTheirPipes
    <2>5. TypeOK'
      BY <2>1, <2>2, <2>6 DEF TypeOK, LifeStep
    <2> QED BY <2>2, <2>3, <2>4, <2>5, LifeStepKeeps
  <1>5. CASE SocketRemPipe(p)
    <2>1. /\ phase[p] = "removing" /\ phase' = [phase EXCEPT ![p] = "removed"]
          /\ spipes' = [spipes EXCEPT ![pid[p]] = NoPipe]
          /\ UNCHANGED <<cpipes, workers, handler, sclosed, cclosed, pid>>
      BY <1>5 DEF SocketRemPipe, closevars
    <2>2. LifeStep(p)
      BY <1>5 DEF SocketRemPipe, closevars, LifeStep, Phases
    <2>6. /\ pid[p] \in IDs /\ phase' \in [Pipes -> Phases]
          /\ \A q \in Pipes : q # p /\ phase[q] \notin {"none", "done"} => pid[q] # pid[p]
      BY <2>2, LifeStepKeeps
    <2>3. InMapWhileAdding'
      BY <2>1 DEF TypeOK, InMapWhileAdding
    <2>4. MapsHoldTheirPipes'
      BY <2>1, <2>6, NoPipeAssumption DEF TypeOK, MapsHoldTheirPipes
    <2>5. TypeOK'
      BY <2>1, <2>2, <2>6 DEF TypeOK, LifeStep
    <2> QED BY <2>2, <2>3, <2>4, <2>5, LifeStepKeeps
  <1> QED
    BY <1>1, <1>2, <1>3, <1>4, <1>5

\* The goroutines of the socket, the Close calls and a NextID that spins leave
\* every pipe where it is.
LEMMA OtherStepInv ==
    ASSUME IInv,
           \/ \E p \in Pipes : WorkerEnds(p) \/ WorkerRemPipe(p)
           \/ NextIDSpins \/ SocketClose \/ ClearPipeEventHandler \/ ConnectorClose
    PROVE  IInv'
  <1> USE DEF IInv
  <1>1. UNCHANGED <<next, ids, phase, pid>> /\ (hung' # hung => NextIDSpins)
    BY DEF WorkerEnds, WorkerRemPipe, NextIDSpins, SocketClose, ClearPipeEventHandler, ConnectorClose
  <1>2. Holding' = Holding
    BY <1>1 DEF Holding
  <1>3. UniqueIDs' /\ HasIDOnceMade'
    BY <1>1, <1>2 DEF UniqueIDs, HasIDOnceMade
  <1>4. IdsInUseAreHeld'
    <2>1. NextIDSpins => \A n \in IDs : n \in ids
      BY DEF NextIDSpins, Usable, IDs
    <2> QED BY <1>1, <1>2, <2>1 DEF IdsInUseAreHeld
  <1>5. CASE \E p \in Pipes : WorkerEnds(p) \/ WorkerRemPipe(p)
    <2>1. PICK p \in Pipes : /\ workers[p] > 0 /\ workers' = [workers EXCEPT ![p] = @ - 1]
                             /\ \/ spipes' = spipes
                                \/ sclosed /\ spipes' = [spipes EXCEPT ![pid[p]] = NoPipe]
                             /\ UNCHANGED <<hung, cpipes, handler, sclosed, cclosed>>
      BY <1>5 DEF WorkerEnds, WorkerRemPipe, closevars
    <2>2. spipes' \in [IDs -> Pipes \cup {NoPipe}] /\ \A k \in IDs : spipes'[k] \in {spipes[k], NoPipe}
      BY <2>1 DEF TypeOK
    <2>3. TypeOK' /\ InMapWhileAdding' /\ (~sclosed' => handler')
      BY <1>1, <2>1, <2>2 DEF TypeOK, InMapWhileAdding
    <2>4. MapsHoldTheirPipes'
      BY <1>1, <2>1, <2>2 DEF MapsHoldTheirPipes
    <2> QED BY <1>3, <1>4, <2>3, <2>4
  <1>6. CASE NextIDSpins \/ SocketClose \/ ClearPipeEventHandler \/ ConnectorClose
    <2>1. TypeOK' /\ InMapWhileAdding' /\ (~sclosed' => handler')
      BY <1>1, <1>6 DEF TypeOK, InMapWhileAdding, NextIDSpins, SocketClose, ClearPipeEventHandler, ConnectorClose, closevars
    <2>2. MapsHoldTheirPipes'
      BY <1>1, <1>6 DEF MapsHoldTheirPipes, NextIDSpins, SocketClose, ClearPipeEventHandler, ConnectorClose, closevars
    <2> QED BY <1>3, <1>4, <2>1, <2>2
  <1> QED
    BY <1>5, <1>6

\* Every step preserves the invariant.
LEMMA NextInv == IInv /\ [Next]_vars => IInv'
  <1> SUFFICES ASSUME IInv, [Next]_vars PROVE IInv'
    OBVIOUS
  <1>1. CASE UNCHANGED vars
    BY <1>1 DEF vars, closevars, IInv, TypeOK, HasIDOnceMade, InMapWhileAdding, UniqueIDs, MapsHoldTheirPipes,
                IdsInUseAreHeld, Holding
  <1>2. CASE Next
    BY <1>2, NewPipeInv, RecycleInv, LifeStepInv, OtherStepInv DEF Next
  <1> QED
    BY <1>1, <1>2

\* Type correctness, for every number of pipes and ids.
THEOREM TypeCorrect == Spec => []TypeOK
  <1>1. IInv => TypeOK
    BY DEF IInv
  <1> QED
    BY <1>1, InitInv, NextInv, PTL DEF Spec

\* The ids of the pipes that have not given them back are distinct, whatever the
\* interleaving of newPipe, addPipe and Close calls (utils/id.go, pipe.Close).
THEOREM IdsAreUnique == Spec => []UniqueIDs
  <1>1. IInv => UniqueIDs
    BY DEF IInv
  <1> QED
    BY <1>1, InitInv, NextInv, PTL DEF Spec

\* Until the Close of the socket or of the connector, deleting a pipe by its id
\* deletes that pipe and no other (connector.remPipe, socket.remPipe), although
\* ids are reused and the two maps are changed one after the other.
THEOREM MapsAreRight == Spec => []MapsHoldTheirPipes
  <1>1. IInv => MapsHoldTheirPipes
    BY DEF IInv
  <1> QED
    BY <1>1, InitInv, NextInv, PTL DEF Spec

\* The generator loses no id but those of pipes that were never closed, so it
\* hangs only when that many pipes exist.
THEOREM NoIdIsLost == Spec => []IdsInUseAreHeld
  <1>1. IInv => IdsInUseAreHeld
    BY DEF IInv
  <1> QED
    BY <1>1, InitInv, NextInv, PTL DEF Spec

=============================================================================
