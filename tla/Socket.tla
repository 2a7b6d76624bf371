------------------------------- MODULE Socket -------------------------------
(***************************************************************************)
(* The socket (socket.go): the send calls of its users, one sender and one *)
(* receiver goroutine per pipe, the removal of pipes (remPipe, stopPipe),  *)
(* RecvMsg and Close, together with the part of the connector it meets:    *)
(* c.Mutex, which the connector holds while it calls the socket's pipe     *)
(* event handler, pipe.Close and connector.Close.                          *)
(*                                                                         *)
(* An action is what a goroutine does between two points where it can      *)
(* block or where another goroutine can see its effect: a channel          *)
(* operation, a critical section of s.RWMutex or c.Mutex, a call of the    *)
(* transport.  A select with several ready cases is several enabled        *)
(* actions.  The write side of s.RWMutex is never held across a blocking   *)
(* operation, so it is enough to know the readers that do hold it.         *)
(***************************************************************************)
EXTENDS Integers, Sequences, FiniteSets

CONSTANTS
    Pipes,                  \* pipes that may be added, each once
    Raw,                    \* the raw ones
    ToOne, ToDest, ToAll,   \* messages by send type, each sent by one call
    Dest,                   \* the pipe at the head of the path of a ToDest message
    None,                   \* no message
    QueueSize,              \* SendQueueSize
    RecvQueueSize,
    Scenarios               \* the options and surroundings of the sockets considered

Msgs == ToOne \cup ToDest \cup ToAll

\* A socket's options SendBestEffort, NoRecv and CloseOnEOF, what its
\* transport carries (bytes; blocks, one for a message; or the messages
\* themselves, as inproc.channel), and what happens around it: the pipes and
\* the send calls there may be, the messages each peer may send, whether
\* connections may break or end and users may close pipes, whether peers then
\* send what is refused as well, whether Close may be called, and whether
\* SendStopTimeout may expire.
Scenario == [bestEffort : BOOLEAN, noRecv : BOOLEAN, closeOnEOF : BOOLEAN,
             kind : {"bytes", "blocks", "msgs"},
             pipes : SUBSET Pipes, calls : SUBSET Msgs, maxIn : Nat,
             breaks : BOOLEAN, unreadable : BOOLEAN, closes : BOOLEAN, timeouts : BOOLEAN]

ASSUME QueueAssumption == QueueSize \in Nat \ {0} /\ RecvQueueSize \in Nat \ {0}
ASSUME MsgsAssumption ==
    /\ ToOne \cap ToDest = {} /\ ToOne \cap ToAll = {} /\ ToDest \cap ToAll = {}
    /\ None \notin Msgs \cup Pipes
    /\ Dest \in [ToDest -> Pipes] /\ Raw \subseteq Pipes
ASSUME ScenarioAssumption == \A s \in Scenarios : s \in Scenario

VARIABLE scenario           \* chosen at the start

BestEffort == scenario.bestEffort
NoRecv == scenario.noRecv
CloseOnEOF == scenario.closeOnEOF
Direct(p) == scenario.kind = "msgs" /\ p \notin Raw     \* an msr pipe: no error closes it
MaxIn == scenario.maxIn
Breaks == scenario.breaks
Timeouts == scenario.timeouts

VARIABLES
    closedq,                \* s.closedq is closed
    senderStoppedq,         \* s.senderStoppedq is closed
    handler,                \* the connector has the socket's pipe event handler
    spipes, cpipes,         \* s.pipes, c.pipes
    cclosed,                \* c.closed
    clock,                  \* c.Mutex: {}, or the pipe it is held for
    readers,                \* SendAll calls that hold s.RLock
    closer,                 \* where socket.Close is
    toClose, closing,       \* the pipes connector.Close still has, and the one it is closing
    owed, early             \* history, set by Close: the messages that were queued, and
                            \* the pipes whose sender goroutine had not run yet

VARIABLES
    sendq, psendq,          \* s.sendq and the sendq of each pipe
    api, fan,               \* where each send call is, and the pipes a SendAll has left, in order
    wire,                   \* the messages given to the transport of each pipe, in order
    dropped                 \* the messages freed without being sent

VARIABLES
    conn,                   \* the connection of each pipe
    pclosed, kpc,           \* p.closed, and where the pipe.Close that set it is
    stopq, dpc, dmsg,       \* p.stopq, and where the stopPipe that closed it is, with what
    spc, smsg, fin,         \* the sender: where it is, with what, in SEND_REMAINING or not
    rpc, rmsg, nin,         \* the receiver: where it is, with what, messages read so far
    recvq, taken            \* s.recvq, and how many messages of each pipe RecvMsg returned

lockVars == <<clock, readers>>
closeVars == <<scenario, closedq, senderStoppedq, handler, cclosed, closer, toClose, closing, owed, early>>
mapVars == <<spipes, cpipes>>
apiVars == <<api, fan>>
killVars == <<conn, pclosed, kpc>>
drainVars == <<stopq, dpc, dmsg>>
senderVars == <<spc, smsg, fin>>
recvVars == <<rpc, rmsg, nin, recvq, taken>>
msgVars == <<sendq, psendq, wire, dropped>>
vars == <<lockVars, closeVars, mapVars, apiVars, killVars, drainVars, senderVars, recvVars, msgVars>>

SenderPCs == {"off", "start", "loop", "send", "closing", "resend", "remaining", "rem", "drain", "done"}
ReceiverPCs == {"off", "hello", "read", "push", "last", "closing", "rem", "drain", "done"}
KillPCs == {"no", "remove", "handler", "drain", "check", "done"}
DrainPCs == {"no", "loop", "send", "closing", "resend", "drop", "done"}
CloserPCs == {"open", "lock", "clear", "wait", "drop", "connector", "pipes", "done"}

TypeOK ==
    /\ scenario \in Scenarios
    /\ {closedq, senderStoppedq, handler, cclosed} \subseteq BOOLEAN
    /\ spipes \subseteq Pipes /\ cpipes \subseteq Pipes /\ toClose \subseteq Pipes /\ closing \subseteq Pipes
    /\ clock \subseteq Pipes /\ readers \subseteq ToAll
    /\ closer \in CloserPCs /\ early \subseteq Pipes /\ owed \subseteq Msgs \X (Pipes \cup {None})
    /\ sendq \in Seq(ToOne) /\ Len(sendq) <= QueueSize
    /\ psendq \in [Pipes -> Seq(Msgs)] /\ \A p \in Pipes : Len(psendq[p]) <= QueueSize
    /\ api \in [Msgs -> {"idle", "push", "fan", "ok", "err"}]
    /\ fan \in [ToAll -> Seq(Pipes)]
    /\ wire \in [Pipes -> Seq(Msgs)] /\ dropped \subseteq Msgs
    /\ conn \in [Pipes -> {"none", "adding", "up", "down"}]
    /\ pclosed \in [Pipes -> BOOLEAN] /\ kpc \in [Pipes -> KillPCs]
    /\ stopq \in [Pipes -> BOOLEAN] /\ dpc \in [Pipes -> DrainPCs]
    /\ dmsg \in [Pipes -> Msgs \cup {None}]
    /\ spc \in [Pipes -> SenderPCs] /\ smsg \in [Pipes -> Msgs \cup {None}] /\ fin \in [Pipes -> BOOLEAN]
    /\ rpc \in [Pipes -> ReceiverPCs] /\ rmsg \in [Pipes -> 0 .. MaxIn] /\ nin \in [Pipes -> 0 .. MaxIn]
    /\ recvq \in Seq(Pipes \X (0 .. MaxIn)) /\ Len(recvq) <= RecvQueueSize
    /\ taken \in [Pipes -> 0 .. MaxIn]

Init ==
    /\ scenario \in Scenarios
    /\ closedq = FALSE /\ senderStoppedq = FALSE /\ handler = TRUE /\ cclosed = FALSE
    /\ spipes = {} /\ cpipes = {} /\ toClose = {} /\ closing = {} /\ clock = {} /\ readers = {}
    /\ closer = "open" /\ owed = {} /\ early = {}
    /\ sendq = <<>>
    /\ psendq = [p \in Pipes |-> <<>>]
    /\ api = [m \in Msgs |-> "idle"]
    /\ fan = [m \in ToAll |-> <<>>]
    /\ wire = [p \in Pipes |-> <<>>]
    /\ dropped = {}
    /\ conn = [p \in Pipes |-> "none"]
    /\ pclosed = [p \in Pipes |-> FALSE]
    /\ kpc = [p \in Pipes |-> "no"]
    /\ stopq = [p \in Pipes |-> FALSE]
    /\ dpc = [p \in Pipes |-> "no"]
    /\ dmsg = [p \in Pipes |-> None]
    /\ spc = [p \in Pipes |-> "off"]
    /\ smsg = [p \in Pipes |-> None]
    /\ fin = [p \in Pipes |-> FALSE]
    /\ rpc = [p \in Pipes |-> "off"]
    /\ rmsg = [p \in Pipes |-> 0]
    /\ nin = [p \in Pipes |-> 0]
    /\ recvq = <<>>
    /\ taken = [p \in Pipes |-> 0]

\* a bounded channel takes another message
Room(q) == Len(q) < QueueSize

Elements(q) == {q[i] : i \in 1 .. Len(q)}

\* the orders in which a Go map with keys S may be ranged over
Orders(S) == {o \in [1 .. Cardinality(S) -> S] : \A i, j \in DOMAIN o : o[i] = o[j] => i = j}

-----------------------------------------------------------------------------
(* Adding a pipe *)

\* connector.addPipe takes c.Mutex and, if the socket listens, calls its handler
AddPipe(p) ==
    /\ p \in scenario.pipes /\ conn[p] = "none" /\ clock = {} /\ ~cclosed
    /\ cpipes' = cpipes \cup {p}
    /\ conn' = [conn EXCEPT ![p] = IF handler THEN "adding" ELSE "up"]
    /\ clock' = IF handler THEN {p} ELSE {}
    /\ UNCHANGED <<readers, closeVars, spipes, apiVars, pclosed, kpc, drainVars, senderVars, recvVars, msgVars>>

\* socket.addPipe: the pipe and its two goroutines
HandleAdd(p) ==
    /\ conn[p] = "adding" /\ readers = {}
    /\ conn' = [conn EXCEPT ![p] = "up"]
    /\ clock' = {}
    /\ spipes' = spipes \cup {p}
    /\ spc' = [spc EXCEPT ![p] = "start"]
    /\ rpc' = [rpc EXCEPT ![p] = IF p \in Raw THEN "hello" ELSE "read"]
    /\ UNCHANGED <<readers, closeVars, cpipes, apiVars, pclosed, kpc, drainVars, smsg, fin,
                   rmsg, nin, recvq, taken, msgVars>>

-----------------------------------------------------------------------------
(* Closing a pipe *)

\* pipe.Close when it is the first: p.closed, then the connection
ClosePipe(p) ==
    /\ ~pclosed[p]
    /\ pclosed' = [pclosed EXCEPT ![p] = TRUE]
    /\ conn' = [conn EXCEPT ![p] = "down"]
    /\ kpc' = [kpc EXCEPT ![p] = "remove"]

\* the connection breaks, or the peer closes it
Break(p) ==
    /\ Breaks /\ conn[p] = "up"
    /\ conn' = [conn EXCEPT ![p] = "down"]
    /\ UNCHANGED <<lockVars, closeVars, mapVars, apiVars, pclosed, kpc, drainVars, senderVars, recvVars, msgVars>>

\* connector.ClosePipe, called by a user
UserClosesPipe(p) ==
    /\ Breaks /\ clock = {} /\ p \in cpipes
    /\ ClosePipe(p)
    /\ UNCHANGED <<lockVars, closeVars, mapVars, apiVars, drainVars, senderVars, recvVars, msgVars>>

\* connector.remPipe takes c.Mutex, and keeps it while the handler runs
KillRemove(p) ==
    /\ kpc[p] = "remove" /\ clock = {}
    /\ cpipes' = cpipes \ {p}
    /\ clock' = IF handler THEN {p} ELSE {}
    /\ kpc' = [kpc EXCEPT ![p] = IF handler THEN "handler" ELSE "check"]
    /\ UNCHANGED <<readers, closeVars, spipes, apiVars, conn, pclosed, drainVars, senderVars, recvVars, msgVars>>

\* plausible bug: the pipe stays in s.pipes
RemPipe_NoDelete(p) ==
    /\ readers = {}
    /\ stopq' = [stopq EXCEPT ![p] = @ \/ p \in spipes]
    /\ dpc' = [dpc EXCEPT ![p] = IF p \in spipes THEN "loop" ELSE @]
    /\ UNCHANGED <<spipes, dmsg>>

\* plausible bug: stopPipe drains the queue but does not stop the sender
RemPipe_NoStop(p) ==
    /\ readers = {}
    /\ spipes' = spipes \ {p}
    /\ dpc' = [dpc EXCEPT ![p] = IF p \in spipes THEN "loop" ELSE @]
    /\ UNCHANGED <<stopq, dmsg>>

\* socket.remPipe up to the loops of stopPipe, which follow if p was there
RemPipe(p) ==
    /\ readers = {}
    /\ spipes' = spipes \ {p}
    /\ stopq' = [stopq EXCEPT ![p] = @ \/ p \in spipes]
    /\ dpc' = [dpc EXCEPT ![p] = IF p \in spipes THEN "loop" ELSE @]
    /\ UNCHANGED dmsg

\* HandlePipeEvent(PipeEventRemove)
KillHandler(p) ==
    /\ kpc[p] = "handler"
    /\ RemPipe(p)
    /\ kpc' = [kpc EXCEPT ![p] = IF p \in spipes THEN "drain" ELSE "check"]
    /\ clock' = IF p \in spipes THEN clock ELSE {}
    /\ UNCHANGED <<readers, closeVars, cpipes, apiVars, conn, pclosed, senderVars, recvVars, msgVars>>

\* the handler returns and connector.remPipe unlocks
KillDrained(p) ==
    /\ kpc[p] = "drain" /\ dpc[p] = "done"
    /\ kpc' = [kpc EXCEPT ![p] = "check"]
    /\ clock' = {}
    /\ UNCHANGED <<readers, closeVars, mapVars, apiVars, conn, pclosed, drainVars, senderVars, recvVars, msgVars>>

\* connector.remPipe locks again to check the limit, and pipe.Close ends
KillCheck(p) ==
    /\ kpc[p] = "check" /\ clock = {}
    /\ kpc' = [kpc EXCEPT ![p] = "done"]
    /\ UNCHANGED <<lockVars, closeVars, mapVars, apiVars, conn, pclosed, drainVars, senderVars, recvVars, msgVars>>

-----------------------------------------------------------------------------
(* doSendMsg, shared by sender and stopPipe *)

\* the transport takes m; a closed msr pipe with room in its channel may take it too
Transmit(p, m) ==
    /\ conn[p] = "up" \/ (Direct(p) /\ conn[p] = "down")
    /\ wire' = [wire EXCEPT ![p] = Append(@, m)]

\* plausible bug: a message is resent, and freed as well
ResendMsg_AndFrees(m) ==
    \/ /\ m \in ToOne /\ Room(sendq)
       /\ sendq' = Append(sendq, m)
       /\ dropped' = dropped \cup {m}
    \/ /\ m \notin ToOne \/ closedq \/ (BestEffort /\ ~Room(sendq))
       /\ dropped' = dropped \cup {m}
       /\ UNCHANGED sendq

\* plausible bug: a message that could not be sent is always freed
ResendMsg_Frees(m) ==
    /\ dropped' = dropped \cup {m}
    /\ UNCHANGED sendq

\* plausible bug: messages of every type go back to s.sendq
ResendMsg_AnyType(m) ==
    \/ /\ Room(sendq)
       /\ sendq' = Append(sendq, m)
       /\ UNCHANGED dropped
    \/ /\ closedq \/ (BestEffort /\ ~Room(sendq))
       /\ dropped' = dropped \cup {m}
       /\ UNCHANGED sendq

\* resendMsg, and FreeAll when it does not take the message
ResendMsg(m) ==
    \/ /\ m \in ToOne /\ Room(sendq)
       /\ sendq' = Append(sendq, m)
       /\ UNCHANGED dropped
    \/ /\ m \notin ToOne \/ closedq \/ (BestEffort /\ ~Room(sendq))
       /\ dropped' = dropped \cup {m}
       /\ UNCHANGED sendq

-----------------------------------------------------------------------------
(* The sender goroutine *)

\* senderWg.Add(1)
SenderStart(p) ==
    /\ spc[p] = "start"
    /\ spc' = [spc EXCEPT ![p] = "loop"]
    /\ UNCHANGED <<lockVars, closeVars, mapVars, apiVars, killVars, drainVars, smsg, fin, recvVars, msgVars>>

\* a message of s.sendq, in the main loop or in SEND_REMAINING; not for raw pipes
SenderTakes(p) ==
    /\ spc[p] \in {"loop", "remaining"} /\ p \notin Raw /\ sendq # <<>>
    /\ smsg' = [smsg EXCEPT ![p] = Head(sendq)]
    /\ sendq' = Tail(sendq)
    /\ spc' = [spc EXCEPT ![p] = "send"]
    /\ UNCHANGED <<lockVars, closeVars, mapVars, apiVars, killVars, drainVars, fin, recvVars, psendq, wire, dropped>>

\* a message of p.sendq
SenderTakesOwn(p) ==
    /\ spc[p] = "loop" /\ psendq[p] # <<>>
    /\ smsg' = [smsg EXCEPT ![p] = Head(psendq[p])]
    /\ psendq' = [psendq EXCEPT ![p] = Tail(@)]
    /\ spc' = [spc EXCEPT ![p] = "send"]
    /\ UNCHANGED <<lockVars, closeVars, mapVars, apiVars, killVars, drainVars, fin, recvVars, sendq, wire, dropped>>

SenderSends(p) ==
    /\ spc[p] = "send"
    /\ Transmit(p, smsg[p])
    /\ smsg' = [smsg EXCEPT ![p] = None]
    /\ spc' = [spc EXCEPT ![p] = IF fin[p] THEN "remaining" ELSE "loop"]
    /\ UNCHANGED <<lockVars, closeVars, mapVars, apiVars, killVars, drainVars, fin, recvVars, sendq, psendq, dropped>>

\* the transport fails: the pipe closes itself, unless it is closed or an msr pipe
SenderFails(p) ==
    /\ spc[p] = "send" /\ conn[p] = "down"
    /\ \/ /\ Direct(p) \/ pclosed[p]
          /\ spc' = [spc EXCEPT ![p] = "resend"]
          /\ UNCHANGED killVars
       \/ /\ ~Direct(p)
          /\ ClosePipe(p)
          /\ spc' = [spc EXCEPT ![p] = "closing"]
    /\ UNCHANGED <<lockVars, closeVars, mapVars, apiVars, drainVars, smsg, fin, recvVars, msgVars>>

\* pipe.Close returns to the sender
SenderClosed(p) ==
    /\ spc[p] = "closing" /\ kpc[p] = "done"
    /\ spc' = [spc EXCEPT ![p] = "resend"]
    /\ UNCHANGED <<lockVars, closeVars, mapVars, apiVars, killVars, drainVars, smsg, fin, recvVars, msgVars>>

\* the error ends SEND_REMAINING, or the sender itself
SenderResends(p) ==
    /\ spc[p] = "resend"
    /\ ResendMsg(smsg[p])
    /\ smsg' = [smsg EXCEPT ![p] = None]
    /\ spc' = [spc EXCEPT ![p] = IF fin[p] THEN "rem" ELSE "done"]
    /\ UNCHANGED <<lockVars, closeVars, mapVars, apiVars, killVars, drainVars, fin, recvVars, psendq, wire>>

\* <-p.stopq, senderWg.Done()
SenderStops(p) ==
    /\ spc[p] = "loop" /\ stopq[p]
    /\ spc' = [spc EXCEPT ![p] = "done"]
    /\ UNCHANGED <<lockVars, closeVars, mapVars, apiVars, killVars, drainVars, smsg, fin, recvVars, msgVars>>

\* plausible bug: the sender only looks at p.stopq
SenderSeesClose_Never(p) == FALSE /\ spc[p] = "loop" /\ UNCHANGED vars

\* plausible bug: the remaining messages are not sent
SenderSeesClose_NoRemaining(p) ==
    /\ spc[p] = "loop" /\ closedq
    /\ spc' = [spc EXCEPT ![p] = "rem"]
    /\ fin' = [fin EXCEPT ![p] = TRUE]
    /\ UNCHANGED <<lockVars, closeVars, mapVars, apiVars, killVars, drainVars, smsg, recvVars, msgVars>>

\* <-s.closedq
SenderSeesClose(p) ==
    /\ spc[p] = "loop" /\ closedq
    /\ spc' = [spc EXCEPT ![p] = "remaining"]
    /\ fin' = [fin EXCEPT ![p] = TRUE]
    /\ UNCHANGED <<lockVars, closeVars, mapVars, apiVars, killVars, drainVars, smsg, recvVars, msgVars>>

\* SEND_REMAINING finds nothing, or is told to stop
SenderRemainingEnds(p) ==
    /\ spc[p] = "remaining" /\ (p \in Raw \/ sendq = <<>> \/ senderStoppedq)
    /\ spc' = [spc EXCEPT ![p] = "rem"]
    /\ UNCHANGED <<lockVars, closeVars, mapVars, apiVars, killVars, drainVars, smsg, fin, recvVars, msgVars>>

\* s.remPipe, and senderWg.Done() if there is nothing to drain
SenderRemoves(p) ==
    /\ spc[p] = "rem"
    /\ RemPipe(p)
    /\ spc' = [spc EXCEPT ![p] = IF p \in spipes THEN "drain" ELSE "done"]
    /\ UNCHANGED <<lockVars, closeVars, cpipes, apiVars, killVars, smsg, fin, recvVars, msgVars>>

\* stopPipe returns to the sender: senderWg.Done()
SenderDrained(p) ==
    /\ spc[p] = "drain" /\ dpc[p] = "done"
    /\ spc' = [spc EXCEPT ![p] = "done"]
    /\ UNCHANGED <<lockVars, closeVars, mapVars, apiVars, killVars, drainVars, smsg, fin, recvVars, msgVars>>

-----------------------------------------------------------------------------
(* The loops of stopPipe, run by whoever removed the pipe *)

DrainTakes(p) ==
    /\ dpc[p] = "loop" /\ psendq[p] # <<>>
    /\ dmsg' = [dmsg EXCEPT ![p] = Head(psendq[p])]
    /\ psendq' = [psendq EXCEPT ![p] = Tail(@)]
    /\ dpc' = [dpc EXCEPT ![p] = "send"]
    /\ UNCHANGED <<lockVars, closeVars, mapVars, apiVars, killVars, stopq, senderVars, recvVars, sendq, wire, dropped>>

DrainSends(p) ==
    /\ dpc[p] = "send"
    /\ Transmit(p, dmsg[p])
    /\ dmsg' = [dmsg EXCEPT ![p] = None]
    /\ dpc' = [dpc EXCEPT ![p] = "loop"]
    /\ UNCHANGED <<lockVars, closeVars, mapVars, apiVars, killVars, stopq, senderVars, recvVars, sendq, psendq, dropped>>

DrainFails(p) ==
    /\ dpc[p] = "send" /\ conn[p] = "down"
    /\ \/ /\ Direct(p) \/ pclosed[p]
          /\ dpc' = [dpc EXCEPT ![p] = "resend"]
          /\ UNCHANGED killVars
       \/ /\ ~Direct(p)
          /\ ClosePipe(p)
          /\ dpc' = [dpc EXCEPT ![p] = "closing"]
    /\ UNCHANGED <<lockVars, closeVars, mapVars, apiVars, stopq, dmsg, senderVars, recvVars, msgVars>>

\* pipe.Close returns to stopPipe
DrainClosed(p) ==
    /\ dpc[p] = "closing" /\ kpc[p] = "done"
    /\ dpc' = [dpc EXCEPT ![p] = "resend"]
    /\ UNCHANGED <<lockVars, closeVars, mapVars, apiVars, killVars, stopq, dmsg, senderVars, recvVars, msgVars>>

DrainResends(p) ==
    /\ dpc[p] = "resend"
    /\ ResendMsg(dmsg[p])
    /\ dmsg' = [dmsg EXCEPT ![p] = None]
    /\ dpc' = [dpc EXCEPT ![p] = "drop"]
    /\ UNCHANGED <<lockVars, closeVars, mapVars, apiVars, killVars, stopq, senderVars, recvVars, psendq, wire>>

\* <-s.senderStoppedq, <-tm.C
DrainTimesOut(p) ==
    /\ dpc[p] = "loop" /\ (senderStoppedq \/ Timeouts)
    /\ dpc' = [dpc EXCEPT ![p] = "drop"]
    /\ UNCHANGED <<lockVars, closeVars, mapVars, apiVars, killVars, stopq, dmsg, senderVars, recvVars, msgVars>>

\* "drop last"
DrainDrops(p) ==
    /\ dpc[p] = "drop" /\ psendq[p] # <<>>
    /\ dropped' = dropped \cup {Head(psendq[p])}
    /\ psendq' = [psendq EXCEPT ![p] = Tail(@)]
    /\ UNCHANGED <<lockVars, closeVars, mapVars, apiVars, killVars, drainVars, senderVars, recvVars, sendq, wire>>

\* the default cases
DrainEnds(p) ==
    /\ dpc[p] \in {"loop", "drop"} /\ psendq[p] = <<>>
    /\ dpc' = [dpc EXCEPT ![p] = "done"]
    /\ UNCHANGED <<lockVars, closeVars, mapVars, apiVars, killVars, stopq, dmsg, senderVars, recvVars, msgVars>>

-----------------------------------------------------------------------------
(* The receiver goroutine, and RecvMsg *)

RecvRoom == Len(recvq) < RecvQueueSize

\* "send a empty message to make a connection": not a select, it waits for room
ReceiverHello(p) ==
    /\ rpc[p] = "hello" /\ RecvRoom
    /\ recvq' = Append(recvq, <<p, 0>>)
    /\ rpc' = [rpc EXCEPT ![p] = "read"]
    /\ UNCHANGED <<lockVars, closeVars, mapVars, apiVars, killVars, drainVars, senderVars, rmsg, nin, taken, msgVars>>

\* p.RecvMsg returns a message, perhaps one buffered before the connection broke
ReceiverReads(p) ==
    /\ rpc[p] = "read" /\ nin[p] < MaxIn
    /\ nin' = [nin EXCEPT ![p] = @ + 1]
    /\ IF NoRecv
       THEN UNCHANGED <<rpc, rmsg>>
       ELSE rpc' = [rpc EXCEPT ![p] = "push"] /\ rmsg' = [rmsg EXCEPT ![p] = nin[p] + 1]
    /\ UNCHANGED <<lockVars, closeVars, mapVars, apiVars, killVars, drainVars, senderVars, recvq, taken, msgVars>>

\* plausible bug: the receiver ends without closing the pipe
ReceiverFails_NoClose(p) ==
    /\ rpc[p] = "read" /\ conn[p] = "down"
    /\ rpc' = [rpc EXCEPT ![p] = "done"]
    /\ UNCHANGED <<lockVars, closeVars, mapVars, apiVars, killVars, drainVars, senderVars, rmsg, nin, recvq, taken, msgVars>>

\* the pipe closes itself, unless it is closed
ReceiverCloses(p) ==
    \/ /\ pclosed[p]
       /\ rpc' = [rpc EXCEPT ![p] = "done"]
       /\ UNCHANGED killVars
    \/ /\ ClosePipe(p)
       /\ rpc' = [rpc EXCEPT ![p] = "closing"]

\* the receiver ends and leaves the pipe as it is
ReceiverLeaves(p) ==
    /\ rpc' = [rpc EXCEPT ![p] = "done"]
    /\ UNCHANGED killVars

\* p.RecvMsg returns the error of a connection that is gone
ReceiverFails(p) ==
    /\ rpc[p] = "read" /\ conn[p] = "down"
    /\ IF Direct(p) THEN ReceiverLeaves(p) ELSE ReceiverCloses(p)
    /\ UNCHANGED <<lockVars, closeVars, mapVars, apiVars, drainVars, senderVars, rmsg, nin, recvq, taken, msgVars>>

\* the peer has ended its side, and p.RecvMsg returns EOF: without CloseOnEOF
\* the pipe stays open, and for a raw pipe a last message says so
ReceiverEOF(p) ==
    /\ Breaks /\ rpc[p] = "read" /\ ~Direct(p)
    /\ \/ /\ CloseOnEOF
          /\ ReceiverCloses(p)
          /\ UNCHANGED <<rmsg, nin>>
       \/ /\ ~CloseOnEOF /\ (p \notin Raw \/ NoRecv)
          /\ ReceiverLeaves(p)
          /\ UNCHANGED <<rmsg, nin>>
       \/ /\ ~CloseOnEOF /\ p \in Raw /\ ~NoRecv /\ nin[p] < MaxIn
          /\ nin' = [nin EXCEPT ![p] = @ + 1]
          /\ rmsg' = [rmsg EXCEPT ![p] = nin[p] + 1]
          /\ rpc' = [rpc EXCEPT ![p] = "last"]
          /\ UNCHANGED killVars
    /\ UNCHANGED <<lockVars, closeVars, mapVars, apiVars, drainVars, senderVars, recvq, taken, msgVars>>

\* p.RecvMsg refuses what it read, as too long or no message: only the reader
\* of a byte stream closes the pipe
ReceiverRefuses(p) ==
    /\ Breaks /\ scenario.unreadable /\ rpc[p] = "read" /\ p \notin Raw
    /\ IF scenario.kind = "bytes" THEN ReceiverCloses(p) ELSE ReceiverLeaves(p)
    /\ UNCHANGED <<lockVars, closeVars, mapVars, apiVars, drainVars, senderVars, rmsg, nin, recvq, taken, msgVars>>

\* pipe.Close returns to the receiver
ReceiverClosed(p) ==
    /\ rpc[p] = "closing" /\ kpc[p] = "done"
    /\ rpc' = [rpc EXCEPT ![p] = "done"]
    /\ UNCHANGED <<lockVars, closeVars, mapVars, apiVars, killVars, drainVars, senderVars, rmsg, nin, recvq, taken, msgVars>>

ReceiverPushes(p) ==
    /\ rpc[p] \in {"push", "last"} /\ RecvRoom
    /\ recvq' = Append(recvq, <<p, rmsg[p]>>)
    /\ rpc' = [rpc EXCEPT ![p] = IF @ = "push" THEN "read" ELSE "done"]
    /\ UNCHANGED <<lockVars, closeVars, mapVars, apiVars, killVars, drainVars, senderVars, rmsg, nin, taken, msgVars>>

\* plausible bug: the message is freed, but the receiver goes on
ReceiverSeesClose_GoesOn(p) ==
    /\ rpc[p] = "push" /\ closedq
    /\ rpc' = [rpc EXCEPT ![p] = "read"]
    /\ UNCHANGED <<lockVars, closeVars, mapVars, apiVars, killVars, drainVars, senderVars, rmsg, nin, recvq, taken, msgVars>>

\* <-s.closedq: the message is freed
ReceiverSeesClose(p) ==
    /\ rpc[p] \in {"push", "last"} /\ closedq
    /\ rpc' = [rpc EXCEPT ![p] = "rem"]
    /\ UNCHANGED <<lockVars, closeVars, mapVars, apiVars, killVars, drainVars, senderVars, rmsg, nin, recvq, taken, msgVars>>

\* s.remPipe, called by the receiver
ReceiverRemoves(p) ==
    /\ rpc[p] = "rem"
    /\ RemPipe(p)
    /\ rpc' = [rpc EXCEPT ![p] = IF p \in spipes THEN "drain" ELSE "done"]
    /\ UNCHANGED <<lockVars, closeVars, cpipes, apiVars, killVars, senderVars, rmsg, nin, recvq, taken, msgVars>>

\* stopPipe returns to the receiver
ReceiverDrained(p) ==
    /\ rpc[p] = "drain" /\ dpc[p] = "done"
    /\ rpc' = [rpc EXCEPT ![p] = "done"]
    /\ UNCHANGED <<lockVars, closeVars, mapVars, apiVars, killVars, drainVars, senderVars, rmsg, nin, recvq, taken, msgVars>>

\* RecvMsg returns a message (that it returns ErrClosed changes nothing)
RecvMsg ==
    /\ recvq # <<>>
    /\ taken' = [taken EXCEPT ![Head(recvq)[1]] = Head(recvq)[2]]
    /\ recvq' = Tail(recvq)
    /\ UNCHANGED <<lockVars, closeVars, mapVars, apiVars, killVars, drainVars, senderVars, rpc, rmsg, nin, msgVars>>

-----------------------------------------------------------------------------
(* The send calls *)

\* Send, and SendMsg of a ToOne message: enters doPushMsg
Send(m) ==
    /\ m \in ToOne \cap scenario.calls /\ api[m] = "idle"
    /\ api' = [api EXCEPT ![m] = "push"]
    /\ UNCHANGED <<lockVars, closeVars, mapVars, fan, killVars, drainVars, senderVars, recvVars, msgVars>>

\* sendTo: the pipe is looked up under s.RLock, and used after it
SendTo(m) ==
    /\ m \in ToDest \cap scenario.calls /\ api[m] = "idle"
    /\ api' = [api EXCEPT ![m] = IF Dest[m] \in spipes THEN "push" ELSE "err"]
    /\ UNCHANGED <<lockVars, closeVars, mapVars, fan, killVars, drainVars, senderVars, recvVars, msgVars>>

\* the queue a call pushes to
Queue(m) == IF m \in ToOne THEN sendq ELSE psendq[Dest[m]]

\* doPushMsg: the queue takes the message
Push(m) ==
    /\ api[m] = "push" /\ Room(Queue(m))
    /\ api' = [api EXCEPT ![m] = "ok"]
    /\ IF m \in ToOne
       THEN sendq' = Append(sendq, m) /\ UNCHANGED psendq
       ELSE psendq' = [psendq EXCEPT ![Dest[m]] = Append(@, m)] /\ UNCHANGED sendq
    /\ UNCHANGED <<lockVars, closeVars, mapVars, fan, killVars, drainVars, senderVars, recvVars, wire, dropped>>

\* plausible bug: only a best effort push looks at closedq
PushRefused_BestEffort(m) ==
    /\ api[m] = "push" /\ BestEffort
    /\ closedq \/ ~Room(Queue(m))
    /\ api' = [api EXCEPT ![m] = "err"]
    /\ UNCHANGED <<lockVars, closeVars, mapVars, fan, killVars, drainVars, senderVars, recvVars, msgVars>>

\* doPushMsg: ErrClosed, or ErrMsgDropped
PushRefused(m) ==
    /\ api[m] = "push"
    /\ closedq \/ (BestEffort /\ ~Room(Queue(m)))
    /\ api' = [api EXCEPT ![m] = "err"]
    /\ UNCHANGED <<lockVars, closeVars, mapVars, fan, killVars, drainVars, senderVars, recvVars, msgVars>>

\* sendToAll takes s.RLock and ranges over s.pipes
SendAll(m) ==
    /\ m \in ToAll \cap scenario.calls /\ api[m] = "idle"
    /\ api' = [api EXCEPT ![m] = "fan"]
    /\ readers' = readers \cup {m}
    /\ \E o \in Orders(spipes) : fan' = [fan EXCEPT ![m] = o]
    /\ UNCHANGED <<clock, closeVars, mapVars, killVars, drainVars, senderVars, recvVars, msgVars>>

\* doPushMsg of a copy to the next pipe
SendAllPush(m) ==
    /\ api[m] = "fan" /\ fan[m] # <<>> /\ Room(psendq[Head(fan[m])])
    /\ psendq' = [psendq EXCEPT ![Head(fan[m])] = Append(@, m)]
    /\ fan' = [fan EXCEPT ![m] = Tail(@)]
    /\ UNCHANGED <<lockVars, closeVars, mapVars, api, killVars, drainVars, senderVars, recvVars, sendq, wire, dropped>>

\* doPushMsg of a copy is refused, and the error ignored
SendAllSkips(m) ==
    /\ api[m] = "fan" /\ fan[m] # <<>>
    /\ closedq \/ (BestEffort /\ ~Room(psendq[Head(fan[m])]))
    /\ fan' = [fan EXCEPT ![m] = Tail(@)]
    /\ UNCHANGED <<lockVars, closeVars, mapVars, api, killVars, drainVars, senderVars, recvVars, msgVars>>

\* sendToAll unlocks and returns nil
SendAllReturns(m) ==
    /\ api[m] = "fan" /\ fan[m] = <<>>
    /\ api' = [api EXCEPT ![m] = "ok"]
    /\ readers' = readers \ {m}
    /\ UNCHANGED <<clock, closeVars, mapVars, fan, killVars, drainVars, senderVars, recvVars, msgVars>>

-----------------------------------------------------------------------------
(* Close *)

\* the messages queued for a pipe that is connected and will stay so, with the
\* pipe, or None where any pipe but a raw one will do
Queued ==
    LET up == {p \in spipes : conn[p] = "up" /\ ~Breaks /\ ~Timeouts}
    IN (IF up \subseteq Raw THEN {} ELSE {<<m, None>> : m \in Elements(sendq)})
       \cup {o \in Msgs \X up : o[1] \in Elements(psendq[o[2]])}

\* Close is called, and waits for s.Lock
CallClose ==
    /\ scenario.closes /\ closer = "open"
    /\ closer' = "lock"
    /\ UNCHANGED <<scenario, lockVars, closedq, senderStoppedq, handler, cclosed, toClose, closing, owed, early, mapVars,
                   apiVars, killVars, drainVars, senderVars, recvVars, msgVars>>

\* Close under s.Lock, past its check of closedq
Close ==
    /\ closer = "lock" /\ readers = {}
    /\ closer' = "clear"
    /\ closedq' = TRUE
    /\ owed' = Queued
    /\ early' = IF owed' = {} THEN {} ELSE {p \in Pipes : spc[p] = "start"}
    /\ UNCHANGED <<scenario, lockVars, senderStoppedq, handler, cclosed, toClose, closing, mapVars, apiVars,
                   killVars, drainVars, senderVars, recvVars, msgVars>>

\* connector.ClearPipeEventHandler
CloseClears ==
    /\ closer = "clear" /\ clock = {}
    /\ closer' = "wait"
    /\ handler' = FALSE
    /\ UNCHANGED <<scenario, lockVars, closedq, senderStoppedq, cclosed, toClose, closing, owed, early, mapVars, apiVars,
                   killVars, drainVars, senderVars, recvVars, msgVars>>

\* senderWg is zero: no sender goroutine is between its Add and its Done
SendersAreDone == \A p \in Pipes : spc[p] \in {"off", "start", "done"}

\* stopSender: the wait is over
CloseWaited ==
    /\ closer = "wait" /\ SendersAreDone
    /\ closer' = "drop"
    /\ UNCHANGED <<scenario, lockVars, closedq, senderStoppedq, handler, cclosed, toClose, closing, owed, early, mapVars,
                   apiVars, killVars, drainVars, senderVars, recvVars, msgVars>>

\* plausible bug: stopSender waits for the senders without a timer
CloseTimesOut_Never == closer = "wait" /\ FALSE /\ UNCHANGED vars

\* stopSender: <-s.senderStopTm.C
CloseTimesOut ==
    /\ closer = "wait" /\ Timeouts
    /\ closer' = "drop"
    /\ senderStoppedq' = TRUE
    /\ UNCHANGED <<scenario, lockVars, closedq, handler, cclosed, toClose, closing, owed, early, mapVars,
                   apiVars, killVars, drainVars, senderVars, recvVars, msgVars>>

\* stopSender: "drop remaining messages"
CloseDrops ==
    /\ closer = "drop" /\ sendq # <<>>
    /\ dropped' = dropped \cup {Head(sendq)}
    /\ sendq' = Tail(sendq)
    /\ UNCHANGED <<lockVars, closeVars, mapVars, apiVars, killVars, drainVars, senderVars, recvVars, psendq, wire>>

\* stopSender returns
CloseDropped ==
    /\ closer = "drop" /\ sendq = <<>>
    /\ closer' = "connector"
    /\ UNCHANGED <<scenario, lockVars, closedq, senderStoppedq, handler, cclosed, toClose, closing, owed, early, mapVars,
                   apiVars, killVars, drainVars, senderVars, recvVars, msgVars>>

\* connector.Close under c.Mutex
CloseConnector ==
    /\ closer = "connector" /\ clock = {}
    /\ closer' = "pipes"
    /\ cclosed' = TRUE
    /\ toClose' = cpipes
    /\ cpipes' = {}
    /\ UNCHANGED <<scenario, lockVars, closedq, senderStoppedq, handler, closing, owed, early, spipes,
                   apiVars, killVars, drainVars, senderVars, recvVars, msgVars>>

\* connector.Close closes its pipes one after the other
CloseNext(p) ==
    /\ closer = "pipes" /\ closing = {} /\ p \in toClose
    /\ toClose' = toClose \ {p}
    /\ IF pclosed[p] THEN UNCHANGED <<killVars, closing>> ELSE ClosePipe(p) /\ closing' = {p}
    /\ UNCHANGED <<scenario, lockVars, closedq, senderStoppedq, handler, cclosed, closer, owed, early, mapVars,
                   apiVars, drainVars, senderVars, recvVars, msgVars>>

\* pipe.Close returns to connector.Close
CloseClosed(p) ==
    /\ p \in closing /\ kpc[p] = "done"
    /\ closing' = {}
    /\ UNCHANGED <<scenario, lockVars, closedq, senderStoppedq, handler, cclosed, closer, toClose, owed, early, mapVars,
                   apiVars, killVars, drainVars, senderVars, recvVars, msgVars>>

CloseReturns ==
    /\ closer = "pipes" /\ toClose = {} /\ closing = {}
    /\ closer' = "done"
    /\ UNCHANGED <<scenario, lockVars, closedq, senderStoppedq, handler, cclosed, toClose, closing, owed, early, mapVars,
                   apiVars, killVars, drainVars, senderVars, recvVars, msgVars>>

-----------------------------------------------------------------------------

\* what a goroutine of pipe p does that waits for no peer, grouped by goroutine
SenderNext(p) ==
    \/ SenderStart(p) \/ SenderTakes(p) \/ SenderTakesOwn(p) \/ SenderFails(p) \/ SenderClosed(p)
    \/ SenderResends(p) \/ SenderStops(p) \/ SenderSeesClose(p) \/ SenderRemainingEnds(p)
    \/ SenderRemoves(p) \/ SenderDrained(p)

DrainNext(p) ==
    \/ DrainTakes(p) \/ DrainFails(p) \/ DrainClosed(p) \/ DrainResends(p) \/ DrainTimesOut(p)
    \/ DrainDrops(p) \/ DrainEnds(p)

KillNext(p) == HandleAdd(p) \/ KillRemove(p) \/ KillHandler(p) \/ KillDrained(p) \/ KillCheck(p)

ReceiverNext(p) ==
    \/ ReceiverHello(p) \/ ReceiverFails(p) \/ ReceiverClosed(p) \/ ReceiverPushes(p)
    \/ ReceiverSeesClose(p) \/ ReceiverRemoves(p) \/ ReceiverDrained(p)

\* a send call that has begun
CallNext(m) == Push(m) \/ PushRefused(m) \/ SendAllReturns(m) \/ SendAllPush(m) \/ SendAllSkips(m)

\* Close once it has begun
CloserNext ==
    \/ Close \/ CloseClears \/ CloseWaited \/ CloseTimesOut \/ CloseDrops \/ CloseDropped \/ CloseConnector
    \/ CloseReturns
    \/ \E p \in Pipes : CloseNext(p) \/ CloseClosed(p)

\* the transport takes the message it is given
TransportNext(p) == SenderSends(p) \/ DrainSends(p)

\* what users and peers may do or leave
UserNext ==
    \/ \E p \in Pipes : AddPipe(p) \/ Break(p) \/ UserClosesPipe(p)
    \/ \E p \in Pipes : ReceiverReads(p) \/ ReceiverEOF(p) \/ ReceiverRefuses(p)
    \/ \E m \in Msgs : Send(m) \/ SendTo(m) \/ SendAll(m)
    \/ RecvMsg
    \/ CallClose

Next ==
    \/ UserNext
    \/ \E p \in Pipes : SenderNext(p) \/ DrainNext(p) \/ KillNext(p) \/ ReceiverNext(p) \/ TransportNext(p)
    \/ \E m \in Msgs : CallNext(m)
    \/ CloserNext

Spec == Init /\ [][Next]_vars

\* Goroutines that can go on do, calls that have begun go on, timers fire.  The
\* transport may stall for ever, and nobody has to call RecvMsg.
FairSpec ==
    /\ Spec
    /\ \A p \in Pipes : WF_vars(SenderNext(p)) /\ WF_vars(DrainNext(p)) /\ WF_vars(KillNext(p)) /\ WF_vars(ReceiverNext(p))
    /\ \A m \in Msgs : WF_vars(CallNext(m))
    /\ WF_vars(CloserNext)

-----------------------------------------------------------------------------
(* Properties *)

\* every place where ToOne message m is
Places(m) ==
    {<<"sendq", i>> : i \in {i \in 1 .. Len(sendq) : sendq[i] = m}}
    \cup {<<"sender", p>> : p \in {p \in Pipes : smsg[p] = m}}
    \cup {<<"drain", p>> : p \in {p \in Pipes : dmsg[p] = m}}
    \cup (UNION {{<<"wire", p, i>> : i \in {i \in 1 .. Len(wire[p]) : wire[p][i] = m}} : p \in Pipes})
    \cup (IF m \in dropped THEN {<<"dropped", m>>} ELSE {})

\* A ToOne message the socket accepted is always in exactly one place: queued,
\* with one sender, given to one peer, or freed.  Resending after a failure
\* neither duplicates nor loses it, whatever pipes come and go meanwhile.
ToOneExactlyOnce ==
    \A m \in ToOne : Cardinality(Places(m)) = (IF api[m] = "ok" THEN 1 ELSE 0)

\* While the socket is open, an accepted ToOne message is never freed unsent:
\* a failed send gives it to another pipe ("only resend when send to one").
ToOneNotDropped ==
    ~closedq /\ ~BestEffort => dropped \cap ToOne = {}

\* A ToDest message never leaves the pipe its path names, and no pipe carries
\* two copies of a ToDest or ToAll message, although the sender and stopPipe
\* empty the same queue.
StaysOnItsPipe ==
    /\ \A p \in Pipes : \A m \in ToDest :
           m \in Elements(psendq[p]) \cup Elements(wire[p]) \cup {smsg[p], dmsg[p]} => p = Dest[m]
    /\ Elements(sendq) \subseteq ToOne
    /\ \A p \in Pipes : \A m \in ToDest \cup ToAll :
           LET here == psendq[p] \o wire[p] \o <<smsg[p], dmsg[p]>>
           IN Cardinality({i \in 1 .. Len(here) : here[i] = m}) <= 1

\* close(p.stopq) happens once: whoever removes the pipe (pipe.Close through
\* the event handler, the sender or the receiver on Close) finds it in s.pipes
\* only if nobody has stopped it.
StopqClosedOnce ==
    \A p \in spipes : ~stopq[p]

\* With healthy connections and no timeout, what was queued when Close was
\* called is given to the transport before the connector is closed, if every
\* sender goroutine had started and no receiver, holding a message nobody
\* takes, was the first to see the closed socket and removed its pipe.
CloseFlushes ==
    closer = "connector" /\ early = {} /\ (\A p \in Pipes : rpc[p] \notin {"rem", "drain", "done"}) =>
        \A o \in owed : \E p \in Pipes : o[2] \in {None, p} /\ o[1] \in Elements(wire[p])

\* "messages dropped after sender closed!!" must not happen: ToOne messages
\* queued while a peer is connected are sent before Close closes the connector.
NothingDroppedByClose ==
    closer = "connector" =>
        \A o \in owed : o[2] = None => \E p \in Pipes : o[1] \in Elements(wire[p])

\* n numbers the last message of p in the first i of recvq, or that taken last
LastOf(p, i, n) ==
    \/ taken[p] = n /\ \A k \in 1 .. i : recvq[k][1] # p
    \/ \E j \in 1 .. i : recvq[j] = <<p, n>> /\ \A k \in j + 1 .. i : recvq[k][1] # p

\* Users receive the messages of a pipe in the order read, without a gap, even
\* around Close, when receivers free what they hold; only the hello message of
\* a raw pipe, number 0, has none before it.
RecvInOrder ==
    \A p \in Pipes : \A i \in 1 .. Len(recvq) : recvq[i][1] = p =>
        \/ p \in Raw /\ recvq[i][2] = 0 /\ \A k \in 1 .. i - 1 : recvq[k][1] # p
        \/ LastOf(p, i - 1, recvq[i][2] - 1)

\* A SendAll waits for room in the queue of a pipe, under s.RLock: meanwhile
\* neither Close nor remPipe gets s.Lock.
SendAllWaits ==
    \E m \in ToAll : api[m] = "fan" /\ fan[m] # <<>> /\ ~Room(psendq[Head(fan[m])])

\* Close returns, even when transports stall, connections break and pipes are
\* added and closed around it, unless it is kept from s.Lock by a SendAll that
\* waits for ever.
CloseEnds == (closer = "lock" ~> closer = "done") \/ <>[]SendAllWaits

\* Once Close has been called, there come times when no send call waits for
\* room in a queue, whether of the socket or of a pipe that is already gone:
\* each call that waited has returned, with the same exception.
CallersReleased ==
    \/ closer # "open" ~> \A m \in Msgs : api[m] \notin {"push", "fan"}
    \/ <>[]SendAllWaits

\* After Close the goroutines of every pipe end; the receiver of a raw pipe
\* may wait for ever to announce it in a full queue.
GoroutinesEnd ==
    \A p \in Pipes \ Raw : closer = "done" ~> spc[p] \in {"off", "done"} /\ rpc[p] \in {"off", "done"}

\* While the socket is open, a closed pipe leaves it and its sender ends, or
\* waits only to put its message back into a full queue, unless remPipe is kept
\* from s.Lock by a SendAll that waits for ever.
ClosedPipeForgotten ==
    \/ \A p \in Pipes : pclosed[p] ~> closedq \/ (p \notin spipes /\ spc[p] \in {"off", "resend", "done"})
    \/ <>[]SendAllWaits

\* RecvMsg may end the receiver with the pipe open: of an msr pipe on every
\* error, of others on EOF without CloseOnEOF, and where the transport carries
\* blocks when it refuses one
MayStayOpen(p) ==
    Direct(p) \/ ~CloseOnEOF \/ (scenario.kind = "blocks" /\ scenario.unreadable /\ p \notin Raw)

\* "close pipe when peer shutdown write": a pipe whose connection is gone gets
\* closed, so that the connector forgets it and its dialer dials again, unless
\* its receiver waits for somebody to call RecvMsg, or has ended before, in one
\* of the ways that leave the pipe open.
BrokenPipeClosed ==
    \A p \in Pipes :
        conn[p] = "down" ~> \/ pclosed[p]
                            \/ rpc[p] \in {"hello", "push", "last"}
                            \/ MayStayOpen(p) /\ rpc[p] = "done"

\* the queue of q is full and stays so for as long as somebody holds s.RLock:
\* its sender has ended, or waits in pipe.Close for remPipe to get s.Lock
NeverTakes(q) ==
    /\ ~Room(psendq[q]) /\ ~closedq
    /\ spc[q] = "done" \/ (spc[q] = "closing" /\ kpc[q] = "handler")

\* "send to all peers": no connected peer is left behind one whose queue will
\* never take the message (the SendAll call, and with it s.RLock, would be
\* stuck for ever, and Close as well).
SendAllReachesPeers ==
    \A m \in ToAll : \A p \in Elements(fan[m]) : conn[p] = "up" => ~NeverTakes(Head(fan[m]))
=============================================================================
