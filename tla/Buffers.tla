------------------------------ MODULE Buffers ------------------------------
(***************************************************************************)
(* Who owns the pooled memory of messages (bytespool, message.go): a       *)
(* Message struct ("obj") and its buffer ("buf") go from Send through the  *)
(* send queues to a pipe's sender, over the connection to the peer's       *)
(* receiver, and back to the pools.  Three kinds of connection differ in   *)
(* what they hand over: one that copies (tcp, ipc, ws, net.Pipe, io.Pipe), *)
(* the channel of byte slices, which hands over the buffer, and the        *)
(* channel of messages, which hands over struct and buffer.                *)
(***************************************************************************)
EXTENDS Integers, Sequences, FiniteSets

CONSTANTS
    Outs,           \* pipes of the socket
    Objs, Bufs,     \* Message structs, buffers: disjoint sets of numbers
    Big,            \* the buffers of 16 KB, the size that two pools have
    SendqSize,      \* capacity of the send queues and of a connection
    Kinds           \* kinds of connection to choose from

ASSUME BuffersAssumption ==
    /\ Objs \cap Bufs = {} /\ Big \subseteq Bufs /\ SendqSize \in Nat \ {0}
    /\ Kinds \subseteq {"copy", "bytes", "msgs"}

VARIABLES
    ckind,      \* a pipe's kind of connection
    pool,       \* how often Get may return a struct or buffer: those put back and those that New makes
    spare,      \* what is in the second pool of 16 KB
    out,        \* the message in the hands of Send or SendMsg: <<>> or <<m>>
    rest,       \* pipes that sendToAll has still to serve
    socketq,    \* the socket's sendq
    ownq,       \* a pipe's sendq
    dues,       \* what a pipe's sender has to put back after SendMsg
    wire,       \* what is handed over and not received
    last,       \* what the receiving end holds: p.s, lastBytes, lastMsg
    receiving,  \* the receiving end: "free", "take", "copy"
    inbox,      \* received messages, in recvq or with the user
    up,         \* a pipe: "up", "closed", "ended" (its sender has left the loop)
    down        \* the socket is closed

outvars == <<out, rest>>
bufvars == <<ckind, pool, spare, outvars, socketq, ownq, dues, wire, last, receiving, inbox, up, down>>

Resources == Objs \cup Bufs
\* a message: its struct, its buffer, and where it is sent: "one", "dest", "all"
Parts(m) == {m.obj, m.buf}

\* the places that hold r
Places(r) ==
    LET Queued(name, q) == {<<name, k>> : k \in {j \in DOMAIN q : r \in Parts(q[j])}}
    IN  UNION {Queued("out", out), Queued("sendq", socketq),
               {<<"inbox", m>> : m \in {n \in inbox : r \in Parts(n)}},
               UNION {Queued(<<"sendq", p>>, ownq[p]) : p \in Outs},
               UNION {{<<p, k>> : k \in {j \in DOMAIN wire[p] : r \in wire[p][j]}} : p \in Outs},
               {<<"dues", p>> : p \in {o \in Outs : r \in dues[o]}},
               {<<"last", p>> : p \in {o \in Outs : r \in last[o]}}}

-----------------------------------------------------------------------------
(* The pools *)

\* Alloc looks into the first pool of the size
Allocatable(r) == pool[r] > 0

\* the first one of rs to be had, which stands for any
FirstOf(rs) == {r \in rs : Allocatable(r) /\ \A q \in rs : Allocatable(q) => r <= q}

\* a struct of msgPool and a buffer of Alloc, of 16 KB or another size
Allocs(m) ==
    /\ m.obj \in FirstOf(Objs) /\ m.buf \in FirstOf(Big) \cup FirstOf(Bufs \ Big)
    /\ pool' = [r \in Resources |-> IF r \in Parts(m) THEN pool[r] - 1 ELSE pool[r]]
    /\ UNCHANGED spare

\* nobody holds rs any more: the runtime collects them, and New makes others
Collects(rs) ==
    /\ pool' = [r \in Resources |-> IF r \in rs THEN pool[r] + 1 ELSE pool[r]]
    /\ UNCHANGED spare

\* Put into every pool of the size
Frees(rs) ==
    /\ pool' = [r \in Resources |-> IF r \in rs THEN pool[r] + 1 ELSE pool[r]]
    /\ spare' = spare \cup (rs \cap Big)

Messages == [obj : Objs, buf : Bufs, type : {"one", "dest", "all"}]

BuffersInit ==
    /\ ckind \in [Outs -> Kinds]
    /\ pool = [r \in Resources |-> 1] /\ spare = {}
    /\ out = <<>> /\ rest = {} /\ socketq = <<>> /\ ownq = [p \in Outs |-> <<>>]
    /\ dues = [p \in Outs |-> {}] /\ wire = [p \in Outs |-> <<>>]
    /\ last = [p \in Outs |-> {}] /\ receiving = [p \in Outs |-> "free"]
    /\ inbox = {} /\ up = [p \in Outs |-> "up"] /\ down = FALSE

-----------------------------------------------------------------------------
(* Send, SendTo, SendAll, SendMsg: one call at a time *)

Room(q) == Len(q) < SendqSize

\* NewSendMessage
Creates(m) ==
    /\ out = <<>> /\ Allocs(m)
    /\ out' = <<m>> /\ rest' = IF m.type = "all" THEN {p \in Outs : up[p] # "ended"} ELSE {}
    /\ UNCHANGED <<ckind, socketq, ownq, dues, wire, last, receiving, inbox, up, down>>

\* SendMsg with a message that was received; one with TTL 0 is freed below
PassesOn(m) ==
    /\ out = <<>> /\ m \in inbox /\ inbox' = inbox \ {m}
    /\ out' = <<m>> /\ rest' = IF m.type = "all" THEN {p \in Outs : up[p] # "ended"} ELSE {}
    /\ UNCHANGED <<ckind, pool, spare, socketq, ownq, dues, wire, last, receiving, up, down>>

\* doPushMsg to the socket's sendq or the destination's
Pushes ==
    /\ out # <<>> /\ out' = <<>> /\ UNCHANGED rest
    /\ \/ /\ out[1].type = "one" /\ Room(socketq)
          /\ socketq' = Append(socketq, out[1]) /\ UNCHANGED ownq
       \/ /\ out[1].type = "dest"
          /\ \E p \in Outs : /\ up[p] # "ended" /\ Room(ownq[p])
                             /\ ownq' = [ownq EXCEPT ![p] = Append(@, out[1])]
          /\ UNCHANGED socketq
    /\ UNCHANGED <<ckind, pool, spare, dues, wire, last, receiving, inbox, up, down>>

\* an error, which leaves the message to the runtime: dropped by best effort,
\* closed, no such path, arrived
Forgets ==
    /\ out # <<>> /\ out[1].type # "all" /\ out' = <<>> /\ Collects(Parts(out[1]))
    /\ UNCHANGED <<ckind, rest, socketq, ownq, dues, wire, last, receiving, inbox, up, down>>

\* sendToAll: a duplicate for the next pipe, which may be dropped
Duplicates(p, m) ==
    /\ out # <<>> /\ p \in rest /\ rest' = rest \ {p}
    /\ \/ /\ m.type = "all" /\ Allocs(m)
          /\ Room(ownq[p]) /\ ownq' = [ownq EXCEPT ![p] = Append(@, m)]
       \/ UNCHANGED <<pool, spare, ownq>>
    /\ UNCHANGED <<ckind, out, socketq, dues, wire, last, receiving, inbox, up, down>>

\* FreeAll: at the end of sendToAll, for noSend and for a TTL of 0
SendFrees ==
    /\ out # <<>> /\ rest = {} /\ Frees(Parts(out[1])) /\ out' = <<>>
    /\ UNCHANGED <<ckind, rest, socketq, ownq, dues, wire, last, receiving, inbox, up, down>>

-----------------------------------------------------------------------------
(* A pipe's sender, and doSendMsg of remPipe *)

\* what the connection takes away with the message
HandsOver(p, m) ==
    CASE ckind[p] = "copy" -> {} [] ckind[p] = "bytes" -> {m.buf} [] ckind[p] = "msgs" -> Parts(m)

\* plausible bug: the level of channel connections is that of the others
FreedByLevel_All(p, m) == Parts(m)

\* newPipe's level and what FreeByLevel puts back: FreeAll, FreeMsg, FreeNone
FreedByLevel(p, m) ==
    CASE ckind[p] = "copy" -> Parts(m) [] ckind[p] = "bytes" -> {m.obj} [] ckind[p] = "msgs" -> {}

\* the next message for p: of the socket's sendq or of its own
TakesMsg(p, m) ==
    /\ dues[p] = {}
    /\ \/ /\ up[p] # "ended" /\ socketq # <<>> /\ m = Head(socketq)
          /\ socketq' = Tail(socketq) /\ UNCHANGED ownq
       \/ /\ ownq[p] # <<>> /\ m = Head(ownq[p])
          /\ ownq' = [ownq EXCEPT ![p] = Tail(@)] /\ UNCHANGED socketq

\* SendMsg hands it over, or ignores a raw one
Sends(p) ==
    /\ up[p] = "up"
    /\ \E m \in Messages :
         /\ TakesMsg(p, m)
         /\ \/ /\ Room(wire[p]) /\ wire' = [wire EXCEPT ![p] = Append(@, HandsOver(p, m))]
               /\ UNCHANGED <<pool, spare>>
            \/ ckind[p] # "msgs" /\ Collects(HandsOver(p, m)) /\ UNCHANGED wire
         /\ dues' = [dues EXCEPT ![p] = FreedByLevel(p, m)]
    /\ UNCHANGED <<ckind, outvars, last, receiving, inbox, up, down>>

\* SendMsg fails: one sent to one pipe goes back into the socket's sendq, what
\* cannot is freed; the sender ends
SendFails(p) ==
    /\ up[p] # "up" /\ up' = [up EXCEPT ![p] = "ended"]
    /\ \E m \in Messages :
         \/ /\ dues[p] = {} /\ up[p] # "ended" /\ m.type = "one"
            /\ socketq # <<>> /\ m = Head(socketq)
            /\ socketq' = Append(Tail(socketq), m) /\ UNCHANGED <<ownq, dues>>
         \/ TakesMsg(p, m) /\ dues' = [dues EXCEPT ![p] = Parts(m)]
    /\ UNCHANGED <<ckind, pool, spare, outvars, wire, last, receiving, inbox, down>>

SenderFrees(p) ==
    /\ dues[p] # {} /\ Frees(dues[p]) /\ dues' = [dues EXCEPT ![p] = {}]
    /\ UNCHANGED <<ckind, outvars, socketq, ownq, wire, last, receiving, inbox, up, down>>

PipeCloses(p) ==
    /\ up[p] = "up" /\ up' = [up EXCEPT ![p] = "closed"]
    /\ UNCHANGED <<ckind, pool, spare, outvars, socketq, ownq, dues, wire, last, receiving, inbox, down>>

SocketCloses ==
    /\ ~down /\ down' = TRUE
    /\ UNCHANGED <<ckind, pool, spare, outvars, socketq, ownq, dues, wire, last, receiving, inbox, up>>

\* stopSender drops what remains
DropsRemaining ==
    /\ down /\ socketq # <<>> /\ socketq' = Tail(socketq) /\ Frees(Parts(Head(socketq)))
    /\ UNCHANGED <<ckind, outvars, ownq, dues, wire, last, receiving, inbox, up, down>>

-----------------------------------------------------------------------------
(* The receiving end *)

\* Read, Recv, RecvMsg put back what they returned before
RecvFrees(p) ==
    /\ receiving[p] = "free" /\ receiving' = [receiving EXCEPT ![p] = "take"]
    /\ Frees(last[p]) /\ last' = [last EXCEPT ![p] = {}]
    /\ UNCHANGED <<ckind, outvars, socketq, ownq, dues, wire, inbox, up, down>>

RecvTakes(p) ==
    /\ receiving[p] = "take" /\ receiving' = [receiving EXCEPT ![p] = "copy"]
    /\ wire[p] # <<>> /\ wire' = [wire EXCEPT ![p] = Tail(@)]
    /\ last' = [last EXCEPT ![p] = Head(wire[p])]
    /\ UNCHANGED <<ckind, pool, spare, outvars, socketq, ownq, dues, inbox, up, down>>

\* a new message with a copy of it, or an error
RecvCopies(p) ==
    /\ receiving[p] = "copy" /\ receiving' = [receiving EXCEPT ![p] = "free"]
    /\ \/ \E m \in Messages : Allocs(m) /\ inbox' = inbox \cup {m}
       \/ UNCHANGED <<pool, spare, inbox>>
    /\ UNCHANGED <<ckind, outvars, socketq, ownq, dues, wire, last, up, down>>

\* the user, or the receiver of a socket that drops it
UserFrees(m) ==
    /\ m \in inbox /\ inbox' = inbox \ {m} /\ Frees(Parts(m))
    /\ UNCHANGED <<ckind, outvars, socketq, ownq, dues, wire, last, receiving, up, down>>

-----------------------------------------------------------------------------
BuffersNext ==
    \/ \E m \in Messages : Creates(m) \/ PassesOn(m) \/ UserFrees(m)
    \/ Pushes \/ Forgets \/ SendFrees \/ SocketCloses \/ DropsRemaining
    \/ \E p \in Outs :
          \/ \E m \in Messages : Duplicates(p, m)
          \/ Sends(p) \/ SendFails(p) \/ SenderFrees(p) \/ PipeCloses(p)
          \/ RecvFrees(p) \/ RecvTakes(p) \/ RecvCopies(p)

BuffersSpec == BuffersInit /\ [][BuffersNext]_bufvars

\* A struct or a buffer is in one place: in the pool that gives it out, once,
\* or with one owner.  The sender's FreeByLevel and the receiving end's Free
\* never put back the same memory, so Alloc never gives it to two messages.
NoBufferShared == \A r \in Resources : pool[r] + Cardinality(Places(r)) <= 1
=============================================================================
