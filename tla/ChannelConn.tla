----------------------------- MODULE ChannelConn -----------------------------
(***************************************************************************)
(* One direction of the connection between the two ends of an inproc       *)
(* channel pipe (transport/inproc/channel): slices go by reference through *)
(* a Go channel, and Read hands them out in pieces.  A "rw" end reads with *)
(* Read, a "block" end with Recv or RecvMsg, which return a whole slice.   *)
(* The other direction is alike and shares only closedq.  A step is one    *)
(* select or one piece of Read between two selects.                        *)
(***************************************************************************)
EXTENDS Integers, Sequences

CONSTANTS
    BufferSize,     \* the BufferSize option of the channel
    MaxSlice,       \* bound on the bytes of one Write
    MaxWrites       \* bound on the writes to a connection

ASSUME ConnAssumption == BufferSize \in Nat \ {0} /\ MaxSlice \in Nat /\ MaxWrites \in Nat

VARIABLES
    kind,           \* "rw" or "block"
    rc,             \* the channel: slices, as intervals of the bytes written
    s, i,           \* p.s and p.i of the reader; <<0, 0>> when p.s is nil
    holds,          \* p.s # nil
    sent, ret,      \* the bytes written, and those that the last read returned
    writes,         \* the writes so far
    connClosedq,    \* closedq is closed
    wpc,            \* the writer: "open", "ended" after ErrClosed
    rpc             \* the reader: "select", "remaining" (the inner select), "ended"

connvars == <<kind, rc, s, i, holds, sent, ret, writes, connClosedq, wpc, rpc>>

Size(b) == b[2] - b[1]

ConnInit ==
    /\ kind \in {"rw", "block"}
    /\ rc = <<>> /\ s = <<0, 0>> /\ i = 0 /\ holds = FALSE
    /\ sent = 0 /\ ret = <<0, 0>> /\ writes = 0 /\ connClosedq = FALSE
    /\ wpc = "open" /\ rpc = "select"

-----------------------------------------------------------------------------
\* Write, Send and SendMsg: with room, also when closedq is closed too
ConnWrite(n) ==
    /\ wpc = "open" /\ Len(rc) < BufferSize /\ writes < MaxWrites
    /\ rc' = Append(rc, <<sent, sent + n>>)
    /\ sent' = sent + n /\ writes' = writes + 1
    /\ UNCHANGED <<kind, s, i, holds, ret, connClosedq, wpc, rpc>>

ConnWriteFails ==
    /\ wpc = "open" /\ connClosedq
    /\ wpc' = "ended"
    /\ UNCHANGED <<kind, rc, s, i, holds, sent, ret, writes, connClosedq, rpc>>

\* pipe.Close of either end
ConnClose ==
    /\ ~connClosedq
    /\ connClosedq' = TRUE
    /\ UNCHANGED <<kind, rc, s, i, holds, sent, ret, writes, wpc, rpc>>

\* a slice comes out of the channel: Read keeps it, Recv returns it
Takes ==
    /\ rc' = Tail(rc)
    /\ IF kind = "rw"
       THEN s' = Head(rc) /\ i' = 0 /\ holds' = TRUE /\ UNCHANGED ret
       ELSE ret' = Head(rc) /\ UNCHANGED <<s, i, holds>>

ReadSelects ==
    /\ rpc = "select" /\ ~holds /\ rc # <<>>
    /\ Takes
    /\ UNCHANGED <<kind, sent, writes, connClosedq, wpc, rpc>>

\* plausible bug: what is still in the channel is not read
ReadSeesClosed_AtOnce ==
    /\ rpc = "select" /\ ~holds /\ connClosedq
    /\ rpc' = "ended"
    /\ UNCHANGED <<kind, rc, s, i, holds, sent, ret, writes, connClosedq, wpc>>

ReadSeesClosed ==
    /\ rpc = "select" /\ ~holds /\ connClosedq
    /\ rpc' = "remaining"
    /\ UNCHANGED <<kind, rc, s, i, holds, sent, ret, writes, connClosedq, wpc>>

\* plausible bug: the inner select has no default and waits for data
ReadRemaining_Waits ==
    /\ rpc = "remaining" /\ rc # <<>>
    /\ Takes /\ rpc' = "select"
    /\ UNCHANGED <<kind, sent, writes, connClosedq, wpc>>

\* "read remaining", "exhaust received messages": one more slice, or ErrClosed
ReadRemaining ==
    /\ rpc = "remaining"
    /\ \/ rc # <<>> /\ Takes /\ rpc' = "select"
       \/ rc = <<>> /\ rpc' = "ended" /\ UNCHANGED <<rc, s, i, holds, ret>>
    /\ UNCHANGED <<kind, sent, writes, connClosedq, wpc>>

\* copy into the caller's slice, which has room for n of the bytes at hand
ReadCopies(n) ==
    /\ holds /\ i < Size(s) /\ n <= Size(s) - i
    /\ ret' = <<s[1] + i, s[1] + i + n>>
    /\ i' = i + n
    /\ UNCHANGED <<kind, rc, s, holds, sent, writes, connClosedq, wpc, rpc>>

\* the slice is used up: it goes back to the pool and Read goes on
ReadFrees ==
    /\ holds /\ i >= Size(s)
    /\ s' = <<0, 0>> /\ holds' = FALSE
    /\ UNCHANGED <<kind, rc, i, sent, ret, writes, connClosedq, wpc, rpc>>

ConnReads ==
    \/ ReadSelects \/ ReadSeesClosed \/ ReadRemaining \/ ReadFrees
    \/ \E n \in 1 .. MaxSlice : ReadCopies(n)

ConnNext ==
    \/ \E n \in 0 .. MaxSlice : ConnWrite(n)
    \/ ConnWriteFails \/ ConnClose \/ ConnReads

ConnSpec == ConnInit /\ [][ConnNext]_connvars

\* somebody reads
ConnFairness == WF_connvars(ConnReads)

-----------------------------------------------------------------------------
(* Properties *)

Promised == INSTANCE Stream WITH closed <- connClosedq, ended <- (rpc = "ended")

\* The connection is a stream: through slices, pieces and the race of closedq
\* with the channel, every byte is read once and in order, and ErrClosed comes
\* only when all that was written has been read (channel.go:89).
ImplementsStream == Promised!StreamSpec

\* The reader of a closed connection is told so, however much is left to read.
ReadersEnd == connClosedq ~> rpc = "ended"
=============================================================================
