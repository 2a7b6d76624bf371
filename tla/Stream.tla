------------------------------- MODULE Stream -------------------------------
(***************************************************************************)
(* What a connection promises in one direction (net.Conn, and SendReceiver *)
(* and MsgSendReceiver of the connector): a stream of bytes, of which each *)
(* read returns the next ones, and an end that the reader is told of when  *)
(* it has read everything.  Bytes are named by their positions.            *)
(***************************************************************************)
EXTENDS Integers

VARIABLES
    sent,       \* the number of bytes written
    ret,        \* the last read returned the bytes after ret[1], up to ret[2]
    closed,     \* the connection was closed
    ended       \* the reader was told so

svars == <<sent, ret, closed, ended>>

StreamInit == sent = 0 /\ ret = <<0, 0>> /\ closed = FALSE /\ ended = FALSE

StreamWrites ==
    /\ sent' \in Nat /\ sent' >= sent
    /\ UNCHANGED <<ret, closed, ended>>

StreamReads ==
    /\ ~ended
    /\ \E to \in ret[2] .. sent : ret' = <<ret[2], to>>
    /\ UNCHANGED <<sent, closed, ended>>

StreamCloses == closed' = TRUE /\ UNCHANGED <<sent, ret, ended>>

StreamEnds ==
    /\ closed /\ ret[2] = sent
    /\ ended' = TRUE
    /\ UNCHANGED <<sent, ret, closed>>

StreamNext == StreamWrites \/ StreamReads \/ StreamCloses \/ StreamEnds

StreamSpec == StreamInit /\ [][StreamNext]_svars
=============================================================================
