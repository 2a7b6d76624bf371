------------------------------- MODULE Message -------------------------------
(***************************************************************************)
(* message/message.go: how a message is made, encoded, received at the end *)
(* of a pipe and duplicated.  The lengths are counted in words of 4 bytes, *)
(* the size of a pipe id; the meta data is not a part of the body.  A      *)
(* message is a record with the Meta fields and the three slices of its    *)
(* buffer.  Flags is split into the send type and the raw flag.            *)
(*                                                                         *)
(* A function that receives returns the SET of its results, because        *)
(* NewMessageFromMsg reads what an earlier user left in a pooled buffer.   *)
(* The result may also be an error or a panic.                             *)
(***************************************************************************)
EXTENDS Integers, Sequences, FiniteSets

\* the send types
SendTypeToOne == "one"
SendTypeToAll == "all"
SendTypeToDest == "dest"

SendTypes == {SendTypeToOne, SendTypeToAll, SendTypeToDest}

DefaultMsgTTL == 16

\* uint8
U8(n) == n % 256

\* MsgPath.Length
PathLength(path) == U8(Len(path))

Failed(err) == [err |-> err]
IsMsg(r) == "err" \notin DOMAIN r

\* what Alloc may return: the words of the buffer's previous user, or zeros
Leftovers(n, words) == [1 .. n -> words]

-----------------------------------------------------------------------------
(* Making *)

\* NewSendMessage
NewSendMessage(raw, sendType, ttl, src, dest, content) ==
    [raw |-> raw, type |-> sendType, ttl |-> IF ttl = 0 THEN DefaultMsgTTL ELSE ttl,
     hops |-> PathLength(src), distance |-> PathLength(dest), length |-> Len(content),
     source |-> src, dest |-> dest, content |-> content]

\* NewRawRecvMessage: TTL-- from zero, "raw message is always send to one"
NewRawRecvMessage(pid, content) ==
    [raw |-> TRUE, type |-> SendTypeToOne, ttl |-> U8(-1), hops |-> 1, distance |-> 0,
     length |-> Len(content), source |-> <<pid>>, dest |-> <<>>, content |-> content]

\* Encode: the meta data, then the whole buffer
Encode(m) ==
    [raw |-> m.raw, type |-> m.type, ttl |-> m.ttl, hops |-> m.hops, distance |-> m.distance,
     length |-> m.length, body |-> m.source \o m.dest \o m.content]

\* Dup: the buffer is copied and cut again by the meta data
Dup(m) ==
    LET b == Encode(m).body
    IN  [m EXCEPT !.source = SubSeq(b, 1, m.hops),
                  !.dest = SubSeq(b, m.hops + 1, m.hops + m.distance),
                  !.content = SubSeq(b, m.hops + m.distance + 1, m.hops + m.distance + m.length)]

-----------------------------------------------------------------------------
(* Receiving *)

\* sourceSize, with room for the id of the pipe
SourceSize(m) == U8(m.hops + 1)

\* destSize: the previous node's entry is dropped
DestSize(m) == IF m.type = SendTypeToDest THEN U8(m.distance - 1) ELSE m.distance

\* plausible bug: a hop is not counted
Arrive_NoHop(m, source, dest, content) ==
    [raw |-> m.raw, type |-> m.type, ttl |-> U8(m.ttl - 1), hops |-> m.hops,
     distance |-> IF m.type = SendTypeToDest THEN U8(m.distance - 1) ELSE m.distance,
     length |-> m.length, source |-> source, dest |-> dest, content |-> content]

\* plausible bug: the time to live is not reduced
Arrive_SameTTL(m, source, dest, content) ==
    [raw |-> m.raw, type |-> m.type, ttl |-> m.ttl, hops |-> U8(m.hops + 1),
     distance |-> IF m.type = SendTypeToDest THEN U8(m.distance - 1) ELSE m.distance,
     length |-> m.length, source |-> source, dest |-> dest, content |-> content]

\* TTL--, Hops++, and Distance-- on the way to a destination
Arrive(m, source, dest, content) ==
    [raw |-> m.raw, type |-> m.type, ttl |-> U8(m.ttl - 1), hops |-> U8(m.hops + 1),
     distance |-> IF m.type = SendTypeToDest THEN U8(m.distance - 1) ELSE m.distance,
     length |-> m.length, source |-> source, dest |-> dest, content |-> content]

\* msg.Source[4:sourceSize] is out of range when Hops+1 wraps to 0
SourceOverflows(m) == SourceSize(m) = 0

\* plausible bug: the pipe's id is added at the far end of the path
Cut_AppendsId(pid, w) ==
    LET skip == IF w.type = SendTypeToDest THEN 1 ELSE 0
        src == SourceSize(w) - 1
        end == src + skip + DestSize(w)
    IN  Arrive(w, SubSeq(w.body, 1, src) \o <<pid>>, SubSeq(w.body, src + skip + 1, end),
               SubSeq(w.body, end + 1, end + w.length))

\* plausible bug: the last entry of the destination is dropped, not the first
Cut_DropsLast(pid, w) ==
    LET skip == IF w.type = SendTypeToDest THEN 1 ELSE 0
        src == SourceSize(w) - 1
        end == src + skip + DestSize(w)
    IN  Arrive(w, <<pid>> \o SubSeq(w.body, 1, src), SubSeq(w.body, src + 1, end - skip),
               SubSeq(w.body, end + 1, end + w.length))

\* the body of w is cut at the sizes that its meta data give
Cut(pid, w) ==
    LET skip == IF w.type = SendTypeToDest THEN 1 ELSE 0
        src == SourceSize(w) - 1
        end == src + skip + DestSize(w)
    IN  Arrive(w, <<pid>> \o SubSeq(w.body, 1, src), SubSeq(w.body, src + skip + 1, end),
               SubSeq(w.body, end + 1, end + w.length))

\* how many words NewMessageFromReader reads after the meta data
WordsRead(w) == SourceSize(w) - 1 + (IF w.type = SendTypeToDest THEN 1 ELSE 0) + DestSize(w) + w.length

\* NewMessageFromBytes: it slices past the end if the sizes wrap but their sum agrees
NewMessageFromBytes(pid, w, maxLength) ==
    IF maxLength # 0 /\ w.length > maxLength THEN {Failed("ErrContentTooLong")}
    ELSE IF Len(w.body) # U8(w.hops + w.distance) + w.length THEN {Failed("ErrBadMsg")}
    ELSE IF SourceOverflows(w) \/ WordsRead(w) # Len(w.body) THEN {Failed("panic")}
    ELSE {Cut(pid, w)}

\* NewMessageFromReader: out of step when it does not read the whole body
NewMessageFromReader(pid, w, maxLength) ==
    IF maxLength # 0 /\ w.length > maxLength THEN {Failed("ErrContentTooLong")}
    ELSE IF SourceOverflows(w) THEN {Failed("panic")}
    ELSE IF WordsRead(w) # Len(w.body) THEN {Failed("out of step")}
    ELSE {Cut(pid, w)}

\* copy(msg.Destination, msg.Destination[4:])
ShiftLeft(d) == IF d = <<>> THEN d ELSE Tail(d) \o <<d[Len(d)]>>

\* NewMessageFromMsg: the destination is what the new buffer happens to hold
NewMessageFromMsg(pid, m, maxLength, words) ==
    IF maxLength # 0 /\ m.length > maxLength THEN {Failed("ErrContentTooLong")}
    ELSE IF SourceOverflows(m) THEN {Failed("panic")}
    ELSE {Arrive(m, <<pid>> \o m.source, ShiftLeft(d), m.content) : d \in Leftovers(DestSize(m), words)}
=============================================================================
