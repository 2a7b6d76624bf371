-------------------------------- MODULE Switch --------------------------------
(***************************************************************************)
(* Messages on their way through a network of sockets that switches join:  *)
(* message/message.go at work in switch.go, pair.go, the SendMsg and       *)
(* sendTo of socket.go and the pipe functions of connector/pipe.go.        *)
(*                                                                         *)
(* A net says how the sockets are joined.  An end is one side of a         *)
(* connection: the pipe that one socket has for it.  StartSwitch makes two *)
(* sockets twins; NewPair makes two sockets mates.  A raw end is connected *)
(* to a program that speaks plain bytes and is not a socket.  The nets of  *)
(* a model are its scenarios; they also say what the applications do and    *)
(* whose requests must be answered.                                        *)
(*                                                                         *)
(* The queues of a pipe and its connection are one sequence here, without  *)
(* a bound and without losses: Socket models how they fill and drain.      *)
(***************************************************************************)
EXTENDS Message, Functions

CONSTANTS
    Nets,       \* the networks
    None        \* no twin, no mate, no peer

\* SendTTL is a uint8; twins and mates are sockets of the net, in both directions,
\* a pair has no pipes, and a switch does not join two pairs; the other end of a
\* connection that is not raw is one too; the ids of a socket's pipes differ; the
\* sockets on which applications send are not those of switches and pairs
ASSUME NetsAssumption ==
    \A n \in Nets :
        /\ n.ttl \in 0 .. 255 /\ n.maxLength \in Nat /\ None \notin n.sockets /\ n.sockets \cap n.ends = {}
        /\ n.sock \in [n.ends -> n.sockets] /\ n.kind \in [n.ends -> {"stream", "block", "direct", "raw"}]
        /\ n.twin \in [n.sockets -> n.sockets \cup {None}] /\ n.mate \in [n.sockets -> n.sockets \cup {None}]
        /\ \A s \in n.sockets :
              /\ n.twin[s] # None => n.twin[n.twin[s]] = s
              /\ n.mate[s] # None => n.mate[n.mate[s]] = s /\ (n.twin[s] # None => n.mate[n.twin[s]] = None)
              /\ n.sends[s] # {} => n.twin[s] = None /\ n.mate[s] = None
        /\ \A e \in n.ends :
              /\ n.mate[n.sock[e]] = None
              /\ n.kind[e] # "raw" => /\ n.peer[e] \in n.ends /\ n.kind[n.peer[e]] # "raw"
                                      /\ n.peer[n.peer[e]] = e
              /\ \A f \in n.ends : n.sock[e] = n.sock[f] /\ n.id[e] = n.id[f] => e = f
        /\ n.leaves \subseteq {e \in n.ends : n.kind[e] # "raw"}

VARIABLES
    net,        \* the network, chosen initially
    up,         \* the ends in the pipes map of their socket
    receiving,  \* the ends whose receiver runs
    line,       \* the end's pipe.sendq and what its connection carries
    sendq,      \* socket.sendq
    recvq,      \* socket.recvq; what is handed over between mates
    forwards,   \* the sockets x for which forward(x, twin of x) runs
    sent,       \* what the applications have sent: <<socket or raw end, send type>>
    got,        \* what they have received: <<socket, message>>
    rawGot      \* what raw programs have received: <<end, content>>

vars == <<net, up, receiving, line, sendq, recvq, forwards, sent, got, rawGot>>

Sockets == UNION {n.sockets : n \in Nets}
Ends == UNION {n.ends : n \in Nets}

\* the words that a recycled buffer may hold: ids, or zeros
Words == {net.id[e] : e \in net.ends} \cup {"0"}

Reply == "re"
Request(x) == <<x>>
IsRequest(m) == Len(m.content) = 1
IsReply(m) == Len(m.content) = 2
Asker(content) == content[Len(content)]

Init ==
    /\ net \in Nets
    /\ up = net.ends
    /\ receiving = net.ends
    /\ line = [e \in net.ends |-> <<>>]
    /\ sendq = [s \in net.sockets |-> <<>>]
    /\ recvq = [s \in net.sockets |-> <<>>]
    /\ forwards = {s \in net.sockets : net.twin[s] # None}
    /\ sent = {}
    /\ got = {}
    /\ rawGot = {}

-----------------------------------------------------------------------------
(* Sending *)

PipesOf(s) == {e \in up : net.sock[e] = s}

\* the pipe of s with that id, in a set
Named(s, id) == {e \in PipesOf(s) : net.id[e] = id}

\* plausible bug: a message with one connection to go is taken for arrived
ToDest_Early(s, m) ==
    /\ line' = [e \in net.ends |-> IF m.distance > 1 /\ e \in Named(s, m.dest[1])
                                   THEN Append(line[e], m) ELSE line[e]]
    /\ UNCHANGED sendq

\* sendTo: "already arrived, just drop", or ErrBrokenPath, or to the pipe's queue
ToDest(s, m) ==
    /\ line' = [e \in net.ends |-> IF m.distance # 0 /\ e \in Named(s, m.dest[1])
                                   THEN Append(line[e], m) ELSE line[e]]
    /\ UNCHANGED sendq

PathBroken(s, m) == m.distance # 0 /\ Named(s, m.dest[1]) = {}

\* doPushMsg to the socket's queue
ToOne(s, m) ==
    /\ sendq' = [sendq EXCEPT ![s] = Append(@, m)]
    /\ UNCHANGED line

\* sendToAll: a duplicate for every pipe
ToAll(s, m) ==
    /\ line' = [e \in net.ends |-> IF e \in PipesOf(s) THEN Append(line[e], Dup(m)) ELSE line[e]]
    /\ UNCHANGED sendq

\* the switch on the send type in SendMsg
ByType(s, m) ==
    \/ m.type = SendTypeToDest /\ ToDest(s, m)
    \/ m.type = SendTypeToOne /\ ToOne(s, m)
    \/ m.type = SendTypeToAll /\ ToAll(s, m)

\* socket.SendMsg of a message that was received by from
SocketSendMsg(s, m, from) ==
    /\ recvq' = [recvq EXCEPT ![from] = Tail(@)]
    /\ IF m.ttl = 0 THEN UNCHANGED <<line, sendq>> ELSE ByType(s, m)

\* pairSocket.SendMsg: the mate's RecvMsg gets this very message
PairSendMsg(s, m, from) ==
    /\ recvq' = [[recvq EXCEPT ![from] = Tail(@)] EXCEPT ![net.mate[s]] = Append(@, m)]
    /\ UNCHANGED <<line, sendq>>

\* an application calls Send or SendAll
AppSends(s, t) ==
    /\ s \in net.sockets /\ t \in net.sends[s] /\ <<s, t>> \notin sent
    /\ sent' = sent \cup {<<s, t>>}
    /\ LET m == NewSendMessage(FALSE, t, net.ttl, <<>>, <<>>, Request(s))
       IN  ByType(s, m)
    /\ UNCHANGED <<net, up, receiving, recvq, forwards, got, rawGot>>

\* sender: the pipe e takes a message from the socket's queue; a raw one does not
Take(e) ==
    /\ e \in up /\ net.kind[e] # "raw"
    /\ LET s == net.sock[e]
       IN  /\ sendq[s] # <<>>
           /\ sendq' = [sendq EXCEPT ![s] = Tail(@)]
           /\ line' = [line EXCEPT ![e] = Append(@, Head(sendq[s]))]
    /\ UNCHANGED <<net, up, receiving, recvq, forwards, sent, got, rawGot>>

-----------------------------------------------------------------------------
(* Pipes *)

\* newPipe chooses the functions of the end by its connection
Receives(p, m) ==
    LET pid == net.id[p]
    IN  CASE net.kind[p] = "stream" -> NewMessageFromReader(pid, Encode(m), net.maxLength)
          [] net.kind[p] = "block" -> NewMessageFromBytes(pid, Encode(m), net.maxLength)
          [] net.kind[p] = "direct" -> NewMessageFromMsg(pid, m, net.maxLength, Words)

\* the send function returns without sending: a raw message and no MsgSendReceiver
Ignored(e, m) == m.raw /\ net.kind[e] # "direct"

\* what a closed pipe resends of its line when n messages are on the connection
\* already: those to one, in their order (the only member of the set)
Resent(x, n) ==
    LET kept == {k \in n + 1 .. Len(line[x]) : line[x][k].type = SendTypeToOne}
        rising == {f \in [1 .. Cardinality(kept) -> kept] : \A i, j \in DOMAIN f : i < j => f[i] < f[j]}
    IN  {[i \in DOMAIN f |-> line[x][f[i]]] : f \in rising}

\* a connection breaks: both pipes are closed, what is not resent is lost
Broken(e) ==
    LET p == net.peer[e]
    IN  /\ up' = up \ {e, p}
        /\ receiving' = receiving \ {e, p}
        /\ line' = [x \in net.ends |-> IF x \in {e, p} THEN <<>> ELSE line[x]]
        /\ \E i \in 0 .. Len(line[e]), j \in 0 .. Len(line[p]) : \E v \in Resent(e, i), w \in Resent(p, j) :
              sendq' = [s \in net.sockets |-> sendq[s] \o (IF s = net.sock[e] THEN v ELSE <<>>)
                                                       \o (IF s = net.sock[p] THEN w ELSE <<>>)]

\* a message is sent, and received and queued by receiver at the other end
Arrives(e) ==
    /\ e \in up /\ line[e] # <<>> /\ net.kind[e] # "raw" /\ net.peer[e] \in receiving
    /\ LET m == Head(line[e])
           p == net.peer[e]
       IN  /\ ~Ignored(e, m)
           /\ \E r \in Receives(p, m) :
                 /\ IsMsg(r)
                 /\ recvq' = [recvq EXCEPT ![net.sock[p]] = Append(@, r)]
    /\ line' = [line EXCEPT ![e] = Tail(@)]
    /\ UNCHANGED <<net, up, receiving, sendq, forwards, sent, got, rawGot>>

\* receiver meets an error and ends; only NewMessageFromReader closes the pipe
ReceiverFails(e) ==
    /\ e \in up /\ line[e] # <<>> /\ net.kind[e] # "raw" /\ net.peer[e] \in receiving
    /\ LET m == Head(line[e])
           p == net.peer[e]
       IN  /\ ~Ignored(e, m)
           /\ \E r \in Receives(p, m) : ~IsMsg(r)
           /\ IF net.kind[p] = "stream" THEN Broken(e)
              ELSE /\ receiving' = receiving \ {p}
                   /\ line' = [line EXCEPT ![e] = Tail(@)]
                   /\ UNCHANGED <<up, sendq>>
    /\ UNCHANGED <<net, recvq, forwards, sent, got, rawGot>>

\* sendMsg, sendBlockMsg, sendRawMsg and sendBlockRawMsg: "ignore raw messages"
Ignores(e) ==
    /\ e \in up /\ line[e] # <<>> /\ Ignored(e, Head(line[e]))
    /\ line' = [line EXCEPT ![e] = Tail(@)]
    /\ UNCHANGED <<net, up, receiving, sendq, recvq, forwards, sent, got, rawGot>>

\* sendRawMsg, sendBlockRawMsg: only the content is written
RawArrives(e) ==
    /\ e \in up /\ line[e] # <<>> /\ net.kind[e] = "raw" /\ ~Ignored(e, Head(line[e]))
    /\ rawGot' = rawGot \cup {<<e, Head(line[e]).content>>}
    /\ line' = [line EXCEPT ![e] = Tail(@)]
    /\ UNCHANGED <<net, up, receiving, sendq, recvq, forwards, sent, got>>

\* receiver of a raw pipe: first "a empty message to make a connection", then what was read
RawRecv(e) ==
    /\ e \in up \cap receiving /\ net.kind[e] = "raw"
    /\ LET opened == <<e, "open">> \in sent
           content == IF opened THEN Request(e) ELSE <<>>
       IN  /\ <<e, SendTypeToOne>> \notin sent
           /\ sent' = sent \cup {<<e, IF opened THEN SendTypeToOne ELSE "open">>}
           /\ recvq' = [recvq EXCEPT ![net.sock[e]] = Append(@, NewRawRecvMessage(net.id[e], content))]
    /\ UNCHANGED <<net, up, receiving, line, sendq, forwards, got, rawGot>>

\* the program ends its output, without CloseOnEOF: receiver passes on an empty
\* message and ends, and the pipe stays open for answers
RawEOF(e) ==
    /\ e \in up \cap receiving /\ net.kind[e] = "raw" /\ <<e, "open">> \in sent
    /\ recvq' = [recvq EXCEPT ![net.sock[e]] = Append(@, NewRawRecvMessage(net.id[e], <<>>))]
    /\ receiving' = receiving \ {e}
    /\ UNCHANGED <<net, up, line, sendq, forwards, sent, got, rawGot>>

\* the peer goes away
Leave(e) ==
    /\ e \in net.leaves \cap up
    /\ Broken(e)
    /\ UNCHANGED <<net, recvq, forwards, sent, got, rawGot>>

-----------------------------------------------------------------------------
(* Receiving *)

\* forward: RecvMsg from s and SendMsg to its twin
Forward(s) ==
    /\ s \in forwards /\ recvq[s] # <<>>
    /\ LET m == Head(recvq[s])
           t == net.twin[s]
       IN  /\ ~(net.mate[t] = None /\ m.ttl # 0 /\ m.type = SendTypeToDest /\ PathBroken(t, m))
           /\ IF net.mate[t] = None THEN SocketSendMsg(t, m, s) ELSE PairSendMsg(t, m, s)
    /\ UNCHANGED <<net, up, receiving, forwards, sent, got, rawGot>>

\* forward breaks out of its loop when SendMsg returns ErrBrokenPath
ForwardEnds(s) ==
    /\ s \in forwards /\ recvq[s] # <<>>
    /\ LET m == Head(recvq[s])
           t == net.twin[s]
       IN  net.mate[t] = None /\ m.ttl # 0 /\ m.type = SendTypeToDest /\ PathBroken(t, m)
    /\ recvq' = [recvq EXCEPT ![s] = Tail(@)]
    /\ forwards' = forwards \ {s}
    /\ UNCHANGED <<net, up, receiving, line, sendq, sent, got, rawGot>>

\* an application receives; one that answers calls SendTo with the message's source
AppReceives(s) ==
    /\ s \in net.sockets /\ net.twin[s] = None /\ recvq[s] # <<>>
    /\ LET m == Head(recvq[s])
           reply == NewSendMessage(FALSE, SendTypeToDest, net.ttl, <<>>, m.source, <<Reply, Asker(m.content)>>)
       IN  /\ got' = got \cup {<<s, m>>}
           /\ \/ /\ s \in net.answers /\ IsRequest(m) /\ net.mate[s] = None
                 /\ recvq' = [recvq EXCEPT ![s] = Tail(@)]
                 /\ ToDest(s, reply)
              \/ /\ s \in net.answers /\ IsRequest(m) /\ net.mate[s] # None
                 /\ PairSendMsg(s, reply, s)
              \/ /\ ~(s \in net.answers /\ IsRequest(m))
                 /\ recvq' = [recvq EXCEPT ![s] = Tail(@)]
                 /\ UNCHANGED <<line, sendq>>
    /\ UNCHANGED <<net, up, receiving, forwards, sent, rawGot>>

-----------------------------------------------------------------------------
EndNext(e) ==
    Take(e) \/ Arrives(e) \/ ReceiverFails(e) \/ Ignores(e) \/ RawArrives(e)

SocketNext(s) == Forward(s) \/ ForwardEnds(s) \/ AppReceives(s)

Next ==
    \/ \E s \in Sockets, t \in SendTypes : AppSends(s, t)
    \/ \E e \in Ends : EndNext(e) \/ RawRecv(e) \/ RawEOF(e) \/ Leave(e)
    \/ \E s \in Sockets : SocketNext(s)

Spec == Init /\ [][Next]_vars

\* goroutines run: senders, receivers, forward loops and applications that receive
FairSpec ==
    /\ Spec
    /\ \A e \in Ends : WF_vars(EndNext(e))
    /\ \A s \in Sockets : WF_vars(SocketNext(s))

-----------------------------------------------------------------------------
(* Properties *)

Queued == {line[e] : e \in net.ends} \cup {sendq[s] : s \in net.sockets} \cup {recvq[s] : s \in net.sockets}

\* every message that exists: on its way, or with an application
Messages == (UNION {Range(q) : q \in Queued}) \cup {g[2] : g \in got}

\* SendTTL, as NewSendMessage understands it
Budget == IF net.ttl = 0 THEN DefaultMsgTTL ELSE net.ttl

IsMessage(m) ==
    /\ m.raw \in BOOLEAN /\ m.type \in SendTypes
    /\ m.ttl \in 0 .. 255 /\ m.hops \in 0 .. 255 /\ m.distance \in 0 .. 255 /\ m.length \in Nat

\* The variables have the values their comments say.
TypeOK ==
    /\ up \subseteq net.ends /\ receiving \subseteq net.ends /\ forwards \subseteq net.sockets
    /\ DOMAIN line = net.ends /\ DOMAIN sendq = net.sockets /\ DOMAIN recvq = net.sockets
    /\ \A g \in got : g[1] \in net.sockets
    /\ \A m \in Messages : IsMessage(m)

\* However a message was received, forwarded or duplicated, TTL + Hops is what
\* its sender's SendTTL was; no uint8 has wrapped (test/socket_test.go:230).
TTLConserved ==
    \A m \in Messages : m.ttl + m.hops = IF m.raw THEN 256 ELSE Budget

\* The counts in the meta data agree with the slices, so that the next node and
\* Dup cut the buffer where this one did.
CountsMatchPaths ==
    \A m \in Messages :
        m.hops = Len(m.source) /\ m.distance = Len(m.dest) /\ m.length = Len(m.content)

\* the socket whose pipe ids are at the head of a path that s has received
PathStart(s) == IF s = None \/ net.mate[s] = None THEN s ELSE net.twin[net.mate[s]]

\* what is at the other end: a socket, or a raw program
Beyond(e) == IF net.kind[e] = "raw" THEN e ELSE net.sock[net.peer[e]]

\* whose pipe ids follow on a path that has come to x: the twin has them
GoesOn(x) == IF x \in net.sockets THEN PathStart(net.twin[x]) ELSE None

\* over the pipe of t with that id
Hop(t, id) ==
    LET named == {e \in net.ends : net.sock[e] = t /\ net.id[e] = id}
    IN  IF named = {} THEN None ELSE Beyond(CHOOSE e \in named : TRUE)

\* where the ids of a path lead: a socket, or a raw end
Walk(s, path) ==
    LET place[i \in 0 .. Len(path)] ==
            IF i = 0 THEN None ELSE Hop(IF i = 1 THEN PathStart(s) ELSE GoesOn(place[i - 1]), path[i])
    IN  place[Len(path)]

\* The source of a received request leads back to who asked, through every
\* switch, pair and kind of connection it came over.
SourceLeadsHome ==
    \A g \in got : IsRequest(g[2]) => Walk(g[1], g[2].source) = Asker(g[2].content)

\* SendTo with the source of a request answers who asked, and nobody else
\* receives the answer (types.go:24).
ReplyReachesRequester ==
    /\ \A g \in got : IsReply(g[2]) => Asker(g[2].content) = g[1] /\ g[2].distance = 0
    /\ \A g \in rawGot : Len(g[2]) = 2 => Asker(g[2]) = g[1]

Answered(x) ==
    \/ \E g \in got : g[1] = x /\ IsReply(g[2])
    \/ \E g \in rawGot : g[1] = x

Askers == UNION {n.asks : n \in Nets}

\* Whoever asks an application that answers, with a SendTTL that reaches it,
\* gets the answer: the forward loops of the switches do their work.
AnswerComes ==
    \A x \in Askers :
        [](x \in net.asks /\ <<x, SendTypeToOne>> \in sent => <>Answered(x))
=============================================================================
