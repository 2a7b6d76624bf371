---------------------------- MODULE AddressProofs ----------------------------
(***************************************************************************)
(* Addresses: the listeners of tcp, ipc and websocket that hold them, and  *)
(* the options they carry.                                                 *)
(***************************************************************************)
EXTENDS NetListeners, Options, SequenceTheorems, TLAPS

\* the provers, in the order in which they are tried
USE ZenonT(3), SMT, ZenonT(20), Z3

-----------------------------------------------------------------------------
(***************************************************************************)
(* Whose the socket file of an ipc address is, and what a closed listener  *)
(* of tcp, ipc or websocket leaves behind, for every number of listeners   *)
(* and connections.                                                        *)
(***************************************************************************)

\* NetTypeOK and PathLeadsHome hold at the beginning.
LEMMA NetTypeInit == NetInit => NetTypeOK /\ PathLeadsHome
  <1> SUFFICES ASSUME NetInit PROVE NetTypeOK /\ PathLeadsHome
    OBVIOUS
  <1>1. NetTypeOK
    BY EmptySeq DEF NetInit, NetTypeOK
  <1> QED BY <1>1 DEF NetInit, PathLeadsHome

\* The variables keep their types.
LEMMA NetTypeStep == NetTypeOK /\ [NetNext]_netvars => NetTypeOK'
  <1> SUFFICES ASSUME NetTypeOK, [NetNext]_netvars PROVE NetTypeOK'
    OBVIOUS
  <1> USE DEF NetTypeOK
  <1>1. ASSUME NEW l \in Servers, NetListenChecks(l) PROVE NetTypeOK'
    BY <1>1 DEF NetListenChecks
  <1>2. ASSUME NEW l \in Servers, StatsPath(l) PROVE NetTypeOK'
    BY <1>2 DEF StatsPath
  <1>3. ASSUME NEW l \in Servers, RemovesPath(l) PROVE NetTypeOK'
    BY <1>3 DEF RemovesPath
  <1>4. ASSUME NEW l \in Servers, NetListenBinds(l) PROVE NetTypeOK'
    <2>1. CASE InUse
      BY <1>4, <2>1 DEF NetListenBinds
    <2>2. CASE ~InUse
      <3>1. osl' \in [Servers -> {"none", "open", "closed"}] /\ file' \in Servers \cup {NoServer, Foreign}
        BY <1>4, <2>2, ZenonT(60) DEF NetListenBinds
      <3>2. /\ listening' \in [Servers -> {"new", "open", "remove", "bind", "done", "error"}]
            /\ serving' \in [Servers -> {"none", "check", "accept", "sleep", "ended"}]
        BY ZenonT(60), <1>4, <2>2 DEF NetListenBinds
      <3>3. overtaken' \in SUBSET Servers
        BY <1>4, <2>2 DEF NetListenBinds
      <3> QED BY <1>4, <3>1, <3>2, <3>3 DEF NetListenBinds
    <2> QED BY <2>1, <2>2
  <1>5. ASSUME NEW l \in Servers, CloseMarks(l) PROVE NetTypeOK'
    BY <1>5 DEF CloseMarks
  <1>6. ASSUME NEW l \in Servers, CloseSocket(l) PROVE NetTypeOK'
    <2>1. CASE osl[l] = "open"
      <3>1. peer' \in [Peers -> {"new", "backlog", "handler", "checked", "pending", "pipe", "gone"}]
        BY <1>6, <2>1 DEF CloseSocket, WithoutBacklog
      <3>2. osl' \in [Servers -> {"none", "open", "closed"}] /\ file' \in Servers \cup {NoServer, Foreign}
        BY <1>6, <2>1 DEF CloseSocket
      <3> QED BY <1>6, <3>1, <3>2 DEF CloseSocket
    <2>2. CASE osl[l] # "open"
      BY <1>6, <2>2 DEF CloseSocket
    <2> QED BY <2>1, <2>2
  <1>7. ASSUME NEW l \in Servers, CloseDrains(l) PROVE NetTypeOK'
    <2>1. CASE pending[l] = <<>>
      BY <1>7, <2>1 DEF CloseDrains
    <2>2. CASE pending[l] # <<>>
      <3>1. Tail(pending[l]) \in Seq(Peers) /\ Head(pending[l]) \in Peers
        BY <2>2, HeadTailProperties
      <3> QED BY ZenonT(60), <1>7, <2>2, <3>1 DEF CloseDrains
    <2> QED BY <2>1, <2>2
  <1>8. ASSUME NEW l \in Servers, Crash(l) PROVE NetTypeOK'
    BY <1>8 DEF Crash
  <1>9. ASSUME NEW l \in Servers, ServeChecks(l) PROVE NetTypeOK'
    BY <1>9 DEF ServeChecks
  <1>10. ASSUME NEW l \in Servers, AcceptsConn(l) PROVE NetTypeOK'
    <2>1. UNCHANGED <<scheme, osl, file, listening, shut, shutting, pending, overtaken, rivalry, at, passed>>
      BY <1>10 DEF AcceptsConn
    <2>2. PICK c \in Peers, s \in {"pipe", "gone"}, t \in {"check", "sleep"} :
             peer' = [peer EXCEPT ![c] = s] /\ serving' = [serving EXCEPT ![l] = t]
      BY <1>10 DEF AcceptsConn
    <2> QED BY <2>1, <2>2
  <1>11. ASSUME NEW l \in Servers, AcceptFails(l) PROVE NetTypeOK'
    BY <1>11 DEF AcceptFails
  <1>12. ASSUME NEW l \in Servers, NetServeWakes(l) PROVE NetTypeOK'
    BY <1>12 DEF NetServeWakes
  <1>13. ASSUME NEW l \in Servers, WsAccepts(l) PROVE NetTypeOK'
    <2>0. UNCHANGED <<scheme, osl, file, listening, shut, shutting, overtaken, rivalry, at, passed>>
      BY <1>13 DEF WsAccepts
    <2>1. ASSUME NEW s \in {"pipe", "gone"}, pending[l] # <<>>, pending' = [pending EXCEPT ![l] = Tail(@)],
                 peer' = [peer EXCEPT ![Head(pending[l])] = s], UNCHANGED serving
          PROVE  NetTypeOK'
      <3>1. Tail(pending[l]) \in Seq(Peers) /\ Head(pending[l]) \in Peers
        BY <2>1, HeadTailProperties
      <3> QED BY <2>0, <2>1, <3>1
    <2>2. CASE UNCHANGED <<pending, peer>> /\ serving' = [serving EXCEPT ![l] = "ended"]
      BY <2>0, <2>2
    <2> QED BY <1>13, <2>1, <2>2 DEF WsAccepts
  <1>14. ASSUME NEW c \in Peers, Connect(c) PROVE NetTypeOK'
    BY <1>14 DEF Connect, slvars
  <1>15. ASSUME NEW c \in Peers, HttpServes(c) PROVE NetTypeOK'
    BY <1>15 DEF HttpServes, slvars
  <1>16. ASSUME NEW c \in Peers, HandlerChecks(c) PROVE NetTypeOK'
    BY <1>16 DEF HandlerChecks, slvars
  <1>17. ASSUME NEW c \in Peers, HandlerPushes(c) PROVE NetTypeOK'
    <2>1. /\ peer' = [peer EXCEPT ![c] = "pending"] /\ pending' = [pending EXCEPT ![at[c]] = Append(@, c)]
          /\ UNCHANGED <<scheme, osl, file, listening, shut, shutting, serving, overtaken, rivalry, at, passed>>
      BY <1>17 DEF HandlerPushes
    <2>2. pending' \in [Servers -> Seq(Peers)]
      BY <2>1, AppendProperties
    <2> QED BY <2>1, <2>2
  <1>18. CASE UNCHANGED netvars
    BY <1>18 DEF netvars, slvars
  <1> QED BY <1>1, <1>2, <1>3, <1>4, <1>5, <1>6, <1>7, <1>8, <1>9, <1>10, <1>11, <1>12, <1>13, <1>14, <1>15, <1>16, <1>17, <1>18
          DEF NetNext, NetListens, NetCloses, NetServes

\* No step takes the path away from the listener that is open.
LEMMA PathStep == NetTypeOK /\ PathLeadsHome /\ [NetNext]_netvars => PathLeadsHome'
  <1> SUFFICES ASSUME NetTypeOK, PathLeadsHome, [NetNext]_netvars PROVE PathLeadsHome'
    OBVIOUS
  <1> USE ServersAssumption DEF NetTypeOK, PathLeadsHome
  <1>1. ASSUME NEW l \in Servers, NetListenChecks(l) PROVE PathLeadsHome'
    BY <1>1 DEF NetListenChecks
  <1>2. ASSUME NEW l \in Servers, StatsPath(l) PROVE PathLeadsHome'
    BY <1>2 DEF StatsPath
  <1>3. ASSUME NEW l \in Servers, RemovesPath(l) PROVE PathLeadsHome'
    BY <1>3 DEF RemovesPath
  <1>4. ASSUME NEW l \in Servers, NetListenBinds(l) PROVE PathLeadsHome'
    BY <1>4 DEF NetListenBinds, InUse
  <1>5. ASSUME NEW l \in Servers, CloseMarks(l) PROVE PathLeadsHome'
    BY <1>5 DEF CloseMarks
  <1>6. ASSUME NEW l \in Servers, CloseSocket(l) PROVE PathLeadsHome'
    BY <1>6 DEF CloseSocket, WithoutBacklog
  <1>7. ASSUME NEW l \in Servers, CloseDrains(l) PROVE PathLeadsHome'
    BY <1>7 DEF CloseDrains
  <1>8. ASSUME NEW l \in Servers, Crash(l) PROVE PathLeadsHome'
    BY <1>8 DEF Crash
  <1>9. ASSUME NEW l \in Servers, ServeChecks(l) PROVE PathLeadsHome'
    BY <1>9 DEF ServeChecks
  <1>10. ASSUME NEW l \in Servers, AcceptsConn(l) PROVE PathLeadsHome'
    BY <1>10 DEF AcceptsConn
  <1>11. ASSUME NEW l \in Servers, AcceptFails(l) PROVE PathLeadsHome'
    BY <1>11 DEF AcceptFails
  <1>12. ASSUME NEW l \in Servers, NetServeWakes(l) PROVE PathLeadsHome'
    BY <1>12 DEF NetServeWakes
  <1>13. ASSUME NEW l \in Servers, WsAccepts(l) PROVE PathLeadsHome'
    BY <1>13 DEF WsAccepts
  <1>14. ASSUME NEW c \in Peers, Connect(c) PROVE PathLeadsHome'
    BY <1>14 DEF Connect, slvars
  <1>15. ASSUME NEW c \in Peers, HttpServes(c) PROVE PathLeadsHome'
    BY <1>15 DEF HttpServes, slvars
  <1>16. ASSUME NEW c \in Peers, HandlerChecks(c) PROVE PathLeadsHome'
    BY <1>16 DEF HandlerChecks, slvars
  <1>17. ASSUME NEW c \in Peers, HandlerPushes(c) PROVE PathLeadsHome'
    BY <1>17 DEF HandlerPushes
  <1>18. CASE UNCHANGED netvars
    BY <1>18 DEF netvars, slvars
  <1> QED BY <1>1, <1>2, <1>3, <1>4, <1>5, <1>6, <1>7, <1>8, <1>9, <1>10, <1>11, <1>12, <1>13, <1>14, <1>15, <1>16, <1>17, <1>18
          DEF NetNext, NetListens, NetCloses, NetServes

\* Whatever listeners of an ipc address crash and are replaced, the socket file
\* is that of the listener that is open, unless one took it from another that
\* was open (ipc_unix.go:46).
THEOREM PathIsKept == NetSpec => []PathLeadsHome
  BY NetTypeInit, NetTypeStep, PathStep, PTL DEF NetSpec

\* a connection is new until it has a listener
Sites == \A c \in Peers : peer[c] = "new" <=> at[c] = NoServer

\* only websocket connections have a handler and wait to be accepted
NoHandlers == ~IsWs => \A c \in Peers : peer[c] \notin {"handler", "checked", "pending"}

\* Close begins with closedq; a process may also die
Marked == \A l \in Servers : shutting[l] # "new" => l \in shut \/ scheme = "ipc"

\* the operating system holds connections for open sockets only
Backlogged == \A c \in Peers : peer[c] = "backlog" => scheme # "wsx" /\ osl[at[c]] = "open"

\* past its middle, Close has closed the socket
SocketGone ==
    \A l \in Servers : shutting[l] \in {"drain", "closed"} /\ l \notin overtaken => osl[l] # "open"

\* a handler that has seen closedq open was there when it was closed
PassedOnly == \A c \in Peers : peer[c] = "checked" /\ at[c] \in shut => c \in passed

\* what is pending is in the queue, so an empty queue leaves nothing behind
Queued == \A c \in Peers : peer[c] = "pending" => \E k \in 1 .. Len(pending[at[c]]) : pending[at[c]][k] = c

\* and what is in the queue has a listener
Listed == \A l \in Servers : \A k \in 1 .. Len(pending[l]) : peer[pending[l][k]] # "new"

NetInv ==
    /\ NetTypeOK /\ Sites /\ NoHandlers /\ Marked /\ Backlogged /\ SocketGone
    /\ PassedOnly /\ Queued /\ Listed /\ CloseReleases

-----------------------------------------------------------------------------
\* The connection at the head of a queue has a listener.
LEMMA PendingHasListener ==
  ASSUME NetInv, NEW l \in Servers, pending[l] # <<>>
  PROVE  Head(pending[l]) \in Peers /\ peer[Head(pending[l])] # "new"
  <1>1. pending[l] \in Seq(Peers) /\ Len(pending[l]) \in Nat \ {0} /\ Head(pending[l]) = pending[l][1]
    BY EmptySeq DEF NetInv, NetTypeOK
  <1> QED BY <1>1, HeadTailProperties DEF NetInv, Listed

\* No step disturbs what Close has achieved, apart from the queue.
LEMMA ReleaseStep ==
  NetInv /\ [NetNext]_netvars =>
    Sites' /\ NoHandlers' /\ Marked' /\ Backlogged' /\ SocketGone' /\ PassedOnly' /\ CloseReleases'
  <1> DEFINE Rest == Sites /\ NoHandlers /\ Marked /\ Backlogged /\ SocketGone /\ PassedOnly /\ CloseReleases
  <1> SUFFICES ASSUME NetInv, [NetNext]_netvars PROVE Rest'
    OBVIOUS
  <1> USE ServersAssumption DEF NetInv, NetTypeOK, Sites, NoHandlers, Marked, Backlogged, SocketGone, PassedOnly, CloseReleases, IsWs
  <1>1. ASSUME NEW l \in Servers, NetListenChecks(l) PROVE Rest'
    BY <1>1 DEF NetListenChecks
  <1>2. ASSUME NEW l \in Servers, StatsPath(l) PROVE Rest'
    BY <1>2 DEF StatsPath
  <1>3. ASSUME NEW l \in Servers, RemovesPath(l) PROVE Rest'
    BY <1>3 DEF RemovesPath
  <1>4. ASSUME NEW l \in Servers, NetListenBinds(l) PROVE Rest'
    BY <1>4 DEF NetListenBinds, InUse
  <1>5. ASSUME NEW l \in Servers, CloseMarks(l) PROVE Rest'
    BY <1>5 DEF CloseMarks
  <1>6. ASSUME NEW l \in Servers, CloseSocket(l) PROVE Rest'
    BY <1>6 DEF CloseSocket, WithoutBacklog
  <1>7. ASSUME NEW l \in Servers, CloseDrains(l) PROVE Rest'
    <2>0. UNCHANGED <<scheme, osl, file, listening, shut, serving, overtaken, rivalry, at, passed>> /\ shutting[l] = "drain"
      BY <1>7 DEF CloseDrains
    <2>1. CASE pending[l] # <<>>
      <3>1. Head(pending[l]) \in Peers /\ peer[Head(pending[l])] # "new"
        BY <2>1, PendingHasListener
      <3>2. peer' = [peer EXCEPT ![Head(pending[l])] = "gone"] /\ UNCHANGED shutting
        BY <1>7, <2>1 DEF CloseDrains
      <3> QED BY <2>0, <3>1, <3>2
    <2>2. CASE pending[l] = <<>>
      <3>1. shutting' = [shutting EXCEPT ![l] = "closed"] /\ UNCHANGED peer
        BY <1>7, <2>2 DEF CloseDrains
      <3>2. \A c \in Peers : at[c] = l => peer[c] # "pending"
        BY <2>2 DEF Queued
      <3>3. CloseReleases'
        BY <2>0, <3>1, <3>2
      <3> QED BY <2>0, <3>1, <3>3
    <2> QED BY <2>1, <2>2
  <1>8. ASSUME NEW l \in Servers, Crash(l) PROVE Rest'
    BY <1>8 DEF Crash
  <1>9. ASSUME NEW l \in Servers, ServeChecks(l) PROVE Rest'
    BY <1>9 DEF ServeChecks
  <1>10. ASSUME NEW l \in Servers, AcceptsConn(l) PROVE Rest'
    <2>1. UNCHANGED <<scheme, osl, file, listening, shut, shutting, pending, overtaken, rivalry, at, passed>>
      BY <1>10 DEF AcceptsConn
    <2>2. PICK c \in Peers, s \in {"pipe", "gone"} : peer[c] = "backlog" /\ peer' = [peer EXCEPT ![c] = s]
      BY <1>10 DEF AcceptsConn
    <2> QED BY <2>1, <2>2
  <1>11. ASSUME NEW l \in Servers, AcceptFails(l) PROVE Rest'
    BY <1>11 DEF AcceptFails
  <1>12. ASSUME NEW l \in Servers, NetServeWakes(l) PROVE Rest'
    BY <1>12 DEF NetServeWakes
  <1>13. ASSUME NEW l \in Servers, WsAccepts(l) PROVE Rest'
    <2>0. UNCHANGED <<scheme, osl, file, listening, shut, shutting, overtaken, rivalry, at, passed>>
      BY <1>13 DEF WsAccepts
    <2>1. ASSUME NEW s \in {"pipe", "gone"}, pending[l] # <<>>, peer' = [peer EXCEPT ![Head(pending[l])] = s], IsWs
          PROVE  Rest'
      <3>1. Head(pending[l]) \in Peers /\ peer[Head(pending[l])] # "new"
        BY <2>1, PendingHasListener
      <3> QED BY <2>0, <2>1, <3>1
    <2>2. CASE UNCHANGED peer
      BY <2>0, <2>2
    <2> QED BY <1>13, <2>1, <2>2 DEF WsAccepts
  <1>14. ASSUME NEW c \in Peers, Connect(c) PROVE Rest'
    BY <1>14 DEF Connect, slvars
  <1>15. ASSUME NEW c \in Peers, HttpServes(c) PROVE Rest'
    BY <1>15 DEF HttpServes, slvars
  <1>16. ASSUME NEW c \in Peers, HandlerChecks(c) PROVE Rest'
    BY <1>16 DEF HandlerChecks, slvars
  <1>17. ASSUME NEW c \in Peers, HandlerPushes(c) PROVE Rest'
    BY <1>17 DEF HandlerPushes
  <1>18. CASE UNCHANGED netvars
    BY <1>18 DEF netvars, slvars
  <1> QED BY <1>1, <1>2, <1>3, <1>4, <1>5, <1>6, <1>7, <1>8, <1>9, <1>10, <1>11, <1>12, <1>13, <1>14, <1>15, <1>16, <1>17, <1>18
          DEF NetNext, NetListens, NetCloses, NetServes

\* What Accept or Close takes from a queue is no longer pending.
LEMMA QueueTaken ==
  ASSUME NetInv, NEW l \in Servers, pending[l] # <<>>, NEW s \in {"pipe", "gone"}, UNCHANGED at,
         pending' = [pending EXCEPT ![l] = Tail(@)], peer' = [peer EXCEPT ![Head(pending[l])] = s]
  PROVE  Queued' /\ Listed'
  <1> USE ServersAssumption DEF NetInv, NetTypeOK, Sites
  <1>1. /\ Len(pending[l]) \in Nat \ {0} /\ Head(pending[l]) = pending[l][1] /\ Head(pending[l]) \in Peers
        /\ Len(pending'[l]) = Len(pending[l]) - 1
        /\ \A k \in 1 .. Len(pending'[l]) : pending'[l][k] = pending[l][k + 1]
    BY EmptySeq, HeadTailProperties
  <1>2. \A m \in Servers : m # l => pending'[m] = pending[m]
    OBVIOUS
  <1>3. Queued'
    <2> SUFFICES ASSUME NEW c \in Peers, peer'[c] = "pending"
                 PROVE  \E k \in 1 .. Len(pending'[at'[c]]) : pending'[at'[c]][k] = c
      BY DEF Queued
    <2>1. c # Head(pending[l]) /\ peer[c] = "pending" /\ at[c] \in Servers
      BY <1>1
    <2>2. PICK k \in 1 .. Len(pending[at[c]]) : pending[at[c]][k] = c
      BY <2>1 DEF Queued
    <2>3. CASE at[c] = l
      <3>1. k - 1 \in 1 .. Len(pending'[l]) /\ pending'[l][k - 1] = c
        BY <1>1, <2>1, <2>2, <2>3
      <3> QED BY <2>3, <3>1
    <2>4. CASE at[c] # l
      BY <1>2, <2>1, <2>2, <2>4
    <2> QED BY <2>3, <2>4
  <1>4. Listed'
    <2> SUFFICES ASSUME NEW m \in Servers, NEW k \in 1 .. Len(pending'[m]) PROVE peer'[pending'[m][k]] # "new"
      BY DEF Listed
    <2>1. PICK j \in 1 .. Len(pending[m]) : pending'[m][k] = pending[m][j]
      BY <1>1, <1>2
    <2>2. pending[m][j] \in Peers /\ peer[pending[m][j]] # "new"
      BY <2>1, ElementOfSeq DEF Listed
    <2> QED BY <1>1, <2>1, <2>2
  <1> QED BY <1>3, <1>4

\* The queue and the connections that are pending stay in step.
LEMMA QueueStep == NetInv /\ [NetNext]_netvars => Queued' /\ Listed'
  <1> DEFINE Both == Queued /\ Listed
  <1> SUFFICES ASSUME NetInv, [NetNext]_netvars PROVE Both'
    OBVIOUS
  <1> USE ServersAssumption DEF NetInv, NetTypeOK, Sites, NoHandlers, Queued, Listed, IsWs
  <1>0. \A l \in Servers : \A k \in 1 .. Len(pending[l]) : pending[l][k] \in Peers
    BY ElementOfSeq
  <1>1. ASSUME NEW l \in Servers, NetListenChecks(l) PROVE Both'
    BY <1>1 DEF NetListenChecks
  <1>2. ASSUME NEW l \in Servers, StatsPath(l) PROVE Both'
    BY <1>2 DEF StatsPath
  <1>3. ASSUME NEW l \in Servers, RemovesPath(l) PROVE Both'
    BY <1>3 DEF RemovesPath
  <1>4. ASSUME NEW l \in Servers, NetListenBinds(l) PROVE Both'
    BY <1>4 DEF NetListenBinds, InUse
  <1>5. ASSUME NEW l \in Servers, CloseMarks(l) PROVE Both'
    BY <1>5 DEF CloseMarks
  <1>6. ASSUME NEW l \in Servers, CloseSocket(l) PROVE Both'
    BY <1>6 DEF CloseSocket, WithoutBacklog
  <1>7. ASSUME NEW l \in Servers, CloseDrains(l) PROVE Both'
    <2>1. CASE pending[l] = <<>>
      BY <1>7, <2>1 DEF CloseDrains
    <2>2. CASE pending[l] # <<>>
      BY <1>7, <2>2, QueueTaken DEF CloseDrains
    <2> QED BY <2>1, <2>2
  <1>8. ASSUME NEW l \in Servers, Crash(l) PROVE Both'
    BY <1>8 DEF Crash
  <1>9. ASSUME NEW l \in Servers, ServeChecks(l) PROVE Both'
    BY <1>9 DEF ServeChecks
  <1>10. ASSUME NEW l \in Servers, AcceptsConn(l) PROVE Both'
    BY <1>10 DEF AcceptsConn
  <1>11. ASSUME NEW l \in Servers, AcceptFails(l) PROVE Both'
    BY <1>11 DEF AcceptFails
  <1>12. ASSUME NEW l \in Servers, NetServeWakes(l) PROVE Both'
    BY <1>12 DEF NetServeWakes
  <1>13. ASSUME NEW l \in Servers, WsAccepts(l) PROVE Both'
    <2>1. UNCHANGED at
      BY <1>13 DEF WsAccepts
    <2>2. CASE UNCHANGED <<pending, peer>>
      BY <2>1, <2>2
    <2>3. ASSUME NEW s \in {"pipe", "gone"}, pending[l] # <<>>, pending' = [pending EXCEPT ![l] = Tail(@)],
                 peer' = [peer EXCEPT ![Head(pending[l])] = s]
          PROVE  Both'
      BY <2>1, <2>3, QueueTaken
    <2> QED BY <1>13, <2>2, <2>3 DEF WsAccepts
  <1>14. ASSUME NEW c \in Peers, Connect(c) PROVE Both'
    <2>1. UNCHANGED pending /\ peer[c] = "new"
      BY <1>14 DEF Connect, slvars
    <2>2. PICK l \in Servers, s \in {"handler", "backlog"} : at' = [at EXCEPT ![c] = l] /\ peer' = [peer EXCEPT ![c] = s]
      BY <1>14 DEF Connect
    <2>3. Queued'
      BY <2>1, <2>2
    <2>4. Listed'
      BY <1>0, <2>1, <2>2
    <2> QED BY <2>3, <2>4
  <1>15. ASSUME NEW c \in Peers, HttpServes(c) PROVE Both'
    <2>1. UNCHANGED <<pending, at>> /\ peer[c] = "backlog" /\ peer' = [peer EXCEPT ![c] = "handler"]
      BY <1>15 DEF HttpServes, slvars
    <2>2. Queued'
      BY <2>1
    <2>3. Listed'
      BY <1>0, <2>1
    <2> QED BY <2>2, <2>3
  <1>16. ASSUME NEW c \in Peers, HandlerChecks(c) PROVE Both'
    BY <1>16 DEF HandlerChecks, slvars
  <1>17. ASSUME NEW c \in Peers, HandlerPushes(c) PROVE Both'
    <2>1. /\ UNCHANGED at /\ peer[c] = "checked" /\ peer' = [peer EXCEPT ![c] = "pending"]
          /\ pending' = [pending EXCEPT ![at[c]] = Append(@, c)]
      BY <1>17 DEF HandlerPushes
    <2>2. at[c] \in Servers
      BY <2>1
    <2>3. /\ Len(pending'[at[c]]) = Len(pending[at[c]]) + 1 /\ Len(pending[at[c]]) \in Nat
          /\ pending'[at[c]][Len(pending[at[c]]) + 1] = c
          /\ \A k \in 1 .. Len(pending[at[c]]) : pending'[at[c]][k] = pending[at[c]][k]
      BY <2>1, <2>2, AppendProperties
    <2>4. \A m \in Servers : m # at[c] => pending'[m] = pending[m]
      BY <2>1
    <2>5. Queued'
      <3> SUFFICES ASSUME NEW d \in Peers, peer'[d] = "pending"
                   PROVE  \E k \in 1 .. Len(pending'[at'[d]]) : pending'[at'[d]][k] = d
        OBVIOUS
      <3>1. CASE d = c
        BY <3>1, <2>1, <2>3
      <3>2. CASE d # c
        <4>1. peer[d] = "pending" /\ at[d] \in Servers
          BY <3>2, <2>1
        <4>2. PICK k \in 1 .. Len(pending[at[d]]) : pending[at[d]][k] = d
          BY <4>1
        <4>3. CASE at[d] = at[c]
          <5>1. k \in 1 .. Len(pending[at[c]]) /\ pending[at[c]][k] = d
            BY <4>2, <4>3
          <5>2. k \in 1 .. Len(pending'[at[c]]) /\ pending'[at[c]][k] = d
            BY <5>1, <2>3
          <5> QED BY <5>2, <4>3, <2>1
        <4>4. CASE at[d] # at[c]
          BY <4>1, <4>2, <4>4, <2>1, <2>4
        <4> QED BY <4>3, <4>4
      <3> QED BY <3>1, <3>2
    <2>6. Listed'
      <3> SUFFICES ASSUME NEW m \in Servers, NEW k \in 1 .. Len(pending'[m]) PROVE peer'[pending'[m][k]] # "new"
        OBVIOUS
      <3>1. CASE m = at[c] /\ k = Len(pending[at[c]]) + 1
        BY <3>1, <2>1, <2>3
      <3>2. CASE m # at[c] \/ k # Len(pending[at[c]]) + 1
        <4>1. k \in 1 .. Len(pending[m]) /\ pending'[m][k] = pending[m][k]
          BY <3>2, <2>3, <2>4
        <4> QED BY <4>1, <1>0, <2>1
      <3> QED BY <3>1, <3>2
    <2> QED BY <2>5, <2>6
  <1>18. CASE UNCHANGED netvars
    BY <1>18 DEF netvars, slvars
  <1> QED BY <1>1, <1>2, <1>3, <1>4, <1>5, <1>6, <1>7, <1>8, <1>9, <1>10, <1>11, <1>12, <1>13, <1>14, <1>15, <1>16, <1>17, <1>18
          DEF NetNext, NetListens, NetCloses, NetServes

-----------------------------------------------------------------------------
\* NetInv holds at the beginning.
LEMMA NetInitInv == NetInit => NetInv
  BY NetTypeInit, ServersAssumption DEF NetInit, NetInv, Sites, NoHandlers, Marked, Backlogged,
     SocketGone, PassedOnly, Queued, Listed, CloseReleases

\* When Close of a tcp, ipc or websocket listener has returned, its socket is
\* closed, and only handlers that had looked at closedq before Close may still
\* bring a connection (tcp.go:127, ipc_unix.go:85, ws.go:279).
THEOREM ClosedIsReleased == NetSpec => []CloseReleases
  <1>1. NetInv /\ [NetNext]_netvars => NetInv'
    BY NetTypeStep, ReleaseStep, QueueStep DEF NetInv
  <1>2. NetInv => CloseReleases
    BY DEF NetInv
  <1> QED BY <1>1, <1>2, NetInitInv, PTL DEF NetSpec

-----------------------------------------------------------------------------
(***************************************************************************)
(* Options reach their readers from the text of an address, for all widths *)
(* of Go's integers and all numbers.                                       *)
(***************************************************************************)

\* What ParseOption has left in the address: a value that Parse made of its text.
ItemInv ==
    /\ registered \subseteq OptionKinds
    /\ astate \in {"parsed", "used"} =>
           /\ item.kind \in OptionKinds /\ item.text \in Texts
           /\ item.val = Parse(item.kind, item.text) /\ item.val # Invalid

\* The options that the registry knows of are of these types.
LEMMA KindsAndNumbers ==
    /\ "error" \notin OptionKinds /\ "int64" \notin OptionKinds /\ "uint64" \notin OptionKinds
    /\ \A k \in UintKinds : NumbersOf(k) = Unsigned(Bits[k])
    /\ NumbersOf("int") = Signed(Bits["int"]) /\ NumbersOf("int64") = Signed(Bits["int"])
    /\ NumbersOf("int32") = Signed(Bits["int32"])
    /\ \A k \in {"bool", "string", "duration"} : NumbersOf(k) = {0, 1}
BY DEF OptionKinds, UintKinds, NumbersOf

\* A text that Parse takes is a number of the option's kind, and Validate gives
\* it back under the option's own type.
LEMMA ParsedIsValid ==
    ASSUME NEW k \in OptionKinds, NEW text \in Texts, Parse(k, text) # Invalid
    PROVE  /\ text \in NumbersOf(k)
           /\ Validate(k, Parse(k, text)) = [type |-> k, n |-> text]
<1>1. CASE k \in UintKinds
  <2>1. text \in Unsigned(Bits[k]) /\ Parse(k, text) = [type |-> "uint64", n |-> text]
    BY <1>1 DEF Parse, UintKinds
  <2>2. text \in NumbersOf(k)
    BY <1>1, <2>1, KindsAndNumbers
  <2>3. k = "uint32" => text % 2^Bits["uint32"] = text
    <3>1. Bits["uint32"] \in Nat /\ text \in Int
      BY BitsAssumption
    <3>2. 2^Bits["uint32"] \in Int
      BY <3>1
    <3> QED
      BY <2>1, <3>1, <3>2 DEF Unsigned
  <2> QED
    BY <1>1, <2>1, <2>2, <2>3 DEF Validate, UintKinds
<1>2. CASE k \in {"int", "int32"}
  <2>1. text \in Signed(Bits[k]) /\ Parse(k, text) = [type |-> "int64", n |-> text]
    BY <1>2 DEF Parse, UintKinds
  <2>2. text \in NumbersOf(k)
    BY <1>2, <2>1, KindsAndNumbers
  <2> QED
    BY <1>2, <2>1, <2>2 DEF Validate, UintKinds
<1>3. CASE k \in {"bool", "string", "duration"}
  <2>1. text \in {0, 1} /\ Parse(k, text) = [type |-> k, n |-> text]
    BY <1>3 DEF Parse, UintKinds
  <2> QED
    BY <1>3, <2>1, KindsAndNumbers DEF Validate
<1> QED
  BY <1>1, <1>2, <1>3 DEF OptionKinds

\* What Validate lets through has the option's type and is one of its numbers;
\* it is the number given, cut for an uint64 given to an uint32.
LEMMA ValidIsInRange ==
    ASSUME NEW k \in OptionKinds, NEW val \in Typed, Validate(k, val) # Invalid,
           k = "uint32" => 2^Bits["uint32"] > 0
    PROVE  /\ Validate(k, val).type = k /\ Validate(k, val).n \in NumbersOf(k)
           /\ Validate(k, val).n = IF k = "uint32" /\ val.type = "uint64" THEN val.n % 2^Bits["uint32"] ELSE val.n
<1>0. PICK t \in OptionKinds \cup {"int64", "uint64"} : \E n \in NumbersOf(t) : val = [type |-> t, n |-> n]
  BY DEF Typed
<1>1. PICK n \in NumbersOf(t) : val = [type |-> t, n |-> n]
  BY <1>0
<1>2. val.type = t /\ val.n = n
  BY <1>1
<1>3. CASE t = k
  BY <1>1, <1>2, <1>3 DEF Validate
<1>4. CASE t # k /\ k = "uint32" /\ t = "uint64"
  <2>1. Validate(k, val) = [type |-> k, n |-> n % 2^Bits["uint32"]]
    BY <1>2, <1>4 DEF Validate, UintKinds
  <2>2. n \in Int /\ 2^Bits["uint32"] \in Int
    BY <1>4, BitsAssumption DEF NumbersOf, Unsigned, UintKinds
  <2>3. n % 2^Bits["uint32"] \in Unsigned(Bits["uint32"])
    BY <2>2, <1>4 DEF Unsigned
  <2> QED
    BY <1>2, <1>4, <2>1, <2>3, KindsAndNumbers DEF UintKinds
<1>5. CASE t # k /\ k = "int" /\ t = "int64"
  BY <1>1, <1>2, <1>5, KindsAndNumbers DEF Validate, UintKinds
<1>6. CASE t # k /\ ~(k = "uint32" /\ t = "uint64") /\ ~(k = "int" /\ t = "int64")
  <2>1. Validate(k, val) = [type |-> k, n |-> n] /\ n \in NumbersOf(k)
    BY <1>2, <1>6 DEF Validate
  <2>2. Validate(k, val).type = k /\ Validate(k, val).n = n
    BY <2>1
  <2> QED
    BY <2>1, <2>2, <1>2, <1>6
<1> QED
  BY <1>3, <1>4, <1>5, <1>6

\* A read of the option, after Dial or Listen have merged the address's value
\* with the caller's, is as SettingsTakeEffect says.
LEMMA UsesTakesEffect ==
    ASSUME ItemInv, NEW over \in Typed \cup {Invalid}, Uses(over)
    PROVE  SettingsTakeEffect'
<1> DEFINE k == item.kind
<1>1. /\ k \in OptionKinds /\ item.text \in Texts
      /\ item.val = Parse(k, item.text) /\ item.val # Invalid
      /\ item' = item /\ override' = over
  BY DEF ItemInv, Uses, OptionKinds, UintKinds
<1>2. item.text \in NumbersOf(k) /\ Validate(k, item.val) = [type |-> k, n |-> item.text]
  BY <1>1, ParsedIsValid
<1>3. PICK sub \in {Invalid, [type |-> k, n |-> 1]} :
        effective' = ValueFrom(Validate(k, Merged(item.val, over)), sub, [type |-> k, n |-> 0])
  BY DEF Uses
<1>4. [type |-> k, n |-> item.text] # Invalid /\ {0, 1} \subseteq NumbersOf(k) /\ Invalid.n = 0
  BY <1>1, KindsAndNumbers, WidthAssumption DEF Invalid
<1>5. CASE over = Invalid
  <2>1. effective' = [type |-> k, n |-> item.text]
    BY <1>2, <1>3, <1>4, <1>5 DEF Merged, ValueFrom
  <2>2. Validate(k, over) = Invalid
    BY <1>1, <1>5, KindsAndNumbers DEF Validate, Invalid, UintKinds
  <2> QED
    BY <1>1, <1>2, <1>5, <2>1, <2>2 DEF SettingsTakeEffect
<1>6. CASE over # Invalid /\ Validate(k, over) = Invalid
  <2>1. effective' \in {[type |-> k, n |-> 1], [type |-> k, n |-> 0]}
    BY <1>3, <1>6 DEF Merged, ValueFrom
  <2> QED
    BY <1>1, <1>4, <1>6, <2>1 DEF SettingsTakeEffect
<1>7. CASE over # Invalid /\ Validate(k, over) # Invalid
  <2>1. k = "uint32" => 2^Bits["uint32"] > 0
    <3>1. Bits["uint32"] \in Nat
      BY BitsAssumption
    <3>2. 2^Bits["uint32"] \in Int
      BY <3>1
    <3>3. k = "uint32" => 0 \in 0 .. 2^Bits["uint32"] - 1
      BY <1>4, KindsAndNumbers DEF Unsigned, UintKinds
    <3> QED
      BY <3>2, <3>3
  <2>2. effective' = Validate(k, over)
    BY <1>3, <1>7 DEF Merged, ValueFrom
  <2> QED
    BY <1>1, <1>7, <2>1, <2>2, ValidIsInRange DEF SettingsTakeEffect
<1> QED
  BY <1>5, <1>6, <1>7

\* For every set of numbers and all widths: a reader of an option that an
\* address sets gets the number of its text, or the caller's, cut where an
\* uint64 is given to an uint32 option, or neither when the caller's is refused
\* (options.go:666).
THEOREM AddressOptionsTakeEffect == OptionsSpec => []SettingsTakeEffect
<1>1. OptionsInit => ItemInv /\ SettingsTakeEffect
  BY DEF OptionsInit, ItemInv, SettingsTakeEffect
<1>2. ItemInv /\ SettingsTakeEffect /\ [OptionsNext]_optvars => ItemInv' /\ SettingsTakeEffect'
  <2> SUFFICES ASSUME ItemInv, SettingsTakeEffect, [OptionsNext]_optvars
               PROVE  ItemInv' /\ SettingsTakeEffect'
    OBVIOUS
  <2>1. ASSUME UNCHANGED <<item, astate, override, effective>>, registered' \subseteq OptionKinds
        PROVE  ItemInv' /\ SettingsTakeEffect'
    BY <2>1 DEF ItemInv, SettingsTakeEffect
  <2>2. ASSUME NEW t \in Callers, ParseCalled(t) \/ ParseLocks(t) \/ ParseMisses(t)
        PROVE  ItemInv' /\ SettingsTakeEffect'
    BY <2>1, <2>2 DEF ItemInv, ParseCalled, ParseLocks, ParseMisses
  <2>3. ASSUME NEW kind \in OptionKinds, Registers(kind)
        PROVE  ItemInv' /\ SettingsTakeEffect'
    BY <2>1, <2>3 DEF ItemInv, Registers
  <2>4. ASSUME NEW t \in Callers, ParseFinds(t)
        PROVE  ItemInv' /\ SettingsTakeEffect'
    <3>1. CASE astate # "new"
      BY <2>1, <2>4, <3>1 DEF ItemInv, ParseFinds
    <3>2. CASE astate = "new"
      <4>1. PICK kind \in registered, text \in Texts :
              LET val == Parse(kind, text)
              IN  /\ astate' = IF val = Invalid THEN "error" ELSE "parsed"
                  /\ item' = IF val = Invalid THEN NoItem ELSE [kind |-> kind, val |-> val, text |-> text]
        BY <2>4, <3>2 DEF ParseFinds
      <4>2. registered' = registered /\ kind \in OptionKinds
        BY <2>4 DEF ParseFinds, ItemInv
      <4> QED
        BY <4>1, <4>2 DEF ItemInv, SettingsTakeEffect
    <3> QED
      BY <3>1, <3>2
  <2>5. ASSUME NEW over \in Typed \cup {Invalid}, Uses(over)
        PROVE  ItemInv' /\ SettingsTakeEffect'
    BY <2>5, UsesTakesEffect DEF ItemInv, Uses
  <2>6. CASE UNCHANGED optvars
    BY <2>1, <2>6 DEF ItemInv, optvars
  <2> QED
    BY <2>2, <2>3, <2>4, <2>5, <2>6 DEF OptionsNext, ParseOption
<1> QED
  BY <1>1, <1>2, PTL DEF OptionsSpec

=============================================================================
