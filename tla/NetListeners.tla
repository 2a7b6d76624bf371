---------------------------- MODULE NetListeners ----------------------------
(***************************************************************************)
(* The listeners of the tcp, ipc and websocket transports (tcp.go,         *)
(* ipc_unix.go, ipc_windows.go, ws.go) under the serve loop of the         *)
(* connector's listener (connector/listener.go).  All listeners are made   *)
(* for one address, by several processes if the transport allows it.       *)
(* "wsx" is a websocket listener with the option ExternalListen, whose     *)
(* handler belongs to a server of the user.  A step is one select, one     *)
(* critical section or one call of the operating system.                   *)
(***************************************************************************)
EXTENDS Integers, Sequences, FiniteSets

CONSTANTS
    Servers, Peers,     \* transport listeners, connections that peers make to them
    Schemes,            \* transports to choose from
    NoServer,           \* nobody
    Foreign,            \* a file at the path of the address that is no socket
    PendingSize         \* the PendingSize option of ws listeners

ASSUME PendingAssumption == PendingSize \in Nat \ {0}
ASSUME ServersAssumption ==
    {NoServer, Foreign} \cap Servers = {} /\ NoServer # Foreign /\ Schemes \subseteq {"tcp", "ipc", "ws", "wsx"}

VARIABLES
    scheme,     \* the transport
    osl,        \* l.listener: "none", "open", "closed"
    file,       \* ipc: whose socket file is at the path
    listening,  \* Listen: "new", "open" (closedq seen open), "remove", "bind", "done", "error"
    shut,       \* the listeners whose closedq is closed
    shutting,   \* Close: "new", "marked", "drain", "closed"
    serving,    \* serve: "none", "check", "accept", "sleep", "ended"
    pending,    \* l.pending
    peer,       \* a connection: "new", "backlog", "handler", "checked", "pending", "pipe", "gone"
    at,         \* its listener
    passed,     \* handlers that had seen closedq open when it was closed
    rivalry,    \* ipc: a listener took the path from one that was open
    overtaken   \* listeners whose Close was over when Listen had its socket

slvars == <<osl, file, listening, shut, shutting, serving, pending, overtaken, rivalry>>
netvars == <<scheme, slvars, peer, at, passed>>

IsWs == scheme \in {"ws", "wsx"}

NetInit ==
    /\ scheme \in Schemes
    /\ osl = [l \in Servers |-> "none"] /\ file \in {NoServer, Foreign}
    /\ listening = [l \in Servers |-> "new"]
    /\ shut = {} /\ shutting = [l \in Servers |-> "new"]
    /\ serving = [l \in Servers |-> "none"] /\ pending = [l \in Servers |-> <<>>]
    /\ peer = [c \in Peers |-> "new"] /\ at = [c \in Peers |-> NoServer]
    /\ passed = {} /\ rivalry = FALSE /\ overtaken = {}

-----------------------------------------------------------------------------
(* Listen *)

NetListenChecks(l) ==
    /\ listening[l] = "new"
    /\ listening' = [listening EXCEPT ![l] = IF l \in shut THEN "error" ELSE "open"]
    /\ UNCHANGED <<scheme, osl, file, shut, shutting, serving, pending, overtaken, rivalry, peer, at, passed>>

\* ipc: os.Stat finds a socket file, whoever has left it, or no file; any other
\* answer is an error
StatsPath(l) ==
    /\ listening[l] = "open"
    /\ \E next \in {"bind", "remove", "error"} :
          /\ next = "bind" => scheme # "ipc" \/ file = NoServer
          /\ next = "remove" => scheme = "ipc" /\ file \in Servers
          /\ next = "error" => scheme = "ipc"
          /\ listening' = [listening EXCEPT ![l] = next]
    /\ UNCHANGED <<scheme, osl, file, shut, shutting, serving, pending, overtaken, rivalry, peer, at, passed>>

\* os.Remove of the file that is there by now, or its error
RemovesPath(l) ==
    /\ listening[l] = "remove"
    /\ \/ /\ listening' = [listening EXCEPT ![l] = "error"]
          /\ UNCHANGED <<file, rivalry>>
       \/ /\ file \in Servers
          /\ listening' = [listening EXCEPT ![l] = "bind"]
          /\ file' = NoServer
          /\ rivalry' = (rivalry \/ osl[file] = "open")
    /\ UNCHANGED <<scheme, osl, shut, shutting, serving, pending, overtaken, peer, at, passed>>

\* what bind answers: the port, or the path, is in use
InUse == IF scheme = "ipc" THEN file # NoServer ELSE scheme # "wsx" /\ \E l \in Servers : osl[l] = "open"

\* ListenTCP, ListenUnix; Listen returns and, without error, the serve loop starts
NetListenBinds(l) ==
    /\ listening[l] = "bind"
    /\ IF InUse
       THEN /\ listening' = [listening EXCEPT ![l] = "error"]
            /\ UNCHANGED <<osl, file, serving, overtaken>>
       ELSE /\ listening' = [listening EXCEPT ![l] = "done"]
            /\ osl' = [osl EXCEPT ![l] = IF scheme = "wsx" THEN "none" ELSE "open"]
            /\ file' = IF scheme = "ipc" THEN l ELSE file
            /\ serving' = [serving EXCEPT ![l] = IF IsWs THEN "accept" ELSE "check"]
            /\ overtaken' = IF shutting[l] \in {"drain", "closed"} THEN overtaken \cup {l} ELSE overtaken
    /\ UNCHANGED <<scheme, shut, shutting, pending, rivalry, peer, at, passed>>

-----------------------------------------------------------------------------
(* Close *)

CloseMarks(l) ==
    /\ shutting[l] = "new"
    /\ shutting' = [shutting EXCEPT ![l] = "marked"]
    /\ shut' = shut \cup {l}
    /\ passed' = passed \cup {c \in Peers : at[c] = l /\ peer[c] = "checked"}
    /\ UNCHANGED <<scheme, osl, file, listening, serving, pending, overtaken, rivalry, peer, at>>

\* the connections that nobody has taken from a socket go with it
WithoutBacklog(l) == [c \in Peers |-> IF at[c] = l /\ peer[c] = "backlog" THEN "gone" ELSE peer[c]]

\* plausible bug: Close removes the path although the listener never had it
CloseSocket_Unlinks(l) ==
    /\ shutting[l] = "marked"
    /\ shutting' = [shutting EXCEPT ![l] = IF IsWs THEN "drain" ELSE "closed"]
    /\ file' = IF scheme = "ipc" THEN NoServer ELSE file
    /\ IF osl[l] = "open"
       THEN osl' = [osl EXCEPT ![l] = "closed"] /\ peer' = WithoutBacklog(l)
       ELSE UNCHANGED <<osl, peer>>
    /\ UNCHANGED <<scheme, listening, shut, serving, pending, overtaken, rivalry, at, passed>>

\* l.listener.Close(), if there is one; that of ipc unlinks the path, whoever owns the file
CloseSocket(l) ==
    /\ shutting[l] = "marked"
    /\ shutting' = [shutting EXCEPT ![l] = IF IsWs THEN "drain" ELSE "closed"]
    /\ IF osl[l] = "open"
       THEN /\ osl' = [osl EXCEPT ![l] = "closed"]
            /\ file' = IF scheme = "ipc" THEN NoServer ELSE file
            /\ peer' = WithoutBacklog(l)
       ELSE UNCHANGED <<osl, file, peer>>
    /\ UNCHANGED <<scheme, listening, shut, serving, pending, overtaken, rivalry, at, passed>>

\* ws: what is pending is closed, until there is nothing
CloseDrains(l) ==
    /\ shutting[l] = "drain"
    /\ IF pending[l] # <<>>
       THEN /\ pending' = [pending EXCEPT ![l] = Tail(@)]
            /\ peer' = [peer EXCEPT ![Head(pending[l])] = "gone"]
            /\ UNCHANGED shutting
       ELSE /\ shutting' = [shutting EXCEPT ![l] = "closed"]
            /\ UNCHANGED <<pending, peer>>
    /\ UNCHANGED <<scheme, osl, file, listening, shut, serving, overtaken, rivalry, at, passed>>

\* the process of an ipc listener dies: the file stays
Crash(l) ==
    /\ scheme = "ipc" /\ osl[l] = "open"
    /\ osl' = [osl EXCEPT ![l] = "closed"]
    /\ shutting' = [shutting EXCEPT ![l] = "closed"]
    /\ serving' = [serving EXCEPT ![l] = "ended"]
    /\ peer' = [c \in Peers |-> IF at[c] = l THEN "gone" ELSE peer[c]]
    /\ UNCHANGED <<scheme, file, listening, shut, pending, overtaken, rivalry, at, passed>>

-----------------------------------------------------------------------------
(* Connections come *)

\* a peer reaches the socket, or the user's server
Connect(c) ==
    /\ peer[c] = "new"
    /\ \E l \in Servers :
          /\ IF scheme = "wsx" THEN listening[l] = "done"
             ELSE osl[l] = "open" /\ (scheme = "ipc" => file = l)
          /\ at' = [at EXCEPT ![c] = l]
    /\ peer' = [peer EXCEPT ![c] = IF scheme = "wsx" THEN "handler" ELSE "backlog"]
    /\ UNCHANGED <<scheme, slvars, passed>>

\* http.Server.Serve takes a connection and calls ServeHTTP
HttpServes(c) ==
    /\ scheme = "ws" /\ peer[c] = "backlog"
    /\ peer' = [peer EXCEPT ![c] = "handler"]
    /\ UNCHANGED <<scheme, slvars, at, passed>>

\* plausible bug: ServeHTTP does not look at closedq
HandlerChecks_Never(c) ==
    /\ peer[c] = "handler"
    /\ \E s \in {"gone", "checked"} : peer' = [peer EXCEPT ![c] = s]
    /\ UNCHANGED <<scheme, slvars, at, passed>>

\* ServeHTTP: Upgrade, the look at closedq, the subprotocol; each may end it
HandlerChecks(c) ==
    /\ peer[c] = "handler"
    /\ \E s \in {"gone", "checked"} :
          /\ at[c] \in shut => s = "gone"
          /\ peer' = [peer EXCEPT ![c] = s]
    /\ UNCHANGED <<scheme, slvars, at, passed>>

\* l.pending <- c, which waits for room and for nothing else
HandlerPushes(c) ==
    /\ peer[c] = "checked" /\ Len(pending[at[c]]) < PendingSize
    /\ peer' = [peer EXCEPT ![c] = "pending"]
    /\ pending' = [pending EXCEPT ![at[c]] = Append(@, c)]
    /\ UNCHANGED <<scheme, osl, file, listening, shut, shutting, serving, overtaken, rivalry, at, passed>>

-----------------------------------------------------------------------------
(* Accept, in the serve loop *)

\* plausible bug: Accept of tcp and ipc goes straight to the socket
ServeChecks_Never(l) ==
    /\ serving[l] = "check"
    /\ serving' = [serving EXCEPT ![l] = "accept"]
    /\ UNCHANGED <<scheme, osl, file, listening, shut, shutting, pending, overtaken, rivalry, peer, at, passed>>

\* tcp, ipc: ErrClosed ends the loop
ServeChecks(l) ==
    /\ serving[l] = "check"
    /\ serving' = [serving EXCEPT ![l] = IF l \in shut THEN "ended" ELSE "accept"]
    /\ UNCHANGED <<scheme, osl, file, listening, shut, shutting, pending, overtaken, rivalry, peer, at, passed>>

\* AcceptTCP, AcceptUnix; configTCP may refuse the connection, and serve closes
\* it if the connector has stopped the listener
AcceptsConn(l) ==
    /\ ~IsWs /\ serving[l] = "accept"
    /\ \E c \in Peers :
          /\ at[c] = l /\ peer[c] = "backlog"
          /\ \/ /\ \E s \in {"pipe", "gone"} : peer' = [peer EXCEPT ![c] = s]
                /\ serving' = [serving EXCEPT ![l] = "check"]
             \/ /\ scheme = "tcp"
                /\ peer' = [peer EXCEPT ![c] = "gone"]
                /\ serving' = [serving EXCEPT ![l] = "sleep"]
    /\ UNCHANGED <<scheme, osl, file, listening, shut, shutting, pending, overtaken, rivalry, at, passed>>

\* the socket was closed under AcceptTCP, AcceptUnix: an error that is not ErrClosed
AcceptFails(l) ==
    /\ ~IsWs /\ serving[l] = "accept" /\ osl[l] = "closed"
    /\ serving' = [serving EXCEPT ![l] = "sleep"]
    /\ UNCHANGED <<scheme, osl, file, listening, shut, shutting, pending, overtaken, rivalry, peer, at, passed>>

NetServeWakes(l) ==
    /\ serving[l] = "sleep"
    /\ serving' = [serving EXCEPT ![l] = "check"]
    /\ UNCHANGED <<scheme, osl, file, listening, shut, shutting, pending, overtaken, rivalry, peer, at, passed>>

\* ws: the two cases of the select
WsAccepts(l) ==
    /\ IsWs /\ serving[l] = "accept"
    /\ \/ /\ pending[l] # <<>>
          /\ pending' = [pending EXCEPT ![l] = Tail(@)]
          /\ \E s \in {"pipe", "gone"} : peer' = [peer EXCEPT ![Head(pending[l])] = s]
          /\ UNCHANGED serving
       \/ /\ l \in shut
          /\ serving' = [serving EXCEPT ![l] = "ended"]
          /\ UNCHANGED <<pending, peer>>
    /\ UNCHANGED <<scheme, osl, file, listening, shut, shutting, overtaken, rivalry, at, passed>>

-----------------------------------------------------------------------------
NetListens(l) == NetListenChecks(l) \/ StatsPath(l) \/ RemovesPath(l) \/ NetListenBinds(l)
NetCloses(l) == CloseSocket(l) \/ CloseDrains(l)
NetServes(l) == ServeChecks(l) \/ AcceptsConn(l) \/ AcceptFails(l) \/ NetServeWakes(l) \/ WsAccepts(l)

NetNext ==
    \/ \E l \in Servers : NetListens(l) \/ CloseMarks(l) \/ NetCloses(l) \/ Crash(l) \/ NetServes(l)
    \/ \E c \in Peers : Connect(c) \/ HttpServes(c) \/ HandlerChecks(c) \/ HandlerPushes(c)

NetSpec == NetInit /\ [][NetNext]_netvars

\* the serve loop and Close go on
NetFairness ==
    \A l \in Servers : WF_netvars(NetServes(l)) /\ WF_netvars(NetCloses(l))

-----------------------------------------------------------------------------
(* Properties *)

\* The variables have the values their comments say.
NetTypeOK ==
    /\ scheme \in Schemes /\ osl \in [Servers -> {"none", "open", "closed"}]
    /\ file \in Servers \cup {NoServer, Foreign}
    /\ listening \in [Servers -> {"new", "open", "remove", "bind", "done", "error"}]
    /\ shut \in SUBSET Servers /\ shutting \in [Servers -> {"new", "marked", "drain", "closed"}]
    /\ serving \in [Servers -> {"none", "check", "accept", "sleep", "ended"}]
    /\ pending \in [Servers -> Seq(Peers)]
    /\ peer \in [Peers -> {"new", "backlog", "handler", "checked", "pending", "pipe", "gone"}]
    /\ at \in [Peers -> Servers \cup {NoServer}]
    /\ passed \in SUBSET Peers /\ rivalry \in BOOLEAN /\ overtaken \in SUBSET Servers

\* When Close has returned, unless it overtook Listen, the operating system's
\* socket is closed, and of the connections that were under way only those are
\* left whose ServeHTTP had looked at closedq before (ws.go:312): the rest was
\* closed or became a pipe.
CloseReleases ==
    \A l \in Servers :
        shutting[l] = "closed" /\ l \notin overtaken =>
            /\ osl[l] # "open"
            /\ \A c \in Peers :
                  at[c] = l =>
                      \/ peer[c] \in {"pipe", "gone", "handler"}
                      \/ peer[c] \in {"checked", "pending"} /\ c \in passed

\* The serve loop of a closed listener ends, whatever Accept was doing when
\* Close came (connector/listener.go:68).
ServeEnds ==
    \A l \in Servers : l \in shut ~> [](serving[l] \in {"none", "ended"})

\* The socket file leads to the ipc listener that is open, also after crashes
\* of earlier ones, as long as no listener has taken the path from one that
\* was open (ipc_unix.go:46).
PathLeadsHome ==
    scheme = "ipc" /\ ~rivalry => \A l \in Servers : osl[l] = "open" => file = l
=============================================================================
