-------------------------------- MODULE Inproc --------------------------------
(***************************************************************************)
(* The in-process transport: how a Dial and an Accept find each other      *)
(* (transport/inproc/inproc.go), driven by the serve loop of the           *)
(* connector's listener (connector/listener.go).                           *)
(*                                                                         *)
(* All listeners are made for one address.  A step is one critical section *)
(* or one select; where two cases of a select are ready, either is taken.  *)
(* A connection is named after the Dial that gets it.  Close is called     *)
(* once on each listener, and Listen again only when it has failed.        *)
(***************************************************************************)
EXTENDS Integers, Sequences, FiniteSets

CONSTANTS
    Listeners, Dials,   \* listeners made for the address, calls of Dial
    None,               \* no listener, no dial
    QueueSize           \* defaultAcceptQueueSize

ASSUME QueueAssumption == QueueSize \in Nat \ {0}
ASSUME NamesAssumption == Listeners \cap Dials = {} /\ None \notin Listeners \cup Dials

VARIABLES
    byAddr,         \* the listener registered for the address
    listenPc,       \* the call of Listen: "new", "open", "added", "listening", "error"
    accepts,        \* listener.accepts, <<>> also while it is nil
    closedq,        \* the listeners whose closedq is closed
    closePc,        \* the call of Close: "new", "closing", "closed"
    servePc,        \* the serve loop: "none", "check", "select", "notify", "sleep", "ended"
    notified        \* the dial that Accept answers

VARIABLES
    dialPc,         \* the call of Dial: "new", "found", "queue", "stuck", "wait", "conn", "refused"
    dialed          \* the listener that Dial found

lvars == <<byAddr, listenPc, accepts, closedq, closePc, servePc, notified>>
dvars == <<dialPc, dialed>>
inprocvars == <<lvars, dvars>>

InprocInit ==
    /\ byAddr = None
    /\ listenPc = [l \in Listeners |-> "new"]
    /\ accepts = [l \in Listeners |-> <<>>]
    /\ closedq = {}
    /\ closePc = [l \in Listeners |-> "new"]
    /\ servePc = [l \in Listeners |-> "none"]
    /\ notified = [l \in Listeners |-> None]
    /\ dialPc = [d \in Dials |-> "new"]
    /\ dialed = [d \in Dials |-> None]

-----------------------------------------------------------------------------
(* Listen and Close *)

\* Listen, called for the first time or after an error, looks at closedq
ListenChecks(l) ==
    /\ listenPc[l] \in {"new", "error"}
    /\ listenPc' = [listenPc EXCEPT ![l] = IF l \in closedq THEN "error" ELSE "open"]
    /\ UNCHANGED <<byAddr, accepts, closedq, closePc, servePc, notified, dvars>>

\* addListener
AddListener(l) ==
    /\ listenPc[l] = "open"
    /\ IF byAddr = None
       THEN /\ byAddr' = l
            /\ listenPc' = [listenPc EXCEPT ![l] = "added"]
       ELSE /\ listenPc' = [listenPc EXCEPT ![l] = "error"]
            /\ UNCHANGED byAddr
    /\ UNCHANGED <<accepts, closedq, closePc, servePc, notified, dvars>>

\* Listen makes the queue, from now on seen by every Dial, and returns; the
\* connector's listener starts to serve
ListenReturns(l) ==
    /\ listenPc[l] = "added"
    /\ listenPc' = [listenPc EXCEPT ![l] = "listening"]
    /\ servePc' = [servePc EXCEPT ![l] = "check"]
    /\ UNCHANGED <<byAddr, accepts, closedq, closePc, notified, dvars>>

\* Close, under the listener's mutex
CloseListener(l) ==
    /\ closePc[l] = "new"
    /\ closedq' = closedq \cup {l}
    /\ closePc' = [closePc EXCEPT ![l] = "closing"]
    /\ UNCHANGED <<byAddr, listenPc, accepts, servePc, notified, dvars>>

\* plausible bug: the address is freed whoever has it
RemoveListener_Anyones(l) ==
    /\ closePc[l] = "closing"
    /\ closePc' = [closePc EXCEPT ![l] = "closed"]
    /\ byAddr' = None
    /\ UNCHANGED <<listenPc, accepts, closedq, servePc, notified, dvars>>

\* removeListener, and Close returns
RemoveListener(l) ==
    /\ closePc[l] = "closing"
    /\ closePc' = [closePc EXCEPT ![l] = "closed"]
    /\ byAddr' = IF byAddr = l THEN None ELSE byAddr
    /\ UNCHANGED <<listenPc, accepts, closedq, servePc, notified, dvars>>

-----------------------------------------------------------------------------
(* Accept, in the serve loop *)

IsListening(l) == byAddr = l

\* Accept returns ErrNotListening, which serve answers with a short sleep, or selects
AcceptChecks(l) ==
    /\ servePc[l] = "check"
    /\ servePc' = [servePc EXCEPT ![l] = IF IsListening(l) THEN "select" ELSE "sleep"]
    /\ UNCHANGED <<byAddr, listenPc, accepts, closedq, closePc, notified, dvars>>

ServeWakes(l) ==
    /\ servePc[l] = "sleep"
    /\ servePc' = [servePc EXCEPT ![l] = "check"]
    /\ UNCHANGED <<byAddr, listenPc, accepts, closedq, closePc, notified, dvars>>

\* plausible bug: Accept leaves the dial in the queue
AcceptTakes_Kept(l) ==
    /\ servePc[l] = "select" /\ accepts[l] # <<>>
    /\ notified' = [notified EXCEPT ![l] = Head(accepts[l])]
    /\ servePc' = [servePc EXCEPT ![l] = "notify"]
    /\ UNCHANGED <<byAddr, listenPc, accepts, closedq, closePc, dvars>>

\* Accept takes a dial from the queue
AcceptTakes(l) ==
    /\ servePc[l] = "select" /\ accepts[l] # <<>>
    /\ accepts' = [accepts EXCEPT ![l] = Tail(@)]
    /\ notified' = [notified EXCEPT ![l] = Head(accepts[l])]
    /\ servePc' = [servePc EXCEPT ![l] = "notify"]
    /\ UNCHANGED <<byAddr, listenPc, closedq, closePc, dvars>>

\* either select of Accept finds closedq closed: ErrClosed ends serve
AcceptSeesClosed(l) ==
    /\ servePc[l] \in {"select", "notify"} /\ l \in closedq
    /\ servePc' = [servePc EXCEPT ![l] = "ended"]
    /\ notified' = [notified EXCEPT ![l] = None]
    /\ UNCHANGED <<byAddr, listenPc, accepts, closedq, closePc, dvars>>

\* Accept hands the other end of the new connection to the waiting Dial; both return
Meet(l) ==
    LET d == notified[l]
    IN  /\ servePc[l] = "notify" /\ dialPc[d] = "wait"
        /\ dialPc' = [dialPc EXCEPT ![d] = "conn"]
        /\ servePc' = [servePc EXCEPT ![l] = "check"]
        /\ notified' = [notified EXCEPT ![l] = None]
        /\ UNCHANGED <<byAddr, listenPc, accepts, closedq, closePc, dialed>>

-----------------------------------------------------------------------------
(* Dial *)

\* getListenerByAddr
DialFinds(d) ==
    /\ dialPc[d] = "new"
    /\ dialed' = [dialed EXCEPT ![d] = byAddr]
    /\ dialPc' = [dialPc EXCEPT ![d] = IF byAddr = None THEN "refused" ELSE "found"]
    /\ UNCHANGED <<lvars>>

\* the select reads l.accepts: a send to the nil queue of a Listen in progress never happens
DialSelects(d) ==
    /\ dialPc[d] = "found"
    /\ dialPc' = [dialPc EXCEPT ![d] = IF listenPc[dialed[d]] = "listening" THEN "queue" ELSE "stuck"]
    /\ UNCHANGED <<lvars, dialed>>

\* l.accepts <- ac
DialQueues(d) ==
    /\ dialPc[d] = "queue" /\ Len(accepts[dialed[d]]) < QueueSize
    /\ accepts' = [accepts EXCEPT ![dialed[d]] = Append(@, d)]
    /\ dialPc' = [dialPc EXCEPT ![d] = "wait"]
    /\ UNCHANGED <<byAddr, listenPc, closedq, closePc, servePc, notified, dialed>>

\* plausible bug: a queued dial waits for its connection only
DialRefused_NotQueued(d) ==
    /\ dialPc[d] \in {"queue", "stuck"} /\ dialed[d] \in closedq
    /\ dialPc' = [dialPc EXCEPT ![d] = "refused"]
    /\ UNCHANGED <<lvars, dialed>>

\* either select of Dial finds closedq closed
DialRefused(d) ==
    /\ dialPc[d] \in {"queue", "stuck", "wait"} /\ dialed[d] \in closedq
    /\ dialPc' = [dialPc EXCEPT ![d] = "refused"]
    /\ UNCHANGED <<lvars, dialed>>

-----------------------------------------------------------------------------
ListenNext(l) == ListenChecks(l) \/ AddListener(l) \/ ListenReturns(l)
ServeNext(l) == AcceptChecks(l) \/ ServeWakes(l) \/ AcceptTakes(l) \/ AcceptSeesClosed(l) \/ Meet(l)
DialNext(d) == DialSelects(d) \/ DialQueues(d) \/ DialRefused(d)

InprocNext ==
    \/ \E l \in Listeners : ListenNext(l) \/ ServeNext(l) \/ CloseListener(l) \/ RemoveListener(l)
    \/ \E d \in Dials : DialFinds(d) \/ DialNext(d)

InprocSpec == InprocInit /\ [][InprocNext]_inprocvars

\* goroutines that have begun go on; nobody has to dial or to close
InprocFairness ==
    /\ \A l \in Listeners : WF_inprocvars(ServeNext(l)) /\ WF_inprocvars(RemoveListener(l))
    /\ \A d \in Dials : WF_inprocvars(DialNext(d))

-----------------------------------------------------------------------------
(* Properties *)

\* The variables have the values their comments say.
InprocTypeOK ==
    /\ byAddr \in Listeners \cup {None}
    /\ listenPc \in [Listeners -> {"new", "open", "added", "listening", "error"}]
    /\ accepts \in [Listeners -> Seq(Dials)] /\ closedq \in SUBSET Listeners
    /\ closePc \in [Listeners -> {"new", "closing", "closed"}]
    /\ servePc \in [Listeners -> {"none", "check", "select", "notify", "sleep", "ended"}]
    /\ notified \in [Listeners -> Dials \cup {None}]
    /\ dialPc \in [Dials -> {"new", "found", "queue", "stuck", "wait", "conn", "refused"}]
    /\ dialed \in [Dials -> Listeners \cup {None}]
    /\ \A l \in Listeners : Len(accepts[l]) <= QueueSize

\* where listener l has dial d: as the one that it answers, or in its queue
HeldAt(d, l, k) == IF k = 0 THEN notified[l] = d ELSE k <= Len(accepts[l]) /\ accepts[l][k] = d

\* A dial that waits is known to exactly one listener, once: in its queue or as
\* the one it answers.  So no dial is answered twice and none is forgotten
\* (inproc.go:72, inproc.go:110).
WaitsInOnePlace ==
    \A d \in Dials :
        LET places == {p \in Listeners \X (0 .. QueueSize) : HeldAt(d, p[1], p[2])}
        IN  /\ Cardinality(places) <= 1
            /\ dialPc[d] = "wait" /\ dialed[d] \notin closedq => Cardinality(places) = 1

\* A listener that has got the address keeps it until its own Close: neither
\* a rival whose Listen was refused nor the Close of that rival takes it away
\* (inproc.go:164, inproc.go:183).  So two open listeners never serve the
\* address, and the serve loop of an open one never finds that it does not
\* listen (inproc.go:105).
AddressIsKept ==
    \A l \in Listeners \ closedq :
        /\ listenPc[l] \in {"added", "listening"} => byAddr = l
        /\ servePc[l] # "sleep"

\* A Dial that came after Listen had returned is accepted or refused.
DialsEnd ==
    \A d \in Dials : dialPc[d] \in {"queue", "wait"} ~> dialPc[d] \in {"conn", "refused"}
=============================================================================
