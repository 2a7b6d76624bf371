----------------------------- MODULE Connector -----------------------------
(***************************************************************************)
(* The connector (connector/connector.go) with its dialers (dialer.go),    *)
(* listeners (listener.go) and the life cycle of its pipes (pipe.go):      *)
(* dialing, redialing after a failure or a closed pipe, accepting, the     *)
(* limit on the number of pipes that stops and restarts dialers and        *)
(* listeners, StopDial, StopListen and Close.                              *)
(*                                                                         *)
(* An action is one critical section of c.Mutex or of a dialer's mutex, or *)
(* one step of a goroutine outside both.  startConnecting holds c.Mutex    *)
(* while each restarted dialer runs reconn, so c.Mutex is free exactly     *)
(* when "rearming" is empty.                                               *)
(***************************************************************************)
EXTENDS Integers, FiniteSets

CONSTANTS
    Dialers, Listeners,     \* objects NewDialer and NewListener may create
    Pipes,                  \* pipes that may come to exist, each used once
    NoOwner,                \* the owner of a pipe that does not exist yet
    Limits, InitLimit,      \* values of the PipeLimit option, -1: no limit
    Reconnecting, Async,    \* dialers with the options Reconnect, DialAsync
    HasNegotiator,          \* whether a negotiator is set
    MaxBackoff,             \* backoff steps from Min- to MaxReconnectTime
    MaxLimitChanges         \* bound on the changes of PipeLimit

ASSUME LimitsAssumption == InitLimit \in Limits /\ Limits \subseteq Int
ASSUME FiniteAssumption == IsFiniteSet(Pipes)
ASSUME DisjointAssumption ==
    /\ Dialers \cap Listeners = {} /\ Dialers \cap Pipes = {} /\ Listeners \cap Pipes = {}
    /\ NoOwner \notin Dialers \cup Listeners
ASSUME OptionsAssumption == Reconnecting \subseteq Dialers /\ Async \subseteq Dialers /\ HasNegotiator \in BOOLEAN
ASSUME BoundsAssumption == MaxBackoff \in Nat \ {0} /\ MaxLimitChanges \in Nat

VARIABLES
    limit, closed,          \* c.limit, c.closed
    dialers, listeners,     \* c.dialers, c.listeners
    pipes,                  \* c.pipes (nil once closed)
    rearming,               \* restarted dialers whose start() has still to call reconn
    toClose,                \* what connector.Close has still to close
    crashed,                \* addPipe assigned to the nil map: the process is gone
    limitChanges            \* number of PipeLimit changes so far

VARIABLES
    made,                   \* dialers and listeners created so far
    stopped,                \* the stopped field of dialers and listeners
    shut,                   \* d.closedq closed, l.closed
    active, dialing, connected,     \* the fields of the dialers
    reconnTime,             \* d.reconnTime: 0 unset, 1 the minimum, ... MaxBackoff the maximum
    armed,                  \* the timer d.redialer is pending
    orphans,                \* pending timers that d.redialer no longer refers to
    userIn, redialIn,       \* goroutines at the entry of dial(false), of dial(true)
    attempt, again,         \* where the dial in progress is, and its redial parameter
    result,                 \* what Dialer.Dial returned to the user
    lost, lostReconn,       \* pipeClosed goroutines before their first section, before reconn
    expired, removing       \* pipeClosed goroutines about to call remDialer, and those between
                            \* its section, which takes the dialer out, and its d.Close()

VARIABLES
    serving,                \* listeners whose serve loop runs
    owner, phase            \* the dialer or listener of each pipe, and its state

cvars == <<limit, closed, dialers, listeners, pipes, toClose, crashed, limitChanges>>
dialVars == <<active, dialing, connected, reconnTime, userIn, redialIn, attempt, again, result>>
timerVars == <<armed, orphans>>
lostVars == <<lost, lostReconn, expired, removing>>
pipeVars == <<owner, phase>>
vars == <<cvars, rearming, made, stopped, shut, dialVars, timerVars, lostVars, serving, pipeVars>>

Connecting == Dialers \cup Listeners
Attempts == {"none", "dial", "conn", "added", "fail"}
Phases == {"none", "new", "leaked", "added", "dropped", "closing", "removed", "closed"}

TypeOK ==
    /\ limit \in Limits /\ closed \in BOOLEAN /\ crashed \in BOOLEAN /\ limitChanges \in Nat
    /\ dialers \in SUBSET Dialers /\ listeners \in SUBSET Listeners /\ pipes \in SUBSET Pipes
    /\ rearming \in SUBSET Dialers
    /\ toClose \in SUBSET (Connecting \cup Pipes)
    /\ made \in SUBSET Connecting
    /\ stopped \in [Connecting -> BOOLEAN] /\ shut \in [Connecting -> BOOLEAN]
    /\ active \in [Dialers -> BOOLEAN] /\ dialing \in [Dialers -> BOOLEAN]
    /\ connected \in [Dialers -> BOOLEAN]
    /\ reconnTime \in [Dialers -> 0 .. MaxBackoff]
    /\ armed \in [Dialers -> BOOLEAN] /\ orphans \in [Dialers -> Nat]
    /\ userIn \in [Dialers -> BOOLEAN] /\ redialIn \in [Dialers -> Nat]
    /\ attempt \in [Dialers -> Attempts] /\ again \in [Dialers -> BOOLEAN]
    /\ result \in [Dialers -> {"none", "ok", "err"}]
    /\ lost \in [Dialers -> Nat] /\ lostReconn \in [Dialers -> Nat]
    /\ expired \in [Dialers -> Nat] /\ removing \in [Dialers -> Nat]
    /\ serving \in [Listeners -> BOOLEAN]
    /\ owner \in [Pipes -> Connecting \cup {NoOwner}]
    /\ phase \in [Pipes -> Phases]

Init ==
    /\ limit = InitLimit /\ closed = FALSE /\ crashed = FALSE /\ limitChanges = 0
    /\ dialers = {} /\ listeners = {} /\ pipes = {} /\ rearming = {} /\ toClose = {} /\ made = {}
    /\ stopped = [x \in Connecting |-> FALSE]
    /\ shut = [x \in Connecting |-> FALSE]
    /\ active = [d \in Dialers |-> FALSE]
    /\ dialing = [d \in Dialers |-> FALSE]
    /\ connected = [d \in Dialers |-> FALSE]
    /\ reconnTime = [d \in Dialers |-> 0]
    /\ armed = [d \in Dialers |-> FALSE]
    /\ orphans = [d \in Dialers |-> 0]
    /\ userIn = [d \in Dialers |-> FALSE]
    /\ redialIn = [d \in Dialers |-> 0]
    /\ attempt = [d \in Dialers |-> "none"]
    /\ again = [d \in Dialers |-> FALSE]
    /\ result = [d \in Dialers |-> "none"]
    /\ lost = [d \in Dialers |-> 0]
    /\ lostReconn = [d \in Dialers |-> 0]
    /\ expired = [d \in Dialers |-> 0]
    /\ removing = [d \in Dialers |-> 0]
    /\ serving = [l \in Listeners |-> FALSE]
    /\ owner = [p \in Pipes |-> NoOwner]
    /\ phase = [p \in Pipes |-> "none"]

Unlocked == rearming = {}

-----------------------------------------------------------------------------
(* The limit *)

\* NewDialer, NewListener: "exceed limit"
AtLimit == limit # -1 /\ limit <= Cardinality(pipes)

\* plausible bug: one pipe too many
HasRoom_OffByOne == limit = -1 \/ limit >= Cardinality(pipes)

\* addPipe: the pipe may be kept
HasRoom == limit = -1 \/ limit > Cardinality(pipes)

\* startConnecting: start() of every listener and dialer; reconn is still to come
StartConnecting ==
    /\ stopped' = [x \in Connecting |-> stopped[x] /\ x \notin dialers \cup listeners]
    /\ rearming' = {d \in dialers : stopped[d]}
    /\ UNCHANGED armed

\* stopConnecting: stop() does nothing, not even to the timer, when already stopped
StopConnecting ==
    /\ stopped' = [x \in Connecting |-> stopped[x] \/ x \in dialers \cup listeners]
    /\ armed' = [d \in Dialers |-> armed[d] /\ (stopped[d] \/ d \notin dialers)]
    /\ UNCHANGED rearming

\* plausible bug: the comparison with the limit is not strict
CheckLimit_NotStrict(ps, n, checkNoLimit) ==
    IF closed \/ (n = -1 /\ ~checkNoLimit)
    THEN UNCHANGED <<stopped, rearming, armed>>
    ELSE IF n = -1 \/ Cardinality(ps) <= n THEN StartConnecting ELSE StopConnecting

\* checkLimit with pipes ps and limit n
CheckLimit(ps, n, checkNoLimit) ==
    IF closed \/ (n = -1 /\ ~checkNoLimit)
    THEN UNCHANGED <<stopped, rearming, armed>>
    ELSE IF n = -1 \/ Cardinality(ps) < n THEN StartConnecting ELSE StopConnecting

\* plausible bug: lifting the limit does not restart what it had stopped
SetLimit_NoCheck(n) ==
    /\ Unlocked
    /\ limitChanges < MaxLimitChanges
    /\ limitChanges' = limitChanges + 1
    /\ limit' = n
    /\ CheckLimit(pipes, n, FALSE)
    /\ UNCHANGED <<closed, dialers, listeners, pipes, toClose, crashed, made, shut,
                   dialVars, orphans, lostVars, serving, pipeVars>>

\* onOptionChange for PipeLimit
SetLimit(n) ==
    /\ Unlocked
    /\ limitChanges < MaxLimitChanges
    /\ limitChanges' = limitChanges + 1
    /\ limit' = n
    /\ CheckLimit(pipes, n, TRUE)
    /\ UNCHANGED <<closed, dialers, listeners, pipes, toClose, crashed, made, shut,
                   dialVars, orphans, lostVars, serving, pipeVars>>

\* reconn, past its check of the Reconnect option: stop the timer, arm a new one
Reconn(d) ==
    armed' = [armed EXCEPT ![d] = (@ \/ (~shut[d] /\ d \in Reconnecting))]

\* start() of a restarted dialer calls reconn; the last one frees c.Mutex
Rearm(d) ==
    /\ d \in rearming
    /\ rearming' = rearming \ {d}
    /\ Reconn(d)
    /\ UNCHANGED <<cvars, made, stopped, shut, dialVars, orphans, lostVars, serving, pipeVars>>

-----------------------------------------------------------------------------
(* Dialers *)

\* connector.NewDialer
NewDialer(d) ==
    /\ Unlocked /\ ~closed /\ d \notin made
    /\ made' = made \cup {d}
    /\ dialers' = dialers \cup {d}
    /\ stopped' = [stopped EXCEPT ![d] = AtLimit]
    /\ UNCHANGED <<limit, closed, listeners, pipes, toClose, crashed, limitChanges, rearming, shut,
                   dialVars, timerVars, lostVars, serving, pipeVars>>

\* Dialer.Dial: in the background, or by this caller
Dial(d) ==
    /\ d \in made /\ ~shut[d] /\ ~active[d]
    /\ active' = [active EXCEPT ![d] = TRUE]
    /\ reconnTime' = [reconnTime EXCEPT ![d] = 1]
    /\ \/ /\ d \in Async
          /\ redialIn' = [redialIn EXCEPT ![d] = @ + 1]
          /\ result' = [result EXCEPT ![d] = "ok"]
          /\ UNCHANGED userIn
       \/ /\ d \notin Async
          /\ userIn' = [userIn EXCEPT ![d] = TRUE]
          /\ UNCHANGED <<redialIn, result>>
    /\ UNCHANGED <<cvars, rearming, made, stopped, shut, dialing, connected, attempt, again,
                   timerVars, lostVars, serving, pipeVars>>

\* a goroutine passes from the entry of dial(redial) into it
Enters(d, redial) ==
    /\ IF redial THEN redialIn[d] > 0 ELSE userIn[d]
    /\ redialIn' = [redialIn EXCEPT ![d] = IF redial THEN @ - 1 ELSE @]
    /\ userIn' = [userIn EXCEPT ![d] = redial /\ @]

\* plausible bug: "consider removing the d.dialing logic"
Refuses_IgnoresDialing(d) == shut[d] \/ stopped[d] \/ connected[d]

\* the early returns of dial
Refuses(d) == shut[d] \/ stopped[d] \/ dialing[d] \/ connected[d]

\* dial returns ErrClosed, ErrStopped or ErrAddrInUse
DialRefused(d, redial) ==
    /\ Enters(d, redial)
    /\ Refuses(d)
    /\ result' = [result EXCEPT ![d] = IF redial THEN @ ELSE "err"]
    /\ UNCHANGED <<cvars, rearming, made, stopped, shut, active, dialing, connected, reconnTime,
                   attempt, again, timerVars, lostVars, serving, pipeVars>>

\* dial stops the redial timer and starts to connect
DialStarts(d, redial) ==
    /\ Enters(d, redial)
    /\ ~Refuses(d)
    /\ armed' = [armed EXCEPT ![d] = FALSE]
    /\ dialing' = [dialing EXCEPT ![d] = TRUE]
    /\ attempt' = [attempt EXCEPT ![d] = "dial"]
    /\ again' = [again EXCEPT ![d] = redial]
    /\ UNCHANGED <<cvars, rearming, made, stopped, shut, active, connected, reconnTime, result,
                   orphans, lostVars, serving, pipeVars>>

\* the transport connects: newPipe wraps the connection
DialConnects(d, p) ==
    /\ attempt[d] = "dial" /\ phase[p] = "none"
    /\ attempt' = [attempt EXCEPT ![d] = "conn"]
    /\ phase' = [phase EXCEPT ![p] = "new"]
    /\ owner' = [owner EXCEPT ![p] = d]
    /\ UNCHANGED <<cvars, rearming, made, stopped, shut, active, dialing, connected, reconnTime,
                   userIn, redialIn, again, result, timerVars, lostVars, serving>>

\* the transport fails to connect
DialErrs(d) ==
    /\ attempt[d] = "dial"
    /\ attempt' = [attempt EXCEPT ![d] = "fail"]
    /\ UNCHANGED <<cvars, rearming, made, stopped, shut, active, dialing, connected, reconnTime,
                   userIn, redialIn, again, result, timerVars, lostVars, serving, pipeVars>>

\* dial after addPipe has returned, whatever addPipe did with the pipe
DialReturns(d) ==
    /\ attempt[d] = "added"
    /\ attempt' = [attempt EXCEPT ![d] = "none"]
    /\ dialing' = [dialing EXCEPT ![d] = FALSE]
    /\ connected' = [connected EXCEPT ![d] = TRUE]
    /\ reconnTime' = [reconnTime EXCEPT ![d] = 1]
    /\ result' = [result EXCEPT ![d] = IF again[d] THEN @ ELSE "ok"]
    /\ UNCHANGED <<cvars, rearming, made, stopped, shut, active, userIn, redialIn, again,
                   timerVars, lostVars, serving, pipeVars>>

\* the longer delay after a failed redial: a factor, so 0 stays 0
Backoff(t) == IF t = 0 \/ t = MaxBackoff THEN t ELSE t + 1

\* plausible bug: a failed redial is not tried again
DialGivesUp_NoTimer(d) ==
    /\ attempt[d] = "fail"
    /\ attempt' = [attempt EXCEPT ![d] = "none"]
    /\ dialing' = [dialing EXCEPT ![d] = FALSE]
    /\ result' = [result EXCEPT ![d] = IF again[d] THEN @ ELSE "err"]
    /\ UNCHANGED <<cvars, rearming, made, stopped, shut, active, connected, userIn, redialIn, again,
                   reconnTime, timerVars, lostVars, serving, pipeVars>>

\* dial after a failure: a redial arms a timer over the one that may be pending
DialGivesUp(d) ==
    /\ attempt[d] = "fail"
    /\ attempt' = [attempt EXCEPT ![d] = "none"]
    /\ dialing' = [dialing EXCEPT ![d] = FALSE]
    /\ \/ /\ ~again[d]
          /\ result' = [result EXCEPT ![d] = "err"]
          /\ UNCHANGED <<reconnTime, timerVars>>
       \/ /\ again[d]
          /\ reconnTime' = [reconnTime EXCEPT ![d] = Backoff(@)]
          /\ orphans' = [orphans EXCEPT ![d] = IF armed[d] THEN @ + 1 ELSE @]
          /\ armed' = [armed EXCEPT ![d] = TRUE]
          /\ UNCHANGED result
    /\ UNCHANGED <<cvars, rearming, made, stopped, shut, active, connected, userIn, redialIn, again,
                   lostVars, serving, pipeVars>>

\* a timer fires and its goroutine calls redial
Fire(d) ==
    /\ \/ armed[d] /\ armed' = [armed EXCEPT ![d] = FALSE] /\ UNCHANGED orphans
       \/ orphans[d] > 0 /\ orphans' = [orphans EXCEPT ![d] = @ - 1] /\ UNCHANGED armed
    /\ redialIn' = [redialIn EXCEPT ![d] = @ + 1]
    /\ UNCHANGED <<cvars, rearming, made, stopped, shut, active, dialing, connected, reconnTime,
                   userIn, attempt, again, result, lostVars, serving, pipeVars>>

\* pipeClosed, its section of d.Mutex
PipeClosed(d) ==
    /\ lost[d] > 0
    /\ lost' = [lost EXCEPT ![d] = @ - 1]
    /\ connected' = [connected EXCEPT ![d] = FALSE]
    /\ lostReconn' = [lostReconn EXCEPT ![d] = @ + 1]
    /\ UNCHANGED <<cvars, rearming, made, stopped, shut, active, dialing, reconnTime, userIn, redialIn,
                   attempt, again, result, timerVars, expired, removing, serving, pipeVars>>

\* pipeClosed calls reconn; a dialer that is not to reconnect is removed
PipeClosedReconn(d) ==
    /\ lostReconn[d] > 0
    /\ lostReconn' = [lostReconn EXCEPT ![d] = @ - 1]
    /\ expired' = [expired EXCEPT ![d] = IF shut[d] \/ d \in Reconnecting THEN @ ELSE @ + 1]
    /\ Reconn(d)
    /\ UNCHANGED <<cvars, rearming, made, stopped, shut, dialVars, orphans, lost, removing, serving, pipeVars>>

\* connector.remDialer, its section: the dialer leaves the connector
RemDialer(d) ==
    /\ Unlocked /\ expired[d] > 0
    /\ expired' = [expired EXCEPT ![d] = @ - 1]
    /\ removing' = [removing EXCEPT ![d] = @ + 1]
    /\ dialers' = dialers \ {d}
    /\ UNCHANGED <<limit, closed, listeners, pipes, toClose, crashed, limitChanges, rearming, made,
                   stopped, shut, dialVars, timerVars, lost, lostReconn, serving, pipeVars>>

\* remDialer, after the unlock: d.Close()
RemDialerCloses(d) ==
    /\ removing[d] > 0
    /\ removing' = [removing EXCEPT ![d] = @ - 1]
    /\ shut' = [shut EXCEPT ![d] = TRUE]
    /\ UNCHANGED <<cvars, rearming, made, stopped, dialVars, timerVars, lost, lostReconn, expired,
                   serving, pipeVars>>

-----------------------------------------------------------------------------
(* Listeners *)

\* connector.NewListener
NewListener(l) ==
    /\ Unlocked /\ ~closed /\ l \notin made
    /\ made' = made \cup {l}
    /\ listeners' = listeners \cup {l}
    /\ stopped' = [stopped EXCEPT ![l] = AtLimit]
    /\ UNCHANGED <<limit, closed, dialers, pipes, toClose, crashed, limitChanges, rearming, shut,
                   dialVars, timerVars, lostVars, serving, pipeVars>>

\* Listener.Listen succeeds and starts serve
Listen(l) ==
    /\ l \in made /\ ~shut[l] /\ ~serving[l]
    /\ serving' = [serving EXCEPT ![l] = TRUE]
    /\ UNCHANGED <<cvars, rearming, made, stopped, shut, dialVars, timerVars, lostVars, pipeVars>>

\* serve: a connection is accepted; a stopped listener only closes it
Accept(l, p) ==
    /\ serving[l] /\ ~stopped[l] /\ phase[p] = "none"
    /\ phase' = [phase EXCEPT ![p] = "new"]
    /\ owner' = [owner EXCEPT ![p] = l]
    /\ UNCHANGED <<cvars, rearming, made, stopped, shut, dialVars, timerVars, lostVars, serving>>

\* serve ends when Accept returns ErrClosed
ServeEnds(l) ==
    /\ serving[l] /\ shut[l]
    /\ serving' = [serving EXCEPT ![l] = FALSE]
    /\ UNCHANGED <<cvars, rearming, made, stopped, shut, dialVars, timerVars, lostVars, pipeVars>>

-----------------------------------------------------------------------------
(* Pipes *)

\* addPipe is over for p: its dialer, if it has one, goes on
Added(p) ==
    attempt' = [d \in Dialers |-> IF d = owner[p] THEN "added" ELSE attempt[d]]

\* addPipe when the negotiation fails
NegotiateFails(p) ==
    /\ Unlocked /\ HasNegotiator /\ phase[p] = "new"
    /\ phase' = [phase EXCEPT ![p] = "leaked"]
    /\ Added(p)
    /\ UNCHANGED <<cvars, rearming, made, stopped, shut, active, dialing, connected, reconnTime,
                   userIn, redialIn, again, result, timerVars, lostVars, serving, owner>>

\* addPipe below the limit, on an open connector
AddPipe(p) ==
    /\ Unlocked /\ phase[p] = "new" /\ HasRoom /\ ~closed
    /\ phase' = [phase EXCEPT ![p] = "added"]
    /\ pipes' = pipes \cup {p}
    /\ CheckLimit(pipes', limit, FALSE)
    /\ Added(p)
    /\ UNCHANGED <<limit, closed, dialers, listeners, toClose, crashed, limitChanges, made, shut,
                   active, dialing, connected, reconnTime, userIn, redialIn, again, result,
                   orphans, lostVars, serving, owner>>

\* addPipe below the limit, after Close: assignment to an entry of the nil map
AddPipePanics(p) ==
    /\ Unlocked /\ phase[p] = "new" /\ HasRoom /\ closed
    /\ crashed' = TRUE
    /\ UNCHANGED <<limit, closed, dialers, listeners, pipes, toClose, limitChanges, rearming, made,
                   stopped, shut, dialVars, timerVars, lostVars, serving, pipeVars>>

\* addPipe at the limit: go p.Close()
DropPipe(p) ==
    /\ Unlocked /\ phase[p] = "new" /\ ~HasRoom
    /\ phase' = [phase EXCEPT ![p] = "dropped"]
    /\ Added(p)
    /\ UNCHANGED <<cvars, rearming, made, stopped, shut, active, dialing, connected, reconnTime,
                   userIn, redialIn, again, result, timerVars, lostVars, serving, owner>>

\* the first pipe.Close: by the goroutine of a dropped pipe, by ClosePipe, or
\* by the receiver or sender that met an error
ClosePipe(p) ==
    /\ phase[p] \in {"added", "dropped"}
    /\ phase' = [phase EXCEPT ![p] = "closing"]
    /\ UNCHANGED <<cvars, rearming, made, stopped, shut, dialVars, timerVars, lostVars, serving, owner>>

\* remPipe, first section, and "inform it so that it can redial"
RemPipe(p) ==
    /\ Unlocked /\ phase[p] = "closing"
    /\ phase' = [phase EXCEPT ![p] = "removed"]
    /\ pipes' = pipes \ {p}
    /\ lost' = [d \in Dialers |-> IF d = owner[p] THEN lost[d] + 1 ELSE lost[d]]
    /\ UNCHANGED <<limit, closed, dialers, listeners, toClose, crashed, limitChanges, rearming, made,
                   stopped, shut, dialVars, timerVars, lostReconn, expired, removing, serving, owner>>

\* plausible bug: remPipe does not look at the limit again
RemPipeCheck_Forgotten(p) ==
    /\ Unlocked /\ phase[p] = "removed"
    /\ phase' = [phase EXCEPT ![p] = "closed"]
    /\ UNCHANGED <<cvars, rearming, made, stopped, shut, dialVars, timerVars, lostVars, serving, owner>>

\* remPipe, second section
RemPipeCheck(p) ==
    /\ Unlocked /\ phase[p] = "removed"
    /\ phase' = [phase EXCEPT ![p] = "closed"]
    /\ CheckLimit(pipes, limit, FALSE)
    /\ UNCHANGED <<cvars, made, shut, dialVars, orphans, lostVars, serving, owner>>

-----------------------------------------------------------------------------
(* Stopping *)

\* StopDial: the dialer leaves the connector and is closed
StopDial(d) ==
    /\ Unlocked /\ d \in dialers
    /\ dialers' = dialers \ {d}
    /\ shut' = [shut EXCEPT ![d] = TRUE]
    /\ UNCHANGED <<limit, closed, listeners, pipes, toClose, crashed, limitChanges, rearming, made,
                   stopped, dialVars, timerVars, lostVars, serving, pipeVars>>

\* StopListen: the listener leaves the connector and is closed
StopListen(l) ==
    /\ Unlocked /\ l \in listeners
    /\ listeners' = listeners \ {l}
    /\ shut' = [shut EXCEPT ![l] = TRUE]
    /\ UNCHANGED <<limit, closed, dialers, pipes, toClose, crashed, limitChanges, rearming, made,
                   stopped, dialVars, timerVars, lostVars, serving, pipeVars>>

\* Dialer.Close, Listener.Close called by the user: x stays in the connector
CloseConnect(x) ==
    /\ x \in made /\ ~shut[x]
    /\ shut' = [shut EXCEPT ![x] = TRUE]
    /\ UNCHANGED <<cvars, rearming, made, stopped, dialVars, timerVars, lostVars, serving, pipeVars>>

\* connector.Close under its lock
Close ==
    /\ Unlocked /\ ~closed
    /\ closed' = TRUE
    /\ toClose' = dialers \cup listeners \cup pipes
    /\ dialers' = {} /\ listeners' = {} /\ pipes' = {}
    /\ UNCHANGED <<limit, crashed, limitChanges, rearming, made, stopped, shut, dialVars, timerVars,
                   lostVars, serving, pipeVars>>

\* plausible bug: a pipe of the connector is not closed with it
CloseNext_SkipsPipes(x) ==
    /\ x \in toClose
    /\ toClose' = toClose \ {x}
    /\ x \in Dialers => toClose \cap Listeners = {}
    /\ x \in Pipes => toClose \cap Connecting = {}
    /\ shut' = [y \in Connecting |-> shut[y] \/ y = x]
    /\ UNCHANGED <<limit, closed, dialers, listeners, pipes, crashed, limitChanges, rearming, made,
                   stopped, dialVars, timerVars, lostVars, serving, phase, owner>>

\* connector.Close goes on: listeners, then dialers, then pipes
CloseNext(x) ==
    /\ x \in toClose
    /\ toClose' = toClose \ {x}
    /\ x \in Dialers => toClose \cap Listeners = {}
    /\ x \in Pipes => toClose \cap Connecting = {}
    /\ shut' = [y \in Connecting |-> shut[y] \/ y = x]
    /\ phase' = [p \in Pipes |-> IF p = x /\ phase[p] = "added" THEN "closing" ELSE phase[p]]
    /\ UNCHANGED <<limit, closed, dialers, listeners, pipes, crashed, limitChanges, rearming, made,
                   stopped, dialVars, timerVars, lostVars, serving, owner>>

-----------------------------------------------------------------------------

\* the calls of the user of the connector, and what the network does
UserNext ==
    \/ \E n \in Limits : SetLimit(n)
    \/ \E d \in Dialers : NewDialer(d) \/ Dial(d) \/ StopDial(d)
    \/ \E l \in Listeners : NewListener(l) \/ Listen(l) \/ StopListen(l) \/ \E p \in Pipes : Accept(l, p)
    \/ \E p \in Pipes : ClosePipe(p)
    \/ \E x \in Connecting : CloseConnect(x)
    \/ Close

\* the goroutines and timers of a dialer
DialerNext(d) ==
    \/ \E redial \in BOOLEAN : DialRefused(d, redial) \/ DialStarts(d, redial)
    \/ DialErrs(d)
    \/ \E p \in Pipes : DialConnects(d, p)
    \/ DialReturns(d)
    \/ DialGivesUp(d)
    \/ Fire(d)
    \/ PipeClosed(d)
    \/ PipeClosedReconn(d)
    \/ RemDialer(d)
    \/ RemDialerCloses(d)
    \/ Rearm(d)

\* the goroutines that add and remove a pipe
PipeNext(p) ==
    NegotiateFails(p) \/ AddPipe(p) \/ AddPipePanics(p) \/ DropPipe(p) \/ RemPipe(p) \/ RemPipeCheck(p)

Next ==
    /\ ~crashed
    /\ \/ UserNext
       \/ \E d \in Dialers : DialerNext(d)
       \/ \E p \in Pipes : PipeNext(p)
       \/ \E l \in Listeners : ServeEnds(l)
       \/ \E x \in Connecting \cup Pipes : CloseNext(x)

Spec == Init /\ [][Next]_vars

\* A goroutine that can go on does, a pending timer fires, the transport ends
\* each dial one way or the other, and a closed listener's Accept returns.
Fairness ==
    /\ \A d \in Dialers : WF_vars(~crashed /\ DialerNext(d))
    /\ \A p \in Pipes : WF_vars(~crashed /\ PipeNext(p)) /\ WF_vars(~crashed /\ phase[p] = "dropped" /\ ClosePipe(p))
    /\ \A x \in Connecting \cup Pipes : WF_vars(~crashed /\ CloseNext(x))

FairSpec == Spec /\ Fairness

-----------------------------------------------------------------------------
(* Properties *)

\* Whenever c.Mutex is free and the limit is reached, every dialer and every
\* listener of the connector is stopped, whichever of addPipe, remPipe,
\* NewDialer, NewListener and SetOption(PipeLimit) came last.
StoppedAtLimit ==
    Unlocked /\ ~closed /\ AtLimit => \A x \in dialers \cup listeners : stopped[x]

\* Whenever c.Mutex is free and there is room, nothing is stopped any more,
\* except until the remPipe that made the room takes the lock again.
StartedBelowLimit ==
    Unlocked /\ ~closed /\ ~AtLimit /\ (\A p \in Pipes : phase[p] # "removed")
        => \A x \in dialers \cup listeners : ~stopped[x]

\* addPipe never takes the number of pipes above the limit in force, however
\* many connections were dialed and accepted while there was still room.
LimitRespected ==
    [][pipes' \ pipes # {} => limit = -1 \/ Cardinality(pipes') <= limit]_vars

\* the pipe is, or will be for its dialer, one that has not been closed
Unnoticed(p, d) ==
    owner[p] = d /\ phase[p] \in {"new", "leaked", "added", "dropped", "closing"}

\* A dialer never has two pipes: it dials again only after it has been told
\* that its pipe was closed (dial, pipeClosed).
OnePipePerDialer ==
    \A d \in Dialers : \A p, q \in Pipes : Unnoticed(p, d) /\ Unnoticed(q, d) => p = q

\* something will still make dialer d dial
Pending(d) ==
    \/ attempt[d] # "none" \/ armed[d] \/ orphans[d] > 0 \/ redialIn[d] > 0 \/ userIn[d]
    \/ lost[d] > 0 \/ lostReconn[d] > 0 \/ d \in rearming

\* dialer d has had a pipe, and may still dial: neither closed nor stopped,
\* nor has a Dial call told its user that it failed
MayRedial(d) ==
    /\ d \in Reconnecting /\ ~shut[d] /\ ~stopped[d] /\ result[d] # "err"
    /\ \E p \in Pipes : owner[p] = d

\* A dialer that does not think it is connected is never left without a dial
\* in progress, a timer or a goroutine that leads to one, through any
\* interleaving of redials, closed pipes and limit changes.
RedialNeverForgotten ==
    \A d \in Dialers : MayRedial(d) /\ ~connected[d] => Pending(d)

\* "reconnect when pipe closed": a dialer whose pipes are all closed is going
\* to dial again.
ReconnectsWhenPipeClosed ==
    \A d \in Dialers : MayRedial(d) /\ (\A p \in Pipes : ~Unnoticed(p, d)) => Pending(d)

\* When connector.Close is through, no dialer or listener is left open and no
\* pipe it had accepted is left unclosed, although dials, accepts and closes
\* went on around it.  The one exception is a dialer that a remDialer had taken
\* out before Close: it stays open until that remDialer, which has unlocked,
\* comes to its d.Close() (connector.go:258-261).
CloseLeavesNothingOpen ==
    closed /\ toClose = {} =>
        /\ \A x \in made : shut[x] \/ (x \in Dialers /\ removing[x] > 0)
        /\ \A p \in Pipes : phase[p] # "added"

\* A dialer or listener that the limit stopped is started again once a closed
\* pipe has made room, unless the room is taken, or the connector or the
\* dialer closed.
RestartedWhenRoom ==
    \A x \in Connecting :
        stopped[x] /\ x \in dialers \cup listeners /\ ~AtLimit
            ~> ~stopped[x] \/ AtLimit \/ x \notin dialers \cup listeners \/ crashed

\* A reconnecting dialer that knows its pipe is closed dials again, unless it
\* is stopped or closed first.
EventuallyRedials ==
    \A d \in Dialers :
        MayRedial(d) /\ ~connected[d] ~> attempt[d] = "dial" \/ ~MayRedial(d) \/ crashed \/ connected[d]
=============================================================================
