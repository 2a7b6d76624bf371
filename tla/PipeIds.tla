------------------------------ MODULE PipeIds ------------------------------
(***************************************************************************)
(* Pipe identifiers: the recyclable id generator of utils/id.go and the    *)
(* way connector/pipe.go and connector/connector.go use it.  Every pipe of *)
(* the process takes an id when it is created and gives it back at the end *)
(* of pipe.Close.  The connector (c.pipes) and the socket (s.pipes) find,  *)
(* replace and delete pipes BY THAT ID, so a pipe that kept an id it had   *)
(* already given back, or gave it back too early, would delete or stop a   *)
(* pipe that is not its own.  The two maps are changed one after the       *)
(* other: c.Lock is held over both, but s.Lock only around the second, and *)
(* the sender and the receiver of a pipe take it on their own once the     *)
(* socket is closed.                                                       *)
(***************************************************************************)
EXTENDS Integers

CONSTANTS
    Pipes,      \* pipe objects that may exist at the same time
    NoPipe,     \* an empty slot of a map
    IDSpace     \* ids are counted modulo IDSpace (2^31 in the code)

ASSUME IDSpaceAssumption == IDSpace \in Nat /\ IDSpace >= 2
ASSUME NoPipeAssumption == NoPipe \notin Pipes

VARIABLES
    next,       \* g.next, a counter of one bit more than an id
    ids,        \* g.ids, the ids in use
    hung,       \* a NextID call spins forever, holding the generator's lock
    phase,      \* where each pipe is in its life
    pid,        \* the id field of each pipe, 0 when there is no such pipe
    cpipes,     \* c.pipes of the connector
    spipes,     \* s.pipes of the socket, kept by its pipe event handler
    handler,    \* c.pipeEventHandler is set
    sclosed,    \* the socket's closedq is closed
    cclosed,    \* c.closed, and c.pipes is nil
    workers     \* how many of a pipe's sender and receiver run

closevars == <<handler, sclosed, cclosed>>
vars == <<next, ids, hung, phase, pid, cpipes, spipes, closevars, workers>>

IDs == 1 .. (IDSpace - 1)
Phases == {"none", "new", "leaked", "adding", "added", "dropped", "closing", "removing", "removed", "done"}

TypeOK ==
    /\ next \in 0 .. (2 * IDSpace - 1)
    /\ ids \in SUBSET IDs
    /\ hung \in BOOLEAN /\ handler \in BOOLEAN /\ sclosed \in BOOLEAN /\ cclosed \in BOOLEAN
    /\ phase \in [Pipes -> Phases]
    /\ pid \in [Pipes -> IDs \cup {0}]
    /\ cpipes \in [IDs -> Pipes \cup {NoPipe}]
    /\ spipes \in [IDs -> Pipes \cup {NoPipe}]
    /\ workers \in [Pipes -> 0 .. 2]

Init ==
    /\ next = 0
    /\ ids = {}
    /\ hung = FALSE
    /\ phase = [p \in Pipes |-> "none"]
    /\ pid = [p \in Pipes |-> 0]
    /\ cpipes = [i \in IDs |-> NoPipe]
    /\ spipes = [i \in IDs |-> NoPipe]
    /\ handler = TRUE /\ sclosed = FALSE /\ cclosed = FALSE
    /\ workers = [p \in Pipes |-> 0]

\* no pipe is on its way through addPipe's or remPipe's call of the handler
CLockFree == \A p \in Pipes : phase[p] \notin {"adding", "removing"}

\* the object is not made yet, or nothing refers to it any more
Garbage(p) ==
    \/ phase[p] = "none"
    \/ phase[p] = "done" /\ workers[p] = 0 /\ \A i \in IDs : spipes[i] # p

-----------------------------------------------------------------------------
(* The generator *)

\* the id that the loop of NextID looks at after k rounds
IDAt(k) == (next + k) % IDSpace

\* plausible bug: the test of NextID forgets the ids in use
Usable_IgnoresUse(i) == i # 0

\* the test by which the loop of NextID takes an id
Usable(i) == i # 0 /\ i \notin ids

\* NextID gives the first usable id at or after next to pipe p
NextID(p) ==
    /\ ~hung
    /\ \E k \in 0 .. (IDSpace - 1) :
          /\ Usable(IDAt(k))
          /\ \A j \in 0 .. (k - 1) : ~Usable(IDAt(j))
          /\ pid' = [pid EXCEPT ![p] = IDAt(k)]
          /\ ids' = ids \cup {IDAt(k)}
          /\ next' = (next + k + 1) % (2 * IDSpace)
    /\ UNCHANGED hung

\* with every id in use the loop of a further newPipe never ends, and the
\* generator's lock is never released
NextIDSpins ==
    /\ ~hung
    /\ \A i \in IDs : ~Usable(i)
    /\ hung' = TRUE
    /\ UNCHANGED <<next, ids, phase, pid, cpipes, spipes, closevars, workers>>

-----------------------------------------------------------------------------
(* The pipes *)

\* newPipe: the dialer or the listener wraps a new connection
NewPipe(p) ==
    /\ Garbage(p)
    /\ NextID(p)
    /\ phase' = [phase EXCEPT ![p] = "new"]
    /\ UNCHANGED <<cpipes, spipes, closevars, workers>>

\* addPipe returns when negotiation fails: the pipe is neither kept nor closed
NegotiateFails(p) ==
    /\ phase[p] = "new" /\ CLockFree
    /\ phase' = [phase EXCEPT ![p] = "leaked"]
    /\ UNCHANGED <<next, ids, hung, pid, cpipes, spipes, closevars, workers>>

\* addPipe below the limit: c.pipes[id] = p, and the handler is called if there
\* is one; on a closed connector the map is nil and the program panics
AddPipe(p) ==
    /\ phase[p] = "new" /\ CLockFree /\ ~cclosed
    /\ phase' = [phase EXCEPT ![p] = IF handler THEN "adding" ELSE "added"]
    /\ cpipes' = [cpipes EXCEPT ![pid[p]] = p]
    /\ UNCHANGED <<next, ids, hung, pid, spipes, closevars, workers>>

\* socket.addPipe, called by the handler: s.pipes[id] = p, and its goroutines run
SocketAddPipe(p) ==
    /\ phase[p] = "adding"
    /\ phase' = [phase EXCEPT ![p] = "added"]
    /\ spipes' = [spipes EXCEPT ![pid[p]] = p]
    /\ workers' = [workers EXCEPT ![p] = 2]
    /\ UNCHANGED <<next, ids, hung, pid, cpipes, closevars>>

\* addPipe at the limit: the pipe is only closed, by a goroutine of its own
DropPipe(p) ==
    /\ phase[p] = "new" /\ CLockFree
    /\ phase' = [phase EXCEPT ![p] = "dropped"]
    /\ UNCHANGED <<next, ids, hung, pid, cpipes, spipes, closevars, workers>>

\* plausible bug: pipe.Close recycles the id before it removes the pipe
Close_RecyclesEarly(p) ==
    /\ ~hung
    /\ phase[p] \in {"added", "dropped"}
    /\ phase' = [phase EXCEPT ![p] = "closing"]
    /\ ids' = ids \ {pid[p]}
    /\ UNCHANGED <<next, hung, pid, cpipes, spipes, closevars, workers>>

\* pipe.Close sets the closed flag: the calls after the first return at once
Close(p) ==
    /\ phase[p] \in {"added", "dropped"}
    /\ phase' = [phase EXCEPT ![p] = "closing"]
    /\ UNCHANGED <<next, ids, hung, pid, cpipes, spipes, closevars, workers>>

\* connector.remPipe deletes by id, and calls the handler if there is one
RemPipe(p) ==
    /\ phase[p] = "closing" /\ CLockFree
    /\ phase' = [phase EXCEPT ![p] = IF handler THEN "removing" ELSE "removed"]
    /\ cpipes' = [cpipes EXCEPT ![pid[p]] = NoPipe]
    /\ UNCHANGED <<next, ids, hung, pid, spipes, closevars, workers>>

\* socket.remPipe, called by the handler: it deletes by id too
SocketRemPipe(p) ==
    /\ phase[p] = "removing"
    /\ phase' = [phase EXCEPT ![p] = "removed"]
    /\ spipes' = [spipes EXCEPT ![pid[p]] = NoPipe]
    /\ UNCHANGED <<next, ids, hung, pid, cpipes, closevars, workers>>

\* plausible bug: pipe.Close forgets to recycle
Recycle_Forgotten(p) ==
    /\ ~hung
    /\ phase[p] = "removed"
    /\ phase' = [phase EXCEPT ![p] = "done"]
    /\ UNCHANGED <<next, ids, hung, pid, cpipes, spipes, closevars, workers>>

\* the end of pipe.Close: the id goes back, and the pipe still knows it
Recycle(p) ==
    /\ ~hung
    /\ phase[p] = "removed"
    /\ phase' = [phase EXCEPT ![p] = "done"]
    /\ ids' = ids \ {pid[p]}
    /\ UNCHANGED <<next, hung, pid, cpipes, spipes, closevars, workers>>

-----------------------------------------------------------------------------
(* The socket's goroutines and the Close calls *)

\* a sender or receiver meets an error or its stopq, and ends
WorkerEnds(p) ==
    /\ workers[p] > 0
    /\ workers' = [workers EXCEPT ![p] = @ - 1]
    /\ UNCHANGED <<next, ids, hung, phase, pid, cpipes, spipes, closevars>>

\* a sender or receiver that sees closedq calls s.remPipe(p.ID()) and ends: it
\* deletes what s.pipes holds under the id, which p may have given back
WorkerRemPipe(p) ==
    /\ sclosed
    /\ workers[p] > 0
    /\ workers' = [workers EXCEPT ![p] = @ - 1]
    /\ spipes' = [spipes EXCEPT ![pid[p]] = NoPipe]
    /\ UNCHANGED <<next, ids, hung, phase, pid, cpipes, closevars>>

\* socket.Close closes closedq ...
SocketClose ==
    /\ ~sclosed
    /\ sclosed' = TRUE
    /\ UNCHANGED <<next, ids, hung, phase, pid, cpipes, spipes, handler, cclosed, workers>>

\* ... and then clears the handler
ClearPipeEventHandler ==
    /\ sclosed /\ handler /\ CLockFree
    /\ handler' = FALSE
    /\ UNCHANGED <<next, ids, hung, phase, pid, cpipes, spipes, sclosed, cclosed, workers>>

\* connector.Close, which socket.Close or the user calls, takes c.pipes away
ConnectorClose ==
    /\ ~cclosed /\ CLockFree
    /\ cclosed' = TRUE
    /\ cpipes' = [i \in IDs |-> NoPipe]
    /\ UNCHANGED <<next, ids, hung, phase, pid, spipes, handler, sclosed, workers>>

Next ==
    \/ \E p \in Pipes :
          \/ NewPipe(p)
          \/ NegotiateFails(p)
          \/ AddPipe(p)
          \/ SocketAddPipe(p)
          \/ DropPipe(p)
          \/ Close(p)
          \/ RemPipe(p)
          \/ SocketRemPipe(p)
          \/ Recycle(p)
          \/ WorkerEnds(p)
          \/ WorkerRemPipe(p)
    \/ NextIDSpins
    \/ SocketClose
    \/ ClearPipeEventHandler
    \/ ConnectorClose

Spec == Init /\ [][Next]_vars

-----------------------------------------------------------------------------
(* Properties *)

\* the pipes that have taken an id and not given it back
Holding == {p \in Pipes : phase[p] \notin {"none", "done"}}

\* Two pipes that have not given their ids back never have the same id (NextID
\* skips the ids in use, and Recycle runs once per pipe).
UniqueIDs ==
    \A p, q \in Holding : pid[p] = pid[q] => p = q

\* An added pipe is found under its id: in c.pipes until the connector is
\* closed, and in s.pipes until the socket is.  No removal or insertion of
\* another pipe, at any point of its Close, touches the entry.  c.pipes holds
\* nothing else, and s.pipes holds no pipe whose Close has got past remPipe as
\* long as the handler is set.  Once the socket is closed an entry of s.pipes
\* may go early: a sender or a receiver that outlived its pipe removes by an id
\* that is another pipe's by then (socket.go, receiver and sender).
MapsHoldTheirPipes ==
    /\ \A p \in Pipes : phase[p] = "added" =>
          /\ ~cclosed => cpipes[pid[p]] = p
          /\ ~sclosed => spipes[pid[p]] = p
    /\ \A i \in IDs :
          /\ cpipes[i] # NoPipe => pid[cpipes[i]] = i /\ phase[cpipes[i]] \in {"adding", "added", "closing"}
          /\ spipes[i] # NoPipe => pid[spipes[i]] = i
          /\ spipes[i] # NoPipe /\ handler => phase[spipes[i]] \in {"added", "closing", "removing"}

\* An id is in use exactly while a pipe that has not finished Close has it, so
\* NextID can only spin when that many pipes exist: an id is lost to a pipe
\* whose negotiation failed, and in no other way.
IdsInUseAreHeld ==
    /\ ids = {pid[p] : p \in Holding}
    /\ hung => \A i \in IDs : \E p \in Holding : pid[p] = i
=============================================================================
