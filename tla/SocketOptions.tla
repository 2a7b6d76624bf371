--------------------------- MODULE SocketOptions ---------------------------
(***************************************************************************)
(* Settings of a socket (socket.go) or of a pair socket (pair.go) while it *)
(* runs: SetOption stores the value under the lock of the option set and   *)
(* calls the socket's hook without it; the hook reads the option again and *)
(* keeps it in a field, or makes a new queue.  Send looks at the fields    *)
(* and at the queue of the moment; a pipe's sender keeps the send queue it *)
(* found when it started, and that of a raw pipe has none.                 *)
(***************************************************************************)
EXTENDS Integers, FiniteSets

CONSTANTS
    Setters,        \* threads that call SetOption, once each
    Senders,        \* pipes of the socket
    MaxSends        \* bound on the messages sent

ASSUME SetsAssumption == MaxSends \in Nat /\ IsFiniteSet(Setters)

\* the options that onOptionChange is about; every one has the values 0 (its
\* default; FALSE) and 1 (TRUE)
Settings == {"NoRecv", "RecvQueueSize", "NoSend", "SendQueueSize", "SendTTL", "SendBestEffort"}

VARIABLES
    sort,       \* "socket" or "pair"
    opts,       \* the option set
    fields,     \* noRecv, noSend, ttl, bestEffort of the socket, by option
    sendqs,     \* how many send queues were made: the last one is s.sendq
    recvqs,     \* and receive queues
    setting,    \* SetOption: "new", "stored", "read", "done"
    target,     \* its option
    value,      \* its value; after the hook has read the option, what it read
    captured,   \* the send queue of a pipe's sender, 0 before it started, NoQueue if it has none
    stocks,     \* the send queues that hold a message
    accepted    \* how many messages Send has queued

queuevars == <<sendqs, recvqs, captured, stocks, accepted>>
callvars == <<sort, opts, fields, setting, target, value>>
setvars == <<callvars, queuevars>>

\* the queue of a raw pipe's sender, and of one that has ended
NoQueue == -1

Busy(t) == setting[t] \in {"stored", "read"}

\* New, newPairSocket: the options of the caller, one at most, then onOptionChange for each;
\* noSend stays FALSE, since no case of onOptionChange sets it
SettingsInit ==
    /\ sort \in {"socket", "pair"}
    /\ opts \in {[o \in Settings |-> IF o \in ovs THEN 1 ELSE 0] :
                   ovs \in {{}} \cup (IF sort = "socket" THEN {{o} : o \in Settings} ELSE {})}
    /\ fields = [opts EXCEPT !["NoSend"] = 0]
    /\ sendqs = 1 /\ recvqs = 1
    /\ captured = [p \in Senders |-> 0] /\ stocks = {} /\ accepted = 0
    /\ setting = [t \in Setters |-> "new"]
    /\ target = [t \in Setters |-> "NoRecv"] /\ value = [t \in Setters |-> 0]

\* SetOption up to the Unlock before the hook
Stores(t, o, v) ==
    /\ setting[t] = "new" /\ setting' = [setting EXCEPT ![t] = "stored"]
    /\ target' = [target EXCEPT ![t] = o] /\ value' = [value EXCEPT ![t] = v]
    /\ opts' = [opts EXCEPT ![o] = v]
    /\ UNCHANGED <<sort, fields, queuevars>>

\* the hook: GetOptionDefault
HookReads(t) ==
    /\ setting[t] = "stored" /\ setting' = [setting EXCEPT ![t] = "read"]
    /\ value' = [value EXCEPT ![t] = opts[target[t]]]
    /\ UNCHANGED <<sort, opts, fields, target, queuevars>>

\* the options for which a hook sets a field; both have NoRecv where NoSend was
\* meant, and the pair's NoRecv asks its peer for NoSend, which has no case
Kept == IF sort = "socket" THEN {"NoRecv", "SendTTL", "SendBestEffort"} ELSE {"SendTTL", "SendBestEffort"}

\* ... and its assignment, or make of a queue
HookSets(t) ==
    /\ setting[t] = "read" /\ setting' = [setting EXCEPT ![t] = "done"]
    /\ fields' = IF target[t] \in Kept THEN [fields EXCEPT ![target[t]] = value[t]] ELSE fields
    /\ LET Makes(queue) == sort = "socket" /\ target[t] = queue
       IN  /\ sendqs' = IF Makes("SendQueueSize") THEN sendqs + 1 ELSE sendqs
           /\ recvqs' = IF Makes("RecvQueueSize") THEN recvqs + 1 ELSE recvqs
    /\ UNCHANGED <<sort, opts, target, value, captured, stocks, accepted>>

\* sender: sendq := s.sendq, or nil for a raw pipe, which takes no to-one messages
SenderStarts(p) ==
    /\ sort = "socket" /\ captured[p] = 0
    /\ \E raw \in BOOLEAN : captured' = [captured EXCEPT ![p] = IF raw THEN NoQueue ELSE sendqs]
    /\ UNCHANGED <<callvars, sendqs, recvqs, stocks, accepted>>

\* the sender meets an error of the transport or its stopq, and ends
SenderEnds(p) ==
    /\ captured[p] > 0 /\ captured' = [captured EXCEPT ![p] = NoQueue]
    /\ UNCHANGED <<callvars, sendqs, recvqs, stocks, accepted>>

\* Send: dropped, or into the current send queue; the pair's goes to the peer
SettingsSend ==
    /\ accepted < MaxSends
    /\ IF fields["NoSend"] = 1 THEN UNCHANGED <<accepted, stocks>>
       ELSE accepted' = accepted + 1 /\ stocks' = IF sort = "socket" THEN stocks \cup {sendqs} ELSE stocks
    /\ UNCHANGED <<callvars, sendqs, recvqs, captured>>


\* a sender takes the messages of the queue it has
SenderTakes(p) ==
    /\ captured[p] \in stocks /\ stocks' = stocks \ {captured[p]}
    /\ UNCHANGED <<callvars, sendqs, recvqs, captured, accepted>>

SettingsNext ==
    \/ \E t \in Setters : \/ \E o \in Settings, v \in {0, 1} : Stores(t, o, v)
                          \/ HookReads(t) \/ HookSets(t)
    \/ \E p \in Senders : SenderStarts(p) \/ SenderTakes(p) \/ SenderEnds(p)
    \/ SettingsSend

SettingsSpec == SettingsInit /\ [][SettingsNext]_setvars

\* a sender that runs takes what is in its queue: its transport takes messages,
\* or fails, which ends the sender
SettingsFairness == \A p \in Senders : WF_setvars(SenderTakes(p))

-----------------------------------------------------------------------------
(* Properties *)


\* NoSend: "silently drop sended messages" (options.go:14): while the option
\* is set and no SetOption is under way, Send queues nothing.
NoSendDrops ==
    [][(opts["NoSend"] = 1 /\ \A t \in Setters : ~Busy(t)) => accepted' = accepted]_setvars
=============================================================================
