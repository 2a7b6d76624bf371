----------------------------- MODULE MCProcess -----------------------------
(* Parts of a process that do not share state, checked in one run: the     *)
(* initial state chooses the part that runs, and the others stay as they   *)
(* are.  PipeIds counts ids modulo 3, which leaves two for its two pipes:  *)
(* ids are reused, the counter wraps, and the ids can run out.             *)
EXTENDS PipeIds, Inproc, ChannelConn, NetListeners, Buffers, Options, SocketOptions

CONSTANT Running    \* the parts to choose from
VARIABLE part       \* the part that runs

SmallBits == [uint8 |-> 1, uint16 |-> 2, uint32 |-> 2, int32 |-> 2, int |-> 3, uint64 |-> 3]
SmallTexts == {-3, -1, 0, 1, 3, 4}

allvars == <<part, vars, inprocvars, connvars, netvars, bufvars, optvars, setvars>>

MCInit ==
    /\ part \in Running
    /\ Init /\ InprocInit /\ ConnInit /\ NetInit /\ BuffersInit /\ OptionsInit /\ SettingsInit
    /\ part = "conn" \/ kind = "rw"
    /\ part = "net" \/ (scheme = "tcp" /\ file = NoServer)
    /\ part = "buffers" \/ ckind = [p \in Outs |-> "copy"]
    /\ part = "options" \/ registered = OptionKinds
    /\ part = "settings" \/ (sort = "pair" /\ opts["SendTTL"] = 0)
    /\ \A o \in Settings \ {"SendTTL"} : opts[o] = 0

\* one listener of each kind is closed at most, and one websocket listener used
OneClose ==
    /\ Cardinality(closedq) <= 1 /\ Cardinality(shut) <= 1
    /\ IsWs => \E l \in Servers : \A k \in Servers \ {l} : listening[k] = "new" /\ k \notin shut

MCNext ==
    /\ UNCHANGED part
    /\ \/ part = "ids" /\ Next /\ UNCHANGED <<inprocvars, connvars, netvars, bufvars, optvars, setvars>>
       \/ part = "inproc" /\ InprocNext /\ UNCHANGED <<vars, connvars, netvars, bufvars, optvars, setvars>>
       \/ part = "conn" /\ ConnNext /\ UNCHANGED <<vars, inprocvars, netvars, bufvars, optvars, setvars>>
       \/ part = "net" /\ NetNext /\ UNCHANGED <<vars, inprocvars, connvars, bufvars, optvars, setvars>>
       \/ part = "buffers" /\ BuffersNext /\ UNCHANGED <<vars, inprocvars, connvars, netvars, optvars, setvars>>
       \/ part = "options" /\ OptionsNext /\ UNCHANGED <<vars, inprocvars, connvars, netvars, bufvars, setvars>>
       \/ part = "settings" /\ SettingsNext /\ UNCHANGED <<vars, inprocvars, connvars, netvars, bufvars, optvars>>

\* the fairness of the part that runs
MCFairness ==
    /\ \A l \in Listeners : /\ WF_inprocvars(part = "inproc" /\ ServeNext(l))
                            /\ WF_inprocvars(part = "inproc" /\ RemoveListener(l))
    /\ \A d \in Dials : WF_inprocvars(part = "inproc" /\ DialNext(d))
    /\ WF_connvars(part = "conn" /\ ConnReads)
    /\ \A l \in Servers : WF_netvars(part = "net" /\ NetServes(l)) /\ WF_netvars(part = "net" /\ NetCloses(l))
    /\ \A t \in Callers : /\ WF_optvars(part = "options" /\ ParseOption(t))
                          /\ SF_optvars(part = "options" /\ ParseLocks(t))
    /\ \A q \in Senders : WF_setvars(part = "settings" /\ SenderTakes(q))

MCSpec == MCInit /\ [][MCNext]_allvars /\ MCFairness
=============================================================================
