-------------------------- MODULE ConnectorProofs --------------------------
(***************************************************************************)
(* The types of Connector, who is stopped at its limit on the number of    *)
(* pipes, what Close has to close, that each dialer has one pipe at a time *)
(* and that none that is to dial again is forgotten, for any number of     *)
(* dialers, listeners and pipes, any values of the limit and any number of *)
(* changes of it.                                                          *)
(***************************************************************************)
EXTENDS Connector, FiniteSetTheorems, TLAPS

\* the provers, in the order in which they are tried
USE ZenonT(3), SMT, ZenonT(20), Z3

\* The initial state is of the right type.
LEMMA InitTypeOK == Init => TypeOK
<1> SUFFICES ASSUME Init PROVE TypeOK
  OBVIOUS
<1>1. reconnTime \in [Dialers -> 0 .. MaxBackoff]
  BY BoundsAssumption DEF Init
<1>2. /\ limit \in Limits
      /\ stopped \in [Connecting -> BOOLEAN] /\ shut \in [Connecting -> BOOLEAN]
      /\ owner \in [Pipes -> Connecting \cup {NoOwner}]
      /\ attempt \in [Dialers -> Attempts] /\ phase \in [Pipes -> Phases]
  BY LimitsAssumption DEF Init, Attempts, Phases
<1> QED
  BY <1>1, <1>2 DEF Init, TypeOK

\* checkLimit, startConnecting and stopConnecting keep the types of what they set.
LEMMA CheckLimitType ==
  ASSUME TypeOK, NEW ps, NEW n, NEW b \in BOOLEAN, CheckLimit(ps, n, b)
  PROVE  /\ stopped' \in [Connecting -> BOOLEAN]
         /\ rearming' \in SUBSET Dialers
         /\ armed' \in [Dialers -> BOOLEAN]
<1>1. CASE StartConnecting
  BY <1>1 DEF StartConnecting, TypeOK
<1>2. CASE StopConnecting
  BY <1>2 DEF StopConnecting, TypeOK
<1>3. CASE UNCHANGED <<stopped, rearming, armed>>
  BY <1>3 DEF TypeOK
<1> QED
  BY <1>1, <1>2, <1>3 DEF CheckLimit

\* Every step of every goroutine keeps the state of the right type.
LEMMA TypeStep == TypeOK /\ [Next]_vars => TypeOK'
<1> SUFFICES ASSUME TypeOK, [Next]_vars PROVE TypeOK'
  OBVIOUS
<1> USE LimitsAssumption, BoundsAssumption, DisjointAssumption
<1> USE DEF TypeOK, Attempts, Phases, Connecting, cvars, dialVars, timerVars, lostVars, pipeVars
<1>1. ASSUME NEW n \in Limits, SetLimit(n) PROVE TypeOK'
    <2>1. /\ stopped' \in [Connecting -> BOOLEAN]
          /\ rearming' \in SUBSET Dialers
          /\ armed' \in [Dialers -> BOOLEAN]
      <3> HIDE DEF TypeOK, Connecting
      <3>1. CheckLimit(pipes, n, TRUE)
        BY <1>1 DEF SetLimit
      <3>2. TRUE \in BOOLEAN
        OBVIOUS
      <3> QED
        BY <3>1, <3>2, CheckLimitType, Zenon
    <2> QED
      BY <1>1, <2>1 DEF SetLimit
<1>2. ASSUME NEW d \in Dialers, NewDialer(d) PROVE TypeOK'
    BY <1>2 DEF NewDialer, AtLimit
<1>3. ASSUME NEW d \in Dialers, Dial(d) PROVE TypeOK'
    <2>1. CASE d \in Async
      <3>0. /\ redialIn' = [redialIn EXCEPT ![d] = @ + 1] /\ redialIn[d] + 1 \in Nat
            /\ result' = [result EXCEPT ![d] = "ok"] /\ userIn' = userIn
        BY <1>3, <2>1 DEF Dial
      <3>1. redialIn' \in [Dialers -> Nat] /\ result' \in [Dialers -> {"none", "ok", "err"}] /\ userIn' = userIn
        BY <3>0
      <3>2. active' \in [Dialers -> BOOLEAN] /\ reconnTime' \in [Dialers -> 0 .. MaxBackoff]
        BY <1>3 DEF Dial
      <3> QED
        BY <1>3, <3>1, <3>2 DEF Dial
    <2>2. CASE d \notin Async
      <3>1. redialIn' = redialIn /\ result' = result /\ userIn' \in [Dialers -> BOOLEAN]
        BY <1>3, <2>2 DEF Dial
      <3>2. active' \in [Dialers -> BOOLEAN] /\ reconnTime' \in [Dialers -> 0 .. MaxBackoff]
        BY <1>3 DEF Dial
      <3> QED
        BY <1>3, <3>1, <3>2 DEF Dial
    <2> QED
      BY <2>1, <2>2
<1>4. ASSUME NEW d \in Dialers, StopDial(d) PROVE TypeOK'
    BY <1>4 DEF StopDial
<1>5. ASSUME NEW l \in Listeners, NewListener(l) PROVE TypeOK'
    BY <1>5 DEF NewListener, AtLimit
<1>6. ASSUME NEW l \in Listeners, Listen(l) PROVE TypeOK'
    BY <1>6 DEF Listen
<1>7. ASSUME NEW l \in Listeners, StopListen(l) PROVE TypeOK'
    BY <1>7 DEF StopListen
<1>8. ASSUME NEW l \in Listeners, NEW p \in Pipes, Accept(l, p) PROVE TypeOK'
    BY <1>8 DEF Accept
<1>9. ASSUME NEW p \in Pipes, ClosePipe(p) PROVE TypeOK'
    BY <1>9 DEF ClosePipe
<1>10. ASSUME NEW x \in Connecting, CloseConnect(x) PROVE TypeOK'
    BY <1>10 DEF CloseConnect
<1>11. ASSUME Close PROVE TypeOK'
    BY <1>11 DEF Close
<1>12. ASSUME NEW d \in Dialers, NEW redial \in BOOLEAN, DialRefused(d, redial) PROVE TypeOK'
    BY <1>12 DEF DialRefused, Enters
<1>13. ASSUME NEW d \in Dialers, NEW redial \in BOOLEAN, DialStarts(d, redial) PROVE TypeOK'
    BY <1>13 DEF DialStarts, Enters
<1>14. ASSUME NEW d \in Dialers, DialErrs(d) PROVE TypeOK'
    BY <1>14 DEF DialErrs
<1>15. ASSUME NEW d \in Dialers, NEW p \in Pipes, DialConnects(d, p) PROVE TypeOK'
    BY <1>15 DEF DialConnects
<1>16. ASSUME NEW d \in Dialers, DialReturns(d) PROVE TypeOK'
    BY <1>16 DEF DialReturns
<1>17. ASSUME NEW d \in Dialers, DialGivesUp(d) PROVE TypeOK'
    <2>1. CASE ~again[d]
      BY <1>17, <2>1 DEF DialGivesUp
    <2>2. CASE again[d]
      <3>1. reconnTime' \in [Dialers -> 0 .. MaxBackoff]
        <4>1. reconnTime' = [reconnTime EXCEPT ![d] = Backoff(@)]
          BY <1>17, <2>2 DEF DialGivesUp
        <4>2. Backoff(reconnTime[d]) \in 0 .. MaxBackoff
          <5>1. MaxBackoff \in Nat /\ reconnTime[d] \in 0 .. MaxBackoff
            OBVIOUS
          <5> HIDE DEF TypeOK
          <5> QED
            BY <5>1 DEF Backoff
        <4>3. reconnTime \in [Dialers -> 0 .. MaxBackoff]
          OBVIOUS
        <4> HIDE DEF TypeOK
        <4> QED
          BY <4>1, <4>2, <4>3
      <3>2. armed' \in [Dialers -> BOOLEAN] /\ result' = result
        BY <1>17, <2>2 DEF DialGivesUp
      <3>3. orphans' \in [Dialers -> Nat]
        BY <1>17, <2>2 DEF DialGivesUp
      <3> QED
        BY <1>17, <3>1, <3>2, <3>3 DEF DialGivesUp
    <2> QED
      BY <2>1, <2>2
<1>18. ASSUME NEW d \in Dialers, Fire(d) PROVE TypeOK'
    <2>1. armed' \in [Dialers -> BOOLEAN] /\ orphans' \in [Dialers -> Nat]
      <3>1. CASE orphans' = orphans /\ armed' = [armed EXCEPT ![d] = FALSE]
        BY <3>1
      <3>2. CASE orphans[d] > 0 /\ orphans' = [orphans EXCEPT ![d] = @ - 1] /\ armed' = armed
        BY <3>2
      <3> QED
        BY <1>18, <3>1, <3>2 DEF Fire
    <2> QED
      BY <1>18, <2>1 DEF Fire
<1>19. ASSUME NEW d \in Dialers, PipeClosed(d) PROVE TypeOK'
    BY <1>19 DEF PipeClosed
<1>20. ASSUME NEW d \in Dialers, PipeClosedReconn(d) PROVE TypeOK'
    BY <1>20 DEF PipeClosedReconn, Reconn
<1>21. ASSUME NEW d \in Dialers, RemDialer(d) PROVE TypeOK'
    BY <1>21 DEF RemDialer
<1>35. ASSUME NEW d \in Dialers, RemDialerCloses(d) PROVE TypeOK'
    BY <1>35 DEF RemDialerCloses
<1>22. ASSUME NEW d \in Dialers, Rearm(d) PROVE TypeOK'
    BY <1>22 DEF Rearm, Reconn
<1>23. ASSUME NEW p \in Pipes, NegotiateFails(p) PROVE TypeOK'
    BY <1>23 DEF NegotiateFails, Added
<1>24. ASSUME NEW p \in Pipes, AddPipe(p) PROVE TypeOK'
    BY <1>24, CheckLimitType DEF AddPipe, Added
<1>25. ASSUME NEW p \in Pipes, AddPipePanics(p) PROVE TypeOK'
    BY <1>25 DEF AddPipePanics
<1>26. ASSUME NEW p \in Pipes, DropPipe(p) PROVE TypeOK'
    BY <1>26 DEF DropPipe, Added
<1>27. ASSUME NEW p \in Pipes, RemPipe(p) PROVE TypeOK'
    BY <1>27 DEF RemPipe
<1>28. ASSUME NEW p \in Pipes, RemPipeCheck(p) PROVE TypeOK'
    BY <1>28, CheckLimitType DEF RemPipeCheck
<1>29. ASSUME NEW l \in Listeners, ServeEnds(l) PROVE TypeOK'
    BY <1>29 DEF ServeEnds
<1>30. ASSUME NEW x \in Connecting \cup Pipes, CloseNext(x) PROVE TypeOK'
    BY <1>30 DEF CloseNext
<1>34. CASE UNCHANGED vars
    BY <1>34 DEF vars
<1> HIDE DEF TypeOK
<1>31. CASE UserNext
    BY <1>31, <1>1, <1>2, <1>3, <1>4, <1>5, <1>6, <1>7, <1>8, <1>9, <1>10, <1>11 DEF UserNext
<1>32. CASE \E d \in Dialers : DialerNext(d)
    BY <1>32, <1>12, <1>13, <1>14, <1>15, <1>16, <1>17, <1>18, <1>19, <1>20, <1>21, <1>22, <1>35 DEF DialerNext
<1>33. CASE \E p \in Pipes : PipeNext(p)
    BY <1>33, <1>23, <1>24, <1>25, <1>26, <1>27, <1>28 DEF PipeNext
<1>. QED
    BY <1>31, <1>32, <1>33, <1>34, <1>29, <1>30 DEF Next

\* The fields of the connector, its dialers, listeners and pipes always have
\* their types: in particular no count of goroutines or timers is negative.
THEOREM TypeCorrect == Spec => []TypeOK
  BY InitTypeOK, TypeStep, PTL DEF Spec

\* What holds between critical sections, and also while c.Mutex is held to
\* restart dialers.  Without a limit nothing is stopped, which makes up for
\* the checkLimit(false) of remPipe that does nothing then.
LimitInv ==
    ~closed =>
        /\ AtLimit => \A x \in dialers \cup listeners : stopped[x]
        /\ ~AtLimit /\ (\A p \in Pipes : phase[p] # "removed") => \A x \in dialers \cup listeners : ~stopped[x]
        /\ limit = -1 => \A x \in dialers \cup listeners : ~stopped[x]

\* c.pipes is finite, so len(c.pipes) counts, and deleting a pipe does not raise it.
LEMMA PipesCount ==
  ASSUME TypeOK
  PROVE  /\ IsFiniteSet(pipes) /\ Cardinality(pipes) \in Nat /\ limit \in Int
         /\ \A p \in Pipes : /\ Cardinality(pipes \ {p}) \in Nat
                             /\ Cardinality(pipes \ {p}) <= Cardinality(pipes)
                             /\ Cardinality(pipes \cup {p}) \in Nat
                             /\ Cardinality(pipes \cup {p}) <= Cardinality(pipes) + 1
<1>1. IsFiniteSet(pipes) /\ limit \in Int
  BY FiniteAssumption, LimitsAssumption, FS_Subset DEF TypeOK
<1>2. Cardinality(pipes) \in Nat
  BY <1>1, FS_CardinalityType
<1>3. ASSUME NEW p \in Pipes
      PROVE  Cardinality(pipes \ {p}) \in Nat /\ Cardinality(pipes \ {p}) <= Cardinality(pipes)
  BY <1>1, <1>2, FS_Subset, FS_CardinalityType, pipes \ {p} \subseteq pipes
<1>4. ASSUME NEW p \in Pipes
      PROVE  Cardinality(pipes \cup {p}) \in Nat /\ Cardinality(pipes \cup {p}) <= Cardinality(pipes) + 1
  BY <1>1, <1>2, FS_AddElement
<1> QED
  BY <1>1, <1>2, <1>3, <1>4

\* What checkLimit does to the dialers and listeners of an open connector.
LEMMA CheckLimitStops ==
  ASSUME TypeOK, ~closed, NEW ps, Cardinality(ps) \in Nat, NEW n \in Int, NEW b \in BOOLEAN, CheckLimit(ps, n, b)
  PROVE  /\ n # -1 /\ n <= Cardinality(ps) => \A x \in dialers \cup listeners : stopped'[x]
         /\ n # -1 /\ Cardinality(ps) < n => \A x \in dialers \cup listeners : ~stopped'[x]
         /\ n = -1 /\ b => \A x \in dialers \cup listeners : ~stopped'[x]
         /\ n = -1 /\ ~b => stopped' = stopped
<1>1. dialers \cup listeners \subseteq Connecting
  BY DEF TypeOK, Connecting
<1>2. StartConnecting => \A x \in dialers \cup listeners : ~stopped'[x]
  BY <1>1 DEF StartConnecting
<1>3. StopConnecting => \A x \in dialers \cup listeners : stopped'[x]
  BY <1>1 DEF StopConnecting
<1> QED
  BY <1>2, <1>3 DEF CheckLimit

\* A step that leaves the limit, the pipes and the stopped flags alone, and
\* ends no remPipe, keeps LimitInv.
LEMMA LimitFrame ==
  ASSUME LimitInv, UNCHANGED <<limit, closed, dialers, listeners, pipes, stopped>>,
         \A p \in Pipes : phase[p] = "removed" => phase'[p] = "removed"
  PROVE  LimitInv'
  BY DEF LimitInv, AtLimit

\* Every step keeps LimitInv.
LEMMA LimitStep == TypeOK /\ LimitInv /\ [Next]_vars => LimitInv'
<1> SUFFICES ASSUME TypeOK, LimitInv, [Next]_vars PROVE LimitInv'
  OBVIOUS
<1> USE DEF cvars, dialVars, timerVars, lostVars, pipeVars
<1>1. ASSUME NEW n \in Limits, SetLimit(n) PROVE LimitInv'
  <2>1. CheckLimit(pipes, n, TRUE) /\ UNCHANGED <<closed, dialers, listeners, pipes, phase>> /\ limit' = n
    BY <1>1 DEF SetLimit
  <2>2. n \in Int /\ Cardinality(pipes) \in Nat /\ TRUE \in BOOLEAN
    BY LimitsAssumption, PipesCount
  <2>3. ~closed => /\ n # -1 /\ n <= Cardinality(pipes) => \A x \in dialers \cup listeners : stopped'[x]
                   /\ n # -1 /\ Cardinality(pipes) < n => \A x \in dialers \cup listeners : ~stopped'[x]
                   /\ n = -1 => \A x \in dialers \cup listeners : ~stopped'[x]
    BY <2>1, <2>2, CheckLimitStops
  <2> QED
    BY <2>1, <2>2, <2>3 DEF LimitInv, AtLimit
<1>2. ASSUME NEW d \in Dialers, NewDialer(d) PROVE LimitInv'
  <2>1. stopped' = [stopped EXCEPT ![d] = AtLimit] /\ stopped \in [Connecting -> BOOLEAN] /\ d \in Connecting
    BY <1>2 DEF NewDialer, TypeOK, Connecting
  <2>2. AtLimit' = AtLimit /\ AtLimit \in BOOLEAN
    BY <1>2 DEF NewDialer, AtLimit
  <2>3. dialers \cup listeners \subseteq Connecting
    BY DEF TypeOK, Connecting
  <2> QED
    BY <1>2, <2>1, <2>2, <2>3 DEF NewDialer, LimitInv, AtLimit
<1>3. ASSUME NEW d \in Dialers, Dial(d) PROVE LimitInv'
  BY <1>3, LimitFrame DEF Dial
<1>4. ASSUME NEW d \in Dialers, StopDial(d) PROVE LimitInv'
  BY <1>4 DEF StopDial, LimitInv, AtLimit
<1>5. ASSUME NEW l \in Listeners, NewListener(l) PROVE LimitInv'
  <2>1. stopped' = [stopped EXCEPT ![l] = AtLimit] /\ stopped \in [Connecting -> BOOLEAN] /\ l \in Connecting
    BY <1>5 DEF NewListener, TypeOK, Connecting
  <2>2. AtLimit' = AtLimit /\ AtLimit \in BOOLEAN
    BY <1>5 DEF NewListener, AtLimit
  <2>3. dialers \cup listeners \subseteq Connecting
    BY DEF TypeOK, Connecting
  <2> QED
    BY <1>5, <2>1, <2>2, <2>3 DEF NewListener, LimitInv, AtLimit
<1>6. ASSUME NEW l \in Listeners, Listen(l) PROVE LimitInv'
  BY <1>6, LimitFrame DEF Listen
<1>7. ASSUME NEW l \in Listeners, StopListen(l) PROVE LimitInv'
  BY <1>7 DEF StopListen, LimitInv, AtLimit
<1>8. ASSUME NEW l \in Listeners, NEW p \in Pipes, Accept(l, p) PROVE LimitInv'
  BY <1>8, LimitFrame DEF Accept, TypeOK
<1>9. ASSUME NEW p \in Pipes, ClosePipe(p) PROVE LimitInv'
  BY <1>9, LimitFrame DEF ClosePipe, TypeOK
<1>10. ASSUME NEW x \in Connecting, CloseConnect(x) PROVE LimitInv'
  BY <1>10, LimitFrame DEF CloseConnect
<1>11. ASSUME Close PROVE LimitInv'
  BY <1>11 DEF Close, LimitInv, AtLimit
<1>12. ASSUME NEW d \in Dialers, NEW redial \in BOOLEAN, DialRefused(d, redial) PROVE LimitInv'
  BY <1>12, LimitFrame DEF DialRefused
<1>13. ASSUME NEW d \in Dialers, NEW redial \in BOOLEAN, DialStarts(d, redial) PROVE LimitInv'
  BY <1>13, LimitFrame DEF DialStarts
<1>14. ASSUME NEW d \in Dialers, DialErrs(d) PROVE LimitInv'
  BY <1>14, LimitFrame DEF DialErrs
<1>15. ASSUME NEW d \in Dialers, NEW p \in Pipes, DialConnects(d, p) PROVE LimitInv'
  BY <1>15, LimitFrame DEF DialConnects, TypeOK
<1>16. ASSUME NEW d \in Dialers, DialReturns(d) PROVE LimitInv'
  BY <1>16, LimitFrame DEF DialReturns
<1>17. ASSUME NEW d \in Dialers, DialGivesUp(d) PROVE LimitInv'
  BY <1>17, LimitFrame DEF DialGivesUp
<1>18. ASSUME NEW d \in Dialers, Fire(d) PROVE LimitInv'
  BY <1>18, LimitFrame DEF Fire
<1>19. ASSUME NEW d \in Dialers, PipeClosed(d) PROVE LimitInv'
  BY <1>19, LimitFrame DEF PipeClosed
<1>20. ASSUME NEW d \in Dialers, PipeClosedReconn(d) PROVE LimitInv'
  BY <1>20, LimitFrame DEF PipeClosedReconn
<1>21. ASSUME NEW d \in Dialers, RemDialer(d) PROVE LimitInv'
  BY <1>21 DEF RemDialer, LimitInv, AtLimit
<1>35. ASSUME NEW d \in Dialers, RemDialerCloses(d) PROVE LimitInv'
  BY <1>35, LimitFrame DEF RemDialerCloses
<1>22. ASSUME NEW d \in Dialers, Rearm(d) PROVE LimitInv'
  BY <1>22, LimitFrame DEF Rearm
<1>23. ASSUME NEW p \in Pipes, NegotiateFails(p) PROVE LimitInv'
  BY <1>23, LimitFrame DEF NegotiateFails, TypeOK
<1>24. ASSUME NEW p \in Pipes, AddPipe(p) PROVE LimitInv'
  <2>1. /\ CheckLimit(pipes', limit, FALSE) /\ UNCHANGED <<limit, closed, dialers, listeners>> /\ ~closed
        /\ pipes' = pipes \cup {p}
    BY <1>24 DEF AddPipe
  <2>2. limit \in Int /\ Cardinality(pipes') \in Nat /\ FALSE \in BOOLEAN
    BY <2>1, PipesCount
  <2>3. /\ limit # -1 /\ limit <= Cardinality(pipes') => \A x \in dialers \cup listeners : stopped'[x]
        /\ limit # -1 /\ Cardinality(pipes') < limit => \A x \in dialers \cup listeners : ~stopped'[x]
        /\ limit = -1 => stopped' = stopped
    BY <2>1, <2>2, CheckLimitStops
  <2>4. AtLimit' <=> limit # -1 /\ limit <= Cardinality(pipes')
    BY <2>1 DEF AtLimit
  <2>5. limit = -1 => \A x \in dialers \cup listeners : ~stopped[x]
    BY <2>1 DEF LimitInv
  <2>6. ~AtLimit' => \A x \in dialers \cup listeners : ~stopped'[x]
    BY <2>2, <2>3, <2>4, <2>5
  <2>7. limit = -1 => \A x \in dialers \cup listeners : ~stopped'[x]
    BY <2>3, <2>5
  <2> QED
    BY <2>1, <2>3, <2>4, <2>6, <2>7 DEF LimitInv
<1>25. ASSUME NEW p \in Pipes, AddPipePanics(p) PROVE LimitInv'
  BY <1>25, LimitFrame DEF AddPipePanics
<1>26. ASSUME NEW p \in Pipes, DropPipe(p) PROVE LimitInv'
  BY <1>26, LimitFrame DEF DropPipe, TypeOK
<1>27. ASSUME NEW p \in Pipes, RemPipe(p) PROVE LimitInv'
  <2>1. /\ UNCHANGED <<limit, closed, dialers, listeners, stopped>> /\ pipes' = pipes \ {p}
        /\ phase'[p] = "removed"
    BY <1>27 DEF RemPipe, TypeOK
  <2>2. /\ Cardinality(pipes') \in Nat /\ Cardinality(pipes) \in Nat /\ limit \in Int
        /\ Cardinality(pipes') <= Cardinality(pipes)
    BY <2>1, PipesCount
  <2>3. AtLimit' => AtLimit
    BY <2>1, <2>2 DEF AtLimit
  <2> QED
    BY <2>1, <2>3 DEF LimitInv
<1>28. ASSUME NEW p \in Pipes, RemPipeCheck(p) PROVE LimitInv'
  <2>1. CheckLimit(pipes, limit, FALSE) /\ UNCHANGED <<limit, closed, dialers, listeners, pipes>>
    BY <1>28 DEF RemPipeCheck
  <2>2. limit \in Int /\ Cardinality(pipes) \in Nat /\ FALSE \in BOOLEAN
    BY PipesCount
  <2>3. ~closed => /\ limit # -1 /\ limit <= Cardinality(pipes) => \A x \in dialers \cup listeners : stopped'[x]
                   /\ limit # -1 /\ Cardinality(pipes) < limit => \A x \in dialers \cup listeners : ~stopped'[x]
                   /\ limit = -1 => stopped' = stopped
    BY <2>1, <2>2, CheckLimitStops
  <2> QED
    BY <2>1, <2>2, <2>3 DEF LimitInv, AtLimit
<1>29. ASSUME NEW l \in Listeners, ServeEnds(l) PROVE LimitInv'
  BY <1>29, LimitFrame DEF ServeEnds
<1>30. ASSUME NEW x \in Connecting \cup Pipes, CloseNext(x) PROVE LimitInv'
  BY <1>30, LimitFrame DEF CloseNext, TypeOK
<1>31. CASE UserNext
  BY <1>31, <1>1, <1>2, <1>3, <1>4, <1>5, <1>6, <1>7, <1>8, <1>9, <1>10, <1>11 DEF UserNext
<1>32. CASE \E d \in Dialers : DialerNext(d)
  BY <1>32, <1>12, <1>13, <1>14, <1>15, <1>16, <1>17, <1>18, <1>19, <1>20, <1>21, <1>22, <1>35 DEF DialerNext
<1>33. CASE \E p \in Pipes : PipeNext(p)
  BY <1>33, <1>23, <1>24, <1>25, <1>26, <1>27, <1>28 DEF PipeNext
<1>34. CASE UNCHANGED vars
  BY <1>34, LimitFrame DEF vars
<1> QED
  BY <1>31, <1>32, <1>33, <1>34, <1>29, <1>30 DEF Next

\* LimitInv holds throughout.
LEMMA LimitInvariant == Spec => [](TypeOK /\ LimitInv)
<1>1. Init => LimitInv
  BY DEF Init, LimitInv
<1> QED
  BY <1>1, InitTypeOK, TypeStep, LimitStep, PTL DEF Spec

\* At the limit, whenever c.Mutex is free, every dialer and listener of an
\* open connector is stopped: no step of addPipe, remPipe, NewDialer,
\* NewListener or SetOption(PipeLimit) leaves one running.
THEOREM StopsAtLimit == Spec => []StoppedAtLimit
<1>1. LimitInv => StoppedAtLimit
  BY DEF LimitInv, StoppedAtLimit
<1> QED
  BY <1>1, LimitInvariant, PTL

\* Below the limit, once every remPipe is through, none of them is stopped.
THEOREM StartsBelowLimit == Spec => []StartedBelowLimit
<1>1. LimitInv => StartedBelowLimit
  BY DEF LimitInv, StartedBelowLimit
<1> QED
  BY <1>1, LimitInvariant, PTL

\* No step takes the pipes above the limit in force: only addPipe adds one, and
\* it looks at the limit in the same section of c.Mutex.
LEMMA LimitRespectedStep ==
  TypeOK /\ [Next]_vars => [pipes' \ pipes # {} => limit = -1 \/ Cardinality(pipes') <= limit]_vars
<1> SUFFICES ASSUME TypeOK, Next, pipes' \ pipes # {}
             PROVE  limit = -1 \/ Cardinality(pipes') <= limit
  BY DEF vars
<1> USE DEF cvars, dialVars, timerVars, lostVars, pipeVars
<1>1. ASSUME NEW p \in Pipes, AddPipe(p) PROVE limit = -1 \/ Cardinality(pipes') <= limit
  <2>1. pipes' = pipes \cup {p} /\ (limit = -1 \/ limit > Cardinality(pipes))
    BY <1>1 DEF AddPipe, HasRoom
  <2>2. /\ Cardinality(pipes) \in Nat /\ limit \in Int
        /\ Cardinality(pipes') \in Nat /\ Cardinality(pipes') <= Cardinality(pipes) + 1
    BY <2>1, PipesCount
  <2> QED
    BY <2>1, <2>2
<1>2. CASE UserNext
  BY <1>2 DEF UserNext, SetLimit, NewDialer, Dial, StopDial, NewListener, Listen, StopListen, Accept, ClosePipe, CloseConnect, Close
<1>3. CASE \E d \in Dialers : DialerNext(d)
  <2>1. PICK d \in Dialers : DialerNext(d)
    BY <1>3
  <2>2. ASSUME NEW redial \in BOOLEAN, DialRefused(d, redial) \/ DialStarts(d, redial) PROVE pipes' = pipes
    BY <2>2 DEF DialRefused, DialStarts
  <2>3. ASSUME NEW p \in Pipes, DialConnects(d, p) PROVE pipes' = pipes
    BY <2>3 DEF DialConnects
  <2>4. DialErrs(d) \/ DialReturns(d) \/ DialGivesUp(d) => pipes' = pipes
    BY DEF DialErrs, DialReturns, DialGivesUp
  <2>5. Fire(d) \/ PipeClosed(d) \/ PipeClosedReconn(d) \/ RemDialer(d) \/ RemDialerCloses(d) \/ Rearm(d) => pipes' = pipes
    BY DEF Fire, PipeClosed, PipeClosedReconn, RemDialer, RemDialerCloses, Rearm
  <2> QED
    BY <2>1, <2>2, <2>3, <2>4, <2>5 DEF DialerNext
<1>4. CASE \E p \in Pipes : PipeNext(p) /\ ~AddPipe(p)
  BY <1>4 DEF PipeNext, NegotiateFails, AddPipePanics, DropPipe, RemPipe, RemPipeCheck
<1> QED
  BY <1>1, <1>2, <1>3, <1>4 DEF Next, ServeEnds, CloseNext

\* The number of pipes never goes above the limit in force when a pipe is added.
THEOREM AddPipeRespectsLimit == Spec => LimitRespected
<1> QED
  BY TypeCorrect, LimitRespectedStep, PTL DEF Spec, LimitRespected
-----------------------------------------------------------------------------
(* What Close has to close *)

\* What was made and is not closed is in the connector or in the hands of
\* Close, or a remDialer is about to close it, and every pipe that addPipe kept
\* is in the connector or in the hands of Close.  A dialer that was not made is
\* not stopped.
HeldInv ==
    /\ dialers \cup listeners \subseteq made
    /\ \A d \in Dialers \ made : ~stopped[d]
    /\ \A x \in made : \/ shut[x]
                       \/ x \in dialers \cup listeners \cup toClose
                       \/ x \in Dialers /\ removing[x] > 0
    /\ \A p \in Pipes : phase[p] = "added" => p \in pipes \cup toClose
    /\ IF closed THEN dialers = {} /\ listeners = {} /\ pipes = {} ELSE toClose = {}

\* A step that adds and removes nothing, stops nothing that was not made, opens
\* nothing again and keeps no further pipe, keeps HeldInv.
LEMMA HeldFrame ==
  ASSUME HeldInv, UNCHANGED <<dialers, listeners, made, toClose, pipes, closed, removing>>,
         \A d \in Dialers \ made : ~stopped'[d],
         \A x \in made : shut[x] => shut'[x],
         \A p \in Pipes : phase'[p] = "added" => phase[p] = "added"
  PROVE  HeldInv'
  BY DEF HeldInv

\* checkLimit stops only what the connector has.
LEMMA CheckLimitStopsMade ==
  ASSUME TypeOK, HeldInv, NEW ps, NEW n, NEW b \in BOOLEAN, CheckLimit(ps, n, b)
  PROVE  \A d \in Dialers \ made : ~stopped'[d]
  BY DEF TypeOK, HeldInv, CheckLimit, StartConnecting, StopConnecting, Connecting

\* Every step keeps HeldInv.
LEMMA HeldStep == TypeOK /\ HeldInv /\ [Next]_vars => HeldInv'
<1> SUFFICES ASSUME TypeOK, HeldInv, [Next]_vars PROVE HeldInv'
  OBVIOUS
<1> USE DEF cvars, dialVars, timerVars, lostVars, pipeVars
<1>0. \A d \in Dialers \ made : ~stopped[d]
  BY DEF HeldInv
<1>1. ASSUME NEW n \in Limits, SetLimit(n) PROVE HeldInv'
  BY <1>1, CheckLimitStopsMade, HeldFrame DEF SetLimit
<1>2. ASSUME NEW d \in Dialers, NewDialer(d) PROVE HeldInv'
  BY <1>2 DEF NewDialer, HeldInv, TypeOK, Connecting
<1>3. ASSUME NEW d \in Dialers, StopDial(d) PROVE HeldInv'
  BY <1>3 DEF StopDial, HeldInv, TypeOK, Connecting
<1>4. ASSUME NEW l \in Listeners, NewListener(l) PROVE HeldInv'
  BY <1>4 DEF NewListener, HeldInv, TypeOK, Connecting
<1>5. ASSUME NEW l \in Listeners, StopListen(l) PROVE HeldInv'
  BY <1>5 DEF StopListen, HeldInv, TypeOK, Connecting
<1>6. ASSUME NEW l \in Listeners, NEW p \in Pipes, Accept(l, p) PROVE HeldInv'
  BY <1>6, <1>0, HeldFrame DEF Accept, TypeOK
<1>7. ASSUME NEW p \in Pipes, ClosePipe(p) PROVE HeldInv'
  BY <1>7, <1>0, HeldFrame DEF ClosePipe, TypeOK
<1>8. ASSUME NEW x \in Connecting, CloseConnect(x) PROVE HeldInv'
  BY <1>8, <1>0, HeldFrame DEF CloseConnect, TypeOK
<1>9. ASSUME Close PROVE HeldInv'
  BY <1>9 DEF Close, HeldInv, TypeOK
<1>10. ASSUME NEW d \in Dialers, NEW p \in Pipes, DialConnects(d, p) PROVE HeldInv'
  BY <1>10, <1>0, HeldFrame DEF DialConnects, TypeOK
<1>11. ASSUME NEW d \in Dialers, RemDialer(d) PROVE HeldInv'
  BY <1>11 DEF RemDialer, HeldInv, TypeOK, Connecting
<1>24. ASSUME NEW d \in Dialers, RemDialerCloses(d) PROVE HeldInv'
  BY <1>24 DEF RemDialerCloses, HeldInv, TypeOK, Connecting
<1>12. ASSUME NEW p \in Pipes, NegotiateFails(p) \/ DropPipe(p) \/ AddPipePanics(p) PROVE HeldInv'
  <2>1. \A q \in Pipes : phase'[q] = "added" => phase[q] = "added"
    BY <1>12 DEF NegotiateFails, DropPipe, AddPipePanics, TypeOK
  <2>2. UNCHANGED <<dialers, listeners, made, toClose, pipes, closed, stopped, shut, removing>>
    BY <1>12 DEF NegotiateFails, DropPipe, AddPipePanics
  <2> QED
    BY <2>1, <2>2, <1>0, HeldFrame
<1>13. ASSUME NEW p \in Pipes, AddPipe(p) PROVE HeldInv'
  <2>1. \A d \in Dialers \ made : ~stopped'[d]
    BY <1>13, CheckLimitStopsMade DEF AddPipe
  <2> QED
    BY <1>13, <2>1 DEF AddPipe, HeldInv, TypeOK
<1>14. ASSUME NEW p \in Pipes, RemPipe(p) PROVE HeldInv'
  BY <1>14 DEF RemPipe, HeldInv, TypeOK
<1>15. ASSUME NEW p \in Pipes, RemPipeCheck(p) PROVE HeldInv'
  <2>1. \A d \in Dialers \ made : ~stopped'[d]
    BY <1>15, CheckLimitStopsMade DEF RemPipeCheck
  <2> QED
    BY <1>15, <2>1, HeldFrame DEF RemPipeCheck, TypeOK
<1>16. ASSUME NEW x \in Connecting \cup Pipes, CloseNext(x) PROVE HeldInv'
  BY <1>16 DEF CloseNext, HeldInv, TypeOK, Connecting
<1>17. ASSUME UNCHANGED <<dialers, listeners, made, toClose, pipes, closed, stopped, shut, phase, removing>> PROVE HeldInv'
  BY <1>17, <1>0, HeldFrame
<1>18. ASSUME NEW d \in Dialers, Dial(d) PROVE HeldInv'
  BY <1>17, <1>18 DEF Dial
<1>19. ASSUME NEW l \in Listeners, Listen(l) \/ ServeEnds(l) PROVE HeldInv'
  BY <1>17, <1>19 DEF Listen, ServeEnds
<1>20. ASSUME NEW d \in Dialers, NEW redial \in BOOLEAN, DialRefused(d, redial) \/ DialStarts(d, redial) PROVE HeldInv'
  BY <1>17, <1>20 DEF DialRefused, DialStarts
<1>21. ASSUME NEW d \in Dialers, DialErrs(d) \/ DialReturns(d) \/ DialGivesUp(d) \/ Fire(d) PROVE HeldInv'
  BY <1>17, <1>21 DEF DialErrs, DialReturns, DialGivesUp, Fire
<1>22. ASSUME NEW d \in Dialers, PipeClosed(d) \/ PipeClosedReconn(d) \/ Rearm(d) PROVE HeldInv'
  BY <1>17, <1>22 DEF PipeClosed, PipeClosedReconn, Rearm
<1>23. CASE UNCHANGED vars
  BY <1>17, <1>23 DEF vars
<1>31. CASE UserNext
  BY <1>31, <1>1, <1>2, <1>3, <1>4, <1>5, <1>6, <1>7, <1>8, <1>9, <1>18, <1>19 DEF UserNext
<1>32. CASE \E d \in Dialers : DialerNext(d)
  BY <1>32, <1>10, <1>11, <1>20, <1>21, <1>22, <1>24 DEF DialerNext
<1>33. CASE \E p \in Pipes : PipeNext(p)
  BY <1>33, <1>12, <1>13, <1>14, <1>15 DEF PipeNext
<1> QED
  BY <1>31, <1>32, <1>33, <1>16, <1>19, <1>23 DEF Next

\* When connector.Close is through, every dialer and listener that was ever
\* made is closed, or it is a dialer that a remDialer took out of the connector
\* and is about to close, and no pipe that addPipe kept is left, for any number
\* of them: what is made or added is under c.Mutex in the maps that Close takes.
THEOREM CloseIsComplete == Spec => []CloseLeavesNothingOpen
<1>1. Init => HeldInv
  BY DEF Init, HeldInv, Connecting
<1>2. HeldInv => CloseLeavesNothingOpen
  BY DEF HeldInv, CloseLeavesNothingOpen
<1> QED
  BY <1>1, <1>2, InitTypeOK, TypeStep, HeldStep, PTL DEF Spec

-----------------------------------------------------------------------------
(* The dialers *)

\* The dialer's flags and its pipe.  While a dial is in flight the dialer is
\* not connected; a pipe that it has not been told about is the one in
\* addPipe, or the one for which dial sets or has set connected; and it is
\* told of one pipe at a time, which is why pipeClosed may clear connected.
DialInvOf(d) ==
    /\ dialing[d] <=> attempt[d] # "none"
    /\ connected[d] => attempt[d] = "none"
    /\ lost[d] > 0 => lost[d] = 1 /\ (connected[d] \/ attempt[d] = "added")
    /\ \A p \in Pipes : Unnoticed(p, d) =>
           /\ lost[d] = 0
           /\ IF phase[p] = "new" THEN attempt[d] = "conn" ELSE connected[d] \/ attempt[d] = "added"
    /\ \A p, q \in Pipes : Unnoticed(p, d) /\ Unnoticed(q, d) => p = q

DialInv == \A d \in Dialers : DialInvOf(d)

\* DialInv depends on six variables.
LEMMA DialFrame ==
  ASSUME DialInv, UNCHANGED <<dialing, attempt, connected, lost, owner, phase>>
  PROVE  DialInv'
  BY DEF DialInv, DialInvOf, Unnoticed

\* A step that only makes pipes known to be closed keeps DialInv.
LEMMA FewerPipesKeepDialInv ==
  ASSUME DialInv, UNCHANGED <<dialing, attempt, connected, lost>>,
         \A d \in Dialers : \A p \in Pipes :
             Unnoticed(p, d)' => Unnoticed(p, d) /\ (phase'[p] = "new" <=> phase[p] = "new")
  PROVE  DialInv'
<1> SUFFICES ASSUME NEW d \in Dialers PROVE DialInvOf(d)'
  BY DEF DialInv
<1>1. DialInvOf(d)
  BY DEF DialInv
<1> QED
  BY <1>1 DEF DialInvOf

\* A step of one dialer concerns DialInv of that dialer only.
LEMMA OneDialerStep ==
  ASSUME DialInv, NEW d \in Dialers, UNCHANGED <<owner, phase>>, DialInvOf(d)',
         \A e \in Dialers \ {d} : /\ dialing'[e] = dialing[e] /\ attempt'[e] = attempt[e]
                                  /\ connected'[e] = connected[e] /\ lost'[e] = lost[e]
  PROVE  DialInv'
<1> SUFFICES ASSUME NEW e \in Dialers \ {d} PROVE DialInvOf(e)'
  BY DEF DialInv
<1>1. DialInvOf(e)
  BY DEF DialInv
<1>2. \A p \in Pipes : Unnoticed(p, e)' <=> Unnoticed(p, e)
  BY DEF Unnoticed
<1> QED
  BY <1>1, <1>2 DEF DialInvOf

\* Whatever addPipe does with a new pipe, its dialer goes from "conn" to "added".
LEMMA AddedKeepsDialInv ==
  ASSUME TypeOK, DialInv, NEW p \in Pipes, phase[p] = "new", Added(p),
         NEW ph \in {"leaked", "added", "dropped"}, phase' = [phase EXCEPT ![p] = ph],
         UNCHANGED <<dialing, connected, lost, owner>>
  PROVE  DialInv'
<1> SUFFICES ASSUME NEW d \in Dialers PROVE DialInvOf(d)'
  BY DEF DialInv
<1>1. \A q \in Pipes : Unnoticed(q, d)' <=> Unnoticed(q, d)
  BY DEF Unnoticed, TypeOK
<1>2. attempt'[d] = IF d = owner[p] THEN "added" ELSE attempt[d]
  BY DEF Added
<1>3. \A q \in Pipes : phase'[q] = IF q = p THEN ph ELSE phase[q]
  BY DEF TypeOK
<1>4. d = owner[p] => Unnoticed(p, d)
  BY DEF Unnoticed
<1>5. DialInvOf(d)
  BY DEF DialInv
<1>6. CASE d = owner[p]
  BY <1>1, <1>2, <1>3, <1>4, <1>5, <1>6 DEF DialInvOf
<1>7. CASE d # owner[p]
  <2>1. \A q \in Pipes : Unnoticed(q, d) => phase'[q] = phase[q]
    BY <1>3, <1>7 DEF Unnoticed
  <2> QED
    BY <1>1, <1>2, <1>5, <1>7, <2>1 DEF DialInvOf
<1> QED
  BY <1>6, <1>7

\* Every step keeps DialInv.
LEMMA DialStep == TypeOK /\ DialInv /\ [Next]_vars => DialInv'
<1> SUFFICES ASSUME TypeOK, DialInv, [Next]_vars PROVE DialInv'
  OBVIOUS
<1> USE DEF cvars, dialVars, timerVars, lostVars, pipeVars
<1>1. ASSUME NEW n \in Limits, SetLimit(n) PROVE DialInv'
  BY <1>1, DialFrame DEF SetLimit
<1>2. ASSUME NEW d \in Dialers, NewDialer(d) PROVE DialInv'
  BY <1>2, DialFrame DEF NewDialer
<1>3. ASSUME NEW d \in Dialers, Dial(d) PROVE DialInv'
  BY <1>3, DialFrame DEF Dial
<1>4. ASSUME NEW d \in Dialers, StopDial(d) PROVE DialInv'
  BY <1>4, DialFrame DEF StopDial
<1>5. ASSUME NEW l \in Listeners, NewListener(l) PROVE DialInv'
  BY <1>5, DialFrame DEF NewListener
<1>6. ASSUME NEW l \in Listeners, Listen(l) PROVE DialInv'
  BY <1>6, DialFrame DEF Listen
<1>7. ASSUME NEW l \in Listeners, StopListen(l) PROVE DialInv'
  BY <1>7, DialFrame DEF StopListen
<1>8. ASSUME NEW l \in Listeners, NEW p \in Pipes, Accept(l, p) PROVE DialInv'
  <2>1. ASSUME NEW d \in Dialers, NEW q \in Pipes, Unnoticed(q, d)'
        PROVE  Unnoticed(q, d) /\ (phase'[q] = "new" <=> phase[q] = "new")
    BY <1>8, <2>1, DisjointAssumption DEF Accept, Unnoticed, TypeOK, Connecting
  <2>2. UNCHANGED <<dialing, attempt, connected, lost>>
    BY <1>8 DEF Accept
  <2> QED
    BY <2>1, <2>2, FewerPipesKeepDialInv
<1>9. ASSUME NEW p \in Pipes, ClosePipe(p) PROVE DialInv'
  <2>1. ASSUME NEW d \in Dialers, NEW q \in Pipes, Unnoticed(q, d)'
        PROVE  Unnoticed(q, d) /\ (phase'[q] = "new" <=> phase[q] = "new")
    BY <1>9, <2>1 DEF ClosePipe, Unnoticed, TypeOK
  <2>2. UNCHANGED <<dialing, attempt, connected, lost>>
    BY <1>9 DEF ClosePipe
  <2> QED
    BY <2>1, <2>2, FewerPipesKeepDialInv
<1>10. ASSUME NEW x \in Connecting, CloseConnect(x) PROVE DialInv'
  BY <1>10, DialFrame DEF CloseConnect
<1>11. ASSUME Close PROVE DialInv'
  BY <1>11, DialFrame DEF Close
<1>12. ASSUME NEW d \in Dialers, NEW redial \in BOOLEAN, DialRefused(d, redial) PROVE DialInv'
  BY <1>12, DialFrame DEF DialRefused
<1>13. ASSUME NEW d \in Dialers, NEW redial \in BOOLEAN, DialStarts(d, redial) PROVE DialInv'
  <2>1. DialInvOf(d)
    BY DEF DialInv
  <2>2. DialInvOf(d)'
    BY <1>13, <2>1 DEF DialStarts, DialInvOf, Unnoticed, TypeOK, Refuses
  <2>3. \A e \in Dialers \ {d} : /\ dialing'[e] = dialing[e] /\ attempt'[e] = attempt[e]
                                 /\ connected'[e] = connected[e] /\ lost'[e] = lost[e]
    BY <1>13 DEF DialStarts, TypeOK
  <2>4. UNCHANGED <<owner, phase>>
    BY <1>13 DEF DialStarts
  <2> QED
    BY <2>2, <2>3, <2>4, OneDialerStep
<1>14. ASSUME NEW d \in Dialers, DialErrs(d) PROVE DialInv'
  <2>1. DialInvOf(d)
    BY DEF DialInv
  <2>2. DialInvOf(d)'
    BY <1>14, <2>1 DEF DialErrs, DialInvOf, Unnoticed, TypeOK
  <2>3. \A e \in Dialers \ {d} : /\ dialing'[e] = dialing[e] /\ attempt'[e] = attempt[e]
                                 /\ connected'[e] = connected[e] /\ lost'[e] = lost[e]
    BY <1>14 DEF DialErrs, TypeOK
  <2>4. UNCHANGED <<owner, phase>>
    BY <1>14 DEF DialErrs
  <2> QED
    BY <2>2, <2>3, <2>4, OneDialerStep
<1>15. ASSUME NEW d \in Dialers, NEW p \in Pipes, DialConnects(d, p) PROVE DialInv'
  <2> SUFFICES ASSUME NEW e \in Dialers PROVE DialInvOf(e)'
    BY DEF DialInv
  <2>1. DialInvOf(e)
    BY DEF DialInv
  <2>2. \A q \in Pipes \ {p} : (Unnoticed(q, e)' <=> Unnoticed(q, e)) /\ phase'[q] = phase[q]
    BY <1>15 DEF DialConnects, Unnoticed, TypeOK
  <2>3. ~Unnoticed(p, e) /\ phase'[p] = "new" /\ (Unnoticed(p, e)' <=> e = d)
    BY <1>15 DEF DialConnects, Unnoticed, TypeOK
  <2>4. attempt[d] = "dial" /\ attempt'[e] = IF e = d THEN "conn" ELSE attempt[e]
    BY <1>15 DEF DialConnects, TypeOK
  <2>5. UNCHANGED <<dialing, connected, lost>>
    BY <1>15 DEF DialConnects
  <2>6. CASE e = d
    <3>1. dialing[d] /\ ~connected[d] /\ lost[d] = 0
      BY <2>1, <2>4, <2>6 DEF DialInvOf, TypeOK
    <3>2. \A q \in Pipes : ~Unnoticed(q, d)
      BY <2>1, <2>4, <2>6, <3>1 DEF DialInvOf
    <3> QED
      BY <2>2, <2>3, <2>4, <2>5, <2>6, <3>1, <3>2 DEF DialInvOf
  <2>7. CASE e # d
    BY <2>1, <2>2, <2>3, <2>4, <2>5, <2>7 DEF DialInvOf
  <2> QED
    BY <2>6, <2>7
<1>16. ASSUME NEW d \in Dialers, DialReturns(d) PROVE DialInv'
  <2>1. DialInvOf(d)
    BY DEF DialInv
  <2>2. DialInvOf(d)'
    BY <1>16, <2>1 DEF DialReturns, DialInvOf, Unnoticed, TypeOK
  <2>3. \A e \in Dialers \ {d} : /\ dialing'[e] = dialing[e] /\ attempt'[e] = attempt[e]
                                 /\ connected'[e] = connected[e] /\ lost'[e] = lost[e]
    BY <1>16 DEF DialReturns, TypeOK
  <2>4. UNCHANGED <<owner, phase>>
    BY <1>16 DEF DialReturns
  <2> QED
    BY <2>2, <2>3, <2>4, OneDialerStep
<1>17. ASSUME NEW d \in Dialers, DialGivesUp(d) PROVE DialInv'
  <2>1. DialInvOf(d)
    BY DEF DialInv
  <2>2. DialInvOf(d)'
    BY <1>17, <2>1 DEF DialGivesUp, DialInvOf, Unnoticed, TypeOK
  <2>3. \A e \in Dialers \ {d} : /\ dialing'[e] = dialing[e] /\ attempt'[e] = attempt[e]
                                 /\ connected'[e] = connected[e] /\ lost'[e] = lost[e]
    BY <1>17 DEF DialGivesUp, TypeOK
  <2>4. UNCHANGED <<owner, phase>>
    BY <1>17 DEF DialGivesUp
  <2> QED
    BY <2>2, <2>3, <2>4, OneDialerStep
<1>18. ASSUME NEW d \in Dialers, Fire(d) PROVE DialInv'
  BY <1>18, DialFrame DEF Fire
<1>19. ASSUME NEW d \in Dialers, PipeClosed(d) PROVE DialInv'
  <2>1. DialInvOf(d)
    BY DEF DialInv
  <2>2. DialInvOf(d)'
    <3>1. lost[d] = 1 /\ \A p \in Pipes : ~Unnoticed(p, d)
      <4>1. lost[d] > 0
        BY <1>19 DEF PipeClosed
      <4>2. lost[d] = 1
        BY <2>1, <4>1 DEF DialInvOf
      <4>3. \A p \in Pipes : Unnoticed(p, d) => lost[d] = 0
        BY <2>1, Zenon DEF DialInvOf
      <4> QED
        BY <4>2, <4>3
    <3>2. lost'[d] = 0 /\ ~connected'[d] /\ UNCHANGED <<dialing, attempt>>
      BY <1>19, <3>1 DEF PipeClosed, TypeOK
    <3>3. \A p \in Pipes : ~Unnoticed(p, d)'
      BY <1>19, <3>1 DEF PipeClosed, Unnoticed
    <3> QED
      BY <2>1, <3>2, <3>3 DEF DialInvOf
  <2>3. \A e \in Dialers \ {d} : /\ dialing'[e] = dialing[e] /\ attempt'[e] = attempt[e]
                                 /\ connected'[e] = connected[e] /\ lost'[e] = lost[e]
    BY <1>19 DEF PipeClosed, TypeOK
  <2>4. UNCHANGED <<owner, phase>>
    BY <1>19 DEF PipeClosed
  <2> QED
    BY <2>2, <2>3, <2>4, OneDialerStep
<1>20. ASSUME NEW d \in Dialers, PipeClosedReconn(d) PROVE DialInv'
  BY <1>20, DialFrame DEF PipeClosedReconn
<1>21. ASSUME NEW d \in Dialers, RemDialer(d) PROVE DialInv'
  BY <1>21, DialFrame DEF RemDialer
<1>35. ASSUME NEW d \in Dialers, RemDialerCloses(d) PROVE DialInv'
  BY <1>35, DialFrame DEF RemDialerCloses
<1>22. ASSUME NEW d \in Dialers, Rearm(d) PROVE DialInv'
  BY <1>22, DialFrame DEF Rearm
<1>23. ASSUME NEW p \in Pipes, NegotiateFails(p) PROVE DialInv'
  BY <1>23, AddedKeepsDialInv DEF NegotiateFails
<1>24. ASSUME NEW p \in Pipes, AddPipe(p) PROVE DialInv'
  BY <1>24, AddedKeepsDialInv DEF AddPipe
<1>25. ASSUME NEW p \in Pipes, AddPipePanics(p) PROVE DialInv'
  BY <1>25, DialFrame DEF AddPipePanics
<1>26. ASSUME NEW p \in Pipes, DropPipe(p) PROVE DialInv'
  BY <1>26, AddedKeepsDialInv DEF DropPipe
<1>27. ASSUME NEW p \in Pipes, RemPipe(p) PROVE DialInv'
  <2> SUFFICES ASSUME NEW d \in Dialers PROVE DialInvOf(d)'
    BY DEF DialInv
  <2>1. DialInvOf(d)
    BY DEF DialInv
  <2>2. \A q \in Pipes : Unnoticed(q, d)' <=> Unnoticed(q, d) /\ q # p
    BY <1>27 DEF RemPipe, Unnoticed, TypeOK
  <2>3. phase[p] = "closing" /\ \A q \in Pipes \ {p} : phase'[q] = phase[q]
    BY <1>27 DEF RemPipe, TypeOK
  <2>4. d = owner[p] <=> Unnoticed(p, d)
    BY <2>3 DEF Unnoticed
  <2>5. lost'[d] = IF d = owner[p] THEN lost[d] + 1 ELSE lost[d]
    BY <1>27 DEF RemPipe
  <2>6. UNCHANGED <<dialing, attempt, connected>>
    BY <1>27 DEF RemPipe
  <2>8. CASE d = owner[p]
    <3>1. lost[d] = 0 /\ (connected[d] \/ attempt[d] = "added")
      BY <2>1, <2>3, <2>4, <2>8 DEF DialInvOf
    <3>2. lost'[d] = 1 /\ \A q \in Pipes : ~Unnoticed(q, d)'
      BY <2>1, <2>2, <2>4, <2>5, <2>8, <3>1 DEF DialInvOf
    <3> QED
      BY <2>1, <2>6, <3>1, <3>2 DEF DialInvOf
  <2>9. CASE d # owner[p]
    BY <2>1, <2>2, <2>3, <2>5, <2>6, <2>9 DEF DialInvOf
  <2> QED
    BY <2>8, <2>9
<1>28. ASSUME NEW p \in Pipes, RemPipeCheck(p) PROVE DialInv'
  <2>1. ASSUME NEW d \in Dialers, NEW q \in Pipes, Unnoticed(q, d)'
        PROVE  Unnoticed(q, d) /\ (phase'[q] = "new" <=> phase[q] = "new")
    BY <1>28, <2>1 DEF RemPipeCheck, Unnoticed, TypeOK
  <2>2. UNCHANGED <<dialing, attempt, connected, lost>>
    BY <1>28 DEF RemPipeCheck
  <2> QED
    BY <2>1, <2>2, FewerPipesKeepDialInv
<1>29. ASSUME NEW l \in Listeners, ServeEnds(l) PROVE DialInv'
  BY <1>29, DialFrame DEF ServeEnds
<1>30. ASSUME NEW x \in Connecting \cup Pipes, CloseNext(x) PROVE DialInv'
  <2>1. ASSUME NEW d \in Dialers, NEW q \in Pipes, Unnoticed(q, d)'
        PROVE  Unnoticed(q, d) /\ (phase'[q] = "new" <=> phase[q] = "new")
    BY <1>30, <2>1 DEF CloseNext, Unnoticed, TypeOK
  <2>2. UNCHANGED <<dialing, attempt, connected, lost>>
    BY <1>30 DEF CloseNext
  <2> QED
    BY <2>1, <2>2, FewerPipesKeepDialInv
<1>31. CASE UserNext
  BY <1>31, <1>1, <1>2, <1>3, <1>4, <1>5, <1>6, <1>7, <1>8, <1>9, <1>10, <1>11 DEF UserNext
<1>32. CASE \E d \in Dialers : DialerNext(d)
  BY <1>32, <1>12, <1>13, <1>14, <1>15, <1>16, <1>17, <1>18, <1>19, <1>20, <1>21, <1>22, <1>35 DEF DialerNext
<1>33. CASE \E p \in Pipes : PipeNext(p)
  BY <1>33, <1>23, <1>24, <1>25, <1>26, <1>27, <1>28 DEF PipeNext
<1>34. CASE UNCHANGED vars
  BY <1>34, DialFrame DEF vars
<1> QED
  BY <1>31, <1>32, <1>33, <1>34, <1>29, <1>30 DEF Next

\* A dialer never has two pipes, for any number of redials, timers and callers
\* of Dial: dial refuses while d.dialing or d.connected is set, and
\* pipeClosed clears d.connected only after the one pipe is gone.
THEOREM DialerHasOnePipe == Spec => []OnePipePerDialer
<1>1. Init => DialInv
  BY DEF Init, DialInv, DialInvOf, Unnoticed
<1>2. DialInv => OnePipePerDialer
  BY DEF DialInv, DialInvOf, OnePipePerDialer
<1> QED
  BY <1>1, <1>2, InitTypeOK, TypeStep, DialStep, PTL DEF Spec
-----------------------------------------------------------------------------
(* Dialers that dial again *)

Redial(d) == MayRedial(d) /\ ~connected[d] => Pending(d)

\* What a step has to leave for dialer d.
LEMMA RedialFrame ==
  ASSUME NEW d, Redial(d), MayRedial(d)' => MayRedial(d), connected'[d] = connected[d], Pending(d) => Pending(d)'
  PROVE  Redial(d)'
  BY DEF Redial

\* checkLimit leaves d running only if it was, or if it is to be rearmed; the
\* timer it stops is that of a dialer it stops.
LEMMA CheckLimitKeepsRedial ==
  ASSUME TypeOK, Unlocked, NEW ps, NEW n, NEW b \in BOOLEAN, CheckLimit(ps, n, b), NEW d \in Dialers, ~stopped'[d]
  PROVE  (~stopped[d] /\ armed'[d] = armed[d] /\ d \notin rearming) \/ d \in rearming'
<1>1. CASE StartConnecting
  BY <1>1, DisjointAssumption DEF StartConnecting, TypeOK, Connecting, Unlocked
<1>2. CASE StopConnecting
  BY <1>2 DEF StopConnecting, TypeOK, Connecting, Unlocked
<1>3. CASE UNCHANGED <<stopped, rearming, armed>>
  BY <1>3 DEF Unlocked
<1> QED
  BY <1>1, <1>2, <1>3 DEF CheckLimit

\* A step that checks the limit keeps Redial(d), whatever else it does to pipes.
LEMMA LimitStepKeepsRedial ==
  ASSUME TypeOK, Unlocked, NEW ps, NEW n, NEW b \in BOOLEAN, CheckLimit(ps, n, b), NEW d \in Dialers, Redial(d),
         shut' = shut, result' = result, owner' = owner, connected' = connected,
         UNCHANGED <<orphans, redialIn, userIn, lost, lostReconn>>,
         attempt[d] # "none" => attempt'[d] # "none"
  PROVE  Redial(d)'
<1> SUFFICES ASSUME ~stopped'[d] PROVE Redial(d)'
  BY DEF Redial, MayRedial
<1>1. CASE d \in rearming'
  BY <1>1 DEF Redial, Pending
<1>2. CASE ~stopped[d] /\ armed'[d] = armed[d] /\ d \notin rearming
  <2>1. MayRedial(d)' => MayRedial(d)
    BY <1>2 DEF MayRedial
  <2>2. Pending(d) => Pending(d)'
    BY <1>2 DEF Pending
  <2> QED
    BY <2>1, <2>2, RedialFrame
<1> QED
  BY <1>1, <1>2, CheckLimitKeepsRedial

\* Every step keeps Redial(d).
LEMMA RedialStep ==
  ASSUME TypeOK, DialInv, HeldInv, [Next]_vars, NEW d \in Dialers, Redial(d)
  PROVE  Redial(d)'
<1> USE DEF cvars, dialVars, timerVars, lostVars, pipeVars
<1>1. ASSUME NEW n \in Limits, SetLimit(n) PROVE Redial(d)'
  BY <1>1, LimitStepKeepsRedial DEF SetLimit
<1>2. ASSUME NEW e \in Dialers, NewDialer(e) PROVE Redial(d)'
  <2>1. MayRedial(d)' => MayRedial(d)
    BY <1>2 DEF NewDialer, MayRedial, HeldInv, TypeOK, Connecting
  <2>2. Pending(d) => Pending(d)'
    BY <1>2 DEF NewDialer, Pending
  <2> QED
    BY <1>2, <2>1, <2>2, RedialFrame DEF NewDialer
<1>3. ASSUME NEW e \in Dialers, Dial(e) PROVE Redial(d)'
  <2>1. CASE e = d
    <3>1. redialIn'[d] > 0 \/ userIn'[d]
      BY <1>3, <2>1 DEF Dial, TypeOK
    <3> QED
      BY <3>1 DEF Redial, Pending
  <2>2. CASE e # d
    <3>1. redialIn'[d] = redialIn[d] /\ userIn'[d] = userIn[d] /\ result'[d] = result[d]
      BY <1>3, <2>2 DEF Dial, TypeOK
    <3> QED
      BY <1>3, <3>1 DEF Dial, Redial, MayRedial, Pending
  <2> QED
    BY <2>1, <2>2
<1>4. ASSUME UNCHANGED <<attempt, timerVars, redialIn, userIn, lost, lostReconn, rearming, connected>>,
             MayRedial(d)' => MayRedial(d)
      PROVE  Redial(d)'
  BY <1>4, RedialFrame DEF Pending
<1>5. ASSUME NEW e \in Dialers, StopDial(e) PROVE Redial(d)'
  BY <1>4, <1>5 DEF StopDial, MayRedial, TypeOK, Connecting
<1>6. ASSUME NEW l \in Listeners, NewListener(l) PROVE Redial(d)'
  BY <1>4, <1>6, DisjointAssumption DEF NewListener, MayRedial, TypeOK, Connecting
<1>7. ASSUME NEW l \in Listeners, Listen(l) \/ ServeEnds(l) PROVE Redial(d)'
  BY <1>4, <1>7 DEF Listen, ServeEnds, MayRedial
<1>8. ASSUME NEW l \in Listeners, StopListen(l) PROVE Redial(d)'
  BY <1>4, <1>8 DEF StopListen, MayRedial, TypeOK, Connecting
<1>9. ASSUME NEW l \in Listeners, NEW p \in Pipes, Accept(l, p) PROVE Redial(d)'
  BY <1>4, <1>9, DisjointAssumption DEF Accept, MayRedial, TypeOK
<1>10. ASSUME NEW p \in Pipes, ClosePipe(p) PROVE Redial(d)'
  BY <1>4, <1>10 DEF ClosePipe, MayRedial
<1>11. ASSUME NEW x \in Connecting, CloseConnect(x) PROVE Redial(d)'
  BY <1>4, <1>11 DEF CloseConnect, MayRedial, TypeOK, Connecting
<1>12. ASSUME Close PROVE Redial(d)'
  BY <1>4, <1>12 DEF Close, MayRedial
<1>13. ASSUME NEW e \in Dialers, RemDialer(e) \/ RemDialerCloses(e) PROVE Redial(d)'
  BY <1>4, <1>13 DEF RemDialer, RemDialerCloses, MayRedial, TypeOK, Connecting
<1>14. ASSUME NEW x \in Connecting \cup Pipes, CloseNext(x) PROVE Redial(d)'
  BY <1>4, <1>14 DEF CloseNext, MayRedial, TypeOK, Connecting
<1>15. ASSUME NEW p \in Pipes, AddPipePanics(p) PROVE Redial(d)'
  BY <1>4, <1>15 DEF AddPipePanics, MayRedial
<1>16. ASSUME UNCHANGED vars PROVE Redial(d)'
  BY <1>4, <1>16 DEF vars, MayRedial
\* steps of another dialer
<1>17. ASSUME NEW e \in Dialers, e # d, DialerNext(e) PROVE Redial(d)'
  <2>1. /\ attempt'[d] = attempt[d] /\ armed'[d] = armed[d] /\ orphans'[d] = orphans[d]
        /\ redialIn'[d] = redialIn[d] /\ userIn'[d] = userIn[d] /\ lost'[d] = lost[d]
        /\ lostReconn'[d] = lostReconn[d] /\ (d \in rearming' <=> d \in rearming)
        /\ connected'[d] = connected[d] /\ shut'[d] = shut[d] /\ stopped'[d] = stopped[d] /\ result'[d] = result[d]
        /\ \A p \in Pipes : owner'[p] = d => owner[p] = d
    <3> USE <1>17 DEF TypeOK, Connecting
    <3>1. CASE \E redial \in BOOLEAN : DialRefused(e, redial)
      BY <3>1 DEF DialRefused, Enters
    <3>2. CASE \E redial \in BOOLEAN : DialStarts(e, redial)
      BY <3>2, ZenonT(60) DEF DialStarts, Enters
    <3>3. CASE DialErrs(e)
      BY <3>3 DEF DialErrs
    <3>4. CASE \E p \in Pipes : DialConnects(e, p)
      BY <3>4 DEF DialConnects
    <3>5. CASE DialReturns(e)
      BY <3>5 DEF DialReturns
    <3>6. CASE DialGivesUp(e)
      BY <3>6 DEF DialGivesUp
    <3>7. CASE Fire(e)
      BY <3>7 DEF Fire
    <3>8. CASE PipeClosed(e)
      BY <3>8 DEF PipeClosed
    <3>9. CASE PipeClosedReconn(e)
      BY <3>9 DEF PipeClosedReconn, Reconn
    <3>10. CASE RemDialer(e) \/ RemDialerCloses(e)
      BY <3>10 DEF RemDialer, RemDialerCloses
    <3>11. CASE Rearm(e)
      BY <3>11 DEF Rearm, Reconn
    <3> QED
      BY <3>1, <3>2, <3>3, <3>4, <3>5, <3>6, <3>7, <3>8, <3>9, <3>10, <3>11 DEF DialerNext
  <2> QED
    BY <2>1 DEF Redial, MayRedial, Pending
\* steps of d
<1>18. DialInvOf(d)
  BY DEF DialInv
<1>19. ASSUME NEW redial \in BOOLEAN, DialRefused(d, redial) PROVE Redial(d)'
  <2>1. CASE shut[d] \/ stopped[d] \/ connected[d]
    BY <1>19, <2>1 DEF DialRefused, Redial, MayRedial
  <2>2. CASE dialing[d]
    BY <1>18, <1>19, <2>2 DEF DialRefused, Redial, Pending, DialInvOf
  <2> QED
    BY <1>19, <2>1, <2>2 DEF DialRefused, Refuses
<1>20. ASSUME NEW redial \in BOOLEAN, DialStarts(d, redial) PROVE Redial(d)'
  <2>1. attempt'[d] = "dial"
    BY <1>20 DEF DialStarts, TypeOK
  <2> QED
    BY <2>1 DEF Redial, Pending
<1>21. ASSUME DialErrs(d) \/ \E p \in Pipes : DialConnects(d, p) PROVE Redial(d)'
  <2>1. attempt'[d] \in {"fail", "conn"}
    BY <1>21 DEF DialErrs, DialConnects, TypeOK
  <2> QED
    BY <2>1 DEF Redial, Pending
<1>22. ASSUME DialReturns(d) PROVE Redial(d)'
  <2>1. connected'[d]
    BY <1>22 DEF DialReturns, TypeOK
  <2> QED
    BY <2>1 DEF Redial
<1>23. ASSUME DialGivesUp(d) PROVE Redial(d)'
  <2>1. result'[d] = "err" \/ armed'[d]
    BY <1>23 DEF DialGivesUp, TypeOK
  <2> QED
    BY <2>1 DEF Redial, MayRedial, Pending
<1>24. ASSUME Fire(d) PROVE Redial(d)'
  <2>1. redialIn'[d] > 0
    BY <1>24 DEF Fire, TypeOK
  <2> QED
    BY <2>1 DEF Redial, Pending
<1>25. ASSUME PipeClosed(d) PROVE Redial(d)'
  <2>1. lostReconn'[d] > 0
    BY <1>25 DEF PipeClosed, TypeOK
  <2> QED
    BY <2>1 DEF Redial, Pending
<1>26. ASSUME PipeClosedReconn(d) \/ Rearm(d) PROVE Redial(d)'
  <2>1. shut'[d] \/ d \notin Reconnecting \/ armed'[d]
    BY <1>26 DEF PipeClosedReconn, Rearm, Reconn, TypeOK
  <2> QED
    BY <2>1 DEF Redial, MayRedial, Pending
\* steps of pipes
<1>27. ASSUME NEW p \in Pipes, NegotiateFails(p) \/ DropPipe(p) PROVE Redial(d)'
  <2>1. attempt[d] # "none" => attempt'[d] # "none"
    BY <1>27 DEF NegotiateFails, DropPipe, Added
  <2>2. UNCHANGED <<timerVars, redialIn, userIn, lost, lostReconn, rearming, connected, stopped, shut, result, owner>>
    BY <1>27 DEF NegotiateFails, DropPipe
  <2> QED
    BY <2>1, <2>2 DEF Redial, MayRedial, Pending
<1>28. ASSUME NEW p \in Pipes, AddPipe(p) PROVE Redial(d)'
  <2>1. attempt[d] # "none" => attempt'[d] # "none"
    BY <1>28 DEF AddPipe, Added
  <2> QED
    BY <1>28, <2>1, LimitStepKeepsRedial DEF AddPipe
<1>29. ASSUME NEW p \in Pipes, RemPipe(p) PROVE Redial(d)'
  <2>1. lost[d] > 0 => lost'[d] > 0
    BY <1>29 DEF RemPipe, TypeOK
  <2>2. UNCHANGED <<attempt, timerVars, redialIn, userIn, lostReconn, rearming, connected, stopped, shut, result, owner>>
    BY <1>29 DEF RemPipe
  <2> QED
    BY <2>1, <2>2 DEF Redial, MayRedial, Pending
<1>30. ASSUME NEW p \in Pipes, RemPipeCheck(p) PROVE Redial(d)'
  BY <1>30, LimitStepKeepsRedial DEF RemPipeCheck
<1>31. CASE UserNext
  BY <1>31, <1>1, <1>2, <1>3, <1>5, <1>6, <1>7, <1>8, <1>9, <1>10, <1>11, <1>12 DEF UserNext
<1>32. CASE DialerNext(d)
  BY <1>32, <1>13, <1>19, <1>20, <1>21, <1>22, <1>23, <1>24, <1>25, <1>26 DEF DialerNext
<1>33. CASE \E p \in Pipes : PipeNext(p)
  BY <1>33, <1>15, <1>27, <1>28, <1>29, <1>30 DEF PipeNext
<1> QED
  BY <1>31, <1>32, <1>17, <1>33, <1>7, <1>14, <1>16 DEF Next

\* A reconnecting dialer that does not think it is connected is never left
\* without a dial under way, a timer or a goroutine that leads to one: no
\* interleaving of timers, closed pipes, Dial calls and limit changes, of any
\* number of dialers, loses the last of them (dialer.go).
THEOREM DialerIsNotForgotten == Spec => []RedialNeverForgotten
<1> DEFINE Inv == TypeOK /\ DialInv /\ HeldInv /\ \A d \in Dialers : Redial(d)
<1>1. Init => Inv
  <2> SUFFICES ASSUME Init PROVE Inv
    OBVIOUS
  <2>1. DialInv /\ HeldInv
    BY DEF Init, DialInv, DialInvOf, Unnoticed, HeldInv, Connecting
  <2>2. \A d \in Dialers : ~\E p \in Pipes : owner[p] = d
    BY DisjointAssumption DEF Init, Connecting
  <2> QED
    BY <2>1, <2>2, InitTypeOK DEF Redial, MayRedial
<1>2. Inv /\ [Next]_vars => Inv'
  <2> SUFFICES ASSUME Inv, [Next]_vars PROVE Inv'
    OBVIOUS
  <2>1. \A d \in Dialers : Redial(d)'
    BY RedialStep
  <2> QED
    BY <2>1, TypeStep, DialStep, HeldStep
<1>3. Inv => RedialNeverForgotten
  BY DEF Redial, RedialNeverForgotten
<1> QED
  BY <1>1, <1>2, <1>3, PTL DEF Spec
=============================================================================
