-------------------------- MODULE SwitchPathProofs --------------------------
(* Where the paths of messages lead, for every network. *)
EXTENDS SwitchProofs, WellFoundedInduction

\* the provers, in the order in which they are tried
USE ZenonT(3), SMT, ZenonT(20), Z3

-----------------------------------------------------------------------------
(* Routes *)

\* the pipes over which a path of t leads to x, one after another
Route(es, t, path, x) ==
    /\ Len(path) \in Nat /\ Len(path) >= 1 /\ es \in [1 .. Len(path) -> net.ends]
    /\ net.sock[es[1]] = t /\ Beyond(es[Len(path)]) = x
    /\ \A i \in 1 .. Len(path) : net.id[es[i]] = path[i]
    /\ \A i \in 1 .. Len(path) : i < Len(path) => net.kind[es[i]] # "raw" /\ net.sock[es[i + 1]] = GoesOn(Beyond(es[i]))

Leads(t, path, x) == \E es : Route(es, t, path, x)

\* what is known of the net
LEMMA NetFacts ==
    ASSUME NetOK
    PROVE  /\ None \notin net.sockets /\ net.sockets \cap net.ends = {} /\ net.sock \in [net.ends -> net.sockets]
           /\ net.twin \in [net.sockets -> net.sockets \cup {None}] /\ net.mate \in [net.sockets -> net.sockets \cup {None}]
           /\ \A s \in net.sockets : net.twin[s] # None => net.twin[net.twin[s]] = s
           /\ \A s \in net.sockets : net.mate[s] # None => net.mate[net.mate[s]] = s
           /\ \A s \in net.sockets : net.mate[s] # None /\ net.twin[s] # None => net.mate[net.twin[s]] = None
           /\ \A s \in net.sockets : net.sends[s] # {} => net.twin[s] = None /\ net.mate[s] = None
           /\ \A e \in net.ends : net.mate[net.sock[e]] = None
           /\ \A e \in net.ends : net.kind[e] # "raw" =>
                 net.peer[e] \in net.ends /\ net.kind[net.peer[e]] # "raw" /\ net.peer[net.peer[e]] = e
           /\ \A e, f \in net.ends : net.sock[e] = net.sock[f] /\ net.id[e] = net.id[f] => e = f
BY NetsAssumption DEF NetOK

LEMMA BeyondIs ==
    ASSUME NetOK, NEW e \in net.ends
    PROVE  /\ net.kind[e] = "raw" => Beyond(e) = e
           /\ net.kind[e] # "raw" => Beyond(e) = net.sock[net.peer[e]] /\ Beyond(e) \in net.sockets
  BY NetFacts DEF Beyond

\* the first natural number with a property
LEMMA Least ==
    ASSUME NEW T, T \subseteq Nat, T # {}
    PROVE  \E x \in T : \A y \in T : x <= y
<1>1. PICK R : R = OpToRel(<, Nat)
  OBVIOUS
<1>2. IsWellFoundedOn(R, Nat)
  BY <1>1, NatLessThanWellFounded
<1>3. PICK x \in T : \A y \in T : <<y, x>> \notin R
  BY <1>2, WFMin
<1>4. \A y \in Nat : y < x => <<y, x>> \in R
  BY <1>1 DEF OpToRel
<1>5. ASSUME NEW y \in T PROVE x <= y
  <2>1. x \in Nat /\ y \in Nat /\ ~(y < x)
    BY <1>3, <1>4
  <2> QED
    BY <2>1
<1> QED
  BY <1>5

\* the pipe that the next hop takes is the one of the route
LEMMA HopIs ==
    ASSUME NetOK, NEW e \in net.ends
    PROVE  Hop(net.sock[e], net.id[e]) = Beyond(e)
<1> DEFINE named == {f \in net.ends : net.sock[f] = net.sock[e] /\ net.id[f] = net.id[e]}
<1>1. named = {e}
  BY NetFacts
<1>2. (CHOOSE f \in {e} : TRUE) = e
  OBVIOUS
<1> QED
  BY <1>1, <1>2 DEF Hop

\* Walk goes along the route: by induction on the length.
LEMMA WalkFollows ==
    ASSUME NetOK, NEW s, NEW path, NEW x, Leads(PathStart(s), path, x)
    PROVE  Walk(s, path) = x
<1>1. PICK es : Route(es, PathStart(s), path, x)
  BY DEF Leads
<1>2. PICK n \in Nat : n = Len(path) /\ n >= 1
  BY <1>1 DEF Route
<1>3. PICK start : start = PathStart(s)
  OBVIOUS
<1>4. /\ es \in [1 .. n -> net.ends] /\ net.sock[es[1]] = start /\ Beyond(es[n]) = x
      /\ \A i \in 1 .. n : net.id[es[i]] = path[i]
      /\ \A i \in 1 .. n : i < n => net.kind[es[i]] # "raw" /\ net.sock[es[i + 1]] = GoesOn(Beyond(es[i]))
  BY <1>1, <1>2, <1>3 DEF Route
<1>5. PICK f : f = [i \in 0 .. n |-> IF i = 0 THEN None ELSE Beyond(es[i])]
  OBVIOUS
<1>6. ASSUME NEW i \in 1 .. n
      PROVE  f[i] = Hop(IF i = 1 THEN start ELSE GoesOn(f[i - 1]), path[i])
  <2>1. es[i] \in net.ends /\ f[i] = Beyond(es[i]) /\ net.id[es[i]] = path[i]
    BY <1>2, <1>4, <1>5
  <2>2. net.sock[es[i]] = IF i = 1 THEN start ELSE GoesOn(f[i - 1])
    <3>1. CASE i = 1
      BY <1>4, <3>1
    <3>2. CASE i # 1
      <4>1. PICK j \in 1 .. n : j = i - 1 /\ j < n /\ j + 1 = i
        BY <1>2, <3>2
      <4>2. f[j] = Beyond(es[j])
        BY <1>2, <1>5
      <4>3. net.sock[es[j + 1]] = GoesOn(Beyond(es[j]))
        BY <1>4, <4>1
      <4> QED
        BY <3>2, <4>1, <4>2, <4>3
    <3> QED
      BY <3>1, <3>2
  <2>3. Hop(net.sock[es[i]], net.id[es[i]]) = Beyond(es[i])
    BY <2>1, HopIs
  <2> QED
    BY <2>1, <2>2, <2>3
<1>7. f = [i \in 0 .. n |-> IF i = 0 THEN None ELSE Hop(IF i = 1 THEN start ELSE GoesOn(f[i - 1]), path[i])]
  <2>1. \A i \in 0 .. n : i # 0 => i \in 1 .. n
    BY <1>2
  <2>2. f[0] = None
    BY <1>2, <1>5
  <2> QED
    BY <1>5, <1>6, <2>1, <2>2
<1>8. PICK g : g = CHOOSE h :
         h = [i \in 0 .. n |-> IF i = 0 THEN None ELSE Hop(IF i = 1 THEN start ELSE GoesOn(h[i - 1]), path[i])]
  OBVIOUS
<1>9. g = [i \in 0 .. n |-> IF i = 0 THEN None ELSE Hop(IF i = 1 THEN start ELSE GoesOn(g[i - 1]), path[i])]
  BY <1>7, <1>8
<1>10. Walk(s, path) = g[n]
  BY <1>2, <1>3, <1>8 DEF Walk
<1>11. g[n] = f[n]
  <2>a. PICK T : T = {i \in 0 .. n : g[i] # f[i]}
    OBVIOUS
  <2> SUFFICES ASSUME T # {} PROVE FALSE
    BY <1>2, <2>a
  <2>b. T \subseteq Nat
    BY <1>2, <2>a
  <2>1. PICK i \in T : \A j \in T : i <= j
    BY <2>b, Least
  <2>2. i \in 0 .. n /\ g[i] # f[i]
    BY <2>a
  <2>3. i # 0
    BY <1>2, <1>5, <1>9, <2>2
  <2>4. i \in 1 .. n /\ i - 1 \in 0 .. n /\ ~(i <= i - 1)
    BY <1>2, <2>2, <2>3
  <2>5. g[i - 1] = f[i - 1]
    BY <2>a, <2>1, <2>4
  <2>6. g[i] = Hop(IF i = 1 THEN start ELSE GoesOn(g[i - 1]), path[i])
    BY <1>9, <2>2, <2>3
  <2> QED
    BY <1>6, <2>2, <2>4, <2>5, <2>6
<1>12. f[n] = x
  BY <1>2, <1>4, <1>5
<1> QED
  BY <1>10, <1>11, <1>12

-----------------------------------------------------------------------------
(* How paths grow and shrink *)

\* no path starts nowhere
LEMMA NoWay == ASSUME NetOK, NEW path, NEW x, Leads(None, path, x) PROVE FALSE
<1>1. PICK es : Route(es, None, path, x)
  BY DEF Leads
<1>2. 1 \in 1 .. Len(path)
  BY <1>1 DEF Route
<1>3. es[1] \in net.ends /\ net.sock[es[1]] = None
  BY <1>1, <1>2 DEF Route
<1> QED
  BY <1>3, NetFacts

\* the source of what a raw program sends
LEMMA RawStart ==
    ASSUME NetOK, NEW e \in net.ends, net.kind[e] = "raw"
    PROVE  Leads(net.sock[e], <<net.id[e]>>, e)
<1>1. PICK path, es : path = <<net.id[e]>> /\ es = [i \in 1 .. 1 |-> e]
  OBVIOUS
<1>2. Len(path) = 1 /\ path[1] = net.id[e] /\ es[1] = e /\ es \in [1 .. 1 -> net.ends]
  BY <1>1
<1>3. \A i \in 1 .. 1 : i = 1
  OBVIOUS
<1>4. Beyond(e) = e
  BY BeyondIs
<1>5. Route(es, net.sock[e], path, e)
  BY <1>2, <1>3, <1>4 DEF Route
<1> QED
  BY <1>1, <1>5 DEF Leads

\* where a path leads that has come to s: it may end there
Follows(s, path, x) == (path = <<>> /\ x = s) \/ Leads(GoesOn(s), path, x)

\* The receiver puts its pipe before the source.
LEMMA Prepend ==
    ASSUME NetOK, NEW S, NEW p \in net.ends, net.kind[p] # "raw", NEW path \in Seq(S), net.id[p] \in S, NEW x,
           Follows(net.sock[net.peer[p]], path, x)
    PROVE  Leads(net.sock[p], <<net.id[p]>> \o path, x)
<1>1. PICK n, q : n = Len(path) /\ q = <<net.id[p]>> \o path
  OBVIOUS
<1>2. /\ n \in Nat /\ Len(q) = n + 1 /\ q[1] = net.id[p]
      /\ \A i \in 1 .. n : q[i + 1] = path[i]
  <2>1. <<net.id[p]>> \in Seq(S) /\ Len(<<net.id[p]>>) = 1
    OBVIOUS
  <2>2. PICK h : h = <<net.id[p]>>
    OBVIOUS
  <2>3. q = h \o path /\ h \in Seq(S) /\ Len(h) = 1 /\ h[1] = net.id[p]
    BY <1>1, <2>1, <2>2
  <2>4. Len(q) = 1 + n /\ q[1] = h[1] /\ \A i \in 1 .. n : q[1 + i] = path[i]
    BY <1>1, <2>3
  <2>5. n \in Nat
    BY <1>1
  <2> QED
    BY <2>3, <2>4, <2>5
<1>3. Beyond(p) = net.sock[net.peer[p]]
  BY BeyondIs
<1>4. CASE path = <<>> /\ x = net.sock[net.peer[p]]
  <2>1. n = 0 /\ Len(q) = 1
    BY <1>1, <1>2, <1>4
  <2>2. PICK es : es = [i \in 1 .. 1 |-> p]
    OBVIOUS
  <2>3. es[1] = p /\ es \in [1 .. 1 -> net.ends] /\ \A i \in 1 .. 1 : i = 1
    BY <2>2
  <2>4. Route(es, net.sock[p], q, x)
    BY <1>2, <1>3, <1>4, <2>1, <2>3 DEF Route
  <2> QED
    BY <1>1, <2>4 DEF Leads
<1>5. CASE Leads(GoesOn(net.sock[net.peer[p]]), path, x)
  <2>1. PICK fs : Route(fs, GoesOn(Beyond(p)), path, x)
    BY <1>3, <1>5 DEF Leads
  <2>2. /\ n >= 1 /\ fs \in [1 .. n -> net.ends] /\ net.sock[fs[1]] = GoesOn(Beyond(p)) /\ Beyond(fs[n]) = x
        /\ \A i \in 1 .. n : net.id[fs[i]] = path[i]
        /\ \A i \in 1 .. n : i < n => net.kind[fs[i]] # "raw" /\ net.sock[fs[i + 1]] = GoesOn(Beyond(fs[i]))
    BY <1>1, <2>1 DEF Route
  <2>3. PICK es : es = [i \in 1 .. n + 1 |-> IF i = 1 THEN p ELSE fs[i - 1]]
    OBVIOUS
  <2>4. \A i \in 1 .. n + 1 : i = 1 \/ \E j \in 1 .. n : i = j + 1 /\ i - 1 = j /\ j + 1 # 1
    <3> TAKE i \in 1 .. n + 1
    <3>1. CASE i # 1
      <4>1. i - 1 \in 1 .. n /\ i = (i - 1) + 1
        BY <1>2, <3>1
      <4> QED
        BY <3>1, <4>1
    <3> QED
      BY <3>1
  <2>5. /\ 1 \in 1 .. n + 1 /\ n + 1 \in 1 .. n + 1 /\ n \in 1 .. n /\ 1 \in 1 .. n
        /\ \A j \in 1 .. n : j + 1 \in 1 .. n + 1 /\ j + 1 # 1 /\ (j + 1) - 1 = j
    BY <1>2, <2>2
  <2>6. es[1] = p /\ \A j \in 1 .. n : es[j + 1] = fs[j]
    BY <2>3, <2>5
  <2>7. es \in [1 .. n + 1 -> net.ends]
    <3>1. \A i \in 1 .. n + 1 : (IF i = 1 THEN p ELSE fs[i - 1]) \in net.ends
      BY <2>2, <2>4
    <3> QED
      BY <2>3, <3>1
  <2>8. ASSUME NEW i \in 1 .. n + 1 PROVE net.id[es[i]] = q[i]
    <3>1. CASE i = 1
      BY <1>2, <2>6, <3>1
    <3>2. ASSUME NEW j \in 1 .. n, i = j + 1 PROVE net.id[es[i]] = q[i]
      <4>1. es[j + 1] = fs[j] /\ q[j + 1] = path[j] /\ net.id[fs[j]] = path[j]
        BY <1>2, <2>2, <2>6
      <4> QED
        BY <3>2, <4>1
    <3> QED
      BY <2>4, <3>1, <3>2
  <2>9. ASSUME NEW i \in 1 .. n + 1, i < n + 1
        PROVE  net.kind[es[i]] # "raw" /\ net.sock[es[i + 1]] = GoesOn(Beyond(es[i]))
    <3>1. CASE i = 1
      <4>1. es[1 + 1] = fs[1]
        BY <2>5, <2>6
      <4> QED
        BY <2>2, <2>6, <3>1, <4>1
    <3>2. CASE i # 1
      <4>1. PICK j \in 1 .. n : i = j + 1
        BY <2>4, <3>2
      <4>2. j < n
        BY <1>2, <2>9, <4>1
      <4>3. j + 1 \in 1 .. n
        BY <1>2, <4>2
      <4>4. es[i] = fs[j] /\ es[i + 1] = fs[j + 1]
        BY <2>6, <4>1, <4>3
      <4> QED
        BY <2>2, <4>2, <4>4
    <3> QED
      BY <3>1, <3>2
  <2>10. Beyond(es[n + 1]) = x
    BY <2>2, <2>5, <2>6
  <2>11. Len(q) \in Nat /\ Len(q) >= 1
    BY <1>2
  <2>12. Route(es, net.sock[p], q, x)
    BY <1>2, <2>6, <2>7, <2>8, <2>9, <2>10, <2>11 DEF Route
  <2> QED
    BY <1>1, <2>12 DEF Leads
<1> QED
  BY <1>4, <1>5 DEF Follows

\* The sender's pipe is the first of the destination; the rest follows behind it.
LEMMA Rest ==
    ASSUME NetOK, NEW S, NEW e \in net.ends, NEW path \in Seq(S), NEW x, Leads(net.sock[e], path, x), net.id[e] = path[1]
    PROVE  /\ path # <<>>
           /\ net.kind[e] = "raw" => x = e
           /\ net.kind[e] # "raw" => Follows(net.sock[net.peer[e]], Tail(path), x)
<1>1. PICK n : n = Len(path)
  OBVIOUS
<1>2. PICK fs : Route(fs, net.sock[e], path, x)
  BY DEF Leads
<1>3. /\ n \in Nat /\ n >= 1 /\ fs \in [1 .. n -> net.ends] /\ net.sock[fs[1]] = net.sock[e] /\ Beyond(fs[n]) = x
      /\ \A i \in 1 .. n : net.id[fs[i]] = path[i]
      /\ \A i \in 1 .. n : i < n => net.kind[fs[i]] # "raw" /\ net.sock[fs[i + 1]] = GoesOn(Beyond(fs[i]))
  BY <1>1, <1>2 DEF Route
<1>4. 1 \in 1 .. n
  BY <1>3
<1>5. fs[1] = e
  <2>1. fs[1] \in net.ends /\ net.id[fs[1]] = net.id[e] /\ net.sock[fs[1]] = net.sock[e]
    BY <1>3, <1>4
  <2> QED
    BY <2>1, NetFacts
<1>6. path # <<>>
  BY <1>1, <1>3
<1>7. n = 1 \/ 1 < n
  BY <1>3
<1>8. CASE n = 1
  <2>1. Beyond(e) = x
    BY <1>3, <1>5, <1>8
  <2>2. Tail(path) = <<>>
    <3>0. Tail(path) \in Seq(S) /\ Len(Tail(path)) = Len(path) - 1
      BY ONLY path \in Seq(S), <1>6, HeadTailProperties
    <3>1. Tail(path) \in Seq(S) /\ Len(Tail(path)) = 0
      BY ONLY <3>0, <1>1, <1>8
    <3> QED
      BY ONLY <3>1, EmptySeq, Zenon
  <2>3. net.kind[e] = "raw" => x = e
    BY <2>1, BeyondIs
  <2>4. net.kind[e] # "raw" => x = net.sock[net.peer[e]]
    BY <2>1, BeyondIs
  <2> QED
    BY <1>6, <2>2, <2>3, <2>4 DEF Follows
<1>9. CASE 1 < n
  <2>1. net.kind[e] # "raw" /\ net.sock[fs[1 + 1]] = GoesOn(Beyond(e))
    BY <1>3, <1>4, <1>5, <1>9
  <2>2. Beyond(e) = net.sock[net.peer[e]]
    BY <2>1, BeyondIs
  <2>3. PICK k, t, es : k = n - 1 /\ t = Tail(path) /\ es = [i \in 1 .. k |-> fs[i + 1]]
    OBVIOUS
  <2>4. k \in Nat /\ k >= 1 /\ n = k + 1 /\ 1 \in 1 .. k /\ k \in 1 .. k /\ \A i \in 1 .. k : i + 1 \in 1 .. n
    BY <1>3, <1>9, <2>3
  <2>5. Len(t) = k /\ \A i \in 1 .. k : t[i] = path[i + 1]
    BY <1>1, <1>6, <2>3, <2>4
  <2>6. es \in [1 .. k -> net.ends] /\ \A i \in 1 .. k : es[i] = fs[i + 1]
    BY <1>3, <2>3, <2>4
  <2>7. net.sock[es[1]] = GoesOn(Beyond(e)) /\ Beyond(es[k]) = x
    BY <1>3, <2>1, <2>4, <2>6
  <2>8. ASSUME NEW i \in 1 .. k PROVE net.id[es[i]] = t[i]
    <3>1. i + 1 \in 1 .. n /\ es[i] = fs[i + 1] /\ t[i] = path[i + 1]
      BY <2>4, <2>5, <2>6
    <3> QED
      BY ONLY <1>3, <3>1
  <2>9. ASSUME NEW i \in 1 .. k, i < k
        PROVE  net.kind[es[i]] # "raw" /\ net.sock[es[i + 1]] = GoesOn(Beyond(es[i]))
    <3>1. i + 1 \in 1 .. n /\ i + 1 < n /\ i + 1 \in 1 .. k
      BY <2>4, <2>9
    <3>2. es[i] = fs[i + 1] /\ es[i + 1] = fs[(i + 1) + 1]
      BY <2>6, <3>1
    <3> QED
      BY <1>3, <3>1, <3>2
  <2>10. Route(es, GoesOn(Beyond(e)), t, x)
    BY <2>4, <2>5, <2>6, <2>7, <2>8, <2>9 DEF Route
  <2> QED
    BY <1>6, <2>1, <2>2, <2>3, <2>10 DEF Follows, Leads
<1> QED
  BY <1>7, <1>8, <1>9

\* a socket with pipes is not one of a pair: its paths start there
LEMMA StartsHere == ASSUME NetOK, NEW e \in net.ends PROVE PathStart(net.sock[e]) = net.sock[e]
BY NetFacts DEF PathStart

\* a path has no continuation at a socket without twin
LEMMA EndsHere == ASSUME NetOK, NEW s \in net.sockets, net.twin[s] = None PROVE GoesOn(s) = None
BY DEF GoesOn, PathStart

\* what is forwarded to the twin starts where it goes on, and the other way round
LEMMA TwinsMeet ==
    ASSUME NetOK, NEW s \in net.sockets, NEW t, t = net.twin[s], t # None
    PROVE  /\ t \in net.sockets /\ GoesOn(t) = PathStart(s)
           /\ net.mate[t] = None => GoesOn(s) = t
           /\ net.mate[t] # None => /\ net.mate[t] \in net.sockets /\ PathStart(net.mate[t]) = PathStart(s)
                                    /\ GoesOn(net.mate[t]) = GoesOn(s)
<1>1. t \in net.sockets /\ net.twin[t] = s /\ None \notin net.sockets
  BY NetFacts
<1>2. GoesOn(t) = PathStart(s)
  BY <1>1 DEF GoesOn
<1>3. net.mate[t] = None => GoesOn(s) = t
  BY <1>1 DEF GoesOn, PathStart
<1>4. ASSUME net.mate[t] # None
      PROVE  /\ net.mate[t] \in net.sockets /\ PathStart(net.mate[t]) = PathStart(s)
             /\ GoesOn(net.mate[t]) = GoesOn(s)
  <2>1. PICK y \in net.sockets : y = net.mate[t] /\ net.mate[y] = t
    BY <1>1, <1>4, NetFacts
  <2>2. net.mate[s] = None
    BY <1>1, <1>4, NetFacts
  <2>3. PathStart(s) = s /\ PathStart(y) = s
    BY <1>1, <2>1, <2>2 DEF PathStart
  <2>4. PathStart(t) = net.twin[y]
    BY <1>1, <1>4, <2>1 DEF PathStart
  <2>5. net.twin[y] # None => net.mate[net.twin[y]] = None
    BY <1>1, <2>1, NetFacts
  <2>6. PathStart(net.twin[y]) = net.twin[y]
    BY <2>5 DEF PathStart
  <2> QED
    BY <2>1, <2>3, <2>4, <2>6 DEF GoesOn
<1> QED
  BY <1>1, <1>2, <1>3, <1>4

\* what one of a pair sends goes on where the paths of its mate start
LEMMA MatesMeet ==
    ASSUME NetOK, NEW s \in net.sockets, NEW y, y = net.mate[s], y # None
    PROVE  y \in net.sockets /\ GoesOn(y) = PathStart(s)
<1>1. y \in net.sockets /\ net.mate[y] = s /\ None \notin net.sockets
  BY NetFacts
<1>2. net.twin[y] # None => net.mate[net.twin[y]] = None
  BY <1>1, NetFacts
<1>3. PathStart(net.twin[y]) = net.twin[y]
  BY <1>2 DEF PathStart
<1> QED
  BY <1>1, <1>3 DEF GoesOn, PathStart

-----------------------------------------------------------------------------
(* Requests and answers on their way *)

\* no direct connection leads to a socket of a switch
Wired == \A e \in net.ends : net.kind[e] = "direct" => net.twin[net.sock[e]] = None

\* who may have asked: a raw program, or an application, which uses no socket of a switch
Askable(x) == x \in net.ends \/ (x \in net.sockets /\ net.twin[x] = None)

\* A message that s has received: the source of a request leads from s to who asked,
\* what is left of the destination of an answer leads on from s to who asked.
Held(s, m) ==
    /\ IsRequest(m) => Askable(Asker(m.content)) /\ Leads(PathStart(s), m.source, Asker(m.content))
    /\ IsReply(m) /\ Wired => m.type = SendTypeToDest /\ Askable(Asker(m.content)) /\ Follows(s, m.dest, Asker(m.content))

\* A message that s sends.
Leaves(s, m) ==
    /\ IsRequest(m) => Askable(Asker(m.content)) /\ Follows(s, m.source, Asker(m.content))
    /\ IsReply(m) /\ Wired => m.type = SendTypeToDest /\ Askable(Asker(m.content)) /\ Leads(s, m.dest, Asker(m.content))

\* the answer is in the pipe that its destination names
Aimed(e, m) == IsReply(m) /\ Wired => m.dest[1] = net.id[e]

\* forward hands a message over to the twin, or to its mate
LEMMA Forwarded ==
    ASSUME NetOK, NEW s \in net.sockets, NEW t, t = net.twin[s], t # None, NEW m, Held(s, m)
    PROVE  /\ net.mate[t] = None => Leaves(t, m)
           /\ net.mate[t] # None => Held(net.mate[t], m)
<1>1. /\ GoesOn(t) = PathStart(s)
      /\ net.mate[t] = None => GoesOn(s) = t
      /\ net.mate[t] # None => PathStart(net.mate[t]) = PathStart(s) /\ GoesOn(net.mate[t]) = GoesOn(s)
  BY TwinsMeet
<1>2. ~Askable(s)
  BY NetFacts DEF Askable
<1>3. PICK x : x = Asker(m.content)
  OBVIOUS
<1>4. /\ IsRequest(m) => Askable(x) /\ Leads(PathStart(s), m.source, x)
      /\ IsReply(m) /\ Wired => m.type = SendTypeToDest /\ Askable(x) /\ Follows(s, m.dest, x)
  BY <1>3 DEF Held
<1>5. IsReply(m) /\ Wired => m.type = SendTypeToDest /\ Askable(x) /\ Leads(GoesOn(s), m.dest, x)
  BY <1>2, <1>4 DEF Follows
<1>6. net.mate[t] = None => Leaves(t, m)
  BY <1>1, <1>3, <1>4, <1>5 DEF Leaves, Follows
<1>7. net.mate[t] # None => Held(net.mate[t], m)
  BY <1>1, <1>3, <1>4, <1>5 DEF Held, Follows
<1> QED
  BY <1>6, <1>7

\* what the receiver at the other end makes of a message
LEMMA Arrived ==
    ASSUME NetOK, NEW e \in net.ends, net.kind[e] # "raw", NEW p, p = net.peer[e], NEW m, Sendable(m),
           Leaves(net.sock[e], m), Aimed(e, m), NEW r \in Receives(p, m), IsMsg(r)
    PROVE  Held(net.sock[p], r)
<1>1. /\ p \in net.ends /\ net.kind[p] # "raw" /\ net.peer[p] = e /\ net.sock[p] \in net.sockets
      /\ net.id[p] \in Letters
  BY NetFacts DEF Letters
<1>2. /\ Sound(r) /\ r.source = <<net.id[p]>> \o m.source /\ r.content = m.content /\ r.type = m.type
      /\ net.kind[p] # "direct" /\ m.type = SendTypeToDest => r.dest = Tail(m.dest)
      /\ net.kind[p] = "direct" /\ m.type = SendTypeToDest => Len(r.dest) = Len(m.dest) - 1
  BY <1>1, ReceivedIsSound
<1>3. m.source \in Seq(Letters) /\ m.dest \in Seq(Letters) /\ r.dest \in Seq(Letters)
  BY <1>2 DEF Sendable, Sound, Mail
<1>4. PICK x : x = Asker(m.content) /\ x = Asker(r.content)
  BY <1>2
<1>5. (IsRequest(r) <=> IsRequest(m)) /\ (IsReply(r) <=> IsReply(m))
  BY <1>2 DEF IsRequest, IsReply
<1>6. ASSUME IsRequest(m)
      PROVE  Askable(x) /\ Leads(PathStart(net.sock[p]), r.source, x)
  <2>1. Askable(x) /\ Follows(net.sock[e], m.source, x)
    BY <1>4, <1>6 DEF Leaves
  <2>2. Leads(net.sock[p], <<net.id[p]>> \o m.source, x)
    BY <1>1, <1>3, <2>1, Prepend
  <2> QED
    BY <1>1, <1>2, <2>1, <2>2, StartsHere
<1>7. ASSUME IsReply(m), Wired
      PROVE  r.type = SendTypeToDest /\ Askable(x) /\ Follows(net.sock[p], r.dest, x)
  <2>1. m.type = SendTypeToDest /\ Askable(x) /\ Leads(net.sock[e], m.dest, x) /\ net.id[e] = m.dest[1]
    BY <1>4, <1>7 DEF Leaves, Aimed
  <2>2. m.dest # <<>> /\ Follows(net.sock[p], Tail(m.dest), x)
    BY <1>3, <2>1, Rest
  <2>3. CASE net.kind[p] # "direct"
    BY <1>2, <2>1, <2>2, <2>3
  <2>4. CASE net.kind[p] = "direct"
    <3>1. GoesOn(net.sock[p]) = None
      BY <1>1, <1>7, <2>4, EndsHere DEF Wired
    <3>2. Tail(m.dest) = <<>> /\ x = net.sock[p]
      BY <2>2, <3>1, NoWay DEF Follows
    <3>3. Len(Tail(m.dest)) = Len(m.dest) - 1
      BY ONLY <1>3, <2>2, HeadTailProperties
    <3>4. Len(r.dest) = 0
      BY <1>2, <2>1, <2>4, <3>2, <3>3
    <3>5. r.dest = <<>>
      BY ONLY <1>3, <3>4, EmptySeq
    <3> QED
      BY <1>2, <2>1, <3>2, <3>5 DEF Follows
  <2> QED
    BY <2>3, <2>4
<1> QED
  BY <1>4, <1>5, <1>6, <1>7 DEF Held

\* what raw programs and applications start
LEMMA RawIsHeld ==
    ASSUME NetOK, NEW e \in net.ends, net.kind[e] = "raw", NEW c, c = <<>> \/ c = Request(e)
    PROVE  Held(net.sock[e], NewRawRecvMessage(net.id[e], c))
<1>1. PICK m : m = NewRawRecvMessage(net.id[e], c)
  OBVIOUS
<1>2. m.content = c /\ m.source = <<net.id[e]>>
  BY <1>1 DEF NewRawRecvMessage
<1>3. ~IsReply(m)
  BY <1>2 DEF IsReply, Request
<1>4. ASSUME IsRequest(m) PROVE Asker(m.content) = e
  <2>1. c = <<e>>
    BY <1>2, <1>4 DEF IsRequest, Request
  <2> QED
    BY <1>2, <2>1 DEF Asker
<1>5. Leads(PathStart(net.sock[e]), <<net.id[e]>>, e)
  BY RawStart, StartsHere
<1> QED
  BY <1>1, <1>2, <1>3, <1>4, <1>5 DEF Held, Askable

LEMMA SentLeaves ==
    ASSUME NetOK, NEW s \in net.sockets, NEW t \in net.sends[s], NEW m, m.source = <<>>, m.content = Request(s)
    PROVE  Leaves(s, m)
<1>1. Len(m.content) = 1 /\ m.content[1] = s
  BY DEF Request
<1>2. ~IsReply(m) /\ Asker(m.content) = s
  BY <1>1 DEF IsReply, Asker
<1>3. Askable(s)
  BY NetFacts DEF Askable
<1> QED
  BY <1>2, <1>3 DEF Leaves, Follows

\* the answer to a request that s has received
LEMMA Answers ==
    ASSUME NetOK, NEW s \in net.sockets, NEW m, Held(s, m), IsRequest(m), NEW r, r.type = SendTypeToDest,
           r.dest = m.source, r.content = <<Reply, Asker(m.content)>>
    PROVE  /\ net.mate[s] = None => Leaves(s, r)
           /\ net.mate[s] # None => Held(net.mate[s], r)
<1>1. PICK x : x = Asker(m.content)
  OBVIOUS
<1>2. Len(r.content) = 2 /\ r.content[2] = x
  BY <1>1
<1>3. ~IsRequest(r) /\ Asker(r.content) = x
  BY <1>2 DEF IsRequest, Asker
<1>4. Askable(x) /\ Leads(PathStart(s), r.dest, x)
  BY <1>1 DEF Held
<1>5. net.mate[s] = None => PathStart(s) = s
  BY DEF PathStart
<1>6. net.mate[s] # None => GoesOn(net.mate[s]) = PathStart(s)
  BY MatesMeet
<1> QED
  BY <1>3, <1>4, <1>5, <1>6 DEF Leaves, Held, Follows

-----------------------------------------------------------------------------
(* The queues *)

HeldBy(s) == {m \in Got : Held(s, m)}
QueueOf(s) == {m \in Out : Leaves(s, m) /\ m.type = SendTypeToOne}
LineOf(e) == {m \in Out : Leaves(net.sock[e], m) /\ Aimed(e, m)}

\* Every queue holds messages that are on the right way.
PathInv ==
    /\ MailInv
    /\ \A s \in net.sockets : recvq[s] \in Seq(HeldBy(s)) /\ sendq[s] \in Seq(QueueOf(s))
    /\ \A e \in net.ends : line[e] \in Seq(LineOf(e))
    /\ \A g \in got : net.twin[g[1]] = None /\ g[2] \in HeldBy(g[1])
    /\ \A g \in rawGot : Wired /\ Len(g[2]) = 2 => Asker(g[2]) = g[1]

\* the ways do not change
LEMMA WaysStay ==
    ASSUME net' = net
    PROVE  /\ \A s : HeldBy(s)' = HeldBy(s) /\ QueueOf(s)' = QueueOf(s)
           /\ \A e : LineOf(e)' = LineOf(e)
           /\ Wired' <=> Wired
<1>1. Got' = Got /\ Out' = Out
  BY NetStays
<1>2. \A x : PathStart(x)' = PathStart(x) /\ Beyond(x)' = Beyond(x)
  BY DEF PathStart, Beyond
<1>3. \A x : GoesOn(x)' = GoesOn(x)
  <2>1. \A x : PathStart(net.twin[x])' = PathStart(net.twin[x])
    BY DEF PathStart
  <2> QED
    BY <2>1 DEF GoesOn
<1>4. \A es, t, path, x : Route(es, t, path, x)' <=> Route(es, t, path, x)
  <2> SUFFICES ASSUME NEW es, NEW t, NEW path, NEW x PROVE Route(es, t, path, x)' <=> Route(es, t, path, x)
    OBVIOUS
  <2>1. \A i : GoesOn(Beyond(es[i]))' = GoesOn(Beyond(es[i])) /\ Beyond(es[i])' = Beyond(es[i])
    BY DEF GoesOn, Beyond, PathStart
  <2> QED
    BY <2>1 DEF Route
<1>5. \A t, path, x : Leads(t, path, x)' <=> Leads(t, path, x)
  BY <1>4 DEF Leads
<1>6. \A s, path, x : Leads(PathStart(s), path, x)' <=> Leads(PathStart(s), path, x)
  BY <1>2, <1>4 DEF Leads
<1>7. \A s, path, x : Follows(s, path, x)' <=> Follows(s, path, x)
  BY <1>3, <1>4 DEF Follows, Leads
<1>8. Wired' <=> Wired
  BY DEF Wired
<1>9. \A x : Askable(x)' <=> Askable(x)
  BY DEF Askable
<1>10. \A s, m : Held(s, m)' <=> Held(s, m)
  BY <1>6, <1>7, <1>8, <1>9 DEF Held
<1>11. \A s, m : Leaves(s, m)' <=> Leaves(s, m)
  BY <1>5, <1>7, <1>8, <1>9 DEF Leaves
<1> QED
  BY <1>1, <1>8, <1>10, <1>11 DEF HeldBy, QueueOf, LineOf, Aimed

\* PathInv after a step, said with the ways of the state before it
LEMMA PathKeeps ==
    ASSUME MailInv', net' = net,
           \A s \in net.sockets : recvq'[s] \in Seq(HeldBy(s)) /\ sendq'[s] \in Seq(QueueOf(s)),
           \A e \in net.ends : line'[e] \in Seq(LineOf(e)),
           \A g \in got' : net.twin[g[1]] = None /\ g[2] \in HeldBy(g[1]),
           \A g \in rawGot' : Wired /\ Len(g[2]) = 2 => Asker(g[2]) = g[1]
    PROVE  PathInv'
<1>1. /\ \A s : HeldBy(s)' = HeldBy(s) /\ QueueOf(s)' = QueueOf(s)
      /\ \A e : LineOf(e)' = LineOf(e)
      /\ Wired' <=> Wired
  BY WaysStay
<1>2. \A s \in net'.sockets : recvq'[s] \in Seq(HeldBy(s)') /\ sendq'[s] \in Seq(QueueOf(s)')
  BY <1>1
<1>3. \A e \in net'.ends : line'[e] \in Seq(LineOf(e)')
  BY <1>1
<1>4. \A g \in got' : HeldBy(g[1])' = HeldBy(g[1])
  BY <1>1
<1>5. \A g \in got' : net'.twin[g[1]] = None /\ g[2] \in HeldBy(g[1])'
  BY <1>4
<1>6. \A g \in rawGot' : Wired' /\ Len(g[2]) = 2 => Asker(g[2]) = g[1]
  BY <1>1
<1> QED
  BY <1>2, <1>3, <1>5, <1>6 DEF PathInv

\* what PathInv says of the functions
LEMMA PathFacts ==
    ASSUME PathInv
    PROVE  /\ MailInv /\ NetOK /\ up \subseteq net.ends /\ receiving \subseteq net.ends
           /\ DOMAIN line = net.ends /\ DOMAIN sendq = net.sockets /\ DOMAIN recvq = net.sockets
           /\ \A s \in net.sockets : recvq[s] \in Seq(HeldBy(s)) /\ sendq[s] \in Seq(QueueOf(s))
           /\ \A e \in net.ends : line[e] \in Seq(LineOf(e))
           /\ \A g \in got : net.twin[g[1]] = None /\ g[2] \in HeldBy(g[1])
           /\ \A g \in rawGot : Wired /\ Len(g[2]) = 2 => Asker(g[2]) = g[1]
BY DEF PathInv, MailInv, NetOK

\* what the sets say of their messages
LEMMA WaysAre ==
    /\ \A s, m : m \in HeldBy(s) <=> Sound(m) /\ Held(s, m)
    /\ \A s, m : m \in QueueOf(s) <=> Sendable(m) /\ Leaves(s, m) /\ m.type = SendTypeToOne
    /\ \A e, m : m \in LineOf(e) <=> Sendable(m) /\ Leaves(net.sock[e], m) /\ Aimed(e, m)
BY GotOut DEF HeldBy, QueueOf, LineOf

\* only answers have a destination: a message of another type may take any pipe
LEMMA AnyPipe ==
    ASSUME NEW s, NEW e, s = net.sock[e], NEW m, Sendable(m), Leaves(s, m), m.type # SendTypeToDest
    PROVE  m \in LineOf(e)
BY WaysAre DEF Leaves, Aimed

\* queues of messages
LEMMA Queues ==
    ASSUME NEW S, NEW q \in Seq(S)
    PROVE  /\ \A m \in S : Append(q, m) \in Seq(S)
           /\ q # <<>> => Head(q) \in S /\ Tail(q) \in Seq(S)
  OBVIOUS

\* SendMsg and SendTo put a message into queues where it is on its way.
LEMMA ByTypePath ==
    ASSUME PathInv, NEW s \in net.sockets, NEW m, Sound(m), m.ttl >= 1, Leaves(s, m), ByType(s, m)
    PROVE  /\ \A x \in net.sockets : sendq'[x] \in Seq(QueueOf(x))
           /\ \A e \in net.ends : line'[e] \in Seq(LineOf(e))
<1>1. /\ DOMAIN line = net.ends /\ DOMAIN sendq = net.sockets /\ up \subseteq net.ends
      /\ \A x \in net.sockets : sendq[x] \in Seq(QueueOf(x))
      /\ \A e \in net.ends : line[e] \in Seq(LineOf(e))
  BY PathFacts
<1>2. m.type # SendTypeToDest => Sendable(m)
  BY DEF Sendable
<1>3. m.distance # 0 => Sendable(m)
  <2>1. m.distance \in Nat
    BY ByteDef DEF Sound, Mail
  <2>2. m.distance # 0 => m.distance >= 1
    BY <2>1
  <2> QED
    BY <2>2 DEF Sendable
<1>4. CASE m.type = SendTypeToDest /\ ToDest(s, m)
  <2>1. sendq' = sendq
    BY <1>4 DEF ToDest
  <2>2. line' = [e \in net.ends |-> IF m.distance # 0 /\ e \in Named(s, m.dest[1]) THEN Append(line[e], m) ELSE line[e]]
    BY <1>4 DEF ToDest
  <2>3. ASSUME NEW e \in net.ends, m.distance # 0, e \in Named(s, m.dest[1]) PROVE m \in LineOf(e)
    <3>1. net.sock[e] = s /\ net.id[e] = m.dest[1]
      BY <2>3 DEF Named, PipesOf
    <3> QED
      BY <1>3, <2>3, <3>1, WaysAre DEF Aimed
  <2>4. ASSUME NEW e \in net.ends PROVE line'[e] \in Seq(LineOf(e))
    <3>1. line[e] \in Seq(LineOf(e))
      BY <1>1
    <3>2. m \in LineOf(e) => Append(line[e], m) \in Seq(LineOf(e))
      BY <3>1, Queues
    <3> QED
      BY <2>2, <2>3, <3>1, <3>2
  <2> QED
    BY <1>1, <2>1, <2>4
<1>5. CASE m.type = SendTypeToOne /\ ToOne(s, m)
  <2>1. m \in QueueOf(s)
    BY <1>2, <1>5, WaysAre DEF SendTypeToOne, SendTypeToDest
  <2>2. Append(sendq[s], m) \in Seq(QueueOf(s))
    BY <1>1, <2>1, Queues
  <2>3. line' = line /\ sendq' = [sendq EXCEPT ![s] = Append(@, m)]
    BY <1>5 DEF ToOne
  <2> QED
    BY <1>1, <2>2, <2>3
<1>6. CASE m.type = SendTypeToAll /\ ToAll(s, m)
  <2>1. Dup(m) = m /\ m.type # SendTypeToDest
    BY <1>6, DupIsSame DEF SendTypeToAll, SendTypeToDest
  <2>2. sendq' = sendq /\ line' = [e \in net.ends |-> IF e \in PipesOf(s) THEN Append(line[e], m) ELSE line[e]]
    BY <1>6, <2>1 DEF ToAll
  <2>3. ASSUME NEW e \in net.ends, e \in PipesOf(s) PROVE m \in LineOf(e)
    <3>1. net.sock[e] = s
      BY <2>3 DEF PipesOf
    <3> QED
      BY <1>2, <2>1, <3>1, AnyPipe
  <2>4. ASSUME NEW e \in net.ends PROVE line'[e] \in Seq(LineOf(e))
    <3>1. line[e] \in Seq(LineOf(e))
      BY <1>1
    <3>2. m \in LineOf(e) => Append(line[e], m) \in Seq(LineOf(e))
      BY <3>1, Queues
    <3> QED
      BY <2>2, <2>3, <3>1, <3>2
  <2> QED
    BY <1>1, <2>2, <2>4
<1> QED
  BY <1>4, <1>5, <1>6 DEF ByType

\* A closed pipe resends only messages to one, which may take any pipe.
LEMMA ResentPath ==
    ASSUME PathInv, NEW x \in net.ends, NEW n \in Nat, NEW v \in Resent(x, n)
    PROVE  v \in Seq(QueueOf(net.sock[x]))
<1>1. line[x] \in Seq(LineOf(x))
  BY PathFacts
<1>2. PICK kept : kept = {k \in n + 1 .. Len(line[x]) : line[x][k].type = SendTypeToOne}
  OBVIOUS
<1>3. PICK f \in [1 .. Cardinality(kept) -> kept] : v = [i \in DOMAIN f |-> line[x][f[i]]]
  BY <1>2 DEF Resent
<1>4. Cardinality(kept) \in Nat
  <2>1. IsFiniteSet(n + 1 .. Len(line[x]))
    BY <1>1, FS_Interval
  <2>2. IsFiniteSet(kept)
    BY <1>2, <2>1, FS_Subset
  <2> QED
    BY <2>2, FS_CardinalityType
<1>5. \A k \in kept : k \in 1 .. Len(line[x]) /\ line[x][k].type = SendTypeToOne
  BY <1>1, <1>2
<1>6. \A k \in kept : line[x][k] \in LineOf(x)
  BY <1>1, <1>5
<1>7. \A k \in kept : line[x][k] \in QueueOf(net.sock[x])
  BY <1>5, <1>6, WaysAre
<1>8. v \in [1 .. Cardinality(kept) -> QueueOf(net.sock[x])]
  BY <1>3, <1>7
<1> QED
  BY <1>4, <1>8

\* a connection breaks
LEMMA BrokenPath ==
    ASSUME PathInv, NEW e \in net.ends, net.kind[e] # "raw", Broken(e)
    PROVE  /\ \A x \in net.sockets : sendq'[x] \in Seq(QueueOf(x))
           /\ \A x \in net.ends : line'[x] \in Seq(LineOf(x))
<1>1. /\ DOMAIN line = net.ends /\ NetOK
      /\ \A x \in net.sockets : sendq[x] \in Seq(QueueOf(x))
      /\ \A x \in net.ends : line[x] \in Seq(LineOf(x))
  BY PathFacts
<1> DEFINE p == net.peer[e]
<1>2. p \in net.ends
  BY <1>1, NetFacts
<1>3. line' = [x \in net.ends |-> IF x \in {e, p} THEN <<>> ELSE line[x]]
  BY DEF Broken
<1>4. PICK i \in 0 .. Len(line[e]), j \in 0 .. Len(line[p]) : \E v \in Resent(e, i), w \in Resent(p, j) :
         sendq' = [s \in net.sockets |-> sendq[s] \o (IF s = net.sock[e] THEN v ELSE <<>>)
                                                  \o (IF s = net.sock[p] THEN w ELSE <<>>)]
  BY ZenonT(30) DEF Broken
<1> HIDE DEF p
<1>5. PICK v \in Resent(e, i), w \in Resent(p, j) :
         sendq' = [s \in net.sockets |-> sendq[s] \o (IF s = net.sock[e] THEN v ELSE <<>>)
                                                  \o (IF s = net.sock[p] THEN w ELSE <<>>)]
  BY <1>4
<1>6. i \in Nat /\ j \in Nat
  BY <1>1, <1>2
<1>7. v \in Seq(QueueOf(net.sock[e])) /\ w \in Seq(QueueOf(net.sock[p]))
  BY <1>2, <1>6, ResentPath
<1>8. ASSUME NEW s \in net.sockets PROVE sendq'[s] \in Seq(QueueOf(s))
  <2>1. PICK x, y : x = (IF s = net.sock[e] THEN v ELSE <<>>) /\ y = (IF s = net.sock[p] THEN w ELSE <<>>)
    OBVIOUS
  <2>2. sendq[s] \in Seq(QueueOf(s)) /\ <<>> \in Seq(QueueOf(s))
    BY <1>1
  <2>3. x \in Seq(QueueOf(s)) /\ y \in Seq(QueueOf(s))
    BY <1>7, <2>1, <2>2
  <2>4. (sendq[s] \o x) \o y \in Seq(QueueOf(s))
    BY <2>2, <2>3
  <2> QED
    BY <1>5, <2>1, <2>4
<1>9. ASSUME NEW x \in net.ends PROVE line'[x] \in Seq(LineOf(x))
  <2>1. <<>> \in Seq(LineOf(x)) /\ line[x] \in Seq(LineOf(x))
    BY <1>1
  <2> QED
    BY <1>3, <2>1
<1> QED
  BY <1>8, <1>9

\* The steps of pipes and connections.
LEMMA EndPath ==
    ASSUME PathInv, NEW e \in Ends, EndNext(e) \/ RawRecv(e) \/ RawEOF(e) \/ Leave(e)
    PROVE  PathInv'
<1>1. /\ MailInv /\ NetOK /\ up \subseteq net.ends
      /\ DOMAIN line = net.ends /\ DOMAIN sendq = net.sockets /\ DOMAIN recvq = net.sockets
      /\ \A s \in net.sockets : recvq[s] \in Seq(HeldBy(s)) /\ sendq[s] \in Seq(QueueOf(s))
      /\ \A x \in net.ends : line[x] \in Seq(LineOf(x))
      /\ \A g \in got : net.twin[g[1]] = None /\ g[2] \in HeldBy(g[1])
      /\ \A g \in rawGot : Wired /\ Len(g[2]) = 2 => Asker(g[2]) = g[1]
  BY PathFacts
<1>2. MailInv'
  BY <1>1, EndStep
<1>3. net' = net /\ got' = got
  BY DEF EndNext, RawRecv, RawEOF, Leave, Take, Arrives, ReceiverFails, Ignores, RawArrives
<1>4. ASSUME \A s \in net.sockets : recvq'[s] \in Seq(HeldBy(s)) /\ sendq'[s] \in Seq(QueueOf(s)),
             \A x \in net.ends : line'[x] \in Seq(LineOf(x)),
             \A g \in rawGot' : Wired /\ Len(g[2]) = 2 => Asker(g[2]) = g[1]
      PROVE  PathInv'
  BY <1>1, <1>2, <1>3, <1>4, PathKeeps
<1>5. ASSUME e \in up, line[e] # <<>>
      PROVE  /\ e \in net.ends /\ Head(line[e]) \in LineOf(e)
             /\ \A x \in net.ends : [line EXCEPT ![e] = Tail(@)][x] \in Seq(LineOf(x))
  <2>1. e \in net.ends /\ line[e] \in Seq(LineOf(e))
    BY <1>1, <1>5
  <2>2. Head(line[e]) \in LineOf(e) /\ Tail(line[e]) \in Seq(LineOf(e))
    BY <1>5, <2>1, Queues
  <2> QED
    BY <1>1, <2>1, <2>2
<1>6. CASE Take(e)
  <2>1. PICK s \in net.sockets : s = net.sock[e] /\ e \in net.ends
    BY <1>1, <1>6, NetFacts DEF Take
  <2>2. /\ sendq[s] # <<>> /\ sendq' = [sendq EXCEPT ![s] = Tail(@)] /\ UNCHANGED <<recvq, rawGot>>
        /\ line' = [line EXCEPT ![e] = Append(@, Head(sendq[s]))]
    BY <1>6, <2>1 DEF Take
  <2>3. PICK m : m = Head(sendq[s])
    OBVIOUS
  <2>4. m \in QueueOf(s) /\ Tail(sendq[s]) \in Seq(QueueOf(s))
    BY <1>1, <2>2, <2>3, Queues
  <2>5. m \in LineOf(e)
    BY <2>1, <2>4, WaysAre, AnyPipe DEF SendTypeToOne, SendTypeToDest
  <2>6. Append(line[e], m) \in Seq(LineOf(e))
    BY <1>1, <2>1, <2>5, Queues
  <2>7. \A x \in net.ends : line'[x] \in Seq(LineOf(x))
    BY <1>1, <2>1, <2>2, <2>3, <2>6
  <2>8. \A x \in net.sockets : sendq'[x] \in Seq(QueueOf(x))
    BY <1>1, <2>2, <2>4
  <2> QED
    BY <1>1, <1>4, <2>2, <2>7, <2>8
<1>7. CASE Arrives(e)
  <2>1. /\ e \in up /\ line[e] # <<>> /\ net.kind[e] # "raw"
        /\ line' = [line EXCEPT ![e] = Tail(@)] /\ UNCHANGED <<sendq, rawGot>>
    BY <1>7 DEF Arrives
  <2>2. PICK p, m : p = net.peer[e] /\ m = Head(line[e])
    OBVIOUS
  <2>3. p \in net.ends /\ net.sock[p] \in net.sockets /\ e \in net.ends
    BY <1>1, <2>1, <2>2, NetFacts
  <2>4. PICK r \in Receives(p, m) : IsMsg(r) /\ recvq' = [recvq EXCEPT ![net.sock[p]] = Append(@, r)]
    BY <1>7, <2>2 DEF Arrives
  <2>5. Sendable(m) /\ Leaves(net.sock[e], m) /\ Aimed(e, m)
    BY <1>5, <2>1, <2>2, WaysAre
  <2>6. Held(net.sock[p], r)
    BY <1>1, <2>1, <2>2, <2>3, <2>4, <2>5, Arrived
  <2>7. Sound(r)
    <3>1. net.kind[p] # "raw"
      BY <1>1, <2>1, <2>2, <2>3, NetFacts
    <3> QED
      BY <1>1, <2>3, <2>4, <2>5, <3>1, ReceivedIsSound
  <2>8. Append(recvq[net.sock[p]], r) \in Seq(HeldBy(net.sock[p]))
    BY <1>1, <2>3, <2>6, <2>7, WaysAre, Queues
  <2>9. \A s \in net.sockets : recvq'[s] \in Seq(HeldBy(s))
    BY <1>1, <2>3, <2>4, <2>8
  <2> QED
    BY <1>1, <1>4, <1>5, <2>1, <2>9
<1>8. CASE ReceiverFails(e)
  <2>1. e \in up /\ e \in net.ends /\ line[e] # <<>> /\ net.kind[e] # "raw" /\ UNCHANGED <<recvq, rawGot>>
    BY <1>1, <1>8 DEF ReceiverFails
  <2>2. CASE Broken(e)
    BY <1>1, <1>4, <2>1, <2>2, BrokenPath
  <2>3. CASE ~Broken(e)
    <3>1. line' = [line EXCEPT ![e] = Tail(@)] /\ sendq' = sendq
      BY <1>8, <2>3 DEF ReceiverFails
    <3> QED
      BY <1>1, <1>4, <1>5, <2>1, <3>1
  <2> QED
    BY <2>2, <2>3
<1>9. CASE Ignores(e)
  BY <1>1, <1>4, <1>5, <1>9 DEF Ignores
<1>10. CASE RawArrives(e)
  <2>1. /\ e \in up /\ line[e] # <<>> /\ net.kind[e] = "raw" /\ line' = [line EXCEPT ![e] = Tail(@)]
        /\ rawGot' = rawGot \cup {<<e, Head(line[e]).content>>} /\ UNCHANGED <<sendq, recvq>>
    BY <1>10 DEF RawArrives
  <2>2. PICK m : m = Head(line[e])
    OBVIOUS
  <2>3. e \in net.ends /\ Sendable(m) /\ Leaves(net.sock[e], m) /\ Aimed(e, m)
    BY <1>5, <2>1, <2>2, WaysAre
  <2>4. m.dest \in Seq(Letters)
    BY <2>3 DEF Sendable, Sound, Mail
  <2>5. ASSUME Wired, Len(m.content) = 2 PROVE Asker(m.content) = e
    <3>1. Leads(net.sock[e], m.dest, Asker(m.content)) /\ net.id[e] = m.dest[1]
      BY <2>3, <2>5 DEF Leaves, Aimed, IsReply
    <3>2. PICK x, d : x = Asker(m.content) /\ d = m.dest /\ d \in Seq(Letters)
      BY <2>4
    <3>3. NetOK /\ e \in net.ends /\ net.kind[e] = "raw" /\ Leads(net.sock[e], d, x) /\ net.id[e] = d[1]
      BY <1>1, <2>1, <2>3, <3>1, <3>2
    <3>4. x = e
      BY ONLY <3>2, <3>3, Rest, Zenon
    <3> QED
      BY <3>2, <3>4
  <2>6. \A g \in rawGot' : Wired /\ Len(g[2]) = 2 => Asker(g[2]) = g[1]
    <3> TAKE g \in rawGot'
    <3>1. CASE g \in rawGot
      BY <1>1, <3>1
    <3>2. CASE g = <<e, m.content>>
      BY <2>5, <3>2
    <3> QED
      BY <2>1, <2>2, <3>1, <3>2
  <2> QED
    BY <1>1, <1>4, <1>5, <2>1, <2>6
<1>11. ASSUME e \in net.ends, net.kind[e] = "raw", NEW c \in Seq(Letters), c = <<>> \/ c = Request(e),
              recvq' = [recvq EXCEPT ![net.sock[e]] = Append(@, NewRawRecvMessage(net.id[e], c))]
       PROVE  \A s \in net.sockets : recvq'[s] \in Seq(HeldBy(s))
  <2>1. PICK m : m = NewRawRecvMessage(net.id[e], c)
    OBVIOUS
  <2>2. PICK t \in net.sockets : t = net.sock[e]
    BY <1>1, <1>11, NetFacts
  <2>3. m \in HeldBy(t)
    BY <1>1, <1>11, <2>1, <2>2, RawIsSound, RawIsHeld, WaysAre
  <2>4. Append(recvq[t], m) \in Seq(HeldBy(t))
    BY <1>1, <2>3, Queues
  <2> QED
    BY <1>1, <1>11, <2>1, <2>2, <2>4
<1>12. CASE RawRecv(e)
  <2>1. e \in net.ends /\ net.kind[e] = "raw" /\ UNCHANGED <<line, sendq, rawGot>>
    BY <1>1, <1>12 DEF RawRecv
  <2>2. PICK c : /\ c = IF <<e, "open">> \in sent THEN Request(e) ELSE <<>>
                 /\ recvq' = [recvq EXCEPT ![net.sock[e]] = Append(@, NewRawRecvMessage(net.id[e], c))]
    BY <1>12 DEF RawRecv
  <2>3. c \in Seq(Letters)
    <3>1. e \in Letters
      BY <2>1 DEF Letters
    <3>2. <<>> \in Seq(Letters) /\ <<e>> \in Seq(Letters)
      BY <3>1
    <3> QED
      BY <2>2, <3>2 DEF Request
  <2>4. \A s \in net.sockets : recvq'[s] \in Seq(HeldBy(s))
    BY <1>11, <2>1, <2>2, <2>3
  <2> QED
    BY <1>1, <1>4, <2>1, <2>4
<1>13. CASE RawEOF(e)
  <2>1. e \in net.ends /\ net.kind[e] = "raw" /\ UNCHANGED <<line, sendq, rawGot>> /\ <<>> \in Seq(Letters)
    BY <1>1, <1>13 DEF RawEOF
  <2>2. recvq' = [recvq EXCEPT ![net.sock[e]] = Append(@, NewRawRecvMessage(net.id[e], <<>>))]
    BY <1>13 DEF RawEOF
  <2>3. \A s \in net.sockets : recvq'[s] \in Seq(HeldBy(s))
    BY <1>11, <2>1, <2>2
  <2> QED
    BY <1>1, <1>4, <2>1, <2>3
<1>14. CASE Leave(e)
  <2>1. e \in net.ends /\ net.kind[e] # "raw" /\ Broken(e) /\ UNCHANGED <<recvq, rawGot>>
    BY <1>1, <1>14, TheNet DEF Leave
  <2> QED
    BY <1>1, <1>4, <2>1, BrokenPath
<1> QED
  BY <1>6, <1>7, <1>8, <1>9, <1>10, <1>12, <1>13, <1>14 DEF EndNext

\* The steps of applications and forward loops.
LEMMA SocketPath ==
    ASSUME PathInv, NEW s \in Sockets, SocketNext(s) \/ \E t \in SendTypes : AppSends(s, t)
    PROVE  PathInv'
<1>1. /\ MailInv /\ NetOK
      /\ DOMAIN line = net.ends /\ DOMAIN sendq = net.sockets /\ DOMAIN recvq = net.sockets
      /\ \A x \in net.sockets : recvq[x] \in Seq(HeldBy(x)) /\ sendq[x] \in Seq(QueueOf(x))
      /\ \A e \in net.ends : line[e] \in Seq(LineOf(e))
      /\ \A g \in got : net.twin[g[1]] = None /\ g[2] \in HeldBy(g[1])
      /\ \A g \in rawGot : Wired /\ Len(g[2]) = 2 => Asker(g[2]) = g[1]
  BY PathFacts
<1>2. MailInv'
  BY <1>1, SocketStep
<1>3. net' = net /\ rawGot' = rawGot
  BY DEF SocketNext, Forward, ForwardEnds, AppReceives, AppSends
<1>4. ASSUME \A x \in net.sockets : recvq'[x] \in Seq(HeldBy(x)),
             \A x \in net.sockets : sendq'[x] \in Seq(QueueOf(x)),
             \A e \in net.ends : line'[e] \in Seq(LineOf(e)),
             \A g \in got' : net.twin[g[1]] = None /\ g[2] \in HeldBy(g[1])
      PROVE  PathInv'
  BY <1>1, <1>2, <1>3, <1>4, PathKeeps
<1>5. ASSUME NEW t \in SendTypes, AppSends(s, t) PROVE PathInv'
  <2>1. s \in net.sockets /\ t \in net.sends[s] /\ UNCHANGED <<recvq, got>>
    BY <1>5 DEF AppSends
  <2>2. PICK m : m = NewSendMessage(FALSE, t, net.ttl, <<>>, <<>>, Request(s))
    OBVIOUS
  <2>3. ByType(s, m)
    BY <1>5, <2>2 DEF AppSends
  <2>4. m.source = <<>> /\ m.content = Request(s)
    BY <2>2 DEF NewSendMessage
  <2>5. Leaves(s, m)
    BY <1>1, <2>1, <2>4, SentLeaves
  <2>6. Sound(m) /\ m.ttl >= 1
    <3>1. s \in Letters
      BY <2>1 DEF Letters
    <3>2. <<>> \in Seq(Letters) /\ Len(<<>>) \in Byte /\ Request(s) \in Seq(Letters)
      BY <3>1, ByteDef DEF Request
    <3>3. PICK d, c : d = <<>> /\ c = Request(s)
      OBVIOUS
    <3>4. m = Fresh(t, d, c)
      BY ONLY <2>2, <3>3, Zenon DEF Fresh
    <3>5. NetOK /\ d \in Seq(Letters) /\ Len(d) \in Byte /\ c \in Seq(Letters)
      BY <1>1, <3>2, <3>3
    <3> HIDE <2>2
    <3> QED
      BY <3>4, <3>5, FreshIsSound
  <2> HIDE <2>2
  <2>7. /\ \A x \in net.sockets : sendq'[x] \in Seq(QueueOf(x))
        /\ \A e \in net.ends : line'[e] \in Seq(LineOf(e))
    BY <2>1, <2>3, <2>5, <2>6, ByTypePath
  <2> QED
    BY <1>1, <1>4, <2>1, <2>7
<1>6. ASSUME s \in net.sockets, recvq[s] # <<>>
      PROVE  /\ Head(recvq[s]) \in HeldBy(s)
             /\ \A x \in net.sockets : [recvq EXCEPT ![s] = Tail(@)][x] \in Seq(HeldBy(x))
  <2>1. Head(recvq[s]) \in HeldBy(s) /\ Tail(recvq[s]) \in Seq(HeldBy(s))
    BY <1>1, <1>6, Queues
  <2> QED
    BY <1>1, <1>6, <2>1
<1>7. ASSUME NEW x \in net.sockets, net.mate[x] # None, s \in net.sockets, recvq[s] # <<>>, NEW m \in HeldBy(net.mate[x]),
             PairSendMsg(x, m, s)
      PROVE  (\A z \in net.sockets : recvq'[z] \in Seq(HeldBy(z))) /\ UNCHANGED <<line, sendq>>
  <2>1. PICK y \in net.sockets : y = net.mate[x]
    BY <1>1, <1>7, NetFacts
  <2>2. PICK q : q = [recvq EXCEPT ![s] = Tail(@)]
    OBVIOUS
  <2>3. DOMAIN q = net.sockets /\ \A z \in net.sockets : q[z] \in Seq(HeldBy(z))
    BY <1>1, <1>6, <1>7, <2>2
  <2>4. recvq' = [q EXCEPT ![y] = Append(@, m)] /\ UNCHANGED <<line, sendq>>
    BY <1>7, <2>1, <2>2 DEF PairSendMsg
  <2>5. Append(q[y], m) \in Seq(HeldBy(y))
    BY <1>7, <2>1, <2>3, Queues
  <2> QED
    BY <2>3, <2>4, <2>5
<1>8. CASE Forward(s)
  <2>1. PICK t, m : t = net.twin[s] /\ m = Head(recvq[s])
    OBVIOUS
  <2>2. s \in net.sockets /\ recvq[s] # <<>> /\ t # None /\ t \in net.sockets /\ got' = got
    <3>1. s \in forwards /\ recvq[s] # <<>> /\ got' = got
      BY <1>8 DEF Forward
    <3>2. s \in net.sockets /\ t # None
      BY <1>1, <2>1, <3>1 DEF MailInv
    <3> QED
      BY <1>1, <2>1, <3>1, <3>2, NetFacts
  <2>3. m \in HeldBy(s) /\ Sound(m) /\ Held(s, m)
    BY <1>6, <2>1, <2>2, WaysAre
  <2>4. /\ net.mate[t] = None => Leaves(t, m)
        /\ net.mate[t] # None => Held(net.mate[t], m)
    BY <1>1, <2>1, <2>2, <2>3, Forwarded
  <2>5. CASE net.mate[t] = None /\ SocketSendMsg(t, m, s)
    <3>1. \A x \in net.sockets : recvq'[x] \in Seq(HeldBy(x))
      BY <1>6, <2>2, <2>5 DEF SocketSendMsg
    <3>2. /\ \A x \in net.sockets : sendq'[x] \in Seq(QueueOf(x))
          /\ \A e \in net.ends : line'[e] \in Seq(LineOf(e))
      <4>1. CASE m.ttl = 0
        BY <1>1, <2>5, <4>1 DEF SocketSendMsg
      <4>2. CASE m.ttl # 0
        <5>1. m.ttl \in Nat
          BY <2>3, ByteDef DEF Sound, Mail
        <5>2. m.ttl >= 1
          BY ONLY <4>2, <5>1
        <5> QED
          BY <2>2, <2>3, <2>4, <2>5, <4>2, <5>2, ByTypePath DEF SocketSendMsg
      <4> QED
        BY <4>1, <4>2
    <3> QED
      BY <1>1, <1>4, <2>2, <3>1, <3>2
  <2>6. CASE net.mate[t] # None /\ PairSendMsg(t, m, s)
    <3>1. m \in HeldBy(net.mate[t])
      BY <2>3, <2>4, <2>6, WaysAre
    <3> QED
      BY <1>1, <1>4, <1>7, <2>2, <2>6, <3>1
  <2> QED
    BY <1>8, <2>1, <2>5, <2>6 DEF Forward
<1>9. CASE ForwardEnds(s)
  <2>1. /\ s \in net.sockets /\ recvq[s] # <<>> /\ UNCHANGED <<line, sendq, got>>
        /\ recvq' = [recvq EXCEPT ![s] = Tail(@)]
    BY <1>1, <1>9 DEF ForwardEnds, MailInv
  <2> QED
    BY <1>1, <1>4, <1>6, <2>1
<1>10. CASE AppReceives(s)
  <2>1. s \in net.sockets /\ recvq[s] # <<>> /\ net.twin[s] = None
    BY <1>10 DEF AppReceives
  <2>2. PICK m : m = Head(recvq[s])
    OBVIOUS
  <2>3. m \in HeldBy(s) /\ Sound(m) /\ Held(s, m)
    BY <1>6, <2>1, <2>2, WaysAre
  <2>4. PICK reply : reply = NewSendMessage(FALSE, SendTypeToDest, net.ttl, <<>>, m.source, <<Reply, Asker(m.content)>>)
    OBVIOUS
  <2>5. /\ got' = got \cup {<<s, m>>}
        /\ \/ IsRequest(m) /\ net.mate[s] = None /\ ToDest(s, reply) /\ recvq' = [recvq EXCEPT ![s] = Tail(@)]
           \/ IsRequest(m) /\ net.mate[s] # None /\ PairSendMsg(s, reply, s)
           \/ recvq' = [recvq EXCEPT ![s] = Tail(@)] /\ UNCHANGED <<line, sendq>>
    BY <1>10, <2>2, <2>4 DEF AppReceives
  <2>6. \A g \in got' : net.twin[g[1]] = None /\ g[2] \in HeldBy(g[1])
    BY <1>1, <2>1, <2>3, <2>5
  <2>7. ASSUME IsRequest(m)
        PROVE  /\ Sound(reply) /\ reply.ttl >= 1 /\ reply.type = SendTypeToDest
               /\ net.mate[s] = None => Leaves(s, reply)
               /\ net.mate[s] # None => Held(net.mate[s], reply)
    <3>1. PICK d, c : d = m.source /\ c = <<Reply, Asker(m.content)>>
      OBVIOUS
    <3>2. d \in Seq(Letters) /\ Len(d) \in Byte
      BY <2>3, <3>1 DEF Sound, Mail
    <3>3. m.content \in Seq(Letters) /\ Len(m.content) = 1
      BY <2>3, <2>7 DEF Sound, Mail, IsRequest
    <3>4. Asker(m.content) \in Letters /\ Reply \in Letters
      <4>1. m.content[Len(m.content)] \in Letters
        BY <3>3
      <4> QED
        BY <4>1 DEF Asker, Letters
    <3>5. c \in Seq(Letters) /\ SendTypeToDest \in SendTypes
      BY <3>1, <3>4 DEF SendTypes
    <3>6. reply = Fresh(SendTypeToDest, d, c)
      BY ONLY <2>4, <3>1, Zenon DEF Fresh
    <3> HIDE <2>4
    <3>7. Sound(reply) /\ reply.ttl >= 1 /\ reply.type = SendTypeToDest /\ reply.dest = d /\ reply.content = c
      <4>1. NetOK
        BY <1>1
      <4> QED
        BY <4>1, <3>2, <3>5, <3>6, FreshIsSound
    <3> HIDE <3>6
    <3>9. reply.type = SendTypeToDest /\ reply.dest = m.source /\ reply.content = <<Reply, Asker(m.content)>>
      BY ONLY <3>1, <3>7
    <3>10. /\ net.mate[s] = None => Leaves(s, reply)
           /\ net.mate[s] # None => Held(net.mate[s], reply)
      BY <1>1, <2>1, <2>3, <2>7, <3>9, Answers
    <3> QED
      BY <3>7, <3>10
  <2> HIDE <2>4
  <2>8. CASE IsRequest(m) /\ net.mate[s] = None /\ ToDest(s, reply) /\ recvq' = [recvq EXCEPT ![s] = Tail(@)]
    <3>1. Sound(reply) /\ reply.ttl >= 1 /\ Leaves(s, reply) /\ ByType(s, reply)
      BY <2>7, <2>8 DEF ByType
    <3>2. /\ \A x \in net.sockets : sendq'[x] \in Seq(QueueOf(x))
          /\ \A e \in net.ends : line'[e] \in Seq(LineOf(e))
      BY <2>1, <3>1, ByTypePath
    <3> QED
      BY <1>4, <1>6, <2>1, <2>6, <2>8, <3>2
  <2>9. CASE IsRequest(m) /\ net.mate[s] # None /\ PairSendMsg(s, reply, s)
    <3>1. reply \in HeldBy(net.mate[s])
      BY <2>7, <2>9, WaysAre
    <3> QED
      BY <1>1, <1>4, <1>7, <2>1, <2>6, <2>9, <3>1
  <2>10. CASE recvq' = [recvq EXCEPT ![s] = Tail(@)] /\ UNCHANGED <<line, sendq>>
    BY <1>1, <1>4, <1>6, <2>1, <2>6, <2>10
  <2> QED
    BY <2>5, <2>8, <2>9, <2>10
<1> QED
  BY <1>5, <1>8, <1>9, <1>10 DEF SocketNext

-----------------------------------------------------------------------------
(* The theorems *)

LEMMA PathInitially == Init => PathInv
<1> SUFFICES ASSUME Init PROVE PathInv
  OBVIOUS
<1>1. MailInv
  BY MailInitially
<1>2. /\ line = [e \in net.ends |-> <<>>] /\ sendq = [s \in net.sockets |-> <<>>]
      /\ recvq = [s \in net.sockets |-> <<>>] /\ got = {} /\ rawGot = {}
  BY DEF Init
<1>3. \A S : <<>> \in Seq(S)
  OBVIOUS
<1> QED
  BY <1>1, <1>2, <1>3 DEF PathInv

LEMMA PathStays == PathInv /\ [Next]_vars => PathInv'
<1> SUFFICES ASSUME PathInv, [Next]_vars PROVE PathInv'
  OBVIOUS
<1>1. CASE UNCHANGED vars
  <2>1. UNCHANGED <<net, line, sendq, recvq, got, rawGot>>
    BY <1>1 DEF vars
  <2>2. MailInv'
    BY MailStays DEF PathInv
  <2> QED
    BY <2>1, <2>2, PathFacts, PathKeeps
<1>2. CASE Next
  BY <1>2, EndPath, SocketPath DEF Next
<1> QED
  BY <1>1, <1>2

LEMMA PathAlways == Spec => []PathInv
BY PathInitially, PathStays, PTL DEF Spec

(* The source of every request that an application has received leads back to  *)
(* who asked: each receiver has put the id of its pipe before it, whatever     *)
(* switches, pairs and kinds of connection the request came over.              *)
THEOREM RequestsLeadHome == Spec => []SourceLeadsHome
<1>1. PathInv => SourceLeadsHome
  <2> SUFFICES ASSUME PathInv, NEW g \in got, IsRequest(g[2]) PROVE Walk(g[1], g[2].source) = Asker(g[2].content)
    BY DEF SourceLeadsHome
  <2>1. NetOK /\ Held(g[1], g[2])
    BY PathFacts, WaysAre
  <2>2. Leads(PathStart(g[1]), g[2].source, Asker(g[2].content))
    BY <2>1 DEF Held
  <2> QED
    BY <2>1, <2>2, WalkFollows
<1> QED
  BY <1>1, PathAlways, PTL

(* An answer sent with SendTo to the source of a request is received by who    *)
(* asked, by nobody else, and with no destination left.  No direct connection  *)
(* may lead to a socket of a switch: NewMessageFromMsg loses the rest of the   *)
(* destination, and the answer goes wherever the recycled buffer says.         *)
THEOREM AnswersReachRequesters ==
    ASSUME \A n \in Nets : \A e \in n.ends : n.kind[e] = "direct" => n.twin[n.sock[e]] = None
    PROVE  Spec => []ReplyReachesRequester
<1>1. PathInv => ReplyReachesRequester
  <2> SUFFICES ASSUME PathInv PROVE ReplyReachesRequester
    OBVIOUS
  <2>1. NetOK /\ Wired
    BY PathFacts DEF NetOK, Wired
  <2>2. ASSUME NEW g \in got, IsReply(g[2]) PROVE Asker(g[2].content) = g[1] /\ g[2].distance = 0
    <3>1. g[1] \in net.sockets /\ net.twin[g[1]] = None /\ Sound(g[2]) /\ Held(g[1], g[2])
      BY PathFacts, WaysAre DEF MailInv
    <3>2. Follows(g[1], g[2].dest, Asker(g[2].content))
      BY <2>1, <2>2, <3>1 DEF Held
    <3>3. GoesOn(g[1]) = None
      BY <2>1, <3>1, EndsHere
    <3>4. g[2].dest = <<>> /\ Asker(g[2].content) = g[1]
      BY <2>1, <3>2, <3>3, NoWay DEF Follows
    <3>5. g[2].distance = Len(g[2].dest)
      BY <3>1 DEF Sound
    <3> QED
      BY <3>4, <3>5
  <2>3. \A g \in rawGot : Len(g[2]) = 2 => Asker(g[2]) = g[1]
    BY <2>1, PathFacts
  <2> QED
    BY <2>2, <2>3 DEF ReplyReachesRequester
<1> QED
  BY <1>1, PathAlways, PTL
=============================================================================
