--------------------------- MODULE BuffersProofs ---------------------------
(***************************************************************************)
(* Who owns the pooled memory, for every number of pipes, structs and      *)
(* buffers: what the pools can give out and what each queue, sender,       *)
(* connection, receiver and user holds are disjoint sets, and every step   *)
(* hands over what one owner had to another.                               *)
(***************************************************************************)
EXTENDS Buffers, FiniteSetTheorems, TLAPS

\* the provers, in the order in which they are tried
USE ZenonT(3), SMT, ZenonT(20), Z3

-----------------------------------------------------------------------------
(* Queues *)

\* what a queue of messages holds, and that no two of them share memory
MsgsHold(q) == UNION {Parts(q[k]) : k \in 1 .. Len(q)}
MsgsApart(q) == \A i, j \in 1 .. Len(q) : i # j => Parts(q[i]) \cap Parts(q[j]) = {}

\* the same for what is handed over on a connection
SetsHold(q) == UNION {q[k] : k \in 1 .. Len(q)}
SetsApart(q) == \A i, j \in 1 .. Len(q) : i # j => q[i] \cap q[j] = {}

LEMMA MsgsAppend ==
    ASSUME NEW q \in Seq(Messages), NEW m \in Messages, MsgsApart(q), MsgsHold(q) \cap Parts(m) = {}
    PROVE  /\ Append(q, m) \in Seq(Messages) /\ MsgsApart(Append(q, m))
           /\ MsgsHold(Append(q, m)) = MsgsHold(q) \cup Parts(m)
<1> DEFINE a == Append(q, m)
<1>1. /\ a \in Seq(Messages) /\ Len(a) = Len(q) + 1 /\ Len(q) \in Nat
      /\ \A k \in 1 .. Len(q) : a[k] = q[k]
      /\ a[Len(q) + 1] = m
  OBVIOUS
<1>2. \A k \in 1 .. Len(a) : k \in 1 .. Len(q) \/ k = Len(q) + 1
  BY <1>1
<1>3. \A k \in 1 .. Len(q) : k \in 1 .. Len(a) /\ Parts(a[k]) = Parts(q[k]) /\ Parts(q[k]) \cap Parts(m) = {}
  BY <1>1 DEF MsgsHold
<1>4. Len(q) + 1 \in 1 .. Len(a)
  BY <1>1
<1> HIDE DEF a
<1>5. MsgsApart(a)
  <2> SUFFICES ASSUME NEW i \in 1 .. Len(a), NEW j \in 1 .. Len(a), i # j
               PROVE  Parts(a[i]) \cap Parts(a[j]) = {}
    BY DEF MsgsApart
  <2>1. CASE i \in 1 .. Len(q) /\ j \in 1 .. Len(q)
    BY <1>3, <2>1 DEF MsgsApart
  <2>2. CASE i = Len(q) + 1 \/ j = Len(q) + 1
    BY <1>1, <1>2, <1>3, <2>2
  <2> QED
    BY <1>2, <2>1, <2>2
<1>6. MsgsHold(a) = MsgsHold(q) \cup Parts(m)
  BY <1>1, <1>2, <1>3, <1>4 DEF MsgsHold
<1> QED
  BY <1>1, <1>5, <1>6 DEF a

LEMMA MsgsTail ==
    ASSUME NEW q \in Seq(Messages), q # <<>>, MsgsApart(q)
    PROVE  /\ Head(q) \in Messages /\ Tail(q) \in Seq(Messages) /\ MsgsApart(Tail(q))
           /\ Parts(Head(q)) \subseteq MsgsHold(q)
           /\ MsgsHold(Tail(q)) = MsgsHold(q) \ Parts(Head(q))
<1> DEFINE t == Tail(q)
<1>1. /\ t \in Seq(Messages) /\ Len(q) \in Nat /\ Len(q) >= 1 /\ Len(t) = Len(q) - 1
      /\ \A k \in 1 .. Len(t) : t[k] = q[k + 1]
      /\ Head(q) = q[1] /\ q[1] \in Messages
  OBVIOUS
<1>2. \A k \in 1 .. Len(t) : k + 1 \in 1 .. Len(q) /\ k + 1 # 1 /\ k \in Nat
  BY <1>1
<1>3. \A k \in 1 .. Len(q) : k = 1 \/ (k - 1 \in 1 .. Len(t) /\ q[k] = t[k - 1])
  BY <1>1
<1>4. 1 \in 1 .. Len(q)
  BY <1>1
<1> HIDE DEF t
<1>5. MsgsApart(t)
  <2> SUFFICES ASSUME NEW i \in 1 .. Len(t), NEW j \in 1 .. Len(t), i # j
               PROVE  Parts(t[i]) \cap Parts(t[j]) = {}
    BY DEF MsgsApart
  <2>1. i + 1 # j + 1
    BY <1>2
  <2> QED
    BY <1>1, <1>2, <2>1 DEF MsgsApart
<1>6. \A k \in 1 .. Len(t) : Parts(t[k]) \cap Parts(q[1]) = {} /\ Parts(t[k]) \subseteq MsgsHold(q)
  BY <1>1, <1>2, <1>4 DEF MsgsApart, MsgsHold
<1>7. MsgsHold(t) = MsgsHold(q) \ Parts(q[1])
  <2>1. MsgsHold(t) \subseteq MsgsHold(q) \ Parts(q[1])
    BY <1>6 DEF MsgsHold
  <2>2. ASSUME NEW r, r \in MsgsHold(q), r \notin Parts(q[1]) PROVE r \in MsgsHold(t)
    <3>1. PICK k \in 1 .. Len(q) : r \in Parts(q[k])
      BY <2>2 DEF MsgsHold
    <3>2. k - 1 \in 1 .. Len(t) /\ r \in Parts(t[k - 1])
      BY <1>3, <2>2, <3>1
    <3> QED
      BY <3>2 DEF MsgsHold
  <2> QED
    BY <2>1, <2>2
<1>8. Parts(q[1]) \subseteq MsgsHold(q)
  BY <1>4 DEF MsgsHold
<1> QED
  BY <1>1, <1>5, <1>7, <1>8 DEF t

LEMMA SetsAppend ==
    ASSUME NEW q \in Seq(SUBSET Resources), NEW s \in SUBSET Resources, SetsApart(q), SetsHold(q) \cap s = {}
    PROVE  /\ Append(q, s) \in Seq(SUBSET Resources) /\ SetsApart(Append(q, s))
           /\ SetsHold(Append(q, s)) = SetsHold(q) \cup s
<1> DEFINE a == Append(q, s)
<1>1. /\ a \in Seq(SUBSET Resources) /\ Len(a) = Len(q) + 1 /\ Len(q) \in Nat
      /\ \A k \in 1 .. Len(q) : a[k] = q[k]
      /\ a[Len(q) + 1] = s
  OBVIOUS
<1>2. \A k \in 1 .. Len(a) : k \in 1 .. Len(q) \/ k = Len(q) + 1
  BY <1>1
<1>3. \A k \in 1 .. Len(q) : k \in 1 .. Len(a) /\ a[k] = q[k] /\ q[k] \cap s = {}
  BY <1>1 DEF SetsHold
<1>4. Len(q) + 1 \in 1 .. Len(a)
  BY <1>1
<1> HIDE DEF a
<1>5. SetsApart(a)
  BY <1>1, <1>2, <1>3 DEF SetsApart
<1>6. SetsHold(a) = SetsHold(q) \cup s
  BY <1>1, <1>2, <1>3, <1>4 DEF SetsHold
<1> QED
  BY <1>1, <1>5, <1>6 DEF a

LEMMA SetsTail ==
    ASSUME NEW q \in Seq(SUBSET Resources), q # <<>>, SetsApart(q)
    PROVE  /\ Head(q) \in SUBSET Resources /\ Tail(q) \in Seq(SUBSET Resources) /\ SetsApart(Tail(q))
           /\ Head(q) \subseteq SetsHold(q)
           /\ SetsHold(Tail(q)) = SetsHold(q) \ Head(q)
<1> DEFINE t == Tail(q)
<1>1. /\ t \in Seq(SUBSET Resources) /\ Len(q) \in Nat /\ Len(q) >= 1 /\ Len(t) = Len(q) - 1
      /\ \A k \in 1 .. Len(t) : t[k] = q[k + 1]
      /\ Head(q) = q[1] /\ q[1] \in SUBSET Resources
  OBVIOUS
<1>2. \A k \in 1 .. Len(t) : k + 1 \in 1 .. Len(q) /\ k + 1 # 1 /\ k \in Nat
  BY <1>1
<1>3. \A k \in 1 .. Len(q) : k = 1 \/ (k - 1 \in 1 .. Len(t) /\ q[k] = t[k - 1])
  BY <1>1
<1>4. 1 \in 1 .. Len(q)
  BY <1>1
<1> HIDE DEF t
<1>5. SetsApart(t)
  <2> SUFFICES ASSUME NEW i \in 1 .. Len(t), NEW j \in 1 .. Len(t), i # j
               PROVE  t[i] \cap t[j] = {}
    BY DEF SetsApart
  <2>1. i + 1 # j + 1
    BY <1>2
  <2> QED
    BY <1>1, <1>2, <2>1 DEF SetsApart
<1>6. \A k \in 1 .. Len(t) : t[k] \cap q[1] = {} /\ t[k] \subseteq SetsHold(q)
  BY <1>1, <1>2, <1>4 DEF SetsApart, SetsHold
<1>7. SetsHold(t) = SetsHold(q) \ q[1]
  <2>1. SetsHold(t) \subseteq SetsHold(q) \ q[1]
    BY <1>6 DEF SetsHold
  <2>2. ASSUME NEW r, r \in SetsHold(q), r \notin q[1] PROVE r \in SetsHold(t)
    <3>1. PICK k \in 1 .. Len(q) : r \in q[k]
      BY <2>2 DEF SetsHold
    <3>2. k - 1 \in 1 .. Len(t) /\ r \in t[k - 1]
      BY <1>3, <2>2, <3>1
    <3> QED
      BY <3>2 DEF SetsHold
  <2> QED
    BY <2>1, <2>2
<1>8. q[1] \subseteq SetsHold(q)
  BY <1>4 DEF SetsHold
<1> QED
  BY <1>1, <1>5, <1>7, <1>8 DEF t
-----------------------------------------------------------------------------
(* The pools *)

\* what Get may return
Free == {r \in Resources : pool[r] = 1}

LEMMA PartsOfMessage ==
    \A m \in Messages : /\ Parts(m) \subseteq Resources /\ m.obj \in Resources /\ m.buf \in Resources
                        /\ m.obj # m.buf /\ Parts(m) = {m.obj, m.buf}
  BY BuffersAssumption DEF Messages, Parts, Resources

LEMMA AllocsTakes ==
    ASSUME pool \in [Resources -> {0, 1}], NEW m \in Messages, Allocs(m)
    PROVE  pool' \in [Resources -> {0, 1}] /\ Free' = Free \ Parts(m) /\ Parts(m) \subseteq Free
<1>1. \A r \in Parts(m) : r \in Resources /\ pool[r] = 1
  BY PartsOfMessage DEF Allocs, FirstOf, Allocatable
<1>2. pool' = [r \in Resources |-> IF r \in Parts(m) THEN pool[r] - 1 ELSE pool[r]]
  BY DEF Allocs
<1>3. \A r \in Resources : pool'[r] = IF r \in Parts(m) THEN 0 ELSE pool[r]
  BY <1>1, <1>2
<1>4. pool' \in [Resources -> {0, 1}]
  BY <1>2, <1>3
<1> QED
  BY <1>1, <1>3, <1>4 DEF Free

\* Put, or what the runtime collects and New makes again
LEMMA PutGives ==
    ASSUME pool \in [Resources -> {0, 1}], NEW rs, rs \subseteq Resources, rs \cap Free = {},
           pool' = [r \in Resources |-> IF r \in rs THEN pool[r] + 1 ELSE pool[r]]
    PROVE  pool' \in [Resources -> {0, 1}] /\ Free' = Free \cup rs
<1>1. \A r \in rs : r \in Resources /\ pool[r] = 0
  BY DEF Free
<1>2. \A r \in Resources : pool'[r] = IF r \in rs THEN 1 ELSE pool[r]
  BY <1>1
<1>3. pool' \in [Resources -> {0, 1}]
  BY <1>2
<1> QED
  BY <1>1, <1>2, <1>3 DEF Free

-----------------------------------------------------------------------------
(* Owners *)

\* who can own memory: the pools, the calls, the queues, the users, and per
\* pipe its queue, its sender, its connection and its receiving end
Owners == ({"pool", "out", "socketq", "inbox"} \X {0}) \cup ({"ownq", "dues", "wire", "last"} \X Outs)

own ==
    [h \in Owners |->
        CASE h[1] = "pool" -> Free
          [] h[1] = "out" -> MsgsHold(out)
          [] h[1] = "socketq" -> MsgsHold(socketq)
          [] h[1] = "inbox" -> UNION {Parts(m) : m \in inbox}
          [] h[1] = "ownq" -> MsgsHold(ownq[h[2]])
          [] h[1] = "dues" -> dues[h[2]]
          [] h[1] = "wire" -> SetsHold(wire[h[2]])
          [] h[1] = "last" -> last[h[2]]]

\* no two owners own the same
Disjoint(f) == \A g, h \in Owners : g # h => f[g] \cap f[h] = {}

BufType ==
    /\ ckind \in [Outs -> {"copy", "bytes", "msgs"}]
    /\ pool \in [Resources -> {0, 1}]
    /\ out \in Seq(Messages) /\ Len(out) <= 1
    /\ socketq \in Seq(Messages) /\ inbox \subseteq Messages
    /\ ownq \in [Outs -> Seq(Messages)]
    /\ wire \in [Outs -> Seq(SUBSET Resources)]
    /\ dues \in [Outs -> SUBSET Resources] /\ last \in [Outs -> SUBSET Resources]

\* no owner has the same twice
BufApart ==
    /\ MsgsApart(out) /\ MsgsApart(socketq)
    /\ \A p \in Outs : MsgsApart(ownq[p]) /\ SetsApart(wire[p])
    /\ \A m, n \in inbox : m # n => Parts(m) \cap Parts(n) = {}

BufInv == BufType /\ BufApart /\ Disjoint(own)

\* The owners in K pass on what they had among themselves, and the others get nothing.
LEMMA HandOver ==
    ASSUME NEW f, NEW g, Disjoint(f), NEW K, K \subseteq Owners,
           \A h \in Owners \ K : g[h] \subseteq f[h],
           \A h \in K : \A r \in g[h] : \E k \in K : r \in f[k],
           \A h, k \in K : h # k => g[h] \cap g[k] = {}
    PROVE  Disjoint(g)
<1> SUFFICES ASSUME NEW x \in Owners, NEW y \in Owners, x # y, NEW r, r \in g[x], r \in g[y]
             PROVE  FALSE
  BY DEF Disjoint
<1>1. CASE x \in K /\ y \in K
  BY <1>1
<1>2. CASE x \in K /\ y \notin K
  BY <1>2 DEF Disjoint
<1>3. CASE x \notin K /\ y \in K
  BY <1>3 DEF Disjoint
<1>4. CASE x \notin K /\ y \notin K
  BY <1>4 DEF Disjoint
<1> QED
  BY <1>1, <1>2, <1>3, <1>4

OwnersAre ==
    /\ own[<<"pool", 0>>] = Free /\ own[<<"out", 0>>] = MsgsHold(out) /\ own[<<"socketq", 0>>] = MsgsHold(socketq)
    /\ own[<<"inbox", 0>>] = UNION {Parts(m) : m \in inbox}
    /\ \A p \in Outs : /\ own[<<"ownq", p>>] = MsgsHold(ownq[p]) /\ own[<<"dues", p>>] = dues[p]
                       /\ own[<<"wire", p>>] = SetsHold(wire[p]) /\ own[<<"last", p>>] = last[p]

LEMMA OwnersListed ==
    /\ {<<"pool", 0>>, <<"out", 0>>, <<"socketq", 0>>, <<"inbox", 0>>} \subseteq Owners
    /\ \A p \in Outs : {<<"ownq", p>>, <<"dues", p>>, <<"wire", p>>, <<"last", p>>} \subseteq Owners
    /\ \A h \in Owners : \/ h \in {<<"pool", 0>>, <<"out", 0>>, <<"socketq", 0>>, <<"inbox", 0>>}
                         \/ \E p \in Outs : h \in {<<"ownq", p>>, <<"dues", p>>, <<"wire", p>>, <<"last", p>>}
  BY DEF Owners

LEMMA OwnersKnown == OwnersAre /\ OwnersAre'
<1>1. OwnersAre
  BY OwnersListed DEF OwnersAre, own
<1>2. OwnersAre'
  BY OwnersListed DEF OwnersAre, own
<1> QED
  BY <1>1, <1>2
LEMMA Separate ==
    ASSUME Disjoint(own)
    PROVE  /\ Free \cap MsgsHold(out) = {} /\ Free \cap MsgsHold(socketq) = {}
           /\ Free \cap (UNION {Parts(m) : m \in inbox}) = {}
           /\ MsgsHold(out) \cap MsgsHold(socketq) = {}
           /\ \A p \in Outs : /\ Free \cap MsgsHold(ownq[p]) = {} /\ Free \cap dues[p] = {} /\ Free \cap last[p] = {}
                              /\ MsgsHold(out) \cap MsgsHold(ownq[p]) = {}
                              /\ MsgsHold(socketq) \cap SetsHold(wire[p]) = {}
                              /\ MsgsHold(ownq[p]) \cap SetsHold(wire[p]) = {}
<1>1. /\ <<"pool", 0>> # <<"out", 0>> /\ <<"pool", 0>> # <<"socketq", 0>> /\ <<"pool", 0>> # <<"inbox", 0>>
      /\ <<"out", 0>> # <<"socketq", 0>>
      /\ \A p \in Outs : /\ <<"pool", 0>> # <<"ownq", p>> /\ <<"pool", 0>> # <<"dues", p>> /\ <<"pool", 0>> # <<"last", p>>
                         /\ <<"out", 0>> # <<"ownq", p>> /\ <<"socketq", 0>> # <<"wire", p>> /\ <<"ownq", p>> # <<"wire", p>>
  OBVIOUS
<1>2. \A g, h \in Owners : g # h => own[g] \cap own[h] = {}
  BY DEF Disjoint
<1>3. /\ Free \cap MsgsHold(out) = {} /\ Free \cap MsgsHold(socketq) = {}
      /\ Free \cap (UNION {Parts(m) : m \in inbox}) = {}
      /\ MsgsHold(out) \cap MsgsHold(socketq) = {}
  BY <1>1, <1>2, OwnersListed, OwnersKnown DEF OwnersAre
<1>4. ASSUME NEW p \in Outs
      PROVE  /\ Free \cap MsgsHold(ownq[p]) = {} /\ Free \cap dues[p] = {} /\ Free \cap last[p] = {}
             /\ MsgsHold(out) \cap MsgsHold(ownq[p]) = {}
             /\ MsgsHold(socketq) \cap SetsHold(wire[p]) = {}
             /\ MsgsHold(ownq[p]) \cap SetsHold(wire[p]) = {}
  <2>1. /\ own[<<"pool", 0>>] \cap own[<<"ownq", p>>] = {} /\ own[<<"pool", 0>>] \cap own[<<"dues", p>>] = {}
        /\ own[<<"pool", 0>>] \cap own[<<"last", p>>] = {}
    BY <1>1, <1>2, OwnersListed
  <2>2. /\ own[<<"out", 0>>] \cap own[<<"ownq", p>>] = {} /\ own[<<"socketq", 0>>] \cap own[<<"wire", p>>] = {}
        /\ own[<<"ownq", p>>] \cap own[<<"wire", p>>] = {}
    BY <1>1, <1>2, OwnersListed
  <2> QED
    BY <2>1, <2>2, OwnersKnown DEF OwnersAre
<1> QED
  BY <1>3, <1>4

\* the message in the hands of a call
LEMMA OutHolds ==
    ASSUME out \in Seq(Messages), Len(out) <= 1
    PROVE  /\ out # <<>> => out[1] \in Messages /\ MsgsHold(out) = Parts(out[1])
           /\ MsgsApart(out) /\ MsgsHold(<<>>) = {} /\ MsgsApart(<<>>)
           /\ \A m \in Messages : <<m>> \in Seq(Messages) /\ Len(<<m>>) = 1 /\ MsgsHold(<<m>>) = Parts(m) /\ MsgsApart(<<m>>)
<1>1. out # <<>> => Len(out) = 1 /\ out[1] \in Messages
  OBVIOUS
<1>2. Len(out) \in {0, 1}
  OBVIOUS
<1>3. \A n \in {0, 1} : \A i, j \in 1 .. n : i = 1 /\ j = 1
  OBVIOUS
<1>4. \A q : Len(q) = 1 => MsgsHold(q) = Parts(q[1])
  BY DEF MsgsHold
<1>5. MsgsHold(<<>>) = {} /\ MsgsApart(<<>>)
  BY DEF MsgsHold, MsgsApart
<1>6. \A m \in Messages : <<m>> \in Seq(Messages) /\ Len(<<m>>) = 1 /\ <<m>>[1] = m
  OBVIOUS
<1>7. \A m \in Messages : MsgsHold(<<m>>) = Parts(m) /\ MsgsApart(<<m>>)
  BY <1>3, <1>4, <1>6 DEF MsgsApart
<1>8. MsgsApart(out)
  BY <1>2, <1>3 DEF MsgsApart
<1> QED
  BY <1>1, <1>4, <1>5, <1>6, <1>7, <1>8
-----------------------------------------------------------------------------
(* The steps *)

\* what is left alone keeps what it owns
LEMMA SharedKept ==
    /\ UNCHANGED pool => own'[<<"pool", 0>>] = own[<<"pool", 0>>]
    /\ UNCHANGED out => own'[<<"out", 0>>] = own[<<"out", 0>>]
    /\ UNCHANGED socketq => own'[<<"socketq", 0>>] = own[<<"socketq", 0>>]
    /\ UNCHANGED inbox => own'[<<"inbox", 0>>] = own[<<"inbox", 0>>]
  BY OwnersKnown DEF OwnersAre, Free

LEMMA PipeKept ==
    ASSUME NEW p \in Outs
    PROVE  /\ ownq'[p] = ownq[p] => own'[<<"ownq", p>>] = own[<<"ownq", p>>]
           /\ dues'[p] = dues[p] => own'[<<"dues", p>>] = own[<<"dues", p>>]
           /\ wire'[p] = wire[p] => own'[<<"wire", p>>] = own[<<"wire", p>>]
           /\ last'[p] = last[p] => own'[<<"last", p>>] = own[<<"last", p>>]
  BY OwnersKnown DEF OwnersAre

\* a step changes what the owners in K have, at most
Touches(K) ==
    /\ \A h \in {<<"pool", 0>>, <<"out", 0>>, <<"socketq", 0>>, <<"inbox", 0>>} : h \notin K => own'[h] = own[h]
    /\ \A p \in Outs : \A h \in {<<"ownq", p>>, <<"dues", p>>, <<"wire", p>>, <<"last", p>>} :
           h \notin K => own'[h] = own[h]

LEMMA MovesAmong ==
    ASSUME Disjoint(own), NEW K, K \subseteq Owners, Touches(K),
           \A h \in K : \A r \in own'[h] : \E k \in K : r \in own[k],
           \A h, k \in K : h # k => own'[h] \cap own'[k] = {}
    PROVE  (Disjoint(own))'
<1>1. \A h \in Owners \ K : own'[h] \subseteq own[h]
  <2> SUFFICES ASSUME NEW h \in Owners \ K PROVE own'[h] = own[h]
    OBVIOUS
  <2>1. CASE h \in {<<"pool", 0>>, <<"out", 0>>, <<"socketq", 0>>, <<"inbox", 0>>}
    BY <2>1 DEF Touches
  <2>2. ASSUME NEW p \in Outs, h \in {<<"ownq", p>>, <<"dues", p>>, <<"wire", p>>, <<"last", p>>}
        PROVE  own'[h] = own[h]
    BY <2>2 DEF Touches
  <2> QED
    BY <2>1, <2>2, OwnersListed
<1>2. PICK f : f = own
  OBVIOUS
<1>3. PICK g : g = own'
  OBVIOUS
<1>4. Disjoint(g)
  <2>1. Disjoint(f)
    BY <1>2
  <2>2. /\ \A h \in Owners \ K : g[h] \subseteq f[h]
        /\ \A h \in K : \A r \in g[h] : \E k \in K : r \in f[k]
        /\ \A h, k \in K : h # k => g[h] \cap g[k] = {}
    BY <1>1, <1>2, <1>3
  <2> QED
    BY ONLY <2>1, <2>2, HandOver, K \subseteq Owners
<1> QED
  BY <1>3, <1>4 DEF Disjoint

\* one owner gives and another one gets
LEMMA Moves ==
    ASSUME Disjoint(own), NEW a \in Owners, NEW b \in Owners, Touches({a, b}),
           own'[a] \subseteq own[a] \cup own[b], own'[b] \subseteq own[a] \cup own[b], own'[a] \cap own'[b] = {}
    PROVE  (Disjoint(own))'
<1> DEFINE K == {a, b}
<1>1. \A h \in K : \A r \in own'[h] : \E k \in K : r \in own[k]
  OBVIOUS
<1>2. \A h, k \in K : h # k => own'[h] \cap own'[k] = {}
  OBVIOUS
<1>3. K \subseteq Owners /\ Touches(K)
  OBVIOUS
<1> HIDE DEF K
<1> QED
  BY <1>1, <1>2, <1>3, MovesAmong

LEMMA CreatesKeeps ==
    ASSUME BufInv, NEW m \in Messages, Creates(m)
    PROVE  BufInv'
<1>1. /\ Allocs(m) /\ out = <<>> /\ out' = <<m>>
      /\ UNCHANGED <<ckind, socketq, ownq, dues, wire, last, inbox>>
  BY DEF Creates
<1>2. pool' \in [Resources -> {0, 1}] /\ Free' = Free \ Parts(m) /\ Parts(m) \subseteq Free
  BY <1>1, AllocsTakes DEF BufInv, BufType
<1>3. out' \in Seq(Messages) /\ Len(out') <= 1 /\ MsgsHold(out') = Parts(m) /\ MsgsApart(out')
  BY <1>1, OutHolds DEF BufInv, BufType
<1>4. BufType' /\ BufApart'
  BY <1>1, <1>2, <1>3 DEF BufInv, BufType, BufApart
<1>5. Touches({<<"pool", 0>>, <<"out", 0>>})
  BY <1>1, SharedKept, PipeKept DEF Touches
<1>6. own'[<<"pool", 0>>] = own[<<"pool", 0>>] \ Parts(m) /\ own'[<<"out", 0>>] = Parts(m)
      /\ Parts(m) \subseteq own[<<"pool", 0>>]
  BY <1>2, <1>3, OwnersKnown DEF OwnersAre
<1>7. (Disjoint(own))'
  <2>1. Disjoint(own) /\ <<"pool", 0>> \in Owners /\ <<"out", 0>> \in Owners
    BY OwnersListed DEF BufInv
  <2>2. /\ own'[<<"pool", 0>>] \subseteq own[<<"pool", 0>>] \cup own[<<"out", 0>>]
        /\ own'[<<"out", 0>>] \subseteq own[<<"pool", 0>>] \cup own[<<"out", 0>>] /\ own'[<<"pool", 0>>] \cap own'[<<"out", 0>>] = {}
    BY <1>6
  <2> QED
    BY <1>5, <2>1, <2>2, Moves
<1> QED
  BY <1>4, <1>7 DEF BufInv
LEMMA PassesOnKeeps ==
    ASSUME BufInv, NEW m \in Messages, PassesOn(m)
    PROVE  BufInv'
<1>1. /\ m \in inbox /\ out = <<>> /\ out' = <<m>> /\ inbox' = inbox \ {m}
      /\ UNCHANGED <<ckind, pool, socketq, ownq, dues, wire, last>>
  BY DEF PassesOn
<1>2. out' \in Seq(Messages) /\ Len(out') <= 1 /\ MsgsHold(out') = Parts(m) /\ MsgsApart(out')
  BY <1>1, OutHolds DEF BufInv, BufType
<1>3. BufType' /\ BufApart'
  BY <1>1, <1>2 DEF BufInv, BufType, BufApart
<1>4. Touches({<<"inbox", 0>>, <<"out", 0>>})
  BY <1>1, SharedKept, PipeKept DEF Touches
<1>5. \A n \in inbox' : n \in inbox /\ Parts(n) \cap Parts(m) = {}
  BY <1>1 DEF BufInv, BufApart
<1>6. own'[<<"inbox", 0>>] \subseteq own[<<"inbox", 0>>] \ Parts(m) /\ own'[<<"out", 0>>] = Parts(m)
      /\ Parts(m) \subseteq own[<<"inbox", 0>>]
  BY <1>1, <1>2, <1>5, OwnersKnown DEF OwnersAre
<1>7. (Disjoint(own))'
  <2>1. Disjoint(own) /\ <<"inbox", 0>> \in Owners /\ <<"out", 0>> \in Owners
    BY OwnersListed DEF BufInv
  <2>2. /\ own'[<<"inbox", 0>>] \subseteq own[<<"inbox", 0>>] \cup own[<<"out", 0>>]
        /\ own'[<<"out", 0>>] \subseteq own[<<"inbox", 0>>] \cup own[<<"out", 0>>] /\ own'[<<"inbox", 0>>] \cap own'[<<"out", 0>>] = {}
    BY <1>6
  <2> QED
    BY <1>4, <2>1, <2>2, Moves
<1> QED
  BY <1>3, <1>7 DEF BufInv

LEMMA PushesKeeps ==
    ASSUME BufInv, Pushes
    PROVE  BufInv'
<1>1. /\ out # <<>> /\ out' = <<>> /\ UNCHANGED <<ckind, pool, dues, wire, last, inbox>>
  BY DEF Pushes
<1>2. PICK m \in Messages : m = out[1] /\ MsgsHold(out) = Parts(m)
  BY <1>1, OutHolds DEF BufInv, BufType
<1>3. out' \in Seq(Messages) /\ Len(out') <= 1 /\ MsgsHold(out') = {} /\ MsgsApart(out')
  BY <1>1, OutHolds DEF BufInv, BufType
<1>4. CASE socketq' = Append(socketq, m) /\ UNCHANGED ownq
  <2>1. /\ socketq' \in Seq(Messages) /\ MsgsApart(socketq')
        /\ MsgsHold(socketq') = MsgsHold(socketq) \cup Parts(m)
    BY <1>2, <1>4, Separate, MsgsAppend DEF BufInv, BufType, BufApart
  <2>2. BufType' /\ BufApart'
    BY <1>1, <1>3, <1>4, <2>1 DEF BufInv, BufType, BufApart
  <2>3. Touches({<<"out", 0>>, <<"socketq", 0>>})
    BY <1>1, <1>4, SharedKept, PipeKept DEF Touches
  <2>4. own'[<<"out", 0>>] = {} /\ own'[<<"socketq", 0>>] = own[<<"socketq", 0>>] \cup own[<<"out", 0>>]
    BY <1>2, <1>3, <2>1, OwnersKnown DEF OwnersAre
  <2>5. (Disjoint(own))'
    <3>1. Disjoint(own) /\ <<"out", 0>> \in Owners /\ <<"socketq", 0>> \in Owners
      BY OwnersListed DEF BufInv
    <3>2. /\ own'[<<"out", 0>>] \subseteq own[<<"out", 0>>] \cup own[<<"socketq", 0>>]
          /\ own'[<<"socketq", 0>>] \subseteq own[<<"out", 0>>] \cup own[<<"socketq", 0>>] /\ own'[<<"out", 0>>] \cap own'[<<"socketq", 0>>] = {}
      BY <2>4
    <3> QED
      BY <2>3, <3>1, <3>2, Moves
  <2> QED
    BY <2>2, <2>5 DEF BufInv
<1>5. ASSUME NEW p \in Outs, ownq' = [ownq EXCEPT ![p] = Append(@, m)], UNCHANGED socketq
      PROVE  BufInv'
  <2>1. /\ Append(ownq[p], m) \in Seq(Messages) /\ MsgsApart(Append(ownq[p], m))
        /\ MsgsHold(Append(ownq[p], m)) = MsgsHold(ownq[p]) \cup Parts(m)
    BY <1>2, Separate, MsgsAppend DEF BufInv, BufType, BufApart
  <2>2. ownq'[p] = Append(ownq[p], m) /\ \A q \in Outs : q # p => ownq'[q] = ownq[q]
    BY <1>5 DEF BufInv, BufType
  <2>3. BufType' /\ BufApart'
    BY <1>1, <1>3, <1>5, <2>1, <2>2 DEF BufInv, BufType, BufApart
  <2>4. Touches({<<"out", 0>>, <<"ownq", p>>})
    BY <1>1, <1>5, <2>2, SharedKept, PipeKept DEF Touches
  <2>5. own'[<<"out", 0>>] = {} /\ own'[<<"ownq", p>>] = own[<<"ownq", p>>] \cup own[<<"out", 0>>]
    BY <1>2, <1>3, <2>1, <2>2, OwnersKnown DEF OwnersAre
  <2>6. (Disjoint(own))'
    <3>1. Disjoint(own) /\ <<"out", 0>> \in Owners /\ <<"ownq", p>> \in Owners
      BY OwnersListed DEF BufInv
    <3>2. /\ own'[<<"out", 0>>] \subseteq own[<<"out", 0>>] \cup own[<<"ownq", p>>]
          /\ own'[<<"ownq", p>>] \subseteq own[<<"out", 0>>] \cup own[<<"ownq", p>>] /\ own'[<<"out", 0>>] \cap own'[<<"ownq", p>>] = {}
      BY <2>5
    <3> QED
      BY <2>4, <3>1, <3>2, Moves
  <2> QED
    BY <2>3, <2>6 DEF BufInv
<1> QED
  BY <1>2, <1>4, <1>5 DEF Pushes
\* A step puts back what a had, and a has it no more.
LEMMA PutBack ==
    ASSUME Disjoint(own), BufType, NEW a \in Owners, a # <<"pool", 0>>, NEW rs, rs \subseteq own[a], rs \subseteq Resources,
           pool' = [r \in Resources |-> IF r \in rs THEN pool[r] + 1 ELSE pool[r]],
           Touches({a, <<"pool", 0>>}), own'[a] \subseteq own[a] \ rs
    PROVE  pool' \in [Resources -> {0, 1}] /\ (Disjoint(own))'
<1>1. own[<<"pool", 0>>] = Free /\ own'[<<"pool", 0>>] = Free'
  BY OwnersKnown DEF OwnersAre
<1>2. rs \cap Free = {}
  BY <1>1, OwnersListed DEF Disjoint
<1>3. pool' \in [Resources -> {0, 1}] /\ Free' = Free \cup rs
  BY <1>2, PutGives DEF BufType
<1>4. (own[a] \ rs) \cap Free = {}
  BY <1>1, OwnersListed DEF Disjoint
<1>5. (Disjoint(own))'
  BY <1>1, <1>3, <1>4, Moves, OwnersListed
<1> QED
  BY <1>3, <1>5

LEMMA OutFreed ==
    ASSUME BufInv, Forgets \/ SendFrees
    PROVE  BufInv'
<1>1. /\ out # <<>> /\ out' = <<>> /\ UNCHANGED <<ckind, socketq, ownq, dues, wire, last, inbox>>
      /\ pool' = [r \in Resources |-> IF r \in Parts(out[1]) THEN pool[r] + 1 ELSE pool[r]]
  BY DEF Forgets, SendFrees, Collects, Frees
<1>2. PICK m \in Messages : m = out[1] /\ MsgsHold(out) = Parts(m)
  BY <1>1, OutHolds DEF BufInv, BufType
<1>3. out' \in Seq(Messages) /\ Len(out') <= 1 /\ MsgsHold(out') = {} /\ MsgsApart(out')
  BY <1>1, OutHolds DEF BufInv, BufType
<1>4. Touches({<<"out", 0>>, <<"pool", 0>>})
  BY <1>1, SharedKept, PipeKept DEF Touches
<1>5. own[<<"out", 0>>] = Parts(m) /\ own'[<<"out", 0>>] = {}
  BY <1>2, <1>3, OwnersKnown DEF OwnersAre
<1>6. pool' \in [Resources -> {0, 1}] /\ (Disjoint(own))'
  <2>1. <<"out", 0>> # <<"pool", 0>> /\ <<"out", 0>> \in Owners /\ Parts(m) \subseteq Resources
    BY OwnersListed, PartsOfMessage
  <2> QED
    BY <1>1, <1>2, <1>4, <1>5, <2>1, PutBack DEF BufInv
<1> QED
  BY <1>1, <1>3, <1>6 DEF BufInv, BufType, BufApart

LEMMA UserFreesKeeps ==
    ASSUME BufInv, NEW m \in Messages, UserFrees(m)
    PROVE  BufInv'
<1>1. /\ m \in inbox /\ inbox' = inbox \ {m} /\ UNCHANGED <<ckind, out, socketq, ownq, dues, wire, last>>
      /\ pool' = [r \in Resources |-> IF r \in Parts(m) THEN pool[r] + 1 ELSE pool[r]]
  BY DEF UserFrees, Frees, outvars
<1>2. \A n \in inbox' : n \in inbox /\ Parts(n) \cap Parts(m) = {}
  BY <1>1 DEF BufInv, BufApart
<1>3. Touches({<<"inbox", 0>>, <<"pool", 0>>})
  BY <1>1, SharedKept, PipeKept DEF Touches
<1>4. Parts(m) \subseteq own[<<"inbox", 0>>] /\ own'[<<"inbox", 0>>] \subseteq own[<<"inbox", 0>>] \ Parts(m)
  BY <1>1, <1>2, OwnersKnown DEF OwnersAre
<1>5. pool' \in [Resources -> {0, 1}] /\ (Disjoint(own))'
  <2>1. <<"inbox", 0>> # <<"pool", 0>> /\ <<"inbox", 0>> \in Owners /\ Parts(m) \subseteq Resources
    BY OwnersListed, PartsOfMessage
  <2> QED
    BY <1>1, <1>3, <1>4, <2>1, PutBack DEF BufInv
<1> QED
  BY <1>1, <1>2, <1>5 DEF BufInv, BufType, BufApart

LEMMA DropsKeeps ==
    ASSUME BufInv, DropsRemaining
    PROVE  BufInv'
<1>1. /\ socketq # <<>> /\ socketq' = Tail(socketq) /\ UNCHANGED <<ckind, out, ownq, dues, wire, last, inbox>>
      /\ pool' = [r \in Resources |-> IF r \in Parts(Head(socketq)) THEN pool[r] + 1 ELSE pool[r]]
  BY DEF DropsRemaining, Frees, outvars
<1>2. /\ Head(socketq) \in Messages /\ socketq' \in Seq(Messages) /\ MsgsApart(socketq')
      /\ Parts(Head(socketq)) \subseteq MsgsHold(socketq)
      /\ MsgsHold(socketq') = MsgsHold(socketq) \ Parts(Head(socketq))
  BY <1>1, MsgsTail DEF BufInv, BufType, BufApart
<1>3. Touches({<<"socketq", 0>>, <<"pool", 0>>})
  BY <1>1, SharedKept, PipeKept DEF Touches
<1>4. /\ Parts(Head(socketq)) \subseteq own[<<"socketq", 0>>]
      /\ own'[<<"socketq", 0>>] \subseteq own[<<"socketq", 0>>] \ Parts(Head(socketq))
  BY <1>2, OwnersKnown DEF OwnersAre
<1>5. pool' \in [Resources -> {0, 1}] /\ (Disjoint(own))'
  <2>1. <<"socketq", 0>> # <<"pool", 0>> /\ <<"socketq", 0>> \in Owners /\ Parts(Head(socketq)) \subseteq Resources
    BY <1>2, OwnersListed, PartsOfMessage
  <2> QED
    BY <1>1, <1>3, <1>4, <2>1, PutBack DEF BufInv
<1> QED
  BY <1>1, <1>2, <1>5 DEF BufInv, BufType, BufApart

LEMMA SenderFreesKeeps ==
    ASSUME BufInv, NEW p \in Outs, SenderFrees(p)
    PROVE  BufInv'
<1>1. /\ dues' = [dues EXCEPT ![p] = {}] /\ UNCHANGED <<ckind, out, socketq, ownq, wire, last, inbox>>
      /\ pool' = [r \in Resources |-> IF r \in dues[p] THEN pool[r] + 1 ELSE pool[r]]
  BY DEF SenderFrees, Frees, outvars
<1>2. dues'[p] = {} /\ dues[p] \subseteq Resources /\ \A q \in Outs : q # p => dues'[q] = dues[q]
  BY <1>1 DEF BufInv, BufType
<1>3. Touches({<<"dues", p>>, <<"pool", 0>>})
  BY <1>1, <1>2, SharedKept, PipeKept DEF Touches
<1>4. dues[p] \subseteq own[<<"dues", p>>] /\ own'[<<"dues", p>>] \subseteq own[<<"dues", p>>] \ dues[p]
  BY <1>2, OwnersKnown DEF OwnersAre
<1>5. pool' \in [Resources -> {0, 1}] /\ (Disjoint(own))'
  <2>1. <<"dues", p>> # <<"pool", 0>> /\ <<"dues", p>> \in Owners
    BY OwnersListed
  <2> QED
    BY <1>1, <1>2, <1>3, <1>4, <2>1, PutBack DEF BufInv
<1> QED
  BY <1>1, <1>2, <1>5 DEF BufInv, BufType, BufApart

LEMMA RecvFreesKeeps ==
    ASSUME BufInv, NEW p \in Outs, RecvFrees(p)
    PROVE  BufInv'
<1>1. /\ last' = [last EXCEPT ![p] = {}] /\ UNCHANGED <<ckind, out, socketq, ownq, wire, dues, inbox>>
      /\ pool' = [r \in Resources |-> IF r \in last[p] THEN pool[r] + 1 ELSE pool[r]]
  BY DEF RecvFrees, Frees, outvars
<1>2. last'[p] = {} /\ last[p] \subseteq Resources /\ \A q \in Outs : q # p => last'[q] = last[q]
  BY <1>1 DEF BufInv, BufType
<1>3. Touches({<<"last", p>>, <<"pool", 0>>})
  BY <1>1, <1>2, SharedKept, PipeKept DEF Touches
<1>4. last[p] \subseteq own[<<"last", p>>] /\ own'[<<"last", p>>] \subseteq own[<<"last", p>>] \ last[p]
  BY <1>2, OwnersKnown DEF OwnersAre
<1>5. pool' \in [Resources -> {0, 1}] /\ (Disjoint(own))'
  <2>1. <<"last", p>> # <<"pool", 0>> /\ <<"last", p>> \in Owners
    BY OwnersListed
  <2> QED
    BY <1>1, <1>2, <1>3, <1>4, <2>1, PutBack DEF BufInv
<1> QED
  BY <1>1, <1>2, <1>5 DEF BufInv, BufType, BufApart
LEMMA DuplicatesKeeps ==
    ASSUME BufInv, NEW p \in Outs, NEW m \in Messages, Duplicates(p, m)
    PROVE  BufInv'
<1>1. UNCHANGED <<ckind, out, socketq, dues, wire, last, inbox>>
  BY DEF Duplicates
<1>2. CASE UNCHANGED <<pool, spare, ownq>>
  <2>1. Touches({})
    BY <1>1, <1>2, SharedKept, PipeKept DEF Touches
  <2>2. (Disjoint(own))'
    BY <2>1, MovesAmong DEF BufInv
  <2> QED
    BY <1>1, <1>2, <2>2 DEF BufInv, BufType, BufApart
<1>3. CASE Allocs(m) /\ ownq' = [ownq EXCEPT ![p] = Append(@, m)]
  <2>1. pool' \in [Resources -> {0, 1}] /\ Free' = Free \ Parts(m) /\ Parts(m) \subseteq Free
    BY <1>3, AllocsTakes DEF BufInv, BufType
  <2>2. /\ Append(ownq[p], m) \in Seq(Messages) /\ MsgsApart(Append(ownq[p], m))
        /\ MsgsHold(Append(ownq[p], m)) = MsgsHold(ownq[p]) \cup Parts(m)
    BY <2>1, Separate, MsgsAppend DEF BufInv, BufType, BufApart
  <2>3. ownq'[p] = Append(ownq[p], m) /\ \A q \in Outs : q # p => ownq'[q] = ownq[q]
    BY <1>3 DEF BufInv, BufType
  <2>4. BufType' /\ BufApart'
    BY <1>1, <1>3, <2>1, <2>2, <2>3 DEF BufInv, BufType, BufApart
  <2>5. Touches({<<"pool", 0>>, <<"ownq", p>>})
    BY <1>1, <2>3, SharedKept, PipeKept DEF Touches
  <2>6. /\ own'[<<"pool", 0>>] = own[<<"pool", 0>>] \ Parts(m) /\ Parts(m) \subseteq own[<<"pool", 0>>]
        /\ own'[<<"ownq", p>>] = own[<<"ownq", p>>] \cup Parts(m) /\ own[<<"pool", 0>>] \cap own[<<"ownq", p>>] = {}
    <3>1. Free \cap MsgsHold(ownq[p]) = {}
      BY Separate DEF BufInv
    <3>2. own'[<<"pool", 0>>] = own[<<"pool", 0>>] \ Parts(m) /\ Parts(m) \subseteq own[<<"pool", 0>>]
      BY <2>1, OwnersKnown DEF OwnersAre
    <3>3. own'[<<"ownq", p>>] = own[<<"ownq", p>>] \cup Parts(m) /\ own[<<"pool", 0>>] \cap own[<<"ownq", p>>] = {}
      BY <2>2, <2>3, <3>1, OwnersKnown DEF OwnersAre
    <3> QED
      BY <3>2, <3>3
  <2>7. (Disjoint(own))'
    <3>1. Disjoint(own) /\ <<"pool", 0>> \in Owners /\ <<"ownq", p>> \in Owners
      BY OwnersListed DEF BufInv
    <3>2. /\ own'[<<"pool", 0>>] \subseteq own[<<"pool", 0>>] \cup own[<<"ownq", p>>]
          /\ own'[<<"ownq", p>>] \subseteq own[<<"pool", 0>>] \cup own[<<"ownq", p>>] /\ own'[<<"pool", 0>>] \cap own'[<<"ownq", p>>] = {}
      BY <2>6
    <3> QED
      BY <2>5, <3>1, <3>2, Moves
  <2> QED
    BY <2>4, <2>7 DEF BufInv
<1> QED
  BY <1>2, <1>3 DEF Duplicates

LEMMA RecvCopiesKeeps ==
    ASSUME BufInv, NEW p \in Outs, RecvCopies(p)
    PROVE  BufInv'
<1>1. UNCHANGED <<ckind, out, socketq, ownq, dues, wire, last>>
  BY DEF RecvCopies, outvars
<1>2. CASE UNCHANGED <<pool, spare, inbox>>
  <2>1. Touches({})
    BY <1>1, <1>2, SharedKept, PipeKept DEF Touches
  <2>2. (Disjoint(own))'
    BY <2>1, MovesAmong DEF BufInv
  <2> QED
    BY <1>1, <1>2, <2>2 DEF BufInv, BufType, BufApart
<1>3. ASSUME NEW m \in Messages, Allocs(m), inbox' = inbox \cup {m} PROVE BufInv'
  <2>1. pool' \in [Resources -> {0, 1}] /\ Free' = Free \ Parts(m) /\ Parts(m) \subseteq Free
    BY <1>3, AllocsTakes DEF BufInv, BufType
  <2>2. \A n \in inbox : Parts(n) \cap Parts(m) = {} /\ Parts(m) \cap Parts(n) = {}
    BY <2>1, Separate DEF BufInv
  <2>3. BufType' /\ BufApart'
    BY <1>1, <1>3, <2>1, <2>2 DEF BufInv, BufType, BufApart
  <2>4. Touches({<<"pool", 0>>, <<"inbox", 0>>})
    BY <1>1, SharedKept, PipeKept DEF Touches
  <2>5. /\ own'[<<"pool", 0>>] = own[<<"pool", 0>>] \ Parts(m) /\ Parts(m) \subseteq own[<<"pool", 0>>]
        /\ own'[<<"inbox", 0>>] = own[<<"inbox", 0>>] \cup Parts(m) /\ own[<<"pool", 0>>] \cap own[<<"inbox", 0>>] = {}
    <3>1. Free \cap (UNION {Parts(n) : n \in inbox}) = {}
      BY Separate DEF BufInv
    <3> QED
      BY <1>3, <2>1, <3>1, OwnersKnown DEF OwnersAre
  <2>6. (Disjoint(own))'
    <3>1. Disjoint(own) /\ <<"pool", 0>> \in Owners /\ <<"inbox", 0>> \in Owners
      BY OwnersListed DEF BufInv
    <3>2. /\ own'[<<"pool", 0>>] \subseteq own[<<"pool", 0>>] \cup own[<<"inbox", 0>>]
          /\ own'[<<"inbox", 0>>] \subseteq own[<<"pool", 0>>] \cup own[<<"inbox", 0>>] /\ own'[<<"pool", 0>>] \cap own'[<<"inbox", 0>>] = {}
      BY <2>5
    <3> QED
      BY <2>4, <3>1, <3>2, Moves
  <2> QED
    BY <2>3, <2>6 DEF BufInv
<1> QED
  BY <1>2, <1>3 DEF RecvCopies

LEMMA RecvTakesKeeps ==
    ASSUME BufInv, NEW p \in Outs, RecvTakes(p)
    PROVE  BufInv'
<1>1. /\ wire[p] # <<>> /\ wire' = [wire EXCEPT ![p] = Tail(@)] /\ last' = [last EXCEPT ![p] = Head(wire[p])]
      /\ UNCHANGED <<ckind, pool, out, socketq, ownq, dues, inbox>>
  BY DEF RecvTakes, outvars
<1>2. /\ Head(wire[p]) \in SUBSET Resources /\ Tail(wire[p]) \in Seq(SUBSET Resources) /\ SetsApart(Tail(wire[p]))
      /\ Head(wire[p]) \subseteq SetsHold(wire[p])
      /\ SetsHold(Tail(wire[p])) = SetsHold(wire[p]) \ Head(wire[p])
  BY <1>1, SetsTail DEF BufInv, BufType, BufApart
<1>3. /\ wire'[p] = Tail(wire[p]) /\ last'[p] = Head(wire[p])
      /\ \A q \in Outs : q # p => wire'[q] = wire[q] /\ last'[q] = last[q]
  BY <1>1 DEF BufInv, BufType
<1>4. BufType' /\ BufApart'
  BY <1>1, <1>2, <1>3 DEF BufInv, BufType, BufApart
<1>5. Touches({<<"wire", p>>, <<"last", p>>})
  BY <1>1, <1>3, SharedKept, PipeKept DEF Touches
<1>6. /\ own'[<<"wire", p>>] = own[<<"wire", p>>] \ Head(wire[p]) /\ own'[<<"last", p>>] = Head(wire[p])
      /\ Head(wire[p]) \subseteq own[<<"wire", p>>]
  BY <1>2, <1>3, OwnersKnown DEF OwnersAre
<1>7. (Disjoint(own))'
  <2>1. Disjoint(own) /\ <<"wire", p>> \in Owners /\ <<"last", p>> \in Owners
    BY OwnersListed DEF BufInv
  <2>2. /\ own'[<<"wire", p>>] \subseteq own[<<"wire", p>>] \cup own[<<"last", p>>]
        /\ own'[<<"last", p>>] \subseteq own[<<"wire", p>>] \cup own[<<"last", p>>] /\ own'[<<"wire", p>>] \cap own'[<<"last", p>>] = {}
    BY <1>6
  <2> QED
    BY <1>5, <2>1, <2>2, Moves
<1> QED
  BY <1>4, <1>7 DEF BufInv

\* what one owner had goes to two others
LEMMA Shares ==
    ASSUME Disjoint(own), NEW a \in Owners, NEW b \in Owners, NEW c \in Owners, a # b, a # c, b # c,
           Touches({a, b, c}), NEW R1, NEW R2, R1 \subseteq own[a], R2 \subseteq own[a], R1 \cap R2 = {},
           own'[a] \subseteq own[a] \ (R1 \cup R2), own'[b] \subseteq own[b] \cup R1, own'[c] \subseteq own[c] \cup R2
    PROVE  (Disjoint(own))'
<1> DEFINE K == {a, b, c}
<1>1. \A h \in K : \A r \in own'[h] : \E k \in K : r \in own[k]
  OBVIOUS
<1>2. own[a] \cap own[b] = {} /\ own[a] \cap own[c] = {} /\ own[b] \cap own[c] = {}
  BY DEF Disjoint
<1>3. own'[a] \cap own'[b] = {} /\ own'[a] \cap own'[c] = {} /\ own'[b] \cap own'[c] = {}
  BY <1>2
<1>4. \A h, k \in K : h # k => own'[h] \cap own'[k] = {}
  BY <1>3
<1>5. K \subseteq Owners /\ Touches(K)
  OBVIOUS
<1> HIDE DEF K
<1> QED
  BY <1>1, <1>4, <1>5, MovesAmong

\* the queue that the sender's next message leaves
LEMMA Taken ==
    ASSUME BufInv, NEW p \in Outs, NEW m \in Messages, TakesMsg(p, m)
    PROVE  /\ dues[p] = {} /\ socketq' \in Seq(Messages) /\ MsgsApart(socketq')
           /\ ownq' \in [Outs -> Seq(Messages)] /\ \A q \in Outs : MsgsApart(ownq'[q])
           /\ \E s \in {<<"socketq", 0>>, <<"ownq", p>>} :
                /\ Parts(m) \subseteq own[s] /\ own'[s] = own[s] \ Parts(m)
                /\ s # <<"socketq", 0>> => own'[<<"socketq", 0>>] = own[<<"socketq", 0>>]
                /\ \A q \in Outs : s # <<"ownq", q>> => own'[<<"ownq", q>>] = own[<<"ownq", q>>]
<1>1. dues[p] = {}
  BY DEF TakesMsg
<1>2. CASE socketq # <<>> /\ m = Head(socketq) /\ socketq' = Tail(socketq) /\ UNCHANGED ownq
  <2>1. /\ socketq' \in Seq(Messages) /\ MsgsApart(socketq') /\ Parts(m) \subseteq MsgsHold(socketq)
        /\ MsgsHold(socketq') = MsgsHold(socketq) \ Parts(m)
    BY <1>2, MsgsTail DEF BufInv, BufType, BufApart
  <2>2. Parts(m) \subseteq own[<<"socketq", 0>>] /\ own'[<<"socketq", 0>>] = own[<<"socketq", 0>>] \ Parts(m)
    BY <2>1, OwnersKnown DEF OwnersAre
  <2>3. \A q \in Outs : own'[<<"ownq", q>>] = own[<<"ownq", q>>]
    BY <1>2, PipeKept
  <2>4. ownq' \in [Outs -> Seq(Messages)] /\ \A q \in Outs : MsgsApart(ownq'[q])
    BY <1>2 DEF BufInv, BufType, BufApart
  <2> QED
    BY <1>1, <2>1, <2>2, <2>3, <2>4
<1>3. CASE ownq[p] # <<>> /\ m = Head(ownq[p]) /\ ownq' = [ownq EXCEPT ![p] = Tail(@)] /\ UNCHANGED socketq
  <2>1. /\ Tail(ownq[p]) \in Seq(Messages) /\ MsgsApart(Tail(ownq[p])) /\ Parts(m) \subseteq MsgsHold(ownq[p])
        /\ MsgsHold(Tail(ownq[p])) = MsgsHold(ownq[p]) \ Parts(m)
    BY <1>3, MsgsTail DEF BufInv, BufType, BufApart
  <2>2. ownq'[p] = Tail(ownq[p]) /\ \A q \in Outs : q # p => ownq'[q] = ownq[q]
    BY <1>3 DEF BufInv, BufType
  <2>3. Parts(m) \subseteq own[<<"ownq", p>>] /\ own'[<<"ownq", p>>] = own[<<"ownq", p>>] \ Parts(m)
    BY <2>1, <2>2, OwnersKnown DEF OwnersAre
  <2>4. own'[<<"socketq", 0>>] = own[<<"socketq", 0>>]
    BY <1>3, SharedKept
  <2>5. \A q \in Outs : <<"ownq", p>> # <<"ownq", q>> => own'[<<"ownq", q>>] = own[<<"ownq", q>>]
    BY <2>2, PipeKept
  <2>6. /\ ownq' \in [Outs -> Seq(Messages)] /\ \A q \in Outs : MsgsApart(ownq'[q])
        /\ socketq' \in Seq(Messages) /\ MsgsApart(socketq')
    BY <1>3, <2>1, <2>2 DEF BufInv, BufType, BufApart
  <2> QED
    BY <1>1, <2>3, <2>4, <2>5, <2>6
<1> QED
  BY <1>2, <1>3 DEF TakesMsg

\* the connection and the sender part what the message was
LEMMA LevelsFit ==
    ASSUME BufType, NEW p \in Outs, NEW m \in Messages
    PROVE  /\ HandsOver(p, m) \cap FreedByLevel(p, m) = {}
           /\ HandsOver(p, m) \cup FreedByLevel(p, m) = Parts(m)
<1>1. ckind[p] \in {"copy", "bytes", "msgs"} /\ m.obj # m.buf
  BY BuffersAssumption DEF BufType, Messages
<1> QED
  BY <1>1 DEF HandsOver, FreedByLevel, Parts

LEMMA SendsKeeps ==
    ASSUME BufInv, NEW p \in Outs, Sends(p)
    PROVE  BufInv'
<1>1. PICK m \in Messages :
         /\ TakesMsg(p, m)
         /\ \/ wire' = [wire EXCEPT ![p] = Append(@, HandsOver(p, m))] /\ UNCHANGED pool
            \/ Collects(HandsOver(p, m)) /\ UNCHANGED wire
         /\ dues' = [dues EXCEPT ![p] = FreedByLevel(p, m)]
  BY DEF Sends
<1>2. UNCHANGED <<ckind, out, last, inbox>>
  BY DEF Sends, outvars
<1>3. /\ dues[p] = {} /\ socketq' \in Seq(Messages) /\ MsgsApart(socketq')
      /\ ownq' \in [Outs -> Seq(Messages)] /\ \A q \in Outs : MsgsApart(ownq'[q])
  BY <1>1, Taken
<1>4. PICK s \in {<<"socketq", 0>>, <<"ownq", p>>} :
         /\ Parts(m) \subseteq own[s] /\ own'[s] = own[s] \ Parts(m)
         /\ s # <<"socketq", 0>> => own'[<<"socketq", 0>>] = own[<<"socketq", 0>>]
         /\ \A q \in Outs : s # <<"ownq", q>> => own'[<<"ownq", q>>] = own[<<"ownq", q>>]
  BY <1>1, Taken
<1>5. PICK given : given = HandsOver(p, m)
  OBVIOUS
<1>6. PICK freed : freed = FreedByLevel(p, m)
  OBVIOUS
<1>7. /\ given \cap freed = {} /\ given \subseteq own[s] /\ freed \subseteq own[s] /\ given \cup freed = Parts(m)
      /\ given \subseteq Resources /\ freed \subseteq Resources
  BY <1>4, <1>5, <1>6, LevelsFit, PartsOfMessage DEF BufInv
<1>8. dues'[p] = freed /\ dues' \in [Outs -> SUBSET Resources] /\ \A q \in Outs : q # p => dues'[q] = dues[q]
  BY <1>1, <1>6, <1>7 DEF BufInv, BufType
<1>9. /\ own[<<"dues", p>>] = {} /\ own'[<<"dues", p>>] = freed
      /\ \A q \in Outs : q # p => own'[<<"dues", q>>] = own[<<"dues", q>>]
  BY <1>3, <1>8, OwnersKnown, PipeKept DEF OwnersAre
<1>10. /\ s \in Owners /\ <<"pool", 0>> \in Owners /\ <<"dues", p>> \in Owners /\ <<"wire", p>> \in Owners
       /\ s # <<"dues", p>> /\ s # <<"wire", p>> /\ s # <<"pool", 0>>
       /\ <<"pool", 0>> # <<"dues", p>> /\ <<"wire", p>> # <<"dues", p>>
  <2>1. CASE s = <<"socketq", 0>>
    BY <2>1, OwnersListed
  <2>2. CASE s = <<"ownq", p>>
    BY <2>2, OwnersListed
  <2> QED
    BY <1>4, <2>1, <2>2
<1>11. /\ own'[<<"out", 0>>] = own[<<"out", 0>>] /\ own'[<<"inbox", 0>>] = own[<<"inbox", 0>>]
       /\ \A q \in Outs : own'[<<"last", q>>] = own[<<"last", q>>]
  BY <1>2, SharedKept, PipeKept
<1>12. CASE wire' = [wire EXCEPT ![p] = Append(@, given)] /\ UNCHANGED pool
  <2>1. own[s] \cap own[<<"wire", p>>] = {}
    BY <1>10 DEF BufInv, Disjoint
  <2>2. SetsHold(wire[p]) \cap given = {}
    BY <1>7, <2>1, OwnersKnown DEF OwnersAre
  <2>3. /\ Append(wire[p], given) \in Seq(SUBSET Resources) /\ SetsApart(Append(wire[p], given))
        /\ SetsHold(Append(wire[p], given)) = SetsHold(wire[p]) \cup given
    BY <1>7, <2>2, SetsAppend DEF BufInv, BufType, BufApart
  <2>4. wire'[p] = Append(wire[p], given) /\ \A q \in Outs : q # p => wire'[q] = wire[q]
    BY <1>12 DEF BufInv, BufType
  <2>5. BufType' /\ BufApart'
    BY <1>2, <1>3, <1>8, <1>12, <2>3, <2>4 DEF BufInv, BufType, BufApart
  <2>6. /\ own'[<<"wire", p>>] = own[<<"wire", p>>] \cup given
        /\ \A q \in Outs : q # p => own'[<<"wire", q>>] = own[<<"wire", q>>]
    <3>1. own'[<<"wire", p>>] = own[<<"wire", p>>] \cup given
      BY <2>3, <2>4, OwnersKnown DEF OwnersAre
    <3> QED
      BY <2>4, <3>1, PipeKept
  <2>7. Touches({s, <<"wire", p>>, <<"dues", p>>})
    BY <1>4, <1>9, <1>11, <1>12, <2>6, SharedKept DEF Touches
  <2>8. (Disjoint(own))'
    <3>1. given \cap freed = {} /\ given \subseteq own[s] /\ freed \subseteq own[s]
      BY <1>7
    <3>2. own'[s] \subseteq own[s] \ (given \cup freed)
      BY <1>4, <1>7
    <3>3. own'[<<"wire", p>>] \subseteq own[<<"wire", p>>] \cup given /\ own'[<<"dues", p>>] \subseteq own[<<"dues", p>>] \cup freed
      BY <1>9, <2>6
    <3>4. Disjoint(own)
      BY DEF BufInv
    <3> QED
      BY <1>10, <2>7, <3>1, <3>2, <3>3, <3>4, Shares
  <2> QED
    BY <2>5, <2>8 DEF BufInv
<1>13. CASE Collects(given) /\ UNCHANGED wire
  <2>1. own[s] \cap own[<<"pool", 0>>] = {}
    BY <1>10 DEF BufInv, Disjoint
  <2>2. given \cap Free = {}
    BY <1>7, <2>1, OwnersKnown DEF OwnersAre
  <2>3. pool' \in [Resources -> {0, 1}] /\ Free' = Free \cup given
    BY <1>7, <1>13, <2>2, PutGives DEF BufInv, BufType, Collects
  <2>4. BufType' /\ BufApart'
    BY <1>2, <1>3, <1>8, <1>13, <2>3 DEF BufInv, BufType, BufApart
  <2>5. own'[<<"pool", 0>>] = own[<<"pool", 0>>] \cup given
    BY <2>3, OwnersKnown DEF OwnersAre
  <2>6. \A q \in Outs : own'[<<"wire", q>>] = own[<<"wire", q>>]
    BY <1>13, PipeKept
  <2>7. Touches({s, <<"pool", 0>>, <<"dues", p>>})
    BY <1>4, <1>9, <1>11, <2>6 DEF Touches
  <2>8. (Disjoint(own))'
    <3>1. given \cap freed = {} /\ given \subseteq own[s] /\ freed \subseteq own[s]
      BY <1>7
    <3>2. own'[s] \subseteq own[s] \ (given \cup freed)
      BY <1>4, <1>7
    <3>3. own'[<<"pool", 0>>] \subseteq own[<<"pool", 0>>] \cup given /\ own'[<<"dues", p>>] \subseteq own[<<"dues", p>>] \cup freed
      BY <1>9, <2>5
    <3>4. Disjoint(own)
      BY DEF BufInv
    <3> QED
      BY <1>10, <2>7, <3>1, <3>2, <3>3, <3>4, Shares
  <2> QED
    BY <2>4, <2>8 DEF BufInv
<1> QED
  BY <1>1, <1>5, <1>12, <1>13

LEMMA SendFailsKeeps ==
    ASSUME BufInv, NEW p \in Outs, SendFails(p)
    PROVE  BufInv'
<1>1. UNCHANGED <<ckind, pool, out, wire, last, inbox>>
  BY DEF SendFails, outvars
<1>2. ASSUME NEW m \in Messages, socketq # <<>>, m = Head(socketq), socketq' = Append(Tail(socketq), m),
             UNCHANGED <<ownq, dues>>
      PROVE  BufInv'
  <2>1. /\ Tail(socketq) \in Seq(Messages) /\ MsgsApart(Tail(socketq)) /\ Parts(m) \subseteq MsgsHold(socketq)
        /\ MsgsHold(Tail(socketq)) = MsgsHold(socketq) \ Parts(m)
    BY <1>2, MsgsTail DEF BufInv, BufType, BufApart
  <2>2. MsgsHold(Tail(socketq)) \cap Parts(m) = {}
    BY <2>1
  <2>3. /\ socketq' \in Seq(Messages) /\ MsgsApart(socketq')
        /\ MsgsHold(socketq') = MsgsHold(Tail(socketq)) \cup Parts(m)
    BY <1>2, <2>1, <2>2, MsgsAppend
  <2>4. own'[<<"socketq", 0>>] = own[<<"socketq", 0>>]
    BY <2>1, <2>3, OwnersKnown DEF OwnersAre
  <2>5. Touches({})
    BY <1>1, <1>2, <2>4, SharedKept, PipeKept DEF Touches
  <2>6. (Disjoint(own))'
    BY <2>5, MovesAmong DEF BufInv
  <2> QED
    BY <1>1, <1>2, <2>3, <2>6 DEF BufInv, BufType, BufApart
<1>3. ASSUME NEW m \in Messages, TakesMsg(p, m), dues' = [dues EXCEPT ![p] = Parts(m)]
      PROVE  BufInv'
  <2>1. /\ dues[p] = {} /\ socketq' \in Seq(Messages) /\ MsgsApart(socketq')
        /\ ownq' \in [Outs -> Seq(Messages)] /\ \A q \in Outs : MsgsApart(ownq'[q])
    BY <1>3, Taken
  <2>2. PICK s \in {<<"socketq", 0>>, <<"ownq", p>>} :
           /\ Parts(m) \subseteq own[s] /\ own'[s] = own[s] \ Parts(m)
           /\ s # <<"socketq", 0>> => own'[<<"socketq", 0>>] = own[<<"socketq", 0>>]
           /\ \A q \in Outs : s # <<"ownq", q>> => own'[<<"ownq", q>>] = own[<<"ownq", q>>]
    BY <1>3, Taken
  <2>3. dues'[p] = Parts(m) /\ dues' \in [Outs -> SUBSET Resources] /\ \A q \in Outs : q # p => dues'[q] = dues[q]
    BY <1>3, PartsOfMessage DEF BufInv, BufType
  <2>4. /\ own[<<"dues", p>>] = {} /\ own'[<<"dues", p>>] = Parts(m)
        /\ \A q \in Outs : q # p => own'[<<"dues", q>>] = own[<<"dues", q>>]
    BY <2>1, <2>3, OwnersKnown, PipeKept DEF OwnersAre
  <2>5. /\ own'[<<"pool", 0>>] = own[<<"pool", 0>>] /\ own'[<<"out", 0>>] = own[<<"out", 0>>]
        /\ own'[<<"inbox", 0>>] = own[<<"inbox", 0>>]
        /\ \A q \in Outs : own'[<<"last", q>>] = own[<<"last", q>>] /\ own'[<<"wire", q>>] = own[<<"wire", q>>]
    BY <1>1, SharedKept, PipeKept
  <2>6. Touches({s, <<"dues", p>>})
    BY <2>2, <2>4, <2>5 DEF Touches
  <2>7. (Disjoint(own))'
    <3>1. s \in Owners /\ <<"dues", p>> \in Owners /\ Disjoint(own)
      BY OwnersListed DEF BufInv
    <3>2. /\ own'[s] \subseteq own[s] \cup own[<<"dues", p>>] /\ own'[<<"dues", p>>] \subseteq own[s] \cup own[<<"dues", p>>]
          /\ own'[s] \cap own'[<<"dues", p>>] = {}
      BY <2>2, <2>4
    <3> QED
      BY <2>6, <3>1, <3>2, Moves
  <2> QED
    BY <1>1, <2>1, <2>3, <2>7 DEF BufInv, BufType, BufApart
<1> QED
  BY <1>2, <1>3 DEF SendFails

\* closing a pipe or the socket moves no memory
LEMMA NothingMoves ==
    ASSUME BufInv, UNCHANGED <<ckind, pool, out, socketq, ownq, dues, wire, last, inbox>>
    PROVE  BufInv'
<1>1. Touches({})
  BY SharedKept, PipeKept DEF Touches
<1>2. (Disjoint(own))'
  BY <1>1, MovesAmong DEF BufInv
<1> QED
  BY <1>2 DEF BufInv, BufType, BufApart

-----------------------------------------------------------------------------
(* The invariant *)

LEMMA BufInit == BuffersInit => BufInv
<1> SUFFICES ASSUME BuffersInit PROVE BufInv
  OBVIOUS
<1>1. BufType
  <2>1. ckind \in [Outs -> {"copy", "bytes", "msgs"}]
    BY BuffersAssumption DEF BuffersInit
  <2>2. /\ <<>> \in Seq(Messages) /\ Len(<<>>) <= 1
        /\ [p \in Outs |-> <<>>] \in [Outs -> Seq(Messages)]
        /\ [p \in Outs |-> <<>>] \in [Outs -> Seq(SUBSET Resources)]
    OBVIOUS
  <2> QED
    BY <2>1, <2>2 DEF BuffersInit, BufType
<1>2. MsgsApart(<<>>) /\ SetsApart(<<>>) /\ MsgsHold(<<>>) = {} /\ SetsHold(<<>>) = {}
  <2>1. 1 .. Len(<<>>) = {}
    OBVIOUS
  <2>2. MsgsApart(<<>>) /\ SetsApart(<<>>)
    BY <2>1 DEF MsgsApart, SetsApart
  <2>3. MsgsHold(<<>>) = {} /\ SetsHold(<<>>) = {}
    BY <2>1 DEF MsgsHold, SetsHold
  <2> QED
    BY <2>2, <2>3
<1>3. BufApart
  BY <1>2 DEF BuffersInit, BufApart
<1>4. /\ own[<<"out", 0>>] = {} /\ own[<<"socketq", 0>>] = {} /\ own[<<"inbox", 0>>] = {}
      /\ \A p \in Outs : /\ own[<<"ownq", p>>] = {} /\ own[<<"dues", p>>] = {}
                         /\ own[<<"wire", p>>] = {} /\ own[<<"last", p>>] = {}
  <2>1. /\ out = <<>> /\ socketq = <<>> /\ inbox = {}
        /\ \A p \in Outs : ownq[p] = <<>> /\ dues[p] = {} /\ wire[p] = <<>> /\ last[p] = {}
    BY DEF BuffersInit
  <2>2. UNION {Parts(m) : m \in inbox} = {}
    BY <2>1
  <2> QED
    BY <1>2, <2>1, <2>2, OwnersKnown DEF OwnersAre
<1>5. \A h \in Owners : h # <<"pool", 0>> => own[h] = {}
  BY <1>4, OwnersListed
<1>6. Disjoint(own)
  BY <1>5 DEF Disjoint
<1> QED
  BY <1>1, <1>3, <1>6 DEF BufInv

LEMMA BufStep == BufInv /\ [BuffersNext]_bufvars => BufInv'
<1> SUFFICES ASSUME BufInv, [BuffersNext]_bufvars PROVE BufInv'
  OBVIOUS
<1>1. ASSUME NEW m \in Messages, Creates(m) \/ PassesOn(m) \/ UserFrees(m) PROVE BufInv'
  BY <1>1, CreatesKeeps, PassesOnKeeps, UserFreesKeeps
<1>2. CASE Pushes \/ Forgets \/ SendFrees \/ DropsRemaining
  BY <1>2, PushesKeeps, OutFreed, DropsKeeps
<1>3. CASE SocketCloses
  BY <1>3, NothingMoves DEF SocketCloses, outvars
<1>4. ASSUME NEW p \in Outs, NEW m \in Messages, Duplicates(p, m) PROVE BufInv'
  BY <1>4, DuplicatesKeeps
<1>5. ASSUME NEW p \in Outs, Sends(p) \/ SendFails(p) \/ SenderFrees(p) PROVE BufInv'
  BY <1>5, SendsKeeps, SendFailsKeeps, SenderFreesKeeps
<1>6. ASSUME NEW p \in Outs, PipeCloses(p) PROVE BufInv'
  BY <1>6, NothingMoves DEF PipeCloses, outvars
<1>7. ASSUME NEW p \in Outs, RecvFrees(p) \/ RecvTakes(p) \/ RecvCopies(p) PROVE BufInv'
  BY <1>7, RecvFreesKeeps, RecvTakesKeeps, RecvCopiesKeeps
<1>8. CASE UNCHANGED bufvars
  BY <1>8, NothingMoves DEF bufvars, outvars
<1> QED
  BY <1>1, <1>2, <1>3, <1>4, <1>5, <1>6, <1>7, <1>8 DEF BuffersNext

-----------------------------------------------------------------------------
(* One place for each *)

\* x is the place of r with its owner h
At(r, h, x) ==
    /\ h[1] = "out" => \E k \in 1 .. Len(out) : r \in Parts(out[k]) /\ x = <<"out", k>>
    /\ h[1] = "socketq" => \E k \in 1 .. Len(socketq) : r \in Parts(socketq[k]) /\ x = <<"sendq", k>>
    /\ h[1] = "inbox" => \E m \in inbox : r \in Parts(m) /\ x = <<"inbox", m>>
    /\ h[1] = "ownq" => \E k \in 1 .. Len(ownq[h[2]]) : r \in Parts(ownq[h[2]][k]) /\ x = <<<<"sendq", h[2]>>, k>>
    /\ h[1] = "wire" => \E k \in 1 .. Len(wire[h[2]]) : r \in wire[h[2]][k] /\ x = <<h[2], k>>
    /\ h[1] = "dues" => x = <<"dues", h[2]>>
    /\ h[1] = "last" => x = <<"last", h[2]>>

LEMMA PlacesListed ==
    ASSUME BufType, NEW r, NEW x \in Places(r)
    PROVE  \/ \E k \in 1 .. Len(out) : r \in Parts(out[k]) /\ x = <<"out", k>>
           \/ \E k \in 1 .. Len(socketq) : r \in Parts(socketq[k]) /\ x = <<"sendq", k>>
           \/ \E m \in inbox : r \in Parts(m) /\ x = <<"inbox", m>>
           \/ \E p \in Outs : \E k \in 1 .. Len(ownq[p]) : r \in Parts(ownq[p][k]) /\ x = <<<<"sendq", p>>, k>>
           \/ \E p \in Outs : \E k \in 1 .. Len(wire[p]) : r \in wire[p][k] /\ x = <<p, k>>
           \/ \E p \in Outs : r \in dues[p] /\ x = <<"dues", p>>
           \/ \E p \in Outs : r \in last[p] /\ x = <<"last", p>>
<1>1. /\ DOMAIN out = 1 .. Len(out) /\ DOMAIN socketq = 1 .. Len(socketq)
      /\ \A p \in Outs : DOMAIN ownq[p] = 1 .. Len(ownq[p]) /\ DOMAIN wire[p] = 1 .. Len(wire[p])
  BY DEF BufType
<1> QED
  BY <1>1 DEF Places

LEMMA PlaceHasOwner ==
    ASSUME BufType, NEW r, NEW x \in Places(r)
    PROVE  \E h \in Owners : h # <<"pool", 0>> /\ r \in own[h] /\ At(r, h, x)
<1>1. ASSUME NEW k \in 1 .. Len(out), r \in Parts(out[k]), x = <<"out", k>>
      PROVE  \E h \in Owners : h # <<"pool", 0>> /\ r \in own[h] /\ At(r, h, x)
  <2>1. r \in own[<<"out", 0>>]
    BY <1>1, OwnersKnown DEF OwnersAre, MsgsHold
  <2>2. At(r, <<"out", 0>>, x)
    BY <1>1 DEF At
  <2> QED
    BY <2>1, <2>2, OwnersListed
<1>2. ASSUME NEW k \in 1 .. Len(socketq), r \in Parts(socketq[k]), x = <<"sendq", k>>
      PROVE  \E h \in Owners : h # <<"pool", 0>> /\ r \in own[h] /\ At(r, h, x)
  <2>1. r \in own[<<"socketq", 0>>]
    BY <1>2, OwnersKnown DEF OwnersAre, MsgsHold
  <2>2. At(r, <<"socketq", 0>>, x)
    BY <1>2 DEF At
  <2> QED
    BY <2>1, <2>2, OwnersListed
<1>3. ASSUME NEW m \in inbox, r \in Parts(m), x = <<"inbox", m>>
      PROVE  \E h \in Owners : h # <<"pool", 0>> /\ r \in own[h] /\ At(r, h, x)
  <2>1. r \in own[<<"inbox", 0>>]
    BY <1>3, OwnersKnown DEF OwnersAre
  <2>2. At(r, <<"inbox", 0>>, x)
    BY <1>3 DEF At
  <2> QED
    BY <2>1, <2>2, OwnersListed
<1>4. ASSUME NEW p \in Outs, NEW k \in 1 .. Len(ownq[p]), r \in Parts(ownq[p][k]), x = <<<<"sendq", p>>, k>>
      PROVE  \E h \in Owners : h # <<"pool", 0>> /\ r \in own[h] /\ At(r, h, x)
  <2>1. r \in own[<<"ownq", p>>]
    <3>1. r \in MsgsHold(ownq[p])
      BY <1>4 DEF MsgsHold
    <3> QED
      BY <3>1, OwnersKnown DEF OwnersAre
  <2>2. At(r, <<"ownq", p>>, x)
    BY <1>4 DEF At
  <2> QED
    BY <2>1, <2>2, OwnersListed
<1>5. ASSUME NEW p \in Outs, NEW k \in 1 .. Len(wire[p]), r \in wire[p][k], x = <<p, k>>
      PROVE  \E h \in Owners : h # <<"pool", 0>> /\ r \in own[h] /\ At(r, h, x)
  <2>1. r \in own[<<"wire", p>>]
    <3>1. r \in SetsHold(wire[p])
      BY <1>5 DEF SetsHold
    <3> QED
      BY <3>1, OwnersKnown DEF OwnersAre
  <2>2. At(r, <<"wire", p>>, x)
    BY <1>5 DEF At
  <2> QED
    BY <2>1, <2>2, OwnersListed
<1>6. ASSUME NEW p \in Outs, r \in dues[p], x = <<"dues", p>>
      PROVE  \E h \in Owners : h # <<"pool", 0>> /\ r \in own[h] /\ At(r, h, x)
  <2>1. r \in own[<<"dues", p>>] /\ At(r, <<"dues", p>>, x)
    BY <1>6, OwnersKnown DEF OwnersAre, At
  <2> QED
    BY <2>1, OwnersListed
<1>7. ASSUME NEW p \in Outs, r \in last[p], x = <<"last", p>>
      PROVE  \E h \in Owners : h # <<"pool", 0>> /\ r \in own[h] /\ At(r, h, x)
  <2>1. r \in own[<<"last", p>>] /\ At(r, <<"last", p>>, x)
    BY <1>7, OwnersKnown DEF OwnersAre, At
  <2> QED
    BY <2>1, OwnersListed
<1> QED
  BY <1>1, <1>2, <1>3, <1>4, <1>5, <1>6, <1>7, PlacesListed

LEMMA OwnerHasPlace ==
    ASSUME BufInv, NEW r, NEW h \in Owners, h # <<"pool", 0>>, NEW x, NEW y, At(r, h, x), At(r, h, y)
    PROVE  x = y
<1>1. CASE h = <<"out", 0>>
  <2>1. \A i, j \in 1 .. Len(out) : r \in Parts(out[i]) /\ r \in Parts(out[j]) => i = j
    BY DEF BufInv, BufApart, MsgsApart
  <2>2. /\ \E i \in 1 .. Len(out) : r \in Parts(out[i]) /\ x = <<"out", i>>
        /\ \E j \in 1 .. Len(out) : r \in Parts(out[j]) /\ y = <<"out", j>>
    BY <1>1 DEF At
  <2> QED
    BY <2>1, <2>2
<1>2. CASE h = <<"socketq", 0>>
  <2>1. \A i, j \in 1 .. Len(socketq) : r \in Parts(socketq[i]) /\ r \in Parts(socketq[j]) => i = j
    BY DEF BufInv, BufApart, MsgsApart
  <2>2. /\ \E i \in 1 .. Len(socketq) : r \in Parts(socketq[i]) /\ x = <<"sendq", i>>
        /\ \E j \in 1 .. Len(socketq) : r \in Parts(socketq[j]) /\ y = <<"sendq", j>>
    BY <1>2 DEF At
  <2> QED
    BY <2>1, <2>2
<1>3. CASE h = <<"inbox", 0>>
  <2>1. \A m, n \in inbox : r \in Parts(m) /\ r \in Parts(n) => m = n
    BY DEF BufInv, BufApart
  <2> QED
    BY <1>3, <2>1 DEF At
<1>4. ASSUME NEW p \in Outs, h = <<"ownq", p>> PROVE x = y
  <2>1. \A i, j \in 1 .. Len(ownq[p]) : r \in Parts(ownq[p][i]) /\ r \in Parts(ownq[p][j]) => i = j
    BY DEF BufInv, BufApart, MsgsApart
  <2> QED
    BY <1>4, <2>1 DEF At
<1>5. ASSUME NEW p \in Outs, h = <<"wire", p>> PROVE x = y
  <2>1. \A i, j \in 1 .. Len(wire[p]) : r \in wire[p][i] /\ r \in wire[p][j] => i = j
    BY DEF BufInv, BufApart, SetsApart
  <2> QED
    BY <1>5, <2>1 DEF At
<1>6. ASSUME NEW p \in Outs, h = <<"dues", p>> \/ h = <<"last", p>> PROVE x = y
  BY <1>6 DEF At
<1> QED
  BY <1>1, <1>2, <1>3, <1>4, <1>5, <1>6, OwnersListed

\* the owners are disjoint and none has the same twice: one place at most
LEMMA InvShares == BufInv => NoBufferShared
<1> SUFFICES ASSUME BufInv, NEW r \in Resources PROVE pool[r] + Cardinality(Places(r)) <= 1
  BY DEF NoBufferShared
<1>1. pool[r] \in {0, 1} /\ own[<<"pool", 0>>] = Free /\ <<"pool", 0>> \in Owners
  BY OwnersKnown, OwnersListed DEF BufInv, BufType, OwnersAre
<1>2. \A x \in Places(r) : \E h \in Owners : h # <<"pool", 0>> /\ r \in own[h] /\ At(r, h, x)
  BY PlaceHasOwner DEF BufInv
<1>3. \A g, h \in Owners : r \in own[g] /\ r \in own[h] => g = h
  BY DEF BufInv, Disjoint
<1>4. \A x, y \in Places(r) : x = y
  BY <1>2, <1>3, OwnerHasPlace
<1>5. pool[r] = 1 => Places(r) = {}
  BY <1>1, <1>2, <1>3 DEF Free
<1>6. CASE Places(r) = {}
  BY <1>1, <1>6, FS_EmptySet
<1>7. ASSUME NEW x \in Places(r) PROVE pool[r] + Cardinality(Places(r)) <= 1
  <2>1. Places(r) = {x} /\ pool[r] = 0
    BY <1>1, <1>4, <1>5
  <2>2. Cardinality({x}) = 1
    BY FS_Singleton
  <2> QED
    BY <2>1, <2>2
<1> QED
  BY <1>6, <1>7

\* The memory of a message has one owner at a time, for every number of pipes,
\* structs and buffers, every kind of connection and every interleaving of
\* calls, senders, receivers, failures and closings: what FreeByLevel puts back
\* after SendMsg, what the receiving end puts back before its next read and
\* what the pools give out never overlap.
THEOREM NoMemoryIsShared == BuffersSpec => []NoBufferShared
<1>1. BuffersSpec => []BufInv
  BY BufInit, BufStep, PTL DEF BuffersSpec
<1> QED
  BY <1>1, InvShares, PTL
=============================================================================
