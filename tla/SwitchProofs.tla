---------------------------- MODULE SwitchProofs ----------------------------
(* Proofs about Message and Switch, for every network. *)
EXTENDS Switch, SequenceTheorems, FiniteSetTheorems, TLAPS

\* the provers, in the order in which they are tried
USE ZenonT(3), SMT, ZenonT(20), Z3

-----------------------------------------------------------------------------
(* Messages *)

\* uint8
Byte == 0 .. 255

LEMMA ByteDef == \A n : n \in Byte <=> n \in Nat /\ n <= 255
BY DEF Byte

\* uint8 keeps what fits, and wraps to zero above and to 255 below.
LEMMA U8Keeps ==
    /\ \A n \in Byte : U8(n) = n
    /\ \A n \in Byte : U8(n + 1) = IF n = 255 THEN 0 ELSE n + 1
    /\ \A n \in Byte : n >= 1 => U8(n - 1) = n - 1
    /\ U8(-1) = 255
<1>1. \A n \in Int : n % 256 = (n + 256) % 256
  OBVIOUS
<1>2. PICK minus \in Int : minus = -1
  OBVIOUS
<1>3. (-1) % 256 = 255
  <2>1. minus % 256 = (minus + 256) % 256
    BY <1>1
  <2>2. minus + 256 = 255 /\ 255 % 256 = 255
    BY <1>2
  <2> QED
    BY <1>2, <2>1, <2>2
<1>4. \A n \in Byte : U8(n) = n
  BY ByteDef DEF U8
<1>5. \A n \in Byte : U8(n + 1) = IF n = 255 THEN 0 ELSE n + 1
  BY ByteDef DEF U8
<1>6. \A n \in Byte : n >= 1 => U8(n - 1) = n - 1
  BY ByteDef DEF U8
<1> QED
  BY <1>3, <1>4, <1>5, <1>6 DEF U8

LEMMA ByteSteps ==
    /\ \A n \in Byte : n >= 1 => U8(n - 1) = n - 1 /\ n - 1 \in Byte
    /\ \A n \in Byte : n # 255 => U8(n + 1) = n + 1 /\ n + 1 \in Byte
    /\ \A t, h \in Byte : (t - 1) + (h + 1) = t + h
<1>1. \A n \in Byte : (n >= 1 => n - 1 \in Byte) /\ (n # 255 => n + 1 \in Byte)
  BY ByteDef
<1>2. \A t, h \in Byte : (t - 1) + (h + 1) = t + h
  BY ByteDef
<1> QED
  BY <1>1, <1>2, U8Keeps

\* what paths and contents are made of
Letters == {net.id[e] : e \in net.ends} \cup {"0", Reply} \cup net.sockets \cup net.ends

Mail == [raw : BOOLEAN, type : SendTypes, ttl : Byte, hops : Byte, distance : Byte,
         length : Nat, source : Seq(Letters), dest : Seq(Letters), content : Seq(Letters)]

\* TTL and Hops add up, and the counts are those of the slices.
Sound(m) ==
    /\ m \in Mail
    /\ m.ttl + m.hops = IF m.raw THEN 256 ELSE Budget
    /\ m.hops = Len(m.source) /\ m.distance = Len(m.dest) /\ m.length = Len(m.content)

\* What SendMsg lets through: neither TTL-- nor Distance-- wraps.
Sendable(m) == Sound(m) /\ m.ttl >= 1 /\ (m.type = SendTypeToDest => m.distance >= 1)

NetOK == net \in Nets

LEMMA BudgetOK == ASSUME NetOK PROVE Budget \in Byte /\ Budget >= 1
<1>1. net.ttl \in 0 .. 255
  BY ONLY NetOK, NetsAssumption, Zenon DEF NetOK
<1>2. net.ttl \in Nat /\ net.ttl <= 255
  BY ONLY <1>1
<1> QED
  BY <1>2, ByteDef DEF Budget, DefaultMsgTTL

\* A message that starts on its way is sound.
LEMMA StartIsSound ==
    ASSUME NetOK, NEW t \in SendTypes, NEW d \in Seq(Letters), Len(d) \in Byte, NEW c \in Seq(Letters), NEW m,
           m = [raw |-> FALSE, type |-> t, ttl |-> Budget, hops |-> 0, distance |-> Len(d), length |-> Len(c),
                source |-> <<>>, dest |-> d, content |-> c]
    PROVE  Sound(m) /\ m.ttl >= 1
<1>1. Budget \in Byte /\ Budget >= 1
  BY BudgetOK
<1>2. m \in Mail
  <2>1. Len(c) \in Nat /\ <<>> \in Seq(Letters) /\ 0 \in Byte /\ FALSE \in BOOLEAN
    BY ByteDef
  <2> QED
    BY <1>1, <2>1 DEF Mail
<1>3. /\ m.ttl = Budget /\ m.hops = 0 /\ m.raw = FALSE /\ Len(m.source) = 0
      /\ m.length = Len(m.content) /\ m.distance = Len(m.dest)
  OBVIOUS
<1>4. m.ttl + m.hops = Budget
  BY <1>1, <1>3, ByteDef
<1> QED
  BY <1>1, <1>2, <1>3, <1>4 DEF Sound

\* NewSendMessage with the socket's SendTTL and no source.
LEMMA NewIsStart ==
    ASSUME NEW t, NEW d, Len(d) \in Byte, NEW c
    PROVE  NewSendMessage(FALSE, t, net.ttl, <<>>, d, c) =
              [raw |-> FALSE, type |-> t, ttl |-> Budget, hops |-> 0, distance |-> Len(d), length |-> Len(c),
               source |-> <<>>, dest |-> d, content |-> c]
<1>1. Len(<<>>) = 0 /\ 0 \in Byte
  BY ByteDef
<1>2. U8(Len(<<>>)) = 0 /\ U8(Len(d)) = Len(d)
  BY <1>1, U8Keeps
<1> QED
  BY <1>2 DEF NewSendMessage, PathLength, Budget

\* what NewSendMessage gives for a request or an answer
Fresh(t, d, c) == NewSendMessage(FALSE, t, net.ttl, <<>>, d, c)

LEMMA FreshIsSound ==
    ASSUME NetOK, NEW t \in SendTypes, NEW d \in Seq(Letters), Len(d) \in Byte, NEW c \in Seq(Letters), NEW m,
           m = Fresh(t, d, c)
    PROVE  Sound(m) /\ m.ttl >= 1 /\ m.type = t /\ m.source = <<>> /\ m.dest = d /\ m.content = c
<1>1. m = [raw |-> FALSE, type |-> t, ttl |-> Budget, hops |-> 0, distance |-> Len(d), length |-> Len(c),
           source |-> <<>>, dest |-> d, content |-> c]
  BY NewIsStart DEF Fresh
<1>2. Sound(m) /\ m.ttl >= 1
  BY <1>1, StartIsSound
<1> QED
  BY ONLY <1>1, <1>2

\* NewRawRecvMessage: TTL-- from zero gives 255, with one hop done.
LEMMA RawIsSound ==
    ASSUME NEW e \in net.ends, NEW c \in Seq(Letters)
    PROVE  Sound(NewRawRecvMessage(net.id[e], c))
<1>1. U8(-1) = 255 /\ net.id[e] \in Letters
  BY U8Keeps DEF Letters
<1> PICK m : m = NewRawRecvMessage(net.id[e], c)
  OBVIOUS
<1>2. m = [raw |-> TRUE, type |-> SendTypeToOne, ttl |-> 255, hops |-> 1, distance |-> 0, length |-> Len(c),
           source |-> <<net.id[e]>>, dest |-> <<>>, content |-> c]
  BY <1>1 DEF NewRawRecvMessage
<1>3. m \in Mail
  <2>1. /\ Len(c) \in Nat /\ <<>> \in Seq(Letters) /\ <<net.id[e]>> \in Seq(Letters)
        /\ 0 \in Byte /\ 1 \in Byte /\ 255 \in Byte /\ TRUE \in BOOLEAN /\ SendTypeToOne \in SendTypes
    BY <1>1, ByteDef DEF SendTypes
  <2> QED
    BY <1>2, <2>1 DEF Mail
<1>4. /\ m.ttl = 255 /\ m.hops = 1 /\ m.raw = TRUE /\ m.distance = 0 /\ m.dest = <<>>
      /\ Len(m.source) = 1 /\ m.length = Len(m.content)
  BY <1>2
<1> QED
  BY <1>3, <1>4 DEF Sound

\* The body of a message is cut where its slices meet.
LEMMA ThreeSlices ==
    ASSUME NEW S, NEW a \in Seq(S), NEW b \in Seq(S), NEW c \in Seq(S), NEW w, w = a \o b \o c
    PROVE  /\ w \in Seq(S) /\ Len(w) = Len(a) + Len(b) + Len(c)
           /\ \A i \in 1 .. Len(a) : w[i] = a[i]
           /\ \A i \in 1 .. Len(b) : w[Len(a) + i] = b[i]
           /\ \A i \in 1 .. Len(c) : w[Len(a) + Len(b) + i] = c[i]
<1>1. PICK v : v = a \o b
  OBVIOUS
<1>2. /\ v \in Seq(S) /\ Len(v) = Len(a) + Len(b)
      /\ \A i \in 1 .. Len(a) : v[i] = a[i]
      /\ \A i \in 1 .. Len(b) : v[Len(a) + i] = b[i]
  BY <1>1
<1>3. /\ w \in Seq(S) /\ Len(w) = Len(v) + Len(c)
      /\ \A i \in 1 .. Len(v) : w[i] = v[i]
      /\ \A i \in 1 .. Len(c) : w[Len(v) + i] = c[i]
  BY <1>1, <1>2
<1>4. Len(a) \in Nat /\ Len(b) \in Nat /\ Len(c) \in Nat
  OBVIOUS
<1>5. \A i \in 1 .. Len(a) : i \in 1 .. Len(v)
  BY <1>2, <1>4
<1>6. \A i \in 1 .. Len(b) : Len(a) + i \in 1 .. Len(v)
  BY <1>2, <1>4
<1> QED
  BY <1>2, <1>3, <1>5, <1>6

LEMMA Slices ==
    ASSUME NEW S, NEW a \in Seq(S), NEW b \in Seq(S), NEW c \in Seq(S), NEW w, w = a \o b \o c
    PROVE  /\ SubSeq(w, 1, Len(a)) = a
           /\ SubSeq(w, Len(a) + 1, Len(a) + Len(b)) = b
           /\ SubSeq(w, Len(a) + Len(b) + 1, Len(a) + Len(b) + Len(c)) = c
           /\ b # <<>> => SubSeq(w, Len(a) + 2, Len(a) + Len(b)) = Tail(b)
<1>1. /\ w \in Seq(S) /\ Len(w) = Len(a) + Len(b) + Len(c)
      /\ \A i \in 1 .. Len(a) : w[i] = a[i]
      /\ \A i \in 1 .. Len(b) : w[Len(a) + i] = b[i]
      /\ \A i \in 1 .. Len(c) : w[Len(a) + Len(b) + i] = c[i]
      /\ Len(a) \in Nat /\ Len(b) \in Nat /\ Len(c) \in Nat
  BY ThreeSlices
<1>2. ASSUME NEW m \in 1 .. Len(w) + 1, NEW n \in m - 1 .. Len(w), NEW t \in Seq(S), Len(t) = n - m + 1,
             \A i \in 1 .. Len(t) : w[m + i - 1] = t[i]
      PROVE  SubSeq(w, m, n) = t
  <2>0. w \in Seq(S)
    BY <1>1
  <2>1. SubSeq(w, m, n) \in Seq(S) /\ Len(SubSeq(w, m, n)) = n - m + 1
    BY ONLY <2>0, m \in 1 .. Len(w) + 1, n \in m - 1 .. Len(w), SubSeqProperties
  <2>2. \A i \in 1 .. n - m + 1 : SubSeq(w, m, n)[i] = w[m + i - 1]
    BY ONLY <2>0, m \in 1 .. Len(w) + 1, n \in m - 1 .. Len(w), SubSeqProperties
  <2> QED
    BY <1>2, <2>1, <2>2, SeqEqual
<1>3. SubSeq(w, 1, Len(a)) = a
  BY <1>1, <1>2
<1>4. SubSeq(w, Len(a) + 1, Len(a) + Len(b)) = b
  BY <1>1, <1>2
<1>5. SubSeq(w, Len(a) + Len(b) + 1, Len(a) + Len(b) + Len(c)) = c
  BY <1>1, <1>2
<1>6. ASSUME b # <<>> PROVE SubSeq(w, Len(a) + 2, Len(a) + Len(b)) = Tail(b)
  <2>1. PICK t, m, n : t = Tail(b) /\ m = Len(a) + 2 /\ n = Len(a) + Len(b)
    OBVIOUS
  <2>2. t \in Seq(S) /\ Len(t) = Len(b) - 1 /\ \A i \in 1 .. Len(b) - 1 : t[i] = b[i + 1]
    BY <1>6, <2>1
  <2>3. Len(b) >= 1
    BY <1>6
  <2>4. m \in 1 .. Len(w) + 1 /\ n \in m - 1 .. Len(w) /\ Len(t) = n - m + 1
    BY <1>1, <2>1, <2>2, <2>3
  <2>5. ASSUME NEW i \in 1 .. Len(t) PROVE w[m + i - 1] = t[i]
    <3>1. PICK k, l : k = Len(a) /\ l = Len(b)
      OBVIOUS
    <3>2. k \in Nat /\ l \in Nat /\ i \in 1 .. l - 1
      BY <1>1, <2>2, <3>1
    <3>3. i + 1 \in 1 .. l /\ (k + 2) + i - 1 = k + (i + 1)
      BY ONLY <3>2
    <3>4. w[Len(a) + (i + 1)] = b[i + 1]
      BY <1>1, <3>1, <3>3
    <3> QED
      BY <2>1, <2>2, <3>1, <3>2, <3>3, <3>4
  <2> QED
    BY <1>2, <2>1, <2>2, <2>4, <2>5
<1> QED
  BY <1>3, <1>4, <1>5, <1>6

\* the slices of a sound message, and the body that Encode makes of them
LEMMA SoundSlices ==
    ASSUME NEW m, Sound(m)
    PROVE  /\ m.source \in Seq(Letters) /\ m.dest \in Seq(Letters) /\ m.content \in Seq(Letters)
           /\ Len(m.source) = m.hops /\ Len(m.dest) = m.distance /\ Len(m.content) = m.length
           /\ m.hops \in Nat /\ m.distance \in Nat /\ m.length \in Nat
           /\ Encode(m).body = m.source \o m.dest \o m.content
<1>1. m \in Mail
  BY DEF Sound
<1>2. m.hops \in Nat /\ m.distance \in Nat /\ m.length \in Nat
  BY <1>1, ByteDef DEF Mail
<1> QED
  BY <1>1, <1>2 DEF Sound, Mail, Encode

\* Dup gives the same message again: the meta data say where to cut its buffer.
LEMMA DupIsSame ==
    ASSUME NEW m, Sound(m)
    PROVE  Dup(m) = m
<1>1. PICK a, b, c, w : a = m.source /\ b = m.dest /\ c = m.content /\ w = Encode(m).body
  OBVIOUS
<1>2. /\ a \in Seq(Letters) /\ b \in Seq(Letters) /\ c \in Seq(Letters) /\ w = a \o b \o c
      /\ Len(a) = m.hops /\ Len(b) = m.distance /\ Len(c) = m.length
  BY <1>1, SoundSlices
<1>3. /\ SubSeq(w, 1, m.hops) = a
      /\ SubSeq(w, m.hops + 1, m.hops + m.distance) = b
      /\ SubSeq(w, m.hops + m.distance + 1, m.hops + m.distance + m.length) = c
  <2>1. /\ SubSeq(w, 1, Len(a)) = a
        /\ SubSeq(w, Len(a) + 1, Len(a) + Len(b)) = b
        /\ SubSeq(w, Len(a) + Len(b) + 1, Len(a) + Len(b) + Len(c)) = c
    <3>1. a \in Seq(Letters) /\ b \in Seq(Letters) /\ c \in Seq(Letters) /\ w = a \o b \o c
      BY <1>2
    <3> QED
      BY ONLY <3>1, Slices
  <2> QED
    BY <1>2, <2>1
<1>4. Dup(m) = [m EXCEPT !.source = a, !.dest = b, !.content = c]
  BY <1>1, <1>3 DEF Dup
<1>5. m \in Mail
  BY DEF Sound
<1> QED
  BY <1>1, <1>4, <1>5 DEF Mail

\* A message that is received stays sound: the hop that TTL loses is counted
\* by Hops, and the id of the pipe is put before its source.
LEMMA ArriveIsSound ==
    ASSUME NetOK, NEW m, Sendable(m), m.hops # 255, NEW pid \in Letters, NEW src, src = <<pid>> \o m.source,
           NEW d \in Seq(Letters), Len(d) = IF m.type = SendTypeToDest THEN m.distance - 1 ELSE m.distance,
           NEW x, x.raw = m.raw, x.type = m.type, x.ttl = m.ttl, x.hops = m.hops, x.distance = m.distance,
           x.length = m.length
    PROVE  Sound(Arrive(x, src, d, m.content))
<1>1. m \in Mail /\ Sound(m)
  BY DEF Sendable, Sound
<1>2. /\ m.raw \in BOOLEAN /\ m.type \in SendTypes /\ m.ttl \in Byte /\ m.hops \in Byte /\ m.distance \in Byte
      /\ m.length \in Nat /\ m.source \in Seq(Letters) /\ m.content \in Seq(Letters)
  BY <1>1 DEF Mail
<1>3. /\ U8(m.ttl - 1) = m.ttl - 1 /\ m.ttl - 1 \in Byte
      /\ U8(m.hops + 1) = m.hops + 1 /\ m.hops + 1 \in Byte
  <2>1. m.ttl >= 1
    BY DEF Sendable
  <2> QED
    BY <1>2, <2>1, ByteSteps
<1>4. /\ Len(d) \in Byte
      /\ (IF m.type = SendTypeToDest THEN U8(m.distance - 1) ELSE m.distance) = Len(d)
  <2>1. CASE m.type = SendTypeToDest
    <3>1. m.distance >= 1
      BY <2>1 DEF Sendable
    <3> QED
      BY <1>2, <2>1, <3>1, ByteDef, U8Keeps
  <2>2. CASE m.type # SendTypeToDest
    BY <1>2, <2>2
  <2> QED
    BY <2>1, <2>2
<1>5. PICK r : r = Arrive(x, src, d, m.content)
  OBVIOUS
<1>6. r = [raw |-> m.raw, type |-> m.type, ttl |-> m.ttl - 1, hops |-> m.hops + 1, distance |-> Len(d),
           length |-> m.length, source |-> src, dest |-> d, content |-> m.content]
  <2>1. r = [raw |-> x.raw, type |-> x.type, ttl |-> U8(x.ttl - 1), hops |-> U8(x.hops + 1),
             distance |-> IF x.type = SendTypeToDest THEN U8(x.distance - 1) ELSE x.distance,
             length |-> x.length, source |-> src, dest |-> d, content |-> m.content]
    BY ONLY <1>5 DEF Arrive
  <2>2. /\ U8(x.ttl - 1) = m.ttl - 1 /\ U8(x.hops + 1) = m.hops + 1
        /\ (IF x.type = SendTypeToDest THEN U8(x.distance - 1) ELSE x.distance) = Len(d)
    BY <1>3, <1>4
  <2> QED
    BY ONLY <2>1, <2>2, x.raw = m.raw, x.type = m.type, x.length = m.length
<1>7. src \in Seq(Letters) /\ Len(src) = m.hops + 1
  <2>1. Len(m.source) = m.hops /\ m.hops \in Nat /\ <<pid>> \in Seq(Letters) /\ Len(<<pid>>) = 1
    BY <1>1, <1>2, ByteDef DEF Sound
  <2> QED
    BY <1>2, <2>1
<1>8. r \in Mail
  BY <1>2, <1>3, <1>4, <1>6, <1>7 DEF Mail
<1>9. r.ttl + r.hops = m.ttl + m.hops
  BY <1>2, <1>6, ByteSteps
<1>10. /\ r.raw = m.raw /\ r.hops = Len(r.source) /\ r.distance = Len(r.dest) /\ r.length = Len(r.content)
  BY <1>1, <1>6, <1>7 DEF Sound
<1> QED
  BY <1>1, <1>5, <1>8, <1>9, <1>10 DEF Sound

\* The sizes by which a message is received, when Hops+1 does not wrap.
LEMMA Sizes ==
    ASSUME NEW m, Sendable(m), NEW x, x.type = m.type, x.hops = m.hops, x.distance = m.distance, ~SourceOverflows(x)
    PROVE  /\ m.hops # 255 /\ SourceSize(x) - 1 = m.hops
           /\ DestSize(x) = IF m.type = SendTypeToDest THEN m.distance - 1 ELSE m.distance
           /\ DestSize(x) \in Nat
<1>1. m.hops \in Byte /\ m.distance \in Byte /\ (m.type = SendTypeToDest => m.distance >= 1)
  BY DEF Sendable, Sound, Mail
<1>2. U8(m.hops + 1) # 0
  BY DEF SourceOverflows, SourceSize
<1>3. m.hops # 255 /\ U8(m.hops + 1) = m.hops + 1
  BY <1>1, <1>2, U8Keeps
<1>4. (m.hops + 1) - 1 = m.hops
  BY <1>1, ByteDef
<1>5. DestSize(x) = IF m.type = SendTypeToDest THEN m.distance - 1 ELSE m.distance
  BY <1>1, ByteSteps DEF DestSize
<1>6. DestSize(x) \in Byte
  BY <1>1, <1>5, ByteSteps
<1> QED
  BY <1>3, <1>4, <1>5, <1>6, ByteDef DEF SourceSize

\* NewMessageFromReader and NewMessageFromBytes cut the body where it was joined.
LEMMA CutIsSound ==
    ASSUME NetOK, NEW m, Sendable(m), NEW pid \in Letters, ~SourceOverflows(Encode(m))
    PROVE  /\ Sound(Cut(pid, Encode(m)))
           /\ Cut(pid, Encode(m)).source = <<pid>> \o m.source /\ Cut(pid, Encode(m)).content = m.content
           /\ Cut(pid, Encode(m)).type = m.type
           /\ m.type = SendTypeToDest => Cut(pid, Encode(m)).dest = Tail(m.dest)
<1>1. PICK w : w = Encode(m)
  OBVIOUS
<1>2. /\ w.raw = m.raw /\ w.type = m.type /\ w.ttl = m.ttl /\ w.hops = m.hops /\ w.distance = m.distance
      /\ w.length = m.length
  BY <1>1 DEF Encode
<1>3. Sound(m)
  BY DEF Sendable
<1>4. PICK a, b, c, y : a = m.source /\ b = m.dest /\ c = m.content /\ y = w.body
  OBVIOUS
<1>5. /\ a \in Seq(Letters) /\ b \in Seq(Letters) /\ c \in Seq(Letters) /\ y = a \o b \o c
      /\ Len(a) = m.hops /\ Len(b) = m.distance /\ Len(c) = m.length
      /\ m.hops \in Nat /\ m.distance \in Nat /\ m.length \in Nat
  BY <1>1, <1>3, <1>4, SoundSlices
<1>6. /\ m.hops # 255 /\ SourceSize(w) - 1 = m.hops
      /\ DestSize(w) = IF m.type = SendTypeToDest THEN m.distance - 1 ELSE m.distance
  BY <1>1, <1>2, Sizes
<1>7. /\ SubSeq(y, 1, m.hops) = a
      /\ SubSeq(y, m.hops + 1, m.hops + m.distance) = b
      /\ SubSeq(y, m.hops + m.distance + 1, m.hops + m.distance + m.length) = c
      /\ b # <<>> => SubSeq(y, m.hops + 2, m.hops + m.distance) = Tail(b)
  <2>1. a \in Seq(Letters) /\ b \in Seq(Letters) /\ c \in Seq(Letters) /\ y = a \o b \o c
    BY <1>5
  <2>2. /\ SubSeq(y, 1, Len(a)) = a
        /\ SubSeq(y, Len(a) + 1, Len(a) + Len(b)) = b
        /\ SubSeq(y, Len(a) + Len(b) + 1, Len(a) + Len(b) + Len(c)) = c
    BY ONLY <2>1, Slices
  <2>3. b # <<>> => SubSeq(y, Len(a) + 2, Len(a) + Len(b)) = Tail(b)
    BY ONLY <2>1, Slices
  <2> QED
    BY <1>5, <2>2, <2>3
<1>8. PICK skip, end : /\ skip = IF m.type = SendTypeToDest THEN 1 ELSE 0
                       /\ end = m.hops + skip + DestSize(w)
  OBVIOUS
<1>9. Cut(pid, w) = Arrive(w, <<pid>> \o SubSeq(y, 1, m.hops), SubSeq(y, m.hops + skip + 1, end),
                           SubSeq(y, end + 1, end + m.length))
  BY <1>2, <1>4, <1>6, <1>8 DEF Cut
<1>10. end = m.hops + m.distance
  <2>1. CASE m.type = SendTypeToDest
    <3>1. skip = 1 /\ DestSize(w) = m.distance - 1
      BY <1>6, <1>8, <2>1
    <3> QED
      BY <1>5, <1>8, <3>1
  <2>2. CASE m.type # SendTypeToDest
    <3>1. skip = 0 /\ DestSize(w) = m.distance
      BY <1>6, <1>8, <2>2
    <3> QED
      BY <1>5, <1>8, <3>1
  <2> QED
    BY <2>1, <2>2
<1>11. PICK d : d = SubSeq(y, m.hops + skip + 1, m.hops + m.distance)
  OBVIOUS
<1>12. /\ d \in Seq(Letters) /\ Len(d) = IF m.type = SendTypeToDest THEN m.distance - 1 ELSE m.distance
       /\ m.type = SendTypeToDest => d = Tail(b)
  <2>1. CASE m.type = SendTypeToDest
    <3>1. m.distance >= 1
      BY <2>1 DEF Sendable
    <3>2. m.hops + skip + 1 = m.hops + 2
      BY <1>5, <1>8, <2>1
    <3>3. b # <<>> /\ Tail(b) \in Seq(Letters) /\ Len(Tail(b)) = m.distance - 1
      <4>1. b # <<>>
        BY <1>5, <3>1
      <4> QED
        BY <1>5, <4>1
    <3> QED
      BY <1>7, <1>11, <2>1, <3>2, <3>3
  <2>2. CASE m.type # SendTypeToDest
    <3>1. m.hops + skip + 1 = m.hops + 1
      BY <1>5, <1>8, <2>2
    <3>2. d = b
      BY <1>7, <1>11, <3>1
    <3> QED
      BY <1>5, <2>2, <3>2
  <2> QED
    BY <2>1, <2>2
<1>13. Cut(pid, w) = Arrive(w, <<pid>> \o m.source, d, m.content)
  <2>1. SubSeq(y, end + 1, end + m.length) = c
    BY <1>7, <1>10
  <2> QED
    BY <1>4, <1>7, <1>9, <1>10, <1>11, <2>1
<1>14. PICK src : src = <<pid>> \o m.source
  OBVIOUS
<1>15. Sound(Arrive(w, src, d, m.content))
  BY ONLY <1>2, <1>6, <1>12, <1>14, NetOK, Sendable(m), pid \in Letters, ArriveIsSound, ZenonT(60)
<1>16. PICK z : z = Arrive(w, src, d, m.content)
  OBVIOUS
<1>17. z.source = src /\ z.dest = d /\ z.content = m.content /\ z.type = m.type
  BY <1>2, <1>16 DEF Arrive
<1>18. Cut(pid, Encode(m)) = z
  BY <1>1, <1>13, <1>14, <1>16
<1> QED
  BY <1>4, <1>12, <1>14, <1>15, <1>16, <1>17, <1>18

\* ShiftLeft keeps the length.
LEMMA ShiftKeeps ==
    ASSUME NEW S, NEW n \in Nat, NEW d \in [1 .. n -> S]
    PROVE  ShiftLeft(d) \in Seq(S) /\ Len(ShiftLeft(d)) = n
<1>1. d \in Seq(S) /\ Len(d) = n
  OBVIOUS
<1>2. CASE d = <<>>
  BY <1>1, <1>2 DEF ShiftLeft
<1>3. CASE d # <<>>
  <2>1. n >= 1 /\ d[n] \in S
    BY <1>1, <1>3
  <2>2. PICK t, l : t = Tail(d) /\ l = <<d[n]>>
    OBVIOUS
  <2>3. t \in Seq(S) /\ Len(t) = n - 1 /\ l \in Seq(S) /\ Len(l) = 1
    BY <1>1, <1>3, <2>1, <2>2
  <2>4. t \o l \in Seq(S) /\ Len(t \o l) = Len(t) + Len(l)
    <3>1. t \in Seq(S) /\ l \in Seq(S)
      BY <2>3
    <3> QED
      BY ONLY <3>1, ConcatProperties
  <2>5. Len(t) + Len(l) = n
    BY <2>3
  <2> QED
    BY <1>1, <1>3, <2>2, <2>4, <2>5 DEF ShiftLeft
<1> QED
  BY <1>2, <1>3

\* Every kind of connection gives sound messages, with the pipe before the source;
\* one that is not direct takes the pipe from the destination.
LEMMA ReceivedIsSound ==
    ASSUME NetOK, NEW p \in net.ends, net.kind[p] # "raw", NEW m, Sendable(m), NEW r \in Receives(p, m), IsMsg(r)
    PROVE  /\ Sound(r) /\ r.source = <<net.id[p]>> \o m.source /\ r.content = m.content /\ r.type = m.type
           /\ net.kind[p] # "direct" /\ m.type = SendTypeToDest => r.dest = Tail(m.dest)
           /\ net.kind[p] = "direct" /\ m.type = SendTypeToDest => Len(r.dest) = Len(m.dest) - 1
<1>1. net.id[p] \in Letters /\ net.kind[p] \in {"stream", "block", "direct"}
  BY NetsAssumption DEF NetOK, Letters
<1>2. ASSUME NEW e, r = Failed(e) PROVE FALSE
  BY <1>2 DEF IsMsg, Failed
<1>3. CASE net.kind[p] = "stream"
  <2>1. r \in NewMessageFromReader(net.id[p], Encode(m), net.maxLength)
    BY <1>3 DEF Receives
  <2>2. r = Cut(net.id[p], Encode(m)) /\ ~SourceOverflows(Encode(m))
    BY <1>2, <2>1 DEF NewMessageFromReader
  <2>3. PICK pid \in Letters : pid = net.id[p]
    BY <1>1
  <2>4. /\ Sound(r) /\ r.source = <<pid>> \o m.source /\ r.content = m.content /\ r.type = m.type
        /\ m.type = SendTypeToDest => r.dest = Tail(m.dest)
    BY ONLY NetOK, Sendable(m), <2>2, <2>3, CutIsSound
  <2> QED
    BY <1>3, <2>3, <2>4
<1>4. CASE net.kind[p] = "block"
  <2>1. r \in NewMessageFromBytes(net.id[p], Encode(m), net.maxLength)
    BY <1>4 DEF Receives
  <2>2. r = Cut(net.id[p], Encode(m)) /\ ~SourceOverflows(Encode(m))
    BY <1>2, <2>1 DEF NewMessageFromBytes
  <2>3. PICK pid \in Letters : pid = net.id[p]
    BY <1>1
  <2>4. /\ Sound(r) /\ r.source = <<pid>> \o m.source /\ r.content = m.content /\ r.type = m.type
        /\ m.type = SendTypeToDest => r.dest = Tail(m.dest)
    BY ONLY NetOK, Sendable(m), <2>2, <2>3, CutIsSound
  <2> QED
    BY <1>4, <2>3, <2>4
<1>5. CASE net.kind[p] = "direct"
  <2>1. r \in NewMessageFromMsg(net.id[p], m, net.maxLength, Words)
    BY <1>5 DEF Receives
  <2>2. ~SourceOverflows(m) /\ \E d \in Leftovers(DestSize(m), Words) :
                                  r = Arrive(m, <<net.id[p]>> \o m.source, ShiftLeft(d), m.content)
    BY <1>2, <2>1 DEF NewMessageFromMsg
  <2>3. PICK d \in [1 .. DestSize(m) -> Words] : r = Arrive(m, <<net.id[p]>> \o m.source, ShiftLeft(d), m.content)
    BY <2>2 DEF Leftovers
  <2>4. /\ m.hops # 255 /\ DestSize(m) = IF m.type = SendTypeToDest THEN m.distance - 1 ELSE m.distance
        /\ DestSize(m) \in Nat
    BY <2>2, Sizes
  <2>5. d \in [1 .. DestSize(m) -> Letters]
    BY DEF Words, Letters
  <2>6. PICK t : t = ShiftLeft(d)
    OBVIOUS
  <2>7. t \in Seq(Letters) /\ Len(t) = DestSize(m)
    BY <2>4, <2>5, <2>6, ShiftKeeps
  <2>8. Sound(r)
    BY <1>1, <2>3, <2>4, <2>6, <2>7, ArriveIsSound, ZenonT(60)
  <2>9. r.source = <<net.id[p]>> \o m.source /\ r.content = m.content /\ r.type = m.type /\ r.dest = t
    BY <2>3, <2>6 DEF Arrive
  <2>10. m.distance = Len(m.dest)
    BY DEF Sendable, Sound
  <2> QED
    BY <1>5, <2>4, <2>7, <2>8, <2>9, <2>10
<1> QED
  BY <1>1, <1>3, <1>4, <1>5

-----------------------------------------------------------------------------
(* Messages on their way *)

Got == {m \in Mail : Sound(m)}
Out == {m \in Mail : Sendable(m)}

\* Queues that lead to a peer hold what SendMsg let through, the others what was received.
MailInv ==
    /\ net \in Nets /\ up \subseteq net.ends /\ receiving \subseteq net.ends
    /\ forwards \subseteq {s \in net.sockets : net.twin[s] # None}
    /\ line \in [net.ends -> Seq(Out)] /\ sendq \in [net.sockets -> Seq(Out)]
    /\ recvq \in [net.sockets -> Seq(Got)]
    /\ got \subseteq net.sockets \X Got

LEMMA GotOut == /\ \A m : m \in Got <=> Sound(m)
                /\ \A m : m \in Out <=> Sendable(m)
                /\ \A m : Sendable(m) => Sound(m)
BY DEF Got, Out, Sound, Sendable

LEMMA NetStays == ASSUME net' = net PROVE Got' = Got /\ Out' = Out
BY DEF Got, Out, Sound, Sendable, Mail, Letters, Budget

\* the net of the run
LEMMA TheNet ==
    ASSUME MailInv
    PROVE  /\ NetOK /\ None \notin net.sockets /\ net.sock \in [net.ends -> net.sockets]
           /\ net.kind \in [net.ends -> {"stream", "block", "direct", "raw"}]
           /\ net.twin \in [net.sockets -> net.sockets \cup {None}]
           /\ net.mate \in [net.sockets -> net.sockets \cup {None}]
           /\ \A e \in net.ends : net.kind[e] # "raw" => net.peer[e] \in net.ends /\ net.kind[net.peer[e]] # "raw"
           /\ \A e \in net.leaves : e \in net.ends /\ net.kind[e] # "raw"
BY NetsAssumption DEF MailInv, NetOK

\* SendMsg puts into queues what they may hold.
LEMMA ByTypeKeeps ==
    ASSUME MailInv, NEW s \in net.sockets, NEW m, Sound(m), m.ttl >= 1, ByType(s, m)
    PROVE  line' \in [net.ends -> Seq(Out)] /\ sendq' \in [net.sockets -> Seq(Out)]
<1>1. line \in [net.ends -> Seq(Out)] /\ sendq \in [net.sockets -> Seq(Out)]
  BY DEF MailInv
<1>2. m.type # SendTypeToDest => m \in Out
  BY GotOut DEF Sendable
<1>3. m.distance # 0 => m \in Out
  <2>1. m.distance \in Nat
    BY ByteDef DEF Sound, Mail
  <2>2. m.distance # 0 => m.distance >= 1
    BY <2>1
  <2> QED
    BY <2>2, GotOut DEF Sendable
<1>4. CASE m.type = SendTypeToDest /\ ToDest(s, m)
  <2>1. sendq' = sendq
    BY <1>4 DEF ToDest
  <2>2. line' = [e \in net.ends |-> IF m.distance # 0 /\ e \in Named(s, m.dest[1]) THEN Append(line[e], m) ELSE line[e]]
    BY <1>4 DEF ToDest
  <2>3. m \in Out => \A e \in net.ends : Append(line[e], m) \in Seq(Out)
    BY <1>1
  <2> QED
    BY <1>1, <1>3, <2>1, <2>2, <2>3
<1>5. CASE m.type = SendTypeToOne /\ ToOne(s, m)
  <2>1. m \in Out
    BY <1>2, <1>5 DEF SendTypeToOne, SendTypeToDest
  <2>2. Append(sendq[s], m) \in Seq(Out)
    BY <1>1, <2>1
  <2> QED
    BY <1>1, <1>5, <2>2 DEF ToOne
<1>6. CASE m.type = SendTypeToAll /\ ToAll(s, m)
  <2>1. Dup(m) \in Out
    BY <1>2, <1>6, DupIsSame DEF SendTypeToAll, SendTypeToDest
  <2>2. \A e \in net.ends : Append(line[e], Dup(m)) \in Seq(Out)
    BY <1>1, <2>1
  <2> QED
    BY <1>1, <1>6, <2>2 DEF ToAll
<1> QED
  BY <1>4, <1>5, <1>6 DEF ByType

\* A closed pipe resends messages of its line.
LEMMA ResentIsOut ==
    ASSUME MailInv, NEW x \in net.ends, NEW n \in Nat, NEW v \in Resent(x, n)
    PROVE  v \in Seq(Out)
<1>1. line[x] \in Seq(Out)
  BY DEF MailInv
<1>2. PICK kept : kept = {k \in n + 1 .. Len(line[x]) : line[x][k].type = SendTypeToOne}
  OBVIOUS
<1>3. PICK f \in [1 .. Cardinality(kept) -> kept] : v = [i \in DOMAIN f |-> line[x][f[i]]]
  BY <1>2 DEF Resent
<1>4. Cardinality(kept) \in Nat
  <2>1. IsFiniteSet(n + 1 .. Len(line[x]))
    BY <1>1, FS_Interval
  <2>2. IsFiniteSet(kept)
    BY <1>2, <2>1, FS_Subset
  <2> QED
    BY <2>2, FS_CardinalityType
<1>5. \A k \in kept : k \in 1 .. Len(line[x])
  BY <1>1, <1>2
<1>6. \A i \in 1 .. Cardinality(kept) : line[x][f[i]] \in Out
  BY <1>1, <1>5
<1>7. v \in [1 .. Cardinality(kept) -> Out]
  BY <1>3, <1>6
<1> QED
  BY <1>4, <1>7

\* a connection breaks
LEMMA BrokenKeeps ==
    ASSUME MailInv, NEW e \in net.ends, net.kind[e] # "raw", Broken(e)
    PROVE  /\ line' \in [net.ends -> Seq(Out)] /\ sendq' \in [net.sockets -> Seq(Out)]
           /\ up' \subseteq net.ends /\ receiving' \subseteq net.ends
<1>1. line \in [net.ends -> Seq(Out)] /\ sendq \in [net.sockets -> Seq(Out)] /\ up \subseteq net.ends /\ receiving \subseteq net.ends
  BY DEF MailInv
<1> DEFINE p == net.peer[e]
<1>2. p \in net.ends
  BY TheNet
<1>3. /\ up' = up \ {e, p} /\ receiving' = receiving \ {e, p}
      /\ line' = [x \in net.ends |-> IF x \in {e, p} THEN <<>> ELSE line[x]]
  BY DEF Broken
<1>4. PICK i \in 0 .. Len(line[e]), j \in 0 .. Len(line[p]) : \E v \in Resent(e, i), w \in Resent(p, j) :
         sendq' = [s \in net.sockets |-> sendq[s] \o (IF s = net.sock[e] THEN v ELSE <<>>)
                                                  \o (IF s = net.sock[p] THEN w ELSE <<>>)]
  BY ZenonT(30) DEF Broken
<1> HIDE DEF p
<1>5. PICK v \in Resent(e, i), w \in Resent(p, j) :
         sendq' = [s \in net.sockets |-> sendq[s] \o (IF s = net.sock[e] THEN v ELSE <<>>)
                                                  \o (IF s = net.sock[p] THEN w ELSE <<>>)]
  BY <1>4
<1>6. i \in Nat /\ j \in Nat
  BY <1>1
<1>7. v \in Seq(Out) /\ w \in Seq(Out) /\ <<>> \in Seq(Out)
  BY <1>2, <1>6, ResentIsOut
<1>8. ASSUME NEW s \in net.sockets
      PROVE  sendq[s] \o (IF s = net.sock[e] THEN v ELSE <<>>) \o (IF s = net.sock[p] THEN w ELSE <<>>) \in Seq(Out)
  <2>1. PICK x, y : x = (IF s = net.sock[e] THEN v ELSE <<>>) /\ y = (IF s = net.sock[p] THEN w ELSE <<>>)
    OBVIOUS
  <2>2. sendq[s] \in Seq(Out) /\ x \in Seq(Out) /\ y \in Seq(Out)
    BY <1>1, <1>7, <2>1
  <2>3. (sendq[s] \o x) \o y \in Seq(Out)
    BY <2>2
  <2> QED
    BY <2>1, <2>3
<1>9. sendq' \in [net.sockets -> Seq(Out)]
  BY <1>5, <1>8
<1>10. line' \in [net.ends -> Seq(Out)]
  BY <1>1, <1>3
<1> QED
  BY <1>1, <1>3, <1>9, <1>10

\* The steps of pipes and connections.
LEMMA EndStep ==
    ASSUME MailInv, NEW e \in Ends, EndNext(e) \/ RawRecv(e) \/ RawEOF(e) \/ Leave(e)
    PROVE  MailInv'
<1>1. /\ line \in [net.ends -> Seq(Out)] /\ sendq \in [net.sockets -> Seq(Out)] /\ recvq \in [net.sockets -> Seq(Got)]
      /\ up \subseteq net.ends /\ receiving \subseteq net.ends
  BY DEF MailInv
<1>2. ASSUME net' = net, up' \subseteq net.ends, receiving' \subseteq net.ends, UNCHANGED <<forwards, got>>,
             line' \in [net.ends -> Seq(Out)], sendq' \in [net.sockets -> Seq(Out)], recvq' \in [net.sockets -> Seq(Got)]
      PROVE  MailInv'
  <2>1. Got' = Got /\ Out' = Out
    BY <1>2, NetStays
  <2> QED
    BY <1>2, <2>1 DEF MailInv
<1>3. CASE Take(e)
  <2>1. PICK s \in net.sockets : s = net.sock[e] /\ e \in net.ends
    BY <1>1, <1>3, TheNet DEF Take
  <2>2. sendq[s] # <<>> /\ sendq[s] \in Seq(Out)
    BY <1>1, <1>3, <2>1 DEF Take
  <2>3. Head(sendq[s]) \in Out /\ Tail(sendq[s]) \in Seq(Out)
    BY <2>2
  <2>4. Append(line[e], Head(sendq[s])) \in Seq(Out)
    BY <1>1, <2>1, <2>3
  <2>5. sendq' \in [net.sockets -> Seq(Out)] /\ line' \in [net.ends -> Seq(Out)]
    BY <1>1, <1>3, <2>1, <2>3, <2>4 DEF Take
  <2> QED
    BY <1>1, <1>2, <1>3, <2>5 DEF Take
<1>4. ASSUME e \in up, line[e] # <<>>
      PROVE  /\ e \in net.ends /\ Sendable(Head(line[e]))
             /\ [line EXCEPT ![e] = Tail(@)] \in [net.ends -> Seq(Out)]
  <2>1. e \in net.ends /\ line[e] \in Seq(Out)
    BY <1>1, <1>4
  <2>2. Head(line[e]) \in Out /\ Tail(line[e]) \in Seq(Out)
    BY <1>4, <2>1
  <2> QED
    BY <1>1, <2>1, <2>2, GotOut
<1>5. CASE Arrives(e)
  <2>1. PICK p : p = net.peer[e]
    OBVIOUS
  <2>2. p \in net.ends /\ net.kind[p] # "raw" /\ net.sock[p] \in net.sockets
    BY <1>4, <1>5, <2>1, TheNet DEF Arrives
  <2>3. PICK r \in Receives(p, Head(line[e])) :
           IsMsg(r) /\ recvq' = [recvq EXCEPT ![net.sock[p]] = Append(@, r)]
    BY <1>5, <2>1 DEF Arrives
  <2>4. r \in Got
    BY <1>4, <1>5, <2>2, <2>3, TheNet, ReceivedIsSound, GotOut DEF Arrives
  <2>5. Append(recvq[net.sock[p]], r) \in Seq(Got)
    BY <1>1, <2>2, <2>4
  <2>6. recvq' \in [net.sockets -> Seq(Got)]
    BY <1>1, <2>2, <2>3, <2>5
  <2> QED
    BY <1>1, <1>2, <1>4, <1>5, <2>6 DEF Arrives
<1>6. CASE ReceiverFails(e)
  <2>1. CASE Broken(e)
    BY <1>1, <1>2, <1>4, <1>6, <2>1, BrokenKeeps DEF ReceiverFails
  <2>2. CASE ~Broken(e)
    BY <1>1, <1>2, <1>4, <1>6, <2>2 DEF ReceiverFails
  <2> QED
    BY <2>1, <2>2
<1>7. CASE Ignores(e) \/ RawArrives(e)
  BY <1>1, <1>2, <1>4, <1>7 DEF Ignores, RawArrives
<1>8. ASSUME e \in net.ends, NEW c \in Seq(Letters)
      PROVE  [recvq EXCEPT ![net.sock[e]] = Append(@, NewRawRecvMessage(net.id[e], c))] \in [net.sockets -> Seq(Got)]
  <2>1. PICK r \in Got : r = NewRawRecvMessage(net.id[e], c)
    BY <1>8, RawIsSound, GotOut
  <2>2. net.sock[e] \in net.sockets
    BY <1>8, TheNet
  <2>3. Append(recvq[net.sock[e]], r) \in Seq(Got)
    BY <1>1, <2>2
  <2> QED
    BY <1>1, <2>1, <2>2, <2>3
<1>9. CASE RawRecv(e)
  <2>1. e \in net.ends
    BY <1>1, <1>9 DEF RawRecv
  <2>2. PICK c : /\ c = IF <<e, "open">> \in sent THEN Request(e) ELSE <<>>
                 /\ recvq' = [recvq EXCEPT ![net.sock[e]] = Append(@, NewRawRecvMessage(net.id[e], c))]
    BY <1>9 DEF RawRecv
  <2>3. c \in Seq(Letters)
    <3>1. e \in Letters
      BY <2>1 DEF Letters
    <3>2. <<>> \in Seq(Letters) /\ <<e>> \in Seq(Letters)
      BY <3>1
    <3> QED
      BY <2>2, <3>2 DEF Request
  <2>4. recvq' \in [net.sockets -> Seq(Got)]
    BY <1>8, <2>1, <2>2, <2>3
  <2> QED
    BY <1>1, <1>2, <1>9, <2>4 DEF RawRecv
<1>10. CASE RawEOF(e)
  <2>1. e \in net.ends /\ <<>> \in Seq(Letters)
    BY <1>1, <1>10 DEF RawEOF
  <2>2. recvq' = [recvq EXCEPT ![net.sock[e]] = Append(@, NewRawRecvMessage(net.id[e], <<>>))]
    BY <1>10 DEF RawEOF
  <2>3. recvq' \in [net.sockets -> Seq(Got)]
    BY <1>8, <2>1, <2>2
  <2> QED
    BY <1>1, <1>2, <1>10, <2>3 DEF RawEOF
<1>11. CASE Leave(e)
  <2>1. e \in net.ends /\ net.kind[e] # "raw" /\ Broken(e)
    BY <1>11, TheNet DEF Leave
  <2> QED
    BY <1>1, <1>2, <1>11, <2>1, BrokenKeeps DEF Leave
<1> QED
  BY <1>3, <1>5, <1>6, <1>7, <1>9, <1>10, <1>11 DEF EndNext

\* The steps of applications and forward loops.
LEMMA SocketStep ==
    ASSUME MailInv, NEW s \in Sockets, SocketNext(s) \/ \E t \in SendTypes : AppSends(s, t)
    PROVE  MailInv'
<1>1. /\ line \in [net.ends -> Seq(Out)] /\ sendq \in [net.sockets -> Seq(Out)] /\ recvq \in [net.sockets -> Seq(Got)]
      /\ up \subseteq net.ends /\ receiving \subseteq net.ends /\ got \subseteq net.sockets \X Got
      /\ forwards \subseteq {x \in net.sockets : net.twin[x] # None}
  BY DEF MailInv
<1>2. ASSUME net' = net, UNCHANGED <<up, receiving>>, forwards' \subseteq forwards, got' \subseteq net.sockets \X Got,
             line' \in [net.ends -> Seq(Out)], sendq' \in [net.sockets -> Seq(Out)], recvq' \in [net.sockets -> Seq(Got)]
      PROVE  MailInv'
  <2>1. Got' = Got /\ Out' = Out
    BY <1>2, NetStays
  <2> QED
    BY <1>1, <1>2, <2>1 DEF MailInv
<1>3. NetOK
  BY TheNet
<1>4. ASSUME NEW t \in SendTypes, AppSends(s, t) PROVE MailInv'
  <2>1. s \in net.sockets
    BY <1>4 DEF AppSends
  <2>2. PICK m : m = NewSendMessage(FALSE, t, net.ttl, <<>>, <<>>, Request(s))
    OBVIOUS
  <2>3. Sound(m) /\ m.ttl >= 1
    <3>1. s \in Letters
      BY <2>1 DEF Letters
    <3>2. <<>> \in Seq(Letters) /\ Len(<<>>) \in Byte /\ Request(s) \in Seq(Letters)
      BY <3>1, ByteDef DEF Request
    <3>3. PICK d, c : d = <<>> /\ c = Request(s)
      OBVIOUS
    <3>4. m = Fresh(t, d, c)
      BY ONLY <2>2, <3>3, Zenon DEF Fresh
    <3> HIDE <2>2
    <3> QED
      BY <1>3, <3>2, <3>3, <3>4, FreshIsSound
  <2>4. ByType(s, m)
    BY <1>4, <2>2 DEF AppSends
  <2>5. line' \in [net.ends -> Seq(Out)] /\ sendq' \in [net.sockets -> Seq(Out)]
    BY <2>1, <2>3, <2>4, ByTypeKeeps
  <2> QED
    BY <1>1, <1>2, <1>4, <2>5 DEF AppSends
<1>5. ASSUME s \in net.sockets, recvq[s] # <<>>
      PROVE  Head(recvq[s]) \in Got /\ Tail(recvq[s]) \in Seq(Got)
  BY <1>1, <1>5
<1>6. ASSUME NEW x \in net.sockets, net.mate[x] # None, s \in net.sockets, recvq[s] # <<>>, NEW m \in Got, PairSendMsg(x, m, s)
      PROVE  recvq' \in [net.sockets -> Seq(Got)] /\ UNCHANGED <<line, sendq>>
  <2>1. PICK y \in net.sockets : y = net.mate[x]
    BY <1>6, TheNet
  <2>2. PICK q : q = [recvq EXCEPT ![s] = Tail(@)]
    OBVIOUS
  <2>3. q \in [net.sockets -> Seq(Got)]
    BY <1>1, <1>5, <1>6, <2>2
  <2>4. recvq' = [q EXCEPT ![y] = Append(@, m)] /\ UNCHANGED <<line, sendq>>
    BY <1>6, <2>1, <2>2 DEF PairSendMsg
  <2>5. Append(q[y], m) \in Seq(Got)
    BY <2>3
  <2> QED
    BY <2>3, <2>4, <2>5
<1>7. CASE Forward(s)
  <2>1. PICK t, m : t = net.twin[s] /\ m = Head(recvq[s])
    OBVIOUS
  <2>2. s \in net.sockets /\ recvq[s] # <<>> /\ t \in net.sockets
    BY <1>1, <1>7, <2>1, TheNet DEF Forward
  <2>3. m \in Got /\ Tail(recvq[s]) \in Seq(Got) /\ Sound(m)
    BY <1>5, <2>1, <2>2, GotOut
  <2>4. CASE net.mate[t] = None /\ SocketSendMsg(t, m, s)
    <3>1. recvq' \in [net.sockets -> Seq(Got)]
      BY <1>1, <2>2, <2>3, <2>4 DEF SocketSendMsg
    <3>2. line' \in [net.ends -> Seq(Out)] /\ sendq' \in [net.sockets -> Seq(Out)]
      <4>1. CASE m.ttl = 0
        BY <1>1, <2>4, <4>1 DEF SocketSendMsg
      <4>2. CASE m.ttl # 0
        <5>1. m.ttl \in Nat
          BY <2>3, ByteDef DEF Sound, Mail
        <5>2. m.ttl >= 1
          BY <4>2, <5>1
        <5> QED
          BY <2>2, <2>3, <2>4, <4>2, <5>2, ByTypeKeeps DEF SocketSendMsg
      <4> QED
        BY <4>1, <4>2
    <3> QED
      BY <1>1, <1>2, <1>7, <3>1, <3>2 DEF Forward
  <2>5. CASE net.mate[t] # None /\ PairSendMsg(t, m, s)
    BY <1>1, <1>2, <1>6, <1>7, <2>2, <2>3, <2>5 DEF Forward
  <2> QED
    BY <1>7, <2>1, <2>4, <2>5 DEF Forward
<1>8. CASE ForwardEnds(s)
  <2>1. s \in net.sockets /\ recvq[s] # <<>>
    BY <1>1, <1>8 DEF ForwardEnds
  <2>2. recvq' \in [net.sockets -> Seq(Got)]
    BY <1>1, <1>5, <1>8, <2>1 DEF ForwardEnds
  <2> QED
    BY <1>1, <1>2, <1>8, <2>2 DEF ForwardEnds
<1>9. CASE AppReceives(s)
  <2>1. s \in net.sockets /\ recvq[s] # <<>>
    BY <1>9 DEF AppReceives
  <2>2. PICK m \in Got : m = Head(recvq[s])
    BY <1>5, <2>1
  <2>3. PICK reply : reply = NewSendMessage(FALSE, SendTypeToDest, net.ttl, <<>>, m.source, <<Reply, Asker(m.content)>>)
    OBVIOUS
  <2>4. /\ got' = got \cup {<<s, m>>}
        /\ \/ IsRequest(m) /\ ToDest(s, reply) /\ recvq' = [recvq EXCEPT ![s] = Tail(@)]
           \/ IsRequest(m) /\ net.mate[s] # None /\ PairSendMsg(s, reply, s)
           \/ recvq' = [recvq EXCEPT ![s] = Tail(@)] /\ UNCHANGED <<line, sendq>>
    BY <1>9, <2>2, <2>3 DEF AppReceives
  <2>5. got' \subseteq net.sockets \X Got
    BY <1>1, <2>1, <2>4
  <2>6. [recvq EXCEPT ![s] = Tail(@)] \in [net.sockets -> Seq(Got)]
    BY <1>1, <1>5, <2>1
  <2>7. IsRequest(m) => Sound(reply) /\ reply.ttl >= 1 /\ reply.type = SendTypeToDest
    <3> SUFFICES ASSUME IsRequest(m) PROVE Sound(reply) /\ reply.ttl >= 1 /\ reply.type = SendTypeToDest
      OBVIOUS
    <3>1. Sound(m)
      BY GotOut
    <3>2. PICK d, c : d = m.source /\ c = <<Reply, Asker(m.content)>>
      OBVIOUS
    <3>3. d \in Seq(Letters) /\ Len(d) \in Byte
      BY <3>1, <3>2 DEF Sound, Mail
    <3>4. m.content \in Seq(Letters) /\ Len(m.content) = 1
      BY <3>1 DEF Sound, Mail, IsRequest
    <3>5. Asker(m.content) \in Letters /\ Reply \in Letters
      <4>1. m.content[Len(m.content)] \in Letters
        BY <3>4
      <4> QED
        BY <4>1 DEF Asker, Letters
    <3>6. c \in Seq(Letters) /\ SendTypeToDest \in SendTypes
      BY <3>2, <3>5 DEF SendTypes
    <3>7. reply = Fresh(SendTypeToDest, d, c)
      BY ONLY <2>3, <3>2, Zenon DEF Fresh
    <3> HIDE <2>3
    <3> QED
      BY <1>3, <3>3, <3>6, <3>7, FreshIsSound
  <2>8. IsRequest(m) /\ ToDest(s, reply) => line' \in [net.ends -> Seq(Out)] /\ sendq' \in [net.sockets -> Seq(Out)]
    BY <2>1, <2>7, ByTypeKeeps DEF ByType
  <2>9. IsRequest(m) /\ net.mate[s] # None /\ PairSendMsg(s, reply, s) =>
           recvq' \in [net.sockets -> Seq(Got)] /\ UNCHANGED <<line, sendq>>
    BY <1>6, <2>1, <2>7, GotOut
  <2>10. /\ line' \in [net.ends -> Seq(Out)] /\ sendq' \in [net.sockets -> Seq(Out)]
         /\ recvq' \in [net.sockets -> Seq(Got)]
    BY <1>1, <2>4, <2>6, <2>8, <2>9
  <2> QED
    BY <1>1, <1>2, <1>9, <2>5, <2>10 DEF AppReceives
<1> QED
  BY <1>4, <1>7, <1>8, <1>9 DEF SocketNext

-----------------------------------------------------------------------------
(* The theorems *)

LEMMA MailInitially == Init => MailInv
<1> SUFFICES ASSUME Init PROVE MailInv
  OBVIOUS
<1>1. /\ net \in Nets /\ up = net.ends /\ receiving = net.ends /\ line = [e \in net.ends |-> <<>>]
      /\ sendq = [s \in net.sockets |-> <<>>] /\ recvq = [s \in net.sockets |-> <<>>]
      /\ forwards = {s \in net.sockets : net.twin[s] # None} /\ got = {}
  BY DEF Init
<1>2. <<>> \in Seq(Out) /\ <<>> \in Seq(Got)
  OBVIOUS
<1> QED
  BY <1>1, <1>2 DEF MailInv

LEMMA MailStays == MailInv /\ [Next]_vars => MailInv'
<1> SUFFICES ASSUME MailInv, [Next]_vars PROVE MailInv'
  OBVIOUS
<1>1. CASE UNCHANGED vars
  <2>1. UNCHANGED <<net, up, receiving, line, sendq, recvq, forwards, got>>
    BY <1>1 DEF vars
  <2>2. Got' = Got /\ Out' = Out
    BY <2>1, NetStays
  <2> QED
    BY <2>1, <2>2 DEF MailInv
<1>2. CASE Next
  BY <1>2, EndStep, SocketStep DEF Next
<1> QED
  BY <1>1, <1>2

LEMMA MailAlways == Spec => []MailInv
BY MailInitially, MailStays, PTL DEF Spec

\* What every message that exists satisfies under MailInv.
LEMMA AllAreSound == ASSUME MailInv, NEW m \in Messages PROVE Sound(m)
<1>1. CASE \E g \in got : m = g[2]
  BY <1>1, GotOut DEF MailInv
<1>2. ASSUME NEW q \in Queued, m \in Range(q) PROVE Sound(m)
  <2>1. PICK i \in DOMAIN q : m = q[i]
    BY <1>2 DEF Range
  <2>2. q \in Seq(Out) \/ q \in Seq(Got)
    BY <1>2 DEF MailInv, Queued
  <2>3. m \in Out \/ m \in Got
    BY <2>1, <2>2
  <2> QED
    BY <2>3, GotOut
<1> QED
  BY <1>1, <1>2 DEF Messages

(* However a message was received, forwarded, duplicated or resent, TTL + Hops *)
(* is the budget its sender gave it: no uint8 of the meta data ever wraps      *)
(* (SendMsg stops at TTL 0; NewRawRecvMessage's TTL-- gives 255 with one hop). *)
THEOREM TTLIsConserved == Spec => []TTLConserved
<1>1. MailInv => TTLConserved
  BY AllAreSound DEF Sound, TTLConserved
<1> QED
  BY <1>1, MailAlways, PTL

(* Hops, Distance and Length of every message are the lengths of Source,       *)
(* Destination and Content, so Dup and the next node's reader cut the buffer   *)
(* where the sender did.                                                       *)
THEOREM CountsAgreeWithPaths == Spec => []CountsMatchPaths
<1>1. MailInv => CountsMatchPaths
  BY AllAreSound DEF Sound, CountsMatchPaths
<1> QED
  BY <1>1, MailAlways, PTL

=============================================================================
