--------------------------- MODULE GatewayProofs ----------------------------
(***************************************************************************)
(* The gateway endpoint, for any number of threads and any messages: the   *)
(* lock and the pointer, and what a packet holds and gives back.           *)
(***************************************************************************)
EXTENDS Gateway, FiniteSetTheorems, SequenceTheorems, WellFoundedInduction, TLAPS

Packets == [buf : Seq(Nat), m_read_idx : Nat]

-----------------------------------------------------------------------------
(* Induction.  A set of naturals has a least element, so a property that    *)
(* fails somewhere fails somewhere first.                                   *)

\* A set of naturals that is not empty has a least element.
LEMMA LeastNatural ==
  ASSUME NEW T, T \subseteq Nat, T # {}
  PROVE  \E x \in T : \A y \in T : x <= y
<1> DEFINE R == OpToRel(<, Nat)
<1>1. IsWellFoundedOn(R, Nat)
  BY NatLessThanWellFounded
<1>2. \A x, y \in Nat : y < x => <<y, x>> \in R
  BY DEF OpToRel
<1> HIDE DEF R
<1>3. PICK x \in T : \A y \in T : ~(<<y, x>> \in R)
  BY <1>1, WFMin, Zenon
<1>4. \A y \in T : ~(y < x)
  BY <1>2, <1>3
<1> QED BY <1>4

\* A set with 0, and with n + 1 when n is in it, has all numbers to the bound.
LEMMA Induction ==
  ASSUME NEW P, NEW m \in Nat, 0 \in P, \A n \in 0..m-1 : n \in P => n + 1 \in P
  PROVE  \A n \in 0..m : n \in P
<1> SUFFICES ASSUME NEW k \in 0..m, k \notin P PROVE FALSE
  OBVIOUS
<1> DEFINE T == {n \in 0..m : n \notin P}
<1>1. T \subseteq Nat /\ k \in T
  OBVIOUS
<1> HIDE DEF T
<1>2. PICK x \in T : \A y \in T : x <= y
  BY <1>1, LeastNatural
<1>3. x \in 0..m /\ x \notin P /\ x # 0
  BY <1>2 DEF T
<1>4. x - 1 \in 0..m-1 /\ x - 1 \in 0..m /\ ~(x <= x - 1)
  BY <1>3
<1>5. x - 1 \in P
  BY <1>2, <1>4 DEF T
<1>6. (x - 1) + 1 \in P
  BY <1>4, <1>5
<1> QED BY <1>3, <1>6

\* h begins with base, and G takes each value, up to k, from the one before.
Recurses(h, base, G, k) == h[0] = base /\ \A n \in 1..k : h[n] = G[h[n-1]][n]

\* A recursive function exists.
LEMMA Recursion ==
  ASSUME NEW V, NEW m \in Nat, NEW base \in V, NEW G \in [V -> [1..m -> V]]
  PROVE  \E h \in [0..m -> V] : Recurses(h, base, G, m)
<1> DEFINE P == {k \in 0..m : \E h \in [0..m -> V] : Recurses(h, base, G, k)}
<1> USE DEF Recurses
<1>1. 0 \in P
  <2> DEFINE h0 == [n \in 0..m |-> base]
  <2>1. h0 \in [0..m -> V] /\ h0[0] = base
    OBVIOUS
  <2> HIDE DEF h0
  <2> QED BY <2>1
<1>2. ASSUME NEW k \in 0..m-1, k \in P PROVE k + 1 \in P
  <2>1. PICK h \in [0..m -> V] : Recurses(h, base, G, k)
    BY <1>2
  <2> DEFINE g == [n \in 0..m |-> IF n = k + 1 THEN G[h[k]][k+1] ELSE h[n]]
  <2>2. k \in 0..m /\ k + 1 \in 1..m /\ k + 1 \in 0..m /\ h[k] \in V
    BY <2>1
  <2>3. g \in [0..m -> V]
    BY <2>1, <2>2
  <2>4. \A n \in 0..m : g[n] = IF n = k + 1 THEN G[h[k]][k+1] ELSE h[n]
    OBVIOUS
  <2> HIDE DEF g
  <2>5. g[0] = base
    BY <2>1, <2>2, <2>4
  <2>6. ASSUME NEW n \in 1..k+1 PROVE g[n] = G[g[n-1]][n]
    <3>1. n \in 0..m /\ n - 1 \in 0..m /\ n - 1 # k + 1
      BY <2>2, <2>6
    <3>2. g[n-1] = h[n-1]
      BY <2>4, <3>1
    <3>3. CASE n = k + 1
      BY <2>2, <2>4, <3>2, <3>3
    <3>4. CASE n # k + 1
      <4>1. n \in 1..k
        BY <2>2, <2>6, <3>4
      <4> QED BY <2>1, <2>4, <3>1, <3>2, <3>4, <4>1
    <3> QED BY <3>3, <3>4
  <2> QED BY <2>2, <2>3, <2>5, <2>6
<1>3. m \in P
  <2>1. \A n \in 0..m : n \in P
    <3> HIDE DEF P
    <3> QED BY <1>1, <1>2, Induction
  <2>2. m \in 0..m
    OBVIOUS
  <2> HIDE DEF P
  <2> QED BY <2>1, <2>2
<1> QED BY <1>3

-----------------------------------------------------------------------------
(* Packets. *)

\* The constants, as the leaves below use them.
LEMMA PacketConstants ==
  MaxPacketSize \in Nat /\ LenMod \in Nat /\ LenMod > 0 /\ SizeofSizeT \in Nat
  /\ SizeofSizeT > 0
BY PacketAssumption

\* The 16 bits of a length.
Cut(f) == IF f.kind = "string" THEN strlen(f.v) % LenMod ELSE Len(f.v) % LenMod

\* What a field adds to the buffer.
Chunk(f) == IF f.kind = "T" THEN f.v
            ELSE IF f.kind = "string" THEN <<Cut(f)>> \o SubSeq(f.v, 1, Cut(f))
            ELSE <<Cut(f)>> \o f.v

\* Length and cells of a concatenation.
LEMMA SeqFacts ==
  ASSUME NEW a \in Seq(Nat), NEW b \in Seq(Nat)
  PROVE  /\ a \o b \in Seq(Nat) /\ Len(a \o b) = Len(a) + Len(b)
         /\ Len(a) \in Nat /\ Len(b) \in Nat
         /\ \A i \in 1..Len(a) : (a \o b)[i] = a[i]
         /\ \A i \in 1..Len(b) : (a \o b)[Len(a) + i] = b[i]
OBVIOUS

\* Concatenation is associative.
LEMMA Associative ==
  ASSUME NEW a \in Seq(Nat), NEW b \in Seq(Nat), NEW c \in Seq(Nat)
  PROVE  (a \o b) \o c = a \o (b \o c)
BY ConcatAssociative

\* Sequences of the same cells are equal.
LEMMA SameCells ==
  ASSUME NEW a \in Seq(Nat), NEW b \in Seq(Nat), Len(a) = Len(b),
         \A i \in 1..Len(a) : a[i] = b[i]
  PROVE  a = b
BY SeqEqual

\* A length written before the cells it counts.
LEMMA Prefixed ==
  ASSUME NEW x \in Nat, NEW b \in Seq(Nat)
  PROVE  /\ <<x>> \in Seq(Nat) /\ <<x>> \o b \in Seq(Nat)
         /\ Len(<<x>> \o b) = 1 + Len(b)
         /\ (<<x>> \o b)[1] = x
         /\ \A i \in 1..Len(b) : (<<x>> \o b)[1 + i] = b[i]
<1> DEFINE a == <<x>>
<1>1. a \in Seq(Nat) /\ Len(a) = 1 /\ a[1] = x
  OBVIOUS
<1> HIDE DEF a
<1>2. /\ a \o b \in Seq(Nat) /\ Len(a \o b) = Len(a) + Len(b)
      /\ \A i \in 1..Len(a) : (a \o b)[i] = a[i]
      /\ \A i \in 1..Len(b) : (a \o b)[Len(a) + i] = b[i]
  BY <1>1, SeqFacts
<1>3. (a \o b)[1] = a[1]
  <2>1. 1 \in 1..Len(a)
    BY <1>1
  <2> QED BY <1>2, <2>1
<1> QED BY <1>1, <1>2, <1>3 DEF a

\* What n % LenMod keeps of n.
LEMMA Modulus ==
  ASSUME NEW n \in Nat
  PROVE  /\ n % LenMod \in 0..LenMod-1 /\ n % LenMod <= n
         /\ n < LenMod => n % LenMod = n
<1> DEFINE d == n \div LenMod
           k == n % LenMod
<1>0. LenMod \in Nat /\ LenMod > 0
  BY PacketConstants
<1>1. d \in Int /\ k \in 0..LenMod-1 /\ n = LenMod * d + k
  BY <1>0
<1> HIDE DEF d, k
<1>2. CASE d >= 1
  <2>1. LenMod * d >= LenMod
    BY <1>0, <1>1, <1>2
  <2> QED BY <1>0, <1>1, <2>1 DEF k
<1>3. CASE d = 0
  BY <1>0, <1>1, <1>3 DEF k
<1>4. CASE d <= -1
  <2>1. LenMod * d <= -LenMod
    BY <1>0, <1>1, <1>4
  <2> QED BY <1>0, <1>1, <2>1 DEF k
<1> QED BY <1>1, <1>2, <1>3, <1>4

\* A C string is no longer than the sequence it begins.
LEMMA StrlenFacts ==
  ASSUME NEW s \in Seq(Nat)
  PROVE  strlen(s) \in 0..Len(s)
<1> DEFINE Ends(n) == (\A i \in 1..n : s[i] # 0) /\ (n = Len(s) \/ s[n + 1] = 0)
           Z == {i \in 1..Len(s) : s[i] = 0}
<1>0. Len(s) \in Nat
  OBVIOUS
<1>1. \E n \in 0..Len(s) : Ends(n)
  <2>1. CASE Z = {}
    <3>1. Ends(Len(s))
      BY <1>0, <2>1
    <3> HIDE DEF Ends
    <3> QED BY <1>0, <3>1
  <2>2. CASE Z # {}
    <3>1. Z \subseteq Nat
      BY <1>0
    <3>2. PICK z \in Z : \A y \in Z : z <= y
      <4> HIDE DEF Z
      <4> QED BY <2>2, <3>1, LeastNatural
    <3>3. z \in 1..Len(s) /\ s[z] = 0
      BY <3>2
    <3>4. z - 1 \in 0..Len(s) /\ (z - 1) + 1 = z
      BY <1>0, <3>3
    <3>5. \A i \in 1..z-1 : s[i] # 0
      <4> SUFFICES ASSUME NEW i \in 1..z-1, s[i] = 0 PROVE FALSE
        OBVIOUS
      <4>1. i \in 1..Len(s) /\ ~(z <= i)
        BY <1>0, <3>3
      <4> QED BY <3>2, <4>1
    <3>6. Ends(z - 1)
      BY <3>3, <3>4, <3>5
    <3> HIDE DEF Ends
    <3> QED BY <3>4, <3>6
  <2> QED BY <2>1, <2>2
<1>2. strlen(s) = CHOOSE n \in 0..Len(s) : Ends(n)
  BY Zenon DEF strlen
<1> HIDE DEF Ends
<1> QED BY <1>1, <1>2, Zenon

\* The 16 bits of a length never say more than the length.
LEMMA CutFacts ==
  ASSUME NEW f \in Field
  PROVE  /\ f.v \in Seq(Nat) /\ Len(f.v) \in Nat
         /\ f.kind \in {"T", "string", "array"}
         /\ Cut(f) \in 0..LenMod-1 /\ Cut(f) \in Nat /\ Cut(f) <= Len(f.v)
         /\ f.kind = "array" /\ Len(f.v) < LenMod => Cut(f) = Len(f.v)
<1>1. f.v \in Seq(Nat) /\ Len(f.v) \in Nat /\ f.kind \in {"T", "string", "array"}
  BY DEF Field
<1>2. CASE f.kind = "string"
  <2> DEFINE n == strlen(f.v)
             m == n % LenMod
  <2>1. n \in 0..Len(f.v)
    BY <1>1, StrlenFacts
  <2>2. m \in 0..LenMod-1 /\ m <= n
    <3>1. n \in Nat
      BY <1>1, <2>1
    <3> HIDE DEF n
    <3> QED BY <3>1, Modulus
  <2>3. Cut(f) = m
    BY <1>2 DEF Cut
  <2> HIDE DEF n, m
  <2> QED BY <1>1, <1>2, <2>1, <2>2, <2>3, PacketConstants
<1>3. CASE f.kind # "string"
  <2>1. /\ Cut(f) \in 0..LenMod-1 /\ Cut(f) <= Len(f.v)
        /\ Len(f.v) < LenMod => Cut(f) = Len(f.v)
    BY <1>1, <1>3, Modulus DEF Cut
  <2> QED BY <1>1, <2>1, PacketConstants
<1> QED BY <1>2, <1>3

\* Where the length and the cells of a field are in its chunk.
LEMMA ChunkFacts ==
  ASSUME NEW f \in Field
  PROVE  /\ Chunk(f) \in Seq(Nat) /\ Len(Chunk(f)) \in Nat
         /\ f.kind = "T" => Chunk(f) = f.v
         /\ f.kind = "string" =>
              /\ Len(Chunk(f)) = 1 + Cut(f) /\ Chunk(f)[1] = Cut(f)
              /\ \A i \in 1..Cut(f) : Chunk(f)[1 + i] = f.v[i]
         /\ f.kind = "array" =>
              /\ Len(Chunk(f)) = 1 + Len(f.v) /\ Chunk(f)[1] = Cut(f)
              /\ \A i \in 1..Len(f.v) : Chunk(f)[1 + i] = f.v[i]
<1> DEFINE part == SubSeq(f.v, 1, Cut(f))
<1>0. /\ f.v \in Seq(Nat) /\ Len(f.v) \in Nat /\ Cut(f) \in Nat /\ Cut(f) <= Len(f.v)
      /\ f.kind \in {"T", "string", "array"}
  BY CutFacts
<1>2. part \in Seq(Nat) /\ Len(part) = Cut(f) /\ \A i \in 1..Cut(f) : part[i] = f.v[i]
  BY <1>0
<1> HIDE DEF part
<1>3. CASE f.kind = "T"
  BY <1>0, <1>3 DEF Chunk
<1>4. CASE f.kind = "string"
  <2>1. Chunk(f) = <<Cut(f)>> \o part
    BY <1>4 DEF Chunk, part
  <2>2. /\ Chunk(f) \in Seq(Nat) /\ Len(Chunk(f)) = 1 + Len(part) /\ Chunk(f)[1] = Cut(f)
        /\ \A i \in 1..Len(part) : Chunk(f)[1 + i] = part[i]
    BY <1>0, <1>2, <2>1, Prefixed
  <2> QED BY <1>0, <1>2, <1>4, <2>2, SMTT(20)
<1>5. CASE f.kind = "array"
  <2>1. Chunk(f) = <<Cut(f)>> \o f.v
    BY <1>5 DEF Chunk
  <2>2. /\ Chunk(f) \in Seq(Nat) /\ Len(Chunk(f)) = 1 + Len(f.v) /\ Chunk(f)[1] = Cut(f)
        /\ \A i \in 1..Len(f.v) : Chunk(f)[1 + i] = f.v[i]
    BY <1>0, <2>1, Prefixed
  <2> QED BY <1>0, <1>5, <2>2
<1> QED BY <1>0, <1>3, <1>4, <1>5

\* put adds the field's chunk or leaves the packet as it is.
LEMMA PutFacts ==
  ASSUME NEW p \in Packets, NEW f \in Field, Len(p.buf) <= MaxPacketSize
  PROVE  \/ Put(p, f) = [ok |-> FALSE, p |-> p]
         \/ /\ Put(p, f) = [ok |-> TRUE,
                            p |-> [buf |-> p.buf \o Chunk(f), m_read_idx |-> p.m_read_idx]]
            /\ Len(p.buf) + Len(Chunk(f)) <= MaxPacketSize
<1>0. /\ p.buf \in Seq(Nat) /\ Len(p.buf) \in Nat
      /\ f.v \in Seq(Nat) /\ Len(f.v) \in Nat /\ Cut(f) \in Nat /\ Cut(f) <= Len(f.v)
      /\ f.kind \in {"T", "string", "array"}
      /\ MaxPacketSize \in Nat /\ SizeofSizeT \in Nat /\ SizeofSizeT > 0
  BY CutFacts, PacketConstants DEF Packets
<1>a. \A x : [p EXCEPT !.buf = x] = [buf |-> x, m_read_idx |-> p.m_read_idx]
  BY DEF Packets
<1>b. <<Cut(f)>> \in Seq(Nat) /\ SubSeq(f.v, 1, Cut(f)) \in Seq(Nat)
  BY <1>0
<1>1. CASE f.kind = "T"
  <2>1. Put(p, f) = IF MaxPacketSize - Len(p.buf) < Len(f.v) THEN [ok |-> FALSE, p |-> p]
                    ELSE [ok |-> TRUE, p |-> [p EXCEPT !.buf = p.buf \o f.v]]
    BY <1>1, Zenon DEF Put, putT, write_size
  <2>2. Chunk(f) = f.v
    BY <1>1 DEF Chunk
  <2>3. CASE MaxPacketSize - Len(p.buf) < Len(f.v)
    BY <2>1, <2>3
  <2>4. CASE ~(MaxPacketSize - Len(p.buf) < Len(f.v))
    <3>1. Len(Chunk(f)) = Len(f.v)
      BY <2>2
    <3>2. Len(p.buf) + Len(Chunk(f)) <= MaxPacketSize
      <4>1. \A room, n, k \in Nat : ~(room - n < k) => n + k <= room
        OBVIOUS
      <4> QED BY <1>0, <2>4, <3>1, <4>1, Zenon
    <3> QED BY <1>a, <2>1, <2>2, <2>4, <3>2, Zenon
  <2> QED BY <2>3, <2>4
<1>2. CASE f.kind = "string"
  <2>1. Put(p, f) = IF MaxPacketSize - Len(p.buf) < 1 + Cut(f) THEN [ok |-> FALSE, p |-> p]
                    ELSE [ok |-> TRUE, p |-> [p EXCEPT !.buf =
                            (p.buf \o <<Cut(f)>>) \o SubSeq(f.v, 1, Cut(f))]]
    BY <1>2, Zenon DEF Put, putString, write_size, SizeofLen, Cut
  <2>2. p.buf \o Chunk(f) = (p.buf \o <<Cut(f)>>) \o SubSeq(f.v, 1, Cut(f))
    <3>1. Chunk(f) = <<Cut(f)>> \o SubSeq(f.v, 1, Cut(f))
      BY <1>2 DEF Chunk
    <3>2. (p.buf \o <<Cut(f)>>) \o SubSeq(f.v, 1, Cut(f)) = p.buf \o (<<Cut(f)>> \o SubSeq(f.v, 1, Cut(f)))
      BY <1>0, <1>b, Associative
    <3> QED BY <3>1, <3>2
  <2>3. CASE MaxPacketSize - Len(p.buf) < 1 + Cut(f)
    BY <2>1, <2>3
  <2>4. CASE ~(MaxPacketSize - Len(p.buf) < 1 + Cut(f))
    <3>1. Len(p.buf) + Len(Chunk(f)) <= MaxPacketSize
      BY <1>0, <1>2, <2>4, ChunkFacts
    <3> QED BY <1>a, <2>1, <2>2, <2>4, <3>1, Zenon
  <2> QED BY <2>3, <2>4
<1>3. CASE f.kind = "array"
  <2>1. Put(p, f) = IF MaxPacketSize - Len(p.buf) < SizeofSizeT + Len(f.v)
                    THEN [ok |-> FALSE, p |-> p]
                    ELSE [ok |-> TRUE, p |-> [p EXCEPT !.buf = (p.buf \o <<Cut(f)>>) \o f.v]]
    BY <1>3, Zenon DEF Put, putArray, write_size, Cut
  <2>2. p.buf \o Chunk(f) = (p.buf \o <<Cut(f)>>) \o f.v
    <3>1. Chunk(f) = <<Cut(f)>> \o f.v
      BY <1>3 DEF Chunk
    <3>2. (p.buf \o <<Cut(f)>>) \o f.v = p.buf \o (<<Cut(f)>> \o f.v)
      BY <1>0, <1>b, Associative
    <3> QED BY <3>1, <3>2
  <2>3. CASE MaxPacketSize - Len(p.buf) < SizeofSizeT + Len(f.v)
    BY <2>1, <2>3
  <2>4. CASE ~(MaxPacketSize - Len(p.buf) < SizeofSizeT + Len(f.v))
    <3>1. Len(p.buf) + Len(Chunk(f)) <= MaxPacketSize
      BY <1>0, <1>3, <2>4, ChunkFacts
    <3> QED BY <1>a, <2>1, <2>2, <2>4, <3>1, Zenon
  <2> QED BY <2>3, <2>4
<1> QED BY <1>0, <1>1, <1>2, <1>3

-----------------------------------------------------------------------------
(* The packet after each put of a message. *)

\* What serialize_packet leaves: a packet that fits, never read from.
Filled == [p : {q \in Packets : Len(q.buf) <= MaxPacketSize /\ q.m_read_idx = 0},
           whole : BOOLEAN]

EmptyPacket == [p |-> NewPacket, whole |-> TRUE]

\* One put more.
WithField(e, f) == [p |-> Put(e.p, f).p, whole |-> e.whole /\ Put(e.p, f).ok]

\* A new packet fits.
LEMMA EmptyIsFilled == EmptyPacket \in Filled
<1>1. <<>> \in Seq(Nat) /\ Len(<<>>) = 0
  OBVIOUS
<1> QED BY <1>1, PacketConstants DEF EmptyPacket, NewPacket, Filled, Packets

\* put keeps to the room there is, and tells when it does not add.
LEMMA WithFieldIsFilled ==
  ASSUME NEW e \in Filled, NEW f \in Field
  PROVE  /\ WithField(e, f) \in Filled
         /\ WithField(e, f).whole =>
              e.whole /\ WithField(e, f).p.buf = e.p.buf \o Chunk(f)
<1>1. /\ e.p \in Packets /\ Len(e.p.buf) <= MaxPacketSize /\ e.p.m_read_idx = 0
      /\ e.whole \in BOOLEAN /\ e.p.buf \in Seq(Nat)
  BY DEF Filled, Packets
<1>2. CASE Put(e.p, f) = [ok |-> FALSE, p |-> e.p]
  <2>0. Put(e.p, f).p = e.p /\ Put(e.p, f).ok = FALSE
    BY <1>2
  <2>1. WithField(e, f) = [p |-> e.p, whole |-> FALSE]
    BY <1>1, <2>0, Zenon DEF WithField
  <2> QED BY <1>1, <2>1 DEF Filled
<1>3. CASE /\ Put(e.p, f) = [ok |-> TRUE,
                             p |-> [buf |-> e.p.buf \o Chunk(f), m_read_idx |-> e.p.m_read_idx]]
           /\ Len(e.p.buf) + Len(Chunk(f)) <= MaxPacketSize
  <2> DEFINE q == [buf |-> e.p.buf \o Chunk(f), m_read_idx |-> 0]
  <2>0. Put(e.p, f).p = q /\ Put(e.p, f).ok = TRUE
    BY <1>1, <1>3
  <2>a. (e.whole /\ TRUE) = e.whole
    BY <1>1
  <2>1. WithField(e, f) = [p |-> q, whole |-> e.whole]
    BY <2>0, <2>a, Zenon DEF WithField
  <2>2. Chunk(f) \in Seq(Nat)
    BY ChunkFacts
  <2>3. /\ e.p.buf \o Chunk(f) \in Seq(Nat)
        /\ Len(e.p.buf \o Chunk(f)) = Len(e.p.buf) + Len(Chunk(f))
    BY <1>1, <2>2, SeqFacts
  <2>4. q \in Packets /\ Len(q.buf) <= MaxPacketSize /\ q.m_read_idx = 0
    BY <1>3, <2>3 DEF Packets
  <2>5. q.buf = e.p.buf \o Chunk(f)
    OBVIOUS
  <2> HIDE DEF q
  <2>6. WithField(e, f) \in Filled
    BY <1>1, <2>1, <2>4 DEF Filled
  <2> QED BY <2>1, <2>5, <2>6
<1> QED BY <1>1, <1>2, <1>3, PutFacts

\* Encoding is the recursive function it is written as.
LEMMA EncodingFacts ==
  ASSUME NEW fields \in Seq(Field)
  PROVE  /\ Encoding(fields)[0] = EmptyPacket
         /\ \A n \in 1..Len(fields) :
              Encoding(fields)[n] = WithField(Encoding(fields)[n-1], fields[n])
         /\ \A n \in 0..Len(fields) : Encoding(fields)[n] \in Filled
<1> DEFINE m == Len(fields)
           E == Encoding(fields)
           G == [e \in Filled |-> [n \in 1..m |-> WithField(e, fields[n])]]
           Body(h) == [n \in 0..m |-> IF n = 0 THEN EmptyPacket
                                              ELSE WithField(h[n-1], fields[n])]
<1>0. m \in Nat /\ \A n \in 1..m : fields[n] \in Field
  OBVIOUS
<1>1. G \in [Filled -> [1..m -> Filled]]
  BY <1>0, WithFieldIsFilled
<1>2. \A e \in Filled, n \in 1..m : G[e][n] = WithField(e, fields[n])
  OBVIOUS
<1>3. E = CHOOSE h : h = Body(h)
  BY Zenon DEF Encoding, EmptyPacket, WithField
<1> HIDE DEF G, E, m
<1>4. PICK h \in [0..m -> Filled] : Recurses(h, EmptyPacket, G, m)
  <2>1. m \in Nat /\ EmptyPacket \in Filled
    BY <1>0, EmptyIsFilled
  <2> HIDE DEF Body
  <2> QED BY <1>1, <2>1, Recursion, Zenon
<1>5. ASSUME NEW n \in 0..m
      PROVE  h[n] = IF n = 0 THEN EmptyPacket ELSE WithField(h[n-1], fields[n])
  <2>1. CASE n = 0
    BY <1>4, <2>1 DEF Recurses
  <2>2. CASE n # 0
    <3>1. n \in 1..m /\ n - 1 \in 0..m
      BY <1>0, <2>2
    <3> QED BY <1>2, <1>4, <2>2, <3>1 DEF Recurses
  <2> QED BY <2>1, <2>2
<1>6. h = Body(h)
  BY <1>4, <1>5
<1>7. E = Body(E)
  <2> HIDE DEF Body
  <2> QED BY <1>3, <1>6, Zenon
<1>8. E[0] = EmptyPacket /\ \A n \in 1..m : E[n] = WithField(E[n-1], fields[n])
  BY <1>0, <1>7
<1>9. \A n \in 0..m : E[n] \in Filled
  <2> DEFINE P == {n \in 0..m : E[n] \in Filled}
  <2>1. 0 \in P
    BY <1>0, <1>8, EmptyIsFilled
  <2>2. \A n \in 0..m-1 : n \in P => n + 1 \in P
    <3>1. SUFFICES ASSUME NEW n \in 0..m-1, E[n] \in Filled PROVE E[n+1] \in Filled
      BY <1>0
    <3>2. n + 1 \in 1..m /\ (n + 1) - 1 = n
      BY <1>0
    <3>3. E[n+1] = WithField(E[n], fields[n+1])
      BY <1>8, <3>2
    <3> QED BY <1>0, <3>1, <3>2, <3>3, WithFieldIsFilled
  <2>3. \A n \in 0..m : n \in P
    <3> HIDE DEF P
    <3> QED BY <1>0, <2>1, <2>2, Induction
  <2> QED BY <2>3
<1> QED BY <1>8, <1>9 DEF E, m

-----------------------------------------------------------------------------
(* The endpoint. *)

ConnRecord == [class : {"TcpConnection", "McastConnection"}, open : BOOLEAN]

SentRecord == [p : Packets, fields : Seq(Field), by : {{t} : t \in Threads}, whole : BOOLEAN]

\* Some thread has the lock or none; only a client connects, and no call of a
\* client goes on after its first step; a pointer that was tested is only lost
\* to on_disconnect.
LockInv ==
  /\ m_lock \in Threads \cup {Free}
  /\ conns \in Seq(ConnRecord)
  /\ side = "client" => \A t \in Threads : pc[t] = "idle"
  /\ \A t \in Threads : pc[t] # "idle" => is_connected \/ t \in dropped

\* m_packet holds the fields put so far by the thread that is in send_packet.
PacketInv ==
  /\ msg \in [Threads -> Seq(Field)] /\ nput \in [Threads -> Nat]
  /\ m_packet \in Packets
  /\ \A t \in Threads : pc[t] # "put" => nput[t] = 0
  /\ \A t \in Threads : pc[t] = "put" =>
       /\ Len(msg[t]) > 0
       /\ putters = IF nput[t] = 0 THEN {} ELSE {t}
       /\ [p |-> m_packet, whole |-> whole] = Encoding(msg[t])[nput[t]]

\* What was sent are the fields put into a new packet, by one thread.
SentInv ==
  /\ sent \in Seq(SentRecord)
  /\ \A i \in 1..Len(sent) :
       [p |-> sent[i].p, whole |-> sent[i].whole] = Encoded(sent[i].fields)

GatewayInv == /\ TypeOK /\ LockInv /\ PacketInv /\ SentInv
              /\ NullOnlyAfterDrop

\* Nobody is inside a call when the lock is free, and no other thread is when
\* one is.
LEMMA OneInside ==
  ASSUME GatewayInv
  PROVE  /\ m_lock = Free => \A u \in Threads : pc[u] = "idle"
         /\ \A t, u \in Threads : pc[t] # "idle" /\ u # t => pc[u] = "idle"
BY ThreadsAssumption DEF GatewayInv, TypeOK

\* The packet after one more put is the next one of the message's encoding.
LEMMA NextOfEncoding ==
  ASSUME NEW fields \in Seq(Field), NEW n \in Nat, n < Len(fields), NEW p, NEW w,
         [p |-> p, whole |-> w] = Encoding(fields)[n]
  PROVE  /\ [p |-> Put(p, fields[n+1]).p, whole |-> w /\ Put(p, fields[n+1]).ok]
              = Encoding(fields)[n+1]
         /\ Encoding(fields)[n+1] \in Filled
<1> DEFINE E == Encoding(fields)
<1>1. n + 1 \in 1..Len(fields) /\ n + 1 \in 0..Len(fields) /\ (n + 1) - 1 = n
  OBVIOUS
<1>2. E[n+1] = WithField(E[n], fields[n+1]) /\ E[n+1] \in Filled
  BY <1>1, EncodingFacts
<1>3. E[n].p = p /\ E[n].whole = w
  <2>1. [p |-> p, whole |-> w].p = p /\ [p |-> p, whole |-> w].whole = w
    BY Zenon
  <2> QED BY <2>1, Zenon
<1> QED BY <1>2, <1>3, Zenon DEF WithField

\* So a whole message fits its packet.
LEMMA EncodedFacts ==
  ASSUME NEW fields \in Seq(Field)
  PROVE  Encoded(fields) \in Filled
BY EncodingFacts DEF Encoded

\* The invariant holds of a new client and a new server.
LEMMA GatewayInit == Init => GatewayInv
<1> SUFFICES ASSUME Init PROVE GatewayInv
  OBVIOUS
<1> USE DEF Init
<1>1. /\ conns \in Seq(ConnRecord) /\ m_conn \in 0..Len(conns)
      /\ side = "client" => conns = <<>>
  <2> DEFINE c == [class |-> "TcpConnection", open |-> TRUE]
  <2>1. c \in ConnRecord
    BY DEF ConnRecord
  <2> HIDE DEF c
  <2>2. CASE side = "server"
    <3>1. conns = <<c>>
      BY <2>2 DEF c
    <3>2. <<c>> \in Seq(ConnRecord) /\ Len(<<c>>) = 1
      BY <2>1
    <3>3. m_conn = 1
      BY <3>1, <3>2
    <3> HIDE DEF Init
    <3>4. conns \in Seq(ConnRecord) /\ m_conn \in 0..Len(conns)
      BY <3>1, <3>2, <3>3
    <3> QED BY <2>2, <3>4
  <2>3. CASE side = "client"
    <3>1. conns = <<>>
      BY <2>3
    <3> QED BY <2>3, <3>1
  <2> QED BY <2>2, <2>3
<1>2. NewPacket \in Packets /\ Len(NewPacket.buf) <= MaxPacketSize /\ NewPacket.m_read_idx = 0
  BY EmptyIsFilled DEF EmptyPacket, Filled
<1>3. TypeOK
  <2>1. \A t \in Threads : m_lock = t <=> pc[t] # "idle"
    BY ThreadsAssumption
  <2>2. \A t \in Threads : nput[t] \in 0..Len(msg[t])
    OBVIOUS
  <2>3. /\ pc \in [Threads -> {"idle", "put", "send", "close"}]
        /\ ret \in [Threads -> {"none", "true", "false", "void", "throw"}]
    OBVIOUS
  <2> QED BY <1>1, <1>2, <2>1, <2>2, <2>3 DEF TypeOK
<1>4. LockInv
  BY <1>1 DEF LockInv
<1>5. PacketInv
  BY <1>2 DEF PacketInv
<1>6. SentInv
  BY DEF SentInv
<1> QED BY <1>1, <1>3, <1>4, <1>5, <1>6 DEF GatewayInv, NullOnlyAfterDrop, Running

-----------------------------------------------------------------------------
(* The steps of a client, and the io thread's: no packet is touched. *)

\* Steps that leave packets and messages alone.
LEMMA PacketsUntouched ==
  ASSUME GatewayInv, UNCHANGED <<msg, nput, pc, packetVars, sent>>
  PROVE  PacketInv' /\ SentInv'
<1>1. PacketInv'
  BY DEF GatewayInv, PacketInv, packetVars
<1>2. SentInv'
  BY DEF GatewayInv, SentInv
<1> QED BY <1>1, <1>2

\* on_disconnect clears the pointer, and notes from whom in dropped.
LEMMA OnDisconnectStep ==
  ASSUME GatewayInv, on_disconnect
  PROVE  GatewayInv'
<1> USE DEF on_disconnect
<1>1. TypeOK'
  BY DEF GatewayInv, TypeOK, packetVars
<1>2. LockInv'
  BY DEF GatewayInv, LockInv, is_connected
<1>3. PacketInv' /\ SentInv'
  BY PacketsUntouched
<1>4. NullOnlyAfterDrop'
  BY DEF GatewayInv, NullOnlyAfterDrop, Running
<1> QED BY <1>1, <1>2, <1>3, <1>4 DEF GatewayInv

\* connect keeps a connection only if it is open at once: multicast.
LEMMA ConnectStep ==
  ASSUME GatewayInv, NEW t \in Threads, NEW url \in Urls, NEW opened \in BOOLEAN,
         NEW listened \in BOOLEAN, connect(t, url, opened, listened)
  PROVE  GatewayInv'
<1> DEFINE Others == /\ m_lock = Free
                     /\ UNCHANGED <<m_lock, pc, msg, nput, side, packetVars, sent, dropped>>
                     /\ side = "client"
           Ret(r) == ret' = [ret EXCEPT ![t] = r]
           m == [class |-> "McastConnection", open |-> TRUE]
<1>1. /\ Others /\ status = Running
      /\ \/ Ret("throw") /\ UNCHANGED <<m_conn, conns, status>>
         \/ Ret("none") /\ m_conn' = 0 /\ status' = "null_connect" /\ UNCHANGED conns
         \/ Ret("false") /\ m_conn' = 0 /\ UNCHANGED <<conns, status>>
         \/ Ret("true") /\ conns' = Append(conns, m) /\ m_conn' = Len(conns') /\ UNCHANGED status
  BY Zenon DEF connect, Begins, Atomic, OpenWhenCreated
<1>2. /\ conns' \in Seq(ConnRecord) /\ m_conn' \in 0..Len(conns')
  <2>0. /\ conns \in Seq(ConnRecord) /\ m_conn \in 0..Len(conns)
    BY <1>1 DEF GatewayInv, LockInv, TypeOK
  <2>1. CASE conns' = conns /\ m_conn' \in {0, m_conn}
    BY <2>0, <2>1
  <2>2. CASE conns' = Append(conns, m) /\ m_conn' = Len(conns')
    <3>1. m \in ConnRecord
      BY DEF ConnRecord
    <3> HIDE DEF m
    <3> QED BY <2>0, <2>2, <3>1
  <2> QED BY <1>1, <2>1, <2>2
<1>3. TypeOK'
  <2>1. ret' \in [Threads -> {"none", "true", "false", "void", "throw"}]
    BY <1>1 DEF GatewayInv, TypeOK
  <2>2. status' \in {Running, "null_connect"}
    BY <1>1
  <2> QED BY <1>1, <1>2, <2>1, <2>2 DEF GatewayInv, TypeOK, packetVars
<1>4. LockInv'
  BY <1>1, <1>2 DEF GatewayInv, LockInv
<1>5. PacketInv' /\ SentInv'
  BY <1>1, PacketsUntouched
<1>6. NullOnlyAfterDrop'
  BY <1>1, <1>2 DEF GatewayInv, NullOnlyAfterDrop, Running
<1> QED BY <1>3, <1>4, <1>5, <1>6 DEF GatewayInv

\* A closed connection is one.
LEMMA ClosedIsConn ==
  ASSUME NEW c \in ConnRecord
  PROVE  Closed(c) \in ConnRecord
BY DEF Closed, ConnRecord

\* disconnect closes the connection there is.
LEMMA ClientDisconnectStep ==
  ASSUME GatewayInv, NEW t \in Threads, clientDisconnect(t)
  PROVE  GatewayInv'
<1>1. /\ m_lock = Free /\ side = "client" /\ m_conn' = 0
      /\ UNCHANGED <<m_lock, pc, msg, nput, side, packetVars, sent, dropped, status>>
      /\ ret' = [ret EXCEPT ![t] = "void"]
  BY DEF clientDisconnect, Atomic
<1>2. conns' \in Seq(ConnRecord) /\ Len(conns') \in Nat
  <2>0. conns \in Seq(ConnRecord) /\ m_conn \in 0..Len(conns)
    BY <1>1 DEF GatewayInv, LockInv, TypeOK
  <2>1. CASE is_connected
    <3>1. m_conn \in 1..Len(conns)
      BY <2>0, <2>1 DEF is_connected
    <3>2. Closed(conns[m_conn]) \in ConnRecord
      BY <2>0, <3>1, ClosedIsConn
    <3>3. conns' = [conns EXCEPT ![m_conn] = Closed(conns[m_conn])]
      BY <2>1 DEF clientDisconnect
    <3> QED BY <2>0, <3>1, <3>2, <3>3
  <2> QED BY <2>0, <2>1 DEF clientDisconnect
<1>3. TypeOK'
  BY <1>1, <1>2 DEF GatewayInv, TypeOK, packetVars, LockInv
<1>4. LockInv'
  BY <1>1, <1>2 DEF GatewayInv, LockInv
<1>5. PacketInv' /\ SentInv'
  BY <1>1, PacketsUntouched
<1>6. NullOnlyAfterDrop'
  BY <1>1, <1>2 DEF GatewayInv, NullOnlyAfterDrop
<1> QED BY <1>3, <1>4, <1>5, <1>6 DEF GatewayInv

\* A call that is over within its first step and changes its result only.
LEMMA AtomicStep ==
  ASSUME GatewayInv, NEW t \in Threads, NEW r \in {"false", "void"}, Atomic(t, r),
         UNCHANGED <<side, m_conn, conns, packetVars, sent, status>>
  PROVE  GatewayInv'
<1>1. TypeOK'
  BY DEF GatewayInv, TypeOK, packetVars, Atomic
<1>2. LockInv'
  BY DEF GatewayInv, LockInv, Atomic, is_connected
<1>3. PacketInv' /\ SentInv'
  BY PacketsUntouched DEF Atomic
<1>4. NullOnlyAfterDrop'
  BY DEF GatewayInv, NullOnlyAfterDrop, Atomic
<1> QED BY <1>1, <1>2, <1>3, <1>4 DEF GatewayInv

-----------------------------------------------------------------------------
(* The steps of a server's threads. *)

\* A call that enters found nobody inside, and is the only one inside.
LEMMA EntersFacts ==
  ASSUME GatewayInv, NEW t \in Threads, NEW at \in {"put", "send", "close"},
         NEW fields \in Seq(Field), pc[t] = "idle", Enters(t, at, fields)
  PROVE  /\ pc' \in [Threads -> {"idle", "put", "send", "close"}]
         /\ pc'[t] = at /\ \A u \in Threads : u # t => pc'[u] = "idle"
         /\ \A u \in Threads : m_lock' = u <=> pc'[u] # "idle"
         /\ m_lock' \in Threads
         /\ msg' \in [Threads -> Seq(Field)] /\ msg'[t] = fields
         /\ nput' = nput /\ \A u \in Threads : nput[u] = 0 /\ nput[u] \in 0..Len(msg'[u])
         /\ ret' = ret /\ dropped' = dropped
<1>0. /\ pc \in [Threads -> {"idle", "put", "send", "close"}]
      /\ msg \in [Threads -> Seq(Field)]
      /\ m_lock' = t /\ pc' = [pc EXCEPT ![t] = at] /\ msg' = [msg EXCEPT ![t] = fields]
      /\ nput' = nput /\ ret' = ret /\ dropped' = dropped
  BY DEF GatewayInv, TypeOK, PacketInv, Enters, Lock
<1>1. m_lock = Free
  BY DEF GatewayInv, TypeOK, Enters, Lock
<1>2. \A u \in Threads : pc[u] = "idle"
  BY <1>1, OneInside
<1>3. \A u \in Threads : nput[u] = 0
  BY <1>2 DEF GatewayInv, PacketInv
<1>4. \A u \in Threads : pc'[u] = IF u = t THEN at ELSE "idle"
  BY <1>0, <1>2
<1>5. msg' \in [Threads -> Seq(Field)] /\ msg'[t] = fields
  BY <1>0
<1>6. \A u \in Threads : nput[u] \in 0..Len(msg'[u])
  <2>1. \A u \in Threads : Len(msg'[u]) \in Nat
    BY <1>5
  <2> QED BY <1>3, <2>1
<1> QED BY <1>0, <1>3, <1>4, <1>5, <1>6

\* A call that passed its test of the pointer.
LEMMA EntersStep ==
  ASSUME GatewayInv, NEW t \in Threads, NEW at \in {"send", "close"},
         NEW fields \in Seq(Field), pc[t] = "idle", Enters(t, at, fields),
         side = "server", is_connected, status = Running,
         UNCHANGED <<side, m_conn, conns, packetVars, sent, status>>
  PROVE  GatewayInv'
<1>0. /\ pc' \in [Threads -> {"idle", "put", "send", "close"}]
      /\ pc'[t] = at /\ \A u \in Threads : u # t => pc'[u] = "idle"
      /\ \A u \in Threads : m_lock' = u <=> pc'[u] # "idle"
      /\ m_lock' \in Threads
      /\ msg' \in [Threads -> Seq(Field)]
      /\ nput' = nput /\ \A u \in Threads : nput[u] = 0 /\ nput[u] \in 0..Len(msg'[u])
      /\ ret' = ret /\ dropped' = dropped
  BY EntersFacts
<1>1. TypeOK'
  BY <1>0 DEF GatewayInv, TypeOK, packetVars
<1>2. LockInv'
  BY <1>0 DEF GatewayInv, LockInv, is_connected
<1>3. PacketInv'
  <2>1. \A u \in Threads : pc'[u] # "put"
    BY <1>0
  <2> QED BY <1>0, <2>1 DEF GatewayInv, PacketInv, packetVars
<1>4. SentInv'
  BY DEF GatewayInv, SentInv
<1>5. NullOnlyAfterDrop'
  BY DEF GatewayInv, NullOnlyAfterDrop, Running
<1> QED BY <1>1, <1>2, <1>3, <1>4, <1>5 DEF GatewayInv

\* A call that returns leaves nobody inside.
LEMMA ReturnsFacts ==
  ASSUME GatewayInv, NEW t \in Threads, NEW r \in {"true", "false", "void"},
         pc[t] # "idle", Returns(t, r)
  PROVE  /\ pc' \in [Threads -> {"idle", "put", "send", "close"}]
         /\ \A u \in Threads : pc'[u] = "idle" /\ nput'[u] = 0 /\ nput'[u] \in 0..Len(msg'[u])
         /\ \A u \in Threads : m_lock' = u <=> pc'[u] # "idle"
         /\ m_lock' = Free
         /\ msg' \in [Threads -> Seq(Field)] /\ nput' \in [Threads -> Nat]
         /\ ret' \in [Threads -> {"none", "true", "false", "void", "throw"}]
         /\ dropped' \subseteq Threads
<1>0. /\ pc \in [Threads -> {"idle", "put", "send", "close"}]
      /\ msg \in [Threads -> Seq(Field)] /\ nput \in [Threads -> Nat]
      /\ ret \in [Threads -> {"none", "true", "false", "void", "throw"}]
      /\ m_lock' = Free /\ pc' = [pc EXCEPT ![t] = "idle"] /\ msg' = [msg EXCEPT ![t] = <<>>]
      /\ nput' = [nput EXCEPT ![t] = 0] /\ ret' = [ret EXCEPT ![t] = r]
      /\ dropped \subseteq Threads /\ dropped' = dropped \ {t}
  BY DEF GatewayInv, TypeOK, PacketInv, Returns, Unlock
<1>1. \A u \in Threads : u # t => pc[u] = "idle" /\ nput[u] = 0
  <2>1. \A u \in Threads : u # t => pc[u] = "idle"
    BY OneInside
  <2> QED BY <2>1 DEF GatewayInv, PacketInv
<1>2. \A u \in Threads : pc'[u] = "idle" /\ nput'[u] = 0
  BY <1>0, <1>1
<1>3. msg' \in [Threads -> Seq(Field)]
  BY <1>0
<1>4. \A u \in Threads : nput'[u] \in 0..Len(msg'[u])
  <2>1. \A u \in Threads : Len(msg'[u]) \in Nat
    BY <1>3
  <2> QED BY <1>2, <2>1
<1>5. /\ pc' \in [Threads -> {"idle", "put", "send", "close"}]
      /\ nput' \in [Threads -> Nat]
      /\ ret' \in [Threads -> {"none", "true", "false", "void", "throw"}]
  BY <1>0
<1>6. \A u \in Threads : m_lock' = u <=> pc'[u] # "idle"
  BY <1>0, <1>2, ThreadsAssumption
<1> QED BY <1>0, <1>2, <1>3, <1>4, <1>5, <1>6

\* disconnect uses the pointer it tested, or a null one after a drop.
LEMMA DisconnectCloseStep ==
  ASSUME GatewayInv, NEW t \in Threads, disconnectClose(t)
  PROVE  GatewayInv'
<1>0. /\ pc[t] = "close" /\ status = Running /\ side = "server"
      /\ UNCHANGED <<side, packetVars, sent>>
  BY DEF disconnectClose, GatewayInv, LockInv, TypeOK
<1>s. SentInv'
  BY <1>0 DEF GatewayInv, SentInv
<1>1. CASE is_connected
  <2>0. /\ conns' = [conns EXCEPT ![m_conn] = Closed(conns[m_conn])] /\ m_conn' = 0
        /\ Returns(t, "void") /\ status' = status
    BY <1>1 DEF disconnectClose
  <2>1. /\ pc' \in [Threads -> {"idle", "put", "send", "close"}]
        /\ \A u \in Threads : pc'[u] = "idle" /\ nput'[u] = 0 /\ nput'[u] \in 0..Len(msg'[u])
        /\ \A u \in Threads : m_lock' = u <=> pc'[u] # "idle"
        /\ m_lock' = Free
        /\ msg' \in [Threads -> Seq(Field)] /\ nput' \in [Threads -> Nat]
        /\ ret' \in [Threads -> {"none", "true", "false", "void", "throw"}]
        /\ dropped' \subseteq Threads
    BY <1>0, <2>0, ReturnsFacts
  <2>2. conns' \in Seq(ConnRecord) /\ Len(conns') \in Nat
    <3>1. conns \in Seq(ConnRecord) /\ m_conn \in 1..Len(conns)
      BY <1>1 DEF GatewayInv, LockInv, TypeOK, is_connected
    <3>2. Closed(conns[m_conn]) \in ConnRecord
      BY <3>1, ClosedIsConn
    <3> QED BY <2>0, <3>1, <3>2
  <2>3. TypeOK'
    BY <1>0, <2>0, <2>1, <2>2 DEF GatewayInv, TypeOK, packetVars
  <2>4. LockInv'
    BY <1>0, <2>0, <2>1, <2>2 DEF GatewayInv, LockInv
  <2>5. PacketInv'
    BY <1>0, <2>1 DEF GatewayInv, PacketInv, packetVars
  <2>6. NullOnlyAfterDrop'
    BY <1>0, <2>0 DEF GatewayInv, NullOnlyAfterDrop, Running
  <2> QED BY <1>s, <2>3, <2>4, <2>5, <2>6 DEF GatewayInv
<1>2. CASE ~is_connected
  <2>0. status' = "null_close" /\ UNCHANGED <<m_lock, pc, msg, nput, ret, conns, m_conn, dropped>>
    BY <1>2 DEF disconnectClose
  <2>1. t \in dropped /\ m_lock = t
    BY <1>0, <1>2 DEF GatewayInv, LockInv, TypeOK
  <2>3. TypeOK'
    BY <1>0, <2>0 DEF GatewayInv, TypeOK, packetVars
  <2>4. LockInv'
    BY <1>0, <2>0 DEF GatewayInv, LockInv, is_connected
  <2>5. PacketInv'
    BY <1>0, <2>0, PacketsUntouched
  <2>6. NullOnlyAfterDrop'
    BY <1>0, <2>0, <2>1 DEF GatewayInv, NullOnlyAfterDrop
  <2> QED BY <1>s, <2>3, <2>4, <2>5, <2>6 DEF GatewayInv
<1> QED BY <1>1, <1>2

\* send_packet starts with an empty packet, the encoding of no field.
LEMMA SendPacketStep ==
  ASSUME GatewayInv, NEW t \in Threads, NEW obj \in Objects, send_packet(t, obj)
  PROVE  GatewayInv'
<1>0. /\ side = "server" /\ status = Running /\ pc[t] = "idle"
      /\ UNCHANGED <<side, m_conn, conns, sent, status>>
  BY DEF send_packet, Begins
<1>1. CASE ~is_connected
  BY <1>0, <1>1, AtomicStep DEF send_packet
<1>2. CASE is_connected
  <2> DEFINE fields == serialized(obj)
  <2>0. /\ Enters(t, "put", fields)
        /\ m_packet' = NewPacket /\ putters' = {} /\ whole' = TRUE
    BY <1>2 DEF send_packet, reset_read
  <2>1. fields \in Seq(Field) /\ Len(fields) > 0
    <3> DEFINE a == <<[kind |-> "T", v |-> <<0>>], [kind |-> "T", v |-> <<1>>]>>
               b == <<[kind |-> "T", v |-> <<2>>]>>
    <3>1. obj \in Seq(Field)
      BY FieldsAssumption
    <3>2. /\ [kind |-> "T", v |-> <<0>>] \in Field /\ [kind |-> "T", v |-> <<1>>] \in Field
          /\ [kind |-> "T", v |-> <<2>>] \in Field
      BY DEF Field
    <3>3. a \in Seq(Field) /\ b \in Seq(Field) /\ Len(a) = 2 /\ Len(b) = 1
      BY <3>2
    <3>4. fields = (a \o obj) \o b
      BY DEF serialized
    <3> HIDE DEF a, b, fields
    <3> DEFINE c == a \o obj
    <3>5. c \in Seq(Field) /\ Len(c) \in Nat
      BY <3>1, <3>3
    <3> HIDE DEF c
    <3>6. c \o b \in Seq(Field) /\ Len(c \o b) = Len(c) + Len(b)
      BY <3>3, <3>5, ConcatProperties, Zenon
    <3> QED BY <3>3, <3>4, <3>5, <3>6 DEF c
  <2> HIDE DEF fields
  <2>2. /\ pc' \in [Threads -> {"idle", "put", "send", "close"}]
        /\ pc'[t] = "put" /\ \A u \in Threads : u # t => pc'[u] = "idle"
        /\ \A u \in Threads : m_lock' = u <=> pc'[u] # "idle"
        /\ m_lock' \in Threads
        /\ msg' \in [Threads -> Seq(Field)] /\ msg'[t] = fields
        /\ nput' = nput /\ \A u \in Threads : nput[u] = 0 /\ nput[u] \in 0..Len(msg'[u])
        /\ ret' = ret /\ dropped' = dropped
    BY <1>0, <2>0, <2>1, EntersFacts
  <2>3. /\ NewPacket \in Packets /\ Len(NewPacket.buf) <= MaxPacketSize
        /\ NewPacket.m_read_idx = 0
    BY EmptyIsFilled DEF EmptyPacket, Filled
  <2>4. TypeOK'
    BY <1>0, <2>0, <2>2, <2>3 DEF GatewayInv, TypeOK
  <2>5. LockInv'
    BY <1>0, <1>2, <2>2 DEF GatewayInv, LockInv, is_connected
  <2>6. PacketInv'
    <3>1. [p |-> m_packet', whole |-> whole'] = Encoding(fields)[0]
      BY <2>0, <2>1, EncodingFacts DEF EmptyPacket
    <3> QED BY <2>0, <2>1, <2>2, <2>3, <3>1 DEF GatewayInv, PacketInv
  <2>7. SentInv'
    BY <1>0 DEF GatewayInv, SentInv
  <2>8. NullOnlyAfterDrop'
    BY <1>0 DEF GatewayInv, NullOnlyAfterDrop, Running
  <2> QED BY <2>4, <2>5, <2>6, <2>7, <2>8 DEF GatewayInv
<1> QED BY <1>1, <1>2

\* One put adds the next field of the message, or the message is given up.
LEMMA SerializeStep ==
  ASSUME GatewayInv, NEW t \in Threads, NEW result \in BOOLEAN, serialize_packet(t, result)
  PROVE  GatewayInv'
<1> DEFINE f == msg[t][nput[t] + 1]
           E == Encoding(msg[t])
           n == nput[t]
<1>0. /\ pc[t] = "put" /\ status = Running /\ nput[t] < Len(msg[t])
      /\ m_packet' = Put(m_packet, f).p /\ whole' = (whole /\ Put(m_packet, f).ok)
      /\ putters' = putters \cup {t}
      /\ UNCHANGED <<side, m_conn, conns, sent, status>>
  BY DEF serialize_packet
<1>1. /\ msg[t] \in Seq(Field) /\ nput[t] \in Nat /\ Len(msg[t]) \in Nat
      /\ putters = IF nput[t] = 0 THEN {} ELSE {t}
      /\ [p |-> m_packet, whole |-> whole] = E[nput[t]]
  BY <1>0 DEF GatewayInv, PacketInv
<1>2. /\ [p |-> m_packet', whole |-> whole'] = E[nput[t] + 1]
      /\ E[nput[t] + 1] \in Filled
  BY <1>0, <1>1, NextOfEncoding
<1>3. /\ m_packet' \in Packets /\ Len(m_packet'.buf) <= MaxPacketSize
      /\ m_packet'.m_read_idx = 0 /\ whole' \in BOOLEAN
  <2> HIDE DEF E
  <2>1. [p |-> m_packet', whole |-> whole'] \in Filled
    BY <1>2
  <2> QED BY <2>1 DEF Filled
<1>4. putters' = {t}
  BY <1>0, <1>1
<1>s. SentInv'
  BY <1>0 DEF GatewayInv, SentInv
<1>n. NullOnlyAfterDrop'
  BY <1>0 DEF GatewayInv, NullOnlyAfterDrop, Running
<1>5. CASE result
  <2>0. nput' = [nput EXCEPT ![t] = @ + 1] /\ UNCHANGED <<m_lock, pc, msg, ret, dropped>>
    BY <1>5 DEF serialize_packet
  <2>1. /\ nput' \in [Threads -> Nat] /\ nput'[t] = nput[t] + 1
        /\ \A u \in Threads : u # t => nput'[u] = nput[u]
    BY <1>1, <2>0 DEF GatewayInv, PacketInv
  <2>2. \A u \in Threads : nput'[u] \in 0..Len(msg[u])
    BY <1>0, <1>1, <2>1 DEF GatewayInv, TypeOK
  <2>3. TypeOK'
    BY <1>0, <1>3, <1>4, <2>0, <2>2 DEF GatewayInv, TypeOK
  <2>4. LockInv'
    BY <1>0, <2>0 DEF GatewayInv, LockInv, is_connected
  <2>5. PacketInv'
    <3>1. \A u \in Threads : u # t => pc[u] = "idle"
      BY <1>0, OneInside
    <3>2. \A u \in Threads : pc'[u] # "put" => nput'[u] = 0
      BY <1>0, <2>0, <2>1 DEF GatewayInv, PacketInv
    <3>3. \A u \in Threads : pc'[u] = "put" => u = t
      BY <2>0, <3>1
    <3>4. /\ Len(msg'[t]) > 0 /\ putters' = IF nput'[t] = 0 THEN {} ELSE {t}
          /\ [p |-> m_packet', whole |-> whole'] = Encoding(msg'[t])[nput'[t]]
      BY <1>0, <1>1, <1>2, <1>4, <2>0, <2>1
    <3>5. msg' \in [Threads -> Seq(Field)]
      BY <2>0 DEF GatewayInv, PacketInv
    <3> QED BY <1>3, <2>1, <3>2, <3>3, <3>4, <3>5 DEF PacketInv
  <2> QED BY <1>s, <1>n, <2>3, <2>4, <2>5 DEF GatewayInv
<1>6. CASE ~result
  <2>0. Returns(t, "false")
    BY <1>6 DEF serialize_packet
  <2>1. /\ pc' \in [Threads -> {"idle", "put", "send", "close"}]
        /\ \A u \in Threads : pc'[u] = "idle" /\ nput'[u] = 0 /\ nput'[u] \in 0..Len(msg'[u])
        /\ \A u \in Threads : m_lock' = u <=> pc'[u] # "idle"
        /\ m_lock' = Free
        /\ msg' \in [Threads -> Seq(Field)] /\ nput' \in [Threads -> Nat]
        /\ ret' \in [Threads -> {"none", "true", "false", "void", "throw"}]
        /\ dropped' \subseteq Threads
    BY <1>0, <2>0, ReturnsFacts
  <2>3. TypeOK'
    BY <1>0, <1>3, <1>4, <2>1 DEF GatewayInv, TypeOK
  <2>4. LockInv'
    BY <1>0, <2>1 DEF GatewayInv, LockInv
  <2>5. PacketInv'
    BY <1>3, <2>1 DEF PacketInv
  <2> QED BY <1>s, <1>n, <2>3, <2>4, <2>5 DEF GatewayInv
<1> QED BY <1>5, <1>6

\* The packet given to the connection stands for the fields of a message.
LEMMA HandStep ==
  ASSUME GatewayInv, NEW t \in Threads, NEW packet \in SentRecord,
         NEW refused \in SUBSET {"true", "false"}, Hand(t, packet, refused),
         pc[t] # "idle", [p |-> packet.p, whole |-> packet.whole] = Encoded(packet.fields)
  PROVE  GatewayInv'
<1>0. /\ status = Running
      /\ UNCHANGED <<side, m_conn, conns, packetVars>>
  BY DEF Hand
<1>1. CASE is_connected
  <2>0. PICK r \in {"true", "false"} :
          Returns(t, r) /\ (sent' = sent \/ sent' = Append(sent, packet))
    BY <1>1 DEF Hand
  <2>00. status' = status
    BY <1>1 DEF Hand
  <2>1. /\ pc' \in [Threads -> {"idle", "put", "send", "close"}]
        /\ \A u \in Threads : pc'[u] = "idle" /\ nput'[u] = 0 /\ nput'[u] \in 0..Len(msg'[u])
        /\ \A u \in Threads : m_lock' = u <=> pc'[u] # "idle"
        /\ m_lock' = Free
        /\ msg' \in [Threads -> Seq(Field)] /\ nput' \in [Threads -> Nat]
        /\ ret' \in [Threads -> {"none", "true", "false", "void", "throw"}]
        /\ dropped' \subseteq Threads
    BY <2>0, ReturnsFacts
  <2>2. SentInv'
    <3>0. /\ sent \in Seq(SentRecord)
          /\ \A i \in 1..Len(sent) :
               [p |-> sent[i].p, whole |-> sent[i].whole] = Encoded(sent[i].fields)
      BY DEF GatewayInv, SentInv
    <3>1. CASE sent' = sent
      BY <3>0, <3>1 DEF SentInv
    <3>2. CASE sent' = Append(sent, packet)
      <4>1. /\ sent' \in Seq(SentRecord) /\ Len(sent') = Len(sent) + 1 /\ Len(sent) \in Nat
            /\ \A i \in 1..Len(sent) : sent'[i] = sent[i]
            /\ sent'[Len(sent) + 1] = packet
        BY <3>0, <3>2
      <4>2. ASSUME NEW i \in 1..Len(sent')
            PROVE  [p |-> sent'[i].p, whole |-> sent'[i].whole] = Encoded(sent'[i].fields)
        <5>1. CASE i \in 1..Len(sent)
          BY <3>0, <4>1, <5>1
        <5>2. CASE i = Len(sent) + 1
          BY <4>1, <5>2
        <5> QED BY <4>1, <4>2, <5>1, <5>2
      <4> QED BY <4>1, <4>2 DEF SentInv
    <3> QED BY <2>0, <3>1, <3>2
  <2>3. TypeOK'
    BY <1>0, <2>00, <2>1 DEF GatewayInv, TypeOK, packetVars
  <2>4. LockInv'
    BY <1>0, <2>1 DEF GatewayInv, LockInv
  <2>5. PacketInv'
    BY <1>0, <2>1 DEF GatewayInv, PacketInv, packetVars
  <2>6. NullOnlyAfterDrop'
    BY <1>0, <2>00 DEF GatewayInv, NullOnlyAfterDrop, Running
  <2> QED BY <2>2, <2>3, <2>4, <2>5, <2>6 DEF GatewayInv
<1>2. CASE ~is_connected
  <2>0. status' = "null_send" /\ UNCHANGED <<m_lock, pc, msg, nput, ret, sent, dropped>>
    BY <1>2 DEF Hand
  <2>1. t \in dropped /\ m_lock = t
    BY <1>2 DEF GatewayInv, LockInv, TypeOK
  <2>3. TypeOK'
    BY <1>0, <2>0 DEF GatewayInv, TypeOK, packetVars
  <2>4. LockInv'
    BY <1>0, <2>0 DEF GatewayInv, LockInv, is_connected
  <2>5. PacketInv' /\ SentInv'
    BY <1>0, <2>0, PacketsUntouched
  <2>6. NullOnlyAfterDrop'
    BY <1>0, <2>0, <2>1 DEF GatewayInv, NullOnlyAfterDrop
  <2> QED BY <2>3, <2>4, <2>5, <2>6 DEF GatewayInv
<1> QED BY <1>1, <1>2

\* All fields are put: m_packet is the encoding of the message.
LEMMA SendSerializedStep ==
  ASSUME GatewayInv, NEW t \in Threads, sendSerialized(t)
  PROVE  GatewayInv'
<1> DEFINE packet == [p |-> m_packet, fields |-> msg[t], by |-> putters, whole |-> whole]
<1>0. /\ pc[t] = "put" /\ nput[t] = Len(msg[t]) /\ Hand(t, packet, {"true", "false"})
  BY DEF sendSerialized
<1>1. /\ msg[t] \in Seq(Field) /\ Len(msg[t]) > 0 /\ m_packet \in Packets /\ whole \in BOOLEAN
      /\ putters = {t} /\ [p |-> m_packet, whole |-> whole] = Encoded(msg[t])
  <2>1. /\ msg[t] \in Seq(Field) /\ Len(msg[t]) > 0 /\ m_packet \in Packets
        /\ putters = IF nput[t] = 0 THEN {} ELSE {t}
        /\ [p |-> m_packet, whole |-> whole] = Encoding(msg[t])[nput[t]]
    BY <1>0 DEF GatewayInv, PacketInv
  <2>2. whole \in BOOLEAN
    BY DEF GatewayInv, TypeOK
  <2>3. putters = {t}
    BY <1>0, <2>1
  <2> QED BY <1>0, <2>1, <2>2, <2>3, Zenon DEF Encoded
<1>2. packet \in SentRecord
  BY <1>1 DEF SentRecord
<1>3. [p |-> packet.p, whole |-> packet.whole] = Encoded(packet.fields)
  BY <1>1
<1> HIDE DEF packet
<1> QED BY <1>0, <1>2, <1>3, HandStep

\* The packet of a caller is the encoding of the caller's fields.
LEMMA SendUserStep ==
  ASSUME GatewayInv, NEW t \in Threads, sendUser(t)
  PROVE  GatewayInv'
<1> DEFINE e == Encoded(msg[t])
           packet == [p |-> e.p, fields |-> msg[t], by |-> {t}, whole |-> e.whole]
<1>0. pc[t] = "send" /\ Hand(t, packet, {"false"})
  BY DEF sendUser
<1>1. msg[t] \in Seq(Field)
  BY DEF GatewayInv, PacketInv
<1>2. e \in Filled
  BY <1>1, EncodedFacts
<1> HIDE DEF e
<1>3. e.p \in Packets /\ e.whole \in BOOLEAN /\ e = [p |-> e.p, whole |-> e.whole]
  BY <1>2 DEF Filled
<1>4. packet \in SentRecord
  BY <1>1, <1>3 DEF SentRecord
<1>5. [p |-> packet.p, whole |-> packet.whole] = Encoded(packet.fields)
  BY <1>3 DEF e
<1> HIDE DEF packet
<1> QED BY <1>0, <1>4, <1>5, HandStep

\* Every step keeps the invariant.
LEMMA GatewayStep == GatewayInv /\ [Next]_vars => GatewayInv'
<1> SUFFICES ASSUME GatewayInv, [Next]_vars PROVE GatewayInv'
  OBVIOUS
<1>0. <<>> \in Seq(Field)
  OBVIOUS
<1>1. ASSUME NEW t \in Threads, clientSend(t) PROVE GatewayInv'
  BY <1>1, AtomicStep DEF clientSend
<1>2. ASSUME NEW t \in Threads, disconnect(t) PROVE GatewayInv'
  <2>1. CASE is_connected
    <3>1. /\ pc[t] = "idle" /\ Enters(t, "close", <<>>) /\ side = "server" /\ status = Running
          /\ UNCHANGED <<side, m_conn, conns, packetVars, sent, status>>
      BY <1>2, <2>1 DEF disconnect, Begins, connectedTest
    <3> QED BY <1>0, <2>1, <3>1, EntersStep
  <2>2. CASE ~is_connected
    BY <1>2, <2>2, AtomicStep DEF disconnect, connectedTest
  <2> QED BY <2>1, <2>2
<1>3. ASSUME NEW t \in Threads, NEW fields \in UserPackets, send(t, fields) PROVE GatewayInv'
  <2>0. fields \in Seq(Field)
    BY FieldsAssumption
  <2>1. CASE fields # <<>> /\ is_connected
    <3>1. /\ pc[t] = "idle" /\ Enters(t, "send", fields) /\ side = "server" /\ status = Running
          /\ UNCHANGED <<side, m_conn, conns, packetVars, sent, status>>
      BY <1>3, <2>1 DEF send, Begins
    <3> QED BY <2>0, <2>1, <3>1, EntersStep
  <2>2. CASE ~(fields # <<>> /\ is_connected)
    BY <1>3, <2>2, AtomicStep DEF send
  <2> QED BY <2>1, <2>2
<1>4. CASE UNCHANGED vars
  <2>1. UNCHANGED <<side, m_lock, pc, msg, nput, ret, m_conn, conns, m_packet, putters, whole,
                    sent, dropped, status>>
    BY <1>4 DEF vars, packetVars
  <2>2. TypeOK'
    BY <2>1 DEF GatewayInv, TypeOK
  <2>3. LockInv'
    BY <2>1 DEF GatewayInv, LockInv, is_connected
  <2>4. PacketInv' /\ SentInv'
    BY <2>1, PacketsUntouched DEF packetVars
  <2>5. NullOnlyAfterDrop'
    BY <2>1 DEF GatewayInv, NullOnlyAfterDrop
  <2> QED BY <2>2, <2>3, <2>4, <2>5 DEF GatewayInv
<1> QED BY <1>1, <1>2, <1>3, <1>4, OnDisconnectStep, ConnectStep, ClientDisconnectStep,
           DisconnectCloseStep, SendPacketStep, SerializeStep, SendSerializedStep, SendUserStep
    DEF Next

-----------------------------------------------------------------------------
\* The invariant of the endpoint: the lock, the pointer, the shared packet and
\* what was sent.
THEOREM GatewayInvariant == Spec => []GatewayInv
BY GatewayInit, GatewayStep, PTL DEF Spec

\* The lock of ConnServer is held exactly while a thread is inside a call, and
\* NPacket::put never writes past the buffer, for any threads and messages.
THEOREM TypeCorrect == Spec => []TypeOK
<1>1. GatewayInv => TypeOK
  BY DEF GatewayInv
<1> QED BY <1>1, GatewayInvariant, PTL

\* Whatever threads fill m_packet of GWServer, a packet that is sent holds the
\* fields of one message of one thread.
THEOREM OneMessage == Spec => []OnePacketOneMessage
<1>1. GatewayInv => OnePacketOneMessage
  <2> SUFFICES ASSUME GatewayInv, NEW i \in 1..Len(sent)
               PROVE  /\ Cardinality(sent[i].by) = 1
                      /\ sent[i].whole => sent[i].p = Encoded(sent[i].fields).p
    BY DEF OnePacketOneMessage
  <2>1. /\ sent[i] \in SentRecord
        /\ [p |-> sent[i].p, whole |-> sent[i].whole] = Encoded(sent[i].fields)
    BY DEF GatewayInv, SentInv
  <2>2. PICK t \in Threads : sent[i].by = {t}
    BY <2>1 DEF SentRecord
  <2>3. Cardinality(sent[i].by) = 1
    BY <2>2, FS_Singleton
  <2>4. [p |-> sent[i].p, whole |-> sent[i].whole].p = sent[i].p
    BY Zenon
  <2> QED BY <2>1, <2>3, <2>4, Zenon
<1> QED BY <1>1, GatewayInvariant, PTL

\* A thread of ConnServer or GWServer uses a null pointer only if on_disconnect
\* cleared it since the thread's test, for any number of threads.
THEOREM NullAfterDrop == Spec => []NullOnlyAfterDrop
<1>1. GatewayInv => NullOnlyAfterDrop
  BY DEF GatewayInv
<1> QED BY <1>1, GatewayInvariant, PTL

-----------------------------------------------------------------------------
(* What the reader of a packet gets. *)

Readable == {q \in Packets : q.m_read_idx <= Len(q.buf)}

Got == [ok : BOOLEAN, p : Readable, v : Seq(Nat)]

At(q, i) == [buf |-> q.buf, m_read_idx |-> i]

\* get of a T moves the index over its cells, or fails and does nothing.
LEMMA GetTFacts ==
  ASSUME NEW q \in Readable, NEW n \in Nat
  PROVE  /\ q.m_read_idx + n <= Len(q.buf) =>
              /\ getT(q, n) = [ok |-> TRUE, p |-> At(q, q.m_read_idx + n),
                               v |-> SubSeq(q.buf, q.m_read_idx + 1, q.m_read_idx + n)]
              /\ At(q, q.m_read_idx + n) \in Readable
              /\ SubSeq(q.buf, q.m_read_idx + 1, q.m_read_idx + n) \in Seq(Nat)
              /\ Len(SubSeq(q.buf, q.m_read_idx + 1, q.m_read_idx + n)) = n
              /\ \A i \in 1..n :
                   SubSeq(q.buf, q.m_read_idx + 1, q.m_read_idx + n)[i] = q.buf[q.m_read_idx + i]
         /\ ~(q.m_read_idx + n <= Len(q.buf)) => getT(q, n) = [ok |-> FALSE, p |-> q, v |-> <<>>]
<1> DEFINE b == q.buf
           o == q.m_read_idx
<1>0. /\ q \in Packets /\ b \in Seq(Nat) /\ Len(b) \in Nat /\ o \in Nat /\ o <= Len(b)
  BY DEF Readable, Packets
<1>1. [q EXCEPT !.m_read_idx = @ + n] = At(q, o + n)
  BY DEF At, Readable, Packets
<1>2. getT(q, n) = IF Len(b) - o < n THEN [ok |-> FALSE, p |-> q, v |-> <<>>]
                   ELSE [ok |-> TRUE, p |-> At(q, o + n), v |-> SubSeq(b, o + 1, o + n)]
  BY <1>1, Zenon DEF getT, read_size
<1>3. At(q, o + n) = [buf |-> b, m_read_idx |-> o + n]
  BY DEF At
<1> HIDE DEF b, o
<1>4. (Len(b) - o < n) <=> ~(o + n <= Len(b))
  BY <1>0
<1>5. ASSUME o + n <= Len(b)
      PROVE  /\ At(q, o + n) \in Readable
             /\ SubSeq(b, o + 1, o + n) \in Seq(Nat)
             /\ Len(SubSeq(b, o + 1, o + n)) = n
             /\ \A i \in 1..n : SubSeq(b, o + 1, o + n)[i] = b[o + i]
  <2>1. At(q, o + n) \in Readable
    BY <1>0, <1>3, <1>5 DEF Readable, Packets
  <2>2. /\ SubSeq(b, o + 1, o + n) \in Seq(Nat)
        /\ Len(SubSeq(b, o + 1, o + n)) = n
        /\ \A i \in 1..n : SubSeq(b, o + 1, o + n)[i] = b[o + i]
    BY <1>0, <1>5
  <2> QED BY <2>1, <2>2
<1> QED BY <1>2, <1>4, <1>5 DEF b, o

\* What get of a T that is there gives.
LEMMA GetTIsGot ==
  ASSUME NEW q \in Readable, NEW n \in Nat, q.m_read_idx + n <= Len(q.buf)
  PROVE  /\ getT(q, n) \in Got /\ getT(q, n).p \in Readable
         /\ getT(q, n).v \in Seq(Nat) /\ Len(getT(q, n).v) = n
<1> DEFINE v == SubSeq(q.buf, q.m_read_idx + 1, q.m_read_idx + n)
           r == At(q, q.m_read_idx + n)
<1>1. getT(q, n) = [ok |-> TRUE, p |-> r, v |-> v] /\ r \in Readable /\ v \in Seq(Nat) /\ Len(v) = n
  BY GetTFacts
<1> HIDE DEF v, r
<1> QED BY <1>1 DEF Got

\* get of a string leaves a packet that can be read on.
LEMMA GetStringIsGot ==
  ASSUME NEW q \in Readable
  PROVE  getString(q) \in Got
<1> DEFINE slen == getT(q, 1)
           failed == [ok |-> FALSE, p |-> q, v |-> <<>>]
<1>0. getString(q) = IF ~slen.ok \/ read_size(slen.p) < slen.v[1] THEN failed
                     ELSE getT(slen.p, slen.v[1])
  BY Zenon DEF getString, SizeofLen
<1>1. failed \in Got
  BY DEF Got
<1>2. CASE ~slen.ok \/ read_size(slen.p) < slen.v[1]
  BY <1>0, <1>1, <1>2
<1>3. CASE ~(~slen.ok \/ read_size(slen.p) < slen.v[1])
  <2> DEFINE r == slen.p
             n == slen.v[1]
  <2>1. q.m_read_idx + 1 <= Len(q.buf)
    <3>1. CASE ~(q.m_read_idx + 1 <= Len(q.buf))
      <4>1. slen.ok = FALSE
        BY <3>1, GetTFacts
      <4> QED BY <1>3, <4>1
    <3> QED BY <3>1
  <2>2. r \in Readable /\ slen.v \in Seq(Nat) /\ Len(slen.v) = 1
    BY <2>1, GetTIsGot
  <2>3. n \in Nat
    BY <2>2
  <2>4. r.m_read_idx + n <= Len(r.buf)
    <3>1. Len(r.buf) \in Nat /\ r.m_read_idx \in Nat
      BY <2>2 DEF Readable, Packets
    <3>2. ~(Len(r.buf) - r.m_read_idx < n)
      BY <1>3 DEF read_size
    <3> HIDE DEF r, n
    <3> QED BY <2>3, <3>1, <3>2
  <2>5. getString(q) = getT(r, n)
    BY <1>0, <1>3
  <2> HIDE DEF r, n
  <2> QED BY <2>2, <2>3, <2>4, <2>5, GetTIsGot
<1> QED BY <1>2, <1>3

\* So does get of any field.
LEMMA GetIsGot ==
  ASSUME NEW q \in Readable, NEW f \in Field
  PROVE  Get(q, f) \in Got
<1> DEFINE failed == [ok |-> FALSE, p |-> q, v |-> <<>>]
<1>0. failed \in Got /\ f.v \in Seq(Nat) /\ Len(f.v) \in Nat /\ f.kind \in {"T", "string", "array"}
  BY CutFacts DEF Got
<1>1. CASE f.kind = "T"
  <2>1. Get(q, f) = getT(q, Len(f.v))
    BY <1>1, Zenon DEF Get
  <2>2. CASE q.m_read_idx + Len(f.v) <= Len(q.buf)
    BY <1>0, <2>1, <2>2, GetTIsGot
  <2>3. CASE ~(q.m_read_idx + Len(f.v) <= Len(q.buf))
    BY <1>0, <2>1, <2>3, GetTFacts
  <2> QED BY <2>2, <2>3
<1>2. CASE f.kind = "string"
  <2>1. Get(q, f) = getString(q)
    BY <1>2, Zenon DEF Get
  <2> QED BY <2>1, GetStringIsGot
<1>3. CASE f.kind = "array"
  <2>1. Get(q, f) = getArray(q, Len(f.v))
    BY <1>3, Zenon DEF Get
  <2>2. getArray(q, Len(f.v)) \in {failed, getString(q)}
    BY DEF getArray
  <2> QED BY <1>0, <2>1, <2>2, GetStringIsGot
<1> QED BY <1>0, <1>1, <1>2, <1>3

\* Decoding is the recursive function it is written as.
LEMMA DecodingFacts ==
  ASSUME NEW q \in Readable, NEW fields \in Seq(Field)
  PROVE  /\ Decoding(q, fields)[0] = [ok |-> TRUE, p |-> q, v |-> <<>>]
         /\ \A n \in 1..Len(fields) :
              Decoding(q, fields)[n] = Get(Decoding(q, fields)[n-1].p, fields[n])
<1> DEFINE m == Len(fields)
           D == Decoding(q, fields)
           first == [ok |-> TRUE, p |-> q, v |-> <<>>]
           G == [g \in Got |-> [n \in 1..m |-> Get(g.p, fields[n])]]
           Body(h) == [n \in 0..m |-> IF n = 0 THEN first ELSE Get(h[n-1].p, fields[n])]
<1>0. m \in Nat /\ \A n \in 1..m : fields[n] \in Field
  OBVIOUS
<1>1. G \in [Got -> [1..m -> Got]]
  <2>1. \A g \in Got : g.p \in Readable
    BY DEF Got
  <2> QED BY <1>0, <2>1, GetIsGot
<1>2. \A g \in Got, n \in 1..m : G[g][n] = Get(g.p, fields[n])
  OBVIOUS
<1>3. D = CHOOSE h : h = Body(h)
  BY Zenon DEF Decoding
<1>4. first \in Got
  BY DEF Got
<1> HIDE DEF G, D, m, first
<1>5. PICK h \in [0..m -> Got] : Recurses(h, first, G, m)
  <2> HIDE DEF Body
  <2> QED BY <1>0, <1>1, <1>4, Recursion, Zenon
<1>6. ASSUME NEW n \in 0..m
      PROVE  h[n] = IF n = 0 THEN first ELSE Get(h[n-1].p, fields[n])
  <2>1. CASE n = 0
    BY <1>5, <2>1 DEF Recurses
  <2>2. CASE n # 0
    <3>1. n \in 1..m /\ n - 1 \in 0..m
      BY <1>0, <2>2
    <3> QED BY <1>2, <1>5, <2>2, <3>1 DEF Recurses
  <2> QED BY <2>1, <2>2
<1>7. h = Body(h)
  BY <1>5, <1>6
<1>8. D = Body(D)
  <2> HIDE DEF Body
  <2> QED BY <1>3, <1>7, Zenon
<1>9. D[0] = first /\ \A n \in 1..m : D[n] = Get(D[n-1].p, fields[n])
  BY <1>0, <1>8
<1> QED BY <1>9 DEF D, m, first

\* The sequence s lies in b behind the first o cells.
Lies(s, b, o) == o + Len(s) <= Len(b) /\ \A i \in 1..Len(s) : b[o + i] = s[i]

\* get of a string for which c cells of s lie behind a length of c.
LEMMA GetStringReads ==
  ASSUME NEW q \in Readable, NEW s \in Seq(Nat), NEW c \in 0..Len(s),
         q.m_read_idx + 1 + c <= Len(q.buf), q.buf[q.m_read_idx + 1] = c,
         \A i \in 1..c : q.buf[q.m_read_idx + 1 + i] = s[i]
  PROVE  getString(q) = [ok |-> TRUE, p |-> At(q, q.m_read_idx + 1 + c), v |-> SubSeq(s, 1, c)]
<1> DEFINE o == q.m_read_idx
           slen == getT(q, 1)
           r == At(q, o + 1)
           w == SubSeq(q.buf, o + 1, o + 1)
<1>0. /\ q.buf \in Seq(Nat) /\ Len(q.buf) \in Nat /\ o \in Nat /\ o <= Len(q.buf)
      /\ c \in Nat /\ c <= Len(s) /\ Len(s) \in Nat
  BY DEF Readable, Packets
<1>1. /\ slen = [ok |-> TRUE, p |-> r, v |-> w] /\ r \in Readable
      /\ w \in Seq(Nat) /\ \A i \in 1..1 : w[i] = q.buf[o + i]
  <2>1. o + 1 <= Len(q.buf)
    BY <1>0
  <2> QED BY <2>1, GetTFacts
<1>2. w[1] = c
  BY <1>1, SMTT(20)
<1>3. r.m_read_idx = o + 1 /\ r.buf = q.buf
  BY DEF At
<1>4. slen.ok /\ slen.p = r /\ slen.v[1] = c
  <2> HIDE DEF w, r, slen
  <2> QED BY <1>1, <1>2
<1>5. ~(read_size(r) < c)
  <2> HIDE DEF r
  <2> QED BY <1>0, <1>3 DEF read_size
<1>6. getString(q) = getT(r, c)
  BY <1>4, <1>5, Zenon DEF getString, SizeofLen
<1>7. /\ getT(r, c) = [ok |-> TRUE, p |-> At(r, r.m_read_idx + c),
                       v |-> SubSeq(r.buf, r.m_read_idx + 1, r.m_read_idx + c)]
      /\ SubSeq(r.buf, r.m_read_idx + 1, r.m_read_idx + c) \in Seq(Nat)
      /\ Len(SubSeq(r.buf, r.m_read_idx + 1, r.m_read_idx + c)) = c
      /\ \A i \in 1..c : SubSeq(r.buf, r.m_read_idx + 1, r.m_read_idx + c)[i]
                           = r.buf[r.m_read_idx + i]
  <2> HIDE DEF r
  <2>1. r.m_read_idx + c <= Len(r.buf)
    BY <1>0, <1>3
  <2> QED BY <1>0, <1>1, <2>1, GetTFacts
<1>8. At(r, r.m_read_idx + c) = At(q, o + 1 + c)
  BY <1>3 DEF At
<1>9. SubSeq(r.buf, r.m_read_idx + 1, r.m_read_idx + c) = SubSeq(s, 1, c)
  <2> DEFINE x == SubSeq(r.buf, r.m_read_idx + 1, r.m_read_idx + c)
             y == SubSeq(s, 1, c)
  <2>1. y \in Seq(Nat) /\ Len(y) = c /\ \A i \in 1..c : y[i] = s[i]
    BY <1>0, SMTT(20)
  <2>2. x \in Seq(Nat) /\ Len(x) = c /\ \A i \in 1..c : x[i] = s[i]
    BY <1>0, <1>3, <1>7
  <2> HIDE DEF x, y
  <2>3. x = y
    BY <2>1, <2>2, SameCells
  <2> QED BY <2>3 DEF x, y
<1> QED BY <1>6, <1>7, <1>8, <1>9

LongArray(f) == f.kind = "array" /\ Len(f.v) >= LenMod

\* get of a field whose chunk lies at the index.
LEMMA GetReadsChunk ==
  ASSUME NEW q \in Readable, NEW f \in Field, Lies(Chunk(f), q.buf, q.m_read_idx)
  PROVE  /\ Get(q, f).v = Carried(f)
         /\ ~LongArray(f) => Get(q, f).p = At(q, q.m_read_idx + Len(Chunk(f)))
<1> DEFINE o == q.m_read_idx
           b == q.buf
<1>0. /\ b \in Seq(Nat) /\ Len(b) \in Nat /\ o \in Nat /\ o <= Len(b)
      /\ f.v \in Seq(Nat) /\ Len(f.v) \in Nat /\ f.kind \in {"T", "string", "array"}
      /\ Cut(f) \in Nat /\ Cut(f) <= Len(f.v) /\ Cut(f) \in 0..Len(f.v)
      /\ f.kind = "array" /\ Len(f.v) < LenMod => Cut(f) = Len(f.v)
      /\ Len(Chunk(f)) \in Nat /\ LenMod \in Nat
  BY CutFacts, ChunkFacts, PacketConstants DEF Readable, Packets
<1>a. o + Len(Chunk(f)) <= Len(b) /\ \A i \in 1..Len(Chunk(f)) : b[o + i] = Chunk(f)[i]
  BY DEF Lies
<1>1. CASE f.kind = "T"
  <2>1. Get(q, f) = getT(q, Len(f.v))
    BY <1>1, Zenon DEF Get
  <2>2. Chunk(f) = f.v
    BY <1>1 DEF Chunk
  <2> DEFINE v == SubSeq(b, o + 1, o + Len(f.v))
  <2>3. /\ getT(q, Len(f.v)) = [ok |-> TRUE, p |-> At(q, o + Len(f.v)), v |-> v]
        /\ v \in Seq(Nat) /\ Len(v) = Len(f.v) /\ \A i \in 1..Len(f.v) : v[i] = b[o + i]
    <3>1. o + Len(f.v) <= Len(b)
      BY <1>a, <2>2
    <3> QED BY <1>0, <3>1, GetTFacts
  <2>4. v = f.v
    <3>1. \A i \in 1..Len(f.v) : v[i] = f.v[i]
      BY <1>a, <2>2, <2>3
    <3> HIDE DEF v
    <3> QED BY <1>0, <2>3, <3>1, SameCells
  <2>5. Carried(f) = f.v
    BY <1>1 DEF Carried
  <2> HIDE DEF v
  <2> QED BY <2>1, <2>2, <2>3, <2>4, <2>5
<1>2. CASE f.kind \in {"string", "array"}
  <2> DEFINE C == Chunk(f)
             c == Cut(f)
             n == Len(C)
  <2>1. /\ C[1] = c /\ n >= 1 + c /\ \A i \in 1..c : C[1 + i] = f.v[i]
    <3>1. CASE f.kind = "string"
      <4>1. C[1] = c /\ n = 1 + c /\ \A i \in 1..c : C[1 + i] = f.v[i]
        BY <3>1, ChunkFacts
      <4>2. c \in Nat
        BY <1>0
      <4> HIDE DEF C, c, n
      <4>3. n >= 1 + c
        BY <4>1, <4>2
      <4> QED BY <4>1, <4>3
    <3>2. CASE f.kind = "array"
      <4>1. /\ C[1] = c /\ n = 1 + Len(f.v)
            /\ \A i \in 1..Len(f.v) : C[1 + i] = f.v[i]
        BY <3>2, ChunkFacts
      <4>2. \A i \in 1..c : i \in 1..Len(f.v)
        BY <1>0
      <4> HIDE DEF C, c, n
      <4>3. n >= 1 + c
        BY <1>0, <4>1 DEF c
      <4> QED BY <4>1, <4>2, <4>3
    <3> QED BY <1>2, <3>1, <3>2
  <2>a. c \in Nat /\ n \in Nat /\ o \in Nat /\ Len(b) \in Nat
    BY <1>0
  <2>b. o + n <= Len(b) /\ \A i \in 1..n : b[o + i] = C[i]
    BY <1>a
  <2>2. o + 1 + c <= Len(b) /\ b[o + 1] = c
    <3> HIDE DEF C, c, n, o, b
    <3>1. 1 \in 1..n
      BY <2>a, <2>1
    <3> QED BY <2>a, <2>b, <2>1, <3>1
  <2>3. \A i \in 1..c : b[o + 1 + i] = f.v[i]
    <3> HIDE DEF C, c, n, o, b
    <3> SUFFICES ASSUME NEW i \in 1..c PROVE b[o + 1 + i] = f.v[i]
      OBVIOUS
    <3>0. n >= 1 + c
      BY <2>1
    <3>1. 1 + i \in 1..n /\ o + (1 + i) = o + 1 + i
      BY <2>a, <3>0
    <3>2. b[o + (1 + i)] = C[1 + i]
      BY <2>b, <3>1
    <3> QED BY <2>1, <3>1, <3>2
  <2>4. getString(q) = [ok |-> TRUE, p |-> At(q, o + 1 + Cut(f)), v |-> SubSeq(f.v, 1, Cut(f))]
    BY <1>0, <2>2, <2>3, GetStringReads
  <2>5. Carried(f) = SubSeq(f.v, 1, Cut(f))
    BY <1>2 DEF Carried, Cut
  <2>c. /\ getString(q).v = SubSeq(f.v, 1, Cut(f))
        /\ getString(q).p = At(q, o + 1 + Cut(f))
    <3> DEFINE v == SubSeq(f.v, 1, Cut(f))
               r == At(q, o + 1 + Cut(f))
    <3>1. getString(q) = [ok |-> TRUE, p |-> r, v |-> v]
      BY <2>4
    <3> HIDE DEF v, r
    <3>2. getString(q).v = v /\ getString(q).p = r
      BY <3>1
    <3> QED BY <3>2 DEF v, r
  <2>6. Get(q, f) = getString(q)
    <3>1. CASE f.kind = "string"
      BY <3>1, Zenon DEF Get
    <3>2. CASE f.kind = "array"
      <4>1. Get(q, f) = getArray(q, Len(f.v))
        BY <3>2, Zenon DEF Get
      <4>2. getString(q).v = SubSeq(f.v, 1, Cut(f))
        BY <2>c
      <4>3. Len(SubSeq(f.v, 1, Cut(f))) = Cut(f)
        BY <1>0
      <4>4. ~(Len(getString(q).v) > Len(f.v))
        BY <1>0, <4>2, <4>3
      <4> QED BY <4>1, <4>4 DEF getArray
    <3> QED BY <1>2, <3>1, <3>2
  <2>7. ~LongArray(f) => o + 1 + Cut(f) = o + Len(Chunk(f))
    <3>a. o \in Nat /\ c \in Nat /\ n \in Nat
      BY <1>0
    <3>0. n = 1 + c => o + 1 + c = o + n
      <4> HIDE DEF o, c, n, C
      <4> QED BY <3>a
    <3>1. f.kind = "string" => Len(Chunk(f)) = 1 + Cut(f)
      BY ChunkFacts
    <3>2. f.kind = "array" => Len(Chunk(f)) = 1 + Len(f.v)
      BY ChunkFacts
    <3>3. CASE f.kind = "string"
      <4>1. Len(Chunk(f)) = 1 + Cut(f)
        BY <3>1, <3>3
      <4> QED BY <3>0, <4>1
    <3>4. CASE f.kind = "array" /\ Len(f.v) < LenMod
      <4>1. Cut(f) = Len(f.v)
        BY <1>0, <3>4
      <4>2. Len(Chunk(f)) = 1 + Cut(f)
        BY <3>2, <3>4, <4>1
      <4> QED BY <3>0, <4>2
    <3>5. CASE f.kind = "array" /\ Len(f.v) >= LenMod
      BY <3>5 DEF LongArray
    <3> QED BY <1>0, <1>2, <3>3, <3>4, <3>5
  <2>8. Get(q, f).v = SubSeq(f.v, 1, Cut(f)) /\ Get(q, f).p = At(q, o + 1 + Cut(f))
    BY <2>c, <2>6
  <2> QED BY <2>5, <2>7, <2>8
<1> QED BY <1>0, <1>1, <1>2

\* The packet after n of the fields: the first part of the whole one, in which
\* the chunk of the next field follows.
LEMMA ChunksLie ==
  ASSUME NEW fields \in Seq(Field), Encoded(fields).whole, NEW n \in 0..Len(fields)
  PROVE  /\ Encoding(fields)[n].whole
         /\ Lies(Encoding(fields)[n].p.buf, Encoded(fields).p.buf, 0)
         /\ n < Len(fields) =>
              /\ Lies(Chunk(fields[n+1]), Encoded(fields).p.buf, Len(Encoding(fields)[n].p.buf))
              /\ Len(Encoding(fields)[n+1].p.buf)
                   = Len(Encoding(fields)[n].p.buf) + Len(Chunk(fields[n+1]))
<1> DEFINE m == Len(fields)
           E == Encoding(fields)
           B == Encoded(fields).p.buf
           Buf(i) == E[i].p.buf
           P == {j \in 0..m : E[m-j].whole /\ Lies(Buf(m-j), B, 0)}
<1>0. /\ m \in Nat /\ \A i \in 1..m : fields[i] \in Field
      /\ E[m].whole /\ B = Buf(m)
  BY DEF Encoded
<1>1. /\ \A i \in 1..m : E[i] = WithField(E[i-1], fields[i])
      /\ \A i \in 0..m : E[i] \in Filled /\ Buf(i) \in Seq(Nat) /\ Len(Buf(i)) \in Nat
  <2>1. /\ \A i \in 1..m : E[i] = WithField(E[i-1], fields[i])
        /\ \A i \in 0..m : E[i] \in Filled
    BY EncodingFacts
  <2>2. \A e \in Filled : e.p.buf \in Seq(Nat) /\ Len(e.p.buf) \in Nat
    BY DEF Filled, Packets
  <2> QED BY <2>1, <2>2
<1> HIDE DEF m, E, B
<1>2. ASSUME NEW i \in 0..m-1, E[i+1].whole
      PROVE  /\ E[i].whole /\ Buf(i+1) = Buf(i) \o Chunk(fields[i+1])
             /\ Len(Buf(i+1)) = Len(Buf(i)) + Len(Chunk(fields[i+1]))
             /\ \A x \in 1..Len(Buf(i)) : Buf(i+1)[x] = Buf(i)[x]
             /\ \A x \in 1..Len(Chunk(fields[i+1])) :
                  Buf(i+1)[Len(Buf(i)) + x] = Chunk(fields[i+1])[x]
  <2>1. i + 1 \in 1..m /\ (i + 1) - 1 = i /\ i \in 0..m
    BY <1>0
  <2>2. /\ E[i+1] = WithField(E[i], fields[i+1]) /\ E[i] \in Filled
        /\ fields[i+1] \in Field /\ Buf(i) \in Seq(Nat)
    BY <1>0, <1>1, <2>1
  <2>3. E[i].whole /\ Buf(i+1) = Buf(i) \o Chunk(fields[i+1])
    <3> DEFINE e == E[i]
               f == fields[i+1]
    <3>1. e \in Filled /\ f \in Field /\ WithField(e, f).whole
      BY <1>2, <2>2
    <3> HIDE DEF e, f
    <3>2. e.whole /\ WithField(e, f).p.buf = e.p.buf \o Chunk(f)
      BY <3>1, WithFieldIsFilled
    <3> QED BY <2>2, <3>2 DEF e, f
  <2>4. Chunk(fields[i+1]) \in Seq(Nat)
    BY <2>2, ChunkFacts
  <2> DEFINE a == Buf(i)
             c == Chunk(fields[i+1])
  <2>5. /\ Len(a \o c) = Len(a) + Len(c)
        /\ \A x \in 1..Len(a) : (a \o c)[x] = a[x]
        /\ \A x \in 1..Len(c) : (a \o c)[Len(a) + x] = c[x]
    <3> HIDE DEF c, a
    <3>1. a \in Seq(Nat) /\ c \in Seq(Nat)
      BY <2>2, <2>4 DEF a, c
    <3> QED BY <3>1, SeqFacts
  <2> QED BY <2>3, <2>5
<1>3. 0 \in P
  <2>1. m - 0 = m
    BY <1>0
  <2> QED BY <1>0, <1>1, <2>1 DEF Lies
<1>4. ASSUME NEW j \in 0..m-1, j \in P PROVE j + 1 \in P
  <2> DEFINE i == m - (j + 1)
  <2>1. i \in 0..m-1 /\ i \in 0..m /\ i + 1 = m - j /\ i + 1 \in 0..m /\ j + 1 \in 0..m
    BY <1>0
  <2> HIDE DEF i
  <2>2. E[i+1].whole /\ Lies(Buf(i+1), B, 0)
    BY <1>4, <2>1
  <2>3. E[i].whole /\ Lies(Buf(i), B, 0)
    <3>1. /\ E[i].whole /\ Len(Buf(i+1)) = Len(Buf(i)) + Len(Chunk(fields[i+1]))
          /\ \A x \in 1..Len(Buf(i)) : Buf(i+1)[x] = Buf(i)[x]
      BY <1>2, <2>1, <2>2
    <3>2. Len(Buf(i)) \in Nat /\ Len(Buf(i+1)) \in Nat /\ Len(B) \in Nat
      BY <1>0, <1>1, <2>1
    <3>3. Len(Chunk(fields[i+1])) \in Nat
      BY <1>0, <2>1, ChunkFacts
    <3> DEFINE u == Len(Buf(i))
               v == Len(Buf(i+1))
               w == Len(Chunk(fields[i+1]))
    <3>4. u <= v
      <4>1. u \in Nat /\ v \in Nat /\ w \in Nat /\ v = u + w
        BY <3>1, <3>2, <3>3
      <4> HIDE DEF u, v, w
      <4> QED BY <4>1
    <3>5. 0 + Len(Buf(i+1)) <= Len(B) /\ \A x \in 1..Len(Buf(i+1)) : B[0 + x] = Buf(i+1)[x]
      BY <2>2 DEF Lies
    <3>6. \A x \in 1..u : x \in 1..v
      <4>1. u \in Nat /\ v \in Nat
        BY <3>2
      <4> HIDE DEF u, v
      <4> QED BY <3>4, <4>1
    <3>7. 0 + Len(Buf(i)) <= Len(B)
      BY <3>2, <3>4, <3>5
    <3>8. \A x \in 1..Len(Buf(i)) : B[0 + x] = Buf(i)[x]
      BY <3>1, <3>5, <3>6
    <3> QED BY <3>1, <3>7, <3>8 DEF Lies
  <2> QED BY <2>1, <2>3 DEF i
<1>5. \A i \in 0..m : E[i].whole /\ Lies(Buf(i), B, 0)
  <2> SUFFICES ASSUME NEW i \in 0..m PROVE E[i].whole /\ Lies(Buf(i), B, 0)
    OBVIOUS
  <2>1. m - i \in 0..m /\ m - (m - i) = i
    BY <1>0
  <2>2. m - i \in P
    <3> HIDE DEF P
    <3> QED BY <1>0, <1>3, <1>4, <2>1, Induction
  <2> QED BY <2>1, <2>2
<1>6. ASSUME n < m
      PROVE  /\ Lies(Chunk(fields[n+1]), B, Len(Buf(n)))
             /\ Len(Buf(n+1)) = Len(Buf(n)) + Len(Chunk(fields[n+1]))
  <2> DEFINE c == Chunk(fields[n+1])
             o == Len(Buf(n))
             k == Len(c)
  <2>1. n \in 0..m-1 /\ n \in 0..m /\ n + 1 \in 0..m /\ n + 1 \in 1..m
    BY <1>0, <1>6 DEF m
  <2>2. E[n+1].whole /\ Lies(Buf(n+1), B, 0)
    BY <1>5, <2>1
  <2>3. Len(Buf(n+1)) = o + k /\ \A x \in 1..k : Buf(n+1)[o + x] = c[x]
    BY <1>2, <2>1, <2>2
  <2>4. o \in Nat /\ k \in Nat /\ Len(B) \in Nat
    BY <1>0, <1>1, <2>1, ChunkFacts
  <2>5. 0 + Len(Buf(n+1)) <= Len(B) /\ \A x \in 1..Len(Buf(n+1)) : B[0 + x] = Buf(n+1)[x]
    BY <2>2 DEF Lies
  <2> HIDE DEF o, k, c
  <2>6. o + k <= Len(B)
    BY <2>3, <2>4, <2>5
  <2>7. ASSUME NEW x \in 1..k PROVE B[o + x] = c[x]
    <3>1. o + x \in 1..Len(Buf(n+1)) /\ 0 + (o + x) = o + x
      BY <2>3, <2>4
    <3> QED BY <2>3, <2>5, <3>1
  <2> QED BY <2>3, <2>6, <2>7 DEF Lies, o, k, c
<1> QED BY <1>5, <1>6 DEF m, E, B

\* What was put is got back, up to and with the first array too long.
LEMMA RoundTrip ==
  ASSUME NEW fields \in Seq(Field), Encoded(fields).whole, NEW k \in 1..Len(fields),
         \A j \in 1..k-1 : ~LongArray(fields[j])
  PROVE  Decoding(Encoded(fields).p, fields)[k].v = Carried(fields[k])
<1> DEFINE m == Len(fields)
           q == Encoded(fields).p
           D == Decoding(q, fields)
           E == Encoding(fields)
           off(n) == Len(E[n].p.buf)
           P == {n \in 0..k-1 : D[n].p = At(q, off(n))}
<1>0. m \in Nat /\ k \in 1..m /\ \A i \in 1..m : fields[i] \in Field
  OBVIOUS
<1>1. q \in Readable /\ q.m_read_idx = 0 /\ q.buf \in Seq(Nat)
  <2>1. Encoded(fields) \in Filled
    BY EncodedFacts
  <2>2. q \in Packets /\ q.m_read_idx = 0 /\ q.buf \in Seq(Nat) /\ Len(q.buf) \in Nat
    BY <2>1 DEF Filled, Packets
  <2> QED BY <2>2 DEF Readable
<1>2. D[0].p = q /\ \A n \in 1..m : D[n] = Get(D[n-1].p, fields[n])
  <2> HIDE DEF q
  <2>1. /\ D[0] = [ok |-> TRUE, p |-> q, v |-> <<>>]
        /\ \A n \in 1..m : D[n] = Get(D[n-1].p, fields[n])
    BY <1>1, DecodingFacts
  <2> HIDE DEF D, m
  <2>2. D[0].p = q
    BY <2>1
  <2> QED BY <2>1, <2>2
<1>3. /\ off(0) = 0
      /\ \A n \in 0..m : off(n) \in Nat /\ off(n) <= Len(q.buf)
      /\ \A n \in 0..m : n < m =>
           /\ Lies(Chunk(fields[n+1]), q.buf, off(n))
           /\ off(n+1) = off(n) + Len(Chunk(fields[n+1]))
  <2>1. off(0) = 0
    <3>1. E[0].p.buf = <<>>
      BY EncodingFacts DEF EmptyPacket, NewPacket
    <3> QED BY <3>1
  <2>2. ASSUME NEW n \in 0..m PROVE off(n) \in Nat /\ off(n) <= Len(q.buf)
    <3>1. E[n] \in Filled
      BY EncodingFacts
    <3>2. E[n].p.buf \in Seq(Nat)
      BY <3>1 DEF Filled, Packets
    <3>3. off(n) \in Nat /\ Len(q.buf) \in Nat
      BY <1>1, <3>2
    <3>4. 0 + off(n) <= Len(q.buf)
      BY ChunksLie DEF Lies
    <3> QED BY <3>3, <3>4
  <2> QED BY <2>1, <2>2, ChunksLie
<1>a. q = At(q, 0)
  BY <1>1 DEF At, Readable, Packets
<1> HIDE DEF q, D, E, m
\* The index is at the next field's chunk.
<1>4. ASSUME NEW n \in 0..k-1, n \in P
      PROVE  /\ D[n+1].v = Carried(fields[n+1])
             /\ ~LongArray(fields[n+1]) => D[n+1].p = At(q, off(n+1))
  <2> DEFINE r == D[n].p
             f == fields[n+1]
  <2>1. n + 1 \in 1..m /\ n \in 0..m /\ n < m /\ (n + 1) - 1 = n
    BY <1>0
  <2>2. r.buf = q.buf /\ r.m_read_idx = off(n) /\ r = At(q, off(n))
    BY <1>4 DEF At
  <2>3. r \in Readable
    BY <1>1, <1>3, <2>1, <2>2 DEF At, Readable, Packets
  <2>4. f \in Field /\ Lies(Chunk(f), r.buf, r.m_read_idx)
    BY <1>0, <1>3, <2>1, <2>2
  <2>5. D[n+1] = Get(r, f)
    BY <1>2, <2>1
  <2>6. At(r, r.m_read_idx + Len(Chunk(f))) = At(q, off(n+1))
    BY <1>3, <2>1, <2>2 DEF At
  <2> HIDE DEF r, f
  <2>7. /\ Get(r, f).v = Carried(f)
        /\ ~LongArray(f) => Get(r, f).p = At(r, r.m_read_idx + Len(Chunk(f)))
    BY <2>3, <2>4, GetReadsChunk
  <2> QED BY <2>5, <2>6, <2>7 DEF f
<1>5. \A n \in 0..k-1 : n \in P
  <2>1. 0 \in P
    BY <1>0, <1>2, <1>3, <1>a
  <2>2. ASSUME NEW n \in 0..k-2, n \in P PROVE n + 1 \in P
    <3>1. n \in 0..k-1 /\ n + 1 \in 1..k-1 /\ n + 1 \in 0..k-1
      BY <1>0
    <3>2. ~LongArray(fields[n+1])
      BY <3>1
    <3> QED BY <1>4, <2>2, <3>1, <3>2
  <2>3. k - 1 \in Nat /\ (k - 1) - 1 = k - 2
    BY <1>0
  <2> HIDE DEF P
  <2> QED BY <2>1, <2>2, <2>3, Induction
<1>6. k - 1 \in 0..k-1 /\ (k - 1) + 1 = k
  BY <1>0
<1>7. k - 1 \in P
  <2> HIDE DEF P
  <2> QED BY <1>5, <1>6
<1>8. D[k].v = Carried(fields[k])
  <2> HIDE DEF P
  <2> QED BY <1>4, <1>6, <1>7
<1> QED BY <1>8 DEF D, q

\* The gets of a reader give back the puts of any message sent whole, up to and
\* with the first array of 2^16 bytes or more.
THEOREM ReadBack == Spec => []ReadAsPut
<1>1. GatewayInv => ReadAsPut
  <2> SUFFICES ASSUME GatewayInv, NEW i \in 1..Len(sent), sent[i].whole,
                      NEW k \in 1..Len(sent[i].fields),
                      \A j \in 1..k-1 : LET f == sent[i].fields[j]
                                        IN  ~(f.kind = "array" /\ Len(f.v) >= LenMod)
               PROVE  Decoding(sent[i].p, sent[i].fields)[k].v = Carried(sent[i].fields[k])
    BY DEF ReadAsPut
  <2> DEFINE fields == sent[i].fields
  <2>1. /\ sent[i] \in SentRecord
        /\ [p |-> sent[i].p, whole |-> sent[i].whole] = Encoded(fields)
    <3>1. sent[i] \in SentRecord
      BY DEF GatewayInv, SentInv
    <3>2. [p |-> sent[i].p, whole |-> sent[i].whole] = Encoded(fields)
      BY Zenon DEF GatewayInv, SentInv
    <3> QED BY <3>1, <3>2
  <2>2. fields \in Seq(Field)
    BY <2>1 DEF SentRecord
  <2>3. Encoded(fields).p = sent[i].p /\ Encoded(fields).whole = sent[i].whole
    <3> DEFINE a == sent[i].p
               w == sent[i].whole
               e == Encoded(fields)
    <3>1. e = [p |-> a, whole |-> w]
      BY <2>1
    <3> HIDE DEF a, w, e
    <3>2. e.p = a /\ e.whole = w
      BY <3>1
    <3> QED BY <3>2 DEF a, w, e
  <2>4. \A j \in 1..k-1 : ~LongArray(fields[j])
    BY DEF LongArray
  <2>5. Encoded(fields).whole
    BY <2>3
  <2> HIDE DEF fields
  <2>6. k \in 1..Len(fields)
    BY DEF fields
  <2>7. Decoding(Encoded(fields).p, fields)[k].v = Carried(fields[k])
    BY <2>2, <2>4, <2>5, <2>6, RoundTrip
  <2> QED BY <2>3, <2>7 DEF fields
<1> QED BY <1>1, GatewayInvariant, PTL

=============================================================================
