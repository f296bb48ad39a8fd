------------------------- MODULE RecvFramingProofs -------------------------
(***************************************************************************)
(* Proofs about CRingBuffer and RecvFraming for every size.                *)
(*                                                                         *)
(* The ring: whatever front and rear are, a receive of at most             *)
(* DirectEnqueueSize bytes stays inside the array and never makes a full   *)
(* ring look empty.  Framing: the ring holds the stream byte by byte       *)
(* (Holds), a receive and a read keep that, and so the header the worker   *)
(* reads is always the one of the next packet.                             *)
(***************************************************************************)
EXTENDS RecvFraming, SequenceTheorems, NaturalsInduction, WellFoundedInduction,
        TLAPS

(* The client's stream *)

(* Every set of numbers that is not empty has a least one. *)
LEMMA LeastNumber ==
  ASSUME NEW T \in SUBSET Nat, T # {}
  PROVE  \E n \in T : \A m \in T : n <= m
<1> DEFINE R == OpToRel(<, Nat)
<1>1. IsWellFoundedOn(R, Nat)
  BY NatLessThanWellFounded
<1>2. \A x, y \in Nat : x < y => <<x, y>> \in R
  BY DEF OpToRel
<1> HIDE DEF R
<1>3. PICK n \in T : \A m \in T : ~(<<m, n>> \in R)
  BY <1>1, WFMin
<1>4. \A m \in T : ~(m < n)
  BY <1>2, <1>3
<1> QED
  BY <1>4

PacketSet == [len : 0 .. MaxLen, ok : BOOLEAN]

(* The sizes: both buffers have 4096 bytes, and a header fits in the ring. *)
LEMMA Sizes ==
  /\ maxSize \in Nat /\ maxSize > 1 /\ PKT_HEADER_SIZE \in Nat /\ PKT_HEADER_SIZE >= 1
  /\ PKT_HEADER_SIZE < maxSize /\ PACKET_BUFFER_SIZE = maxSize
  /\ MaxLen \in Nat /\ MaxPackets \in Nat /\ MaxSessions \in Nat
BY MaxSizeAssumption, SizesAssumption

(* The equation of the recursive definition up to packet m. *)
IsStart(f, ps, m) ==
  f = [i \in 1 .. m |-> IF i = 1 THEN 0 ELSE f[i - 1] + PKT_HEADER_SIZE + ps[i - 1].len]

(* A function with that equation exists: the least number of packets       *)
(* without one has a predecessor with one, which can be extended.          *)
LEMMA StartExists ==
  ASSUME NEW ps, NEW n \in Nat
  PROVE  \E f : IsStart(f, ps, n)
<1> DEFINE T == {m \in Nat : ~\E f : IsStart(f, ps, m)}
<1> SUFFICES ASSUME T # {} PROVE FALSE
  OBVIOUS
<1>1. PICK m \in T : \A k \in T : m <= k
  BY LeastNumber
<1>2. m \in Nat /\ ~\E f : IsStart(f, ps, m)
  OBVIOUS
<1>3. m # 0
  <2>1. IsStart([i \in 1 .. 0 |-> 0], ps, 0)
    BY DEF IsStart
  <2> QED
    BY <1>2, <2>1
<1>4. m - 1 \in Nat /\ m - 1 \notin T
  BY <1>1, <1>2, <1>3
<1>5. PICK g : IsStart(g, ps, m - 1)
  BY <1>4
<1>6. PICK v : v = IF m = 1 THEN 0 ELSE g[m - 1] + PKT_HEADER_SIZE + ps[m - 1].len
  OBVIOUS
<1> DEFINE f == [i \in 1 .. m |-> IF i = m THEN v ELSE g[i]]
<1>7. \A i \in 1 .. m : i = m \/ (i \in 1 .. m - 1 /\ i # m)
  BY <1>2, <1>3
<1>8. \A i \in 1 .. m - 1 : g[i] = IF i = 1 THEN 0 ELSE g[i - 1] + PKT_HEADER_SIZE + ps[i - 1].len
  BY <1>5 DEF IsStart
<1>9. ASSUME NEW i \in 1 .. m
      PROVE  f[i] = IF i = 1 THEN 0 ELSE f[i - 1] + PKT_HEADER_SIZE + ps[i - 1].len
  <2>1. CASE i = 1 /\ m = 1
    BY <1>6, <2>1
  <2>2. CASE i = 1 /\ m # 1
    BY <1>7, <1>8, <2>2
  <2>3. CASE i # 1
    <3>1. i - 1 \in 1 .. m /\ i - 1 # m
      BY <1>2, <2>3
    <3>2. f[i - 1] = g[i - 1]
      BY <3>1
    <3>3. CASE i = m
      BY <1>6, <2>3, <3>2, <3>3
    <3>4. CASE i # m
      BY <1>7, <1>8, <2>3, <3>2, <3>4
    <3> QED
      BY <3>3, <3>4
  <2> QED
    BY <2>1, <2>2, <2>3
<1>10. IsStart(f, ps, m)
  <2>1. f = [i \in 1 .. m |-> f[i]]
    OBVIOUS
  <2> HIDE DEF f
  <2> QED
    BY <1>9, <2>1 DEF IsStart
<1> HIDE DEF f
<1> QED
  BY <1>2, <1>10

(* So Starts is such a function. *)
LEMMA StartsIs ==
  ASSUME NEW ps \in Seq(PacketSet)
  PROVE  IsStart(Starts(ps), ps, Len(ps) + 1)
<1>1. Len(ps) + 1 \in Nat
  OBVIOUS
<1>2. \E f : IsStart(f, ps, Len(ps) + 1)
  BY <1>1, StartExists
<1>3. Starts(ps) = CHOOSE f : IsStart(f, ps, Len(ps) + 1)
  BY DEF Starts, IsStart
<1> QED
  BY <1>2, <1>3

(* Starts, one packet after the other. *)
LEMMA StartsRec ==
  ASSUME NEW ps \in Seq(PacketSet)
  PROVE  /\ Starts(ps)[1] = 0
         /\ \A i \in 1 .. Len(ps) :
              Starts(ps)[i + 1] = Starts(ps)[i] + PKT_HEADER_SIZE + ps[i].len
<1>1. PICK f, n : f = Starts(ps) /\ n = Len(ps)
  OBVIOUS
<1>2. n \in Nat
  BY <1>1
<1>3. f = [i \in 1 .. n + 1 |-> IF i = 1 THEN 0 ELSE f[i - 1] + PKT_HEADER_SIZE + ps[i - 1].len]
  BY <1>1, StartsIs DEF IsStart
<1>4. f[1] = 0
  BY <1>2, <1>3
<1>5. ASSUME NEW i \in 1 .. n
      PROVE  f[i + 1] = f[i] + PKT_HEADER_SIZE + ps[i].len
  <2>1. i + 1 \in 1 .. n + 1 /\ i + 1 # 1 /\ (i + 1) - 1 = i
    BY <1>2
  <2>2. f[i + 1] = f[(i + 1) - 1] + PKT_HEADER_SIZE + ps[(i + 1) - 1].len
    BY <1>3, <2>1
  <2> QED
    BY <2>1, <2>2
<1> QED
  BY <1>1, <1>4, <1>5

(* What a client's packet is. *)
LEMMA PacketLen ==
  ASSUME NEW ps \in Seq(PacketSet), NEW i \in 1 .. Len(ps)
  PROVE  ps[i].len \in Nat /\ ps[i].len <= MaxLen /\ ps[i].ok \in BOOLEAN
<1>1. ps[i] \in PacketSet
  BY ElementOfSeq
<1> QED
  BY <1>1, Sizes DEF PacketSet

(* Every start is a number of bytes ... *)
LEMMA StartsType ==
  ASSUME NEW ps \in Seq(PacketSet)
  PROVE  \A i \in 1 .. Len(ps) + 1 : Starts(ps)[i] \in Nat
<1>1. PICK f, n : f = Starts(ps) /\ n = Len(ps)
  OBVIOUS
<1>2. n \in Nat
  BY <1>1
<1>3. f[1] = 0 /\ \A i \in 1 .. n : f[i + 1] = f[i] + PKT_HEADER_SIZE + ps[i].len
  BY <1>1, StartsRec
<1> DEFINE T == {i \in 1 .. n + 1 : f[i] \notin Nat}
<1>4. T = {}
  <2> SUFFICES ASSUME T # {} PROVE FALSE
    OBVIOUS
  <2>1. T \in SUBSET Nat
    BY <1>2
  <2>2. PICK m \in T : \A k \in T : m <= k
    BY <2>1, LeastNumber
  <2>3. m \in 1 .. n + 1 /\ f[m] \notin Nat /\ m # 1
    BY <1>3
  <2>4. PICK j : j = m - 1
    OBVIOUS
  <2>5. j \in 1 .. n /\ j + 1 = m /\ j \in 1 .. n + 1 /\ ~(m <= j)
    BY <1>2, <2>3, <2>4
  <2>6. f[j] \in Nat
    BY <2>2, <2>5
  <2>7. f[m] = f[j] + PKT_HEADER_SIZE + ps[j].len
    BY <1>3, <2>5
  <2>8. ps[j].len \in Nat
    BY <1>1, <2>5, PacketLen
  <2> QED
    BY <2>3, <2>6, <2>7, <2>8, Sizes
<1> QED
  BY <1>1, <1>4

(* ... and later packets start later. *)
LEMMA StartsMono ==
  ASSUME NEW ps \in Seq(PacketSet), NEW i \in 1 .. Len(ps) + 1, NEW j \in 1 .. Len(ps) + 1, i <= j
  PROVE  Starts(ps)[i] <= Starts(ps)[j]
<1>1. PICK f, n : f = Starts(ps) /\ n = Len(ps)
  OBVIOUS
<1>2. n \in Nat
  BY <1>1
<1>3. \A k \in 1 .. n : f[k + 1] = f[k] + PKT_HEADER_SIZE + ps[k].len
  BY <1>1, StartsRec
<1>4. \A k \in 1 .. n + 1 : f[k] \in Nat
  BY <1>1, StartsType
<1> DEFINE T == {k \in 1 .. n + 1 : i <= k /\ ~(f[i] <= f[k])}
<1>5. T = {}
  <2> SUFFICES ASSUME T # {} PROVE FALSE
    OBVIOUS
  <2>1. T \in SUBSET Nat
    BY <1>2
  <2>2. PICK m \in T : \A k \in T : m <= k
    BY <2>1, LeastNumber
  <2>3. m \in 1 .. n + 1 /\ i <= m /\ ~(f[i] <= f[m])
    OBVIOUS
  <2>0. i \in 1 .. n + 1
    BY <1>1
  <2>4. m # i
    BY <1>4, <2>0, <2>3
  <2>5. PICK l : l = m - 1
    OBVIOUS
  <2>6. l \in 1 .. n /\ l + 1 = m /\ l \in 1 .. n + 1 /\ ~(m <= l) /\ i <= l
    BY <1>2, <2>0, <2>3, <2>4, <2>5
  <2>7. f[i] <= f[l]
    BY <2>2, <2>6
  <2>8. f[m] = f[l] + PKT_HEADER_SIZE + ps[l].len /\ ps[l].len \in Nat
    BY <1>1, <1>3, <2>6, PacketLen
  <2>9. f[i] \in Nat /\ f[l] \in Nat /\ f[m] \in Nat
    BY <1>4, <2>0, <2>3, <2>6
  <2> QED
    BY <2>3, <2>7, <2>8, <2>9, Sizes, SMTT(30)
<1> QED
  BY <1>1, <1>5

(* The o-th byte of packet i is where its start says. *)
LEMMA ByteOf ==
  ASSUME NEW ps \in Seq(PacketSet), NEW i \in 1 .. Len(ps),
         NEW o \in 1 .. PKT_HEADER_SIZE + ps[i].len
  PROVE  ByteAt(ps, Starts(ps)[i] + o) = [pkt |-> i, off |-> o]
<1>1. PICK f, n : f = Starts(ps) /\ n = Len(ps)
  OBVIOUS
<1>2. n \in Nat /\ ps[i].len \in Nat /\ PKT_HEADER_SIZE \in Nat
  BY <1>1, PacketLen, Sizes
<1>3. \A k \in 1 .. n : f[k + 1] = f[k] + PKT_HEADER_SIZE + ps[k].len
  BY <1>1, StartsRec
<1>4. \A k \in 1 .. n + 1 : f[k] \in Nat
  BY <1>1, StartsType
<1>5. \A k, l \in 1 .. n + 1 : k <= l => f[k] <= f[l]
  BY <1>1, StartsMono
<1>6. PICK a : a = f[i] + o
  OBVIOUS
<1>7. i \in 1 .. n /\ i \in 1 .. n + 1 /\ i + 1 \in 1 .. n + 1 /\ f[i] \in Nat /\ f[i + 1] \in Nat
  BY <1>1, <1>2, <1>4
<1>8. f[i] < a /\ a <= f[i + 1] /\ a \in Nat
  <2>1. PICK u, v, l : u = f[i] /\ v = f[i + 1] /\ l = ps[i].len
    OBVIOUS
  <2>2. v = u + PKT_HEADER_SIZE + l /\ a = u + o /\ u \in Nat /\ l \in Nat
    BY <1>2, <1>3, <1>6, <1>7, <2>1
  <2>3. o \in 1 .. PKT_HEADER_SIZE + l /\ PKT_HEADER_SIZE \in Nat
    BY <1>2, <2>1
  <2>4. u < a /\ a <= v /\ a \in Nat
    BY ONLY <2>2, <2>3
  <2> QED
    BY <2>1, <2>4
<1>9. ASSUME NEW j \in 1 .. n, f[j] < a, a <= f[j + 1]
      PROVE  j = i
  <2>1. j \in 1 .. n + 1 /\ j + 1 \in 1 .. n + 1 /\ f[j] \in Nat /\ f[j + 1] \in Nat
    BY <1>2, <1>4
  <2>2. ~(j + 1 <= i)
    <3> SUFFICES ASSUME j + 1 <= i PROVE FALSE
      OBVIOUS
    <3>1. f[j + 1] <= f[i]
      BY <1>5, <1>7, <2>1
    <3> QED
      BY <1>7, <1>8, <1>9, <2>1, <3>1
  <2>3. ~(i + 1 <= j)
    <3> SUFFICES ASSUME i + 1 <= j PROVE FALSE
      OBVIOUS
    <3>1. f[i + 1] <= f[j]
      BY <1>5, <1>7, <2>1
    <3> QED
      BY <1>7, <1>8, <1>9, <2>1, <3>1
  <2> QED
    BY <1>7, <2>1, <2>2, <2>3
<1>10. (CHOOSE j \in 1 .. n : f[j] < a /\ a <= f[j + 1]) = i
  BY <1>7, <1>8, <1>9
<1>11. ByteAt(ps, a) = [pkt |-> i, off |-> a - f[i]]
  BY <1>1, <1>10 DEF ByteAt
<1>12. a - f[i] = o
  BY <1>2, <1>6, <1>7
<1> QED
  BY <1>1, <1>6, <1>11, <1>12

(* Every byte of the stream is one of a packet. *)
LEMMA ByteType ==
  ASSUME NEW ps \in Seq(PacketSet), Len(ps) <= MaxPackets,
         NEW a \in 1 .. Starts(ps)[Len(ps) + 1]
  PROVE  ByteAt(ps, a) \in Byte
<1>1. PICK f, n : f = Starts(ps) /\ n = Len(ps)
  OBVIOUS
<1>2. /\ n \in Nat /\ n <= MaxPackets
      /\ PKT_HEADER_SIZE \in Nat /\ MaxPackets \in Nat /\ MaxLen \in Nat
  BY <1>1, Sizes
<1>3. f[1] = 0 /\ \A k \in 1 .. n : f[k + 1] = f[k] + PKT_HEADER_SIZE + ps[k].len
  BY <1>1, StartsRec
<1>4. \A k \in 1 .. n + 1 : f[k] \in Nat
  BY <1>1, StartsType
<1> DEFINE T == {k \in 1 .. n + 1 : a <= f[k]}
<1>5. T \in SUBSET Nat /\ n + 1 \in T
  BY <1>1, <1>2, <1>4
<1>6. PICK m \in T : \A k \in T : m <= k
  BY <1>5, LeastNumber
<1>7. m \in 1 .. n + 1 /\ a <= f[m] /\ \A k \in 1 .. n + 1 : a <= f[k] => m <= k
  BY <1>6
<1> HIDE DEF T
<1>8. m # 1
  BY <1>1, <1>3, <1>7
<1>9. PICK i : i = m - 1
  OBVIOUS
<1>10. i \in 1 .. n /\ i + 1 = m /\ ~(m <= i) /\ i \in 1 .. n + 1
  BY <1>2, <1>7, <1>8, <1>9
<1>11. f[i] < a
  <2>1. f[i] \in Nat /\ f[n + 1] \in Nat /\ ~(a <= f[i])
    BY <1>2, <1>4, <1>7, <1>10
  <2>2. a \in Nat
    BY <1>1, <2>1
  <2> QED
    BY <2>1, <2>2
<1>12. PICK o : o = a - f[i]
  OBVIOUS
<1>13. f[i] \in Nat /\ a \in Int /\ ps[i].len \in Nat /\ ps[i].len <= MaxLen
  BY <1>1, <1>4, <1>10, PacketLen
<1>14. o \in 1 .. PKT_HEADER_SIZE + ps[i].len /\ f[i] + o = a
  <2>1. PICK u, v, l : u = f[i] /\ v = f[i + 1] /\ l = ps[i].len
    OBVIOUS
  <2>2. /\ v = u + PKT_HEADER_SIZE + l /\ u < a /\ a <= v /\ o = a - u
        /\ u \in Nat /\ a \in Int /\ l \in Nat /\ PKT_HEADER_SIZE \in Nat
    BY <1>2, <1>3, <1>7, <1>10, <1>11, <1>12, <1>13, <2>1
  <2>3. o \in 1 .. PKT_HEADER_SIZE + l /\ u + o = a
    BY ONLY <2>2
  <2> QED
    BY <2>1, <2>3
<1>15. ByteAt(ps, a) = [pkt |-> i, off |-> o]
  BY <1>1, <1>10, <1>14, ByteOf
<1>16. i \in 1 .. MaxPackets /\ o \in 1 .. PKT_HEADER_SIZE + MaxLen
  BY <1>2, <1>10, <1>13, <1>14
<1> QED
  BY <1>15, <1>16, ByteAssumption

(* The stream is a sequence of bytes of the length Starts gives. *)
LEMMA StreamType ==
  ASSUME NEW ps \in Seq(PacketSet), Len(ps) <= MaxPackets, NEW i \in 1 .. Len(ps) + 1
  PROVE  /\ StreamFrom(ps, i) \in Seq(Byte)
         /\ Len(StreamFrom(ps, i)) = Starts(ps)[Len(ps) + 1] - Starts(ps)[i]
<1>1. PICK f, n : f = Starts(ps) /\ n = Len(ps)
  OBVIOUS
<1>2. n \in Nat /\ i \in 1 .. n + 1 /\ n + 1 \in 1 .. n + 1
  BY <1>1
<1>3. f[n + 1] \in Nat /\ f[i] \in Nat /\ f[i] <= f[n + 1]
  BY <1>1, <1>2, StartsType, StartsMono
<1>4. PICK l : l = f[n + 1] - f[i]
  OBVIOUS
<1>5. l \in Nat
  BY <1>3, <1>4
<1>6. ASSUME NEW k \in 1 .. l
      PROVE  ByteAt(ps, f[i] + k) \in Byte
  <2>1. f[i] + k \in 1 .. f[n + 1]
    BY <1>3, <1>4
  <2> QED
    BY <1>1, <2>1, ByteType
<1>7. StreamFrom(ps, i) = [k \in 1 .. l |-> ByteAt(ps, f[i] + k)]
  BY <1>1, <1>4 DEF StreamFrom
<1>8. StreamFrom(ps, i) \in [1 .. l -> Byte]
  BY <1>6, <1>7
<1> QED
  BY <1>1, <1>4, <1>5, <1>8

(* The stream from packet i is the bytes of packet i and then the stream   *)
(* from the next one.                                                      *)
LEMMA StreamSplit ==
  ASSUME NEW ps \in Seq(PacketSet), Len(ps) <= MaxPackets, NEW i \in 1 .. Len(ps),
         NEW s, s = StreamFrom(ps, i), NEW t, t = StreamFrom(ps, i + 1),
         NEW m, m = PKT_HEADER_SIZE + ps[i].len
  PROVE  /\ Len(s) = m + Len(t)
         /\ \A o \in 1 .. m : s[o] = [pkt |-> i, off |-> o]
         /\ \A k \in 1 .. Len(t) : s[m + k] = t[k]
<1>1. PICK f, n : f = Starts(ps) /\ n = Len(ps)
  OBVIOUS
<1>2. n \in Nat /\ i \in 1 .. n /\ i \in 1 .. n + 1 /\ i + 1 \in 1 .. n + 1 /\ n + 1 \in 1 .. n + 1
  BY <1>1
<1>3. f[n + 1] \in Nat /\ f[i] \in Nat /\ f[i + 1] \in Nat /\ f[i + 1] <= f[n + 1]
  BY <1>1, <1>2, StartsType, StartsMono
<1>4. f[i + 1] = f[i] + m /\ m \in Nat
  <2>1. ps[i].len \in Nat /\ PKT_HEADER_SIZE \in Nat
    BY PacketLen, Sizes
  <2> QED
    BY <1>1, <1>2, <1>3, <2>1, StartsRec, SMTT(30)
<1>5. Len(s) = f[n + 1] - f[i] /\ Len(t) = f[n + 1] - f[i + 1]
  BY <1>1, <1>2, StreamType
<1>6. Len(s) = m + Len(t) /\ Len(t) \in Nat
  BY <1>3, <1>4, <1>5, SMTT(30)
<1>7. \A k \in 1 .. Len(s) : s[k] = ByteAt(ps, f[i] + k)
  BY <1>1, <1>5 DEF StreamFrom
<1>8. \A k \in 1 .. Len(t) : t[k] = ByteAt(ps, f[i + 1] + k)
  BY <1>1, <1>5 DEF StreamFrom
<1>9. ASSUME NEW o \in 1 .. m
      PROVE  s[o] = [pkt |-> i, off |-> o]
  <2>1. o \in 1 .. Len(s)
    BY <1>4, <1>6
  <2>2. ByteAt(ps, f[i] + o) = [pkt |-> i, off |-> o]
    BY <1>1, ByteOf
  <2> QED
    BY <1>7, <2>1, <2>2
<1>10. ASSUME NEW k \in 1 .. Len(t)
       PROVE  s[m + k] = t[k]
  <2>1. m + k \in 1 .. Len(s) /\ f[i] + (m + k) = f[i + 1] + k
    <3>1. PICK u, v, x, y : u = f[i] /\ v = f[i + 1] /\ x = Len(s) /\ y = Len(t)
      OBVIOUS
    <3>2. u \in Nat /\ v \in Nat /\ v = u + m /\ m \in Nat /\ x = m + y /\ y \in Nat /\ k \in 1 .. y
      BY <1>3, <1>4, <1>6, <3>1
    <3>3. m + k \in 1 .. x /\ u + (m + k) = v + k
      BY ONLY <3>2
    <3> QED
      BY <3>1, <3>3
  <2> QED
    BY <1>7, <1>8, <2>1
<1> QED
  BY <1>6, <1>9, <1>10

(* After the last packet nothing is left. *)
LEMMA StreamEnd ==
  ASSUME NEW ps \in Seq(PacketSet), Len(ps) <= MaxPackets
  PROVE  Len(StreamFrom(ps, Len(ps) + 1)) = 0
<1>1. PICK n : n = Len(ps) + 1
  OBVIOUS
<1>2. n \in 1 .. Len(ps) + 1
  BY <1>1
<1>3. Len(StreamFrom(ps, n)) = Starts(ps)[n] - Starts(ps)[n] /\ Starts(ps)[n] \in Nat
  BY <1>1, <1>2, StreamType, StartsType
<1> QED
  BY <1>1, <1>3
-----------------------------------------------------------------------------
(* The ring *)

(* Going round: what % does to a position that passed the end once.        *)
LEMMA GoRound ==
  ASSUME NEW n \in Nat, n < maxSize + maxSize
  PROVE  n % maxSize = IF n < maxSize THEN n ELSE n - maxSize
<1>1. maxSize \in Nat /\ maxSize > 0
  BY MaxSizeAssumption
<1>2. CASE n < maxSize
  BY <1>1, <1>2
<1>3. CASE n >= maxSize
  BY <1>1, <1>3
<1>. QED  BY <1>1, <1>2, <1>3

(* DirectEnqueueSize, the length PostRecv gives WSARecv: the bytes fit     *)
(* between rear and the end of the array and are at most the free ones,    *)
(* and it is 0 only when the ring is full, which is when OnRecvComplete    *)
(* closes the session instead of posting a receive.                        *)
THEOREM WriteRoom ==
  ASSUME front \in Cells, rear \in Cells
  PROVE  /\ DirectEnqueueSize \in 0 .. FreeSize
         /\ rear + DirectEnqueueSize <= maxSize
         /\ DirectEnqueueSize = 0 <=> FreeSize = 0
         /\ UseSize \in 0 .. maxSize - 1
  BY MaxSizeAssumption DEF Cells, DirectEnqueueSize, FreeSize, UseSize

(* Receiving size bytes adds size to the bytes in use.                     *)
THEOREM WriteMoves ==
  ASSUME front \in Cells, rear \in Cells,
         NEW size \in 0 .. DirectEnqueueSize,
         MoveWritePos(size), front' = front
  PROVE  rear' \in Cells /\ UseSize' = UseSize + size
<1>1. size \in Nat /\ size <= FreeSize /\ rear + size <= maxSize
  BY WriteRoom, MaxSizeAssumption DEF Cells, DirectEnqueueSize, FreeSize, UseSize
<1>2. rear' = IF rear + size < maxSize THEN rear + size ELSE rear + size - maxSize
  BY <1>1, GoRound, MaxSizeAssumption DEF MoveWritePos, Cells
<1>3. size <= DirectEnqueueSize
  BY <1>1, MaxSizeAssumption DEF Cells, DirectEnqueueSize
<1>. QED  BY <1>1, <1>2, <1>3, MaxSizeAssumption
          DEF Cells, UseSize, FreeSize, DirectEnqueueSize

(* Reading size bytes that are in use takes size off them.                 *)
THEOREM ReadMoves ==
  ASSUME front \in Cells, rear \in Cells,
         NEW size \in 0 .. UseSize,
         MoveReadPos(size), rear' = rear
  PROVE  front' \in Cells /\ UseSize' = UseSize - size
<1>1. size \in Nat /\ size <= UseSize /\ size < maxSize
  BY MaxSizeAssumption DEF Cells, UseSize
<1>2. front' = IF front + size < maxSize THEN front + size ELSE front + size - maxSize
  BY <1>1, GoRound, MaxSizeAssumption DEF MoveReadPos, Cells
<1>. QED  BY <1>1, <1>2, MaxSizeAssumption DEF Cells, UseSize

(* The cell of the i-th byte in use, and how many there are. *)
Cell(f, i) == IF f + i - 1 < maxSize THEN f + i - 1 ELSE f + i - 1 - maxSize
Past(p, n) == (p + n) % maxSize
Use(f, r) == IF f <= r THEN r - f ELSE maxSize - f + r
Room(f, r) == IF f <= r THEN IF f = 0 THEN maxSize - 1 - r ELSE maxSize - r ELSE f - r - 1

(* How many bytes a ring holds and may receive. *)
LEMMA UseType ==
  ASSUME NEW f \in Cells, NEW r \in Cells
  PROVE  /\ Use(f, r) \in Nat /\ Use(f, r) <= maxSize - 1
         /\ Room(f, r) \in Nat /\ r + Room(f, r) <= maxSize
         /\ Room(f, r) = 0 => Use(f, r) = maxSize - 1
BY Sizes DEF Cells, Use, Room

(* The cells in use are cells, and none of those a receive may fill. *)
LEMMA CellUsed ==
  ASSUME NEW f \in Cells, NEW r \in Cells, NEW i \in 1 .. Use(f, r), NEW n \in 0 .. Room(f, r)
  PROVE  Cell(f, i) \in Cells /\ Cell(f, i) \notin r .. r + n - 1
BY Sizes DEF Cells, Use, Room, Cell

(* A receive fills the cells after the last one in use. *)
LEMMA CellFilled ==
  ASSUME NEW f \in Cells, NEW r \in Cells, NEW n \in 0 .. Room(f, r), NEW k \in 1 .. n
  PROVE  Cell(f, Use(f, r) + k) = r + k - 1 /\ r + k - 1 \in Cells /\ r + k - 1 \in r .. r + n - 1
<1>1. n \in Nat /\ r + n <= maxSize /\ r \in Nat /\ maxSize \in Nat /\ maxSize > 1
  BY Sizes DEF Cells, Room
<1>2. Cell(f, Use(f, r) + k) = r + k - 1 /\ r + k - 1 \in Cells
  BY Sizes DEF Cells, Use, Room, Cell
<1> QED
  BY <1>1, <1>2

(* The ring then holds n bytes more. *)
LEMMA UseFilled ==
  ASSUME NEW f \in Cells, NEW r \in Cells, NEW n \in 0 .. Room(f, r), NEW q, q = Past(r, n)
  PROVE  q \in Cells /\ Use(f, q) = Use(f, r) + n
<1>1. n \in Nat /\ r + n <= maxSize /\ r \in Nat /\ maxSize \in Nat /\ maxSize > 1
  BY Sizes DEF Cells, Room
<1>2. q = IF r + n < maxSize THEN r + n ELSE r + n - maxSize
  BY <1>1, GoRound DEF Past
<1> QED
  BY <1>2, Sizes DEF Cells, Use, Room

(* Reading m bytes, the others keep their cells. *)
LEMMA CellMoved ==
  ASSUME NEW f \in Cells, NEW r \in Cells, NEW m \in 0 .. Use(f, r), NEW g, g = Past(f, m)
  PROVE  /\ g \in Cells /\ Use(g, r) = Use(f, r) - m
         /\ \A i \in 1 .. Use(f, r) - m : Cell(g, i) = Cell(f, m + i)
<1>1. m \in Nat /\ m < maxSize /\ f \in Nat /\ maxSize \in Nat /\ maxSize > 1 /\ f < maxSize
  BY Sizes DEF Cells, Use
<1>2. g = IF f + m < maxSize THEN f + m ELSE f + m - maxSize
  BY <1>1, GoRound DEF Past
<1>3. g \in Cells /\ Use(g, r) = Use(f, r) - m
  BY <1>1, <1>2 DEF Cells, Use
<1>4. ASSUME NEW i \in 1 .. Use(f, r) - m
      PROVE  Cell(g, i) = Cell(f, m + i)
  BY <1>1, <1>2 DEF Cells, Use, Cell
<1> QED
  BY <1>3, <1>4

(* What Peek copies, of any ring. *)
Content == Byte \cup {NoByte}

PeekOf(b, f, r, size) ==
  LET direct == IF f <= r THEN r - f ELSE maxSize - f
      Piece(from, n) == [i \in 1 .. n |-> b[from + i - 1]]
  IN  IF direct >= size THEN Piece(f, size)
      ELSE Piece(f, direct) \o Piece(0, size - direct)

(* Peek copies the first bytes in use, also round the end. *)
LEMMA PeekIs ==
  ASSUME NEW f \in Cells, NEW r \in Cells, NEW b \in [Cells -> Content], NEW k \in 0 .. Use(f, r)
  PROVE  /\ PeekOf(b, f, r, k) \in Seq(Content) /\ Len(PeekOf(b, f, r, k)) = k
         /\ \A i \in 1 .. k : PeekOf(b, f, r, k)[i] = b[Cell(f, i)]
<1>0. f \in Nat /\ r \in Nat /\ k \in Nat /\ f < maxSize /\ r < maxSize /\ maxSize \in Nat
  BY Sizes DEF Cells, Use
<1>1. PICK d : d = IF f <= r THEN r - f ELSE maxSize - f
  OBVIOUS
<1>2. d \in Nat
  BY <1>0, <1>1
<1>3. CASE d >= k
  <2>1. PeekOf(b, f, r, k) = [i \in 1 .. k |-> b[f + i - 1]]
    BY <1>1, <1>3 DEF PeekOf
  <2>2. \A i \in 1 .. k : Cell(f, i) = f + i - 1 /\ f + i - 1 \in Cells
    BY <1>0, <1>1, <1>3 DEF Cell, Cells
  <2>3. PeekOf(b, f, r, k) \in [1 .. k -> Content]
    BY <2>1, <2>2
  <2>4. PICK p : p = PeekOf(b, f, r, k)
    OBVIOUS
  <2>5. p \in Seq(Content) /\ Len(p) = k
    BY <1>0, <2>3, <2>4
  <2>6. \A i \in 1 .. k : p[i] = b[Cell(f, i)]
    BY <2>1, <2>2, <2>4
  <2> QED
    BY <2>4, <2>5, <2>6
<1>4. CASE ~(d >= k)
  <2>1. PICK p, q : p = [i \in 1 .. d |-> b[f + i - 1]] /\ q = [i \in 1 .. k - d |-> b[0 + i - 1]]
    OBVIOUS
  <2>2. PeekOf(b, f, r, k) = p \o q
    BY <1>1, <1>4, <2>1 DEF PeekOf
  <2>3. k - d \in Nat /\ d = maxSize - f /\ k - d <= r
    BY <1>0, <1>1, <1>2, <1>4 DEF Use
  <2>4. \A i \in 1 .. d : f + i - 1 \in Cells /\ Cell(f, i) = f + i - 1
    BY <1>0, <2>3 DEF Cells, Cell
  <2>5. \A i \in 1 .. k - d : 0 + i - 1 \in Cells
    BY <1>0, <1>2, <2>3 DEF Cells
  <2>6. p \in [1 .. d -> Content] /\ q \in [1 .. k - d -> Content]
    BY <2>1, <2>4, <2>5
  <2>7. p \in Seq(Content) /\ q \in Seq(Content) /\ Len(p) = d /\ Len(q) = k - d
    BY <1>2, <2>3, <2>6, SMTT(30)
  <2>8. /\ p \o q \in Seq(Content) /\ Len(p \o q) = d + (k - d)
        /\ \A i \in 1 .. d + (k - d) : (p \o q)[i] = IF i <= d THEN p[i] ELSE q[i - d]
    <3>1. PICK e : e = k - d
      OBVIOUS
    <3>2. Len(p) = d /\ Len(q) = e
      BY <2>7, <3>1
    <3>3. /\ p \o q \in Seq(Content) /\ Len(p \o q) = d + e
          /\ \A i \in 1 .. d + e : (p \o q)[i] = IF i <= d THEN p[i] ELSE q[i - d]
      BY <2>7, <3>2, ConcatProperties
    <3> QED
      BY <3>1, <3>3
  <2>9. d + (k - d) = k
    BY <1>0, <1>2
  <2>10. ASSUME NEW i \in 1 .. k
         PROVE  (p \o q)[i] = b[Cell(f, i)]
    <3>1. CASE i <= d
      <4>1. i \in 1 .. d
        BY <1>2, <3>1
      <4>2. (p \o q)[i] = p[i]
        BY <2>8, <2>9, <3>1
      <4> QED
        BY <2>1, <2>4, <4>1, <4>2
    <3>2. CASE ~(i <= d)
      <4>1. i - d \in 1 .. k - d /\ Cell(f, i) = 0 + (i - d) - 1
        BY <1>0, <1>2, <2>3, <3>2 DEF Cell
      <4>2. (p \o q)[i] = q[i - d]
        BY <2>8, <2>9, <3>2
      <4> QED
        BY <2>1, <4>1, <4>2
    <3> QED
      BY <3>1, <3>2
  <2> QED
    BY <2>2, <2>8, <2>9, <2>10
<1> QED
  BY <1>3, <1>4

(* The u bytes in use from f on and then those of st are s. *)
Holds(b, f, u, st, s) ==
  /\ Len(s) = u + Len(st)
  /\ \A i \in 1 .. u : s[i] = b[Cell(f, i)]
  /\ \A k \in 1 .. Len(st) : s[u + k] = st[k]

(* Then Peek, followed by st, is s. *)
LEMMA HoldsPeek ==
  ASSUME NEW f \in Cells, NEW r \in Cells, NEW b \in [Cells -> Content], NEW st \in Seq(Byte),
         NEW s \in Seq(Byte), Holds(b, f, Use(f, r), st, s)
  PROVE  PeekOf(b, f, r, Use(f, r)) \o st = s
<1>1. PICK u, p : u = Use(f, r) /\ p = PeekOf(b, f, r, u)
  OBVIOUS
<1>2. u \in Nat /\ u \in 0 .. Use(f, r)
  BY <1>1, UseType
<1>3. p \in Seq(Content) /\ Len(p) = u /\ \A i \in 1 .. u : p[i] = b[Cell(f, i)]
  BY <1>1, <1>2, PeekIs
<1>4. st \in Seq(Content) /\ s \in Seq(Content)
  BY DEF Content
<1>5. PICK l \in Nat : l = Len(st)
  OBVIOUS
<1>6. PICK c : c = p \o st
  OBVIOUS
<1>7. /\ c \in Seq(Content) /\ Len(c) = u + l
      /\ \A i \in 1 .. u + l : c[i] = IF i <= u THEN p[i] ELSE st[i - u]
  BY <1>3, <1>4, <1>5, <1>6, ConcatProperties
<1>8. /\ Len(s) = u + l /\ (\A i \in 1 .. u : s[i] = b[Cell(f, i)])
      /\ \A k \in 1 .. l : s[u + k] = st[k]
  BY <1>1, <1>5 DEF Holds
<1>9. ASSUME NEW i \in 1 .. u + l
      PROVE  c[i] = s[i]
  <2>1. CASE i <= u
    <3>1. i \in 1 .. u
      BY <1>2, <2>1
    <3> QED
      BY <1>3, <1>7, <1>8, <2>1, <3>1
  <2>2. CASE ~(i <= u)
    <3>1. i - u \in 1 .. l /\ u + (i - u) = i
      BY <1>2, <2>2
    <3>2. s[u + (i - u)] = st[i - u]
      BY <1>8, <3>1
    <3> QED
      BY <1>7, <2>2, <3>1, <3>2
  <2> QED
    BY <2>1, <2>2
<1>10. c = s
  BY <1>4, <1>7, <1>8, <1>9, SeqEqual
<1> QED
  BY <1>1, <1>6, <1>10

(* c is b with bytes from cell r on. *)
Stored(c, b, r, bytes) ==
  c = [x \in Cells |-> IF x \in r .. r + Len(bytes) - 1 THEN bytes[x - r + 1] ELSE b[x]]

(* A receive of the first n bytes of st. *)
LEMMA HoldsRecv ==
  ASSUME NEW f \in Cells, NEW r \in Cells, NEW b \in [Cells -> Content], NEW st \in Seq(Byte),
         NEW s, Holds(b, f, Use(f, r), st, s),
         NEW n \in 1 .. Room(f, r), n <= Len(st), NEW bytes, bytes = SubSeq(st, 1, n),
         NEW c, Stored(c, b, r, bytes),
         NEW q, q = Past(r, n), NEW rest, rest = SubSeq(st, n + 1, Len(st))
  PROVE  /\ q \in Cells /\ c \in [Cells -> Content] /\ rest \in Seq(Byte)
         /\ Holds(c, f, Use(f, q), rest, s)
<1>1. PICK u, l : u = Use(f, r) /\ l = Len(st)
  OBVIOUS
<1>2. /\ u \in Nat /\ l \in Nat /\ n \in Nat /\ n >= 1 /\ n <= l
      /\ r \in Nat /\ n \in 0 .. Room(f, r)
      /\ \A i \in 1 .. l : st[i] \in Byte
  <2>1. u \in Nat /\ Room(f, r) \in Nat /\ l \in Nat /\ n <= l /\ r \in Nat
    BY <1>1, UseType, Sizes DEF Cells
  <2>2. \A i \in 1 .. l : st[i] \in Byte
    BY <1>1, ElementOfSeq
  <2> QED
    BY <2>1, <2>2
<1>3. bytes \in Seq(Byte) /\ Len(bytes) = n /\ \A i \in 1 .. n : bytes[i] = st[i]
  <2>1. \A i \in 1 .. n : st[i] \in Byte
    BY <1>2
  <2>2. bytes \in Seq(Byte) /\ Len(bytes) = IF 1 <= n THEN n - 1 + 1 ELSE 0
    BY <1>2, <2>1, SubSeqProperties
  <2>3. \A i \in 1 .. n - 1 + 1 : bytes[i] = st[1 + i - 1]
    BY <1>2, <2>1, SubSeqProperties
  <2>4. n - 1 + 1 = n /\ \A i \in 1 .. n : 1 + i - 1 = i
    BY <1>2
  <2> QED
    BY <1>2, <2>2, <2>3, <2>4
<1>4. rest \in Seq(Byte) /\ Len(rest) = l - n /\ \A i \in 1 .. l - n : rest[i] = st[n + i]
  <2>1. \A i \in n + 1 .. l : st[i] \in Byte
    BY <1>2
  <2>2. rest \in Seq(Byte) /\ Len(rest) = IF n + 1 <= l THEN l - (n + 1) + 1 ELSE 0
    BY <1>1, <1>2, <2>1, SubSeqProperties
  <2>3. \A i \in 1 .. l - (n + 1) + 1 : rest[i] = st[(n + 1) + i - 1]
    BY <1>1, <1>2, <2>1, SubSeqProperties
  <2>4. /\ l - (n + 1) + 1 = l - n /\ (~(n + 1 <= l) => l - n = 0)
        /\ \A i \in 1 .. l - n : (n + 1) + i - 1 = n + i
    BY <1>2
  <2> QED
    BY <2>2, <2>3, <2>4
<1>5. /\ q \in Cells /\ Use(f, q) = u + n
      /\ \A k \in 1 .. n : /\ Cell(f, u + k) = r + k - 1 /\ r + k - 1 \in Cells
                           /\ r + k - 1 \in r .. r + n - 1
  <2>1. q \in Cells /\ Use(f, q) = u + n
    BY <1>1, <1>2, UseFilled
  <2>2. ASSUME NEW k \in 1 .. n
        PROVE  Cell(f, u + k) = r + k - 1 /\ r + k - 1 \in Cells /\ r + k - 1 \in r .. r + n - 1
    <3>1. n \in 0 .. Room(f, r)
      BY <1>2
    <3>2. Cell(f, Use(f, r) + k) = r + k - 1 /\ r + k - 1 \in Cells /\ r + k - 1 \in r .. r + n - 1
      BY <3>1, CellFilled
    <3> QED
      BY <1>1, <3>2
  <2> QED
    BY <2>1, <2>2
<1>6. c = [x \in Cells |-> IF x \in r .. r + n - 1 THEN bytes[x - r + 1] ELSE b[x]]
  BY <1>3 DEF Stored
<1>7. c \in [Cells -> Content]
  <2>1. ASSUME NEW x \in Cells
        PROVE  c[x] \in Content
    <3>1. CASE x \in r .. r + n - 1
      <4>1. x - r + 1 \in 1 .. n
        BY <1>2, <3>1
      <4>2. bytes[x - r + 1] \in Byte
        BY <1>3, <4>1, ElementOfSeq
      <4> QED
        BY <1>6, <3>1, <4>2 DEF Content
    <3>2. CASE x \notin r .. r + n - 1
      BY <1>6, <3>2
    <3> QED
      BY <3>1, <3>2
  <2> QED
    BY <1>6, <2>1
<1>8. /\ Len(s) = u + l /\ (\A i \in 1 .. u : s[i] = b[Cell(f, i)])
      /\ \A k \in 1 .. l : s[u + k] = st[k]
  BY <1>1 DEF Holds
<1>9. \A i \in 1 .. u : c[Cell(f, i)] = b[Cell(f, i)]
  <2>1. \A i \in 1 .. u : Cell(f, i) \in Cells /\ Cell(f, i) \notin r .. r + n - 1
    BY <1>1, <1>2, CellUsed
  <2> QED
    BY <1>6, <2>1
<1>10. \A k \in 1 .. n : c[Cell(f, u + k)] = st[k]
  <2> SUFFICES ASSUME NEW k \in 1 .. n
               PROVE  c[Cell(f, u + k)] = st[k]
    OBVIOUS
  <2>1. c[r + k - 1] = bytes[(r + k - 1) - r + 1]
    BY <1>5, <1>6
  <2>2. (r + k - 1) - r + 1 = k
    BY <1>2
  <2> QED
    BY <1>3, <1>5, <2>1, <2>2
<1>11. ASSUME NEW i \in 1 .. u + n
       PROVE  s[i] = c[Cell(f, i)]
  <2>1. CASE i \in 1 .. u
    BY <1>8, <1>9, <2>1
  <2>2. CASE i \notin 1 .. u
    <3>1. PICK k \in 1 .. n : i = u + k
      <4>1. i - u \in 1 .. n /\ i = u + (i - u)
        BY <1>2, <2>2
      <4> QED
        BY <4>1
    <3>2. k \in 1 .. l
      BY <1>2
    <3> QED
      BY <1>8, <1>10, <3>1, <3>2
  <2> QED
    BY <2>1, <2>2
<1>12. ASSUME NEW k \in 1 .. l - n
       PROVE  s[(u + n) + k] = rest[k]
  <2>1. n + k \in 1 .. l /\ u + (n + k) = (u + n) + k
    BY <1>2
  <2>2. s[u + (n + k)] = st[n + k]
    BY <1>8, <2>1
  <2> QED
    BY <1>4, <2>1, <2>2
<1>13. Len(s) = (u + n) + (l - n)
  BY <1>2, <1>8
<1>14. Holds(c, f, u + n, rest, s)
  BY <1>4, <1>11, <1>12, <1>13 DEF Holds
<1> QED
  BY <1>4, <1>5, <1>7, <1>14

(* t is s without its first m bytes. *)
Continues(t, s, m) == Len(s) = m + Len(t) /\ \A k \in 1 .. Len(t) : s[m + k] = t[k]

(* A packet of m bytes is read, and the stream goes on with t. *)
LEMMA HoldsRead ==
  ASSUME NEW f \in Cells, NEW r \in Cells, NEW b, NEW st \in Seq(Byte), NEW s, NEW t \in Seq(Byte),
         Holds(b, f, Use(f, r), st, s), NEW m \in 0 .. Use(f, r),
         Continues(t, s, m),
         NEW g, g = Past(f, m)
  PROVE  g \in Cells /\ Holds(b, g, Use(g, r), st, t)
<1>1. PICK u, l, w : u = Use(f, r) /\ l = Len(st) /\ w = Len(t)
  OBVIOUS
<1>2. u \in Nat /\ l \in Nat /\ w \in Nat /\ m \in Nat /\ m <= u
  BY <1>1, UseType
<1>3. /\ g \in Cells /\ Use(g, r) = u - m
      /\ \A i \in 1 .. u - m : Cell(g, i) = Cell(f, m + i)
  BY <1>1, CellMoved
<1>4. /\ Len(s) = u + l /\ (\A i \in 1 .. u : s[i] = b[Cell(f, i)])
      /\ \A k \in 1 .. l : s[u + k] = st[k]
  BY <1>1 DEF Holds
<1>5. u + l = m + w /\ \A k \in 1 .. w : s[m + k] = t[k]
  BY <1>1, <1>4 DEF Continues
<1>6. w = (u - m) + l
  BY <1>2, <1>5
<1>7. ASSUME NEW i \in 1 .. u - m
      PROVE  t[i] = b[Cell(g, i)]
  <2>1. i \in 1 .. w /\ m + i \in 1 .. u
    BY <1>2, <1>6
  <2>2. t[i] = s[m + i] /\ s[m + i] = b[Cell(f, m + i)]
    BY <1>4, <1>5, <2>1
  <2> QED
    BY <1>3, <2>2
<1>8. ASSUME NEW k \in 1 .. l
      PROVE  t[(u - m) + k] = st[k]
  <2>1. (u - m) + k \in 1 .. w /\ m + ((u - m) + k) = u + k
    BY <1>2, <1>6
  <2>2. t[(u - m) + k] = s[m + ((u - m) + k)]
    BY <1>5, <2>1
  <2> QED
    BY <1>4, <2>1, <2>2
<1>9. Holds(b, g, u - m, st, t)
  BY <1>1, <1>6, <1>7, <1>8 DEF Holds
<1> QED
  BY <1>3, <1>9
-----------------------------------------------------------------------------
(* The invariant *)

(* Types, and that no more packets were delivered than the client sent. *)
FramingInv ==
  /\ buffer \in [Cells -> Content] /\ front \in Cells /\ rear \in Cells
  /\ packets \in Seq(PacketSet) /\ Len(packets) <= MaxPackets
  /\ delivered \in Seq(1 .. MaxPackets) /\ Len(delivered) <= Len(packets)
  /\ stream \in Seq(Byte)
  /\ phase \in {"posted", "complete", "parse", "done"}
  /\ cause \in {"none", "other", "client", "mac", "length", "full"}
  /\ sock \in {"open", "invalid"}
  /\ session \in 0 .. MaxSessions

(* What the WSARecv has received fits where it was posted. *)
GotInv ==
  /\ got \in Nat /\ got <= Len(stream)
  /\ phase = "complete" => got \in 1 .. Room(front, rear)
  /\ phase # "complete" => got = 0

(* Until the last completion is handled, the ring and what is not in it    *)
(* yet hold the stream after the packets delivered, byte by byte, and only *)
(* another thread may have closed the session.                             *)
OpenInv ==
  phase # "done" =>
    /\ cause = "other" \/ (cause = "none" /\ sock = "open")
    /\ Holds(buffer, front, Use(front, rear), stream, StreamFrom(packets, Len(delivered) + 1))

IInv == FramingInv /\ GotInv /\ OpenInv /\ ClosedForCause

(* The ring's operators are those of the lemmas. *)
LEMMA RingOps ==
  /\ UseSize = Use(front, rear) /\ DirectEnqueueSize = Room(front, rear)
  /\ \A k : Peek(k) = PeekOf(buffer, front, rear, k)
BY DEF UseSize, Use, DirectEnqueueSize, Room, Peek, PeekOf, DirectDequeueSize

(* OnRecvComplete reads the header of the packet after those delivered.    *)
LEMMA FirstPacket ==
  ASSUME IInv, phase # "done", HasHeader
  PROVE  /\ Len(delivered) + 1 \in 1 .. Len(packets)
         /\ Lens = {packets[Len(delivered) + 1].len}
<1>0. FramingInv
  BY DEF IInv
<1>1. PICK d, s, u : d = Len(delivered) + 1 /\ s = StreamFrom(packets, d) /\ u = Use(front, rear)
  OBVIOUS
<1>2. /\ d \in Nat /\ d >= 1 /\ d <= Len(packets) + 1 /\ Len(packets) \in Nat
      /\ packets \in Seq(PacketSet) /\ Len(packets) <= MaxPackets
  <2>1. Len(delivered) \in Nat /\ Len(packets) \in Nat /\ Len(delivered) <= Len(packets)
    BY <1>0 DEF FramingInv
  <2> QED
    BY <1>0, <1>1, <2>1 DEF FramingInv
<1>3. Holds(buffer, front, u, stream, s)
  BY <1>1 DEF IInv, OpenInv
<1>4. u \in Nat /\ u >= PKT_HEADER_SIZE /\ PKT_HEADER_SIZE \in Nat /\ PKT_HEADER_SIZE >= 1
  BY <1>0, <1>1, RingOps, UseType, Sizes DEF HasHeader, FramingInv
<1>5. Len(s) = u + Len(stream) /\ Len(stream) \in Nat
  BY <1>0, <1>3 DEF Holds, FramingInv
<1>6. d # Len(packets) + 1
  BY <1>1, <1>2, <1>4, <1>5, StreamEnd
<1>7. d \in 1 .. Len(packets)
  BY <1>2, <1>6
<1>8. PICK m : m = PKT_HEADER_SIZE + packets[d].len
  OBVIOUS
<1>9. m \in Nat /\ 1 \in 1 .. m
  <2>1. packets[d].len \in Nat
    BY <1>2, <1>7, PacketLen
  <2> QED
    BY <1>4, <1>8, <2>1
<1>10. s[1] = [pkt |-> d, off |-> 1]
  BY <1>1, <1>2, <1>7, <1>8, <1>9, StreamSplit
<1>11. s[1] \in Byte
  <2>1. s \in Seq(Byte)
    BY <1>1, <1>2, StreamType
  <2>2. 1 \in 1 .. Len(s)
    BY <1>4, <1>5
  <2> QED
    BY <2>1, <2>2, ElementOfSeq
<1>12. Peek(PKT_HEADER_SIZE)[1] = s[1]
  <2>1. PKT_HEADER_SIZE \in 0 .. Use(front, rear) /\ 1 \in 1 .. PKT_HEADER_SIZE /\ 1 \in 1 .. u
    BY <1>1, <1>4
  <2>2. Peek(PKT_HEADER_SIZE)[1] = buffer[Cell(front, 1)]
    BY <1>0, <2>1, RingOps, PeekIs DEF FramingInv
  <2> QED
    BY <1>3, <2>1, <2>2 DEF Holds
<1>13. Lens = {packets[d].len}
  <2>1. PICK first : first = Peek(PKT_HEADER_SIZE)[1]
    OBVIOUS
  <2>2. first # NoByte /\ first.off = 1 /\ first.pkt = d
    BY <1>10, <1>11, <1>12, <2>1, NoByteAssumption
  <2>3. Lens = IF first # NoByte /\ first.off = 1 THEN {packets[first.pkt].len} ELSE 0 .. MaxLen
    BY <2>1 DEF Lens
  <2> QED
    BY <2>2, <2>3
<1> QED
  BY <1>1, <1>7, <1>13

(* ... and, when it is complete, the whole of it. *)
LEMMA WholePacket ==
  ASSUME IInv, phase # "done", HasHeader, NEW d, d = Len(delivered) + 1,
         NEW m, m = PKT_HEADER_SIZE + packets[d].len, UseSize >= m
  PROVE  /\ m \in 0 .. Use(front, rear) /\ Peek(m)[1].pkt = d
         /\ Decodes(Peek(m)) <=> packets[d].ok
         /\ front' = Past(front, m) =>
              /\ front' \in Cells
              /\ Holds(buffer, front', Use(front', rear), stream, StreamFrom(packets, d + 1))
<1>0. FramingInv
  BY DEF IInv
<1>1. d \in 1 .. Len(packets) /\ packets \in Seq(PacketSet) /\ Len(packets) <= MaxPackets
  BY <1>0, FirstPacket DEF FramingInv
<1>2. PICK s, t, u : /\ s = StreamFrom(packets, d) /\ t = StreamFrom(packets, d + 1)
                     /\ u = Use(front, rear)
  OBVIOUS
<1>3. Holds(buffer, front, u, stream, s)
  BY <1>2 DEF IInv, OpenInv
<1>4. m \in Nat /\ m >= 1 /\ m <= u /\ u \in Nat
  <2>1. packets[d].len \in Nat
    BY <1>1, PacketLen
  <2> QED
    <3>1. u \in Nat /\ UseSize = u
      BY <1>0, <1>2, RingOps, UseType DEF FramingInv
    <3> QED
      BY <2>1, <3>1, Sizes
<1>5. /\ Len(s) = m + Len(t)
      /\ \A o \in 1 .. m : s[o] = [pkt |-> d, off |-> o]
      /\ \A k \in 1 .. Len(t) : s[m + k] = t[k]
  BY ONLY <1>1, <1>2, m = PKT_HEADER_SIZE + packets[d].len, StreamSplit
<1>6. s \in Seq(Byte) /\ t \in Seq(Byte)
  <2>1. d \in 1 .. Len(packets) + 1 /\ d + 1 \in 1 .. Len(packets) + 1
    <3>1. Len(packets) \in Nat
      BY <1>1
    <3> QED
      BY <1>1, <3>1
  <2> QED
    BY <1>1, <1>2, <2>1, StreamType
<1>7. m \in 0 .. Use(front, rear)
  BY <1>2, <1>4
<1>8. PICK p : p = Peek(m)
  OBVIOUS
<1>9. p \in Seq(Content) /\ Len(p) = m /\ \A o \in 1 .. m : p[o] = buffer[Cell(front, o)]
  BY <1>0, <1>7, <1>8, RingOps, PeekIs DEF FramingInv
<1>10. \A o \in 1 .. m : p[o] = [pkt |-> d, off |-> o]
  <2>1. \A o \in 1 .. m : o \in 1 .. u
    BY <1>4
  <2> QED
    BY <1>3, <1>5, <1>9, <2>1 DEF Holds
<1>11. p = Bytes(d)
  <2>1. Bytes(d) = [o \in 1 .. m |-> [pkt |-> d, off |-> o]]
    BY DEF Bytes
  <2>2. p = [o \in 1 .. m |-> p[o]]
    BY <1>9
  <2> QED
    BY <1>10, <2>1, <2>2
<1>12. p[1].pkt = d /\ p[1] # NoByte
  <2>1. 1 \in 1 .. m /\ 1 \in 1 .. Len(s)
    BY <1>4, <1>5, <1>6
  <2>2. p[1] = [pkt |-> d, off |-> 1] /\ s[1] = [pkt |-> d, off |-> 1]
    BY ONLY <1>5, <1>10, <2>1
  <2>3. s[1] \in Byte
    BY ONLY <1>6, <2>1, ElementOfSeq
  <2> QED
    BY <2>2, <2>3, NoByteAssumption
<1>13. Decodes(p) <=> packets[d].ok
  <2>1. packets[d].ok \in BOOLEAN
    BY <1>1, PacketLen
  <2> QED
    BY <1>11, <1>12, <2>1 DEF Decodes
<1>14. ASSUME NEW g, g = Past(front, m)
       PROVE  g \in Cells /\ Holds(buffer, g, Use(g, rear), stream, t)
  <2>1. Continues(t, s, m)
    BY <1>5 DEF Continues
  <2>2. front \in Cells /\ rear \in Cells /\ stream \in Seq(Byte)
    BY <1>0 DEF FramingInv
  <2>3. Holds(buffer, front, Use(front, rear), stream, s)
    BY <1>2, <1>3
  <2> QED
    BY ONLY <1>6, <1>7, <1>14, <2>1, <2>2, <2>3, HoldsRead
<1> QED
  BY <1>2, <1>7, <1>8, <1>12, <1>13, <1>14
-----------------------------------------------------------------------------
(* The steps *)

(* The bound on the packets of a later session. *)
LEMMA Quotient ==
  ASSUME NEW s \in Nat, s >= 1, NEW n \in 1 .. MaxPackets \div s
  PROVE  n \in Nat /\ n >= 1 /\ n <= MaxPackets
<1>1. PICK q : q = MaxPackets \div s
  OBVIOUS
<1>2. MaxPackets \in Nat /\ q \in Int /\ s * q <= MaxPackets
  BY <1>1, Sizes
<1>3. n \in Nat /\ n >= 1 /\ n <= q
  BY <1>1, <1>2
<1>4. q <= s * q
  BY <1>2, <1>3
<1> QED
  BY <1>2, <1>3, <1>4

(* What the client of a new session sends. *)
LEMMA NewPackets ==
  ASSUME session \in Nat, InitSession
  PROVE  /\ packets' \in Seq(PacketSet) /\ packets' # <<>> /\ Len(packets') <= MaxPackets
         /\ stream' = StreamFrom(packets', 1)
<1>1. session' \in Nat /\ session' >= 1
  BY DEF InitSession
<1>2. PICK n \in 1 .. MaxPackets \div session' : packets' \in [1 .. n -> PacketSet]
  BY DEF InitSession, ClientSends, PacketSet
<1>3. n \in Nat /\ n >= 1 /\ n <= MaxPackets
  BY <1>1, <1>2, Quotient
<1>4. packets' \in Seq(PacketSet) /\ Len(packets') = n
  BY <1>2, <1>3
<1>5. packets' # <<>>
  BY <1>3, <1>4
<1> QED
  BY <1>3, <1>4, <1>5 DEF InitSession, ClientSends

(* InitSession: an empty ring, and the whole stream still to come. *)
LEMMA InitStep ==
  ASSUME IInv, InitSession
  PROVE  IInv'
<1>0. FramingInv
  BY DEF IInv
<1>1. /\ packets' \in Seq(PacketSet) /\ packets' # <<>> /\ Len(packets') <= MaxPackets
      /\ stream' = StreamFrom(packets', 1)
  BY <1>0, NewPackets DEF FramingInv
<1>2. /\ front' = 0 /\ rear' = 0 /\ buffer' = buffer /\ delivered' = <<>> /\ phase' = "posted"
      /\ cause' = "none" /\ sock' = "open" /\ got' = 0 /\ session' \in 0 .. MaxSessions
  BY <1>0, Sizes DEF InitSession, Clear, FramingInv
<1>3. /\ 0 \in Cells /\ Len(packets') \in Nat
      /\ delivered' \in Seq(1 .. MaxPackets) /\ Len(delivered') = 0
  BY <1>1, <1>2, Sizes DEF Cells
<1>4. stream' \in Seq(Byte)
  <2>1. 1 \in 1 .. Len(packets') + 1
    BY <1>3
  <2> QED
    BY <1>1, <2>1, StreamType
<1>5. FramingInv'
  <2>1. Len(delivered') <= Len(packets')
    BY <1>3
  <2> QED
    BY <1>0, <1>1, <1>2, <1>3, <1>4, <2>1 DEF FramingInv
<1>6. OpenInv'
  <2>1. Use(0, 0) = 0
    BY DEF Use
  <2>2. PICK s, b : s = stream' /\ b = buffer'
    OBVIOUS
  <2>3. Len(s) \in Nat
    BY <1>4, <2>2
  <2>4. Holds(b, 0, 0, s, s)
    BY <2>3 DEF Holds
  <2>5. Len(delivered') + 1 = 1
    BY <1>3
  <2> QED
    BY <1>1, <1>2, <2>1, <2>2, <2>4, <2>5 DEF OpenInv
<1>7. ClosedForCause' /\ GotInv'
  <2>1. Len(stream') \in Nat
    BY <1>4
  <2> QED
    BY <1>2, <2>1 DEF ClosedForCause, GotInv
<1> QED
  BY <1>5, <1>6, <1>7 DEF IInv

(* RecvArrives: at most as many bytes as the ring has room for. *)
LEMMA ArriveStep ==
  ASSUME IInv, RecvArrives
  PROVE  IInv'
<1>1. /\ phase = "posted" /\ phase' = "complete" /\ got' \in 1 .. Room(front, rear)
      /\ got' <= Len(stream)
      /\ UNCHANGED <<buffer, front, rear, packets, stream, delivered, cause, sock, session>>
  BY RingOps DEF RecvArrives, ringVars
<1>2. FramingInv' /\ OpenInv' /\ ClosedForCause'
  BY <1>1 DEF IInv, FramingInv, OpenInv, ClosedForCause
<1>3. Room(front, rear) \in Nat
  BY Sizes DEF IInv, FramingInv, Room, Cells
<1>4. GotInv'
  BY <1>1, <1>3 DEF GotInv
<1> QED
  BY <1>2, <1>4 DEF IInv

(* RecvComplete: the bytes received follow those in use. *)
LEMMA RecvStep ==
  ASSUME IInv, RecvComplete
  PROVE  IInv'
<1>0. FramingInv
  BY DEF IInv
<1>1. /\ phase = "complete" /\ phase' = "parse" /\ got' = 0
      /\ UNCHANGED <<front, packets, delivered, cause, sock, session>>
  BY DEF RecvComplete
<1>2. PICK n \in 1 .. Room(front, rear) :
        /\ n <= Len(stream)
        /\ Store(SubSeq(stream, 1, n)) /\ MoveWritePos(n)
        /\ stream' = SubSeq(stream, n + 1, Len(stream))
  BY <1>1 DEF RecvComplete, IInv, GotInv
<1>3. PICK bytes : bytes = SubSeq(stream, 1, n)
  OBVIOUS
<1>4. Stored(buffer', buffer, rear, bytes) /\ rear' = Past(rear, n)
  BY <1>2, <1>3 DEF Store, Stored, MoveWritePos, Past
<1>5. PICK s : s = StreamFrom(packets, Len(delivered) + 1)
  OBVIOUS
<1>6. /\ Holds(buffer, front, Use(front, rear), stream, s)
      /\ cause = "other" \/ (cause = "none" /\ sock = "open")
  BY <1>1, <1>5 DEF IInv, OpenInv
<1>7. /\ front \in Cells /\ rear \in Cells /\ buffer \in [Cells -> Content] /\ stream \in Seq(Byte)
  BY <1>0 DEF FramingInv
<1>8. PICK c, q, rest : c = buffer' /\ q = rear' /\ rest = stream'
  OBVIOUS
<1>9. /\ Stored(c, buffer, rear, bytes)
      /\ q = Past(rear, n) /\ rest = SubSeq(stream, n + 1, Len(stream)) /\ n <= Len(stream)
  BY <1>2, <1>4, <1>8
<1>10. /\ q \in Cells /\ c \in [Cells -> Content] /\ rest \in Seq(Byte)
       /\ Holds(c, front, Use(front, q), rest, s)
  BY ONLY <1>3, <1>6, <1>7, <1>9, n \in 1 .. Room(front, rear), HoldsRecv
<1>11. FramingInv'
  BY <1>0, <1>1, <1>8, <1>10 DEF FramingInv
<1>12. OpenInv'
  BY <1>1, <1>5, <1>6, <1>8, <1>10 DEF OpenInv
<1>13. ClosedForCause'
  BY <1>1, <1>6 DEF ClosedForCause
<1>14. GotInv'
  <2>1. Len(stream') \in Nat
    BY <1>8, <1>10
  <2> QED
    BY <1>1, <2>1 DEF GotInv
<1> QED
  BY <1>11, <1>12, <1>13, <1>14 DEF IInv

(* The worker closes the session for a cause that the next packet gives.   *)
LEMMA CloseStep ==
  ASSUME IInv, phase \in {"posted", "parse"}, NEW why \in {"client", "mac", "length", "full"},
         CloseSession(why),
         UNCHANGED <<buffer, rear, packets, stream, delivered, got, session>>, front' \in Cells,
         why # "client" =>
           \/ ~packets[Len(delivered) + 1].ok
           \/ PKT_HEADER_SIZE + packets[Len(delivered) + 1].len >= PACKET_BUFFER_SIZE
  PROVE  IInv'
<1> USE DEF CloseSession
<1>0. /\ phase' = "done"
      /\ (cause' = why /\ sock' = "invalid") \/ (cause' = "other" /\ sock' = sock)
  <2>1. cause = "none" \/ cause = "other"
    BY DEF IInv, OpenInv
  <2>2. CASE cause = "none"
    BY <2>2
  <2>3. CASE cause = "other"
    BY <2>3
  <2> QED
    BY <2>1, <2>2, <2>3
<1>1. FramingInv'
  BY <1>0 DEF IInv, FramingInv
<1>2. OpenInv'
  BY <1>0 DEF OpenInv
<1>3. ClosedForCause'
  BY <1>0 DEF ClosedForCause
<1>4. GotInv'
  BY <1>0 DEF IInv, GotInv
<1> QED
  BY <1>1, <1>2, <1>3, <1>4 DEF IInv

(* TakePacket: the next packet, delivered when its code matches.           *)
LEMMA TakeIs ==
  ASSUME IInv, TakePacket, NEW d, d = Len(delivered) + 1
  PROVE  /\ d \in 1 .. Len(packets) /\ front' \in Cells
         /\ UNCHANGED <<buffer, rear, packets, stream, got, session>>
         /\ Holds(buffer, front', Use(front', rear), stream, StreamFrom(packets, d + 1))
         /\ \/ packets[d].ok /\ delivered' = Append(delivered, d) /\ UNCHANGED <<phase, cause, sock>>
            \/ ~packets[d].ok /\ CloseSession("mac") /\ UNCHANGED delivered
<1>1. phase = "parse" /\ HasHeader /\ UNCHANGED <<buffer, rear, packets, stream, got, session>>
  BY DEF TakePacket
<1>2. d \in 1 .. Len(packets) /\ Lens = {packets[d].len}
  BY <1>1, FirstPacket
<1>3. PICK m : m = PKT_HEADER_SIZE + packets[d].len
  OBVIOUS
<1>4. PICK buf : buf = Peek(m)
  OBVIOUS
<1>5. /\ UseSize >= m /\ front' = Past(front, m)
      /\ \/ /\ Decodes(buf) /\ delivered' = Append(delivered, buf[1].pkt)
            /\ UNCHANGED <<phase, cause, sock>>
         \/ ~Decodes(buf) /\ CloseSession("mac") /\ UNCHANGED delivered
  BY <1>2, <1>3, <1>4 DEF TakePacket, Complete, MoveReadPos, Past
<1>6. /\ buf[1].pkt = d /\ (Decodes(buf) <=> packets[d].ok)
      /\ front' \in Cells
      /\ Holds(buffer, front', Use(front', rear), stream, StreamFrom(packets, d + 1))
  <2>1. phase # "done"
    BY <1>1
  <2> QED
    BY <1>1, <1>3, <1>4, <1>5, <2>1, WholePacket
<1> QED
  BY <1>1, <1>2, <1>5, <1>6

(* TakePacket: the stream goes on after the packet. *)
LEMMA TakeStep ==
  ASSUME IInv, TakePacket
  PROVE  IInv'
<1>0. FramingInv /\ phase = "parse" /\ (cause = "other" \/ (cause = "none" /\ sock = "open"))
  BY DEF IInv, OpenInv, TakePacket
<1>1. PICK d : d = Len(delivered) + 1
  OBVIOUS
<1>2. /\ d \in 1 .. Len(packets) /\ front' \in Cells
      /\ UNCHANGED <<buffer, rear, packets, stream, got, session>>
      /\ Holds(buffer, front', Use(front', rear), stream, StreamFrom(packets, d + 1))
      /\ \/ packets[d].ok /\ delivered' = Append(delivered, d) /\ UNCHANGED <<phase, cause, sock>>
         \/ ~packets[d].ok /\ CloseSession("mac") /\ UNCHANGED delivered
  BY <1>1, TakeIs
<1>3. CASE ~packets[d].ok /\ CloseSession("mac") /\ UNCHANGED delivered
  BY <1>0, <1>1, <1>2, <1>3, CloseStep
<1>4. CASE packets[d].ok /\ delivered' = Append(delivered, d) /\ UNCHANGED <<phase, cause, sock>>
  <2>1. /\ delivered' \in Seq(1 .. MaxPackets) /\ Len(delivered') = d
    <3>1. delivered \in Seq(1 .. MaxPackets) /\ Len(packets) <= MaxPackets /\ Len(packets) \in Nat
      BY <1>0 DEF FramingInv
    <3>2. d \in 1 .. MaxPackets
      BY <1>2, <3>1, Sizes
    <3> QED
      BY <1>1, <1>4, <3>1, <3>2, AppendProperties
  <2>2. Len(delivered') <= Len(packets)
    BY <1>0, <1>2, <2>1 DEF FramingInv
  <2>3. FramingInv'
    BY <1>0, <1>2, <1>4, <2>1, <2>2 DEF FramingInv
  <2>4. OpenInv'
    BY <1>0, <1>2, <1>4, <2>1 DEF OpenInv
  <2>5. ClosedForCause' /\ GotInv'
    BY <1>0, <1>2, <1>4 DEF ClosedForCause, IInv, GotInv
  <2> QED
    BY <2>3, <2>4, <2>5 DEF IInv
<1> QED
  BY <1>2, <1>3, <1>4

(* RejectLength: the length is the one of the next packet. *)
LEMMA RejectStep ==
  ASSUME IInv, RejectLength
  PROVE  IInv'
<1>0. FramingInv
  BY DEF IInv
<1>1. PICK d : d = Len(delivered) + 1
  OBVIOUS
<1>2. /\ phase = "parse" /\ HasHeader /\ CloseSession("length")
      /\ UNCHANGED <<buffer, front, rear, packets, stream, delivered, got, session>>
  BY DEF RejectLength, ringVars
<1>3. d \in 1 .. Len(packets) /\ Lens = {packets[d].len}
  <2>1. phase # "done"
    BY <1>2
  <2> QED
    BY <1>1, <1>2, <2>1, FirstPacket
<1>4. packets[d].len > PACKET_BUFFER_SIZE - PKT_HEADER_SIZE
  BY <1>3 DEF RejectLength, TooLong
<1>5. PKT_HEADER_SIZE + packets[d].len >= PACKET_BUFFER_SIZE
  <2>1. packets[d].len \in Nat
    BY <1>0, <1>3, PacketLen DEF FramingInv
  <2> QED
    BY <1>4, <2>1, Sizes
<1>6. front' \in Cells
  BY <1>0, <1>2 DEF FramingInv
<1> QED
  BY <1>1, <1>2, <1>5, <1>6, CloseStep

(* PostNext: a full ring that holds no complete packet has a packet of at  *)
(* least PACKET_BUFFER_SIZE bytes at its front.                            *)
LEMMA PostStep ==
  ASSUME IInv, PostNext
  PROVE  IInv'
<1>0. FramingInv
  BY DEF IInv
<1>1. PICK d : d = Len(delivered) + 1
  OBVIOUS
<1>2. /\ phase = "parse"
      /\ UNCHANGED <<buffer, front, rear, packets, stream, delivered, got, session>>
  BY DEF PostNext, ringVars
<1>3. CASE phase' = "posted" /\ UNCHANGED <<cause, sock>>
  <2>1. FramingInv'
    BY <1>0, <1>2, <1>3 DEF FramingInv
  <2>2. OpenInv' /\ ClosedForCause' /\ GotInv'
    BY <1>2, <1>3 DEF IInv, OpenInv, ClosedForCause, GotInv
  <2> QED
    BY <2>1, <2>2 DEF IInv
<1>4. CASE RingFull /\ CloseSession("full")
  <2>1. UseSize = maxSize - 1
    BY <1>0, <1>4, RingOps, UseType DEF RingFull, FramingInv
  <2>2. HasHeader /\ phase # "done"
    BY <1>2, <2>1, Sizes DEF HasHeader
  <2>3. d \in 1 .. Len(packets) /\ Lens = {packets[d].len}
    BY <1>1, <2>2, FirstPacket
  <2>4. UseSize < PKT_HEADER_SIZE + packets[d].len
    <3>1. ~(UseSize >= PKT_HEADER_SIZE + packets[d].len)
      BY <2>2, <2>3 DEF PostNext, Complete
    <3>2. packets[d].len \in Nat
      BY <1>0, <2>3, PacketLen DEF FramingInv
    <3> QED
      BY <2>1, <3>1, <3>2, Sizes
  <2>5. PKT_HEADER_SIZE + packets[d].len >= PACKET_BUFFER_SIZE
    <3>2. packets[d].len \in Nat
      BY <1>0, <2>3, PacketLen DEF FramingInv
    <3> QED
      BY <2>1, <2>4, <3>2, Sizes
  <2>6. front' \in Cells
    BY <1>0, <1>2 DEF FramingInv
  <2> QED
    BY <1>1, <1>2, <1>4, <2>5, <2>6, CloseStep
<1>5. CASE CloseSession("client")
  <2>1. front' \in Cells
    BY <1>0, <1>2 DEF FramingInv
  <2> QED
    BY <1>2, <1>5, <2>1, CloseStep
<1> QED
  BY <1>3, <1>4, <1>5 DEF PostNext, PostRecv

(* The slot starts closed. *)
LEMMA InitIInv == Init => IInv
<1> SUFFICES ASSUME Init PROVE IInv
  OBVIOUS
<1>1. FramingInv
  <2>1. 0 \in Cells /\ buffer \in [Cells -> Content]
    BY Sizes DEF Init, RingInit, Cells, Content
  <2> QED
    BY <2>1, Sizes DEF Init, RingInit, FramingInv
<1>2. OpenInv /\ ClosedForCause /\ GotInv
  BY DEF Init, OpenInv, ClosedForCause, GotInv
<1> QED
  BY <1>1, <1>2 DEF IInv

(* Every step keeps IInv. *)
LEMMA NextIInv == IInv /\ [Next]_vars => IInv'
<1> SUFFICES ASSUME IInv, [Next]_vars PROVE IInv'
  OBVIOUS
<1>1. CASE Disconnected
  <2>1. /\ phase = "posted" /\ CloseSession("client")
        /\ UNCHANGED <<buffer, front, rear, packets, stream, delivered, got, session>>
    BY <1>1 DEF Disconnected, ringVars
  <2>2. front' \in Cells
    BY <2>1 DEF IInv, FramingInv
  <2> QED
    BY <2>1, <2>2, CloseStep
<1>2. CASE UNCHANGED vars
  BY <1>2 DEF vars, ringVars, IInv, FramingInv, OpenInv, ClosedForCause, GotInv
<1>3. CASE OtherCloses \/ CloseSocket
  BY <1>3 DEF OtherCloses, CloseSocket, ringVars, IInv, FramingInv, OpenInv, ClosedForCause, GotInv
<1> QED
  BY <1>1, <1>2, <1>3, InitStep, ArriveStep, RecvStep, TakeStep, RejectStep, PostStep DEF Next

(* RecvFraming's variables keep their types: front and rear stay inside    *)
(* the ring and every cell holds a byte of the client's or none.           *)
THEOREM TypeCorrect == Spec => []TypeOK
<1>1. IInv => TypeOK
  BY DEF IInv, FramingInv, GotInv, Content, TypeOK
<1> QED
  BY <1>1, InitIInv, NextIInv, PTL DEF Spec

(* However TCP cuts the stream and wherever the ring wraps, the ring and   *)
(* what has not arrived are the client's stream after the packets          *)
(* delivered, for every ring size, header size and packet lengths.         *)
THEOREM RingStream == Spec => []RingIsStream
<1>1. IInv => RingIsStream
  <2> SUFFICES ASSUME IInv, phase # "done"
               PROVE  Peek(UseSize) \o stream = StreamFrom(packets, Len(delivered) + 1)
    BY DEF RingIsStream
  <2>0. FramingInv
    BY DEF IInv
  <2>1. PICK d, s : d = Len(delivered) + 1 /\ s = StreamFrom(packets, d)
    OBVIOUS
  <2>2. d \in 1 .. Len(packets) + 1
    <3>1. Len(delivered) \in Nat /\ Len(packets) \in Nat /\ Len(delivered) <= Len(packets)
      BY <2>0 DEF FramingInv
    <3> QED
      BY <2>1, <3>1
  <2>3. s \in Seq(Byte)
    BY <2>0, <2>1, <2>2, StreamType DEF FramingInv
  <2>4. Holds(buffer, front, Use(front, rear), stream, s)
    BY <2>1 DEF IInv, OpenInv
  <2>5. PeekOf(buffer, front, rear, Use(front, rear)) \o stream = s
    BY <2>0, <2>3, <2>4, HoldsPeek DEF FramingInv
  <2> QED
    BY <2>1, <2>5, RingOps
<1> QED
  BY <1>1, InitIInv, NextIInv, PTL DEF Spec

(* CloseSession in OnRecvComplete: only for a packet whose code does not   *)
(* match or that has PACKET_BUFFER_SIZE bytes or more, never because of    *)
(* how the bytes came.                                                     *)
THEOREM Causes == Spec => []ClosedForCause
<1>1. IInv => ClosedForCause
  BY DEF IInv
<1> QED
  BY <1>1, InitIInv, NextIInv, PTL DEF Spec

(* Nothing of a new session has arrived. *)
LEMMA NothingYet ==
  ASSUME packets' \in Seq(PacketSet), Len(packets') <= MaxPackets,
         stream' = StreamFrom(packets', 1), got' = 0
  PROVE  Arrived' = {}
<1>1. PICK f, n : f = Starts(packets') /\ n = Len(packets')
  OBVIOUS
<1>2. n \in Nat /\ 1 \in 1 .. n + 1 /\ n + 1 \in 1 .. n + 1
  BY <1>1
<1>3. f[1] = 0 /\ f[n + 1] \in Nat /\ Len(stream') = f[n + 1] - f[1]
  BY <1>1, <1>2, StartsRec, StartsType, StreamType
<1>4. f[n + 1] - Len(stream') + got' = 0
  BY <1>3
<1>5. ASSUME NEW i \in 1 .. n
      PROVE  ~(f[i + 1] <= 0)
  <2>1. f[i + 1] = f[i] + PKT_HEADER_SIZE + packets'[i].len /\ packets'[i].len \in Nat
    BY <1>1, StartsRec, PacketLen
  <2>2. f[i] \in Nat
    BY <1>1, <1>2, StartsType
  <2> QED
    BY <2>1, <2>2, Sizes
<1> QED
  BY <1>1, <1>4, <1>5 DEF Arrived

(* What is in the ring has arrived. *)
LEMMA InRingArrived ==
  ASSUME IInv, phase # "done", NEW d, d = Len(delivered) + 1, d \in 1 .. Len(packets),
         UseSize >= PKT_HEADER_SIZE + packets[d].len
  PROVE  d \in Arrived
<1>0. FramingInv
  BY DEF IInv
<1>1. PICK f, n, u : f = Starts(packets) /\ n = Len(packets) /\ u = Use(front, rear)
  OBVIOUS
<1>2. packets \in Seq(PacketSet) /\ n <= MaxPackets /\ n \in Nat /\ d \in 1 .. n + 1
  BY <1>0, <1>1 DEF FramingInv
<1>3. f[n + 1] \in Nat /\ f[d] \in Nat /\ packets[d].len \in Nat
  BY <1>1, <1>2, StartsType, PacketLen
<1>4. f[d + 1] = f[d] + PKT_HEADER_SIZE + packets[d].len
  BY <1>1, <1>2, StartsRec
<1>5. f[n + 1] - f[d] = u + Len(stream) /\ Len(stream) \in Nat
  <2>1. Len(StreamFrom(packets, d)) = f[n + 1] - f[d]
    BY <1>1, <1>2, StreamType
  <2> QED
    BY <1>0, <1>1, <2>1 DEF IInv, OpenInv, Holds, FramingInv
<1>6. u >= PKT_HEADER_SIZE + packets[d].len /\ u \in Nat /\ got \in Nat
  BY <1>0, <1>1, RingOps, UseType DEF FramingInv, IInv, GotInv
<1>7. f[d + 1] <= f[n + 1] - Len(stream) + got
  <2>1. PICK a, b, c, l, m : /\ a = f[d] /\ b = f[d + 1] /\ c = f[n + 1] /\ l = Len(stream)
                            /\ m = PKT_HEADER_SIZE + packets[d].len
    OBVIOUS
  <2>2. /\ a \in Nat /\ c \in Nat /\ l \in Nat /\ m \in Nat /\ u \in Nat /\ got \in Nat
        /\ b = a + m /\ c - a = u + l /\ u >= m
    BY <1>3, <1>4, <1>5, <1>6, <2>1, Sizes, SMTT(30)
  <2>3. b <= c - l + got
    BY ONLY <2>2
  <2> QED
    BY <2>1, <2>3
<1> QED
  BY <1>1, <1>7 DEF Arrived

(* CloseSession by the worker: the connection's end, or nothing. *)
LEMMA CloseRefines ==
  ASSUME IInv, phase # "done", NEW why, CloseSession(why),
         UNCHANGED <<packets, stream, delivered, got>>
  PROVE  [Stream!Next]_(Stream!vars)
<1>1. UNCHANGED Arrived
  BY DEF Arrived
<1>2. CASE cause = "none"
  <2>1. sock = "open" /\ sock' = "invalid"
    BY <1>2 DEF IInv, OpenInv, CloseSession
  <2>2. Stream!Close
    BY <1>1, <2>1 DEF Stream!Close
  <2> QED
    BY <2>2 DEF Stream!Next
<1>3. CASE cause # "none"
  BY <1>1, <1>3 DEF CloseSession, Stream!vars
<1> QED
  BY <1>2, <1>3

(* RecvArrives: more may have arrived, nothing less. *)
LEMMA ArriveRefines ==
  ASSUME IInv, RecvArrives
  PROVE  [Stream!Next]_(Stream!vars)
<1>1. /\ phase = "posted" /\ sock = "open" /\ got = 0 /\ got' \in Nat
      /\ UNCHANGED <<packets, stream, delivered, sock>>
  <2>1. Room(front, rear) \in Nat
    BY Sizes DEF IInv, FramingInv, Room, Cells
  <2> QED
    BY <2>1, RingOps DEF RecvArrives, IInv, GotInv
<1>2. PICK f, n, l : f = Starts(packets) /\ n = Len(packets) /\ l = f[n + 1] - Len(stream)
  OBVIOUS
<1>3. /\ n \in Nat /\ l \in Int
      /\ \A i \in 1 .. n : f[i + 1] \in Nat
  <2>1. packets \in Seq(PacketSet) /\ stream \in Seq(Byte)
    BY DEF IInv, FramingInv
  <2>2. \A i \in 1 .. n + 1 : f[i] \in Nat
    BY <1>2, <2>1, StartsType
  <2>3. n \in Nat /\ Len(stream) \in Nat
    BY <1>2, <2>1
  <2> QED
    BY <1>2, <2>2, <2>3
<1>4. Arrived = {i \in 1 .. n : f[i + 1] <= l + got}
  BY <1>2 DEF Arrived
<1>5. Arrived' = {i \in 1 .. n : f[i + 1] <= l + got'}
  BY <1>1, <1>2 DEF Arrived
<1>6. Arrived \subseteq Arrived' /\ Arrived' \subseteq 1 .. n
  BY <1>1, <1>3, <1>4, <1>5
<1>7. Stream!Arrive
  BY <1>1, <1>2, <1>6 DEF Stream!Arrive
<1> QED
  BY <1>7 DEF Stream!Next

(* RecvComplete: the bytes received are now in the ring. *)
LEMMA CompleteRefines ==
  ASSUME IInv, RecvComplete
  PROVE  UNCHANGED Stream!vars
<1>1. /\ got' = 0 /\ stream' = SubSeq(stream, got + 1, Len(stream))
      /\ UNCHANGED <<packets, delivered, sock>>
  BY DEF RecvComplete
<1>2. stream \in Seq(Byte) /\ packets \in Seq(PacketSet) /\ got \in Nat /\ got <= Len(stream)
  BY DEF IInv, FramingInv, GotInv
<1>3. Len(stream') = Len(stream) - got /\ Len(stream) \in Nat
  <2>1. got + 1 \in 1 .. Len(stream) + 1 /\ Len(stream) \in Nat
    BY <1>2
  <2>2. Len(SubSeq(stream, got + 1, Len(stream))) = Len(stream) - (got + 1) + 1
    BY <1>2, <2>1, SubSeqProperties
  <2> QED
    BY <1>1, <1>2, <2>1, <2>2
<1>4. PICK t : t = Starts(packets)[Len(packets) + 1]
  OBVIOUS
<1>5. t \in Nat
  <2>1. Len(packets) + 1 \in 1 .. Len(packets) + 1
    BY <1>2
  <2> QED
    BY <1>2, <1>4, <2>1, StartsType
<1>6. t - Len(stream') + got' = t - Len(stream) + got
  <2>1. PICK k, l, g : k = Len(stream') /\ l = Len(stream) /\ g = got'
    OBVIOUS
  <2>2. k = l - got /\ l \in Nat /\ g = 0 /\ got \in Nat /\ t \in Nat
    BY <1>1, <1>2, <1>3, <1>5, <2>1
  <2>3. t - k + g = t - l + got
    BY ONLY <2>2
  <2> QED
    BY <2>1, <2>3
<1>7. UNCHANGED Arrived
  BY <1>1, <1>4, <1>6 DEF Arrived
<1> QED
  BY <1>1, <1>7 DEF Stream!vars

(* Every step is one of PacketStream, or leaves it alone. *)
LEMMA StepRefines ==
  ASSUME IInv, [Next]_vars
  PROVE  [Stream!Next]_(Stream!vars)
<1>0. FramingInv
  BY DEF IInv
<1>1. CASE InitSession
  <2>1. /\ packets' \in Seq(PacketSet) /\ packets' # <<>> /\ Len(packets') <= MaxPackets
        /\ stream' = StreamFrom(packets', 1)
    BY <1>0, <1>1, NewPackets DEF FramingInv
  <2>2. got' = 0 /\ sock = "invalid" /\ sock' = "open" /\ delivered' = <<>>
    BY <1>1 DEF InitSession
  <2>3. Arrived' = {}
    BY <2>1, <2>2, NothingYet
  <2>4. Stream!Connect
    BY <2>1, <2>2, <2>3 DEF Stream!Connect
  <2> QED
    BY <2>4 DEF Stream!Next
<1>2. CASE Disconnected \/ RejectLength
  <2>1. /\ phase # "done" /\ \E why : CloseSession(why)
        /\ UNCHANGED <<packets, stream, delivered, got>>
    BY <1>2 DEF Disconnected, RejectLength
  <2> QED
    BY <2>1, CloseRefines
<1>3. CASE PostNext
  <2>1. phase # "done" /\ UNCHANGED <<packets, stream, delivered, got>>
    BY <1>3 DEF PostNext
  <2>2. CASE \E why : CloseSession(why)
    BY <2>1, <2>2, CloseRefines
  <2>3. CASE UNCHANGED sock
    BY <2>1, <2>3 DEF Stream!vars, Arrived
  <2> QED
    BY <1>3, <2>2, <2>3 DEF PostNext, PostRecv
<1>4. CASE TakePacket
  <2>1. PICK d : d = Len(delivered) + 1
    OBVIOUS
  <2>2. /\ d \in 1 .. Len(packets) /\ UNCHANGED <<packets, stream, got>> /\ phase = "parse"
        /\ \/ packets[d].ok /\ delivered' = Append(delivered, d) /\ UNCHANGED sock
           \/ CloseSession("mac") /\ UNCHANGED delivered
    BY <1>4, <2>1, TakeIs DEF TakePacket
  <2>3. CASE packets[d].ok /\ delivered' = Append(delivered, d) /\ UNCHANGED sock
    <3>1. Lens = {packets[d].len}
      BY <1>4, <2>1, <2>2, FirstPacket DEF TakePacket
    <3>2. UseSize >= PKT_HEADER_SIZE + packets[d].len
      BY <1>4, <3>1 DEF TakePacket, Complete
    <3>3. d \in Arrived
      BY <2>1, <2>2, <3>2, InRingArrived
    <3>4. Stream!Deliver
      BY <2>1, <2>2, <2>3, <3>3 DEF Stream!Deliver, Arrived
    <3> QED
      BY <3>4 DEF Stream!Next
  <2>4. CASE CloseSession("mac") /\ UNCHANGED delivered
    BY <2>2, <2>4, CloseRefines
  <2> QED
    BY <2>2, <2>3, <2>4
<1>5. CASE OtherCloses \/ UNCHANGED vars
  BY <1>5 DEF OtherCloses, vars, Stream!vars, Arrived
<1>6. CASE CloseSocket
  <2>1. Stream!Close
    BY <1>6 DEF CloseSocket, Stream!Close, Arrived
  <2> QED
    BY <2>1 DEF Stream!Next
<1> QED
  BY <1>1, <1>2, <1>3, <1>4, <1>5, <1>6, ArriveRefines, CompleteRefines DEF Next

(* OnRecvComplete implements PacketStream: the content gets the client's   *)
(* packets in order, without a gap, each once, and only those whose code   *)
(* matches; when another thread closes the session while a worker handles  *)
(* a receive, only packets that had arrived before the socket was closed.  *)
THEOREM Refinement == Spec => DeliversStream
<1>1. Init => Stream!Init
  <2> SUFFICES ASSUME Init PROVE Stream!Init
    OBVIOUS
  <2>1. packets = <<>> /\ Len(packets) = 0
    BY DEF Init
  <2>2. Arrived = {}
    BY <2>1 DEF Arrived
  <2> QED
    BY <2>2 DEF Init, Stream!Init
<1> QED
  BY <1>1, InitIInv, NextIInv, StepRefines, PTL DEF Spec, DeliversStream, Stream!Spec
=============================================================================
