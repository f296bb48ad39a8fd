-------------------------- MODULE SessionIdProofs --------------------------
(***************************************************************************)
(* The session identifiers at the widths of the code: 16 bits of index, 48 *)
(* bits of generation, a LONG of 32 bits.  TLC cannot count to 2^31; the   *)
(* proofs cover every slot and every generation a LONG can hold.           *)
(***************************************************************************)
EXTENDS SessionId, TLAPS

LongMax == 2147483647
IndexMax == 65535

(* InitSession's shift by 48 in a 64-bit word, a LONG of 32 bits, as many  *)
(* slots as 16 bits of index can name (main asks for 10000), and no slot   *)
(* used more often than a LONG can count.                                  *)
Widths ==
  /\ IndexBase = 65536
  /\ GenBase = 281474976710656
  /\ LongBase = 4294967296
  /\ MaxSession \in Nat /\ MaxSession <= IndexMax
  /\ MaxReuse \in Nat /\ MaxReuse <= LongMax

(* A number that fits into a LONG is not changed by the conversion.        *)
LEMMA LongKept ==
  ASSUME Widths, NEW gen \in Nat, gen <= LongMax
  PROVE  ToLong(gen) = gen
<1>1. gen \in Int /\ 0 <= gen /\ gen <= 2147483647
  BY SMT DEF LongMax
<1>2. gen % 4294967296 = gen /\ 4294967296 \div 2 = 2147483648
  BY <1>1, SMT
<1>3. gen < 2147483648
  BY <1>1, SMT
<1>4. LongBase = 4294967296
  BY SMT DEF Widths
<1>. QED  BY <1>2, <1>3, <1>4, SMT DEF ToLong

(* SendPacket and Disconnect get back the index and the generation that    *)
(* InitSession put into the identifier.                                    *)
THEOREM RoundTrip ==
  ASSUME Widths, NEW idx \in Nat, idx <= IndexMax, NEW gen \in Nat, gen <= LongMax
  PROVE  /\ Encode(idx, gen) \in Nat
         /\ DecodeIndex(Encode(idx, gen)) = idx
         /\ DecodeGen(Encode(idx, gen)) = gen
<1>1. gen \in Int /\ 0 <= gen /\ gen <= 2147483647
  BY SMT DEF LongMax
<1>2. idx \in Int /\ 0 <= idx /\ idx <= 65535
  BY SMT DEF IndexMax
<1>3. gen % 281474976710656 = gen
  BY <1>1, SMT
<1>4. GenBase = 281474976710656
  BY SMT DEF Widths
<1>5. Encode(idx, gen) = idx * 281474976710656 + gen
  BY <1>1, <1>2, <1>3, <1>4, SMT DEF Encode, OrSign, LowPart, SignPart
<1>6. /\ Encode(idx, gen) \in Nat
      /\ Encode(idx, gen) \div 281474976710656 = idx
      /\ Encode(idx, gen) % 281474976710656 = gen
  BY <1>1, <1>2, <1>5, SMT
<1>. QED  BY <1>4, <1>6, LongKept, SMT DEF DecodeIndex, DecodeGen

(* The bounds of the fields, as numbers. *)
LEMMA Ranges ==
  ASSUME Widths
  PROVE  /\ MaxReuse \in Nat
         /\ \A n \in 0 .. MaxReuse : n \in Nat /\ n <= LongMax
         /\ \A i \in Slots : i \in Nat /\ i <= IndexMax
<1>1. LongMax \in Nat /\ IndexMax \in Nat
  BY SMT DEF LongMax, IndexMax
<1>2. /\ MaxSession \in Nat /\ MaxSession <= IndexMax
      /\ MaxReuse \in Nat /\ MaxReuse <= LongMax
  BY DEF Widths
<1>. QED  BY <1>1, <1>2, SMT DEF Slots

(* A slot's sessions are numbered 1, 2, ... and its identifiers are made   *)
(* from these numbers; a free slot is closed or was never used.            *)
IdInv ==
  /\ generation \in [Slots -> 0 .. MaxReuse]
  /\ sID \in [Slots -> Nat]
  /\ closeFlag \in [Slots -> {0, 1}]
  /\ indexPool \subseteq Slots
  /\ issued \in [Slots -> Seq(Nat)]
  /\ \A i \in Slots : Len(issued[i]) = generation[i]
  /\ \A i \in Slots : \A k \in 1 .. generation[i] : issued[i][k] = Encode(i, k)
  /\ \A i \in Slots : i \notin indexPool => sID[i] = Encode(i, generation[i])
  /\ \A i \in Slots : i \in indexPool => closeFlag[i] = 1 \/ generation[i] = 0

(* At the start no slot has an identifier. *)
LEMMA IdInit ==
  ASSUME Widths, Init
  PROVE  IdInv
  BY Ranges DEF Init, IdInv

(* InitSession gives its slot an identifier of its own. *)
LEMMA IdInitSession ==
  ASSUME Widths, IdInv, NEW idx \in Slots, InitSession(idx)
  PROVE  IdInv'
<1>. DEFINE g == generation[idx] + 1
            id == Encode(idx, g)
<1>1. g \in 1 .. MaxReuse /\ g \in Nat /\ g <= LongMax
  BY Ranges DEF IdInv, InitSession
<1>2. ToLong(g) = g
  BY <1>1, LongKept
<1>3. id \in Nat
  BY <1>1, Ranges, RoundTrip
<1>4. /\ generation' = [generation EXCEPT ![idx] = g]
      /\ sID' = [sID EXCEPT ![idx] = id]
      /\ issued' = [issued EXCEPT ![idx] = Append(@, id)]
      /\ closeFlag' = [closeFlag EXCEPT ![idx] = 0]
      /\ indexPool' = indexPool \ {idx}
  <2>1. generation' = [generation EXCEPT ![idx] = g]
    BY <1>2 DEF InitSession, IdInv
  <2>2. generation'[idx] = g
    BY <2>1 DEF IdInv
  <2>. HIDE DEF g
  <2>. QED  BY <2>1, <2>2 DEF InitSession, IdInv
<1>. HIDE DEF g, id
<1>5. /\ generation' \in [Slots -> 0 .. MaxReuse]
      /\ sID' \in [Slots -> Nat]
      /\ closeFlag' \in [Slots -> {0, 1}]
      /\ indexPool' \subseteq Slots
      /\ issued' \in [Slots -> Seq(Nat)]
  BY <1>1, <1>3, <1>4 DEF IdInv
<1>6. \A i \in Slots : Len(issued'[i]) = generation'[i]
  BY <1>3, <1>4 DEF IdInv, g
<1>7. ASSUME NEW i \in Slots, NEW k \in 1 .. generation'[i]
      PROVE  issued'[i][k] = Encode(i, k)
  <2>1. CASE i # idx
    BY <2>1, <1>4 DEF IdInv
  <2>2. CASE i = idx /\ k = g
    BY <2>2, <1>3, <1>4 DEF IdInv, g, id
  <2>3. CASE i = idx /\ k # g
    <3>1. k \in 1 .. generation[idx] /\ k \in 1 .. Len(issued[idx])
      BY <2>3, <1>1, <1>4 DEF IdInv, g
    <3>2. issued'[idx][k] = issued[idx][k]
      BY <3>1, <1>3, <1>4 DEF IdInv
    <3>. QED  BY <2>3, <3>1, <3>2 DEF IdInv
  <2>. QED  BY <2>1, <2>2, <2>3
<1>8. \A i \in Slots : i \notin indexPool' => sID'[i] = Encode(i, generation'[i])
  BY <1>4 DEF IdInv, id
<1>9. \A i \in Slots : i \in indexPool' => closeFlag'[i] = 1 \/ generation'[i] = 0
  BY <1>4 DEF IdInv
<1>. QED  BY <1>5, <1>6, <1>7, <1>8, <1>9 DEF IdInv

(* Closing keeps the identifier. *)
LEMMA IdCloseSession ==
  ASSUME Widths, IdInv, NEW idx \in Slots, CloseSession(idx)
  PROVE  IdInv'
  BY DEF IdInv, CloseSession

(* So does the return to the pool. *)
LEMMA IdReleaseSession ==
  ASSUME Widths, IdInv, NEW idx \in Slots, ReleaseSession(idx)
  PROVE  IdInv'
  BY DEF IdInv, ReleaseSession

(* How the identifiers of every slot came about, in every state.           *)
THEOREM IdInvariant == ASSUME Widths PROVE Spec => []IdInv
<1>1. Init => IdInv
  BY IdInit
<1>2. IdInv /\ [Next]_vars => IdInv'
  <2>1. ASSUME IdInv, Next PROVE IdInv'
    BY <2>1, IdInitSession, IdCloseSession, IdReleaseSession DEF Next
  <2>2. ASSUME IdInv, UNCHANGED vars PROVE IdInv'
    BY <2>2 DEF IdInv, vars
  <2>. QED  BY <2>1, <2>2
<1>. QED  BY <1>1, <1>2, PTL DEF Spec

(* InitSession's identifier reaches its session as long as it is open.     *)
THEOREM LiveIdReachesItsSession == ASSUME Widths PROVE Spec => []LiveIdAccepted
<1>1. IdInv => LiveIdAccepted
  <2>. SUFFICES ASSUME IdInv, NEW idx \in Slots, Live(idx)
                PROVE  Reached(sID[idx]) = idx
    BY DEF LiveIdAccepted
  <2>1. sID[idx] = Encode(idx, generation[idx]) /\ generation[idx] \in Nat /\ generation[idx] <= LongMax
    BY Ranges DEF IdInv, Live
  <2>2. DecodeIndex(sID[idx]) = idx /\ DecodeGen(sID[idx]) = generation[idx]
    BY <2>1, Ranges, RoundTrip
  <2>. QED  BY <2>2 DEF Reached, Live
<1>. QED  BY <1>1, IdInvariant, PTL

(* An identifier the content kept beyond its session reaches no session of *)
(* any slot: SendPacket and Disconnect refuse it.                          *)
THEOREM StaleIdReachesNothing == ASSUME Widths PROVE Spec => []StaleIdRefused
<1>1. IdInv => StaleIdRefused
  <2>. SUFFICES ASSUME IdInv, NEW idx \in Slots, NEW k \in DOMAIN issued[idx],
                       k < Len(issued[idx]) \/ ~Live(idx)
                PROVE  Reached(issued[idx][k]) = NoSlot
    BY DEF StaleIdRefused
  <2>1. k \in 1 .. generation[idx] /\ k \in Nat /\ k <= LongMax /\ generation[idx] \in Nat
    BY Ranges DEF IdInv
  <2>2. issued[idx][k] = Encode(idx, k)
    BY <2>1 DEF IdInv
  <2>3. DecodeIndex(issued[idx][k]) = idx /\ DecodeGen(issued[idx][k]) = k
    BY <2>1, <2>2, Ranges, RoundTrip
  <2>4. generation[idx] # k \/ closeFlag[idx] # 0
    <3>1. CASE k < Len(issued[idx])
      BY <2>1, <3>1 DEF IdInv
    <3>2. CASE ~Live(idx)
      <4>1. idx \in indexPool => closeFlag[idx] = 1
        BY <2>1 DEF IdInv
      <4>. QED  BY <3>2, <4>1 DEF Live
    <3>. QED  BY <3>1, <3>2
  <2>. QED  BY <2>3, <2>4 DEF Reached
<1>. QED  BY <1>1, IdInvariant, PTL
=============================================================================
