----------------------------- MODULE SessionId -----------------------------
(***************************************************************************)
(* The session identifiers of CLanServer.  InitSession packs the slot's    *)
(* index and its generation into one unsigned word,                        *)
(*                                                                         *)
(*     sID = ((SessionID)idx << 48) | (SessionID)s->generation,            *)
(*                                                                         *)
(* and SendPacket and Disconnect take it apart again, possibly long after  *)
(* the session ended: content threads keep identifiers.  generation is a   *)
(* LONG: the conversion to the 64-bit word extends its sign, and so does   *)
(* the comparison of the 48 low bits, cut back to a LONG.  The widths are  *)
(* constants, so that TLC goes past the range of a LONG.                   *)
(***************************************************************************)
EXTENDS Integers, Sequences

CONSTANTS MaxSession,  \* slots of the session array
          IndexBase,   \* 2^16, the values of the word's upper part
          GenBase,     \* 2^48, the values of the word's lower part
          LongBase,    \* 2^32, the values of a LONG
          MaxReuse     \* bound: sessions of one slot

Slots == 0 .. MaxSession - 1
Long == -(LongBase \div 2) .. (LongBase \div 2) - 1
NoSlot == -1

VARIABLES generation,  \* [slot |-> LONG]
          sID,         \* [slot |-> word]
          closeFlag,   \* [slot |-> 0 or 1]
          indexPool,   \* the free slots
          issued       \* history: the identifiers of each slot's sessions

vars == <<generation, sID, closeFlag, indexPool, issued>>

(***************************************************************************)
(* Conversions of C++ between a LONG and wider words.                      *)
(***************************************************************************)
ToLong(n) == LET r == n % LongBase
             IN  IF r < LongBase \div 2 THEN r ELSE r - LongBase

\* (SessionID)generation: its 48 low bits, and the bits above, which repeat
\* the sign.
LowPart(gen) == gen % GenBase
SignPart(gen) == IF gen < 0 THEN IndexBase - 1 ELSE 0

\* The union of an index with a word of equal bits.
OrSign(idx, sign) == IF sign = 0 THEN idx ELSE sign

Encode(idx, gen) == OrSign(idx, SignPart(gen)) * GenBase + LowPart(gen)

\* idx = (int)(sid >> 48),  gen = (LONG)(sid & Bit_Masking)
DecodeIndex(sid) == sid \div GenBase
DecodeGen(sid) == ToLong(sid % GenBase)

(***************************************************************************)
(* The slot an identifier reaches: SendPacket refuses a closed session,    *)
(* Disconnect calls CloseSession, whose test of closeFlag does the same.   *)
(***************************************************************************)
Reached(sid) ==
    LET idx == DecodeIndex(sid)
    IN  IF /\ idx \in Slots
           /\ generation[idx] = DecodeGen(sid)
           /\ closeFlag[idx] = 0
        THEN idx
        ELSE NoSlot

-----------------------------------------------------------------------------

Init ==
    /\ generation = [i \in Slots |-> 0]
    /\ sID = [i \in Slots |-> 0]
    /\ closeFlag = [i \in Slots |-> 0]
    /\ indexPool = Slots
    /\ issued = [i \in Slots |-> <<>>]

\* AllocSession and InitSession: InterlockedIncrement wraps around.
InitSession(idx) ==
    /\ idx \in indexPool
    /\ Len(issued[idx]) < MaxReuse
    /\ indexPool' = indexPool \ {idx}
    /\ generation' = [generation EXCEPT ![idx] = ToLong(@ + 1)]
    /\ sID' = [sID EXCEPT ![idx] = Encode(idx, generation'[idx])]
    /\ issued' = [issued EXCEPT ![idx] = Append(@, sID'[idx])]
    /\ closeFlag' = [closeFlag EXCEPT ![idx] = 0]

CloseSession(idx) ==
    /\ idx \notin indexPool
    /\ closeFlag[idx] = 0
    /\ closeFlag' = [closeFlag EXCEPT ![idx] = 1]
    /\ UNCHANGED <<generation, sID, indexPool, issued>>

ReleaseSession(idx) ==
    /\ idx \notin indexPool
    /\ closeFlag[idx] = 1
    /\ indexPool' = indexPool \cup {idx}
    /\ UNCHANGED <<generation, sID, closeFlag, issued>>

Next == \E idx \in Slots :
            InitSession(idx) \/ CloseSession(idx) \/ ReleaseSession(idx)

Spec == Init /\ [][Next]_vars

-----------------------------------------------------------------------------

(***************************************************************************)
(* Type invariant of the slots; an identifier is a word of the two parts.  *)
(***************************************************************************)
TypeOK ==
    /\ generation \in [Slots -> Long]
    /\ sID \in [Slots -> 0 .. IndexBase * GenBase - 1]
    /\ closeFlag \in [Slots -> {0, 1}]
    /\ indexPool \subseteq Slots
    /\ issued \in [Slots -> Seq(0 .. IndexBase * GenBase - 1)]

Live(idx) == idx \notin indexPool /\ closeFlag[idx] = 0

(***************************************************************************)
(* The identifier announced by OnClientJoin reaches the session it was     *)
(* made for as long as that session is open: SendPacket and Disconnect     *)
(* decode from it the index and the generation InitSession encoded.        *)
(***************************************************************************)
LiveIdAccepted == \A idx \in Slots : Live(idx) => Reached(sID[idx]) = idx

(***************************************************************************)
(* An identifier kept beyond its session reaches no session: neither a     *)
(* later one of the same slot nor one of another slot (SendPacket and      *)
(* Disconnect return false, or find closeFlag set).                        *)
(***************************************************************************)
StaleIdRefused ==
    \A idx \in Slots : \A k \in DOMAIN issued[idx] :
        (k < Len(issued[idx]) \/ ~Live(idx)) => Reached(issued[idx][k]) = NoSlot
=============================================================================
