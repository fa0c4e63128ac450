------------------------- MODULE HandleTableProofs -------------------------
(***************************************************************************)
(* HandleTable, for every number of slots, generations and payloads.       *)
(***************************************************************************)
EXTENDS HandleTable, SequenceTheorems, TLAPS

(***************************************************************************)
(* A handle value holds its three parts apart.                             *)
(***************************************************************************)
LEMMA QuotientRest ==
    ASSUME NEW a \in Nat, NEW b \in Nat, b > 0, NEW r \in 0 .. (b - 1)
    PROVE  (a * b + r) \div b = a /\ (a * b + r) % b = r
<1>1. a * b \in Nat /\ r \in Nat /\ r < b
  OBVIOUS
<1> QED
  BY <1>1

LEMMA QuotientFacts ==
    ASSUME NEW v \in Nat, NEW b \in Nat, b > 0
    PROVE  /\ v \div b \in Nat /\ v % b \in 0 .. (b - 1)
           /\ v = (v \div b) * b + (v % b)
<1>1. v % b \in 0 .. (b - 1)
  OBVIOUS
<1>2. v \div b \in Nat
  OBVIOUS
<1>3. v = (v \div b) * b + (v % b)
  OBVIOUS
<1> QED
  BY <1>1, <1>2, <1>3

LEMMA DecodeOfEncode ==
    ASSUME NEW g \in 1 .. kMaxGeneration, NEW s \in 1 .. maxSlot
    PROVE  LET v == Encode(Magic, g, s)
           IN  /\ v \in Nat /\ v # 0
               /\ DecodeMagic(v) = Magic /\ DecodeGeneration(v) = g /\ DecodeSlot(v) = s
               /\ (v \div SlotSpan) \div GenerationSpan < MagicSpan
<1> DEFINE h == Magic * GenerationSpan + g
           v == h * SlotSpan + s
<1>1. /\ Magic \in Nat /\ MagicSpan \in Nat /\ GenerationSpan \in Nat /\ SlotSpan \in Nat
      /\ GenerationSpan > 0 /\ SlotSpan > 0 /\ Magic < MagicSpan
      /\ g \in 0 .. (GenerationSpan - 1) /\ s \in 0 .. (SlotSpan - 1) /\ s > 0
  BY SpanAssumption DEF kMaxGeneration
<1>2. h \div GenerationSpan = Magic /\ h % GenerationSpan = g
  BY <1>1, QuotientRest
<1>3. Magic * GenerationSpan \in Nat
  BY <1>1
<1>4. h \in Nat
  BY <1>1, <1>3
<1> HIDE DEF h
<1>5. v \div SlotSpan = h /\ v % SlotSpan = s
  BY <1>1, <1>4, QuotientRest
<1>6. h * SlotSpan \in Nat
  BY <1>1, <1>4
<1>7. v \in Nat /\ v # 0
  BY <1>1, <1>6
<1>8. Encode(Magic, g, s) = v
  BY DEF Encode, h
<1> HIDE DEF v
<1>9. Magic % MagicSpan = Magic
  BY <1>1
<1> QED
  BY <1>1, <1>2, <1>5, <1>7, <1>8, <1>9 DEF DecodeMagic, DecodeGeneration, DecodeSlot

LEMMA EncodeOfDecode ==
    ASSUME NEW v \in Nat, (v \div SlotSpan) \div GenerationSpan < MagicSpan
    PROVE  v = Encode(DecodeMagic(v), DecodeGeneration(v), DecodeSlot(v))
<1> DEFINE h == v \div SlotSpan
           m == h \div GenerationSpan
<1>1. /\ MagicSpan \in Nat /\ GenerationSpan \in Nat /\ SlotSpan \in Nat
      /\ GenerationSpan > 0 /\ SlotSpan > 0 /\ MagicSpan > 0
  BY SpanAssumption
<1>2. h \in Nat /\ v = h * SlotSpan + (v % SlotSpan)
  BY <1>1, QuotientFacts
<1>3. m \in Nat /\ h = m * GenerationSpan + (h % GenerationSpan)
  BY <1>1, <1>2, QuotientFacts
<1>4. DecodeMagic(v) = m % MagicSpan /\ DecodeGeneration(v) = h % GenerationSpan
      /\ DecodeSlot(v) = v % SlotSpan /\ m < MagicSpan
  BY DEF DecodeMagic, DecodeGeneration, DecodeSlot
<1> HIDE DEF h, m
<1>5. m % MagicSpan = m
  BY <1>1, <1>3, <1>4
<1> QED
  BY <1>2, <1>3, <1>4, <1>5 DEF Encode

(***************************************************************************)
(* The inductive invariant.  A closed handle stays closed because every    *)
(* value given out is behind its slot: not later than the slot's           *)
(* generation, and earlier than it while the slot waits on the free list.  *)
(***************************************************************************)
Unmade == \A s \in 1 .. maxSlot : s > size => slots[s] = NewSlot

OneOwner == \A s \in 1 .. maxSlot : ~(slots[s].live /\ slots[s].reserved)

Owned == \A s \in 1 .. size : ~Idle(s) => ValueOf(s) \in returned

Behind ==
    \A v \in returned :
        /\ v = Encode(Magic, DecodeGeneration(v), DecodeSlot(v))
        /\ DecodeSlot(v) \in 1 .. size
        /\ DecodeGeneration(v) \in 1 .. slots[DecodeSlot(v)].generation
        /\ OnFreeList(DecodeSlot(v)) =>
              DecodeGeneration(v) < slots[DecodeSlot(v)].generation

IInv ==
    /\ TypeOK
    /\ FreeListSound
    /\ NoSlotLost
    /\ ClosedStaysClosed
    /\ Unmade
    /\ OneOwner
    /\ Owned
    /\ Behind

(* A value that finds a slot is the one the slot was given out under. *)
LEMMA FindFacts ==
    ASSUME IInv, NEW v \in returned \cup Foreign, FindSlot(v) # 0
    PROVE  FindSlot(v) \in 1 .. size /\ v = ValueOf(FindSlot(v))
<1> DEFINE s == FindSlot(v)
<1>1. /\ s = DecodeSlot(v) /\ DecodeMagic(v) = Magic /\ s \in 1 .. size
      /\ slots[s].generation = DecodeGeneration(v)
  BY DEF FindSlot
<1>2. v = Encode(Magic, DecodeGeneration(v), DecodeSlot(v))
  BY <1>1, SpanAssumption, EncodeOfDecode DEF IInv, Behind
<1> QED
  BY <1>1, <1>2 DEF ValueOf

(* What TakeSlot gives belongs to nobody. *)
LEMMA TakeSlotFacts ==
    ASSUME IInv, TakeSlot # 0
    PROVE  /\ TakeSlot \in 1 .. maxSlot /\ Idle(TakeSlot)
           /\ freeSlots # << >> => OnFreeList(TakeSlot) /\ TakeSlot \in 1 .. size
           /\ freeSlots = << >> => TakeSlot = size + 1
<1>1. size \in Nat /\ maxSlot \in Nat /\ size \in 0 .. maxSlot /\ freeSlots \in Seq(1 .. maxSlot)
  BY SpanAssumption DEF IInv, TypeOK
<1>2. CASE freeSlots # << >>
  <2>1. Len(freeSlots) \in 1 .. Len(freeSlots) /\ TakeSlot = freeSlots[Len(freeSlots)]
    BY <1>1, <1>2 DEF TakeSlot
  <2> QED
    BY <1>1, <1>2, <2>1 DEF IInv, FreeListSound, OnFreeList
<1>3. CASE freeSlots = << >>
  <2>1. TakeSlot = size + 1 /\ size < maxSlot
    BY <1>3 DEF TakeSlot
  <2>2. slots[size + 1] = NewSlot
    BY <1>1, <2>1 DEF IInv, Unmade
  <2> QED
    BY <1>1, <1>3, <2>1, <2>2 DEF Idle, NewSlot
<1> QED
  BY <1>2, <1>3

(* The stack of free slots. *)
LEMMA PopFacts ==
    ASSUME NEW S, NEW q \in Seq(S), q # << >>
    PROVE  /\ Len(q) \in Nat /\ Len(q) > 0
           /\ SubSeq(q, 1, Len(q) - 1) \in Seq(S)
           /\ Len(SubSeq(q, 1, Len(q) - 1)) = Len(q) - 1
           /\ \A i \in 1 .. (Len(q) - 1) : SubSeq(q, 1, Len(q) - 1)[i] = q[i]
<1> DEFINE m == Len(q) - 1
<1>1. Len(q) \in Nat /\ Len(q) > 0
  BY EmptySeq, LenProperties
<1>2. m \in Nat /\ m <= Len(q) /\ 1 <= m + 1 /\ 1 \in Int /\ m \in Int
  BY <1>1
<1>3. \A i \in 1 .. m : q[i] \in S
  BY <1>1, ElementOfSeq
<1> HIDE DEF m
<1>4. SubSeq(q, 1, m) \in Seq(S) /\ Len(SubSeq(q, 1, m)) = IF 1 <= m + 1 THEN m - 1 + 1 ELSE 0
  BY <1>2, <1>3, SubSeqProperties
<1>5. \A i \in 1 .. m - 1 + 1 : SubSeq(q, 1, m)[i] = q[1 + i - 1]
  BY <1>2, <1>3, SubSeqProperties
<1>6. m - 1 + 1 = m /\ \A i \in 1 .. m : 1 + i - 1 = i
  BY <1>2
<1> QED
  BY <1>1, <1>2, <1>4, <1>5, <1>6 DEF m

(* The free list after a slot is taken from its end, or put there.         *)
LEMMA PoppedFacts ==
    ASSUME NEW S, NEW q \in Seq(S), q # << >>, NEW r, r = SubSeq(q, 1, Len(q) - 1)
    PROVE  /\ Len(q) > 0 /\ r \in Seq(S) /\ Len(r) = Len(q) - 1 /\ Len(r) \in 0 .. Len(q)
           /\ \A i \in 1 .. Len(r) : r[i] = q[i]
<1>1. Len(q) \in Nat /\ Len(q) > 0 /\ r \in Seq(S) /\ Len(r) = Len(q) - 1
  BY PopFacts
<1>2. \A i \in 1 .. (Len(q) - 1) : r[i] = q[i]
  BY PopFacts
<1>3. Len(q) - 1 \in 0 .. Len(q)
  BY <1>1
<1> QED
  BY <1>1, <1>2, <1>3

LEMMA AppendedFacts ==
    ASSUME NEW S, NEW q \in Seq(S), NEW e \in S, NEW r, r = Append(q, e)
    PROVE  /\ r \in Seq(S)
           /\ \A i \in 1 .. Len(r) : \/ i \in 1 .. Len(q) /\ r[i] = q[i]
                                     \/ i = Len(q) + 1 /\ r[i] = e
           /\ \A i \in 1 .. Len(q) : i \in 1 .. Len(r) /\ r[i] = q[i]
<1>1. /\ r \in Seq(S) /\ Len(r) = Len(q) + 1 /\ Len(q) \in Nat
      /\ \A i \in 1 .. Len(q) : r[i] = q[i]
      /\ r[Len(q) + 1] = e
  BY AppendProperties, LenProperties
<1>2. /\ \A i \in 1 .. (Len(q) + 1) : i \in 1 .. Len(q) \/ i = Len(q) + 1
      /\ \A i \in 1 .. Len(q) : i \in 1 .. (Len(q) + 1)
  BY <1>1
<1> QED
  BY <1>1, <1>2

(* Allocate and Reserve. *)
LEMMA TakeKeepsIInv ==
    ASSUME IInv, NEW s \in 1 .. maxSlot, s = TakeSlot, NEW v, v = ValueOf(s),
           NEW r \in Slot, r.generation = slots[s].generation,
           r.live \/ r.reserved, ~(r.live /\ r.reserved), Take(s, r)
    PROVE  /\ IInv'
           /\ \A t \in 1 .. maxSlot : Idle(t) /\ ~Idle(t)' =>
                 ValueOf(t)' \notin returned /\ FindSlot(ValueOf(t))' = t
<1> DEFINE n == Len(freeSlots)
<1>1. /\ slots \in [1 .. maxSlot -> Slot] /\ size \in 0 .. maxSlot /\ maxSlot \in Nat
      /\ freeSlots \in Seq(1 .. maxSlot) /\ returned \subseteq Nat /\ dead \subseteq returned
      /\ n \in Nat /\ kMaxGeneration \in Nat
  BY SpanAssumption DEF IInv, TypeOK, kMaxGeneration
<1>2. /\ s \in 1 .. maxSlot /\ Idle(s)
      /\ freeSlots # << >> => OnFreeList(s) /\ s \in 1 .. size
      /\ freeSlots = << >> => s = size + 1
  BY SpanAssumption, TakeSlotFacts DEF Take
<1>3. /\ slots' = [slots EXCEPT ![s] = r] /\ returned' = returned \cup {v} /\ dead' = dead
      /\ r.generation = slots[s].generation
  BY DEF Take
<1>4. /\ freeSlots # << >> =>
            /\ freeSlots' = SubSeq(freeSlots, 1, n - 1) /\ size' = size
            /\ s = freeSlots[n]
      /\ freeSlots = << >> => size' = size + 1 /\ freeSlots' = freeSlots
  BY DEF Take, TakeSlot
<1>5. /\ slots[s] \in Slot /\ slots[s].generation \in 1 .. kMaxGeneration
      /\ \A t \in 1 .. maxSlot : slots'[t] = IF t = s THEN r ELSE slots[t]
  BY <1>1, <1>2, <1>3 DEF Slot
<1>6. /\ v \in Nat /\ v # 0
      /\ DecodeMagic(v) = Magic /\ DecodeGeneration(v) = slots[s].generation /\ DecodeSlot(v) = s
  BY <1>2, <1>5, DecodeOfEncode DEF ValueOf
<1>7. v = Encode(Magic, slots[s].generation, s)
  BY DEF ValueOf
<1>8. v \notin returned
  <2> SUFFICES ASSUME v \in returned PROVE FALSE
    OBVIOUS
  <2>1. s \in 1 .. size /\ (OnFreeList(s) => slots[s].generation < slots[s].generation)
    BY <1>6 DEF IInv, Behind
  <2> QED
    BY <1>1, <1>2, <1>5, <2>1
<1>9. /\ size' \in 0 .. maxSlot /\ size' >= size /\ s \in 1 .. size'
      /\ \A t \in 1 .. size' : t = s \/ t \in 1 .. size
  BY <1>1, <1>2, <1>4
<1>10. /\ freeSlots' \in Seq(1 .. maxSlot) /\ Len(freeSlots') \in 0 .. n
       /\ freeSlots # << >> => Len(freeSlots') = n - 1 /\ n > 0
       /\ \A i \in 1 .. Len(freeSlots') : freeSlots'[i] = freeSlots[i]
  <2>1. CASE freeSlots = << >>
    BY <1>1, <1>4, <2>1
  <2>2. CASE freeSlots # << >>
    <3>1. PICK S, q, w : S = 1 .. maxSlot /\ q = freeSlots /\ w = freeSlots'
      OBVIOUS
    <3>2. q \in Seq(S) /\ q # << >> /\ w = SubSeq(q, 1, Len(q) - 1)
      BY <1>1, <1>4, <2>2, <3>1
    <3>3. /\ Len(q) > 0 /\ w \in Seq(S) /\ Len(w) = Len(q) - 1 /\ Len(w) \in 0 .. Len(q)
          /\ \A i \in 1 .. Len(w) : w[i] = q[i]
      BY Zenon, <3>2, PoppedFacts
    <3> QED
      BY <2>2, <3>1, <3>3
  <2> QED
    BY <2>1, <2>2
<1>11. ~OnFreeList(s)'
  <2> SUFFICES ASSUME NEW i \in 1 .. Len(freeSlots'), freeSlots'[i] = s PROVE FALSE
    BY DEF OnFreeList
  <2>1. i \in 1 .. n /\ freeSlots[i] = s
    BY <1>1, <1>10
  <2>2. CASE freeSlots # << >>
    <3>1. freeSlots[n] = s
      BY <1>4, <2>2
    <3>2. n > 0 /\ Len(freeSlots') = n - 1
      BY <1>10, <2>2
    <3>3. n \in 1 .. n /\ i # n
      BY <1>1, <3>2
    <3> QED
      BY <2>1, <3>1, <3>3 DEF IInv, FreeListSound
  <2>3. CASE freeSlots = << >>
    BY <2>1, <2>3
  <2> QED
    BY <2>2, <2>3
<1>12. \A t \in 1 .. size : t # s => (OnFreeList(t)' <=> OnFreeList(t))
  <2> SUFFICES ASSUME NEW t \in 1 .. size, t # s PROVE OnFreeList(t)' <=> OnFreeList(t)
    OBVIOUS
  <2>1. ASSUME OnFreeList(t)' PROVE OnFreeList(t)
    <3>1. PICK i \in 1 .. Len(freeSlots') : freeSlots'[i] = t
      BY <2>1 DEF OnFreeList
    <3>2. i \in 1 .. n /\ freeSlots[i] = t
      BY <1>1, <1>10, <3>1
    <3> QED
      BY <3>2 DEF OnFreeList
  <2>2. ASSUME OnFreeList(t) PROVE OnFreeList(t)'
    <3>1. PICK i \in 1 .. n : freeSlots[i] = t
      BY <2>2 DEF OnFreeList
    <3>2. freeSlots # << >> /\ i # n
      BY <1>1, <1>4, <3>1
    <3>3. i \in 1 .. Len(freeSlots')
      BY <1>1, <1>10, <3>1, <3>2
    <3> QED
      BY <1>10, <3>1, <3>3 DEF OnFreeList
  <2> QED
    BY <2>1, <2>2
<1>13. \A t \in 1 .. maxSlot : t # s => (Idle(t)' <=> Idle(t))
  BY <1>5 DEF Idle
<1>14. ~Idle(s)'
  BY <1>2, <1>5 DEF Idle
<1>15. TypeOK'
  BY Zenon, <1>1, <1>3, <1>6, <1>9, <1>10 DEF TypeOK
<1>16. FreeListSound'
  <2>1. \A i \in 1 .. Len(freeSlots') : i \in 1 .. n /\ freeSlots'[i] # s
    BY <1>1, <1>10, <1>11 DEF OnFreeList
  <2>2. \A i \in 1 .. n : freeSlots[i] \in 1 .. size /\ freeSlots[i] \in 1 .. maxSlot /\
          Idle(freeSlots[i])
    BY <1>1 DEF IInv, FreeListSound
  <2>3. \A t \in 1 .. size : t \in 1 .. size'
    BY <1>1, <1>9
  <2>4. ASSUME NEW i \in 1 .. Len(freeSlots')
        PROVE  (freeSlots[i] \in 1 .. size /\ Idle(freeSlots[i]))'
    <3>1. PICK t : t = freeSlots[i]
      OBVIOUS
    <3>2. t \in 1 .. size /\ t \in 1 .. maxSlot /\ Idle(t) /\ t # s /\ freeSlots'[i] = t
      BY <1>10, <2>1, <2>2, <3>1
    <3> QED
      BY <1>13, <2>3, <3>2 DEF Idle
  <2>5. \A i, j \in 1 .. Len(freeSlots') : freeSlots'[i] = freeSlots'[j] => i = j
    BY <1>10, <2>1 DEF IInv, FreeListSound
  <2> QED
    BY <2>4, <2>5 DEF FreeListSound
<1>17. NoSlotLost' /\ Unmade'
  <2>1. ASSUME NEW t \in 1 .. size', Idle(t)'
        PROVE  OnFreeList(t)' \/ slots'[t].generation = kMaxGeneration
    <3>1. t # s
      BY <1>14, <2>1
    <3>2. t \in 1 .. size
      BY <1>9, <3>1
    <3>3. t \in 1 .. maxSlot
      BY <1>1, <3>2
    <3>4. Idle(t) /\ slots'[t] = slots[t]
      BY <1>5, <1>13, <2>1, <3>1, <3>3
    <3> QED
      BY <1>12, <3>1, <3>2, <3>4 DEF IInv, NoSlotLost
  <2>2. Unmade'
    BY <1>1, <1>5, <1>9 DEF IInv, Unmade
  <2> QED
    BY <2>1, <2>2 DEF NoSlotLost
<1>18. \A t \in 1 .. maxSlot : slots'[t].generation = slots[t].generation
  BY <1>3, <1>5
<1>19. Owned'
  <2>1. \A t \in 1 .. maxSlot : ValueOf(t)' = ValueOf(t)
    BY <1>18 DEF ValueOf
  <2> SUFFICES ASSUME NEW t \in 1 .. size', ~Idle(t)' PROVE ValueOf(t)' \in returned'
    BY DEF Owned
  <2>2. CASE t = s
    BY <1>2, <1>3, <2>1, <2>2
  <2>3. CASE t # s
    <3>1. t \in 1 .. size /\ t \in 1 .. maxSlot
      <4>1. t \in 1 .. size
        BY <1>9, <2>3
      <4> QED
        BY <1>1, <4>1
    <3> QED
      BY <1>3, <1>13, <2>1, <2>3, <3>1 DEF IInv, Owned
  <2> QED
    BY <2>2, <2>3
<1>20. Behind'
  <2> SUFFICES ASSUME NEW w \in returned'
               PROVE  /\ w = Encode(Magic, DecodeGeneration(w), DecodeSlot(w))
                      /\ DecodeSlot(w) \in 1 .. size'
                      /\ DecodeGeneration(w) \in 1 .. slots'[DecodeSlot(w)].generation
                      /\ OnFreeList(DecodeSlot(w))' =>
                            DecodeGeneration(w) < slots'[DecodeSlot(w)].generation
    BY DEF Behind
  <2>1. CASE w = v
    BY <1>1, <1>2, <1>5, <1>6, <1>7, <1>9, <1>11, <1>18, <2>1
  <2>2. CASE w \in returned
    <3>1. /\ w = Encode(Magic, DecodeGeneration(w), DecodeSlot(w))
          /\ DecodeSlot(w) \in 1 .. size
          /\ DecodeGeneration(w) \in 1 .. slots[DecodeSlot(w)].generation
          /\ OnFreeList(DecodeSlot(w)) =>
                DecodeGeneration(w) < slots[DecodeSlot(w)].generation
      BY <2>2 DEF IInv, Behind
    <3>2. DecodeSlot(w) \in 1 .. maxSlot /\ DecodeSlot(w) \in 1 .. size'
      BY <1>1, <1>9, <3>1
    <3> QED
      BY <1>11, <1>12, <1>18, <3>1, <3>2
  <2> QED
    BY <1>3, <2>1, <2>2
<1>21. ClosedStaysClosed'
  <2> SUFFICES ASSUME NEW w \in dead, FindSlot(w)' # 0 PROVE Idle(FindSlot(w))'
    BY <1>3 DEF ClosedStaysClosed
  <2>0. PICK t : t = DecodeSlot(w)
    OBVIOUS
  <2>1. /\ FindSlot(w)' = t /\ w # 0 /\ DecodeMagic(w) = Magic /\ t \in 1 .. size'
        /\ slots'[t].generation = DecodeGeneration(w)
    BY <2>0 DEF FindSlot
  <2>2. /\ t \in 1 .. size /\ t \in 1 .. maxSlot
        /\ OnFreeList(t) => DecodeGeneration(w) < slots[t].generation
        /\ DecodeGeneration(w) \in 1 .. slots[t].generation
    BY <1>1, <2>0 DEF IInv, Behind
  <2>3. slots[t].generation \in Nat /\ slots[t].generation = DecodeGeneration(w)
    BY <1>1, <1>18, <2>1, <2>2 DEF Slot
  <2>4. t # s
    BY <1>1, <1>2, <2>2, <2>3
  <2>5. FindSlot(w) = t
    BY <2>0, <2>1, <2>2, <2>3 DEF FindSlot
  <2>6. Idle(t)
    BY <1>1, <2>2, <2>5 DEF IInv, ClosedStaysClosed
  <2> QED
    BY <1>13, <2>1, <2>2, <2>4, <2>6
<1>22. OneOwner'
  BY <1>5 DEF IInv, OneOwner
<1>23. IInv'
  BY <1>22, <1>15, <1>16, <1>17, <1>19, <1>20, <1>21 DEF IInv
<1>24. ValueOf(s)' = v /\ FindSlot(v)' = s
  <2>1. ValueOf(s)' = v
    BY <1>2, <1>7, <1>18 DEF ValueOf
  <2> QED
    BY <1>2, <1>6, <1>9, <1>18, <2>1 DEF FindSlot
<1> QED
  BY <1>8, <1>13, <1>23, <1>24

(* Free and Release. *)
LEMMA RecycleKeepsIInv ==
    ASSUME IInv, NEW s \in 1 .. size, ~Idle(s), NEW v, v = ValueOf(s),
           NEW r \in Slot, r.generation = slots[s].generation, ~r.live, ~r.reserved,
           Recycle(s, r), dead' = dead \cup {v}, UNCHANGED <<size, returned>>
    PROVE  IInv'
<1> DEFINE n == Len(freeSlots)
           pushed == freeSlots' = Append(freeSlots, s)
<1>1. /\ slots \in [1 .. maxSlot -> Slot] /\ size \in 0 .. maxSlot /\ maxSlot \in Nat
      /\ freeSlots \in Seq(1 .. maxSlot) /\ returned \subseteq Nat /\ dead \subseteq returned
      /\ n \in Nat /\ kMaxGeneration \in Nat /\ kMaxGeneration > 0 /\ s \in 1 .. maxSlot
  BY SpanAssumption DEF IInv, TypeOK, kMaxGeneration
<1>2. ~OnFreeList(s)
  BY DEF IInv, FreeListSound, OnFreeList
<1>3. v \in returned
  BY DEF IInv, Owned
<1>4. PICK g : g = slots[s].generation
  OBVIOUS
<1>5. g \in 1 .. kMaxGeneration /\
        \A t \in 1 .. maxSlot : slots[t].generation \in 1 .. kMaxGeneration
  BY <1>1, <1>4 DEF Slot
<1>6. PICK h \in 1 .. kMaxGeneration :
         /\ slots' = [slots EXCEPT ![s] = [r EXCEPT !.generation = h]]
         /\ g <= h
         /\ \/ g < h /\ freeSlots' = Append(freeSlots, s)
            \/ h = kMaxGeneration /\ freeSlots' = freeSlots
  <2>1. CASE /\ g < kMaxGeneration
             /\ slots' = [slots EXCEPT ![s] = [r EXCEPT !.generation = @ + 1]]
             /\ freeSlots' = Append(freeSlots, s)
    <3>1. g + 1 \in 1 .. kMaxGeneration /\ g < g + 1
      BY <1>1, <1>5, <2>1
    <3>2. [r EXCEPT !.generation = @ + 1] = [r EXCEPT !.generation = g + 1]
      BY <1>4 DEF Slot
    <3>3. g <= g + 1
      BY <1>5
    <3> USE <3>1
    <3> WITNESS g + 1 \in 1 .. kMaxGeneration
    <3> QED
      BY Zenon, <2>1, <3>1, <3>2, <3>3
  <2>2. CASE /\ slots' = [slots EXCEPT ![s] = [r EXCEPT !.generation = kMaxGeneration]]
             /\ freeSlots' = freeSlots
    <3>1. kMaxGeneration \in 1 .. kMaxGeneration /\ g <= kMaxGeneration
      BY <1>1, <1>5
    <3> USE <3>1
    <3> WITNESS kMaxGeneration \in 1 .. kMaxGeneration
    <3> QED
      BY <2>2, <3>1
  <2> QED
    BY <1>4, <2>1, <2>2 DEF Recycle
<1>7. /\ \A t \in 1 .. maxSlot : t # s => slots'[t] = slots[t]
      /\ slots'[s].generation = h /\ ~slots'[s].live /\ ~slots'[s].reserved
      /\ slots' \in [1 .. maxSlot -> Slot]
  BY Zenon, <1>1, <1>6 DEF Slot
<1>8. /\ freeSlots' \in Seq(1 .. maxSlot)
      /\ \A i \in 1 .. Len(freeSlots') :
            \/ i \in 1 .. n /\ freeSlots'[i] = freeSlots[i]
            \/ i = n + 1 /\ freeSlots'[i] = s
      /\ \A i \in 1 .. n : i \in 1 .. Len(freeSlots') /\ freeSlots'[i] = freeSlots[i]
  <2>1. CASE freeSlots' = freeSlots
    BY <1>1, <2>1
  <2>2. CASE freeSlots' = Append(freeSlots, s)
    BY <1>1, <2>2, AppendedFacts
  <2> QED
    BY <1>6, <2>1, <2>2
<1>9. \A t \in 1 .. maxSlot : t # s => (OnFreeList(t)' <=> OnFreeList(t))
  BY <1>8 DEF OnFreeList
<1>10. Idle(s)' /\ \A t \in 1 .. maxSlot : t # s => (Idle(t)' <=> Idle(t))
  BY <1>7 DEF Idle
<1>11. TypeOK'
  BY Zenon, <1>1, <1>3, <1>7, <1>8 DEF TypeOK
<1>12. FreeListSound'
  <2>1. ASSUME NEW i \in 1 .. Len(freeSlots')
        PROVE  (freeSlots[i] \in 1 .. size /\ Idle(freeSlots[i]))'
    <3>1. PICK t : t = freeSlots'[i]
      OBVIOUS
    <3>2. t \in 1 .. size /\ (t # s => Idle(t))
      BY <1>8, <3>1 DEF IInv, FreeListSound
    <3>3. t \in 1 .. maxSlot
      BY <1>1, <3>2
    <3> QED
      BY <1>10, <3>1, <3>2, <3>3 DEF Idle
  <2>2. ASSUME NEW i \in 1 .. Len(freeSlots'), NEW j \in 1 .. Len(freeSlots'),
               freeSlots'[i] = freeSlots'[j]
        PROVE  i = j
    BY <1>2, <1>8, <2>2 DEF IInv, FreeListSound, OnFreeList
  <2> QED
    BY <2>1, <2>2 DEF FreeListSound
<1>13. NoSlotLost'
  <2> SUFFICES ASSUME NEW t \in 1 .. size, Idle(t)'
               PROVE  OnFreeList(t)' \/ slots'[t].generation = kMaxGeneration
    BY DEF NoSlotLost
  <2>1. CASE t # s
    <3>1. t \in 1 .. maxSlot
      BY <1>1
    <3> QED
      BY <1>7, <1>9, <1>10, <2>1, <3>1 DEF IInv, NoSlotLost
  <2>2. CASE t = s /\ freeSlots' = freeSlots
    BY <1>6, <1>7, <2>2, LenProperties, AppendProperties, <1>1
  <2>3. CASE t = s /\ freeSlots' = Append(freeSlots, s)
    <3>1. n + 1 \in 1 .. Len(freeSlots') /\ freeSlots'[n + 1] = s
      BY <1>1, <2>3, AppendProperties
    <3> QED
      BY <2>3, <3>1 DEF OnFreeList
  <2> QED
    BY <1>6, <2>1, <2>2, <2>3
<1>14. Unmade' /\ Owned'
  <2>1. Unmade'
    BY <1>1, <1>7 DEF IInv, Unmade
  <2>2. ASSUME NEW t \in 1 .. size, ~Idle(t)' PROVE ValueOf(t)' \in returned'
    <3>1. t \in 1 .. maxSlot /\ t # s
      BY <1>1, <1>10, <2>2
    <3> QED
      BY <1>7, <1>10, <2>2, <3>1 DEF IInv, Owned, ValueOf
  <2> QED
    BY <2>1, <2>2 DEF Owned
<1>15. Behind'
  <2> SUFFICES ASSUME NEW w \in returned
               PROVE  /\ w = Encode(Magic, DecodeGeneration(w), DecodeSlot(w))
                      /\ DecodeSlot(w) \in 1 .. size
                      /\ DecodeGeneration(w) \in 1 .. slots'[DecodeSlot(w)].generation
                      /\ OnFreeList(DecodeSlot(w))' =>
                            DecodeGeneration(w) < slots'[DecodeSlot(w)].generation
    BY DEF Behind
  <2>1. PICK t : t = DecodeSlot(w)
    OBVIOUS
  <2>2. PICK k : k = DecodeGeneration(w)
    OBVIOUS
  <2>3. /\ w = Encode(Magic, k, t) /\ t \in 1 .. size /\ k \in 1 .. slots[t].generation
        /\ OnFreeList(t) => k < slots[t].generation
    BY <2>1, <2>2 DEF IInv, Behind
  <2>4. t \in 1 .. maxSlot
    BY <1>1, <2>3
  <2>5. k \in 1 .. slots'[t].generation /\ (OnFreeList(t)' => k < slots'[t].generation)
    <3>1. CASE t # s
      BY <1>7, <1>9, <2>3, <2>4, <3>1
    <3>2. CASE t = s
      <4>1. k \in 1 .. g /\ slots'[t].generation = h
        BY <1>4, <1>7, <2>3, <3>2
      <4>2. k \in 1 .. h
        BY <1>5, <1>6, <4>1
      <4>3. OnFreeList(s)' => g < h
        BY <1>2, <1>6 DEF OnFreeList
      <4> QED
        BY <1>5, <1>6, <3>2, <4>1, <4>2, <4>3
    <3> QED
      BY <3>1, <3>2
  <2> QED
    BY <2>1, <2>2, <2>3, <2>5
<1>16. ClosedStaysClosed'
  <2> SUFFICES ASSUME NEW w \in dead \cup {v}, FindSlot(w)' # 0
               PROVE  Idle(FindSlot(w))'
    BY DEF ClosedStaysClosed
  <2>1. PICK t : t = DecodeSlot(w)
    OBVIOUS
  <2>2. /\ FindSlot(w)' = t /\ w # 0 /\ DecodeMagic(w) = Magic /\ t \in 1 .. size
        /\ slots'[t].generation = DecodeGeneration(w)
    BY <2>1 DEF FindSlot
  <2>3. t \in 1 .. maxSlot
    BY <1>1, <2>2
  <2>4. CASE t = s
    BY <1>10, <2>2, <2>4
  <2>5. CASE t # s
    <3>1. w # v
      <4>1. DecodeSlot(v) = s
        BY <1>1, <1>4, <1>5, DecodeOfEncode DEF ValueOf
      <4> QED
        BY <2>1, <2>5, <4>1
    <3>2. FindSlot(w) = t /\ t # 0
      BY <1>1, <1>7, <2>1, <2>2, <2>3, <2>5 DEF FindSlot
    <3>3. Idle(t)
      BY <3>1, <3>2 DEF IInv, ClosedStaysClosed
    <3> QED
      BY <1>10, <2>2, <2>3, <2>5, <3>3
  <2> QED
    BY <2>4, <2>5
<1>17. OneOwner'
  BY <1>7 DEF IInv, OneOwner
<1> QED
  BY <1>11, <1>12, <1>13, <1>14, <1>15, <1>16, <1>17 DEF IInv

LEMMA InstallKeepsIInv ==
    ASSUME IInv, NEW v \in returned \cup Foreign, NEW p \in Payload, Install(v, p)
    PROVE  IInv' /\ \A t \in 1 .. maxSlot : Idle(t)' <=> Idle(t)
<1>1. PICK s : s = FindSlot(v)
  OBVIOUS
<1>2. /\ s # 0 /\ slots[s].reserved
      /\ slots' = [slots EXCEPT ![s].reserved = FALSE, ![s].payload = p, ![s].live = TRUE]
      /\ UNCHANGED <<size, freeSlots, returned, dead>>
  BY <1>1 DEF Install
<1>3. /\ slots \in [1 .. maxSlot -> Slot] /\ size \in 0 .. maxSlot /\ maxSlot \in Nat
      /\ s \in 1 .. size
  BY <1>1, <1>2, FindFacts, SpanAssumption DEF IInv, TypeOK
<1>4. s \in 1 .. maxSlot
  BY <1>3
<1>5. /\ \A t \in 1 .. maxSlot : t # s => slots'[t] = slots[t]
      /\ \A t \in 1 .. maxSlot : slots'[t].generation = slots[t].generation
      /\ slots'[s].live /\ slots' \in [1 .. maxSlot -> Slot]
  <2>1. PICK r \in Slot : r = slots[s]
    BY <1>3, <1>4
  <2>2. PICK n : n = [r EXCEPT !.reserved = FALSE, !.payload = p, !.live = TRUE]
    OBVIOUS
  <2>3. n \in Slot /\ n.live /\ n.generation = r.generation
    BY Zenon, <2>1, <2>2 DEF Slot
  <2>4. slots' = [slots EXCEPT ![s] = n]
    BY Zenon, <1>2, <2>1, <2>2
  <2> QED
    BY <1>3, <1>4, <2>1, <2>3, <2>4
<1>6. \A t \in 1 .. maxSlot : Idle(t)' <=> Idle(t)
  BY <1>2, <1>4, <1>5 DEF Idle
<1>7. \A t \in 1 .. size : t \in 1 .. maxSlot
  BY <1>3
<1>8. \A t : OnFreeList(t)' <=> OnFreeList(t)
  BY <1>2 DEF OnFreeList
<1>9. \A w : FindSlot(w)' = FindSlot(w)
  BY <1>2, <1>5, <1>7 DEF FindSlot
<1>10. TypeOK' /\ Unmade'
  BY <1>2, <1>3, <1>5 DEF IInv, TypeOK, Unmade
<1>11. FreeListSound'
  <2>1. ASSUME NEW i \in 1 .. Len(freeSlots)
        PROVE  (freeSlots[i] \in 1 .. size /\ Idle(freeSlots[i]))'
    <3>1. PICK t : t = freeSlots[i]
      OBVIOUS
    <3>2. t \in 1 .. size /\ Idle(t) /\ freeSlots'[i] = t /\ size' = size
      BY <1>2, <3>1 DEF IInv, FreeListSound
    <3>3. Idle(t)'
      BY <1>6, <1>7, <3>2
    <3> QED
      BY <3>2, <3>3 DEF Idle
  <2> QED
    BY <1>2, <2>1 DEF IInv, FreeListSound
<1>12. NoSlotLost'
  BY <1>2, <1>5, <1>6, <1>7, <1>8 DEF IInv, NoSlotLost
<1>13. Owned'
  BY <1>2, <1>5, <1>6, <1>7 DEF IInv, Owned, ValueOf
<1>14. Behind'
  BY <1>2, <1>5, <1>7, <1>8 DEF IInv, Behind
<1>15. ClosedStaysClosed'
  <2> SUFFICES ASSUME NEW w \in dead, FindSlot(w)' # 0 PROVE Idle(FindSlot(w))'
    BY <1>2 DEF ClosedStaysClosed
  <2>1. PICK t : t = FindSlot(w)
    OBVIOUS
  <2>2. t # 0 /\ Idle(t) /\ FindSlot(w)' = t /\ t \in 1 .. size
    BY <1>9, <2>1 DEF IInv, ClosedStaysClosed, FindSlot
  <2>3. Idle(t)'
    BY <1>6, <1>7, <2>2
  <2> QED
    BY <2>2, <2>3 DEF Idle
<1>16. OneOwner'
  <2>1. ~slots'[s].reserved
    BY <1>2, <1>3, <1>4 DEF Slot
  <2> QED
    BY <1>5, <2>1 DEF IInv, OneOwner
<1> QED
  BY <1>6, <1>10, <1>11, <1>12, <1>13, <1>14, <1>15, <1>16 DEF IInv

(* What a step does to the slots, and that it keeps the invariant. *)
FreshStep ==
    \A s \in 1 .. maxSlot :
        Idle(s) /\ ~Idle(s)' => ValueOf(s)' \notin returned /\ FindSlot(ValueOf(s))' = s

LEMMA NextKeepsIInv ==
    ASSUME IInv, [Next]_vars
    PROVE  IInv' /\ (FreshStep \/ UNCHANGED vars)
<1>1. slots \in [1 .. maxSlot -> Slot]
  BY DEF IInv, TypeOK
<1>2. CASE \E p \in Payload : Allocate(p)
  <2>1. PICK p \in Payload : Allocate(p)
    BY <1>2
  <2>2. PICK s : s = TakeSlot
    OBVIOUS
  <2>3. PICK v : v = ValueOf(s)
    OBVIOUS
  <2>4. PICK r : r = [slots[s] EXCEPT !.payload = p, !.live = TRUE]
    OBVIOUS
  <2>5. Take(s, r) /\ s \in 1 .. maxSlot /\ Idle(s)
    BY <2>1, <2>2, <2>4, TakeSlotFacts DEF Allocate, Take
  <2>6. r \in Slot /\ r.generation = slots[s].generation /\ r.live /\ ~r.reserved
    BY Zenon, <1>1, <2>4, <2>5 DEF Slot, Idle
  <2> QED
    BY <2>2, <2>3, <2>5, <2>6, TakeKeepsIInv DEF FreshStep
<1>3. CASE Reserve
  <2>2. PICK s : s = TakeSlot
    OBVIOUS
  <2>3. PICK v : v = ValueOf(s)
    OBVIOUS
  <2>4. PICK r : r = [slots[s] EXCEPT !.reserved = TRUE]
    BY Zenon
  <2>5. Take(s, r) /\ s \in 1 .. maxSlot /\ Idle(s)
    BY <1>3, <2>2, <2>4, TakeSlotFacts DEF Reserve, Take
  <2>6. r \in Slot /\ r.generation = slots[s].generation /\ r.reserved /\ ~r.live
    BY Zenon, <1>1, <2>4, <2>5 DEF Slot, Idle
  <2> QED
    BY <2>2, <2>3, <2>5, <2>6, TakeKeepsIInv DEF FreshStep
<1>4. CASE \E v \in returned \cup Foreign, p \in Payload : Install(v, p)
  BY <1>4, InstallKeepsIInv DEF FreshStep
<1>5. ASSUME NEW v \in returned \cup Foreign, Release(v) \/ Free(v)
      PROVE  IInv' /\ FreshStep
  <2>1. PICK s : s = FindSlot(v)
    OBVIOUS
  <2>2. /\ s # 0 /\ ~Idle(s) /\ dead' = dead \cup {v} /\ UNCHANGED <<size, returned>>
    BY <1>5, <2>1 DEF Release, Free, Idle
  <2>3. s \in 1 .. size /\ v = ValueOf(s)
    BY <2>1, <2>2, FindFacts
  <2>4. s \in 1 .. maxSlot
    BY <2>3, SpanAssumption DEF IInv, TypeOK
  <2>5. PICK r \in Slot : /\ r.generation = slots[s].generation /\ ~r.live /\ ~r.reserved
                          /\ Recycle(s, r)
    <3>1. CASE Release(v)
      <4>1. Recycle(s, [slots[s] EXCEPT !.reserved = FALSE]) /\ slots[s].reserved
        BY <2>1, <3>1 DEF Release
      <4>2. ~slots[s].live
        BY <2>4, <4>1 DEF IInv, OneOwner
      <4> QED
        BY Zenon, <1>1, <2>4, <4>1, <4>2 DEF Slot
    <3>2. CASE Free(v)
      <4>1. /\ Recycle(s, [slots[s] EXCEPT !.payload = NoPayload, !.live = FALSE])
            /\ slots[s].live
        BY <2>1, <3>2 DEF Free
      <4>2. ~slots[s].reserved
        BY <2>4, <4>1 DEF IInv, OneOwner
      <4> QED
        BY Zenon, <1>1, <2>4, <4>1, <4>2 DEF Slot
    <3> QED
      BY <1>5, <3>1, <3>2
  <2>6. IInv'
    BY <2>2, <2>3, <2>5, RecycleKeepsIInv
  <2>7. \A t \in 1 .. maxSlot : Idle(t) => Idle(t)'
    BY Zenon, <1>1, <2>4, <2>5 DEF Recycle, Idle, Slot
  <2> QED
    BY <2>6, <2>7 DEF FreshStep
<1>6. CASE UNCHANGED vars
  BY <1>6 DEF vars, IInv, TypeOK, FreeListSound, NoSlotLost, ClosedStaysClosed, Unmade,
              OneOwner, Owned, Behind, Idle, OnFreeList, FindSlot, ValueOf
<1> QED
  BY <1>2, <1>3, <1>4, <1>5, <1>6 DEF Next

(* Every reachable state satisfies the inductive invariant. *)
THEOREM IInvHolds == Spec => []IInv
<1>1. Init => IInv
  <2> SUFFICES ASSUME Init PROVE IInv
    OBVIOUS
  <2>1. /\ kMaxGeneration \in Nat /\ kMaxGeneration >= 1 /\ maxSlot \in Nat
        /\ NewSlot \in Slot
    BY SpanAssumption DEF kMaxGeneration, NewSlot, Slot
  <2>2. TypeOK
    BY <2>1, EmptySeq DEF Init, TypeOK
  <2>3. Len(freeSlots) = 0 /\ size = 0 /\ returned = {} /\ dead = {}
        /\ \A s \in 1 .. maxSlot : slots[s] = NewSlot
    BY EmptySeq DEF Init
  <2>4. FreeListSound /\ NoSlotLost /\ Owned
    BY <2>3 DEF FreeListSound, NoSlotLost, Owned
  <2>5. ClosedStaysClosed /\ Behind
    BY <2>3 DEF ClosedStaysClosed, Behind
  <2>6. Unmade
    BY <2>3 DEF Unmade
  <2>7. OneOwner
    <3>1. ~NewSlot.live
      BY DEF NewSlot
    <3> QED
      BY <2>3, <3>1 DEF OneOwner
  <2> QED
    BY <2>2, <2>4, <2>5, <2>6, <2>7 DEF IInv
<1>2. IInv /\ [Next]_vars => IInv'
  BY NextKeepsIInv
<1> QED
  BY <1>1, <1>2, PTL DEF Spec

(* Every variable keeps its type: a generation never leaves its 24 bits,   *)
(* and the table never grows past maxSlot.                                 *)
THEOREM TypesHold == Spec => []TypeOK
<1>1. IInv => TypeOK
  BY DEF IInv
<1> QED
  BY <1>1, IInvHolds, PTL

(* A handle that was closed is never resolved, filled or closed again,     *)
(* however often Recycle gives its slot to others.                         *)
THEOREM ClosedHandlesStayClosed == Spec => []ClosedStaysClosed
<1>1. IInv => ClosedStaysClosed
  BY DEF IInv
<1> QED
  BY <1>1, IInvHolds, PTL

(* TakeSlot never takes a slot from an owner, nor one slot twice.          *)
THEOREM SlotsHaveOneOwner == Spec => []FreeListSound
<1>1. IInv => FreeListSound
  BY DEF IInv
<1> QED
  BY <1>1, IInvHolds, PTL

(* Recycle loses no slot that has generations left.                        *)
THEOREM SlotsAreKept == Spec => []NoSlotLost
<1>1. IInv => NoSlotLost
  BY DEF IInv
<1> QED
  BY <1>1, IInvHolds, PTL

(* Allocate and Reserve give out values that were never given out before,  *)
(* and that find the slot they were given out for.                         *)
THEOREM FreshValues == Spec => ValuesAreFresh
<1>1. IInv /\ [Next]_vars =>
        [\A s \in 1 .. maxSlot :
            Idle(s) /\ ~Idle(s)' =>
                /\ ValueOf(s)' \notin returned
                /\ FindSlot(ValueOf(s))' = s]_vars
  BY NextKeepsIInv DEF FreshStep
<1> QED
  BY <1>1, IInvHolds, PTL DEF Spec, ValuesAreFresh
=============================================================================
