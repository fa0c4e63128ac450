---------------------------- MODULE HandleTable ----------------------------
(***************************************************************************)
(* abi/HandleTable.h: the table that turns the 64-bit handles of the C     *)
(* interface into payloads.  Every call that changes a slot holds the      *)
(* exclusive lock, so a call is one step.  Callers may pass any value they *)
(* were given, also one that is closed, and values of other tables.        *)
(***************************************************************************)
EXTENDS Naturals, Sequences

CONSTANTS
    Magic,           \* kMagicFile, kMagicVhd, ...
    MagicSpan,       \* 2^kMagicBits
    GenerationSpan,  \* 2^kGenerationBits
    SlotSpan,        \* 2^kSlotBits
    maxSlot,         \* the table's last slot
    Payload,
    NoPayload,       \* the null shared_ptr
    Foreign          \* values that other tables gave out

ASSUME SpanAssumption ==
    /\ MagicSpan \in Nat \ {0} /\ Magic \in 1 .. (MagicSpan - 1)
    /\ GenerationSpan \in Nat /\ GenerationSpan > 1
    /\ SlotSpan \in Nat /\ SlotSpan > 1
    /\ maxSlot \in 1 .. (SlotSpan - 1)
    /\ NoPayload \notin Payload
    /\ \A v \in Foreign : v \in Nat /\ (v \div SlotSpan) \div GenerationSpan < MagicSpan

kMaxGeneration == GenerationSpan - 1

Encode(magic, generation, slot) ==
    (magic * GenerationSpan + generation) * SlotSpan + slot

DecodeMagic(v) == ((v \div SlotSpan) \div GenerationSpan) % MagicSpan

(* Faulty variant: the magic is not masked off. *)
DecodeGeneration_Unmasked(v) == v \div SlotSpan

DecodeGeneration(v) == (v \div SlotSpan) % GenerationSpan
DecodeSlot(v) == v % SlotSpan

VARIABLES
    slots,      \* the vector; from size + 1 on, slots not yet made
    size,
    freeSlots,  \* a stack
    returned,   \* the values that the table gave out
    dead        \* of these, the ones that Free or Release took back

vars == <<slots, size, freeSlots, returned, dead>>

Slot ==
    [payload    : Payload \cup {NoPayload},
     generation : 1 .. kMaxGeneration,
     live       : BOOLEAN,
     reserved   : BOOLEAN]

NewSlot ==
    [payload |-> NoPayload, generation |-> 1, live |-> FALSE, reserved |-> FALSE]

Init ==
    /\ slots = [s \in 1 .. maxSlot |-> NewSlot]
    /\ size = 0
    /\ freeSlots = << >>
    /\ returned = {}
    /\ dead = {}

ValueOf(s) == Encode(Magic, slots[s].generation, s)

(***************************************************************************)
(* Values to slots.                                                        *)
(***************************************************************************)

(* FindSlot, 0 for the null pointer. *)
FindSlot(v) ==
    LET s == DecodeSlot(v)
    IN  IF /\ v # 0
           /\ DecodeMagic(v) = Magic
           /\ s \in 1 .. size
           /\ slots[s].generation = DecodeGeneration(v)
          THEN s
          ELSE 0

Resolve(v) ==
    IF FindSlot(v) # 0 /\ slots[FindSlot(v)].live
      THEN slots[FindSlot(v)].payload
      ELSE NoPayload

(***************************************************************************)
(* Slots are taken and given back.                                         *)
(***************************************************************************)

(* TakeSlot, 0 when the table is full: the caller then gets the value 0    *)
(* and nothing changes.                                                    *)
TakeSlot ==
    IF freeSlots # << >> THEN freeSlots[Len(freeSlots)]
    ELSE IF size < maxSlot THEN size + 1
    ELSE 0

(* The slot that TakeSlot gives becomes r, and its value is handed out. *)
Take(s, r) ==
    /\ s # 0
    /\ slots' = [slots EXCEPT ![s] = r]
    /\ IF freeSlots # << >>
         THEN freeSlots' = SubSeq(freeSlots, 1, Len(freeSlots) - 1) /\ UNCHANGED size
         ELSE size' = size + 1 /\ UNCHANGED freeSlots
    /\ returned' = returned \cup {ValueOf(s)}
    /\ UNCHANGED dead

(* Faulty variant: the generation wraps around. *)
Recycle_Wraps(s, r) ==
    /\ slots' = [slots EXCEPT ![s] =
                    [r EXCEPT !.generation = 1 + (r.generation % kMaxGeneration)]]
    /\ freeSlots' = Append(freeSlots, s)

(* Faulty variant: the slot does not go to the free list. *)
Recycle_Forgets(s, r) ==
    /\ slots' = [slots EXCEPT ![s] =
                    IF r.generation >= kMaxGeneration THEN r
                    ELSE [r EXCEPT !.generation = @ + 1]]
    /\ UNCHANGED freeSlots

(* Recycle of slot s, whose other fields are those of r: the slot retires  *)
(* at the last generation, and also when push_back throws.                 *)
Recycle(s, r) ==
    \/ /\ r.generation < kMaxGeneration
       /\ slots' = [slots EXCEPT ![s] = [r EXCEPT !.generation = @ + 1]]
       /\ freeSlots' = Append(freeSlots, s)
    \/ /\ slots' = [slots EXCEPT ![s] = [r EXCEPT !.generation = kMaxGeneration]]
       /\ UNCHANGED freeSlots

(***************************************************************************)
(* The operations.                                                         *)
(***************************************************************************)
Allocate(p) ==
    Take(TakeSlot, [slots[TakeSlot] EXCEPT !.payload = p, !.live = TRUE])

Reserve == Take(TakeSlot, [slots[TakeSlot] EXCEPT !.reserved = TRUE])

Install(v, p) ==
    LET s == FindSlot(v)
    IN  /\ s # 0
        /\ slots[s].reserved
        /\ slots' = [slots EXCEPT ![s].reserved = FALSE, ![s].payload = p, ![s].live = TRUE]
        /\ UNCHANGED <<size, freeSlots, returned, dead>>

(* Faulty variant: Release of a value that Install has filled. *)
Release_Unchecked(v) ==
    LET s == FindSlot(v)
    IN  /\ s # 0
        /\ Recycle(s, [slots[s] EXCEPT !.reserved = FALSE])
        /\ dead' = dead \cup {v}
        /\ UNCHANGED <<size, returned>>

Release(v) ==
    LET s == FindSlot(v)
    IN  /\ s # 0
        /\ slots[s].reserved
        /\ Recycle(s, [slots[s] EXCEPT !.reserved = FALSE])
        /\ dead' = dead \cup {v}
        /\ UNCHANGED <<size, returned>>

Free(v) ==
    LET s == FindSlot(v)
    IN  /\ s # 0
        /\ slots[s].live
        /\ Recycle(s, [slots[s] EXCEPT !.payload = NoPayload, !.live = FALSE])
        /\ dead' = dead \cup {v}
        /\ UNCHANGED <<size, returned>>

(* Callers pass what they were given, or a value of another table. *)
Next ==
    \/ \E p \in Payload : Allocate(p)
    \/ Reserve
    \/ \E v \in returned \cup Foreign, p \in Payload : Install(v, p)
    \/ \E v \in returned \cup Foreign : Release(v)
    \/ \E v \in returned \cup Foreign : Free(v)

Spec == Init /\ [][Next]_vars

(***************************************************************************)
(* Properties.                                                             *)
(***************************************************************************)

(* Every variable keeps its type; the generation never leaves its bits. *)
TypeOK ==
    /\ slots \in [1 .. maxSlot -> Slot]
    /\ size \in 0 .. maxSlot
    /\ freeSlots \in Seq(1 .. maxSlot)
    /\ returned \subseteq Nat
    /\ dead \subseteq returned

OnFreeList(s) == \E i \in 1 .. Len(freeSlots) : freeSlots[i] = s

Idle(s) == ~slots[s].live /\ ~slots[s].reserved

(* A closed handle never comes back to life: neither Resolve nor Install   *)
(* nor Release takes a value again that was closed or released, however    *)
(* often its slot is used again (Recycle raises the generation, and        *)
(* retires the slot instead of wrapping).                                  *)
ClosedStaysClosed ==
    \A v \in dead : FindSlot(v) # 0 => Idle(FindSlot(v))

(* No two owners of a slot: the free list has no slot twice and none that  *)
(* is live or reserved, so TakeSlot never takes a slot from its owner.     *)
FreeListSound ==
    /\ \A i \in 1 .. Len(freeSlots) : freeSlots[i] \in 1 .. size /\ Idle(freeSlots[i])
    /\ \A i, j \in 1 .. Len(freeSlots) : freeSlots[i] = freeSlots[j] => i = j

(* No slot is lost: one that nobody owns waits on the free list, or has    *)
(* retired at the last generation.                                         *)
NoSlotLost ==
    \A s \in 1 .. size :
        Idle(s) => OnFreeList(s) \/ slots[s].generation = kMaxGeneration

(* A value that Allocate or Reserve gives out was never given out before,  *)
(* and names the slot it was given out for.                                *)
ValuesAreFresh ==
    [][\A s \in 1 .. maxSlot :
          Idle(s) /\ ~Idle(s)' =>
              /\ ValueOf(s)' \notin returned
              /\ FindSlot(ValueOf(s))' = s]_vars
=============================================================================
