----------------------------- MODULE SlotRegion -----------------------------
(***************************************************************************)
(* The bytes behind the shared-memory sink: the layout of a slot and of    *)
(* the region (crates/flyby-memory/src/slot.rs, region.rs) and the whole   *)
(* of SharedMemorySink (lib.rs) on top of it.  SharedMemorySink.tla is the *)
(* abstraction of it that the pipeline is checked with; SinkAsPromised     *)
(* relates the two.                                                        *)
(*                                                                         *)
(* Every method takes &mut self, so that a call is one step; the two       *)
(* threads of the ring are the subject of SpscRing.  A slot that is used   *)
(* again still holds the bytes of an earlier message.  A field of a header *)
(* is one cell of the memory, and so is a byte of a payload.               *)
(***************************************************************************)
EXTENDS Naturals, Sequences, FiniteSets

CONSTANTS
    HeaderSize, CacheLine,
    SlotsOffset,     \* cells of the region's header and of the two counters
    CounterMod,      \* head and tail wrap here (2^64 in the code)
    U32Max, UsizeMax,
    SlotCounts, MaxPayloads,    \* the arguments of new
    Messages,        \* [suspect, sequence, len: encoded_len(), bytes: what encode_into writes]
    MaxWrites        \* bound: messages written after an init

(* is_power_of_two.                                                        *)
IsPowerOfTwo(n) == n \in {2 ^ k : k \in 0 .. n}

(* The counters are wider than a slot count: a power of two that fits the  *)
(* header divides the range of the counters and is smaller.                *)
ASSUME SlotRegionAssumption ==
    /\ HeaderSize = 5 /\ CacheLine \in Nat \ {0} /\ SlotsOffset \in Nat \ {0}
    /\ CounterMod \in Nat \ {0} /\ MaxWrites \in Nat
    /\ U32Max \in Nat /\ UsizeMax \in Nat /\ U32Max <= UsizeMax
    /\ SlotCounts \subseteq Nat /\ MaxPayloads \subseteq Nat
    /\ \A n \in SlotCounts : IsPowerOfTwo(n) /\ n <= U32Max =>
         n \in 1 .. CounterMod - 1 /\ CounterMod % n = 0
    /\ Messages \subseteq [suspect : Nat, sequence : Nat, len : Nat, bytes : Seq(Nat)]

Magic == 7
RegionMagic == 9

VARIABLES
    slotCount, maxPayload, slotSize,
    memory,         \* the mapping, cells 1 .. len
    head, tail, written,
    outcome,        \* result of the last call
    unread          \* history: the messages that were written and not popped

geometry == <<slotCount, maxPayload, slotSize>>
vars == <<geometry, memory, head, tail, written, outcome, unread>>

-----------------------------------------------------------------------------
(* slot.rs                                                                 *)

(* Mutant: the header is forgotten.                                        *)
SlotSizePayloadOnly(max) == {((max + CacheLine - 1) \div CacheLine) * CacheLine}

(* slot_size: header and payload, rounded up to a cache line.              *)
SlotSize(max) ==
    IF HeaderSize + max + CacheLine - 1 > UsizeMax THEN {}
    ELSE {((HeaderSize + max + CacheLine - 1) \div CacheLine) * CacheLine}

(* SlotHeader::new and its cells; the schema and the timestamp are carried *)
(* like the sequence number and left out.                                  *)
SlotHeader(m) ==
    [magic |-> Magic, valid |-> 1, suspect |-> m.suspect, sequence |-> m.sequence,
     payloadLen |-> m.len]

HeaderCells(h) == <<h.magic, h.valid, h.suspect, h.sequence, h.payloadLen>>

(* encode writes over the start of dst and leaves the rest.                *)
Encode(header, payload, dst) ==
    LET cells == HeaderCells(header) \o payload
    IN  IF Len(dst) < Len(cells) THEN {}
        ELSE {cells \o SubSeq(dst, Len(cells) + 1, Len(dst))}

(* Mutant: the payload is taken to fill the slot.                          *)
DecodeWholeSlot(src) ==
    IF src[1] # Magic THEN {}
    ELSE {[suspect |-> src[3], sequence |-> src[4],
           payload |-> SubSeq(src, HeaderSize + 1, Len(src))]}

Decode(src) ==
    IF Len(src) < HeaderSize \/ src[1] # Magic THEN {}
    ELSE IF Len(src) < HeaderSize + src[5] THEN {}
    ELSE {[suspect |-> src[3], sequence |-> src[4],
           payload |-> SubSeq(src, HeaderSize + 1, HeaderSize + src[5])]}

-----------------------------------------------------------------------------
(* region.rs                                                               *)

(* validate_params.                                                        *)
ValidateParams(count, size) ==
    /\ IsPowerOfTwo(count) /\ count <= U32Max
    /\ HeaderSize <= size /\ size <= U32Max /\ size % CacheLine = 0
    /\ count * size + SlotsOffset <= UsizeMax

SlotOffset(i) == SlotsOffset + i * slotSize

(* slot_ref, and what slot_mut changes.                                    *)
SlotRef(i) == SubSeq(memory, SlotOffset(i) + 1, SlotOffset(i) + slotSize)

SlotMut(i, cells) ==
    [c \in DOMAIN memory |->
        IF c - SlotOffset(i) \in 1 .. slotSize THEN cells[c - SlotOffset(i)] ELSE memory[c]]

RegionLen == (head + CounterMod - tail) % CounterMod

(* Region::anonymous: a header in the first cell, zeros behind it.         *)
Anonymous(count, size) ==
    <<RegionMagic>> \o [c \in 1 .. SlotsOffset - 1 + count * size |-> 0]

-----------------------------------------------------------------------------
(* lib.rs                                                                  *)

(* SharedMemorySink::new with parameters it accepts.                       *)
Init ==
    /\ slotCount \in SlotCounts
    /\ maxPayload \in MaxPayloads /\ maxPayload <= U32Max
    /\ slotSize \in SlotSize(maxPayload) /\ ValidateParams(slotCount, slotSize)
    /\ memory = Anonymous(slotCount, slotSize)
    /\ head = 0 /\ tail = 0 /\ written = 0 /\ outcome = "Ok" /\ unread = <<>>

(* Sink::write refuses a message before it looks at the ring.              *)
WriteRefused(m) ==
    /\ \/ m.len > maxPayload /\ outcome' = "Sink"
       \/ m.len <= maxPayload /\ Len(m.bytes) # m.len /\ outcome' = "Encode"
    /\ UNCHANGED <<geometry, memory, head, tail, written, unread>>

WriteFull(m) ==
    /\ m.len <= maxPayload /\ Len(m.bytes) = m.len
    /\ RegionLen = slotCount
    /\ outcome' = "BackPressure"
    /\ UNCHANGED <<geometry, memory, head, tail, written, unread>>

(* Region::push with slot::encode as the filler; an error of the filler    *)
(* leaves the slot uncommitted.                                            *)
WritePushed(m) ==
    LET i == head % slotCount
        filled == Encode(SlotHeader(m), m.bytes, SlotRef(i))
    IN  /\ m.len <= maxPayload /\ Len(m.bytes) = m.len
        /\ RegionLen < slotCount /\ written < MaxWrites
        /\ IF filled = {}
             THEN /\ outcome' = "Encode"
                  /\ UNCHANGED <<memory, head, written, unread>>
             ELSE /\ \E cells \in filled : memory' = SlotMut(i, cells)
                  /\ head' = (head + 1) % CounterMod
                  /\ written' = written + 1 /\ outcome' = "Ok"
                  /\ unread' = Append(unread, m)
        /\ UNCHANGED <<geometry, tail>>

(* SharedMemorySink::pop: the slot is released and keeps its bytes.        *)
Pop ==
    /\ RegionLen > 0
    /\ tail' = (tail + 1) % CounterMod
    /\ outcome' = "Ok" /\ unread' = Tail(unread)
    /\ UNCHANGED <<geometry, memory, head, written>>

(* Lifecycle::init: reset_ring pops what is there; shutdown does nothing.  *)
InitCall ==
    /\ tail' = head /\ written' = 0
    /\ outcome' = "Ok" /\ unread' = <<>>
    /\ UNCHANGED <<geometry, memory, head>>

Next ==
    \/ \E m \in Messages : WriteRefused(m) \/ WriteFull(m) \/ WritePushed(m)
    \/ Pop \/ InitCall

Spec == Init /\ [][Next]_vars

-----------------------------------------------------------------------------
(* Properties                                                              *)

(* The slot of the k-th unread message.                                    *)
UnreadSlot(k) == SlotRef((tail + k - 1) % slotCount)

(* What decode makes of the unread slots, as messages.                     *)
View ==
    [ring |-> [k \in 1 .. RegionLen |->
                 LET d == CHOOSE x \in Decode(UnreadSlot(k)) : TRUE
                 IN  [suspect |-> d.suspect, sequence |-> d.sequence,
                      len |-> Len(d.payload), bytes |-> d.payload]],
     written |-> written]

(* The messages the sink takes.                                            *)
Fitting == {m \in Messages : m.len <= maxPayload /\ Len(m.bytes) = m.len}

(* What new has validated: the slots of the region are found by either     *)
(* counter, and a slot has room for its header and the largest payload.    *)
GeometryOK ==
    /\ slotCount \in 1 .. CounterMod - 1 /\ CounterMod % slotCount = 0
    /\ maxPayload \in Nat /\ slotSize \in Nat
    /\ slotSize % CacheLine = 0 /\ HeaderSize + maxPayload <= slotSize

(* Counters, cells and slots: the region ends with its last slot, nothing  *)
(* is written in front of the slots, and no more is unread than fits.      *)
TypeOK ==
    /\ GeometryOK
    /\ head \in 0 .. CounterMod - 1 /\ tail \in 0 .. CounterMod - 1 /\ written \in Nat
    /\ memory \in Seq(Nat) /\ Len(memory) = SlotsOffset + slotCount * slotSize
    /\ \A c \in 1 .. SlotsOffset : memory[c] = Anonymous(slotCount, slotSize)[c]
    /\ unread \in Seq(Fitting)
    /\ RegionLen <= slotCount /\ Len(unread) = RegionLen

(* Every unread slot decodes to the message that was written into it,      *)
(* whatever longer message it or its neighbour held before.                *)
UnreadDecodes ==
    \A k \in DOMAIN unread :
        Decode(UnreadSlot(k)) = {[suspect |-> unread[k].suspect,
                                  sequence |-> unread[k].sequence,
                                  payload |-> unread[k].bytes]}

Sink == INSTANCE SharedMemorySink WITH SlotCount <- slotCount

KindOf(m) ==
    IF m.len > maxPayload THEN "oversized"
    ELSE IF Len(m.bytes) # m.len THEN "misencoded" ELSE "msg"

Write(m) == WriteRefused(m) \/ WriteFull(m) \/ WritePushed(m)

(* Every call does to the decoded contents of the region what the abstract *)
(* sink says, and answers what it answers.                                 *)
SinkAsPromised ==
    [][/\ \A m \in Messages : Write(m) =>
            /\ outcome' = Sink!WriteResult(View, KindOf(m))
            /\ View' = IF outcome' = "Ok" THEN Sink!Written(View, m) ELSE View
       /\ Pop => View' = Sink!Popped(View)
       /\ InitCall => View' = Sink!ResetRing(View)]_vars

(* The memory and what is in it.                                           *)
SlotInv == TypeOK /\ UnreadDecodes
=============================================================================
