---------------------------- MODULE MCSlotRegion ----------------------------
(* SlotRegion for TLC: one and two slots, payloads that fill a slot        *)
(* to the last cell, that are longer than it and that lie about their      *)
(* length.                                                                 *)
EXTENDS SlotRegion

Message(suspect, n, len) ==
    [suspect |-> suspect, sequence |-> n, len |-> len, bytes |-> [i \in 1 .. len |-> n]]

SomeMessages ==
    {Message(0, 1, 0), Message(1, 2, 1), Message(0, 3, 3), Message(0, 4, 4),
     [Message(0, 5, 2) EXCEPT !.len = 1]}
=============================================================================
