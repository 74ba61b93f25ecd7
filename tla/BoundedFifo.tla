---------------------------- MODULE BoundedFifo ----------------------------
(***************************************************************************)
(* What a single-producer single-consumer ring promises its two users,     *)
(* whatever its counters and slots look like: a lossless, duplicate-free,  *)
(* ordered queue that holds at most Capacity messages.                     *)
(*                                                                         *)
(* The queue is represented by its history: every message the producer has *)
(* published, and every message the consumer has taken.                    *)
(***************************************************************************)
EXTENDS Naturals, Sequences

CONSTANTS
    Capacity,   \* how many messages may be published and not yet taken
    Values      \* the messages

VARIABLES
    sent,       \* messages published by the producer, in order
    got         \* messages taken by the consumer, in order

fifoVars == <<sent, got>>

Init == sent = <<>> /\ got = <<>>

(* The producer publishes v; there must be room for it.                    *)
Enqueue(v) ==
    /\ Len(sent) - Len(got) < Capacity
    /\ sent' = Append(sent, v)
    /\ UNCHANGED got

(* The consumer takes the oldest message it has not taken yet.             *)
Dequeue ==
    /\ Len(got) < Len(sent)
    /\ got' = Append(got, sent[Len(got) + 1])
    /\ UNCHANGED sent

Next == (\E v \in Values : Enqueue(v)) \/ Dequeue

Spec == Init /\ [][Next]_fifoVars
=============================================================================
