-------------------------- MODULE SharedMemorySink --------------------------
(***************************************************************************)
(* The shared-memory sink of flyby-memory (crates/flyby-memory/src/lib.rs) *)
(* as the pipeline sees it: a value with a bounded queue of messages and a *)
(* counter, and the operations of the traits Lifecycle and Sink on it.     *)
(*                                                                         *)
(* The queue is the abstract one of BoundedFifo, which the ring underneath *)
(* implements (SpscRingProofs).  What distinguishes messages for the sink  *)
(* is whether they fit a slot and whether their encoder keeps its promise: *)
(* the operators take this as the kind of the message.                     *)
(***************************************************************************)
EXTENDS Naturals, Sequences

CONSTANT SlotCount     \* slots of the ring of every sink

ASSUME SlotAssumption == SlotCount \in Nat \ {0}

(* A sink: the unread messages of its ring, and written().                 *)
NewSink == [ring |-> <<>>, written |-> 0]

(* Sink::write: the size check and the encoder come before the ring, so an *)
(* oversized message is refused even when the ring is full.                *)
WriteResult(sink, kind) ==
    CASE kind = "oversized"  -> "Sink"
      [] kind = "misencoded" -> "Encode"
      [] OTHER -> IF Len(sink.ring) = SlotCount THEN "BackPressure" ELSE "Ok"

(* The sink after a write that returned Ok; every other result leaves it   *)
(* alone.                                                                  *)
Written(sink, m) == [ring |-> Append(sink.ring, m), written |-> sink.written + 1]

(* pop: the consumer takes the oldest message.                             *)
Popped(sink) == [sink EXCEPT !.ring = Tail(@)]

(* Mutant: the messages of an earlier session stay in the ring.            *)
ResetRingKeepsUnread(sink) == [sink EXCEPT !.written = 0]

(* Lifecycle::init calls reset_ring: whatever the consumers have not read  *)
(* is popped, and the counter starts again.                                *)
ResetRing(sink) == [ring |-> <<>>, written |-> 0]

(* Lifecycle::shutdown leaves the messages for the consumers and the       *)
(* counter for diagnostics.                                                *)
AfterShutdown(sink) == sink
=============================================================================
