------------------------------ MODULE Framing ------------------------------
(***************************************************************************)
(* The framing strategies of crates/flyby-storage/src/framing.rs: where    *)
(* does the next record of a buffer end?  A buffer is a sequence of bytes. *)
(* A strategy is a record with its kind and its parameters.                *)
(***************************************************************************)
EXTENDS Integers, Sequences, FiniteSetsExt, SequencesExt

NeedMore   == -1     \* Ok(None)
FrameError == -2     \* Err(_)

(* The strategies and the parameters their constructors accept.            *)
Framer ==
    [kind : {"fixed"}, recordLen : Nat \ {0}]
        \cup [kind : {"prefixed"}, width : {1, 2, 4}, maxPayload : Nat]
        \cup [kind : {"delimited"}, byte : 0 .. 255, maxLen : Nat \ {0}]
        \cup [kind : {"custom"}]

(* FixedLength: every record has record_len bytes.                         *)
FixedLength(f, buf) == IF Len(buf) >= f.recordLen THEN f.recordLen ELSE NeedMore

(* PrefixWidth::read: the first bytes as a big-endian number.              *)
ReadPrefix(buf, width) ==
    FoldLeft(LAMBDA value, byte : 256 * value + byte, 0, SubSeq(buf, 1, width))

(* LengthPrefixed: header and payload; a length above max_payload is       *)
(* rejected before the payload is waited for.                              *)
LengthPrefixed(f, buf) ==
    IF Len(buf) < f.width THEN NeedMore
    ELSE LET payload == ReadPrefix(buf, f.width) IN
         IF payload > f.maxPayload THEN FrameError
         ELSE IF Len(buf) >= f.width + payload THEN f.width + payload
         ELSE NeedMore

(* Delimiter: the record ends with the first delimiter among the first     *)
(* max_len bytes.                                                          *)
Delimiter(f, buf) ==
    LET scan == {i \in DOMAIN buf : i <= f.maxLen /\ buf[i] = f.byte} IN
    IF scan # {} THEN Min(scan)
    ELSE IF Len(buf) >= f.maxLen THEN FrameError
    ELSE NeedMore

(* Custom: a closure of the caller, here one that believes a length in the *)
(* first byte, zero and more than is buffered included, which the contract *)
(* of Frame forbids and FileSource has to reject.                          *)
Custom(buf) == Head(buf)

NextRecordLen(f, buf) ==
    CASE f.kind = "fixed"     -> FixedLength(f, buf)
      [] f.kind = "prefixed"  -> LengthPrefixed(f, buf)
      [] f.kind = "delimited" -> Delimiter(f, buf)
      [] f.kind = "custom"    -> Custom(buf)
=============================================================================
