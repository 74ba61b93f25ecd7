---------------------------- MODULE CaptureFile ----------------------------
(***************************************************************************)
(* The classic pcap format of simulator/src/pcap.rs: parse_pcap, load_pcap *)
(* and write_pcap_bytes_ex.                                                *)
(*                                                                         *)
(* A file is a sequence of cells: the six words of the global header, then *)
(* for each packet the four words of its header and the bytes of its data. *)
(* A word has two digits of Base, so that it can be written in either byte *)
(* order.  A file that ends within a word ends within a header, as one     *)
(* that ends behind a word of the header does: the loader does not tell    *)
(* them apart.  A Result is a set, as in FlyScenario.                      *)
(***************************************************************************)
EXTENDS Naturals, FiniteSets, SequencesExt

CONSTANTS
    Base,           \* a word holds the numbers below Base * Base
    NsPerSecond, NsPerMicro

WordMod == Base * Base

(* u32::swap_bytes, which is also how a word of the other order looks.     *)
SwapBytes(w) == (w % Base) * Base + w \div Base

MagicMicros == 1
MagicNanos  == 2

(* What a magic number says about byte order and resolution.               *)
Format(magic) ==
    CASE magic = MagicMicros            -> {[swap |-> FALSE, nanos |-> FALSE]}
      [] magic = SwapBytes(MagicMicros) -> {[swap |-> TRUE,  nanos |-> FALSE]}
      [] magic = MagicNanos             -> {[swap |-> FALSE, nanos |-> TRUE]}
      [] magic = SwapBytes(MagicNanos)  -> {[swap |-> TRUE,  nanos |-> TRUE]}
      [] OTHER                          -> {}

GlobalHeader == 6
PacketHeader == 4

ReadWord(file, i, format) == IF format.swap THEN SwapBytes(file[i]) ELSE file[i]

(* saturating_mul never saturates: a second fits into 32 bits.             *)
Timestamp(sec, frac, format) ==
    sec * NsPerSecond + (IF format.nanos THEN frac ELSE frac * NsPerMicro)

(* Mutant: a packet may have less data than its header says.              *)
DataAtCut(file, first, n) ==
    {SubSeq(file, first, IF first + n - 1 > Len(file) THEN Len(file) ELSE first + n - 1)}

(* The n bytes from a position on, if the file has them.                   *)
DataAt(file, first, n) ==
    IF first + n - 1 > Len(file) THEN {} ELSE {SubSeq(file, first, first + n - 1)}

(* The loop of parse_pcap.  The rest of a file that is too short for the   *)
(* header of a packet is left unread.                                      *)
Packets(file, format) ==
    LET from[i \in 1 .. 2 * WordMod + Len(file)] ==
          IF i + PacketHeader - 1 > Len(file) THEN {<<>>}
          ELSE LET word(k) == ReadWord(file, i + k, format)
                   data == DataAt(file, i + PacketHeader, word(2))
                   ts == Timestamp(word(0), word(1), format)
               IN  IF data = {} THEN {}
                   ELSE {<<[ts |-> ts, data |-> d]>> \o rest :
                            d \in data, rest \in from[i + PacketHeader + word(2)]}
    IN  from[GlobalHeader + 1]

ParsePcap(file) ==
    IF Len(file) < GlobalHeader THEN {}
    ELSE UNION {Packets(file, format) : format \in Format(file[1])}

(* write_pcap_bytes_ex writes words in the machine's order; other          *)
(* recorders write them in the other one, too.                             *)
WritePcap(packets, format) ==
    LET written(w) == IF format.swap THEN SwapBytes(w) ELSE w
        words(ws) == [i \in DOMAIN ws |-> written(ws[i] % WordMod)]
        frac(ts) == IF format.nanos THEN ts % NsPerSecond
                                    ELSE (ts % NsPerSecond) \div NsPerMicro
        record(p) == words(<<p.ts \div NsPerSecond, frac(p.ts), Len(p.data), Len(p.data)>>)
                       \o p.data
    IN  words(<<IF format.nanos THEN MagicNanos ELSE MagicMicros, 2, 0, 0, WordMod - 1, 1>>)
          \o FlattenSeq([i \in DOMAIN packets |-> record(packets[i])])

(* load_pcap: what a source keeps of a capture, its times and sizes.       *)
LoadPcap(file) ==
    {[n \in DOMAIN packets |-> [ts |-> packets[n].ts, size |-> Len(packets[n].data)]] :
        packets \in ParsePcap(file)}

-----------------------------------------------------------------------------
(* run_pcap loads the file again, twice: for the time of the last packet   *)
(* of its source, and for the size of the slots.  A load that fails is     *)
(* taken for a file without packets.                                       *)

(* Mutant: the last packet of the file as it is now.                       *)
LastOfFile(source, loaded) ==
    LET times == UNION {{Last(packets).ts} : packets \in loaded \ {<<>>}}
    IN  Max(times \cup {0})

LastTimestamp(source, loaded) ==
    IF source = <<>> \/ loaded = {} THEN 0
    ELSE (CHOOSE packets \in loaded : TRUE)[Len(source)].ts

LargestPacket(loaded, ifNone, least) ==
    LET sizes == UNION {{packets[i].size : i \in DOMAIN packets} : packets \in loaded}
    IN  Max((IF sizes = {} THEN {ifNone} ELSE sizes) \cup {least})
=============================================================================
