------------------------------ MODULE Protocol ------------------------------
(***************************************************************************)
(* network/net/Protocol.hpp: the byte order helpers and the payload of     *)
(* RESOURCE_REPORT, as operators.  An integer is the sequence of its       *)
(* bytes, the most significant first, whatever the host; a host stores     *)
(* them in memory in its own order, which memcpy copies.                   *)
(***************************************************************************)
EXTENDS Integers, Sequences

Byte == 0..255
Host == {"little", "big"}

RESOURCE_REPORT == 1
PONG == 3

Backwards(w) == [i \in 1..Len(w) |-> w[Len(w) + 1 - i]]

\* The memory of an integer, and the integer that a piece of memory holds.
Memory(h, w) == IF h = "big" THEN w ELSE Backwards(w)
Load(h, m) == IF h = "big" THEN m ELSE Backwards(m)

\* b[] gets the bytes of v by shifting, and `out` is loaded from b[].
hostToNet32(h, v) == Load(h, v)

\* b[] is the memory of v, and its bytes are put together by shifting.
netToHost32(h, v) == Memory(h, v)

\* Turn i takes the byte at the shift 56 - 8i and puts it at the shift
\* 8(7 - i), the place it came from.
ByteAt(v, shift) == v[8 - shift \div 8]
PlaceOf(shift) == 8 - shift \div 8
hostToNet64(v) ==
    [k \in 1..8 |-> LET i == CHOOSE j \in 0..7 : PlaceOf(8 * (7 - j)) = k
                    IN  ByteAt(v, 56 - 8 * i)]
netToHost64(v) == hostToNet64(v)

Payload == [ramBytes : [1..8 -> Byte], threads : [1..4 -> Byte]]

encodeResourceReport(h, p) ==
    Memory(h, hostToNet64(p.ramBytes)) \o Memory(h, hostToNet32(h, p.threads))

\* Mutant: the threads are taken as they lie in memory.
decodeThreadsRaw(h, buf) ==
    [ramBytes |-> netToHost64(Load(h, SubSeq(buf, 1, 8))),
     threads  |-> Load(h, SubSeq(buf, 9, 12))]

\* Of a buffer of 12 bytes; any other makes it throw.
decodeResourceReport(h, buf) ==
    [ramBytes |-> netToHost64(Load(h, SubSeq(buf, 1, 8))),
     threads  |-> netToHost32(h, Load(h, SubSeq(buf, 9, 12)))]

\* The length field of sendMessage and recvMessage.
Word(n) == <<n \div 16777216, (n \div 65536) % 256, (n \div 256) % 256, n % 256>>
Value(w) == w[1] * 16777216 + w[2] * 65536 + w[3] * 256 + w[4]

=============================================================================
