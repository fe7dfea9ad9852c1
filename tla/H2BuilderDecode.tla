-------------------------- MODULE H2BuilderDecode --------------------------
(* The builder's output read back by a reference HPACK decoder.  The     *)
(* decoder is recursive, so it lives apart from H2Builder, which the      *)
(* proofs of H2BuilderProofs use.                                         *)
EXTENDS H2Builder

(* The reference decoder of a header block (RFC 7541 5.1 and 6.2.2, as   *)
(* the parser reads it): an HPACK integer with a 7-bit prefix, and a list *)
(* of literal fields without indexing, each a 0x00 octet, a name and a  *)
(* value, each length-prefixed.  <<-1, -1>> marks a block it refuses.    *)
RECURSIVE ReadCont(_, _, _, _)
ReadCont(b, i, m, acc) ==
    IF i > Len(b) THEN <<-1, i>>
    ELSE IF b[i] >= 128 THEN ReadCont(b, i + 1, m * 128, acc + (b[i] - 128) * m)
    ELSE <<acc + b[i] * m, i + 1>>

ReadInt(b, i) ==
    IF i > Len(b) THEN <<-1, i>>
    ELSE IF b[i] % 128 < 127 THEN <<b[i] % 128, i + 1>>
    ELSE ReadCont(b, i + 1, 1, 127)

RECURSIVE ReadFields(_, _)
ReadFields(b, i) ==
    IF i > Len(b) THEN <<>>
    ELSE IF b[i] # 0 THEN <<<<-1, -1>>>>
    ELSE LET n == ReadInt(b, i + 1)
             v == ReadInt(b, n[2] + n[1])
         IN  IF n[1] < 0 \/ v[1] < 0 \/ v[2] + v[1] - 1 > Len(b)
             THEN <<<<-1, -1>>>>
             ELSE <<<<n[1], v[1]>>>> \o ReadFields(b, v[2] + v[1])

FrameBytes(k) == SubSeq(buf, frames[k].start + 1, FrameEndAt(k))

(* Every HEADERS frame the builder recorded decodes, from the bytes its  *)
(* str and len delimit, to exactly the header fields HEADER was given,  *)
(* in order: the encoder and the frame bookkeeping agree with the        *)
(* decoder the parser under test implements.                             *)
HeadersRoundTrip ==
    \A k \in 1..Len(frames) :
        frames[k].subtype = "HEADERS" => ReadFields(FrameBytes(k), 1) = fields[k]

=============================================================================
