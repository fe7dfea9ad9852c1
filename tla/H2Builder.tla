----------------------------- MODULE H2Builder -----------------------------
(***************************************************************************)
(* The HTTP/2 request builder of the parser tests, src/unnamed/part_000:  *)
(* FOR_REQ_H2 / EXPECT_BLOCK_REQ_H2 run H2_BUILDER_INIT and               *)
(* H2_BUILDER_SET_BUF, then a block of HEADERS_FRAME_BEGIN, HEADER,       *)
(* HEADERS_FRAME_END, DATA_FRAME_BEGIN, DATA and DATA_FRAME_END, then     *)
(* H2_BUILDER_RESET_BUF.  HEADER encodes a literal header field without   *)
(* indexing (tfw_h2_encode_header) into frames_str_buf; DATA copies raw   *)
(* bytes; the frame macros record each frame in frames[] and keep         *)
(* frames_total_sz and frames_max_sz.                                     *)
(*                                                                         *)
(* buf is the bytes written through frames_buf_ptr since SET_BUF, so     *)
(* frames_buf_ptr is frames_str_buf + Len(buf).  Header names are bytes   *)
(* 110 ("n"), values 118 ("v"), DATA payload 100 ("d").  A BUG_ON that   *)
(* fires stops the kernel: pc becomes "bug" and nothing follows.         *)
(***************************************************************************)
EXTENDS Integers, Sequences

CONSTANTS
    CAPACITY,    \* sizeof(frames_str_buf), 3 * 1024 in the code
    FRAMES_MAX,  \* ARRAY_SIZE(frames), 2 in the code
    HeaderRecs,  \* the <<name length, value length>> pairs a HEADER may get
    DataSizes,   \* the sizes a DATA may get
    MAX_ITEMS,   \* bound on HEADER / DATA calls in one frame
    MAX_FRAMES   \* bound on frames a block opens (may exceed FRAMES_MAX)

\* Names and values are shorter than this (four continuation octets).
INT_BOUND == 127 + 268435456

ASSUME BuilderAssumption ==
    /\ CAPACITY \in Nat /\ FRAMES_MAX \in Nat
    /\ HeaderRecs \subseteq Nat \X Nat /\ DataSizes \subseteq Nat
    /\ MAX_ITEMS \in Nat /\ MAX_FRAMES \in Nat
    /\ \A h \in HeaderRecs : h[1] < INT_BOUND /\ h[2] < INT_BOUND

VARIABLES
    pc,               \* "idle", "building", "built" or "bug"
    buf,              \* bytes written to frames_str_buf
    frames,           \* frames[0..frames_cnt-1]: [subtype, start, len]
    frames_total_sz,
    frames_max_sz,
    open,             \* the frame macro block open: "NONE", "HEADERS", "DATA"
    frame_sz,         \* the local frame_sz of the open frame
    items,            \* HEADER / DATA calls in the open frame
    opened,           \* frames opened by this block
    fields,           \* the header records HEADER was given, per frame
    cur               \* ... and in the open frame

vars == <<pc, buf, frames, frames_total_sz, frames_max_sz, open, frame_sz,
          items, opened, fields, cur>>

NAME == 110
VALUE == 118
PAYLOAD == 100

\* write_int(v, 0x7F, 0, &hpint): the HPACK integer with a 7-bit prefix
\* (RFC 7541 5.1): a value below 127 in the first octet, else 127 and
\* w = v - 127 in 7-bit groups, least significant first, bit 7 set on all
\* but the last.  The loop of write_int is written out for up to
\* CONT_MAX groups (values below INT_BOUND), the widest the model feeds.
CONT_MAX == 4
Pow128 == <<1, 128, 16384, 2097152>>

\* The number of 7-bit groups of w.
ContLen(w) ==
    IF w < Pow128[2] THEN 1 ELSE IF w < Pow128[3] THEN 2
    ELSE IF w < Pow128[4] THEN 3 ELSE CONT_MAX

ContOctets(w) ==
    [i \in 1..ContLen(w) |->
        ((w \div Pow128[i]) % 128) + (IF i < ContLen(w) THEN 128 ELSE 0)]

WriteInt(v) == IF v < 127 THEN <<v>> ELSE <<127>> \o ContOctets(v - 127)

\* tfw_h2_encode_data: the length as an HPACK integer, then the bytes.
tfw_h2_encode_data(size, byte) ==
    WriteInt(size) \o [i \in 1..size |-> byte]

\* Mutant: the 0x00 representation octet is not written.
tfw_h2_encode_header_no_flag(h) ==
    tfw_h2_encode_data(h[1], NAME) \o tfw_h2_encode_data(h[2], VALUE)

\* tfw_h2_encode_header: the octet 0x00 (literal without indexing, new
\* name), the name, the value.
tfw_h2_encode_header(h) ==
    <<0>> \o tfw_h2_encode_data(h[1], NAME) \o tfw_h2_encode_data(h[2], VALUE)

Init ==
    /\ pc = "idle"
    /\ buf = <<>>
    /\ frames = <<>>
    /\ frames_total_sz = 0
    /\ frames_max_sz = 0
    /\ open = "NONE"
    /\ frame_sz = 0
    /\ items = 0
    /\ opened = 0
    /\ fields = <<>>
    /\ cur = <<>>

\* H2_BUILDER_INIT and H2_BUILDER_SET_BUF: the frame table is emptied and
\* frames_buf_ptr points to the zeroed buffer.
BuilderStart ==
    /\ pc \in {"idle", "built"}
    /\ pc' = "building"
    /\ buf' = <<>>
    /\ frames' = <<>>
    /\ frames_total_sz' = 0
    /\ frames_max_sz' = 0
    /\ opened' = 0
    /\ fields' = <<>>
    /\ UNCHANGED <<open, frame_sz, items, cur>>

\* HEADERS_FRAME_BEGIN / DATA_FRAME_BEGIN: BUG_ON(frames_cnt >= ARRAY_SIZE
\* (frames)), then the subtype is set and frame_sz starts at 0.
FrameBegin(t) ==
    /\ pc = "building" /\ open = "NONE" /\ opened < MAX_FRAMES
    /\ opened' = opened + 1
    /\ IF Len(frames) >= FRAMES_MAX
       THEN pc' = "bug" /\ UNCHANGED <<open, frame_sz, items, cur>>
       ELSE /\ open' = t /\ frame_sz' = 0 /\ items' = 0 /\ cur' = <<>>
            /\ UNCHANGED pc
    /\ UNCHANGED <<buf, frames, frames_total_sz, frames_max_sz, fields>>

\* Mutant: frame_sz counts one byte more than was written (a size that
\* includes the terminating NUL of the string).
Write_size_plus_one(bytes) ==
    /\ buf' = buf \o bytes
    /\ frame_sz' = frame_sz + Len(bytes) + 1
    /\ items' = items + 1
    /\ pc' = IF Len(buf') > CAPACITY THEN "bug" ELSE pc

\* Bytes appended at frames_buf_ptr, then BUG_ON(frames_buf_ptr >
\* frames_str_buf + frames_buf_capacity): the check follows the copy.
Write(bytes) ==
    /\ buf' = buf \o bytes
    /\ frame_sz' = frame_sz + Len(bytes)
    /\ items' = items + 1
    /\ pc' = IF Len(buf') > CAPACITY THEN "bug" ELSE pc

\* HEADER(name, value)
HEADER(h) ==
    /\ pc = "building" /\ open = "HEADERS" /\ items < MAX_ITEMS
    /\ Write(tfw_h2_encode_header(h))
    /\ cur' = Append(cur, h)
    /\ UNCHANGED <<frames, frames_total_sz, frames_max_sz, open, opened, fields>>

\* DATA(data)
DATA(n) ==
    /\ pc = "building" /\ open = "DATA" /\ items < MAX_ITEMS
    /\ Write([i \in 1..n |-> PAYLOAD])
    /\ UNCHANGED <<frames, frames_total_sz, frames_max_sz, open, opened,
                   fields, cur>>

\* Mutant: frames_max_sz takes the size of the last frame, not the max.
FrameEnd_no_max ==
    /\ pc = "building" /\ open # "NONE"
    /\ IF Len(frames) >= FRAMES_MAX
       THEN pc' = "bug" /\ UNCHANGED <<frames, frames_total_sz, frames_max_sz,
                                       open, fields>>
       ELSE /\ frames' = Append(frames, [subtype |-> open,
                                         start |-> Len(buf) - frame_sz,
                                         len |-> frame_sz])
            /\ frames_total_sz' = frames_total_sz + frame_sz
            /\ frames_max_sz' = frame_sz
            /\ fields' = Append(fields, cur)
            /\ open' = "NONE"
            /\ UNCHANGED pc
    /\ UNCHANGED <<buf, frame_sz, items, opened, cur>>

\* HEADERS_FRAME_END / DATA_FRAME_END: the frame starts frame_sz bytes
\* before frames_buf_ptr; the totals are updated and frames_cnt grows.
FrameEnd ==
    /\ pc = "building" /\ open # "NONE"
    /\ IF Len(frames) >= FRAMES_MAX
       THEN pc' = "bug" /\ UNCHANGED <<frames, frames_total_sz, frames_max_sz,
                                       open, fields>>
       ELSE /\ frames' = Append(frames, [subtype |-> open,
                                         start |-> Len(buf) - frame_sz,
                                         len |-> frame_sz])
            /\ frames_total_sz' = frames_total_sz + frame_sz
            /\ frames_max_sz' = IF frame_sz > frames_max_sz THEN frame_sz
                                ELSE frames_max_sz
            /\ fields' = Append(fields, cur)
            /\ open' = "NONE"
            /\ UNCHANGED pc
    /\ UNCHANGED <<buf, frame_sz, items, opened, cur>>

\* H2_BUILDER_RESET_BUF: the block is over, frames_buf_ptr is cleared.
BuilderReset ==
    /\ pc = "building" /\ open = "NONE"
    /\ pc' = "built"
    /\ UNCHANGED <<buf, frames, frames_total_sz, frames_max_sz, open,
                   frame_sz, items, opened, fields, cur>>

Next ==
    \/ BuilderStart
    \/ \E t \in {"HEADERS", "DATA"} : FrameBegin(t)
    \/ \E h \in HeaderRecs : HEADER(h)
    \/ \E n \in DataSizes : DATA(n)
    \/ FrameEnd
    \/ BuilderReset

Spec == Init /\ [][Next]_vars

-----------------------------------------------------------------------------
(* Every variable has its type.                                          *)
TypeOK ==
    /\ pc \in {"idle", "building", "built", "bug"}
    /\ buf \in Seq(0..255)
    /\ frames \in Seq([subtype : {"HEADERS", "DATA"}, start : Nat, len : Nat])
    /\ frames_total_sz \in Nat /\ frames_max_sz \in Nat
    /\ open \in {"NONE", "HEADERS", "DATA"}
    /\ frame_sz \in Nat /\ items \in Nat /\ opened \in Nat
    /\ fields \in Seq(Seq(HeaderRecs)) /\ cur \in Seq(HeaderRecs)

FrameEndAt(k) == frames[k].start + frames[k].len

(* The frame table describes the buffer the way the harness reads it:   *)
(* the frames lie back to back from the start of frames_str_buf, the     *)
(* buffer holds them and the open frame and nothing else, frames_total_sz *)
(* (the expected message length, hm_exp_len) is their total and          *)
(* frames_max_sz (the size of the request allocated, the last chunk size *)
(* tried) is the length of the longest.                                  *)
FramesAccount ==
    /\ \A k \in 1..Len(frames) :
           frames[k].start = IF k = 1 THEN 0 ELSE FrameEndAt(k - 1)
    /\ frames_total_sz = IF frames = <<>> THEN 0 ELSE FrameEndAt(Len(frames))
    /\ Len(buf) = frames_total_sz + IF open = "NONE" THEN 0 ELSE frame_sz
    /\ \A k \in 1..Len(frames) : frames[k].len <= frames_max_sz
    /\ frames_max_sz = 0 \/ \E k \in 1..Len(frames) : frames[k].len = frames_max_sz

(* No HEADER or DATA writes past the end of frames_str_buf.              *)
WritesInBounds == Len(buf) <= CAPACITY

=============================================================================
