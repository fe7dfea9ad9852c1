-------------------------- MODULE H2BuilderProofs --------------------------
(* Proofs about the HTTP/2 frame builder, for every buffer capacity, frame *)
(* table size, bound and set of header and DATA sizes.                     *)
EXTENDS H2Builder, SequenceTheorems, TLAPS

Bytes == 0..255

\* The 7-bit groups of a value: between one and CONT_MAX of them.
LEMMA ContLenRange ==
    ASSUME NEW w \in Nat
    PROVE  ContLen(w) \in 1..CONT_MAX
BY DEF ContLen, CONT_MAX, Pow128

\* Every octet write_int emits is a byte.
LEMMA ContOctetsType ==
    ASSUME NEW w \in Nat
    PROVE  ContOctets(w) \in Seq(Bytes)
<1>1. ContLen(w) \in 1..CONT_MAX
  BY ContLenRange
<1>2. ASSUME NEW i \in 1..ContLen(w)
      PROVE  ((w \div Pow128[i]) % 128) + (IF i < ContLen(w) THEN 128 ELSE 0)
               \in Bytes
  <2>1. Pow128[i] \in {1, 128, 16384, 2097152}
    BY <1>1 DEF Pow128, CONT_MAX
  <2>2. (w \div Pow128[i]) % 128 \in 0..127
    BY <2>1
  <2>3. QED
    BY <2>2 DEF Bytes
<1>3. QED
  BY <1>1, <1>2 DEF ContOctets, CONT_MAX

LEMMA WriteIntType ==
    ASSUME NEW v \in Nat
    PROVE  WriteInt(v) \in Seq(Bytes)
<1>1. CASE v < 127
  BY <1>1 DEF WriteInt, Bytes
<1>2. CASE ~(v < 127)
  <2>1. ContOctets(v - 127) \in Seq(Bytes)
    BY <1>2, ContOctetsType
  <2>2. <<127>> \in Seq(Bytes)
    BY DEF Bytes
  <2>3. QED
    BY <1>2, <2>1, <2>2 DEF WriteInt
<1>3. QED
  BY <1>1, <1>2

LEMMA EncodeDataType ==
    ASSUME NEW n \in Nat, NEW b \in Bytes
    PROVE  tfw_h2_encode_data(n, b) \in Seq(Bytes)
<1>1. [i \in 1..n |-> b] \in Seq(Bytes)
  OBVIOUS
<1>2. QED
  BY <1>1, WriteIntType DEF tfw_h2_encode_data

\* The bytes HEADER appends: a sequence of bytes.
LEMMA EncodeHeaderType ==
    ASSUME NEW h \in HeaderRecs
    PROVE  tfw_h2_encode_header(h) \in Seq(Bytes)
<1>1. h[1] \in Nat /\ h[2] \in Nat
  BY BuilderAssumption
<1>2. NAME \in Bytes /\ VALUE \in Bytes /\ <<0>> \in Seq(Bytes)
  BY DEF NAME, VALUE, Bytes
<1>3. tfw_h2_encode_data(h[1], NAME) \in Seq(Bytes)
  BY <1>1, <1>2, EncodeDataType
<1>4. tfw_h2_encode_data(h[2], VALUE) \in Seq(Bytes)
  BY <1>1, <1>2, EncodeDataType
<1>5. QED
  BY <1>2, <1>3, <1>4 DEF tfw_h2_encode_header

-----------------------------------------------------------------------------
\* Outside a block no frame is open: the frame macros pair up inside the
\* H2_BUILDER_BLOCK of FOR_REQ_H2.
OpenInBlock == pc \in {"idle", "built"} => open = "NONE"

\* The invariant the proofs carry.
IInv == TypeOK /\ FramesAccount /\ OpenInBlock

LEMMA InitIInv == Init => IInv
BY DEF Init, IInv, TypeOK, FramesAccount, OpenInBlock

LEMMA StartIInv ==
    ASSUME IInv, BuilderStart
    PROVE  IInv'
BY DEF IInv, TypeOK, FramesAccount, OpenInBlock, BuilderStart

LEMMA BeginIInv ==
    ASSUME IInv, NEW t \in {"HEADERS", "DATA"}, FrameBegin(t)
    PROVE  IInv'
<1>1. CASE Len(frames) >= FRAMES_MAX
  BY <1>1 DEF IInv, TypeOK, FramesAccount, OpenInBlock, FrameBegin, FrameEndAt
<1>2. CASE ~(Len(frames) >= FRAMES_MAX)
  BY <1>2 DEF IInv, TypeOK, FramesAccount, OpenInBlock, FrameBegin, FrameEndAt
<1>3. QED
  BY <1>1, <1>2

\* HEADER and DATA append bytes to the open frame; the table is untouched.
LEMMA WriteIInv ==
    ASSUME IInv, NEW bytes \in Seq(Bytes), open # "NONE", pc = "building",
           Write(bytes),
           UNCHANGED <<frames, frames_total_sz, frames_max_sz, open, opened,
                       fields>>,
           cur' \in Seq(HeaderRecs)
    PROVE  IInv'
<1>1. buf' \in Seq(Bytes) /\ Len(buf') = Len(buf) + Len(bytes)
  BY DEF IInv, TypeOK, Write, Bytes
<1>2. TypeOK'
  BY <1>1 DEF IInv, TypeOK, Write, Bytes
<1>2a. frames' = frames /\ frames_total_sz' = frames_total_sz
       /\ frames_max_sz' = frames_max_sz /\ open' = open
       /\ frame_sz' = frame_sz + Len(bytes)
  BY DEF Write
<1>3. FramesAccount'
  BY <1>1, <1>2a DEF IInv, TypeOK, FramesAccount, FrameEndAt
<1>4. OpenInBlock'
  BY DEF Write, OpenInBlock
<1>5. QED
  BY <1>2, <1>3, <1>4 DEF IInv

LEMMA HeaderIInv ==
    ASSUME IInv, NEW h \in HeaderRecs, HEADER(h)
    PROVE  IInv'
<1>1. tfw_h2_encode_header(h) \in Seq(Bytes)
  BY EncodeHeaderType
<1>2. cur' \in Seq(HeaderRecs)
  BY DEF HEADER, IInv, TypeOK
<1>3. QED
  BY <1>1, <1>2, WriteIInv DEF HEADER

LEMMA DataIInv ==
    ASSUME IInv, NEW n \in DataSizes, DATA(n)
    PROVE  IInv'
<1>1. [i \in 1..n |-> PAYLOAD] \in Seq(Bytes)
  BY BuilderAssumption DEF PAYLOAD, Bytes
<1>2. cur' \in Seq(HeaderRecs)
  BY DEF DATA, IInv, TypeOK
<1>3. QED
  BY <1>1, <1>2, WriteIInv DEF DATA

\* FrameEnd records the open frame right after the last one.
LEMMA EndIInv ==
    ASSUME IInv, FrameEnd
    PROVE  IInv'
<1>1. CASE Len(frames) >= FRAMES_MAX
  BY <1>1 DEF IInv, TypeOK, FramesAccount, OpenInBlock, FrameEnd, FrameEndAt
<1>2. CASE ~(Len(frames) >= FRAMES_MAX)
  <2> DEFINE rec == [subtype |-> open, start |-> Len(buf) - frame_sz,
                     len |-> frame_sz]
  <2>1. open \in {"HEADERS", "DATA"} /\ Len(buf) = frames_total_sz + frame_sz
    BY DEF IInv, TypeOK, FramesAccount, FrameEnd
  <2>2. /\ frames' = Append(frames, rec)
        /\ frames_total_sz' = frames_total_sz + frame_sz
        /\ open' = "NONE" /\ UNCHANGED <<buf, frame_sz, pc>>
    BY <1>2 DEF FrameEnd
  <2>3. rec.start = frames_total_sz /\ rec.start \in Nat /\ rec.len \in Nat
    BY <2>1 DEF IInv, TypeOK, rec
  <2>4. rec \in [subtype : {"HEADERS", "DATA"}, start : Nat, len : Nat]
    BY <2>1, <2>3 DEF rec
  <2>4a. /\ fields' = Append(fields, cur)
         /\ frames_max_sz' \in {frame_sz, frames_max_sz}
         /\ UNCHANGED <<items, opened, cur>>
    BY <1>2 DEF FrameEnd
  <2>4b. TypeOK'
    BY <2>2, <2>4, <2>4a DEF IInv, TypeOK
  <2> DEFINE Rec == [subtype : {"HEADERS", "DATA"}, start : Nat, len : Nat]
           L == Len(frames)
  <2> USE DEF Rec, L
  <2>5. /\ frames \in Seq(Rec)
        /\ Len(frames') = L + 1
        /\ \A k \in 1..L : frames'[k] = frames[k]
        /\ frames'[L + 1] = rec
    BY <2>2, <2>4, AppendProperties DEF IInv, TypeOK, Rec
  <2>6. ASSUME NEW k \in 1..Len(frames')
        PROVE  frames'[k].start =
                 IF k = 1 THEN 0 ELSE frames'[k - 1].start + frames'[k - 1].len
    <3>1. CASE k \in 1..L
      <4>1. frames'[k] = frames[k]
        BY <3>1, <2>5
      <4>2. k # 1 => frames'[k - 1] = frames[k - 1]
        BY <3>1, <2>5
      <4>3. frames[k].start = IF k = 1 THEN 0 ELSE FrameEndAt(k - 1)
        BY <3>1 DEF IInv, FramesAccount
      <4>4. QED
        BY <4>1, <4>2, <4>3 DEF FrameEndAt
    <3>2. CASE k = L + 1
      <4>1. L = 0 <=> frames = <<>>
        BY <2>5
      <4>2. frames'[k] = rec
        BY <3>2, <2>5
      <4>3. k # 1 => frames'[k - 1] = frames[L]
        BY <3>2, <2>5
      <4>4. rec.start = IF frames = <<>> THEN 0 ELSE FrameEndAt(L)
        BY <2>3 DEF IInv, FramesAccount
      <4>5. QED
        BY <3>2, <4>1, <4>2, <4>3, <4>4, <2>5 DEF FrameEndAt
    <3>3. QED
      BY <3>1, <3>2, <2>5
  <2>7. frames_total_sz' = frames'[Len(frames')].start + frames'[Len(frames')].len
    BY <2>2, <2>3, <2>5 DEF rec
  <2>7a. frames_max_sz' = IF frame_sz > frames_max_sz THEN frame_sz
                          ELSE frames_max_sz
    BY <1>2 DEF FrameEnd
  <2>7b. ASSUME NEW k \in 1..Len(frames')
         PROVE  frames'[k].len <= frames_max_sz'
    <3>1. CASE k \in 1..L
      <4>1. frames'[k] = frames[k] /\ frames[k] \in Rec
        BY <3>1, <2>5, ElementOfSeq
      <4>2. frames[k].len <= frames_max_sz
        BY <3>1 DEF IInv, FramesAccount
      <4>3. frames_max_sz <= frames_max_sz'
        BY <2>7a DEF IInv, TypeOK
      <4>4. frames[k].len \in Nat /\ frames_max_sz \in Nat
        BY <4>1 DEF IInv, TypeOK
      <4>5. frames_max_sz' \in Nat
        BY <2>4b DEF TypeOK
      <4>6. QED
        BY <4>1, <4>2, <4>3, <4>4, <4>5
    <3>2. CASE k = L + 1
      BY <3>2, <2>5, <2>7a DEF IInv, TypeOK, rec
    <3>3. QED
      BY <3>1, <3>2, <2>5
  <2>7c. \/ frames_max_sz' = 0
         \/ \E k \in 1..Len(frames') : frames'[k].len = frames_max_sz'
    <3>1. CASE frame_sz > frames_max_sz
      <4>1. frames'[L + 1].len = frames_max_sz' /\ L + 1 \in 1..Len(frames')
        BY <3>1, <2>5, <2>7a DEF IInv, TypeOK, rec
      <4>2. QED
        BY <4>1
    <3>2. CASE ~(frame_sz > frames_max_sz)
      <4>1. frames_max_sz' = frames_max_sz
        BY <3>2, <2>7a
      <4>2. CASE frames_max_sz = 0
        BY <4>1, <4>2
      <4>3. CASE frames_max_sz # 0
        <5>1. PICK j \in 1..L : frames[j].len = frames_max_sz
          BY <4>3 DEF IInv, FramesAccount
        <5>2. frames'[j].len = frames_max_sz' /\ j \in 1..Len(frames')
          BY <5>1, <4>1, <2>5
        <5>3. QED
          BY <5>2
      <4>4. QED
        BY <4>2, <4>3
    <3>3. QED
      BY <3>1, <3>2
  <2>8. FramesAccount'
    <3>1. frames' # <<>>
      BY <2>5
    <3>2. Len(buf') = frames_total_sz' + IF open' = "NONE" THEN 0 ELSE frame_sz'
      BY <2>1, <2>2
    <3>3. frames_total_sz' =
            IF frames' = <<>> THEN 0
            ELSE frames'[Len(frames')].start + frames'[Len(frames')].len
      BY <2>7, <3>1
    <3>4. QED
      BY <2>6, <2>7b, <2>7c, <3>2, <3>3 DEF FramesAccount, FrameEndAt
  <2>9. QED
    BY <2>2, <2>4b, <2>8 DEF IInv, OpenInBlock
<1>3. QED
  BY <1>1, <1>2

LEMMA ResetIInv ==
    ASSUME IInv, BuilderReset
    PROVE  IInv'
BY DEF IInv, TypeOK, FramesAccount, OpenInBlock, BuilderReset, FrameEndAt

LEMMA NextIInv == IInv /\ [Next]_vars => IInv'
<1> SUFFICES ASSUME IInv, [Next]_vars PROVE IInv'
  OBVIOUS
<1>1. CASE UNCHANGED vars
  BY <1>1 DEF vars, IInv, TypeOK, FramesAccount, OpenInBlock, FrameEndAt
<1>2. QED
  BY <1>1, StartIInv, BeginIInv, HeaderIInv, DataIInv, EndIInv, ResetIInv
     DEF Next

(* Every variable of the builder keeps its type: in particular every     *)
(* octet tfw_h2_encode_header and DATA put in frames_str_buf is a byte.  *)
THEOREM TypeCorrect == Spec => []TypeOK
<1>1. Spec => []IInv
  BY InitIInv, NextIInv, PTL DEF Spec
<1>2. QED
  BY <1>1, PTL DEF IInv

(* Whatever headers and DATA a block writes, the frame table the frame   *)
(* macros keep tiles frames_str_buf from its start, frames_total_sz is    *)
(* the end of the last frame and the buffer holds nothing past it but    *)
(* the open frame, and frames_max_sz is the length of the longest frame.  *)
THEOREM FramesAccountCorrect == Spec => []FramesAccount
<1>1. Spec => []IInv
  BY InitIInv, NextIInv, PTL DEF Spec
<1>2. QED
  BY <1>1, PTL DEF IInv

=============================================================================
