--------------------------- MODULE HarnessProofs ---------------------------
(* Proofs about the chunk-size loop of the fragmenting test driver, for   *)
(* every increasing CHUNK_SIZES[] and every set of cases.                 *)
EXTENDS Harness, SequenceTheorems, TLAPS

\* The pc values inside one attempt of do_split_and_parse().
InAttempt == {"frame", "feed", "frame_done", "finish"}

\* The first k sizes of CHUNK_SIZES[] were all tried.
Covered(k) == \A j \in 1..k : CHUNK_SIZES[j] \in tried

\* The types the loop argument needs.
LoopTypes ==
    /\ pc \in {"idle", "attempt"} \cup InAttempt
    /\ tc \in Cases
    /\ chunk_size_index \in 0..CHUNK_SIZE_CNT
    /\ frames_max_sz \in Nat

\* Between two attempts of a chunked case the sizes before the index were
\* tried; during an attempt the index is in range and its size is tried
\* too; once the index has run out, SizesCovered holds.
LoopInv ==
    tc.chunk_on =>
        /\ (pc = "attempt" /\ chunk_size_index < CHUNK_SIZE_CNT) =>
              Covered(chunk_size_index)
        /\ pc \in InAttempt =>
              chunk_size_index < CHUNK_SIZE_CNT /\ Covered(chunk_size_index + 1)

IInv == LoopTypes /\ LoopInv /\ SizesCovered
\* frames_max_sz of a case is a length: the set of frame lengths has a
\* greatest element, since a case has at most FRAMES_MAX frames.
\* A natural number of at most two is 0, 1 or 2.
LEMMA UpToTwo ==
    ASSUME NEW n \in Nat, n <= 2
    PROVE  n = 0 \/ n = 1 \/ n = 2
OBVIOUS

LEMMA LongestLenType ==
    ASSUME NEW c \in Cases
    PROVE  LongestLen(c) \in Nat
<1> DEFINE lens == {Len(c.frames[i].data) : i \in DOMAIN c.frames}
<1>0. c.frames \in Seq(Frame)
  BY CasesAssumption
<1>1. Len(c.frames) = 0 \/ Len(c.frames) = 1 \/ Len(c.frames) = 2
  <2>1. Len(c.frames) <= 2
    BY CasesAssumption DEF FRAMES_MAX
  <2>2. Len(c.frames) \in Nat
    BY <1>0, LenProperties
  <2>3. QED
    BY <2>1, <2>2, UpToTwo
<1>1a. DOMAIN c.frames = 1..Len(c.frames)
  BY <1>0, LenProperties
<1>2. lens \subseteq Nat
  BY <1>0, <1>1a DEF Frame, lens
<1>3. CASE Len(c.frames) = 0
  BY <1>0, <1>3 DEF LongestLen
<1>4. CASE Len(c.frames) = 1
  <2> DEFINE a == Len(c.frames[1].data)
  <2> USE DEF a
  <2>1. lens = {a} /\ a \in Nat
    BY <1>0, <1>1a, <1>2, <1>4 DEF lens
  <2>2. \A j \in lens : j <= a
    BY <2>1
  <2>3. LastOf(lens) \in lens
    BY <2>1, <2>2 DEF LastOf
  <2>4. QED
    BY <2>3, <1>0, <1>2, <1>4 DEF LongestLen, lens
<1>5. CASE Len(c.frames) = 2
  <2> DEFINE a == Len(c.frames[1].data)
             b == Len(c.frames[2].data)
             m == IF a >= b THEN a ELSE b
  <2> USE DEF a, b, m
  <2>1. lens = {a, b} /\ a \in Nat /\ b \in Nat
    BY <1>0, <1>1a, <1>2, <1>5 DEF lens
  <2>2. m \in lens /\ \A j \in lens : j <= m
    <3>1. m \in {a, b} /\ \A j \in {a, b} : j <= m
      BY <2>1
    <3>2. QED
      BY <3>1, <2>1
  <2>3. LastOf(lens) \in lens
    BY <2>2 DEF LastOf
  <2>4. QED
    BY <2>3, <1>0, <1>2, <1>5 DEF LongestLen, lens
<1>6. QED
  BY <1>1, <1>3, <1>4, <1>5

\* CHUNK_SIZE_CNT is a positive number and the sizes are numbers.
LEMMA ChunkCntType ==
    /\ CHUNK_SIZE_CNT \in Nat \ {0}
    /\ \A i \in 1..CHUNK_SIZE_CNT : CHUNK_SIZES[i] \in Nat \ {0}
<1>1. CHUNK_SIZE_CNT \in Nat
  BY ChunkSizesAssumption, LenProperties DEF CHUNK_SIZE_CNT
<1>2. QED
  BY <1>1, ChunkSizesAssumption, LenProperties DEF CHUNK_SIZE_CNT

LEMMA InitIInv == Init => IInv
<1> SUFFICES ASSUME Init PROVE IInv
  OBVIOUS
<1>1. LoopTypes
  BY ChunkCntType DEF Init, LoopTypes, InAttempt
<1>2. LoopInv /\ SizesCovered
  BY DEF Init, LoopInv, SizesCovered, InAttempt
<1>3. QED
  BY <1>1, <1>2 DEF IInv

\* A step inside one attempt leaves the case, the index, the longest
\* frame and the sizes tried alone.
LEMMA InnerIInv ==
    ASSUME IInv, pc \in InAttempt, pc' \in InAttempt,
           UNCHANGED <<tc, chunk_size_index, frames_max_sz, tried>>
    PROVE  IInv'
<1>1. LoopTypes'
  BY DEF IInv, LoopTypes, InAttempt
<1>2. LoopInv'
  BY DEF IInv, LoopInv, Covered, InAttempt
<1>3. SizesCovered'
  BY DEF SizesCovered, InAttempt
<1>4. QED
  BY <1>1, <1>2, <1>3 DEF IInv

LEMMA SampleIInv ==
    ASSUME IInv, NEW m \in Methods \ {"NONE"}, set_sample_req(m)
    PROVE  IInv'
BY DEF IInv, LoopTypes, LoopInv, SizesCovered, Covered, set_sample_req,
       InAttempt

LEMMA PrepareIInv ==
    ASSUME IInv, NEW c \in Cases, PrepareCase(c)
    PROVE  IInv'
<1>1. /\ pc' = "attempt" /\ tc' = c /\ chunk_size_index' = 0
      /\ frames_max_sz' = LongestLen(c) /\ tried' = {}
  BY DEF PrepareCase
<1>2. LoopTypes'
  BY <1>1, LongestLenType, ChunkCntType DEF LoopTypes, InAttempt
<1>3. LoopInv'
  BY <1>1 DEF LoopInv, Covered, InAttempt
<1>4. SizesCovered'
  BY <1>1, ChunkCntType DEF SizesCovered
<1>5. QED
  BY <1>2, <1>3, <1>4 DEF IInv

LEMMA EofIInv ==
    ASSUME IInv, DoSplitAndParseEof
    PROVE  IInv'
BY DEF IInv, LoopTypes, LoopInv, SizesCovered, Covered, DoSplitAndParseEof,
       InAttempt

LEMMA BeginIInv ==
    ASSUME IInv, DoSplitAndParseBegin
    PROVE  IInv'
<1>1. /\ pc = "attempt" /\ pc' = "frame"
      /\ chunk_size_index # CHUNK_SIZE_CNT
      /\ tried' = tried \cup {chunk_size'}
      /\ chunk_size' = IF tc.chunk_on THEN CHUNK_SIZES[chunk_size_index + 1]
                       ELSE frames_max_sz
      /\ UNCHANGED <<tc, chunk_size_index, frames_max_sz>>
  BY DEF DoSplitAndParseBegin
<1>2. chunk_size_index < CHUNK_SIZE_CNT
  BY <1>1, ChunkCntType DEF IInv, LoopTypes
<1>3. LoopTypes'
  BY <1>1, <1>2 DEF IInv, LoopTypes, InAttempt
<1>4. LoopInv'
  <2>1. tc.chunk_on => Covered(chunk_size_index)
    BY <1>1, <1>2 DEF IInv, LoopInv
  <2>2. tc.chunk_on => Covered(chunk_size_index + 1)'
    BY <1>1, <2>1, ChunkCntType DEF IInv, LoopTypes, Covered
  <2>3. QED
    BY <1>1, <1>2, <2>2 DEF LoopInv, InAttempt
<1>5. SizesCovered'
  BY <1>1 DEF SizesCovered
<1>6. QED
  BY <1>3, <1>4, <1>5 DEF IInv

LEMMA StartFrameIInv ==
    ASSUME IInv, StartFrame
    PROVE  IInv'
BY InnerIInv DEF StartFrame, InAttempt

LEMMA SplitIInv ==
    ASSUME IInv, split_and_parse_n
    PROVE  IInv'
<1>1. pc = "feed" /\ pc' \in {"frame_done", "feed"}
  BY DEF split_and_parse_n
<1>2. UNCHANGED <<tc, chunk_size_index, frames_max_sz, tried>>
  BY DEF split_and_parse_n
<1>3. QED
  BY <1>1, <1>2, InnerIInv DEF InAttempt

LEMMA SplitDoneIInv ==
    ASSUME IInv, SplitDone
    PROVE  IInv'
BY InnerIInv DEF SplitDone, InAttempt

LEMMA FrameDoneIInv ==
    ASSUME IInv, FrameDone
    PROVE  IInv'
<1>1. pc = "frame_done" /\ pc' \in {"finish", "frame"}
  BY DEF FrameDone
<1>2. UNCHANGED <<tc, chunk_size_index, frames_max_sz, tried>>
  BY DEF FrameDone
<1>3. QED
  BY <1>1, <1>2, InnerIInv DEF InAttempt

LEMMA FramesDoneIInv ==
    ASSUME IInv, FramesDone
    PROVE  IInv'
BY InnerIInv DEF FramesDone, InAttempt

\* The end of an attempt: the index moves to the next size, or to the end
\* of CHUNK_SIZES[] once a size covers the longest frame.  Then every size
\* after the last one tried is larger, so none below the longest frame is
\* skipped.
LEMMA EndIInv ==
    ASSUME IInv, DoSplitAndParseEnd
    PROVE  IInv'
<1> DEFINE idx == chunk_size_index
           CNT == CHUNK_SIZE_CNT
           fms == frames_max_sz
           Cut == ~tc.chunk_on \/ CHUNK_SIZES[idx + 1] >= fms
<1> USE DEF idx, CNT, fms
<1>1. /\ pc = "finish" /\ pc' \in {"attempt", "idle"}
      /\ chunk_size_index' = IF Cut THEN CNT ELSE idx + 1
      /\ UNCHANGED <<tc, frames_max_sz, tried>>
  BY DEF DoSplitAndParseEnd, Cut
<1>2. /\ idx \in 0..CNT /\ fms \in Nat /\ CNT \in Nat \ {0}
      /\ \A i \in 1..CNT : CHUNK_SIZES[i] \in Nat
  BY ChunkCntType DEF IInv, LoopTypes
<1>3. tc.chunk_on => idx < CNT /\ Covered(idx + 1)
  BY <1>1 DEF IInv, LoopInv, InAttempt
<1>4. LoopTypes'
  <2>1. chunk_size_index' \in 0..CNT
    BY <1>1, <1>2, <1>3 DEF Cut
  <2>2. QED
    BY <1>1, <2>1 DEF IInv, LoopTypes, InAttempt
<1>5. LoopInv'
  <2>1. (tc.chunk_on /\ chunk_size_index' < CNT) => chunk_size_index' = idx + 1
    BY <1>1, <1>2
  <2>2. QED
    BY <1>1, <1>3, <2>1 DEF LoopInv, Covered, InAttempt
<1>6. SizesCovered'
  <2> SUFFICES ASSUME pc' = "attempt", chunk_size_index' = CNT, tc.chunk_on
               PROVE  /\ \A i \in 1..CNT : CHUNK_SIZES[i] < fms => CHUNK_SIZES[i] \in tried
                      /\ (\E i \in 1..CNT : CHUNK_SIZES[i] >= fms) =>
                            \E s \in tried : s >= fms
    BY <1>1 DEF SizesCovered
  <2>1. idx < CNT /\ \A j \in 1..idx + 1 : CHUNK_SIZES[j] \in tried
    BY <1>3 DEF Covered
  <2>2. CASE CHUNK_SIZES[idx + 1] >= fms
    <3>1. ASSUME NEW i \in 1..CNT, CHUNK_SIZES[i] < fms
          PROVE  CHUNK_SIZES[i] \in tried
      <4>1. i <= idx + 1
        <5>1. SUFFICES ASSUME i > idx + 1 PROVE FALSE
          BY <1>2
        <5>2. CHUNK_SIZES[idx + 1] < CHUNK_SIZES[i]
          BY <5>1, <2>1, <1>2, ChunkSizesAssumption
        <5>3. QED
          BY <5>2, <2>2, <3>1, <1>2, <2>1
      <4>2. QED
        BY <4>1, <2>1
    <3>2. CHUNK_SIZES[idx + 1] \in tried
      BY <2>1, <1>2
    <3>3. QED
      BY <3>1, <3>2, <2>2
  <2>3. CASE CHUNK_SIZES[idx + 1] < fms
    <3>1. idx + 1 = CNT
      BY <2>3, <1>1, <1>2, <2>1 DEF Cut
    <3>2. \A i \in 1..CNT : CHUNK_SIZES[i] < fms
      <4> SUFFICES ASSUME NEW i \in 1..CNT PROVE CHUNK_SIZES[i] < fms
        OBVIOUS
      <4>1. CASE i = CNT
        BY <4>1, <3>1, <2>3
      <4>2. CASE i < CNT
        <5>1. CHUNK_SIZES[i] < CHUNK_SIZES[CNT]
          BY <4>2, <1>2, ChunkSizesAssumption
        <5>2. QED
          BY <5>1, <3>1, <2>3, <1>2
      <4>3. QED
        BY <4>1, <4>2, <1>2
    <3>3. QED
      BY <3>1, <3>2, <2>1, <1>2
  <2>4. QED
    BY <2>2, <2>3, <1>2, <2>1
<1>7. QED
  BY <1>4, <1>5, <1>6 DEF IInv

LEMMA NextIInv == IInv /\ [Next]_vars => IInv'
<1> SUFFICES ASSUME IInv, [Next]_vars PROVE IInv'
  OBVIOUS
<1>1. CASE \E m \in Methods \ {"NONE"} : set_sample_req(m)
  BY <1>1, SampleIInv
<1>2. CASE \E c \in Cases : PrepareCase(c)
  BY <1>2, PrepareIInv
<1>3. CASE Driver
  BY <1>3, EofIInv, BeginIInv, StartFrameIInv, SplitIInv, SplitDoneIInv,
     FrameDoneIInv, FramesDoneIInv, EndIInv DEF Driver
<1>4. CASE UNCHANGED vars
  BY <1>4 DEF vars, IInv, LoopTypes, LoopInv, SizesCovered, Covered
<1>5. QED
  BY <1>1, <1>2, <1>3, <1>4 DEF Next

(* For every increasing CHUNK_SIZES[] and every set of cases of at most  *)
(* two frames: when the chunk-size loop of do_split_and_parse() runs out *)
(* on a chunked case, every size below the longest frame was tried, and  *)
(* so was one covering it whenever CHUNK_SIZES[] has one; cutting the    *)
(* list short at the first covering size skips nothing.                  *)
THEOREM SizesCoveredThm == Spec => []SizesCovered
<1>1. Spec => []IInv
  BY InitIInv, NextIInv, PTL DEF Spec
<1>2. QED
  BY <1>1, PTL DEF IInv
====
