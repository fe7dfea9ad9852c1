------------------------- MODULE HarnessFeedProofs -------------------------
(* Proofs about what split_and_parse_n() hands to the parser and counts, *)
(* for every increasing CHUNK_SIZES[] and every set of cases.            *)
EXTENDS HarnessProofs, WellFoundedInduction

\* The bytes of the first i frames of the case (a case has at most
\* FRAMES_MAX = 2 frames).
CaseLen(c, i) ==
    IF i = 0 THEN 0
    ELSE IF i = 1 THEN Len(c.frames[1].data)
    ELSE Len(c.frames[1].data) + Len(c.frames[2].data)
FedLen(i) == CaseLen(tc, i)

\* No byte among the first p of the current frame stops an HTTP/1 parser.
NoStopBefore(p) ==
    \A k \in 1..p : tc.frames[frame_index + 1].data[k] # "x" /\ ~Ends(k)

\* The driver's position in the frame loop, and what the HTTP/1 and the
\* HTTP/2 parsers have counted so far.
FeedShape ==
    /\ pc \in InAttempt => chunk_size_index < CHUNK_SIZE_CNT
    /\ pc \in {"feed", "frame_done"} => frame_index < Len(tc.frames)
    /\ pc \in {"frame", "finish"} => frame_index <= Len(tc.frames)
    /\ (pc = "feed" /\ pos > 0) => r = "POSTPONE"
    /\ pc # "idle" => frames_total_sz = TotalLen(tc)

Http1Count ==
    tc.type # "REQ_H2" =>
        /\ (pc = "frame" /\ frame_index = 0) => msg.len = 0
        /\ pc = "feed" => msg.len = pos /\ NoStopBefore(pos)

H2Count ==
    tc.type = "REQ_H2" =>
        /\ pc = "frame" => msg.len = FedLen(frame_index)
        /\ pc = "feed" => msg.len = FedLen(frame_index) + pos
        /\ (pc = "frame_done" /\ r = "POSTPONE") =>
              msg.len = FedLen(frame_index + 1)
        /\ (pc = "finish" /\ r = "POSTPONE") =>
              frame_index = Len(tc.frames) /\ msg.len = FedLen(frame_index)

FeedInv == TypeOK /\ FeedShape /\ Http1Count /\ H2Count /\ ConsumedExact

\* The frames of a case: at most two, each with a length.
LEMMA CaseFrames ==
    ASSUME NEW c \in Cases
    PROVE  /\ c.frames \in Seq(Frame)
           /\ Len(c.frames) \in 0..2
           /\ DOMAIN c.frames = 1..Len(c.frames)
           /\ \A i \in 1..Len(c.frames) : /\ c.frames[i] \in Frame
                                          /\ Len(c.frames[i].data) \in Nat
<1>1. c.frames \in Seq(Frame)
  BY CasesAssumption
<1>2. Len(c.frames) \in Nat /\ DOMAIN c.frames = 1..Len(c.frames)
  BY <1>1, LenProperties
<1>3. Len(c.frames) <= 2
  BY CasesAssumption DEF FRAMES_MAX
<1>4. \A i \in 1..Len(c.frames) : c.frames[i] \in Frame
  BY <1>1, ElementOfSeq
<1>5. \A i \in 1..Len(c.frames) : Len(c.frames[i].data) \in Nat
  BY <1>4, LenProperties DEF Frame
<1>6. Len(c.frames) \in 0..2
  <2>1. Len(c.frames) = 0 \/ Len(c.frames) = 1 \/ Len(c.frames) = 2
    BY <1>2, <1>3, UpToTwo
  <2>2. QED
    BY <2>1
<1>7. QED
  BY <1>1, <1>2, <1>4, <1>5, <1>6

\* frames_total_sz as the frame macros accumulate it is the sum of the
\* frame lengths.
LEMMA TotalLenValue ==
    ASSUME NEW c \in Cases
    PROVE  TotalLen(c) = CaseLen(c, Len(c.frames))
<1> DEFINE L == Len(c.frames)
           a == Len(c.frames[1].data)
           b == Len(c.frames[2].data)
           g == [i \in 0..L |-> IF i = 0 THEN 0 ELSE IF i = 1 THEN a ELSE a + b]
<1>0. /\ L = 0 \/ L = 1 \/ L = 2
      /\ L >= 1 => a \in Nat
      /\ L = 2 => b \in Nat
  BY CaseFrames
<1>1. g = [i \in 0..L |-> IF i = 0 THEN 0 ELSE g[i - 1] + Len(c.frames[i].data)]
  <2>1. CASE L = 0
    BY <2>1
  <2>2. CASE L = 1
    BY <2>2, <1>0
  <2>3. CASE L = 2
    BY <2>3, <1>0
  <2>4. QED
    BY <1>0, <2>1, <2>2, <2>3
<1> DEFINE acc == CHOOSE f : f = [i \in 0..L |->
                      IF i = 0 THEN 0 ELSE f[i - 1] + Len(c.frames[i].data)]
<1>2. acc = [i \in 0..L |-> IF i = 0 THEN 0 ELSE acc[i - 1] + Len(c.frames[i].data)]
  BY <1>1
<1> HIDE DEF acc
<1>3. acc[0] = 0
  BY <1>0, <1>2
<1>4. L >= 1 => acc[1] = a
  BY <1>0, <1>2, <1>3
<1>5. L = 2 => acc[2] = a + b
  <2> SUFFICES ASSUME L = 2 PROVE acc[2] = a + b
    OBVIOUS
  <2>1. acc[2] = acc[1] + b
    BY <1>2 DEF b
  <2>2. acc[1] = a /\ a \in Nat /\ b \in Nat
    BY <1>0, <1>4
  <2>3. QED
    BY <2>1, <2>2
<1>6. TotalLen(c) = acc[L]
  BY DEF TotalLen, acc, L
<1>7. CaseLen(c, L) = acc[L]
  <2>1. CASE L = 0
    BY <2>1, <1>3 DEF CaseLen
  <2>2. CASE L = 1
    BY <2>2, <1>4 DEF CaseLen, a
  <2>3. CASE L = 2
    <3>1. acc[L] = a + b
      BY <2>3, <1>5
    <3>2. CaseLen(c, L) = a + b
      BY <2>3 DEF CaseLen, a, b
    <3>3. QED
      BY <3>1, <3>2
  <2>4. QED
    BY <1>0, <2>1, <2>2, <2>3
<1>8. QED
  BY <1>6, <1>7 DEF L
\* A non-empty set of naturals has a least element, and FirstOf picks it.
LEMMA FirstOfLeast ==
    ASSUME NEW T \in SUBSET Nat, T # {}
    PROVE  FirstOf(T) \in T /\ \A y \in T : FirstOf(T) <= y
<1>1. PICK x \in T : \A y \in T : ~(<<y, x>> \in OpToRel(<, Nat))
  BY NatLessThanWellFounded, WFMin
<1>2. \A y \in T : x <= y
  <2> TAKE y \in T
  <2>1. ~(<<y, x>> \in OpToRel(<, Nat))
    BY <1>1
  <2>2. <<y, x>> \in Nat \X Nat
    OBVIOUS
  <2>3. ~(y < x)
    BY <2>1, <2>2, Zenon DEF OpToRel
  <2>4. QED
    BY <2>3
<1>3. QED
  BY <1>2 DEF FirstOf
\* The frame indexes of a case of at most two frames.
LEMMA BelowTwo ==
    ASSUME NEW n \in 0..2, NEW i \in Nat, i <= n
    PROVE  /\ i = 0 \/ i = 1 \/ i = 2
           /\ i < n => i = 0 \/ i = 1
OBVIOUS

\* A sum of two lengths is a length.
LEMMA NatSum ==
    ASSUME NEW a \in Nat, NEW b \in Nat
    PROVE  a + b \in Nat
OBVIOUS

\* The bytes of the first i frames are a number.
LEMMA CaseLenType ==
    ASSUME NEW c \in Cases, NEW i \in Nat, i <= Len(c.frames)
    PROVE  CaseLen(c, i) \in Nat
<1>0. Len(c.frames) \in 0..2 /\ i \in Nat /\ i <= Len(c.frames)
  BY CaseFrames
<1>1. i = 0 \/ i = 1 \/ i = 2
  BY <1>0, BelowTwo
<1>2. i >= 1 => Len(c.frames[1].data) \in Nat
  <2> SUFFICES ASSUME i >= 1 PROVE Len(c.frames[1].data) \in Nat
    OBVIOUS
  <2>1. 1 \in 1..Len(c.frames)
    BY <1>0
  <2>2. QED
    BY <2>1, CaseFrames
<1>3. i = 2 => Len(c.frames[2].data) \in Nat
  <2> SUFFICES ASSUME i = 2 PROVE Len(c.frames[2].data) \in Nat
    OBVIOUS
  <2>1. 2 \in 1..Len(c.frames)
    BY <1>0
  <2>2. QED
    BY <2>1, CaseFrames
<1>4. CASE i = 0
  BY <1>4 DEF CaseLen
<1>5. CASE i = 1
  <2>1. CaseLen(c, i) = Len(c.frames[1].data)
    BY <1>5 DEF CaseLen
  <2>2. QED
    BY <2>1, <1>2, <1>5
<1>6. CASE i = 2
  <2>1. CaseLen(c, i) = Len(c.frames[1].data) + Len(c.frames[2].data)
    BY <1>6 DEF CaseLen
  <2>2. Len(c.frames[1].data) \in Nat /\ Len(c.frames[2].data) \in Nat
    BY <1>6, <1>2, <1>3
  <2>3. QED
    BY <2>1, <2>2, NatSum
<1>7. QED
  BY <1>1, <1>4, <1>5, <1>6

\* Counting frame i + 1 after the first i adds its length.
LEMMA CaseLenStep ==
    ASSUME NEW c \in Cases, NEW i \in Nat, i < Len(c.frames)
    PROVE  CaseLen(c, i + 1) = CaseLen(c, i) + Len(c.frames[i + 1].data)
<1>1. i = 0 \/ i = 1
  <2>1. i <= Len(c.frames)
    BY CaseFrames
  <2>2. QED
    BY <2>1, CaseFrames, BelowTwo
<1>2. Len(c.frames[i + 1].data) \in Nat
  BY CaseFrames
<1>3. CASE i = 0
  BY <1>2, <1>3 DEF CaseLen
<1>4. CASE i = 1
  BY <1>2, <1>4, CaseFrames DEF CaseLen
<1>5. QED
  BY <1>1, <1>3, <1>4

LEMMA InitFeed == Init => FeedInv
<1> SUFFICES ASSUME Init PROVE FeedInv
  OBVIOUS
<1>1. TypeOK
  <2>1. msg \in [len : Nat, headers_parsed : BOOLEAN]
    BY DEF Init, FreshMsg
  <2>2. first \in [r : Codes \cup {"NONE", "GARBAGE"}, len : Nat]
    BY DEF Init, NoOutcome
  <2>3. chunk_size_index \in 0..CHUNK_SIZE_CNT
    BY ChunkCntType DEF Init
  <2>4. pc \in {"idle", "attempt", "frame", "feed", "frame_done", "finish"}
    BY DEF Init
  <2>9. tc \in Cases
    BY DEF Init
  <2>10. sample_req \in Methods
    BY DEF Init, Methods
  <2>7. r \in Codes \cup {"GARBAGE"} /\ failed \in BOOLEAN
    BY DEF Init, Codes
  <2>8. pc = "feed" => pos <= FrameLen(frame_index + 1)
    BY DEF Init
  <2>5. /\ frames_max_sz \in Nat /\ frames_total_sz \in Nat /\ hm_exp_len \in Int
        /\ chunk_size \in Nat /\ frame_index \in Nat /\ pos \in Nat
        /\ tried \subseteq Nat
    BY DEF Init
  <2>6. QED
    BY <2>1, <2>2, <2>3, <2>4, <2>5, <2>7, <2>8, <2>9, <2>10 DEF TypeOK
<1>2. FeedShape /\ Http1Count /\ H2Count /\ ConsumedExact
  BY DEF Init, FeedShape, Http1Count, H2Count, ConsumedExact, InAttempt
<1>3. QED
  BY <1>1, <1>2 DEF FeedInv

LEMMA SampleFeed ==
    ASSUME FeedInv, NEW m \in Methods \ {"NONE"}, set_sample_req(m)
    PROVE  FeedInv'
<1>1. pc = "idle" /\ pc' = "idle"
  BY DEF set_sample_req
<1>2. TypeOK'
  BY DEF FeedInv, TypeOK, set_sample_req
<1>3. (FeedShape /\ Http1Count /\ H2Count /\ ConsumedExact)'
  BY <1>1 DEF FeedShape, Http1Count, H2Count, ConsumedExact, InAttempt
<1>4. QED
  BY <1>2, <1>3 DEF FeedInv

LEMMA PrepareFeed ==
    ASSUME FeedInv, NEW c \in Cases, PrepareCase(c)
    PROVE  FeedInv'
<1>1. /\ pc = "idle" /\ pc' = "attempt" /\ tc' = c /\ chunk_size_index' = 0
      /\ frames_max_sz' = LongestLen(c) /\ frames_total_sz' = TotalLen(c)
      /\ hm_exp_len' = IF c.type = "REQ_H2" THEN TotalLen(c)
                       ELSE TotalLen(c) - c.sz_diff
      /\ failed' = FALSE /\ first' = NoOutcome /\ tried' = {}
      /\ UNCHANGED <<sample_req, msg, chunk_size, frame_index, pos, r>>
  BY DEF PrepareCase
<1>2. TotalLen(c) \in Nat
  <2>1. Len(c.frames) \in Nat
    BY CaseFrames
  <2>2. QED
    BY <2>1, CaseLenType, TotalLenValue
<1>3. c.sz_diff \in Nat
  BY CasesAssumption
<1>4. TypeOK'
  <2>1. first' \in [r : Codes \cup {"NONE", "GARBAGE"}, len : Nat]
    BY <1>1 DEF NoOutcome
  <2>2. /\ chunk_size_index' \in 0..CHUNK_SIZE_CNT
        /\ frames_max_sz' \in Nat /\ frames_total_sz' \in Nat
        /\ hm_exp_len' \in Int
    BY <1>1, <1>2, <1>3, LongestLenType, ChunkCntType
  <2>3. pc' = "feed" => pos' <= FrameLen(frame_index + 1)'
    BY <1>1
  <2>4. QED
    BY <1>1, <2>1, <2>2, <2>3 DEF FeedInv, TypeOK
<1>5. (FeedShape /\ Http1Count /\ H2Count /\ ConsumedExact)'
  BY <1>1 DEF FeedShape, Http1Count, H2Count, ConsumedExact, InAttempt
<1>6. QED
  BY <1>4, <1>5 DEF FeedInv

LEMMA EofFeed ==
    ASSUME FeedInv, DoSplitAndParseEof
    PROVE  FeedInv'
<1>1. pc' = "idle"
  BY DEF DoSplitAndParseEof
<1>2. TypeOK'
  BY DEF FeedInv, TypeOK, DoSplitAndParseEof
<1>3. (FeedShape /\ Http1Count /\ H2Count /\ ConsumedExact)'
  BY <1>1 DEF FeedShape, Http1Count, H2Count, ConsumedExact, InAttempt
<1>4. QED
  BY <1>2, <1>3 DEF FeedInv

LEMMA BeginFeed ==
    ASSUME FeedInv, DoSplitAndParseBegin
    PROVE  FeedInv'
<1>1. /\ pc = "attempt" /\ pc' = "frame" /\ chunk_size_index # CHUNK_SIZE_CNT
      /\ msg' = FreshMsg /\ r' \in Codes \cup {"GARBAGE"}
      /\ chunk_size' = IF tc.chunk_on THEN CHUNK_SIZES[chunk_size_index + 1]
                       ELSE frames_max_sz
      /\ tried' = tried \cup {chunk_size'} /\ frame_index' = 0
      /\ UNCHANGED <<tc, sample_req, chunk_size_index, frames_max_sz,
                     frames_total_sz, hm_exp_len, pos, failed, first>>
  BY DEF DoSplitAndParseBegin
<1>2. chunk_size_index < CHUNK_SIZE_CNT /\ chunk_size_index \in Nat
  BY <1>1, ChunkCntType DEF FeedInv, TypeOK
<1>3. chunk_size' \in Nat
  BY <1>1, <1>2, ChunkCntType DEF FeedInv, TypeOK
<1>4. TypeOK'
  BY <1>1, <1>3 DEF FeedInv, TypeOK, FreshMsg
<1>5. FeedShape'
  BY <1>1, <1>2, CaseFrames DEF FeedInv, TypeOK, FeedShape, InAttempt
<1>6. (Http1Count /\ H2Count /\ ConsumedExact)'
  BY <1>1 DEF Http1Count, H2Count, ConsumedExact, FreshMsg, FedLen, CaseLen
<1>7. QED
  BY <1>4, <1>5, <1>6 DEF FeedInv
\* The frame being fed is a frame of the case, with a length; an HTTP/1
\* case feeds its only frame.
LEMMA CurFrame ==
    ASSUME TypeOK, frame_index < Len(tc.frames)
    PROVE  /\ tc.frames[frame_index + 1] \in Frame
           /\ FrameLen(frame_index + 1) \in Nat
           /\ tc.type # "REQ_H2" => frame_index = 0
<1>1. frame_index + 1 \in 1..Len(tc.frames)
  BY DEF TypeOK
<1>2. tc.type # "REQ_H2" => frame_index = 0
  <2> SUFFICES ASSUME tc.type # "REQ_H2" PROVE frame_index = 0
    OBVIOUS
  <2>1. Len(tc.frames) = 1
    BY CasesAssumption DEF TypeOK
  <2>2. QED
    BY <2>1 DEF TypeOK
<1>3. QED
  BY <1>1, <1>2, CaseFrames DEF TypeOK, FrameLen

LEMMA StartFrameFeed ==
    ASSUME FeedInv, StartFrame
    PROVE  FeedInv'
<1> DEFINE Empty == tc.type = "REQ_H2" /\ Frames[frame_index + 1].subtype = "DATA"
                    /\ FrameLen(frame_index + 1) = 0
<1>1. /\ pc = "frame" /\ frame_index < Len(tc.frames) /\ pos' = 0
      /\ Empty => r' = "POSTPONE" /\ pc' = "frame_done"
      /\ ~Empty => r' = "PASS" /\ pc' = "feed"
      /\ UNCHANGED <<tc, sample_req, chunk_size_index, frames_max_sz,
                     frames_total_sz, hm_exp_len, msg, chunk_size, frame_index,
                     failed, first, tried>>
  BY DEF StartFrame, Frames, Empty
<1>2. /\ FrameLen(frame_index + 1) \in Nat
      /\ tc.type # "REQ_H2" => frame_index = 0
  BY <1>1, CurFrame DEF FeedInv
<1>3. TypeOK'
  <2>1. r' \in Codes \cup {"GARBAGE"} /\ pos' \in Nat
    BY <1>1 DEF Codes
  <2>2. pc' = "feed" => pos' <= FrameLen(frame_index + 1)'
    BY <1>1, <1>2 DEF FrameLen
  <2>3. QED
    BY <1>1, <2>1, <2>2 DEF FeedInv, TypeOK
<1>4. FeedShape'
  BY <1>1 DEF FeedInv, FeedShape, InAttempt
<1>5. (Http1Count /\ ConsumedExact)'
  <2>1. tc.type # "REQ_H2" => pc' = "feed" /\ msg.len = 0
    BY <1>1, <1>2 DEF FeedInv, Http1Count, Empty
  <2>2. NoStopBefore(0)
    BY DEF NoStopBefore
  <2>3. QED
    BY <1>1, <2>1, <2>2 DEF Http1Count, ConsumedExact, NoStopBefore
<1>6. H2Count'
  <2> SUFFICES ASSUME tc.type = "REQ_H2" PROVE H2Count'
    BY <1>1 DEF H2Count
  <2>1. msg.len = FedLen(frame_index)
    BY <1>1 DEF FeedInv, H2Count
  <2>2. FedLen(frame_index + 1) = FedLen(frame_index) + FrameLen(frame_index + 1)
    BY <1>1, CaseLenStep DEF FeedInv, TypeOK, FedLen, FrameLen
  <2>3. FedLen(frame_index) \in Nat
    BY <1>1, CaseLenType DEF FeedInv, TypeOK, FedLen
  <2>4. Empty => msg.len = FedLen(frame_index + 1)
    BY <2>1, <2>2, <2>3 DEF Empty
  <2>5. QED
    BY <1>1, <2>1, <2>3, <2>4 DEF H2Count, FedLen, FrameLen
<1>7. QED
  BY <1>3, <1>4, <1>5, <1>6 DEF FeedInv
\* One call of the HTTP/1 parser on n bytes: it postpones only when none
\* of them stops it, having parsed all n; it passes at the first byte that
\* stops it, which ends the message, having parsed up to that byte.
LEMMA ParseHttp1Facts ==
    ASSUME NEW n \in Nat, pos \in Nat
    PROVE  LET res == ParseHttp1(n)
               k == FirstOf(Stops(n))
           IN  /\ res[1] \in Codes /\ res[2] \in Nat
               /\ res[1] = "POSTPONE" => Stops(n) = {} /\ res[2] = n
               /\ res[1] = "PASS" =>
                     /\ k \in Stops(n) /\ \A j \in Stops(n) : k <= j
                     /\ tc.frames[frame_index + 1].data[k] # "x"
                     /\ res[2] = k - pos
<1> DEFINE res == ParseHttp1(n)
           k == FirstOf(Stops(n))
<1>1. CASE tc.type = "RESP" /\ sample_req = "NONE"
  BY <1>1 DEF ParseHttp1, Codes
<1>2. CASE ~(tc.type = "RESP" /\ sample_req = "NONE") /\ Stops(n) = {}
  BY <1>2 DEF ParseHttp1, Codes
<1>3. CASE ~(tc.type = "RESP" /\ sample_req = "NONE") /\ Stops(n) # {}
  <2>1. Stops(n) \subseteq pos + 1..pos + n
    BY DEF Stops
  <2>2. k \in Stops(n) /\ \A j \in Stops(n) : k <= j
    BY <1>3, <2>1, FirstOfLeast
  <2>3. k \in pos + 1..pos + n
    BY <2>1, <2>2
  <2>4. res = IF tc.frames[frame_index + 1].data[k] = "x"
              THEN <<"BLOCK", k - 1 - pos>> ELSE <<"PASS", k - pos>>
    BY <1>3 DEF ParseHttp1
  <2>5. QED
    BY <2>2, <2>3, <2>4 DEF Codes
<1>4. QED
  BY <1>1, <1>2, <1>3

\* One call of the HTTP/2 frame layer on n bytes: it blocks having parsed
\* nothing, or postpones having parsed all n.
LEMMA ParseH2Facts ==
    ASSUME NEW n \in Nat
    PROVE  /\ ParseH2(n)[1] \in {"BLOCK", "POSTPONE"}
           /\ ParseH2(n)[1] = "POSTPONE" => ParseH2(n)[2] = n
           /\ ParseH2(n)[2] \in Nat
BY DEF ParseH2
\* One iteration of split_and_parse_n(): the chunk is cut to the bytes
\* left, so pos stays in the frame; msg.len grows by what the parser
\* reports, which is the whole chunk while it postpones and, for HTTP/1,
\* ends at the first byte that ends the message when it passes.
LEMMA SplitFeed ==
    ASSUME FeedInv, split_and_parse_n
    PROVE  FeedInv'
<1> DEFINE FL == FrameLen(frame_index + 1)
           n == IF chunk_size >= FL - pos THEN FL - pos ELSE chunk_size
           res == IF tc.type = "REQ_H2" THEN ParseH2(n) ELSE ParseHttp1(n)
           D(j) == tc.frames[frame_index + 1].data[j]
<1>1. /\ pc = "feed" /\ pos < FL /\ pos' = pos + n
      /\ msg' = [msg EXCEPT !.len = @ + res[2]] /\ r' = res[1]
      /\ pc' = IF res[1] # "POSTPONE" THEN "frame_done" ELSE "feed"
      /\ UNCHANGED <<tc, sample_req, chunk_size_index, frames_max_sz,
                     frames_total_sz, hm_exp_len, chunk_size, frame_index,
                     failed, first, tried>>
  BY DEF split_and_parse_n, FL, n, res
<1>2. /\ frame_index < Len(tc.frames) /\ FL \in Nat /\ pos \in Nat
      /\ tc.type # "REQ_H2" => frame_index = 0
  BY <1>1, CurFrame DEF FeedInv, FeedShape, TypeOK, FL
<1>3. n \in Nat /\ pos + n <= FL
  BY <1>1, <1>2 DEF FeedInv, TypeOK, n
<1>4. /\ res[1] \in Codes /\ res[2] \in Nat
      /\ res[1] = "POSTPONE" => res[2] = n
      /\ tc.type = "REQ_H2" => res[1] # "PASS"
  BY <1>2, <1>3, ParseHttp1Facts, ParseH2Facts DEF res, Codes
<1>5. \A j : (Ends(j)' <=> Ends(j)) /\ D(j)' = D(j)
  BY <1>1 DEF Ends, D
<1>6. TypeOK'
  <2>1. msg' \in [len : Nat, headers_parsed : BOOLEAN]
    BY <1>1, <1>4 DEF FeedInv, TypeOK
  <2>2. r' \in Codes \cup {"GARBAGE"}
    BY <1>1, <1>4
  <2>3. pos' \in Nat /\ pos' <= FrameLen(frame_index + 1)'
    BY <1>1, <1>2, <1>3 DEF FL, FrameLen
  <2>4. QED
    BY <1>1, <2>1, <2>2, <2>3 DEF FeedInv, TypeOK
<1>7. FeedShape'
  BY <1>1 DEF FeedInv, FeedShape, InAttempt
<1>8. msg'.len = msg.len + res[2]
  BY <1>1, <1>4 DEF FeedInv, TypeOK
<1>9. ASSUME tc.type # "REQ_H2"
      PROVE  (Http1Count /\ ConsumedExact)'
  <2>1. res = ParseHttp1(n) /\ msg.len = pos /\ NoStopBefore(pos)
    BY <1>1, <1>9 DEF FeedInv, Http1Count, res
  <2>2. pc' = "feed" =>
          msg'.len = pos' /\ \A j \in 1..pos' : D(j) # "x" /\ ~Ends(j)
    <3> SUFFICES ASSUME pc' = "feed"
                 PROVE  msg'.len = pos' /\ \A j \in 1..pos' : D(j) # "x" /\ ~Ends(j)
      OBVIOUS
    <3>1. res[1] = "POSTPONE"
      BY <1>1
    <3>2. Stops(n) = {} /\ res[2] = n
      BY <3>1, <2>1, <1>2, <1>3, ParseHttp1Facts
    <3>3. msg'.len = pos'
      BY <3>2, <2>1, <1>1, <1>8
    <3>4. ASSUME NEW j \in 1..pos' PROVE D(j) # "x" /\ ~Ends(j)
      <4>1. CASE j <= pos
        BY <4>1, <2>1, <1>2 DEF NoStopBefore, D
      <4>2. CASE j > pos
        <5>1. j \in pos + 1..pos + n
          BY <4>2, <1>1, <1>2, <1>3
        <5>2. QED
          BY <5>1, <3>2 DEF Stops, D
      <4>3. QED
        BY <4>1, <4>2, <1>2
    <3>5. QED
      BY <3>3, <3>4
  <2>3. (pc' = "frame_done" /\ r' = "PASS" /\ pos' > 0) =>
          /\ msg'.len \in 1..pos'
          /\ Ends(msg'.len)
          /\ \A j \in 1..msg'.len - 1 : ~Ends(j)
    <3> DEFINE k == FirstOf(Stops(n))
    <3> SUFFICES ASSUME r' = "PASS"
                 PROVE  /\ msg'.len \in 1..pos'
                        /\ Ends(msg'.len)
                        /\ \A j \in 1..msg'.len - 1 : ~Ends(j)
      OBVIOUS
    <3>1. /\ k \in Stops(n) /\ \A j \in Stops(n) : k <= j
          /\ D(k) # "x" /\ res[2] = k - pos
      BY <1>1, <2>1, <1>2, <1>3, ParseHttp1Facts DEF D
    <3>2. k \in pos + 1..pos + n
      BY <3>1 DEF Stops
    <3>3. msg'.len = k
      BY <3>1, <3>2, <2>1, <1>2, <1>3, <1>8
    <3>4. Ends(k)
      BY <3>1 DEF Stops, D
    <3>5. ASSUME NEW j \in 1..k - 1 PROVE ~Ends(j)
      <4>1. CASE j <= pos
        BY <4>1, <2>1, <1>2 DEF NoStopBefore
      <4>2. CASE j > pos
        <5>1. j \in pos + 1..pos + n /\ ~(k <= j)
          BY <4>2, <3>2, <1>2, <1>3
        <5>2. j \notin Stops(n)
          BY <5>1, <3>1
        <5>3. QED
          BY <5>1, <5>2 DEF Stops
      <4>3. QED
        BY <4>1, <4>2, <1>2, <3>2
    <3>6. QED
      BY <3>2, <3>3, <3>4, <3>5, <1>1, <1>2, <1>3, <1>5
  <2>4. QED
    BY <1>1, <1>5, <1>9, <2>2, <2>3 DEF Http1Count, ConsumedExact, NoStopBefore, D
<1>10. ASSUME tc.type = "REQ_H2"
       PROVE  (H2Count /\ ConsumedExact)'
  <2>1. msg.len = FedLen(frame_index) + pos
    BY <1>1, <1>10 DEF FeedInv, H2Count
  <2>2. FedLen(frame_index) \in Nat
    BY <1>2, CaseLenType DEF FeedInv, TypeOK, FedLen
  <2>5. pc' = "feed" => msg'.len = FedLen(frame_index) + pos'
    BY <1>1, <1>2, <1>3, <1>4, <1>8, <2>1, <2>2
  <2>3. pc' = "frame_done" => r' # "POSTPONE"
    BY <1>1
  <2>4. QED
    BY <1>1, <1>10, <2>5, <2>3 DEF H2Count, ConsumedExact, FedLen
<1>11. H2Count' /\ Http1Count'
  BY <1>1, <1>9, <1>10 DEF H2Count, Http1Count
<1>12. QED
  BY <1>6, <1>7, <1>9, <1>10, <1>11 DEF FeedInv
\* The end of split_and_parse_n(): the whole frame was fed.
LEMMA SplitDoneFeed ==
    ASSUME FeedInv, SplitDone
    PROVE  FeedInv'
<1>1. /\ pc = "feed" /\ pos >= FrameLen(frame_index + 1) /\ pc' = "frame_done"
      /\ UNCHANGED <<tc, sample_req, chunk_size_index, frames_max_sz,
                     frames_total_sz, hm_exp_len, msg, chunk_size, frame_index,
                     pos, r, failed, first, tried>>
  BY DEF SplitDone
<1>2. frame_index < Len(tc.frames) /\ FrameLen(frame_index + 1) \in Nat
  BY <1>1, CurFrame DEF FeedInv, FeedShape
<1>3. TypeOK' /\ FeedShape'
  BY <1>1 DEF FeedInv, TypeOK, FeedShape, InAttempt, FrameLen
<1>4. (Http1Count /\ ConsumedExact)'
  BY <1>1 DEF FeedInv, FeedShape, Http1Count, ConsumedExact
<1>5. H2Count'
  <2> SUFFICES ASSUME tc.type = "REQ_H2", r = "POSTPONE"
               PROVE  msg.len = FedLen(frame_index + 1)
    BY <1>1 DEF H2Count, FedLen
  <2>1. msg.len = FedLen(frame_index) + pos /\ pos = FrameLen(frame_index + 1)
    BY <1>1, <1>2 DEF FeedInv, H2Count, TypeOK
  <2>2. FedLen(frame_index + 1) = FedLen(frame_index) + FrameLen(frame_index + 1)
    BY <1>2, CaseLenStep DEF FeedInv, TypeOK, FedLen, FrameLen
  <2>3. QED
    BY <2>1, <2>2
<1>6. QED
  BY <1>3, <1>4, <1>5 DEF FeedInv

\* After a frame: a code other than Postpone ends the attempt; a Postpone
\* moves to the next frame, the count of the frames fed so far moving
\* with it.
LEMMA FrameDoneFeed ==
    ASSUME FeedInv, FrameDone
    PROVE  FeedInv'
<1>1. /\ pc = "frame_done"
      /\ UNCHANGED <<tc, sample_req, chunk_size_index, frames_max_sz,
                     frames_total_sz, hm_exp_len, chunk_size, pos, failed,
                     first, tried>>
  BY DEF FrameDone
<1>2. frame_index < Len(tc.frames) /\ frame_index \in Nat
  BY <1>1 DEF FeedInv, FeedShape, TypeOK
<1>3. CASE r # "POSTPONE" /\ pc' = "finish" /\ UNCHANGED <<msg, frame_index, r>>
  <2>1. TypeOK' /\ FeedShape'
    BY <1>1, <1>2, <1>3 DEF FeedInv, TypeOK, FeedShape, InAttempt
  <2>2. (Http1Count /\ H2Count /\ ConsumedExact)'
    BY <1>1, <1>3 DEF Http1Count, H2Count, ConsumedExact
  <2>3. QED
    BY <2>1, <2>2 DEF FeedInv
<1>4. CASE r = "POSTPONE" /\ r' = "BLOCK" /\ pc' = "finish"
           /\ UNCHANGED <<msg, frame_index>>
  <2>1. TypeOK' /\ FeedShape'
    BY <1>1, <1>2, <1>4 DEF FeedInv, TypeOK, FeedShape, InAttempt, Codes
  <2>2. (Http1Count /\ H2Count /\ ConsumedExact)'
    BY <1>1, <1>4 DEF Http1Count, H2Count, ConsumedExact
  <2>3. QED
    BY <2>1, <2>2 DEF FeedInv
<1>5. CASE /\ r = "POSTPONE" /\ UNCHANGED r
           /\ msg'.len = msg.len /\ msg' \in [len : Nat, headers_parsed : BOOLEAN]
           /\ frame_index' = frame_index + 1 /\ pc' = "frame"
  <2>1. TypeOK' /\ FeedShape'
    BY <1>1, <1>2, <1>5 DEF FeedInv, TypeOK, FeedShape, InAttempt
  <2>2. Http1Count'
    BY <1>1, <1>2, <1>5 DEF Http1Count
  <2>3. H2Count'
    BY <1>1, <1>5 DEF FeedInv, H2Count, FedLen
  <2>4. ConsumedExact'
    BY <1>5 DEF ConsumedExact
  <2>5. QED
    BY <2>1, <2>2, <2>3, <2>4 DEF FeedInv
<1>6. QED
  <2>1. msg \in [len : Nat, headers_parsed : BOOLEAN]
    BY DEF FeedInv, TypeOK
  <2>2. [msg EXCEPT !.headers_parsed = TRUE] \in [len : Nat, headers_parsed : BOOLEAN]
        /\ [msg EXCEPT !.headers_parsed = TRUE].len = msg.len
    BY <2>1
  <2>3. CASE /\ r = "POSTPONE"
             /\ tc.type = "REQ_H2" /\ Frames[frame_index + 1].subtype = "HEADERS"
             /\ IF BodylessViolation
                THEN r' = "BLOCK" /\ pc' = "finish" /\ UNCHANGED <<msg, frame_index>>
                ELSE /\ msg' = [msg EXCEPT !.headers_parsed = TRUE]
                     /\ frame_index' = frame_index + 1
                     /\ pc' = "frame"
                     /\ UNCHANGED r
    <3>1. CASE BodylessViolation
      BY <2>3, <3>1, <1>4
    <3>2. CASE ~BodylessViolation
      BY <2>3, <3>2, <2>2, <1>5
    <3>3. QED
      BY <3>1, <3>2
  <2>4. CASE /\ r = "POSTPONE"
             /\ ~(tc.type = "REQ_H2" /\ Frames[frame_index + 1].subtype = "HEADERS")
             /\ frame_index' = frame_index + 1
             /\ pc' = "frame"
             /\ UNCHANGED <<msg, r>>
    BY <2>4, <2>1, <1>5
  <2>5. CASE r # "POSTPONE" /\ pc' = "finish" /\ UNCHANGED <<msg, frame_index, r>>
    BY <2>5, <1>3
  <2>6. QED
    BY <2>3, <2>4, <2>5 DEF FrameDone

\* The frame loop runs out: every frame was fed.
LEMMA FramesDoneFeed ==
    ASSUME FeedInv, FramesDone
    PROVE  FeedInv'
<1>1. /\ pc = "frame" /\ frame_index >= Len(tc.frames) /\ pc' = "finish"
      /\ UNCHANGED <<tc, sample_req, chunk_size_index, frames_max_sz,
                     frames_total_sz, hm_exp_len, msg, chunk_size, frame_index,
                     pos, r, failed, first, tried>>
  BY DEF FramesDone, Frames
<1>2. frame_index = Len(tc.frames)
  BY <1>1, CaseFrames DEF FeedInv, FeedShape, TypeOK
<1>3. TypeOK' /\ FeedShape' /\ Http1Count'
  BY <1>1, <1>2 DEF FeedInv, TypeOK, FeedShape, InAttempt, Http1Count
<1>4. (H2Count /\ ConsumedExact)'
  <2> SUFFICES ASSUME tc.type = "REQ_H2", r = "POSTPONE"
               PROVE  /\ frame_index = Len(tc.frames)
                      /\ msg.len = FedLen(frame_index)
                      /\ msg.len = frames_total_sz
    BY <1>1 DEF H2Count, ConsumedExact, FedLen
  <2>1. msg.len = FedLen(frame_index)
    BY <1>1 DEF FeedInv, H2Count
  <2>2. frames_total_sz = FedLen(frame_index)
    BY <1>1, <1>2, TotalLenValue DEF FeedInv, FeedShape, TypeOK, FedLen
  <2>3. QED
    BY <1>2, <2>1, <2>2
<1>5. QED
  BY <1>3, <1>4 DEF FeedInv
\* The exit of do_split_and_parse() and the macro's verdict.
LEMMA EndFeed ==
    ASSUME FeedInv, DoSplitAndParseEnd
    PROVE  FeedInv'
<1>1. /\ pc = "finish" /\ pc' \in {"attempt", "idle"} /\ r' = FinishCode
      /\ chunk_size_index' \in {CHUNK_SIZE_CNT, chunk_size_index + 1}
      /\ first' \in {first, [r |-> FinishCode, len |-> msg.len]}
      /\ failed' \in BOOLEAN
      /\ UNCHANGED <<tc, sample_req, frames_max_sz, frames_total_sz,
                     hm_exp_len, msg, chunk_size, frame_index, pos, tried>>
  BY DEF DoSplitAndParseEnd
<1>2. chunk_size_index < CHUNK_SIZE_CNT /\ chunk_size_index \in Nat
  BY <1>1 DEF FeedInv, FeedShape, TypeOK, InAttempt
<1>3. FinishCode \in Codes \cup {"GARBAGE"}
  BY DEF FeedInv, TypeOK, FinishCode, H2Finish, Codes
<1>4. TypeOK'
  <2>1. first' \in [r : Codes \cup {"NONE", "GARBAGE"}, len : Nat]
    BY <1>1, <1>3 DEF FeedInv, TypeOK
  <2>2. chunk_size_index' \in 0..CHUNK_SIZE_CNT
    BY <1>1, <1>2, ChunkCntType
  <2>3. QED
    BY <1>1, <1>3, <2>1, <2>2 DEF FeedInv, TypeOK
<1>5. (FeedShape /\ Http1Count /\ H2Count /\ ConsumedExact)'
  BY <1>1 DEF FeedInv, FeedShape, InAttempt, Http1Count, H2Count, ConsumedExact
<1>6. QED
  BY <1>4, <1>5 DEF FeedInv

LEMMA NextFeed == FeedInv /\ [Next]_vars => FeedInv'
<1> SUFFICES ASSUME FeedInv, [Next]_vars PROVE FeedInv'
  OBVIOUS
<1>1. CASE \E m \in Methods \ {"NONE"} : set_sample_req(m)
  BY <1>1, SampleFeed
<1>2. CASE \E c \in Cases : PrepareCase(c)
  BY <1>2, PrepareFeed
<1>3. CASE Driver
  BY <1>3, EofFeed, BeginFeed, StartFrameFeed, SplitFeed, SplitDoneFeed,
     FrameDoneFeed, FramesDoneFeed, EndFeed DEF Driver
<1>4. CASE UNCHANGED vars
  BY <1>4 DEF vars, FeedInv, TypeOK, FeedShape, Http1Count, H2Count,
     ConsumedExact, NoStopBefore, Ends, FedLen, FrameLen, InAttempt
<1>5. QED
  BY <1>1, <1>2, <1>3, <1>4 DEF Next

(* Type correctness of the driver: for every increasing CHUNK_SIZES[] and *)
(* every set of cases, every variable of do_split_and_parse() and         *)
(* split_and_parse_n() keeps its type, and pos never runs past the frame *)
(* it feeds: the last chunk is cut to the bytes left.                     *)
THEOREM TypeCorrect == Spec => []TypeOK
<1>1. Spec => []FeedInv
  BY InitFeed, NextFeed, PTL DEF Spec
<1>2. QED
  BY <1>1, PTL DEF FeedInv

(* Consumed-length exactness for every increasing CHUNK_SIZES[] and every *)
(* set of cases: while an HTTP/1 message is fed through                  *)
(* split_and_parse_n(), msg.len counts every byte handed over; when the  *)
(* parser passes, msg.len ends exactly at the first byte that ends the   *)
(* message, whatever the chunk size; a fully fed HTTP/2 request counts   *)
(* frames_total_sz.                                                       *)
THEOREM ConsumedExactThm == Spec => []ConsumedExact
<1>1. Spec => []FeedInv
  BY InitFeed, NextFeed, PTL DEF Spec
<1>2. QED
  BY <1>1, PTL DEF FeedInv
====
