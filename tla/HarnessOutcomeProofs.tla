------------------------ MODULE HarnessOutcomeProofs ------------------------
(* Proof that the verdict of do_split_and_parse() does not depend on the  *)
(* chunk size: every attempt of a case ends with the code of the first,  *)
(* and a passing one with the same length.                                *)
EXTENDS HarnessFeedProofs

\* Every case has a frame: with frames_cnt = 0 the frame loop never runs
\* and do_split_and_parse() returns its uninitialized r.
NonEmptyCases == \A c \in Cases : c.frames # <<>>

\* Byte k of frame i, and whether it ends the message or stops an HTTP/1
\* parser (Ends and Stops of the parser, for a fixed frame).
Dat(i) == tc.frames[i].data
EndsAt(i, k) ==
    \/ Dat(i)[k] = "e"
    \/ Dat(i)[k] = "h" /\ tc.type = "RESP" /\ sample_req = "HEAD"
StopsIn(i) == {k \in 1..FrameLen(i) : Dat(i)[k] = "x" \/ EndsAt(i, k)}

\* The verdict on an HTTP/1 message: an empty one passes untouched, an
\* unpaired response is blocked, otherwise the first byte that stops the
\* parser decides.
NoPair == tc.type = "RESP" /\ sample_req = "NONE"
Http1Code ==
    IF FrameLen(1) = 0 THEN "PASS"
    ELSE IF NoPair THEN "BLOCK"
    ELSE IF StopsIn(1) = {} THEN "POSTPONE"
    ELSE IF Dat(1)[FirstOf(StopsIn(1))] = "x" THEN "BLOCK"
    ELSE "PASS"
Http1Len == IF FrameLen(1) = 0 THEN 0 ELSE FirstOf(StopsIn(1))

\* The verdict on HTTP/2 frame i: an empty DATA frame is skipped, another
\* empty frame passes, a frame with a byte outside the grammar blocks, so
\* does a HEADERS frame failing the bodyless-method check.  RawCode is the
\* code split_and_parse_n() returns, FrameCode what the frame loop makes
\* of it.
Skip(i) == tc.frames[i].subtype = "DATA" /\ FrameLen(i) = 0
HasX(i) == \E k \in 1..FrameLen(i) : Dat(i)[k] = "x"
HasM(i) == \E k \in 1..FrameLen(i) : Dat(i)[k] = "m"
RawCode(i) ==
    IF Skip(i) THEN "POSTPONE"
    ELSE IF FrameLen(i) = 0 THEN "PASS"
    ELSE IF HasX(i) THEN "BLOCK"
    ELSE "POSTPONE"
FrameCode(i) ==
    IF RawCode(i) = "POSTPONE" /\ tc.frames[i].subtype = "HEADERS" /\ HasM(i)
    THEN "BLOCK" ELSE RawCode(i)

\* The frames on which the HTTP/2 frame loop stops, and whether a header
\* block was parsed among the first i frames.
StopFrames == {i \in 1..Len(tc.frames) : FrameCode(i) # "POSTPONE"}
HeadersIn(i) == \E j \in 1..i : tc.frames[j].subtype = "HEADERS"
H2Code ==
    IF StopFrames = {} THEN IF HeadersIn(Len(tc.frames)) THEN "PASS" ELSE "BLOCK"
    ELSE FrameCode(FirstOf(StopFrames))
H2Len ==
    IF StopFrames = {} THEN FedLen(Len(tc.frames))
    ELSE FedLen(FirstOf(StopFrames) - 1)

VerdictCode == IF tc.type = "REQ_H2" THEN H2Code ELSE Http1Code
VerdictLen == IF tc.type = "REQ_H2" THEN H2Len ELSE Http1Len

\* Inside an attempt on an HTTP/1 message: where the parser stands.
Http1Progress ==
    tc.type # "REQ_H2" =>
        /\ (pc = "frame" /\ frame_index = 1) =>
              r = "POSTPONE" /\ Http1Code = "POSTPONE"
        /\ (pc = "feed" /\ r = "POSTPONE") => ~NoPair
        /\ pc = "frame_done" =>
              /\ r = Http1Code
              /\ r = "PASS" => msg.len = Http1Len

\* Inside an attempt on an HTTP/2 request: every frame before the current
\* one was postponed, and the header flag records the HEADERS frames.
Continued(i) == \A j \in 1..i : FrameCode(j) = "POSTPONE"
H2Progress ==
    tc.type = "REQ_H2" =>
        /\ pc \in {"frame", "feed", "frame_done"} =>
              /\ Continued(frame_index)
              /\ msg.headers_parsed <=> HeadersIn(frame_index)
        /\ (pc = "frame" /\ frame_index > 0) => r = "POSTPONE"
        /\ pc = "feed" =>
              /\ ~Skip(frame_index + 1)
              /\ \A k \in 1..pos : Dat(frame_index + 1)[k] # "x"
        /\ pc = "frame_done" =>
              /\ r = RawCode(frame_index + 1)
              /\ r = "PASS" => msg.len = FedLen(frame_index)

\* split_and_parse_n() on an empty frame returns its initial TFW_PASS.
FeedStart == (pc = "feed" /\ FrameLen(frame_index + 1) = 0) => r = "PASS"

\* An attempt ends with the verdict, and the first attempt recorded it.
VerdictReached ==
    /\ pc = "finish" =>
          /\ FinishCode = VerdictCode
          /\ VerdictCode = "PASS" => msg.len = VerdictLen
    /\ (pc # "idle" /\ first # NoOutcome) =>
          /\ first.r = VerdictCode
          /\ first.r = "PASS" => first.len = VerdictLen

OutInv == FeedInv /\ FeedStart /\ Http1Progress /\ H2Progress /\ VerdictReached
-----------------------------------------------------------------------------
\* The verdict is a function of the case and the paired request alone.
LEMMA Frozen ==
    ASSUME tc' = tc, sample_req' = sample_req
    PROVE  /\ VerdictCode' = VerdictCode /\ VerdictLen' = VerdictLen
           /\ Http1Code' = Http1Code /\ Http1Len' = Http1Len /\ NoPair' = NoPair
           /\ \A i : /\ RawCode(i)' = RawCode(i) /\ FrameCode(i)' = FrameCode(i)
                    /\ Skip(i)' = Skip(i) /\ HeadersIn(i)' = HeadersIn(i)
                    /\ Continued(i)' = Continued(i) /\ Dat(i)' = Dat(i)
                    /\ FedLen(i)' = FedLen(i) /\ FrameLen(i)' = FrameLen(i)
                    /\ HasM(i)' = HasM(i)
BY DEF VerdictCode, VerdictLen, Http1Code, Http1Len, NoPair, H2Code, H2Len,
       StopFrames, RawCode, FrameCode, Skip, HeadersIn, Continued, Dat,
       FedLen, FrameLen, HasX, HasM, StopsIn, EndsAt

\* The least element of a set of numbers is the one FirstOf picks.
LEMMA LeastIsFirst ==
    ASSUME NEW T \in SUBSET Nat, NEW k \in T, \A j \in T : k <= j
    PROVE  FirstOf(T) = k
<1>1. FirstOf(T) \in T /\ FirstOf(T) <= k
  BY FirstOfLeast
<1>2. k <= FirstOf(T) /\ k \in Nat /\ FirstOf(T) \in Nat
  BY <1>1
<1>3. QED
  BY <1>1, <1>2

LEMMA InitOut == Init => OutInv
<1> SUFFICES ASSUME Init PROVE OutInv
  OBVIOUS
<1>1. (FeedStart /\ Http1Progress /\ H2Progress /\ VerdictReached)
  BY DEF Init, FeedStart, Http1Progress, H2Progress, VerdictReached
<1>2. QED
  BY <1>1, InitFeed DEF OutInv

LEMMA SampleOut ==
    ASSUME OutInv, NEW m \in Methods \ {"NONE"}, set_sample_req(m)
    PROVE  OutInv'
<1>1. pc = "idle" /\ pc' = "idle"
  BY DEF set_sample_req
<1>2. (FeedStart /\ Http1Progress /\ H2Progress /\ VerdictReached)'
  BY <1>1 DEF FeedStart, Http1Progress, H2Progress, VerdictReached
<1>3. QED
  BY <1>2, SampleFeed DEF OutInv

LEMMA PrepareOut ==
    ASSUME OutInv, NEW c \in Cases, PrepareCase(c)
    PROVE  OutInv'
<1>1. pc' = "attempt" /\ first' = NoOutcome
  BY DEF PrepareCase
<1>2. (FeedStart /\ Http1Progress /\ H2Progress /\ VerdictReached)'
  BY <1>1 DEF FeedStart, Http1Progress, H2Progress, VerdictReached
<1>3. QED
  BY <1>2, PrepareFeed DEF OutInv

LEMMA EofOut ==
    ASSUME OutInv, DoSplitAndParseEof
    PROVE  OutInv'
<1>1. pc' = "idle"
  BY DEF DoSplitAndParseEof
<1>2. (FeedStart /\ Http1Progress /\ H2Progress /\ VerdictReached)'
  BY <1>1 DEF FeedStart, Http1Progress, H2Progress, VerdictReached
<1>3. QED
  BY <1>2, EofFeed DEF OutInv

LEMMA BeginOut ==
    ASSUME OutInv, DoSplitAndParseBegin
    PROVE  OutInv'
<1>1. /\ pc = "attempt" /\ pc' = "frame" /\ frame_index' = 0
      /\ msg' = FreshMsg
      /\ UNCHANGED <<tc, sample_req, first>>
  BY DEF DoSplitAndParseBegin
<1>2. (FeedStart /\ Http1Progress)'
  BY <1>1 DEF FeedStart, Http1Progress
<1>3. H2Progress'
  <2>1. Continued(frame_index)' /\ ~HeadersIn(frame_index)'
    BY <1>1 DEF Continued, HeadersIn
  <2>2. msg'.headers_parsed = FALSE
    BY <1>1 DEF FreshMsg
  <2>3. msg'.headers_parsed <=> HeadersIn(frame_index)'
    BY <2>1, <2>2
  <2>4. ~(frame_index' > 0)
    BY <1>1
  <2>5. QED
    BY <1>1, <2>1, <2>3, <2>4 DEF H2Progress
<1>4. VerdictReached'
  BY <1>1, Frozen DEF OutInv, VerdictReached
<1>5. QED
  BY <1>2, <1>3, <1>4, BeginFeed DEF OutInv
\* A step inside an attempt that leaves the case, the paired request and
\* the first outcome alone keeps the recorded verdict.
LEMMA FirstKept ==
    ASSUME OutInv, pc # "idle", pc' # "idle", pc' # "finish",
           UNCHANGED <<tc, sample_req, first>>
    PROVE  VerdictReached'
BY Frozen DEF OutInv, VerdictReached

LEMMA StartFrameOut ==
    ASSUME OutInv, StartFrame
    PROVE  OutInv'
<1> DEFINE Empty == tc.type = "REQ_H2" /\ Frames[frame_index + 1].subtype = "DATA"
                    /\ FrameLen(frame_index + 1) = 0
<1>1. /\ pc = "frame" /\ pos' = 0
      /\ Empty => r' = "POSTPONE" /\ pc' = "frame_done"
      /\ ~Empty => r' = "PASS" /\ pc' = "feed"
      /\ UNCHANGED <<tc, sample_req, msg, frame_index, first>>
  BY DEF StartFrame, Frames, Empty
<1>2. (FeedStart /\ Http1Progress)'
  BY <1>1 DEF FeedStart, Http1Progress, Empty
<1>3. H2Progress'
  <2> SUFFICES ASSUME tc.type = "REQ_H2"
               PROVE  H2Progress'
    BY <1>1 DEF H2Progress
  <2>1. Continued(frame_index) /\ (msg.headers_parsed <=> HeadersIn(frame_index))
    BY <1>1 DEF OutInv, H2Progress
  <2>2. (Continued(frame_index) /\ (msg.headers_parsed <=> HeadersIn(frame_index)))'
    BY <1>1, <2>1, Frozen
  <2>3. Empty <=> Skip(frame_index + 1)
    BY DEF Empty, Skip, Frames
  <2>4. pc' = "feed" => ~Skip(frame_index + 1)'
    BY <1>1, <2>3, Frozen
  <2>5. pc' = "frame_done" => r' = RawCode(frame_index + 1)'
    BY <1>1, <2>3, Frozen DEF RawCode
  <2>6. QED
    BY <1>1, <2>2, <2>4, <2>5 DEF H2Progress
<1>4. VerdictReached'
  BY <1>1, FirstKept DEF Empty
<1>5. QED
  BY <1>2, <1>3, <1>4, StartFrameFeed DEF OutInv
\* One iteration of split_and_parse_n(): the parser stops inside the
\* chunk exactly where it would stop on the whole frame, because no byte
\* before the chunk stops it.
LEMMA SplitOut ==
    ASSUME OutInv, split_and_parse_n
    PROVE  OutInv'
<1> DEFINE FL == FrameLen(frame_index + 1)
           n == IF chunk_size >= FL - pos THEN FL - pos ELSE chunk_size
           res == IF tc.type = "REQ_H2" THEN ParseH2(n) ELSE ParseHttp1(n)
           D(j) == tc.frames[frame_index + 1].data[j]
<1>1. /\ pc = "feed" /\ pos < FL /\ pos' = pos + n
      /\ msg' = [msg EXCEPT !.len = @ + res[2]] /\ r' = res[1]
      /\ pc' = IF res[1] # "POSTPONE" THEN "frame_done" ELSE "feed"
      /\ UNCHANGED <<tc, sample_req, frame_index, first>>
  BY DEF split_and_parse_n, FL, n, res
<1>2. /\ frame_index < Len(tc.frames) /\ frame_index \in Nat
      /\ FL \in Nat /\ pos \in Nat
      /\ tc.type # "REQ_H2" => frame_index = 0
      /\ msg \in [len : Nat, headers_parsed : BOOLEAN]
  BY <1>1, CurFrame DEF OutInv, FeedInv, FeedShape, TypeOK, FL
<1>3. n \in Nat /\ pos + n <= FL
  BY <1>1, <1>2 DEF OutInv, FeedInv, TypeOK, n
<1>4. FeedStart'
  BY <1>1, <1>2, Frozen DEF FeedStart, FL
<1>5. VerdictReached'
  BY <1>1, FirstKept
<1>6. ASSUME tc.type # "REQ_H2"
      PROVE  (Http1Progress /\ H2Progress)'
  <2>1. /\ res = ParseHttp1(n) /\ msg.len = pos /\ frame_index = 0
        /\ \A j \in 1..pos : D(j) # "x" /\ ~Ends(j)
    BY <1>1, <1>2, <1>6 DEF OutInv, FeedInv, Http1Count, NoStopBefore, res, D
  <2>2. (pc' = "feed" /\ r' = "POSTPONE") => ~NoPair
    BY <1>1, <2>1 DEF ParseHttp1, NoPair
  <2>3. ASSUME pc' = "frame_done"
        PROVE  r' = Http1Code /\ (r' = "PASS" => msg'.len = Http1Len)
    <3>1. res[1] # "POSTPONE"
      BY <1>1, <2>3
    <3>2. FrameLen(1) # 0
      BY <1>1, <1>2, <2>1 DEF FL
    <3>3. CASE NoPair
      <4>1. res = <<"BLOCK", 0>>
        BY <2>1, <3>3 DEF ParseHttp1, NoPair
      <4>2. Http1Code = "BLOCK"
        BY <3>2, <3>3 DEF Http1Code
      <4>3. QED
        BY <1>1, <4>1, <4>2
    <3>4. CASE ~NoPair
      <4> DEFINE k == FirstOf(Stops(n))
      <4>1. Stops(n) # {}
        BY <2>1, <3>1, <3>4 DEF ParseHttp1, NoPair
      <4>2. Stops(n) \subseteq pos + 1..pos + n
        BY DEF Stops
      <4>3. k \in Stops(n) /\ \A j \in Stops(n) : k <= j
        BY <4>1, <4>2, <1>2, <1>3, FirstOfLeast
      <4>4. k \in pos + 1..pos + n
        BY <4>2, <4>3
      <4>5. res = IF D(k) = "x" THEN <<"BLOCK", k - 1 - pos>> ELSE <<"PASS", k - pos>>
        BY <2>1, <3>4, <4>1 DEF ParseHttp1, NoPair, D
      <4>6. \A j : Ends(j) <=> EndsAt(1, j)
        BY <2>1 DEF Ends, EndsAt, Dat
      <4>7. \A j : D(j) = Dat(1)[j]
        BY <2>1 DEF D, Dat
      <4>8. StopsIn(1) \subseteq Nat
        BY DEF StopsIn
      <4>9. k \in StopsIn(1)
        <5>1. k \in 1..FrameLen(1)
          BY <4>4, <1>2, <1>3, <2>1 DEF FL
        <5>2. D(k) = "x" \/ Ends(k)
          BY <4>3 DEF Stops, D
        <5>3. QED
          BY <5>1, <5>2, <4>6, <4>7 DEF StopsIn
      <4>10. ASSUME NEW j \in StopsIn(1) PROVE k <= j
        <5>1. j \in 1..FL /\ (D(j) = "x" \/ Ends(j))
          BY <4>6, <4>7, <2>1 DEF StopsIn, FL
        <5>2. CASE j <= pos
          BY <5>1, <5>2, <2>1, <1>2
        <5>3. CASE j \in pos + 1..pos + n
          <6>1. j \in Stops(n)
            BY <5>1, <5>3 DEF Stops, D
          <6>2. QED
            BY <6>1, <4>3
        <5>4. CASE j > pos + n
          BY <5>4, <4>4, <1>2, <1>3, <5>1
        <5>5. QED
          BY <5>1, <5>2, <5>3, <5>4, <1>2, <1>3
      <4>11. FirstOf(StopsIn(1)) = k
        BY <4>8, <4>9, <4>10, LeastIsFirst
      <4>12. Http1Code = IF Dat(1)[k] = "x" THEN "BLOCK" ELSE "PASS"
        <5>1. StopsIn(1) # {}
          BY <4>9
        <5>2. Http1Code = IF Dat(1)[FirstOf(StopsIn(1))] = "x" THEN "BLOCK" ELSE "PASS"
          BY <3>2, <3>4, <5>1 DEF Http1Code
        <5>3. QED
          BY <5>2, <4>11
      <4>15. Http1Len = k
        BY <3>2, <4>11 DEF Http1Len
      <4>13. msg'.len = msg.len + res[2]
        BY <1>1, <1>2
      <4>16. D(k) = Dat(1)[k]
        BY <4>7
      <4>17. r' = Http1Code
        BY <1>1, <4>5, <4>12, <4>16
      <4>18. r' = "PASS" => res[2] = k - pos
        BY <1>1, <4>5
      <4>14. QED
        BY <2>1, <4>4, <4>13, <4>15, <4>17, <4>18, <1>2, <1>3
    <3>5. QED
      BY <3>3, <3>4
  <2>4. QED
    BY <1>1, <1>6, <2>2, <2>3, Frozen DEF Http1Progress, H2Progress
<1>7. ASSUME tc.type = "REQ_H2"
      PROVE  (Http1Progress /\ H2Progress)'
  <2>1. /\ res = ParseH2(n)
        /\ Continued(frame_index) /\ (msg.headers_parsed <=> HeadersIn(frame_index))
        /\ ~Skip(frame_index + 1)
        /\ \A j \in 1..pos : D(j) # "x"
    BY <1>1, <1>7 DEF OutInv, H2Progress, res, D, Dat
  <2>2. msg'.headers_parsed = msg.headers_parsed
    BY <1>1, <1>2
  <2>3. pc' = "feed" => \A j \in 1..pos' : D(j) # "x"
    <3> SUFFICES ASSUME pc' = "feed", NEW j \in 1..pos' PROVE D(j) # "x"
      OBVIOUS
    <3>1. ~\E i \in pos + 1..pos + n : D(i) = "x"
      BY <1>1, <2>1 DEF ParseH2, D
    <3>2. QED
      BY <3>1, <2>1, <1>1, <1>2, <1>3
  <2>4. pc' = "frame_done" => r' = RawCode(frame_index + 1) /\ r' # "PASS"
    <3> SUFFICES ASSUME pc' = "frame_done"
                 PROVE  r' = RawCode(frame_index + 1) /\ r' # "PASS"
      OBVIOUS
    <3>1. \E i \in pos + 1..pos + n : D(i) = "x"
      BY <1>1, <2>1 DEF ParseH2, D
    <3>2. HasX(frame_index + 1)
      BY <3>1, <1>2, <1>3 DEF HasX, D, Dat, FL
    <3>3. r' = "BLOCK"
      BY <1>1, <2>1, <3>1 DEF ParseH2, D
    <3>4. QED
      BY <3>2, <3>3, <1>1, <1>2 DEF RawCode, Skip, FL
  <2>6. pc' \in {"feed", "frame_done"}
    BY <1>1
  <2>7. /\ Continued(frame_index)'
        /\ (msg.headers_parsed <=> HeadersIn(frame_index))'
        /\ ~Skip(frame_index + 1)'
    BY <1>1, <2>1, <2>2, Frozen
  <2>8. pc' = "feed" => \A j \in 1..pos' : Dat(frame_index + 1)'[j] # "x"
    BY <1>1, <2>3, Frozen DEF D, Dat
  <2>9. pc' = "frame_done" => r' = RawCode(frame_index + 1)'
    BY <1>1, <2>4, Frozen
  <2>10. H2Progress'
    BY <2>6, <2>7, <2>8, <2>9, <2>4 DEF H2Progress
  <2>5. QED
    BY <1>1, <1>7, <2>10 DEF Http1Progress
<1>8. QED
  BY <1>4, <1>5, <1>6, <1>7, SplitFeed DEF OutInv
\* The whole frame was fed: an empty one returns the initial Pass, any
\* other was postponed throughout and holds nothing that stops the parser.
LEMMA SplitDoneOut ==
    ASSUME OutInv, SplitDone
    PROVE  OutInv'
<1> DEFINE FL == FrameLen(frame_index + 1)
<1>1. /\ pc = "feed" /\ pos >= FL /\ pc' = "frame_done"
      /\ UNCHANGED <<tc, sample_req, msg, frame_index, pos, r, first>>
  BY DEF SplitDone, FL
<1>2. /\ frame_index < Len(tc.frames) /\ FL \in Nat /\ pos \in Nat /\ pos = FL
      /\ tc.type # "REQ_H2" => frame_index = 0
  BY <1>1, CurFrame DEF OutInv, FeedInv, FeedShape, TypeOK, FL
<1>3. FL = 0 => r = "PASS"
  BY <1>1 DEF OutInv, FeedStart, FL
<1>4. FL > 0 => r = "POSTPONE"
  BY <1>1, <1>2 DEF OutInv, FeedInv, FeedShape
<1>5. FeedStart' /\ VerdictReached'
  BY <1>1, FirstKept DEF FeedStart
<1>6. ASSUME tc.type # "REQ_H2"
      PROVE  (Http1Progress /\ H2Progress)'
  <2>1. /\ msg.len = pos /\ frame_index = 0
        /\ \A j \in 1..pos : Dat(1)[j] # "x" /\ ~EndsAt(1, j)
    BY <1>1, <1>2, <1>6 DEF OutInv, FeedInv, Http1Count, NoStopBefore, Ends,
       EndsAt, Dat
  <2>2. r = Http1Code /\ (r = "PASS" => msg.len = Http1Len)
    <3>1. CASE FL = 0
      BY <3>1, <1>3, <2>1, <1>2 DEF Http1Code, Http1Len, FL
    <3>2. CASE FL > 0
      <4>1. ~NoPair
        BY <3>2, <1>1, <1>4, <1>6 DEF OutInv, Http1Progress
      <4>2. StopsIn(1) = {}
        BY <2>1, <1>2 DEF StopsIn, FL
      <4>3. QED
        BY <3>2, <1>4, <4>1, <4>2, <2>1 DEF Http1Code, FL
    <3>3. QED
      BY <3>1, <3>2, <1>2
  <2>3. QED
    BY <1>1, <1>6, <2>2, Frozen DEF Http1Progress, H2Progress
<1>7. ASSUME tc.type = "REQ_H2"
      PROVE  (Http1Progress /\ H2Progress)'
  <2>1. /\ Continued(frame_index) /\ (msg.headers_parsed <=> HeadersIn(frame_index))
        /\ ~Skip(frame_index + 1)
        /\ \A j \in 1..pos : Dat(frame_index + 1)[j] # "x"
        /\ msg.len = FedLen(frame_index) + pos
    BY <1>1, <1>7 DEF OutInv, H2Progress, FeedInv, H2Count
  <2>2. r = RawCode(frame_index + 1)
    <3>1. CASE FL = 0
      BY <3>1, <1>3, <2>1 DEF RawCode, FL
    <3>2. CASE FL > 0
      <4>1. ~HasX(frame_index + 1)
        BY <2>1, <1>2 DEF HasX, FL
      <4>2. QED
        BY <3>2, <1>4, <4>1, <2>1 DEF RawCode, FL
    <3>3. QED
      BY <3>1, <3>2, <1>2
  <2>3. r = "PASS" => msg.len = FedLen(frame_index)
    <3> SUFFICES ASSUME r = "PASS" PROVE msg.len = FedLen(frame_index)
      OBVIOUS
    <3>1. pos = 0
      BY <1>2, <1>4
    <3>2. FedLen(frame_index) \in Nat
      BY <1>2, CaseLenType DEF OutInv, FeedInv, TypeOK, FedLen
    <3>3. QED
      BY <2>1, <3>1, <3>2
  <2>4. QED
    BY <1>1, <1>7, <2>1, <2>2, <2>3, Frozen DEF Http1Progress, H2Progress
<1>8. QED
  BY <1>5, <1>6, <1>7, SplitDoneFeed DEF OutInv
\* The HTTP/2 frame loop stops at the first frame that does not postpone,
\* with the bytes of the frames before it counted; when none stops it, it
\* runs out with all the frames counted.
LEMMA StopAt ==
    ASSUME NEW i \in Nat, i < Len(tc.frames), Continued(i),
           FrameCode(i + 1) # "POSTPONE"
    PROVE  H2Code = FrameCode(i + 1) /\ H2Len = FedLen(i)
<1>1. StopFrames \subseteq Nat /\ i + 1 \in StopFrames
  BY DEF StopFrames
<1>2. \A j \in StopFrames : i + 1 <= j
  BY DEF StopFrames, Continued
<1>3. FirstOf(StopFrames) = i + 1
  BY <1>1, <1>2, LeastIsFirst
<1>4. QED
  BY <1>1, <1>3 DEF H2Code, H2Len

LEMMA NoStop ==
    ASSUME NEW i, i = Len(tc.frames), Continued(i)
    PROVE  /\ H2Code = IF HeadersIn(i) THEN "PASS" ELSE "BLOCK"
           /\ H2Len = FedLen(i)
<1>1. StopFrames = {}
  BY DEF StopFrames, Continued
<1>2. QED
  BY <1>1 DEF H2Code, H2Len

\* One more frame postponed.
LEMMA ContinuedStep ==
    ASSUME NEW i \in Nat, Continued(i), FrameCode(i + 1) = "POSTPONE"
    PROVE  /\ Continued(i + 1)
           /\ HeadersIn(i + 1) <=> (HeadersIn(i) \/ tc.frames[i + 1].subtype = "HEADERS")
<1>1. Continued(i + 1)
  BY DEF Continued
<1>2. HeadersIn(i + 1) <=> (HeadersIn(i) \/ tc.frames[i + 1].subtype = "HEADERS")
  BY DEF HeadersIn
<1>3. QED
  BY <1>1, <1>2
\* After a frame: a code other than Postpone is the verdict; a Postpone
\* passes the bodyless-method check of a HEADERS frame or blocks on it.
LEMMA FrameDoneOut ==
    ASSUME OutInv, FrameDone
    PROVE  OutInv'
<1>1. /\ pc = "frame_done" /\ UNCHANGED <<tc, sample_req, pos, first>>
  BY DEF FrameDone
<1>2. /\ frame_index < Len(tc.frames) /\ frame_index \in Nat
      /\ tc.type # "REQ_H2" => frame_index = 0
      /\ msg \in [len : Nat, headers_parsed : BOOLEAN]
  BY <1>1, CurFrame DEF OutInv, FeedInv, FeedShape, TypeOK
<1>3. tc.type # "REQ_H2" => r = Http1Code /\ (r = "PASS" => msg.len = Http1Len)
  BY <1>1 DEF OutInv, Http1Progress
<1>4. tc.type = "REQ_H2" =>
        /\ Continued(frame_index) /\ (msg.headers_parsed <=> HeadersIn(frame_index))
        /\ r = RawCode(frame_index + 1)
        /\ r = "PASS" => msg.len = FedLen(frame_index)
  BY <1>1 DEF OutInv, H2Progress
<1>5. CASE r # "POSTPONE" /\ pc' = "finish" /\ UNCHANGED <<msg, frame_index, r>>
  <2>1. FinishCode' = r
    BY <1>5 DEF FinishCode
  <2>2. r = VerdictCode /\ (VerdictCode = "PASS" => msg.len = VerdictLen)
    <3>1. CASE tc.type # "REQ_H2"
      BY <3>1, <1>3 DEF VerdictCode, VerdictLen
    <3>2. CASE tc.type = "REQ_H2"
      <4>1. FrameCode(frame_index + 1) = r
        BY <3>2, <1>4, <1>5 DEF FrameCode
      <4>2. H2Code = r /\ H2Len = FedLen(frame_index)
        BY <4>1, <1>5, <1>2, <1>4, <3>2, StopAt
      <4>3. QED
        BY <3>2, <4>2, <1>4 DEF VerdictCode, VerdictLen
    <3>3. QED
      BY <3>1, <3>2
  <2>3. VerdictReached'
    BY <1>1, <1>5, <2>1, <2>2, Frozen DEF OutInv, VerdictReached
  <2>4. (FeedStart /\ Http1Progress /\ H2Progress)'
    BY <1>5 DEF FeedStart, Http1Progress, H2Progress
  <2>5. QED
    BY <2>3, <2>4, FrameDoneFeed DEF OutInv
<1>6. CASE /\ r = "POSTPONE"
           /\ tc.type = "REQ_H2" /\ Frames[frame_index + 1].subtype = "HEADERS"
           /\ BodylessViolation
           /\ r' = "BLOCK" /\ pc' = "finish" /\ UNCHANGED <<msg, frame_index>>
  <2>1. FrameCode(frame_index + 1) = "BLOCK"
    BY <1>6, <1>4 DEF FrameCode, HasM, BodylessViolation, Dat, FrameLen, Frames
  <2>2. H2Code = "BLOCK"
    BY <2>1, <1>2, <1>4, <1>6, StopAt
  <2>3. FinishCode' = "BLOCK"
    BY <1>6, <1>1 DEF FinishCode
  <2>4. VerdictReached'
    BY <1>1, <1>6, <2>2, <2>3, Frozen DEF OutInv, VerdictReached, VerdictCode
  <2>5. (FeedStart /\ Http1Progress /\ H2Progress)'
    BY <1>6 DEF FeedStart, Http1Progress, H2Progress
  <2>6. QED
    BY <2>4, <2>5, FrameDoneFeed DEF OutInv
<1>7. CASE /\ r = "POSTPONE" /\ UNCHANGED r /\ pc' = "frame"
           /\ frame_index' = frame_index + 1
           /\ (tc.type = "REQ_H2" => FrameCode(frame_index + 1) = "POSTPONE")
           /\ (tc.type = "REQ_H2" =>
                 (msg'.headers_parsed <=> HeadersIn(frame_index + 1)))
  <2>1. Http1Progress'
    <3>1. tc.type # "REQ_H2" => Http1Code = "POSTPONE"
      BY <1>3, <1>7
    <3>2. QED
      BY <1>1, <1>7, <3>1, Frozen DEF Http1Progress
  <2>2. H2Progress'
    <3> SUFFICES ASSUME tc.type = "REQ_H2" PROVE H2Progress'
      BY <1>1 DEF H2Progress
    <3>1. Continued(frame_index + 1)
      BY <1>2, <1>4, <1>7, ContinuedStep
    <3>2. QED
      BY <1>1, <1>7, <3>1, Frozen DEF H2Progress
  <2>3. FeedStart' /\ VerdictReached'
    BY <1>1, <1>7, FirstKept DEF FeedStart
  <2>4. QED
    BY <2>1, <2>2, <2>3, FrameDoneFeed DEF OutInv
<1>8. QED
  <2>1. CASE /\ r = "POSTPONE"
             /\ tc.type = "REQ_H2" /\ Frames[frame_index + 1].subtype = "HEADERS"
             /\ ~BodylessViolation
             /\ msg' = [msg EXCEPT !.headers_parsed = TRUE]
             /\ frame_index' = frame_index + 1
             /\ pc' = "frame"
             /\ UNCHANGED r
    <3>1. FrameCode(frame_index + 1) = "POSTPONE"
      BY <2>1, <1>4 DEF FrameCode, HasM, BodylessViolation, Dat, FrameLen, Frames
    <3>2. HeadersIn(frame_index + 1)
      <4>1. frame_index + 1 \in 1..frame_index + 1
        BY <1>2
      <4>2. QED
        BY <2>1, <4>1 DEF HeadersIn, Frames
    <3>3. msg'.headers_parsed = TRUE
      BY <2>1, <1>2
    <3>4. QED
      BY <2>1, <3>1, <3>2, <3>3, <1>7
  <2>2. CASE /\ r = "POSTPONE"
             /\ ~(tc.type = "REQ_H2" /\ Frames[frame_index + 1].subtype = "HEADERS")
             /\ frame_index' = frame_index + 1
             /\ pc' = "frame"
             /\ UNCHANGED <<msg, r>>
    <3>1. tc.type = "REQ_H2" => FrameCode(frame_index + 1) = "POSTPONE"
      BY <2>2, <1>4 DEF FrameCode, Frames
    <3>2. tc.type = "REQ_H2" =>
            (HeadersIn(frame_index + 1) <=> HeadersIn(frame_index))
      <4> SUFFICES ASSUME tc.type = "REQ_H2"
                   PROVE  HeadersIn(frame_index + 1) <=> HeadersIn(frame_index)
        OBVIOUS
      <4>1. QED
        BY <2>2, <3>1, <1>2, <1>4, ContinuedStep DEF Frames
    <3>3. QED
      BY <2>2, <3>1, <3>2, <1>4, <1>7
  <2>3. CASE /\ r = "POSTPONE"
             /\ tc.type = "REQ_H2" /\ Frames[frame_index + 1].subtype = "HEADERS"
             /\ BodylessViolation
             /\ r' = "BLOCK" /\ pc' = "finish" /\ UNCHANGED <<msg, frame_index>>
    BY <2>3, <1>6
  <2>4. CASE r # "POSTPONE" /\ pc' = "finish" /\ UNCHANGED <<msg, frame_index, r>>
    BY <2>4, <1>5
  <2>5. QED
    BY <2>1, <2>2, <2>3, <2>4 DEF FrameDone
\* The frame loop runs out after the last frame: an HTTP/1 message still
\* postponed, or an HTTP/2 request that tfw_h2_parse_req_finish passes
\* exactly when a header block was parsed.
LEMMA FramesDoneOut ==
    ASSUME NonEmptyCases, OutInv, FramesDone
    PROVE  OutInv'
<1>1. /\ pc = "frame" /\ frame_index >= Len(tc.frames) /\ pc' = "finish"
      /\ UNCHANGED <<tc, sample_req, msg, frame_index, pos, r, first>>
  BY DEF FramesDone, Frames
<1>2. frame_index = Len(tc.frames) /\ frame_index > 0 /\ frame_index \in Nat
  <2>1. tc \in Cases /\ frame_index <= Len(tc.frames) /\ frame_index \in Nat
    BY <1>1 DEF OutInv, FeedInv, FeedShape, TypeOK
  <2>2. Len(tc.frames) \in Nat \ {0}
    BY <2>1, CaseFrames, EmptySeq DEF NonEmptyCases
  <2>3. QED
    BY <1>1, <2>1, <2>2
<1>3. FinishCode' = VerdictCode /\ (VerdictCode = "PASS" => msg.len = VerdictLen)
  <2>1. CASE tc.type # "REQ_H2"
    <3>1. frame_index = 1
      BY <2>1, <1>2, CasesAssumption DEF OutInv, FeedInv, TypeOK
    <3>2. r = "POSTPONE" /\ Http1Code = "POSTPONE"
      BY <1>1, <2>1, <3>1 DEF OutInv, Http1Progress
    <3>3. QED
      BY <1>1, <2>1, <3>2 DEF FinishCode, VerdictCode
  <2>2. CASE tc.type = "REQ_H2"
    <3>1. /\ Continued(frame_index) /\ (msg.headers_parsed <=> HeadersIn(frame_index))
          /\ r = "POSTPONE"
          /\ msg.len = FedLen(frame_index)
      BY <1>1, <1>2, <2>2 DEF OutInv, H2Progress, FeedInv, H2Count
    <3>2. /\ H2Code = (IF HeadersIn(frame_index) THEN "PASS" ELSE "BLOCK")
          /\ H2Len = FedLen(frame_index)
      BY <3>1, <1>2, NoStop
    <3>3. FinishCode' = IF msg.headers_parsed THEN "PASS" ELSE "BLOCK"
      BY <1>1, <2>2, <3>1 DEF FinishCode, H2Finish
    <3>4. CASE HeadersIn(frame_index)
      <4>1. msg.headers_parsed
        BY <3>1, <3>4
      <4>2. FinishCode' = "PASS" /\ H2Code = "PASS"
        BY <3>2, <3>3, <3>4, <4>1, Zenon
      <4>3. QED
        BY <2>2, <3>1, <3>2, <4>2 DEF VerdictCode, VerdictLen
    <3>5. CASE ~HeadersIn(frame_index)
      <4>1. ~msg.headers_parsed
        BY <3>1, <3>5
      <4>2. FinishCode' = "BLOCK" /\ H2Code = "BLOCK"
        BY <3>2, <3>3, <3>5, <4>1, Zenon
      <4>3. QED
        BY <2>2, <4>2 DEF VerdictCode
    <3>6. QED
      BY <3>4, <3>5
  <2>3. QED
    BY <2>1, <2>2
<1>4. VerdictReached'
  BY <1>1, <1>3, Frozen DEF OutInv, VerdictReached
<1>5. (FeedStart /\ Http1Progress /\ H2Progress)'
  BY <1>1 DEF FeedStart, Http1Progress, H2Progress
<1>6. QED
  BY <1>4, <1>5, FramesDoneFeed DEF OutInv

\* The exit of do_split_and_parse(): the first attempt of a case records
\* the verdict it reached.
LEMMA EndOut ==
    ASSUME OutInv, DoSplitAndParseEnd
    PROVE  OutInv'
<1>1. /\ pc = "finish" /\ pc' \in {"attempt", "idle"}
      /\ first' = IF first = NoOutcome THEN [r |-> FinishCode, len |-> msg.len]
                  ELSE first
      /\ UNCHANGED <<tc, sample_req, msg>>
  BY DEF DoSplitAndParseEnd
<1>2. FinishCode = VerdictCode /\ (VerdictCode = "PASS" => msg.len = VerdictLen)
  BY <1>1 DEF OutInv, VerdictReached
<1>3. first' # NoOutcome =>
        /\ first'.r = VerdictCode
        /\ first'.r = "PASS" => first'.len = VerdictLen
  <2>1. CASE first = NoOutcome
    BY <2>1, <1>1, <1>2
  <2>2. CASE first # NoOutcome
    BY <2>2, <1>1 DEF OutInv, VerdictReached
  <2>3. QED
    BY <2>1, <2>2
<1>4. VerdictReached'
  BY <1>1, <1>3, Frozen DEF VerdictReached
<1>5. (FeedStart /\ Http1Progress /\ H2Progress)'
  BY <1>1 DEF FeedStart, Http1Progress, H2Progress
<1>6. QED
  BY <1>4, <1>5, EndFeed DEF OutInv

LEMMA NextOut ==
    ASSUME NonEmptyCases
    PROVE  OutInv /\ [Next]_vars => OutInv'
<1> SUFFICES ASSUME OutInv, [Next]_vars PROVE OutInv'
  OBVIOUS
<1>1. CASE \E m \in Methods \ {"NONE"} : set_sample_req(m)
  BY <1>1, SampleOut
<1>2. CASE \E c \in Cases : PrepareCase(c)
  BY <1>2, PrepareOut
<1>3. CASE Driver
  BY <1>3, EofOut, BeginOut, StartFrameOut, SplitOut, SplitDoneOut,
     FrameDoneOut, FramesDoneOut, EndOut DEF Driver
<1>4. CASE UNCHANGED vars
  <2>1. FeedInv'
    BY <1>4, NextFeed DEF OutInv
  <2>2. (FeedStart /\ Http1Progress /\ H2Progress /\ VerdictReached)'
    BY <1>4, Frozen DEF vars, OutInv, FeedStart, Http1Progress, H2Progress,
       VerdictReached, NoStopBefore, Ends, FedLen, FrameLen, Dat, FinishCode,
       H2Finish
  <2>3. QED
    BY <2>1, <2>2 DEF OutInv
<1>5. QED
  BY <1>1, <1>2, <1>3, <1>4 DEF Next

(* Fragmentation invariance, for every increasing CHUNK_SIZES[] and every *)
(* set of cases whose builder blocks are not empty: every attempt of      *)
(* do_split_and_parse() on a case, whatever its chunk size, ends with    *)
(* the code of the first attempt, and a passing one with the same        *)
(* message length.  The parser's answer on a chunk that follows a        *)
(* postponed prefix is its answer on the whole frame (OutInv).           *)
THEOREM OutcomeStableThm ==
    ASSUME NonEmptyCases
    PROVE  Spec => []OutcomeStable
<1>1. Init => OutInv
  BY InitOut
<1>2. OutInv /\ [Next]_vars => OutInv'
  BY NextOut
<1>3. OutInv => OutcomeStable
  BY DEF OutInv, VerdictReached, OutcomeStable
<1>4. QED
  BY <1>1, <1>2, <1>3, PTL DEF Spec
====
