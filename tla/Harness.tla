------------------------------ MODULE Harness ------------------------------
(***************************************************************************)
(* The fragmenting test driver of the HTTP parser, src/unnamed/part_000   *)
(* (http_parser test common header), composed with the parser it drives. *)
(*                                                                         *)
(* A test case is a message (HTTP/1 request or response: one frame; an    *)
(* HTTP/2 request: up to two HEADERS/DATA frames built by the H2 builder  *)
(* macros) and an expectation, pass or block.  The FOR_* / EXPECT_BLOCK_* *)
(* macros prepare the case and call do_split_and_parse() in a loop; each  *)
(* call is one attempt: it allocates a fresh message, picks the next      *)
(* chunk size of CHUNK_SIZES[], and feeds every frame to the parser in    *)
(* chunks of that size through split_and_parse_n(), accumulating the      *)
(* parser's "parsed" counts in msg.len.                                   *)
(*                                                                         *)
(* The driver is sequential: pc walks through do_split_and_parse() and    *)
(* split_and_parse_n(); each parser call is one step.                     *)
(*                                                                         *)
(* The parser (tfw_http_parse_req/resp, tfw_h2_parse_req and friends) is  *)
(* not in this repository and is modelled from the specification: a      *)
(* message is a sequence of abstract bytes, "b" an ordinary byte, "x" a   *)
(* byte outside the grammar, "h" the end of the header block, "e" the     *)
(* last byte of a message, "m" an HTTP/2 header that a bodyless method    *)
(* must not carry.  feed returns Block at the first "x", Pass with the    *)
(* bytes up to the end of the message, and Postpone having consumed the   *)
(* whole chunk otherwise.                                                 *)
(***************************************************************************)
EXTENDS Integers, Sequences

CONSTANTS
    CHUNK_SIZES,  \* the chunk sizes tried, increasing (CHUNK_SIZES[] in the code)
    Cases         \* the test cases the test functions run

Codes == {"PASS", "BLOCK", "POSTPONE"}
Syms == {"b", "x", "h", "e", "m"}
Types == {"REQ", "REQ_H2", "RESP"}
Methods == {"NONE", "GET", "HEAD"}
Frame == [subtype : {"NONE", "HEADERS", "DATA"}, data : Seq(Syms)]

CHUNK_SIZE_CNT == Len(CHUNK_SIZES)

\* frames[] of the builder has ARRAY_SIZE 2; an HTTP/1 case has one frame.
FRAMES_MAX == 2

\* CHUNK_SIZES[] is { 1, 2, 3, 4, 8, 16, ... }: positive and increasing.
ASSUME ChunkSizesAssumption ==
    /\ CHUNK_SIZES \in Seq(Nat \ {0})
    /\ CHUNK_SIZE_CNT > 0
    /\ \A i, j \in 1..CHUNK_SIZE_CNT : i < j => CHUNK_SIZES[i] < CHUNK_SIZES[j]
ASSUME CasesAssumption ==
    /\ Cases \subseteq [type : Types, frames : Seq(Frame), sz_diff : Nat,
                        expect : {"pass", "block"}, chunk_on : BOOLEAN]
    /\ \A c \in Cases : Len(c.frames) <= FRAMES_MAX
    \* test_case_parse_prepare_http sets frames_cnt = 1.
    /\ \A c \in Cases : c.type # "REQ_H2" => Len(c.frames) = 1

VARIABLES
    pc,                \* where the driver is
    tc,                \* the test case being run
    sample_req,        \* method of the request set by set_sample_req()
    chunk_size_index,  \* the next entry of CHUNK_SIZES[] to try (0-based)
    frames_max_sz,     \* the longest frame of the case
    frames_total_sz,   \* the sum of the frame lengths
    hm_exp_len,        \* the message length the case expects
    msg,               \* the message under test: [len, headers_parsed]
    chunk_size,        \* the chunk size of this attempt
    frame_index,       \* the frame being fed
    pos,               \* split_and_parse_n: bytes of the frame fed so far
    r,                 \* the last return code
    failed,            \* TEST_FAIL was raised in this case
    first,             \* the outcome of the first attempt of the case
    tried              \* the chunk sizes tried in this case

vars == <<pc, tc, sample_req, chunk_size_index, frames_max_sz,
          frames_total_sz, hm_exp_len, msg, chunk_size, frame_index, pos, r,
          failed, first, tried>>

NoOutcome == [r |-> "NONE", len |-> 0]
FreshMsg == [len |-> 0, headers_parsed |-> FALSE]

Frames == tc.frames
FrameLen(i) == Len(tc.frames[i].data)

\* The least and the greatest element of a set of numbers.
FirstOf(S) == CHOOSE k \in S : \A j \in S : k <= j
LastOf(S) == CHOOSE k \in S : \A j \in S : j <= k

\* frames_total_sz and frames_max_sz of case c, as the frame macros
\* accumulate them (frames_total_sz += frame_sz; frames_max_sz =
\* max(frames_max_sz, frame_sz)); one frame of str_len for HTTP/1.
TotalLen(c) ==
    LET acc[i \in 0..Len(c.frames)] ==
            IF i = 0 THEN 0 ELSE acc[i - 1] + Len(c.frames[i].data)
    IN  acc[Len(c.frames)]
LongestLen(c) ==
    IF c.frames = <<>> THEN 0
    ELSE LastOf({Len(c.frames[i].data) : i \in DOMAIN c.frames})

-----------------------------------------------------------------------------
(***************************************************************************)
(* The parser, as the specification states it.                           *)
(***************************************************************************)

\* Byte k of the current frame ends the message: the end of the body, or
\* the end of the headers of a response paired with a HEAD request.
Ends(k) ==
    LET s == tc.frames[frame_index + 1].data[k]
    IN  \/ s = "e"
        \/ s = "h" /\ tc.type = "RESP" /\ sample_req = "HEAD"

\* The bytes pos+1 .. pos+n of the current frame where an HTTP/1 parser
\* stops: a grammar violation or the end of the message.
Stops(n) ==
    {k \in pos + 1..pos + n :
        tc.frames[frame_index + 1].data[k] = "x" \/ Ends(k)}

\* One call of tfw_http_parse_req/resp on n bytes: <<code, parsed>>.
\* A response needs a paired request (tfw_http_msg_pair with sample_req).
ParseHttp1(n) ==
    IF tc.type = "RESP" /\ sample_req = "NONE" THEN <<"BLOCK", 0>>
    ELSE IF Stops(n) = {} THEN <<"POSTPONE", n>>
    ELSE LET k == FirstOf(Stops(n))
         IN  IF tc.frames[frame_index + 1].data[k] = "x"
             THEN <<"BLOCK", k - 1 - pos>>
             ELSE <<"PASS", k - pos>>

\* One call of tfw_h2_parse_req on n bytes of a frame: the frame layer
\* consumes whole frames, so it never returns Pass.
ParseH2(n) ==
    IF \E k \in pos + 1..pos + n : tc.frames[frame_index + 1].data[k] = "x"
    THEN <<"BLOCK", 0>>
    ELSE <<"POSTPONE", n>>

\* tfw_h2_parse_req_finish on a postponed request whose stream is
\* half-closed: it completes the request once a header block was parsed.
H2Finish == IF msg.headers_parsed THEN "PASS" ELSE "BLOCK"

\* tfw_http_parse_check_bodyless_meth: a bodyless method with body headers.
BodylessViolation ==
    \E k \in 1..FrameLen(frame_index + 1) :
        tc.frames[frame_index + 1].data[k] = "m"

-----------------------------------------------------------------------------
Init ==
    /\ pc = "idle"
    /\ tc \in Cases
    /\ sample_req = "NONE"
    /\ chunk_size_index = 0
    /\ frames_max_sz = 0
    /\ frames_total_sz = 0
    /\ hm_exp_len = 0
    /\ msg = FreshMsg
    /\ chunk_size = 0
    /\ frame_index = 0
    /\ pos = 0
    /\ r = "PASS"
    /\ failed = FALSE
    /\ first = NoOutcome
    /\ tried = {}

(***************************************************************************)
(* set_sample_req(str): the request a response test is paired with.       *)
(***************************************************************************)
set_sample_req(m) ==
    /\ pc = "idle"
    /\ sample_req' = m
    /\ UNCHANGED <<pc, tc, chunk_size_index, frames_max_sz, frames_total_sz,
                   hm_exp_len, msg, chunk_size, frame_index, pos, r, failed,
                   first, tried>>

(***************************************************************************)
(* __FOR_REQ / __EXPECT_BLOCK_REQ / __FOR_RESP: prepare a case with       *)
(* test_case_parse_prepare_http (one frame, the expected length is the    *)
(* string length less sz_diff) or, for HTTP/2 after the builder block,    *)
(* test_case_parse_prepare_h2 (the expected length is the sum of the      *)
(* frames).  Both reset chunk_size_index.                                 *)
(***************************************************************************)
\* Mutant: the prepare step does not reset chunk_size_index.
PrepareCase_no_reset(c) ==
    LET total == TotalLen(c)
    IN  /\ pc = "idle"
        /\ tc' = c
        /\ frames_max_sz' = LongestLen(c)
        /\ frames_total_sz' = total
        /\ hm_exp_len' = IF c.type = "REQ_H2" THEN total ELSE total - c.sz_diff
        /\ failed' = FALSE
        /\ first' = NoOutcome
        /\ tried' = {}
        /\ pc' = "attempt"
        /\ UNCHANGED <<sample_req, chunk_size_index, msg, chunk_size,
                       frame_index, pos, r>>

PrepareCase(c) ==
    LET total == TotalLen(c)
    IN  /\ pc = "idle"
        /\ tc' = c
        /\ chunk_size_index' = 0
        /\ frames_max_sz' = LongestLen(c)
        /\ frames_total_sz' = total
        /\ hm_exp_len' = IF c.type = "REQ_H2" THEN total ELSE total - c.sz_diff
        /\ failed' = FALSE
        /\ first' = NoOutcome
        /\ tried' = {}
        /\ pc' = "attempt"
        /\ UNCHANGED <<sample_req, msg, chunk_size, frame_index, pos, r>>

(***************************************************************************)
(* do_split_and_parse(), entry: at the end of CHUNK_SIZES[] return 1      *)
(* (EOF), on which the macro's loop stops (TRY_PARSE_EXPECT_PASS still    *)
(* validates the length of the last message); otherwise free and          *)
(* allocate the message and choose the chunk size of this attempt.        *)
(***************************************************************************)
DoSplitAndParseEof ==
    /\ pc = "attempt"
    /\ chunk_size_index = CHUNK_SIZE_CNT
    /\ failed' = (failed \/ (tc.expect = "pass" /\ msg.len # hm_exp_len))
    /\ pc' = "idle"
    /\ UNCHANGED <<tc, sample_req, chunk_size_index, frames_max_sz,
                   frames_total_sz, hm_exp_len, msg, chunk_size, frame_index,
                   pos, r, first, tried>>

DoSplitAndParseBegin ==
    /\ pc = "attempt"
    /\ chunk_size_index # CHUNK_SIZE_CNT
    /\ msg' = FreshMsg
    /\ r' \in Codes \cup {"GARBAGE"}
    /\ chunk_size' = IF tc.chunk_on THEN CHUNK_SIZES[chunk_size_index + 1]
                     ELSE frames_max_sz
    /\ tried' = tried \cup {chunk_size'}
    /\ frame_index' = 0
    /\ pc' = "frame"
    /\ UNCHANGED <<tc, sample_req, chunk_size_index, frames_max_sz,
                   frames_total_sz, hm_exp_len, pos, failed, first>>

(***************************************************************************)
(* do_split_and_parse(), the frame loop: an HTTP/2 DATA frame of length 0 *)
(* is not fed and counts as Postpone; any other frame goes to             *)
(* split_and_parse_n(), which starts at pos 0 with r = TFW_PASS.          *)
(***************************************************************************)
StartFrame ==
    /\ pc = "frame"
    /\ frame_index < Len(Frames)
    /\ IF tc.type = "REQ_H2" /\ Frames[frame_index + 1].subtype = "DATA"
          /\ FrameLen(frame_index + 1) = 0
       THEN r' = "POSTPONE" /\ pc' = "frame_done"
       ELSE r' = "PASS" /\ pc' = "feed"
    /\ pos' = 0
    /\ UNCHANGED <<tc, sample_req, chunk_size_index, frames_max_sz,
                   frames_total_sz, hm_exp_len, msg, chunk_size, frame_index,
                   failed, first, tried>>

(***************************************************************************)
(* split_and_parse_n(), one iteration: the last chunk is cut to the bytes *)
(* left, the parser is called, pos advances by the chunk and msg.len by   *)
(* what the parser reports it parsed; any code but Postpone returns.      *)
(***************************************************************************)
\* Mutant: pos advances by the chunk size, not by the cut last chunk.
split_and_parse_n_uncut ==
    /\ pc = "feed"
    /\ pos < FrameLen(frame_index + 1)
    /\ LET n   == IF chunk_size >= FrameLen(frame_index + 1) - pos
                  THEN FrameLen(frame_index + 1) - pos ELSE chunk_size
           res == IF tc.type = "REQ_H2" THEN ParseH2(n) ELSE ParseHttp1(n)
       IN  /\ pos' = pos + chunk_size
           /\ msg' = [msg EXCEPT !.len = @ + res[2]]
           /\ r' = res[1]
           /\ pc' = IF res[1] # "POSTPONE" THEN "frame_done" ELSE "feed"
    /\ UNCHANGED <<tc, sample_req, chunk_size_index, frames_max_sz,
                   frames_total_sz, hm_exp_len, chunk_size, frame_index,
                   failed, first, tried>>

\* Mutant: the loop goes on after a code other than Postpone.
split_and_parse_n_no_return ==
    /\ pc = "feed"
    /\ pos < FrameLen(frame_index + 1)
    /\ LET n   == IF chunk_size >= FrameLen(frame_index + 1) - pos
                  THEN FrameLen(frame_index + 1) - pos ELSE chunk_size
           res == IF tc.type = "REQ_H2" THEN ParseH2(n) ELSE ParseHttp1(n)
       IN  /\ pos' = pos + n
           /\ msg' = [msg EXCEPT !.len = @ + res[2]]
           /\ r' = res[1]
           /\ pc' = "feed"
    /\ UNCHANGED <<tc, sample_req, chunk_size_index, frames_max_sz,
                   frames_total_sz, hm_exp_len, chunk_size, frame_index,
                   failed, first, tried>>

\* Mutant: msg.len counts the chunk handed over, not what was parsed.
split_and_parse_n_count_chunk ==
    /\ pc = "feed"
    /\ pos < FrameLen(frame_index + 1)
    /\ LET n   == IF chunk_size >= FrameLen(frame_index + 1) - pos
                  THEN FrameLen(frame_index + 1) - pos ELSE chunk_size
           res == IF tc.type = "REQ_H2" THEN ParseH2(n) ELSE ParseHttp1(n)
       IN  /\ pos' = pos + n
           /\ msg' = [msg EXCEPT !.len = @ + n]
           /\ r' = res[1]
           /\ pc' = IF res[1] # "POSTPONE" THEN "frame_done" ELSE "feed"
    /\ UNCHANGED <<tc, sample_req, chunk_size_index, frames_max_sz,
                   frames_total_sz, hm_exp_len, chunk_size, frame_index,
                   failed, first, tried>>

split_and_parse_n ==
    /\ pc = "feed"
    /\ pos < FrameLen(frame_index + 1)
    /\ LET n   == IF chunk_size >= FrameLen(frame_index + 1) - pos
                  THEN FrameLen(frame_index + 1) - pos ELSE chunk_size
           res == IF tc.type = "REQ_H2" THEN ParseH2(n) ELSE ParseHttp1(n)
       IN  /\ pos' = pos + n
           /\ msg' = [msg EXCEPT !.len = @ + res[2]]
           /\ r' = res[1]
           /\ pc' = IF res[1] # "POSTPONE" THEN "frame_done" ELSE "feed"
    /\ UNCHANGED <<tc, sample_req, chunk_size_index, frames_max_sz,
                   frames_total_sz, hm_exp_len, chunk_size, frame_index,
                   failed, first, tried>>

\* split_and_parse_n(), the loop ends with pos = len and returns r.
SplitDone ==
    /\ pc = "feed"
    /\ pos >= FrameLen(frame_index + 1)
    /\ pc' = "frame_done"
    /\ UNCHANGED <<tc, sample_req, chunk_size_index, frames_max_sz,
                   frames_total_sz, hm_exp_len, msg, chunk_size, frame_index,
                   pos, r, failed, first, tried>>

(***************************************************************************)
(* do_split_and_parse(), after a frame: any code but Postpone breaks the  *)
(* loop; after an HTTP/2 HEADERS frame the bodyless-method check runs and *)
(* either sets TFW_HTTP_B_HEADERS_PARSED or blocks.                       *)
(***************************************************************************)
FrameDone ==
    /\ pc = "frame_done"
    /\ \/ /\ r # "POSTPONE"
          /\ pc' = "finish"
          /\ UNCHANGED <<msg, frame_index, r>>
       \/ /\ r = "POSTPONE"
          /\ tc.type = "REQ_H2" /\ Frames[frame_index + 1].subtype = "HEADERS"
          /\ IF BodylessViolation
             THEN r' = "BLOCK" /\ pc' = "finish" /\ UNCHANGED <<msg, frame_index>>
             ELSE /\ msg' = [msg EXCEPT !.headers_parsed = TRUE]
                  /\ frame_index' = frame_index + 1
                  /\ pc' = "frame"
                  /\ UNCHANGED r
       \/ /\ r = "POSTPONE"
          /\ ~(tc.type = "REQ_H2" /\ Frames[frame_index + 1].subtype = "HEADERS")
          /\ frame_index' = frame_index + 1
          /\ pc' = "frame"
          /\ UNCHANGED <<msg, r>>
    /\ UNCHANGED <<tc, sample_req, chunk_size_index, frames_max_sz,
                   frames_total_sz, hm_exp_len, chunk_size, pos, failed,
                   first, tried>>

FramesDone ==
    /\ pc = "frame"
    /\ frame_index >= Len(Frames)
    /\ pc' = "finish"
    /\ UNCHANGED <<tc, sample_req, chunk_size_index, frames_max_sz,
                   frames_total_sz, hm_exp_len, msg, chunk_size, frame_index,
                   pos, r, failed, first, tried>>

(***************************************************************************)
(* do_split_and_parse(), exit, and the macro around it: an HTTP/2 request *)
(* still postponed is finished by tfw_h2_parse_req_finish (the stream is  *)
(* half-closed by the prepare step, so it passes); the next chunk size    *)
(* is chosen, or the list is cut short once a size covers the longest     *)
(* frame or chunking is off.  TRY_PARSE_EXPECT_PASS fails on Block,       *)
(* Postpone or a length other than hm_exp_len and loops while Pass;       *)
(* TRY_PARSE_EXPECT_BLOCK fails on Pass and loops while Block or          *)
(* Postpone.                                                              *)
(***************************************************************************)
\* The code do_split_and_parse() returns.
FinishCode == IF tc.type = "REQ_H2" /\ r = "POSTPONE" THEN H2Finish ELSE r

\* Mutant: the next chunk size is never chosen.
DoSplitAndParseEnd_no_advance ==
    LET code == FinishCode
    IN  /\ pc = "finish"
        /\ r' = code
        /\ first' = IF first = NoOutcome THEN [r |-> code, len |-> msg.len]
                    ELSE first
        /\ IF tc.expect = "pass"
           THEN /\ failed' = (failed \/ code # "PASS" \/ msg.len # hm_exp_len)
                /\ pc' = IF code = "PASS" THEN "attempt" ELSE "idle"
           ELSE /\ failed' = (failed \/ code = "PASS")
                /\ pc' = IF code # "PASS" THEN "attempt" ELSE "idle"
        /\ UNCHANGED <<tc, sample_req, chunk_size_index, frames_max_sz,
                       frames_total_sz, hm_exp_len, msg, chunk_size,
                       frame_index, pos, tried>>

DoSplitAndParseEnd ==
    LET code == FinishCode
    IN  /\ pc = "finish"
        /\ r' = code
        /\ chunk_size_index' =
             IF ~tc.chunk_on \/ CHUNK_SIZES[chunk_size_index + 1] >= frames_max_sz
             THEN CHUNK_SIZE_CNT ELSE chunk_size_index + 1
        /\ first' = IF first = NoOutcome THEN [r |-> code, len |-> msg.len]
                    ELSE first
        /\ IF tc.expect = "pass"
           THEN /\ failed' = (failed \/ code # "PASS" \/ msg.len # hm_exp_len)
                /\ pc' = IF code = "PASS" THEN "attempt" ELSE "idle"
           ELSE /\ failed' = (failed \/ code = "PASS")
                /\ pc' = IF code # "PASS" THEN "attempt" ELSE "idle"
        /\ UNCHANGED <<tc, sample_req, frames_max_sz, frames_total_sz,
                       hm_exp_len, msg, chunk_size, frame_index, pos, tried>>

\* The steps of the driver once a case is prepared.
Driver ==
    \/ DoSplitAndParseEof
    \/ DoSplitAndParseBegin
    \/ StartFrame
    \/ split_and_parse_n
    \/ SplitDone
    \/ FrameDone
    \/ FramesDone
    \/ DoSplitAndParseEnd

Next ==
    \/ \E m \in Methods \ {"NONE"} : set_sample_req(m)
    \/ \E c \in Cases : PrepareCase(c)
    \/ Driver

Spec == Init /\ [][Next]_vars

\* The driver is one kernel thread that runs every test function to its end.
FairSpec == Spec /\ WF_vars(Driver)

-----------------------------------------------------------------------------
(* Every variable has the shape the test harness declares.               *)
TypeOK ==
    /\ pc \in {"idle", "attempt", "frame", "feed", "frame_done", "finish"}
    /\ tc \in Cases
    /\ sample_req \in Methods
    /\ chunk_size_index \in 0..CHUNK_SIZE_CNT
    /\ frames_max_sz \in Nat /\ frames_total_sz \in Nat /\ hm_exp_len \in Int
    /\ msg \in [len : Nat, headers_parsed : BOOLEAN]
    /\ chunk_size \in Nat /\ frame_index \in Nat /\ pos \in Nat
    /\ pc = "feed" => pos <= FrameLen(frame_index + 1)
    /\ r \in Codes \cup {"GARBAGE"}
    /\ failed \in BOOLEAN
    /\ first \in [r : Codes \cup {"NONE", "GARBAGE"}, len : Nat]
    /\ tried \subseteq Nat

(* Consumed-length exactness, as split_and_parse_n accumulates it: while *)
(* an HTTP/1 message is fed, msg.len counts every byte handed over; when *)
(* the parser passes, msg.len ends exactly at the end of the message (a  *)
(* pipelined tail is not counted); a fully fed HTTP/2 request counts all *)
(* its frames.                                                           *)
ConsumedExact ==
    /\ (pc = "feed" /\ tc.type # "REQ_H2") => msg.len = pos
    /\ (pc = "frame_done" /\ r = "PASS" /\ tc.type # "REQ_H2" /\ pos > 0) =>
         /\ msg.len \in 1..pos
         /\ Ends(msg.len)
         /\ \A k \in 1..msg.len - 1 : ~Ends(k)
    /\ (pc = "finish" /\ r = "POSTPONE" /\ tc.type = "REQ_H2") =>
         msg.len = frames_total_sz

(* Fragmentation invariance as the harness observes it: every attempt of *)
(* a case, whatever its chunk size, ends with the code of the first      *)
(* attempt, and a passing one with the same message length (how much of *)
(* a blocked message was counted does depend on the split); this needs   *)
(* each attempt to start from a fresh message.                           *)
OutcomeStable ==
    (pc = "finish" /\ first # NoOutcome) =>
        /\ first.r = FinishCode
        /\ FinishCode = "PASS" => first.len = msg.len

(* When the chunk-size loop of a case runs out, every size of            *)
(* CHUNK_SIZES[] below the longest frame was tried, and so was one that  *)
(* covers it whenever the list has one.                                  *)
SizesCovered ==
    (pc = "attempt" /\ chunk_size_index = CHUNK_SIZE_CNT /\ tc.chunk_on) =>
        /\ \A i \in 1..CHUNK_SIZE_CNT :
              CHUNK_SIZES[i] < frames_max_sz => CHUNK_SIZES[i] \in tried
        /\ (\E i \in 1..CHUNK_SIZE_CNT : CHUNK_SIZES[i] >= frames_max_sz) =>
              \E s \in tried : s >= frames_max_sz

(* Every test case ends: the loop around do_split_and_parse() returns to *)
(* the test function.                                                    *)
CaseTerminates == (pc = "attempt") ~> (pc = "idle")

(* A case expected to be blocked is accepted by TRY_PARSE_EXPECT_BLOCK   *)
(* only when the parser blocked it (the specification: malformed input   *)
(* must yield Block).                                                    *)
BlockExpectationSound ==
    (tc.expect = "block" /\ ~failed /\ first # NoOutcome) => first.r = "BLOCK"

=============================================================================
