----------------------------- MODULE MCHarness -----------------------------
(* Model-checking instance of Harness: chunk sizes 1, 2 and 4 and test   *)
(* cases of one to five bytes, so that a message is split inside, at and *)
(* past its end, is fed whole, and is longer than every chunk size.      *)
EXTENDS Harness, TLC

H1(d) == <<[subtype |-> "NONE", data |-> d]>>
Hd(d) == [subtype |-> "HEADERS", data |-> d]
Da(d) == [subtype |-> "DATA", data |-> d]

Case(t, f, diff, exp, on) ==
    [type |-> t, frames |-> f, sz_diff |-> diff, expect |-> exp, chunk_on |-> on]

MCChunkSizes == <<1, 2, 4>>

MCCases == {
    \* a request fed in every split, and one not split at all
    Case("REQ", H1(<<"b", "h", "b", "e">>), 0, "pass", TRUE),
    Case("REQ", H1(<<"b", "h", "b", "e">>), 0, "pass", FALSE),
    \* a pipelined request: one byte of the next message follows
    Case("REQ", H1(<<"h", "e", "b">>), 1, "pass", TRUE),
    \* a request longer than every chunk size
    Case("REQ", H1(<<"b", "b", "h", "b", "e">>), 0, "pass", TRUE),
    \* a request with a byte outside the grammar
    Case("REQ", H1(<<"b", "x", "h", "e">>), 0, "block", TRUE),
    \* a response: its end depends on the paired request
    Case("RESP", H1(<<"h", "b", "e">>), 0, "pass", TRUE),
    Case("RESP", H1(<<"h", "b", "e">>), 2, "pass", TRUE),
    \* HTTP/2: headers and body, a bodyless method with a body header and
    \* an empty DATA frame, a bad byte in the body, a lone DATA frame
    Case("REQ_H2", <<Hd(<<"b", "b", "b">>), Da(<<"b">>)>>, 0, "pass", TRUE),
    Case("REQ_H2", <<Hd(<<"b", "m">>), Da(<<>>)>>, 0, "block", TRUE),
    Case("REQ_H2", <<Hd(<<"b">>), Da(<<"b", "x">>)>>, 0, "block", TRUE),
    Case("REQ_H2", <<Da(<<"b">>)>>, 0, "block", TRUE)
}

\* EXPECT_BLOCK_REQ of a request cut before its end: the parser can only
\* postpone it, so nothing in it is malformed yet.
MCOracleCases == {
    Case("REQ", H1(<<"b", "x", "h", "e">>), 0, "block", TRUE),
    Case("REQ", H1(<<"b", "h">>), 0, "block", TRUE)
}
=============================================================================
