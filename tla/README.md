# A TLA+ model of Tempesta FW's listen sockets, client hooks and parser test driver

This directory holds TLA+ models of the two source files of this repository:

- `src/tempesta_fw/sock_clnt.c`: the front-end listening sockets and the client socket hooks;
- `src/unnamed/part_000`: the common header of the HTTP parser tests.

For each part it also holds the TLC configurations that check the model and the TLAPS proofs about it. The HTTP parser itself is not in the repository. It is modelled from `spec.md` to the extent the test driver needs.

## 1. Inventory of the system

| Part | Source | What it does | State it changes |
|---|---|---|---|
| listen table | sock_clnt.c 49-58 | `listen_socks[LISTEN_SOCKS_MAX]`, `listen_socks_n`, `protos[]`, the `FOR_EACH_SOCK` loop | the table, the counter |
| `add_listen_sock` | 66-102 | checks the full table, creates a kernel socket, binds it with `sk_reuse`, stores it | table, counter, a kernel socket |
| `handle_listen_cfg_entry` | 197-237 | parses one `listen` value: a bare port in 0..65535 (0.0.0.0:port), or an address; otherwise -EINVAL | through `add_listen_sock` |
| `start_listen_socks` | 161-179 | `listen()` on every stored socket, returning the first error | kernel sockets |
| `stop_listen_socks` | 181-195 | releases the stored sockets and clears the tables | everything |
| `tfw_sock_clnt_cfg_mod` | 248-259 | the cfg module: `listen` (repeatable, default 80), start, stop | order of the above |
| client hooks | 105-159, 239-246 | `connection_new`: classify, allocate a connection, create a client. `connection_drop`/`close`: classify, close | the connection bound to the socket and its client |
| chunk sizes | part_000 53-58 | `CHUNK_SIZES[]`, `chunk_size_index` | the index |
| H2 frame builder | 140-245 | HPACK literal encoding into `frames_str_buf`; `frames[]`, `frames_cnt`, `frames_total_sz`, `frames_max_sz` | the frame table |
| `split_and_parse_n` | 248-284 | feeds one frame to the parser in chunks, summing `parsed` into `msg.len` | the message |
| `set_sample_req` | 290-302 | the request a response test is paired with | `sample_req` |
| prepare functions | 304-331 | one frame for HTTP/1, or the built frames for HTTP/2; resets `chunk_size_index` | case globals |
| `do_split_and_parse` | 363-466 | one attempt: EOF, or a fresh message, a chunk size, all frames, the H2 bodyless check and finish, the next index | everything of the attempt |
| `TRY_PARSE_EXPECT_*` and `FOR_*`/`EXPECT_BLOCK_*` | 473-584 | loop over attempts, fail on a wrong verdict or length | `failed` (TEST_FAIL) |
| assertion helpers | 585-661 | `number_to_strip`, `get_next_str_val`, string comparisons | none of the driver's |
| parser | not in src | `feed` returns Pass(consumed), Postpone or Block (spec.md §4) | the message |

How the parts interact:

- **Listen sockets.** The configuration framework calls `handle_listen_cfg_entry` once for each `listen` entry. It then calls `start`. On shutdown, or after a failed start, it calls `stop`. All of these calls come from one thread.
- **Client hooks.** The synchronous-socket layer calls `connection_new` for every accepted socket and the close hook once per socket going down. The hooks of different sockets share no state.
- **Frame builder.** An H2 test builds its frames with the builder macros inside `FOR_REQ_H2`, before the driver runs. `frames_total_sz` and `frames_max_sz` are then what the driver uses as the expected length and the allocation size.
- **Test driver.** A test function prepares a case. It then calls `do_split_and_parse` in a loop, and each call feeds every frame to the parser with one chunk size.

## 2. Modules

| Module | Models | Notes |
|---|---|---|
| `Listen` | sock_clnt.c listen table and cfg handlers | one action per handler |
| `MCListen` | TLC instance of `Listen` | 4 sockets, 3 slots, 6 `listen` strings, 3 addresses |
| `ListenProofs` | TLAPS proofs about `Listen` | type correctness and the safety invariants |
| `ClientHooks` | sock_clnt.c 105-159, 239-246 | one action per hook, the peer close as environment |
| `MCClientHooks` | TLC instance of `ClientHooks` | 3 sockets |
| `ClientHooksProofs` | TLAPS proofs about `ClientHooks` | `HooksSafety` |
| `H2Builder` | part_000 135-245, 517-546 | the builder macros as steps, `write_int` in closed form |
| `H2BuilderDecode` | a reference HPACK decoder over `H2Builder` | RECURSIVE `ReadCont`/`ReadFields`, `HeadersRoundTrip` |
| `MCH2Builder` | TLC instance of `H2BuilderDecode` | the code's 3 KB buffer and 2 frames |
| `H2BuilderProofs` | TLAPS proofs about `H2Builder` | encoder lemmas, `TypeCorrect`, `FramesAccountCorrect` |
| `Harness` | the test driver of part_000 and the parser contract | one step per parser call |
| `MCHarness` | TLC instance of `Harness` | chunk sizes 1, 2, 4; 11 cases, plus 2 for the oracle run |
| `HarnessProofs` | TLAPS proofs about the chunk-size loop of `Harness` | `SizesCoveredThm` |
| `HarnessFeedProofs` | TLAPS proofs about the feeding of one attempt | `TypeCorrect`, `ConsumedExactThm` |
| `HarnessOutcomeProofs` | TLAPS proof that every attempt reaches the same verdict | `OutcomeStableThm` |

### Listen

The state is:

- `listen_socks` (the slot table);
- `listen_socks_n`;
- `sk`: for every kernel socket, its state (free, bound or listening) and its address;
- `phase`: where the configuration framework is (cfg, run or failed);
- `ret`: the last return code;
- `slotReads`: the slots the last `FOR_EACH_SOCK` loop read. It exists to expose the out-of-bounds read.

The actions:

- `handle_listen_cfg_entry(e)` includes `add_listen_sock`, as the code calls it.
  - A failing `sock_create_kern` or `bind` is a nondeterministic choice. On that path the socket is released, so no kernel state changes.
  - A bind succeeds unless the address already has a listener. This follows the `sk_reuse` semantics: two unlistened sockets may share an address.
- `start_listen_socks` chooses the slot `j` whose `listen()` fails, or `n` when none fails.
  - Slots before `j` listen.
  - `listen()` must fail on a second socket for an address that is already listened on (EADDRINUSE).
  - The loop reads slots `0..j`, because the `FOR_EACH_SOCK` condition reads the slot before it compares.
- `stop_listen_socks` frees the stored sockets, clears the table and resets the counter.

The string parsers `tfw_cfg_parse_int` and `tfw_addr_pton` are constants. They are functions from the `listen` strings to ports or addresses, defined in `MCListen` for the strings used there.

### ClientHooks

The state, per client socket of `Socks`:

- `skst`: new (handshake done), estab, rejected, closing (going down, the close hook is due) or closed;
- `conn`: the connection bound to `sk_user_data` (none, alive, released);
- `cli`: a client is attached to the connection (released by its `tfw_client_put` destructor);
- `ret`: what the last hook returned.

The actions:

- `tfw_client_connect_complete(s)` has one disjunct per exit of the code: the classifier blocks (-EPERM), `tfw_connection_new` fails (`ss_close`, -ENOMEM), `tfw_create_client` fails (`ss_close` with the connection bound, -EINVAL), success.
- `PeerClose(s)`: the peer closes an established socket. This is the socket layer, modelled from the description of the hooks.
- `tfw_client_connection_close(s)`: the classifier may block (`CloseMayBlock`), returning -EPERM before `tfw_connection_close`; otherwise the connection is released, and with it the client.

### H2Builder

`buf` holds the bytes written through `frames_buf_ptr` since `H2_BUILDER_SET_BUF`, so the pointer is the buffer start plus `Len(buf)`. Names, values and DATA payload are the bytes 110, 118 and 100; only their number matters. `frames` is `frames[0..frames_cnt-1]` with the start offset of `str`. `fields` and `cur` are ghost variables: the header records `HEADER` was given, per frame.

- `BuilderStart` is `H2_BUILDER_INIT` and `H2_BUILDER_SET_BUF`; `BuilderReset` is `H2_BUILDER_RESET_BUF`.
- `FrameBegin(t)` and `FrameEnd` are the two halves of the frame macros, with their `BUG_ON(frames_cnt >= ARRAY_SIZE(frames))`.
- `HEADER(h)` and `DATA(n)` append `tfw_h2_encode_header` or the raw bytes, then test the capacity, in that order.
- A `BUG_ON` that fires sets `pc` to "bug" and nothing follows: the kernel stops.
- `write_int` lives in hpack.c, which is not in the repository. `WriteInt` follows RFC 7541 5.1 with a 7-bit prefix, as spec.md §4.5 describes the decoder's side.
  - The loop of `write_int` is written out in closed form: `ContLen(w)` groups of 7 bits, `ContOctets(w)` the octets, bit 7 set on all but the last. It covers up to `CONT_MAX` = 4 continuation octets, so values below `INT_BOUND` = 127 + 2^28. `BuilderAssumption` requires header name and value lengths below that bound. A name or value that long could never fit in the 3 KB buffer, so the bound loses no behaviour of the tests.
  - The closed form, not a recursive operator, is what lets `H2BuilderProofs` reason about the encoder.
- `H2BuilderDecode` holds the reference decoder, `ReadInt` and `ReadFields`, and the property `HeadersRoundTrip` that uses it. They are recursive, so they are kept out of the module the proofs extend.

### Harness

The model follows one sequential driver through a program counter `pc`. The positions are:

- `idle`: between cases;
- `attempt`: the entry of `do_split_and_parse`;
- `frame`, `feed` and `frame_done`: the frame loop and `split_and_parse_n`;
- `finish`: the exit of `do_split_and_parse` and the macro around it.

Each parser call is one step.

- **Abstract data.** A message is a sequence of abstract bytes:
  - `b`: an ordinary byte;
  - `x`: outside the grammar;
  - `h`: the end of the headers;
  - `e`: the end of the message;
  - `m`: a header that a bodyless method must not carry.
- **Parser contract.** The operators `Ends`, `Stops`, `ParseHttp1`, `ParseH2`, `H2Finish` and `BodylessViolation` model it, and they are marked spec_modelled in PROJECT.json:
  - Block at the first `x`;
  - Pass with the bytes up to the end of the message;
  - Postpone with the whole chunk consumed;
  - a response needs a paired request, and a HEAD request ends it at the headers;
  - the H2 frame layer never passes by itself, and `tfw_h2_parse_req_finish` passes a request once its headers were parsed.
- **Uninitialized `r`.** When no frame is fed, the `r` of `do_split_and_parse` is uninitialized. Each attempt draws it from the codes and a `GARBAGE` value.
- **Assumptions.** `ChunkSizesAssumption`: `CHUNK_SIZES[]` is a non-empty, strictly increasing sequence of positive sizes, as the table in part_000 is. `CasesAssumption`: a case has at most `FRAMES_MAX` = 2 frames, the `ARRAY_SIZE` of `frames[]`. An HTTP/1 case has exactly one, because `test_case_parse_prepare_http` sets `frames_cnt = 1`.
- **No library operators.** `Harness` extends only Integers and Sequences. The least and greatest elements `FirstOf` and `LastOf` are written with CHOOSE. `TotalLen` is a recursive function over the frames, not a RECURSIVE operator, so the proof modules may extend `Harness`.
- **Test failure.** `failed` is TEST_FAIL. `first` records the first attempt's code and length. `tried` records the chunk sizes used.

## 3. Runs

| Run | Config | Expect | What it shows |
|---|---|---|---|
| listen_pass | MCListen.cfg | pass (774 states) | see below |
| listen_oob | MCListenOOB.cfg | violation | `SlotReadsInBounds` fails: 3 entries, then stop (or start) reads `listen_socks[3]` |
| harness_pass | MCHarness.cfg | pass (1872 states) | see below |
| hooks_pass | MCClientHooks.cfg | pass (286 states) | see below |
| hooks_close_blocked | MCClientHooksBlock.cfg | violation | `ClosedConnReleased` fails: a close blocked by the classifier leaves the connection alive on a closed socket |
| builder_pass | MCH2Builder.cfg | pass (1310 states) | see below |
| builder_overflow | MCH2BuilderOverflow.cfg | violation | `WritesInBounds` fails: two headers of 1000-byte names and values are copied past `frames_str_buf` before `BUG_ON` fires |
| harness_oracle | MCHarnessOracle.cfg | violation | `BlockExpectationSound` fails: `EXPECT_BLOCK_REQ("b h")` is postponed at every split and counted as blocked |

In listen_pass, any sequence of entries, starts and stops keeps these invariants:

- `SlotsWellFormed`: the table is an injective prefix, so `BUG_ON(listen_socks[n])` never fires, even after a restart.
- `SocketOwnership`: a socket is alive exactly when the table holds it.
- `ListenMatchesPhase`: a successful start leaves every stored socket listening, on distinct addresses.

Sockets listen only after a start.

In hooks_pass, with the three sockets' hooks interleaved and the classifier free to block a close (`CloseMayBlock = TRUE`, so every exit of both hooks is taken):

- `ResourcesMatchState`: a client exists only on a live connection, an established socket has both, and a connection is released only by the close hook of a closed socket.

`ClosedConnReleased` (no closed socket keeps a live connection) is not a property of this run. Without blocked closes it only restates the release in the close hook. With them the code breaks it, which hooks_close_blocked shows (finding 3).

In builder_pass:

- `TypeOK`: besides the octets, the frame table's starts and lengths are naturals; a `frame_sz` that counts more bytes than were written puts the first frame before the buffer.

- `FramesAccount`: the frames tile the buffer from its start, the buffer holds them and the open frame and nothing else, `frames_total_sz` is their total and `frames_max_sz` the longest.
- `HeadersRoundTrip`: every HEADERS frame, read from its `str` and `len`, decodes to exactly the header records written into it.

In harness_pass:

- `ConsumedExact`: `msg.len` follows `pos` while HTTP/1 is fed, ends exactly at the end of the message on Pass (a pipelined tail is not counted), and covers all frames of a postponed H2 request.
- `OutcomeStable`: every attempt of a case gives the verdict of the first attempt, and the same length when it passes.
- `SizesCovered`: every chunk size below the longest frame is tried, and so is one that covers it.
- `CaseTerminates`: each case returns to the test function.

Every property of a passing run has a mutant in PROJECT.json that breaks it.

- **Listen mutants:**
  - an off-by-one full check;
  - a bind failure without `sock_release`;
  - a start loop that stops one slot early;
  - a stop without the `memset`.
- **Harness mutants:**
  - an uncut last chunk;
  - `msg.len` summing chunks instead of `parsed`;
  - a chunk loop that goes on after Block or Pass;
  - a prepare step that does not reset `chunk_size_index`;
  - an exit that never advances the index.
- **ClientHooks mutants:**
  - `connect_complete` not checking the result of `tfw_create_client`;
- **H2Builder mutants:**
  - `frame_sz` counting one byte more than was written (a size with the terminating NUL);
  - `frames_max_sz` set to the last frame's size;
  - no 0x00 representation octet before a header.

### Bounds

**Listen.** `LISTEN_SOCKS_MAX = 3`, with four sockets. This is enough to:

- fill the table, which is the ENOBUFS case and the out-of-bounds read;
- keep a spare socket.

Six `listen` strings cover these cases:

- bare ports, including `80` and `8081`;
- an out-of-range port, `65536`, and `-1`;
- an address that equals a bare port's address;
- a string that does not parse.

Three entries suffice to reach a duplicate address and a full table in one pass. Sockets are symmetric.

**Harness.** Chunk sizes 1, 2 and 4 against messages of 1 to 5 bytes. A message is split:

- inside its end;
- at its end;
- past its end;
- fed whole;
- longer than every chunk size, which exercises the EOF without a covering size.

The cases cover:

- pipelining (`sz_diff` 1);
- responses paired with no request, with GET and with HEAD, and `sz_diff` 0 and 2;
- an H2 request with a body;
- a bodyless method with a body header and an empty DATA frame;
- a bad byte in a DATA frame;
- a lone DATA frame;
- chunking switched off.

**ClientHooks.** Three sockets, enough for every exit of `connection_new` to happen on one socket while another is established or closing. The sockets are symmetric, but symmetry is not used with the liveness property.

**H2Builder.** The code's constants: a 3072-byte buffer and 2 frames. A block may open a third frame, which reaches the frame-table `BUG_ON`. The header records `<<1, 126>>`, `<<127, 0>>` and `<<128, 300>>` cover a one-octet length, the 127 boundary (127 and a continuation octet 0), 128, and 300, which needs two continuation octets. DATA takes 0 or 2 bytes, up to two items per frame. The overflow run uses 1000-byte names and values so that the real capacity is crossed.

### Fairness

`FairSpec` assumes weak fairness of the driver steps, and `CaseTerminates` is checked under it. The driver is a single test thread that runs each test function to its end. The test's own choices (which case, `set_sample_req`) carry no fairness.

`ClientHooks` has no fairness: no property of it is about progress. Its runs do not check deadlock, because every socket may end closed or rejected.

`H2Builder` has no fairness: a test may stop building at any point. Its runs do not check deadlock, because a `BUG_ON` stops the kernel.

## 4. Proofs

`ListenProofs` proves two results for every value of the constants: any `LISTEN_SOCKS_MAX`, any sets of sockets and addresses, and any parse functions.

- **`TypeCorrect`** proves `Spec => []TypeOK`.
- **`ListenSafety`** proves `Spec => [](SlotsWellFormed /\ SocketOwnership /\ ListenMatchesPhase)`.

The argument of `ListenSafety`:

- **The strengthening.** The three invariants are not inductive separately:
  - `SocketOwnership` is preserved by `add_listen_sock` only because slot `n` is NULL and the chosen socket is free, hence not stored. That is `SlotsWellFormed`.
  - `ListenMatchesPhase` in `run` needs the stored sockets to be distinct. That is the injectivity part of `SlotsWellFormed`.
  - So the inductive invariant is `IInv`, the conjunction of `TypeOK` and all three.
- **Per action.** Each action preserves `IInv`, in the lemmas `AddIInv`, `StartIInv` and `StopIInv`.
  - `StartIInv` shows that a successful start has every earlier slot's address distinct, by `ListenOk`, and every slot listening.
  - The failed-phase case needs nothing.
- **Assumptions used.** `MaxAssumption` (`LISTEN_SOCKS_MAX` is a positive natural), `NullAssumption` and `ParseAssumption` (the parse functions' types).

`ClientHooksProofs` proves `HooksSafety`: `Spec => [](TypeOK /\ ResourcesMatchState)`, for any set of sockets and either value of `CloseMayBlock`. The inductive invariant is `TypeOK /\ ResourcesMatchState`, with one lemma per hook. `ClosedConnReleased` is not implied by it, and no theorem states it: the code violates it when a close is blocked (finding 3), and without blocked closes it is just the release assignment of the close hook.

`ListenProofs` also states the two other conjuncts of `ListenSafety` as theorems of their own, `SlotsWellFormedThm` and `ListenMatchesPhaseThm`. Each follows from `ListenSafety` by temporal logic.

`H2BuilderProofs` proves, for every capacity, frame-table size and set of header and DATA sizes allowed by `BuilderAssumption`:

- **`TypeCorrect`**: `Spec => []TypeOK`. In particular, every octet written is in 0..255.
- **`FramesAccountCorrect`**: `Spec => []FramesAccount`. The frames lie back to back from offset 0. The buffer holds them and the open frame. `frames_total_sz` is their total, and `frames_max_sz` is the longest length.

The argument:

- **Encoder lemmas.** `ContLenRange`, `ContOctetsType`, `WriteIntType`, `EncodeDataType` and `EncodeHeaderType` show that every encoding is a sequence of octets. The bound on the lengths gives the range of `ContLen`. The closed form gives each group's octet as a value below 128, plus 128 on all groups but the last.
- **The strengthening.** `FramesAccount` is not inductive by itself. `BuilderStart` empties `buf` and the frame table but leaves `open` and `frame_sz`, and that is consistent only if no frame is open. A block ends in `BuilderReset`, whose guard is `open = "NONE"`, so none is. So `IInv` adds `OpenInBlock`: outside a block (`pc` idle or built), no frame is open. TLC checked `IInv` as an invariant of builder_pass before it was proved.
- **Per action.** There is one lemma per action: `StartIInv`, `BeginIInv`, `WriteIInv` (shared by `HeaderIInv` and `DataIInv`), `EndIInv` and `ResetIInv`.
  - `EndIInv` carries the frame-table reasoning. The appended frame starts at `Len(buf) - frame_sz`, which equals `frames_total_sz`, the end of the last frame.
  - The earlier frames are unchanged by `Append`.
  - The new maximum bounds every length and is attained, by the old witness or by the new frame.
- **What stays with TLC.** `WritesInBounds` is violated by the code itself (finding 4).

`HarnessProofs`, `HarnessFeedProofs` and `HarnessOutcomeProofs` prove the harness properties for every increasing `CHUNK_SIZES[]` and every set of cases allowed by `CasesAssumption`.

- **`SizesCoveredThm`**: `Spec => []SizesCovered`. The strengthening `LoopInv` says that at the entry of an attempt of a chunked case every size before `chunk_size_index` was tried (`Covered`), and that inside an attempt the index is in range and the size in use was tried too. So when the index has run out every size of `CHUNK_SIZES[]` was tried, those below `frames_max_sz` and a covering one, if any.
- **`TypeCorrect`** and **`ConsumedExactThm`**: `Spec => []TypeOK` and `Spec => []ConsumedExact`. Both rest on `FeedInv`, which adds three parts:
  - `FeedShape`: the indices stay within the case, a chunk in the middle of a frame follows a Postpone, and `frames_total_sz` is `TotalLen` of the case;
  - `Http1Count`: while an HTTP/1 frame is fed, `msg.len` is the position `pos` and no byte before it stops the parser (`NoStopBefore`);
  - `H2Count`: for HTTP/2, `msg.len` is the length of the frames fed so far (`FedLen`) plus `pos`.
  A Pass then has `msg.len` equal to the bytes up to the end of the message, or to all frames.
- **`OutcomeStableThm`**: `ASSUME NonEmptyCases PROVE Spec => []OutcomeStable`. The verdict of a case is a function of the case alone, `VerdictCode` and `VerdictLen`. For HTTP/1 it is the first byte that stops the parser (`Http1Code`). For HTTP/2 it is the first frame that does not postpone (`StopFrames`), or `tfw_h2_parse_req_finish` on the headers seen. `OutInv` extends `FeedInv` and says, at each `pc`, that the attempt is on its way to that verdict:
  - `Http1Progress`: a chunk that follows a Postpone sees no stop before it, so the first stop in the chunk is the first stop of the frame (`LeastIsFirst`);
  - `H2Progress`: every frame fed so far postponed as a whole (`Continued`), and `headers_parsed` tells whether a HEADERS frame was among them;
  - `VerdictReached`: at `finish` the code is the verdict, and `first`, once set, holds it.
  So every attempt, whatever its chunk size, ends with the first attempt's code and length.
- **The hypothesis `NonEmptyCases`.** It says that no case has zero frames. With zero frames `r` is uninitialized in `do_split_and_parse` (part_000:366). The model then draws it at each attempt, and `OutcomeStable` really fails. Every case of the runs has a frame.
- TLC checked each strengthening (`IInv`, `FeedInv`, `OutInv`) as an invariant of harness_pass before it was proved.

Only TLC checks:

- `BlockExpectationSound`, which the code violates (finding 2);
- `HeadersRoundTrip`: the decoder it is stated with is recursive, and what it computes for every input would need induction over data, which the provers cannot instantiate;
- liveness (`CaseTerminates`), which needs fairness and ENABLED, beyond TLAPS;
- the four violation runs.

## 5. Findings

1. **`FOR_EACH_SOCK` reads one element past the array** (sock_clnt.c:58), a code bug. The condition `(sock = listen_socks[i], i < listen_socks_n)` reads `listen_socks[LISTEN_SOCKS_MAX]` when the table is full. Both start and stop are affected.
2. **`TRY_PARSE_EXPECT_BLOCK` accepts `TFW_POSTPONE`** (part_000:508), a divergence from spec.md. An `EXPECT_BLOCK` test of input the parser only finds incomplete passes, while the specification makes Block the verdict on malformed input and Postpone a request for more.

3. **A blocked close leaks the connection and client** (sock_clnt.c:155), a code bug. `tfw_client_connection_close` returns -EPERM when `tfw_classify_conn_close` blocks, before `tfw_connection_close`. It is the socket's last hook, so nothing releases the connection in `sk_user_data` or its client.
4. **The builder's bound check follows the copy** (part_000:211, and 235 for DATA), a code bug in the test header. `memcpy_fast` has already written past `frames_str_buf`, into the statics after it, when `BUG_ON` compares `frames_buf_ptr` with the capacity.

## 6. Not modelled, and the plan

- **The rest of the hook table.** `connection_recv`, `put_skb_to_msg` and `postpone_skb` are in connection.c, which is not in this repository.
- **`in_str` in the parse error path** (sock_clnt.c:235). The log message may print an uninitialized pointer; logging is left out of the model.
- **Builder and driver together.** `Harness` takes the frames as case data; composing it with `H2Builder` is the next step. The proofs would then hold for the frames the builder really produces.
- **Out of scope.** The parser's byte grammar, the segmented strings, the validators and the HPACK decoder are described only by spec.md. They are abstracted to the five byte symbols above. The assertion helpers are string comparisons with no control of their own.
