---------------------------- MODULE ListenProofs ----------------------------
(***************************************************************************)
(* Proofs about the listening-socket table of sock_clnt.c (module Listen) *)
(* for every table size, socket pool and set of configuration values.    *)
(***************************************************************************)
EXTENDS Listen, Sequences, TLAPS

(* The address of a valid "listen" entry is one of Addrs.                *)
LEMMA ListenAddrType ==
    ASSUME NEW e \in Entries, ListenEntryOk(e)
    PROVE  ListenAddr(e.val) \in Addrs
<1>1. e.val \in CfgVals /\ e.single
  BY DEF Entries, ListenEntryOk
<1>2. CASE ParseInt[e.val] # NotInt
  <2>1. 0 <= ParseInt[e.val] /\ ParseInt[e.val] <= 65535
    BY <1>2 DEF ListenEntryOk
  <2>2. QED
    BY <1>1, <1>2, <2>1, ParseAssumption DEF ListenAddr
<1>3. CASE ParseInt[e.val] = NotInt
  <2>1. ParsePton[e.val] # BadAddr
    BY <1>3 DEF ListenEntryOk
  <2>2. QED
    BY <1>1, <1>3, <2>1, ParseAssumption DEF ListenAddr
<1>4. QED
  BY <1>2, <1>3

(* Every callback keeps the table, the counter and the socket states in  *)
(* their declared ranges: add_listen_sock stores at index listen_socks_n *)
(* only below LISTEN_SOCKS_MAX.                                          *)
THEOREM TypeCorrect == Spec => []TypeOK
<1>1. Init => TypeOK
  BY MaxAssumption DEF Init, TypeOK, Slots, SockStates, RetCodes
<1>2. TypeOK /\ [Next]_vars => TypeOK'
  <2> SUFFICES ASSUME TypeOK, [Next]_vars PROVE TypeOK'
    OBVIOUS
  <2>1. ASSUME NEW a \in Addrs, add_listen_sock(a), UNCHANGED <<phase, slotReads>>
        PROVE  TypeOK'
    <3>1. CASE listen_socks_n = LISTEN_SOCKS_MAX
      BY <2>1, <3>1 DEF add_listen_sock, TypeOK, RetCodes
    <3>2. CASE listen_socks_n # LISTEN_SOCKS_MAX
      <4>1. listen_socks_n \in Slots /\ listen_socks_n + 1 \in 0..LISTEN_SOCKS_MAX
        BY <3>2, MaxAssumption DEF TypeOK, Slots
      <4>2. QED
        BY <2>1, <3>2, <4>1 DEF add_listen_sock, TypeOK, SockStates, RetCodes
    <3>3. QED
      BY <3>1, <3>2
  <2>2. ASSUME NEW e \in Entries, handle_listen_cfg_entry(e) PROVE TypeOK'
    <3>1. CASE ~ListenEntryOk(e)
      BY <2>2, <3>1 DEF handle_listen_cfg_entry, TypeOK, RetCodes
    <3>2. CASE ListenEntryOk(e)
      BY <2>2, <3>2, <2>1, ListenAddrType DEF handle_listen_cfg_entry
    <3>3. QED
      BY <3>1, <3>2
  <2>3. CASE start_listen_socks
    <3>1. PICK j \in 0..listen_socks_n :
              /\ sk' = [s \in Sockets |->
                          IF \E k \in 0..j - 1 : listen_socks[k] = s
                          THEN [sk[s] EXCEPT !.st = "listening"] ELSE sk[s]]
              /\ slotReads' = 0..j
              /\ IF j = listen_socks_n
                 THEN phase' = "run" /\ ret' = "OK"
                 ELSE phase' = "failed" /\ ret' = "ELISTEN"
      BY <2>3 DEF start_listen_socks
    <3>2. sk' \in [Sockets -> [st : SockStates, addr : Addrs \cup {NULL}]]
      BY <3>1 DEF TypeOK, SockStates
    <3>3. slotReads' \in SUBSET (0..LISTEN_SOCKS_MAX)
      <4>1. j <= LISTEN_SOCKS_MAX
        BY <3>1, MaxAssumption DEF TypeOK
      <4>2. QED
        BY <3>1, <4>1, MaxAssumption
    <3>4. QED
      BY <2>3, <3>1, <3>2, <3>3 DEF start_listen_socks, TypeOK, RetCodes
  <2>4. CASE stop_listen_socks
    BY <2>4, MaxAssumption DEF stop_listen_socks, TypeOK, Slots, SockStates, RetCodes
  <2>5. CASE UNCHANGED vars
    BY <2>5 DEF vars, TypeOK
  <2>6. QED
    BY <2>2, <2>3, <2>4, <2>5 DEF Next
<1>3. QED
  BY <1>1, <1>2, PTL DEF Spec

-----------------------------------------------------------------------------
(* The inductive invariant: the type, the prefix shape of the table, the *)
(* one-to-one match between live sockets and stored ones, and the match  *)
(* between the framework phase and the listening sockets.                *)
IInv == TypeOK /\ SlotsWellFormed /\ SocketOwnership /\ ListenMatchesPhase

LEMMA InitIInv == Init => IInv
<1> SUFFICES ASSUME Init PROVE IInv
  OBVIOUS
<1>1. TypeOK
  BY MaxAssumption DEF Init, TypeOK, Slots, SockStates, RetCodes
<1>2. Stored = {}
  BY DEF Init, Stored
<1>3. QED
  BY <1>1, <1>2, NullAssumption, MaxAssumption
  DEF IInv, Init, SlotsWellFormed, SocketOwnership, ListenMatchesPhase, Slots

(* add_listen_sock takes a free socket, which no slot holds, and puts it *)
(* in the first NULL slot.                                               *)
LEMMA AddIInv ==
    ASSUME IInv, NEW a \in Addrs, add_listen_sock(a), phase = "cfg",
           UNCHANGED <<phase, slotReads>>
    PROVE  IInv'
<1> USE MaxAssumption, NullAssumption
<1>1. TypeOK'
  <2>1. CASE listen_socks_n = LISTEN_SOCKS_MAX
    BY <2>1 DEF IInv, add_listen_sock, TypeOK, RetCodes
  <2>2. CASE listen_socks_n # LISTEN_SOCKS_MAX
    <3>1. listen_socks_n \in Slots /\ listen_socks_n + 1 \in 0..LISTEN_SOCKS_MAX
      BY <2>2 DEF IInv, TypeOK, Slots
    <3>2. QED
      BY <2>2, <3>1 DEF IInv, add_listen_sock, TypeOK, SockStates, RetCodes
  <2>3. QED
    BY <2>1, <2>2
<1>2. CASE UNCHANGED <<listen_socks, listen_socks_n, sk>>
  BY <1>1, <1>2
  DEF IInv, SlotsWellFormed, SocketOwnership, ListenMatchesPhase, Stored
<1>3. CASE ~UNCHANGED <<listen_socks, listen_socks_n, sk>>
  <2>1. PICK s \in Sockets :
            /\ listen_socks_n # LISTEN_SOCKS_MAX
            /\ sk[s].st = "free"
            /\ sk' = [sk EXCEPT ![s] = [st |-> "bound", addr |-> a]]
            /\ listen_socks' = [listen_socks EXCEPT ![listen_socks_n] = s]
            /\ listen_socks_n' = listen_socks_n + 1
    BY <1>3 DEF add_listen_sock
  <2>2. listen_socks_n \in Slots
    BY <2>1 DEF IInv, TypeOK, Slots
  <2>3. s \notin Stored
    BY <2>1 DEF IInv, SocketOwnership
  <2>4. Stored' = Stored \cup {s}
    BY <2>1, <2>2 DEF Stored, IInv, TypeOK, Slots
  <2>5. SlotsWellFormed'
    <3>1. \A k \in Slots : (listen_socks'[k] = NULL) <=> (k >= listen_socks_n')
      BY <2>1, <2>2 DEF IInv, TypeOK, SlotsWellFormed, Slots
    <3>2. \A k \in 0..listen_socks_n - 1 : listen_socks'[k] = listen_socks[k]
      BY <2>1, <2>2 DEF IInv, TypeOK, Slots
    <3>3. \A k \in 0..listen_socks_n - 1 : listen_socks[k] # s
      BY <2>3 DEF Stored
    <3>4. \A k, m \in 0..listen_socks_n' - 1 :
             listen_socks'[k] = listen_socks'[m] => k = m
      BY <2>1, <2>2, <3>2, <3>3 DEF IInv, TypeOK, SlotsWellFormed, Slots
    <3>5. QED
      BY <3>1, <3>4 DEF SlotsWellFormed
  <2>6. SocketOwnership'
    BY <2>1, <2>4 DEF IInv, TypeOK, SocketOwnership
  <2>7. ListenMatchesPhase'
    BY <2>1 DEF IInv, TypeOK, ListenMatchesPhase
  <2>8. QED
    BY <1>1, <2>5, <2>6, <2>7 DEF IInv
<1>4. QED
  BY <1>2, <1>3

(* start_listen_socks changes only socket states, and only of stored     *)
(* sockets; a start that reaches the end of the table leaves all of them *)
(* listening on distinct addresses, since each listen() on an address    *)
(* taken by an earlier slot fails.                                       *)
LEMMA StartIInv ==
    ASSUME IInv, start_listen_socks
    PROVE  IInv'
<1> USE MaxAssumption
<1>1. PICK j \in 0..listen_socks_n :
          /\ \A k \in 0..j - 1 : ListenOk(k)
          /\ sk' = [s \in Sockets |->
                      IF \E k \in 0..j - 1 : listen_socks[k] = s
                      THEN [sk[s] EXCEPT !.st = "listening"] ELSE sk[s]]
          /\ slotReads' = 0..j
          /\ IF j = listen_socks_n
             THEN phase' = "run" /\ ret' = "OK"
             ELSE phase' = "failed" /\ ret' = "ELISTEN"
  BY DEF start_listen_socks
<1>2. UNCHANGED <<listen_socks, listen_socks_n>> /\ phase = "cfg"
  BY DEF start_listen_socks
<1>3. Stored' = Stored
  BY <1>2 DEF Stored
<1>4. TypeOK'
  <2>1. j <= LISTEN_SOCKS_MAX
    BY <1>1 DEF IInv, TypeOK
  <2>2. QED
    BY <1>1, <1>2, <2>1 DEF IInv, TypeOK, SockStates, RetCodes
<1>5. SlotsWellFormed'
  BY <1>2 DEF IInv, SlotsWellFormed, Slots
<1>6. \A s \in Sockets : sk'[s].st = "free" <=> sk[s].st = "free"
  BY <1>1, <1>2 DEF IInv, TypeOK, SocketOwnership, Stored
<1>7. SocketOwnership'
  BY <1>3, <1>6 DEF IInv, SocketOwnership
<1>8. ListenMatchesPhase'
  <2>1. CASE j = listen_socks_n
    <3>1. \A k \in 0..listen_socks_n - 1 : sk'[listen_socks[k]].st = "listening"
      <4> SUFFICES ASSUME NEW k \in 0..listen_socks_n - 1
                   PROVE  sk'[listen_socks[k]].st = "listening"
        OBVIOUS
      <4>1. listen_socks[k] \in Sockets
        BY DEF IInv, TypeOK, SlotsWellFormed, Slots
      <4>2. sk'[listen_socks[k]] = [sk[listen_socks[k]] EXCEPT !.st = "listening"]
        BY <1>1, <2>1, <4>1
      <4>3. QED
        BY <4>1, <4>2 DEF IInv, TypeOK
    <3>2. \A k, m \in 0..listen_socks_n - 1 :
             sk[listen_socks[k]].addr = sk[listen_socks[m]].addr => k = m
      <4> SUFFICES ASSUME NEW k \in 0..listen_socks_n - 1,
                          NEW m \in 0..listen_socks_n - 1,
                          sk[listen_socks[k]].addr = sk[listen_socks[m]].addr,
                          k # m
                   PROVE  FALSE
        OBVIOUS
      <4>1. CASE m < k
        BY <1>1, <2>1, <4>1 DEF ListenOk, IInv, TypeOK
      <4>2. CASE k < m
        BY <1>1, <2>1, <4>2 DEF ListenOk, IInv, TypeOK
      <4>3. QED
        BY <4>1, <4>2 DEF IInv, TypeOK
    <3>3. \A s \in Sockets : sk'[s].addr = sk[s].addr
      BY <1>1 DEF IInv, TypeOK
    <3>4. \A k \in 0..listen_socks_n - 1 : listen_socks[k] \in Sockets
      BY DEF IInv, TypeOK, SlotsWellFormed, Slots
    <3>5. \A s, t \in Stored' : sk'[s].addr = sk'[t].addr => s = t
      BY <1>3, <3>2, <3>3, <3>4 DEF Stored
    <3>6. \A s \in Stored' : sk'[s].st = "listening"
      BY <1>3, <3>1 DEF Stored
    <3>7. phase' = "run"
      BY <1>1, <2>1
    <3>8. QED
      BY <3>5, <3>6, <3>7 DEF ListenMatchesPhase
  <2>2. CASE j # listen_socks_n
    <3>1. phase' = "failed"
      BY <1>1, <2>2
    <3>2. QED
      BY <3>1 DEF ListenMatchesPhase
  <2>3. QED
    BY <2>1, <2>2
<1>9. QED
  BY <1>4, <1>5, <1>7, <1>8 DEF IInv

(* stop_listen_socks frees every stored socket and empties the table;   *)
(* the sockets it does not touch were free already.                     *)
LEMMA StopIInv ==
    ASSUME IInv, stop_listen_socks
    PROVE  IInv'
<1> USE MaxAssumption, NullAssumption
<1>1. Stored' = {}
  BY DEF stop_listen_socks, Stored
<1>2. \A s \in Sockets : sk'[s].st = "free"
  BY DEF stop_listen_socks, IInv, TypeOK, SocketOwnership
<1>3. TypeOK'
  BY DEF stop_listen_socks, IInv, TypeOK, Slots, SockStates, RetCodes
<1>4. QED
  BY <1>1, <1>2, <1>3
  DEF stop_listen_socks, IInv, SlotsWellFormed, SocketOwnership,
      ListenMatchesPhase, Slots

LEMMA NextIInv == IInv /\ [Next]_vars => IInv'
<1> SUFFICES ASSUME IInv, [Next]_vars PROVE IInv'
  OBVIOUS
<1>1. ASSUME NEW e \in Entries, handle_listen_cfg_entry(e) PROVE IInv'
  <2>1. CASE ~ListenEntryOk(e)
    <3>1. TypeOK'
      BY <1>1, <2>1 DEF handle_listen_cfg_entry, IInv, TypeOK, RetCodes
    <3>2. QED
      BY <1>1, <2>1, <3>1
      DEF handle_listen_cfg_entry, IInv, SlotsWellFormed, SocketOwnership,
          ListenMatchesPhase, Stored
  <2>2. CASE ListenEntryOk(e)
    BY <1>1, <2>2, ListenAddrType, AddIInv DEF handle_listen_cfg_entry
  <2>3. QED
    BY <2>1, <2>2
<1>2. CASE start_listen_socks
  BY <1>2, StartIInv
<1>3. CASE stop_listen_socks
  BY <1>3, StopIInv
<1>4. CASE UNCHANGED vars
  BY <1>4 DEF vars, IInv, TypeOK, SlotsWellFormed, SocketOwnership,
             ListenMatchesPhase, Stored
<1>5. QED
  BY <1>1, <1>2, <1>3, <1>4 DEF Next

(* For every table size and socket pool: the slot table stays a prefix   *)
(* of distinct sockets, no socket leaks or dangles, and a start that     *)
(* returned 0 left every configured socket listening on its own address. *)
THEOREM ListenSafety ==
    Spec => [](SlotsWellFormed /\ SocketOwnership /\ ListenMatchesPhase)
<1>1. IInv => SlotsWellFormed /\ SocketOwnership /\ ListenMatchesPhase
  BY DEF IInv
<1>2. QED
  BY InitIInv, NextIInv, <1>1, PTL DEF Spec

(* The table stays a prefix of distinct sockets, so the BUG_ON of         *)
(* add_listen_sock never fires, however many passes and stops there are. *)
THEOREM SlotsWellFormedThm == Spec => []SlotsWellFormed
BY ListenSafety, PTL

(* A tfw_sock_clnt_start that returned 0 left every configured socket    *)
(* listening on its own address, for every table size and socket pool.   *)
THEOREM ListenMatchesPhaseThm == Spec => []ListenMatchesPhase
BY ListenSafety, PTL

=============================================================================
