------------------------------- MODULE Listen -------------------------------
(***************************************************************************)
(* The front-end listening sockets of src/tempesta_fw/sock_clnt.c.        *)
(*                                                                         *)
(* The module keeps the static table listen_socks[LISTEN_SOCKS_MAX] and   *)
(* its fill counter listen_socks_n, and the kernel sockets the table      *)
(* points to.  Its operations are the configuration handler of a          *)
(* "listen" entry (handle_listen_cfg_entry, which calls add_listen_sock)  *)
(* and the module's start and stop callbacks (start_listen_socks,         *)
(* stop_listen_socks).  Each is one atomic action: the configuration      *)
(* framework calls them from one thread, one at a time.                   *)
(*                                                                         *)
(* The kernel is the environment.  sock_create_kern and bind may fail for *)
(* reasons the module does not control (a nondeterministic choice).  A    *)
(* socket created with sk_reuse = 1 binds to an address another socket    *)
(* is bound to as long as neither listens; listen() then fails with      *)
(* EADDRINUSE on the second socket of an address that already has a      *)
(* listener, and may fail for other reasons at any time.                  *)
(***************************************************************************)
EXTENDS Integers, FiniteSets

CONSTANTS
    LISTEN_SOCKS_MAX,  \* size of listen_socks[] (8 in the code)
    Sockets,           \* the kernel socket objects sock_create_kern may return
    Addrs,             \* the addresses a "listen" value can denote
    NULL,              \* the empty slot / no address
    CfgVals,           \* the strings a "listen" entry may carry
    NotInt,            \* tfw_cfg_parse_int() failed
    BadAddr,           \* tfw_addr_pton() failed
    ParseInt,          \* [CfgVals -> Int \cup {NotInt}]: tfw_cfg_parse_int
    ParsePton,         \* [CfgVals -> Addrs \cup {BadAddr}]: tfw_addr_pton
    AnyAddrPort(_)     \* the address 0.0.0.0:port of a bare port

ASSUME MaxAssumption == LISTEN_SOCKS_MAX \in Nat \ {0}
ASSUME NullAssumption == NULL \notin Sockets \cup Addrs
ASSUME ParseAssumption ==
    /\ ParseInt \in [CfgVals -> Int \cup {NotInt}]
    /\ ParsePton \in [CfgVals -> Addrs \cup {BadAddr}]
    /\ NotInt \notin Int
    /\ BadAddr \notin Addrs
    /\ \A v \in CfgVals :
         ParseInt[v] \in Int /\ 0 <= ParseInt[v] /\ ParseInt[v] <= 65535
           => AnyAddrPort(ParseInt[v]) \in Addrs

VARIABLES
    listen_socks,    \* the slot table: [0..LISTEN_SOCKS_MAX-1 -> Sockets \cup {NULL}]
    listen_socks_n,  \* number of used slots
    sk,              \* kernel state of every socket: [st, addr]
    phase,           \* where the configuration framework is: "cfg", "run", "failed"
    ret,             \* the return code of the last callback
    slotReads        \* the slot indices the last FOR_EACH_SOCK loop read

vars == <<listen_socks, listen_socks_n, sk, phase, ret, slotReads>>

Slots == 0..LISTEN_SOCKS_MAX - 1
SockStates == {"free", "bound", "listening"}
RetCodes == {"OK", "EINVAL", "ENOBUFS", "ECREATE", "EBIND", "ELISTEN", "NONE"}

(* A "listen" entry: whether it has exactly one value, and that value.   *)
Entries == [single : BOOLEAN, val : CfgVals]

\* The sockets the table holds.
Stored == {listen_socks[k] : k \in 0..listen_socks_n - 1}

\* Some socket listens on address a.
ListeningOn(a) == \E s \in Sockets : sk[s].st = "listening" /\ sk[s].addr = a

-----------------------------------------------------------------------------
Init ==
    /\ listen_socks = [k \in Slots |-> NULL]
    /\ listen_socks_n = 0
    /\ sk = [s \in Sockets |-> [st |-> "free", addr |-> NULL]]
    /\ phase = "cfg"
    /\ ret = "NONE"
    /\ slotReads = {}

(***************************************************************************)
(* add_listen_sock(addr): refuse when the table is full, otherwise create *)
(* a socket, bind it and store it in slot listen_socks_n.  A failing      *)
(* create leaves nothing behind; a failing bind releases the socket.      *)
(***************************************************************************)
\* Mutant: the "table full" test is off by one.
add_listen_sock_full_off_by_one(addr) ==
    \/ /\ listen_socks_n > LISTEN_SOCKS_MAX
       /\ ret' = "ENOBUFS"
       /\ UNCHANGED <<listen_socks, listen_socks_n, sk>>
    \/ /\ listen_socks_n <= LISTEN_SOCKS_MAX
       /\ \E s \in Sockets :
            /\ sk[s].st = "free"
            /\ sk' = [sk EXCEPT ![s] = [st |-> "bound", addr |-> addr]]
            /\ listen_socks' = [listen_socks EXCEPT ![listen_socks_n] = s]
       /\ listen_socks_n' = listen_socks_n + 1
       /\ ret' = "OK"

\* Mutant: a failing bind returns without sock_release().
add_listen_sock_no_release(addr) ==
    \/ /\ listen_socks_n = LISTEN_SOCKS_MAX
       /\ ret' = "ENOBUFS"
       /\ UNCHANGED <<listen_socks, listen_socks_n, sk>>
    \/ /\ listen_socks_n # LISTEN_SOCKS_MAX
       /\ \E s \in Sockets :
            /\ sk[s].st = "free"
            /\ sk' = [sk EXCEPT ![s] = [st |-> "bound", addr |-> addr]]
            /\ ret' = "EBIND"
       /\ UNCHANGED <<listen_socks, listen_socks_n>>

add_listen_sock(addr) ==
    \/ /\ listen_socks_n = LISTEN_SOCKS_MAX
       /\ ret' = "ENOBUFS"
       /\ UNCHANGED <<listen_socks, listen_socks_n, sk>>
    \/ /\ listen_socks_n # LISTEN_SOCKS_MAX
       /\ ret' \in {"ECREATE", "EBIND"}
       /\ UNCHANGED <<listen_socks, listen_socks_n, sk>>
    \/ /\ listen_socks_n # LISTEN_SOCKS_MAX
       /\ ~ListeningOn(addr)
       /\ \E s \in Sockets :
            /\ sk[s].st = "free"
            /\ sk' = [sk EXCEPT ![s] = [st |-> "bound", addr |-> addr]]
            /\ listen_socks' = [listen_socks EXCEPT ![listen_socks_n] = s]
       /\ listen_socks_n' = listen_socks_n + 1
       /\ ret' = "OK"

(***************************************************************************)
(* handle_listen_cfg_entry(ce): one value, either a bare port in          *)
(* 0..65535 (bound on 0.0.0.0) or an address tfw_addr_pton accepts; any   *)
(* other entry is -EINVAL.  A valid entry is passed to add_listen_sock.   *)
(***************************************************************************)
\* The address of a "listen" value: 0.0.0.0:port for a bare port, else
\* what tfw_addr_pton makes of it.
ListenAddr(v) ==
    IF ParseInt[v] # NotInt THEN AnyAddrPort(ParseInt[v]) ELSE ParsePton[v]

\* The entry passes tfw_cfg_check_single_val and, for a bare port,
\* tfw_cfg_check_range(port, 0, 65535), or else tfw_addr_pton.
ListenEntryOk(e) ==
    /\ e.single
    /\ IF ParseInt[e.val] # NotInt
       THEN 0 <= ParseInt[e.val] /\ ParseInt[e.val] <= 65535
       ELSE ParsePton[e.val] # BadAddr

handle_listen_cfg_entry(e) ==
    /\ phase = "cfg"
    /\ \/ /\ ~ListenEntryOk(e)
          /\ ret' = "EINVAL"
          /\ UNCHANGED <<listen_socks, listen_socks_n, sk>>
       \/ ListenEntryOk(e) /\ add_listen_sock(ListenAddr(e.val))
    /\ UNCHANGED <<phase, slotReads>>

(***************************************************************************)
(* start_listen_socks(): FOR_EACH_SOCK calls listen() on slot 0, 1, ...   *)
(* and returns the first error.  j is the slot whose listen() fails, or   *)
(* listen_socks_n when none does; the slots before j listen.  The loop    *)
(* condition "sock = listen_socks[i], i < listen_socks_n" reads the slot  *)
(* before it compares, so the loop reads slots 0..j.                      *)
(***************************************************************************)
ListenOk(k) ==
    \A m \in 0..k - 1 : sk[listen_socks[m]].addr # sk[listen_socks[k]].addr

\* Mutant: the loop stops one slot early and still returns 0.
start_listen_socks_short_loop ==
    /\ phase = "cfg"
    /\ listen_socks_n > 0
    /\ \A k \in 0..listen_socks_n - 2 : ListenOk(k)
    /\ sk' = [s \in Sockets |->
                IF \E k \in 0..listen_socks_n - 2 : listen_socks[k] = s
                THEN [sk[s] EXCEPT !.st = "listening"] ELSE sk[s]]
    /\ slotReads' = 0..listen_socks_n - 1
    /\ phase' = "run" /\ ret' = "OK"
    /\ UNCHANGED <<listen_socks, listen_socks_n>>

start_listen_socks ==
    /\ phase = "cfg"
    /\ \E j \in 0..listen_socks_n :
         /\ \A k \in 0..j - 1 : ListenOk(k)
         /\ sk' = [s \in Sockets |->
                     IF \E k \in 0..j - 1 : listen_socks[k] = s
                     THEN [sk[s] EXCEPT !.st = "listening"] ELSE sk[s]]
         /\ slotReads' = 0..j
         /\ IF j = listen_socks_n
            THEN phase' = "run" /\ ret' = "OK"
            ELSE phase' = "failed" /\ ret' = "ELISTEN"
    /\ UNCHANGED <<listen_socks, listen_socks_n>>

(***************************************************************************)
(* stop_listen_socks(): release every stored socket, clear both tables    *)
(* and the counter.  The framework calls it after a run, after a failed   *)
(* start, or to undo a configuration pass.                                *)
(***************************************************************************)
\* Mutant: the memset() of listen_socks[] is missing.
stop_listen_socks_no_memset ==
    /\ sk' = [s \in Sockets |->
                IF s \in Stored THEN [st |-> "free", addr |-> NULL] ELSE sk[s]]
    /\ listen_socks_n' = 0
    /\ slotReads' = 0..listen_socks_n
    /\ phase' = "cfg"
    /\ ret' = "NONE"
    /\ UNCHANGED listen_socks

stop_listen_socks ==
    /\ sk' = [s \in Sockets |->
                IF s \in Stored THEN [st |-> "free", addr |-> NULL] ELSE sk[s]]
    /\ listen_socks' = [k \in Slots |-> NULL]
    /\ listen_socks_n' = 0
    /\ slotReads' = 0..listen_socks_n
    /\ phase' = "cfg"
    /\ ret' = "NONE"

Next ==
    \/ \E e \in Entries : handle_listen_cfg_entry(e)
    \/ start_listen_socks
    \/ stop_listen_socks

Spec == Init /\ [][Next]_vars

-----------------------------------------------------------------------------
(* Every variable has the shape the C declarations give it.              *)
TypeOK ==
    /\ listen_socks \in [Slots -> Sockets \cup {NULL}]
    /\ listen_socks_n \in 0..LISTEN_SOCKS_MAX
    /\ sk \in [Sockets -> [st : SockStates, addr : Addrs \cup {NULL}]]
    /\ phase \in {"cfg", "run", "failed"}
    /\ ret \in RetCodes
    /\ slotReads \in SUBSET (0..LISTEN_SOCKS_MAX)

(* The table is a prefix: slots below listen_socks_n hold distinct       *)
(* sockets and the others are NULL, so BUG_ON(listen_socks[n]) in        *)
(* add_listen_sock never fires, also after a stop and a second pass.     *)
SlotsWellFormed ==
    /\ \A k \in Slots : (listen_socks[k] = NULL) <=> (k >= listen_socks_n)
    /\ \A k, m \in 0..listen_socks_n - 1 :
         listen_socks[k] = listen_socks[m] => k = m

(* A socket is alive (created and not released) exactly when the table   *)
(* holds it: no failed bind, stop or restart leaks a socket or leaves a  *)
(* released one in the table.                                            *)
SocketOwnership ==
    \A s \in Sockets : (sk[s].st # "free") <=> (s \in Stored)

(* A start that returned 0 left every configured socket listening, on    *)
(* pairwise distinct addresses; sockets listen only after a start.       *)
ListenMatchesPhase ==
    /\ phase = "run" =>
         /\ \A s \in Stored : sk[s].st = "listening"
         /\ \A s, t \in Stored : sk[s].addr = sk[t].addr => s = t
    /\ phase = "cfg" => \A s \in Sockets : sk[s].st # "listening"

(* The FOR_EACH_SOCK loops read only slots inside listen_socks[].        *)
SlotReadsInBounds == slotReads \subseteq Slots

=============================================================================
