------------------------- MODULE ClientHooksProofs -------------------------
(* Proofs about the client socket hooks, for every set of sockets and     *)
(* either classifier behaviour.                                           *)
EXTENDS ClientHooks, TLAPS

\* The invariant the proofs carry: types and the resource/state relation.
IInv == TypeOK /\ ResourcesMatchState

LEMMA InitIInv == Init => IInv
BY DEF Init, IInv, TypeOK, ResourcesMatchState, SockStates, ConnStates, RetCodes

LEMMA ConnectIInv ==
    ASSUME IInv, NEW s \in Socks, tfw_client_connect_complete(s)
    PROVE  IInv'
<1>1. skst[s] = "new"
  BY DEF tfw_client_connect_complete
<1>2. CASE /\ skst' = [skst EXCEPT ![s] = "rejected"]
           /\ ret' = [ret EXCEPT ![s] = "EPERM"]
           /\ UNCHANGED <<conn, cli>>
  BY <1>1, <1>2 DEF IInv, TypeOK, ResourcesMatchState, SockStates, RetCodes
<1>3. CASE /\ skst' = [skst EXCEPT ![s] = "closing"]
           /\ ret' = [ret EXCEPT ![s] = "ENOMEM"]
           /\ UNCHANGED <<conn, cli>>
  BY <1>1, <1>3 DEF IInv, TypeOK, ResourcesMatchState, SockStates, RetCodes
<1>4. CASE /\ conn' = [conn EXCEPT ![s] = "alive"]
           /\ skst' = [skst EXCEPT ![s] = "closing"]
           /\ ret' = [ret EXCEPT ![s] = "EINVAL"]
           /\ UNCHANGED cli
  BY <1>1, <1>4 DEF IInv, TypeOK, ResourcesMatchState, SockStates,
                    ConnStates, RetCodes
<1>5. CASE /\ conn' = [conn EXCEPT ![s] = "alive"]
           /\ cli' = [cli EXCEPT ![s] = TRUE]
           /\ skst' = [skst EXCEPT ![s] = "estab"]
           /\ ret' = [ret EXCEPT ![s] = "OK"]
  BY <1>5 DEF IInv, TypeOK, ResourcesMatchState, SockStates, ConnStates,
              RetCodes
<1>6. QED
  BY <1>2, <1>3, <1>4, <1>5 DEF tfw_client_connect_complete

LEMMA PeerCloseIInv ==
    ASSUME IInv, NEW s \in Socks, PeerClose(s)
    PROVE  IInv'
BY DEF IInv, TypeOK, ResourcesMatchState, PeerClose, SockStates

LEMMA CloseIInv ==
    ASSUME IInv, NEW s \in Socks, tfw_client_connection_close(s)
    PROVE  IInv'
BY DEF IInv, TypeOK, ResourcesMatchState, tfw_client_connection_close,
       SockStates, ConnStates, RetCodes

LEMMA NextIInv == IInv /\ [Next]_vars => IInv'
<1> SUFFICES ASSUME IInv, [Next]_vars PROVE IInv'
  OBVIOUS
<1>1. CASE Next
  BY <1>1, ConnectIInv, PeerCloseIInv, CloseIInv DEF Next
<1>2. CASE UNCHANGED vars
  BY <1>2 DEF vars, IInv, TypeOK, ResourcesMatchState
<1>3. QED
  BY <1>1, <1>2

(* Whatever the allocators and the classifier do, a client exists only   *)
(* on a live connection, an established socket has its connection and    *)
(* client, and a connection is released only once its socket is closed.  *)
THEOREM HooksSafety == Spec => [](TypeOK /\ ResourcesMatchState)
<1>1. Spec => []IInv
  BY InitIInv, NextIInv, PTL DEF Spec
<1>2. QED
  BY <1>1, PTL DEF IInv

=============================================================================
