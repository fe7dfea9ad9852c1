---------------------------- MODULE ClientHooks ----------------------------
(***************************************************************************)
(* The client socket hooks of src/tempesta_fw/sock_clnt.c: ss_client_hooks *)
(* connection_new = tfw_client_connect_complete and connection_drop =      *)
(* connection_close = tfw_client_connection_close.                        *)
(*                                                                         *)
(* Every socket of Socks is a client socket accepted on a listening        *)
(* socket.  The synchronous-socket layer calls connection_new once the    *)
(* handshake completes and the close hook once the socket goes down,      *)
(* either because the peer closed it or because ss_close() was called.    *)
(* The connection (tfw_connection_new, bound to the socket) and the       *)
(* client (tfw_create_client, released by the tfw_client_put destructor   *)
(* of the connection) are the resources the hooks own.  The classifier,   *)
(* the allocators and the peer are the environment: their results are     *)
(* nondeterministic.  CloseMayBlock says whether the classifier may block *)
(* a close (tfw_classify_conn_close returning TFW_BLOCK).                 *)
(***************************************************************************)
CONSTANTS
    Socks,          \* the client sockets
    CloseMayBlock   \* tfw_classify_conn_close may return TFW_BLOCK

ASSUME CloseMayBlockAssumption == CloseMayBlock \in BOOLEAN

VARIABLES
    skst,   \* the socket: "new" (handshake done), "estab", "rejected",
            \* "closing" (going down, the close hook is due), "closed"
    conn,   \* its TfwConnection: "none", "alive", "released"
    cli,    \* a TfwClient is attached to the connection
    ret     \* what the last hook on the socket returned

vars == <<skst, conn, cli, ret>>

SockStates == {"new", "estab", "rejected", "closing", "closed"}
ConnStates == {"none", "alive", "released"}
RetCodes == {"NONE", "OK", "EPERM", "ENOMEM", "EINVAL"}

Init ==
    /\ skst = [s \in Socks |-> "new"]
    /\ conn = [s \in Socks |-> "none"]
    /\ cli = [s \in Socks |-> FALSE]
    /\ ret = [s \in Socks |-> "NONE"]

(***************************************************************************)
(* tfw_client_connect_complete(sk): the classifier may refuse the socket  *)
(* before anything is allocated (-EPERM, the caller disposes of it);      *)
(* otherwise a connection is allocated, and a client for it; a failure of *)
(* either calls ss_close(sk), and a connection already allocated stays    *)
(* bound to the socket for the close hook to release.                    *)
(***************************************************************************)
\* Mutant: the result of tfw_create_client is not checked.
tfw_client_connect_complete_no_check(s) ==
    /\ skst[s] = "new"
    /\ \/ /\ skst' = [skst EXCEPT ![s] = "rejected"]
          /\ ret' = [ret EXCEPT ![s] = "EPERM"]
          /\ UNCHANGED <<conn, cli>>
       \/ /\ skst' = [skst EXCEPT ![s] = "closing"]
          /\ ret' = [ret EXCEPT ![s] = "ENOMEM"]
          /\ UNCHANGED <<conn, cli>>
       \/ /\ conn' = [conn EXCEPT ![s] = "alive"]
          /\ cli' \in {[cli EXCEPT ![s] = TRUE], cli}
          /\ skst' = [skst EXCEPT ![s] = "estab"]
          /\ ret' = [ret EXCEPT ![s] = "OK"]

tfw_client_connect_complete(s) ==
    /\ skst[s] = "new"
    /\ \/ /\ skst' = [skst EXCEPT ![s] = "rejected"]
          /\ ret' = [ret EXCEPT ![s] = "EPERM"]
          /\ UNCHANGED <<conn, cli>>
       \/ /\ skst' = [skst EXCEPT ![s] = "closing"]
          /\ ret' = [ret EXCEPT ![s] = "ENOMEM"]
          /\ UNCHANGED <<conn, cli>>
       \/ /\ conn' = [conn EXCEPT ![s] = "alive"]
          /\ skst' = [skst EXCEPT ![s] = "closing"]
          /\ ret' = [ret EXCEPT ![s] = "EINVAL"]
          /\ UNCHANGED cli
       \/ /\ conn' = [conn EXCEPT ![s] = "alive"]
          /\ cli' = [cli EXCEPT ![s] = TRUE]
          /\ skst' = [skst EXCEPT ![s] = "estab"]
          /\ ret' = [ret EXCEPT ![s] = "OK"]

\* The peer closes an established socket, or it fails.
PeerClose(s) ==
    /\ skst[s] = "estab"
    /\ skst' = [skst EXCEPT ![s] = "closing"]
    /\ UNCHANGED <<conn, cli, ret>>

(***************************************************************************)
(* tfw_client_connection_close(sk): the classifier sees the close first   *)
(* and may block it (-EPERM, nothing is closed); otherwise                *)
(* tfw_connection_close(sk) releases the connection bound to the socket,  *)
(* and with it the client.                                                *)
(***************************************************************************)
tfw_client_connection_close(s) ==
    /\ skst[s] = "closing"
    /\ skst' = [skst EXCEPT ![s] = "closed"]
    /\ \/ /\ CloseMayBlock
          /\ ret' = [ret EXCEPT ![s] = "EPERM"]
          /\ UNCHANGED <<conn, cli>>
       \/ /\ conn' = [conn EXCEPT ![s] = IF @ = "alive" THEN "released" ELSE @]
          /\ cli' = [cli EXCEPT ![s] = FALSE]
          /\ ret' = [ret EXCEPT ![s] = "OK"]

Next ==
    \E s \in Socks :
        \/ tfw_client_connect_complete(s)
        \/ PeerClose(s)
        \/ tfw_client_connection_close(s)

Spec == Init /\ [][Next]_vars

-----------------------------------------------------------------------------
(* Every variable has its type.                                          *)
TypeOK ==
    /\ skst \in [Socks -> SockStates]
    /\ conn \in [Socks -> ConnStates]
    /\ cli \in [Socks -> BOOLEAN]
    /\ ret \in [Socks -> RetCodes]

(* The resources of a socket match its state: a client exists only on a  *)
(* live connection, an established socket has both, and a connection is *)
(* released only by the close hook, never under a socket still in use.   *)
ResourcesMatchState ==
    \A s \in Socks :
        /\ cli[s] => conn[s] = "alive"
        /\ skst[s] = "estab" => conn[s] = "alive" /\ cli[s]
        /\ conn[s] = "released" => skst[s] = "closed"

(* No socket that went down keeps its connection: the partial failures   *)
(* of connection_new (ss_close with or without a connection) and every    *)
(* peer close end with the connection released by the close hook.  The  *)
(* early return of tfw_client_connection_close on a blocked close breaks *)
(* it (hooks_close_blocked).                                              *)
ClosedConnReleased ==
    \A s \in Socks : skst[s] = "closed" => conn[s] # "alive"

=============================================================================
