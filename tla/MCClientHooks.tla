--------------------------- MODULE MCClientHooks ---------------------------
(* Model-checking instance of ClientHooks: three client sockets, enough  *)
(* for one to take each failure path of connection_new while another is  *)
(* established and closed by its peer.                                  *)
EXTENDS ClientHooks, TLC

MCSymmetry == Permutations(Socks)
=============================================================================
