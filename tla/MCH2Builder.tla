---------------------------- MODULE MCH2Builder ----------------------------
(* Model-checking instance of H2Builder: the frame table of the code (two *)
(* frames) and a block that tries a third; header names and values of    *)
(* lengths around the 7-bit prefix limit (126, 127, 128) and one that     *)
(* needs two continuation octets (300), so every branch of write_int is  *)
(* taken.                                                               *)
EXTENDS H2BuilderDecode

MCHeaderRecs == {<<1, 126>>, <<127, 0>>, <<128, 300>>}
MCBigHeaderRecs == {<<1000, 1000>>}
=============================================================================
