------------------------------ MODULE MCListen ------------------------------
(* Model-checking instance of Listen: a three-slot table, four kernel     *)
(* sockets, and "listen" values that cover a bare port, two out-of-range *)
(* ports, an explicit address and garbage.                               *)
EXTENDS Listen, TLC

MCCfgVals == {"80", "8081", "65536", "-1", "127.0.0.1:8081", "dummy"}

MCAddrs == {"0.0.0.0:80", "0.0.0.0:8081", "127.0.0.1:8081"}

MCParseInt == [v \in MCCfgVals |->
                 CASE v = "80"    -> 80
                   [] v = "8081"  -> 8081
                   [] v = "65536" -> 65536
                   [] v = "-1"    -> -1
                   [] OTHER       -> NotInt]

MCParsePton == [v \in MCCfgVals |->
                  IF v = "127.0.0.1:8081" THEN "127.0.0.1:8081" ELSE BadAddr]

MCAnyAddrPort(p) == IF p = 80 THEN "0.0.0.0:80" ELSE "0.0.0.0:8081"

MCSymmetry == Permutations(Sockets)
=============================================================================
