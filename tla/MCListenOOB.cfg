CONSTANTS
    LISTEN_SOCKS_MAX = 3
    Sockets = {s1, s2, s3, s4}
    NULL = NULL
    NotInt = NotInt
    BadAddr = BadAddr
    CfgVals <- MCCfgVals
    Addrs <- MCAddrs
    ParseInt <- MCParseInt
    ParsePton <- MCParsePton
    AnyAddrPort <- MCAnyAddrPort
SYMMETRY MCSymmetry
SPECIFICATION Spec
INVARIANT SlotReadsInBounds
