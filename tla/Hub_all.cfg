SPECIFICATION FairSpec
CONSTANTS
    SSE = {s1}
    WS = {w1}
    Publishers = {p1, p2}
    Topics = {t1, t2}
    BufferSize = 1
INVARIANTS NoPanic NoLeak
PROPERTIES DisconnectedConnectionEnds PublishersNeverBlock
