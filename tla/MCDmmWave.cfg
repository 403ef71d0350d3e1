SPECIFICATION Spec
CONSTANTS
    s1 = s1  s2 = s2  s3 = s3  s4 = s4  w1 = w1  w2 = w2  w3 = w3  k = k
    Sinks = {k}
    Sources <- LayerSources
    Bufs <- LayerBufs
    Peers <- LayerPeers
INVARIANTS TypeOK WfRefsMatch OneFramePerWave WaveCoalesced
PROPERTY EventuallyFlushed
