SPECIFICATION Spec
CONSTANTS
    s1 = s1  s2 = s2  s3 = s3  s4 = s4  w1 = w1  w2 = w2  w3 = w3  k = k
    Sinks = {k}
    Sources <- Chain3Sources
    Bufs <- Chain3Bufs
    Peers <- Chain3Peers
INVARIANT OneFramePerWave
