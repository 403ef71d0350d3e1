------------------------------ MODULE MCDmmWave ------------------------------
(* Topologies of sources, wavebufs and a sink for TLC.                     *)
EXTENDS DmmWave

CONSTANTS s1, s2, s3, s4, w1, w2, w3, k

\* One layer: four sources feed three wavebufs, with shared and private
\* inputs, s3 and s4 also the sink directly; every wavebuf feeds the sink.
LayerSources == {s1, s2, s3, s4}
LayerBufs == {w1, w2, w3}
LayerPeers == (s1 :> <<w1, w2>>) @@ (s2 :> <<w2, w3>>) @@ (s3 :> <<w3, w1, k>>)
              @@ (s4 :> <<k, w2>>)
              @@ (w1 :> <<k>>) @@ (w2 :> <<k>>) @@ (w3 :> <<k>>)

\* Two wavebufs in a chain: w1 feeds w2, which feeds the sink.
ChainSources == {s1, s2}
ChainBufs == {w1, w2}
ChainPeers == (s1 :> <<w2>>) @@ (s2 :> <<w1>>)
              @@ (w1 :> <<w2>>) @@ (w2 :> <<k>>)

\* The chain with a third, independent wavebuf.
Chain3Sources == {s1, s2, s3}
Chain3Bufs == {w1, w2, w3}
Chain3Peers == (s1 :> <<w2>>) @@ (s2 :> <<w1>>) @@ (s3 :> <<w3>>)
               @@ (w1 :> <<w2>>) @@ (w2 :> <<k>>) @@ (w3 :> <<k>>)
=============================================================================
