------------------------- MODULE MCReplicationPipeline -------------------------
EXTENDS ReplicationPipeline

MCPayload == {"small", "large"}
MCBytes   == [p \in MCPayload |-> IF p = "small" THEN 1 ELSE 2]

\* next_backoff_ms on every attempt count around its two caps (the shift stops
\* at ten doublings, the delay at five seconds): positive, monotone, capped.
ASSUME BackoffCurve ==
  \A a \in 1 .. 40 :
    /\ NextBackoffMs(a) \in 10 .. MaxBackoffMs
    /\ NextBackoffMs(a) <= NextBackoffMs(a + 1)
    /\ a >= 10 => NextBackoffMs(a) = MaxBackoffMs
================================================================================
