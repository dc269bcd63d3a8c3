----------------------------- MODULE MCPipeline -----------------------------
EXTENDS Pipeline

HeardBound == [m \in Modes |-> IF m = "endpoint" THEN 20 ELSE 40]
=============================================================================
