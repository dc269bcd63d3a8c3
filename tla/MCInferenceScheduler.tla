----------------------- MODULE MCInferenceScheduler -----------------------
\* Requests are model values and the rest are numbers, given in the .cfg files.
\* They are not declared symmetric: liveness is checked too.
EXTENDS InferenceScheduler
=============================================================================
