--------------------------- MODULE MCStreamingFlow ---------------------------
(* Model-checking instance of StreamingFlow: one stream, two backends, with *)
(* answers longer and shorter than what a speculative flow holds back.      *)
EXTENDS StreamingFlow
=============================================================================
