---------------------------- MODULE MCStreamDedup ----------------------------
(* Model-checking instance of StreamDedup: two streams of one key.  One    *)
(* consumer is enough, since consumers only read what streams write.       *)
EXTENDS StreamDedup
=============================================================================
