--------------------------- MODULE MCStreamManager ---------------------------
(* Small instance of StreamManager.tla.                                      *)
EXTENDS StreamManager, TLC

StreamSymmetry == Permutations(Streams)
=============================================================================
