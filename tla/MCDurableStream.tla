--------------------------- MODULE MCDurableStream ---------------------------
(* Small instance of DurableStream.tla.                                      *)
EXTENDS DurableStream, TLC

StreamSymmetry == Permutations(Streams)
=============================================================================
