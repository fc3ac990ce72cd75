---------------------------- MODULE MCLineReader ----------------------------
(* Instances of LineReader for TLC.                                        *)
EXTENDS LineReader

SmallChunks == UNION {[1..n -> Bytes] : n \in 1..2}
SmallCounts == 0..2
=============================================================================
