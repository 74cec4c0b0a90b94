-------------------------- MODULE MCChunkPipeline --------------------------
(***************************************************************************)
(* ChunkPipeline for TLC: payloads longer than the channels, one with a    *)
(* short chunk at the limit and one above it, and shorter ones whose       *)
(* reader ends in every way with nothing read, within a chunk and behind   *)
(* one.                                                                    *)
(***************************************************************************)
EXTENDS ChunkPipeline

Long == [size : {9, 10}, ending : {"EOF"}]
Short == [size : {0, 3, 4}, ending : {"EOF", "UnexpectedEOF", "error"}]
LongAndShort == Long \cup Short
============================================================================
