--------------------------- MODULE MCStatsBlocks ---------------------------
(* Windows of three cycles and frames of one or three bytes; two banks of   *)
(* two bins; two bits of STATUS and one of LAT_STATUS; counters that carry. *)
EXTENDS StatsBlocks
=============================================================================
