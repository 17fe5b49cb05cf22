--------------------------- MODULE MCRankingCache ---------------------------
(* An instance of RankingCache for TLC: two users of whom one is on the     *)
(* list, two ticks to an hour.                                              *)
EXTENDS RankingCache
=============================================================================
