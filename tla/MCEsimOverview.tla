--------------------------- MODULE MCEsimOverview ---------------------------
(* TLC instance of EsimOverview: callers of the API, a card of two profiles, *)
(* which nothing tells apart.                                                *)
EXTENDS EsimOverview, TLC

CONSTANTS c1, c2, a, b

EitherProfile == Permutations(Profiles)
=============================================================================
