--------------------------- MODULE MCRankedSearch ---------------------------
(***************************************************************************)
(* A small instance of RankedSearch: four episodes and a pool of two, so   *)
(* that the pool can be filled, and rrf_k at its smallest, twice the pool. *)
(***************************************************************************)
EXTENDS RankedSearch

\* "ab" and "c" meet in one coordinate of four, "Km" is alone in its own.
MCHash == [t \in Tokens |-> CASE t = "ab" -> 1 [] t = "c" -> 5 [] t = "Km" -> 6]

MCLimits == {-1, 1, 4}

MCShare == [r \in 0..Pool-1 |-> Scale \div (RrfK + r)]

=============================================================================
