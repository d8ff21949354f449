----------------------------- MODULE MCBarTitles -----------------------------
(* BarTitles with two windows, two titles and three clients for two places. *)
EXTENDS BarTitles
MCDesktop == [w \in Windows |-> IF w = "v" THEN "x" ELSE "y"]
===============================================================================
