--------------------------- MODULE MCRelaySessions ---------------------------
(* RelaySessions with two command lines at a time and two sessions in all. *)
EXTENDS RelaySessions
===============================================================================
