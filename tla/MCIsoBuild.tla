----------------------------- MODULE MCIsoBuild -----------------------------
(* IsoBuild with two builders, two tools and two builds in all.              *)
EXTENDS IsoBuild
=============================================================================
