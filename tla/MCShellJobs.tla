------------------------------ MODULE MCShellJobs ------------------------------
(* ShellJobs on three jobs over a pool of two threads. *)
EXTENDS ShellJobs

CONSTANTS j1, j2, j3

MCJobs == {j1, j2, j3}
===============================================================================
