------------------------------ MODULE MCShellPty ------------------------------
(***************************************************************************)
(* A session with a foot window to move to, three folders, and a user who   *)
(* does a few things in the browser and in the shell.                      *)
(***************************************************************************)
EXTENDS ShellPty

CONSTANT f
MCFoots == {f}
===============================================================================
