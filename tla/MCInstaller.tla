---------------------------- MODULE MCInstaller ----------------------------
(* Installer with every combination of answers, run up to three times.       *)
EXTENDS Installer
============================================================================
