---------------------------- MODULE MCLfsBuild ----------------------------
(* LfsBuild in one work directory, either way, from two terminals that may be *)
(* killed anywhere.                                                         *)
EXTENDS LfsBuild
MCKillAt == {"write", "format", "chroot", "squash", "end", "running"}
===========================================================================
