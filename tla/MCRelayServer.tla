---------------------------- MODULE MCRelayServer ----------------------------
(* RelayServer with two command lines at a time and two daemons in all. *)
EXTENDS RelayServer

CONSTANTS t1, t2, s1, s2, notify
MCTools == {t1, t2}
MCServers == {s1, s2}
===============================================================================
