------------------------------ MODULE JobPromise ------------------------------
(***************************************************************************)
(* What syn-shell's job list promises the user, without threads, queues or *)
(* events: a job runs, may be asked to stop, and settles exactly once, on  *)
(* a verdict that says "Cancelled" exactly when it was asked to stop       *)
(* before it settled.                                                      *)
(***************************************************************************)
CONSTANT Jobs

VARIABLES verdict,  \* [Jobs -> "Unstarted" or a Jobs::State]
          asked     \* [Jobs -> BOOLEAN], a stop was asked for

pvars == <<verdict, asked>>

Verdicts == {"Done", "Failed", "Cancelled"}

PInit == /\ verdict = [j \in Jobs |-> "Unstarted"]
         /\ asked = [j \in Jobs |-> FALSE]

Begin(j) == /\ verdict[j] = "Unstarted"
            /\ verdict' = [verdict EXCEPT ![j] = "Running"]
            /\ UNCHANGED asked

(* One click or a whole sweep; asking a settled job to stop is harmless. *)
Ask(S) == /\ \A j \in S : verdict[j] # "Unstarted"
          /\ asked' = [j \in Jobs |-> asked[j] \/ j \in S]
          /\ UNCHANGED verdict

Settle(j) == /\ verdict[j] = "Running"
             /\ \E v \in Verdicts : /\ (v = "Cancelled") <=> asked[j]
                                    /\ verdict' = [verdict EXCEPT ![j] = v]
             /\ UNCHANGED asked

PNext == \/ \E j \in Jobs : Begin(j) \/ Settle(j)
         \/ \E S \in SUBSET Jobs : Ask(S)

PSpec == PInit /\ [][PNext]_pvars
===============================================================================
