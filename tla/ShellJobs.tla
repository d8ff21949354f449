------------------------------- MODULE ShellJobs -------------------------------
(***************************************************************************)
(* syn-shell's Jobs::Manager (Jobs.h, Jobs.cpp) with the two places that   *)
(* drive it: the jobs window (cancel, clear) and MainWindow::closeEvent.   *)
(*                                                                         *)
(* Two kinds of thread meet here.  Everything but work() runs on the UI    *)
(* thread, one handler at a time; work() runs on a pool of MaxThreads, and *)
(* its end reaches the UI thread as a queued event.  The order in which    *)
(* the pool picks jobs and the event loop delivers their ends is left      *)
(* open, so every FIFO order is among the behaviours.                      *)
(***************************************************************************)
EXTENDS FiniteSets, Naturals

CONSTANTS Jobs,       \* the jobs that may ever be started
          MaxThreads  \* QThreadPool::maxThreadCount, 4 in the code

ASSUME JobsAssumption == IsFiniteSet(Jobs)
ASSUME MaxThreadsAssumption == MaxThreads \in Nat \ {0}

VARIABLES
  at,       \* [Jobs -> Stages], how far a job's closure has got
  state,    \* [Jobs -> States], Job::state, read and written by the UI thread
  cancel,   \* [Jobs -> BOOLEAN], Progress::cancel
  errors,   \* [Jobs -> BOOLEAN], Progress::errors() is not empty
  listed,   \* the set of jobs in m_jobs
  ticking,  \* m_tick is active
  ui        \* what the UI thread is in the middle of

vars == <<at, state, cancel, errors, listed, ticking, ui>>

Stages == {"new", "queued", "working", "posted", "ended"}
States == {"Running", "Done", "Failed", "Cancelled"}

(* "open": the event loop; "asking": closeEvent's question, a nested event *)
(* loop; "waiting": waitForAll(5000), which blocks; "closing": the close   *)
(* was accepted and the loop is on its way out; "gone": ~Manager has run;  *)
(* "exited": the pool's destructor returned and the process ended.         *)
UiModes == {"open", "asking", "waiting", "closing", "gone", "exited"}
Dispatching == {"open", "asking", "closing"}

TypeOK == /\ at \in [Jobs -> Stages]
          /\ state \in [Jobs -> States]
          /\ cancel \in [Jobs -> BOOLEAN]
          /\ errors \in [Jobs -> BOOLEAN]
          /\ listed \in SUBSET Jobs
          /\ ticking \in BOOLEAN
          /\ ui \in UiModes

Working == {j \in Jobs : at[j] = "working"}
Live(j) == at[j] \in {"queued", "working", "posted"}

(* Manager::running() counts the listed jobs whose state is Running; only  *)
(* whether there are any is ever asked.                                    *)
Running == {j \in listed : state[j] = "Running"}

Init == /\ at = [j \in Jobs |-> "new"]
        /\ state = [j \in Jobs |-> "Running"]
        /\ cancel = [j \in Jobs |-> FALSE]
        /\ errors = [j \in Jobs |-> FALSE]
        /\ listed = {}
        /\ ticking = FALSE
        /\ ui = "open"

-------------------------------------------------------------------------------
(* Mutated form of Start: the timer is started for the first job only. *)
StartTimerOnce(j) == /\ ui = "open"
                     /\ at[j] = "new"
                     /\ at' = [at EXCEPT ![j] = "queued"]
                     /\ listed' = listed \cup {j}
                     /\ ticking' = (ticking \/ listed = {})
                     /\ UNCHANGED <<state, cancel, errors, ui>>

(* Manager::start: a Job is born Running, listed, handed to the pool.      *)
Start(j) == /\ ui = "open"
            /\ at[j] = "new"
            /\ at' = [at EXCEPT ![j] = "queued"]
            /\ listed' = listed \cup {j}
            /\ ticking' = TRUE
            /\ UNCHANGED <<state, cancel, errors, ui>>

(* A pool thread takes the closure up and enters work(). *)
TakeUp(j) == /\ at[j] = "queued"
             /\ Cardinality(Working) < MaxThreads
             /\ at' = [at EXCEPT ![j] = "working"]
             /\ UNCHANGED <<state, cancel, errors, listed, ticking, ui>>

(* work() returns, with errors or without, and the end is posted to qApp.  *)
(* The worker reads nothing of state: that is settled on the UI thread.    *)
WorkReturns(j) == /\ at[j] = "working"
                  /\ at' = [at EXCEPT ![j] = "posted"]
                  /\ \E e \in BOOLEAN : errors' = [errors EXCEPT ![j] = e]
                  /\ UNCHANGED <<state, cancel, listed, ticking, ui>>

(* Mutated form of VerdictOf: errors are looked at before the cancel flag. *)
VerdictErrorsFirst(j) == IF errors[j] THEN "Failed"
                         ELSE IF cancel[j] THEN "Cancelled" ELSE "Done"

(* The verdict looks at the cancel flag as it is when the event is         *)
(* delivered, which may be later than when work() last looked.             *)
VerdictOf(j) == IF cancel[j] THEN "Cancelled"
                ELSE IF errors[j] THEN "Failed" ELSE "Done"

(* The queued lambda on the UI thread; delivered by nested loops too. *)
Deliver(j) == /\ ui \in Dispatching
              /\ at[j] = "posted"
              /\ at' = [at EXCEPT ![j] = "ended"]
              /\ state' = [state EXCEPT ![j] = VerdictOf(j)]
              /\ UNCHANGED <<cancel, errors, listed, ticking, ui>>

(* The 100 ms timer: stops itself when it finds nothing running. *)
Tick == /\ ui \in Dispatching
        /\ ticking
        /\ ticking' = (Running # {})
        /\ UNCHANGED <<at, state, cancel, errors, listed, ui>>

-------------------------------------------------------------------------------

(* A click on a job's [CANCEL]: the hit boxes are those of the last paint, *)
(* so the job may have ended since; it need only still be listed.          *)
CancelOne(j) == /\ ui = "open"
                /\ j \in listed
                /\ cancel' = [cancel EXCEPT ![j] = TRUE]
                /\ UNCHANGED <<at, state, errors, listed, ticking, ui>>

CancelRunning == cancel' = [j \in Jobs |-> cancel[j] \/ j \in Running]

CancelAll == /\ ui = "open"
             /\ CancelRunning
             /\ UNCHANGED <<at, state, errors, listed, ticking, ui>>

(* Mutated form of ClearFinished: what has left the pool counts as over. *)
ClearReturned == /\ ui = "open"
                 /\ listed' = {j \in listed : at[j] \in {"queued", "working"}}
                 /\ UNCHANGED <<at, state, cancel, errors, ticking, ui>>

ClearFinished == /\ ui = "open"
                 /\ listed' = Running
                 /\ UNCHANGED <<at, state, cancel, errors, ticking, ui>>

(* closeEvent: with something running the user is asked first. *)
Close == /\ ui = "open"
         /\ ui' = IF Running # {} THEN "asking" ELSE "closing"
         /\ UNCHANGED <<at, state, cancel, errors, listed, ticking>>

AnswerNo == /\ ui = "asking"
            /\ ui' = "open"
            /\ UNCHANGED <<at, state, cancel, errors, listed, ticking>>

(* Mutated form of AnswerYes: waits without cancelling first. *)
AnswerYesNoCancel == /\ ui = "asking"
                     /\ ui' = "waiting"
                     /\ UNCHANGED <<at, state, cancel, errors, listed, ticking>>

AnswerYes == /\ ui = "asking"
             /\ CancelRunning
             /\ ui' = "waiting"
             /\ UNCHANGED <<at, state, errors, listed, ticking>>

(* waitForAll(5000) returns when the pool is idle or the time is up, and   *)
(* closeEvent does not look at which.                                      *)
WaitEnds == /\ ui = "waiting"
            /\ ui' = "closing"
            /\ UNCHANGED <<at, state, cancel, errors, listed, ticking>>

(* The window and its Manager go: ~Manager cancels again and waits 3 s. *)
Destroy == /\ ui = "closing"
           /\ CancelRunning
           /\ ticking' = FALSE
           /\ ui' = "gone"
           /\ UNCHANGED <<at, state, errors, listed>>

(* Mutated form of Exit: waits for the ends to be delivered as well. *)
ExitAfterDelivery == /\ ui = "gone"
                     /\ \A j \in Jobs : ~Live(j)
                     /\ ui' = "exited"
                     /\ UNCHANGED <<at, state, cancel, errors, listed, ticking>>

(* ~QThreadPool waits without a limit for what is queued or working. *)
Exit == /\ ui = "gone"
        /\ \A j \in Jobs : at[j] \notin {"queued", "working"}
        /\ ui' = "exited"
        /\ UNCHANGED <<at, state, cancel, errors, listed, ticking>>

Next == \/ \E j \in Jobs : \/ Start(j) \/ TakeUp(j) \/ WorkReturns(j)
                           \/ Deliver(j) \/ CancelOne(j)
        \/ Tick \/ CancelAll \/ ClearFinished
        \/ Close \/ AnswerNo \/ AnswerYes \/ WaitEnds \/ Destroy \/ Exit

Spec == Init /\ [][Next]_vars

(* Threads and the event loop keep going, and work() returns (its loops    *)
(* poll cancel and end with their input); users need do nothing.           *)
Fairness == /\ \A j \in Jobs : /\ WF_vars(TakeUp(j))
                               /\ WF_vars(WorkReturns(j))
                               /\ WF_vars(Deliver(j))
            /\ WF_vars(Tick) /\ WF_vars(WaitEnds)
            /\ WF_vars(Destroy) /\ WF_vars(Exit)

FairSpec == Spec /\ Fairness

-------------------------------------------------------------------------------
(* PROPERTIES                                                              *)

(* A job whose end has not been delivered is in m_jobs with state Running, *)
(* whatever was cleared meanwhile: running(), cancelAll() and the close    *)
(* question all see it.                                                    *)
LiveJobsListed == \A j \in Jobs : Live(j) => j \in Running

(* While anything is Running the window's 10 Hz refresh is on: a timer     *)
(* that stopped itself is started again by the next start().               *)
TickWhileRunning == ui \notin {"gone", "exited"} /\ Running # {} => ticking

(* Once the close went through, every job that is not finished, and every  *)
(* job whose done callback (and with it the undo step) will never run, has *)
(* been told to stop: no worker is left going behind a closed window and   *)
(* no completed job loses its result without the user having said "quit".  *)
QuitLeavesNothingBehind ==
  ui \in {"waiting", "closing", "gone", "exited"} =>
    \A j \in Jobs : Live(j) => cancel[j]

(* A settled job keeps its verdict: late cancels (a click on a stale hit   *)
(* box, cancelAll on quit) never rewrite history.                          *)
VerdictIsFinal ==
  [][\A j \in Jobs : at[j] = "ended" => state'[j] = state[j]]_vars

(* Saying yes to "Cancel and quit?" ends the process, also when a worker   *)
(* takes longer than the five seconds closeEvent gives it.                 *)
QuitFinishes == ui = "waiting" ~> ui = "exited"

(* The manager keeps what JobPromise says. *)
Promise == INSTANCE JobPromise
             WITH verdict <- [j \in Jobs |-> IF at[j] = "new" THEN "Unstarted" ELSE state[j]],
                  asked <- cancel
KeepsPromise == Promise!PSpec
===============================================================================
