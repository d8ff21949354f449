----------------------------- MODULE RelayServer -----------------------------
(***************************************************************************)
(* The stats server role of syn-relay (cmd_stats_server.c): the daemon that *)
(* binds the relay port, writes its pid file and accepts clients, and the  *)
(* command lines --start, --stop and --status that find it again through   *)
(* that file.  Every one of them is a process of its own, and each system  *)
(* call another process can notice is a step.                              *)
(*                                                                         *)
(* A process number is never given out twice here: a server has a number   *)
(* of its own.  What a client asks for is served by a process of its own   *)
(* (handle_client) that has closed the listening socket and is left out.   *)
(***************************************************************************)
EXTENDS Naturals, FiniteSets

CONSTANTS
  Tools,      \* the command lines that can run at the same time
  Servers,    \* the processes that may become the daemon
  Toast,      \* the notify-send child, which inherits the listening socket
  MaxFaults   \* bound: crashes, and calls that fail, in one behaviour

NoPid == "no pid"

ASSUME Distinct == /\ Tools \cap Servers = {}
                   /\ Toast \notin Tools \cup Servers
                   /\ {"none", "empty", NoPid} \cap Servers = {}
                   /\ MaxFaults \in Nat

VARIABLES
  pidfile,  \* "none", "empty", or the server it names
  holders,  \* the processes with the listening socket open
  queue,    \* a client waits to be accepted
  at,       \* [Servers -> where the daemon is]
  term,     \* [Servers -> BOOLEAN]: g_stop_requested
  tool,     \* [Tools -> [op, at, seen, out]]
  alone,    \* no command line was ever started while another ran
  mute,     \* the daemons that could not write the pid file
  faults

vars == <<pidfile, holders, queue, at, term, tool, alone, mute, faults>>

Ops == {"start", "stop", "status"}
Outcomes == {"none", "ok", "error"}

Init == /\ pidfile = "none" /\ holders = {} /\ queue = FALSE
        /\ at = [s \in Servers |-> "unused"]
        /\ term = [s \in Servers |-> FALSE]
        /\ tool = [t \in Tools |-> [op |-> "status", at |-> "idle", seen |-> NoPid, out |-> "none"]]
        /\ alone = TRUE /\ mute = {}
        /\ faults = 0

Alive(s) == at[s] \notin {"unused", "gone"}
Serving(s) == at[s] \in {"loop", "entering", "accept", "serving"}

Fault == faults < MaxFaults /\ faults' = faults + 1

(* A socket that nobody has open any more takes its backlog with it. *)
Release(p) == /\ holders' = holders \ {p}
              /\ queue' = (queue /\ holders' # {})

-------------------------------------------------------------------------------
(* The daemon.                                                             *)

Moves(s, from, to) == at[s] = from /\ at' = [at EXCEPT ![s] = to]

Install(s) == /\ Moves(s, "forked", "ready")
              /\ UNCHANGED <<pidfile, holders, queue, term, tool, alone, mute, faults>>

(* fopen(pid_path, "w") empties the file, or fails and nobody minds. *)
OpenPid(s) ==
  /\ \/ Moves(s, "ready", "opened") /\ pidfile' = "empty" /\ UNCHANGED <<mute, faults>>
     \/ Moves(s, "ready", "loop") /\ mute' = mute \cup {s} /\ Fault /\ UNCHANGED pidfile
  /\ UNCHANGED <<holders, queue, term, tool, alone>>

WritePid(s) == /\ Moves(s, "opened", "loop")
               /\ pidfile' = s
               /\ UNCHANGED <<holders, queue, term, tool, alone, mute, faults>>

(* Mutated form of Test: the loop never looks at the flag. *)
TestNothing(s) == /\ Moves(s, "loop", "entering")
                  /\ UNCHANGED <<pidfile, holders, queue, term, tool, alone, mute, faults>>

(* while (!g_stop_requested): tested, and then accept() is called. *)
Test(s) == /\ Moves(s, "loop", IF term[s] THEN "closing" ELSE "entering")
           /\ UNCHANGED <<pidfile, holders, queue, term, tool, alone, mute, faults>>
Block(s) == /\ Moves(s, "entering", "accept")
            /\ UNCHANGED <<pidfile, holders, queue, term, tool, alone, mute, faults>>

Accept(s) == /\ queue
             /\ Moves(s, "accept", "serving")
             /\ queue' = FALSE
             /\ UNCHANGED <<pidfile, holders, term, tool, alone, mute, faults>>

(* accept() fails for another reason than a signal: round the loop again. *)
AcceptFails(s) == /\ Moves(s, "accept", "loop") /\ Fault
                  /\ UNCHANGED <<pidfile, holders, queue, term, tool, alone, mute>>

(* note_client_connected tells the user of a new client, or one not seen   *)
(* for a minute, in a child; then the client's own child is forked.        *)
Serve(s) == /\ Moves(s, "serving", "loop")
            /\ holders' \in {holders, holders \cup {Toast}}
            /\ UNCHANGED <<pidfile, queue, term, tool, alone, mute, faults>>

Close(s) == /\ Moves(s, "closing", "closed")
            /\ Release(s)
            /\ UNCHANGED <<pidfile, term, tool, alone, mute, faults>>

(* remove(pid_path), whatever it says by now, and the end. *)
Remove(s) == /\ Moves(s, "closed", "gone")
             /\ pidfile' = "none"
             /\ UNCHANGED <<holders, queue, term, tool, alone, mute, faults>>

Crash(s) == /\ Alive(s)
            /\ at' = [at EXCEPT ![s] = "gone"]
            /\ Release(s)
            /\ Fault
            /\ UNCHANGED <<pidfile, term, tool, alone, mute>>

ToastEnds == /\ Toast \in holders
             /\ Release(Toast)
             /\ UNCHANGED <<pidfile, at, term, tool, alone, mute, faults>>

(* SIGTERM: before the handler is installed it kills; after, it sets the   *)
(* flag, and interrupts accept() if the daemon is blocked there.           *)
Signal(s) ==
  IF at[s] = "forked"
  THEN /\ at' = [at EXCEPT ![s] = "gone"]
       /\ Release(s)
       /\ UNCHANGED term
  ELSE /\ term' = [term EXCEPT ![s] = TRUE]
       /\ at' = [at EXCEPT ![s] = IF @ = "accept" THEN "loop" ELSE @]
       /\ UNCHANGED <<holders, queue>>

(* A client on the network: the kernel queues it for whoever listens. *)
Connect == /\ holders # {} /\ ~queue
           /\ queue' = TRUE
           /\ UNCHANGED <<pidfile, holders, at, term, tool, alone, mute, faults>>

-------------------------------------------------------------------------------
(* The command lines.                                                      *)

Now(t, stage) == tool' = [tool EXCEPT ![t].at = stage]
(* What a command line leaves behind is its exit code, and for the reader  *)
(* of a "Stopped (pid)" that pid.                                          *)
Ends(t, outcome) ==
  tool' = [tool EXCEPT ![t].at = "idle", ![t].out = outcome,
                       ![t].seen = IF tool[t].op = "stop" /\ outcome = "ok" THEN @ ELSE NoPid]

Run(t, op) ==
  /\ tool[t].at = "idle"
  /\ tool' = [tool EXCEPT ![t] = [op |-> op, at |-> "look", seen |-> NoPid, out |-> "none"]]
  /\ alone' = (alone /\ \A u \in Tools : tool[u].at = "idle")
  /\ UNCHANGED <<pidfile, holders, queue, at, term, mute, faults>>

(* running_server_pid: reads the file, then asks whether that pid lives. *)
Look(t) ==
  /\ tool[t].at = "look"
  /\ tool' = [tool EXCEPT ![t] =
                [@ EXCEPT !.at = "check", !.seen = IF pidfile \in Servers THEN pidfile ELSE NoPid]]
  /\ UNCHANGED <<pidfile, holders, queue, at, term, alone, mute, faults>>

Found(t) == tool[t].seen \in Servers /\ Alive(tool[t].seen)
Checking(t, op) == tool[t].at = "check" /\ tool[t].op = op

Status(t) == /\ Checking(t, "status")
             /\ Ends(t, "ok")
             /\ UNCHANGED <<pidfile, holders, queue, at, term, alone, mute, faults>>

(* Mutated form of Refuse: --start binds whether a server runs or not. *)
RefuseNot(t) == /\ Checking(t, "start") /\ Found(t)
                /\ \/ holders = {} /\ holders' = {t} /\ Now(t, "bound")
                   \/ holders # {} /\ UNCHANGED holders /\ Ends(t, "error")
                /\ UNCHANGED <<pidfile, queue, at, term, alone, mute, faults>>

Refuse(t) == /\ Checking(t, "start") /\ Found(t)
             /\ Ends(t, "error")
             /\ UNCHANGED <<pidfile, holders, queue, at, term, alone, mute, faults>>

(* Mutated form of Bind: a port that may be shared. *)
BindShared(t) == /\ Checking(t, "start") /\ ~Found(t)
                 /\ holders' = holders \cup {t} /\ Now(t, "bound")
                 /\ UNCHANGED <<pidfile, queue, at, term, alone, mute, faults>>

(* bind() before the fork, in the process the user waits for. *)
Bind(t) == /\ Checking(t, "start") /\ ~Found(t)
           /\ \/ holders = {} /\ holders' = {t} /\ Now(t, "bound")
              \/ holders # {} /\ UNCHANGED holders /\ Ends(t, "error")
           /\ UNCHANGED <<pidfile, queue, at, term, alone, mute, faults>>

(* The child has the socket, the parent closes its own and returns. *)
Fork(t) == /\ tool[t].at = "bound"
           /\ \/ /\ \E s \in Servers : /\ Moves(s, "unused", "forked")
                                       /\ holders' = (holders \ {t}) \cup {s}
                 /\ Ends(t, "ok")
                 /\ UNCHANGED <<queue, faults>>
              \/ /\ Release(t) /\ Ends(t, "error") /\ Fault
                 /\ UNCHANGED at
           /\ UNCHANGED <<pidfile, term, alone, mute>>

FindToStop(t) == /\ Checking(t, "stop")
                 /\ IF Found(t) THEN Now(t, "kill") ELSE Ends(t, "error")
                 /\ UNCHANGED <<pidfile, holders, queue, at, term, alone, mute, faults>>

Term(t) == /\ tool[t].at = "kill"
           /\ \/ /\ Alive(tool[t].seen)
                 /\ Signal(tool[t].seen) /\ Now(t, "wait")
              \/ /\ ~Alive(tool[t].seen)
                 /\ Ends(t, "error")
                 /\ UNCHANGED <<holders, queue, at, term>>
           /\ UNCHANGED <<pidfile, alone, mute, faults>>

(* Mutated form of Poll: sent is taken for stopped. *)
PollHopeful(t) == /\ tool[t].at = "wait"
                  /\ Ends(t, "ok")
                  /\ UNCHANGED <<pidfile, holders, queue, at, term, alone, mute, faults>>

(* Twenty looks in two seconds: gone, or the time is up. *)
Poll(t) == /\ tool[t].at = "wait"
           /\ ~Alive(tool[t].seen) /\ Ends(t, "ok")
           /\ UNCHANGED <<pidfile, holders, queue, at, term, alone, mute, faults>>
GiveUp(t) == /\ tool[t].at = "wait"
             /\ Alive(tool[t].seen) /\ Ends(t, "error")
             /\ UNCHANGED <<pidfile, holders, queue, at, term, alone, mute, faults>>

-------------------------------------------------------------------------------
Daemon(s) == \/ Install(s) \/ OpenPid(s) \/ WritePid(s) \/ Test(s) \/ Block(s)
             \/ Accept(s) \/ Serve(s) \/ Close(s) \/ Remove(s)
Tool(t) == \/ Look(t) \/ Status(t) \/ Refuse(t) \/ Bind(t) \/ Fork(t) \/ FindToStop(t)
           \/ Term(t) \/ Poll(t) \/ GiveUp(t)

Next == \/ \E s \in Servers : Daemon(s) \/ AcceptFails(s) \/ Crash(s)
        \/ \E t \in Tools : Tool(t) \/ \E op \in Ops : Run(t, op)
        \/ ToastEnds \/ Connect

Spec == Init /\ [][Next]_vars

(* A process that can run does; nobody has to start a command, to connect  *)
(* or to crash.  The scheduler runs every runnable process.                *)
Scheduled == /\ \A s \in Servers : WF_vars(Daemon(s))
             /\ \A t \in Tools : WF_vars(Tool(t))
             /\ WF_vars(ToastEnds)
(* No client is ever due.                                                  *)
QuietSpec == Spec /\ Scheduled

-------------------------------------------------------------------------------
(* PROPERTIES                                                              *)

Stages == {"unused", "forked", "ready", "opened", "loop", "entering", "accept", "serving",
           "closing", "closed", "gone"}
TypeOK == /\ pidfile \in {"none", "empty"} \cup Servers
          /\ holders \subseteq Tools \cup Servers \cup {Toast}
          /\ queue \in BOOLEAN
          /\ at \in [Servers -> Stages]
          /\ term \in [Servers -> BOOLEAN]
          /\ tool \in [Tools -> [op : Ops,
                                 at : {"idle", "look", "check", "bound", "kill", "wait"},
                                 seen : Servers \cup {NoPid}, out : Outcomes]]
          /\ alone \in BOOLEAN /\ mute \subseteq Servers
          /\ faults \in Nat

(* However many --start run at once, and whatever their looks at the pid   *)
(* file told them, one daemon at a time has the port.                      *)
Listening(s) == at[s] \notin {"unused", "closed", "gone"}
OneDaemon == \A r, s \in Servers : Listening(r) /\ Listening(s) => r = s

(* "Stopped" is only said of a process that is gone: "rather than printing *)
(* "Stopped" for a process that's still alive a moment later"              *)
(* (cmd_stats_server.c:424).                                               *)
StopIsTrue == \A t \in Tools : tool[t].op = "stop" /\ tool[t].out = "ok"
                          => tool[t].seen \in Servers /\ at[tool[t].seen] = "gone"

(* A daemon in its accept loop is the one the pid file names, so --status  *)
(* shows it and --stop finds it, as long as the user's commands never      *)
(* overlapped and the file could be written.                               *)
ListedIfServing == \A s \in Servers : alone /\ Serving(s) /\ s \notin mute => pidfile = s

(* A daemon that was told to stop does: at once wherever the signal found   *)
(* it, blocked in accept(), serving or starting up, but for the moment       *)
(* between the test of the flag and accept(); and then when a client waits.  *)
NoticesStop == \A s \in Servers :
  (term[s] /\ (at[s] \in {"entering", "accept"} => queue)) ~> at[s] = "gone"

(* What is written beside the code: --stop requests "a clean shutdown"      *)
(* (cmd_stats_server.c:49) that the accept loop notices without waiting for *)
(* "the next inbound connection" (cmd_stats_server.c:322).  Violated: the   *)
(* signal that comes between the test and accept() interrupts nothing.      *)
StopEnds == \A s \in Servers : term[s] ~> at[s] = "gone"
===============================================================================
