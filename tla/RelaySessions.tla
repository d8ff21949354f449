---------------------------- MODULE RelaySessions ----------------------------
(***************************************************************************)
(* The two screen roles of syn-relay: --watch and --stop-watching          *)
(* (cmd_watch.c), --host-watched and --stop-hosting (cmd_host.c), and the   *)
(* pid file through which one command finds what another started           *)
(* (syn_agent_state.c).  A session is one child when watching and a pair   *)
(* when hosting.  The roles share no file, so a behaviour has one of them. *)
(*                                                                         *)
(* The file with the peer's name is only shown to the user: what is kept   *)
(* of it is that writing it may fail and takes the pid file along.         *)
(***************************************************************************)
EXTENDS Naturals, FiniteSets

CONSTANTS
  Tools,      \* the command lines that can run at the same time
  Sessions,   \* the sessions that may be started, numbered in the order of their forks
  MaxFaults   \* bound: forks and files that fail, children killed from outside

ASSUME BoundsAssumption == MaxFaults \in Nat /\ Sessions \subseteq Nat \ {0}

NoSession == 0
Parts(r) == IF r = "watch" THEN {"view"} ELSE {"video", "input"}
Children == Sessions \X {"view", "video", "input"}

VARIABLES
  role,      \* which of the two roles this behaviour is about
  pidfile,   \* the session whose children it names, or none: no file, or an empty one
  child,     \* [Children -> where the process is]
  told,      \* the children that a command has sent SIGTERM
  tool,      \* [Tools -> [op, at, seen, own, met]]; met: another command runs, or ran, beside it
  unlisted,  \* the sessions whose entry in the pid file could not be written, was
             \* cleared by the viewer of another, or fell to a command that met another
  faults

vars == <<role, pidfile, child, told, tool, unlisted, faults>>
ghosts == <<unlisted, faults>>

NoCommand == [op |-> "none", at |-> "idle", seen |-> NoSession, own |-> NoSession, met |-> FALSE]

Init == /\ role \in {"watch", "host"}
        /\ pidfile = NoSession
        /\ child = [c \in Children |-> "unused"]
        /\ told = {}
        /\ tool = [t \in Tools |-> NoCommand]
        /\ unlisted = {} /\ faults = 0

Living(c) == child[c] \notin {"unused", "gone"}
Family(s) == {s} \X Parts(role)
Running(s) == \E c \in Family(s) : Living(c) /\ c \notin told
Entry == {s \in Sessions : pidfile = s /\ Running(s)}
Fault == faults < MaxFaults /\ faults' = faults + 1

-------------------------------------------------------------------------------
(* The children.                                                           *)

Moves(c, from, to) == child[c] = from /\ child' = [child EXCEPT ![c] = to]
Quiet == UNCHANGED <<role, pidfile, told, tool, ghosts>>

(* The signal handlers go in: until then SIGTERM kills.  "blocked" is a    *)
(* child setting up or waiting: for the compositor, a stream, a packet.    *)
Install(c) == Moves(c, "forked", "blocked") /\ Quiet

(* How a child ends: the viewer still has the state to clear. *)
Ending == IF role = "watch" THEN "clearing" ELSE "gone"

(* while (!g_..._stop_requested), and then a call that blocks. *)
LoopTest(c) == Moves(c, "loop", IF c \in told THEN Ending ELSE "blocked") /\ Quiet

(* The stream opens; a packet, a frame, or a compositor event comes. *)
Served(c) == Moves(c, "blocked", "loop") /\ Quiet

(* Mutated form of Interrupted: the callback always lets FFmpeg wait on. *)
WaitsOn(c) == /\ c \in told /\ role = "watch"
              /\ Moves(c, "blocked", "blocked")
              /\ Quiet

(* FFmpeg asks interrupt_callback while it waits, and gives up when told. *)
Interrupted(c) == /\ c \in told /\ role = "watch"
                  /\ Moves(c, "blocked", Ending)
                  /\ Quiet

(* syn_watch_state_clear, whatever the file names by now, and _exit. *)
ViewClears(c) == /\ Moves(c, "clearing", "gone")
                 /\ pidfile' = NoSession
                 /\ unlisted' = unlisted \cup (Entry \ {c[1]})
                 /\ UNCHANGED <<role, told, tool, faults>>

(* A child ends without having been told.  The viewer: no stream, no       *)
(* decoder, no window, or the user closes it.  The video child: no display, *)
(* nothing to capture, no encoder, a capture that fails or is stopped.     *)
ViewEnds(c) == /\ c[2] = "view" /\ c \notin told
               /\ Moves(c, "blocked", "clearing")
               /\ Quiet
HalfEnds(c, from) == /\ c \notin told
                     /\ Moves(c, from, "gone")
                     /\ Quiet
VideoEnds(c) == c[2] = "video" /\ HalfEnds(c, "blocked")
(* The input child only while it sets up: a recv() that fails is tried     *)
(* again for ever.                                                         *)
InputFails(c) == c[2] = "input" /\ HalfEnds(c, "forked")

Killed(c) == /\ Living(c)
             /\ child' = [child EXCEPT ![c] = "gone"]
             /\ Fault
             /\ UNCHANGED <<role, pidfile, told, tool, unlisted>>

(* SIGTERM to every process of D.  A blocked call of the host's children   *)
(* returns EINTR if the signal finds them in it, and blocks on if the      *)
(* signal came just before, or if the library retries.                     *)
After(c) == CASE child[c] = "forked" -> {"gone"}
              [] child[c] = "blocked" -> IF role = "watch" THEN {"blocked"} ELSE {"blocked", "loop"}
              [] OTHER -> {child[c]}
Signal(D) == /\ told' = told \cup D
             /\ \E f \in [D -> {"unused", "gone", "blocked", "loop", "clearing"}] :
                  /\ \A c \in D : f[c] \in After(c)
                  /\ child' = [c \in Children |-> IF c \in D THEN f[c] ELSE child[c]]

-------------------------------------------------------------------------------
(* The commands.                                                           *)

Now(t, stage) == tool' = [tool EXCEPT ![t].at = stage]
Done(t) == tool' = [tool EXCEPT ![t] = NoCommand]
At(t, op, stage) == tool[t].op = op /\ tool[t].at = stage

Run(t, op) ==
  /\ tool[t].at = "idle"
  /\ LET busy == {u \in Tools : tool[u].at # "idle"} IN
     tool' = [u \in Tools |->
                IF u = t THEN [op |-> op, at |-> "look", seen |-> NoSession, own |-> NoSession, met |-> busy # {}]
                ELSE [tool[u] EXCEPT !.met = u \in busy]]
  /\ UNCHANGED <<role, pidfile, child, told, ghosts>>

(* Mutated form of Look: the pid file is not read. *)
LookAway(t) == /\ tool[t].at = "look"
               /\ tool' = [tool EXCEPT ![t].at = "check", ![t].seen = NoSession]
               /\ UNCHANGED <<role, pidfile, child, told, ghosts>>

(* syn_watch_state_get, syn_host_state_get: read the pids ... *)
Look(t) == /\ tool[t].at = "look"
           /\ tool' = [tool EXCEPT ![t].at = "check",
                                   ![t].seen = pidfile]
           /\ UNCHANGED <<role, pidfile, child, told, ghosts>>

(* ... and kill(pid, 0) each: all alive, or the session does not count.  A *)
(* dead child is still a process until its parent has returned.            *)
Answers(c) == Living(c) \/ (child[c] = "gone" /\ \E u \in Tools : tool[u].own = c[1])
Found(t) == tool[t].seen \in Sessions /\ \A c \in Family(tool[t].seen) : Answers(c)

Refuse(t) == /\ At(t, "start", "check") /\ Found(t)
             /\ Done(t)
             /\ UNCHANGED <<role, pidfile, child, told, ghosts>>

(* detect_screen_resolution finds no current mode. *)
NoScreen(t) == /\ At(t, "start", "check") /\ ~Found(t) /\ role = "host"
               /\ Done(t)
               /\ UNCHANGED <<role, pidfile, child, told, ghosts>>

Unborn(s) == child[<<s, "view">>] = "unused" /\ child[<<s, "video">>] = "unused"
ForkFirst(t, p, next) ==
  /\ At(t, "start", "check") /\ ~Found(t)
  /\ \/ \E s \in Sessions :
          /\ \A r \in Sessions : Unborn(r) <=> r >= s
          /\ child' = [child EXCEPT ![<<s, p>>] = "forked"]
          /\ tool' = [tool EXCEPT ![t] = [@ EXCEPT !.at = next, !.own = s, !.seen = NoSession]]
          /\ UNCHANGED <<told, faults>>
     \/ Done(t) /\ Fault /\ UNCHANGED <<child, told>>
  /\ UNCHANGED <<role, pidfile, unlisted>>
ForkView(t) == role = "watch" /\ ForkFirst(t, "view", "save")
ForkVideo(t) == role = "host" /\ ForkFirst(t, "video", "second")

(* Mutated form of ForkInput: the first child is forgotten. *)
ForkInputOnly(t) ==
  /\ At(t, "start", "second")
  /\ \/ /\ child' = [child EXCEPT ![<<tool[t].own, "input">>] = "forked"]
        /\ Now(t, "save")
        /\ UNCHANGED <<told, faults>>
     \/ /\ Done(t)
        /\ Fault /\ UNCHANGED <<child, told>>
  /\ UNCHANGED <<role, pidfile, unlisted>>

(* The second fork, which fails together with the first. *)
ForkInput(t) ==
  /\ At(t, "start", "second")
  /\ \/ /\ child' = [child EXCEPT ![<<tool[t].own, "input">>] = "forked"]
        /\ Now(t, "save")
        /\ UNCHANGED <<told, faults>>
     \/ /\ Signal({<<tool[t].own, "video">>})
        /\ Done(t)
        /\ Fault
  /\ UNCHANGED <<role, pidfile, unlisted>>

(* What the pid file says is replaced, whatever it is by now.               *)
Drops(t, own) == unlisted' = unlisted \cup own \cup (IF tool[t].met THEN Entry ELSE {})

(* fopen(pid_path, "w") empties the file, or fails and is only reported.   *)
SaveOpen(t) ==
  /\ At(t, "start", "save")
  /\ \/ pidfile' = NoSession /\ Now(t, "write") /\ Drops(t, {}) /\ UNCHANGED faults
     \/ /\ Done(t)
        /\ unlisted' = unlisted \cup {tool[t].own}
        /\ Fault /\ UNCHANGED pidfile
  /\ UNCHANGED <<role, child, told>>

(* The pids, and then the peer's name in a file of its own: if that fails  *)
(* the pid file goes again.                                                *)
SaveWrite(t) == /\ At(t, "start", "write") /\ Done(t)
                /\ \/ pidfile' = tool[t].own /\ Drops(t, {}) /\ UNCHANGED faults
                   \/ pidfile' = NoSession /\ Drops(t, {tool[t].own}) /\ Fault
                /\ UNCHANGED <<role, child, told>>

(* Kill what was found.  Found or not, the state is cleared next. *)
Stop(t) ==
  /\ At(t, "stop", "check")
  /\ IF Found(t) THEN Signal(Family(tool[t].seen)) ELSE UNCHANGED <<child, told>>
  /\ tool' = [tool EXCEPT ![t].at = "clear", ![t].seen = NoSession]
  /\ UNCHANGED <<role, pidfile, ghosts>>

Clear(t) == /\ At(t, "stop", "clear")
            /\ pidfile' = NoSession /\ Done(t) /\ Drops(t, {})
            /\ UNCHANGED <<role, child, told, faults>>

-------------------------------------------------------------------------------
Child(c) == \/ Install(c) \/ LoopTest(c) \/ Interrupted(c) \/ ViewClears(c)
Tool(t) == \/ Look(t) \/ Refuse(t) \/ NoScreen(t) \/ ForkView(t) \/ ForkVideo(t) \/ ForkInput(t) 
           \/ SaveOpen(t) \/ SaveWrite(t) \/ Stop(t) \/ Clear(t)
Next == \/ \E c \in Children : Child(c) \/ Served(c) \/ ViewEnds(c) \/ VideoEnds(c) \/ InputFails(c) \/ Killed(c)
        \/ \E t \in Tools : Tool(t) \/ \E op \in {"start", "stop"} : Run(t, op)
Spec == Init /\ [][Next]_vars

(* The scheduler runs what can run.  FFmpeg's open ends with an answer or   *)
(* the interrupt; nothing promises a frame, a packet or another command.    *)
Scheduled == \A c \in Children : WF_vars(Child(c))
FairSpec == Spec /\ Scheduled

-------------------------------------------------------------------------------
(* PROPERTIES                                                              *)

Idle == \A t \in Tools : tool[t].at = "idle"

TypeOK == /\ role \in {"watch", "host"}
          /\ pidfile \in Sessions \cup {NoSession}
          /\ child \in [Children -> {"unused", "forked", "loop", "blocked", "clearing", "gone"}]
          /\ told \subseteq Children
          /\ tool \in [Tools -> [op : {"none", "start", "stop"},
                                 at : {"idle", "look", "check", "second", "save", "write", "clear"},
                                 seen : Sessions \cup {NoSession}, own : Sessions \cup {NoSession},
                                 met : BOOLEAN]]
          /\ unlisted \subseteq Sessions
          /\ faults \in Nat

(* Between two commands every session that runs, unstopped, is the one the  *)
(* pid file names, so that it is shown and can be stopped, and there is no   *)
(* second one (cmd_watch_start, cmd_host_start and their stops).  These are  *)
(* the only ways out: half of a pair ended by itself, after which the file  *)
(* does not count; the file could not be written; two commands ran at once; *)
(* and the viewer of another session cleared the file when it ended, as one *)
(* does that was stopped just before this session was started.              *)
Half(s) == \E c \in Family(s) : child[c] = "gone" /\ c \notin told
Accounted == Idle => \A s \in Sessions : Running(s) => pidfile = s \/ Half(s) \/ s \in unlisted

(* A pair is started whole and stopped whole, "they always start/stop as a *)
(* pair" (syn_agent_state.h:31), also when the second fork fails: between  *)
(* commands no child runs on whose partner was told to stop.               *)
PairStoppedWhole == Idle => \A s \in Sessions : \A c, d \in Family(s) :
                              Living(d) /\ d \notin told => child[c] # "unused" /\ c \notin told

(* A viewer that was told to stop ends, whatever the network does:         *)
(* interrupt_callback is asked while FFmpeg waits (cmd_watch.c:76).        *)
WatchEnds == \A s \in Sessions : <<s, "view">> \in told ~> ~Living(<<s, "view">>)
===============================================================================
