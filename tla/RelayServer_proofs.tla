-------------------------- MODULE RelayServer_proofs --------------------------
(***************************************************************************)
(* Proofs about RelayServer, for any number of command lines and daemons.  *)
(*                                                                         *)
(* OneDaemon is not inductive: it rests on who has the listening socket    *)
(* open.  Exactly the listening daemons and the command lines between bind *)
(* and fork have it, and at most one of all these at a time; notify-send   *)
(* may keep it open beside them.                                           *)
(***************************************************************************)
EXTENDS RelayServer, TLAPS

HoldersAreListening ==
  /\ \A s \in Servers : s \in holders <=> Listening(s)
  /\ \A t \in Tools : t \in holders <=> tool[t].at = "bound"

OneHolder == \A p, q \in holders \ {Toast} : p = q

(* A command line that signals or waits found a daemon that had started. *)
SeenWasReal ==
  \A t \in Tools : tool[t].at \in {"kill", "wait"} =>
    tool[t].seen \in Servers /\ at[tool[t].seen] # "unused"

(* While it runs a command line has no exit code yet. *)
OutOnlyAtTheEnd == \A t \in Tools : tool[t].at # "idle" => tool[t].out = "none"

IInv == TypeOK /\ HoldersAreListening /\ OneHolder /\ SeenWasReal /\ OutOnlyAtTheEnd /\ StopIsTrue

USE DEF TypeOK, HoldersAreListening, OneHolder, SeenWasReal, OutOnlyAtTheEnd, StopIsTrue,
        Listening, Alive, Stages, Ops, Outcomes, Moves, Fault, Release

(* A function changed at one argument. *)
LEMMA Updated == ASSUME NEW S, NEW T, NEW f \in [S -> T], NEW x \in S, NEW v \in T
                 PROVE  [f EXCEPT ![x] = v] \in [S -> T]
  OBVIOUS

(* Nothing runs at first. *)
LEMMA InitIInv == Init => IInv
<1> SUFFICES ASSUME Init PROVE IInv
  OBVIOUS
<1> USE DEF Init
<1>1. alone \in BOOLEAN /\ queue \in BOOLEAN
  BY Zenon
<1>2. term \in [Servers -> BOOLEAN]
  OBVIOUS
<1>3. tool \in [Tools -> [op : Ops,
                         at : {"idle", "look", "check", "bound", "kill", "wait"},
                         seen : Servers \cup {NoPid}, out : Outcomes]]
  OBVIOUS
<1>4. TypeOK
  BY <1>1, <1>2, <1>3
<1>5. HoldersAreListening /\ OneHolder
  BY Distinct
<1>6. SeenWasReal /\ OutOnlyAtTheEnd /\ StopIsTrue
  OBVIOUS
<1> QED  BY <1>4, <1>5, <1>6 DEF IInv

(* Every system call of every process preserves the inductive invariant. *)
LEMMA NextIInv == IInv /\ [Next]_vars => IInv'
<1> SUFFICES ASSUME IInv, [Next]_vars PROVE IInv'
  OBVIOUS
<1> USE Distinct DEF IInv
<1>1. ASSUME NEW s \in Servers, Install(s) PROVE IInv'
  BY <1>1 DEF Install
<1>2. ASSUME NEW s \in Servers, OpenPid(s) PROVE IInv'
  BY <1>2 DEF OpenPid
<1>3. ASSUME NEW s \in Servers, WritePid(s) PROVE IInv'
  BY <1>3 DEF WritePid
<1>4. ASSUME NEW s \in Servers, Test(s) PROVE IInv'
  BY <1>4 DEF Test
<1>5. ASSUME NEW s \in Servers, Block(s) PROVE IInv'
  BY <1>5 DEF Block
<1>6. ASSUME NEW s \in Servers, Accept(s) PROVE IInv'
  BY <1>6 DEF Accept
<1>7. ASSUME NEW s \in Servers, AcceptFails(s) PROVE IInv'
  BY <1>7 DEF AcceptFails
<1>8. ASSUME NEW s \in Servers, Serve(s) PROVE IInv'
  BY <1>8 DEF Serve
<1>9. ASSUME NEW s \in Servers, Close(s) PROVE IInv'
  BY <1>9 DEF Close
<1>10. ASSUME NEW s \in Servers, Remove(s) PROVE IInv'
  BY <1>10 DEF Remove
<1>11. ASSUME NEW s \in Servers, Crash(s) PROVE IInv'
  BY <1>11 DEF Crash
<1>12. CASE ToastEnds
  BY <1>12 DEF ToastEnds
<1>13. CASE Connect
  BY <1>13 DEF Connect
<1>14. ASSUME NEW t \in Tools, NEW op \in Ops, Run(t, op) PROVE IInv'
  BY <1>14 DEF Run
<1>15. ASSUME NEW t \in Tools, Look(t) PROVE IInv'
  <2> DEFINE read == IF pidfile \in Servers THEN pidfile ELSE NoPid
  <2>1. read \in Servers \cup {NoPid}
    OBVIOUS
  <2>2. tool' = [tool EXCEPT ![t] = [@ EXCEPT !.at = "check", !.seen = read]]
    BY <1>15 DEF Look
  <2>3. UNCHANGED <<pidfile, holders, queue, at, term, alone, mute, faults>>
    BY <1>15 DEF Look
  <2>4. tool[t].at = "look"
    BY <1>15 DEF Look
  <2> HIDE DEF read
  <2>5. TypeOK'
    <3>1. tool' \in [Tools -> [op : Ops,
                              at : {"idle", "look", "check", "bound", "kill", "wait"},
                              seen : Servers \cup {NoPid}, out : Outcomes]]
      <4> DEFINE now == [tool[t] EXCEPT !.at = "check", !.seen = read]
                 Lines == [op : Ops,
                           at : {"idle", "look", "check", "bound", "kill", "wait"},
                           seen : Servers \cup {NoPid}, out : Outcomes]
      <4>1. tool[t] \in Lines
        OBVIOUS
      <4>2. now \in Lines
        BY <2>1, <4>1
      <4>3. tool \in [Tools -> Lines]
        BY Zenon
      <4>4. tool' = [tool EXCEPT ![t] = now]
        BY <2>2, Zenon
      <4> HIDE DEF now, Lines
      <4>5. tool' \in [Tools -> Lines]
        BY <4>2, <4>3, <4>4, Updated, Zenon
      <4> QED  BY <4>5 DEF Lines
    <3>2. /\ UNCHANGED <<pidfile, holders, at, faults>>
          /\ UNCHANGED <<queue, term, alone, mute>>
      BY <2>3
    <3> QED  BY <3>1, <3>2
  <2>6. HoldersAreListening' /\ OneHolder'
    BY <2>2, <2>3, <2>4
  <2>7. SeenWasReal' /\ OutOnlyAtTheEnd' /\ StopIsTrue'
    BY <2>2, <2>3, <2>4
  <2> QED  BY <2>5, <2>6, <2>7
<1>16. ASSUME NEW t \in Tools, Status(t) PROVE IInv'
  BY <1>16 DEF Status, Checking, Ends
<1>17. ASSUME NEW t \in Tools, Refuse(t) PROVE IInv'
  BY <1>17 DEF Refuse, Checking, Ends
<1>18. ASSUME NEW t \in Tools, Bind(t) PROVE IInv'
  BY <1>18 DEF Bind, Checking, Ends, Now
<1>19. ASSUME NEW t \in Tools, Fork(t) PROVE IInv'
  BY <1>19 DEF Fork, Ends
<1>20. ASSUME NEW t \in Tools, FindToStop(t) PROVE IInv'
  BY <1>20 DEF FindToStop, Checking, Found, Now, Ends
<1>21. ASSUME NEW t \in Tools, Term(t) PROVE IInv'
  <2>1. tool[t].at = "kill" /\ tool[t].seen \in Servers /\ at[tool[t].seen] # "unused"
    BY <1>21 DEF Term
  <2>2. CASE Alive(tool[t].seen) /\ Signal(tool[t].seen) /\ Now(t, "wait")
    <3>1. UNCHANGED <<pidfile, alone, mute, faults>>
      BY <1>21 DEF Term
    <3>2. CASE at[tool[t].seen] = "forked"
      BY <2>1, <2>2, <3>1, <3>2 DEF Signal, Now
    <3>3. CASE at[tool[t].seen] # "forked"
      <4> DEFINE d == tool[t].seen
      <4>1. /\ term' = [term EXCEPT ![d] = TRUE]
            /\ at' = [at EXCEPT ![d] = IF @ = "accept" THEN "loop" ELSE @]
            /\ tool' = [tool EXCEPT ![t].at = "wait"]
            /\ holders' = holders /\ queue' = queue
        BY <2>2, <3>3 DEF Signal, Now
      <4>2. /\ at' \in [Servers -> Stages]
            /\ \A s \in Servers : /\ Listening(s)' <=> Listening(s)
                                  /\ at'[s] = "unused" <=> at[s] = "unused"
                                  /\ at'[s] = "gone" <=> at[s] = "gone"
        <5>1. \A s \in Servers : at'[s] = IF s = d /\ at[s] = "accept" THEN "loop" ELSE at[s]
          BY <2>1, <4>1
        <5> DEFINE now == IF at[d] = "accept" THEN "loop" ELSE at[d]
        <5>2. at \in [Servers -> Stages] /\ now \in Stages
          BY <2>1
        <5>3. at' = [at EXCEPT ![d] = now]
          BY <4>1
        <5> HIDE DEF now, d, Stages
        <5>4. at' \in [Servers -> Stages]
          BY <2>1, <5>2, <5>3, Updated DEF d
        <5> QED  BY <5>1, <5>4 DEF Stages
      <4>3. TypeOK'
        BY <2>1, <3>1, <4>1, <4>2
      <4>4. HoldersAreListening' /\ OneHolder'
        BY <2>1, <4>1, <4>2
      <4>5. SeenWasReal' /\ OutOnlyAtTheEnd' /\ StopIsTrue'
        BY <2>1, <4>1, <4>2
      <4> QED  BY <4>3, <4>4, <4>5
    <3> QED  BY <3>2, <3>3
  <2>3. CASE ~Alive(tool[t].seen) /\ Ends(t, "error") /\ UNCHANGED <<holders, queue, at, term>>
    BY <1>21, <2>1, <2>3 DEF Term, Ends
  <2> QED  BY <1>21, <2>2, <2>3 DEF Term
<1>22. ASSUME NEW t \in Tools, Poll(t) PROVE IInv'
  BY <1>22 DEF Poll, Ends
<1>23. ASSUME NEW t \in Tools, GiveUp(t) PROVE IInv'
  BY <1>23 DEF GiveUp, Ends
<1>24. CASE UNCHANGED vars
  BY <1>24 DEF vars
<1> QED
  BY <1>1, <1>2, <1>3, <1>4, <1>5, <1>6, <1>7, <1>8, <1>9, <1>10, <1>11, <1>12, <1>13,
     <1>14, <1>15, <1>16, <1>17, <1>18, <1>19, <1>20, <1>21, <1>22, <1>23, <1>24
  DEF Next, Daemon, Tool

(* Every reachable state satisfies the inductive invariant. *)
THEOREM Invariant == Spec => []IInv
  BY InitIInv, NextIInv, PTL DEF Spec

(* The bind before the fork is what keeps a second daemon out, however     *)
(* many --start run at once and whatever is crashed or signalled meanwhile. *)
THEOREM OneDaemonAtATime == Spec => []OneDaemon
<1>1. IInv => OneDaemon
  BY Distinct DEF IInv, OneDaemon
<1> QED  BY <1>1, Invariant, PTL

(* "Stopped" is never said of a process that still runs. *)
THEOREM StoppedMeansGone == Spec => []StopIsTrue
<1>1. IInv => StopIsTrue
  BY DEF IInv
<1> QED  BY <1>1, Invariant, PTL

-------------------------------------------------------------------------------
(***************************************************************************)
(* What the pid file says is only to be relied on while the user's commands *)
(* come one after the other.  Then one daemon at a time is alive, the file *)
(* names it from when it is written to when it is removed, and no --start  *)
(* gets past a daemon that has closed its socket and not yet removed it.   *)
(***************************************************************************)

Up(s) == at[s] \in {"loop", "entering", "accept", "serving", "closing", "closed"}
Known(s) == (Up(s) \/ at[s] = "gone") /\ s \notin mute

OneTool == \A t, u \in Tools : tool[t].at # "idle" /\ tool[u].at # "idle" => t = u
OneAlive == \A r, s \in Servers : Alive(r) /\ Alive(s) => r = s
BoundAlone == \A t \in Tools : tool[t].at = "bound" => \A s \in Servers : ~Alive(s)
FileNames == \A s \in Servers : Up(s) /\ s \notin mute => pidfile = s
MuteIsLate == \A s \in mute : at[s] \notin {"unused", "forked", "ready", "opened"}
(* Only a daemon that has written the file is ever read there. *)
ReadIsKnown == /\ \A s \in Servers : pidfile = s => Known(s)
               /\ \A t \in Tools : \A s \in Servers : tool[t].seen = s => Known(s)
(* Only such a daemon is told to stop, and no other ever closes.           *)
StopIsKnown == /\ \A s \in Servers : Alive(s) /\ term[s] => Up(s) /\ s \notin mute
               /\ \A s \in Servers : at[s] \in {"closing", "closed"} => term[s]
(* A --start that is about to bind has seen the one that is stopping.      *)
StoppingIsSeen == \A t \in Tools : tool[t].at = "check" =>
                    \A s \in Servers : Alive(s) /\ term[s] => tool[t].seen = s

OneByOne == /\ OneTool /\ OneAlive /\ BoundAlone /\ FileNames /\ MuteIsLate
            /\ ReadIsKnown /\ StopIsKnown /\ StoppingIsSeen

(* At first nothing runs and there is no file.                             *)
LEMMA InitOneByOne == Init => OneByOne
  BY Distinct DEF Init, OneByOne, Up, Known, OneTool, OneAlive, BoundAlone, FileNames, MuteIsLate,
                  ReadIsKnown, StopIsKnown, StoppingIsSeen

(* Every system call of every process keeps that, while no command line    *)
(* was ever started beside another.                                        *)
LEMMA NextOneByOne == IInv /\ (alone => OneByOne) /\ [Next]_vars => (alone' => OneByOne')
<1> SUFFICES ASSUME IInv, alone => OneByOne, [Next]_vars, alone' PROVE OneByOne'
  OBVIOUS
<1>a. alone
  BY DEF Next, vars, Daemon, Tool, Install, OpenPid, WritePid, Test, Block, Accept, Serve, Close, Remove,
         AcceptFails, Crash, Look, Status, Refuse, Bind, Fork, FindToStop, Term, Poll, GiveUp, Run,
         ToastEnds, Connect
<1> USE Distinct, <1>a DEF IInv, OneByOne, Up, Known
<1> USE DEF OneTool, OneAlive, BoundAlone, FileNames, MuteIsLate, ReadIsKnown, StopIsKnown, StoppingIsSeen
<1>1. ASSUME NEW s \in Servers, Install(s) PROVE OneByOne'
  BY <1>1 DEF Install
<1>2. ASSUME NEW s \in Servers, OpenPid(s) PROVE OneByOne'
  BY <1>2 DEF OpenPid
<1>3. ASSUME NEW s \in Servers, WritePid(s) PROVE OneByOne'
  <2>1. /\ at[s] = "opened" /\ at' = [at EXCEPT ![s] = "loop"] /\ pidfile' = s
        /\ UNCHANGED <<holders, queue, term, tool, alone, mute, faults>>
    BY <1>3 DEF WritePid
  <2>2. s \notin mute /\ \A r \in Servers \ {s} : ~Alive(r)
    BY <2>1
  <2>3. OneTool' /\ OneAlive' /\ BoundAlone'
    BY <2>1
  <2>4. FileNames' /\ MuteIsLate' /\ ReadIsKnown'
    BY <2>1, <2>2
  <2>5. StopIsKnown' /\ StoppingIsSeen'
    BY <2>1, <2>2
  <2> QED  BY <2>3, <2>4, <2>5
<1>4. ASSUME NEW s \in Servers, Test(s) PROVE OneByOne'
  BY <1>4 DEF Test
<1>5. ASSUME NEW s \in Servers, Block(s) PROVE OneByOne'
  BY <1>5 DEF Block
<1>6. ASSUME NEW s \in Servers, Accept(s) PROVE OneByOne'
  BY <1>6 DEF Accept
<1>7. ASSUME NEW s \in Servers, AcceptFails(s) PROVE OneByOne'
  BY <1>7 DEF AcceptFails
<1>8. ASSUME NEW s \in Servers, Serve(s) PROVE OneByOne'
  BY <1>8 DEF Serve
<1>9. ASSUME NEW s \in Servers, Close(s) PROVE OneByOne'
  BY <1>9 DEF Close
<1>10. ASSUME NEW s \in Servers, Remove(s) PROVE OneByOne'
  BY <1>10 DEF Remove
<1>11. ASSUME NEW s \in Servers, Crash(s) PROVE OneByOne'
  BY <1>11 DEF Crash
<1>12. CASE ToastEnds
  BY <1>12 DEF ToastEnds
<1>13. CASE Connect
  BY <1>13 DEF Connect
<1>14. ASSUME NEW t \in Tools, NEW op \in Ops, Run(t, op) PROVE OneByOne'
  <2> DEFINE now == [op |-> op, at |-> "look", seen |-> NoPid, out |-> "none"]
  <2>1. /\ tool[t].at = "idle" /\ tool' = [tool EXCEPT ![t] = now]
        /\ UNCHANGED <<pidfile, holders, queue, at, term, mute, faults>>
        /\ \A u \in Tools : tool[u].at = "idle"
    BY <1>14 DEF Run
  <2>2. /\ tool'[t].at = "look" /\ tool'[t].seen = NoPid
        /\ \A u \in Tools \ {t} : tool'[u] = tool[u]
    <3>1. tool \in [Tools -> [op : Ops, at : {"idle", "look", "check", "bound", "kill", "wait"},
                             seen : Servers \cup {NoPid}, out : Outcomes]]
      BY Zenon
    <3>2. now.at = "look" /\ now.seen = NoPid
      BY Zenon
    <3>3. tool' = [tool EXCEPT ![t] = now]
      BY <2>1, Zenon
    <3> HIDE DEF now
    <3>4. tool'[t] = now /\ \A u \in Tools \ {t} : tool'[u] = tool[u]
      BY <3>1, <3>3
    <3> QED  BY <3>2, <3>4, Zenon
  <2> HIDE DEF now
  <2>3. OneTool' /\ OneAlive' /\ BoundAlone'
    BY <2>1, <2>2
  <2>4. FileNames' /\ MuteIsLate' /\ ReadIsKnown'
    BY <2>1, <2>2
  <2>5. StopIsKnown' /\ StoppingIsSeen'
    BY <2>1, <2>2
  <2> QED  BY <2>3, <2>4, <2>5
<1>15. ASSUME NEW t \in Tools, Look(t) PROVE OneByOne'
  BY <1>15 DEF Look
<1>16. ASSUME NEW t \in Tools, Status(t) PROVE OneByOne'
  BY <1>16 DEF Status, Checking, Ends
<1>17. ASSUME NEW t \in Tools, Refuse(t) PROVE OneByOne'
  BY <1>17 DEF Refuse, Checking, Ends
<1>18. ASSUME NEW t \in Tools, Bind(t) PROVE OneByOne'
  BY <1>18 DEF Bind, Checking, Ends, Now, Found
<1>19. ASSUME NEW t \in Tools, Fork(t) PROVE OneByOne'
  BY <1>19 DEF Fork, Ends
<1>20. ASSUME NEW t \in Tools, FindToStop(t) PROVE OneByOne'
  BY <1>20 DEF FindToStop, Checking, Found, Now, Ends
<1>21. ASSUME NEW t \in Tools, Term(t) PROVE OneByOne'
  <2> DEFINE d == tool[t].seen
  <2>1. /\ tool[t].at = "kill" /\ d \in Servers /\ Known(d) /\ at[d] # "forked"
        /\ UNCHANGED <<pidfile, alone, mute, faults>>
    BY <1>21 DEF Term
  <2>2. CASE ~Alive(d) /\ Ends(t, "error") /\ UNCHANGED <<holders, queue, at, term>>
    BY <2>1, <2>2 DEF Ends
  <2>3. CASE Alive(d) /\ Signal(d) /\ Now(t, "wait")
    <3>1. /\ term' = [term EXCEPT ![d] = TRUE]
          /\ at' = [at EXCEPT ![d] = IF @ = "accept" THEN "loop" ELSE @]
          /\ tool' = [tool EXCEPT ![t].at = "wait"]
      BY <2>1, <2>3 DEF Signal, Now
    <3>2. \A s \in Servers : at'[s] = IF s = d /\ at[s] = "accept" THEN "loop" ELSE at[s]
      BY <2>1, <3>1
    <3>3. \A s \in Servers : term'[s] <=> s = d \/ term[s]
      BY <2>1, <3>1
    <3>4. \A u \in Tools : /\ tool'[u].at = IF u = t THEN "wait" ELSE tool[u].at
                           /\ tool'[u].seen = tool[u].seen
      BY <2>1, <3>1
    <3>5. \A s \in Servers : (Up(s)' <=> Up(s)) /\ (Alive(s)' <=> Alive(s))
      BY <3>2
    <3>6. Up(d) /\ d \notin mute
      BY <2>1, <2>3
    <3>7. OneTool' /\ OneAlive' /\ BoundAlone'
      BY <2>1, <3>4, <3>5
    <3>8. FileNames' /\ MuteIsLate'
      BY <2>1, <3>2, <3>5
    <3>9. ReadIsKnown'
      <4>1. \A s \in Servers : pidfile' = s => Known(s)
        BY <2>1
      <4>2. \A u \in Tools : \A s \in Servers : tool'[u].seen = s => Known(s)
        BY <3>4
      <4>3. \A s \in Servers : Known(s) => Known(s)'
        BY <2>1, <3>2
      <4> QED  BY <4>1, <4>2, <4>3
    <3>10. StopIsKnown' /\ StoppingIsSeen'
      BY <2>1, <3>2, <3>3, <3>4, <3>5, <3>6
    <3> QED  BY <3>7, <3>8, <3>9, <3>10
  <2> QED  BY <1>21, <2>2, <2>3 DEF Term
<1>22. ASSUME NEW t \in Tools, Poll(t) PROVE OneByOne'
  BY <1>22 DEF Poll, Ends
<1>23. ASSUME NEW t \in Tools, GiveUp(t) PROVE OneByOne'
  BY <1>23 DEF GiveUp, Ends
<1>24. CASE UNCHANGED vars
  BY <1>24 DEF vars
<1> QED
  BY <1>1, <1>2, <1>3, <1>4, <1>5, <1>6, <1>7, <1>8, <1>9, <1>10, <1>11, <1>12, <1>13,
     <1>14, <1>15, <1>16, <1>17, <1>18, <1>19, <1>20, <1>21, <1>22, <1>23, <1>24
  DEF Next, Daemon, Tool

(* A daemon in its accept loop is the one the pid file names, whatever     *)
(* crashes, fails or connects, as long as the user's commands came one     *)
(* after the other and the daemon could write the file.                    *)
THEOREM ServingIsListed == Spec => []ListedIfServing
<1>1. OneByOne => \A s \in Servers : Serving(s) /\ s \notin mute => pidfile = s
  BY DEF OneByOne, FileNames, Up, Serving
<1>2. (alone => OneByOne) => ListedIfServing
  BY <1>1 DEF ListedIfServing
<1>3. Init => (alone => OneByOne)
  BY InitOneByOne
<1> QED  BY <1>2, <1>3, NextOneByOne, Invariant, PTL DEF Spec
===============================================================================
