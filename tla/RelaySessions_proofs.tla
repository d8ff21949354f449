------------------------ MODULE RelaySessions_proofs ------------------------
(***************************************************************************)
(* For any number of command lines and sessions: a pair is started and      *)
(* stopped whole, and what runs between commands is what the pid file names.*)
(***************************************************************************)
EXTENDS RelaySessions, TLAPS

Saving == {t \in Tools : tool[t].at \in {"second", "save", "write"}}
Video(s) == <<s, "video">>
Input(s) == <<s, "input">>

(* Only the role's own children are started, and told only when started.   *)
Born == \A c \in Children : /\ c[2] \notin Parts(role) => child[c] = "unused"
                            /\ child[c] = "clearing" => role = "watch"
                            /\ c \in told => child[c] # "unused"

(* A session that is named has all its children.                           *)
Named == /\ pidfile # NoSession => \A c \in Family(pidfile) : child[c] # "unused"
         /\ \A t \in Tools : tool[t].seen # NoSession => \A c \in Family(tool[t].seen) : child[c] # "unused"

(* Where a command is tells what it has started.                           *)
Started == \A t \in Tools :
  /\ tool[t].at = "idle" => tool[t].op = "none"
  /\ t \in Saving => tool[t].op = "start" /\ tool[t].own \in Sessions
  /\ tool[t].at = "second" => /\ role = "host" /\ Video(tool[t].own) \notin told
                              /\ child[Video(tool[t].own)] # "unused"
                              /\ child[Input(tool[t].own)] = "unused"
  /\ tool[t].at \in {"save", "write"} => \A c \in Family(tool[t].own) : child[c] # "unused"
Apart == \A t, u \in Saving : tool[t].own = tool[u].own => t = u

(* The input child is started after the video child, or the video child is *)
(* told; they are told together.                                           *)
Paired == \A s \in Sessions :
  /\ child[Input(s)] # "unused" => child[Video(s)] # "unused"
  /\ Input(s) \in told => Video(s) \in told
  /\ Video(s) \in told /\ Input(s) \notin told => child[Input(s)] = "unused"
  /\ child[Video(s)] # "unused" /\ child[Input(s)] = "unused" =>
       Video(s) \in told \/ \E t \in Tools : tool[t].at = "second" /\ tool[t].own = s

(* Commands that run at the same time know of each other.                  *)
Beside == \A t, u \in Tools : tool[t].at # "idle" /\ tool[u].at # "idle" => t = u \/ tool[t].met

BInv == TypeOK /\ Born /\ Named /\ Started /\ Apart /\ Paired /\ Beside

LEMMA InitBInv == Init => BInv
<1> SUFFICES ASSUME Init PROVE BInv
  OBVIOUS
<1> USE DEF Init, NoCommand, NoSession
<1>1. TypeOK
  BY DEF TypeOK
<1>2. Born /\ Named /\ Started /\ Apart /\ Beside
  BY DEF Born, Named, Started, Apart, Beside, Saving
<1>3. Paired
  BY DEF Paired, Video, Input, Children
<1> QED BY <1>1, <1>2, <1>3 DEF BInv

(* The children of a session, by name.                                     *)
LEMMA FamilyOf ==
  ASSUME TypeOK, NEW s \in Sessions
  PROVE /\ Family(s) \subseteq Children
        /\ \A c \in Children : c \in Family(s) <=> c[1] = s /\ c[2] \in Parts(role)
        /\ role = "watch" => Family(s) = {<<s, "view">>}
        /\ role = "host" => Family(s) = {Video(s), Input(s)}
        /\ Video(s) \in Children /\ Input(s) \in Children
<1>1. role = "watch" => Family(s) = {<<s, "view">>}
  BY DEF Family, Parts
<1>2. role = "host" => Family(s) = {Video(s), Input(s)}
  BY DEF Family, Parts, Video, Input, TypeOK
<1>3. Family(s) \subseteq Children /\ Video(s) \in Children /\ Input(s) \in Children
  BY DEF Family, Parts, Children, Video, Input, TypeOK
<1>4. ASSUME NEW c \in Children PROVE c \in Family(s) <=> c[1] = s /\ c[2] \in Parts(role)
  BY <1>4 DEF Children, Family
<1> QED BY <1>1, <1>2, <1>3, <1>4

(* A child that lives goes one place further, and no command notices.      *)
LEMMA ChildMoves ==
  ASSUME BInv, NEW c \in Children, NEW v \in {"loop", "blocked", "clearing", "gone"},
         Living(c), child' = [child EXCEPT ![c] = v],
         UNCHANGED <<role, pidfile, told, tool>>,
         v = "clearing" => role = "watch", unlisted' \subseteq Sessions, faults' \in Nat
  PROVE BInv'
<1> USE DEF BInv, Living
<1>1. TypeOK'
  BY DEF TypeOK
<1>2. child \in [Children -> {"unused", "forked", "loop", "blocked", "clearing", "gone"}]
  BY DEF TypeOK
<1>3. \A d \in Children : child'[d] = "unused" <=> child[d] = "unused"
  BY <1>2
<1>4. Born'
  BY <1>2, <1>3 DEF Born, Parts
<1>5. \A s \in Sessions : (Family(s))' = Family(s) /\ Family(s) \subseteq Children
                            /\ Video(s) \in Children /\ Input(s) \in Children
  BY FamilyOf DEF Family, Parts
<1>6. Named'
  BY <1>3, <1>5 DEF Named, TypeOK
<1>7. Started'
  BY <1>3, <1>5 DEF Started, Saving
<1>8. Apart' /\ Beside'
  BY DEF Apart, Beside, Saving
<1>9. Paired'
  BY <1>3, <1>5 DEF Paired
<1> QED BY <1>1, <1>4, <1>6, <1>7, <1>8, <1>9
(* The viewer's last act; nobody else runs, or the pid file was its own.    *)
LEMMA ViewClearsKeeps == ASSUME BInv, NEW c \in Children, ViewClears(c) PROVE BInv'
<1> USE DEF BInv, ViewClears, Moves, ghosts, NoSession
<1>1. TypeOK'
  BY DEF TypeOK, Entry
<1>2. child \in [Children -> {"unused", "forked", "loop", "blocked", "clearing", "gone"}]
  BY DEF TypeOK
<1>3. \A d \in Children : child'[d] = "unused" <=> child[d] = "unused"
  BY <1>2
<1>4. Born'
  BY <1>2, <1>3 DEF Born, Parts
<1>5. \A s \in Sessions : (Family(s))' = Family(s) /\ Family(s) \subseteq Children
                            /\ Video(s) \in Children /\ Input(s) \in Children
  BY FamilyOf DEF Family, Parts
<1>6. Named'
  BY <1>3, <1>5 DEF Named, TypeOK
<1>7. Started'
  BY <1>3, <1>5 DEF Started, Saving
<1>8. Apart' /\ Beside'
  BY DEF Apart, Beside, Saving
<1>9. Paired'
  BY <1>3, <1>5 DEF Paired
<1> QED BY <1>1, <1>4, <1>6, <1>7, <1>8, <1>9
LEMMA ChildStep ==
  ASSUME BInv, NEW c \in Children,
         Child(c) \/ Served(c) \/ ViewEnds(c) \/ VideoEnds(c) \/ InputFails(c) \/ Killed(c)
  PROVE BInv'
<1> USE DEF Moves, Quiet, ghosts, Living
<1>1. unlisted \subseteq Sessions /\ faults \in Nat /\ role \in {"watch", "host"}
  BY DEF BInv, TypeOK
<1>2. CASE Install(c) \/ Served(c)
  BY <1>1, <1>2, ChildMoves DEF Install, Served
<1>3. CASE LoopTest(c)
  <2>1. CASE c \in told /\ role = "watch"
    BY <1>1, <1>3, <2>1, ChildMoves DEF LoopTest, Ending
  <2>2. CASE c \in told /\ role = "host"
    BY <1>1, <1>3, <2>2, ChildMoves DEF LoopTest, Ending
  <2>3. CASE c \notin told
    BY <1>1, <1>3, <2>3, ChildMoves DEF LoopTest
  <2> QED BY <1>1, <2>1, <2>2, <2>3
<1>4. CASE Interrupted(c)
  BY <1>1, <1>4, ChildMoves DEF Interrupted, Ending
<1>5. CASE ViewClears(c)
  BY <1>5, ViewClearsKeeps
<1>6. CASE ViewEnds(c)
  <2>1. role = "watch"
    BY <1>1, <1>6 DEF ViewEnds, BInv, Born, Parts
  <2> QED BY <1>1, <1>6, <2>1, ChildMoves DEF ViewEnds
<1>7. CASE VideoEnds(c) \/ InputFails(c)
  BY <1>1, <1>7, ChildMoves DEF VideoEnds, InputFails, HalfEnds
<1>8. CASE Killed(c)
  <2>1. faults' \in Nat
    BY <1>1, <1>8 DEF Killed, Fault
  <2> QED BY <1>1, <1>8, <2>1, ChildMoves DEF Killed
<1> QED BY <1>2, <1>3, <1>4, <1>5, <1>6, <1>7, <1>8 DEF Child

-------------------------------------------------------------------------------
(* The commands.                                                           *)

ToolType == [op : {"none", "start", "stop"},
             at : {"idle", "look", "check", "second", "save", "write", "clear"},
             seen : Sessions \cup {NoSession}, own : Sessions \cup {NoSession}, met : BOOLEAN]

LEMMA ToolTypes ==
  ASSUME TypeOK, NEW t \in Tools, NEW r \in ToolType, tool' = [tool EXCEPT ![t] = r]
  PROVE tool' \in [Tools -> ToolType]
BY DEF TypeOK, ToolType

(* A command comes to an end, or goes on, and only its own record changes. *)
LEMMA Goes ==
  ASSUME BInv, NEW t \in Tools, NEW r \in ToolType, tool' = [tool EXCEPT ![t] = r],
         UNCHANGED <<role, child, told>>, pidfile' \in {pidfile, NoSession},
         tool[t].at # "second", r.at \notin {"second", "save", "write"},
         r.at = "idle" => r.op = "none",
         r.seen \in {NoSession, tool[t].seen, pidfile},
         tool[t].at # "idle", r.at # "idle" => r.met = tool[t].met, unlisted' \subseteq Sessions, faults' \in Nat
  PROVE /\ TypeOK' /\ Born' /\ Named' /\ Started' /\ Apart' /\ Paired' /\ Beside'
        /\ Saving' = Saving \ {t}
<1> USE DEF BInv, NoSession
<1>1. TypeOK'
  BY ToolTypes DEF TypeOK, ToolType
<1>2. \A u \in Tools : u # t => tool'[u] = tool[u]
  BY DEF TypeOK
<1>3. tool'[t] = r
  BY DEF TypeOK
<1>4. Born'
  BY DEF Born, Parts
<1>5. \A s : (Family(s))' = Family(s)
  BY DEF Family, Parts
<1>6. Named'
  BY <1>2, <1>3, <1>5 DEF Named
<1>7. Saving' = Saving \ {t}
  BY <1>2, <1>3 DEF Saving
<1>8. Started'
  BY <1>2, <1>3, <1>5, <1>7 DEF Started, Saving
<1>9. Apart' /\ Beside'
  BY <1>2, <1>3, <1>7 DEF Apart, Beside, Saving
<1>10. Paired'
  BY <1>2, <1>3 DEF Paired
<1> QED BY <1>1, <1>4, <1>6, <1>7, <1>8, <1>9, <1>10

LEMMA RunStep == ASSUME BInv, NEW t \in Tools, NEW op \in {"start", "stop"}, Run(t, op) PROVE BInv'
<1> USE DEF BInv, NoSession
<1> DEFINE busy == {u \in Tools : tool[u].at # "idle"}
           r == [op |-> op, at |-> "look", seen |-> NoSession, own |-> NoSession, met |-> busy # {}]
<1>1. /\ tool' = [u \in Tools |-> IF u = t THEN r ELSE [tool[u] EXCEPT !.met = u \in busy]]
      /\ tool[t].at = "idle" /\ UNCHANGED <<role, pidfile, child, told, unlisted, faults>>
  BY DEF Run, ghosts
<1>b. /\ \A u \in Tools : u \in busy <=> tool[u].at # "idle"
      /\ busy # {} <=> \E u \in Tools : tool[u].at # "idle"
  OBVIOUS
<1> HIDE DEF busy
<1>2. TypeOK'
  <2>1. (busy # {}) \in BOOLEAN /\ \A u \in Tools : (u \in busy) \in BOOLEAN
    OBVIOUS
  <2>2. r \in ToolType
    BY <2>1 DEF ToolType
  <2>3. \A u \in Tools : [tool[u] EXCEPT !.met = u \in busy] \in ToolType
    BY <2>1 DEF ToolType, TypeOK
  <2>4. tool' \in [Tools -> ToolType]
    BY <1>1, <2>2, <2>3
  <2> QED BY <1>1, <2>4 DEF TypeOK, ToolType
<1>3. /\ tool'[t] = r
      /\ \A u \in Tools : u # t => /\ tool'[u].op = tool[u].op /\ tool'[u].at = tool[u].at
                                   /\ tool'[u].seen = tool[u].seen /\ tool'[u].own = tool[u].own
                                   /\ tool'[u].met = (u \in busy)
  BY <1>1 DEF TypeOK
<1>4. \A s : (Family(s))' = Family(s)
  BY <1>1 DEF Family, Parts
<1>5. Saving' = Saving /\ t \notin Saving /\ Saving \subseteq Tools
  BY <1>1, <1>3 DEF Saving
<1>6. Born' /\ Named'
  BY <1>1, <1>3, <1>4 DEF Born, Parts, Named
<1>7. Started'
  BY <1>1, <1>3, <1>4, <1>5 DEF Started, Saving
<1>8. Apart'
  BY <1>3, <1>5 DEF Apart
<1>9. Beside'
  <2> SUFFICES ASSUME NEW u \in Tools, NEW v \in Tools, tool'[u].at # "idle", tool'[v].at # "idle", u # v
               PROVE tool'[u].met
    BY DEF Beside
  <2>1. CASE u = t
    <3>1. v # t /\ tool[v].at # "idle"
      BY <1>3, <2>1
    <3>2. tool'[t].met = (busy # {})
      BY <1>3
    <3> QED BY <1>b, <2>1, <3>1, <3>2
  <2>2. CASE u # t
    BY <1>3, <1>b, <2>2
  <2> QED BY <2>1, <2>2
<1>10. Paired'
  BY <1>1, <1>3 DEF Paired
<1> QED BY <1>2, <1>6, <1>7, <1>8, <1>9, <1>10
LEMMA LookStep == ASSUME BInv, NEW t \in Tools, Look(t) PROVE BInv'
<1> DEFINE r == [tool[t] EXCEPT !.at = "check", !.seen = pidfile]
<1>1. r \in ToolType /\ tool' = [tool EXCEPT ![t] = r] /\ tool[t].at = "look"
  BY DEF BInv, TypeOK, Look, ToolType
<1>2. unlisted' \subseteq Sessions /\ faults' \in Nat /\ tool'[t] = r
  BY <1>1 DEF BInv, TypeOK, Look, ghosts
<1>3. /\ TypeOK' /\ Born' /\ Named' /\ Started' /\ Apart' /\ Paired' /\ Beside'
      /\ Saving' = Saving \ {t}
  <2>1. UNCHANGED <<role, child, told>> /\ pidfile' = pidfile
    BY DEF Look, ghosts
  <2>2. r.at = "check" /\ r.seen = pidfile /\ r.met = tool[t].met
    BY DEF BInv, TypeOK
  <2> QED BY <1>1, <1>2, <2>1, <2>2, Goes
<1> QED BY <1>3 DEF BInv

(* Commands that change nothing but their own record. *)
LEMMA DoneStep ==
  ASSUME BInv, NEW t \in Tools, Done(t), tool[t].at \in {"look", "check", "save", "clear"},
         UNCHANGED <<role, child, told>>, pidfile' \in {pidfile, NoSession},
         unlisted' \subseteq Sessions, faults' \in Nat
  PROVE BInv'
<1>1. NoCommand \in ToolType /\ tool' = [tool EXCEPT ![t] = NoCommand]
  BY DEF Done, NoCommand, ToolType
<1>2. tool'[t] = NoCommand
  BY <1>1 DEF BInv, TypeOK
<1>3. /\ TypeOK' /\ Born' /\ Named' /\ Started' /\ Apart' /\ Paired' /\ Beside'
      /\ Saving' = Saving \ {t}
  BY <1>1, Goes DEF NoCommand
<1> QED BY <1>3 DEF BInv

LEMMA RefuseStep ==
  ASSUME BInv, NEW t \in Tools, Refuse(t) \/ NoScreen(t) \/ Clear(t)
  PROVE BInv'
<1>1. unlisted \subseteq Sessions /\ pidfile \in Sessions \cup {NoSession} /\ faults \in Nat
  BY DEF BInv, TypeOK
<1>2. CASE Refuse(t) \/ NoScreen(t)
  BY <1>1, <1>2, DoneStep DEF Refuse, NoScreen, At, ghosts
<1>3. CASE Clear(t)
  BY <1>1, <1>3, DoneStep DEF Clear, At, Drops, Entry
<1> QED BY <1>2, <1>3

LEMMA SaveStep ==
  ASSUME BInv, NEW t \in Tools, SaveOpen(t) \/ SaveWrite(t)
  PROVE BInv'
<1> USE DEF BInv, NoSession, At
<1>1. faults \in Nat /\ unlisted \subseteq Sessions /\ pidfile \in Sessions \cup {NoSession} /\ Entry \subseteq Sessions
  BY DEF TypeOK, Entry
<1>2. CASE SaveOpen(t) /\ ~Done(t)
  <2>1. /\ tool[t].at = "save" /\ tool' = [tool EXCEPT ![t].at = "write"] /\ pidfile' = NoSession
        /\ UNCHANGED <<faults, role, child, told>> /\ unlisted' \subseteq Sessions
    BY <1>1, <1>2 DEF SaveOpen, Now, Drops
  <2>2. /\ \A u \in Tools : u # t => tool'[u] = tool[u]
        /\ tool'[t].at = "write" /\ tool'[t].op = tool[t].op
        /\ tool'[t].own = tool[t].own /\ tool'[t].seen = tool[t].seen
        /\ tool'[t].met = tool[t].met
    BY <2>1 DEF TypeOK
  <2>3. TypeOK'
    BY <2>1 DEF TypeOK
  <2>4. (\A s : (Family(s))' = Family(s)) /\ Saving' = Saving /\ t \in Saving
    BY <2>1, <2>2 DEF Family, Parts, Saving
  <2>5. Born' /\ Named'
    BY <2>1, <2>2, <2>4 DEF Born, Named, Parts
  <2>6. Started'
    BY <2>1, <2>2, <2>4 DEF Started
  <2>7. Apart' /\ Beside'
    BY <2>1, <2>2, <2>4 DEF Apart, Beside, Saving
  <2>8. Paired'
    BY <2>1, <2>2 DEF Paired
  <2> QED BY <2>3, <2>5, <2>6, <2>7, <2>8
<1>3. CASE SaveOpen(t) /\ Done(t)
  <2>1. Done(t) /\ tool[t].at = "save" /\ UNCHANGED <<role, child, told>>
    BY <1>3 DEF SaveOpen
  <2>2. Fault /\ UNCHANGED pidfile /\ unlisted' = unlisted \cup {tool[t].own} /\ tool[t].own \in Sessions
    <3>1. ~Now(t, "write")
      BY <2>1 DEF Now, Done, NoCommand, TypeOK
    <3>2. tool[t].own \in Sessions
      BY <2>1 DEF Started, Saving
    <3> QED BY <1>3, <3>1, <3>2 DEF SaveOpen
  <2>3. faults' \in Nat /\ unlisted' \subseteq Sessions /\ pidfile' = pidfile
    BY <1>1, <2>2 DEF Fault
  <2> HIDE DEF BInv
  <2> QED BY <2>1, <2>3, DoneStep
<1>4. CASE SaveWrite(t)
  <2>1. /\ tool[t].at = "write" /\ tool' = [tool EXCEPT ![t] = NoCommand] /\ t \in Saving
        /\ tool[t].own \in Sessions /\ pidfile' \in {tool[t].own, NoSession}
        /\ UNCHANGED <<role, child, told>>
    BY <1>4 DEF SaveWrite, Done, Started, Saving
  <2>2. faults' \in Nat /\ unlisted' \subseteq Sessions
    BY <1>1, <1>4, <2>1 DEF SaveWrite, Drops, Fault
  <2>3. tool'[t] = NoCommand /\ \A u \in Tools : u # t => tool'[u] = tool[u]
    BY <2>1 DEF TypeOK
  <2>4. TypeOK'
    BY <2>1, <2>2 DEF TypeOK, NoCommand
  <2>5. (\A s : (Family(s))' = Family(s)) /\ Saving' = Saving \ {t}
    BY <2>1, <2>3 DEF Family, Parts, Saving, NoCommand
  <2>6. Born'
    BY <2>1 DEF Born, Parts
  <2>7. Named'
    BY <2>1, <2>3, <2>5 DEF Named, Started, NoCommand
  <2>8. Started'
    BY <2>1, <2>3, <2>5 DEF Started, NoCommand
  <2>9. Apart' /\ Beside'
    BY <2>1, <2>3, <2>5 DEF Apart, Beside, NoCommand
  <2>10. Paired'
    BY <2>1, <2>3 DEF Paired, NoCommand
  <2> QED BY <2>4, <2>6, <2>7, <2>8, <2>9, <2>10
<1> QED BY <1>2, <1>3, <1>4
(* The first child of a session that nobody has seen.                      *)
LEMMA ForkFirstStep == ASSUME BInv, NEW t \in Tools, ForkView(t) \/ ForkVideo(t) PROVE BInv'
<1> USE DEF BInv, NoSession
<1> DEFINE p == IF role = "watch" THEN "view" ELSE "video"
           next == IF role = "watch" THEN "save" ELSE "second"
<1>1. ForkFirst(t, p, next) /\ tool[t].at = "check" /\ tool[t].op = "start" /\ ~Found(t)
      /\ UNCHANGED <<role, pidfile, unlisted>>
  BY DEF ForkView, ForkVideo, ForkFirst, At
<1>2. faults \in Nat /\ unlisted \subseteq Sessions /\ role \in {"watch", "host"}
  BY DEF TypeOK
<1>3. CASE Done(t) /\ Fault /\ UNCHANGED <<child, told>>
  <2>1. faults' \in Nat /\ unlisted' \subseteq Sessions /\ pidfile' = pidfile
    BY <1>1, <1>2, <1>3 DEF Fault
  <2> HIDE DEF BInv
  <2> QED BY <1>1, <1>3, <2>1, DoneStep
<1>4. ASSUME NEW s \in Sessions,
             \A r \in Sessions : Unborn(r) <=> r >= s,
             child' = [child EXCEPT ![<<s, p>>] = "forked"],
             tool' = [tool EXCEPT ![t] = [@ EXCEPT !.at = next, !.own = s, !.seen = NoSession]],
             UNCHANGED <<told, faults>>
      PROVE BInv'
  <2>1. Unborn(s)
    BY <1>4, BoundsAssumption
  <2>2. <<s, p>> \in Children /\ child[<<s, p>>] = "unused"
    BY <1>2, <2>1 DEF Children, Unborn
  <2>3. /\ \A u \in Tools : u # t => tool'[u] = tool[u]
        /\ tool'[t].at = next /\ tool'[t].own = s /\ tool'[t].seen = NoSession /\ tool'[t].op = "start"
        /\ tool'[t].met = tool[t].met
    BY <1>1, <1>4 DEF TypeOK
  <2>4. /\ \A c \in Children : child'[c] = IF c = <<s, p>> THEN "forked" ELSE child[c]
        /\ child'[<<s, p>>] # "unused"
    BY <1>4, <2>2 DEF TypeOK
  <2>5. TypeOK'
    <3>1. [tool[t] EXCEPT !.at = next, !.own = s, !.seen = NoSession] \in ToolType
      BY <1>1 DEF TypeOK, ToolType
    <3>2. tool' \in [Tools -> ToolType]
      BY <1>4, <3>1, ToolTypes
    <3>3. child' \in [Children -> {"unused", "forked", "loop", "blocked", "clearing", "gone"}]
      BY <1>4, <2>2 DEF TypeOK
    <3> QED BY <1>1, <1>4, <3>2, <3>3 DEF TypeOK, ToolType
  <2>6. \A r : (Family(r))' = Family(r)
    BY <1>1 DEF Family, Parts
  <2>7. \A r \in Sessions : Family(r) \subseteq Children /\ Video(r) \in Children /\ Input(r) \in Children
    BY FamilyOf
  <2>8. Born'
    BY <1>1, <1>2, <1>4, <2>2, <2>4 DEF Born, Parts
  <2>9. Named'
    BY <1>1, <2>3, <2>4, <2>6, <2>7 DEF Named, TypeOK
  <2>10. Saving' = Saving \cup {t} /\ t \notin Saving /\ Saving \subseteq Tools
    BY <1>1, <2>3 DEF Saving
  <2>11. \A u \in Saving : tool[u].own # s
    <3> SUFFICES ASSUME NEW u \in Saving, tool[u].own = s PROVE FALSE
      OBVIOUS
    <3>1. CASE tool[u].at = "second"
      BY <2>1, <3>1, <2>10 DEF Started, Unborn, Video
    <3>2. CASE tool[u].at \in {"save", "write"}
      BY <1>2, <2>1, <3>2, <2>10, FamilyOf DEF Started, Unborn, Video
    <3> QED BY <3>1, <3>2 DEF Saving
  <2>12. role = "host" => child[Input(s)] = "unused" /\ child[Video(s)] = "unused"
    BY <2>1 DEF Paired, Unborn, Video
  <2>13. Started'
    <3>1. ASSUME NEW u \in Tools, u # t PROVE (tool'[u].at = "second" \/ u \in Saving') =>
            /\ u \in Saving /\ tool'[u] = tool[u] /\ tool[u].own \in Sessions
            /\ Video(tool[u].own) \in Children /\ Input(tool[u].own) \in Children
            /\ Family(tool[u].own) \subseteq Children
      BY <2>3, <2>7, <2>10, <3>1 DEF Started, Saving
    <3>2. ASSUME NEW u \in Tools, u # t, tool'[u].at = "second"
          PROVE child'[Input(tool[u].own)] = "unused"
      <4>1. Input(tool[u].own) # <<s, p>>
        BY <1>2 DEF Input
      <4> QED BY <2>4, <3>1, <3>2, <4>1 DEF Started
    <3>3. ASSUME NEW u \in Tools, u # t PROVE
            /\ tool'[u].at = "idle" => tool'[u].op = "none"
            /\ u \in Saving' => tool'[u].op = "start" /\ tool'[u].own \in Sessions
            /\ tool'[u].at = "second" => /\ role' = "host" /\ Video(tool'[u].own) \notin told'
                                         /\ child'[Video(tool'[u].own)] # "unused"
                                         /\ child'[Input(tool'[u].own)] = "unused"
            /\ tool'[u].at \in {"save", "write"} => \A c \in (Family(tool[u].own))' : child'[c] # "unused"
      BY <1>1, <1>4, <2>3, <2>4, <2>6, <3>1, <3>2, <3>3 DEF Started, Saving
    <3>4. role = "host" => Video(s) = <<s, p>> /\ Video(s) \notin told /\ Input(s) # <<s, p>>
      BY <2>2 DEF Video, Input, Born
    <3>5. role = "watch" => Family(s) = {<<s, p>>}
      BY FamilyOf
    <3> QED BY <1>1, <1>2, <1>4, <2>3, <2>4, <2>6, <2>7, <2>10, <2>12, <3>3, <3>4, <3>5 DEF Started
  <2>14. Apart'
    BY <2>3, <2>10, <2>11 DEF Apart
  <2>15. Paired'
    <3>1. role = "host" => Video(s) = <<s, p>> /\ tool'[t].at = "second"
      BY <2>3 DEF Video
    <3>2. role = "watch" => \A r \in Sessions : Video(r) # <<s, p>> /\ Input(r) # <<s, p>>
      BY DEF Video, Input
    <3>3. role = "host" => \A r \in Sessions : Input(r) # <<s, p>> /\ (Video(r) = <<s, p>> => r = s)
      BY DEF Video, Input
    <3>4. \A u \in Tools : tool[u].at = "second" => tool'[u] = tool[u]
      BY <1>1, <2>3
    <3>5. <<s, p>> \notin told
      BY <2>2 DEF Born
    <3>6. CASE role = "watch"
      <4>1. \A r \in Sessions : child'[Video(r)] = child[Video(r)] /\ child'[Input(r)] = child[Input(r)]
        BY <2>4, <2>7, <3>2, <3>6
      <4>2. \A r \in Sessions : child[Video(r)] = "unused"
        BY <2>7, <3>6 DEF Born, Parts, Video
      <4> QED BY <1>4, <4>1, <4>2 DEF Paired
    <3>7. CASE role = "host"
      <4> SUFFICES ASSUME NEW r \in Sessions
                   PROVE /\ child'[Input(r)] # "unused" => child'[Video(r)] # "unused"
                         /\ Input(r) \in told' => Video(r) \in told'
                         /\ Video(r) \in told' /\ Input(r) \notin told' => child'[Input(r)] = "unused"
                         /\ child'[Video(r)] # "unused" /\ child'[Input(r)] = "unused" =>
                              Video(r) \in told' \/ \E u \in Tools : tool'[u].at = "second" /\ tool'[u].own = r
        BY DEF Paired
      <4>1. child'[Input(r)] = child[Input(r)]
        BY <2>4, <2>7, <3>3, <3>7
      <4>2. CASE r = s
        BY <1>4, <2>3, <2>4, <2>7, <2>12, <3>1, <3>5, <3>7, <4>1, <4>2 DEF Paired
      <4>3. CASE r # s
        <5>1. child'[Video(r)] = child[Video(r)]
          BY <2>4, <2>7, <3>3, <3>7, <4>3
        <5> QED BY <1>4, <3>4, <4>1, <5>1 DEF Paired
      <4> QED BY <4>2, <4>3
    <3> QED BY <1>2, <3>6, <3>7
  <2>16. Beside'
    BY <1>1, <2>3 DEF Beside
  <2> QED BY <2>5, <2>8, <2>9, <2>13, <2>14, <2>15, <2>16
<1> QED BY <1>1, <1>3, <1>4 DEF ForkFirst
(* A signal changes no more than where the children it is sent to are.     *)
LEMMA Signalled ==
  ASSUME TypeOK, NEW D \in SUBSET Children, Signal(D)
  PROVE /\ child' \in [Children -> {"unused", "forked", "loop", "blocked", "clearing", "gone"}]
        /\ told' = told \cup D
        /\ \A c \in Children : /\ child'[c] = "unused" <=> child[c] = "unused"
                               /\ child'[c] = "clearing" => child[c] = "clearing"
                               /\ child'[c] = "gone" => child[c] = "gone" \/ c \in D
                               /\ c \notin D => child'[c] = child[c]
<1>1. PICK f \in [D -> {"unused", "gone", "blocked", "loop", "clearing"}] :
        /\ \A c \in D : f[c] \in After(c)
        /\ child' = [c \in Children |-> IF c \in D THEN f[c] ELSE child[c]]
  BY DEF Signal
<1>2. \A c \in D : /\ f[c] = "unused" <=> child[c] = "unused"
                   /\ f[c] = "clearing" => child[c] = "clearing"
  BY <1>1 DEF After
<1>3. child' \in [Children -> {"unused", "forked", "loop", "blocked", "clearing", "gone"}]
  BY <1>1 DEF TypeOK
<1> QED BY <1>1, <1>2, <1>3 DEF Signal

(* The second child, or the end of the first.                              *)
LEMMA ForkInputStep == ASSUME BInv, NEW t \in Tools, ForkInput(t) PROVE BInv'
<1> USE DEF BInv, NoSession
<1> DEFINE s == tool[t].own
<1>1. /\ tool[t].at = "second" /\ tool[t].op = "start" /\ t \in Saving /\ s \in Sessions /\ role = "host"
      /\ Video(s) \notin told /\ child[Video(s)] # "unused" /\ child[Input(s)] = "unused"
      /\ UNCHANGED <<role, pidfile, unlisted>>
  BY DEF ForkInput, At, Started, Saving
<1>2. faults \in Nat /\ unlisted \subseteq Sessions
  BY DEF TypeOK
<1>3. \A r \in Sessions : /\ Family(r) = {Video(r), Input(r)} /\ Video(r) \in Children /\ Input(r) \in Children
                          /\ (Family(r))' = Family(r)
  BY <1>1, FamilyOf DEF Family, Parts
<1>4. \A r, q \in Sessions : Video(r) # Input(q) /\ (Video(r) = Video(q) => r = q) /\ (Input(r) = Input(q) => r = q)
  BY DEF Video, Input
<1>5. CASE child' = [child EXCEPT ![Input(s)] = "forked"] /\ Now(t, "save") /\ UNCHANGED <<told, faults>>
  <2>1. /\ \A u \in Tools : u # t => tool'[u] = tool[u]
        /\ tool'[t].at = "save" /\ tool'[t].own = s /\ tool'[t].seen = tool[t].seen /\ tool'[t].op = "start"
        /\ tool'[t].met = tool[t].met
    BY <1>1, <1>5 DEF TypeOK, Now
  <2>2. \A c \in Children : child'[c] = IF c = Input(s) THEN "forked" ELSE child[c]
    BY <1>5 DEF TypeOK
  <2>3. TypeOK'
    BY <1>1, <1>3, <1>5 DEF TypeOK, Now
  <2>4. Born'
    BY <1>1, <1>3, <1>5, <2>2 DEF Born, Parts, Input
  <2>5. Named'
    BY <1>1, <1>3, <2>1, <2>2 DEF Named, TypeOK
  <2>6. Saving' = Saving /\ Saving \subseteq Tools
    BY <1>1, <2>1 DEF Saving
  <2>7. Apart' /\ Beside'
    BY <1>1, <2>1, <2>6 DEF Apart, Beside
  <2>8. Started'
    <3>1. ASSUME NEW u \in Tools, u # t, u \in Saving
          PROVE tool'[u] = tool[u] /\ tool[u].own \in Sessions /\ tool[u].own # s
      BY <1>1, <2>1, <3>1 DEF Apart, Started
    <3>2. \A u \in Tools : tool'[u].at \in {"second", "save", "write"} => u \in Saving
      BY <2>6 DEF Saving
    <3> QED BY <1>1, <1>3, <1>4, <1>5, <2>1, <2>2, <2>6, <3>1, <3>2 DEF Started
  <2>9. Paired'
    <3> SUFFICES ASSUME NEW r \in Sessions
                 PROVE /\ child'[Input(r)] # "unused" => child'[Video(r)] # "unused"
                       /\ Input(r) \in told' => Video(r) \in told'
                       /\ Video(r) \in told' /\ Input(r) \notin told' => child'[Input(r)] = "unused"
                       /\ child'[Video(r)] # "unused" /\ child'[Input(r)] = "unused" =>
                            Video(r) \in told' \/ \E u \in Tools : tool'[u].at = "second" /\ tool'[u].own = r
      BY DEF Paired
    <3>1. child'[Video(r)] = child[Video(r)]
      BY <1>1, <1>3, <1>4, <2>2
    <3>2. CASE r = s
      BY <1>1, <1>3, <1>5, <2>2, <3>1, <3>2 DEF Paired
    <3>3. CASE r # s
      <4>1. child'[Input(r)] = child[Input(r)]
        BY <1>1, <1>3, <1>4, <2>2, <3>3
      <4> QED BY <1>5, <2>1, <3>1, <3>3, <4>1 DEF Paired
    <3> QED BY <3>2, <3>3
  <2> QED BY <2>3, <2>4, <2>5, <2>7, <2>8, <2>9
<1>6. CASE Signal({Video(s)}) /\ Done(t) /\ Fault
  <2>1. faults' \in Nat
    BY <1>2, <1>6 DEF Fault
  <2>2. /\ child' \in [Children -> {"unused", "forked", "loop", "blocked", "clearing", "gone"}]
        /\ told' = told \cup {Video(s)}
        /\ \A c \in Children : (child'[c] = "unused" <=> child[c] = "unused")
                               /\ (child'[c] = "clearing" => child[c] = "clearing")
    <3> DEFINE D == {Video(s)}
    <3>1. D \in SUBSET Children /\ Signal(D) /\ TypeOK
      BY <1>1, <1>3, <1>6
    <3> HIDE DEF D
    <3>2. /\ child' \in [Children -> {"unused", "forked", "loop", "blocked", "clearing", "gone"}]
          /\ told' = told \cup D
          /\ \A c \in Children : /\ child'[c] = "unused" <=> child[c] = "unused"
                                 /\ child'[c] = "clearing" => child[c] = "clearing"
      BY <3>1, Signalled, Zenon
    <3> QED BY <3>2 DEF D
  <2>3. /\ tool' = [tool EXCEPT ![t] = NoCommand] /\ tool'[t] = NoCommand
        /\ \A u \in Tools : u # t => tool'[u] = tool[u]
    BY <1>6 DEF TypeOK, Done
  <2>4. TypeOK'
    BY <1>1, <1>3, <2>1, <2>2, <2>3 DEF TypeOK, NoCommand
  <2>5. Born'
    BY <1>1, <1>3, <2>2 DEF Born, Parts
  <2>6. Named'
    BY <1>1, <1>3, <2>2, <2>3 DEF Named, TypeOK, NoCommand
  <2>7. Saving' = Saving \ {t} /\ Saving \subseteq Tools
    BY <2>3 DEF Saving, NoCommand
  <2>8. Apart' /\ Beside'
    BY <1>1, <2>3, <2>7 DEF Apart, Beside, NoCommand
  <2>9. Started'
    <3>1. ASSUME NEW u \in Saving, u # t
          PROVE u \in Tools /\ tool'[u] = tool[u] /\ tool[u].own \in Sessions /\ tool[u].own # s
      BY <1>1, <2>3, <2>7, <3>1 DEF Apart, Started
    <3>2. \A u \in Tools : tool'[u].at \in {"second", "save", "write"} => u \in Saving /\ u # t
      BY <2>3 DEF Saving, NoCommand
    <3> QED BY <1>1, <1>3, <1>4, <2>2, <2>3, <2>7, <3>1, <3>2 DEF Started, NoCommand
  <2>10. Paired'
    <3> SUFFICES ASSUME NEW r \in Sessions
                 PROVE /\ child'[Input(r)] # "unused" => child'[Video(r)] # "unused"
                       /\ Input(r) \in told' => Video(r) \in told'
                       /\ Video(r) \in told' /\ Input(r) \notin told' => child'[Input(r)] = "unused"
                       /\ child'[Video(r)] # "unused" /\ child'[Input(r)] = "unused" =>
                            Video(r) \in told' \/ \E u \in Tools : tool'[u].at = "second" /\ tool'[u].own = r
      BY DEF Paired
    <3>1. CASE r = s
      BY <1>1, <1>3, <2>2, <3>1 DEF Paired, Born
    <3>2. CASE r # s
      BY <1>1, <1>3, <1>4, <2>2, <2>3, <3>2 DEF Paired
    <3> QED BY <3>1, <3>2
  <2> QED BY <2>1, <2>4, <2>5, <2>6, <2>8, <2>9, <2>10 
<1> QED BY <1>5, <1>6 DEF ForkInput, Video, Input
(* All children of the session that was found are told, or nobody is.      *)
LEMMA StopStep == ASSUME BInv, NEW t \in Tools, Stop(t) PROVE BInv'
<1> USE DEF BInv, NoSession
<1>1. /\ tool[t].at = "check" /\ tool[t].op = "stop" /\ UNCHANGED <<role, pidfile, unlisted, faults>>
      /\ tool' = [tool EXCEPT ![t] = [@ EXCEPT !.at = "clear", !.seen = NoSession]]
  BY DEF Stop, At, ghosts, TypeOK
<1>2. /\ \A u \in Tools : u # t => tool'[u] = tool[u]
      /\ tool'[t].at = "clear" /\ tool'[t].seen = NoSession /\ tool'[t].op = "stop"
      /\ tool'[t].own = tool[t].own /\ tool'[t].met = tool[t].met
  BY <1>1 DEF TypeOK
<1>3. \A s : (Family(s))' = Family(s)
  BY <1>1 DEF Family, Parts
<1>4. Saving' = Saving /\ Saving \subseteq Tools /\ t \notin Saving
  BY <1>1, <1>2 DEF Saving
<1>5. tool' \in [Tools -> ToolType]
  <2>1. [tool[t] EXCEPT !.at = "clear", !.seen = NoSession] \in ToolType
    BY DEF TypeOK, ToolType
  <2> QED BY <1>1, <2>1, ToolTypes
<1>6. CASE ~Found(t)
  <2>1. UNCHANGED <<child, told>>
    BY <1>6 DEF Stop
  <2>2. TypeOK'
    BY <1>1, <1>5, <2>1 DEF TypeOK, ToolType
  <2>3. Born' /\ Named' /\ Started'
    BY <1>1, <1>2, <1>3, <1>4, <2>1 DEF Born, Parts, Named, Started
  <2>4. Apart' /\ Beside'
    BY <1>1, <1>2, <1>4 DEF Apart, Beside
  <2>5. Paired'
    BY <1>1, <1>2, <2>1 DEF Paired
  <2> QED BY <2>2, <2>3, <2>4, <2>5
<1>7. CASE Found(t)
  <2> DEFINE s == tool[t].seen
             D == Family(s)
  <2>1. s \in Sessions /\ D \in SUBSET Children /\ Signal(D) /\ TypeOK /\ (\A c \in D : child[c] # "unused")
        /\ (role = "watch" => D = {<<s, "view">>}) /\ (role = "host" => D = {Video(s), Input(s)})
    <3>1. s \in Sessions /\ Signal(D)
      BY <1>7 DEF Found, Stop
    <3>2. \A c \in D : child[c] # "unused"
      BY <3>1, BoundsAssumption DEF Named
    <3> QED BY <3>1, <3>2, FamilyOf
  <2> HIDE DEF D, s
  <2>2. /\ child' \in [Children -> {"unused", "forked", "loop", "blocked", "clearing", "gone"}]
        /\ told' = told \cup D
        /\ \A c \in Children : /\ child'[c] = "unused" <=> child[c] = "unused"
                               /\ child'[c] = "clearing" => child[c] = "clearing"
                               /\ child'[c] = "gone" => child[c] = "gone" \/ c \in D
                               /\ c \notin D => child'[c] = child[c]
    BY <2>1, Signalled, Zenon
  <2>3. \A r \in Sessions : Family(r) \subseteq Children /\ Video(r) \in Children /\ Input(r) \in Children
    BY FamilyOf
  <2>4. TypeOK'
    BY <1>1, <1>5, <2>1, <2>2 DEF TypeOK, ToolType
  <2>5. Born'
    BY <1>1, <2>1, <2>2 DEF Born, Parts
  <2>6. Named'
    BY <1>1, <1>2, <1>3, <2>2, <2>3 DEF Named, TypeOK
  <2>7. \A r \in Sessions : /\ Video(r) \in D => r = s /\ role = "host"
                            /\ Input(r) \in D => r = s /\ role = "host"
    BY <2>1 DEF Video, Input, TypeOK
  <2>8. Started'
    <3>1. ASSUME NEW u \in Saving
          PROVE u \in Tools /\ u # t /\ tool'[u] = tool[u] /\ tool[u].own \in Sessions
      BY <1>2, <1>4, <3>1 DEF Started
    <3>2. ASSUME NEW u \in Tools, tool[u].at = "second" PROVE Video(tool[u].own) \notin D
      BY <2>1, <2>7, <3>2 DEF Started, Saving
    <3>3. \A u \in Tools : tool'[u].at \in {"second", "save", "write"} => u \in Saving
      BY <1>2 DEF Saving
    <3> QED BY <1>1, <1>2, <1>3, <1>4, <2>2, <2>3, <3>1, <3>2, <3>3 DEF Started
  <2>9. Apart' /\ Beside'
    BY <1>1, <1>2, <1>4 DEF Apart, Beside
  <2>10. Paired'
    <3> SUFFICES ASSUME NEW r \in Sessions
                 PROVE /\ child'[Input(r)] # "unused" => child'[Video(r)] # "unused"
                       /\ Input(r) \in told' => Video(r) \in told'
                       /\ Video(r) \in told' /\ Input(r) \notin told' => child'[Input(r)] = "unused"
                       /\ child'[Video(r)] # "unused" /\ child'[Input(r)] = "unused" =>
                            Video(r) \in told' \/ \E u \in Tools : tool'[u].at = "second" /\ tool'[u].own = r
      BY DEF Paired
    <3>1. Video(r) \in D <=> Input(r) \in D
      BY <2>1, <2>7
    <3> QED BY <1>1, <1>2, <2>2, <2>3, <3>1 DEF Paired
  <2> QED BY <2>4, <2>5, <2>6, <2>8, <2>9, <2>10
<1> QED BY <1>6, <1>7
-------------------------------------------------------------------------------

LEMMA BInvStep == BInv /\ [Next]_vars => BInv'
<1> SUFFICES ASSUME BInv, [Next]_vars PROVE BInv'
  OBVIOUS
<1>1. CASE \E c \in Children : Child(c) \/ Served(c) \/ ViewEnds(c) \/ VideoEnds(c) \/ InputFails(c) \/ Killed(c)
  BY <1>1, ChildStep
<1>2. ASSUME NEW t \in Tools, Tool(t) PROVE BInv'
  BY <1>2, LookStep, RefuseStep, ForkFirstStep, ForkInputStep, SaveStep, StopStep DEF Tool
<1>3. ASSUME NEW t \in Tools, NEW op \in {"start", "stop"}, Run(t, op) PROVE BInv'
  BY <1>3, RunStep
<1>4. CASE UNCHANGED vars
  BY <1>4 DEF vars, BInv, TypeOK, Born, Named, Started, Apart, Paired, Beside, Saving, Living, Family, Parts, Video, Input
<1> QED BY <1>1, <1>2, <1>3, <1>4 DEF Next

-------------------------------------------------------------------------------
(* What is accounted for: a session that runs, unstopped and whole, and      *)
(* whose entry was not lost.                                               *)
Good(s) == Running(s) /\ ~Half(s) /\ s \notin unlisted

(* It is in the pid file or its command is about to write it.  A command    *)
(* that is alone knows of it: one that starts a session found no other, and *)
(* one that stops has stopped it.                                          *)
Kept == \A s \in Sessions : Good(s) =>
          /\ pidfile = s \/ \E t \in Saving : tool[t].own = s
          /\ \A t \in Tools : ~tool[t].met =>
               /\ t \in Saving => tool[t].own = s
               /\ tool[t].at = "check" => tool[t].seen = s
               /\ tool[t].at # "clear"

IInv == BInv /\ Kept

(* A child of a session, by name, and what makes its session run.           *)
LEMMA Runs ==
  ASSUME TypeOK, NEW s \in Sessions
  PROVE  /\ Running(s) <=> \E c \in Children : c \in Family(s) /\ Living(c) /\ c \notin told
         /\ Half(s) <=> \E c \in Children : c \in Family(s) /\ child[c] = "gone" /\ c \notin told
BY FamilyOf DEF Running, Half

(* While no child of another session is forked nothing more is to be       *)
(* accounted for: what is gone or told stays so, and what is told goes with *)
(* its whole session.                                                      *)
LEMMA Shrinks ==
  ASSUME BInv, BInv', UNCHANGED role, unlisted \subseteq unlisted', told \subseteq told',
         NEW s \in Sessions,
         \A c \in Family(s) : /\ child'[c] = "unused" <=> child[c] = "unused"
                              /\ child[c] = "gone" => child'[c] = "gone",
         \A c, d \in Family(s) : c \in told' /\ c \notin told => d \in told' \/ child'[d] = "unused",
         Good(s)'
  PROVE  Good(s)
<1>1. Family(s)' = Family(s) /\ TypeOK /\ TypeOK'
  BY DEF Family, Parts, BInv
<1>2. PICK c \in Family(s) : child'[c] \notin {"unused", "gone"} /\ c \notin told'
  BY <1>1 DEF Good, Running, Living
<1>3. Running(s)
  BY <1>2 DEF Running, Living
<1>4. ASSUME NEW d \in Family(s), child[d] = "gone", d \notin told PROVE FALSE
  <2>1. child'[d] = "gone" /\ d \in told'
    BY <1>1, <1>4 DEF Good, Half
  <2> QED BY <1>2, <1>4, <2>1
<1> QED BY <1>3, <1>4 DEF Good, Half

(* When a command that is alone finds no session, none is to be accounted   *)
(* for: a child that is gone and not told makes it half.                    *)
LEMMA NotFound ==
  ASSUME IInv, NEW t \in Tools, tool[t].at = "check", ~tool[t].met, ~Found(t), NEW s \in Sessions, Good(s)
  PROVE  FALSE
<1>1. tool[t].seen = s /\ tool[t].seen # NoSession
  BY BoundsAssumption DEF IInv, Kept, NoSession
<1>2. PICK d \in Family(s) : ~Answers(d)
  BY <1>1 DEF Found
<1>3. d \in Children /\ child[d] = "gone"
  BY <1>1, <1>2, FamilyOf DEF Answers, Living, IInv, BInv, Named
<1>4. d \in told
  BY <1>3 DEF Good, Half
<1>5. PICK c \in Family(s) : Living(c) /\ c \notin told
  BY DEF Good, Running
<1>6. CASE role = "watch"
  BY <1>4, <1>5, <1>6, FamilyOf DEF IInv, BInv
<1>7. CASE role = "host"
  <2>1. {c, d} \subseteq {Video(s), Input(s)}
    BY <1>5, <1>7, FamilyOf DEF IInv, BInv
  <2> QED BY <1>3, <1>4, <1>5, <2>1 DEF IInv, BInv, Paired, Living
<1> QED BY <1>6, <1>7 DEF IInv, BInv, TypeOK

(* A step of a child, but for the viewer's last.                            *)
LEMMA ChildKept ==
  ASSUME IInv, BInv', NEW c \in Children, NEW v, child' = [child EXCEPT ![c] = v], Living(c), v # "unused",
         UNCHANGED <<role, pidfile, told, tool, unlisted>>
  PROVE  Kept'
<1>1. ASSUME NEW s \in Sessions, Good(s)' PROVE Good(s)
  <2>1. Family(s) \subseteq Children
    BY FamilyOf DEF IInv, BInv
  <2>2. \A d \in Family(s) : /\ child'[d] = "unused" <=> child[d] = "unused"
                             /\ child[d] = "gone" => child'[d] = "gone"
    BY <2>1 DEF Living, IInv, BInv, TypeOK
  <2>3. told' = told /\ unlisted' = unlisted /\ role' = role /\ BInv
    BY DEF IInv
  <2> QED BY ONLY BInv', <1>1, <2>2, <2>3, Shrinks
<1> QED BY <1>1 DEF IInv, Kept, Saving

LEMMA ChildrenKeep ==
  ASSUME IInv, BInv', NEW c \in Children,
         Child(c) \/ Served(c) \/ ViewEnds(c) \/ VideoEnds(c) \/ InputFails(c) \/ Killed(c)
  PROVE  Kept'
<1> USE DEF Moves, Quiet, ghosts
<1>1. CASE Install(c) \/ Served(c) \/ ViewEnds(c)
  BY <1>1, ChildKept DEF Install, Served, ViewEnds, Living
<1>2. CASE LoopTest(c) \/ Interrupted(c)
  <2>1. (IF c \in told THEN Ending ELSE "blocked") # "unused" /\ Ending # "unused"
    BY DEF Ending
  <2> QED BY <1>2, <2>1, ChildKept DEF LoopTest, Interrupted, Living
<1>3. CASE VideoEnds(c) \/ InputFails(c)
  BY <1>3, ChildKept DEF VideoEnds, InputFails, HalfEnds, Living
<1>4. CASE Killed(c)
  BY <1>4, ChildKept DEF Killed
<1>5. CASE ViewClears(c)
  <2>1. /\ child[c] = "clearing" /\ child' = [child EXCEPT ![c] = "gone"] /\ pidfile' = NoSession
        /\ unlisted' = unlisted \cup (Entry \ {c[1]}) /\ UNCHANGED <<role, told, tool>>
    BY <1>5 DEF ViewClears
  <2>2. TypeOK /\ role = "watch"
    BY <2>1 DEF IInv, BInv, Born
  <2>3. ASSUME NEW s \in Sessions, Good(s)' PROVE Good(s) /\ pidfile # s
    <3>1. Family(s) \subseteq Children /\ Family(s) = {<<s, "view">>} /\ Family(s)' = Family(s)
      BY <2>1, <2>2, FamilyOf DEF Family, Parts
    <3>2. \A d \in Family(s) : /\ child'[d] = "unused" <=> child[d] = "unused"
                               /\ child[d] = "gone" => child'[d] = "gone"
      BY <2>1, <2>2, <3>1 DEF TypeOK
    <3>3. Good(s)
      BY <2>1, <2>3, <3>2, Shrinks DEF IInv
    <3>4. c # <<s, "view">>
      <4>1. child'[<<s, "view">>] # "gone"
        BY <2>3, <3>1 DEF Good, Running, Living
      <4> QED BY <2>1, <2>2, <4>1 DEF TypeOK
    <3>5. c[1] = s => c = <<s, "view">>
      BY <2>1, <2>2 DEF IInv, BInv, Born, Parts, Children
    <3>6. pidfile = s => s \in unlisted'
      BY <2>1, <3>3, <3>4, <3>5 DEF Entry, Good
    <3> QED BY <2>3, <3>3, <3>6 DEF Good
  <2> QED BY <2>1, <2>3 DEF IInv, Kept, Saving
<1> QED BY <1>1, <1>2, <1>3, <1>4, <1>5 DEF Child

(* A step of a command t: the children of the other commands stay what they *)
(* were, and they run beside it.                                           *)
LEMMA OthersMet ==
  ASSUME BInv, NEW t \in Tools, tool[t].at # "idle", NEW u \in Tools, u # t, tool[u].at # "idle"
  PROVE  tool[u].met /\ tool[t].met
BY DEF BInv, Beside

(* What a command changes when it forks nothing and tells nobody.           *)
LEMMA SameGood ==
  ASSUME UNCHANGED <<role, child, told>>, unlisted \subseteq unlisted', NEW s \in Sessions, Good(s)'
  PROVE  Good(s)
BY DEF Good, Running, Half, Family, Parts, Living

LEMMA RunKept == ASSUME IInv, NEW t \in Tools, NEW op \in {"start", "stop"}, Run(t, op) PROVE Kept'
<1>1. UNCHANGED <<role, pidfile, child, told, unlisted>> /\ tool[t].at = "idle"
  BY DEF Run, ghosts
<1>2. /\ tool'[t].at = "look"
      /\ \A u \in Tools : u # t => /\ tool'[u].at = tool[u].at /\ tool'[u].seen = tool[u].seen
                                   /\ tool'[u].own = tool[u].own /\ (tool[u].at # "idle" => tool'[u].met)
  BY DEF Run, IInv, BInv, TypeOK
<1>3. ASSUME NEW s \in Sessions, Good(s)'
      PROVE /\ pidfile' = s \/ \E u \in Saving' : tool'[u].own = s
            /\ \A u \in Tools : ~tool'[u].met =>
                 /\ u \in Saving' => tool'[u].own = s
                 /\ tool'[u].at = "check" => tool'[u].seen = s
                 /\ tool'[u].at # "clear"
  <2>1. Good(s)
    BY <1>1, <1>3, SameGood
  <2>2. pidfile' = s \/ \E u \in Saving' : tool'[u].own = s
    BY <1>1, <1>2, <2>1 DEF IInv, Kept, Saving
  <2>3. \A u \in Tools : ~tool'[u].met => tool'[u].at \in {"idle", "look"}
    BY <1>1, <1>2
  <2> QED BY <2>2, <2>3 DEF Saving
<1> QED BY <1>3 DEF Kept

(* A command that does something with the pid file or goes on: the others   *)
(* that run have met it, so it is about this one and about the entry.       *)
LEMMA KeptFrom ==
  ASSUME IInv, NEW t \in Tools, tool[t].at # "idle", NEW r, tool' = [tool EXCEPT ![t] = r],
         \A s \in Sessions : Good(s)' =>
           /\ Good(s) \/ (t \in Saving' /\ r.own = s)
           /\ \/ pidfile' = s \/ (t \in Saving' /\ r.own = s)
              \/ pidfile # s /\ ~(t \in Saving /\ tool[t].own = s)
           /\ ~r.met => /\ t \in Saving' => r.own = s
                        /\ r.at = "check" => r.seen = s
                        /\ r.at # "clear"
  PROVE  Kept'
<1>1. tool'[t] = r /\ \A u \in Tools : u # t => tool'[u] = tool[u]
  BY DEF IInv, BInv, TypeOK
<1>2. \A u \in Tools : u # t => (u \in Saving' <=> u \in Saving)
  BY <1>1 DEF Saving
<1>3. ASSUME NEW s \in Sessions, Good(s)'
      PROVE /\ pidfile' = s \/ \E u \in Saving' : tool'[u].own = s
            /\ \A u \in Tools : ~tool'[u].met =>
                 /\ u \in Saving' => tool'[u].own = s
                 /\ tool'[u].at = "check" => tool'[u].seen = s
                 /\ tool'[u].at # "clear"
  <2>1. ASSUME t \in Saving', r.own = s PROVE \E u \in Saving' : tool'[u].own = s
    BY <1>1, <2>1
  <2>2. ASSUME ~(t \in Saving' /\ r.own = s), pidfile' # s PROVE \E u \in Saving' : tool'[u].own = s
    <3>1. Good(s) /\ pidfile # s /\ ~(t \in Saving /\ tool[t].own = s)
      BY <1>3, <2>2
    <3>2. PICK u \in Saving : tool[u].own = s
      BY <3>1 DEF IInv, Kept
    <3>3. u \in Tools /\ u # t
      BY <3>1, <3>2 DEF Saving
    <3> QED BY <1>1, <1>2, <3>2, <3>3
  <2>3. pidfile' = s \/ \E u \in Saving' : tool'[u].own = s
    BY <1>1, <2>1, <2>2
  <2>4. ASSUME NEW u \in Tools, ~tool'[u].met
        PROVE /\ u \in Saving' => tool'[u].own = s
              /\ tool'[u].at = "check" => tool'[u].seen = s
              /\ tool'[u].at # "clear"
    <3>1. CASE u = t
      BY <1>1, <1>3, <2>4, <3>1
    <3>2. CASE u # t
      <4>1. tool'[u] = tool[u] /\ tool[u].at = "idle"
        BY <1>1, <2>4, <3>2, OthersMet DEF IInv
      <4> QED BY <4>1 DEF Saving
    <3> QED BY <3>1, <3>2
  <2> QED BY <2>3, <2>4
<1> QED BY <1>3 DEF Kept

LEMMA LookKept == ASSUME IInv, NEW t \in Tools, Look(t) PROVE Kept'
<1> DEFINE r == [tool[t] EXCEPT !.at = "check", !.seen = pidfile]
<1>1. /\ tool[t].at = "look" /\ tool' = [tool EXCEPT ![t] = r]
      /\ UNCHANGED <<role, pidfile, child, told, unlisted>>
  BY DEF Look, ghosts
<1>2. r.at = "check" /\ r.seen = pidfile /\ r.met = tool[t].met
  BY DEF IInv, BInv, TypeOK
<1>3. tool'[t] = r
  BY <1>1 DEF IInv, BInv, TypeOK
<1>4. t \notin Saving /\ t \notin Saving'
  BY <1>1, <1>2, <1>3 DEF Saving
<1> HIDE DEF r
<1>5. ASSUME NEW s \in Sessions, Good(s)', ~r.met PROVE pidfile = s
  <2>1. Good(s)
    BY <1>1, <1>5, SameGood
  <2>2. \A u \in Tools : u # t => tool[u].at = "idle"
    BY <1>1, <1>2, <1>5, OthersMet DEF IInv
  <2> QED BY <1>4, <2>1, <2>2 DEF IInv, Kept, Saving
<1>6. \A s \in Sessions : Good(s)' =>
           /\ Good(s) \/ (t \in Saving' /\ r.own = s)
           /\ \/ pidfile' = s \/ (t \in Saving' /\ r.own = s)
              \/ pidfile # s /\ ~(t \in Saving /\ tool[t].own = s)
           /\ ~r.met => /\ t \in Saving' => r.own = s
                        /\ r.at = "check" => r.seen = s
                        /\ r.at # "clear"
  BY <1>1, <1>2, <1>4, <1>5, SameGood
<1> QED BY <1>1, <1>6, KeptFrom

(* A command that ends without having written an entry.                     *)
LEMMA DoneKept ==
  ASSUME IInv, NEW t \in Tools, Done(t), tool[t].at # "idle", UNCHANGED <<role, child, told>>, unlisted \subseteq unlisted',
         \A s \in Sessions : Good(s) /\ s \notin unlisted' => /\ pidfile' = s \/ pidfile # s
                                                       /\ ~(t \in Saving /\ tool[t].own = s /\ pidfile' # s)
  PROVE  Kept'
<1>1. tool' = [tool EXCEPT ![t] = NoCommand] /\ tool'[t] = NoCommand
  BY DEF Done, IInv, BInv, TypeOK
<1>2. t \notin Saving'
  BY <1>1 DEF Saving, NoCommand
<1>3. \A s \in Sessions : Good(s)' => Good(s) /\ s \notin unlisted'
  BY SameGood DEF Good
<1>4. NoCommand.at = "idle"
  BY DEF NoCommand
<1>5. \A s \in Sessions : Good(s)' =>
           /\ Good(s) \/ (t \in Saving' /\ NoCommand.own = s)
           /\ \/ pidfile' = s \/ (t \in Saving' /\ NoCommand.own = s)
              \/ pidfile # s /\ ~(t \in Saving /\ tool[t].own = s)
           /\ ~NoCommand.met => /\ t \in Saving' => NoCommand.own = s
                                /\ NoCommand.at = "check" => NoCommand.seen = s
                                /\ NoCommand.at # "clear"
  BY <1>2, <1>3, <1>4
<1> QED BY <1>1, <1>5, KeptFrom

(* Whatever the command, an entry it replaces is known to it or lost.       *)
LEMMA Replaces ==
  ASSUME IInv, NEW t \in Tools, NEW own \in SUBSET Sessions, Drops(t, own), NEW s \in Sessions, Good(s),
         s \notin unlisted', pidfile = s
  PROVE  ~tool[t].met
BY DEF Drops, Entry, Good

LEMMA RefuseKept == ASSUME IInv, NEW t \in Tools, Refuse(t) \/ NoScreen(t) \/ Clear(t) PROVE Kept'
<1>1. CASE Refuse(t) \/ NoScreen(t)
  BY <1>1, DoneKept DEF Refuse, NoScreen, At, ghosts, Saving
<1>2. CASE Clear(t)
  <2>1. /\ tool[t].at = "clear" /\ Done(t) /\ Drops(t, {}) /\ UNCHANGED <<role, child, told>>
        /\ t \notin Saving /\ unlisted \subseteq unlisted'
    BY <1>2 DEF Clear, At, Drops, Saving
  <2>2. \A s \in Sessions : Good(s) /\ s \notin unlisted' => pidfile # s
    BY <2>1, Replaces DEF IInv, Kept
  <2> QED BY <2>1, <2>2, DoneKept
<1> QED BY <1>1, <1>2

LEMMA SaveKept == ASSUME IInv, NEW t \in Tools, SaveOpen(t) \/ SaveWrite(t) PROVE Kept'
<1>1. CASE SaveOpen(t) /\ ~Done(t)
  <2> DEFINE r == [tool[t] EXCEPT !.at = "write"]
  <2>1. /\ tool[t].at = "save" /\ tool' = [tool EXCEPT ![t] = r] /\ pidfile' = NoSession /\ Drops(t, {})
        /\ UNCHANGED <<role, child, told>> /\ unlisted \subseteq unlisted'
    BY <1>1 DEF SaveOpen, At, Now, Drops
  <2>2. r.at = "write" /\ r.own = tool[t].own /\ r.met = tool[t].met
    BY DEF IInv, BInv, TypeOK
  <2>3. t \in Saving /\ t \in Saving'
    BY <2>1, <2>2 DEF Saving, IInv, BInv, TypeOK
  <2> HIDE DEF r
  <2>4. ASSUME NEW s \in Sessions, Good(s)'
        PROVE /\ Good(s) \/ (t \in Saving' /\ r.own = s)
              /\ \/ pidfile' = s \/ (t \in Saving' /\ r.own = s)
                 \/ pidfile # s /\ ~(t \in Saving /\ tool[t].own = s)
              /\ ~r.met => /\ t \in Saving' => r.own = s
                           /\ r.at = "check" => r.seen = s
                           /\ r.at # "clear"
    <3>1. Good(s) /\ s \notin unlisted'
      BY <2>1, <2>4, SameGood DEF Good
    <3>2. pidfile = s => ~tool[t].met
      BY <2>1, <3>1, Replaces
    <3>3. ~tool[t].met => tool[t].own = s
      BY <2>3, <3>1 DEF IInv, Kept
    <3> QED BY <2>2, <2>3, <3>1, <3>2, <3>3
  <2> QED BY <2>1, <2>4, KeptFrom
<1>2. CASE SaveOpen(t) /\ Done(t)
  <2>1. ~Now(t, "write")
    BY <1>2 DEF SaveOpen, At, Now, Done, NoCommand, IInv, BInv, TypeOK
  <2>2. /\ tool[t].at = "save" /\ UNCHANGED <<role, pidfile, child, told>>
        /\ unlisted' = unlisted \cup {tool[t].own}
    BY <1>2, <2>1 DEF SaveOpen, At
  <2> QED BY <1>2, <2>2, DoneKept
<1>3. CASE SaveWrite(t)
  <2>1. /\ tool[t].at = "write" /\ Done(t) /\ UNCHANGED <<role, child, told>> /\ t \in Saving
        /\ tool[t].own \in Sessions
    BY <1>3 DEF SaveWrite, At, Saving, IInv, BInv, Started
  <2>2. PICK own \in SUBSET Sessions : Drops(t, own) /\ (pidfile' = tool[t].own \/ tool[t].own \in own)
    BY <1>3, <2>1 DEF SaveWrite
  <2>3. unlisted \subseteq unlisted' /\ own \subseteq unlisted'
    BY <2>2 DEF Drops
  <2>4. ASSUME NEW s \in Sessions, Good(s), s \notin unlisted'
        PROVE (pidfile' = s \/ pidfile # s) /\ ~(t \in Saving /\ tool[t].own = s /\ pidfile' # s)
    <3>1. pidfile = s => ~tool[t].met
      BY <2>2, <2>4, Replaces
    <3>2. ~tool[t].met => tool[t].own = s
      BY <2>1, <2>4 DEF IInv, Kept
    <3> QED BY <2>2, <2>3, <2>4, <3>1, <3>2
  <2> QED BY <2>1, <2>3, <2>4, DoneKept
<1> QED BY <1>1, <1>2, <1>3

(* The two forks, and the second that fails.                               *)
LEMMA ForkFirstKept == ASSUME IInv, BInv', NEW t \in Tools, ForkView(t) \/ ForkVideo(t) PROVE Kept'
<1> DEFINE p == IF role = "watch" THEN "view" ELSE "video"
           next == IF role = "watch" THEN "save" ELSE "second"
<1>1. ForkFirst(t, p, next) /\ tool[t].at = "check" /\ ~Found(t) /\ t \notin Saving
      /\ UNCHANGED <<role, pidfile, unlisted>>
  BY DEF ForkView, ForkVideo, ForkFirst, At, Saving
<1>2. CASE Done(t) /\ UNCHANGED <<child, told>>
  BY <1>1, <1>2, DoneKept
<1>3. ASSUME NEW s \in Sessions, \A q \in Sessions : Unborn(q) <=> q >= s,
             child' = [child EXCEPT ![<<s, p>>] = "forked"],
             tool' = [tool EXCEPT ![t] = [@ EXCEPT !.at = next, !.own = s, !.seen = NoSession]],
             UNCHANGED told
      PROVE Kept'
  <2> DEFINE r == [tool[t] EXCEPT !.at = next, !.own = s, !.seen = NoSession]
  <2>1. tool' = [tool EXCEPT ![t] = r]
    BY <1>3
  <2>2. r.at \in {"save", "second"} /\ r.own = s /\ r.met = tool[t].met
    BY DEF IInv, BInv, TypeOK
  <2>3. t \in Saving'
    BY <2>1, <2>2 DEF Saving, IInv, BInv, TypeOK
  <2> HIDE DEF r
  <2>4. ASSUME NEW q \in Sessions, q # s, Good(q)' PROVE Good(q)
    <3>1. \A c \in Family(q) : c \in Children /\ c # <<s, p>>
      BY <2>4, FamilyOf DEF IInv, BInv, Family
    <3>2. \A c \in Family(q) : child'[c] = child[c]
      BY <1>3, <3>1 DEF IInv, BInv, TypeOK
    <3>3. told' = told /\ unlisted' = unlisted /\ role' = role /\ BInv
      BY <1>1, <1>3 DEF IInv
    <3> QED BY ONLY BInv', <2>4, <3>2, <3>3, Shrinks
  <2>5. ASSUME NEW q \in Sessions, Good(q)', ~tool[t].met PROVE q = s
    BY <1>1, <2>4, <2>5, NotFound
  <2>6. \A q \in Sessions : Good(q)' =>
              /\ Good(q) \/ (t \in Saving' /\ r.own = q)
              /\ \/ pidfile' = q \/ (t \in Saving' /\ r.own = q)
                 \/ pidfile # q /\ ~(t \in Saving /\ tool[t].own = q)
              /\ ~r.met => /\ t \in Saving' => r.own = q
                           /\ r.at = "check" => r.seen = q
                           /\ r.at # "clear"
    BY <1>1, <2>2, <2>3, <2>4, <2>5
  <2>7. tool[t].at # "idle"
    BY <1>1
  <2> QED BY ONLY IInv, t \in Tools, <2>1, <2>6, <2>7, KeptFrom
<1> QED BY <1>1, <1>2, <1>3 DEF ForkFirst

LEMMA ForkInputKept == ASSUME IInv, BInv', NEW t \in Tools, ForkInput(t) PROVE Kept'
<1> DEFINE s == tool[t].own
<1>1. /\ tool[t].at = "second" /\ t \in Saving /\ s \in Sessions /\ role = "host"
      /\ child[Input(s)] = "unused" /\ child[Video(s)] # "unused" /\ UNCHANGED <<role, pidfile, unlisted>>
  BY DEF ForkInput, At, Saving, IInv, BInv, Started
<1>2. \A q \in Sessions : Family(q) = {Video(q), Input(q)} /\ Family(q) \subseteq Children
  BY <1>1, FamilyOf DEF IInv, BInv
<1>3. CASE child' = [child EXCEPT ![Input(s)] = "forked"] /\ Now(t, "save") /\ UNCHANGED told
  <2> DEFINE r == [tool[t] EXCEPT !.at = "save"]
  <2>1. tool' = [tool EXCEPT ![t] = r]
    BY <1>3 DEF Now
  <2>2. r.at = "save" /\ r.own = s /\ r.met = tool[t].met
    BY DEF IInv, BInv, TypeOK
  <2>3. t \in Saving'
    BY <2>1, <2>2 DEF Saving, IInv, BInv, TypeOK
  <2> HIDE DEF r
  <2>4. ASSUME NEW q \in Sessions, q # s, Good(q)' PROVE Good(q)
    <3>1. Input(s) \notin Family(q)
      BY <2>4 DEF Family, Input
    <3>2. \A c \in Family(q) : child'[c] = child[c]
      BY <1>2, <1>3, <3>1 DEF IInv, BInv, TypeOK
    <3>3. told' = told /\ unlisted' = unlisted /\ role' = role /\ BInv
      BY <1>1, <1>3 DEF IInv
    <3> QED BY ONLY BInv', <2>4, <3>2, <3>3, Shrinks
  <2>5. ASSUME NEW q \in Sessions, Good(q)', ~tool[t].met PROVE q = s
    BY <1>1, <2>4, <2>5 DEF IInv, Kept
  <2>6. \A q \in Sessions : Good(q)' =>
              /\ Good(q) \/ (t \in Saving' /\ r.own = q)
              /\ \/ pidfile' = q \/ (t \in Saving' /\ r.own = q)
                 \/ pidfile # q /\ ~(t \in Saving /\ tool[t].own = q)
              /\ ~r.met => /\ t \in Saving' => r.own = q
                           /\ r.at = "check" => r.seen = q
                           /\ r.at # "clear"
    BY <1>1, <2>2, <2>3, <2>4, <2>5
  <2>7. tool[t].at # "idle"
    BY <1>1
  <2> QED BY ONLY IInv, t \in Tools, <2>1, <2>6, <2>7, KeptFrom
<1>4. CASE Signal({Video(s)}) /\ Done(t)
  <2> DEFINE D == {Video(s)}
  <2>0. D \in SUBSET Children /\ Signal(D) /\ TypeOK
    BY <1>1, <1>2, <1>4 DEF IInv, BInv
  <2> HIDE DEF D
  <2>1. /\ told' = told \cup D
        /\ \A c \in Children : /\ child'[c] = "unused" <=> child[c] = "unused"
                               /\ c \notin D => child'[c] = child[c]
    BY <2>0, Signalled, Zenon
  <2>2. tool' = [tool EXCEPT ![t] = NoCommand] /\ tool'[t] = NoCommand
    BY <1>4 DEF Done, IInv, BInv, TypeOK
  <2>3. NoCommand.at = "idle" /\ t \notin Saving' /\ tool[t].at # "idle"
    BY <1>1, <2>2 DEF NoCommand, Saving
  <2>4. ASSUME NEW q \in Sessions, Good(q)' PROVE q # s
    <3>1. \E c \in {Video(q), Input(q)} : child'[c] \notin {"unused", "gone"} /\ c \notin told'
      <4>1. Family(q)' = Family(q)
        BY <1>1 DEF Family, Parts
      <4> QED BY <1>2, <2>4, <4>1 DEF Good, Running, Living
    <3> QED BY <1>1, <1>2, <2>1, <3>1 DEF D
  <2>5. ASSUME NEW q \in Sessions, Good(q)' PROVE Good(q)
    <3>1. \A c \in Family(q) : child'[c] = child[c] /\ (c \in told' => c \in told)
      <4>1. Video(s) \notin Family(q)
        BY <2>4, <2>5 DEF Family, Video
      <4> QED BY <1>2, <2>1, <4>1 DEF D
    <3>2. told \subseteq told' /\ unlisted' = unlisted /\ role' = role /\ BInv
      BY <1>1, <2>1 DEF IInv
    <3> QED BY ONLY BInv', <2>5, <3>1, <3>2, Shrinks
  <2>6. \A q \in Sessions : Good(q)' =>
              /\ Good(q) \/ (t \in Saving' /\ NoCommand.own = q)
              /\ \/ pidfile' = q \/ (t \in Saving' /\ NoCommand.own = q)
                 \/ pidfile # q /\ ~(t \in Saving /\ tool[t].own = q)
              /\ ~NoCommand.met => /\ t \in Saving' => NoCommand.own = q
                                   /\ NoCommand.at = "check" => NoCommand.seen = q
                                   /\ NoCommand.at # "clear"
    BY <1>1, <2>3, <2>4, <2>5
  <2> QED BY ONLY IInv, t \in Tools, <2>2, <2>3, <2>6, KeptFrom
<1> QED BY <1>3, <1>4 DEF ForkInput, Video, Input

LEMMA StopKept == ASSUME IInv, BInv', NEW t \in Tools, Stop(t) PROVE Kept'
<1> DEFINE r == [tool[t] EXCEPT !.at = "clear", !.seen = NoSession]
<1>1. /\ tool[t].at = "check" /\ tool' = [tool EXCEPT ![t] = r] /\ UNCHANGED <<role, pidfile, unlisted>>
      /\ IF Found(t) THEN Signal(Family(tool[t].seen)) ELSE UNCHANGED <<child, told>>
  BY DEF Stop, At, ghosts
<1>2. r.at = "clear" /\ r.met = tool[t].met
  BY DEF IInv, BInv, TypeOK
<1>3. t \notin Saving /\ t \notin Saving'
  BY <1>1, <1>2 DEF Saving, IInv, BInv, TypeOK
<1> HIDE DEF r
<1>4. ASSUME NEW s \in Sessions, Good(s)' PROVE Good(s) /\ tool[t].met
  <2>1. CASE ~Found(t)
    <3>1. Good(s)
      BY <1>1, <1>4, <2>1, SameGood
    <3> QED BY <1>1, <2>1, <3>1, NotFound
  <2>2. CASE Found(t)
    <3> DEFINE D == Family(tool[t].seen)
    <3>1. tool[t].seen \in Sessions /\ D \in SUBSET Children /\ Signal(D) /\ TypeOK
      BY <1>1, <2>2, FamilyOf DEF Found, IInv, BInv
    <3> HIDE DEF D
    <3>2. /\ told' = told \cup D
          /\ \A c \in Children : /\ child'[c] = "unused" <=> child[c] = "unused"
                                 /\ c \notin D => child'[c] = child[c]
      BY <3>1, Signalled, Zenon
    <3>3. Family(s)' = Family(s) /\ Family(s) \subseteq Children
      BY <1>1, FamilyOf DEF Family, Parts, IInv, BInv
    <3>4. s # tool[t].seen
      BY <1>4, <3>2, <3>3 DEF Good, Running, D
    <3>5. \A c \in Family(s) : c \notin D
      BY <3>4 DEF Family, D
    <3>6. /\ \A c \in Family(s) : child'[c] = child[c] /\ (c \in told' => c \in told)
          /\ told \subseteq told' /\ unlisted' = unlisted /\ role' = role /\ BInv
      BY <1>1, <3>2, <3>3, <3>5 DEF IInv
    <3>7. Good(s)
      BY ONLY BInv', <1>4, <3>6, Shrinks
    <3> QED BY <1>1, <3>4, <3>7 DEF IInv, Kept
  <2> QED BY <2>1, <2>2
<1>5. \A s \in Sessions : Good(s)' =>
           /\ Good(s) \/ (t \in Saving' /\ r.own = s)
           /\ \/ pidfile' = s \/ (t \in Saving' /\ r.own = s)
              \/ pidfile # s /\ ~(t \in Saving /\ tool[t].own = s)
           /\ ~r.met => /\ t \in Saving' => r.own = s
                        /\ r.at = "check" => r.seen = s
                        /\ r.at # "clear"
  BY <1>1, <1>2, <1>3, <1>4
<1>6. tool[t].at # "idle"
  BY <1>1
<1> QED BY ONLY IInv, t \in Tools, <1>1, <1>5, <1>6, KeptFrom

-------------------------------------------------------------------------------
LEMMA IInvStep == IInv /\ [Next]_vars => IInv'
<1> SUFFICES ASSUME IInv, [Next]_vars PROVE IInv'
  OBVIOUS
<1>0. BInv'
  BY BInvStep DEF IInv
<1> SUFFICES Kept'
  BY <1>0 DEF IInv
<1>1. CASE \E c \in Children : Child(c) \/ Served(c) \/ ViewEnds(c) \/ VideoEnds(c) \/ InputFails(c) \/ Killed(c)
  BY <1>0, <1>1, ChildrenKeep
<1>2. ASSUME NEW t \in Tools, Tool(t) PROVE Kept'
  BY <1>0, <1>2, LookKept, RefuseKept, ForkFirstKept, ForkInputKept, SaveKept, StopKept DEF Tool
<1>3. ASSUME NEW t \in Tools, NEW op \in {"start", "stop"}, Run(t, op) PROVE Kept'
  BY <1>3, RunKept
<1>4. CASE UNCHANGED vars
  BY <1>4 DEF vars, IInv, Kept, Good, Running, Half, Family, Parts, Living, Saving
<1> QED BY <1>1, <1>2, <1>3, <1>4 DEF Next

(* The types, what a command's place, the pid file and the two halves of a   *)
(* pair tell about each other, and where each session that runs is accounted *)
(* for, in every reachable state.                                          *)
THEOREM Invariant == Spec => []IInv
<1>1. Init => BInv
  BY InitBInv
<1>2. Init => Kept
  <2> SUFFICES ASSUME Init PROVE Kept
    OBVIOUS
  <2>1. TypeOK /\ \A c \in Children : child[c] = "unused"
    BY <1>1 DEF Init, BInv
  <2> QED BY <2>1, Runs DEF Kept, Good, Living
<1>3. IInv /\ [Next]_vars => IInv'
  BY IInvStep
<1>4. Init => IInv
  BY <1>1, <1>2 DEF IInv
<1> QED BY <1>3, <1>4, PTL DEF Spec

(* For any number of commands that overlap, of sessions, kills and failing  *)
(* calls: between commands no child runs on whose partner was told to stop. *)
THEOREM PairsStopWhole == Spec => []PairStoppedWhole
<1>1. IInv => PairStoppedWhole
  <2> USE DEF IInv
  <2> SUFFICES ASSUME IInv, Idle, NEW s \in Sessions, NEW c \in Family(s), NEW d \in Family(s),
                      Living(d), d \notin told
               PROVE child[c] # "unused" /\ c \notin told
    BY DEF PairStoppedWhole
  <2>1. CASE role = "watch"
    BY <2>1, FamilyOf DEF BInv, Living
  <2>2. CASE role = "host"
    <3>1. {c, d} \subseteq {Video(s), Input(s)}
      BY <2>2, FamilyOf DEF BInv
    <3>2. \A t \in Tools : tool[t].at # "second"
      BY DEF Idle
    <3> QED BY <3>1, <3>2 DEF BInv, Paired, Living
  <2> QED BY <2>1, <2>2 DEF BInv, TypeOK
<1> QED BY <1>1, Invariant, PTL

(* However many sessions and commands there are, and however these overlap,  *)
(* fail or come too early: between commands a session that runs is the one   *)
(* the pid file names, unless half of it ended by itself or its entry was    *)
(* lost in one of the ways unlisted records, the viewer of an earlier one    *)
(* that clears the file among them.                                        *)
THEOREM SessionsAccounted == Spec => []Accounted
<1>1. IInv => Accounted
  <2> SUFFICES ASSUME IInv, Idle, NEW s \in Sessions, Running(s), ~Half(s), s \notin unlisted PROVE pidfile = s
    BY DEF Accounted
  <2>1. Good(s) /\ Saving = {}
    BY DEF Good, Idle, Saving
  <2> QED BY <2>1 DEF IInv, Kept
<1> QED BY <1>1, Invariant, PTL
=============================================================================
