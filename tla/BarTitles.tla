------------------------------ MODULE BarTitles ------------------------------
(***************************************************************************)
(* The window title in syn-bar-core (main.c): what the compositor tells of *)
(* its windows, the title shown, the table of watchers that are sent every *)
(* change, and the poll loop that serves all three.  Every write to a      *)
(* watcher is a step, and so is every round of the loop's clean-up, because *)
(* clients come, stop reading and go at any moment between them.           *)
(*                                                                         *)
(* A connection stands for the daemon's descriptor of it: a number that is *)
(* closed is not given out again here.  Watchers never send a second line   *)
(* (syn-bar does not).                                                     *)
(***************************************************************************)
EXTENDS Naturals, Sequences, FiniteSets

CONSTANTS
  Windows, Titles,  \* the compositor's
  Desktop, First,   \* the windows' titles when the daemon starts, and the focused one
  Conns,            \* the clients that may connect, numbered in that order
  MAX_WATCHERS,
  Pipe,             \* how SIGPIPE was inherited: some of "kills", "ignored"
  MaxMoves          \* bound: changes of the compositor's windows

Nobody == "nobody"
Gone == "gone"
NULL == "null"

ASSUME BoundsAssumption == MAX_WATCHERS \in Nat \ {0} /\ MaxMoves \in Nat /\ Conns \subseteq Nat \ {0}
(* Some window has the focus when the daemon starts; the constants that    *)
(* stand for no window and for no title are none.                          *)
ASSUME DesktopAssumption == /\ Nobody \notin Windows /\ Gone \notin Titles
                            /\ Desktop \in [Windows -> Titles \cup {Gone}]
                            /\ First \in Windows /\ Desktop[First] # Gone

Slots == 1 .. MAX_WATCHERS

VARIABLES
  name, focus,   \* the compositor's windows with their titles, and the focused one
  events,        \* what it has sent and the daemon has not handled
  moves,
  toplevels,     \* [Windows -> the title kept for it, or Gone]
  active,        \* the toplevel last activated
  current_title,
  conn,          \* [Conns -> where the connection is]
  line,          \* [Conns -> the last title its client was sent]
  stalled,       \* the clients that do not read and whose buffer is full
  watcher_fds, watcher_count,
  at,            \* where the daemon is
  todo,          \* events the poll found
  rings,         \* the poll found a client waiting
  hung,          \* the places of the table the poll found hung up
  i,             \* where broadcast_title is in the table, or 0
  pipe,
  short          \* a write to a watcher came short, ever

compositor == <<name, focus, moves>>
titles == <<toplevels, active, current_title>>
table == <<watcher_fds, watcher_count>>
clients == <<conn, line, stalled>>
found == <<todo, rings, hung>>
vars == <<compositor, events, titles, clients, table, at, found, i, pipe, short>>

(* The loop begins when the windows there are have been told. *)
Init == /\ name = Desktop /\ focus = First /\ events = <<>> /\ moves = 0
        /\ toplevels = Desktop /\ active = First /\ current_title = Desktop[First]
        /\ conn = [c \in Conns |-> "unborn"] /\ line = [c \in Conns |-> NULL] /\ stalled = {}
        /\ watcher_fds = [s \in Slots |-> 0] /\ watcher_count = 0
        /\ at = "poll" /\ todo = 0 /\ rings = FALSE /\ hung = {} /\ i = 0
        /\ pipe \in Pipe /\ short = FALSE

-------------------------------------------------------------------------------
(* The compositor.                                                         *)

Sends(es) == /\ events' = events \o es
             /\ moves < MaxMoves /\ moves' = moves + 1
             /\ UNCHANGED <<titles, clients, table, at, found, i, pipe, short>>
Ev(k, w, x) == [kind |-> k, window |-> w, arg |-> x]
Done(w) == Ev("done", w, NULL)
State(w, on) == <<Ev("state", w, on), Done(w)>>
Blur == IF focus = Nobody THEN <<>> ELSE State(focus, FALSE)

(* A window is given to the daemon with its title, focused or not. *)
Appears(w, x) == /\ name[w] = Gone /\ toplevels[w] = Gone /\ \A k \in DOMAIN events : events[k].window # w
                 /\ name' = [name EXCEPT ![w] = x]
                 /\ Sends(<<Ev("new", w, NULL), Ev("title", w, x)>> \o <<Done(w)>>)
                 /\ UNCHANGED focus
Retitles(w, x) == /\ name[w] \notin {Gone, x}
                  /\ name' = [name EXCEPT ![w] = x]
                  /\ Sends(<<Ev("title", w, x), Done(w)>>)
                  /\ UNCHANGED focus
(* The old and the new window are told of a change of focus in either order. *)
Focuses(w) == /\ name[w] # Gone /\ focus # w
              /\ focus' = w
              /\ \/ Sends(Blur \o State(w, TRUE))
                 \/ Sends(State(w, TRUE) \o Blur)
              /\ UNCHANGED name
Closes(w) == /\ name[w] # Gone
             /\ name' = [name EXCEPT ![w] = Gone]
             /\ focus' = IF focus = w THEN Nobody ELSE focus
             /\ Sends(<<Ev("closed", w, NULL)>>)

-------------------------------------------------------------------------------
(* The clients.                                                            *)

ClientStep == UNCHANGED <<compositor, events, titles, table, at, found, i, pipe, short>>

Connects(c) == /\ conn[c] = "unborn" /\ \A d \in Conns : d < c => conn[d] # "unborn"
               /\ conn' = [conn EXCEPT ![c] = "queued"]
               /\ ClientStep /\ UNCHANGED <<line, stalled>>
Leaves(c) == /\ \/ conn[c] = "queued" /\ conn' = [conn EXCEPT ![c] = "quit"]
                \/ conn[c] = "live" /\ conn' = [conn EXCEPT ![c] = "left"]
             /\ stalled' = stalled \ {c}
             /\ ClientStep /\ UNCHANGED line
(* Until it goes: one that reads again before a write is like the others,  *)
(* and after a short write it is not written to any more.                  *)
Stalls(c) == /\ conn[c] = "live" /\ c \notin stalled
             /\ stalled' = stalled \cup {c}
             /\ ClientStep /\ UNCHANGED <<conn, line>>

-------------------------------------------------------------------------------
(* The daemon.                                                             *)

Waiting == {c \in Conns : conn[c] \in {"queued", "quit"}}

(* Mutated form of Poll: the last place of the table is not polled. *)
PollShort == /\ at = "poll"
             /\ todo' = Len(events) /\ rings' = (Waiting # {})
             /\ hung' = {s \in 1 .. watcher_count : s < watcher_count /\ conn[watcher_fds[s]] = "left"}
             /\ todo' > 0 \/ rings' \/ hung' # {}
             /\ at' = "titles"
             /\ UNCHANGED <<compositor, events, titles, clients, table, i, pipe, short>>
(* poll() returns once there is something, with what it saw just then. *)
Poll == /\ at = "poll"
        /\ todo' = Len(events) /\ rings' = (Waiting # {})
        /\ hung' = {s \in 1 .. watcher_count : conn[watcher_fds[s]] = "left"}
        /\ todo' > 0 \/ rings' \/ hung' # {}
        /\ at' = "titles"
        /\ UNCHANGED <<compositor, events, titles, clients, table, i, pipe, short>>

(* set_current_title: only a change is broadcast.                          *)
SetTitle(x) == IF current_title = x
               THEN UNCHANGED <<current_title, i>>
               ELSE current_title' = x /\ i' = 1
Keeps == UNCHANGED <<current_title, i>>

HandleNew(e) == /\ e.kind = "new"
                /\ toplevels' = [toplevels EXCEPT ![e.window] = ""]
                /\ Keeps /\ UNCHANGED active
HandleTitle(e) == /\ e.kind = "title"
                  /\ toplevels' = [toplevels EXCEPT ![e.window] = e.arg]
                  /\ Keeps /\ UNCHANGED active
(* Mutated form of HandleState: any state makes the window the active one. *)
HandleStateAny(e) == /\ e.kind = "state"
                     /\ active' = e.window
                     /\ Keeps /\ UNCHANGED toplevels
(* A window that is no longer activated stays the active one until the     *)
(* next is told.                                                           *)
HandleState(e) == /\ e.kind = "state"
                  /\ active' = IF e.arg THEN e.window ELSE active
                  /\ Keeps /\ UNCHANGED toplevels
HandleDone(e) == /\ e.kind = "done"
                 /\ IF active = e.window THEN SetTitle(toplevels[e.window]) ELSE Keeps
                 /\ UNCHANGED <<toplevels, active>>
HandleClosed(e) == /\ e.kind = "closed"
                   /\ toplevels' = [toplevels EXCEPT ![e.window] = Gone]
                   /\ IF active = e.window THEN active' = Nobody /\ SetTitle("")
                                           ELSE Keeps /\ UNCHANGED active
Dispatch == /\ at = "titles" /\ i = 0 /\ todo > 0
            /\ LET e == Head(events)
               IN HandleNew(e) \/ HandleTitle(e) \/ HandleState(e) \/ HandleDone(e) \/ HandleClosed(e)
            /\ events' = Tail(events) /\ todo' = todo - 1
            /\ UNCHANGED <<compositor, clients, table, at, rings, hung, pipe, short>>

(* watcher_fds[s] = watcher_fds[--watcher_count] *)
Drop(s) == /\ watcher_fds' = [watcher_fds EXCEPT ![s] = watcher_fds[watcher_count]]
           /\ watcher_count' = watcher_count - 1

Broadcasting == at = "titles" /\ i > 0 /\ i <= watcher_count
BroadcastStep == UNCHANGED <<compositor, events, titles, conn, stalled, found, pipe>>

WriteGoes == /\ Broadcasting /\ conn[watcher_fds[i]] = "live" /\ watcher_fds[i] \notin stalled
             /\ line' = [line EXCEPT ![watcher_fds[i]] = current_title]
             /\ i' = i + 1
             /\ BroadcastStep /\ UNCHANGED <<table, at, short>>
(* Mutated form of WriteShort: the one moved into the place is passed over. *)
WriteShortSkips == /\ Broadcasting /\ (conn[watcher_fds[i]] # "live" \/ watcher_fds[i] \in stalled)
                   /\ conn[watcher_fds[i]] = "left" => pipe = "ignored"
                   /\ Drop(i) /\ i' = i + 1
                   /\ short' = TRUE
                   /\ BroadcastStep /\ UNCHANGED <<line, at>>
(* The send timeout passes, or there is nobody to read and SIGPIPE is      *)
(* ignored: the watcher is forgotten, its descriptor stays open.           *)
WriteShort == /\ Broadcasting /\ (conn[watcher_fds[i]] # "live" \/ watcher_fds[i] \in stalled)
              /\ conn[watcher_fds[i]] = "left" => pipe = "ignored"
              /\ Drop(i)
              /\ short' = TRUE
              /\ BroadcastStep /\ UNCHANGED <<line, at, i>>
WriteKills == /\ Broadcasting /\ conn[watcher_fds[i]] = "left" /\ pipe = "kills"
              /\ at' = "dead"
              /\ BroadcastStep /\ UNCHANGED <<line, table, i, short>>
Broadcasted == /\ at = "titles" /\ i > watcher_count
               /\ i' = 0
               /\ BroadcastStep /\ UNCHANGED <<line, table, at, short>>

DispatchEnds == /\ at = "titles" /\ i = 0 /\ todo = 0
                /\ at' = IF rings THEN "client" ELSE "clean"
                /\ UNCHANGED <<compositor, events, titles, clients, table, found, i, pipe, short>>

(* handle_one_client.  Each way it serves the client goes on to clean up.  *)
Serving(c) == at = "client" /\ rings /\ c \in Waiting /\ \A d \in Waiting : d >= c
Serves == /\ at' = "clean" /\ rings' = FALSE
          /\ UNCHANGED <<compositor, events, titles, stalled, todo, hung, i, pipe, short>>

(* A question answered at once, or nothing asked within 200 ms. *)
Replies(c) == /\ Serving(c)
              /\ conn' = [conn EXCEPT ![c] = "closed"]
              /\ Serves /\ UNCHANGED <<line, table>>
TurnsAway(c) == /\ Serving(c)
                /\ watcher_count >= MAX_WATCHERS \/ (conn[c] = "quit" /\ pipe = "ignored")
                /\ conn' = [conn EXCEPT ![c] = "closed"]
                /\ Serves /\ UNCHANGED <<line, table>>
(* WATCH-WINDOW-TITLE: the title as it is, and a place in the table. *)
Registers(c) == /\ Serving(c) /\ conn[c] = "queued" /\ watcher_count < MAX_WATCHERS
                /\ conn' = [conn EXCEPT ![c] = "live"]
                /\ line' = [line EXCEPT ![c] = current_title]
                /\ watcher_fds' = [watcher_fds EXCEPT ![watcher_count + 1] = c]
                /\ watcher_count' = watcher_count + 1
                /\ Serves
(* Any answer to a client that has gone already. *)
AnswerKills(c) == /\ Serving(c) /\ conn[c] = "quit" /\ pipe = "kills"
                  /\ at' = "dead"
                  /\ UNCHANGED <<compositor, events, titles, clients, table, found, i, pipe, short>>

CleanStep == UNCHANGED <<compositor, events, titles, line, stalled, todo, rings, i, pipe, short>>
Last == CHOOSE s \in hung : \A r \in hung : r <= s
(* Mutated form of Clean: the watcher is closed, its place stays. *)
CleanKeepsPlace == /\ at = "clean" /\ hung # {}
                   /\ conn' = [conn EXCEPT ![watcher_fds[Last]] = "closed"]
                   /\ hung' = hung \ {Last}
                   /\ CleanStep /\ UNCHANGED <<table, at>>
(* From the last place to the first.  What the poll saw at a place is taken *)
(* for what is there now; with an empty table the place before the first is *)
(* read, and anything may follow.                                          *)
Clean == /\ at = "clean" /\ hung # {}
         /\ conn' = [conn EXCEPT ![watcher_fds[Last]] = "closed"]
         /\ IF watcher_count = 0 THEN at' = "astray" /\ UNCHANGED table ELSE Drop(Last) /\ UNCHANGED at
         /\ hung' = hung \ {Last}
         /\ CleanStep
RoundEnds == /\ at = "clean" /\ hung = {}
             /\ at' = "poll"
             /\ CleanStep /\ UNCHANGED <<conn, table, hung>>

-------------------------------------------------------------------------------
Daemon == \/ Poll \/ Dispatch \/ WriteGoes \/ WriteShort \/ WriteKills \/ Broadcasted \/ DispatchEnds
          \/ (\E c \in Conns : Replies(c) \/ TurnsAway(c) \/ Registers(c) \/ AnswerKills(c))
          \/ Clean \/ RoundEnds
(* What the world does after the daemon has ended is of no interest. *)
Up == at \notin {"dead", "astray"}
World == Up /\
         \/ \E w \in Windows : Focuses(w) \/ Closes(w) \/ \E x \in Titles : Appears(w, x) \/ Retitles(w, x)
         \/ \E c \in Conns : Connects(c) \/ Leaves(c) \/ Stalls(c)
Next == Daemon \/ World
Spec == Init /\ [][Next]_vars
(* The loop goes on as long as there is something to do; nothing makes the *)
(* compositor or a client move.                                            *)
FairSpec == Spec /\ WF_vars(Daemon)

-------------------------------------------------------------------------------
(* PROPERTIES                                                              *)

Watchers == {watcher_fds[s] : s \in 1 .. watcher_count}

TypeOK == /\ name \in [Windows -> Titles \cup {Gone}] /\ focus \in Windows \cup {Nobody}
          /\ moves \in 0 .. MaxMoves /\ todo \in 0 .. Len(events)
          /\ toplevels \in [Windows -> Titles \cup {"", Gone}] /\ active \in Windows \cup {Nobody}
          /\ current_title \in Titles \cup {""}
          /\ conn \in [Conns -> {"unborn", "queued", "quit", "live", "left", "closed"}]
          /\ line \in [Conns -> Titles \cup {"", NULL}] /\ stalled \subseteq Conns
          /\ watcher_fds \in [Slots -> Conns \cup {0}] /\ watcher_count \in 0 .. MAX_WATCHERS
          /\ at \in {"poll", "titles", "client", "clean", "dead", "astray"}
          /\ rings \in BOOLEAN /\ hung \subseteq Slots /\ i \in 0 .. MAX_WATCHERS + 1
          /\ pipe \in Pipe /\ short \in BOOLEAN

(* As long as no write to a watcher came short, the table holds the open   *)
(* watchers, each once, and no other: the clean-up of a round never closes *)
(* a watcher that is still there, although it goes by the places of the    *)
(* poll and a client may have been added since (main.c:1310, 1359).        *)
TableIsWatchers == Up /\ ~short =>
                     /\ \A r, s \in 1 .. watcher_count : watcher_fds[r] = watcher_fds[s] => r = s
                     /\ Watchers = {c \in Conns : conn[c] \in {"live", "left"}}

(* Between two rounds everyone in the table has been sent the title as it  *)
(* is, also those moved into the place of one that was dropped during the  *)
(* broadcast (broadcast_title).                                            *)
EveryoneHasTheTitle == at = "poll" => \A c \in Watchers : conn[c] = "live" => line[c] = current_title

(* When all the compositor said has been handled, the title shown is that  *)
(* of the focused window, in whichever order the windows were told.        *)
TitleOfTheFocused == Up /\ events = <<>> /\ focus # Nobody => current_title = name[focus]

(* A watcher that goes away is closed, unless some write came short.       *)
GoneIsClosed == \A c \in Conns : conn[c] = "left" ~> conn[c] = "closed" \/ short \/ ~Up
===============================================================================
