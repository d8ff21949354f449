------------------------------ MODULE ShellPty ------------------------------
(***************************************************************************)
(* One session of syn-shell's terminal area (PtySession.cpp, TermView.cpp,  *)
(* MainWindowShell.cpp): the holder process that owns the shell's pty, its  *)
(* clients (the area, and `syn-shell --attach` in foot) that take the shell *)
(* over from each other, and the browser and the shell that follow each     *)
(* other from folder to folder, one by packets and a signal, the other by   *)
(* what it prints.                                                         *)
(*                                                                         *)
(* Of what is typed and printed only the reports of the folder (OSC 7) are  *)
(* kept; every prompt prints one.  A packet arrives whole.  The shell is    *)
(* zsh.                                                                    *)
(***************************************************************************)
EXTENDS Naturals, Sequences

CONSTANTS
  Foots,      \* the foot windows a detach may open
  Dirs, Home, \* the folders; where browser and shell begin
  MaxTries,   \* 150 in the code
  FaultKinds, \* some of "socket", "fork"
  MaxMoves    \* bound: what the user does in the browser and in the shell

View == "view"
Nobody == "nobody"
Clients == Foots \cup {View}

ASSUME ConstantsAssumption == /\ Home \in Dirs /\ MaxTries \in Nat /\ MaxMoves \in Nat
                              /\ {View, Nobody} \cap Foots = {} /\ View # Nobody
                              /\ {"nothing", "size"} \cap Dirs = {}

VARIABLES
  at,      \* where the holder is
  found,   \* what its poll found
  client,  \* its client
  fresh,   \* the client has not been drawn to
  todo,    \* packets it has read
  backlog, \* connections it has not accepted
  link,    \* [Clients -> how a connection is: "shut" by the holder, "left" by the client, "over" on both ends]
  mail,    \* [Clients -> packets on the way to the holder]
  shell,   \* "none", "starting", "prompt", "busy" or "exited"
  here,    \* its folder
  said,    \* what it printed and the holder has not read
  cdfile, usr1,
  view,    \* "connecting", "running", "over", or "closed" with the window
  tries,
  inbox,   \* what the view was sent and has not read
  cwd,     \* m_cwd, the shell's folder as the view knows it
  dir,     \* m_currentDir
  foot,    \* [Foots -> "no", "started", "connected", "attached" or "gone"]
  moves,
  last,    \* the client accepted last
  unmet,   \* a Cd was not for the shell to follow, ever
  unheard  \* a write met a client that had gone, ever

holder == <<at, found, client, fresh, todo, last, unheard>>
links == <<backlog, link, mail>>
zsh == <<shell, here, said, usr1>>
browser == <<view, tries, inbox, cwd, dir>>
vars == <<holder, links, zsh, cdfile, browser, foot, moves, unmet>>

Init == /\ at = "starts" /\ found = {} /\ client = Nobody /\ fresh = FALSE /\ todo = <<>>
        /\ backlog = <<>> /\ link = [c \in Clients |-> "none"] /\ mail = [c \in Clients |-> <<>>]
        /\ shell = "none" /\ here = Home /\ said = <<>> /\ cdfile = "nothing" /\ usr1 = FALSE
        /\ view = "connecting" /\ tries = 0 /\ inbox = <<>> /\ cwd = Home /\ dir = Home
        /\ foot = [f \in Foots |-> "no"] /\ moves = 0
        /\ last = Nobody /\ unmet = FALSE /\ unheard = FALSE

-------------------------------------------------------------------------------
(* Connections. *)

Listening == at \notin {"starts", "ended", "gone"}
Sends(c, p) == mail' = [mail EXCEPT ![c] = Append(@, p)]
(* connect() succeeds as soon as the socket listens, before any accept().  *)
Connects(c) == /\ Listening
               /\ backlog' = Append(backlog, c)
               /\ link' = [link EXCEPT ![c] = "open"]
               /\ UNCHANGED mail
ClosedByHolder(C) == [c \in Clients |-> IF c \notin C THEN link[c]
                                        ELSE IF link[c] = "left" THEN "over" ELSE "shut"]
Leave(c) == link' = [link EXCEPT ![c] = IF @ = "shut" THEN "over" ELSE "left"]

-------------------------------------------------------------------------------
(* TermView. *)

ViewStep == UNCHANGED <<holder, zsh, cdfile, foot, unmet>>
(* Every 20 ms until the holder has bound its socket. *)
TryConnect == /\ view = "connecting" /\ link[View] = "none"
              /\ \/ /\ tries >= MaxTries
                    /\ view' = "over" /\ UNCHANGED <<links, tries>>
                 \/ /\ tries < MaxTries /\ Connects(View)
                    /\ UNCHANGED <<view, tries>>
                 \/ /\ tries < MaxTries /\ ~Listening
                    /\ tries' = tries + 1 /\ UNCHANGED <<links, view>>
              /\ ViewStep /\ UNCHANGED <<inbox, cwd, dir, moves>>

(* The size goes first. *)
Connected == /\ view = "connecting" /\ link[View] # "none"
             /\ view' = "running"
             /\ Sends(View, "size")
             /\ ViewStep /\ UNCHANGED <<backlog, link, tries, inbox, cwd, dir, moves>>
(* Mutated form of Hears: the browser goes along, m_cwd is not set. *)
HearsNot == /\ view = "running" /\ inbox # <<>>
            /\ dir' = IF Head(inbox) # cwd THEN Head(inbox) ELSE dir
            /\ inbox' = Tail(inbox)
            /\ ViewStep /\ UNCHANGED <<links, view, tries, cwd, moves>>
(* cbOsc and onShellCwd; the navigation sends no Cd, as m_cwd is set first. *)
Hears == /\ view = "running" /\ inbox # <<>>
         /\ cwd' = Head(inbox)
         /\ dir' = IF Head(inbox) # cwd THEN Head(inbox) ELSE dir
         /\ inbox' = Tail(inbox)
         /\ ViewStep /\ UNCHANGED <<links, view, tries, moves>>
Disconnected == /\ view = "running" /\ inbox = <<>> /\ link[View] = "shut"
                /\ view' = "over"
                /\ Leave(View)
                /\ ViewStep /\ UNCHANGED <<backlog, mail, tries, inbox, cwd, dir, moves>>
(* The window is closed: m_sock->abort(). *)
CloseWindow == /\ view \in {"connecting", "running"}
               /\ view' = "closed" /\ inbox' = <<>>
               /\ IF link[View] # "none" THEN Leave(View) ELSE UNCHANGED link
               /\ ViewStep /\ UNCHANGED <<backlog, mail, tries, cwd, dir, moves>>

Moves == moves < MaxMoves /\ moves' = moves + 1
(* navigateTo and syncShell. *)
Navigate(d) == /\ view \in {"connecting", "running"} /\ d # dir
               /\ dir' = d
               /\ IF cwd # d /\ view = "running" /\ link[View] = "open" THEN Sends(View, d) ELSE UNCHANGED mail
               /\ unmet' = (unmet \/ (cwd # d /\ view = "connecting"))
               /\ Moves
               /\ UNCHANGED <<holder, backlog, link, zsh, cdfile, view, tries, inbox, cwd, foot>>

(* detachToFoot: foot is started, and attaches in its own time. *)
Detach(f) == /\ view = "running" /\ foot[f] = "no"
             /\ foot' = [foot EXCEPT ![f] = "started"]
             /\ UNCHANGED <<holder, links, zsh, cdfile, browser, moves, unmet>>

-------------------------------------------------------------------------------
(* runAttach. *)

FootStep == UNCHANGED <<holder, zsh, cdfile, browser, moves, unmet>>
Attach(f) == /\ foot[f] = "started"
             /\ \/ Connects(f) /\ foot' = [foot EXCEPT ![f] = "connected"]
                \/ ~Listening /\ foot' = [foot EXCEPT ![f] = "gone"] /\ UNCHANGED links
             /\ FootStep
SendSize(f) == /\ foot[f] = "connected"
               /\ foot' = [foot EXCEPT ![f] = "attached"]
               /\ Sends(f, "size")
               /\ FootStep /\ UNCHANGED <<backlog, link>>
(* The shell ended, or another client took it. *)
Detached(f) == /\ foot[f] = "attached" /\ link[f] = "shut"
               /\ foot' = [foot EXCEPT ![f] = "gone"]
               /\ Leave(f)
               /\ FootStep /\ UNCHANGED <<backlog, mail>>
(* Its window is closed, at once or later. *)
CloseFoot(f) == /\ foot[f] \in {"started", "connected", "attached"}
                /\ foot' = [foot EXCEPT ![f] = "gone"]
                /\ IF foot[f] # "started" THEN Leave(f) ELSE UNCHANGED link
                /\ FootStep /\ UNCHANGED <<backlog, mail>>

-------------------------------------------------------------------------------
(* The shell, with the integration the holder gives it. *)

ShellStep == UNCHANGED <<holder, links, cdfile, browser, foot, unmet>>
Prints(d) == said' = Append(said, d)
(* .zshenv has been read: the trap is there, and the first prompt. *)
Ready == /\ shell = "starting"
         /\ shell' = "prompt" /\ Prints(here)
         /\ ShellStep /\ UNCHANGED <<here, usr1, moves>>
(* What is typed has come through a client. *)
CdTyped(d) == /\ shell = "prompt" /\ d # here /\ last # Nobody /\ Moves
              /\ here' = d /\ Prints(d)
              /\ ShellStep /\ UNCHANGED <<shell, usr1>>
Runs == /\ shell = "prompt" /\ last # Nobody /\ Moves
        /\ shell' = "busy"
        /\ ShellStep /\ UNCHANGED <<here, said, usr1>>
Finishes == /\ shell = "busy"
            /\ shell' = "prompt" /\ Prints(here)
            /\ ShellStep /\ UNCHANGED <<here, usr1, moves>>
Exits == /\ shell = "prompt"
         /\ shell' = "exited" /\ usr1' = FALSE
         /\ ShellStep /\ UNCHANGED <<here, said, moves>>
(* TRAPUSR1. *)
Trap == /\ shell = "prompt" /\ usr1
        /\ usr1' = FALSE
        /\ IF cdfile \notin {"nothing", here} THEN here' = cdfile /\ Prints(cdfile) ELSE UNCHANGED <<here, said>>
        /\ ShellStep /\ UNCHANGED <<shell, moves>>

-------------------------------------------------------------------------------
(* runHolder. *)

HolderStep == UNCHANGED <<browser, foot, moves>>
Bind == /\ at = "starts"
        /\ \/ at' = "bound"
           \/ "socket" \in FaultKinds /\ at' = "gone"
        /\ HolderStep /\ UNCHANGED <<found, client, fresh, todo, last, unheard, links, zsh, cdfile, unmet>>
StartShell == /\ at = "bound"
              /\ \/ at' = "poll" /\ shell' = "starting" /\ UNCHANGED links
                 \/ /\ "fork" \in FaultKinds
                    /\ at' = "gone" /\ UNCHANGED shell
                    /\ link' = ClosedByHolder({c \in Clients : \E k \in DOMAIN backlog : backlog[k] = c})
                    /\ backlog' = <<>> /\ UNCHANGED mail
              /\ HolderStep /\ UNCHANGED <<found, client, fresh, todo, last, unheard, here, said, usr1, cdfile, unmet>>

Poll == /\ at = "poll"
        /\ found' = {k \in {"listen", "master", "client"} :
                       \/ k = "listen" /\ backlog # <<>>
                       \/ k = "master" /\ (said # <<>> \/ shell = "exited")
                       \/ k = "client" /\ client # Nobody /\ (mail[client] # <<>> \/ link[client] = "left")}
        /\ found' # {}
        /\ at' = "listen"
        /\ HolderStep /\ UNCHANGED <<client, fresh, todo, last, unheard, links, zsh, cdfile, unmet>>

(* A new client takes the shell over. *)
Accept == /\ at = "listen"
          /\ IF "listen" \in found
             THEN /\ client' = Head(backlog) /\ backlog' = Tail(backlog) /\ last' = Head(backlog)
                  /\ link' = ClosedByHolder({client}) /\ fresh' = TRUE
             ELSE UNCHANGED <<client, backlog, link, fresh, last>>
          /\ at' = "master"
          /\ HolderStep /\ UNCHANGED <<found, todo, unheard, mail, zsh, cdfile, unmet>>

(* A write to a client that has gone fails, and the holder goes on without. *)
ReadMaster == /\ at = "master" /\ "master" \in found /\ said # <<>>
              /\ said' = <<>>
              /\ IF client # Nobody /\ link[client] = "left"
                 THEN client' = Nobody /\ link' = ClosedByHolder({client}) /\ unheard' = TRUE
                 ELSE UNCHANGED <<client, link, unheard>>
              /\ inbox' = IF client = View /\ link[View] = "open" THEN inbox \o said ELSE inbox
              /\ at' = "client"
              /\ UNCHANGED <<found, fresh, todo, last, backlog, mail, shell, here, usr1, cdfile, unmet,
                             view, tries, cwd, dir, foot, moves>>
ShellExited == /\ at = "master" /\ "master" \in found /\ said = <<>>
               /\ at' = "closing"
               /\ HolderStep /\ UNCHANGED <<found, client, fresh, todo, last, unheard, links, zsh, cdfile, unmet>>
NoOutput == /\ at = "master" /\ "master" \notin found
            /\ at' = "client"
            /\ HolderStep /\ UNCHANGED <<found, client, fresh, todo, last, unheard, links, zsh, cdfile, unmet>>

Reads == at = "client" /\ "client" \in found /\ client # Nobody
ReadPackets == /\ Reads /\ mail[client] # <<>>
               /\ todo' = mail[client] /\ mail' = [mail EXCEPT ![client] = <<>>]
               /\ at' = "packets"
               /\ HolderStep /\ UNCHANGED <<found, client, fresh, last, unheard, backlog, link, zsh, cdfile, unmet>>
(* Mutated form of HangUp: the connection does not block, so that there is  *)
(* nothing yet to read from one taken since the poll.                      *)
HangUpEmpty == /\ Reads /\ mail[client] = <<>>
               /\ client' = Nobody /\ link' = ClosedByHolder({client})
               /\ at' = "closing"
               /\ HolderStep /\ UNCHANGED <<found, fresh, todo, last, unheard, backlog, mail, zsh, cdfile, unmet>>
(* Mutated form of HangUp: the holder waits for the next one. *)
HangUpNot == /\ Reads /\ mail[client] = <<>> /\ link[client] = "left"
             /\ client' = Nobody /\ link' = ClosedByHolder({client})
             /\ at' = "poll"
             /\ HolderStep /\ UNCHANGED <<found, fresh, todo, last, unheard, backlog, mail, zsh, cdfile, unmet>>
(* Nothing more comes: gone, with nobody taking over. *)
HangUp == /\ Reads /\ mail[client] = <<>> /\ link[client] = "left"
          /\ client' = Nobody /\ link' = ClosedByHolder({client})
          /\ at' = "closing"
          /\ HolderStep /\ UNCHANGED <<found, fresh, todo, last, unheard, backlog, mail, zsh, cdfile, unmet>>
NoInput == /\ at = "client" /\ ("client" \notin found \/ client = Nobody)
           /\ at' = "poll"
           /\ HolderStep /\ UNCHANGED <<found, client, fresh, todo, last, unheard, links, zsh, cdfile, unmet>>

(* The screen is drawn again for a client that has just come. *)
SizePacket == /\ at = "packets" /\ todo # <<>> /\ Head(todo) = "size"
              /\ fresh' = FALSE /\ todo' = Tail(todo)
              /\ HolderStep /\ UNCHANGED <<at, found, client, last, unheard, links, zsh, cdfile, unmet>>
(* While zsh itself is in the foreground, which it is too before it is ready. *)
InForeground == shell \in {"starting", "prompt"}
CdPacket == /\ at = "packets" /\ todo # <<>> /\ Head(todo) \in Dirs
            /\ IF InForeground THEN at' = "cd" /\ cdfile' = "nothing" /\ UNCHANGED <<todo, unmet>>
                               ELSE todo' = Tail(todo) /\ unmet' = TRUE /\ UNCHANGED <<at, cdfile>>
            /\ HolderStep /\ UNCHANGED <<found, client, fresh, last, unheard, links, zsh>>
(* Without a trap the signal ends the shell. *)
WriteCd == /\ at = "cd"
           /\ cdfile' = Head(todo) /\ todo' = Tail(todo)
           /\ usr1' = (shell \in {"prompt", "busy"})
           /\ shell' = IF shell = "starting" THEN "exited" ELSE shell
           /\ at' = "packets"
           /\ HolderStep /\ UNCHANGED <<found, client, fresh, last, unheard, links, here, said, unmet>>
PacketsDone == /\ at = "packets" /\ todo = <<>>
               /\ at' = "poll"
               /\ HolderStep /\ UNCHANGED <<found, client, fresh, todo, last, unheard, links, zsh, cdfile, unmet>>

(* The socket goes first, then the shell, which gets a second to end. *)
CloseSocket == /\ at = "closing"
               /\ at' = "ended"
               /\ link' = ClosedByHolder({c \in Clients : \E k \in DOMAIN backlog : backlog[k] = c})
               /\ backlog' = <<>>
               /\ shell' = "exited" /\ usr1' = FALSE
               /\ HolderStep /\ UNCHANGED <<found, client, fresh, todo, last, unheard, mail, here, said, cdfile, unmet>>
HolderExits == /\ at = "ended"
               /\ at' = "gone"
               /\ client' = Nobody /\ link' = ClosedByHolder({client})
               /\ HolderStep /\ UNCHANGED <<found, fresh, todo, last, unheard, backlog, mail, zsh, cdfile, unmet>>

-------------------------------------------------------------------------------
Holder == \/ Bind \/ StartShell \/ Poll \/ Accept \/ ReadMaster \/ ShellExited \/ NoOutput
          \/ ReadPackets \/ HangUp \/ NoInput \/ SizePacket \/ CdPacket \/ WriteCd \/ PacketsDone
          \/ CloseSocket \/ HolderExits
TheView == TryConnect \/ Connected \/ Hears \/ Disconnected
User == \/ CloseWindow \/ Runs \/ Exits
        \/ \E d \in Dirs : Navigate(d) \/ CdTyped(d)
        \/ \E f \in Foots : Detach(f) \/ CloseFoot(f)
Next == Holder \/ TheView \/ User \/ Ready \/ Finishes \/ Trap \/ \E f \in Foots : Attach(f) \/ SendSize(f) \/ Detached(f)
Spec == Init /\ [][Next]_vars
(* Every process runs; a command need not end, and the user need do nothing. *)
FairSpec == /\ Spec /\ WF_vars(Holder) /\ WF_vars(TheView) /\ WF_vars(Ready) /\ WF_vars(Trap)
            /\ \A f \in Foots : WF_vars(Attach(f) \/ SendSize(f) \/ Detached(f))

-------------------------------------------------------------------------------
(* PROPERTIES                                                              *)

Packets == Dirs \cup {"size"}
Flags == fresh \in BOOLEAN /\ usr1 \in BOOLEAN /\ unmet \in BOOLEAN /\ unheard \in BOOLEAN
TypeOK == /\ at \in {"starts", "bound", "poll", "listen", "master", "client", "packets", "cd", "closing", "ended", "gone"}
          /\ found \subseteq {"listen", "master", "client"} /\ Flags
          /\ client \in Clients \cup {Nobody} /\ last \in Clients \cup {Nobody}
          /\ backlog \in Seq(Clients) /\ todo \in Seq(Packets)
          /\ link \in [Clients -> {"none", "open", "shut", "left", "over"}]
          /\ mail \in [Clients -> Seq(Packets)]
          /\ shell \in {"none", "starting", "prompt", "busy", "exited"}
          /\ here \in Dirs /\ said \in Seq(Dirs) /\ cdfile \in Dirs \cup {"nothing"}
          /\ view \in {"connecting", "running", "over", "closed"} /\ tries \in 0 .. MaxTries
          /\ inbox \in Seq(Dirs) /\ cwd \in Dirs /\ dir \in Dirs
          /\ foot \in [Foots -> {"no", "started", "connected", "attached", "gone"}] /\ moves \in 0 .. MaxMoves

(* The shell is hung up only once the client that took it last has gone,    *)
(* whatever the poll had seen of the one before (PtySession.h:12-14, the    *)
(* read of the new client's connection in the round that accepted it).      *)
TakeoverKeepsShell == at = "closing" /\ shell # "exited" => link[last] = "over"

(* When all is still the browser is where the shell is, whoever moved last  *)
(* and however the two crossed, unless the shell was not there to follow.   *)
AllStill == /\ at = "poll" /\ client = View /\ link[View] = "open" /\ view = "running"
            /\ mail[View] = <<>> /\ said = <<>> /\ inbox = <<>> /\ ~usr1 /\ shell = "prompt"
FollowEachOther == AllStill /\ ~unmet => dir = here

(* "When the client goes and nobody took over, the shell is hung up"        *)
(* (PtySession.h:13-14), unless what the shell printed met the going first, *)
(* or no client ever came.                                                 *)
Deserted == view \in {"over", "closed"} /\ \A f \in Foots : foot[f] \in {"no", "gone"}
GoneIsHungUp == Deserted ~> at = "gone" \/ unheard \/ last = Nobody
=============================================================================
