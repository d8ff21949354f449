--------------------------- MODULE BarTitles_proofs ---------------------------
(***************************************************************************)
(* Proofs about BarTitles, for any number of clients and places, and any    *)
(* windows and titles.                                                     *)
(*                                                                         *)
(* Both properties rest on the table having every watcher once.  That the   *)
(* clean-up closes only watchers that have gone rests on what it knows of   *)
(* the poll: as long as no write came short, nothing has been moved, so the *)
(* places it saw hung up still are.  That everyone has the title rests on   *)
(* how far the broadcast is: whoever stands before its place has it.        *)
(***************************************************************************)
EXTENDS BarTitles, WellFoundedInduction, SequenceTheorems, TLAPS

Types == /\ conn \in [Conns -> {"unborn", "queued", "quit", "live", "left", "closed"}]
         /\ line = [c \in Conns |-> line[c]]
         /\ watcher_fds \in [Slots -> Conns \cup {0}] /\ watcher_count \in 0 .. MAX_WATCHERS
         /\ at \in {"poll", "titles", "client", "clean", "dead", "astray"}
         /\ hung \subseteq Slots /\ i \in Nat /\ short \in BOOLEAN

Places == 1 .. watcher_count
OneEach == /\ \A s \in Places : watcher_fds[s] \in Conns /\ conn[watcher_fds[s]] \in {"live", "left", "closed"}
           /\ \A r, s \in Places : watcher_fds[r] = watcher_fds[s] => r = s

(* Until a write comes short the table has exactly the open watchers, and   *)
(* who was seen hung up has gone and is where it was seen.                 *)
Sound == Up /\ ~short =>
           /\ \A s \in Places : conn[watcher_fds[s]] \in {"live", "left"}
           /\ \A c \in Conns : conn[c] \in {"live", "left"} => \E s \in Places : watcher_fds[s] = c
           /\ \A s \in hung : s \in Places /\ conn[watcher_fds[s]] = "left"

Has(s) == conn[watcher_fds[s]] = "live" => line[watcher_fds[s]] = current_title
Sent == /\ at \in {"poll", "client", "clean"} => i = 0
        /\ \A s \in Places : i = 0 \/ s < i => Has(s)

IInv == Types /\ OneEach /\ Sound /\ Sent

USE DEF Slots, Places, Up

(* A set of places that is not empty has a last one. *)
LEMMA LastIsLast == ASSUME NEW H, H \subseteq Slots, H # {}
                    PROVE  \E s \in H : \A r \in H : r <= s
<1> DEFINE Backwards == {MAX_WATCHERS - s : s \in H}
<1>1. Backwards \subseteq Nat /\ Backwards # {}
  <2>1. \A s \in Slots : MAX_WATCHERS - s \in Nat
    BY BoundsAssumption
  <2>2. PICK s : s \in H
    OBVIOUS
  <2>3. MAX_WATCHERS - s \in Backwards
    BY <2>2
  <2> QED  BY <2>1, <2>3
<1> HIDE DEF Backwards
<1>2. PICK m \in Backwards : \A k \in Backwards : <<k, m>> \notin OpToRel(<, Nat)
  BY <1>1, WFMin, NatLessThanWellFounded, Zenon
<1>3. \A k \in Backwards : ~(k < m)
  BY <1>1, <1>2, Zenon DEF OpToRel
<1>4. PICK s \in H : m = MAX_WATCHERS - s
  BY <1>2 DEF Backwards
<1>5. \A r \in H : MAX_WATCHERS - r \in Backwards
  BY DEF Backwards
<1> QED  BY <1>3, <1>4, <1>5, BoundsAssumption

(* A function changed at one argument. *)
LEMMA Updated == ASSUME NEW S, NEW T, NEW g \in [S -> T], NEW x, NEW v \in T
                 PROVE  /\ [g EXCEPT ![x] = v] \in [S -> T]
                        /\ \A y \in S : [g EXCEPT ![x] = v][y] = IF y = x THEN v ELSE g[y]
  OBVIOUS
LEMMA Rewritten == ASSUME NEW S, NEW g, g = [y \in S |-> g[y]], NEW x \in S, NEW v, NEW h, h = [g EXCEPT ![x] = v]
                   PROVE  h = [y \in S |-> h[y]] /\ \A y \in S : h[y] = IF y = x THEN v ELSE g[y]
  OBVIOUS

(* The daemon starts with no client. *)
LEMMA InitIInv == Init => IInv
<1> SUFFICES ASSUME Init PROVE IInv
  OBVIOUS
<1> USE DEF Init
<1>1. conn \in [Conns -> {"unborn", "queued", "quit", "live", "left", "closed"}]
  OBVIOUS
<1>2. line = [c \in Conns |-> line[c]]
  OBVIOUS
<1>3. watcher_fds \in [Slots -> Conns \cup {0}] /\ watcher_count \in 0 .. MAX_WATCHERS
  BY BoundsAssumption
<1>4. Types
  BY <1>1, <1>2, <1>3 DEF Types
<1>5. Places = {}
  OBVIOUS
<1>6. OneEach /\ Sound /\ Sent
  BY <1>5 DEF OneEach, Sound, Sent
<1> QED  BY <1>4, <1>6 DEF IInv

(* The last watcher takes the place of the one that is dropped. *)
LEMMA Dropped ==
  ASSUME Types, OneEach, watcher_count # 0, NEW s \in Slots, Drop(s)
  PROVE  /\ watcher_fds' \in [Slots -> Conns \cup {0}]
         /\ watcher_count' = watcher_count - 1 /\ watcher_count' \in 0 .. MAX_WATCHERS
         /\ \A r \in Places' : watcher_fds'[r] = IF r = s THEN watcher_fds[watcher_count] ELSE watcher_fds[r]
         /\ \A r \in Places' : watcher_fds'[r] \in Conns
         /\ \A r, t \in Places' : watcher_fds'[r] = watcher_fds'[t] => r = t
<1> USE BoundsAssumption
<1>1. watcher_count \in Slots /\ watcher_fds[watcher_count] \in Conns
  BY DEF Types, OneEach
<1>2. /\ watcher_fds' \in [Slots -> Conns \cup {0}]
      /\ \A r \in Slots : watcher_fds'[r] = IF r = s THEN watcher_fds[watcher_count] ELSE watcher_fds[r]
  BY <1>1 DEF Drop, Types
<1>3. watcher_count' = watcher_count - 1 /\ watcher_count' \in 0 .. MAX_WATCHERS
  BY <1>1 DEF Drop, Types
<1>4. \A r \in Places' : r \in Places /\ r \in Slots /\ r # watcher_count
  BY <1>3 DEF Types
<1>5. watcher_count \in Places
  BY <1>1
<1> HIDE DEF Places, Slots
<1> QED  BY <1>1, <1>2, <1>3, <1>4, <1>5 DEF OneEach

(* Every event, every write, every step of the loop and of the clients      *)
(* keeps the inductive invariant.                                          *)
LEMMA NextIInv == IInv /\ [Next]_vars => IInv'
<1> SUFFICES ASSUME IInv, [Next]_vars PROVE IInv'
  OBVIOUS
<1> USE BoundsAssumption DEF IInv
<1>o. Types /\ OneEach /\ Sound /\ Sent
  OBVIOUS
<1>u. \A s \in Places : s \in Slots
  BY <1>o DEF Types
(* Who is not yet a watcher changes, and who is only from live to left.     *)
<1>a. ASSUME Up, UNCHANGED <<line, table, at, current_title, hung, i, short>>,
             conn' \in [Conns -> {"unborn", "queued", "quit", "live", "left", "closed"}],
             \A c \in Conns : \/ conn'[c] = conn[c]
                              \/ conn[c] = "live" /\ conn'[c] = "left"
                              \/ {conn[c], conn'[c]} \cap {"live", "left", "closed"} = {}
      PROVE  IInv'
  <2> USE <1>a DEF table
  <2>1. Types'
    BY <1>o DEF Types
  <2>2. Places' = Places /\ \A s \in Places : watcher_fds[s] \in Conns
    BY <1>o DEF OneEach
  <2>3. OneEach'
    BY <1>o, <2>2 DEF OneEach
  <2>4. Sound'
    BY <1>o, <2>2 DEF Sound, OneEach
  <2>5. Sent'
    BY <1>o, <2>2 DEF Sent, Has, OneEach
  <2> QED  BY <2>1, <2>3, <2>4, <2>5
(* Nobody comes, goes or is sent anything. *)
<1>b. ASSUME UNCHANGED <<conn, line, table, current_title, short>>, i' = i,
             at' \in {"poll", "titles", "client", "clean", "dead"},
             at' \in {"poll", "client", "clean"} => i = 0,
             at \notin {"dead", "astray"}, hung' \subseteq Slots,
             Up' /\ ~short => \A s \in hung' : s \in Places /\ conn[watcher_fds[s]] = "left"
      PROVE  IInv'
  <2> USE <1>b DEF table
  <2>1. Types'
    BY <1>o DEF Types
  <2>2. OneEach'
    BY <1>o DEF OneEach
  <2>3. Sound'
    BY <1>o DEF Sound
  <2>4. Sent'
    BY <1>o DEF Sent, Has
  <2> QED  BY <2>1, <2>2, <2>3, <2>4
<1>1. CASE Up /\ \E w \in Windows : Focuses(w) \/ Closes(w) \/ \E x \in Titles : Appears(w, x) \/ Retitles(w, x)
  <2>1. UNCHANGED <<titles, clients, table, at, found, i, short>>
    BY <1>1 DEF Focuses, Closes, Appears, Retitles, Sends
  <2> QED  BY <1>o, <1>1, <1>a, <2>1 DEF titles, clients, found, Types
<1>2. ASSUME NEW c \in Conns, Up, Connects(c) PROVE IInv'
  <2>1. UNCHANGED <<line, table, at, current_title, hung, i, short>>
    BY <1>2 DEF Connects, ClientStep, titles, found
  <2>2. conn' = [conn EXCEPT ![c] = "queued"] /\ conn[c] = "unborn"
    BY <1>2 DEF Connects
  <2> QED  BY <1>o, <1>2, <1>a, <2>1, <2>2 DEF Types
<1>3. ASSUME NEW c \in Conns, Up, Leaves(c) PROVE IInv'
  <2>1. UNCHANGED <<line, table, at, current_title, hung, i, short>>
    BY <1>3 DEF Leaves, ClientStep, titles, found
  <2>2. \/ conn' = [conn EXCEPT ![c] = "quit"] /\ conn[c] = "queued"
        \/ conn' = [conn EXCEPT ![c] = "left"] /\ conn[c] = "live"
    BY <1>3 DEF Leaves
  <2> QED  BY <1>o, <1>3, <1>a, <2>1, <2>2 DEF Types
<1>4. ASSUME NEW c \in Conns, Up, Stalls(c) PROVE IInv'
  <2>1. UNCHANGED <<conn, line, table, at, current_title, hung, i, short>>
    BY <1>4 DEF Stalls, ClientStep, titles, found
  <2> QED  BY <1>o, <1>4, <1>a, <2>1 DEF Types
<1>5. CASE Poll
  <2>1. /\ UNCHANGED <<conn, line, table, current_title, short, i>> /\ at = "poll" /\ at' = "titles"
        /\ hung' = {s \in Places : conn[watcher_fds[s]] = "left"}
    BY <1>5 DEF Poll, clients, titles
  <2> QED  BY <1>b, <1>u, <2>1
<1>6. CASE Dispatch
  <2>1. /\ UNCHANGED <<conn, line, table, hung, short>> /\ at = "titles" /\ at' = "titles" /\ i = 0
        /\ i' = 1 \/ (i' = 0 /\ current_title' = current_title)
    BY <1>6 DEF Dispatch, HandleNew, HandleTitle, HandleState, HandleDone, HandleClosed, SetTitle, Keeps, clients
  <2>2. Types' /\ OneEach' /\ Sound'
    BY <1>o, <2>1 DEF Types, OneEach, Sound, table
  <2>3. Sent'
    BY <1>o, <2>1 DEF Types, Sent, Has, table
  <2> QED  BY <2>2, <2>3
<1>7. CASE WriteGoes
  <2> DEFINE c == watcher_fds[i]
  <2>1. /\ UNCHANGED <<conn, table, at, current_title, hung, short>> /\ at = "titles"
        /\ i \in Places /\ i' = i + 1
        /\ line' = [line EXCEPT ![c] = current_title]
    <3>1. i \in Places
      BY <1>o, <1>7 DEF WriteGoes, Broadcasting, Types
    <3> QED  BY <1>7, <3>1 DEF WriteGoes, Broadcasting, BroadcastStep, titles, found
  <2>2. c \in Conns
    BY <1>o, <2>1 DEF OneEach
  <2>3. line' = [d \in Conns |-> line'[d]] /\ \A d \in Conns : line'[d] = IF d = c THEN current_title ELSE line[d]
    BY <1>o, <2>1, <2>2, Rewritten DEF Types
  <2>4. Types' /\ OneEach' /\ Sound'
    BY <1>o, <2>1, <2>3 DEF Types, OneEach, Sound, table
  <2>5. Sent'
    BY <1>o, <2>1, <2>2, <2>3 DEF Types, OneEach, Sent, Has, table
  <2> QED  BY <2>4, <2>5
<1>8. CASE WriteShort
  <2>1. /\ UNCHANGED <<conn, line, at, current_title, hung, i>> /\ at = "titles"
        /\ i \in Places /\ Drop(i) /\ short' = TRUE
    BY <1>o, <1>8 DEF WriteShort, Broadcasting, BroadcastStep, titles, found, Types
  <2>2. /\ watcher_fds' \in [Slots -> Conns \cup {0}]
        /\ watcher_count' = watcher_count - 1 /\ watcher_count' \in 0 .. MAX_WATCHERS
        /\ \A r \in Places' : watcher_fds'[r] = IF r = i THEN watcher_fds[watcher_count] ELSE watcher_fds[r]
        /\ \A r \in Places' : watcher_fds'[r] \in Conns
        /\ \A r, t \in Places' : watcher_fds'[r] = watcher_fds'[t] => r = t
    BY <1>o, <1>u, <2>1, Dropped DEF Types
  <2>3. watcher_count \in Places /\ \A r \in Places' : r \in Places
    BY <1>o, <2>1, <2>2 DEF Types
  <2>4. Types'
    BY <1>o, <2>1, <2>2 DEF Types
  <2>5. OneEach'
    BY <1>o, <2>1, <2>2, <2>3 DEF OneEach
  <2>6. Sound'
    BY <2>1 DEF Sound
  <2>7. Sent'
    BY <1>o, <2>1, <2>2, <2>3 DEF Sent, Has, Types
  <2> QED  BY <2>4, <2>5, <2>6, <2>7
<1>9. CASE WriteKills
  <2>1. UNCHANGED <<conn, line, table, current_title, hung, i, short>> /\ at = "titles" /\ at' = "dead"
    BY <1>9 DEF WriteKills, Broadcasting, BroadcastStep, titles, found
  <2> QED  BY <1>o, <1>b, <2>1 DEF Types
<1>10. CASE Broadcasted
  <2>1. /\ UNCHANGED <<conn, line, table, at, current_title, hung, short>> /\ at = "titles"
        /\ i > watcher_count /\ i' = 0
    BY <1>10 DEF Broadcasted, BroadcastStep, titles, found
  <2>2. Types' /\ OneEach' /\ Sound'
    BY <1>o, <2>1 DEF Types, OneEach, Sound, table
  <2>3. Sent'
    BY <1>o, <2>1 DEF Types, Sent, Has, table
  <2> QED  BY <2>2, <2>3
<1>11. CASE DispatchEnds
  <2>1. /\ UNCHANGED <<conn, line, table, current_title, hung, i, short>> /\ at = "titles" /\ i = 0
        /\ at' \in {"client", "clean"}
    BY <1>11 DEF DispatchEnds, clients, titles, found
  <2> QED  BY <1>o, <1>b, <2>1 DEF Sound, Types
(* A client that is answered or turned away has never been in the table.    *)
<1>12. ASSUME NEW c \in Conns, Replies(c) \/ TurnsAway(c) PROVE IInv'
  <2>1. /\ UNCHANGED <<line, table, current_title, hung, i, short>> /\ at = "client" /\ at' = "clean"
        /\ conn' = [conn EXCEPT ![c] = "closed"] /\ conn[c] \in {"queued", "quit"}
    BY <1>12 DEF Replies, TurnsAway, Serving, Serves, Waiting, titles
  <2>2. /\ conn' \in [Conns -> {"unborn", "queued", "quit", "live", "left", "closed"}]
        /\ \A d \in Conns : conn'[d] = IF d = c THEN "closed" ELSE conn[d]
    BY <1>o, <2>1 DEF Types
  <2>3. Types'
    BY <1>o, <2>1, <2>2 DEF Types, table
  <2>4. OneEach' /\ Sent'
    BY <1>o, <2>1, <2>2 DEF OneEach, Sent, Has, table
  <2>5. Sound'
    BY <1>o, <2>1, <2>2 DEF OneEach, Sound, table
  <2> QED  BY <2>3, <2>4, <2>5
<1>13. ASSUME NEW c \in Conns, Registers(c) PROVE IInv'
  <2> DEFINE last == watcher_count + 1
  <2>1. /\ UNCHANGED <<current_title, hung, i, short>> /\ at = "client" /\ at' = "clean"
        /\ conn' = [conn EXCEPT ![c] = "live"] /\ conn[c] = "queued"
        /\ line' = [line EXCEPT ![c] = current_title]
        /\ watcher_fds' = [watcher_fds EXCEPT ![last] = c] /\ watcher_count' = last
        /\ watcher_count < MAX_WATCHERS
    BY <1>13 DEF Registers, Serving, Serves, titles
  <2>2. /\ conn' \in [Conns -> {"unborn", "queued", "quit", "live", "left", "closed"}]
        /\ \A d \in Conns : conn'[d] = IF d = c THEN "live" ELSE conn[d]
    BY <1>o, <2>1 DEF Types
  <2>3. line' = [d \in Conns |-> line'[d]] /\ \A d \in Conns : line'[d] = IF d = c THEN current_title ELSE line[d]
    BY <1>o, <2>1, Rewritten DEF Types
  <2>4. last \in Slots /\ watcher_count' \in 0 .. MAX_WATCHERS /\ Places' = Places \cup {last} /\ last \notin Places
    BY <1>o, <2>1 DEF Types
  <2>5. /\ watcher_fds' \in [Slots -> Conns \cup {0}]
        /\ \A s \in Slots : watcher_fds'[s] = IF s = last THEN c ELSE watcher_fds[s]
    BY <1>o, <2>1, <2>4 DEF Types
  <2>6. \A s \in Places : watcher_fds[s] # c
    BY <1>o, <2>1 DEF OneEach
  <2>7. Types'
    BY <1>o, <2>1, <2>2, <2>3, <2>4, <2>5 DEF Types
  <2> HIDE DEF Places, Slots, last
  <2>p. \A s \in Places' : \/ s = last /\ watcher_fds'[s] = c
                           \/ s \in Places /\ watcher_fds'[s] = watcher_fds[s] /\ watcher_fds[s] # c
    BY <1>u, <2>4, <2>5, <2>6
  <2>8. OneEach'
    <3>1. ASSUME NEW s \in Places'
          PROVE  watcher_fds'[s] \in Conns /\ conn'[watcher_fds'[s]] \in {"live", "left", "closed"}
      BY <1>o, <2>2, <2>p DEF OneEach
    <3>2. ASSUME NEW r \in Places', NEW s \in Places', watcher_fds'[r] = watcher_fds'[s] PROVE r = s
      BY <1>o, <2>p, <3>2 DEF OneEach
    <3> QED  BY <3>1, <3>2 DEF OneEach
  <2>9. Sound'
    BY <1>o, <1>u, <2>1, <2>2, <2>4, <2>5, <2>6 DEF OneEach, Sound
  <2>10. Sent'
    BY <1>o, <1>u, <2>1, <2>2, <2>3, <2>4, <2>5, <2>6 DEF OneEach, Sent, Has
  <2> QED  BY <2>7, <2>8, <2>9, <2>10
<1>14. ASSUME NEW c \in Conns, AnswerKills(c) PROVE IInv'
  <2>1. UNCHANGED <<conn, line, table, current_title, hung, i, short>> /\ at = "client" /\ at' = "dead"
    BY <1>14 DEF AnswerKills, Serving, clients, titles, found
  <2> QED  BY <1>o, <1>b, <2>1 DEF Types
<1>15. CASE Clean
  <2>1. /\ UNCHANGED <<line, current_title, i, short>> /\ at = "clean" /\ hung # {}
        /\ hung' = hung \ {Last}
        /\ conn' = [conn EXCEPT ![watcher_fds[Last]] = "closed"]
    BY <1>15 DEF Clean, CleanStep, titles
  <2>2. Last \in hung /\ Last \in Slots /\ \A r \in hung : r <= Last
    BY <1>o, <2>1, LastIsLast DEF Last, Types
  <2>3. /\ conn' \in [Conns -> {"unborn", "queued", "quit", "live", "left", "closed"}]
        /\ \A d \in Conns : conn'[d] = IF d = watcher_fds[Last] THEN "closed" ELSE conn[d]
    BY <1>o, <2>1, Updated DEF Types
  <2>4. CASE watcher_count = 0
    <3>1. at' = "astray" /\ UNCHANGED table
      BY <1>15, <2>4 DEF Clean
    <3> QED  BY <1>o, <2>1, <2>3, <2>4, <3>1 DEF Types, OneEach, Sound, Sent, table
  <2>5. CASE watcher_count # 0
    <3>1. Drop(Last) /\ at' = at
      BY <1>15, <2>5 DEF Clean
    <3>2. /\ watcher_fds' \in [Slots -> Conns \cup {0}]
          /\ watcher_count' = watcher_count - 1 /\ watcher_count' \in 0 .. MAX_WATCHERS
          /\ \A r \in Places' : watcher_fds'[r] = IF r = Last THEN watcher_fds[watcher_count] ELSE watcher_fds[r]
          /\ \A r \in Places' : watcher_fds'[r] \in Conns
          /\ \A r, t \in Places' : watcher_fds'[r] = watcher_fds'[t] => r = t
      BY <1>o, <2>2, <2>5, <3>1, Dropped
    <3>3. watcher_count \in Places /\ Places' = Places \ {watcher_count}
      BY <1>o, <2>5, <3>2 DEF Types
    <3>4. Types'
      BY <1>o, <2>1, <2>3, <3>1, <3>2 DEF Types
    <3> HIDE DEF Places, Slots, Last
    <3>p. \A r \in Places' : \E s \in Places : watcher_fds'[r] = watcher_fds[s] /\ (s # Last \/ r = Last)
      BY <3>2, <3>3
    <3>5. OneEach'
      <4>1. ASSUME NEW r \in Places'
            PROVE  watcher_fds'[r] \in Conns /\ conn'[watcher_fds'[r]] \in {"live", "left", "closed"}
        <5>1. PICK s \in Places : watcher_fds'[r] = watcher_fds[s]
          BY <3>p
        <5>2. watcher_fds[s] \in Conns /\ conn[watcher_fds[s]] \in {"live", "left", "closed"}
          BY <1>o DEF OneEach
        <5>3. conn'[watcher_fds[s]] \in {"live", "left", "closed"}
          BY <2>3, <5>2
        <5> QED  BY <5>1, <5>2, <5>3
      <4> QED  BY <3>2, <4>1 DEF OneEach
    <3>6. Sent'
      BY <1>o, <2>1, <2>3, <3>1, <3>2, <3>3 DEF OneEach, Sent, Has
    <3>7. Sound'
      <4> SUFFICES ASSUME Up, ~short
                   PROVE  /\ \A r \in Places' : conn'[watcher_fds'[r]] \in {"live", "left"}
                          /\ \A c \in Conns : conn'[c] \in {"live", "left"} => \E r \in Places' : watcher_fds'[r] = c
                          /\ \A r \in hung' : r \in Places' /\ conn'[watcher_fds'[r]] = "left"
        BY <2>1, <3>1 DEF Sound
      <4>1. Last \in Places /\ \A s \in Places : s # Last => watcher_fds[s] # watcher_fds[Last]
        BY <1>o, <2>2 DEF OneEach, Sound
      <4>2. ASSUME NEW r \in Places' PROVE conn'[watcher_fds'[r]] \in {"live", "left"}
        <5>1. PICK s \in Places : watcher_fds'[r] = watcher_fds[s] /\ s # Last
          BY <3>2, <3>3, <4>1
        <5>2. watcher_fds[s] \in Conns /\ conn[watcher_fds[s]] \in {"live", "left"}
          BY <1>o DEF OneEach, Sound
        <5>3. watcher_fds[s] # watcher_fds[Last]
          BY <4>1, <5>1
        <5>4. conn'[watcher_fds[s]] \in {"live", "left"}
          BY <2>3, <5>2, <5>3
        <5> QED  BY <5>1, <5>4
      <4>3. ASSUME NEW c \in Conns, conn'[c] \in {"live", "left"} PROVE \E r \in Places' : watcher_fds'[r] = c
        <5>1. PICK s \in Places : watcher_fds[s] = c /\ s # Last
          BY <1>o, <2>3, <4>3 DEF Sound
        <5> QED  BY <3>2, <3>3, <4>1, <5>1
      <4>4. ASSUME NEW r \in hung' PROVE r \in Places' /\ conn'[watcher_fds'[r]] = "left"
        <5>1. r \in Places /\ conn[watcher_fds[r]] = "left" /\ r # Last /\ r <= Last
          BY <1>o, <2>1, <2>2 DEF Sound
        <5>2. r # watcher_count
          BY <1>o, <2>2, <4>1, <5>1 DEF Types, Places, Slots
        <5> QED  BY <1>o, <2>3, <3>2, <3>3, <4>1, <5>1, <5>2 DEF OneEach
      <4> QED  BY <4>2, <4>3, <4>4
    <3> QED  BY <3>4, <3>5, <3>6, <3>7
  <2> QED  BY <2>4, <2>5
<1>16. CASE RoundEnds
  <2>1. /\ UNCHANGED <<conn, line, table, current_title, hung, i, short>> /\ at = "clean" /\ at' = "poll"
        /\ hung = {}
    BY <1>16 DEF RoundEnds, CleanStep, titles
  <2> QED  BY <1>o, <1>b, <2>1 DEF Types, Sent
<1>17. CASE UNCHANGED vars
  BY <1>o, <1>17 DEF vars, titles, clients, table, found, Types, OneEach, Sound, Sent, Has
<1> QED
  BY <1>1, <1>2, <1>3, <1>4, <1>5, <1>6, <1>7, <1>8, <1>9, <1>10, <1>11, <1>12, <1>13, <1>14, <1>15, <1>16, <1>17
  DEF Next, Daemon, World

(* Every reachable state satisfies the inductive invariant. *)
THEOREM Invariant == Spec => []IInv
  BY InitIInv, NextIInv, PTL DEF Spec

(* However many clients come, go and stop reading in whatever order, the    *)
(* table holds the open watchers until a write comes short.                *)
THEOREM TableHoldsTheWatchers == Spec => []TableIsWatchers
<1>1. IInv => TableIsWatchers
  BY DEF IInv, OneEach, Sound, TableIsWatchers, Watchers
<1> QED  BY <1>1, Invariant, PTL

(* And always, whoever is in the table when the loop waits has been sent    *)
(* the title there is.                                                     *)
THEOREM TitleReachesAll == Spec => []EveryoneHasTheTitle
<1>1. IInv => EveryoneHasTheTitle
  BY DEF IInv, Sent, Has, EveryoneHasTheTitle, Watchers
<1> QED  BY <1>1, Invariant, PTL

-------------------------------------------------------------------------------
(***************************************************************************)
(* The title shown is that of the focused window once every event has been *)
(* handled.  What it will be is already settled by what the compositor has *)
(* sent: the last that is said of a window's title is its title, the last  *)
(* window activated is the focused one, and a done for it comes after both. *)
(***************************************************************************)

Events == [kind : {"new", "title", "state", "done", "closed"}, window : Windows,
           arg : Titles \cup {NULL} \cup BOOLEAN]
Queued == DOMAIN events
Is(k, what, w) == events[k].kind = what /\ events[k].window = w
Names(k, w) == Is(k, "new", w) \/ Is(k, "title", w)
Activates(k) == events[k].kind = "state" /\ events[k].arg = TRUE

Orderly == /\ events \in Seq(Events) /\ todo \in 0 .. Len(events)
           /\ \A k \in Queued : (events[k].kind = "state" => events[k].arg \in BOOLEAN)
           /\ name \in [Windows -> Titles \cup {Gone}]
           /\ toplevels = [w \in Windows |-> toplevels[w]]
           /\ focus # Nobody => (focus \in Windows /\ name[focus] # Gone)

TitleTold(w) == \/ toplevels[w] = name[w] /\ \A k \in Queued : ~Names(k, w)
                \/ \E k \in Queued : /\ Is(k, "title", w) /\ events[k].arg = name[w]
                                     /\ \A j \in Queued : j > k => ~Names(j, w)
OpenTold == \A w \in Windows : name[w] # Gone => TitleTold(w)
CloseTold == \A w \in Windows : name[w] # Gone => \A k \in Queued : ~Is(k, "closed", w)
FocusTold == focus # Nobody =>
               \/ active = focus /\ \A k \in Queued : ~Activates(k)
               \/ \E k \in Queued : /\ Activates(k) /\ events[k].window = focus
                                    /\ \A j \in Queued : j > k => ~Activates(j)
ShownTold == focus # Nobody =>
               \/ /\ current_title = name[focus] /\ active = focus
                  /\ \A k \in Queued : ~Activates(k) /\ ~Names(k, focus)
               \/ \E k \in Queued : /\ Is(k, "done", focus)
                                    /\ \A j \in Queued : j > k => ~Activates(j) /\ ~Names(j, focus)

Told == <<name, focus, events, toplevels, active, current_title>>
TInv == Orderly /\ OpenTold /\ CloseTold /\ FocusTold /\ ShownTold

(* At first there is nothing to be said.                                   *)
LEMMA InitTInv == Init => TInv
<1> SUFFICES ASSUME Init PROVE TInv
  OBVIOUS
<1> USE DesktopAssumption DEF Init, Queued
<1>1. Queued = {} /\ events \in Seq(Events) /\ Len(events) = 0
  OBVIOUS
<1>2. name \in [Windows -> Titles \cup {Gone}] /\ toplevels = [w \in Windows |-> toplevels[w]]
  OBVIOUS
<1>3. Orderly
  BY <1>1, <1>2 DEF Orderly
<1>4. OpenTold /\ CloseTold /\ FocusTold /\ ShownTold
  BY <1>1 DEF OpenTold, TitleTold, CloseTold, FocusTold, ShownTold
<1> QED  BY <1>3, <1>4 DEF TInv

(* The queue when its first event has been taken from it, and when some    *)
(* have been added.                                                        *)
Shifts == /\ 1 \in Queued
          /\ \A k \in Queued' : k \in Nat /\ k > 0 /\ k + 1 \in Queued /\ events'[k] = events[k + 1]
          /\ \A k \in Queued : k = 1 \/ (k \in Nat /\ k - 1 \in Queued' /\ events'[k - 1] = events[k])
LEMMA Taken ==
  ASSUME events \in Seq(Events), Len(events) > 0, events' = Tail(events)
  PROVE  Shifts /\ Head(events) = events[1] /\ events' \in Seq(Events) /\ Len(events') = Len(events) - 1
  BY DEF Queued, Shifts
Grows(n, m) == /\ n \in Nat /\ m \in Nat /\ Queued = 1 .. n /\ Queued' = 1 .. n + m
               /\ \A k \in Queued : k \in Queued' /\ events'[k] = events[k]
New(k) == k \in Queued' \ Queued
LEMMA Added ==
  ASSUME events \in Seq(Events), NEW es \in Seq(Events), events' = events \o es
  PROVE  \E n, m \in Nat :
           /\ n = Len(events) /\ m = Len(es) /\ Grows(n, m)
           /\ events' \in Seq(Events) /\ Len(events') = n + m
           /\ \A k \in 1 .. m : New(n + k) /\ events'[n + k] = es[k]
           /\ \A k \in Queued' : New(k) => k > n /\ k - n \in 1 .. m /\ events'[k] = es[k - n]
<1>1. /\ Grows(Len(events), Len(es))
      /\ events' \in Seq(Events) /\ Len(events') = Len(events) + Len(es)
      /\ \A k \in 1 .. Len(es) : New(Len(events) + k) /\ events'[Len(events) + k] = es[k]
  BY DEF Queued, Grows, New
<1>2. \A k \in Queued' : New(k) => k > Len(events) /\ k - Len(events) \in 1 .. Len(es)
                                   /\ events'[k] = es[k - Len(events)]
  BY DEF Queued, New
<1>3. Len(events) \in Nat /\ Len(es) \in Nat
  OBVIOUS
<1> QED  BY <1>1, <1>2, <1>3

(* What has been said already is still true when what is added is of        *)
(* something else.                                                         *)
LEMMA TitleKept ==
  ASSUME NEW n, NEW m, Grows(n, m), NEW v \in Windows, TitleTold(v), toplevels' = toplevels, name'[v] = name[v],
         \A k \in Queued' : New(k) => ~Names(k, v)'
  PROVE  TitleTold(v)'
<1> USE DEF Grows, New
<1> HIDE DEF Queued
<1>1. CASE toplevels[v] = name[v] /\ \A k \in Queued : ~Names(k, v)
  <2>1. \A k \in Queued' : ~Names(k, v)'
    BY <1>1 DEF Names, Is
  <2> QED  BY <1>1, <2>1 DEF TitleTold
<1>2. ASSUME NEW k \in Queued, Is(k, "title", v), events[k].arg = name[v], \A j \in Queued : j > k => ~Names(j, v)
      PROVE  TitleTold(v)'
  <2>1. k \in Queued' /\ Is(k, "title", v)' /\ events'[k].arg = name'[v]
    BY <1>2 DEF Is
  <2>2. \A j \in Queued' : j > k => ~Names(j, v)'
    BY <1>2 DEF Names, Is
  <2> QED  BY <2>1, <2>2 DEF TitleTold
<1> QED  BY <1>1, <1>2 DEF TitleTold
LEMMA FocusKept ==
  ASSUME NEW n, NEW m, Grows(n, m), FocusTold, focus' = focus, active' = active,
         \A k \in Queued' : New(k) => ~Activates(k)'
  PROVE  FocusTold'
<1> USE DEF Grows, New
<1> HIDE DEF Queued
<1>1. CASE focus = Nobody
  BY <1>1 DEF FocusTold
<1>2. CASE active = focus /\ \A k \in Queued : ~Activates(k)
  <2>1. \A k \in Queued' : ~Activates(k)'
    BY <1>2 DEF Activates
  <2> QED  BY <1>2, <2>1 DEF FocusTold
<1>3. ASSUME NEW k \in Queued, Activates(k), events[k].window = focus, \A j \in Queued : j > k => ~Activates(j)
      PROVE  FocusTold'
  <2>1. k \in Queued' /\ Activates(k)' /\ events'[k].window = focus'
    BY <1>3 DEF Activates
  <2>2. \A j \in Queued' : j > k => ~Activates(j)'
    BY <1>3 DEF Activates
  <2> QED  BY <2>1, <2>2 DEF FocusTold
<1> QED  BY <1>1, <1>2, <1>3 DEF FocusTold
LEMMA ShownKept ==
  ASSUME NEW n, NEW m, Grows(n, m), ShownTold, focus' = focus, active' = active, current_title' = current_title,
         name'[focus] = name[focus],
         \A k \in Queued' : New(k) => ~Activates(k)' /\ ~Names(k, focus)'
  PROVE  ShownTold'
<1> USE DEF Grows, New
<1> HIDE DEF Queued
<1>1. CASE focus = Nobody
  BY <1>1 DEF ShownTold
<1>2. CASE current_title = name[focus] /\ active = focus /\ \A k \in Queued : ~Activates(k) /\ ~Names(k, focus)
  <2>1. \A k \in Queued' : ~Activates(k)' /\ ~Names(k, focus)'
    BY <1>2 DEF Activates, Names, Is
  <2> QED  BY <1>2, <2>1 DEF ShownTold
<1>3. ASSUME NEW k \in Queued, Is(k, "done", focus), \A j \in Queued : j > k => ~Activates(j) /\ ~Names(j, focus)
      PROVE  ShownTold'
  <2>1. k \in Queued' /\ Is(k, "done", focus)'
    BY <1>3 DEF Is
  <2>2. \A j \in Queued' : j > k => ~Activates(j)' /\ ~Names(j, focus)'
    BY <1>3 DEF Activates, Names, Is
  <2> QED  BY <2>1, <2>2 DEF ShownTold
<1> QED  BY <1>1, <1>2, <1>3 DEF ShownTold

(* Two events, and two more.                                               *)
LEMMA Two == ASSUME NEW a \in Events, NEW b \in Events
             PROVE  <<a, b>> \in Seq(Events) /\ Len(<<a, b>>) = 2 /\ <<a, b>>[1] = a /\ <<a, b>>[2] = b
  OBVIOUS
LEMMA TwoAndTwo == ASSUME NEW a \in Events, NEW b \in Events, NEW c \in Events, NEW d \in Events
                   PROVE  LET s == <<a, b>> \o <<c, d>>
                          IN  /\ s \in Seq(Events) /\ Len(s) = 4
                              /\ s[1] = a /\ s[2] = b /\ s[3] = c /\ s[4] = d
  OBVIOUS

(* What the compositor says of a change of focus.                          *)
Says(es, w) ==
  /\ es \in Seq(Events)
  /\ \A k \in 1 .. Len(es) : /\ es[k].kind \in {"state", "done"}
                             /\ es[k].kind = "state" => es[k].arg \in BOOLEAN
  /\ \E k, d \in 1 .. Len(es) :
       /\ es[k].kind = "state" /\ es[k].arg = TRUE /\ es[k].window = w
       /\ es[d].kind = "done" /\ es[d].window = w
       /\ \A j \in 1 .. Len(es) : j > k \/ j > d => ~(es[j].kind = "state" /\ es[j].arg = TRUE)
LEMMA SaysAt ==
  ASSUME NEW es \in Seq(Events), NEW w, NEW k \in 1 .. Len(es), NEW d \in 1 .. Len(es),
         \A j \in 1 .. Len(es) : es[j].kind \in {"state", "done"} /\ es[j].arg \in BOOLEAN \cup {NULL},
         es[k].kind = "state", es[k].arg = TRUE, es[k].window = w,
         es[d].kind = "done", es[d].window = w,
         \A j \in 1 .. Len(es) : es[j].kind = "state" => es[j].arg \in BOOLEAN /\ (j # k => es[j].arg = FALSE),
         k < d
  PROVE  Says(es, w)
<1>1. \A j \in 1 .. Len(es) : j > k \/ j > d => ~(es[j].kind = "state" /\ es[j].arg = TRUE)
  OBVIOUS
<1> QED  BY <1>1 DEF Says

LEMMA Refocused ==
  ASSUME NEW w \in Windows, focus \in Windows \cup {Nobody},
         NEW es, es = Blur \o State(w, TRUE) \/ es = State(w, TRUE) \o Blur
  PROVE  Says(es, w)
<1> DEFINE On == Ev("state", w, TRUE)
           Off == Ev("state", focus, FALSE)
           OnDone == Done(w)
           OffDone == Done(focus)
<1>1. On \in Events /\ OnDone \in Events /\ (focus # Nobody => Off \in Events /\ OffDone \in Events)
  BY DEF Ev, Done, Events
<1>2. /\ On.kind = "state" /\ On.arg = TRUE /\ On.window = w /\ On.arg \in BOOLEAN
      /\ Off.kind = "state" /\ Off.arg = FALSE /\ Off.arg \in BOOLEAN
      /\ OnDone.kind = "done" /\ OnDone.window = w /\ OnDone.arg = NULL
      /\ OffDone.kind = "done" /\ OffDone.arg = NULL
  BY DEF Ev, Done
<1>3. State(w, TRUE) = <<On, OnDone>> /\ Blur = IF focus = Nobody THEN <<>> ELSE <<Off, OffDone>>
  BY Zenon DEF Blur, State
<1>h. es = Blur \o State(w, TRUE) \/ es = State(w, TRUE) \o Blur
  OBVIOUS
<1> HIDE DEF On, Off, OnDone, OffDone
<1>5. CASE focus = Nobody
  <2>1. es = <<On, OnDone>>
    BY <1>h, <1>1, <1>3, <1>5, Two, ConcatEmptySeq, Zenon
  <2>2. es \in Seq(Events) /\ Len(es) = 2 /\ es[1] = On /\ es[2] = OnDone
    BY <1>1, <2>1, Two, Zenon
  <2>3. \A j \in 1 .. Len(es) : j = 1 \/ j = 2
    BY <2>2
  <2>4. /\ \A j \in 1 .. Len(es) : es[j].kind \in {"state", "done"} /\ es[j].arg \in BOOLEAN \cup {NULL}
        /\ \A j \in 1 .. Len(es) : es[j].kind = "state" => es[j].arg \in BOOLEAN /\ (j # 1 => es[j].arg = FALSE)
    BY <1>2, <2>2, <2>3, Zenon
  <2>5. 1 \in 1 .. Len(es) /\ 2 \in 1 .. Len(es) /\ 1 < 2
    BY <2>2
  <2>6. /\ es[1].kind = "state" /\ es[1].arg = TRUE /\ es[1].window = w
        /\ es[2].kind = "done" /\ es[2].window = w
    BY <1>2, <2>2, Zenon
  <2> QED  BY <2>2, <2>4, <2>5, <2>6, SaysAt, Zenon
<1>6. CASE focus # Nobody /\ es = Blur \o State(w, TRUE)
  <2>1. es = <<Off, OffDone>> \o <<On, OnDone>>
    BY <1>3, <1>6, Zenon
  <2>2. es \in Seq(Events) /\ Len(es) = 4 /\ es[1] = Off /\ es[2] = OffDone /\ es[3] = On /\ es[4] = OnDone
    <3>1. On \in Events /\ OnDone \in Events /\ Off \in Events /\ OffDone \in Events
      BY <1>1, <1>6, Zenon
    <3>2. /\ (<<Off, OffDone>> \o <<On, OnDone>>) \in Seq(Events) /\ Len((<<Off, OffDone>> \o <<On, OnDone>>)) = 4
          /\ (<<Off, OffDone>> \o <<On, OnDone>>)[1] = Off /\ (<<Off, OffDone>> \o <<On, OnDone>>)[2] = OffDone
          /\ (<<Off, OffDone>> \o <<On, OnDone>>)[3] = On /\ (<<Off, OffDone>> \o <<On, OnDone>>)[4] = OnDone
      BY <3>1, TwoAndTwo
    <3> QED  BY <2>1, <3>2, Zenon
  <2>3. \A j \in 1 .. Len(es) : j = 1 \/ j = 2 \/ j = 3 \/ j = 4
    BY <2>2
  <2>4. /\ \A j \in 1 .. Len(es) : es[j].kind \in {"state", "done"} /\ es[j].arg \in BOOLEAN \cup {NULL}
        /\ \A j \in 1 .. Len(es) : es[j].kind = "state" => es[j].arg \in BOOLEAN /\ (j # 3 => es[j].arg = FALSE)
    BY <1>2, <2>2, <2>3, Zenon
  <2>5. 3 \in 1 .. Len(es) /\ 4 \in 1 .. Len(es) /\ 3 < 4
    BY <2>2
  <2>6. /\ es[3].kind = "state" /\ es[3].arg = TRUE /\ es[3].window = w
        /\ es[4].kind = "done" /\ es[4].window = w
    BY <1>2, <2>2, Zenon
  <2> QED  BY <2>2, <2>4, <2>5, <2>6, SaysAt, Zenon
<1>7. CASE focus # Nobody /\ es = State(w, TRUE) \o Blur
  <2>1. es = <<On, OnDone>> \o <<Off, OffDone>>
    BY <1>3, <1>7, Zenon
  <2>2. es \in Seq(Events) /\ Len(es) = 4 /\ es[1] = On /\ es[2] = OnDone /\ es[3] = Off /\ es[4] = OffDone
    <3>1. On \in Events /\ OnDone \in Events /\ Off \in Events /\ OffDone \in Events
      BY <1>1, <1>7, Zenon
    <3>2. /\ (<<On, OnDone>> \o <<Off, OffDone>>) \in Seq(Events) /\ Len((<<On, OnDone>> \o <<Off, OffDone>>)) = 4
          /\ (<<On, OnDone>> \o <<Off, OffDone>>)[1] = On /\ (<<On, OnDone>> \o <<Off, OffDone>>)[2] = OnDone
          /\ (<<On, OnDone>> \o <<Off, OffDone>>)[3] = Off /\ (<<On, OnDone>> \o <<Off, OffDone>>)[4] = OffDone
      BY <3>1, TwoAndTwo
    <3> QED  BY <2>1, <3>2, Zenon
  <2>3. \A j \in 1 .. Len(es) : j = 1 \/ j = 2 \/ j = 3 \/ j = 4
    BY <2>2
  <2>4. /\ \A j \in 1 .. Len(es) : es[j].kind \in {"state", "done"} /\ es[j].arg \in BOOLEAN \cup {NULL}
        /\ \A j \in 1 .. Len(es) : es[j].kind = "state" => es[j].arg \in BOOLEAN /\ (j # 1 => es[j].arg = FALSE)
    BY <1>2, <2>2, <2>3, Zenon
  <2>5. 1 \in 1 .. Len(es) /\ 2 \in 1 .. Len(es) /\ 1 < 2
    BY <2>2
  <2>6. /\ es[1].kind = "state" /\ es[1].arg = TRUE /\ es[1].window = w
        /\ es[2].kind = "done" /\ es[2].window = w
    BY <1>2, <2>2, Zenon
  <2> QED  BY <2>2, <2>4, <2>5, <2>6, SaysAt, Zenon
<1> QED  BY <1>h, <1>5, <1>6, <1>7

(* What it says keeps what is settled true of its windows as they are now.  *)
LEMMA CompositorTInv ==
  ASSUME TInv, NEW w \in Windows,
         Focuses(w) \/ Closes(w) \/ \E x \in Titles : Appears(w, x) \/ Retitles(w, x)
  PROVE  TInv'
<1> USE DesktopAssumption DEF TInv
<1>o. /\ UNCHANGED <<toplevels, active, current_title, todo>>
      /\ events \in Seq(Events) /\ todo \in 0 .. Len(events)
  BY DEF Focuses, Closes, Appears, Retitles, Sends, titles, found, Orderly
<1>1. CASE Focuses(w)
  <2>1. PICK es : /\ es = Blur \o State(w, TRUE) \/ es = State(w, TRUE) \o Blur
                  /\ events' = events \o es
    BY <1>1 DEF Focuses, Sends
  <2>2. name' = name /\ focus' = w /\ name[w] # Gone
    BY <1>1 DEF Focuses
  <2>3. focus \in Windows \cup {Nobody}
    BY DEF Orderly
  <2>a. Says(es, w)
    BY <2>1, <2>3, Refocused
  <2>4. /\ es \in Seq(Events)
        /\ \A k \in 1 .. Len(es) : /\ es[k].kind \in {"state", "done"}
                                   /\ es[k].kind = "state" => es[k].arg \in BOOLEAN
    BY <2>a DEF Says
  <2>5. PICK k \in 1 .. Len(es), d \in 1 .. Len(es) :
              /\ es[k].kind = "state" /\ es[k].arg = TRUE /\ es[k].window = w
              /\ es[d].kind = "done" /\ es[d].window = w
              /\ \A j \in 1 .. Len(es) : j > k \/ j > d => ~(es[j].kind = "state" /\ es[j].arg = TRUE)
    BY <2>a DEF Says
  <2>6. PICK n \in Nat, m \in Nat :
           /\ n = Len(events) /\ m = Len(es) /\ Grows(n, m)
           /\ events' \in Seq(Events) /\ Len(events') = n + m
           /\ \A q \in 1 .. m : New(n + q) /\ events'[n + q] = es[q]
           /\ \A q \in Queued' : New(q) => q > n /\ q - n \in 1 .. m /\ events'[q] = es[q - n]
    BY <1>o, <2>1, <2>4, Added
  <2>7. \A q \in Queued' : New(q) => events'[q].kind \in {"state", "done"}
    BY <2>4, <2>6
  <2> HIDE DEF Queued
  <2>8. Orderly'
    <3>1. Len(events') \in Nat /\ todo' \in 0 .. Len(events')
      BY <1>o, <2>6
    <3>2. \A q \in Queued' : (events'[q].kind = "state" => events'[q].arg \in BOOLEAN)
      <4>1. \A q \in Queued' : New(q) => (events'[q].kind = "state" => events'[q].arg \in BOOLEAN)
        BY <2>4, <2>6
      <4>2. \A q \in Queued : (events'[q].kind = "state" => events'[q].arg \in BOOLEAN)
        BY <2>6 DEF Orderly, Grows
      <4> QED  BY <4>1, <4>2 DEF New
    <3> QED  BY <1>o, <2>2, <2>6, <3>1, <3>2 DEF Orderly
  <2>9. OpenTold'
    <3>1. \A v : \A q \in Queued' : New(q) => ~Names(q, v)'
      BY <2>7 DEF Names, Is
    <3> QED  BY <1>o, <2>2, <2>6, <3>1, TitleKept DEF OpenTold
  <2>10. CloseTold'
    <3>1. \A q \in Queued' : (q \in Queued /\ events'[q] = events[q]) \/ events'[q].kind # "closed"
      BY <2>6, <2>7 DEF Grows, New
    <3> QED  BY <2>2, <3>1 DEF CloseTold, Is
  <2>11. FocusTold'
    <3>1. n + k \in Queued' /\ Activates(n + k)' /\ events'[n + k].window = focus'
      BY <2>2, <2>5, <2>6 DEF Activates, New
    <3>2. \A j \in Queued' : j > n + k => ~Activates(j)'
      <4> SUFFICES ASSUME NEW j \in Queued', j > n + k PROVE ~Activates(j)'
        OBVIOUS
      <4>1. k \in Nat /\ j \in Nat /\ New(j)
        BY <2>6 DEF Grows, New
      <4>2. j - n \in 1 .. Len(es) /\ j - n > k /\ events'[j] = es[j - n]
        BY <2>6, <4>1
      <4> QED  BY <2>5, <4>2 DEF Activates
    <3> QED  BY <3>1, <3>2 DEF FocusTold
  <2>12. ShownTold'
    <3>1. n + d \in Queued' /\ Is(n + d, "done", focus)'
      BY <2>2, <2>5, <2>6 DEF Is, New
    <3>2. \A j \in Queued' : j > n + d => ~Activates(j)' /\ ~Names(j, focus)'
      BY <2>5, <2>6, <2>7 DEF Activates, Grows, New, Names, Is
    <3> QED  BY <3>1, <3>2 DEF ShownTold
  <2> QED  BY <2>8, <2>9, <2>10, <2>11, <2>12
<1>2. ASSUME NEW x \in Titles, Retitles(w, x) PROVE TInv'
  <2> DEFINE told == Ev("title", w, x)
             done == Done(w)
  <2>1. /\ name' = [name EXCEPT ![w] = x] /\ focus' = focus
        /\ events' = events \o <<told, done>>
    BY <1>2 DEF Retitles, Sends
  <2>2. /\ told.kind = "title" /\ told.window = w /\ told.arg = x /\ told \in Events
        /\ done.kind = "done" /\ done.window = w /\ done \in Events
    BY DEF Ev, Done, Events
  <2> HIDE DEF told, done
  <2>3. PICK es : es = <<told, done>>
    OBVIOUS
  <2>a. es \in Seq(Events) /\ Len(es) = 2 /\ es[1] = told /\ es[2] = done
    BY <2>2, <2>3, Two
  <2>b. events' = events \o es
    BY <2>1, <2>3
  <2>4. PICK n \in Nat, m \in Nat :
           /\ n = Len(events) /\ m = 2 /\ Grows(n, m)
           /\ events' \in Seq(Events) /\ Len(events') = n + m
           /\ New(n + 1) /\ events'[n + 1] = told /\ New(n + 2) /\ events'[n + 2] = done
           /\ \A q \in Queued' : New(q) => q = n + 1 \/ q = n + 2
    <3>1. PICK n \in Nat, m \in Nat :
           /\ n = Len(events) /\ m = Len(es) /\ Grows(n, m)
           /\ events' \in Seq(Events) /\ Len(events') = n + m
           /\ \A q \in 1 .. m : New(n + q) /\ events'[n + q] = es[q]
           /\ \A q \in Queued' : New(q) => q > n /\ q - n \in 1 .. m /\ events'[q] = es[q - n]
      BY <1>o, <2>a, <2>b, Added
    <3>2. 1 \in 1 .. m /\ 2 \in 1 .. m
      BY <2>a, <3>1
    <3>3. \A q \in Queued' : New(q) => q = n + 1 \/ q = n + 2
      BY <2>a, <3>1 DEF Grows
    <3> QED  BY <2>a, <3>1, <3>2, <3>3
  <2>5. \A v \in Windows : name'[v] = IF v = w THEN x ELSE name[v]
    BY <2>1 DEF Orderly
  <2> HIDE DEF Queued
  <2>6. \A q \in Queued' : New(q) => /\ events'[q].kind \in {"title", "done"} /\ events'[q].window = w
    BY <2>2, <2>4
  <2>7. Orderly'
    <3>1. todo' \in 0 .. Len(events')
      BY <1>o, <2>4
    <3>2. \A q \in Queued' : (events'[q].kind = "state" => events'[q].arg \in BOOLEAN)
      BY <2>4, <2>6 DEF Orderly, Grows, New
    <3> QED  BY <1>o, <2>1, <2>4, <2>5, <3>1, <3>2 DEF Orderly
  <2>8. OpenTold'
    <3>1. TitleTold(w)'
      <4>1. n + 1 \in Queued' /\ Is(n + 1, "title", w)' /\ events'[n + 1].arg = name'[w]
        BY <2>2, <2>4, <2>5 DEF Is, New
      <4>2. \A j \in Queued' : j > n + 1 => ~Names(j, w)'
        BY <2>2, <2>4 DEF Grows, New, Names, Is
      <4> QED  BY <4>1, <4>2 DEF TitleTold
    <3>2. ASSUME NEW v \in Windows, v # w, name'[v] # Gone PROVE TitleTold(v)'
      <4>1. \A q \in Queued' : New(q) => ~Names(q, v)'
        BY <2>6, <3>2 DEF Names, Is
      <4>2. name'[v] = name[v] /\ TitleTold(v)
        BY <2>5, <3>2 DEF OpenTold
      <4> QED  BY <1>o, <2>4, <4>1, <4>2, TitleKept
    <3> QED  BY <3>1, <3>2 DEF OpenTold
  <2>9. CloseTold'
    <3>1. \A q \in Queued' : (q \in Queued /\ events'[q] = events[q]) \/ events'[q].kind # "closed"
      BY <2>4, <2>6 DEF Grows, New
    <3>2. name[w] # Gone
      BY <1>2 DEF Retitles
    <3> QED  BY <2>5, <3>1, <3>2 DEF CloseTold, Is
  <2>10. FocusTold'
    <3>1. \A q \in Queued' : New(q) => ~Activates(q)'
      BY <2>6 DEF Activates
    <3> QED  BY <1>o, <2>1, <2>4, <3>1, FocusKept
  <2>11. CASE focus = w
    <3>1. n + 2 \in Queued' /\ Is(n + 2, "done", focus)'
      BY <2>1, <2>2, <2>4, <2>11 DEF Is, New
    <3>2. \A j \in Queued' : ~(j > n + 2)
      BY <2>4 DEF Grows
    <3>3. ShownTold'
      BY <3>1, <3>2 DEF ShownTold
    <3> QED  BY <2>7, <2>8, <2>9, <2>10, <3>3
  <2>12. CASE focus # w
    <3>1. \A q \in Queued' : New(q) => ~Activates(q)' /\ ~Names(q, focus)'
      BY <2>1, <2>6, <2>12 DEF Activates, Names, Is
    <3>2. focus = Nobody \/ name'[focus] = name[focus]
      BY <2>5, <2>12 DEF Orderly
    <3>3. ShownTold'
      BY <1>o, <2>1, <2>4, <3>1, <3>2, ShownKept DEF ShownTold
    <3> QED  BY <2>7, <2>8, <2>9, <2>10, <3>3
  <2> QED  BY <2>11, <2>12
<1>3. ASSUME NEW x \in Titles, Appears(w, x) PROVE TInv'
  <2> DEFINE told == Ev("title", w, x)
             came == Ev("new", w, NULL)
             done == Done(w)
  <2>1. /\ name' = [name EXCEPT ![w] = x] /\ focus' = focus /\ name[w] = Gone
        /\ events' = events \o (<<came, told>> \o <<done>>)
        /\ \A q \in Queued : events[q].window # w
    BY <1>3 DEF Appears, Sends, Queued
  <2>2. /\ told.kind = "title" /\ told.window = w /\ told.arg = x /\ told \in Events
        /\ came.kind = "new" /\ came.window = w /\ came \in Events
        /\ done.kind = "done" /\ done.window = w /\ done \in Events
    BY DEF Ev, Done, Events
  <2> HIDE DEF told, came, done
  <2>3. PICK es : es = <<came, told>> \o <<done>>
    OBVIOUS
  <2>a. es \in Seq(Events) /\ Len(es) = 3 /\ es[1] = came /\ es[2] = told /\ es[3] = done
    BY <2>2, <2>3
  <2>b. events' = events \o es
    BY <2>1, <2>3
  <2>4. PICK n \in Nat, m \in Nat :
           /\ n = Len(events) /\ m = 3 /\ Grows(n, m)
           /\ events' \in Seq(Events) /\ Len(events') = n + m
           /\ New(n + 1) /\ events'[n + 1] = came /\ New(n + 2) /\ events'[n + 2] = told
           /\ New(n + 3) /\ events'[n + 3] = done
           /\ \A q \in Queued' : New(q) => q = n + 1 \/ q = n + 2 \/ q = n + 3
    <3>1. PICK n \in Nat, m \in Nat :
           /\ n = Len(events) /\ m = Len(es) /\ Grows(n, m)
           /\ events' \in Seq(Events) /\ Len(events') = n + m
           /\ \A q \in 1 .. m : New(n + q) /\ events'[n + q] = es[q]
           /\ \A q \in Queued' : New(q) => q > n /\ q - n \in 1 .. m /\ events'[q] = es[q - n]
      BY <1>o, <2>a, <2>b, Added
    <3>2. 1 \in 1 .. m /\ 2 \in 1 .. m /\ 3 \in 1 .. m
      BY <2>a, <3>1
    <3>3. \A q \in Queued' : New(q) => q = n + 1 \/ q = n + 2 \/ q = n + 3
      BY <2>a, <3>1 DEF Grows
    <3> QED  BY <2>a, <3>1, <3>2, <3>3
  <2>5. \A v \in Windows : name'[v] = IF v = w THEN x ELSE name[v]
    BY <2>1 DEF Orderly
  <2> HIDE DEF Queued
  <2>6. \A q \in Queued' : New(q) => /\ events'[q].kind \in {"new", "title", "done"} /\ events'[q].window = w
    BY <2>2, <2>4
  <2>7. Orderly'
    <3>1. todo' \in 0 .. Len(events')
      BY <1>o, <2>4
    <3>2. \A q \in Queued' : (events'[q].kind = "state" => events'[q].arg \in BOOLEAN)
      BY <2>4, <2>6 DEF Orderly, Grows, New
    <3> QED  BY <1>o, <2>1, <2>4, <2>5, <3>1, <3>2 DEF Orderly
  <2>8. OpenTold'
    <3>1. TitleTold(w)'
      <4>1. n + 2 \in Queued' /\ Is(n + 2, "title", w)' /\ events'[n + 2].arg = name'[w]
        BY <2>2, <2>4, <2>5 DEF Is, New
      <4>2. \A j \in Queued' : j > n + 2 => ~Names(j, w)'
        BY <2>2, <2>4 DEF Grows, New, Names, Is
      <4> QED  BY <4>1, <4>2 DEF TitleTold
    <3>2. ASSUME NEW v \in Windows, v # w, name'[v] # Gone PROVE TitleTold(v)'
      <4>1. \A q \in Queued' : New(q) => ~Names(q, v)'
        BY <2>6, <3>2 DEF Names, Is
      <4>2. name'[v] = name[v] /\ TitleTold(v)
        BY <2>5, <3>2 DEF OpenTold
      <4> QED  BY <1>o, <2>4, <4>1, <4>2, TitleKept
    <3> QED  BY <3>1, <3>2 DEF OpenTold
  <2>9. CloseTold'
    <3>1. \A q \in Queued' : (q \in Queued /\ events'[q] = events[q]) \/ events'[q].kind # "closed"
      BY <2>4, <2>6 DEF Grows, New
    <3> QED  BY <2>1, <2>5, <3>1 DEF CloseTold, Is
  <2>10. FocusTold'
    <3>1. \A q \in Queued' : New(q) => ~Activates(q)'
      BY <2>6 DEF Activates
    <3> QED  BY <1>o, <2>1, <2>4, <3>1, FocusKept
  <2>11. ShownTold'
    <3>1. focus # w
      BY <2>1 DEF Orderly
    <3>2. \A q \in Queued' : New(q) => ~Activates(q)' /\ ~Names(q, focus)'
      BY <2>1, <2>6, <3>1 DEF Activates, Names, Is
    <3>3. focus = Nobody \/ name'[focus] = name[focus]
      BY <2>5, <3>1 DEF Orderly
    <3> QED  BY <1>o, <2>1, <2>4, <3>2, <3>3, ShownKept DEF ShownTold
  <2> QED  BY <2>7, <2>8, <2>9, <2>10, <2>11
<1>4. CASE Closes(w)
  <2> DEFINE gone == Ev("closed", w, NULL)
  <2>1. /\ name' = [name EXCEPT ![w] = Gone] /\ focus' = IF focus = w THEN Nobody ELSE focus
        /\ events' = events \o <<gone>>
    BY <1>4 DEF Closes, Sends
  <2>2. gone.kind = "closed" /\ gone.window = w /\ gone \in Events
    BY DEF Ev, Events
  <2> HIDE DEF gone
  <2>3. PICK es : es = <<gone>>
    OBVIOUS
  <2>a. es \in Seq(Events) /\ Len(es) = 1 /\ es[1] = gone
    BY <2>2, <2>3
  <2>b. events' = events \o es
    BY <2>1, <2>3
  <2>4. PICK n \in Nat, m \in Nat :
           /\ n = Len(events) /\ m = Len(es) /\ Grows(n, m)
           /\ events' \in Seq(Events) /\ Len(events') = n + m
           /\ \A q \in 1 .. m : New(n + q) /\ events'[n + q] = es[q]
           /\ \A q \in Queued' : New(q) => q > n /\ q - n \in 1 .. m /\ events'[q] = es[q - n]
    BY <1>o, <2>a, <2>b, Added
  <2>5. \A v \in Windows : name'[v] = IF v = w THEN Gone ELSE name[v]
    BY <2>1 DEF Orderly
  <2> HIDE DEF Queued
  <2>6. \A q \in Queued' : New(q) => events'[q].kind = "closed" /\ events'[q].window = w
    BY <2>2, <2>a, <2>4
  <2>7. Orderly'
    <3>1. todo' \in 0 .. Len(events')
      BY <1>o, <2>4
    <3>2. \A q \in Queued' : (events'[q].kind = "state" => events'[q].arg \in BOOLEAN)
      BY <2>4, <2>6 DEF Orderly, Grows, New
    <3> QED  BY <1>o, <2>1, <2>4, <2>5, <3>1, <3>2 DEF Orderly
  <2>8. OpenTold'
    <3>1. ASSUME NEW v \in Windows, v # w, name'[v] # Gone PROVE TitleTold(v)'
      <4>1. \A q \in Queued' : New(q) => ~Names(q, v)'
        BY <2>6 DEF Names, Is
      <4>2. name'[v] = name[v] /\ TitleTold(v)
        BY <2>5, <3>1 DEF OpenTold
      <4> QED  BY <1>o, <2>4, <4>1, <4>2, TitleKept
    <3> QED  BY <2>5, <3>1 DEF OpenTold
  <2>9. CloseTold'
    <3>1. \A q \in Queued' : (q \in Queued /\ events'[q] = events[q]) \/ events'[q].window = w
      BY <2>4, <2>6 DEF Grows, New
    <3> QED  BY <2>5, <3>1 DEF CloseTold, Is
  <2>10. CASE focus = w
    BY <2>1, <2>7, <2>8, <2>9, <2>10 DEF FocusTold, ShownTold
  <2>11. CASE focus # w
    <3>1. \A q \in Queued' : New(q) => ~Activates(q)' /\ ~Names(q, focus)'
      BY <2>6 DEF Activates, Names, Is
    <3>2. FocusTold'
      BY <1>o, <2>1, <2>4, <2>11, <3>1, FocusKept
    <3>3. focus = Nobody \/ name'[focus] = name[focus]
      BY <2>5, <2>11 DEF Orderly
    <3>4. ShownTold'
      BY <1>o, <2>1, <2>4, <2>11, <3>1, <3>3, ShownKept DEF ShownTold
    <3> QED  BY <2>7, <2>8, <2>9, <3>2, <3>4
  <2> QED  BY <2>10, <2>11
<1> QED  BY <1>1, <1>2, <1>3, <1>4

(* What is settled stays so when the first event is handled.               *)
LEMMA TitleTaken ==
  ASSUME Shifts, NEW v \in Windows, TitleTold(v), name' = name,
         Is(1, "title", v) => toplevels'[v] = events[1].arg,
         ~Names(1, v) => toplevels'[v] = toplevels[v]
  PROVE  TitleTold(v)'
<1>t. /\ 1 \in Queued
      /\ \A k \in Queued' : k \in Nat /\ k > 0 /\ k + 1 \in Queued /\ events'[k] = events[k + 1]
      /\ \A k \in Queued : k = 1 \/ (k \in Nat /\ k - 1 \in Queued' /\ events'[k - 1] = events[k])
  BY DEF Shifts
<1>1. CASE toplevels[v] = name[v] /\ \A k \in Queued : ~Names(k, v)
  <2>1. \A k \in Queued' : ~Names(k, v)'
    BY <1>t, <1>1 DEF Names, Is
  <2> QED  BY <1>t, <1>1, <2>1 DEF TitleTold
<1>2. CASE /\ Is(1, "title", v) /\ events[1].arg = name[v] /\ \A j \in Queued : j > 1 => ~Names(j, v)
  <2>1. \A k \in Queued' : ~Names(k, v)'
    BY <1>t, <1>2 DEF Names, Is
  <2> QED  BY <1>2, <2>1 DEF TitleTold
<1>3. ASSUME NEW k \in Queued, k # 1, Is(k, "title", v), events[k].arg = name[v],
             \A j \in Queued : j > k => ~Names(j, v)
      PROVE  TitleTold(v)'
  <2>1. k - 1 \in Queued' /\ Is(k - 1, "title", v)' /\ events'[k - 1].arg = name'[v]
    BY <1>t, <1>3 DEF Is
  <2>2. \A j \in Queued' : j > k - 1 => ~Names(j, v)'
    <3> SUFFICES ASSUME NEW j \in Queued', j > k - 1 PROVE ~Names(j, v)'
      OBVIOUS
    <3>1. j + 1 \in Queued /\ j + 1 > k /\ events'[j] = events[j + 1]
      BY <1>t
    <3> QED  BY <1>3, <3>1 DEF Names, Is
  <2> QED  BY <2>1, <2>2 DEF TitleTold
<1> QED  BY <1>1, <1>2, <1>3 DEF TitleTold
LEMMA FocusTaken ==
  ASSUME Shifts, FocusTold, focus' = focus,
         Activates(1) => active' = events[1].window,
         ~Activates(1) /\ focus # Nobody /\ active = focus => active' = active
  PROVE  FocusTold'
<1>t. /\ 1 \in Queued
      /\ \A k \in Queued' : k \in Nat /\ k > 0 /\ k + 1 \in Queued /\ events'[k] = events[k + 1]
      /\ \A k \in Queued : k = 1 \/ (k \in Nat /\ k - 1 \in Queued' /\ events'[k - 1] = events[k])
  BY DEF Shifts
<1>1. CASE focus = Nobody
  BY <1>1 DEF FocusTold
<1>2. CASE focus # Nobody /\ active = focus /\ \A k \in Queued : ~Activates(k)
  <2>1. \A k \in Queued' : ~Activates(k)'
    BY <1>t, <1>2 DEF Activates
  <2> QED  BY <1>t, <1>2, <2>1 DEF FocusTold
<1>3. CASE Activates(1) /\ events[1].window = focus /\ \A j \in Queued : j > 1 => ~Activates(j)
  <2>1. \A k \in Queued' : ~Activates(k)'
    BY <1>t, <1>3 DEF Activates
  <2> QED  BY <1>3, <2>1 DEF FocusTold
<1>4. ASSUME NEW k \in Queued, k # 1, Activates(k), events[k].window = focus,
             \A j \in Queued : j > k => ~Activates(j)
      PROVE  FocusTold'
  <2>1. k - 1 \in Queued' /\ Activates(k - 1)' /\ events'[k - 1].window = focus'
    BY <1>t, <1>4 DEF Activates
  <2>2. \A j \in Queued' : j > k - 1 => ~Activates(j)'
    <3> SUFFICES ASSUME NEW j \in Queued', j > k - 1 PROVE ~Activates(j)'
      OBVIOUS
    <3>1. j + 1 \in Queued /\ j + 1 > k /\ events'[j] = events[j + 1]
      BY <1>t
    <3> QED  BY <1>4, <3>1 DEF Activates
  <2> QED  BY <2>1, <2>2 DEF FocusTold
<1> QED  BY <1>1, <1>2, <1>3, <1>4 DEF FocusTold
LEMMA ShownTaken ==
  ASSUME Shifts, TInv, name' = name, focus' = focus,
         FocusTold',
         focus # Nobody /\ active = focus =>
           current_title' = IF Is(1, "done", focus) THEN toplevels[focus] ELSE current_title
  PROVE  ShownTold'
<1>t. /\ 1 \in Queued
      /\ \A k \in Queued' : k \in Nat /\ k > 0 /\ k + 1 \in Queued /\ events'[k] = events[k + 1]
      /\ \A k \in Queued : k = 1 \/ (k \in Nat /\ k - 1 \in Queued' /\ events'[k - 1] = events[k])
  BY DEF Shifts
<1>1. CASE focus = Nobody
  BY <1>1 DEF ShownTold
<1>2. ASSUME focus # Nobody, active = focus, \A k \in Queued : ~Activates(k) /\ ~Names(k, focus),
             current_title = name[focus] \/ Is(1, "done", focus)
      PROVE  ShownTold'
  <2>1. \A k \in Queued' : ~Activates(k)' /\ ~Names(k, focus)'
    BY <1>t, <1>2 DEF Activates, Names, Is
  <2>2. focus \in Windows /\ name[focus] # Gone
    BY <1>2 DEF TInv, Orderly
  <2>3. toplevels[focus] = name[focus]
    BY <1>2, <2>2 DEF TInv, OpenTold, TitleTold, Names
  <2>4. current_title' = name'[focus]
    BY <1>2, <2>3
  <2>5. active' = focus
    BY <1>2, <2>1 DEF FocusTold
  <2> QED  BY <2>1, <2>4, <2>5 DEF ShownTold
<1>3. ASSUME focus # Nobody, Is(1, "done", focus), \A j \in Queued : j > 1 => ~Activates(j) /\ ~Names(j, focus)
      PROVE  ShownTold'
  <2>1. \A k \in Queued : ~Activates(k) /\ ~Names(k, focus)
    BY <1>t, <1>3 DEF Activates, Names, Is
  <2>2. active = focus
    BY <1>3, <2>1 DEF TInv, FocusTold
  <2> QED  BY <1>2, <1>3, <2>1, <2>2
<1>4. ASSUME NEW k \in Queued, k # 1, Is(k, "done", focus),
             \A j \in Queued : j > k => ~Activates(j) /\ ~Names(j, focus)
      PROVE  ShownTold'
  <2>1. k - 1 \in Queued' /\ Is(k - 1, "done", focus)'
    BY <1>t, <1>4 DEF Is
  <2>2. \A j \in Queued' : j > k - 1 => ~Activates(j)' /\ ~Names(j, focus)'
    <3> SUFFICES ASSUME NEW j \in Queued', j > k - 1 PROVE ~Activates(j)' /\ ~Names(j, focus)'
      OBVIOUS
    <3>1. j + 1 \in Queued /\ j + 1 > k /\ events'[j] = events[j + 1]
      BY <1>t
    <3> QED  BY <1>4, <3>1 DEF Activates, Names, Is
  <2> QED  BY <2>1, <2>2 DEF ShownTold
<1> QED  BY <1>1, <1>2, <1>3, <1>4 DEF ShownTold, TInv

(* Handling an event.                                                      *)
LEMMA DispatchTInv == TInv /\ Dispatch => TInv'
<1> SUFFICES ASSUME TInv, Dispatch PROVE TInv'
  OBVIOUS
<1> USE DesktopAssumption
<1> DEFINE e == events[1]
<1>1. /\ events \in Seq(Events) /\ Len(events) > 0 /\ events' = Tail(events) /\ Head(events) = e
      /\ name' = name /\ focus' = focus /\ todo' = todo - 1 /\ todo' \in 0 .. Len(events')
      /\ Shifts
  BY Taken DEF Dispatch, compositor, TInv, Orderly
<1>2. HandleNew(e) \/ HandleTitle(e) \/ HandleState(e) \/ HandleDone(e) \/ HandleClosed(e)
  BY <1>1 DEF Dispatch
<1>3. e \in Events /\ 1 \in Queued /\ (e.kind = "state" => e.arg \in BOOLEAN)
  BY <1>1 DEF Queued, TInv, Orderly
<1>4. /\ e.window \in Windows
      /\ \A v \in Windows : e.kind = "closed" /\ name[v] # Gone => e.window # v
  BY <1>3 DEF Events, TInv, CloseTold, Is
<1>w. focus # Nobody => focus \in Windows /\ name[focus] # Gone
  BY DEF TInv, Orderly
<1> HIDE DEF Queued
<1>5. /\ toplevels' = [v \in Windows |-> toplevels'[v]]
      /\ \A v \in Windows : e.kind = "title" /\ e.window = v => toplevels'[v] = e.arg
      /\ \A v \in Windows : name[v] # Gone /\ ~Names(1, v) => toplevels'[v] = toplevels[v]
  <2>1. toplevels = [v \in Windows |-> toplevels[v]]
    BY DEF TInv, Orderly
  <2>2. PICK x : \/ e.kind \in {"new", "title", "closed"} /\ toplevels' = [toplevels EXCEPT ![e.window] = x]
                    /\ (e.kind = "title" => x = e.arg)
                 \/ e.kind \in {"state", "done"} /\ toplevels' = toplevels
    BY <1>2 DEF HandleNew, HandleTitle, HandleState, HandleDone, HandleClosed
  <2>3. CASE toplevels' = toplevels /\ e.kind \in {"state", "done"}
    BY <2>1, <2>3
  <2>4. CASE e.kind \in {"new", "title", "closed"} /\ toplevels' = [toplevels EXCEPT ![e.window] = x]
             /\ (e.kind = "title" => x = e.arg)
    <3>1. /\ toplevels' = [v \in Windows |-> toplevels'[v]]
          /\ \A v \in Windows : toplevels'[v] = IF v = e.window THEN x ELSE toplevels[v]
      BY <1>4, <2>1, <2>4, Rewritten
    <3> QED  BY <1>4, <2>4, <3>1 DEF Names, Is
  <2> QED  BY <2>2, <2>3, <2>4
<1>6. /\ Activates(1) => active' = e.window
      /\ ~Activates(1) /\ focus # Nobody /\ active = focus => active' = active
  BY <1>2, <1>3, <1>4, <1>w DEF HandleNew, HandleTitle, HandleState, HandleDone, HandleClosed, Activates
<1>7. focus # Nobody /\ active = focus =>
        current_title' = IF Is(1, "done", focus) THEN toplevels[focus] ELSE current_title
  BY <1>2, <1>3, <1>4, <1>w
  DEF HandleNew, HandleTitle, HandleState, HandleDone, HandleClosed, Is, Keeps, SetTitle
<1>8. Orderly'
  <2>1. events' \in Seq(Events) /\ \A k \in Queued' : k + 1 \in Queued /\ events'[k] = events[k + 1]
    BY <1>1, Taken DEF Shifts
  <2>2. \A k \in Queued' : (events'[k].kind = "state" => events'[k].arg \in BOOLEAN)
    BY <2>1 DEF TInv, Orderly
  <2> QED  BY <1>1, <1>5, <2>1, <2>2 DEF TInv, Orderly
<1>9. OpenTold'
  <2> SUFFICES ASSUME NEW v \in Windows, name[v] # Gone PROVE TitleTold(v)'
    BY <1>1 DEF OpenTold
  <2>1. TitleTold(v)
    BY DEF TInv, OpenTold
  <2>2. Is(1, "title", v) => toplevels'[v] = e.arg
    BY <1>5 DEF Is
  <2> QED  BY <1>1, <1>5, <2>1, <2>2, TitleTaken
<1>10. CloseTold'
  <2>1. \A k \in Queued' : k + 1 \in Queued /\ events'[k] = events[k + 1]
    BY <1>1 DEF Shifts
  <2> QED  BY <1>1, <2>1 DEF TInv, CloseTold, Is
<1>11. FocusTold'
  BY <1>1, <1>6, FocusTaken DEF TInv
<1>12. ShownTold'
  BY <1>1, <1>7, <1>11, ShownTaken
<1> QED  BY <1>8, <1>9, <1>10, <1>11, <1>12 DEF TInv

(* Nothing else changes what has been said, or what is done of it.          *)
LEMMA NextTInv == TInv /\ [Next]_vars => TInv'
<1> SUFFICES ASSUME TInv, [Next]_vars PROVE TInv'
  OBVIOUS
<1>a. ASSUME Told' = Told, todo' \in 0 .. Len(events') PROVE TInv'
  <2>1. UNCHANGED <<name, focus, events, toplevels, active, current_title>>
    BY <1>a DEF Told
  <2>2. Orderly'
    BY <1>a, <2>1 DEF TInv, Orderly, Queued
  <2>3. OpenTold' /\ CloseTold'
    BY <2>1 DEF TInv, OpenTold, CloseTold, TitleTold, Names, Is, Queued
  <2>4. FocusTold' /\ ShownTold'
    BY <2>1 DEF TInv, FocusTold, ShownTold, Activates, Names, Is, Queued
  <2> QED  BY <2>2, <2>3, <2>4 DEF TInv
<1>b. Len(events) \in Nat /\ todo \in 0 .. Len(events)
  BY DEF TInv, Orderly
<1>1. CASE Dispatch
  BY <1>1, DispatchTInv
<1>2. ASSUME NEW w \in Windows, Focuses(w) \/ Closes(w) \/ \E x \in Titles : Appears(w, x) \/ Retitles(w, x)
      PROVE  TInv'
  BY <1>2, CompositorTInv
<1>3. CASE Poll
  <2>1. Told' = Told /\ todo' = Len(events')
    BY <1>3 DEF Poll, compositor, titles, Told
  <2> QED  BY <1>a, <1>b, <2>1 DEF Told
<1>4. CASE \/ WriteGoes \/ WriteShort \/ WriteKills \/ Broadcasted \/ DispatchEnds
           \/ \E c \in Conns : Replies(c) \/ TurnsAway(c) \/ Registers(c) \/ AnswerKills(c)
           \/ Clean \/ RoundEnds
           \/ \E c \in Conns : Connects(c) \/ Leaves(c) \/ Stalls(c)
           \/ UNCHANGED vars
  <2>1. Told' = Told /\ todo' = todo
    BY <1>4 DEF WriteGoes, WriteShort, WriteKills, Broadcasted, BroadcastStep, DispatchEnds, Replies, TurnsAway,
                Registers, AnswerKills, Serves, Clean, RoundEnds, CleanStep, Connects, Leaves, Stalls, ClientStep,
                compositor, titles, found, vars, Told
  <2> QED  BY <1>a, <1>b, <2>1 DEF Told
<1> QED
  BY <1>1, <1>2, <1>3, <1>4 DEF Next, Daemon, World

(* When every event has been handled the title shown is the focused         *)
(* window's, whatever windows came, went, were renamed and focused, and in  *)
(* whichever order a change of focus was told.                              *)
THEOREM TitleIsTheFocused == Spec => []TitleOfTheFocused
<1>1. TInv => TitleOfTheFocused
  BY DEF TInv, ShownTold, TitleOfTheFocused, Queued
<1> QED  BY <1>1, InitTInv, NextTInv, PTL DEF Spec
===============================================================================
