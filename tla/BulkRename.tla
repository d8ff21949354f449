------------------------------ MODULE BulkRename ------------------------------
(***************************************************************************)
(* MainWindow::renameAll, the two-pass rename behind syn-shell's bulk      *)
(* rename and behind undoing one (MainWindowRename.cpp, MainWindowFiles.cpp). *)
(*                                                                         *)
(* It runs on the UI thread, one rename at a time, in a folder that        *)
(* background jobs and other programs use too: names may be taken and      *)
(* renames refused between any two of its calls.  QDir::rename moves a     *)
(* file to a name only if nothing has that name.                           *)
(***************************************************************************)
EXTENDS Naturals, Sequences

CONSTANTS
  Files,     \* the files that may ever be in the folder
  Names,     \* the names the user sees
  Lists,     \* the lists of pairs the user may ask for
  Base,      \* [Files -> a name, or Nowhere]: the folder at first
  Nowhere,   \* where a file is that has not been made yet
  MaxRuns,   \* bound: calls of renameAll in one behaviour
  MaxFaults, \* bound: renames the system refuses in one behaviour
  FaultAt    \* the passes in which it may

(* The temporary names .syn-rename-PID-i are the places 1, 2, ...          *)
Temps == Nat \ {0}
Places == Names \cup Temps \cup {Nowhere}

PairList == Seq([from : Names, to : Names])

(* finishBulkRename lets no name appear twice, and keeps the pairs that     *)
(* change; what it lists are distinct entries of one folder.                *)
GoodList(ps) == /\ \A i, j \in 1..Len(ps) : i # j => /\ ps[i].from # ps[j].from
                                                     /\ ps[i].to # ps[j].to
                /\ \A i \in 1..Len(ps) : ps[i].from # ps[i].to

ASSUME ListsAssumption == \A ps \in Lists : ps \in PairList /\ Len(ps) > 0 /\ GoodList(ps)
ASSUME BaseAssumption ==
  /\ Base \in [Files -> Names \cup {Nowhere}]
  /\ \A f, g \in Files : Base[f] = Base[g] /\ Base[f] # Nowhere => f = g
ASSUME PlacesAssumption ==
  /\ Nowhere \notin Names \cup Temps
  /\ \A n \in Names : n \notin Temps

Steps == [pairs : PairList, was : [Files -> Places]]

VARIABLES
  loc,     \* [Files -> Places]: where each file is
  pairs,   \* the list renameAll works on
  pc,      \* "idle", or the loop it is in
  i, back, \* the index of that loop, and of the one that unparks
  failed,  \* the failed list of pass two is not empty
  steps,   \* the undo stack's Renamed steps, each with where files were before it
  undoing, \* the call is undo's, of the step it took off
  step,    \* that step
  told,    \* what the last call ended with
  before,  \* loc when the last call began
  torn,    \* what renameAll cannot make good has happened, ever: a rename of
           \* pass two or one that puts back was refused, or a file appeared
  runs, faults

renameVars == <<loc, pairs, pc, i, back, failed, steps, undoing, step, told, before, torn, runs, faults>>

RenameInit == /\ loc = Base
              /\ pairs = <<>> /\ pc = "idle" /\ i = 1 /\ back = 1 /\ failed = FALSE
              /\ steps = <<>> /\ undoing = FALSE /\ step = [pairs |-> <<>>, was |-> Base]
              /\ told = "none" /\ before = Base /\ torn = FALSE
              /\ runs = 0 /\ faults = 0

-------------------------------------------------------------------------------
Taken(p) == \E f \in Files : loc[f] = p

(* QDir::rename: false when nothing is there, when something has the new   *)
(* name, or when the system refuses.                                       *)
CanRename(p, q) == Taken(p) /\ ~Taken(q)
Rename(p, q) == /\ CanRename(p, q)
                /\ loc' = [f \in Files |-> IF loc[f] = p THEN q ELSE loc[f]]
                /\ UNCHANGED faults
RenameFails(p, q, pass) == /\ \/ ~CanRename(p, q) /\ UNCHANGED faults
                              \/ /\ CanRename(p, q)
                                 /\ pass \in FaultAt /\ faults < MaxFaults
                                 /\ faults' = faults + 1
                           /\ UNCHANGED loc

(* The mutated form of Reversed: undo renames the same way again. *)
SameWayAgain(ps) == ps
Reversed(ps) == [k \in 1..Len(ps) |-> [from |-> ps[k].to, to |-> ps[k].from]]

(* The checks before anything is touched: every file is there, every new   *)
(* name is free or about to be.                                            *)
Leaving(ps) == {ps[k].from : k \in 1..Len(ps)}
Allowed(ps) == \A k \in 1..Len(ps) : /\ Taken(ps[k].from)
                                     /\ Taken(ps[k].to) => ps[k].to \in Leaving(ps)

Begin(ps) == /\ pc = "idle" /\ runs < MaxRuns
             /\ runs' = runs + 1
             /\ pairs' = ps /\ i' = 1 /\ back' = 1 /\ failed' = FALSE
             /\ before' = loc
             /\ IF Allowed(ps) THEN pc' = "park" /\ told' = "none"
                               ELSE pc' = "idle" /\ told' = "error"
             /\ UNCHANGED <<loc, faults, torn>>

Ask == /\ \E ps \in Lists : Begin(ps)
       /\ undoing' = FALSE
       /\ UNCHANGED <<steps, step>>

(* Ctrl+Z on a Renamed step: taken off, and put back on an error. *)
Undo == /\ steps # <<>>
        /\ step' = steps[Len(steps)]
        /\ Begin(Reversed(step'.pairs))
        /\ undoing' = TRUE
        /\ steps' = IF pc' = "idle" THEN steps ELSE SubSeq(steps, 1, Len(steps) - 1)

Kept == UNCHANGED <<pairs, step, before, runs>>

(* Pass one: each file to its temporary name. *)
Park == /\ pc = "park"
        /\ i <= Len(pairs)
        /\ Rename(pairs[i].from, i)
        /\ i' = i + 1
        /\ UNCHANGED <<pc, back, failed, told, steps, undoing, torn>> /\ Kept

ParkFails == /\ pc = "park"
             /\ i <= Len(pairs)
             /\ RenameFails(pairs[i].from, i, "park")
             /\ pc' = "unpark"
             /\ UNCHANGED <<i, back, failed, told, steps, undoing, torn>> /\ Kept

(* The mutated form of Unpark: the last one parked is forgotten. *)
UnparkShort == /\ pc = "unpark" /\ back < i
               /\ \/ back + 1 < i /\ Rename(back, pairs[back].from)
                  \/ back + 1 = i /\ UNCHANGED <<loc, faults>>
               /\ back' = back + 1
               /\ UNCHANGED <<pc, i, failed, told, steps, undoing, torn>> /\ Kept

(* What was parked goes back, first to last; nobody looks whether it did. *)
Unpark == /\ pc = "unpark" /\ back < i
          /\ \/ Rename(back, pairs[back].from) /\ UNCHANGED torn
             \/ RenameFails(back, pairs[back].from, "back") /\ torn' = TRUE
          /\ back' = back + 1
          /\ UNCHANGED <<pc, i, failed, told, steps, undoing>> /\ Kept

(* An undo that failed stays on the stack; a rename that failed leaves no  *)
(* step at all.                                                            *)
Return(outcome) ==
  /\ pc' = "idle" /\ told' = outcome
  /\ steps' = IF undoing /\ outcome = "error" THEN Append(steps, step)
              ELSE IF ~undoing /\ outcome = "ok"
                   THEN Append(steps, [pairs |-> pairs, was |-> before])
                   ELSE steps
  /\ UNCHANGED undoing

Unparked == /\ pc = "unpark" /\ back = i
            /\ Return("error")
            /\ UNCHANGED <<loc, i, back, failed, faults, torn>> /\ Kept

Parked == /\ pc = "park" /\ i > Len(pairs)
          /\ pc' = "place" /\ i' = 1
          /\ UNCHANGED <<loc, back, failed, told, steps, undoing, faults, torn>> /\ Kept

(* The mutated form of Place: renameRaw, which replaces what is there. *)
PlaceOver == /\ pc = "place" /\ i <= Len(pairs) /\ Taken(i)
             /\ loc' = [f \in Files |-> IF loc[f] = i THEN pairs[i].to ELSE loc[f]]
             /\ i' = i + 1
             /\ UNCHANGED <<pc, back, failed, told, steps, undoing, faults, torn>> /\ Kept

(* Pass two: each to its new name. *)
Place == /\ pc = "place" /\ i <= Len(pairs)
         /\ Rename(i, pairs[i].to)
         /\ i' = i + 1
         /\ UNCHANGED <<pc, back, failed, told, steps, undoing, torn>> /\ Kept

(* The mutated form of PlaceFails: nothing is added to the failed list. *)
PlaceForgiven == /\ pc = "place" /\ i <= Len(pairs)
                 /\ RenameFails(i, pairs[i].to, "place")
                 /\ pc' = "putback" /\ torn' = TRUE
                 /\ UNCHANGED <<i, back, failed, told, steps, undoing>> /\ Kept

PlaceFails == /\ pc = "place" /\ i <= Len(pairs)
              /\ RenameFails(i, pairs[i].to, "place")
              /\ pc' = "putback" /\ failed' = TRUE /\ torn' = TRUE
              /\ UNCHANGED <<i, back, told, steps, undoing>> /\ Kept

(* "at least back where it was" *)
PutBack == /\ pc = "putback"
           /\ \/ Rename(i, pairs[i].from) /\ UNCHANGED torn
              \/ RenameFails(i, pairs[i].from, "back") /\ torn' = TRUE
           /\ pc' = "place" /\ i' = i + 1
           /\ UNCHANGED <<back, failed, told, steps, undoing>> /\ Kept

Placed == /\ pc = "place" /\ i > Len(pairs)
          /\ Return(IF failed THEN "error" ELSE "ok")
          /\ UNCHANGED <<loc, i, back, failed, faults, torn>> /\ Kept

(* A job or another program makes a file in the folder. *)
Appear == /\ \E f \in Files, n \in Names :
               /\ loc[f] = Nowhere /\ ~Taken(n)
               /\ loc' = [loc EXCEPT ![f] = n]
          /\ torn' = TRUE
          /\ UNCHANGED <<pc, i, back, failed, told, steps, undoing, faults>> /\ Kept

RenameNext == \/ Ask \/ Undo \/ Park \/ ParkFails \/ Unpark \/ Unparked
              \/ Parked \/ Place \/ PlaceFails \/ PutBack \/ Placed \/ Appear

RenameSpec == RenameInit /\ [][RenameNext]_renameVars

-------------------------------------------------------------------------------
(* PROPERTIES                                                              *)

RenameTypeOK == /\ loc \in [Files -> Places] /\ before \in [Files -> Places]
                /\ pairs \in PairList /\ GoodList(pairs)
                /\ pc \in {"idle", "park", "unpark", "place", "putback"}
                /\ i \in Nat \ {0} /\ back \in Nat \ {0}
                /\ failed \in BOOLEAN /\ undoing \in BOOLEAN
                /\ steps \in Seq(Steps) /\ step \in Steps /\ GoodList(step.pairs)
                /\ \A k \in 1..Len(steps) : GoodList(steps[k].pairs)
                /\ told \in {"none", "ok", "error"} /\ torn \in BOOLEAN
                /\ runs \in Nat /\ faults \in Nat

(* No rename, of ours or anybody's, ever puts two files at one place: a    *)
(* file overwritten by a rename would be one of two at its name.           *)
OneFilePerName ==
  \A f, g \in Files : loc[f] = loc[g] /\ loc[f] # Nowhere => f = g

(* When renameAll reports no error, every file of the list, swaps and      *)
(* chains included, is at the new name it was given and no other file has  *)
(* moved; with the list reversed this is what makes undo an undo.          *)
Intended(f) == IF \E k \in 1..Len(pairs) : before[f] = pairs[k].from
               THEN pairs[CHOOSE k \in 1..Len(pairs) : before[f] = pairs[k].from].to
               ELSE before[f]
There(f) == before[f] # Nowhere
RenamedAsAsked ==
  pc = "idle" /\ told = "ok" => \A f \in Files : There(f) => loc[f] = Intended(f)

(* "One Ctrl+Z undoes the lot" (MainWindowRename.cpp:12): when undoing a   *)
(* rename reports no error every file is where it was before that rename,  *)
(* whatever was renamed, undone or refused in pass one in between.         *)
UndoGoesBack ==
  pc = "idle" /\ told = "ok" /\ undoing /\ ~torn =>
    \A f \in Files : step.was[f] # Nowhere => loc[f] = step.was[f]

(* When renameAll reports an error everything is where it was, unless pass  *)
(* two was refused something: "if a rename fails part-way, what was done is *)
(* put back" (MainWindowRename.cpp:11).                                    *)
AllOrNothing ==
  pc = "idle" /\ told = "error" /\ ~torn => \A f \in Files : There(f) => loc[f] = before[f]

===============================================================================
