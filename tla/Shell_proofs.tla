----------------------------- MODULE Shell_proofs -----------------------------
(***************************************************************************)
(* Proofs about two parts of syn-shell: BulkRename, for any folder, any    *)
(* lists of pairs, any number of calls and any refused renames, and        *)
(* ShellPty, for any number of foot windows, folders and moves.            *)
(***************************************************************************)
EXTENDS BulkRename, ShellPty, SequenceTheorems, TLAPS

(***************************************************************************)
(* BulkRename.  The inductive invariant follows each file of the list: in  *)
(* pass one the files before the index are under their temporary names and *)
(* the others at home; in pass two, as long as nothing has failed, those   *)
(* before the index are at their new names and the others still parked.  A *)
(* file that is not in the list does not move.                             *)
(***************************************************************************)

Listed(f, k) == before[f] = pairs[k].from
Unlisted(f) == \A k \in 1..Len(pairs) : ~Listed(f, k)

Present == \A f \in Files : before[f] # Nowhere => loc[f] # Nowhere

AllListed == pc # "idle" => \A k \in 1..Len(pairs) : \E f \in Files : Listed(f, k)

(* Where the files that were there at the start are, as the call goes on.  *)
InPark(f) ==
  /\ \A k \in 1..Len(pairs) : Listed(f, k) => loc[f] = IF k < i THEN k ELSE pairs[k].from
  /\ Unlisted(f) => loc[f] = before[f]
InPlace(f) ==
  /\ \A k \in 1..Len(pairs) : Listed(f, k) => loc[f] = IF k < i THEN pairs[k].to ELSE k
  /\ Unlisted(f) => loc[f] = before[f]
Renamed(f) ==
  /\ \A k \in 1..Len(pairs) : Listed(f, k) => loc[f] = pairs[k].to
  /\ Unlisted(f) => loc[f] = before[f]

Track ==
  /\ pc = "park" => \A f \in Files : There(f) => InPark(f)
  /\ pc = "place" /\ ~failed => \A f \in Files : There(f) => InPlace(f)
  /\ pc = "idle" /\ told = "ok" => \A f \in Files : There(f) => Renamed(f)
  /\ pc # "idle" => told = "none"
  /\ pc \in {"park", "unpark"} => ~failed
  /\ pc \in {"unpark", "putback"} => i \in 1..Len(pairs)
  /\ pc = "park" => back = 1
  /\ pc = "unpark" => back <= i
  /\ pc = "putback" => failed

RenameIInv == RenameTypeOK /\ OneFilePerName /\ Present /\ AllListed /\ Track

-------------------------------------------------------------------------------
(* The list undo hands to renameAll is as good as the one it came from.    *)
LEMMA ReversedIsGood ==
  ASSUME NEW ps \in PairList, GoodList(ps)
  PROVE  Reversed(ps) \in PairList /\ GoodList(Reversed(ps))
<1> DEFINE P == [from : Names, to : Names]
<1>0. ps \in Seq(P)
  BY DEF PairList
<1>1. Len(ps) \in Nat /\ \A k \in 1..Len(ps) : ps[k] \in P
  <2> HIDE DEF P
  <2> QED  BY <1>0, LenProperties, ElementOfSeq
<1>2. \A k \in 1..Len(ps) : [from |-> ps[k].to, to |-> ps[k].from] \in P
  BY <1>1
<1>3. Reversed(ps) \in [1..Len(ps) -> P]
  BY <1>2 DEF Reversed
<1>4. Reversed(ps) \in Seq(P)
  <2> HIDE DEF P
  <2> QED  BY <1>1, <1>3, SeqDef, Zenon
<1>5. Len(Reversed(ps)) = Len(ps)
  <2> HIDE DEF P
  <2>1. DOMAIN Reversed(ps) = 1..Len(ps)
    BY DEF Reversed
  <2> QED  BY <1>1, <1>4, <2>1, LenProperties
<1>6. \A k \in 1..Len(ps) : /\ Reversed(ps)[k].from = ps[k].to
                            /\ Reversed(ps)[k].to = ps[k].from
  BY DEF Reversed
<1> QED  BY <1>4, <1>5, <1>6 DEF GoodList, PairList

(* A pair's names are places, and never temporary ones.                    *)
LEMMA PairNames ==
  ASSUME NEW ps \in PairList, NEW k \in 1..Len(ps)
  PROVE  /\ ps[k].from \in Names /\ ps[k].to \in Names
         /\ ps[k].from \notin Temps \cup {Nowhere}
         /\ ps[k].to \notin Temps \cup {Nowhere}
<1> DEFINE P == [from : Names, to : Names]
<1>1. ps[k] \in P
  <2>1. ps \in Seq(P)
    BY DEF PairList
  <2> HIDE DEF P
  <2> QED  BY <2>1, ElementOfSeq
<1> QED  BY <1>1, PlacesAssumption

(* What one successful rename does: the one file at the old place moves,   *)
(* and two files still never share a place.                                *)
LEMMA RenameMovesOne ==
  ASSUME RenameIInv, NEW p \in Places, NEW q \in Places,
         p # Nowhere, q # Nowhere, Rename(p, q)
  PROVE  /\ loc' \in [Files -> Places]
         /\ OneFilePerName'
         /\ \A f \in Files : loc[f] # p => loc'[f] = loc[f]
         /\ \A f \in Files : loc[f] = p => loc'[f] = q
         /\ before' = before => Present'
         /\ faults' = faults
<1>1. loc \in [Files -> Places] /\ OneFilePerName /\ Present
  BY DEF RenameIInv, RenameTypeOK
<1> QED  BY <1>1 DEF OneFilePerName, Rename, CanRename, Taken, Present

(* A refused one changes nothing but the count of faults.                  *)
LEMMA RenameFailsKeeps ==
  ASSUME RenameIInv, NEW p, NEW q, NEW pass, RenameFails(p, q, pass)
  PROVE  loc' = loc /\ faults' \in Nat
BY DEF RenameIInv, RenameTypeOK, RenameFails

(* A call begins with every file of its list at home.                      *)
LEMMA BeginKeeps ==
  ASSUME RenameIInv, NEW ps \in PairList, GoodList(ps), Begin(ps),
         steps' \in Seq(Steps), \A k \in 1..Len(steps') : GoodList(steps'[k].pairs),
         step' \in Steps, GoodList(step'.pairs), undoing' \in BOOLEAN
  PROVE  RenameIInv'
<1> USE DEF Begin, RenameIInv
<1>1. RenameTypeOK'
  <2>1. GoodList(pairs') /\ GoodList(step'.pairs)
    OBVIOUS
  <2> HIDE DEF Begin
  <2>2. /\ loc' = loc /\ before' = loc /\ pairs' = ps /\ pc' \in {"park", "idle"}
        /\ i' = 1 /\ back' = 1 /\ failed' = FALSE /\ told' \in {"none", "error"}
        /\ runs' = runs + 1 /\ faults' = faults /\ torn' = torn
    BY DEF Begin
  <2>3. loc \in [Files -> Places] /\ runs' \in Nat /\ faults \in Nat
    BY <2>2 DEF RenameTypeOK
  <2>4. pairs' \in PairList
    BY <2>2
  <2>5. failed' \in BOOLEAN /\ torn' \in BOOLEAN
    BY <2>2, Zenon DEF RenameTypeOK
  <2> HIDE DEF RenameIInv
  <2> QED  BY <2>1, <2>2, <2>3, <2>4, <2>5 DEF RenameTypeOK
<1>2. OneFilePerName' /\ Present'
  BY DEF OneFilePerName, Present
<1>3. AllListed'
  BY DEF AllListed, Listed, Allowed, Taken
<1>4. Track'
  <2>1. \A f \in Files : pc' = "park" => InPark(f)'
    BY DEF InPark, Listed, Unlisted
  <2> QED  BY <2>1 DEF Track
<1> QED  BY <1>1, <1>2, <1>3, <1>4

(* What renameAll's return does to the undo stack leaves good lists on it. *)
LEMMA ReturnKeepsSteps ==
  ASSUME RenameTypeOK, NEW outcome, Return(outcome)
  PROVE  /\ steps' \in Seq(Steps)
         /\ \A k \in 1..Len(steps') : GoodList(steps'[k].pairs)
<1>1. ASSUME NEW s \in Steps, GoodList(s.pairs)
      PROVE  /\ Append(steps, s) \in Seq(Steps)
             /\ \A k \in 1..Len(Append(steps, s)) : GoodList(Append(steps, s)[k].pairs)
  BY <1>1, AppendProperties DEF RenameTypeOK
<1>2. [pairs |-> pairs, was |-> before] \in Steps
  BY DEF RenameTypeOK, Steps
<1> QED  BY <1>1, <1>2 DEF Return, RenameTypeOK

-------------------------------------------------------------------------------
(* The folder as it is at first satisfies the inductive invariant. *)
LEMMA RenameStarts == RenameInit => RenameIInv
<1> SUFFICES ASSUME RenameInit PROVE RenameIInv
  OBVIOUS
<1> USE DEF RenameInit
<1>1. <<>> \in PairList /\ GoodList(<<>>) /\ <<>> \in Seq(Steps)
  BY DEF PairList, GoodList
<1>2. Base \in [Files -> Places]
  BY BaseAssumption DEF Places
<1>3. RenameTypeOK
  <2>1. step \in Steps /\ step.pairs = <<>>
    BY <1>1, <1>2 DEF Steps
  <2>2. GoodList(pairs) /\ GoodList(step.pairs) /\ pairs \in PairList
    BY <1>1, <2>1
  <2>3. \A k \in 1..Len(steps) : GoodList(steps[k].pairs)
    OBVIOUS
  <2>4. failed \in BOOLEAN /\ undoing \in BOOLEAN /\ torn \in BOOLEAN
    BY Zenon
  <2> QED  BY <1>1, <1>2, <2>1, <2>2, <2>3, <2>4 DEF RenameTypeOK
<1>4. OneFilePerName
  BY BaseAssumption DEF OneFilePerName
<1> QED  BY <1>3, <1>4 DEF RenameIInv, Present, AllListed, Track

(* Every call of QDir::rename, refused or not, every end of a pass and      *)
(* every file that appears preserves it.                                   *)
LEMMA RenameKeeps == RenameIInv /\ [RenameNext]_renameVars => RenameIInv'
<1> SUFFICES ASSUME RenameIInv, [RenameNext]_renameVars PROVE RenameIInv'
  OBVIOUS
<1>t. RenameTypeOK /\ OneFilePerName /\ Present /\ AllListed /\ Track
  BY DEF RenameIInv
<1>s. /\ Len(pairs) \in Nat
      /\ \A k \in 1..Len(pairs) : k \in Temps /\ k \in Places /\ k # Nowhere
                                  /\ pairs[k].from \in Places /\ pairs[k].to \in Places
      /\ \A k \in 1..Len(pairs) : pairs[k].from \notin Temps \cup {Nowhere}
                                  /\ pairs[k].to \notin Temps \cup {Nowhere}
  <2>1. pairs \in PairList /\ Len(pairs) \in Nat
    BY <1>t, LenProperties DEF RenameTypeOK, PairList
  <2>2. \A k \in 1..Len(pairs) :
          /\ pairs[k].from \in Names /\ pairs[k].to \in Names
          /\ pairs[k].from \notin Temps \cup {Nowhere}
          /\ pairs[k].to \notin Temps \cup {Nowhere}
    BY <2>1, PairNames
  <2>3. \A k \in 1..Len(pairs) : k \in Temps /\ k # Nowhere
    BY <2>1, PlacesAssumption DEF Temps
  <2> QED  BY <2>1, <2>2, <2>3 DEF Places
<1>1. CASE Ask
  <2>1. PICK ps \in Lists : Begin(ps)
    BY <1>1 DEF Ask
  <2>2. ps \in PairList /\ GoodList(ps)
    BY ListsAssumption
  <2> QED  BY <1>1, <1>t, <2>1, <2>2, BeginKeeps DEF Ask, RenameTypeOK
<1>2. CASE Undo
  <2>1. Len(steps) \in 1..Len(steps) /\ steps[Len(steps)] \in Steps
    BY <1>2, <1>t DEF Undo, RenameTypeOK
  <2>2. step' \in Steps /\ GoodList(step'.pairs) /\ step'.pairs \in PairList
    BY <1>2, <1>t, <2>1 DEF Undo, RenameTypeOK, Steps
  <2>3. Reversed(step'.pairs) \in PairList /\ GoodList(Reversed(step'.pairs))
    BY <2>2, ReversedIsGood
  <2>4. /\ steps' \in Seq(Steps)
        /\ \A k \in 1..Len(steps') : GoodList(steps'[k].pairs)
    BY <1>2, <1>t, <2>1 DEF Undo, RenameTypeOK
  <2> QED  BY <1>2, <2>2, <2>3, <2>4, BeginKeeps DEF Undo
<1>3. CASE Park
  <2>1. i \in 1..Len(pairs)
    BY <1>3, <1>t, <1>s DEF Park, RenameTypeOK
  <2>2. /\ loc' \in [Files -> Places] /\ OneFilePerName' /\ Present' /\ faults' = faults
        /\ \A f \in Files : loc[f] # pairs[i].from => loc'[f] = loc[f]
        /\ \A f \in Files : loc[f] = pairs[i].from => loc'[f] = i
    BY <1>3, <1>s, <2>1, RenameMovesOne DEF Park, Kept
  <2>3. RenameTypeOK'
    BY <1>3, <1>t, <2>2 DEF Park, Kept, RenameTypeOK
  <2>4. ASSUME NEW f \in Files, There(f) PROVE InPark(f)'
    <3>1. InPark(f)
      BY <1>3, <1>t, <2>4 DEF Park, Track
    <3>2. \A k \in 1..Len(pairs) : k # i => pairs[k].from # pairs[i].from
      BY <1>t, <2>1 DEF RenameTypeOK, GoodList
    <3>3. ASSUME NEW k \in 1..Len(pairs), Listed(f, k)
          PROVE  loc'[f] = IF k < i + 1 THEN k ELSE pairs[k].from
      BY <1>s, <1>t, <2>1, <2>2, <3>1, <3>2, <3>3 DEF InPark, RenameTypeOK
    <3>4. Unlisted(f) => loc'[f] = before[f]
      BY <2>1, <2>2, <3>1 DEF InPark, Unlisted, Listed
    <3> QED  BY <1>3, <3>3, <3>4 DEF Park, Kept, InPark, Listed, Unlisted
  <2>5. Track'
    BY <1>3, <1>t, <2>4 DEF Park, Kept, Track, There
  <2>6. AllListed'
    BY <1>3, <1>t DEF Park, Kept, AllListed, Listed
  <2> QED  BY <2>2, <2>3, <2>5, <2>6 DEF RenameIInv
<1>4. CASE ParkFails
  <2>1. loc' = loc /\ faults' \in Nat
    BY <1>4, RenameFailsKeeps DEF ParkFails
  <2>2. i \in 1..Len(pairs)
    BY <1>4, <1>t, <1>s DEF ParkFails, RenameTypeOK
  <2>3. RenameTypeOK' /\ OneFilePerName' /\ Present'
    BY <1>4, <1>t, <2>1 DEF ParkFails, Kept, RenameTypeOK, OneFilePerName, Present
  <2>4. AllListed' /\ Track'
    BY <1>4, <1>t, <2>1, <2>2 DEF ParkFails, Kept, AllListed, Listed, Track, RenameTypeOK
  <2> QED  BY <2>3, <2>4 DEF RenameIInv
<1>5. CASE Unpark
  <2>1. i \in 1..Len(pairs) /\ back \in 1..Len(pairs)
    BY <1>5, <1>t, <1>s DEF Unpark, RenameTypeOK, Track
  <2>2. loc' \in [Files -> Places] /\ OneFilePerName' /\ Present' /\ faults' \in Nat
    <3>1. before' = before
      BY <1>5 DEF Unpark, Kept
    <3>2. CASE Rename(back, pairs[back].from)
      BY <3>1, <3>2, <1>s, <1>t, <2>1, RenameMovesOne DEF RenameTypeOK
    <3>3. CASE RenameFails(back, pairs[back].from, "back")
      BY <3>1, <3>3, <1>t, RenameFailsKeeps DEF RenameTypeOK, OneFilePerName, Present
    <3> QED  BY <1>5, <3>2, <3>3 DEF Unpark
  <2>3. torn' \in BOOLEAN
    BY <1>5, <1>t, Zenon DEF Unpark, RenameTypeOK
  <2>4. /\ back' = back + 1 /\ UNCHANGED <<pc, i, failed, told, steps, undoing>> /\ Kept /\ pc = "unpark" /\ back < i
    BY <1>5 DEF Unpark
  <2>5. RenameTypeOK' /\ AllListed' /\ Track'
    BY <1>t, <2>1, <2>2, <2>3, <2>4 DEF Kept, RenameTypeOK, AllListed, Listed, Track
  <2> QED  BY <2>2, <2>5 DEF RenameIInv
<1>6. CASE Unparked
  <2>1. /\ steps' \in Seq(Steps)
        /\ \A k \in 1..Len(steps') : GoodList(steps'[k].pairs)
    BY <1>6, <1>t, ReturnKeepsSteps DEF Unparked
  <2>2. RenameTypeOK'
    BY <1>6, <1>t, <2>1 DEF Unparked, Return, Kept, RenameTypeOK
  <2>3. OneFilePerName' /\ Present' /\ AllListed' /\ Track'
    BY <1>6, <1>t DEF Unparked, Return, Kept, OneFilePerName, Present, AllListed, Track
  <2> QED  BY <2>2, <2>3 DEF RenameIInv
<1>7. CASE Parked
  <2>1. RenameTypeOK' /\ OneFilePerName' /\ Present' /\ AllListed'
    BY <1>7, <1>t DEF Parked, Kept, RenameTypeOK, OneFilePerName, Present, AllListed, Listed
  <2>2. ASSUME NEW f \in Files, There(f) PROVE InPlace(f)'
    <3>1. InPark(f) /\ i > Len(pairs)
      BY <1>7, <1>t, <2>2 DEF Parked, Track
    <3> QED  BY <1>7, <1>s, <1>t, <3>1
             DEF Parked, Kept, InPark, InPlace, Listed, Unlisted, RenameTypeOK
  <2>3. Track'
    BY <1>7, <1>t, <2>2 DEF Parked, Kept, Track, There
  <2> QED  BY <2>1, <2>3 DEF RenameIInv
<1>8. CASE Place
  <2>1. i \in 1..Len(pairs)
    BY <1>8, <1>t, <1>s DEF Place, RenameTypeOK
  <2>2. /\ loc' \in [Files -> Places] /\ OneFilePerName' /\ Present' /\ faults' = faults
        /\ \A f \in Files : loc[f] # i => loc'[f] = loc[f]
        /\ \A f \in Files : loc[f] = i => loc'[f] = pairs[i].to
    BY <1>8, <1>s, <2>1, RenameMovesOne DEF Place, Kept
  <2>3. RenameTypeOK'
    BY <1>8, <1>t, <2>2 DEF Place, Kept, RenameTypeOK
  <2>4. ASSUME NEW f \in Files, There(f), ~failed PROVE InPlace(f)'
    <3>1. \A g \in Files : There(g) => InPlace(g)
      BY <1>8, <1>t, <2>4 DEF Place, Track
    <3>2. PICK g \in Files : Listed(g, i)
      BY <1>8, <1>t, <2>1 DEF Place, AllListed
    <3>3. There(g) /\ loc[g] = i
      BY <1>s, <2>1, <3>1, <3>2 DEF There, InPlace, Listed, RenameTypeOK
    <3>4. ASSUME NEW k \in 1..Len(pairs), Listed(f, k)
          PROVE  loc'[f] = IF k < i + 1 THEN pairs[k].to ELSE k
      BY <1>s, <1>t, <2>1, <2>2, <2>4, <3>1, <3>4 DEF InPlace, RenameTypeOK
    <3>5. ASSUME Unlisted(f) PROVE loc'[f] = before[f]
      <4>1. loc[f] # i
        BY <1>t, <2>1, <3>2, <3>3, <3>5, PlacesAssumption
           DEF OneFilePerName, Unlisted, Temps
      <4> QED  BY <2>2, <2>4, <3>1, <3>5, <4>1 DEF InPlace
    <3> QED  BY <1>8, <3>4, <3>5 DEF Place, Kept, InPlace, Listed, Unlisted
  <2>5. Track'
    BY <1>8, <1>t, <2>4 DEF Place, Kept, Track, There
  <2>6. AllListed'
    BY <1>8, <1>t DEF Place, Kept, AllListed, Listed
  <2> QED  BY <2>2, <2>3, <2>5, <2>6 DEF RenameIInv
<1>9. CASE PlaceFails
  <2>1. loc' = loc /\ faults' \in Nat
    BY <1>9, RenameFailsKeeps DEF PlaceFails
  <2>2. i \in 1..Len(pairs)
    BY <1>9, <1>t, <1>s DEF PlaceFails, RenameTypeOK
  <2>3. RenameTypeOK' /\ OneFilePerName' /\ Present'
    BY <1>9, <1>t, <2>1 DEF PlaceFails, Kept, RenameTypeOK, OneFilePerName, Present
  <2>4. AllListed' /\ Track'
    BY <1>9, <1>t, <2>1, <2>2 DEF PlaceFails, Kept, AllListed, Listed, Track
  <2> QED  BY <2>3, <2>4 DEF RenameIInv
<1>10. CASE PutBack
  <2>1. i \in 1..Len(pairs)
    BY <1>10, <1>t DEF PutBack, Track
  <2>2. loc' \in [Files -> Places] /\ OneFilePerName' /\ Present' /\ faults' \in Nat
    <3>1. before' = before
      BY <1>10 DEF PutBack, Kept
    <3>2. CASE Rename(i, pairs[i].from)
      BY <3>1, <3>2, <1>s, <1>t, <2>1, RenameMovesOne DEF RenameTypeOK
    <3>3. CASE RenameFails(i, pairs[i].from, "back")
      BY <3>1, <3>3, <1>t, RenameFailsKeeps DEF RenameTypeOK, OneFilePerName, Present
    <3> QED  BY <1>10, <3>2, <3>3 DEF PutBack
  <2>3. torn' \in BOOLEAN
    BY <1>10, <1>t, Zenon DEF PutBack, RenameTypeOK
  <2>4. /\ pc' = "place" /\ i' = i + 1 /\ UNCHANGED <<back, failed, told, steps, undoing>> /\ Kept /\ pc = "putback"
    BY <1>10 DEF PutBack
  <2>5. RenameTypeOK' /\ AllListed' /\ Track'
    BY <1>t, <2>1, <2>2, <2>3, <2>4 DEF Kept, RenameTypeOK, AllListed, Listed, Track
  <2> QED  BY <2>2, <2>5 DEF RenameIInv
<1>11. CASE Placed
  <2>1. /\ steps' \in Seq(Steps)
        /\ \A k \in 1..Len(steps') : GoodList(steps'[k].pairs)
    BY <1>11, <1>t, ReturnKeepsSteps DEF Placed
  <2>2. RenameTypeOK'
    BY <1>11, <1>t, <2>1 DEF Placed, Return, Kept, RenameTypeOK
  <2>3. ASSUME NEW f \in Files, There(f), ~failed PROVE Renamed(f)'
    <3>1. InPlace(f) /\ i > Len(pairs)
      BY <1>11, <1>t, <2>3 DEF Placed, Track
    <3> QED  BY <1>11, <1>s, <1>t, <3>1
             DEF Placed, Return, Kept, InPlace, Renamed, Listed, Unlisted, RenameTypeOK
  <2>4. Track'
    BY <1>11, <1>t, <2>3 DEF Placed, Return, Kept, Track, There
  <2>5. OneFilePerName' /\ Present' /\ AllListed'
    BY <1>11, <1>t DEF Placed, Return, Kept, OneFilePerName, Present, AllListed
  <2> QED  BY <2>2, <2>4, <2>5 DEF RenameIInv
<1>12. CASE Appear
  <2>1. PICK f \in Files, n \in Names :
          loc[f] = Nowhere /\ ~Taken(n) /\ loc' = [loc EXCEPT ![f] = n]
    BY <1>12 DEF Appear
  <2>2. n # Nowhere /\ n \in Places
    BY PlacesAssumption DEF Places
  <2>3. ~There(f)
    BY <1>t, <2>1 DEF Present, There
  <2>4. RenameTypeOK' /\ AllListed'
    BY <1>12, <1>t, <2>1, <2>2 DEF Appear, Kept, RenameTypeOK, AllListed, Listed
  <2>5. OneFilePerName' /\ Present'
    BY <1>12, <1>t, <2>1, <2>2, <2>3
       DEF Appear, Kept, RenameTypeOK, OneFilePerName, Present, Taken, There
  <2>6. \A g \in Files : There(g) => loc'[g] = loc[g]
    BY <1>t, <2>1, <2>3 DEF RenameTypeOK
  <2>7. Track'
    BY <1>12, <1>t, <2>6
       DEF Appear, Kept, Track, InPark, InPlace, Renamed, Listed, Unlisted, There
  <2> QED  BY <2>4, <2>5, <2>7 DEF RenameIInv
<1>13. CASE UNCHANGED renameVars
  BY <1>13 DEF renameVars, RenameIInv, RenameTypeOK, OneFilePerName, Present, AllListed, Track, There,
               InPark, InPlace, Renamed, Listed, Unlisted
<1> QED
  BY <1>1, <1>2, <1>3, <1>4, <1>5, <1>6, <1>7, <1>8, <1>9, <1>10, <1>11, <1>12,
     <1>13 DEF RenameNext

-------------------------------------------------------------------------------
(* Every reachable state satisfies the inductive invariant. *)
THEOREM RenameInvariant == RenameSpec => []RenameIInv
  BY RenameStarts, RenameKeeps, PTL DEF RenameSpec

(* No rename puts a file where another one is, whatever fails and whatever *)
(* appears between two of renameAll's calls.                               *)
THEOREM NothingOverwritten == RenameSpec => []OneFilePerName
<1>1. RenameIInv => OneFilePerName
  BY DEF RenameIInv
<1> QED  BY <1>1, RenameInvariant, PTL

(* No error means every file of the list has its new name and no other     *)
(* file has moved, for swaps, chains and cycles of any length.             *)
THEOREM SuccessIsComplete == RenameSpec => []RenamedAsAsked
<1>1. ASSUME RenameIInv PROVE RenamedAsAsked
  <2> SUFFICES ASSUME pc = "idle", told = "ok", NEW f \in Files, There(f)
               PROVE  loc[f] = Intended(f)
    BY DEF RenamedAsAsked
  <2>1. Renamed(f)
    BY <1>1 DEF RenameIInv, Track
  <2>2. CASE Unlisted(f)
    BY <2>1, <2>2 DEF Renamed, Unlisted, Listed, Intended
  <2>3. CASE ~Unlisted(f)
    <3> DEFINE k == CHOOSE k \in 1..Len(pairs) : before[f] = pairs[k].from
    <3>1. k \in 1..Len(pairs) /\ before[f] = pairs[k].from
      BY <2>3 DEF Unlisted, Listed
    <3>2. Intended(f) = pairs[k].to
      BY <3>1 DEF Intended
    <3> QED  BY <2>1, <3>1, <3>2 DEF Renamed, Listed
  <2> QED  BY <2>2, <2>3
<1> QED  BY <1>1, RenameInvariant, PTL

-------------------------------------------------------------------------------
(***************************************************************************)
(* What an error and an undo promise needs the history too: until renameAll *)
(* was refused what it cannot make good, each step on the undo stack leads *)
(* from where files were before it to where the next one began, and the    *)
(* last to where they are now.                                             *)
(***************************************************************************)

(* Two files were not at one place before the call either. *)
OneFileBefore == \A f, g \in Files : before[f] = before[g] /\ before[f] # Nowhere => f = g

(* A step's list names files that were there, and took them to w.          *)
Named(s) == \A k \in 1..Len(s.pairs) : \E f \in Files : s.was[f] = s.pairs[k].from
TakenTo(s, w) ==
  \A f \in Files : s.was[f] # Nowhere =>
    /\ \A k \in 1..Len(s.pairs) : s.was[f] = s.pairs[k].from => w[f] = s.pairs[k].to
    /\ (\A k \in 1..Len(s.pairs) : s.was[f] # s.pairs[k].from) => w[f] = s.was[f]

(* The undo stack leads to w: each step to where the next one began.       *)
LeadsTo(w) ==
  \A k \in 1..Len(steps) : TakenTo(steps[k], IF k = Len(steps) THEN w ELSE steps[k + 1].was)

(* What was parked goes back, first to last. *)
InUnpark(f) ==
  /\ \A k \in 1..Len(pairs) : Listed(f, k) => loc[f] = IF back <= k /\ k < i THEN k ELSE pairs[k].from
  /\ Unlisted(f) => loc[f] = before[f]

Stack ==
  /\ OneFileBefore
  /\ \A k \in 1..Len(steps) : Named(steps[k])
  /\ pc # "idle" /\ undoing => pairs = Reversed(step.pairs) /\ Named(step)
  /\ pc # "idle" /\ failed => torn

Good ==
  /\ pc = "idle" => LeadsTo(loc)
  /\ pc # "idle" /\ ~undoing => LeadsTo(before)
  /\ pc # "idle" /\ undoing => LeadsTo(step.was) /\ TakenTo(step, before)
  /\ pc = "unpark" => \A f \in Files : There(f) => InUnpark(f)

HInv == Stack /\ (~torn => Good /\ AllOrNothing /\ UndoGoesBack)

-------------------------------------------------------------------------------
(* A step at a time off or onto the end of a list of steps. *)
LEMMA LeadsToTop ==
  ASSUME RenameTypeOK, NEW w, LeadsTo(w), steps # <<>>
  PROVE  TakenTo(steps[Len(steps)], w)
<1>1. Len(steps) \in 1..Len(steps)
  BY DEF RenameTypeOK
<1> QED  BY <1>1 DEF LeadsTo

(* A call in progress touches neither the stack nor where it began. *)
LEMMA CallGoesOn ==
  ASSUME HInv, pc # "idle", pc' # "idle",
         UNCHANGED <<steps, step, undoing, pairs, before>>,
         torn => torn', failed' => torn' \/ failed,
         ~torn' => (pc' = "unpark" => \A f \in Files : There(f) => InUnpark(f)')
  PROVE  HInv'
<1>1. Stack'
  BY DEF HInv, Stack, OneFileBefore, Named
<1>2. ASSUME ~torn' PROVE Good' /\ AllOrNothing' /\ UndoGoesBack'
  <2>1. ~torn /\ Good
    BY <1>2 DEF HInv
  <2>2. Good'
    BY <1>2, <2>1 DEF Good, LeadsTo, TakenTo, There
  <2>3. AllOrNothing' /\ UndoGoesBack'
    BY DEF AllOrNothing, UndoGoesBack
  <2> QED  BY <2>2, <2>3
<1> QED  BY <1>1, <1>2 DEF HInv

(* Where files are when a call begins is where the stack leads. *)
LEMMA BeginRemembers ==
  ASSUME RenameIInv, HInv, NEW ps, Begin(ps),
         pc' = "idle" => steps' = steps,
         \A k \in 1..Len(steps') : Named(steps'[k]),
         undoing' => ps = Reversed(step'.pairs) /\ Named(step'),
         ~torn /\ pc' # "idle" /\ ~undoing' => LeadsTo(loc)',
         ~torn /\ pc' # "idle" /\ undoing' => LeadsTo(step.was)' /\ TakenTo(step', loc)
  PROVE  HInv'
<1>1. /\ loc' = loc /\ before' = loc /\ pairs' = ps /\ torn' = torn /\ failed' = FALSE /\ pc = "idle"
      /\ (pc' = "park" /\ told' = "none") \/ (pc' = "idle" /\ told' = "error")
  BY DEF Begin
<1>2. Stack'
  BY <1>1 DEF RenameIInv, OneFilePerName, Stack, OneFileBefore
<1>3. ASSUME ~torn' PROVE Good' /\ AllOrNothing' /\ UndoGoesBack'
  <2>1. Good
    BY <1>1, <1>3 DEF HInv
  <2>2. pc' = "idle" => LeadsTo(loc)'
    BY <1>1, <2>1 DEF Good, LeadsTo, TakenTo
  <2>3. pc' # "idle" /\ ~undoing' => LeadsTo(before)'
    <3> SUFFICES ASSUME pc' # "idle", ~undoing' PROVE LeadsTo(before)'
      OBVIOUS
    <3>1. LeadsTo(loc)'
      BY <1>1, <1>3
    <3> QED  BY <1>1, <3>1 DEF LeadsTo, TakenTo
  <2>4. pc' # "idle" /\ undoing' => LeadsTo(step.was)' /\ TakenTo(step, before)'
    <3> SUFFICES ASSUME pc' # "idle", undoing' PROVE LeadsTo(step.was)' /\ TakenTo(step, before)'
      OBVIOUS
    <3>1. LeadsTo(step.was)' /\ TakenTo(step', loc)
      BY <1>1, <1>3
    <3> QED  BY <1>1, <3>1 DEF TakenTo
  <2>5. Good'
    BY <1>1, <2>2, <2>3, <2>4 DEF Good
  <2> QED  BY <1>1, <2>5 DEF AllOrNothing, UndoGoesBack
<1> QED  BY <1>2, <1>3 DEF HInv

(* An undone step leaves every file where the step found it. *)
LEMMA UndoneIsBack ==
  ASSUME RenameTypeOK, OneFileBefore, Named(step), TakenTo(step, before),
         pairs = Reversed(step.pairs),
         NEW f \in Files, step.was[f] # Nowhere, Renamed(f)
  PROVE  loc[f] = step.was[f]
<1> DEFINE ps == step.pairs
<1>1. ps \in PairList /\ Len(ps) \in Nat
  BY LenProperties DEF RenameTypeOK, Steps, PairList
<1>2. /\ Len(pairs) = Len(ps)
      /\ \A k \in 1..Len(ps) : pairs[k].from = ps[k].to /\ pairs[k].to = ps[k].from
  <2>1. pairs = [k \in 1..Len(ps) |-> [from |-> ps[k].to, to |-> ps[k].from]]
    BY DEF Reversed
  <2>2. Len(pairs) = Len(ps)
    <3>1. pairs \in Seq([from : Names, to : Names]) /\ DOMAIN pairs = 1..Len(ps)
      BY <2>1 DEF RenameTypeOK, PairList
    <3>2. DOMAIN pairs = 1..Len(pairs) /\ Len(pairs) \in Nat
      BY <3>1, LenProperties
    <3> QED  BY <1>1, <3>1, <3>2
  <2> HIDE DEF ps
  <2> QED  BY <2>1, <2>2
<1> HIDE DEF ps
<1>3. CASE \E k \in 1..Len(ps) : step.was[f] = ps[k].from
  <2>1. PICK k \in 1..Len(ps) : step.was[f] = ps[k].from
    BY <1>3
  <2>2. before[f] = ps[k].to
    BY <2>1 DEF TakenTo, ps
  <2> QED  BY <1>2, <2>1, <2>2 DEF Renamed, Listed
<1>4. CASE \A k \in 1..Len(ps) : step.was[f] # ps[k].from
  <2>1. before[f] = step.was[f]
    BY <1>4 DEF TakenTo, ps
  <2>2. ASSUME NEW k \in 1..Len(ps), before[f] = ps[k].to PROVE FALSE
    <3>1. PICK g \in Files : step.was[g] = ps[k].from
      BY DEF Named, ps
    <3>2. step.was[g] # Nowhere
      BY <1>1, <3>1, PairNames
    <3>3. before[g] = ps[k].to
      BY <3>1, <3>2 DEF TakenTo, ps
    <3>4. f = g
      BY <2>1, <2>2, <3>3 DEF OneFileBefore
    <3> QED  BY <1>4, <3>1, <3>4
  <2> QED  BY <1>2, <2>1, <2>2 DEF Renamed, Listed, Unlisted
<1> QED  BY <1>3, <1>4

(* A call that ends well leaves a stack that leads to where files are now. *)
LEMMA OkRemembers ==
  ASSUME RenameIInv, HInv, pc # "idle", Return("ok"),
         UNCHANGED <<loc, torn, failed>>, Kept,
         \A f \in Files : There(f) => Renamed(f)
  PROVE  HInv'
<1>1. /\ pc' = "idle" /\ told' = "ok" /\ undoing' = undoing /\ loc' = loc /\ torn' = torn
      /\ UNCHANGED <<pairs, step, before>>
      /\ undoing => steps' = steps
      /\ ~undoing => steps' = Append(steps, [pairs |-> pairs, was |-> before])
  BY DEF Return, Kept
<1>t. RenameTypeOK /\ AllListed /\ Stack
  BY DEF RenameIInv, HInv
<1> DEFINE s == [pairs |-> pairs, was |-> before]
<1>2. s \in Steps /\ s.pairs = pairs /\ s.was = before
  BY <1>t DEF RenameTypeOK, Steps
<1> HIDE DEF s
<1>3. Named(s)
  BY <1>2, <1>t DEF AllListed, Listed, Named
<1>4. ~undoing => /\ Len(steps') = Len(steps) + 1 /\ Len(steps) \in Nat
                  /\ \A k \in 1..Len(steps) : steps'[k] = steps[k]
                  /\ steps'[Len(steps) + 1] = s
  BY <1>1, <1>2, <1>t, AppendProperties, LenProperties DEF RenameTypeOK, s
<1>5. Stack'
  <2>1. \A k \in 1..Len(steps') : Named(steps'[k])
    <3>1. CASE undoing
      BY <1>1, <1>t, <3>1 DEF Stack
    <3>2. CASE ~undoing
      BY <1>3, <1>4, <1>t, <3>2 DEF Stack
    <3> QED  BY <3>1, <3>2
  <2> QED  BY <1>1, <1>t, <2>1 DEF Stack, OneFileBefore
<1>6. ASSUME ~torn' PROVE Good' /\ AllOrNothing' /\ UndoGoesBack'
  <2>1. Good
    BY <1>1, <1>6 DEF HInv
  <2>2. CASE undoing
    <3>1. /\ LeadsTo(step.was) /\ TakenTo(step, before) /\ pairs = Reversed(step.pairs) /\ Named(step)
      BY <1>t, <2>1, <2>2 DEF Good, Stack
    <3>2. \A f \in Files : step.was[f] # Nowhere => loc[f] = step.was[f]
      <4> SUFFICES ASSUME NEW f \in Files, step.was[f] # Nowhere PROVE loc[f] = step.was[f]
        OBVIOUS
      <4>1. There(f)
        <5>1. \A k \in 1..Len(step.pairs) : step.pairs[k].to # Nowhere
          BY <1>t, PairNames DEF RenameTypeOK, Steps
        <5> QED  BY <3>1, <5>1 DEF TakenTo, There
      <4> QED  BY <1>t, <3>1, <4>1, UndoneIsBack DEF Stack
    <3>3. LeadsTo(loc)
      <4> SUFFICES ASSUME NEW k \in 1..Len(steps)
                   PROVE  TakenTo(steps[k], IF k = Len(steps) THEN loc ELSE steps[k + 1].was)
        BY DEF LeadsTo
      <4>1. TakenTo(steps[k], IF k = Len(steps) THEN step.was ELSE steps[k + 1].was)
        BY <3>1 DEF LeadsTo
      <4>2. \A m \in 1..Len(steps[k].pairs) : steps[k].pairs[m].to # Nowhere
        <5>1. steps[k] \in Steps
          BY <1>t DEF RenameTypeOK
        <5> QED  BY <5>1, PairNames DEF Steps
      <4> QED  BY <3>2, <4>1, <4>2 DEF TakenTo
    <3> QED
      BY <1>1, <2>2, <3>2, <3>3 DEF Good, LeadsTo, TakenTo, AllOrNothing, UndoGoesBack
  <2>3. CASE ~undoing
    <3>1. LeadsTo(before)
      BY <2>1, <2>3 DEF Good
    <3>2. TakenTo(s, loc)
      BY <1>2 DEF TakenTo, Renamed, Listed, Unlisted, There
    <3>3. LeadsTo(loc)'
      <4> SUFFICES ASSUME NEW k \in 1..Len(steps')
                   PROVE  TakenTo(steps'[k], IF k = Len(steps') THEN loc ELSE steps'[k + 1].was)
        BY <1>1 DEF LeadsTo, TakenTo
      <4>1. CASE k = Len(steps) + 1
        BY <1>4, <2>3, <3>2, <4>1
      <4>2. CASE k = Len(steps)
        BY <1>2, <1>4, <2>3, <3>1, <4>2 DEF LeadsTo
      <4>3. CASE k < Len(steps)
        <5>1. k \in 1..Len(steps) /\ k + 1 \in 1..Len(steps)
          BY <1>4, <2>3, <4>3
        <5> QED  BY <1>4, <2>3, <3>1, <4>3, <5>1 DEF LeadsTo
      <4> QED  BY <1>4, <2>3, <4>1, <4>2, <4>3
    <3> QED  BY <1>1, <2>3, <3>3 DEF Good, AllOrNothing, UndoGoesBack
  <2> QED  BY <2>2, <2>3
<1> QED  BY <1>5, <1>6 DEF HInv

(* A call that ends with an error leaves everything as it was, the step an  *)
(* undo took off included.                                                 *)
LEMMA ErrorRemembers ==
  ASSUME RenameIInv, HInv, pc # "idle", Return("error"),
         UNCHANGED <<loc, torn, failed>>, Kept,
         ~torn => \A f \in Files : There(f) => loc[f] = before[f]
  PROVE  HInv'
<1>1. /\ pc' = "idle" /\ told' = "error" /\ undoing' = undoing /\ loc' = loc /\ torn' = torn
      /\ UNCHANGED <<pairs, step, before>>
      /\ ~undoing => steps' = steps
      /\ undoing => steps' = Append(steps, step)
  BY DEF Return, Kept
<1>t. RenameTypeOK /\ Stack
  BY DEF RenameIInv, HInv
<1>2. undoing => /\ Len(steps') = Len(steps) + 1 /\ Len(steps) \in Nat
                 /\ \A k \in 1..Len(steps) : steps'[k] = steps[k]
                 /\ steps'[Len(steps) + 1] = step
  BY <1>1, <1>t, AppendProperties, LenProperties DEF RenameTypeOK
<1>3. Stack'
  <2>1. \A k \in 1..Len(steps') : Named(steps'[k])
    <3>1. CASE ~undoing
      BY <1>1, <1>t, <3>1 DEF Stack
    <3>2. CASE undoing
      BY <1>2, <1>t, <3>2 DEF Stack
    <3> QED  BY <3>1, <3>2
  <2> QED  BY <1>1, <1>t, <2>1 DEF Stack, OneFileBefore
<1>4. ASSUME ~torn' PROVE Good' /\ AllOrNothing' /\ UndoGoesBack'
  <2>1. Good /\ \A f \in Files : There(f) => loc[f] = before[f]
    BY <1>1, <1>4 DEF HInv
  (* Where a step took files is the same place before the call as after it. *)
  <2>2. ASSUME NEW s \in Steps, TakenTo(s, before) PROVE TakenTo(s, loc)
    <3>1. \A m \in 1..Len(s.pairs) : s.pairs[m].to # Nowhere
      BY PairNames DEF Steps
    <3> QED  BY <2>1, <2>2, <3>1 DEF TakenTo, There
  <2>3. CASE ~undoing
    <3>1. LeadsTo(before)
      BY <2>1, <2>3 DEF Good
    <3>2. LeadsTo(loc)
      <4> SUFFICES ASSUME NEW k \in 1..Len(steps)
                   PROVE  TakenTo(steps[k], IF k = Len(steps) THEN loc ELSE steps[k + 1].was)
        BY DEF LeadsTo
      <4>1. steps[k] \in Steps
        BY <1>t DEF RenameTypeOK
      <4> QED  BY <2>2, <3>1, <4>1 DEF LeadsTo
    <3>3. LeadsTo(loc)'
      BY <1>1, <2>3, <3>2 DEF LeadsTo, TakenTo
    <3> QED  BY <1>1, <2>1, <2>3, <3>3 DEF Good, There, AllOrNothing, UndoGoesBack
  <2>4. CASE undoing
    <3>1. LeadsTo(step.was) /\ TakenTo(step, before)
      BY <2>1, <2>4 DEF Good
    <3>2. TakenTo(step, loc)
      BY <1>t, <2>2, <3>1 DEF RenameTypeOK
    <3>3. LeadsTo(loc)'
      <4> SUFFICES ASSUME NEW k \in 1..Len(steps')
                   PROVE  TakenTo(steps'[k], IF k = Len(steps') THEN loc ELSE steps'[k + 1].was)
        BY <1>1 DEF LeadsTo, TakenTo
      <4>1. CASE k = Len(steps) + 1
        BY <1>2, <2>4, <3>2, <4>1
      <4>2. CASE k = Len(steps)
        BY <1>2, <2>4, <3>1, <4>2 DEF LeadsTo
      <4>3. CASE k < Len(steps)
        <5>1. k \in 1..Len(steps) /\ k + 1 \in 1..Len(steps)
          BY <1>2, <2>4, <4>3
        <5> QED  BY <1>2, <2>4, <3>1, <4>3, <5>1 DEF LeadsTo
      <4> QED  BY <1>2, <2>4, <4>1, <4>2, <4>3
    <3> QED  BY <1>1, <2>1, <2>4, <3>3 DEF Good, There, AllOrNothing, UndoGoesBack
  <2> QED  BY <2>3, <2>4
<1> QED  BY <1>3, <1>4 DEF HInv

(* At first nothing has been renamed. *)
LEMMA InitHInv == RenameInit => HInv
<1> SUFFICES ASSUME RenameInit PROVE HInv
  OBVIOUS
<1>1. Stack
  BY BaseAssumption DEF RenameInit, Stack, OneFileBefore
<1> QED  BY <1>1 DEF RenameInit, HInv, Good, LeadsTo, AllOrNothing, UndoGoesBack

(* Every step keeps the stack leading to where files are, and every call    *)
(* that ends keeps what its outcome promises.                              *)
LEMMA NextHInv == RenameIInv /\ HInv /\ [RenameNext]_renameVars => HInv'
<1> SUFFICES ASSUME RenameIInv, HInv, [RenameNext]_renameVars PROVE HInv'
  OBVIOUS
<1>t. RenameTypeOK /\ OneFilePerName /\ AllListed /\ Track /\ Stack
  BY DEF RenameIInv, HInv
<1>p. Len(pairs) \in Nat
  BY <1>t, LenProperties DEF RenameTypeOK, PairList
<1>1. CASE Ask
  <2>1. PICK ps \in Lists : Begin(ps)
    BY <1>1 DEF Ask
  <2>2. UNCHANGED <<steps, step>> /\ undoing' = FALSE /\ loc' = loc /\ pc = "idle"
    BY <1>1, <2>1 DEF Ask, Begin
  <2>3. \A k \in 1..Len(steps') : Named(steps'[k])
    BY <1>t, <2>2 DEF Stack
  <2>4. ~torn => LeadsTo(loc)'
    <3>1. ~torn => LeadsTo(loc)
      BY <2>2 DEF HInv, Good
    <3> HIDE DEF HInv
    <3> QED  BY <2>2, <3>1 DEF LeadsTo, TakenTo
  <2>5. pc' = "idle" => steps' = steps
    BY <2>2
  <2>6. undoing' => ps = Reversed(step'.pairs) /\ Named(step')
    BY <2>2
  <2>7. ~torn /\ pc' # "idle" /\ ~undoing' => LeadsTo(loc)'
    BY <2>4
  <2>8. ~torn /\ pc' # "idle" /\ undoing' => LeadsTo(step.was)' /\ TakenTo(step', loc)
    BY <2>2
  <2> HIDE DEF Begin
  <2> QED  BY <2>1, <2>3, <2>5, <2>6, <2>7, <2>8, BeginRemembers
<1>2. CASE Undo
  <2> DEFINE n == Len(steps)
  <2>1. /\ steps # <<>> /\ step' = steps[n] /\ Begin(Reversed(step'.pairs)) /\ undoing' = TRUE
        /\ loc' = loc /\ pc = "idle"
        /\ steps' = IF pc' = "idle" THEN steps ELSE SubSeq(steps, 1, n - 1)
    BY <1>2 DEF Undo, Begin
  <2>2. n \in 1..n /\ n \in Nat /\ Named(step')
    BY <1>t, <2>1 DEF RenameTypeOK, Stack
  <2>3. pc' # "idle" => /\ Len(steps') = n - 1
                        /\ \A k \in 1..(n - 1) : steps'[k] = steps[k]
    <3>1. \A k \in 1..(n - 1) : steps[k] \in Steps
      BY <1>t, <2>2 DEF RenameTypeOK
    <3>2. /\ Len(SubSeq(steps, 1, n - 1)) = n - 1
          /\ \A k \in 1..(n - 1) : SubSeq(steps, 1, n - 1)[k] = steps[k]
      <4> HIDE DEF n
      <4> QED  BY <2>2, <3>1, SubSeqProperties
    <3> QED  BY <2>1, <3>2
  <2>4. \A k \in 1..Len(steps') : Named(steps'[k])
    BY <1>t, <2>1, <2>2, <2>3 DEF Stack
  <2>5. ASSUME ~torn, pc' # "idle" PROVE LeadsTo(step.was)' /\ TakenTo(step', loc)
    <3>1. LeadsTo(loc)
      BY <2>1, <2>5 DEF HInv, Good
    <3>2. TakenTo(step', loc)
      BY <1>t, <2>1, <3>1, LeadsToTop
    <3>3. ASSUME NEW k \in 1..(n - 1)
          PROVE  TakenTo(steps[k], IF k = n - 1 THEN step'.was ELSE steps[k + 1].was)
      BY <2>1, <2>2, <3>1 DEF LeadsTo
    <3>4. LeadsTo(step.was)'
      <4> SUFFICES ASSUME NEW k \in 1..Len(steps')
                   PROVE  TakenTo(steps'[k], IF k = Len(steps') THEN step'.was ELSE steps'[k + 1].was)
        BY DEF LeadsTo, TakenTo
      <4>1. k \in 1..(n - 1) /\ steps'[k] = steps[k] /\ Len(steps') = n - 1
        BY <2>3, <2>5
      <4>2. k # n - 1 => steps'[k + 1] = steps[k + 1]
        BY <2>2, <2>3, <2>5, <4>1
      <4> QED  BY <3>3, <4>1, <4>2
    <3> QED  BY <3>2, <3>4
  <2> QED  BY <2>1, <2>2, <2>4, <2>5, BeginRemembers
<1>3. CASE Park
  BY <1>3, CallGoesOn DEF Park, Kept
<1>4. CASE ParkFails
  <2>1. /\ pc = "park" /\ pc' = "unpark" /\ loc' = loc /\ i <= Len(pairs)
        /\ UNCHANGED <<i, back, failed, told, steps, undoing, torn>> /\ Kept
    BY <1>4, RenameFailsKeeps DEF ParkFails
  <2>2. ASSUME NEW f \in Files, There(f) PROVE InUnpark(f)'
    <3>1. InPark(f) /\ back = 1
      BY <1>t, <2>1, <2>2 DEF Track
    <3> QED  BY <1>t, <1>p, <2>1, <3>1 DEF InPark, InUnpark, Listed, Unlisted, Kept
  <2> QED  BY <2>1, <2>2, CallGoesOn DEF Kept
<1>5. CASE Unpark
  <2>1. /\ pc = "unpark" /\ pc' = "unpark" /\ back < i /\ back' = back + 1
        /\ UNCHANGED <<i, failed, told, steps, undoing>> /\ Kept
        /\ \/ Rename(back, pairs[back].from) /\ torn' = torn
           \/ torn' = TRUE
    BY <1>5 DEF Unpark
  <2>2. ASSUME ~torn', NEW f \in Files, There(f) PROVE InUnpark(f)'
    <3>1. InUnpark(f) /\ ~torn /\ Rename(back, pairs[back].from)
      BY <2>1, <2>2 DEF HInv, Good
    <3>2. i \in 1..Len(pairs) /\ back \in 1..Len(pairs) /\ back \in Temps /\ back \in Nat /\ i \in Nat
      BY <1>p, <1>t, <2>1 DEF RenameTypeOK, Track, Temps
    <3>3. loc' = [g \in Files |-> IF loc[g] = back THEN pairs[back].from ELSE loc[g]]
      BY <3>1 DEF Rename
    <3>4. ASSUME NEW k \in 1..Len(pairs), Listed(f, k)
          PROVE  loc'[f] = IF back + 1 <= k /\ k < i THEN k ELSE pairs[k].from
      <4>1. pairs[k].from \notin Temps
        BY <1>t, PairNames DEF RenameTypeOK
      <4>2. loc[f] = IF back <= k /\ k < i THEN k ELSE pairs[k].from
        BY <3>1, <3>4 DEF InUnpark
      <4>3. CASE k = back
        BY <2>1, <3>2, <3>3, <4>2, <4>3
      <4>4. CASE k # back
        <5>1. loc[f] # back
          BY <3>2, <4>1, <4>2, <4>4
        <5> QED  BY <3>2, <3>3, <4>2, <4>4, <5>1
      <4> QED  BY <4>3, <4>4
    <3>5. ASSUME Unlisted(f) PROVE loc'[f] = before[f]
      <4>1. PICK g \in Files : Listed(g, back)
        BY <1>t, <2>1, <3>2 DEF AllListed
      <4>2. There(g)
        <5>1. pairs[back].from # Nowhere
          BY <1>t, <3>2, PairNames DEF RenameTypeOK
        <5> QED  BY <4>1, <5>1 DEF There, Listed
      <4>3. InUnpark(g)
        BY <2>1, <3>1, <4>2 DEF HInv, Good
      <4>4. loc[g] = back
        BY <2>1, <3>2, <4>1, <4>3 DEF InUnpark
      <4>5. back # Nowhere
        BY <3>2, PlacesAssumption
      <4>6. loc[f] # back
        BY <1>t, <3>2, <3>5, <4>1, <4>4, <4>5 DEF OneFilePerName, Unlisted
      <4> QED  BY <3>1, <3>3, <3>5, <4>6 DEF InUnpark
    <3> QED  BY <2>1, <3>4, <3>5 DEF InUnpark, Listed, Unlisted, Kept
  <2> QED  BY <2>1, <2>2, CallGoesOn DEF Kept, There
<1>6. CASE Unparked
  <2>1. /\ pc = "unpark" /\ back = i /\ Return("error")
        /\ UNCHANGED <<loc, i, back, failed, faults, torn>> /\ Kept
    BY <1>6 DEF Unparked
  <2>2. ASSUME ~torn, NEW f \in Files, There(f) PROVE loc[f] = before[f]
    <3>1. InUnpark(f)
      BY <2>1, <2>2 DEF HInv, Good
    <3> QED  BY <1>t, <1>p, <2>1, <3>1 DEF InUnpark, Listed, Unlisted, RenameTypeOK
  <2> QED  BY <2>1, <2>2, ErrorRemembers
<1>7. CASE Parked
  BY <1>7, CallGoesOn DEF Parked, Kept
<1>8. CASE Place
  BY <1>8, CallGoesOn DEF Place, Kept
<1>9. CASE PlaceFails
  BY <1>9, CallGoesOn DEF PlaceFails, Kept
<1>10. CASE PutBack
  <2>1. failed /\ pc = "putback"
    BY <1>10, <1>t DEF PutBack, Track
  <2>2. torn
    BY <1>t, <2>1 DEF Stack
  <2> QED  BY <1>10, <2>2, CallGoesOn DEF PutBack, Kept
<1>11. CASE Placed
  <2>1. /\ pc = "place" /\ i > Len(pairs) /\ UNCHANGED <<loc, i, back, failed, faults, torn>> /\ Kept
        /\ Return(IF failed THEN "error" ELSE "ok")
    BY <1>11 DEF Placed
  <2>2. CASE failed
    <3>1. torn
      BY <1>t, <2>1, <2>2 DEF Stack
    <3> QED  BY <2>1, <2>2, <3>1, ErrorRemembers
  <2>3. CASE ~failed
    <3>1. ASSUME NEW f \in Files, There(f) PROVE Renamed(f)
      <4>1. InPlace(f)
        BY <1>t, <2>1, <2>3, <3>1 DEF Track
      <4> QED  BY <1>p, <1>t, <2>1, <4>1 DEF InPlace, Renamed, RenameTypeOK
    <3> QED  BY <2>1, <2>3, <3>1, OkRemembers
  <2> QED  BY <2>2, <2>3
<1>12. CASE Appear
  <2>1. torn' = TRUE /\ UNCHANGED <<pc, failed, steps, undoing>> /\ Kept
    BY <1>12 DEF Appear
  <2>2. Stack'
    BY <1>t, <2>1 DEF Kept, Stack, OneFileBefore
  <2> QED  BY <2>1, <2>2 DEF HInv
<1>13. CASE UNCHANGED renameVars
  BY <1>13 DEF renameVars, HInv, Stack, OneFileBefore, Good, LeadsTo, TakenTo, InUnpark, Listed,
               Unlisted, There, AllOrNothing, UndoGoesBack
<1> QED
  BY <1>1, <1>2, <1>3, <1>4, <1>5, <1>6, <1>7, <1>8, <1>9, <1>10, <1>11, <1>12,
     <1>13 DEF RenameNext

(* The undo stack is a history: it leads to where every file is now, until  *)
(* renameAll was refused what it cannot make good.                         *)
THEOREM StackIsHistory == RenameSpec => []HInv
  BY RenameStarts, InitHInv, RenameKeeps, NextHInv, PTL DEF RenameSpec

(* An error in pass one, or before it, means that nothing has moved:       *)
(* however many files had been parked, each is back under its own name.    *)
(* Not so (torn) when it is pass two that was refused, after which the     *)
(* others stay renamed, although "what was done is put back"               *)
(* (MainWindowRename.cpp:12), nor when a rename back is refused as well,   *)
(* or a file of another program appears meanwhile.                         *)
THEOREM ErrorChangesNothing == RenameSpec => []AllOrNothing
<1>1. ASSUME HInv PROVE AllOrNothing
  BY <1>1 DEF HInv, AllOrNothing
<1> QED  BY <1>1, StackIsHistory, PTL

(* However many renames, undos and refused calls came in between, an undo   *)
(* that ends well takes every file to where it was before the rename.      *)
THEOREM UndoIsExact == RenameSpec => []UndoGoesBack
<1>1. ASSUME HInv PROVE UndoGoesBack
  BY <1>1 DEF HInv, UndoGoesBack
<1> QED  BY <1>1, StackIsHistory, PTL

-------------------------------------------------------------------------------
(***************************************************************************)
(* ShellPty: a shell is hung up only when the client that took it last has *)
(* gone, and the browser and the shell end up in the same folder.          *)
(***************************************************************************)

(* A client's own place tells how far its connection can be. *)
LinksFit == /\ \A f \in Foots : /\ foot[f] \in {"no", "started"} => link[f] = "none"
                                /\ foot[f] \in {"connected", "attached"} => link[f] \in {"open", "shut"}
            /\ view = "connecting" => link[View] \in {"none", "open", "shut"}
            /\ view = "running" => link[View] \in {"open", "shut"}

(* Who waits or was accepted has connected; the client is who came last.   *)
Met == /\ \A k \in 1 .. Len(backlog) : link[backlog[k]] # "none"
       /\ last # Nobody => link[last] # "none"
       /\ client # Nobody => client = last

(* The poll reports the pty for what is there to read, or because it ended, *)
(* and the listening socket for who waits; a Cd in hand is a Cd.           *)
FoundTruly == /\ at \in {"listen", "master"} /\ "master" \in found /\ said = <<>> => shell = "exited"
              /\ at = "listen" /\ "listen" \in found => backlog # <<>>
              /\ at = "cd" => todo # <<>> /\ Head(todo) \in Dirs

ClosedTruly == at = "closing" /\ shell # "exited" => last \in Clients /\ link[last] = "over"

IInv == TypeOK /\ LinksFit /\ Met /\ FoundTruly /\ ClosedTruly

(* Nobody has connected. *)
LEMMA InitIInv == Init => IInv
<1> SUFFICES ASSUME Init PROVE IInv
  OBVIOUS
<1>1. TypeOK
  <2>1. Flags
    BY Zenon DEF Init, Flags
  <2>2. link \in [Clients -> {"none", "open", "shut", "left", "over"}] /\ mail \in [Clients -> Seq(Packets)]
    BY DEF Init
  <2>3. foot \in [Foots -> {"no", "started", "connected", "attached", "gone"}]
    BY DEF Init
  <2>4. moves \in 0 .. MaxMoves /\ tries \in 0 .. MaxTries
    BY ConstantsAssumption DEF Init
  <2>5. backlog \in Seq(Clients) /\ todo \in Seq(Packets) /\ said \in Seq(Dirs) /\ inbox \in Seq(Dirs)
    BY DEF Init
  <2>6. here \in Dirs /\ cwd \in Dirs /\ dir \in Dirs /\ cdfile \in Dirs \cup {"nothing"}
    BY ConstantsAssumption DEF Init
  <2> QED BY <2>1, <2>2, <2>3, <2>4, <2>5, <2>6 DEF Init, TypeOK
<1>2. LinksFit
  BY DEF Init, LinksFit, Clients
<1>3. Met
  BY DEF Init, Met
<1>4. FoundTruly /\ ClosedTruly
  BY DEF Init, FoundTruly, ClosedTruly
<1> QED BY <1>1, <1>2, <1>3, <1>4 DEF IInv

(* The flags stay flags. *)
LEMMA FlagsStep == Flags /\ [Next]_vars => Flags'
<1> SUFFICES ASSUME Flags, [Next]_vars PROVE Flags'
  OBVIOUS
<1> USE DEF Flags, ViewStep, FootStep, ShellStep, HolderStep, holder, zsh
<1>1. CASE TheView
  BY <1>1, Zenon DEF TheView, TryConnect, Connected, Hears, Disconnected
<1>2. CASE User
  BY <1>2, Zenon DEF User, CloseWindow, Runs, Exits, Navigate, CdTyped, Detach, CloseFoot
<1>3. CASE Holder
  <2>1. CASE Bind
    BY <2>1, Zenon DEF Bind
  <2>2. CASE StartShell
    BY <2>2, Zenon DEF StartShell
  <2>3. CASE Poll
    BY <2>3, Zenon DEF Poll
  <2>4. CASE Accept
    BY <2>4, Zenon DEF Accept
  <2>5. CASE ReadMaster
    BY <2>5, Zenon DEF ReadMaster
  <2>6. CASE ShellExited
    BY <2>6, Zenon DEF ShellExited
  <2>7. CASE NoOutput
    BY <2>7, Zenon DEF NoOutput
  <2>8. CASE ReadPackets
    BY <2>8, Zenon DEF ReadPackets
  <2>9. CASE HangUp
    BY <2>9, Zenon DEF HangUp
  <2>10. CASE NoInput
    BY <2>10, Zenon DEF NoInput
  <2>11. CASE SizePacket
    BY <2>11, Zenon DEF SizePacket
  <2>12. CASE CdPacket
    BY <2>12, Zenon DEF CdPacket
  <2>13. CASE WriteCd
    <3>1. usr1' \in BOOLEAN
      BY <2>13, SMT DEF WriteCd
    <3> QED BY <2>13, <3>1, Zenon DEF WriteCd
  <2>14. CASE PacketsDone
    BY <2>14, Zenon DEF PacketsDone
  <2>15. CASE CloseSocket
    BY <2>15, Zenon DEF CloseSocket
  <2>16. CASE HolderExits
    BY <2>16, Zenon DEF HolderExits
  <2> QED BY <1>3, <2>1, <2>2, <2>3, <2>4, <2>5, <2>6, <2>7, <2>8, <2>9, <2>10, <2>11, <2>12, <2>13, <2>14, <2>15, <2>16, Zenon DEF Holder
<1>4. CASE Ready \/ Finishes \/ Trap
  BY <1>4, Zenon DEF Ready, Finishes, Trap
<1>5. CASE \E f \in Foots : Attach(f) \/ SendSize(f) \/ Detached(f)
  BY <1>5, Zenon DEF Attach, SendSize, Detached
<1>6. CASE UNCHANGED vars
  BY <1>6, Zenon DEF vars
<1> QED BY <1>1, <1>2, <1>3, <1>4, <1>5, <1>6, Zenon DEF Next

(* Sequences stay sequences. *)
LEMMA Ends == ASSUME NEW S, NEW s \in Seq(S), s # <<>> PROVE Head(s) \in S /\ Tail(s) \in Seq(S)
  OBVIOUS
LEMMA Appended == ASSUME NEW S, NEW s \in Seq(S), NEW x \in S PROVE Append(s, x) \in Seq(S) /\ Append(s, x) # <<>>
  BY AppendProperties
LEMMA Joined == ASSUME NEW S, NEW s \in Seq(S), NEW t \in Seq(S) PROVE s \o t \in Seq(S)
  OBVIOUS

(* What can be done to connections keeps their types. *)
LinkTypes == [Clients -> {"none", "open", "shut", "left", "over"}]
LEMMA LeftTypes ==
  ASSUME link \in LinkTypes, NEW c \in Clients, Leave(c) PROVE link' \in LinkTypes
BY DEF LinkTypes, Leave
LEMMA Connecting ==
  ASSUME TypeOK, NEW c \in Clients, Connects(c)
  PROVE  link' \in LinkTypes /\ backlog' \in Seq(Clients) /\ mail' = mail
BY DEF TypeOK, LinkTypes, Connects
LEMMA ClosingTypes ==
  ASSUME link \in LinkTypes, NEW C PROVE ClosedByHolder(C) \in LinkTypes
BY DEF LinkTypes, ClosedByHolder

(* Every step keeps the types. *)
LEMMA TypeStep == TypeOK /\ FoundTruly /\ [Next]_vars => TypeOK'
<1> SUFFICES ASSUME TypeOK, FoundTruly, [Next]_vars PROVE TypeOK'
  OBVIOUS
<1>c. at = "listen" /\ "listen" \in found => backlog # <<>>
  BY DEF FoundTruly
<1>d. at = "cd" => todo # <<>> /\ Head(todo) \in Dirs
  BY DEF FoundTruly
<1>a. /\ Foots \subseteq Clients /\ View \in Clients
      /\ Dirs \subseteq Packets /\ "size" \in Packets
      /\ Packets \ Dirs \subseteq {"size"} /\ MaxMoves \in Nat /\ MaxTries \in Nat
  BY ConstantsAssumption DEF Clients, Packets
<1>b. Flags'
  BY FlagsStep DEF TypeOK
<1> USE <1>a, <1>b DEF TypeOK, ViewStep, FootStep, ShellStep, HolderStep, holder, links, zsh, browser
<1>0. CASE UNCHANGED vars
  BY <1>0 DEF vars
<1>1. CASE TryConnect
  <2>1. Connects(View) \/ UNCHANGED links
    BY <1>1 DEF TryConnect
  <2>2. link' \in LinkTypes /\ backlog' \in Seq(Clients) /\ mail' = mail
    BY <2>1, Connecting DEF LinkTypes
  <2>3. tries' \in 0 .. MaxTries /\ view' \in {view, "over"}
    BY <1>1 DEF TryConnect
  <2>4. UNCHANGED <<holder, zsh, cdfile, foot, inbox, cwd, dir, moves>>
    BY <1>1 DEF TryConnect
  <2> QED BY <2>1, <2>2, <2>3, <2>4 DEF LinkTypes
<1>2. CASE Connected
  BY <1>2 DEF Connected, Sends
<1>3. CASE Hears
  BY <1>3 DEF Hears
<1>4. CASE Disconnected
  BY <1>4 DEF Disconnected, Leave
<1>5. CASE CloseWindow
  <2>1. Leave(View) \/ UNCHANGED link
    BY <1>5 DEF CloseWindow
  <2>2. link' \in LinkTypes
    BY <2>1, LeftTypes DEF LinkTypes
  <2>3. view' = "closed" /\ inbox' = <<>> /\ UNCHANGED <<holder, zsh, cdfile, foot, backlog, mail, tries, cwd, dir, moves>>
    BY <1>5 DEF CloseWindow
  <2> QED BY <2>1, <2>2, <2>3 DEF LinkTypes
<1>6. CASE Runs
  BY <1>6 DEF Runs, Moves
<1>7. CASE Exits
  BY <1>7 DEF Exits
<1>8. CASE Ready
  BY <1>8 DEF Ready, Prints
<1>9. CASE Finishes
  BY <1>9 DEF Finishes, Prints
<1>10. CASE Trap
  <2>1. \/ cdfile \in Dirs /\ here' = cdfile /\ said' = Append(said, cdfile)
       \/ UNCHANGED <<here, said>>
    BY <1>10 DEF Trap, Prints
  <2>2. here' \in Dirs /\ said' \in Seq(Dirs)
    <3>1. CASE cdfile \in Dirs /\ here' = cdfile /\ said' = Append(said, cdfile)
      BY <3>1, Appended
    <3>2. CASE UNCHANGED <<here, said>>
      BY <3>2
    <3> QED BY <2>1, <3>1, <3>2
  <2>3. UNCHANGED <<holder, links, cdfile, browser, foot, shell, moves>>
    BY <1>10 DEF Trap
  <2> QED BY <2>1, <2>2, <2>3 DEF LinkTypes
<1>11. CASE Bind
  BY <1>11 DEF Bind
<1>12. CASE StartShell
  <2>1. UNCHANGED link \/ link' = ClosedByHolder({c \in Clients : \E k \in DOMAIN backlog : backlog[k] = c})
    BY <1>12 DEF StartShell
  <2>2. link' \in LinkTypes
    BY <2>1, ClosingTypes DEF LinkTypes
  <2>3. backlog' \in {backlog, <<>>} /\ mail' = mail
    BY <1>12 DEF StartShell
  <2>4. at' \in {"poll", "gone"} /\ shell' \in {shell, "starting"}
    BY <1>12 DEF StartShell
  <2>5. UNCHANGED <<browser, foot, moves, found, client, todo, last, here, said, cdfile>>
    BY <1>12 DEF StartShell
  <2>6. backlog' \in Seq(Clients) /\ mail' \in [Clients -> Seq(Packets)]
    <3>1. backlog \in Seq(Clients) /\ <<>> \in Seq(Clients)
      OBVIOUS
    <3> QED BY <2>3, <3>1, Zenon
  <2> QED BY <2>2, <2>4, <2>5, <2>6 DEF LinkTypes
<1>13. CASE Poll
  BY <1>13 DEF Poll
<1>14. CASE Accept
  <2>1. \/ "listen" \in found /\ client' = Head(backlog) /\ last' = Head(backlog) /\ backlog' = Tail(backlog) /\ link' = ClosedByHolder({client})
       \/ UNCHANGED <<client, last, backlog, link>>
    BY <1>14 DEF Accept
  <2>2. link' \in LinkTypes
    BY <2>1, ClosingTypes DEF LinkTypes
  <2>3. backlog' \in Seq(Clients) /\ client' \in Clients \cup {Nobody} /\ last' \in Clients \cup {Nobody}
    <3>1. backlog \in Seq(Clients) /\ client \in Clients \cup {Nobody} /\ last \in Clients \cup {Nobody}
      OBVIOUS
    <3>2. at = "listen"
      BY <1>14 DEF Accept
    <3>3. CASE "listen" \in found /\ client' = Head(backlog) /\ last' = Head(backlog) /\ backlog' = Tail(backlog)
      <4>1. Head(backlog) \in Clients /\ Tail(backlog) \in Seq(Clients)
        BY <3>1, <3>2, <3>3, <1>c, Ends
      <4> QED BY <3>3, <4>1
    <3>4. CASE UNCHANGED <<client, last, backlog, link>>
      BY <3>1, <3>4
    <3> QED BY <2>1, <3>3, <3>4
  <2>4. at' = "master" /\ UNCHANGED <<browser, foot, moves, found, todo, mail, zsh, cdfile>>
    BY <1>14 DEF Accept
  <2> QED BY <2>1, <2>2, <2>3, <2>4 DEF LinkTypes
<1>15. CASE ReadMaster
  <2>1. link' = ClosedByHolder({client}) \/ UNCHANGED link
    BY <1>15 DEF ReadMaster
  <2>2. link' \in LinkTypes
    BY <2>1, ClosingTypes DEF LinkTypes
  <2>3. client' \in {client, Nobody}
    BY <1>15 DEF ReadMaster
  <2>4. inbox' \in {inbox, inbox \o said}
    BY <1>15 DEF ReadMaster
  <2>5. inbox' \in Seq(Dirs)
    <3>1. inbox \in Seq(Dirs) /\ inbox \o said \in Seq(Dirs)
      BY Joined
    <3> QED BY <2>4, <3>1
  <2>6. said' = <<>> /\ at' = "client" /\ UNCHANGED <<found, todo, last, backlog, mail, shell, here, cdfile, view, tries, cwd, dir, foot, moves>>
    BY <1>15 DEF ReadMaster
  <2> QED BY <2>1, <2>2, <2>3, <2>4, <2>5, <2>6 DEF LinkTypes
<1>16. CASE ShellExited
  BY <1>16 DEF ShellExited
<1>17. CASE NoOutput
  BY <1>17 DEF NoOutput
<1>18. CASE ReadPackets
  BY <1>18 DEF ReadPackets, Reads
<1>19. CASE HangUp
  BY <1>19 DEF HangUp, Reads, ClosedByHolder
<1>20. CASE NoInput
  BY <1>20 DEF NoInput, Reads
<1>21. CASE SizePacket
  BY <1>21 DEF SizePacket
<1>22. CASE CdPacket
  <2>1. UNCHANGED <<browser, foot, moves, found, client, last, links, zsh>>
    BY <1>22, Zenon DEF CdPacket
  <2>2. CASE InForeground
    <3>1. at' = "cd" /\ cdfile' = "nothing" /\ todo' = todo
      BY <1>22, <2>2, Zenon DEF CdPacket
    <3> QED BY <2>1, <3>1 DEF LinkTypes
  <2>3. CASE ~InForeground
    <3>1. at' = at /\ cdfile' = cdfile /\ todo' = Tail(todo)
      BY <1>22, <2>3, Zenon DEF CdPacket
    <3>2. Tail(todo) \in Seq(Packets)
      BY <1>22, Ends, Zenon DEF CdPacket
    <3> QED BY <2>1, <3>1, <3>2 DEF LinkTypes
  <2> QED BY <2>2, <2>3
<1>23. CASE WriteCd
  <2>1. shell' \in {shell, "exited"} /\ cdfile' = Head(todo) /\ todo' = Tail(todo) /\ at' = "packets"
    BY <1>23 DEF WriteCd
  <2>2. Head(todo) \in Dirs /\ Tail(todo) \in Seq(Packets)
    BY <1>23, <1>d, Ends DEF WriteCd
  <2>3. UNCHANGED <<browser, foot, moves, found, client, last, links, here, said>>
    BY <1>23 DEF WriteCd
  <2> QED BY <2>1, <2>2, <2>3 DEF LinkTypes
<1>24. CASE PacketsDone
  BY <1>24 DEF PacketsDone
<1>25. CASE CloseSocket
  BY <1>25 DEF CloseSocket, ClosedByHolder
<1>26. CASE HolderExits
  BY <1>26 DEF HolderExits, ClosedByHolder
<1>27. ASSUME NEW d \in Dirs, Navigate(d) PROVE TypeOK'
  <2>1. mail' = [mail EXCEPT ![View] = Append(@, d)] \/ UNCHANGED mail
    BY <1>27 DEF Navigate, Sends
  <2>2. mail' \in [Clients -> Seq(Packets)]
    <3>1. Append(mail[View], d) \in Seq(Packets)
      BY Appended
    <3> QED BY <2>1, <3>1
  <2>3. UNCHANGED <<holder, backlog, link, zsh, cdfile, view, tries, inbox, cwd, foot>> /\ dir' = d
    BY <1>27 DEF Navigate
  <2>4. moves' \in 0 .. MaxMoves
    BY <1>27 DEF Navigate, Moves
  <2> QED BY <2>1, <2>2, <2>3, <2>4 DEF LinkTypes
<1>28. ASSUME NEW d \in Dirs, CdTyped(d) PROVE TypeOK'
  BY <1>28 DEF CdTyped, Moves, Prints
<1>29. ASSUME NEW f \in Foots, Detach(f) PROVE TypeOK'
  BY <1>29 DEF Detach
<1>30. ASSUME NEW f \in Foots, Attach(f) PROVE TypeOK'
  <2>1. Connects(f) \/ UNCHANGED links
    BY <1>30 DEF Attach
  <2>2. link' \in LinkTypes /\ backlog' \in Seq(Clients) /\ mail' = mail
    BY <2>1, Connecting DEF LinkTypes
  <2>3. UNCHANGED <<holder, zsh, browser, moves, cdfile, unmet>>
    BY <1>30 DEF Attach
  <2>4. foot' = [foot EXCEPT ![f] = "gone"] \/ foot' = [foot EXCEPT ![f] = "connected"]
    BY <1>30 DEF Attach
  <2>5. foot' \in [Foots -> {"no", "started", "connected", "attached", "gone"}]
    BY <2>4
  <2>6. backlog' \in Seq(Clients) /\ link' \in LinkTypes /\ mail' \in [Clients -> Seq(Packets)]
    BY <2>2
  <2> QED BY <2>3, <2>5, <2>6 DEF LinkTypes
<1>31. ASSUME NEW f \in Foots, SendSize(f) PROVE TypeOK'
  BY <1>31 DEF SendSize, Sends
<1>32. ASSUME NEW f \in Foots, Detached(f) PROVE TypeOK'
  BY <1>32 DEF Detached, Leave
<1>33. ASSUME NEW f \in Foots, CloseFoot(f) PROVE TypeOK'
  <2>1. Leave(f) \/ UNCHANGED link
    BY <1>33 DEF CloseFoot
  <2>2. link' \in LinkTypes
    BY <2>1, LeftTypes DEF LinkTypes
  <2>3. UNCHANGED <<holder, zsh, browser, backlog, mail, moves, cdfile, unmet>>
    BY <1>33 DEF CloseFoot
  <2>4. foot' = [foot EXCEPT ![f] = "gone"]
    BY <1>33 DEF CloseFoot
  <2> QED BY <2>1, <2>2, <2>3, <2>4 DEF LinkTypes
<1> QED
  BY <1>0, <1>1, <1>2, <1>3, <1>4, <1>5, <1>6, <1>7, <1>8, <1>9, <1>10, <1>11, <1>12, <1>13, <1>14, <1>15, <1>16, <1>17, <1>18, <1>19, <1>20, <1>21, <1>22, <1>23, <1>24, <1>25, <1>26, <1>27, <1>28, <1>29, <1>30, <1>31, <1>32, <1>33 DEF Next, Holder, TheView, User

(* Closing connections leaves those as they are that were never made. *)
LEMMA Closing ==
  ASSUME TypeOK, NEW C, \A c \in Clients : c \in C => link[c] # "none"
  PROVE  /\ ClosedByHolder(C) \in [Clients -> {"none", "open", "shut", "left", "over"}]
         /\ \A c \in Clients : /\ link[c] = "none" <=> ClosedByHolder(C)[c] = "none"
                               /\ c \notin C => ClosedByHolder(C)[c] = link[c]
                               /\ link[c] \in {"open", "shut"} => ClosedByHolder(C)[c] \in {"open", "shut"}
                               /\ c \in C /\ link[c] = "left" => ClosedByHolder(C)[c] = "over"
BY DEF TypeOK, ClosedByHolder

Waiting == {c \in Clients : \E k \in DOMAIN backlog : backlog[k] = c}

(* The client and those that wait have connected. *)
LEMMA HaveConnected ==
  ASSUME IInv
  PROVE  /\ \A c \in Clients : c \in {client} => link[c] # "none"
         /\ \A c \in Clients : c \in Waiting => link[c] # "none"
<1>1. Nobody \notin Clients
  BY ConstantsAssumption DEF Clients
<1>2. DOMAIN backlog = 1 .. Len(backlog)
  BY DEF IInv, TypeOK
<1> QED BY <1>1, <1>2 DEF IInv, Met, Waiting

(* What a step of the holder does to connections: none, or some are closed. *)
LEMMA HolderCloses ==
  ASSUME IInv, UNCHANGED <<view, foot>>,
         link' = link \/ link' = ClosedByHolder({client}) \/ link' = ClosedByHolder(Waiting)
  PROVE  LinksFit' /\ \A c \in Clients : link[c] = "none" <=> link'[c] = "none"
<1>1. /\ \A c \in Clients : link[c] = "none" <=> link'[c] = "none"
      /\ \A c \in Clients : link[c] \in {"open", "shut"} => link'[c] \in {"open", "shut"}
  <2>1. CASE link' = link
    BY <2>1
  <2>2. CASE link' = ClosedByHolder({client})
    BY <2>2, Closing, HaveConnected DEF IInv
  <2>3. CASE link' = ClosedByHolder(Waiting)
    BY <2>3, Closing, HaveConnected DEF IInv
  <2> QED BY <2>1, <2>2, <2>3
<1> QED BY <1>1 DEF IInv, LinksFit, Clients

(* A client that connects fits, and waits with a connection made. *)
LEMMA ConnectFits ==
  ASSUME IInv, NEW c \in Clients, link[c] = "none", Connects(c), UNCHANGED <<client, last>>
  PROVE  /\ Met' /\ link'[c] = "open"
         /\ \A d \in Clients : d # c => link'[d] = link[d]
<1>1. link' = [link EXCEPT ![c] = "open"] /\ backlog' = Append(backlog, c)
  BY DEF Connects
<1>2. link'[c] = "open" /\ \A d \in Clients : d # c => link'[d] = link[d]
  BY <1>1 DEF IInv, TypeOK
<1>3. \A k \in 1 .. Len(backlog') : link'[backlog'[k]] # "none"
  BY <1>1, <1>2, AppendProperties DEF IInv, TypeOK, Met
<1>4. last # Nobody => last \in Clients
  BY DEF IInv, TypeOK
<1> QED BY <1>2, <1>3, <1>4 DEF IInv, Met

(* A client that leaves had connected, and all others stay as they were. *)
LEMMA LeaveFits ==
  ASSUME IInv, NEW c \in Clients, link[c] \in {"open", "shut"}, Leave(c), UNCHANGED <<backlog, client, last>>
  PROVE  /\ Met' /\ link'[c] \in {"left", "over"}
         /\ \A d \in Clients : d # c => link'[d] = link[d]
<1>1. link'[c] \in {"left", "over"} /\ \A d \in Clients : d # c => link'[d] = link[d]
  BY DEF IInv, TypeOK, Leave
<1>2. \A k \in 1 .. Len(backlog) : backlog[k] \in Clients
  BY DEF IInv, TypeOK
<1> QED BY <1>1, <1>2 DEF IInv, TypeOK, Met

conns == <<backlog, link, foot, view, client, last>>

(* The steps of the view and of foot keep connections and clients fitting. *)
LEMMA ClientsFit ==
  IInv /\ (TheView \/ CloseWindow \/ \E f \in Foots : Detach(f) \/ CloseFoot(f) \/ Attach(f) \/ SendSize(f) \/ Detached(f))
  => LinksFit' /\ Met'
<1> SUFFICES ASSUME IInv, TheView \/ CloseWindow \/ \E f \in Foots : Detach(f) \/ CloseFoot(f) \/ Attach(f) \/ SendSize(f) \/ Detached(f)
             PROVE LinksFit' /\ Met'
  OBVIOUS
<1> USE DEF ViewStep, FootStep, holder, links, browser
<1>a. View \in Clients /\ View \notin Foots /\ Foots \subseteq Clients
  BY ConstantsAssumption DEF Clients
<1>b. foot \in [Foots -> {"no", "started", "connected", "attached", "gone"}] /\ LinksFit /\ Met
  BY DEF IInv, TypeOK
<1>1. CASE TryConnect
  <2>1. CASE Connects(View) /\ UNCHANGED view
    <3>1. UNCHANGED <<client, last, foot, view>> /\ link[View] = "none"
      BY <1>1, <2>1, Zenon DEF TryConnect
    <3>2. Met' /\ link'[View] = "open" /\ \A d \in Clients : d # View => link'[d] = link[d]
      BY <1>a, <2>1, <3>1, ConnectFits
    <3> QED BY <1>a, <1>b, <3>1, <3>2 DEF LinksFit
  <2>2. CASE UNCHANGED links
    <3>1. UNCHANGED <<client, last, foot>> /\ view' \in {view, "over"}
      BY <1>1, <2>2 DEF TryConnect
    <3> QED BY <1>b, <2>2, <3>1 DEF LinksFit, Met
  <2> QED BY <1>1, <2>1, <2>2 DEF TryConnect
<1>2. CASE Connected
  <2>1. UNCHANGED <<client, last, foot, link, backlog>> /\ view = "connecting" /\ view' = "running" /\ link[View] # "none"
    BY <1>2 DEF Connected
  <2> QED BY <1>b, <2>1 DEF LinksFit, Met
<1>3. CASE Hears
  BY <1>3, <1>b DEF Hears, LinksFit, Met
<1>4. CASE Disconnected
  <2>1. link[View] \in {"open", "shut"} /\ Leave(View) /\ UNCHANGED <<backlog, client, last, foot>> /\ view' = "over"
    BY <1>4 DEF Disconnected
  <2>2. Met' /\ \A d \in Clients : d # View => link'[d] = link[d]
    BY <1>a, <2>1, LeaveFits
  <2> QED BY <1>a, <1>b, <2>1, <2>2 DEF LinksFit
<1>5. CASE CloseWindow
  <2>1. view \in {"connecting", "running"} /\ view' = "closed" /\ UNCHANGED <<backlog, client, last, foot>>
    BY <1>5, Zenon DEF CloseWindow
  <2>2. CASE link[View] # "none"
    <3>1. Leave(View)
      BY <1>5, <2>2, Zenon DEF CloseWindow
    <3>2. link[View] \in {"open", "shut"}
      BY <1>b, <2>1, <2>2 DEF LinksFit
    <3>3. Met' /\ \A d \in Clients : d # View => link'[d] = link[d]
      BY <1>a, <2>1, <3>1, <3>2, LeaveFits
    <3> QED BY <1>a, <1>b, <2>1, <3>3 DEF LinksFit
  <2>3. CASE link[View] = "none"
    <3>1. UNCHANGED link
      BY <1>5, <2>3, Zenon DEF CloseWindow
    <3> QED BY <1>b, <2>1, <3>1 DEF LinksFit, Met
  <2> QED BY <2>2, <2>3
<1>6. ASSUME NEW f \in Foots, Detach(f) PROVE LinksFit' /\ Met'
  <2>1. foot[f] = "no" /\ foot' = [foot EXCEPT ![f] = "started"] /\ UNCHANGED <<backlog, link, view, client, last>>
    BY <1>6 DEF Detach
  <2> QED BY <1>b, <2>1 DEF LinksFit, Met
<1>7. ASSUME NEW f \in Foots, Attach(f) PROVE LinksFit' /\ Met'
  <2>1. link[f] = "none" /\ UNCHANGED <<client, last, view>>
    BY <1>7, <1>b DEF Attach, LinksFit
  <2>2. CASE Connects(f) /\ foot' = [foot EXCEPT ![f] = "connected"]
    <3>1. Met' /\ link'[f] = "open" /\ \A d \in Clients : d # f => link'[d] = link[d]
      BY <1>a, <2>1, <2>2, ConnectFits
    <3> QED BY <1>a, <1>b, <2>1, <2>2, <3>1 DEF LinksFit
  <2>3. CASE foot' = [foot EXCEPT ![f] = "gone"] /\ UNCHANGED links
    BY <1>b, <2>1, <2>3 DEF LinksFit, Met
  <2> QED BY <1>7, <2>2, <2>3 DEF Attach
<1>8. ASSUME NEW f \in Foots, SendSize(f) PROVE LinksFit' /\ Met'
  <2>1. foot[f] = "connected" /\ foot' = [foot EXCEPT ![f] = "attached"] /\ UNCHANGED <<backlog, link, view, client, last>>
    BY <1>8 DEF SendSize
  <2> QED BY <1>b, <2>1 DEF LinksFit, Met
<1>9. ASSUME NEW f \in Foots, Detached(f) \/ CloseFoot(f) PROVE LinksFit' /\ Met'
  <2>1. foot' = [foot EXCEPT ![f] = "gone"] /\ UNCHANGED <<backlog, view, client, last>>
    BY <1>9, Zenon DEF Detached, CloseFoot
  <2>2. CASE foot[f] \in {"connected", "attached"}
    <3>1. Leave(f)
      BY <1>9, <2>2, SMT DEF Detached, CloseFoot
    <3>2. link[f] \in {"open", "shut"}
      BY <1>b, <2>2 DEF LinksFit
    <3>3. Met' /\ \A d \in Clients : d # f => link'[d] = link[d]
      BY <1>a, <2>1, <3>1, <3>2, LeaveFits
    <3> QED BY <1>a, <1>b, <2>1, <3>3 DEF LinksFit
  <2>3. CASE foot[f] = "started"
    <3>1. UNCHANGED link
      BY <1>9, <2>3, SMT DEF Detached, CloseFoot
    <3> QED BY <1>b, <2>1, <3>1 DEF LinksFit, Met
  <2> QED BY <1>9, <2>2, <2>3, SMT DEF Detached, CloseFoot
<1> QED BY <1>1, <1>2, <1>3, <1>4, <1>5, <1>6, <1>7, <1>8, <1>9 DEF TheView

(* So do those of the holder, the shell and whoever types. *)
LEMMA OthersFit ==
  IInv /\ (Holder \/ Ready \/ Finishes \/ Trap \/ Runs \/ Exits \/ \E d \in Dirs : Navigate(d) \/ CdTyped(d))
  => LinksFit' /\ Met'
<1> SUFFICES ASSUME IInv, Holder \/ Ready \/ Finishes \/ Trap \/ Runs \/ Exits \/ \E d \in Dirs : Navigate(d) \/ CdTyped(d)
             PROVE LinksFit' /\ Met'
  OBVIOUS
<1> USE DEF HolderStep, ShellStep, holder, links, browser
<1>b. LinksFit /\ Met /\ TypeOK
  BY DEF IInv
<1>c. Nobody \notin Clients
  BY ConstantsAssumption DEF Clients
<1>d. \A k \in 1 .. Len(backlog) : backlog[k] \in Clients
  BY <1>b DEF TypeOK
<1>1. CASE UNCHANGED conns
  BY <1>1, <1>b DEF conns, LinksFit, Met
<1>2. CASE StartShell
  <2>1. UNCHANGED <<view, foot, client, last>>
    BY <1>2 DEF StartShell
  <2>2. link' = link \/ link' = ClosedByHolder(Waiting)
    BY <1>2 DEF StartShell, Waiting
  <2>3. LinksFit' /\ \A c \in Clients : link[c] = "none" <=> link'[c] = "none"
    BY <2>1, <2>2, HolderCloses
  <2>4. backlog' = backlog \/ backlog' = <<>>
    BY <1>2 DEF StartShell
  <2>5. last' # Nobody => link'[last'] # "none"
    BY <1>b, <2>1, <2>3 DEF Met, TypeOK
  <2>6. \A k \in 1 .. Len(backlog') : link'[backlog'[k]] # "none"
    BY <1>b, <1>d, <2>3, <2>4 DEF Met
  <2> QED BY <1>b, <2>1, <2>3, <2>5, <2>6 DEF Met
<1>3. CASE Accept
  <2>1. CASE "listen" \in found
    <3>1. client' = Head(backlog) /\ last' = Head(backlog) /\ backlog' = Tail(backlog) /\ link' = ClosedByHolder({client})
          /\ at = "listen"
      BY <1>3, <2>1, Zenon DEF Accept
    <3>2. UNCHANGED <<view, foot>>
      BY <1>3 DEF Accept
    <3>3. LinksFit' /\ \A c \in Clients : link[c] = "none" <=> link'[c] = "none"
      BY <3>1, <3>2, HolderCloses
    <3>4. backlog # <<>>
      BY <2>1, <3>1 DEF IInv, FoundTruly
    <3>5. Head(backlog) = backlog[1] /\ 1 \in 1 .. Len(backlog)
          /\ \A k \in 1 .. Len(Tail(backlog)) : Tail(backlog)[k] = backlog[k + 1] /\ k + 1 \in 1 .. Len(backlog)
      BY <1>b, <3>4 DEF TypeOK
    <3> QED BY <1>b, <1>d, <3>1, <3>3, <3>5 DEF Met
  <2>2. CASE "listen" \notin found
    <3>1. UNCHANGED <<client, last, backlog, link>>
      BY <1>3, <2>2, Zenon DEF Accept
    <3>2. UNCHANGED <<view, foot>>
      BY <1>3 DEF Accept
    <3> QED BY <1>b, <3>1, <3>2 DEF LinksFit, Met
  <2> QED BY <2>1, <2>2
<1>4. CASE ReadMaster \/ HangUp \/ HolderExits
  <2>1. UNCHANGED <<view, foot, backlog, last>>
    BY <1>4 DEF ReadMaster, HangUp, HolderExits
  <2>2. (link' = link /\ client' = client) \/ (link' = ClosedByHolder({client}) /\ client' = Nobody)
    BY <1>4 DEF ReadMaster, HangUp, HolderExits
  <2>3. LinksFit' /\ \A c \in Clients : link[c] = "none" <=> link'[c] = "none"
    BY <2>1, <2>2, HolderCloses
  <2>5. last' # Nobody => link'[last'] # "none"
    BY <1>b, <2>1, <2>3 DEF Met, TypeOK
  <2>6. \A k \in 1 .. Len(backlog') : link'[backlog'[k]] # "none"
    BY <1>b, <1>d, <2>1, <2>3 DEF Met
  <2> QED BY <1>b, <2>1, <2>2, <2>3, <2>5, <2>6 DEF Met
<1>5. CASE CloseSocket
  <2>1. UNCHANGED <<view, foot, client, last>> /\ backlog' = <<>> /\ link' = ClosedByHolder(Waiting)
    BY <1>5 DEF CloseSocket, Waiting
  <2>3. LinksFit' /\ \A c \in Clients : link[c] = "none" <=> link'[c] = "none"
    BY <2>1, HolderCloses
  <2>5. last' # Nobody => link'[last'] # "none"
    BY <1>b, <2>1, <2>3 DEF Met, TypeOK
  <2> QED BY <1>b, <2>1, <2>3, <2>5 DEF Met
<1>6. CASE \/ Bind \/ Poll \/ ShellExited \/ NoOutput \/ ReadPackets \/ NoInput
           \/ SizePacket \/ CdPacket \/ WriteCd \/ PacketsDone
  <2>1. UNCHANGED conns
    BY <1>6, Zenon DEF Bind, Poll, ShellExited, NoOutput, ReadPackets, NoInput, SizePacket, CdPacket, WriteCd, PacketsDone, conns
  <2> QED BY <2>1, <1>1
<1>7. CASE Ready \/ Finishes \/ Trap \/ Runs \/ Exits \/ \E d \in Dirs : Navigate(d) \/ CdTyped(d)
  <2>1. UNCHANGED conns
    BY <1>7, Zenon DEF Ready, Finishes, Trap, Runs, Exits, Navigate, CdTyped, conns
  <2> QED BY <2>1, <1>1
<1> QED BY <1>2, <1>3, <1>4, <1>5, <1>6, <1>7 DEF Holder

(* What was found is true until the holder has acted on it. *)
LEMMA FoundStep == IInv /\ [Next]_vars => FoundTruly'
<1> SUFFICES ASSUME IInv, [Next]_vars PROVE FoundTruly'
  OBVIOUS
<1> USE DEF HolderStep, ShellStep, ViewStep, FootStep, holder, links, zsh, browser
<1>a. FoundTruly /\ TypeOK
  BY DEF IInv
<1>1. ASSUME UNCHANGED <<at, found, todo>>, backlog' # <<>> \/ backlog' = backlog,
             (said' = said /\ (shell = "exited" => shell' = "exited")) \/ said' # <<>> PROVE FoundTruly'
  BY <1>1, <1>a DEF FoundTruly
<1>2. ASSUME at' \notin {"listen", "master", "cd"} PROVE FoundTruly'
  BY <1>2 DEF FoundTruly
<1>3. ASSUME NEW c \in Clients, Connects(c) PROVE backlog' # <<>>
  BY <1>3, <1>a, Appended DEF Connects, TypeOK
<1>4. ASSUME NEW d \in Dirs, said' = Append(said, d) PROVE said' # <<>>
  BY <1>4, <1>a, Appended DEF TypeOK
<1>5. CASE TryConnect
  <2>1. View \in Clients
    BY DEF Clients
  <2>2. Connects(View) \/ UNCHANGED links
    BY <1>5 DEF TryConnect
  <2>3. UNCHANGED <<at, found, todo, said, shell>>
    BY <1>5 DEF TryConnect
  <2>4. backlog' # <<>> \/ backlog' = backlog
    BY <1>3, <2>1, <2>2
  <2> QED BY <1>1, <2>3, <2>4
<1>6. ASSUME NEW f \in Foots, Attach(f) PROVE FoundTruly'
  <2>1. f \in Clients
    BY DEF Clients
  <2>2. Connects(f) \/ UNCHANGED links
    BY <1>6 DEF Attach
  <2>3. UNCHANGED <<at, found, todo, said, shell>>
    BY <1>6 DEF Attach
  <2>4. backlog' # <<>> \/ backlog' = backlog
    BY <1>3, <2>1, <2>2
  <2> QED BY <1>1, <2>3, <2>4
<1>7. CASE \/ UNCHANGED vars \/ Connected \/ Hears \/ Disconnected \/ CloseWindow \/ Runs \/ Exits
           \/ (\E d \in Dirs : Navigate(d)) \/ \E f \in Foots : Detach(f) \/ CloseFoot(f) \/ SendSize(f) \/ Detached(f)
  <2>1. UNCHANGED <<at, found, todo, backlog, said>> /\ (shell = "exited" => shell' = "exited")
    BY <1>7 DEF vars, Connected, Hears, Disconnected, CloseWindow, Runs, Exits, Navigate, Detach, CloseFoot, SendSize, Detached
  <2> QED BY <1>1, <2>1
<1>8. CASE Ready \/ Finishes \/ Trap \/ \E d \in Dirs : CdTyped(d)
  <2>1. UNCHANGED <<at, found, todo, backlog>>
    BY <1>8, Zenon DEF Ready, Finishes, Trap, CdTyped
  <2>2. here \in Dirs /\ (cdfile \notin {"nothing", here} => cdfile \in Dirs)
    BY <1>a DEF TypeOK
  <2>3. shell # "exited"
    BY <1>8 DEF Ready, Finishes, Trap, CdTyped
  <2>4. said' = said \/ \E d \in Dirs : said' = Append(said, d)
    BY <1>8, <2>2, Zenon DEF Ready, Finishes, Trap, CdTyped, Prints
  <2> QED BY <1>1, <1>4, <2>1, <2>3, <2>4
<1>9. CASE Bind \/ StartShell \/ ReadMaster \/ ShellExited \/ NoOutput \/ ReadPackets \/ HangUp \/ NoInput
           \/ SizePacket \/ WriteCd \/ PacketsDone \/ CloseSocket \/ HolderExits
  <2>1. at' \notin {"listen", "master", "cd"}
    BY <1>9 DEF Bind, StartShell, ReadMaster, ShellExited, NoOutput, ReadPackets, HangUp, NoInput,
                SizePacket, WriteCd, PacketsDone, CloseSocket, HolderExits
  <2> QED BY <1>2, <2>1
<1>10. CASE Poll
  BY <1>10 DEF Poll, FoundTruly
<1>11. CASE Accept
  <2>1. at = "listen" /\ at' = "master" /\ UNCHANGED <<found, said, shell>>
    BY <1>11, Zenon DEF Accept
  <2> QED BY <1>a, <2>1 DEF FoundTruly
<1>12. CASE CdPacket
  <2>1. todo # <<>> /\ Head(todo) \in Dirs /\ at = "packets"
    BY <1>12, Zenon DEF CdPacket
  <2>2. CASE InForeground
    <3>1. at' = "cd" /\ todo' = todo
      BY <1>12, <2>2, Zenon DEF CdPacket
    <3> QED BY <2>1, <3>1 DEF FoundTruly
  <2>3. CASE ~InForeground
    <3>1. at' = at
      BY <1>12, <2>3, Zenon DEF CdPacket
    <3> QED BY <2>1, <3>1, <1>2
  <2> QED BY <2>2, <2>3
<1> QED BY <1>5, <1>6, <1>7, <1>8, <1>9, <1>10, <1>11, <1>12, Zenon DEF Next, Holder, TheView, User

(* The holder closes for the two reasons it has, and neither goes away.    *)
LEMMA ClosedStep == IInv /\ [Next]_vars => ClosedTruly'
<1> SUFFICES ASSUME IInv, [Next]_vars PROVE ClosedTruly'
  OBVIOUS
<1> USE DEF HolderStep, ShellStep, ViewStep, FootStep, holder, links, zsh, browser
<1>a. FoundTruly /\ TypeOK /\ ClosedTruly /\ LinksFit /\ Met
  BY DEF IInv
<1>b. View \in Clients /\ Foots \subseteq Clients /\ Nobody \notin Clients
  BY ConstantsAssumption DEF Clients
<1>1. ASSUME UNCHANGED <<at, last>>, shell = "exited" => shell' = "exited",
             \A c \in Clients : link[c] = "over" => link'[c] = "over" PROVE ClosedTruly'
  BY <1>1, <1>a DEF ClosedTruly
<1>2. ASSUME at' # "closing" PROVE ClosedTruly'
  BY <1>2 DEF ClosedTruly
<1>3. CASE TheView
  <2>1. UNCHANGED <<at, last, shell>>
    BY <1>3, Zenon DEF TheView, TryConnect, Connected, Hears, Disconnected
  <2>2. link' = link \/ (link[View] # "over" /\ \E v \in {"open", "left", "over"} : link' = [link EXCEPT ![View] = v])
    BY <1>3 DEF TheView, TryConnect, Connected, Hears, Disconnected, Connects, Leave
  <2>3. \A c \in Clients : link[c] = "over" => link'[c] = "over"
    BY <1>a, <2>2 DEF TypeOK
  <2> QED BY <1>1, <2>1, <2>3
<1>4. CASE CloseWindow
  <2>1. UNCHANGED <<at, last, shell>> /\ view \in {"connecting", "running"}
    BY <1>4, Zenon DEF CloseWindow
  <2>2. link[View] # "over"
    BY <1>a, <2>1 DEF LinksFit
  <2>3. link' = link \/ Leave(View)
    BY <1>4, Zenon DEF CloseWindow
  <2>4. \A c \in Clients : link[c] = "over" => link'[c] = "over"
    BY <1>a, <2>2, <2>3 DEF TypeOK, Leave
  <2> QED BY <1>1, <2>1, <2>4
<1>5. ASSUME NEW f \in Foots, Detach(f) \/ Attach(f) \/ SendSize(f) \/ Detached(f) \/ CloseFoot(f) PROVE ClosedTruly'
  <2>1. UNCHANGED <<at, last, shell>>
    BY <1>5, Zenon DEF Detach, Attach, SendSize, Detached, CloseFoot
  <2>2. foot[f] \in {"started", "connected", "attached"} \/ link' = link
    BY <1>5 DEF Attach, SendSize, Detached, CloseFoot, Detach
  <2>3. link[f] # "over" \/ link' = link
    BY <1>a, <2>2 DEF LinksFit
  <2>4. link' = link \/ Leave(f) \/ Connects(f)
    BY <1>5, Zenon DEF Detach, Attach, SendSize, Detached, CloseFoot
  <2>5. \A c \in Clients : link[c] = "over" => link'[c] = "over"
    BY <1>a, <1>b, <2>3, <2>4 DEF TypeOK, Leave, Connects
  <2> QED BY <1>1, <2>1, <2>5
<1>6. CASE UNCHANGED vars \/ Ready \/ Finishes \/ Trap \/ Runs \/ Exits \/ \E d \in Dirs : Navigate(d) \/ CdTyped(d)
  <2>1. UNCHANGED <<at, last, link>>
    BY <1>6, Zenon DEF vars, Ready, Finishes, Trap, Runs, Exits, Navigate, CdTyped
  <2>2. shell = "exited" => shell' = "exited"
    BY <1>6 DEF vars, Ready, Finishes, Trap, Runs, Exits, Navigate, CdTyped
  <2> QED BY <1>1, <2>1, <2>2
<1>7. CASE ShellExited
  BY <1>7, <1>a DEF ShellExited, FoundTruly, ClosedTruly
<1>8. CASE HangUp
  <2>1. client # Nobody /\ link[client] = "left" /\ UNCHANGED last /\ link' = ClosedByHolder({client})
    BY <1>8 DEF HangUp, Reads
  <2>2. client = last /\ client \in Clients
    BY <1>a, <2>1 DEF Met, TypeOK
  <2>3. link'[last] = "over"
    BY <2>1, <2>2 DEF ClosedByHolder
  <2> QED BY <2>1, <2>2, <2>3 DEF ClosedTruly
<1>9. CASE Bind \/ StartShell \/ Poll \/ Accept \/ ReadMaster \/ NoOutput \/ ReadPackets \/ NoInput
           \/ SizePacket \/ CdPacket \/ WriteCd \/ PacketsDone \/ CloseSocket \/ HolderExits
  <2>1. CASE CdPacket
    <3>1. at = "packets" /\ (at' = at \/ at' = "cd")
      BY <2>1, Zenon DEF CdPacket
    <3> QED BY <1>2, <3>1
  <2>2. CASE Bind \/ StartShell \/ Poll \/ Accept \/ ReadMaster \/ NoOutput \/ ReadPackets \/ NoInput
             \/ SizePacket \/ WriteCd \/ PacketsDone \/ CloseSocket \/ HolderExits
    <3>1. at' # "closing"
      BY <2>2 DEF Bind, StartShell, Poll, Accept, ReadMaster, NoOutput, ReadPackets, NoInput,
                  SizePacket, WriteCd, PacketsDone, CloseSocket, HolderExits
    <3> QED BY <1>2, <3>1
  <2> QED BY <1>9, <2>1, <2>2
<1> QED BY <1>3, <1>4, <1>5, <1>6, <1>7, <1>8, <1>9, Zenon DEF Next, Holder, User

(* Every reachable state has its types, connections that fit their clients, *)
(* and a holder that acts on what is so.                                   *)
THEOREM Invariant == Spec => []IInv
<1>1. IInv /\ [Next]_vars => IInv'
  <2> SUFFICES ASSUME IInv, [Next]_vars PROVE IInv'
    OBVIOUS
  <2>1. TypeOK' /\ FoundTruly' /\ ClosedTruly'
    BY TypeStep, FoundStep, ClosedStep DEF IInv
  <2>2. LinksFit' /\ Met'
    <3>1. CASE UNCHANGED vars
      BY <3>1 DEF IInv, LinksFit, Met, vars, holder, links, browser
    <3>2. CASE Next
      BY <3>2, ClientsFit, OthersFit, Zenon DEF Next, User
    <3> QED BY <3>1, <3>2
  <2> QED BY <2>1, <2>2 DEF IInv
<1> QED BY InitIInv, <1>1, PTL DEF Spec

(* However clients come, take over and go, with any number of foot windows, *)
(* the holder hangs the shell up only when the client that took it last has *)
(* gone: what the poll saw of the one before is never taken for its end.   *)
THEOREM ShellSurvivesTakeovers == Spec => []TakeoverKeepsShell
<1>1. IInv => TakeoverKeepsShell
  BY DEF IInv, ClosedTruly, TakeoverKeepsShell
<1> QED BY <1>1, Invariant, PTL

-------------------------------------------------------------------------------
(***************************************************************************)
(* Browser and shell follow each other.  Both ends are tied by what is on   *)
(* the way: the last report is of the folder the shell is in, and when the  *)
(* browser is elsewhere than m_cwd, then because its last Cd has not been   *)
(* followed yet or because a report it will go along with is still to come. *)
(***************************************************************************)

(* Between two rounds no packet is in hand; the shell is started once. *)
InHand == /\ at \notin {"packets", "cd"} => todo = <<>>
          /\ at \in {"starts", "bound"} => shell = "none"
          /\ at \notin {"starts", "bound", "gone"} => shell # "none"
(* The browser's own connection is the first; its client is the browser as  *)
(* long as it is open.                                                     *)
ViewFirst == /\ \A f \in Foots : foot[f] # "no" => link[View] # "none"
             /\ link[View] = "open" /\ last = Nobody => backlog # <<>> /\ Head(backlog) = View
             /\ link[View] = "open" /\ last # Nobody => client = View
(* What the shell says before anyone has come is nothing new. *)
Before == last = Nobody => /\ ~usr1 /\ todo = <<>> /\ inbox = <<>> /\ here = Home /\ cwd = Home
                           /\ \A k \in 1 .. Len(said) : said[k] = Home

InTouch == view \in {"connecting", "running"} /\ link[View] \in {"none", "open"} /\ ~unmet /\ shell # "exited"
LastReport == IF said # <<>> THEN here = said[Len(said)]
              ELSE IF inbox # <<>> THEN here = inbox[Len(inbox)] ELSE here = cwd
NoCd(s) == \A k \in 1 .. Len(s) : s[k] \notin Dirs
LastCd(s, d) == \E k \in 1 .. Len(s) : s[k] = d /\ \A j \in 1 .. Len(s) : j > k => s[j] \notin Dirs
CdToCome == /\ view = "running"
            /\ \/ LastCd(mail[View], dir)
               \/ NoCd(mail[View]) /\ LastCd(todo, dir)
               \/ NoCd(mail[View]) /\ NoCd(todo) /\ usr1 /\ cdfile = dir
NewsToCome == \/ \E k \in 1 .. Len(inbox) : inbox[k] # cwd
              \/ \E k \in 1 .. Len(said) : said[k] # cwd
Ties == LastReport /\ (dir = cwd \/ CdToCome \/ NewsToCome)
Tied == InTouch => Ties

FInv == InHand /\ ViewFirst /\ Before /\ Tied

(* Nothing has been said. *)
LEMMA InitFInv == Init => FInv
<1> SUFFICES ASSUME Init PROVE FInv
  OBVIOUS
<1> USE ConstantsAssumption DEF Init
<1>1. View \in Clients /\ \A f \in Foots : f \in Clients
  BY DEF Clients
<1>2. InHand /\ ViewFirst
  BY <1>1 DEF InHand, ViewFirst
<1>3. Before /\ LastReport /\ dir = cwd
  BY DEF Before, LastReport
<1> QED  BY <1>2, <1>3 DEF FInv, Tied, Ties

LEMMA InHandStep == IInv /\ InHand /\ [Next]_vars => InHand'
<1> SUFFICES ASSUME IInv, InHand, [Next]_vars PROVE InHand'
  OBVIOUS
<1> USE DEF InHand, ViewStep, FootStep, ShellStep, HolderStep, holder, zsh
<1>1. CASE TheView
  BY <1>1 DEF TheView, TryConnect, Connected, Hears, Disconnected
<1>2. CASE User
  BY <1>2 DEF User, CloseWindow, Runs, Exits, Navigate, CdTyped, Detach, CloseFoot
<1>3. CASE Holder
  <2>1. CASE Bind \/ StartShell \/ Poll \/ Accept
    BY <2>1 DEF Bind, StartShell, Poll, Accept
  <2>2. CASE ReadMaster \/ ShellExited \/ NoOutput \/ ReadPackets
    BY <2>2 DEF ReadMaster, ShellExited, NoOutput, ReadPackets, Reads
  <2>3. CASE HangUp \/ NoInput \/ PacketsDone \/ CloseSocket \/ HolderExits
    BY <2>3 DEF HangUp, Reads, NoInput, PacketsDone, CloseSocket, HolderExits
  <2>4. CASE SizePacket \/ CdPacket \/ WriteCd
    BY <2>4 DEF SizePacket, CdPacket, WriteCd
  <2> QED  BY <1>3, <2>1, <2>2, <2>3, <2>4 DEF Holder
<1>4. CASE Ready \/ Finishes \/ Trap
  BY <1>4 DEF Ready, Finishes, Trap
<1>5. CASE \E f \in Foots : Attach(f) \/ SendSize(f) \/ Detached(f)
  BY <1>5 DEF Attach, SendSize, Detached
<1>6. CASE UNCHANGED vars
  BY <1>6 DEF vars
<1> QED  BY <1>1, <1>2, <1>3, <1>4, <1>5, <1>6 DEF Next

(* Once the browser has connected it has; before, nobody has.               *)
LEMMA FirstOfAll ==
  ASSUME IInv, ViewFirst, link[View] = "none"
  PROVE  /\ \A c \in Clients : link[c] = "none"
         /\ backlog = <<>> /\ last = Nobody
<1>1. \A c \in Clients : link[c] = "none"
  BY DEF IInv, LinksFit, ViewFirst, Clients
<1>2. \A k \in 1 .. Len(backlog) : backlog[k] \in Clients /\ link[backlog[k]] # "none"
  BY DEF IInv, TypeOK, Met
<1>3. backlog = <<>>
  <2>1. backlog \in Seq(Clients) /\ Len(backlog) \in Nat
    BY DEF IInv, TypeOK
  <2>2. Len(backlog) = 0
    BY <1>1, <1>2, <2>1
  <2> QED  BY <2>1, <2>2, EmptySeq
<1>4. last = Nobody
  BY <1>1 DEF IInv, TypeOK, Met
<1> QED  BY <1>1, <1>3, <1>4

LEMMA FirstStep == IInv /\ ViewFirst /\ [Next]_vars => ViewFirst'
<1> SUFFICES ASSUME IInv, ViewFirst, [Next]_vars PROVE ViewFirst'
  OBVIOUS
<1>c. /\ View \in Clients /\ Foots \subseteq Clients /\ View \notin Foots /\ Nobody \notin Clients
      /\ link \in [Clients -> {"none", "open", "shut", "left", "over"}] /\ backlog \in Seq(Clients)
      /\ last \in Clients \cup {Nobody} /\ client \in Clients \cup {Nobody}
      /\ client # Nobody => client = last
  BY ConstantsAssumption DEF IInv, TypeOK, Met, Clients
<1>v. /\ \A f \in Foots : foot[f] # "no" => link[View] # "none"
      /\ link[View] = "open" /\ last = Nobody => backlog # <<>> /\ Head(backlog) = View
      /\ link[View] = "open" /\ last # Nobody => client = View
  BY DEF ViewFirst
<1>w. foot \in [Foots -> {"no", "started", "connected", "attached", "gone"}]
  BY DEF IInv, TypeOK
(* Nobody comes or goes.                                                   *)
<1>a. ASSUME UNCHANGED <<backlog, client, last>>, link'[View] = link[View],
             \A f \in Foots : foot'[f] = foot[f] \/ foot[f] # "no" \/ link[View] # "none"
      PROVE  ViewFirst'
  BY <1>v, <1>a DEF ViewFirst
(* The browser's connection is not open afterwards.                        *)
<1>b. ASSUME link'[View] \in {"shut", "left", "over"} PROVE ViewFirst'
  BY <1>b DEF ViewFirst
<1>1. CASE TryConnect
  <2>1. CASE Connects(View)
    <3>1. backlog = <<>> /\ last = Nobody
      BY <1>1, FirstOfAll DEF TryConnect
    <3>2. /\ backlog' = Append(backlog, View) /\ link'[View] = "open" /\ UNCHANGED <<foot, client, last>>
      BY <1>1, <1>c, <2>1 DEF Connects, TryConnect, ViewStep, holder
    <3> QED  BY <1>c, <3>1, <3>2 DEF ViewFirst
  <2>2. CASE ~Connects(View)
    BY <1>1, <1>a, <2>2 DEF TryConnect, ViewStep, holder, links
  <2> QED  BY <2>1, <2>2
<1>2. CASE Connected \/ Hears \/ Runs \/ Exits \/ Ready \/ Finishes \/ Trap
           \/ \E d \in Dirs : Navigate(d) \/ CdTyped(d)
  BY <1>2, <1>a DEF Connected, Hears, Runs, Exits, Ready, Finishes, Trap, Navigate, CdTyped,
                    ViewStep, ShellStep, holder, links
<1>3. CASE Disconnected
  BY <1>3, <1>b, <1>c DEF Disconnected, Leave
<1>4. CASE CloseWindow
  <2>1. CASE link[View] # "none"
    BY <1>4, <1>b, <1>c, <2>1 DEF CloseWindow, Leave
  <2>2. CASE link[View] = "none"
    BY <1>4, <1>a, <2>2 DEF CloseWindow, ViewStep, holder
  <2> QED  BY <2>1, <2>2
<1>5. ASSUME NEW f \in Foots, Detach(f) PROVE ViewFirst'
  <2>1. view = "running" /\ UNCHANGED <<backlog, client, last, link>>
    BY <1>5 DEF Detach, holder, links
  <2>2. link[View] # "none"
    BY <2>1 DEF IInv, LinksFit
  <2> QED  BY <1>a, <2>1, <2>2
<1>6. ASSUME NEW f \in Foots, Attach(f) PROVE ViewFirst'
  <2>1. /\ foot[f] = "started" /\ foot'[f] # "no" /\ \A g \in Foots : g # f => foot'[g] = foot[g]
        /\ UNCHANGED <<client, last>>
    BY <1>6, <1>w DEF Attach, FootStep, holder
  <2>2. CASE Connects(f)
    <3>1. /\ backlog' = Append(backlog, f) /\ link'[View] = link[View]
      BY <1>6, <1>c, <2>2 DEF Connects
    <3>2. backlog # <<>> /\ Head(backlog) = View => backlog' # <<>> /\ Head(backlog') = View
      BY <1>c, <3>1
    <3> QED  BY <1>v, <2>1, <3>1, <3>2 DEF ViewFirst
  <2>3. CASE UNCHANGED links
    BY <1>a, <2>1, <2>3 DEF links
  <2> QED  BY <1>6, <2>2, <2>3 DEF Attach
<1>7. ASSUME NEW f \in Foots, SendSize(f) PROVE ViewFirst'
  BY <1>7, <1>a, <1>w DEF SendSize, FootStep, holder
<1>8. ASSUME NEW f \in Foots, Detached(f) PROVE ViewFirst'
  BY <1>8, <1>a, <1>c, <1>w DEF Detached, FootStep, Leave, holder
<1>9. ASSUME NEW f \in Foots, CloseFoot(f) PROVE ViewFirst'
  BY <1>9, <1>a, <1>c, <1>w DEF CloseFoot, FootStep, Leave, holder
<1>10. CASE Bind \/ Poll \/ ShellExited \/ NoOutput \/ ReadPackets \/ NoInput \/ SizePacket \/ CdPacket
            \/ WriteCd \/ PacketsDone \/ UNCHANGED vars
  BY <1>10, <1>a DEF Bind, Poll, ShellExited, NoOutput, ReadPackets, NoInput, SizePacket, CdPacket,
                     WriteCd, PacketsDone, HolderStep, vars, holder, links
(* Whoever waits is closed, and so is a browser nobody has accepted.        *)
<1>w2. ASSUME link' = ClosedByHolder(Waiting), UNCHANGED <<foot, client, last>> PROVE ViewFirst'
  <2>1. CASE link[View] = "open" /\ last = Nobody
    <3>1. View \in Waiting
      BY <1>c, <1>v, <2>1 DEF Waiting
    <3>2. link'[View] = "shut"
      BY <1>c, <1>w2, <2>1, <3>1 DEF ClosedByHolder
    <3> QED  BY <1>b, <3>2
  <2>2. CASE link[View] = "open" /\ last # Nobody
    <3>1. link'[View] \in {"open", "shut"}
      BY <1>c, <1>w2, <2>2 DEF ClosedByHolder
    <3>2. link'[View] = "open" => client' = View
      BY <1>v, <1>w2, <2>2
    <3> QED  BY <1>w2, <2>2, <3>1, <3>2 DEF ViewFirst
  <2>3. CASE link[View] # "open"
    <3>1. link'[View] # "open" /\ (link[View] # "none" => link'[View] # "none")
      BY <1>c, <1>w2, <2>3 DEF ClosedByHolder
    <3> QED  BY <1>v, <1>w2, <3>1 DEF ViewFirst
  <2> QED  BY <2>1, <2>2, <2>3
<1>11. CASE StartShell
  <2>1. UNCHANGED <<foot, client, last>> /\ ((link' = link /\ backlog' = backlog) \/ link' = ClosedByHolder(Waiting))
    BY <1>11 DEF StartShell, HolderStep, links, Waiting
  <2> QED  BY <1>a, <1>w2, <2>1
<1>12. CASE CloseSocket
  <2>1. UNCHANGED <<foot, client, last>> /\ link' = ClosedByHolder(Waiting)
    BY <1>12 DEF CloseSocket, HolderStep, Waiting
  <2> QED  BY <1>w2, <2>1
(* The client is closed: it is the browser, if that is open.                *)
<1>d. ASSUME link' = ClosedByHolder({client}), client # Nobody, UNCHANGED foot PROVE ViewFirst'
  <2>1. CASE link[View] = "open"
    <3>1. client = View
      BY <1>c, <1>v, <1>d, <2>1
    <3>2. link'[View] = "shut"
      BY <1>c, <1>d, <2>1, <3>1 DEF ClosedByHolder
    <3> QED  BY <1>b, <3>2
  <2>2. CASE link[View] # "open"
    <3>1. link'[View] # "open" /\ (link[View] # "none" => link'[View] # "none")
      BY <1>c, <1>d, <2>2 DEF ClosedByHolder
    <3> QED  BY <1>v, <1>d, <3>1 DEF ViewFirst
  <2> QED  BY <2>1, <2>2
<1>e. ASSUME client = Nobody PROVE ClosedByHolder({client})[View] = link[View]
  BY <1>c, <1>e DEF ClosedByHolder
<1>13. CASE ReadMaster
  <2>1. \/ link' = ClosedByHolder({client}) /\ client # Nobody /\ UNCHANGED foot
        \/ UNCHANGED <<backlog, client, last, link, foot>>
    BY <1>13 DEF ReadMaster
  <2> QED  BY <1>a, <1>d, <2>1
<1>14. CASE HangUp
  BY <1>14, <1>d DEF HangUp, Reads, HolderStep
<1>15. CASE HolderExits
  <2>1. link' = ClosedByHolder({client}) /\ UNCHANGED <<foot, backlog, last>> /\ client' = Nobody
    BY <1>15 DEF HolderExits, HolderStep
  <2>2. CASE client # Nobody
    BY <1>d, <2>1, <2>2
  <2>3. CASE client = Nobody
    BY <1>a, <1>e, <2>1, <2>3
  <2> QED  BY <2>2, <2>3
<1>16. CASE Accept
  <2>1. CASE "listen" \in found
    <3>1. /\ client' = Head(backlog) /\ last' = Head(backlog) /\ link' = ClosedByHolder({client}) /\ UNCHANGED foot
      BY <1>16, <2>1 DEF Accept, HolderStep
    <3>2. backlog # <<>> /\ Head(backlog) \in Clients
      BY <1>16, <1>c, <2>1, Ends DEF Accept, IInv, FoundTruly
    <3>3. CASE client # Nobody
      BY <1>d, <3>1, <3>3
    <3>4. CASE client = Nobody
      <4>1. link'[View] = link[View]
        BY <1>e, <3>1, <3>4
      <4>2. link[View] = "open" => client' = View /\ last' = View
        BY <1>c, <1>v, <3>1, <3>4
      <4> QED  BY <1>c, <1>v, <3>1, <3>2, <4>1, <4>2 DEF ViewFirst
    <3> QED  BY <3>3, <3>4
  <2>2. CASE "listen" \notin found
    BY <1>16, <1>a, <2>2 DEF Accept, HolderStep
  <2> QED  BY <2>1, <2>2
<1> QED
  BY <1>1, <1>2, <1>3, <1>4, <1>5, <1>6, <1>7, <1>8, <1>9, <1>10, <1>11, <1>12, <1>13, <1>14, <1>15, <1>16
  DEF Next, Holder, TheView, User

(* Until someone comes nothing moves in the shell but its prompts.          *)
LEMMA BeforeStep == IInv /\ Before /\ [Next]_vars => Before'
<1> SUFFICES ASSUME IInv, Before, [Next]_vars, last' = Nobody PROVE Before'
  BY DEF Before
<1>c. /\ View \in Clients /\ Nobody \notin Clients /\ backlog \in Seq(Clients)
      /\ said \in Seq(Dirs) /\ (at = "cd" => todo # <<>>)
      /\ (at = "listen" /\ "listen" \in found => backlog # <<>>)
      /\ client # Nobody => client = last
  BY ConstantsAssumption DEF IInv, TypeOK, FoundTruly, Met, Clients
<1>l. last = Nobody
  <2>1. CASE Accept /\ "listen" \in found
    <3>1. backlog # <<>> /\ last' = Head(backlog)
      BY <1>c, <2>1 DEF Accept
    <3> QED  BY <1>c, <3>1, Ends
  <2>2. CASE ~(Accept /\ "listen" \in found)
    BY <2>2 DEF Next, Holder, TheView, User, Accept, Bind, StartShell, Poll, ReadMaster, ShellExited, NoOutput,
                ReadPackets, HangUp, NoInput, SizePacket, CdPacket, WriteCd, PacketsDone, CloseSocket, HolderExits,
                TryConnect, Connected, Hears, Disconnected, CloseWindow, Runs, Exits, Navigate, CdTyped, Detach,
                CloseFoot, Ready, Finishes, Trap, Attach, SendSize, Detached, ViewStep, FootStep, ShellStep,
                holder, vars
  <2> QED  BY <2>1, <2>2
<1>b. /\ ~usr1 /\ todo = <<>> /\ inbox = <<>> /\ here = Home /\ cwd = Home
      /\ \A k \in 1 .. Len(said) : said[k] = Home
      /\ client = Nobody /\ client # View
  BY <1>c, <1>l DEF Before
(* Nothing moves.                                                          *)
<1>a. ASSUME ~usr1', UNCHANGED <<todo, inbox, here, cwd>>, said' = said \/ said' = <<>> PROVE Before'
  BY <1>a, <1>b, <1>l DEF Before
(* A prompt.                                                               *)
<1>p. ASSUME ~usr1', UNCHANGED <<todo, inbox, here, cwd>>, said' = Append(said, here) PROVE Before'
  <2>1. \A k \in 1 .. Len(said') : said'[k] = Home
    BY <1>b, <1>c, <1>p, AppendProperties
  <2> QED  BY <1>b, <1>p, <2>1 DEF Before
<1>1. CASE TheView
  <2>1. UNCHANGED <<usr1, todo, inbox, here, cwd, said>>
    BY <1>1, <1>b DEF TheView, TryConnect, Connected, Hears, Disconnected, ViewStep, holder, zsh
  <2> QED  BY <1>a, <1>b, <2>1
<1>2. CASE CloseWindow \/ Runs \/ Exits
  <2>1. UNCHANGED <<todo, here, cwd, said>> /\ inbox' = <<>> /\ ~usr1'
    BY <1>2, <1>b, <1>l DEF CloseWindow, Runs, Exits, ViewStep, ShellStep, holder, zsh, browser
  <2> QED  BY <1>a, <1>b, <2>1
<1>3. CASE \/ \E d \in Dirs : Navigate(d) \/ CdTyped(d)
           \/ \E f \in Foots : Detach(f) \/ CloseFoot(f) \/ Attach(f) \/ SendSize(f) \/ Detached(f)
           \/ UNCHANGED vars
  <2>1. UNCHANGED <<usr1, todo, inbox, here, cwd, said>>
    BY <1>3, <1>b, <1>l DEF Navigate, CdTyped, Detach, CloseFoot, Attach, SendSize, Detached, FootStep, holder, zsh, browser, vars
  <2> QED  BY <1>a, <1>b, <2>1
<1>4. CASE Ready \/ Finishes
  <2>1. UNCHANGED <<usr1, todo, inbox, here, cwd>> /\ said' = Append(said, here)
    BY <1>4 DEF Ready, Finishes, Prints, ShellStep, holder, browser
  <2> QED  BY <1>b, <1>p, <2>1
<1>5. CASE Trap
  BY <1>5, <1>b DEF Trap
<1>6. CASE Holder
  <2>1. CASE \/ Bind \/ StartShell \/ Poll \/ Accept \/ ReadMaster \/ ShellExited \/ NoOutput \/ HangUp \/ NoInput
             \/ PacketsDone \/ CloseSocket \/ HolderExits
    <3>1. UNCHANGED <<todo, inbox, here, cwd>> /\ ~usr1' /\ (said' = said \/ said' = <<>>)
      BY <1>b, <2>1 DEF Bind, StartShell, Poll, Accept, ReadMaster, ShellExited, NoOutput, HangUp, Reads, NoInput,
                        PacketsDone, CloseSocket, HolderExits, HolderStep, zsh, browser
    <3> QED  BY <1>a, <3>1
  <2>2. CASE ReadPackets \/ SizePacket \/ CdPacket \/ WriteCd
    BY <1>b, <1>c, <2>2 DEF ReadPackets, Reads, SizePacket, CdPacket, WriteCd
  <2> QED  BY <1>6, <2>1, <2>2 DEF Holder
<1> QED  BY <1>1, <1>2, <1>3, <1>4, <1>5, <1>6 DEF Next, User

(* Once browser and shell have lost touch they never find it again.         *)
LEMMA TouchBack == IInv /\ InHand /\ [Next]_vars => (InTouch' => InTouch)
<1> SUFFICES ASSUME IInv, InHand, [Next]_vars, InTouch' PROVE InTouch
  OBVIOUS
<1>c. /\ View \in Clients /\ Foots \subseteq Clients /\ View \notin Foots
      /\ link \in [Clients -> {"none", "open", "shut", "left", "over"}]
      /\ unmet \in BOOLEAN
  BY ConstantsAssumption DEF IInv, TypeOK, Clients, Flags
<1>i. view' \in {"connecting", "running"} /\ link'[View] \in {"none", "open"} /\ ~unmet' /\ shell' # "exited"
  BY DEF InTouch
<1>1. view \in {"connecting", "running"}
  BY <1>i DEF Next, Holder, TheView, User, Accept, Bind, StartShell, Poll, ReadMaster, ShellExited, NoOutput,
              ReadPackets, HangUp, NoInput, SizePacket, CdPacket, WriteCd, PacketsDone, CloseSocket, HolderExits,
              TryConnect, Connected, Hears, Disconnected, CloseWindow, Runs, Exits, Navigate, CdTyped, Detach,
              CloseFoot, Ready, Finishes, Trap, Attach, SendSize, Detached, FootStep, ShellStep, HolderStep,
              browser, vars
<1>2. shell # "exited"
  BY <1>i DEF Next, Holder, TheView, User, Accept, Bind, StartShell, Poll, ReadMaster, ShellExited, NoOutput,
              ReadPackets, HangUp, NoInput, SizePacket, CdPacket, WriteCd, PacketsDone, CloseSocket, HolderExits,
              TryConnect, Connected, Hears, Disconnected, CloseWindow, Runs, Exits, Navigate, CdTyped, Detach,
              CloseFoot, Ready, Finishes, Trap, Attach, SendSize, Detached, FootStep, ShellStep, ViewStep, HolderStep,
              zsh, vars, InHand
<1>3. ~unmet
  BY <1>i DEF Next, Holder, TheView, User, Accept, Bind, StartShell, Poll, ReadMaster, ShellExited, NoOutput,
              ReadPackets, HangUp, NoInput, SizePacket, CdPacket, WriteCd, PacketsDone, CloseSocket, HolderExits,
              TryConnect, Connected, Hears, Disconnected, CloseWindow, Runs, Exits, Navigate, CdTyped, Detach,
              CloseFoot, Ready, Finishes, Trap, Attach, SendSize, Detached, FootStep, ShellStep, ViewStep, vars
<1>4. link[View] \in {"none", "open"}
  <2>1. CASE \E C : link' = ClosedByHolder(C)
    BY <1>c, <1>i, <2>1 DEF ClosedByHolder
  <2>2. CASE link' = link
    BY <1>i, <2>2
  <2>3. CASE \E c \in Clients : Leave(c)
    BY <1>c, <1>i, <2>3 DEF Leave
  <2>4. CASE TryConnect
    BY <2>4 DEF TryConnect
  <2>5. CASE \E f \in Foots : Attach(f)
    BY <1>c, <1>i, <2>5 DEF Attach, Connects, links
  <2>6. \/ (\E C : link' = ClosedByHolder(C)) \/ link' = link \/ (\E c \in Clients : Leave(c))
        \/ TryConnect \/ \E f \in Foots : Attach(f)
    BY <1>c DEF Next, Holder, TheView, User, Accept, Bind, StartShell, Poll, ReadMaster, ShellExited, NoOutput,
              ReadPackets, HangUp, NoInput, SizePacket, CdPacket, WriteCd, PacketsDone, CloseSocket, HolderExits,
              Connected, Hears, Disconnected, CloseWindow, Runs, Exits, Navigate, CdTyped, Detach,
              CloseFoot, Ready, Finishes, Trap, SendSize, Detached, ShellStep, links, vars
  <2> QED  BY <2>1, <2>2, <2>3, <2>4, <2>5, <2>6
<1> QED  BY <1>1, <1>2, <1>3, <1>4 DEF InTouch

(* What is the last Cd of some packets, as they come and go. *)
LEMMA CdSent ==
  ASSUME NEW s \in Seq(Packets), NEW d \in Dirs
  PROVE  LastCd(Append(s, d), d)
<1>1. Append(s, d)[Len(s) + 1] = d /\ Len(Append(s, d)) = Len(s) + 1
  BY AppendProperties DEF Packets
<1>2. \A j \in 1 .. Len(s) + 1 : j > Len(s) + 1 => Append(s, d)[j] \notin Dirs
  OBVIOUS
<1> QED  BY <1>1, <1>2 DEF LastCd
LEMMA NextPacket ==
  ASSUME NEW s \in Seq(Packets), s # <<>>
  PROVE  /\ Head(s) \in Packets /\ Tail(s) \in Seq(Packets)
         /\ NoCd(s) => NoCd(Tail(s)) /\ Head(s) \notin Dirs
         /\ \A d \in Dirs : LastCd(s, d) => \/ LastCd(Tail(s), d)
                                            \/ Head(s) = d /\ NoCd(Tail(s))
<1>1. /\ Head(s) = s[1] /\ Head(s) \in Packets /\ Len(s) \in Nat \ {0} /\ Tail(s) \in Seq(Packets)
      /\ Len(Tail(s)) = Len(s) - 1
      /\ \A k \in 1 .. Len(Tail(s)) : Tail(s)[k] = s[k + 1]
  BY HeadTailProperties, EmptySeq
<1>2. NoCd(s) => NoCd(Tail(s)) /\ Head(s) \notin Dirs
  BY <1>1 DEF NoCd
<1>3. ASSUME NEW d \in Dirs, NEW k \in 1 .. Len(s), s[k] = d, \A j \in 1 .. Len(s) : j > k => s[j] \notin Dirs
      PROVE  LastCd(Tail(s), d) \/ (Head(s) = d /\ NoCd(Tail(s)))
  <2>1. CASE k = 1
    <3>1. NoCd(Tail(s))
      BY <1>1, <1>3, <2>1 DEF NoCd
    <3> QED  BY <1>1, <1>3, <2>1, <3>1
  <2>2. CASE k # 1
    <3>1. k - 1 \in 1 .. Len(Tail(s)) /\ Tail(s)[k - 1] = d
      BY <1>1, <1>3, <2>2
    <3>2. \A j \in 1 .. Len(Tail(s)) : j > k - 1 => Tail(s)[j] \notin Dirs
      BY <1>1, <1>3
    <3> QED  BY <3>1, <3>2 DEF LastCd
  <2> QED  BY <2>1, <2>2
<1> QED  BY <1>1, <1>2, <1>3 DEF LastCd

(* A report joins what has been said or sent before. *)
LEMMA Reported ==
  ASSUME NEW s \in Seq(Dirs), NEW d \in Dirs
  PROVE  /\ Append(s, d) # <<>> /\ Append(s, d)[Len(Append(s, d))] = d
         /\ \A x : (\E k \in 1 .. Len(s) : s[k] # x) => \E k \in 1 .. Len(Append(s, d)) : Append(s, d)[k] # x
         /\ \A x : d # x => \E k \in 1 .. Len(Append(s, d)) : Append(s, d)[k] # x
<1>1. /\ Append(s, d) # <<>> /\ Len(Append(s, d)) = Len(s) + 1 /\ Len(s) \in Nat
      /\ Append(s, d)[Len(s) + 1] = d /\ \A k \in 1 .. Len(s) : Append(s, d)[k] = s[k]
  BY AppendProperties
<1> QED  BY <1>1
LEMMA Delivered ==
  ASSUME NEW s \in Seq(Dirs), NEW t \in Seq(Dirs), t # <<>>
  PROVE  /\ s \o t # <<>> /\ (s \o t)[Len(s \o t)] = t[Len(t)]
         /\ \A x : (\/ \E k \in 1 .. Len(s) : s[k] # x
                    \/ \E k \in 1 .. Len(t) : t[k] # x) => \E k \in 1 .. Len(s \o t) : (s \o t)[k] # x
<1>1. /\ Len(s \o t) = Len(s) + Len(t) /\ Len(s) \in Nat /\ Len(t) \in Nat \ {0} /\ s \o t \in Seq(Dirs)
      /\ \A k \in 1 .. Len(s) : (s \o t)[k] = s[k]
      /\ \A k \in 1 .. Len(t) : (s \o t)[Len(s) + k] = t[k]
  BY ConcatProperties, EmptySeq
<1>2. s \o t # <<>> /\ (s \o t)[Len(s \o t)] = t[Len(t)]
  BY <1>1, EmptySeq
<1>3. ASSUME NEW x, NEW k \in 1 .. Len(t), t[k] # x PROVE \E h \in 1 .. Len(s \o t) : (s \o t)[h] # x
  <2>1. Len(s) + k \in 1 .. Len(s \o t) /\ (s \o t)[Len(s) + k] # x
    BY <1>1, <1>3
  <2> QED  BY <2>1
<1>4. ASSUME NEW x, NEW k \in 1 .. Len(s), s[k] # x PROVE \E h \in 1 .. Len(s \o t) : (s \o t)[h] # x
  <2>1. k \in 1 .. Len(s \o t) /\ (s \o t)[k] # x
    BY <1>1, <1>4
  <2> QED  BY <2>1
<1> QED  BY <1>2, <1>3, <1>4
LEMMA TakenOff ==
  ASSUME NEW s \in Seq(Dirs), s # <<>>
  PROVE  /\ Head(s) \in Dirs
         /\ Tail(s) # <<>> => Tail(s)[Len(Tail(s))] = s[Len(s)]
         /\ Tail(s) = <<>> => Head(s) = s[Len(s)]
         /\ \A x : (\E k \in 1 .. Len(s) : s[k] # x) /\ Head(s) = x => \E k \in 1 .. Len(Tail(s)) : Tail(s)[k] # x
<1>1. /\ Head(s) = s[1] /\ Head(s) \in Dirs /\ Len(s) \in Nat \ {0} /\ Tail(s) \in Seq(Dirs)
      /\ Len(Tail(s)) = Len(s) - 1
      /\ \A k \in 1 .. Len(Tail(s)) : Tail(s)[k] = s[k + 1]
  BY HeadTailProperties, EmptySeq
<1>2. Tail(s) # <<>> => Tail(s)[Len(Tail(s))] = s[Len(s)]
  <2>1. Tail(s) # <<>> => Len(Tail(s)) \in Nat \ {0}
    BY <1>1, EmptySeq
  <2> QED  BY <1>1, <2>1
<1>3. Tail(s) = <<>> => Head(s) = s[Len(s)]
  <2>1. Tail(s) = <<>> => Len(Tail(s)) = 0
    BY EmptySeq
  <2> QED  BY <1>1, <2>1
<1>4. ASSUME NEW x, NEW k \in 1 .. Len(s), s[k] # x, Head(s) = x
      PROVE  \E h \in 1 .. Len(Tail(s)) : Tail(s)[h] # x
  <2>1. k - 1 \in 1 .. Len(Tail(s)) /\ Tail(s)[k - 1] # x
    BY <1>1, <1>4
  <2> QED  BY <2>1
<1> QED  BY <1>1, <1>2, <1>3, <1>4

(* Each step leaves the two tied, or ends their touch. *)
LEMMA TiedStep == IInv /\ FInv /\ [Next]_vars => Tied'
<1> SUFFICES ASSUME IInv, FInv, [Next]_vars, InTouch' PROVE Ties'
  BY DEF Tied
<1>c. /\ View \in Clients /\ Foots \subseteq Clients /\ View \notin Foots /\ Nobody \notin Clients
      /\ Dirs \subseteq Packets /\ "size" \in Packets /\ "size" \notin Dirs /\ "nothing" \notin Dirs
      /\ mail \in [Clients -> Seq(Packets)] /\ mail[View] \in Seq(Packets)
      /\ todo \in Seq(Packets) /\ said \in Seq(Dirs) /\ inbox \in Seq(Dirs)
      /\ here \in Dirs /\ cwd \in Dirs /\ dir \in Dirs /\ cdfile \in Dirs \cup {"nothing"}
      /\ client # Nobody => client = last
      /\ client \in Clients \cup {Nobody}
      /\ at = "cd" => todo # <<>> /\ Head(todo) \in Dirs
      /\ view = "running" => link[View] \in {"open", "shut"}
  BY ConstantsAssumption DEF IInv, TypeOK, FoundTruly, Met, LinksFit, Clients, Packets
<1>t. /\ view \in {"connecting", "running"} /\ link[View] \in {"none", "open"} /\ ~unmet /\ shell # "exited"
      /\ LastReport /\ (dir = cwd \/ CdToCome \/ NewsToCome)
  BY TouchBack DEF FInv, Tied, Ties, InTouch
<1>n. view' \in {"connecting", "running"} /\ ~unmet' /\ shell' # "exited"
  BY DEF InTouch
<1>o. last # Nobody => link[View] = "open" /\ client = View
  BY <1>t, FirstOfAll DEF FInv, ViewFirst
(* Neither end moves, nor what is on the way.                              *)
<1>k. ASSUME UNCHANGED <<said, inbox, cwd, here, dir, todo, usr1, cdfile, view>>, mail'[View] = mail[View]
      PROVE  Ties'
  BY <1>k, <1>t DEF Ties, LastReport, CdToCome, NewsToCome
(* The shell reports where it is.                                          *)
<1>p. ASSUME UNCHANGED <<inbox, cwd, dir, todo, cdfile, view, mail>>, here' \in Dirs, said' = Append(said, here'),
             usr1' = usr1 \/ cdfile = here' \/ cdfile \notin Dirs
      PROVE  Ties'
  <2>1. PICK d \in Dirs : d = here'
    BY <1>p
  <2>2. /\ said' # <<>> /\ said'[Len(said')] = d
        /\ NewsToCome => NewsToCome'
        /\ d # cwd => NewsToCome'
    BY <1>c, <1>p, <2>1, Reported DEF NewsToCome
  <2>3. LastReport'
    BY <2>1, <2>2 DEF LastReport
  <2>4. dir' = cwd' \/ CdToCome' \/ NewsToCome'
    <3>1. CASE usr1' = usr1
      BY <1>p, <1>t, <2>2, <3>1 DEF CdToCome
    <3>2. CASE cdfile \notin Dirs
      BY <1>c, <1>p, <1>t, <2>2, <3>2 DEF CdToCome
    <3>3. CASE cdfile = here'
      BY <1>p, <1>t, <2>1, <2>2, <3>3 DEF CdToCome
    <3> QED  BY <1>p, <3>1, <3>2, <3>3
  <2> QED  BY <2>3, <2>4 DEF Ties
<1>1. CASE TryConnect
  <2>1. view' = view /\ UNCHANGED <<mail, said, inbox, cwd, here, dir, todo, usr1, cdfile>>
    BY <1>1, <1>n DEF TryConnect, Connects, ViewStep, links, holder, zsh
  <2> QED  BY <1>k, <2>1
<1>2. CASE Connected
  <2>1. view = "connecting" /\ UNCHANGED <<said, inbox, cwd, here, dir>>
    BY <1>2 DEF Connected, ViewStep, zsh
  <2> QED  BY <1>t, <2>1 DEF Ties, LastReport, CdToCome, NewsToCome
<1>3. CASE Hears
  <2>1. /\ inbox # <<>> /\ cwd' = Head(inbox) /\ inbox' = Tail(inbox)
        /\ dir' = IF Head(inbox) # cwd THEN Head(inbox) ELSE dir
        /\ UNCHANGED <<said, here, todo, usr1, cdfile, mail, view>>
    BY <1>3 DEF Hears, ViewStep, links, holder, zsh
  <2>2. LastReport'
    BY <1>c, <1>t, <2>1, TakenOff DEF LastReport
  <2>3. Head(inbox) = cwd /\ NewsToCome => NewsToCome'
    BY <1>c, <2>1, TakenOff DEF NewsToCome
  <2>4. Head(inbox) = cwd /\ CdToCome => CdToCome'
    BY <2>1 DEF CdToCome
  <2> QED  BY <1>t, <2>1, <2>2, <2>3, <2>4 DEF Ties
<1>4. CASE Disconnected \/ CloseWindow
  BY <1>4, <1>n DEF Disconnected, CloseWindow
<1>5. ASSUME NEW d \in Dirs, Navigate(d) PROVE Ties'
  <2>1. dir' = d /\ UNCHANGED <<said, inbox, cwd, here, todo, usr1, cdfile, view>>
    BY <1>5 DEF Navigate, holder, zsh
  <2>2. LastReport'
    BY <1>t, <2>1 DEF LastReport
  <2>3. CASE cwd = d
    BY <2>1, <2>2, <2>3 DEF Ties
  <2>4. CASE cwd # d /\ view = "running"
    <3>1. Sends(View, d)
      BY <1>5, <1>c, <1>t, <2>4 DEF Navigate
    <3>2. mail'[View] = Append(mail[View], d)
      BY <1>c, <3>1 DEF Sends
    <3>3. LastCd(mail'[View], dir')
      BY <1>c, <2>1, <3>2, CdSent
    <3>4. CdToCome'
      BY <2>1, <2>4, <3>3 DEF CdToCome
    <3> QED  BY <2>2, <3>4 DEF Ties
  <2>5. CASE cwd # d /\ view # "running"
    BY <1>5, <1>n, <1>t, <2>5 DEF Navigate
  <2> QED  BY <2>3, <2>4, <2>5
<1>6. CASE Ready \/ Finishes
  <2>1. said' = Append(said, here') /\ here' = here /\ UNCHANGED <<usr1, inbox, cwd, dir, todo, cdfile, view, mail>>
    BY <1>6 DEF Ready, Finishes, Prints, ShellStep, holder, links, browser
  <2> QED  BY <1>c, <1>p, <2>1
<1>7. ASSUME NEW d \in Dirs, CdTyped(d) PROVE Ties'
  <2>1. said' = Append(said, here') /\ here' = d /\ UNCHANGED <<usr1, inbox, cwd, dir, todo, cdfile, view, mail>>
    BY <1>7 DEF CdTyped, Prints, ShellStep, holder, links, browser
  <2> QED  BY <1>p, <2>1
<1>8. CASE Exits
  BY <1>8, <1>n DEF Exits
<1>9. CASE Trap
  <2>1. UNCHANGED <<inbox, cwd, dir, todo, cdfile, view, mail>> /\ ~usr1'
    BY <1>9 DEF Trap, ShellStep, holder, links, browser
  <2>2. CASE cdfile \notin {"nothing", here}
    <3>1. here' = cdfile /\ said' = Append(said, here')
      BY <1>9, <2>2 DEF Trap, Prints
    <3>2. CASE dir = cdfile
      <4>1. PICK d \in Dirs : d = cdfile
        BY <1>c, <2>2
      <4>2. /\ said' # <<>> /\ said'[Len(said')] = d /\ (d # cwd => NewsToCome')
        BY <1>c, <2>1, <3>1, <4>1, Reported DEF NewsToCome
      <4> QED  BY <2>1, <3>1, <3>2, <4>1, <4>2 DEF Ties, LastReport
    <3>3. CASE dir # cdfile
      <4>1. PICK d \in Dirs : d = cdfile
        BY <1>c, <2>2
      <4>2. /\ said' # <<>> /\ said'[Len(said')] = d /\ (NewsToCome => NewsToCome')
        <5>1. /\ said' # <<>> /\ said'[Len(said')] = d
              /\ (\E k \in 1 .. Len(said) : said[k] # cwd) => \E k \in 1 .. Len(said') : said'[k] # cwd
          BY <1>c, <3>1, <4>1, Reported
        <5> QED  BY <2>1, <5>1 DEF NewsToCome
      <4>3. CdToCome => CdToCome'
        BY <2>1, <3>3 DEF CdToCome
      <4> QED  BY <1>t, <2>1, <3>1, <4>1, <4>2, <4>3 DEF Ties, LastReport
    <3> QED  BY <3>2, <3>3
  <2>3. CASE cdfile \in {"nothing", here}
    <3>1. UNCHANGED <<here, said>>
      BY <1>9, <2>3 DEF Trap
    <3>2. LastReport'
      BY <1>t, <2>1, <3>1 DEF LastReport
    <3>3. NewsToCome => NewsToCome'
      BY <2>1, <3>1 DEF NewsToCome
    <3>4. CdToCome => CdToCome' \/ cdfile = dir
      BY <2>1 DEF CdToCome
    <3>5. cdfile = dir /\ dir # cwd => NewsToCome
      <4> SUFFICES ASSUME cdfile = dir, dir # cwd PROVE NewsToCome
        OBVIOUS
      <4>1. here # cwd
        BY <1>c, <2>3
      <4>2. CASE said # <<>>
        <5>1. said[Len(said)] # cwd /\ Len(said) \in 1 .. Len(said)
          BY <1>c, <1>t, <4>1, <4>2, EmptySeq DEF LastReport
        <5> QED  BY <5>1 DEF NewsToCome
      <4>3. CASE said = <<>> /\ inbox # <<>>
        <5>1. inbox[Len(inbox)] # cwd /\ Len(inbox) \in 1 .. Len(inbox)
          BY <1>c, <1>t, <4>1, <4>3, EmptySeq DEF LastReport
        <5> QED  BY <5>1 DEF NewsToCome
      <4> QED  BY <1>t, <4>1, <4>2, <4>3 DEF LastReport
    <3> QED  BY <1>t, <2>1, <3>2, <3>3, <3>4, <3>5 DEF Ties
  <2> QED  BY <2>2, <2>3
<1>10. CASE Bind \/ StartShell \/ Poll \/ Accept \/ ShellExited \/ NoOutput \/ HangUp \/ NoInput \/ PacketsDone
            \/ HolderExits \/ Runs \/ UNCHANGED vars
            \/ \E f \in Foots : Detach(f) \/ CloseFoot(f) \/ Attach(f) \/ Detached(f)
  <2>1. UNCHANGED <<said, inbox, cwd, here, dir, todo, usr1, cdfile, view, mail>>
    BY <1>10 DEF Bind, StartShell, Poll, Accept, ShellExited, NoOutput, HangUp, NoInput, PacketsDone, HolderExits,
                 Runs, Detach, CloseFoot, Attach, Connects, Detached, HolderStep, ShellStep, FootStep, holder, links,
                 zsh, browser, vars
  <2> QED  BY <1>k, <2>1
<1>11. ASSUME NEW f \in Foots, SendSize(f) PROVE Ties'
  <2>1. mail'[View] = mail[View] /\ UNCHANGED <<said, inbox, cwd, here, dir, todo, usr1, cdfile, view>>
    BY <1>11, <1>c DEF SendSize, Sends, FootStep, holder, zsh, browser
  <2> QED  BY <1>k, <2>1
<1>12. CASE ReadMaster
  <2>1. said # <<>> /\ said' = <<>> /\ UNCHANGED <<cwd, here, dir, todo, usr1, cdfile, view, mail>>
    BY <1>12 DEF ReadMaster
  <2>2. CdToCome => CdToCome'
    BY <2>1 DEF CdToCome
  <2>3. CASE last # Nobody
    <3>1. inbox' = inbox \o said
      BY <1>12, <1>o, <2>3 DEF ReadMaster
    <3>2. LastReport'
      BY <1>c, <1>t, <2>1, <3>1, Delivered DEF LastReport
    <3>3. NewsToCome => NewsToCome'
      <4>1. NewsToCome => \E k \in 1 .. Len(inbox') : inbox'[k] # cwd
        <5>1. \A x : (\/ \E k \in 1 .. Len(inbox) : inbox[k] # x
                      \/ \E k \in 1 .. Len(said) : said[k] # x)
                        => \E k \in 1 .. Len(inbox \o said) : (inbox \o said)[k] # x
          BY <1>c, <2>1, Delivered
        <5> QED  BY <3>1, <5>1, Zenon DEF NewsToCome
      <4> QED  BY <2>1, <4>1 DEF NewsToCome
    <3> QED  BY <1>t, <2>1, <2>2, <3>2, <3>3 DEF Ties
  <2>4. CASE last = Nobody
    <3>1. /\ inbox = <<>> /\ here = Home /\ cwd = Home /\ \A k \in 1 .. Len(said) : said[k] = Home
          /\ client = Nobody
      BY <1>c, <2>4 DEF FInv, Before
    <3>2. inbox' = inbox
      BY <1>12, <1>c, <3>1 DEF ReadMaster
    <3>3. LastReport'
      BY <2>1, <3>1, <3>2 DEF LastReport
    <3>4. ~NewsToCome
      BY <3>1, EmptySeq DEF NewsToCome
    <3> QED  BY <1>t, <2>1, <2>2, <3>3, <3>4 DEF Ties
  <2> QED  BY <2>3, <2>4
<1>13. CASE ReadPackets \/ SizePacket \/ CdPacket \/ WriteCd
  <2>1. UNCHANGED <<said, inbox, cwd, here, dir, view>>
    BY <1>13 DEF ReadPackets, SizePacket, CdPacket, WriteCd, HolderStep, browser, zsh
  <2>2. LastReport' /\ (NewsToCome => NewsToCome')
    BY <1>t, <2>1 DEF LastReport, NewsToCome
  <2> SUFFICES ASSUME CdToCome PROVE CdToCome'
    BY <1>t, <2>1, <2>2 DEF Ties
  <2>3. /\ view = "running"
        /\ \/ LastCd(mail[View], dir)
           \/ NoCd(mail[View]) /\ LastCd(todo, dir)
           \/ NoCd(mail[View]) /\ NoCd(todo) /\ usr1 /\ cdfile = dir
    BY DEF CdToCome
  <2>4. CASE ReadPackets
    <3>1. client = View /\ todo' = mail[View] /\ mail'[View] = <<>> /\ UNCHANGED <<usr1, cdfile>> /\ at = "client"
      BY <1>c, <1>o, <2>4 DEF ReadPackets, Reads, zsh
    <3>2. todo = <<>>
      BY <3>1 DEF FInv, InHand
    <3>3. NoCd(<<>>) /\ ~LastCd(<<>>, dir)
      BY EmptySeq DEF NoCd, LastCd
    <3>4. NoCd(mail'[View]) /\ (LastCd(todo', dir) \/ (NoCd(todo') /\ usr1' /\ cdfile' = dir))
      BY <2>3, <3>1, <3>2, <3>3
    <3> QED  BY <2>1, <2>3, <3>4 DEF CdToCome
  <2>5. CASE SizePacket
    <3>1. todo # <<>> /\ Head(todo) = "size" /\ todo' = Tail(todo) /\ UNCHANGED <<mail, usr1, cdfile>>
      BY <2>5 DEF SizePacket, links, zsh
    <3>2. (NoCd(todo) => NoCd(todo')) /\ (LastCd(todo, dir) => LastCd(todo', dir))
      BY <1>c, <3>1, NextPacket
    <3>3. CdToCome'
      BY <2>1, <2>3, <3>1, <3>2 DEF CdToCome
    <3> QED  BY <3>3
  <2>6. CASE CdPacket
    <3>1. InForeground
      BY <1>n, <2>6 DEF CdPacket
    <3>2. todo # <<>> /\ Head(todo) \in Dirs /\ UNCHANGED <<todo, mail>>
      BY <2>6, <3>1 DEF CdPacket, links
    <3>3. ~NoCd(todo)
      BY <1>c, <3>2, NextPacket
    <3> QED  BY <2>1, <2>3, <3>2, <3>3 DEF CdToCome
  <2>7. CASE WriteCd
    <3>1. /\ at = "cd" /\ cdfile' = Head(todo) /\ todo' = Tail(todo) /\ UNCHANGED mail
          /\ usr1' = (shell \in {"prompt", "busy"}) /\ shell # "starting"
      BY <1>n, <2>7 DEF WriteCd, links
    <3>2. shell \in {"prompt", "busy"}
      BY <1>t, <3>1 DEF FInv, InHand, IInv, TypeOK
    <3>3. ~NoCd(todo) /\ (LastCd(todo, dir) => LastCd(todo', dir) \/ (cdfile' = dir /\ NoCd(todo')))
      BY <1>c, <3>1, NextPacket
    <3> QED  BY <2>1, <2>3, <3>1, <3>2, <3>3 DEF CdToCome
  <2> QED  BY <1>13, <2>4, <2>5, <2>6, <2>7
<1>14. CASE CloseSocket
  BY <1>14, <1>n DEF CloseSocket
<1> QED
  BY <1>1, <1>2, <1>3, <1>4, <1>5, <1>6, <1>7, <1>8, <1>9, <1>10, <1>11, <1>12, <1>13, <1>14
  DEF Next, Holder, TheView, User

(* What ties browser and shell holds throughout. *)
THEOREM TiedThroughout == Spec => []FInv
<1>1. IInv /\ FInv /\ [Next]_vars => FInv'
  BY InHandStep, FirstStep, BeforeStep, TiedStep DEF FInv
<1> QED  BY InitFInv, <1>1, Invariant, PTL DEF Spec

(* However the user's moves and the shell's cross on the way, with any      *)
(* number of foot windows and folders, the browser is where the shell is    *)
(* when all is still, as long as every Cd found the shell at its prompt.    *)
THEOREM ShellAndBrowserMeet == Spec => []FollowEachOther
<1>1. IInv /\ FInv => FollowEachOther
  <2> SUFFICES ASSUME IInv, FInv, AllStill, ~unmet PROVE dir = here
    BY DEF FollowEachOther
  <2>1. /\ at = "poll" /\ link[View] = "open" /\ view = "running" /\ shell = "prompt" /\ ~usr1
        /\ mail[View] = <<>> /\ said = <<>> /\ inbox = <<>> /\ todo = <<>>
    BY DEF AllStill, FInv, InHand
  <2>2. Ties
    BY <2>1 DEF FInv, Tied, InTouch
  <2>3. here = cwd
    BY <2>1, <2>2 DEF Ties, LastReport
  <2>4. ~LastCd(<<>>, dir) /\ ~NewsToCome
    BY <2>1, EmptySeq DEF LastCd, NewsToCome
  <2> QED  BY <2>1, <2>2, <2>3, <2>4 DEF Ties, CdToCome
<1> QED  BY <1>1, Invariant, TiedThroughout, PTL
=============================================================================
