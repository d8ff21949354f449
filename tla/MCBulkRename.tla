----------------------------- MODULE MCBulkRename -----------------------------
(***************************************************************************)
(* BulkRename on a folder of three files under three names and a free one, *)
(* and, in the runs that let one appear, a fourth file.  The lists are a   *)
(* swap, a chain, a cycle and a plain rename.  Names are model values: TLC *)
(* tells them from the numbers that stand for temporary names.             *)
(***************************************************************************)
EXTENDS BulkRename, TLC

CONSTANTS a, b, c, d

MCNames == {a, b, c, d}
OnlyThree == "A" :> a @@ "B" :> b @@ "C" :> c
OneToCome == OnlyThree @@ "New" :> Nowhere

To(x, y) == [from |-> x, to |-> y]
MCLists == {<<To(a, b), To(b, a)>>,
            <<To(a, b), To(b, d)>>,
            <<To(a, b), To(b, c), To(c, a)>>,
            <<To(c, d)>>}
===============================================================================
