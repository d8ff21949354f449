------------------------------ MODULE MCFileJobs ------------------------------
(***************************************************************************)
(* FileJobs on two drives: "home" and "docs" on the system drive with the  *)
(* home trash, "usb" on another, with or without a trash of its own.       *)
(* There is a folder x of two files and a plain file y; x2 and x3 stand     *)
(* for "x (2)" and "x (3)".                                                *)
(***************************************************************************)
EXTENDS FileJobs

Tops == {"home", "docs", "usb", "trash", "usbtrash"}
Names == {"x", "x2", "x3", "y", "y2", "y3"}
Entries == {"a", "b"}

MCPaths == {<<t>> : t \in Tops}
           \cup {<<t, n>> : t \in Tops, n \in Names}
           \cup {<<t, n, e>> : t \in Tops, n \in {"x", "x2", "x3"}, e \in Entries}
           \cup {<<t, "x", "y">> : t \in {"home", "usb"}}

MCVolume == [t \in Tops |-> IF t \in {"usb", "usbtrash"} THEN "B" ELSE "A"]
MCAlias == [n \in Names \cup Entries \cup Tops |-> IF n = "x" THEN <<"x2", "x3">> ELSE IF n = "y" THEN <<"y2", "y3">> ELSE <<>>]
MCTrashDirs == {"trash", "usbtrash"}
OwnTrash == [t \in Tops |-> IF t \in {"usb", "usbtrash"} THEN "usbtrash" ELSE "trash"]
HomeTrash == [t \in Tops |-> "trash"]

(* home/x/{a,b} and home/y. *)
PlainTree == [p \in MCPaths |->
  CASE Len(p) = 1 \/ p = <<"home", "x">> -> Dir
    [] p = <<"home", "x", "a">> -> 1
    [] p = <<"home", "x", "b">> -> 2
    [] p = <<"home", "y">> -> 3
    [] OTHER -> NoEnt]

(* The same on the usb drive. *)
UsbTree == [p \in MCPaths |->
  CASE Len(p) = 1 \/ p = <<"usb", "x">> -> Dir
    [] p = <<"usb", "x", "a">> -> 1
    [] p = <<"usb", "x", "b">> -> 2
    [] OTHER -> NoEnt]

(* home/y, home/"y (2)" and usb/y. *)
TwinTree == [p \in MCPaths |->
  CASE Len(p) = 1 -> Dir
    [] p = <<"home", "y">> -> 1
    [] p = <<"home", "y2">> -> 2
    [] p = <<"usb", "y">> -> 3
    [] OTHER -> NoEnt]

Cmd(op, args, dest) == [op |-> op, args |-> args, dest |-> dest]
X(top) == <<top, "x">>
Y(top) == <<top, "y">>

AllCommands == {Cmd("copy", <<X("home"), Y("home")>>, <<"usb">>),
                Cmd("copy", <<X("home")>>, <<"home">>),
                Cmd("move", <<X("home"), Y("home")>>, <<"usb">>),
                Cmd("move", <<X("home")>>, <<"docs">>),
                Cmd("trash", <<X("home"), Y("home")>>, <<>>),
                Cmd("remove", <<X("home")>>, <<>>),
                Cmd("remove", <<X("trash")>>, <<>>),
                Cmd("restore", <<X("trash"), Y("trash")>>, <<>>),
                Cmd("empty", <<>>, <<"trash">>)}

(* Two at once, of which at most one writes where the other looks.         *)
Overlapping ==
  LET copy == Cmd("copy", <<X("home"), Y("home")>>, <<"usb">>)
      trash == Cmd("trash", <<X("home"), Y("home")>>, <<>>)
      move == Cmd("move", <<X("home")>>, <<"docs">>)
  IN {{copy, trash}, {copy, move}, {trash, move}}

(* Into the trash of another drive; two across, one with the name the      *)
(* other is going to get.                                                  *)
TrashAcross == {Cmd("trash", <<X("usb")>>, <<>>)}
MoveTwins == {Cmd("move", <<Y("home"), <<"home", "y2">>>>, <<"usb">>)}

(* Two transfers at once: x across drives, and y into x meanwhile. *)
IntoEachOther == {Cmd("move", <<X("home")>>, <<"usb">>), Cmd("move", <<Y("home")>>, X("home"))}
AtOnce == {IntoEachOther}
===============================================================================
