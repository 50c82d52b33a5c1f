------------------------------ MODULE MCPolicy ------------------------------
(***************************************************************************)
(* Small instances of CentralPolicy: three sets of two, one and two pages, *)
(* which share rooms with each other, with the node's own and with its     *)
(* ping channel, and together with the operator's fill the tables.         *)
(***************************************************************************)
EXTENDS CentralPolicy

MCRoom == {"#a", "#b", "#c", "#mesh"}
MCBlock == {"self", "spam"}
MCFileRooms == <<"#a">>
MCPage(rooms, blocks) == [rooms |-> rooms, blocks |-> blocks]
MCSets ==
  << <<MCPage(<<"#b">>, {"self"}), MCPage(<<"#mesh">>, {"spam"})>>,
     <<MCPage(<<"#a", "#c", "#b">>, {})>>,
     <<MCPage(<<"#c">>, {}), MCPage(<<>>, {"spam"})>> >>
=============================================================================
