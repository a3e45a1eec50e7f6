------------------------------ MODULE MCLoops ------------------------------
(* Loops whose memory no factory can still be at work on when it is used   *)
(* again, and loops that use it again.                                     *)
EXTENDS Loops
MCPrograms ==
  {<<"para", 3, 2>>, <<"codelet", 3, 1>>, <<"serial", 1, 1>>,
   <<"codelet", 2, 2>>, <<"serial", 3, 2>>}
Serial == {<<"serial", 2, 1>>}
=============================================================================
