------------------------------ MODULE MCSharing ------------------------------
EXTENDS Sharing

CONSTANTS u1, m1

MCUsers == {u1}
MCManagers == {m1}

(* The project is shared, or the document itself.                          *)
MCSharesBefore ==
  {[e \in 0 .. Depth |-> [u \in Users |-> IF e = shared THEN "Edit" ELSE "None"]] :
     shared \in {0, Depth}}
=============================================================================
