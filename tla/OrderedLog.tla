------------------------------ MODULE OrderedLog -------------------------------
(***************************************************************************)
(* What the operation log of an open document promises to those who read   *)
(* it, whatever happens behind it: operations get the numbers 1, 2, 3, ... *)
(* one at a time and are in the log the moment they have their number; the *)
(* log forgets only from the old end, and only what is more than           *)
(* KeepRevisions behind the newest.                                        *)
(***************************************************************************)
EXTENDS Integers

CONSTANT KeepRevisions

VARIABLES
  head,      \* the newest revision
  retained   \* the revisions that a reader can still get

Init == head = 0 /\ retained = {}

Commit ==
  /\ head' = head + 1
  /\ retained' = retained \union {head + 1}

Forget ==
  /\ \E oldest \in 1..(head - KeepRevisions) :
       retained' = {r \in retained : r >= oldest}
  /\ UNCHANGED head

Next == Commit \/ Forget

Spec == Init /\ [][Next]_<<head, retained>>
=============================================================================
