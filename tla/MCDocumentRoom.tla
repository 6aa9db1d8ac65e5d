---------------------------- MODULE MCDocumentRoom ----------------------------
(* TLC instances of DocumentRoom: one replica or two, two sockets, two texts. *)
EXTENDS DocumentRoom

CONSTANTS c1, c2, r1, r2

MCSockets == {c1, c2}
MCOneSocket == {c1}
MCOneReplica == {r1}
MCTwoReplicas == {r1, r2}
MCHomeOne == [c \in MCSockets |-> r1]
MCHomeOfOne == [c \in MCOneSocket |-> r1]
MCHomeTwo == [c \in MCSockets |-> IF c = c1 THEN r1 ELSE r2]
MCTexts == {"a", "b"}
=============================================================================
