----------------------------- MODULE TwoReplicas ------------------------------
(***************************************************************************)
(* Two replicas of one document, each with one operation of its own made   *)
(* on the same base revision: the situation of Transformation Property 1   *)
(* (docs/ARCHITECTURE.md, section 2) and of conflictResolver.test.ts.      *)
(* A replica first applies its own operation and then the other one's,     *)
(* transformed against its own by the resolver.                            *)
(*                                                                         *)
(* The characters of the base are all different, and different from those  *)
(* inserted, so that where each character ends up can be read off the      *)
(* document.                                                               *)
(***************************************************************************)
EXTENDS ConflictResolver, FiniteSets

CONSTANTS
  MaxBase,       \* longest base document
  MaxText        \* longest inserted text

ASSUME BoundsAssumption == MaxBase \in Nat /\ MaxText \in Nat

VARIABLES
  base,          \* the common document
  op,            \* op[r]: the operation replica r generated on base
  content,       \* content[r]: the document replica r shows
  applied        \* applied[r]: how many of the two operations r has applied

vars == <<base, op, content, applied>>

Replicas == {1, 2}
Other(r) == IF r = 1 THEN 2 ELSE 1

\* Characters: 1..MaxBase are the base's, of those behind every second one belongs
\* to one replica and the others to the other.
BaseOf(n) == [i \in 1..n |-> i]
Own(r, i) == MaxBase + 2 * i + 1 - r
TextOf(r, n) == [i \in 1..n |-> Own(r, i)]

ASSUME CharAssumption ==
  /\ 1..MaxBase \subseteq Char
  /\ \A r \in Replicas, i \in 1..MaxText : Own(r, i) \in Char

\* Ids of the two sites: the clocks may agree or differ either way.
IdsOf(r) == [clock : {1, 2}, site : {r}]

OperationsOn(r, n) ==
  [kind : {"insert"}, id : IdsOf(r), position : 0..n, text : {TextOf(r, k) : k \in 0..MaxText}]
  \union {del \in [kind : {"delete"}, id : IdsOf(r), position : 0..n, length : 0..n] :
            DeleteEnd(del) <= n}

Init ==
  \E n \in 0..MaxBase :
    /\ base = BaseOf(n)
    /\ \E mine \in OperationsOn(1, n), theirs \in OperationsOn(2, n) :
         op = [r \in Replicas |-> IF r = 1 THEN mine ELSE theirs]
    /\ content = [r \in Replicas |-> base]
    /\ applied = [r \in Replicas |-> 0]

\* What replica r applies when the other's operation reaches it.
Incoming(r) == TransformAgainstConcurrent(op[Other(r)], op[r])

ApplyOwn(r) ==
  /\ applied[r] = 0
  /\ content' = [content EXCEPT ![r] = ApplyOperation(@, op[r])]
  /\ applied' = [applied EXCEPT ![r] = 1]
  /\ UNCHANGED <<base, op>>

ApplyOther(r) ==
  /\ applied[r] = 1
  /\ content' = [content EXCEPT ![r] = ApplyOperation(@, Incoming(r))]
  /\ applied' = [applied EXCEPT ![r] = 2]
  /\ UNCHANGED <<base, op>>

Next == \E r \in Replicas : ApplyOwn(r) \/ ApplyOther(r)

Spec == Init /\ [][Next]_vars

-----------------------------------------------------------------------------
(***************************************************************************)
(* Properties                                                              *)
(***************************************************************************)

Chars(s) == {s[i] : i \in 1..Len(s)}
Done(r) == applied[r] = 2
IndexIn(s, c) == CHOOSE i \in 1..Len(s) : s[i] = c

\* The characters of the base that an operation removes.
Removes(o) == IF IsDelete(o) THEN {i \in 1..Len(base) : o.position < i /\ i <= DeleteEnd(o)} ELSE {}

\* The insert o was made strictly inside what the delete d removes, or at its end.
Swallows(d, o) == IsDelete(d) /\ IsInsert(o) /\ d.position < o.position /\ o.position <= DeleteEnd(d)

\* Both operations keep to the document's bounds, so does the transformed one:
\* the resolver never relies on the clamping of applyInsert and applyDelete
\* (conflictResolver.ts:151-163) to make an operation of its own applicable.
IncomingInRange ==
  \A r \in Replicas : applied[r] = 1 => InRange(Incoming(r), Len(content[r]))

\* TP1 as the resolver's header promises it (conflictResolver.ts:7-8): the two
\* replicas show the same document once both have applied both operations.
Converged == (\A r \in Replicas : Done(r)) => content[1] = content[2]

\* TP1 away from the one placement the two mixed rules treat differently
\* (conflictResolver.ts:85-90 against :107-109): every other pair of
\* concurrent operations converges.
ConvergedOffBoundary == ~OnBoundary(op[1], op[2]) => Converged

\* Deleting is never repeated and never spills over: whatever the two operations
\* are, on both replicas exactly the characters of the base that one of them
\* removed are gone and the rest keep their order (conflictResolver.ts:119-149),
\* and what is applied lies within the document.
DeletionsExact ==
  /\ IncomingInRange
  /\ \A r \in Replicas : Done(r) =>
      LET kept == 1..Len(base) \ (Removes(op[1]) \union Removes(op[2]))
      IN  /\ Chars(content[r]) \intersect (1..Len(base)) = kept
          /\ \A i, j \in kept : i < j => IndexIn(content[r], i) < IndexIn(content[r], j)

\* An insert is kept whole, in one piece, right behind the character of the base
\* it was made behind whenever no concurrent delete reaches that place; and no
\* piece of it is ever left over (conflictResolver.ts:77-91).
InsertWholeOrGone ==
  \A r, q \in Replicas : (Done(r) /\ IsInsert(op[q])) =>
    LET o       == op[q]
        present == Chars(o.text) \intersect Chars(content[r])
        start   == IndexIn(content[r], o.text[1])
    IN  o.text # <<>> =>
          /\ ~Swallows(op[Other(q)], o) => present = Chars(o.text)
          /\ present # {} =>
               /\ present = Chars(o.text)
               /\ SubSeq(content[r], start, start + Len(o.text) - 1) = o.text
               /\ (o.position > 0 /\ o.position \in Chars(content[r]))
                    => \A i \in IndexIn(content[r], o.position)+1 .. start-1 :
                         content[r][i] \in Chars(op[Other(q)].text)

\* Both: what the two operations delete is gone exactly once, and what they
\* insert is there whole or not at all (conflictResolver.ts:77-149).
EditsExact == DeletionsExact /\ InsertWholeOrGone
=============================================================================
