--------------------------- MODULE ConflictResolver ---------------------------
(***************************************************************************)
(* The operational-transformation engine of the realtime service:          *)
(* livesync-realtime/src/services/conflictResolver.ts, with the operation  *)
(* shapes of models/operation.ts and the id order of models/operationId.ts.*)
(*                                                                         *)
(* A document is a sequence of characters.  An operation either inserts a  *)
(* text at a position (counted from 0, as in the code) or deletes a number *)
(* of characters from a position.  Every operator below is pure; nothing   *)
(* here is recursive, so the module can be proved about.                   *)
(***************************************************************************)
EXTENDS Integers, Sequences

CONSTANT Char       \* what documents are made of

(***************************************************************************)
(* Operations                                                              *)
(***************************************************************************)

\* A site id is its rank in the order of String.localeCompare.
OperationId == [clock : Nat, site : Nat]

\* Lower ids win the left position; compareOperationId(a, b) < 0.
IdBefore(a, b) ==
  \/ a.clock < b.clock
  \/ a.clock = b.clock /\ a.site < b.site

InsertOperation == [kind : {"insert"}, id : OperationId, position : Nat, text : Seq(Char)]
DeleteOperation == [kind : {"delete"}, id : OperationId, position : Nat, length : Nat]
Operation == InsertOperation \union DeleteOperation

IsInsert(op) == op.kind = "insert"
IsDelete(op) == op.kind = "delete"

Least(a, b) == IF a <= b THEN a ELSE b
Greatest(a, b) == IF a >= b THEN a ELSE b

DeleteEnd(del) == del.position + del.length

(***************************************************************************)
(* Applying an operation, with the code's clamping of out-of-range         *)
(* positions and lengths.                                                  *)
(***************************************************************************)

ApplyInsert(content, ins) ==
  LET safePos == Greatest(0, Least(ins.position, Len(content)))
  IN  IF ins.text = <<>>
        THEN content
        ELSE SubSeq(content, 1, safePos) \o ins.text
               \o SubSeq(content, safePos + 1, Len(content))

ApplyDelete(content, del) ==
  LET start        == Greatest(0, Least(del.position, Len(content)))
      actualLength == Least(del.length, Len(content) - start)
  IN  IF del.length <= 0 \/ actualLength <= 0
        THEN content
        ELSE SubSeq(content, 1, start)
               \o SubSeq(content, start + actualLength + 1, Len(content))

ApplyOperation(content, op) ==
  IF IsInsert(op) THEN ApplyInsert(content, op) ELSE ApplyDelete(content, op)

(***************************************************************************)
(* Transforming an operation against one that was accepted before it.      *)
(***************************************************************************)

\* Slip: ids do not break the tie, both inserts give way.
InsertAlwaysGivesWay(base, conc) ==
  IF conc.position <= base.position
    THEN [base EXCEPT !.position = @ + Len(conc.text)]
    ELSE base

TransformInsertAgainstInsert(base, conc) ==
  IF \/ conc.position < base.position
     \/ conc.position = base.position /\ IdBefore(conc.id, base.id)
    THEN [base EXCEPT !.position = @ + Len(conc.text)]
    ELSE base

\* An insert inside the deleted span, its end included, collapses to nothing.
TransformInsertAgainstDelete(base, conc) ==
  IF base.position <= conc.position
    THEN base
    ELSE IF base.position > DeleteEnd(conc)
           THEN [base EXCEPT !.position = @ - conc.length]
           ELSE [base EXCEPT !.position = conc.position, !.text = <<>>]

\* Slip: a delete does not grow over an insert inside its span.
DeleteDoesNotGrow(base, conc) ==
  IF conc.position <= base.position
    THEN [base EXCEPT !.position = @ + Len(conc.text)]
    ELSE base

\* A delete grows to swallow an insert strictly inside its span.
TransformDeleteAgainstInsert(base, conc) ==
  IF conc.position <= base.position
    THEN [base EXCEPT !.position = @ + Len(conc.text)]
    ELSE IF conc.position >= DeleteEnd(base)
           THEN base
           ELSE [base EXCEPT !.length = @ + Len(conc.text)]

TransformDeleteAgainstDelete(base, conc) ==
  LET overlap == Greatest(0, Least(DeleteEnd(base), DeleteEnd(conc))
                               - Greatest(base.position, conc.position))
  IN  IF DeleteEnd(base) <= conc.position
        THEN base
        ELSE IF base.position >= DeleteEnd(conc)
               THEN [base EXCEPT !.position = @ - conc.length]
               ELSE [base EXCEPT !.position = Least(base.position, conc.position),
                                 !.length = Greatest(0, @ - overlap)]

TransformAgainstConcurrent(base, conc) ==
  IF IsInsert(base)
    THEN IF IsInsert(conc) THEN TransformInsertAgainstInsert(base, conc)
                           ELSE TransformInsertAgainstDelete(base, conc)
    ELSE IF IsInsert(conc) THEN TransformDeleteAgainstInsert(base, conc)
                           ELSE TransformDeleteAgainstDelete(base, conc)

-----------------------------------------------------------------------------
(***************************************************************************)
(* Vocabulary of the properties                                            *)
(***************************************************************************)

\* The operation addresses characters that the document has.
InRange(op, n) ==
  IF IsInsert(op) THEN op.position <= n ELSE DeleteEnd(op) <= n

\* The one placement on which the two mixed transformations disagree: the
\* insert sits just behind the last deleted character.
AtDeleteEnd(ins, del) ==
  /\ IsInsert(ins) /\ IsDelete(del)
  /\ ins.text # <<>>
  /\ ins.position > del.position
  /\ ins.position = DeleteEnd(del)

OnBoundary(a, b) == AtDeleteEnd(a, b) \/ AtDeleteEnd(b, a)

\* Transformation Property 1 for two operations made on the same content.
TP1(content, a, b) ==
  ApplyOperation(ApplyOperation(content, a), TransformAgainstConcurrent(b, a))
    = ApplyOperation(ApplyOperation(content, b), TransformAgainstConcurrent(a, b))
=============================================================================
