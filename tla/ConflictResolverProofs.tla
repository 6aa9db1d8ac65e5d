------------------------ MODULE ConflictResolverProofs ------------------------
(***************************************************************************)
(* What holds of the resolver for every document, every text and every     *)
(* pair of operations, not only for the short ones TLC enumerates.         *)
(*                                                                         *)
(* InsertShape and DeleteShape say, position by position, what applying an *)
(* operation in range yields.  Two applications in a row are then compared *)
(* by their lengths and characters, one pair of kinds at a time, and       *)
(* TP1OffBoundary puts the pairs together.  The second half, on the two    *)
(* replicas, lifts it to behaviours.                                       *)
(***************************************************************************)
EXTENDS TwoReplicas, SequenceTheorems, TLAPS

\* The n characters of c with the m characters of t behind the first p: r.
Inserting(r, c, n, p, t, m) ==
  \A i \in 1..(n + m) :
    r[i] = IF i <= p THEN c[i] ELSE IF i <= p + m THEN t[i - p] ELSE c[i - m]

\* The n characters of c without the l characters behind the first p: r.
Cutting(r, c, n, p, l) ==
  \A i \in 1..(n - l) : r[i] = IF i <= p THEN c[i] ELSE c[i + l]

\* What the two orders of a pair of edits do to the n characters of c: x and y
\* after the first edit of either order, xx and yy after both.
InsertSquare(c, n, p, s, k, q, t, m, x, xx, y, yy) ==
  /\ n \in Nat /\ p \in Nat /\ q \in Nat /\ k \in Nat /\ m \in Nat /\ p <= q /\ q <= n
  /\ Inserting(x, c, n, p, s, k) /\ Inserting(xx, x, n + k, q + k, t, m)
  /\ Inserting(y, c, n, q, t, m) /\ Inserting(yy, y, n + m, p, s, k)

BeforeSquare(c, n, p, t, m, d, l, x, xx, y, yy) ==
  /\ n \in Nat /\ p \in Nat /\ m \in Nat /\ d \in Nat /\ l \in Nat /\ p <= d /\ d + l <= n
  /\ Inserting(x, c, n, p, t, m) /\ Cutting(xx, x, n + m, d + m, l)
  /\ Cutting(y, c, n, d, l) /\ Inserting(yy, y, n - l, p, t, m)

AfterSquare(c, n, p, t, m, d, l, x, xx, y, yy) ==
  /\ n \in Nat /\ p \in Nat /\ m \in Nat /\ d \in Nat /\ l \in Nat /\ d + l <= p /\ p <= n
  /\ Inserting(x, c, n, p, t, m) /\ Cutting(xx, x, n + m, d, l)
  /\ Cutting(y, c, n, d, l) /\ Inserting(yy, y, n - l, p - l, t, m)

InsideSquare(c, n, p, t, m, d, l, x, xx, y) ==
  /\ n \in Nat /\ p \in Nat /\ m \in Nat /\ d \in Nat /\ l \in Nat
  /\ d < p /\ p < d + l /\ d + l <= n
  /\ Inserting(x, c, n, p, t, m) /\ Cutting(xx, x, n + m, d, l + m)
  /\ Cutting(y, c, n, d, l)

DisjointSquare(c, n, d, l, e, m, x, xx, y, yy) ==
  /\ n \in Nat /\ d \in Nat /\ l \in Nat /\ e \in Nat /\ m \in Nat
  /\ d + l <= e /\ e + m <= n
  /\ Cutting(x, c, n, d, l) /\ Cutting(xx, x, n - l, e - l, m)
  /\ Cutting(y, c, n, e, m) /\ Cutting(yy, y, n - m, d, l)

\* Of two deletes of l and m characters behind the first d and e, the second
\* begins inside the first and they have v characters in common.
Sharing(d, l, e, m, v) ==
  /\ d <= e /\ e < d + l
  /\ v = (IF d + l <= e + m THEN d + l ELSE e + m) - e

OverlapSquare(c, n, d, l, e, m, v, x, xx, y, yy) ==
  /\ n \in Nat /\ d \in Nat /\ l \in Nat /\ e \in Nat /\ m \in Nat /\ v \in Nat
  /\ Sharing(d, l, e, m, v) /\ d + l <= n /\ e + m <= n
  /\ Cutting(x, c, n, d, l) /\ Cutting(xx, x, n - l, d, m - v)
  /\ Cutting(y, c, n, e, m) /\ Cutting(yy, y, n - m, d, l - v)

\* r is the document c with the text t behind its first p characters.
InsertedInto(r, c, p, t) ==
  /\ r \in Seq(Char)
  /\ Len(r) = Len(c) + Len(t)
  /\ Inserting(r, c, Len(c), p, t, Len(t))

\* r is the document c without the l characters behind its first p.
CutFrom(r, c, p, l) ==
  /\ r \in Seq(Char)
  /\ Len(r) = Len(c) - l
  /\ Cutting(r, c, Len(c), p, l)

\* The first p characters of a sequence, and those behind the first q.
LEMMA Pieces ==
  ASSUME NEW c \in Seq(Char), NEW p \in Nat, NEW q \in Nat, p <= Len(c), q <= Len(c)
  PROVE  /\ SubSeq(c, 1, p) \in Seq(Char)
         /\ Len(SubSeq(c, 1, p)) = p
         /\ \A i \in 1..p : SubSeq(c, 1, p)[i] = c[i]
         /\ SubSeq(c, q + 1, Len(c)) \in Seq(Char)
         /\ Len(SubSeq(c, q + 1, Len(c))) = Len(c) - q
         /\ \A i \in 1..(Len(c) - q) : SubSeq(c, q + 1, Len(c))[i] = c[q + i]
<1>1. Len(c) \in Nat
  OBVIOUS
<1>2. \A i \in 1..Len(c) : c[i] \in Char
  BY ElementOfSeq
<1>3. /\ \A i \in 1..p : c[i] \in Char
      /\ \A i \in (q + 1)..Len(c) : c[i] \in Char
  BY <1>1, <1>2
<1>4. /\ SubSeq(c, 1, p) \in Seq(Char)
      /\ Len(SubSeq(c, 1, p)) = IF 1 <= p THEN p - 1 + 1 ELSE 0
      /\ \A i \in 1..(p - 1 + 1) : SubSeq(c, 1, p)[i] = c[1 + i - 1]
  BY <1>3, SubSeqProperties, 1 \in Int, p \in Int
<1>5. /\ SubSeq(c, q + 1, Len(c)) \in Seq(Char)
      /\ Len(SubSeq(c, q + 1, Len(c))) = IF q + 1 <= Len(c) THEN Len(c) - (q + 1) + 1 ELSE 0
      /\ \A i \in 1..(Len(c) - (q + 1) + 1) : SubSeq(c, q + 1, Len(c))[i] = c[(q + 1) + i - 1]
  BY <1>1, <1>3, SubSeqProperties, q + 1 \in Int, Len(c) \in Int
<1> HIDE <1>3
<1>6. QED
  BY <1>1, <1>4, <1>5

\* Three pieces in a row.
LEMMA ThreePieces ==
  ASSUME NEW a \in Seq(Char), NEW b \in Seq(Char), NEW c \in Seq(Char)
  PROVE  /\ a \o b \o c \in Seq(Char)
         /\ Len(a \o b \o c) = Len(a) + Len(b) + Len(c)
         /\ \A i \in 1..(Len(a) + Len(b) + Len(c)) :
              (a \o b \o c)[i] = IF i <= Len(a) THEN a[i]
                                 ELSE IF i <= Len(a) + Len(b) THEN b[i - Len(a)]
                                 ELSE c[i - (Len(a) + Len(b))]
<1>1. Len(a) \in Nat /\ Len(b) \in Nat /\ Len(c) \in Nat
  OBVIOUS
<1>2. /\ a \o b \in Seq(Char)
      /\ Len(a \o b) = Len(a) + Len(b)
      /\ \A i \in 1..(Len(a) + Len(b)) :
           (a \o b)[i] = IF i <= Len(a) THEN a[i] ELSE b[i - Len(a)]
  BY ConcatProperties
<1>3. /\ (a \o b) \o c \in Seq(Char)
      /\ Len((a \o b) \o c) = Len(a \o b) + Len(c)
      /\ \A i \in 1..(Len(a \o b) + Len(c)) :
           ((a \o b) \o c)[i] = IF i <= Len(a \o b) THEN (a \o b)[i] ELSE c[i - Len(a \o b)]
  BY <1>2, ConcatProperties
<1>4. QED
  BY <1>1, <1>2, <1>3

\* A text t put behind the first p characters of a document.
LEMMA Spliced ==
  ASSUME NEW c \in Seq(Char), NEW p \in Nat, p <= Len(c), NEW t \in Seq(Char)
  PROVE  InsertedInto(SubSeq(c, 1, p) \o t \o SubSeq(c, p + 1, Len(c)), c, p, t)
<1>1. PICK left, right : left = SubSeq(c, 1, p) /\ right = SubSeq(c, p + 1, Len(c))
  OBVIOUS
<1>2. /\ Len(c) \in Nat /\ Len(t) \in Nat
      /\ left \in Seq(Char) /\ right \in Seq(Char)
      /\ Len(left) = p /\ Len(right) = Len(c) - p
      /\ \A i \in 1..p : left[i] = c[i]
      /\ \A i \in 1..(Len(c) - p) : right[i] = c[p + i]
  BY <1>1, Pieces
<1>3. /\ left \o t \o right \in Seq(Char)
      /\ Len(left \o t \o right) = Len(left) + Len(t) + Len(right)
      /\ \A i \in 1..(Len(left) + Len(t) + Len(right)) :
           (left \o t \o right)[i] = IF i <= Len(left) THEN left[i]
                                     ELSE IF i <= Len(left) + Len(t) THEN t[i - Len(left)]
                                     ELSE right[i - (Len(left) + Len(t))]
  BY <1>2, ThreePieces, ZenonT(60)
<1>4. PICK r : r = left \o t \o right
  OBVIOUS
<1>5. /\ r \in Seq(Char)
      /\ Len(r) = Len(left) + Len(t) + Len(right)
      /\ \A i \in 1..(Len(left) + Len(t) + Len(right)) :
           r[i] = IF i <= Len(left) THEN left[i]
                  ELSE IF i <= Len(left) + Len(t) THEN t[i - Len(left)]
                  ELSE right[i - (Len(left) + Len(t))]
  BY <1>3, <1>4, Zenon
<1>6. Len(r) = Len(c) + Len(t)
  BY <1>2, <1>5
<1>7. ASSUME NEW i \in 1..(Len(c) + Len(t))
      PROVE  r[i] = IF i <= p THEN c[i] ELSE IF i <= p + Len(t) THEN t[i - p] ELSE c[i - Len(t)]
  <2>1. r[i] = IF i <= p THEN left[i]
               ELSE IF i <= p + Len(t) THEN t[i - p] ELSE right[i - (p + Len(t))]
    BY <1>2, <1>5
  <2>2. CASE i <= p + Len(t)
    BY <1>2, <2>1, <2>2
  <2>3. CASE i > p + Len(t)
    <3>1. i - (p + Len(t)) \in 1..(Len(c) - p) /\ p + (i - (p + Len(t))) = i - Len(t)
      BY <1>2, <2>3
    <3>2. right[i - (p + Len(t))] = c[i - Len(t)]
      BY <1>2, <3>1
    <3>3. QED
      BY <1>2, <2>1, <2>3, <3>2
  <2>4. QED
    BY <1>2, <2>2, <2>3
<1>8. InsertedInto(r, c, p, t)
  BY <1>5, <1>6, <1>7, Zenon DEF InsertedInto, Inserting
<1>9. QED
  BY <1>1, <1>4, <1>8, Zenon

\* A document without the l characters behind its first p.
LEMMA Cut ==
  ASSUME NEW c \in Seq(Char), NEW p \in Nat, NEW l \in Nat, p + l <= Len(c)
  PROVE  CutFrom(SubSeq(c, 1, p) \o SubSeq(c, p + l + 1, Len(c)), c, p, l)
<1>1. PICK left, right : left = SubSeq(c, 1, p) /\ right = SubSeq(c, p + l + 1, Len(c))
  OBVIOUS
<1>2. Len(c) \in Nat /\ p <= Len(c) /\ p + l \in Nat
  OBVIOUS
<1>3. /\ left \in Seq(Char) /\ right \in Seq(Char)
      /\ Len(left) = p /\ Len(right) = Len(c) - (p + l)
      /\ \A i \in 1..p : left[i] = c[i]
      /\ \A i \in 1..(Len(c) - (p + l)) : right[i] = c[(p + l) + i]
  BY <1>1, <1>2, Pieces
<1>4. /\ left \o right \in Seq(Char)
      /\ Len(left \o right) = Len(left) + Len(right)
      /\ \A i \in 1..(Len(left) + Len(right)) :
           (left \o right)[i] = IF i <= Len(left) THEN left[i] ELSE right[i - Len(left)]
  BY <1>3, ConcatProperties
<1>5. PICK r : r = left \o right
  OBVIOUS
<1>6. /\ r \in Seq(Char)
      /\ Len(r) = Len(left) + Len(right)
      /\ \A i \in 1..(Len(left) + Len(right)) :
           r[i] = IF i <= Len(left) THEN left[i] ELSE right[i - Len(left)]
  BY <1>4, <1>5, Zenon
<1>7. Len(r) = Len(c) - l
  BY <1>2, <1>3, <1>6
<1>8. ASSUME NEW i \in 1..(Len(c) - l)
      PROVE  r[i] = IF i <= p THEN c[i] ELSE c[i + l]
  <2>1. r[i] = IF i <= p THEN left[i] ELSE right[i - p]
    BY <1>2, <1>3, <1>6
  <2>2. CASE i <= p
    BY <1>3, <2>1, <2>2
  <2>3. CASE i > p
    <3>1. i - p \in 1..(Len(c) - (p + l)) /\ (p + l) + (i - p) = i + l
      BY <1>2, <2>3
    <3>2. right[i - p] = c[i + l]
      BY <1>3, <3>1
    <3>3. QED
      BY <2>1, <2>3, <3>2
  <2>4. QED
    BY <1>2, <2>2, <2>3
<1>9. CutFrom(r, c, p, l)
  BY <1>6, <1>7, <1>8, Zenon DEF CutFrom, Cutting
<1>10. QED
  BY <1>1, <1>5, <1>9, Zenon

\* An insert in range puts its text between the first `position` characters
\* and the rest (conflictResolver.ts:151-155).
LEMMA InsertShape ==
  ASSUME NEW c \in Seq(Char), NEW o \in InsertOperation, o.position <= Len(c)
  PROVE  InsertedInto(ApplyInsert(c, o), c, o.position, o.text)
<1>1. /\ o.position \in Nat /\ o.text \in Seq(Char)
      /\ Len(c) \in Nat /\ Len(o.text) \in Nat
  BY DEF InsertOperation
<1>2. CASE o.text = <<>>
  <2>1. ApplyInsert(c, o) = c
    BY <1>2 DEF ApplyInsert
  <2>2. InsertedInto(c, c, o.position, o.text)
    BY <1>1, <1>2 DEF InsertedInto, Inserting
  <2>3. QED
    BY <2>1, <2>2
<1>3. CASE o.text # <<>>
  <2>1. Greatest(0, Least(o.position, Len(c))) = o.position
    BY <1>1 DEF Greatest, Least
  <2>2. ApplyInsert(c, o) = SubSeq(c, 1, o.position) \o o.text
                              \o SubSeq(c, o.position + 1, Len(c))
    BY <1>3, <2>1 DEF ApplyInsert
  <2>3. QED
    BY <1>1, <2>2, Spliced, Zenon
<1>4. QED
  BY <1>2, <1>3

\* A delete in range closes the gap it leaves (conflictResolver.ts:157-163).
LEMMA DeleteShape ==
  ASSUME NEW c \in Seq(Char), NEW o \in DeleteOperation, DeleteEnd(o) <= Len(c)
  PROVE  CutFrom(ApplyDelete(c, o), c, o.position, o.length)
<1>1. /\ o.position \in Nat /\ o.length \in Nat /\ Len(c) \in Nat
      /\ o.position + o.length <= Len(c)
  BY DEF DeleteOperation, DeleteEnd
<1>2. CASE o.length = 0
  <2>1. ApplyDelete(c, o) = c
    BY <1>2 DEF ApplyDelete
  <2>2. CutFrom(c, c, o.position, o.length)
    BY <1>1, <1>2 DEF CutFrom, Cutting
  <2>3. QED
    BY <2>1, <2>2
<1>3. CASE o.length # 0
  <2>1. /\ Greatest(0, Least(o.position, Len(c))) = o.position
        /\ Least(o.length, Len(c) - o.position) = o.length
        /\ ~(o.length <= 0)
    BY <1>1, <1>3 DEF Greatest, Least
  <2>2. ApplyDelete(c, o) = SubSeq(c, 1, o.position)
                              \o SubSeq(c, o.position + o.length + 1, Len(c))
    BY <2>1 DEF ApplyDelete
  <2>3. QED
    BY <1>1, <2>2, Cut, Zenon
<1>4. QED
  BY <1>2, <1>3

-----------------------------------------------------------------------------
(***************************************************************************)
(* Two edits in either order.  The hypotheses say what the two orders do,  *)
(* the conclusion that they end in the same document.                      *)
(***************************************************************************)

\* Two inserts, the first to the left of the second or at the same place.
LEMMA InsertsCommute ==
  ASSUME NEW c, NEW n, NEW p, NEW s, NEW k, NEW q, NEW t, NEW m, NEW x, NEW xx, NEW y, NEW yy,
         InsertSquare(c, n, p, s, k, q, t, m, x, xx, y, yy)
  PROVE  \A i \in 1..(n + k + m) : xx[i] = yy[i]
<1>0. n \in Nat /\ p \in Nat /\ q \in Nat /\ k \in Nat /\ m \in Nat
  BY DEF InsertSquare
<1> SUFFICES ASSUME NEW i \in 1..(n + k + m) PROVE xx[i] = yy[i]
  OBVIOUS
<1>1. xx[i] = IF i <= q + k THEN x[i] ELSE IF i <= q + k + m THEN t[i - (q + k)] ELSE x[i - m]
  BY <1>0 DEF InsertSquare, Inserting
<1>2. yy[i] = IF i <= p THEN y[i] ELSE IF i <= p + k THEN s[i - p] ELSE y[i - k]
  BY <1>0 DEF InsertSquare, Inserting
<1>3. CASE i <= p + k
  BY <1>0, <1>1, <1>2, <1>3 DEF InsertSquare, Inserting
<1>4. CASE p + k < i /\ i <= q + k
  BY <1>0, <1>1, <1>2, <1>4 DEF InsertSquare, Inserting
<1>5. CASE q + k < i /\ i <= q + k + m
  BY <1>0, <1>1, <1>2, <1>5 DEF InsertSquare, Inserting
<1>6. CASE q + k + m < i
  BY <1>0, <1>1, <1>2, <1>6 DEF InsertSquare, Inserting
<1>7. QED
  BY <1>0, <1>3, <1>4, <1>5, <1>6

\* An insert to the left of a delete, or where the delete starts.
LEMMA InsertBeforeDelete ==
  ASSUME NEW c, NEW n, NEW p, NEW t, NEW m, NEW d, NEW l, NEW x, NEW xx, NEW y, NEW yy,
         BeforeSquare(c, n, p, t, m, d, l, x, xx, y, yy)
  PROVE  \A i \in 1..(n + m - l) : xx[i] = yy[i]
<1>0. n \in Nat /\ p \in Nat /\ m \in Nat /\ d \in Nat /\ l \in Nat
  BY DEF BeforeSquare
<1> SUFFICES ASSUME NEW i \in 1..(n + m - l) PROVE xx[i] = yy[i]
  OBVIOUS
<1>1. xx[i] = IF i <= d + m THEN x[i] ELSE x[i + l]
  BY <1>0 DEF BeforeSquare, Cutting
<1>2. yy[i] = IF i <= p THEN y[i] ELSE IF i <= p + m THEN t[i - p] ELSE y[i - m]
  BY <1>0 DEF BeforeSquare, Inserting
<1>3. CASE i <= p + m
  BY <1>0, <1>1, <1>2, <1>3 DEF BeforeSquare, Inserting, Cutting
<1>4. CASE p + m < i /\ i <= d + m
  BY <1>0, <1>1, <1>2, <1>4 DEF BeforeSquare, Inserting, Cutting
<1>5. CASE d + m < i
  BY <1>0, <1>1, <1>2, <1>5 DEF BeforeSquare, Inserting, Cutting
<1>6. QED
  BY <1>0, <1>3, <1>4, <1>5

\* An insert to the right of a delete.
LEMMA InsertAfterDelete ==
  ASSUME NEW c, NEW n, NEW p, NEW t, NEW m, NEW d, NEW l, NEW x, NEW xx, NEW y, NEW yy,
         AfterSquare(c, n, p, t, m, d, l, x, xx, y, yy)
  PROVE  \A i \in 1..(n + m - l) : xx[i] = yy[i]
<1>0. n \in Nat /\ p \in Nat /\ m \in Nat /\ d \in Nat /\ l \in Nat
  BY DEF AfterSquare
<1> SUFFICES ASSUME NEW i \in 1..(n + m - l) PROVE xx[i] = yy[i]
  OBVIOUS
<1>1. xx[i] = IF i <= d THEN x[i] ELSE x[i + l]
  BY <1>0 DEF AfterSquare, Cutting
<1>2. yy[i] = IF i <= p - l THEN y[i]
              ELSE IF i <= p - l + m THEN t[i - (p - l)] ELSE y[i - m]
  BY <1>0 DEF AfterSquare, Inserting
<1>3. CASE i <= p - l
  BY <1>0, <1>1, <1>2, <1>3 DEF AfterSquare, Inserting, Cutting
<1>4. CASE p - l < i /\ i <= p - l + m
  BY <1>0, <1>1, <1>2, <1>4 DEF AfterSquare, Inserting, Cutting
<1>5. CASE p - l + m < i
  BY <1>0, <1>1, <1>2, <1>5 DEF AfterSquare, Inserting, Cutting
<1>6. QED
  BY <1>0, <1>3, <1>4, <1>5

\* An insert inside a delete, which then removes the text as well.
LEMMA InsertInsideDelete ==
  ASSUME NEW c, NEW n, NEW p, NEW t, NEW m, NEW d, NEW l, NEW x, NEW xx, NEW y,
         InsideSquare(c, n, p, t, m, d, l, x, xx, y)
  PROVE  \A i \in 1..(n - l) : xx[i] = y[i]
<1>0. n \in Nat /\ p \in Nat /\ m \in Nat /\ d \in Nat /\ l \in Nat
  BY DEF InsideSquare
<1> SUFFICES ASSUME NEW i \in 1..(n - l) PROVE xx[i] = y[i]
  OBVIOUS
<1>1. xx[i] = IF i <= d THEN x[i] ELSE x[i + (l + m)]
  BY <1>0 DEF InsideSquare, Cutting
<1>2. y[i] = IF i <= d THEN c[i] ELSE c[i + l]
  BY <1>0 DEF InsideSquare, Cutting
<1>3. CASE i <= d
  BY <1>0, <1>1, <1>2, <1>3 DEF InsideSquare, Inserting
<1>4. CASE d < i
  BY <1>0, <1>1, <1>2, <1>4 DEF InsideSquare, Inserting
<1>5. QED
  BY <1>0, <1>3, <1>4

\* Two deletes, the first wholly to the left of the second.
LEMMA DisjointDeletes ==
  ASSUME NEW c, NEW n, NEW d, NEW l, NEW e, NEW m, NEW x, NEW xx, NEW y, NEW yy,
         DisjointSquare(c, n, d, l, e, m, x, xx, y, yy)
  PROVE  \A i \in 1..(n - l - m) : xx[i] = yy[i]
<1> USE DEF DisjointSquare
<1>0. n \in Nat /\ d \in Nat /\ l \in Nat /\ e \in Nat /\ m \in Nat
  OBVIOUS
<1> SUFFICES ASSUME NEW i \in 1..(n - l - m) PROVE xx[i] = yy[i]
  OBVIOUS
<1>1. xx[i] = IF i <= e - l THEN x[i] ELSE x[i + m]
  BY DEF DisjointSquare, Cutting
<1>2. yy[i] = IF i <= d THEN y[i] ELSE y[i + l]
  BY DEF DisjointSquare, Cutting
<1>3. QED
  BY <1>1, <1>2 DEF DisjointSquare, Cutting

\* Two overlapping deletes, the first starting no later than the second; v
\* characters belong to both.
LEMMA OverlappingDeletes ==
  ASSUME NEW c, NEW n, NEW d, NEW l, NEW e, NEW m, NEW v, NEW x, NEW xx, NEW y, NEW yy,
         OverlapSquare(c, n, d, l, e, m, v, x, xx, y, yy)
  PROVE  \A i \in 1..(n - l - m + v) : xx[i] = yy[i]
<1> USE DEF OverlapSquare
<1>0. n \in Nat /\ d \in Nat /\ l \in Nat /\ e \in Nat /\ m \in Nat /\ v \in Nat
  OBVIOUS
<1> SUFFICES ASSUME NEW i \in 1..(n - l - m + v) PROVE xx[i] = yy[i]
  OBVIOUS
<1>1. xx[i] = IF i <= d THEN x[i] ELSE x[i + (m - v)]
  BY DEF OverlapSquare, Cutting, Sharing
<1>2. yy[i] = IF i <= d THEN y[i] ELSE y[i + (l - v)]
  BY DEF OverlapSquare, Cutting, Sharing
<1>3. CASE i <= d
  BY <1>1, <1>2, <1>3 DEF OverlapSquare, Cutting, Sharing
<1>4. CASE d < i
  <2>1. x[i + (m - v)] = c[i + (m - v) + l]
    BY <1>4 DEF OverlapSquare, Cutting, Sharing
  <2>2. y[i + (l - v)] = c[i + (l - v) + m]
    BY <1>4 DEF OverlapSquare, Cutting, Sharing
  <2>3. i + (m - v) + l = i + (l - v) + m
    OBVIOUS
  <2>4. QED
    BY <1>1, <1>2, <1>4, <2>1, <2>2, <2>3
<1>5. QED
  BY <1>3, <1>4

-----------------------------------------------------------------------------
(***************************************************************************)
(* Transformation Property 1, pair by pair                                 *)
(***************************************************************************)

\* Operations with another position, text or length are operations.
LEMMA EditedInsert ==
  ASSUME NEW o \in InsertOperation, NEW q \in Nat, NEW t \in Seq(Char)
  PROVE  /\ [o EXCEPT !.position = q] \in InsertOperation
         /\ [o EXCEPT !.position = q].position = q
         /\ [o EXCEPT !.position = q].text = o.text
         /\ [o EXCEPT !.position = q, !.text = t] \in InsertOperation
         /\ [o EXCEPT !.position = q, !.text = t].position = q
         /\ [o EXCEPT !.position = q, !.text = t].text = t
  BY DEF InsertOperation

LEMMA MovedDelete ==
  ASSUME NEW o \in DeleteOperation, NEW q \in Nat
  PROVE  /\ [o EXCEPT !.position = q] \in DeleteOperation
         /\ [o EXCEPT !.position = q].position = q
         /\ [o EXCEPT !.position = q].length = o.length
  BY DEF DeleteOperation

LEMMA ResizedDelete ==
  ASSUME NEW o \in DeleteOperation, NEW l \in Nat
  PROVE  /\ [o EXCEPT !.length = l] \in DeleteOperation
         /\ [o EXCEPT !.length = l].position = o.position
         /\ [o EXCEPT !.length = l].length = l
  BY DEF DeleteOperation

\* a keeps its place, b moves right (conflictResolver.ts:55-69).
LeftOf(a, b) ==
  \/ a.position < b.position
  \/ a.position = b.position /\ IdBefore(a.id, b.id)

\* Of two inserts with different ids exactly one is to the left of the other.
LEMMA InsertsOrdered ==
  ASSUME NEW a \in InsertOperation, NEW b \in InsertOperation, a.id # b.id
  PROVE  \/ LeftOf(a, b) /\ ~LeftOf(b, a)
         \/ LeftOf(b, a) /\ ~LeftOf(a, b)
<1>1. /\ a.position \in Nat /\ b.position \in Nat
      /\ a.id \in OperationId /\ b.id \in OperationId
  BY DEF InsertOperation
<1>2. /\ a.id.clock \in Nat /\ a.id.site \in Nat
      /\ b.id.clock \in Nat /\ b.id.site \in Nat
      /\ a.id.clock # b.id.clock \/ a.id.site # b.id.site
  BY <1>1 DEF OperationId
<1>3. QED
  BY <1>1, <1>2 DEF LeftOf, IdBefore

\* Two inserts converge, the left one given first.
LEMMA TP1InsertsFromLeft ==
  ASSUME NEW c \in Seq(Char), NEW a \in InsertOperation, NEW b \in InsertOperation,
         a.position <= Len(c), b.position <= Len(c), LeftOf(a, b), ~LeftOf(b, a)
  PROVE  ApplyInsert(ApplyInsert(c, a), TransformInsertAgainstInsert(b, a))
           = ApplyInsert(ApplyInsert(c, b), TransformInsertAgainstInsert(a, b))
<1>1. PICK n \in Nat, k \in Nat, m \in Nat : n = Len(c) /\ k = Len(a.text) /\ m = Len(b.text)
  BY DEF InsertOperation
<1>2. PICK p \in Nat, q \in Nat : p = a.position /\ q = b.position /\ p <= q /\ q <= n
  BY <1>1 DEF InsertOperation, LeftOf
<1>3. PICK bb : bb = TransformInsertAgainstInsert(b, a)
  OBVIOUS
<1>4. /\ bb \in InsertOperation
      /\ bb.position = q + k
      /\ bb.text = b.text
  <2>1. bb = [b EXCEPT !.position = q + k]
    BY <1>1, <1>2, <1>3 DEF TransformInsertAgainstInsert, LeftOf
  <2>2. q + k \in Nat
    OBVIOUS
  <2>3. QED
    BY <2>1, <2>2, EditedInsert, EmptySeq
<1>5. TransformInsertAgainstInsert(a, b) = a
  BY DEF TransformInsertAgainstInsert, LeftOf
<1>6. PICK x, y : x = ApplyInsert(c, a) /\ y = ApplyInsert(c, b)
  OBVIOUS
<1>7. /\ x \in Seq(Char) /\ Len(x) = n + k /\ Inserting(x, c, n, p, a.text, k)
      /\ y \in Seq(Char) /\ Len(y) = n + m /\ Inserting(y, c, n, q, b.text, m)
  BY <1>1, <1>2, <1>6, InsertShape DEF InsertedInto
<1>8. PICK xx, yy : xx = ApplyInsert(x, bb) /\ yy = ApplyInsert(y, a)
  OBVIOUS
<1>9. bb.position <= Len(x) /\ a.position <= Len(y)
  <2>1. bb.position = q + k /\ a.position = p /\ Len(x) = n + k /\ Len(y) = n + m
    BY <1>2, <1>4, <1>7
  <2>2. q + k <= n + k /\ p <= n + m
    BY <1>2
  <2>3. QED
    BY <2>1, <2>2
<1>10. /\ xx \in Seq(Char) /\ Len(xx) = (n + k) + m
       /\ Inserting(xx, x, n + k, q + k, b.text, m)
       /\ yy \in Seq(Char) /\ Len(yy) = (n + m) + k
       /\ Inserting(yy, y, n + m, p, a.text, k)
  BY <1>1, <1>2, <1>4, <1>7, <1>8, <1>9, InsertShape, ZenonT(60) DEF InsertedInto
<1>11. \A i \in 1..(n + k + m) : xx[i] = yy[i]
  <2>1. InsertSquare(c, n, p, a.text, k, q, b.text, m, x, xx, y, yy)
    BY <1>2, <1>7, <1>10 DEF InsertSquare
  <2>2. QED
    BY <2>1, InsertsCommute
<1>12. xx = yy
  BY <1>2, <1>10, <1>11, SeqEqual
<1>13. QED
  BY <1>3, <1>5, <1>6, <1>8, <1>12

\* Two inserts with different ids converge.
LEMMA TP1Inserts ==
  ASSUME NEW c \in Seq(Char), NEW a \in InsertOperation, NEW b \in InsertOperation,
         a.position <= Len(c), b.position <= Len(c), a.id # b.id
  PROVE  ApplyInsert(ApplyInsert(c, a), TransformInsertAgainstInsert(b, a))
           = ApplyInsert(ApplyInsert(c, b), TransformInsertAgainstInsert(a, b))
<1>1. CASE LeftOf(a, b) /\ ~LeftOf(b, a)
  BY <1>1, TP1InsertsFromLeft
<1>2. CASE LeftOf(b, a) /\ ~LeftOf(a, b)
  BY <1>2, TP1InsertsFromLeft
<1>3. QED
  BY <1>1, <1>2, InsertsOrdered

\* An insert at or before a delete's start.
LEMMA TP1InsertBeforeDelete ==
  ASSUME NEW c \in Seq(Char), NEW a \in InsertOperation, NEW b \in DeleteOperation,
         a.position <= b.position, DeleteEnd(b) <= Len(c)
  PROVE  ApplyDelete(ApplyInsert(c, a), TransformDeleteAgainstInsert(b, a))
           = ApplyInsert(ApplyDelete(c, b), TransformInsertAgainstDelete(a, b))
<1>1. PICK n \in Nat, m \in Nat : n = Len(c) /\ m = Len(a.text)
  BY DEF InsertOperation
<1>2. PICK p \in Nat, d \in Nat, l \in Nat : p = a.position /\ d = b.position /\ l = b.length
  BY DEF InsertOperation, DeleteOperation
<1>3. p <= d /\ d + l <= n /\ p <= n
  BY <1>1, <1>2 DEF DeleteEnd
<1>4. PICK bb : bb = TransformDeleteAgainstInsert(b, a)
  OBVIOUS
<1>5. bb \in DeleteOperation /\ bb.position = d + m /\ bb.length = l
  <2>1. bb = [b EXCEPT !.position = d + m]
    BY <1>1, <1>2, <1>3, <1>4 DEF TransformDeleteAgainstInsert
  <2>2. d + m \in Nat
    OBVIOUS
  <2>3. QED
    BY <1>2, <2>1, <2>2, MovedDelete
<1>6. TransformInsertAgainstDelete(a, b) = a
  BY DEF TransformInsertAgainstDelete
<1>7. PICK x, y : x = ApplyInsert(c, a) /\ y = ApplyDelete(c, b)
  OBVIOUS
<1>8. /\ x \in Seq(Char) /\ Len(x) = n + m /\ Inserting(x, c, n, p, a.text, m)
      /\ y \in Seq(Char) /\ Len(y) = n - l /\ Cutting(y, c, n, d, l)
  BY <1>1, <1>2, <1>3, <1>7, InsertShape, DeleteShape DEF InsertedInto, CutFrom
<1>9. PICK xx, yy : xx = ApplyDelete(x, bb) /\ yy = ApplyInsert(y, a)
  OBVIOUS
<1>10. DeleteEnd(bb) <= Len(x) /\ a.position <= Len(y)
  <2>1. DeleteEnd(bb) = (d + m) + l
    BY <1>5 DEF DeleteEnd
  <2>2. Len(x) = n + m /\ Len(y) = n - l
    BY <1>8
  <2>3. (d + m) + l <= n + m /\ p <= n - l
    BY <1>3
  <2>4. QED
    BY <1>2, <2>1, <2>2, <2>3
<1>11. /\ xx \in Seq(Char) /\ Len(xx) = (n + m) - l /\ Cutting(xx, x, n + m, d + m, l)
       /\ yy \in Seq(Char) /\ Len(yy) = (n - l) + m
       /\ Inserting(yy, y, n - l, p, a.text, m)
  BY <1>1, <1>2, <1>5, <1>8, <1>9, <1>10, InsertShape, DeleteShape, ZenonT(60)
  DEF InsertedInto, CutFrom
<1>12. BeforeSquare(c, n, p, a.text, m, d, l, x, xx, y, yy)
  BY <1>3, <1>8, <1>11 DEF BeforeSquare
<1>13. \A i \in 1..(n + m - l) : xx[i] = yy[i]
  BY <1>12, InsertBeforeDelete
<1>14. xx = yy
  BY <1>3, <1>11, <1>13, SeqEqual
<1>15. QED
  BY <1>4, <1>6, <1>7, <1>9, <1>14

\* An insert behind a delete's end.
LEMMA TP1InsertAfterDelete ==
  ASSUME NEW c \in Seq(Char), NEW a \in InsertOperation, NEW b \in DeleteOperation,
         a.position <= Len(c), DeleteEnd(b) < a.position
  PROVE  ApplyDelete(ApplyInsert(c, a), TransformDeleteAgainstInsert(b, a))
           = ApplyInsert(ApplyDelete(c, b), TransformInsertAgainstDelete(a, b))
<1>1. PICK n \in Nat, m \in Nat : n = Len(c) /\ m = Len(a.text)
  BY DEF InsertOperation
<1>2. PICK p \in Nat, d \in Nat, l \in Nat : p = a.position /\ d = b.position /\ l = b.length
  BY DEF InsertOperation, DeleteOperation
<1>3. d + l < p /\ p <= n /\ DeleteEnd(b) <= Len(c)
  BY <1>1, <1>2 DEF DeleteEnd
<1>4. PICK aa : aa = TransformInsertAgainstDelete(a, b)
  OBVIOUS
<1>5. aa \in InsertOperation /\ aa.position = p - l /\ aa.text = a.text
  <2>1. aa = [a EXCEPT !.position = p - l]
    BY <1>2, <1>3, <1>4 DEF TransformInsertAgainstDelete, DeleteEnd
  <2>2. p - l \in Nat
    BY <1>3
  <2>3. QED
    BY <2>1, <2>2, EditedInsert, EmptySeq
<1>6. TransformDeleteAgainstInsert(b, a) = b
  BY <1>2, <1>3 DEF TransformDeleteAgainstInsert, DeleteEnd
<1>7. PICK x, y : x = ApplyInsert(c, a) /\ y = ApplyDelete(c, b)
  OBVIOUS
<1>8. /\ x \in Seq(Char) /\ Len(x) = n + m /\ Inserting(x, c, n, p, a.text, m)
      /\ y \in Seq(Char) /\ Len(y) = n - l /\ Cutting(y, c, n, d, l)
  BY <1>1, <1>2, <1>3, <1>7, InsertShape, DeleteShape DEF InsertedInto, CutFrom
<1>9. PICK xx, yy : xx = ApplyDelete(x, b) /\ yy = ApplyInsert(y, aa)
  OBVIOUS
<1>10. DeleteEnd(b) <= Len(x) /\ aa.position <= Len(y)
  <2>1. DeleteEnd(b) = d + l
    BY <1>2 DEF DeleteEnd
  <2>2. Len(x) = n + m /\ Len(y) = n - l
    BY <1>8
  <2>3. d + l <= n + m /\ p - l <= n - l
    BY <1>3
  <2>4. QED
    BY <1>5, <2>1, <2>2, <2>3
<1>11. /\ xx \in Seq(Char) /\ Len(xx) = (n + m) - l /\ Cutting(xx, x, n + m, d, l)
       /\ yy \in Seq(Char) /\ Len(yy) = (n - l) + m
       /\ Inserting(yy, y, n - l, p - l, a.text, m)
  BY <1>1, <1>2, <1>5, <1>8, <1>9, <1>10, InsertShape, DeleteShape, ZenonT(60)
  DEF InsertedInto, CutFrom
<1>12. AfterSquare(c, n, p, a.text, m, d, l, x, xx, y, yy)
  <2>1. d + l <= p /\ p <= n
    BY <1>3
  <2>2. QED
    BY <1>8, <1>11, <2>1 DEF AfterSquare
<1>13. \A i \in 1..(n + m - l) : xx[i] = yy[i]
  BY <1>12, InsertAfterDelete
<1>14. xx = yy
  BY <1>3, <1>11, <1>13, SeqEqual
<1>15. QED
  BY <1>4, <1>6, <1>7, <1>9, <1>14

\* An insert strictly inside a delete's span.
LEMMA TP1InsertInsideDelete ==
  ASSUME NEW c \in Seq(Char), NEW a \in InsertOperation, NEW b \in DeleteOperation,
         b.position < a.position, a.position < DeleteEnd(b), DeleteEnd(b) <= Len(c)
  PROVE  ApplyDelete(ApplyInsert(c, a), TransformDeleteAgainstInsert(b, a))
           = ApplyInsert(ApplyDelete(c, b), TransformInsertAgainstDelete(a, b))
<1>1. PICK n \in Nat, m \in Nat : n = Len(c) /\ m = Len(a.text)
  BY DEF InsertOperation
<1>2. PICK p \in Nat, d \in Nat, l \in Nat : p = a.position /\ d = b.position /\ l = b.length
  BY DEF InsertOperation, DeleteOperation
<1>3. d < p /\ p < d + l /\ d + l <= n /\ a.position <= Len(c)
  BY <1>1, <1>2 DEF DeleteEnd
<1>4. PICK bb, aa : bb = TransformDeleteAgainstInsert(b, a) /\ aa = TransformInsertAgainstDelete(a, b)
  OBVIOUS
<1>5. bb \in DeleteOperation /\ bb.position = d /\ bb.length = l + m
  <2>1. bb = [b EXCEPT !.length = l + m]
    BY <1>1, <1>2, <1>3, <1>4 DEF TransformDeleteAgainstInsert, DeleteEnd
  <2>2. l + m \in Nat
    OBVIOUS
  <2>3. QED
    BY <1>2, <2>1, <2>2, ResizedDelete
<1>6. aa.text = <<>>
  <2>1. aa = [a EXCEPT !.position = d, !.text = <<>>]
    BY <1>2, <1>3, <1>4 DEF TransformInsertAgainstDelete, DeleteEnd
  <2>2. QED
    BY <2>1 DEF InsertOperation
<1>7. PICK x, y : x = ApplyInsert(c, a) /\ y = ApplyDelete(c, b)
  OBVIOUS
<1>8. /\ x \in Seq(Char) /\ Len(x) = n + m /\ Inserting(x, c, n, p, a.text, m)
      /\ y \in Seq(Char) /\ Len(y) = n - l /\ Cutting(y, c, n, d, l)
  BY <1>1, <1>2, <1>3, <1>7, InsertShape, DeleteShape DEF InsertedInto, CutFrom
<1>9. PICK xx : xx = ApplyDelete(x, bb)
  OBVIOUS
<1>10. DeleteEnd(bb) <= Len(x)
  <2>1. DeleteEnd(bb) = d + (l + m)
    BY <1>5 DEF DeleteEnd
  <2>2. Len(x) = n + m
    BY <1>8
  <2>3. d + (l + m) <= n + m
    BY <1>3
  <2>4. QED
    BY <2>1, <2>2, <2>3
<1>11. xx \in Seq(Char) /\ Len(xx) = (n + m) - (l + m) /\ Cutting(xx, x, n + m, d, l + m)
  BY <1>5, <1>8, <1>9, <1>10, DeleteShape DEF CutFrom
<1>12. InsideSquare(c, n, p, a.text, m, d, l, x, xx, y)
  BY <1>3, <1>8, <1>11 DEF InsideSquare
<1>13. \A i \in 1..(n - l) : xx[i] = y[i]
  BY <1>12, InsertInsideDelete
<1>14. xx = y
  <2>1. (n + m) - (l + m) = n - l /\ n - l \in Nat
    BY <1>3
  <2>2. xx \in Seq(Char) /\ y \in Seq(Char) /\ Len(xx) = n - l /\ Len(y) = n - l
    BY <1>8, <1>11, <2>1
  <2>3. QED
    BY <1>13, <2>2, SeqEqual
<1>15. ApplyInsert(y, aa) = y
  BY <1>6 DEF ApplyInsert
<1>16. QED
  BY <1>4, <1>7, <1>9, <1>14, <1>15

\* An insert of nothing converges with every delete.
LEMMA TP1InsertNothing ==
  ASSUME NEW c \in Seq(Char), NEW a \in InsertOperation, NEW b \in DeleteOperation,
         a.text = <<>>
  PROVE  ApplyDelete(ApplyInsert(c, a), TransformDeleteAgainstInsert(b, a))
           = ApplyInsert(ApplyDelete(c, b), TransformInsertAgainstDelete(a, b))
<1>1. PICK aa : aa = TransformInsertAgainstDelete(a, b)
  OBVIOUS
<1>2. aa.text = <<>>
  <2>1. \/ aa = a
        \/ aa = [a EXCEPT !.position = a.position - b.length]
        \/ aa = [a EXCEPT !.position = b.position, !.text = <<>>]
    BY <1>1 DEF TransformInsertAgainstDelete
  <2>2. QED
    BY <2>1 DEF InsertOperation
<1>3. ApplyInsert(c, a) = c /\ ApplyInsert(ApplyDelete(c, b), aa) = ApplyDelete(c, b)
  BY <1>2 DEF ApplyInsert
<1>4. TransformDeleteAgainstInsert(b, a) = b
  <2>1. Len(a.text) = 0
    BY EmptySeq
  <2>2. b.position \in Nat /\ b.length \in Nat
    BY DEF DeleteOperation
  <2>3. /\ [b EXCEPT !.position = @ + Len(a.text)] = b
        /\ [b EXCEPT !.length = @ + Len(a.text)] = b
    BY <2>1, <2>2 DEF DeleteOperation
  <2>4. QED
    BY <2>3 DEF TransformDeleteAgainstInsert
<1>5. QED
  BY <1>1, <1>3, <1>4

\* An insert and a delete converge unless a text is put at the delete's end.
LEMMA TP1InsertAndDelete ==
  ASSUME NEW c \in Seq(Char), NEW a \in InsertOperation, NEW b \in DeleteOperation,
         a.position <= Len(c), DeleteEnd(b) <= Len(c),
         ~(a.text # <<>> /\ a.position > b.position /\ a.position = DeleteEnd(b))
  PROVE  ApplyDelete(ApplyInsert(c, a), TransformDeleteAgainstInsert(b, a))
           = ApplyInsert(ApplyDelete(c, b), TransformInsertAgainstDelete(a, b))
<1>1. a.position \in Nat /\ b.position \in Nat /\ DeleteEnd(b) \in Nat
  BY DEF InsertOperation, DeleteOperation, DeleteEnd
<1>2. \/ a.position <= b.position
      \/ DeleteEnd(b) < a.position
      \/ b.position < a.position /\ a.position < DeleteEnd(b)
      \/ a.text = <<>>
  BY <1>1
<1>3. QED
  BY <1>2, TP1InsertBeforeDelete, TP1InsertAfterDelete, TP1InsertInsideDelete, TP1InsertNothing

\* Two deletes, the first of which ends before the second begins.
LEMMA TP1DisjointDeletes ==
  ASSUME NEW c \in Seq(Char), NEW a \in DeleteOperation, NEW b \in DeleteOperation,
         DeleteEnd(a) <= b.position, DeleteEnd(b) <= Len(c)
  PROVE  ApplyDelete(ApplyDelete(c, a), TransformDeleteAgainstDelete(b, a))
           = ApplyDelete(ApplyDelete(c, b), TransformDeleteAgainstDelete(a, b))
<1>1. PICK n \in Nat, d \in Nat, l \in Nat : n = Len(c) /\ d = a.position /\ l = a.length
  BY DEF DeleteOperation
<1>2. PICK e \in Nat, m \in Nat : e = b.position /\ m = b.length
  BY DEF DeleteOperation
<1>3. d + l <= e /\ e + m <= n /\ DeleteEnd(a) <= Len(c)
  BY <1>1, <1>2 DEF DeleteEnd
<1>4. PICK bb : bb = TransformDeleteAgainstDelete(b, a)
  OBVIOUS
<1>5. bb \in DeleteOperation /\ bb.position = e - l /\ bb.length = m
  <2>1. e - l \in Nat
    BY <1>3
  <2>2. \/ bb = [b EXCEPT !.position = e - l]
        \/ bb = b /\ e + m <= d
    BY <1>1, <1>2, <1>3, <1>4 DEF TransformDeleteAgainstDelete, DeleteEnd
  <2>3. CASE bb = [b EXCEPT !.position = e - l]
    BY <1>2, <2>1, <2>3, MovedDelete
  <2>4. CASE bb = b /\ e + m <= d
    <3>1. e - l = e
      BY <1>3, <2>4
    <3>2. QED
      BY <1>2, <2>4, <3>1
  <2>5. QED
    BY <2>2, <2>3, <2>4
<1>6. TransformDeleteAgainstDelete(a, b) = a
  BY DEF TransformDeleteAgainstDelete
<1>7. PICK x, y : x = ApplyDelete(c, a) /\ y = ApplyDelete(c, b)
  OBVIOUS
<1>8. /\ x \in Seq(Char) /\ Len(x) = n - l /\ Cutting(x, c, n, d, l)
      /\ y \in Seq(Char) /\ Len(y) = n - m /\ Cutting(y, c, n, e, m)
  BY <1>1, <1>2, <1>3, <1>7, DeleteShape DEF CutFrom
<1>9. PICK xx, yy : xx = ApplyDelete(x, bb) /\ yy = ApplyDelete(y, a)
  OBVIOUS
<1>10. DeleteEnd(bb) <= Len(x) /\ DeleteEnd(a) <= Len(y)
  <2>1. DeleteEnd(bb) = (e - l) + m /\ DeleteEnd(a) = d + l
    BY <1>1, <1>5 DEF DeleteEnd
  <2>2. Len(x) = n - l /\ Len(y) = n - m
    BY <1>8
  <2>3. (e - l) + m <= n - l /\ d + l <= n - m
    BY <1>3
  <2>4. QED
    BY <2>1, <2>2, <2>3
<1>11. /\ xx \in Seq(Char) /\ Len(xx) = (n - l) - m /\ Cutting(xx, x, n - l, e - l, m)
       /\ yy \in Seq(Char) /\ Len(yy) = (n - m) - l /\ Cutting(yy, y, n - m, d, l)
  BY <1>1, <1>5, <1>8, <1>9, <1>10, DeleteShape, ZenonT(60) DEF CutFrom
<1>12. DisjointSquare(c, n, d, l, e, m, x, xx, y, yy)
  BY <1>3, <1>8, <1>11 DEF DisjointSquare
<1>13. \A i \in 1..(n - l - m) : xx[i] = yy[i]
  BY <1>12, DisjointDeletes
<1>14. xx = yy
  BY <1>3, <1>11, <1>13, SeqEqual
<1>15. QED
  BY <1>4, <1>6, <1>7, <1>9, <1>14

\* The length two overlapping deletes share, and what is left of each.
LEMMA Overlap ==
  ASSUME NEW d \in Nat, NEW l \in Nat, NEW e \in Nat, NEW m \in Nat, NEW v \in Nat,
         Sharing(d, l, e, m, v), d < e + m
  PROVE  /\ Greatest(0, m - Greatest(0, Least(e + m, d + l) - Greatest(e, d))) = m - v
         /\ Greatest(0, l - Greatest(0, Least(d + l, e + m) - Greatest(d, e))) = l - v
         /\ Least(e, d) = d
         /\ Least(d, e) = d
  BY DEF Greatest, Least, Sharing

\* What is left of the delete mine beside the overlapping conc: r from p on.
Shrinking(mine, conc, p, r) ==
  /\ conc.position < DeleteEnd(mine) /\ mine.position < DeleteEnd(conc)
  /\ p = Least(mine.position, conc.position)
  /\ r = Greatest(0, mine.length - Greatest(0, Least(DeleteEnd(mine), DeleteEnd(conc))
                                                 - Greatest(mine.position, conc.position)))

\* A delete transformed against one it overlaps.
LEMMA ShrunkDelete ==
  ASSUME NEW mine \in DeleteOperation, NEW conc \in DeleteOperation, NEW p \in Nat, NEW r \in Nat,
         Shrinking(mine, conc, p, r)
  PROVE  /\ TransformDeleteAgainstDelete(mine, conc) \in DeleteOperation
         /\ TransformDeleteAgainstDelete(mine, conc).position = p
         /\ TransformDeleteAgainstDelete(mine, conc).length = r
<1>1. /\ ~(DeleteEnd(mine) <= conc.position)
      /\ ~(mine.position >= DeleteEnd(conc))
  BY DEF DeleteOperation, DeleteEnd, Shrinking
<1>2. PICK v : v = Greatest(0, Least(DeleteEnd(mine), DeleteEnd(conc))
                                 - Greatest(mine.position, conc.position))
  OBVIOUS
<1>3. TransformDeleteAgainstDelete(mine, conc)
        = [mine EXCEPT !.position = Least(mine.position, conc.position),
                       !.length = Greatest(0, mine.length - v)]
  BY <1>1, <1>2 DEF TransformDeleteAgainstDelete
<1>4. p = Least(mine.position, conc.position) /\ r = Greatest(0, mine.length - v)
  BY <1>2, Zenon DEF Shrinking
<1>5. TransformDeleteAgainstDelete(mine, conc) = [mine EXCEPT !.position = p, !.length = r]
  BY <1>3, <1>4, Zenon
<1>6. QED
  BY <1>5 DEF DeleteOperation

\* Two deletes, the second of which begins inside the first.
LEMMA TP1OverlappingDeletes ==
  ASSUME NEW c \in Seq(Char), NEW a \in DeleteOperation, NEW b \in DeleteOperation,
         a.position <= b.position, b.position < DeleteEnd(a),
         DeleteEnd(a) <= Len(c), DeleteEnd(b) <= Len(c)
  PROVE  ApplyDelete(ApplyDelete(c, a), TransformDeleteAgainstDelete(b, a))
           = ApplyDelete(ApplyDelete(c, b), TransformDeleteAgainstDelete(a, b))
<1>1. PICK n \in Nat, d \in Nat, l \in Nat : n = Len(c) /\ d = a.position /\ l = a.length
  BY DEF DeleteOperation
<1>2. PICK e \in Nat, m \in Nat : e = b.position /\ m = b.length
  BY DEF DeleteOperation
<1>3. d <= e /\ e < d + l /\ d + l <= n /\ e + m <= n
  BY <1>1, <1>2 DEF DeleteEnd
<1>4. PICK v \in Nat : v = (IF d + l <= e + m THEN d + l ELSE e + m) - e
  BY <1>3
<1>5. Sharing(d, l, e, m, v)
  BY <1>3, <1>4 DEF Sharing
<1>6. v <= m /\ v <= l /\ m - v \in Nat /\ l - v \in Nat /\ (m = 0 => v = 0)
  BY <1>3, <1>4
<1>7. PICK bb, aa : /\ bb = TransformDeleteAgainstDelete(b, a)
                    /\ aa = TransformDeleteAgainstDelete(a, b)
  OBVIOUS
<1>8. bb \in DeleteOperation /\ bb.position = d /\ bb.length = m - v
  <2>1. CASE e + m <= d
    <3>1. bb = b
      BY <1>1, <1>2, <1>7, <2>1 DEF TransformDeleteAgainstDelete, DeleteEnd
    <3>2. e = d /\ m - v = m
      BY <1>3, <1>6, <2>1
    <3>3. QED
      BY <1>2, <3>1, <3>2
  <2>2. CASE d < e + m
    <3>1. PICK r \in Nat : r = m - v
      BY <1>6
    <3>2. /\ DeleteEnd(b) = e + m /\ DeleteEnd(a) = d + l
          /\ a.position < DeleteEnd(b) /\ b.position < DeleteEnd(a)
      BY <1>1, <1>2, <1>3, <2>2 DEF DeleteEnd
    <3>3. /\ d = Least(e, d)
          /\ r = Greatest(0, m - Greatest(0, Least(e + m, d + l) - Greatest(e, d)))
      BY <1>5, <2>2, <3>1, Overlap
    <3>4. Shrinking(b, a, d, r)
      BY <1>1, <1>2, <3>2, <3>3, Zenon DEF Shrinking
    <3>5. bb \in DeleteOperation /\ bb.position = d /\ bb.length = r
      BY <1>7, <3>4, ShrunkDelete
    <3>6. QED
      BY <3>1, <3>5
  <2>3. QED
    BY <2>1, <2>2
<1>9. aa \in DeleteOperation /\ aa.position = d /\ aa.length = l - v
  <2>1. CASE e + m <= d
    <3>1. aa = [a EXCEPT !.position = d - m]
      BY <1>1, <1>2, <1>3, <1>7, <2>1 DEF TransformDeleteAgainstDelete, DeleteEnd
    <3>2. m = 0 /\ d - m = d /\ l - v = l
      BY <1>3, <1>6, <2>1
    <3>3. QED
      BY <1>1, <3>1, <3>2, MovedDelete
  <2>2. CASE d < e + m
    <3>1. PICK r \in Nat : r = l - v
      BY <1>6
    <3>2. /\ DeleteEnd(b) = e + m /\ DeleteEnd(a) = d + l
          /\ a.position < DeleteEnd(b) /\ b.position < DeleteEnd(a)
      BY <1>1, <1>2, <1>3, <2>2 DEF DeleteEnd
    <3>3. /\ d = Least(d, e)
          /\ r = Greatest(0, l - Greatest(0, Least(d + l, e + m) - Greatest(d, e)))
      BY <1>5, <2>2, <3>1, Overlap
    <3>4. Shrinking(a, b, d, r)
      BY <1>1, <1>2, <3>2, <3>3, Zenon DEF Shrinking
    <3>5. aa \in DeleteOperation /\ aa.position = d /\ aa.length = r
      BY <1>7, <3>4, ShrunkDelete
    <3>6. QED
      BY <3>1, <3>5
  <2>3. QED
    BY <2>1, <2>2
<1>10. PICK x, y : x = ApplyDelete(c, a) /\ y = ApplyDelete(c, b)
  OBVIOUS
<1>11. /\ x \in Seq(Char) /\ Len(x) = n - l /\ Cutting(x, c, n, d, l)
       /\ y \in Seq(Char) /\ Len(y) = n - m /\ Cutting(y, c, n, e, m)
  BY <1>1, <1>2, <1>10, DeleteShape DEF CutFrom
<1>12. PICK xx, yy : xx = ApplyDelete(x, bb) /\ yy = ApplyDelete(y, aa)
  OBVIOUS
<1>13. DeleteEnd(bb) <= Len(x) /\ DeleteEnd(aa) <= Len(y)
  <2>1. DeleteEnd(bb) = d + (m - v) /\ DeleteEnd(aa) = d + (l - v)
    BY <1>8, <1>9 DEF DeleteEnd
  <2>2. Len(x) = n - l /\ Len(y) = n - m
    BY <1>11
  <2>3. d + (m - v) <= n - l /\ d + (l - v) <= n - m
    BY <1>3, <1>4
  <2>4. QED
    BY <2>1, <2>2, <2>3
<1>14. /\ xx \in Seq(Char) /\ Len(xx) = (n - l) - (m - v) /\ Cutting(xx, x, n - l, d, m - v)
       /\ yy \in Seq(Char) /\ Len(yy) = (n - m) - (l - v) /\ Cutting(yy, y, n - m, d, l - v)
  BY <1>8, <1>9, <1>11, <1>12, <1>13, DeleteShape, ZenonT(60) DEF CutFrom
<1>15. OverlapSquare(c, n, d, l, e, m, v, x, xx, y, yy)
  BY <1>3, <1>5, <1>11, <1>14 DEF OverlapSquare
<1>16. \A i \in 1..(n - l - m + v) : xx[i] = yy[i]
  BY <1>15, OverlappingDeletes
<1>17. xx = yy
  BY <1>3, <1>6, <1>14, <1>16, SeqEqual
<1>18. QED
  BY <1>7, <1>10, <1>12, <1>17

\* Two deletes converge, whatever their overlap.
LEMMA TP1Deletes ==
  ASSUME NEW c \in Seq(Char), NEW a \in DeleteOperation, NEW b \in DeleteOperation,
         DeleteEnd(a) <= Len(c), DeleteEnd(b) <= Len(c)
  PROVE  ApplyDelete(ApplyDelete(c, a), TransformDeleteAgainstDelete(b, a))
           = ApplyDelete(ApplyDelete(c, b), TransformDeleteAgainstDelete(a, b))
<1>1. /\ a.position \in Nat /\ b.position \in Nat
      /\ DeleteEnd(a) \in Nat /\ DeleteEnd(b) \in Nat
  BY DEF DeleteOperation, DeleteEnd
<1>2. \/ DeleteEnd(a) <= b.position
      \/ DeleteEnd(b) <= a.position
      \/ a.position <= b.position /\ b.position < DeleteEnd(a)
      \/ b.position <= a.position /\ a.position < DeleteEnd(b)
  BY <1>1
<1>3. CASE DeleteEnd(a) <= b.position
  BY <1>3, TP1DisjointDeletes
<1>4. CASE DeleteEnd(b) <= a.position
  BY <1>4, TP1DisjointDeletes
<1>5. CASE a.position <= b.position /\ b.position < DeleteEnd(a)
  BY <1>5, TP1OverlappingDeletes
<1>6. CASE b.position <= a.position /\ a.position < DeleteEnd(b)
  BY <1>6, TP1OverlappingDeletes
<1>7. QED
  BY <1>2, <1>3, <1>4, <1>5, <1>6

-----------------------------------------------------------------------------
(***************************************************************************)
(* The resolver as a whole                                                 *)
(***************************************************************************)

\* An operation is an insert or a delete, and its kind tells which.
LEMMA Kinds ==
  ASSUME NEW o \in Operation
  PROVE  \/ o \in InsertOperation /\ IsInsert(o) /\ ~IsDelete(o)
         \/ o \in DeleteOperation /\ IsDelete(o) /\ ~IsInsert(o)
  BY DEF Operation, InsertOperation, DeleteOperation, IsInsert, IsDelete

\* A transformed operation is an operation of the kind it had.
LEMMA TransformKeepsKind ==
  ASSUME NEW a \in Operation, NEW b \in Operation
  PROVE  /\ TransformAgainstConcurrent(b, a) \in Operation
         /\ IsInsert(TransformAgainstConcurrent(b, a)) <=> IsInsert(b)
<1>1. PICK bb : bb = TransformAgainstConcurrent(b, a)
  OBVIOUS
<1>2. CASE b \in InsertOperation /\ a \in InsertOperation
  <2>1. \/ bb = b
        \/ bb = [b EXCEPT !.position = b.position + Len(a.text)]
    BY <1>1, <1>2 DEF TransformAgainstConcurrent, TransformInsertAgainstInsert,
                      InsertOperation, IsInsert
  <2>2. b.position + Len(a.text) \in Nat
    BY <1>2 DEF InsertOperation
  <2>3. QED
    BY <1>1, <1>2, <2>1, <2>2 DEF Operation, InsertOperation, IsInsert
<1>3. CASE b \in InsertOperation /\ a \in DeleteOperation
  <2>1. b.position \in Nat /\ a.position \in Nat /\ a.length \in Nat
    BY <1>3 DEF InsertOperation, DeleteOperation
  <2>2. \/ bb = b
        \/ bb = [b EXCEPT !.position = b.position - a.length] /\ b.position > DeleteEnd(a)
        \/ bb = [b EXCEPT !.position = a.position, !.text = <<>>]
    BY <1>1, <1>3 DEF TransformAgainstConcurrent, TransformInsertAgainstDelete,
                      InsertOperation, DeleteOperation, IsInsert
  <2>3. b.position > DeleteEnd(a) => b.position - a.length \in Nat
    BY <2>1 DEF DeleteEnd
  <2>4. <<>> \in Seq(Char)
    BY EmptySeq
  <2>5. bb \in InsertOperation
    BY <1>3, <2>1, <2>2, <2>3, <2>4 DEF InsertOperation
  <2>6. QED
    BY <1>1, <1>3, <2>5 DEF Operation, InsertOperation, IsInsert
<1>4. CASE b \in DeleteOperation /\ a \in InsertOperation
  <2>1. \/ bb = b
        \/ bb = [b EXCEPT !.position = b.position + Len(a.text)]
        \/ bb = [b EXCEPT !.length = b.length + Len(a.text)]
    BY <1>1, <1>4 DEF TransformAgainstConcurrent, TransformDeleteAgainstInsert,
                      InsertOperation, DeleteOperation, IsInsert
  <2>2. b.position + Len(a.text) \in Nat /\ b.length + Len(a.text) \in Nat
    BY <1>4 DEF InsertOperation, DeleteOperation
  <2>3. QED
    BY <1>1, <1>4, <2>1, <2>2 DEF Operation, DeleteOperation, IsInsert
<1>5. CASE b \in DeleteOperation /\ a \in DeleteOperation
  <2>1. PICK v : v = Greatest(0, Least(DeleteEnd(b), DeleteEnd(a))
                                   - Greatest(b.position, a.position))
    OBVIOUS
  <2>2. \/ bb = b
        \/ bb = [b EXCEPT !.position = b.position - a.length] /\ b.position >= DeleteEnd(a)
        \/ bb = [b EXCEPT !.position = Least(b.position, a.position),
                          !.length = Greatest(0, b.length - v)]
    BY <1>1, <1>5, <2>1 DEF TransformAgainstConcurrent, TransformDeleteAgainstDelete,
                            DeleteOperation, IsInsert
  <2>3. /\ b.position >= DeleteEnd(a) => b.position - a.length \in Nat
        /\ Least(b.position, a.position) \in Nat
    BY <1>5 DEF DeleteOperation, DeleteEnd, Least
  <2>4. v \in Int
    BY <1>5, <2>1 DEF DeleteOperation, DeleteEnd, Least, Greatest
  <2>5. Greatest(0, b.length - v) \in Nat
    BY <1>5, <2>4 DEF DeleteOperation, Greatest
  <2>6. QED
    BY <1>1, <1>5, <2>2, <2>3, <2>5 DEF Operation, DeleteOperation, IsInsert
<1>6. QED
  BY <1>2, <1>3, <1>4, <1>5 DEF Operation

\* What conflictResolver.ts:7-8 promises, where the code keeps it: for every
\* document and every two operations in range of it that different sites (or
\* clocks) made, the two orders of applying them give the same document, except
\* when one puts text right behind the last character the other deletes.
THEOREM TP1OffBoundary ==
  ASSUME NEW c \in Seq(Char), NEW a \in Operation, NEW b \in Operation,
         InRange(a, Len(c)), InRange(b, Len(c)), a.id # b.id, ~OnBoundary(a, b)
  PROVE  TP1(c, a, b)
<1>1. TransformAgainstConcurrent(b, a) \in Operation /\ TransformAgainstConcurrent(a, b) \in Operation
  BY TransformKeepsKind
<1>2. CASE a \in InsertOperation /\ b \in InsertOperation
  <2>1. /\ IsInsert(a) /\ IsInsert(b)
        /\ IsInsert(TransformAgainstConcurrent(b, a)) /\ IsInsert(TransformAgainstConcurrent(a, b))
    BY <1>2, TransformKeepsKind DEF InsertOperation, IsInsert
  <2>2. a.position <= Len(c) /\ b.position <= Len(c)
    BY <2>1 DEF InRange
  <2>3. QED
    BY <1>2, <2>1, <2>2, TP1Inserts DEF TP1, ApplyOperation, TransformAgainstConcurrent
<1>3. ASSUME NEW i \in InsertOperation, NEW d \in DeleteOperation,
             InRange(i, Len(c)), InRange(d, Len(c)), ~AtDeleteEnd(i, d)
      PROVE  TP1(c, i, d) /\ TP1(c, d, i)
  <2>1. /\ IsInsert(i) /\ ~IsInsert(d) /\ IsDelete(d)
        /\ i \in Operation /\ d \in Operation
    BY DEF InsertOperation, DeleteOperation, IsInsert, IsDelete, Operation
  <2>2. /\ ~IsInsert(TransformAgainstConcurrent(d, i))
        /\ IsInsert(TransformAgainstConcurrent(i, d))
    BY <2>1, TransformKeepsKind
  <2>3. i.position <= Len(c) /\ DeleteEnd(d) <= Len(c)
    BY <1>3, <2>1 DEF InRange
  <2>4. ~(i.text # <<>> /\ i.position > d.position /\ i.position = DeleteEnd(d))
    BY <1>3, <2>1 DEF AtDeleteEnd
  <2>5. ApplyDelete(ApplyInsert(c, i), TransformDeleteAgainstInsert(d, i))
          = ApplyInsert(ApplyDelete(c, d), TransformInsertAgainstDelete(i, d))
    BY <2>3, <2>4, TP1InsertAndDelete
  <2>6. QED
    BY <2>1, <2>2, <2>5 DEF TP1, ApplyOperation, TransformAgainstConcurrent
<1>4. CASE a \in DeleteOperation /\ b \in DeleteOperation
  <2>1. /\ ~IsInsert(a) /\ ~IsInsert(b)
        /\ ~IsInsert(TransformAgainstConcurrent(b, a)) /\ ~IsInsert(TransformAgainstConcurrent(a, b))
    BY <1>4, TransformKeepsKind DEF DeleteOperation, IsInsert
  <2>2. DeleteEnd(a) <= Len(c) /\ DeleteEnd(b) <= Len(c)
    BY <2>1 DEF InRange
  <2>3. QED
    BY <1>4, <2>1, <2>2, TP1Deletes DEF TP1, ApplyOperation, TransformAgainstConcurrent
<1>5. QED
  BY <1>2, <1>3, <1>4 DEF Operation, OnBoundary

(***************************************************************************)
(* Two replicas                                                            *)
(*                                                                         *)
(* Two invariants of TwoReplicas, for every bound on the document and on   *)
(* the texts: the replicas converge (TP1OffBoundary lifted to behaviours), *)
(* and what two concurrent operations do to the document is exact.  For    *)
(* the second, the document a replica ends with is spelled out, index by   *)
(* index (Laid), for each pair of kinds of operations; the rest reads off  *)
(* that picture where each character is.                                   *)
(***************************************************************************)

Given ==
  /\ base \in Seq(Char)
  /\ op \in [Replicas -> Operation]
  /\ \A r \in Replicas : InRange(op[r], Len(base))
  /\ op[1].id # op[2].id

\* What replica r shows is determined by how far it has come.
Shows(r) ==
  \/ applied[r] = 0 /\ content[r] = base
  \/ applied[r] = 1 /\ content[r] = ApplyOperation(base, op[r])
  \/ applied[r] = 2 /\ content[r] = ApplyOperation(ApplyOperation(base, op[r]), Incoming(r))

IInv ==
  /\ Given
  /\ applied \in [Replicas -> 0..2]
  /\ DOMAIN content = Replicas
  /\ content = [r \in Replicas |-> content[r]]
  /\ \A r \in Replicas : Shows(r)

LEMMA InitialOperations ==
  ASSUME NEW n \in 0..MaxBase, NEW r \in Replicas, NEW o \in OperationsOn(r, n)
  PROVE  /\ o \in Operation
         /\ InRange(o, n)
         /\ o.id \in IdsOf(r)
<1>1. n \in Nat
  BY BoundsAssumption
<1>2. IdsOf(r) \subseteq OperationId
  BY DEF IdsOf, OperationId, Replicas
<1>3. ASSUME NEW k \in 0..MaxText PROVE TextOf(r, k) \in Seq(Char)
  BY BoundsAssumption, CharAssumption DEF TextOf
<1>4. CASE o \in [kind : {"insert"}, id : IdsOf(r), position : 0..n,
                  text : {TextOf(r, k) : k \in 0..MaxText}]
  <2>1. o \in InsertOperation
    BY <1>1, <1>2, <1>3, <1>4 DEF InsertOperation
  <2>2. o.kind = "insert" /\ o.position <= n /\ o.id \in IdsOf(r)
    BY <1>1, <1>4
  <2>3. QED
    BY <2>1, <2>2 DEF Operation, InRange, IsInsert
<1>5. CASE o \in {del \in [kind : {"delete"}, id : IdsOf(r), position : 0..n, length : 0..n] :
                    DeleteEnd(del) <= n}
  <2>1. o \in DeleteOperation
    BY <1>1, <1>2, <1>5 DEF DeleteOperation
  <2>2. o.kind = "delete" /\ DeleteEnd(o) <= n /\ o.id \in IdsOf(r)
    BY <1>5
  <2>3. QED
    BY <2>1, <2>2 DEF Operation, InRange, IsInsert
<1>6. QED
  BY <1>4, <1>5 DEF OperationsOn

LEMMA InitIInv == Init => IInv
<1> SUFFICES ASSUME Init PROVE IInv
  OBVIOUS
<1>0. PICK n \in 0..MaxBase :
        /\ base = BaseOf(n)
        /\ \E mine \in OperationsOn(1, n), theirs \in OperationsOn(2, n) :
             op = [r \in Replicas |-> IF r = 1 THEN mine ELSE theirs]
  BY DEF Init
<1>1. PICK mine \in OperationsOn(1, n), theirs \in OperationsOn(2, n) :
        op = [r \in Replicas |-> IF r = 1 THEN mine ELSE theirs]
  BY <1>0
<1>2. content = [r \in Replicas |-> base] /\ applied = [r \in Replicas |-> 0]
  BY DEF Init
<1>3. n \in Nat /\ base \in Seq(Char) /\ Len(base) = n
  <2>1. n \in Nat
    BY BoundsAssumption
  <2>2. 1..n \subseteq Char
    BY <2>1, BoundsAssumption, CharAssumption
  <2>3. QED
    BY <1>0, <2>1, <2>2 DEF BaseOf
<1>4. /\ mine \in Operation /\ InRange(mine, n) /\ mine.id \in IdsOf(1)
      /\ theirs \in Operation /\ InRange(theirs, n) /\ theirs.id \in IdsOf(2)
  BY InitialOperations DEF Replicas
<1>5. mine.id # theirs.id
  <2>1. mine.id.site = 1 /\ theirs.id.site = 2
    BY <1>4 DEF IdsOf
  <2>2. QED
    BY <2>1
<1>6. op[1] = mine /\ op[2] = theirs /\ op \in [Replicas -> Operation]
  BY <1>1, <1>4 DEF Replicas
<1>7. Given
  BY <1>3, <1>4, <1>5, <1>6 DEF Given, Replicas
<1>8. \A r \in Replicas : Shows(r)
  BY <1>2 DEF Shows
<1>9. QED
  BY <1>2, <1>7, <1>8 DEF IInv

LEMMA NextIInv == IInv /\ [Next]_vars => IInv'
<1> SUFFICES ASSUME IInv, [Next]_vars PROVE IInv'
  OBVIOUS
<1> USE DEF IInv
<1>1. ASSUME NEW q \in Replicas, ApplyOwn(q) PROVE IInv'
  <2>1. Given'
    BY <1>1 DEF Given, ApplyOwn
  <2>2. /\ applied' \in [Replicas -> 0..2]
        /\ DOMAIN content' = Replicas
        /\ content' = [r \in Replicas |-> content'[r]]
    BY <1>1 DEF ApplyOwn
  <2>3. ASSUME NEW r \in Replicas PROVE Shows(r)'
    <3>1. CASE r = q
      <4>1. content'[q] = ApplyOperation(base, op[q]) /\ applied'[q] = 1
        BY <1>1 DEF ApplyOwn, Shows
      <4>2. QED
        BY <1>1, <3>1, <4>1 DEF ApplyOwn, Shows
    <3>2. CASE r # q
      <4>1. content'[r] = content[r] /\ applied'[r] = applied[r]
        BY <1>1, <3>2 DEF ApplyOwn
      <4>2. base' = base /\ op' = op
        BY <1>1 DEF ApplyOwn
      <4>3. QED
        BY <4>1, <4>2 DEF Shows, Incoming
    <3>3. QED
      BY <3>1, <3>2
  <2>4. QED
    BY <2>1, <2>2, <2>3
<1>2. ASSUME NEW q \in Replicas, ApplyOther(q) PROVE IInv'
  <2>1. Given'
    BY <1>2 DEF Given, ApplyOther
  <2>2. /\ applied' \in [Replicas -> 0..2]
        /\ DOMAIN content' = Replicas
        /\ content' = [r \in Replicas |-> content'[r]]
    BY <1>2 DEF ApplyOther
  <2>3. base' = base /\ op' = op
    BY <1>2 DEF ApplyOther
  <2>4. ASSUME NEW r \in Replicas PROVE Shows(r)'
    <3>1. CASE r = q
      <4>1. /\ content[q] = ApplyOperation(base, op[q])
            /\ content'[q] = ApplyOperation(content[q], Incoming(q)) /\ applied'[q] = 2
        BY <1>2 DEF ApplyOther, Shows
      <4>2. QED
        BY <2>3, <3>1, <4>1 DEF Shows, Incoming
    <3>2. CASE r # q
      <4>1. content'[r] = content[r] /\ applied'[r] = applied[r]
        BY <1>2, <3>2 DEF ApplyOther
      <4>2. QED
        BY <2>3, <4>1 DEF Shows, Incoming
    <3>3. QED
      BY <3>1, <3>2
  <2>5. QED
    BY <2>1, <2>2, <2>4
<1>3. CASE UNCHANGED vars
  BY <1>3 DEF vars, Given, Shows, Incoming
<1>4. QED
  BY <1>1, <1>2, <1>3 DEF Next

LEMMA IInvConverged == IInv => ConvergedOffBoundary
<1> SUFFICES ASSUME IInv, ~OnBoundary(op[1], op[2]), Done(1), Done(2)
             PROVE  content[1] = content[2]
  BY DEF ConvergedOffBoundary, Converged, Replicas
<1>1. /\ base \in Seq(Char) /\ op[1] \in Operation /\ op[2] \in Operation
      /\ InRange(op[1], Len(base)) /\ InRange(op[2], Len(base)) /\ op[1].id # op[2].id
  BY DEF IInv, Given, Replicas
<1>2. TP1(base, op[1], op[2])
  BY <1>1, TP1OffBoundary
<1>3. /\ content[1] = ApplyOperation(ApplyOperation(base, op[1]), Incoming(1))
      /\ content[2] = ApplyOperation(ApplyOperation(base, op[2]), Incoming(2))
  BY DEF IInv, Shows, Done, Replicas
<1>4. QED
  BY <1>2, <1>3 DEF TP1, Incoming, Other

\* Two replicas that exchange one operation each end with the same document,
\* whatever its length and whatever the two operations, unless one of them puts
\* text right behind what the other deletes (conflictResolver.ts:7-8, 35-149).
THEOREM TwoReplicasConverge == Spec => []ConvergedOffBoundary
<1>1. Init => IInv
  BY InitIInv
<1>2. IInv /\ [Next]_vars => IInv'
  BY NextIInv
<1>3. IInv => ConvergedOffBoundary
  BY IInvConverged
<1>4. QED
  BY <1>1, <1>2, <1>3, PTL DEF Spec
-----------------------------------------------------------------------------
(***************************************************************************)
(* Where the characters end up                                             *)
(***************************************************************************)

\* The document whose n characters are 1, 2, ..., n.
Plain(c) == c \in Seq(Char) /\ \A i \in 1..Len(c) : c[i] = i

\* r is the plain document of n characters without the g characters behind u and
\* the h behind v, with the k characters of s behind u and the m of t behind v.
Laying(r, n, u, s, k, g, v, t, m, h) ==
  \A i \in 1..(n - g - h + k + m) :
    r[i] = IF i <= u THEN i
           ELSE IF i <= u + k THEN s[i - u]
           ELSE IF i <= v - g + k THEN i - k + g
           ELSE IF i <= v - g + k + m THEN t[i - (v - g + k)]
           ELSE i - k - m + g + h

Laid(r, n, u, s, g, v, t, h) ==
  /\ r \in Seq(Char) /\ s \in Seq(Char) /\ t \in Seq(Char)
  /\ u \in Nat /\ g \in Nat /\ v \in Nat /\ h \in Nat
  /\ u + g <= v /\ v + h <= n
  /\ Len(r) = n - g - h + Len(s) + Len(t)
  /\ Laying(r, n, u, s, Len(s), g, v, t, Len(t), h)

LEMMA LayingInserts ==
  ASSUME NEW n \in Nat, NEW p \in Nat, NEW q \in Nat, NEW k \in Nat, NEW m \in Nat,
         p <= q, q <= n, NEW c, NEW s, NEW t, NEW x, NEW xx,
         \A i \in 1..n : c[i] = i,
         Inserting(x, c, n, p, s, k), Inserting(xx, x, n + k, q + k, t, m)
  PROVE  Laying(xx, n, p, s, k, 0, q, t, m, 0)
<1> SUFFICES ASSUME NEW i \in 1..(n - 0 - 0 + k + m)
             PROVE  xx[i] = IF i <= p THEN i
                            ELSE IF i <= p + k THEN s[i - p]
                            ELSE IF i <= q - 0 + k THEN i - k + 0
                            ELSE IF i <= q - 0 + k + m THEN t[i - (q - 0 + k)]
                            ELSE i - k - m + 0 + 0
  BY DEF Laying
<1>1. xx[i] = IF i <= q + k THEN x[i] ELSE IF i <= q + k + m THEN t[i - (q + k)] ELSE x[i - m]
  BY DEF Inserting
<1>2. i <= q + k => x[i] = IF i <= p THEN c[i] ELSE IF i <= p + k THEN s[i - p] ELSE c[i - k]
  BY DEF Inserting
<1>3. i > q + k + m => x[i - m] = c[i - m - k]
  BY DEF Inserting
<1>4. (i <= p => c[i] = i) /\ (p + k < i /\ i <= q + k => c[i - k] = i - k)
      /\ (i > q + k + m => c[i - m - k] = i - m - k)
  OBVIOUS
<1> QED BY <1>1, <1>2, <1>3, <1>4

LEMMA LayingBefore ==
  ASSUME NEW n \in Nat, NEW p \in Nat, NEW k \in Nat, NEW d \in Nat, NEW l \in Nat,
         p <= d, d + l <= n, NEW c, NEW s, NEW x, NEW xx,
         \A i \in 1..n : c[i] = i,
         Inserting(x, c, n, p, s, k), Cutting(xx, x, n + k, d + k, l)
  PROVE  Laying(xx, n, p, s, k, 0, d, <<>>, 0, l)
<1> SUFFICES ASSUME NEW i \in 1..(n - 0 - l + k + 0)
             PROVE  xx[i] = IF i <= p THEN i
                            ELSE IF i <= p + k THEN s[i - p]
                            ELSE IF i <= d - 0 + k THEN i - k + 0
                            ELSE IF i <= d - 0 + k + 0 THEN <<>>[i - (d - 0 + k)]
                            ELSE i - k - 0 + 0 + l
  BY DEF Laying
<1>1. xx[i] = IF i <= d + k THEN x[i] ELSE x[i + l]
  BY DEF Cutting
<1>2. i <= d + k => x[i] = IF i <= p THEN c[i] ELSE IF i <= p + k THEN s[i - p] ELSE c[i - k]
  BY DEF Inserting
<1>3. i > d + k => x[i + l] = c[i + l - k]
  BY DEF Inserting
<1>4. (i <= p => c[i] = i) /\ (p + k < i /\ i <= d + k => c[i - k] = i - k)
      /\ (i > d + k => c[i + l - k] = i + l - k)
  OBVIOUS
<1> QED BY <1>1, <1>2, <1>3, <1>4

LEMMA LayingAfter ==
  ASSUME NEW n \in Nat, NEW p \in Nat, NEW k \in Nat, NEW d \in Nat, NEW l \in Nat,
         d + l <= p, p <= n, NEW c, NEW s, NEW x, NEW xx,
         \A i \in 1..n : c[i] = i,
         Inserting(x, c, n, p, s, k), Cutting(xx, x, n + k, d, l)
  PROVE  Laying(xx, n, d, <<>>, 0, l, p, s, k, 0)
<1> SUFFICES ASSUME NEW i \in 1..(n - l - 0 + 0 + k)
             PROVE  xx[i] = IF i <= d THEN i
                            ELSE IF i <= d + 0 THEN <<>>[i - d]
                            ELSE IF i <= p - l + 0 THEN i - 0 + l
                            ELSE IF i <= p - l + 0 + k THEN s[i - (p - l + 0)]
                            ELSE i - 0 - k + l + 0
  BY DEF Laying
<1>1. xx[i] = IF i <= d THEN x[i] ELSE x[i + l]
  BY DEF Cutting
<1>2. i <= d => x[i] = c[i]
  BY DEF Inserting
<1>3. i > d => x[i + l] = IF i + l <= p THEN c[i + l]
                          ELSE IF i + l <= p + k THEN s[i + l - p] ELSE c[i + l - k]
  BY DEF Inserting
<1>4. (i <= d => c[i] = i) /\ (d < i /\ i + l <= p => c[i + l] = i + l)
      /\ (i + l > p + k => c[i + l - k] = i + l - k)
  OBVIOUS
<1>5. i + l - p = i - (p - l + 0)
  OBVIOUS
<1> QED BY <1>1, <1>2, <1>3, <1>4, <1>5

LEMMA LayingCut ==
  ASSUME NEW n \in Nat, NEW d \in Nat, NEW l \in Nat, d + l <= n, NEW c, NEW y,
         \A i \in 1..n : c[i] = i, Cutting(y, c, n, d, l)
  PROVE  Laying(y, n, d, <<>>, 0, l, d + l, <<>>, 0, 0)
<1> SUFFICES ASSUME NEW i \in 1..(n - l - 0 + 0 + 0)
             PROVE  y[i] = IF i <= d THEN i
                           ELSE IF i <= d + 0 THEN <<>>[i - d]
                           ELSE IF i <= (d + l) - l + 0 THEN i - 0 + l
                           ELSE IF i <= (d + l) - l + 0 + 0 THEN <<>>[i - ((d + l) - l + 0)]
                           ELSE i - 0 - 0 + l + 0
  BY DEF Laying
<1>1. y[i] = IF i <= d THEN c[i] ELSE c[i + l]
  BY DEF Cutting
<1>2. (i <= d => c[i] = i) /\ (d < i => c[i + l] = i + l)
  OBVIOUS
<1> QED BY <1>1, <1>2

LEMMA LayingInside ==
  ASSUME NEW n \in Nat, NEW p \in Nat, NEW k \in Nat, NEW d \in Nat, NEW l \in Nat,
         d < p, p < d + l, d + l <= n, NEW c, NEW s, NEW x, NEW xx,
         \A i \in 1..n : c[i] = i,
         Inserting(x, c, n, p, s, k), Cutting(xx, x, n + k, d, l + k)
  PROVE  Cutting(xx, c, n, d, l)
<1> SUFFICES ASSUME NEW i \in 1..(n - l) PROVE xx[i] = IF i <= d THEN c[i] ELSE c[i + l]
  BY DEF Cutting
<1>1. xx[i] = IF i <= d THEN x[i] ELSE x[i + (l + k)]
  BY DEF Cutting
<1>2. i <= d => x[i] = c[i]
  BY DEF Inserting
<1>3. i > d => x[i + (l + k)] = c[i + l]
  BY DEF Inserting
<1> QED BY <1>1, <1>2, <1>3

LEMMA LayingDisjoint ==
  ASSUME NEW n \in Nat, NEW d \in Nat, NEW l \in Nat, NEW e \in Nat, NEW m \in Nat,
         d + l <= e, e + m <= n, NEW c, NEW x, NEW xx,
         \A i \in 1..n : c[i] = i,
         Cutting(x, c, n, d, l), Cutting(xx, x, n - l, e - l, m)
  PROVE  Laying(xx, n, d, <<>>, 0, l, e, <<>>, 0, m)
<1> SUFFICES ASSUME NEW i \in 1..(n - l - m + 0 + 0)
             PROVE  xx[i] = IF i <= d THEN i
                            ELSE IF i <= d + 0 THEN <<>>[i - d]
                            ELSE IF i <= e - l + 0 THEN i - 0 + l
                            ELSE IF i <= e - l + 0 + 0 THEN <<>>[i - (e - l + 0)]
                            ELSE i - 0 - 0 + l + m
  BY DEF Laying
<1>1. xx[i] = IF i <= e - l THEN x[i] ELSE x[i + m]
  BY DEF Cutting
<1>2. i <= e - l => x[i] = IF i <= d THEN c[i] ELSE c[i + l]
  BY DEF Cutting
<1>3. i > e - l => x[i + m] = IF i + m <= d THEN c[i + m] ELSE c[i + m + l]
  BY DEF Cutting
<1>4. /\ i <= d => c[i] = i
      /\ d < i /\ i <= e - l => c[i + l] = i + l
      /\ i > e - l => c[i + m + l] = i + m + l
  OBVIOUS
<1>5. i > e - l => (i + m <= d => m = 0 /\ FALSE)
  OBVIOUS
<1> QED BY <1>1, <1>2, <1>3, <1>4, <1>5

LEMMA CutTwice ==
  ASSUME NEW n \in Nat, NEW d \in Nat, NEW l \in Nat, NEW f \in Nat,
         d + l + f <= n, NEW c, NEW x, NEW xx,
         Cutting(x, c, n, d, l), Cutting(xx, x, n - l, d, f)
  PROVE  Cutting(xx, c, n, d, l + f)
<1> SUFFICES ASSUME NEW i \in 1..(n - (l + f))
             PROVE  xx[i] = IF i <= d THEN c[i] ELSE c[i + (l + f)]
  BY DEF Cutting
<1>1. xx[i] = IF i <= d THEN x[i] ELSE x[i + f]
  BY DEF Cutting
<1>2. i <= d => x[i] = c[i]
  BY DEF Cutting
<1>3. i > d => x[i + f] = c[(i + f) + l]
  BY DEF Cutting
<1> QED BY <1>1, <1>2, <1>3

\* A text that shares no character with the document, each of its own but once.
Strange(s, n) ==
  /\ s \in Seq(Char)
  /\ \A j \in 1..Len(s) : s[j] \in Nat /\ s[j] > n
  /\ \A i, j \in 1..Len(s) : s[i] = s[j] => i = j
Apart(s, t) == \A i \in 1..Len(s), j \in 1..Len(t) : s[i] # t[j]

\* The text s is in r right behind its first w characters, and nowhere else.
WholeAt(r, s, w) ==
  /\ w \in Nat /\ w + Len(s) <= Len(r)
  /\ \A j \in 1..Len(s) : r[w + j] = s[j]
  /\ \A i \in 1..Len(r), j \in 1..Len(s) : r[i] = s[j] => i = w + j
Nowhere(r, s) == \A i \in 1..Len(r), j \in 1..Len(s) : r[i] # s[j]

\* The characters of the document that are kept, and their order.
KeepsAllBut(r, n, u, g, v, h) ==
  \A i \in 1..n :
    (\E k \in 1..Len(r) : r[k] = i) <=> ~(u < i /\ i <= u + g) /\ ~(v < i /\ i <= v + h)
InOrder(r, n) ==
  \A i, j \in 1..Len(r) : r[i] \in 1..n /\ r[j] \in 1..n /\ i < j => r[i] < r[j]

LEMMA LaidKeeps ==
  ASSUME NEW n \in Nat, NEW r, NEW u, NEW s, NEW g, NEW v, NEW t, NEW h,
         Laid(r, n, u, s, g, v, t, h), Strange(s, n), Strange(t, n)
  PROVE  KeepsAllBut(r, n, u, g, v, h) /\ InOrder(r, n)
<1>1. PICK k, m : k = Len(s) /\ m = Len(t)
  OBVIOUS
<1>2. /\ k \in Nat /\ m \in Nat /\ u \in Nat /\ g \in Nat /\ v \in Nat /\ h \in Nat
      /\ u + g <= v /\ v + h <= n /\ Len(r) = n - g - h + k + m
      /\ \A j \in 1..k : s[j] \in Nat /\ s[j] > n
      /\ \A j \in 1..m : t[j] \in Nat /\ t[j] > n
  BY <1>1 DEF Laid, Strange
<1>3. \A i \in 1..(n - g - h + k + m) :
        r[i] = IF i <= u THEN i
               ELSE IF i <= u + k THEN s[i - u]
               ELSE IF i <= v - g + k THEN i - k + g
               ELSE IF i <= v - g + k + m THEN t[i - (v - g + k)]
               ELSE i - k - m + g + h
  BY <1>1 DEF Laid, Laying
<1>4. ASSUME NEW i \in 1..n, ~(u < i /\ i <= u + g), ~(v < i /\ i <= v + h)
      PROVE  \E j \in 1..Len(r) : r[j] = i
  <2>1. CASE i <= u
    BY <1>2, <1>3, <2>1
  <2>2. CASE u < i /\ i <= v
    <3>1. u + g < i
      BY <1>2, <1>4, <2>2
    <3>2. i - g + k \in 1..Len(r) /\ r[i - g + k] = i
      BY <1>2, <1>3, <2>2, <3>1
    <3> QED BY <3>2
  <2>3. CASE v < i
    <3>1. v + h < i
      BY <1>2, <1>4, <2>3
    <3>2. i - g - h + k + m \in 1..Len(r) /\ r[i - g - h + k + m] = i
      BY <1>2, <1>3, <2>3, <3>1
    <3> QED BY <3>2
  <2> QED BY <1>2, <2>1, <2>2, <2>3
<1>5. ASSUME NEW j \in 1..Len(r), r[j] \in 1..n
      PROVE  \/ j <= u /\ r[j] = j
             \/ u + k < j /\ j <= v - g + k /\ r[j] = j - k + g
             \/ v - g + k + m < j /\ r[j] = j - k - m + g + h
  <2>1. ~(u < j /\ j <= u + k)
    <3>1. u < j /\ j <= u + k => j - u \in 1..k /\ r[j] = s[j - u]
      BY <1>2, <1>3
    <3> QED BY <1>2, <1>5, <3>1
  <2>2. CASE v - g + k < j /\ j <= v - g + k + m
    BY <1>2, <1>3, <1>5, <2>2
  <2> QED BY <1>2, <1>3, <2>1, <2>2
<1>6. KeepsAllBut(r, n, u, g, v, h)
  <2> SUFFICES ASSUME NEW i \in 1..n, NEW j \in 1..Len(r), r[j] = i
               PROVE  ~(u < i /\ i <= u + g) /\ ~(v < i /\ i <= v + h)
    BY <1>4 DEF KeepsAllBut
  <2> QED BY <1>2, <1>5, SMTT(30)
<1>7. InOrder(r, n)
  <2> SUFFICES ASSUME NEW i \in 1..Len(r), NEW j \in 1..Len(r),
                      r[i] \in 1..n, r[j] \in 1..n, i < j
               PROVE  r[i] < r[j]
    BY DEF InOrder
  <2>1. \/ i <= u /\ r[i] = i
        \/ u + k < i /\ i <= v - g + k /\ r[i] = i - k + g
        \/ v - g + k + m < i /\ r[i] = i - k - m + g + h
    BY <1>5
  <2>2. \/ j <= u /\ r[j] = j
        \/ u + k < j /\ j <= v - g + k /\ r[j] = j - k + g
        \/ v - g + k + m < j /\ r[j] = j - k - m + g + h
    BY <1>5
  <2> QED BY <1>2, <2>1, <2>2, SMTT(30)
<1> QED BY <1>6, <1>7

LEMMA LaidTexts ==
  ASSUME NEW n \in Nat, NEW r, NEW u, NEW s, NEW g, NEW v, NEW t, NEW h,
         Laid(r, n, u, s, g, v, t, h), Strange(s, n), Strange(t, n), Apart(s, t)
  PROVE  /\ WholeAt(r, s, u)
         /\ WholeAt(r, t, v - g + Len(s))
         /\ \A i \in 1..Len(r) : r[i] = u /\ u > 0 => i = u
         /\ \A i \in 1..Len(r), j \in Nat :
              r[i] = v /\ v > 0 /\ i < j /\ j <= v - g + Len(s)
                => \E l \in 1..Len(s) : r[j] = s[l]
<1>1. PICK k, m : k = Len(s) /\ m = Len(t)
  OBVIOUS
<1>2. /\ k \in Nat /\ m \in Nat /\ u \in Nat /\ g \in Nat /\ v \in Nat /\ h \in Nat
      /\ u + g <= v /\ v + h <= n /\ Len(r) = n - g - h + k + m
      /\ \A j \in 1..k : s[j] \in Nat /\ s[j] > n
      /\ \A j \in 1..m : t[j] \in Nat /\ t[j] > n
      /\ \A i, j \in 1..k : s[i] = s[j] => i = j
      /\ \A i, j \in 1..m : t[i] = t[j] => i = j
      /\ \A i \in 1..k, j \in 1..m : s[i] # t[j]
  BY <1>1 DEF Laid, Strange, Apart
<1>3. \A i \in 1..(n - g - h + k + m) :
        r[i] = IF i <= u THEN i
               ELSE IF i <= u + k THEN s[i - u]
               ELSE IF i <= v - g + k THEN i - k + g
               ELSE IF i <= v - g + k + m THEN t[i - (v - g + k)]
               ELSE i - k - m + g + h
  BY <1>1 DEF Laid, Laying
<1>4. ASSUME NEW i \in 1..Len(r)
      PROVE  \/ i <= u /\ r[i] = i
             \/ u < i /\ i <= u + k /\ i - u \in 1..k /\ r[i] = s[i - u]
             \/ u + k < i /\ i <= v - g + k /\ r[i] = i - k + g
             \/ /\ v - g + k < i /\ i <= v - g + k + m /\ i - (v - g + k) \in 1..m
                /\ r[i] = t[i - (v - g + k)]
             \/ v - g + k + m < i /\ r[i] = i - k - m + g + h
  BY <1>2, <1>3
<1>5. ASSUME NEW i \in 1..Len(r), NEW j \in 1..k, r[i] = s[j]
      PROVE  i = u + j
  <2>1. r[i] > n /\ \A l \in 1..m : r[i] # t[l]
    BY <1>2, <1>5
  <2>2. i - u \in 1..k /\ r[i] = s[i - u]
    BY <1>2, <1>4, <2>1
  <2>3. i - u = j
    BY <1>2, <1>5, <2>2
  <2> QED BY <1>2, <2>3
<1>6. ASSUME NEW i \in 1..Len(r), NEW j \in 1..m, r[i] = t[j]
      PROVE  i = v - g + k + j
  <2>1. r[i] > n /\ \A l \in 1..k : r[i] # s[l]
    BY <1>2, <1>6
  <2>2. i - (v - g + k) \in 1..m /\ r[i] = t[i - (v - g + k)]
    BY <1>2, <1>4, <2>1
  <2>3. i - (v - g + k) = j
    BY <1>2, <1>6, <2>2
  <2> QED BY <1>2, <2>3
<1>7. WholeAt(r, s, u)
  <2>1. u + k <= Len(r)
    BY <1>2
  <2>2. \A j \in 1..k : r[u + j] = s[j]
    BY <1>2, <1>3
  <2> QED BY <1>1, <1>2, <1>5, <2>1, <2>2 DEF WholeAt
<1>8. WholeAt(r, t, v - g + Len(s))
  <2>1. v - g + k \in Nat /\ v - g + k + m <= Len(r)
    BY <1>2
  <2>2. ASSUME NEW j \in 1..m PROVE r[v - g + k + j] = t[j]
    <3>1. v - g + k + j \in 1..(n - g - h + k + m) /\ (v - g + k + j) - (v - g + k) = j
      BY <1>2
    <3> QED BY <1>2, <1>3, <3>1
  <2> QED BY <1>1, <1>2, <1>6, <2>1, <2>2 DEF WholeAt
<1>9. ASSUME NEW i \in 1..Len(r), r[i] = u, u > 0
      PROVE  i = u
  BY <1>2, <1>4, <1>9, SMTT(30)
<1>10. ASSUME NEW i \in 1..Len(r), NEW j \in Nat, r[i] = v, v > 0, i < j, j <= v - g + k
       PROVE  \E l \in 1..k : r[j] = s[l]
  <2>1. (i <= u /\ u = v /\ g = 0) \/ i = v - g + k
    BY <1>2, <1>4, <1>10
  <2>2. u < j /\ j <= u + k /\ j \in 1..Len(r)
    BY <1>2, <1>4, <1>10, <2>1
  <2>3. j - u \in 1..k /\ r[j] = s[j - u]
    BY <1>2, <1>4, <2>2
  <2> QED BY <2>3
<1> QED BY <1>1, <1>7, <1>8, <1>9, <1>10

\* A text that neither is one of the two inserted is nowhere.
LEMMA LaidNothingElse ==
  ASSUME NEW n \in Nat, NEW r, NEW u, NEW g, NEW v, NEW h, NEW s,
         Laid(r, n, u, <<>>, g, v, <<>>, h), Strange(s, n)
  PROVE  Nowhere(r, s)
<1>1. Len(<<>>) = 0 /\ <<>> \in Seq(Char)
  OBVIOUS
<1>2. Strange(<<>>, n) /\ Apart(<<>>, <<>>)
  BY <1>1 DEF Strange, Apart
<1>3. u \in Nat /\ g \in Nat /\ v \in Nat /\ h \in Nat /\ u + g <= v /\ v + h <= n
      /\ Len(r) = n - g - h
  BY <1>1 DEF Laid
<1>4. \A i \in 1..Len(r) : r[i] = i \/ r[i] = i + g \/ r[i] = i + g + h
  <2>1. \A i \in 1..(n - g - h + 0 + 0) :
          r[i] = IF i <= u THEN i
                 ELSE IF i <= u + 0 THEN <<>>[i - u]
                 ELSE IF i <= v - g + 0 THEN i - 0 + g
                 ELSE IF i <= v - g + 0 + 0 THEN <<>>[i - (v - g + 0)]
                 ELSE i - 0 - 0 + g + h
    BY <1>1 DEF Laid, Laying
  <2> QED BY <1>3, <2>1
<1>5. \A i \in 1..Len(r) : r[i] <= n
  <2>1. \A i \in 1..Len(r) : i + g + h <= n
    BY <1>3
  <2> QED BY <1>3, <1>4, <2>1
<1> QED BY <1>5 DEF Nowhere, Strange

-----------------------------------------------------------------------------
(***************************************************************************)
(* What two operations make of a plain document                            *)
(***************************************************************************)

\* Both texts are in, a's to the left.
BothInserted(r, n, a, b) == Laid(r, n, a.position, a.text, 0, b.position, b.text, 0)

\* The deleted span is gone, and the text is in unless it was put into the span or
\* right behind it.
InsertedDeleted(r, n, i, d) ==
  \/ i.position <= d.position /\ Laid(r, n, i.position, i.text, 0, d.position, <<>>, d.length)
  \/ DeleteEnd(d) <= i.position /\ Laid(r, n, d.position, <<>>, d.length, i.position, i.text, 0)
  \/ /\ d.position < i.position /\ i.position <= DeleteEnd(d)
     /\ Laid(r, n, d.position, <<>>, d.length, DeleteEnd(d), <<>>, 0)

\* Both spans are gone, of which a's begins first.
BothDeleted(r, n, a, b) ==
  /\ a.position <= b.position
  /\ \/ DeleteEnd(a) <= b.position /\ Laid(r, n, a.position, <<>>, a.length, b.position, <<>>, b.length)
     \/ /\ b.position < DeleteEnd(a)
        /\ \E g \in Nat :
             /\ a.position + g = Greatest(DeleteEnd(a), DeleteEnd(b))
             /\ Laid(r, n, a.position, <<>>, g, a.position + g, <<>>, 0)

LEMMA NoText == Len(<<>>) = 0 /\ <<>> \in Seq(Char)
  OBVIOUS

LEMMA PictureOfInserts ==
  ASSUME NEW c, Plain(c), NEW a \in InsertOperation, NEW b \in InsertOperation,
         a.position <= Len(c), b.position <= Len(c), LeftOf(a, b)
  PROVE  BothInserted(ApplyInsert(ApplyInsert(c, a), TransformInsertAgainstInsert(b, a)),
                      Len(c), a, b)
<1>1. PICK n \in Nat, k \in Nat, m \in Nat : n = Len(c) /\ k = Len(a.text) /\ m = Len(b.text)
  BY DEF InsertOperation, Plain
<1>2. PICK p \in Nat, q \in Nat : p = a.position /\ q = b.position /\ p <= q /\ q <= n
  BY <1>1 DEF InsertOperation, LeftOf
<1>3. PICK bb : bb = TransformInsertAgainstInsert(b, a)
  OBVIOUS
<1>4. bb \in InsertOperation /\ bb.position = q + k /\ bb.text = b.text
  <2>1. bb = [b EXCEPT !.position = q + k]
    BY <1>1, <1>2, <1>3 DEF TransformInsertAgainstInsert, LeftOf
  <2>2. q + k \in Nat
    OBVIOUS
  <2> QED BY <2>1, <2>2, EditedInsert, EmptySeq
<1>5. PICK x : x = ApplyInsert(c, a)
  OBVIOUS
<1>6. x \in Seq(Char) /\ Len(x) = n + k /\ Inserting(x, c, n, p, a.text, k)
  BY <1>1, <1>2, <1>5, InsertShape DEF InsertedInto, Plain
<1>7. PICK xx : xx = ApplyInsert(x, bb)
  OBVIOUS
<1>8. bb.position <= Len(x)
  BY <1>2, <1>4, <1>6
<1>9. xx \in Seq(Char) /\ Len(xx) = (n + k) + m /\ Inserting(xx, x, n + k, q + k, b.text, m)
  BY <1>1, <1>4, <1>6, <1>7, <1>8, InsertShape DEF InsertedInto
<1>10. \A i \in 1..n : c[i] = i
  BY <1>1 DEF Plain
<1>11. Laying(xx, n, p, a.text, k, 0, q, b.text, m, 0)
  BY <1>2, <1>6, <1>9, <1>10, LayingInserts
<1>12. a.text \in Seq(Char) /\ b.text \in Seq(Char)
  BY DEF InsertOperation
<1>13. p + 0 <= q /\ q + 0 <= n /\ Len(xx) = n - 0 - 0 + k + m
  BY <1>2, <1>9
<1>14. Laid(xx, n, p, a.text, 0, q, b.text, 0)
  BY <1>1, <1>9, <1>11, <1>12, <1>13 DEF Laid
<1> QED BY <1>1, <1>2, <1>3, <1>5, <1>7, <1>14 DEF BothInserted

\* The insert first.
LEMMA PictureOfInsertAndDelete ==
  ASSUME NEW c, Plain(c), NEW a \in InsertOperation, NEW b \in DeleteOperation,
         a.position <= Len(c), DeleteEnd(b) <= Len(c)
  PROVE  InsertedDeleted(ApplyDelete(ApplyInsert(c, a), TransformDeleteAgainstInsert(b, a)),
                         Len(c), a, b)
<1>1. PICK s \in Seq(Char), n \in Nat, k \in Nat : n = Len(c) /\ s = a.text /\ k = Len(s)
  BY DEF InsertOperation, Plain
<1>2. PICK p \in Nat, d \in Nat, l \in Nat : p = a.position /\ d = b.position /\ l = b.length
  BY DEF InsertOperation, DeleteOperation
<1>3. d + l <= n /\ p <= n /\ DeleteEnd(b) = d + l
  BY <1>1, <1>2 DEF DeleteEnd
<1>4. PICK bb : bb = TransformDeleteAgainstInsert(b, a)
  OBVIOUS
<1>5. PICK x : x = ApplyInsert(c, a)
  OBVIOUS
<1>6. x \in Seq(Char) /\ Len(x) = n + k /\ Inserting(x, c, n, p, s, k)
  BY <1>1, <1>2, <1>5, InsertShape DEF InsertedInto, Plain
<1>7. PICK xx : xx = ApplyDelete(x, bb)
  OBVIOUS
<1>8. \A i \in 1..n : c[i] = i
  BY <1>1 DEF Plain
<1>9. ASSUME NEW e \in Nat, NEW f \in Nat, bb \in DeleteOperation, bb.position = e, bb.length = f,
             e + f <= n + k
      PROVE  xx \in Seq(Char) /\ Len(xx) = (n + k) - f /\ Cutting(xx, x, n + k, e, f)
  <2>1. DeleteEnd(bb) <= Len(x)
    BY <1>6, <1>9 DEF DeleteEnd
  <2> QED BY <1>6, <1>7, <1>9, <2>1, DeleteShape DEF CutFrom
<1>10. CASE p <= d
  <2>1. bb \in DeleteOperation /\ bb.position = d + k /\ bb.length = l
    <3>1. bb = [b EXCEPT !.position = d + k]
      BY <1>1, <1>2, <1>4, <1>10 DEF TransformDeleteAgainstInsert
    <3>2. d + k \in Nat
      OBVIOUS
    <3> QED BY <1>2, <3>1, <3>2, MovedDelete
  <2>2. xx \in Seq(Char) /\ Len(xx) = (n + k) - l /\ Cutting(xx, x, n + k, d + k, l)
    BY <1>3, <1>9, <2>1
  <2>3. Laying(xx, n, p, s, k, 0, d, <<>>, 0, l)
    BY <1>3, <1>6, <1>8, <1>10, <2>2, LayingBefore
  <2>4. p + 0 <= d /\ d + l <= n /\ Len(xx) = n - 0 - l + k + 0
    BY <1>3, <1>10, <2>2
  <2>5. Laid(xx, n, p, s, 0, d, <<>>, l)
    BY <1>1, <2>2, <2>3, <2>4, NoText DEF Laid
  <2> QED BY <1>1, <1>2, <1>4, <1>5, <1>7, <1>10, <2>5 DEF InsertedDeleted
<1>11. CASE d < p /\ d + l <= p
  <2>1. bb = b
    BY <1>2, <1>3, <1>4, <1>11 DEF TransformDeleteAgainstInsert
  <2>2. xx \in Seq(Char) /\ Len(xx) = (n + k) - l /\ Cutting(xx, x, n + k, d, l)
    BY <1>2, <1>3, <1>9, <2>1, SMTT(30)
  <2>3. Laying(xx, n, d, <<>>, 0, l, p, s, k, 0)
    BY <1>3, <1>6, <1>8, <1>11, <2>2, LayingAfter
  <2>4. p + 0 <= n /\ Len(xx) = n - l - 0 + 0 + k
    BY <1>3, <2>2
  <2>5. Laid(xx, n, d, <<>>, l, p, s, 0)
    BY <1>1, <1>11, <2>2, <2>3, <2>4, NoText DEF Laid
  <2> QED BY <1>1, <1>2, <1>3, <1>4, <1>5, <1>7, <1>11, <2>5 DEF InsertedDeleted
<1>12. CASE d < p /\ p < d + l
  <2>1. bb \in DeleteOperation /\ bb.position = d /\ bb.length = l + k
    <3>1. bb = [b EXCEPT !.length = l + k]
      BY <1>1, <1>2, <1>3, <1>4, <1>12 DEF TransformDeleteAgainstInsert
    <3> QED BY <1>2, <3>1, ResizedDelete, SMTT(30)
  <2>2. xx \in Seq(Char) /\ Len(xx) = (n + k) - (l + k) /\ Cutting(xx, x, n + k, d, l + k)
    BY <1>3, <1>9, <2>1
  <2>3. Cutting(xx, c, n, d, l)
    BY <1>3, <1>6, <1>8, <1>12, <2>2, LayingInside
  <2>4. Laying(xx, n, d, <<>>, 0, l, d + l, <<>>, 0, 0)
    BY <1>3, <1>8, <2>3, LayingCut
  <2>5. (d + l) + 0 <= n /\ Len(xx) = n - l - 0 + 0 + 0 /\ d + l \in Nat
    BY <1>3, <2>2
  <2>6. Laid(xx, n, d, <<>>, l, d + l, <<>>, 0)
    BY <1>1, <2>2, <2>4, <2>5, NoText DEF Laid
  <2> QED BY <1>1, <1>2, <1>3, <1>4, <1>5, <1>7, <1>12, <2>6 DEF InsertedDeleted
<1> QED BY <1>10, <1>11, <1>12

\* The delete first, and the insert right behind it or in it.
LEMMA PictureOfSwallowed ==
  ASSUME NEW c, Plain(c), NEW a \in InsertOperation, NEW b \in DeleteOperation,
         b.position < a.position, a.position <= DeleteEnd(b), DeleteEnd(b) <= Len(c)
  PROVE  InsertedDeleted(ApplyInsert(ApplyDelete(c, b), TransformInsertAgainstDelete(a, b)),
                         Len(c), a, b)
<1>1. PICK n \in Nat, p \in Nat, d \in Nat, l \in Nat :
        n = Len(c) /\ p = a.position /\ d = b.position /\ l = b.length
  BY DEF InsertOperation, DeleteOperation, Plain
<1>2. d + l <= n /\ DeleteEnd(b) = d + l
  BY <1>1 DEF DeleteEnd
<1>3. PICK y : y = ApplyDelete(c, b)
  OBVIOUS
<1>4. y \in Seq(Char) /\ Len(y) = n - l /\ Cutting(y, c, n, d, l)
  BY <1>1, <1>2, <1>3, DeleteShape DEF CutFrom, Plain
<1>5. TransformInsertAgainstDelete(a, b).text = <<>>
  <2>1. TransformInsertAgainstDelete(a, b) = [a EXCEPT !.position = d, !.text = <<>>]
    BY <1>1, <1>2 DEF TransformInsertAgainstDelete
  <2> QED BY <2>1 DEF InsertOperation
<1>6. ApplyInsert(y, TransformInsertAgainstDelete(a, b)) = y
  BY <1>5 DEF ApplyInsert
<1>7. Laying(y, n, d, <<>>, 0, l, d + l, <<>>, 0, 0)
  <2>1. \A i \in 1..n : c[i] = i
    BY <1>1 DEF Plain
  <2> QED BY <1>2, <1>4, <2>1, LayingCut
<1>8. (d + l) + 0 <= n /\ Len(y) = n - l - 0 + 0 + 0 /\ d + l \in Nat
  BY <1>2, <1>4
<1>9. Laid(y, n, d, <<>>, l, d + l, <<>>, 0)
  BY <1>1, <1>4, <1>7, <1>8, NoText DEF Laid
<1> QED BY <1>1, <1>2, <1>3, <1>6, <1>9 DEF InsertedDeleted

\* The delete that begins first, first.
LEMMA PictureOfDeletes ==
  ASSUME NEW c, Plain(c), NEW a \in DeleteOperation, NEW b \in DeleteOperation,
         a.position <= b.position, DeleteEnd(a) <= Len(c), DeleteEnd(b) <= Len(c)
  PROVE  BothDeleted(ApplyDelete(ApplyDelete(c, a), TransformDeleteAgainstDelete(b, a)),
                     Len(c), a, b)
<1>1. PICK n \in Nat, d \in Nat, l \in Nat : n = Len(c) /\ d = a.position /\ l = a.length
  BY DEF DeleteOperation, Plain
<1>2. PICK e \in Nat, m \in Nat : e = b.position /\ m = b.length
  BY DEF DeleteOperation
<1>3. /\ d <= e /\ d + l <= n /\ e + m <= n
      /\ DeleteEnd(a) = d + l /\ DeleteEnd(b) = e + m
  BY <1>1, <1>2 DEF DeleteEnd
<1>4. PICK bb : bb = TransformDeleteAgainstDelete(b, a)
  OBVIOUS
<1>5. PICK x : x = ApplyDelete(c, a)
  OBVIOUS
<1>6. x \in Seq(Char) /\ Len(x) = n - l /\ Cutting(x, c, n, d, l)
  BY <1>1, <1>3, <1>5, DeleteShape DEF CutFrom, Plain
<1>7. PICK xx : xx = ApplyDelete(x, bb)
  OBVIOUS
<1>8. \A i \in 1..n : c[i] = i
  BY <1>1 DEF Plain
<1>9. ASSUME NEW q \in Nat, NEW f \in Nat, bb \in DeleteOperation, bb.position = q, bb.length = f,
             q + f <= n - l
      PROVE  xx \in Seq(Char) /\ Len(xx) = (n - l) - f /\ Cutting(xx, x, n - l, q, f)
  <2>1. DeleteEnd(bb) <= Len(x)
    BY <1>6, <1>9 DEF DeleteEnd
  <2> QED BY <1>6, <1>7, <1>9, <2>1, DeleteShape DEF CutFrom
<1>10. CASE d + l <= e
  <2>1. bb \in DeleteOperation /\ bb.position = e - l /\ bb.length = m
    <3>1. e - l \in Nat
      BY <1>10
    <3>2. \/ bb = [b EXCEPT !.position = e - l]
          \/ bb = b /\ e + m <= d
      BY <1>1, <1>2, <1>3, <1>4, <1>10 DEF TransformDeleteAgainstDelete
    <3>3. CASE bb = [b EXCEPT !.position = e - l]
      BY <1>2, <3>1, <3>3, MovedDelete
    <3>4. CASE bb = b /\ e + m <= d
      <4>1. e - l = e
        BY <1>3, <1>10, <3>4
      <4> QED BY <1>2, <3>4, <4>1
    <3> QED BY <3>2, <3>3, <3>4
  <2>2. e - l \in Nat /\ (e - l) + m <= n - l
    BY <1>3, <1>10
  <2>3. xx \in Seq(Char) /\ Len(xx) = (n - l) - m /\ Cutting(xx, x, n - l, e - l, m)
    BY <1>9, <2>1, <2>2
  <2>4. Laying(xx, n, d, <<>>, 0, l, e, <<>>, 0, m)
    BY <1>3, <1>6, <1>8, <1>10, <2>3, LayingDisjoint
  <2>5. Len(xx) = n - l - m + 0 + 0
    BY <2>3
  <2>6. Laid(xx, n, d, <<>>, l, e, <<>>, m)
    BY <1>3, <1>10, <2>3, <2>4, <2>5, NoText DEF Laid
  <2> QED BY <1>1, <1>2, <1>3, <1>4, <1>5, <1>7, <1>10, <2>6 DEF BothDeleted
<1>11. CASE e < d + l
  <2>1. PICK v \in Nat : v = (IF d + l <= e + m THEN d + l ELSE e + m) - e
    BY <1>11
  <2>2. Sharing(d, l, e, m, v)
    BY <1>3, <1>11, <2>1 DEF Sharing
  <2>3. PICK f \in Nat : f = m - v
    <3>1. m - v \in Nat
      BY <2>1
    <3> QED BY <3>1
  <2>4. bb \in DeleteOperation /\ bb.position = d /\ bb.length = f
    <3>1. CASE e + m <= d
      <4>1. bb = b
        BY <1>1, <1>2, <1>3, <1>4, <3>1 DEF TransformDeleteAgainstDelete
      <4>2. e = d /\ f = m
        BY <1>3, <1>11, <2>1, <2>3, <3>1
      <4> QED BY <1>2, <4>1, <4>2
    <3>2. CASE d < e + m
      <4>1. /\ f = Greatest(0, m - Greatest(0, Least(e + m, d + l) - Greatest(e, d)))
            /\ d = Least(e, d)
        BY <2>2, <2>3, <3>2, Overlap
      <4>2. Shrinking(b, a, d, f)
        BY <1>1, <1>2, <1>3, <1>11, <3>2, <4>1 DEF Shrinking
      <4> QED BY <1>4, <4>2, ShrunkDelete
    <3> QED BY <1>3, <3>1, <3>2
  <2>5. /\ d + f <= n - l /\ d + l + f <= n
        /\ d + (l + f) = (IF d + l >= e + m THEN d + l ELSE e + m)
    BY <1>3, <1>11, <2>1, <2>3
  <2>6. xx \in Seq(Char) /\ Len(xx) = (n - l) - f /\ Cutting(xx, x, n - l, d, f)
    BY <1>9, <2>4, <2>5
  <2>7. Cutting(xx, c, n, d, l + f)
    BY <1>6, <2>5, <2>6, CutTwice
  <2>8. PICK g \in Nat : g = l + f
    OBVIOUS
  <2>9. d + g <= n /\ Len(xx) = n - g - 0 + 0 + 0 /\ d + g \in Nat /\ (d + g) + 0 <= n
    BY <2>5, <2>6, <2>8
  <2>10. Laying(xx, n, d, <<>>, 0, g, d + g, <<>>, 0, 0)
    BY <1>8, <2>7, <2>8, <2>9, LayingCut
  <2>11. Laid(xx, n, d, <<>>, g, d + g, <<>>, 0)
    BY <2>6, <2>9, <2>10, NoText DEF Laid
  <2>12. a.position + g = Greatest(DeleteEnd(a), DeleteEnd(b))
    BY <1>1, <1>3, <2>5, <2>8 DEF Greatest
  <2>13. \E h \in Nat :
            /\ a.position + h = Greatest(DeleteEnd(a), DeleteEnd(b))
            /\ Laid(xx, n, a.position, <<>>, h, a.position + h, <<>>, 0)
    BY <1>1, <2>11, <2>12
  <2> QED BY <1>1, <1>2, <1>3, <1>4, <1>5, <1>7, <1>11, <2>13 DEF BothDeleted
<1> QED BY <1>10, <1>11

\* What a replica that has applied a and then b, transformed, may show.
Outcome(r, n, a, b) ==
  \/ IsInsert(a) /\ IsInsert(b) /\ (BothInserted(r, n, a, b) \/ BothInserted(r, n, b, a))
  \/ IsInsert(a) /\ IsDelete(b) /\ InsertedDeleted(r, n, a, b)
  \/ IsDelete(a) /\ IsInsert(b) /\ InsertedDeleted(r, n, b, a)
  \/ IsDelete(a) /\ IsDelete(b) /\ (BothDeleted(r, n, a, b) \/ BothDeleted(r, n, b, a))

LEMMA Outcomes ==
  ASSUME NEW c, Plain(c), NEW a \in Operation, NEW b \in Operation,
         InRange(a, Len(c)), InRange(b, Len(c)), a.id # b.id
  PROVE  Outcome(ApplyOperation(ApplyOperation(c, a), TransformAgainstConcurrent(b, a)),
                 Len(c), a, b)
<1> DEFINE bb == TransformAgainstConcurrent(b, a)
           r == ApplyOperation(ApplyOperation(c, a), bb)
<1>0. c \in Seq(Char) /\ Len(c) \in Nat
  BY DEF Plain
<1>1. IsInsert(bb) <=> IsInsert(b)
  BY TransformKeepsKind
<1>2. CASE a \in InsertOperation /\ b \in InsertOperation
  <2>1. IsInsert(a) /\ IsInsert(b) /\ a.position <= Len(c) /\ b.position <= Len(c)
    BY <1>2 DEF InsertOperation, IsInsert, InRange
  <2>2. r = ApplyInsert(ApplyInsert(c, a), TransformInsertAgainstInsert(b, a))
    BY <1>1, <2>1 DEF ApplyOperation, TransformAgainstConcurrent
  <2>3. CASE LeftOf(a, b)
    BY <1>2, <2>1, <2>2, <2>3, PictureOfInserts DEF Outcome
  <2>4. CASE LeftOf(b, a)
    <3>1. r = ApplyInsert(ApplyInsert(c, b), TransformInsertAgainstInsert(a, b))
      BY <1>0, <1>2, <2>1, <2>2, TP1Inserts
    <3> QED BY <1>2, <2>1, <2>4, <3>1, PictureOfInserts DEF Outcome
  <2> QED BY <1>2, <2>3, <2>4, InsertsOrdered
<1>3. CASE a \in InsertOperation /\ b \in DeleteOperation
  <2>1. /\ IsInsert(a) /\ IsDelete(b) /\ ~IsInsert(b)
        /\ a.position <= Len(c) /\ DeleteEnd(b) <= Len(c)
    BY <1>3 DEF InsertOperation, DeleteOperation, IsInsert, IsDelete, InRange
  <2>2. r = ApplyDelete(ApplyInsert(c, a), TransformDeleteAgainstInsert(b, a))
    BY <1>1, <2>1 DEF ApplyOperation, TransformAgainstConcurrent
  <2> QED BY <1>3, <2>1, <2>2, PictureOfInsertAndDelete DEF Outcome
<1>4. CASE a \in DeleteOperation /\ b \in InsertOperation
  <2>1. /\ IsDelete(a) /\ ~IsInsert(a) /\ IsInsert(b)
        /\ DeleteEnd(a) <= Len(c) /\ b.position <= Len(c)
    BY <1>4 DEF InsertOperation, DeleteOperation, IsInsert, IsDelete, InRange
  <2>2. r = ApplyInsert(ApplyDelete(c, a), TransformInsertAgainstDelete(b, a))
    BY <1>1, <2>1 DEF ApplyOperation, TransformAgainstConcurrent
  <2>3. CASE a.position < b.position /\ b.position <= DeleteEnd(a)
    BY <1>4, <2>1, <2>2, <2>3, PictureOfSwallowed DEF Outcome
  <2>4. CASE ~(a.position < b.position /\ b.position <= DeleteEnd(a))
    <3>1. ~(b.text # <<>> /\ b.position > a.position /\ b.position = DeleteEnd(a))
      BY <1>4, <2>4 DEF InsertOperation, DeleteOperation, DeleteEnd
    <3>2. r = ApplyDelete(ApplyInsert(c, b), TransformDeleteAgainstInsert(a, b))
      BY <1>0, <1>4, <2>1, <2>2, <3>1, TP1InsertAndDelete
    <3> QED BY <1>4, <2>1, <3>2, PictureOfInsertAndDelete DEF Outcome
  <2> QED BY <2>3, <2>4
<1>5. CASE a \in DeleteOperation /\ b \in DeleteOperation
  <2>1. /\ IsDelete(a) /\ ~IsInsert(a) /\ IsDelete(b) /\ ~IsInsert(b)
        /\ DeleteEnd(a) <= Len(c) /\ DeleteEnd(b) <= Len(c)
        /\ a.position \in Nat /\ b.position \in Nat
    BY <1>5 DEF DeleteOperation, IsInsert, IsDelete, InRange
  <2>2. r = ApplyDelete(ApplyDelete(c, a), TransformDeleteAgainstDelete(b, a))
    BY <1>1, <2>1 DEF ApplyOperation, TransformAgainstConcurrent
  <2>3. CASE a.position <= b.position
    BY <1>5, <2>1, <2>2, <2>3, PictureOfDeletes DEF Outcome
  <2>4. CASE b.position <= a.position
    <3>1. r = ApplyDelete(ApplyDelete(c, b), TransformDeleteAgainstDelete(a, b))
      BY <1>0, <1>5, <2>1, <2>2, TP1Deletes
    <3> QED BY <1>5, <2>1, <2>4, <3>1, PictureOfDeletes DEF Outcome
  <2> QED BY <2>1, <2>3, <2>4
<1> QED BY <1>2, <1>3, <1>4, <1>5 DEF Operation

\* What is transformed fits the document it is applied to.
LEMMA TransformedInRange ==
  ASSUME NEW c \in Seq(Char), NEW a \in Operation, NEW b \in Operation,
         InRange(a, Len(c)), InRange(b, Len(c))
  PROVE  InRange(TransformAgainstConcurrent(b, a), Len(ApplyOperation(c, a)))
<1> DEFINE bb == TransformAgainstConcurrent(b, a)
           x == ApplyOperation(c, a)
<1>1. IsInsert(bb) <=> IsInsert(b)
  BY TransformKeepsKind
<1>2. PICK n \in Nat : n = Len(c)
  OBVIOUS
<1>3. CASE a \in InsertOperation
  <2>1. PICK p \in Nat, k \in Nat : p = a.position /\ k = Len(a.text)
    BY <1>3 DEF InsertOperation
  <2>2. p <= n /\ Len(x) = n + k /\ IsInsert(a)
    <3>1. IsInsert(a) /\ a.position <= Len(c)
      BY <1>3 DEF InsertOperation, IsInsert, InRange
    <3>2. x = ApplyInsert(c, a)
      BY <3>1 DEF ApplyOperation
    <3> QED BY <1>2, <1>3, <2>1, <3>1, <3>2, InsertShape DEF InsertedInto
  <2>3. CASE b \in InsertOperation
    <3>1. PICK q \in Nat : q = b.position /\ q <= n
      BY <1>2, <2>3 DEF InsertOperation, IsInsert, InRange
    <3>2. IsInsert(b)
      BY <2>3 DEF InsertOperation, IsInsert
    <3>3. bb = b \/ bb = [b EXCEPT !.position = q + k]
      BY <2>1, <2>2, <3>1, <3>2 DEF TransformAgainstConcurrent, TransformInsertAgainstInsert
    <3>4. bb.position = q \/ bb.position = q + k
      BY <2>3, <3>1, <3>3 DEF InsertOperation
    <3>5. bb.position <= n + k
      BY <3>1, <3>4
    <3> QED BY <1>1, <2>2, <3>2, <3>5 DEF InRange
  <2>4. CASE b \in DeleteOperation
    <3>1. PICK e \in Nat, m \in Nat : e = b.position /\ m = b.length /\ e + m <= n
      BY <1>2, <2>4 DEF DeleteOperation, IsInsert, InRange, DeleteEnd
    <3>2. ~IsInsert(b)
      BY <2>4 DEF DeleteOperation, IsInsert
    <3>3. \/ bb = b
          \/ bb = [b EXCEPT !.position = e + k]
          \/ bb = [b EXCEPT !.length = m + k]
      BY <2>1, <2>2, <3>1, <3>2 DEF TransformAgainstConcurrent, TransformDeleteAgainstInsert
    <3>4. \/ bb.position = e /\ bb.length = m
          \/ bb.position = e + k /\ bb.length = m
          \/ bb.position = e /\ bb.length = m + k
      BY <2>4, <3>1, <3>3 DEF DeleteOperation
    <3>5. bb.position + bb.length <= n + k
      BY <3>1, <3>4, SMTT(30)
    <3> QED BY <1>1, <2>2, <3>2, <3>5 DEF InRange, DeleteEnd
  <2> QED BY <2>3, <2>4 DEF Operation
<1>4. CASE a \in DeleteOperation
  <2>1. PICK d \in Nat, l \in Nat : d = a.position /\ l = a.length
    BY <1>4 DEF DeleteOperation
  <2>2. d + l <= n /\ DeleteEnd(a) = d + l /\ Len(x) = n - l /\ ~IsInsert(a)
    <3>1. ~IsInsert(a) /\ DeleteEnd(a) <= Len(c)
      BY <1>4 DEF DeleteOperation, IsInsert, InRange
    <3>2. x = ApplyDelete(c, a)
      BY <3>1 DEF ApplyOperation
    <3>3. DeleteEnd(a) = d + l
      BY <2>1 DEF DeleteEnd
    <3>4. CutFrom(x, c, d, l)
      BY <1>4, <2>1, <3>1, <3>2, DeleteShape
    <3> QED BY <1>2, <3>1, <3>3, <3>4 DEF CutFrom
  <2>3. CASE b \in InsertOperation
    <3>1. PICK q \in Nat : q = b.position /\ q <= n
      BY <1>2, <2>3 DEF InsertOperation, IsInsert, InRange
    <3>2. IsInsert(b)
      BY <2>3 DEF InsertOperation, IsInsert
    <3>3. \/ bb = b /\ q <= d
          \/ bb = [b EXCEPT !.position = q - l] /\ q > d + l
          \/ bb = [b EXCEPT !.position = d, !.text = <<>>]
      BY <2>1, <2>2, <3>1, <3>2 DEF TransformAgainstConcurrent, TransformInsertAgainstDelete
    <3>4. (bb.position = q /\ q <= d) \/ bb.position = q - l \/ bb.position = d
      BY <2>3, <3>1, <3>3 DEF InsertOperation
    <3>5. bb.position <= n - l
      BY <2>2, <3>1, <3>4
    <3> QED BY <1>1, <2>2, <3>2, <3>5 DEF InRange
  <2>4. CASE b \in DeleteOperation
    <3>1. PICK e \in Nat, m \in Nat : e = b.position /\ m = b.length
      BY <2>4 DEF DeleteOperation
    <3>2. ~IsInsert(b) /\ e + m <= n /\ DeleteEnd(b) = e + m
      BY <1>2, <2>4, <3>1 DEF DeleteOperation, IsInsert, InRange, DeleteEnd
    <3>3. PICK w \in Nat : w = Greatest(0, m - Greatest(0, Least(e + m, d + l) - Greatest(e, d)))
      <4>1. Greatest(0, m - Greatest(0, Least(e + m, d + l) - Greatest(e, d))) \in Nat
        BY DEF Greatest, Least
      <4> QED BY <4>1
    <3>4. \/ bb = b /\ e + m <= d
          \/ bb = [b EXCEPT !.position = e - l] /\ d + l <= e
          \/ bb = [b EXCEPT !.position = Least(e, d), !.length = w] /\ d < e + m /\ e < d + l
      <4>1. bb = TransformDeleteAgainstDelete(b, a)
        BY <2>2, <3>2 DEF TransformAgainstConcurrent
      <4> QED BY <2>1, <2>2, <3>1, <3>2, <3>3, <4>1 DEF TransformDeleteAgainstDelete
    <3>5. \/ bb.position + bb.length = e + m /\ e + m <= d
          \/ bb.position + bb.length = (e - l) + m
          \/ bb.position + bb.length = Least(e, d) + w /\ d < e + m /\ e < d + l
      BY <2>4, <3>1, <3>4 DEF DeleteOperation
    <3>6. d < e + m /\ e < d + l => Least(e, d) + w <= n - l
      BY <2>2, <3>2, <3>3 DEF Least, Greatest
    <3>7. bb.position + bb.length <= n - l
      BY <2>2, <3>2, <3>5, <3>6
    <3> QED BY <1>1, <2>2, <3>2, <3>7 DEF InRange, DeleteEnd
  <2> QED BY <2>3, <2>4 DEF Operation
<1> QED BY <1>3, <1>4 DEF Operation

\* What becomes of the document's characters: those that one of the two operations
\* takes are gone, the others are there in their order.
Takes(o, i) == IsDelete(o) /\ o.position < i /\ i <= DeleteEnd(o)
Keeping(r, n, a, b) ==
  /\ \A i \in 1..n : (\E k \in 1..Len(r) : r[k] = i) <=> ~Takes(a, i) /\ ~Takes(b, i)
  /\ InOrder(r, n)

\* What becomes of the text of the insert o made while d was: it is swallowed, or
\* whole with nothing but d's text between it and the character it was put behind.
Placed(r, o, d, w) ==
  /\ WholeAt(r, o.text, w)
  /\ \A i \in 1..Len(r), j \in Nat :
       r[i] = o.position /\ o.position > 0 /\ i < j /\ j <= w
         => IsInsert(d) /\ \E l \in 1..Len(d.text) : r[j] = d.text[l]
Fate(r, o, d) ==
  \/ Swallows(d, o) /\ Nowhere(r, o.text)
  \/ \E w : Placed(r, o, d, w)

Legible(o, n) == IsInsert(o) => Strange(o.text, n)

LEMMA ExactOfInserts ==
  ASSUME NEW n \in Nat, NEW r, NEW a \in InsertOperation, NEW b \in InsertOperation,
         BothInserted(r, n, a, b), Strange(a.text, n), Strange(b.text, n), Apart(a.text, b.text)
  PROVE  Keeping(r, n, a, b) /\ Fate(r, a, b) /\ Fate(r, b, a)
<1>1. Laid(r, n, a.position, a.text, 0, b.position, b.text, 0)
  BY DEF BothInserted
<1>2. /\ IsInsert(a) /\ ~IsDelete(a) /\ IsInsert(b) /\ ~IsDelete(b)
      /\ a.position \in Nat /\ b.position \in Nat
  BY DEF InsertOperation, IsInsert, IsDelete
<1>3. KeepsAllBut(r, n, a.position, 0, b.position, 0) /\ InOrder(r, n)
  BY <1>1, LaidKeeps
<1>4. Keeping(r, n, a, b)
  <2> SUFFICES ASSUME NEW i \in 1..n
               PROVE  (\E k \in 1..Len(r) : r[k] = i) <=> ~Takes(a, i) /\ ~Takes(b, i)
    BY <1>3 DEF Keeping
  <2> QED BY <1>2, <1>3 DEF KeepsAllBut, Takes
<1>5. /\ WholeAt(r, a.text, a.position)
      /\ WholeAt(r, b.text, b.position - 0 + Len(a.text))
      /\ \A i \in 1..Len(r) : r[i] = a.position /\ a.position > 0 => i = a.position
      /\ \A i \in 1..Len(r), j \in Nat :
           r[i] = b.position /\ b.position > 0 /\ i < j /\ j <= b.position - 0 + Len(a.text)
             => \E l \in 1..Len(a.text) : r[j] = a.text[l]
  BY <1>1, LaidTexts
<1>6. Placed(r, a, b, a.position)
  BY <1>2, <1>5 DEF Placed
<1>7. Placed(r, b, a, b.position - 0 + Len(a.text))
  BY <1>2, <1>5 DEF Placed
<1> QED BY <1>4, <1>6, <1>7 DEF Fate

LEMMA ExactOfInsertAndDelete ==
  ASSUME NEW n \in Nat, NEW r, NEW o \in InsertOperation, NEW d \in DeleteOperation,
         InsertedDeleted(r, n, o, d), Strange(o.text, n)
  PROVE  Keeping(r, n, o, d) /\ Fate(r, o, d)
<1>1. /\ IsInsert(o) /\ ~IsDelete(o) /\ IsDelete(d) /\ ~IsInsert(d)
      /\ o.position \in Nat /\ d.position \in Nat /\ d.length \in Nat
      /\ DeleteEnd(d) = d.position + d.length
  BY DEF InsertOperation, DeleteOperation, IsInsert, IsDelete, DeleteEnd
<1>2. Strange(<<>>, n) /\ Apart(<<>>, o.text) /\ Apart(o.text, <<>>)
  BY NoText DEF Strange, Apart
<1>3. ASSUME NEW u \in Nat, NEW g \in Nat, NEW v \in Nat, NEW h \in Nat,
             KeepsAllBut(r, n, u, g, v, h), InOrder(r, n),
             \/ g = 0 /\ v = d.position /\ h = d.length
             \/ h = 0 /\ u = d.position /\ g = d.length
      PROVE  Keeping(r, n, o, d)
  <2> SUFFICES ASSUME NEW i \in 1..n
               PROVE  (\E k \in 1..Len(r) : r[k] = i) <=> ~Takes(o, i) /\ ~Takes(d, i)
    BY <1>3 DEF Keeping
  <2>1. ~(u < i /\ i <= u + g) /\ ~(v < i /\ i <= v + h) <=> ~Takes(d, i)
    BY <1>1, <1>3 DEF Takes
  <2>2. ~Takes(o, i)
    BY <1>1 DEF Takes
  <2>3. (\E k \in 1..Len(r) : r[k] = i) <=> ~(u < i /\ i <= u + g) /\ ~(v < i /\ i <= v + h)
    BY <1>3 DEF KeepsAllBut
  <2> QED BY <2>1, <2>2, <2>3
<1>4. CASE Laid(r, n, o.position, o.text, 0, d.position, <<>>, d.length)
  <2>1. Keeping(r, n, o, d)
    BY <1>1, <1>2, <1>3, <1>4, LaidKeeps
  <2>2. /\ WholeAt(r, o.text, o.position)
        /\ \A i \in 1..Len(r) : r[i] = o.position /\ o.position > 0 => i = o.position
    BY <1>2, <1>4, LaidTexts
  <2>3. Placed(r, o, d, o.position)
    BY <1>1, <2>2 DEF Placed
  <2> QED BY <2>1, <2>3 DEF Fate
<1>5. CASE Laid(r, n, d.position, <<>>, d.length, o.position, o.text, 0)
  <2>1. Keeping(r, n, o, d)
    BY <1>1, <1>2, <1>3, <1>5, LaidKeeps
  <2>2. /\ WholeAt(r, o.text, o.position - d.length + Len(<<>>))
        /\ \A i \in 1..Len(r), j \in Nat :
             r[i] = o.position /\ o.position > 0 /\ i < j
               /\ j <= o.position - d.length + Len(<<>>)
               => \E l \in 1..Len(<<>>) : r[j] = <<>>[l]
    BY <1>2, <1>5, LaidTexts
  <2>3. Placed(r, o, d, o.position - d.length + Len(<<>>))
    BY <1>1, <2>2, NoText DEF Placed
  <2> QED BY <2>1, <2>3 DEF Fate
<1>6. CASE /\ d.position < o.position /\ o.position <= DeleteEnd(d)
           /\ Laid(r, n, d.position, <<>>, d.length, DeleteEnd(d), <<>>, 0)
  <2>1. Keeping(r, n, o, d)
    BY <1>1, <1>2, <1>3, <1>6, LaidKeeps
  <2>2. Nowhere(r, o.text)
    BY <1>2, <1>6, LaidNothingElse
  <2> QED BY <1>1, <1>6, <2>1, <2>2 DEF Fate, Swallows
<1> QED BY <1>4, <1>5, <1>6 DEF InsertedDeleted

LEMMA ExactOfDeletes ==
  ASSUME NEW n \in Nat, NEW r, NEW a \in DeleteOperation, NEW b \in DeleteOperation,
         BothDeleted(r, n, a, b)
  PROVE  Keeping(r, n, a, b)
<1>1. /\ IsDelete(a) /\ IsDelete(b)
      /\ a.position \in Nat /\ a.length \in Nat /\ DeleteEnd(a) = a.position + a.length
      /\ b.position \in Nat /\ b.length \in Nat /\ DeleteEnd(b) = b.position + b.length
  BY DEF DeleteOperation, IsDelete, DeleteEnd
<1>2. Strange(<<>>, n)
  BY NoText DEF Strange
<1>3. ASSUME NEW u \in Nat, NEW g \in Nat, NEW v \in Nat, NEW h \in Nat,
             KeepsAllBut(r, n, u, g, v, h), InOrder(r, n),
             \A i \in 1..n : ~(u < i /\ i <= u + g) /\ ~(v < i /\ i <= v + h)
                              <=> ~Takes(a, i) /\ ~Takes(b, i)
      PROVE  Keeping(r, n, a, b)
  BY <1>3 DEF Keeping, KeepsAllBut
<1>4. CASE Laid(r, n, a.position, <<>>, a.length, b.position, <<>>, b.length)
  <2>1. KeepsAllBut(r, n, a.position, a.length, b.position, b.length) /\ InOrder(r, n)
    BY <1>2, <1>4, LaidKeeps
  <2>2. \A i \in 1..n : ~(a.position < i /\ i <= a.position + a.length)
                            /\ ~(b.position < i /\ i <= b.position + b.length)
                         <=> ~Takes(a, i) /\ ~Takes(b, i)
    BY <1>1 DEF Takes
  <2> QED BY <1>1, <1>3, <2>1, <2>2
<1>5. ASSUME NEW g \in Nat, a.position <= b.position, b.position < DeleteEnd(a),
             a.position + g = Greatest(DeleteEnd(a), DeleteEnd(b)),
             Laid(r, n, a.position, <<>>, g, a.position + g, <<>>, 0)
      PROVE  Keeping(r, n, a, b)
  <2>1. KeepsAllBut(r, n, a.position, g, a.position + g, 0) /\ InOrder(r, n)
    BY <1>2, <1>5, LaidKeeps
  <2>2. \A i \in 1..n : ~(a.position < i /\ i <= a.position + g)
                            /\ ~(a.position + g < i /\ i <= (a.position + g) + 0)
                         <=> ~Takes(a, i) /\ ~Takes(b, i)
    BY <1>1, <1>5, SMTT(30) DEF Takes, Greatest
  <2>3. a.position + g \in Nat
    BY <1>1
  <2> QED BY <1>1, <1>3, <2>1, <2>2, <2>3
<1> QED BY <1>4, <1>5 DEF BothDeleted

LEMMA OutcomeExact ==
  ASSUME NEW n \in Nat, NEW r, NEW a \in Operation, NEW b \in Operation,
         Outcome(r, n, a, b), Legible(a, n), Legible(b, n),
         IsInsert(a) /\ IsInsert(b) => Apart(a.text, b.text)
  PROVE  /\ Keeping(r, n, a, b)
         /\ IsInsert(a) => Fate(r, a, b)
         /\ IsInsert(b) => Fate(r, b, a)
<1>1. \A o \in {a, b} :
        /\ IsInsert(o) => o \in InsertOperation /\ ~IsDelete(o) /\ Strange(o.text, n)
        /\ IsDelete(o) => o \in DeleteOperation /\ ~IsInsert(o)
  BY DEF Operation, InsertOperation, DeleteOperation, IsInsert, IsDelete, Legible
<1>2. \A x, y : Keeping(r, n, x, y) <=> Keeping(r, n, y, x)
  BY DEF Keeping
<1>3. CASE IsInsert(a) /\ IsInsert(b) /\ (BothInserted(r, n, a, b) \/ BothInserted(r, n, b, a))
  <2>1. Apart(a.text, b.text) /\ Apart(b.text, a.text)
    BY <1>3 DEF Apart
  <2> QED BY <1>1, <1>2, <1>3, <2>1, ExactOfInserts
<1>4. CASE IsInsert(a) /\ IsDelete(b) /\ InsertedDeleted(r, n, a, b)
  BY <1>1, <1>4, ExactOfInsertAndDelete
<1>5. CASE IsDelete(a) /\ IsInsert(b) /\ InsertedDeleted(r, n, b, a)
  BY <1>1, <1>2, <1>5, ExactOfInsertAndDelete
<1>6. CASE IsDelete(a) /\ IsDelete(b) /\ (BothDeleted(r, n, a, b) \/ BothDeleted(r, n, b, a))
  BY <1>1, <1>2, <1>6, ExactOfDeletes
<1> QED BY <1>3, <1>4, <1>5, <1>6 DEF Outcome

-----------------------------------------------------------------------------
(***************************************************************************)
(* The edits of two replicas                                               *)
(***************************************************************************)

\* The characters are as Init chose them: the base is plain, the texts strange to
\* it and to each other.
Marked ==
  /\ Plain(base)
  /\ \A r \in Replicas : Legible(op[r], Len(base))
  /\ IsInsert(op[1]) /\ IsInsert(op[2]) => Apart(op[1].text, op[2].text)

LEMMA TextsStrange ==
  ASSUME NEW r \in Replicas, NEW k \in 0..MaxText, NEW n \in 0..MaxBase
  PROVE  Strange(TextOf(r, k), n)
<1>1. MaxBase \in Nat /\ k \in Nat /\ n <= MaxBase /\ r \in {1, 2}
  BY BoundsAssumption DEF Replicas
<1>2. TextOf(r, k) \in Seq(Char) /\ Len(TextOf(r, k)) = k
  BY <1>1, BoundsAssumption, CharAssumption DEF TextOf
<1>3. \A i \in 1..k : TextOf(r, k)[i] = MaxBase + 2 * i + 1 - r
  BY DEF TextOf, Own
<1>4. \A i \in 1..k : MaxBase + 2 * i + 1 - r \in Nat /\ MaxBase + 2 * i + 1 - r > n
  BY <1>1
<1>5. \A i, j \in 1..k : MaxBase + 2 * i + 1 - r = MaxBase + 2 * j + 1 - r => i = j
  BY <1>1
<1> QED BY <1>2, <1>3, <1>4, <1>5 DEF Strange

LEMMA TextsApart ==
  ASSUME NEW k \in 0..MaxText, NEW m \in 0..MaxText
  PROVE  Apart(TextOf(1, k), TextOf(2, m))
<1>1. MaxBase \in Nat /\ k \in Nat /\ m \in Nat
  BY BoundsAssumption
<1>2. Len(TextOf(1, k)) = k /\ Len(TextOf(2, m)) = m
  BY <1>1 DEF TextOf
<1>3. /\ \A i \in 1..k : TextOf(1, k)[i] = MaxBase + 2 * i + 1 - 1
      /\ \A j \in 1..m : TextOf(2, m)[j] = MaxBase + 2 * j + 1 - 2
  BY DEF TextOf, Own
<1>4. \A i \in 1..k, j \in 1..m : MaxBase + 2 * i + 1 - 1 # MaxBase + 2 * j + 1 - 2
  BY <1>1
<1> SUFFICES ASSUME NEW i \in 1..k, NEW j \in 1..m
             PROVE  TextOf(1, k)[i] # TextOf(2, m)[j]
  BY <1>2 DEF Apart
<1>5. /\ TextOf(1, k)[i] = MaxBase + 2 * i + 1 - 1
      /\ TextOf(2, m)[j] = MaxBase + 2 * j + 1 - 2
  BY <1>3
<1>6. MaxBase + 2 * i + 1 - 1 # MaxBase + 2 * j + 1 - 2
  BY <1>4
<1> QED BY <1>5, <1>6

LEMMA InitMarked == Init => Marked
<1> SUFFICES ASSUME Init PROVE Marked
  OBVIOUS
<1>1. PICK n \in 0..MaxBase :
        /\ base = BaseOf(n)
        /\ \E a \in OperationsOn(1, n), b \in OperationsOn(2, n) :
             op = [r \in Replicas |-> IF r = 1 THEN a ELSE b]
  BY DEF Init
<1>2. PICK a \in OperationsOn(1, n), b \in OperationsOn(2, n) :
        op = [r \in Replicas |-> IF r = 1 THEN a ELSE b]
  BY <1>1
<1>3. n \in Nat /\ Len(base) = n /\ Plain(base)
  BY <1>1, BoundsAssumption, CharAssumption DEF BaseOf, Plain
<1>4. op[1] = a /\ op[2] = b
  BY <1>2 DEF Replicas
<1>5. ASSUME NEW r \in Replicas, NEW o \in OperationsOn(r, n), IsInsert(o)
      PROVE  \E k \in 0..MaxText : o.text = TextOf(r, k)
  BY <1>5 DEF OperationsOn, IsInsert
<1>6. ASSUME NEW r \in Replicas, NEW o \in OperationsOn(r, n)
      PROVE  Legible(o, n)
  BY <1>5, TextsStrange DEF Legible
<1>7. IsInsert(a) /\ IsInsert(b) => Apart(a.text, b.text)
  BY <1>5, TextsApart DEF Replicas
<1> QED BY <1>3, <1>4, <1>6, <1>7 DEF Marked, Replicas

LEMMA NextMarked == Marked /\ [Next]_vars => Marked'
<1> SUFFICES ASSUME Marked, [Next]_vars PROVE Marked'
  OBVIOUS
<1>1. base' = base /\ op' = op
  BY DEF Next, ApplyOwn, ApplyOther, vars
<1> QED BY <1>1 DEF Marked

\* The index of a character that is there but once.
LEMMA IndexFound ==
  ASSUME NEW s, NEW k \in 1..Len(s), \A i \in 1..Len(s) : s[i] = s[k] => i = k
  PROVE  IndexIn(s, s[k]) = k
  BY DEF IndexIn

LEMMA SubSeqAt ==
  ASSUME NEW r \in Seq(Char), NEW s \in Seq(Char), NEW w \in Nat, w + Len(s) <= Len(r),
         \A j \in 1..Len(s) : r[w + j] = s[j]
  PROVE  SubSeq(r, w + 1, w + 1 + Len(s) - 1) = s
<1>1. PICK k \in Nat : k = Len(s)
  OBVIOUS
<1>2. w + 1 + k - 1 = w + k
  OBVIOUS
<1>3. /\ SubSeq(r, w + 1, w + k) \in Seq(Char)
      /\ Len(SubSeq(r, w + 1, w + k)) = k
      /\ \A j \in 1..k : SubSeq(r, w + 1, w + k)[j] = s[j]
  BY <1>1
<1> QED BY <1>1, <1>2, <1>3, SeqEqual

\* What replica r shows at the end, in the words of Keeping and Fate.
LEMMA DoneExact ==
  ASSUME IInv, Marked, NEW r \in Replicas, Done(r)
  PROVE  /\ content[r] \in Seq(Char)
         /\ Keeping(content[r], Len(base), op[1], op[2])
         /\ \A q \in Replicas : IsInsert(op[q]) => Fate(content[r], op[q], op[Other(q)])
<1>1. /\ op[r] \in Operation /\ op[Other(r)] \in Operation /\ op[r].id # op[Other(r)].id
      /\ InRange(op[r], Len(base)) /\ InRange(op[Other(r)], Len(base))
      /\ Legible(op[r], Len(base)) /\ Legible(op[Other(r)], Len(base))
      /\ IsInsert(op[r]) /\ IsInsert(op[Other(r)]) => Apart(op[r].text, op[Other(r)].text)
  BY DEF IInv, Given, Marked, Replicas, Other, Apart
<1>2. content[r] = ApplyOperation(ApplyOperation(base, op[r]), Incoming(r))
  BY DEF IInv, Shows, Done
<1>3. Plain(base) /\ Len(base) \in Nat
  BY DEF Marked, Plain
<1>4. Outcome(content[r], Len(base), op[r], op[Other(r)])
  BY <1>1, <1>2, <1>3, Outcomes DEF Incoming
<1>5. content[r] \in Seq(Char)
  BY <1>4 DEF Outcome, BothInserted, InsertedDeleted, BothDeleted, Laid
<1>6. /\ Keeping(content[r], Len(base), op[r], op[Other(r)])
      /\ IsInsert(op[r]) => Fate(content[r], op[r], op[Other(r)])
      /\ IsInsert(op[Other(r)]) => Fate(content[r], op[Other(r)], op[r])
  BY <1>1, <1>3, <1>4, OutcomeExact
<1> QED BY <1>5, <1>6 DEF Replicas, Other, Keeping

LEMMA DoneDeletions == IInv /\ Marked => DeletionsExact
<1> SUFFICES ASSUME IInv, Marked PROVE DeletionsExact
  OBVIOUS
<1>1. IncomingInRange
  <2> SUFFICES ASSUME NEW r \in Replicas, applied[r] = 1
               PROVE  InRange(Incoming(r), Len(content[r]))
    BY DEF IncomingInRange
  <2>1. /\ op[r] \in Operation /\ op[Other(r)] \in Operation /\ base \in Seq(Char)
        /\ InRange(op[r], Len(base)) /\ InRange(op[Other(r)], Len(base))
    BY DEF IInv, Given, Replicas, Other
  <2>2. content[r] = ApplyOperation(base, op[r])
    BY DEF IInv, Shows
  <2> QED BY <2>1, <2>2, TransformedInRange DEF Incoming
<1>2. ASSUME NEW r \in Replicas, Done(r),
             NEW kept, kept = 1..Len(base) \ (Removes(op[1]) \union Removes(op[2]))
      PROVE  /\ Chars(content[r]) \intersect (1..Len(base)) = kept
             /\ \A i, j \in kept : i < j => IndexIn(content[r], i) < IndexIn(content[r], j)
  <2>1. Keeping(content[r], Len(base), op[1], op[2]) /\ content[r] \in Seq(Char)
    BY <1>2, DoneExact
  <2>2. \A i \in 1..Len(base) : i \in kept <=> \E k \in 1..Len(content[r]) : content[r][k] = i
    <3>1. \A o, i : i \in 1..Len(base) => (i \in Removes(o) <=> Takes(o, i))
      BY DEF Removes, Takes
    <3> QED BY <1>2, <2>1, <3>1 DEF Keeping
  <2>3. Chars(content[r]) \intersect (1..Len(base)) = kept
    BY <1>2, <2>2 DEF Chars
  <2>4. ASSUME NEW i \in kept
        PROVE  /\ IndexIn(content[r], i) \in 1..Len(content[r])
               /\ content[r][IndexIn(content[r], i)] = i
    BY <1>2, <2>2 DEF IndexIn
  <2>5. ASSUME NEW i \in kept, NEW j \in kept, i < j
        PROVE  IndexIn(content[r], i) < IndexIn(content[r], j)
    <3>1. PICK k \in 1..Len(content[r]), m \in 1..Len(content[r]) :
            /\ k = IndexIn(content[r], i) /\ content[r][k] = i
            /\ m = IndexIn(content[r], j) /\ content[r][m] = j
      BY <2>4
    <3>2. i \in 1..Len(base) /\ j \in 1..Len(base)
      BY <1>2
    <3>3. ~(m < k)
      <4>1. m < k => content[r][m] < content[r][k]
        BY <2>1, <3>1, <3>2 DEF Keeping, InOrder
      <4> QED BY <2>5, <3>1, <3>2, <4>1
    <3>4. m # k
      BY <2>5, <3>1, <3>2
    <3> QED BY <2>1, <3>1, <3>3, <3>4
  <2> QED BY <2>3, <2>5
<1> QED BY <1>1, <1>2 DEF DeletionsExact

LEMMA DoneInserts == IInv /\ Marked => InsertWholeOrGone
<1> SUFFICES ASSUME IInv, Marked, NEW r \in Replicas, NEW q \in Replicas,
                    Done(r), IsInsert(op[q]), op[q].text # <<>>
             PROVE  LET o       == op[q]
                        present == Chars(o.text) \intersect Chars(content[r])
                        start   == IndexIn(content[r], o.text[1])
                    IN  /\ ~Swallows(op[Other(q)], o) => present = Chars(o.text)
                        /\ present # {} =>
                             /\ present = Chars(o.text)
                             /\ SubSeq(content[r], start, start + Len(o.text) - 1) = o.text
                             /\ (o.position > 0 /\ o.position \in Chars(content[r]))
                                  => \A i \in IndexIn(content[r], o.position)+1 .. start-1 :
                                       content[r][i] \in Chars(op[Other(q)].text)
  BY DEF InsertWholeOrGone
<1> DEFINE c       == content[r]
           o       == op[q]
           d       == op[Other(q)]
           present == Chars(o.text) \intersect Chars(c)
           start   == IndexIn(c, o.text[1])
<1>1. c \in Seq(Char) /\ Fate(c, o, d)
  BY DoneExact
<1>2. o \in InsertOperation /\ o.text \in Seq(Char) /\ o.position \in Nat /\ o.text # <<>>
  <2>1. o \in Operation /\ IsInsert(o)
    BY DEF IInv, Given
  <2>2. o \in InsertOperation
    BY <2>1 DEF Operation, InsertOperation, DeleteOperation, IsInsert
  <2> QED BY <2>2 DEF InsertOperation
<1>3. PICK k \in Nat : k = Len(o.text) /\ k > 0
  BY <1>2
<1>4. CASE Swallows(d, o) /\ Nowhere(c, o.text)
  <2>1. present = {}
    BY <1>4 DEF Nowhere, Chars
  <2> QED BY <1>4, <2>1
<1>5. ASSUME NEW w, Placed(c, o, d, w)
      PROVE  /\ present = Chars(o.text)
             /\ SubSeq(c, start, start + Len(o.text) - 1) = o.text
             /\ (o.position > 0 /\ o.position \in Chars(c))
                  => \A i \in IndexIn(c, o.position)+1 .. start-1 : c[i] \in Chars(d.text)
  <2>1. /\ w \in Nat /\ w + k <= Len(c)
        /\ \A j \in 1..k : c[w + j] = o.text[j]
        /\ \A i \in 1..Len(c), j \in 1..k : c[i] = o.text[j] => i = w + j
    BY <1>3, <1>5 DEF Placed, WholeAt
  <2>2. \A j \in 1..k : w + j \in 1..Len(c)
    BY <1>1, <2>1
  <2>3. present = Chars(o.text)
    <3>1. \A j \in 1..k : o.text[j] \in Chars(c)
      BY <2>1, <2>2 DEF Chars
    <3> QED BY <1>3, <3>1 DEF Chars
  <2>4. start = w + 1
    <3>1. 1 \in 1..k /\ w + 1 \in 1..Len(c) /\ c[w + 1] = o.text[1]
      BY <1>3, <2>1, <2>2
    <3>2. \A i \in 1..Len(c) : c[i] = c[w + 1] => i = w + 1
      BY <2>1, <3>1
    <3>3. IndexIn(c, c[w + 1]) = w + 1
      BY <3>1, <3>2, IndexFound
    <3> QED BY <3>1, <3>3
  <2>5. SubSeq(c, w + 1, w + 1 + Len(o.text) - 1) = o.text
    BY <1>1, <1>2, <1>3, <2>1, SubSeqAt
  <2>6. ASSUME o.position > 0, o.position \in Chars(c),
               NEW i \in IndexIn(c, o.position)+1 .. start-1
        PROVE  c[i] \in Chars(d.text)
    <3>1. PICK x : x = IndexIn(c, o.position)
      OBVIOUS
    <3>2. x \in 1..Len(c) /\ c[x] = o.position
      BY <2>6, <3>1 DEF Chars, IndexIn
    <3>3. i \in Nat /\ x < i /\ i <= w
      BY <1>1, <2>1, <2>4, <2>6, <3>1, <3>2
    <3>4. \E l \in 1..Len(d.text) : c[i] = d.text[l]
      BY <1>5, <2>6, <3>2, <3>3 DEF Placed
    <3> QED BY <3>4 DEF Chars
  <2> QED BY <2>3, <2>4, <2>5, <2>6
<1> QED BY <1>1, <1>4, <1>5 DEF Fate

\* What two concurrent operations do to the document is exact, whatever its length
\* and whatever the operations: what either of them deletes is gone once and
\* nothing else is, the rest keeps its order, and a text is there in one piece at
\* its place or, when a delete swallowed it, not at all (conflictResolver.ts:77-149).
THEOREM EditsAlwaysExact == Spec => []EditsExact
<1>1. Init => IInv /\ Marked
  BY InitIInv, InitMarked
<1>2. (IInv /\ Marked) /\ [Next]_vars => (IInv /\ Marked)'
  BY NextIInv, NextMarked
<1>3. IInv /\ Marked => EditsExact
  BY DoneDeletions, DoneInserts DEF EditsExact
<1>4. QED
  BY <1>1, <1>2, <1>3, PTL DEF Spec

=============================================================================
