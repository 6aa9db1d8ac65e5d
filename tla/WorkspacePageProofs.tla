------------------------- MODULE WorkspacePageProofs --------------------------
(***************************************************************************)
(* The workspace page of the browser: the explorer's list and tabs, and    *)
(* the share dialogs, for every number of members, projects, documents,    *)
(* clicks, requests on their way and failures.                             *)
(***************************************************************************)
EXTENDS Explorer, ShareDialog, FiniteSetTheorems, SequenceTheorems, TLAPS

(***************************************************************************)
(* The explorer's list                                                     *)
(***************************************************************************)

Spot == Roots \cup {NoProject}
Stages == {"open", "opened", "toggle", "ask", "read", "fetch", "create", "move", "rmdir", "delete"}
JobType ==
  [pc : Stages, item : Items \cup {NoItem}, to : Spot, scope : Spot, list : [Items -> Spot],
   todo : SUBSET Roots, set : SUBSET Items, what : Items \cup {NoItem},
   tells : BOOLEAN, crossed : BOOLEAN]

\* A load of js is under way whose end shows the places p, or leaves the list marked.
Pend(js, p) ==
  \E k \in 1..Len(js) : js[k].pc = "ask" \/ (js[k].pc = "read" /\ (js[k].crossed \/ js[k].list = p))

\* A change is announced when a job of js ends.
Tell(js) == \E k \in 1..Len(js) : js[k].tells

\* The documents of js that are shown as deleted and not yet deleted.
Dels(js) == {js[k].what : k \in {l \in 1..Len(js) : js[l].pc = "delete"}}
Faithful(list, p, gone) == \A i \in Items : list[i] = IF i \in gone THEN NoProject ELSE p[i]

\* A load that knows of no other is the only one; a change is announced by a load.
JobsOK(js) ==
  /\ \A k, l \in 1..Len(js) : k # l /\ Loading(js[k]) /\ Loading(js[l]) => js[k].crossed
  /\ \A k \in 1..Len(js) : js[k].tells => js[k].pc \in {"ask", "read", "fetch"}

\* The list is marked, or right, or will be loaded: a load is under way or due, or a
\* change that is still to be announced will start one; and what a load that knows
\* of no other has read is the newest, unless a change is still to be announced.
Fresh(js, mark, coming, list, p) ==
  mark \/ coming \/ Pend(js, p) \/ Faithful(list, p, Dels(js))
ReadsNew(js, coming, p) ==
  \A k \in 1..Len(js) : js[k].pc = "read" /\ ~js[k].crossed => coming \/ js[k].list = p

Told(m) == \E n \in Members \ {m} : Tell(jobs[n])
Coming(m) == notices[m] > 0 \/ Told(m)

MemberOK(m) ==
  /\ JobsOK(jobs[m])
  /\ Fresh(jobs[m], missed[m], Coming(m), listed[m], place)
  /\ ReadsNew(jobs[m], Coming(m), place)

ShapeInv ==
  /\ folders \subseteq Roots /\ place \in [Items -> Spot]
  /\ listed \in [Members -> [Items -> Spot]]
  /\ expanded \in [Members -> SUBSET Roots] /\ scoped \in [Members -> Spot]
  /\ missed \in [Members -> BOOLEAN] /\ notices \in [Members -> Nat]
  /\ jobs \in [Members -> Seq(JobType)]

ListInv == ShapeInv /\ \A m \in Members : MemberOK(m)

(* Lists of jobs                                                           *)

LEMMA NewJob ==
  ASSUME NEW pc \in Stages
  PROVE  /\ Job(pc) \in JobType /\ Job(pc).pc = pc /\ Job(pc).tells = FALSE
BY DEF Job, JobType, Spot

LEMMA AppendedJob ==
  ASSUME NEW js \in Seq(JobType), NEW j \in JobType
  PROVE  /\ Append(js, j) \in Seq(JobType) /\ Len(Append(js, j)) = Len(js) + 1
         /\ \A k \in 1..Len(js) : Append(js, j)[k] = js[k]
         /\ Append(js, j)[Len(js) + 1] = j
OBVIOUS

LEMMA SteppedJob ==
  ASSUME NEW js \in Seq(JobType), NEW k \in 1..Len(js), NEW j \in JobType
  PROVE  /\ [js EXCEPT ![k] = j] \in Seq(JobType) /\ Len([js EXCEPT ![k] = j]) = Len(js)
         /\ \A l \in 1..Len(js) : l # k => [js EXCEPT ![k] = j][l] = js[l]
         /\ [js EXCEPT ![k] = j][k] = j
OBVIOUS

LEMMA RemovedJob ==
  ASSUME NEW js \in Seq(JobType), NEW k \in 1..Len(js)
  PROVE  /\ RemoveAt(js, k) \in Seq(JobType) /\ Len(RemoveAt(js, k)) = Len(js) - 1
         /\ \A l \in 1..(Len(js) - 1) :
              (l < k => RemoveAt(js, k)[l] = js[l]) /\ (l >= k => RemoveAt(js, k)[l] = js[l + 1])
<1>1. PICK n \in Nat : n = Len(js)
  OBVIOUS
<1>0. k \in Nat /\ 1 <= k /\ k <= n
  BY <1>1
<1>8. PICK a : a = SubSeq(js, 1, k - 1)
  OBVIOUS
<1>9. PICK b : b = SubSeq(js, k + 1, n)
  OBVIOUS
<1>2. a \in Seq(JobType) /\ Len(a) = k - 1 /\ \A l \in 1..(k - 1) : a[l] = js[l]
  BY <1>0, <1>1, <1>8
<1>3. b \in Seq(JobType) /\ Len(b) = n - k /\ \A l \in 1..(n - k) : b[l] = js[l + k]
  BY <1>0, <1>1, <1>9
<1>4. RemoveAt(js, k) = a \o b
  BY <1>1, <1>8, <1>9 DEF RemoveAt
<1>5. /\ a \o b \in Seq(JobType) /\ Len(a \o b) = Len(a) + Len(b)
      /\ \A l \in 1..(Len(a) + Len(b)) : (a \o b)[l] = IF l <= Len(a) THEN a[l] ELSE b[l - Len(a)]
  <2>1. a \in Seq(JobType) /\ b \in Seq(JobType)
    BY <1>2, <1>3
  <2> QED BY <2>1
<1>6. Len(a) + Len(b) = n - 1
  BY <1>0, <1>2, <1>3
<1>7. ASSUME NEW l \in 1..(n - 1)
      PROVE  (l < k => (a \o b)[l] = js[l]) /\ (l >= k => (a \o b)[l] = js[l + 1])
  <2>1. CASE l < k
    BY <1>0, <1>2, <1>5, <1>6, <2>1
  <2>2. CASE l >= k
    <3>1. l - (k - 1) \in 1..(n - k) /\ l - (k - 1) + k = l + 1
      BY <1>0, <2>2
    <3>2. (a \o b)[l] = b[l - (k - 1)]
      BY <1>0, <1>2, <1>5, <1>6, <2>2
    <3> QED BY <1>0, <1>3, <2>2, <3>1, <3>2
  <2> QED BY <2>1, <2>2
<1> QED BY <1>1, <1>4, <1>5, <1>6, <1>7

LEMMA CrossedJobs ==
  ASSUME NEW js \in Seq(JobType)
  PROVE  /\ Crossed(js) \in Seq(JobType) /\ Len(Crossed(js)) = Len(js)
         /\ \A k \in 1..Len(js) :
              /\ Crossed(js)[k].pc = js[k].pc /\ Crossed(js)[k].list = js[k].list
              /\ Crossed(js)[k].what = js[k].what /\ Crossed(js)[k].tells = js[k].tells
              /\ js[k].crossed => Crossed(js)[k].crossed
         /\ \A k, l \in 1..Len(js) : k # l /\ Loading(js[k]) /\ Loading(js[l])
              => Crossed(js)[k].crossed
<1> DEFINE L == {k \in 1..Len(js) : Loading(js[k])}
           n == Cardinality(L)
           mark(k) == IF n > 1 /\ Loading(js[k]) THEN [js[k] EXCEPT !.crossed = TRUE] ELSE js[k]
<1>1. Crossed(js) = [k \in 1..Len(js) |-> mark(k)]
  BY DEF Crossed
<1>2. \A k \in 1..Len(js) : js[k] \in JobType
  OBVIOUS
<1>3. ASSUME NEW k \in 1..Len(js)
      PROVE  /\ mark(k) \in JobType
             /\ mark(k).pc = js[k].pc /\ mark(k).list = js[k].list
             /\ mark(k).what = js[k].what /\ mark(k).tells = js[k].tells
             /\ js[k].crossed => mark(k).crossed
             /\ n > 1 /\ Loading(js[k]) => mark(k).crossed
  BY <1>2 DEF JobType
<1>4. ASSUME NEW k \in 1..Len(js), NEW l \in 1..Len(js), k # l, Loading(js[k]), Loading(js[l])
      PROVE  n > 1
  <2>1. IsFiniteSet(L) /\ {k, l} \subseteq L
    <3>1. IsFiniteSet(1..Len(js))
      BY FS_Interval
    <3> QED BY <1>4, <3>1, FS_Subset
  <2>2. Cardinality({k, l}) = 2
    <3>1. /\ IsFiniteSet({k}) /\ Cardinality({k}) = 1 /\ l \notin {k} /\ {k, l} = {k} \cup {l}
      BY <1>4, FS_Singleton
    <3>2. Cardinality({k} \cup {l}) = Cardinality({k}) + 1
      BY <3>1, FS_AddElement
    <3>3. Cardinality({k} \cup {l}) = 2
      <4>1. PICK c : c = Cardinality({k})
        OBVIOUS
      <4>2. c = 1
        BY <3>1, <4>1
      <4>3. c + 1 = 2
        BY <4>2
      <4> QED BY <3>2, <4>1, <4>3, ZenonT(30)
    <3> QED BY <3>1, <3>3, ZenonT(30)
  <2>3. Cardinality({k, l}) <= n /\ n \in Nat
    BY <2>1, FS_Subset, FS_CardinalityType
  <2> QED BY <2>2, <2>3
<1>5. Crossed(js) \in Seq(JobType) /\ Len(Crossed(js)) = Len(js)
  BY <1>1, <1>3
<1> QED BY <1>1, <1>3, <1>4, <1>5

\* What the invariant reads of a job.
Alike(i, j) ==
  /\ i.pc = j.pc /\ i.list = j.list /\ i.what = j.what
  /\ i.tells = j.tells /\ i.crossed = j.crossed

Matters(j) == j.pc \in {"ask", "read", "delete"} \/ j.tells

\* js becomes jt, and nothing the invariant reads of it changes.
SameJobs(js, jt) ==
  /\ JobsOK(js) => JobsOK(jt)
  /\ \A p : Pend(js, p) => Pend(jt, p)
  /\ Tell(js) <=> Tell(jt)
  /\ Dels(jt) = Dels(js)
  /\ \A coming, p : ReadsNew(js, coming, p) => ReadsNew(jt, coming, p)

\* The jobs of jt that count are those of js, at the places g.
Reindexes(g, js, jt) ==
  /\ \A k \in 1..Len(jt) : Loading(jt[k]) \/ jt[k].tells
       => g[k] \in 1..Len(js) /\ Alike(jt[k], js[g[k]])
  /\ \A k, l \in 1..Len(jt) : k # l => g[k] # g[l]
  /\ \A k \in 1..Len(js) : Matters(js[k]) => \E l \in 1..Len(jt) : Alike(jt[l], js[k])

LEMMA SameFromIndex ==
  ASSUME NEW js \in Seq(JobType), NEW jt \in Seq(JobType), NEW g, Reindexes(g, js, jt)
  PROVE  SameJobs(js, jt)
<1>0. /\ \A k \in 1..Len(jt) : Loading(jt[k]) \/ jt[k].tells
           => g[k] \in 1..Len(js) /\ Alike(jt[k], js[g[k]])
      /\ \A k, l \in 1..Len(jt) : k # l => g[k] # g[l]
      /\ \A k \in 1..Len(js) : Matters(js[k]) => \E l \in 1..Len(jt) : Alike(jt[l], js[k])
  BY DEF Reindexes
<1>1. JobsOK(js) => JobsOK(jt)
  <2> SUFFICES ASSUME JobsOK(js) PROVE JobsOK(jt)
    OBVIOUS
  <2>1. ASSUME NEW k \in 1..Len(jt), NEW l \in 1..Len(jt), k # l, Loading(jt[k]), Loading(jt[l])
        PROVE  jt[k].crossed
    <3>1. /\ g[k] \in 1..Len(js) /\ Alike(jt[k], js[g[k]])
          /\ g[l] \in 1..Len(js) /\ Alike(jt[l], js[g[l]]) /\ g[k] # g[l]
      BY <1>0, <2>1
    <3> QED BY <2>1, <3>1 DEF JobsOK, Alike, Loading
  <2>2. ASSUME NEW k \in 1..Len(jt), jt[k].tells PROVE jt[k].pc \in {"ask", "read", "fetch"}
    BY <1>0, <2>2 DEF JobsOK, Alike
  <2> QED BY <2>1, <2>2 DEF JobsOK
<1>2. ASSUME NEW p, Pend(js, p) PROVE Pend(jt, p)
  BY <1>0, <1>2 DEF Pend, Alike, Matters
<1>3. Tell(js) <=> Tell(jt)
  BY <1>0 DEF Tell, Alike, Matters
<1>4. Dels(jt) = Dels(js)
  <2>1. \A k \in 1..Len(jt) : jt[k].pc = "delete" => jt[k].what \in Dels(js)
    BY <1>0 DEF Dels, Alike, Loading
  <2>2. \A k \in 1..Len(js) : js[k].pc = "delete" => js[k].what \in Dels(jt)
    BY <1>0 DEF Dels, Alike, Matters
  <2> QED BY <2>1, <2>2 DEF Dels
<1>5. ASSUME NEW coming, NEW p, ReadsNew(js, coming, p) PROVE ReadsNew(jt, coming, p)
  BY <1>0, <1>5 DEF ReadsNew, Alike, Loading
<1> QED BY <1>1, <1>2, <1>3, <1>4, <1>5 DEF SameJobs

LEMMA SameAppended ==
  ASSUME NEW js \in Seq(JobType), NEW j \in JobType, ~Loading(j), ~j.tells
  PROVE  Append(js, j) \in Seq(JobType) /\ SameJobs(js, Append(js, j))
<1> DEFINE jt == Append(js, j)
           g == [k \in 1..Len(jt) |-> k]
<1>1. /\ jt \in Seq(JobType) /\ Len(jt) = Len(js) + 1
      /\ \A k \in 1..Len(js) : jt[k] = js[k]
      /\ jt[Len(js) + 1] = j
  BY AppendedJob
<1>2. \A k \in 1..Len(jt) : g[k] = k
  OBVIOUS
<1> HIDE DEF jt, g
<1>3. \A k \in 1..Len(jt) : Loading(jt[k]) \/ jt[k].tells
         => g[k] \in 1..Len(js) /\ Alike(jt[k], js[g[k]])
  BY <1>1, <1>2 DEF Alike
<1>4. \A k \in 1..Len(js) : Matters(js[k]) => \E l \in 1..Len(jt) : Alike(jt[l], js[k])
  BY <1>1 DEF Alike
<1>5. \A l, i \in 1..Len(jt) : l # i => g[l] # g[i]
  BY <1>2
<1>6. SameJobs(js, jt)
  <2>1. Reindexes(g, js, jt)
    BY <1>3, <1>4, <1>5 DEF Reindexes
  <2> QED BY <1>1, <2>1, SameFromIndex
<1> QED BY <1>1, <1>6 DEF jt

LEMMA SameStepped ==
  ASSUME NEW js \in Seq(JobType), NEW k \in 1..Len(js), NEW j \in JobType,
         Alike(j, js[k]) \/ (~Loading(js[k]) /\ ~js[k].tells /\ ~Loading(j) /\ ~j.tells)
  PROVE  [js EXCEPT ![k] = j] \in Seq(JobType) /\ SameJobs(js, [js EXCEPT ![k] = j])
<1> DEFINE jt == [js EXCEPT ![k] = j]
           g == [l \in 1..Len(jt) |-> l]
<1>1. /\ jt \in Seq(JobType) /\ Len(jt) = Len(js) /\ jt[k] = j
      /\ \A l \in 1..Len(js) : l # k => jt[l] = js[l]
  BY SteppedJob
<1>2. \A l \in 1..Len(jt) : g[l] = l
  OBVIOUS
<1> HIDE DEF jt, g
<1>3. \A l \in 1..Len(jt) : Loading(jt[l]) \/ jt[l].tells
         => g[l] \in 1..Len(js) /\ Alike(jt[l], js[g[l]])
  BY <1>1, <1>2 DEF Alike
<1>4. \A l \in 1..Len(js) : Matters(js[l]) => \E i \in 1..Len(jt) : Alike(jt[i], js[l])
  BY <1>1 DEF Alike, Matters, Loading
<1>5. \A l, i \in 1..Len(jt) : l # i => g[l] # g[i]
  BY <1>2
<1>6. SameJobs(js, jt)
  <2>1. Reindexes(g, js, jt)
    BY <1>3, <1>4, <1>5 DEF Reindexes
  <2> QED BY <1>1, <2>1, SameFromIndex
<1> QED BY <1>1, <1>6 DEF jt

LEMMA SameRemoved ==
  ASSUME NEW js \in Seq(JobType), NEW k \in 1..Len(js), ~Matters(js[k])
  PROVE  RemoveAt(js, k) \in Seq(JobType) /\ SameJobs(js, RemoveAt(js, k))
<1> DEFINE jt == RemoveAt(js, k)
           g == [l \in 1..Len(jt) |-> IF l < k THEN l ELSE l + 1]
<1>1. /\ jt \in Seq(JobType) /\ Len(jt) = Len(js) - 1
      /\ \A l \in 1..(Len(js) - 1) : (l < k => jt[l] = js[l]) /\ (l >= k => jt[l] = js[l + 1])
  BY RemovedJob
<1>2. \A l \in 1..Len(jt) : g[l] = IF l < k THEN l ELSE l + 1
  OBVIOUS
<1> HIDE DEF jt, g
<1>3. \A l \in 1..Len(jt) : g[l] \in 1..Len(js) /\ jt[l] = js[g[l]]
  BY <1>1, <1>2
<1>4. \A l, i \in 1..Len(jt) : l # i => g[l] # g[i]
  BY <1>1, <1>2
<1>5. ASSUME NEW l \in 1..Len(js), l # k PROVE \E i \in 1..Len(jt) : jt[i] = js[l]
  <2>1. CASE l < k
    BY <1>1, <2>1
  <2>2. CASE l > k
    <3>1. l - 1 \in 1..(Len(js) - 1) /\ l - 1 >= k /\ l - 1 + 1 = l
      BY <2>2
    <3> QED BY <1>1, <3>1
  <2> QED BY <1>5, <2>1, <2>2
<1>6. SameJobs(js, jt)
  <2>1. \A l \in 1..Len(jt) : Loading(jt[l]) \/ jt[l].tells
           => g[l] \in 1..Len(js) /\ Alike(jt[l], js[g[l]])
    BY <1>3 DEF Alike
  <2>2. \A l \in 1..Len(js) : Matters(js[l]) => \E i \in 1..Len(jt) : Alike(jt[i], js[l])
    BY <1>5 DEF Alike
  <2>3. Reindexes(g, js, jt)
    BY <1>4, <2>1, <2>2 DEF Reindexes
  <2> QED BY <1>1, <2>3, SameFromIndex
<1> QED BY <1>1, <1>6 DEF jt

\* The loads of jt are those of js, but more of them know of another.
MoreCrossed(js, jt) ==
  /\ Len(jt) = Len(js)
  /\ \A k \in 1..Len(js) :
       /\ jt[k].pc = js[k].pc /\ jt[k].list = js[k].list /\ jt[k].what = js[k].what
       /\ jt[k].tells = js[k].tells /\ (js[k].crossed => jt[k].crossed)

LEMMA SameCrossed ==
  ASSUME NEW js \in Seq(JobType), NEW jt \in Seq(JobType), MoreCrossed(js, jt)
  PROVE  SameJobs(js, jt)
<1>1. JobsOK(js) => JobsOK(jt)
  BY DEF MoreCrossed, JobsOK, Loading
<1>2. \A p : Pend(js, p) => Pend(jt, p)
  BY DEF MoreCrossed, Pend
<1>3. Tell(js) <=> Tell(jt)
  BY DEF MoreCrossed, Tell
<1>4. Dels(jt) = Dels(js)
  BY DEF MoreCrossed, Dels
<1>5. \A coming, p : ReadsNew(js, coming, p) => ReadsNew(jt, coming, p)
  BY DEF MoreCrossed, ReadsNew
<1> QED BY <1>1, <1>2, <1>3, <1>4, <1>5 DEF SameJobs

LEMMA AllCrossed ==
  ASSUME NEW js \in Seq(JobType),
         NEW jt, jt = [l \in 1..Len(js) |-> [js[l] EXCEPT !.crossed = TRUE]]
  PROVE  /\ jt \in Seq(JobType) /\ SameJobs(js, jt)
         /\ \A coming, p : ReadsNew(jt, coming, p)
<1>1. ASSUME NEW l \in 1..Len(js)
      PROVE  /\ [js[l] EXCEPT !.crossed = TRUE] \in JobType
             /\ jt[l].pc = js[l].pc /\ jt[l].list = js[l].list /\ jt[l].what = js[l].what
             /\ jt[l].tells = js[l].tells /\ jt[l].crossed
  <2>1. js[l] \in JobType
    OBVIOUS
  <2> QED BY <2>1 DEF JobType
<1>2. jt \in Seq(JobType) /\ Len(jt) = Len(js)
  BY <1>1
<1>3. MoreCrossed(js, jt)
  BY <1>1, <1>2 DEF MoreCrossed
<1>4. \A coming, p : ReadsNew(jt, coming, p)
  BY <1>1, <1>2 DEF ReadsNew
<1> QED BY <1>2, <1>3, <1>4, SameCrossed

\* A load that begins beside the jobs js: it is there, and all loads know of it.
Begun(js, jt, tells) ==
  /\ jt \in Seq(JobType) /\ JobsOK(jt)
  /\ \A p : Pend(jt, p)
  /\ \A coming, p : ReadsNew(jt, coming, p)
  /\ Tell(js) \/ tells => Tell(jt)

LEMMA LoadBegun ==
  ASSUME NEW js \in Seq(JobType), NEW jr \in Seq(JobType), NEW k \in 1..Len(jr),
         NEW tells \in BOOLEAN,
         JobsOK(js), jr[k].pc = "ask", jr[k].tells = tells,
         \A l \in 1..Len(jr) : l # k => l \in 1..Len(js) /\ jr[l] = js[l],
         \A l \in 1..Len(js) : l # k => l \in 1..Len(jr),
         k \in 1..Len(js) => (js[k].tells => tells)
  PROVE  Begun(js, Crossed(jr), tells)
<1>1. PICK jt : jt = Crossed(jr)
  OBVIOUS
<1>2. /\ jt \in Seq(JobType) /\ Len(jt) = Len(jr)
      /\ \A l \in 1..Len(jr) : /\ jt[l].pc = jr[l].pc /\ jt[l].list = jr[l].list
                               /\ jt[l].what = jr[l].what /\ jt[l].tells = jr[l].tells
                               /\ jr[l].crossed => jt[l].crossed
      /\ \A l, i \in 1..Len(jr) : l # i /\ Loading(jr[l]) /\ Loading(jr[i]) => jt[l].crossed
  BY <1>1, CrossedJobs
<1>3. JobsOK(jt)
  <2>1. \A l \in 1..Len(jt) : jt[l].tells => jt[l].pc \in {"ask", "read", "fetch"}
    BY <1>2 DEF JobsOK
  <2> QED BY <1>2, <2>1 DEF JobsOK, Loading
<1>4. \A p : Pend(jt, p)
  BY <1>2 DEF Pend
<1>5. \A coming, p : ReadsNew(jt, coming, p)
  <2>1. \A l \in 1..Len(jt) : jt[l].pc = "read" => l # k /\ Loading(jr[l]) /\ Loading(jr[k])
    BY <1>2 DEF Loading
  <2> QED BY <1>2, <2>1 DEF ReadsNew
<1>6. Tell(js) \/ tells => Tell(jt)
  BY <1>2 DEF Tell
<1> QED BY <1>1, <1>2, <1>3, <1>4, <1>5, <1>6 DEF Begun

LEMMA LoadStarts ==
  ASSUME NEW js \in Seq(JobType), NEW k \in 1..Len(js), NEW j \in JobType,
         JobsOK(js), js[k].tells => j.tells
  PROVE  Begun(js, Crossed([js EXCEPT ![k] = [j EXCEPT !.pc = "ask"]]), j.tells)
<1>1. PICK i : i = [j EXCEPT !.pc = "ask"]
  OBVIOUS
<1>2. i \in JobType /\ i.pc = "ask" /\ i.tells = j.tells /\ j.tells \in BOOLEAN
  <2>1. "ask" \in Stages
    BY DEF Stages
  <2>2. i.pc = "ask" /\ i.tells = j.tells /\ j.tells \in BOOLEAN
    BY <1>1 DEF JobType
  <2>3. i \in JobType
    BY <1>1, <2>1 DEF JobType
  <2> QED BY <2>2, <2>3
<1>3. PICK jr : jr = [js EXCEPT ![k] = i]
  OBVIOUS
<1>4. /\ jr \in Seq(JobType) /\ Len(jr) = Len(js) /\ jr[k] = i
      /\ \A l \in 1..Len(js) : l # k => jr[l] = js[l]
  BY <1>2, <1>3, SteppedJob
<1>5. Begun(js, Crossed(jr), j.tells)
  BY <1>2, <1>4, LoadBegun
<1> QED BY <1>1, <1>3, <1>5

LEMMA LoadAppended ==
  ASSUME NEW js \in Seq(JobType), JobsOK(js)
  PROVE  Begun(js, Crossed(Append(js, Job("ask"))), FALSE)
<1>1. PICK jr : jr = Append(js, Job("ask"))
  OBVIOUS
<1>2. Job("ask") \in JobType /\ Job("ask").pc = "ask" /\ Job("ask").tells = FALSE
  <2>1. "ask" \in Stages
    BY DEF Stages
  <2> QED BY <2>1, NewJob
<1>3. /\ jr \in Seq(JobType) /\ Len(jr) = Len(js) + 1 /\ jr[Len(js) + 1] = Job("ask")
      /\ \A l \in 1..Len(js) : jr[l] = js[l]
  BY <1>1, <1>2, AppendedJob
<1>4. PICK k : k = Len(js) + 1
  OBVIOUS
<1>5. /\ k \in 1..Len(jr) /\ k \notin 1..Len(js)
      /\ \A l \in 1..Len(jr) : l # k => l \in 1..Len(js)
      /\ \A l \in 1..Len(js) : l \in 1..Len(jr)
  BY <1>3, <1>4
<1>6. Begun(js, Crossed(jr), FALSE)
  BY <1>2, <1>3, <1>4, <1>5, LoadBegun
<1> QED BY <1>1, <1>6

LEMMA DeleteAppended ==
  ASSUME NEW js \in Seq(JobType), NEW j \in JobType, j.pc = "delete", ~j.tells, JobsOK(js)
  PROVE  LET jt == Crossed(Append(js, j))
         IN  /\ jt \in Seq(JobType) /\ JobsOK(jt)
             /\ \A p : Pend(js, p) => Pend(jt, p)
             /\ \A coming, p : ReadsNew(jt, coming, p)
             /\ Tell(js) => Tell(jt)
             /\ Dels(jt) = Dels(js) \cup {j.what}
<1>1. PICK jr : jr = Append(js, j)
  OBVIOUS
<1>2. PICK jt : jt = Crossed(jr)
  OBVIOUS
<1>3. PICK n \in Nat : n = Len(js)
  OBVIOUS
<1>4. /\ jr \in Seq(JobType) /\ Len(jr) = n + 1 /\ jr[n + 1] = j
      /\ \A l \in 1..n : jr[l] = js[l]
  BY <1>1, <1>3, AppendedJob
<1>5. /\ jt \in Seq(JobType) /\ Len(jt) = n + 1
      /\ \A l \in 1..(n + 1) : /\ jt[l].pc = jr[l].pc /\ jt[l].list = jr[l].list
                               /\ jt[l].what = jr[l].what /\ jt[l].tells = jr[l].tells
                               /\ jr[l].crossed => jt[l].crossed
      /\ \A l, i \in 1..(n + 1) : l # i /\ Loading(jr[l]) /\ Loading(jr[i]) => jt[l].crossed
  <2>1. jr \in Seq(JobType) /\ Len(jr) = n + 1
    BY <1>4
  <2> QED BY <1>2, <2>1, CrossedJobs
<1>6. n + 1 \in 1..(n + 1) /\ \A l \in 1..(n + 1) : l \in 1..n \/ l = n + 1
  OBVIOUS
<1>7. JobsOK(jt)
  <2>1. \A l \in 1..Len(jt) : jt[l].tells => jt[l].pc \in {"ask", "read", "fetch"}
    BY <1>3, <1>4, <1>5, <1>6 DEF JobsOK
  <2> QED BY <1>5, <2>1 DEF JobsOK, Loading
<1>8. \A p : Pend(js, p) => Pend(jt, p)
  BY <1>3, <1>4, <1>5 DEF Pend
<1>9. \A coming, p : ReadsNew(jt, coming, p)
  <2>1. Loading(jr[n + 1])
    BY <1>4 DEF Loading
  <2>2. \A l \in 1..(n + 1) : jt[l].pc = "read" => l # n + 1 /\ Loading(jr[l])
    BY <1>4, <1>5, <1>6 DEF Loading
  <2> QED BY <1>5, <1>6, <2>1, <2>2 DEF ReadsNew
<1>10. Tell(js) => Tell(jt)
  BY <1>3, <1>4, <1>5 DEF Tell
<1>11. Dels(jt) = Dels(js) \cup {j.what}
  <2>1. \A l \in 1..n : jt[l].pc = js[l].pc /\ jt[l].what = js[l].what
    BY <1>4, <1>5, <1>6
  <2>2. jt[n + 1].pc = "delete" /\ jt[n + 1].what = j.what
    BY <1>4, <1>5, <1>6
  <2> QED BY <1>3, <1>5, <1>6, <2>1, <2>2 DEF Dels
<1> QED BY <1>1, <1>2, <1>5, <1>7, <1>8, <1>9, <1>10, <1>11

LEMMA LoadRemoved ==
  ASSUME NEW js \in Seq(JobType), NEW k \in 1..Len(js), JobsOK(js)
  PROVE  LET jt == RemoveAt(js, k)
         IN  /\ jt \in Seq(JobType) /\ JobsOK(jt)
             /\ \A p : js[k].pc \notin {"ask", "read"} /\ Pend(js, p) => Pend(jt, p)
             /\ \A coming, p : ReadsNew(js, coming, p) => ReadsNew(jt, coming, p)
             /\ Dels(jt) \subseteq Dels(js) /\ Dels(js) \subseteq Dels(jt) \cup {js[k].what}
             /\ js[k].pc # "delete" => Dels(jt) = Dels(js)
             /\ ~js[k].tells => (Tell(js) => Tell(jt))
<1>1. PICK jt : jt = RemoveAt(js, k)
  OBVIOUS
<1>2. PICK n \in Nat : n = Len(js)
  OBVIOUS
<1>3. /\ jt \in Seq(JobType) /\ Len(jt) = n - 1
      /\ \A l \in 1..(n - 1) : (l < k => jt[l] = js[l]) /\ (l >= k => jt[l] = js[l + 1])
  BY <1>1, <1>2, RemovedJob
<1>4. ASSUME NEW l \in 1..(n - 1) PROVE \E i \in 1..n : i # k /\ jt[l] = js[i]
  <2>1. CASE l < k
    <3>1. l \in 1..n /\ l # k /\ jt[l] = js[l]
      BY <1>2, <1>3, <2>1
    <3> QED BY <3>1
  <2>2. CASE ~(l < k)
    <3>1. l + 1 \in 1..n /\ l + 1 # k /\ jt[l] = js[l + 1]
      BY <1>2, <1>3, <2>2
    <3> QED BY <3>1
  <2> QED BY <2>1, <2>2
<1>5. ASSUME NEW l \in 1..n, l # k PROVE \E i \in 1..(n - 1) : jt[i] = js[l]
  <2>1. CASE l < k
    BY <1>2, <1>3, <2>1
  <2>2. CASE l > k
    <3>1. l - 1 \in 1..(n - 1) /\ l - 1 >= k /\ l - 1 + 1 = l
      BY <1>2, <2>2
    <3> QED BY <1>3, <3>1
  <2> QED BY <1>2, <1>5, <2>1, <2>2
<1>6. JobsOK(jt)
  <2>1. ASSUME NEW l \in 1..(n - 1), NEW i \in 1..(n - 1), l # i, Loading(jt[l]), Loading(jt[i])
        PROVE  jt[l].crossed
    <3>1. PICK ll \in 1..n : ll = IF l < k THEN l ELSE l + 1
      BY <1>2
    <3>2. PICK ii \in 1..n : ii = IF i < k THEN i ELSE i + 1
      BY <1>2
    <3>3. jt[l] = js[ll] /\ jt[i] = js[ii] /\ ll # ii
      BY <1>2, <1>3, <2>1, <3>1, <3>2
    <3> QED BY <1>2, <2>1, <3>3 DEF JobsOK
  <2>2. \A l \in 1..(n - 1) : jt[l].tells => jt[l].pc \in {"ask", "read", "fetch"}
    BY <1>2, <1>4 DEF JobsOK
  <2> QED BY <1>3, <2>1, <2>2 DEF JobsOK
<1>7. \A p : js[k].pc \notin {"ask", "read"} /\ Pend(js, p) => Pend(jt, p)
  <2> SUFFICES ASSUME NEW p, js[k].pc \notin {"ask", "read"}, Pend(js, p) PROVE Pend(jt, p)
    OBVIOUS
  <2>1. PICK l \in 1..n :
          js[l].pc = "ask" \/ (js[l].pc = "read" /\ (js[l].crossed \/ js[l].list = p))
    BY <1>2 DEF Pend
  <2>2. PICK i \in 1..(n - 1) : jt[i] = js[l]
    BY <1>5, <2>1
  <2>3. i \in 1..Len(jt)
    BY <1>3
  <2> QED BY <2>1, <2>2, <2>3 DEF Pend
<1>8. \A coming, p : ReadsNew(js, coming, p) => ReadsNew(jt, coming, p)
  BY <1>2, <1>3, <1>4, SMTT(30) DEF ReadsNew
<1>9. Dels(jt) \subseteq Dels(js)
  <2>1. ASSUME NEW l \in 1..(n - 1), jt[l].pc = "delete" PROVE jt[l].what \in Dels(js)
    <3>1. PICK i \in 1..n : jt[l] = js[i]
      BY <1>4
    <3> QED BY <1>2, <2>1, <3>1 DEF Dels
  <2> QED BY <1>3, <2>1 DEF Dels
<1>10. \A l \in 1..n : l # k /\ js[l].pc = "delete" => js[l].what \in Dels(jt)
  BY <1>3, <1>5 DEF Dels
<1>11. Dels(js) \subseteq Dels(jt) \cup {js[k].what}
  BY <1>2, <1>10 DEF Dels
<1>12. js[k].pc # "delete" => Dels(jt) = Dels(js)
  BY <1>2, <1>9, <1>10 DEF Dels
<1>13. ASSUME ~js[k].tells, Tell(js) PROVE Tell(jt)
  <2>1. PICK l \in 1..n : js[l].tells /\ l # k
    BY <1>2, <1>13 DEF Tell
  <2>2. PICK i \in 1..(n - 1) : jt[i] = js[l]
    BY <1>5, <2>1
  <2> QED BY <1>3, <2>1, <2>2 DEF Tell
<1> QED BY <1>1, <1>3, <1>6, <1>7, <1>8, <1>9, <1>11, <1>12, <1>13

(* The steps of the explorer                                               *)

PageShape ==
  /\ folders \subseteq Roots /\ place \in [Items -> Spot]
  /\ expanded \in [Members -> SUBSET Roots] /\ scoped \in [Members -> Spot]

\* A step of m's that changes no place, and of the lists, marks, notices and jobs only
\* m's, to what is named.
ActsAlone(m, js, mark, waiting, list) ==
  /\ place' = place
  /\ jobs' = [jobs EXCEPT ![m] = js] /\ listed' = [listed EXCEPT ![m] = list]
  /\ missed' = [missed EXCEPT ![m] = mark] /\ notices' = [notices EXCEPT ![m] = waiting]

LEMMA ActorKeeps ==
  ASSUME ListInv, NEW m \in Members, NEW js \in Seq(JobType), NEW list \in [Items -> Spot],
         NEW mark \in BOOLEAN, NEW waiting \in Nat,
         NEW coming \in BOOLEAN, coming <=> (waiting > 0 \/ Told(m)),
         PageShape', ActsAlone(m, js, mark, waiting, list),
         JobsOK(js), Tell(jobs[m]) => Tell(js),
         Fresh(js, mark, coming, list, place), ReadsNew(js, coming, place)
  PROVE  ListInv'
<1>1. ShapeInv'
  BY DEF ListInv, ShapeInv, PageShape, ActsAlone
<1>2. /\ jobs'[m] = js /\ listed'[m] = list /\ missed'[m] = mark /\ notices'[m] = waiting
      /\ \A n \in Members \ {m} : /\ jobs'[n] = jobs[n] /\ listed'[n] = listed[n]
                                 /\ missed'[n] = missed[n] /\ notices'[n] = notices[n]
  BY DEF ListInv, ShapeInv, ActsAlone
<1>3. MemberOK(m)'
  <2>1. Told(m)' <=> Told(m)
    BY <1>2 DEF Told
  <2>2. Coming(m)' <=> (waiting > 0 \/ Told(m))
    BY <1>2, <2>1 DEF Coming
  <2> QED BY <1>2, <2>2 DEF MemberOK, Fresh, ReadsNew, ActsAlone
<1>4. ASSUME NEW n \in Members, n # m PROVE MemberOK(n)'
  <2>1. Told(n) => Told(n)'
    BY <1>2, <1>4 DEF Told
  <2>2. Coming(n) => Coming(n)'
    BY <1>2, <1>4, <2>1 DEF Coming
  <2>3. MemberOK(n)
    BY DEF ListInv
  <2> QED BY <1>2, <1>4, <2>2, <2>3 DEF MemberOK, Fresh, ReadsNew, ActsAlone
<1> QED BY <1>1, <1>3, <1>4 DEF ListInv

LEMMA QuietKeeps ==
  ASSUME ListInv, NEW m \in Members, NEW js \in Seq(JobType), SameJobs(jobs[m], js),
         PageShape', UNCHANGED <<place, listed, missed, notices>>,
         jobs' = [jobs EXCEPT ![m] = js]
  PROVE  ListInv'
<1>1. /\ listed' = [listed EXCEPT ![m] = listed[m]] /\ listed[m] \in [Items -> Spot]
      /\ missed' = [missed EXCEPT ![m] = missed[m]] /\ missed[m] \in BOOLEAN
      /\ notices' = [notices EXCEPT ![m] = notices[m]] /\ notices[m] \in Nat
  BY DEF ListInv, ShapeInv
<1>2. MemberOK(m)
  BY DEF ListInv
<1>3. PICK coming \in BOOLEAN : coming <=> (notices[m] > 0 \/ Told(m))
  OBVIOUS
<1>4. /\ JobsOK(js) /\ (Tell(jobs[m]) => Tell(js))
      /\ Fresh(js, missed[m], coming, listed[m], place)
      /\ ReadsNew(js, coming, place)
  BY <1>2, <1>3 DEF MemberOK, SameJobs, Fresh, Coming, ReadsNew
<1>5. PICK list \in [Items -> Spot], mark \in BOOLEAN, waiting \in Nat :
        list = listed[m] /\ mark = missed[m] /\ waiting = notices[m]
  BY <1>1
<1>6. ActsAlone(m, js, mark, waiting, list)
  BY <1>1, <1>5 DEF ActsAlone
<1> QED BY <1>1, <1>3, <1>4, <1>5, <1>6, ActorKeeps

LEMMA IdleKeeps ==
  ASSUME ListInv, PageShape', UNCHANGED <<place, listed, missed, notices, jobs>>
  PROVE  ListInv'
<1>1. ShapeInv'
  BY DEF ListInv, ShapeInv, PageShape
<1>2. \A m \in Members : MemberOK(m)'
  BY DEF ListInv, MemberOK, Coming, Told
<1> QED BY <1>1, <1>2 DEF ListInv

\* A step of m's that changes places and loads, to announce the change at the end.
LEMMA LoaderKeeps ==
  ASSUME ListInv, NEW m \in Members, NEW js, Begun(jobs[m], js, TRUE),
         PageShape', UNCHANGED <<listed, missed, notices>>,
         jobs' = [jobs EXCEPT ![m] = js]
  PROVE  ListInv'
<1>1. ShapeInv'
  BY DEF ListInv, ShapeInv, PageShape, Begun
<1>2. jobs'[m] = js /\ \A n \in Members \ {m} : jobs'[n] = jobs[n]
  BY DEF ListInv, ShapeInv
<1>3. MemberOK(m)'
  BY <1>2 DEF MemberOK, Fresh, Begun
<1>4. ASSUME NEW n \in Members, n # m PROVE MemberOK(n)'
  <2>1. Coming(n)'
    BY <1>2, <1>4 DEF Coming, Told, Begun
  <2>2. JobsOK(jobs'[n])
    BY <1>2, <1>4 DEF ListInv, MemberOK
  <2> QED BY <2>1, <2>2 DEF MemberOK, Fresh, ReadsNew
<1> QED BY <1>1, <1>3, <1>4 DEF ListInv

\* The other members when m announces a change: who hears has a load to come, the
\* others' lists are marked.
LEMMA NotifyKeeps ==
  ASSUME ListInv, NEW m \in Members, NEW k \in 1..Len(jobs[m]), EndNotifying(m, k),
         listed' = listed
  PROVE  /\ jobs' \in [Members -> Seq(JobType)]
         /\ notices' \in [Members -> Nat] /\ missed' \in [Members -> BOOLEAN]
         /\ \A n \in Members \ {m} : MemberOK(n)'
         /\ jobs'[m] = RemoveAt(jobs[m], k) /\ missed'[m] = missed[m]
         /\ Coming(m)' <=> Coming(m)
<1>1. \A n \in Members : /\ jobs[n] \in Seq(JobType) /\ JobsOK(jobs[n])
                         /\ notices[n] \in Nat /\ missed[n] \in BOOLEAN
  BY DEF ListInv, ShapeInv, MemberOK
<1>2. /\ jobs'[m] = RemoveAt(jobs[m], k) /\ RemoveAt(jobs[m], k) \in Seq(JobType)
      /\ missed'[m] = missed[m] /\ notices'[m] = notices[m]
  BY <1>1, RemovedJob DEF EndNotifying, NotifyWorkspaceChange, Hears
<1>3. ASSUME NEW n \in Members, n # m, Hears(m, jobs[m][k], n)
      PROVE  /\ jobs'[n] = jobs[n] /\ missed'[n] = missed[n] /\ notices'[n] = notices[n] + 1
             /\ MemberOK(n)'
  <2>1. jobs'[n] = jobs[n] /\ notices'[n] = notices[n] + 1 /\ missed'[n] = missed[n]
    BY <1>1, <1>3 DEF EndNotifying, NotifyWorkspaceChange
  <2>2. Coming(n)'
    BY <1>1, <2>1 DEF Coming
  <2> QED BY <1>1, <2>1, <2>2 DEF MemberOK, Fresh, ReadsNew
<1>4. ASSUME NEW n \in Members, n # m, ~Hears(m, jobs[m][k], n)
      PROVE  /\ jobs'[n] \in Seq(JobType) /\ (Tell(jobs'[n]) <=> Tell(jobs[n]))
             /\ missed'[n] = TRUE /\ notices'[n] = notices[n]
             /\ MemberOK(n)'
  <2>1. /\ jobs'[n] = [l \in 1..Len(jobs[n]) |-> [jobs[n][l] EXCEPT !.crossed = TRUE]]
        /\ notices'[n] = notices[n] /\ missed'[n] = TRUE
    BY <1>1, <1>4 DEF EndNotifying, NotifyWorkspaceChange
  <2>2. /\ jobs'[n] \in Seq(JobType) /\ SameJobs(jobs[n], jobs'[n])
        /\ \A coming, p : ReadsNew(jobs'[n], coming, p)
    BY <1>1, <2>1, AllCrossed
  <2>3. JobsOK(jobs'[n]) /\ (Tell(jobs'[n]) <=> Tell(jobs[n]))
    BY <1>1, <2>2 DEF SameJobs
  <2> QED BY <2>1, <2>2, <2>3 DEF MemberOK, Fresh
<1>5. Coming(m)' <=> Coming(m)
  <2>1. \A n \in Members \ {m} : Tell(jobs'[n]) <=> Tell(jobs[n])
    BY <1>3, <1>4
  <2> QED BY <1>2, <2>1 DEF Coming, Told
<1>6. /\ DOMAIN jobs' = Members /\ \A n \in Members : jobs'[n] \in Seq(JobType)
  BY <1>1, <1>2, <1>3, <1>4 DEF EndNotifying
<1>7. /\ DOMAIN notices' = Members /\ \A n \in Members : notices'[n] \in Nat
      /\ DOMAIN missed' = Members /\ \A n \in Members : missed'[n] \in BOOLEAN
  BY <1>1, <1>2, <1>3, <1>4 DEF EndNotifying, NotifyWorkspaceChange
<1>8. /\ jobs' = [n \in Members |-> jobs'[n]] /\ notices' = [n \in Members |-> notices'[n]]
      /\ missed' = [n \in Members |-> missed'[n]]
  BY DEF EndNotifying, NotifyWorkspaceChange
<1> QED BY <1>2, <1>3, <1>4, <1>5, <1>6, <1>7, <1>8

LEMMA JobsTyped ==
  ASSUME ListInv, NEW m \in Members
  PROVE  /\ jobs[m] \in Seq(JobType) /\ JobsOK(jobs[m]) /\ MemberOK(m)
         /\ \A k \in 1..Len(jobs[m]) : jobs[m][k] \in JobType
<1>1. jobs[m] \in Seq(JobType) /\ MemberOK(m)
  BY DEF ListInv, ShapeInv
<1> QED BY <1>1 DEF MemberOK

LEMMA PageKept ==
  ASSUME ListInv, UNCHANGED serverVars, UNCHANGED scoped, expanded' \in [Members -> SUBSET Roots]
  PROVE  PageShape'
BY DEF ListInv, ShapeInv, PageShape, serverVars

\* A job the member begins that loads nothing yet.
LEMMA BeginKeeps ==
  ASSUME ListInv, NEW m \in Members, NEW j \in JobType, ~Loading(j), ~j.tells,
         PageShape', UNCHANGED <<place, listed, missed, notices>>, Begin(m, j)
  PROVE  ListInv'
<1>1. PICK js : js = Append(jobs[m], j)
  OBVIOUS
<1>2. js \in Seq(JobType) /\ SameJobs(jobs[m], js)
  BY <1>1, JobsTyped, SameAppended
<1>3. jobs' = [jobs EXCEPT ![m] = js]
  BY <1>1 DEF Begin
<1> QED BY <1>2, <1>3, QuietKeeps

LEMMA EndKeeps ==
  ASSUME ListInv, NEW m \in Members, NEW k \in 1..Len(jobs[m]), ~Matters(jobs[m][k]),
         PageShape', UNCHANGED <<place, listed, missed, notices>>, End(m, k)
  PROVE  ListInv'
<1>1. PICK js : js = RemoveAt(jobs[m], k)
  OBVIOUS
<1>2. js \in Seq(JobType) /\ SameJobs(jobs[m], js)
  BY <1>1, JobsTyped, SameRemoved
<1>3. jobs' = [jobs EXCEPT ![m] = js]
  BY <1>1 DEF End
<1> QED BY <1>2, <1>3, QuietKeeps

LEMMA StepKeeps ==
  ASSUME ListInv, NEW m \in Members, NEW k \in 1..Len(jobs[m]), NEW j \in JobType,
         \/ Alike(j, jobs[m][k])
         \/ ~Loading(jobs[m][k]) /\ ~jobs[m][k].tells /\ ~Loading(j) /\ ~j.tells,
         PageShape', UNCHANGED <<place, listed, missed, notices>>, Step(m, k, j)
  PROVE  ListInv'
<1>1. PICK js : js = [jobs[m] EXCEPT ![k] = j]
  OBVIOUS
<1>2. js \in Seq(JobType) /\ SameJobs(jobs[m], js)
  BY <1>1, JobsTyped, SameStepped
<1>3. jobs' = [jobs EXCEPT ![m] = js]
  BY <1>1 DEF Step, ListInv, ShapeInv
<1> QED BY <1>2, <1>3, QuietKeeps

LEMMA PageActions ==
  ASSUME ListInv, NEW m \in Members,
         \/ ScopeAll(m)
         \/ \E i \in Items : ClickDocument(m, i) \/ ClickClose(m, i)
         \/ \E f \in Roots : OnScopeChange(m, f) \/ ToggleFolderExpand(m, f)
  PROVE  ListInv'
<1>1. CASE ScopeAll(m)
  <2>1. PageShape'
    BY <1>1 DEF ScopeAll, ListInv, ShapeInv, PageShape, serverVars, Spot
  <2> QED BY <1>1, <2>1, IdleKeeps DEF ScopeAll, serverVars
<1>2. CASE \E i \in Items : ClickDocument(m, i) \/ ClickClose(m, i)
  <2>1. UNCHANGED <<serverVars, listed, expanded, scoped, jobs, notices, missed>>
    BY <1>2 DEF ClickDocument, ClickClose
  <2>2. PageShape'
    BY <2>1 DEF ListInv, ShapeInv, PageShape, serverVars
  <2> QED BY <2>1, <2>2, IdleKeeps DEF serverVars
<1>3. ASSUME NEW f \in Roots, NEW pc \in {"open", "toggle"}, NEW todo \in SUBSET Roots,
             NEW j, j = [[Job(pc) EXCEPT !.to = f] EXCEPT !.todo = todo]
      PROVE  j \in JobType /\ ~Loading(j) /\ ~j.tells
  <2>1. PICK i : i = Job(pc)
    OBVIOUS
  <2>2. i \in JobType /\ i.pc = pc /\ i.tells = FALSE
    BY <2>1, NewJob DEF Stages
  <2>3. j = [[i EXCEPT !.to = f] EXCEPT !.todo = todo]
    BY <1>3, <2>1
  <2>4. j \in JobType /\ j.pc = pc /\ j.tells = FALSE
    BY <2>2, <2>3 DEF JobType, Spot
  <2> QED BY <2>4 DEF Loading
<1>4. ASSUME NEW f \in Roots, OnScopeChange(m, f) PROVE ListInv'
  <2>1. PageShape' /\ UNCHANGED <<place, listed, missed, notices>>
    BY <1>4 DEF OnScopeChange, ListInv, ShapeInv, PageShape, serverVars, Spot
  <2>2. PICK j : j = [Job("open") EXCEPT !.to = f]
    OBVIOUS
  <2>3. jobs' = jobs \/ Begin(m, j)
    BY <1>4, <2>2 DEF OnScopeChange, AlignTabsWithProject
  <2>4. j \in JobType /\ ~Loading(j) /\ ~j.tells
    <3>1. PICK i : i = Job("open")
      OBVIOUS
    <3>2. i \in JobType /\ i.pc = "open" /\ i.tells = FALSE
      BY <3>1, NewJob DEF Stages
    <3>3. j = [i EXCEPT !.to = f]
      BY <2>2, <3>1
    <3>4. j \in JobType /\ j.pc = "open" /\ j.tells = FALSE
      BY <3>2, <3>3 DEF JobType, Spot
    <3> QED BY <3>4 DEF Loading
  <2>5. CASE jobs' = jobs
    BY <2>1, <2>5, IdleKeeps
  <2>6. CASE Begin(m, j)
    BY <2>1, <2>4, <2>6, BeginKeeps
  <2> QED BY <2>3, <2>5, <2>6
<1>5. ASSUME NEW f \in Roots, ToggleFolderExpand(m, f) PROVE ListInv'
  <2>1. UNCHANGED <<place, listed, missed, notices>> /\ UNCHANGED serverVars /\ UNCHANGED scoped
    BY <1>5 DEF ToggleFolderExpand, serverVars
  <2>2. expanded' \in [Members -> SUBSET Roots]
    <3>1. \/ expanded' = expanded
          \/ expanded' = [expanded EXCEPT ![m] = expanded[m] \ {f}]
          \/ expanded' = [expanded EXCEPT ![m] = expanded[m] \cup {f}]
      BY <1>5 DEF ToggleFolderExpand
    <3>2. expanded \in [Members -> SUBSET Roots] /\ expanded[m] \ {f} \in SUBSET Roots
          /\ expanded[m] \cup {f} \in SUBSET Roots
      BY DEF ListInv, ShapeInv
    <3> QED BY <3>1, <3>2
  <2>3. PageShape'
    BY <2>1, <2>2, PageKept
  <2>4. PICK todo \in SUBSET Roots : todo = expanded[m] \cup {f}
    BY DEF ListInv, ShapeInv
  <2>5. PICK j : j = [[Job("toggle") EXCEPT !.to = f] EXCEPT !.todo = todo]
    OBVIOUS
  <2>6. j = [Job("toggle") EXCEPT !.to = f, !.todo = expanded[m] \cup {f}]
    BY <2>4, <2>5
  <2>7. jobs' = jobs \/ Begin(m, j)
    BY <1>5, <2>6 DEF ToggleFolderExpand
  <2>8. CASE jobs' = jobs
    BY <2>1, <2>3, <2>8, IdleKeeps
  <2>9. CASE Begin(m, j)
    BY <1>3, <2>1, <2>3, <2>5, <2>9, BeginKeeps
  <2> QED BY <2>7, <2>8, <2>9
<1> QED BY <1>1, <1>2, <1>4, <1>5

LEMMA ReadActions ==
  ASSUME ListInv, NEW m \in Members, NEW k \in 1..Len(jobs[m]),
         AutoOpenRead(m, k) \/ AutoOpenProjectEntry(m, k) \/ ToggleEnds(m, k) \/ RefreshFolder(m, k)
  PROVE  ListInv'
<1> DEFINE j == jobs[m][k]
<1>1. j \in JobType /\ JobsOK(jobs[m]) /\ jobs[m] \in Seq(JobType)
  BY JobsTyped
<1>2. UNCHANGED <<place, listed, missed, notices>> /\ UNCHANGED serverVars /\ UNCHANGED scoped
  BY DEF AutoOpenRead, AutoOpenProjectEntry, ToggleEnds, RefreshFolder, serverVars
<1>3. j.pc \notin {"ask", "read", "fetch"} => ~j.tells
  BY <1>1 DEF JobsOK
<1>4. CASE AutoOpenRead(m, k)
  <2>1. PICK i : i = [j EXCEPT !.pc = "opened", !.set = ItemsIn(j.to)]
    BY SMTT(30)
  <2>2. i \in JobType /\ i.pc = "opened" /\ i.tells = j.tells
    BY <1>1, <2>1 DEF JobType, ItemsIn, Stages
  <2>3. Step(m, k, i) /\ j.pc = "open" /\ expanded' = expanded
    BY <1>4, <2>1 DEF AutoOpenRead
  <2>4. PageShape'
    BY <1>2, <2>3, PageKept DEF ListInv, ShapeInv
  <2> QED BY <1>2, <1>3, <2>2, <2>3, <2>4, StepKeeps DEF Loading
<1>5. CASE AutoOpenProjectEntry(m, k)
  <2>1. End(m, k) /\ j.pc = "opened" /\ expanded' = expanded
    BY <1>5 DEF AutoOpenProjectEntry
  <2>2. PageShape'
    BY <1>2, <2>1, PageKept DEF ListInv, ShapeInv
  <2> QED BY <1>2, <1>3, <2>1, <2>2, EndKeeps DEF Matters
<1>6. CASE ToggleEnds(m, k)
  <2>1. End(m, k) /\ j.pc = "toggle" /\ expanded' = [expanded EXCEPT ![m] = j.todo]
    BY <1>6 DEF ToggleEnds
  <2>2. expanded' \in [Members -> SUBSET Roots]
    <3>1. j.todo \in SUBSET Roots /\ expanded \in [Members -> SUBSET Roots]
      BY <1>1 DEF JobType, ListInv, ShapeInv
    <3> QED BY <2>1, <3>1
  <2>3. PageShape'
    BY <1>2, <2>2, PageKept
  <2> QED BY <1>2, <1>3, <2>1, <2>3, EndKeeps DEF Matters
<1>7. CASE RefreshFolder(m, k)
  <2>1. PICK f \in j.todo : Step(m, k, [j EXCEPT !.todo = j.todo \ {f}])
    BY <1>7 DEF RefreshFolder
  <2>2. PICK i : i = [j EXCEPT !.todo = j.todo \ {f}]
    OBVIOUS
  <2>3. i \in JobType /\ Alike(i, j)
    BY <1>1, <2>2 DEF JobType, Alike
  <2>4. expanded' = expanded
    BY <1>7 DEF RefreshFolder
  <2>5. PageShape'
    BY <1>2, <2>4, PageKept DEF ListInv, ShapeInv
  <2> QED BY <1>2, <2>1, <2>2, <2>3, <2>5, StepKeeps
<1> QED BY <1>4, <1>5, <1>6, <1>7

LEMMA LoadActions ==
  ASSUME ListInv, NEW m \in Members, NEW k \in 1..Len(jobs[m]),
         LoadRead(m, k) \/ LoadFails(m, k) \/ LoadShown(m, k)
  PROVE  ListInv'
<1> DEFINE j == jobs[m][k]
           js == jobs[m]
<1>1. /\ j \in JobType /\ JobsOK(js) /\ js \in Seq(JobType) /\ MemberOK(m)
      /\ listed[m] \in [Items -> Spot] /\ notices[m] \in Nat /\ missed[m] \in BOOLEAN
      /\ place \in [Items -> Spot] /\ expanded[m] \in SUBSET Roots
      /\ jobs \in [Members -> Seq(JobType)] /\ listed \in [Members -> [Items -> Spot]]
      /\ notices \in [Members -> Nat] /\ missed \in [Members -> BOOLEAN]
  BY JobsTyped DEF ListInv, ShapeInv
<1>2. UNCHANGED serverVars /\ UNCHANGED <<scoped, expanded, notices>> /\ place' = place
  BY DEF LoadRead, LoadFails, LoadShown, serverVars
<1>3. PageShape'
  BY <1>2, PageKept DEF ListInv, ShapeInv
<1>4. PICK coming \in BOOLEAN : coming <=> (notices[m] > 0 \/ Told(m))
  OBVIOUS
<1>5. /\ Fresh(js, missed[m], coming, listed[m], place)
      /\ ReadsNew(js, coming, place)
  BY <1>1, <1>4 DEF MemberOK, Fresh, Coming, ReadsNew
<1>6. ASSUME NEW i \in JobType, NEW jt, jt = [js EXCEPT ![k] = i], i.tells = j.tells,
             i.crossed = j.crossed, i.pc \in {"read", "fetch"}, j.pc \in {"ask", "read"}
      PROVE  /\ jt \in Seq(JobType) /\ Len(jt) = Len(js) /\ jt[k] = i
             /\ \A l \in 1..Len(js) : l # k => jt[l] = js[l]
             /\ JobsOK(jt) /\ (Tell(js) => Tell(jt))
             /\ \A l \in 1..Len(js) : l # k /\ Loading(js[l]) => js[l].crossed /\ j.crossed
             /\ (i.pc = "read" => i.crossed \/ i.list = place) => ReadsNew(jt, coming, place)
  <2>1. /\ jt \in Seq(JobType) /\ Len(jt) = Len(js) /\ jt[k] = i
        /\ \A l \in 1..Len(js) : l # k => jt[l] = js[l]
    BY <1>1, <1>6, SteppedJob
  <2>2. Loading(j) /\ Loading(i)
    BY <1>6 DEF Loading
  <2>3. \A l \in 1..Len(js) : l # k /\ Loading(js[l]) => js[l].crossed /\ j.crossed
    BY <1>1, <2>2 DEF JobsOK
  <2>4. JobsOK(jt)
    <3>1. \A l \in 1..Len(jt) : jt[l].tells => jt[l].pc \in {"ask", "read", "fetch"}
      BY <1>1, <1>6, <2>1 DEF JobsOK
    <3>2. \A l, o \in 1..Len(jt) : l # o /\ Loading(jt[l]) /\ Loading(jt[o]) => jt[l].crossed
      BY <1>1, <1>6, <2>1, <2>2, <2>3 DEF JobsOK
    <3> QED BY <3>1, <3>2 DEF JobsOK
  <2>5. Tell(js) => Tell(jt)
    BY <1>6, <2>1 DEF Tell
  <2>6. (i.pc = "read" => i.crossed \/ i.list = place) => ReadsNew(jt, coming, place)
    BY <1>5, <2>1 DEF ReadsNew
  <2> QED BY <2>1, <2>3, <2>4, <2>5, <2>6
<1>7. CASE LoadRead(m, k)
  <2>1. PICK i : i = [j EXCEPT !.pc = "read", !.list = place]
    OBVIOUS
  <2>2. /\ i \in JobType /\ i.pc = "read" /\ i.list = place
        /\ i.tells = j.tells /\ i.crossed = j.crossed
    BY <1>1, <2>1 DEF JobType, Stages
  <2>3. PICK jt : jt = [js EXCEPT ![k] = i]
    OBVIOUS
  <2>4. j.pc = "ask" /\ jobs' = [jobs EXCEPT ![m] = jt] /\ listed' = listed /\ missed' = missed
    BY <1>1, <1>7, <2>1, <2>3 DEF LoadRead, Step
  <2>5. /\ jt \in Seq(JobType) /\ JobsOK(jt) /\ (Tell(js) => Tell(jt))
        /\ Len(jt) = Len(js) /\ jt[k] = i /\ ReadsNew(jt, coming, place)
    BY <1>6, <2>2, <2>3, <2>4
  <2>6. Fresh(jt, missed[m], coming, listed[m], place)
    BY <2>2, <2>5 DEF Fresh, Pend
  <2>7. ActsAlone(m, jt, missed[m], notices[m], listed[m])
    BY <1>1, <1>2, <2>4 DEF ActsAlone
  <2> QED BY <1>1, <1>3, <1>4, <2>5, <2>6, <2>7, ActorKeeps
<1>8. CASE LoadFails(m, k)
  <2>1. PICK i : i = [j EXCEPT !.pc = "fetch", !.todo = {}]
    OBVIOUS
  <2>2. i \in JobType /\ i.pc = "fetch" /\ i.tells = j.tells /\ i.crossed = j.crossed
    BY <1>1, <2>1 DEF JobType, Stages
  <2>3. PICK jt : jt = [js EXCEPT ![k] = i]
    OBVIOUS
  <2>4. /\ j.pc = "ask" /\ jobs' = [jobs EXCEPT ![m] = jt] /\ listed' = listed
        /\ missed' = [missed EXCEPT ![m] = TRUE]
    BY <1>1, <1>8, <2>1, <2>3 DEF LoadFails, Step
  <2>5. /\ jt \in Seq(JobType) /\ JobsOK(jt) /\ (Tell(js) => Tell(jt))
        /\ ReadsNew(jt, coming, place)
    BY <1>6, <2>2, <2>3, <2>4
  <2>6. Fresh(jt, TRUE, coming, listed[m], place)
    BY DEF Fresh
  <2>7. ActsAlone(m, jt, TRUE, notices[m], listed[m])
    BY <1>1, <1>2, <2>4 DEF ActsAlone
  <2> QED BY <1>1, <1>3, <1>4, <2>5, <2>6, <2>7, ActorKeeps
<1>9. CASE LoadShown(m, k)
  <2>1. PICK i : i = [j EXCEPT !.pc = "fetch", !.todo = expanded[m]]
    OBVIOUS
  <2>2. /\ i \in JobType /\ i.pc = "fetch" /\ i.tells = j.tells /\ i.crossed = j.crossed
        /\ j.list \in [Items -> Spot] /\ j.crossed \in BOOLEAN
    BY <1>1, <2>1 DEF JobType, Stages
  <2>3. PICK jt : jt = [js EXCEPT ![k] = i]
    OBVIOUS
  <2>4. /\ j.pc = "read" /\ jobs' = [jobs EXCEPT ![m] = jt]
        /\ listed' = [listed EXCEPT ![m] = j.list] /\ missed' = [missed EXCEPT ![m] = j.crossed]
    BY <1>1, <1>9, <2>1, <2>3 DEF LoadShown, Step
  <2>5. /\ jt \in Seq(JobType) /\ JobsOK(jt) /\ (Tell(js) => Tell(jt))
        /\ Len(jt) = Len(js) /\ jt[k] = i /\ ReadsNew(jt, coming, place)
        /\ \A l \in 1..Len(js) : l # k => jt[l] = js[l]
        /\ \A l \in 1..Len(js) : l # k /\ Loading(js[l]) => js[l].crossed /\ j.crossed
    <3>1. i \in JobType /\ i.tells = j.tells /\ i.crossed = j.crossed /\ i.pc = "fetch"
      BY <2>2
    <3>2. j.pc = "read"
      BY <2>4
    <3>3. /\ jt \in Seq(JobType) /\ JobsOK(jt) /\ (Tell(js) => Tell(jt))
          /\ ReadsNew(jt, coming, place)
      BY <1>6, <2>3, <3>1, <3>2
    <3>4. Len(jt) = Len(js) /\ jt[k] = i
      BY <1>1, <2>3, <3>1, SteppedJob
    <3>5. \A l \in 1..Len(js) : l # k => jt[l] = js[l]
      BY <1>1, <2>3, <3>1, SteppedJob
    <3>6. \A l \in 1..Len(js) : l # k /\ Loading(js[l]) => js[l].crossed /\ j.crossed
      BY <1>1, <3>2 DEF JobsOK, Loading
    <3> QED BY <3>3, <3>4, <3>5, <3>6
  <2>6. Fresh(jt, j.crossed, coming, j.list, place)
    <3> SUFFICES ASSUME ~j.crossed, ~coming PROVE Faithful(j.list, place, Dels(jt))
      BY DEF Fresh
    <3>1. j.list = place
      BY <1>5, <2>4 DEF ReadsNew
    <3>2. \A l \in 1..Len(jt) : jt[l].pc # "delete"
      BY <2>2, <2>5 DEF Loading
    <3>3. Dels(jt) = {}
      BY <3>2 DEF Dels
    <3> QED BY <3>1, <3>3 DEF Faithful
  <2>7. ActsAlone(m, jt, j.crossed, notices[m], j.list)
    BY <1>1, <1>2, <2>4 DEF ActsAlone
  <2>8. PICK list \in [Items -> Spot], mark \in BOOLEAN, waiting \in Nat :
          list = j.list /\ mark = j.crossed /\ waiting = notices[m]
    BY <1>1, <2>2
  <2>9. /\ Fresh(jt, mark, coming, list, place) /\ ActsAlone(m, jt, mark, waiting, list)
        /\ coming <=> (waiting > 0 \/ Told(m))
    BY <1>4, <2>6, <2>7, <2>8
  <2>10. jt \in Seq(JobType) /\ JobsOK(jt) /\ (Tell(jobs[m]) => Tell(jt)) /\ ReadsNew(jt, coming, place)
    BY <2>5
  <2> QED BY <1>3, <2>9, <2>10, ActorKeeps
<1> QED BY <1>7, <1>8, <1>9

LEMMA BeginActions ==
  ASSUME ListInv, NEW m \in Members,
         \/ OpenCreateInFolder(m)
         \/ \E f \in Roots : StartDeleteFolder(m, f)
         \/ \E f \in Roots, i \in Items : StartMove(m, i, f)
  PROVE  ListInv'
<1>0. UNCHANGED serverVars /\ UNCHANGED scoped /\ UNCHANGED <<place, listed, missed, notices>>
  BY DEF OpenCreateInFolder, StartDeleteFolder, StartMove, serverVars
<1>1. CASE OpenCreateInFolder(m)
  <2>1. /\ scoped[m] \in Roots /\ scoped[m] \in Spot /\ expanded[m] \cup {scoped[m]} \in SUBSET Roots
        /\ expanded \in [Members -> SUBSET Roots]
    BY <1>1 DEF OpenCreateInFolder, ListInv, ShapeInv, Spot
  <2>2. PageShape'
    <3>1. expanded' = [expanded EXCEPT ![m] = expanded[m] \cup {scoped[m]}]
      BY <1>1 DEF OpenCreateInFolder
    <3>2. expanded' \in [Members -> SUBSET Roots]
      BY <2>1, <3>1
    <3> QED BY <1>0, <3>2, PageKept
  <2>3. PICK i : i = Job("create")
    OBVIOUS
  <2>4. i \in JobType /\ i.pc = "create" /\ i.tells = FALSE
    BY <2>3, NewJob DEF Stages
  <2>5. PICK j : j = [i EXCEPT !.to = scoped[m], !.scope = scoped[m],
                               !.todo = expanded[m] \cup {scoped[m]}]
    OBVIOUS
  <2>6. j \in JobType /\ j.pc = "create" /\ j.tells = FALSE
    BY <2>1, <2>4, <2>5 DEF JobType
  <2>7. Begin(m, j)
    BY <1>1, <2>3, <2>5 DEF OpenCreateInFolder
  <2> QED BY <1>0, <2>2, <2>6, <2>7, BeginKeeps DEF Loading
<1>2. ASSUME NEW f \in Roots, StartDeleteFolder(m, f) PROVE ListInv'
  <2>1. PageShape'
    BY <1>0, <1>2, PageKept DEF StartDeleteFolder, ListInv, ShapeInv
  <2>2. PICK i : i = Job("rmdir")
    OBVIOUS
  <2>3. i \in JobType /\ i.pc = "rmdir" /\ i.tells = FALSE
    BY <2>2, NewJob DEF Stages
  <2>4. PICK j : j = [i EXCEPT !.todo = {f}]
    OBVIOUS
  <2>5. j \in JobType /\ j.pc = "rmdir" /\ j.tells = FALSE
    BY <2>3, <2>4 DEF JobType
  <2>6. Begin(m, j)
    BY <1>2, <2>2, <2>4 DEF StartDeleteFolder
  <2> QED BY <1>0, <2>1, <2>5, <2>6, BeginKeeps DEF Loading
<1>3. ASSUME NEW f \in Roots, NEW d \in Items, StartMove(m, d, f) PROVE ListInv'
  <2>1. PageShape'
    BY <1>0, <1>3, PageKept DEF StartMove, ListInv, ShapeInv
  <2>2. PICK i : i = Job("move")
    OBVIOUS
  <2>3. i \in JobType /\ i.pc = "move" /\ i.tells = FALSE
    BY <2>2, NewJob DEF Stages
  <2>4. PICK j : j = [i EXCEPT !.what = d, !.to = f]
    OBVIOUS
  <2>5. j \in JobType /\ j.pc = "move" /\ j.tells = FALSE
    BY <2>3, <2>4 DEF JobType, Spot
  <2>6. Begin(m, j)
    BY <1>3, <2>2, <2>4 DEF StartMove
  <2> QED BY <1>0, <2>1, <2>5, <2>6, BeginKeeps DEF Loading
<1> QED BY <1>1, <1>2, <1>3

LEMMA LoadKeeps ==
  ASSUME ListInv, NEW m \in Members, NEW k \in 1..Len(jobs[m]),
         NEW i \in JobType, NEW j, j = [i EXCEPT !.tells = TRUE],
         PageShape', UNCHANGED <<listed, missed, notices>>, Load(m, k, j)
  PROVE  ListInv'
<1>0. j \in JobType /\ j.tells = TRUE
  BY DEF JobType
<1>1. PICK jt : jt = Crossed([jobs[m] EXCEPT ![k] = [j EXCEPT !.pc = "ask"]])
  OBVIOUS
<1>2. Begun(jobs[m], jt, TRUE)
  <2>1. jobs[m] \in Seq(JobType) /\ JobsOK(jobs[m])
    BY JobsTyped
  <2>2. Begun(jobs[m], jt, j.tells)
    BY <1>0, <1>1, <2>1, LoadStarts
  <2> QED BY <1>0, <2>2
<1>3. jobs' = [jobs EXCEPT ![m] = jt]
  BY <1>1 DEF Load
<1> QED BY <1>2, <1>3, LoaderKeeps

LEMMA ChangeActions ==
  ASSUME ListInv, NEW m \in Members, NEW k \in 1..Len(jobs[m]),
         \/ \E i \in Items : CommitInlineCreation(m, k, i)
         \/ MoveDocumentToFolder(m, k) \/ DeleteFolder(m, k)
  PROVE  ListInv'
<1>1. PICK j : j = jobs[m][k]
  OBVIOUS
<1>2. j \in JobType
  BY <1>1, JobsTyped
<1>3. /\ j.to \in Spot /\ j.todo \in SUBSET Roots
      /\ folders \subseteq Roots /\ place \in [Items -> Spot]
      /\ expanded \in [Members -> SUBSET Roots] /\ scoped \in [Members -> Spot]
  BY <1>2 DEF JobType, ListInv, ShapeInv
<1>4. ASSUME NEW d \in Items, CommitInlineCreation(m, k, d) PROVE ListInv'
  <2>1. PageShape'
    <3>1. /\ place' = [place EXCEPT ![d] = j.to] /\ expanded' = [expanded EXCEPT ![m] = j.todo]
          /\ folders' = folders /\ scoped' = scoped
      BY <1>1, <1>4 DEF CommitInlineCreation
    <3>2. place' \in [Items -> Spot] /\ expanded' \in [Members -> SUBSET Roots]
      BY <1>3, <3>1
    <3> QED BY <1>3, <3>1, <3>2 DEF PageShape
  <2>2. PICK i : i = [j EXCEPT !.item = d]
    OBVIOUS
  <2>3. i \in JobType
    BY <1>2, <2>2 DEF JobType
  <2>4. PICK jn : jn = [i EXCEPT !.tells = TRUE]
    OBVIOUS
  <2>5. Load(m, k, jn) /\ UNCHANGED <<listed, missed, notices>>
    <3>1. jn = [j EXCEPT !.item = d, !.tells = TRUE]
      BY <2>2, <2>4
    <3> QED BY <1>1, <1>4, <3>1 DEF CommitInlineCreation
  <2> QED BY <2>1, <2>3, <2>4, <2>5, LoadKeeps
<1>5. CASE MoveDocumentToFolder(m, k)
  <2>1. PageShape'
    <3>1. /\ place' = [place EXCEPT ![j.what] = j.to] /\ expanded' = expanded
          /\ folders' = folders /\ scoped' = scoped
      BY <1>1, <1>5 DEF MoveDocumentToFolder
    <3> QED BY <1>3, <3>1 DEF PageShape
  <2>2. PICK jn : jn = [j EXCEPT !.tells = TRUE]
    OBVIOUS
  <2>3. Load(m, k, jn) /\ UNCHANGED <<listed, missed, notices>>
    BY <1>1, <1>5, <2>2 DEF MoveDocumentToFolder
  <2> QED BY <1>2, <2>1, <2>2, <2>3, LoadKeeps
<1>6. CASE DeleteFolder(m, k)
  <2>1. PageShape'
    <3>1. /\ place' = [i \in Items |-> IF place[i] \in j.todo THEN NoProject ELSE place[i]]
          /\ expanded' = expanded /\ folders' = folders \ j.todo
          /\ scoped' = [scoped EXCEPT ![m] = IF scoped[m] \in j.todo THEN NoProject ELSE scoped[m]]
      BY <1>1, <1>6 DEF DeleteFolder
    <3>2. place' \in [Items -> Spot]
      BY <1>3, <3>1 DEF Spot
    <3>3. scoped' \in [Members -> Spot]
      BY <1>3, <3>1 DEF Spot
    <3> QED BY <1>3, <3>1, <3>2, <3>3 DEF PageShape
  <2>2. PICK jn : jn = [j EXCEPT !.tells = TRUE]
    OBVIOUS
  <2>3. Load(m, k, jn) /\ UNCHANGED <<listed, missed, notices>>
    BY <1>1, <1>6, <2>2 DEF DeleteFolder
  <2> QED BY <1>2, <2>1, <2>2, <2>3, LoadKeeps
<1> QED BY <1>4, <1>5, <1>6


\* A request that fails: only that of a deletion loads the list again.
LEMMA RefusedRequest ==
  ASSUME ListInv, NEW m \in Members, NEW k \in 1..Len(jobs[m]), RequestFails(m, k)
  PROVE  ListInv'
<1>1. PICK j : j = jobs[m][k]
  OBVIOUS
<1>2. j \in JobType /\ JobsOK(jobs[m]) /\ jobs[m] \in Seq(JobType) /\ MemberOK(m)
  BY <1>1, JobsTyped
<1>3. PageShape' /\ UNCHANGED <<place, listed, missed, notices>>
  BY PageKept DEF RequestFails, serverVars, ListInv, ShapeInv
<1>4. CASE j.pc # "delete"
  <2>1. j.pc \in {"create", "move", "rmdir", "open"} /\ End(m, k)
    BY <1>1, <1>4 DEF RequestFails
  <2>2. ~Matters(j)
    BY <1>1, <1>2, <2>1 DEF Matters, JobsOK
  <2> QED BY <1>1, <1>3, <2>1, <2>2, EndKeeps
<1>5. CASE j.pc = "delete"
  <2>1. PICK jt : jt = Crossed([jobs[m] EXCEPT ![k] = [j EXCEPT !.pc = "ask"]])
    OBVIOUS
  <2>2. jobs' = [jobs EXCEPT ![m] = jt]
    BY <1>1, <1>5, <2>1 DEF RequestFails, Load
  <2>3. Begun(jobs[m], jt, j.tells)
    BY <1>1, <1>2, <2>1, LoadStarts
  <2>4. PICK coming \in BOOLEAN : coming <=> (notices[m] > 0 \/ Told(m))
    OBVIOUS
  <2>5. /\ jt \in Seq(JobType) /\ JobsOK(jt) /\ (Tell(jobs[m]) => Tell(jt))
        /\ Fresh(jt, missed[m], coming, listed[m], place) /\ ReadsNew(jt, coming, place)
    BY <2>3 DEF Begun, Fresh
  <2>6. /\ listed[m] \in [Items -> Spot] /\ notices[m] \in Nat /\ missed[m] \in BOOLEAN
    BY DEF ListInv, ShapeInv
  <2>7. ActsAlone(m, jt, missed[m], notices[m], listed[m])
    BY <1>3, <2>2 DEF ActsAlone, ListInv, ShapeInv
  <2> QED BY <1>3, <2>4, <2>5, <2>6, <2>7, ActorKeeps
<1> QED BY <1>4, <1>5

LEMMA NoticeLoads ==
  ASSUME ListInv, NEW m \in Members, OnWorkspaceChange(m)
  PROVE  ListInv'
<1>1. jobs[m] \in Seq(JobType) /\ JobsOK(jobs[m])
  BY JobsTyped
<1>2. PICK jt : jt = Crossed(Append(jobs[m], Job("ask")))
  OBVIOUS
<1>3. Begun(jobs[m], jt, FALSE)
  BY <1>1, <1>2, LoadAppended
<1>4. /\ jobs' = [jobs EXCEPT ![m] = jt] /\ notices' = [notices EXCEPT ![m] = 0]
      /\ UNCHANGED <<listed, missed, scoped, expanded>> /\ UNCHANGED serverVars
  BY <1>2 DEF OnWorkspaceChange
<1>5. PageShape' /\ place' = place
  BY <1>4, PageKept DEF serverVars, ListInv, ShapeInv
<1>6. PICK coming \in BOOLEAN : coming <=> (0 > 0 \/ Told(m))
  OBVIOUS
<1>7. /\ jt \in Seq(JobType) /\ JobsOK(jt) /\ (Tell(jobs[m]) => Tell(jt))
      /\ Fresh(jt, missed[m], coming, listed[m], place) /\ ReadsNew(jt, coming, place)
  BY <1>3 DEF Begun, Fresh
<1>8. /\ listed[m] \in [Items -> Spot] /\ missed[m] \in BOOLEAN /\ 0 \in Nat
  BY DEF ListInv, ShapeInv
<1>9. ActsAlone(m, jt, missed[m], 0, listed[m])
  BY <1>4, <1>5 DEF ActsAlone, ListInv, ShapeInv
<1> QED BY <1>5, <1>6, <1>7, <1>8, <1>9, ActorKeeps

LEMMA DeletionShown ==
  ASSUME ListInv, NEW m \in Members, NEW i \in Items, StartDeleteDocument(m, i)
  PROVE  ListInv'
<1>1. /\ jobs[m] \in Seq(JobType) /\ JobsOK(jobs[m]) /\ MemberOK(m)
      /\ listed[m] \in [Items -> Spot] /\ notices[m] \in Nat /\ missed[m] \in BOOLEAN
      /\ jobs \in [Members -> Seq(JobType)] /\ listed \in [Members -> [Items -> Spot]]
      /\ notices \in [Members -> Nat] /\ missed \in [Members -> BOOLEAN]
  BY JobsTyped DEF ListInv, ShapeInv
<1>2. PICK j : j = [Job("delete") EXCEPT !.what = i]
  OBVIOUS
<1>3. j \in JobType /\ j.pc = "delete" /\ ~j.tells /\ j.what = i
  <2>1. PICK o : o = Job("delete")
    OBVIOUS
  <2>2. o \in JobType /\ o.pc = "delete" /\ o.tells = FALSE
    BY <2>1, NewJob DEF Stages
  <2>3. j = [o EXCEPT !.what = i]
    BY <1>2, <2>1
  <2> QED BY <2>2, <2>3 DEF JobType
<1>4. PICK jt : jt = Crossed(Append(jobs[m], j))
  OBVIOUS
<1>5. /\ jt \in Seq(JobType) /\ JobsOK(jt)
      /\ \A p : Pend(jobs[m], p) => Pend(jt, p)
      /\ \A coming, p : ReadsNew(jt, coming, p)
      /\ Tell(jobs[m]) => Tell(jt)
      /\ Dels(jt) = Dels(jobs[m]) \cup {i}
  BY <1>1, <1>3, <1>4, DeleteAppended
<1>6. PICK list : list = [listed[m] EXCEPT ![i] = NoProject]
  OBVIOUS
<1>7. list \in [Items -> Spot]
  BY <1>1, <1>6 DEF Spot
<1>8. /\ jobs' = [jobs EXCEPT ![m] = jt] /\ listed' = [listed EXCEPT ![m] = list]
      /\ UNCHANGED <<missed, notices, scoped, expanded>> /\ UNCHANGED serverVars
  BY <1>1, <1>2, <1>4, <1>6 DEF StartDeleteDocument
<1>9. PageShape' /\ place' = place
  BY <1>8, PageKept DEF serverVars, ListInv, ShapeInv
<1>10. PICK coming \in BOOLEAN : coming <=> (notices[m] > 0 \/ Told(m))
  OBVIOUS
<1>11. Fresh(jt, missed[m], coming, list, place)
  <2>1. Fresh(jobs[m], missed[m], coming, listed[m], place)
    BY <1>1, <1>10 DEF MemberOK, Fresh, Coming
  <2>2. Faithful(listed[m], place, Dels(jobs[m])) => Faithful(list, place, Dels(jt))
    BY <1>1, <1>5, <1>6 DEF Faithful
  <2> QED BY <1>5, <2>1, <2>2 DEF Fresh
<1>12. ActsAlone(m, jt, missed[m], notices[m], list)
  BY <1>1, <1>8, <1>9 DEF ActsAlone
<1> QED BY <1>1, <1>5, <1>7, <1>9, <1>10, <1>11, <1>12, ActorKeeps

\* A step of m's that announces a change keeps what m's own list is owed.
LEMMA Announced ==
  ASSUME ListInv, NEW m \in Members, NEW k \in 1..Len(jobs[m]), EndNotifying(m, k),
         PageShape', listed' = listed, MemberOK(m)'
  PROVE  ListInv'
<1>1. ShapeInv'
  BY NotifyKeeps DEF ListInv, ShapeInv, PageShape
<1>2. \A n \in Members \ {m} : MemberOK(n)'
  BY NotifyKeeps
<1> QED BY <1>1, <1>2 DEF ListInv

LEMMA LoadEnded ==
  ASSUME ListInv, NEW m \in Members, NEW k \in 1..Len(jobs[m]), LoadEnds(m, k)
  PROVE  ListInv'
<1>1. PICK j : j = jobs[m][k]
  OBVIOUS
<1>2. j \in JobType /\ JobsOK(jobs[m]) /\ jobs[m] \in Seq(JobType) /\ MemberOK(m)
  BY <1>1, JobsTyped
<1>3. /\ j.pc = "fetch" /\ listed' = listed /\ place' = place
      /\ UNCHANGED <<scoped, expanded>> /\ UNCHANGED serverVars
  BY <1>1 DEF LoadEnds, serverVars
<1>4. PageShape'
  BY <1>3, PageKept DEF ListInv, ShapeInv
<1>5. CASE ~j.tells
  <2>1. End(m, k) /\ UNCHANGED <<notices, missed>>
    BY <1>1, <1>5 DEF LoadEnds
  <2> QED BY <1>1, <1>3, <1>4, <1>5, <2>1, EndKeeps DEF Matters
<1>6. CASE j.tells
  <2>1. EndNotifying(m, k)
    BY <1>1, <1>6 DEF LoadEnds
  <2>2. PICK jt : jt = RemoveAt(jobs[m], k)
    OBVIOUS
  <2>3. jobs'[m] = jt /\ missed'[m] = missed[m] /\ (Coming(m)' <=> Coming(m))
    BY <1>3, <2>1, <2>2, NotifyKeeps
  <2>4. /\ JobsOK(jt) /\ \A p : Pend(jobs[m], p) => Pend(jt, p)
        /\ \A coming, p : ReadsNew(jobs[m], coming, p) => ReadsNew(jt, coming, p)
        /\ Dels(jt) = Dels(jobs[m])
    BY <1>1, <1>2, <1>3, <2>2, LoadRemoved
  <2>5. MemberOK(m)'
    BY <1>2, <1>3, <2>3, <2>4 DEF MemberOK, Fresh, ReadsNew
  <2> QED BY <1>3, <1>4, <2>1, <2>5, Announced
<1> QED BY <1>5, <1>6

LEMMA Deleted ==
  ASSUME ListInv, NEW m \in Members, NEW k \in 1..Len(jobs[m]), DeleteDocument(m, k)
  PROVE  ListInv'
<1>1. PICK j : j = jobs[m][k]
  OBVIOUS
<1>2. j \in JobType /\ JobsOK(jobs[m]) /\ jobs[m] \in Seq(JobType) /\ MemberOK(m)
  BY <1>1, JobsTyped
<1>3. /\ j.pc = "delete" /\ listed' = listed /\ place' = [place EXCEPT ![j.what] = NoProject]
      /\ EndNotifying(m, k) /\ place \in [Items -> Spot] /\ folders \subseteq Roots
      /\ UNCHANGED <<folders, scoped, expanded>>
  BY <1>1 DEF DeleteDocument, ListInv, ShapeInv
<1>4. PageShape'
  BY <1>3 DEF ListInv, ShapeInv, PageShape, Spot
<1>5. PICK jt : jt = RemoveAt(jobs[m], k)
  OBVIOUS
<1>6. jobs'[m] = jt /\ missed'[m] = missed[m] /\ (Coming(m)' <=> Coming(m))
  BY <1>3, <1>5, NotifyKeeps
<1>7. /\ JobsOK(jt) /\ \A p : Pend(jobs[m], p) => Pend(jt, p)
      /\ \A coming, p : ReadsNew(jobs[m], coming, p) => ReadsNew(jt, coming, p)
      /\ Dels(jt) \subseteq Dels(jobs[m]) /\ Dels(jobs[m]) \subseteq Dels(jt) \cup {j.what}
  BY <1>1, <1>2, <1>3, <1>5, LoadRemoved
\* Every load beside a deletion knows of it: it may take any places for the newest.
<1>8. \A l \in 1..Len(jobs[m]) : jobs[m][l].pc = "read" => jobs[m][l].crossed
  BY <1>1, <1>2, <1>3 DEF JobsOK, Loading
<1>9. \A p : Pend(jobs[m], place) => Pend(jobs[m], p)
  BY <1>8 DEF Pend
<1>10. \A coming, p : ReadsNew(jobs[m], coming, p)
  BY <1>8 DEF ReadsNew
<1>11. j.what \in Dels(jobs[m])
  BY <1>1, <1>3 DEF Dels
<1>12. Faithful(listed[m], place, Dels(jobs[m])) => Faithful(listed'[m], place', Dels(jt))
  BY <1>3, <1>7, <1>11 DEF Faithful
<1>13. Pend(jobs[m], place) => Pend(jt, place')
  BY <1>7, <1>9
<1>14. Fresh(jobs'[m], missed'[m], Coming(m)', listed'[m], place')
  BY <1>2, <1>6, <1>12, <1>13 DEF MemberOK, Fresh
<1>15. ReadsNew(jobs'[m], Coming(m)', place')
  BY <1>6, <1>7, <1>10
<1>16. MemberOK(m)'
  BY <1>6, <1>7, <1>14, <1>15 DEF MemberOK
<1> QED BY <1>3, <1>4, <1>16, Announced

LEMMA ListInit == ExplorerInit => ListInv
<1> SUFFICES ASSUME ExplorerInit PROVE ListInv
  OBVIOUS
<1>1. place \in [Items -> Spot]
  BY ExplorerAssumption DEF ExplorerInit, Spot
<1>2. /\ folders \subseteq Roots
      /\ listed \in [Members -> [Items -> Spot]] /\ scoped \in [Members -> Spot]
      /\ missed \in [Members -> BOOLEAN] /\ notices \in [Members -> Nat]
  BY <1>1 DEF ExplorerInit, Spot
<1>3. expanded \in [Members -> SUBSET Roots]
  <2>1. \A m \in Members : {scoped[m]} \ {NoProject} \in SUBSET Roots
    BY DEF ExplorerInit
  <2> QED BY <2>1 DEF ExplorerInit
<1>4. jobs \in [Members -> Seq(JobType)] /\ \A m \in Members : jobs[m] = <<>>
  <2>1. <<>> \in Seq(JobType)
    OBVIOUS
  <2> QED BY <2>1 DEF ExplorerInit
<1>5. ASSUME NEW m \in Members PROVE MemberOK(m)
  <2>1. Len(jobs[m]) = 0 /\ 1..0 = {}
    BY <1>4
  <2>2. JobsOK(jobs[m]) /\ ReadsNew(jobs[m], Coming(m), place) /\ Dels(jobs[m]) = {}
    BY <2>1 DEF JobsOK, ReadsNew, Dels
  <2>3. Faithful(listed[m], place, Dels(jobs[m]))
    BY <2>2 DEF Faithful, ExplorerInit
  <2> QED BY <2>2, <2>3 DEF MemberOK, Fresh
<1> QED BY <1>1, <1>2, <1>3, <1>4, <1>5 DEF ListInv, ShapeInv

LEMMA ListNext == ListInv /\ [ExplorerNext]_explorerVars => ListInv'
<1> SUFFICES ASSUME ListInv, [ExplorerNext]_explorerVars PROVE ListInv'
  OBVIOUS
<1>1. ASSUME NEW m \in Members, Clicks(m) PROVE ListInv'
  <2>1. CASE \E f \in Roots : OnScopeChange(m, f) \/ ToggleFolderExpand(m, f)
    BY <2>1, PageActions
  <2>2. CASE ScopeAll(m)
    BY <2>2, PageActions
  <2>3. CASE \E i \in Items : ClickDocument(m, i) \/ ClickClose(m, i)
    BY <2>3, PageActions
  <2>4. CASE \E f \in Roots : StartDeleteFolder(m, f)
    BY <2>4, BeginActions
  <2>5. CASE OpenCreateInFolder(m)
    BY <2>5, BeginActions
  <2>6. CASE \E f \in Roots, i \in Items : StartMove(m, i, f)
    BY <2>6, BeginActions
  <2>7. CASE \E i \in Items : StartDeleteDocument(m, i)
    BY <2>7, DeletionShown
  <2> QED BY <1>1, <2>1, <2>2, <2>3, <2>4, <2>5, <2>6, <2>7 DEF Clicks
<1>2. ASSUME NEW m \in Members, OnWorkspaceChange(m) PROVE ListInv'
  BY <1>2, NoticeLoads
<1>3. ASSUME NEW m \in Members, NEW k \in 1..Len(jobs[m]), Runs(m, k) PROVE ListInv'
  <2>1. CASE AutoOpenRead(m, k) \/ AutoOpenProjectEntry(m, k) \/ ToggleEnds(m, k)
             \/ RefreshFolder(m, k)
    BY <2>1, ReadActions
  <2>2. CASE LoadRead(m, k) \/ LoadFails(m, k) \/ LoadShown(m, k)
    BY <2>2, LoadActions
  <2>3. CASE LoadEnds(m, k)
    BY <2>3, LoadEnded
  <2>4. CASE \/ \E i \in Items : CommitInlineCreation(m, k, i)
             \/ MoveDocumentToFolder(m, k) \/ DeleteFolder(m, k)
    BY <2>4, ChangeActions
  <2>5. CASE DeleteDocument(m, k)
    BY <2>5, Deleted
  <2>6. CASE RequestFails(m, k)
    BY <2>6, RefusedRequest
  <2> QED BY <1>3, <2>1, <2>2, <2>3, <2>4, <2>5, <2>6 DEF Runs
<1>4. CASE UNCHANGED explorerVars
  BY <1>4, IdleKeeps DEF explorerVars, ListInv, ShapeInv, PageShape
<1> QED BY <1>1, <1>2, <1>3, <1>4 DEF ExplorerNext

LEMMA ListSettled == ListInv => ListSettles
<1> SUFFICES ASSUME ListInv, \A m \in Members : jobs[m] = <<>> /\ notices[m] = 0, NEW m \in Members
             PROVE  missed[m] \/ listed[m] = place
  BY DEF ListSettles
<1>1. \A n \in Members : Len(jobs[n]) = 0 /\ 1..0 = {}
  OBVIOUS
<1>2. ~Coming(m) /\ ~Pend(jobs[m], place) /\ Dels(jobs[m]) = {}
  BY <1>1 DEF Coming, Told, Tell, Pend, Dels
<1>3. missed[m] \/ Faithful(listed[m], place, {})
  BY <1>2 DEF ListInv, MemberOK, Fresh
<1>4. listed[m] \in [Items -> Spot] /\ place \in [Items -> Spot]
  BY DEF ListInv, ShapeInv
<1> QED BY <1>3, <1>4 DEF Faithful

(* loadWorkspace and notifyWorkspaceChange: for every number of members,     *)
(* projects, documents, requests and failures, when nothing is under way     *)
(* every member's list shows the documents where they are, unless it is one  *)
(* of those that the run's three named ways leave behind.                    *)
THEOREM ListAlwaysSettles == ExplorerSpec => []ListSettles
<1>1. ExplorerSpec => []ListInv
  BY ListInit, ListNext, PTL DEF ExplorerSpec
<1> QED BY <1>1, ListSettled, PTL

(***************************************************************************)
(* The explorer's tabs                                                     *)
(*                                                                         *)
(* What a browser shows or has read of where documents are (Been) is so,   *)
(* or was until the document was moved or deleted.                         *)
(***************************************************************************)

\* Document i is in project f, or was before it was moved or deleted.
Been(i, f) == i \in born /\ (i \in moved \/ place[i] = f)

\* What a list of places says, and what a set taken for the documents of f has, is so or was.
PlacesBeen(list) == \A i \in Items : list[i] = NoProject \/ Been(i, list[i])
SetBeen(S, f) == \A i \in S : Been(i, f)

\* What a job has in its hands: a list, documents to choose from, or one to open at its end.
JobBeen(j) ==
  /\ PlacesBeen(j.list)
  /\ j.pc = "opened" => SetBeen(j.set, j.to)
  /\ j.pc = "create" => j.scope = j.to
  /\ j.item # NoItem => Been(j.item, j.scope)

TabBeen(m, i) == i \in born /\ (i \in late[m] \/ scoped[m] = NoProject \/ Been(i, scoped[m]))

TabsShape ==
  /\ born \subseteq Items /\ \A i \in Items : place[i] # NoProject => i \in born
  /\ openTabs \in [Members -> Seq(Items)]
  /\ DOMAIN late = Members /\ DOMAIN contents = Members
ListsBeen == \A m \in Members : PlacesBeen(listed[m])
ContentsBeen == \A m \in Members : \A f \in DOMAIN contents[m] : SetBeen(contents[m][f], f)
JobsBeen == \A m \in Members : \A k \in 1..Len(jobs[m]) : JobBeen(jobs[m][k])
TabsBeen == \A m \in Members : \A i \in ToSet(openTabs[m]) : TabBeen(m, i)

\* Nothing a browser shows or has read of where documents are is made up; and a tab that
\* was not opened late is of the scoped project.
TabInv == TabsShape /\ ListsBeen /\ ContentsBeen /\ JobsBeen /\ TabsBeen

\* Documents stay known, and none that is known changes place without being marked.
Lasting ==
  /\ born \subseteq born' /\ moved \subseteq moved'
  /\ \A i \in Items : i \in born => i \in moved' \/ place'[i] = place[i]

\* What was true of places stays true.
Lasts ==
  /\ \A i \in Items : \A f : Been(i, f) => Been(i, f)'
  /\ \A list \in [Items -> Spot] : PlacesBeen(list) => PlacesBeen(list)'
  /\ \A S \in SUBSET Items : \A f : SetBeen(S, f) => SetBeen(S, f)'
  /\ \A j \in JobType : JobBeen(j) => JobBeen(j)'

LEMMA TruthLasts ==
  ASSUME Lasting
  PROVE  Lasts
<1>1. \A i \in Items : \A f : Been(i, f) => Been(i, f)'
  BY DEF Lasting, Been
<1>2. ASSUME NEW list \in [Items -> Spot], PlacesBeen(list) PROVE PlacesBeen(list)'
  BY <1>1, <1>2 DEF PlacesBeen
<1>3. ASSUME NEW S \in SUBSET Items, NEW f, SetBeen(S, f) PROVE SetBeen(S, f)'
  BY <1>1, <1>3 DEF SetBeen
<1>4. ASSUME NEW j \in JobType, JobBeen(j) PROVE JobBeen(j)'
  <2>1. /\ j.list \in [Items -> Spot] /\ j.set \in SUBSET Items /\ j.to \in Spot /\ j.scope \in Spot
        /\ j.item \in Items \cup {NoItem}
    BY DEF JobType
  <2> QED BY <1>1, <1>2, <1>3, <1>4, <2>1 DEF JobBeen
<1> QED BY <1>1, <1>2, <1>3, <1>4 DEF Lasts

LEMMA NothingMoves ==
  ASSUME UNCHANGED serverVars
  PROVE  Lasting
BY DEF Lasting, serverVars

(* Jobs                                                                      *)

\* What the invariant of the tabs reads of a job.
SameRead(i, j) ==
  /\ i.pc = j.pc /\ i.list = j.list /\ i.item = j.item /\ i.scope = j.scope
  /\ i.to = j.to /\ i.set = j.set

\* Every job of jt is j or one of js, as far as is read.
Keeping(js, jt, j) ==
  \A k \in 1..Len(jt) : SameRead(jt[k], j) \/ \E l \in 1..Len(js) : SameRead(jt[k], js[l])

LEMMA ReadAlike ==
  ASSUME NEW i, NEW j, SameRead(i, j), JobBeen(j)'
  PROVE  JobBeen(i)'
BY DEF SameRead, JobBeen

LEMMA CrossedRead ==
  ASSUME NEW js \in Seq(JobType)
  PROVE  /\ Crossed(js) \in Seq(JobType) /\ Len(Crossed(js)) = Len(js)
         /\ \A k \in 1..Len(js) : SameRead(Crossed(js)[k], js[k])
<1> DEFINE n == Cardinality({k \in 1..Len(js) : Loading(js[k])})
           mark(k) == IF n > 1 /\ Loading(js[k]) THEN [js[k] EXCEPT !.crossed = TRUE] ELSE js[k]
<1>1. Crossed(js) = [k \in 1..Len(js) |-> mark(k)]
  BY DEF Crossed
<1>2. ASSUME NEW k \in 1..Len(js) PROVE SameRead(mark(k), js[k])
  <2>1. js[k] \in JobType
    OBVIOUS
  <2> QED BY <2>1 DEF JobType, SameRead
<1> QED BY <1>1, <1>2, CrossedJobs

\* The jobs after m began j, went on with j or ended one: those there were, and j.
LEMMA JobsStay ==
  ASSUME ListInv, JobsBeen, Lasts, NEW m \in Members, NEW js, NEW j,
         JobBeen(j)', Keeping(jobs[m], js, j),
         jobs' = [jobs EXCEPT ![m] = js]
  PROVE  JobsBeen'
<1>1. \A n \in Members : \A k \in 1..Len(jobs[n]) : \A i : i = jobs[n][k] => JobBeen(i)'
  BY JobsTyped DEF JobsBeen, Lasts
<1>2. jobs'[m] = js /\ \A n \in Members \ {m} : jobs'[n] = jobs[n]
  BY DEF ListInv, ShapeInv
<1>3. ASSUME NEW k \in 1..Len(js) PROVE JobBeen(js[k])'
  <2>1. CASE SameRead(js[k], j)
    BY <2>1, ReadAlike
  <2>2. ASSUME NEW l \in 1..Len(jobs[m]), SameRead(js[k], jobs[m][l]) PROVE JobBeen(js[k])'
    <3>1. PICK i : i = jobs[m][l]
      OBVIOUS
    <3>2. JobBeen(i)'
      BY <1>1, <2>2, <3>1
    <3> QED BY <2>2, <3>1, <3>2, ReadAlike
  <2> QED BY <2>1, <2>2 DEF Keeping
<1> QED BY <1>1, <1>2, <1>3 DEF JobsBeen

LEMMA JobsIdle ==
  ASSUME ListInv, JobsBeen, Lasts, jobs' = jobs
  PROVE  JobsBeen'
BY JobsTyped DEF JobsBeen, Lasts

\* A job that has nothing in its hands.
LEMMA NewHasNothing ==
  ASSUME NEW pc \in Stages, pc \notin {"opened", "create"}
  PROVE  JobBeen(Job(pc))'
BY DEF Job, JobBeen, PlacesBeen

LEMMA KeptAppended ==
  ASSUME NEW js \in Seq(JobType), NEW j \in JobType
  PROVE  /\ Keeping(js, Append(js, j), j) /\ Keeping(js, Crossed(Append(js, j)), j)
<1>1. PICK jt : jt = Append(js, j)
  OBVIOUS
<1>2. /\ jt \in Seq(JobType) /\ Len(jt) = Len(js) + 1 /\ jt[Len(js) + 1] = j
      /\ \A k \in 1..Len(js) : jt[k] = js[k]
  BY <1>1, AppendedJob
<1>3. /\ Len(Crossed(jt)) = Len(jt) /\ \A k \in 1..Len(jt) : SameRead(Crossed(jt)[k], jt[k])
  BY <1>2, CrossedRead
<1>4. \A k \in 1..Len(jt) : k \in 1..Len(js) \/ k = Len(js) + 1
  BY <1>2
<1>5. Keeping(js, jt, j)
  BY <1>2, <1>4 DEF Keeping, SameRead
<1>6. Keeping(js, Crossed(jt), j)
  <2>1. ASSUME NEW k \in 1..Len(jt) PROVE jt[k] = j \/ (k \in 1..Len(js) /\ jt[k] = js[k])
    BY <1>2, <1>4
  <2> QED BY <1>3, <2>1 DEF Keeping
<1> QED BY <1>1, <1>5, <1>6

LEMMA KeptStepped ==
  ASSUME NEW js \in Seq(JobType), NEW k \in 1..Len(js), NEW j \in JobType
  PROVE  /\ Keeping(js, [js EXCEPT ![k] = j], j) /\ Keeping(js, Crossed([js EXCEPT ![k] = j]), j)
<1>1. PICK jt : jt = [js EXCEPT ![k] = j]
  OBVIOUS
<1>2. /\ jt \in Seq(JobType) /\ Len(jt) = Len(js) /\ jt[k] = j
      /\ \A l \in 1..Len(js) : l # k => jt[l] = js[l]
  BY <1>1, SteppedJob
<1>3. /\ Len(Crossed(jt)) = Len(jt) /\ \A l \in 1..Len(jt) : SameRead(Crossed(jt)[l], jt[l])
  BY <1>2, CrossedRead
<1>4. \A l \in 1..Len(jt) : jt[l] = j \/ (l \in 1..Len(js) /\ jt[l] = js[l])
  BY <1>2
<1>5. Keeping(js, jt, j)
  BY <1>2, <1>4 DEF Keeping, SameRead
<1>6. Keeping(js, Crossed(jt), j)
  BY <1>3, <1>4 DEF Keeping
<1> QED BY <1>1, <1>5, <1>6

\* Every job of jt is one of js.
TakenFrom(js, jt) == \A l \in 1..Len(jt) : \E i \in 1..Len(js) : jt[l] = js[i]

LEMMA RemovedThere ==
  ASSUME NEW js \in Seq(JobType), NEW k \in 1..Len(js)
  PROVE  TakenFrom(js, RemoveAt(js, k))
<1>0. PICK jt : jt = RemoveAt(js, k)
  OBVIOUS
<1>1. PICK n \in Nat : n = Len(js)
  OBVIOUS
<1>2. /\ Len(jt) = n - 1
      /\ \A l \in 1..(n - 1) : (l < k => jt[l] = js[l]) /\ (l >= k => jt[l] = js[l + 1])
  BY <1>0, <1>1, RemovedJob
<1>3. ASSUME NEW l \in 1..(n - 1) PROVE \E i \in 1..n : jt[l] = js[i]
  <2>1. CASE l < k
    BY <1>1, <1>2, <2>1
  <2>2. CASE l >= k
    <3>1. l + 1 \in 1..n
      BY <1>1
    <3> QED BY <1>1, <1>2, <2>2, <3>1
  <2> QED BY <1>1, <2>1, <2>2
<1>4. TakenFrom(js, jt)
  BY <1>1, <1>2, <1>3 DEF TakenFrom
<1> QED BY <1>0, <1>4

LEMMA KeptRemoved ==
  ASSUME NEW js \in Seq(JobType), NEW k \in 1..Len(js), NEW j
  PROVE  Keeping(js, RemoveAt(js, k), j)
<1>1. PICK jt : jt = RemoveAt(js, k) /\ TakenFrom(js, jt)
  BY RemovedThere
<1>2. ASSUME NEW l \in 1..Len(jt) PROVE \E i \in 1..Len(js) : SameRead(jt[l], js[i])
  BY <1>1 DEF TakenFrom, SameRead
<1> QED BY <1>1, <1>2 DEF Keeping

\* m's job k ends and its change is announced.
LEMMA JobsAnnounced ==
  ASSUME ListInv, JobsBeen, Lasts, NEW m \in Members, NEW k \in 1..Len(jobs[m]),
         EndNotifying(m, k)
  PROVE  JobsBeen'
<1>1. \A n \in Members : /\ jobs[n] \in Seq(JobType)
        /\ \A l \in 1..Len(jobs[n]) : \A i : i = jobs[n][l] => JobBeen(i)'
  BY JobsTyped DEF JobsBeen, Lasts
<1>2. ASSUME NEW n \in Members, NEW l \in 1..Len(jobs'[n])
      PROVE  \E i \in 1..Len(jobs[n]) : SameRead(jobs'[n][l], jobs[n][i])
  <2>1. CASE n = m
    <3>1. jobs'[m] = RemoveAt(jobs[m], k)
      BY DEF EndNotifying
    <3>2. PICK js \in Seq(JobType) : js = jobs[m]
      BY <1>1
    <3>3. PICK jt : jt = RemoveAt(js, k) /\ TakenFrom(js, jt)
      BY <3>2, RemovedThere
    <3>4. PICK i \in 1..Len(js) : jt[l] = js[i]
      BY <1>2, <2>1, <3>1, <3>2, <3>3 DEF TakenFrom
    <3> QED BY <2>1, <3>1, <3>2, <3>3, <3>4 DEF SameRead
  <2>2. CASE n # m /\ Hears(m, jobs[m][k], n)
    <3>1. jobs'[n] = jobs[n]
      BY <2>2 DEF EndNotifying
    <3> QED BY <3>1 DEF SameRead
  <2>3. CASE n # m /\ ~Hears(m, jobs[m][k], n)
    <3>1. jobs'[n] = [i \in 1..Len(jobs[n]) |-> [jobs[n][i] EXCEPT !.crossed = TRUE]]
      BY <2>3 DEF EndNotifying
    <3>2. PICK js \in Seq(JobType) : js = jobs[n]
      BY <1>1
    <3>3. jobs'[n] = [i \in 1..Len(js) |-> [js[i] EXCEPT !.crossed = TRUE]]
      BY <3>1, <3>2
    <3>4. l \in 1..Len(js)
      BY <3>3
    <3>5. js[l] \in JobType
      BY <3>4
    <3>6. SameRead([js[l] EXCEPT !.crossed = TRUE], js[l])
      BY <3>5 DEF SameRead, JobType
    <3> QED BY <3>2, <3>3, <3>4, <3>6
  <2> QED BY <2>1, <2>2, <2>3
<1>3. ASSUME NEW n \in Members, NEW l \in 1..Len(jobs'[n]), NEW a, a = jobs'[n][l] PROVE JobBeen(a)'
  <2>1. PICK i \in 1..Len(jobs[n]) : SameRead(jobs'[n][l], jobs[n][i])
    BY <1>2
  <2>2. PICK b : b = jobs[n][i]
    OBVIOUS
  <2>3. JobBeen(b)' /\ SameRead(a, b)
    BY <1>1, <1>3, <2>1, <2>2
  <2> QED BY <2>3, ReadAlike
<1> QED BY <1>3 DEF JobsBeen

(* Tabs, and what a step leaves alone                                        *)

LEMMA InTabs ==
  ASSUME NEW s \in Seq(Items)
  PROVE  \A i : i \in ToSet(s) <=> \E k \in 1..Len(s) : s[k] = i
BY DEF ToSet

LEMMA FilteredTabs ==
  ASSUME NEW s \in Seq(Items), NEW S \in SUBSET Items, NEW t \in Filtered(s, S)
  PROVE  t \in Seq(Items) /\ ToSet(t) = ToSet(s) \cap S
<1>1. t \in SeqOf(S, Len(s)) /\ ToSet(t) = ToSet(s) \cap S
  BY DEF Filtered
<1>2. PICK n \in 0..Len(s) : t \in [1..n -> S]
  BY <1>1 DEF SeqOf
<1>3. n \in Nat /\ t \in [1..n -> Items]
  BY <1>2
<1> QED BY <1>1, <1>3

LEMMA AlonesStay ==
  ASSUME ListInv, TabInv, Lasting
  PROVE  /\ listed' = listed => ListsBeen'
         /\ contents' = contents => ContentsBeen'
         /\ jobs' = jobs => JobsBeen'
         /\ UNCHANGED <<openTabs, late, scoped>> => TabsBeen'
<1>1. Lasts
  BY TruthLasts
<1>2. ASSUME listed' = listed PROVE ListsBeen'
  BY <1>1, <1>2 DEF ListInv, ShapeInv, TabInv, ListsBeen, Lasts
<1>3. ASSUME contents' = contents PROVE ContentsBeen'
  <2>1. \A n \in Members : \A f \in DOMAIN contents[n] :
          contents[n][f] \in SUBSET Items /\ SetBeen(contents[n][f], f)
    BY DEF TabInv, TabsShape, ContentsBeen, SetBeen, Been
  <2> QED BY <1>1, <1>3, <2>1 DEF ContentsBeen, Lasts
<1>4. ASSUME jobs' = jobs PROVE JobsBeen'
  BY <1>1, <1>4, JobsIdle DEF TabInv
<1>5. ASSUME UNCHANGED <<openTabs, late, scoped>> PROVE TabsBeen'
  <2>1. \A n \in Members : \A i \in ToSet(openTabs[n]) : TabBeen(n, i) /\ i \in Items
    BY DEF TabInv, TabsShape, TabsBeen, TabBeen
  <2>2. born \subseteq born'
    BY DEF Lasting
  <2> QED BY <1>1, <1>5, <2>1, <2>2 DEF TabsBeen, TabBeen, Lasts
<1> QED BY <1>2, <1>3, <1>4, <1>5

\* Tabs closed, or the scope left.
LEMMA FewerTabs ==
  ASSUME ListInv, TabInv, Lasting, late' = late,
         \A n \in Members : /\ ToSet(openTabs'[n]) \subseteq ToSet(openTabs[n])
                            /\ scoped'[n] \in {scoped[n], NoProject}
  PROVE  TabsBeen'
<1>1. Lasts
  BY TruthLasts
<1>2. \A n \in Members : \A i \in ToSet(openTabs[n]) : TabBeen(n, i) /\ i \in Items
  BY DEF TabInv, TabsShape, TabsBeen, TabBeen
<1>3. born \subseteq born'
  BY DEF Lasting
<1>4. ASSUME NEW n \in Members, NEW i \in ToSet(openTabs'[n]) PROVE TabBeen(n, i)'
  <2>1. PICK f : f = scoped[n]
    OBVIOUS
  <2>2. i \in Items /\ i \in born /\ (i \in late[n] \/ f = NoProject \/ Been(i, f))
    BY <1>2, <2>1, <1>4 DEF TabBeen
  <2>3. Been(i, f) => Been(i, f)'
    BY <1>1, <2>2 DEF Lasts
  <2> QED BY <1>3, <2>1, <2>2, <2>3 DEF TabBeen
<1> QED BY <1>4 DEF TabsBeen

\* m opens a document that is of the scoped project f, if there is one, or that is marked late.
LEMMA OneTabMore ==
  ASSUME ListInv, TabInv, Lasting, NEW m \in Members, NEW i \in Items, OpenDocument(m, i),
         scoped' = scoped, NEW f, f = scoped[m], i \in born',
         DOMAIN late' = Members,
         \A n \in Members : late[n] \subseteq late'[n],
         i \in late'[m] \/ f = NoProject \/ Been(i, f)'
  PROVE  openTabs' \in [Members -> Seq(Items)] /\ TabsBeen'
<1>1. Lasts
  BY TruthLasts
<1>2. /\ openTabs \in [Members -> Seq(Items)] /\ openTabs[m] \in Seq(Items)
  BY DEF TabInv, TabsShape
<1>3. openTabs' = [openTabs EXCEPT ![m] = IF Contains(openTabs[m], i) THEN openTabs[m]
                                         ELSE Append(openTabs[m], i)]
  BY DEF OpenDocument
<1>4. /\ openTabs' \in [Members -> Seq(Items)]
      /\ \A n \in Members \ {m} : openTabs'[n] = openTabs[n]
      /\ openTabs'[m] = openTabs[m] \/ openTabs'[m] = Append(openTabs[m], i)
      /\ Contains(openTabs[m], i) => openTabs'[m] = openTabs[m]
  BY <1>2, <1>3
<1>5. ASSUME NEW n \in Members, NEW d \in ToSet(openTabs'[n]) PROVE d \in ToSet(openTabs[n]) \/ (n = m /\ d = i)
  <2>1. CASE n # m \/ openTabs'[m] = openTabs[m]
    BY <1>4, <1>5, <2>1
  <2>2. CASE n = m /\ openTabs'[m] = Append(openTabs[m], i)
    <3>1. PICK s \in Seq(Items) : s = openTabs[m]
      BY <1>2
    <3>2. PICK t : t = Append(s, i)
      OBVIOUS
    <3>3. t \in Seq(Items) /\ Len(t) = Len(s) + 1 /\ t[Len(s) + 1] = i /\ \A k \in 1..Len(s) : t[k] = s[k]
      BY <3>2
    <3>4. PICK k \in 1..Len(t) : t[k] = d
      BY <1>5, <2>2, <3>1, <3>2, <3>3, InTabs
    <3>5. k \in 1..Len(s) \/ k = Len(s) + 1
      BY <3>3
    <3> QED BY <2>2, <3>1, <3>3, <3>4, <3>5, InTabs
  <2> QED BY <1>4, <2>1, <2>2
<1>6. \A n \in Members : \A d \in ToSet(openTabs[n]) : TabBeen(n, d) /\ d \in Items
  BY DEF TabInv, TabsShape, TabsBeen, TabBeen
<1>7. ASSUME NEW n \in Members, NEW d \in ToSet(openTabs'[n]) PROVE TabBeen(n, d)'
  <2>1. CASE n = m /\ d = i
    BY <2>1 DEF TabBeen
  <2>2. CASE d \in ToSet(openTabs[n])
    <3>1. PICK g : g = scoped[n]
      OBVIOUS
    <3>2. d \in Items /\ d \in born /\ (d \in late[n] \/ g = NoProject \/ Been(d, g))
      BY <1>6, <2>2, <3>1 DEF TabBeen
    <3>3. Been(d, g) => Been(d, g)'
      BY <1>1, <3>2 DEF Lasts
    <3> QED BY <3>1, <3>2, <3>3 DEF TabBeen, Lasting
  <2> QED BY <1>5, <1>7, <2>1, <2>2
<1> QED BY <1>4, <1>7 DEF TabsBeen

\* One more folder is in the cache of m: what was read of it is so.
LEMMA OneFolderMore ==
  ASSUME ListInv, TabInv, Lasting, NEW m \in Members, NEW f, NEW S, SetBeen(S, f)',
         contents' = [contents EXCEPT ![m] = With(contents[m], f, S)]
  PROVE  ContentsBeen' /\ DOMAIN contents' = Members
<1>1. Lasts /\ DOMAIN contents = Members
  BY TruthLasts DEF TabInv, TabsShape
<1>2. /\ contents'[m] = With(contents[m], f, S) /\ DOMAIN contents' = Members
      /\ \A n \in Members \ {m} : contents'[n] = contents[n]
  BY <1>1
<1>3. \A n \in Members : \A g \in DOMAIN contents[n] :
        contents[n][g] \in SUBSET Items /\ SetBeen(contents[n][g], g)
  BY DEF TabInv, TabsShape, ContentsBeen, SetBeen, Been
<1>4. ASSUME NEW n \in Members, NEW g \in DOMAIN contents'[n], NEW T, T = contents'[n][g]
      PROVE  SetBeen(T, g)'
  <2>1. CASE n = m /\ g = f
    BY <1>2, <1>4, <2>1 DEF With
  <2>2. CASE ~(n = m /\ g = f)
    <3>1. g \in DOMAIN contents[n] /\ T = contents[n][g]
      BY <1>2, <1>4, <2>2 DEF With
    <3> QED BY <1>1, <1>3, <3>1 DEF Lasts
  <2> QED BY <2>1, <2>2
<1> QED BY <1>2, <1>4 DEF ContentsBeen

\* What is in an existing folder now.
LEMMA NowInFolder ==
  ASSUME ListInv, TabInv, UNCHANGED serverVars, NEW f \in folders, NEW S, S = ItemsIn(f)
  PROVE  SetBeen(S, f) /\ SetBeen(S, f)' /\ S \in SUBSET Items
<1>1. f # NoProject
  BY ExplorerAssumption DEF ListInv, ShapeInv
<1>2. \A i \in S : i \in born /\ place[i] = f /\ i \in Items
  BY <1>1 DEF ItemsIn, TabInv, TabsShape
<1> QED BY <1>2 DEF SetBeen, Been, serverVars

\* A job of m's is typed, and what it has read is so or was.
LEMMA HeldJob ==
  ASSUME ListInv, TabInv, NEW m \in Members, NEW k \in 1..Len(jobs[m]), NEW j, j = jobs[m][k]
  PROVE  j \in JobType /\ JobBeen(j)
<1>1. j \in JobType
  BY JobsTyped
<1>2. JobBeen(j)
  BY DEF TabInv, JobsBeen
<1> QED BY <1>1, <1>2

\* The shape, but for what a step says of tabs and cache.
LEMMA ShapeStays ==
  ASSUME TabInv, UNCHANGED serverVars, openTabs' \in [Members -> Seq(Items)],
         DOMAIN late' = Members, DOMAIN contents' = Members
  PROVE  TabsShape'
BY DEF TabInv, TabsShape, serverVars

LEMMA BegunBeen ==
  ASSUME ListInv, TabInv, Lasting, NEW m \in Members, NEW j \in JobType, JobBeen(j)', Begin(m, j)
  PROVE  JobsBeen'
<1>1. PICK js : js = Append(jobs[m], j)
  OBVIOUS
<1>2. Keeping(jobs[m], js, j)
  BY <1>1, KeptAppended, JobsTyped
<1>3. jobs' = [jobs EXCEPT ![m] = js]
  BY <1>1 DEF Begin
<1> QED BY <1>2, <1>3, TruthLasts, JobsStay DEF TabInv

LEMMA SteppedBeen ==
  ASSUME ListInv, TabInv, Lasting, NEW m \in Members, NEW k \in 1..Len(jobs[m]), NEW j \in JobType,
         JobBeen(j)', Step(m, k, j)
  PROVE  JobsBeen'
<1>1. PICK js : js = [jobs[m] EXCEPT ![k] = j]
  OBVIOUS
<1>2. Keeping(jobs[m], js, j)
  BY <1>1, KeptStepped, JobsTyped
<1>3. jobs' = [jobs EXCEPT ![m] = js]
  BY <1>1 DEF Step, ListInv, ShapeInv
<1> QED BY <1>2, <1>3, TruthLasts, JobsStay DEF TabInv

LEMMA EndedBeen ==
  ASSUME ListInv, TabInv, Lasting, NEW m \in Members, NEW k \in 1..Len(jobs[m]), End(m, k)
  PROVE  JobsBeen'
<1>1. PICK js : js = RemoveAt(jobs[m], k)
  OBVIOUS
<1>2. PICK j : j = Job("ask")
  OBVIOUS
<1>3. Keeping(jobs[m], js, j)
  BY <1>1, KeptRemoved, JobsTyped
<1>4. jobs' = [jobs EXCEPT ![m] = js]
  BY <1>1 DEF End
<1>5. JobBeen(j)'
  BY <1>2, NewHasNothing DEF Stages
<1> QED BY <1>3, <1>4, <1>5, TruthLasts, JobsStay DEF TabInv

\* A job goes on to load the list.
LEMMA LoadingBeen ==
  ASSUME ListInv, TabInv, Lasting, NEW m \in Members, NEW k \in 1..Len(jobs[m]), NEW j \in JobType,
         JobBeen(j)', Load(m, k, j)
  PROVE  JobsBeen'
<1>1. PICK i : i = [j EXCEPT !.pc = "ask"]
  OBVIOUS
<1>2. i \in JobType /\ JobBeen(i)'
  BY <1>1 DEF JobType, JobBeen, Stages
<1>3. PICK js : js = Crossed([jobs[m] EXCEPT ![k] = i])
  OBVIOUS
<1>4. Keeping(jobs[m], js, i)
  BY <1>2, <1>3, KeptStepped, JobsTyped
<1>5. jobs' = [jobs EXCEPT ![m] = js]
  BY <1>1, <1>3 DEF Load
<1> QED BY <1>2, <1>4, <1>5, TruthLasts, JobsStay DEF TabInv

\* A loading job, or the deletion of a document, begins.
LEMMA CrossingBeen ==
  ASSUME ListInv, TabInv, Lasting, NEW m \in Members, NEW j \in JobType, JobBeen(j)',
         jobs' = [jobs EXCEPT ![m] = Crossed(Append(jobs[m], j))]
  PROVE  JobsBeen'
<1>1. PICK js : js = Crossed(Append(jobs[m], j))
  OBVIOUS
<1>2. Keeping(jobs[m], js, j)
  BY <1>1, KeptAppended, JobsTyped
<1> QED BY <1>1, <1>2, TruthLasts, JobsStay DEF TabInv

(* The actions                                                               *)

LEMMA ScopeTabs ==
  ASSUME ListInv, TabInv, NEW m \in Members, NEW f \in Roots, OnScopeChange(m, f)
  PROVE  TabInv'
<1>1. /\ UNCHANGED serverVars /\ UNCHANGED <<listed, contents>>
      /\ scoped' = [scoped EXCEPT ![m] = f] /\ AlignTabsWithProject(m, f)
  BY DEF OnScopeChange
<1>2. Lasting /\ Lasts /\ ListsBeen' /\ ContentsBeen'
  BY <1>1, NothingMoves, TruthLasts, AlonesStay
<1>3. /\ openTabs \in [Members -> Seq(Items)] /\ openTabs[m] \in Seq(Items)
      /\ DOMAIN late = Members /\ born \subseteq Items /\ born' = born
  BY <1>1 DEF TabInv, TabsShape, serverVars
<1>4. PICK kept \in Filtered(openTabs[m], {i \in Items : InProject(m, i, f)}) :
        /\ late' = [late EXCEPT ![m] = {}]
        /\ \/ openTabs' = [openTabs EXCEPT ![m] = kept] /\ UNCHANGED jobs
           \/ /\ f \in DOMAIN contents[m] /\ contents[m][f] # {} /\ UNCHANGED jobs
              /\ openTabs' = [openTabs EXCEPT ![m] = <<CHOOSE i \in contents[m][f] : TRUE>>]
           \/ /\ openTabs' = [openTabs EXCEPT ![m] = <<>>]
              /\ Begin(m, [Job("open") EXCEPT !.to = f])
  BY <1>1 DEF AlignTabsWithProject
<1>5. /\ kept \in Seq(Items) /\ \A i \in ToSet(kept) : i \in Items /\ InProject(m, i, f) /\ i \in ToSet(openTabs[m])
  <2>1. PICK S : S = {i \in Items : InProject(m, i, f)}
    OBVIOUS
  <2>2. PICK s \in Seq(Items) : s = openTabs[m]
    BY <1>3
  <2>3. kept \in Seq(Items) /\ ToSet(kept) = ToSet(s) \cap S
    BY <1>4, <2>1, <2>2, FilteredTabs
  <2> QED BY <2>1, <2>2, <2>3
<1>6. ASSUME NEW i \in ToSet(kept) PROVE i \in born /\ (f = NoProject \/ Been(i, f))
  <2>1. i \in born
    BY <1>5, <1>6 DEF TabInv, TabsBeen, TabBeen
  <2>2. CASE listed[m][i] = f
    <3>1. listed[m][i] = NoProject \/ Been(i, listed[m][i])
      BY <1>5, <1>6 DEF TabInv, ListsBeen, PlacesBeen
    <3> QED BY <2>1, <2>2, <3>1
  <2>3. CASE f \in DOMAIN contents[m] /\ i \in contents[m][f]
    BY <2>1, <2>3 DEF TabInv, ContentsBeen, SetBeen
  <2> QED BY <1>5, <1>6, <2>2, <2>3 DEF InProject
<1>7. ASSUME f \in DOMAIN contents[m], contents[m][f] # {}
      PROVE  \E i \in Items : i = (CHOOSE d \in contents[m][f] : TRUE) /\ i \in born /\ Been(i, f)
  BY <1>3, <1>7 DEF TabInv, ContentsBeen, SetBeen, Been
<1>8. PICK s \in Seq(Items) : /\ openTabs' = [openTabs EXCEPT ![m] = s]
                              /\ \A i \in ToSet(s) : i \in born /\ (f = NoProject \/ Been(i, f))
  <2>1. CASE openTabs' = [openTabs EXCEPT ![m] = kept]
    BY <1>5, <1>6, <2>1
  <2>2. CASE f \in DOMAIN contents[m] /\ contents[m][f] # {}
             /\ openTabs' = [openTabs EXCEPT ![m] = <<CHOOSE i \in contents[m][f] : TRUE>>]
    <3>1. PICK i \in Items : i = (CHOOSE d \in contents[m][f] : TRUE) /\ i \in born /\ Been(i, f)
      BY <1>7, <2>2
    <3>2. <<i>> \in Seq(Items) /\ openTabs' = [openTabs EXCEPT ![m] = <<i>>]
      BY <2>2, <3>1
    <3>3. \A d \in ToSet(<<i>>) : d = i
      BY DEF ToSet
    <3> QED BY <3>1, <3>2, <3>3
  <2>3. CASE openTabs' = [openTabs EXCEPT ![m] = <<>>]
    <3>1. <<>> \in Seq(Items) /\ ToSet(<<>>) = {}
      BY DEF ToSet
    <3> QED BY <2>3, <3>1
  <2> QED BY <1>4, <2>1, <2>2, <2>3
<1>9. /\ openTabs' \in [Members -> Seq(Items)] /\ openTabs'[m] = s
      /\ \A n \in Members \ {m} : openTabs'[n] = openTabs[n]
      /\ DOMAIN late' = Members /\ \A n \in Members \ {m} : late'[n] = late[n]
  BY <1>3, <1>4, <1>8
<1>10. scoped'[m] = f /\ \A n \in Members \ {m} : scoped'[n] = scoped[n]
  BY <1>1 DEF ListInv, ShapeInv
<1>11. TabsBeen'
  <2>1. ASSUME NEW i \in ToSet(s) PROVE TabBeen(m, i)'
    <3>1. i \in Items /\ (f = NoProject \/ Been(i, f)')
      BY <1>2, <1>3, <1>8, <2>1 DEF Lasts
    <3> QED BY <1>3, <1>8, <1>10, <2>1, <3>1 DEF TabBeen
  <2>2. ASSUME NEW n \in Members \ {m}, NEW i \in ToSet(openTabs[n]) PROVE TabBeen(n, i)'
    <3>1. PICK g : g = scoped[n]
      OBVIOUS
    <3>2. i \in born /\ i \in Items /\ (i \in late[n] \/ g = NoProject \/ Been(i, g))
      BY <1>3, <2>2, <3>1 DEF TabInv, TabsBeen, TabBeen
    <3>3. Been(i, g) => Been(i, g)'
      BY <1>2, <3>2 DEF Lasts
    <3> QED BY <1>3, <1>9, <1>10, <3>1, <3>2, <3>3 DEF TabBeen
  <2> QED BY <1>9, <2>1, <2>2 DEF TabsBeen
<1>12. JobsBeen'
  <2>1. CASE jobs' = jobs
    BY <1>2, <2>1, AlonesStay
  <2>2. CASE Begin(m, [Job("open") EXCEPT !.to = f])
    <3>1. PICK i : i = Job("open")
      OBVIOUS
    <3>2. i \in JobType /\ i.pc = "open" /\ JobBeen(i)'
      BY <3>1, NewJob, NewHasNothing DEF Stages
    <3>3. PICK j : j = [i EXCEPT !.to = f]
      OBVIOUS
    <3>4. j \in JobType /\ JobBeen(j)'
      BY <3>2, <3>3 DEF JobBeen, JobType, Spot
    <3>5. Begin(m, j)
      BY <2>2, <3>1, <3>3
    <3> QED BY <1>2, <3>4, <3>5, BegunBeen
  <2> QED BY <1>4, <2>1, <2>2
<1>13. TabsShape'
  BY <1>1, <1>9, ShapeStays DEF TabInv, TabsShape
<1> QED BY <1>2, <1>11, <1>12, <1>13 DEF TabInv

\* A step of which the tabs, the lists and the cache hear nothing.
LEMMA QuietTabs ==
  ASSUME ListInv, TabInv, UNCHANGED serverVars,
         UNCHANGED <<listed, contents, openTabs, late, scoped>>, JobsBeen'
  PROVE  TabInv'
<1>1. Lasting
  BY NothingMoves
<1>2. TabsShape'
  BY ShapeStays DEF TabInv, TabsShape
<1> QED BY <1>1, <1>2, AlonesStay DEF TabInv

LEMMA ClosedTabs ==
  ASSUME TabInv, NEW m \in Members, NEW i \in Items, CloseDocument(m, i)
  PROVE  /\ openTabs' \in [Members -> Seq(Items)]
         /\ \A n \in Members : ToSet(openTabs'[n]) \subseteq ToSet(openTabs[n])
<1>1. openTabs \in [Members -> Seq(Items)]
  BY DEF TabInv, TabsShape
<1>2. PICK rest \in Filtered(openTabs[m], Items \ {i}) : openTabs' = [openTabs EXCEPT ![m] = rest]
  BY DEF CloseDocument
<1>3. PICK s \in Seq(Items), S \in SUBSET Items : s = openTabs[m] /\ S = Items \ {i}
  BY <1>1
<1>4. rest \in Seq(Items) /\ ToSet(rest) = ToSet(s) \cap S
  BY <1>2, <1>3, FilteredTabs
<1> QED BY <1>1, <1>2, <1>3, <1>4

LEMMA ClickTabs ==
  ASSUME ListInv, TabInv, NEW m \in Members,
         \/ ScopeAll(m)
         \/ \E i \in Items : ClickDocument(m, i) \/ ClickClose(m, i)
         \/ \E f \in Roots : ToggleFolderExpand(m, f)
  PROVE  TabInv'
<1>1. UNCHANGED serverVars /\ UNCHANGED <<listed, contents>> /\ late' = late
  BY DEF ScopeAll, ClickDocument, ClickClose, ToggleFolderExpand, pageVars
<1>2. /\ Lasting /\ Lasts /\ ListsBeen' /\ ContentsBeen'
      /\ DOMAIN late' = Members /\ DOMAIN contents' = Members
      /\ scoped \in [Members -> Spot] /\ born' = born /\ born \subseteq Items
  BY <1>1, NothingMoves, TruthLasts, AlonesStay DEF TabInv, TabsShape, ListInv, ShapeInv, serverVars
<1>3. CASE ScopeAll(m)
  <2>1. openTabs' = openTabs /\ jobs' = jobs /\ scoped' = [scoped EXCEPT ![m] = NoProject]
    BY <1>3 DEF ScopeAll, pageVars
  <2>2. \A n \in Members : /\ ToSet(openTabs'[n]) \subseteq ToSet(openTabs[n])
                           /\ scoped'[n] \in {scoped[n], NoProject}
    BY <1>2, <2>1
  <2>3. TabsBeen'
    BY <1>1, <1>2, <2>2, FewerTabs
  <2>4. TabsShape' /\ JobsBeen'
    BY <1>1, <1>2, <2>1, ShapeStays, AlonesStay DEF TabInv, TabsShape
  <2> QED BY <1>2, <2>3, <2>4 DEF TabInv
<1>4. ASSUME NEW i \in Items, ClickDocument(m, i) PROVE TabInv'
  <2>1. OpenDocument(m, i) /\ scoped' = scoped /\ jobs' = jobs
    BY <1>4 DEF ClickDocument
  <2>2. PICK f : f = scoped[m]
    OBVIOUS
  <2>3. i \in born /\ (f = NoProject \/ Been(i, f))
    <3>1. listed[m][i] = NoProject \/ Been(i, listed[m][i])
      BY DEF TabInv, ListsBeen, PlacesBeen
    <3>2. CASE f = NoProject
      <4>1. listed[m][i] # NoProject
        BY <1>4, <2>2, <3>2 DEF ClickDocument
      <4> QED BY <3>1, <3>2, <4>1 DEF Been
    <3>3. CASE f # NoProject
      <4>1. InProject(m, i, f)
        BY <1>4, <2>2, <3>3 DEF ClickDocument
      <4>2. CASE listed[m][i] = f
        BY <3>1, <3>3, <4>2 DEF Been
      <4>3. CASE f \in DOMAIN contents[m] /\ i \in contents[m][f]
        BY <4>3 DEF TabInv, ContentsBeen, SetBeen, Been
      <4> QED BY <4>1, <4>2, <4>3 DEF InProject
    <3> QED BY <3>2, <3>3
  <2>4. f = NoProject \/ Been(i, f)'
    BY <1>2, <2>3 DEF Lasts
  <2>5. openTabs' \in [Members -> Seq(Items)] /\ TabsBeen'
    BY <1>1, <1>2, <2>1, <2>2, <2>3, <2>4, OneTabMore
  <2>6. TabsShape' /\ JobsBeen'
    BY <1>1, <1>2, <2>1, <2>5, ShapeStays, AlonesStay
  <2> QED BY <1>2, <2>5, <2>6 DEF TabInv
<1>5. ASSUME NEW i \in Items, ClickClose(m, i) PROVE TabInv'
  <2>1. CloseDocument(m, i) /\ scoped' = scoped /\ jobs' = jobs
    BY <1>5 DEF ClickClose
  <2>2. /\ openTabs' \in [Members -> Seq(Items)]
        /\ \A n \in Members : ToSet(openTabs'[n]) \subseteq ToSet(openTabs[n])
    BY <2>1, ClosedTabs
  <2>3. TabsBeen'
    BY <1>1, <1>2, <2>1, <2>2, FewerTabs
  <2>4. TabsShape' /\ JobsBeen'
    BY <1>1, <1>2, <2>1, <2>2, ShapeStays, AlonesStay
  <2> QED BY <1>2, <2>3, <2>4 DEF TabInv
<1>6. ASSUME NEW f \in Roots, ToggleFolderExpand(m, f) PROVE TabInv'
  <2>1. UNCHANGED <<openTabs, late, scoped>>
    BY <1>6 DEF ToggleFolderExpand, pageVars
  <2>2. CASE jobs' = jobs
    BY <1>1, <1>2, <2>1, <2>2, AlonesStay, QuietTabs
  <2>3. CASE Begin(m, [Job("toggle") EXCEPT !.to = f, !.todo = expanded[m] \cup {f}])
    <3>1. PICK i : i = Job("toggle")
      OBVIOUS
    <3>2. i \in JobType /\ i.pc = "toggle" /\ JobBeen(i)'
      BY <3>1, NewJob, NewHasNothing DEF Stages
    <3>3. PICK j : j = [i EXCEPT !.to = f, !.todo = expanded[m] \cup {f}]
      OBVIOUS
    <3>4. j \in JobType /\ JobBeen(j)'
      BY <3>2, <3>3 DEF JobBeen, JobType, Spot, ListInv, ShapeInv
    <3>5. Begin(m, j)
      BY <2>3, <3>1, <3>3
    <3> QED BY <1>1, <1>2, <2>1, <3>4, <3>5, BegunBeen, QuietTabs
  <2> QED BY <1>6, <2>2, <2>3 DEF ToggleFolderExpand
<1> QED BY <1>3, <1>4, <1>5, <1>6

LEMMA ReadTabs ==
  ASSUME ListInv, TabInv, NEW m \in Members, NEW k \in 1..Len(jobs[m]),
         AutoOpenRead(m, k) \/ AutoOpenProjectEntry(m, k) \/ ToggleEnds(m, k) \/ RefreshFolder(m, k)
  PROVE  TabInv'
<1>1. PICK j : j = jobs[m][k]
  OBVIOUS
<1>2. j \in JobType /\ JobBeen(j)
  BY <1>1, HeldJob
<1>3. UNCHANGED serverVars /\ UNCHANGED <<listed, scoped>>
  BY DEF AutoOpenRead, AutoOpenProjectEntry, ToggleEnds, RefreshFolder
<1>4. Lasting /\ Lasts /\ ListsBeen' /\ DOMAIN late = Members /\ born' = born /\ born \subseteq Items
  BY <1>3, NothingMoves, TruthLasts, AlonesStay DEF TabInv, TabsShape, serverVars
<1>5. JobBeen(j)'
  BY <1>2, <1>4 DEF Lasts
<1>6. CASE AutoOpenRead(m, k)
  <2>1. PICK S : S = ItemsIn(j.to)
    OBVIOUS
  <2>2. PICK i : i = [j EXCEPT !.pc = "opened", !.set = S]
    OBVIOUS
  <2>3. /\ j.to \in folders /\ Step(m, k, i)
        /\ UNCHANGED <<listed, contents, openTabs, late, scoped>>
    BY <1>1, <1>6, <2>1, <2>2 DEF AutoOpenRead, pageVars
  <2>4. PICK f \in folders : f = j.to
    BY <2>3
  <2>5. SetBeen(S, f)' /\ S \in SUBSET Items
    BY <1>3, <2>1, <2>4, NowInFolder
  <2>6. i \in JobType /\ JobBeen(i)'
    BY <1>2, <1>5, <2>2, <2>4, <2>5 DEF JobType, JobBeen, Stages
  <2> QED BY <1>3, <1>4, <2>3, <2>6, SteppedBeen, QuietTabs
<1>7. CASE AutoOpenProjectEntry(m, k)
  <2>1. /\ End(m, k) /\ j.pc = "opened"
        /\ contents' = [contents EXCEPT ![m] = With(contents[m], j.to, j.set)]
    BY <1>1, <1>7 DEF AutoOpenProjectEntry
  <2>2. PICK S, f : S = j.set /\ f = j.to
    OBVIOUS
  <2>3. SetBeen(S, f) /\ SetBeen(S, f)' /\ S \in SUBSET Items
    BY <1>2, <1>5, <2>1, <2>2 DEF JobBeen, JobType
  <2>4. ContentsBeen' /\ DOMAIN contents' = Members /\ JobsBeen'
    BY <1>4, <2>1, <2>2, <2>3, OneFolderMore, EndedBeen
  <2>5. CASE UNCHANGED pageVars
    BY <1>3, <1>4, <2>4, <2>5, AlonesStay, ShapeStays DEF TabInv, TabsShape, pageVars
  <2>6. ASSUME NEW i \in S, OpenDocument(m, i),
               late' = IF scoped[m] = f THEN late ELSE [late EXCEPT ![m] = late[m] \cup {i}]
        PROVE  TabInv'
    <3>1. PICK g : g = scoped[m]
      OBVIOUS
    <3>2. i \in Items /\ i \in born' /\ Been(i, f)'
      BY <1>4, <2>3, <2>6 DEF SetBeen, Been
    <3>3. /\ DOMAIN late' = Members /\ \A n \in Members : late[n] \subseteq late'[n]
          /\ i \in late'[m] \/ g = NoProject \/ Been(i, g)'
      BY <1>4, <2>6, <3>1, <3>2
    <3>4. openTabs' \in [Members -> Seq(Items)] /\ TabsBeen'
      BY <1>3, <1>4, <2>6, <3>1, <3>2, <3>3, OneTabMore
    <3> QED BY <1>3, <1>4, <2>4, <3>3, <3>4, ShapeStays DEF TabInv
  <2>7. CASE j.set # {}
    <3>1. PICK i : i = (CHOOSE d \in j.set : TRUE)
      OBVIOUS
    <3>2. i \in S
      BY <2>2, <2>7, <3>1
    <3>3. /\ OpenDocument(m, i)
          /\ late' = IF scoped[m] = f THEN late ELSE [late EXCEPT ![m] = late[m] \cup {i}]
      BY <1>1, <1>7, <2>2, <2>7, <3>1 DEF AutoOpenProjectEntry
    <3> QED BY <2>6, <3>2, <3>3
  <2> QED BY <1>1, <1>7, <2>5, <2>7 DEF AutoOpenProjectEntry
<1>8. ASSUME NEW f \in folders, contents' = [contents EXCEPT ![m] = With(contents[m], f, ItemsIn(f))]
      PROVE  ContentsBeen' /\ DOMAIN contents' = Members
  <2>1. PICK S : S = ItemsIn(f)
    OBVIOUS
  <2>2. SetBeen(S, f)'
    BY <1>3, <2>1, NowInFolder
  <2> QED BY <1>4, <1>8, <2>1, <2>2, OneFolderMore
<1>9. ASSUME contents' = contents \/ \E f \in folders :
               contents' = [contents EXCEPT ![m] = With(contents[m], f, ItemsIn(f))],
             UNCHANGED pageVars, JobsBeen'
      PROVE  TabInv'
  <2>1. ContentsBeen' /\ DOMAIN contents' = Members
    BY <1>4, <1>8, <1>9, AlonesStay DEF TabInv, TabsShape
  <2> QED BY <1>3, <1>4, <1>9, <2>1, AlonesStay, ShapeStays DEF TabInv, TabsShape, pageVars
<1>10. CASE ToggleEnds(m, k)
  <2>1. JobsBeen'
    BY <1>4, <1>10, EndedBeen DEF ToggleEnds
  <2>2. \/ contents' = contents
        \/ /\ j.to \in folders
           /\ contents' = [contents EXCEPT ![m] = With(contents[m], j.to, ItemsIn(j.to))]
    BY <1>1, <1>10 DEF ToggleEnds
  <2> QED BY <1>9, <1>10, <2>1, <2>2 DEF ToggleEnds
<1>11. CASE RefreshFolder(m, k)
  <2>1. PICK f \in j.todo : /\ Step(m, k, [j EXCEPT !.todo = j.todo \ {f}]) /\ UNCHANGED pageVars
          /\ \/ contents' = contents
             \/ /\ f \in folders
                /\ contents' = [contents EXCEPT ![m] = With(contents[m], f, ItemsIn(f))]
    BY <1>1, <1>11 DEF RefreshFolder
  <2>2. PICK i : i = [j EXCEPT !.todo = j.todo \ {f}]
    OBVIOUS
  <2>3. i \in JobType /\ JobBeen(i)'
    BY <1>2, <1>5, <2>2 DEF JobType, JobBeen
  <2>4. JobsBeen'
    BY <1>4, <2>1, <2>2, <2>3, SteppedBeen
  <2> QED BY <1>9, <2>1, <2>4
<1> QED BY <1>6, <1>7, <1>10, <1>11

LEMMA LoadTabs ==
  ASSUME ListInv, TabInv, NEW m \in Members, NEW k \in 1..Len(jobs[m]),
         LoadRead(m, k) \/ LoadFails(m, k) \/ LoadShown(m, k)
  PROVE  TabInv'
<1>1. PICK j : j = jobs[m][k]
  OBVIOUS
<1>2. j \in JobType /\ JobBeen(j)
  BY <1>1, HeldJob
<1>3. UNCHANGED serverVars /\ UNCHANGED <<contents, openTabs, late, scoped>>
  BY DEF LoadRead, LoadFails, LoadShown, pageVars
<1>4. Lasting /\ Lasts
  BY <1>3, NothingMoves, TruthLasts
<1>5. JobBeen(j)'
  BY <1>2, <1>4 DEF Lasts
<1>6. CASE LoadRead(m, k)
  <2>1. PICK list : list = place
    OBVIOUS
  <2>2. PICK i : i = [j EXCEPT !.pc = "read", !.list = list]
    OBVIOUS
  <2>3. Step(m, k, i) /\ listed' = listed
    BY <1>1, <1>6, <2>1, <2>2 DEF LoadRead
  <2>4. list \in [Items -> Spot] /\ PlacesBeen(list)
    BY <2>1 DEF ListInv, ShapeInv, TabInv, TabsShape, PlacesBeen, Been
  <2>5. PlacesBeen(list)'
    BY <1>4, <2>4 DEF Lasts
  <2>6. i \in JobType /\ JobBeen(i)'
    BY <1>2, <1>5, <2>2, <2>4, <2>5 DEF JobType, JobBeen, Stages
  <2> QED BY <1>3, <1>4, <2>3, <2>6, SteppedBeen, QuietTabs
<1>7. ASSUME NEW todo \in SUBSET Roots, Step(m, k, [j EXCEPT !.pc = "fetch", !.todo = todo])
      PROVE  JobsBeen'
  <2>1. PICK i : i = [j EXCEPT !.pc = "fetch", !.todo = todo]
    OBVIOUS
  <2>2. i \in JobType /\ JobBeen(i)'
    BY <1>2, <1>5, <2>1 DEF JobType, JobBeen, Stages
  <2> QED BY <1>4, <1>7, <2>1, <2>2, SteppedBeen
<1>8. CASE LoadFails(m, k)
  <2>1. PICK todo \in SUBSET Roots : todo = {}
    OBVIOUS
  <2>2. Step(m, k, [j EXCEPT !.pc = "fetch", !.todo = todo]) /\ listed' = listed
    BY <1>1, <1>8, <2>1 DEF LoadFails
  <2> QED BY <1>3, <1>7, <2>2, QuietTabs
<1>9. CASE LoadShown(m, k)
  <2>1. PICK todo \in SUBSET Roots : todo = expanded[m]
    BY DEF ListInv, ShapeInv
  <2>2. /\ Step(m, k, [j EXCEPT !.pc = "fetch", !.todo = todo])
        /\ listed' = [listed EXCEPT ![m] = j.list]
    BY <1>1, <1>9, <2>1 DEF LoadShown
  <2>3. ListsBeen'
    <3>1. PICK list : list = j.list
      OBVIOUS
    <3>2. PlacesBeen(list)'
      BY <1>5, <3>1 DEF JobBeen
    <3>3. ASSUME NEW n \in Members \ {m} PROVE PlacesBeen(listed[n])'
      <4>1. PICK old \in [Items -> Spot] : old = listed[n]
        BY DEF ListInv, ShapeInv
      <4>2. PlacesBeen(old)'
        BY <1>4, <4>1 DEF TabInv, ListsBeen, Lasts
      <4>3. listed'[n] = old
        BY <2>2, <4>1 DEF ListInv, ShapeInv
      <4> QED BY <4>2, <4>3 DEF PlacesBeen
    <3>4. listed'[m] = list
      BY <2>2, <3>1 DEF ListInv, ShapeInv
    <3>5. PlacesBeen(listed[m])'
      BY <3>2, <3>4 DEF PlacesBeen
    <3> QED BY <3>3, <3>5 DEF ListsBeen
  <2> QED BY <1>3, <1>4, <1>7, <2>2, <2>3, AlonesStay, ShapeStays DEF TabInv, TabsShape
<1> QED BY <1>6, <1>8, <1>9

LEMMA LoadEndTabs ==
  ASSUME ListInv, TabInv, NEW m \in Members, NEW k \in 1..Len(jobs[m]), LoadEnds(m, k)
  PROVE  TabInv'
<1>1. PICK j : j = jobs[m][k]
  OBVIOUS
<1>2. j \in JobType /\ JobBeen(j)
  BY <1>1, HeldJob
<1>3. UNCHANGED serverVars /\ UNCHANGED <<listed, contents, scoped>>
  BY DEF LoadEnds
<1>4. Lasting /\ Lasts /\ DOMAIN late = Members /\ born' = born /\ born \subseteq Items
  BY <1>3, NothingMoves, TruthLasts DEF TabInv, TabsShape, serverVars
<1>5. JobsBeen'
  <2>1. CASE EndNotifying(m, k)
    BY <1>4, <2>1, JobsAnnounced DEF TabInv
  <2>2. CASE End(m, k)
    BY <1>4, <2>2, EndedBeen
  <2> QED BY <2>1, <2>2 DEF LoadEnds
<1>6. CASE j.item = NoItem
  <2>1. UNCHANGED pageVars
    BY <1>1, <1>6 DEF LoadEnds
  <2> QED BY <1>3, <1>5, <2>1, QuietTabs DEF pageVars
<1>7. CASE j.item # NoItem
  <2>1. PICK i, f : i = j.item /\ f = j.scope
    OBVIOUS
  <2>2. /\ OpenDocument(m, i)
        /\ late' = IF scoped[m] = f THEN late ELSE [late EXCEPT ![m] = late[m] \cup {i}]
    BY <1>1, <1>7, <2>1 DEF LoadEnds
  <2>3. PICK g : g = scoped[m]
    OBVIOUS
  <2>4. i \in Items /\ i \in born' /\ Been(i, f) /\ Been(i, f)'
    BY <1>2, <1>4, <1>7, <2>1 DEF JobBeen, Been, Lasts
  <2>5. /\ DOMAIN late' = Members /\ \A n \in Members : late[n] \subseteq late'[n]
        /\ i \in late'[m] \/ g = NoProject \/ Been(i, g)'
    BY <1>4, <2>2, <2>3, <2>4
  <2>6. openTabs' \in [Members -> Seq(Items)] /\ TabsBeen'
    BY <1>3, <1>4, <2>2, <2>3, <2>4, <2>5, OneTabMore
  <2> QED BY <1>3, <1>4, <1>5, <2>5, <2>6, AlonesStay, ShapeStays DEF TabInv, TabsShape
<1> QED BY <1>6, <1>7

LEMMA BeginTabs ==
  ASSUME ListInv, TabInv, NEW m \in Members,
         \/ OpenCreateInFolder(m)
         \/ \E f \in Roots : StartDeleteFolder(m, f)
         \/ \E f \in Roots, i \in Items : StartMove(m, i, f)
  PROVE  TabInv'
<1>1. /\ UNCHANGED serverVars
      /\ UNCHANGED <<listed, contents, openTabs, late, scoped>>
  BY DEF OpenCreateInFolder, StartDeleteFolder, StartMove, pageVars
<1>2. Lasting
  BY <1>1, NothingMoves
<1>3. CASE OpenCreateInFolder(m)
  <2>1. PICK i : i = Job("create")
    OBVIOUS
  <2>2. i \in JobType /\ i.item = NoItem /\ i.pc = "create" /\ \A d \in Items : i.list[d] = NoProject
    <3>1. i.item = NoItem /\ i.list = [d \in Items |-> NoProject]
      BY <2>1 DEF Job
    <3> QED BY <2>1, <3>1, NewJob DEF Stages
  <2>3. PICK f, todo : f = scoped[m] /\ todo = expanded[m] \cup {scoped[m]}
    OBVIOUS
  <2>4. f \in Spot /\ f \in Roots /\ todo \in SUBSET Roots
    BY <1>3, <2>3 DEF OpenCreateInFolder, ListInv, ShapeInv, Spot
  <2>5. PICK j : j = [i EXCEPT !.to = f, !.scope = f, !.todo = todo]
    OBVIOUS
  <2>6. j \in JobType /\ JobBeen(j)'
    BY <2>2, <2>4, <2>5 DEF JobType, JobBeen, PlacesBeen
  <2>7. Begin(m, j)
    BY <1>3, <2>1, <2>3, <2>5 DEF OpenCreateInFolder
  <2> QED BY <1>1, <1>2, <2>6, <2>7, BegunBeen, QuietTabs
<1>4. ASSUME NEW f \in Roots, StartDeleteFolder(m, f) PROVE TabInv'
  <2>1. PICK i : i = Job("rmdir")
    OBVIOUS
  <2>2. i \in JobType /\ i.pc = "rmdir" /\ JobBeen(i)'
    BY <2>1, NewJob, NewHasNothing DEF Stages
  <2>3. PICK j : j = [i EXCEPT !.todo = {f}]
    OBVIOUS
  <2>4. j \in JobType /\ JobBeen(j)'
    BY <2>2, <2>3 DEF JobType, JobBeen
  <2>5. Begin(m, j)
    BY <1>4, <2>1, <2>3 DEF StartDeleteFolder
  <2> QED BY <1>1, <1>2, <2>4, <2>5, BegunBeen, QuietTabs
<1>5. ASSUME NEW f \in Roots, NEW d \in Items, StartMove(m, d, f) PROVE TabInv'
  <2>1. PICK i : i = Job("move")
    OBVIOUS
  <2>2. i \in JobType /\ i.pc = "move" /\ JobBeen(i)'
    BY <2>1, NewJob, NewHasNothing DEF Stages
  <2>3. PICK j : j = [i EXCEPT !.what = d, !.to = f]
    OBVIOUS
  <2>4. j \in JobType /\ JobBeen(j)'
    BY <2>2, <2>3 DEF JobType, JobBeen, Spot
  <2>5. Begin(m, j)
    BY <1>5, <2>1, <2>3 DEF StartMove
  <2> QED BY <1>1, <1>2, <2>4, <2>5, BegunBeen, QuietTabs
<1> QED BY <1>3, <1>4, <1>5

\* A change at the server by m's job, which goes on to load.
LEMMA ChangeTabs ==
  ASSUME ListInv, TabInv, NEW m \in Members, NEW k \in 1..Len(jobs[m]),
         \/ \E i \in Items : CommitInlineCreation(m, k, i)
         \/ MoveDocumentToFolder(m, k) \/ DeleteFolder(m, k)
  PROVE  TabInv'
<1>1. PICK j : j = jobs[m][k]
  OBVIOUS
<1>2. j \in JobType /\ JobBeen(j)
  BY <1>1, HeldJob, SMTT(30)
<1>3. UNCHANGED <<listed, contents, openTabs, late>>
  BY DEF CommitInlineCreation, MoveDocumentToFolder, DeleteFolder, pageVars
<1>4. /\ born \subseteq Items /\ \A i \in Items : place[i] # NoProject => i \in born
      /\ openTabs \in [Members -> Seq(Items)] /\ DOMAIN late = Members /\ DOMAIN contents = Members
      /\ place \in [Items -> Spot] /\ scoped \in [Members -> Spot] /\ NoProject \notin Roots
  BY ExplorerAssumption DEF TabInv, TabsShape, ListInv, ShapeInv
<1>5. ASSUME Lasting, JobsBeen', born' \subseteq Items,
             \A i \in Items : place'[i] # NoProject => i \in born',
             \A n \in Members : scoped'[n] \in {scoped[n], NoProject}
      PROVE  TabInv'
  <2>1. TabsBeen'
    BY <1>3, <1>5, FewerTabs
  <2>2. TabsShape'
    BY <1>3, <1>4, <1>5 DEF TabsShape
  <2> QED BY <1>3, <1>5, <2>1, <2>2, AlonesStay DEF TabInv
<1>6. ASSUME NEW i \in Items, CommitInlineCreation(m, k, i) PROVE TabInv'
  <2>1. /\ j.pc = "create" /\ j.to \in folders /\ i \notin born /\ moved' = moved /\ scoped' = scoped
        /\ born' = born \cup {i} /\ place' = [place EXCEPT ![i] = j.to]
        /\ Load(m, k, [j EXCEPT !.item = i, !.tells = TRUE])
    BY <1>1, <1>6 DEF CommitInlineCreation
  <2>2. Lasting
    BY <1>4, <2>1 DEF Lasting
  <2>3. PICK jn : jn = [j EXCEPT !.item = i, !.tells = TRUE]
    OBVIOUS
  <2>4. PICK f : f = j.to
    OBVIOUS
  <2>5. Been(i, f)' /\ j.scope = f
    BY <1>2, <1>4, <2>1, <2>4 DEF Been, JobBeen
  <2>6. JobBeen(j)'
    BY <1>2, <2>2, TruthLasts DEF Lasts
  <2>7. jn \in JobType /\ JobBeen(jn)'
    BY <1>2, <2>3, <2>5, <2>6 DEF JobType, JobBeen
  <2>8. JobsBeen'
    BY <2>1, <2>2, <2>3, <2>7, LoadingBeen
  <2>9. \A d \in Items : place'[d] # NoProject => d \in born'
    BY <1>4, <2>1
  <2> QED BY <1>4, <1>5, <2>1, <2>2, <2>8, <2>9
<1>7. ASSUME Lasting, Load(m, k, [j EXCEPT !.tells = TRUE]) PROVE JobsBeen'
  <2>1. PICK i : i = [j EXCEPT !.tells = TRUE]
    OBVIOUS
  <2>2. JobBeen(j)'
    BY <1>2, <1>7, TruthLasts DEF Lasts
  <2>3. i \in JobType /\ JobBeen(i)'
    BY <1>2, <2>1, <2>2 DEF JobType, JobBeen
  <2> QED BY <1>7, <2>1, <2>3, LoadingBeen
<1>8. CASE MoveDocumentToFolder(m, k)
  <2>1. /\ place[j.what] # NoProject /\ place' = [place EXCEPT ![j.what] = j.to]
        /\ moved' = moved \cup {j.what} /\ born' = born /\ scoped' = scoped
        /\ Load(m, k, [j EXCEPT !.tells = TRUE])
    BY <1>1, <1>8 DEF MoveDocumentToFolder
  <2>2. Lasting
    BY <1>4, <2>1 DEF Lasting
  <2>3. \A d \in Items : place'[d] # NoProject => d \in born'
    BY <1>4, <2>1
  <2> QED BY <1>4, <1>5, <1>7, <2>1, <2>2, <2>3
<1>9. CASE DeleteFolder(m, k)
  <2>1. /\ place' = [i \in Items |-> IF place[i] \in j.todo THEN NoProject ELSE place[i]]
        /\ moved' = moved \cup {i \in Items : place[i] \in j.todo}
        /\ scoped' = [scoped EXCEPT ![m] = IF scoped[m] \in j.todo THEN NoProject ELSE scoped[m]]
        /\ born' = born /\ Load(m, k, [j EXCEPT !.tells = TRUE])
    BY <1>1, <1>9 DEF DeleteFolder
  <2>2. Lasting
    BY <1>4, <2>1 DEF Lasting
  <2>3. /\ \A d \in Items : place'[d] # NoProject => d \in born'
        /\ \A n \in Members : scoped'[n] \in {scoped[n], NoProject}
    BY <1>4, <2>1
  <2> QED BY <1>4, <1>5, <1>7, <2>1, <2>2, <2>3
<1> QED BY <1>6, <1>8, <1>9

LEMMA RefusedTabs ==
  ASSUME ListInv, TabInv, NEW m \in Members, NEW k \in 1..Len(jobs[m]), RequestFails(m, k)
  PROVE  TabInv'
<1>1. UNCHANGED serverVars /\ UNCHANGED <<listed, contents, openTabs, late, scoped>>
  BY DEF RequestFails, pageVars
<1>2. Lasting /\ Lasts
  BY <1>1, NothingMoves, TruthLasts
<1>3. PICK j : j = jobs[m][k]
  OBVIOUS
<1>4. j \in JobType /\ JobBeen(j)
  BY <1>3, HeldJob
<1>5. JobBeen(j)'
  BY <1>2, <1>4 DEF Lasts
<1>6. Load(m, k, j) \/ End(m, k)
  BY <1>3 DEF RequestFails
<1>7. JobsBeen'
  BY <1>2, <1>4, <1>5, <1>6, LoadingBeen, EndedBeen
<1> QED BY <1>1, <1>7, QuietTabs

LEMMA NoticeTabs ==
  ASSUME ListInv, TabInv, NEW m \in Members, OnWorkspaceChange(m)
  PROVE  TabInv'
<1>1. UNCHANGED serverVars /\ UNCHANGED <<listed, contents, openTabs, late, scoped>>
  BY DEF OnWorkspaceChange, pageVars
<1>2. PICK j : j = Job("ask")
  OBVIOUS
<1>3. j \in JobType /\ JobBeen(j)'
  BY <1>2, NewJob, NewHasNothing DEF Stages
<1>4. jobs' = [jobs EXCEPT ![m] = Crossed(Append(jobs[m], j))]
  BY <1>2 DEF OnWorkspaceChange
<1>5. JobsBeen'
  BY <1>1, <1>3, <1>4, NothingMoves, CrossingBeen
<1> QED BY <1>1, <1>5, QuietTabs

LEMMA DeletionTabs ==
  ASSUME ListInv, TabInv, NEW m \in Members, NEW i \in Items, StartDeleteDocument(m, i)
  PROVE  TabInv'
<1>1. /\ UNCHANGED serverVars /\ UNCHANGED <<late, scoped>>
      /\ CloseDocument(m, i) /\ listed' = [listed EXCEPT ![m][i] = NoProject]
      /\ contents' = [contents EXCEPT ![m] = [f \in DOMAIN contents[m] |-> contents[m][f] \ {i}]]
      /\ jobs' = [jobs EXCEPT ![m] = Crossed(Append(jobs[m], [Job("delete") EXCEPT !.what = i]))]
  BY DEF StartDeleteDocument
<1>2. /\ Lasting /\ Lasts /\ DOMAIN contents = Members /\ DOMAIN late' = Members
      /\ listed \in [Members -> [Items -> Spot]]
  BY <1>1, NothingMoves, TruthLasts DEF TabInv, TabsShape, ListInv, ShapeInv
<1>3. /\ openTabs' \in [Members -> Seq(Items)]
      /\ \A n \in Members : ToSet(openTabs'[n]) \subseteq ToSet(openTabs[n])
  BY <1>1, ClosedTabs
<1>4. TabsBeen'
  BY <1>1, <1>2, <1>3, FewerTabs
<1>5. ListsBeen'
  <2>1. \A n \in Members : \A d \in Items : listed'[n][d] \in {listed[n][d], NoProject}
    BY <1>1, <1>2
  <2>2. \A n \in Members : \A d \in Items :
          listed'[n][d] # NoProject => Been(d, listed[n][d]) /\ listed'[n][d] = listed[n][d]
    BY <2>1 DEF TabInv, ListsBeen, PlacesBeen
  <2>3. \A d \in Items : \A f : Been(d, f) => Been(d, f)'
    BY <1>2 DEF Lasts
  <2>4. ASSUME NEW n \in Members, NEW d \in Items, listed'[n][d] # NoProject, NEW f, f = listed'[n][d]
        PROVE  Been(d, f)'
    BY <2>2, <2>3, <2>4
  <2> QED BY <2>4 DEF ListsBeen, PlacesBeen
<1>6. ContentsBeen' /\ DOMAIN contents' = Members
  <2>1. /\ DOMAIN contents' = Members /\ \A n \in Members \ {m} : contents'[n] = contents[n]
        /\ contents'[m] = [f \in DOMAIN contents[m] |-> contents[m][f] \ {i}]
    BY <1>1, <1>2
  <2>2. ASSUME NEW n \in Members, NEW f \in DOMAIN contents'[n], NEW S, S = contents'[n][f]
        PROVE  SetBeen(S, f)'
    <3>1. f \in DOMAIN contents[n] /\ S \subseteq contents[n][f]
      BY <2>1, <2>2
    <3>2. S \in SUBSET Items /\ SetBeen(S, f)
      BY <3>1 DEF TabInv, TabsShape, ContentsBeen, SetBeen, Been
    <3> QED BY <1>2, <3>2 DEF Lasts
  <2> QED BY <2>1, <2>2 DEF ContentsBeen
<1>7. JobsBeen'
  <2>1. PICK d : d = Job("delete")
    OBVIOUS
  <2>2. d \in JobType /\ d.pc = "delete" /\ JobBeen(d)'
    BY <2>1, NewJob, NewHasNothing DEF Stages
  <2>3. PICK j : j = [d EXCEPT !.what = i]
    OBVIOUS
  <2>4. j \in JobType /\ JobBeen(j)'
    BY <2>2, <2>3 DEF JobType, JobBeen
  <2>5. jobs' = [jobs EXCEPT ![m] = Crossed(Append(jobs[m], j))]
    BY <1>1, <2>1, <2>3
  <2> QED BY <1>2, <2>4, <2>5, CrossingBeen
<1> QED BY <1>1, <1>2, <1>3, <1>4, <1>5, <1>6, <1>7, ShapeStays DEF TabInv

LEMMA DeletedTabs ==
  ASSUME ListInv, TabInv, NEW m \in Members, NEW k \in 1..Len(jobs[m]), DeleteDocument(m, k)
  PROVE  TabInv'
<1>1. PICK i : i = jobs[m][k].what
  OBVIOUS
<1>2. /\ place[i] # NoProject /\ place' = [place EXCEPT ![i] = NoProject] /\ moved' = moved \cup {i}
      /\ UNCHANGED <<born, listed, contents, openTabs, late, scoped>> /\ EndNotifying(m, k)
  BY <1>1 DEF DeleteDocument, pageVars
<1>3. place \in [Items -> Spot]
  BY DEF ListInv, ShapeInv
<1>4. Lasting /\ Lasts
  <2>1. Lasting
    BY <1>2, <1>3 DEF Lasting
  <2> QED BY <2>1, TruthLasts
<1>5. JobsBeen'
  BY <1>2, <1>4, JobsAnnounced DEF TabInv
<1>6. TabsShape'
  BY <1>2, <1>3 DEF TabInv, TabsShape
<1> QED BY <1>2, <1>4, <1>5, <1>6, AlonesStay DEF TabInv

LEMMA TabsInit == ExplorerInit => TabInv
<1> SUFFICES ASSUME ExplorerInit PROVE TabInv
  OBVIOUS
<1>1. place \in [Items -> Spot]
  BY ExplorerAssumption DEF ExplorerInit, Spot
<1>2. TabsShape
  <2>1. <<>> \in Seq(Items)
    OBVIOUS
  <2> QED BY <2>1 DEF ExplorerInit, TabsShape
<1>3. ListsBeen
  BY <1>1 DEF ExplorerInit, ListsBeen, PlacesBeen, Been
<1>4. ContentsBeen
  BY DEF ExplorerInit, ContentsBeen, NoContents
<1>5. JobsBeen
  <2>1. \A m \in Members : Len(jobs[m]) = 0 /\ 1..0 = {}
    BY DEF ExplorerInit
  <2> QED BY <2>1 DEF JobsBeen
<1>6. TabsBeen
  <2>1. \A m \in Members : ToSet(openTabs[m]) = {}
    BY DEF ExplorerInit, ToSet
  <2> QED BY <2>1 DEF TabsBeen
<1> QED BY <1>2, <1>3, <1>4, <1>5, <1>6 DEF TabInv

LEMMA TabsNext == ListInv /\ TabInv /\ [ExplorerNext]_explorerVars => TabInv'
<1> SUFFICES ASSUME ListInv, TabInv, [ExplorerNext]_explorerVars PROVE TabInv'
  OBVIOUS
<1>1. ASSUME NEW m \in Members, Clicks(m) PROVE TabInv'
  <2>1. CASE \E f \in Roots : OnScopeChange(m, f)
    BY <2>1, ScopeTabs
  <2>2. CASE ScopeAll(m) \/ (\E i \in Items : ClickDocument(m, i) \/ ClickClose(m, i))
             \/ \E f \in Roots : ToggleFolderExpand(m, f)
    BY <2>2, ClickTabs
  <2>3. CASE OpenCreateInFolder(m) \/ (\E f \in Roots : StartDeleteFolder(m, f))
             \/ \E f \in Roots, i \in Items : StartMove(m, i, f)
    BY <2>3, BeginTabs
  <2>4. CASE \E i \in Items : StartDeleteDocument(m, i)
    BY <2>4, DeletionTabs
  <2> QED BY <1>1, <2>1, <2>2, <2>3, <2>4 DEF Clicks
<1>2. ASSUME NEW m \in Members, OnWorkspaceChange(m) PROVE TabInv'
  BY <1>2, NoticeTabs
<1>3. ASSUME NEW m \in Members, NEW k \in 1..Len(jobs[m]), Runs(m, k) PROVE TabInv'
  <2>1. CASE AutoOpenRead(m, k) \/ AutoOpenProjectEntry(m, k) \/ ToggleEnds(m, k)
             \/ RefreshFolder(m, k)
    BY <2>1, ReadTabs
  <2>2. CASE LoadRead(m, k) \/ LoadFails(m, k) \/ LoadShown(m, k)
    BY <2>2, LoadTabs
  <2>3. CASE LoadEnds(m, k)
    BY <2>3, LoadEndTabs
  <2>4. CASE \/ \E i \in Items : CommitInlineCreation(m, k, i)
             \/ MoveDocumentToFolder(m, k) \/ DeleteFolder(m, k)
    BY <2>4, ChangeTabs
  <2>5. CASE DeleteDocument(m, k)
    BY <2>5, DeletedTabs
  <2>6. CASE RequestFails(m, k)
    BY <2>6, RefusedTabs
  <2> QED BY <1>3, <2>1, <2>2, <2>3, <2>4, <2>5, <2>6 DEF Runs
<1>4. CASE UNCHANGED explorerVars
  <2>1. /\ UNCHANGED serverVars /\ jobs' = jobs
        /\ UNCHANGED <<listed, contents, openTabs, late, scoped>>
    BY <1>4 DEF explorerVars, serverVars
  <2>2. JobsBeen'
    BY <2>1, NothingMoves, AlonesStay
  <2> QED BY <2>1, <2>2, QuietTabs
<1> QED BY <1>1, <1>2, <1>3, <1>4 DEF ExplorerNext

\* alignTabsWithProject, autoOpenProjectEntry and what opens tabs: for every number of members,
\* projects, documents, requests and failures, and in whatever order what is read of lists and
\* folders is shown, a tab is of the scoped project, unless its document was moved or deleted
\* or a job begun under another scope opened it.
THEOREM TabsAlwaysOfScope == ExplorerSpec => []TabsOfScope
<1>1. ExplorerSpec => [](ListInv /\ TabInv)
  BY ListInit, ListNext, TabsInit, TabsNext, PTL DEF ExplorerSpec
<1>2. ListInv /\ TabInv => TabsOfScope
  BY DEF TabInv, TabsBeen, TabBeen, Been, TabsOfScope
<1> QED BY <1>1, <1>2, PTL

(***************************************************************************)
(* The share dialogs                                                       *)
(*                                                                         *)
(* While nothing is behind, at most one handler is at work.  The invariant *)
(* keeps the rows the browser believes in (Believed): the API's, but for   *)
(* what that handler's request has already changed there (Ahead).          *)
(***************************************************************************)

\* The types of rows, of objects, of jobs and of dialogs.
Jobs == {"open", "code", "level", "peer", "create", "delete", "load"}
OnObject == {"open", "code", "level", "peer"}
ObjectType == [item : Shareable, code : Nat, level : ShareLevels, peer : PeerLevels]
ShareJob == [nr : Nat, does : Jobs, item : Shareable,
             object : (Shareable \X Nat \X Nat) \cup {NoObject}, to : PeerLevels,
             step : {"sent", "done", "load", "loaded"}, answer : [Shareable -> Row],
             alone : BOOLEAN]
DialogType == [open : BOOLEAN, object : (Shareable \X Nat \X Nat) \cup {NoObject}, code : Nat,
               level : ShareLevels, dated : BOOLEAN, mixed : BOOLEAN]

Kinds == {"folder", "document"}

\* Objects have names of the steps so far, and the list has of each item one of its own.
HeapOK ==
  /\ made \in Nat /\ objects \in [DOMAIN objects -> ObjectType]
  /\ \A o \in DOMAIN objects : o \in Shareable \X Nat \X Nat /\ o[2] <= made
  /\ entry \in [Shareable -> DOMAIN objects \cup {NoObject}]
  /\ \A e \in Shareable : entry[e] # NoObject => objects[entry[e]].item = e

\* A dialog of a kind has an object of that kind.
DialogsOK ==
  /\ dialog \in [Kinds -> DialogType]
  /\ \A k \in Kinds : dialog[k].object # NoObject =>
       dialog[k].object \in DOMAIN objects /\ Kind(objects[dialog[k].object].item) = k

\* A handler that started from an object has one of its item; the others load.
JobOK(j) ==
  /\ j.does = "level" => j.to \in ShareLevels
  /\ j.does \in OnObject => j.object \in DOMAIN objects /\ objects[j.object].item = j.item
  /\ j.step \in {"load", "loaded"} => j.does \in {"peer", "create", "delete", "load"}
  /\ j.does = "load" => j.step \in {"load", "loaded"}

ShareJobsOK == sharing \in SUBSET ShareJob /\ \A j \in sharing : JobOK(j)

ShareTypes == rows \in [Shareable -> Row] /\ issuedFor \in Seq(Shareable)
              /\ HeapOK /\ DialogsOK /\ ShareJobsOK /\ shareClicks \in Nat

\* Code c was generated for item e.
CodeOf(c, e) == c = NoCode \/ (c \in DOMAIN issuedFor /\ issuedFor[c] = e)

\* Rows, objects, answers on their way and dialogs have codes of their items.
RowCodes(answer) == \A e \in Shareable : CodeOf(answer[e].code, e)

ObjectCode(o) == CodeOf(objects[o].code, objects[o].item)

DialogCode(k) == dialog[k].object # NoObject =>
  dialog[k].mixed \/ CodeOf(dialog[k].code, objects[dialog[k].object].item)

CodesInv == /\ RowCodes(rows) /\ \A o \in DOMAIN objects : ObjectCode(o)
            /\ \A j \in sharing : RowCodes(j.answer)
            /\ \A k \in Kinds : DialogCode(k)

\* A job that is alone is the only one, and its answer is what the API has now; and
\* while nothing is behind, the only job there is.
AloneInv ==
  /\ \A j \in sharing : j.alone =>
       sharing = {j} /\ (j.step \in {"done", "loaded"} => j.answer = rows)
  /\ ~behind => \A j \in sharing : j.alone

\* Object o tells what is in the row, but for what ListIsTrue excepts.
Tells(o, row) ==
  /\ row.exists /\ o.peer = row.peer
  /\ o.level = row.level \/ o.item \in unlisted
  /\ o.code = row.code \/ (o.item \in SharedDocs /\ o.code = NoCode)

\* The list, and an open dialog of kind k, tell what is in the rows B.
ListTold(B) == \A e \in Shareable :
  IF ~B[e].exists THEN entry[e] = NoObject
  ELSE entry[e] # NoObject /\ Tells(objects[entry[e]], B[e])

DialogTold(k, B) == dialog[k].open =>
  /\ dialog[k].object # NoObject
  /\ LET o == objects[dialog[k].object] IN
     /\ Tells(o, B[o.item]) /\ dialog[k].code = B[o.item].code
     /\ k = "document" => dialog[k].level = B[o.item].level \/ dialog[k].dated

ToldAll(B) == ListTold(B) /\ \A k \in Kinds : DialogTold(k, B)

\* The row of the job's item once its request was served; B is the API's rows but for
\* that, from the request on until the list is told.
Changed(j, old, new) ==
  CASE j.does \in {"open", "code"} -> new = [old EXCEPT !.code = new.code]
    [] j.does = "level" -> new = [old EXCEPT !.level = j.to]
    [] j.does = "peer" -> new = [old EXCEPT !.peer = j.to]
    [] OTHER -> new = [old EXCEPT !.exists = (j.does = "create")]

Ahead(j, B) ==
  /\ \A e \in Shareable \ {j.item} : rows[e] = B[e]
  /\ IF j.step = "done" \/ (j.does \in {"create", "delete"} /\ j.step # "sent")
     THEN Changed(j, B[j.item], rows[j.item])
     ELSE rows[j.item] = B[j.item]

\* What the handler of j has in its hands agrees with B, and with the dialog it came from.
Holds(j, B) ==
  LET d == dialog[Kind(j.item)] IN
  /\ j.does \in {"open", "create", "delete"} => NoneOpen
  /\ j.does \in OnObject /\ j.step \in {"sent", "done"} =>
       Tells(objects[j.object], B[j.item])
  /\ j.does = "open" /\ j.item \in SharedDocs =>
       /\ entry[j.item] = j.object /\ objects[j.object].code = NoCode
       /\ d.level = B[j.item].level \/ d.dated
  /\ j.does \in {"code", "level", "peer"} /\ d.open =>
       IF j.step \in {"sent", "done"} THEN d.object = j.object
       ELSE objects[d.object].item = j.item

\* There are rows that the browser believes in: the API's once every job has returned,
\* and else the API's but for what the one job has done.
Believed(B) == ToldAll(B) /\ (sharing = {} => B = rows)
               /\ \A j \in sharing : Ahead(j, B) /\ Holds(j, B)

SettleInv == ~behind => \E B \in [Shareable -> Row] : Believed(B)

ObjectNames == Shareable \X Nat \X Nat

\* The names of what this step makes are new.
LEMMA FreshName ==
  ASSUME HeapOK, NEW e \in Shareable, NEW part \in {1, 2}
  PROVE  /\ Name(e, part) \in ObjectNames /\ Name(e, part) # NoObject
         /\ Name(e, part) \notin DOMAIN objects /\ Name(e, part)[2] <= made + 1
         /\ Name(e, part)[1] = e
         /\ (Name(e, part) = Name(e, 1)) <=> (part = 1)
<1>1. made \in Nat /\ \A o \in DOMAIN objects : o[2] <= made
  BY DEF HeapOK
<1>2. Name(e, part) \in ObjectNames /\ Name(e, part)[2] = made + 1 /\ Name(e, part)[1] = e
  BY <1>1 DEF Name, ObjectNames
<1>3. ~(made + 1 <= made) /\ made + 1 <= made + 1
  BY <1>1
<1> QED BY <1>1, <1>2, <1>3, ShareAssumption DEF ObjectNames, Name

\* The objects there were are still there, and no object was made twice.
HeapGrows ==
  /\ DOMAIN objects \subseteq DOMAIN objects'
  /\ objects' \in [DOMAIN objects' -> ObjectType]
  /\ \A o \in DOMAIN objects : objects'[o].item = objects[o].item
  /\ \A o \in DOMAIN objects' : o \in ObjectNames /\ o[2] <= made'

LEMMA HeapStays ==
  ASSUME HeapOK, UNCHANGED <<objects, made>>
  PROVE  HeapGrows
BY DEF HeapOK, HeapGrows, ObjectNames

LEMMA NamesKept ==
  ASSUME HeapOK, made' = made + 1
  PROVE  \A o \in DOMAIN objects : o \in ObjectNames /\ o[2] <= made'
<1>1. TAKE o \in DOMAIN objects
<1>2. PICK m \in Nat : m = o[2] /\ m <= made
  BY DEF HeapOK
<1>3. o \in ObjectNames
  BY DEF HeapOK, ObjectNames
<1>4. made \in Nat
  BY DEF HeapOK
<1> QED BY <1>2, <1>3, <1>4

\* The jobs stay well typed when one begins, returns or goes on.
LEMMA ShareJobBegins ==
  ASSUME ShareTypes, NEW does \in Jobs, NEW e \in Shareable, NEW o, NEW to \in PeerLevels, NEW step,
         does = "level" => to \in ShareLevels,
         does \in OnObject => o \in DOMAIN objects /\ objects[o].item = e,
         o = NoObject \/ o \in DOMAIN objects,
         step = IF does = "load" THEN "load" ELSE "sent",
         Starts(does, e, o, to, step)
  PROVE  ShareJobsOK'
<1>1. PICK n : n = [nr |-> shareClicks + 1, does |-> does, item |-> e, object |-> o, to |-> to,
                    step |-> step, answer |-> rows, alone |-> sharing = {}]
  OBVIOUS
<1>2. sharing' = {[j EXCEPT !.alone = FALSE] : j \in sharing} \cup {n}
      /\ UNCHANGED <<objects, rows>>
  BY <1>1 DEF Starts, heapVars, apiVars
<1>3. n \in ShareJob /\ JobOK(n)
  BY <1>1 DEF ShareTypes, HeapOK, ShareJob, JobOK, Jobs, OnObject, ObjectNames
<1>4. ASSUME NEW j \in sharing
      PROVE [j EXCEPT !.alone = FALSE] \in ShareJob /\ JobOK([j EXCEPT !.alone = FALSE])
  BY DEF ShareTypes, ShareJobsOK, JobOK, ShareJob
<1>5. JobOK(n)' /\ \A j \in sharing : JobOK([j EXCEPT !.alone = FALSE])'
  BY <1>2, <1>3, <1>4 DEF JobOK
<1> QED BY <1>2, <1>3, <1>4, <1>5 DEF ShareJobsOK

LEMMA JobsKept ==
  ASSUME ShareJobsOK, HeapGrows, sharing' \subseteq sharing
  PROVE  ShareJobsOK'
BY DEF ShareJobsOK, JobOK, HeapGrows

LEMMA JobMoves ==
  ASSUME ShareJobsOK, HeapGrows, NEW j \in sharing, NEW c, c \in ShareJob,
         c.does = j.does, c.item = j.item, c.object = j.object, c.to = j.to,
         c.step \in {"load", "loaded"} <=> (j.step \in {"load", "loaded"} \/ c.step = "load"),
         c.step = "load" => j.does \in {"peer", "create", "delete"},
         c.step # "sent", sharing' = (sharing \ {j}) \cup {c}
  PROVE  ShareJobsOK'
<1>1. \A i \in sharing : i \in ShareJob /\ JobOK(i)
  BY DEF ShareJobsOK
<1>2. JobOK(c)'
  BY <1>1 DEF JobOK, HeapGrows, ShareJob
<1>3. \A i \in sharing : JobOK(i)'
  BY <1>1 DEF JobOK, HeapGrows
<1> QED BY <1>1, <1>2, <1>3 DEF ShareJobsOK

\* Dialogs and list stay well typed when objects are made and one of them is shown.
LEMMA DialogSet ==
  ASSUME DialogsOK, HeapGrows, NEW k \in Kinds, NEW d \in DialogType,
         d.object = NoObject \/ (d.object \in DOMAIN objects' /\ Kind(objects'[d.object].item) = k),
         dialog' = [dialog EXCEPT ![k] = d]
  PROVE  DialogsOK'
BY DEF DialogsOK, HeapGrows

LEMMA DialogsKept ==
  ASSUME DialogsOK, HeapGrows, UNCHANGED dialog
  PROVE  DialogsOK'
BY DEF DialogsOK, HeapGrows

LEMMA EntriesKept ==
  ASSUME HeapOK, HeapGrows, made' \in Nat, UNCHANGED entry
  PROVE  HeapOK'
<1>1. entry' \in [Shareable -> DOMAIN objects' \cup {NoObject}]
  BY DEF HeapOK, HeapGrows
<1>2. \A e \in Shareable : entry'[e] # NoObject => objects'[entry'[e]].item = e
  BY DEF HeapOK, HeapGrows
<1> QED BY <1>1, <1>2 DEF HeapOK, HeapGrows, ObjectNames

LEMMA EntrySet ==
  ASSUME HeapOK, HeapGrows, made' \in Nat, NEW e \in Shareable, NEW o \in DOMAIN objects',
         objects'[o].item = e, Listed(e, o)
  PROVE  HeapOK'
<1>1. entry' = [entry EXCEPT ![e] = IF entry[e] = NoObject THEN NoObject ELSE o]
  BY DEF Listed
<1>2. entry' \in [Shareable -> DOMAIN objects' \cup {NoObject}]
  BY <1>1 DEF HeapOK, HeapGrows
<1>3. \A x \in Shareable : entry'[x] # NoObject => objects'[entry'[x]].item = x
  BY <1>1 DEF HeapOK, HeapGrows
<1> QED BY <1>2, <1>3 DEF HeapOK, HeapGrows, ObjectNames

LEMMA KindOf ==
  /\ \A e \in Shareable : Kind(e) \in Kinds
  /\ \A e \in SharedFolders : e \in Shareable /\ Kind(e) = "folder"
  /\ \A e \in SharedDocs : e \in Shareable /\ Kind(e) = "document"
BY ShareAssumption DEF Kind, Kinds, Shareable

\* What an answer says of an item, and a change of an object, are objects.
LEMMA ObjectTyped ==
  /\ \A e \in Shareable, row \in Row : Object(e, row) \in ObjectType /\ Object(e, row).item = e
  /\ \A o \in ObjectType : /\ o.item \in Shareable
                           /\ \A c \in Nat : [o EXCEPT !.code = c] \in ObjectType
                           /\ \A l \in ShareLevels : [o EXCEPT !.level = l] \in ObjectType
                           /\ \A l \in PeerLevels : [o EXCEPT !.peer = l] \in ObjectType
BY DEF Object, ObjectType, Row, PeerLevels

\* The types hold at the start, and every action keeps them.
LEMMA ShareInitTypes ==
  ASSUME ShareInit
  PROVE  ShareTypes
<1>1. PICK present \in Existing :
        /\ rows = [e \in Shareable |-> [exists |-> e \in present, code |-> NoCode,
                                        level |-> "View", peer |-> "View"]]
        /\ objects = [o \in {<<e, 0, 1>> : e \in present} |-> Object(o[1], rows[o[1]])]
        /\ entry = [e \in Shareable |-> IF e \in present THEN <<e, 0, 1>> ELSE NoObject]
  BY DEF ShareInit
<1>2. present \subseteq Shareable
  BY ShareAssumption
<1>3. rows \in [Shareable -> Row]
  BY <1>1 DEF Row, NoCode, ShareLevels, PeerLevels
<1>4. issuedFor \in Seq(Shareable) /\ shareClicks \in Nat /\ ShareJobsOK /\ made = 0
  BY DEF ShareInit, ShareJobsOK
<1>5. Closed \in DialogType /\ Closed.object = NoObject
  BY DEF Closed, DialogType, NoCode, ShareLevels
<1>6. DialogsOK
  BY <1>5 DEF ShareInit, DialogsOK, Kinds
<1>7. ASSUME NEW e \in present
      PROVE  /\ <<e, 0, 1>> \in DOMAIN objects /\ objects[<<e, 0, 1>>] = Object(e, rows[e])
             /\ objects[<<e, 0, 1>>] \in ObjectType /\ objects[<<e, 0, 1>>].item = e
             /\ <<e, 0, 1>> \in Shareable \X Nat \X Nat /\ <<e, 0, 1>>[2] <= made
  BY <1>1, <1>2, <1>3, <1>4, ObjectTyped
<1>8. DOMAIN objects = {<<e, 0, 1>> : e \in present}
  BY <1>1
<1>9. objects \in [DOMAIN objects -> ObjectType]
      /\ \A o \in DOMAIN objects : o \in Shareable \X Nat \X Nat /\ o[2] <= made
  <2>1. \A o \in DOMAIN objects : \E e \in present : o = <<e, 0, 1>>
    BY <1>8
  <2>2. \A o \in DOMAIN objects : objects[o] \in ObjectType
    BY <1>7, <2>1
  <2>3. objects = [o \in DOMAIN objects |-> objects[o]]
    BY <1>1
  <2>4. \A o \in DOMAIN objects : o \in Shareable \X Nat \X Nat /\ o[2] <= made
    BY <1>7, <2>1
  <2> QED BY <2>2, <2>3, <2>4
<1>10. /\ entry \in [Shareable -> DOMAIN objects \cup {NoObject}]
       /\ \A e \in Shareable : entry[e] # NoObject => objects[entry[e]].item = e
  BY <1>1, <1>7
<1> QED BY <1>3, <1>4, <1>6, <1>9, <1>10 DEF ShareTypes, HeapOK

LEMMA FolderOpened ==
  ASSUME ShareTypes, NEW e \in Shareable, OpenShareFolderModal(e)
  PROVE  ShareTypes'
<1> DEFINE d == [Closed EXCEPT !.open = TRUE, !.object = entry[e], !.code = objects[entry[e]].code]
<1>1. /\ e \in SharedFolders /\ entry[e] \in DOMAIN objects /\ entry[e] # NoObject
      /\ objects[entry[e]] \in ObjectType /\ objects[entry[e]].item = e
  BY DEF OpenShareFolderModal, ShareTypes, HeapOK
<1>2. HeapGrows
  BY HeapStays DEF OpenShareFolderModal, ShareTypes, Starts, heapVars
<1>3. /\ UNCHANGED <<rows, issuedFor, entry, made>> /\ shareClicks' = shareClicks + 1
  BY DEF OpenShareFolderModal, Starts, heapVars, apiVars, ShareClick
<1>4. HeapOK'
  BY <1>2, <1>3, EntriesKept DEF ShareTypes, HeapOK
<1>5. CASE objects[entry[e]].code # NoCode
  <2>1. d \in DialogType /\ d.object = entry[e]
    BY <1>1 DEF DialogType, Closed, ShareLevels, ObjectType, ShareTypes, HeapOK
  <2>2. dialog' = [dialog EXCEPT !["folder"] = d] /\ UNCHANGED <<sharing, objects>>
    BY <1>5 DEF OpenShareFolderModal, heapVars
  <2> HIDE DEF d
  <2>3. DialogsOK'
    BY <1>1, <1>2, <2>1, <2>2, DialogSet, KindOf DEF ShareTypes, Kinds
  <2>4. ShareJobsOK'
    BY <1>2, <2>2, JobsKept DEF ShareTypes
  <2> QED BY <1>3, <1>4, <2>3, <2>4 DEF ShareTypes
<1>6. CASE objects[entry[e]].code = NoCode
  <2>1. Starts("open", e, entry[e], "View", "sent") /\ UNCHANGED dialog
    BY <1>6 DEF OpenShareFolderModal
  <2>2. ShareJobsOK'
    BY <1>1, <2>1, ShareJobBegins DEF Jobs, PeerLevels, ShareLevels
  <2> QED BY <1>2, <1>3, <1>4, <2>1, <2>2, DialogsKept DEF ShareTypes
<1> QED BY <1>5, <1>6

LEMMA DocOpened ==
  ASSUME ShareTypes, NEW e \in Shareable, OpenShareModal(e)
  PROVE  ShareTypes'
<1> DEFINE o == objects[entry[e]]
           selected == [dialog["document"] EXCEPT !.object = entry[e], !.level = o.level,
                                                  !.dated = (e \in unlisted)]
           d == [selected EXCEPT !.open = TRUE, !.code = o.code, !.mixed = FALSE]
           w == [selected EXCEPT !.mixed = TRUE]
<1>1. /\ e \in SharedDocs /\ entry[e] \in DOMAIN objects /\ entry[e] # NoObject
      /\ o \in ObjectType /\ o.item = e
  BY DEF OpenShareModal, ShareTypes, HeapOK
<1>2. HeapGrows
  BY HeapStays DEF OpenShareModal, ShareTypes, Starts, heapVars
<1>3. /\ UNCHANGED <<rows, issuedFor, entry, made>> /\ shareClicks' = shareClicks + 1
      /\ UNCHANGED objects
  BY DEF OpenShareModal, Starts, heapVars, apiVars, ShareClick
<1>4. HeapOK'
  BY <1>2, <1>3, EntriesKept DEF ShareTypes, HeapOK
<1>5. /\ d \in DialogType /\ d.object = entry[e] /\ w \in DialogType /\ w.object = entry[e]
  <2>1. dialog["document"] \in DialogType
    BY DEF ShareTypes, DialogsOK, Kinds
  <2>2. entry[e] \in ObjectNames \cup {NoObject} /\ o.level \in ShareLevels /\ o.code \in Nat
    BY <1>1 DEF ShareTypes, HeapOK, ObjectNames, ObjectType
  <2>3. (e \in unlisted) \in BOOLEAN
    OBVIOUS
  <2> HIDE DEF o
  <2>4. selected \in DialogType /\ selected.object = entry[e]
    BY <2>1, <2>2, <2>3, ZenonT(30) DEF DialogType, ObjectNames
  <2> HIDE DEF selected
  <2> QED BY <2>2, <2>4 DEF DialogType
<1>6. CASE o.code # NoCode
  <2>2. dialog' = [dialog EXCEPT !["document"] = d] /\ UNCHANGED <<sharing, objects>>
    BY <1>6 DEF OpenShareModal, heapVars
  <2> HIDE DEF d, w, selected, o
  <2>3. DialogsOK'
    BY <1>1, <1>2, <1>3, <1>5, <2>2, DialogSet, KindOf DEF ShareTypes, Kinds, o
  <2>4. ShareJobsOK'
    BY <1>2, <2>2, JobsKept DEF ShareTypes
  <2> QED BY <1>3, <1>4, <2>3, <2>4 DEF ShareTypes
<1>7. CASE o.code = NoCode
  <2>1. Starts("open", e, entry[e], "View", "sent") /\ dialog' = [dialog EXCEPT !["document"] = w]
    BY <1>7 DEF OpenShareModal
  <2> HIDE DEF d, w, selected, o
  <2>2. ShareJobsOK'
    BY <1>1, <2>1, ShareJobBegins DEF Jobs, PeerLevels, ShareLevels, o
  <2>3. DialogsOK'
    BY <1>1, <1>2, <1>3, <1>5, <2>1, DialogSet, KindOf DEF ShareTypes, Kinds, o
  <2> QED BY <1>3, <1>4, <2>2, <2>3 DEF ShareTypes
<1> QED BY <1>6, <1>7

LEMMA DialogClosed ==
  ASSUME ShareTypes, NEW k \in Kinds, CloseShareModal(k)
  PROVE  ShareTypes'
<1>1. HeapGrows
  BY HeapStays DEF CloseShareModal, ShareTypes, heapVars
<1>2. /\ UNCHANGED <<rows, issuedFor, entry, made, objects, sharing, shareClicks>>
  BY DEF CloseShareModal, heapVars, apiVars
<1>3. HeapOK'
  BY <1>1, <1>2, EntriesKept DEF ShareTypes, HeapOK
<1>4. ShareJobsOK'
  BY <1>1, <1>2, JobsKept DEF ShareTypes
<1>5. Closed \in DialogType /\ Closed.object = NoObject
  BY DEF Closed, DialogType, NoCode, ShareLevels
<1>6. dialog[k] \in DialogType /\ [dialog[k] EXCEPT !.open = FALSE] \in DialogType
      /\ [dialog[k] EXCEPT !.open = FALSE].object = dialog[k].object
  BY DEF ShareTypes, DialogsOK, DialogType
<1>7. PICK d : d = IF k = "document" THEN Closed ELSE [dialog[k] EXCEPT !.open = FALSE]
  OBVIOUS
<1>8. dialog' = [dialog EXCEPT ![k] = d]
  BY <1>7 DEF CloseShareModal
<1>9. d \in DialogType /\ d.object \in {NoObject, dialog[k].object}
  BY <1>5, <1>6, <1>7
<1>10. DialogsOK'
  BY <1>1, <1>2, <1>8, <1>9, DialogSet DEF ShareTypes, DialogsOK
<1> QED BY <1>2, <1>3, <1>4, <1>10 DEF ShareTypes

\* A job that starts from a dialog or without one.
LEMMA JobStarted ==
  ASSUME ShareTypes, NEW does \in Jobs, NEW e \in Shareable, NEW o, NEW to \in PeerLevels, NEW step,
         does = "level" => to \in ShareLevels,
         does \in OnObject => o \in DOMAIN objects /\ objects[o].item = e,
         o = NoObject \/ o \in DOMAIN objects,
         step = IF does = "load" THEN "load" ELSE "sent",
         Starts(does, e, o, to, step), UNCHANGED dialog
  PROVE  ShareTypes'
<1>1. HeapGrows
  BY HeapStays DEF ShareTypes, Starts, heapVars
<1>2. UNCHANGED <<rows, issuedFor, entry, made>> /\ shareClicks' = shareClicks + 1
  BY DEF Starts, heapVars, apiVars, ShareClick
<1>3. HeapOK'
  BY <1>1, <1>2, EntriesKept DEF ShareTypes, HeapOK
<1>4. ShareJobsOK'
  BY ShareJobBegins
<1> QED BY <1>1, <1>2, <1>3, <1>4, DialogsKept DEF ShareTypes

\* A job has an item, a level and an answer.
LEMMA JobTyped ==
  ASSUME ShareTypes, NEW j \in sharing
  PROVE  /\ j \in ShareJob /\ JobOK(j) /\ j.item \in Shareable /\ j.to \in PeerLevels
         /\ j.answer \in [Shareable -> Row] /\ j.answer[j.item] \in Row
         /\ j.answer[j.item].code \in Nat /\ Kind(j.item) \in Kinds
BY KindOf DEF ShareTypes, ShareJobsOK, ShareJob, Row

LEMMA RequestTyped ==
  ASSUME ShareTypes, NEW j \in sharing, NEW row \in Row
  PROVE  j.step = "sent" => Requested(row, j) \in Row
<1>1. Len(issuedFor) + 1 \in Nat
  BY DEF ShareTypes
<1>2. \A c \in Nat : [row EXCEPT !.code = c] \in Row
  BY DEF Row
<1>3. \A l \in ShareLevels : [row EXCEPT !.level = l] \in Row
  BY DEF Row
<1>4. \A l \in PeerLevels : [row EXCEPT !.peer = l] \in Row
  BY DEF Row
<1>5. \A b \in BOOLEAN : [row EXCEPT !.exists = b] \in Row
  BY DEF Row
<1>6. (j.does = "create") \in BOOLEAN
  OBVIOUS
<1>7. j.does \in Jobs /\ j.to \in PeerLevels /\ (j.does = "level" => j.to \in ShareLevels)
  BY JobTyped DEF ShareJob, JobOK
<1> QED BY <1>1, <1>2, <1>3, <1>4, <1>5, <1>6, <1>7 DEF Requested, Jobs

LEMMA Served ==
  ASSUME ShareTypes, NEW j \in sharing, Serve(j)
  PROVE  ShareTypes'
<1>1. HeapGrows /\ UNCHANGED <<objects, made, entry, shareClicks>> /\ UNCHANGED dialog
  BY HeapStays DEF Serve, ShareTypes, heapVars
<1>2. HeapOK' /\ DialogsOK'
  BY <1>1, EntriesKept, DialogsKept DEF ShareTypes, HeapOK
<1>3. j \in ShareJob /\ JobOK(j) /\ rows \in [Shareable -> Row] /\ j.item \in Shareable
  BY JobTyped DEF ShareTypes
<1>4. CASE j.step = "sent"
  <2>1. rows' = [rows EXCEPT ![j.item] = Requested(rows[j.item], j)]
        /\ issuedFor' = (IF j.does \in {"open", "code"} THEN Append(issuedFor, j.item) ELSE issuedFor)
        /\ Becomes(j, [j EXCEPT !.step = "done", !.answer = rows'])
    BY <1>4 DEF Serve
  <2>2. rows' \in [Shareable -> Row]
    BY <1>3, <1>4, <2>1, RequestTyped
  <2>3. issuedFor' \in Seq(Shareable)
    <3>1. issuedFor \in Seq(Shareable) /\ Append(issuedFor, j.item) \in Seq(Shareable)
      BY <1>3 DEF ShareTypes
    <3> QED BY <2>1, <3>1
  <2>4. PICK c : c = [j EXCEPT !.step = "done", !.answer = rows']
    OBVIOUS
  <2>5. c \in ShareJob /\ c.step = "done" /\ c.does = j.does /\ c.item = j.item /\ c.object = j.object
        /\ c.to = j.to
    BY <1>3, <2>2, <2>4 DEF ShareJob
  <2>6. sharing' = (sharing \ {j}) \cup {c}
    BY <2>1, <2>4 DEF Becomes
  <2>7. ShareJobsOK'
    BY <1>1, <1>4, <2>5, <2>6, JobMoves DEF ShareTypes
  <2> QED BY <1>1, <1>2, <2>2, <2>3, <2>7 DEF ShareTypes
<1>5. CASE j.step = "load"
  <2>1. Becomes(j, [j EXCEPT !.step = "loaded", !.answer = rows]) /\ UNCHANGED apiVars
    BY <1>5 DEF Serve
  <2>4. PICK c : c = [j EXCEPT !.step = "loaded", !.answer = rows]
    OBVIOUS
  <2>5. c \in ShareJob /\ c.step = "loaded" /\ c.does = j.does /\ c.item = j.item /\ c.object = j.object
        /\ c.to = j.to
    BY <1>3, <2>4 DEF ShareJob
  <2>6. sharing' = (sharing \ {j}) \cup {c}
    BY <2>1, <2>4 DEF Becomes
  <2>7. ShareJobsOK'
    BY <1>1, <1>5, <2>5, <2>6, JobMoves DEF ShareTypes
  <2> QED BY <1>1, <1>2, <2>1, <2>7 DEF ShareTypes, apiVars
<1> QED BY <1>4, <1>5 DEF Serve

\* Selected leaves a dialog of the kind of e with an object of e.
LEMMA SelectedTyped ==
  ASSUME NEW d \in DialogType, NEW o \in ObjectNames \cup {NoObject}, NEW e
  PROVE  Selected(d, o, e) \in DialogType /\ Selected(d, o, e).object = o
         /\ Selected(d, o, e).open = d.open /\ Selected(d, o, e).code = d.code
         /\ Selected(d, o, e).level = d.level /\ Selected(d, o, e).dated = d.dated
         /\ (Selected(d, o, e).mixed
               <=> d.mixed \/ d.object = NoObject \/ objects[d.object].item # e)
<1>1. d.mixed \in BOOLEAN
  BY DEF DialogType
<1>2. PICK b \in BOOLEAN : b = (d.mixed \/ d.object = NoObject \/ objects[d.object].item # e)
  BY <1>1
<1>3. Selected(d, o, e) = [d EXCEPT !.object = o, !.mixed = b]
  BY <1>2 DEF Selected
<1> QED BY <1>2, <1>3 DEF DialogType, ObjectNames

\* The dialog of kind k shows o with the code c; it shows o, with the code it had.
CodedNow(k, o, c, opens) ==
  /\ \A q \in Kinds \ {k} : dialog'[q] = dialog[q]
  /\ dialog'[k].object = o /\ dialog'[k].code = c /\ dialog'[k].mixed = FALSE
  /\ dialog'[k].open <=> dialog[k].open \/ opens
  /\ dialog'[k].level = dialog[k].level /\ dialog'[k].dated = dialog[k].dated

SelectedNow(k, o, e) ==
  /\ \A q \in Kinds \ {k} : dialog'[q] = dialog[q]
  /\ dialog'[k].object = o /\ dialog'[k].code = dialog[k].code
  /\ dialog'[k].open = dialog[k].open
  /\ dialog'[k].mixed <=> dialog[k].mixed \/ dialog[k].object = NoObject
                            \/ objects[dialog[k].object].item # e
  /\ dialog'[k].level = dialog[k].level /\ (dialog[k].dated => dialog'[k].dated)

LEMMA DialogCoded ==
  ASSUME DialogsOK, HeapGrows, NEW k \in Kinds, NEW o \in DOMAIN objects', NEW c \in Nat,
         Kind(objects'[o].item) = k, NEW does,
         dialog' = [dialog EXCEPT ![k] = Coded(@, o, c, does = "open")]
  PROVE  DialogsOK' /\ CodedNow(k, o, c, does = "open")
<1>1. PICK opens \in BOOLEAN : opens = (does = "open")
  OBVIOUS
<1>2. PICK q \in DialogType : q = dialog[k]
  BY DEF DialogsOK
<1>3. o \in ObjectNames
  BY DEF HeapGrows
<1>4. PICK d : d = Coded(q, o, c, opens)
  OBVIOUS
<1>5. d \in DialogType /\ d.object = o /\ (d.open <=> q.open \/ opens) /\ d.code = c
      /\ d.level = q.level /\ d.dated = q.dated /\ d.mixed = FALSE
  <2>1. q.open \in BOOLEAN
    BY <1>2 DEF DialogType
  <2>2. PICK x \in BOOLEAN : x = (q.open \/ opens)
    BY <1>1, <2>1
  <2>3. d = [q EXCEPT !.open = x, !.object = o, !.code = c, !.mixed = FALSE]
    BY <1>4, <2>2 DEF Coded
  <2>4. d \in DialogType
    BY <1>2, <1>3, <2>2, <2>3 DEF DialogType, ObjectNames
  <2> QED BY <1>2, <2>2, <2>3, <2>4 DEF DialogType
<1>6. dialog' = [dialog EXCEPT ![k] = d]
  BY <1>1, <1>2, <1>4
<1>7. DialogsOK'
  BY <1>5, <1>6, DialogSet
<1>8. dialog'[k] = d /\ \A x \in Kinds \ {k} : dialog'[x] = dialog[x]
  BY <1>6 DEF DialogsOK
<1>9. CodedNow(k, o, c, opens)
  BY <1>2, <1>5, <1>8 DEF CodedNow
<1> QED BY <1>1, <1>7, <1>9 DEF CodedNow

LEMMA DialogSelected ==
  ASSUME DialogsOK, HeapGrows, NEW k \in Kinds, NEW o \in DOMAIN objects',
         Kind(objects'[o].item) = k, NEW e,
         \/ dialog' = [dialog EXCEPT ![k] = Selected(@, o, e)]
         \/ dialog' = [dialog EXCEPT ![k] = [Selected(@, o, e) EXCEPT !.dated = TRUE]]
  PROVE  DialogsOK' /\ SelectedNow(k, o, e)
<1>1. PICK q \in DialogType : q = dialog[k]
  BY DEF DialogsOK
<1>2. o \in ObjectNames
  BY DEF HeapGrows
<1>3. PICK s : s = Selected(q, o, e)
  OBVIOUS
<1>4. s \in DialogType /\ s.object = o /\ s.open = q.open /\ s.code = q.code
      /\ s.level = q.level /\ s.dated = q.dated
      /\ (s.mixed <=> q.mixed \/ q.object = NoObject \/ objects[q.object].item # e)
  BY <1>2, <1>3, SelectedTyped
<1>5. PICK d : d \in {s, [s EXCEPT !.dated = TRUE]} /\ dialog' = [dialog EXCEPT ![k] = d]
  BY <1>1, <1>3
<1>6. d \in DialogType /\ d.object = o /\ d.open = q.open /\ d.code = q.code
      /\ d.level = q.level /\ (q.dated => d.dated)
      /\ (d.mixed <=> q.mixed \/ q.object = NoObject \/ objects[q.object].item # e)
  BY <1>4, <1>5 DEF DialogType
<1>7. DialogsOK'
  BY <1>5, <1>6, DialogSet
<1>8. dialog'[k] = d /\ \A x \in Kinds \ {k} : dialog'[x] = dialog[x]
  BY <1>5 DEF DialogsOK
<1>9. SelectedNow(k, o, e)
  BY <1>1, <1>6, <1>8 DEF SelectedNow
<1> QED BY <1>7, <1>9

\* What the handlers leave when they return.
LEMMA FolderCoded ==
  ASSUME ShareTypes, NEW j \in sharing, FolderCodeReturns(j)
  PROVE  /\ ShareTypes' /\ HeapGrows /\ j.item \in SharedFolders
         /\ CodedNow("folder", Name(j.item, 1), j.answer[j.item].code, j.does = "open")
         /\ \A o \in DOMAIN objects : objects'[o] = objects[o]
         /\ Name(j.item, 1) \in DOMAIN objects'
         /\ objects'[Name(j.item, 1)] = Object(j.item, j.answer[j.item])
         /\ entry[j.item] # NoObject =>
              /\ Name(j.item, 2) \in DOMAIN objects'
              /\ objects'[Name(j.item, 2)] = [objects[entry[j.item]] EXCEPT !.code = j.answer[j.item].code]
         /\ DOMAIN objects' \subseteq DOMAIN objects \cup {Name(j.item, 1), Name(j.item, 2)}
<1> DEFINE e == j.item
           code == j.answer[e].code
           copied == IF entry[e] = NoObject THEN {} ELSE {Name(e, 2)}
<1>1. PICK n, t : n = Name(e, 1) /\ t = Name(e, 2)
  OBVIOUS
<1>2. e \in Shareable /\ j.answer[e] \in Row /\ code \in Nat /\ e \in SharedFolders
  BY JobTyped DEF FolderCodeReturns
<1>3. /\ n \in ObjectNames /\ t \in ObjectNames /\ n # t /\ n # NoObject
      /\ n \notin DOMAIN objects /\ t \notin DOMAIN objects
  BY <1>1, <1>2, FreshName DEF ShareTypes
<1>4. /\ made' = made + 1 /\ made \in Nat /\ made' \in Nat
      /\ objects' = [o \in DOMAIN objects \cup ({n} \cup copied) |->
           IF o \in {n} \cup copied
           THEN (IF o = n THEN Object(e, j.answer[e]) ELSE [objects[entry[e]] EXCEPT !.code = code])
           ELSE objects[o]]
  BY <1>1 DEF FolderCodeReturns, WithObjects, ShareTypes, HeapOK
<1>5. DOMAIN objects' = DOMAIN objects \cup ({n} \cup copied)
  BY <1>4
<1>6. \A o \in DOMAIN objects : objects'[o] = objects[o]
  BY <1>1, <1>3, <1>4
<1>7. n \in DOMAIN objects' /\ objects'[n] = Object(e, j.answer[e])
  BY <1>4
<1>8. entry[e] # NoObject =>
        t \in DOMAIN objects' /\ objects'[t] = [objects[entry[e]] EXCEPT !.code = code]
  BY <1>1, <1>3, <1>4
<1>9. entry[e] # NoObject => entry[e] \in DOMAIN objects /\ objects[entry[e]].item = e
  BY <1>2 DEF ShareTypes, HeapOK
<1>10. \A o \in DOMAIN objects : objects[o] \in ObjectType
  BY DEF ShareTypes, HeapOK
<1>11. objects'[n] \in ObjectType /\ objects'[n].item = e
  BY <1>2, <1>7, ObjectTyped
<1>12. entry[e] # NoObject => objects'[t] \in ObjectType /\ objects'[t].item = e
  <2>1. ASSUME entry[e] # NoObject PROVE objects'[t] \in ObjectType /\ objects'[t].item = e
    <3>1. PICK b \in ObjectType : b = objects[entry[e]] /\ b.item = e
      BY <1>9, <1>10, <2>1
    <3>2. objects'[t] = [b EXCEPT !.code = code]
      BY <1>8, <2>1, <3>1
    <3> QED BY <1>2, <3>1, <3>2, ObjectTyped DEF ObjectType
  <2> QED BY <2>1
<1>13. \A o \in DOMAIN objects' : objects'[o] \in ObjectType
  BY <1>1, <1>5, <1>6, <1>10, <1>11, <1>12
<1>14. objects' \in [DOMAIN objects' -> ObjectType]
  <2>1. objects' = [o \in DOMAIN objects' |-> objects'[o]]
    BY <1>4
  <2> QED BY <1>13, <2>1
<1>15. HeapGrows
  <2>1. n[2] <= made' /\ t[2] <= made'
    BY <1>1, <1>2, <1>4, FreshName DEF ShareTypes
  <2>2. \A o \in DOMAIN objects : o \in ObjectNames /\ o[2] <= made'
    BY <1>4, NamesKept DEF ShareTypes
  <2>3. \A o \in DOMAIN objects' : o \in ObjectNames /\ o[2] <= made'
    BY <1>1, <1>3, <1>5, <2>1, <2>2
  <2> QED BY <1>5, <1>6, <1>14, <2>3 DEF HeapGrows
<1>16. HeapOK'
  <2>1. CASE entry[e] = NoObject
    <3>1. UNCHANGED entry
      BY <1>1, <1>2, <2>1 DEF FolderCodeReturns, Listed, ShareTypes, HeapOK
    <3> QED BY <1>4, <1>15, <3>1, EntriesKept DEF ShareTypes
  <2>2. CASE entry[e] # NoObject
    <3>1. Listed(e, t)
      BY <1>1 DEF FolderCodeReturns
    <3> QED BY <1>2, <1>4, <1>8, <1>12, <1>15, <2>2, <3>1, EntrySet DEF ShareTypes
  <2> QED BY <2>1, <2>2
<1>17. DialogsOK' /\ CodedNow("folder", n, code, j.does = "open")
  <2>1. PICK c \in Nat : c = code
    BY <1>2
  <2>2. dialog' = [dialog EXCEPT !["folder"] = Coded(@, n, c, j.does = "open")]
    BY <1>1, <2>1 DEF FolderCodeReturns
  <2>3. "folder" \in Kinds /\ Kind(objects'[n].item) = "folder"
    BY <1>2, <1>11, KindOf DEF Kinds
  <2>4. DialogsOK' /\ CodedNow("folder", n, c, j.does = "open")
    BY <1>7, <1>15, <2>2, <2>3, DialogCoded DEF ShareTypes
  <2> QED BY <2>1, <2>4
<1>18. ShareJobsOK' /\ UNCHANGED <<rows, issuedFor, shareClicks>>
  BY <1>15, JobsKept DEF FolderCodeReturns, ShareTypes, apiVars
<1> QED BY <1>1, <1>2, <1>5, <1>6, <1>7, <1>8, <1>15, <1>16, <1>17, <1>18 DEF ShareTypes

\* A step makes one object, and writes what it is into x too.
Makes(e, x, v) ==
  /\ made' = made + 1
  /\ objects' = [o \in DOMAIN objects \cup {Name(e, 1), x} |->
                   IF o \in {Name(e, 1), x} THEN v ELSE objects[o]]

Made(e, x, v) ==
  /\ HeapGrows /\ made' \in Nat
  /\ DOMAIN objects' = DOMAIN objects \cup {Name(e, 1)} /\ Name(e, 1) \notin DOMAIN objects
  /\ objects'[Name(e, 1)] = v /\ objects'[x] = v
  /\ \A o \in DOMAIN objects \ {x} : objects'[o] = objects[o]

LEMMA OneMade ==
  ASSUME HeapOK, NEW e \in Shareable, NEW x, NEW v \in ObjectType, Makes(e, x, v),
         x = Name(e, 1) \/ (x \in DOMAIN objects /\ objects[x].item = v.item)
  PROVE  Made(e, x, v)
<1>1. PICK n : n = Name(e, 1)
  OBVIOUS
<1>2. n \in ObjectNames /\ n \notin DOMAIN objects
  BY <1>1, FreshName
<1>3. made' = made + 1 /\ made' \in Nat
  BY DEF Makes, HeapOK
<1>4. n[2] <= made'
  BY <1>1, <1>3, FreshName
<1>5. objects' = [o \in DOMAIN objects \cup {n, x} |-> IF o \in {n, x} THEN v ELSE objects[o]]
  BY <1>1 DEF Makes
<1>6. /\ DOMAIN objects' = DOMAIN objects \cup {n} /\ objects'[n] = v /\ objects'[x] = v
      /\ \A o \in DOMAIN objects \ {x} : objects'[o] = objects[o]
  BY <1>1, <1>2, <1>5
<1>7. \A o \in DOMAIN objects : objects'[o].item = objects[o].item
  BY <1>1, <1>2, <1>6
<1>8. \A o \in DOMAIN objects' : objects'[o] \in ObjectType
  <2>1. \A o \in DOMAIN objects : objects[o] \in ObjectType
    BY DEF HeapOK
  <2> QED BY <1>6, <2>1
<1>9. objects' \in [DOMAIN objects' -> ObjectType]
  <2>1. objects' = [o \in DOMAIN objects' |-> objects'[o]]
    BY <1>5
  <2> QED BY <1>8, <2>1
<1>10. \A o \in DOMAIN objects' : o \in ObjectNames /\ o[2] <= made'
  BY <1>2, <1>3, <1>4, <1>6, NamesKept
<1> QED BY <1>1, <1>2, <1>3, <1>6, <1>7, <1>9, <1>10 DEF HeapGrows, Made

LEMMA DocCoded ==
  ASSUME ShareTypes, NEW j \in sharing, DocCodeReturns(j)
  PROVE  /\ ShareTypes' /\ j.item \in SharedDocs
         /\ Made(j.item, Name(j.item, 1), Object(j.item, j.answer[j.item]))
         /\ CodedNow("document", Name(j.item, 1), j.answer[j.item].code, j.does = "open")
<1>1. PICK e, n, v, c : /\ e = j.item /\ n = Name(e, 1) /\ v = Object(e, j.answer[e])
                        /\ c = j.answer[e].code
  OBVIOUS
<1>2. e \in Shareable /\ e \in SharedDocs /\ c \in Nat /\ v \in ObjectType /\ v.item = e
  BY <1>1, JobTyped, ObjectTyped DEF DocCodeReturns
<1>3. Makes(e, n, v)
  BY <1>1 DEF DocCodeReturns, WithObjects, Makes
<1>4. Made(e, n, v)
  BY <1>1, <1>2, <1>3, OneMade DEF ShareTypes
<1>5. HeapGrows /\ made' \in Nat /\ n \in DOMAIN objects' /\ objects'[n] = v
  BY <1>1, <1>4 DEF Made
<1>6. HeapOK'
  <2>1. CASE j.does = "code"
    <3>1. Listed(e, n)
      BY <1>1, <2>1 DEF DocCodeReturns
    <3> QED BY <1>2, <1>5, <3>1, EntrySet DEF ShareTypes
  <2>2. CASE j.does # "code"
    BY <1>5, <2>2, EntriesKept DEF ShareTypes, DocCodeReturns
  <2> QED BY <2>1, <2>2
<1>7. DialogsOK' /\ CodedNow("document", n, c, j.does = "open")
  <2>1. dialog' = [dialog EXCEPT !["document"] = Coded(@, n, c, j.does = "open")]
    BY <1>1 DEF DocCodeReturns
  <2>2. "document" \in Kinds /\ Kind(objects'[n].item) = "document"
    BY <1>2, <1>5, KindOf DEF Kinds
  <2> QED BY <1>2, <1>5, <2>1, <2>2, DialogCoded DEF ShareTypes
<1>8. ShareJobsOK' /\ UNCHANGED <<rows, issuedFor, shareClicks>>
  BY <1>5, JobsKept DEF DocCodeReturns, ShareTypes, apiVars
<1> QED BY <1>1, <1>2, <1>4, <1>6, <1>7, <1>8 DEF ShareTypes

LEMMA LevelReturned ==
  ASSUME ShareTypes, NEW j \in sharing, LevelReturns(j)
  PROVE  /\ ShareTypes' /\ j.object \in DOMAIN objects
         /\ Made(j.item, j.object, [objects[j.object] EXCEPT !.level = j.to])
         /\ SelectedNow(Kind(j.item), Name(j.item, 1), j.item)
<1>1. PICK e, n, x, v : /\ e = j.item /\ n = Name(e, 1) /\ x = j.object
                        /\ v = [objects[j.object] EXCEPT !.level = j.to]
  OBVIOUS
<1>2. e \in Shareable /\ x \in DOMAIN objects /\ objects[x].item = e /\ j.to \in ShareLevels
      /\ Kind(e) \in Kinds
  BY <1>1, JobTyped DEF LevelReturns, JobOK, OnObject
<1>3. objects[x] \in ObjectType
  BY <1>2 DEF ShareTypes, HeapOK
<1>4. v \in ObjectType /\ v.item = e
  BY <1>1, <1>2, <1>3 DEF ObjectType
<1>5. Makes(e, x, v)
  BY <1>1 DEF LevelReturns, WithObjects, Makes
<1>6. Made(e, x, v)
  BY <1>2, <1>4, <1>5, OneMade DEF ShareTypes
<1>7. HeapGrows /\ made' \in Nat /\ n \in DOMAIN objects' /\ objects'[n] = v
  BY <1>1, <1>6 DEF Made
<1>8. HeapOK'
  BY <1>7, EntriesKept DEF ShareTypes, LevelReturns
<1>9. DialogsOK' /\ SelectedNow(Kind(e), n, e)
  <2>1. PICK k \in Kinds : k = Kind(e)
    BY <1>2
  <2>2. dialog' = [dialog EXCEPT ![k] = [Selected(@, n, e) EXCEPT !.dated = TRUE]]
    BY <1>1, <2>1 DEF LevelReturns
  <2>3. Kind(objects'[n].item) = k
    BY <1>4, <1>7, <2>1
  <2> QED BY <1>7, <2>1, <2>2, <2>3, DialogSelected DEF ShareTypes
<1>10. ShareJobsOK' /\ UNCHANGED <<rows, issuedFor, shareClicks>>
  BY <1>7, JobsKept DEF LevelReturns, ShareTypes, apiVars
<1> QED BY <1>1, <1>2, <1>6, <1>8, <1>9, <1>10 DEF ShareTypes

LEMMA AccessReturned ==
  ASSUME ShareTypes, NEW j \in sharing, SharedAccessReturns(j)
  PROVE  /\ ShareTypes' /\ j.object \in DOMAIN objects
         /\ Made(j.item, Name(j.item, 1), [objects[j.object] EXCEPT !.peer = j.to])
         /\ SelectedNow(Kind(j.item), Name(j.item, 1), j.item)
<1>1. PICK e, n, x, v : /\ e = j.item /\ n = Name(e, 1) /\ x = j.object
                        /\ v = [objects[j.object] EXCEPT !.peer = j.to]
  OBVIOUS
<1>2. e \in Shareable /\ x \in DOMAIN objects /\ objects[x].item = e /\ j.to \in PeerLevels
      /\ Kind(e) \in Kinds
  BY <1>1, JobTyped DEF SharedAccessReturns, JobOK, OnObject
<1>3. objects[x] \in ObjectType
  BY <1>2 DEF ShareTypes, HeapOK
<1>4. v \in ObjectType /\ v.item = e
  BY <1>1, <1>2, <1>3 DEF ObjectType
<1>5. Makes(e, n, v)
  BY <1>1 DEF SharedAccessReturns, WithObjects, Makes
<1>6. Made(e, n, v)
  BY <1>1, <1>2, <1>4, <1>5, OneMade DEF ShareTypes
<1>7. HeapGrows /\ made' \in Nat /\ n \in DOMAIN objects' /\ objects'[n] = v
  BY <1>1, <1>6 DEF Made
<1>8. HeapOK'
  <2>1. Listed(e, n)
    BY <1>1 DEF SharedAccessReturns
  <2> QED BY <1>2, <1>4, <1>7, <2>1, EntrySet DEF ShareTypes
<1>9. DialogsOK' /\ SelectedNow(Kind(e), n, e)
  <2>1. PICK k \in Kinds : k = Kind(e)
    BY <1>2
  <2>2. dialog' = [dialog EXCEPT ![k] = Selected(@, n, e)]
    BY <1>1, <2>1 DEF SharedAccessReturns
  <2>3. Kind(objects'[n].item) = k
    BY <1>4, <1>7, <2>1
  <2> QED BY <1>7, <2>1, <2>2, <2>3, DialogSelected DEF ShareTypes
<1>10. ShareJobsOK'
  <2>1. PICK c : c = [j EXCEPT !.step = "load"]
    OBVIOUS
  <2>2. j \in ShareJob /\ JobOK(j) /\ j.does = "peer" /\ j.step = "done"
    BY JobTyped DEF SharedAccessReturns
  <2>3. c \in ShareJob /\ c.step = "load" /\ c.does = j.does /\ c.item = j.item
        /\ c.object = j.object /\ c.to = j.to
    BY <2>1, <2>2 DEF ShareJob
  <2>4. sharing' = (sharing \ {j}) \cup {c}
    BY <2>1 DEF SharedAccessReturns, Becomes
  <2> QED BY <1>7, <2>2, <2>3, <2>4, JobMoves DEF ShareTypes
<1>11. UNCHANGED <<rows, issuedFor, shareClicks>>
  BY DEF SharedAccessReturns, apiVars
<1> QED BY <1>1, <1>2, <1>6, <1>8, <1>9, <1>10, <1>11 DEF ShareTypes

LEMMA ProjectReturned ==
  ASSUME ShareTypes, NEW j \in sharing, ProjectReturns(j)
  PROVE  ShareTypes'
<1>1. HeapGrows /\ UNCHANGED <<rows, issuedFor, objects, made, entry, shareClicks>>
      /\ UNCHANGED dialog
  BY HeapStays DEF ProjectReturns, ShareTypes, heapVars, apiVars
<1>2. HeapOK' /\ DialogsOK'
  BY <1>1, EntriesKept, DialogsKept DEF ShareTypes, HeapOK
<1>3. PICK c : c = [j EXCEPT !.step = "load"]
  OBVIOUS
<1>4. j \in ShareJob /\ JobOK(j) /\ j.does \in {"create", "delete"} /\ j.step = "done"
  BY JobTyped DEF ProjectReturns
<1>5. c \in ShareJob /\ c.step = "load" /\ c.does = j.does /\ c.item = j.item
      /\ c.object = j.object /\ c.to = j.to
  BY <1>3, <1>4 DEF ShareJob
<1>6. sharing' = (sharing \ {j}) \cup {c}
  BY <1>3 DEF ProjectReturns, Becomes
<1>7. ShareJobsOK'
  BY <1>1, <1>4, <1>5, <1>6, JobMoves DEF ShareTypes
<1> QED BY <1>1, <1>2, <1>7 DEF ShareTypes

\* What a load leaves: new objects of what the answer has.
Renewed(j) ==
  /\ HeapGrows /\ \A o \in DOMAIN objects : objects'[o] = objects[o]
  /\ \A o \in DOMAIN objects' \ DOMAIN objects :
       o[1] \in Shareable /\ objects'[o] = Object(o[1], j.answer[o[1]])
  /\ \A e \in Shareable : j.answer[e].exists =>
       entry'[e] # NoObject /\ entry'[e] \in DOMAIN objects'
       /\ objects'[entry'[e]] = Object(e, j.answer[e])
  /\ \A e \in Shareable : ~j.answer[e].exists => entry'[e] = NoObject
  /\ IF j.does = "peer" /\ j.answer[j.item].exists
     THEN SelectedNow(Kind(j.item), entry'[j.item], j.item)
     ELSE UNCHANGED dialog

LEMMA Loaded ==
  ASSUME ShareTypes, NEW j \in sharing, LoadWorkspace(j)
  PROVE  ShareTypes' /\ Renewed(j)
<1>1. PICK present, N : /\ present = {e \in Shareable : j.answer[e].exists}
                        /\ N = {Name(e, 1) : e \in present}
  OBVIOUS
<1>2. /\ made' = made + 1
      /\ objects' = [o \in DOMAIN objects \cup N |->
                       IF o \in N THEN Object(o[1], j.answer[o[1]]) ELSE objects[o]]
      /\ entry' = [e \in Shareable |-> IF e \in present THEN Name(e, 1) ELSE NoObject]
      /\ AfterLoad(j, present) /\ sharing' = sharing \ {j}
      /\ UNCHANGED <<rows, issuedFor, shareClicks>>
  BY <1>1 DEF LoadWorkspace, WithObjects, apiVars
<1>3. \A e \in Shareable : j.answer[e] \in Row
  BY JobTyped
<1>4. made \in Nat /\ made' \in Nat
  BY <1>2 DEF ShareTypes, HeapOK
<1>5. ASSUME NEW e \in present
      PROVE  /\ e \in Shareable /\ Name(e, 1) \in N /\ Name(e, 1) \notin DOMAIN objects
             /\ Name(e, 1) \in ObjectNames /\ Name(e, 1)[2] <= made' /\ Name(e, 1) # NoObject
             /\ objects'[Name(e, 1)] = Object(e, j.answer[e])
             /\ objects'[Name(e, 1)] \in ObjectType /\ objects'[Name(e, 1)].item = e
  <2>1. e \in Shareable /\ Name(e, 1) \in N
    BY <1>1
  <2>2. /\ Name(e, 1) \notin DOMAIN objects /\ Name(e, 1) # NoObject
        /\ Name(e, 1) \in ObjectNames /\ Name(e, 1)[2] <= made' /\ Name(e, 1)[1] = e
    BY <1>2, <2>1, FreshName DEF ShareTypes
  <2>3. objects'[Name(e, 1)] = Object(e, j.answer[e])
    BY <1>2, <2>1, <2>2
  <2> QED BY <1>3, <2>1, <2>2, <2>3, ObjectTyped
<1>6. \A o \in N : \E e \in present : o = Name(e, 1)
  BY <1>1
<1>7. DOMAIN objects' = DOMAIN objects \cup N
      /\ \A o \in DOMAIN objects : o \notin N /\ objects'[o] = objects[o]
  BY <1>2, <1>5, <1>6
<1>8. \A o \in N : /\ o \in ObjectNames /\ o[2] <= made' /\ objects'[o] \in ObjectType
                   /\ o[1] \in Shareable /\ objects'[o] = Object(o[1], j.answer[o[1]])
  <2>1. TAKE o \in N
  <2>2. PICK e \in present : o = Name(e, 1)
    BY <1>6
  <2>3. o \in ObjectNames /\ o[2] <= made' /\ objects'[o] \in ObjectType
    BY <1>5, <2>2
  <2>4. o[1] = e /\ e \in Shareable
    BY <1>5, <2>2 DEF Name
  <2> QED BY <1>2, <2>3, <2>4
<1>9. \A o \in DOMAIN objects' : o \in ObjectNames /\ o[2] <= made' /\ objects'[o] \in ObjectType
  <2>1. \A o \in DOMAIN objects : o \in ObjectNames /\ o[2] <= made'
    BY <1>2, NamesKept DEF ShareTypes
  <2>2. \A o \in DOMAIN objects : objects[o] \in ObjectType
    BY DEF ShareTypes, HeapOK
  <2> QED BY <1>7, <1>8, <2>1, <2>2
<1>10. HeapGrows
  <2>1. objects' = [o \in DOMAIN objects' |-> objects'[o]]
    BY <1>2
  <2>2. objects' \in [DOMAIN objects' -> ObjectType]
    BY <1>9, <2>1
  <2> QED BY <1>7, <1>9, <2>2 DEF HeapGrows
<1>11. \A e \in Shareable :
         IF j.answer[e].exists
         THEN /\ entry'[e] = Name(e, 1) /\ entry'[e] # NoObject /\ entry'[e] \in DOMAIN objects'
              /\ objects'[entry'[e]] = Object(e, j.answer[e]) /\ objects'[entry'[e]].item = e
         ELSE entry'[e] = NoObject
  <2>1. TAKE e \in Shareable
  <2>2. CASE j.answer[e].exists
    BY <1>1, <1>2, <1>5, <1>7, <2>2
  <2>3. CASE ~j.answer[e].exists
    BY <1>1, <1>2, <2>3
  <2> QED BY <2>2, <2>3
<1>12. HeapOK'
  <2>1. entry' \in [Shareable -> DOMAIN objects' \cup {NoObject}]
    BY <1>2, <1>11
  <2> QED BY <1>4, <1>10, <1>11, <2>1 DEF HeapOK, HeapGrows, ObjectNames
<1>13. ShareJobsOK'
  BY <1>2, <1>10, JobsKept DEF ShareTypes
<1>14. /\ DialogsOK'
       /\ IF j.does = "peer" /\ j.answer[j.item].exists
          THEN SelectedNow(Kind(j.item), entry'[j.item], j.item) ELSE UNCHANGED dialog
  <2>1. j.item \in Shareable /\ Kind(j.item) \in Kinds
    BY JobTyped
  <2>2. CASE j.does = "peer" /\ j.answer[j.item].exists
    <3>1. PICK o, k, e : k \in Kinds /\ o = entry'[j.item] /\ k = Kind(j.item) /\ e = j.item
      BY <2>1
    <3>2. dialog' = [dialog EXCEPT ![k] = Selected(@, o, e)]
      BY <1>1, <1>2, <2>1, <2>2, <3>1 DEF AfterLoad
    <3>3. o \in DOMAIN objects' /\ Kind(objects'[o].item) = k /\ k \in Kinds
      BY <1>11, <2>1, <2>2, <3>1
    <3>4. DialogsOK' /\ SelectedNow(k, o, e)
      BY <1>10, <3>2, <3>3, DialogSelected DEF ShareTypes
    <3> QED BY <2>2, <3>1, <3>4
  <2>3. CASE ~(j.does = "peer" /\ j.answer[j.item].exists)
    <3>1. UNCHANGED dialog
      BY <1>1, <1>2, <2>1, <2>3 DEF AfterLoad
    <3> QED BY <1>10, <2>3, <3>1, DialogsKept DEF ShareTypes
  <2> QED BY <2>2, <2>3
<1>15. Renewed(j)
  BY <1>7, <1>8, <1>10, <1>11, <1>14 DEF Renewed
<1> QED BY <1>2, <1>12, <1>13, <1>14, <1>15 DEF ShareTypes

LEMMA FailedTyped ==
  ASSUME ShareTypes, NEW j \in sharing, ShareFails(j)
  PROVE  /\ ShareTypes' /\ UNCHANGED objects
         /\ \/ \E o \in DOMAIN objects : objects[o].item = j.item /\ SelectedNow(Kind(j.item), o, j.item)
            \/ \A k \in Kinds : dialog'[k].object = dialog[k].object /\ dialog'[k].code = dialog[k].code
                                /\ dialog'[k].mixed = dialog[k].mixed
<1>1. HeapGrows /\ UNCHANGED <<rows, issuedFor, objects, made, entry, shareClicks>>
      /\ sharing' \subseteq sharing
  BY HeapStays DEF ShareFails, ShareTypes, heapVars, apiVars
<1>2. HeapOK' /\ ShareJobsOK'
  BY <1>1, EntriesKept, JobsKept DEF ShareTypes, HeapOK
<1>3. /\ DialogsOK'
      /\ \/ \E o \in DOMAIN objects : objects[o].item = j.item /\ SelectedNow(Kind(j.item), o, j.item)
         \/ \A k \in Kinds : dialog'[k].object = dialog[k].object /\ dialog'[k].code = dialog[k].code
                             /\ dialog'[k].mixed = dialog[k].mixed
  <2>1. CASE j.does = "open" /\ j.item \in SharedDocs
    <3>1. dialog' = [dialog EXCEPT !["document"] = [dialog["document"] EXCEPT !.open = TRUE]]
      BY <2>1 DEF ShareFails, ShareTypes, DialogsOK, Kinds
    <3>2. PICK q \in DialogType : q = dialog["document"]
      BY DEF ShareTypes, DialogsOK, Kinds
    <3>3. PICK d : d = [q EXCEPT !.open = TRUE]
      OBVIOUS
    <3>4. d \in DialogType /\ d.object = q.object /\ d.code = q.code /\ d.mixed = q.mixed
      BY <3>3 DEF DialogType
    <3>5. dialog' = [dialog EXCEPT !["document"] = d] /\ "document" \in Kinds
      BY <3>1, <3>2, <3>3 DEF Kinds
    <3>6. q.object = NoObject \/ (q.object \in DOMAIN objects' /\ Kind(objects'[q.object].item) = "document")
      BY <1>1, <3>2, <3>5 DEF ShareTypes, DialogsOK
    <3>7. DialogsOK'
      BY <1>1, <3>4, <3>5, <3>6, DialogSet DEF ShareTypes
    <3> QED BY <3>2, <3>4, <3>5, <3>7 DEF ShareTypes, DialogsOK
  <2>2. CASE /\ j.does = "peer" /\ j.step \in {"load", "loaded"} /\ entry[j.item] # NoObject
    <3>1. PICK o, k, e : o = entry[j.item] /\ k = Kind(j.item) /\ e = j.item
      OBVIOUS
    <3>2. e \in Shareable /\ k \in Kinds
      BY <3>1, JobTyped
    <3>3. o \in DOMAIN objects /\ objects[o].item = e /\ Kind(objects[o].item) = k
      BY <2>2, <3>1, <3>2 DEF ShareTypes, HeapOK
    <3>4. dialog' = [dialog EXCEPT ![k] = Selected(@, o, e)]
      BY <2>2, <3>1 DEF ShareFails
    <3>5. DialogsOK' /\ SelectedNow(k, o, e)
      BY <1>1, <3>2, <3>3, <3>4, DialogSelected DEF ShareTypes
    <3> QED BY <3>1, <3>3, <3>5
  <2>3. CASE UNCHANGED dialog
    BY <1>1, <2>3, DialogsKept DEF ShareTypes
  <2> QED BY <2>1, <2>2, <2>3 DEF ShareFails
<1> QED BY <1>1, <1>2, <1>3 DEF ShareTypes

LEMMA DialogStarted ==
  ASSUME ShareTypes, NEW k \in Kinds, NEW does \in {"code", "level", "peer"}, NEW to \in PeerLevels,
         does = "level" => to \in ShareLevels, InDialog(k, does, to)
  PROVE  /\ ShareTypes' /\ dialog[k].object \in DOMAIN objects
         /\ objects[dialog[k].object].item \in Shareable
         /\ Kind(objects[dialog[k].object].item) = k
<1>1. PICK o, e : o = dialog[k].object /\ e = objects[o].item
  OBVIOUS
<1>2. o \in DOMAIN objects /\ Kind(e) = k
  BY <1>1 DEF InDialog, ShareTypes, DialogsOK
<1>3. e \in Shareable
  BY <1>1, <1>2 DEF ShareTypes, HeapOK, ObjectType
<1>4. Starts(does, e, o, to, "sent") /\ UNCHANGED dialog
  BY <1>1 DEF InDialog
<1>5. does \in Jobs /\ "sent" = IF does = "load" THEN "load" ELSE "sent"
  BY DEF Jobs
<1>6. ShareTypes'
  BY <1>1, <1>2, <1>3, <1>4, <1>5, JobStarted
<1> QED BY <1>1, <1>2, <1>3, <1>6

LEMMA ProjectStarted ==
  ASSUME ShareTypes, NEW e \in Shareable, CreateProject(e) \/ DeleteProject(e) \/ LoadAgain
  PROVE  ShareTypes'
<1>1. ASSUME NEW does \in {"create", "delete"}, Starts(does, e, NoObject, "View", "sent"), UNCHANGED dialog
      PROVE  ShareTypes'
  BY <1>1, JobStarted DEF Jobs, OnObject, PeerLevels, ShareLevels
<1>2. CASE LoadAgain
  <2>1. PICK x : x = CHOOSE y \in Shareable : TRUE
    OBVIOUS
  <2>2. x \in Shareable
    BY <2>1, ShareAssumption
  <2>3. Starts("load", x, NoObject, "View", "load") /\ UNCHANGED dialog
    BY <1>2, <2>1 DEF LoadAgain
  <2> QED BY <2>2, <2>3, JobStarted DEF Jobs, OnObject, PeerLevels, ShareLevels
<1> QED BY <1>1, <1>2 DEF CreateProject, DeleteProject

\* The codes: who makes, copies or shows objects leaves codes of their items.
LEMMA CodesKept ==
  ASSUME ShareTypes, CodesInv, HeapGrows, UNCHANGED <<rows, issuedFor>>,
         \A o \in DOMAIN objects' : ObjectCode(o)' \/ (o \in DOMAIN objects /\ objects'[o] = objects[o]),
         \A i \in sharing' : i.answer = rows \/ \E j \in sharing : i.answer = j.answer,
         \A k \in Kinds : DialogCode(k)' \/ dialog'[k] = dialog[k]
  PROVE  CodesInv'
<1>1. \A c, e : CodeOf(c, e)' <=> CodeOf(c, e)
  BY DEF CodeOf
<1>2. RowCodes(rows)'
  BY <1>1 DEF RowCodes, CodesInv
<1>3. \A o \in DOMAIN objects' : ObjectCode(o)'
  BY <1>1 DEF CodesInv, ObjectCode
<1>4. \A i \in sharing' : RowCodes(i.answer)'
  BY <1>1 DEF RowCodes, CodesInv
<1>5. ASSUME NEW k \in Kinds, dialog'[k] = dialog[k] PROVE DialogCode(k)'
  <2>1. DialogCode(k)
    BY DEF CodesInv
  <2>2. dialog[k].object # NoObject => dialog[k].object \in DOMAIN objects
    BY DEF ShareTypes, DialogsOK
  <2>3. dialog[k].object # NoObject =>
          objects'[dialog[k].object].item = objects[dialog[k].object].item
    BY <2>2 DEF HeapGrows
  <2> QED BY <1>1, <1>5, <2>1, <2>3 DEF DialogCode
<1>6. \A k \in Kinds : DialogCode(k)'
  BY <1>5
<1> QED BY <1>2, <1>3, <1>4, <1>6 DEF CodesInv

LEMMA SelectedCode ==
  ASSUME ShareTypes, CodesInv, UNCHANGED issuedFor, NEW k \in Kinds, NEW o, NEW e, objects'[o].item = e,
         SelectedNow(k, o, e)
  PROVE  \A q \in Kinds : DialogCode(q)' \/ dialog'[q] = dialog[q]
<1>1. DialogCode(k)
  BY DEF CodesInv
<1>2. \A c, x : CodeOf(c, x)' <=> CodeOf(c, x)
  BY DEF CodeOf
<1>3. dialog'[k].object = o /\ dialog'[k].code = dialog[k].code
      /\ (dialog'[k].mixed <=> dialog[k].mixed \/ dialog[k].object = NoObject
                                \/ objects[dialog[k].object].item # e)
      /\ \A q \in Kinds \ {k} : dialog'[q] = dialog[q]
  BY DEF SelectedNow
<1>4. dialog'[k].mixed \/ CodeOf(dialog[k].code, e)
  BY <1>1, <1>3 DEF DialogCode
<1>5. DialogCode(k)'
  BY <1>2, <1>3, <1>4 DEF DialogCode
<1> QED BY <1>3, <1>5

LEMMA CodedCode ==
  ASSUME NEW k \in Kinds, NEW o, NEW c, NEW does, NEW x, objects'[o].item = x, CodeOf(c, x),
         UNCHANGED issuedFor, CodedNow(k, o, c, does = "open")
  PROVE  \A q \in Kinds : DialogCode(q)' \/ dialog'[q] = dialog[q]
<1>1. dialog'[k].object = o /\ dialog'[k].code = c
      /\ \A q \in Kinds \ {k} : dialog'[q] = dialog[q]
  BY DEF CodedNow
<1>2. CodeOf(c, x)'
  BY DEF CodeOf
<1>3. DialogCode(k)'
  BY <1>1, <1>2 DEF DialogCode, CodeOf
<1> QED BY <1>1, <1>3

LEMMA AnswerCodes ==
  ASSUME CodesInv, NEW j \in sharing, NEW e \in Shareable
  PROVE  CodeOf(Object(e, j.answer[e]).code, Object(e, j.answer[e]).item)
         /\ CodeOf(j.answer[e].code, e)
BY DEF CodesInv, RowCodes, Object

LEMMA StartedCodes ==
  ASSUME ShareTypes, CodesInv, NEW does, NEW e, NEW o, NEW to, NEW step, Starts(does, e, o, to, step),
         \A k \in Kinds : DialogCode(k)' \/ dialog'[k] = dialog[k]
  PROVE  CodesInv'
<1>1. PICK n : n = [nr |-> shareClicks + 1, does |-> does, item |-> e, object |-> o, to |-> to,
                    step |-> step, answer |-> rows, alone |-> sharing = {}]
  OBVIOUS
<1>2. sharing' = {[j EXCEPT !.alone = FALSE] : j \in sharing} \cup {n}
      /\ UNCHANGED <<objects, made, rows, issuedFor>>
  BY <1>1 DEF Starts, heapVars, apiVars
<1>3. \A j \in sharing : [j EXCEPT !.alone = FALSE].answer = j.answer
  BY DEF ShareTypes, ShareJobsOK, ShareJob
<1>4. \A i \in sharing' : i.answer = rows \/ \E j \in sharing : i.answer = j.answer
  <2>1. TAKE i \in sharing'
  <2>2. CASE i = n
    BY <1>1, <2>2
  <2>3. CASE i # n
    <3>1. PICK j \in sharing : i = [j EXCEPT !.alone = FALSE]
      BY <1>2, <2>3
    <3> QED BY <1>3, <3>1
  <2> QED BY <2>2, <2>3
<1>5. HeapGrows
  BY <1>2, HeapStays DEF ShareTypes
<1> QED BY <1>2, <1>4, <1>5, CodesKept

LEMMA OpenedCodes ==
  ASSUME ShareTypes, CodesInv, NEW e \in Shareable, OpenShareFolderModal(e) \/ OpenShareModal(e)
  PROVE  CodesInv'
<1>1. entry[e] \in DOMAIN objects /\ UNCHANGED <<objects, made, rows, issuedFor>>
  BY DEF OpenShareModal, OpenShareFolderModal, ShareTypes, HeapOK, Starts, heapVars, apiVars
<1>2. ObjectCode(entry[e]) /\ \A c, x : CodeOf(c, x)' <=> CodeOf(c, x)
  BY <1>1 DEF CodesInv, CodeOf
<1>3. dialog \in [Kinds -> DialogType] /\ "folder" \in Kinds /\ "document" \in Kinds
  BY DEF ShareTypes, DialogsOK, Kinds
<1>4. HeapGrows
  BY <1>1, HeapStays DEF ShareTypes
<1>5. CASE OpenShareFolderModal(e) /\ objects[entry[e]].code # NoCode
  <2>1. dialog' = [dialog EXCEPT !["folder"] =
          [Closed EXCEPT !.open = TRUE, !.object = entry[e], !.code = objects[entry[e]].code]]
        /\ UNCHANGED sharing
    BY <1>5 DEF OpenShareFolderModal
  <2>2. dialog'["folder"].object = entry[e] /\ dialog'["folder"].code = objects[entry[e]].code
        /\ \A k \in Kinds \ {"folder"} : dialog'[k] = dialog[k]
    BY <1>3, <2>1 DEF Closed
  <2>3. DialogCode("folder")'
    BY <1>1, <1>2, <2>2 DEF DialogCode, ObjectCode
  <2> QED BY <1>1, <1>4, <2>1, <2>2, <2>3, CodesKept
<1>6. CASE OpenShareFolderModal(e) /\ objects[entry[e]].code = NoCode
  <2>1. Starts("open", e, entry[e], "View", "sent") /\ UNCHANGED dialog
    BY <1>6 DEF OpenShareFolderModal
  <2> QED BY <2>1, StartedCodes
<1>7. CASE OpenShareModal(e)
  <2>1. PICK s : s = [dialog["document"] EXCEPT !.object = entry[e], !.level = objects[entry[e]].level,
                                                !.dated = (e \in unlisted)]
    OBVIOUS
  <2>2. DOMAIN s = {"open", "object", "code", "level", "dated", "mixed"} /\ s.object = entry[e]
    <3>1. dialog["document"] \in DialogType
      BY <1>3
    <3>2. DOMAIN dialog["document"] = {"open", "object", "code", "level", "dated", "mixed"}
      BY <3>1 DEF DialogType
    <3> QED BY <2>1, <3>2
  <2>3. CASE objects[entry[e]].code # NoCode
    <3>1. dialog' = [dialog EXCEPT !["document"] =
            [s EXCEPT !.open = TRUE, !.code = objects[entry[e]].code, !.mixed = FALSE]]
          /\ UNCHANGED sharing
      BY <1>7, <2>1, <2>3 DEF OpenShareModal
    <3>2. dialog'["document"].object = entry[e] /\ dialog'["document"].code = objects[entry[e]].code
          /\ \A k \in Kinds \ {"document"} : dialog'[k] = dialog[k]
      BY <1>3, <2>2, <3>1
    <3>3. DialogCode("document")'
      BY <1>1, <1>2, <3>2 DEF DialogCode, ObjectCode
    <3> QED BY <1>1, <1>4, <3>1, <3>2, <3>3, CodesKept
  <2>4. CASE objects[entry[e]].code = NoCode
    <3>1. dialog' = [dialog EXCEPT !["document"] = [s EXCEPT !.mixed = TRUE]]
          /\ Starts("open", e, entry[e], "View", "sent")
      BY <1>7, <2>1, <2>4 DEF OpenShareModal
    <3>2. dialog'["document"].mixed /\ \A k \in Kinds \ {"document"} : dialog'[k] = dialog[k]
      BY <1>3, <2>2, <3>1
    <3>3. DialogCode("document")'
      BY <3>2 DEF DialogCode
    <3> QED BY <3>1, <3>2, <3>3, StartedCodes
  <2> QED BY <2>3, <2>4
<1> QED BY <1>5, <1>6, <1>7

LEMMA ClosedCodes ==
  ASSUME ShareTypes, CodesInv, NEW k \in Kinds, CloseShareModal(k)
  PROVE  CodesInv'
<1>1. UNCHANGED <<objects, made, rows, issuedFor, sharing>>
  BY DEF CloseShareModal, heapVars, apiVars
<1>2. HeapGrows
  BY <1>1, HeapStays DEF ShareTypes
<1>3. dialog[k] \in DialogType /\ dialog \in [Kinds -> DialogType] /\ DialogCode(k)
  BY DEF ShareTypes, DialogsOK, CodesInv
<1>4. PICK d : d = [dialog[k] EXCEPT !.open = FALSE]
  OBVIOUS
<1>5. d.object = dialog[k].object /\ d.code = dialog[k].code /\ d.mixed = dialog[k].mixed
  BY <1>3, <1>4 DEF DialogType
<1>6. dialog'[k] \in {Closed, d} /\ \A q \in Kinds \ {k} : dialog'[q] = dialog[q]
  BY <1>3, <1>4 DEF CloseShareModal
<1>7. DialogCode(k)'
  <2>1. CASE dialog'[k] = Closed
    BY <2>1 DEF DialogCode, Closed
  <2>2. CASE dialog'[k] = d
    BY <1>1, <1>3, <1>5, <2>2 DEF DialogCode, CodeOf
  <2> QED BY <1>6, <2>1, <2>2
<1> QED BY <1>1, <1>2, <1>6, <1>7, CodesKept

LEMMA ServedCodes ==
  ASSUME ShareTypes, CodesInv, NEW j \in sharing, Serve(j)
  PROVE  CodesInv'
<1>1. UNCHANGED <<objects, dialog>> /\ j.item \in Shareable /\ j \in ShareJob
  BY JobTyped DEF Serve, heapVars
<1>2. \A c \in Nat : \A e : CodeOf(c, e) => CodeOf(c, e)'
  <2>1. issuedFor \in Seq(Shareable) /\ issuedFor' \in {issuedFor, Append(issuedFor, j.item)}
    BY DEF ShareTypes, Serve, apiVars
  <2>2. \A c \in DOMAIN issuedFor : c \in DOMAIN issuedFor' /\ issuedFor'[c] = issuedFor[c]
    <3>1. DOMAIN issuedFor = 1..Len(issuedFor) /\ Len(issuedFor) \in Nat
      BY <2>1
    <3>2. CASE issuedFor' = Append(issuedFor, j.item)
      BY <1>1, <2>1, <3>1, <3>2, AppendProperties
    <3> QED BY <2>1, <3>2
  <2> QED BY <2>2 DEF CodeOf
<1>3. RowCodes(rows)'
  <2>1. \A e \in Shareable : rows[e].code \in Nat /\ CodeOf(rows[e].code, e)
    BY DEF ShareTypes, Row, CodesInv, RowCodes
  <2>2. CASE UNCHANGED rows
    BY <1>2, <2>1, <2>2 DEF RowCodes
  <2>3. CASE j.step = "sent"
    <3>1. rows' = [rows EXCEPT ![j.item] = Requested(rows[j.item], j)]
          /\ issuedFor' = IF j.does \in {"open", "code"} THEN Append(issuedFor, j.item) ELSE issuedFor
      BY <2>3 DEF Serve
    <3>2. ASSUME NEW e \in Shareable, e # j.item PROVE CodeOf(rows[e].code, e)'
      <4>1. rows'[e] = rows[e]
        BY <3>1, <3>2 DEF ShareTypes
      <4> QED BY <1>2, <2>1, <4>1
    <3>3. rows'[j.item] = Requested(rows[j.item], j) /\ rows[j.item] \in Row
      BY <1>1, <3>1 DEF ShareTypes
    <3>4. CASE j.does \in {"open", "code"}
      <4>1. rows'[j.item].code = Len(issuedFor) + 1
        BY <3>3, <3>4 DEF Requested, Row
      <4>2. issuedFor' = Append(issuedFor, j.item) /\ issuedFor \in Seq(Shareable)
        BY <3>1, <3>4 DEF ShareTypes
      <4>3. Len(issuedFor) + 1 \in DOMAIN issuedFor' /\ issuedFor'[Len(issuedFor) + 1] = j.item
        BY <1>1, <4>2, AppendProperties
      <4> QED BY <3>2, <4>1, <4>3 DEF RowCodes, CodeOf
    <3>5. CASE j.does \notin {"open", "code"}
      <4>1. rows'[j.item].code = rows[j.item].code
        BY <3>3, <3>5 DEF Requested, Row
      <4> QED BY <1>1, <1>2, <2>1, <3>2, <4>1 DEF RowCodes
    <3> QED BY <3>4, <3>5
  <2> QED BY <2>2, <2>3 DEF Serve, apiVars
<1>4. \A i \in sharing : RowCodes(i.answer)'
  <2>1. TAKE i \in sharing
  <2>2. \A e \in Shareable : i.answer[e].code \in Nat /\ CodeOf(i.answer[e].code, e)
    BY JobTyped DEF CodesInv, RowCodes, Row
  <2> QED BY <1>2, <2>2 DEF RowCodes
<1>5. PICK c : sharing' = (sharing \ {j}) \cup {c} /\ c.answer = rows'
  <2>1. j.step = "sent" => Becomes(j, [j EXCEPT !.step = "done", !.answer = rows'])
    BY DEF Serve
  <2>2. j.step # "sent" => Becomes(j, [j EXCEPT !.step = "loaded", !.answer = rows']) /\ UNCHANGED rows
    BY DEF Serve, apiVars
  <2>3. [j EXCEPT !.step = "done", !.answer = rows'].answer = rows'
        /\ [j EXCEPT !.step = "loaded", !.answer = rows'].answer = rows'
    BY <1>1 DEF ShareJob
  <2>4. \E c : c.answer = rows' /\ Becomes(j, c)
    BY <2>1, <2>2, <2>3
  <2> QED BY <2>4 DEF Becomes
<1>6. \A o \in DOMAIN objects' : ObjectCode(o)'
  <2>1. \A o \in DOMAIN objects : objects[o].code \in Nat
    BY DEF ShareTypes, HeapOK, ObjectType
  <2> QED BY <1>1, <1>2, <2>1 DEF CodesInv, ObjectCode
<1>7. \A k \in Kinds : DialogCode(k)'
  <2>1. TAKE k \in Kinds
  <2>2. dialog[k].code \in Nat /\ DialogCode(k)
    BY DEF ShareTypes, DialogsOK, DialogType, CodesInv
  <2> QED BY <1>1, <1>2, <2>2 DEF DialogCode
<1> QED BY <1>3, <1>4, <1>5, <1>6, <1>7 DEF CodesInv

\* After one object was made, every object has a code of its item.
LEMMA MadeCodes ==
  ASSUME NEW e, NEW x, NEW v, Made(e, x, v), UNCHANGED issuedFor, CodeOf(v.code, v.item)
  PROVE  \A o \in DOMAIN objects' : ObjectCode(o)' \/ (o \in DOMAIN objects /\ objects'[o] = objects[o])
<1>1. CodeOf(v.code, v.item)'
  BY DEF CodeOf
<1>2. TAKE o \in DOMAIN objects'
<1>3. CASE objects'[o] = v
  BY <1>1, <1>3 DEF ObjectCode
<1>4. CASE objects'[o] # v
  <2>1. o # Name(e, 1) /\ o # x
    BY <1>4 DEF Made
  <2> QED BY <2>1 DEF Made
<1> QED BY <1>3, <1>4

LEMMA FolderCodedCodes ==
  ASSUME ShareTypes, CodesInv, NEW j \in sharing, FolderCodeReturns(j)
  PROVE  CodesInv'
<1>1. PICK e, n, t, c : /\ e = j.item /\ n = Name(e, 1) /\ t = Name(e, 2) /\ c = j.answer[e].code
  OBVIOUS
<1>2. /\ HeapGrows /\ e \in SharedFolders /\ e \in Shareable
      /\ CodedNow("folder", n, c, j.does = "open")
      /\ \A o \in DOMAIN objects : objects'[o] = objects[o]
      /\ objects'[n] = Object(e, j.answer[e])
      /\ entry[e] # NoObject => objects'[t] = [objects[entry[e]] EXCEPT !.code = c]
      /\ DOMAIN objects' \subseteq DOMAIN objects \cup {n, t}
  BY <1>1, FolderCoded, KindOf
<1>3. CodeOf(Object(e, j.answer[e]).code, Object(e, j.answer[e]).item) /\ CodeOf(c, e)
      /\ Object(e, j.answer[e]).item = e
  BY <1>1, <1>2, AnswerCodes DEF Object
<1>4. UNCHANGED <<rows, issuedFor>> /\ sharing' \subseteq sharing
  BY DEF FolderCodeReturns, apiVars
<1>5. \A a, b : CodeOf(a, b)' <=> CodeOf(a, b)
  BY <1>4 DEF CodeOf
<1>6. ObjectCode(n)'
  BY <1>2, <1>3, <1>5 DEF ObjectCode
<1>7. ASSUME t \in DOMAIN objects', t \notin DOMAIN objects, t # n PROVE ObjectCode(t)'
  <2>1. entry[e] # NoObject
    <3>1. DOMAIN objects' = DOMAIN objects \cup
            ({Name(e, 1)} \cup (IF entry[e] = NoObject THEN {} ELSE {Name(e, 2)}))
      BY <1>1 DEF FolderCodeReturns, WithObjects
    <3> QED BY <1>1, <1>7, <3>1
  <2>2. entry[e] \in DOMAIN objects /\ objects[entry[e]].item = e
        /\ objects[entry[e]] \in ObjectType
    BY <1>2, <2>1 DEF ShareTypes, HeapOK
  <2>3. PICK b \in ObjectType : b = objects[entry[e]] /\ b.item = e
    BY <2>2
  <2>4. objects'[t] = [b EXCEPT !.code = c]
    BY <1>2, <2>1, <2>3
  <2>5. objects'[t].code = c /\ objects'[t].item = e
    BY <2>3, <2>4 DEF ObjectType
  <2> QED BY <1>3, <1>5, <2>5 DEF ObjectCode
<1>8. \A o \in DOMAIN objects' : ObjectCode(o)' \/ (o \in DOMAIN objects /\ objects'[o] = objects[o])
  BY <1>2, <1>6, <1>7
<1>9. \A k \in Kinds : DialogCode(k)' \/ dialog'[k] = dialog[k]
  <2>1. "folder" \in Kinds /\ objects'[n].item = e
    BY <1>2, <1>3 DEF Kinds
  <2> QED BY <1>2, <1>3, <1>4, <2>1, CodedCode
<1> QED BY <1>2, <1>4, <1>8, <1>9, CodesKept

LEMMA DocCodedCodes ==
  ASSUME ShareTypes, CodesInv, NEW j \in sharing, DocCodeReturns(j)
  PROVE  CodesInv'
<1>1. PICK e, n, v, c : /\ e = j.item /\ n = Name(e, 1) /\ c = j.answer[e].code
                        /\ v = Object(e, j.answer[e])
  OBVIOUS
<1>2. /\ Made(e, n, v) /\ CodedNow("document", n, c, j.does = "open") /\ e \in Shareable
  BY <1>1, DocCoded, KindOf
<1>3. CodeOf(v.code, v.item) /\ CodeOf(c, e) /\ v.item = e
  BY <1>1, <1>2, AnswerCodes DEF Object
<1>4. UNCHANGED <<rows, issuedFor>> /\ sharing' \subseteq sharing
  BY DEF DocCodeReturns, apiVars
<1>5. \A o \in DOMAIN objects' : ObjectCode(o)' \/ (o \in DOMAIN objects /\ objects'[o] = objects[o])
  BY <1>2, <1>3, <1>4, MadeCodes
<1>6. \A k \in Kinds : DialogCode(k)' \/ dialog'[k] = dialog[k]
  <2>1. "document" \in Kinds /\ objects'[n].item = e
    BY <1>2, <1>3 DEF Kinds, Made
  <2> QED BY <1>2, <1>3, <1>4, <2>1, CodedCode
<1> QED BY <1>2, <1>4, <1>5, <1>6, CodesKept DEF Made

\* The two handlers that select a copy of the object they started with.
LEMMA CopySelectedCodes ==
  ASSUME ShareTypes, CodesInv, NEW j \in sharing, LevelReturns(j) \/ SharedAccessReturns(j)
  PROVE  CodesInv'
<1>1. PICK e, n, b, k : /\ e = j.item /\ n = Name(e, 1) /\ b = objects[j.object] /\ k = Kind(e)
  OBVIOUS
<1>2. PICK x, v : /\ v \in {[b EXCEPT !.level = j.to], [b EXCEPT !.peer = j.to]}
                  /\ Made(e, x, v)
  BY <1>1, LevelReturned, AccessReturned
<1>3. SelectedNow(k, n, e) /\ j.object \in DOMAIN objects
  BY <1>1, LevelReturned, AccessReturned
<1>4. /\ b \in ObjectType /\ b.item = e /\ CodeOf(b.code, e) /\ k \in Kinds
  <2>1. b \in ObjectType /\ b.item = e
    BY <1>1, <1>3, JobTyped DEF ShareTypes, HeapOK, LevelReturns, SharedAccessReturns, JobOK, OnObject
  <2>2. ObjectCode(j.object) /\ k \in Kinds
    BY <1>1, <1>3, JobTyped DEF CodesInv
  <2> QED BY <1>1, <2>1, <2>2 DEF ObjectCode
<1>5. v.code = b.code /\ v.item = e
  BY <1>2, <1>4 DEF ObjectType
<1>6. UNCHANGED <<rows, issuedFor>>
  BY DEF LevelReturns, SharedAccessReturns, apiVars
<1>7. CodeOf(v.code, v.item) /\ objects'[n].item = e
  BY <1>1, <1>2, <1>4, <1>5 DEF Made
<1>8. \A o \in DOMAIN objects' : ObjectCode(o)' \/ (o \in DOMAIN objects /\ objects'[o] = objects[o])
  BY <1>2, <1>6, <1>7, MadeCodes
<1>9. \A q \in Kinds : DialogCode(q)' \/ dialog'[q] = dialog[q]
  BY <1>3, <1>4, <1>6, <1>7, SelectedCode
<1>10. \A i \in sharing' : i.answer = rows \/ \E h \in sharing : i.answer = h.answer
  <2>1. CASE LevelReturns(j)
    BY <2>1 DEF LevelReturns
  <2>2. CASE SharedAccessReturns(j)
    <3>1. [j EXCEPT !.step = "load"].answer = j.answer
      BY JobTyped DEF ShareJob
    <3> QED BY <2>2, <3>1 DEF SharedAccessReturns, Becomes
  <2> QED BY <2>1, <2>2
<1> QED BY <1>2, <1>6, <1>8, <1>9, <1>10, CodesKept DEF Made

LEMMA ProjectReturnedCodes ==
  ASSUME ShareTypes, CodesInv, NEW j \in sharing, ProjectReturns(j)
  PROVE  CodesInv'
<1>1. HeapGrows /\ UNCHANGED <<rows, issuedFor, objects>> /\ UNCHANGED dialog
  BY HeapStays DEF ProjectReturns, ShareTypes, heapVars, apiVars
<1>2. [j EXCEPT !.step = "load"].answer = j.answer
  BY JobTyped DEF ShareJob
<1>3. \A i \in sharing' : i.answer = rows \/ \E h \in sharing : i.answer = h.answer
  BY <1>2 DEF ProjectReturns, Becomes
<1> QED BY <1>1, <1>3, CodesKept

LEMMA LoadedCodes ==
  ASSUME ShareTypes, CodesInv, NEW j \in sharing, LoadWorkspace(j)
  PROVE  CodesInv'
<1>1. UNCHANGED <<rows, issuedFor>> /\ sharing' \subseteq sharing
  BY DEF LoadWorkspace, apiVars
<1>2. \A a, b : CodeOf(a, b)' <=> CodeOf(a, b)
  BY <1>1 DEF CodeOf
<1>3. Renewed(j) /\ HeapGrows /\ j.item \in Shareable /\ Kind(j.item) \in Kinds
  BY Loaded, JobTyped DEF Renewed
<1>4. ASSUME NEW o \in DOMAIN objects', o \notin DOMAIN objects PROVE ObjectCode(o)'
  <2>1. PICK e \in Shareable : e = o[1] /\ objects'[o] = Object(e, j.answer[e])
    BY <1>3, <1>4 DEF Renewed
  <2> QED BY <1>2, <2>1, AnswerCodes DEF ObjectCode
<1>5. \A o \in DOMAIN objects' : ObjectCode(o)' \/ (o \in DOMAIN objects /\ objects'[o] = objects[o])
  BY <1>3, <1>4 DEF Renewed
<1>6. \A k \in Kinds : DialogCode(k)' \/ dialog'[k] = dialog[k]
  <2>1. CASE j.does = "peer" /\ j.answer[j.item].exists
    <3>1. PICK o, k, e : o = entry'[j.item] /\ k = Kind(j.item) /\ e = j.item
      OBVIOUS
    <3>2. k \in Kinds /\ e \in Shareable /\ j.answer[e].exists
      BY <1>3, <2>1, <3>1
    <3>3. objects'[o] = Object(e, j.answer[e])
      BY <1>3, <3>1, <3>2 DEF Renewed
    <3>4. objects'[o].item = e
      BY <3>3 DEF Object
    <3>5. SelectedNow(Kind(j.item), entry'[j.item], j.item)
      BY <1>3, <2>1 DEF Renewed
    <3>6. SelectedNow(k, o, e)
      BY <3>1, <3>5, Zenon
    <3> QED BY <1>1, <3>2, <3>4, <3>6, SelectedCode
  <2>2. CASE ~(j.does = "peer" /\ j.answer[j.item].exists)
    BY <1>3, <2>2 DEF Renewed
  <2> QED BY <2>1, <2>2
<1> QED BY <1>1, <1>3, <1>5, <1>6, CodesKept

LEMMA FailedCodes ==
  ASSUME ShareTypes, CodesInv, NEW j \in sharing, ShareFails(j)
  PROVE  CodesInv'
<1>1. HeapGrows /\ UNCHANGED <<rows, issuedFor, objects>> /\ sharing' \subseteq sharing
  BY HeapStays DEF ShareFails, ShareTypes, heapVars, apiVars
<1>2. CASE \E o \in DOMAIN objects : objects[o].item = j.item /\ SelectedNow(Kind(j.item), o, j.item)
  <2>1. PICK o, e, k : /\ objects[o].item = e /\ SelectedNow(k, o, e)
                       /\ k = Kind(j.item) /\ e = j.item
    BY <1>2
  <2>2. k \in Kinds /\ objects'[o].item = e /\ SelectedNow(k, o, e)
    BY <1>1, <2>1, JobTyped
  <2>3. \A q \in Kinds : DialogCode(q)' \/ dialog'[q] = dialog[q]
    BY <1>1, <2>2, SelectedCode
  <2> QED BY <1>1, <2>3, CodesKept
<1>3. CASE \A k \in Kinds : dialog'[k].object = dialog[k].object /\ dialog'[k].code = dialog[k].code
                           /\ dialog'[k].mixed = dialog[k].mixed
  <2>1. \A k \in Kinds : DialogCode(k)'
    BY <1>1, <1>3 DEF CodesInv, DialogCode, CodeOf
  <2> QED BY <1>1, <2>1, CodesKept
<1> QED BY <1>2, <1>3, FailedTyped

\* While nothing is behind there is no job but one that is alone.
LEMMA StartedAlone ==
  ASSUME ShareTypes, AloneInv, NEW does, NEW e, NEW o, NEW to, NEW step \in {"sent", "load"},
         Starts(does, e, o, to, step)
  PROVE  AloneInv'
<1>1. PICK n : n = [nr |-> shareClicks + 1, does |-> does, item |-> e, object |-> o, to |-> to,
                    step |-> step, answer |-> rows, alone |-> sharing = {}]
  OBVIOUS
<1>2. sharing' = {[j EXCEPT !.alone = FALSE] : j \in sharing} \cup {n}
      /\ (~behind' => ~behind /\ sharing = {})
  BY <1>1 DEF Starts, ShareClick
<1>3. (n.alone <=> sharing = {}) /\ n.step \notin {"done", "loaded"}
  BY <1>1
<1>4. \A j \in sharing : ~[j EXCEPT !.alone = FALSE].alone
  BY DEF ShareTypes, ShareJobsOK, ShareJob
<1>5. ASSUME NEW i \in sharing', i.alone PROVE i = n /\ sharing = {}
  BY <1>2, <1>3, <1>4, <1>5
<1>6. \A i \in sharing' : i.alone => sharing' = {i} /\ i.step \notin {"done", "loaded"}
  BY <1>2, <1>3, <1>5
<1>7. ~behind' => \A i \in sharing' : i.alone
  BY <1>2, <1>3
<1> QED BY <1>6, <1>7 DEF AloneInv

\* One job of those there were returns.
LEMMA ReturnedAlone ==
  ASSUME AloneInv, NEW j \in sharing, sharing' = sharing \ {j}, UNCHANGED rows,
         behind' = behind \/ behind' = TRUE \/ behind' = (behind /\ ~(j.alone /\ NoneOpen))
  PROVE  AloneInv'
<1>1. \A i \in sharing' : ~i.alone
  BY DEF AloneInv
<1>2. ~behind' => sharing' = {}
  BY DEF AloneInv
<1> QED BY <1>1, <1>2 DEF AloneInv

\* One job of those there were goes on.
LEMMA MovedAlone ==
  ASSUME AloneInv, NEW j \in sharing, NEW c, sharing' = (sharing \ {j}) \cup {c},
         c.alone = j.alone, c.step \in {"done", "loaded"} => c.answer = rows',
         UNCHANGED behind
  PROVE  AloneInv'
<1>1. \A i \in sharing \ {j} : ~i.alone
  BY DEF AloneInv
<1>2. c.alone => sharing' = {c}
  BY DEF AloneInv
<1>3. ~behind' => \A i \in sharing' : i.alone
  BY DEF AloneInv
<1> QED BY <1>1, <1>2, <1>3 DEF AloneInv

\* A job served, or loading, is the one it was but for its step and its answer.
LEMMA ServedMoves ==
  ASSUME ShareTypes, NEW j \in sharing, Serve(j)
  PROVE  \E c : /\ c.alone = j.alone /\ c.answer = rows' /\ sharing' = (sharing \ {j}) \cup {c}
               /\ c.does = j.does /\ c.item = j.item /\ c.object = j.object /\ c.to = j.to
               /\ \/ c.step = "done" /\ j.step = "sent"
                  \/ c.step = "loaded" /\ j.step = "load" /\ UNCHANGED <<rows, issuedFor>>
<1>1. j \in ShareJob
  BY JobTyped
<1>2. CASE j.step = "sent"
  <2>1. PICK c : c = [j EXCEPT !.step = "done", !.answer = rows']
    OBVIOUS
  <2>2. sharing' = (sharing \ {j}) \cup {c}
    BY <1>2, <2>1 DEF Serve, Becomes
  <2>3. c.alone = j.alone /\ c.answer = rows' /\ c.does = j.does /\ c.item = j.item
        /\ c.object = j.object /\ c.to = j.to /\ c.step = "done"
    BY <1>1, <2>1 DEF ShareJob
  <2> QED BY <1>2, <2>1, <2>2, <2>3
<1>3. CASE j.step = "load"
  <2>1. PICK c : c = [j EXCEPT !.step = "loaded", !.answer = rows']
    OBVIOUS
  <2>2. UNCHANGED <<rows, issuedFor>>
    BY <1>3 DEF Serve, apiVars
  <2>3. sharing' = (sharing \ {j}) \cup {c}
    BY <1>3, <2>1, <2>2 DEF Serve, Becomes
  <2>4. c.alone = j.alone /\ c.answer = rows' /\ c.does = j.does /\ c.item = j.item
        /\ c.object = j.object /\ c.to = j.to /\ c.step = "loaded"
    BY <1>1, <2>1 DEF ShareJob
  <2> QED BY <1>3, <2>1, <2>2, <2>3, <2>4
<1> QED BY <1>2, <1>3 DEF Serve

LEMMA LoadMoves ==
  ASSUME ShareTypes, NEW j \in sharing, SharedAccessReturns(j) \/ ProjectReturns(j)
  PROVE  \E c : /\ c.alone = j.alone /\ sharing' = (sharing \ {j}) \cup {c}
               /\ c.does = j.does /\ c.item = j.item /\ c.object = j.object /\ c.to = j.to
               /\ c.step = "load" /\ j.step = "done" /\ UNCHANGED behind
<1>1. PICK c : c = [j EXCEPT !.step = "load"]
  OBVIOUS
<1>2. sharing' = (sharing \ {j}) \cup {c} /\ UNCHANGED behind /\ j.step = "done"
  BY <1>1 DEF SharedAccessReturns, ProjectReturns, Becomes
<1>3. j \in ShareJob
  BY JobTyped
<1>4. c.alone = j.alone /\ c.does = j.does /\ c.item = j.item
      /\ c.object = j.object /\ c.to = j.to /\ c.step = "load"
  BY <1>1, <1>3 DEF ShareJob
<1> QED BY <1>2, <1>4

\* No step leaves two jobs of which one is alone.
LEMMA AloneKept ==
  ASSUME ShareTypes, AloneInv, ShareNext
  PROVE  AloneInv'
<1>1. ASSUME UNCHANGED <<sharing, rows>>, ~behind' => ~behind PROVE AloneInv'
  BY <1>1 DEF AloneInv
<1>2. ASSUME NEW e, OpenShareFolderModal(e) \/ OpenShareModal(e) PROVE AloneInv'
  <2>1. CASE ShareClick /\ UNCHANGED <<apiVars, sharing>>
    BY <1>1, <2>1 DEF ShareClick, apiVars
  <2>2. CASE Starts("open", e, entry[e], "View", "sent")
    BY <2>2, StartedAlone
  <2> QED BY <1>2, <2>1, <2>2 DEF OpenShareFolderModal, OpenShareModal
<1>3. ASSUME NEW e, CreateProject(e) \/ DeleteProject(e) \/ LoadAgain PROVE AloneInv'
  <2>1. ASSUME NEW does, NEW x, NEW step \in {"sent", "load"}, Starts(does, x, NoObject, "View", step)
        PROVE AloneInv'
    BY <2>1, StartedAlone
  <2> QED BY <1>3, <2>1 DEF CreateProject, DeleteProject, LoadAgain
<1>4. ASSUME NEW k, CloseShareModal(k) PROVE AloneInv'
  BY <1>1, <1>4 DEF CloseShareModal, apiVars
<1>5. ASSUME NEW k, NEW does, NEW to, InDialog(k, does, to) PROVE AloneInv'
  <2>1. Starts(does, objects[dialog[k].object].item, dialog[k].object, to, "sent")
    BY <1>5 DEF InDialog
  <2> QED BY <2>1, StartedAlone
<1>6. ASSUME NEW j \in sharing, Serve(j) PROVE AloneInv'
  <2>1. UNCHANGED behind
    BY <1>6 DEF Serve
  <2> QED BY <1>6, <2>1, ServedMoves, MovedAlone
<1>7. ASSUME NEW j \in sharing, SharedAccessReturns(j) \/ ProjectReturns(j) PROVE AloneInv'
  <2>1. PICK c : /\ c.alone = j.alone /\ sharing' = (sharing \ {j}) \cup {c}
                 /\ c.step = "load" /\ UNCHANGED behind
    BY <1>7, LoadMoves
  <2> QED BY <2>1, MovedAlone
<1>8. ASSUME NEW j \in sharing,
             FolderCodeReturns(j) \/ DocCodeReturns(j) \/ LevelReturns(j) \/ LoadWorkspace(j) \/ ShareFails(j)
      PROVE AloneInv'
  <2>1. sharing' = sharing \ {j} /\ UNCHANGED rows
    BY <1>8 DEF FolderCodeReturns, DocCodeReturns, LevelReturns, LoadWorkspace, ShareFails, apiVars
  <2>2. behind' = behind \/ behind' = TRUE \/ behind' = (behind /\ ~(j.alone /\ NoneOpen))
    BY <1>8 DEF FolderCodeReturns, DocCodeReturns, LevelReturns, LoadWorkspace, ShareFails
  <2> QED BY <2>1, <2>2, ReturnedAlone
<1> QED BY <1>2, <1>3, <1>4, <1>5, <1>6, <1>7, <1>8 DEF ShareNext

\* Every step keeps the types and the codes.
LEMMA ShareStepTyped ==
  ASSUME ShareTypes, ShareNext
  PROVE  ShareTypes'
<1>1. DOMAIN dialog = Kinds /\ ShareLevels \subseteq PeerLevels
  BY DEF ShareTypes, DialogsOK, PeerLevels
<1>2. ASSUME NEW e \in Shareable,
             OpenShareFolderModal(e) \/ OpenShareModal(e) \/ CreateProject(e) \/ DeleteProject(e)
      PROVE ShareTypes'
  BY <1>2, FolderOpened, DocOpened, ProjectStarted
<1>3. ASSUME NEW k \in Kinds, NEW to \in PeerLevels,
             CloseShareModal(k) \/ InDialog(k, "code", to) \/ InDialog(k, "peer", to)
             \/ (to \in ShareLevels /\ InDialog(k, "level", to))
      PROVE ShareTypes'
  BY <1>3, DialogClosed, DialogStarted
<1>4. CASE LoadAgain
  BY <1>4, ProjectStarted, ShareAssumption
<1>5. ASSUME NEW j \in sharing,
             \/ Serve(j) \/ FolderCodeReturns(j) \/ DocCodeReturns(j) \/ LevelReturns(j)
             \/ SharedAccessReturns(j) \/ ProjectReturns(j) \/ LoadWorkspace(j) \/ ShareFails(j)
      PROVE ShareTypes'
  BY <1>5, Served, FolderCoded, DocCoded, LevelReturned, AccessReturned, ProjectReturned, Loaded, FailedTyped
<1>6. "View" \in PeerLevels
  BY DEF PeerLevels, ShareLevels
<1> QED BY <1>1, <1>2, <1>3, <1>4, <1>5, <1>6 DEF ShareNext

LEMMA ShareStepCodes ==
  ASSUME ShareTypes, CodesInv, ShareNext
  PROVE  CodesInv'
<1>1. DOMAIN dialog = Kinds
  BY DEF ShareTypes, DialogsOK
<1>2. ASSUME NEW does, NEW e, NEW o, NEW to, NEW step, Starts(does, e, o, to, step), UNCHANGED dialog
      PROVE CodesInv'
  BY <1>2, StartedCodes
<1>3. ASSUME NEW e \in Shareable,
             OpenShareFolderModal(e) \/ OpenShareModal(e) \/ CreateProject(e) \/ DeleteProject(e)
      PROVE CodesInv'
  BY <1>2, <1>3, OpenedCodes DEF CreateProject, DeleteProject
<1>4. ASSUME NEW k \in Kinds, CloseShareModal(k) \/ \E does, to : InDialog(k, does, to)
      PROVE CodesInv'
  BY <1>2, <1>4, ClosedCodes DEF InDialog
<1>5. CASE LoadAgain
  BY <1>2, <1>5 DEF LoadAgain
<1>6. ASSUME NEW j \in sharing,
             \/ Serve(j) \/ FolderCodeReturns(j) \/ DocCodeReturns(j) \/ LevelReturns(j)
             \/ SharedAccessReturns(j) \/ ProjectReturns(j) \/ LoadWorkspace(j) \/ ShareFails(j)
      PROVE CodesInv'
  BY <1>6, ServedCodes, FolderCodedCodes, DocCodedCodes, CopySelectedCodes, ProjectReturnedCodes,
     LoadedCodes, FailedCodes
<1> QED BY <1>1, <1>3, <1>4, <1>5, <1>6 DEF ShareNext

\* What is shown: what is not of the job's item stays true, and what is of it is told.
LEMMA EntryTold ==
  ASSUME ShareTypes, NEW B, ListTold(B), NEW e \in Shareable, entry[e] # NoObject
  PROVE  /\ B[e].exists /\ entry[e] \in DOMAIN objects /\ objects[entry[e]].item = e
         /\ Tells(objects[entry[e]], B[e])
BY DEF ShareTypes, HeapOK, ListTold

\* What is not of e stays as it was.
ElseSame(e) ==
  /\ \A o \in DOMAIN objects : objects[o].item # e => objects'[o] = objects[o]
  /\ \A x \in Shareable \ {e} : entry'[x] = entry[x] /\ (x \in unlisted' <=> x \in unlisted)

LEMMA ListFrame ==
  ASSUME ShareTypes, NEW B, NEW C, NEW e \in Shareable, ListTold(B), ElseSame(e),
         \A x \in Shareable \ {e} : C[x] = B[x],
         C[e].exists, entry'[e] # NoObject, NEW v, v = objects'[entry'[e]], Tells(v, C[e])'
  PROVE  ListTold(C)'
<1>1. ASSUME NEW x \in Shareable, x # e, C[x].exists
      PROVE  entry'[x] # NoObject /\ Tells(objects[entry[x]], C[x])' 
  <2>1. entry[x] # NoObject /\ Tells(objects[entry[x]], C[x])
    BY <1>1 DEF ListTold
  <2>2. entry[x] \in DOMAIN objects /\ objects[entry[x]].item = x
    BY <1>1, <2>1 DEF ShareTypes, HeapOK
  <2>3. entry'[x] = entry[x] /\ objects'[entry'[x]] = objects[entry[x]]
        /\ (x \in unlisted' <=> x \in unlisted)
    BY <1>1, <2>2 DEF ElseSame
  <2>4. PICK w : w = objects[entry[x]]
    OBVIOUS
  <2>5. Tells(w, C[x])'
    BY <2>1, <2>2, <2>3, <2>4 DEF Tells
  <2> QED BY <2>1, <2>3, <2>4, <2>5
<1>2. ASSUME NEW x \in Shareable, x # e, ~C[x].exists PROVE entry'[x] = NoObject
  BY <1>2 DEF ListTold, ElseSame
<1>3. Tells(objects[entry[e]], C[e])'
  OBVIOUS
<1> QED BY <1>1, <1>2, <1>3 DEF ListTold

LEMMA DialogFrame ==
  ASSUME ShareTypes, NEW B, NEW C, NEW e \in Shareable, ElseSame(e),
         \A x \in Shareable \ {e} : C[x] = B[x],
         NEW k \in Kinds, k # Kind(e), dialog'[k] = dialog[k], DialogTold(k, B)
  PROVE  DialogTold(k, C)'
<1>1. SUFFICES ASSUME dialog'[k].open PROVE DialogTold(k, C)'
  BY DEF DialogTold
<1>2. PICK p, o : p = dialog[k].object /\ o = objects[p]
  OBVIOUS
<1>3. p # NoObject /\ p \in DOMAIN objects /\ Kind(o.item) = k /\ o.item \in Shareable
  BY <1>1, <1>2 DEF DialogTold, ShareTypes, DialogsOK, HeapOK, ObjectType
<1>4. /\ Tells(o, B[o.item]) /\ dialog[k].code = B[o.item].code
      /\ k = "document" => dialog[k].level = B[o.item].level \/ dialog[k].dated
  BY <1>1, <1>2 DEF DialogTold
<1>5. o.item # e
  BY <1>3
<1>6. C[o.item] = B[o.item] /\ objects'[p] = o /\ (o.item \in unlisted' <=> o.item \in unlisted)
  BY <1>2, <1>3, <1>5 DEF ElseSame
<1>7. Tells(o, C[o.item])'
  BY <1>4, <1>6 DEF Tells
<1> QED BY <1>2, <1>3, <1>4, <1>6, <1>7, SMTT(30) DEF DialogTold

LEMMA SameShown ==
  ASSUME ShareTypes, NEW B, ToldAll(B), UNCHANGED <<entry, unlisted>>,
         \A o \in DOMAIN objects : objects'[o] = objects[o],
         \A k \in Kinds : dialog'[k] = dialog[k] \/ ~dialog'[k].open
  PROVE  ToldAll(B)'
<1>1. ListTold(B)'
  <2>1. \A e \in Shareable : entry[e] # NoObject => objects'[entry'[e]] = objects[entry[e]]
    BY DEF ShareTypes, HeapOK
  <2>2. ASSUME NEW e \in Shareable, B[e].exists PROVE entry'[e] # NoObject /\ Tells(objects[entry[e]], B[e])'
    <3>1. entry[e] # NoObject /\ Tells(objects[entry[e]], B[e])
      BY <2>2 DEF ToldAll, ListTold
    <3> QED BY <2>1, <3>1 DEF Tells
  <2>3. \A e \in Shareable : ~B[e].exists => entry'[e] = NoObject
    BY DEF ToldAll, ListTold
  <2> QED BY <2>2, <2>3 DEF ListTold
<1>2. ASSUME NEW k \in Kinds, dialog'[k] = dialog[k], dialog'[k].open PROVE DialogTold(k, B)'
  <2>1. PICK p, o : p = dialog[k].object /\ o = objects[p]
    OBVIOUS
  <2>2. p # NoObject /\ p \in DOMAIN objects
    BY <1>2, <2>1 DEF ToldAll, DialogTold, ShareTypes, DialogsOK
  <2>3. /\ Tells(o, B[o.item]) /\ dialog[k].code = B[o.item].code
        /\ k = "document" => dialog[k].level = B[o.item].level \/ dialog[k].dated
    BY <1>2, <2>1 DEF ToldAll, DialogTold
  <2>4. objects'[p] = o /\ Tells(o, B[o.item])'
    BY <2>1, <2>2, <2>3 DEF Tells
  <2> QED BY <1>2, <2>1, <2>2, <2>3, <2>4 DEF DialogTold
<1>3. \A k \in Kinds : DialogTold(k, B)'
  <2>1. TAKE k \in Kinds
  <2>2. CASE dialog'[k].open
    BY <1>2, <2>2
  <2>3. CASE ~dialog'[k].open
    BY <2>3 DEF DialogTold
  <2> QED BY <2>2, <2>3
<1> QED BY <1>1, <1>3 DEF ToldAll

LEMMA StartedOne ==
  ASSUME sharing = {}, NEW does, NEW e, NEW o, NEW to, NEW step, Starts(does, e, o, to, step)
  PROVE  /\ UNCHANGED <<rows, objects, entry, unlisted>>
         /\ \E n : /\ sharing' = {n} /\ n.does = does /\ n.item = e /\ n.object = o /\ n.to = to
                  /\ n.step = step
<1>1. PICK n : n = [nr |-> shareClicks + 1, does |-> does, item |-> e, object |-> o, to |-> to,
                    step |-> step, answer |-> rows, alone |-> sharing = {}]
  OBVIOUS
<1>2. sharing' = {[j EXCEPT !.alone = FALSE] : j \in sharing} \cup {n}
      /\ UNCHANGED <<rows, objects, entry, unlisted>>
  BY <1>1 DEF Starts, heapVars, apiVars
<1>3. sharing' = {n}
  BY <1>2
<1> QED BY <1>1, <1>2, <1>3

\* A handler that starts alone, on what is shown truly.
LEMMA StartedSettles ==
  ASSUME NEW B \in [Shareable -> Row], B = rows, NEW does, NEW e \in Shareable, NEW o, NEW to, NEW step,
         sharing = {}, Starts(does, e, o, to, step), ToldAll(B)',
         step = IF does = "load" THEN "load" ELSE "sent",
         \A n : n.does = does /\ n.item = e /\ n.object = o /\ n.to = to /\ n.step = step => Holds(n, B)'
  PROVE  SettleInv'
<1>1. PICK n : /\ sharing' = {n} /\ n.does = does /\ n.item = e /\ n.object = o /\ n.to = to
               /\ n.step = step /\ UNCHANGED rows
  BY StartedOne
<1>2. Holds(n, B)'
  BY <1>1
<1>3. Ahead(n, B)'
  <2>1. ~(n.step = "done" \/ (n.does \in {"create", "delete"} /\ n.step # "sent"))
    BY <1>1
  <2> QED BY <1>1, <2>1 DEF Ahead
<1> QED BY <1>1, <1>2, <1>3 DEF SettleInv, Believed

\* A click while nothing is behind: no job was under way, what is shown is the API's.
LEMMA ClickSettled ==
  ASSUME ShareTypes, SettleInv, ShareClick, ~behind'
  PROVE  sharing = {} /\ \E B \in [Shareable -> Row] : B = rows /\ ToldAll(B)
BY DEF ShareClick, SettleInv, Believed

LEMMA FolderOpenSettles ==
  ASSUME ShareTypes, SettleInv, NEW e \in Shareable, OpenShareFolderModal(e)
  PROVE  SettleInv'
<1> SUFFICES ASSUME ~behind' PROVE SettleInv'
  BY DEF SettleInv
<1>1. ShareClick /\ entry[e] # NoObject /\ e \in SharedFolders /\ NoneOpen
      /\ UNCHANGED <<rows, objects, entry, unlisted>>
  BY DEF OpenShareFolderModal, Starts, heapVars, apiVars
<1>2. PICK B \in [Shareable -> Row] : sharing = {} /\ B = rows /\ ToldAll(B)
  BY <1>1, ClickSettled
<1>3. PICK p, o : p = entry[e] /\ o = objects[p]
  OBVIOUS
<1>4. p \in DOMAIN objects /\ p # NoObject /\ o.item = e /\ Tells(o, B[e]) /\ e \notin SharedDocs
  BY <1>1, <1>2, <1>3, EntryTold, ShareAssumption DEF ToldAll
<1>5. Tells(o, B[e])'
  BY <1>1, <1>4 DEF Tells
<1>6. CASE o.code # NoCode
  <2>1. dialog' = [dialog EXCEPT !["folder"] = [Closed EXCEPT !.open = TRUE, !.object = p, !.code = o.code]]
        /\ UNCHANGED sharing
    BY <1>3, <1>6 DEF OpenShareFolderModal
  <2>2. dialog'["folder"].object = p /\ dialog'["folder"].code = o.code
        /\ \A k \in Kinds \ {"folder"} : ~dialog'[k].open
    BY <1>1, <2>1 DEF Closed, ShareTypes, DialogsOK, Kinds, NoneOpen
  <2>3. o.code = B[e].code
    BY <1>4 DEF Tells
  <2>4. DialogTold("folder", B)'
    BY <1>1, <1>3, <1>4, <1>5, <2>2, <2>3 DEF DialogTold
  <2>5. \A k \in Kinds : DialogTold(k, B)'
    <3>1. \A k \in Kinds \ {"folder"} : DialogTold(k, B)'
      BY <2>2 DEF DialogTold
    <3> QED BY <2>4, <3>1
  <2>6. ListTold(B)'
    BY <1>1, <1>2 DEF ToldAll, ListTold, Tells
  <2>7. ToldAll(B)' /\ sharing' = {} /\ B = rows'
    BY <1>1, <1>2, <2>1, <2>5, <2>6 DEF ToldAll
  <2> QED BY <2>7 DEF SettleInv, Believed
<1>7. CASE o.code = NoCode
  <2>1. Starts("open", e, p, "View", "sent") /\ UNCHANGED dialog
    BY <1>3, <1>7 DEF OpenShareFolderModal
  <2>2. ToldAll(B)'
    BY <1>1, <1>2, <2>1, SameShown
  <2>3. ASSUME NEW n, n.does = "open", n.item = e, n.object = p, n.step = "sent" PROVE Holds(n, B)'
    BY <1>1, <1>3, <1>4, <1>5, <2>1, <2>3 DEF Holds, NoneOpen, OnObject
  <2> QED BY <1>2, <2>1, <2>2, <2>3, StartedSettles
<1> QED BY <1>6, <1>7

LEMMA DocOpenSettles ==
  ASSUME ShareTypes, SettleInv, NEW e \in Shareable, OpenShareModal(e)
  PROVE  SettleInv'
<1> SUFFICES ASSUME ~behind' PROVE SettleInv'
  BY DEF SettleInv
<1>1. ShareClick /\ entry[e] # NoObject /\ e \in SharedDocs /\ NoneOpen
      /\ UNCHANGED <<rows, objects, entry, unlisted>>
  BY DEF OpenShareModal, Starts, heapVars, apiVars
<1>2. PICK B \in [Shareable -> Row] : sharing = {} /\ B = rows /\ ToldAll(B)
  BY <1>1, ClickSettled
<1>3. PICK p, o : p = entry[e] /\ o = objects[p]
  OBVIOUS
<1>4. p \in DOMAIN objects /\ p # NoObject /\ o.item = e /\ Tells(o, B[e])
  BY <1>1, <1>2, <1>3, EntryTold DEF ToldAll
<1>5. Tells(o, B[e])'
  BY <1>1, <1>4 DEF Tells
<1>6. PICK s : s = [dialog["document"] EXCEPT !.object = p, !.level = o.level, !.dated = (e \in unlisted)]
  OBVIOUS
<1>7. /\ DOMAIN s = {"open", "object", "code", "level", "dated", "mixed"} /\ s.object = p
      /\ s.level = o.level /\ (s.dated <=> e \in unlisted) /\ s.open = dialog["document"].open
  <2>1. dialog["document"] \in DialogType
    BY DEF ShareTypes, DialogsOK, Kinds
  <2>2. DOMAIN dialog["document"] = {"open", "object", "code", "level", "dated", "mixed"}
    BY <2>1 DEF DialogType
  <2> QED BY <1>6, <2>2
<1>8. s.level = B[e].level \/ s.dated
  BY <1>4, <1>7 DEF Tells
<1>9. DOMAIN dialog = Kinds /\ "document" \in Kinds /\ (\A k \in Kinds : ~dialog[k].open)
  BY <1>1 DEF ShareTypes, DialogsOK, Kinds, NoneOpen
<1>10. CASE o.code # NoCode
  <2>1. dialog' = [dialog EXCEPT !["document"] = [s EXCEPT !.open = TRUE, !.code = o.code, !.mixed = FALSE]]
        /\ UNCHANGED sharing
    BY <1>3, <1>6, <1>10 DEF OpenShareModal
  <2>2. dialog'["document"].object = p /\ dialog'["document"].code = o.code
        /\ dialog'["document"].level = s.level /\ dialog'["document"].dated = s.dated
        /\ \A k \in Kinds \ {"document"} : ~dialog'[k].open
    BY <1>7, <1>9, <2>1
  <2>3. o.code = B[e].code
    BY <1>4, <1>10 DEF Tells
  <2>4. DialogTold("document", B)'
    BY <1>1, <1>3, <1>4, <1>5, <1>8, <2>2, <2>3 DEF DialogTold
  <2>5. \A k \in Kinds : DialogTold(k, B)'
    <3>1. \A k \in Kinds \ {"document"} : DialogTold(k, B)'
      BY <2>2 DEF DialogTold
    <3> QED BY <2>4, <3>1
  <2>6. ListTold(B)'
    BY <1>1, <1>2 DEF ToldAll, ListTold, Tells
  <2>7. ToldAll(B)' /\ sharing' = {} /\ B = rows'
    BY <1>1, <1>2, <2>1, <2>5, <2>6 DEF ToldAll
  <2> QED BY <2>7 DEF SettleInv, Believed
<1>11. CASE o.code = NoCode
  <2>1. Starts("open", e, p, "View", "sent") /\ dialog' = [dialog EXCEPT !["document"] = [s EXCEPT !.mixed = TRUE]]
    BY <1>3, <1>6, <1>11 DEF OpenShareModal
  <2>2. /\ DOMAIN dialog' = Kinds /\ \A k \in Kinds : ~dialog'[k].open
        /\ dialog'["document"].level = s.level /\ dialog'["document"].dated = s.dated
    BY <1>7, <1>9, <2>1
  <2>3. ToldAll(B)'
    BY <1>1, <1>2, <2>2, SameShown
  <2>4. ASSUME NEW n, n.does = "open", n.item = e, n.object = p, n.step = "sent" PROVE Holds(n, B)'
    <3>1. Kind(e) = "document" /\ NoneOpen'
      BY <1>1, <2>2, KindOf DEF NoneOpen
    <3> QED BY <1>1, <1>3, <1>4, <1>5, <1>8, <1>11, <2>2, <2>4, <3>1 DEF Holds, OnObject
  <2> QED BY <1>2, <2>1, <2>3, <2>4, StartedSettles
<1> QED BY <1>10, <1>11

LEMMA CloseSettles ==
  ASSUME ShareTypes, SettleInv, NEW k \in Kinds, CloseShareModal(k)
  PROVE  SettleInv'
<1> SUFFICES ASSUME ~behind' PROVE SettleInv'
  BY DEF SettleInv
<1>1. dialog[k].open /\ UNCHANGED <<rows, objects, entry, unlisted, sharing, behind>>
  BY DEF CloseShareModal, heapVars, apiVars
<1>2. PICK B \in [Shareable -> Row] : Believed(B)
  BY <1>1 DEF SettleInv
<1>3. ~dialog'[k].open /\ (\A q \in Kinds \ {k} : dialog'[q] = dialog[q]) /\ DOMAIN dialog = Kinds
  <2>1. dialog \in [Kinds -> DialogType]
    BY DEF ShareTypes, DialogsOK
  <2> QED BY <2>1 DEF CloseShareModal, Closed, DialogType
<1>4. ToldAll(B)'
  BY <1>1, <1>2, <1>3, SameShown DEF Believed
<1>5. ASSUME NEW j \in sharing PROVE Holds(j, B)'
  <2>1. Holds(j, B) /\ Kind(j.item) \in Kinds
    BY <1>2, JobTyped DEF Believed
  <2>2. j.does \notin {"open", "create", "delete"}
    BY <1>1, <1>3, <2>1 DEF Holds, NoneOpen
  <2>3. dialog'[Kind(j.item)] = dialog[Kind(j.item)] \/ ~dialog'[Kind(j.item)].open
    BY <1>3, <2>1
  <2> QED BY <1>1, <2>1, <2>2, <2>3 DEF Holds, Tells
<1>6. \A j \in sharing : Ahead(j, B)'
  BY <1>1, <1>2 DEF Believed, Ahead
<1> QED BY <1>1, <1>2, <1>4, <1>5, <1>6 DEF SettleInv, Believed

LEMMA InDialogSettles ==
  ASSUME ShareTypes, SettleInv, NEW k \in Kinds, NEW does \in {"code", "level", "peer"}, NEW to,
         InDialog(k, does, to)
  PROVE  SettleInv'
<1> SUFFICES ASSUME ~behind' PROVE SettleInv'
  BY DEF SettleInv
<1>1. PICK p, o, e : p = dialog[k].object /\ o = objects[p] /\ e = o.item
  OBVIOUS
<1>2. Starts(does, e, p, to, "sent") /\ UNCHANGED dialog /\ dialog[k].open /\ p # NoObject
  BY <1>1 DEF InDialog
<1>3. PICK B \in [Shareable -> Row] : sharing = {} /\ B = rows /\ ToldAll(B)
  BY <1>2, ClickSettled DEF Starts
<1>4. p \in DOMAIN objects /\ Kind(e) = k /\ e \in Shareable
  BY <1>1, <1>2 DEF ShareTypes, DialogsOK, HeapOK, ObjectType
<1>5. UNCHANGED <<rows, objects, entry, unlisted>>
  BY <1>2 DEF Starts, heapVars, apiVars
<1>6. ToldAll(B)'
  BY <1>2, <1>3, <1>5, SameShown
<1>7. Tells(o, B[e])
  BY <1>1, <1>2, <1>3 DEF ToldAll, DialogTold
<1>8. ASSUME NEW n, n.does = does, n.item = e, n.object = p, n.step = "sent" PROVE Holds(n, B)'
  BY <1>1, <1>2, <1>4, <1>5, <1>7, <1>8 DEF Holds, OnObject, Tells
<1> QED BY <1>2, <1>3, <1>4, <1>6, <1>8, StartedSettles

LEMMA ProjectSettles ==
  ASSUME ShareTypes, SettleInv, NEW e \in Shareable, CreateProject(e) \/ DeleteProject(e) \/ LoadAgain
  PROVE  SettleInv'
<1> SUFFICES ASSUME ~behind' PROVE SettleInv'
  BY DEF SettleInv
<1>1. PICK does, x, step : /\ Starts(does, x, NoObject, "View", step) /\ UNCHANGED dialog
                           /\ x \in Shareable /\ does \in {"create", "delete", "load"}
                           /\ step = (IF does = "load" THEN "load" ELSE "sent")
                           /\ does # "load" => NoneOpen
  BY ShareAssumption DEF CreateProject, DeleteProject, LoadAgain
<1>2. PICK B \in [Shareable -> Row] : sharing = {} /\ B = rows /\ ToldAll(B)
  BY <1>1, ClickSettled DEF Starts
<1>3. UNCHANGED <<rows, objects, entry, unlisted>>
  BY <1>1 DEF Starts, heapVars, apiVars
<1>4. ToldAll(B)'
  BY <1>1, <1>2, <1>3, SameShown
<1>5. ASSUME NEW n, n.does = does PROVE Holds(n, B)'
  BY <1>1, <1>5 DEF Holds, OnObject, NoneOpen
<1> QED BY <1>1, <1>2, <1>4, <1>5, StartedSettles

\* What the row of a job's item has more than was believed.
LEMMA AheadBy ==
  ASSUME ShareTypes, NEW B \in [Shareable -> Row], NEW j \in sharing, Ahead(j, B)
  PROVE  LET new == rows[j.item]  old == B[j.item] IN
         /\ \A x \in Shareable \ {j.item} : rows[x] = B[x]
         /\ j.does \in {"peer", "load"} /\ j.step # "done" => new = old
         /\ j.does \in OnObject /\ j.step = "done" =>
              /\ new.exists = old.exists
              /\ j.does # "peer" => new.peer = old.peer
              /\ j.does # "level" => new.level = old.level
              /\ j.does \in {"level", "peer"} => new.code = old.code
              /\ j.does = "level" => new.level = j.to
              /\ j.does = "peer" => new.peer = j.to
<1>1. PICK new \in Row, old \in Row : new = rows[j.item] /\ old = B[j.item]
  BY JobTyped DEF ShareTypes
<1>2. \A x \in Shareable \ {j.item} : rows[x] = B[x]
  BY DEF Ahead
<1>3. j.does \in {"peer", "load"} /\ j.step # "done" => new = old
  BY <1>1 DEF Ahead
<1>4. j.step = "done" => Changed(j, old, new)
  BY <1>1 DEF Ahead
<1>5. j.does \in OnObject /\ j.step = "done" =>
        /\ new.exists = old.exists
        /\ j.does # "peer" => new.peer = old.peer
        /\ j.does # "level" => new.level = old.level
        /\ j.does \in {"level", "peer"} => new.code = old.code
        /\ j.does = "level" => new.level = j.to
        /\ j.does = "peer" => new.peer = j.to
  <2>1. CASE j.does \in {"open", "code"} /\ j.step = "done"
    <3>1. new = [old EXCEPT !.code = new.code]
      BY <1>4, <2>1 DEF Changed
    <3> QED BY <1>1, <2>1, <3>1 DEF Row
  <2>2. CASE j.does = "level" /\ j.step = "done"
    <3>1. new = [old EXCEPT !.level = j.to]
      BY <1>4, <2>2 DEF Changed
    <3> QED BY <1>1, <2>2, <3>1 DEF Row
  <2>3. CASE j.does = "peer" /\ j.step = "done"
    <3>1. new = [old EXCEPT !.peer = j.to]
      BY <1>4, <2>3 DEF Changed
    <3> QED BY <1>1, <2>3, <3>1 DEF Row
  <2> QED BY <2>1, <2>2, <2>3 DEF OnObject
<1> QED BY <1>1, <1>2, <1>3, <1>5

\* A job under way while nothing is behind.
LEMMA AloneBelieved ==
  ASSUME AloneInv, SettleInv, ~behind, NEW j \in sharing
  PROVE  /\ sharing = {j} /\ (j.step \in {"done", "loaded"} => j.answer = rows)
         /\ \E B \in [Shareable -> Row] : ToldAll(B) /\ Ahead(j, B) /\ Holds(j, B)
BY DEF AloneInv, SettleInv, Believed

LEMMA ServeSettles ==
  ASSUME ShareTypes, AloneInv, SettleInv, NEW j \in sharing, Serve(j)
  PROVE  SettleInv'
<1> SUFFICES ASSUME ~behind' PROVE SettleInv'
  BY DEF SettleInv
<1>1. UNCHANGED <<objects, entry, unlisted, behind>> /\ UNCHANGED dialog
  BY DEF Serve, heapVars
<1>2. sharing = {j} /\ \E B \in [Shareable -> Row] : ToldAll(B) /\ Ahead(j, B) /\ Holds(j, B)
  BY <1>1, AloneBelieved
<1>3. PICK B \in [Shareable -> Row] : ToldAll(B) /\ Ahead(j, B) /\ Holds(j, B)
  BY <1>2
<1>4. PICK c : /\ sharing' = {c} /\ c.does = j.does /\ c.item = j.item /\ c.object = j.object /\ c.to = j.to
               /\ \/ c.step = "done" /\ j.step = "sent"
                  \/ c.step = "loaded" /\ j.step = "load" /\ UNCHANGED rows
  BY <1>2, ServedMoves
<1>5. ToldAll(B)'
  BY <1>1, <1>3, SameShown
<1>6. j.item \in Shareable /\ JobOK(j) /\ rows \in [Shareable -> Row] /\ j.does \in Jobs
  BY JobTyped DEF ShareTypes, ShareJob
<1>7. Holds(c, B)'
  BY <1>1, <1>3, <1>4, <1>6 DEF Holds, NoneOpen, Tells, JobOK
<1>8. Ahead(c, B)'
  <2>1. CASE j.step = "sent"
    <3>1. rows' = [rows EXCEPT ![j.item] = Requested(rows[j.item], j)]
      BY <2>1 DEF Serve
    <3>2. rows[j.item] = B[j.item] /\ \A x \in Shareable \ {j.item} : rows[x] = B[x]
      BY <1>3, <2>1 DEF Ahead
    <3>3. PICK old, new : old \in Row /\ old = B[j.item] /\ new = rows'[j.item]
      BY <1>6
    <3>4. new = Requested(old, j)
      BY <1>6, <3>1, <3>2, <3>3
    <3>5. j.does # "load"
      BY <1>6, <2>1 DEF JobOK
    <3>6. Changed(j, old, new)
      BY <1>6, <3>3, <3>4, <3>5 DEF Changed, Requested, Jobs, Row
    <3>7. Changed(c, old, new)
      BY <1>4, <3>6 DEF Changed
    <3>8. Changed(c, B[j.item], rows[j.item])'
      BY <3>3, <3>7 DEF Changed
    <3>9. \A x \in Shareable \ {j.item} : rows'[x] = B[x]
      BY <1>6, <3>1, <3>2
    <3> QED BY <1>4, <2>1, <3>8, <3>9 DEF Ahead
  <2>2. CASE j.step = "load"
    <3>1. UNCHANGED rows /\ c.step = "loaded"
      BY <1>4, <2>2
    <3>2. CASE j.does \in {"create", "delete"}
      <4>1. Changed(j, B[j.item], rows[j.item]) /\ \A x \in Shareable \ {j.item} : rows[x] = B[x]
        BY <1>3, <2>2, <3>2 DEF Ahead
      <4>2. Changed(c, B[c.item], rows[c.item])'
        BY <1>4, <3>1, <4>1 DEF Changed
      <4> QED BY <1>4, <3>1, <3>2, <4>1, <4>2 DEF Ahead
    <3>3. CASE j.does \notin {"create", "delete"}
      <4>1. rows[j.item] = B[j.item] /\ \A x \in Shareable \ {j.item} : rows[x] = B[x]
        BY <1>3, <2>2, <3>3 DEF Ahead
      <4> QED BY <1>4, <3>1, <3>3, <4>1 DEF Ahead
    <3> QED BY <3>2, <3>3
  <2> QED BY <1>4, <2>1, <2>2
<1> QED BY <1>4, <1>5, <1>7, <1>8 DEF SettleInv, Believed

\* What returns to the last job: what is shown is what the API has.
LEMMA AllReturned ==
  ASSUME ShareTypes, NEW C, C = rows, UNCHANGED rows, sharing' = {}, ToldAll(C)'
  PROVE  SettleInv'
<1>1. C \in [Shareable -> Row] /\ C = rows'
  BY DEF ShareTypes
<1> QED BY <1>1 DEF SettleInv, Believed

\* The dialogs, the one of kind k showing what is told.
LEMMA ShownAgain ==
  ASSUME ShareTypes, NEW B, NEW C, NEW e \in Shareable, ToldAll(B), ElseSame(e), ListTold(C)',
         \A x \in Shareable \ {e} : C[x] = B[x],
         \A q \in Kinds \ {Kind(e)} : dialog'[q] = dialog[q] \/ ~dialog'[q].open,
         DialogTold(Kind(e), C)'
  PROVE  ToldAll(C)'
<1>1. ASSUME NEW q \in Kinds \ {Kind(e)} PROVE DialogTold(q, C)'
  <2>1. CASE ~dialog'[q].open
    BY <2>1 DEF DialogTold
  <2>2. CASE dialog'[q] = dialog[q]
    BY <2>2, DialogFrame DEF ToldAll
  <2> QED BY <1>1, <2>1, <2>2
<1> QED BY <1>1 DEF ToldAll

LEMMA FolderCodeSettles ==
  ASSUME ShareTypes, AloneInv, SettleInv, NEW j \in sharing, FolderCodeReturns(j)
  PROVE  SettleInv'
<1> SUFFICES ASSUME ~behind' PROVE SettleInv'
  BY DEF SettleInv
<1>1. UNCHANGED <<rows, unlisted, behind>> /\ sharing' = sharing \ {j} /\ j.step = "done"
      /\ j.does \in {"open", "code"}
  BY DEF FolderCodeReturns, apiVars
<1>2. sharing = {j} /\ j.answer = rows
      /\ \E B \in [Shareable -> Row] : ToldAll(B) /\ Ahead(j, B) /\ Holds(j, B)
  BY <1>1, AloneBelieved
<1>3. PICK B, C : B \in [Shareable -> Row] /\ C = rows /\ ToldAll(B) /\ Ahead(j, B) /\ Holds(j, B)
  BY <1>2
<1>4. PICK e, n, t : e = j.item /\ n = Name(e, 1) /\ t = Name(e, 2)
  OBVIOUS
<1>5. /\ e \in Shareable /\ e \in SharedFolders /\ e \notin SharedDocs /\ Kind(e) = "folder"
      /\ C[e] \in Row /\ n # NoObject /\ t # NoObject
  BY <1>3, <1>4, JobTyped, KindOf, FreshName, ShareAssumption DEF FolderCodeReturns, ShareTypes
<1>6. /\ HeapGrows /\ CodedNow("folder", n, C[e].code, j.does = "open")
      /\ \A o \in DOMAIN objects : objects'[o] = objects[o]
      /\ objects'[n] = Object(e, C[e])
      /\ entry[e] # NoObject => objects'[t] = [objects[entry[e]] EXCEPT !.code = C[e].code]
  BY <1>2, <1>3, <1>4, FolderCoded
<1>7. /\ \A x \in Shareable \ {e} : C[x] = B[x]
      /\ C[e].exists = B[e].exists /\ C[e].peer = B[e].peer /\ C[e].level = B[e].level
  BY <1>1, <1>3, <1>4, AheadBy DEF OnObject
<1>8. B[e].exists /\ entry[e] # NoObject
  <2>1. Tells(objects[j.object], B[e])
    BY <1>1, <1>3, <1>4 DEF Holds, OnObject
  <2> QED BY <1>3, <1>5, <2>1 DEF Tells, ToldAll, ListTold
<1>9. entry' = [entry EXCEPT ![e] = t]
  BY <1>4, <1>8 DEF FolderCodeReturns, Listed
<1>10. entry'[e] = t /\ \A x \in Shareable \ {e} : entry'[x] = entry[x]
  BY <1>5, <1>9 DEF ShareTypes, HeapOK
<1>11. ElseSame(e)
  BY <1>1, <1>6, <1>10 DEF ElseSame
<1>12. ListTold(C)'
  <2>1. PICK b \in ObjectType : b = objects[entry[e]] /\ b.item = e /\ Tells(b, B[e])
    BY <1>3, <1>5, <1>8, EntryTold DEF ToldAll, ShareTypes, HeapOK
  <2>2. PICK v : v = [b EXCEPT !.code = C[e].code]
    OBVIOUS
  <2>3. v.item = e /\ v.code = C[e].code /\ v.peer = b.peer /\ v.level = b.level
    BY <2>1, <2>2 DEF ObjectType
  <2>4. v = objects'[entry'[e]]
    BY <1>6, <1>8, <1>10, <2>1, <2>2
  <2>5. Tells(v, C[e])'
    BY <1>1, <1>7, <1>8, <2>1, <2>3 DEF Tells
  <2> QED BY <1>3, <1>5, <1>7, <1>8, <1>10, <1>11, <2>4, <2>5, ListFrame DEF ToldAll
<1>13. DialogTold("folder", C)'
  <2>1. dialog'["folder"].object = n /\ dialog'["folder"].code = C[e].code
    BY <1>6 DEF CodedNow
  <2>2. PICK v : v = Object(e, C[e])
    OBVIOUS
  <2>3. v.item = e /\ Tells(v, C[e])'
    BY <1>7, <1>8, <2>2 DEF Tells, Object
  <2> QED BY <1>5, <1>6, <2>1, <2>2, <2>3 DEF DialogTold
<1>14. \A q \in Kinds \ {Kind(e)} : dialog'[q] = dialog[q]
  BY <1>5, <1>6 DEF CodedNow
<1>15. ToldAll(C)'
  BY <1>3, <1>5, <1>7, <1>11, <1>12, <1>13, <1>14, ShownAgain
<1> QED BY <1>1, <1>2, <1>3, <1>15, AllReturned

\* After one object was made from x, which is of e.
LEMMA MadeFrame ==
  ASSUME ShareTypes, NEW e \in Shareable, NEW x, NEW v, Made(e, x, v),
         x \notin DOMAIN objects \/ objects[x].item = e,
         \A y \in Shareable \ {e} : entry'[y] = entry[y] /\ (y \in unlisted' <=> y \in unlisted)
  PROVE  ElseSame(e)
BY DEF Made, ElseSame

LEMMA DocCodeSettles ==
  ASSUME ShareTypes, AloneInv, SettleInv, NEW j \in sharing, DocCodeReturns(j)
  PROVE  SettleInv'
<1> SUFFICES ASSUME ~behind' PROVE SettleInv'
  BY DEF SettleInv
<1>1. UNCHANGED <<rows, unlisted, behind>> /\ sharing' = sharing \ {j} /\ j.step = "done"
      /\ j.does \in {"open", "code"}
  BY DEF DocCodeReturns, apiVars
<1>2. sharing = {j} /\ j.answer = rows
      /\ \E B \in [Shareable -> Row] : ToldAll(B) /\ Ahead(j, B) /\ Holds(j, B)
  BY <1>1, AloneBelieved
<1>3. PICK B, C : B \in [Shareable -> Row] /\ C = rows /\ ToldAll(B) /\ Ahead(j, B) /\ Holds(j, B)
  BY <1>2
<1>4. PICK e, n, v : e = j.item /\ n = Name(e, 1) /\ v = Object(e, C[e])
  OBVIOUS
<1>5. /\ e \in Shareable /\ e \in SharedDocs /\ Kind(e) = "document" /\ "document" \in Kinds
      /\ n # NoObject /\ n \notin DOMAIN objects /\ v.item = e /\ v.code = C[e].code
      /\ v.level = C[e].level /\ v.peer = C[e].peer
  BY <1>4, JobTyped, KindOf, FreshName DEF DocCodeReturns, ShareTypes, Object
<1>6. /\ Made(e, n, v) /\ CodedNow("document", n, C[e].code, j.does = "open")
  BY <1>2, <1>3, <1>4, DocCoded
<1>7. /\ \A x \in Shareable \ {e} : C[x] = B[x]
      /\ C[e].exists = B[e].exists /\ C[e].peer = B[e].peer /\ C[e].level = B[e].level
  BY <1>1, <1>3, <1>4, AheadBy DEF OnObject
<1>8. B[e].exists /\ entry[e] # NoObject
  <2>1. Tells(objects[j.object], B[e])
    BY <1>1, <1>3, <1>4 DEF Holds, OnObject
  <2> QED BY <1>3, <1>5, <2>1 DEF Tells, ToldAll, ListTold
<1>9. entry[e] \in DOMAIN objects /\ objects[entry[e]].item = e /\ Tells(objects[entry[e]], B[e])
  BY <1>3, <1>5, <1>8, EntryTold DEF ToldAll
<1>10. entry' = IF j.does = "code" THEN [entry EXCEPT ![e] = n] ELSE entry
  BY <1>4, <1>8 DEF DocCodeReturns, Listed
<1>11. entry'[e] = (IF j.does = "code" THEN n ELSE entry[e])
       /\ \A x \in Shareable \ {e} : entry'[x] = entry[x]
  BY <1>5, <1>10 DEF ShareTypes, HeapOK
<1>12. ElseSame(e)
  BY <1>1, <1>5, <1>6, <1>11, MadeFrame
<1>13. objects'[n] = v /\ objects'[entry[e]] = objects[entry[e]]
  BY <1>5, <1>6, <1>9 DEF Made
<1>14. Tells(v, C[e])'
  BY <1>5, <1>7, <1>8 DEF Tells
<1>15. ListTold(C)'
  <2>1. CASE j.does = "code"
    BY <1>3, <1>5, <1>7, <1>8, <1>11, <1>12, <1>13, <1>14, <2>1, ListFrame DEF ToldAll
  <2>2. CASE j.does = "open"
    <3>1. PICK w : w = objects[entry[e]]
      OBVIOUS
    <3>2. entry[e] = j.object /\ objects[j.object].code = NoCode
      BY <1>3, <1>4, <1>5, <2>2 DEF Holds
    <3>3. w.code = NoCode /\ w.item = e /\ Tells(w, B[e])
      BY <1>9, <3>1, <3>2
    <3>4. Tells(w, C[e])'
      BY <1>1, <1>5, <1>7, <1>8, <3>3 DEF Tells
    <3>5. w = objects'[entry'[e]] /\ entry'[e] # NoObject
      BY <1>8, <1>11, <1>13, <2>2, <3>1
    <3> QED BY <1>3, <1>5, <1>7, <1>8, <1>12, <3>4, <3>5, ListFrame DEF ToldAll
  <2> QED BY <1>1, <2>1, <2>2
<1>16. DialogTold("document", C)'
  <2>1. /\ dialog'["document"].object = n /\ dialog'["document"].code = C[e].code
        /\ (dialog'["document"].open <=> dialog["document"].open \/ j.does = "open")
        /\ dialog'["document"].level = dialog["document"].level
        /\ dialog'["document"].dated = dialog["document"].dated
    BY <1>6 DEF CodedNow
  <2>2. dialog'["document"].open =>
          dialog["document"].level = B[e].level \/ dialog["document"].dated
    <3>1. CASE j.does = "open"
      BY <1>3, <1>4, <1>5, <3>1 DEF Holds
    <3>2. CASE j.does = "code" /\ dialog["document"].open
      <4>1. dialog["document"].object = j.object
        BY <1>1, <1>3, <1>4, <1>5, <3>2 DEF Holds
      <4>2. objects[j.object].item = e
        BY <1>4, <3>2, JobTyped DEF JobOK, OnObject
      <4> QED BY <1>3, <1>5, <3>2, <4>1, <4>2 DEF ToldAll, DialogTold
    <3> QED BY <1>1, <2>1, <3>1, <3>2
  <2> QED BY <1>5, <1>7, <1>13, <1>14, <2>1, <2>2 DEF DialogTold
<1>17. \A q \in Kinds \ {Kind(e)} : dialog'[q] = dialog[q]
  BY <1>5, <1>6 DEF CodedNow
<1>18. ToldAll(C)'
  BY <1>3, <1>5, <1>7, <1>12, <1>15, <1>16, <1>17, ShownAgain
<1> QED BY <1>1, <1>2, <1>3, <1>18, AllReturned

\* The job's object is the one its dialog shows, if it is open.
LEMMA HeldObject ==
  ASSUME ShareTypes, NEW B, ToldAll(B), NEW j \in sharing, Holds(j, B), j.step = "done",
         j.does \in {"level", "peer"}
  PROVE  LET o == objects[j.object]  d == dialog[Kind(j.item)] IN
         /\ j.object \in DOMAIN objects /\ o \in ObjectType /\ o.item = j.item
         /\ Tells(o, B[j.item]) /\ j.item \in Shareable /\ Kind(j.item) \in Kinds
         /\ d.open => /\ d.object = j.object /\ d.code = B[j.item].code
                      /\ Kind(j.item) = "document" => d.level = B[j.item].level \/ d.dated
<1>1. /\ j.object \in DOMAIN objects /\ objects[j.object].item = j.item
      /\ j.item \in Shareable /\ Kind(j.item) \in Kinds
  BY JobTyped DEF JobOK, OnObject
<1>2. objects[j.object] \in ObjectType
  BY <1>1 DEF ShareTypes, HeapOK
<1>3. Tells(objects[j.object], B[j.item])
  BY DEF Holds, OnObject
<1>4. ASSUME dialog[Kind(j.item)].open
      PROVE  /\ dialog[Kind(j.item)].object = j.object /\ dialog[Kind(j.item)].code = B[j.item].code
             /\ Kind(j.item) = "document" =>
                  dialog[Kind(j.item)].level = B[j.item].level \/ dialog[Kind(j.item)].dated
  <2>1. dialog[Kind(j.item)].object = j.object
    BY <1>4 DEF Holds
  <2> QED BY <1>1, <1>4, <2>1 DEF ToldAll, DialogTold
<1> QED BY <1>1, <1>2, <1>3, <1>4

LEMMA LevelSettles ==
  ASSUME ShareTypes, AloneInv, SettleInv, NEW j \in sharing, LevelReturns(j)
  PROVE  SettleInv'
<1> SUFFICES ASSUME ~behind' PROVE SettleInv'
  BY DEF SettleInv
<1>1. UNCHANGED <<rows, behind, entry>> /\ sharing' = sharing \ {j} /\ j.step = "done"
      /\ j.does = "level"
  BY DEF LevelReturns, apiVars
<1>2. sharing = {j}
      /\ \E B \in [Shareable -> Row] : ToldAll(B) /\ Ahead(j, B) /\ Holds(j, B)
  BY <1>1, AloneBelieved
<1>3. PICK B, C : B \in [Shareable -> Row] /\ C = rows /\ ToldAll(B) /\ Ahead(j, B) /\ Holds(j, B)
  BY <1>2
<1>4. PICK e, n, k, p, o : e = j.item /\ n = Name(e, 1) /\ k = Kind(e) /\ p = j.object /\ o = objects[p]
  OBVIOUS
<1>5. /\ p \in DOMAIN objects /\ o \in ObjectType /\ o.item = e /\ Tells(o, B[e])
      /\ e \in Shareable /\ k \in Kinds
      /\ dialog[k].open => /\ dialog[k].object = p /\ dialog[k].code = B[e].code
                           /\ k = "document" => dialog[k].level = B[e].level \/ dialog[k].dated
  BY <1>1, <1>3, <1>4, HeldObject
<1>6. PICK v : v = [o EXCEPT !.level = j.to]
  OBVIOUS
<1>7. v.item = e /\ v.level = j.to /\ v.peer = o.peer /\ v.code = o.code /\ n # NoObject
  BY <1>4, <1>5, <1>6, FreshName DEF ObjectType, ShareTypes
<1>8. Made(e, p, v) /\ SelectedNow(k, n, e)
  BY <1>4, <1>6, LevelReturned
<1>9. /\ \A x \in Shareable \ {e} : C[x] = B[x]
      /\ C[e].exists = B[e].exists /\ C[e].peer = B[e].peer /\ C[e].level = j.to
      /\ C[e].code = B[e].code
  BY <1>1, <1>3, <1>4, AheadBy DEF OnObject
<1>10. B[e].exists /\ entry[e] # NoObject
  BY <1>3, <1>5 DEF Tells, ToldAll, ListTold
<1>11. entry[e] \in DOMAIN objects /\ objects[entry[e]].item = e /\ Tells(objects[entry[e]], B[e])
  BY <1>3, <1>5, <1>10, EntryTold DEF ToldAll
<1>12. unlisted' = IF entry[e] = p THEN unlisted ELSE unlisted \cup {e}
  BY <1>4 DEF LevelReturns
<1>13. ElseSame(e)
  BY <1>1, <1>4, <1>5, <1>8, <1>12, MadeFrame
<1>14. objects'[n] = v /\ objects'[p] = v /\ (entry[e] # p => objects'[entry[e]] = objects[entry[e]])
  BY <1>4, <1>8, <1>11 DEF Made
<1>15. Tells(v, C[e])'
  BY <1>5, <1>7, <1>9 DEF Tells
<1>16. ListTold(C)'
  <2>1. CASE entry[e] = p
    BY <1>1, <1>3, <1>5, <1>9, <1>10, <1>13, <1>14, <1>15, <2>1, ListFrame DEF ToldAll
  <2>2. CASE entry[e] # p
    <3>1. PICK w : w = objects[entry[e]]
      OBVIOUS
    <3>2. Tells(w, C[e])'
      BY <1>9, <1>11, <1>12, <2>2, <3>1 DEF Tells
    <3>3. w = objects'[entry'[e]] /\ entry'[e] # NoObject
      BY <1>1, <1>10, <1>14, <2>2, <3>1
    <3> QED BY <1>3, <1>5, <1>9, <1>10, <1>13, <3>2, <3>3, ListFrame DEF ToldAll
  <2> QED BY <2>1, <2>2
<1>17. DialogTold(k, C)'
  <2>1. /\ dialog'[k].object = n /\ dialog'[k].code = dialog[k].code
        /\ dialog'[k].open = dialog[k].open
    BY <1>8 DEF SelectedNow
  <2>2. k = "document" => dialog'[k].dated
    <3>1. dialog \in [Kinds -> DialogType] /\ dialog[k] \in DialogType
      BY <1>5 DEF ShareTypes, DialogsOK
    <3>2. dialog'[k] = [Selected(dialog[k], n, e) EXCEPT !.dated = TRUE]
      BY <1>4, <1>5, <3>1 DEF LevelReturns
    <3>3. PICK q \in DialogType : q = dialog[k]
      BY <3>1
    <3>4. n \in ObjectNames
      BY <1>4, <1>5, FreshName DEF ShareTypes
    <3>5. PICK s : s = Selected(q, n, e)
      OBVIOUS
    <3>6. s \in DialogType
      BY <3>4, <3>5, SelectedTyped
    <3>7. dialog'[k] = [s EXCEPT !.dated = TRUE]
      BY <3>2, <3>3, <3>5
    <3> QED BY <3>6, <3>7 DEF DialogType
  <2> QED BY <1>5, <1>7, <1>9, <1>14, <1>15, <2>1, <2>2 DEF DialogTold
<1>18. \A q \in Kinds \ {Kind(e)} : dialog'[q] = dialog[q]
  BY <1>4, <1>8 DEF SelectedNow
<1>19. ToldAll(C)'
  BY <1>3, <1>4, <1>5, <1>9, <1>13, <1>16, <1>17, <1>18, ShownAgain
<1> QED BY <1>1, <1>2, <1>3, <1>19, AllReturned

LEMMA AccessSettles ==
  ASSUME ShareTypes, AloneInv, SettleInv, NEW j \in sharing, SharedAccessReturns(j)
  PROVE  SettleInv'
<1> SUFFICES ASSUME ~behind' PROVE SettleInv'
  BY DEF SettleInv
<1>1. UNCHANGED <<rows, behind, unlisted>> /\ j.step = "done" /\ j.does = "peer"
  BY DEF SharedAccessReturns, apiVars
<1>2. sharing = {j}
      /\ \E B \in [Shareable -> Row] : ToldAll(B) /\ Ahead(j, B) /\ Holds(j, B)
  BY <1>1, AloneBelieved
<1>3. PICK B, C : B \in [Shareable -> Row] /\ C = rows /\ ToldAll(B) /\ Ahead(j, B) /\ Holds(j, B)
  BY <1>2
<1>4. PICK e, n, k, p, o : e = j.item /\ n = Name(e, 1) /\ k = Kind(e) /\ p = j.object /\ o = objects[p]
  OBVIOUS
<1>5. /\ p \in DOMAIN objects /\ o \in ObjectType /\ o.item = e /\ Tells(o, B[e])
      /\ e \in Shareable /\ k \in Kinds
      /\ dialog[k].open => /\ dialog[k].object = p /\ dialog[k].code = B[e].code
                           /\ k = "document" => dialog[k].level = B[e].level \/ dialog[k].dated
  BY <1>1, <1>3, <1>4, HeldObject
<1>6. PICK v : v = [o EXCEPT !.peer = j.to]
  OBVIOUS
<1>7. /\ v.item = e /\ v.level = o.level /\ v.peer = j.to /\ v.code = o.code /\ n # NoObject
      /\ n \notin DOMAIN objects
  BY <1>4, <1>5, <1>6, FreshName DEF ObjectType, ShareTypes
<1>8. Made(e, n, v) /\ SelectedNow(k, n, e)
  BY <1>4, <1>6, AccessReturned
<1>9. /\ \A x \in Shareable \ {e} : C[x] = B[x]
      /\ C[e].exists = B[e].exists /\ C[e].level = B[e].level /\ C[e].peer = j.to
      /\ C[e].code = B[e].code
  BY <1>1, <1>3, <1>4, AheadBy DEF OnObject
<1>10. B[e].exists /\ entry[e] # NoObject
  BY <1>3, <1>5 DEF Tells, ToldAll, ListTold
<1>11. entry'[e] = n /\ \A x \in Shareable \ {e} : entry'[x] = entry[x]
  <2>1. entry' = [entry EXCEPT ![e] = n]
    BY <1>4, <1>10 DEF SharedAccessReturns, Listed
  <2> QED BY <1>5, <2>1 DEF ShareTypes, HeapOK
<1>12. ElseSame(e)
  BY <1>1, <1>5, <1>7, <1>8, <1>11, MadeFrame
<1>13. objects'[n] = v
  BY <1>8 DEF Made
<1>14. Tells(v, C[e])'
  BY <1>1, <1>5, <1>7, <1>9 DEF Tells
<1>15. ListTold(C)'
  BY <1>3, <1>5, <1>7, <1>9, <1>10, <1>11, <1>12, <1>13, <1>14, ListFrame DEF ToldAll
<1>16. /\ dialog'[k].object = n /\ dialog'[k].code = dialog[k].code
       /\ dialog'[k].open = dialog[k].open /\ dialog'[k].level = dialog[k].level
       /\ (dialog[k].dated => dialog'[k].dated)
  BY <1>8 DEF SelectedNow
<1>17. DialogTold(k, C)'
  BY <1>5, <1>7, <1>9, <1>13, <1>14, <1>16 DEF DialogTold
<1>18. \A q \in Kinds \ {Kind(e)} : dialog'[q] = dialog[q]
  BY <1>4, <1>8 DEF SelectedNow
<1>19. ToldAll(C)'
  BY <1>3, <1>4, <1>5, <1>9, <1>12, <1>15, <1>17, <1>18, ShownAgain
<1>20. PICK c : sharing' = {c} /\ c.does = "peer" /\ c.item = e /\ c.step = "load"
  BY <1>1, <1>2, <1>4, LoadMoves
<1>21. Holds(c, C)'
  BY <1>4, <1>7, <1>13, <1>16, <1>20 DEF Holds
<1>22. Ahead(c, C)'
  BY <1>1, <1>3, <1>20 DEF Ahead
<1>23. C \in [Shareable -> Row]
  BY <1>3 DEF ShareTypes
<1> QED BY <1>19, <1>20, <1>21, <1>22, <1>23 DEF SettleInv, Believed

LEMMA ProjectReturnSettles ==
  ASSUME ShareTypes, AloneInv, SettleInv, NEW j \in sharing, ProjectReturns(j)
  PROVE  SettleInv'
<1> SUFFICES ASSUME ~behind' PROVE SettleInv'
  BY DEF SettleInv
<1>1. /\ UNCHANGED <<rows, objects, entry, unlisted, behind>> /\ UNCHANGED dialog
      /\ j.does \in {"create", "delete"} /\ j.step = "done"
  BY DEF ProjectReturns, heapVars, apiVars
<1>2. sharing = {j}
      /\ \E B \in [Shareable -> Row] : ToldAll(B) /\ Ahead(j, B) /\ Holds(j, B)
  BY <1>1, AloneBelieved
<1>3. PICK B \in [Shareable -> Row] : ToldAll(B) /\ Ahead(j, B) /\ Holds(j, B)
  BY <1>2
<1>4. PICK c : sharing' = {c} /\ c.does = j.does /\ c.item = j.item /\ c.step = "load"
  BY <1>2, LoadMoves
<1>5. ToldAll(B)'
  BY <1>1, <1>3, SameShown
<1>6. Holds(c, B)'
  BY <1>1, <1>3, <1>4 DEF Holds, OnObject, NoneOpen
<1>7. Ahead(c, B)'
  <2>1. Changed(j, B[j.item], rows[j.item]) /\ \A x \in Shareable \ {j.item} : rows[x] = B[x]
    BY <1>1, <1>3 DEF Ahead
  <2>2. Changed(c, B[c.item], rows[c.item])'
    BY <1>1, <1>4, <2>1 DEF Changed
  <2> QED BY <1>1, <1>4, <2>1, <2>2 DEF Ahead
<1> QED BY <1>4, <1>5, <1>6, <1>7 DEF SettleInv, Believed

LEMMA LoadSettles ==
  ASSUME ShareTypes, AloneInv, SettleInv, NEW j \in sharing, LoadWorkspace(j)
  PROVE  SettleInv'
<1> SUFFICES ASSUME ~behind' PROVE SettleInv'
  BY DEF SettleInv
<1>1. /\ UNCHANGED rows /\ sharing' = sharing \ {j} /\ j.step = "loaded"
      /\ (~behind \/ (j.alone /\ NoneOpen))
  BY DEF LoadWorkspace, apiVars
<1>2. sharing = {j} /\ j.answer = rows
  BY <1>1 DEF AloneInv
<1>3. PICK C : C = rows
  OBVIOUS
<1>4. Renewed(j) /\ j.item \in Shareable /\ Kind(j.item) \in Kinds /\ JobOK(j) /\ j.does \in Jobs
  BY Loaded, JobTyped DEF ShareJob
<1>5. \A v, e : v = Object(e, C[e]) /\ C[e].exists => v.item = e /\ v.code = C[e].code /\ Tells(v, C[e])'
  BY DEF Object, Tells
<1>6. ListTold(C)'
  <2>1. ASSUME NEW e \in Shareable, C[e].exists
        PROVE  entry'[e] # NoObject /\ Tells(objects[entry[e]], C[e])'
    <3>1. entry'[e] # NoObject /\ objects'[entry'[e]] = Object(e, C[e])
      BY <1>2, <1>3, <1>4, <2>1 DEF Renewed
    <3>2. PICK v : v = Object(e, C[e])
      OBVIOUS
    <3>3. Tells(v, C[e])'
      BY <1>5, <2>1, <3>2
    <3> QED BY <3>1, <3>2, <3>3
  <2>2. \A e \in Shareable : ~C[e].exists => entry'[e] = NoObject
    BY <1>2, <1>3, <1>4 DEF Renewed
  <2> QED BY <2>1, <2>2 DEF ListTold
<1>7. ASSUME NEW k \in Kinds, ~dialog[k].open PROVE DialogTold(k, C)'
  <2>1. ~dialog'[k].open
    BY <1>4, <1>7 DEF Renewed, SelectedNow
  <2> QED BY <2>1 DEF DialogTold
<1>8. ASSUME NEW k \in Kinds, dialog[k].open PROVE DialogTold(k, C)'
  <2>1. ~behind
    BY <1>1, <1>8 DEF NoneOpen, ShareTypes, DialogsOK
  <2>2. PICK B \in [Shareable -> Row] : ToldAll(B) /\ Ahead(j, B) /\ Holds(j, B)
    BY <2>1, AloneBelieved
  <2>3. j.does \in {"peer", "load"}
    <3>1. ~NoneOpen
      BY <1>8 DEF NoneOpen, ShareTypes, DialogsOK
    <3>2. j.does \notin {"open", "create", "delete"}
      BY <2>2, <3>1 DEF Holds
    <3> QED BY <1>1, <1>4, <3>2 DEF JobOK, Jobs
  <2>4. \A x \in Shareable : C[x] = B[x]
    BY <1>1, <1>3, <1>4, <2>2, <2>3, AheadBy
  <2>5. PICK p, o, e : p = dialog[k].object /\ o = objects[p] /\ e = o.item
    OBVIOUS
  <2>6. /\ p # NoObject /\ p \in DOMAIN objects /\ e \in Shareable /\ Kind(e) = k
        /\ Tells(o, C[e]) /\ dialog[k].code = C[e].code
        /\ k = "document" => dialog[k].level = C[e].level \/ dialog[k].dated
    <3>1. p # NoObject /\ p \in DOMAIN objects /\ e \in Shareable /\ Kind(e) = k
      BY <1>8, <2>2, <2>5 DEF ToldAll, DialogTold, ShareTypes, DialogsOK, HeapOK, ObjectType
    <3>2. /\ Tells(o, B[e]) /\ dialog[k].code = B[e].code
          /\ k = "document" => dialog[k].level = B[e].level \/ dialog[k].dated
      BY <1>8, <2>2, <2>5 DEF ToldAll, DialogTold
    <3> QED BY <2>4, <3>1, <3>2
  <2>7. CASE j.does = "peer" /\ k = Kind(j.item)
    <3>1. e = j.item
      BY <1>1, <1>8, <2>2, <2>5, <2>7 DEF Holds
    <3>2. C[e].exists
      BY <2>6 DEF Tells
    <3>3. PICK q, v : q = entry'[e] /\ v = Object(e, C[e])
      OBVIOUS
    <3>4. q # NoObject /\ objects'[q] = v
      BY <1>2, <1>3, <1>4, <2>6, <3>2, <3>3 DEF Renewed
    <3>5. SelectedNow(k, q, e)
      BY <1>2, <1>3, <1>4, <2>7, <3>1, <3>2, <3>3 DEF Renewed
    <3>6. v.item = e /\ Tells(v, C[e])'
      BY <1>5, <3>2, <3>3
    <3> QED BY <2>6, <3>4, <3>5, <3>6 DEF DialogTold, SelectedNow
  <2>8. CASE ~(j.does = "peer" /\ k = Kind(j.item))
    <3>1. dialog'[k] = dialog[k]
      BY <1>4, <2>8 DEF Renewed, SelectedNow
    <3>2. unlisted' = unlisted
      BY <1>8, <2>8 DEF LoadWorkspace, ShareTypes, DialogsOK
    <3>3. objects'[p] = o
      BY <1>4, <2>5, <2>6 DEF Renewed
    <3>4. Tells(o, C[e])'
      BY <2>6, <3>2 DEF Tells
    <3> QED BY <2>5, <2>6, <3>1, <3>3, <3>4 DEF DialogTold
  <2> QED BY <2>7, <2>8
<1>9. ToldAll(C)'
  BY <1>6, <1>7, <1>8 DEF ToldAll
<1> QED BY <1>1, <1>2, <1>3, <1>9, AllReturned

LEMMA ShareStepSettles ==
  ASSUME ShareTypes, AloneInv, SettleInv, ShareNext
  PROVE  SettleInv'
<1>1. DOMAIN dialog = Kinds
  BY DEF ShareTypes, DialogsOK
<1>2. ASSUME NEW e \in Shareable,
             OpenShareFolderModal(e) \/ OpenShareModal(e) \/ CreateProject(e) \/ DeleteProject(e)
      PROVE SettleInv'
  BY <1>2, FolderOpenSettles, DocOpenSettles, ProjectSettles
<1>3. ASSUME NEW k \in Kinds, CloseShareModal(k) PROVE SettleInv'
  BY <1>3, CloseSettles
<1>4. ASSUME NEW k \in Kinds, NEW does \in {"code", "level", "peer"}, NEW to, InDialog(k, does, to)
      PROVE SettleInv'
  BY <1>4, InDialogSettles
<1>5. CASE LoadAgain
  BY <1>5, ProjectSettles, ShareAssumption
<1>6. ASSUME NEW j \in sharing,
             \/ Serve(j) \/ FolderCodeReturns(j) \/ DocCodeReturns(j) \/ LevelReturns(j)
             \/ SharedAccessReturns(j) \/ ProjectReturns(j) \/ LoadWorkspace(j) \/ ShareFails(j)
      PROVE SettleInv'
  <2>1. CASE ShareFails(j)
    BY <2>1 DEF ShareFails, SettleInv
  <2> QED BY <1>6, <2>1, ServeSettles, FolderCodeSettles, DocCodeSettles, LevelSettles, AccessSettles,
             ProjectReturnSettles, LoadSettles
<1> QED BY <1>1, <1>2, <1>3, <1>4, <1>5, <1>6 DEF ShareNext

ShareInv == ShareTypes /\ CodesInv /\ AloneInv /\ SettleInv

LEMMA ShareInitInv ==
  ASSUME ShareInit
  PROVE  ShareInv
<1>1. ShareTypes
  BY ShareInitTypes
<1>2. PICK present \in Existing :
        /\ rows = [e \in Shareable |-> [exists |-> e \in present, code |-> NoCode,
                                        level |-> "View", peer |-> "View"]]
        /\ objects = [o \in {<<e, 0, 1>> : e \in present} |-> Object(o[1], rows[o[1]])]
        /\ entry = [e \in Shareable |-> IF e \in present THEN <<e, 0, 1>> ELSE NoObject]
  BY DEF ShareInit
<1>3. present \subseteq Shareable
  BY ShareAssumption
<1>4. \A e \in Shareable : /\ rows[e].code = NoCode /\ (rows[e].exists <=> e \in present)
  BY <1>2
<1>5. ASSUME NEW e \in present
      PROVE <<e, 0, 1>> \in DOMAIN objects /\ objects[<<e, 0, 1>>] = Object(e, rows[e])
  BY <1>2
<1>6. DOMAIN objects = {<<e, 0, 1>> : e \in present}
  BY <1>2
<1>7. \A o \in DOMAIN objects : objects[o].code = NoCode
  <2>1. TAKE o \in DOMAIN objects
  <2>2. PICK e \in present : o = <<e, 0, 1>>
    BY <1>6
  <2>3. objects[o] = Object(e, rows[e]) /\ rows[e].code = NoCode
    BY <1>3, <1>4, <1>5, <2>2
  <2> QED BY <2>3 DEF Object
<1>8. /\ sharing = {} /\ (\A k \in Kinds : dialog[k].object = NoObject /\ ~dialog[k].open)
  BY DEF ShareInit, Kinds, Closed
<1>9. CodesInv
  BY <1>4, <1>7, <1>8 DEF CodesInv, RowCodes, ObjectCode, DialogCode, CodeOf
<1>10. AloneInv
  BY <1>8 DEF AloneInv
<1>11. ListTold(rows)
  <2>1. ASSUME NEW e \in present PROVE entry[e] = <<e, 0, 1>> /\ entry[e] # NoObject
                                       /\ Tells(objects[entry[e]], rows[e])
    <3>1. entry[e] = <<e, 0, 1>> /\ e \in Shareable
      BY <1>2, <1>3
    <3>2. entry[e] # NoObject
      BY <3>1, ShareAssumption
    <3>3. objects[entry[e]] = Object(e, rows[e])
      BY <1>5, <3>1
    <3> QED BY <1>4, <3>1, <3>2, <3>3 DEF Tells, Object
  <2>2. \A e \in Shareable \ present : entry[e] = NoObject
    BY <1>2
  <2> QED BY <1>4, <2>1, <2>2 DEF ListTold
<1>12. ToldAll(rows)
  BY <1>8, <1>11 DEF ToldAll, DialogTold
<1>13. PICK B \in [Shareable -> Row] : B = rows /\ ToldAll(B)
  BY <1>1, <1>12 DEF ShareTypes
<1>14. SettleInv
  BY <1>8, <1>13 DEF SettleInv, Believed
<1> QED BY <1>1, <1>9, <1>10, <1>14 DEF ShareInv

\* The invariant says of the API's rows what DialogSettles says.
LEMMA ShareInvSettles ==
  ASSUME ShareInv
  PROVE  DialogSettles
<1>1. DOMAIN dialog = Kinds
  BY DEF ShareInv, ShareTypes, DialogsOK
<1>2. ASSUME Settled PROVE ListIsTrue /\ \A k \in Kinds : dialog[k].open => DialogIsTrue(k)
  <2>1. PICK B \in [Shareable -> Row] : B = rows /\ ToldAll(B)
    BY <1>2 DEF ShareInv, SettleInv, Believed, Settled
  <2>2. ListIsTrue
    <3>1. ASSUME NEW e \in Shareable, B[e].exists
          PROVE  entry[e] # NoObject /\ Tells(objects[entry[e]], B[e]) /\ objects[entry[e]].item = e
      <4>1. entry[e] # NoObject /\ Tells(objects[entry[e]], B[e])
        BY <2>1, <3>1 DEF ToldAll, ListTold
      <4> QED BY <4>1 DEF ShareInv, ShareTypes, HeapOK
    <3>2. \A e \in Shareable : ~B[e].exists => entry[e] = NoObject
      BY <2>1 DEF ToldAll, ListTold
    <3> QED BY <2>1, <3>1, <3>2 DEF ListIsTrue, Tells
  <2>3. ASSUME NEW k \in Kinds, dialog[k].open PROVE DialogIsTrue(k)
    <3>1. PICK p, o : p = dialog[k].object /\ o = objects[p]
      OBVIOUS
    <3>2. /\ p # NoObject /\ Tells(o, B[o.item]) /\ dialog[k].code = B[o.item].code
          /\ k = "document" => dialog[k].level = B[o.item].level \/ dialog[k].dated
      BY <2>1, <2>3, <3>1 DEF ToldAll, DialogTold
    <3> QED BY <2>1, <3>1, <3>2 DEF DialogIsTrue, Tells, Kinds
  <2> QED BY <2>2, <2>3
<1>3. ASSUME NEW k \in Kinds, dialog[k].object # NoObject, dialog[k].code # NoCode
      PROVE  dialog[k].mixed \/ issuedFor[dialog[k].code] = objects[dialog[k].object].item
  BY <1>3 DEF ShareInv, CodesInv, DialogCode, CodeOf
<1> QED BY <1>1, <1>2, <1>3 DEF DialogSettles

\* Once every request has returned, none having failed or overlapped another since the
\* list was last loaded alone, the list and an open dialog show the code, the level and the
\* member that the API has, but where a handler changes a copy of the list's object; and no
\* dialog shows the code of another item than the one it names, but where a late answer or
\* a failure left the two apart: for every set of items and whatever number of clicks,
\* requests and failures (the share handlers of dashboard.ts and workspace.ts).
THEOREM DialogsAlwaysSettle == ShareSpec => []DialogSettles
<1>1. ShareInit => ShareInv
  BY ShareInitInv
<1>2. ShareInv /\ [ShareNext]_shareVars => ShareInv'
  <2>1. ASSUME ShareInv, ShareNext PROVE ShareInv'
    BY <2>1, ShareStepTyped, ShareStepCodes, AloneKept, ShareStepSettles DEF ShareInv
  <2>2. ASSUME ShareInv, UNCHANGED shareVars PROVE ShareInv'
    <3>1. ShareTypes'
      BY <2>2 DEF shareVars, ShareInv, ShareTypes, HeapOK, DialogsOK, ShareJobsOK, JobOK
    <3>2. CodesInv'
      BY <2>2 DEF shareVars, ShareInv, CodesInv, RowCodes, ObjectCode, DialogCode, CodeOf
    <3>3. AloneInv'
      BY <2>2 DEF shareVars, ShareInv, AloneInv
    <3>4. ASSUME ~behind' PROVE SettleInv'
      <4>1. PICK B \in [Shareable -> Row] : Believed(B)
        BY <2>2, <3>4 DEF shareVars, ShareInv, SettleInv
      <4>2. ToldAll(B)'
        BY <2>2, <4>1, SameShown DEF shareVars, ShareInv, Believed
      <4>3. \A j \in sharing : Ahead(j, B)'
        BY <2>2, <4>1 DEF shareVars, Believed, Ahead
      <4>4. \A j \in sharing : Holds(j, B)'
        BY <2>2, <4>1 DEF shareVars, Believed, Holds, Tells, NoneOpen
      <4> QED BY <2>2, <4>1, <4>2, <4>3, <4>4 DEF shareVars, SettleInv, Believed
    <3> QED BY <3>1, <3>2, <3>3, <3>4 DEF ShareInv, SettleInv
  <2> QED BY <2>1, <2>2
<1>3. ShareInv => DialogSettles
  BY ShareInvSettles
<1> QED BY <1>1, <1>2, <1>3, PTL DEF ShareSpec

================================================================================
