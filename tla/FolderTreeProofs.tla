--------------------------- MODULE FolderTreeProofs ----------------------------
(***************************************************************************)
(* For every number of folders, documents and requests: with at most one   *)
(* MoveFolder at a time the folders stay a forest, whatever creations and  *)
(* deletions run meanwhile; and, however many of each run, the rows keep   *)
(* their types and a deletion strands nothing that was in place.           *)
(*                                                                         *)
(* Definitions and lemmas take the rows as parameters (par, loc, mis: the  *)
(* parents, the locations, what is misplaced), to speak of them before a   *)
(* step and after it.                                                      *)
(***************************************************************************)
EXTENDS FolderTree, FiniteSetTheorems, SequenceTheorems, TLAPS

Parents == [Folders -> Folders \union {Null, Unborn, Deleted}]
Born(par) == {f \in Folders : par[f] # Unborn}
ForestOf(par) == \A S \in SUBSET Folders : S # {} => \E f \in S : par[f] \notin S
NoUnbornParent(par) == \A g \in Folders : par[g] \in Folders => par[g] \in Born(par)

\* Who has a parent in S is in T.
Below(par, S, T) == \A g \in Folders : par[g] \in S => g \in T

\* The same with some more folders in both, but not t.
Separates(par, S, T, t) ==
  \E E \in SUBSET Folders : t \notin E /\ Below(par, S \union E, T \union E)

\* A request that is about to insert a folder.
Creating(q) == q.pc \in {"create access", "create depth", "insert"}
Created(par, q) ==
  Creating(q) => /\ q.what \in Folders /\ par[q.what] = Unborn
                 /\ q.to \in Born(par) \union {Null}

\* A request that moves a folder: what it has walked over so far, and children
\* born meanwhile, hold everything below the folder; its target is not among them.
Walked(q) == {q.what} \union q.found
Walking(par, q) == Separates(par, Walked(q) \ q.todo, Walked(q), q.to)
Apart(par, q) == q.to # q.what /\ Separates(par, {q.what}, {q.what}, q.to)
Moved(par, q) ==
  q.pc \in InMove =>
    /\ q.what \in Born(par) /\ q.to \in Born(par) \union {Null}
    /\ q.found \subseteq Folders
    /\ q.pc = "move access" => q.found = {} /\ q.todo = {q.what}
    /\ q.pc = "collect" => q.to # Null /\ q.to # q.what /\ Walking(par, q)
    /\ q.pc \in {"move target access", "move depth", "move update"} =>
         q.to = Null \/ Apart(par, q)

Fields == {"pc", "what", "to", "found", "todo", "stack", "root"}

TreeOf(par) == par \in Parents /\ ForestOf(par) /\ NoUnbornParent(par)

\* Two requests never insert the same folder, and no two move one.
RequestsOf(par, rq) ==
  /\ DOMAIN rq = Requests
  /\ \A r \in Requests : DOMAIN rq[r] = Fields /\ Created(par, rq[r]) /\ Moved(par, rq[r])
  /\ \A r, s \in Requests :
       r # s /\ Creating(rq[r]) /\ Creating(rq[s]) => rq[r].what # rq[s].what
  /\ \A r, s \in Requests : rq[r].pc \in InMove /\ rq[s].pc \in InMove => r = s

IInv == TreeOf(parent) /\ RequestsOf(parent, req)

-----------------------------------------------------------------------------
(***************************************************************************)
(* The three ways in which the folders change                              *)
(***************************************************************************)

\* A new folder below an older one, or at the top.
LEMMA InsertKeepsForest ==
  ASSUME NEW par \in Parents, ForestOf(par), NoUnbornParent(par), TreeAssumption,
         NEW n \in Folders, par[n] = Unborn, NEW p \in Born(par) \union {Null},
         NEW par2, par2 = [par EXCEPT ![n] = p]
  PROVE  par2 \in Parents /\ ForestOf(par2) /\ NoUnbornParent(par2)
<1>1. \A f \in Folders : par2[f] = IF f = n THEN p ELSE par[f]
  BY DEF Parents
<1>2. p # n /\ p \in Folders \union {Null}
  BY TreeAssumption DEF Born
<1>3. par2 \in Parents
  BY <1>2 DEF Parents
<1>4. NoUnbornParent(par2)
  BY <1>1, <1>2, TreeAssumption DEF NoUnbornParent, Born
<1>5. ASSUME NEW S \in SUBSET Folders, S # {}
      PROVE  \E f \in S : par2[f] \notin S
  <2>1. CASE S \ {n} = {}
    BY <1>1, <1>2, <1>5, <2>1
  <2>2. CASE S \ {n} # {}
    <3>1. PICK f \in S \ {n} : par[f] \notin S \ {n}
      BY <2>2 DEF ForestOf
    <3>2. par[f] # n
      BY <1>5, TreeAssumption DEF NoUnbornParent, Born
    <3>3. QED
      BY <1>1, <1>5, <3>1, <3>2
  <2>3. QED
    BY <2>1, <2>2
<1>6. QED
  BY <1>3, <1>4, <1>5 DEF ForestOf

\* Rows that go take nobody's parent's place.
LEMMA DeleteKeepsForest ==
  ASSUME NEW par \in Parents, ForestOf(par), NoUnbornParent(par), TreeAssumption,
         NEW par2 \in Parents, \A f \in Folders : par2[f] = par[f] \/ (par2[f] = Deleted /\ f \in Born(par))
  PROVE  ForestOf(par2) /\ NoUnbornParent(par2)
<1>1. ASSUME NEW S \in SUBSET Folders, S # {}
      PROVE  \E f \in S : par2[f] \notin S
  <2>1. PICK f \in S : par[f] \notin S
    BY <1>1 DEF ForestOf
  <2>2. QED
    BY <1>1, <2>1, TreeAssumption
<1>2. NoUnbornParent(par2)
  BY TreeAssumption DEF NoUnbornParent, Born
<1>3. QED
  BY <1>1, <1>2 DEF ForestOf

\* A folder that goes to where nothing is below it.
LEMMA MoveKeepsForest ==
  ASSUME NEW par \in Parents, ForestOf(par), NoUnbornParent(par), TreeAssumption,
         NEW m \in Born(par), NEW t \in Born(par) \union {Null},
         t = Null \/ (t # m /\ Separates(par, {m}, {m}, t)),
         NEW par2, par2 = [par EXCEPT ![m] = t]
  PROVE  par2 \in Parents /\ ForestOf(par2) /\ NoUnbornParent(par2)
<1>1. \A f \in Folders : par2[f] = IF f = m THEN t ELSE par[f]
  BY DEF Parents
<1>2. m \in Folders /\ t \in Folders \union {Null}
  BY DEF Born
<1>3. par2 \in Parents
  BY <1>2 DEF Parents
<1>4. NoUnbornParent(par2)
  BY <1>1, <1>2, TreeAssumption DEF NoUnbornParent, Born
<1>5. ASSUME NEW S \in SUBSET Folders, S # {}, \A f \in S : par2[f] \in S
      PROVE  FALSE
  <2>1. PICK f \in S : par[f] \notin S
    BY <1>5 DEF ForestOf
  <2>2. f = m /\ t \in S /\ t # Null
    BY <1>1, <1>5, <2>1, TreeAssumption
  <2>3. PICK E \in SUBSET Folders : t \notin E /\ Below(par, {m} \union E, {m} \union E)
    BY <2>2, TreeAssumption DEF Separates
  <2> DEFINE D == {m} \union E
  <2>4. PICK g \in S \ D : par[g] \notin S \ D
    BY <1>5, <2>2, <2>3 DEF ForestOf
  <2>5. par[g] \in S
    BY <1>1, <1>5, <2>3, <2>4
  <2>6. QED
    BY <2>3, <2>4, <2>5 DEF Below
<1>6. QED
  BY <1>3, <1>4, <1>5 DEF ForestOf

-----------------------------------------------------------------------------
(***************************************************************************)
(* What another request relies on survives them                            *)
(***************************************************************************)

\* The new folder is on the far side if its parent is.
LEMMA InsertKeepsMove ==
  ASSUME NEW par \in Parents, NoUnbornParent(par), TreeAssumption,
         NEW n \in Folders, par[n] = Unborn, NEW p \in Born(par) \union {Null},
         NEW par2, par2 = [par EXCEPT ![n] = p],
         NEW q, Moved(par, q)
  PROVE  Moved(par2, q)
<1> SUFFICES ASSUME q.pc \in InMove PROVE Moved(par2, q)
  BY DEF Moved
<1>1. \A f \in Folders : par2[f] = IF f = n THEN p ELSE par[f]
  BY DEF Parents
<1>2. q.what \in Born(par) /\ q.to \in Born(par) \union {Null} /\ q.found \subseteq Folders
  BY DEF Moved
<1>3. Born(par) \subseteq Born(par2) /\ q.to # n /\ q.what \in Folders
  BY <1>1, <1>2, TreeAssumption DEF Born
<1>4. p # n /\ \A g \in Folders : par[g] # n
  BY TreeAssumption DEF Born, NoUnbornParent
<1>5. ASSUME NEW S, NEW T, NEW t, t # n, Separates(par, S, T, t)
      PROVE  Separates(par2, S, T, t)
  <2>1. PICK E \in SUBSET Folders : t \notin E /\ Below(par, S \union E, T \union E)
    BY <1>5 DEF Separates
  <2>2. CASE p \in S \union E
    <3>1. Below(par2, S \union (E \union {n}), T \union (E \union {n}))
      BY <1>1, <1>4, <2>1, <2>2 DEF Below
    <3>2. E \union {n} \in SUBSET Folders /\ t \notin E \union {n}
      BY <1>5, <2>1
    <3>3. QED
      BY <3>1, <3>2 DEF Separates
  <2>3. CASE p \notin S \union E
    <3>1. Below(par2, S \union E, T \union E)
      BY <1>1, <2>1, <2>3 DEF Below
    <3>2. QED
      BY <2>1, <3>1 DEF Separates
  <2>4. QED
    BY <2>2, <2>3
<1>6. (Walking(par, q) => Walking(par2, q)) /\ (Apart(par, q) => Apart(par2, q))
  BY <1>3, <1>5 DEF Walking, Apart
<1>7. QED
  BY <1>2, <1>3, <1>6 DEF Moved

LEMMA DeleteKeepsMove ==
  ASSUME NEW par \in Parents, TreeAssumption, NEW par2 \in Parents,
         \A f \in Folders : par2[f] = par[f] \/ (par2[f] = Deleted /\ f \in Born(par)),
         NEW q, Moved(par, q)
  PROVE  Moved(par2, q)
<1>1. Born(par2) = Born(par)
  BY TreeAssumption DEF Born
<1>2. ASSUME NEW S, NEW T, NEW t, Separates(par, S, T, t), Deleted \notin S
      PROVE  Separates(par2, S, T, t)
  <2>1. PICK E \in SUBSET Folders : t \notin E /\ Below(par, S \union E, T \union E)
    BY <1>2 DEF Separates
  <2>2. Below(par2, S \union E, T \union E)
    BY <1>2, <2>1, TreeAssumption DEF Below
  <2>3. QED
    BY <2>1, <2>2 DEF Separates
<1> SUFFICES ASSUME q.pc \in InMove PROVE Moved(par2, q)
  BY DEF Moved
<1>3. Deleted \notin Walked(q) /\ Deleted # q.what
  BY TreeAssumption DEF Moved, Walked, Born
<1>4. (Walking(par, q) => Walking(par2, q)) /\ (Apart(par, q) => Apart(par2, q))
  BY <1>2, <1>3 DEF Walking, Apart
<1>5. QED
  BY <1>1, <1>4 DEF Moved

-----------------------------------------------------------------------------
(***************************************************************************)
(* The invariant through one change of the folders or of a request         *)
(***************************************************************************)

Only(r, rq, rq2) == DOMAIN rq2 = Requests /\ \A s \in Requests \ {r} : rq2[s] = rq[s]

LEMMA Advance ==
  ASSUME NEW par, NEW rq, RequestsOf(par, rq), NEW r \in Requests,
         NEW rq2, Only(r, rq, rq2),
         DOMAIN rq2[r] = Fields, Created(par, rq2[r]), Moved(par, rq2[r]),
         Creating(rq2[r]) =>
           \A s \in Requests \ {r} : Creating(rq[s]) => rq[s].what # rq2[r].what,
         rq2[r].pc \in InMove => \A s \in Requests \ {r} : rq[s].pc \notin InMove
  PROVE  RequestsOf(par, rq2)
BY DEF RequestsOf, Only

\* A request that is neither to insert nor to move a folder, any longer or yet.
LEMMA Harmless ==
  ASSUME NEW par, NEW rq, RequestsOf(par, rq), NEW r \in Requests,
         NEW rq2, Only(r, rq, rq2),
         DOMAIN rq2[r] = Fields, ~Creating(rq2[r]), rq2[r].pc \notin InMove
  PROVE  RequestsOf(par, rq2)
BY Advance DEF Created, Moved

\* A request that ends, or goes on as what it was.
LEMMA GoesOn ==
  ASSUME NEW par, NEW rq, RequestsOf(par, rq), NEW r \in Requests, NEW pc,
         pc \in {"create access", "create depth", "insert"} => Creating(rq[r]),
         pc \in InMove => rq[r].pc \in InMove /\ Moved(par, [rq[r] EXCEPT !.pc = pc]),
         NEW rq2, rq2 = [rq EXCEPT ![r] = IF pc = "idle" THEN Idle ELSE [@ EXCEPT !.pc = pc]]
  PROVE  RequestsOf(par, rq2)
<1>1. Only(r, rq, rq2) /\ rq2[r] = IF pc = "idle" THEN Idle ELSE [rq[r] EXCEPT !.pc = pc]
  BY DEF RequestsOf, Only
<1>2. CASE pc = "idle"
  <2>1. DOMAIN Idle = Fields /\ ~Creating(Idle) /\ Idle.pc \notin InMove
    BY DEF Idle, Fields, Creating, InMove
  <2>2. QED
    BY <1>1, <1>2, <2>1, Harmless, ZenonT(60)
<1>3. CASE pc # "idle"
  <2>1. /\ DOMAIN rq2[r] = Fields /\ rq2[r].pc = pc
        /\ rq2[r].what = rq[r].what /\ rq2[r].to = rq[r].to
    BY <1>1, <1>3 DEF RequestsOf, Fields
  <2>2. Created(par, rq2[r])
    BY <2>1 DEF RequestsOf, Created, Creating
  <2>3. Moved(par, rq2[r])
    BY <1>1, <1>3, <2>1 DEF Moved
  <2>4. Creating(rq2[r]) => \A s \in Requests \ {r} : Creating(rq[s]) => rq[s].what # rq2[r].what
    BY <2>1 DEF RequestsOf, Creating
  <2>5. rq2[r].pc \in InMove => \A s \in Requests \ {r} : rq[s].pc \notin InMove
    BY <2>1 DEF RequestsOf
  <2>6. QED
    BY <1>1, <2>1, <2>2, <2>3, <2>4, <2>5, Advance
<1>4. QED
  BY <1>2, <1>3

LEMMA InsertKeepsAll ==
  ASSUME NEW par, TreeOf(par), NEW rq, RequestsOf(par, rq), TreeAssumption,
         NEW n \in Folders, par[n] = Unborn, NEW p \in Born(par) \union {Null},
         \A s \in Requests : Creating(rq[s]) => rq[s].what # n,
         NEW par2, par2 = [par EXCEPT ![n] = p]
  PROVE  TreeOf(par2) /\ RequestsOf(par2, rq)
<1>1. TreeOf(par2)
  BY InsertKeepsForest DEF TreeOf
<1>2. \A s \in Requests : Moved(par2, rq[s])
  BY InsertKeepsMove DEF TreeOf, RequestsOf
<1>3. \A s \in Requests : Created(par2, rq[s])
  BY DEF TreeOf, RequestsOf, Created, Parents, Born
<1>4. QED
  BY <1>1, <1>2, <1>3 DEF RequestsOf

LEMMA DeleteKeepsAll ==
  ASSUME NEW par, TreeOf(par), NEW rq, RequestsOf(par, rq), TreeAssumption,
         NEW ids, NEW par2,
         par2 = [f \in Folders |-> IF f \in ids /\ f \in Folders /\ par[f] \notin {Unborn, Deleted}
                                     THEN Deleted ELSE par[f]]
  PROVE  TreeOf(par2) /\ RequestsOf(par2, rq)
<1>1. par2 \in Parents /\ \A f \in Folders : par2[f] = par[f] \/ (par2[f] = Deleted /\ f \in Born(par))
  BY DEF TreeOf, Parents, Born
<1>2. TreeOf(par2)
  BY <1>1, DeleteKeepsForest DEF TreeOf
<1>3. \A s \in Requests : Moved(par2, rq[s])
  BY <1>1, DeleteKeepsMove DEF TreeOf, RequestsOf
<1>4. \A s \in Requests : Created(par2, rq[s])
  BY <1>1, TreeAssumption DEF RequestsOf, Created, Born
<1>5. QED
  BY <1>2, <1>3, <1>4 DEF RequestsOf

LEMMA MoveKeepsAll ==
  ASSUME NEW par, TreeOf(par), NEW rq, RequestsOf(par, rq), TreeAssumption,
         \A s \in Requests : rq[s].pc \notin InMove,
         NEW m \in Born(par), NEW t \in Born(par) \union {Null},
         t = Null \/ (t # m /\ Separates(par, {m}, {m}, t)),
         NEW par2, par2 = [par EXCEPT ![m] = t]
  PROVE  TreeOf(par2) /\ RequestsOf(par2, rq)
<1>1. TreeOf(par2)
  BY MoveKeepsForest DEF TreeOf
<1>2. Born(par2) = Born(par)
  BY TreeAssumption DEF TreeOf, Parents, Born
<1>3. \A s \in Requests : Created(par2, rq[s])
  BY <1>2, TreeAssumption DEF TreeOf, Parents, RequestsOf, Created, Born
<1>4. QED
  BY <1>1, <1>3 DEF RequestsOf, Moved

-----------------------------------------------------------------------------
(***************************************************************************)
(* The invariant through every action                                      *)
(***************************************************************************)

LEMMA InitIInv == TreeAssumption /\ Init => IInv
<1> SUFFICES ASSUME TreeAssumption, Init PROVE IInv
  OBVIOUS
<1>1. TreeOf(parent)
  BY TreeAssumption DEF Init, TreeOf, Parents, Forest, ForestOf, NoUnbornParent, Born, IsFolder
<1>2. DOMAIN Idle = Fields /\ ~Creating(Idle) /\ Idle.pc \notin InMove
  BY DEF Idle, Fields, Creating, InMove
<1>3. RequestsOf(parent, req)
  BY <1>2 DEF Init, RequestsOf, Created, Moved
<1>4. QED
  BY <1>1, <1>3 DEF IInv

LEMMA GotoKeeps ==
  ASSUME IInv, parent' = parent, NEW r \in Requests, NEW pc, Goto(r, pc),
         pc \in {"create access", "create depth", "insert"} => Creating(req[r]),
         pc \in InMove => req[r].pc \in InMove /\ Moved(parent, [req[r] EXCEPT !.pc = pc])
  PROVE  IInv'
<1>1. RequestsOf(parent, req')
  BY GoesOn DEF IInv, Goto
<1>2. QED
  BY <1>1 DEF IInv

LEMMA CreateKeeps ==
  ASSUME TreeAssumption, IInv, NEW r \in Requests, CreateStep(r)
  PROVE  IInv'
<1>1. CASE CreateAccess(r)
  <2>1. PICK pc \in {"idle", "create depth"} : Goto(r, pc)
    BY <1>1 DEF CreateAccess, GetAccessLevel
  <2>2. Creating(req[r]) /\ parent' = parent /\ pc \notin InMove
    BY <1>1 DEF CreateAccess, GetAccessLevel, Creating, InMove
  <2>3. QED
    BY <2>1, <2>2, GotoKeeps
<1>2. CASE CreateDepth(r)
  <2>1. PICK pc \in {"idle", "insert"} : Goto(r, pc)
    BY <1>2 DEF CreateDepth
  <2>2. Creating(req[r]) /\ parent' = parent /\ pc \notin InMove
    BY <1>2 DEF CreateDepth, Creating, InMove
  <2>3. QED
    BY <2>1, <2>2, GotoKeeps
<1>3. CASE InsertFolder(r)
  <2> DEFINE n == req[r].what
             p == req[r].to
  <2>1. n \in Folders /\ parent[n] = Unborn /\ p \in Born(parent) \union {Null}
    BY <1>3 DEF InsertFolder, IInv, RequestsOf, Created, Creating
  <2>2. RequestsOf(parent, req')
    BY <1>3, GoesOn DEF InsertFolder, Goto, IInv, InMove
  <2>3. req' = [req EXCEPT ![r] = Idle] /\ parent' = [parent EXCEPT ![n] = p]
    BY <1>3 DEF InsertFolder, Goto
  <2>4. \A s \in Requests : Creating(req'[s]) => req'[s].what # n
    BY <1>3, <2>3 DEF IInv, RequestsOf, Creating, InsertFolder, Idle
  <2> HIDE DEF n, p
  <2>5. TreeOf(parent') /\ RequestsOf(parent', req')
    BY <2>1, <2>2, <2>3, <2>4, InsertKeepsAll DEF IInv
  <2>6. QED
    BY <2>5 DEF IInv
<1>4. QED
  BY <1>1, <1>2, <1>3 DEF CreateStep

LEMMA DeleteKeeps ==
  ASSUME TreeAssumption, IInv, NEW r \in Requests, DeleteStep(r)
  PROVE  IInv'
<1>1. CASE DeleteDocuments(r)
  BY <1>1, GotoKeeps DEF DeleteDocuments, InMove
<1>2. CASE FindSubfolders(r) \/ Descend(r)
  <2>1. Only(r, req, req') /\ DOMAIN req'[r] = Fields
    BY <1>2 DEF FindSubfolders, Descend, Only, IInv, RequestsOf
  <2>2. req'[r].pc \in InDelete /\ parent' = parent
    <3>1. CASE FindSubfolders(r)
      BY <3>1 DEF FindSubfolders, InDelete, IInv, RequestsOf, Fields
    <3>2. CASE Descend(r)
      <4>1. PICK f, st : req' = [req EXCEPT ![r].pc = "delete documents", ![r].stack = st]
        BY <3>2 DEF Descend
      <4>2. QED
        BY <3>2, <4>1 DEF Descend, InDelete, IInv, RequestsOf, Fields
    <3>3. QED
      BY <1>2, <3>1, <3>2
  <2>3. ~Creating(req'[r]) /\ req'[r].pc \notin InMove
    BY <2>2 DEF Creating, InMove, InDelete
  <2>4. RequestsOf(parent, req')
    BY <2>1, <2>3, Harmless DEF IInv
  <2>5. QED
    BY <2>2, <2>4 DEF IInv
<1>3. CASE DeleteRow(r)
  <2>1. RequestsOf(parent, req')
    <3>1. CASE Goto(r, "invalidate")
      BY <3>1, GoesOn DEF Goto, IInv, InMove
    <3>2. CASE req' = [req EXCEPT ![r].stack = Tail(@)]
      <4>1. Only(r, req, req') /\ DOMAIN req'[r] = Fields /\ req'[r].pc = req[r].pc
        BY <3>2 DEF Only, IInv, RequestsOf, Fields
      <4>2. ~Creating(req'[r]) /\ req'[r].pc \notin InMove
        BY <1>3, <4>1 DEF DeleteRow, Creating, InMove
      <4>3. QED
        BY <4>1, <4>2, Harmless DEF IInv
    <3>3. QED
      BY <1>3, <3>1, <3>2 DEF DeleteRow
  <2>2. PICK ids : parent' = [f \in Folders |->
                     IF f \in ids /\ f \in Folders /\ parent[f] \notin {Unborn, Deleted}
                       THEN Deleted ELSE parent[f]]
    BY <1>3 DEF DeleteRow, DeleteFrom, IsFolder
  <2>3. TreeOf(parent') /\ RequestsOf(parent', req')
    BY <2>1, <2>2, DeleteKeepsAll DEF IInv
  <2>4. QED
    BY <2>3 DEF IInv
<1>4. CASE InvalidateAllFolderAccess(r)
  BY <1>4, GotoKeeps DEF InvalidateAllFolderAccess, InMove
<1>5. QED
  BY <1>1, <1>2, <1>3, <1>4 DEF DeleteStep

LEMMA DocumentKeeps ==
  ASSUME TreeAssumption, IInv, NEW r \in Requests, DocumentStep(r)
  PROVE  IInv'
<1>1. CASE GetProjectRootFolderId(r)
  <2>1. /\ Only(r, req, req') /\ DOMAIN req'[r] = Fields
        /\ req'[r].pc = "document quota" /\ parent' = parent
    BY <1>1 DEF GetProjectRootFolderId, Only, IInv, RequestsOf, Fields
  <2>2. ~Creating(req'[r]) /\ req'[r].pc \notin InMove
    BY <2>1 DEF Creating, InMove
  <2>3. RequestsOf(parent, req')
    BY <2>1, <2>2, Harmless DEF IInv
  <2>4. QED
    BY <2>1, <2>3 DEF IInv
<1>2. CASE ~GetProjectRootFolderId(r)
  <2>1. PICK pc \in {"idle", "document root", "document insert", "document update"} : Goto(r, pc)
    BY <1>2 DEF DocumentStep, FolderAccess, ValidateProjectQuotas, InsertDocument,
                DocumentTargetAccess, UpdateDocument, GetAccessLevel
  <2>2. parent' = parent /\ pc \notin InMove
    BY <1>2 DEF DocumentStep, FolderAccess, ValidateProjectQuotas, InsertDocument,
                DocumentTargetAccess, UpdateDocument, GetAccessLevel, InMove
  <2>3. QED
    BY <2>1, <2>2, GotoKeeps
<1>3. QED
  BY <1>1, <1>2

LEMMA MoveKeeps ==
  ASSUME TreeAssumption, IInv, NEW r \in Requests, MoveStep(r)
  PROVE  IInv'
<1> DEFINE q == req[r]
<1>0. DOMAIN q = Fields /\ Moved(parent, q)
  BY DEF IInv, RequestsOf
<1>1. CASE MoveAccess(r)
  <2>1. q.pc = "move access" /\ parent' = parent
    BY <1>1 DEF MoveAccess, GetAccessLevel
  <2>2. PICK pc \in {"idle", "move update", "collect"} :
          /\ Goto(r, pc)
          /\ pc = "move update" => q.to = Null
          /\ pc = "collect" => q.to # Null /\ q.to # q.what
    BY <1>1 DEF MoveAccess, GetAccessLevel
  <2>3. q.what \in Born(parent) /\ q.to \in Born(parent) \union {Null}
        /\ q.found = {} /\ q.todo = {q.what}
    BY <1>0, <2>1 DEF Moved, InMove
  <2>4. Walking(parent, q)
    <3>1. Walked(q) \ q.todo = {}
      BY <2>3 DEF Walked
    <3>2. Below(parent, {} \union {}, Walked(q) \union {})
      BY DEF Below
    <3>3. QED
      BY <3>1, <3>2 DEF Walking, Separates
  <2>5. ASSUME pc # "idle" PROVE Moved(parent, [q EXCEPT !.pc = pc])
    <3> DEFINE q2 == [q EXCEPT !.pc = pc]
    <3>1. q2.pc = pc /\ q2.what = q.what /\ q2.to = q.to /\ q2.found = q.found /\ q2.todo = q.todo
      BY <1>0 DEF Fields
    <3> HIDE DEF q2
    <3>2. Walking(parent, q2)
      BY <2>4, <3>1 DEF Walking, Walked
    <3>3. Moved(parent, q2)
      BY <2>2, <2>3, <2>5, <3>1, <3>2 DEF Moved
    <3>4. QED
      BY <3>3 DEF q2
  <2>6. QED
    BY <2>1, <2>2, <2>5, GotoKeeps DEF InMove
<1>2. CASE CollectSubfolderIds(r)
  <2>1. PICK f \in q.todo :
          req' = [req EXCEPT ![r].found = @ \union Subfolders(f),
                             ![r].todo = (@ \ {f}) \union Subfolders(f)]
    BY <1>2 DEF CollectSubfolderIds
  <2> DEFINE q2 == req'[r]
  <2>2. /\ Only(r, req, req') /\ DOMAIN q2 = Fields
        /\ q2.pc = q.pc /\ q2.what = q.what /\ q2.to = q.to
        /\ q2.found = q.found \union Subfolders(f)
        /\ q2.todo = (q.todo \ {f}) \union Subfolders(f)
    BY <1>0, <2>1 DEF IInv, RequestsOf, Only, Fields
  <2>3. q.pc = "collect" /\ parent' = parent
    BY <1>2 DEF CollectSubfolderIds
  <2>4. /\ q.what \in Born(parent) /\ q.to \in Born(parent) \union {Null}
        /\ q.found \subseteq Folders /\ q.to # Null /\ q.to # q.what /\ Walking(parent, q)
    BY <1>0, <2>3 DEF Moved, InMove
  <2> HIDE DEF q2
  <2>5. Walking(parent, q2)
    <3>1. PICK E \in SUBSET Folders :
            q.to \notin E /\ Below(parent, (Walked(q) \ q.todo) \union E, Walked(q) \union E)
      BY <2>4 DEF Walking, Separates
    <3>2. /\ Walked(q2) = Walked(q) \union Subfolders(f)
          /\ Walked(q2) \ q2.todo \subseteq (Walked(q) \ q.todo) \union {f}
      BY <2>2 DEF Walked
    <3>3. Below(parent, (Walked(q2) \ q2.todo) \union E, Walked(q2) \union E)
      BY <3>1, <3>2 DEF Below, Subfolders
    <3>4. QED
      BY <2>2, <3>1, <3>3 DEF Walking, Separates
  <2>6. Moved(parent, q2)
    BY <2>2, <2>3, <2>4, <2>5 DEF Moved, Subfolders
  <2>7. Created(parent, q2) /\ ~Creating(q2)
    BY <2>2, <2>3 DEF Created, Creating
  <2>8. \A s \in Requests \ {r} : req[s].pc \notin InMove
    BY <2>3 DEF IInv, RequestsOf, InMove
  <2>9. RequestsOf(parent, req')
    BY <2>2, <2>6, <2>7, <2>8, Advance DEF IInv, q2
  <2>10. QED
    BY <2>3, <2>9 DEF IInv
<1>3. CASE Collected(r)
  <2>1. PICK pc \in {"idle", "move target access"} :
          Goto(r, pc) /\ (pc = "move target access" => q.to \notin q.found)
    BY <1>3 DEF Collected
  <2>2. q.pc = "collect" /\ q.todo = {} /\ parent' = parent
    BY <1>3 DEF Collected
  <2>3. /\ q.what \in Born(parent) /\ q.to \in Born(parent) \union {Null}
        /\ q.found \subseteq Folders /\ q.to # q.what /\ Walking(parent, q)
    BY <1>0, <2>2 DEF Moved, InMove
  <2>4. ASSUME q.to \notin q.found PROVE Apart(parent, q)
    <3>1. PICK E \in SUBSET Folders :
            q.to \notin E /\ Below(parent, (Walked(q) \ q.todo) \union E, Walked(q) \union E)
      BY <2>3 DEF Walking, Separates
    <3>2. Below(parent, {q.what} \union (E \union q.found), {q.what} \union (E \union q.found))
      BY <2>2, <3>1 DEF Below, Walked
    <3>3. E \union q.found \in SUBSET Folders /\ q.to \notin E \union q.found
      BY <2>3, <2>4, <3>1
    <3>4. QED
      BY <2>3, <3>2, <3>3 DEF Apart, Separates
  <2>5. ASSUME pc # "idle" PROVE Moved(parent, [q EXCEPT !.pc = pc])
    <3> DEFINE q2 == [q EXCEPT !.pc = pc]
    <3>1. q2.pc = pc /\ q2.what = q.what /\ q2.to = q.to /\ q2.found = q.found
      BY <1>0 DEF Fields
    <3> HIDE DEF q2
    <3>2. Apart(parent, q2)
      BY <2>1, <2>4, <2>5, <3>1 DEF Apart
    <3>3. Moved(parent, q2)
      BY <2>1, <2>3, <2>5, <3>1, <3>2 DEF Moved
    <3>4. QED
      BY <3>3 DEF q2
  <2>6. QED
    BY <2>1, <2>2, <2>5, GotoKeeps DEF InMove
<1>4. CASE MoveTargetAccess(r) \/ MoveDepth(r)
  <2>1. PICK pc \in {"idle", "move depth", "move update"} : Goto(r, pc)
    BY <1>4 DEF MoveTargetAccess, MoveDepth, GetAccessLevel
  <2>2. q.pc \in {"move target access", "move depth"} /\ parent' = parent
    BY <1>4 DEF MoveTargetAccess, MoveDepth, GetAccessLevel
  <2>3. /\ q.what \in Born(parent) /\ q.to \in Born(parent) \union {Null}
        /\ q.found \subseteq Folders /\ (q.to = Null \/ Apart(parent, q))
    BY <1>0, <2>2 DEF Moved, InMove
  <2>4. ASSUME pc # "idle" PROVE Moved(parent, [q EXCEPT !.pc = pc])
    <3> DEFINE q2 == [q EXCEPT !.pc = pc]
    <3>1. q2.pc = pc /\ q2.what = q.what /\ q2.to = q.to /\ q2.found = q.found
      BY <1>0 DEF Fields
    <3> HIDE DEF q2
    <3>2. q2.to = Null \/ Apart(parent, q2)
      BY <2>3, <3>1 DEF Apart
    <3>3. Moved(parent, q2)
      BY <2>1, <2>3, <2>4, <3>1, <3>2 DEF Moved
    <3>4. QED
      BY <3>3 DEF q2
  <2>5. QED
    BY <2>1, <2>2, <2>4, GotoKeeps DEF InMove
<1>5. CASE MoveUpdate(r)
  <2> DEFINE m == q.what
             t == q.to
  <2>1. RequestsOf(parent, req') /\ req' = [req EXCEPT ![r] = Idle]
    BY <1>5, GoesOn DEF MoveUpdate, Goto, IInv, InMove
  <2>2. q.pc = "move update"
    BY <1>5 DEF MoveUpdate
  <2>3. \A s \in Requests : req'[s].pc \notin InMove
    BY <2>1, <2>2 DEF IInv, RequestsOf, InMove, Idle
  <2>4. /\ m \in Born(parent) /\ t \in Born(parent) \union {Null}
        /\ t = Null \/ (t # m /\ Separates(parent, {m}, {m}, t))
    BY <1>0, <2>2 DEF Moved, InMove, Apart
  <2>5. parent' = parent \/ parent' = [parent EXCEPT ![m] = t]
    BY <1>5 DEF MoveUpdate
  <2> HIDE DEF q, m, t
  <2>6. TreeOf(parent') /\ RequestsOf(parent', req')
    BY <2>1, <2>3, <2>4, <2>5, MoveKeepsAll DEF IInv
  <2>7. QED
    BY <2>6 DEF IInv
<1>6. QED
  BY <1>1, <1>2, <1>3, <1>4, <1>5 DEF MoveStep

\* A new request: no other inserts the folder, and no other moves one.
LEMMA StartKeeps ==
  ASSUME TreeAssumption, MaxMoves = 1, IInv, parent' = parent, NEW r \in Requests,
         \/ \E f \in Folders, p \in Known \union {Null} : StartCreate(r, f, p) \/ StartMove(r, f, p)
         \/ \E f \in Folders : StartDelete(r, f)
         \/ \E d \in Documents : \E f \in Known : StartCreateDocument(r, d, f)
         \/ \E d \in Documents : \E t \in Known \union {Null} : StartMoveDocument(r, d, t)
  PROVE  IInv'
<1>1. Known = Born(parent)
  BY DEF Known, Born
<1>2. ASSUME RequestsOf(parent, req') PROVE IInv'
  BY <1>2 DEF IInv
<1>3. ASSUME NEW f \in Folders, NEW p \in Known \union {Null}, StartCreate(r, f, p) PROVE IInv'
  <2>1. /\ Only(r, req, req') /\ DOMAIN req'[r] = Fields /\ Creating(req'[r])
        /\ req'[r].what = f /\ req'[r].to = p
    BY <1>3 DEF StartCreate, Start, Idle, Only, Fields, Creating, IInv, RequestsOf
  <2>2. Created(parent, req'[r]) /\ req'[r].pc \notin InMove /\ Moved(parent, req'[r])
    BY <1>1, <1>3, <2>1 DEF StartCreate, Created, Creating, InMove, Moved
  <2>3. \A s \in Requests \ {r} : req[s].what # req'[r].what
    BY <1>3, <2>1 DEF StartCreate, Fresh
  <2>4. QED
    BY <1>2, <2>1, <2>2, <2>3, Advance DEF IInv
<1>4. ASSUME NEW f \in Folders, NEW t \in Known \union {Null}, StartMove(r, f, t) PROVE IInv'
  <2>1. Moving = {}
    <3>1. Moving \subseteq Requests /\ IsFiniteSet(Moving)
      BY TreeAssumption, FS_Subset DEF Moving
    <3>2. Cardinality(Moving) \in Nat
      BY <3>1, FS_CardinalityType
    <3>3. Cardinality(Moving) < 1
      BY <1>4 DEF StartMove
    <3>4. Cardinality(Moving) = 0
      BY <3>2, <3>3
    <3>5. QED
      BY <3>1, <3>4, FS_EmptySet
  <2>2. /\ Only(r, req, req') /\ DOMAIN req'[r] = Fields /\ req'[r].pc = "move access"
        /\ req'[r].what = f /\ req'[r].to = t /\ req'[r].found = {} /\ req'[r].todo = {f}
    BY <1>4 DEF StartMove, Start, Idle, Only, Fields, IInv, RequestsOf
  <2>3. Moved(parent, req'[r]) /\ ~Creating(req'[r]) /\ Created(parent, req'[r])
    BY <1>1, <1>4, <2>2 DEF StartMove, Moved, Creating, Created
  <2>4. \A s \in Requests \ {r} : req[s].pc \notin InMove
    BY <2>1 DEF Moving
  <2>5. QED
    BY <1>2, <2>2, <2>3, <2>4, Advance DEF IInv
<1>5. ASSUME NEW f \in Folders, StartDelete(r, f) PROVE IInv'
  <2>1. Only(r, req, req') /\ DOMAIN req'[r] = Fields /\ req'[r].pc = "delete documents"
    BY <1>5 DEF StartDelete, Start, Idle, Only, Fields, IInv, RequestsOf
  <2>2. QED
    BY <1>2, <2>1, Harmless DEF IInv, Creating, InMove
<1>6. ASSUME NEW d, NEW t, StartCreateDocument(r, d, t) \/ StartMoveDocument(r, d, t) PROVE IInv'
  <2>1. PICK pc \in {"document access", "document update", "document target access"} :
          Start(r, [Idle EXCEPT !.pc = pc, !.what = d, !.to = t])
    BY <1>6 DEF StartCreateDocument, StartMoveDocument
  <2>2. Only(r, req, req') /\ DOMAIN req'[r] = Fields /\ req'[r].pc = pc
    BY <2>1 DEF Start, Idle, Only, Fields, IInv, RequestsOf
  <2>3. ~Creating(req'[r]) /\ req'[r].pc \notin InMove
    BY <2>2 DEF Creating, InMove
  <2>4. QED
    BY <1>2, <2>2, <2>3, Harmless DEF IInv
<1>7. QED
  BY <1>3, <1>4, <1>5, <1>6

LEMMA NextKeeps ==
  ASSUME TreeAssumption, MaxMoves = 1, IInv, [Next]_vars
  PROVE  IInv'
<1>1. ASSUME NEW r \in Requests, Step(r) PROVE IInv'
  BY <1>1, CreateKeeps, MoveKeeps, DeleteKeeps, DocumentKeeps, TreeAssumption DEF Step
<1>2. ASSUME NEW r \in Requests,
         \/ \E f \in Folders, p \in Known \union {Null} : StartCreate(r, f, p) \/ StartMove(r, f, p)
         \/ \E f \in Folders : StartDelete(r, f)
         \/ \E d \in Documents : \E f \in Known : StartCreateDocument(r, d, f)
         \/ \E d \in Documents : \E t \in Known \union {Null} : StartMoveDocument(r, d, t)
      PROVE  IInv'
  <2>1. parent' = parent
    BY <1>2 DEF StartCreate, StartMove, StartDelete, StartCreateDocument, StartMoveDocument
  <2>2. QED
    BY <1>2, <2>1, StartKeeps, TreeAssumption, SMTT(30)
<1>3. CASE \/ \E f \in Folders : Expire(f)
           \/ \E d \in Documents : DeleteDocument(d)
           \/ UNCHANGED vars
  <2>1. parent' = parent /\ req' = req
    BY <1>3 DEF Expire, DeleteDocument, vars
  <2>2. QED
    BY <2>1 DEF IInv
<1>4. QED
  BY <1>1, <1>2, <1>3 DEF Next

\* With one MoveFolder at a time, whatever creations and deletions it meets, the
\* folders of FolderService stay a forest.
THEOREM OneMoverKeepsForest ==
  ASSUME MaxMoves = 1
  PROVE  Spec => []Forest
<1>1. Init => IInv
  BY InitIInv, TreeAssumption
<1>2. IInv /\ [Next]_vars => IInv'
  BY NextKeeps, TreeAssumption
<1>3. IInv => Forest
  BY DEF IInv, TreeOf, ForestOf, Forest
<1>4. QED
  BY <1>1, <1>2, <1>3, PTL DEF Spec

-----------------------------------------------------------------------------
(***************************************************************************)
(* Types, with what each request is about and the ids in use               *)
(***************************************************************************)

DocumentSteps == {"document access", "document root", "document quota", "document insert",
                  "document target access", "document update"}
Frame   == [folder : Folders, subIds : SUBSET Folders]
Request == [pc : Steps, what : Folders \union Documents \union {Null}, to : Folders \union {Null},
            found : SUBSET Folders, todo : SUBSET Folders, stack : Seq(Frame),
            root : Folders \union {Null}]

\* What a request at step pc is about.
Serves(q, pc) ==
  /\ pc \in {"create access", "create depth", "insert"} \union InMove => q.what \in Folders
  /\ pc \in DocumentSteps => q.what \in Documents
  /\ pc \in InDelete => q.stack # <<>>

Places == [Documents -> Folders \union {Null, Unborn, Deleted}]
NoUnbornPlace(par, loc) == \A d \in Documents : loc[d] \in Folders => loc[d] \in Born(par)

\* The rows, and what points to them.
RowsOf(par, loc, mis) ==
  /\ par \in Parents /\ NoUnbornParent(par)
  /\ loc \in Places /\ NoUnbornPlace(par, loc)
  /\ mis \subseteq Folders \union Documents

RequestsTyped(par, rq) ==
  /\ rq \in [Requests -> Request]
  /\ \A r \in Requests : Serves(rq[r], rq[r].pc) /\ rq[r].to \in Born(par) \union {Null}

Typed == RowsOf(parent, location, misplaced) /\ cached \subseteq Folders /\ RequestsTyped(parent, req)

LEMMA IdleTyped == Idle \in Request /\ (\A pc : pc = "idle" => Serves(Idle, pc)) /\ Idle.to = Null
  <1>1. Idle \in Request
    BY EmptySeq DEF Idle, Request, Steps
  <1> QED
    BY <1>1 DEF Idle, Serves, InMove, InDelete, DocumentSteps

\* One request goes on; ids once in use stay so.
LEMMA OneGoesOn ==
  ASSUME NEW par, NEW rq, RequestsTyped(par, rq), NEW par2, Born(par) \subseteq Born(par2),
         NEW r \in Requests, NEW q \in Request, Serves(q, q.pc), q.to \in Born(par) \union {Null},
         NEW rq2, rq2 = [rq EXCEPT ![r] = q]
  PROVE  RequestsTyped(par2, rq2)
  BY DEF RequestsTyped

LEMMA GotoTyped ==
  ASSUME NEW par, NEW rq, RequestsTyped(par, rq), NEW par2, Born(par) \subseteq Born(par2),
         NEW r \in Requests, NEW pc \in Steps, pc = "idle" \/ Serves(rq[r], pc),
         NEW rq2, rq2 = [rq EXCEPT ![r] = IF pc = "idle" THEN Idle ELSE [@ EXCEPT !.pc = pc]]
  PROVE  RequestsTyped(par2, rq2)
  <1> DEFINE q == IF pc = "idle" THEN Idle ELSE [rq[r] EXCEPT !.pc = pc]
  <1>1. rq2 = [rq EXCEPT ![r] = q] /\ rq[r] \in Request
    BY DEF RequestsTyped
  <1>2. q \in Request /\ Serves(q, q.pc) /\ q.to \in Born(par) \union {Null}
    <2>1. CASE pc = "idle"
      BY <2>1, IdleTyped DEF Idle
    <2>2. CASE pc # "idle"
      <3>1. /\ q \in Request /\ q.pc = pc /\ q.what = rq[r].what /\ q.to = rq[r].to
            /\ q.stack = rq[r].stack
        BY <1>1, <2>2 DEF Request
      <3>2. rq[r].to \in Born(par) \union {Null}
        BY DEF RequestsTyped
      <3> QED
        BY <2>2, <3>1, <3>2 DEF Serves
    <2> QED
      BY <2>1, <2>2
  <1> HIDE DEF q
  <1> QED
    BY <1>1, <1>2, OneGoesOn

\* A request starts.
LEMMA StartTyped ==
  ASSUME NEW par, NEW rq, RequestsTyped(par, rq), NEW r \in Requests, NEW q \in Request,
         Serves(q, q.pc), q.to \in Born(par) \union {Null},
         NEW rq2, rq2 = [rq EXCEPT ![r] = q]
  PROVE  RequestsTyped(par, rq2)
  BY OneGoesOn
-----------------------------------------------------------------------------
(***************************************************************************)
(* What a deletion has cleared                                             *)
(***************************************************************************)

\* The calls that have deleted the documents of their folder, and those that have
\* found its subfolders: all but the innermost, and that one from some step on.
Emptied(q)  == {i \in 1..Len(q.stack) : i > 1 \/ q.pc \in {"find subfolders", "delete next"}}
Searched(q) == {i \in 1..Len(q.stack) : i > 1 \/ q.pc = "delete next"}

\* The subfolders that call i has found and that are not deleted yet.
Awaited(q, i) == q.stack[i].subIds \union (IF i > 1 THEN {q.stack[i - 1].folder} ELSE {})

\* Nothing that was in place is in the folder of a call, beside what the call will
\* come to.
Clears(par, loc, mis, q) ==
  q.pc \in InDelete \ {"invalidate"} =>
    /\ \A i \in Emptied(q), d \in Documents : loc[d] = q.stack[i].folder => d \in mis
    /\ \A i \in Searched(q), g \in Folders :
         par[g] = q.stack[i].folder => g \in mis \union Awaited(q, i)

Stranded(par, loc, mis) ==
  /\ \A f \in Folders : par[f] \in Folders /\ par[par[f]] \in {Unborn, Deleted} => f \in mis
  /\ \A d \in Documents : loc[d] \in Folders /\ par[loc[d]] \in {Unborn, Deleted} => d \in mis

SInv ==
  /\ Typed
  /\ Stranded(parent, location, misplaced)
  /\ \A r \in Requests : Clears(parent, location, misplaced, req[r])

\* Nothing has come to a folder but what is misplaced.
NothingPlaced(par, loc, mis, par2, loc2, mis2) ==
  /\ \A f \in Folders :
       par2[f] \notin Folders \/ f \in mis2 \/ (par2[f] = par[f] /\ f \notin mis)
  /\ \A d \in Documents :
       loc2[d] \notin Folders \/ d \in mis2 \/ (loc2[d] = loc[d] /\ d \notin mis)

LEMMA StaysCleared ==
  ASSUME NEW par, NEW loc, NEW mis, NEW par2, NEW loc2, NEW mis2,
         NothingPlaced(par, loc, mis, par2, loc2, mis2),
         NEW q \in Request, Clears(par, loc, mis, q)
  PROVE  Clears(par2, loc2, mis2, q)
  <1>1. \A i \in 1..Len(q.stack) : q.stack[i].folder \in Folders
    <2>1. q.stack \in Seq(Frame)
      BY DEF Request
    <2>2. \A i \in 1..Len(q.stack) : q.stack[i] \in Frame
      BY <2>1, ElementOfSeq
    <2> QED
      BY <2>2 DEF Frame
  <1>2. Emptied(q) \subseteq 1..Len(q.stack) /\ Searched(q) \subseteq 1..Len(q.stack)
    BY DEF Emptied, Searched
  <1> QED
    BY <1>1, <1>2 DEF Clears, NothingPlaced

-----------------------------------------------------------------------------
(***************************************************************************)
(* Steps that leave the rows as they are                                   *)
(***************************************************************************)

LEMMA RowsStay ==
  ASSUME SInv, UNCHANGED <<parent, location, misplaced>>, cached' \subseteq Folders,
         RequestsTyped(parent, req'), NEW r \in Requests,
         \A s \in Requests \ {r} : req'[s] = req[s],
         Clears(parent, location, misplaced, req'[r])
  PROVE  SInv'
  <1>1. \A s \in Requests : Clears(parent, location, misplaced, req'[s])
    BY DEF SInv
  <1> QED
    BY <1>1 DEF SInv, Typed

LEMMA GotoStays ==
  ASSUME SInv, UNCHANGED <<parent, location, misplaced>>, cached' \subseteq Folders,
         NEW r \in Requests, NEW pc \in Steps, Goto(r, pc),
         pc = "idle" \/ Serves(req[r], pc), pc \notin InDelete \ {"invalidate"}
  PROVE  SInv'
  <1>1. RequestsTyped(parent, req')
    BY GotoTyped DEF Goto, SInv, Typed
  <1>2. \A s \in Requests \ {r} : req'[s] = req[s]
    BY DEF Goto, SInv, Typed, RequestsTyped
  <1>3. req'[r].pc = pc
    <2>1. req[r] \in Request /\ req \in [Requests -> Request]
      BY DEF SInv, Typed, RequestsTyped
    <2> QED
      BY <2>1 DEF Goto, Idle, Request
  <1>4. Clears(parent, location, misplaced, req'[r])
    BY <1>3 DEF Clears
  <1> QED
    BY <1>1, <1>2, <1>4, RowsStay

LEMMA StartStays ==
  ASSUME SInv, UNCHANGED <<parent, location, cached, misplaced>>, NEW r \in Requests,
         NEW q \in Request, Start(r, q), Serves(q, q.pc), q.to \in Known \union {Null},
         Clears(parent, location, misplaced, q)
  PROVE  SInv'
  <1>1. req' = [req EXCEPT ![r] = q] /\ req \in [Requests -> Request]
    BY DEF Start, SInv, Typed, RequestsTyped
  <1>2. RequestsTyped(parent, req')
    BY <1>1, StartTyped DEF SInv, Typed, Known, Born
  <1> QED
    BY <1>1, <1>2, RowsStay DEF SInv, Typed

LEMMA AccessStays ==
  ASSUME SInv, NEW r \in Requests, NEW f, NEW next \in Steps, GetAccessLevel(r, f, next),
         next = "idle" \/ Serves(req[r], next), next \notin InDelete
  PROVE  SInv'
  <1>1. PICK pc \in {"idle", next} : Goto(r, pc)
    BY DEF GetAccessLevel
  <1>2. UNCHANGED <<parent, location, misplaced>> /\ cached' \subseteq Folders
    BY DEF GetAccessLevel, SInv, Typed, IsFolder
  <1>3. "idle" \in Steps /\ "idle" \notin InDelete
    BY DEF Steps, InDelete
  <1> QED
    BY <1>1, <1>2, <1>3, GotoStays

LEMMA StartsSafe ==
  ASSUME TreeAssumption, SInv, NEW r \in Requests,
         \/ \E f \in Folders, p \in Known \union {Null} : StartCreate(r, f, p) \/ StartMove(r, f, p)
         \/ \E f \in Folders : StartDelete(r, f)
         \/ \E d \in Documents : \E f \in Known : StartCreateDocument(r, d, f)
         \/ \E d \in Documents : \E t \in Known \union {Null} : StartMoveDocument(r, d, t)
  PROVE  SInv'
  <1>0. Known \subseteq Folders
    BY DEF Known
  <1>1. ASSUME NEW f \in Folders, NEW p \in Known \union {Null}, StartCreate(r, f, p) PROVE SInv'
    <2> DEFINE q == [Idle EXCEPT !.pc = IF p = Null THEN "insert" ELSE "create access",
                                 !.what = f, !.to = p]
    <2>1. q \in Request /\ q.pc \in {"insert", "create access"} /\ q.what = f /\ q.to = p
      BY <1>0, IdleTyped DEF Idle, Request, Steps
    <2>2. Start(r, q) /\ UNCHANGED <<parent, location, cached, misplaced>>
      BY <1>1 DEF StartCreate
    <2> HIDE DEF q
    <2>3. Serves(q, q.pc) /\ Clears(parent, location, misplaced, q)
      BY <2>1 DEF Serves, Clears, InDelete, DocumentSteps
    <2> QED
      BY <2>1, <2>2, <2>3, StartStays
  <1>2. ASSUME NEW f \in Folders, NEW t \in Known \union {Null}, StartMove(r, f, t) PROVE SInv'
    <2> DEFINE q == [Idle EXCEPT !.pc = "move access", !.what = f, !.to = t, !.todo = {f}]
    <2>1. q \in Request /\ q.pc = "move access" /\ q.what = f /\ q.to = t
      BY <1>0, IdleTyped DEF Idle, Request, Steps, InMove
    <2>2. Start(r, q) /\ UNCHANGED <<parent, location, cached, misplaced>>
      BY <1>2 DEF StartMove
    <2> HIDE DEF q
    <2>3. Serves(q, q.pc) /\ Clears(parent, location, misplaced, q)
      BY <2>1 DEF Serves, Clears, InDelete, DocumentSteps
    <2> QED
      BY <2>1, <2>2, <2>3, StartStays
  <1>3. ASSUME NEW f \in Folders, StartDelete(r, f) PROVE SInv'
    <2> DEFINE q == [Idle EXCEPT !.pc = "delete documents", !.what = f, !.stack = <<Call(f)>>]
    <2>1. /\ q \in Request /\ q.pc = "delete documents" /\ q.to = Null
          /\ q.stack # <<>> /\ Len(q.stack) = 1
      <3>1. <<Call(f)>> \in Seq(Frame) /\ <<Call(f)>> # <<>> /\ Len(<<Call(f)>>) = 1
        BY DEF Call, Frame
      <3> QED
        BY <3>1, IdleTyped DEF Idle, Request, Steps, InDelete
    <2>2. Start(r, q) /\ UNCHANGED <<parent, location, cached, misplaced>>
      BY <1>3 DEF StartDelete
    <2> HIDE DEF q
    <2>3. Serves(q, q.pc)
      BY <2>1 DEF Serves, InMove, DocumentSteps
    <2>4. Emptied(q) = {} /\ Searched(q) = {}
      <3>1. Len(q.stack) = 1
        BY <2>1
      <3>2. \A i \in 1..Len(q.stack) : i = 1 /\ ~(i > 1)
        BY ONLY <3>1
      <3> QED
        BY <2>1, <3>2 DEF Emptied, Searched
    <2> QED
      BY <2>1, <2>2, <2>3, <2>4, StartStays DEF Clears
  <1>4. ASSUME NEW d \in Documents, NEW t \in Known \union {Null},
               StartCreateDocument(r, d, t) \/ StartMoveDocument(r, d, t)
        PROVE  SInv'
    <2> PICK pc \in {"document access", "document update", "document target access"} :
          Start(r, [Idle EXCEPT !.pc = pc, !.what = d, !.to = t])
      BY <1>4 DEF StartCreateDocument, StartMoveDocument
    <2> DEFINE q == [Idle EXCEPT !.pc = pc, !.what = d, !.to = t]
    <2>1. q \in Request /\ q.pc = pc /\ q.what = d /\ q.to = t
      BY <1>0, IdleTyped DEF Idle, Request, Steps
    <2>2. Start(r, q) /\ UNCHANGED <<parent, location, cached, misplaced>>
      BY <1>4 DEF StartCreateDocument, StartMoveDocument
    <2> HIDE DEF q
    <2>3. Serves(q, q.pc) /\ Clears(parent, location, misplaced, q)
      BY <2>1 DEF Serves, Clears, InDelete, InMove
    <2> QED
      BY <2>1, <2>2, <2>3, StartStays
  <1> QED
    BY <1>1, <1>2, <1>3, <1>4

-----------------------------------------------------------------------------
(***************************************************************************)
(* Steps that write a row                                                  *)
(***************************************************************************)

\* A row is written, and the request ends.
LEMMA EndsAfterWriting ==
  ASSUME SInv, NEW r \in Requests, Goto(r, "idle"), cached' = cached,
         RowsOf(parent', location', misplaced'), Born(parent) \subseteq Born(parent'),
         Stranded(parent', location', misplaced'),
         Deleting # {} =>
           NothingPlaced(parent, location, misplaced, parent', location', misplaced')
  PROVE  SInv'
  <1>1. req \in [Requests -> Request] /\ \A s \in Requests : req[s] \in Request
    BY DEF SInv, Typed, RequestsTyped
  <1>2. RequestsTyped(parent', req')
    <2>1. "idle" \in Steps
      BY DEF Steps
    <2> QED
      BY <2>1, GotoTyped DEF Goto, SInv, Typed
  <1>3. ASSUME NEW s \in Requests PROVE Clears(parent', location', misplaced', req'[s])
    <2>1. CASE s = r
      <3>1. req'[s].pc = "idle"
        BY <1>1, <2>1 DEF Goto, Idle
      <3> QED
        BY <3>1 DEF Clears, InDelete
    <2>2. CASE s # r
      <3>1. req'[s] = req[s] /\ Clears(parent, location, misplaced, req[s])
        BY <1>1, <2>2 DEF Goto, SInv
      <3>2. CASE s \in Deleting
        BY <1>1, <3>1, <3>2, StaysCleared
      <3>3. CASE s \notin Deleting
        BY <3>1, <3>3 DEF Deleting, Clears
      <3> QED
        BY <3>2, <3>3
    <2> QED
      BY <2>1, <2>2
  <1> QED
    BY <1>2, <1>3 DEF SInv, Typed

LEMMA FolderPlaced ==
  ASSUME TreeAssumption, SInv, NEW x \in Folders, NEW f \in Born(parent) \union {Null},
         parent' = [parent EXCEPT ![x] = f], location' = location, cached' = cached, Placed(x, f),
         NEW r \in Requests, Goto(r, "idle")
  PROVE  SInv'
  <1>1. /\ parent \in Parents /\ NoUnbornParent(parent)
        /\ location \in Places /\ NoUnbornPlace(parent, location)
        /\ misplaced \subseteq Folders \union Documents
        /\ Stranded(parent, location, misplaced)
    BY DEF SInv, Typed, RowsOf
  <1>2. \A g \in Folders : parent'[g] = IF g = x THEN f ELSE parent[g]
    BY <1>1 DEF Parents
  <1>3. f \in Folders \union {Null} /\ x \notin Documents /\ Null \notin Folders /\ Unborn \notin Folders
        /\ Deleted \notin Folders /\ Null # Unborn /\ Null # Deleted
    BY TreeAssumption DEF Born
  <1>4. parent' \in Parents /\ Born(parent) \subseteq Born(parent')
    BY <1>1, <1>2, <1>3 DEF Parents, Born
  <1>5. RowsOf(parent', location', misplaced')
    BY <1>1, <1>2, <1>3, <1>4 DEF RowsOf, NoUnbornParent, NoUnbornPlace, Placed
  <1>6. /\ misplaced' \ {x} = misplaced \ {x}
        /\ x \in misplaced' \/ f = Null \/ (IsFolder(f) /\ Deleting = {})
    BY DEF Placed
  <1>7. Stranded(parent', location', misplaced')
    <2>1. ASSUME NEW g \in Folders, parent'[g] \in Folders, parent'[parent'[g]] \in {Unborn, Deleted}
          PROVE  g \in misplaced'
      BY <1>1, <1>2, <1>3, <1>6, <2>1 DEF Stranded, IsFolder
    <2>2. ASSUME NEW d \in Documents, location[d] \in Folders, parent'[location[d]] \in {Unborn, Deleted}
          PROVE  d \in misplaced'
      BY <1>1, <1>2, <1>3, <1>6, <2>2 DEF Stranded
    <2> QED
      BY <2>1, <2>2 DEF Stranded
  <1>8. Deleting # {} => NothingPlaced(parent, location, misplaced, parent', location', misplaced')
    BY <1>2, <1>3, <1>6 DEF NothingPlaced
  <1> QED
    BY <1>4, <1>5, <1>7, <1>8, EndsAfterWriting

LEMMA DocumentPlaced ==
  ASSUME TreeAssumption, SInv, NEW x \in Documents, NEW f \in Born(parent) \union {Null},
         location' = [location EXCEPT ![x] = f], parent' = parent, cached' = cached, Placed(x, f),
         NEW r \in Requests, Goto(r, "idle")
  PROVE  SInv'
  <1>1. /\ parent \in Parents /\ NoUnbornParent(parent)
        /\ location \in Places /\ NoUnbornPlace(parent, location)
        /\ misplaced \subseteq Folders \union Documents
        /\ Stranded(parent, location, misplaced)
    BY DEF SInv, Typed, RowsOf
  <1>2. \A d \in Documents : location'[d] = IF d = x THEN f ELSE location[d]
    BY <1>1 DEF Places
  <1>3. f \in Folders \union {Null} /\ x \notin Folders /\ Null \notin Folders /\ Unborn \notin Folders
        /\ Deleted \notin Folders /\ Null # Unborn /\ Null # Deleted
    BY TreeAssumption DEF Born
  <1>4. location' \in Places
    BY <1>1, <1>2, <1>3 DEF Places
  <1>5. RowsOf(parent', location', misplaced')
    BY <1>1, <1>2, <1>3, <1>4 DEF RowsOf, NoUnbornPlace, Placed
  <1>6. /\ misplaced' \ {x} = misplaced \ {x}
        /\ x \in misplaced' \/ f = Null \/ (IsFolder(f) /\ Deleting = {})
    BY DEF Placed
  <1>7. Stranded(parent', location', misplaced')
    BY <1>1, <1>2, <1>3, <1>6 DEF Stranded, IsFolder
  <1>8. Deleting # {} => NothingPlaced(parent, location, misplaced, parent', location', misplaced')
    BY <1>2, <1>3, <1>6 DEF NothingPlaced
  <1> QED
    BY <1>5, <1>7, <1>8, EndsAfterWriting

-----------------------------------------------------------------------------
(***************************************************************************)
(* Deletions                                                               *)
(***************************************************************************)

\* A step of a deletion that writes rows: nothing comes to a folder.
LEMMA DeletionWrites ==
  ASSUME SInv, NEW r \in Requests, NEW q \in Request, req' = [req EXCEPT ![r] = q],
         Serves(q, q.pc), q.to = req[r].to, cached' = cached,
         RowsOf(parent', location', misplaced), Born(parent') = Born(parent), misplaced' = misplaced,
         Stranded(parent', location', misplaced),
         NothingPlaced(parent, location, misplaced, parent', location', misplaced),
         Clears(parent', location', misplaced, q)
  PROVE  SInv'
  <1>1. req \in [Requests -> Request] /\ \A s \in Requests : req[s] \in Request
    BY DEF SInv, Typed, RequestsTyped
  <1>2. RequestsTyped(parent', req')
    BY OneGoesOn DEF SInv, Typed, RequestsTyped
  <1>3. ASSUME NEW s \in Requests PROVE Clears(parent', location', misplaced', req'[s])
    <2>1. CASE s = r
      BY <1>1, <2>1
    <2>2. CASE s # r
      BY <1>1, <2>2, StaysCleared DEF SInv
    <2> QED
      BY <2>1, <2>2
  <1> QED
    BY <1>2, <1>3 DEF SInv, Typed

\* The innermost call of a deletion.
LEMMA TopCall ==
  ASSUME SInv, NEW r \in Requests, req[r].pc \in InDelete
  PROVE  /\ req[r] \in Request /\ req[r].stack \in Seq(Frame) /\ Len(req[r].stack) \in Nat \ {0}
         /\ req[r].stack # <<>> /\ Top(r) = req[r].stack[1] /\ Top(r) \in Frame
         /\ \A i \in 1..Len(req[r].stack) : req[r].stack[i] \in Frame
  <1>1. req[r] \in Request /\ Serves(req[r], req[r].pc)
    BY DEF SInv, Typed, RequestsTyped
  <1>2. req[r].stack \in Seq(Frame) /\ req[r].stack # <<>>
    BY <1>1 DEF Request, Serves
  <1>3. Len(req[r].stack) \in Nat \ {0} /\ \A i \in 1..Len(req[r].stack) : req[r].stack[i] \in Frame
    BY <1>2, EmptySeq, LenProperties, ElementOfSeq
  <1>4. Head(req[r].stack) = req[r].stack[1] /\ 1 \in 1..Len(req[r].stack)
    BY <1>2, <1>3, HeadTailProperties
  <1> QED
    BY <1>1, <1>2, <1>3, <1>4 DEF Top

LEMMA DeleteDocumentsSafe ==
  ASSUME TreeAssumption, SInv, NEW r \in Requests, DeleteDocuments(r)
  PROVE  SInv'
  <1> DEFINE q == [req[r] EXCEPT !.pc = "find subfolders"]
             f == Top(r).folder
  <1>1. /\ req[r].pc = "delete documents" /\ UNCHANGED <<parent, cached, misplaced>>
        /\ location' = [d \in Documents |-> IF location[d] = f THEN Deleted ELSE location[d]]
        /\ req' = [req EXCEPT ![r] = q]
    BY DEF DeleteDocuments, Goto
  <1>2. req[r].pc \in InDelete
    BY <1>1 DEF InDelete
  <1>3. /\ req[r] \in Request /\ f = req[r].stack[1].folder /\ f \in Folders
        /\ req[r].stack # <<>> /\ Len(req[r].stack) \in Nat
    BY <1>2, TopCall DEF Frame
  <1>4. /\ q \in Request /\ q.pc = "find subfolders" /\ q.stack = req[r].stack
        /\ q.what = req[r].what /\ q.to = req[r].to
    BY <1>3 DEF Request, Steps, InDelete
  <1>5. Serves(q, q.pc)
    BY <1>3, <1>4 DEF Serves, InMove, InDelete, DocumentSteps
  <1>6. Emptied(q) \subseteq Emptied(req[r]) \union {1} /\ Searched(q) = Searched(req[r])
    <2>1. \A i \in 1..Len(q.stack) : i > 1 \/ i = 1
      <3>1. Len(q.stack) \in Nat
        BY <1>3, <1>4
      <3> QED
        BY ONLY <3>1
    <2> QED
      BY <1>1, <1>4, <2>1 DEF Emptied, Searched
  <1> HIDE DEF q, f
  <1>7. Deleted \notin Folders
    BY TreeAssumption
  <1>8. RowsOf(parent, location, misplaced) /\ Stranded(parent, location, misplaced)
    BY DEF SInv, Typed
  <1>9. RowsOf(parent', location', misplaced)
    BY <1>1, <1>7, <1>8 DEF RowsOf, Places, NoUnbornPlace
  <1>10. Stranded(parent', location', misplaced)
    BY <1>1, <1>7, <1>8 DEF Stranded
  <1>11. NothingPlaced(parent, location, misplaced, parent', location', misplaced)
    BY <1>1 DEF NothingPlaced
  <1>12. Clears(parent, location, misplaced, req[r])
    BY DEF SInv
  <1>13. Clears(parent', location', misplaced, q)
    <2>1. \A i \in Emptied(req[r]), d \in Documents : location[d] = q.stack[i].folder => d \in misplaced
      BY <1>2, <1>1, <1>4, <1>12 DEF Clears
    <2>2. \A i \in Emptied(q), d \in Documents : location'[d] = q.stack[i].folder => d \in misplaced
      <3> SUFFICES ASSUME NEW i \in Emptied(q), NEW d \in Documents, location'[d] = q.stack[i].folder
                   PROVE  d \in misplaced
        OBVIOUS
      <3>1. q.stack[i].folder \in Folders
        BY <1>2, <1>4, TopCall DEF Emptied, Frame
      <3>2. location[d] # f /\ location[d] = q.stack[i].folder
        BY <1>1, <1>7, <3>1
      <3>3. i # 1
        BY <1>3, <1>4, <3>2
      <3> QED
        BY <1>6, <2>1, <3>2, <3>3
    <2>3. \A i \in Searched(q), g \in Folders :
            parent[g] = q.stack[i].folder => g \in misplaced \union Awaited(q, i)
      BY <1>1, <1>2, <1>4, <1>6, <1>12 DEF Clears, Awaited
    <2> QED
      BY <1>1, <2>2, <2>3 DEF Clears
  <1> QED
    BY <1>1, <1>4, <1>5, <1>9, <1>10, <1>11, <1>13, DeletionWrites

LEMMA FindSubfoldersSafe ==
  ASSUME SInv, NEW r \in Requests, FindSubfolders(r)
  PROVE  SInv'
  <1> DEFINE call == [Top(r) EXCEPT !.subIds = Subfolders(Top(r).folder)]
             stack == [req[r].stack EXCEPT ![1] = call]
             q == [req[r] EXCEPT !.pc = "delete next", !.stack = stack]
  <1>1. req[r].pc = "find subfolders" /\ UNCHANGED <<parent, location, cached, misplaced>>
    BY DEF FindSubfolders
  <1>2. req[r].pc \in InDelete
    BY <1>1 DEF InDelete
  <1>3. /\ req[r] \in Request /\ req[r].stack \in Seq(Frame) /\ Len(req[r].stack) \in Nat \ {0}
        /\ Top(r) = req[r].stack[1] /\ Top(r) \in Frame
    BY <1>2, TopCall
  <1>4. call \in Frame /\ call.folder = Top(r).folder /\ call.subIds = Subfolders(Top(r).folder)
    BY <1>3 DEF Frame, Subfolders
  <1>5. req' = [req EXCEPT ![r] = q]
    BY <1>3 DEF FindSubfolders
  <1> HIDE DEF call
  <1>6. /\ stack \in Seq(Frame) /\ Len(stack) = Len(req[r].stack) /\ stack[1] = call
        /\ \A i \in 1..Len(stack) : i # 1 => stack[i] = req[r].stack[i]
    <2>1. stack \in Seq(Frame) /\ Len(stack) = Len(req[r].stack)
      BY <1>3, <1>4, ExceptSeq
    <2>2. 1 \in 1..Len(req[r].stack) /\ DOMAIN req[r].stack = 1..Len(req[r].stack)
      BY <1>3, LenProperties
    <2> QED
      BY <2>1, <2>2
  <1> HIDE DEF stack
  <1>7. /\ q \in Request /\ q.pc = "delete next" /\ q.stack = stack
        /\ q.what = req[r].what /\ q.to = req[r].to
    BY <1>3, <1>6 DEF Request, Steps, InDelete
  <1> HIDE DEF q
  <1>8. Serves(q, q.pc)
    <2>1. q.stack # <<>>
      BY <1>3, <1>6, <1>7, EmptySeq
    <2> QED
      BY <1>7, <2>1 DEF Serves, InMove, InDelete, DocumentSteps
  <1>9. Clears(parent, location, misplaced, req[r])
    BY DEF SInv
  <1>10. Clears(parent, location, misplaced, q)
    <2>1. Emptied(q) = Emptied(req[r]) /\ Searched(q) = Searched(req[r]) \union {1}
          /\ Emptied(q) \subseteq 1..Len(stack) /\ Searched(q) \subseteq 1..Len(stack)
      <3>1. (\A i \in 1..Len(stack) : i > 1 \/ i = 1) /\ 1 \in 1..Len(stack)
        BY <1>3, <1>6
      <3> QED
        BY <1>1, <1>6, <1>7, <3>1 DEF Emptied, Searched
    <2>2. \A i \in 1..Len(stack) : q.stack[i].folder = req[r].stack[i].folder
      BY <1>3, <1>4, <1>6, <1>7
    <2>3. \A i \in Emptied(q), d \in Documents : location[d] = q.stack[i].folder => d \in misplaced
      BY <1>1, <1>2, <1>9, <2>1, <2>2 DEF Clears
    <2>4. ASSUME NEW i \in Searched(q), NEW g \in Folders, parent[g] = q.stack[i].folder
          PROVE  g \in misplaced \union Awaited(q, i)
      <3>1. CASE i = 1
        BY <1>3, <1>4, <1>6, <1>7, <2>4, <3>1 DEF Awaited, Subfolders
      <3>2. CASE i # 1
        <4>1. i \in Searched(req[r]) /\ parent[g] = req[r].stack[i].folder
          BY <2>1, <2>2, <2>4, <3>2
        <4>2. g \in misplaced \union Awaited(req[r], i)
          BY <1>1, <1>2, <1>9, <4>1 DEF Clears
        <4>3. i - 1 \in 1..Len(stack) /\ i > 1
          <5>1. i \in 1..Len(stack) /\ Len(stack) \in Nat
            BY <1>3, <1>6, <2>1, <2>4
          <5> QED
            BY ONLY <3>2, <5>1
        <4>4. q.stack[i] = req[r].stack[i]
          BY <1>6, <1>7, <2>1, <2>4, <3>2
        <4> QED
          BY <2>2, <4>2, <4>3, <4>4 DEF Awaited
      <3> QED
        BY <3>1, <3>2
    <2> QED
      BY <2>3, <2>4 DEF Clears
  <1>11. RequestsTyped(parent, req')
    BY <1>5, <1>7, <1>8, OneGoesOn DEF SInv, Typed, RequestsTyped
  <1>12. req'[r] = q /\ \A s \in Requests \ {r} : req'[s] = req[s]
    BY <1>5 DEF SInv, Typed, RequestsTyped
  <1> QED
    BY <1>1, <1>10, <1>11, <1>12, RowsStay DEF SInv, Typed

LEMMA DescendSafe ==
  ASSUME SInv, NEW r \in Requests, Descend(r)
  PROVE  SInv'
  <1>1. PICK f \in Top(r).subIds :
          req' = [req EXCEPT ![r].pc = "delete documents",
                             ![r].stack = <<Call(f), [Top(r) EXCEPT !.subIds = @ \ {f}]>>
                                            \o Tail(req[r].stack)]
    BY DEF Descend
  <1> DEFINE old == req[r].stack
             outer == [Top(r) EXCEPT !.subIds = @ \ {f}]
             stack == <<Call(f), outer>> \o Tail(old)
             q == [req[r] EXCEPT !.pc = "delete documents", !.stack = stack]
  <1>2. req[r].pc = "delete next" /\ req[r].pc \in InDelete
        /\ UNCHANGED <<parent, location, cached, misplaced>>
    BY DEF Descend, InDelete
  <1>3. /\ req[r] \in Request /\ old \in Seq(Frame) /\ Len(old) \in Nat \ {0} /\ old # <<>>
        /\ Top(r) = old[1] /\ Top(r) \in Frame
    BY <1>2, TopCall
  <1>4. /\ Call(f) \in Frame /\ Call(f).folder = f
        /\ outer \in Frame /\ outer.folder = Top(r).folder /\ outer.subIds = Top(r).subIds \ {f}
    BY <1>3 DEF Frame, Call
  <1>5. req' = [req EXCEPT ![r] = q]
    BY <1>1
  <1> HIDE DEF outer
  <1>6. /\ stack \in Seq(Frame) /\ Len(stack) = Len(old) + 1
        /\ stack[1] = Call(f) /\ stack[2] = outer
        /\ \A i \in 3..Len(stack) : stack[i] = old[i - 1]
    <2> DEFINE two == <<Call(f), outer>>
    <2>1. two \in Seq(Frame) /\ Len(two) = 2 /\ two[1] = Call(f) /\ two[2] = outer
      BY <1>4
    <2>2. /\ Tail(old) \in Seq(Frame) /\ Len(Tail(old)) = Len(old) - 1
          /\ \A i \in 1..Len(Tail(old)) : Tail(old)[i] = old[i + 1]
      BY <1>3, HeadTailProperties
    <2> HIDE DEF two
    <2>3. /\ two \o Tail(old) \in Seq(Frame) /\ Len(two \o Tail(old)) = 2 + (Len(old) - 1)
          /\ \A i \in 1..(2 + (Len(old) - 1)) :
               (two \o Tail(old))[i] = IF i <= 2 THEN two[i] ELSE Tail(old)[i - 2]
      <3>1. /\ two \o Tail(old) \in Seq(Frame) /\ Len(two \o Tail(old)) = Len(two) + Len(Tail(old))
            /\ \A i \in 1..(Len(two) + Len(Tail(old))) :
                 (two \o Tail(old))[i] = IF i <= Len(two) THEN two[i] ELSE Tail(old)[i - Len(two)]
        BY ONLY <2>1, <2>2, ConcatProperties
      <3>2. Len(two) = 2 /\ Len(Tail(old)) = Len(old) - 1
        BY <2>1, <2>2
      <3> QED
        BY ONLY <3>1, <3>2
    <2>4. stack = two \o Tail(old)
      BY DEF two
    <2> HIDE DEF stack
    <2>5. Len(stack) = Len(old) + 1 /\ stack \in Seq(Frame) /\ stack[1] = Call(f) /\ stack[2] = outer
      BY <1>3, <2>1, <2>3, <2>4
    <2>6. ASSUME NEW i \in 3..Len(stack) PROVE stack[i] = old[i - 1]
      <3>1. i \in 1..(2 + (Len(old) - 1)) /\ ~(i <= 2) /\ i - 2 \in 1..(Len(old) - 1) /\ (i - 2) + 1 = i - 1
        BY <1>3, <2>5
      <3> QED
        BY <2>2, <2>3, <2>4, <3>1
    <2> QED
      BY <2>5, <2>6
  <1> HIDE DEF stack
  <1>7. /\ q \in Request /\ q.pc = "delete documents" /\ q.stack = stack
        /\ q.what = req[r].what /\ q.to = req[r].to
    BY <1>3, <1>6 DEF Request, Steps, InDelete
  <1> HIDE DEF q, old
  <1>8. Serves(q, q.pc)
    <2>1. Len(stack) # 0 /\ Len(<<>>) = 0
      <3>1. Len(old) \in Nat /\ Len(stack) = Len(old) + 1
        BY <1>3, <1>6
      <3> QED
        BY ONLY <3>1, EmptySeq
    <2>2. q.stack # <<>>
      BY <1>7, <2>1
    <2> QED
      BY <1>7, <2>2 DEF Serves, InMove, InDelete, DocumentSteps
  <1>9. /\ \A i \in 1..Len(old), d \in Documents : location[d] = old[i].folder => d \in misplaced
        /\ \A i \in 1..Len(old), g \in Folders :
             parent[g] = old[i].folder => g \in misplaced \union Awaited(req[r], i)
    <2>1. Clears(parent, location, misplaced, req[r])
      BY DEF SInv
    <2> QED
      BY <1>2, <2>1 DEF Clears, Emptied, Searched, old
  <1>10. Clears(parent, location, misplaced, q)
    <2>1. ASSUME NEW i \in 1..Len(stack), i > 1
          PROVE  /\ i - 1 \in 1..Len(old) /\ q.stack[i].folder = old[i - 1].folder
                 /\ Awaited(req[r], i - 1) \subseteq Awaited(q, i)
      <3>1. i - 1 \in 1..Len(old)
        BY <1>3, <1>6, <2>1
      <3>2. CASE i = 2
        <4>1. i - 1 = 1 /\ ~(i - 1 > 1)
          BY <3>2
        <4> QED
          BY <1>3, <1>4, <1>6, <1>7, <2>1, <3>1, <3>2, <4>1 DEF Awaited, old
      <3>3. CASE i \in 3..Len(stack)
        <4>1. i - 1 > 1 /\ q.stack[i] = old[i - 1]
          <5>1. i - 1 > 1
            BY ONLY <3>3
          <5> QED
            BY <1>6, <1>7, <3>3, <5>1
        <4>2. q.stack[i - 1].folder = old[(i - 1) - 1].folder
          <5>1. CASE i = 3
            <6>1. i - 1 = 2 /\ (i - 1) - 1 = 1
              BY <5>1
            <6> QED
              BY <1>3, <1>4, <1>6, <1>7, <6>1
          <5>2. CASE i - 1 \in 3..Len(stack)
            BY <1>6, <1>7, <5>2
          <5> QED
            BY <1>3, <1>6, <3>3, <5>1, <5>2
        <4> QED
          BY <2>1, <3>1, <4>1, <4>2 DEF Awaited, old
      <3> QED
        BY <1>3, <1>6, <2>1, <3>2, <3>3
    <2>2. \A i \in Emptied(q) \union Searched(q) : i \in 1..Len(stack) /\ i > 1
      BY <1>7 DEF Emptied, Searched
    <2>3. \A i \in Emptied(q), d \in Documents : location[d] = q.stack[i].folder => d \in misplaced
      BY <1>9, <2>1, <2>2
    <2>4. \A i \in Searched(q), g \in Folders :
            parent[g] = q.stack[i].folder => g \in misplaced \union Awaited(q, i)
      BY <1>9, <2>1, <2>2
    <2> QED
      BY <2>3, <2>4 DEF Clears
  <1>11. RequestsTyped(parent, req')
    BY <1>5, <1>7, <1>8, OneGoesOn DEF SInv, Typed, RequestsTyped
  <1>12. req'[r] = q /\ \A s \in Requests \ {r} : req'[s] = req[s]
    BY <1>5 DEF SInv, Typed, RequestsTyped
  <1> QED
    BY <1>2, <1>10, <1>11, <1>12, RowsStay DEF SInv, Typed

\* The row goes when nothing that was in place is left in the folder.
LEMMA DeleteRowSafe ==
  ASSUME TreeAssumption, SInv, NEW r \in Requests, DeleteRow(r)
  PROVE  SInv'
  <1> DEFINE old == req[r].stack
             f == Top(r).folder
             q == IF Len(old) = 1 THEN [req[r] EXCEPT !.pc = "invalidate"]
                                  ELSE [req[r] EXCEPT !.stack = Tail(old)]
  <1>1. /\ req[r].pc = "delete next" /\ req[r].pc \in InDelete /\ Top(r).subIds = {}
        /\ UNCHANGED <<location, cached, misplaced>>
        /\ parent' = [g \in Folders |-> IF g \in {f} /\ IsFolder(g) THEN Deleted ELSE parent[g]]
    BY DEF DeleteRow, DeleteFrom, InDelete
  <1>2. req' = [req EXCEPT ![r] = q]
    BY DEF DeleteRow, Goto
  <1>3. /\ req[r] \in Request /\ old \in Seq(Frame) /\ Len(old) \in Nat \ {0} /\ old # <<>>
        /\ Top(r) = old[1] /\ Top(r) \in Frame /\ f \in Folders
        /\ \A i \in 1..Len(old) : old[i].folder \in Folders
    BY <1>1, TopCall DEF Frame
  <1>4. /\ Tail(old) \in Seq(Frame) /\ Len(Tail(old)) = Len(old) - 1
        /\ \A i \in 1..Len(Tail(old)) : Tail(old)[i] = old[i + 1]
    BY <1>3, HeadTailProperties
  <1>5. /\ q \in Request /\ q.what = req[r].what /\ q.to = req[r].to
        /\ Len(old) = 1 => q.pc = "invalidate" /\ q.stack = old
        /\ Len(old) # 1 => q.pc = "delete next" /\ q.stack = Tail(old)
    BY <1>1, <1>3, <1>4 DEF Request, Steps, InDelete
  <1> HIDE DEF q, f, old
  <1>6. Serves(q, q.pc)
    <2>1. q.stack # <<>>
      <3>1. CASE Len(old) = 1
        BY <1>3, <1>5, <3>1
      <3>2. CASE Len(old) # 1
        <4>1. Len(Tail(old)) # 0
          <5>1. Len(old) \in Nat /\ Len(Tail(old)) = Len(old) - 1
            BY <1>3, <1>4
          <5> QED
            BY ONLY <3>2, <5>1
        <4> QED
          BY <1>5, <3>2, <4>1, EmptySeq
      <3> QED
        BY <3>1, <3>2
    <2>2. q.pc \in {"invalidate", "delete next"}
      BY <1>5
    <2> QED
      BY <2>1, <2>2 DEF Serves, InMove, InDelete, DocumentSteps
  <1>7. Deleted \notin Folders /\ Deleted # Unborn /\ Unborn \notin Folders
    BY TreeAssumption
  <1>8. /\ parent \in Parents /\ NoUnbornParent(parent)
        /\ location \in Places /\ NoUnbornPlace(parent, location)
        /\ misplaced \subseteq Folders \union Documents /\ Stranded(parent, location, misplaced)
    BY DEF SInv, Typed, RowsOf
  <1>9. /\ \A g \in Folders : parent'[g] = parent[g] \/ (parent'[g] = Deleted /\ g = f /\ parent[g] # Unborn)
        /\ parent'[f] \notin Folders /\ parent' \in Parents
    BY <1>1, <1>3, <1>7, <1>8 DEF IsFolder, Parents
  <1>10. Born(parent') = Born(parent)
    BY <1>7, <1>9 DEF Born
  <1>11. RowsOf(parent', location', misplaced)
    <2>1. NoUnbornParent(parent')
      BY <1>7, <1>8, <1>9, <1>10 DEF NoUnbornParent
    <2>2. NoUnbornPlace(parent', location)
      BY <1>8, <1>10 DEF NoUnbornPlace
    <2> QED
      BY <1>1, <1>8, <1>9, <2>1, <2>2 DEF RowsOf
  <1>12. /\ \A i \in 1..Len(old), d \in Documents : location[d] = old[i].folder => d \in misplaced
         /\ \A i \in 1..Len(old), g \in Folders :
              parent[g] = old[i].folder => g \in misplaced \union Awaited(req[r], i)
    <2>1. Clears(parent, location, misplaced, req[r])
      BY DEF SInv
    <2> QED
      BY <1>1, <2>1 DEF Clears, Emptied, Searched, old
  <1>13. /\ \A d \in Documents : location[d] = f => d \in misplaced
         /\ \A g \in Folders : parent[g] = f => g \in misplaced
    <2>1. 1 \in 1..Len(old) /\ ~(1 > 1) /\ old[1].folder = f
      BY <1>3 DEF f
    <2>2. Awaited(req[r], 1) = {}
      BY <1>1, <1>3, <2>1 DEF Awaited, old
    <2> QED
      BY <1>12, <2>1, <2>2
  <1>14. Stranded(parent', location', misplaced)
    BY <1>1, <1>3, <1>7, <1>8, <1>9, <1>13 DEF Stranded
  <1>15. NothingPlaced(parent, location, misplaced, parent', location', misplaced)
    BY <1>1, <1>7, <1>9 DEF NothingPlaced
  <1>16. Clears(parent', location', misplaced, q)
    <2>1. CASE Len(old) = 1
      BY <1>5, <2>1 DEF Clears
    <2>2. CASE Len(old) # 1
      <3>1. ASSUME NEW i \in 1..Len(q.stack)
            PROVE  /\ i + 1 \in 1..Len(old) /\ q.stack[i] = old[i + 1] /\ i + 1 > 1
                   /\ i \in Int /\ (i + 1) - 1 = i
        <4>1. q.stack = Tail(old)
          BY <1>5, <2>2
        <4>2. Len(old) \in Nat /\ Len(q.stack) = Len(old) - 1
          BY <1>3, <1>4, <4>1
        <4>3. /\ i + 1 \in 1..Len(old) /\ i + 1 > 1
              /\ i \in Int /\ (i + 1) - 1 = i
          BY ONLY <4>2, i \in 1..Len(q.stack)
        <4>4. i \in 1..Len(Tail(old))
          BY <4>1
        <4>5. q.stack[i] = old[i + 1]
          BY <1>4, <4>1, <4>4, ZenonT(60)
        <4> QED
          BY <4>3, <4>5
      <3>2. \A i \in Emptied(q), d \in Documents : location'[d] = q.stack[i].folder => d \in misplaced
        BY <1>1, <1>12, <3>1 DEF Emptied
      <3>3. ASSUME NEW i \in Searched(q), NEW g \in Folders, parent'[g] = q.stack[i].folder
            PROVE  g \in misplaced \union Awaited(q, i)
        <4>1. i \in 1..Len(q.stack)
          BY DEF Searched
        <4>2. parent'[g] \in Folders
          BY <1>3, <3>1, <3>3, <4>1
        <4>3. parent[g] = old[i + 1].folder /\ g # f
          BY <1>7, <1>9, <3>1, <3>3, <4>1, <4>2
        <4>4. g \in misplaced \union (old[i + 1].subIds \union {old[i].folder})
          BY <1>12, <3>1, <4>1, <4>3 DEF Awaited, old
        <4>5. CASE i > 1
          <5>1. i - 1 \in 1..Len(q.stack) /\ (i - 1) + 1 = i
            <6>1. Len(q.stack) \in Nat
              <7>1. q.stack \in Seq(Frame)
                BY <1>4, <1>5, <2>2
              <7> QED
                BY <7>1, LenProperties
            <6> QED
              BY ONLY <4>1, <4>5, <6>1
          <5>2. q.stack[i - 1] = old[i]
            BY <3>1, <5>1
          <5> QED
            BY <3>1, <4>1, <4>4, <4>5, <5>2 DEF Awaited
        <4>6. CASE i = 1
          <5>1. old[i].folder = f
            BY <1>3, <4>6 DEF f
          <5> QED
            BY <3>1, <4>1, <4>3, <4>4, <5>1 DEF Awaited
        <4>7. i > 1 \/ i = 1
          BY <4>1
        <4> QED
          BY <4>5, <4>6, <4>7
      <3> QED
        BY <3>2, <3>3 DEF Clears
    <2> QED
      BY <2>1, <2>2
  <1> QED
    BY <1>1, <1>2, <1>5, <1>6, <1>10, <1>11, <1>14, <1>15, <1>16, DeletionWrites

LEMMA DeletionSafe ==
  ASSUME TreeAssumption, SInv, NEW r \in Requests, DeleteStep(r)
  PROVE  SInv'
  <1>1. CASE InvalidateAllFolderAccess(r)
    <2>1. "idle" \in Steps
      BY DEF Steps
    <2>2. /\ Goto(r, "idle") /\ UNCHANGED <<parent, location, misplaced>> /\ cached' \subseteq Folders
          /\ "idle" \notin InDelete
      BY <1>1 DEF InvalidateAllFolderAccess, SInv, Typed, InDelete
    <2> QED
      BY <2>1, <2>2, GotoStays
  <1> QED
    BY <1>1, DeleteDocumentsSafe, FindSubfoldersSafe, DescendSafe, DeleteRowSafe DEF DeleteStep

-----------------------------------------------------------------------------
(***************************************************************************)
(* The other requests, step by step                                        *)
(***************************************************************************)

LEMMA CreationSafe ==
  ASSUME TreeAssumption, SInv, NEW r \in Requests, CreateStep(r)
  PROVE  SInv'
  <1>0. Serves(req[r], req[r].pc) /\ req[r].to \in Born(parent) \union {Null}
    BY DEF SInv, Typed, RequestsTyped
  <1>1. CASE CreateAccess(r)
    <2>1. Serves(req[r], "create depth") /\ "create depth" \in Steps \ InDelete
      BY <1>0, <1>1 DEF CreateAccess, Serves, Steps, InMove, InDelete, DocumentSteps
    <2> QED
      BY <1>1, <2>1, AccessStays DEF CreateAccess
  <1>2. CASE CreateDepth(r)
    <2>1. Serves(req[r], "insert") /\ {"insert", "idle"} \subseteq Steps \ InDelete
      BY <1>0, <1>2 DEF CreateDepth, Serves, Steps, InMove, InDelete, DocumentSteps
    <2>2. PICK pc \in {"idle", "insert"} : Goto(r, pc)
      BY <1>2 DEF CreateDepth
    <2>3. UNCHANGED <<parent, location, misplaced>> /\ cached' \subseteq Folders
      BY <1>2 DEF CreateDepth, SInv, Typed
    <2> QED
      BY <2>1, <2>2, <2>3, GotoStays
  <1>3. CASE InsertFolder(r)
    <2>1. req[r].what \in Folders
      BY <1>0, <1>3 DEF InsertFolder, Serves
    <2> QED
      BY <1>0, <1>3, <2>1, FolderPlaced DEF InsertFolder
  <1> QED
    BY <1>1, <1>2, <1>3 DEF CreateStep

LEMMA MoveSafe ==
  ASSUME TreeAssumption, SInv, NEW r \in Requests, MoveStep(r)
  PROVE  SInv'
  <1>0. /\ req[r] \in Request /\ Serves(req[r], req[r].pc) /\ req[r].to \in Born(parent) \union {Null}
    BY DEF SInv, Typed, RequestsTyped
  <1>1. \A pc \in InMove : pc \in Steps \ InDelete
    BY DEF Steps, InMove, InDelete
  <1>2. "idle" \in Steps \ InDelete
    BY DEF Steps, InDelete
  <1>3. ASSUME req[r].pc \in InMove
        PROVE  req[r].what \in Folders /\ \A pc \in InMove : Serves(req[r], pc)
    BY <1>0, <1>3 DEF Serves, InMove, InDelete, DocumentSteps
  <1>4. CASE MoveAccess(r)
    <2>1. PICK pc \in {"idle", "move update", "collect"} : GetAccessLevel(r, req[r].what, pc)
      BY <1>4 DEF MoveAccess
    <2>2. req[r].pc \in InMove /\ (pc = "idle" \/ pc \in InMove)
      BY <1>4 DEF MoveAccess, InMove
    <2> QED
      BY <1>1, <1>2, <1>3, <2>1, <2>2, AccessStays
  <1>5. CASE CollectSubfolderIds(r)
    <2>1. PICK f \in req[r].todo :
            req' = [req EXCEPT ![r].found = @ \union Subfolders(f),
                               ![r].todo = (@ \ {f}) \union Subfolders(f)]
      BY <1>5 DEF CollectSubfolderIds
    <2> DEFINE q == [req[r] EXCEPT !.found = @ \union Subfolders(f),
                                   !.todo = (@ \ {f}) \union Subfolders(f)]
    <2>2. req' = [req EXCEPT ![r] = q]
      BY <2>1
    <2>3. q \in Request /\ q.pc = "collect" /\ q.what = req[r].what /\ q.to = req[r].to
      BY <1>0, <1>5 DEF CollectSubfolderIds, Request, Subfolders
    <2> HIDE DEF q
    <2>4. Serves(q, q.pc) /\ q.pc \notin InDelete
      BY <1>3, <1>5, <2>3 DEF CollectSubfolderIds, Serves, InMove, InDelete, DocumentSteps
    <2>5. RequestsTyped(parent, req')
      BY <1>0, <2>2, <2>3, <2>4, StartTyped DEF SInv, Typed
    <2>6. /\ req'[r] = q /\ \A s \in Requests \ {r} : req'[s] = req[s]
          /\ UNCHANGED <<parent, location, misplaced>> /\ cached' \subseteq Folders
      BY <1>5, <2>2 DEF CollectSubfolderIds, SInv, Typed, RequestsTyped
    <2> QED
      BY <2>4, <2>5, <2>6, RowsStay DEF Clears
  <1>6. CASE Collected(r) \/ MoveDepth(r)
    <2>1. PICK pc \in {"idle", "move target access", "move update"} : Goto(r, pc)
      BY <1>6 DEF Collected, MoveDepth
    <2>2. /\ req[r].pc \in InMove /\ (pc = "idle" \/ pc \in InMove)
          /\ UNCHANGED <<parent, location, misplaced>> /\ cached' \subseteq Folders
      BY <1>6 DEF Collected, MoveDepth, InMove, SInv, Typed
    <2> QED
      BY <1>1, <1>2, <1>3, <2>1, <2>2, GotoStays
  <1>7. CASE MoveTargetAccess(r)
    <2>1. req[r].pc \in InMove /\ "move depth" \in InMove
      BY <1>7 DEF MoveTargetAccess, InMove
    <2> QED
      BY <1>1, <1>3, <1>7, <2>1, AccessStays DEF MoveTargetAccess
  <1>8. CASE MoveUpdate(r)
    <2>1. req[r].what \in Folders
      BY <1>3, <1>8 DEF MoveUpdate, InMove
    <2>2. CASE IsFolder(req[r].what)
      BY <1>0, <1>8, <2>1, <2>2, FolderPlaced DEF MoveUpdate
    <2>3. CASE ~IsFolder(req[r].what)
      <3>1. Goto(r, "idle") /\ UNCHANGED <<parent, location, misplaced>> /\ cached' \subseteq Folders
        BY <1>8, <2>3 DEF MoveUpdate, SInv, Typed
      <3> QED
        BY <1>2, <3>1, GotoStays
    <2> QED
      BY <2>2, <2>3
  <1> QED
    BY <1>4, <1>5, <1>6, <1>7, <1>8 DEF MoveStep

LEMMA ProjectRootType ==
  ASSUME NEW f \in Folders \union {Null}
  PROVE  ProjectRoot(f) \in Folders \union {Null}
  <1> DEFINE ends == {n \in 0..9 : IsFolder(Ancestor(f, n)) /\ parent[Ancestor(f, n)] = Null}
  <1>1. CASE ends = {}
    BY <1>1 DEF ProjectRoot
  <1>2. CASE ends # {}
    <2>1. (CHOOSE n \in ends : TRUE) \in ends
      BY <1>2
    <2>2. IsFolder(Ancestor(f, CHOOSE n \in ends : TRUE))
      BY <2>1
    <2> QED
      BY <1>2, <2>2 DEF ProjectRoot, IsFolder
  <1> QED
    BY <1>1, <1>2

LEMMA DocumentSafe ==
  ASSUME TreeAssumption, SInv, NEW r \in Requests, DocumentStep(r)
  PROVE  SInv'
  <1>0. /\ req[r] \in Request /\ Serves(req[r], req[r].pc) /\ req[r].to \in Born(parent) \union {Null}
    BY DEF SInv, Typed, RequestsTyped
  <1>1. "idle" \in Steps \ InDelete /\ \A pc \in DocumentSteps : pc \in Steps \ InDelete
    BY DEF Steps, InDelete, DocumentSteps
  <1>2. ASSUME req[r].pc \in DocumentSteps
        PROVE  req[r].what \in Documents /\ \A pc \in DocumentSteps : Serves(req[r], pc)
    BY <1>0, <1>2 DEF Serves, InMove, InDelete, DocumentSteps
  <1>3. req[r].pc \in DocumentSteps
    BY DEF DocumentStep, DocumentSteps, FolderAccess, GetProjectRootFolderId, ValidateProjectQuotas,
           InsertDocument, DocumentTargetAccess, UpdateDocument
  <1>4. CASE FolderAccess(r) \/ ValidateProjectQuotas(r)
    <2>1. PICK pc \in {"idle", "document root", "document insert"} : Goto(r, pc)
      BY <1>4 DEF FolderAccess, ValidateProjectQuotas
    <2>2. /\ pc = "idle" \/ pc \in DocumentSteps
          /\ UNCHANGED <<parent, location, misplaced>> /\ cached' \subseteq Folders
      BY <1>4 DEF FolderAccess, ValidateProjectQuotas, DocumentSteps, SInv, Typed
    <2> QED
      BY <1>1, <1>2, <1>3, <2>1, <2>2, GotoStays
  <1>5. CASE GetProjectRootFolderId(r)
    <2> DEFINE q == [req[r] EXCEPT !.pc = "document quota", !.root = ProjectRoot(req[r].to)]
    <2>1. req' = [req EXCEPT ![r] = q]
      BY <1>5 DEF GetProjectRootFolderId
    <2>2. q \in Request /\ q.pc = "document quota" /\ q.what = req[r].what /\ q.to = req[r].to
      <3>1. ProjectRoot(req[r].to) \in Folders \union {Null}
        BY <1>0, ProjectRootType DEF Request
      <3> QED
        BY <1>0, <3>1 DEF Request, Steps
    <2> HIDE DEF q
    <2>3. Serves(q, q.pc) /\ q.pc \notin InDelete
      BY <1>2, <1>3, <2>2 DEF Serves, InMove, InDelete, DocumentSteps
    <2>4. RequestsTyped(parent, req')
      BY <1>0, <2>1, <2>2, <2>3, StartTyped DEF SInv, Typed
    <2>5. /\ req'[r] = q /\ \A s \in Requests \ {r} : req'[s] = req[s]
          /\ UNCHANGED <<parent, location, misplaced>> /\ cached' \subseteq Folders
      BY <1>5, <2>1 DEF GetProjectRootFolderId, SInv, Typed, RequestsTyped
    <2> QED
      BY <2>3, <2>4, <2>5, RowsStay DEF Clears
  <1>6. CASE InsertDocument(r)
    BY <1>0, <1>2, <1>3, <1>6, DocumentPlaced DEF InsertDocument
  <1>7. CASE DocumentTargetAccess(r)
    <2>1. "document update" \in DocumentSteps
      BY DEF DocumentSteps
    <2> QED
      BY <1>1, <1>2, <1>3, <1>7, <2>1, AccessStays DEF DocumentTargetAccess
  <1>8. CASE UpdateDocument(r)
    <2>1. CASE IsDocument(req[r].what)
      BY <1>0, <1>2, <1>3, <1>8, <2>1, DocumentPlaced DEF UpdateDocument
    <2>2. CASE ~IsDocument(req[r].what)
      <3>1. Goto(r, "idle") /\ UNCHANGED <<parent, location, misplaced>> /\ cached' \subseteq Folders
        BY <1>8, <2>2 DEF UpdateDocument, SInv, Typed
      <3> QED
        BY <1>1, <3>1, GotoStays
    <2> QED
      BY <2>1, <2>2
  <1> QED
    BY <1>4, <1>5, <1>6, <1>7, <1>8 DEF DocumentStep

LEMMA InitSafe == TreeAssumption /\ Init => SInv
  <1> SUFFICES ASSUME TreeAssumption, Init PROVE SInv
    OBVIOUS
  <1>1. parent \in Parents /\ location \in Places /\ misplaced = {} /\ cached \subseteq Folders
    BY DEF Init, Parents, Places
  <1>2. NoUnbornParent(parent) /\ NoUnbornPlace(parent, location)
    BY <1>1, TreeAssumption DEF Init, NoUnbornParent, NoUnbornPlace, Born, IsFolder
  <1>3. RequestsTyped(parent, req)
    BY IdleTyped DEF Init, RequestsTyped, Idle
  <1>4. Stranded(parent, location, misplaced)
    BY DEF Init, Stranded, IsFolder
  <1>5. \A r \in Requests : Clears(parent, location, misplaced, req[r])
    BY DEF Init, Idle, Clears, InDelete
  <1> QED
    BY <1>1, <1>2, <1>3, <1>4, <1>5 DEF SInv, Typed, RowsOf

LEMMA NextSafe ==
  ASSUME TreeAssumption, SInv, [Next]_vars
  PROVE  SInv'
  <1>1. ASSUME NEW r \in Requests, Step(r) PROVE SInv'
    BY <1>1, CreationSafe, MoveSafe, DeletionSafe, DocumentSafe DEF Step
  <1>2. ASSUME NEW f \in Folders, Expire(f) PROVE SInv'
    BY <1>2 DEF Expire, SInv, Typed
  <1>3. ASSUME NEW d \in Documents, DeleteDocument(d) PROVE SInv'
    <2>1. /\ UNCHANGED <<parent, cached, req, misplaced>>
          /\ location' = [location EXCEPT ![d] = Deleted]
      BY <1>3 DEF DeleteDocument
    <2>2. /\ location \in Places /\ NoUnbornPlace(parent, location)
          /\ Stranded(parent, location, misplaced) /\ Deleted \notin Folders
      BY TreeAssumption DEF SInv, Typed, RowsOf
    <2>3. \A e \in Documents : location'[e] = IF e = d THEN Deleted ELSE location[e]
      BY <2>1, <2>2 DEF Places
    <2>4. location' \in Places /\ NoUnbornPlace(parent, location') /\ Stranded(parent, location', misplaced)
          /\ NothingPlaced(parent, location, misplaced, parent, location', misplaced)
      BY <2>1, <2>2, <2>3 DEF Places, NoUnbornPlace, Stranded, NothingPlaced
    <2>5. \A r \in Requests : Clears(parent, location', misplaced, req[r])
      BY <2>4, StaysCleared DEF SInv, Typed, RequestsTyped
    <2> QED
      BY <2>1, <2>4, <2>5 DEF SInv, Typed, RowsOf
  <1>4. CASE UNCHANGED vars
    BY <1>4 DEF vars, SInv, Typed
  <1> QED
    BY <1>1, <1>2, <1>3, <1>4, StartsSafe DEF Next

LEMMA SafeInductive == Spec => []SInv
  <1>1. Init => SInv
    BY InitSafe, TreeAssumption
  <1>2. SInv /\ [Next]_vars => SInv'
    BY NextSafe, TreeAssumption
  <1> QED
    BY <1>1, <1>2, PTL DEF Spec

\* The rows and the requests keep their types, however many requests run.
THEOREM TypeCorrect == Spec => []TypeOK
  <1>1. SInv => TypeOK
    BY DEF SInv, Typed, RowsOf, RequestsTyped, TypeOK, Parents, Places, Request, Frame, Serves
  <1> QED
    BY <1>1, SafeInductive, PTL

\* However many creations, moves and deletions run, a deletion strands only what was
\* put into a folder that was gone, or while a deletion ran (folder_service.go:339-361).
THEOREM DeletionsStrandLatecomers == Spec => []OnlyLatecomersStranded
  <1>1. SInv => OnlyLatecomersStranded
    BY DEF SInv, Typed, RowsOf, Stranded, OnlyLatecomersStranded, IsFolder, Parents, Places
  <1> QED
    BY <1>1, SafeInductive, PTL
=============================================================================
