----------------------------- MODULE SharingProofs -----------------------------
(***************************************************************************)
(* For every number of users, managers, folders, changes and requests and  *)
(* every pair of cache lives: the variables keep their types, and the      *)
(* shared cache, the gateway's cache and the levels with which the hub     *)
(* lets people in follow the rows in the time Sharing states.              *)
(*                                                                         *)
(* The invariant dates every level that is out of date by its age: where   *)
(* a level that disagrees with the rows may be, and up to which quiet.     *)
(***************************************************************************)
EXTENDS Sharing, TLAPS

\* What the walk over rs answers, the rows and the document's existence as parameters.
Truth(rs, ex, e, u) ==
  LET given == {i \in e .. Depth : rs[i][u] # "None"}
  IN IF (e = 0 /\ ~ex) \/ given = {} THEN "None"
     ELSE rs[CHOOSE i \in given : \A j \in given : i <= j][u]

Slack(r) == IF r.old THEN 1 ELSE 0
Life(e) == IF e = 0 THEN 2 ELSE 1

\* An entry was stored at most Life ticks after the last change, if it is wrong.
EntryLate(e, c, t, q) == Present(c) /\ c.level # t => q <= c.age + Life(e)
CacheLate(rs, ex, ca, q) ==
  \A e \in Entities, u \in Users : EntryLate(e, ca[e][u], Truth(rs, ex, e, u), q)

GateLate(rs, ex, ga, q) ==
  \A u \in Users :
    Present(ga[u]) /\ ga[u].level # Truth(rs, ex, Depth, u) => q <= ga[u].age + TTL + 1

\* A walk that no change has overtaken has passed no row.
WalkLate(rs, ex, u, r, q) ==
  /\ r.pc \in {"look", "raw"} => r.at = r.entity
  /\ r.pc = "scan" => r.entity <= r.at
  /\ r.pc = "scan" /\ q > Slack(r) =>
       /\ r.entity = 0 => ex
       /\ \A i \in Entities : r.entity <= i /\ i < r.at => rs[i][u] = "None"
  /\ r.pc = "fill" /\ r.level # Truth(rs, ex, r.entity, u) => q <= Slack(r)

\* A join that found no level finds only one stored since, by another's fill.
JoinLate(t, c, r, q) ==
  /\ r.entity = 0
  /\ r.pc = "look" /\ Present(c) /\ c.level \notin {"None", t} => q <= 1 + Slack(r)
  /\ r.pc = "reply" /\ r.level \notin {"None", t} => q <= 1 + Slack(r)
  /\ r.pc = "member" /\ r.level # t => q <= TTL + 2 + Slack(r)

GateCallLate(t, r, q) ==
  /\ r.pc # "idle" => r.entity = Depth
  /\ r.pc = "reply" /\ r.level # t => q <= TTL + 1 + Slack(r)

CallLate(rs, ex, ca, l, u, r, q) ==
  /\ WalkLate(rs, ex, u, r, q)
  /\ l = "join" => JoinLate(Truth(rs, ex, 0, u), ca[0][u], r, q)
  /\ l = "gate" => GateCallLate(Truth(rs, ex, Depth, u), r, q)
CallsLate(rs, ex, ca, rq, q) ==
  \A l \in Lanes, u \in Users : CallLate(rs, ex, ca, l, u, rq[l][u], q)

\* Whose level a change is about; what a joining user is to be given.
ManageOK(mg) ==
  \A m \in Managers : mg[m].pc \in {"drop", "set", "emit", "apply"} => mg[m].user \in Users
InsertOK(rq) ==
  \A l \in Lanes, u \in Users : rq[l][u].pc = "insert" => rq[l][u].level \in Levels

Late(rs, ex, ca, ga, rq, q) ==
  CacheLate(rs, ex, ca, q) /\ GateLate(rs, ex, ga, q) /\ CallsLate(rs, ex, ca, rq, q)

Typed == TypeOK /\ ManageOK(manage) /\ InsertOK(request)
IInv == Typed /\ Late(rows, exists, cache, gate, request, quiet)

-----------------------------------------------------------------------------
(***************************************************************************)
(* Entities, and what a walk finds                                         *)
(***************************************************************************)

LEMMA EntityFacts ==
  /\ 0 \in Entities /\ Depth \in Entities /\ Depth # 0
  /\ Folders \subseteq Entities /\ Entities \subseteq Nat
  /\ \A e \in Entities : e <= Depth /\ Life(e) \in 1 .. 2 /\ (e # 0 => Life(e) = 1)
  /\ Life(0) = 2 /\ Life(Depth) = 1
  /\ TTL \in Nat /\ TTL >= 1 /\ GatewayTTL \in Nat /\ GatewayTTL >= 1
  /\ Settled \in Nat /\ Settled = TTL + GatewayTTL + 3
BY DepthAssumption, TTLAssumption, GatewayAssumption
   DEF Entities, Folders, Life, Settled

LEMMA EffectiveIsTruth ==
  ASSUME NEW e \in Entities, NEW u \in Users
  PROVE  Effective(e, u) = Truth(rows, exists, e, u)
BY DEF Effective, RowAt, Truth

\* The first row found is the nearest.
LEMMA WalkFinds ==
  ASSUME NEW rs, NEW ex, NEW u, NEW e \in Entities, NEW a \in Entities, e <= a,
         e = 0 => ex, rs[a][u] # "None",
         \A i \in Entities : e <= i /\ i < a => rs[i][u] = "None"
  PROVE  Truth(rs, ex, e, u) = rs[a][u]
<1> DEFINE given == {i \in e .. Depth : rs[i][u] # "None"}
<1>1. \A i \in e .. Depth : i \in Entities
  BY DepthAssumption DEF Entities
<1>2. a \in given /\ \A j \in given : a <= j
  BY <1>1, DepthAssumption DEF Entities
<1>3. \A i \in given : (\A j \in given : i <= j) => i = a
  BY <1>2, DepthAssumption DEF Entities
<1>4. (CHOOSE i \in given : \A j \in given : i <= j) = a
  BY <1>2, <1>3
<1>5. given # {}
  BY <1>2
<1>6. QED
  BY <1>4, <1>5 DEF Truth

\* No row up to the project, or no document: no access.
LEMMA WalkEnds ==
  ASSUME NEW rs, NEW ex, NEW u, NEW e \in Entities,
         (e = 0 /\ ~ex) \/ \A i \in Entities : e <= i => rs[i][u] = "None"
  PROVE  Truth(rs, ex, e, u) = "None"
<1>1. \A i \in e .. Depth : i \in Entities /\ e <= i
  BY DepthAssumption DEF Entities
<1>2. QED
  BY <1>1 DEF Truth

-----------------------------------------------------------------------------
(***************************************************************************)
(* The invariant through one step of a request                             *)
(***************************************************************************)

LEMMA PutCall ==
  ASSUME NEW A, NEW B, NEW C, NEW f \in [A -> [B -> C]], NEW a \in A, NEW b \in B, NEW c \in C,
         NEW g, g = [f EXCEPT ![a][b] = c]
  PROVE  /\ g \in [A -> [B -> C]]
         /\ g[a][b] = c
         /\ \A x \in A, y \in B : x # a \/ y # b => g[x][y] = f[x][y]
OBVIOUS

LEMMA SlackType ==
  ASSUME NEW r \in Requests
  PROVE  Slack(r) \in 0 .. 1
BY DEF Requests, Slack

\* Only what the user's call is at changes.
LEMMA Advance ==
  ASSUME IInv, NEW l \in Lanes, NEW u \in Users, NEW r \in Requests,
         r.pc = "insert" => r.level \in Levels,
         CallLate(rows, exists, cache, l, u, r, quiet),
         Ask(l, u, r), held' \in [Users -> Cached], changes' \in 0 .. MaxChanges,
         UNCHANGED <<rows, default, exists, cache, gate, manage, quiet>>
  PROVE  IInv'
<1>1. /\ request' \in [Lanes -> [Users -> Requests]] /\ request'[l][u] = r
      /\ \A k \in Lanes, v \in Users : k # l \/ v # u => request'[k][v] = request[k][v]
  <2>1. request \in [Lanes -> [Users -> Requests]] /\ request' = [request EXCEPT ![l][u] = r]
    BY DEF IInv, Typed, TypeOK, Ask
  <2>2. QED
    BY <2>1, PutCall
<1>2. TypeOK'
  BY <1>1 DEF IInv, Typed, TypeOK
<1>3. ManageOK(manage)'
  BY DEF IInv, Typed, ManageOK
<1>4. InsertOK(request)'
  BY <1>1 DEF IInv, Typed, InsertOK
<1>5. CallsLate(rows, exists, cache, request', quiet)
  BY <1>1 DEF IInv, Late, CallsLate
<1>6. Late(rows, exists, cache, gate, request', quiet)
  BY <1>5 DEF IInv, Late
<1>7. QED
  BY <1>2, <1>3, <1>4, <1>6 DEF IInv, Typed

\* A level is stored as well: right, or soon enough after the last change, and
\* for a waiting join one tick sooner.
LEMMA AdvanceStore ==
  ASSUME IInv, NEW l \in Lanes, NEW u \in Users, NEW r \in Requests,
         r.pc \notin {"insert", "look"},
         NEW e \in Entities, NEW level \in Cached,
         level # Truth(rows, exists, e, u) => quiet <= Life(e),
         l # "join" /\ e = 0 /\ level \notin {"None", Truth(rows, exists, 0, u)} => quiet <= 1,
         CallLate(rows, exists, cache, l, u, r, quiet),
         Ask(l, u, r), Store(e, u, level),
         UNCHANGED <<rows, default, exists, gate, manage, held, changes, quiet>>
  PROVE  IInv'
<1>1. /\ request' \in [Lanes -> [Users -> Requests]] /\ request'[l][u] = r
      /\ \A k \in Lanes, v \in Users : k # l \/ v # u => request'[k][v] = request[k][v]
  <2>1. request \in [Lanes -> [Users -> Requests]] /\ request' = [request EXCEPT ![l][u] = r]
    BY DEF IInv, Typed, TypeOK, Ask
  <2>2. QED
    BY <2>1, PutCall
<1>2. Fresh(level) \in Entry /\ Fresh(level).level = level /\ Fresh(level).age = 0
  BY EntityFacts DEF Fresh, Entry
<1>3. /\ cache' \in [Entities -> [Users -> Entry]] /\ cache'[e][u] = Fresh(level)
      /\ \A f \in Entities, v \in Users : f # e \/ v # u => cache'[f][v] = cache[f][v]
  <2>1. cache \in [Entities -> [Users -> Entry]] /\ cache' = [cache EXCEPT ![e][u] = Fresh(level)]
    BY DEF IInv, Typed, TypeOK, Store
  <2>2. QED
    BY <1>2, <2>1, PutCall
<1>4. TypeOK'
  BY <1>1, <1>3 DEF IInv, Typed, TypeOK
<1>5. ManageOK(manage)' /\ InsertOK(request)'
  BY <1>1 DEF IInv, Typed, ManageOK, InsertOK
<1>6. CacheLate(rows, exists, cache', quiet)
  <2>1. EntryLate(e, Fresh(level), Truth(rows, exists, e, u), quiet)
    BY <1>2, EntityFacts DEF EntryLate
  <2>2. QED
    BY <1>3, <2>1 DEF IInv, Late, CacheLate
<1>7. CallsLate(rows, exists, cache', request', quiet)
  <2>1. ASSUME NEW k \in Lanes, NEW v \in Users
        PROVE  CallLate(rows, exists, cache', k, v, request'[k][v], quiet)
    <3> DEFINE q == request'[k][v]
    <3> DEFINE t == Truth(rows, exists, 0, v)
    <3>1. CallLate(rows, exists, cache, k, v, q, quiet)
      BY <1>1 DEF IInv, Late, CallsLate
    <3>2. q \in Requests /\ Slack(q) \in 0 .. 1 /\ quiet \in Nat
      BY <1>1, SlackType, EntityFacts DEF IInv, Typed, TypeOK
    <3>3. k = "join" => JoinLate(t, cache'[0][v], q, quiet)
      <4>1. CASE e = 0 /\ v = u /\ k = "join"
        <5>1. JoinLate(t, cache[0][v], q, quiet)
          BY <3>1, <4>1 DEF CallLate
        <5>2. q.pc = "look" => l # "join"
          BY <1>1, <4>1
        <5>3. cache'[0][v].level = level
          BY <1>2, <1>3, <4>1
        <5>4. q.pc = "look" /\ level \notin {"None", t} => quiet <= 1 + Slack(q)
          <6>1. q.pc = "look" /\ level \notin {"None", t} => quiet <= 1
            BY <4>1, <5>2
          <6> HIDE DEF q, t
          <6>2. QED
            BY <3>2, <6>1
        <5> HIDE DEF q, t
        <5>5. QED
          BY <5>1, <5>3, <5>4 DEF JoinLate
      <4>2. CASE e # 0 \/ v # u
        BY <1>3, <3>1, <4>2, EntityFacts DEF CallLate
      <4>3. QED
        BY <4>1, <4>2
    <3> HIDE DEF q, t
    <3>4. WalkLate(rows, exists, v, q, quiet)
          /\ (k = "gate" => GateCallLate(Truth(rows, exists, Depth, v), q, quiet))
      BY <3>1 DEF CallLate
    <3>5. CallLate(rows, exists, cache', k, v, q, quiet)
      BY <3>3, <3>4 DEF CallLate, t
    <3>6. QED
      BY <3>5 DEF q
  <2>2. QED
    BY <2>1 DEF CallsLate
<1>8. Late(rows, exists, cache', gate, request', quiet)
  BY <1>6, <1>7 DEF IInv, Late
<1>9. QED
  BY <1>4, <1>5, <1>8 DEF IInv, Typed

\* A level is entered into the gateway's cache.
LEMMA AdvanceGate ==
  ASSUME IInv, NEW u \in Users, NEW r \in Requests, r.pc = "idle",
         NEW c \in GateEntry,
         Present(c) /\ c.level # Truth(rows, exists, Depth, u) => quiet <= c.age + TTL + 1,
         Ask("gate", u, r), gate' = [gate EXCEPT ![u] = c],
         UNCHANGED <<rows, default, exists, cache, manage, held, changes, quiet>>
  PROVE  IInv'
<1>1. /\ request' \in [Lanes -> [Users -> Requests]] /\ request'["gate"][u] = r
      /\ \A k \in Lanes, v \in Users : k # "gate" \/ v # u => request'[k][v] = request[k][v]
  <2>1. request \in [Lanes -> [Users -> Requests]] /\ request' = [request EXCEPT !["gate"][u] = r]
        /\ "gate" \in Lanes
    BY DEF IInv, Typed, TypeOK, Ask, Lanes
  <2>2. QED
    BY <2>1, PutCall
<1>2. TypeOK'
  BY <1>1 DEF IInv, Typed, TypeOK
<1>3. ManageOK(manage)' /\ InsertOK(request)'
  BY <1>1 DEF IInv, Typed, ManageOK, InsertOK
<1>4. GateLate(rows, exists, gate', quiet)
  <2>1. gate \in [Users -> GateEntry]
    BY DEF IInv, Typed, TypeOK
  <2>2. QED
    BY <2>1 DEF IInv, Late, GateLate
<1>5. CallLate(rows, exists, cache, "gate", u, r, quiet)
  BY DEF CallLate, WalkLate, GateCallLate
<1>6. CallsLate(rows, exists, cache, request', quiet)
  BY <1>1, <1>5 DEF IInv, Late, CallsLate
<1>7. QED
  BY <1>2, <1>3, <1>4, <1>6 DEF IInv, Typed, Late

-----------------------------------------------------------------------------
(***************************************************************************)
(* The steps of lookups, joins and the gateway                             *)
(***************************************************************************)

LEMMA CallFacts ==
  ASSUME IInv, NEW l \in Lanes, NEW u \in Users
  PROVE  /\ request[l][u] \in Requests
         /\ CallLate(rows, exists, cache, l, u, request[l][u], quiet)
         /\ Slack(request[l][u]) \in 0 .. 1
         /\ request[l][u].pc = "insert" => request[l][u].level \in Levels
         /\ quiet \in Nat /\ held \in [Users -> Cached] /\ changes \in 0 .. MaxChanges
BY SlackType, EntityFacts, BoundsAssumption
   DEF IInv, Typed, TypeOK, Late, CallsLate, InsertOK

LEMMA EntryFacts ==
  ASSUME IInv, NEW e \in Entities, NEW u \in Users, Present(cache[e][u])
  PROVE  /\ cache[e][u].level \in Cached /\ cache[e][u].age \in 0 .. TTL
         /\ cache[e][u].level # Truth(rows, exists, e, u) => quiet <= TTL + Life(e)
<1>1. cache[e][u] \in [level : Cached, age : 0 .. TTL]
  BY DEF IInv, Typed, TypeOK, Entry, Absent, Present
<1>2. cache[e][u].level \in Cached /\ cache[e][u].age \in 0 .. TTL
  BY <1>1
<1>3. EntryLate(e, cache[e][u], Truth(rows, exists, e, u), quiet)
  BY DEF IInv, Late, CacheLate
<1>4. quiet \in Nat /\ TTL \in Nat /\ Life(e) \in 1 .. 2
  BY EntityFacts DEF IInv, Typed, TypeOK
<1>5. cache[e][u].level # Truth(rows, exists, e, u) => quiet <= cache[e][u].age + Life(e)
  BY <1>3 DEF EntryLate
<1>6. QED
  BY <1>2, <1>4, <1>5

LEMMA BeginsKeepInv ==
  ASSUME IInv, NEW u \in Users,
         \/ DocumentAccess(u) \/ VerifyWorkspaceAccess(u)
         \/ \E f \in Folders : FolderAccess(u, f)
  PROVE  IInv'
<1> DEFINE Call(e) == [Idle EXCEPT !.pc = "look", !.entity = e, !.at = e]
<1>1. ASSUME NEW e \in Entities
      PROVE  /\ Call(e) \in Requests /\ Call(e).pc = "look" /\ Call(e).entity = e
             /\ WalkLate(rows, exists, u, Call(e), quiet)
  BY <1>1 DEF Idle, Requests, Cached, Answers, WalkLate
<1>2. held \in [Users -> Cached] /\ changes \in 0 .. MaxChanges
  BY DEF IInv, Typed, TypeOK
<1>3. CASE DocumentAccess(u)
  <2> DEFINE r == [Idle EXCEPT !.pc = "look"]
  <2>1. /\ r \in Requests /\ r.pc = "look"
        /\ WalkLate(rows, exists, u, r, quiet)
    BY EntityFacts DEF Idle, Requests, Cached, Answers, WalkLate
  <2>2. CallLate(rows, exists, cache, "rest", u, r, quiet)
    BY <2>1 DEF CallLate
  <2>3. Ask("rest", u, r) /\ "rest" \in Lanes
    BY <1>3 DEF DocumentAccess, Lanes
  <2>4. UNCHANGED <<rows, default, exists, cache, gate, manage, held, changes, quiet>>
    BY <1>3 DEF DocumentAccess
  <2> HIDE DEF r
  <2>5. QED
    BY <1>2, <2>1, <2>2, <2>3, <2>4, Advance
<1>4. CASE VerifyWorkspaceAccess(u)
  <2>1. CallLate(rows, exists, cache, "gate", u, Call(Depth), quiet)
    BY <1>1, EntityFacts DEF CallLate, GateCallLate
  <2>2. Ask("gate", u, Call(Depth)) /\ "gate" \in Lanes
    BY <1>4 DEF VerifyWorkspaceAccess, Lanes
  <2>3. UNCHANGED <<rows, default, exists, cache, gate, manage, held, changes, quiet>>
    BY <1>4 DEF VerifyWorkspaceAccess
  <2> HIDE DEF Call
  <2>4. QED
    BY <1>1, <1>2, <2>1, <2>2, <2>3, Advance, EntityFacts
<1>5. ASSUME NEW f \in Folders, FolderAccess(u, f)
      PROVE  IInv'
  <2>1. CallLate(rows, exists, cache, "rest", u, Call(f), quiet) /\ f \in Entities
    BY <1>1, EntityFacts DEF CallLate
  <2>2. Ask("rest", u, Call(f)) /\ "rest" \in Lanes
    BY <1>5 DEF FolderAccess, Lanes
  <2>3. UNCHANGED <<rows, default, exists, cache, gate, manage, held, changes, quiet>>
    BY <1>5 DEF FolderAccess
  <2> HIDE DEF Call
  <2>4. QED
    BY <1>1, <1>2, <2>1, <2>2, <2>3, Advance
<1>6. QED
  BY <1>3, <1>4, <1>5

\* A hit makes a member with a level that is at most a life old; a miss waits
\* for a level that nobody has stored yet.
LEMMA JoinKeepsInv ==
  ASSUME IInv, NEW u \in Users, JoinDocument(u)
  PROVE  IInv'
<1> DEFINE c == cache[0][u]
<1> DEFINE hit == c.level \notin {"Absent", "None"}
<1> DEFINE r == [Idle EXCEPT !.pc = IF hit THEN "member" ELSE "look",
                             !.level = IF hit THEN c.level ELSE "None"]
<1> DEFINE t == Truth(rows, exists, 0, u)
<1>1. /\ Ask("join", u, r) /\ "join" \in Lanes /\ "None" \in Cached
      /\ UNCHANGED <<rows, default, exists, cache, gate, manage, held, changes, quiet>>
      /\ held \in [Users -> Cached] /\ changes \in 0 .. MaxChanges /\ quiet \in Nat
  BY EntityFacts DEF JoinDocument, Lanes, Cached, Answers, IInv, Typed, TypeOK
<1>2. hit => c.level \in Cached /\ (c.level # t => quiet <= TTL + 2)
  BY EntryFacts, EntityFacts DEF Present
<1>3. /\ r.pc = IF hit THEN "member" ELSE "look"
      /\ r.level = IF hit THEN c.level ELSE "None"
      /\ r.entity = 0 /\ r.at = 0 /\ r.old = FALSE
      /\ DOMAIN r = {"pc", "entity", "at", "level", "old"}
  BY DEF Idle
<1>4. r \in Requests
  BY <1>1, <1>2, EntityFacts DEF Idle, Requests
<1>5. c.level = "Absent" \/ c.level = "None" \/ hit
  OBVIOUS
<1>6. r.pc = "look" => ~(Present(c) /\ c.level \notin {"None", t})
  BY <1>3 DEF Present
<1> HIDE DEF r, hit
<1>7. WalkLate(rows, exists, u, r, quiet)
  BY <1>3 DEF WalkLate
<1>8. Slack(r) = 0 /\ TTL \in Nat
  BY <1>3, EntityFacts DEF Slack
<1>9. r.pc = "member" /\ r.level # t => quiet <= TTL + 2
  BY <1>2, <1>3
<1>10. JoinLate(t, c, r, quiet)
  BY <1>1, <1>3, <1>6, <1>8, <1>9 DEF JoinLate
<1>11. CallLate(rows, exists, cache, "join", u, r, quiet)
  BY <1>7, <1>10 DEF CallLate
<1>12. r.pc # "insert"
  BY <1>3
<1>13. QED
  BY <1>1, <1>4, <1>11, <1>12, Advance

\* What the cache answers is as late as its entry.
LEMMA LookKeepsInv ==
  ASSUME IInv, NEW l \in Lanes, NEW u \in Users, Look(l, u)
  PROVE  IInv'
<1> DEFINE q == request[l][u]
<1> DEFINE e == q.entity
<1> DEFINE c == cache[e][u]
<1> DEFINE r == IF Present(c) THEN [q EXCEPT !.pc = "reply", !.level = c.level]
                ELSE [q EXCEPT !.pc = "raw"]
<1>1. /\ q \in Requests /\ CallLate(rows, exists, cache, l, u, q, quiet) /\ e \in Entities
      /\ Slack(q) \in 0 .. 1 /\ quiet \in Nat /\ TTL \in Nat
      /\ held \in [Users -> Cached] /\ changes \in 0 .. MaxChanges
  BY CallFacts, EntityFacts DEF Requests
<1>2. /\ Ask(l, u, r) /\ q.pc = "look"
      /\ UNCHANGED <<rows, default, exists, cache, gate, manage, held, changes, quiet>>
  BY DEF Look
<1>3. Present(c) => c.level \in Cached /\ (c.level # Truth(rows, exists, e, u) => quiet <= TTL + Life(e))
  BY <1>1, EntryFacts
<1>4. r \in Requests
  BY <1>1, <1>3 DEF Requests
<1>5. /\ r.pc = IF Present(c) THEN "reply" ELSE "raw"
      /\ Present(c) => r.level = c.level
      /\ r.entity = e /\ r.at = q.at /\ r.old = q.old
  BY <1>1 DEF Requests
<1> HIDE DEF r
<1>6. WalkLate(rows, exists, u, r, quiet)
  BY <1>1, <1>2, <1>5 DEF CallLate, WalkLate
<1>7. Slack(r) = Slack(q)
  BY <1>5 DEF Slack
<1>8. ASSUME l = "join"
      PROVE  JoinLate(Truth(rows, exists, 0, u), cache[0][u], r, quiet)
  <2>1. JoinLate(Truth(rows, exists, 0, u), cache[0][u], q, quiet) /\ e = 0
    BY <1>1, <1>8 DEF CallLate, JoinLate
  <2>2. QED
    BY <1>2, <1>5, <1>7, <2>1 DEF JoinLate
<1>9. ASSUME l = "gate"
      PROVE  GateCallLate(Truth(rows, exists, Depth, u), r, quiet)
  <2>1. e = Depth
    BY <1>1, <1>2, <1>9 DEF CallLate, GateCallLate
  <2>2. Present(c) /\ c.level # Truth(rows, exists, Depth, u) => quiet <= TTL + 1
    BY <1>3, <2>1, EntityFacts
  <2>3. Present(c) /\ c.level # Truth(rows, exists, Depth, u) => quiet <= TTL + 1 + Slack(r)
    BY <1>1, <1>7, <2>2
  <2> HIDE DEF c
  <2>4. QED
    BY <1>5, <2>1, <2>3 DEF GateCallLate
<1>10. CallLate(rows, exists, cache, l, u, r, quiet)
  BY <1>6, <1>8, <1>9 DEF CallLate
<1>11. QED
  BY <1>1, <1>2, <1>4, <1>5, <1>10, Advance

LEMMA ReadRawKeepsInv ==
  ASSUME IInv, NEW l \in Lanes, NEW u \in Users, ReadRaw(l, u)
  PROVE  IInv'
<1> DEFINE q == request[l][u]
<1> DEFINE gone == q.entity = 0 /\ ~exists
<1> DEFINE r == IF gone THEN [q EXCEPT !.pc = "fill", !.level = "None"]
                ELSE [q EXCEPT !.pc = "scan"]
<1>1. /\ q \in Requests /\ CallLate(rows, exists, cache, l, u, q, quiet)
      /\ q.entity \in Entities /\ q.entity \in Nat /\ "None" \in Cached
      /\ held \in [Users -> Cached] /\ changes \in 0 .. MaxChanges
  BY CallFacts, EntityFacts DEF Requests, Cached, Answers
<1>2. /\ Ask(l, u, r) /\ q.pc = "raw"
      /\ UNCHANGED <<rows, default, exists, cache, gate, manage, held, changes, quiet>>
  BY DEF ReadRaw
<1>3. r \in Requests
  BY <1>1 DEF Requests
<1>4. /\ r.pc = IF gone THEN "fill" ELSE "scan"
      /\ gone => r.level = "None"
      /\ r.entity = q.entity /\ r.at = q.at /\ r.old = q.old
  BY <1>1 DEF Requests
<1> HIDE DEF r
<1>5. q.at = q.entity
  BY <1>1, <1>2 DEF CallLate, WalkLate
<1>6. gone => Truth(rows, exists, q.entity, u) = "None"
  BY <1>1, WalkEnds
<1>7. WalkLate(rows, exists, u, r, quiet)
  <2>1. ~ \E i \in Entities : r.entity <= i /\ i < r.at
    BY <1>1, <1>4, <1>5, EntityFacts
  <2>2. QED
    BY <1>1, <1>4, <1>5, <1>6, <2>1 DEF WalkLate
<1>8. CallLate(rows, exists, cache, l, u, r, quiet)
  BY <1>1, <1>2, <1>4, <1>7 DEF CallLate, JoinLate, GateCallLate
<1>9. QED
  BY <1>1, <1>2, <1>3, <1>4, <1>8, Advance

\* Without a change since the walk began, what it finds is the nearest row.
LEMMA ReadShareKeepsInv ==
  ASSUME IInv, NEW l \in Lanes, NEW u \in Users, ReadShare(l, u)
  PROVE  IInv'
<1> DEFINE q == request[l][u]
<1> DEFINE found == rows[q.at][u]
<1> DEFINE r == IF found # "None" THEN [q EXCEPT !.pc = "fill", !.level = found]
                ELSE IF q.at < Depth THEN [q EXCEPT !.at = q.at + 1]
                ELSE [q EXCEPT !.pc = "fill", !.level = "None"]
<1>1. /\ q \in Requests /\ CallLate(rows, exists, cache, l, u, q, quiet)
      /\ q.entity \in Entities /\ q.at \in Entities /\ "None" \in Cached
      /\ held \in [Users -> Cached] /\ changes \in 0 .. MaxChanges
      /\ Slack(q) \in 0 .. 1 /\ quiet \in Nat
  BY CallFacts, EntityFacts DEF Requests, Cached, Answers
<1>2. /\ Ask(l, u, r) /\ q.pc = "scan"
      /\ UNCHANGED <<rows, default, exists, cache, gate, manage, held, changes, quiet>>
  BY DEF ReadShare
<1>3. found \in Cached
  BY <1>1 DEF IInv, Typed, TypeOK, Cached
<1>4. q.at < Depth => q.at + 1 \in Entities
  BY <1>1, DepthAssumption DEF Entities
<1>5. r \in Requests
  BY <1>1, <1>3, <1>4 DEF Requests
<1>6. /\ r.pc = IF found = "None" /\ q.at < Depth THEN "scan" ELSE "fill"
      /\ r.pc = "scan" => r.at = q.at + 1
      /\ r.pc = "fill" => r.level = found
      /\ r.entity = q.entity /\ r.old = q.old
  BY <1>1, <1>2 DEF Requests
<1> HIDE DEF r
<1>7. /\ q.entity <= q.at
      /\ quiet > Slack(q) =>
           /\ q.entity = 0 => exists
           /\ \A i \in Entities : q.entity <= i /\ i < q.at => rows[i][u] = "None"
  BY <1>1, <1>2 DEF CallLate, WalkLate
<1>8. Slack(r) = Slack(q)
  BY <1>6 DEF Slack
<1>9. ASSUME quiet > Slack(q), r.pc = "fill"
      PROVE  found = Truth(rows, exists, q.entity, u)
  <2>1. CASE found # "None"
    BY <1>1, <1>7, <1>9, <2>1, WalkFinds
  <2>2. CASE found = "None"
    <3>1. ~(q.at < Depth)
      BY <1>6, <1>9, <2>2
    <3>2. \A i \in Entities : i < q.at \/ i = q.at
      BY <1>1, <3>1, EntityFacts
    <3>3. \A i \in Entities : q.entity <= i => rows[i][u] = "None"
      BY <1>7, <1>9, <2>2, <3>2
    <3>4. QED
      BY <1>1, <2>2, <3>3, WalkEnds
  <2>3. QED
    BY <2>1, <2>2
<1>10. WalkLate(rows, exists, u, r, quiet)
  <2>1. r.pc = "scan" => r.entity <= r.at
    BY <1>1, <1>6, <1>7, EntityFacts
  <2>2. r.pc = "scan" => found = "None"
    BY <1>6
  <2>3. ASSUME r.pc = "scan", quiet > Slack(r), NEW i \in Entities, r.entity <= i, i < r.at
        PROVE  rows[i][u] = "None"
    <3>1. i \in Nat /\ q.at \in Nat /\ i < q.at + 1
      BY <1>1, <1>6, <2>3, EntityFacts
    <3> HIDE DEF q
    <3>2. i < q.at \/ i = q.at
      BY <3>1
    <3>3. QED
      BY <1>6, <1>7, <1>8, <2>2, <2>3, <3>2
  <2>4. r.pc = "fill" /\ r.level # Truth(rows, exists, r.entity, u) => quiet <= Slack(r)
    BY <1>1, <1>6, <1>8, <1>9
  <2>5. r.pc = "scan" /\ quiet > Slack(r) /\ r.entity = 0 => exists
    BY <1>6, <1>7, <1>8
  <2>6. r.pc \notin {"look", "raw"}
    BY <1>6
  <2>7. QED
    BY <2>1, <2>3, <2>4, <2>5, <2>6 DEF WalkLate
<1>11. CallLate(rows, exists, cache, l, u, r, quiet)
  BY <1>1, <1>2, <1>6, <1>10 DEF CallLate, JoinLate, GateCallLate
<1>12. r.pc # "insert"
  BY <1>6
<1>13. QED
  BY <1>1, <1>2, <1>5, <1>11, <1>12, Advance

LEMMA FillKeepsInv ==
  ASSUME IInv, NEW l \in Lanes, NEW u \in Users, Fill(l, u)
  PROVE  IInv'
<1> DEFINE q == request[l][u]
<1> DEFINE r == [q EXCEPT !.pc = "reply"]
<1>1. /\ q \in Requests /\ CallLate(rows, exists, cache, l, u, q, quiet)
      /\ q.entity \in Entities /\ q.level \in Cached
      /\ Slack(q) \in 0 .. 1 /\ quiet \in Nat /\ TTL \in Nat /\ Life(q.entity) \in 1 .. 2
  BY CallFacts, EntityFacts DEF Requests
<1>2. /\ Ask(l, u, r) /\ q.pc = "fill" /\ Store(q.entity, u, q.level)
      /\ UNCHANGED <<rows, default, exists, gate, manage, held, changes, quiet>>
  BY DEF Fill
<1>3. /\ r \in Requests
      /\ r.pc = "reply" /\ r.level = q.level /\ r.entity = q.entity /\ r.old = q.old
  BY <1>1 DEF Requests
<1> HIDE DEF r
<1>4. q.level # Truth(rows, exists, q.entity, u) => quiet <= Slack(q)
  BY <1>1, <1>2 DEF CallLate, WalkLate
<1>5. Slack(r) = Slack(q)
  BY <1>3 DEF Slack
<1>6. WalkLate(rows, exists, u, r, quiet)
  BY <1>3 DEF WalkLate
<1>7. ASSUME l = "join"
      PROVE  JoinLate(Truth(rows, exists, 0, u), cache[0][u], r, quiet)
  <2>1. q.entity = 0
    BY <1>1, <1>7 DEF CallLate, JoinLate
  <2>2. q.level # Truth(rows, exists, 0, u) => quiet <= 1 + Slack(r)
    BY <1>1, <1>4, <1>5, <2>1
  <2>3. QED
    BY <1>3, <2>1, <2>2 DEF JoinLate
<1>8. ASSUME l = "gate"
      PROVE  GateCallLate(Truth(rows, exists, Depth, u), r, quiet)
  <2>1. q.entity = Depth
    BY <1>1, <1>2, <1>8 DEF CallLate, GateCallLate
  <2>2. q.level # Truth(rows, exists, Depth, u) => quiet <= TTL + 1 + Slack(r)
    BY <1>1, <1>4, <1>5, <2>1
  <2>3. QED
    BY <1>3, <2>1, <2>2 DEF GateCallLate
<1>9. CallLate(rows, exists, cache, l, u, r, quiet)
  BY <1>6, <1>7, <1>8 DEF CallLate
<1>10. q.level # Truth(rows, exists, q.entity, u) => quiet <= 1 /\ quiet <= Life(q.entity)
  BY <1>1, <1>4
<1>11. r.pc \notin {"insert", "look"}
  BY <1>3
<1>12. QED
  BY <1>1, <1>2, <1>3, <1>9, <1>10, <1>11, AdvanceStore

LEMMA ReplyRestKeepsInv ==
  ASSUME IInv, NEW u \in Users, ReplyRest(u)
  PROVE  IInv'
<1>1. /\ Ask("rest", u, Idle) /\ "rest" \in Lanes
      /\ UNCHANGED <<rows, default, exists, cache, gate, manage, held, changes, quiet>>
      /\ held \in [Users -> Cached] /\ changes \in 0 .. MaxChanges
  BY DEF ReplyRest, Lanes, IInv, Typed, TypeOK
<1>2. Idle \in Requests /\ Idle.pc = "idle"
  BY EntityFacts DEF Idle, Requests, Cached, Answers
<1>3. CallLate(rows, exists, cache, "rest", u, Idle, quiet)
  BY <1>2 DEF CallLate, WalkLate
<1>4. QED
  BY <1>1, <1>2, <1>3, Advance

LEMMA ReplyJoinKeepsInv ==
  ASSUME IInv, NEW u \in Users, ReplyJoin(u)
  PROVE  IInv'
<1> DEFINE q == request["join"][u]
<1> DEFINE r == [q EXCEPT !.pc = "member"]
<1>1. /\ "join" \in Lanes /\ q \in Requests /\ q.level \in Cached
      /\ CallLate(rows, exists, cache, "join", u, q, quiet)
      /\ Slack(q) \in 0 .. 1 /\ quiet \in Nat /\ TTL \in Nat /\ TTL >= 1
      /\ held \in [Users -> Cached] /\ changes \in 0 .. MaxChanges
  BY CallFacts, EntityFacts DEF Requests, Lanes
<1>2. /\ q.pc = "reply"
      /\ UNCHANGED <<rows, default, exists, gate, manage, held, changes, quiet>>
      /\ q.level = "None" => Ask("join", u, Idle) /\ UNCHANGED cache
      /\ q.level # "None" => Ask("join", u, r) /\ Store(0, u, q.level)
  BY DEF ReplyJoin
<1>3. CASE q.level = "None"
  <2>1. Idle \in Requests /\ Idle.pc = "idle" /\ Idle.entity = 0
    BY EntityFacts DEF Idle, Requests, Cached, Answers
  <2>2. CallLate(rows, exists, cache, "join", u, Idle, quiet)
    BY <2>1 DEF CallLate, WalkLate, JoinLate
  <2>3. QED
    BY <1>1, <1>2, <1>3, <2>1, <2>2, Advance
<1>4. CASE q.level # "None"
  <2>1. /\ r \in Requests
        /\ r.pc = "member" /\ r.level = q.level /\ r.entity = q.entity /\ r.old = q.old
    BY <1>1 DEF Requests
  <2> HIDE DEF r
  <2>2. /\ q.entity = 0
        /\ q.level # Truth(rows, exists, 0, u) => quiet <= 1 + Slack(q)
    BY <1>1, <1>2, <1>4 DEF CallLate, JoinLate
  <2>3. Slack(r) = Slack(q)
    BY <2>1 DEF Slack
  <2>4. q.level # Truth(rows, exists, 0, u) => quiet <= 2 /\ quiet <= TTL + 2 + Slack(r)
    BY <1>1, <2>2, <2>3
  <2>5. WalkLate(rows, exists, u, r, quiet)
    BY <2>1 DEF WalkLate
  <2>6. JoinLate(Truth(rows, exists, 0, u), cache[0][u], r, quiet)
    BY <2>1, <2>2, <2>4 DEF JoinLate
  <2>7. CallLate(rows, exists, cache, "join", u, r, quiet)
    BY <2>5, <2>6 DEF CallLate
  <2>8. Ask("join", u, r) /\ Store(0, u, q.level) /\ r.pc \notin {"insert", "look"}
    BY <1>2, <1>4, <2>1
  <2> HIDE DEF q
  <2>9. QED
    BY <1>1, <1>2, <2>1, <2>4, <2>7, <2>8, AdvanceStore, EntityFacts
<1>5. QED
  BY <1>3, <1>4

LEMMA ReplyGateKeepsInv ==
  ASSUME IInv, NEW u \in Users, ReplyGate(u)
  PROVE  IInv'
<1> DEFINE q == request["gate"][u]
<1> DEFINE c == [level |-> q.level, age |-> IF q.old THEN 1 ELSE 0]
<1>1. /\ "gate" \in Lanes /\ q \in Requests /\ q.level \in Cached /\ q.old \in BOOLEAN
      /\ CallLate(rows, exists, cache, "gate", u, q, quiet)
      /\ quiet \in Nat /\ TTL \in Nat /\ GatewayTTL \in Nat /\ GatewayTTL >= 1
      /\ held \in [Users -> Cached] /\ changes \in 0 .. MaxChanges
  BY CallFacts, EntityFacts DEF Requests, Lanes
<1>2. /\ q.pc = "reply" /\ Ask("gate", u, Idle)
      /\ gate' = IF q.level = "None" THEN gate ELSE [gate EXCEPT ![u] = c]
      /\ UNCHANGED <<rows, default, exists, cache, manage, held, changes, quiet>>
  BY DEF ReplyGate
<1>3. Idle \in Requests /\ Idle.pc = "idle"
  BY EntityFacts DEF Idle, Requests, Cached, Answers
<1>4. CASE q.level = "None"
  <2>1. CallLate(rows, exists, cache, "gate", u, Idle, quiet)
    BY <1>3 DEF CallLate, WalkLate, GateCallLate
  <2>2. QED
    BY <1>1, <1>2, <1>3, <1>4, <2>1, Advance
<1>5. CASE q.level # "None"
  <2>1. c \in GateEntry /\ c.level = q.level /\ c.age = Slack(q)
    BY <1>1 DEF GateEntry, Slack
  <2>2. q.level # Truth(rows, exists, Depth, u) => quiet <= TTL + 1 + Slack(q)
    BY <1>1, <1>2 DEF CallLate, GateCallLate
  <2>3. Slack(q) \in 0 .. 1
    BY <1>1, SlackType
  <2>4. gate' = [gate EXCEPT ![u] = c]
    BY <1>2, <1>5
  <2> HIDE DEF c
  <2>5. Present(c) /\ c.level # Truth(rows, exists, Depth, u) => quiet <= c.age + TTL + 1
    BY <1>1, <2>1, <2>2, <2>3
  <2>6. QED
    BY <1>1, <1>2, <1>3, <2>1, <2>4, <2>5, AdvanceGate
<1>6. QED
  BY <1>4, <1>5

LEMMA MemberKeepsInv ==
  ASSUME IInv, NEW u \in Users, AddUserToDocument(u)
  PROVE  IInv'
<1>1. /\ Ask("join", u, Idle) /\ "join" \in Lanes
      /\ held' = [held EXCEPT ![u] = request["join"][u].level]
      /\ UNCHANGED <<rows, default, exists, cache, gate, manage, changes, quiet>>
  BY DEF AddUserToDocument, Lanes
<1>2. held' \in [Users -> Cached] /\ changes' \in 0 .. MaxChanges
  BY <1>1, CallFacts DEF Requests
<1>3. Idle \in Requests /\ Idle.pc = "idle" /\ Idle.entity = 0
  BY EntityFacts DEF Idle, Requests, Cached, Answers
<1>4. CallLate(rows, exists, cache, "join", u, Idle, quiet)
  BY <1>3 DEF CallLate, WalkLate, JoinLate
<1>5. QED
  BY <1>1, <1>2, <1>3, <1>4, Advance

LEMMA FindKeepsInv ==
  ASSUME IInv, NEW u \in Users, NEW e \in Entities, FindByShareCode(u, e)
  PROVE  IInv'
<1> DEFINE r == [Idle EXCEPT !.pc = "insert", !.entity = e, !.at = e, !.level = default[e]]
<1>1. /\ Ask("rest", u, r) /\ "rest" \in Lanes
      /\ changes < MaxChanges /\ changes' = changes + 1
      /\ UNCHANGED <<rows, default, exists, cache, gate, manage, held, quiet>>
  BY DEF FindByShareCode, Lanes
<1>2. held' \in [Users -> Cached] /\ changes' \in 0 .. MaxChanges
  BY <1>1, BoundsAssumption DEF IInv, Typed, TypeOK
<1>3. default[e] \in Levels /\ Levels \subseteq Cached
  BY DEF IInv, Typed, TypeOK, Levels, Cached, Answers
<1>4. r \in Requests /\ r.pc = "insert" /\ r.level = default[e]
  BY <1>3, EntityFacts DEF Idle, Requests
<1> HIDE DEF r
<1>5. CallLate(rows, exists, cache, "rest", u, r, quiet)
  BY <1>4 DEF CallLate, WalkLate
<1>6. QED
  BY <1>1, <1>2, <1>3, <1>4, <1>5, Advance

-----------------------------------------------------------------------------
(***************************************************************************)
(* Changes, which set quiet to 0, so that nothing is late yet              *)
(***************************************************************************)

\* What of a call does not speak of quiet survives every change of the rows.
LEMMA CallAtZero ==
  ASSUME IInv, NEW l \in Lanes, NEW u \in Users, NEW rs, NEW ex, NEW ca
  PROVE  CallLate(rs, ex, ca, l, u, request[l][u], 0)
<1> DEFINE q == request[l][u]
<1>1. CallLate(rows, exists, cache, l, u, q, quiet) /\ Slack(q) \in 0 .. 1
      /\ TTL \in Nat
  BY CallFacts, EntityFacts
<1> HIDE DEF q
<1>2. 0 <= Slack(q) /\ ~(0 > Slack(q)) /\ 0 <= 1 + Slack(q)
      /\ 0 <= TTL + 2 + Slack(q) /\ 0 <= TTL + 1 + Slack(q)
  BY <1>1
<1>3. WalkLate(rs, ex, u, q, 0)
  BY <1>1, <1>2 DEF CallLate, WalkLate
<1>4. l = "join" => JoinLate(Truth(rs, ex, 0, u), ca[0][u], q, 0)
  BY <1>1, <1>2 DEF CallLate, JoinLate
<1>5. l = "gate" => GateCallLate(Truth(rs, ex, Depth, u), q, 0)
  BY <1>1, <1>2 DEF CallLate, GateCallLate
<1>6. QED
  BY <1>3, <1>4, <1>5 DEF CallLate, q

LEMMA EntriesAtZero ==
  ASSUME NEW rs, NEW ex, NEW ca \in [Entities -> [Users -> Entry]],
         NEW ga \in [Users -> GateEntry]
  PROVE  CacheLate(rs, ex, ca, 0) /\ GateLate(rs, ex, ga, 0)
<1>1. ASSUME NEW e \in Entities, NEW u \in Users
      PROVE  EntryLate(e, ca[e][u], Truth(rs, ex, e, u), 0)
  <2>1. ca[e][u].age \in Nat
    BY EntityFacts DEF Entry, Absent
  <2>2. Life(e) \in 1 .. 2
    BY EntityFacts
  <2>3. QED
    BY <2>1, <2>2 DEF EntryLate
<1>2. ASSUME NEW u \in Users
      PROVE  0 <= ga[u].age + TTL + 1
  BY EntityFacts DEF GateEntry, Absent
<1>3. QED
  BY <1>1, <1>2 DEF CacheLate, GateLate

LEMMA Changed ==
  ASSUME IInv, TypeOK', ManageOK(manage'), quiet' = 0, UNCHANGED request
  PROVE  IInv'
<1>1. InsertOK(request')
  BY DEF IInv, Typed
<1>2. CallsLate(rows', exists', cache', request', 0)
  BY CallAtZero DEF CallsLate
<1>3. CacheLate(rows', exists', cache', 0) /\ GateLate(rows', exists', gate', 0)
  BY EntriesAtZero DEF TypeOK
<1>4. QED
  BY <1>1, <1>2, <1>3 DEF IInv, Typed, Late

LEMMA InsertKeepsInv ==
  ASSUME IInv, NEW u \in Users, NEW e \in Entities, InsertShare(u, e)
  PROVE  IInv'
<1> DEFINE level == request["rest"][u].level
<1>1. /\ request' = [request EXCEPT !["rest"][u] = Idle] /\ "rest" \in Lanes
      /\ rows' = rows \/ rows' = [rows EXCEPT ![e][u] = level]
      /\ quiet' = 0 /\ request["rest"][u].pc = "insert"
      /\ UNCHANGED <<default, exists, cache, gate, manage, held, changes>>
  BY DEF InsertShare, Ask, Asking, Lanes
<1>2. Idle \in Requests /\ Idle.pc = "idle"
  BY EntityFacts DEF Idle, Requests, Cached, Answers
<1>3. request \in [Lanes -> [Users -> Requests]] /\ rows \in [Entities -> [Users -> Answers]]
  BY DEF IInv, Typed, TypeOK
<1>4. /\ request' \in [Lanes -> [Users -> Requests]] /\ request'["rest"][u] = Idle
      /\ \A k \in Lanes, v \in Users : k # "rest" \/ v # u => request'[k][v] = request[k][v]
  BY <1>1, <1>2, <1>3, PutCall
<1>5. level \in Answers
  BY <1>1, CallFacts DEF Answers
<1>6. rows' \in [Entities -> [Users -> Answers]]
  <2>1. CASE rows' = rows
    BY <1>3, <2>1
  <2>2. CASE rows' = [rows EXCEPT ![e][u] = level]
    <3> HIDE DEF level
    <3>1. QED
      BY <1>3, <1>5, <2>2, PutCall
  <2>3. QED
    BY <1>1, <2>1, <2>2
<1>7. TypeOK'
  BY <1>1, <1>4, <1>6, EntityFacts DEF IInv, Typed, TypeOK
<1>8. ManageOK(manage)' /\ InsertOK(request)'
  BY <1>1, <1>2, <1>4 DEF IInv, Typed, ManageOK, InsertOK
<1>9. ASSUME NEW l \in Lanes, NEW v \in Users
      PROVE  CallLate(rows', exists', cache', l, v, request'[l][v], 0)
  <2>1. CASE l = "rest" /\ v = u
    BY <1>2, <1>4, <2>1 DEF CallLate, WalkLate
  <2>2. CASE l # "rest" \/ v # u
    BY <1>4, <2>2, CallAtZero
  <2>3. QED
    BY <2>1, <2>2
<1>10. CacheLate(rows', exists', cache', 0) /\ GateLate(rows', exists', gate', 0)
  BY <1>7, EntriesAtZero DEF TypeOK
<1>11. QED
  BY <1>1, <1>7, <1>8, <1>9, <1>10 DEF IInv, Typed, Late, CallsLate

\* The manager's record is replaced by another.
LEMMA PutChange ==
  ASSUME IInv, NEW m \in Managers, NEW r \in Changes,
         r.pc \in {"drop", "set", "emit", "apply"} => r.user \in Users,
         manage' = [manage EXCEPT ![m] = r]
  PROVE  manage' \in [Managers -> Changes] /\ ManageOK(manage')
<1>1. manage \in [Managers -> Changes]
  BY DEF IInv, Typed, TypeOK
<1>2. QED
  BY <1>1 DEF IInv, Typed, ManageOK

LEMMA BeginFacts ==
  ASSUME IInv, NEW m \in Managers, NEW e \in Entities, NEW u \in Users \cup {"None"},
         NEW level \in Cached, NEW pc \in {"drop", "set", "keys"},
         pc # "keys" => u \in Users, Begin(m, pc, e, u, level)
  PROVE  /\ manage' \in [Managers -> Changes] /\ ManageOK(manage')
         /\ changes' \in 0 .. MaxChanges /\ quiet' = 0 /\ quiet' \in 0 .. Settled
         /\ UNCHANGED <<cache, gate, request, held>>
<1> DEFINE r == [Rest EXCEPT !.pc = pc, !.entity = e, !.user = u, !.level = level]
<1>1. r \in Changes /\ r.pc = pc /\ r.user = u
  BY EntityFacts DEF Rest, Changes
<1>2. manage' = [manage EXCEPT ![m] = r]
  BY DEF Begin
<1> HIDE DEF r
<1>3. manage' \in [Managers -> Changes] /\ ManageOK(manage')
  BY <1>1, <1>2, PutChange
<1>4. changes' \in 0 .. MaxChanges /\ quiet' = 0
  BY BoundsAssumption DEF Begin, IInv, Typed, TypeOK
<1>5. QED
  BY <1>3, <1>4, EntityFacts DEF Begin

LEMMA RemoveKeepsInv ==
  ASSUME IInv, NEW m \in Managers, NEW e \in Entities, NEW u \in Users, RemoveRow(m, e, u)
  PROVE  IInv'
<1> DEFINE level == IF rows[e][u] # "None" THEN "Revoked" ELSE "None"
<1>1. level \in Cached /\ "None" \in Answers
  BY DEF Cached, Answers
<1>2. Begin(m, "drop", e, u, level) /\ rows' = [rows EXCEPT ![e][u] = "None"]
      /\ UNCHANGED <<default, exists>>
  BY DEF RemoveRow
<1> HIDE DEF level
<1>3. /\ manage' \in [Managers -> Changes] /\ ManageOK(manage')
      /\ changes' \in 0 .. MaxChanges /\ quiet' = 0 /\ quiet' \in 0 .. Settled
      /\ UNCHANGED <<cache, gate, request, held>>
  BY <1>1, <1>2, BeginFacts
<1>4. rows' \in [Entities -> [Users -> Answers]]
  BY <1>1, <1>2, PutCall DEF IInv, Typed, TypeOK
<1>5. TypeOK'
  BY <1>2, <1>3, <1>4 DEF IInv, Typed, TypeOK
<1>6. QED
  BY <1>3, <1>5, Changed

LEMMA UpsertKeepsInv ==
  ASSUME IInv, NEW m \in Managers, NEW e \in Entities, NEW u \in Users, NEW level \in Levels,
         UpsertRow(m, e, u, level)
  PROVE  IInv'
<1>1. level \in Cached /\ level \in Answers
  BY DEF Cached, Answers
<1>2. Begin(m, "set", e, u, level) /\ rows' = [rows EXCEPT ![e][u] = level]
      /\ UNCHANGED <<default, exists>>
  BY DEF UpsertRow
<1>3. /\ manage' \in [Managers -> Changes] /\ ManageOK(manage')
      /\ changes' \in 0 .. MaxChanges /\ quiet' = 0 /\ quiet' \in 0 .. Settled
      /\ UNCHANGED <<cache, gate, request, held>>
  BY <1>1, <1>2, BeginFacts
<1>4. rows' \in [Entities -> [Users -> Answers]]
  BY <1>1, <1>2, PutCall DEF IInv, Typed, TypeOK
<1>5. TypeOK'
  BY <1>2, <1>3, <1>4 DEF IInv, Typed, TypeOK
<1>6. QED
  BY <1>3, <1>5, Changed

LEMMA DefaultKeepsInv ==
  ASSUME IInv, NEW m \in Managers, NEW e \in Entities, NEW level \in Levels,
         SetDefault(m, e, level)
  PROVE  IInv'
<1>1. "None" \in Cached /\ "None" \in Users \cup {"None"}
  BY DEF Cached, Answers
<1>2. Begin(m, "keys", e, "None", "None") /\ default' = [default EXCEPT ![e] = level]
      /\ UNCHANGED <<rows, exists>>
  BY DEF SetDefault
<1>3. /\ manage' \in [Managers -> Changes] /\ ManageOK(manage')
      /\ changes' \in 0 .. MaxChanges /\ quiet' = 0 /\ quiet' \in 0 .. Settled
      /\ UNCHANGED <<cache, gate, request, held>>
  BY <1>1, <1>2, BeginFacts
<1>4. TypeOK'
  BY <1>2, <1>3 DEF IInv, Typed, TypeOK
<1>5. QED
  BY <1>3, <1>4, Changed

LEMMA DeleteKeepsInv ==
  ASSUME IInv, NEW m \in Managers, DeleteDocument(m)
  PROVE  IInv'
<1>1. "None" \in Cached /\ "None" \in Answers /\ "None" \in Users \cup {"None"}
  BY DEF Cached, Answers
<1>2. /\ Begin(m, "keys", 0, "None", "None") /\ exists' = FALSE /\ UNCHANGED default
      /\ rows' = [rows EXCEPT ![0] = [u \in Users |-> "None"]]
  BY DEF DeleteDocument
<1>3. /\ manage' \in [Managers -> Changes] /\ ManageOK(manage')
      /\ changes' \in 0 .. MaxChanges /\ quiet' = 0 /\ quiet' \in 0 .. Settled
      /\ UNCHANGED <<cache, gate, request, held>>
  BY <1>1, <1>2, BeginFacts, EntityFacts
<1>4. rows' \in [Entities -> [Users -> Answers]]
  BY <1>1, <1>2 DEF IInv, Typed, TypeOK
<1>5. TypeOK'
  BY <1>2, <1>3, <1>4 DEF IInv, Typed, TypeOK
<1>6. QED
  BY <1>3, <1>5, Changed

LEMMA ManageFacts ==
  ASSUME IInv, NEW m \in Managers
  PROVE  /\ manage[m] \in Changes /\ Rest \in Changes /\ Rest.pc = "idle"
         /\ manage[m].pc \in {"drop", "set", "emit", "apply"} => manage[m].user \in Users
         /\ 0 \in 0 .. Settled
BY EntityFacts DEF IInv, Typed, TypeOK, ManageOK, Rest, Changes, Cached, Answers

\* A step of a change that leaves the caches with entries and the hub with levels.
LEMMA ContinueKeepsInv ==
  ASSUME IInv, NEW m \in Managers, NEW r \in Changes,
         r.pc \in {"drop", "set", "emit", "apply"} => r.user \in Users,
         Continue(m, r), cache' \in [Entities -> [Users -> Entry]], held' \in [Users -> Cached],
         UNCHANGED <<rows, default, exists, gate, request, changes>>
  PROVE  IInv'
<1>1. manage' \in [Managers -> Changes] /\ ManageOK(manage')
  BY PutChange DEF Continue
<1>2. quiet' = 0 /\ quiet' \in 0 .. Settled
  BY ManageFacts DEF Continue
<1>3. TypeOK'
  BY <1>1, <1>2 DEF IInv, Typed, TypeOK
<1>4. QED
  BY <1>1, <1>2, <1>3, Changed

LEMMA StoreType ==
  ASSUME IInv, NEW e \in Entities, NEW u \in Users, NEW level \in Cached, Store(e, u, level)
  PROVE  cache' \in [Entities -> [Users -> Entry]]
<1>1. Fresh(level) \in Entry
  BY EntityFacts DEF Fresh, Entry
<1>2. cache \in [Entities -> [Users -> Entry]]
  BY DEF IInv, Typed, TypeOK
<1>3. QED
  BY <1>1, <1>2, PutCall DEF Store

LEMMA ManageKeepsInv ==
  ASSUME IInv, NEW m \in Managers,
         \/ InvalidateAccess(m) \/ SetAccess(m) \/ DeleteByPattern(m)
         \/ EmitNothing(m) \/ UpdateCollaboratorPermission(m)
  PROVE  IInv'
<1> DEFINE r == manage[m]
<1>1. /\ r \in Changes /\ Rest \in Changes /\ Rest.pc = "idle"
      /\ r.pc \in {"drop", "set", "emit", "apply"} => r.user \in Users
      /\ r.entity \in Entities /\ r.level \in Cached
      /\ Absent \in Entry
  BY ManageFacts DEF Changes, Entry
<1>2. /\ cache \in [Entities -> [Users -> Entry]] /\ held \in [Users -> Cached]
  BY DEF IInv, Typed, TypeOK
<1>3. /\ [r EXCEPT !.pc = "emit"] \in Changes /\ [r EXCEPT !.pc = "apply"] \in Changes
      /\ [r EXCEPT !.pc = "emit"].user = r.user /\ [r EXCEPT !.pc = "apply"].user = r.user
  BY <1>1 DEF Changes
<1>4. CASE InvalidateAccess(m)
  <2>1. /\ r.pc = "drop" /\ cache' = [cache EXCEPT ![r.entity][r.user] = Absent]
        /\ Continue(m, Rest) \/ Continue(m, [r EXCEPT !.pc = "emit"])
        /\ UNCHANGED <<rows, default, exists, gate, request, held, changes>>
    BY <1>4 DEF InvalidateAccess
  <2> HIDE DEF r
  <2>2. cache' \in [Entities -> [Users -> Entry]]
    BY <1>1, <1>2, <2>1, PutCall
  <2>3. QED
    BY <1>1, <1>2, <1>3, <2>1, <2>2, ContinueKeepsInv
<1>5. CASE SetAccess(m)
  <2>1. /\ r.pc = "set" /\ Store(r.entity, r.user, r.level)
        /\ Continue(m, [r EXCEPT !.pc = "emit"])
        /\ UNCHANGED <<rows, default, exists, gate, request, held, changes>>
    BY <1>5 DEF SetAccess
  <2> HIDE DEF r
  <2>2. cache' \in [Entities -> [Users -> Entry]]
    BY <1>1, <2>1, StoreType
  <2>3. QED
    BY <1>1, <1>2, <1>3, <2>1, <2>2, ContinueKeepsInv
<1>6. CASE ScanKeys(m)
  <2> DEFINE k == {u \in Users : Present(cache[r.entity][u])}
  <2>1. /\ Continue(m, [r EXCEPT !.pc = "del", !.keys = k])
        /\ UNCHANGED <<rows, default, exists, cache, gate, request, held, changes>>
    BY <1>6 DEF ScanKeys
  <2>2. [r EXCEPT !.pc = "del", !.keys = k] \in Changes
        /\ [r EXCEPT !.pc = "del", !.keys = k].pc = "del"
    BY <1>1 DEF Changes
  <2> HIDE DEF r, k
  <2>3. QED
    BY <1>2, <2>1, <2>2, ContinueKeepsInv
<1>7. CASE DeleteKeys(m)
  <2> DEFINE left == [u \in Users |-> IF u \in r.keys THEN Absent ELSE cache[r.entity][u]]
  <2>1. /\ cache' = [cache EXCEPT ![r.entity] = left] /\ Continue(m, Rest)
        /\ UNCHANGED <<rows, default, exists, gate, request, held, changes>>
    BY <1>7 DEF DeleteKeys
  <2>2. left \in [Users -> Entry]
    BY <1>1, <1>2
  <2> HIDE DEF r, left
  <2>3. cache' \in [Entities -> [Users -> Entry]]
    BY <1>1, <1>2, <2>1, <2>2
  <2>4. QED
    BY <1>1, <1>2, <2>1, <2>3, ContinueKeepsInv
<1>8. CASE EmitNothing(m)
  <2>1. Continue(m, Rest)
        /\ UNCHANGED <<rows, default, exists, cache, gate, request, held, changes>>
    BY <1>8 DEF EmitNothing
  <2>2. QED
    BY <1>1, <1>2, <2>1, ContinueKeepsInv
<1>9. CASE WriteThrough(m)
  <2>1. /\ r.pc = "emit" /\ Store(r.entity, r.user, r.level)
        /\ Continue(m, Rest) \/ Continue(m, [r EXCEPT !.pc = "apply"])
        /\ UNCHANGED <<rows, default, exists, gate, request, held, changes>>
    BY <1>9 DEF WriteThrough
  <2> HIDE DEF r
  <2>2. cache' \in [Entities -> [Users -> Entry]]
    BY <1>1, <2>1, StoreType
  <2>3. QED
    BY <1>1, <1>2, <1>3, <2>1, <2>2, ContinueKeepsInv
<1>10. CASE UpdateUserDocumentAccess(m)
  <2>1. /\ r.pc = "apply" /\ held' = [held EXCEPT ![r.user] = r.level] /\ Continue(m, Rest)
        /\ UNCHANGED <<rows, default, exists, cache, gate, request, changes>>
    BY <1>10 DEF UpdateUserDocumentAccess
  <2> HIDE DEF r
  <2>2. held' \in [Users -> Cached]
    BY <1>1, <1>2, <2>1
  <2>3. QED
    BY <1>1, <1>2, <2>1, <2>2, ContinueKeepsInv
<1>11. QED
  BY <1>4, <1>5, <1>6, <1>7, <1>8, <1>9, <1>10
     DEF DeleteByPattern, UpdateCollaboratorPermission

-----------------------------------------------------------------------------
(***************************************************************************)
(* Time                                                                    *)
(***************************************************************************)

LEMMA ExpireEntryKeepsInv ==
  ASSUME IInv, NEW e \in Entities, NEW u \in Users, ExpireEntry(e, u)
  PROVE  IInv'
<1>1. /\ cache' = [cache EXCEPT ![e][u] = Absent] /\ Absent \in Entry /\ ~Present(Absent)
      /\ cache \in [Entities -> [Users -> Entry]]
      /\ UNCHANGED <<rows, default, exists, gate, request, manage, held, changes, quiet>>
  BY DEF ExpireEntry, Entry, Absent, Present, IInv, Typed, TypeOK
<1>2. /\ cache' \in [Entities -> [Users -> Entry]] /\ cache'[e][u] = Absent
      /\ \A f \in Entities, v \in Users : f # e \/ v # u => cache'[f][v] = cache[f][v]
  BY <1>1, PutCall
<1>3. TypeOK'
  BY <1>1, <1>2 DEF IInv, Typed, TypeOK
<1>4. ManageOK(manage') /\ InsertOK(request')
  BY <1>1 DEF IInv, Typed
<1>5. CacheLate(rows, exists, cache', quiet)
  BY <1>1, <1>2 DEF IInv, Late, CacheLate, EntryLate
<1>6. ASSUME NEW l \in Lanes, NEW v \in Users
      PROVE  CallLate(rows, exists, cache', l, v, request[l][v], quiet)
  <2>1. CallLate(rows, exists, cache, l, v, request[l][v], quiet)
    BY DEF IInv, Late, CallsLate
  <2>2. cache'[0][v] = cache[0][v] \/ ~Present(cache'[0][v])
    BY <1>1, <1>2, EntityFacts
  <2>3. QED
    BY <2>1, <2>2 DEF CallLate, JoinLate
<1>7. QED
  BY <1>1, <1>3, <1>4, <1>5, <1>6 DEF IInv, Typed, Late, CallsLate

LEMMA ExpireGateKeepsInv ==
  ASSUME IInv, NEW u \in Users, ExpireGate(u)
  PROVE  IInv'
<1>1. /\ gate' = [gate EXCEPT ![u] = Absent] /\ Absent \in GateEntry /\ ~Present(Absent)
      /\ gate \in [Users -> GateEntry]
      /\ UNCHANGED <<rows, default, exists, cache, request, manage, held, changes, quiet>>
  BY DEF ExpireGate, GateEntry, Absent, Present, IInv, Typed, TypeOK
<1>2. TypeOK'
  BY <1>1 DEF IInv, Typed, TypeOK
<1>3. GateLate(rows, exists, gate', quiet)
  BY <1>1 DEF IInv, Late, GateLate
<1>4. QED
  BY <1>1, <1>2, <1>3 DEF IInv, Typed, Late

\* What a tick does to an entry and to a call.
LEMMA OlderEntry ==
  ASSUME NEW life \in Nat,
         NEW c \in [level : Cached, age : 0 .. life] \cup {Absent}, Present(c) => c.age < life
  PROVE  /\ Older(c) \in [level : Cached, age : 0 .. life] \cup {Absent}
         /\ Older(c).level = c.level /\ Present(Older(c)) = Present(c)
         /\ Present(c) => Older(c).age = c.age + 1 /\ c.age \in Nat
<1>1. CASE Present(c)
  <2>1. c \in [level : Cached, age : 0 .. life] /\ c.age < life
    BY <1>1 DEF Present, Absent
  <2>2. c.age + 1 \in 0 .. life /\ c.age \in Nat
    BY <2>1
  <2>3. Older(c) = [c EXCEPT !.age = c.age + 1]
    BY <1>1 DEF Older
  <2>4. Older(c) \in [level : Cached, age : 0 .. life]
    BY <2>1, <2>2, <2>3
  <2>5. Older(c).level = c.level /\ Older(c).age = c.age + 1
    BY <2>1, <2>3
  <2>6. QED
    BY <1>1, <2>2, <2>4, <2>5 DEF Present
<1>2. CASE ~Present(c)
  BY <1>2 DEF Older
<1>3. QED
  BY <1>1, <1>2

LEMMA AgedCall ==
  ASSUME NEW r \in Requests, ~r.old
  PROVE  /\ Aged(r) \in Requests
         /\ Aged(r).pc = r.pc /\ Aged(r).entity = r.entity /\ Aged(r).at = r.at
         /\ Aged(r).level = r.level
         /\ Slack(r) = 0 /\ (r.pc # "idle" => Slack(Aged(r)) = 1)
BY DEF Aged, Requests, Slack

LEMMA TickKeepsInv ==
  ASSUME IInv, Tick
  PROVE  IInv'
<1>1. /\ rows' = rows /\ default' = default /\ exists' = exists /\ held' = held /\ changes' = changes
      /\ cache' = [e \in Entities |-> [u \in Users |-> Older(cache[e][u])]]
      /\ gate' = [u \in Users |-> Older(gate[u])]
      /\ request' = [l \in Lanes |-> [u \in Users |-> Aged(request[l][u])]]
      /\ manage' = [m \in Managers |-> Aged(manage[m])]
  BY DEF Tick
<1>2. quiet \in Nat /\ quiet' \in Nat /\ quiet' <= quiet + 1 /\ quiet' \in 0 .. Settled /\ TTL \in Nat
  BY EntityFacts DEF Tick, IInv, Typed, TypeOK
<1>3. ASSUME NEW e \in Entities, NEW u \in Users
      PROVE  /\ cache'[e][u] \in Entry /\ cache'[e][u].level = cache[e][u].level
             /\ Present(cache'[e][u]) = Present(cache[e][u])
             /\ Present(cache[e][u]) => cache'[e][u].age = cache[e][u].age + 1 /\ cache[e][u].age \in Nat
  <2>1. cache[e][u] \in [level : Cached, age : 0 .. TTL] \cup {Absent}
    BY DEF IInv, Typed, TypeOK, Entry
  <2>2. Present(cache[e][u]) => cache[e][u].age < TTL
    BY DEF Tick
  <2>3. cache'[e][u] = Older(cache[e][u])
    BY <1>1
  <2>4. QED
    BY <1>2, <2>1, <2>2, <2>3, OlderEntry DEF Entry
<1>4. ASSUME NEW u \in Users
      PROVE  /\ gate'[u] \in GateEntry /\ gate'[u].level = gate[u].level
             /\ Present(gate'[u]) = Present(gate[u])
             /\ Present(gate[u]) => gate'[u].age = gate[u].age + 1 /\ gate[u].age \in Nat
  <2>1. gate[u] \in [level : Cached, age : 0 .. GatewayTTL] \cup {Absent}
    BY DEF IInv, Typed, TypeOK, GateEntry
  <2>2. Present(gate[u]) => gate[u].age < GatewayTTL
    BY DEF Tick
  <2>3. gate'[u] = Older(gate[u])
    BY <1>1
  <2>4. QED
    BY EntityFacts, <2>1, <2>2, <2>3, OlderEntry DEF GateEntry
<1>5. ASSUME NEW l \in Lanes, NEW u \in Users
      PROVE  /\ request[l][u] \in Requests /\ ~request[l][u].old
             /\ request'[l][u] = Aged(request[l][u])
  BY <1>1 DEF Tick, IInv, Typed, TypeOK
<1>6. /\ cache' \in [Entities -> [Users -> Entry]] /\ gate' \in [Users -> GateEntry]
      /\ request' \in [Lanes -> [Users -> Requests]]
  <2>1. \A e \in Entities, u \in Users : cache'[e][u] \in Entry
    BY <1>3
  <2>2. \A u \in Users : gate'[u] \in GateEntry
    BY <1>4
  <2>3. \A l \in Lanes, u \in Users : Aged(request[l][u]) \in Requests
    BY <1>5, AgedCall
  <2>4. QED
    BY <1>1, <2>1, <2>2, <2>3
<1>7. ASSUME NEW m \in Managers
      PROVE  /\ manage'[m] \in Changes
             /\ manage'[m].pc = manage[m].pc /\ manage'[m].user = manage[m].user
  BY <1>1, ZenonT(60) DEF IInv, Typed, TypeOK, Changes, Aged
<1>8. manage' \in [Managers -> Changes] /\ ManageOK(manage')
  <2>1. \A m \in Managers : Aged(manage[m]) \in Changes
    BY <1>1, <1>7
  <2>2. QED
    BY <1>1, <1>7, <2>1 DEF IInv, Typed, ManageOK
<1>9. TypeOK'
  BY <1>1, <1>2, <1>6, <1>8 DEF IInv, Typed, TypeOK
<1>10. InsertOK(request')
  <2>1. ASSUME NEW l \in Lanes, NEW u \in Users, request'[l][u].pc = "insert"
        PROVE  request'[l][u].level \in Levels
    BY <1>5, <2>1, AgedCall DEF IInv, Typed, InsertOK
  <2>2. QED
    BY <2>1 DEF InsertOK
<1>11. CacheLate(rows', exists', cache', quiet')
  <2>1. ASSUME NEW e \in Entities, NEW u \in Users
        PROVE  EntryLate(e, cache'[e][u], Truth(rows, exists, e, u), quiet')
    <3>1. EntryLate(e, cache[e][u], Truth(rows, exists, e, u), quiet) /\ Life(e) \in Nat
      BY EntityFacts DEF IInv, Late, CacheLate
    <3>2. QED
      BY <1>2, <1>3, <3>1 DEF EntryLate
  <2>2. QED
    BY <1>1, <2>1 DEF CacheLate
<1>12. GateLate(rows', exists', gate', quiet')
  <2>1. ASSUME NEW u \in Users, Present(gate'[u]), gate'[u].level # Truth(rows, exists, Depth, u)
        PROVE  quiet' <= gate'[u].age + TTL + 1
    <3>1. quiet <= gate[u].age + TTL + 1
      BY <1>4, <2>1 DEF IInv, Late, GateLate
    <3>2. gate'[u].age = gate[u].age + 1 /\ gate[u].age \in Nat
      BY <1>4, <2>1
    <3>3. QED
      BY <1>2, <3>1, <3>2
  <2>2. QED
    BY <1>1, <2>1 DEF GateLate
<1>13. ASSUME NEW l \in Lanes, NEW u \in Users
       PROVE  CallLate(rows', exists', cache', l, u, request'[l][u], quiet')
  <2> DEFINE r == request[l][u]
  <2> DEFINE s == request'[l][u]
  <2> DEFINE t == Truth(rows, exists, 0, u)
  <2> DEFINE d == Truth(rows, exists, Depth, u)
  <2>1. /\ s.pc = r.pc /\ s.entity = r.entity /\ s.at = r.at /\ s.level = r.level
        /\ Slack(r) = 0 /\ (r.pc # "idle" => Slack(s) = 1)
    BY <1>5, AgedCall
  <2>2. CallLate(rows, exists, cache, l, u, r, quiet)
    BY DEF IInv, Late, CallsLate
  <2>3. /\ cache'[0][u].level = cache[0][u].level
        /\ Present(cache'[0][u]) = Present(cache[0][u])
    BY <1>3, EntityFacts
  <2> HIDE DEF r, s, t, d
  <2>4. r.pc # "idle" => Slack(s) = Slack(r) + 1 /\ quiet' <= quiet + Slack(s) - Slack(r)
    BY <1>2, <2>1
  <2>5. WalkLate(rows, exists, u, s, quiet')
    BY <1>2, <2>1, <2>2 DEF CallLate, WalkLate
  <2>6. l = "join" => JoinLate(t, cache'[0][u], s, quiet')
    <3>1. l = "join" => JoinLate(t, cache[0][u], r, quiet)
      BY <2>2 DEF CallLate, t
    <3>2. QED
      BY <1>2, <2>1, <2>3, <3>1 DEF JoinLate
  <2>7. l = "gate" => GateCallLate(d, s, quiet')
    <3>1. l = "gate" => GateCallLate(d, r, quiet)
      BY <2>2 DEF CallLate, d
    <3>2. QED
      BY <1>2, <2>1, <3>1 DEF GateCallLate
  <2>8. QED
    BY <1>1, <2>5, <2>6, <2>7 DEF CallLate, s, t, d
<1>14. QED
  BY <1>8, <1>9, <1>10, <1>11, <1>12, <1>13 DEF IInv, Typed, Late, CallsLate

-----------------------------------------------------------------------------
(***************************************************************************)
(* The theorems                                                            *)
(***************************************************************************)

\* Every reachable state satisfies the invariant.
THEOREM Invariance == Spec => []IInv
<1>1. Init => IInv
  <2> SUFFICES ASSUME Init PROVE IInv
    OBVIOUS
  <2>1. /\ Absent \in Entry /\ Absent \in GateEntry /\ ~Present(Absent)
        /\ Idle \in Requests /\ Idle.pc = "idle" /\ Idle.entity = 0
        /\ Rest \in Changes /\ Rest.pc = "idle"
        /\ "View" \in Levels /\ "None" \in Cached /\ 0 \in 0 .. MaxChanges /\ 0 \in 0 .. Settled
    BY EntityFacts, BoundsAssumption
       DEF Entry, GateEntry, Absent, Present, Idle, Requests, Rest, Changes, Levels, Cached, Answers
  <2>2. rows \in [Entities -> [Users -> Answers]]
    BY SharesAssumption DEF Init
  <2>3. TypeOK
    BY <2>1, <2>2 DEF Init, TypeOK
  <2>4. ManageOK(manage) /\ InsertOK(request)
    BY <2>1 DEF Init, ManageOK, InsertOK
  <2>5. CacheLate(rows, exists, cache, quiet) /\ GateLate(rows, exists, gate, quiet)
    BY <2>1 DEF Init, CacheLate, EntryLate, GateLate
  <2>6. CallsLate(rows, exists, cache, request, quiet)
    BY <2>1, ZenonT(60) DEF Init, CallsLate, CallLate, WalkLate, JoinLate, GateCallLate
  <2>7. QED
    BY <2>3, <2>4, <2>5, <2>6 DEF IInv, Typed, Late
<1>2. IInv /\ [Next]_vars => IInv'
  <2> SUFFICES ASSUME IInv, [Next]_vars PROVE IInv'
    OBVIOUS
  <2>1. CASE UNCHANGED vars
    BY <2>1 DEF vars, IInv, Typed, Late, TypeOK
  <2>2. ASSUME NEW u \in Users, LookupStep(u)
        PROVE  IInv'
    <3>1. CASE DocumentAccess(u) \/ VerifyWorkspaceAccess(u) \/ \E f \in Folders : FolderAccess(u, f)
      BY <3>1, BeginsKeepInv
    <3>2. CASE JoinDocument(u)
      BY <3>2, JoinKeepsInv
    <3>3. CASE AddShare(u) \/ \E f \in Folders : AddFolderShare(u, f)
      BY <3>3, FindKeepsInv, InsertKeepsInv, EntityFacts DEF AddShare, AddFolderShare
    <3>4. ASSUME NEW l \in Lanes, Look(l, u) \/ ReadRaw(l, u) \/ ReadShare(l, u) \/ Fill(l, u)
          PROVE  IInv'
      BY <3>4, LookKeepsInv, ReadRawKeepsInv, ReadShareKeepsInv, FillKeepsInv
    <3>5. CASE ReplyRest(u) \/ ReplyJoin(u) \/ ReplyGate(u) \/ AddUserToDocument(u)
      BY <3>5, ReplyRestKeepsInv, ReplyJoinKeepsInv, ReplyGateKeepsInv, MemberKeepsInv
    <3>6. QED
      BY <2>2, <3>1, <3>2, <3>3, <3>4, <3>5 DEF LookupStep
  <2>3. ASSUME NEW m \in Managers, ManageStep(m)
        PROVE  IInv'
    <3>1. CASE \E u \in Users : RemoveShare(m, u) \/ \E f \in Folders : RemoveFolderShare(m, f, u)
      BY <3>1, RemoveKeepsInv, EntityFacts DEF RemoveShare, RemoveFolderShare
    <3>2. CASE \E u \in Users, level \in Levels :
                 UpdateShareAccess(m, u, level) \/ \E f \in Folders : UpdateFolderShareAccess(m, f, u, level)
      BY <3>2, UpsertKeepsInv, EntityFacts DEF UpdateShareAccess, UpdateFolderShareAccess
    <3>3. CASE \E level \in Levels :
                 UpdateCodeAccess(m, level) \/ \E f \in Folders : UpdateFolderCodeAccess(m, f, level)
      BY <3>3, DefaultKeepsInv, EntityFacts DEF UpdateCodeAccess, UpdateFolderCodeAccess
    <3>4. CASE DeleteDocument(m)
      BY <3>4, DeleteKeepsInv
    <3>5. CASE \/ InvalidateAccess(m) \/ SetAccess(m) \/ DeleteByPattern(m)
               \/ EmitNothing(m) \/ UpdateCollaboratorPermission(m)
      BY <3>5, ManageKeepsInv
    <3>6. QED
      BY <2>3, <3>1, <3>2, <3>3, <3>4, <3>5 DEF ManageStep
  <2>4. QED
    BY <2>1, <2>2, <2>3, ExpireEntryKeepsInv, ExpireGateKeepsInv, TickKeepsInv DEF Next
<1>3. QED
  BY <1>1, <1>2, PTL DEF Spec

\* Every variable keeps its type.
THEOREM TypeCorrect == Spec => []TypeOK
<1>1. IInv => TypeOK
  BY DEF IInv, Typed
<1>2. QED
  BY <1>1, Invariance, PTL

\* An entry of the shared cache that disagrees with the rows is gone a life and
\* two ticks after the last change of the sharing.
THEOREM TheCacheSettles == Spec => []CacheSettles
<1>1. IInv => CacheSettles
  <2> SUFFICES ASSUME IInv, quiet > TTL + 2,
                      NEW e \in Entities, NEW u \in Users, Present(cache[e][u])
               PROVE  cache[e][u].level = Effective(e, u)
    BY DEF CacheSettles
  <2>1. cache[e][u].level # Truth(rows, exists, e, u) => quiet <= TTL + Life(e)
    BY EntryFacts
  <2>2. ~(quiet <= TTL + Life(e))
    BY EntityFacts DEF IInv, Typed, TypeOK
  <2>3. QED
    BY <2>1, <2>2, EffectiveIsTruth
<1>2. QED
  BY <1>1, Invariance, PTL

\* So are the levels in the gateway's cache and those with which the hub lets
\* people in, a gateway's life and a request later.
THEOREM TheLevelsSettle == Spec => []LevelsSettle
<1>1. IInv => GatewaySettles
  <2> SUFFICES ASSUME IInv, quiet > TTL + GatewayTTL + 1, NEW u \in Users, Present(gate[u])
               PROVE  gate[u].level = Effective(Depth, u)
    BY DEF GatewaySettles
  <2>1. gate[u].level # Truth(rows, exists, Depth, u) => quiet <= gate[u].age + TTL + 1
    BY DEF IInv, Late, GateLate
  <2>2. gate[u] \in [level : Cached, age : 0 .. GatewayTTL]
    BY DEF IInv, Typed, TypeOK, GateEntry, Absent, Present
  <2>3. gate[u].age \in Nat /\ gate[u].age <= GatewayTTL /\ quiet \in Nat
    BY <2>2, EntityFacts DEF IInv, Typed, TypeOK
  <2>4. ~(quiet <= gate[u].age + TTL + 1)
    BY <2>3, EntityFacts
  <2>5. QED
    BY <2>1, <2>4, EffectiveIsTruth, EntityFacts
<1>2. IInv => JoinsSettle
  <2> SUFFICES ASSUME IInv, quiet > TTL + 3, NEW u \in Users, request["join"][u].pc = "member"
               PROVE  request["join"][u].level = Effective(0, u)
    BY DEF JoinsSettle
  <2> DEFINE r == request["join"][u]
  <2>1. /\ CallLate(rows, exists, cache, "join", u, r, quiet)
        /\ Slack(r) \in 0 .. 1 /\ quiet \in Nat /\ TTL \in Nat
    BY CallFacts, EntityFacts DEF Lanes
  <2>2. r.level # Truth(rows, exists, 0, u) => quiet <= TTL + 2 + Slack(r)
    BY <2>1 DEF CallLate, JoinLate
  <2>3. ~(quiet <= TTL + 2 + Slack(r))
    <3> HIDE DEF r
    <3>1. QED
      BY <2>1
  <2>4. QED
    BY <2>2, <2>3, EffectiveIsTruth, EntityFacts
<1>3. QED
  BY <1>1, <1>2, Invariance, PTL DEF LevelsSettle

=============================================================================
