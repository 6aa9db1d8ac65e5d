------------------------------ MODULE Sharing ------------------------------
(***************************************************************************)
(* Who may see and edit a document: the share rows in Postgres, the        *)
(* read-through cache of levels in Redis that the API and the hub both     *)
(* write, the gateway's own ten-second cache, and the level the hub keeps  *)
(* with a connection.                                                      *)
(*                                                                         *)
(* The document is entity 0; entity i is the i-th folder above it, entity  *)
(* Depth the project.  A request lasts less than one Tick, an entry of the *)
(* shared cache lives exactly TTL ticks and one of the gateway GatewayTTL. *)
(***************************************************************************)
EXTENDS Naturals, FiniteSets

CONSTANTS Users,          \* collaborators; the owner's level never changes
          Managers,       \* browser tabs of whoever may change the sharing
          Depth,          \* folders above the document
          SharesBefore,   \* the share rows there may be to begin with
          TTL,            \* DefaultACLCacheTTL (15 minutes), in ticks
          GatewayTTL,     \* life of the gateway's entries, in ticks
          MaxChanges,     \* bound on changes of the sharing
          MaxRunning      \* bound on requests in flight at once

ASSUME DepthAssumption == Depth \in Nat \ {0}
ASSUME TTLAssumption == TTL \in Nat \ {0}
ASSUME GatewayAssumption == GatewayTTL \in Nat \ {0}
ASSUME BoundsAssumption ==
  MaxChanges \in Nat /\ MaxRunning \in Nat

VARIABLES rows,     \* rows[e][u]: SharedDocuments (e = 0), SharedFolders
          default,  \* DefaultAccessLevel, what a share code grants
          exists,   \* the document has not been deleted
          cache,    \* livesync:acl:doc:* and livesync:acl:ws:*
          gate,     \* the gateway's cache, per user
          request,  \* request[l][u]: the user's call of lane l
          manage,   \* manage[m]: the change that m is making
          held,     \* the level the hub keeps for the user's connection
          changes,  \* changes begun so far
          quiet     \* ticks since the last step of a change, up to Settled

vars == <<rows, default, exists, cache, gate, request, manage, held,
          changes, quiet>>

Levels == {"View", "Edit"}
Answers == Levels \cup {"None"}
Cached == Answers \cup {"Revoked"}
Entities == 0 .. Depth
Folders == 1 .. Depth
Lanes == {"rest", "join", "gate"}

ASSUME SharesAssumption == SharesBefore \subseteq [Entities -> [Users -> Answers]]

(* No entry has age 0 and a level of its own.                              *)
Absent == [level |-> "Absent", age |-> 0]
Fresh(l) == [level |-> l, age |-> 0]
Present(c) == c.level # "Absent"

Idle == [pc |-> "idle", entity |-> 0, at |-> 0, level |-> "None", old |-> FALSE]
Rest == [pc |-> "idle", entity |-> 0, user |-> "None", level |-> "None",
         keys |-> {}, old |-> FALSE]

(* The ticks after which no answer can still be out of date.               *)
Settled == TTL + GatewayTTL + 3

(***************************************************************************)
(* What the rows say: the nearest row going up from the document wins, the *)
(* order in which Access, folderAccess and accessLevel look.               *)
(***************************************************************************)
RowAt(e, u) == {i \in e .. Depth : rows[i][u] # "None"}
Effective(e, u) ==
  IF (e = 0 /\ ~exists) \/ RowAt(e, u) = {} THEN "None"
  ELSE rows[CHOOSE i \in RowAt(e, u) : \A j \in RowAt(e, u) : i <= j][u]

Init ==
  /\ rows \in SharesBefore
  /\ default = [e \in Entities |-> "View"]
  /\ exists = TRUE
  /\ cache = [e \in Entities |-> [u \in Users |-> Absent]]
  /\ gate = [u \in Users |-> Absent]
  /\ request = [l \in Lanes |-> [u \in Users |-> Idle]]
  /\ manage = [m \in Managers |-> Rest]
  /\ held = [u \in Users |-> "None"]
  /\ changes = 0
  /\ quiet = 0

(***************************************************************************)
(* A lookup: the cache, then the rows one query at a time, then the fill.  *)
(***************************************************************************)
Ask(l, u, r) == request' = [request EXCEPT ![l][u] = r]
Store(e, u, level) == cache' = [cache EXCEPT ![e][u] = Fresh(level)]
Asking(l, u, pc) == request[l][u].pc = pc
MayStart(l, u) ==
  /\ Asking(l, u, "idle")
  /\ Cardinality({q \in Lanes \X Users : ~Asking(q[1], q[2], "idle")}) < MaxRunning

(* GET documents/:id/access and every handler that calls Access first.     *)
DocumentAccess(u) ==
  /\ MayStart("rest", u)
  /\ Ask("rest", u, [Idle EXCEPT !.pc = "look"])
  /\ UNCHANGED <<rows, default, exists, cache, gate, manage, held, changes, quiet>>

(* GET folders/:id/access and every handler that calls GetAccessLevel.     *)
FolderAccess(u, f) ==
  /\ MayStart("rest", u)
  /\ Ask("rest", u, [Idle EXCEPT !.pc = "look", !.entity = f, !.at = f])
  /\ UNCHANGED <<rows, default, exists, cache, gate, manage, held, changes, quiet>>

(* As JoinDocument, but what was found in the cache is written back.       *)
JoinRenews(u) ==
  LET c == cache[0][u].level
      hit == c \notin {"Absent", "None"}
  IN /\ MayStart("join", u)
     /\ Ask("join", u, [Idle EXCEPT !.pc = IF hit THEN "member" ELSE "look",
                                    !.level = IF hit THEN c ELSE "None"])
     /\ IF hit THEN Store(0, u, c) ELSE UNCHANGED cache
     /\ UNCHANGED <<rows, default, exists, gate, manage, held, changes, quiet>>

(* JoinDocument: the hub reads the cache itself; None counts as a miss.    *)
JoinDocument(u) ==
  LET c == cache[0][u].level
      hit == c \notin {"Absent", "None"}
  IN /\ MayStart("join", u)
     /\ Ask("join", u, [Idle EXCEPT !.pc = IF hit THEN "member" ELSE "look",
                                    !.level = IF hit THEN c ELSE "None"])
     /\ UNCHANGED <<rows, default, exists, cache, gate, manage, held, changes, quiet>>

(* VerifyWorkspaceAccess for the project, once its own entry has expired.  *)
VerifyWorkspaceAccess(u) ==
  /\ MayStart("gate", u)
  /\ ~Present(gate[u])
  /\ Ask("gate", u, [Idle EXCEPT !.pc = "look", !.entity = Depth, !.at = Depth])
  /\ UNCHANGED <<rows, default, exists, cache, gate, manage, held, changes, quiet>>

(* As Look, but a hit gives the entry another life.                        *)
LookRenews(l, u) ==
  LET r == request[l][u]
      c == cache[r.entity][u]
  IN /\ r.pc = "look"
     /\ Ask(l, u, IF Present(c) THEN [r EXCEPT !.pc = "reply", !.level = c.level]
                  ELSE [r EXCEPT !.pc = "raw"])
     /\ IF Present(c) THEN Store(r.entity, u, c.level) ELSE UNCHANGED cache
     /\ UNCHANGED <<rows, default, exists, gate, manage, held, changes, quiet>>

(* GetDocumentAccess, GetFolderAccess: a hit is the answer, None included. *)
Look(l, u) ==
  LET r == request[l][u]
      c == cache[r.entity][u]
  IN /\ r.pc = "look"
     /\ Ask(l, u, IF Present(c) THEN [r EXCEPT !.pc = "reply", !.level = c.level]
                  ELSE [r EXCEPT !.pc = "raw"])
     /\ UNCHANGED <<rows, default, exists, cache, gate, manage, held, changes, quiet>>

(* getRawDocument, getRawFolder: no row, no access.                        *)
ReadRaw(l, u) ==
  LET r == request[l][u]
  IN /\ r.pc = "raw"
     /\ Ask(l, u, IF r.entity = 0 /\ ~exists
                  THEN [r EXCEPT !.pc = "fill", !.level = "None"]
                  ELSE [r EXCEPT !.pc = "scan"])
     /\ UNCHANGED <<rows, default, exists, cache, gate, manage, held, changes, quiet>>

(* As ReadShare, but the walk does not stop at the project.                *)
ReadShareTooFar(l, u) ==
  LET r == request[l][u]
  IN /\ r.pc = "scan"
     /\ Ask(l, u, IF rows[r.at][u] # "None"
                  THEN [r EXCEPT !.pc = "fill", !.level = rows[r.at][u]]
                  ELSE [r EXCEPT !.at = r.at + 1])
     /\ UNCHANGED <<rows, default, exists, cache, gate, manage, held, changes, quiet>>

(* One query of the walk towards the project; the first row found decides. *)
ReadShare(l, u) ==
  LET r == request[l][u]
  IN /\ r.pc = "scan"
     /\ Ask(l, u, IF rows[r.at][u] # "None"
                  THEN [r EXCEPT !.pc = "fill", !.level = rows[r.at][u]]
                  ELSE IF r.at < Depth THEN [r EXCEPT !.at = r.at + 1]
                  ELSE [r EXCEPT !.pc = "fill", !.level = "None"])
     /\ UNCHANGED <<rows, default, exists, cache, gate, manage, held, changes, quiet>>

(* SetDocumentAccess, SetFolderAccess with what was read, whatever has     *)
(* happened to the rows or the entry since.                                *)
Fill(l, u) ==
  LET r == request[l][u]
  IN /\ r.pc = "fill"
     /\ Store(r.entity, u, r.level)
     /\ Ask(l, u, [r EXCEPT !.pc = "reply"])
     /\ UNCHANGED <<rows, default, exists, gate, manage, held, changes, quiet>>

(* The answer reaches a browser.                                           *)
ReplyRest(u) ==
  /\ Asking("rest", u, "reply")
  /\ Ask("rest", u, Idle)
  /\ UNCHANGED <<rows, default, exists, cache, gate, manage, held, changes, quiet>>

(* The answer reaches the hub: it refuses, or caches the level once more   *)
(* with a full life of its own.                                            *)
ReplyJoin(u) ==
  LET r == request["join"][u]
  IN /\ r.pc = "reply"
     /\ IF r.level = "None"
        THEN Ask("join", u, Idle) /\ UNCHANGED cache
        ELSE Ask("join", u, [r EXCEPT !.pc = "member"]) /\ Store(0, u, r.level)
     /\ UNCHANGED <<rows, default, exists, gate, manage, held, changes, quiet>>

(* The answer reaches the gateway, which dates its entry from the moment   *)
(* it began to ask; no access falls through to a document of that id,      *)
(* which does not exist, and is not cached.                                *)
ReplyGate(u) ==
  LET r == request["gate"][u]
  IN /\ r.pc = "reply"
     /\ gate' = IF r.level = "None" THEN gate
                ELSE [gate EXCEPT ![u] = [level |-> r.level, age |-> IF r.old THEN 1 ELSE 0]]
     /\ Ask("gate", u, Idle)
     /\ UNCHANGED <<rows, default, exists, cache, manage, held, changes, quiet>>

(* addUserToDocument: the level is written for a member and a newcomer.    *)
AddUserToDocument(u) ==
  LET r == request["join"][u]
  IN /\ r.pc = "member"
     /\ held' = [held EXCEPT ![u] = r.level]
     /\ Ask("join", u, Idle)
     /\ UNCHANGED <<rows, default, exists, cache, gate, manage, changes, quiet>>

(***************************************************************************)
(* Joining by share code: the level is the default at the time it was      *)
(* read, and no cached None is invalidated.                                *)
(***************************************************************************)
FindByShareCode(u, e) ==
  /\ MayStart("rest", u)
  /\ changes < MaxChanges
  /\ e = 0 => exists
  /\ rows[e][u] = "None"
  /\ Ask("rest", u, [Idle EXCEPT !.pc = "insert", !.entity = e, !.at = e, !.level = default[e]])
  /\ changes' = changes + 1
  /\ UNCHANGED <<rows, default, exists, cache, gate, manage, held, quiet>>

InsertShare(u, e) ==
  /\ Asking("rest", u, "insert")
  /\ request["rest"][u].entity = e
  /\ rows' = IF (e = 0 /\ ~exists) \/ rows[e][u] # "None" THEN rows
             ELSE [rows EXCEPT ![e][u] = request["rest"][u].level]
  /\ Ask("rest", u, Idle)
  /\ quiet' = 0
  /\ UNCHANGED <<default, exists, cache, gate, manage, held, changes>>

AddShare(u) == FindByShareCode(u, 0) \/ InsertShare(u, 0)
AddFolderShare(u, f) == FindByShareCode(u, f) \/ InsertShare(u, f)

(***************************************************************************)
(* A change of the sharing: the rows first, then the cache, then, from the *)
(* browser that asked for it, an event to the hub.                         *)
(***************************************************************************)
Begin(m, pc, e, u, level) ==
  /\ manage[m].pc = "idle"
  /\ changes < MaxChanges
  /\ manage' = [manage EXCEPT ![m] = [Rest EXCEPT !.pc = pc, !.entity = e, !.user = u,
                                                  !.level = level]]
  /\ changes' = changes + 1
  /\ quiet' = 0
  /\ UNCHANGED <<cache, gate, request, held>>

(* RemoveShare: an update of no row still clears the cache, but answers    *)
(* 404, and the browser then sends no event.                               *)
RemoveRow(m, e, u) ==
  /\ e = 0 => exists
  /\ Begin(m, "drop", e, u, IF rows[e][u] # "None" THEN "Revoked" ELSE "None")
  /\ rows' = [rows EXCEPT ![e][u] = "None"]
  /\ UNCHANGED <<default, exists>>
RemoveShare(m, u) == RemoveRow(m, 0, u)
RemoveFolderShare(m, f, u) == RemoveRow(m, f, u)

(* UpdateShareAccess: an upsert, so it also grants an override.            *)
UpsertRow(m, e, u, level) ==
  /\ e = 0 => exists
  /\ Begin(m, "set", e, u, level)
  /\ rows' = [rows EXCEPT ![e][u] = level]
  /\ UNCHANGED <<default, exists>>
UpdateShareAccess(m, u, level) == UpsertRow(m, 0, u, level)
UpdateFolderShareAccess(m, f, u, level) == UpsertRow(m, f, u, level)

(* UpdateCodeAccess: nobody's level changes, every entry is dropped.       *)
SetDefault(m, e, level) ==
  /\ e = 0 => exists
  /\ Begin(m, "keys", e, "None", "None")
  /\ default' = [default EXCEPT ![e] = level]
  /\ UNCHANGED <<rows, exists>>
UpdateCodeAccess(m, level) == SetDefault(m, 0, level)
UpdateFolderCodeAccess(m, f, level) == SetDefault(m, f, level)

DeleteDocument(m) ==
  /\ exists
  /\ Begin(m, "keys", 0, "None", "None")
  /\ rows' = [rows EXCEPT ![0] = [u \in Users |-> "None"]]
  /\ exists' = FALSE
  /\ UNCHANGED default

Managed(m, pc) == manage[m].pc = pc
Continue(m, r) == manage' = [manage EXCEPT ![m] = r] /\ quiet' = 0

InvalidateAccess(m) ==
  LET r == manage[m]
  IN /\ r.pc = "drop"
     /\ cache' = [cache EXCEPT ![r.entity][r.user] = Absent]
     /\ Continue(m, IF r.level = "None" THEN Rest ELSE [r EXCEPT !.pc = "emit"])
     /\ UNCHANGED <<rows, default, exists, gate, request, held, changes>>

SetAccess(m) ==
  LET r == manage[m]
  IN /\ r.pc = "set"
     /\ Store(r.entity, r.user, r.level)
     /\ Continue(m, [r EXCEPT !.pc = "emit"])
     /\ UNCHANGED <<rows, default, exists, gate, request, held, changes>>

(* deleteByPattern: SCAN collects the keys there are, DEL removes those.   *)
ScanKeys(m) ==
  LET r == manage[m]
  IN /\ r.pc = "keys"
     /\ Continue(m, [r EXCEPT !.pc = "del", !.keys = {u \in Users : Present(cache[r.entity][u])}])
     /\ UNCHANGED <<rows, default, exists, cache, gate, request, held, changes>>

DeleteKeys(m) ==
  LET r == manage[m]
  IN /\ r.pc = "del"
     /\ cache' = [cache EXCEPT ![r.entity] =
                    [u \in Users |-> IF u \in r.keys THEN Absent ELSE cache[r.entity][u]]]
     /\ Continue(m, Rest)
     /\ UNCHANGED <<rows, default, exists, gate, request, held, changes>>

DeleteByPattern(m) == ScanKeys(m) \/ DeleteKeys(m)

(* updateCollaboratorPermission sends nothing while the manager's own      *)
(* connection is down.                                                     *)
EmitNothing(m) ==
  /\ Managed(m, "emit")
  /\ Continue(m, Rest)
  /\ UNCHANGED <<rows, default, exists, cache, gate, request, held, changes>>

(* The hub writes the level through, Revoked as a level of its own; only   *)
(* an event about a document goes on to the sockets.                       *)
WriteThrough(m) ==
  LET r == manage[m]
  IN /\ r.pc = "emit"
     /\ Store(r.entity, r.user, r.level)
     /\ Continue(m, IF r.entity = 0 THEN [r EXCEPT !.pc = "apply"] ELSE Rest)
     /\ UNCHANGED <<rows, default, exists, gate, request, held, changes>>

UpdateUserDocumentAccess(m) ==
  LET r == manage[m]
  IN /\ r.pc = "apply"
     /\ held' = [held EXCEPT ![r.user] = r.level]
     /\ Continue(m, Rest)
     /\ UNCHANGED <<rows, default, exists, cache, gate, request, changes>>

UpdateCollaboratorPermission(m) ==
  WriteThrough(m) \/ UpdateUserDocumentAccess(m)

(***************************************************************************)
(* Time.  An entry whose life is over goes before the next tick, and no    *)
(* request and no change outlives two of them.                             *)
(***************************************************************************)
ExpireEntry(e, u) ==
  /\ Present(cache[e][u]) /\ cache[e][u].age = TTL
  /\ cache' = [cache EXCEPT ![e][u] = Absent]
  /\ UNCHANGED <<rows, default, exists, gate, request, manage, held, changes, quiet>>

ExpireGate(u) ==
  /\ Present(gate[u]) /\ gate[u].age = GatewayTTL
  /\ gate' = [gate EXCEPT ![u] = Absent]
  /\ UNCHANGED <<rows, default, exists, cache, request, manage, held, changes, quiet>>

Older(c) == IF Present(c) THEN [c EXCEPT !.age = @ + 1] ELSE c
Aged(r) == IF r.pc = "idle" THEN r ELSE [r EXCEPT !.old = TRUE]

Tick ==
  /\ \A e \in Entities, u \in Users : Present(cache[e][u]) => cache[e][u].age < TTL
  /\ \A u \in Users : Present(gate[u]) => gate[u].age < GatewayTTL
  /\ \A l \in Lanes, u \in Users : ~request[l][u].old
  /\ \A m \in Managers : ~manage[m].old
  /\ cache' = [e \in Entities |-> [u \in Users |-> Older(cache[e][u])]]
  /\ gate' = [u \in Users |-> Older(gate[u])]
  /\ request' = [l \in Lanes |-> [u \in Users |-> Aged(request[l][u])]]
  /\ manage' = [m \in Managers |-> Aged(manage[m])]
  /\ quiet' = IF quiet < Settled THEN quiet + 1 ELSE quiet
  /\ UNCHANGED <<rows, default, exists, held, changes>>

LookupStep(u) ==
  \/ DocumentAccess(u) \/ JoinDocument(u) \/ VerifyWorkspaceAccess(u)
  \/ \E f \in Folders : FolderAccess(u, f) \/ AddFolderShare(u, f)
  \/ \E l \in Lanes : Look(l, u) \/ ReadRaw(l, u) \/ ReadShare(l, u) \/ Fill(l, u)
  \/ ReplyRest(u) \/ ReplyJoin(u) \/ ReplyGate(u)
  \/ AddUserToDocument(u) \/ AddShare(u)

ManageStep(m) ==
  \/ \E u \in Users : RemoveShare(m, u)
  \/ \E u \in Users, level \in Levels : UpdateShareAccess(m, u, level)
  \/ \E f \in Folders, u \in Users : RemoveFolderShare(m, f, u)
  \/ \E f \in Folders, u \in Users, level \in Levels : UpdateFolderShareAccess(m, f, u, level)
  \/ \E level \in Levels : UpdateCodeAccess(m, level)
  \/ \E f \in Folders, level \in Levels : UpdateFolderCodeAccess(m, f, level)
  \/ DeleteDocument(m)
  \/ InvalidateAccess(m) \/ SetAccess(m) \/ DeleteByPattern(m)
  \/ EmitNothing(m) \/ UpdateCollaboratorPermission(m)

Next ==
  \/ \E u \in Users : LookupStep(u)
  \/ \E m \in Managers : ManageStep(m)
  \/ \E e \in Entities, u \in Users : ExpireEntry(e, u)
  \/ \E u \in Users : ExpireGate(u)
  \/ Tick

Spec == Init /\ [][Next]_vars
-----------------------------------------------------------------------------
Entry == [level : Cached, age : 0 .. TTL] \cup {Absent}
GateEntry == [level : Cached, age : 0 .. GatewayTTL] \cup {Absent}
Requests == [pc : {"idle", "look", "raw", "scan", "fill", "reply", "member", "insert"},
             entity : Entities, at : Entities, level : Cached,
             old : BOOLEAN]
Changes == [pc : {"idle", "drop", "set", "keys", "del", "emit", "apply"},
            entity : Entities, user : Users \cup {"None"}, level : Cached,
            keys : SUBSET Users, old : BOOLEAN]

(* Every variable has its type.                                            *)
TypeOK ==
  /\ rows \in [Entities -> [Users -> Answers]]
  /\ default \in [Entities -> Levels]
  /\ exists \in BOOLEAN
  /\ cache \in [Entities -> [Users -> Entry]]
  /\ gate \in [Users -> GateEntry]
  /\ request \in [Lanes -> [Users -> Requests]]
  /\ manage \in [Managers -> Changes]
  /\ held \in [Users -> Cached]
  /\ changes \in 0 .. MaxChanges
  /\ quiet \in 0 .. Settled

(* However lookups, fills, copies, invalidations and pushed levels         *)
(* interleave, an entry of the shared cache that disagrees with the rows   *)
(* is gone TTL and two requests after the last change: nothing ever        *)
(* renews a stale level for another life.                                  *)
CacheSettles ==
  quiet > TTL + 2 =>
    \A e \in Entities, u \in Users :
      Present(cache[e][u]) => cache[e][u].level = Effective(e, u)

(* The gateway, which caches what the cache answered, lags by its own life *)
(* as well; it never sees a copy, the hub makes those of documents only.   *)
GatewaySettles ==
  quiet > TTL + GatewayTTL + 1 =>
    \A u \in Users : Present(gate[u]) => gate[u].level = Effective(Depth, u)

(* A socket keeps its level for as long as it lives, but whoever is let in *)
(* once the sharing has settled is let in with the level the rows say.     *)
JoinsSettle ==
  quiet > TTL + 3 =>
    \A u \in Users : request["join"][u].pc = "member" =>
                       request["join"][u].level = Effective(0, u)

(* The levels in the gateway and at the hub follow the rows in that time.  *)
LevelsSettle == GatewaySettles /\ JoinsSettle
=============================================================================
