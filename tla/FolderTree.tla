------------------------------ MODULE FolderTree -------------------------------
(***************************************************************************)
(* The folders of the API and the documents in them: the rows of "Folders" *)
(* and "Documents" that point to a folder, and the requests that create,   *)
(* move and delete them.                                                   *)
(*                                                                         *)
(*   livesync-api  services/folder_service.go, document_service.go,        *)
(*                 quota_guard.go                                          *)
(*                                                                         *)
(* No request runs in a transaction and no column is a foreign key, so one *)
(* request is a sequence of queries with those of other requests between   *)
(* them.  The requests are those of users who may edit what exists: an     *)
(* access check asks whether the row is there, or the cache says Edit.     *)
(***************************************************************************)
EXTENDS Integers, Sequences, FiniteSets

CONSTANTS
  Folders,            \* the ids of folders, those not yet in use included
  Documents,          \* the ids of documents
  Requests,           \* the requests that may run at the same time
  Null,               \* no parent folder
  Unborn,             \* an id not yet in use
  Deleted,            \* the row is gone
  MaxFolderDepth,     \* how deep a folder may be that gets a subfolder (4)
  MaxFilesPerProject, \* files below one root folder (30)
  MaxMoves,           \* bound: MoveFolder requests running at the same time
  MaxRequests         \* bound: requests in a behaviour

ASSUME TreeAssumption ==
  /\ {MaxFolderDepth, MaxFilesPerProject, MaxMoves, MaxRequests} \subseteq Nat
  /\ IsFiniteSet(Folders) /\ IsFiniteSet(Documents) /\ IsFiniteSet(Requests)
  /\ Folders \cap Documents = {}
  /\ {Null, Unborn, Deleted} \cap (Folders \union Documents) = {}
  /\ Null # Unborn /\ Unborn # Deleted /\ Null # Deleted

VARIABLES
  parent,    \* "Folders"."ParentFolderId"
  location,  \* "Documents"."FolderId"
  cached,    \* the folders f with livesync:acl:ws:{f} saying Edit
  req,       \* what each request has read so far, and where it is
  misplaced, \* history variable: what was put into a folder that was gone, or
             \* while a deletion ran
  issued     \* counts requests, for their bound

vars == <<parent, location, cached, req, misplaced, issued>>

IsFolder(f)   == f \in Folders /\ parent[f] \notin {Unborn, Deleted}
IsDocument(d) == location[d] \notin {Unborn, Deleted}
Subfolders(f) == {g \in Folders : parent[g] = f}
Known         == {f \in Folders : parent[f] # Unborn}  \* the ids a client may name

\* what: the row to insert, move or delete; to: the folder it is to be in; found,
\* todo: the subfolders collected, and those still to be looked into; stack: the
\* recursion of a deletion, the innermost call first; root: the project's folder.
Idle == [pc |-> "idle", what |-> Null, to |-> Null, found |-> {}, todo |-> {}, stack |-> <<>>,
         root |-> Null]
InMove   == {"move access", "collect", "move target access", "move depth", "move update"}
InDelete == {"delete documents", "find subfolders", "delete next", "invalidate"}
Moving   == {r \in Requests : req[r].pc \in InMove}
Deleting == {r \in Requests : req[r].pc \in InDelete}

Start(r, state) ==
  /\ req[r].pc = "idle"
  /\ issued < MaxRequests
  /\ issued' = issued + 1
  /\ req' = [req EXCEPT ![r] = state]
Goto(r, pc) ==
  req' = [req EXCEPT ![r] = IF pc = "idle" THEN Idle ELSE [@ EXCEPT !.pc = pc]]

\* A row that another request is about to insert has an id of its own.
Fresh(id) == \A r \in Requests : req[r].what # id

\* x is written into folder f.
Placed(x, f) ==
  misplaced' = IF f # Null /\ (~IsFolder(f) \/ Deleting # {}) THEN misplaced \union {x}
                                                              ELSE misplaced \ {x}

\* Where n steps up from folder f lead; past a missing row, nowhere.
Ancestor(f, n) ==
  LET up[k \in 0..n] == IF k = 0 THEN f
                        ELSE IF up[k - 1] \in Folders THEN parent[up[k - 1]] ELSE Null
  IN  up[n]

\* GetFolderDepth: the rows on the way up, 20 at most; a circle goes on to the 20th.
Depth(f) == Cardinality({n \in 0..19 : IsFolder(Ancestor(f, n))})

\* GetProjectRootFolderId: the end of the way up if ten rows reach it, else f.
ProjectRoot(f) ==
  LET ends == {n \in 0..9 : IsFolder(Ancestor(f, n)) /\ parent[Ancestor(f, n)] = Null}
  IN  IF ends = {} THEN f ELSE Ancestor(f, CHOOSE n \in ends : TRUE)

\* The documents in folder f, whose row is there, and in the folders below it.
InProject(g, f) == IsFolder(f) /\ \E n \in 0..Cardinality(Folders) : Ancestor(g, n) = f
FilesIn(f) == {d \in Documents : IsFolder(location[d]) /\ InProject(location[d], f)}

\* However creations, deletions and one move interleave, no folder gets below
\* itself: no set of folders has all its parents in it.  Every recursive walk up or
\* down the folders relies on it (folder_service.go:395-402, 339-361, 503-526).
Forest == \A S \in SUBSET Folders : S # {} => \E f \in S : parent[f] \notin S

\* The folders, documents and cached levels that earlier requests have left.
Init ==
  /\ parent \in [Folders -> Folders \union {Null, Unborn}]
  /\ Forest
  /\ \A f \in Folders : parent[f] \in Folders => IsFolder(parent[f])
  /\ \A f \in Folders : Depth(f) <= MaxFolderDepth
  /\ location \in [Documents -> Folders \union {Null, Unborn}]
  /\ \A d \in Documents : location[d] \in Folders => IsFolder(location[d])
  /\ cached \in SUBSET {f \in Folders : IsFolder(f)}
  /\ req = [r \in Requests |-> Idle]
  /\ misplaced = {}
  /\ issued = 0

-----------------------------------------------------------------------------
(***************************************************************************)
(* Access checks.  What a folder's level in the cache is stays there for   *)
(* its 15 minutes; only the folder that a request deletes, not one below   *)
(* it, is taken out.                                                       *)
(***************************************************************************)

\* GetAccessLevel: the cache, or the row, whose level is then cached.
GetAccessLevel(r, f, next) ==
  /\ IF f \in cached \/ IsFolder(f) THEN Goto(r, next) ELSE Goto(r, "idle")
  /\ cached' = IF IsFolder(f) THEN cached \union {f} ELSE cached
  /\ UNCHANGED <<parent, location, misplaced, issued>>

Expire(f) ==
  /\ f \in cached
  /\ cached' = cached \ {f}
  /\ UNCHANGED <<parent, location, req, misplaced, issued>>

-----------------------------------------------------------------------------
(***************************************************************************)
(* FolderService.Create                                                    *)
(***************************************************************************)

StartCreate(r, f, p) ==
  /\ parent[f] = Unborn /\ Fresh(f)
  /\ Start(r, [Idle EXCEPT !.pc = IF p = Null THEN "insert" ELSE "create access",
                           !.what = f, !.to = p])
  /\ UNCHANGED <<parent, location, cached, misplaced>>

CreateAccess(r) == req[r].pc = "create access" /\ GetAccessLevel(r, req[r].to, "create depth")

CreateDepth(r) ==
  /\ req[r].pc = "create depth"
  /\ IF Depth(req[r].to) >= MaxFolderDepth THEN Goto(r, "idle") ELSE Goto(r, "insert")
  /\ UNCHANGED <<parent, location, cached, misplaced, issued>>

InsertFolder(r) ==
  /\ req[r].pc = "insert"
  /\ parent' = [parent EXCEPT ![req[r].what] = req[r].to]
  /\ Placed(req[r].what, req[r].to)
  /\ Goto(r, "idle")
  /\ UNCHANGED <<location, cached, issued>>

-----------------------------------------------------------------------------
(***************************************************************************)
(* FolderService.MoveFolder                                                *)
(***************************************************************************)

StartMove(r, f, t) ==
  /\ f \in Known
  /\ Cardinality(Moving) < MaxMoves
  /\ Start(r, [Idle EXCEPT !.pc = "move access", !.what = f, !.to = t, !.todo = {f}])
  /\ UNCHANGED <<parent, location, cached, misplaced>>

\* A folder is not moved into itself; it may always become a root folder.
MoveAccess(r) ==
  /\ req[r].pc = "move access"
  /\ GetAccessLevel(r, req[r].what,
       IF req[r].to = req[r].what THEN "idle"
       ELSE IF req[r].to = Null THEN "move update" ELSE "collect")

\* Slip: the subfolders of the folder, but not those below them.
CollectChildren(r) ==
  /\ req[r].pc = "collect" /\ req[r].todo # {}
  /\ \E f \in req[r].todo :
       req' = [req EXCEPT ![r].found = @ \union Subfolders(f), ![r].todo = @ \ {f}]
  /\ UNCHANGED <<parent, location, cached, misplaced, issued>>

\* collectSubfolderIds: one query for each folder on the way down.
CollectSubfolderIds(r) ==
  /\ req[r].pc = "collect" /\ req[r].todo # {}
  /\ \E f \in req[r].todo :
       req' = [req EXCEPT ![r].found = @ \union Subfolders(f),
                          ![r].todo = (@ \ {f}) \union Subfolders(f)]
  /\ UNCHANGED <<parent, location, cached, misplaced, issued>>

Collected(r) ==
  /\ req[r].pc = "collect" /\ req[r].todo = {}
  /\ Goto(r, IF req[r].to \in req[r].found THEN "idle" ELSE "move target access")
  /\ UNCHANGED <<parent, location, cached, misplaced, issued>>

MoveTargetAccess(r) ==
  req[r].pc = "move target access" /\ GetAccessLevel(r, req[r].to, "move depth")

\* How deep the folder itself goes is not asked.
MoveDepth(r) ==
  /\ req[r].pc = "move depth"
  /\ Goto(r, IF Depth(req[r].to) >= MaxFolderDepth THEN "idle" ELSE "move update")
  /\ UNCHANGED <<parent, location, cached, misplaced, issued>>

MoveUpdate(r) ==
  /\ req[r].pc = "move update"
  /\ IF IsFolder(req[r].what)
       THEN /\ parent' = [parent EXCEPT ![req[r].what] = req[r].to]
            /\ Placed(req[r].what, req[r].to)
       ELSE UNCHANGED <<parent, misplaced>>
  /\ Goto(r, "idle")
  /\ UNCHANGED <<location, cached, issued>>

-----------------------------------------------------------------------------
(***************************************************************************)
(* FolderService.Delete and deleteContentsRecursively                      *)
(***************************************************************************)

Call(f) == [folder |-> f, subIds |-> {}]
Top(r)  == Head(req[r].stack)

\* A DELETE of rows that need not be there.
DeleteFrom(ids) ==
  parent' = [f \in Folders |-> IF f \in ids /\ IsFolder(f) THEN Deleted ELSE parent[f]]

StartDelete(r, f) ==
  /\ IsFolder(f)
  /\ Start(r, [Idle EXCEPT !.pc = "delete documents", !.what = f, !.stack = <<Call(f)>>])
  /\ UNCHANGED <<parent, location, cached, misplaced>>

DeleteDocuments(r) ==
  /\ req[r].pc = "delete documents"
  /\ location' = [d \in Documents |-> IF location[d] = Top(r).folder THEN Deleted ELSE location[d]]
  /\ Goto(r, "find subfolders")
  /\ UNCHANGED <<parent, cached, misplaced, issued>>

FindSubfolders(r) ==
  /\ req[r].pc = "find subfolders"
  /\ req' = [req EXCEPT ![r].pc = "delete next", ![r].stack[1].subIds = Subfolders(Top(r).folder)]
  /\ UNCHANGED <<parent, location, cached, misplaced, issued>>

\* Slip: the rows of the subfolders go, what is below them stays.
DescendNotAtAll(r) ==
  /\ req[r].pc = "delete next"
  /\ Top(r).subIds # {}
  /\ DeleteFrom(Top(r).subIds)
  /\ req' = [req EXCEPT ![r].stack[1].subIds = {}]
  /\ UNCHANGED <<location, cached, misplaced, issued>>

\* One call for each subfolder found, wherever it is by now.
Descend(r) ==
  /\ req[r].pc = "delete next"
  /\ \E f \in Top(r).subIds :
       req' = [req EXCEPT ![r].pc = "delete documents",
                          ![r].stack = <<Call(f), [Top(r) EXCEPT !.subIds = @ \ {f}]>>
                                         \o Tail(req[r].stack)]
  /\ UNCHANGED <<parent, location, cached, misplaced, issued>>

\* Slip: the last call is taken for one more.
PopTooFar(r) ==
  /\ req[r].pc = "delete next" /\ Top(r).subIds = {}
  /\ DeleteFrom({Top(r).folder})
  /\ IF Len(req[r].stack) = 0
       THEN Goto(r, "invalidate")
       ELSE req' = [req EXCEPT ![r].stack = Tail(@)]
  /\ UNCHANGED <<location, cached, misplaced, issued>>

\* The call returns: the row of its folder goes after all that was below it.
DeleteRow(r) ==
  /\ req[r].pc = "delete next" /\ Top(r).subIds = {}
  /\ DeleteFrom({Top(r).folder})
  /\ IF Len(req[r].stack) = 1
       THEN Goto(r, "invalidate")
       ELSE req' = [req EXCEPT ![r].stack = Tail(@)]
  /\ UNCHANGED <<location, cached, misplaced, issued>>

InvalidateAllFolderAccess(r) ==
  /\ req[r].pc = "invalidate"
  /\ cached' = cached \ {req[r].what}
  /\ Goto(r, "idle")
  /\ UNCHANGED <<parent, location, misplaced, issued>>

-----------------------------------------------------------------------------
(***************************************************************************)
(* DocumentService.Create and Delete, FolderService.MoveDocument           *)
(***************************************************************************)

StartCreateDocument(r, d, f) ==
  /\ location[d] = Unborn /\ Fresh(d)
  /\ Start(r, [Idle EXCEPT !.pc = "document access", !.what = d, !.to = f])
  /\ UNCHANGED <<parent, location, cached, misplaced>>

\* folderAccess looks at the rows only.
FolderAccess(r) ==
  /\ req[r].pc = "document access"
  /\ Goto(r, IF IsFolder(req[r].to) THEN "document root" ELSE "idle")
  /\ UNCHANGED <<parent, location, cached, misplaced, issued>>

GetProjectRootFolderId(r) ==
  /\ req[r].pc = "document root"
  /\ req' = [req EXCEPT ![r].pc = "document quota", ![r].root = ProjectRoot(req[r].to)]
  /\ UNCHANGED <<parent, location, cached, misplaced, issued>>

\* Below a folder in a circle the query finds rows without end.
ValidateProjectQuotas(r) ==
  /\ req[r].pc = "document quota"
  /\ \A n \in 1..Cardinality(Folders) : Ancestor(req[r].root, n) # req[r].root
  /\ Goto(r, IF Cardinality(FilesIn(req[r].root)) + 1 > MaxFilesPerProject THEN "idle"
                                                                          ELSE "document insert")
  /\ UNCHANGED <<parent, location, cached, misplaced, issued>>

InsertDocument(r) ==
  /\ req[r].pc = "document insert"
  /\ location' = [location EXCEPT ![req[r].what] = req[r].to]
  /\ Placed(req[r].what, req[r].to)
  /\ Goto(r, "idle")
  /\ UNCHANGED <<parent, cached, issued>>

\* A single row: nothing comes between its check and its deletion that matters.
DeleteDocument(d) ==
  /\ IsDocument(d)
  /\ issued < MaxRequests /\ issued' = issued + 1
  /\ location' = [location EXCEPT ![d] = Deleted]
  /\ UNCHANGED <<parent, cached, req, misplaced>>

StartMoveDocument(r, d, t) ==
  /\ IsDocument(d)
  /\ Start(r, [Idle EXCEPT !.pc = IF t = Null THEN "document update" ELSE "document target access",
                           !.what = d, !.to = t])
  /\ UNCHANGED <<parent, location, cached, misplaced>>

DocumentTargetAccess(r) ==
  req[r].pc = "document target access" /\ GetAccessLevel(r, req[r].to, "document update")

\* Neither the quotas of the project it comes to are asked, nor is the folder's row.
UpdateDocument(r) ==
  /\ req[r].pc = "document update"
  /\ IF IsDocument(req[r].what)
       THEN /\ location' = [location EXCEPT ![req[r].what] = req[r].to]
            /\ Placed(req[r].what, req[r].to)
       ELSE UNCHANGED <<location, misplaced>>
  /\ Goto(r, "idle")
  /\ UNCHANGED <<parent, cached, issued>>

-----------------------------------------------------------------------------

CreateStep(r) == CreateAccess(r) \/ CreateDepth(r) \/ InsertFolder(r)

MoveStep(r) ==
  \/ MoveAccess(r) \/ CollectSubfolderIds(r) \/ Collected(r) \/ MoveTargetAccess(r)
  \/ MoveDepth(r) \/ MoveUpdate(r)

DeleteStep(r) ==
  \/ DeleteDocuments(r) \/ FindSubfolders(r) \/ Descend(r) \/ DeleteRow(r)
  \/ InvalidateAllFolderAccess(r)

DocumentStep(r) ==
  \/ FolderAccess(r) \/ GetProjectRootFolderId(r) \/ ValidateProjectQuotas(r) \/ InsertDocument(r)
  \/ DocumentTargetAccess(r) \/ UpdateDocument(r)

Step(r) == CreateStep(r) \/ MoveStep(r) \/ DeleteStep(r) \/ DocumentStep(r)

Next ==
  \/ \E r \in Requests :
       \/ \E f \in Folders, p \in Known \union {Null} : StartCreate(r, f, p) \/ StartMove(r, f, p)
       \/ \E f \in Folders : StartDelete(r, f)
       \/ \E d \in Documents :
            \/ \E f \in Known : StartCreateDocument(r, d, f)
            \/ \E t \in Known \union {Null} : StartMoveDocument(r, d, t)
       \/ Step(r)
  \/ \E f \in Folders : Expire(f)
  \/ \E d \in Documents : DeleteDocument(d)

Spec == Init /\ [][Next]_vars

-----------------------------------------------------------------------------
(***************************************************************************)
(* Properties, beside Forest above                                         *)
(***************************************************************************)

Steps == {"idle", "create access", "create depth", "insert", "document access", "document root",
          "document quota", "document insert", "document target access", "document update"}
           \union InMove \union InDelete

TypeOK ==
  /\ parent \in [Folders -> Folders \union {Null, Unborn, Deleted}]
  /\ location \in [Documents -> Folders \union {Null, Unborn, Deleted}]
  /\ cached \subseteq Folders
  /\ \A r \in Requests :
       /\ req[r].pc \in Steps
       /\ req[r].what \in Folders \union Documents \union {Null}
       /\ req[r].to \in Folders \union {Null} /\ req[r].root \in Folders \union {Null}
       /\ req[r].found \subseteq Folders /\ req[r].todo \subseteq Folders
       /\ req[r].stack \in Seq([folder : Folders, subIds : SUBSET Folders])
       /\ req[r].pc \in InDelete => req[r].stack # <<>>
  /\ misplaced \subseteq Folders \union Documents

\* A deletion strands nothing that was in place when it began: what is left in a
\* folder whose row is gone was put there while a deletion ran, or later, through
\* a level still in the cache (folder_service.go:339-361, 310-337).
OnlyLatecomersStranded ==
  /\ \A f \in Folders : parent[f] \in Folders /\ ~IsFolder(parent[f]) =>
       f \in misplaced
  /\ \A d \in Documents : location[d] \in Folders /\ ~IsFolder(location[d]) => d \in misplaced
=============================================================================
