------------------------------ MODULE ShareDialog ------------------------------
(***************************************************************************)
(* The share dialogs of the owner's browser (dashboard and workspace page) *)
(* and the list they are opened from.  A row of the API is a share code,   *)
(* the level the code gives, and the level of the one other member.  What  *)
(* the browser holds of a row is a JavaScript object: the list and a       *)
(* dialog may hold the same one, handlers keep the one they started with   *)
(* across an await, and one handler writes into it.  A request is a job;   *)
(* the user may go on while it runs, and close the dialog.  Changes made   *)
(* in other browsers are left out.                                         *)
(***************************************************************************)
EXTENDS Naturals, Sequences, FiniteSets

CONSTANTS SharedFolders, SharedDocs, NoObject,
          Existing,  \* the sets of items there may be to begin with
          MaxShareClicks, MaxShareJobs, MaxShareFailures  \* bounds

VARIABLES
  rows,      \* the API's rows
  issuedFor, \* issuedFor[c]: what share code c was generated for
  objects,   \* the objects the browser has made, by their names
  made,      \* the number of steps that made some
  entry,     \* myFolders, myDocuments: the object of each item, or NoObject
  dialog,    \* the dialog of each kind of item, see Closed
  sharing,   \* the jobs under way
  behind,    \* did jobs overlap, or one fail, since the list was loaded alone
  unlisted,  \* items whose level was changed on a copy of the list's object
  shareClicks, shareFailures  \* bounds

shareVars == <<rows, issuedFor, objects, made, entry, dialog, sharing, behind, unlisted,
               shareClicks, shareFailures>>
apiVars == <<rows, issuedFor>>
heapVars == <<objects, made, entry, unlisted>>

Shareable == SharedFolders \cup SharedDocs

(* The ids of folders and of documents are UUIDs of two tables; null is no   *)
(* object; there is something to share.                                      *)
ASSUME ShareAssumption ==
  /\ SharedFolders \cap SharedDocs = {} /\ Shareable # {}
  /\ NoObject \notin Shareable \X Nat \X Nat
  /\ Existing \subseteq SUBSET Shareable

Kind(e) == IF e \in SharedFolders THEN "folder" ELSE "document"
ShareLevels == {"View", "Edit"}
PeerLevels == ShareLevels \cup {"None"}
NoCode == 0
Row == [exists : BOOLEAN, code : Nat, level : ShareLevels, peer : PeerLevels]

(* A dialog: is it open; selectedFolderForShare or selectedDocForShare; the  *)
(* code it shows; the level it shows, for documents a signal that is set     *)
(* when the dialog opens; was the level changed since, or was the object     *)
(* changed without the code beside it.                                       *)
Closed == [open |-> FALSE, object |-> NoObject, code |-> NoCode, level |-> "View",
           dated |-> FALSE, mixed |-> FALSE]

(* An object is named by its item, the step that made it, and which of the   *)
(* objects of that step it is.                                               *)
Name(e, part) == <<e, made + 1, part>>
Object(e, row) == [item |-> e, code |-> row.code, level |-> row.level, peer |-> row.peer]
WithObjects(heap, names, value(_)) ==
  [o \in DOMAIN heap \cup names |-> IF o \in names THEN value(o) ELSE heap[o]]

ShareInit ==
  /\ \E present \in Existing :
       /\ rows = [e \in Shareable |-> [exists |-> e \in present, code |-> NoCode,
                                       level |-> "View", peer |-> "View"]]
       /\ objects = [o \in {<<e, 0, 1>> : e \in present} |-> Object(o[1], rows[o[1]])]
       /\ entry = [e \in Shareable |-> IF e \in present THEN <<e, 0, 1>> ELSE NoObject]
  /\ issuedFor = <<>> /\ made = 0
  /\ dialog = [k \in {"folder", "document"} |-> Closed]
  /\ sharing = {} /\ behind = FALSE /\ unlisted = {}
  /\ shareClicks = 0 /\ shareFailures = 0

-----------------------------------------------------------------------------
(* MaxShareClicks bounds the clicks and the failures together.               *)
Within == shareClicks + shareFailures < MaxShareClicks

(* A click of the user's while a job runs makes what is shown uncertain.     *)
ShareClick ==
  /\ Within /\ shareClicks' = shareClicks + 1
  /\ behind' = (behind \/ sharing # {})
  /\ UNCHANGED shareFailures

(* A handler up to its first await.                                          *)
Starts(does, e, o, to, step) ==
  /\ ShareClick /\ Cardinality(sharing) < MaxShareJobs
  /\ sharing' = {[j EXCEPT !.alone = FALSE] : j \in sharing} \cup
       {[nr |-> shareClicks + 1, does |-> does, item |-> e, object |-> o, to |-> to,
         step |-> step, answer |-> rows, alone |-> sharing = {}]}
  /\ UNCHANGED <<apiVars, heapVars>>

NoneOpen == \A k \in DOMAIN dialog : ~dialog[k].open

(* openShareFolderModal: an item that has a code is shown at once, for the   *)
(* others one is generated first.                                            *)
OpenShareFolderModal(e) ==
  LET o == objects[entry[e]] IN
  /\ NoneOpen /\ e \in SharedFolders /\ entry[e] # NoObject
  /\ IF o.code # NoCode
     THEN /\ ShareClick /\ UNCHANGED <<apiVars, heapVars, sharing>>
          /\ dialog' = [dialog EXCEPT !["folder"] =
               [Closed EXCEPT !.open = TRUE, !.object = entry[e], !.code = o.code]]
     ELSE Starts("open", e, entry[e], "View", "sent") /\ UNCHANGED dialog

(* openShareModal: the object is selected before the code is there.          *)
OpenShareModal(e) ==
  LET o == objects[entry[e]]
      selected == [dialog["document"] EXCEPT !.object = entry[e], !.level = o.level,
                                             !.dated = (e \in unlisted)]
  IN
  /\ NoneOpen /\ e \in SharedDocs /\ entry[e] # NoObject
  /\ IF o.code # NoCode
     THEN /\ ShareClick /\ UNCHANGED <<apiVars, heapVars, sharing>>
          /\ dialog' = [dialog EXCEPT !["document"] =
               [selected EXCEPT !.open = TRUE, !.code = o.code, !.mixed = FALSE]]
     ELSE /\ Starts("open", e, entry[e], "View", "sent")
          /\ dialog' = [dialog EXCEPT !["document"] = [selected EXCEPT !.mixed = TRUE]]

(* closeShareModal; the folder's dialog only disappears.                     *)
CloseShareModal(k) ==
  /\ dialog[k].open
  /\ dialog' = [dialog EXCEPT ![k] = IF k = "document" THEN Closed
                                     ELSE [@ EXCEPT !.open = FALSE]]
  /\ UNCHANGED <<apiVars, heapVars, sharing, behind, shareClicks, shareFailures>>

(* The controls of an open dialog act on the object selected now: regenerate *)
(* the code, change the level it gives, change or remove the other member,   *)
(* if there still is one.                                                    *)
InDialog(k, does, to) ==
  /\ dialog[k].open /\ dialog[k].object # NoObject
  /\ does = "peer" => objects[dialog[k].object].peer # "None"
  /\ Starts(does, objects[dialog[k].object].item, dialog[k].object, to, "sent")
  /\ UNCHANGED dialog

(* createFolder, createQuickStarter, deleteProject, and the loads nobody     *)
(* asked for, which are given an item as every job is.  An item that is made *)
(* is one no other job knows.                                                *)
CreateProject(e) ==
  /\ NoneOpen /\ ~rows[e].exists /\ \A j \in sharing : j.item = e => j.does = "load"
  /\ Starts("create", e, NoObject, "View", "sent") /\ UNCHANGED dialog

DeleteProject(e) ==
  /\ NoneOpen /\ entry[e] # NoObject
  /\ Starts("delete", e, NoObject, "View", "sent") /\ UNCHANGED dialog

LoadAgain ==
  /\ Starts("load", CHOOSE e \in Shareable : TRUE, NoObject, "View", "load")
  /\ UNCHANGED dialog

-----------------------------------------------------------------------------
Becomes(j, changed) == sharing' = (sharing \ {j}) \cup {changed}

(* What the request of a job changes in the API's row; generate-share-code   *)
(* always makes a new code.                                                  *)
Requested(row, j) ==
  CASE j.does \in {"open", "code"} -> [row EXCEPT !.code = Len(issuedFor) + 1]
    [] j.does = "level" -> [row EXCEPT !.level = j.to]
    [] j.does = "peer" -> [row EXCEPT !.peer = j.to]
    [] OTHER -> [row EXCEPT !.exists = (j.does = "create")]

(* The API does what it is asked for, or reads the rows for a load.          *)
Serve(j) ==
  LET e == j.item IN
  /\ \/ /\ j.step = "sent" /\ rows[e].exists = (j.does # "create")
        /\ rows' = [rows EXCEPT ![e] = Requested(@, j)]
        /\ issuedFor' = IF j.does \in {"open", "code"} THEN Append(issuedFor, e) ELSE issuedFor
        /\ Becomes(j, [j EXCEPT !.step = "done", !.answer = rows'])
     \/ /\ j.step = "load" /\ UNCHANGED apiVars
        /\ Becomes(j, [j EXCEPT !.step = "loaded", !.answer = rows])
  /\ UNCHANGED <<heapVars, dialog, behind, shareClicks, shareFailures>>

(* What a handler leaves selected, with no code set beside it.               *)
Selected(d, o, e) ==
  [d EXCEPT !.object = o,
            !.mixed = (@ \/ d.object = NoObject \/ objects[d.object].item # e)]

(* What it leaves selected when it has a code.                               *)
Coded(d, o, code, opens) ==
  [d EXCEPT !.open = (@ \/ opens), !.object = o, !.code = code, !.mixed = FALSE]

(* A handler that does not tell the list.                                    *)
NotListed(e, o) == UNCHANGED entry

(* updateFolderShareCode, and myDocuments.update.                            *)
Listed(e, o) == entry' = [entry EXCEPT ![e] = IF @ = NoObject THEN @ ELSE o]

(* openShareFolderModal and regenerateFolderShareCode after their await: the *)
(* list's object is replaced by a copy with the code (updateFolderShareCode).*)
FolderCodeReturns(j) ==
  LET e == j.item
      code == j.answer[e].code
      listed == IF entry[e] = NoObject THEN {} ELSE {Name(e, 2)}
  IN
  /\ j.step = "done" /\ j.does \in {"open", "code"} /\ e \in SharedFolders
  /\ sharing' = sharing \ {j}
  /\ made' = made + 1
  /\ objects' = WithObjects(objects, {Name(e, 1)} \cup listed, LAMBDA o :
       IF o = Name(e, 1) THEN Object(e, j.answer[e])
       ELSE [objects[entry[e]] EXCEPT !.code = code])
  /\ Listed(e, Name(e, 2))
  /\ dialog' = [dialog EXCEPT !["folder"] = Coded(@, Name(e, 1), code, j.does = "open")]
  /\ UNCHANGED <<apiVars, behind, unlisted, shareClicks, shareFailures>>

(* openShareModal and regenerateShareCode: only the latter tells the list.   *)
DocCodeReturns(j) ==
  LET e == j.item IN
  /\ j.step = "done" /\ j.does \in {"open", "code"} /\ e \in SharedDocs
  /\ sharing' = sharing \ {j}
  /\ made' = made + 1
  /\ objects' = WithObjects(objects, {Name(e, 1)}, LAMBDA o : Object(e, j.answer[e]))
  /\ IF j.does = "code" THEN Listed(e, Name(e, 1)) ELSE UNCHANGED entry
  /\ dialog' = [dialog EXCEPT !["document"] =
                   Coded(@, Name(e, 1), j.answer[e].code, j.does = "open")]
  /\ UNCHANGED <<apiVars, behind, unlisted, shareClicks, shareFailures>>

(* updateFolderDefaultAccessLevel, updateDocumentDefaultAccessLevel: the     *)
(* object the handler started with is written into, whoever holds it, and a  *)
(* copy of it is selected, whatever the dialog shows by now.                 *)
LevelReturns(j) ==
  LET e == j.item
      k == Kind(e)
      changed == [objects[j.object] EXCEPT !.level = j.to]
  IN
  /\ j.step = "done" /\ j.does = "level" /\ sharing' = sharing \ {j}
  /\ made' = made + 1
  /\ objects' = WithObjects(objects, {Name(e, 1), j.object}, LAMBDA o : changed)
  /\ unlisted' = IF entry[e] = j.object THEN unlisted ELSE unlisted \cup {e}
  /\ dialog' = [dialog EXCEPT ![k] = [Selected(@, Name(e, 1), e) EXCEPT !.dated = TRUE]]
  /\ UNCHANGED <<apiVars, entry, behind, shareClicks, shareFailures>>

(* update...SharedAccessLevel, remove...SharedAccess: a copy of the object   *)
(* the handler started with, in the dialog and in the list; then the list is *)
(* loaded, its object selected.                                              *)
SharedAccessReturns(j) ==
  LET e == j.item IN
  /\ j.step = "done" /\ j.does = "peer"
  /\ made' = made + 1
  /\ objects' = WithObjects(objects, {Name(e, 1)},
                            LAMBDA o : [objects[j.object] EXCEPT !.peer = j.to])
  /\ Listed(e, Name(e, 1))
  /\ dialog' = [dialog EXCEPT ![Kind(e)] = Selected(@, Name(e, 1), e)]
  /\ Becomes(j, [j EXCEPT !.step = "load"])
  /\ UNCHANGED <<apiVars, behind, unlisted, shareClicks, shareFailures>>

(* createFolder, createQuickStarter, handleCreateFileSubmit, deleteProject:  *)
(* the list is loaded.                                                       *)
ProjectReturns(j) ==
  /\ j.step = "done" /\ j.does \in {"create", "delete"}
  /\ Becomes(j, [j EXCEPT !.step = "load"])
  /\ UNCHANGED <<apiVars, heapVars, dialog, behind, shareClicks, shareFailures>>

(* The end of a load, and of the handler that waited for it.                 *)
AfterLoad(j, present) ==
  dialog' = IF j.does = "peer" /\ j.item \in present
            THEN [dialog EXCEPT ![Kind(j.item)] = Selected(@, entry'[j.item], j.item)]
            ELSE dialog

(* loadWorkspace: every object of the list is new.  What the list lacked is  *)
(* made good, if no dialog is left with an object of before.                 *)
LoadWorkspace(j) ==
  LET present == {e \in Shareable : j.answer[e].exists}
      renewed == \A k \in DOMAIN dialog :
                   dialog[k].open => j.does = "peer" /\ k = Kind(j.item)
  IN
  /\ j.step = "loaded" /\ sharing' = sharing \ {j}
  /\ made' = made + 1
  /\ objects' = WithObjects(objects, {Name(e, 1) : e \in present},
                            LAMBDA o : Object(o[1], j.answer[o[1]]))
  /\ entry' = [e \in Shareable |-> IF e \in present THEN Name(e, 1) ELSE NoObject]
  /\ AfterLoad(j, present)
  /\ unlisted' = IF renewed THEN {} ELSE unlisted
  /\ behind' = (behind /\ ~(j.alone /\ NoneOpen))
  /\ UNCHANGED <<apiVars, shareClicks, shareFailures>>

(* A request fails or its answer is lost.  openShareModal shows its dialog   *)
(* even so, with the code that was there; a load that fails is a load that   *)
(* changed nothing; the other handlers leave everything as it is.            *)
ShareFails(j) ==
  /\ shareFailures < MaxShareFailures /\ Within /\ shareFailures' = shareFailures + 1
  /\ sharing' = sharing \ {j} /\ behind' = TRUE
  /\ CASE j.does = "open" /\ j.item \in SharedDocs ->
            dialog' = [dialog EXCEPT !["document"].open = TRUE]
       [] j.does = "peer" /\ j.step \in {"load", "loaded"} /\ entry[j.item] # NoObject ->
            dialog' = [dialog EXCEPT ![Kind(j.item)] = Selected(@, entry[j.item], j.item)]
       [] OTHER -> UNCHANGED dialog
  /\ UNCHANGED <<apiVars, heapVars, shareClicks>>

ShareNext ==
  \/ \E e \in Shareable : \/ OpenShareFolderModal(e) \/ OpenShareModal(e)
                          \/ CreateProject(e) \/ DeleteProject(e)
  \/ \E k \in DOMAIN dialog :
       \/ CloseShareModal(k) \/ InDialog(k, "code", "View")
       \/ \E to \in ShareLevels : InDialog(k, "level", to)
       \/ \E to \in PeerLevels : InDialog(k, "peer", to)
  \/ LoadAgain
  \/ \E j \in sharing :
       \/ Serve(j) \/ FolderCodeReturns(j) \/ DocCodeReturns(j) \/ LevelReturns(j)
       \/ SharedAccessReturns(j) \/ ProjectReturns(j) \/ LoadWorkspace(j) \/ ShareFails(j)

ShareSpec == ShareInit /\ [][ShareNext]_shareVars

-----------------------------------------------------------------------------
ShareTypeOK ==
  /\ rows \in [Shareable -> Row] /\ issuedFor \in Seq(Shareable)
  /\ \A o \in DOMAIN objects : objects[o] \in
       [item : Shareable, code : Nat, level : ShareLevels, peer : PeerLevels]
  /\ \A e \in Shareable : entry[e] \in DOMAIN objects \cup {NoObject}
  /\ \A k \in DOMAIN dialog : dialog[k].object \in DOMAIN objects \cup {NoObject}
  /\ \A j \in sharing : j.object \in DOMAIN objects \cup {NoObject}

Settled == sharing = {} /\ ~behind

ListIsTrue ==
  \A e \in Shareable :
    IF ~rows[e].exists THEN entry[e] = NoObject
    ELSE /\ entry[e] # NoObject
         /\ LET o == objects[entry[e]] IN
            /\ o.item = e /\ o.peer = rows[e].peer
            /\ o.level = rows[e].level \/ e \in unlisted
            /\ o.code = rows[e].code \/ (e \in SharedDocs /\ o.code = NoCode)

DialogIsTrue(k) ==
  LET d == dialog[k]
      o == objects[d.object]
  IN /\ d.object # NoObject
     /\ d.code = rows[o.item].code /\ o.peer = rows[o.item].peer
     /\ IF k = "folder" THEN o.level = rows[o.item].level \/ o.item \in unlisted
        ELSE d.level = rows[o.item].level \/ d.dated

(* Once every request has returned, none having failed or overlapped another *)
(* since the list was last loaded, the list and an open dialog show the      *)
(* code, the level and the other member that the API has; but a level        *)
(* changed on a copy is not in the list until it is loaded, a document's     *)
(* dialog goes on showing the level it was opened with, and a document's     *)
(* first code is not told to the list (update...AccessLevel, openShareModal).*)
(* And whatever overlaps, a dialog shows no code of another item than the    *)
(* one it names, but where a late answer or a failure left the two apart.    *)
DialogSettles ==
  /\ Settled => ListIsTrue /\ \A k \in DOMAIN dialog : dialog[k].open => DialogIsTrue(k)
  /\ \A k \in DOMAIN dialog :
       LET d == dialog[k] IN
       d.open /\ d.object # NoObject /\ d.code # NoCode =>
         d.mixed \/ issuedFor[d.code] = objects[d.object].item
=============================================================================
