------------------------------- MODULE Explorer -------------------------------
(***************************************************************************)
(* The explorer of the workspace page, in the browsers of several members  *)
(* of the same projects: the list of documents, the cached contents of the *)
(* folders, the folders that are expanded, the tabs, and the changes that  *)
(* members tell one another about through the hub.  A project is one       *)
(* folder here; the server is the set of its folders and where each        *)
(* document is.  What a browser waits for is a job: a job ends when the    *)
(* function that started it returns, and between two awaits of one job     *)
(* those of the others run.                                                *)
(***************************************************************************)
EXTENDS Naturals, Sequences, FiniteSets, SequencesExt

CONSTANTS Members, Roots, Items, NoProject, NoItem,
          Before,      \* where documents may be to begin with
          MaxClicks,   \* bound on what the members do
          MaxJobs,     \* bound on the jobs of one browser at once
          MaxRefusals  \* bound on failing requests

ASSUME ExplorerAssumption ==
  Before \subseteq [Items -> Roots \cup {NoProject}] /\ NoProject \notin Roots

VARIABLES
  folders,   \* the projects that exist
  place,     \* place[i]: the project document i is in, or NoProject
  born,      \* documents created so far
  moved,     \* documents moved or deleted so far
  listed,    \* listed[m]: myDocuments, as the places it was loaded with
  contents,  \* contents[m]: folderChildDocs, of the folders that are keys
  expanded,  \* expandedFolderIds
  scoped,    \* scopedProject
  joined,    \* the workspaces whose room the browser has joined
  openTabs,  \* openTabs
  activeDoc, \* activeTabId
  jobs,      \* jobs[m]: the running jobs, oldest first
  notices,   \* notices[m]: changes on their way to the browser
  late,      \* tabs opened by a job begun before the scope changed
  missed,    \* the list may lack a change: two loads ran at once, a request
             \* failed, or a change was announced where m does not listen
  clicks, failures

explorerVars == <<folders, place, born, moved, listed, contents, expanded, scoped, joined,
                  openTabs, activeDoc, jobs, notices, late, missed, clicks, failures>>
serverVars == <<folders, place, born, moved>>
pageVars == <<openTabs, activeDoc, late>>

NoContents == [f \in {} |-> {}]
ItemsIn(f) == {i \in Items : place[i] = f}
With(f, k, v) == [x \in DOMAIN f \cup {k} |-> IF x = k THEN v ELSE f[x]]

(* A job: what it will do next, the change it announces at its end and the *)
(* document it opens then, and what it has read before an await.           *)
Job(pc) == [pc |-> pc, item |-> NoItem, to |-> NoProject, scope |-> NoProject,
            list |-> [i \in Items |-> NoProject], todo |-> {}, set |-> {},
            what |-> NoItem,
            tells |-> FALSE, crossed |-> FALSE]

(* The page has loaded the list and resolved the project of the route, if  *)
(* the route names one (ngOnInit, resolveScopedProject).                   *)
ExplorerInit ==
  /\ folders = Roots /\ place \in Before
  /\ born = {i \in Items : place[i] # NoProject} /\ moved = {}
  /\ listed = [m \in Members |-> place] /\ contents = [m \in Members |-> NoContents]
  /\ scoped \in [Members -> Roots \cup {NoProject}]
  /\ joined = [m \in Members |-> {scoped[m]} \ {NoProject}] /\ expanded = joined
  /\ openTabs = [m \in Members |-> <<>>]
  /\ activeDoc = [m \in Members |-> NoItem] /\ jobs = [m \in Members |-> <<>>]
  /\ notices = [m \in Members |-> 0] /\ late = [m \in Members |-> {}]
  /\ missed = [m \in Members |-> FALSE] /\ clicks = 0 /\ failures = 0

Loading(j) == j.pc \in {"ask", "read", "fetch", "delete"}
Click(m) == /\ clicks < MaxClicks /\ clicks' = clicks + 1
            /\ Len(jobs[m]) < MaxJobs /\ UNCHANGED failures
Begin(m, j) == jobs' = [jobs EXCEPT ![m] = Append(@, j)]
Step(m, k, j) == jobs' = [jobs EXCEPT ![m][k] = j]
End(m, k) == jobs' = [jobs EXCEPT ![m] = RemoveAt(@, k)]
Fail == failures < MaxRefusals /\ failures' = failures + 1
Unclicked == UNCHANGED <<clicks, failures>>

(* openDocument and closeTab, on the tabs and the active tab of a browser. *)
OpenDocument(m, i) ==
  /\ openTabs' = [openTabs EXCEPT ![m] = IF Contains(@, i) THEN @ ELSE Append(@, i)]
  /\ activeDoc' = [activeDoc EXCEPT ![m] = i]

(* What Array.filter leaves of s, in which nothing is twice: of all        *)
(* sequences the one that has the documents of s in S, in their order.     *)
Filtered(s, S) ==
  {t \in SeqOf(S, Len(s)) :
    /\ ToSet(t) = ToSet(s) \cap S
    /\ \A k, l \in 1..Len(t) :
         k < l => \E a, b \in 1..Len(s) : a < b /\ s[a] = t[k] /\ s[b] = t[l]}

CloseDocument(m, i) ==
  \E rest \in Filtered(openTabs[m], Items \ {i}) :
    /\ openTabs' = [openTabs EXCEPT ![m] = rest]
    /\ activeDoc' = [activeDoc EXCEPT ![m] =
         IF @ # i THEN @ ELSE IF rest = <<>> THEN NoItem ELSE Last(rest)]

(* What the browser takes for the project's documents.                     *)
InProject(m, i, f) ==
  listed[m][i] = f \/ (f \in DOMAIN contents[m] /\ i \in contents[m][f])

(* alignTabsWithProject that keeps every tab.                              *)
AlignNothing(m, f) == UNCHANGED <<pageVars, jobs>>

(* alignTabsWithProject, and the start of autoOpenProjectEntry when no tab *)
(* is left: it opens the first document of the folder, read before or now. *)
AlignTabsWithProject(m, f) ==
  \E kept \in Filtered(openTabs[m], {i \in Items : InProject(m, i, f)}) :
    /\ late' = [late EXCEPT ![m] = {}]
    /\ IF kept # <<>>
       THEN /\ openTabs' = [openTabs EXCEPT ![m] = kept] /\ UNCHANGED jobs
            /\ activeDoc' = [activeDoc EXCEPT ![m] =
                 IF Contains(kept, @) THEN @ ELSE Head(kept)]
       ELSE IF f \in DOMAIN contents[m] /\ contents[m][f] # {}
       THEN LET i == CHOOSE i \in contents[m][f] : TRUE IN
            /\ openTabs' = [openTabs EXCEPT ![m] = <<i>>] /\ UNCHANGED jobs
            /\ activeDoc' = [activeDoc EXCEPT ![m] = i]
       ELSE /\ openTabs' = [openTabs EXCEPT ![m] = <<>>]
            /\ activeDoc' = [activeDoc EXCEPT ![m] = NoItem]
            /\ Begin(m, [Job("open") EXCEPT !.to = f])

(* onScopeChange: the effect on scopedProject joins the room of the        *)
(* project, and no code leaves the one of the project before.              *)
OnScopeChange(m, f) ==
  /\ Click(m) /\ f \in folders /\ scoped[m] # f
  /\ scoped' = [scoped EXCEPT ![m] = f]
  /\ expanded' = [expanded EXCEPT ![m] = @ \cup {f}]
  /\ joined' = [joined EXCEPT ![m] = @ \cup {f}]
  /\ AlignTabsWithProject(m, f)
  /\ UNCHANGED <<serverVars, listed, contents, notices, missed>>

ScopeAll(m) ==
  /\ Click(m) /\ scoped[m] # NoProject
  /\ scoped' = [scoped EXCEPT ![m] = NoProject]
  /\ UNCHANGED <<serverVars, listed, contents, expanded, joined, pageVars, jobs, notices,
                 missed>>

(* autoOpenProjectEntry after its getFolder: the tab opens whichever       *)
(* project is scoped by then.                                              *)
AutoOpenRead(m, k) ==
  /\ jobs[m][k].pc = "open" /\ jobs[m][k].to \in folders
  /\ Step(m, k, [jobs[m][k] EXCEPT !.pc = "opened", !.set = ItemsIn(jobs[m][k].to)])
  /\ Unclicked
  /\ UNCHANGED <<serverVars, listed, contents, expanded, scoped, joined, pageVars,
                 notices, missed>>

AutoOpenProjectEntry(m, k) ==
  LET j == jobs[m][k] IN
  /\ j.pc = "opened" /\ End(m, k)
  /\ contents' = [contents EXCEPT ![m] = With(@, j.to, j.set)]
  /\ IF j.set = {} THEN UNCHANGED pageVars
     ELSE LET i == CHOOSE i \in j.set : TRUE IN
          /\ OpenDocument(m, i)
          /\ late' = IF scoped[m] = j.to THEN late ELSE [late EXCEPT ![m] = @ \cup {i}]
  /\ Unclicked
  /\ UNCHANGED <<serverVars, listed, expanded, scoped, joined, notices, missed>>

(* A tab is opened from the explorer, which shows the scoped project or    *)
(* all of them, or closed.                                                 *)
ClickDocument(m, i) ==
  /\ Click(m)
  /\ IF scoped[m] = NoProject THEN listed[m][i] # NoProject ELSE InProject(m, i, scoped[m])
  /\ OpenDocument(m, i)
  /\ UNCHANGED <<serverVars, listed, contents, expanded, scoped, joined, late, jobs,
                 notices, missed>>

ClickClose(m, i) ==
  /\ Click(m) /\ Contains(openTabs[m], i) /\ CloseDocument(m, i)
  /\ UNCHANGED <<serverVars, listed, contents, expanded, scoped, joined, late, jobs,
                 notices, missed>>

(* toggleFolderExpand: the set is copied before the await and written      *)
(* after it; what is in the cache is not read again.                       *)
ToggleFolderExpand(m, f) ==
  /\ Click(m) /\ f = scoped[m]
  /\ IF f \in expanded[m]
     THEN expanded' = [expanded EXCEPT ![m] = @ \ {f}] /\ UNCHANGED jobs
     ELSE IF f \in DOMAIN contents[m]
     THEN expanded' = [expanded EXCEPT ![m] = @ \cup {f}] /\ UNCHANGED jobs
     ELSE /\ Begin(m, [Job("toggle") EXCEPT !.to = f, !.todo = expanded[m] \cup {f}])
          /\ UNCHANGED expanded
  /\ UNCHANGED <<serverVars, listed, contents, scoped, joined, pageVars, notices, missed>>

ToggleEnds(m, k) ==
  LET j == jobs[m][k] IN
  /\ j.pc = "toggle" /\ End(m, k)
  /\ expanded' = [expanded EXCEPT ![m] = j.todo]
  /\ contents' = IF j.to \in folders
                 THEN [contents EXCEPT ![m] = With(@, j.to, ItemsIn(j.to))] ELSE contents
  /\ Unclicked
  /\ UNCHANGED <<serverVars, listed, scoped, joined, pageVars, notices, missed>>

(* loadWorkspace while another load of the browser, or a deletion, is      *)
(* under way: either may end first, so all of them are marked.             *)
Crossed(js) ==
  LET n == Cardinality({k \in 1..Len(js) : Loading(js[k])})
  IN [k \in 1..Len(js) |->
       IF n > 1 /\ Loading(js[k]) THEN [js[k] EXCEPT !.crossed = TRUE] ELSE js[k]]

Load(m, k, j) ==
  jobs' = [jobs EXCEPT ![m] = Crossed([@ EXCEPT ![k] = [j EXCEPT !.pc = "ask"]])]

(* A notice whose room is the one scoped when it is sent, or the parent    *)
(* folder's: it reaches the other browsers that are in that room.  Whoever *)
(* is not must not take what it is loading for the newest.                 *)
Room(m, j) == IF scoped[m] # NoProject THEN scoped[m] ELSE j.to
Hears(m, j, n) == n # m /\ Room(m, j) \in joined[n]

(* notifyWorkspaceChange that announces nothing.                           *)
NotifyNobody(m, j) == UNCHANGED <<notices, missed>>

NotifyWorkspaceChange(m, j) ==
  /\ notices' = [n \in Members |-> IF Hears(m, j, n) THEN notices[n] + 1 ELSE notices[n]]
  /\ missed' = [n \in Members |-> missed[n] \/ (n # m /\ ~Hears(m, j, n))]

EndNotifying(m, k) ==
  /\ NotifyWorkspaceChange(m, jobs[m][k])
  /\ jobs' = [n \in Members |->
       IF n = m THEN RemoveAt(jobs[m], k)
       ELSE IF Hears(m, jobs[m][k], n) THEN jobs[n]
       ELSE [l \in 1..Len(jobs[n]) |-> [jobs[n][l] EXCEPT !.crossed = TRUE]]]

(* The effect on onWorkspaceChange: a silent load.                         *)
OnWorkspaceChange(m) ==
  /\ notices[m] > 0 /\ notices' = [notices EXCEPT ![m] = 0]
  /\ Len(jobs[m]) < MaxJobs
  /\ jobs' = [jobs EXCEPT ![m] = Crossed(Append(@, Job("ask")))]
  /\ Unclicked
  /\ UNCHANGED <<serverVars, listed, contents, expanded, scoped, joined, pageVars,
                 missed>>

(* The four parallel requests of loadWorkspace, of which the documents     *)
(* count here; when one fails nothing of the four is shown.                *)
LoadRead(m, k) ==
  /\ jobs[m][k].pc = "ask" /\ Unclicked
  /\ Step(m, k, [jobs[m][k] EXCEPT !.pc = "read", !.list = place])
  /\ UNCHANGED <<serverVars, listed, contents, expanded, scoped, joined, pageVars,
                 notices, missed>>

LoadFails(m, k) ==
  /\ jobs[m][k].pc = "ask" /\ Fail
  /\ Step(m, k, [jobs[m][k] EXCEPT !.pc = "fetch", !.todo = {}])
  /\ missed' = [missed EXCEPT ![m] = TRUE]
  /\ UNCHANGED <<serverVars, listed, contents, expanded, scoped, joined, pageVars,
                 notices, clicks>>

LoadShown(m, k) ==
  LET j == jobs[m][k] IN
  /\ j.pc = "read" /\ Unclicked
  /\ listed' = [listed EXCEPT ![m] = j.list]
  /\ missed' = [missed EXCEPT ![m] = j.crossed]
  /\ Step(m, k, [j EXCEPT !.pc = "fetch", !.todo = expanded[m]])
  /\ UNCHANGED <<serverVars, contents, expanded, scoped, joined, pageVars, notices>>

(* refreshExpandedFolderContents, folder by folder; the getFolder of a     *)
(* folder that is gone fails, and what was cached of it stays.             *)
RefreshFolder(m, k) ==
  \E f \in jobs[m][k].todo :
    /\ jobs[m][k].pc = "fetch" /\ Unclicked
    /\ Step(m, k, [jobs[m][k] EXCEPT !.todo = @ \ {f}])
    /\ contents' = IF f \in folders
                   THEN [contents EXCEPT ![m] = With(@, f, ItemsIn(f))] ELSE contents
    /\ UNCHANGED <<serverVars, listed, expanded, scoped, joined, pageVars, notices, missed>>

(* After its load a change is announced, and what it created is opened.    *)
LoadEnds(m, k) ==
  LET j == jobs[m][k] IN
  /\ j.pc = "fetch" /\ j.todo = {} /\ Unclicked
  /\ IF j.tells THEN EndNotifying(m, k) ELSE End(m, k) /\ UNCHANGED <<notices, missed>>
  /\ IF j.item = NoItem THEN UNCHANGED pageVars
     ELSE /\ OpenDocument(m, j.item)
          /\ late' = IF scoped[m] = j.scope THEN late
                     ELSE [late EXCEPT ![m] = @ \cup {j.item}]
  /\ UNCHANGED <<serverVars, listed, contents, expanded, scoped, joined>>

(* Inline creation in the scoped project: the expanded folders are copied  *)
(* before the request and written after it.                                *)
OpenCreateInFolder(m) ==
  /\ Click(m) /\ scoped[m] # NoProject
  /\ expanded' = [expanded EXCEPT ![m] = @ \cup {scoped[m]}]
  /\ Begin(m, [Job("create") EXCEPT !.to = scoped[m], !.scope = scoped[m],
                                    !.todo = expanded[m] \cup {scoped[m]}])
  /\ UNCHANGED <<serverVars, listed, contents, scoped, joined, pageVars, notices, missed>>

CommitInlineCreation(m, k, i) ==
  LET j == jobs[m][k] IN
  /\ j.pc = "create" /\ j.to \in folders /\ i \notin born /\ Unclicked
  /\ born' = born \cup {i} /\ place' = [place EXCEPT ![i] = j.to]
  /\ expanded' = [expanded EXCEPT ![m] = j.todo]
  /\ Load(m, k, [j EXCEPT !.item = i, !.tells = TRUE])
  /\ UNCHANGED <<folders, moved, listed, contents, scoped, joined, pageVars, notices, missed>>

(* onDrop and moveDocumentToFolder.                                        *)
StartMove(m, i, f) ==
  /\ Click(m) /\ listed[m][i] \notin {NoProject, f}
  /\ Begin(m, [Job("move") EXCEPT !.what = i, !.to = f])
  /\ UNCHANGED <<serverVars, listed, contents, expanded, scoped, joined, pageVars,
                 notices, missed>>

MoveDocumentToFolder(m, k) ==
  LET j == jobs[m][k] IN
  /\ j.pc = "move" /\ j.to \in folders /\ place[j.what] # NoProject /\ Unclicked
  /\ place' = [place EXCEPT ![j.what] = j.to] /\ moved' = moved \cup {j.what}
  /\ Load(m, k, [j EXCEPT !.tells = TRUE])
  /\ UNCHANGED <<folders, born, listed, contents, expanded, scoped, joined, pageVars,
                 notices, missed>>

StartDeleteFolder(m, f) ==
  /\ Click(m) /\ f \in folders
  /\ Begin(m, [Job("rmdir") EXCEPT !.todo = {f}])
  /\ UNCHANGED <<serverVars, listed, contents, expanded, scoped, joined, pageVars,
                 notices, missed>>

(* deleteFolder: the project that was scoped is scoped no more when the    *)
(* change is announced.                                                    *)
DeleteFolder(m, k) ==
  LET j == jobs[m][k] IN
  /\ j.pc = "rmdir" /\ j.todo \subseteq folders /\ Unclicked
  /\ folders' = folders \ j.todo
  /\ place' = [i \in Items |-> IF place[i] \in j.todo THEN NoProject ELSE place[i]]
  /\ moved' = moved \cup {i \in Items : place[i] \in j.todo}
  /\ scoped' = [scoped EXCEPT ![m] = IF @ \in j.todo THEN NoProject ELSE @]
  /\ Load(m, k, [j EXCEPT !.tells = TRUE])
  /\ UNCHANGED <<born, listed, contents, expanded, joined, pageVars, notices, missed>>

(* deleteDocument shows its effect before it asks for it, and loads only   *)
(* when the request fails.                                                 *)
StartDeleteDocument(m, i) ==
  /\ Click(m) /\ listed[m][i] # NoProject
  /\ listed' = [listed EXCEPT ![m][i] = NoProject]
  /\ contents' = [contents EXCEPT ![m] = [f \in DOMAIN @ |-> @[f] \ {i}]]
  /\ CloseDocument(m, i)
  /\ jobs' = [jobs EXCEPT ![m] = Crossed(Append(@, [Job("delete") EXCEPT !.what = i]))]
  /\ UNCHANGED <<serverVars, expanded, scoped, joined, late, notices, missed>>

DeleteDocument(m, k) ==
  LET i == jobs[m][k].what IN
  /\ jobs[m][k].pc = "delete" /\ place[i] # NoProject /\ Unclicked
  /\ place' = [place EXCEPT ![i] = NoProject] /\ moved' = moved \cup {i}
  /\ EndNotifying(m, k)
  /\ UNCHANGED <<folders, born, listed, contents, expanded, scoped, joined, pageVars>>

(* A request that fails, or is refused because its subject is gone: only a *)
(* deletion of a document loads the list again.                            *)
Refused(j) ==
  CASE j.pc = "create" -> j.to \notin folders
    [] j.pc = "move" -> j.to \notin folders \/ place[j.what] = NoProject
    [] j.pc = "rmdir" -> ~(j.todo \subseteq folders)
    [] j.pc = "delete" -> place[j.what] = NoProject
    [] j.pc = "open" -> j.to \notin folders
    [] OTHER -> FALSE

RequestFails(m, k) ==
  LET j == jobs[m][k] IN
  /\ j.pc \in {"create", "move", "rmdir", "delete", "open"}
  /\ \/ Refused(j) /\ UNCHANGED failures
     \/ ~Refused(j) /\ Fail
  /\ IF j.pc = "delete" THEN Load(m, k, j) ELSE End(m, k)
  /\ UNCHANGED <<serverVars, listed, contents, expanded, scoped, joined, pageVars,
                 notices, missed, clicks>>

Clicks(m) ==
  \/ \E f \in Roots : OnScopeChange(m, f) \/ ToggleFolderExpand(m, f)
                        \/ StartDeleteFolder(m, f)
  \/ ScopeAll(m) \/ OpenCreateInFolder(m)
  \/ \E i \in Items : ClickDocument(m, i) \/ ClickClose(m, i) \/ StartDeleteDocument(m, i)
                     \/ \E f \in Roots : StartMove(m, i, f)

Runs(m, k) ==
  \/ AutoOpenRead(m, k) \/ AutoOpenProjectEntry(m, k) \/ ToggleEnds(m, k)
  \/ LoadRead(m, k) \/ LoadFails(m, k) \/ LoadShown(m, k) \/ RefreshFolder(m, k)
  \/ LoadEnds(m, k)
  \/ \E i \in Items : CommitInlineCreation(m, k, i)
  \/ MoveDocumentToFolder(m, k) \/ DeleteFolder(m, k) \/ DeleteDocument(m, k)
  \/ RequestFails(m, k)

ExplorerNext ==
  \E m \in Members : Clicks(m) \/ OnWorkspaceChange(m)
                     \/ \E k \in 1..Len(jobs[m]) : Runs(m, k)

ExplorerSpec == ExplorerInit /\ [][ExplorerNext]_explorerVars

(* Types; the active tab is one of the open ones, or there is none         *)
(* (openDocument, closeTab, deleteDocument and alignTabsWithProject each   *)
(* write both signals).                                                    *)
ExplorerTypeOK ==
  /\ folders \subseteq Roots /\ place \in [Items -> Roots \cup {NoProject}]
  /\ \A m \in Members :
       /\ listed[m] \in [Items -> Roots \cup {NoProject}]
       /\ DOMAIN contents[m] \subseteq Roots /\ expanded[m] \subseteq Roots
       /\ Len(jobs[m]) <= MaxJobs
       /\ IF openTabs[m] = <<>> THEN activeDoc[m] = NoItem ELSE Contains(openTabs[m], activeDoc[m])

(* When no request and no notice is under way, every member sees the       *)
(* documents where they are: a change reaches the other browsers through   *)
(* the notice and the load it starts.  Not so for who was not in the room  *)
(* of the notice, and after a load that overlapped another load or a       *)
(* deletion, or that failed (loadWorkspace, notifyWorkspaceChange).        *)
ListSettles ==
  (\A m \in Members : jobs[m] = <<>> /\ notices[m] = 0) =>
    \A m \in Members : missed[m] \/ listed[m] = place

(* The tabs are those of the scoped project, but for documents moved or    *)
(* deleted while open and for tabs that a job begun under another scope    *)
(* opens at its end (alignTabsWithProject, autoOpenProjectEntry).          *)
TabsOfScope ==
  \A m \in Members : \A i \in ToSet(openTabs[m]) \ (late[m] \cup moved) :
    scoped[m] \in {NoProject, place[i]}
=============================================================================
