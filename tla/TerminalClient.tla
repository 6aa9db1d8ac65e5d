--------------------------- MODULE TerminalClient ---------------------------
(***************************************************************************)
(* The browser's terminals (LiveTerminalService) and the service that runs *)
(* a profile in one of them.  Every tab is a session with one WebSocket.   *)
(* A command given while the active session is not open waits in one queue *)
(* shared by all the sessions; whichever socket opens next takes the queue *)
(* and runs it on the session active 300 ms later.  Files that wait for a  *)
(* socket are kept the same way, and go to the gateway's sync endpoint too.*)
(* A command is its number; files are the project they were taken from.    *)
(***************************************************************************)
EXTENDS Integers, Sequences, FiniteSets, SequencesExt

CONSTANTS Projects, MaxTabs, MaxSockets, MaxCommands, MaxCuts

(* There is a project to show: the workspace page is that of a project.    *)
ASSUME TerminalAssumption == MaxTabs \in Nat /\ Projects # {}

VARIABLES
  host,            \* is there an element to show the terminals in
  project,         \* currentProjectId
  tabs,            \* the keys of sessions, oldest first
  tabCounter,      \* the tabs created so far
  runTabs,         \* the tabs named after the run profile
  active,          \* activeTabId; 0 is the empty string
  socketOf,        \* [1..MaxTabs -> socket]: session.socket, 0 is null
  sockets,         \* every socket ever made: its project and its state
  pendingCommands, \* the queue of commands
  pendingSync,     \* pendingSyncFiles: the projects whose files wait
  timers,          \* the lists of commands a setTimeout holds
  issued,          \* issued[c]: the project the user gave command c in
  ran,             \* <<command, project of the terminal>>, as sent
  written,         \* <<project of the directory, project of the files>>
  carried,         \* commands and files that waited across a change of project
  cut,             \* connections refused, lost or abandoned by the user
  lostAt           \* the commands given before the last of these

terminalVars == <<host, project, tabs, tabCounter, runTabs, active, socketOf,
                  sockets, pendingCommands, pendingSync, timers, issued, ran,
                  written, carried, cut, lostAt>>

tabVars == <<tabs, tabCounter, runTabs, active, socketOf, sockets>>
queueVars == <<pendingCommands, timers, issued, ran>>
fileVars == <<pendingSync, written>>
cutVars == <<cut, lostAt>>

TerminalInit ==
  /\ host = FALSE /\ project = (CHOOSE p \in Projects : TRUE)
  /\ tabs = <<>> /\ tabCounter = 0
  /\ runTabs = {} /\ active = 0 /\ socketOf = [t \in 1..MaxTabs |-> 0]
  /\ sockets = <<>> /\ pendingCommands = <<>> /\ pendingSync = {}
  /\ timers = {} /\ issued = <<>> /\ ran = <<>> /\ written = {}
  /\ carried = [commands |-> {}, files |-> {}] /\ cut = 0 /\ lostAt = 0

SocketIs(t, state) == socketOf[t] # 0 /\ sockets[socketOf[t]].state = state
ActiveOpen == active # 0 /\ SocketIs(active, "open")
NewSocket(p) == [project |-> p, state |-> "connecting"]
Waiting == ToSet(pendingCommands) \cup UNION {ToSet(l) : l \in timers}

(* The sockets once the sessions outside kept are closed: only the socket a  *)
(* session still refers to is closed, not the ones it replaced.              *)
CloseSessions(kept) ==
  LET closing == {socketOf[t] : t \in ToSet(tabs) \ ToSet(kept)} IN
  [s \in DOMAIN sockets |->
     IF s \in closing THEN [sockets[s] EXCEPT !.state = "closed"] ELSE sockets[s]]

(* closeTab that does not choose another active tab.                         *)
DropKeepsActive(kept) ==
  /\ tabs' = kept
  /\ sockets' = CloseSessions(kept)
  /\ socketOf' = [t \in 1..MaxTabs |-> IF t \in ToSet(kept) THEN socketOf[t] ELSE 0]
  /\ UNCHANGED <<active, tabCounter, runTabs>>

(* destroyAllSessions and closeTab: the sessions outside kept are dropped.   *)
DropSessions(kept) ==
  /\ tabs' = kept
  /\ sockets' = CloseSessions(kept)
  /\ socketOf' = [t \in 1..MaxTabs |-> IF t \in ToSet(kept) THEN socketOf[t] ELSE 0]
  /\ active' = IF kept = <<>> THEN 0
               ELSE IF active \in ToSet(kept) THEN active ELSE Last(kept)
  /\ UNCHANGED <<tabCounter, runTabs>>

(* createTab after the sessions outside kept are gone: a tab with a socket   *)
(* of its own, and the active one.                                           *)
CreateTab(kept, p, isRun) ==
  LET t == tabCounter + 1 IN
  /\ t <= MaxTabs /\ Len(sockets) < MaxSockets
  /\ tabCounter' = t /\ active' = t
  /\ tabs' = Append(kept, t)
  /\ runTabs' = IF isRun THEN runTabs \cup {t} ELSE runTabs
  /\ sockets' = Append(CloseSessions(kept), NewSocket(p))
  /\ socketOf' = [u \in 1..MaxTabs |->
                    IF u = t THEN Len(sockets) + 1
                    ELSE IF u \in ToSet(kept) THEN socketOf[u] ELSE 0]

(* connectSession of tab t, n times in a row: a socket that is not open yet  *)
(* does not stop the next one from being made, it is only forgotten.         *)
Connect(t, n) ==
  /\ Len(sockets) + n <= MaxSockets
  /\ sockets' = sockets \o [i \in 1..n |-> NewSocket(project)]
  /\ socketOf' = [socketOf EXCEPT ![t] = Len(sockets) + n]
  /\ UNCHANGED <<tabs, tabCounter, runTabs, active>>

(* A change of project: what waits is not dropped with the sessions.         *)
ChangeProject(p) ==
  /\ project' = p
  /\ carried' = IF p = project THEN carried
                ELSE [commands |-> carried.commands \cup Waiting,
                      files |-> carried.files \cup pendingSync]

(* attachToElement: sessions of another project go; the first tab is made.   *)
AttachToElement(p) ==
  LET kept == IF p = project THEN tabs ELSE <<>> IN
  /\ host' = TRUE
  /\ ChangeProject(p)
  /\ IF kept = <<>> THEN CreateTab(<<>>, p, FALSE) ELSE UNCHANGED tabVars
  /\ UNCHANGED <<queueVars, fileVars, cutVars>>

(* setProject: the explorer moved to another project.                        *)
SetProject(p) ==
  /\ p # project
  /\ ChangeProject(p)
  /\ IF host THEN CreateTab(<<>>, p, FALSE) ELSE DropSessions(<<>>)
  /\ UNCHANGED <<host, queueVars, fileVars, cutVars>>

(* A tab of the user's, in the root or in a directory of the workspace.      *)
NewTab == host /\ CreateTab(tabs, project, FALSE)
          /\ UNCHANGED <<host, project, queueVars, fileVars, carried, cutVars>>

SwitchTab(t) ==
  /\ t \in ToSet(tabs) \ {active} /\ active' = t
  /\ UNCHANGED <<host, project, tabs, tabCounter, runTabs, socketOf, sockets,
                 queueVars, fileVars, carried, cutVars>>

(* MaxCommands bounds the commands and the cuts together.                    *)
Cut ==
  /\ cut < MaxCuts /\ Len(issued) + cut < MaxCommands
  /\ cut' = cut + 1 /\ lostAt' = Len(issued)

(* closeTab: the last tab is replaced by a new one.                          *)
CloseTab(t) ==
  LET kept == RemoveFirst(tabs, t) IN
  /\ t \in ToSet(tabs)
  /\ IF kept = <<>> THEN CreateTab(kept, project, FALSE) ELSE DropSessions(kept)
  /\ IF SocketIs(t, "connecting") /\ kept # <<>> THEN Cut ELSE UNCHANGED cutVars
  /\ UNCHANGED <<host, project, queueVars, fileVars, carried>>

(* restart of the active tab: its socket is closed, a new one is made.       *)
Restart ==
  /\ active # 0 /\ Len(sockets) < MaxSockets
  /\ sockets' = Append([s \in DOMAIN sockets |->
                          IF s = socketOf[active]
                          THEN [sockets[s] EXCEPT !.state = "closed"]
                          ELSE sockets[s]], NewSocket(project))
  /\ socketOf' = [socketOf EXCEPT ![active] = Len(sockets) + 1]
  /\ UNCHANGED <<host, project, tabs, tabCounter, runTabs, active, queueVars,
                 fileVars, carried, cutVars>>

(* runCommand for each of cmds, with the queue and the timers as given.      *)
Dispatch(cmds, queue, pendingTimers) ==
  /\ timers' = pendingTimers
  /\ IF ActiveOpen
     THEN /\ ran' = ran \o [i \in DOMAIN cmds |->
                              <<cmds[i], sockets[socketOf[active]].project>>]
          /\ pendingCommands' = queue
          /\ UNCHANGED tabVars
     ELSE /\ pendingCommands' = queue \o cmds
          /\ IF active # 0 THEN Connect(active, Len(cmds)) ELSE UNCHANGED tabVars
          /\ UNCHANGED ran

Issue == Len(issued) + cut < MaxCommands /\ issued' = Append(issued, project)

(* runCommand from the terminal's own controls.                              *)
RunCommand ==
  /\ Issue
  /\ Dispatch(<<Len(issued) + 1>>, pendingCommands, timers)
  /\ UNCHANGED <<host, project, fileVars, carried, cutVars>>

(* runProfile: the tab of the profile is found or made, and 150 ms later the *)
(* command is given to whatever tab is active then.                          *)
RunProfile ==
  /\ host /\ Issue
  /\ timers' = timers \cup {<<Len(issued) + 1>>}
  /\ \/ /\ ToSet(tabs) \cap runTabs = {} /\ CreateTab(tabs, project, TRUE)
     \/ \E i \in DOMAIN tabs :
          /\ tabs[i] \in runTabs /\ \A j \in DOMAIN tabs : j < i => tabs[j] \notin runTabs
          /\ active' = tabs[i]
          /\ UNCHANGED <<tabs, tabCounter, runTabs, socketOf, sockets>>
  /\ UNCHANGED <<host, project, pendingCommands, ran, fileVars, carried, cutVars>>

(* The timer of runProfile, or of onopen 300 ms after it took the queue.     *)
TimerFires(cmds) ==
  /\ cmds \in timers
  /\ Dispatch(cmds, pendingCommands, timers \ {cmds})
  /\ UNCHANGED <<host, project, issued, fileVars, carried, cutVars>>

(* syncFiles of the files taken from the projects in owners: posted to the   *)
(* directory of the current project, and to the active socket or kept.       *)
SyncTo(owners, isOpen, kept) ==
  /\ written' = written \cup
       {<<d, o>> : o \in owners, d \in {project} \cup
          IF isOpen THEN {sockets[socketOf[active]].project} ELSE {}}
  /\ pendingSync' = IF isOpen THEN kept ELSE kept \cup owners

SyncFiles ==
  /\ SyncTo({project}, ActiveOpen, pendingSync)
  /\ UNCHANGED <<host, project, tabVars, queueVars, carried, cutVars>>

Opened(s) == sockets' = [sockets EXCEPT ![s].state = "open"]

(* onopen with the queue left in place.                                      *)
OnOpenKeepsQueue(s) ==
  /\ sockets[s].state = "connecting" /\ Opened(s)
  /\ SyncTo(pendingSync, ActiveOpen \/ (active # 0 /\ socketOf[active] = s), {})
  /\ timers' = IF pendingCommands = <<>> THEN timers
               ELSE timers \cup {pendingCommands}
  /\ UNCHANGED <<host, project, tabs, tabCounter, runTabs, active, socketOf,
                 pendingCommands, issued, ran, carried, cutVars>>

(* onopen: the files that wait are synced again, the queue is taken.         *)
OnOpen(s) ==
  /\ sockets[s].state = "connecting" /\ Opened(s)
  /\ SyncTo(pendingSync, ActiveOpen \/ (active # 0 /\ socketOf[active] = s), {})
  /\ timers' = IF pendingCommands = <<>> THEN timers
               ELSE timers \cup {pendingCommands}
  /\ pendingCommands' = <<>>
  /\ UNCHANGED <<host, project, tabs, tabCounter, runTabs, active, socketOf,
                 issued, ran, carried, cutVars>>

(* onerror, onclose: the connection is refused or lost; nothing retries.     *)
OnClose(s) ==
  /\ Cut
  /\ sockets[s].state \in {"connecting", "open"}
  /\ sockets' = [sockets EXCEPT ![s].state = "closed"]
  /\ UNCHANGED <<host, project, tabs, tabCounter, runTabs, active, socketOf,
                 queueVars, fileVars, carried>>

TerminalNext ==
  \/ \E p \in Projects : AttachToElement(p) \/ SetProject(p)
  \/ \E t \in 1..MaxTabs : SwitchTab(t) \/ CloseTab(t)
  \/ NewTab \/ Restart \/ RunCommand \/ RunProfile \/ SyncFiles
  \/ \E cmds \in timers : TimerFires(cmds)
  \/ \E s \in DOMAIN sockets : OnOpen(s) \/ OnClose(s)

TerminalSpec == TerminalInit /\ [][TerminalNext]_terminalVars

-----------------------------------------------------------------------------
(* The active tab is an open tab, or there is none; a tab refers to a socket *)
(* that exists; a socket that is closed is not made open again.              *)
TerminalTypeOK ==
  /\ host \in BOOLEAN /\ project \in Projects
  /\ active \in ToSet(tabs) \/ (active = 0 /\ tabs = <<>>)
  /\ \A t \in ToSet(tabs) : t \in 1..tabCounter /\ socketOf[t] \in DOMAIN sockets
  /\ \A s \in DOMAIN sockets :
       /\ sockets[s].project \in Projects
       /\ sockets[s].state \in {"connecting", "open", "closed"}
  /\ pendingSync \subseteq Projects /\ runTabs \subseteq 1..tabCounter

(* Where a command is: positions in the queue, in a timer's list, among     *)
(* those sent.                                                               *)
Places(c) == {<<"queue", i>> : i \in {i \in DOMAIN pendingCommands : pendingCommands[i] = c}}
  \cup {<<"sent", i>> : i \in {i \in DOMAIN ran : ran[i][1] = c}}
  \cup UNION {{<<"timer", l, i>> : i \in {i \in DOMAIN l : l[i] = c}} : l \in timers}

(* No command is lost or run twice: each one the user gave is in the queue,  *)
(* in a timer or sent, and in one of these once, however sockets open and    *)
(* requeue it.                                                               *)
CommandsKept == \A c \in DOMAIN issued : \E x \in Places(c) : Places(c) = {x}

(* No command is forgotten: one given after the last connection was refused, *)
(* lost or closed by the user waits only while a socket is on its way to     *)
(* take the queue, in whatever order tabs are made, switched and restarted.  *)
NothingStranded ==
  (active # 0 /\ \E c \in ToSet(pendingCommands) : c > lostAt) =>
    \E s \in DOMAIN sockets : sockets[s].state = "connecting"

(* A command runs, and files are written, in the project they come from,     *)
(* except what was still waiting when the user changed project.              *)
StaysInProject ==
  /\ \A i \in DOMAIN ran :
       ran[i][1] \in carried.commands \/ ran[i][2] = issued[ran[i][1]]
  /\ \A w \in written : w[2] \in carried.files \/ w[1] = w[2]

(* The user's commands and files arrive: none is lost, run twice, forgotten  *)
(* or taken to another project.                                              *)
CommandsArrive == CommandsKept /\ NothingStranded /\ StaysInProject
=============================================================================
