--------------------------- MODULE WorkspaceDisk ---------------------------
(***************************************************************************)
(* The directory that the gateway keeps for one project: synchronisations, *)
(* replacements and runs write it path by path and register what they      *)
(* write, programs in the terminals write it too, and every terminal's     *)
(* watcher tells its browser of the changes that are not the gateway's     *)
(* own.  What a file holds is a text, nothing yet (Empty) or no file.      *)
(***************************************************************************)
EXTENDS Naturals, Sequences, FiniteSets

CONSTANTS Paths,        \* files of the project that nothing ignores
          Texts,        \* contents of a file
          Replacement,  \* what a replacement makes of a text
          Manifest,     \* the files of the project in Postgres
          Locked,       \* those of them that are locked
          Workers,      \* requests and terminal messages served at once
          Terminals,    \* terminal connections
          Empty,        \* a file that has been truncated, not written yet
          Absent,       \* no file, no entry, no text
          MaxWork,      \* bound on requests
          MaxShell,     \* bound on what the programs write and remove
          MaxFailures   \* bound on calls that fail

ASSUME ReplacementAssumption == Replacement \in [Texts -> Texts]
ASSUME ManifestAssumption == Manifest \in [Paths -> Texts] /\ Locked \subseteq Paths
ASSUME AbsentAssumption == Absent \notin Texts \cup Paths /\ Empty \notin Texts /\ Absent # Empty
ASSUME BoundsAssumption == MaxWork \in Nat /\ MaxShell \in Nat /\ MaxFailures \in Nat

VARIABLES disk,      \* the project's directory
          rcfile,    \* a terminal has left its .livesync_bashrc there
          entries,   \* SuppressionRegistry.entries, Absent if none or expired
          work,      \* the request that each worker serves
          terminal,  \* the watcher of each terminal
          untold,    \* changes by programs that a watching browser must hear of
          sandbox,   \* the directory each worker's last run was given
          budget     \* requests, changes by programs and failures so far

vars == <<disk, rcfile, entries, work, terminal, untold, sandbox, budget>>

NoFiles == [p \in Paths |-> Absent]
Idle == [kind |-> "none", pc |-> "idle", todo |-> {}, path |-> Absent, text |-> Absent]
Closed == [open |-> FALSE, events |-> << >>, checking |-> Absent, entry |-> Absent,
           pending |-> {}]

Init ==
  /\ disk = [p \in Paths |-> [text |-> Absent, locked |-> FALSE]]
  /\ rcfile = FALSE
  /\ entries = [p \in Paths |-> Absent]
  /\ work = [w \in Workers |-> Idle]
  /\ terminal = [t \in Terminals |-> Closed]
  /\ untold = [t \in Terminals |-> {}]
  /\ sandbox = [w \in Workers |-> NoFiles]
  /\ budget = [work |-> 0, shell |-> 0, failures |-> 0]

Spend(what, limit) == budget[what] < limit /\ budget' = [budget EXCEPT ![what] = @ + 1]
Doing(w, pc) == work[w].pc = pc
Serve(w, r) == work' = [work EXCEPT ![w] = r]
Done(w) == [work[w] EXCEPT !.pc = "next", !.todo = @ \ {work[w].path}, !.path = Absent,
                           !.text = Absent]

(* What inotify reports to every terminal that watches.                    *)
Event(p, op) == [path |-> p, op |-> op]
Report(evs) ==
  terminal' = [t \in Terminals |->
     IF terminal[t].open THEN [terminal[t] EXCEPT !.events = @ \o evs] ELSE terminal[t]]
Told(p) == untold' = [t \in Terminals |-> untold[t] \ {p}]

(* os.WriteFile and what a program does: the file is written in place.     *)
Write(p, text) ==
  /\ disk' = [disk EXCEPT ![p].text = text]
  /\ Report(<<Event(p, IF disk[p].text = Absent THEN "create" ELSE "write")>>)

(***************************************************************************)
(* HandleWorkspaceSync, a terminal's message with files, and the loop over *)
(* the files that both share with the materialisation.                     *)
(***************************************************************************)
Accept(w, r) ==
  /\ Doing(w, "idle")
  /\ Spend("work", MaxWork)
  /\ Serve(w, r)
  /\ UNCHANGED <<disk, rcfile, entries, terminal, untold, sandbox>>

Sync(files) == [Idle EXCEPT !.kind = "sync", !.pc = "next", !.todo = files]

HandleWorkspaceSync(w, files) == Accept(w, Sync(files))

TerminalMessage(w, t, files) == terminal[t].open /\ files # {} /\ Accept(w, Sync(files))

(* The text and the lock that the request has for a path.                  *)
TextFor(w, p, text) == work[w].kind = "build" => text = Manifest[p]
LockFor(w, p, locked) == work[w].kind = "build" => (locked <=> p \in Locked)

(* Register, before the file is touched.  Whoever sent a text that is on   *)
(* the disk already knows of it.                                           *)
Register(w, p, text, r) ==
  /\ entries' = [entries EXCEPT ![p] = text]
  /\ IF disk[p].text = text THEN Told(p) ELSE UNCHANGED untold
  /\ Serve(w, r)
  /\ UNCHANGED <<disk, rcfile, terminal, sandbox, budget>>

SyncRegister(w, p, text) ==
  /\ Doing(w, "next")
  /\ work[w].kind # "replace"
  /\ p \in work[w].todo /\ TextFor(w, p, text)
  /\ Register(w, p, text, [work[w] EXCEPT !.pc = "rename", !.path = p, !.text = text])

(* A directory or a file cannot be made: on to the next path.              *)
SyncFail(w) ==
  /\ Doing(w, "rename")
  /\ Spend("failures", MaxFailures)
  /\ Serve(w, Done(w))
  /\ UNCHANGED <<disk, rcfile, entries, terminal, untold, sandbox>>

(* No temporary file: the file itself is made writable and rewritten.      *)
SyncInPlace(w) ==
  LET p == work[w].path
  IN /\ Doing(w, "rename")
     /\ Spend("failures", MaxFailures)
     /\ disk' = [disk EXCEPT ![p].locked = FALSE]
     /\ Serve(w, [work[w] EXCEPT !.pc = "truncate"])
     /\ UNCHANGED <<rcfile, entries, terminal, untold, sandbox>>

(* As SyncRename, but an old file is removed before the new one is there.  *)
RemoveThenRename(w) ==
  LET p == work[w].path
      gone == disk[p].text = Absent
  IN /\ Doing(w, "rename")
     /\ disk' = [disk EXCEPT ![p] = [text |-> IF gone THEN work[w].text ELSE Absent, locked |-> FALSE]]
     /\ Report(<<Event(p, IF gone THEN "create" ELSE "remove")>>)
     /\ Told(p)
     /\ Serve(w, [work[w] EXCEPT !.pc = IF gone THEN "chmod" ELSE "rename"])
     /\ UNCHANGED <<rcfile, entries, sandbox, budget>>

(* Chmod of the old file, then the rename of the new one over it.          *)
SyncRename(w) ==
  LET p == work[w].path
  IN /\ Doing(w, "rename")
     /\ disk' = [disk EXCEPT ![p] = [text |-> work[w].text, locked |-> FALSE]]
     /\ Report((IF disk[p].text = Absent THEN << >> ELSE <<Event(p, "chmod")>>)
                 \o <<Event(p, "create")>>)
     /\ Told(p)
     /\ Serve(w, [work[w] EXCEPT !.pc = "chmod"])
     /\ UNCHANGED <<rcfile, entries, sandbox, budget>>

SyncChmod(w, locked) ==
  LET p == work[w].path
  IN /\ Doing(w, "chmod")
     /\ LockFor(w, p, locked)
     /\ IF disk[p].text = Absent THEN UNCHANGED <<disk, terminal>>
        ELSE /\ disk' = [disk EXCEPT ![p].locked = locked]
             /\ Report(<<Event(p, "chmod")>>)
     /\ Serve(w, Done(w))
     /\ UNCHANGED <<rcfile, entries, untold, sandbox, budget>>

Finish(w) ==
  /\ Doing(w, "next")
  /\ work[w].todo = {}
  /\ Serve(w, IF work[w].kind = "build" THEN [work[w] EXCEPT !.pc = "copy", !.todo = Paths] ELSE Idle)
  /\ UNCHANGED <<disk, rcfile, entries, terminal, untold, sandbox, budget>>

SyncWorkspaceAtomicWithRegistry(w) ==
  \/ \E p \in Paths, text \in Texts : SyncRegister(w, p, text)
  \/ SyncFail(w) \/ SyncInPlace(w) \/ SyncRename(w) \/ Finish(w)
  \/ \E locked \in BOOLEAN : SyncChmod(w, locked)

(***************************************************************************)
(* HandleReplace reads, registers and rewrites one file after another; of  *)
(* a locked file nothing is written, which nobody notices.                 *)
(***************************************************************************)
HandleReplace(w, files) ==
  Accept(w, [Idle EXCEPT !.kind = "replace", !.pc = "next", !.todo = files])

ReplaceRead(w, p) ==
  LET text == disk[p].text
  IN /\ Doing(w, "next")
     /\ work[w].kind = "replace"
     /\ p \in work[w].todo
     /\ Serve(w, IF text \in Texts /\ Replacement[text] # text
                 THEN [work[w] EXCEPT !.pc = "register", !.path = p, !.text = Replacement[text]]
                 ELSE [work[w] EXCEPT !.todo = @ \ {p}])
     /\ UNCHANGED <<disk, rcfile, entries, terminal, untold, sandbox, budget>>

ReplaceRegister(w) ==
  /\ Doing(w, "register")
  /\ Register(w, work[w].path, work[w].text, [work[w] EXCEPT !.pc = "truncate"])

Truncate(w) ==
  LET p == work[w].path
  IN /\ Doing(w, "truncate")
     /\ IF disk[p].locked THEN Serve(w, Done(w)) /\ UNCHANGED <<disk, terminal, untold>>
        ELSE /\ Write(p, Empty)
             /\ Told(p)
             /\ Serve(w, [work[w] EXCEPT !.pc = "write"])
     /\ UNCHANGED <<rcfile, entries, sandbox, budget>>

(* A file removed since it was opened is written without a name.           *)
WriteText(w) ==
  LET p == work[w].path
  IN /\ Doing(w, "write")
     /\ IF disk[p].text = Absent THEN UNCHANGED <<disk, terminal, untold>>
        ELSE Write(p, work[w].text) /\ Told(p)
     /\ Serve(w, IF work[w].kind = "replace" THEN Done(w)
                 ELSE [work[w] EXCEPT !.pc = "chmod"])
     /\ UNCHANGED <<rcfile, entries, sandbox, budget>>

Replace(w) ==
  \/ \E p \in Paths : ReplaceRead(w, p)
  \/ ReplaceRegister(w) \/ Truncate(w) \/ WriteText(w)

(***************************************************************************)
(* RunCode: the directory is materialised unless something is in it, then  *)
(* copied file by file, and the overlay written over the copy.             *)
(***************************************************************************)
RunCode(w) == Accept(w, [Idle EXCEPT !.kind = "run", !.pc = "stat"])

MaterializeWorkspaceFromManifest(w) ==
  /\ Doing(w, "stat")
  /\ Serve(w, IF rcfile \/ \E p \in Paths : disk[p].text # Absent
              THEN [work[w] EXCEPT !.pc = "copy", !.todo = Paths]
              ELSE [work[w] EXCEPT !.pc = "fetch"])
  /\ UNCHANGED <<disk, rcfile, entries, terminal, untold, sandbox, budget>>

FetchManifest(w) ==
  /\ Doing(w, "fetch")
  /\ \/ /\ Serve(w, [work[w] EXCEPT !.kind = "build", !.pc = "next", !.todo = Paths])
        /\ UNCHANGED budget
     \/ Spend("failures", MaxFailures) /\ Serve(w, [work[w] EXCEPT !.pc = "copy"])
  /\ UNCHANGED <<disk, rcfile, entries, terminal, untold, sandbox>>

CopyFile(w, p) ==
  /\ Doing(w, "copy")
  /\ p \in work[w].todo
  /\ sandbox' = [sandbox EXCEPT ![w][p] = disk[p].text]
  /\ Serve(w, [work[w] EXCEPT !.todo = @ \ {p}])
  /\ UNCHANGED <<disk, rcfile, entries, terminal, untold, budget>>

LayerOverlay(w, files, text) ==
  /\ Doing(w, "copy")
  /\ work[w].todo = {}
  /\ sandbox' = [sandbox EXCEPT ![w] = [p \in Paths |-> IF p \in files THEN text ELSE @[p]]]
  /\ Serve(w, [work[w] EXCEPT !.pc = "run"])
  /\ UNCHANGED <<disk, rcfile, entries, terminal, untold, budget>>

(* The answer; the sandbox is left behind.                                 *)
Answer(w) ==
  /\ Doing(w, "run")
  /\ Serve(w, Idle)
  /\ sandbox' = [sandbox EXCEPT ![w] = NoFiles]
  /\ UNCHANGED <<disk, rcfile, entries, terminal, untold, budget>>

CreateEphemeralSandbox(w) ==
  \/ \E p \in Paths : CopyFile(w, p)
  \/ \E files \in SUBSET Paths, text \in Texts : LayerOverlay(w, files, text)

(***************************************************************************)
(* A terminal: ServeWS, the programs run in it, and its watcher.           *)
(***************************************************************************)
ServeWS(t) ==
  /\ ~terminal[t].open
  /\ terminal' = [terminal EXCEPT ![t] = [Closed EXCEPT !.open = TRUE]]
  /\ rcfile' = TRUE
  /\ UNCHANGED <<disk, entries, work, untold, sandbox, budget>>

Close(t) ==
  /\ terminal[t].open
  /\ terminal' = [terminal EXCEPT ![t] = Closed]
  /\ untold' = [untold EXCEPT ![t] = {}]
  /\ UNCHANGED <<disk, rcfile, entries, work, sandbox, budget>>

Watching == {t \in Terminals : terminal[t].open}
Untell(p) == untold' = [t \in Terminals |-> IF t \in Watching THEN untold[t] \cup {p} ELSE untold[t]]

(* What a program writes is news unless a sender has just said the same.   *)
ShellWrite(p, text) ==
  /\ Watching # {}
  /\ ~disk[p].locked
  /\ Spend("shell", MaxShell)
  /\ Write(p, text)
  /\ IF entries[p] = text THEN Told(p) ELSE Untell(p)
  /\ UNCHANGED <<rcfile, entries, work, sandbox>>

ShellRemove(p) ==
  /\ Watching # {}
  /\ disk[p].text # Absent
  /\ Spend("shell", MaxShell)
  /\ disk' = [disk EXCEPT ![p] = [text |-> Absent, locked |-> FALSE]]
  /\ Report(<<Event(p, "remove")>>)
  /\ Untell(p)
  /\ UNCHANGED <<rcfile, entries, work, sandbox>>

(* The watcher takes one event; of a write or creation it first reads the  *)
(* registry, and then compares with the disk.                              *)
Watch(t, r) == terminal' = [terminal EXCEPT ![t] = r]
(* As Receive, but only of writes and creations is the browser told.       *)
ReceiveWrites(t) ==
  LET s == terminal[t]
      e == Head(s.events)
      rest == [s EXCEPT !.events = Tail(@)]
  IN /\ s.events # << >>
     /\ s.checking = Absent
     /\ Watch(t, IF e.op \in {"create", "write"}
                 THEN [rest EXCEPT !.checking = e.path, !.entry = entries[e.path]] ELSE rest)
     /\ UNCHANGED <<disk, rcfile, entries, work, untold, sandbox, budget>>

Receive(t) ==
  LET s == terminal[t]
      e == Head(s.events)
      rest == [s EXCEPT !.events = Tail(@)]
  IN /\ s.events # << >>
     /\ s.checking = Absent
     /\ Watch(t, IF e.op \in {"create", "write"}
                 THEN [rest EXCEPT !.checking = e.path, !.entry = entries[e.path]]
                 ELSE [rest EXCEPT !.pending = @ \cup {e.path}])
     /\ UNCHANGED <<disk, rcfile, entries, work, untold, sandbox, budget>>

(* As IsSuppressed, but whatever the file holds.                           *)
HasEntry(t) == terminal[t].entry # Absent

IsSuppressed(t) == terminal[t].entry # Absent /\ disk[terminal[t].checking].text = terminal[t].entry

(* As StartWorkspaceWatcher, but what is found on the disk is registered.  *)
WatchAndRegister(t) ==
  LET s == terminal[t]
      p == s.checking
      r == [s EXCEPT !.checking = Absent, !.entry = Absent]
  IN /\ p # Absent
     /\ Watch(t, IF IsSuppressed(t) THEN r ELSE [r EXCEPT !.pending = @ \cup {p}])
     /\ entries' = [entries EXCEPT ![p] = disk[p].text]
     /\ UNCHANGED <<disk, rcfile, work, untold, sandbox, budget>>

StartWorkspaceWatcher(t) ==
  LET s == terminal[t]
      p == s.checking
      r == [s EXCEPT !.checking = Absent, !.entry = Absent]
  IN /\ p # Absent
     /\ Watch(t, IF IsSuppressed(t) THEN r ELSE [r EXCEPT !.pending = @ \cup {p}])
     /\ entries' = IF s.entry = Absent \/ IsSuppressed(t) \/ disk[p].text = Absent THEN entries
                   ELSE [entries EXCEPT ![p] = Absent]
     /\ UNCHANGED <<disk, rcfile, work, untold, sandbox, budget>>

FlushEvents(t) ==
  /\ terminal[t].pending # {}
  /\ untold' = [untold EXCEPT ![t] = @ \ terminal[t].pending]
  /\ Watch(t, [terminal[t] EXCEPT !.pending = {}])
  /\ UNCHANGED <<disk, rcfile, entries, work, sandbox, budget>>

(* Five seconds have passed, or the clean-up has come by since.            *)
Expire(p) ==
  /\ entries[p] # Absent
  /\ entries' = [entries EXCEPT ![p] = Absent]
  /\ UNCHANGED <<disk, rcfile, work, terminal, untold, sandbox, budget>>

WatcherStep(t) == Receive(t) \/ StartWorkspaceWatcher(t) \/ FlushEvents(t)

Next ==
  \/ \E w \in Workers :
       \/ \E files \in SUBSET Paths :
            \/ HandleWorkspaceSync(w, files) \/ HandleReplace(w, files)
            \/ \E t \in Terminals : TerminalMessage(w, t, files)
       \/ RunCode(w)
       \/ SyncWorkspaceAtomicWithRegistry(w) \/ Replace(w)
       \/ MaterializeWorkspaceFromManifest(w) \/ FetchManifest(w)
       \/ CreateEphemeralSandbox(w) \/ Answer(w)
  \/ \E t \in Terminals : ServeWS(t) \/ Close(t) \/ WatcherStep(t)
  \/ \E p \in Paths : ShellRemove(p) \/ Expire(p) \/ \E text \in Texts : ShellWrite(p, text)

Spec == Init /\ [][Next]_vars

(* A watcher's goroutine takes the next event, and its timer fires.        *)
FairSpec == Spec /\ \A t \in Terminals : WF_vars(WatcherStep(t))
-----------------------------------------------------------------------------
Held == Texts \cup {Empty, Absent}
OnDisk == [text : Held, locked : BOOLEAN]
Work == [kind : {"none", "sync", "replace", "run", "build"},
         pc : {"idle", "next", "rename", "chmod", "register", "truncate", "write",
               "stat", "fetch", "copy", "run"},
         todo : SUBSET Paths, path : Paths \cup {Absent}, text : Texts \cup {Absent}]
Events == [path : Paths, op : {"create", "write", "chmod", "remove"}]
Watchers == [open : BOOLEAN, events : Seq(Events), checking : Paths \cup {Absent},
             entry : Texts \cup {Absent}, pending : SUBSET Paths]

(* Every variable has its type.                                            *)
TypeOK ==
  /\ disk \in [Paths -> OnDisk]
  /\ rcfile \in BOOLEAN
  /\ entries \in [Paths -> Texts \cup {Absent}]
  /\ work \in [Workers -> Work]
  /\ terminal \in [Terminals -> Watchers]
  /\ untold \in [Terminals -> SUBSET Paths]
  /\ sandbox \in [Workers -> [Paths -> Held]]
  /\ budget \in [work : 0 .. MaxWork, shell : 0 .. MaxShell, failures : 0 .. MaxFailures]

(* The suppression of the gateway's own writes never swallows a program's  *)
(* change: until the browser hears of it, or the gateway overwrites it,    *)
(* an event of it is on its way.                                           *)
SuppressionHidesNothing ==
  \A t \in Terminals : \A p \in untold[t] :
    \/ p \in terminal[t].pending \cup {terminal[t].checking}
    \/ \E i \in DOMAIN terminal[t].events : terminal[t].events[i].path = p

(* A run that materialised the project finds every file of it when it      *)
(* copies, whatever is synchronised and replaced meanwhile, unless a       *)
(* program was at the files or a call failed.                              *)
SandboxComplete ==
  \A w \in Workers :
    (work[w].kind = "build" /\ work[w].pc = "run" /\ budget.shell = 0 /\ budget.failures = 0) =>
      \A p \in Paths : sandbox[w][p] # Absent

(* Every change a program makes is announced to every terminal that stays  *)
(* open, or overwritten by the gateway.                                    *)
ChangesAnnounced ==
  \A t \in Terminals, p \in Paths : p \in untold[t] ~> p \notin untold[t]
=============================================================================
