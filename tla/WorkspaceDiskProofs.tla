-------------------------- MODULE WorkspaceDiskProofs --------------------------
(***************************************************************************)
(* What holds of the project's directory for every set of files, requests  *)
(* and terminals: a program's change is never lost to the suppression, and *)
(* a materialised run finds all its files.                                 *)
(***************************************************************************)
EXTENDS WorkspaceDisk, TLAPS

\* A request that has chosen a path knows it and the text it will write.
InHand ==
  \A w \in Workers :
    work[w].pc \in {"rename", "chmod", "register", "truncate", "write"} =>
      work[w].path \in Paths /\ work[w].text \in Texts

\* The watcher will still announce p: the change waits in the queue, is
\* collected for the next message, or is being compared and differs.
OnItsWay(t, p) ==
  \/ p \in terminal[t].pending
  \/ \E i \in DOMAIN terminal[t].events : terminal[t].events[i].path = p
  \/ terminal[t].checking = p /\ ~IsSuppressed(t)

\* What the registry expects of p is not what p holds.
Differs(p) == entries[p] = Absent \/ entries[p] # disk[p].text

UntoldOnItsWay ==
  \A t \in Terminals : \A p \in untold[t] : Differs(p) /\ OnItsWay(t, p)

ClosedHearNothing == \A t \in Terminals : ~terminal[t].open => untold[t] = {}

Suppression == UntoldOnItsWay /\ ClosedHearNothing

\* How far a run has come that makes the project's files: those it has
\* dealt with are on the disk, and later in its sandbox.
Undisturbed == budget.shell = 0 /\ budget.failures = 0
Present(p) == disk[p].text # Absent
Stage(w) ==
  /\ work[w].pc \in {"next", "rename", "chmod", "copy", "run"}
  /\ work[w].pc \in {"next", "rename", "chmod"} => \A p \in Paths \ work[w].todo : Present(p)
  /\ work[w].pc = "chmod" => Present(work[w].path)
  /\ work[w].pc = "copy" =>
       \A p \in Paths : Present(p) /\ (p \notin work[w].todo => sandbox[w][p] # Absent)
  /\ work[w].pc = "run" => \A p \in Paths : sandbox[w][p] # Absent
Building == Undisturbed => \A w \in Workers : work[w].kind = "build" => Stage(w)

IInv == TypeOK /\ InHand /\ Suppression /\ Building

-----------------------------------------------------------------------------
(***************************************************************************)
(* Types                                                                   *)
(***************************************************************************)
Budgets == [work : 0 .. MaxWork, shell : 0 .. MaxShell, failures : 0 .. MaxFailures]

LEMMA IdleType == Idle \in Work
  BY DEF Idle, Work

LEMMA ClosedType == Closed \in Watchers
  BY DEF Closed, Watchers

LEMMA InitType == Init => TypeOK
  <1> SUFFICES ASSUME Init PROVE TypeOK
    OBVIOUS
  <1> USE BoundsAssumption
  <1>1. work \in [Workers -> Work]
    BY IdleType DEF Init
  <1>2. terminal \in [Terminals -> Watchers]
    BY ClosedType DEF Init
  <1>3. disk \in [Paths -> OnDisk]
    BY DEF Init, OnDisk, Held
  <1>4. sandbox \in [Workers -> [Paths -> Held]]
    BY DEF Init, NoFiles, Held
  <1>5. budget \in Budgets
    BY DEF Init, Budgets
  <1>6. untold \in [Terminals -> SUBSET Paths] /\ entries \in [Paths -> Texts \cup {Absent}]
    BY DEF Init
  <1> QED
    BY <1>1, <1>2, <1>3, <1>4, <1>5, <1>6 DEF Init, TypeOK, Budgets

LEMMA SpendType ==
  ASSUME TypeOK
  PROVE  /\ Spend("work", MaxWork) => budget' \in Budgets
         /\ Spend("shell", MaxShell) => budget' \in Budgets
         /\ Spend("failures", MaxFailures) => budget' \in Budgets
  BY BoundsAssumption DEF TypeOK, Spend, Budgets

LEMMA ServeType ==
  ASSUME TypeOK, NEW w \in Workers, NEW r \in Work, Serve(w, r)
  PROVE  /\ work' \in [Workers -> Work]
         /\ work'[w] = r
         /\ \A v \in Workers \ {w} : work'[v] = work[v]
  BY DEF TypeOK, Serve

LEMMA DoneType ==
  ASSUME TypeOK, NEW w \in Workers
  PROVE  Done(w) \in Work
  <1> DEFINE s == work[w]
  <1>1. s \in Work
    BY DEF TypeOK
  <1>2. s.todo \ {s.path} \in SUBSET Paths
    BY <1>1 DEF Work
  <1> HIDE DEF s
  <1>3. [s EXCEPT !.pc = "next", !.todo = s.todo \ {s.path}, !.path = Absent, !.text = Absent] \in Work
    BY <1>1, <1>2 DEF Work
  <1> QED
    BY <1>3 DEF Done, s

LEMMA ReportShape ==
  ASSUME TypeOK, NEW evs \in Seq(Events), Report(evs)
  PROVE  /\ terminal' \in [Terminals -> Watchers]
         /\ \A t \in Terminals :
              /\ terminal'[t].open = terminal[t].open
              /\ terminal'[t].checking = terminal[t].checking
              /\ terminal'[t].entry = terminal[t].entry
              /\ terminal'[t].pending = terminal[t].pending
              /\ terminal'[t].events = IF terminal[t].open THEN terminal[t].events \o evs
                                       ELSE terminal[t].events
  <1>1. ASSUME NEW t \in Terminals
        PROVE  /\ terminal[t] \in Watchers
               /\ terminal[t].events \in Seq(Events)
               /\ terminal[t].events \o evs \in Seq(Events)
    <2>1. terminal[t] \in Watchers
      BY DEF TypeOK
    <2>2. terminal[t].events \in Seq(Events)
      BY <2>1 DEF Watchers
    <2> QED
      BY <2>1, <2>2
  <1> DEFINE new(t) == IF terminal[t].open THEN [terminal[t] EXCEPT !.events = @ \o evs] ELSE terminal[t]
  <1>2. ASSUME NEW t \in Terminals PROVE new(t) \in Watchers
    <2> DEFINE s == terminal[t]
               e == s.events \o evs
    <2>1. s \in Watchers /\ e \in Seq(Events)
      BY <1>1
    <2> HIDE DEF s, e
    <2>2. [s EXCEPT !.events = e] \in Watchers
      BY ONLY <2>1 DEF Watchers
    <2> QED
      BY <2>1, <2>2 DEF s, e
  <1>3. terminal' = [t \in Terminals |-> new(t)]
    BY DEF Report
  <1>4. terminal' \in [Terminals -> Watchers]
    BY <1>2, <1>3
  <1>5. ASSUME NEW t \in Terminals
        PROVE  /\ terminal'[t].open = terminal[t].open
               /\ terminal'[t].checking = terminal[t].checking
               /\ terminal'[t].entry = terminal[t].entry
               /\ terminal'[t].pending = terminal[t].pending
               /\ terminal'[t].events = IF terminal[t].open THEN terminal[t].events \o evs
                                        ELSE terminal[t].events
    <2> DEFINE s == terminal[t]
               e == s.events \o evs
    <2>1. s \in Watchers /\ e \in Seq(Events)
      BY <1>1
    <2>2. terminal'[t] = IF s.open THEN [s EXCEPT !.events = e] ELSE s
      BY <1>3
    <2> HIDE DEF s, e
    <2>3. /\ [s EXCEPT !.events = e].open = s.open
          /\ [s EXCEPT !.events = e].checking = s.checking
          /\ [s EXCEPT !.events = e].entry = s.entry
          /\ [s EXCEPT !.events = e].pending = s.pending
          /\ [s EXCEPT !.events = e].events = e
      BY ONLY <2>1 DEF Watchers
    <2> QED
      BY <2>2, <2>3 DEF s, e
  <1> QED
    BY <1>4, <1>5

LEMMA EventType ==
  ASSUME NEW p \in Paths, NEW op \in {"create", "write", "chmod", "remove"}
  PROVE  Event(p, op) \in Events /\ Event(p, op).path = p /\ <<Event(p, op)>> \in Seq(Events)
  BY DEF Event, Events

LEMMA RegisterType ==
  ASSUME TypeOK, NEW w \in Workers, NEW p \in Paths, NEW text \in Texts, NEW r \in Work,
         Register(w, p, text, r)
  PROVE  TypeOK' /\ work'[w] = r /\ \A v \in Workers \ {w} : work'[v] = work[v]
  <1>1. entries' \in [Paths -> Texts \cup {Absent}]
    BY DEF TypeOK, Register
  <1>2. untold' \in [Terminals -> SUBSET Paths]
    BY DEF TypeOK, Register, Told
  <1>3. /\ work' \in [Workers -> Work]
        /\ work'[w] = r
        /\ \A v \in Workers \ {w} : work'[v] = work[v]
    BY ServeType DEF Register
  <1> QED
    BY <1>1, <1>2, <1>3 DEF TypeOK, Register

LEMMA WriteType ==
  ASSUME TypeOK, NEW p \in Paths, NEW text \in Texts \cup {Empty}, Write(p, text)
  PROVE  /\ disk' \in [Paths -> OnDisk]
         /\ disk'[p].text = text
         /\ \A q \in Paths \ {p} : disk'[q] = disk[q]
         /\ \E op \in {"create", "write"} : Report(<<Event(p, op)>>)
  <1>1. disk[p] \in OnDisk
    BY DEF TypeOK
  <1>2. [disk[p] EXCEPT !.text = text] \in OnDisk
    BY <1>1 DEF OnDisk, Held
  <1>3. disk' = [disk EXCEPT ![p] = [disk[p] EXCEPT !.text = text]]
    BY DEF Write
  <1>4. disk' \in [Paths -> OnDisk] /\ disk'[p] = [disk[p] EXCEPT !.text = text]
    BY <1>2, <1>3 DEF TypeOK
  <1>5. disk'[p].text = text
    BY <1>1, <1>4 DEF OnDisk
  <1>6. \A q \in Paths \ {p} : disk'[q] = disk[q]
    BY <1>3 DEF TypeOK
  <1>7. \E op \in {"create", "write"} : Report(<<Event(p, op)>>)
    BY DEF Write
  <1> QED
    BY <1>4, <1>5, <1>6, <1>7

LEMMA ServeHand ==
  ASSUME TypeOK, InHand, NEW w \in Workers, NEW r \in Work, Serve(w, r),
         r.pc \in {"rename", "chmod", "register", "truncate", "write"} =>
           r.path \in Paths /\ r.text \in Texts
  PROVE  work' \in [Workers -> Work] /\ InHand'
  BY ServeType DEF InHand

LEMMA DoneHand ==
  ASSUME TypeOK, InHand, NEW w \in Workers, Serve(w, Done(w))
  PROVE  work' \in [Workers -> Work] /\ InHand'
  <1>1. work[w] \in Work
    BY DEF TypeOK
  <1>2. Done(w).pc = "next"
    BY <1>1 DEF Done, Work
  <1> QED
    BY <1>2, DoneType, ServeHand

LEMMA AcceptHand ==
  ASSUME TypeOK, InHand, NEW w \in Workers,
         NEW r \in Work, r.pc \in {"next", "stat"}, Accept(w, r)
  PROVE  TypeOK' /\ InHand'
  <1>1. work' \in [Workers -> Work] /\ InHand'
    BY ServeHand DEF Accept
  <1>2. budget' \in Budgets
    BY SpendType DEF Accept
  <1> QED
    BY <1>1, <1>2 DEF Accept, TypeOK, Budgets

LEMMA RequestType ==
  ASSUME NEW files \in SUBSET Paths
  PROVE  /\ Sync(files) \in Work /\ Sync(files).pc = "next" /\ Sync(files).kind = "sync"
         /\ [Idle EXCEPT !.kind = "replace", !.pc = "next", !.todo = files] \in Work
         /\ [Idle EXCEPT !.kind = "replace", !.pc = "next", !.todo = files].pc = "next"
         /\ [Idle EXCEPT !.kind = "replace", !.pc = "next", !.todo = files].kind = "replace"
         /\ [Idle EXCEPT !.kind = "run", !.pc = "stat"] \in Work
         /\ [Idle EXCEPT !.kind = "run", !.pc = "stat"].pc = "stat"
         /\ [Idle EXCEPT !.kind = "run", !.pc = "stat"].kind = "run"
  BY DEF Sync, Idle, Work

\* Steps that leave the directory and the watchers alone.
LEMMA RequestHand ==
  ASSUME TypeOK, InHand, NEW w \in Workers,
         \/ \E files \in SUBSET Paths :
              \/ HandleWorkspaceSync(w, files) \/ HandleReplace(w, files)
              \/ \E t \in Terminals : TerminalMessage(w, t, files)
         \/ RunCode(w)
  PROVE  TypeOK' /\ InHand'
  BY RequestType, AcceptHand DEF HandleWorkspaceSync, HandleReplace, TerminalMessage, RunCode

LEMMA SyncHand ==
  ASSUME TypeOK, InHand, NEW w \in Workers, SyncWorkspaceAtomicWithRegistry(w)
  PROVE  TypeOK' /\ InHand'
  <1> DEFINE s == work[w]
  <1>0. s \in Work
    BY DEF TypeOK
  <1>1. ASSUME NEW p \in Paths, NEW text \in Texts, SyncRegister(w, p, text)
        PROVE  TypeOK' /\ InHand'
    <2> DEFINE r == [s EXCEPT !.pc = "rename", !.path = p, !.text = text]
    <2>1. r \in Work /\ r.path = p /\ r.text = text
      BY <1>0 DEF Work
    <2>2. Register(w, p, text, r)
      BY <1>1 DEF SyncRegister
    <2> HIDE DEF r
    <2>3. TypeOK'
      BY <2>1, <2>2, RegisterType
    <2>4. InHand'
      BY <2>1, <2>2, ServeHand DEF Register
    <2> QED
      BY <2>3, <2>4
  <1>2. CASE SyncFail(w)
    <2>1. work' \in [Workers -> Work] /\ InHand'
      BY <1>2, DoneHand DEF SyncFail
    <2>2. budget' \in Budgets
      BY <1>2, SpendType DEF SyncFail
    <2> QED
      BY <1>2, <2>1, <2>2 DEF SyncFail, TypeOK, Budgets
  <1>3. CASE SyncInPlace(w)
    <2>1. [s EXCEPT !.pc = "truncate"] \in Work /\ s.path \in Paths /\ s.text \in Texts
          /\ [s EXCEPT !.pc = "truncate"].path = s.path /\ [s EXCEPT !.pc = "truncate"].text = s.text
      BY <1>0, <1>3 DEF Work, SyncInPlace, Doing, InHand
    <2>2. work' \in [Workers -> Work] /\ InHand'
      BY <1>3, <2>1, ServeHand DEF SyncInPlace
    <2>3. budget' \in Budgets
      BY <1>3, SpendType DEF SyncInPlace
    <2>4. disk[s.path] \in OnDisk
      BY <2>1 DEF TypeOK
    <2>5. [disk[s.path] EXCEPT !.locked = FALSE] \in OnDisk
      BY <2>4 DEF OnDisk
    <2>6. disk' = [disk EXCEPT ![s.path] = [disk[s.path] EXCEPT !.locked = FALSE]]
      BY <1>3 DEF SyncInPlace
    <2>7. disk' \in [Paths -> OnDisk]
      BY <2>5, <2>6 DEF TypeOK
    <2> QED
      BY <1>3, <2>2, <2>3, <2>7 DEF SyncInPlace, TypeOK, Budgets
  <1>4. CASE SyncRename(w)
    <2> DEFINE p == s.path
               r == [s EXCEPT !.pc = "chmod"]
               evs == (IF disk[p].text = Absent THEN << >> ELSE <<Event(p, "chmod")>>)
                        \o <<Event(p, "create")>>
    <2>1. p \in Paths /\ s.text \in Texts
      BY <1>4 DEF SyncRename, Doing, InHand
    <2>2. r \in Work /\ r.path = p /\ r.text = s.text
      BY <1>0 DEF Work
    <2>3. evs \in Seq(Events)
      BY <2>1, EventType
    <2>4. Serve(w, r) /\ Report(evs)
      BY <1>4 DEF SyncRename
    <2> HIDE DEF r, evs
    <2>5. work' \in [Workers -> Work] /\ InHand'
      BY <2>1, <2>2, <2>4, ServeHand
    <2>6. terminal' \in [Terminals -> Watchers]
      BY <2>3, <2>4, ReportShape
    <2>7. disk' \in [Paths -> OnDisk]
      <3>1. [text |-> s.text, locked |-> FALSE] \in OnDisk
        BY <2>1 DEF OnDisk, Held
      <3>2. disk' = [disk EXCEPT ![p] = [text |-> s.text, locked |-> FALSE]]
        BY <1>4 DEF SyncRename
      <3> QED
        BY <3>1, <3>2 DEF TypeOK
    <2>8. untold' \in [Terminals -> SUBSET Paths]
      BY <1>4 DEF SyncRename, Told, TypeOK
    <2> QED
      BY <1>4, <2>5, <2>6, <2>7, <2>8 DEF SyncRename, TypeOK
  <1>5. CASE Finish(w)
    <2>1. [s EXCEPT !.pc = "copy", !.todo = Paths] \in Work
          /\ [s EXCEPT !.pc = "copy", !.todo = Paths].pc = "copy"
      BY <1>0 DEF Work
    <2>2. Idle.pc = "idle"
      BY DEF Idle
    <2>3. work' \in [Workers -> Work] /\ InHand'
      BY <1>5, <2>1, <2>2, IdleType, ServeHand DEF Finish
    <2> QED
      BY <1>5, <2>3 DEF Finish, TypeOK
  <1>6. ASSUME NEW locked \in BOOLEAN, SyncChmod(w, locked)
        PROVE  TypeOK' /\ InHand'
    <2> DEFINE p == s.path
    <2>1. p \in Paths
      BY <1>6 DEF SyncChmod, Doing, InHand
    <2>2. work' \in [Workers -> Work] /\ InHand'
      BY <1>6, DoneHand DEF SyncChmod
    <2>3. terminal' \in [Terminals -> Watchers]
      <3>1. CASE disk[p].text = Absent
        BY <1>6, <3>1 DEF SyncChmod, TypeOK
      <3>2. CASE disk[p].text # Absent
        BY <1>6, <3>2, <2>1, EventType, ReportShape DEF SyncChmod
      <3> QED
        BY <3>1, <3>2
    <2>4. disk' \in [Paths -> OnDisk]
      <3>1. disk[p] \in OnDisk
        BY <2>1 DEF TypeOK
      <3>2. [disk[p] EXCEPT !.locked = locked] \in OnDisk
        BY <3>1 DEF OnDisk
      <3>3. disk' = disk \/ disk' = [disk EXCEPT ![p] = [disk[p] EXCEPT !.locked = locked]]
        BY <1>6 DEF SyncChmod
      <3> QED
        BY <3>2, <3>3 DEF TypeOK
    <2> QED
      BY <1>6, <2>2, <2>3, <2>4 DEF SyncChmod, TypeOK
  <1> QED
    BY <1>1, <1>2, <1>3, <1>4, <1>5, <1>6 DEF SyncWorkspaceAtomicWithRegistry

LEMMA ReplaceHand ==
  ASSUME TypeOK, InHand, NEW w \in Workers, Replace(w)
  PROVE  TypeOK' /\ InHand'
  <1> DEFINE s == work[w]
  <1>0. s \in Work
    BY DEF TypeOK
  <1>1. ASSUME NEW p \in Paths, ReplaceRead(w, p)
        PROVE  TypeOK' /\ InHand'
    <2> DEFINE text == disk[p].text
               r1 == [s EXCEPT !.pc = "register", !.path = p, !.text = Replacement[text]]
               r2 == [s EXCEPT !.todo = s.todo \ {p}]
    <2>1. CASE text \in Texts /\ Replacement[text] # text
      <3>1. Replacement[text] \in Texts
        BY <2>1, ReplacementAssumption
      <3>2. r1 \in Work /\ r1.path = p /\ r1.text = Replacement[text]
        BY <1>0, <3>1 DEF Work
      <3>3. Serve(w, r1)
        BY <1>1, <2>1 DEF ReplaceRead
      <3>4. work' \in [Workers -> Work] /\ InHand'
        BY <3>1, <3>2, <3>3, ServeHand
      <3> QED
        BY <1>1, <3>4 DEF ReplaceRead, TypeOK
    <2>2. CASE ~(text \in Texts /\ Replacement[text] # text)
      <3>1. s.todo \in SUBSET Paths
        BY <1>0 DEF Work
      <3>2. r2 \in Work /\ r2.pc = "next"
        BY <1>0, <3>1, <1>1 DEF Work, ReplaceRead, Doing
      <3>3. Serve(w, r2)
        BY <1>1, <2>2 DEF ReplaceRead
      <3>4. work' \in [Workers -> Work] /\ InHand'
        BY <3>2, <3>3, ServeHand
      <3> QED
        BY <1>1, <3>4 DEF ReplaceRead, TypeOK
    <2> QED
      BY <2>1, <2>2
  <1>2. CASE ReplaceRegister(w)
    <2> DEFINE r == [s EXCEPT !.pc = "truncate"]
    <2>1. s.path \in Paths /\ s.text \in Texts
      BY <1>2 DEF ReplaceRegister, Doing, InHand
    <2>2. r \in Work /\ r.path = s.path /\ r.text = s.text
      BY <1>0 DEF Work
    <2>3. Register(w, s.path, s.text, r)
      BY <1>2 DEF ReplaceRegister
    <2> HIDE DEF r
    <2> QED
      BY <2>1, <2>2, <2>3, RegisterType, ServeHand DEF Register
  <1>3. CASE Truncate(w)
    <2> DEFINE p == s.path
    <2>1. p \in Paths /\ s.text \in Texts
      BY <1>3 DEF Truncate, Doing, InHand
    <2>2. CASE disk[p].locked
      <3>1. Serve(w, Done(w)) /\ UNCHANGED <<disk, terminal, untold, rcfile, entries, sandbox, budget>>
        BY <1>3, <2>2 DEF Truncate
      <3> QED
        BY <3>1, DoneHand DEF TypeOK
    <2>3. CASE ~disk[p].locked
      <3> DEFINE r == [s EXCEPT !.pc = "write"]
      <3>1. Write(p, Empty) /\ Told(p) /\ Serve(w, r) /\ UNCHANGED <<rcfile, entries, sandbox, budget>>
        BY <1>3, <2>3 DEF Truncate
      <3>2. r \in Work /\ r.path = p /\ r.text = s.text
        BY <1>0 DEF Work
      <3>3. work' \in [Workers -> Work] /\ InHand'
        BY <2>1, <3>1, <3>2, ServeHand
      <3>4. disk' \in [Paths -> OnDisk] /\ terminal' \in [Terminals -> Watchers]
        BY <2>1, <3>1, WriteType, EventType, ReportShape
      <3>5. untold' \in [Terminals -> SUBSET Paths]
        BY <3>1 DEF Told, TypeOK
      <3> QED
        BY <3>1, <3>3, <3>4, <3>5 DEF TypeOK
    <2> QED
      BY <2>2, <2>3
  <1>4. CASE WriteText(w)
    <2> DEFINE p == s.path
               r == [s EXCEPT !.pc = "chmod"]
    <2>1. p \in Paths /\ s.text \in Texts
      BY <1>4 DEF WriteText, Doing, InHand
    <2>2. r \in Work /\ r.path = p /\ r.text = s.text
      BY <1>0 DEF Work
    <2>3. work' \in [Workers -> Work] /\ InHand'
      <3>1. CASE s.kind = "replace"
        BY <1>4, <3>1, DoneHand DEF WriteText
      <3>2. CASE s.kind # "replace"
        BY <1>4, <3>2, <2>1, <2>2, ServeHand DEF WriteText
      <3> QED
        BY <3>1, <3>2
    <2>4. CASE disk[p].text = Absent
      BY <1>4, <2>3, <2>4 DEF WriteText, TypeOK
    <2>5. CASE disk[p].text # Absent
      <3>1. Write(p, s.text) /\ Told(p)
        BY <1>4, <2>5 DEF WriteText
      <3>2. disk' \in [Paths -> OnDisk] /\ terminal' \in [Terminals -> Watchers]
        BY <2>1, <3>1, WriteType, EventType, ReportShape
      <3>3. untold' \in [Terminals -> SUBSET Paths]
        BY <3>1 DEF Told, TypeOK
      <3> QED
        BY <1>4, <2>3, <3>2, <3>3 DEF WriteText, TypeOK
    <2> QED
      BY <2>4, <2>5
  <1> QED
    BY <1>1, <1>2, <1>3, <1>4 DEF Replace

LEMMA RunHand ==
  ASSUME TypeOK, InHand, NEW w \in Workers,
         \/ MaterializeWorkspaceFromManifest(w) \/ FetchManifest(w)
         \/ CreateEphemeralSandbox(w) \/ Answer(w)
  PROVE  TypeOK' /\ InHand'
  <1> DEFINE s == work[w]
  <1>0. s \in Work
    BY DEF TypeOK
  <1>1. CASE MaterializeWorkspaceFromManifest(w)
    <2>1. /\ [s EXCEPT !.pc = "copy", !.todo = Paths] \in Work
          /\ [s EXCEPT !.pc = "copy", !.todo = Paths].pc = "copy"
          /\ [s EXCEPT !.pc = "fetch"] \in Work
          /\ [s EXCEPT !.pc = "fetch"].pc = "fetch"
      BY <1>0 DEF Work
    <2>2. work' \in [Workers -> Work] /\ InHand'
      BY <1>1, <2>1, ServeHand DEF MaterializeWorkspaceFromManifest
    <2> QED
      BY <1>1, <2>2 DEF MaterializeWorkspaceFromManifest, TypeOK
  <1>2. CASE FetchManifest(w)
    <2> DEFINE r == [s EXCEPT !.kind = "build", !.pc = "next", !.todo = Paths]
               q == [s EXCEPT !.pc = "copy"]
    <2>1. r \in Work /\ r.pc = "next" /\ q \in Work /\ q.pc = "copy"
      BY <1>0 DEF Work
    <2>2. CASE Serve(w, r) /\ UNCHANGED budget
      BY <1>2, <2>1, <2>2, ServeHand DEF FetchManifest, TypeOK
    <2>3. CASE Spend("failures", MaxFailures) /\ Serve(w, q)
      <3>1. work' \in [Workers -> Work] /\ InHand'
        BY <2>1, <2>3, ServeHand
      <3>2. budget' \in Budgets
        BY <2>3, SpendType
      <3> QED
        BY <1>2, <3>1, <3>2 DEF FetchManifest, TypeOK, Budgets
    <2> QED
      BY <1>2, <2>2, <2>3 DEF FetchManifest
  <1>3. ASSUME NEW p \in Paths, CopyFile(w, p)
        PROVE  TypeOK' /\ InHand'
    <2> DEFINE r == [s EXCEPT !.todo = s.todo \ {p}]
    <2>0. s.todo \ {p} \in SUBSET Paths
      BY <1>0 DEF Work
    <2>1. r \in Work /\ r.pc = "copy"
      BY <1>0, <2>0, <1>3 DEF Work, CopyFile, Doing
    <2>2. Serve(w, r)
      BY <1>3 DEF CopyFile
    <2>3. work' \in [Workers -> Work] /\ InHand'
      BY <2>1, <2>2, ServeHand
    <2>4. disk[p].text \in Held
      BY DEF TypeOK, OnDisk
    <2>5. sandbox' \in [Workers -> [Paths -> Held]]
      BY <1>3, <2>4 DEF CopyFile, TypeOK
    <2> QED
      BY <1>3, <2>3, <2>5 DEF CopyFile, TypeOK
  <1>4. ASSUME NEW files \in SUBSET Paths, NEW text \in Texts, LayerOverlay(w, files, text)
        PROVE  TypeOK' /\ InHand'
    <2>1. [s EXCEPT !.pc = "run"] \in Work /\ [s EXCEPT !.pc = "run"].pc = "run"
      BY <1>0 DEF Work
    <2>2. work' \in [Workers -> Work] /\ InHand'
      BY <1>4, <2>1, ServeHand DEF LayerOverlay
    <2>3. [p \in Paths |-> IF p \in files THEN text ELSE sandbox[w][p]] \in [Paths -> Held]
      BY DEF TypeOK, Held
    <2>4. sandbox' \in [Workers -> [Paths -> Held]]
      BY <1>4, <2>3 DEF LayerOverlay, TypeOK
    <2> QED
      BY <1>4, <2>2, <2>4 DEF LayerOverlay, TypeOK
  <1>5. CASE Answer(w)
    <2>1. Idle.pc = "idle"
      BY DEF Idle
    <2>2. work' \in [Workers -> Work] /\ InHand'
      BY <1>5, <2>1, IdleType, ServeHand DEF Answer
    <2>3. sandbox' \in [Workers -> [Paths -> Held]]
      BY <1>5 DEF Answer, NoFiles, Held, TypeOK
    <2> QED
      BY <1>5, <2>2, <2>3 DEF Answer, TypeOK
  <1> QED
    BY <1>1, <1>2, <1>3, <1>4, <1>5 DEF CreateEphemeralSandbox

\* The watcher takes an event, answers for the one it compares, or tells.
LEMMA WatcherFields ==
  ASSUME TypeOK, NEW t \in Terminals
  PROVE  /\ terminal[t] \in Watchers
         /\ terminal[t].open \in BOOLEAN
         /\ terminal[t].events \in Seq(Events)
         /\ terminal[t].checking \in Paths \cup {Absent}
         /\ terminal[t].entry \in Texts \cup {Absent}
         /\ terminal[t].pending \in SUBSET Paths
  BY DEF TypeOK, Watchers

LEMMA WatchType ==
  ASSUME TypeOK, NEW t \in Terminals, NEW r \in Watchers, Watch(t, r)
  PROVE  /\ terminal' \in [Terminals -> Watchers]
         /\ terminal'[t] = r
         /\ \A u \in Terminals \ {t} : terminal'[u] = terminal[u]
  BY DEF TypeOK, Watch

LEMMA HeadType ==
  ASSUME TypeOK, NEW t \in Terminals, terminal[t].events # << >>
  PROVE  /\ Head(terminal[t].events).path \in Paths
         /\ Tail(terminal[t].events) \in Seq(Events)
         /\ \A i \in DOMAIN terminal[t].events :
              \/ terminal[t].events[i] = Head(terminal[t].events)
              \/ /\ i - 1 \in DOMAIN Tail(terminal[t].events)
                 /\ Tail(terminal[t].events)[i - 1] = terminal[t].events[i]
  <1> DEFINE q == terminal[t].events
  <1>1. q \in Seq(Events) /\ q # << >>
    BY WatcherFields
  <1> HIDE DEF q
  <1>2. Head(q) \in Events /\ Tail(q) \in Seq(Events)
    BY ONLY <1>1
  <1>3. Head(q).path \in Paths
    BY <1>2 DEF Events
  <1>4. \A i \in DOMAIN q : q[i] = Head(q) \/ (i - 1 \in DOMAIN Tail(q) /\ Tail(q)[i - 1] = q[i])
    BY ONLY <1>1
  <1> QED
    BY <1>2, <1>3, <1>4 DEF q

\* What a step of the watcher makes of its record.
LEMMA ReceiveShape ==
  ASSUME TypeOK, NEW t \in Terminals, Receive(t)
  PROVE  \E r \in Watchers :
           /\ Watch(t, r)
           /\ r.open = terminal[t].open
           /\ r.events = Tail(terminal[t].events)
           /\ \/ /\ r.checking = Head(terminal[t].events).path
                 /\ r.entry = entries[Head(terminal[t].events).path]
                 /\ r.pending = terminal[t].pending
              \/ /\ r.checking = Absent
                 /\ r.pending = terminal[t].pending \cup {Head(terminal[t].events).path}
  <1> DEFINE s == terminal[t]
             e == Head(s.events)
             rest == [s EXCEPT !.events = Tail(s.events)]
             r1 == [rest EXCEPT !.checking = e.path, !.entry = entries[e.path]]
             r2 == [rest EXCEPT !.pending = s.pending \cup {e.path}]
  <1>1. s \in Watchers /\ e.path \in Paths /\ Tail(s.events) \in Seq(Events)
    BY WatcherFields, HeadType DEF Receive
  <1>2. entries[e.path] \in Texts \cup {Absent}
    BY <1>1 DEF TypeOK
  <1>3. /\ rest \in Watchers /\ rest.open = s.open /\ rest.events = Tail(s.events)
        /\ rest.checking = s.checking /\ rest.pending = s.pending
    BY <1>1 DEF Watchers
  <1>4. s.pending \cup {e.path} \in SUBSET Paths
    BY <1>1, WatcherFields
  <1>5. \/ Watch(t, r1)
        \/ Watch(t, r2)
    BY <1>3 DEF Receive
  <1>6. s.checking = Absent
    BY DEF Receive
  <1> HIDE DEF rest, e
  <1>7. /\ r1 \in Watchers /\ r1.open = rest.open /\ r1.events = rest.events
        /\ r1.checking = e.path /\ r1.entry = entries[e.path] /\ r1.pending = rest.pending
    BY <1>1, <1>2, <1>3 DEF Watchers
  <1>8. /\ r2 \in Watchers /\ r2.open = rest.open /\ r2.events = rest.events
        /\ r2.checking = rest.checking /\ r2.pending = s.pending \cup {e.path}
    BY <1>3, <1>4 DEF Watchers
  <1>9. CASE Watch(t, r1)
    BY <1>9, <1>7, <1>3 DEF e
  <1>10. CASE Watch(t, r2)
    BY <1>10, <1>8, <1>3, <1>6 DEF e
  <1> QED
    BY <1>5, <1>9, <1>10

LEMMA CompareShape ==
  ASSUME TypeOK, NEW t \in Terminals, StartWorkspaceWatcher(t)
  PROVE  /\ terminal[t].checking \in Paths
         /\ \E r \in Watchers :
              /\ Watch(t, r)
              /\ r.open = terminal[t].open
              /\ r.events = terminal[t].events
              /\ r.pending = IF IsSuppressed(t) THEN terminal[t].pending
                             ELSE terminal[t].pending \cup {terminal[t].checking}
  <1> DEFINE s == terminal[t]
             r == [s EXCEPT !.checking = Absent, !.entry = Absent]
             r2 == [r EXCEPT !.pending = s.pending \cup {s.checking}]
  <1>1. s \in Watchers /\ s.checking \in Paths
    BY WatcherFields DEF StartWorkspaceWatcher
  <1>2. r \in Watchers /\ r.open = s.open /\ r.events = s.events /\ r.pending = s.pending
    BY <1>1 DEF Watchers
  <1>3. s.pending \cup {s.checking} \in SUBSET Paths
    BY <1>1, WatcherFields
  <1>4. Watch(t, IF IsSuppressed(t) THEN r ELSE r2)
    BY <1>2 DEF StartWorkspaceWatcher
  <1> HIDE DEF r
  <1>5. /\ r2 \in Watchers /\ r2.open = r.open /\ r2.events = r.events
        /\ r2.pending = s.pending \cup {s.checking}
    BY <1>2, <1>3 DEF Watchers
  <1> QED
    BY <1>1, <1>2, <1>4, <1>5

LEMMA WatcherHand ==
  ASSUME TypeOK, InHand, NEW t \in Terminals, WatcherStep(t)
  PROVE  TypeOK' /\ InHand'
  <1>1. CASE Receive(t)
    <2>1. terminal' \in [Terminals -> Watchers]
      BY <1>1, ReceiveShape, WatchType
    <2> QED
      BY <1>1, <2>1 DEF Receive, TypeOK, InHand
  <1>2. CASE StartWorkspaceWatcher(t)
    <2>1. terminal' \in [Terminals -> Watchers]
      BY <1>2, CompareShape, WatchType
    <2>2. entries' \in [Paths -> Texts \cup {Absent}]
      BY <1>2 DEF StartWorkspaceWatcher, TypeOK
    <2> QED
      BY <1>2, <2>1, <2>2 DEF StartWorkspaceWatcher, TypeOK, InHand
  <1>3. CASE FlushEvents(t)
    <2>1. [terminal[t] EXCEPT !.pending = {}] \in Watchers
      BY WatcherFields DEF Watchers
    <2>2. terminal' \in [Terminals -> Watchers]
      BY <1>3, <2>1, WatchType DEF FlushEvents
    <2>3. untold' \in [Terminals -> SUBSET Paths]
      BY <1>3 DEF FlushEvents, TypeOK
    <2> QED
      BY <1>3, <2>2, <2>3 DEF FlushEvents, TypeOK, InHand
  <1> QED
    BY <1>1, <1>2, <1>3 DEF WatcherStep

LEMMA TerminalHand ==
  ASSUME TypeOK, InHand, NEW t \in Terminals, ServeWS(t) \/ Close(t)
  PROVE  TypeOK' /\ InHand'
  <1>1. [Closed EXCEPT !.open = TRUE] \in Watchers
    BY ClosedType DEF Watchers
  <1>2. terminal' \in [Terminals -> Watchers]
    BY <1>1, ClosedType DEF ServeWS, Close, TypeOK
  <1>3. untold' \in [Terminals -> SUBSET Paths]
    BY DEF ServeWS, Close, TypeOK
  <1> QED
    BY <1>2, <1>3 DEF ServeWS, Close, TypeOK, InHand

LEMMA ShellHand ==
  ASSUME TypeOK, InHand, NEW p \in Paths,
         ShellRemove(p) \/ Expire(p) \/ \E text \in Texts : ShellWrite(p, text)
  PROVE  TypeOK' /\ InHand'
  <1>1. CASE ShellRemove(p)
    <2>1. budget' \in Budgets
      BY <1>1, SpendType DEF ShellRemove
    <2>2. [text |-> Absent, locked |-> FALSE] \in OnDisk
      BY DEF OnDisk, Held
    <2>3. disk' \in [Paths -> OnDisk]
      BY <1>1, <2>2 DEF ShellRemove, TypeOK
    <2>4. terminal' \in [Terminals -> Watchers]
      BY <1>1, EventType, ReportShape DEF ShellRemove
    <2>5. untold' \in [Terminals -> SUBSET Paths]
      BY <1>1 DEF ShellRemove, Untell, TypeOK
    <2> QED
      BY <1>1, <2>1, <2>3, <2>4, <2>5 DEF ShellRemove, TypeOK, InHand, Budgets
  <1>2. CASE Expire(p)
    <2>1. entries' \in [Paths -> Texts \cup {Absent}]
      BY <1>2 DEF Expire, TypeOK
    <2> QED
      BY <1>2, <2>1 DEF Expire, TypeOK, InHand
  <1>3. ASSUME NEW text \in Texts, ShellWrite(p, text)
        PROVE  TypeOK' /\ InHand'
    <2>1. budget' \in Budgets
      BY <1>3, SpendType DEF ShellWrite
    <2>2. disk' \in [Paths -> OnDisk] /\ terminal' \in [Terminals -> Watchers]
      BY <1>3, WriteType, EventType, ReportShape DEF ShellWrite
    <2>3. untold' \in [Terminals -> SUBSET Paths]
      BY <1>3 DEF ShellWrite, Untell, Told, TypeOK
    <2> QED
      BY <1>3, <2>1, <2>2, <2>3 DEF ShellWrite, TypeOK, InHand, Budgets
  <1> QED
    BY <1>1, <1>2, <1>3

LEMMA NextHand ==
  ASSUME TypeOK, InHand, [Next]_vars
  PROVE  TypeOK' /\ InHand'
  <1>1. CASE UNCHANGED vars
    BY <1>1 DEF vars, TypeOK, InHand
  <1>2. CASE Next
    BY <1>2, RequestHand, SyncHand, ReplaceHand, RunHand, TerminalHand, WatcherHand, ShellHand
       DEF Next
  <1> QED
    BY <1>1, <1>2

-----------------------------------------------------------------------------
(***************************************************************************)
(* Suppression: what keeps a change that has not been told on its way.     *)
(***************************************************************************)

\* New events change nothing for a path that holds what it held.
LEMMA ReportKeeps ==
  ASSUME TypeOK, NEW evs \in Seq(Events), Report(evs) \/ UNCHANGED terminal,
         NEW t \in Terminals, NEW p \in Paths, OnItsWay(t, p), disk'[p].text = disk[p].text
  PROVE  OnItsWay(t, p)'
  <1>1. CASE UNCHANGED terminal
    BY <1>1 DEF OnItsWay, IsSuppressed
  <1>2. CASE Report(evs)
    <2>1. /\ terminal'[t].checking = terminal[t].checking
          /\ terminal'[t].entry = terminal[t].entry
          /\ terminal'[t].pending = terminal[t].pending
          /\ terminal'[t].events = IF terminal[t].open THEN terminal[t].events \o evs
                                   ELSE terminal[t].events
      BY <1>2, ReportShape
    <2>2. CASE p \in terminal[t].pending
      BY <2>1, <2>2 DEF OnItsWay
    <2>3. ASSUME NEW i \in DOMAIN terminal[t].events, terminal[t].events[i].path = p
          PROVE  OnItsWay(t, p)'
      <3>1. terminal[t].events \in Seq(Events)
        BY WatcherFields
      <3>2. i \in DOMAIN (terminal[t].events \o evs)
            /\ (terminal[t].events \o evs)[i] = terminal[t].events[i]
        BY <3>1
      <3> QED
        BY <2>1, <2>3, <3>2 DEF OnItsWay
    <2>4. CASE terminal[t].checking = p /\ ~IsSuppressed(t)
      BY <2>1, <2>4 DEF OnItsWay, IsSuppressed
    <2> QED
      BY <2>2, <2>3, <2>4 DEF OnItsWay
  <1> QED
    BY <1>1, <1>2

\* An event of a path that is reported is on its way.
LEMMA ReportArrives ==
  ASSUME TypeOK, NEW p \in Paths, NEW op \in {"create", "write", "chmod", "remove"},
         Report(<<Event(p, op)>>), NEW t \in Terminals, terminal[t].open
  PROVE  OnItsWay(t, p)'
  <1> DEFINE q == terminal[t].events \o <<Event(p, op)>>
  <1>1. terminal'[t].events = q
    BY EventType, ReportShape
  <1>2. terminal[t].events \in Seq(Events)
    BY WatcherFields
  <1>3. Len(q) \in DOMAIN q /\ q[Len(q)] = Event(p, op)
    BY <1>2
  <1>4. q[Len(q)].path = p
    BY <1>3, EventType
  <1> HIDE DEF q
  <1> QED
    BY <1>1, <1>3, <1>4 DEF OnItsWay

\* The gateway's steps: whatever they write has been told, or overwrites.
LEMMA GatewayKeeps ==
  ASSUME TypeOK, Suppression, NEW evs \in Seq(Events), Report(evs) \/ UNCHANGED terminal,
         \A t \in Terminals : untold'[t] \subseteq untold[t],
         \A t \in Terminals : \A p \in untold'[t] :
           disk'[p].text = disk[p].text /\ (entries'[p] = entries[p] \/ Differs(p)')
  PROVE  Suppression'
  <1>1. ASSUME NEW t \in Terminals, NEW p \in untold'[t]
        PROVE  Differs(p)' /\ OnItsWay(t, p)'
    <2>1. p \in untold[t] /\ p \in Paths
      BY DEF TypeOK
    <2>2. Differs(p) /\ OnItsWay(t, p)
      BY <2>1 DEF Suppression, UntoldOnItsWay
    <2>3. Differs(p)'
      BY <2>2 DEF Differs
    <2> QED
      BY <2>1, <2>2, <2>3, ReportKeeps
  <1>2. ClosedHearNothing'
    <2>1. ASSUME NEW t \in Terminals PROVE terminal'[t].open = terminal[t].open
      BY ReportShape
    <2> QED
      BY <2>1 DEF Suppression, ClosedHearNothing
  <1> QED
    BY <1>1, <1>2 DEF Suppression, UntoldOnItsWay

LEMMA ToldShape ==
  ASSUME TypeOK, NEW p \in Paths, Told(p)
  PROVE  \A t \in Terminals : untold'[t] = untold[t] \ {p}
  BY DEF TypeOK, Told

\* Steps that neither touch the files' texts nor the registry.
LEMMA QuietKeeps ==
  ASSUME TypeOK, Suppression, UNCHANGED <<disk, entries, terminal, untold>>
  PROVE  Suppression'
  <1>1. << >> \in Seq(Events)
    OBVIOUS
  <1> QED
    BY <1>1, GatewayKeeps

LEMMA RegisterKeeps ==
  ASSUME TypeOK, Suppression, NEW w \in Workers, NEW p \in Paths, NEW text \in Texts, NEW r,
         Register(w, p, text, r)
  PROVE  Suppression'
  <1>1. \A q \in Paths : entries'[q] = IF q = p THEN text ELSE entries[q]
    BY DEF Register, TypeOK
  <1>2. \A t \in Terminals : untold'[t] = IF disk[p].text = text THEN untold[t] \ {p} ELSE untold[t]
    BY ToldShape DEF Register
  <1>3. UNCHANGED disk /\ UNCHANGED terminal /\ << >> \in Seq(Events)
    BY DEF Register
  <1>4. ASSUME NEW t \in Terminals, NEW q \in untold'[t]
        PROVE  disk'[q].text = disk[q].text /\ (entries'[q] = entries[q] \/ Differs(q)')
    <2>1. q \in Paths
      BY <1>2 DEF TypeOK
    <2> QED
      BY <1>1, <1>2, <1>3, <2>1 DEF Differs
  <1>5. \A t \in Terminals : untold'[t] \subseteq untold[t]
    BY <1>2
  <1> QED
    BY <1>3, <1>4, <1>5, GatewayKeeps

\* A file written by the gateway: nobody waits to hear of it any more.
LEMMA OverwriteKeeps ==
  ASSUME TypeOK, Suppression, NEW p \in Paths, NEW evs \in Seq(Events), Report(evs),
         \A q \in Paths \ {p} : disk'[q] = disk[q], Told(p), UNCHANGED entries
  PROVE  Suppression'
  <1>1. \A t \in Terminals : untold'[t] = untold[t] \ {p} /\ untold[t] \subseteq Paths
    BY ToldShape DEF TypeOK
  <1> QED
    BY <1>1, GatewayKeeps

LEMMA SyncSuppression ==
  ASSUME TypeOK, InHand, Suppression, NEW w \in Workers, SyncWorkspaceAtomicWithRegistry(w)
  PROVE  Suppression'
  <1> DEFINE p == work[w].path
  <1>1. ASSUME NEW q \in Paths, NEW text \in Texts, SyncRegister(w, q, text)
        PROVE  Suppression'
    BY <1>1, RegisterKeeps DEF SyncRegister
  <1>2. CASE SyncFail(w)
    BY <1>2, QuietKeeps DEF SyncFail
  <1>3. CASE SyncInPlace(w)
    <2>1. p \in Paths
      BY <1>3 DEF SyncInPlace, Doing, InHand
    <2>2. disk[p] \in OnDisk /\ disk' = [disk EXCEPT ![p] = [disk[p] EXCEPT !.locked = FALSE]]
      BY <1>3, <2>1 DEF SyncInPlace, TypeOK
    <2>3. \A q \in Paths : disk'[q].text = disk[q].text
      BY <2>1, <2>2 DEF OnDisk, TypeOK
    <2>4. << >> \in Seq(Events) /\ UNCHANGED terminal /\ UNCHANGED untold /\ UNCHANGED entries
      BY <1>3 DEF SyncInPlace
    <2>5. \A t \in Terminals : untold[t] \subseteq Paths
      BY DEF TypeOK
    <2> QED
      BY <2>3, <2>4, <2>5, GatewayKeeps
  <1>4. CASE SyncRename(w)
    <2> DEFINE evs == (IF disk[p].text = Absent THEN << >> ELSE <<Event(p, "chmod")>>)
                        \o <<Event(p, "create")>>
    <2>1. p \in Paths
      BY <1>4 DEF SyncRename, Doing, InHand
    <2>2. evs \in Seq(Events)
      BY <2>1, EventType
    <2>3. Report(evs) /\ Told(p) /\ UNCHANGED entries
      BY <1>4 DEF SyncRename
    <2>4. \A q \in Paths \ {p} : disk'[q] = disk[q]
      BY <1>4 DEF SyncRename, TypeOK
    <2> HIDE DEF evs
    <2> QED
      BY <2>1, <2>2, <2>3, <2>4, OverwriteKeeps
  <1>5. CASE Finish(w)
    BY <1>5, QuietKeeps DEF Finish
  <1>6. ASSUME NEW locked \in BOOLEAN, SyncChmod(w, locked)
        PROVE  Suppression'
    <2>1. p \in Paths
      BY <1>6 DEF SyncChmod, Doing, InHand
    <2>2. CASE disk[p].text = Absent
      BY <1>6, <2>2, QuietKeeps DEF SyncChmod
    <2>3. CASE disk[p].text # Absent
      <3>1. disk[p] \in OnDisk /\ disk' = [disk EXCEPT ![p] = [disk[p] EXCEPT !.locked = locked]]
        BY <1>6, <2>1, <2>3 DEF SyncChmod, TypeOK
      <3>2. \A q \in Paths : disk'[q].text = disk[q].text
        BY <2>1, <3>1 DEF OnDisk, TypeOK
      <3>3. Report(<<Event(p, "chmod")>>) /\ UNCHANGED untold /\ UNCHANGED entries
        BY <1>6, <2>3 DEF SyncChmod
      <3>4. <<Event(p, "chmod")>> \in Seq(Events)
        BY <2>1, EventType
      <3>5. \A t \in Terminals : untold[t] \subseteq Paths
        BY DEF TypeOK
      <3> QED
        BY <3>2, <3>3, <3>4, <3>5, GatewayKeeps
    <2> QED
      BY <2>2, <2>3
  <1> QED
    BY <1>1, <1>2, <1>3, <1>4, <1>5, <1>6 DEF SyncWorkspaceAtomicWithRegistry

LEMMA ReplaceSuppression ==
  ASSUME TypeOK, InHand, Suppression, NEW w \in Workers, Replace(w)
  PROVE  Suppression'
  <1> DEFINE p == work[w].path
  <1>1. CASE \E q \in Paths : ReplaceRead(w, q)
    BY <1>1, QuietKeeps DEF ReplaceRead
  <1>2. CASE ReplaceRegister(w)
    <2>1. p \in Paths /\ work[w].text \in Texts
      BY <1>2 DEF ReplaceRegister, Doing, InHand
    <2> QED
      BY <1>2, <2>1, RegisterKeeps DEF ReplaceRegister
  <1>3. ASSUME NEW text \in Texts \cup {Empty}, p \in Paths, Write(p, text), Told(p),
               UNCHANGED entries
        PROVE  Suppression'
    <2>1. PICK op \in {"create", "write"} : Report(<<Event(p, op)>>)
      BY <1>3, WriteType
    <2>2. <<Event(p, op)>> \in Seq(Events)
      BY <1>3, EventType
    <2>3. \A q \in Paths \ {p} : disk'[q] = disk[q]
      BY <1>3, WriteType
    <2> QED
      BY <1>3, <2>1, <2>2, <2>3, OverwriteKeeps
  <1>4. CASE Truncate(w)
    <2>1. p \in Paths
      BY <1>4 DEF Truncate, Doing, InHand
    <2>2. CASE disk[p].locked
      BY <1>4, <2>2, QuietKeeps DEF Truncate
    <2>3. CASE ~disk[p].locked
      BY <1>3, <1>4, <2>1, <2>3 DEF Truncate
    <2> QED
      BY <2>2, <2>3
  <1>5. CASE WriteText(w)
    <2>1. p \in Paths /\ work[w].text \in Texts
      BY <1>5 DEF WriteText, Doing, InHand
    <2>2. CASE disk[p].text = Absent
      BY <1>5, <2>2, QuietKeeps DEF WriteText
    <2>3. CASE disk[p].text # Absent
      BY <1>3, <1>5, <2>1, <2>3 DEF WriteText
    <2> QED
      BY <2>2, <2>3
  <1> QED
    BY <1>1, <1>2, <1>4, <1>5 DEF Replace

\* The watcher itself: nothing it takes from the queue is forgotten.
LEMMA WatcherSuppression ==
  ASSUME TypeOK, Suppression, NEW t \in Terminals, WatcherStep(t)
  PROVE  Suppression'
  <1>1. CASE Receive(t)
    <2>1. PICK r \in Watchers :
           /\ Watch(t, r)
           /\ r.open = terminal[t].open
           /\ r.events = Tail(terminal[t].events)
           /\ \/ /\ r.checking = Head(terminal[t].events).path
                 /\ r.entry = entries[Head(terminal[t].events).path]
                 /\ r.pending = terminal[t].pending
              \/ /\ r.checking = Absent
                 /\ r.pending = terminal[t].pending \cup {Head(terminal[t].events).path}
      BY <1>1, ReceiveShape
    <2>2. terminal'[t] = r /\ \A u \in Terminals \ {t} : terminal'[u] = terminal[u]
      BY <2>1, WatchType
    <2>3. UNCHANGED <<disk, entries, untold>> /\ terminal[t].events # << >> /\ terminal[t].checking = Absent
      BY <1>1 DEF Receive
    <2>4. ASSUME NEW p \in untold[t] PROVE OnItsWay(t, p)'
      <3>1. p \in Paths /\ Differs(p) /\ OnItsWay(t, p)
        BY DEF TypeOK, Suppression, UntoldOnItsWay
      <3>2. p # Absent
        BY <3>1, AbsentAssumption
      <3>3. CASE p \in terminal[t].pending
        BY <2>1, <2>2, <3>3 DEF OnItsWay
      <3>4. CASE Head(terminal[t].events).path = p
        <4>1. CASE r.pending = terminal[t].pending \cup {Head(terminal[t].events).path}
          BY <2>2, <3>4, <4>1 DEF OnItsWay
        <4>2. CASE r.checking = p /\ r.entry = entries[p]
          <5>1. ~IsSuppressed(t)'
            BY <2>2, <2>3, <3>1, <4>2 DEF IsSuppressed, Differs
          <5> QED
            BY <2>2, <4>2, <5>1 DEF OnItsWay
        <4> QED
          BY <2>1, <3>4, <4>1, <4>2
      <3>5. ASSUME NEW i \in DOMAIN terminal[t].events, terminal[t].events[i].path = p,
                   Head(terminal[t].events).path # p
            PROVE  OnItsWay(t, p)'
        <4>1. i - 1 \in DOMAIN r.events /\ r.events[i - 1].path = p
          BY <2>1, <2>3, <3>5, HeadType
        <4> QED
          BY <2>2, <4>1 DEF OnItsWay
      <3> QED
        BY <2>3, <3>1, <3>2, <3>3, <3>4, <3>5 DEF OnItsWay
    <2>5. ASSUME NEW u \in Terminals, NEW p \in untold'[u] PROVE Differs(p)' /\ OnItsWay(u, p)'
      <3>1. Differs(p) /\ OnItsWay(u, p) /\ p \in untold[u]
        BY <2>3 DEF Suppression, UntoldOnItsWay
      <3>2. Differs(p)'
        BY <2>3, <3>1 DEF Differs
      <3>3. CASE u = t
        BY <2>4, <3>1, <3>2, <3>3
      <3>4. CASE u # t
        BY <2>2, <2>3, <3>1, <3>2, <3>4 DEF OnItsWay, IsSuppressed
      <3> QED
        BY <3>3, <3>4
    <2>6. ClosedHearNothing'
      BY <2>1, <2>2, <2>3 DEF Suppression, ClosedHearNothing
    <2> QED
      BY <2>5, <2>6 DEF Suppression, UntoldOnItsWay
  <1>2. CASE StartWorkspaceWatcher(t)
    <2> DEFINE c == terminal[t].checking
    <2>1. c \in Paths
      BY <1>2, CompareShape
    <2>2. PICK r \in Watchers :
            /\ Watch(t, r)
            /\ r.open = terminal[t].open
            /\ r.events = terminal[t].events
            /\ r.pending = IF IsSuppressed(t) THEN terminal[t].pending
                           ELSE terminal[t].pending \cup {c}
      BY <1>2, CompareShape
    <2>3. terminal'[t] = r /\ \A u \in Terminals \ {t} : terminal'[u] = terminal[u]
      BY <2>2, WatchType
    <2>4. UNCHANGED <<disk, untold>>
      BY <1>2 DEF StartWorkspaceWatcher
    <2>5. \A p \in Paths : entries'[p] = entries[p] \/ entries'[p] = Absent
      BY <1>2 DEF StartWorkspaceWatcher, TypeOK
    <2>6. ASSUME NEW u \in Terminals, NEW p \in untold'[u] PROVE Differs(p)' /\ OnItsWay(u, p)'
      <3>1. p \in Paths /\ Differs(p) /\ OnItsWay(u, p)
        BY <2>4 DEF TypeOK, Suppression, UntoldOnItsWay
      <3>2. Differs(p)'
        BY <2>4, <2>5, <3>1 DEF Differs
      <3>3. CASE u = t
        <4>1. p \in r.pending \/ \E i \in DOMAIN r.events : r.events[i].path = p
          BY <2>2, <3>1, <3>3 DEF OnItsWay
        <4> QED
          BY <2>3, <3>2, <3>3, <4>1 DEF OnItsWay
      <3>4. CASE u # t
        BY <2>3, <2>4, <3>1, <3>2, <3>4 DEF OnItsWay, IsSuppressed
      <3> QED
        BY <3>3, <3>4
    <2>7. ClosedHearNothing'
      BY <2>2, <2>3, <2>4 DEF Suppression, ClosedHearNothing
    <2> QED
      BY <2>6, <2>7 DEF Suppression, UntoldOnItsWay
  <1>3. CASE FlushEvents(t)
    <2> DEFINE r == [terminal[t] EXCEPT !.pending = {}]
    <2>1. r \in Watchers /\ r.open = terminal[t].open /\ r.events = terminal[t].events
          /\ r.checking = terminal[t].checking /\ r.entry = terminal[t].entry
      BY WatcherFields DEF Watchers
    <2>2. terminal'[t] = r /\ \A u \in Terminals \ {t} : terminal'[u] = terminal[u]
      BY <1>3, <2>1, WatchType DEF FlushEvents
    <2>3. \A u \in Terminals : untold'[u] = IF u = t THEN untold[u] \ terminal[t].pending ELSE untold[u]
      BY <1>3 DEF FlushEvents, TypeOK
    <2>4. UNCHANGED <<disk, entries>>
      BY <1>3 DEF FlushEvents
    <2> HIDE DEF r
    <2>5. ASSUME NEW u \in Terminals, NEW p \in untold'[u] PROVE Differs(p)' /\ OnItsWay(u, p)'
      <3>1. p \in untold[u] /\ Differs(p) /\ OnItsWay(u, p)
        BY <2>3 DEF Suppression, UntoldOnItsWay
      <3>2. Differs(p)'
        BY <2>4, <3>1 DEF Differs
      <3>3. CASE u = t
        <4>1. p \notin terminal[t].pending
          BY <2>3, <3>3
        <4> QED
          BY <2>1, <2>2, <2>4, <3>1, <3>2, <3>3, <4>1 DEF OnItsWay, IsSuppressed
      <3>4. CASE u # t
        BY <2>2, <2>4, <3>1, <3>2, <3>4 DEF OnItsWay, IsSuppressed
      <3> QED
        BY <3>3, <3>4
    <2>6. ClosedHearNothing'
      BY <2>1, <2>2, <2>3 DEF Suppression, ClosedHearNothing
    <2> QED
      BY <2>5, <2>6 DEF Suppression, UntoldOnItsWay
  <1> QED
    BY <1>1, <1>2, <1>3 DEF WatcherStep

LEMMA TerminalSuppression ==
  ASSUME TypeOK, Suppression, NEW t \in Terminals, ServeWS(t) \/ Close(t)
  PROVE  Suppression'
  <1>1. UNCHANGED <<disk, entries>>
    BY DEF ServeWS, Close
  <1>2. \A u \in Terminals \ {t} : terminal'[u] = terminal[u] /\ untold'[u] = untold[u]
    BY DEF ServeWS, Close, TypeOK
  <1>3. untold'[t] = {}
    BY DEF ServeWS, Close, TypeOK, Suppression, ClosedHearNothing
  <1>4. ASSUME NEW u \in Terminals, NEW p \in untold'[u] PROVE Differs(p)' /\ OnItsWay(u, p)'
    <2>1. u # t /\ Differs(p) /\ OnItsWay(u, p)
      BY <1>2, <1>3 DEF Suppression, UntoldOnItsWay
    <2> QED
      BY <1>1, <1>2, <2>1 DEF Differs, OnItsWay, IsSuppressed
  <1>5. ClosedHearNothing'
    BY <1>2, <1>3 DEF Suppression, ClosedHearNothing
  <1> QED
    BY <1>4, <1>5 DEF Suppression, UntoldOnItsWay

LEMMA ShellSuppression ==
  ASSUME TypeOK, Suppression, NEW p \in Paths,
         ShellRemove(p) \/ Expire(p) \/ \E text \in Texts : ShellWrite(p, text)
  PROVE  Suppression'
  <1>1. ASSUME NEW op \in {"create", "write", "remove"}, Report(<<Event(p, op)>>), Untell(p),
               \A q \in Paths \ {p} : disk'[q] = disk[q], UNCHANGED entries,
               entries[p] = Absent \/ entries[p] # disk'[p].text
        PROVE  Suppression'
    <2>1. \A t \in Terminals :
            untold'[t] = IF terminal[t].open THEN untold[t] \cup {p} ELSE untold[t]
      BY <1>1 DEF Untell, Watching
    <2>2. <<Event(p, op)>> \in Seq(Events)
      BY EventType
    <2>3. ASSUME NEW t \in Terminals, NEW q \in untold'[t] PROVE Differs(q)' /\ OnItsWay(t, q)'
      <3>1. CASE q = p
        <4>1. terminal[t].open
          BY <2>1 DEF Suppression, ClosedHearNothing
        <4> QED
          BY <1>1, <3>1, <4>1, ReportArrives DEF Differs
      <3>2. CASE q # p
        <4>1. q \in untold[t] /\ q \in Paths
          BY <2>1, <3>2 DEF TypeOK
        <4>2. Differs(q) /\ OnItsWay(t, q)
          BY <4>1 DEF Suppression, UntoldOnItsWay
        <4> QED
          BY <1>1, <2>2, <3>2, <4>1, <4>2, ReportKeeps DEF Differs
      <3> QED
        BY <3>1, <3>2
    <2>4. ClosedHearNothing'
      <3>1. \A t \in Terminals : terminal'[t].open = terminal[t].open
        BY <1>1, <2>2, ReportShape
      <3> QED
        BY <2>1, <3>1 DEF Suppression, ClosedHearNothing
    <2> QED
      BY <2>3, <2>4 DEF Suppression, UntoldOnItsWay
  <1>2. CASE ShellRemove(p)
    <2>1. disk'[p].text = Absent /\ \A q \in Paths \ {p} : disk'[q] = disk[q]
      BY <1>2 DEF ShellRemove, TypeOK
    <2> QED
      BY <1>1, <1>2, <2>1 DEF ShellRemove
  <1>3. CASE Expire(p)
    <2>1. \A q \in Paths : entries'[q] = entries[q] \/ entries'[q] = Absent
      BY <1>3 DEF Expire, TypeOK
    <2>2. UNCHANGED <<disk, terminal, untold>> /\ << >> \in Seq(Events)
      BY <1>3 DEF Expire
    <2>3. \A t \in Terminals : untold[t] \subseteq Paths
      BY DEF TypeOK
    <2> QED
      BY <2>1, <2>2, <2>3, GatewayKeeps DEF Differs
  <1>4. ASSUME NEW text \in Texts, ShellWrite(p, text)
        PROVE  Suppression'
    <2>1. /\ disk'[p].text = text
          /\ \A q \in Paths \ {p} : disk'[q] = disk[q]
          /\ \E op \in {"create", "write"} : Report(<<Event(p, op)>>)
      BY <1>4, WriteType DEF ShellWrite
    <2>2. PICK op \in {"create", "write"} : Report(<<Event(p, op)>>)
      BY <2>1
    <2>3. UNCHANGED entries
      BY <1>4 DEF ShellWrite
    <2>4. CASE entries[p] = text
      <3>1. Told(p) /\ <<Event(p, op)>> \in Seq(Events)
        BY <1>4, <2>4, EventType DEF ShellWrite
      <3> QED
        BY <2>1, <2>2, <2>3, <3>1, OverwriteKeeps
    <2>5. CASE entries[p] # text
      <3>1. Untell(p)
        BY <1>4, <2>5 DEF ShellWrite
      <3> QED
        BY <1>1, <2>1, <2>2, <2>3, <2>5, <3>1
    <2> QED
      BY <2>4, <2>5
  <1> QED
    BY <1>2, <1>3, <1>4

LEMMA NextSuppression ==
  ASSUME TypeOK, InHand, Suppression, [Next]_vars
  PROVE  Suppression'
  <1>1. CASE UNCHANGED vars
    BY <1>1, QuietKeeps DEF vars
  <1>2. ASSUME NEW w \in Workers,
               \/ \E files \in SUBSET Paths :
                    \/ HandleWorkspaceSync(w, files) \/ HandleReplace(w, files)
                    \/ \E t \in Terminals : TerminalMessage(w, t, files)
               \/ RunCode(w)
        PROVE  Suppression'
    BY <1>2, QuietKeeps DEF HandleWorkspaceSync, HandleReplace, TerminalMessage, RunCode, Accept
  <1>3. ASSUME NEW w \in Workers,
               \/ MaterializeWorkspaceFromManifest(w) \/ FetchManifest(w)
               \/ CreateEphemeralSandbox(w) \/ Answer(w)
        PROVE  Suppression'
    BY <1>3, QuietKeeps DEF MaterializeWorkspaceFromManifest, FetchManifest,
         CreateEphemeralSandbox, CopyFile, LayerOverlay, Answer
  <1> QED
    BY <1>1, <1>2, <1>3, SyncSuppression, ReplaceSuppression, TerminalSuppression,
       WatcherSuppression, ShellSuppression DEF Next

-----------------------------------------------------------------------------
(***************************************************************************)
(* The run that materialises the project.                                  *)
(***************************************************************************)

\* A step with neither a failure nor a program in it leaves Building to
\* prove only where nothing had disturbed the run before.
LEMMA Calm ==
  ASSUME TypeOK, UNCHANGED budget \/ Spend("work", MaxWork), Undisturbed'
  PROVE  Undisturbed
  BY DEF TypeOK, Spend, Undisturbed

LEMMA Disturb ==
  ASSUME TypeOK, Spend("failures", MaxFailures) \/ Spend("shell", MaxShell)
  PROVE  ~Undisturbed'
  BY DEF TypeOK, Spend, Undisturbed

\* What a step must keep: its own worker's stage and the files that stay.
LEMMA StagesKept ==
  ASSUME TypeOK, InHand, Building, NEW w \in Workers,
         UNCHANGED budget \/ Spend("work", MaxWork),
         \A p \in Paths : Present(p) => Present(p)',
         \A v \in Workers \ {w} : work'[v] = work[v] /\ sandbox'[v] = sandbox[v],
         Undisturbed /\ work'[w].kind = "build" => Stage(w)'
  PROVE  Building'
  <1> SUFFICES ASSUME Undisturbed' PROVE \A v \in Workers : work'[v].kind = "build" => Stage(v)'
    BY DEF Building
  <1>0. Undisturbed
    BY Calm
  <1>1. ASSUME NEW v \in Workers \ {w}, work'[v].kind = "build" PROVE Stage(v)'
    <2>1. work'[v] = work[v] /\ sandbox'[v] = sandbox[v]
      OBVIOUS
    <2>2. Stage(v)
      BY <1>0, <1>1, <2>1 DEF Building
    <2>3. work[v].pc = "chmod" => work[v].path \in Paths
      BY DEF InHand
    <2>4. work[v].pc = "chmod" => Present(work[v].path)'
      BY <2>1, <2>2, <2>3 DEF Stage, Present
    <2> QED
      BY <2>1, <2>2, <2>4 DEF Stage, Present
  <1> QED
    BY <1>0, <1>1

LEMMA ServeStages ==
  ASSUME TypeOK, InHand, Building, NEW w \in Workers, NEW r \in Work, Serve(w, r),
         UNCHANGED sandbox, UNCHANGED budget \/ Spend("work", MaxWork),
         \A p \in Paths : Present(p) => Present(p)',
         Undisturbed /\ r.kind = "build" => Stage(w)'
  PROVE  Building'
  BY ServeType, StagesKept

\* The other kinds of requests.
LEMMA OthersStages ==
  ASSUME TypeOK, InHand, Building, NEW w \in Workers, NEW r \in Work, Serve(w, r),
         \A v \in Workers \ {w} : sandbox'[v] = sandbox[v],
         UNCHANGED budget \/ Spend("work", MaxWork),
         \A p \in Paths : Present(p) => Present(p)', r.kind # "build"
  PROVE  Building'
  BY ServeType, StagesKept

LEMMA DoneFields ==
  ASSUME TypeOK, NEW w \in Workers
  PROVE  /\ Done(w).kind = work[w].kind /\ Done(w).pc = "next"
         /\ Done(w).todo = work[w].todo \ {work[w].path}
  <1>1. work[w] \in Work
    BY DEF TypeOK
  <1> QED
    BY <1>1 DEF Done, Work

\* The path a worker is done with is there.
LEMMA DoneStages ==
  ASSUME TypeOK, InHand, Building, NEW w \in Workers, Serve(w, Done(w)),
         UNCHANGED sandbox, UNCHANGED budget,
         \A p \in Paths : Present(p) => Present(p)',
         work[w].kind = "build" => work[w].pc = "chmod"
  PROVE  Building'
  <1>1. work'[w] = Done(w)
    BY DoneType, ServeType
  <1>2. ASSUME Undisturbed, Done(w).kind = "build" PROVE Stage(w)'
    <2>1. work[w].kind = "build" /\ work[w].pc = "chmod"
      BY <1>2, DoneFields
    <2>2. Stage(w)
      BY <1>2, <2>1 DEF Building
    <2>3. \A p \in Paths \ work[w].todo : Present(p)
      BY <2>1, <2>2 DEF Stage
    <2>4. Present(work[w].path)
      BY <2>1, <2>2 DEF Stage
    <2>5. \A p \in Paths \ Done(w).todo : Present(p)'
      BY <2>3, <2>4, DoneFields
    <2> QED
      BY <1>1, <2>5, DoneFields DEF Stage
  <1> QED
    BY <1>2, DoneType, ServeStages

LEMMA TextsPresent ==
  ASSUME TypeOK, NEW p \in Paths, \A q \in Paths \ {p} : disk'[q] = disk[q], disk'[p].text # Absent
  PROVE  \A q \in Paths : Present(q) => Present(q)'
  BY DEF Present

LEMMA SyncStages ==
  ASSUME TypeOK, InHand, Building, NEW w \in Workers, SyncWorkspaceAtomicWithRegistry(w)
  PROVE  Building'
  <1> DEFINE s == work[w]
             p == s.path
  <1>0. s \in Work
    BY DEF TypeOK
  <1>1. ASSUME NEW q \in Paths, NEW text \in Texts, SyncRegister(w, q, text)
        PROVE  Building'
    <2> DEFINE r == [s EXCEPT !.pc = "rename", !.path = q, !.text = text]
    <2>1. r \in Work /\ r.kind = s.kind /\ r.pc = "rename" /\ r.todo = s.todo
      BY <1>0 DEF Work
    <2>2. Serve(w, r) /\ UNCHANGED <<disk, sandbox, budget>> /\ s.pc = "next"
      BY <1>1 DEF SyncRegister, Register, Doing
    <2> HIDE DEF r
    <2>3. work'[w] = r
      BY <2>1, <2>2, ServeType
    <2>4. ASSUME Undisturbed, r.kind = "build" PROVE Stage(w)'
      <3>1. Stage(w)
        BY <2>1, <2>4 DEF Building
      <3> QED
        BY <2>1, <2>2, <2>3, <3>1 DEF Stage, Present
    <2> QED
      BY <2>1, <2>2, <2>4, ServeStages DEF Present
  <1>2. CASE SyncFail(w) \/ SyncInPlace(w)
    BY <1>2, Disturb DEF SyncFail, SyncInPlace, Building
  <1>3. CASE SyncRename(w)
    <2> DEFINE r == [s EXCEPT !.pc = "chmod"]
    <2>1. p \in Paths /\ s.text \in Texts /\ s.pc = "rename"
      BY <1>3 DEF SyncRename, Doing, InHand
    <2>2. r \in Work /\ r.kind = s.kind /\ r.pc = "chmod" /\ r.todo = s.todo /\ r.path = p
      BY <1>0 DEF Work
    <2>3. Serve(w, r) /\ UNCHANGED <<sandbox, budget>>
      BY <1>3 DEF SyncRename
    <2>4. disk'[p].text = s.text /\ \A q \in Paths \ {p} : disk'[q] = disk[q]
      BY <1>3, <2>1 DEF SyncRename, TypeOK
    <2>5. disk'[p].text # Absent
      BY <2>1, <2>4, AbsentAssumption
    <2>8. \A q \in Paths : Present(q) => Present(q)'
      BY <2>1, <2>4, <2>5, TextsPresent
    <2> HIDE DEF r
    <2>6. work'[w] = r
      BY <2>2, <2>3, ServeType
    <2>7. ASSUME Undisturbed, r.kind = "build" PROVE Stage(w)'
      <3>1. \A q \in Paths \ s.todo : Present(q)
        BY <2>1, <2>2, <2>7 DEF Building, Stage
      <3>2. Present(work[w].path)'
        BY <2>2, <2>5, <2>6 DEF Present
      <3>3. \A q \in Paths \ s.todo : Present(q)'
        BY <2>8, <3>1
      <3> QED
        BY <2>2, <2>6, <3>2, <3>3 DEF Stage
    <2> QED
      BY <2>2, <2>3, <2>7, <2>8, ServeStages
  <1>4. CASE Finish(w)
    <2> DEFINE r == [s EXCEPT !.pc = "copy", !.todo = Paths]
    <2>1. s.pc = "next" /\ s.todo = {} /\ UNCHANGED <<disk, sandbox, budget>>
      BY <1>4 DEF Finish, Doing
    <2>2. CASE s.kind = "build"
      <3>1. r \in Work /\ r.pc = "copy" /\ r.todo = Paths
        BY <1>0 DEF Work
      <3>2. Serve(w, r)
        BY <1>4, <2>2 DEF Finish
      <3> HIDE DEF r
      <3>3. work'[w] = r
        BY <3>1, <3>2, ServeType
      <3>4. ASSUME Undisturbed PROVE Stage(w)'
        <4>1. \A q \in Paths : Present(q)
          BY <2>1, <2>2, <3>4 DEF Building, Stage
        <4> QED
          BY <2>1, <3>1, <3>3, <4>1 DEF Stage, Present
      <3> QED
        BY <2>1, <3>1, <3>2, <3>4, ServeStages DEF Present
    <2>3. CASE s.kind # "build"
      <3>1. Serve(w, Idle) /\ Idle.kind = "none"
        BY <1>4, <2>3 DEF Finish, Idle
      <3> QED
        BY <2>1, <3>1, IdleType, OthersStages DEF Present
    <2> QED
      BY <2>2, <2>3
  <1>5. ASSUME NEW locked \in BOOLEAN, SyncChmod(w, locked)
        PROVE  Building'
    <2>1. p \in Paths /\ s.pc = "chmod"
      BY <1>5 DEF SyncChmod, Doing, InHand
    <2>2. disk[p] \in OnDisk
      BY <2>1 DEF TypeOK
    <2>3. disk' = disk \/ disk' = [disk EXCEPT ![p] = [disk[p] EXCEPT !.locked = locked]]
      BY <1>5 DEF SyncChmod
    <2>4. \A q \in Paths : disk'[q].text = disk[q].text
      BY <2>1, <2>2, <2>3, SMTT(30) DEF OnDisk, TypeOK
    <2> QED
      BY <1>5, <2>1, <2>4, DoneStages DEF SyncChmod, Present
  <1> QED
    BY <1>1, <1>2, <1>3, <1>4, <1>5 DEF SyncWorkspaceAtomicWithRegistry

LEMMA ReplaceStages ==
  ASSUME TypeOK, InHand, Building, NEW w \in Workers, Replace(w)
  PROVE  Building'
  <1> DEFINE s == work[w]
             p == s.path
  <1>0. s \in Work
    BY DEF TypeOK
  <1>1. ASSUME NEW q \in Paths, ReplaceRead(w, q) PROVE Building'
    <2> DEFINE text == disk[q].text
               r1 == [s EXCEPT !.pc = "register", !.path = q, !.text = Replacement[text]]
               r2 == [s EXCEPT !.todo = s.todo \ {q}]
    <2>1. s.kind = "replace" /\ UNCHANGED <<disk, sandbox, budget>>
      BY <1>1 DEF ReplaceRead
    <2>2. CASE text \in Texts /\ Replacement[text] # text
      <3>1. Replacement[text] \in Texts
        BY <2>2, ReplacementAssumption
      <3>2. r1 \in Work /\ r1.kind = "replace"
        BY <1>0, <2>1, <3>1 DEF Work
      <3>3. Serve(w, r1)
        BY <1>1, <2>2 DEF ReplaceRead
      <3> QED
        BY <2>1, <3>2, <3>3, OthersStages DEF Present
    <2>3. CASE ~(text \in Texts /\ Replacement[text] # text)
      <3>1. s.todo \in SUBSET Paths
        BY <1>0 DEF Work
      <3>2. r2 \in Work /\ r2.kind = "replace"
        BY <1>0, <2>1, <3>1 DEF Work
      <3>3. Serve(w, r2)
        BY <1>1, <2>3 DEF ReplaceRead
      <3> QED
        BY <2>1, <3>2, <3>3, OthersStages DEF Present
    <2> QED
      BY <2>2, <2>3
  <1>2. CASE ReplaceRegister(w) \/ Truncate(w) \/ WriteText(w)
    <2>0. p \in Paths /\ s.text \in Texts /\ s.pc \in {"register", "truncate", "write"}
      BY <1>2 DEF ReplaceRegister, Truncate, WriteText, Doing, InHand
    <2>1. UNCHANGED <<sandbox, budget>>
      BY <1>2 DEF ReplaceRegister, Register, Truncate, WriteText
    <2>2. \A q \in Paths : Present(q) => Present(q)'
      <3>1. CASE UNCHANGED disk
        BY <3>1 DEF Present
      <3>2. ASSUME NEW text \in Texts \cup {Empty}, Write(p, text)
            PROVE  \A q \in Paths : Present(q) => Present(q)'
        BY <2>0, <3>2, WriteType, TextsPresent, AbsentAssumption
      <3> QED
        BY <1>2, <2>0, <3>1, <3>2 DEF ReplaceRegister, Register, Truncate, WriteText
    <2>3. Undisturbed => s.kind # "build"
      BY <2>0 DEF Building, Stage
    <2>4. PICK r \in Work : Serve(w, r) /\ r.kind = s.kind
      <3>1. ASSUME NEW pc \in {"truncate", "write", "chmod"}
            PROVE  [s EXCEPT !.pc = pc] \in Work /\ [s EXCEPT !.pc = pc].kind = s.kind
        BY <1>0 DEF Work
      <3>2. Done(w) \in Work /\ Done(w).kind = s.kind
        BY DoneType, DoneFields
      <3>3. \/ Serve(w, Done(w))
            \/ \E pc \in {"truncate", "write", "chmod"} : Serve(w, [s EXCEPT !.pc = pc])
        BY <1>2 DEF ReplaceRegister, Register, Truncate, WriteText
      <3> QED
        BY <3>1, <3>2, <3>3
    <2> QED
      BY <2>1, <2>2, <2>3, <2>4, ServeStages
  <1> QED
    BY <1>1, <1>2 DEF Replace

LEMMA RunStages ==
  ASSUME TypeOK, InHand, Building, NEW w \in Workers,
         \/ MaterializeWorkspaceFromManifest(w) \/ FetchManifest(w)
         \/ CreateEphemeralSandbox(w) \/ Answer(w)
  PROVE  Building'
  <1> DEFINE s == work[w]
  <1>0. s \in Work
    BY DEF TypeOK
  <1>1. UNCHANGED disk
    BY DEF MaterializeWorkspaceFromManifest, FetchManifest, CreateEphemeralSandbox, CopyFile,
           LayerOverlay, Answer
  <1>2. \A p \in Paths : Present(p) => Present(p)'
    BY <1>1 DEF Present
  <1>3. CASE MaterializeWorkspaceFromManifest(w)
    <2>1. s.pc = "stat" /\ UNCHANGED <<sandbox, budget>>
      BY <1>3 DEF MaterializeWorkspaceFromManifest, Doing
    <2>2. Undisturbed => s.kind # "build"
      BY <2>1 DEF Building, Stage
    <2>3. /\ [s EXCEPT !.pc = "copy", !.todo = Paths] \in Work
          /\ [s EXCEPT !.pc = "copy", !.todo = Paths].kind = s.kind
          /\ [s EXCEPT !.pc = "fetch"] \in Work
          /\ [s EXCEPT !.pc = "fetch"].kind = s.kind
      BY <1>0 DEF Work
    <2> QED
      BY <1>2, <1>3, <2>1, <2>2, <2>3, ServeStages DEF MaterializeWorkspaceFromManifest
  <1>4. CASE FetchManifest(w)
    <2> DEFINE r == [s EXCEPT !.kind = "build", !.pc = "next", !.todo = Paths]
    <2>1. r \in Work /\ r.pc = "next" /\ r.todo = Paths
      BY <1>0 DEF Work
    <2>2. CASE Serve(w, r) /\ UNCHANGED budget
      <3>1. work'[w] = r
        BY <2>1, <2>2, ServeType
      <3>2. Stage(w)'
        BY <2>1, <3>1 DEF Stage
      <3> QED
        BY <1>2, <1>4, <2>1, <2>2, <3>2, ServeStages DEF FetchManifest
    <2>3. CASE Spend("failures", MaxFailures)
      BY <2>3, Disturb DEF Building
    <2> QED
      BY <1>4, <2>2, <2>3 DEF FetchManifest
  <1>5. ASSUME NEW p \in Paths, CopyFile(w, p) PROVE Building'
    <2> DEFINE r == [s EXCEPT !.todo = s.todo \ {p}]
    <2>0. s.todo \ {p} \in SUBSET Paths
      BY <1>0 DEF Work
    <2>1. r \in Work /\ r.pc = s.pc /\ r.kind = s.kind /\ r.todo = s.todo \ {p}
      BY <1>0, <2>0 DEF Work
    <2>2. Serve(w, r) /\ UNCHANGED budget /\ s.pc = "copy"
      BY <1>5 DEF CopyFile, Doing
    <2> HIDE DEF r
    <2>3. work'[w] = r /\ \A v \in Workers \ {w} : work'[v] = work[v]
      BY <2>1, <2>2, ServeType
    <2>4. /\ \A v \in Workers \ {w} : sandbox'[v] = sandbox[v]
          /\ \A q \in Paths : sandbox'[w][q] = IF q = p THEN disk[p].text ELSE sandbox[w][q]
      BY <1>5 DEF CopyFile, TypeOK
    <2>5. ASSUME Undisturbed, work'[w].kind = "build" PROVE Stage(w)'
      <3>1. \A q \in Paths : Present(q) /\ (q \notin s.todo => sandbox[w][q] # Absent)
        BY <2>1, <2>2, <2>3, <2>5 DEF Building, Stage
      <3>2. \A q \in Paths : q \notin r.todo => sandbox'[w][q] # Absent
        BY <2>1, <2>4, <3>1 DEF Present
      <3> QED
        BY <1>1, <2>1, <2>2, <2>3, <3>1, <3>2 DEF Stage, Present
    <2> QED
      BY <1>2, <2>2, <2>3, <2>4, <2>5, StagesKept
  <1>6. ASSUME NEW files \in SUBSET Paths, NEW text \in Texts, LayerOverlay(w, files, text)
        PROVE  Building'
    <2> DEFINE r == [s EXCEPT !.pc = "run"]
    <2>1. r \in Work /\ r.pc = "run" /\ r.kind = s.kind
      BY <1>0 DEF Work
    <2>2. Serve(w, r) /\ UNCHANGED budget /\ s.pc = "copy" /\ s.todo = {}
      BY <1>6 DEF LayerOverlay, Doing
    <2> HIDE DEF r
    <2>3. work'[w] = r /\ \A v \in Workers \ {w} : work'[v] = work[v]
      BY <2>1, <2>2, ServeType
    <2>4. /\ \A v \in Workers \ {w} : sandbox'[v] = sandbox[v]
          /\ \A q \in Paths : sandbox'[w][q] = IF q \in files THEN text ELSE sandbox[w][q]
      BY <1>6 DEF LayerOverlay, TypeOK
    <2>5. ASSUME Undisturbed, work'[w].kind = "build" PROVE Stage(w)'
      <3>1. \A q \in Paths : sandbox[w][q] # Absent
        BY <2>1, <2>2, <2>3, <2>5 DEF Building, Stage
      <3>2. \A q \in Paths : sandbox'[w][q] # Absent
        BY <2>4, <3>1, AbsentAssumption
      <3> QED
        BY <2>1, <2>3, <3>2 DEF Stage
    <2> QED
      BY <1>2, <2>2, <2>3, <2>4, <2>5, StagesKept
  <1>7. CASE Answer(w)
    <2>1. Serve(w, Idle) /\ Idle.kind # "build" /\ UNCHANGED budget
      BY <1>7 DEF Answer, Idle
    <2>2. \A v \in Workers \ {w} : sandbox'[v] = sandbox[v]
      BY <1>7 DEF Answer, TypeOK
    <2> QED
      BY <1>2, <2>1, <2>2, IdleType, OthersStages
  <1> QED
    BY <1>3, <1>4, <1>5, <1>6, <1>7 DEF CreateEphemeralSandbox

\* Steps that are nobody's work.
LEMMA IdleStages ==
  ASSUME TypeOK, InHand, Building, UNCHANGED <<disk, work, sandbox, budget>>
  PROVE  Building'
  <1>1. ASSUME NEW w \in Workers, work[w].kind = "build", Undisturbed PROVE Stage(w)'
    <2>1. Stage(w)
      BY <1>1 DEF Building
    <2> QED
      BY <2>1 DEF Stage, Present
  <1> QED
    BY <1>1 DEF Building, Undisturbed

LEMMA NextStages ==
  ASSUME TypeOK, InHand, Building, [Next]_vars
  PROVE  Building'
  <1>1. CASE UNCHANGED vars
    BY <1>1, IdleStages DEF vars
  <1>2. ASSUME NEW w \in Workers, NEW r \in Work, r.kind # "build", Accept(w, r)
        PROVE  Building'
    <2>1. \A p \in Paths : Present(p) => Present(p)'
      BY <1>2 DEF Accept, Present
    <2> QED
      BY <1>2, <2>1, OthersStages DEF Accept
  <1>3. ASSUME NEW w \in Workers,
               \/ \E files \in SUBSET Paths :
                    \/ HandleWorkspaceSync(w, files) \/ HandleReplace(w, files)
                    \/ \E t \in Terminals : TerminalMessage(w, t, files)
               \/ RunCode(w)
        PROVE  Building'
    BY <1>2, <1>3, RequestType DEF HandleWorkspaceSync, HandleReplace, TerminalMessage, RunCode
  <1>4. ASSUME NEW t \in Terminals, ServeWS(t) \/ Close(t) \/ WatcherStep(t)
        PROVE  Building'
    BY <1>4, IdleStages DEF ServeWS, Close, WatcherStep, Receive, StartWorkspaceWatcher, FlushEvents
  <1>5. ASSUME NEW p \in Paths, ShellRemove(p) \/ \E text \in Texts : ShellWrite(p, text)
        PROVE  Building'
    BY <1>5, Disturb DEF ShellRemove, ShellWrite, Building
  <1>6. ASSUME NEW p \in Paths, Expire(p)
        PROVE  Building'
    BY <1>6, IdleStages DEF Expire
  <1> QED
    BY <1>1, <1>3, <1>4, <1>5, <1>6, SyncStages, ReplaceStages, RunStages DEF Next

-----------------------------------------------------------------------------
(***************************************************************************)
(* The theorems                                                            *)
(***************************************************************************)
LEMMA InitIInv == Init => IInv
  <1> SUFFICES ASSUME Init PROVE IInv
    OBVIOUS
  <1>1. InHand /\ Building
    BY DEF Init, Idle, InHand, Building
  <1>2. Suppression
    BY DEF Init, Suppression, UntoldOnItsWay, ClosedHearNothing
  <1> QED
    BY <1>1, <1>2, InitType DEF IInv

LEMMA NextIInv == IInv /\ [Next]_vars => IInv'
  BY NextHand, NextSuppression, NextStages DEF IInv

LEMMA Invariant == Spec => []IInv
  BY InitIInv, NextIInv, PTL DEF Spec

(* Every variable of the directory keeps its type.                         *)
THEOREM TypeCorrect == Spec => []TypeOK
  <1>1. IInv => TypeOK
    BY DEF IInv
  <1> QED
    BY <1>1, Invariant, PTL

(* The suppression of the gateway's own writes never swallows a change     *)
(* that a program makes, however requests, programs and watchers           *)
(* interleave and whenever the registry's entries expire.                  *)
THEOREM ChangesNotSwallowed == Spec => []SuppressionHidesNothing
  <1>1. IInv => SuppressionHidesNothing
    BY DEF IInv, Suppression, UntoldOnItsWay, OnItsWay, SuppressionHidesNothing
  <1> QED
    BY <1>1, Invariant, PTL

(* A run that made the project's files finds all of them in its sandbox,   *)
(* whatever the other requests synchronise and replace meanwhile.          *)
THEOREM RunsFindTheirFiles == Spec => []SandboxComplete
  <1>1. IInv => SandboxComplete
    BY DEF IInv, Building, Undisturbed, Stage, SandboxComplete
  <1> QED
    BY <1>1, Invariant, PTL
=============================================================================
