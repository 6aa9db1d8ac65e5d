--------------------------- MODULE DocumentRoomProofs ---------------------------
(***************************************************************************)
(* What holds of a document's room for every number of sockets, edits and  *)
(* failures: types; on one replica, whose tokens are kept; and of one      *)
(* handler at a time, what a closed room leaves behind and in Postgres.    *)
(***************************************************************************)
EXTENDS DocumentRoom, FiniteSetTheorems, TLAPS

OneReplica == \E r \in Replicas : Replicas = {r}

\* One handler or timer at a time, on one replica that does not die.
Sequential == OneReplica /\ MaxRunning = 1 /\ MaxReplicaCrashes = 0

\* The consumer works, and nobody empties a text or seeds a room.
Steady == MaxSaveFailures = 0 /\ MaxConsumerCrashes = 0 /\ "" \notin Texts /\ ~Seeding

\* What is to be stored or published has been read.
Carrying ==
  \A p \in Processes :
    proc[p].pc \in {"join seed", "update", "close publish", "close put", "flush publish", "flush put"}
      => proc[p].text \in Texts

\* Who has a token and is no member yet, or no longer, is being dealt with.
Withdraws(s, c) ==
  /\ s.conn = c
  /\ s.pc \in {"revoke", "count", "close read", "close publish", "close put", "close delete", "close log"}
Withdrawing(c) == \E p \in Processes : Withdraws(proc[p], c)
TokensAccounted ==
  \A r \in Replicas : \A c \in tokens[r] :
    c \in users \/ proc[Work(c)].pc = "join" \/ Withdrawing(c)

Alone == IsFiniteSet(Running) /\ \A p, q \in Running : p = q

\* The room as it is between two handlers.
Closed == hot = None /\ \A r \in Replicas : lastSaved[r] = None
Tidy ==
  /\ access \subseteq users
  /\ \A r \in Replicas : tokens[r] \subseteq users
  /\ users = {} => Closed

\* The room as process p, running alone and in state s, has left it so far.
RoomIn(p, s) ==
  /\ s.pc \in {"join again", "join grant", "join read", "join seed", "update", "look up",
               "fetch sockets", "fetch members", "next", "remove", "revoke only", "forget",
               "flush read", "flush publish", "flush put"} => Tidy
  /\ s.pc \in {"join again", "join grant", "join read", "join seed", "update",
               "flush read", "flush publish", "flush put"} => users # {}
  /\ s.pc \in {"join again", "join grant"} => p[2] \in users
  /\ s.pc = "join" =>
       /\ access \subseteq users
       /\ \A r \in Replicas : tokens[r] \subseteq users \union {p[2]}
       /\ users = {} => Closed
  /\ s.pc = "revoke" => access \subseteq users \union {s.conn}
  /\ s.pc = "count" => access \subseteq users
  /\ s.pc \in {"revoke", "count"} => \A r \in Replicas : tokens[r] \subseteq users \union {s.conn}
  /\ s.pc \in {"close read", "close publish", "close put", "close delete", "close log"} =>
       users = {} /\ access = {}
  /\ s.pc = "close log" => hot = None
RoomKept == (Quiet => Tidy) /\ \A p \in Running : RoomIn(p, proc[p])

\* What Postgres ends up with, once the consumer has done its work.
Ends(text) ==
  IF stream = {} THEN postgres = text ELSE \E e \in stream : e.id = published /\ e.text = text

\* What the consumer has in hand is all it was given and has not dealt with.
InOrder ==
  /\ stream = {} \/ \E e \in stream : e.id = published
  /\ \A e, f \in stream : e.id = f.id => e = f
  /\ batch = {e \in stream : e.id <= delivered}

\* What is remembered as saved gets there, until a flush has failed; and what is
\* hot and taken for saved, until that was a mistake.
Putting(s) == s.pc \in {"close put", "flush put"}
SavedEnds ==
  /\ count.flushes = 0 /\ (\A p \in Running : ~Putting(proc[p])) =>
       \A r \in Replicas : lastSaved[r] # None => Ends(lastSaved[r])
  /\ ~mistaken => \A r \in Replicas : hot # None /\ hot = lastSaved[r] => Ends(hot)

\* What a process in state s has in hand.
TextIn(s) ==
  /\ s.pc \in {"join", "join again", "join grant", "join read"} => s.text = None
  /\ s.pc # "join seed"
  /\ s.pc \in {"close publish", "flush publish", "close put", "flush put"} => s.text = hot
  /\ Putting(s) => Ends(s.text)
  /\ s.pc = "close delete" /\ ~mistaken => Ends(latest)
Durable ==
  /\ hot # None => hot = latest
  /\ hot = None /\ ~mistaken => Ends(latest)
  /\ \A p \in Running : TextIn(proc[p])

-----------------------------------------------------------------------------
(***************************************************************************)
(* A step of a process                                                     *)
(***************************************************************************)
States == [pc : Steps, conn : Sockets \union {None}, text : Texts \union {None},
           token : BOOLEAN, live : SUBSET Sockets, todo : SUBSET Sockets]

\* Process p gets into state s.
Moves(p, s) == proc' = [proc EXCEPT ![p] = s]

LEMMA ProcessNames ==
  /\ \A c \in Sockets : Work(c) \in Processes /\ Bye(c) \in Processes
  /\ \A r \in Replicas : Sweep(r) \in Processes /\ Flush(r) \in Processes
  BY DEF Processes

LEMMA Homes ==
  /\ \A p \in Processes : At(p) \in Replicas
  /\ \A c \in Sockets : At(Work(c)) = Home[c] /\ At(Bye(c)) = Home[c]
  /\ \A r \in Replicas : At(Sweep(r)) = r /\ At(Flush(r)) = r
  <1>1. \A c \in Sockets : At(Work(c)) = Home[c] /\ At(Bye(c)) = Home[c] /\ Home[c] \in Replicas
    BY RoomAssumption DEF At, Work, Bye
  <1>2. \A r \in Replicas : At(Sweep(r)) = r /\ At(Flush(r)) = r
    BY DEF At, Sweep, Flush
  <1> QED
    BY <1>1, <1>2 DEF Processes

LEMMA WorkDiffers ==
  /\ \A c, d \in Sockets : (Work(c) = Work(d) <=> c = d) /\ Work(c) # Bye(d)
  /\ \A c \in Sockets, r \in Replicas : Work(c) # Sweep(r) /\ Work(c) # Flush(r)
  BY DEF Work, Bye, Sweep, Flush

LEMMA IdleState == Idle \in States /\ Idle.pc = "idle" /\ Idle.conn = None /\ Idle.text = None
  BY DEF Idle, States, Steps

LEMMA StateFields ==
  ASSUME TypeOK, NEW p \in Processes
  PROVE  /\ proc[p] \in States
         /\ proc[p].pc \in Steps
         /\ proc[p].conn \in Sockets \union {None}
         /\ proc[p].text \in Texts \union {None}
         /\ proc[p].token \in BOOLEAN
         /\ proc[p].live \in SUBSET Sockets
         /\ proc[p].todo \in SUBSET Sockets
  <1>1. proc[p] \in States
    BY DEF TypeOK, States
  <1> QED
    BY <1>1 DEF States

LEMMA MovesShape ==
  ASSUME TypeOK, NEW p \in Processes, NEW s \in States, Moves(p, s)
  PROVE  /\ proc' \in [Processes -> States]
         /\ proc'[p] = s
         /\ \A q \in Processes \ {p} : proc'[q] = proc[q]
  BY DEF TypeOK, States, Moves

LEMMA GotoMoves ==
  ASSUME TypeOK, NEW p \in Processes, NEW pc \in Steps, Goto(p, pc)
  PROVE  \E s \in States :
           /\ Moves(p, s)
           /\ s.pc = pc /\ s.conn = proc[p].conn /\ s.text = proc[p].text /\ s.token = proc[p].token
  <1> DEFINE s == [proc[p] EXCEPT !.pc = pc]
  <1>1. s \in States /\ s.pc = pc /\ s.conn = proc[p].conn /\ s.text = proc[p].text /\ s.token = proc[p].token
    BY StateFields DEF States
  <1>2. Moves(p, s)
    BY DEF Goto, Moves
  <1> QED
    BY <1>1, <1>2

LEMMA FinishMoves ==
  ASSUME TypeOK, NEW p \in Processes, Finish(p)
  PROVE  \E s \in States :
           /\ Moves(p, s)
           /\ s.pc \in {"idle", "forget"}
  <1> DEFINE s == [proc[p] EXCEPT !.pc = "forget", !.text = None, !.token = FALSE]
  <1>1. s \in States /\ s.pc = "forget"
    BY StateFields DEF States, Steps
  <1>2. Moves(p, IF p[1] = "work" THEN Idle ELSE s)
    BY DEF Finish, Moves
  <1> QED
    BY <1>1, <1>2, IdleState

LEMMA CarryingKept ==
  ASSUME TypeOK, Carrying, NEW p \in Processes, NEW s \in States, Moves(p, s),
         s.pc \in {"join seed", "update", "close publish", "close put", "flush publish", "flush put"}
           => s.text \in Texts
  PROVE  proc' \in [Processes -> States] /\ Carrying'
  BY MovesShape DEF Carrying

LEMMA CountedType ==
  ASSUME TypeOK
  PROVE  /\ \A what \in {"edits", "puts", "flushes", "saves", "consumer", "replicas"} :
              \A bound \in Nat : Counted(what, bound) =>
                /\ count' \in [edits : Nat, puts : Nat, flushes : Nat, saves : Nat,
                               consumer : Nat, replicas : Nat]
                /\ count'[what] = count[what] + 1
         /\ \A bound \in Nat : Counted("edits", bound) => count'.flushes = count.flushes
         /\ \A bound \in Nat : Counted("puts", bound) => count'.flushes = count.flushes
  BY DEF TypeOK, Counted

LEMMA BoundsType ==
  /\ MaxEdits \in Nat /\ MaxRunning \in Nat /\ MaxPutFailures \in Nat /\ MaxSaveFailures \in Nat
  /\ MaxConsumerCrashes \in Nat /\ MaxReplicaCrashes \in Nat
  BY RoomAssumption

\* The actions of a join and of an update, with the state they lead to.
LEMMA StartJoinStep ==
  ASSUME TypeOK, Carrying, NEW c \in Sockets, NEW initial \in {None, Read}, StartJoin(c, initial)
  PROVE  /\ TypeOK' /\ Carrying'
         /\ \E s \in States : Moves(Work(c), s) /\ s.pc = "join" /\ s.text = initial
         /\ initial # None => Seeding
         /\ count'.flushes = count.flushes
  <1> DEFINE s == [Idle EXCEPT !.pc = "join", !.text = initial]
  <1>1. initial \in Texts \union {None}
    BY DEF TypeOK, Read
  <1>2. s \in States /\ s.pc = "join" /\ s.text = initial
    BY <1>1 DEF Idle, States, Steps
  <1>3. Moves(Work(c), s)
    BY DEF StartJoin, Start, Moves
  <1> HIDE DEF s
  <1>4. proc' \in [Processes -> States] /\ Carrying'
    BY <1>2, <1>3, CarryingKept, ProcessNames
  <1>5. tokens' \in [Replicas -> SUBSET Sockets]
    BY DEF StartJoin, TypeOK
  <1>6. /\ count' \in [edits : Nat, puts : Nat, flushes : Nat, saves : Nat, consumer : Nat, replicas : Nat]
        /\ count'.flushes = count.flushes
        /\ initial # None => Seeding
    BY CountedType, BoundsType DEF StartJoin, TypeOK
  <1> QED
    BY <1>2, <1>3, <1>4, <1>5, <1>6 DEF StartJoin, TypeOK, States, Entries, redis, consumer, history

LEMMA AddUserStep ==
  ASSUME TypeOK, Carrying, NEW c \in Sockets, AddUser(c)
  PROVE  /\ TypeOK' /\ Carrying'
         /\ \E s \in States : /\ Moves(Work(c), s) /\ s.pc \in {"join again", "join grant"}
                              /\ s.text = proc[Work(c)].text
  <1>1. PICK s \in States : /\ Moves(Work(c), s) /\ s.pc \in {"join again", "join grant"}
                            /\ s.text = proc[Work(c)].text
    <2>1. PICK pc \in {"join again", "join grant"} : pc \in Steps /\ Goto(Work(c), pc)
      BY DEF AddUser, Steps
    <2> QED
      BY <2>1, GotoMoves, ProcessNames, ZenonT(60)
  <1>2. proc' \in [Processes -> States] /\ Carrying'
    BY <1>1, CarryingKept, ProcessNames
  <1> QED
    BY <1>1, <1>2 DEF AddUser, TypeOK, States, Entries, memory, consumer, history

LEMMA GrantAccessStep ==
  ASSUME TypeOK, Carrying, NEW c \in Sockets, GrantAccess(c)
  PROVE  /\ TypeOK' /\ Carrying'
         /\ \E s \in States : /\ Moves(Work(c), s) /\ s.pc \in {"idle", "join read"}
                              /\ s.pc = "join read" => s.text = proc[Work(c)].text
  <1>1. PICK s \in States : /\ Moves(Work(c), s) /\ s.pc \in {"idle", "join read"}
                            /\ s.pc = "join read" => s.text = proc[Work(c)].text
    <2>1. CASE proc[Work(c)].pc = "join grant"
      <3>1. Goto(Work(c), "join read") /\ "join read" \in Steps
        BY <2>1 DEF GrantAccess, Steps
      <3> QED
        BY <3>1, GotoMoves, ProcessNames
    <2>2. CASE proc[Work(c)].pc # "join grant"
      BY <2>2, IdleState DEF GrantAccess, Moves
    <2> QED
      BY <2>1, <2>2
  <1>2. proc' \in [Processes -> States] /\ Carrying'
    BY <1>1, CarryingKept, ProcessNames
  <1> QED
    BY <1>1, <1>2 DEF GrantAccess, TypeOK, States, Entries, memory, consumer, history

LEMMA ReadForJoinStep ==
  ASSUME TypeOK, Carrying, NEW c \in Sockets, ReadForJoin(c)
  PROVE  /\ TypeOK' /\ Carrying'
         /\ \E s \in States : /\ Moves(Work(c), s) /\ s.pc \in {"idle", "join seed"}
                              /\ s.pc = "join seed" => proc[Work(c)].text # None
  <1>1. PICK s \in States : /\ Moves(Work(c), s) /\ s.pc \in {"idle", "join seed"}
                            /\ s.pc = "join seed" => s.text \in Texts /\ proc[Work(c)].text # None
    <2>1. CASE hot = None /\ proc[Work(c)].text \notin {None, ""}
      <3>1. proc[Work(c)].text \in Texts
        BY <2>1, StateFields, ProcessNames
      <3>2. Goto(Work(c), "join seed") /\ "join seed" \in Steps
        BY <2>1 DEF ReadForJoin, Steps
      <3> QED
        BY <2>1, <3>1, <3>2, GotoMoves, ProcessNames
    <2>2. CASE ~(hot = None /\ proc[Work(c)].text \notin {None, ""})
      BY <2>2, IdleState DEF ReadForJoin, Moves
    <2> QED
      BY <2>1, <2>2
  <1>2. proc' \in [Processes -> States] /\ Carrying'
    BY <1>1, CarryingKept, ProcessNames
  <1> QED
    BY <1>1, <1>2 DEF ReadForJoin, TypeOK, States, Entries, redis, memory, consumer, history

LEMMA SeedContentStep ==
  ASSUME TypeOK, Carrying, NEW c \in Sockets, SeedContent(c)
  PROVE  TypeOK' /\ Carrying' /\ Moves(Work(c), Idle)
  <1>1. Moves(Work(c), Idle) /\ proc[Work(c)].text \in Texts
    BY ProcessNames DEF SeedContent, Moves, Carrying
  <1>2. proc' \in [Processes -> States] /\ Carrying'
    BY <1>1, IdleState, CarryingKept, ProcessNames
  <1> QED
    BY <1>1, <1>2 DEF SeedContent, TypeOK, States, Entries, memory, consumer, history

LEMMA StartUpdateStep ==
  ASSUME TypeOK, Carrying, NEW c \in Sockets, NEW text \in Texts, StartUpdate(c, text)
  PROVE  /\ TypeOK' /\ Carrying'
         /\ \E s \in States : Moves(Work(c), s) /\ s.pc = "update" /\ s.conn = None
         /\ count'.flushes = count.flushes
  <1> DEFINE s == [Idle EXCEPT !.pc = "update", !.text = text]
  <1>1. s \in States /\ s.pc = "update" /\ s.text = text /\ s.conn = None
    BY DEF Idle, States, Steps
  <1>2. Moves(Work(c), s)
    BY DEF StartUpdate, Start, Moves
  <1> HIDE DEF s
  <1>3. proc' \in [Processes -> States] /\ Carrying'
    BY <1>1, <1>2, CarryingKept, ProcessNames
  <1>4. /\ count' \in [edits : Nat, puts : Nat, flushes : Nat, saves : Nat, consumer : Nat, replicas : Nat]
        /\ count'.flushes = count.flushes
    BY CountedType, BoundsType DEF StartUpdate
  <1> QED
    BY <1>1, <1>2, <1>3, <1>4 DEF StartUpdate, TypeOK, States, Entries, redis, memory, consumer, history

LEMMA SetContentStep ==
  ASSUME TypeOK, Carrying, NEW c \in Sockets, SetContent(c)
  PROVE  TypeOK' /\ Carrying' /\ Moves(Work(c), Idle) /\ proc[Work(c)].text \in Texts
  <1>1. Moves(Work(c), Idle) /\ proc[Work(c)].text \in Texts
    BY ProcessNames DEF SetContent, Moves, Carrying
  <1>2. proc' \in [Processes -> States] /\ Carrying'
    BY <1>1, IdleState, CarryingKept, ProcessNames
  <1>3. mistaken' \in BOOLEAN
    BY DEF SetContent
  <1> QED
    BY <1>1, <1>2, <1>3 DEF SetContent, TypeOK, States, Entries, memory, consumer

LEMMA ConnectStep ==
  ASSUME TypeOK, Carrying, NEW c \in Sockets, Connect(c)
  PROVE  TypeOK' /\ Carrying'
  BY DEF Connect, TypeOK, Entries, Carrying, redis, memory, consumer, history

\* The actions of a leave, a disconnect and a sweep.
LEMMA StartLeaveStep ==
  ASSUME TypeOK, Carrying, NEW c \in Sockets, StartLeave(c)
  PROVE  /\ TypeOK' /\ Carrying'
         /\ \E s \in States : Moves(Work(c), s) /\ s.pc = "remove"
  <1> DEFINE s == [Idle EXCEPT !.pc = "remove", !.conn = c]
  <1>1. s \in States /\ s.pc = "remove"
    BY DEF Idle, States, Steps
  <1>2. Moves(Work(c), s)
    BY DEF StartLeave, Start, Moves
  <1> HIDE DEF s
  <1>3. proc' \in [Processes -> States] /\ Carrying'
    BY <1>1, <1>2, CarryingKept, ProcessNames
  <1> QED
    BY <1>1, <1>2, <1>3 DEF StartLeave, TypeOK, States, Entries, redis, memory, consumer, history

LEMMA DisconnectStep ==
  ASSUME TypeOK, Carrying, NEW c \in Sockets, Disconnect(c)
  PROVE  /\ TypeOK' /\ Carrying'
         /\ \E s \in States : Moves(Bye(c), s) /\ s.pc = "look up"
  <1> DEFINE s == [Idle EXCEPT !.pc = "look up", !.conn = c]
  <1>1. s \in States /\ s.pc = "look up"
    BY DEF Idle, States, Steps
  <1>2. Moves(Bye(c), s)
    BY DEF Disconnect, Start, Moves
  <1> HIDE DEF s
  <1>3. proc' \in [Processes -> States] /\ Carrying'
    BY <1>1, <1>2, CarryingKept, ProcessNames
  <1> QED
    BY <1>1, <1>2, <1>3 DEF Disconnect, TypeOK, States, Entries, redis, memory, consumer, history

LEMMA LookUpStep ==
  ASSUME TypeOK, Carrying, NEW c \in Sockets, LookUp(c)
  PROVE  /\ TypeOK' /\ Carrying'
         /\ \E s \in States : Moves(Bye(c), s) /\ s.pc \in {"remove", "forget"}
  <1>1. PICK s \in States : Moves(Bye(c), s) /\ s.pc \in {"remove", "forget"}
    <2>1. PICK pc \in {"remove", "forget"} : pc \in Steps /\ Goto(Bye(c), pc)
      BY DEF LookUp, Steps
    <2> QED
      BY <2>1, GotoMoves, ProcessNames
  <1>2. proc' \in [Processes -> States] /\ Carrying'
    BY <1>1, CarryingKept, ProcessNames
  <1> QED
    BY <1>1, <1>2 DEF LookUp, TypeOK, States, Entries, redis, memory, consumer, history

LEMMA SweepStepShape ==
  ASSUME TypeOK, Carrying, NEW r \in Replicas,
         StartSweep(r) \/ FetchSockets(r) \/ FetchMembers(r) \/ NextStale(r)
  PROVE  /\ TypeOK' /\ Carrying'
         /\ \E s \in States : /\ Moves(Sweep(r), s)
                              /\ s.pc \in {"fetch sockets", "fetch members", "next", "remove", "idle"}
  <1> DEFINE p == Sweep(r)
             Next4 == {"fetch sockets", "fetch members", "next", "remove", "idle"}
  <1>0. p \in Processes /\ proc[p] \in States
    BY ProcessNames, StateFields
  <1>1. PICK s \in States : Moves(p, s) /\ s.pc \in Next4
    <2>1. CASE StartSweep(r)
      <3>1. [Idle EXCEPT !.pc = "fetch sockets"] \in States
            /\ [Idle EXCEPT !.pc = "fetch sockets"].pc = "fetch sockets"
        BY DEF Idle, States, Steps
      <3>2. Moves(p, [Idle EXCEPT !.pc = "fetch sockets"])
        BY <2>1 DEF StartSweep, Start, Moves
      <3> QED
        BY <3>1, <3>2
    <2>2. CASE FetchSockets(r)
      <3> DEFINE t == [proc[p] EXCEPT !.pc = "fetch members",
                                      !.live = {c \in Sockets : status[c] = "connected"}]
      <3>1. t \in States /\ t.pc = "fetch members"
        BY <1>0 DEF States, Steps
      <3>2. Moves(p, t)
        BY <2>2 DEF FetchSockets, Moves
      <3> QED
        BY <3>1, <3>2
    <2>3. CASE FetchMembers(r)
      <3> DEFINE t == [proc[p] EXCEPT !.pc = "next", !.todo = users \ proc[p].live]
      <3>1. users \ proc[p].live \in SUBSET Sockets
        BY DEF TypeOK
      <3>2. t \in States /\ t.pc = "next"
        BY <1>0, <3>1 DEF States, Steps
      <3>3. Moves(p, t)
        BY <2>3 DEF FetchMembers, Moves
      <3> QED
        BY <3>2, <3>3
    <2>4. CASE NextStale(r)
      <3>1. CASE proc[p].todo = {}
        BY <2>4, <3>1, IdleState DEF NextStale, Moves
      <3>2. CASE proc[p].todo # {}
        <4>1. PICK c \in proc[p].todo :
                proc' = [proc EXCEPT ![p].pc = "remove", ![p].conn = c, ![p].todo = @ \ {c}]
          BY <2>4, <3>2 DEF NextStale
        <4> DEFINE t == [proc[p] EXCEPT !.pc = "remove", !.conn = c, !.todo = proc[p].todo \ {c}]
        <4>2. c \in Sockets /\ proc[p].todo \ {c} \in SUBSET Sockets
          BY <4>1, <1>0, StateFields
        <4>3. t \in States /\ t.pc = "remove"
          BY <1>0, <4>2 DEF States, Steps
        <4>4. Moves(p, t)
          BY <4>1 DEF Moves
        <4> QED
          BY <4>3, <4>4
      <3> QED
        BY <3>1, <3>2
    <2> QED
      BY <2>1, <2>2, <2>3, <2>4
  <1>2. proc' \in [Processes -> States] /\ Carrying'
    BY <1>0, <1>1, CarryingKept
  <1> QED
    BY <1>1, <1>2 DEF StartSweep, FetchSockets, FetchMembers, NextStale, TypeOK, States, Entries,
         redis, memory, consumer, history

\* The actions of the removal of a user.
LEMMA RemoveUserStep ==
  ASSUME TypeOK, Carrying, NEW p \in Processes, RemoveUser(p)
  PROVE  /\ TypeOK' /\ Carrying'
         /\ \E s \in States : /\ Moves(p, s) /\ s.conn = proc[p].conn
                              /\ s.pc \in {"revoke", "revoke only"}
                              /\ s.pc = "revoke only" => proc[p].conn \notin users
  <1>1. PICK s \in States : /\ Moves(p, s) /\ s.conn = proc[p].conn
                            /\ s.pc \in {"revoke", "revoke only"}
                            /\ s.pc = "revoke only" => proc[p].conn \notin users
    <2>1. PICK pc \in {"revoke", "revoke only"} : pc \in Steps /\ Goto(p, pc) /\ (pc = "revoke only" => proc[p].conn \notin users)
      BY DEF RemoveUser, Steps
    <2> QED
      BY <2>1, GotoMoves
  <1>2. proc' \in [Processes -> States] /\ Carrying'
    BY <1>1, CarryingKept
  <1> QED
    BY <1>1, <1>2 DEF RemoveUser, TypeOK, States, Entries, memory, consumer, history

LEMMA RevokeAccessStep ==
  ASSUME TypeOK, Carrying, NEW p \in Processes, RevokeAccess(p)
  PROVE  /\ TypeOK' /\ Carrying'
         /\ \E s \in States : /\ Moves(p, s)
                              /\ IF proc[p].pc = "revoke" THEN s.pc = "count" /\ s.conn = proc[p].conn
                                                          ELSE s.pc = "idle"
  <1>1. PICK s \in States : /\ Moves(p, s)
                            /\ IF proc[p].pc = "revoke" THEN s.pc = "count" /\ s.conn = proc[p].conn
                                                        ELSE s.pc = "idle"
    <2>1. CASE proc[p].pc = "revoke"
      <3>1. Goto(p, "count") /\ "count" \in Steps
        BY <2>1 DEF RevokeAccess, Steps
      <3> QED
        BY <3>1, GotoMoves, <2>1
    <2>2. CASE proc[p].pc # "revoke"
      BY <2>2, IdleState DEF RevokeAccess, Moves
    <2> QED
      BY <2>1, <2>2
  <1>2. proc' \in [Processes -> States] /\ Carrying'
    BY <1>1, CarryingKept
  <1> QED
    BY <1>1, <1>2 DEF RevokeAccess, TypeOK, States, Entries, memory, consumer, history

LEMMA CountUsersStep ==
  ASSUME TypeOK, Carrying, NEW p \in Processes, CountUsers(p)
  PROVE  /\ TypeOK' /\ Carrying'
         /\ \E s \in States : /\ Moves(p, s)
                              /\ IF users = {} THEN s.pc = "close read" /\ s.conn = proc[p].conn
                                               ELSE s.pc \in {"idle", "forget"}
         /\ \A r \in Replicas :
              tokens'[r] = IF users # {} /\ r = At(p) THEN tokens[r] \ {proc[p].conn} ELSE tokens[r]
  <1>1. PICK s \in States : /\ Moves(p, s)
                            /\ IF users = {} THEN s.pc = "close read" /\ s.conn = proc[p].conn
                                             ELSE s.pc \in {"idle", "forget"}
    <2>1. CASE users = {}
      <3>1. Goto(p, "close read") /\ "close read" \in Steps
        BY <2>1 DEF CountUsers, Steps
      <3> QED
        BY <3>1, GotoMoves, <2>1
    <2>2. CASE users # {}
      BY <2>2, FinishMoves DEF CountUsers
    <2> QED
      BY <2>1, <2>2
  <1>2. proc' \in [Processes -> States] /\ Carrying'
    BY <1>1, CarryingKept
  <1>3. tokens' \in [Replicas -> SUBSET Sockets]
    BY ZenonT(60) DEF CountUsers, TypeOK
  <1>4. \A r \in Replicas :
          tokens'[r] = IF users # {} /\ r = At(p) THEN tokens[r] \ {proc[p].conn} ELSE tokens[r]
    <2>1. CASE users = {}
      BY <2>1 DEF CountUsers
    <2>2. CASE users # {}
      <3>1. tokens' = [tokens EXCEPT ![At(p)] = tokens[At(p)] \ {proc[p].conn}] /\ users # {}
        BY <2>2 DEF CountUsers
      <3>2. tokens \in [Replicas -> SUBSET Sockets]
        BY DEF TypeOK
      <3> QED
        BY <3>1, <3>2
    <2> QED
      BY <2>1, <2>2
  <1> QED
    BY <1>1, <1>2, <1>3, <1>4 DEF CountUsers, TypeOK, States, Entries, redis, consumer, history

LEMMA CloseReadStep ==
  ASSUME TypeOK, Carrying, NEW p \in Processes, CloseRead(p)
  PROVE  /\ TypeOK' /\ Carrying'
         /\ \E s \in States : /\ Moves(p, s) /\ s.conn = proc[p].conn /\ s.text = hot
                              /\ s.pc = IF hot # None /\ hot # lastSaved[At(p)]
                                        THEN "close publish" ELSE "close delete"
  <1> DEFINE s == [proc[p] EXCEPT
                     !.pc = IF hot # None /\ hot # lastSaved[At(p)] THEN "close publish" ELSE "close delete",
                     !.text = hot, !.token = tokens[At(p)] # {}]
  <1>1. /\ s \in States /\ s.conn = proc[p].conn /\ s.text = hot
        /\ s.pc = IF hot # None /\ hot # lastSaved[At(p)] THEN "close publish" ELSE "close delete"
    BY StateFields, ZenonT(60) DEF States, Steps, TypeOK
  <1>2. Moves(p, s)
    BY DEF CloseRead, Moves
  <1> HIDE DEF s
  <1>3. proc' \in [Processes -> States] /\ Carrying'
    BY <1>1, <1>2, CarryingKept DEF TypeOK
  <1> QED
    BY <1>1, <1>2, <1>3 DEF CloseRead, TypeOK, States, Entries, redis, memory, consumer, history

LEMMA AddToStreamType ==
  ASSUME TypeOK, NEW text \in Texts, AddToStream(text)
  PROVE  /\ published' \in Nat /\ delivered \in 0..published'
         /\ stream' \subseteq Entries' /\ batch \subseteq Entries'
  BY DEF TypeOK, AddToStream, Entries

LEMMA ClosePublishStep ==
  ASSUME TypeOK, Carrying, NEW p \in Processes, ClosePublish(p)
  PROVE  /\ TypeOK' /\ Carrying'
         /\ proc[p].text \in Texts
         /\ \E s \in States : /\ Moves(p, s) /\ s.conn = proc[p].conn /\ s.text = proc[p].text
                              /\ \/ s.pc = "close put" /\ UNCHANGED lastSaved
                                 \/ /\ s.pc = "close delete"
                                    /\ lastSaved' = [lastSaved EXCEPT ![At(p)] = proc[p].text]
  <1>1. PICK s \in States : /\ Moves(p, s) /\ s.conn = proc[p].conn /\ s.text = proc[p].text
                            /\ \/ s.pc = "close put" /\ UNCHANGED lastSaved
                               \/ /\ s.pc = "close delete"
                                  /\ lastSaved' = [lastSaved EXCEPT ![At(p)] = proc[p].text]
    <2>1. CASE proc[p].token
      <3>1. Goto(p, "close put") /\ "close put" \in Steps /\ UNCHANGED lastSaved
        BY <2>1 DEF ClosePublish, Steps
      <3> QED
        BY <3>1, GotoMoves
    <2>2. CASE ~proc[p].token
      <3>1. /\ Goto(p, "close delete") /\ "close delete" \in Steps
            /\ lastSaved' = [lastSaved EXCEPT ![At(p)] = proc[p].text]
        BY <2>2 DEF ClosePublish, Steps
      <3> QED
        BY <3>1, GotoMoves
    <2> QED
      BY <2>1, <2>2
  <1>2. proc[p].text \in Texts
    BY DEF ClosePublish, Carrying
  <1>3. proc' \in [Processes -> States] /\ Carrying'
    BY <1>1, <1>2, CarryingKept
  <1>4. lastSaved' \in [Replicas -> Texts \union {None}]
    BY <1>1, <1>2 DEF TypeOK
  <1>5. /\ published' \in Nat /\ delivered \in 0..published'
        /\ stream' \subseteq Entries' /\ batch \subseteq Entries'
    BY <1>2, AddToStreamType DEF ClosePublish
  <1> QED
    BY <1>1, <1>2, <1>3, <1>4, <1>5 DEF ClosePublish, TypeOK, States, Entries, redis, consumer, history

LEMMA PutType ==
  ASSUME TypeOK, NEW text \in Texts, NEW saved \in BOOLEAN, NEW what \in {"puts", "flushes"},
         Put(text, saved, what)
  PROVE  /\ postgres' \in Texts
         /\ count' \in [edits : Nat, puts : Nat, flushes : Nat, saves : Nat, consumer : Nat, replicas : Nat]
         /\ count'.flushes \in {count.flushes, count.flushes + 1}
         /\ what = "puts" => count'.flushes = count.flushes
         /\ what = "flushes" /\ ~saved => count'.flushes = count.flushes + 1
         /\ postgres' = IF saved THEN text ELSE postgres
  BY CountedType, BoundsType DEF TypeOK, Put

LEMMA ClosePutStep ==
  ASSUME TypeOK, Carrying, NEW p \in Processes, NEW saved \in BOOLEAN, ClosePut(p, saved)
  PROVE  /\ TypeOK' /\ Carrying'
         /\ proc[p].text \in Texts
         /\ \E s \in States : Moves(p, s) /\ s.conn = proc[p].conn /\ s.pc = "close delete"
  <1>1. PICK s \in States : Moves(p, s) /\ s.conn = proc[p].conn /\ s.pc = "close delete"
    <2>1. Goto(p, "close delete") /\ "close delete" \in Steps
      BY DEF ClosePut, Steps
    <2> QED
      BY <2>1, GotoMoves
  <1>2. proc[p].text \in Texts
    BY DEF ClosePut, Carrying
  <1>3. proc' \in [Processes -> States] /\ Carrying'
    BY <1>1, CarryingKept
  <1>4. lastSaved' \in [Replicas -> Texts \union {None}]
    BY <1>2 DEF TypeOK, ClosePut
  <1>5. /\ postgres' \in Texts
        /\ count' \in [edits : Nat, puts : Nat, flushes : Nat, saves : Nat, consumer : Nat, replicas : Nat]
    BY <1>2, PutType DEF ClosePut
  <1> QED
    BY <1>1, <1>2, <1>3, <1>4, <1>5 DEF ClosePut, TypeOK, States, Entries, redis, consumer, history

LEMMA DeleteContentStep ==
  ASSUME TypeOK, Carrying, NEW p \in Processes, DeleteContent(p)
  PROVE  /\ TypeOK' /\ Carrying'
         /\ \E s \in States : Moves(p, s) /\ s.conn = proc[p].conn /\ s.pc = "close log"
  <1>1. PICK s \in States : Moves(p, s) /\ s.conn = proc[p].conn /\ s.pc = "close log"
    <2>1. Goto(p, "close log") /\ "close log" \in Steps
      BY DEF DeleteContent, Steps
    <2> QED
      BY <2>1, GotoMoves
  <1>2. proc' \in [Processes -> States] /\ Carrying'
    BY <1>1, CarryingKept
  <1> QED
    BY <1>1, <1>2 DEF DeleteContent, TypeOK, States, Entries, memory, consumer, history

LEMMA DeleteOperationsStep ==
  ASSUME TypeOK, Carrying, NEW p \in Processes, DeleteOperations(p)
  PROVE  /\ TypeOK' /\ Carrying'
         /\ \E s \in States : Moves(p, s) /\ s.pc \in {"idle", "forget"}
         /\ tokens'[At(p)] = {} /\ lastSaved'[At(p)] = None
         /\ \A r \in Replicas \ {At(p)} : tokens'[r] = tokens[r] /\ lastSaved'[r] = lastSaved[r]
  <1>1. PICK s \in States : Moves(p, s) /\ s.pc \in {"idle", "forget"}
    BY FinishMoves DEF DeleteOperations
  <1>2. proc' \in [Processes -> States] /\ Carrying'
    BY <1>1, CarryingKept
  <1>3. tokens' \in [Replicas -> SUBSET Sockets] /\ lastSaved' \in [Replicas -> Texts \union {None}]
    BY DEF TypeOK, DeleteOperations
  <1>4. /\ tokens'[At(p)] = {} /\ lastSaved'[At(p)] = None
        /\ \A r \in Replicas \ {At(p)} : tokens'[r] = tokens[r] /\ lastSaved'[r] = lastSaved[r]
    BY Homes DEF TypeOK, DeleteOperations
  <1> QED
    BY <1>1, <1>2, <1>3, <1>4 DEF DeleteOperations, TypeOK, States, Entries, redis, consumer, history

LEMMA RemoveConnectionStep ==
  ASSUME TypeOK, Carrying, NEW p \in Processes, RemoveConnection(p)
  PROVE  /\ TypeOK' /\ Carrying'
         /\ \E s \in States : Moves(p, s) /\ s.pc \in {"idle", "next"}
  <1> DEFINE t == [proc[p] EXCEPT !.pc = "next", !.conn = None]
  <1>1. t \in States /\ t.pc = "next"
    BY StateFields DEF States, Steps
  <1>2. Moves(p, IF p[1] = "sweep" THEN t ELSE Idle)
    BY DEF RemoveConnection, Moves
  <1> HIDE DEF t
  <1>3. PICK s \in States : Moves(p, s) /\ s.pc \in {"idle", "next"}
    BY <1>1, <1>2, IdleState
  <1>4. proc' \in [Processes -> States] /\ Carrying'
    BY <1>3, CarryingKept
  <1> QED
    BY <1>3, <1>4 DEF RemoveConnection, TypeOK, States, Entries, memory, consumer, history

\* The actions of the flusher.
LEMMA StartFlushStep ==
  ASSUME TypeOK, Carrying, NEW r \in Replicas, StartFlush(r)
  PROVE  /\ TypeOK' /\ Carrying'
         /\ \E s \in States : Moves(Flush(r), s) /\ s.pc = "flush read"
  <1> DEFINE s == [Idle EXCEPT !.pc = "flush read"]
  <1>1. s \in States /\ s.pc = "flush read"
    BY DEF Idle, States, Steps
  <1>2. Moves(Flush(r), s)
    BY DEF StartFlush, Start, Moves
  <1> HIDE DEF s
  <1>3. proc' \in [Processes -> States] /\ Carrying'
    BY <1>1, <1>2, CarryingKept, ProcessNames
  <1> QED
    BY <1>1, <1>2, <1>3 DEF StartFlush, TypeOK, States, Entries, redis, memory, consumer, history

LEMMA FlushReadStep ==
  ASSUME TypeOK, Carrying, NEW r \in Replicas, FlushRead(r)
  PROVE  /\ TypeOK' /\ Carrying'
         /\ \E s \in States : /\ Moves(Flush(r), s) /\ s.pc \in {"idle", "flush publish"}
                              /\ s.pc = "flush publish" => s.text = hot
  <1> DEFINE p == Flush(r)
             t == [proc[p] EXCEPT !.pc = "flush publish", !.text = hot, !.token = tokens[r] # {}]
  <1>0. p \in Processes /\ proc[p] \in States /\ hot \in Texts \union {None}
    BY StateFields, ProcessNames DEF TypeOK
  <1>1. t \in States /\ t.pc = "flush publish" /\ t.text = hot
    BY <1>0 DEF States, Steps
  <1>2. \/ Moves(p, t) /\ hot # None
        \/ Moves(p, Idle)
    BY DEF FlushRead, Moves
  <1> HIDE DEF t
  <1>3. PICK s \in States : /\ Moves(p, s) /\ s.pc \in {"idle", "flush publish"}
                            /\ s.pc = "flush publish" => s.text = hot /\ hot \in Texts
    BY <1>0, <1>1, <1>2, IdleState
  <1>4. proc' \in [Processes -> States] /\ Carrying'
    BY <1>3, CarryingKept, ProcessNames
  <1> QED
    BY <1>3, <1>4 DEF FlushRead, TypeOK, States, Entries, redis, memory, consumer, history

LEMMA FlushPublishStep ==
  ASSUME TypeOK, Carrying, NEW r \in Replicas, FlushPublish(r)
  PROVE  /\ TypeOK' /\ Carrying'
         /\ proc[Flush(r)].text \in Texts
         /\ \E s \in States : /\ Moves(Flush(r), s)
                              /\ \/ /\ s.pc = "flush put" /\ UNCHANGED lastSaved
                                    /\ s.text = proc[Flush(r)].text
                                 \/ /\ s.pc = "idle"
                                    /\ lastSaved' = [lastSaved EXCEPT ![r] = proc[Flush(r)].text]
  <1> DEFINE p == Flush(r)
  <1>0. p \in Processes
    BY ProcessNames
  <1>1. PICK s \in States : /\ Moves(p, s)
                            /\ \/ /\ s.pc = "flush put" /\ UNCHANGED lastSaved
                                  /\ s.text = proc[p].text
                               \/ /\ s.pc = "idle"
                                  /\ lastSaved' = [lastSaved EXCEPT ![r] = proc[p].text]
    <2>1. CASE proc[p].token
      <3>1. Goto(p, "flush put") /\ "flush put" \in Steps /\ UNCHANGED lastSaved
        BY <2>1 DEF FlushPublish, Steps
      <3> QED
        BY <1>0, <3>1, GotoMoves
    <2>2. CASE ~proc[p].token
      BY <2>2, IdleState DEF FlushPublish, Moves
    <2> QED
      BY <2>1, <2>2
  <1>2. proc[p].text \in Texts
    BY <1>0 DEF FlushPublish, Carrying
  <1>3. proc' \in [Processes -> States] /\ Carrying'
    BY <1>0, <1>1, <1>2, CarryingKept
  <1>4. lastSaved' \in [Replicas -> Texts \union {None}]
    BY <1>1, <1>2 DEF TypeOK
  <1>5. /\ published' \in Nat /\ delivered \in 0..published'
        /\ stream' \subseteq Entries' /\ batch \subseteq Entries'
    BY <1>2, AddToStreamType DEF FlushPublish
  <1> QED
    BY <1>1, <1>2, <1>3, <1>4, <1>5 DEF FlushPublish, TypeOK, States, Entries, redis, consumer, history

LEMMA FlushPutStep ==
  ASSUME TypeOK, Carrying, NEW r \in Replicas, NEW saved \in BOOLEAN, FlushPut(r, saved)
  PROVE  TypeOK' /\ Carrying' /\ Moves(Flush(r), Idle) /\ proc[Flush(r)].text \in Texts
  <1> DEFINE p == Flush(r)
  <1>0. p \in Processes
    BY ProcessNames
  <1>1. Moves(p, Idle) /\ proc[p].text \in Texts
    BY <1>0 DEF FlushPut, Moves, Carrying
  <1>2. proc' \in [Processes -> States] /\ Carrying'
    BY <1>0, <1>1, IdleState, CarryingKept
  <1>3. lastSaved' \in [Replicas -> Texts \union {None}]
    BY <1>1 DEF TypeOK, FlushPut
  <1>4. /\ postgres' \in Texts
        /\ count' \in [edits : Nat, puts : Nat, flushes : Nat, saves : Nat, consumer : Nat, replicas : Nat]
    BY <1>1, PutType DEF FlushPut
  <1> QED
    BY <1>1, <1>2, <1>3, <1>4 DEF FlushPut, TypeOK, States, Entries, redis, consumer, history

\* The consumer, and a replica that dies.
LEMMA ConsumerType ==
  ASSUME TypeOK, Carrying, ConsumerStep \/ \E entry \in batch : ConsumerCrash(entry)
  PROVE  TypeOK' /\ Carrying'
  <1>1. CASE Poll
    <2>1. batch' \subseteq stream /\ delivered' \in {published, delivered}
      BY <1>1 DEF Poll, Fresh
    <2>2. batch' \subseteq Entries /\ delivered' \in 0..published
      BY <2>1 DEF TypeOK
    <2> QED
      BY <1>1, <2>2 DEF Poll, TypeOK, Entries, Carrying, redis, memory, history
  <1>2. ASSUME NEW entry \in batch, NEW saved \in BOOLEAN, Consume(entry, saved)
        PROVE  TypeOK' /\ Carrying'
    <2>1. entry.text \in Texts
      BY DEF TypeOK, Entries
    <2>2. /\ postgres' \in Texts
          /\ count' \in [edits : Nat, puts : Nat, flushes : Nat, saves : Nat, consumer : Nat, replicas : Nat]
      BY <1>2, <2>1, CountedType, BoundsType DEF Consume, TypeOK
    <2> QED
      BY <1>2, <2>2 DEF Consume, TypeOK, Carrying, Entries, redis, memory, history
  <1>3. ASSUME NEW entry \in batch, ConsumerCrash(entry)
        PROVE  TypeOK' /\ Carrying'
    <2>1. entry.text \in Texts
      BY DEF TypeOK, Entries
    <2>2. /\ postgres' \in Texts
          /\ count' \in [edits : Nat, puts : Nat, flushes : Nat, saves : Nat, consumer : Nat, replicas : Nat]
      BY <1>3, <2>1, CountedType, BoundsType DEF ConsumerCrash, TypeOK
    <2> QED
      BY <1>3, <2>2 DEF ConsumerCrash, TypeOK, Carrying, Entries, redis, memory, history
  <1> QED
    BY <1>1, <1>2, <1>3 DEF ConsumerStep

LEMMA ReplicaCrashType ==
  ASSUME TypeOK, Carrying, NEW r \in Replicas, ReplicaCrash(r)
  PROVE  TypeOK' /\ Carrying'
  <1>1. proc' \in [Processes -> States]
    BY IdleState DEF ReplicaCrash, TypeOK, States
  <1>2. Carrying'
    BY IdleState DEF ReplicaCrash, Carrying
  <1>3. count' \in [edits : Nat, puts : Nat, flushes : Nat, saves : Nat, consumer : Nat, replicas : Nat]
    BY CountedType, BoundsType DEF ReplicaCrash
  <1>4. tokens' \in [Replicas -> SUBSET Sockets] /\ lastSaved' \in [Replicas -> Texts \union {None}]
    BY DEF ReplicaCrash, TypeOK
  <1>5. status' \in [Sockets -> {"new", "connected", "gone"}]
    BY DEF ReplicaCrash, TypeOK
  <1> QED
    BY <1>1, <1>2, <1>3, <1>4, <1>5 DEF ReplicaCrash, TypeOK, States, Entries, redis, consumer, history

-----------------------------------------------------------------------------
(***************************************************************************)
(* Types                                                                   *)
(***************************************************************************)
LEMMA InitType == Init => TypeOK /\ Carrying
  <1> SUFFICES ASSUME Init PROVE TypeOK /\ Carrying
    OBVIOUS
  <1>1. proc \in [Processes -> States] /\ Carrying
    BY IdleState DEF Init, Carrying
  <1> QED
    <2>1. /\ count \in [edits : Nat, puts : Nat, flushes : Nat, saves : Nat, consumer : Nat, replicas : Nat]
          /\ published \in Nat /\ delivered \in 0..published
          /\ stream \subseteq Entries /\ batch \subseteq Entries
      BY DEF Init
    <2>2. status \in [Sockets -> {"new", "connected", "gone"}]
      BY DEF Init
    <2>3. tokens \in [Replicas -> SUBSET Sockets] /\ lastSaved \in [Replicas -> Texts \union {None}]
      BY DEF Init
    <2> QED
      BY <1>1, <2>1, <2>2, <2>3, RoomAssumption DEF Init, TypeOK, States

LEMMA RemovalType ==
  ASSUME TypeOK, Carrying, NEW p \in Processes, Removal(p)
  PROVE  TypeOK' /\ Carrying'
  BY RemoveUserStep, RevokeAccessStep, CountUsersStep, CloseReadStep, ClosePublishStep, ClosePutStep,
     DeleteContentStep, DeleteOperationsStep, RemoveConnectionStep DEF Removal

LEMMA NextType ==
  ASSUME TypeOK, Carrying, [Next]_vars
  PROVE  TypeOK' /\ Carrying'
  <1>1. CASE UNCHANGED vars
    BY <1>1 DEF vars, redis, memory, consumer, history, TypeOK, Carrying, Entries
  <1>2. ASSUME NEW c \in Sockets, WorkStep(c) \/ ByeStep(c)
        PROVE  TypeOK' /\ Carrying'
    BY <1>2, ProcessNames, RemovalType, AddUserStep, GrantAccessStep, ReadForJoinStep, SeedContentStep,
       SetContentStep, LookUpStep DEF WorkStep, ByeStep
  <1>3. ASSUME NEW r \in Replicas, SweepStep(r) \/ FlushStep(r)
        PROVE  TypeOK' /\ Carrying'
    BY <1>3, ProcessNames, RemovalType, SweepStepShape, FlushReadStep, FlushPublishStep, FlushPutStep
       DEF SweepStep, FlushStep
  <1> QED
    BY <1>1, <1>2, <1>3, ConnectStep, StartJoinStep, StartUpdateStep, StartLeaveStep, DisconnectStep,
       SweepStepShape, StartFlushStep, ReplicaCrashType, ConsumerType DEF Next

THEOREM TypeCorrect == Spec => []TypeOK
  <1>1. Init => TypeOK /\ Carrying
    BY InitType
  <1>2. TypeOK /\ Carrying /\ [Next]_vars => TypeOK' /\ Carrying'
    BY NextType
  <1> QED
    BY <1>1, <1>2, PTL DEF Spec

-----------------------------------------------------------------------------
(***************************************************************************)
(* On one replica a user's token is kept only as long as he is a member    *)
(***************************************************************************)

\* A token after a step of p is a member's, or is dealt with by p, or it was
\* dealt with by another process before, which has not moved.
LEMMA AccountedMove ==
  ASSUME TypeOK, TokensAccounted, NEW p \in Processes, NEW s \in States, Moves(p, s),
         tokens' \in [Replicas -> SUBSET Sockets],
         \A r \in Replicas : \A c \in tokens'[r] :
           \/ c \in users'
           \/ p = Work(c) /\ s.pc = "join"
           \/ Withdraws(s, c)
           \/ /\ c \in tokens[r] /\ c \notin users
              /\ p = Work(c) => proc[p].pc # "join"
              /\ ~Withdraws(proc[p], c)
  PROVE  TokensAccounted'
  <1> SUFFICES ASSUME NEW r \in Replicas, NEW c \in tokens'[r]
               PROVE  c \in users' \/ proc'[Work(c)].pc = "join" \/ \E q \in Processes : Withdraws(proc'[q], c)
    BY DEF TokensAccounted, Withdrawing, Withdraws
  <1>1. c \in Sockets /\ Work(c) \in Processes
    BY ProcessNames
  <1>2. proc'[p] = s /\ \A q \in Processes \ {p} : proc'[q] = proc[q]
    BY MovesShape
  <1>3. CASE p = Work(c) /\ s.pc = "join"
    BY <1>2, <1>3
  <1>4. CASE Withdraws(s, c)
    BY <1>2, <1>4
  <1>5. CASE /\ c \in tokens[r] /\ c \notin users
             /\ p = Work(c) => proc[p].pc # "join"
             /\ ~Withdraws(proc[p], c)
    <2>1. proc[Work(c)].pc = "join" \/ \E q \in Processes : Withdraws(proc[q], c)
      BY <1>5 DEF TokensAccounted, Withdrawing
    <2>2. CASE proc[Work(c)].pc = "join"
      BY <1>1, <1>2, <1>5, <2>2
    <2>3. CASE \E q \in Processes : Withdraws(proc[q], c)
      <3>1. PICK q \in Processes : Withdraws(proc[q], c)
        BY <2>3
      <3>2. proc'[q] = proc[q]
        BY <1>2, <1>5, <3>1
      <3> QED
        BY <3>1, <3>2
    <2> QED
      BY <2>1, <2>2, <2>3
  <1> QED
    BY <1>3, <1>4, <1>5

\* A step of a process that was neither joining nor dealing with anybody's token.
LEMMA AccountedAside ==
  ASSUME TypeOK, TokensAccounted, NEW p \in Processes, NEW s \in States, Moves(p, s),
         UNCHANGED <<users, tokens>>,
         proc[p].pc \notin {"join", "revoke", "count", "close read", "close publish", "close put",
                            "close delete", "close log"}
  PROVE  TokensAccounted'
  <1>1. tokens' \in [Replicas -> SUBSET Sockets]
    BY DEF TypeOK
  <1>2. \A c \in Sockets : ~Withdraws(proc[p], c)
    BY DEF Withdraws
  <1>3. \A r \in Replicas : \A c \in tokens'[r] :
          c \in users' \/ (c \in tokens[r] /\ c \notin users /\ ~Withdraws(proc[p], c))
    BY <1>1, <1>2
  <1> QED
    BY <1>1, <1>3, AccountedMove

\* A step of a process that goes on dealing with the token of the same socket.
LEMMA AccountedOn ==
  ASSUME TypeOK, TokensAccounted, NEW p \in Processes, NEW s \in States, Moves(p, s),
         UNCHANGED <<users, tokens>>, proc[p].pc # "join", s.conn = proc[p].conn,
         s.pc \in {"revoke", "count", "close read", "close publish", "close put",
                   "close delete", "close log"}
  PROVE  TokensAccounted'
  <1>1. tokens' \in [Replicas -> SUBSET Sockets]
    BY DEF TypeOK
  <1>2. \A c \in Sockets : Withdraws(s, c) \/ ~Withdraws(proc[p], c)
    BY DEF Withdraws
  <1>3. \A r \in Replicas : \A c \in tokens'[r] :
          \/ c \in users' \/ Withdraws(s, c)
          \/ c \in tokens[r] /\ c \notin users /\ ~Withdraws(proc[p], c)
    BY <1>1, <1>2
  <1> QED
    BY <1>1, <1>3, AccountedMove

LEMMA AccountedRemoval ==
  ASSUME OneReplica, TypeOK, Carrying, TokensAccounted, NEW p \in Processes, Removal(p)
  PROVE  TokensAccounted'
  <1> DEFINE Dealing == {"revoke", "count", "close read", "close publish", "close put",
                         "close delete", "close log"}
  <1>0. \A r \in Replicas : r = At(p)
    BY Homes DEF OneReplica
  <1>1. CASE RemoveUser(p)
    <2>1. PICK s \in States : /\ Moves(p, s) /\ s.conn = proc[p].conn
                              /\ s.pc \in {"revoke", "revoke only"}
                              /\ s.pc = "revoke only" => proc[p].conn \notin users
      BY <1>1, RemoveUserStep
    <2>2. users' = users \ {proc[p].conn} /\ tokens' = tokens /\ proc[p].pc = "remove"
      BY <1>1 DEF RemoveUser, memory
    <2>3. \A c \in Sockets : ~Withdraws(proc[p], c) /\ (s.pc = "revoke" /\ s.conn = c => Withdraws(s, c))
      BY <2>2 DEF Withdraws
    <2>4. tokens' \in [Replicas -> SUBSET Sockets]
      BY <2>2 DEF TypeOK
    <2>5. \A r \in Replicas : \A c \in tokens'[r] :
            \/ c \in users' \/ Withdraws(s, c)
            \/ c \in tokens[r] /\ c \notin users /\ ~Withdraws(proc[p], c)
      BY <2>1, <2>2, <2>3, <2>4
    <2> QED
      BY <2>1, <2>2, <2>4, <2>5, AccountedMove
  <1>2. CASE RevokeAccess(p)
    <2>1. PICK s \in States : /\ Moves(p, s)
                              /\ IF proc[p].pc = "revoke" THEN s.pc = "count" /\ s.conn = proc[p].conn
                                                          ELSE s.pc = "idle"
      BY <1>2, RevokeAccessStep
    <2>2. UNCHANGED <<users, tokens>> /\ proc[p].pc \in {"revoke", "revoke only"}
      BY <1>2 DEF RevokeAccess, memory
    <2>3. CASE proc[p].pc = "revoke"
      BY <2>1, <2>2, <2>3, AccountedOn
    <2>4. CASE proc[p].pc = "revoke only"
      BY <2>1, <2>2, <2>4, AccountedAside
    <2> QED
      BY <2>2, <2>3, <2>4
  <1>3. CASE CountUsers(p)
    <2>1. PICK s \in States : /\ Moves(p, s)
                              /\ IF users = {} THEN s.pc = "close read" /\ s.conn = proc[p].conn
                                               ELSE s.pc \in {"idle", "forget"}
      BY <1>3, CountUsersStep
    <2>2. /\ users' = users /\ proc[p].pc = "count"
          /\ \A r \in Replicas : tokens'[r] = IF users # {} THEN tokens[r] \ {proc[p].conn} ELSE tokens[r]
      BY <1>0, <1>3, CountUsersStep DEF CountUsers, redis
    <2>3. tokens' \in [Replicas -> SUBSET Sockets]
      BY <1>3, CountUsersStep DEF TypeOK
    <2>4. \A c \in Sockets : /\ Withdraws(proc[p], c) => c = proc[p].conn
                             /\ users = {} /\ c = proc[p].conn => Withdraws(s, c)
      BY <2>1 DEF Withdraws
    <2>5. \A r \in Replicas : \A c \in tokens'[r] :
            \/ c \in users' \/ Withdraws(s, c)
            \/ c \in tokens[r] /\ c \notin users /\ ~Withdraws(proc[p], c)
      BY <2>2, <2>3, <2>4
    <2> QED
      BY <2>1, <2>2, <2>3, <2>5, AccountedMove
  <1>4. CASE CloseRead(p)
    <2>1. UNCHANGED <<users, tokens>> /\ proc[p].pc = "close read"
      BY <1>4 DEF CloseRead, redis, memory
    <2> QED
      BY <1>4, <2>1, CloseReadStep, AccountedOn
  <1>5. CASE ClosePublish(p)
    <2>1. UNCHANGED <<users, tokens>> /\ proc[p].pc = "close publish"
      BY <1>5 DEF ClosePublish, redis
    <2> QED
      BY <1>5, <2>1, ClosePublishStep, AccountedOn
  <1>6. ASSUME NEW saved \in BOOLEAN, ClosePut(p, saved)
        PROVE  TokensAccounted'
    <2>1. UNCHANGED <<users, tokens>> /\ proc[p].pc = "close put"
      BY <1>6 DEF ClosePut, redis
    <2> QED
      BY <1>6, <2>1, ClosePutStep, AccountedOn
  <1>7. CASE DeleteContent(p)
    <2>1. UNCHANGED <<users, tokens>> /\ proc[p].pc = "close delete"
      BY <1>7 DEF DeleteContent, memory
    <2> QED
      BY <1>7, <2>1, DeleteContentStep, AccountedOn
  <1>8. CASE DeleteOperations(p)
    <2>1. \A r \in Replicas : tokens'[r] = {}
      BY <1>0, <1>8, DeleteOperationsStep
    <2> QED
      BY <2>1 DEF TokensAccounted
  <1>9. CASE RemoveConnection(p)
    <2>1. UNCHANGED <<users, tokens>> /\ proc[p].pc = "forget"
      BY <1>9 DEF RemoveConnection, memory
    <2> QED
      BY <1>9, <2>1, RemoveConnectionStep, AccountedAside
  <1> QED
    BY <1>1, <1>2, <1>3, <1>4, <1>5, <1>6, <1>7, <1>8, <1>9 DEF Removal

LEMMA AccountedNext ==
  ASSUME OneReplica, TypeOK, Carrying, TokensAccounted, [Next]_vars
  PROVE  TokensAccounted'
  <1>1. CASE UNCHANGED <<proc, tokens, users>>
    BY <1>1 DEF TokensAccounted, Withdrawing
  <1>2. ASSUME NEW c \in Sockets, NEW initial \in {None, Read}, StartJoin(c, initial)
        PROVE  TokensAccounted'
    <2>1. PICK s \in States : Moves(Work(c), s) /\ s.pc = "join"
      BY <1>2, StartJoinStep
    <2>2. /\ users' = users /\ proc[Work(c)].pc = "idle"
          /\ tokens' = [tokens EXCEPT ![Home[c]] = @ \union {c}]
      BY <1>2 DEF StartJoin, Start, redis
    <2>3. tokens \in [Replicas -> SUBSET Sockets] /\ tokens' \in [Replicas -> SUBSET Sockets]
      BY <2>2 DEF TypeOK
    <2>4. \A d \in Sockets : ~Withdraws(proc[Work(c)], d)
      BY <2>2 DEF Withdraws
    <2>5. \A r \in Replicas : \A d \in tokens'[r] :
            \/ d \in users' \/ (Work(c) = Work(d) /\ s.pc = "join")
            \/ d \in tokens[r] /\ d \notin users /\ ~Withdraws(proc[Work(c)], d)
      BY <2>1, <2>2, <2>3, <2>4
    <2> QED
      BY <2>1, <2>2, <2>3, <2>5, AccountedMove, ProcessNames
  <1>3. ASSUME NEW c \in Sockets, AddUser(c)
        PROVE  TokensAccounted'
    <2>1. PICK s \in States : Moves(Work(c), s)
      BY <1>3, AddUserStep
    <2>2. users' = users \union {c} /\ tokens' = tokens /\ proc[Work(c)].pc = "join"
      BY <1>3 DEF AddUser, memory
    <2>3. tokens' \in [Replicas -> SUBSET Sockets]
      BY <2>2 DEF TypeOK
    <2>4. \A d \in Sockets : ~Withdraws(proc[Work(c)], d)
      BY <2>2 DEF Withdraws
    <2>5. \A r \in Replicas : \A d \in tokens'[r] :
            \/ d \in users'
            \/ d \in tokens[r] /\ d \notin users /\ Work(c) # Work(d) /\ ~Withdraws(proc[Work(c)], d)
      BY <2>2, <2>3, <2>4, WorkDiffers
    <2> QED
      BY <2>1, <2>3, <2>5, AccountedMove, ProcessNames
  <1>4. ASSUME NEW c \in Sockets,
               \/ GrantAccess(c) \/ ReadForJoin(c) \/ SeedContent(c) \/ SetContent(c) \/ StartLeave(c)
               \/ \E text \in Texts : StartUpdate(c, text)
        PROVE  TokensAccounted'
    <2>1. /\ UNCHANGED <<users, tokens>>
          /\ proc[Work(c)].pc \in {"idle", "join again", "join grant", "join read", "join seed", "update"}
      BY <1>4 DEF GrantAccess, ReadForJoin, SeedContent, SetContent, StartLeave, StartUpdate, Start,
                  redis, memory
    <2>2. \E s \in States : Moves(Work(c), s)
      BY <1>4, IdleState, GrantAccessStep, ReadForJoinStep, SeedContentStep, SetContentStep,
         StartLeaveStep, StartUpdateStep
    <2> QED
      BY <2>1, <2>2, AccountedAside, ProcessNames
  <1>5. ASSUME NEW c \in Sockets, Disconnect(c) \/ LookUp(c)
        PROVE  TokensAccounted'
    <2>1. UNCHANGED <<users, tokens>> /\ proc[Bye(c)].pc \in {"idle", "look up"}
      BY <1>5 DEF Disconnect, LookUp, Start, redis, memory
    <2> QED
      BY <1>5, <2>1, DisconnectStep, LookUpStep, AccountedAside, ProcessNames
  <1>6. ASSUME NEW r \in Replicas, StartSweep(r) \/ FetchSockets(r) \/ FetchMembers(r) \/ NextStale(r)
        PROVE  TokensAccounted'
    <2>1. /\ UNCHANGED <<users, tokens>>
          /\ proc[Sweep(r)].pc \in {"idle", "fetch sockets", "fetch members", "next"}
      BY <1>6 DEF StartSweep, FetchSockets, FetchMembers, NextStale, Start, redis, memory
    <2> QED
      BY <1>6, <2>1, SweepStepShape, AccountedAside, ProcessNames
  <1>7. ASSUME NEW r \in Replicas, StartFlush(r) \/ FlushStep(r)
        PROVE  TokensAccounted'
    <2>1. /\ UNCHANGED <<users, tokens>>
          /\ proc[Flush(r)].pc \in {"idle", "flush read", "flush publish", "flush put"}
      BY <1>7 DEF StartFlush, FlushStep, FlushRead, FlushPublish, FlushPut, Start, redis, memory
    <2>2. \E s \in States : Moves(Flush(r), s)
      BY <1>7, IdleState, StartFlushStep, FlushReadStep, FlushPublishStep, FlushPutStep DEF FlushStep
    <2> QED
      BY <2>1, <2>2, AccountedAside, ProcessNames
  <1>8. ASSUME NEW r \in Replicas, ReplicaCrash(r)
        PROVE  TokensAccounted'
    <2>1. \A q \in Replicas : tokens'[q] = {}
      BY <1>8 DEF ReplicaCrash, TypeOK, OneReplica
    <2> QED
      BY <2>1 DEF TokensAccounted
  <1>9. ASSUME NEW c \in Sockets, Connect(c)
        PROVE  TokensAccounted'
    BY <1>1, <1>9 DEF Connect, redis, memory
  <1>10. CASE ConsumerStep \/ \E entry \in batch : ConsumerCrash(entry)
    BY <1>1, <1>10 DEF ConsumerStep, ConsumerCrash, Poll, Consume, redis, memory
  <1>11. CASE UNCHANGED vars
    BY <1>1, <1>11 DEF vars, redis, memory
  <1> QED
    BY <1>2, <1>3, <1>4, <1>5, <1>6, <1>7, <1>8, <1>9, <1>10, <1>11, AccountedRemoval, ProcessNames
    DEF Next, WorkStep, ByeStep, SweepStep

\* On one replica, however many handlers interleave, crashes of the replica
\* included: once nothing is under way, a token is kept only of members
\* (editorHub.ts:296-300, 363-365, 620-641).
THEOREM TokensKeptOfMembers ==
  ASSUME OneReplica
  PROVE  Spec => []TokensOfMembers
  <1> DEFINE IInv == TypeOK /\ Carrying /\ TokensAccounted
  <1>1. Init => IInv
    BY InitType DEF Init, TokensAccounted
  <1>2. IInv /\ [Next]_vars => IInv'
    BY NextType, AccountedNext
  <1>3. IInv => TokensOfMembers
    <2> SUFFICES ASSUME IInv, Quiet, NEW r \in Replicas, NEW c \in tokens[r]
                 PROVE  c \in users
      BY DEF TokensOfMembers
    <2>1. c \in Sockets
      BY DEF TypeOK
    <2>2. \A p \in Processes : proc[p].pc = "idle"
      BY DEF Quiet, Running
    <2> QED
      BY <2>1, <2>2, ProcessNames DEF TokensAccounted, Withdrawing, Withdraws
  <1> QED
    BY <1>1, <1>2, <1>3, PTL DEF Spec

-----------------------------------------------------------------------------
(***************************************************************************)
(* One process at a time                                                   *)
(***************************************************************************)

LEMMA StartsAlone ==
  ASSUME MaxRunning = 1, Alone, Cardinality(Running) < MaxRunning
  PROVE  Quiet
  <1>1. Cardinality(Running) \in Nat
    BY FS_CardinalityType DEF Alone
  <1> QED
    BY <1>1, FS_EmptySet DEF Alone, Quiet

\* When the process that runs, if any, takes a step, it is the one that runs.
LEMMA AloneMove ==
  ASSUME TypeOK, Alone, NEW p \in Processes, NEW s \in States, Moves(p, s), Quiet \/ p \in Running
  PROVE  /\ Alone'
         /\ proc'[p] = s
         /\ Running' = IF s.pc = "idle" THEN {} ELSE {p}
         /\ \A q \in Running : q = p
  <1>1. proc'[p] = s /\ \A q \in Processes \ {p} : proc'[q] = proc[q]
    BY MovesShape
  <1>2. \A q \in Running : q = p
    BY DEF Alone, Quiet
  <1>3. \A q \in Processes \ {p} : proc'[q].pc = "idle"
    BY <1>1, <1>2 DEF Running
  <1>4. Running' = IF s.pc = "idle" THEN {} ELSE {p}
    BY <1>1, <1>3 DEF Running
  <1>5. IsFiniteSet({p}) /\ IsFiniteSet({})
    BY FS_Singleton, FS_EmptySet
  <1> QED
    BY <1>1, <1>2, <1>4, <1>5 DEF Alone

LEMMA RoomMove ==
  ASSUME TypeOK, Alone, NEW p \in Processes, NEW s \in States, Moves(p, s), Quiet \/ p \in Running,
         s.pc = "idle" => Tidy', RoomIn(p, s)'
  PROVE  Alone' /\ RoomKept'
  <1>1. /\ Alone' /\ proc'[p] = s
        /\ Running' = IF s.pc = "idle" THEN {} ELSE {p}
    BY AloneMove
  <1>2. Quiet' => Tidy'
    BY <1>1 DEF Quiet
  <1>3. ASSUME NEW q \in Running' PROVE RoomIn(q, proc[q])'
    <2>1. q = p /\ proc'[q] = s
      BY <1>1, <1>3
    <2> QED
      BY <2>1 DEF RoomIn
  <1> QED
    BY <1>1, <1>2, <1>3 DEF RoomKept

\* A step that leaves the room as it is.
LEMMA RoomAside ==
  ASSUME TypeOK, Alone, RoomKept, NEW p \in Processes, NEW s \in States, Moves(p, s),
         Quiet \/ p \in Running, UNCHANGED <<users, access, hot, tokens, lastSaved>>,
         s.pc = "idle" => Tidy, RoomIn(p, s)
  PROVE  Alone' /\ RoomKept'
  <1>1. Tidy' = Tidy /\ Closed' = Closed
    BY DEF Tidy, Closed
  <1>2. RoomIn(p, s)'
    BY <1>1 DEF RoomIn
  <1> QED
    BY <1>1, <1>2, RoomMove

LEMMA RoomJoin ==
  ASSUME Sequential, TypeOK, Carrying, Alone, RoomKept, NEW c \in Sockets,
         \/ \E initial \in {None, Read} : StartJoin(c, initial)
         \/ AddUser(c) \/ GrantAccess(c) \/ ReadForJoin(c) \/ SeedContent(c)
  PROVE  Alone' /\ RoomKept'
  <1> DEFINE p == Work(c)
  <1>0. p \in Processes /\ p[2] = c
    BY ProcessNames DEF Work
  <1>1. ASSUME NEW initial \in {None, Read}, StartJoin(c, initial)
        PROVE  Alone' /\ RoomKept'
    <2>1. PICK s \in States : Moves(p, s) /\ s.pc = "join"
      BY <1>1, StartJoinStep
    <2>2. Quiet /\ Tidy
      BY <1>1, StartsAlone DEF StartJoin, Start, Sequential, RoomKept
    <2>3. /\ UNCHANGED <<users, access, hot, lastSaved>>
          /\ tokens' = [tokens EXCEPT ![Home[c]] = @ \union {c}]
      BY <1>1 DEF StartJoin, redis
    <2>4. \A r \in Replicas : tokens'[r] \subseteq users \union {c}
      BY <2>2, <2>3 DEF Tidy, TypeOK
    <2>5. RoomIn(p, s)'
      BY <1>0, <2>1, <2>2, <2>3, <2>4 DEF RoomIn, Tidy, Closed
    <2> QED
      BY <1>0, <2>1, <2>2, <2>5, RoomMove
  <1>2. CASE AddUser(c)
    <2>1. PICK s \in States : Moves(p, s) /\ s.pc \in {"join again", "join grant"}
      BY <1>2, AddUserStep
    <2>2. p \in Running /\ proc[p].pc = "join"
      BY <1>0, <1>2 DEF AddUser, Running
    <2>3. /\ access \subseteq users
          /\ \A r \in Replicas : tokens[r] \subseteq users \union {c}
      BY <1>0, <2>2 DEF RoomKept, RoomIn
    <2>4. users' = users \union {c} /\ UNCHANGED <<access, hot, tokens, lastSaved>>
      BY <1>2 DEF AddUser, memory
    <2>5. Tidy' /\ c \in users'
      BY <2>3, <2>4 DEF Tidy
    <2>6. RoomIn(p, s)'
      BY <1>0, <2>1, <2>5 DEF RoomIn
    <2> QED
      BY <1>0, <2>1, <2>2, <2>6, RoomMove
  <1>3. CASE GrantAccess(c)
    <2>1. PICK s \in States : Moves(p, s) /\ s.pc \in {"idle", "join read"}
      BY <1>3, GrantAccessStep
    <2>2. p \in Running /\ proc[p].pc \in {"join again", "join grant"}
      BY <1>0, <1>3 DEF GrantAccess, Running
    <2>3. Tidy /\ users # {}
      BY <2>2 DEF RoomKept, RoomIn
    <2>4. access' = access \union {c} /\ UNCHANGED <<users, hot, tokens, lastSaved>>
      BY <1>3 DEF GrantAccess, memory
    <2>5. c \in users
      BY <1>0, <2>2 DEF RoomKept, RoomIn
    <2>6. Tidy' /\ users' # {}
      BY <2>3, <2>4, <2>5 DEF Tidy, Closed
    <2>7. RoomIn(p, s)'
      BY <2>1, <2>6 DEF RoomIn
    <2> QED
      BY <1>0, <2>1, <2>2, <2>6, <2>7, RoomMove
  <1>4. CASE ReadForJoin(c)
    <2>1. PICK s \in States : Moves(p, s) /\ s.pc \in {"idle", "join seed"}
      BY <1>4, ReadForJoinStep
    <2>2. p \in Running /\ proc[p].pc = "join read"
      BY <1>0, <1>4 DEF ReadForJoin, Running
    <2>3. Tidy /\ users # {}
      BY <2>2 DEF RoomKept, RoomIn
    <2>4. UNCHANGED <<users, access, hot, tokens, lastSaved>>
      BY <1>4 DEF ReadForJoin, redis, memory
    <2>5. RoomIn(p, s)
      BY <2>1, <2>3 DEF RoomIn
    <2> QED
      BY <1>0, <2>1, <2>2, <2>3, <2>4, <2>5, RoomAside
  <1>5. CASE SeedContent(c)
    <2>1. Moves(p, Idle)
      BY <1>5, SeedContentStep
    <2>2. p \in Running /\ proc[p].pc = "join seed"
      BY <1>0, <1>5 DEF SeedContent, Running
    <2>3. Tidy /\ users # {}
      BY <2>2 DEF RoomKept, RoomIn
    <2>4. UNCHANGED <<users, access, tokens, lastSaved>>
      BY <1>5 DEF SeedContent, memory
    <2>5. Tidy'
      BY <2>3, <2>4 DEF Tidy
    <2>6. RoomIn(p, Idle)'
      BY IdleState DEF RoomIn
    <2> QED
      BY <1>0, <2>1, <2>2, <2>5, <2>6, IdleState, RoomMove
  <1> QED
    BY <1>1, <1>2, <1>3, <1>4, <1>5

LEMMA RoomUpdate ==
  ASSUME Sequential, TypeOK, Carrying, Alone, RoomKept, NEW c \in Sockets,
         \/ \E text \in Texts : StartUpdate(c, text)
         \/ SetContent(c) \/ StartLeave(c) \/ Disconnect(c) \/ LookUp(c)
  PROVE  Alone' /\ RoomKept'
  <1>1. ASSUME NEW text \in Texts, StartUpdate(c, text)
        PROVE  Alone' /\ RoomKept'
    <2>1. PICK s \in States : Moves(Work(c), s) /\ s.pc = "update"
      BY <1>1, StartUpdateStep
    <2>2. Quiet /\ Tidy
      BY <1>1, StartsAlone DEF StartUpdate, Start, Sequential, RoomKept
    <2>3. UNCHANGED <<users, access, hot, tokens, lastSaved>> /\ users # {}
      BY <1>1, <2>2 DEF StartUpdate, redis, memory, Tidy
    <2>4. RoomIn(Work(c), s)
      BY <2>1, <2>2, <2>3 DEF RoomIn
    <2> QED
      BY <2>1, <2>2, <2>3, <2>4, RoomAside, ProcessNames
  <1>2. CASE SetContent(c)
    <2>1. Moves(Work(c), Idle)
      BY <1>2, SetContentStep
    <2>2. Work(c) \in Running /\ proc[Work(c)].pc = "update"
      BY <1>2, ProcessNames DEF SetContent, Running
    <2>3. Tidy /\ users # {}
      BY <2>2 DEF RoomKept, RoomIn
    <2>4. UNCHANGED <<users, access, tokens, lastSaved>>
      BY <1>2 DEF SetContent, memory
    <2>5. Tidy'
      BY <2>3, <2>4 DEF Tidy
    <2>6. RoomIn(Work(c), Idle)'
      BY IdleState DEF RoomIn
    <2> QED
      BY <2>1, <2>2, <2>5, <2>6, IdleState, RoomMove, ProcessNames
  <1>3. CASE StartLeave(c)
    <2>1. PICK s \in States : Moves(Work(c), s) /\ s.pc = "remove"
      BY <1>3, StartLeaveStep
    <2>2. Quiet /\ Tidy
      BY <1>3, StartsAlone DEF StartLeave, Start, Sequential, RoomKept
    <2>3. UNCHANGED <<users, access, hot, tokens, lastSaved>>
      BY <1>3 DEF StartLeave, redis, memory
    <2>4. RoomIn(Work(c), s)
      BY <2>1, <2>2 DEF RoomIn
    <2> QED
      BY <2>1, <2>2, <2>3, <2>4, RoomAside, ProcessNames
  <1>4. CASE Disconnect(c)
    <2>1. PICK s \in States : Moves(Bye(c), s) /\ s.pc = "look up"
      BY <1>4, DisconnectStep
    <2>2. Quiet /\ Tidy
      BY <1>4, StartsAlone DEF Disconnect, Start, Sequential, RoomKept
    <2>3. UNCHANGED <<users, access, hot, tokens, lastSaved>>
      BY <1>4 DEF Disconnect, redis, memory
    <2>4. RoomIn(Bye(c), s)
      BY <2>1, <2>2 DEF RoomIn
    <2> QED
      BY <2>1, <2>2, <2>3, <2>4, RoomAside, ProcessNames
  <1>5. CASE LookUp(c)
    <2>1. PICK s \in States : Moves(Bye(c), s) /\ s.pc \in {"remove", "forget"}
      BY <1>5, LookUpStep
    <2>2. Bye(c) \in Running /\ proc[Bye(c)].pc = "look up"
      BY <1>5, ProcessNames DEF LookUp, Running
    <2>3. Tidy
      BY <2>2 DEF RoomKept, RoomIn
    <2>4. UNCHANGED <<users, access, hot, tokens, lastSaved>>
      BY <1>5 DEF LookUp, redis, memory
    <2>5. RoomIn(Bye(c), s)
      BY <2>1, <2>3 DEF RoomIn
    <2> QED
      BY <2>1, <2>2, <2>3, <2>4, <2>5, RoomAside, ProcessNames
  <1> QED
    BY <1>1, <1>2, <1>3, <1>4, <1>5

LEMMA RoomTimers ==
  ASSUME Sequential, TypeOK, Carrying, Alone, RoomKept, NEW r \in Replicas,
         \/ StartSweep(r) \/ FetchSockets(r) \/ FetchMembers(r) \/ NextStale(r)
         \/ StartFlush(r) \/ FlushStep(r)
  PROVE  Alone' /\ RoomKept'
  <1>1. CASE StartSweep(r) \/ FetchSockets(r) \/ FetchMembers(r) \/ NextStale(r)
    <2> DEFINE p == Sweep(r)
    <2>1. PICK s \in States :
            Moves(p, s) /\ s.pc \in {"fetch sockets", "fetch members", "next", "remove", "idle"}
      BY <1>1, SweepStepShape, ZenonT(60)
    <2>2. /\ UNCHANGED <<users, access, hot, tokens, lastSaved>>
          /\ proc[p].pc \in {"idle", "fetch sockets", "fetch members", "next"}
          /\ proc[p].pc = "idle" => Cardinality(Running) < MaxRunning
      BY <1>1 DEF StartSweep, FetchSockets, FetchMembers, NextStale, Start, redis, memory
    <2>3. p \in Processes
      BY ProcessNames
    <2>4. Tidy /\ (Quiet \/ p \in Running)
      <3>1. CASE proc[p].pc = "idle"
        BY <2>2, <3>1, StartsAlone DEF Sequential, RoomKept
      <3>2. CASE proc[p].pc # "idle"
        <4>1. p \in Running /\ RoomIn(p, proc[p])
          BY <2>3, <3>2 DEF Running, RoomKept
        <4> QED
          BY <2>2, <3>2, <4>1 DEF RoomIn
      <3> QED
        BY <3>1, <3>2
    <2>5. RoomIn(p, s)
      BY <2>1, <2>4 DEF RoomIn
    <2> QED
      BY <2>1, <2>2, <2>3, <2>4, <2>5, RoomAside
  <1>2. CASE StartFlush(r)
    <2>1. PICK s \in States : Moves(Flush(r), s) /\ s.pc = "flush read"
      BY <1>2, StartFlushStep
    <2>2. Quiet /\ Tidy /\ users # {}
      BY <1>2, StartsAlone DEF StartFlush, Start, Sequential, RoomKept
    <2>3. UNCHANGED <<users, access, hot, tokens, lastSaved>>
      BY <1>2 DEF StartFlush, redis, memory
    <2>4. RoomIn(Flush(r), s)
      BY <2>1, <2>2 DEF RoomIn
    <2> QED
      BY <2>1, <2>2, <2>3, <2>4, RoomAside, ProcessNames
  <1>3. CASE FlushStep(r)
    <2> DEFINE p == Flush(r)
    <2>1. PICK s \in States : Moves(p, s) /\ s.pc \in {"idle", "flush publish", "flush put"}
      BY <1>3, IdleState, FlushReadStep, FlushPublishStep, FlushPutStep DEF FlushStep
    <2>2. UNCHANGED <<users, access, hot, tokens>> /\ proc[p].pc \in {"flush read", "flush publish", "flush put"}
      BY <1>3 DEF FlushStep, FlushRead, FlushPublish, FlushPut, redis, memory
    <2>3. p \in Processes /\ p \in Running
      BY <2>2, ProcessNames DEF Running
    <2>4. RoomIn(p, proc[p])
      BY <2>3 DEF RoomKept
    <2>5. Tidy /\ users # {}
      BY <2>2, <2>4 DEF RoomIn
    <2>6. Tidy'
      BY <2>2, <2>5 DEF Tidy
    <2>7. RoomIn(p, s)'
      BY <2>1, <2>2, <2>5, <2>6 DEF RoomIn
    <2> QED
      BY <2>1, <2>3, <2>6, <2>7, RoomMove
  <1> QED
    BY <1>1, <1>2, <1>3

LEMMA RoomRemoval ==
  ASSUME Sequential, TypeOK, Carrying, Alone, RoomKept, NEW p \in Processes, Removal(p)
  PROVE  Alone' /\ RoomKept'
  <1> DEFINE c == proc[p].conn
  <1>0. p \in Running /\ RoomIn(p, proc[p]) /\ \A r \in Replicas : r = At(p)
    <2>1. p \in Running
      BY DEF Removal, RemoveUser, RevokeAccess, CountUsers, CloseRead, ClosePublish, ClosePut,
             DeleteContent, DeleteOperations, RemoveConnection, Running
    <2> QED
      BY <2>1, Homes DEF RoomKept, Sequential, OneReplica
  <1>1. CASE RemoveUser(p)
    <2>1. PICK s \in States : /\ Moves(p, s) /\ s.conn = c
                              /\ s.pc \in {"revoke", "revoke only"}
                              /\ s.pc = "revoke only" => c \notin users
      BY <1>1, RemoveUserStep
    <2>2. users' = users \ {c} /\ UNCHANGED <<access, hot, tokens, lastSaved>> /\ Tidy
      BY <1>0, <1>1 DEF RemoveUser, memory, RoomIn
    <2>3. s.pc = "revoke only" => Tidy'
      BY <2>1, <2>2 DEF Tidy, Closed
    <2>4. access' \subseteq users' \union {c} /\ \A r \in Replicas : tokens'[r] \subseteq users' \union {c}
      BY <2>2 DEF Tidy
    <2>5. RoomIn(p, s)'
      BY <2>1, <2>3, <2>4 DEF RoomIn
    <2> QED
      BY <1>0, <2>1, <2>5, RoomMove
  <1>2. CASE RevokeAccess(p)
    <2>1. PICK s \in States : /\ Moves(p, s)
                              /\ IF proc[p].pc = "revoke" THEN s.pc = "count" /\ s.conn = c
                                                          ELSE s.pc = "idle"
      BY <1>2, RevokeAccessStep
    <2>2. access' = access \ {c} /\ UNCHANGED <<users, hot, tokens, lastSaved>>
          /\ proc[p].pc \in {"revoke", "revoke only"}
      BY <1>2 DEF RevokeAccess, memory
    <2>3. CASE proc[p].pc = "revoke"
      <3>1. access \subseteq users \union {c} /\ \A r \in Replicas : tokens[r] \subseteq users \union {c}
        BY <1>0, <2>3 DEF RoomIn
      <3>2. RoomIn(p, s)'
        BY <2>1, <2>2, <2>3, <3>1 DEF RoomIn
      <3> QED
        BY <1>0, <2>1, <2>3, <3>2, RoomMove
    <2>4. CASE proc[p].pc = "revoke only"
      <3>1. Tidy'
        BY <1>0, <2>2, <2>4 DEF RoomIn, Tidy, Closed
      <3>2. RoomIn(p, s)'
        BY <2>1, <2>4 DEF RoomIn
      <3> QED
        BY <1>0, <2>1, <3>1, <3>2, RoomMove
    <2> QED
      BY <2>2, <2>3, <2>4
  <1>3. CASE CountUsers(p)
    <2>1. PICK s \in States : /\ Moves(p, s)
                              /\ IF users = {} THEN s.pc = "close read" /\ s.conn = c
                                               ELSE s.pc \in {"idle", "forget"}
      BY <1>3, CountUsersStep
    <2>2. UNCHANGED <<users, access, hot, lastSaved>> /\ proc[p].pc = "count"
      BY <1>3 DEF CountUsers, redis
    <2>3. access \subseteq users /\ \A r \in Replicas : tokens[r] \subseteq users \union {c}
      BY <1>0, <2>2 DEF RoomIn
    <2>4. CASE users = {}
      <3>1. RoomIn(p, s)'
        BY <2>1, <2>2, <2>3, <2>4 DEF RoomIn
      <3> QED
        BY <1>0, <2>1, <2>4, <3>1, RoomMove
    <2>5. CASE users # {}
      <3>1. \A r \in Replicas : tokens'[r] \subseteq users
        BY <1>0, <1>3, <2>3, <2>5, CountUsersStep
      <3>2. Tidy'
        BY <2>2, <2>3, <2>5, <3>1 DEF Tidy
      <3>3. RoomIn(p, s)'
        BY <2>1, <2>5, <3>2 DEF RoomIn
      <3> QED
        BY <1>0, <2>1, <3>2, <3>3, RoomMove
    <2> QED
      BY <2>4, <2>5
  <1>4. CASE CloseRead(p) \/ ClosePublish(p) \/ \E saved \in BOOLEAN : ClosePut(p, saved)
    <2>1. PICK s \in States : Moves(p, s) /\ s.pc \in {"close publish", "close put", "close delete"}
      BY <1>4, CloseReadStep, ClosePublishStep, ClosePutStep
    <2>2. UNCHANGED <<users, access>> /\ proc[p].pc \in {"close read", "close publish", "close put"}
      BY <1>4 DEF CloseRead, ClosePublish, ClosePut, redis
    <2>3. users = {} /\ access = {}
      BY <1>0, <2>2 DEF RoomIn
    <2>4. RoomIn(p, s)'
      BY <2>1, <2>2, <2>3 DEF RoomIn
    <2> QED
      BY <1>0, <2>1, <2>4, RoomMove
  <1>5. CASE DeleteContent(p)
    <2>1. PICK s \in States : Moves(p, s) /\ s.conn = c /\ s.pc = "close log"
      BY <1>5, DeleteContentStep
    <2>2. UNCHANGED <<users, access>> /\ proc[p].pc = "close delete" /\ hot' = None
      BY <1>5 DEF DeleteContent
    <2>3. users = {} /\ access = {}
      BY <1>0, <2>2 DEF RoomIn
    <2>4. RoomIn(p, s)'
      BY <2>1, <2>2, <2>3 DEF RoomIn
    <2> QED
      BY <1>0, <2>1, <2>4, RoomMove
  <1>6. CASE DeleteOperations(p)
    <2>1. PICK s \in States : Moves(p, s) /\ s.pc \in {"idle", "forget"}
      BY <1>6, DeleteOperationsStep
    <2>2. UNCHANGED <<users, access, hot>> /\ proc[p].pc = "close log"
      BY <1>6 DEF DeleteOperations, redis
    <2>3. users = {} /\ access = {} /\ hot = None
      BY <1>0, <2>2 DEF RoomIn
    <2>4. \A r \in Replicas : tokens'[r] = {} /\ lastSaved'[r] = None
      BY <1>0, <1>6, DeleteOperationsStep
    <2>5. Tidy'
      BY <2>2, <2>3, <2>4 DEF Tidy, Closed
    <2>6. RoomIn(p, s)'
      BY <2>1, <2>5 DEF RoomIn
    <2> QED
      BY <1>0, <2>1, <2>5, <2>6, RoomMove
  <1>7. CASE RemoveConnection(p)
    <2>1. PICK s \in States : Moves(p, s) /\ s.pc \in {"idle", "next"}
      BY <1>7, RemoveConnectionStep
    <2>2. UNCHANGED <<users, hot, tokens, lastSaved>> /\ access' \subseteq access /\ proc[p].pc = "forget"
      BY <1>7 DEF RemoveConnection, memory
    <2>3. Tidy
      BY <1>0, <2>2 DEF RoomIn
    <2>4. Tidy'
      BY <2>2, <2>3 DEF Tidy, Closed
    <2>5. RoomIn(p, s)'
      BY <2>1, <2>4 DEF RoomIn
    <2> QED
      BY <1>0, <2>1, <2>4, <2>5, RoomMove
  <1> QED
    BY <1>1, <1>2, <1>3, <1>4, <1>5, <1>6, <1>7 DEF Removal

LEMMA RoomNext ==
  ASSUME Sequential, TypeOK, Carrying, Alone, RoomKept, [Next]_vars
  PROVE  Alone' /\ RoomKept'
  <1>1. CASE UNCHANGED <<redis, memory, proc>>
    BY <1>1 DEF redis, memory, Alone, RoomKept, Quiet, Running, RoomIn, Tidy, Closed
  <1>2. ASSUME NEW c \in Sockets, Connect(c)
        PROVE  Alone' /\ RoomKept'
    BY <1>1, <1>2 DEF Connect
  <1>3. CASE ConsumerStep \/ \E entry \in batch : ConsumerCrash(entry)
    BY <1>1, <1>3 DEF ConsumerStep, ConsumerCrash, Poll, Consume
  <1>4. CASE UNCHANGED vars
    BY <1>1, <1>4 DEF vars
  <1>5. ASSUME NEW r \in Replicas, ReplicaCrash(r)
        PROVE  Alone' /\ RoomKept'
    BY <1>5 DEF ReplicaCrash, Counted, Sequential, TypeOK
  <1>6. ASSUME NEW c \in Sockets, WorkStep(c) \/ ByeStep(c)
        PROVE  Alone' /\ RoomKept'
    BY <1>6, RoomJoin, RoomUpdate, RoomRemoval, ProcessNames DEF WorkStep, ByeStep
  <1>7. ASSUME NEW r \in Replicas, SweepStep(r)
        PROVE  Alone' /\ RoomKept'
    BY <1>7, RoomTimers, RoomRemoval, ProcessNames DEF SweepStep
  <1> QED
    BY <1>2, <1>3, <1>4, <1>5, <1>6, <1>7, RoomJoin, RoomUpdate, RoomTimers DEF Next

LEMMA InitAlone == Init => Alone /\ Quiet /\ RoomKept
  <1> SUFFICES ASSUME Init PROVE Alone /\ Quiet /\ RoomKept
    OBVIOUS
  <1>1. Running = {}
    BY IdleState DEF Init, Running
  <1>2. Tidy
    BY DEF Init, Tidy, Closed
  <1> QED
    BY <1>1, <1>2, FS_EmptySet DEF Alone, Quiet, RoomKept

\* On one replica that does one thing at a time: a room that everybody has left
\* keeps neither text nor access, tokens or memory of what was saved
\* (editorHub.ts:347-364, 588-612).
THEOREM RoomsCloseClean ==
  ASSUME Sequential
  PROVE  Spec => []LastOneOutCloses
  <1> DEFINE IInv == TypeOK /\ Carrying /\ Alone /\ RoomKept
  <1>1. Init => IInv
    BY InitType, InitAlone
  <1>2. IInv /\ [Next]_vars => IInv'
    BY NextType, RoomNext
  <1>3. IInv => LastOneOutCloses
    BY DEF RoomKept, Tidy, Closed, LastOneOutCloses, TypeOK
  <1> QED
    BY <1>1, <1>2, <1>3, PTL DEF Spec

-----------------------------------------------------------------------------
(***************************************************************************)
(* What Postgres ends up with                                              *)
(***************************************************************************)

LEMMA EndsSame ==
  ASSUME UNCHANGED <<stream, published, postgres>>, NEW text
  PROVE  Ends(text)' <=> Ends(text)
  BY DEF Ends

\* A step that neither publishes nor stores anything, nor changes what is hot,
\* what is latest, or what is taken for saved.
LEMMA DurableAside ==
  ASSUME TypeOK, Alone, InOrder, SavedEnds, Durable,
         NEW p \in Processes, NEW s \in States, Moves(p, s), Quiet \/ p \in Running,
         UNCHANGED <<hot, latest, mistaken, lastSaved, stream, published, postgres, delivered, batch>>,
         count'.flushes = count.flushes, ~Putting(proc[p]), ~Putting(s), TextIn(s)
  PROVE  Alone' /\ InOrder' /\ SavedEnds' /\ Durable'
  <1>1. /\ Alone' /\ proc'[p] = s
        /\ Running' \subseteq {p} /\ \A q \in Running : q = p
    BY AloneMove
  <1>2. \A text : Ends(text)' <=> Ends(text)
    BY EndsSame
  <1>3. InOrder'
    BY DEF InOrder
  <1>4. SavedEnds'
    <2>1. \A q \in Running : ~Putting(proc[q])
      BY <1>1
    <2>2. \A r \in Replicas : count.flushes = 0 /\ lastSaved[r] # None => Ends(lastSaved[r])
      BY <2>1 DEF SavedEnds
    <2> QED
      BY <1>2, <2>2 DEF SavedEnds
  <1>5. TextIn(s)'
    BY <1>2 DEF TextIn
  <1>6. Durable'
    BY <1>1, <1>2, <1>5 DEF Durable, TextIn
  <1> QED
    BY <1>1, <1>3, <1>4, <1>6

LEMMA DurableStarts ==
  ASSUME MaxRunning = 1, Steady, TypeOK, Carrying, Alone, InOrder, SavedEnds, Durable,
         NEW c \in Sockets,
         \/ \E initial \in {None, Read} : StartJoin(c, initial)
         \/ \E text \in Texts : StartUpdate(c, text)
         \/ StartLeave(c) \/ Disconnect(c)
  PROVE  Alone' /\ InOrder' /\ SavedEnds' /\ Durable'
  <1>1. PICK p \in {Work(c), Bye(c)}, s \in States :
          /\ Moves(p, s) /\ s.pc \in {"join", "update", "remove", "look up"}
          /\ s.pc = "join" => s.text = None
    BY StartJoinStep, StartUpdateStep, StartLeaveStep, DisconnectStep DEF Steady
  <1>2. p \in Processes /\ Quiet
    BY ProcessNames, StartsAlone, ZenonT(60) DEF StartJoin, StartUpdate, StartLeave, Disconnect, Start
  <1>3. /\ UNCHANGED <<hot, latest, mistaken, lastSaved, stream, published, postgres, delivered, batch>>
        /\ count'.flushes = count.flushes
    BY StartJoinStep, StartUpdateStep
    DEF StartJoin, StartUpdate, StartLeave, Disconnect, redis, memory, consumer, history
  <1>4. ~Putting(s) /\ TextIn(s)
    BY <1>1 DEF Putting, TextIn
  <1>5. ~Putting(proc[p])
    BY <1>2 DEF Putting, Quiet, Running
  <1> QED
    BY <1>1, <1>2, <1>3, <1>4, <1>5, DurableAside

LEMMA DurableJoin ==
  ASSUME MaxRunning = 1, Steady, TypeOK, Carrying, Alone, InOrder, SavedEnds, Durable,
         NEW c \in Sockets, AddUser(c) \/ GrantAccess(c) \/ ReadForJoin(c) \/ SeedContent(c) \/ LookUp(c)
  PROVE  Alone' /\ InOrder' /\ SavedEnds' /\ Durable'
  <1>0. Work(c) \in Processes /\ Bye(c) \in Processes
    BY ProcessNames
  <1>1. CASE AddUser(c) \/ GrantAccess(c) \/ ReadForJoin(c)
    <2>1. proc[Work(c)].pc \in {"join", "join again", "join grant", "join read"}
      BY <1>1 DEF AddUser, GrantAccess, ReadForJoin
    <2>2. Work(c) \in Running /\ ~Putting(proc[Work(c)])
      BY <1>0, <2>1 DEF Running, Putting
    <2>3. proc[Work(c)].text = None
      BY <2>1, <2>2 DEF Durable, TextIn
    <2>4. PICK s \in States :
            /\ Moves(Work(c), s) /\ s.pc \in {"join again", "join grant", "join read", "idle"}
            /\ s.pc # "idle" => s.text = None
      BY <1>1, <2>3, AddUserStep, GrantAccessStep, ReadForJoinStep
    <2>5. UNCHANGED <<hot, latest, mistaken, lastSaved, stream, published, postgres, delivered, batch, count>>
      BY <1>1 DEF AddUser, GrantAccess, ReadForJoin, redis, memory, consumer, history
    <2>6. ~Putting(s) /\ TextIn(s)
      BY <2>4 DEF Putting, TextIn
    <2> QED
      BY <1>0, <2>2, <2>4, <2>5, <2>6, DurableAside
  <1>2. CASE SeedContent(c)
    <2>1. Work(c) \in Running /\ proc[Work(c)].pc = "join seed"
      BY <1>0, <1>2 DEF SeedContent, Running
    <2> QED
      BY <2>1 DEF Durable, TextIn
  <1>3. CASE LookUp(c)
    <2>1. PICK s \in States : Moves(Bye(c), s) /\ s.pc \in {"remove", "forget"}
      BY <1>3, LookUpStep
    <2>2. Bye(c) \in Running /\ ~Putting(proc[Bye(c)])
      BY <1>0, <1>3 DEF LookUp, Running, Putting
    <2>3. UNCHANGED <<hot, latest, mistaken, lastSaved, stream, published, postgres, delivered, batch, count>>
      BY <1>3 DEF LookUp, redis, memory, consumer, history
    <2>4. ~Putting(s) /\ TextIn(s)
      BY <2>1 DEF Putting, TextIn
    <2> QED
      BY <1>0, <2>1, <2>2, <2>3, <2>4, DurableAside
  <1> QED
    BY <1>1, <1>2, <1>3

\* The case the two bookkeeping variables are about: an update comes back to what
\* was saved last.
LEMMA DurableUpdate ==
  ASSUME OneReplica, TypeOK, Carrying, Alone, InOrder, SavedEnds, Durable,
         NEW c \in Sockets, SetContent(c)
  PROVE  Alone' /\ InOrder' /\ SavedEnds' /\ Durable'
  <1> DEFINE p == Work(c)
             text == proc[p].text
  <1>1. p \in Processes /\ Moves(p, Idle) /\ text \in Texts /\ text # None
    BY SetContentStep, ProcessNames, RoomAssumption
  <1>2. p \in Running /\ ~Putting(proc[p])
    BY <1>1 DEF SetContent, Running, Putting
  <1>3. Alone' /\ Running' = {} /\ \A q \in Running : q = p
    BY <1>1, <1>2, IdleState, AloneMove
  <1>4. /\ UNCHANGED <<lastSaved, stream, published, postgres, delivered, batch, count>>
        /\ hot' = text /\ latest' = text
        /\ mistaken' = (mistaken \/ (count.flushes > 0 /\ lastSaved[Home[c]] = text))
    BY DEF SetContent, memory, consumer
  <1>5. \A t : Ends(t)' <=> Ends(t)
    BY <1>4, EndsSame
  <1>6. InOrder'
    BY <1>4 DEF InOrder
  <1>7. \A r \in Replicas : r = Home[c]
    BY RoomAssumption DEF OneReplica
  <1>8. count.flushes = 0 => \A r \in Replicas : lastSaved[r] # None => Ends(lastSaved[r])
    BY <1>2, <1>3 DEF SavedEnds
  <1>9. count.flushes \in Nat
    BY DEF TypeOK
  <1>10. ASSUME ~mistaken', NEW r \in Replicas, hot' = lastSaved'[r]
         PROVE  Ends(text)
    <2>1. lastSaved[r] = text /\ r = Home[c]
      BY <1>4, <1>7, <1>10
    <2>2. ~(count.flushes > 0)
      BY <1>4, <1>10, <2>1
    <2>3. count.flushes = 0
      BY <1>9, <2>2
    <2> QED
      BY <1>1, <1>8, <2>1, <2>3
  <1>11. Ends(hot)' <=> Ends(text)
    BY <1>4 DEF Ends
  <1>12. SavedEnds'
    BY <1>4, <1>5, <1>8, <1>10, <1>11 DEF SavedEnds
  <1>13. Durable'
    BY <1>1, <1>3, <1>4 DEF Durable
  <1> QED
    BY <1>3, <1>6, <1>12, <1>13

LEMMA Published ==
  ASSUME TypeOK, InOrder, NEW text \in Texts, AddToStream(text), UNCHANGED <<delivered, batch>>
  PROVE  InOrder' /\ Ends(text)'
  <1> DEFINE new == [id |-> published + 1, text |-> text]
  <1>1. stream' = stream \union {new} /\ published' = published + 1 /\ published \in Nat
    BY DEF AddToStream, TypeOK
  <1>2. \A e \in stream : e.id \in Nat /\ e.id <= published
    BY DEF TypeOK, Entries
  <1>3. delivered \in Nat /\ delivered <= published
    BY DEF TypeOK
  <1>4. new.id = published + 1 /\ new.text = text
    OBVIOUS
  <1> HIDE DEF new
  <1>5. \E e \in stream' : e.id = published' /\ e.text = text
    BY <1>1, <1>4
  <1>6. \A e, f \in stream' : e.id = f.id => e = f
    BY <1>1, <1>2, <1>4 DEF InOrder
  <1>7. {e \in stream' : e.id <= delivered} = {e \in stream : e.id <= delivered}
    BY <1>1, <1>3, <1>4
  <1> QED
    BY <1>1, <1>5, <1>6, <1>7 DEF InOrder, Ends

LEMMA PutEnds ==
  ASSUME NEW text, NEW saved \in BOOLEAN, NEW what, Put(text, saved, what), Ends(text),
         UNCHANGED <<stream, published>>
  PROVE  \A t : Ends(t)' <=> Ends(t)
  BY DEF Put, Ends

LEMMA DurablePublish ==
  ASSUME OneReplica, TypeOK, Carrying, Alone, InOrder, SavedEnds, Durable,
         NEW p \in Processes, ClosePublish(p) \/ \E r \in Replicas : p = Flush(r) /\ FlushPublish(r)
  PROVE  Alone' /\ InOrder' /\ SavedEnds' /\ Durable'
  <1> DEFINE text == proc[p].text
  <1>1. /\ proc[p].pc \in {"close publish", "flush publish"}
        /\ AddToStream(text) /\ text \in Texts
        /\ UNCHANGED <<hot, latest, mistaken, delivered, batch>>
    BY ClosePublishStep, FlushPublishStep DEF ClosePublish, FlushPublish, redis, consumer, history
  <1>2. p \in Running
    BY <1>1 DEF Running
  <1>3. text = hot /\ hot # None /\ hot = latest
    BY <1>1, <1>2, RoomAssumption DEF Durable, TextIn
  <1>4. PICK s \in States :
          /\ Moves(p, s)
          /\ \/ s.pc \in {"close put", "flush put"} /\ s.text = text /\ UNCHANGED lastSaved
             \/ /\ s.pc \in {"close delete", "idle"}
                /\ \E r \in Replicas : lastSaved' = [lastSaved EXCEPT ![r] = text]
    <2>1. CASE ClosePublish(p)
      <3>1. At(p) \in Replicas
        BY Homes
      <3>2. PICK s \in States :
              /\ Moves(p, s) /\ s.text = text
              /\ \/ s.pc = "close put" /\ UNCHANGED lastSaved
                 \/ s.pc = "close delete" /\ lastSaved' = [lastSaved EXCEPT ![At(p)] = text]
        BY <2>1, ClosePublishStep
      <3> QED
        BY <3>1, <3>2
    <2>2. ASSUME NEW r \in Replicas, p = Flush(r), FlushPublish(r)
          PROVE  \E s \in States :
                   /\ Moves(p, s)
                   /\ \/ s.pc = "flush put" /\ s.text = text /\ UNCHANGED lastSaved
                      \/ s.pc = "idle" /\ lastSaved' = [lastSaved EXCEPT ![r] = text]
      BY <2>2, FlushPublishStep
    <2> QED
      BY <2>1, <2>2
  <1>5. /\ Alone' /\ proc'[p] = s
        /\ Running' = IF s.pc = "idle" THEN {} ELSE {p}
    BY <1>2, <1>4, AloneMove
  <1>6. InOrder' /\ Ends(hot)'
    <2>1. \A t \in Texts : AddToStream(t) => InOrder' /\ Ends(t)'
      BY <1>1, Published
    <2>2. InOrder' /\ \A t \in Texts : t = text => Ends(t)'
      BY <1>1, <2>1
    <2>3. ASSUME NEW t \in Texts, t = text PROVE Ends(hot)' <=> Ends(t)'
      BY <1>1, <1>3, <2>3 DEF Ends
    <2> QED
      BY <1>1, <2>2, <2>3
  <1>7. Ends(latest)' <=> Ends(hot)'
    BY <1>1, <1>3 DEF Ends
  <1>8. SavedEnds'
    <2>1. ASSUME NEW r \in Replicas, \A q \in Running' : ~Putting(proc'[q])
          PROVE  lastSaved'[r] = hot'
      <3>1. s.pc \notin {"close put", "flush put"}
        BY <1>5, <2>1 DEF Putting
      <3>2. lastSaved' = [lastSaved EXCEPT ![r] = text]
        BY <1>4, <3>1 DEF OneReplica
      <3> QED
        BY <1>1, <1>3, <3>2 DEF TypeOK
    <2>2. ASSUME NEW r \in Replicas, lastSaved'[r] = hot' PROVE Ends(lastSaved[r])' <=> Ends(hot)'
      BY <2>2 DEF Ends
    <2> QED
      BY <1>6, <2>1, <2>2 DEF SavedEnds, Putting
  <1>9. TextIn(s)'
    <2>1. s.text = text => (Ends(s.text)' <=> Ends(hot)')
      BY <1>1, <1>3 DEF Ends
    <2> QED
      BY <1>1, <1>3, <1>4, <1>6, <1>7, <2>1 DEF TextIn, Putting
  <1>10. Durable'
    BY <1>1, <1>3, <1>5, <1>9 DEF Durable, TextIn
  <1> QED
    BY <1>5, <1>6, <1>8, <1>10

\* A PUT stores what was published last, or fails: then a close takes it for saved
\* all the same, and a flush does not.
LEMMA DurablePut ==
  ASSUME OneReplica, TypeOK, Carrying, Alone, InOrder, SavedEnds, Durable,
         NEW p \in Processes, NEW saved \in BOOLEAN,
         ClosePut(p, saved) \/ \E r \in Replicas : p = Flush(r) /\ FlushPut(r, saved)
  PROVE  Alone' /\ InOrder' /\ SavedEnds' /\ Durable'
  <1> DEFINE text == proc[p].text
  <1>1. /\ proc[p].pc \in {"close put", "flush put"} /\ text \in Texts
        /\ \E what \in {"puts", "flushes"} : Put(text, saved, what)
        /\ UNCHANGED <<hot, latest, mistaken, stream, published, delivered, batch>>
    BY ClosePutStep, FlushPutStep DEF ClosePut, FlushPut, redis, consumer, history
  <1>2. p \in Running
    BY <1>1 DEF Running
  <1>3. text = hot /\ hot # None /\ hot = latest /\ Ends(text)
    BY <1>1, <1>2, RoomAssumption DEF Durable, TextIn, Putting
  <1>4. \A t : Ends(t)' <=> Ends(t)
    <2>1. ASSUME NEW u, u = text PROVE \A t : Ends(t)' <=> Ends(t)
      BY <1>1, <1>3, <2>1, PutEnds
    <2> QED
      BY <2>1
  <1>5. PICK s \in States : Moves(p, s) /\ s.pc \in {"close delete", "idle"}
    BY ClosePutStep, FlushPutStep, IdleState
  <1>6. /\ Alone' /\ proc'[p] = s
        /\ Running' = IF s.pc = "idle" THEN {} ELSE {p}
    BY <1>2, <1>5, AloneMove
  <1>7. InOrder'
    BY <1>1 DEF InOrder
  <1>8. Ends(hot)' /\ Ends(latest)'
    <2>1. (Ends(hot)' <=> Ends(hot)) /\ (Ends(latest)' <=> Ends(latest))
      BY <1>1, <1>4 DEF Ends
    <2> QED
      BY <1>3, <2>1
  <1>9. \/ \A r \in Replicas : lastSaved'[r] = hot
        \/ count'.flushes > 0
    <2>1. CASE ClosePut(p, saved)
      <3>1. At(p) \in Replicas /\ lastSaved' = [lastSaved EXCEPT ![At(p)] = text]
        BY <2>1, Homes DEF ClosePut
      <3> QED
        BY <1>3, <3>1 DEF OneReplica, TypeOK
    <2>2. ASSUME NEW r \in Replicas, p = Flush(r), FlushPut(r, saved)
          PROVE  (\A q \in Replicas : lastSaved'[q] = hot) \/ count'.flushes > 0
      <3>1. CASE saved
        <4>1. lastSaved' = [lastSaved EXCEPT ![r] = text]
          BY <2>2, <3>1 DEF FlushPut
        <4> QED
          BY <1>3, <4>1 DEF OneReplica, TypeOK
      <3>2. CASE ~saved
        <4>1. count.flushes \in Nat
          BY DEF TypeOK
        <4>2. Put(text, saved, "flushes")
          BY <2>2 DEF FlushPut
        <4>3. \A t \in Texts : Put(t, saved, "flushes") => count'.flushes = count.flushes + 1
          BY <3>2, PutType
        <4>4. count'.flushes = count.flushes + 1
          BY <1>1, <4>2, <4>3
        <4> QED
          BY <4>1, <4>4
      <3> QED
        BY <3>1, <3>2
    <2> QED
      BY <2>1, <2>2
  <1>10. SavedEnds'
    <2>1. ASSUME NEW r \in Replicas, lastSaved'[r] = hot' PROVE Ends(lastSaved[r])' <=> Ends(hot)'
      BY <2>1 DEF Ends
    <2>2. count'.flushes = 0 => \A r \in Replicas : lastSaved'[r] = hot'
      <3>1. hot' = hot
        BY <1>1
      <3> QED
        BY <1>9, <3>1
    <2> QED
      BY <1>8, <2>1, <2>2 DEF SavedEnds
  <1>11. TextIn(s)'
    BY <1>5, <1>8 DEF TextIn, Putting
  <1>12. Durable'
    BY <1>1, <1>3, <1>6, <1>11 DEF Durable, TextIn
  <1> QED
    BY <1>6, <1>7, <1>10, <1>12

LEMMA DurableRemoval ==
  ASSUME OneReplica, TypeOK, Carrying, Alone, InOrder, SavedEnds, Durable,
         NEW p \in Processes, Removal(p)
  PROVE  Alone' /\ InOrder' /\ SavedEnds' /\ Durable'
  <1>1. p \in Running
    BY DEF Removal, RemoveUser, RevokeAccess, CountUsers, CloseRead, ClosePublish, ClosePut,
           DeleteContent, DeleteOperations, RemoveConnection, Running
  <1>2. CASE RemoveUser(p) \/ RevokeAccess(p) \/ CountUsers(p) \/ RemoveConnection(p)
    <2>1. PICK s \in States :
            /\ Moves(p, s)
            /\ s.pc \in {"idle", "next", "revoke", "revoke only", "count", "close read", "forget"}
      BY <1>2, RemoveUserStep, RevokeAccessStep, CountUsersStep, RemoveConnectionStep
    <2>2. /\ UNCHANGED <<hot, latest, mistaken, lastSaved, stream, published, postgres, delivered, batch, count>>
          /\ proc[p].pc \in {"remove", "revoke", "revoke only", "count", "forget"}
      BY <1>2 DEF RemoveUser, RevokeAccess, CountUsers, RemoveConnection, redis, memory, consumer, history
    <2>3. ~Putting(proc[p]) /\ ~Putting(s) /\ TextIn(s)
      BY <2>1, <2>2 DEF Putting, TextIn
    <2> QED
      BY <1>1, <2>1, <2>2, <2>3, DurableAside
  <1>3. CASE CloseRead(p)
    <2>1. PICK s \in States :
            /\ Moves(p, s) /\ s.text = hot
            /\ s.pc = IF hot # None /\ hot # lastSaved[At(p)] THEN "close publish" ELSE "close delete"
      BY <1>3, CloseReadStep
    <2>2. /\ UNCHANGED <<hot, latest, mistaken, lastSaved, stream, published, postgres, delivered, batch, count>>
          /\ proc[p].pc = "close read"
      BY <1>3 DEF CloseRead, redis, memory, consumer, history
    <2>3. s.pc = "close delete" /\ ~mistaken => Ends(latest)
      <3>1. CASE hot = None
        BY <3>1 DEF Durable
      <3>2. CASE hot # None /\ hot = lastSaved[At(p)]
        BY <3>2, Homes DEF Durable, SavedEnds
      <3> QED
        BY <2>1, <3>1, <3>2
    <2>4. ~Putting(proc[p]) /\ ~Putting(s) /\ TextIn(s)
      BY <2>1, <2>2, <2>3 DEF Putting, TextIn
    <2> QED
      BY <1>1, <2>1, <2>2, <2>4, DurableAside
  <1>4. CASE DeleteContent(p)
    <2>1. PICK s \in States : Moves(p, s) /\ s.pc = "close log"
      BY <1>4, DeleteContentStep
    <2>2. /\ UNCHANGED <<latest, mistaken, lastSaved, stream, published, postgres, delivered, batch, count>>
          /\ proc[p].pc = "close delete" /\ hot' = None
      BY <1>4 DEF DeleteContent, memory, consumer, history
    <2>3. Alone' /\ proc'[p] = s /\ Running' = {p} /\ \A q \in Running : q = p
      BY <1>1, <2>1, AloneMove
    <2>4. \A t : Ends(t)' <=> Ends(t)
      BY <2>2, EndsSame
    <2>5. InOrder'
      BY <2>2 DEF InOrder
    <2>6. ~mistaken => Ends(latest)
      BY <1>1, <2>2 DEF Durable, TextIn
    <2>7. \A r \in Replicas : count.flushes = 0 /\ lastSaved[r] # None => Ends(lastSaved[r])
      BY <2>2, <2>3 DEF SavedEnds, Putting
    <2>8. SavedEnds'
      BY <2>2, <2>4, <2>7 DEF SavedEnds
    <2>9. (Ends(latest)' <=> Ends(latest)) /\ TextIn(s)'
      BY <2>1, <2>2 DEF TextIn, Putting, Ends
    <2>10. Durable'
      BY <2>2, <2>3, <2>6, <2>9 DEF Durable, TextIn
    <2> QED
      BY <2>3, <2>5, <2>8, <2>10
  <1>5. CASE DeleteOperations(p)
    <2>1. PICK s \in States : Moves(p, s) /\ s.pc \in {"idle", "forget"}
      BY <1>5, DeleteOperationsStep
    <2>2. UNCHANGED <<hot, latest, mistaken, stream, published, postgres, delivered, batch, count>>
      BY <1>5 DEF DeleteOperations, redis, consumer, history
    <2>3. \A r \in Replicas : lastSaved'[r] = None
      BY <1>5, DeleteOperationsStep, Homes DEF OneReplica
    <2>4. Alone' /\ proc'[p] = s /\ Running' \subseteq {p}
      BY <1>1, <2>1, AloneMove
    <2>5. InOrder'
      BY <2>2 DEF InOrder
    <2>6. SavedEnds'
      BY <2>3 DEF SavedEnds
    <2>7. (Ends(latest)' <=> Ends(latest)) /\ TextIn(s)'
      BY <2>1, <2>2 DEF TextIn, Putting, Ends
    <2>8. Durable'
      BY <2>2, <2>4, <2>7 DEF Durable, TextIn
    <2> QED
      BY <2>4, <2>5, <2>6, <2>8
  <1> QED
    BY <1>2, <1>3, <1>4, <1>5, DurablePublish, DurablePut DEF Removal

LEMMA DurableTimers ==
  ASSUME OneReplica, MaxRunning = 1, TypeOK, Carrying, Alone, InOrder, SavedEnds, Durable,
         NEW r \in Replicas,
         \/ StartSweep(r) \/ FetchSockets(r) \/ FetchMembers(r) \/ NextStale(r)
         \/ StartFlush(r) \/ FlushStep(r)
  PROVE  Alone' /\ InOrder' /\ SavedEnds' /\ Durable'
  <1>0. Sweep(r) \in Processes /\ Flush(r) \in Processes
    BY ProcessNames
  <1>1. CASE StartSweep(r) \/ FetchSockets(r) \/ FetchMembers(r) \/ NextStale(r)
    <2> DEFINE p == Sweep(r)
    <2>1. PICK s \in States :
            Moves(p, s) /\ s.pc \in {"fetch sockets", "fetch members", "next", "remove", "idle"}
      BY <1>1, SweepStepShape
    <2>2. /\ UNCHANGED <<hot, latest, mistaken, lastSaved, stream, published, postgres, delivered, batch, count>>
          /\ proc[p].pc \in {"idle", "fetch sockets", "fetch members", "next"}
          /\ proc[p].pc = "idle" => Cardinality(Running) < MaxRunning
      BY <1>1 DEF StartSweep, FetchSockets, FetchMembers, NextStale, Start, redis, memory, consumer, history
    <2>3. Quiet \/ p \in Running
      BY <1>0, <2>2, StartsAlone DEF Running
    <2>4. ~Putting(proc[p]) /\ ~Putting(s) /\ TextIn(s)
      BY <2>1, <2>2 DEF Putting, TextIn
    <2> QED
      BY <1>0, <2>1, <2>2, <2>3, <2>4, DurableAside
  <1>2. CASE StartFlush(r) \/ FlushRead(r)
    <2> DEFINE p == Flush(r)
    <2>1. PICK s \in States :
            /\ Moves(p, s) /\ s.pc \in {"idle", "flush read", "flush publish"}
            /\ s.pc = "flush publish" => s.text = hot
      BY <1>2, StartFlushStep, FlushReadStep
    <2>2. /\ UNCHANGED <<hot, latest, mistaken, lastSaved, stream, published, postgres, delivered, batch, count>>
          /\ proc[p].pc \in {"idle", "flush read"}
          /\ proc[p].pc = "idle" => Cardinality(Running) < MaxRunning
      BY <1>2 DEF StartFlush, FlushRead, Start, redis, memory, consumer, history
    <2>3. Quiet \/ p \in Running
      BY <1>0, <2>2, StartsAlone DEF Running
    <2>4. ~Putting(proc[p]) /\ ~Putting(s) /\ TextIn(s)
      BY <2>1, <2>2 DEF Putting, TextIn
    <2> QED
      BY <1>0, <2>1, <2>2, <2>3, <2>4, DurableAside
  <1> QED
    BY <1>0, <1>1, <1>2, DurablePublish, DurablePut DEF FlushStep

LEMMA NeverCounted ==
  ASSUME TypeOK
  PROVE  ~Counted("saves", 0) /\ ~Counted("consumer", 0)
  <1>1. count["saves"] \in Nat /\ count["consumer"] \in Nat
    BY DEF TypeOK
  <1> QED
    BY <1>1 DEF Counted

\* The consumer deletes an entry only after it has been stored; the last one is
\* the last to be.
LEMMA DurableConsumer ==
  ASSUME Steady, TypeOK, Carrying, Alone, InOrder, SavedEnds, Durable,
         ConsumerStep \/ \E entry \in batch : ConsumerCrash(entry)
  PROVE  Alone' /\ InOrder' /\ SavedEnds' /\ Durable'
  <1>0. /\ \A e \in stream : e.id \in Nat /\ e.id <= published
        /\ delivered \in Nat /\ delivered <= published /\ published \in Nat
        /\ batch \subseteq stream /\ \A e \in stream : e \in batch <=> e.id <= delivered
    BY DEF TypeOK, Entries, InOrder
  <1>1. UNCHANGED <<hot, latest, mistaken, lastSaved, published, proc>>
    BY DEF ConsumerStep, ConsumerCrash, Poll, Consume, redis, memory, history
  <1>2. count'.flushes = count.flushes /\ (\A t : Ends(t) => Ends(t)') /\ InOrder'
    <2>1. CASE Poll
      <3>1. Fresh = stream /\ Fresh # {}
        BY <1>0, <2>1 DEF Poll, Fresh
      <3>2. batch' = stream /\ delivered' = published /\ UNCHANGED <<stream, published, postgres, count>>
        BY <2>1, <3>1 DEF Poll
      <3>3. {e \in stream : e.id <= published} = stream
        BY <1>0
      <3> QED
        BY <3>2, <3>3 DEF InOrder, Ends
    <2>2. ASSUME NEW entry \in batch, NEW saved \in BOOLEAN, Consume(entry, saved)
          PROVE  count'.flushes = count.flushes /\ (\A t : Ends(t) => Ends(t)') /\ InOrder'
      <3>1. entry \in stream /\ entry.text \in Texts /\ entry.id <= delivered
        BY <1>0 DEF TypeOK, Entries
      <3>2. postgres' = entry.text /\ UNCHANGED count
        <4>1. entry.text # "" /\ MaxSaveFailures = 0
          BY <3>1 DEF Steady
        <4>2. ~Counted("saves", MaxSaveFailures)
          BY <4>1, NeverCounted
        <4> QED
          BY <2>2, <4>1, <4>2 DEF Consume
      <3>3. /\ stream' = stream \ {entry} /\ batch' = batch \ {entry}
            /\ UNCHANGED <<published, delivered>> /\ \A e \in batch : entry.id <= e.id
        BY <2>2 DEF Consume, InHand, memory, redis, history
      <3>4. ASSUME entry.id = published PROVE stream' = {}
        <4>1. delivered = published
          BY <1>0, <3>1, <3>4
        <4>2. ASSUME NEW e \in stream PROVE e = entry
          <5>1. e \in batch /\ entry.id <= e.id /\ e.id <= published
            BY <1>0, <3>3, <4>1
          <5>2. e.id = entry.id
            BY <1>0, <3>4, <5>1
          <5> QED
            BY <3>1, <5>2 DEF InOrder
        <4> QED
          BY <3>3, <4>2
      <3>5. ASSUME entry.id # published PROVE \A e \in stream : e.id = published => e \in stream'
        BY <3>3, <3>5
      <3>6. ASSUME NEW t, Ends(t) PROVE Ends(t)'
        <4>1. PICK e \in stream : e.id = published /\ e.text = t
          BY <3>1, <3>6 DEF Ends
        <4>2. CASE entry.id = published
          <5>1. e = entry
            BY <3>1, <4>1, <4>2 DEF InOrder
          <5> QED
            BY <3>2, <3>4, <4>1, <4>2, <5>1 DEF Ends
        <4>3. CASE entry.id # published
          BY <3>3, <3>5, <4>1, <4>3 DEF Ends
        <4> QED
          BY <4>2, <4>3
      <3>7. stream' = {} \/ \E e \in stream' : e.id = published
        BY <3>1, <3>4, <3>5 DEF InOrder
      <3>8. batch' = {e \in stream' : e.id <= delivered}
        BY <1>0, <3>3
      <3>9. InOrder'
        BY <3>3, <3>7, <3>8 DEF InOrder
      <3> QED
        BY <3>2, <3>6, <3>9
    <2>3. ASSUME NEW entry \in batch, ConsumerCrash(entry)
          PROVE  count'.flushes = count.flushes /\ (\A t : Ends(t) => Ends(t)') /\ InOrder'
      <3>1. Counted("consumer", 0)
        BY <2>3 DEF ConsumerCrash, Steady
      <3> QED
        BY <3>1, NeverCounted
    <2> QED
      BY <2>1, <2>2, <2>3 DEF ConsumerStep
  <1>3. Alone' /\ Running' = Running
    BY <1>1 DEF Alone, Running
  <1>4. SavedEnds'
    <2>1. \A r \in Replicas : Ends(lastSaved[r]) => Ends(lastSaved[r])'
      BY <1>1, <1>2 DEF Ends
    <2>2. Ends(hot) => Ends(hot)'
      BY <1>1, <1>2 DEF Ends
    <2> QED
      BY <1>1, <1>2, <1>3, <2>1, <2>2 DEF SavedEnds, Putting
  <1>5. Durable'
    <2>1. Ends(latest) => Ends(latest)'
      BY <1>1, <1>2 DEF Ends
    <2>2. ASSUME NEW p \in Running PROVE TextIn(proc[p])'
      <3>1. Ends(proc[p].text) => Ends(proc[p].text)'
        BY <1>1, <1>2 DEF Ends
      <3> QED
        BY <1>1, <2>1, <2>2, <3>1 DEF Durable, TextIn, Putting
    <2> QED
      BY <1>1, <1>3, <2>1, <2>2 DEF Durable
  <1> QED
    BY <1>2, <1>3, <1>4, <1>5

LEMMA DurableCrash ==
  ASSUME OneReplica, TypeOK, Alone, InOrder, SavedEnds, Durable, NEW r \in Replicas, ReplicaCrash(r)
  PROVE  Alone' /\ InOrder' /\ SavedEnds' /\ Durable'
  <1>1. \A p \in Processes : proc'[p] = Idle
    BY Homes DEF ReplicaCrash, OneReplica
  <1>2. Running' = {} /\ Alone'
    BY <1>1, IdleState, FS_EmptySet DEF Running, Alone
  <1>3. UNCHANGED <<hot, latest, mistaken, stream, published, postgres, delivered, batch>>
    BY DEF ReplicaCrash, redis, consumer, history
  <1>4. \A q \in Replicas : lastSaved'[q] = None
    BY DEF ReplicaCrash, OneReplica, TypeOK
  <1>5. InOrder'
    BY <1>3 DEF InOrder
  <1>6. SavedEnds'
    BY <1>4 DEF SavedEnds
  <1>7. Durable'
    BY <1>2, <1>3 DEF Durable, Ends
  <1> QED
    BY <1>2, <1>5, <1>6, <1>7

LEMMA DurableNext ==
  ASSUME OneReplica, MaxRunning = 1, Steady, TypeOK, Carrying, Alone, InOrder, SavedEnds, Durable,
         [Next]_vars
  PROVE  Alone' /\ InOrder' /\ SavedEnds' /\ Durable'
  <1>1. CASE UNCHANGED <<hot, memory, proc, stream, consumer, postgres, history, published, count>>
    BY <1>1, ZenonT(60) DEF memory, consumer, history, Alone, Running, InOrder, SavedEnds, Durable, TextIn, Putting, Ends
  <1>2. ASSUME NEW c \in Sockets, Connect(c)
        PROVE  Alone' /\ InOrder' /\ SavedEnds' /\ Durable'
    BY <1>1, <1>2 DEF Connect, redis
  <1>3. CASE UNCHANGED vars
    BY <1>1, <1>3 DEF vars, redis
  <1>4. ASSUME NEW c \in Sockets, WorkStep(c) \/ ByeStep(c)
        PROVE  Alone' /\ InOrder' /\ SavedEnds' /\ Durable'
    BY <1>4, DurableJoin, DurableUpdate, DurableRemoval, ProcessNames DEF WorkStep, ByeStep
  <1>5. ASSUME NEW r \in Replicas, SweepStep(r)
        PROVE  Alone' /\ InOrder' /\ SavedEnds' /\ Durable'
    BY <1>5, DurableTimers, DurableRemoval, ProcessNames DEF SweepStep
  <1> QED
    BY <1>2, <1>3, <1>4, <1>5, DurableStarts, DurableTimers, DurableConsumer, DurableCrash DEF Next

LEMMA InitDurable == Init => InOrder /\ SavedEnds /\ Durable
  <1> SUFFICES ASSUME Init PROVE InOrder /\ SavedEnds /\ Durable
    OBVIOUS
  <1>1. Running = {}
    BY IdleState DEF Init, Running
  <1>2. InOrder /\ SavedEnds
    BY DEF Init, InOrder, SavedEnds
  <1>3. Durable
    BY <1>1 DEF Init, Durable, Ends
  <1> QED
    BY <1>2, <1>3

\* On one replica that does one thing at a time, with a consumer that works, but
\* PUTs that fail and crashes of the replica at any moment: what a room that is not
\* open leaves in the stream, or else in Postgres, is the last accepted update,
\* unless a text was taken for saved by mistake (editorHub.ts:347-360, 139-176,
\* stream_consumer.go:76-142).
THEOREM ClosedRoomsSaved ==
  ASSUME OneReplica, MaxRunning = 1, Steady
  PROVE  Spec => []ClosedTextDurable
  <1> DEFINE IInv == TypeOK /\ Carrying /\ Alone /\ InOrder /\ SavedEnds /\ Durable
  <1>1. Init => IInv
    BY InitType, InitAlone, InitDurable
  <1>2. IInv /\ [Next]_vars => IInv'
    BY NextType, DurableNext
  <1>3. IInv => ClosedTextDurable
    BY DEF Durable, ClosedTextDurable, Ends
  <1> QED
    BY <1>1, <1>2, <1>3, PTL DEF Spec
=============================================================================
