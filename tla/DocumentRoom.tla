----------------------------- MODULE DocumentRoom ------------------------------
(***************************************************************************)
(* The life of one document's text: the realtime service keeps it hot in   *)
(* Redis while somebody is in the document's room, and writes it behind to *)
(* Postgres, through a Redis stream that the API consumes and through the  *)
(* API's PUT, on a timer and when the last user leaves.                    *)
(*                                                                         *)
(*   livesync-realtime  hubs/editorHub.ts, services/documentStateService.ts*)
(*   livesync-api       services/stream_consumer.go, document_service.go   *)
(*                                                                         *)
(* Several replicas of the realtime service share the Redis keys and have  *)
(* maps of their own in memory.  A handler, and each of the two timers of a*)
(* replica, is a process; every awaited call is a step of it, so anything  *)
(* may happen between two of its calls.                                    *)
(***************************************************************************)
EXTENDS Integers, FiniteSets

CONSTANTS
  Sockets,          \* the connections, each of which lives once
  Replicas,         \* the processes of the realtime service
  Home,             \* Home[c]: the replica that socket c is connected to
  Texts,            \* the texts the document may have
  None,             \* no such key; an undefined map entry
  FirstText,        \* what Postgres holds at first
  Seeding,          \* whether clients pass the text they have when they join
  MaxEdits,         \* bound: updates and seeding joins in a behaviour
  MaxRunning,       \* bound: processes of the realtime service in the middle of something
  MaxPutFailures,   \* bound: PUTs that fail
  MaxSaveFailures,  \* bound: UPDATEs of the stream consumer that fail
  MaxConsumerCrashes, \* bound: crashes of the API process
  MaxReplicaCrashes \* bound: crashes of replicas of the realtime service

ASSUME RoomAssumption ==
  /\ Home \in [Sockets -> Replicas]
  /\ FirstText \in Texts
  /\ None \notin Texts /\ None \notin Sockets
  /\ Seeding \in BOOLEAN
  /\ {MaxEdits, MaxRunning, MaxPutFailures, MaxSaveFailures,
      MaxConsumerCrashes, MaxReplicaCrashes} \subseteq Nat

VARIABLES
  status,     \* status[c]: whether socket c is new, connected or gone
  users,      \* livesync:doc:{id}:users
  access,     \* the sockets c with livesync:conn:{c}:docs holding the document
  hot,        \* livesync:doc:{id}:content
  tokens,     \* documentTokens of each replica: the sockets it has a token of
  lastSaved,  \* lastSavedContent of each replica
  proc,       \* the processes of the realtime service
  stream,     \* livesync:stream:document-saves: the entries not deleted
  delivered,  \* the last id the consumer group was given
  batch,      \* the entries the consumer has in hand
  postgres,   \* "Documents"."Content"
  latest,     \* history variable: the text of the last accepted update
  mistaken,   \* history variable: an update came back to what its replica takes for
              \* saved, after a flush whose PUT failed
  published,  \* how many entries were added to the stream; the last one's id
  count       \* counts edits, failures and crashes, for their bounds

redis    == <<users, access, hot>>
memory   == <<tokens, lastSaved>>
consumer == <<delivered, batch>>
history  == <<latest, mistaken>>
vars     == <<status, redis, memory, proc, stream, consumer, postgres, history, published, count>>

\* A socket's messages, its disconnect, and the two timers of a replica.
Work(c)  == <<"work", c>>
Bye(c)   == <<"bye", c>>
Sweep(r) == <<"sweep", r>>
Flush(r) == <<"flush", r>>

Processes == {Work(c) : c \in Sockets} \union {Bye(c) : c \in Sockets}
               \union {Sweep(r) : r \in Replicas} \union {Flush(r) : r \in Replicas}

At(p) == IF p[1] \in {"work", "bye"} THEN Home[p[2]] ELSE p[2]

\* conn: the socket being removed; text: what was read or is to be written;
\* token: a token was at hand; live, todo: what the sweeper fetched.
Idle == [pc |-> "idle", conn |-> None, text |-> None, token |-> FALSE, live |-> {}, todo |-> {}]
Running == {p \in Processes : proc[p].pc # "idle"}

Goto(p, pc) == proc' = [proc EXCEPT ![p].pc = pc]
Counted(what, bound) == count[what] < bound /\ count' = [count EXCEPT ![what] = @ + 1]

\* A process starts only while fewer than MaxRunning do something.
Start(p, state) ==
  /\ proc[p].pc = "idle"
  /\ Cardinality(Running) < MaxRunning
  /\ proc' = [proc EXCEPT ![p] = state]

\* What GET /api/documents/:id answers.
Read == IF hot \notin {None, ""} THEN hot ELSE postgres

Init ==
  /\ status = [c \in Sockets |-> "new"]
  /\ users = {} /\ access = {} /\ hot = None
  /\ tokens = [r \in Replicas |-> {}]
  /\ lastSaved = [r \in Replicas |-> None]
  /\ proc = [p \in Processes |-> Idle]
  /\ stream = {} /\ delivered = 0 /\ batch = {} /\ published = 0
  /\ postgres = FirstText
  /\ latest = FirstText /\ mistaken = FALSE
  /\ count = [edits |-> 0, puts |-> 0, flushes |-> 0, saves |-> 0, consumer |-> 0, replicas |-> 0]

-----------------------------------------------------------------------------
(***************************************************************************)
(* JoinDocument                                                            *)
(***************************************************************************)

Connect(c) ==
  /\ status[c] = "new"
  /\ status' = [status EXCEPT ![c] = "connected"]
  /\ UNCHANGED <<redis, memory, proc, stream, consumer, postgres, history, published, count>>

\* The access checks have answered Edit: the token is kept.  A client may pass the
\* text it has loaded.
StartJoin(c, initial) ==
  /\ status[c] = "connected"
  /\ IF initial = None THEN UNCHANGED count ELSE Seeding /\ Counted("edits", MaxEdits)
  /\ Start(Work(c), [Idle EXCEPT !.pc = "join", !.text = initial])
  /\ tokens' = [tokens EXCEPT ![Home[c]] = @ \union {c}]
  /\ UNCHANGED <<status, redis, lastSaved, stream, consumer, postgres, history, published>>

\* addUserToDocument: SADD; who was in already is let alone after the HSET.
AddUser(c) ==
  /\ proc[Work(c)].pc = "join"
  /\ users' = users \union {c}
  /\ Goto(Work(c), IF c \in users THEN "join again" ELSE "join grant")
  /\ UNCHANGED <<status, access, hot, memory, stream, consumer, postgres, history, published, count>>

GrantAccess(c) ==
  /\ proc[Work(c)].pc \in {"join again", "join grant"}
  /\ access' = access \union {c}
  /\ IF proc[Work(c)].pc = "join grant"
       THEN Goto(Work(c), "join read")
       ELSE proc' = [proc EXCEPT ![Work(c)] = Idle]
  /\ UNCHANGED <<status, users, hot, memory, stream, consumer, postgres, history, published, count>>

\* getContent: a text the client brought is to seed a room without one.
ReadForJoin(c) ==
  /\ proc[Work(c)].pc = "join read"
  /\ IF hot = None /\ proc[Work(c)].text \notin {None, ""}
       THEN Goto(Work(c), "join seed")
       ELSE proc' = [proc EXCEPT ![Work(c)] = Idle]
  /\ UNCHANGED <<status, redis, memory, stream, consumer, postgres, history, published, count>>

SeedContent(c) ==
  /\ proc[Work(c)].pc = "join seed"
  /\ hot' = proc[Work(c)].text
  /\ proc' = [proc EXCEPT ![Work(c)] = Idle]
  /\ UNCHANGED <<status, users, access, memory, stream, consumer, postgres, history, published, count>>

-----------------------------------------------------------------------------
(***************************************************************************)
(* SendContentUpdate                                                       *)
(***************************************************************************)

\* Slip: an update without a text is stored as it came.
UpdateWithoutText(c, text) ==
  /\ status[c] = "connected" /\ c \in access
  /\ Counted("edits", MaxEdits)
  /\ Start(Work(c), [Idle EXCEPT !.pc = "update"])
  /\ UNCHANGED <<status, redis, memory, stream, consumer, postgres, history, published>>

\* getAccess; without it nothing happens but a PermissionDenied.
StartUpdate(c, text) ==
  /\ status[c] = "connected" /\ c \in access
  /\ Counted("edits", MaxEdits)
  /\ Start(Work(c), [Idle EXCEPT !.pc = "update", !.text = text])
  /\ UNCHANGED <<status, redis, memory, stream, consumer, postgres, history, published>>

SetContent(c) ==
  LET text == proc[Work(c)].text
  IN  /\ proc[Work(c)].pc = "update"
      /\ hot' = text
      /\ latest' = text
      /\ mistaken' = (mistaken \/ (count.flushes > 0 /\ lastSaved[Home[c]] = text))
      /\ proc' = [proc EXCEPT ![Work(c)] = Idle]
      /\ UNCHANGED <<status, users, access, memory, stream, consumer, postgres, published, count>>

-----------------------------------------------------------------------------
(***************************************************************************)
(* LeaveDocument, disconnect and the sweeper of stale connections          *)
(***************************************************************************)

StartLeave(c) ==
  /\ status[c] = "connected"
  /\ Start(Work(c), [Idle EXCEPT !.pc = "remove", !.conn = c])
  /\ UNCHANGED <<status, redis, memory, stream, consumer, postgres, history, published, count>>

\* The messages a socket sent before it disconnected are handled to the end.
Disconnect(c) ==
  /\ status[c] = "connected"
  /\ status' = [status EXCEPT ![c] = "gone"]
  /\ Start(Bye(c), [Idle EXCEPT !.pc = "look up", !.conn = c])
  /\ UNCHANGED <<redis, memory, stream, consumer, postgres, history, published, count>>

\* getDocumentsForConnection.
LookUp(c) ==
  /\ proc[Bye(c)].pc = "look up"
  /\ Goto(Bye(c), IF c \in access THEN "remove" ELSE "forget")
  /\ UNCHANGED <<status, redis, memory, stream, consumer, postgres, history, published, count>>

\* The timer fires; getAllDocumentUserKeys finds the document, or nothing to do.
StartSweep(r) ==
  /\ users # {}
  /\ Start(Sweep(r), [Idle EXCEPT !.pc = "fetch sockets"])
  /\ UNCHANGED <<status, redis, memory, stream, consumer, postgres, history, published, count>>

\* Slip: sockets that were ever connected pass for live.
FetchEverySocket(r) ==
  /\ proc[Sweep(r)].pc = "fetch sockets"
  /\ proc' = [proc EXCEPT ![Sweep(r)].pc = "fetch members",
                          ![Sweep(r)].live = {c \in Sockets : status[c] # "new"}]
  /\ UNCHANGED <<status, redis, memory, stream, consumer, postgres, history, published, count>>

\* fetchSockets, over all replicas.
FetchSockets(r) ==
  /\ proc[Sweep(r)].pc = "fetch sockets"
  /\ proc' = [proc EXCEPT ![Sweep(r)].pc = "fetch members",
                          ![Sweep(r)].live = {c \in Sockets : status[c] = "connected"}]
  /\ UNCHANGED <<status, redis, memory, stream, consumer, postgres, history, published, count>>

\* getDocumentUserMembers: the members that are not among the sockets are stale.
FetchMembers(r) ==
  /\ proc[Sweep(r)].pc = "fetch members"
  /\ proc' = [proc EXCEPT ![Sweep(r)].pc = "next",
                          ![Sweep(r)].todo = users \ proc[Sweep(r)].live]
  /\ UNCHANGED <<status, redis, memory, stream, consumer, postgres, history, published, count>>

NextStale(r) ==
  LET p == Sweep(r)
  IN  /\ proc[p].pc = "next"
      /\ IF proc[p].todo = {}
           THEN proc' = [proc EXCEPT ![p] = Idle]
           ELSE \E c \in proc[p].todo :
                  proc' = [proc EXCEPT ![p].pc = "remove", ![p].conn = c, ![p].todo = @ \ {c}]
      /\ UNCHANGED <<status, redis, memory, stream, consumer, postgres, history, published, count>>

\* removeUserFromDocument: SREM, then HDEL.  Only a leave looks at whether the
\* socket was a member at all.
RemoveUser(p) ==
  /\ proc[p].pc = "remove"
  /\ users' = users \ {proc[p].conn}
  /\ Goto(p, IF p[1] = "work" /\ proc[p].conn \notin users THEN "revoke only" ELSE "revoke")
  /\ UNCHANGED <<status, access, hot, memory, stream, consumer, postgres, history, published, count>>

RevokeAccess(p) ==
  /\ proc[p].pc \in {"revoke", "revoke only"}
  /\ access' = access \ {proc[p].conn}
  /\ IF proc[p].pc = "revoke" THEN Goto(p, "count") ELSE proc' = [proc EXCEPT ![p] = Idle]
  /\ UNCHANGED <<status, users, hot, memory, stream, consumer, postgres, history, published, count>>

\* The end of a removal; a disconnect and a sweeper forget the connection as well.
Finish(p) ==
  proc' = [proc EXCEPT ![p] = IF p[1] = "work" THEN Idle
                              ELSE [@ EXCEPT !.pc = "forget", !.text = None, !.token = FALSE]]

\* Slip: removeDocumentToken is forgotten.
CountUsersOnly(p) ==
  /\ proc[p].pc = "count"
  /\ IF users = {} THEN Goto(p, "close read") ELSE Finish(p)
  /\ UNCHANGED <<status, redis, memory, stream, consumer, postgres, history, published, count>>

\* getUserCount: the room closes when nobody is left; else removeDocumentToken.
CountUsers(p) ==
  /\ proc[p].pc = "count"
  /\ IF users = {}
       THEN Goto(p, "close read") /\ UNCHANGED tokens
       ELSE Finish(p) /\ tokens' = [tokens EXCEPT ![At(p)] = @ \ {proc[p].conn}]
  /\ UNCHANGED <<status, redis, lastSaved, stream, consumer, postgres, history, published, count>>

\* Slip: a document that was ever saved need not be published.
CloseReadUnlessEverSaved(p) ==
  /\ proc[p].pc = "close read"
  /\ proc' = [proc EXCEPT
       ![p].pc    = IF hot # None /\ lastSaved[At(p)] = None THEN "close publish" ELSE "close delete",
       ![p].text  = hot,
       ![p].token = tokens[At(p)] # {}]
  /\ UNCHANGED <<status, redis, memory, stream, consumer, postgres, history, published, count>>

\* getContent and getTokenForDocumentSave: what this replica has saved already
\* need not be published.
CloseRead(p) ==
  /\ proc[p].pc = "close read"
  /\ proc' = [proc EXCEPT
       ![p].pc    = IF hot # None /\ hot # lastSaved[At(p)] THEN "close publish" ELSE "close delete",
       ![p].text  = hot,
       ![p].token = tokens[At(p)] # {}]
  /\ UNCHANGED <<status, redis, memory, stream, consumer, postgres, history, published, count>>

\* publishSaveEvent: XADD.
AddToStream(text) ==
  /\ published' = published + 1
  /\ stream' = stream \union {[id |-> published + 1, text |-> text]}

ClosePublish(p) ==
  /\ proc[p].pc = "close publish"
  /\ AddToStream(proc[p].text)
  /\ IF proc[p].token
       THEN Goto(p, "close put") /\ UNCHANGED lastSaved
       ELSE Goto(p, "close delete") /\ lastSaved' = [lastSaved EXCEPT ![At(p)] = proc[p].text]
  /\ UNCHANGED <<status, redis, tokens, consumer, postgres, history, count>>

\* The API's UpdateContent, or a failure the realtime service logs.
Put(text, saved, what) ==
  IF saved THEN postgres' = text /\ UNCHANGED count
           ELSE Counted(what, MaxPutFailures) /\ UNCHANGED postgres

\* Whether the PUT succeeded is not looked at.
ClosePut(p, saved) ==
  /\ proc[p].pc = "close put"
  /\ Put(proc[p].text, saved, "puts")
  /\ lastSaved' = [lastSaved EXCEPT ![At(p)] = proc[p].text]
  /\ Goto(p, "close delete")
  /\ UNCHANGED <<status, redis, tokens, stream, consumer, history, published>>

DeleteContent(p) ==
  /\ proc[p].pc = "close delete"
  /\ hot' = None
  /\ Goto(p, "close log")
  /\ UNCHANGED <<status, users, access, memory, stream, consumer, postgres, history, published, count>>

\* Slip: what was saved last is remembered.
DeleteOperationsOnly(p) ==
  /\ proc[p].pc = "close log"
  /\ tokens' = [tokens EXCEPT ![At(p)] = {}]
  /\ Finish(p)
  /\ UNCHANGED <<status, redis, lastSaved, stream, consumer, postgres, history, published, count>>

\* deleteOperations, then this replica forgets the document.
DeleteOperations(p) ==
  /\ proc[p].pc = "close log"
  /\ tokens' = [tokens EXCEPT ![At(p)] = {}]
  /\ lastSaved' = [lastSaved EXCEPT ![At(p)] = None]
  /\ Finish(p)
  /\ UNCHANGED <<status, redis, stream, consumer, postgres, history, published, count>>

\* removeConnection: DEL of livesync:conn:{c}:docs.
RemoveConnection(p) ==
  /\ proc[p].pc = "forget"
  /\ access' = access \ {proc[p].conn}
  /\ proc' = [proc EXCEPT ![p] = IF p[1] = "sweep" THEN [@ EXCEPT !.pc = "next", !.conn = None]
                                                    ELSE Idle]
  /\ UNCHANGED <<status, users, hot, memory, stream, consumer, postgres, history, published, count>>

-----------------------------------------------------------------------------
(***************************************************************************)
(* The write-back flusher                                                  *)
(***************************************************************************)

StartFlush(r) ==
  /\ users # {}
  /\ Start(Flush(r), [Idle EXCEPT !.pc = "flush read"])
  /\ UNCHANGED <<status, redis, memory, stream, consumer, postgres, history, published, count>>

\* Slip: a document is flushed once.
FlushReadOnce(r) ==
  LET p == Flush(r)
  IN  /\ proc[p].pc = "flush read"
      /\ proc' = IF hot # None /\ lastSaved[r] = None
                   THEN [proc EXCEPT ![p].pc = "flush publish", ![p].text = hot,
                                     ![p].token = tokens[r] # {}]
                   ELSE [proc EXCEPT ![p] = Idle]
      /\ UNCHANGED <<status, redis, memory, stream, consumer, postgres, history, published, count>>

FlushRead(r) ==
  LET p == Flush(r)
  IN  /\ proc[p].pc = "flush read"
      /\ proc' = IF hot # None /\ hot # lastSaved[r]
                   THEN [proc EXCEPT ![p].pc = "flush publish", ![p].text = hot,
                                     ![p].token = tokens[r] # {}]
                   ELSE [proc EXCEPT ![p] = Idle]
      /\ UNCHANGED <<status, redis, memory, stream, consumer, postgres, history, published, count>>

FlushPublish(r) ==
  LET p == Flush(r)
  IN  /\ proc[p].pc = "flush publish"
      /\ AddToStream(proc[p].text)
      /\ IF proc[p].token
           THEN Goto(p, "flush put") /\ UNCHANGED lastSaved
           ELSE /\ proc' = [proc EXCEPT ![p] = Idle]
                /\ lastSaved' = [lastSaved EXCEPT ![r] = proc[p].text]
      /\ UNCHANGED <<status, redis, tokens, consumer, postgres, history, count>>

\* A flush whose PUT failed is tried again at the next tick.
FlushPut(r, saved) ==
  LET p == Flush(r)
  IN  /\ proc[p].pc = "flush put"
      /\ Put(proc[p].text, saved, "flushes")
      /\ lastSaved' = IF saved THEN [lastSaved EXCEPT ![r] = proc[p].text] ELSE lastSaved
      /\ proc' = [proc EXCEPT ![p] = Idle]
      /\ UNCHANGED <<status, redis, tokens, stream, consumer, history, published>>

-----------------------------------------------------------------------------
(***************************************************************************)
(* The API's consumer of the stream                                        *)
(***************************************************************************)

Fresh == {e \in stream : e.id > delivered}

\* Slip: only what the group was never given is read.
PollFresh ==
  /\ batch = {} /\ Fresh # {}
  /\ batch' = Fresh
  /\ delivered' = published
  /\ UNCHANGED <<status, redis, memory, proc, stream, postgres, history, published, count>>

\* XREADGROUP > gives what the group was never given; when there is nothing of
\* that, XREAD from 0-0 gives every entry still in the stream.
Poll ==
  /\ batch = {} /\ stream # {}
  /\ batch' = IF Fresh # {} THEN Fresh ELSE stream
  /\ delivered' = IF Fresh # {} THEN published ELSE delivered
  /\ UNCHANGED <<status, redis, memory, proc, stream, postgres, history, published, count>>

\* The entries are handled in the order of their ids.
InHand(entry) == entry \in batch /\ \A e \in batch : entry.id <= e.id

\* UpdateContentInternal of the first entry in hand, unless its text is empty.
\* Its error is dropped: XACK and XDEL follow whatever became of it.
Consume(entry, saved) ==
  /\ InHand(entry)
  /\ IF entry.text = "" THEN saved /\ UNCHANGED <<postgres, count>>
     ELSE IF saved THEN postgres' = entry.text /\ UNCHANGED count
     ELSE Counted("saves", MaxSaveFailures) /\ UNCHANGED postgres
  /\ stream' = stream \ {entry}
  /\ batch' = batch \ {entry}
  /\ UNCHANGED <<status, redis, memory, proc, delivered, history, published>>

\* The API stops before the entry in hand is deleted, perhaps after its UPDATE.
ConsumerCrash(entry) ==
  /\ InHand(entry)
  /\ Counted("consumer", MaxConsumerCrashes)
  /\ batch' = {}
  /\ postgres' \in {postgres} \union ({entry.text} \ {""})
  /\ UNCHANGED <<status, redis, memory, proc, stream, delivered, history, published>>

\* A replica dies with its sockets, its handlers and its maps; Redis stays.
ReplicaCrash(r) ==
  /\ Counted("replicas", MaxReplicaCrashes)
  /\ status' = [c \in Sockets |-> IF Home[c] = r /\ status[c] = "connected" THEN "gone" ELSE status[c]]
  /\ proc' = [p \in Processes |-> IF At(p) = r THEN Idle ELSE proc[p]]
  /\ tokens' = [tokens EXCEPT ![r] = {}]
  /\ lastSaved' = [lastSaved EXCEPT ![r] = None]
  /\ UNCHANGED <<redis, stream, consumer, postgres, history, published>>

-----------------------------------------------------------------------------

Removal(p) ==
  \/ RemoveUser(p) \/ RevokeAccess(p) \/ CountUsers(p)
  \/ CloseRead(p) \/ ClosePublish(p) \/ (\E saved \in BOOLEAN : ClosePut(p, saved))
  \/ DeleteContent(p) \/ DeleteOperations(p) \/ RemoveConnection(p)

WorkStep(c) ==
  \/ AddUser(c) \/ GrantAccess(c) \/ ReadForJoin(c) \/ SeedContent(c)
  \/ SetContent(c)
  \/ Removal(Work(c))

ByeStep(c) == LookUp(c) \/ Removal(Bye(c))

SweepStep(r) == FetchSockets(r) \/ FetchMembers(r) \/ NextStale(r) \/ Removal(Sweep(r))

FlushStep(r) ==
  \/ FlushRead(r) \/ FlushPublish(r)
  \/ \E saved \in BOOLEAN : FlushPut(r, saved)

ConsumerStep == Poll \/ \E entry \in batch, saved \in BOOLEAN : Consume(entry, saved)

Next ==
  \/ \E c \in Sockets :
       \/ Connect(c)
       \/ \E initial \in {None, Read} : StartJoin(c, initial)
       \/ \E text \in Texts : StartUpdate(c, text)
       \/ StartLeave(c)
       \/ Disconnect(c)
       \/ WorkStep(c)
       \/ ByeStep(c)
  \/ \E r \in Replicas :
       \/ StartSweep(r) \/ SweepStep(r)
       \/ StartFlush(r) \/ FlushStep(r)
       \/ ReplicaCrash(r)
  \/ ConsumerStep
  \/ \E entry \in batch : ConsumerCrash(entry)

Spec == Init /\ [][Next]_vars

\* Every awaited call returns and the timers fire again and again.  A timer may
\* find the bound MaxRunning reached again and again, which is not the code's
\* doing: hence strong fairness.
Fairness ==
  /\ \A c \in Sockets : WF_vars(WorkStep(c)) /\ WF_vars(ByeStep(c))
  /\ \A r \in Replicas :
       /\ WF_vars(SweepStep(r)) /\ SF_vars(StartSweep(r))
       /\ WF_vars(FlushStep(r)) /\ SF_vars(StartFlush(r))
  /\ WF_vars(ConsumerStep)

FairSpec == Spec /\ Fairness

-----------------------------------------------------------------------------
(***************************************************************************)
(* Properties                                                              *)
(***************************************************************************)

Steps == {"idle", "join", "join again", "join grant", "join read", "join seed", "update",
          "look up", "fetch sockets", "fetch members", "next", "remove", "revoke",
          "revoke only", "count", "close read", "close publish", "close put",
          "close delete", "close log", "forget", "flush read", "flush publish", "flush put"}
Entries == [id : 1..published, text : Texts]

TypeOK ==
  /\ status \in [Sockets -> {"new", "connected", "gone"}]
  /\ users \subseteq Sockets /\ access \subseteq Sockets
  /\ hot \in Texts \union {None}
  /\ tokens \in [Replicas -> SUBSET Sockets]
  /\ lastSaved \in [Replicas -> Texts \union {None}]
  /\ proc \in [Processes -> [pc : Steps, conn : Sockets \union {None}, text : Texts \union {None},
                            token : BOOLEAN, live : SUBSET Sockets, todo : SUBSET Sockets]]
  /\ published \in Nat /\ delivered \in 0..published
  /\ stream \subseteq Entries /\ batch \subseteq Entries
  /\ postgres \in Texts /\ latest \in Texts /\ mistaken \in BOOLEAN
  /\ count \in [edits : Nat, puts : Nat, flushes : Nat, saves : Nat, consumer : Nat, replicas : Nat]

Quiet == Running = {}

\* When the room has closed, the last accepted update is what Postgres ends up
\* with: it is the last entry on its way, or it is there.  Neither the texts
\* skipped as already saved nor the older entries still in the stream undo it
\* (editorHub.ts:347-360, 139-176, stream_consumer.go:76-142).  A text taken for
\* saved by mistake breaks it: README.md, Findings.
ClosedTextDurable ==
  Quiet /\ hot = None /\ ~mistaken =>
    IF stream = {} THEN postgres = latest
                   ELSE \E e \in stream : e.id = published /\ e.text = latest

\* A room that everybody has left keeps nothing: no hot text that would shadow
\* Postgres, no access, and on its replica neither a token nor a memory of what
\* was saved (editorHub.ts:347-364, 588-612).
LastOneOutCloses ==
  Quiet /\ users = {} =>
    /\ hot = None /\ access = {}
    /\ \A r \in Replicas : tokens[r] = {} /\ lastSaved[r] = None

\* However joins, leaves, disconnects and sweeps of the same room interleave, a
\* user's token is kept only as long as he is a member
\* (editorHub.ts:296-300, 363-365, 620-641).
TokensOfMembers == Quiet => \A r \in Replicas : tokens[r] \subseteq users

\* What GET /api/documents/:id answers once nothing is under way any more, neither
\* in the realtime service nor in the stream, is the last update that was accepted
\* (docs/ARCHITECTURE.md:179-180).  Two replicas break it: README.md, Findings.
SettledReadsCurrent == Quiet /\ stream = {} => Read = latest

\* The sweeper removes only connections that are gone (editorHub.ts:106-107, 194-195).
\* A join between its two reads breaks it: README.md, Findings.
SweptAreGone ==
  \A r \in Replicas : proc[Sweep(r)].pc = "remove" => status[proc[Sweep(r)].conn] = "gone"

\* A connection that is gone, with its replica or while it was joining, does not
\* stay a member: the sweeper of some replica removes it (editorHub.ts:178-229).
StaleSwept ==
  \A c \in Sockets : (c \in users /\ status[c] = "gone") ~> (c \notin users)

\* Every save event leaves the stream, also one that the consumer had in hand
\* when it crashed and that the group will not be given again
\* (stream_consumer.go:80-104, 129-139).
StreamDrains ==
  \A i \in 1..(2 * MaxEdits) :
    (\E e \in stream : e.id = i) ~> ~(\E e \in stream : e.id = i)

\* Every accepted update gets to Postgres, unless a later one replaces it first or
\* it is taken for saved by mistake, whether or not the room ever closes, and
\* although a PUT fails (editorHub.ts:139-176, 347-360).  A consumer that crashes or
\* whose UPDATE fails breaks it: README.md, What the passing runs do not claim.
EditsReachPostgres ==
  \A text \in Texts :
    latest = text ~>
      \/ postgres = text \/ latest # text
      \/ mistaken \/ count.saves > 0 \/ count.consumer > 0
=============================================================================
