--------------------------- MODULE OperationPipeline ---------------------------
(***************************************************************************)
(* How the realtime service turns the operations that the clients of one   *)
(* open document send into one ordered log: handleSendOperation and        *)
(* handleRequestMissedOperations of hubs/editorHub.ts, over the Redis keys *)
(* that services/operationLog.ts keeps.                                    *)
(*                                                                         *)
(* Every `await` of a handler is a point where the other handlers run, so  *)
(* a handler is one action per Redis call.  An operation is abstracted to  *)
(* where it came from and what it went through: the revision its client    *)
(* had seen, and the set of revisions the resolver transformed it against. *)
(* The text is abstracted to the sequence of revisions applied to it.      *)
(***************************************************************************)
EXTENDS Integers, Sequences, FiniteSets

CONSTANTS
  Clients,          \* the sockets joined with Edit access
  NoSnapshot,       \* doc:snapshot:{id} does not exist
  SnapshotEvery,    \* compaction starts at every such revision (100)
  KeepRevisions,    \* how far behind that revision the log is kept (200)
  MaxRevision,      \* bound: operations committed in a behaviour
  MaxInFlight,      \* bound: SendOperation handlers running at once
  MaxLag,           \* bound: how far behind the log an operation's base may be
  MaxJobLag,        \* bound: revisions that a compaction may take to finish
  MaxDisconnects,   \* bound: dropped connections
  MaxFailures       \* bound: Redis calls that throw

ASSUME PipelineAssumption ==
  /\ SnapshotEvery \in Nat \ {0}
  /\ {KeepRevisions, MaxRevision, MaxInFlight, MaxLag, MaxJobLag,
      MaxDisconnects, MaxFailures} \subseteq Nat
  /\ NoSnapshot \notin [revision : Nat, text : Seq(Nat)]

VARIABLES
  revision,     \* doc:revision:{id}
  log,          \* doc:operations:{id}, the sorted set
  snapshot,     \* doc:snapshot:{id}
  content,      \* livesync:doc:{id}:content: the revisions applied, in order
  send,         \* send[c]: the SendOperation handler running for client c
  jobs,         \* compactions started and not finished
  phase,        \* phase[c]: where client c is between offline and live
  cursor,       \* cursor[c]: up to where client c caught up when it last did
  received,     \* received[c]: the revisions of the operations c was sent
  history,      \* history variable: every operation ever committed
  unannounced,  \* history variable: those whose handler failed before its broadcast
  disconnects,  \* counts Disconnect, for its bound
  failures      \* counts failed calls, for their bound

redis   == <<revision, log, snapshot, content>>
clients == <<phase, cursor, received>>
vars    == <<redis, send, jobs, clients, history, unannounced, disconnects, failures>>

Revisions(ops) == {o.rev : o \in ops}

\* A revision up to which client c has seen everything, so that it may base an
\* operation or a request for missed operations on it.
Complete(c, r) == cursor[c] <= r /\ (cursor[c] + 1)..r \subseteq received[c]

\* Slips: the range includes its bound; it starts one too late.
OperationsFrom(r) == {o \in log : o.rev >= r}
OperationsAfterNext(r) == {o \in log : o.rev > r + 1}

\* getOperationsSince: the sorted set's members with a score above r.
OperationsSince(r) == {o \in log : o.rev > r}

\* A handler: what it has read so far, and where it is.
IdleHandler == [pc |-> "idle", base |-> 0, start |-> 0, seen |-> {}, rev |-> 0, text |-> <<>>]
InFlight == {c \in Clients : send[c].pc # "idle"}

\* Committed, and the handler has not yet sent it to the room.
Committing == {c \in Clients : send[c].pc \in {"committed", "content read", "content written"}}

Init ==
  /\ revision = 0
  /\ log = {}
  /\ snapshot = NoSnapshot
  /\ content = <<>>
  /\ send = [c \in Clients |-> IdleHandler]
  /\ jobs = {}
  /\ phase = [c \in Clients |-> "live"]
  /\ cursor = [c \in Clients |-> 0]
  /\ received = [c \in Clients |-> {}]
  /\ history = {}
  /\ unannounced = {}
  /\ disconnects = 0
  /\ failures = 0

-----------------------------------------------------------------------------
(***************************************************************************)
(* SendOperation                                                           *)
(***************************************************************************)

\* A live client sends an operation made on a revision it has seen; the access
\* check passes and getCurrentRevision answers.
SendOperation(c, base) ==
  /\ phase[c] = "live"
  /\ send[c].pc = "idle"
  /\ Cardinality(InFlight) < MaxInFlight
  /\ revision + Cardinality(InFlight) < MaxRevision
  /\ Complete(c, base) /\ revision <= base + MaxLag
  /\ send' = [send EXCEPT ![c] = [IdleHandler EXCEPT !.pc = "started", !.base = base,
                                                     !.start = revision]]
  /\ UNCHANGED <<redis, jobs, clients, history, unannounced, disconnects, failures>>

\* getOperationsSince, then the transformation loop over what it returned.
TransformAgainstLog(c) ==
  /\ send[c].pc = "started"
  /\ send' = [send EXCEPT ![c].pc = "transformed",
                          ![c].seen = Revisions(OperationsSince(send[c].base))]
  /\ UNCHANGED <<redis, jobs, clients, history, unannounced, disconnects, failures>>

\* Slip: the number is the one read at the start plus one, not an INCR.
AppendAtReadRevision(c) ==
  LET rev == send[c].start + 1
      op  == [rev |-> rev, client |-> c, base |-> send[c].base,
              start |-> send[c].start, against |-> send[c].seen]
  IN  /\ send[c].pc = "transformed"
      /\ revision' = rev
      /\ log' = log \union {op}
      /\ history' = history \union {op}
      /\ send' = [send EXCEPT ![c].pc = "committed", ![c].rev = rev]
      /\ UNCHANGED <<snapshot, content, jobs, clients, unannounced, disconnects, failures>>

\* appendOperationAtomically: INCR and ZADD in one script.
AppendAtomically(c) ==
  LET op == [rev |-> revision + 1, client |-> c, base |-> send[c].base,
             start |-> send[c].start, against |-> send[c].seen]
  IN  /\ send[c].pc = "transformed"
      /\ revision' = revision + 1
      /\ log' = log \union {op}
      /\ history' = history \union {op}
      /\ send' = [send EXCEPT ![c].pc = "committed", ![c].rev = revision + 1]
      /\ UNCHANGED <<snapshot, content, jobs, clients, unannounced, disconnects, failures>>

\* Slip: the text is read from the snapshot.
GetSnapshotAsContent(c) ==
  /\ send[c].pc = "committed"
  /\ send' = [send EXCEPT ![c].pc = "content read", ![c].text = snapshot]
  /\ UNCHANGED <<redis, jobs, clients, history, unannounced, disconnects, failures>>

GetContent(c) ==
  /\ send[c].pc = "committed"
  /\ send' = [send EXCEPT ![c].pc = "content read", ![c].text = content]
  /\ UNCHANGED <<redis, jobs, clients, history, unannounced, disconnects, failures>>

\* Slip: the text is written back as it was read.
SetContentAsRead(c) ==
  /\ send[c].pc = "content read"
  /\ content' = send[c].text
  /\ send' = [send EXCEPT ![c].pc = "content written", ![c].text = Append(@, send[c].rev)]
  /\ UNCHANGED <<revision, log, snapshot, jobs, clients, history, unannounced, disconnects, failures>>

\* applyOperation on what was read, then setContent.
SetContent(c) ==
  LET updated == Append(send[c].text, send[c].rev)
  IN  /\ send[c].pc = "content read"
      /\ content' = updated
      /\ send' = [send EXCEPT ![c].pc = "content written", ![c].text = updated]
      /\ UNCHANGED <<revision, log, snapshot, jobs, clients, history, unannounced, disconnects, failures>>

\* Slip: a client is in the room only once it has caught up.
JoinedWhenLive(c) == phase[c] = "live"

Joined(c) == phase[c] # "offline"

\* Slip: the sender is left out of the broadcast.
BroadcastToOthers(c) ==
  /\ send[c].pc = "content written"
  /\ received' = [d \in Clients |-> IF Joined(d) /\ d # c THEN received[d] \union {send[c].rev}
                                                          ELSE received[d]]
  /\ send' = [send EXCEPT ![c] = IdleHandler]
  /\ UNCHANGED <<redis, jobs, phase, cursor, history, unannounced, disconnects, failures>>

\* The synchronous tail: start a compaction if one is due, then ReceiveOperation
\* to everybody in the room, the sender included.
Broadcast(c) ==
  LET rev == send[c].rev
  IN  /\ send[c].pc = "content written"
      /\ IF rev % SnapshotEvery = 0
           THEN /\ \A job \in jobs : rev <= job.rev + MaxJobLag
                /\ jobs' = jobs \union {[rev |-> rev, text |-> send[c].text, pc |-> "save"]}
           ELSE UNCHANGED jobs
      /\ received' = [d \in Clients |-> IF Joined(d) THEN received[d] \union {rev}
                                                     ELSE received[d]]
      /\ send' = [send EXCEPT ![c] = IdleHandler]
      /\ UNCHANGED <<redis, phase, cursor, history, unannounced, disconnects, failures>>

\* Any awaited call throws: the handler ends in its catch and emits Error.
FailSend(c) ==
  /\ send[c].pc # "idle" /\ send[c].pc # "content written"
  /\ failures < MaxFailures
  /\ failures' = failures + 1
  /\ unannounced' = IF c \in Committing THEN unannounced \union {send[c].rev} ELSE unannounced
  /\ send' = [send EXCEPT ![c] = IdleHandler]
  /\ UNCHANGED <<redis, jobs, clients, history, disconnects>>

-----------------------------------------------------------------------------
(***************************************************************************)
(* Log compaction, not awaited by the handler that starts it               *)
(***************************************************************************)

SaveSnapshot(job) ==
  /\ job.pc = "save"
  /\ snapshot' = [revision |-> job.rev, text |-> job.text]
  /\ jobs' = IF job.rev - KeepRevisions > 0
               THEN (jobs \ {job}) \union {[job EXCEPT !.pc = "prune"]}
               ELSE jobs \ {job}
  /\ UNCHANGED <<revision, log, content, send, clients, history, unannounced, disconnects, failures>>

\* Slips: one revision too many is pruned; everything before the snapshot is; the
\* newer side is.
PruneOneMore(job) ==
  /\ job.pc = "prune"
  /\ log' = {o \in log : o.rev > job.rev - KeepRevisions}
  /\ jobs' = jobs \ {job}
  /\ UNCHANGED <<revision, snapshot, content, send, clients, history, unannounced, disconnects, failures>>

PruneUpToSnapshot(job) ==
  /\ job.pc = "prune"
  /\ log' = {o \in log : o.rev >= job.rev}
  /\ jobs' = jobs \ {job}
  /\ UNCHANGED <<revision, snapshot, content, send, clients, history, unannounced, disconnects, failures>>

PruneNewer(job) ==
  /\ job.pc = "prune"
  /\ log' = {o \in log : o.rev <= job.rev - KeepRevisions}
  /\ jobs' = jobs \ {job}
  /\ UNCHANGED <<revision, snapshot, content, send, clients, history, unannounced, disconnects, failures>>

PruneOperationsOlderThan(job) ==
  /\ job.pc = "prune"
  /\ log' = {o \in log : o.rev >= job.rev - KeepRevisions}
  /\ jobs' = jobs \ {job}
  /\ UNCHANGED <<revision, snapshot, content, send, clients, history, unannounced, disconnects, failures>>

\* Either call throws: the compaction is given up with a warning.
FailCompaction(job) ==
  /\ failures < MaxFailures
  /\ failures' = failures + 1
  /\ jobs' = jobs \ {job}
  /\ UNCHANGED <<redis, send, clients, history, unannounced, disconnects>>

-----------------------------------------------------------------------------
(***************************************************************************)
(* Losing the connection and catching up.  The room stays open: its other  *)
(* members are in it.                                                      *)
(***************************************************************************)

\* Handlers already running for the socket run on.
Disconnect(c) ==
  /\ Joined(c)
  /\ disconnects < MaxDisconnects
  /\ disconnects' = disconnects + 1
  /\ phase' = [phase EXCEPT ![c] = "offline"]
  /\ UNCHANGED <<redis, send, jobs, cursor, received, history, unannounced, failures>>

\* A new socket joins the room before it asks what it has missed.
Rejoin(c) ==
  /\ phase[c] = "offline"
  /\ phase' = [phase EXCEPT ![c] = "joined"]
  /\ UNCHANGED <<redis, send, jobs, cursor, received, history, unannounced, disconnects, failures>>

\* getOperationsSince(fromRevision) and one ReceiveOperation for each.  What
\* precedes the operations it is sent the client takes for pruned.
SendMissed(c, fromRevision) ==
  LET missed == Revisions(OperationsSince(fromRevision))
  IN  /\ phase[c] = "joined"
      /\ Complete(c, fromRevision)
      /\ phase' = [phase EXCEPT ![c] = "catching up"]
      /\ received' = [received EXCEPT ![c] = @ \union missed]
      /\ \E r \in missed \union {fromRevision} :
           /\ \A q \in missed : q <= r
           /\ cursor' = [cursor EXCEPT ![c] = r]
      /\ UNCHANGED <<redis, send, jobs, history, unannounced, disconnects, failures>>

\* getCurrentRevision, read after the operations, and ResyncComplete.  The client
\* modelled here counts on what it received, not on the revision announced.
ResyncComplete(c) ==
  /\ phase[c] = "catching up"
  /\ phase' = [phase EXCEPT ![c] = "live"]
  /\ UNCHANGED <<redis, send, jobs, cursor, received, history, unannounced, disconnects, failures>>

-----------------------------------------------------------------------------

HandlerStep(c) ==
  \/ TransformAgainstLog(c)
  \/ AppendAtomically(c)
  \/ GetContent(c)
  \/ SetContent(c)
  \/ Broadcast(c)

CatchUp(c) ==
  \/ Rejoin(c)
  \/ \E from \in 0..revision : SendMissed(c, from)
  \/ ResyncComplete(c)

Compaction == \E job \in jobs : SaveSnapshot(job) \/ PruneOperationsOlderThan(job)

Next ==
  \/ \E c \in Clients :
       \/ \E base \in 0..revision : SendOperation(c, base)
       \/ HandlerStep(c)
       \/ FailSend(c)
       \/ Disconnect(c)
       \/ CatchUp(c)
  \/ Compaction
  \/ \E job \in jobs : FailCompaction(job)

Spec == Init /\ [][Next]_vars

\* Node's event loop resumes every awaiting handler once Redis has answered, and
\* a client that lost its connection comes back.
Fairness ==
  /\ \A c \in Clients : WF_vars(HandlerStep(c)) /\ WF_vars(CatchUp(c))
  /\ WF_vars(Compaction)

FairSpec == Spec /\ Fairness

-----------------------------------------------------------------------------
(***************************************************************************)
(* Properties                                                              *)
(***************************************************************************)

Handler == [pc : {"idle", "started", "transformed", "committed", "content read", "content written"},
            base : Nat, start : Nat, seen : SUBSET Nat, rev : Nat, text : Seq(Nat)]
Committed == [rev : Nat \ {0}, client : Clients, base : Nat, start : Nat, against : SUBSET Nat]
Job == [rev : Nat, text : Seq(Nat), pc : {"save", "prune"}]
Phases == {"live", "offline", "joined", "catching up"}

TypeOK ==
  /\ revision \in Nat
  /\ log \subseteq Committed /\ history \subseteq Committed
  /\ snapshot \in {NoSnapshot} \union [revision : Nat, text : Seq(Nat)]
  /\ content \in Seq(Nat)
  /\ send \in [Clients -> Handler]
  /\ jobs \subseteq Job
  /\ phase \in [Clients -> Phases]
  /\ cursor \in [Clients -> Nat]
  /\ received \in [Clients -> SUBSET Nat]
  /\ unannounced \subseteq Nat
  /\ disconnects \in Nat /\ failures \in Nat

\* Whatever interleaves and fails, the committed operations are numbered 1, 2, 3,
\* ... without a gap and without a number given twice: the INCR and the ZADD of
\* appendOperationAtomically are one step (operationLog.ts:60-91).
RevisionsGapless ==
  /\ Revisions(history) = 1..revision
  /\ \A o, p \in history : o.rev = p.rev => o = p

\* Pruning, run late and out of order by compactions nobody waits for, never
\* reaches an operation within KeepRevisions of the current revision: a client
\* that is no further behind finds all it missed (editorHub.ts:462-477).
RecentRetained ==
  \A o \in history : o.rev + KeepRevisions >= revision => o \in log

\* What the resolver promises its callers: an operation is committed having been
\* transformed against exactly the operations between the revision it was made on
\* and its own (editorHub.ts:442-450).
TransformComplete ==
  \A o \in history : o.against = (o.base + 1)..(o.rev - 1)

\* How far the code gets with several handlers at once: nothing that was
\* committed before the handler started is skipped as long as the client is not
\* behind what the log keeps, and nothing is transformed against twice over,
\* against itself or against something its client had already seen.
TransformedAgainstSeen ==
  \A o \in history :
    /\ o.against \subseteq (o.base + 1)..(o.rev - 1)
    /\ o.rev <= o.base + KeepRevisions + 1 => (o.base + 1)..o.start \subseteq o.against

\* The hot content is the result of every committed operation, in revision order,
\* once no handler is between its commit and its write (editorHub.ts:450-454).
HotContentCurrent == Committing = {} => content = [i \in 1..revision |-> i]

\* A snapshot is the document at the revision it names, although it is stored
\* long after and in any order with later ones (editorHub.ts:462-464).
SnapshotFaithful ==
  snapshot # NoSnapshot => snapshot.text = [i \in 1..snapshot.revision |-> i]

\* Such a snapshot and the retained log together still hold the whole
\* document: no revision above the snapshot's has been pruned, even when the
\* compactions of several revisions overlap and finish in the wrong order
\* (editorHub.ts:461-477, operationLog.ts:156-169, 187-197).
SnapshotMeetsLog ==
  /\ SnapshotFaithful
  /\ \/ snapshot = NoSnapshot /\ log = history
     \/ snapshot # NoSnapshot /\ \A o \in history : o.rev > snapshot.revision => o \in log

\* Nothing falls between a rejoin, the read of the missed operations and the read
\* of the revision: what a live client was not sent is about to be broadcast, was
\* pruned, or belongs to a handler that failed after its commit
\* (editorHub.ts:480-483, 511-522).
ResyncLeavesNoHole ==
  \A c \in Clients : phase[c] = "live" =>
    \A o \in history :
      \/ o.rev \in received[c]
      \/ \E d \in Committing : send[d].rev = o.rev
      \/ o \notin log
      \/ o.rev \in unannounced

\* Every SendOperation handler comes to its end (editorHub.ts:404-484).
HandlersEnd == \A c \in Clients : (send[c].pc # "idle") ~> (send[c].pc = "idle")

\* Every operation that is committed reaches every client, one that was offline
\* included, unless it has been pruned meanwhile (editorHub.ts:479, 511-519); and
\* no handler stops on its way there.
EveryOperationArrives ==
  /\ HandlersEnd
  /\ \A c \in Clients, r \in 1..MaxRevision :
       (r <= revision) ~> (r \in received[c] \/ r \notin Revisions(log))

\* The three Redis keys, the handlers and the compactions together keep what
\* OrderedLog promises (operationLog.ts:60-91, 187-197, editorHub.ts:461-477).
Promised == INSTANCE OrderedLog WITH head <- revision, retained <- Revisions(log)

ImplementsOrderedLog == Promised!Spec
=============================================================================
