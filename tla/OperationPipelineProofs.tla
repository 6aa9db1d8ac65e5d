------------------------ MODULE OperationPipelineProofs ------------------------
(***************************************************************************)
(* What holds of the operation log for every number of clients, every      *)
(* snapshot interval and every number of revisions kept: the proofs of the *)
(* safety properties of OperationPipeline that concern the log.            *)
(***************************************************************************)
EXTENDS OperationPipeline, FiniteSetTheorems, SequenceTheorems, TLAPS

\* No compaction and no handler is ahead of the counter.
NobodyAhead ==
  /\ \A job \in jobs : job.rev <= revision
  /\ \A c \in Clients : send[c].rev <= revision
  /\ \A c \in Clients : send[c].pc = "started" => send[c].start <= revision

\* What a handler about to append has transformed its operation against.
SeenSoFar ==
  \A c \in Clients : send[c].pc = "transformed" =>
    /\ send[c].start <= revision
    /\ send[c].seen \subseteq (send[c].base + 1)..revision
    /\ revision <= send[c].base + KeepRevisions =>
         (send[c].base + 1)..send[c].start \subseteq send[c].seen

IInv ==
  /\ TypeOK
  /\ log \subseteq history
  /\ RevisionsGapless
  /\ NobodyAhead
  /\ RecentRetained
  /\ SeenSoFar
  /\ TransformedAgainstSeen

-----------------------------------------------------------------------------
(***************************************************************************)
(* Types                                                                   *)
(***************************************************************************)

LEMMA IdleHandlerType == IdleHandler \in Handler
  BY DEF IdleHandler, Handler

LEMMA HandlerFields ==
  ASSUME NEW h \in Handler
  PROVE  /\ h.base \in Nat /\ h.start \in Nat /\ h.rev \in Nat
         /\ h.seen \in SUBSET Nat /\ h.text \in Seq(Nat)
  BY DEF Handler

LEMMA SinceType ==
  ASSUME TypeOK, NEW r \in Nat
  PROVE  Revisions(OperationsSince(r)) \in SUBSET Nat
  BY DEF TypeOK, Revisions, OperationsSince, Committed

LEMMA InitType == Init => TypeOK
  <1> SUFFICES ASSUME Init PROVE TypeOK
    OBVIOUS
  <1>1. send \in [Clients -> Handler]
    BY IdleHandlerType DEF Init
  <1> QED
    BY <1>1 DEF Init, TypeOK, Phases

LEMMA NextType ==
  ASSUME TypeOK, [Next]_vars
  PROVE  TypeOK'
  <1> USE PipelineAssumption
  <1>1. ASSUME NEW c \in Clients, NEW base \in 0..revision, SendOperation(c, base)
        PROVE  TypeOK'
    <2>1. [IdleHandler EXCEPT !.pc = "started", !.base = base, !.start = revision] \in Handler
      <3>1. base \in Nat /\ revision \in Nat
        BY DEF TypeOK
      <3> QED
        BY ONLY <3>1, IdleHandlerType DEF Handler
    <2>2. send' \in [Clients -> Handler]
      BY <1>1, <2>1 DEF TypeOK, SendOperation
    <2> QED
      BY <1>1, <2>2 DEF TypeOK, SendOperation, redis, clients
  <1>2. ASSUME NEW c \in Clients, TransformAgainstLog(c)
        PROVE  TypeOK'
    <2> DEFINE seen == Revisions(OperationsSince(send[c].base))
    <2> HIDE DEF seen
    <2>1. send[c] \in Handler
      BY DEF TypeOK
    <2>2. seen \in SUBSET Nat
      BY <2>1, HandlerFields, SinceType DEF seen
    <2>3. [send[c] EXCEPT !.pc = "transformed", !.seen = seen] \in Handler
      BY ONLY <2>1, <2>2 DEF Handler
    <2>4. send' = [send EXCEPT ![c] = [send[c] EXCEPT !.pc = "transformed", !.seen = seen]]
      BY <1>2 DEF TransformAgainstLog, seen
    <2>5. send' \in [Clients -> Handler]
      BY <2>3, <2>4 DEF TypeOK
    <2> QED
      BY <1>2, <2>5 DEF TypeOK, TransformAgainstLog, redis, clients
  <1>3. ASSUME NEW c \in Clients, AppendAtomically(c)
        PROVE  TypeOK'
    <2> DEFINE op == [rev |-> revision + 1, client |-> c, base |-> send[c].base,
                      start |-> send[c].start, against |-> send[c].seen]
    <2>1. send[c] \in Handler /\ revision \in Nat /\ revision + 1 \in Nat \ {0}
      BY DEF TypeOK
    <2>2. op \in Committed
      BY <2>1, HandlerFields DEF Committed
    <2>3. log' = log \union {op} /\ history' = history \union {op}
      BY <1>3 DEF AppendAtomically
    <2>4. log' \subseteq Committed /\ history' \subseteq Committed
      BY <2>2, <2>3 DEF TypeOK
    <2>5. [send[c] EXCEPT !.pc = "committed", !.rev = revision + 1] \in Handler
      BY ONLY <2>1 DEF Handler
    <2>6. send' = [send EXCEPT ![c] = [send[c] EXCEPT !.pc = "committed", !.rev = revision + 1]]
      BY <1>3 DEF AppendAtomically
    <2>7. send' \in [Clients -> Handler] /\ revision' \in Nat
      BY <1>3, <2>1, <2>5, <2>6 DEF TypeOK, AppendAtomically
    <2> QED
      BY <1>3, <2>4, <2>7 DEF TypeOK, AppendAtomically, clients
  <1>4. ASSUME NEW c \in Clients, GetContent(c)
        PROVE  TypeOK'
    <2>1. send[c] \in Handler /\ content \in Seq(Nat)
      BY DEF TypeOK
    <2>2. [send[c] EXCEPT !.pc = "content read", !.text = content] \in Handler
      BY ONLY <2>1 DEF Handler
    <2>3. send' = [send EXCEPT ![c] = [send[c] EXCEPT !.pc = "content read", !.text = content]]
      BY <1>4 DEF GetContent
    <2>4. send' \in [Clients -> Handler]
      BY <2>2, <2>3 DEF TypeOK
    <2> QED
      BY <1>4, <2>4 DEF TypeOK, GetContent, redis, clients
  <1>5. ASSUME NEW c \in Clients, SetContent(c)
        PROVE  TypeOK'
    <2> DEFINE updated == Append(send[c].text, send[c].rev)
    <2>1. send[c] \in Handler
      BY DEF TypeOK
    <2>2. updated \in Seq(Nat)
      <3>1. send[c].text \in Seq(Nat) /\ send[c].rev \in Nat
        BY <2>1, HandlerFields
      <3> QED
        BY ONLY <3>1
    <2>3. content' = updated
          /\ send' = [send EXCEPT ![c] = [send[c] EXCEPT !.pc = "content written", !.text = updated]]
      BY <1>5 DEF SetContent
    <2> HIDE DEF updated
    <2>4. [send[c] EXCEPT !.pc = "content written", !.text = updated] \in Handler
      BY ONLY <2>1, <2>2 DEF Handler
    <2>5. send' \in [Clients -> Handler] /\ content' \in Seq(Nat)
      BY <2>2, <2>3, <2>4 DEF TypeOK
    <2> QED
      BY <1>5, <2>5 DEF TypeOK, SetContent, clients
  <1>6. ASSUME NEW c \in Clients, Broadcast(c)
        PROVE  TypeOK'
    <2> DEFINE job == [rev |-> send[c].rev, text |-> send[c].text, pc |-> "save"]
    <2>0. send[c].rev \in Nat /\ send[c].text \in Seq(Nat)
      BY HandlerFields DEF TypeOK
    <2>1. jobs' \subseteq Job
      <3>1. job \in Job
        BY ONLY <2>0 DEF Job
      <3>2. jobs' = jobs \union {job} \/ jobs' = jobs
        BY <1>6 DEF Broadcast
      <3> HIDE DEF job
      <3> QED
        BY <3>1, <3>2 DEF TypeOK
    <2>2. received' \in [Clients -> SUBSET Nat]
      BY <1>6, <2>0 DEF TypeOK, Broadcast
    <2>3. send' \in [Clients -> Handler]
      BY <1>6, IdleHandlerType DEF TypeOK, Broadcast
    <2> QED
      BY <1>6, <2>1, <2>2, <2>3 DEF TypeOK, Broadcast, redis
  <1>7. ASSUME NEW c \in Clients, FailSend(c)
        PROVE  TypeOK'
    <2>1. send' \in [Clients -> Handler]
      BY <1>7, IdleHandlerType DEF TypeOK, FailSend
    <2>2. failures' \in Nat
      <3>1. failures \in Nat /\ failures' = failures + 1
        BY <1>7 DEF TypeOK, FailSend
      <3> QED
        BY ONLY <3>1
    <2>3. UNCHANGED <<redis, jobs, clients, history, disconnects>>
      BY <1>7 DEF FailSend
    <2>4. unannounced' \subseteq Nat
      BY <1>7, HandlerFields DEF TypeOK, FailSend
    <2> QED
      BY <2>1, <2>2, <2>3, <2>4 DEF TypeOK, redis, clients
  <1>8. ASSUME NEW c \in Clients, Disconnect(c)
        PROVE  TypeOK'
    <2>1. disconnects' \in Nat
      <3>1. disconnects \in Nat /\ disconnects' = disconnects + 1
        BY <1>8 DEF TypeOK, Disconnect
      <3> QED
        BY ONLY <3>1
    <2>2. phase' \in [Clients -> Phases]
      BY <1>8 DEF TypeOK, Disconnect, Phases
    <2>3. UNCHANGED <<redis, send, jobs, cursor, received, history, unannounced, failures>>
      BY <1>8 DEF Disconnect
    <2> QED
      BY <2>1, <2>2, <2>3 DEF TypeOK, redis
  <1>9. ASSUME NEW c \in Clients, CatchUp(c)
        PROVE  TypeOK'
    <2>1. CASE Rejoin(c)
      BY <2>1 DEF TypeOK, Rejoin, redis, Phases
    <2>2. ASSUME NEW from \in 0..revision, SendMissed(c, from)
          PROVE  TypeOK'
      <3>1. from \in Nat /\ Revisions(OperationsSince(from)) \in SUBSET Nat
        BY SinceType, SMTT(30) DEF TypeOK
      <3>2. received' \in [Clients -> SUBSET Nat]
        BY <2>2, <3>1 DEF TypeOK, SendMissed
      <3>3. PICK r \in Nat : cursor' = [cursor EXCEPT ![c] = r]
        BY <2>2, <3>1 DEF SendMissed
      <3>4. cursor' \in [Clients -> Nat]
        BY <3>3 DEF TypeOK
      <3>5. phase' \in [Clients -> Phases]
        BY <2>2 DEF TypeOK, SendMissed, Phases
      <3> QED
        BY <2>2, <3>2, <3>4, <3>5 DEF TypeOK, SendMissed, redis
    <2>3. CASE ResyncComplete(c)
      BY <2>3 DEF TypeOK, ResyncComplete, redis, Phases
    <2> QED
      BY <1>9, <2>1, <2>2, <2>3 DEF CatchUp
  <1>10. ASSUME NEW job \in jobs, SaveSnapshot(job)
         PROVE  TypeOK'
    <2>1. job \in Job
      BY DEF TypeOK
    <2>2. [job EXCEPT !.pc = "prune"] \in Job
      BY <2>1 DEF Job
    <2>3. jobs' \subseteq Job
      BY <1>10, <2>2 DEF TypeOK, SaveSnapshot
    <2>4. snapshot' \in [revision : Nat, text : Seq(Nat)]
      BY <1>10, <2>1 DEF SaveSnapshot, Job
    <2> QED
      BY <1>10, <2>3, <2>4 DEF TypeOK, SaveSnapshot, clients
  <1>11. ASSUME NEW job \in jobs, PruneOperationsOlderThan(job)
         PROVE  TypeOK'
    BY <1>11 DEF TypeOK, PruneOperationsOlderThan, clients
  <1>12. ASSUME NEW job \in jobs, FailCompaction(job)
         PROVE  TypeOK'
    BY <1>12 DEF TypeOK, FailCompaction, redis, clients
  <1>13. CASE UNCHANGED vars
    BY <1>13 DEF TypeOK, vars, redis, clients
  <1> QED
    BY <1>1, <1>2, <1>3, <1>4, <1>5, <1>6, <1>7, <1>8, <1>9, <1>10, <1>11, <1>12, <1>13
    DEF Next, HandlerStep, Compaction

\* The log, the handlers, the compactions and the clients keep their shapes.
THEOREM TypeCorrect == Spec => []TypeOK
  BY InitType, NextType, PTL DEF Spec

-----------------------------------------------------------------------------
(***************************************************************************)
(* The log                                                                 *)
(***************************************************************************)

\* The part of the invariant that speaks of the log alone.
LogInv ==
  /\ log \subseteq history
  /\ RevisionsGapless
  /\ RecentRetained
  /\ TransformedAgainstSeen

\* The part that speaks of the handlers and the compactions.
HandlerInv == NobodyAhead /\ SeenSoFar

LEMMA IInvParts == IInv <=> TypeOK /\ LogInv /\ HandlerInv
  BY DEF IInv, LogInv, HandlerInv

LEMMA CommittedFields ==
  ASSUME NEW o \in Committed
  PROVE  /\ o.rev \in Nat \ {0} /\ o.base \in Nat /\ o.start \in Nat
         /\ o.against \in SUBSET Nat
  BY DEF Committed

LEMMA LogUntouched ==
  ASSUME LogInv, UNCHANGED <<revision, log, history>>
  PROVE  LogInv'
  BY DEF LogInv, RevisionsGapless, RecentRetained, TransformedAgainstSeen, Revisions

\* A handler that leaves the counter and the compactions alone, and comes to
\* nothing the invariant speaks of.
LEMMA HandlerMoved ==
  ASSUME HandlerInv, UNCHANGED <<revision, jobs>>,
         NEW c \in Clients, NEW h,
         send' = [send EXCEPT ![c] = h], send \in [Clients -> Handler],
         h.rev <= revision, h.pc # "started", h.pc # "transformed"
  PROVE  HandlerInv'
  <1>1. \A d \in Clients : send'[d] = IF d = c THEN h ELSE send[d]
    OBVIOUS
  <1>2. NobodyAhead'
    BY <1>1 DEF HandlerInv, NobodyAhead
  <1>3. SeenSoFar'
    BY <1>1 DEF HandlerInv, SeenSoFar
  <1> QED
    BY <1>2, <1>3 DEF HandlerInv

LEMMA HandlersUntouched ==
  ASSUME HandlerInv, UNCHANGED <<revision, jobs, send>>
  PROVE  HandlerInv'
  BY DEF HandlerInv, NobodyAhead, SeenSoFar

\* What getOperationsSince returns to a handler on its way.
LEMMA SeenWhenTransformed ==
  ASSUME TypeOK, LogInv, NEW b \in Nat, NEW s \in Nat, s <= revision
  PROVE  LET seen == Revisions(OperationsSince(b))
         IN  /\ seen \subseteq (b + 1)..revision
             /\ revision <= b + KeepRevisions => (b + 1)..s \subseteq seen
  <1> DEFINE seen == Revisions(OperationsSince(b))
  <1>1. revision \in Nat /\ KeepRevisions \in Nat
    BY PipelineAssumption DEF TypeOK
  <1>2. ASSUME NEW r \in seen
        PROVE  r \in (b + 1)..revision
    <2>1. PICK o \in log : o.rev > b /\ r = o.rev
      BY DEF Revisions, OperationsSince
    <2>2. o \in history /\ o.rev \in Nat
      BY CommittedFields DEF TypeOK, LogInv
    <2>3. o.rev \in 1..revision
      BY <2>2 DEF LogInv, RevisionsGapless, Revisions
    <2> QED
      BY <1>1, <2>1, <2>2, <2>3
  <1>3. ASSUME revision <= b + KeepRevisions, NEW r \in (b + 1)..s
        PROVE  r \in seen
    <2>1. r \in 1..revision
      BY <1>1
    <2>2. PICK o \in history : o.rev = r
      BY <2>1 DEF LogInv, RevisionsGapless, Revisions
    <2>3. o.rev + KeepRevisions >= revision
      BY <1>1, <1>3, <2>2
    <2>4. o \in log
      BY <2>3 DEF LogInv, RecentRetained
    <2>5. o.rev > b
      BY <2>2
    <2> QED
      BY <2>2, <2>4, <2>5 DEF Revisions, OperationsSince
  <1> QED
    BY <1>2, <1>3

\* An append takes the next number, whatever the handlers do meanwhile.
LEMMA AppendKeeps ==
  ASSUME IInv, NEW c \in Clients, AppendAtomically(c)
  PROVE  LogInv' /\ HandlerInv'
  <1> DEFINE op == [rev |-> revision + 1, client |-> c, base |-> send[c].base,
                    start |-> send[c].start, against |-> send[c].seen]
  <1>1. /\ send[c].pc = "transformed"
        /\ revision' = revision + 1
        /\ log' = log \union {op}
        /\ history' = history \union {op}
        /\ send' = [send EXCEPT ![c] = [send[c] EXCEPT !.pc = "committed", !.rev = revision + 1]]
        /\ jobs' = jobs
    BY DEF AppendAtomically
  <1>2. /\ revision \in Nat /\ KeepRevisions \in Nat
        /\ send \in [Clients -> Handler] /\ send[c] \in Handler
        /\ history \subseteq Committed
    BY PipelineAssumption DEF IInv, TypeOK
  <1>3. op.rev = revision + 1 /\ op.base = send[c].base /\ op.start = send[c].start
        /\ op.against = send[c].seen
    OBVIOUS
  <1>4. /\ send[c].base \in Nat /\ send[c].start \in Nat /\ send[c].start <= revision
        /\ send[c].seen \subseteq (send[c].base + 1)..revision
        /\ revision <= send[c].base + KeepRevisions =>
             (send[c].base + 1)..send[c].start \subseteq send[c].seen
    BY <1>1, <1>2, HandlerFields DEF IInv, SeenSoFar
  <1> HIDE DEF op
  <1>5. \A o \in history : o.rev \in Nat /\ o.rev <= revision
    <2> SUFFICES ASSUME NEW o \in history PROVE o.rev \in Nat /\ o.rev <= revision
      OBVIOUS
    <2>1. o.rev \in 1..revision
      BY DEF IInv, RevisionsGapless, Revisions
    <2> QED
      BY <1>2, <2>1
  <1>6. (log \subseteq history)'
    BY <1>1 DEF IInv
  <1>7. RevisionsGapless'
    <2>1. Revisions(history)' = Revisions(history) \union {revision + 1}
      BY <1>1, <1>3 DEF Revisions
    <2>2. Revisions(history) = 1..revision
      BY DEF IInv, RevisionsGapless
    <2>3. 1..(revision + 1) = (1..revision) \union {revision + 1}
      BY <1>2
    <2>4. Revisions(history)' = 1..revision'
      BY <1>1, <2>1, <2>2, <2>3
    <2>5. ASSUME NEW o \in history', NEW p \in history', o.rev = p.rev
          PROVE  o = p
      <3>1. CASE o \in history /\ p \in history
        BY <2>5, <3>1 DEF IInv, RevisionsGapless
      <3>2. CASE o = op /\ p = op
        BY <3>2
      <3>3. ASSUME NEW q \in history PROVE q.rev # op.rev
        BY <1>2, <1>3, <1>5
      <3> QED
        BY <1>1, <2>5, <3>1, <3>2, <3>3
    <2> QED
      BY <2>4, <2>5 DEF RevisionsGapless
  <1>8. RecentRetained'
    <2> SUFFICES ASSUME NEW o \in history', o.rev + KeepRevisions >= revision'
                 PROVE  o \in log'
      BY DEF RecentRetained
    <2>1. CASE o \in history
      <3>1. o.rev + KeepRevisions >= revision
        BY <1>1, <1>2, <1>5, <2>1
      <3> QED
        BY <1>1, <2>1, <3>1 DEF IInv, RecentRetained
    <2>2. CASE o = op
      BY <1>1, <2>2
    <2> QED
      BY <1>1, <2>1, <2>2
  <1>9. TransformedAgainstSeen'
    <2> SUFFICES ASSUME NEW o \in history'
                 PROVE  /\ o.against \subseteq (o.base + 1)..(o.rev - 1)
                        /\ o.rev <= o.base + KeepRevisions + 1 =>
                             (o.base + 1)..o.start \subseteq o.against
      BY DEF TransformedAgainstSeen
    <2>1. CASE o \in history
      BY <2>1 DEF IInv, TransformedAgainstSeen
    <2>2. CASE o = op
      <3>1. o.rev - 1 = revision
        BY <1>2, <1>3, <2>2
      <3>2. o.rev <= o.base + KeepRevisions + 1 => revision <= send[c].base + KeepRevisions
        BY <1>2, <1>3, <1>4, <2>2
      <3> QED
        BY <1>3, <1>4, <2>2, <3>1, <3>2
    <2> QED
      BY <1>1, <2>1, <2>2
  <1>10. LogInv'
    BY <1>6, <1>7, <1>8, <1>9 DEF LogInv
  <1>11. NobodyAhead'
    <2>1. \A job \in jobs : job.rev \in Nat /\ job.rev <= revision
      BY DEF IInv, TypeOK, Job, NobodyAhead
    <2>2. \A d \in Clients : /\ send[d].rev \in Nat /\ send[d].rev <= revision
                             /\ send[d].start \in Nat
                             /\ send[d].pc = "started" => send[d].start <= revision
      BY <1>2, HandlerFields DEF IInv, NobodyAhead
    <2>3. \A d \in Clients : send'[d] = IF d = c
                               THEN [send[c] EXCEPT !.pc = "committed", !.rev = revision + 1]
                               ELSE send[d]
      BY <1>1, <1>2
    <2>4. LET h == [send[c] EXCEPT !.pc = "committed", !.rev = revision + 1]
          IN  h.pc = "committed" /\ h.rev = revision + 1
      BY ONLY <1>2 DEF Handler
    <2>5. \A job \in jobs' : job.rev <= revision'
      BY <1>1, <1>2, <2>1
    <2>6. \A d \in Clients : send'[d].rev <= revision'
      BY <1>1, <1>2, <2>2, <2>3, <2>4
    <2>7. \A d \in Clients : send'[d].pc = "started" => send'[d].start <= revision'
      BY <1>1, <1>2, <2>2, <2>3, <2>4
    <2> QED
      BY <2>5, <2>6, <2>7 DEF NobodyAhead
  <1>12. SeenSoFar'
    <2> SUFFICES ASSUME NEW d \in Clients, send'[d].pc = "transformed"
                 PROVE  /\ send'[d].start <= revision'
                        /\ send'[d].seen \subseteq (send'[d].base + 1)..revision'
                        /\ revision' <= send'[d].base + KeepRevisions =>
                             (send'[d].base + 1)..send'[d].start \subseteq send'[d].seen
      BY DEF SeenSoFar
    <2>1. [send[c] EXCEPT !.pc = "committed", !.rev = revision + 1].pc = "committed"
      BY ONLY <1>2 DEF Handler
    <2>2. d # c /\ send'[d] = send[d]
      BY <1>1, <1>2, <2>1
    <2>3. /\ send[d].base \in Nat /\ send[d].start \in Nat
          /\ send[d].start <= revision
          /\ send[d].seen \subseteq (send[d].base + 1)..revision
          /\ revision <= send[d].base + KeepRevisions =>
               (send[d].base + 1)..send[d].start \subseteq send[d].seen
      BY <1>2, <2>2, HandlerFields DEF IInv, SeenSoFar
    <2>4. (send[d].base + 1)..revision \subseteq (send[d].base + 1)..(revision + 1)
      BY <1>2, <2>3
    <2> QED
      BY <1>1, <1>2, <2>2, <2>3, <2>4
  <1> QED
    BY <1>10, <1>11, <1>12 DEF HandlerInv

\* A late compaction prunes nothing recent.
LEMMA PruneKeeps ==
  ASSUME IInv, NEW job \in jobs, PruneOperationsOlderThan(job)
  PROVE  LogInv' /\ HandlerInv'
  <1>1. /\ log' = {o \in log : o.rev >= job.rev - KeepRevisions}
        /\ jobs' = jobs \ {job}
        /\ UNCHANGED <<revision, history, send>>
    BY DEF PruneOperationsOlderThan
  <1>2. /\ revision \in Nat /\ KeepRevisions \in Nat /\ job.rev \in Nat
        /\ job.rev <= revision
    BY PipelineAssumption DEF IInv, TypeOK, Job, NobodyAhead
  <1>3. RecentRetained'
    <2> SUFFICES ASSUME NEW o \in history, o.rev + KeepRevisions >= revision
                 PROVE  o \in log'
      BY <1>1 DEF RecentRetained
    <2>1. o \in log /\ o.rev \in Nat
      BY CommittedFields DEF IInv, TypeOK, RecentRetained
    <2>2. o.rev >= job.rev - KeepRevisions
      BY <1>2, <2>1
    <2> QED
      BY <1>1, <2>1, <2>2
  <1>4. LogInv'
    BY <1>1, <1>3 DEF IInv, LogInv, RevisionsGapless, TransformedAgainstSeen, Revisions
  <1>5. HandlerInv'
    BY <1>1 DEF IInv, HandlerInv, NobodyAhead, SeenSoFar
  <1> QED
    BY <1>4, <1>5

\* A handler starts, knowing the revision it read.
LEMMA SendKeeps ==
  ASSUME IInv, NEW c \in Clients, NEW base \in 0..revision, SendOperation(c, base)
  PROVE  LogInv' /\ HandlerInv'
  <1> DEFINE h == [IdleHandler EXCEPT !.pc = "started", !.base = base, !.start = revision]
  <1>1. send' = [send EXCEPT ![c] = h] /\ UNCHANGED <<revision, log, history, jobs>>
    BY DEF SendOperation, redis
  <1>2. h.pc = "started" /\ h.start = revision /\ h.rev = 0
    BY DEF IdleHandler
  <1> HIDE DEF h
  <1>3. revision \in Nat /\ send \in [Clients -> Handler]
    BY DEF IInv, TypeOK
  <1>4. \A d \in Clients : send'[d] = IF d = c THEN h ELSE send[d]
    BY <1>1, <1>3
  <1>5. NobodyAhead'
    BY <1>1, <1>2, <1>3, <1>4 DEF IInv, NobodyAhead
  <1>6. SeenSoFar'
    BY <1>1, <1>2, <1>4 DEF IInv, SeenSoFar
  <1> QED
    BY <1>1, <1>5, <1>6, IInvParts, LogUntouched DEF HandlerInv

\* A handler reads the log and transforms its operation against what it got.
LEMMA TransformKeeps ==
  ASSUME IInv, NEW c \in Clients, TransformAgainstLog(c)
  PROVE  LogInv' /\ HandlerInv'
  <1> DEFINE seen == Revisions(OperationsSince(send[c].base))
             h == [send[c] EXCEPT !.pc = "transformed", !.seen = seen]
  <1> HIDE DEF seen
  <1>1. /\ send[c].pc = "started"
        /\ send' = [send EXCEPT ![c] = h]
        /\ UNCHANGED <<revision, log, history, jobs>>
    BY DEF TransformAgainstLog, redis, seen
  <1>2. revision \in Nat /\ send \in [Clients -> Handler] /\ send[c] \in Handler
    BY DEF IInv, TypeOK
  <1>3. send[c].base \in Nat /\ send[c].start \in Nat /\ send[c].start <= revision
        /\ send[c].rev <= revision
    BY <1>1, <1>2, HandlerFields DEF IInv, NobodyAhead
  <1>4. /\ h.pc = "transformed" /\ h.seen = seen /\ h.base = send[c].base
        /\ h.start = send[c].start /\ h.rev = send[c].rev
    BY ONLY <1>2 DEF Handler
  <1> HIDE DEF h
  <1>5. /\ seen \subseteq (send[c].base + 1)..revision
        /\ revision <= send[c].base + KeepRevisions =>
             (send[c].base + 1)..send[c].start \subseteq seen
    BY <1>3, IInvParts, SeenWhenTransformed DEF seen
  <1>6. \A d \in Clients : send'[d] = IF d = c THEN h ELSE send[d]
    BY <1>1, <1>2
  <1>7. NobodyAhead'
    BY <1>1, <1>3, <1>4, <1>6 DEF IInv, NobodyAhead
  <1>8. SeenSoFar'
    <2> SUFFICES ASSUME NEW d \in Clients, send'[d].pc = "transformed"
                 PROVE  /\ send'[d].start <= revision
                        /\ send'[d].seen \subseteq (send'[d].base + 1)..revision
                        /\ revision <= send'[d].base + KeepRevisions =>
                             (send'[d].base + 1)..send'[d].start \subseteq send'[d].seen
      BY <1>1 DEF SeenSoFar
    <2>1. CASE d = c
      BY <1>3, <1>4, <1>5, <1>6, <2>1
    <2>2. CASE d # c
      BY <1>6, <2>2 DEF IInv, SeenSoFar
    <2> QED
      BY <2>1, <2>2
  <1> QED
    BY <1>1, <1>7, <1>8, IInvParts, LogUntouched DEF HandlerInv

LEMMA GetContentKeeps ==
  ASSUME IInv, NEW c \in Clients, GetContent(c)
  PROVE  LogInv' /\ HandlerInv'
  <1> DEFINE h == [send[c] EXCEPT !.pc = "content read", !.text = content]
  <1>1. send' = [send EXCEPT ![c] = h] /\ UNCHANGED <<revision, log, history, jobs>>
    BY DEF GetContent, redis
  <1>2. send \in [Clients -> Handler] /\ send[c] \in Handler
    BY DEF IInv, TypeOK
  <1>3. h.pc = "content read" /\ h.rev = send[c].rev
    BY ONLY <1>2 DEF Handler
  <1> HIDE DEF h
  <1>4. h.rev <= revision /\ h.pc # "started" /\ h.pc # "transformed"
    BY <1>3 DEF IInv, NobodyAhead
  <1> QED
    BY <1>1, <1>2, <1>4, IInvParts, LogUntouched, HandlerMoved

LEMMA SetContentKeeps ==
  ASSUME IInv, NEW c \in Clients, SetContent(c)
  PROVE  LogInv' /\ HandlerInv'
  <1> DEFINE updated == Append(send[c].text, send[c].rev)
             h == [send[c] EXCEPT !.pc = "content written", !.text = updated]
  <1> HIDE DEF updated
  <1>1. send' = [send EXCEPT ![c] = h] /\ UNCHANGED <<revision, log, history, jobs>>
    BY DEF SetContent, updated
  <1>2. send \in [Clients -> Handler] /\ send[c] \in Handler
    BY DEF IInv, TypeOK
  <1>3. h.pc = "content written" /\ h.rev = send[c].rev
    BY ONLY <1>2 DEF Handler
  <1> HIDE DEF h
  <1>4. h.rev <= revision /\ h.pc # "started" /\ h.pc # "transformed"
    BY <1>3 DEF IInv, NobodyAhead
  <1> QED
    BY <1>1, <1>2, <1>4, IInvParts, LogUntouched, HandlerMoved

LEMMA BroadcastKeeps ==
  ASSUME IInv, NEW c \in Clients, Broadcast(c)
  PROVE  LogInv' /\ HandlerInv'
  <1> DEFINE new == [rev |-> send[c].rev, text |-> send[c].text, pc |-> "save"]
  <1>1. /\ send' = [send EXCEPT ![c] = IdleHandler]
        /\ UNCHANGED <<revision, log, history>>
        /\ jobs' = jobs \/ jobs' = jobs \union {new}
    BY DEF Broadcast, redis
  <1>2. revision \in Nat /\ send \in [Clients -> Handler] /\ send[c].rev <= revision
    BY DEF IInv, TypeOK, NobodyAhead
  <1>3. IdleHandler.pc = "idle" /\ IdleHandler.rev = 0 /\ new.rev = send[c].rev
    BY DEF IdleHandler
  <1> HIDE DEF new
  <1>4. \A d \in Clients : send'[d] = IF d = c THEN IdleHandler ELSE send[d]
    BY <1>1, <1>2
  <1>5. NobodyAhead'
    BY <1>1, <1>2, <1>3, <1>4 DEF IInv, NobodyAhead
  <1>6. SeenSoFar'
    BY <1>1, <1>3, <1>4 DEF IInv, SeenSoFar
  <1> QED
    BY <1>1, <1>5, <1>6, IInvParts, LogUntouched DEF HandlerInv

LEMMA FailSendKeeps ==
  ASSUME IInv, NEW c \in Clients, FailSend(c)
  PROVE  LogInv' /\ HandlerInv'
  <1>1. send' = [send EXCEPT ![c] = IdleHandler] /\ UNCHANGED <<revision, log, history, jobs>>
    BY DEF FailSend, redis
  <1>2. revision \in Nat /\ send \in [Clients -> Handler]
    BY DEF IInv, TypeOK
  <1>3. IdleHandler.rev <= revision /\ IdleHandler.pc # "started"
        /\ IdleHandler.pc # "transformed"
    BY <1>2 DEF IdleHandler
  <1> QED
    BY <1>1, <1>2, <1>3, IInvParts, LogUntouched, HandlerMoved

\* Clients coming, going and catching up leave the log and the handlers alone.
LEMMA ClientKeeps ==
  ASSUME IInv, NEW c \in Clients, Disconnect(c) \/ CatchUp(c)
  PROVE  LogInv' /\ HandlerInv'
  <1>1. UNCHANGED <<revision, log, history, jobs, send>>
    BY DEF Disconnect, CatchUp, Rejoin, SendMissed, ResyncComplete, redis
  <1> QED
    BY <1>1, IInvParts, LogUntouched, HandlersUntouched

\* A compaction that saves its snapshot, or is given up, is none the newer.
LEMMA CompactionKeeps ==
  ASSUME IInv, NEW job \in jobs, SaveSnapshot(job) \/ FailCompaction(job)
  PROVE  LogInv' /\ HandlerInv'
  <1> DEFINE next == [job EXCEPT !.pc = "prune"]
  <1>1. /\ UNCHANGED <<revision, log, history, send>>
        /\ jobs' = (jobs \ {job}) \union {next} \/ jobs' = jobs \ {job}
    BY DEF SaveSnapshot, FailCompaction, redis
  <1>2. job \in Job
    BY DEF IInv, TypeOK
  <1>3. next.rev = job.rev
    BY ONLY <1>2 DEF Job
  <1> HIDE DEF next
  <1>4. NobodyAhead'
    BY <1>1, <1>3 DEF IInv, NobodyAhead
  <1>5. SeenSoFar'
    BY <1>1 DEF IInv, SeenSoFar
  <1> QED
    BY <1>1, <1>4, <1>5, IInvParts, LogUntouched DEF HandlerInv

LEMMA InitIInv == Init => IInv
  <1> SUFFICES ASSUME Init PROVE IInv
    OBVIOUS
  <1>1. TypeOK
    BY InitType
  <1>2. log = {} /\ history = {} /\ revision = 0 /\ jobs = {}
    BY DEF Init
  <1>3. RevisionsGapless
    BY <1>2 DEF RevisionsGapless, Revisions
  <1>4. \A c \in Clients : send[c].pc = "idle" /\ send[c].rev = 0
    BY DEF Init, IdleHandler
  <1>5. NobodyAhead /\ SeenSoFar
    BY <1>2, <1>4 DEF NobodyAhead, SeenSoFar
  <1> QED
    BY <1>1, <1>2, <1>3, <1>5 DEF IInv, RecentRetained, TransformedAgainstSeen

LEMMA NextIInv ==
  ASSUME IInv, [Next]_vars
  PROVE  IInv'
  <1>1. TypeOK'
    BY NextType DEF IInv
  <1>2. LogInv' /\ HandlerInv'
    <2>1. ASSUME NEW c \in Clients, NEW base \in 0..revision, SendOperation(c, base)
          PROVE  LogInv' /\ HandlerInv'
      BY <2>1, SendKeeps
    <2>2. ASSUME NEW c \in Clients, HandlerStep(c)
          PROVE  LogInv' /\ HandlerInv'
      BY <2>2, TransformKeeps, AppendKeeps, GetContentKeeps, SetContentKeeps, BroadcastKeeps
      DEF HandlerStep
    <2>3. ASSUME NEW c \in Clients, FailSend(c)
          PROVE  LogInv' /\ HandlerInv'
      BY <2>3, FailSendKeeps
    <2>4. ASSUME NEW c \in Clients, Disconnect(c) \/ CatchUp(c)
          PROVE  LogInv' /\ HandlerInv'
      BY <2>4, ClientKeeps
    <2>5. ASSUME NEW job \in jobs, SaveSnapshot(job) \/ FailCompaction(job)
          PROVE  LogInv' /\ HandlerInv'
      BY <2>5, CompactionKeeps
    <2>6. ASSUME NEW job \in jobs, PruneOperationsOlderThan(job)
          PROVE  LogInv' /\ HandlerInv'
      BY <2>6, PruneKeeps
    <2>7. CASE UNCHANGED vars
      <3>1. UNCHANGED <<revision, log, history, jobs, send>>
        BY <2>7 DEF vars, redis
      <3> QED
        BY <3>1, IInvParts, LogUntouched, HandlersUntouched
    <2> QED
      BY <2>1, <2>2, <2>3, <2>4, <2>5, <2>6, <2>7 DEF Next, Compaction
  <1> QED
    BY <1>1, <1>2 DEF IInv, LogInv, HandlerInv

LEMMA Inductive == Spec => []IInv
  BY InitIInv, NextIInv, PTL DEF Spec

-----------------------------------------------------------------------------

\* The committed operations are numbered without gaps and without repetitions.
THEOREM GaplessAlways == Spec => []RevisionsGapless
  <1>1. IInv => RevisionsGapless
    BY DEF IInv
  <1> QED
    BY <1>1, Inductive, PTL

\* No compaction, however late, prunes an operation among the last KeepRevisions.
THEOREM RecentAlwaysRetained == Spec => []RecentRetained
  <1>1. IInv => RecentRetained
    BY DEF IInv
  <1> QED
    BY <1>1, Inductive, PTL

\* Every operation is committed having been transformed against all that had been
\* committed when its handler started, and against nothing it should not be.
THEOREM AlwaysTransformedAgainstSeen == Spec => []TransformedAgainstSeen
  <1>1. IInv => TransformedAgainstSeen
    BY DEF IInv
  <1> QED
    BY <1>1, Inductive, PTL

LEMMA InitPromised == Init => Promised!Init
  BY DEF Init, Promised!Init, Revisions

LEMMA NextPromised ==
  ASSUME IInv, [Next]_vars
  PROVE  [Promised!Next]_<<revision, Revisions(log)>>
  <1>1. revision \in Nat /\ KeepRevisions \in Nat
        /\ \A o \in log : o.rev \in Nat /\ o.rev > 0
    BY PipelineAssumption, CommittedFields DEF IInv, TypeOK
  <1>2. ASSUME UNCHANGED <<revision, log>>
        PROVE  [Promised!Next]_<<revision, Revisions(log)>>
    BY <1>2 DEF Revisions
  <1>3. ASSUME NEW c \in Clients, AppendAtomically(c)
        PROVE  Promised!Commit
    <2> DEFINE op == [rev |-> revision + 1, client |-> c, base |-> send[c].base,
                      start |-> send[c].start, against |-> send[c].seen]
    <2>1. revision' = revision + 1 /\ log' = log \union {op} /\ op.rev = revision + 1
      BY <1>3 DEF AppendAtomically
    <2> HIDE DEF op
    <2>2. Revisions(log') = Revisions(log) \union {revision + 1}
      BY <2>1 DEF Revisions
    <2> QED
      BY <2>1, <2>2 DEF Promised!Commit
  <1>4. ASSUME NEW job \in jobs, PruneOperationsOlderThan(job)
        PROVE  [Promised!Next]_<<revision, Revisions(log)>>
    <2> DEFINE oldest == job.rev - KeepRevisions
    <2>1. revision' = revision /\ log' = {o \in log : o.rev >= oldest}
      BY <1>4 DEF PruneOperationsOlderThan
    <2>2. job.rev \in Nat /\ job.rev <= revision
      BY DEF IInv, TypeOK, Job, NobodyAhead
    <2>3. oldest \in Int /\ oldest <= revision - KeepRevisions
      BY <1>1, <2>2
    <2> HIDE DEF oldest
    <2>4. Revisions(log') = {r \in Revisions(log) : r >= oldest}
      BY <2>1 DEF Revisions
    <2>5. CASE oldest >= 1
      <3>1. oldest \in 1..(revision - KeepRevisions)
        BY <1>1, <2>3, <2>5
      <3> QED
        BY <2>1, <2>4, <3>1 DEF Promised!Next, Promised!Forget
    <2>6. CASE oldest < 1
      <3>1. \A o \in log : o.rev >= oldest
        BY <1>1, <2>3, <2>6
      <3>2. log' = log
        BY <2>1, <3>1, SMTT(30)
      <3> QED
        BY <1>2, <2>1, <3>2
    <2> QED
      BY <2>3, <2>5, <2>6
  <1>5. ASSUME NEW c \in Clients,
               \/ \E base \in 0..revision : SendOperation(c, base)
               \/ TransformAgainstLog(c) \/ GetContent(c) \/ SetContent(c) \/ Broadcast(c)
               \/ FailSend(c) \/ Disconnect(c) \/ CatchUp(c)
        PROVE  UNCHANGED <<revision, log>>
    BY <1>5 DEF SendOperation, TransformAgainstLog, GetContent, SetContent, Broadcast,
                FailSend, Disconnect, CatchUp, Rejoin, SendMissed, ResyncComplete, redis
  <1>6. ASSUME NEW job \in jobs, SaveSnapshot(job) \/ FailCompaction(job)
        PROVE  UNCHANGED <<revision, log>>
    BY <1>6 DEF SaveSnapshot, FailCompaction, redis
  <1>7. CASE UNCHANGED vars
    BY <1>2, <1>7 DEF vars, redis
  <1> QED
    BY <1>2, <1>3, <1>4, <1>5, <1>6, <1>7 DEF Next, HandlerStep, Compaction, Promised!Next

\* For every number of clients, handlers and compactions under way, the operation
\* log implements the promise of OrderedLog: a commit is an append at the next
\* number, a pruning forgets old operations, and everything else is a stutter.
THEOREM PipelineImplementsOrderedLog == Spec => ImplementsOrderedLog
  <1>1. Init => Promised!Init
    BY InitPromised
  <1>2. IInv /\ [Next]_vars => [Promised!Next]_<<revision, Revisions(log)>>
    BY NextPromised
  <1> QED
    BY <1>1, <1>2, Inductive, PTL DEF Spec, ImplementsOrderedLog, Promised!Spec

-----------------------------------------------------------------------------
(***************************************************************************)
(* Catching up                                                             *)
(***************************************************************************)

\* The operation with number r waits for its handler's broadcast.
Announcing(r) == \E c \in Clients : c \in Committing /\ send[c].rev = r

\* What precedes the point a client caught up to it has, as far as it is kept; and
\* once it has asked for what it missed, all the rest has been sent to it or will be.
Reaches(c) ==
  \A o \in log : o.rev \in received[c] \/ Announcing(o.rev) \/ o.rev \in unannounced
CaughtUp ==
  \A c \in Clients :
    /\ cursor[c] <= revision
    /\ \A o \in log : o.rev <= cursor[c] => o.rev \in received[c]
    /\ phase[c] \in {"live", "catching up"} => Reaches(c)

\* Every step but a commit and a request for missed operations.
LEMMA CaughtUpAside ==
  ASSUME TypeOK, CaughtUp, revision' = revision, cursor' = cursor, log' \subseteq log,
         unannounced \subseteq unannounced',
         \A c \in Clients : received[c] \subseteq received'[c],
         \A c \in Clients : phase'[c] \in {"live", "catching up"} =>
                              phase[c] \in {"live", "catching up"},
         \A r : Announcing(r) =>
           \/ Announcing(r)' \/ r \in unannounced'
           \/ \A c \in Clients : phase[c] # "offline" => r \in received'[c]
  PROVE  CaughtUp'
  <1> SUFFICES ASSUME NEW c \in Clients
               PROVE  /\ cursor'[c] <= revision'
                      /\ \A o \in log' : o.rev <= cursor'[c] => o.rev \in received'[c]
                      /\ phase'[c] \in {"live", "catching up"} => Reaches(c)'
    BY DEF CaughtUp
  <1>1. cursor'[c] <= revision' /\ \A o \in log' : o.rev <= cursor'[c] => o.rev \in received'[c]
    BY DEF CaughtUp
  <1>2. ASSUME phase'[c] \in {"live", "catching up"}, NEW o \in log'
        PROVE  o.rev \in received'[c] \/ Announcing(o.rev)' \/ o.rev \in unannounced'
    <2>1. o.rev \in received[c] \/ Announcing(o.rev) \/ o.rev \in unannounced
      BY <1>2 DEF CaughtUp, Reaches
    <2>2. phase[c] # "offline"
      BY <1>2
    <2> QED
      BY <2>1, <2>2
  <1>3. phase'[c] \in {"live", "catching up"} => Reaches(c)'
    BY <1>2 DEF Reaches
  <1> QED
    BY <1>1, <1>3

\* A handler that goes on, still to announce what it committed.
LEMMA AnnouncingOn ==
  ASSUME TypeOK, NEW c \in Clients, NEW h, send' = [send EXCEPT ![c] = h],
         c \in Committing =>
           h.pc \in {"committed", "content read", "content written"} /\ h.rev = send[c].rev
  PROVE  \A r : Announcing(r) => Announcing(r)'
  <1>1. send \in [Clients -> Handler]
    BY DEF TypeOK
  <1>2. \A d \in Clients : send'[d] = IF d = c THEN h ELSE send[d]
    BY <1>1
  <1>3. ASSUME NEW d \in Clients, d \in Committing
        PROVE  d \in Committing' /\ send'[d].rev = send[d].rev
    <2>1. CASE d = c
      BY <1>2, <1>3, <2>1 DEF Committing
    <2>2. CASE d # c
      BY <1>2, <1>3, <2>2 DEF Committing
    <2> QED
      BY <2>1, <2>2
  <1> QED
    BY <1>3 DEF Announcing

LEMMA CaughtUpHandlers ==
  ASSUME IInv, CaughtUp, NEW c \in Clients,
         \/ \E base \in 0..revision : SendOperation(c, base)
         \/ TransformAgainstLog(c) \/ GetContent(c) \/ SetContent(c)
  PROVE  CaughtUp'
  <1>0. TypeOK
    BY DEF IInv
  <1>1. PICK h : /\ send' = [send EXCEPT ![c] = h]
                 /\ c \in Committing =>
                      /\ h.pc \in {"committed", "content read", "content written"}
                      /\ h.rev = send[c].rev
    <2>0. send[c] \in Handler
      BY <1>0 DEF TypeOK
    <2>1. CASE GetContent(c)
      <3> DEFINE h == [send[c] EXCEPT !.pc = "content read", !.text = content]
      <3>1. send' = [send EXCEPT ![c] = h]
        BY <2>1 DEF GetContent
      <3>2. h.pc = "content read" /\ h.rev = send[c].rev
        BY ONLY <2>0 DEF Handler
      <3> QED
        BY <3>1, <3>2
    <2>2. CASE SetContent(c)
      <3> DEFINE updated == Append(send[c].text, send[c].rev)
                 h == [send[c] EXCEPT !.pc = "content written", !.text = updated]
      <3>1. send' = [send EXCEPT ![c] = h]
        BY <2>2 DEF SetContent
      <3> HIDE DEF updated
      <3>2. h.pc = "content written" /\ h.rev = send[c].rev
        BY ONLY <2>0 DEF Handler
      <3> QED
        BY <3>1, <3>2
    <2>3. CASE TransformAgainstLog(c)
      BY <2>3 DEF TransformAgainstLog, Committing
    <2>4. ASSUME NEW base \in 0..revision, SendOperation(c, base)
          PROVE  \E h : send' = [send EXCEPT ![c] = h] /\ c \notin Committing
      BY <2>4, ZenonT(60) DEF SendOperation, Committing
    <2> QED
      BY <2>1, <2>2, <2>3, <2>4
  <1>2. UNCHANGED <<revision, cursor, log, unannounced, received, phase>>
    BY DEF SendOperation, TransformAgainstLog, GetContent, SetContent, redis, clients
  <1>3. \A r : Announcing(r) => Announcing(r)'
    BY <1>0, <1>1, AnnouncingOn
  <1> QED
    BY <1>0, <1>2, <1>3, CaughtUpAside

LEMMA CaughtUpAppend ==
  ASSUME IInv, CaughtUp, NEW c \in Clients, AppendAtomically(c)
  PROVE  CaughtUp'
  <1> DEFINE op == [rev |-> revision + 1, client |-> c, base |-> send[c].base,
                    start |-> send[c].start, against |-> send[c].seen]
             h == [send[c] EXCEPT !.pc = "committed", !.rev = revision + 1]
  <1>0. TypeOK /\ send[c] \in Handler /\ revision \in Nat /\ send \in [Clients -> Handler]
        /\ cursor \in [Clients -> Nat]
    BY DEF IInv, TypeOK
  <1>1. /\ send[c].pc = "transformed" /\ send' = [send EXCEPT ![c] = h]
        /\ revision' = revision + 1 /\ log' = log \union {op} /\ op.rev = revision + 1
        /\ UNCHANGED <<cursor, received, phase, unannounced>>
    BY DEF AppendAtomically, clients
  <1>2. h.pc = "committed" /\ h.rev = revision + 1
    BY ONLY <1>0 DEF Handler
  <1> HIDE DEF op, h
  <1>3. \A r : Announcing(r) => Announcing(r)'
    BY <1>0, <1>1, AnnouncingOn DEF Committing
  <1>4. ASSUME NEW r, r = revision + 1 PROVE Announcing(r)'
    <2>1. send'[c] = h
      BY <1>0, <1>1
    <2>2. c \in Committing' /\ send'[c].rev = r
      BY <1>2, <1>4, <2>1 DEF Committing
    <2> QED
      BY <2>2 DEF Announcing
  <1> SUFFICES ASSUME NEW d \in Clients
               PROVE  /\ cursor'[d] <= revision'
                      /\ \A o \in log' : o.rev <= cursor'[d] => o.rev \in received'[d]
                      /\ phase'[d] \in {"live", "catching up"} => Reaches(d)'
    BY DEF CaughtUp
  <1>5. cursor[d] \in Nat /\ cursor[d] <= revision
    BY <1>0 DEF CaughtUp
  <1>6. ASSUME NEW o \in log', o.rev <= cursor'[d] PROVE o.rev \in received'[d]
    <2>1. o # op
      BY <1>0, <1>1, <1>5, <1>6
    <2> QED
      BY <1>1, <1>6, <2>1 DEF CaughtUp
  <1>7. ASSUME phase'[d] \in {"live", "catching up"}, NEW o \in log'
        PROVE  o.rev \in received'[d] \/ Announcing(o.rev)' \/ o.rev \in unannounced'
    <2>1. CASE o = op
      BY <1>1, <1>4, <2>1
    <2>2. CASE o \in log
      <3>1. o.rev \in received[d] \/ Announcing(o.rev) \/ o.rev \in unannounced
        BY <1>1, <1>7, <2>2 DEF CaughtUp, Reaches
      <3> QED
        BY <1>1, <1>3, <3>1
    <2> QED
      BY <1>1, <2>1, <2>2
  <1>8. cursor'[d] <= revision'
    BY <1>0, <1>1, <1>5
  <1> QED
    BY <1>6, <1>7, <1>8 DEF Reaches

LEMMA CaughtUpBroadcast ==
  ASSUME IInv, CaughtUp, NEW c \in Clients, Broadcast(c) \/ FailSend(c)
  PROVE  CaughtUp'
  <1>0. TypeOK /\ send \in [Clients -> Handler] /\ received \in [Clients -> SUBSET Nat]
    BY DEF IInv, TypeOK
  <1>1. /\ send' = [send EXCEPT ![c] = IdleHandler]
        /\ UNCHANGED <<revision, cursor, log, phase>>
    BY DEF Broadcast, FailSend, redis, clients
  <1>2. \A d \in Clients \ {c} : send'[d] = send[d]
    BY <1>0, <1>1
  <1>3. \A r : Announcing(r) => Announcing(r)' \/ (c \in Committing /\ r = send[c].rev)
    BY <1>2 DEF Announcing, Committing
  <1>4. CASE Broadcast(c)
    <2>1. /\ unannounced' = unannounced
          /\ \A d \in Clients : received'[d] = IF phase[d] # "offline"
                                                 THEN received[d] \union {send[c].rev} ELSE received[d]
      BY <1>4 DEF Broadcast, Joined
    <2>2. \A d \in Clients : received[d] \subseteq received'[d]
      BY <1>0, <2>1
    <2>3. \A r : Announcing(r) => \/ Announcing(r)' \/ r \in unannounced'
                                 \/ \A d \in Clients : phase[d] # "offline" => r \in received'[d]
      BY <1>3, <2>1
    <2> QED
      BY <1>0, <1>1, <2>1, <2>2, <2>3, CaughtUpAside
  <1>5. CASE FailSend(c)
    <2>1. /\ received' = received
          /\ unannounced \subseteq unannounced'
          /\ c \in Committing => send[c].rev \in unannounced'
      BY <1>5 DEF FailSend, clients
    <2>2. \A r : Announcing(r) => Announcing(r)' \/ r \in unannounced'
      BY <1>3, <2>1
    <2> QED
      BY <1>0, <1>1, <2>1, <2>2, CaughtUpAside
  <1> QED
    BY <1>4, <1>5

LEMMA CaughtUpMissed ==
  ASSUME IInv, CaughtUp, NEW c \in Clients, NEW from \in 0..revision, SendMissed(c, from)
  PROVE  CaughtUp'
  <1> DEFINE missed == Revisions(OperationsSince(from))
  <1>0. /\ TypeOK /\ revision \in Nat /\ from \in Nat /\ from <= revision
        /\ received \in [Clients -> SUBSET Nat] /\ cursor \in [Clients -> Nat]
        /\ \A o \in log : o.rev \in Nat /\ o.rev <= revision
    <2>1. \A o \in log : o.rev \in 1..revision
      BY DEF IInv, RevisionsGapless, Revisions
    <2> QED
      BY <2>1 DEF IInv, TypeOK
  <1>1. \A o \in log : o.rev > from => o.rev \in missed
    BY DEF Revisions, OperationsSince
  <1>2. missed \subseteq {o.rev : o \in log}
    BY DEF Revisions, OperationsSince
  <1>3. PICK r \in missed \union {from} : cursor' = [cursor EXCEPT ![c] = r]
    BY DEF SendMissed
  <1>4. /\ received' = [received EXCEPT ![c] = @ \union missed]
        /\ phase[c] = "joined" /\ phase' = [phase EXCEPT ![c] = "catching up"]
        /\ Complete(c, from)
        /\ UNCHANGED <<revision, log, send, unannounced>>
    BY DEF SendMissed, redis
  <1> HIDE DEF missed
  <1>5. r \in Nat /\ r <= revision
    BY <1>0, <1>2
  <1>6. \A o \in log : o.rev \in received'[c]
    <2> SUFFICES ASSUME NEW o \in log PROVE o.rev \in received'[c]
      OBVIOUS
    <2>1. CASE o.rev > from
      BY <1>0, <1>1, <1>4, <2>1
    <2>2. CASE o.rev <= cursor[c]
      BY <1>0, <1>4, <2>2 DEF CaughtUp
    <2>3. CASE o.rev <= from /\ o.rev > cursor[c]
      <3>1. o.rev \in (cursor[c] + 1)..from
        BY <1>0, <2>3
      <3> QED
        BY <1>0, <1>4, <3>1 DEF Complete
    <2> QED
      BY <1>0, <2>1, <2>2, <2>3
  <1>7. \A d \in Clients \ {c} : /\ received'[d] = received[d] /\ cursor'[d] = cursor[d]
                                 /\ phase'[d] = phase[d]
    BY <1>0, <1>3, <1>4 DEF TypeOK
  <1>8. \A q : Announcing(q)' <=> Announcing(q)
    BY <1>4 DEF Announcing, Committing
  <1>9. cursor'[c] = r
    BY <1>0, <1>3
  <1> SUFFICES ASSUME NEW d \in Clients
               PROVE  /\ cursor'[d] <= revision'
                      /\ \A o \in log' : o.rev <= cursor'[d] => o.rev \in received'[d]
                      /\ phase'[d] \in {"live", "catching up"} => Reaches(d)'
    BY DEF CaughtUp
  <1>10. CASE d = c
    BY <1>4, <1>5, <1>6, <1>9, <1>10 DEF Reaches
  <1>11. CASE d # c
    <2>1. phase[d] \in {"live", "catching up"} => Reaches(d)'
      BY <1>4, <1>7, <1>8, <1>11 DEF CaughtUp, Reaches
    <2> QED
      BY <1>4, <1>7, <1>11, <2>1 DEF CaughtUp
  <1> QED
    BY <1>10, <1>11

LEMMA CaughtUpNext ==
  ASSUME IInv, CaughtUp, [Next]_vars
  PROVE  CaughtUp'
  <1>0. TypeOK
    BY DEF IInv
  <1>1. ASSUME UNCHANGED <<revision, cursor, received, send, unannounced>>, log' \subseteq log,
               \A c \in Clients : phase'[c] \in {"live", "catching up"} =>
                                    phase[c] \in {"live", "catching up"}
        PROVE  CaughtUp'
    <2>1. \A r : Announcing(r) => Announcing(r)'
      BY <1>1 DEF Announcing, Committing
    <2> QED
      BY <1>0, <1>1, <2>1, CaughtUpAside
  <1>2. ASSUME NEW c \in Clients, Disconnect(c) \/ Rejoin(c) \/ ResyncComplete(c)
        PROVE  CaughtUp'
    <2>1. UNCHANGED <<revision, cursor, received, send, unannounced, log>>
      BY <1>2 DEF Disconnect, Rejoin, ResyncComplete, redis
    <2>2. \A d \in Clients : phase'[d] \in {"live", "catching up"} =>
                               phase[d] \in {"live", "catching up"}
      BY <1>0, <1>2 DEF Disconnect, Rejoin, ResyncComplete, TypeOK
    <2> QED
      BY <1>1, <2>1, <2>2
  <1>3. ASSUME NEW job \in jobs,
               SaveSnapshot(job) \/ PruneOperationsOlderThan(job) \/ FailCompaction(job)
        PROVE  CaughtUp'
    <2>1. UNCHANGED <<revision, cursor, received, send, unannounced, phase>> /\ log' \subseteq log
      BY <1>3 DEF SaveSnapshot, PruneOperationsOlderThan, FailCompaction, redis, clients
    <2> QED
      BY <1>1, <2>1
  <1>4. CASE UNCHANGED vars
    BY <1>1, <1>4 DEF vars, redis, clients
  <1> QED
    BY <1>2, <1>3, <1>4, CaughtUpHandlers, CaughtUpAppend, CaughtUpBroadcast, CaughtUpMissed
    DEF Next, HandlerStep, CatchUp, Compaction

\* However the broadcasts, the compactions, the failures and the requests of a
\* client that comes back interleave, for every number of clients: of what is
\* kept, a live client lacks only what is about to be broadcast or what belongs to
\* a handler that failed after its commit (editorHub.ts:480-483, 511-522).
THEOREM ResyncNeverLeavesHole == Spec => []ResyncLeavesNoHole
  <1>1. Init => CaughtUp
    BY DEF Init, CaughtUp, Reaches
  <1>2. IInv /\ CaughtUp /\ [Next]_vars => CaughtUp'
    BY CaughtUpNext
  <1>3. CaughtUp => ResyncLeavesNoHole
    BY DEF CaughtUp, Reaches, Announcing, Committing, ResyncLeavesNoHole
  <1> QED
    BY <1>1, <1>2, <1>3, Inductive, PTL DEF Spec

-----------------------------------------------------------------------------
(***************************************************************************)
(* One handler at a time                                                   *)
(***************************************************************************)

OneInFlight == IsFiniteSet(InFlight) /\ \A c, d \in InFlight : c = d

\* Nothing was committed since the running handler has started, until it commits
\* itself; and so it was with those before it.
NothingBetween ==
  /\ \A c \in Clients :
       /\ send[c].pc \in {"started", "transformed"} =>
            send[c].start = revision /\ revision <= send[c].base + MaxLag
       /\ c \in Committing => send[c].rev = revision
  /\ \A o \in history : o.rev = o.start + 1 /\ o.start <= o.base + MaxLag

LEMMA StartsAlone ==
  ASSUME MaxInFlight = 1, OneInFlight, Cardinality(InFlight) < MaxInFlight
  PROVE  InFlight = {}
  <1>1. Cardinality(InFlight) \in Nat
    BY FS_CardinalityType DEF OneInFlight
  <1> QED
    BY <1>1, FS_EmptySet DEF OneInFlight

\* Only the handler that runs takes steps, or one starts when none runs.
LEMMA OneMoves ==
  ASSUME TypeOK, OneInFlight, NEW c \in Clients, NEW h, send' = [send EXCEPT ![c] = h],
         InFlight = {} \/ c \in InFlight
  PROVE  /\ OneInFlight'
         /\ send'[c] = h /\ \A d \in Clients \ {c} : send'[d] = send[d] /\ send[d].pc = "idle"
         /\ Committing' = IF h.pc \in {"committed", "content read", "content written"} THEN {c} ELSE {}
         /\ Committing \subseteq {c}
  <1>1. send \in [Clients -> Handler]
    BY DEF TypeOK
  <1>2. send'[c] = h /\ \A d \in Clients \ {c} : send'[d] = send[d]
    BY <1>1
  <1>3. \A d \in Clients \ {c} : send[d].pc = "idle"
    BY DEF OneInFlight, InFlight
  <1>4. InFlight' = IF h.pc = "idle" THEN {} ELSE {c}
    BY <1>2, <1>3 DEF InFlight
  <1>5. IsFiniteSet({c}) /\ IsFiniteSet({})
    BY FS_Singleton, FS_EmptySet
  <1>6. OneInFlight'
    BY <1>4, <1>5 DEF OneInFlight
  <1>7. /\ Committing' = IF h.pc \in {"committed", "content read", "content written"} THEN {c} ELSE {}
        /\ Committing \subseteq {c}
    BY <1>2, <1>3 DEF Committing
  <1> QED
    BY <1>2, <1>3, <1>6, <1>7

\* What each step of a handler makes of its record.
LEMMA HandlerMoves ==
  ASSUME TypeOK, NEW c \in Clients,
         \/ \E base \in 0..revision : SendOperation(c, base)
         \/ HandlerStep(c) \/ FailSend(c)
  PROVE  /\ MaxInFlight = 1 /\ OneInFlight => InFlight = {} \/ c \in InFlight
         /\ \E h \in Handler :
              /\ send' = [send EXCEPT ![c] = h]
              /\ \/ \E base \in 0..revision :
                      /\ SendOperation(c, base)
                      /\ h.pc = "started" /\ h.base = base /\ h.start = revision
                 \/ /\ TransformAgainstLog(c)
                    /\ h.pc = "transformed" /\ h.base = send[c].base /\ h.start = send[c].start
                 \/ /\ AppendAtomically(c)
                    /\ h.pc = "committed" /\ h.rev = revision + 1
                 \/ /\ GetContent(c)
                    /\ h.pc = "content read" /\ h.rev = send[c].rev /\ h.text = content
                 \/ /\ SetContent(c)
                    /\ h.pc = "content written" /\ h.rev = send[c].rev
                    /\ h.text = Append(send[c].text, send[c].rev)
                 \/ (Broadcast(c) \/ FailSend(c)) /\ h.pc = "idle"
  <1>0. send[c] \in Handler /\ content \in Seq(Nat) /\ revision \in Nat
    BY DEF TypeOK
  <1>1. ASSUME NEW base \in 0..revision, SendOperation(c, base)
        PROVE  /\ MaxInFlight = 1 /\ OneInFlight => InFlight = {}
               /\ \E h \in Handler : /\ send' = [send EXCEPT ![c] = h]
                                     /\ h.pc = "started" /\ h.base = base /\ h.start = revision
    <2> DEFINE h == [IdleHandler EXCEPT !.pc = "started", !.base = base, !.start = revision]
    <2>1. h \in Handler /\ h.pc = "started" /\ h.base = base /\ h.start = revision
      <3>1. base \in Nat
        BY <1>0
      <3> QED
        BY ONLY <1>0, <3>1, IdleHandlerType DEF Handler
    <2>2. send' = [send EXCEPT ![c] = h]
      BY <1>1 DEF SendOperation
    <2>3. Cardinality(InFlight) < MaxInFlight
      BY <1>1 DEF SendOperation
    <2> HIDE DEF h
    <2> QED
      BY <2>1, <2>2, <2>3, StartsAlone
  <1>2. CASE TransformAgainstLog(c)
    <2> DEFINE seen == Revisions(OperationsSince(send[c].base))
               h == [send[c] EXCEPT !.pc = "transformed", !.seen = seen]
    <2>1. seen \in SUBSET Nat
      BY <1>0, HandlerFields, SinceType
    <2>2. send' = [send EXCEPT ![c] = h] /\ c \in InFlight
      BY <1>2 DEF TransformAgainstLog, InFlight
    <2> HIDE DEF seen
    <2>3. h \in Handler /\ h.pc = "transformed" /\ h.base = send[c].base /\ h.start = send[c].start
      BY ONLY <1>0, <2>1 DEF Handler
    <2> HIDE DEF h
    <2> QED
      BY <1>2, <2>2, <2>3
  <1>3. CASE AppendAtomically(c)
    <2> DEFINE next == revision + 1
               h == [send[c] EXCEPT !.pc = "committed", !.rev = next]
    <2>1. send' = [send EXCEPT ![c] = h] /\ c \in InFlight
      BY <1>3 DEF AppendAtomically, InFlight
    <2>2. next \in Nat
      BY <1>0
    <2> HIDE DEF next
    <2>3. h \in Handler /\ h.pc = "committed" /\ h.rev = next
      BY ONLY <1>0, <2>2 DEF Handler
    <2> HIDE DEF h
    <2> QED
      BY <1>3, <2>1, <2>3 DEF next
  <1>4. CASE GetContent(c)
    <2> DEFINE h == [send[c] EXCEPT !.pc = "content read", !.text = content]
    <2>1. send' = [send EXCEPT ![c] = h] /\ c \in InFlight
      BY <1>4 DEF GetContent, InFlight
    <2>2. h \in Handler /\ h.pc = "content read" /\ h.rev = send[c].rev /\ h.text = content
      BY ONLY <1>0 DEF Handler
    <2> HIDE DEF h
    <2> QED
      BY <1>4, <2>1, <2>2
  <1>5. CASE SetContent(c)
    <2> DEFINE updated == Append(send[c].text, send[c].rev)
               h == [send[c] EXCEPT !.pc = "content written", !.text = updated]
    <2>1. send' = [send EXCEPT ![c] = h] /\ c \in InFlight
      BY <1>5 DEF SetContent, InFlight
    <2>2. send[c].text \in Seq(Nat) /\ send[c].rev \in Nat
      BY <1>0, HandlerFields
    <2>3. updated \in Seq(Nat)
      BY ONLY <2>2
    <2> HIDE DEF updated
    <2>4. h \in Handler /\ h.pc = "content written" /\ h.rev = send[c].rev /\ h.text = updated
      BY ONLY <1>0, <2>3 DEF Handler
    <2> HIDE DEF h
    <2> QED
      BY <1>5, <2>1, <2>4 DEF updated
  <1>6. CASE Broadcast(c) \/ FailSend(c)
    <2>1. send' = [send EXCEPT ![c] = IdleHandler] /\ c \in InFlight
      BY <1>6 DEF Broadcast, FailSend, InFlight
    <2>2. IdleHandler.pc = "idle"
      BY DEF IdleHandler
    <2> QED
      BY <1>6, <2>1, <2>2, IdleHandlerType
  <1> QED
    BY <1>1, <1>2, <1>3, <1>4, <1>5, <1>6 DEF HandlerStep

LEMMA InitAlone == Init => OneInFlight /\ NothingBetween /\ InFlight = {} /\ Committing = {}
  <1> SUFFICES ASSUME Init PROVE OneInFlight /\ NothingBetween /\ InFlight = {} /\ Committing = {}
    OBVIOUS
  <1>1. \A c \in Clients : send[c].pc = "idle"
    BY DEF Init, IdleHandler
  <1>2. InFlight = {} /\ Committing = {}
    BY <1>1 DEF InFlight, Committing
  <1>3. NothingBetween
    BY <1>1, <1>2 DEF Init, NothingBetween
  <1> QED
    BY <1>2, <1>3, FS_EmptySet DEF OneInFlight

\* The steps that concern no handler.
LEMMA AloneAside ==
  ASSUME UNCHANGED <<revision, send, history>>
  PROVE  /\ OneInFlight => OneInFlight'
         /\ NothingBetween => NothingBetween'
         /\ Committing' = Committing
  BY DEF OneInFlight, InFlight, NothingBetween, Committing

LEMMA NotHandlers ==
  ASSUME \/ \E c \in Clients : Disconnect(c) \/ CatchUp(c)
         \/ \E job \in jobs : SaveSnapshot(job) \/ PruneOperationsOlderThan(job) \/ FailCompaction(job)
         \/ UNCHANGED vars
  PROVE  UNCHANGED <<revision, send, history, content>>
  BY DEF Disconnect, CatchUp, Rejoin, SendMissed, ResyncComplete, SaveSnapshot,
         PruneOperationsOlderThan, FailCompaction, vars, redis

LEMMA NextAlone ==
  ASSUME MaxInFlight = 1, IInv, OneInFlight, NothingBetween, [Next]_vars
  PROVE  OneInFlight' /\ NothingBetween'
  <1>0. TypeOK /\ revision \in Nat /\ MaxLag \in Nat
    BY PipelineAssumption DEF IInv, TypeOK
  <1>1. ASSUME NEW c \in Clients,
               \/ \E base \in 0..revision : SendOperation(c, base)
               \/ HandlerStep(c) \/ FailSend(c)
        PROVE  OneInFlight' /\ NothingBetween'
    <2>1. InFlight = {} \/ c \in InFlight
      BY <1>0, <1>1, HandlerMoves
    <2>2. PICK h \in Handler :
            /\ send' = [send EXCEPT ![c] = h]
            /\ \/ \E base \in 0..revision :
                    /\ SendOperation(c, base)
                    /\ h.pc = "started" /\ h.base = base /\ h.start = revision
               \/ /\ TransformAgainstLog(c)
                  /\ h.pc = "transformed" /\ h.base = send[c].base /\ h.start = send[c].start
               \/ /\ AppendAtomically(c)
                  /\ h.pc = "committed" /\ h.rev = revision + 1
               \/ /\ GetContent(c)
                  /\ h.pc = "content read" /\ h.rev = send[c].rev /\ h.text = content
               \/ /\ SetContent(c)
                  /\ h.pc = "content written" /\ h.rev = send[c].rev
                  /\ h.text = Append(send[c].text, send[c].rev)
               \/ (Broadcast(c) \/ FailSend(c)) /\ h.pc = "idle"
      BY <1>0, <1>1, HandlerMoves
    <2>3. /\ OneInFlight' /\ send'[c] = h
          /\ \A d \in Clients \ {c} : send'[d] = send[d] /\ send[d].pc = "idle"
      BY <1>0, <2>1, <2>2, OneMoves
    <2>4. ASSUME NEW d \in Clients \ {c}
          PROVE  send'[d].pc = "idle" /\ d \notin Committing'
      BY <2>3 DEF Committing
    <2>5. /\ send'[c].pc \in {"started", "transformed"} =>
               send'[c].start = revision' /\ revision' <= send'[c].base + MaxLag
          /\ c \in Committing' => send'[c].rev = revision'
      <3>1. CASE h.pc = "started"
        <4>1. PICK base \in 0..revision : SendOperation(c, base) /\ h.base = base /\ h.start = revision
          BY <2>2, <3>1
        <4>2. revision' = revision /\ revision <= base + MaxLag
          BY <4>1 DEF SendOperation, redis
        <4> QED
          BY <2>3, <3>1, <4>1, <4>2 DEF Committing
      <3>2. CASE h.pc = "transformed"
        <4>1. /\ send[c].pc = "started" /\ revision' = revision
              /\ h.base = send[c].base /\ h.start = send[c].start
          BY <2>2, <3>2 DEF TransformAgainstLog, redis
        <4> QED
          BY <2>3, <3>2, <4>1 DEF Committing, NothingBetween
      <3>3. CASE h.pc = "committed"
        <4>1. revision' = revision + 1 /\ h.rev = revision + 1
          BY <2>2, <3>3 DEF AppendAtomically
        <4> QED
          BY <2>3, <3>3, <4>1
      <3>4. CASE h.pc \in {"content read", "content written"}
        <4>1. c \in Committing /\ revision' = revision /\ h.rev = send[c].rev
          BY <2>2, <3>4 DEF GetContent, SetContent, Committing, redis
        <4> QED
          BY <2>3, <3>4, <4>1 DEF NothingBetween
      <3>5. CASE h.pc = "idle"
        BY <2>3, <3>5 DEF Committing
      <3> QED
        BY <2>2, <3>1, <3>2, <3>3, <3>4, <3>5
    <2>6. \A o \in history' : o.rev = o.start + 1 /\ o.start <= o.base + MaxLag
      <3>1. CASE AppendAtomically(c)
        <4> DEFINE op == [rev |-> revision + 1, client |-> c, base |-> send[c].base,
                          start |-> send[c].start, against |-> send[c].seen]
        <4>1. history' = history \union {op} /\ send[c].pc = "transformed"
          BY <3>1 DEF AppendAtomically
        <4>2. op.rev = revision + 1 /\ op.start = send[c].start /\ op.base = send[c].base
          OBVIOUS
        <4> HIDE DEF op
        <4>3. send[c].start = revision /\ revision <= send[c].base + MaxLag
          BY <4>1 DEF NothingBetween
        <4> QED
          BY <4>1, <4>2, <4>3 DEF NothingBetween
      <3>2. CASE history' = history
        BY <3>2, SMTT(30) DEF NothingBetween
      <3>3. AppendAtomically(c) \/ history' = history
        BY <1>1 DEF HandlerStep, SendOperation, TransformAgainstLog, GetContent, SetContent, Broadcast,
                    FailSend
      <3> QED
        BY <3>1, <3>2, <3>3
    <2>7. NothingBetween'
      BY <2>4, <2>5, <2>6 DEF NothingBetween
    <2> QED
      BY <2>3, <2>7
  <1>2. CASE \/ \E c \in Clients : Disconnect(c) \/ CatchUp(c)
             \/ \E job \in jobs : SaveSnapshot(job) \/ PruneOperationsOlderThan(job) \/ FailCompaction(job)
             \/ UNCHANGED vars
    BY <1>2, NotHandlers, AloneAside
  <1> QED
    BY <1>1, <1>2 DEF Next, Compaction

\* With one handler at a time, and clients that are no further behind than the log
\* is kept, the resolver gets all it needs: an operation is committed having been
\* transformed against exactly those between its base and itself
\* (editorHub.ts:442-450).
THEOREM AloneTransformComplete ==
  ASSUME MaxInFlight = 1, MaxLag <= KeepRevisions
  PROVE  Spec => []TransformComplete
  <1>1. Init => OneInFlight /\ NothingBetween
    BY InitAlone
  <1>2. IInv /\ OneInFlight /\ NothingBetween /\ [Next]_vars => OneInFlight' /\ NothingBetween'
    BY NextAlone
  <1>3. IInv /\ NothingBetween => TransformComplete
    <2> SUFFICES ASSUME IInv, NothingBetween, NEW o \in history
                 PROVE  o.against = (o.base + 1)..(o.rev - 1)
      BY DEF TransformComplete
    <2>1. /\ o.rev \in Nat /\ o.base \in Nat /\ o.start \in Nat /\ MaxLag \in Nat /\ KeepRevisions \in Nat
          /\ o.rev = o.start + 1 /\ o.start <= o.base + MaxLag
      BY CommittedFields, PipelineAssumption DEF IInv, TypeOK, NothingBetween
    <2>2. /\ o.against \subseteq (o.base + 1)..(o.rev - 1)
          /\ o.rev <= o.base + KeepRevisions + 1 => (o.base + 1)..o.start \subseteq o.against
      BY DEF IInv, TransformedAgainstSeen
    <2>3. o.rev <= o.base + KeepRevisions + 1 /\ o.start = o.rev - 1
      BY <2>1
    <2> QED
      BY <2>2, <2>3
  <1> QED
    BY <1>1, <1>2, <1>3, Inductive, PTL DEF Spec

-----------------------------------------------------------------------------
(***************************************************************************)
(* The hot text and the snapshots, with one handler at a time and no       *)
(* failures                                                                *)
(***************************************************************************)

\* The text that results from the first n operations.
Upto(n) == [i \in 1..n |-> i]

LEMMA UptoType ==
  ASSUME NEW n \in Nat
  PROVE  Upto(n) \in Seq(Nat) /\ Len(Upto(n)) = n /\ \A i \in 1..n : Upto(n)[i] = i
  <1>1. Upto(n) \in [1..n -> Nat]
    BY DEF Upto
  <1>2. Upto(n) \in Seq(Nat)
    BY <1>1, SeqDef
  <1>3. Len(Upto(n)) = n
    BY <1>1, <1>2, LenProperties DEF Upto
  <1> QED
    BY <1>2, <1>3 DEF Upto

LEMMA AppendUpto ==
  ASSUME NEW n \in Nat
  PROVE  Append(Upto(n), n + 1) = Upto(n + 1)
  <1> DEFINE longer == Append(Upto(n), n + 1)
  <1>1. Upto(n) \in Seq(Nat) /\ Len(Upto(n)) = n /\ (\A i \in 1..n : Upto(n)[i] = i) /\ n + 1 \in Nat
    BY UptoType
  <1>2. /\ longer \in Seq(Nat) /\ Len(longer) = n + 1
        /\ \A i \in 1..n : longer[i] = Upto(n)[i]
        /\ longer[n + 1] = n + 1
    BY <1>1, AppendProperties
  <1>3. Upto(n + 1) \in Seq(Nat) /\ Len(Upto(n + 1)) = n + 1 /\ \A i \in 1..(n + 1) : Upto(n + 1)[i] = i
    BY <1>1, UptoType
  <1> HIDE DEF longer
  <1>4. \A i \in 1..(n + 1) : longer[i] = Upto(n + 1)[i]
    <2> SUFFICES ASSUME NEW i \in 1..(n + 1) PROVE longer[i] = i
      BY <1>3
    <2>1. CASE i = n + 1
      BY <1>2, <2>1
    <2>2. CASE i \in 1..n
      BY <1>1, <1>2, <2>2
    <2> QED
      BY <2>1, <2>2
  <1>5. longer = Upto(n + 1)
    BY <1>2, <1>3, <1>4, SeqEqual
  <1> QED
    BY <1>5 DEF longer

\* The text lacks what the running handler has committed and not applied yet.
TextSoFar ==
  /\ Committing = {} => content = Upto(revision)
  /\ \A c \in Committing :
       /\ revision # 0
       /\ send[c].pc \in {"committed", "content read"} => content = Upto(revision - 1)
       /\ send[c].pc = "content read" => send[c].text = Upto(revision - 1)
       /\ send[c].pc = "content written" => content = Upto(revision) /\ send[c].text = Upto(revision)

LEMMA NextText ==
  ASSUME MaxInFlight = 1, MaxFailures = 0, IInv, OneInFlight, NothingBetween, TextSoFar, [Next]_vars
  PROVE  TextSoFar'
  <1>0. TypeOK /\ revision \in Nat
    BY DEF IInv, TypeOK
  <1>1. ASSUME NEW c \in Clients,
               \/ \E base \in 0..revision : SendOperation(c, base)
               \/ HandlerStep(c) \/ FailSend(c)
        PROVE  TextSoFar'
    <2>1. InFlight = {} \/ c \in InFlight
      BY <1>0, <1>1, HandlerMoves
    <2>2. PICK h \in Handler :
            /\ send' = [send EXCEPT ![c] = h]
            /\ \/ \E base \in 0..revision :
                    /\ SendOperation(c, base)
                    /\ h.pc = "started" /\ h.base = base /\ h.start = revision
               \/ /\ TransformAgainstLog(c)
                  /\ h.pc = "transformed" /\ h.base = send[c].base /\ h.start = send[c].start
               \/ /\ AppendAtomically(c)
                  /\ h.pc = "committed" /\ h.rev = revision + 1
               \/ /\ GetContent(c)
                  /\ h.pc = "content read" /\ h.rev = send[c].rev /\ h.text = content
               \/ /\ SetContent(c)
                  /\ h.pc = "content written" /\ h.rev = send[c].rev
                  /\ h.text = Append(send[c].text, send[c].rev)
               \/ (Broadcast(c) \/ FailSend(c)) /\ h.pc = "idle"
      BY <1>0, <1>1, HandlerMoves
    <2>3. /\ send'[c] = h
          /\ Committing' = IF h.pc \in {"committed", "content read", "content written"} THEN {c} ELSE {}
          /\ Committing \subseteq {c}
      BY <1>0, <2>1, <2>2, OneMoves
    <2>4. ~FailSend(c)
      <3>1. failures \in Nat
        BY <1>0 DEF TypeOK
      <3>2. ~(failures < MaxFailures)
        BY ONLY <3>1, MaxFailures = 0
      <3> QED
        BY <3>2 DEF FailSend
    <2>5. CASE h.pc \in {"started", "transformed"}
      <3>1. c \notin Committing /\ UNCHANGED <<revision, content>>
        BY <2>2, <2>5 DEF SendOperation, TransformAgainstLog, Committing, redis
      <3> QED
        BY <2>3, <2>5, <3>1 DEF TextSoFar
    <2>6. CASE h.pc = "committed"
      <3>1. c \notin Committing /\ revision' = revision + 1 /\ content' = content
        BY <2>2, <2>6 DEF AppendAtomically, Committing
      <3>2. content' = Upto(revision)
        BY <2>3, <3>1 DEF TextSoFar
      <3>3. revision' - 1 = revision /\ revision' # 0
        BY <1>0, <3>1
      <3> QED
        BY <2>3, <2>6, <3>2, <3>3 DEF TextSoFar
    <2>7. CASE h.pc = "content read"
      <3>1. send[c].pc = "committed" /\ c \in Committing /\ h.text = content /\ UNCHANGED <<revision, content>>
        BY <2>2, <2>7 DEF GetContent, Committing, redis
      <3> QED
        BY <2>3, <2>7, <3>1 DEF TextSoFar
    <2>8. CASE h.pc = "content written"
      <3>1. /\ send[c].pc = "content read" /\ c \in Committing
            /\ h.text = Append(send[c].text, send[c].rev) /\ content' = Append(send[c].text, send[c].rev)
            /\ revision' = revision
        BY <2>2, <2>8 DEF SetContent, Committing
      <3>2. send[c].text = Upto(revision - 1) /\ send[c].rev = revision
        BY <3>1 DEF TextSoFar, NothingBetween
      <3>3. revision - 1 \in Nat /\ (revision - 1) + 1 = revision
        <4>1. revision \in Nat
          BY <1>0 DEF TypeOK
        <4>2. revision # 0
          BY <3>1 DEF TextSoFar
        <4> QED
          BY ONLY <4>1, <4>2
      <3>4. h.text = Upto(revision) /\ content' = Upto(revision)
        BY <3>1, <3>2, <3>3, AppendUpto
      <3> QED
        BY <2>3, <2>8, <3>1, <3>4 DEF TextSoFar
    <2>9. CASE h.pc = "idle"
      <3>1. send[c].pc = "content written" /\ c \in Committing /\ UNCHANGED <<revision, content>>
        BY <2>2, <2>4, <2>9 DEF Broadcast, Committing, redis
      <3> QED
        BY <2>3, <2>9, <3>1 DEF TextSoFar
    <2> QED
      BY <2>2, <2>5, <2>6, <2>7, <2>8, <2>9
  <1>2. CASE \/ \E c \in Clients : Disconnect(c) \/ CatchUp(c)
             \/ \E job \in jobs : SaveSnapshot(job) \/ PruneOperationsOlderThan(job) \/ FailCompaction(job)
             \/ UNCHANGED vars
    <2>1. UNCHANGED <<revision, send, history, content>>
      BY <1>2, NotHandlers
    <2> QED
      BY <2>1, AloneAside DEF TextSoFar
  <1> QED
    BY <1>1, <1>2 DEF Next, Compaction

\* With one handler at a time and no failures, what is hot is the result of every
\* committed operation, in their order (editorHub.ts:450-454).
THEOREM AloneHotContentCurrent ==
  ASSUME MaxInFlight = 1, MaxFailures = 0
  PROVE  Spec => []HotContentCurrent
  <1> DEFINE Inv == OneInFlight /\ NothingBetween /\ TextSoFar
  <1>1. Init => Inv
    <2> SUFFICES ASSUME Init PROVE Inv
      OBVIOUS
    <2>1. content = Upto(0) /\ revision = 0
      <3>1. Upto(0) = <<>>
        BY UptoType, EmptySeq
      <3> QED
        BY <3>1 DEF Init
    <2> QED
      BY <2>1, InitAlone DEF TextSoFar
  <1>2. IInv /\ Inv /\ [Next]_vars => Inv'
    BY NextAlone, NextText
  <1>3. Inv => HotContentCurrent
    BY DEF TextSoFar, HotContentCurrent, Upto
  <1> QED
    BY <1>1, <1>2, <1>3, Inductive, PTL DEF Spec

\* The compactions under way are of revisions not far apart, and so is the snapshot
\* from those that have stored theirs; what was pruned is older than all of them.
JobsClose ==
  /\ \A job \in jobs : job.text = Upto(job.rev)
  /\ snapshot # NoSnapshot => snapshot.text = Upto(snapshot.revision)
  /\ \A j, k \in jobs : j.rev <= k.rev + MaxJobLag
  /\ \A job \in jobs : job.pc = "prune" =>
       snapshot # NoSnapshot /\ job.rev <= snapshot.revision + MaxJobLag
  /\ \A o \in history \ log :
       /\ snapshot # NoSnapshot /\ o.rev <= snapshot.revision
       /\ \A job \in jobs : o.rev <= job.rev

LEMMA JobsCloseAside ==
  ASSUME JobsClose, UNCHANGED <<jobs, snapshot>>,
         \A o \in history' \ log' : o \in history \ log
  PROVE  JobsClose'
  BY DEF JobsClose

LEMMA NextJobs ==
  ASSUME MaxInFlight = 1, MaxJobLag <= KeepRevisions + 1,
         IInv, OneInFlight, NothingBetween, TextSoFar, JobsClose, [Next]_vars
  PROVE  JobsClose'
  <1>0. /\ TypeOK /\ revision \in Nat /\ MaxJobLag \in Nat /\ KeepRevisions \in Nat
        /\ \A job \in jobs : job \in Job /\ job.rev \in Nat /\ job.rev <= revision
        /\ \A o \in history : o.rev \in Nat /\ o.rev <= revision
        /\ snapshot # NoSnapshot => snapshot.revision \in Nat
    <2>1. \A o \in history : o.rev \in 1..revision
      BY DEF IInv, RevisionsGapless, Revisions
    <2> QED
      BY <2>1, PipelineAssumption DEF IInv, TypeOK, NobodyAhead, Job
  <1>1. ASSUME NEW c \in Clients, AppendAtomically(c)
        PROVE  JobsClose'
    <2> DEFINE op == [rev |-> revision + 1, client |-> c, base |-> send[c].base,
                      start |-> send[c].start, against |-> send[c].seen]
    <2>1. /\ log' = log \union {op} /\ history' = history \union {op} /\ UNCHANGED <<jobs, snapshot>>
      BY <1>1 DEF AppendAtomically
    <2> HIDE DEF op
    <2> QED
      BY <2>1, JobsCloseAside
  <1>2. ASSUME NEW c \in Clients, Broadcast(c)
        PROVE  JobsClose'
    <2> DEFINE new == [rev |-> send[c].rev, text |-> send[c].text, pc |-> "save"]
    <2>1. UNCHANGED <<log, history, snapshot>>
      BY <1>2 DEF Broadcast, redis
    <2>2. CASE UNCHANGED jobs
      BY <2>1, <2>2, JobsCloseAside
    <2>3. CASE ~UNCHANGED jobs
      <3>1. /\ \A job \in jobs : send[c].rev <= job.rev + MaxJobLag
            /\ jobs' = jobs \union {new}
        BY <1>2, <2>3 DEF Broadcast
      <3>2. c \in Committing /\ send[c].pc = "content written"
        BY <1>2 DEF Broadcast, Committing
      <3>3. send[c].rev = revision /\ send[c].text = Upto(revision)
        BY <3>2 DEF NothingBetween, TextSoFar
      <3>4. new.rev = revision /\ new.text = Upto(new.rev) /\ new.pc = "save"
        BY <3>3
      <3> HIDE DEF new
      <3>5. \A job \in jobs' : job.text = Upto(job.rev)
        BY <3>1, <3>4 DEF JobsClose
      <3>6. \A j, k \in jobs' : j.rev <= k.rev + MaxJobLag
        BY <1>0, <3>1, <3>3, <3>4 DEF JobsClose
      <3>7. \A job \in jobs' : job.pc = "prune" =>
              snapshot # NoSnapshot /\ job.rev <= snapshot.revision + MaxJobLag
        BY <3>1, <3>4 DEF JobsClose
      <3>8. \A o \in history \ log :
              /\ snapshot # NoSnapshot /\ o.rev <= snapshot.revision
              /\ \A job \in jobs' : o.rev <= job.rev
        BY <1>0, <3>1, <3>4 DEF JobsClose
      <3> QED
        BY <2>1, <3>5, <3>6, <3>7, <3>8 DEF JobsClose
    <2> QED
      BY <2>2, <2>3
  <1>3. ASSUME NEW job \in jobs, SaveSnapshot(job)
        PROVE  JobsClose'
    <2> DEFINE next == [job EXCEPT !.pc = "prune"]
               stored == [revision |-> job.rev, text |-> job.text]
    <2>1. /\ UNCHANGED <<log, history>> /\ snapshot' = stored
          /\ jobs' = (jobs \ {job}) \union {next} \/ jobs' = jobs \ {job}
      BY <1>3 DEF SaveSnapshot
    <2>2. stored.revision = job.rev /\ stored.text = job.text /\ stored # NoSnapshot
      BY <1>0, PipelineAssumption DEF Job
    <2>3. next.rev = job.rev /\ next.text = job.text
      BY <1>0 DEF Job
    <2> HIDE DEF next, stored
    <2>4. \A j \in jobs' : \E k \in jobs : j.rev = k.rev /\ j.text = k.text
      BY <2>1, <2>3
    <2>5. \A j \in jobs' : j.text = Upto(j.rev) /\ j.rev <= job.rev + MaxJobLag
      BY <2>4 DEF JobsClose
    <2>6. \A j, k \in jobs' : j.rev <= k.rev + MaxJobLag
      BY <2>4 DEF JobsClose
    <2>7. \A o \in history \ log : o.rev <= job.rev /\ \A j \in jobs' : o.rev <= j.rev
      BY <2>4 DEF JobsClose
    <2>8. job.text = Upto(job.rev)
      BY DEF JobsClose
    <2> QED
      BY <2>1, <2>2, <2>5, <2>6, <2>7, <2>8 DEF JobsClose
  <1>4. ASSUME NEW job \in jobs, PruneOperationsOlderThan(job)
        PROVE  JobsClose'
    <2>1. /\ job.pc = "prune" /\ log' = {o \in log : o.rev >= job.rev - KeepRevisions}
          /\ jobs' = jobs \ {job} /\ UNCHANGED <<history, snapshot>>
      BY <1>4 DEF PruneOperationsOlderThan
    <2>2. snapshot # NoSnapshot /\ job.rev <= snapshot.revision + MaxJobLag
      BY <2>1 DEF JobsClose
    <2>3. \A o \in history' \ log' :
            /\ snapshot # NoSnapshot /\ o.rev <= snapshot.revision
            /\ \A k \in jobs' : o.rev <= k.rev
      <3> SUFFICES ASSUME NEW o \in history, o \notin log'
                   PROVE  o.rev <= snapshot.revision /\ \A k \in jobs' : o.rev <= k.rev
        BY <2>1, <2>2
      <3>1. CASE o \notin log
        BY <2>1, <3>1 DEF JobsClose
      <3>2. CASE o \in log
        <4>1. o.rev < job.rev - KeepRevisions
          BY <1>0, <2>1, <3>2
        <4>2. o.rev <= snapshot.revision
          BY <1>0, <2>2, <4>1
        <4>3. ASSUME NEW k \in jobs' PROVE o.rev <= k.rev
          <5>1. k \in jobs /\ job.rev <= k.rev + MaxJobLag
            BY <2>1, <4>3 DEF JobsClose
          <5> QED
            BY <1>0, <4>1, <5>1
        <4> QED
          BY <4>2, <4>3
      <3> QED
        BY <3>1, <3>2
    <2> QED
      BY <2>1, <2>3 DEF JobsClose
  <1>5. ASSUME NEW job \in jobs, FailCompaction(job)
        PROVE  JobsClose'
    <2>1. UNCHANGED <<log, history, snapshot>> /\ jobs' = jobs \ {job}
      BY <1>5 DEF FailCompaction, redis
    <2> QED
      BY <2>1 DEF JobsClose
  <1>6. ASSUME NEW c \in Clients,
               \/ \E base \in 0..revision : SendOperation(c, base)
               \/ TransformAgainstLog(c) \/ GetContent(c) \/ SetContent(c)
               \/ FailSend(c) \/ Disconnect(c) \/ CatchUp(c)
        PROVE  JobsClose'
    <2>1. UNCHANGED <<jobs, snapshot, log, history>>
      BY <1>6 DEF SendOperation, TransformAgainstLog, GetContent, SetContent, FailSend, Disconnect,
                  CatchUp, Rejoin, SendMissed, ResyncComplete, redis
    <2> QED
      BY <2>1, JobsCloseAside, SMTT(30)
  <1>7. CASE UNCHANGED vars
    BY <1>7, JobsCloseAside DEF vars, redis
  <1> QED
    BY <1>1, <1>2, <1>3, <1>4, <1>5, <1>6, <1>7 DEF Next, HandlerStep, Compaction

\* With one handler at a time, no failures, and compactions that are not overtaken
\* by more revisions than are kept: the snapshot is the document at its revision,
\* and every operation after it is in the log (editorHub.ts:461-477,
\* operationLog.ts:156-169, 187-197).
THEOREM AloneSnapshotMeetsLog ==
  ASSUME MaxInFlight = 1, MaxFailures = 0, MaxJobLag <= KeepRevisions + 1
  PROVE  Spec => []SnapshotMeetsLog
  <1> DEFINE Inv == OneInFlight /\ NothingBetween /\ TextSoFar /\ JobsClose
  <1>1. Init => Inv
    <2> SUFFICES ASSUME Init PROVE Inv
      OBVIOUS
    <2>1. content = Upto(0) /\ revision = 0
      <3>1. Upto(0) = <<>>
        BY UptoType, EmptySeq
      <3> QED
        BY <3>1 DEF Init
    <2>2. JobsClose
      BY DEF Init, JobsClose
    <2> QED
      BY <2>1, <2>2, InitAlone DEF TextSoFar
  <1>2. IInv /\ Inv /\ [Next]_vars => Inv'
    BY NextAlone, NextText, NextJobs
  <1>3. IInv /\ Inv => SnapshotMeetsLog
    <2> SUFFICES ASSUME IInv, Inv PROVE SnapshotMeetsLog
      OBVIOUS
    <2>1. SnapshotFaithful
      BY DEF JobsClose, SnapshotFaithful, Upto
    <2>2. CASE snapshot = NoSnapshot
      <3>1. history \subseteq log /\ log \subseteq history
        BY <2>2 DEF JobsClose, IInv
      <3> QED
        BY <2>1, <2>2, <3>1 DEF SnapshotMeetsLog
    <2>3. CASE snapshot # NoSnapshot
      <3>1. ASSUME NEW o \in history, o.rev > snapshot.revision PROVE o \in log
        <4>1. o.rev \in Nat /\ snapshot.revision \in Nat
          BY <2>3, CommittedFields DEF IInv, TypeOK
        <4> QED
          BY <3>1, <4>1 DEF JobsClose
      <3> QED
        BY <2>1, <2>3, <3>1 DEF SnapshotMeetsLog
    <2> QED
      BY <2>2, <2>3
  <1> QED
    BY <1>1, <1>2, <1>3, Inductive, PTL DEF Spec
=============================================================================
