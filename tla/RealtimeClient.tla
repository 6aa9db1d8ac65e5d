--------------------------- MODULE RealtimeClient ---------------------------
(***************************************************************************)
(* The browser's one multiplexed connection (RealtimeService) and the part *)
(* of the hub that answers it: which documents and workspaces the client   *)
(* follows, which ones its connection is a member of, and how the two are  *)
(* brought together again after the connection was lost.  A message is a   *)
(* kind and the room it names; what it carries does not matter here.       *)
(* socket.io keeps the order of messages, buffers what is emitted while it *)
(* is not connected, reconnects by itself after a loss, and loses what was *)
(* on its way.  The server starts every connection with no membership.     *)
(***************************************************************************)
EXTENDS Integers, Sequences, FiniteSets, SequencesExt

CONSTANTS Docs, Workspaces, NoDoc, MaxEmits, MaxDrops, MaxEvents

(* The ids of documents and of projects are UUIDs of two tables. *)
ASSUME RealtimeAssumption == IsFiniteSet(Workspaces) /\ Docs \cap Workspaces = {}

VARIABLES
  editor,       \* [Docs -> "none", "loading" or "joined"]: its editor's tab
  states,       \* the keys of documentStates, in the order of the Map
  subscribers,  \* [Docs -> count], of the documents in states
  currentDoc,   \* currentDocumentId
  wanted,       \* activeWorkspaceIds
  link,         \* "off", "connecting" (by itself, too) or "up"
  staleToken,   \* does socket.auth hold a token other than the session's
  outbox,       \* emitted: buffered, or on its way when the link is up
  inbox,        \* documents of the events on their way to the client
  joining,      \* [Docs -> the JoinDocuments the hub has begun]
  members,      \* the documents the connection was added to
  rooms,        \* the workspaces the connection is in
  refused,      \* documents whose join was answered with an error
  excused,      \* rooms left in a way that can leave the membership behind
  emits, drops, events  \* bounds

realtimeVars == <<editor, states, subscribers, currentDoc, wanted, link,
                  staleToken, outbox, inbox, joining, members, rooms, refused,
                  excused, emits, drops, events>>

hubVars == <<joining, members, rooms, refused>>
boundVars == <<drops, events>>

Rooms == Docs \cup Workspaces
Msg(kind, room) == [kind |-> kind, room |-> room]
Shown(d) == editor[d] # "none"

RealtimeInit ==
  /\ editor = [d \in Docs |-> "none"] /\ states = <<>>
  /\ subscribers = [d \in Docs |-> 0] /\ currentDoc = NoDoc /\ wanted = {}
  /\ link = "off" /\ staleToken = FALSE /\ outbox = <<>> /\ inbox = <<>>
  /\ joining = [d \in Docs |-> 0] /\ members = {} /\ rooms = {} /\ refused = {}
  /\ excused = {} /\ emits = 0 /\ drops = 0 /\ events = 0

(* getOrCreateDocumentState: a document nobody asked for gets a state too,   *)
(* with no subscribers.                                                      *)
GetOrCreate(d) == IF d \in ToSet(states) THEN states ELSE Append(states, d)

(* startConnection: a connection with another token is closed and made anew. *)
StartConnection ==
  /\ link' = IF link = "up" /\ ~staleToken THEN "up" ELSE "connecting"
  /\ staleToken' = FALSE

(* An emit that starts the connection first: what was on its way over a      *)
(* connection closed for its token is lost with it.                          *)
EmitAfterStart(m) ==
  /\ emits < MaxEmits /\ emits' = emits + 1
  /\ StartConnection
  /\ outbox' = Append(IF link = "up" /\ staleToken THEN <<>> ELSE outbox, m)
  /\ IF link = "up" /\ staleToken
     THEN /\ inbox' = <<>> /\ joining' = [d \in Docs |-> 0]
          /\ members' = {} /\ rooms' = {} /\ UNCHANGED refused
     ELSE UNCHANGED <<inbox, hubVars>>

(* A tab is opened: while its editor loads, the signals it computes already  *)
(* create the document's state, and a reconnection would join it.            *)
OpenEditor(d) ==
  /\ ~Shown(d) /\ editor' = [editor EXCEPT ![d] = "loading"]
  /\ emits < MaxEmits /\ emits' = emits + 1
  /\ states' = GetOrCreate(d) /\ currentDoc' = d
  /\ subscribers' = IF d \in ToSet(states) THEN subscribers
                    ELSE [subscribers EXCEPT ![d] = 0]
  /\ excused' = excused \ {d}
  /\ UNCHANGED <<wanted, link, staleToken, outbox, inbox, hubVars, boundVars>>

(* joinDocument, once the editor has loaded its document.                    *)
JoinLoaded(d) ==
  /\ editor[d] = "loading" /\ editor' = [editor EXCEPT ![d] = "joined"]
  /\ currentDoc' = d
  /\ states' = GetOrCreate(d)
  /\ subscribers' = [subscribers EXCEPT ![d] = @ + 1]
  /\ EmitAfterStart(Msg("join", d))
  /\ UNCHANGED <<wanted, excused, boundVars>>

Unanswered(d) ==
  \/ joining[d] > 0
  \/ \E i \in DOMAIN outbox : outbox[i] = Msg("join", d)

(* leaveDocument that forgets to delete the state of the document.           *)
LeaveKeepsState(d) ==
  LET last == d \in ToSet(states) /\ subscribers[d] <= 1 IN
  /\ Shown(d) /\ editor' = [editor EXCEPT ![d] = "none"]
  /\ subscribers' = [subscribers EXCEPT ![d] = 0]
  /\ outbox' = IF last /\ link = "up" THEN Append(outbox, Msg("leave", d)) ELSE outbox
  /\ excused' = IF last /\ (link # "up" \/ Unanswered(d))
                THEN excused \cup {d} ELSE excused
  /\ UNCHANGED <<states, currentDoc, wanted, link, staleToken, inbox, hubVars,
                 emits, boundVars>>

(* leaveDocument, when an editor is destroyed: the last one leaves the room  *)
(* and deletes the state; the next document of the Map becomes the current.  *)
LeaveDocument(d) ==
  LET last == d \in ToSet(states) /\ subscribers[d] <= 1
      kept == IF last THEN RemoveFirst(states, d) ELSE states
  IN
  /\ Shown(d) /\ editor' = [editor EXCEPT ![d] = "none"]
  /\ states' = kept
  /\ subscribers' = [subscribers EXCEPT ![d] = IF last THEN 0 ELSE @ - 1]
  /\ outbox' = IF last /\ link = "up" THEN Append(outbox, Msg("leave", d)) ELSE outbox
  /\ currentDoc' = IF currentDoc # d THEN currentDoc
                   ELSE IF kept = <<>> THEN NoDoc ELSE Last(kept)
  /\ excused' = IF last /\ (link # "up" \/ Unanswered(d))
                THEN excused \cup {d} ELSE excused
  /\ UNCHANGED <<wanted, link, staleToken, inbox, hubVars, emits, boundVars>>

(* joinWorkspace, leaveWorkspace.                                            *)
JoinWorkspace(w) ==
  /\ w \notin wanted /\ wanted' = wanted \cup {w}
  /\ EmitAfterStart(Msg("joinWorkspace", w))
  /\ excused' = excused \ {w}
  /\ UNCHANGED <<editor, states, subscribers, currentDoc, boundVars>>

LeaveWorkspace(w) ==
  /\ w \in wanted /\ wanted' = wanted \ {w}
  /\ outbox' = IF link = "up" THEN Append(outbox, Msg("leaveWorkspace", w)) ELSE outbox
  /\ excused' = IF link = "up" THEN excused ELSE excused \cup {w}
  /\ UNCHANGED <<editor, states, subscribers, currentDoc, link, staleToken,
                 inbox, hubVars, emits, boundVars>>

(* sendUpdate, sendCursorPosition and the four comment operations: the       *)
(* comments touch the document's state first, and come back from the hub.    *)
Emit(d) ==
  /\ emits < MaxEmits /\ emits' = emits + 1
  /\ editor[d] = "joined"
  /\ states' = GetOrCreate(d)
  /\ outbox' = Append(outbox, Msg("event", d))
  /\ UNCHANGED <<editor, subscribers, currentDoc, wanted, link, staleToken,
                 inbox, hubVars, excused, boundVars>>

(* Another sign-in in this browser: the connection still has the old token.  *)
RenewToken ==
  /\ ~staleToken /\ link # "off" /\ staleToken' = TRUE
  /\ UNCHANGED <<editor, states, subscribers, currentDoc, wanted, link, outbox,
                 inbox, hubVars, excused, emits, boundVars>>

(* disconnect, on logout: the maps are cleared, the editors go with the      *)
(* page.  A connection that is being re-established is not stopped.          *)
Disconnect ==
  /\ states # <<>> \/ wanted # {}
  /\ editor' = [d \in Docs |-> "none"]
  /\ states' = <<>> /\ currentDoc' = NoDoc /\ wanted' = {}
  /\ subscribers' = [d \in Docs |-> 0]
  /\ excused' = excused \cup {outbox[i].room : i \in DOMAIN outbox}
  /\ IF link = "up"
     THEN /\ link' = "off" /\ outbox' = <<>> /\ inbox' = <<>>
          /\ joining' = [d \in Docs |-> 0] /\ members' = {} /\ rooms' = {}
          /\ UNCHANGED refused
     ELSE UNCHANGED <<link, outbox, inbox, hubVars>>
  /\ UNCHANGED <<staleToken, emits, boundVars>>

(* The connect handler: after the buffer, every document that has a state    *)
(* and every workspace is joined, the ones already in the buffer again.      *)
OnConnect ==
  /\ link = "connecting" /\ link' = "up"
  /\ outbox' = outbox \o [i \in DOMAIN states |-> Msg("join", states[i])]
                      \o SetToSeq({Msg("joinWorkspace", w) : w \in wanted})
  /\ UNCHANGED <<editor, states, subscribers, currentDoc, wanted, staleToken,
                 inbox, hubVars, excused, emits, boundVars>>

(* The connection is lost.                                                   *)
Drop ==
  /\ link = "up" /\ drops < MaxDrops /\ drops' = drops + 1
  /\ link' = "connecting" /\ outbox' = <<>> /\ inbox' = <<>>
  /\ joining' = [d \in Docs |-> 0] /\ members' = {} /\ rooms' = {}
  /\ UNCHANGED <<editor, states, subscribers, currentDoc, wanted, staleToken,
                 refused, excused, emits, events>>

(* The hub takes the next message: a join waits for the access check, the    *)
(* rest is done at once.  A leave that comes before the join was answered    *)
(* finds no member and is dropped.                                           *)
HubReceives ==
  LET m == Head(outbox) IN
  /\ link = "up" /\ outbox # <<>> /\ outbox' = Tail(outbox)
  /\ joining' = IF m.kind = "join" THEN [joining EXCEPT ![m.room] = @ + 1] ELSE joining
  /\ members' = IF m.kind = "leave" THEN members \ {m.room} ELSE members
  /\ rooms' = CASE m.kind = "joinWorkspace" -> rooms \cup {m.room}
                [] m.kind = "leaveWorkspace" -> rooms \ {m.room}
                [] OTHER -> rooms
  /\ inbox' = IF m.kind = "event" /\ m.room \in members
              THEN Append(inbox, m.room) ELSE inbox
  /\ UNCHANGED <<editor, states, subscribers, currentDoc, wanted, link,
                 staleToken, refused, excused, emits, boundVars>>

(* handleJoinDocument goes on: the connection is added to the document and   *)
(* hears of itself, or the join is refused; nobody tries again.              *)
HubJoins(d) ==
  /\ joining[d] > 0 /\ joining' = [joining EXCEPT ![d] = @ - 1]
  /\ members' = members \cup {d} /\ refused' = refused \ {d}
  /\ inbox' = IF d \in members THEN inbox ELSE Append(inbox, d)
  /\ UNCHANGED <<editor, states, subscribers, currentDoc, wanted, link,
                 staleToken, outbox, rooms, excused, emits, boundVars>>

HubRefuses(d) ==
  /\ events < MaxEvents /\ events' = events + 1
  /\ joining[d] > 0 /\ joining' = [joining EXCEPT ![d] = @ - 1]
  /\ refused' = refused \cup {d}
  /\ UNCHANGED <<editor, states, subscribers, currentDoc, wanted, link,
                 staleToken, outbox, inbox, members, rooms, excused, emits, drops>>

(* Another member does something the hub sends to the room.                  *)
HubSends(d) ==
  /\ events < MaxEvents /\ events' = events + 1
  /\ d \in members /\ inbox' = Append(inbox, d)
  /\ UNCHANGED <<editor, states, subscribers, currentDoc, wanted, link,
                 staleToken, outbox, hubVars, excused, emits, drops>>

(* ReceiveContentUpdate, UserJoined, UserLeft, ReceiveCursorUpdate and the   *)
(* comment events: an event of a document that was left brings its state     *)
(* back, and with it the join of the next reconnection.                      *)
OnEvent ==
  LET d == Head(inbox) IN
  /\ inbox # <<>> /\ inbox' = Tail(inbox)
  /\ states' = GetOrCreate(d)
  /\ subscribers' = IF d \in ToSet(states) THEN subscribers
                    ELSE [subscribers EXCEPT ![d] = 0]
  /\ excused' = IF d \in ToSet(states) THEN excused ELSE excused \cup {d}
  /\ UNCHANGED <<editor, currentDoc, wanted, link, staleToken, outbox, hubVars,
                 emits, boundVars>>

RealtimeProgress ==
  OnConnect \/ HubReceives \/ OnEvent \/ \E d \in Docs : HubJoins(d)

RealtimeNext ==
  \/ \E d \in Docs : OpenEditor(d) \/ JoinLoaded(d) \/ LeaveDocument(d)
  \/ \E w \in Workspaces : JoinWorkspace(w) \/ LeaveWorkspace(w)
  \/ \E d \in Docs : Emit(d) \/ HubRefuses(d) \/ HubSends(d)
  \/ RenewToken \/ Disconnect \/ Drop
  \/ RealtimeProgress

RealtimeSpec == RealtimeInit /\ [][RealtimeNext]_realtimeVars
                             /\ WF_realtimeVars(RealtimeProgress)

-----------------------------------------------------------------------------
(* A document with an editor has a state; a state counts the editor that     *)
(* joined, if there is one; the current document has a state.                *)
RealtimeTypeOK ==
  /\ states \in Seq(Docs) /\ Cardinality(ToSet(states)) = Len(states)
  /\ \A d \in Docs : Shown(d) => d \in ToSet(states)
  /\ \A d \in Docs : subscribers[d] = IF editor[d] = "joined" THEN 1 ELSE 0
  /\ currentDoc \in ToSet(states) \cup {NoDoc}
  /\ link \in {"off", "connecting", "up"} /\ wanted \subseteq Workspaces
  /\ members \cup refused \subseteq Docs /\ rooms \subseteq Workspaces

Quiet == link = "up" /\ outbox = <<>> /\ \A d \in Docs : joining[d] = 0
Joined(d) == editor[d] = "joined" => d \in members \cup refused

(* Once nothing is on its way, the connection is a member of every document  *)
(* whose editor joined, unless the join was refused, and in every workspace  *)
(* shown: after reconnections, renewed tokens, and however editors open,     *)
(* close and open again.                                                     *)
JoinedWhenQuiet ==
  Quiet => wanted \subseteq rooms /\ \A d \in Docs : Joined(d)

(* Once nothing is on its way, the connection is in no room the client has   *)
(* left, except where it left while it was not connected, before its join    *)
(* was answered, or where a late event brought the document's state back.    *)
GhostsExplained ==
  Quiet => /\ \A d \in members : Shown(d) \/ d \in excused
           /\ rooms \subseteq wanted \cup excused

(* Both: once nothing is on its way, the connection is in the rooms the page *)
(* shows, and in no other but for the cases named (startConnection,          *)
(* leaveDocument, and what onConnect joins again).                           *)
RoomsFollowPage == JoinedWhenQuiet /\ GhostsExplained

(* An editor that stays open ends up a member of its document, or its join   *)
(* was refused: the client never waits for good for a join that was lost.    *)
EventuallyJoined == <>[](\A d \in Docs : Joined(d))
=============================================================================
