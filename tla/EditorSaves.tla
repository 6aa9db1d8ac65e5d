---------------------------- MODULE EditorSaves ----------------------------
(***************************************************************************)
(* One editor of one document in the browser (EditorComponent) and how the *)
(* user's text leaves it: at once into a draft in localStorage, after      *)
(* 150 ms to the collaborators, after 2 s of rest, on a manual save and on *)
(* closing by a PUT to the API.  A text is a number: 1, 2, ... are the     *)
(* user's, in the order written; the others are named below.  Save timers  *)
(* all wait 2 s, so they fire in the order they were set; PUTs may         *)
(* overtake one another.                                                   *)
(***************************************************************************)
EXTENDS Integers, Sequences, FiniteSets, SequencesExt

CONSTANTS MaxTyped, MaxSaves, MaxInFlight, MaxCrashes

VARIABLES
  stage,       \* "closed", "loading", "access", "ready", or "gone" for good
  shown,       \* codeSignal: the text in the editor
  editable,    \* isEditable
  draft,       \* the draft in localStorage
  saveTimers,  \* the texts of the save timers set and not fired, oldest first
  handle,      \* saveDebounceTimer: the place of the timer it names; or null
  sendTimer,   \* the text debounceTimer will send, if it is a foreign one
  puts,        \* the PUTs that have not returned, numbered as they were made
  putsMade,    \* the number of PUTs made
  server,      \* the document's content in the API
  formatting,  \* is the formatter at work
  typed,       \* texts the user wrote so far
  everStored,  \* texts this editor has stored
  sends,       \* foreign texts this editor has sent to the collaborators
  asked,       \* foreign texts the user asked to save, or closed the editor on
  dropped,     \* drafts removed by the answer to the save of another text
  restored,    \* is the text shown a draft that was restored
  outdated,    \* did loading show an older text than the last one written
  orphaned,    \* was the handle of a running timer lost
  overtaken,   \* was a PUT stored before an older one
  troubled,    \* did a PUT fail, or was editing not allowed
  saves, crashes \* bounds: saves the user asked for, reloads

editorVars == <<stage, shown, editable, draft, saveTimers, handle, sendTimer,
                puts, putsMade, server, formatting, typed, everStored,
                sends, asked, dropped, restored, outdated, orphaned,
                overtaken, troubled, saves, crashes>>

timerVars == <<saveTimers, handle, sendTimer, orphaned>>
putVars == <<puts, putsMade>>
storeVars == <<server, everStored, overtaken>>
viewVars == <<stage, shown, editable, restored>>
markVars == <<dropped, outdated, troubled>>
userVars == <<typed, asked, formatting, saves, crashes>>

Original == 0     \* what the document held
Placeholder == -1 \* "// Start typing to collaborate..."
Remote == -2      \* a collaborator's text
NoText == -3

Null == 0         \* handle: no timer
Fired == -1       \* handle: a timer that has fired and whose save goes on

EditorInit ==
  /\ stage = "closed" /\ shown = Placeholder /\ editable = TRUE
  /\ draft = NoText /\ saveTimers = <<>> /\ handle = Null
  /\ sendTimer = NoText /\ puts = {} /\ putsMade = 0 /\ server = Original
  /\ formatting = FALSE /\ typed = 0 /\ everStored = {} /\ sends = {}
  /\ asked = {} /\ dropped = {} /\ restored = FALSE /\ outdated = FALSE
  /\ orphaned = FALSE /\ overtaken = FALSE /\ troubled = FALSE /\ saves = 0 /\ crashes = 0

Mine(t) == t >= 1
Foreign(T) == {t \in T : ~Mine(t)}
Open == stage \in {"loading", "access", "ready"}

(* clearTimeout(this.saveDebounceTimer).                                     *)
Cleared == IF handle > 0 THEN RemoveAt(saveTimers, handle) ELSE saveTimers

(* scheduleDebounce with the clearTimeout forgotten.                         *)
ScheduleKeepsTimer(v) ==
  /\ draft' = v /\ sendTimer' = IF Mine(v) THEN NoText ELSE v
  /\ saveTimers' = Append(saveTimers, v) /\ handle' = Len(saveTimers')
  /\ UNCHANGED orphaned

(* scheduleDebounce.                                                         *)
Schedule(v) ==
  /\ draft' = v /\ sendTimer' = IF Mine(v) THEN NoText ELSE v
  /\ saveTimers' = Append(Cleared, v) /\ handle' = Len(saveTimers')
  /\ UNCHANGED orphaned

(* "this.saveDebounceTimer = null" after the await: whichever timer it names *)
(* by then, a newer one too, is no longer known.                             *)
Release(h) == handle' = Null /\ orphaned' = (orphaned \/ h > 0)
ReleaseHandle(timed) ==
  IF timed THEN Release(handle) ELSE UNCHANGED <<handle, orphaned>>

(* saveToBackend, up to its await: nothing is sent for a read-only editor.   *)
Put(v, timed) ==
  IF editable
  THEN /\ putsMade' = putsMade + 1
       /\ puts' = puts \cup
            {[nr |-> putsMade + 1, text |-> v, timed |-> timed, state |-> "sent"]}
  ELSE UNCHANGED putVars

Ask == saves < MaxSaves /\ saves' = saves + 1 /\ asked' = asked \cup Foreign({shown})

(* ngOnInit: an editor starts with the placeholder, and editable.            *)
OpenEditorTab ==
  /\ stage = "closed" /\ stage' = "loading"
  /\ shown' = Placeholder /\ editable' = TRUE /\ restored' = FALSE
  /\ UNCHANGED <<draft, timerVars, putVars, storeVars, userVars, sends,
                 markVars>>

(* loadDocument: the content arrives; a draft that differs from it wins.     *)
LoadText ==
  LET useDraft == draft # NoText /\ draft # server IN
  /\ stage = "loading" /\ stage' = "access"
  /\ shown' = IF useDraft THEN draft ELSE server
  /\ restored' = useDraft
  /\ outdated' = (outdated \/ shown' < typed)
  /\ UNCHANGED <<editable, draft, timerVars, putVars, storeVars, userVars,
                 sends, dropped, troubled>>

(* Then the access level, which decides whether the text can be edited.      *)
LoadAccess ==
  /\ stage = "access" /\ stage' = "ready"
  /\ editable' \in BOOLEAN
  /\ troubled' = (troubled \/ ~editable')
  /\ UNCHANGED <<shown, restored, draft, timerVars, putVars, storeVars,
                 userVars, sends, dropped, outdated>>

(* The update listener, and the assistant's code applied to the text.        *)
Type ==
  /\ Open /\ editable /\ typed < MaxTyped /\ typed' = typed + 1
  /\ shown' = typed + 1 /\ restored' = FALSE
  /\ Schedule(typed + 1)
  /\ UNCHANGED <<stage, editable, putVars, storeVars, asked, formatting,
                 saves, crashes, sends, markVars>>

(* Mod-s in the editor.                                                      *)
ModS ==
  /\ Open /\ Schedule(shown) /\ Ask
  /\ UNCHANGED <<viewVars, putVars, storeVars, typed, formatting, crashes,
                 sends, markVars>>

(* triggerManualSave.                                                        *)
ManualSave ==
  /\ Open /\ Ask /\ Cardinality(puts) < MaxInFlight
  /\ saveTimers' = Cleared /\ handle' = Null
  /\ Put(shown, FALSE)
  /\ UNCHANGED <<viewVars, draft, sendTimer, orphaned, storeVars,
                 typed, formatting, crashes, sends, markVars>>

(* The content effect and updateEditorDocument: a collaborator's text takes  *)
(* the place of the one shown; isUpdatingFromRemote keeps the listener out.  *)
ContentUpdate ==
  /\ stage = "ready" /\ shown # Remote
  /\ shown' = Remote /\ restored' = FALSE
  /\ UNCHANGED <<stage, editable, draft, timerVars, putVars, storeVars,
                 userVars, sends, markVars>>

(* formatCode: the text is read, and replaced when the formatter is done,    *)
(* whatever the editor shows and may do by then.                             *)
FormatStart ==
  /\ stage = "ready" /\ editable /\ ~formatting /\ formatting' = TRUE
  /\ UNCHANGED <<viewVars, draft, timerVars, putVars, storeVars, typed, asked,
                 saves, crashes, sends, markVars>>

FormatEnd ==
  /\ formatting /\ formatting' = FALSE
  /\ \/ /\ typed < MaxTyped /\ typed' = typed + 1
        /\ shown' = typed + 1 /\ restored' = FALSE
        /\ Schedule(typed + 1)
     \/ UNCHANGED <<typed, shown, restored, draft, timerVars>>
  /\ UNCHANGED <<stage, editable, putVars, storeVars, asked, saves, crashes, sends,
                 markVars>>

(* The permission effect.                                                    *)
Permission ==
  /\ stage = "ready"
  /\ \/ editable /\ ~troubled /\ editable' = FALSE /\ troubled' = TRUE
     \/ ~editable /\ editable' = TRUE /\ UNCHANGED troubled
  /\ UNCHANGED <<stage, shown, restored, draft, timerVars, putVars, storeVars,
                 userVars, sends, dropped, outdated>>

(* The 150 ms timer: sent if the connection is up, else not at all.          *)
SendFires ==
  /\ sendTimer # NoText /\ sendTimer' = NoText
  /\ sends' \in {sends, sends \cup {sendTimer}}
  /\ UNCHANGED <<viewVars, draft, saveTimers, handle, orphaned,
                 putVars, storeVars, userVars, markVars>>

(* The 2 s timer; in a read-only editor its save is over at once.            *)
SaveFires ==
  LET named == IF handle = 1 THEN Fired ELSE IF handle > 1 THEN handle - 1 ELSE handle IN
  /\ saveTimers # <<>> /\ Cardinality(puts) < MaxInFlight
  /\ saveTimers' = Tail(saveTimers)
  /\ Put(Head(saveTimers), TRUE)
  /\ IF editable THEN handle' = named /\ UNCHANGED orphaned ELSE Release(named)
  /\ UNCHANGED <<viewVars, draft, sendTimer, storeVars, userVars, sends, markVars>>

(* The API stores the text of a PUT, of a page that is gone too.             *)
PutStored(p) ==
  /\ p.state \in {"sent", "lost"}
  /\ server' = p.text /\ everStored' = everStored \cup {p.text}
  /\ overtaken' = (overtaken \/ \E q \in puts : q.nr < p.nr /\ q.state # "stored")
  /\ puts' = (puts \ {p}) \cup
       IF p.state = "lost" THEN {} ELSE {[p EXCEPT !.state = "stored"]}
  /\ UNCHANGED <<viewVars, draft, timerVars, putsMade, userVars, sends, markVars>>

(* saveToBackend after its await: the draft goes, whatever text it holds.    *)
PutReturns(p) ==
  /\ p.state = "stored" /\ puts' = puts \ {p}
  /\ dropped' = IF draft \in {p.text, NoText} THEN dropped ELSE dropped \cup {draft}
  /\ draft' = NoText
  /\ ReleaseHandle(p.timed)
  /\ UNCHANGED <<viewVars, saveTimers, sendTimer, putsMade, storeVars, userVars, sends,
                 outdated, troubled>>

(* The PUT is refused or its answer is lost.                                 *)
Failed(p) ==
  /\ p.state \in {"sent", "stored"} /\ puts' = puts \ {p}
  /\ ~troubled /\ troubled' = TRUE
  /\ ReleaseHandle(p.timed)
  /\ editable' \in {editable, FALSE}
  /\ UNCHANGED <<stage, shown, restored, saveTimers, sendTimer, putsMade, storeVars,
                 userVars, sends, dropped, outdated>>

(* A failed save that takes the draft with it.                               *)
PutFailsDropsDraft(p) == Failed(p) /\ draft' = NoText

(* saveToBackend's catch: a refusal for lack of access makes the editor      *)
(* read-only; the draft stays, and nothing is sent again.                    *)
PutFails(p) == Failed(p) /\ UNCHANGED draft

(* onDestroy that clears the timers and saves nothing.                       *)
CloseForgets ==
  /\ Open /\ stage' = "gone" /\ sendTimer' = NoText
  /\ saveTimers' = Cleared /\ handle' = Null
  /\ UNCHANGED <<shown, editable, restored, draft, orphaned,
                 putVars, storeVars, userVars, sends, markVars>>

(* onDestroy: a handle that is set, even one of a timer that has fired,      *)
(* stands for a text to be saved.                                            *)
CloseEditor ==
  /\ Open /\ stage' = "gone" /\ sendTimer' = NoText
  /\ saveTimers' = Cleared /\ handle' = Null
  /\ IF handle # Null
     THEN Put(shown, FALSE) /\ asked' = asked \cup Foreign({shown})
     ELSE UNCHANGED <<putVars, asked>>
  /\ UNCHANGED <<shown, editable, restored, draft, orphaned,
                 storeVars, typed, formatting, saves, crashes, sends, markVars>>

(* The page is reloaded or dies: timers are gone, PUTs may still arrive.     *)
Crash ==
  /\ Open /\ crashes < MaxCrashes /\ crashes' = crashes + 1
  /\ stage' = "closed" /\ shown' = Placeholder /\ restored' = FALSE
  /\ saveTimers' = <<>> /\ handle' = Null /\ sendTimer' = NoText
  /\ puts' = {[p EXCEPT !.state = "lost"] : p \in {q \in puts : q.state # "stored"}}
  /\ formatting' = FALSE
  /\ UNCHANGED <<editable, draft, orphaned, putsMade, storeVars,
                 typed, asked, saves, sends, markVars>>

EditorProgress ==
  \/ LoadText \/ LoadAccess \/ SaveFires
  \/ \E p \in puts : PutStored(p) \/ PutReturns(p)

EditorNext ==
  \/ OpenEditorTab \/ Type \/ ModS \/ ManualSave \/ ContentUpdate
  \/ FormatStart \/ FormatEnd \/ Permission \/ SendFires \/ CloseEditor \/ Crash
  \/ \E p \in puts : PutFails(p)
  \/ EditorProgress

EditorSpec == EditorInit /\ [][EditorNext]_editorVars /\ WF_editorVars(EditorProgress)

-----------------------------------------------------------------------------
Texts == {Original, Placeholder, Remote} \cup 1..typed

(* Every text is one that exists; the timers and PUTs are of this editor;    *)
(* the timer the editor knows is the newest of those that are set.           *)
EditorTypeOK ==
  /\ {shown, server} \cup everStored \cup sends \cup asked \subseteq Texts
  /\ {draft, sendTimer} \cup dropped \subseteq Texts \cup {NoText}
  /\ ToSet(saveTimers) \subseteq Texts
  /\ \A p \in puts : p.nr \in 1..putsMade /\ p.text \in Texts
  /\ handle \in {Null, Fired} \cup DOMAIN saveTimers
  /\ handle > 0 => handle = Len(saveTimers)

(* A text the user wrote and still sees is in the draft or was stored, so a  *)
(* reload does not lose it, whatever fails; the exception is a draft that    *)
(* the answer to the save of an older text has removed.                      *)
DraftKept ==
  (Open /\ Mine(shown)) =>
    shown \in {draft} \cup everStored \cup dropped

(* The API never holds an older text of the user's over a newer one that was *)
(* stored, unless loading showed an older text, PUTs overtook one another,   *)
(* or the editor lost the handle of a running timer, which then saves its    *)
(* old text after a newer save.                                              *)
SavedInOrder ==
  (Mine(server) /\ ~outdated /\ ~orphaned /\ ~overtaken) =>
    \A t \in everStored : t <= server

(* A text that came from elsewhere leaves the editor only when the user asks *)
(* to save, or closes the editor, while it is shown: what a collaborator     *)
(* writes is not sent back.                                                  *)
OnlyOwnTextsLeave == \A t \in sends \cup everStored : Mine(t) \/ t \in asked

(* Both: what leaves the editor is the user's, and is stored in the order    *)
(* written (the save timer, saveToBackend, isUpdatingFromRemote).            *)
SavesOwnInOrder == SavedInOrder /\ OnlyOwnTextsLeave

(* The last text the user wrote is stored in the end, by a timer or by the   *)
(* save on closing, if no PUT fails and editing stays allowed; a restored    *)
(* draft is not saved until it is edited.                                    *)
EventuallyStored ==
  <>[](Mine(shown) => shown \in everStored \/ troubled \/ restored)
=============================================================================
