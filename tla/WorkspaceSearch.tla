---------------------------- MODULE WorkspaceSearch ----------------------------
(***************************************************************************)
(* The search panel of the workspace page (WorkspaceSearchService): a      *)
(* search is asked of the gateway for the text in the box, a replacement,  *)
(* of all matches or of one match at the place where it is shown, is       *)
(* followed by a search.  Nothing is cancelled, so answers overtake one    *)
(* another.  The files of the project are a version, which each            *)
(* replacement that finds something makes one newer; what programs and     *)
(* editors write is left out.                                              *)
(***************************************************************************)
EXTENDS Integers, FiniteSets

CONSTANTS Needles, NoNeedle, MaxTrips, MaxRetypes

ASSUME SearchAssumption == NoNeedle \notin Needles

VARIABLES
  findBox,      \* query: the text in the box
  hits,         \* searchResults: the text and the version they are of
  finding,      \* isSearching
  replacing,    \* isReplacing
  searchError,  \* is searchError set: then no hit is shown
  trips,        \* the requests under way
  version,      \* of the files of the project, in the gateway
  upTo,         \* the newest version shown or cleared so far
  strayed,      \* was a match replaced where it no longer is
  tripsMade, retyped  \* bounds

searchPanelVars == <<findBox, hits, finding, replacing, searchError, trips,
                     version, upTo, strayed, tripsMade, retyped>>

Unread == -1
NoHits == [needle |-> NoNeedle, version |-> 0]

SearchInit ==
  /\ findBox = NoNeedle /\ hits = NoHits /\ finding = FALSE /\ replacing = FALSE
  /\ searchError = FALSE /\ trips = {} /\ version = 0 /\ upTo = 0
  /\ strayed = FALSE /\ tripsMade = 0 /\ retyped = 0

(* A request: "search", or "all" and "one" for the replacements; the version *)
(* a search has read; the version a match to be replaced was shown in;       *)
(* whether the search is the last part of a replacement.                     *)
Trip(kind, crossed, inside) ==
  [nr |-> tripsMade + 1, kind |-> kind, needle |-> findBox, done |-> FALSE, read |-> Unread,
   shownIn |-> hits.version, crossed |-> crossed, inside |-> inside]
Replaces(t) == t.kind \in {"all", "one"}

TypeNeedle(q) ==
  /\ retyped < MaxRetypes /\ retyped' = retyped + 1
  /\ findBox' = q
  /\ UNCHANGED <<hits, finding, replacing, searchError, trips, version, upTo, strayed,
                 tripsMade>>

(* clearSearch: what is under way is not told.                               *)
Clear ==
  /\ findBox' = NoNeedle /\ hits' = NoHits /\ searchError' = FALSE /\ upTo' = version
  /\ UNCHANGED finding

ClearSearch ==
  /\ retyped < MaxRetypes /\ retyped' = retyped + 1
  /\ Clear
  /\ UNCHANGED <<replacing, trips, version, strayed, tripsMade>>

(* search, up to its request, with the other requests that stay under way.   *)
Search(others, inside) ==
  IF findBox = NoNeedle
  THEN /\ Clear /\ trips' = others /\ UNCHANGED tripsMade
       /\ replacing' = IF inside THEN FALSE ELSE replacing
  ELSE /\ finding' = TRUE /\ searchError' = FALSE
       /\ trips' = others \cup {Trip("search", FALSE, inside)}
       /\ tripsMade' = tripsMade + 1
       /\ UNCHANGED <<findBox, hits, replacing, upTo>>

(* triggerWorkspaceSearch: Enter, an option, the view shown again.           *)
TriggerWorkspaceSearch ==
  /\ tripsMade < MaxTrips
  /\ Search(trips, FALSE)
  /\ UNCHANGED <<version, strayed, retyped>>

(* The gateway reads the files.                                              *)
GatewaySearches(t) ==
  /\ t.kind = "search" /\ ~t.done
  /\ trips' = (trips \ {t}) \cup {[t EXCEPT !.done = TRUE, !.read = version]}
  /\ UNCHANGED <<findBox, hits, finding, replacing, searchError, version, upTo, strayed,
                 tripsMade, retyped>>

(* The end of a search, of which isSearching says that all of them ended.    *)
EndSearch(t) ==
  /\ trips' = trips \ {t} /\ finding' = FALSE
  /\ replacing' = IF t.inside THEN FALSE ELSE replacing
  /\ UNCHANGED <<findBox, version, strayed, tripsMade, retyped>>

SearchReturns(t) ==
  /\ t.kind = "search" /\ t.done
  /\ hits' = [needle |-> t.needle, version |-> t.read]
  /\ upTo' = IF t.read > upTo THEN t.read ELSE upTo
  /\ EndSearch(t) /\ UNCHANGED searchError

SearchFails(t) ==
  /\ t.kind = "search"
  /\ hits' = NoHits /\ searchError' = TRUE
  /\ EndSearch(t) /\ UNCHANGED upTo

-----------------------------------------------------------------------------
(* A replacement of one match that another request overtakes is aimed at a   *)
(* version that may be gone.                                                 *)
MarkCrossed(t) == IF t.kind = "one" /\ ~t.done THEN [t EXCEPT !.crossed = TRUE] ELSE t

Replace(t) ==
  /\ tripsMade < MaxTrips /\ tripsMade' = tripsMade + 1
  /\ replacing' = TRUE
  /\ trips' = {MarkCrossed(u) : u \in trips} \cup {t}
  /\ UNCHANGED <<findBox, hits, finding, searchError, version, upTo, strayed, retyped>>

(* replaceAll, from its button, or from Enter in the other box whatever the  *)
(* hits are of: it replaces the text that is in the box by now.              *)
TriggerWorkspaceReplaceAll == findBox # NoNeedle /\ Replace(Trip("all", FALSE, FALSE))

(* replaceSingleMatch, from a match that is shown.                           *)
ReplaceSingleMatch ==
  /\ findBox # NoNeedle /\ hits # NoHits /\ ~finding /\ ~searchError
  /\ Replace(Trip("one", trips # {} \/ hits.version < upTo, FALSE))

(* The gateway replaces one match by its place, or all by their text, if     *)
(* there is anything at the place, or any match.                             *)
GatewayReplaces(t) ==
  /\ Replaces(t) /\ ~t.done
  /\ trips' = (trips \ {t}) \cup {[t EXCEPT !.done = TRUE]}
  /\ version' \in {version, version + 1}
  /\ strayed' = (strayed \/ (t.kind = "one" /\ ~t.crossed /\ t.shownIn # version))
  /\ UNCHANGED <<findBox, hits, finding, replacing, searchError, upTo, tripsMade, retyped>>

(* replaceAll and replaceSingleMatch that leave the results as they were.    *)
ReplaceForgetsSearch(t) ==
  /\ Replaces(t) /\ t.done
  /\ trips' = trips \ {t} /\ replacing' = FALSE
  /\ UNCHANGED <<findBox, hits, finding, searchError, version, upTo, strayed, tripsMade,
                 retyped>>

(* A replacement returns, and searches again for what the box holds by now.  *)
ReplaceReturns(t) ==
  /\ Replaces(t) /\ t.done
  /\ Search(trips \ {t}, TRUE)
  /\ UNCHANGED <<version, strayed, retyped>>

(* The request failed or its answer is lost: the error takes the place of    *)
(* the results.                                                              *)
ReplaceFails(t) ==
  /\ Replaces(t)
  /\ trips' = trips \ {t} /\ replacing' = FALSE /\ searchError' = TRUE
  /\ UNCHANGED <<findBox, hits, finding, version, upTo, strayed, tripsMade, retyped>>

SearchNext ==
  \/ \E q \in Needles \cup {NoNeedle} : TypeNeedle(q)
  \/ ClearSearch \/ TriggerWorkspaceSearch
  \/ TriggerWorkspaceReplaceAll \/ ReplaceSingleMatch
  \/ \E t \in trips : \/ GatewaySearches(t) \/ SearchReturns(t) \/ SearchFails(t)
                      \/ GatewayReplaces(t) \/ ReplaceReturns(t) \/ ReplaceFails(t)

SearchSpec == SearchInit /\ [][SearchNext]_searchPanelVars

-----------------------------------------------------------------------------
TripType ==
  [nr : 1..tripsMade, kind : {"search", "all", "one"}, needle : Needles \cup {NoNeedle},
   done : BOOLEAN, read : -1..version, shownIn : 0..version, crossed : BOOLEAN,
   inside : BOOLEAN]

SearchTypeOK ==
  /\ findBox \in Needles \cup {NoNeedle}
  /\ hits \in [needle : Needles \cup {NoNeedle}, version : 0..version]
  /\ {finding, replacing, searchError, strayed} \subseteq BOOLEAN
  /\ version \in Nat /\ upTo \in 0..version /\ tripsMade \in Nat /\ retyped \in Nat
  /\ \A t \in trips : t \in TripType

(* When nothing is under way, the hits that are shown are of the files as    *)
(* they are, however searches and replacements overlapped, or are those of   *)
(* an older answer that came after a newer one or after the panel was        *)
(* cleared.  And a match is replaced where it is: not so when another        *)
(* request was under way, which the buttons do not wait for, or when the     *)
(* match was one of such an older answer (replaceSingleMatch, and the        *)
(* search at the end of both).                                               *)
HitsCurrent ==
  /\ (trips = {} /\ ~searchError /\ hits # NoHits) =>
       hits.version = version \/ hits.version < upTo
  /\ ~strayed
=============================================================================
