----------------------------- MODULE ClientProofs ------------------------------
(***************************************************************************)
(* Services of the browser, for every number of texts, queries, requests,  *)
(* rooms and failures: the package panel, the search panel, the editor's   *)
(* saves, the realtime connection and the terminals. No bound on what a    *)
(* run may do is in an invariant.                                          *)
(***************************************************************************)
EXTENDS PackageHub, WorkspaceSearch, EditorSaves, RealtimeClient, TerminalClient,
        FiniteSetTheorems, SequenceTheorems, TLAPS

(***************************************************************************)
(* The package panel                                                       *)
(***************************************************************************)

\* What waits in the pipe is the text in the box, unless that is empty; only the
\* query let through last is asked for; and with nothing waiting, the answer to
\* the text in the box is on its way or shown.
PipeInv ==
  /\ asking \subseteq {lastPassed}
  /\ debounced # Blank => packageBox \in {debounced, Blank}
  /\ debounced = Blank /\ packageBox # Blank /\ ~swallowed =>
       /\ lastPassed = packageBox
       /\ \/ asking = {packageBox} \/ emptied
          \/ found = packageBox /\ ~spinning

\* The marks are those of the calls; two calls for a package are known as such.
MarksInv ==
  /\ installing \subseteq Marked(FALSE) /\ Marked(FALSE) \subseteq installing \cup twice
  /\ removing \subseteq Marked(TRUE) /\ Marked(TRUE) \subseteq removing \cup twice
  /\ \A c, d \in installs :
       c # d /\ c.package = d.package /\ c.removes = d.removes => c.package \in twice

PanelInv == HubTypeOK /\ PipeInv /\ MarksInv

CallType(n) ==
  [nr : 1..n, package : Packages, removes : BOOLEAN, step : {"posted", "listing"}]

LEMMA PanelInit ==
  ASSUME HubInit
  PROVE  PanelInv
BY HubAssumption DEF HubInit, PanelInv, HubTypeOK, PipeInv, MarksInv, Marked

LEMMA PanelStep ==
  ASSUME PanelInv, HubNext
  PROVE  PanelInv'
<1> USE HubAssumption DEF PanelInv
<1>1. ASSUME UNCHANGED installVars PROVE MarksInv'
  BY <1>1 DEF MarksInv, Marked, installVars
<1>2. ASSUME UNCHANGED boxVars, UNCHANGED pipeVars, UNCHANGED packageBox PROVE PipeInv'
  BY <1>2 DEF PipeInv, boxVars, pipeVars
<1>3. ASSUME NEW q \in Queries \cup {Blank}, OnSearchPackageInput(q) PROVE PanelInv'
  <2>1. HubTypeOK'
    <3>1. keys' \in Nat
      BY <1>3 DEF HubTypeOK, OnSearchPackageInput, Key
    <3>2. /\ packageBox' = q /\ lastPassed' = lastPassed /\ asking' = asking
          /\ swallowed' = swallowed /\ emptied' = emptied
          /\ UNCHANGED installVars
          /\ debounced' \in {debounced, q} /\ found' \in {found, Blank}
          /\ spinning' \in BOOLEAN
      BY <1>3 DEF OnSearchPackageInput, SearchPackagesReactive
    <3> QED BY <3>1, <3>2 DEF HubTypeOK, installVars
  <2>2. PipeInv'
    BY <1>3 DEF PipeInv, HubTypeOK, OnSearchPackageInput, SearchPackagesReactive, Key
  <2> QED BY <1>1, <1>3, <2>1, <2>2 DEF OnSearchPackageInput
<1>4. ASSUME RefreshForLanguage PROVE PanelInv'
  <2>1. HubTypeOK'
    <3>1. keys' \in Nat
      BY <1>4 DEF HubTypeOK, RefreshForLanguage, Key
    <3>2. /\ emptied' \in BOOLEAN /\ found' = Blank /\ spinning' \in BOOLEAN
          /\ packageBox' = packageBox /\ UNCHANGED pipeVars /\ UNCHANGED installVars
      BY <1>4 DEF RefreshForLanguage, HubTypeOK
    <3> QED BY <3>1, <3>2 DEF HubTypeOK, pipeVars, installVars
  <2>2. PipeInv'
    BY <1>4 DEF PipeInv, RefreshForLanguage, Key, pipeVars
  <2> QED BY <1>1, <1>4, <2>1, <2>2 DEF RefreshForLanguage
<1>5. ASSUME PipeFires PROVE PanelInv'
  <2>1. HubTypeOK'
    BY <1>5 DEF HubTypeOK, PipeFires, Pass, boxVars, installVars
  <2>2. PipeInv'
    BY <1>5 DEF PipeInv, PipeFires, Pass, boxVars
  <2> QED BY <1>1, <1>5, <2>1, <2>2 DEF PipeFires, Pass
<1>6. ASSUME NEW q \in asking, ExecuteSearch(q) PROVE PanelInv'
  <2>1. HubTypeOK'
    <3>1. asking' = asking \ {q} /\ q \in Queries
      BY <1>6 DEF HubTypeOK, ExecuteSearch
    <3>2. found' \in {q, Blank} /\ emptied' \in BOOLEAN /\ spinning' = FALSE
      BY <1>6 DEF ExecuteSearch, Shows
    <3>3. UNCHANGED <<packageBox, debounced, lastPassed, swallowed, keys>> /\ UNCHANGED installVars
      BY <1>6 DEF ExecuteSearch
    <3> QED BY <3>1, <3>2, <3>3 DEF HubTypeOK, installVars
  <2>2. q = lastPassed /\ asking' = {} /\ q # Blank
    BY <1>6 DEF PipeInv, ExecuteSearch, HubTypeOK
  <2>3. PipeInv'
    BY <1>6, <2>2 DEF PipeInv, ExecuteSearch, Shows
  <2> QED BY <1>1, <1>6, <2>1, <2>3 DEF ExecuteSearch
<1>7. ASSUME NEW p \in Packages, InstallPackage(p) \/ UninstallPackage(p) PROVE PanelInv'
  <2>1. PICK b \in BOOLEAN : Begins(Call(p, b)) /\ 
          /\ installing' = (IF b THEN installing ELSE installing \cup {p})
          /\ removing' = (IF b THEN removing \cup {p} ELSE removing)
    BY <1>7 DEF InstallPackage, UninstallPackage
  <2> DEFINE c == Call(p, b)
  <2>2. calls \in Nat /\ c \in CallType(calls + 1) /\ c.package = p /\ c.removes = b
    BY DEF HubTypeOK, Call, CallType
  <2>3. \A d \in installs : d \in CallType(calls + 1)
    BY <2>2 DEF HubTypeOK, CallType
  <2>4. /\ installs' = installs \cup {c} /\ calls' = calls + 1
        /\ twice' = twice \cup {d.package : d \in {d \in installs :
                                  d.package = p /\ d.removes = b}}
    BY <2>1, <2>2 DEF Begins
  <2>5. twice' \subseteq Packages
    BY <2>3, <2>4 DEF HubTypeOK, CallType
  <2>6. HubTypeOK'
    <3>1. UNCHANGED boxVars /\ UNCHANGED pipeVars
      BY <1>7 DEF InstallPackage, UninstallPackage
    <3>2. calls' \in Nat
      BY <2>2, <2>4
    <3>3. installing' \cup removing' \cup twice' \subseteq Packages
      BY <2>1, <2>5 DEF HubTypeOK
    <3>4. \A d \in installs' : d \in CallType(calls')
      BY <2>2, <2>3, <2>4
    <3> QED
      BY <3>1, <3>2, <3>3, <3>4 DEF HubTypeOK, boxVars, pipeVars, CallType
  <2>7. Marked(b)' = Marked(b) \cup {p} /\ Marked(~b)' = Marked(~b)
    BY <2>2, <2>4 DEF Marked
  <2>8. MarksInv'
    <3>1. \A d, e \in installs' :
            d # e /\ d.package = e.package /\ d.removes = e.removes => d.package \in twice'
      BY <2>2, <2>4 DEF MarksInv
    <3>2. CASE b
      BY <2>1, <2>4, <2>7, <3>1, <3>2 DEF MarksInv
    <3>3. CASE ~b
      BY <2>1, <2>4, <2>7, <3>1, <3>3 DEF MarksInv
    <3> QED BY <3>2, <3>3
  <2> QED BY <1>2, <1>7, <2>6, <2>8 DEF InstallPackage, UninstallPackage, boxVars
<1>8. ASSUME NEW c \in installs, FetchInstalledPackages(c) PROVE PanelInv'
  <2> DEFINE listing == [c EXCEPT !.step = "listing"]
  <2>1. c \in CallType(calls) /\ listing \in CallType(calls)
        /\ listing.package = c.package /\ listing.removes = c.removes
    BY DEF HubTypeOK, CallType
  <2>2. installs' = (installs \ {c}) \cup {listing}
    BY <1>8 DEF FetchInstalledPackages
  <2>3. HubTypeOK'
    BY <1>8, <2>1, <2>2
    DEF HubTypeOK, FetchInstalledPackages, boxVars, pipeVars, CallType
  <2>4. \A b \in BOOLEAN : Marked(b)' = Marked(b)
    BY <2>1, <2>2 DEF Marked
  <2>5. \A d, e \in installs' :
            d # e /\ d.package = e.package /\ d.removes = e.removes => d.package \in twice'
    BY <1>8, <2>1, <2>2 DEF MarksInv, FetchInstalledPackages
  <2>6. MarksInv'
    BY <1>8, <2>4, <2>5 DEF MarksInv, FetchInstalledPackages
  <2> QED BY <1>2, <1>8, <2>3, <2>6 DEF FetchInstalledPackages, boxVars
<1>9. ASSUME NEW c \in installs, Finally(c) PROVE PanelInv'
  <2>1. c.removes \in BOOLEAN
    BY DEF HubTypeOK
  <2>2. /\ installs' = installs \ {c} /\ twice' = twice /\ calls' = calls
        /\ installing' = (IF c.removes THEN installing ELSE installing \ {c.package})
        /\ removing' = (IF c.removes THEN removing \ {c.package} ELSE removing)
    BY <1>9 DEF Finally, Ends
  <2>3. HubTypeOK'
    BY <1>9, <2>2 DEF HubTypeOK, Finally, Ends, boxVars, pipeVars
  <2>4. ASSUME NEW p, NEW b \in BOOLEAN, p \in Marked(b), p # c.package \/ c.removes # b
        PROVE  p \in Marked(b)'
    BY <2>2, <2>4 DEF Marked
  <2>5. ASSUME NEW b \in BOOLEAN, c.removes = b
        PROVE  c.package \in Marked(b)' => c.package \in twice'
    BY <2>2, <2>5 DEF Marked, MarksInv
  <2>6. \A b \in BOOLEAN : Marked(b)' \subseteq Marked(b)
    BY <2>2 DEF Marked
  <2>7. MarksInv'
    BY <2>1, <2>2, <2>4, <2>5, <2>6 DEF MarksInv
  <2> QED BY <1>2, <1>9, <2>3, <2>7 DEF Finally, Ends, boxVars
<1> QED BY <1>3, <1>4, <1>5, <1>6, <1>7, <1>8, <1>9 DEF HubNext

(* PackageManagerService: the results of the text in the box end up shown,   *)
(* whatever was typed meanwhile, and a package is marked while a call runs.  *)
THEOREM PanelAlwaysSettles == HubSpec => []PanelSettles
<1>1. HubInit => PanelInv
  BY PanelInit
<1>2. PanelInv /\ [HubNext]_hubPanelVars => PanelInv'
  <2>1. PanelInv /\ UNCHANGED hubPanelVars => PanelInv'
    BY DEF PanelInv, HubTypeOK, PipeInv, MarksInv, Marked, hubPanelVars
  <2> QED BY <2>1, PanelStep
<1>3. PanelInv => PanelSettles
  BY DEF PanelInv, PipeInv, MarksInv, PanelSettles
<1> QED BY <1>1, <1>2, <1>3, PTL DEF HubSpec

-----------------------------------------------------------------------------
(***************************************************************************)
(* The search panel                                                        *)
(***************************************************************************)

\* A request that ends with the files as they are by then, or that is followed
\* by one that does.
Renews(t) ==
  \/ Replaces(t) /\ t.done
  \/ t.kind = "search" /\ (t.done => t.read = version)

\* A replacement of one match that nothing has crossed and that is still to come.
Aimed(t) == t.kind = "one" /\ ~t.done /\ ~t.crossed

\* What is shown is not newer than the newest version shown or cleared; that is
\* the version of the files unless an error is shown or a request will renew it;
\* a replacement of one match that nothing crossed is aimed at this version, and
\* no other replacement is still to come.  A search that is done has read something.
HitsInv ==
  /\ hits.version <= upTo
  /\ searchError \/ upTo = version \/ \E t \in trips : Renews(t)
  /\ \A t \in trips : t.kind = "search" /\ t.done => t.read # Unread
  /\ \A t \in trips : Aimed(t) => t.shownIn = version
  /\ \A t, u \in trips : Aimed(t) /\ Replaces(u) /\ ~u.done => u = t
  /\ ~strayed

SearchInv == SearchTypeOK /\ HitsInv

\* The requests that are made, field by field.
LEMMA TripFields ==
  ASSUME SearchTypeOK, NEW k \in {"search", "all", "one"}, NEW b \in BOOLEAN, NEW c \in BOOLEAN,
         tripsMade' = tripsMade + 1, version' = version
  PROVE  LET t == Trip(k, c, b) IN
         /\ t \in TripType' /\ t.nr = tripsMade + 1 /\ t.kind = k /\ ~t.done
         /\ t.shownIn = hits.version /\ t.crossed = c
<1>1. tripsMade + 1 \in 1..tripsMade'
  BY DEF SearchTypeOK
<1>2. Unread \in -1..version' /\ hits.version \in 0..version'
  BY DEF SearchTypeOK, Unread
<1>3. findBox \in Needles \cup {NoNeedle}
  BY DEF SearchTypeOK
<1>4. Trip(k, c, b) \in TripType'
  BY <1>1, <1>2, <1>3 DEF Trip, TripType
<1> QED BY <1>4 DEF Trip

LEMMA SearchStart ==
  ASSUME SearchInit
  PROVE  SearchInv
<1>1. hits = [needle |-> NoNeedle, version |-> 0] /\ version = 0 /\ upTo = 0 /\ trips = {}
  BY DEF SearchInit, NoHits
<1>2. hits \in [needle : Needles \cup {NoNeedle}, version : 0..version] /\ hits.version = 0
  BY <1>1
<1>3. SearchTypeOK
  <2>1. {finding, replacing, searchError, strayed} \subseteq BOOLEAN
    BY DEF SearchInit
  <2>2. findBox \in Needles \cup {NoNeedle} /\ tripsMade \in Nat /\ retyped \in Nat
    BY DEF SearchInit
  <2>3. version \in Nat /\ upTo \in 0..version
    BY <1>1
  <2> QED BY <1>1, <1>2, <2>1, <2>2, <2>3 DEF SearchTypeOK
<1>4. HitsInv
  BY <1>1, <1>2 DEF SearchInit, HitsInv
<1> QED BY <1>3, <1>4 DEF SearchInv

\* A step that only moves between requests and what is shown: each new request is
\* a search that is no replacement.
LEMMA PanelMoves ==
  ASSUME SearchInv, version' = version, strayed' = strayed, findBox' \in Needles \cup {NoNeedle},
         hits' \in [needle : Needles \cup {NoNeedle}, version : 0..version],
         {finding', replacing', searchError'} \subseteq BOOLEAN,
         upTo' \in 0..version, tripsMade' \in {tripsMade, tripsMade + 1},
         retyped' \in {retyped, retyped + 1},
         \A t \in trips' : t \in trips \/ (t \in TripType' /\ t.kind = "search" /\ Renews(t)),
         hits'.version <= upTo',
         searchError' \/ upTo' = version \/ \E t \in trips' : Renews(t)
  PROVE  SearchInv'
<1>1. version \in Nat /\ tripsMade \in Nat /\ retyped \in Nat
  BY DEF SearchInv, SearchTypeOK
<1>2. version' \in Nat /\ tripsMade' \in Nat /\ retyped' \in Nat /\ tripsMade <= tripsMade'
  BY <1>1
<1>3. \A t \in trips : t \in TripType'
  BY <1>1, <1>2 DEF SearchInv, SearchTypeOK, TripType
<1>4. SearchTypeOK'
  BY <1>1, <1>2, <1>3 DEF SearchInv, SearchTypeOK
<1>5. \A t \in trips' : t \in trips \/ (t.kind = "search" /\ Renews(t))
  OBVIOUS
<1>6. HitsInv'
  <2>1. ~strayed' /\ (hits.version <= upTo)'
    BY DEF SearchInv, HitsInv
  <2>2. (\E t \in trips' : Renews(t)) => (\E t \in trips : Renews(t))'
    BY DEF Renews
  <2>3. (searchError \/ upTo = version \/ \E t \in trips : Renews(t))'
    BY <2>2
  <2>4. \A t \in trips' : t.kind = "search" /\ t.done => t.read # Unread
    BY <1>1, <1>5 DEF SearchInv, HitsInv, Renews, Unread, Replaces
  <2>5. \A t \in trips' : Aimed(t) => t \in trips
    BY <1>5 DEF Aimed
  <2>6. \A t \in trips' : Replaces(t) => t \in trips
    BY <1>5 DEF Replaces
  <2>7. \A t \in trips' : Aimed(t) => t.shownIn = version
    BY <2>5 DEF SearchInv, HitsInv
  <2>8. \A t, u \in trips' : Aimed(t) /\ Replaces(u) /\ ~u.done => u = t
    BY <2>5, <2>6 DEF SearchInv, HitsInv
  <2> HIDE DEF SearchInv
  <2> QED BY <2>1, <2>3, <2>4, <2>7, <2>8 DEF HitsInv, Aimed, Replaces
<1> QED BY <1>4, <1>6 DEF SearchInv

LEMMA SearchStep ==
  ASSUME SearchInv, SearchNext
  PROVE  SearchInv'
<1>1. /\ version \in Nat /\ tripsMade \in Nat /\ retyped \in Nat /\ upTo \in 0..version
      /\ hits \in [needle : Needles \cup {NoNeedle}, version : 0..version]
      /\ findBox \in Needles \cup {NoNeedle} /\ hits.version <= upTo
      /\ {finding, replacing, searchError, strayed} \subseteq BOOLEAN
      /\ \A t \in trips : t \in TripType
  BY DEF SearchInv, SearchTypeOK, HitsInv
<1>2. searchError \/ upTo = version \/ \E t \in trips : Renews(t)
  BY DEF SearchInv, HitsInv
<1>3. NoHits \in [needle : Needles \cup {NoNeedle}, version : 0..version]
      /\ NoHits.version = 0
  BY <1>1 DEF NoHits
<1>4. ASSUME NEW others \in SUBSET trips, NEW b \in BOOLEAN, Search(others, b),
             UNCHANGED <<version, strayed, retyped>>
      PROVE  SearchInv'
  <2>1. CASE findBox = NoNeedle
    <3>1. /\ findBox' = NoNeedle /\ hits' = NoHits /\ searchError' = FALSE
          /\ upTo' = version /\ finding' = finding /\ trips' = others
          /\ tripsMade' = tripsMade /\ replacing' \in {replacing, FALSE}
      BY <1>4, <2>1 DEF Search, Clear
    <3>2. {finding', replacing', searchError'} \subseteq BOOLEAN
      BY <1>1, <3>1
    <3>3. upTo' \in 0..version /\ hits'.version <= upTo'
      BY <1>1, <1>3, <3>1
    <3> QED BY <1>1, <1>3, <1>4, <3>1, <3>2, <3>3, PanelMoves
  <2>2. CASE findBox # NoNeedle
    <3> DEFINE new == Trip("search", FALSE, b)
    <3>1. /\ finding' = TRUE /\ searchError' = FALSE /\ trips' = others \cup {new}
          /\ tripsMade' = tripsMade + 1 /\ UNCHANGED <<findBox, hits, replacing, upTo>>
      BY <1>4, <2>2 DEF Search
    <3>2. new \in TripType' /\ new.kind = "search" /\ Renews(new)
      <4>1. SearchTypeOK /\ version' = version
        BY <1>4 DEF SearchInv
      <4>2. new \in TripType' /\ new.kind = "search" /\ ~new.done
        BY <3>1, <4>1, TripFields
      <4> QED BY <4>2 DEF Renews
    <3> HIDE DEF new
    <3>3. \A t \in trips' : t \in trips \/ (t \in TripType' /\ t.kind = "search" /\ Renews(t))
      BY <3>1, <3>2
    <3>4. \E t \in trips' : Renews(t)
      BY <3>1, <3>2
    <3> QED BY <1>1, <1>4, <3>1, <3>3, <3>4, PanelMoves
  <2> QED BY <2>1, <2>2
<1>5. ASSUME NEW q \in Needles \cup {NoNeedle}, TypeNeedle(q) PROVE SearchInv'
  BY <1>1, <1>2, <1>5, PanelMoves DEF TypeNeedle
<1>6. ASSUME ClearSearch PROVE SearchInv'
  <2>1. /\ findBox' = NoNeedle /\ hits' = NoHits /\ searchError' = FALSE /\ upTo' = version
        /\ retyped' = retyped + 1
        /\ UNCHANGED <<finding, replacing, trips, version, strayed, tripsMade>>
    BY <1>6 DEF ClearSearch, Clear
  <2>2. {finding', replacing', searchError'} \subseteq BOOLEAN
    BY <1>1, <2>1
  <2>3. upTo' \in 0..version /\ hits'.version <= upTo'
    BY <1>1, <1>3, <2>1
  <2> QED BY <1>1, <1>3, <2>1, <2>2, <2>3, PanelMoves
<1>7. ASSUME TriggerWorkspaceSearch PROVE SearchInv'
  BY <1>4, <1>7 DEF TriggerWorkspaceSearch
<1>8. ASSUME NEW t \in trips, GatewaySearches(t) PROVE SearchInv'
  <2> DEFINE new == [t EXCEPT !.done = TRUE, !.read = version]
  <2>1. new \in TripType' /\ new.kind = "search" /\ Renews(new)
    <3>1. t \in TripType' /\ version \in -1..version' /\ t.kind = "search"
      BY <1>1, <1>8 DEF GatewaySearches, TripType
    <3>2. new \in TripType'
      BY <3>1 DEF TripType
    <3> QED BY <3>1, <3>2 DEF TripType, Renews
  <2>2. trips' = (trips \ {t}) \cup {new}
    BY <1>8 DEF GatewaySearches
  <2> HIDE DEF new
  <2>3. \A u \in trips' : u \in trips \/ (u \in TripType' /\ u.kind = "search" /\ Renews(u))
    BY <2>1, <2>2
  <2>4. \E u \in trips' : Renews(u)
    BY <2>1, <2>2
  <2> QED BY <1>1, <1>8, <2>3, <2>4, PanelMoves DEF GatewaySearches
<1>9. ASSUME NEW t \in trips, SearchReturns(t) PROVE SearchInv'
  <2>1. /\ t.read \in -1..version /\ t.needle \in Needles \cup {NoNeedle}
        /\ t.kind = "search" /\ t.done
    BY <1>1, <1>9 DEF TripType, SearchReturns
  <2>2. t.read \in 0..version
    BY <1>1, <2>1 DEF SearchInv, HitsInv, Unread
  <2>3. /\ hits' = [needle |-> t.needle, version |-> t.read]
        /\ upTo' = (IF t.read > upTo THEN t.read ELSE upTo)
        /\ trips' = trips \ {t} /\ finding' = FALSE
        /\ UNCHANGED <<searchError, findBox, version, strayed, tripsMade, retyped>>
        /\ replacing' \in {replacing, FALSE}
    BY <1>9 DEF SearchReturns, EndSearch
  <2>4. upTo' \in 0..version /\ hits'.version <= upTo' /\ upTo <= upTo' /\ t.read <= upTo'
    BY <1>1, <2>2, <2>3
  <2>5. searchError' \/ upTo' = version \/ \E u \in trips' : Renews(u)
    <3>1. CASE searchError
      BY <2>3, <3>1
    <3>2. CASE upTo = version
      BY <1>1, <2>4, <3>2
    <3>3. CASE \E u \in trips : Renews(u)
      <4>1. CASE Renews(t)
        BY <1>1, <2>1, <2>4, <4>1 DEF Renews, Replaces
      <4>2. CASE ~Renews(t)
        BY <2>3, <3>3, <4>2
      <4> QED BY <4>1, <4>2
    <3> QED BY <1>2, <3>1, <3>2, <3>3
  <2>6. hits' \in [needle : Needles \cup {NoNeedle}, version : 0..version]
    BY <2>1, <2>2, <2>3
  <2>7. {finding', replacing', searchError'} \subseteq BOOLEAN
    BY <1>1, <2>3
  <2> QED BY <1>1, <2>3, <2>4, <2>5, <2>6, <2>7, PanelMoves
<1>10. ASSUME NEW t \in trips, SearchFails(t) PROVE SearchInv'
  <2>1. /\ hits' = NoHits /\ searchError' = TRUE /\ trips' = trips \ {t} /\ finding' = FALSE
        /\ UNCHANGED <<upTo, findBox, version, strayed, tripsMade, retyped>>
        /\ replacing' \in {replacing, FALSE}
    BY <1>10 DEF SearchFails, EndSearch
  <2>2. {finding', replacing', searchError'} \subseteq BOOLEAN
    BY <1>1, <2>1
  <2> QED BY <1>1, <1>3, <2>1, <2>2, PanelMoves
<1>11. ASSUME TriggerWorkspaceReplaceAll \/ ReplaceSingleMatch PROVE SearchInv'
  <2>1. PICK t : /\ Replace(t) /\ t.nr = tripsMade + 1 /\ t \in TripType'
                 /\ Replaces(t) /\ ~t.done
                 /\ Aimed(t) => trips = {} /\ hits.version >= upTo /\ ~searchError
                                 /\ t.shownIn = hits.version
    <3>0. tripsMade' = tripsMade + 1 /\ version' = version
      BY <1>11 DEF TriggerWorkspaceReplaceAll, ReplaceSingleMatch, Replace
    <3>1. CASE TriggerWorkspaceReplaceAll
      <4> DEFINE new == Trip("all", FALSE, FALSE)
      <4>1. SearchTypeOK
        BY DEF SearchInv
      <4>2. new \in TripType' /\ new.nr = tripsMade + 1 /\ new.kind = "all" /\ ~new.done
        BY <3>0, <4>1, TripFields
      <4>3. Replace(new)
        BY <3>1 DEF TriggerWorkspaceReplaceAll
      <4> HIDE DEF new
      <4> QED BY <4>1, <4>2, <4>3 DEF Replaces, Aimed
    <3>2. CASE ReplaceSingleMatch
      <4>0. PICK c \in BOOLEAN : c <=> (trips # {} \/ hits.version < upTo)
        OBVIOUS
      <4> DEFINE new == Trip("one", c, FALSE)
      <4>1. Replace(new) /\ ~searchError
        <5>1. c = (trips # {} \/ hits.version < upTo)
          BY <4>0
        <5> QED BY <3>2, <5>1 DEF ReplaceSingleMatch
      <4>2. new \in TripType' /\ Replaces(new) /\ ~new.done /\ new.nr = tripsMade + 1
            /\ new.shownIn = hits.version
            /\ new.crossed = c
        <5>1. SearchTypeOK
          BY DEF SearchInv
        <5>2. /\ new \in TripType' /\ new.nr = tripsMade + 1 /\ new.kind = "one" /\ ~new.done
              /\ new.shownIn = hits.version /\ new.crossed = c
          BY <3>0, <5>1, TripFields
        <5> QED BY <5>2 DEF Replaces
      <4> HIDE DEF new
      <4>3. Aimed(new) => trips = {} /\ ~(hits.version < upTo)
        BY <4>0, <4>2 DEF Aimed
      <4> QED BY <1>1, <4>1, <4>2, <4>3
    <3> QED BY <1>11, <3>1, <3>2
  <2>2. /\ trips' = {MarkCrossed(u) : u \in trips} \cup {t}
        /\ tripsMade' = tripsMade + 1 /\ replacing' = TRUE
        /\ UNCHANGED <<findBox, hits, finding, searchError, version, upTo, strayed, retyped>>
    BY <2>1 DEF Replace
  <2>3. \A u \in trips : /\ MarkCrossed(u) \in TripType' /\ ~Aimed(MarkCrossed(u))
                         /\ Renews(u) => Renews(MarkCrossed(u))
                         /\ MarkCrossed(u).kind = u.kind /\ MarkCrossed(u).done = u.done
                         /\ MarkCrossed(u).read = u.read
    <3> SUFFICES ASSUME NEW u \in trips
                 PROVE  /\ MarkCrossed(u) \in TripType' /\ ~Aimed(MarkCrossed(u))
                        /\ Renews(u) => Renews(MarkCrossed(u))
                        /\ MarkCrossed(u).kind = u.kind /\ MarkCrossed(u).done = u.done
                        /\ MarkCrossed(u).read = u.read
      OBVIOUS
    <3>1. u \in TripType'
      BY <1>1, <2>2 DEF TripType
    <3>2. CASE u.kind = "one" /\ ~u.done
      BY <3>1, <3>2 DEF MarkCrossed, TripType, Aimed, Renews, Replaces
    <3>3. CASE ~(u.kind = "one" /\ ~u.done)
      BY <3>1, <3>3 DEF MarkCrossed, Aimed
    <3> QED BY <3>2, <3>3
  <2>4. SearchTypeOK'
    <3>1. tripsMade' \in Nat
      BY <1>1, <2>2
    <3>2. \A u \in trips' : u \in TripType'
      BY <2>1, <2>2, <2>3
    <3> QED BY <1>1, <2>2, <3>1, <3>2 DEF SearchTypeOK
  <2>5. Aimed(t) => t.shownIn = version
    BY <1>1, <1>2, <2>1
  <2>6. (\E u \in trips : Renews(u)) => \E u \in trips' : Renews(u)
    BY <2>2, <2>3
  <2>7. HitsInv'
    <3>1. \A u \in trips' : u = t \/ ~Aimed(u)
      BY <2>2, <2>3
    <3>2. \A u, v \in trips' : Aimed(u) /\ Replaces(v) /\ ~v.done => v = u
      BY <2>1, <2>2, <3>1
    <3>3. \A u \in trips' : u.kind = "search" /\ u.done => u.read # Unread
      BY <2>1, <2>2, <2>3 DEF SearchInv, HitsInv
    <3>4. searchError' \/ upTo' = version' \/ (\E u \in trips : Renews(u))'
      BY <1>2, <2>2, <2>6 DEF Renews
    <3> QED BY <1>1, <2>2, <2>5, <3>1, <3>2, <3>3, <3>4 DEF SearchInv, HitsInv, Renews
  <2> QED BY <2>4, <2>7 DEF SearchInv
<1>12. ASSUME NEW t \in trips, GatewayReplaces(t) PROVE SearchInv'
  <2> DEFINE new == [t EXCEPT !.done = TRUE]
  <2>1. /\ trips' = (trips \ {t}) \cup {new} /\ version' \in {version, version + 1}
        /\ strayed' = (strayed \/ (Aimed(t) /\ t.shownIn # version))
        /\ Replaces(t) /\ ~t.done
        /\ UNCHANGED <<findBox, hits, finding, replacing, searchError, upTo, tripsMade, retyped>>
    BY <1>12 DEF GatewayReplaces, Aimed
  <2>2. version' \in Nat /\ version <= version'
    BY <1>1, <2>1
  <2>3. \A u \in trips : u \in TripType'
    BY <1>1, <2>1, <2>2 DEF TripType
  <2>4. new \in TripType' /\ Replaces(new) /\ new.done
    BY <2>1, <2>3 DEF TripType, Replaces
  <2> HIDE DEF new
  <2>5. upTo' \in 0..version' /\ 0..version \subseteq 0..version'
    BY <1>1, <2>1, <2>2
  <2>6. strayed' = FALSE
    BY <2>1 DEF SearchInv, HitsInv
  <2>7. SearchTypeOK'
    <3>1. hits' \in [needle : Needles \cup {NoNeedle}, version : 0..version']
      BY <1>1, <2>1, <2>5
    <3>2. \A u \in trips' : u \in TripType'
      BY <2>1, <2>3, <2>4
    <3> QED BY <1>1, <2>1, <2>2, <2>5, <2>6, <3>1, <3>2 DEF SearchTypeOK
  <2>8. \A u \in trips' : ~Aimed(u)
    BY <2>1, <2>4 DEF SearchInv, HitsInv, Aimed
  <2>9. HitsInv'
    <3>1. \E u \in trips' : Renews(u)'
      BY <2>1, <2>4 DEF Renews
    <3>2. \A u \in trips' : u.kind = "search" /\ u.done => u.read # Unread
      BY <2>1, <2>4 DEF SearchInv, HitsInv, Replaces
    <3> QED BY <1>1, <2>1, <2>6, <2>8, <3>1, <3>2 DEF HitsInv, Aimed
  <2> QED BY <2>7, <2>9 DEF SearchInv
<1>13. ASSUME NEW t \in trips, ReplaceReturns(t) PROVE SearchInv'
  BY <1>4, <1>13 DEF ReplaceReturns
<1>14. ASSUME NEW t \in trips, ReplaceFails(t) PROVE SearchInv'
  BY <1>1, <1>14, PanelMoves DEF ReplaceFails
<1> QED BY <1>5, <1>6, <1>7, <1>8, <1>9, <1>10, <1>11, <1>12, <1>13, <1>14 DEF SearchNext

(* WorkspaceSearchService: once nothing is under way the hits shown are of   *)
(* the files as they are, however searches and replacements overlapped, and  *)
(* a replacement nothing crossed hits the match it was aimed at.             *)
THEOREM HitsAlwaysCurrent == SearchSpec => []HitsCurrent
<1>1. SearchInit => SearchInv
  BY SearchStart
<1>2. SearchInv /\ [SearchNext]_searchPanelVars => SearchInv'
  <2>1. SearchInv /\ UNCHANGED searchPanelVars => SearchInv'
    BY DEF SearchInv, SearchTypeOK, TripType, HitsInv, Renews, Aimed, searchPanelVars
  <2> QED BY <2>1, SearchStep
<1>3. SearchInv => HitsCurrent
  <2>1. SearchInv => version \in Nat /\ upTo \in 0..version /\ hits.version \in 0..version
    BY DEF SearchInv, SearchTypeOK
  <2> QED BY <2>1 DEF SearchInv, HitsInv, HitsCurrent
<1> QED BY <1>1, <1>2, <1>3, PTL DEF SearchSpec

-----------------------------------------------------------------------------
(***************************************************************************)
(* The editor's saves                                                      *)
(***************************************************************************)

Timers == ToSet(saveTimers)
Calm == ~outdated /\ ~orphaned /\ ~overtaken
PutType == [nr : 1..putsMade, text : Texts, timed : BOOLEAN, state : {"sent", "stored", "lost"}]

\* The timer the editor knows is the newest of those that are set.
TimersOK ==
  /\ saveTimers \in Seq(Texts)
  /\ handle \in {Null, Fired} \cup DOMAIN saveTimers
  /\ handle > 0 => handle = Len(saveTimers)

TextsOK ==
  /\ typed \in Nat /\ putsMade \in Nat
  /\ {shown, server} \cup everStored \cup sends \cup asked \subseteq Texts
  /\ {draft, sendTimer} \cup dropped \subseteq Texts \cup {NoText}
  /\ \A p \in puts : p \in PutType
  /\ \A p, q \in puts : p.nr = q.nr => p = q

DraftInv ==
  /\ DraftKept
  /\ Mine(server) => server \in everStored
  /\ \A p \in puts : p.state = "stored" => p.text \in everStored

\* Whatever is on its way out is the user's, or was asked for.
OwnInv ==
  /\ OnlyOwnTextsLeave
  /\ sendTimer = NoText \/ Mine(sendTimer) \/ sendTimer \in asked
  /\ \A t \in Timers : Mine(t) \/ t \in asked
  /\ \A p \in puts : Mine(p.text) \/ p.text \in asked

\* While loading showed no older text, no handle was lost and no PUT overtook
\* another: what is stored, sent and waiting comes in the order written, the text
\* shown being the last, and there is at most one timer, whose handle is known.
OrderInv ==
  Calm =>
    /\ Mine(shown) => shown = typed
    /\ Len(saveTimers) <= 1 /\ (saveTimers # <<>> => handle > 0)
    /\ \A p, q \in puts : p.nr < q.nr /\ Mine(q.text) => p.text <= q.text
    /\ \A p \in puts, t \in Timers : Mine(t) => p.text <= t
    /\ \A e \in everStored, t \in Timers : Mine(t) => e <= t
    /\ \A e \in everStored, p \in puts : p.state # "stored" /\ Mine(p.text) => e <= p.text
    /\ Mine(server) => \A e \in everStored : e <= server

EditorInv == TextsOK /\ TimersOK /\ DraftInv /\ OwnInv /\ OrderInv

LEMMA EditorStart ==
  ASSUME EditorInit
  PROVE  EditorInv
<1>1. /\ typed = 0 /\ putsMade = 0 /\ puts = {} /\ saveTimers = <<>> /\ handle = 0
      /\ shown = -1 /\ server = 0 /\ draft = -3 /\ sendTimer = -3 /\ everStored = {}
      /\ sends = {} /\ asked = {} /\ dropped = {}
  BY DEF EditorInit, Placeholder, NoText, Original, Null
<1>2. TextsOK
  BY <1>1 DEF TextsOK, Texts, NoText, Placeholder, Original
<1>3. TimersOK
  BY <1>1 DEF TimersOK, Null
<1>4. DraftInv
  BY <1>1 DEF DraftInv, DraftKept, Mine
<1>5. OwnInv
  BY <1>1 DEF OwnInv, OnlyOwnTextsLeave, Timers, ToSet, NoText
<1>6. OrderInv
  BY <1>1 DEF OrderInv, Timers, ToSet, Mine
<1> QED BY <1>2, <1>3, <1>4, <1>5, <1>6 DEF EditorInv

\* The texts grow with what the user writes.
LEMMA TextsGrow ==
  ASSUME typed \in Nat, typed' \in {typed, typed + 1}
  PROVE  Texts \subseteq Texts' /\ typed' \in Nat /\ typed <= typed'
         /\ \A t \in Texts : t \in Int /\ t <= typed
BY DEF Texts, Original, Placeholder, Remote

\* The timers after a clearTimeout of the one the editor knows.
LEMMA ClearedTimers ==
  ASSUME TimersOK
  PROVE  /\ Cleared \in Seq(Texts) /\ ToSet(Cleared) \subseteq Timers
         /\ Len(Cleared) = IF handle > 0 THEN Len(saveTimers) - 1 ELSE Len(saveTimers)
<1>1. CASE handle > 0
  <2> DEFINE n == Len(saveTimers)
  <2>1. handle = n /\ n \in Nat /\ n > 0 /\ saveTimers \in Seq(Texts)
    BY <1>1 DEF TimersOK
  <2>2. Cleared = SubSeq(saveTimers, 1, n - 1) \o SubSeq(saveTimers, n + 1, n)
    BY <1>1, <2>1 DEF Cleared, RemoveAt
  <2>3. SubSeq(saveTimers, n + 1, n) = <<>>
    BY <2>1
  <2>4. SubSeq(saveTimers, 1, n - 1) \in Seq(Texts) /\ Len(SubSeq(saveTimers, 1, n - 1)) = n - 1
        /\ \A i \in 1..(n - 1) : SubSeq(saveTimers, 1, n - 1)[i] = saveTimers[i]
    BY <2>1
  <2>5. Cleared = SubSeq(saveTimers, 1, n - 1)
    BY <2>2, <2>3, <2>4
  <2> QED BY <1>1, <2>1, <2>4, <2>5 DEF Timers, ToSet
<1>2. CASE ~(handle > 0)
  BY <1>2 DEF Cleared, Timers, TimersOK
<1> QED BY <1>1, <1>2

\* Steps that leave the timers, the PUTs and the API as they are.
LEMMA EditorRests ==
  ASSUME EditorInv, UNCHANGED <<typed, putVars, storeVars, saveTimers, handle, orphaned>>,
         UNCHANGED <<asked, dropped>>, shown' \in Texts, draft' \in Texts \cup {NoText},
         sendTimer' \in {sendTimer, NoText},
         sends' = sends \/ (sendTimer # NoText /\ sends' = sends \cup {sendTimer}),
         outdated => outdated', DraftKept', Calm' /\ Mine(shown') => shown' = typed
  PROVE  EditorInv'
<1> USE DEF EditorInv, putVars, storeVars
<1>1. Texts' = Texts /\ PutType' = PutType /\ Timers' = Timers
  BY DEF Texts, PutType, Timers
<1>2. sends' \subseteq Texts
  BY DEF TextsOK
<1>3. TextsOK'
  BY <1>1, <1>2 DEF TextsOK
<1>4. TimersOK'
  BY <1>1 DEF TimersOK
<1>5. DraftInv'
  BY DEF DraftInv, Mine
<1>6. OwnInv'
  BY <1>1 DEF OwnInv, OnlyOwnTextsLeave, Mine
<1>7. OrderInv'
  BY <1>1 DEF OrderInv, Calm, Mine
<1> QED BY <1>3, <1>4, <1>5, <1>6, <1>7

\* scheduleDebounce of the text that is shown then.
LEMMA ScheduleKeeps ==
  ASSUME EditorInv, Schedule(shown'), typed' \in {typed, typed + 1}, shown' \in Texts',
         UNCHANGED <<putVars, storeVars, sends, dropped, outdated>>,
         asked' = asked \/ asked' = asked \cup Foreign({shown'}),
         Mine(shown') \/ shown' \in asked',
         Calm /\ Mine(shown') => shown' = typed'
  PROVE  EditorInv'
<1> USE DEF EditorInv, putVars, storeVars
<1>1. /\ typed \in Nat /\ Texts \subseteq Texts' /\ typed' \in Nat /\ typed <= typed'
      /\ \A t \in Texts : t \in Int /\ t <= typed
  BY TextsGrow DEF TextsOK
<1>2. saveTimers' = Append(Cleared, shown') /\ handle' = Len(saveTimers')
      /\ draft' = shown' /\ orphaned' = orphaned
      /\ sendTimer' = IF Mine(shown') THEN NoText ELSE shown'
  BY DEF Schedule
<1>3. Cleared \in Seq(Texts') /\ ToSet(Cleared) \subseteq Timers
      /\ Len(Cleared) = IF handle > 0 THEN Len(saveTimers) - 1 ELSE Len(saveTimers)
  BY <1>1, ClearedTimers
<1>4. Timers' \subseteq Timers \cup {shown'} /\ Len(saveTimers') = Len(Cleared) + 1
      /\ saveTimers' \in Seq(Texts')
  BY <1>2, <1>3 DEF Timers, ToSet
<1>5. TimersOK'
  BY <1>2, <1>4 DEF TimersOK
<1>6. asked' \subseteq Texts'
  BY <1>1 DEF TextsOK, Foreign
<1>7. \A p \in puts' : p \in PutType'
  BY <1>1 DEF TextsOK, PutType
<1>8. TextsOK'
  BY <1>1, <1>2, <1>6, <1>7 DEF TextsOK
<1>9. DraftInv'
  BY <1>2 DEF DraftInv, DraftKept, Mine
<1>10. OwnInv'
  <2>1. asked \subseteq asked'
    OBVIOUS
  <2>2. sendTimer' = NoText \/ sendTimer' \in asked'
    BY <1>2
  <2>3. \A t \in Timers' : Mine(t) \/ t \in asked'
    BY <1>4, <2>1 DEF OwnInv
  <2> QED BY <2>1, <2>2, <2>3 DEF OwnInv, OnlyOwnTextsLeave, Mine
<1>11. OrderInv'
  <2> SUFFICES ASSUME Calm' PROVE OrderInv'
    BY DEF OrderInv
  <2>1. Calm
    BY <1>2 DEF Calm
  <2>2. Mine(shown') => shown' = typed'
    BY <2>1
  <2>3. Len(saveTimers) <= 1 /\ (saveTimers # <<>> => handle > 0) /\ saveTimers \in Seq(Texts)
    BY <2>1 DEF OrderInv, TimersOK
  <2>4. Len(saveTimers') = 1 /\ handle' = 1
    <3>1. CASE handle > 0
      <4>1. Len(saveTimers) = 1
        BY <2>3, <3>1 DEF TimersOK
      <4> QED BY <1>2, <1>3, <1>4, <3>1, <4>1
    <3>2. CASE ~(handle > 0)
      <4>1. Len(saveTimers) = 0
        BY <2>3, <3>2
      <4> QED BY <1>2, <1>3, <1>4, <3>2, <4>1
    <3> QED BY <3>1, <3>2
  <2>5. Timers' = {shown'}
    <3>1. saveTimers'[1] = shown' /\ DOMAIN saveTimers' = {1}
      BY <1>2, <1>3, <1>4, <2>4
    <3> QED BY <3>1 DEF Timers, ToSet
  <2>6. \A p \in puts : p.text \in Texts
    BY DEF TextsOK, PutType
  <2>7. Mine(shown') => (\A p \in puts : p.text <= shown') /\ (\A e \in everStored : e <= shown')
    BY <1>1, <2>2, <2>6 DEF TextsOK
  <2> QED BY <2>1, <2>2, <2>4, <2>5, <2>7 DEF OrderInv, Calm, Mine
<1> QED BY <1>5, <1>8, <1>9, <1>10, <1>11

\* saveToBackend up to its await, of the text of a timer or of the text shown.
LEMMA PutKeeps ==
  ASSUME EditorInv, NEW v \in Texts, NEW timed \in BOOLEAN,
         (Put(v, timed) /\ (Mine(v) \/ v \in asked')) \/ UNCHANGED putVars,
         TimersOK', Timers' \subseteq Timers,
         UNCHANGED <<typed, storeVars, shown, draft, dropped, sends, outdated>>,
         Open' => Open, asked \subseteq asked', asked' \subseteq Texts,
         sendTimer' \in {sendTimer, NoText}, orphaned => orphaned',
         Calm' => Len(saveTimers') <= 1 /\ (saveTimers' # <<>> => handle' > 0),
         Calm' /\ Mine(v) => \A p \in puts : p.text <= v,
         Calm' /\ Mine(v) => \A e \in everStored : e <= v,
         Calm' /\ Mine(v) => \A t \in Timers' : Mine(t) => v <= t
  PROVE  EditorInv'
<1> USE DEF EditorInv, putVars, storeVars
<1> DEFINE p == [nr |-> putsMade + 1, text |-> v, timed |-> timed, state |-> "sent"]
<1>1. /\ puts' = puts /\ putsMade' = putsMade
      \/ /\ puts' = puts \cup {p} /\ putsMade' = putsMade + 1 /\ (Mine(v) \/ v \in asked')
  BY DEF Put
<1>2. Texts' = Texts /\ typed \in Nat /\ putsMade \in Nat /\ putsMade' \in Nat
  BY <1>1 DEF Texts, TextsOK
<1>3. \A q \in puts : q \in PutType /\ q \in PutType' /\ q.nr <= putsMade /\ q.nr \in Nat
  BY <1>1, <1>2 DEF TextsOK, PutType
<1>4. puts' # puts => p \in PutType'
  BY <1>1, <1>2 DEF PutType
<1>5. p.nr = putsMade + 1 /\ p.text = v /\ p.state = "sent"
  OBVIOUS
<1> HIDE DEF p
<1>6. \A q \in puts' : q \in PutType'
  BY <1>1, <1>3, <1>4
<1>7. \A q, r \in puts' : q.nr = r.nr => q = r
  BY <1>1, <1>2, <1>3, <1>5 DEF TextsOK
<1>8. TextsOK'
  BY <1>2, <1>6, <1>7 DEF TextsOK
<1>9. DraftInv'
  BY <1>1, <1>5 DEF DraftInv, DraftKept, Mine
<1>10. OwnInv'
  BY <1>1, <1>5 DEF OwnInv, OnlyOwnTextsLeave, Mine
<1>11. OrderInv'
  <2> SUFFICES ASSUME Calm' PROVE OrderInv'
    BY DEF OrderInv
  <2>1. Calm
    BY DEF Calm
  <2>2. \A q, r \in puts' : q.nr < r.nr /\ Mine(r.text) => q.text <= r.text
    BY <1>1, <1>2, <1>3, <1>5, <2>1 DEF OrderInv
  <2>3. \A q \in puts', t \in Timers' : Mine(t) => q.text <= t
    <3>1. \A t \in Timers' : Mine(t) => v <= t
      <4>1. CASE Mine(v)
        BY <4>1
      <4>2. CASE ~Mine(v)
        BY <1>2, <4>2, TextsGrow DEF Mine, TimersOK, Timers, ToSet
      <4> QED BY <4>1, <4>2
    <3> QED BY <1>1, <1>5, <2>1, <3>1 DEF OrderInv
  <2>4. \A e \in everStored, q \in puts' : q.state # "stored" /\ Mine(q.text) => e <= q.text
    BY <1>1, <1>5, <2>1 DEF OrderInv
  <2> QED BY <2>1, <2>2, <2>3, <2>4 DEF OrderInv, Mine
<1> QED BY <1>8, <1>9, <1>10, <1>11

\* The answer of a PUT that has returned, or will not: it is forgotten, and if it
\* was that of a timer, so is the handle.
LEMMA AnswerKeeps ==
  ASSUME EditorInv, NEW p \in puts, puts' = puts \ {p}, ReleaseHandle(p.timed),
         UNCHANGED <<typed, putsMade, storeVars, shown, saveTimers, sendTimer, sends, asked,
                     outdated>>,
         draft' \in {draft, NoText},
         dropped' = dropped \/ (draft # NoText /\ dropped' = dropped \cup {draft}),
         DraftKept'
  PROVE  EditorInv'
<1> USE DEF EditorInv, storeVars
<1>1. Texts' = Texts /\ PutType' = PutType /\ Timers' = Timers
  BY DEF Texts, PutType, Timers
<1>2. /\ handle' \in {handle, Null}
      /\ orphaned => orphaned'
      /\ handle' # handle => orphaned' \/ ~(handle > 0)
  BY DEF ReleaseHandle, Release
<1>3. TextsOK'
  BY <1>1 DEF TextsOK
<1>4. TimersOK'
  <2>1. CASE handle' = handle
    BY <1>1, <2>1 DEF TimersOK
  <2>2. CASE handle' = Null
    BY <1>1, <2>2 DEF TimersOK, Null
  <2> QED BY <1>2, <2>1, <2>2
<1>5. DraftInv'
  BY DEF DraftInv, Mine
<1>6. OwnInv'
  BY <1>1 DEF OwnInv, OnlyOwnTextsLeave, Mine
<1>7. OrderInv'
  <2> SUFFICES ASSUME Calm' PROVE OrderInv'
    BY DEF OrderInv
  <2>1. Calm
    BY <1>2 DEF Calm
  <2>2. Len(saveTimers') <= 1 /\ (saveTimers' # <<>> => handle' > 0)
    <3>1. handle' = handle \/ ~(handle > 0)
      BY <1>2 DEF Calm
    <3>2. CASE handle' = handle
      BY <2>1, <3>2 DEF OrderInv
    <3>3. CASE ~(handle > 0)
      BY <2>1, <3>3 DEF OrderInv
    <3> QED BY <3>1, <3>2, <3>3
  <2> QED BY <1>1, <2>1, <2>2 DEF OrderInv, Mine
<1> QED BY <1>3, <1>4, <1>5, <1>6, <1>7

LEMMA StoreKeeps ==
  ASSUME EditorInv, NEW p \in puts, PutStored(p)
  PROVE  EditorInv'
<1> USE DEF EditorInv, viewVars, timerVars, userVars, markVars
<1> DEFINE q == [p EXCEPT !.state = "stored"]
<1>1. p \in PutType /\ p.state # "stored"
  BY DEF TextsOK, PutStored
<1>2. q \in PutType /\ q.nr = p.nr /\ q.text = p.text /\ q.state = "stored"
  BY <1>1 DEF PutType
<1>3. puts' = puts \ {p} \/ puts' = (puts \ {p}) \cup {q}
  BY DEF PutStored
<1>4. /\ server' = p.text /\ everStored' = everStored \cup {p.text}
      /\ overtaken' = (overtaken \/ \E r \in puts : r.nr < p.nr /\ r.state # "stored")
      /\ UNCHANGED <<viewVars, draft, timerVars, putsMade, userVars, sends, markVars>>
  BY DEF PutStored
<1> HIDE DEF q
<1>5. Texts' = Texts /\ PutType' = PutType /\ Timers' = Timers
  BY <1>4 DEF Texts, PutType, Timers
<1>6. /\ p.text \in Texts /\ p.nr \in Nat
      /\ \A t \in Texts : t \in Int
      /\ \A r \in puts : r.text \in Texts /\ r.nr \in Nat
  <2>1. typed' = typed /\ typed \in Nat /\ \A r \in puts : r \in PutType
    BY <1>4 DEF TextsOK
  <2> QED BY <1>1, <2>1, TextsGrow DEF PutType
<1>7. TextsOK'
  <2>1. \A r, s \in puts' : r.nr = s.nr => r = s
    BY <1>2, <1>3 DEF TextsOK
  <2>2. \A r \in puts' : r \in PutType'
    BY <1>2, <1>3, <1>5 DEF TextsOK
  <2> QED BY <1>4, <1>5, <1>6, <2>1, <2>2 DEF TextsOK
<1>8. TimersOK'
  BY <1>4, <1>5 DEF TimersOK
<1>9. DraftInv'
  BY <1>2, <1>3, <1>4 DEF DraftInv, DraftKept, Open, Mine
<1>10. OwnInv'
  <2>1. Mine(p.text) \/ p.text \in asked
    BY DEF OwnInv
  <2> QED BY <1>2, <1>3, <1>4, <1>5, <2>1 DEF OwnInv, OnlyOwnTextsLeave, Mine
<1>11. OrderInv'
  <2> SUFFICES ASSUME Calm' PROVE OrderInv'
    BY DEF OrderInv
  <2>1. Calm /\ \A r \in puts : r.state # "stored" => ~(r.nr < p.nr)
    BY <1>4 DEF Calm
  <2>2. \A r \in puts' : /\ r.nr \in Nat /\ r.text \in Int
                         /\ \E s \in puts : s.nr = r.nr /\ s.text = r.text
                                           /\ (r.state # "stored" => s = r /\ r # p)
    <3>1. \A r \in puts : r.nr \in Nat /\ r.text \in Int
      BY <1>6
    <3> QED BY <1>2, <1>3, <3>1
  <2>3. \A r, s \in puts' : r.nr < s.nr /\ Mine(s.text) => r.text <= s.text
    BY <2>1, <2>2 DEF OrderInv, Mine
  <2>4. \A r \in puts', t \in Timers' : Mine(t) => r.text <= t
    BY <1>5, <2>1, <2>2 DEF OrderInv
  <2>5. \A e \in everStored', t \in Timers' : Mine(t) => e <= t
    BY <1>4, <1>5, <2>1 DEF OrderInv
  <2>6. \A e \in everStored', r \in puts' : r.state # "stored" /\ Mine(r.text) => e <= r.text
    <3> SUFFICES ASSUME NEW e \in everStored', NEW r \in puts', r.state # "stored", Mine(r.text)
                 PROVE  e <= r.text
      OBVIOUS
    <3>1. r \in puts /\ r # p /\ r.nr # p.nr /\ r.nr \in Nat
      BY <2>2 DEF TextsOK
    <3>2. p.nr < r.nr
      BY <1>6, <2>1, <3>1
    <3> QED BY <1>4, <2>1, <3>1, <3>2 DEF OrderInv
  <2>7. Mine(server') => \A e \in everStored' : e <= server'
    <3>1. p.text <= p.text
      BY <1>6
    <3> QED BY <1>1, <1>4, <2>1, <3>1 DEF OrderInv
  <2> QED BY <1>4, <2>1, <2>3, <2>4, <2>5, <2>6, <2>7 DEF OrderInv, Mine
<1> QED BY <1>7, <1>8, <1>9, <1>10, <1>11

LEMMA CrashKeeps ==
  ASSUME EditorInv, Crash
  PROVE  EditorInv'
<1> USE DEF EditorInv, storeVars
<1>1. /\ stage' = "closed" /\ shown' = Placeholder /\ saveTimers' = <<>> /\ handle' = Null
      /\ sendTimer' = NoText
      /\ puts' = {[p EXCEPT !.state = "lost"] : p \in {q \in puts : q.state # "stored"}}
      /\ UNCHANGED <<draft, orphaned, putsMade, storeVars, typed, asked, sends, dropped, outdated>>
  BY DEF Crash, markVars
<1>2. Texts' = Texts /\ PutType' = PutType /\ Timers' = {}
  BY <1>1 DEF Texts, PutType, Timers, ToSet
<1>3. \A p \in puts : LET q == [p EXCEPT !.state = "lost"] IN
        /\ q \in PutType /\ q.nr = p.nr /\ q.text = p.text /\ q.state = "lost"
  BY DEF TextsOK, PutType
<1>4. \A r \in puts' : r \in PutType /\ r.state = "lost" /\
         \E p \in puts : r = [p EXCEPT !.state = "lost"] /\ p.state # "stored"
                       /\ r.nr = p.nr /\ r.text = p.text
  BY <1>1, <1>3, ZenonT(60)
<1>5. TextsOK'
  <2>1. \A r, s \in puts' : r.nr = s.nr => r = s
    BY <1>4 DEF TextsOK
  <2>2. shown' \in Texts /\ sendTimer' = NoText
    BY <1>1 DEF Texts
  <2> QED BY <1>1, <1>2, <1>4, <2>1, <2>2 DEF TextsOK
<1>6. TimersOK'
  BY <1>1 DEF TimersOK, Null
<1>7. DraftInv'
  BY <1>1, <1>4 DEF DraftInv, DraftKept, Open, Mine
<1>8. OwnInv'
  BY <1>1, <1>2, <1>4 DEF OwnInv, OnlyOwnTextsLeave, Mine
<1>9. OrderInv'
  <2>1. ~Mine(shown')
    BY <1>1 DEF Mine, Placeholder
  <2>2. Len(saveTimers') <= 1 /\ saveTimers' = <<>>
    BY <1>1
  <2> QED BY <1>1, <1>2, <1>4, <2>1, <2>2 DEF OrderInv, Calm, Mine
<1> QED BY <1>5, <1>6, <1>7, <1>8, <1>9

LEMMA EditorStep ==
  ASSUME EditorInv, EditorNext
  PROVE  EditorInv'
<1> USE DEF EditorInv
<1>1. /\ typed \in Nat /\ shown \in Texts /\ server \in Texts /\ draft \in Texts \cup {NoText}
      /\ asked \subseteq Texts /\ sendTimer \in Texts \cup {NoText}
      /\ \A t \in Texts : t \in Int /\ t <= typed
      /\ Placeholder \in Texts /\ Remote \in Texts /\ ~Mine(Placeholder) /\ ~Mine(Remote)
      /\ typed + 1 \in Nat /\ Mine(typed + 1)
  <2>1. \A t \in Texts : t \in Int /\ t <= typed
    BY DEF TextsOK, Texts, Original, Placeholder, Remote
  <2> QED BY <2>1 DEF TextsOK, Texts, Placeholder, Remote, Mine
<1>2. Calm => (Mine(shown) => shown = typed)
  BY DEF OrderInv
<1>3. DraftKept /\ (Mine(server) => server \in everStored)
  BY DEF DraftInv
<1> USE DEF viewVars, timerVars, userVars, markVars
<1>4. ASSUME OpenEditorTab PROVE EditorInv'
  <2>1. DraftKept' /\ ~Mine(shown')
    BY <1>1, <1>4 DEF OpenEditorTab, DraftKept, Mine
  <2> QED BY <1>1, <1>4, <2>1, EditorRests DEF OpenEditorTab
<1>5. ASSUME LoadText PROVE EditorInv'
  <2>1. /\ (shown' = draft /\ draft # NoText) \/ shown' = server
        /\ outdated' = (outdated \/ shown' < typed)
        /\ UNCHANGED <<editable, draft, timerVars, putVars, storeVars, userVars, sends,
                       dropped, troubled>>
    BY <1>5 DEF LoadText
  <2>2. shown' \in Texts
    BY <1>1, <2>1
  <2>3. Calm' => shown' = typed
    <3>1. ~outdated' => ~(shown' < typed)
      BY <2>1
    <3>2. shown' \in Int /\ shown' <= typed
      BY <1>1, <2>2
    <3> QED BY <1>1, <3>1, <3>2 DEF Calm
  <2>4. DraftKept'
    BY <1>3, <2>1 DEF DraftKept, Mine, storeVars
  <2> QED BY <1>1, <2>1, <2>2, <2>3, <2>4, EditorRests
<1>6. ASSUME LoadAccess \/ FormatStart \/ Permission PROVE EditorInv'
  <2>1. /\ UNCHANGED <<shown, draft, timerVars, putVars, storeVars, typed, asked, sends, dropped,
                       outdated>>
        /\ Open
    BY <1>6 DEF LoadAccess, FormatStart, Permission, Open
  <2>2. DraftKept'
    BY <1>3, <2>1 DEF DraftKept, Mine, storeVars
  <2>3. Calm' => Calm
    BY <2>1 DEF Calm, storeVars
  <2> QED BY <1>1, <1>2, <2>1, <2>2, <2>3, EditorRests
<1>7. ASSUME ContentUpdate PROVE EditorInv'
  <2>1. DraftKept' /\ ~Mine(shown')
    BY <1>1, <1>7 DEF ContentUpdate, DraftKept, Mine
  <2> QED BY <1>1, <1>7, <2>1, EditorRests DEF ContentUpdate
<1>8. ASSUME SendFires PROVE EditorInv'
  <2>1. DraftKept'
    BY <1>3, <1>8 DEF SendFires, DraftKept, Open, Mine, storeVars
  <2>2. Calm' => Calm
    BY <1>8 DEF SendFires, Calm, storeVars
  <2> QED BY <1>1, <1>2, <1>8, <2>1, <2>2, EditorRests DEF SendFires
<1>9. ASSUME FormatEnd PROVE EditorInv'
  <2>1. CASE typed' = typed + 1 /\ shown' = typed + 1 /\ Schedule(typed + 1)
    <3>1. shown' \in Texts'
      BY <1>1, <2>1 DEF Texts
    <3>2. Mine(shown')
      BY <1>1, <2>1
    <3> QED BY <1>9, <2>1, <3>1, <3>2, ScheduleKeeps DEF FormatEnd
  <2>2. CASE UNCHANGED <<typed, shown, restored, draft, timerVars>>
    <3>1. DraftKept'
      BY <1>3, <1>9, <2>2 DEF FormatEnd, DraftKept, Open, Mine, storeVars
    <3>2. Calm' => Calm
      BY <1>9, <2>2 DEF FormatEnd, Calm, storeVars
    <3> QED BY <1>1, <1>2, <1>9, <2>2, <3>1, <3>2, EditorRests DEF FormatEnd
  <2> QED BY <1>9, <2>1, <2>2 DEF FormatEnd
<1>10. ASSUME Type PROVE EditorInv'
  <2>1. typed' = typed + 1 /\ shown' = typed + 1 /\ Schedule(typed + 1)
    BY <1>10 DEF Type
  <2>2. shown' \in Texts'
    BY <1>1, <2>1 DEF Texts
  <2>3. Mine(shown')
    BY <1>1, <2>1
  <2> QED BY <1>10, <2>1, <2>2, <2>3, ScheduleKeeps DEF Type
<1>11. ASSUME ModS PROVE EditorInv'
  <2>1. /\ Schedule(shown) /\ asked' = asked \cup Foreign({shown}) /\ shown' = shown
        /\ UNCHANGED <<putVars, storeVars, typed, sends, dropped, outdated>>
    BY <1>11 DEF ModS, Ask
  <2>2. Mine(shown') \/ shown' \in asked'
    BY <2>1 DEF Foreign
  <2>3. shown' \in Texts'
    BY <1>1, <2>1 DEF Texts
  <2> QED BY <1>1, <1>2, <2>1, <2>2, <2>3, ScheduleKeeps
<1>12. ASSUME ManualSave \/ CloseEditor PROVE EditorInv'
  <2>1. /\ saveTimers' = Cleared /\ handle' = Null /\ Open
        /\ asked' = asked \cup Foreign({shown}) \/ asked' = asked
        /\ sendTimer' \in {sendTimer, NoText}
        /\ UNCHANGED <<shown, draft, orphaned, storeVars, typed, sends, dropped, outdated>>
    <3>1. CASE ManualSave
      BY <3>1 DEF ManualSave, Ask
    <3>2. CASE CloseEditor
      BY <3>2 DEF CloseEditor
    <3> QED BY <1>12, <3>1, <3>2
  <2>1a. (Put(shown, FALSE) /\ asked' = asked \cup Foreign({shown})) \/ UNCHANGED putVars
    <3>1. CASE ManualSave
      BY <3>1, Zenon DEF ManualSave, Ask
    <3>2. CASE CloseEditor
      <4>1. CASE handle # Null
        BY <3>2, <4>1, Zenon DEF CloseEditor
      <4>2. CASE handle = Null
        BY <3>2, <4>2 DEF CloseEditor
      <4> QED BY <4>1, <4>2
    <3> QED BY <1>12, <3>1, <3>2, Zenon
  <2>2. Texts' = Texts
    BY <2>1 DEF Texts
  <2>3. TimersOK' /\ Timers' \subseteq Timers
    BY <2>1, <2>2, ClearedTimers DEF TimersOK, Null, Timers
  <2>4. asked \subseteq asked' /\ asked' \subseteq Texts
    BY <1>1, <2>1 DEF Foreign
  <2>5. (Put(shown, FALSE) /\ (Mine(shown) \/ shown \in asked')) \/ UNCHANGED putVars
    <3>1. asked' = asked \cup Foreign({shown}) => Mine(shown) \/ shown \in asked'
      BY DEF Foreign
    <3> QED BY <2>1a, <3>1, Zenon
  <2>6. ASSUME Calm'
        PROVE  /\ saveTimers' = <<>>
               /\ Mine(shown) => shown = typed
    <3>1. Calm
      BY <2>1, <2>6 DEF Calm, storeVars
    <3>2. Len(saveTimers) <= 1 /\ (saveTimers # <<>> => handle > 0) /\ saveTimers \in Seq(Texts)
      BY <3>1 DEF OrderInv, TimersOK
    <3>3. saveTimers' \in Seq(Texts) /\ Len(saveTimers') = 0
      <4>1. CASE handle > 0
        BY <2>1, <3>2, <4>1, ClearedTimers DEF TimersOK
      <4>2. CASE ~(handle > 0)
        BY <2>1, <3>2, <4>2, ClearedTimers
      <4> QED BY <4>1, <4>2
    <3> QED BY <1>2, <3>1, <3>3
  <2>7. ASSUME Calm', Mine(shown)
        PROVE  /\ \A p \in puts : p.text <= shown
               /\ \A e \in everStored : e <= shown
               /\ Timers' = {}
    BY <1>1, <2>6, <2>7 DEF TextsOK, PutType, Timers, ToSet
  <2>8. Len(saveTimers') <= 1 \/ ~Calm'
    BY <2>6
  <2> HIDE DEF EditorInv
  <2> QED BY <1>1, <2>1, <2>3, <2>4, <2>5, <2>6, <2>7, <2>8, PutKeeps
<1>13. ASSUME SaveFires PROVE EditorInv'
  <2> DEFINE v == Head(saveTimers)
  <2>1. /\ saveTimers # <<>> /\ saveTimers' = Tail(saveTimers)
        /\ Put(v, TRUE)
        /\ UNCHANGED <<stage, shown, draft, sendTimer, storeVars, typed, asked, sends, dropped,
                       outdated>>
    BY <1>13 DEF SaveFires
  <2>2. /\ saveTimers \in Seq(Texts) /\ Len(saveTimers) \in Nat /\ Len(saveTimers) >= 1
        /\ handle \in {Null, Fired} \cup 1..Len(saveTimers)
        /\ handle > 0 => handle = Len(saveTimers)
    BY <2>1 DEF TimersOK
  <2>3. /\ v \in Timers /\ v = saveTimers[1] /\ Tail(saveTimers) \in Seq(Texts)
        /\ Len(Tail(saveTimers)) = Len(saveTimers) - 1
        /\ ToSet(Tail(saveTimers)) \subseteq Timers
    BY <2>1, <2>2 DEF Timers, ToSet
  <2>4. Texts' = Texts
    BY <2>1 DEF Texts
  <2>5. /\ handle' \in {Null, Fired} \cup 1..(Len(saveTimers) - 1)
        /\ handle' > 0 => handle' = Len(saveTimers) - 1
        /\ orphaned => orphaned'
    <3> DEFINE named == IF handle = 1 THEN Fired ELSE IF handle > 1 THEN handle - 1 ELSE handle
    <3>1. handle' \in {named, Null} /\ (orphaned => orphaned')
      <4>1. IF editable THEN handle' = named /\ UNCHANGED orphaned ELSE Release(named)
        BY <1>13 DEF SaveFires
      <4>2. CASE editable
        <5>1. handle' = named /\ UNCHANGED orphaned
          BY <4>1, <4>2
        <5> HIDE DEF named
        <5> QED BY <5>1
      <4>3. CASE ~editable
        <5>1. handle' = Null /\ orphaned' = (orphaned \/ named > 0)
          BY <4>1, <4>3 DEF Release
        <5> HIDE DEF named
        <5> QED BY <5>1
      <4> QED BY <4>2, <4>3
    <3>2. named \in {Null, Fired} \cup 1..(Len(saveTimers) - 1)
          /\ (named > 0 => named = Len(saveTimers) - 1)
      BY <2>2 DEF Null, Fired
    <3> HIDE DEF named
    <3> QED BY <3>1, <3>2 DEF Null
  <2>6. TimersOK' /\ Timers' \subseteq Timers
    BY <2>1, <2>3, <2>4, <2>5 DEF TimersOK, Timers
  <2>7. Mine(v) \/ v \in asked'
    BY <2>1, <2>3 DEF OwnInv
  <2>8. ASSUME Calm'
        PROVE  /\ saveTimers' = <<>> /\ Timers' = {}
               /\ Mine(v) => /\ \A p \in puts : p.text <= v
                             /\ \A e \in everStored : e <= v
    <3>1. Calm
      BY <2>1, <2>5, <2>8 DEF Calm, storeVars
    <3>2. Len(saveTimers) = 1
      <4>1. PICK n \in Nat : n = Len(saveTimers) /\ n >= 1
        BY <2>2
      <4>2. n <= 1
        BY <3>1, <4>1 DEF OrderInv
      <4>3. n = 1
        BY <4>1, <4>2
      <4> QED BY <4>1, <4>3
    <3>3. saveTimers' = <<>>
      BY <2>1, <2>3, <3>2
    <3> QED BY <2>3, <3>1, <3>3 DEF OrderInv, Timers, ToSet
  <2>9. v \in Texts
    BY <2>2, <2>3
  <2>10. Open' => Open
    BY <2>1 DEF Open
  <2>11. Len(saveTimers') <= 1 \/ ~Calm'
    BY <2>8
  <2>12. asked' \subseteq Texts /\ asked \subseteq asked'
    BY <1>1, <2>1
  <2> HIDE DEF v, EditorInv
  <2> QED BY <2>1, <2>5, <2>6, <2>7, <2>8, <2>9, <2>10, <2>11, <2>12, PutKeeps
<1>14. ASSUME NEW p \in puts, PutReturns(p) PROVE EditorInv'
  <2>1. /\ puts' = puts \ {p} /\ ReleaseHandle(p.timed) /\ p.state = "stored" /\ draft' = NoText
        /\ dropped' = IF draft \in {p.text, NoText} THEN dropped ELSE dropped \cup {draft}
        /\ UNCHANGED <<stage, typed, putsMade, storeVars, shown, saveTimers, sendTimer, sends,
                       asked, outdated>>
    BY <1>14 DEF PutReturns
  <2>2. p.text \in everStored
    BY <2>1 DEF DraftInv
  <2>3. DraftKept'
    BY <1>3, <2>1, <2>2 DEF DraftKept, Open, Mine, NoText, storeVars
  <2>4. dropped' = dropped \/ (draft # NoText /\ dropped' = dropped \cup {draft})
    BY <2>1
  <2> HIDE DEF EditorInv
  <2> QED BY <2>1, <2>3, <2>4, AnswerKeeps
<1>15. ASSUME NEW p \in puts, PutFails(p) PROVE EditorInv'
  <2>1. DraftKept'
    BY <1>3, <1>15 DEF PutFails, Failed, DraftKept, Open, Mine, storeVars
  <2> HIDE DEF EditorInv
  <2> QED BY <1>15, <2>1, AnswerKeeps DEF PutFails, Failed
<1>16. ASSUME NEW p \in puts, PutStored(p) PROVE EditorInv'
  BY <1>16, StoreKeeps
<1>17. ASSUME Crash PROVE EditorInv'
  BY <1>17, CrashKeeps
<1> HIDE DEF EditorInv, viewVars, timerVars, userVars, markVars
<1> QED
  BY <1>4, <1>5, <1>6, <1>7, <1>8, <1>9, <1>10, <1>11, <1>12, <1>13, <1>14, <1>15, <1>16, <1>17
  DEF EditorNext, EditorProgress

LEMMA EditorStutters ==
  ASSUME EditorInv, UNCHANGED editorVars
  PROVE  EditorInv'
<1>1. Texts' = Texts /\ PutType' = PutType /\ Timers' = Timers
  BY DEF editorVars, Texts, PutType, Timers
<1> QED BY <1>1
  DEF EditorInv, TextsOK, TimersOK, DraftInv, DraftKept, OwnInv, OnlyOwnTextsLeave, OrderInv,
      Open, Calm, Mine, editorVars

LEMMA EditorAlways == EditorSpec => []EditorInv
<1>1. EditorInv /\ [EditorNext]_editorVars => EditorInv'
  BY EditorStep, EditorStutters
<1> QED BY <1>1, EditorStart, PTL DEF EditorSpec

(* EditorComponent: a text the user sees is in the draft or was stored,      *)
(* whatever fails, unless the answer to an older save removed its draft.     *)
THEOREM DraftAlwaysKept == EditorSpec => []DraftKept
<1>1. EditorInv => DraftKept
  BY DEF EditorInv, DraftInv
<1> QED BY <1>1, EditorAlways, PTL

(* EditorComponent: the API gets the user's texts in the order written but   *)
(* for the three named ways of getting it wrong, and a collaborator's text   *)
(* never leaves the editor by itself.                                        *)
THEOREM SavesAlwaysOwnInOrder == EditorSpec => []SavesOwnInOrder
<1>1. EditorInv => SavesOwnInOrder
  BY DEF EditorInv, OwnInv, OrderInv, Calm, SavesOwnInOrder, SavedInOrder
<1> QED BY <1>1, EditorAlways, PTL

(***************************************************************************)
(* Lists without repetition                                                *)
(***************************************************************************)

\* s lists members of S, none twice.
Keyed(s, S) == s \in Seq(S) /\ \A i, j \in DOMAIN s : s[i] = s[j] => i = j

LEMMA KeyDeleted ==
  ASSUME NEW S, NEW s, Keyed(s, S), NEW d \in ToSet(s)
  PROVE  Keyed(RemoveFirst(s, d), S) /\ ToSet(RemoveFirst(s, d)) = ToSet(s) \ {d}
<1>1. PICK n \in Nat : n = Len(s)
  BY DEF Keyed
<1>2. PICK k \in 1..n : s[k] = d
  BY <1>1 DEF ToSet, Keyed
<1>3. {i \in 1..Len(s) : s[i] = d} = {k}
  BY <1>1, <1>2 DEF Keyed
<1>4. Min({k}) = k
  BY <1>2 DEF Min
<1>5. RemoveFirst(s, d) = RemoveAt(s, k)
  BY <1>1, <1>2, <1>3, <1>4 DEF RemoveFirst, SelectInSeq
<1>6. PICK t : t = RemoveAt(s, k)
  OBVIOUS
<1>7. /\ t \in Seq(S) /\ Len(t) = n - 1
      /\ \A l \in 1..(n - 1) : (l < k => t[l] = s[l]) /\ (l >= k => t[l] = s[l + 1])
  <2>1. PICK a : a = SubSeq(s, 1, k - 1)
    OBVIOUS
  <2>2. PICK b : b = SubSeq(s, k + 1, n)
    OBVIOUS
  <2>3. k \in Nat /\ 1 <= k /\ k <= n /\ s \in Seq(S)
    BY <1>2 DEF Keyed
  <2>4. a \in Seq(S) /\ Len(a) = k - 1 /\ \A l \in 1..(k - 1) : a[l] = s[l]
    BY <1>1, <2>1, <2>3
  <2>5. b \in Seq(S) /\ Len(b) = n - k /\ \A l \in 1..(n - k) : b[l] = s[l + k]
    BY <1>1, <2>2, <2>3
  <2>6. t = a \o b
    BY <1>1, <1>6, <2>1, <2>2 DEF RemoveAt
  <2>7. /\ a \o b \in Seq(S) /\ Len(a \o b) = Len(a) + Len(b)
        /\ \A l \in 1..(Len(a) + Len(b)) : (a \o b)[l] = IF l <= Len(a) THEN a[l] ELSE b[l - Len(a)]
    <3>1. a \in Seq(S) /\ b \in Seq(S)
      BY <2>4, <2>5
    <3> QED BY <3>1
  <2>8. Len(a) + Len(b) = n - 1
    BY <2>3, <2>4, <2>5
  <2>9. ASSUME NEW l \in 1..(n - 1)
        PROVE  (l < k => t[l] = s[l]) /\ (l >= k => t[l] = s[l + 1])
    <3>1. CASE l < k
      BY <2>3, <2>4, <2>6, <2>7, <2>8, <3>1
    <3>2. CASE l >= k
      <4>1. l - (k - 1) \in 1..(n - k) /\ l - (k - 1) + k = l + 1
        BY <2>3, <3>2
      <4>2. t[l] = b[l - (k - 1)]
        BY <2>3, <2>4, <2>6, <2>7, <2>8, <3>2
      <4> QED BY <2>3, <2>5, <3>2, <4>1, <4>2, SMTT(30)
    <3> QED BY <3>1, <3>2
  <2> QED BY <2>6, <2>7, <2>8, <2>9
<1>8. DOMAIN t = 1..(n - 1) /\ DOMAIN s = 1..n
  BY <1>1, <1>7 DEF Keyed
<1>9. Keyed(t, S)
  <2>1. ASSUME NEW i \in 1..(n - 1), NEW j \in 1..(n - 1), t[i] = t[j] PROVE i = j
    <3>1. PICK ii \in 1..n : ii = (IF i < k THEN i ELSE i + 1)
      OBVIOUS
    <3>2. PICK jj \in 1..n : jj = (IF j < k THEN j ELSE j + 1)
      OBVIOUS
    <3>3. s[ii] = s[jj]
      BY <1>2, <1>7, <2>1, <3>1, <3>2
    <3>4. ii = jj
      BY <1>8, <3>3 DEF Keyed
    <3> QED BY <1>2, <3>1, <3>2, <3>4
  <2> QED BY <1>7, <1>8, <2>1 DEF Keyed
<1>10. ASSUME NEW x PROVE x \in ToSet(t) <=> x \in ToSet(s) \ {d}
  <2>1. ASSUME x \in ToSet(t) PROVE x \in ToSet(s) \ {d}
    <3>1. PICK i \in 1..(n - 1) : x = t[i]
      BY <1>8, <2>1 DEF ToSet
    <3>2. PICK ii \in 1..n : ii = (IF i < k THEN i ELSE i + 1)
      OBVIOUS
    <3>3. x = s[ii] /\ ii # k
      BY <1>2, <1>7, <3>1, <3>2
    <3> QED BY <1>2, <1>8, <3>3 DEF ToSet, Keyed
  <2>2. ASSUME x \in ToSet(s), x # d PROVE x \in ToSet(t)
    <3>1. PICK i \in 1..n : x = s[i]
      BY <1>8, <2>2 DEF ToSet
    <3>2. i # k
      BY <1>2, <2>2, <3>1
    <3>3. PICK l : l = (IF i < k THEN i ELSE i - 1)
      OBVIOUS
    <3>4. l \in 1..(n - 1) /\ (i < k => l < k /\ l = i) /\ (~(i < k) => l >= k /\ l + 1 = i)
      BY <1>2, <3>2, <3>3
    <3>5. t[l] = x
      BY <1>2, <1>7, <3>1, <3>4
    <3> QED BY <1>8, <3>4, <3>5 DEF ToSet
  <2> QED BY <2>1, <2>2
<1> QED BY <1>5, <1>6, <1>9, <1>10

(***************************************************************************)
(* The rooms of the realtime connection                                    *)
(***************************************************************************)

MsgType == {Msg(kind, d) : kind \in {"join", "leave", "event"}, d \in Docs}
             \cup {Msg(kind, w) : kind \in {"joinWorkspace", "leaveWorkspace"}, w \in Workspaces}

\* Message m is on its way in q; once q is taken, what m enters is not left by n.
Carries(q, m) == \E i \in DOMAIN q : q[i] = m
Rests(q, m, n) ==
  \E i \in DOMAIN q : q[i] = m /\ \A j \in DOMAIN q : j > i => q[j] # n

\* What the connection will be in once the messages on their way are taken.
InWorkspace(w) ==
  \/ Rests(outbox, Msg("joinWorkspace", w), Msg("leaveWorkspace", w))
  \/ w \in rooms /\ ~Carries(outbox, Msg("leaveWorkspace", w))
JoinComing(d) ==
  \/ Rests(outbox, Msg("join", d), Msg("leave", d))
  \/ ~Carries(outbox, Msg("leave", d)) /\ (joining[d] > 0 \/ d \in members \cup refused)

WorkspaceOK(w) ==
  /\ InWorkspace(w) => w \in wanted \cup excused
  /\ link = "up" /\ w \in wanted => InWorkspace(w)

\* Nothing brings the connection back into the room of a document that was left.
Forgotten(d) ==
  /\ d \notin ToSet(states) /\ joining[d] = 0 /\ ~Carries(outbox, Msg("join", d))
  /\ d \in members => Carries(outbox, Msg("leave", d))

DocOK(d) ==
  /\ Shown(d) => d \in ToSet(states)
  /\ subscribers[d] = IF editor[d] = "joined" THEN 1 ELSE 0
  /\ link = "up" /\ editor[d] = "joined" => JoinComing(d)
  /\ ~Shown(d) => d \in excused \/ Forgotten(d)

LinkInv ==
  /\ link = "off" => wanted = {} /\ \A d \in Docs : editor[d] # "joined"
  /\ link # "up" => members = {} /\ rooms = {} /\ \A d \in Docs : joining[d] = 0


RealtimeShape ==
  /\ editor \in [Docs -> {"none", "loading", "joined"}] /\ subscribers \in [Docs -> Nat]
  /\ Keyed(states, Docs) /\ joining \in [Docs -> Nat]
  /\ members \subseteq Docs /\ wanted \subseteq Workspaces /\ rooms \subseteq Workspaces
  /\ outbox \in Seq(MsgType) /\ inbox \in Seq(Docs) /\ link \in {"off", "connecting", "up"}

RoomsInv ==
  /\ RealtimeShape /\ LinkInv
  /\ \A w \in Workspaces : WorkspaceOK(w)
  /\ \A d \in Docs : DocOK(d)

LEMMA Messages ==
  /\ \A k, r, s : Msg(k, r) = Msg(k, s) => r = s
  /\ \A k, l, r, s : k # l => Msg(k, r) # Msg(l, s)
  /\ \A d \in Docs : /\ Msg("join", d) \in MsgType /\ Msg("leave", d) \in MsgType
                     /\ Msg("event", d) \in MsgType
  /\ \A w \in Workspaces : /\ Msg("joinWorkspace", w) \in MsgType
                           /\ Msg("leaveWorkspace", w) \in MsgType
<1>1. \A k, r : Msg(k, r).kind = k /\ Msg(k, r).room = r
  BY DEF Msg
<1>2. ASSUME NEW k, NEW l, NEW r, NEW s, Msg(k, r) = Msg(l, s) PROVE k = l /\ r = s
  BY <1>1, <1>2
<1> QED BY <1>2 DEF MsgType

LEMMA Appended ==
  ASSUME NEW q \in Seq(MsgType), NEW m \in MsgType
  PROVE  /\ Append(q, m) \in Seq(MsgType)
         /\ \A a : Carries(Append(q, m), a) <=> Carries(q, a) \/ a = m
         /\ \A a, b : a # b => (Rests(Append(q, m), a, b) <=> a = m \/ (b # m /\ Rests(q, a, b)))
<1>1. PICK n \in Nat : n = Len(q)
  OBVIOUS
<1>2. PICK t : t = Append(q, m)
  OBVIOUS
<1>3. /\ t \in Seq(MsgType) /\ DOMAIN t = 1..(n + 1) /\ DOMAIN q = 1..n
      /\ t[n + 1] = m /\ \A i \in 1..n : t[i] = q[i]
  BY <1>1, <1>2
<1>4. n + 1 \in 1..(n + 1) /\ (\A i \in 1..(n + 1) : i \in 1..n \/ i = n + 1)
      /\ (\A i \in 1..n : i \in 1..(n + 1) /\ n + 1 > i)
  OBVIOUS
<1>5. \A a : Carries(t, a) <=> Carries(q, a) \/ a = m
  BY <1>3, <1>4 DEF Carries
<1>6. ASSUME NEW a, NEW b, a # b PROVE Rests(t, a, b) <=> a = m \/ (b # m /\ Rests(q, a, b))
  <2>1. ASSUME Rests(t, a, b), a # m PROVE b # m /\ Rests(q, a, b)
    <3>1. PICK i \in 1..(n + 1) : t[i] = a /\ \A j \in 1..(n + 1) : j > i => t[j] # b
      BY <1>3, <2>1 DEF Rests
    <3>2. i \in 1..n
      BY <1>3, <1>4, <2>1, <3>1
    <3> QED BY <1>3, <1>4, <3>1, <3>2 DEF Rests
  <2>2. ASSUME a = m PROVE Rests(t, a, b)
    <3>1. \A j \in 1..(n + 1) : ~(j > n + 1)
      OBVIOUS
    <3> QED BY <1>3, <1>4, <2>2, <3>1 DEF Rests
  <2>3. ASSUME b # m, Rests(q, a, b) PROVE Rests(t, a, b)
    BY <1>3, <1>4, <2>3 DEF Rests
  <2> QED BY <2>1, <2>2, <2>3
<1> QED BY <1>2, <1>3, <1>5, <1>6

\* q is m followed by t.
Heads(q, m, t) ==
  \E n \in Nat : DOMAIN t = 1..n /\ DOMAIN q = 1..(n + 1) /\ q[1] = m /\ \A i \in 1..n : t[i] = q[i + 1]

LEMMA TakenFrom ==
  ASSUME NEW q, NEW t, NEW m, Heads(q, m, t)
  PROVE  /\ \A a : Carries(q, a) <=> Carries(t, a) \/ a = m
         /\ \A a, b : a # b =>
              (Rests(q, a, b) <=> Rests(t, a, b) \/ (a = m /\ ~Carries(t, b)))
<1>1. PICK n \in Nat : /\ DOMAIN t = 1..n /\ DOMAIN q = 1..(n + 1)
                       /\ q[1] = m /\ \A i \in 1..n : t[i] = q[i + 1]
  BY DEF Heads
<1>2. /\ \A i \in 1..(n + 1) : i = 1 \/ (i - 1 \in 1..n /\ (i - 1) + 1 = i)
      /\ \A i \in 1..n : i + 1 \in 1..(n + 1) /\ i + 1 > 1
      /\ 1 \in 1..(n + 1)
  OBVIOUS
<1>3. \A i \in 1..(n + 1) : i = 1 \/ (i - 1 \in 1..n /\ t[i - 1] = q[i])
  BY <1>1, <1>2
<1>4. \A a : Carries(q, a) <=> Carries(t, a) \/ a = m
  BY <1>1, <1>2, <1>3 DEF Carries
<1>5. ASSUME NEW a, NEW b, a # b
      PROVE  Rests(q, a, b) <=> Rests(t, a, b) \/ (a = m /\ ~Carries(t, b))
  <2>1. ASSUME Rests(q, a, b) PROVE Rests(t, a, b) \/ (a = m /\ ~Carries(t, b))
    <3>1. PICK i \in 1..(n + 1) : q[i] = a /\ \A j \in 1..(n + 1) : j > i => q[j] # b
      BY <1>1, <2>1 DEF Rests
    <3>2. CASE i = 1
      BY <1>1, <1>2, <3>1, <3>2 DEF Carries
    <3>3. CASE i # 1
      <4>1. PICK k \in 1..n : k = i - 1
        BY <1>1, <1>3, <3>3
      <4>2. t[k] = a
        BY <1>1, <1>3, <3>1, <3>3, <4>1
      <4>3. ASSUME NEW j \in 1..n, j > k PROVE t[j] # b
        <5>1. j + 1 \in 1..(n + 1) /\ j + 1 > i
          BY <1>1, <4>1, <4>3
        <5> QED BY <1>1, <3>1, <5>1
      <4> QED BY <1>1, <4>2, <4>3 DEF Rests
    <3> QED BY <3>2, <3>3
  <2>2. ASSUME Rests(t, a, b) PROVE Rests(q, a, b)
    <3>1. PICK i \in 1..n : t[i] = a /\ \A j \in 1..n : j > i => t[j] # b
      BY <1>1, <2>2 DEF Rests
    <3>2. i + 1 \in 1..(n + 1) /\ q[i + 1] = a
      BY <1>1, <3>1
    <3>3. ASSUME NEW j \in 1..(n + 1), j > i + 1 PROVE q[j] # b
      <4>1. j - 1 \in 1..n /\ j - 1 > i /\ t[j - 1] = q[j]
        BY <1>1, <1>3, <3>3
      <4> QED BY <1>1, <3>1, <4>1
    <3> QED BY <1>1, <3>2, <3>3 DEF Rests
  <2>3. ASSUME a = m, ~Carries(t, b) PROVE Rests(q, a, b)
    <3>1. ASSUME NEW j \in 1..(n + 1), j > 1 PROVE q[j] # b
      BY <1>1, <1>3, <2>3, <3>1 DEF Carries
    <3> QED BY <1>1, <1>2, <2>3, <3>1 DEF Rests
  <2> QED BY <2>1, <2>2, <2>3
<1>6. \A a, b : a # b => (Rests(q, a, b) <=> Rests(t, a, b) \/ (a = m /\ ~Carries(t, b)))
  BY <1>5
<1> QED BY <1>4, <1>6

LEMMA HeadsTaken ==
  ASSUME NEW q \in Seq(MsgType), q # <<>>, NEW m, m = Head(q), NEW t, t = Tail(q)
  PROVE  Heads(q, m, t)
<1>1. PICK n \in Nat : n = Len(q) - 1
  OBVIOUS
<1>2. /\ DOMAIN t = 1..n /\ DOMAIN q = 1..(n + 1) /\ q[1] = m
      /\ \A i \in 1..n : t[i] = q[i + 1]
  BY <1>1
<1> QED BY <1>2 DEF Heads

LEMMA Concatenated ==
  ASSUME NEW q \in Seq(MsgType), NEW s \in Seq(MsgType)
  PROVE  /\ q \o s \in Seq(MsgType)
         /\ \A a : Carries(q \o s, a) <=> Carries(q, a) \/ Carries(s, a)
         /\ \A a, b : ~Carries(s, b) =>
              (Rests(q \o s, a, b) <=> Rests(q, a, b) \/ Carries(s, a))
<1>1. PICK n \in Nat, k \in Nat : n = Len(q) /\ k = Len(s)
  OBVIOUS
<1>2. PICK t : t = q \o s
  OBVIOUS
<1>3. /\ t \in Seq(MsgType) /\ DOMAIN t = 1..(n + k) /\ DOMAIN q = 1..n /\ DOMAIN s = 1..k
      /\ \A i \in 1..n : t[i] = q[i]
      /\ \A i \in 1..k : t[n + i] = s[i]
  BY <1>1, <1>2
<1>4. /\ \A i \in 1..n : i \in 1..(n + k)
      /\ \A i \in 1..k : n + i \in 1..(n + k)
  OBVIOUS
<1>5. \A i \in 1..(n + k) : i \in 1..n \/ (i > n /\ i - n \in 1..k /\ t[i] = s[i - n])
  <2>1. ASSUME NEW i \in 1..(n + k), i \notin 1..n PROVE i > n /\ i - n \in 1..k /\ n + (i - n) = i
    BY <2>1
  <2> QED BY <1>3, <2>1
<1>6. \A a : Carries(t, a) <=> Carries(q, a) \/ Carries(s, a)
  BY <1>3, <1>4, <1>5 DEF Carries
<1>7. ASSUME NEW a, NEW b, ~Carries(s, b)
      PROVE  Rests(t, a, b) <=> Rests(q, a, b) \/ Carries(s, a)
  <2>1. ASSUME Rests(t, a, b) PROVE Rests(q, a, b) \/ Carries(s, a)
    BY <1>3, <1>4, <1>5, <2>1, ZenonT(60) DEF Rests, Carries
  <2>2. ASSUME Rests(q, a, b) PROVE Rests(t, a, b)
    <3>1. PICK i \in 1..n : q[i] = a /\ \A j \in 1..n : j > i => q[j] # b
      BY <1>3, <2>2 DEF Rests
    <3>2. \A j \in 1..(n + k) : j > i => t[j] # b
      BY <1>3, <1>5, <1>7, <3>1 DEF Carries
    <3> QED BY <1>3, <1>4, <3>1, <3>2 DEF Rests
  <2>3. ASSUME Carries(s, a) PROVE Rests(t, a, b)
    <3>1. PICK i \in 1..k : s[i] = a
      BY <1>3, <2>3 DEF Carries
    <3>2. ASSUME NEW j \in 1..(n + k), j > n + i PROVE t[j] # b
      <4>1. j \notin 1..n
        BY <3>2
      <4> QED BY <1>3, <1>5, <1>7, <4>1, ZenonT(60) DEF Carries
    <3> QED BY <1>3, <1>4, <3>1, <3>2 DEF Rests
  <2> QED BY <2>1, <2>2, <2>3
<1> QED BY <1>2, <1>3, <1>6, <1>7

LEMMA NothingOnItsWay ==
  /\ \A a : ~Carries(<<>>, a)
  /\ \A a, b : ~Rests(<<>>, a, b)
  /\ <<>> \in Seq(MsgType)
BY DEF Carries, Rests

LEMMA KeyCreated ==
  ASSUME NEW d \in Docs, Keyed(states, Docs)
  PROVE  Keyed(GetOrCreate(d), Docs) /\ ToSet(GetOrCreate(d)) = ToSet(states) \cup {d}
<1>1. CASE d \in ToSet(states)
  BY <1>1 DEF GetOrCreate
<1>2. CASE d \notin ToSet(states)
  <2>1. PICK n \in Nat : n = Len(states)
    BY DEF Keyed
  <2>2. PICK t : t = Append(states, d)
    OBVIOUS
  <2>3. /\ t \in Seq(Docs) /\ DOMAIN t = 1..(n + 1) /\ DOMAIN states = 1..n
        /\ t[n + 1] = d /\ \A i \in 1..n : t[i] = states[i] /\ states[i] # d
    BY <1>2, <2>1, <2>2 DEF Keyed, ToSet
  <2>4. n + 1 \in 1..(n + 1) /\ (\A i \in 1..(n + 1) : i \in 1..n \/ i = n + 1)
        /\ (\A i \in 1..n : i \in 1..(n + 1))
    OBVIOUS
  <2>5. Keyed(t, Docs)
    BY <2>3, <2>4 DEF Keyed
  <2>6. ToSet(t) = ToSet(states) \cup {d}
    BY <2>3, <2>4 DEF ToSet
  <2> QED BY <1>2, <2>2, <2>5, <2>6 DEF GetOrCreate
<1> QED BY <1>1, <1>2

LEMMA AllWanted ==
  ASSUME NEW S, IsFiniteSet(S)
  PROVE  SetToSeq(S) \in Seq(S) /\ \A x : (\E i \in DOMAIN SetToSeq(S) : SetToSeq(S)[i] = x) <=> x \in S
<1> DEFINE n == Cardinality(S)
<1>1. n \in Nat /\ ExistsBijection(1..n, S)
  BY FS_CardinalityType
<1>2. \E f \in [1..n -> S] : IsInjective(f)
  BY <1>1 DEF ExistsBijection, Bijection, Injection, IsInjective
<1>3. SetToSeq(S) \in [1..n -> S] /\ IsInjective(SetToSeq(S))
  BY <1>2 DEF SetToSeq
<1>4. SetToSeq(S) \in Injection(1..n, S)
  BY <1>3 DEF Injection, IsInjective
<1>5. IsFiniteSet(1..n) /\ Cardinality(1..n) = n
  <2>1. /\ IsFiniteSet(1..n)
        /\ Cardinality(1..n) = IF 1 > n THEN 0 ELSE n - 1 + 1
    BY <1>1, FS_Interval
  <2> QED BY <1>1, <2>1
<1>6. SetToSeq(S) \in Surjection(1..n, S)
  BY <1>4, <1>5, FS_Injection
<1> QED BY <1>1, <1>3, <1>6 DEF Surjection

(* The steps of the connection                                             *)

LEMMA RoomsInit == RealtimeInit => RoomsInv
<1> SUFFICES ASSUME RealtimeInit PROVE RoomsInv
  OBVIOUS
<1>1. RealtimeShape
  <2>1. Keyed(<<>>, Docs) /\ <<>> \in Seq(Docs) /\ <<>> \in Seq(MsgType)
    BY DEF Keyed
  <2> QED BY <2>1 DEF RealtimeInit, RealtimeShape
<1>2. LinkInv
  BY DEF RealtimeInit, LinkInv
<1>3. \A w \in Workspaces : WorkspaceOK(w)
  BY NothingOnItsWay DEF RealtimeInit, WorkspaceOK, InWorkspace
<1>4. \A d \in Docs : DocOK(d)
  BY NothingOnItsWay DEF RealtimeInit, DocOK, Forgotten, Shown, ToSet
<1> QED BY <1>1, <1>2, <1>3, <1>4 DEF RoomsInv

\* An emit that starts the connection: the messages on their way and one more, or
\* that one alone, over a connection made anew.
LEMMA Emitted ==
  ASSUME RoomsInv, NEW m \in MsgType, EmitAfterStart(m)
  PROVE  /\ outbox' \in Seq(MsgType) /\ inbox' \in Seq(Docs) /\ joining' \in [Docs -> Nat]
         /\ members' \subseteq Docs /\ rooms' \subseteq Workspaces
         /\ link' \in {"connecting", "up"} /\ refused' = refused
         /\ \/ /\ link' = "connecting" /\ members' = {} /\ rooms' = {}
               /\ \A d \in Docs : joining'[d] = 0
               /\ \A a : Carries(outbox', a) <=> a = m
               /\ \A a, b : a # b => (Rests(outbox', a, b) <=> a = m)
            \/ /\ (link' = "up" <=> link = "up")
               /\ UNCHANGED <<joining, members, rooms>>
               /\ \A a : Carries(outbox', a) <=> Carries(outbox, a) \/ a = m
               /\ \A a, b : a # b =>
                    (Rests(outbox', a, b) <=> a = m \/ (b # m /\ Rests(outbox, a, b)))
<1>1. /\ outbox \in Seq(MsgType) /\ inbox \in Seq(Docs) /\ joining \in [Docs -> Nat]
      /\ members \subseteq Docs /\ rooms \subseteq Workspaces
      /\ link \in {"off", "connecting", "up"}
  BY DEF RoomsInv, RealtimeShape
<1>2. CASE link = "up" /\ staleToken
  <2>1. /\ outbox' = Append(<<>>, m) /\ inbox' = <<>> /\ joining' = [d \in Docs |-> 0]
        /\ members' = {} /\ rooms' = {} /\ refused' = refused /\ link' = "connecting"
    BY <1>2 DEF EmitAfterStart, StartConnection
  <2>2. PICK q : q = <<>>
    OBVIOUS
  <2>3. q \in Seq(MsgType) /\ (\A a : ~Carries(q, a)) /\ \A a, b : ~Rests(q, a, b)
    BY <2>2, NothingOnItsWay
  <2>4. /\ outbox' \in Seq(MsgType)
        /\ \A a : Carries(outbox', a) <=> Carries(q, a) \/ a = m
        /\ \A a, b : a # b => (Rests(outbox', a, b) <=> a = m \/ (b # m /\ Rests(q, a, b)))
    BY <2>1, <2>2, <2>3, Appended, ZenonT(60)
  <2>5. inbox' \in Seq(Docs)
    BY <2>1
  <2> QED BY <2>1, <2>3, <2>4, <2>5
<1>3. CASE ~(link = "up" /\ staleToken)
  <2>1. /\ outbox' = Append(outbox, m) /\ UNCHANGED <<inbox, joining, members, rooms, refused>>
        /\ link' = IF link = "up" THEN "up" ELSE "connecting"
    BY <1>3 DEF EmitAfterStart, StartConnection, hubVars
  <2>2. /\ outbox' \in Seq(MsgType)
        /\ \A a : Carries(outbox', a) <=> Carries(outbox, a) \/ a = m
        /\ \A a, b : a # b =>
             (Rests(outbox', a, b) <=> a = m \/ (b # m /\ Rests(outbox, a, b)))
    BY <1>1, <2>1, Appended
  <2> QED BY <1>1, <2>1, <2>2
<1> QED BY <1>2, <1>3

LEMMA EditorOpens ==
  ASSUME RoomsInv, NEW d \in Docs, OpenEditor(d) PROVE RoomsInv'
<1>1. RealtimeShape /\ LinkInv /\ (\A w \in Workspaces : WorkspaceOK(w)) /\ \A e \in Docs : DocOK(e)
  BY DEF RoomsInv
<1>2. Keyed(states', Docs) /\ ToSet(states') = ToSet(states) \cup {d}
  BY <1>1, KeyCreated DEF OpenEditor, RealtimeShape
<1>3. RealtimeShape'
  BY <1>1, <1>2 DEF OpenEditor, RealtimeShape, hubVars
<1>4. LinkInv'
  BY <1>1 DEF OpenEditor, LinkInv, RealtimeShape, hubVars
<1>5. \A w \in Workspaces : WorkspaceOK(w)'
  BY <1>1, RealtimeAssumption DEF OpenEditor, WorkspaceOK, InWorkspace, hubVars
<1>6. \A e \in Docs : DocOK(e)'
  BY <1>1, <1>2 DEF OpenEditor, DocOK, Forgotten, Shown, JoinComing, RealtimeShape, hubVars
<1> QED BY <1>3, <1>4, <1>5, <1>6 DEF RoomsInv

LEMMA EditorJoins ==
  ASSUME RoomsInv, NEW d \in Docs, JoinLoaded(d) PROVE RoomsInv'
<1>1. RealtimeShape /\ LinkInv /\ (\A w \in Workspaces : WorkspaceOK(w)) /\ \A e \in Docs : DocOK(e)
  BY DEF RoomsInv
<1>2. Keyed(states', Docs) /\ ToSet(states') = ToSet(states) \cup {d}
  BY <1>1, KeyCreated DEF JoinLoaded, RealtimeShape
<1>3. PICK m : m = Msg("join", d)
  OBVIOUS
<1>4. m \in MsgType /\ EmitAfterStart(m)
  BY <1>3, Messages DEF JoinLoaded
<1>5. /\ editor' = [editor EXCEPT ![d] = "joined"] /\ editor[d] = "loading"
      /\ subscribers' = [subscribers EXCEPT ![d] = subscribers[d] + 1]
      /\ UNCHANGED <<wanted, excused>>
  BY DEF JoinLoaded
<1>6. RealtimeShape'
  BY <1>1, <1>2, <1>4, <1>5, Emitted DEF RealtimeShape
<1>7. LinkInv'
  BY <1>1, <1>4, Emitted DEF LinkInv
<1>8. ASSUME NEW w \in Workspaces PROVE WorkspaceOK(w)'
  <2>1. m # Msg("joinWorkspace", w) /\ m # Msg("leaveWorkspace", w)
        /\ Msg("joinWorkspace", w) # Msg("leaveWorkspace", w)
    BY <1>3, Messages
  <2> QED BY <1>1, <1>4, <1>5, <2>1, Emitted DEF WorkspaceOK, InWorkspace
<1>9. ASSUME NEW e \in Docs PROVE DocOK(e)'
  <2>1. m # Msg("leave", e) /\ Msg("join", e) # Msg("leave", e) /\ (m = Msg("join", e) <=> e = d)
    BY <1>3, Messages
  <2>2. CASE e = d
    <3>1. editor'[d] = "joined" /\ subscribers'[d] = 1 /\ d \in ToSet(states')
      <4>1. subscribers[d] = 0
        BY <1>1, <1>5 DEF DocOK
      <4>2. editor \in [Docs -> {"none", "loading", "joined"}] /\ subscribers \in [Docs -> Nat]
        BY <1>1 DEF RealtimeShape
      <4>3. editor'[d] = "joined"
        BY <1>5, <4>2
      <4>4. subscribers'[d] = 1
        BY <1>5, <4>1, <4>2
      <4> QED BY <1>2, <4>3, <4>4
    <3>2. Rests(outbox', Msg("join", d), Msg("leave", d))
      <4>1. /\ m # Msg("leave", d)
            /\ \A a, b : a # b /\ a = m => Rests(outbox', a, b)
        BY <1>4, <2>1, <2>2, Emitted
      <4> QED BY <1>3, <4>1
    <3> QED BY <2>2, <3>1, <3>2 DEF DocOK, Shown, JoinComing
  <2>3. CASE e # d
    <3>1. /\ editor'[e] = editor[e] /\ subscribers'[e] = subscribers[e]
          /\ (e \in ToSet(states') <=> e \in ToSet(states)) /\ excused' = excused
      BY <1>1, <1>2, <1>5, <2>3 DEF RealtimeShape
    <3>2. CASE link' = "connecting"
      BY <1>1, <1>4, <2>1, <2>3, <3>1, <3>2, Emitted DEF DocOK, Shown, Forgotten
    <3>3. CASE link' # "connecting"
      BY <1>1, <1>4, <2>1, <2>3, <3>1, <3>3, Emitted DEF DocOK, Shown, JoinComing, Forgotten
    <3> QED BY <3>2, <3>3
  <2> QED BY <2>2, <2>3
<1> QED BY <1>6, <1>7, <1>8, <1>9 DEF RoomsInv

LEMMA EditorLeaves ==
  ASSUME RoomsInv, NEW d \in Docs, LeaveDocument(d) PROVE RoomsInv'
<1>1. RealtimeShape /\ LinkInv /\ (\A w \in Workspaces : WorkspaceOK(w)) /\ \A e \in Docs : DocOK(e)
  BY DEF RoomsInv
<1>2. Shown(d) /\ d \in ToSet(states) /\ subscribers[d] <= 1
  BY <1>1 DEF LeaveDocument, DocOK
<1>3. /\ editor' = [editor EXCEPT ![d] = "none"] /\ states' = RemoveFirst(states, d)
      /\ subscribers' = [subscribers EXCEPT ![d] = 0]
      /\ outbox' = IF link = "up" THEN Append(outbox, Msg("leave", d)) ELSE outbox
      /\ excused' = IF link # "up" \/ Unanswered(d) THEN excused \cup {d} ELSE excused
      /\ UNCHANGED <<wanted, link, inbox, joining, members, rooms, refused>>
  BY <1>2 DEF LeaveDocument, hubVars
<1>4. Keyed(states', Docs) /\ ToSet(states') = ToSet(states) \ {d}
  BY <1>1, <1>2, <1>3, KeyDeleted DEF RealtimeShape
<1>5. PICK m : m = Msg("leave", d)
  OBVIOUS
<1>6. m \in MsgType
  BY <1>5, Messages
<1>7. CASE link # "up"
  <2>1. outbox' = outbox /\ excused' = excused \cup {d}
    BY <1>3, <1>7
  <2>2. RealtimeShape' /\ LinkInv'
    BY <1>1, <1>3, <1>4, <2>1 DEF RealtimeShape, LinkInv
  <2>3. \A w \in Workspaces : WorkspaceOK(w)'
    BY <1>1, <1>3, <2>1 DEF WorkspaceOK, InWorkspace
  <2>4. \A e \in Docs : DocOK(e)'
    BY <1>1, <1>3, <1>4, <1>7, <2>1 DEF DocOK, Shown, Forgotten, RealtimeShape
  <2> QED BY <2>2, <2>3, <2>4 DEF RoomsInv
<1>8. CASE link = "up"
  <2>1. /\ outbox' \in Seq(MsgType)
        /\ \A a : Carries(outbox', a) <=> Carries(outbox, a) \/ a = m
        /\ \A a, b : a # b =>
             (Rests(outbox', a, b) <=> a = m \/ (b # m /\ Rests(outbox, a, b)))
    BY <1>1, <1>3, <1>5, <1>6, <1>8, Appended DEF RealtimeShape
  <2>2. RealtimeShape' /\ LinkInv'
    BY <1>1, <1>3, <1>4, <2>1 DEF RealtimeShape, LinkInv
  <2>3. ASSUME NEW w \in Workspaces PROVE WorkspaceOK(w)'
    <3>1. m # Msg("joinWorkspace", w) /\ m # Msg("leaveWorkspace", w)
          /\ Msg("joinWorkspace", w) # Msg("leaveWorkspace", w)
      BY <1>5, Messages
    <3> QED BY <1>1, <1>3, <2>1, <3>1 DEF WorkspaceOK, InWorkspace
  <2>4. ASSUME NEW e \in Docs PROVE DocOK(e)'
    <3>1. /\ m # Msg("join", e) /\ Msg("join", e) # Msg("leave", e)
          /\ (m = Msg("leave", e) <=> e = d)
      BY <1>5, Messages
    <3>2. CASE e = d
      <4>1. d \in excused' \/ (joining[d] = 0 /\ ~Carries(outbox, Msg("join", d)))
        BY <1>1, <1>3 DEF Unanswered, Carries, RealtimeShape
      <4> QED BY <1>1, <1>3, <1>4, <2>1, <3>1, <3>2, <4>1 DEF DocOK, Shown, Forgotten, RealtimeShape
    <3>3. CASE e # d
      BY <1>1, <1>3, <1>4, <2>1, <3>1, <3>3
         DEF DocOK, Shown, JoinComing, Forgotten, RealtimeShape
    <3> QED BY <3>2, <3>3
  <2> QED BY <2>2, <2>3, <2>4 DEF RoomsInv
<1> QED BY <1>7, <1>8

LEMMA WorkspaceJoins ==
  ASSUME RoomsInv, NEW v \in Workspaces, JoinWorkspace(v) PROVE RoomsInv'
<1>1. RealtimeShape /\ LinkInv /\ (\A w \in Workspaces : WorkspaceOK(w)) /\ \A e \in Docs : DocOK(e)
  BY DEF RoomsInv
<1>2. PICK m : m = Msg("joinWorkspace", v)
  OBVIOUS
<1>3. m \in MsgType /\ EmitAfterStart(m)
  BY <1>2, Messages DEF JoinWorkspace
<1>4. /\ wanted' = wanted \cup {v} /\ excused' = excused \ {v}
      /\ UNCHANGED <<editor, states, subscribers>>
  BY DEF JoinWorkspace
<1>5. RealtimeShape'
  BY <1>1, <1>3, <1>4, Emitted DEF RealtimeShape
<1>6. LinkInv'
  BY <1>1, <1>3, Emitted DEF LinkInv
<1>7. ASSUME NEW w \in Workspaces PROVE WorkspaceOK(w)'
  <2>1. m # Msg("leaveWorkspace", w) /\ (m = Msg("joinWorkspace", w) <=> w = v)
        /\ Msg("joinWorkspace", w) # Msg("leaveWorkspace", w)
    BY <1>2, Messages
  <2>2. CASE w = v
    BY <1>1, <1>3, <1>4, <2>1, <2>2, Emitted DEF WorkspaceOK, InWorkspace
  <2>3. CASE w # v
    BY <1>1, <1>3, <1>4, <2>1, <2>3, Emitted DEF WorkspaceOK, InWorkspace
  <2> QED BY <2>2, <2>3
<1>8. ASSUME NEW e \in Docs PROVE DocOK(e)'
  <2>1. /\ m # Msg("leave", e) /\ Msg("join", e) # Msg("leave", e) /\ m # Msg("join", e)
        /\ e # v
    BY <1>2, Messages, RealtimeAssumption
  <2> QED BY <1>1, <1>3, <1>4, <2>1, Emitted, ZenonT(60)
             DEF DocOK, Shown, JoinComing, Forgotten, RealtimeShape
<1> QED BY <1>5, <1>6, <1>7, <1>8 DEF RoomsInv

LEMMA WorkspaceLeaves ==
  ASSUME RoomsInv, NEW v \in Workspaces, LeaveWorkspace(v) PROVE RoomsInv'
<1>1. RealtimeShape /\ LinkInv /\ (\A w \in Workspaces : WorkspaceOK(w)) /\ \A e \in Docs : DocOK(e)
  BY DEF RoomsInv
<1>2. PICK m : m = Msg("leaveWorkspace", v)
  OBVIOUS
<1>3. m \in MsgType
  BY <1>2, Messages
<1>4. /\ v \in wanted /\ wanted' = wanted \ {v}
      /\ outbox' = IF link = "up" THEN Append(outbox, m) ELSE outbox
      /\ excused' = IF link = "up" THEN excused ELSE excused \cup {v}
      /\ UNCHANGED <<editor, states, subscribers, link, inbox, joining, members, rooms, refused>>
  BY <1>2 DEF LeaveWorkspace, hubVars
<1>5. CASE link # "up"
  <2>1. outbox' = outbox /\ excused' = excused \cup {v}
    BY <1>4, <1>5
  <2>2. RealtimeShape' /\ LinkInv'
    BY <1>1, <1>4, <2>1 DEF RealtimeShape, LinkInv
  <2>3. \A w \in Workspaces : WorkspaceOK(w)'
    BY <1>1, <1>4, <1>5, <2>1 DEF WorkspaceOK, InWorkspace
  <2>4. \A e \in Docs : DocOK(e)'
    BY <1>1, <1>4, <1>5, <2>1 DEF DocOK, Shown, Forgotten
  <2> QED BY <2>2, <2>3, <2>4 DEF RoomsInv
<1>6. CASE link = "up"
  <2>1. /\ outbox' \in Seq(MsgType) /\ excused' = excused
        /\ \A a : Carries(outbox', a) <=> Carries(outbox, a) \/ a = m
        /\ \A a, b : a # b =>
             (Rests(outbox', a, b) <=> a = m \/ (b # m /\ Rests(outbox, a, b)))
    BY <1>1, <1>3, <1>4, <1>6, Appended DEF RealtimeShape
  <2>2. RealtimeShape' /\ LinkInv'
    BY <1>1, <1>4, <2>1 DEF RealtimeShape, LinkInv
  <2>3. ASSUME NEW w \in Workspaces PROVE WorkspaceOK(w)'
    <3>1. m # Msg("joinWorkspace", w) /\ (m = Msg("leaveWorkspace", w) <=> w = v)
          /\ Msg("joinWorkspace", w) # Msg("leaveWorkspace", w)
      BY <1>2, Messages
    <3> QED BY <1>1, <1>4, <2>1, <3>1 DEF WorkspaceOK, InWorkspace
  <2>4. ASSUME NEW e \in Docs PROVE DocOK(e)'
    <3>1. m # Msg("leave", e) /\ Msg("join", e) # Msg("leave", e) /\ m # Msg("join", e)
      BY <1>2, Messages
    <3> QED BY <1>1, <1>4, <2>1, <3>1 DEF DocOK, Shown, JoinComing, Forgotten
  <2> QED BY <2>2, <2>3, <2>4 DEF RoomsInv
<1> QED BY <1>5, <1>6

LEMMA EditorEmits ==
  ASSUME RoomsInv, NEW d \in Docs, Emit(d) PROVE RoomsInv'
<1>1. RealtimeShape /\ LinkInv /\ (\A w \in Workspaces : WorkspaceOK(w)) /\ \A e \in Docs : DocOK(e)
  BY DEF RoomsInv
<1>2. states' = states
  BY <1>1 DEF Emit, GetOrCreate, DocOK, Shown
<1>3. PICK m : m = Msg("event", d)
  OBVIOUS
<1>4. /\ m \in MsgType /\ outbox' = Append(outbox, m)
      /\ UNCHANGED <<editor, subscribers, wanted, link, inbox, joining, members, rooms,
                      refused, excused>>
  BY <1>3, Messages DEF Emit, hubVars
<1>5. /\ outbox' \in Seq(MsgType)
      /\ \A a : Carries(outbox', a) <=> Carries(outbox, a) \/ a = m
      /\ \A a, b : a # b =>
           (Rests(outbox', a, b) <=> a = m \/ (b # m /\ Rests(outbox, a, b)))
  BY <1>1, <1>4, Appended DEF RealtimeShape
<1>6. RealtimeShape' /\ LinkInv'
  BY <1>1, <1>2, <1>4, <1>5 DEF RealtimeShape, LinkInv
<1>7. ASSUME NEW w \in Workspaces PROVE WorkspaceOK(w)'
  <2>1. m # Msg("joinWorkspace", w) /\ m # Msg("leaveWorkspace", w)
        /\ Msg("joinWorkspace", w) # Msg("leaveWorkspace", w)
    BY <1>3, Messages
  <2> QED BY <1>1, <1>4, <1>5, <2>1 DEF WorkspaceOK, InWorkspace
<1>8. ASSUME NEW e \in Docs PROVE DocOK(e)'
  <2>1. m # Msg("leave", e) /\ Msg("join", e) # Msg("leave", e) /\ m # Msg("join", e)
    BY <1>3, Messages
  <2> QED BY <1>1, <1>2, <1>4, <1>5, <2>1 DEF DocOK, Shown, JoinComing, Forgotten
<1> QED BY <1>6, <1>7, <1>8 DEF RoomsInv

LEMMA PageDisconnects ==
  ASSUME RoomsInv, Disconnect PROVE RoomsInv'
<1>1. RealtimeShape /\ LinkInv /\ (\A w \in Workspaces : WorkspaceOK(w)) /\ \A e \in Docs : DocOK(e)
  BY DEF RoomsInv
<1>2. /\ editor' = [d \in Docs |-> "none"] /\ subscribers' = [d \in Docs |-> 0]
      /\ states' = <<>> /\ wanted' = {}
      /\ excused' = excused \cup {outbox[i].room : i \in DOMAIN outbox}
  BY DEF Disconnect
<1>3. /\ Keyed(states', Docs) /\ ToSet(states') = {}
      /\ editor' \in [Docs -> {"none", "loading", "joined"}] /\ subscribers' \in [Docs -> Nat]
      /\ \A d \in Docs : editor'[d] = "none" /\ subscribers'[d] = 0
  BY <1>2 DEF Keyed, ToSet
<1>4. CASE link = "up"
  <2>1. /\ link' = "off" /\ outbox' = <<>> /\ inbox' = <<>>
        /\ joining' = [d \in Docs |-> 0] /\ members' = {} /\ rooms' = {}
    BY <1>4 DEF Disconnect
  <2>2. (\A a : ~Carries(outbox', a)) /\ (\A a, b : ~Rests(outbox', a, b))
        /\ outbox' \in Seq(MsgType)
    BY <2>1, NothingOnItsWay
  <2>3. inbox' \in Seq(Docs) /\ joining' \in [Docs -> Nat] /\ \A d \in Docs : joining'[d] = 0
    BY <2>1
  <2>4. RealtimeShape' /\ LinkInv'
    BY <1>1, <1>2, <1>3, <2>1, <2>2, <2>3 DEF RealtimeShape, LinkInv
  <2>5. \A w \in Workspaces : WorkspaceOK(w)'
    BY <2>1, <2>2 DEF WorkspaceOK, InWorkspace
  <2>6. \A d \in Docs : DocOK(d)'
    BY <1>3, <2>1, <2>2, <2>3 DEF DocOK, Shown, Forgotten
  <2> QED BY <2>4, <2>5, <2>6 DEF RoomsInv
<1>5. CASE link # "up"
  <2>1. UNCHANGED <<link, outbox, inbox, joining, members, rooms, refused>>
    BY <1>5 DEF Disconnect, hubVars
  <2>2. members = {} /\ rooms = {} /\ \A d \in Docs : joining[d] = 0
    BY <1>1, <1>5 DEF LinkInv
  <2>3. RealtimeShape' /\ LinkInv'
    BY <1>1, <1>2, <1>3, <2>1, <2>2 DEF RealtimeShape, LinkInv
  <2>4. \A k, r : Carries(outbox, Msg(k, r)) => r \in excused'
    BY <1>2 DEF Carries, Msg
  <2>5. \A a, b : Rests(outbox, a, b) => Carries(outbox, a)
    BY DEF Rests, Carries
  <2>6. \A w \in Workspaces : WorkspaceOK(w)'
    BY <1>2, <1>5, <2>1, <2>2, <2>4, <2>5 DEF WorkspaceOK, InWorkspace
  <2>7. \A d \in Docs : DocOK(d)'
    BY <1>3, <1>5, <2>1, <2>2, <2>4 DEF DocOK, Shown, Forgotten
  <2> QED BY <2>3, <2>6, <2>7 DEF RoomsInv
<1> QED BY <1>4, <1>5

LEMMA ConnectionLost ==
  ASSUME RoomsInv, Drop PROVE RoomsInv'
<1>1. RealtimeShape /\ LinkInv /\ (\A w \in Workspaces : WorkspaceOK(w)) /\ \A e \in Docs : DocOK(e)
  BY DEF RoomsInv
<1>2. /\ link' = "connecting" /\ outbox' = <<>> /\ inbox' = <<>>
      /\ joining' = [d \in Docs |-> 0] /\ members' = {} /\ rooms' = {}
      /\ UNCHANGED <<editor, states, subscribers, wanted, refused, excused>>
  BY DEF Drop
<1>3. (\A a : ~Carries(outbox', a)) /\ (\A a, b : ~Rests(outbox', a, b))
      /\ outbox' \in Seq(MsgType)
  BY <1>2, NothingOnItsWay
<1>4. inbox' \in Seq(Docs) /\ joining' \in [Docs -> Nat] /\ \A d \in Docs : joining'[d] = 0
  BY <1>2
<1>5. RealtimeShape' /\ LinkInv'
  BY <1>1, <1>2, <1>3, <1>4 DEF RealtimeShape, LinkInv
<1>6. \A w \in Workspaces : WorkspaceOK(w)'
  BY <1>2, <1>3 DEF WorkspaceOK, InWorkspace
<1>7. \A d \in Docs : DocOK(d)'
  BY <1>1, <1>2, <1>3, <1>4 DEF DocOK, Shown, Forgotten
<1> QED BY <1>5, <1>6, <1>7 DEF RoomsInv

\* What the connect handler adds: a join of every key and of every workspace wanted.
AskedAgain(m) == \/ \E d \in ToSet(states) : m = Msg("join", d)
                 \/ \E w \in wanted : m = Msg("joinWorkspace", w)

LEMMA JoinedAgain ==
  ASSUME RoomsInv, OnConnect
  PROVE  /\ outbox' \in Seq(MsgType)
         /\ \A a : Carries(outbox', a) <=> Carries(outbox, a) \/ AskedAgain(a)
         /\ \A a, b, k, r : b = Msg(k, r) /\ k \notin {"join", "joinWorkspace"} =>
              (Rests(outbox', a, b) <=> Rests(outbox, a, b) \/ AskedAgain(a))
<1>1. RealtimeShape /\ LinkInv /\ (\A w \in Workspaces : WorkspaceOK(w)) /\ \A e \in Docs : DocOK(e)
  BY DEF RoomsInv
<1>2. PICK n \in Nat : n = Len(states)
  BY <1>1 DEF RealtimeShape, Keyed
<1>3. PICK joins : joins = [i \in DOMAIN states |-> Msg("join", states[i])]
  OBVIOUS
<1>4. PICK news : news = {Msg("joinWorkspace", w) : w \in wanted}
  OBVIOUS
<1>5. PICK asks : asks = SetToSeq(news)
  OBVIOUS
<1>6. DOMAIN states = 1..n /\ states \in [1..n -> Docs]
  BY <1>1, <1>2 DEF RealtimeShape, Keyed
<1>7. joins \in Seq(MsgType)
  <2>1. joins \in [1..n -> MsgType]
    BY <1>3, <1>6, Messages
  <2> QED BY <2>1
<1>8. \A a : Carries(joins, a) <=> \E d \in ToSet(states) : a = Msg("join", d)
  BY <1>3, <1>6 DEF Carries, ToSet
<1>9. IsFiniteSet(news)
  <2>1. IsFiniteSet(wanted)
    BY <1>1, RealtimeAssumption, FS_Subset DEF RealtimeShape
  <2>2. PICK f : f = [w \in wanted |-> Msg("joinWorkspace", w)]
    OBVIOUS
  <2>3. f \in [wanted -> news] /\ \A m \in news : \E w \in wanted : f[w] = m
    BY <1>4, <2>2
  <2>4. f \in Surjection(wanted, news)
    BY <2>3 DEF Surjection
  <2> QED BY <2>1, <2>4, FS_Surjection
<1>10. asks \in Seq(news) /\ \A a : Carries(asks, a) <=> a \in news
  BY <1>5, <1>9, AllWanted DEF Carries
<1>11. asks \in Seq(MsgType)
  <2>1. news \subseteq MsgType
    BY <1>1, <1>4, Messages DEF RealtimeShape
  <2> QED BY <1>10, <2>1
<1>12. PICK q : q = outbox \o joins
  OBVIOUS
<1>13. /\ q \in Seq(MsgType)
       /\ \A a : Carries(q, a) <=> Carries(outbox, a) \/ Carries(joins, a)
       /\ \A a, b : ~Carries(joins, b) =>
            (Rests(q, a, b) <=> Rests(outbox, a, b) \/ Carries(joins, a))
  <2>1. outbox \in Seq(MsgType)
    BY <1>1 DEF RealtimeShape
  <2> QED BY <1>7, <1>12, <2>1, Concatenated
<1>14. outbox' = q \o asks
  BY <1>3, <1>4, <1>5, <1>12 DEF OnConnect
<1>15. /\ outbox' \in Seq(MsgType)
       /\ \A a : Carries(outbox', a) <=> Carries(q, a) \/ Carries(asks, a)
       /\ \A a, b : ~Carries(asks, b) =>
            (Rests(outbox', a, b) <=> Rests(q, a, b) \/ Carries(asks, a))
  BY <1>11, <1>13, <1>14, Concatenated
<1>16. ASSUME NEW k, NEW r, k \notin {"join", "joinWorkspace"}
       PROVE  ~Carries(joins, Msg(k, r)) /\ ~Carries(asks, Msg(k, r))
  BY <1>4, <1>8, <1>10, <1>16, Messages
<1>17. \A a : Carries(asks, a) <=> \E w \in wanted : a = Msg("joinWorkspace", w)
  BY <1>4, <1>10
<1>18. \A a : Carries(joins, a) \/ Carries(asks, a) <=> AskedAgain(a)
  BY <1>8, <1>17 DEF AskedAgain
<1>19. \A a : Carries(outbox', a) <=> Carries(outbox, a) \/ AskedAgain(a)
  BY <1>13, <1>15, <1>18
<1>20. ASSUME NEW a, NEW b, NEW k, NEW r, b = Msg(k, r), k \notin {"join", "joinWorkspace"}
       PROVE  Rests(outbox', a, b) <=> Rests(outbox, a, b) \/ AskedAgain(a)
  BY <1>13, <1>15, <1>16, <1>18, <1>20
<1> QED BY <1>15, <1>19, <1>20

LEMMA Connected ==
  ASSUME RoomsInv, OnConnect PROVE RoomsInv'
<1>1. RealtimeShape /\ LinkInv /\ (\A w \in Workspaces : WorkspaceOK(w)) /\ \A e \in Docs : DocOK(e)
  BY DEF RoomsInv
<1>2. /\ link = "connecting" /\ link' = "up"
      /\ UNCHANGED <<editor, states, subscribers, wanted, inbox, joining, members, rooms,
                      refused, excused>>
  BY DEF OnConnect, hubVars
<1>3. members = {} /\ rooms = {} /\ \A d \in Docs : joining[d] = 0
  BY <1>1, <1>2 DEF LinkInv
<1>4. RealtimeShape' /\ LinkInv'
  BY <1>1, <1>2, JoinedAgain DEF RealtimeShape, LinkInv
<1>5. ASSUME NEW w \in Workspaces PROVE WorkspaceOK(w)'
  <2>1. Rests(outbox', Msg("joinWorkspace", w), Msg("leaveWorkspace", w)) <=>
          \/ Rests(outbox, Msg("joinWorkspace", w), Msg("leaveWorkspace", w))
          \/ AskedAgain(Msg("joinWorkspace", w))
    BY JoinedAgain
  <2>2. AskedAgain(Msg("joinWorkspace", w)) <=> w \in wanted
    BY Messages DEF AskedAgain
  <2> QED BY <1>1, <1>2, <1>3, <2>1, <2>2 DEF WorkspaceOK, InWorkspace
<1>6. ASSUME NEW d \in Docs PROVE DocOK(d)'
  <2>1. AskedAgain(Msg("join", d)) <=> d \in ToSet(states)
    BY Messages DEF AskedAgain
  <2>2. Rests(outbox', Msg("join", d), Msg("leave", d)) <=>
          Rests(outbox, Msg("join", d), Msg("leave", d)) \/ AskedAgain(Msg("join", d))
    BY JoinedAgain
  <2>3. Carries(outbox', Msg("join", d)) <=>
          Carries(outbox, Msg("join", d)) \/ AskedAgain(Msg("join", d))
    BY JoinedAgain
  <2> QED BY <1>1, <1>2, <1>3, <2>1, <2>2, <2>3 DEF DocOK, Shown, JoinComing, Forgotten
<1> QED BY <1>4, <1>5, <1>6 DEF RoomsInv

\* A message is one of the five kinds, about a room of its kind.
LEMMA MessageKinds ==
  ASSUME NEW m \in MsgType
  PROVE  /\ m = Msg(m.kind, m.room)
         /\ m.kind \in {"join", "leave", "event"} => m.room \in Docs
         /\ m.kind \notin {"join", "leave", "event"} =>
              m.room \in Workspaces /\ m.kind \in {"joinWorkspace", "leaveWorkspace"}
BY DEF MsgType, Msg

LEMMA HubTakes ==
  ASSUME RoomsInv, HubReceives PROVE RoomsInv'
<1>1. RealtimeShape /\ LinkInv /\ (\A w \in Workspaces : WorkspaceOK(w)) /\ \A e \in Docs : DocOK(e)
  BY DEF RoomsInv
<1>2. PICK m : m = Head(outbox)
  OBVIOUS
<1>3. PICK q : q = outbox
  OBVIOUS
<1>4. PICK t : t = Tail(outbox)
  OBVIOUS
<1>5. /\ m \in MsgType /\ t \in Seq(MsgType)
      /\ \A a : Carries(q, a) <=> Carries(t, a) \/ a = m
      /\ \A a, b : a # b =>
           (Rests(q, a, b) <=> Rests(t, a, b) \/ (a = m /\ ~Carries(t, b)))
  <2>1. q \in Seq(MsgType) /\ q # <<>> /\ m = Head(q) /\ t = Tail(q)
    BY <1>1, <1>2, <1>3, <1>4 DEF RealtimeShape, HubReceives
  <2>2. m \in MsgType /\ t \in Seq(MsgType)
    BY <2>1
  <2>3. Heads(q, m, t)
    BY <2>1, HeadsTaken
  <2> QED BY <2>2, <2>3, TakenFrom
<1>6. /\ link = "up" /\ outbox' = t
      /\ joining' = IF m.kind = "join" THEN [joining EXCEPT ![m.room] = @ + 1] ELSE joining
      /\ members' = IF m.kind = "leave" THEN members \ {m.room} ELSE members
      /\ rooms' = CASE m.kind = "joinWorkspace" -> rooms \cup {m.room}
                    [] m.kind = "leaveWorkspace" -> rooms \ {m.room}
                    [] OTHER -> rooms
      /\ inbox' = IF m.kind = "event" /\ m.room \in members
                  THEN Append(inbox, m.room) ELSE inbox
      /\ UNCHANGED <<editor, states, subscribers, wanted, link, refused, excused>>
  BY <1>2, <1>4 DEF HubReceives
<1>7. /\ m = Msg(m.kind, m.room)
      /\ m.kind \in {"join", "leave", "event"} => m.room \in Docs
      /\ m.kind \notin {"join", "leave", "event"} =>
           m.room \in Workspaces /\ m.kind \in {"joinWorkspace", "leaveWorkspace"}
  BY <1>5, MessageKinds
<1>8. /\ joining' \in [Docs -> Nat]
      /\ \A e \in Docs : joining'[e] = IF m = Msg("join", e) THEN joining[e] + 1 ELSE joining[e]
  <2>1. joining \in [Docs -> Nat]
    BY <1>1 DEF RealtimeShape
  <2>2. CASE m.kind = "join"
    <3>1. \A e \in Docs : m = Msg("join", e) <=> e = m.room
      BY <1>7, <2>2, Messages
    <3>2. joining' = [joining EXCEPT ![m.room] = @ + 1] /\ m.room \in Docs
      BY <1>6, <1>7, <2>2
    <3> QED BY <2>1, <3>1, <3>2
  <2>3. CASE m.kind # "join"
    <3>1. \A e : m # Msg("join", e)
      BY <1>7, <2>3, Messages
    <3> QED BY <1>6, <2>1, <2>3, <3>1
  <2> QED BY <2>2, <2>3
<1>9. \A e : e \in members' <=> e \in members /\ m # Msg("leave", e)
  <2>1. CASE m.kind = "leave"
    <3>1. \A e : m = Msg("leave", e) <=> e = m.room
      BY <1>7, <2>1, Messages
    <3> QED BY <1>6, <2>1, <3>1
  <2>2. CASE m.kind # "leave"
    <3>1. \A e : m # Msg("leave", e)
      BY <1>7, <2>2, Messages
    <3> QED BY <1>6, <2>2, <3>1
  <2> QED BY <2>1, <2>2
<1>10. \A w : w \in rooms' <=> \/ m = Msg("joinWorkspace", w)
                              \/ (w \in rooms /\ m # Msg("leaveWorkspace", w))
  <2>1. CASE m.kind = "joinWorkspace"
    <3>1. \A w : (m = Msg("joinWorkspace", w) <=> w = m.room) /\ m # Msg("leaveWorkspace", w)
      BY <1>7, <2>1, Messages
    <3>2. rooms' = rooms \cup {m.room}
      BY <1>6, <2>1
    <3> QED BY <3>1, <3>2
  <2>2. CASE m.kind = "leaveWorkspace"
    <3>1. \A w : (m = Msg("leaveWorkspace", w) <=> w = m.room) /\ m # Msg("joinWorkspace", w)
      BY <1>7, <2>2, Messages
    <3>2. rooms' = rooms \ {m.room}
      BY <1>6, <2>2
    <3> QED BY <3>1, <3>2
  <2>3. CASE m.kind \notin {"joinWorkspace", "leaveWorkspace"}
    <3>1. \A w : m # Msg("leaveWorkspace", w) /\ m # Msg("joinWorkspace", w)
      BY <1>7, <2>3, Messages
    <3>2. rooms' = rooms
      BY <1>6, <2>3
    <3> QED BY <3>1, <3>2
  <2> QED BY <2>1, <2>2, <2>3
<1>11. inbox' \in Seq(Docs)
  BY <1>1, <1>6 DEF RealtimeShape
<1>12. RealtimeShape'
  <2>1. members' \subseteq Docs
    BY <1>1, <1>9 DEF RealtimeShape
  <2>2. rooms' \subseteq Workspaces
    <3>1. ASSUME NEW w, m = Msg("joinWorkspace", w) PROVE w \in Workspaces
      <4>1. m.kind = "joinWorkspace" /\ m.room = w
        BY <3>1 DEF Msg
      <4> QED BY <1>7, <4>1
    <3> QED BY <1>1, <1>10, <3>1 DEF RealtimeShape
  <2> QED BY <1>1, <1>5, <1>6, <1>8, <1>11, <2>1, <2>2 DEF RealtimeShape
<1>13. LinkInv'
  BY <1>6 DEF LinkInv
<1>14. ASSUME NEW w \in Workspaces PROVE WorkspaceOK(w)'
  <2>1. PICK a : a = Msg("joinWorkspace", w)
    OBVIOUS
  <2>2. PICK b : b = Msg("leaveWorkspace", w)
    OBVIOUS
  <2>3. a # b
    BY <2>1, <2>2, Messages
  <2>4. (Rests(t, a, b) \/ (w \in rooms' /\ ~Carries(t, b))) <=>
          (Rests(q, a, b) \/ (w \in rooms /\ ~Carries(q, b)))
    BY <1>5, <1>10, <2>1, <2>2, <2>3
  <2>5. InWorkspace(w)' <=> InWorkspace(w)
    BY <1>3, <1>6, <2>1, <2>2, <2>4 DEF InWorkspace
  <2> QED BY <1>1, <1>6, <2>5 DEF WorkspaceOK
<1>15. ASSUME NEW e \in Docs PROVE DocOK(e)'
  <2>1. PICK a : a = Msg("join", e)
    OBVIOUS
  <2>2. PICK b : b = Msg("leave", e)
    OBVIOUS
  <2>3. a # b
    BY <2>1, <2>2, Messages
  <2>4. joining[e] \in Nat /\ joining'[e] = IF m = a THEN joining[e] + 1 ELSE joining[e]
    BY <1>1, <1>8, <2>1 DEF RealtimeShape
  <2>5. e \in members' <=> e \in members /\ m # b
    BY <1>9, <2>2
  <2>6. joining'[e] > 0 <=> m = a \/ joining[e] > 0
    BY <2>4
  <2>7. joining'[e] = 0 <=> m # a /\ joining[e] = 0
    BY <2>4
  <2>8. JoinComing(e) => JoinComing(e)'
    <3>1. (Rests(q, a, b) \/ (~Carries(q, b) /\ (joining[e] > 0 \/ e \in members \cup refused)))
          => (Rests(t, a, b) \/ (~Carries(t, b) /\ (joining'[e] > 0 \/ e \in members' \cup refused)))
      BY <1>5, <2>3, <2>5, <2>6
    <3> QED BY <1>3, <1>6, <2>1, <2>2, <3>1 DEF JoinComing
  <2>9. Forgotten(e) => Forgotten(e)'
    BY <1>3, <1>5, <1>6, <2>1, <2>2, <2>5, <2>7 DEF Forgotten
  <2> QED BY <1>1, <1>6, <2>8, <2>9 DEF DocOK, Shown
<1> QED BY <1>12, <1>13, <1>14, <1>15 DEF RoomsInv

LEMMA HubAnswers ==
  ASSUME RoomsInv, NEW d \in Docs, HubJoins(d) \/ HubRefuses(d) PROVE RoomsInv'
<1>1. RealtimeShape /\ LinkInv /\ (\A w \in Workspaces : WorkspaceOK(w)) /\ \A e \in Docs : DocOK(e)
  BY DEF RoomsInv
<1>2. /\ joining[d] > 0 /\ joining' = [joining EXCEPT ![d] = @ - 1]
      /\ members \subseteq members' /\ members' \subseteq members \cup {d}
      /\ members' \cup refused' = members \cup refused \cup {d}
      /\ inbox' = inbox \/ inbox' = Append(inbox, d)
      /\ UNCHANGED <<editor, states, subscribers, wanted, link, outbox, rooms, excused>>
  BY DEF HubJoins, HubRefuses
<1>3. joining \in [Docs -> Nat] /\ inbox \in Seq(Docs) /\ members \subseteq Docs
  BY <1>1 DEF RealtimeShape
<1>4. /\ joining' \in [Docs -> Nat] /\ joining'[d] \in Nat
      /\ \A e \in Docs : e # d => joining'[e] = joining[e]
  <2>1. joining[d] - 1 \in Nat
    BY <1>2, <1>3
  <2> QED BY <1>2, <1>3, <2>1
<1>5. inbox' \in Seq(Docs)
  BY <1>2, <1>3, SMTT(30)
<1>6. link = "up"
  BY <1>1, <1>2 DEF LinkInv
<1>7. RealtimeShape' /\ LinkInv'
  BY <1>1, <1>2, <1>3, <1>4, <1>5, <1>6 DEF RealtimeShape, LinkInv
<1>8. \A w \in Workspaces : WorkspaceOK(w)'
  BY <1>1, <1>2 DEF WorkspaceOK, InWorkspace
<1>9. ASSUME NEW e \in Docs PROVE DocOK(e)'
  <2>1. CASE e = d
    <3>1. ~Forgotten(d)
      BY <1>2 DEF Forgotten
    <3>2. JoinComing(d) => JoinComing(d)'
      BY <1>2 DEF JoinComing
    <3> QED BY <1>1, <1>2, <2>1, <3>1, <3>2 DEF DocOK, Shown
  <2>2. CASE e # d
    BY <1>1, <1>2, <1>4, <2>2 DEF DocOK, Shown, JoinComing, Forgotten
  <2> QED BY <2>1, <2>2
<1> QED BY <1>7, <1>8, <1>9 DEF RoomsInv

LEMMA RoomHears ==
  ASSUME RoomsInv, NEW d \in Docs, HubSends(d) PROVE RoomsInv'
<1>1. RealtimeShape /\ LinkInv /\ (\A w \in Workspaces : WorkspaceOK(w)) /\ \A e \in Docs : DocOK(e)
  BY DEF RoomsInv
<1>2. inbox' \in Seq(Docs)
  BY <1>1 DEF HubSends, RealtimeShape
<1>3. UNCHANGED <<editor, states, subscribers, wanted, link, outbox, joining, members, rooms,
                  refused, excused>>
  BY DEF HubSends, hubVars
<1>4. RealtimeShape' /\ LinkInv'
  BY <1>1, <1>2, <1>3 DEF RealtimeShape, LinkInv
<1>5. (\A w \in Workspaces : WorkspaceOK(w)') /\ \A e \in Docs : DocOK(e)'
  BY <1>1, <1>3 DEF WorkspaceOK, InWorkspace, DocOK, Shown, JoinComing, Forgotten
<1> QED BY <1>4, <1>5 DEF RoomsInv

LEMMA ClientHears ==
  ASSUME RoomsInv, OnEvent PROVE RoomsInv'
<1>1. RealtimeShape /\ LinkInv /\ (\A w \in Workspaces : WorkspaceOK(w)) /\ \A e \in Docs : DocOK(e)
  BY DEF RoomsInv
<1>2. PICK d \in Docs : d = Head(inbox)
  BY <1>1 DEF OnEvent, RealtimeShape
<1>3. /\ inbox' \in Seq(Docs) /\ states' = GetOrCreate(d)
      /\ subscribers' = IF d \in ToSet(states) THEN subscribers
                        ELSE [subscribers EXCEPT ![d] = 0]
      /\ excused' = IF d \in ToSet(states) THEN excused ELSE excused \cup {d}
      /\ UNCHANGED <<editor, wanted, link, outbox, joining, members, rooms, refused>>
  BY <1>1, <1>2 DEF OnEvent, RealtimeShape, hubVars
<1>4. Keyed(states', Docs) /\ ToSet(states') = ToSet(states) \cup {d}
  BY <1>1, <1>3, KeyCreated DEF RealtimeShape
<1>5. RealtimeShape' /\ LinkInv'
  BY <1>1, <1>3, <1>4 DEF RealtimeShape, LinkInv
<1>6. \A w \in Workspaces : WorkspaceOK(w)'
  BY <1>1, <1>3 DEF WorkspaceOK, InWorkspace
<1>7. ASSUME NEW e \in Docs PROVE DocOK(e)'
  <2>1. CASE e = d /\ d \notin ToSet(states)
    BY <1>1, <1>3, <1>4, <2>1 DEF DocOK, Shown, RealtimeShape
  <2>2. CASE e # d \/ d \in ToSet(states)
    <3>1. /\ e \in ToSet(states') <=> e \in ToSet(states)
          /\ subscribers'[e] = subscribers[e] /\ (e \in excused => e \in excused')
      BY <1>1, <1>3, <1>4, <2>2 DEF RealtimeShape
    <3> QED BY <1>1, <1>3, <3>1 DEF DocOK, Shown, JoinComing, Forgotten
  <2> QED BY <2>1, <2>2
<1> QED BY <1>5, <1>6, <1>7 DEF RoomsInv

LEMMA RoomsNext ==
  ASSUME RoomsInv, [RealtimeNext]_realtimeVars PROVE RoomsInv'
<1>1. CASE RenewToken \/ UNCHANGED realtimeVars
  <2>1. UNCHANGED <<editor, states, subscribers, wanted, link, outbox, inbox, joining, members,
                    rooms, refused, excused>>
    BY <1>1 DEF RenewToken, realtimeVars, hubVars
  <2> QED BY <2>1 DEF RoomsInv, RealtimeShape, LinkInv, WorkspaceOK, InWorkspace, DocOK,
                      Shown, JoinComing, Forgotten
<1>2. ASSUME NEW d \in Docs,
             \/ OpenEditor(d) \/ JoinLoaded(d) \/ LeaveDocument(d) \/ Emit(d)
             \/ HubRefuses(d) \/ HubJoins(d) \/ HubSends(d)
      PROVE  RoomsInv'
  BY <1>2, EditorOpens, EditorJoins, EditorLeaves, EditorEmits, HubAnswers, RoomHears
<1>3. ASSUME NEW w \in Workspaces, JoinWorkspace(w) \/ LeaveWorkspace(w) PROVE RoomsInv'
  BY <1>3, WorkspaceJoins, WorkspaceLeaves
<1>4. CASE Disconnect \/ Drop \/ OnConnect \/ HubReceives \/ OnEvent
  BY <1>4, PageDisconnects, ConnectionLost, Connected, HubTakes, ClientHears
<1> QED BY <1>1, <1>2, <1>3, <1>4 DEF RealtimeNext, RealtimeProgress

LEMMA RoomsInvFollows == RoomsInv => RoomsFollowPage
<1> SUFFICES ASSUME RoomsInv, Quiet PROVE RoomsFollowPage
  BY DEF RoomsFollowPage, JoinedWhenQuiet, GhostsExplained
<1>1. RealtimeShape /\ LinkInv /\ (\A w \in Workspaces : WorkspaceOK(w)) /\ \A e \in Docs : DocOK(e)
  BY DEF RoomsInv
<1>2. link = "up" /\ outbox = <<>> /\ \A d \in Docs : joining[d] = 0
  BY DEF Quiet
<1>3. (\A a : ~Carries(outbox, a)) /\ \A a, b : ~Rests(outbox, a, b)
  BY <1>2, NothingOnItsWay
<1>4. wanted \subseteq rooms
  BY <1>1, <1>2, <1>3 DEF WorkspaceOK, InWorkspace, RealtimeShape
<1>5. \A d \in Docs : Joined(d)
  BY <1>1, <1>2, <1>3 DEF DocOK, JoinComing, Joined
<1>6. \A d \in members : Shown(d) \/ d \in excused
  BY <1>1, <1>3 DEF DocOK, Forgotten, RealtimeShape
<1>7. rooms \subseteq wanted \cup excused
  BY <1>1, <1>3 DEF WorkspaceOK, InWorkspace, RealtimeShape
<1> QED BY <1>4, <1>5, <1>6, <1>7 DEF RoomsFollowPage, JoinedWhenQuiet, GhostsExplained

\* Once nothing is on its way, the browser's connection is a member of every document
\* whose editor joined and whose join was not refused, is in every workspace shown, and
\* in no other room but where a leave could not be sent or was overtaken by its join:
\* whatever is opened, closed, lost and joined again by startConnection, onConnect and
\* leaveDocument.
THEOREM RoomsAlwaysFollow == RealtimeSpec => []RoomsFollowPage
<1>1. RealtimeInit => RoomsInv
  BY RoomsInit
<1>2. RoomsInv /\ [RealtimeNext]_realtimeVars => RoomsInv'
  BY RoomsNext
<1>3. RoomsInv => RoomsFollowPage
  BY RoomsInvFollows
<1> QED BY <1>1, <1>2, <1>3, PTL DEF RealtimeSpec


(***************************************************************************)
(* The terminals                                                           *)
(***************************************************************************)

Sent(r) == {r[i][1] : i \in DOMAIN r}
SentOnce(r) == \A i, j \in DOMAIN r : r[i][1] = r[j][1] => i = j

\* Each command of C is in the queue q, in a list of T or was sent in r: in one, once.
QueueInv(q, T, r, C) ==
  /\ Keyed(q, Nat) /\ (\A l \in T : Keyed(l, Nat) /\ l # <<>>)
  /\ r \in Seq(Nat \X Projects) /\ SentOnce(r)
  /\ ToSet(q) \cap Sent(r) = {}
  /\ \A l \in T : ToSet(l) \cap ToSet(q) = {} /\ ToSet(l) \cap Sent(r) = {}
  /\ \A l, k \in T : l # k => ToSet(l) \cap ToSet(k) = {}
  /\ ToSet(q) \cup (UNION {ToSet(l) : l \in T}) \cup Sent(r) = C

SocketType == [project : Projects, state : {"connecting", "open", "closed"}]

\* The sessions are those of the project, each with a socket that was made for it.
SessionsOK ==
  /\ project \in Projects /\ Keyed(tabs, 1..MaxTabs) /\ tabCounter \in Nat
  /\ active \in ToSet(tabs) \/ (active = 0 /\ tabs = <<>>)
  /\ sockets \in Seq(SocketType) /\ socketOf \in [1..MaxTabs -> Nat]
  /\ \A t \in ToSet(tabs) :
       t <= tabCounter /\ socketOf[t] \in DOMAIN sockets /\ sockets[socketOf[t]].project = project

\* What waits was given in the project that is shown, or was carried into it.
HomeOK ==
  /\ issued \in Seq(Projects)
  /\ \A c \in Waiting : c \in carried.commands \/ issued[c] = project
  /\ pendingSync \subseteq carried.files \cup {project}

RanHome == \A i \in DOMAIN ran :
  ran[i][1] \in carried.commands \/ ran[i][2] = issued[ran[i][1]]
WrittenHome == \A w \in written : w[2] \in carried.files \/ w[1] = w[2]

QueuesOK == QueueInv(pendingCommands, timers, ran, DOMAIN issued)

SocketComing == \E s \in DOMAIN sockets : sockets[s].state = "connecting"

TerminalInv ==
  SessionsOK /\ HomeOK /\ RanHome /\ WrittenHome /\ NothingStranded /\ QueuesOK

(* Sequences without repetitions                                           *)

LEMMA KeysIn ==
  ASSUME NEW S, NEW s, Keyed(s, S) PROVE ToSet(s) \subseteq S
<1>1. \A i \in DOMAIN s : s[i] \in S
  BY DEF Keyed
<1> QED BY <1>1 DEF ToSet

\* t is s with d at its end.
Grows(t, s, d) ==
  \E n \in Nat : /\ DOMAIN s = 1..n /\ DOMAIN t = 1..(n + 1) /\ t[n + 1] = d
                 /\ \A i \in 1..n : t[i] = s[i]

LEMMA AppendGrows ==
  ASSUME NEW S, NEW s \in Seq(S), NEW d \in S, NEW t, t = Append(s, d)
  PROVE  t \in Seq(S) /\ Grows(t, s, d)
<1>1. PICK n \in Nat : n = Len(s)
  OBVIOUS
<1>2. /\ t \in Seq(S) /\ DOMAIN t = 1..(n + 1) /\ DOMAIN s = 1..n
      /\ t[n + 1] = d /\ \A i \in 1..n : t[i] = s[i]
  BY <1>1
<1> QED BY <1>2 DEF Grows

LEMMA KeyAppended ==
  ASSUME NEW S, NEW s, Keyed(s, S), NEW d \in S, d \notin ToSet(s),
         NEW t \in Seq(S), Grows(t, s, d)
  PROVE  Keyed(t, S) /\ ToSet(t) = ToSet(s) \cup {d}
<1>1. PICK n \in Nat : /\ DOMAIN s = 1..n /\ DOMAIN t = 1..(n + 1) /\ t[n + 1] = d
                       /\ \A i \in 1..n : t[i] = s[i]
  BY DEF Grows
<1>2. \A i \in 1..n : s[i] # d
  BY <1>1 DEF ToSet
<1>3. n + 1 \in 1..(n + 1) /\ (\A i \in 1..(n + 1) : i \in 1..n \/ i = n + 1)
      /\ (\A i \in 1..n : i \in 1..(n + 1))
  OBVIOUS
<1>4. Keyed(t, S)
  BY <1>1, <1>2, <1>3 DEF Keyed
<1>5. ToSet(t) = ToSet(s) \cup {d}
  BY <1>1, <1>3 DEF ToSet
<1> QED BY <1>4, <1>5

\* t is a followed by b.
Follows(t, a, b) ==
  \E n, k \in Nat : /\ DOMAIN a = 1..n /\ DOMAIN b = 1..k /\ DOMAIN t = 1..(n + k)
                    /\ \A i \in 1..n : t[i] = a[i]
                    /\ \A i \in 1..k : t[n + i] = b[i]

LEMMA ConcatenationFollows ==
  ASSUME NEW S, NEW a \in Seq(S), NEW b \in Seq(S), NEW t, t = a \o b
  PROVE  t \in Seq(S) /\ Follows(t, a, b)
<1>1. PICK n \in Nat, k \in Nat : n = Len(a) /\ k = Len(b)
  OBVIOUS
<1>2. /\ t \in Seq(S) /\ DOMAIN t = 1..(n + k) /\ DOMAIN a = 1..n /\ DOMAIN b = 1..k
      /\ \A i \in 1..n : t[i] = a[i]
      /\ \A i \in 1..k : t[n + i] = b[i]
  BY <1>1
<1> QED BY <1>2 DEF Follows

\* Where an element of t comes from, n being the length of a.
Parts(t, a, b, n) ==
  /\ \A i \in DOMAIN t : \/ i \in DOMAIN a /\ t[i] = a[i]
                         \/ i - n \in DOMAIN b /\ t[i] = b[i - n] /\ i \notin DOMAIN a
  /\ \A i \in DOMAIN a : i \in DOMAIN t /\ t[i] = a[i]
  /\ \A i \in DOMAIN b : n + i \in DOMAIN t /\ t[n + i] = b[i]
  /\ \A i \in DOMAIN t : i \in Nat

LEMMA TwoParts ==
  ASSUME NEW a, NEW b, NEW t, Follows(t, a, b)
  PROVE  \E n \in Nat : Parts(t, a, b, n)
<1>1. PICK n \in Nat, k \in Nat :
        /\ DOMAIN a = 1..n /\ DOMAIN b = 1..k /\ DOMAIN t = 1..(n + k)
        /\ \A i \in 1..n : t[i] = a[i]
        /\ \A i \in 1..k : t[n + i] = b[i]
  BY DEF Follows
<1>2. ASSUME NEW i \in 1..(n + k), i \notin 1..n PROVE i - n \in 1..k /\ t[i] = b[i - n]
  <2>1. i - n \in 1..k /\ n + (i - n) = i
    BY <1>2
  <2> QED BY <1>1, <2>1
<1>3. /\ \A i \in 1..n : i \in 1..(n + k)
      /\ \A i \in 1..k : n + i \in 1..(n + k)
      /\ \A i \in 1..(n + k) : i \in Nat
  OBVIOUS
<1> QED BY <1>1, <1>2, <1>3 DEF Parts

LEMMA KeysJoined ==
  ASSUME NEW S, NEW a, NEW b, Keyed(a, S), Keyed(b, S), ToSet(a) \cap ToSet(b) = {},
         NEW t \in Seq(S), Follows(t, a, b)
  PROVE  Keyed(t, S) /\ ToSet(t) = ToSet(a) \cup ToSet(b)
<1>3. PICK n \in Nat : Parts(t, a, b, n)
  BY TwoParts
<1>4. ASSUME NEW i \in DOMAIN t, NEW j \in DOMAIN t, t[i] = t[j] PROVE i = j
  <2>1. CASE i \in DOMAIN a /\ t[i] = a[i]
    <3>1. CASE j \in DOMAIN a /\ t[j] = a[j]
      BY <1>4, <2>1, <3>1 DEF Keyed
    <3>2. CASE j - n \in DOMAIN b /\ t[j] = b[j - n]
      <4>1. t[i] \in ToSet(a) /\ t[j] \in ToSet(b)
        BY <2>1, <3>2 DEF ToSet
      <4> QED BY <1>4, <4>1
    <3> QED BY <1>3, <3>1, <3>2 DEF Parts
  <2>2. CASE i - n \in DOMAIN b /\ t[i] = b[i - n]
    <3>1. CASE j \in DOMAIN a /\ t[j] = a[j]
      <4>1. t[j] \in ToSet(a) /\ t[i] \in ToSet(b)
        BY <2>2, <3>1 DEF ToSet
      <4> QED BY <1>4, <4>1
    <3>2. CASE j - n \in DOMAIN b /\ t[j] = b[j - n]
      <4>1. i - n = j - n
        BY <1>4, <2>2, <3>2 DEF Keyed
      <4>2. i \in Nat /\ j \in Nat
        BY <1>3 DEF Parts
      <4> QED BY <4>1, <4>2
    <3> QED BY <1>3, <3>1, <3>2 DEF Parts
  <2> QED BY <1>3, <2>1, <2>2 DEF Parts
<1>5. ToSet(t) = ToSet(a) \cup ToSet(b)
  <2>1. ASSUME NEW x \in ToSet(t) PROVE x \in ToSet(a) \cup ToSet(b)
    BY <1>3 DEF ToSet, Parts
  <2>2. ASSUME NEW x \in ToSet(a) PROVE x \in ToSet(t)
    BY <1>3 DEF ToSet, Parts
  <2>3. ASSUME NEW x \in ToSet(b) PROVE x \in ToSet(t)
    BY <1>3 DEF ToSet, Parts
  <2> QED BY <2>1, <2>2, <2>3
<1> QED BY <1>4, <1>5 DEF Keyed

\* s was sent before, or is a command of c now sent to p.
FromOr(s, r, c, p) == (\E j \in DOMAIN r : s = r[j]) \/ \E x \in ToSet(c) : s = <<x, p>>

\* Commands sent to project p, after those sent before.
Sending(c, p) == [i \in DOMAIN c |-> <<c[i], p>>]

LEMMA SentMore ==
  ASSUME NEW r \in Seq(Nat \X Projects), NEW c, Keyed(c, Nat), NEW p \in Projects,
         NEW t, t = r \o Sending(c, p), SentOnce(r), ToSet(c) \cap Sent(r) = {}
  PROVE  /\ t \in Seq(Nat \X Projects) /\ SentOnce(t) /\ Sent(t) = Sent(r) \cup ToSet(c)
         /\ \A i \in DOMAIN t : FromOr(t[i], r, c, p)
<1>1. PICK b : b = Sending(c, p)
  OBVIOUS
<1>2. b \in Seq(Nat \X Projects)
  <2>1. c \in Seq(Nat)
    BY DEF Keyed
  <2>2. PICK k \in Nat : k = Len(c) /\ DOMAIN c = 1..k
    BY <2>1
  <2>3. \A i \in 1..k : c[i] \in Nat
    BY <2>1, <2>2
  <2>4. b \in [1..k -> Nat \X Projects]
    BY <1>1, <2>2, <2>3 DEF Sending
  <2> QED BY <2>4
<1>3. t \in Seq(Nat \X Projects) /\ Follows(t, r, b)
  BY <1>1, <1>2, ConcatenationFollows
<1>4. PICK n \in Nat : Parts(t, r, b, n)
  BY <1>3, TwoParts
<1>5. DOMAIN b = DOMAIN c /\ \A i \in DOMAIN b : b[i] = <<c[i], p>> /\ b[i][1] = c[i]
  BY <1>1 DEF Sending
<1>6. \A i \in DOMAIN b : b[i][1] \in ToSet(c)
  BY <1>5 DEF ToSet
<1>7. \A i \in DOMAIN r : r[i][1] \in Sent(r)
  BY DEF Sent
<1>8. ASSUME NEW i \in DOMAIN t, NEW j \in DOMAIN t, t[i][1] = t[j][1] PROVE i = j
  <2>1. CASE i \in DOMAIN r /\ t[i] = r[i]
    <3>1. CASE j \in DOMAIN r /\ t[j] = r[j]
      BY <1>8, <2>1, <3>1 DEF SentOnce
    <3>2. CASE j - n \in DOMAIN b /\ t[j] = b[j - n]
      <4>1. t[i][1] \in Sent(r) /\ t[j][1] \in ToSet(c)
        BY <1>6, <1>7, <2>1, <3>2
      <4> QED BY <1>8, <4>1
    <3> QED BY <1>4, <3>1, <3>2 DEF Parts
  <2>2. CASE i - n \in DOMAIN b /\ t[i] = b[i - n]
    <3>1. CASE j \in DOMAIN r /\ t[j] = r[j]
      <4>1. t[j][1] \in Sent(r) /\ t[i][1] \in ToSet(c)
        BY <1>6, <1>7, <2>2, <3>1
      <4> QED BY <1>8, <4>1
    <3>2. CASE j - n \in DOMAIN b /\ t[j] = b[j - n]
      <4>1. c[i - n] = c[j - n] /\ i - n \in DOMAIN c /\ j - n \in DOMAIN c
        BY <1>5, <1>8, <2>2, <3>2
      <4>2. i - n = j - n
        BY <4>1 DEF Keyed
      <4>3. i \in Nat /\ j \in Nat
        BY <1>4 DEF Parts
      <4> QED BY <4>2, <4>3
    <3> QED BY <1>4, <3>1, <3>2 DEF Parts
  <2> QED BY <1>4, <2>1, <2>2 DEF Parts
<1>9. Sent(t) = Sent(r) \cup ToSet(c)
  <2>1. ASSUME NEW x \in Sent(t) PROVE x \in Sent(r) \cup ToSet(c)
    <3>1. PICK i \in DOMAIN t : x = t[i][1]
      BY <2>1 DEF Sent
    <3> QED BY <1>4, <1>6, <1>7, <3>1 DEF Parts
  <2>2. ASSUME NEW x \in Sent(r) PROVE x \in Sent(t)
    <3>1. PICK i \in DOMAIN r : x = r[i][1]
      BY <2>2 DEF Sent
    <3>2. i \in DOMAIN t /\ x = t[i][1]
      BY <1>4, <3>1 DEF Parts
    <3> QED BY <3>2 DEF Sent
  <2>3. ASSUME NEW x \in ToSet(c) PROVE x \in Sent(t)
    <3>1. PICK i \in DOMAIN b : x = b[i][1]
      BY <1>5, <2>3 DEF ToSet
    <3>2. n + i \in DOMAIN t /\ x = t[n + i][1]
      BY <1>4, <3>1 DEF Parts
    <3> QED BY <3>2 DEF Sent
  <2> QED BY <2>1, <2>2, <2>3
<1>10. ASSUME NEW i \in DOMAIN t
       PROVE  (\E j \in DOMAIN r : t[i] = r[j]) \/ \E x \in ToSet(c) : t[i] = <<x, p>>
  <2>1. CASE i \in DOMAIN r /\ t[i] = r[i]
    BY <2>1
  <2>2. CASE i - n \in DOMAIN b /\ t[i] = b[i - n]
    <3>1. t[i] = <<c[i - n], p>> /\ c[i - n] \in ToSet(c)
      BY <1>5, <2>2 DEF ToSet
    <3> QED BY <3>1
  <2> QED BY <1>4, <2>1, <2>2 DEF Parts
<1>11. \A i \in DOMAIN t : FromOr(t[i], r, c, p)
  BY <1>10 DEF FromOr
<1> QED BY <1>3, <1>8, <1>9, <1>11 DEF SentOnce

(* How the commands move                                                   *)

\* Commands nobody has, put at the end of the queue.
LEMMA Queued ==
  ASSUME NEW q, NEW T, NEW r, NEW C, QueueInv(q, T, r, C),
         NEW c, Keyed(c, Nat), ToSet(c) \cap C = {}, 
         NEW t \in Seq(Nat), Follows(t, q, c)
  PROVE  QueueInv(t, T, r, C \cup ToSet(c)) /\ ToSet(t) = ToSet(q) \cup ToSet(c)
<1>1. ToSet(q) \cap ToSet(c) = {} /\ Keyed(q, Nat)
  BY DEF QueueInv
<1>2. Keyed(t, Nat) /\ ToSet(t) = ToSet(q) \cup ToSet(c)
  BY <1>1, KeysJoined
<1> QED BY <1>2 DEF QueueInv

LEMMA SentOff ==
  ASSUME NEW q, NEW T, NEW r, NEW C, QueueInv(q, T, r, C),
         NEW c, Keyed(c, Nat), ToSet(c) \cap C = {}, NEW p \in Projects,
         NEW t, t = r \o Sending(c, p)
  PROVE  /\ QueueInv(q, T, t, C \cup ToSet(c))
         /\ \A i \in DOMAIN t : FromOr(t[i], r, c, p)
<1>1. r \in Seq(Nat \X Projects) /\ SentOnce(r) /\ ToSet(c) \cap Sent(r) = {}
  BY DEF QueueInv
<1>2. /\ t \in Seq(Nat \X Projects) /\ SentOnce(t) /\ Sent(t) = Sent(r) \cup ToSet(c)
      /\ \A i \in DOMAIN t : FromOr(t[i], r, c, p)
  BY <1>1, SentMore
<1> QED BY <1>2 DEF QueueInv

LEMMA TimerSet ==
  ASSUME NEW q, NEW T, NEW r, NEW C, QueueInv(q, T, r, C),
         NEW c, Keyed(c, Nat), c # <<>>, ToSet(c) \cap C = {}
  PROVE  QueueInv(q, T \cup {c}, r, C \cup ToSet(c))
BY DEF QueueInv

LEMMA TimerTaken ==
  ASSUME NEW q, NEW T, NEW r, NEW C, QueueInv(q, T, r, C), NEW c \in T
  PROVE  /\ QueueInv(q, T \ {c}, r, C \ ToSet(c))
         /\ Keyed(c, Nat) /\ c # <<>> /\ ToSet(c) \subseteq C
BY DEF QueueInv

LEMMA QueueTaken ==
  ASSUME NEW q, NEW T, NEW r, NEW C, QueueInv(q, T, r, C)
  PROVE  /\ QueueInv(<<>>, T, r, C \ ToSet(q))
         /\ Keyed(q, Nat) /\ ToSet(q) \subseteq C
<1>1. Keyed(<<>>, Nat) /\ ToSet(<<>>) = {}
  BY DEF Keyed, ToSet
<1> QED BY <1>1 DEF QueueInv

(* The sessions                                                            *)

LEMMA NoTab == Keyed(<<>>, 1..MaxTabs) /\ ToSet(<<>>) = {}
BY DEF Keyed, ToSet

LEMMA Closing ==
  ASSUME SessionsOK, NEW kept, NEW z, z = CloseSessions(kept)
  PROVE  /\ z \in Seq(SocketType) /\ DOMAIN z = DOMAIN sockets
         /\ \A s \in DOMAIN sockets :
              /\ z[s].project = sockets[s].project
              /\ \/ z[s].state = sockets[s].state
                 \/ \E t \in ToSet(tabs) \ ToSet(kept) : s = socketOf[t]
<1>1. PICK n \in Nat : n = Len(sockets) /\ DOMAIN sockets = 1..n
  BY DEF SessionsOK
<1>2. \A s \in 1..n : sockets[s] \in SocketType
  BY <1>1 DEF SessionsOK
<1>3. PICK closing : closing = {socketOf[t] : t \in ToSet(tabs) \ ToSet(kept)}
  OBVIOUS
<1>4. z = [s \in 1..n |-> IF s \in closing THEN [sockets[s] EXCEPT !.state = "closed"]
                          ELSE sockets[s]]
  BY <1>1, <1>3 DEF CloseSessions
<1>5. z \in [1..n -> SocketType]
  BY <1>2, <1>4 DEF SocketType
<1>6. z \in Seq(SocketType) /\ DOMAIN z = 1..n
  BY <1>5
<1>7. ASSUME NEW s \in 1..n
      PROVE  z[s].project = sockets[s].project /\ (z[s].state = sockets[s].state \/ s \in closing)
  BY <1>2, <1>4 DEF SocketType
<1> QED BY <1>1, <1>3, <1>6, <1>7

\* A socket is added to those there are.
LEMMA SocketAdded ==
  ASSUME NEW z \in Seq(SocketType), NEW p \in Projects, NEW y, y = Append(z, NewSocket(p))
  PROVE  /\ y \in Seq(SocketType) /\ Len(z) + 1 \in DOMAIN y
         /\ y[Len(z) + 1].project = p /\ y[Len(z) + 1].state = "connecting"
         /\ \A s \in DOMAIN z : s \in DOMAIN y /\ y[s] = z[s]
<1>1. NewSocket(p) \in SocketType /\ NewSocket(p).project = p /\ NewSocket(p).state = "connecting"
  BY DEF NewSocket, SocketType
<1>2. PICK n \in Nat : n = Len(z)
  OBVIOUS
<1>3. PICK e : e = NewSocket(p)
  OBVIOUS
<1>4. /\ y \in Seq(SocketType) /\ DOMAIN y = 1..(n + 1) /\ DOMAIN z = 1..n
      /\ y[n + 1] = e /\ \A s \in 1..n : y[s] = z[s]
  BY <1>1, <1>2, <1>3
<1> QED BY <1>1, <1>2, <1>3, <1>4

LEMMA TabCreated ==
  ASSUME SessionsOK, NEW kept, Keyed(kept, 1..MaxTabs), ToSet(kept) \subseteq ToSet(tabs),
         NEW p \in Projects, NEW isRun, CreateTab(kept, p, isRun), project' = p,
         kept = <<>> \/ p = project
  PROVE  SessionsOK' /\ SocketComing'
<1>1. PICK z : z = CloseSessions(kept)
  OBVIOUS
<1>2. PICK t : t = tabCounter + 1
  OBVIOUS
<1>3. PICK m : m = Len(sockets) + 1
  OBVIOUS
<1>4. /\ t <= MaxTabs /\ tabCounter' = t /\ active' = t /\ tabs' = Append(kept, t)
      /\ sockets' = Append(z, NewSocket(p))
      /\ socketOf' = [u \in 1..MaxTabs |->
                        IF u = t THEN m ELSE IF u \in ToSet(kept) THEN socketOf[u] ELSE 0]
  BY <1>1, <1>2, <1>3 DEF CreateTab
<1>5. /\ z \in Seq(SocketType) /\ DOMAIN z = DOMAIN sockets
      /\ \A s \in DOMAIN sockets : z[s].project = sockets[s].project
  BY <1>1, Closing
<1>6. Len(z) + 1 = m /\ m \in Nat
  BY <1>3, <1>5 DEF SessionsOK
<1>7. /\ sockets' \in Seq(SocketType) /\ m \in DOMAIN sockets'
      /\ sockets'[m].project = p /\ sockets'[m].state = "connecting"
      /\ \A s \in DOMAIN z : s \in DOMAIN sockets' /\ sockets'[s] = z[s]
  BY <1>4, <1>5, <1>6, SocketAdded
<1>8. tabCounter \in Nat /\ MaxTabs \in Nat
  BY TerminalAssumption DEF SessionsOK
<1>9. t \in 1..MaxTabs /\ tabCounter < t /\ t \in Nat
  BY <1>2, <1>4, <1>8
<1>10. ASSUME NEW u \in ToSet(kept)
       PROVE  /\ u \in 1..MaxTabs /\ u <= tabCounter /\ u # t
              /\ socketOf[u] \in DOMAIN sockets /\ sockets[socketOf[u]].project = p
  <2>1. u \in ToSet(tabs) /\ kept # <<>>
    BY NoTab
  <2>2. u \in 1..MaxTabs
    BY KeysIn
  <2>3. u <= tabCounter /\ socketOf[u] \in DOMAIN sockets /\ sockets[socketOf[u]].project = p
    BY <2>1 DEF SessionsOK
  <2> QED BY <1>8, <1>9, <2>2, <2>3
<1>11. Keyed(tabs', 1..MaxTabs) /\ ToSet(tabs') = ToSet(kept) \cup {t}
  <2>1. t \notin ToSet(kept)
    BY <1>10
  <2>2. PICK u : u = tabs'
    OBVIOUS
  <2>3. u = Append(kept, t) /\ t \in 1..MaxTabs
    BY <1>4, <1>9, <2>2
  <2>4. kept \in Seq(1..MaxTabs)
    BY DEF Keyed
  <2>5. u \in Seq(1..MaxTabs) /\ Grows(u, kept, t)
    BY <2>3, <2>4, AppendGrows
  <2>6. Keyed(u, 1..MaxTabs) /\ ToSet(u) = ToSet(kept) \cup {t}
    <3>1. PICK R : R = 1..MaxTabs
      OBVIOUS
    <3>2. Keyed(kept, R) /\ t \in R /\ u \in Seq(R)
      BY <1>9, <2>5, <3>1
    <3>3. Keyed(u, R) /\ ToSet(u) = ToSet(kept) \cup {t}
      BY <2>1, <2>5, <3>2, KeyAppended
    <3> QED BY <3>1, <3>3
  <2> QED BY <2>2, <2>6
<1>12. ASSUME NEW u \in ToSet(tabs')
       PROVE  /\ u <= t /\ socketOf'[u] \in DOMAIN sockets' /\ sockets'[socketOf'[u]].project = p
  <2>1. CASE u = t
    <3>1. socketOf'[u] = m
      BY <1>4, <1>9, <2>1
    <3> QED BY <1>7, <1>9, <2>1, <3>1
  <2>2. CASE u # t
    <3>1. u \in ToSet(kept)
      BY <1>11, <2>2
    <3>2. socketOf'[u] = socketOf[u]
      BY <1>4, <1>10, <2>2, <3>1
    <3>3. u <= t
      BY <1>8, <1>9, <1>10, <3>1
    <3> QED BY <1>5, <1>7, <1>10, <3>1, <3>2, <3>3
  <2> QED BY <2>1, <2>2
<1>13. socketOf' \in [1..MaxTabs -> Nat]
  BY <1>4, <1>6 DEF SessionsOK
<1> QED BY <1>4, <1>7, <1>9, <1>11, <1>12, <1>13 DEF SessionsOK, SocketComing

LEMMA SessionsDropped ==
  ASSUME SessionsOK, NEW kept, Keyed(kept, 1..MaxTabs), ToSet(kept) \subseteq ToSet(tabs),
         DropSessions(kept), project' \in Projects, kept = <<>> \/ project' = project
  PROVE  /\ SessionsOK' /\ (active' # 0 => kept # <<>>)
         /\ \A s \in DOMAIN sockets : \/ s \in DOMAIN sockets' /\ sockets'[s].state = sockets[s].state
                                      \/ \E t \in ToSet(tabs) \ ToSet(kept) : s = socketOf[t]
<1>1. /\ tabs' = kept /\ sockets' = CloseSessions(kept) /\ tabCounter' = tabCounter
      /\ socketOf' = [t \in 1..MaxTabs |-> IF t \in ToSet(kept) THEN socketOf[t] ELSE 0]
      /\ active' = IF kept = <<>> THEN 0
                   ELSE IF active \in ToSet(kept) THEN active ELSE Last(kept)
  BY DEF DropSessions
<1>2. PICK z : z = CloseSessions(kept)
  OBVIOUS
<1>3. /\ z \in Seq(SocketType) /\ DOMAIN z = DOMAIN sockets
      /\ \A s \in DOMAIN sockets :
           /\ z[s].project = sockets[s].project
           /\ \/ z[s].state = sockets[s].state
              \/ \E t \in ToSet(tabs) \ ToSet(kept) : s = socketOf[t]
  BY <1>2, Closing
<1>4. kept # <<>> => Last(kept) \in ToSet(kept)
  <2>1. ASSUME kept # <<>> PROVE Last(kept) \in ToSet(kept)
    <3>1. kept \in Seq(1..MaxTabs)
      BY DEF Keyed
    <3>2. Len(kept) \in DOMAIN kept
      BY <2>1, <3>1
    <3> QED BY <3>2 DEF Last, ToSet
  <2> QED BY <2>1
<1>5. active' \in ToSet(tabs') \/ (active' = 0 /\ tabs' = <<>>)
  BY <1>1, <1>4
<1>6. socketOf' \in [1..MaxTabs -> Nat]
  BY <1>1 DEF SessionsOK
<1>7. ASSUME NEW u \in ToSet(tabs')
      PROVE  /\ u <= tabCounter /\ socketOf'[u] \in DOMAIN sockets'
             /\ sockets'[socketOf'[u]].project = project'
  <2>1. u \in ToSet(kept) /\ u \in ToSet(tabs) /\ kept # <<>> /\ u \in 1..MaxTabs
    BY <1>1, NoTab, KeysIn
  <2>2. u <= tabCounter /\ socketOf[u] \in DOMAIN sockets /\ sockets[socketOf[u]].project = project
    BY <2>1 DEF SessionsOK
  <2>3. socketOf'[u] = socketOf[u]
    BY <1>1, <2>1
  <2> QED BY <1>1, <1>2, <1>3, <2>1, <2>2, <2>3
<1>8. SessionsOK'
  BY <1>1, <1>2, <1>3, <1>5, <1>6, <1>7 DEF SessionsOK
<1> QED BY <1>1, <1>2, <1>3, <1>8

LEMMA Reconnected ==
  ASSUME SessionsOK, active # 0, NEW n \in Nat, n > 0, Connect(active, n), project' = project
  PROVE  SessionsOK' /\ SocketComing'
<1>1. PICK b : b = [i \in 1..n |-> NewSocket(project)]
  OBVIOUS
<1>2. PICK m : m = Len(sockets)
  OBVIOUS
<1>3. /\ sockets' = sockets \o b /\ socketOf' = [socketOf EXCEPT ![active] = m + n]
      /\ UNCHANGED <<tabs, tabCounter, active>>
  BY <1>1, <1>2 DEF Connect
<1>4. active \in ToSet(tabs) /\ active \in 1..MaxTabs /\ m \in Nat
  <2>1. ToSet(tabs) \subseteq 1..MaxTabs
    BY KeysIn DEF SessionsOK
  <2> QED BY <1>2, <2>1 DEF SessionsOK
<1>5. PICK e : e = NewSocket(project)
  OBVIOUS
<1>6. e \in SocketType /\ e.project = project /\ e.state = "connecting"
  BY <1>5 DEF NewSocket, SocketType, SessionsOK
<1>7. b \in Seq(SocketType) /\ Len(b) = n /\ \A i \in 1..n : b[i] = e
  <2>1. b \in [1..n -> SocketType] /\ \A i \in 1..n : b[i] = e
    BY <1>1, <1>5, <1>6
  <2> QED BY <2>1
<1>8. PICK y : y = sockets'
  OBVIOUS
<1>9. /\ y \in Seq(SocketType) /\ DOMAIN y = 1..(m + n) /\ DOMAIN sockets = 1..m
      /\ \A s \in 1..m : y[s] = sockets[s]
      /\ \A s \in 1..n : y[m + s] = b[s]
  <2>1. PICK q : q = sockets
    OBVIOUS
  <2>2. q \in Seq(SocketType) /\ b \in Seq(SocketType) /\ y = q \o b
    BY <1>3, <1>7, <1>8, <2>1 DEF SessionsOK
  <2>3. m = Len(q) /\ n = Len(b) /\ m \in Nat
    BY <1>2, <1>4, <1>7, <2>1
  <2>4. /\ y \in Seq(SocketType) /\ Len(y) = m + n /\ DOMAIN q = 1..m
        /\ \A s \in 1..m : y[s] = q[s]
        /\ \A s \in 1..n : y[m + s] = b[s]
    BY <2>2, <2>3
  <2> QED BY <2>1, <2>3, <2>4
<1>10. m + n \in DOMAIN y /\ y[m + n] = e /\ \A s \in DOMAIN sockets : s \in DOMAIN y /\ y[s] = sockets[s]
  <2>1. n \in 1..n /\ m + n \in 1..(m + n) /\ \A s \in 1..m : s \in 1..(m + n)
    BY <1>4
  <2> QED BY <1>7, <1>9, <2>1
<1>11. socketOf' \in [1..MaxTabs -> Nat] /\ socketOf'[active] = m + n
       /\ \A u \in 1..MaxTabs : u # active => socketOf'[u] = socketOf[u]
  BY <1>3, <1>4 DEF SessionsOK
<1>12. ASSUME NEW u \in ToSet(tabs')
       PROVE  /\ u <= tabCounter' /\ socketOf'[u] \in DOMAIN y /\ y[socketOf'[u]].project = project
  <2>1. u \in ToSet(tabs) /\ u \in 1..MaxTabs
    BY <1>3, KeysIn DEF SessionsOK
  <2>2. CASE u = active
    BY <1>3, <1>6, <1>10, <1>11, <2>1, <2>2 DEF SessionsOK
  <2>3. CASE u # active
    BY <1>3, <1>10, <1>11, <2>1, <2>3 DEF SessionsOK
  <2> QED BY <2>2, <2>3
<1>13. SessionsOK'
  BY <1>3, <1>8, <1>9, <1>11, <1>12 DEF SessionsOK
<1> QED BY <1>6, <1>8, <1>10, <1>13 DEF SocketComing

(* The commands and the files                                              *)

\* A command is in a place and once: QueueInv says so with sets.
LEMMA OnePlace ==
  ASSUME QueuesOK PROVE CommandsKept
<1> SUFFICES ASSUME NEW c \in DOMAIN issued PROVE \E x \in Places(c) : Places(c) = {x}
  BY DEF CommandsKept
<1>1. /\ Keyed(pendingCommands, Nat) /\ (\A l \in timers : Keyed(l, Nat)) /\ SentOnce(ran)
      /\ ToSet(pendingCommands) \cap Sent(ran) = {}
      /\ \A l \in timers : ToSet(l) \cap ToSet(pendingCommands) = {} /\ ToSet(l) \cap Sent(ran) = {}
      /\ \A l, k \in timers : l # k => ToSet(l) \cap ToSet(k) = {}
      /\ c \in ToSet(pendingCommands) \cup (UNION {ToSet(l) : l \in timers}) \cup Sent(ran)
  BY DEF QueuesOK, QueueInv
<1>2. PICK Q : Q = {<<"queue", i>> : i \in {i \in DOMAIN pendingCommands : pendingCommands[i] = c}}
  OBVIOUS
<1>3. PICK S : S = {<<"sent", i>> : i \in {i \in DOMAIN ran : ran[i][1] = c}}
  OBVIOUS
<1>4. PICK W : W = UNION {{<<"timer", l, i>> : i \in {i \in DOMAIN l : l[i] = c}} : l \in timers}
  OBVIOUS
<1>5. Places(c) = Q \cup S \cup W
  BY <1>2, <1>3, <1>4 DEF Places
<1>6. c \notin ToSet(pendingCommands) => Q = {}
  BY <1>2 DEF ToSet
<1>7. c \notin Sent(ran) => S = {}
  BY <1>3 DEF Sent
<1>8. (\A l \in timers : c \notin ToSet(l)) => W = {}
  BY <1>4 DEF ToSet
<1>9. c \in ToSet(pendingCommands) => \E x : Q = {x}
  <2>1. ASSUME c \in ToSet(pendingCommands) PROVE \E x : Q = {x}
    <3>1. PICK i \in DOMAIN pendingCommands : pendingCommands[i] = c
      BY <2>1 DEF ToSet
    <3>2. {k \in DOMAIN pendingCommands : pendingCommands[k] = c} = {i}
      BY <1>1, <3>1 DEF Keyed
    <3>3. Q = {<<"queue", i>>}
      BY <1>2, <3>2
    <3> QED BY <3>3
  <2> QED BY <2>1
<1>10. c \in Sent(ran) => \E x : S = {x}
  <2>1. ASSUME c \in Sent(ran) PROVE \E x : S = {x}
    <3>1. PICK i \in DOMAIN ran : ran[i][1] = c
      BY <2>1 DEF Sent
    <3>2. {k \in DOMAIN ran : ran[k][1] = c} = {i}
      BY <1>1, <3>1 DEF SentOnce
    <3>3. S = {<<"sent", i>>}
      BY <1>3, <3>2
    <3> QED BY <3>3
  <2> QED BY <2>1
<1>11. ASSUME NEW l \in timers, c \in ToSet(l) PROVE \E x : W = {x}
  <2>1. PICK i \in DOMAIN l : l[i] = c
    BY <1>11 DEF ToSet
  <2>2. \A k \in DOMAIN l : l[k] = c <=> k = i
    BY <1>1, <2>1 DEF Keyed
  <2>3. \A k \in timers : k # l => \A j \in DOMAIN k : k[j] # c
    BY <1>1, <1>11 DEF ToSet
  <2>4. \A x : x \in W <=> \E k \in timers : \E j \in DOMAIN k : k[j] = c /\ x = <<"timer", k, j>>
    BY <1>4
  <2>5. \A x : x \in W <=> x = <<"timer", l, i>>
    BY <2>1, <2>2, <2>3, <2>4
  <2>6. W = {<<"timer", l, i>>}
    BY <2>5
  <2> QED BY <2>6
<1>12. \E x : Places(c) = {x}
  <2>1. CASE c \in ToSet(pendingCommands)
    BY <1>1, <1>5, <1>7, <1>8, <1>9, <2>1
  <2>2. CASE c \in Sent(ran)
    BY <1>1, <1>5, <1>6, <1>8, <1>10, <2>2
  <2>3. CASE \E l \in timers : c \in ToSet(l)
    BY <1>1, <1>5, <1>6, <1>7, <1>11, <2>3
  <2> QED BY <1>1, <2>1, <2>2, <2>3
<1> QED BY <1>12

LEMMA WaitingGiven ==
  ASSUME QueuesOK
  PROVE  /\ Waiting \subseteq DOMAIN issued /\ ToSet(pendingCommands) \subseteq Waiting
         /\ (\A l \in timers : ToSet(l) \subseteq Waiting)
         /\ \A i \in DOMAIN ran : ran[i][1] \in DOMAIN issued
<1>1. \A i \in DOMAIN ran : ran[i][1] \in Sent(ran)
  BY DEF Sent
<1> QED BY <1>1 DEF QueuesOK, QueueInv, Waiting

\* The user gives command n.
LEMMA CommandGiven ==
  ASSUME HomeOK, issued' = Append(issued, project), project \in Projects,
         NEW n, n = Len(issued) + 1, NEW c, c = <<n>>
  PROVE  /\ issued' \in Seq(Projects) /\ DOMAIN issued' = DOMAIN issued \cup {n}
         /\ n \notin DOMAIN issued /\ issued'[n] = project
         /\ \A d \in DOMAIN issued : issued'[d] = issued[d]
         /\ Keyed(c, Nat) /\ ToSet(c) = {n} /\ c # <<>>
<1>1. PICK k \in Nat : k = Len(issued) /\ DOMAIN issued = 1..k /\ n = k + 1
  BY DEF HomeOK
<1>2. PICK t : t = issued'
  OBVIOUS
<1>3. /\ t \in Seq(Projects) /\ DOMAIN t = 1..(k + 1) /\ t[k + 1] = project
      /\ \A d \in 1..k : t[d] = issued[d]
  <2>1. PICK q : q = issued
    OBVIOUS
  <2>2. q \in Seq(Projects) /\ t = Append(q, project) /\ Len(q) = k
    BY <1>1, <1>2, <2>1 DEF HomeOK
  <2> QED BY <2>1, <2>2
<1>4. 1..(k + 1) = 1..k \cup {k + 1} /\ k + 1 \notin 1..k
  OBVIOUS
<1>5. c \in Seq(Nat) /\ DOMAIN c = {1} /\ c[1] = n
  BY <1>1
<1>6. Keyed(c, Nat) /\ ToSet(c) = {n} /\ c # <<>>
  BY <1>5 DEF Keyed, ToSet
<1> QED BY <1>1, <1>2, <1>3, <1>4, <1>6

\* Commands that nobody has are given to the active session, or queued for it.
LEMMA CommandsDispatched ==
  ASSUME SessionsOK, NEW T, NEW C, QueueInv(pendingCommands, T, ran, C),
         NEW c, Keyed(c, Nat), c # <<>>, ToSet(c) \cap C = {},
         Dispatch(c, pendingCommands, T), project' = project
  PROVE  /\ SessionsOK' /\ timers' = T
         /\ QueueInv(pendingCommands', T, ran', C \cup ToSet(c))
         /\ \/ /\ pendingCommands' = pendingCommands /\ UNCHANGED <<active, sockets>>
               /\ \A i \in DOMAIN ran' : FromOr(ran'[i], ran, c, project)
            \/ /\ ToSet(pendingCommands') = ToSet(pendingCommands) \cup ToSet(c)
               /\ ran' = ran /\ (active' # 0 => SocketComing')
<1>1. CASE ActiveOpen
  <2>1. active \in ToSet(tabs) /\ sockets[socketOf[active]].project = project
    BY <1>1 DEF ActiveOpen, SessionsOK
  <2>2. /\ timers' = T /\ pendingCommands' = pendingCommands /\ UNCHANGED tabVars
        /\ ran' = ran \o Sending(c, project)
    BY <1>1, <2>1 DEF Dispatch, Sending
  <2>3. project \in Projects
    BY DEF SessionsOK
  <2>4. /\ QueueInv(pendingCommands, T, ran', C \cup ToSet(c))
        /\ \A i \in DOMAIN ran' : FromOr(ran'[i], ran, c, project)
    <3>1. PICK t : t = ran'
      OBVIOUS
    <3>2. t = ran \o Sending(c, project)
      BY <2>2, <3>1
    <3> QED BY <2>3, <3>1, <3>2, SentOff
  <2>5. SessionsOK'
    BY <2>2 DEF SessionsOK, tabVars
  <2> QED BY <2>2, <2>4, <2>5 DEF tabVars
<1>2. CASE ~ActiveOpen
  <2>1. /\ timers' = T /\ pendingCommands' = pendingCommands \o c /\ ran' = ran
        /\ IF active # 0 THEN Connect(active, Len(c)) ELSE UNCHANGED tabVars
    BY <1>2 DEF Dispatch
  <2>2. PICK t : t = pendingCommands'
    OBVIOUS
  <2>3. QueueInv(t, T, ran', C \cup ToSet(c)) /\ ToSet(t) = ToSet(pendingCommands) \cup ToSet(c)
    <3>1. PICK q : q = pendingCommands
      OBVIOUS
    <3>2. q \in Seq(Nat) /\ c \in Seq(Nat) /\ t = q \o c
      BY <2>1, <2>2, <3>1 DEF QueueInv, Keyed
    <3>3. t \in Seq(Nat) /\ Follows(t, q, c)
      BY <3>2, ConcatenationFollows
    <3>4. ran' = ran
      BY <2>1
    <3> QED BY <3>1, <3>3, <3>4, Queued
  <2>4. CASE active # 0
    <3>1. Len(c) \in Nat /\ Len(c) > 0
      BY DEF Keyed
    <3>2. SessionsOK' /\ SocketComing'
      BY <2>1, <2>4, <3>1, Reconnected
    <3> QED BY <2>1, <2>2, <2>3, <3>2
  <2>5. CASE active = 0
    <3>1. SessionsOK' /\ active' = 0
      BY <2>1, <2>5 DEF SessionsOK, tabVars
    <3> QED BY <2>1, <2>2, <2>3, <3>1
  <2> QED BY <2>4, <2>5
<1> QED BY <1>1, <1>2

\* Files are written for the project they come from, or were carried into another.
LEMMA FilesWritten ==
  ASSUME SessionsOK, HomeOK, WrittenHome, NEW owners, NEW isOpen \in BOOLEAN, NEW kept,
         owners \subseteq carried.files \cup {project}, kept \subseteq carried.files \cup {project},
         isOpen => active # 0, SyncTo(owners, isOpen, kept), project' = project, carried' = carried
  PROVE  WrittenHome' /\ pendingSync' \subseteq carried'.files \cup {project'}
<1>1. isOpen => sockets[socketOf[active]].project = project
  BY DEF SessionsOK
<1>2. \A w \in written' : w \in written \/ (w[1] = project /\ w[2] \in owners)
  BY <1>1 DEF SyncTo
<1>3. pendingSync' \subseteq kept \cup owners
  BY DEF SyncTo
<1> QED BY <1>2, <1>3 DEF WrittenHome

(* What the commands need of a step that moves none of them.               *)
LEMMA CommandsStay ==
  ASSUME HomeOK, RanHome, WrittenHome, QueuesOK, UNCHANGED queueVars, UNCHANGED fileVars,
         \/ project' = project /\ carried' = carried
         \/ \E p \in Projects : ChangeProject(p)
  PROVE  HomeOK' /\ RanHome' /\ WrittenHome' /\ QueuesOK'
<1>1. UNCHANGED <<pendingCommands, timers, issued, ran, pendingSync, written>>
  BY DEF queueVars, fileVars
<1>2. Waiting' = Waiting
  BY <1>1 DEF Waiting
<1>3. QueuesOK'
  BY <1>1 DEF QueuesOK
<1>4. CASE project' = project /\ carried' = carried
  BY <1>1, <1>2, <1>3, <1>4 DEF HomeOK, RanHome, WrittenHome
<1>5. CASE \E p \in Projects : ChangeProject(p)
  <2>1. PICK p \in Projects : ChangeProject(p)
    BY <1>5
  <2>2. CASE p = project
    BY <1>1, <1>2, <1>3, <2>1, <2>2 DEF ChangeProject, HomeOK, RanHome, WrittenHome
  <2>3. CASE p # project
    <3>1. /\ carried'.commands = carried.commands \cup Waiting
          /\ carried'.files = carried.files \cup pendingSync
      BY <2>1, <2>3 DEF ChangeProject
    <3> QED BY <1>1, <1>2, <1>3, <3>1 DEF HomeOK, RanHome, WrittenHome
  <2> QED BY <2>2, <2>3
<1> QED BY <1>4, <1>5

LEMMA Attaches ==
  ASSUME TerminalInv, NEW p \in Projects, AttachToElement(p) PROVE TerminalInv'
<1>1. SessionsOK /\ HomeOK /\ RanHome /\ WrittenHome /\ NothingStranded /\ QueuesOK
  BY DEF TerminalInv
<1>2. /\ ChangeProject(p) /\ project' = p /\ UNCHANGED queueVars /\ UNCHANGED fileVars
      /\ lostAt' = lostAt
  BY DEF AttachToElement, ChangeProject, cutVars
<1>3. HomeOK' /\ RanHome' /\ WrittenHome' /\ QueuesOK'
  BY <1>1, <1>2, CommandsStay
<1>4. PICK kept : kept = IF p = project THEN tabs ELSE <<>>
  OBVIOUS
<1>5. IF kept = <<>> THEN CreateTab(<<>>, p, FALSE) ELSE UNCHANGED tabVars
  BY <1>4 DEF AttachToElement
<1>6. CASE kept = <<>>
  <2>1. SessionsOK' /\ SocketComing'
    BY <1>1, <1>2, <1>5, <1>6, NoTab, TabCreated
  <2> QED BY <1>3, <2>1 DEF TerminalInv, NothingStranded, SocketComing
<1>7. CASE kept # <<>>
  <2>1. p = project /\ UNCHANGED tabVars
    BY <1>4, <1>5, <1>7
  <2>2. SessionsOK'
    BY <1>1, <1>2, <2>1 DEF SessionsOK, tabVars
  <2>3. NothingStranded'
    BY <1>1, <1>2, <2>1 DEF NothingStranded, tabVars, queueVars
  <2> QED BY <1>3, <2>2, <2>3 DEF TerminalInv
<1> QED BY <1>6, <1>7

LEMMA MovesOn ==
  ASSUME TerminalInv, NEW p \in Projects, SetProject(p) PROVE TerminalInv'
<1>1. SessionsOK /\ HomeOK /\ RanHome /\ WrittenHome /\ NothingStranded /\ QueuesOK
  BY DEF TerminalInv
<1>2. /\ ChangeProject(p) /\ project' = p /\ UNCHANGED queueVars /\ UNCHANGED fileVars
      /\ IF host THEN CreateTab(<<>>, p, FALSE) ELSE DropSessions(<<>>)
  BY DEF SetProject, ChangeProject
<1>3. HomeOK' /\ RanHome' /\ WrittenHome' /\ QueuesOK'
  BY <1>1, <1>2, CommandsStay
<1>4. CASE host
  <2>1. SessionsOK' /\ SocketComing'
    BY <1>1, <1>2, <1>4, NoTab, TabCreated
  <2> QED BY <1>3, <2>1 DEF TerminalInv, NothingStranded, SocketComing
<1>5. CASE ~host
  <2>1. SessionsOK' /\ active' = 0
    BY <1>1, <1>2, <1>5, NoTab, SessionsDropped
  <2> QED BY <1>3, <2>1 DEF TerminalInv, NothingStranded
<1> QED BY <1>4, <1>5

LEMMA OpensTab ==
  ASSUME TerminalInv, NewTab PROVE TerminalInv'
<1>1. SessionsOK /\ HomeOK /\ RanHome /\ WrittenHome /\ NothingStranded /\ QueuesOK
  BY DEF TerminalInv
<1>2. /\ CreateTab(tabs, project, FALSE) /\ project' = project /\ carried' = carried
      /\ UNCHANGED queueVars /\ UNCHANGED fileVars
  BY DEF NewTab
<1>3. HomeOK' /\ RanHome' /\ WrittenHome' /\ QueuesOK'
  BY <1>1, <1>2, CommandsStay
<1>4. SessionsOK' /\ SocketComing'
  <2>1. Keyed(tabs, 1..MaxTabs) /\ project \in Projects
    BY <1>1 DEF SessionsOK
  <2> QED BY <1>1, <1>2, <2>1, TabCreated
<1> QED BY <1>3, <1>4 DEF TerminalInv, NothingStranded, SocketComing

\* A tab that is open is a number.
LEMMA TabNumber ==
  ASSUME SessionsOK, NEW t \in ToSet(tabs) PROVE t \in 1..MaxTabs /\ t # 0 /\ active # 0
<1>1. ToSet(tabs) \subseteq 1..MaxTabs
  BY KeysIn DEF SessionsOK
<1>2. tabs # <<>>
  BY NoTab
<1>3. active \in ToSet(tabs)
  BY <1>2 DEF SessionsOK
<1> QED BY <1>1, <1>3

LEMMA Switches ==
  ASSUME TerminalInv, NEW t, SwitchTab(t) PROVE TerminalInv'
<1>1. SessionsOK /\ HomeOK /\ RanHome /\ WrittenHome /\ NothingStranded /\ QueuesOK
  BY DEF TerminalInv
<1>2. /\ t \in ToSet(tabs) /\ active' = t /\ project' = project /\ carried' = carried
      /\ UNCHANGED <<tabs, tabCounter, socketOf, sockets, lostAt>>
      /\ UNCHANGED queueVars /\ UNCHANGED fileVars
  BY DEF SwitchTab, cutVars
<1>3. HomeOK' /\ RanHome' /\ WrittenHome' /\ QueuesOK'
  BY <1>1, <1>2, CommandsStay
<1>4. SessionsOK'
  BY <1>1, <1>2 DEF SessionsOK
<1>5. active # 0
  BY <1>1, <1>2, TabNumber
<1>6. NothingStranded'
  BY <1>1, <1>2, <1>5 DEF NothingStranded, queueVars
<1> QED BY <1>3, <1>4, <1>6 DEF TerminalInv

\* A connection is cut, or closed before it was there: no command was given since.
LEMMA NoneSinceCut ==
  ASSUME HomeOK, QueuesOK, Cut, UNCHANGED queueVars PROVE NothingStranded'
<1>1. ToSet(pendingCommands') \subseteq 1..Len(issued) /\ lostAt' = Len(issued)
  BY WaitingGiven DEF Cut, queueVars, HomeOK
<1>2. Len(issued) \in Nat
  BY DEF HomeOK
<1>3. \A c \in ToSet(pendingCommands') : ~(c > lostAt')
  BY <1>1, <1>2
<1> QED BY <1>3 DEF NothingStranded

LEMMA ClosesTab ==
  ASSUME TerminalInv, NEW t \in 1..MaxTabs, CloseTab(t) PROVE TerminalInv'
<1>1. SessionsOK /\ HomeOK /\ RanHome /\ WrittenHome /\ NothingStranded /\ QueuesOK
  BY DEF TerminalInv
<1>2. PICK kept : kept = RemoveFirst(tabs, t)
  OBVIOUS
<1>3. /\ t \in ToSet(tabs)
      /\ IF kept = <<>> THEN CreateTab(kept, project, FALSE) ELSE DropSessions(kept)
      /\ IF SocketIs(t, "connecting") /\ kept # <<>> THEN Cut ELSE UNCHANGED cutVars
      /\ project' = project /\ carried' = carried /\ UNCHANGED queueVars /\ UNCHANGED fileVars
  BY <1>2 DEF CloseTab
<1>4. HomeOK' /\ RanHome' /\ WrittenHome' /\ QueuesOK'
  BY <1>1, <1>3, CommandsStay
<1>5. Keyed(kept, 1..MaxTabs) /\ ToSet(kept) = ToSet(tabs) \ {t}
  <2>1. PICK R : R = 1..MaxTabs
    OBVIOUS
  <2>2. Keyed(tabs, R)
    BY <1>1, <2>1 DEF SessionsOK
  <2>3. Keyed(kept, R) /\ ToSet(kept) = ToSet(tabs) \ {t}
    BY <1>2, <1>3, <2>2, KeyDeleted
  <2> QED BY <2>1, <2>3
<1>6. project \in Projects
  BY <1>1 DEF SessionsOK
<1>7. CASE kept = <<>>
  <2>1. SessionsOK' /\ SocketComing'
    BY <1>1, <1>3, <1>5, <1>6, <1>7, TabCreated
  <2> QED BY <1>4, <2>1 DEF TerminalInv, NothingStranded, SocketComing
<1>8. CASE kept # <<>>
  <2>1. /\ SessionsOK'
        /\ \A s \in DOMAIN sockets : \/ s \in DOMAIN sockets' /\ sockets'[s].state = sockets[s].state
                                     \/ \E u \in ToSet(tabs) \ ToSet(kept) : s = socketOf[u]
    BY <1>1, <1>3, <1>5, <1>6, <1>8, SessionsDropped
  <2>2. CASE SocketIs(t, "connecting")
    <3>1. NothingStranded'
      BY <1>1, <1>3, <1>8, <2>2, NoneSinceCut
    <3> QED BY <1>4, <2>1, <3>1 DEF TerminalInv
  <2>3. CASE ~SocketIs(t, "connecting")
    <3>1. sockets[socketOf[t]].state # "connecting"
      <4>1. socketOf[t] \in DOMAIN sockets /\ 0 \notin DOMAIN sockets
        BY <1>1, <1>3 DEF SessionsOK
      <4> QED BY <2>3, <4>1 DEF SocketIs
    <3>2. SocketComing => SocketComing'
      BY <1>5, <2>1, <3>1 DEF SocketComing
    <3>3. active # 0 /\ lostAt' = lostAt
      BY <1>1, <1>3, <2>3, TabNumber DEF cutVars
    <3>4. NothingStranded'
      BY <1>1, <1>3, <3>2, <3>3 DEF NothingStranded, SocketComing, queueVars
    <3> QED BY <1>4, <2>1, <3>4 DEF TerminalInv
  <2> QED BY <2>2, <2>3
<1> QED BY <1>7, <1>8

\* One socket changes its state, no other.
LEMMA StateChanges ==
  ASSUME SessionsOK, NEW s \in DOMAIN sockets, NEW x \in {"open", "closed"},
         sockets' = [sockets EXCEPT ![s].state = x],
         UNCHANGED <<project, tabs, tabCounter, active, socketOf>>
  PROVE  SessionsOK'
<1>1. PICK n \in Nat : DOMAIN sockets = 1..n
  BY DEF SessionsOK
<1>2. \A k \in 1..n : sockets[k] \in SocketType
  BY <1>1 DEF SessionsOK
<1>3. PICK e : e = [sockets[s] EXCEPT !.state = x]
  OBVIOUS
<1>4. e \in SocketType /\ e.project = sockets[s].project
  BY <1>1, <1>2, <1>3 DEF SocketType
<1>5. PICK y : y = sockets'
  OBVIOUS
<1>6. y \in [1..n -> SocketType] /\ \A k \in 1..n : y[k] = IF k = s THEN e ELSE sockets[k]
  <2>1. y = [sockets EXCEPT ![s] = e]
    BY <1>3, <1>5
  <2>2. sockets \in [1..n -> SocketType]
    BY <1>1, <1>2 DEF SessionsOK
  <2> QED BY <1>1, <1>4, <2>1, <2>2
<1>7. y \in Seq(SocketType) /\ DOMAIN y = 1..n
  BY <1>6
<1>8. \A k \in 1..n : y[k].project = sockets[k].project
  BY <1>4, <1>6
<1> QED BY <1>1, <1>5, <1>7, <1>8 DEF SessionsOK

LEMMA Restarts ==
  ASSUME TerminalInv, Restart PROVE TerminalInv'
<1>1. SessionsOK /\ HomeOK /\ RanHome /\ WrittenHome /\ NothingStranded /\ QueuesOK
  BY DEF TerminalInv
<1>2. PICK z : z = [s \in DOMAIN sockets |-> IF s = socketOf[active]
                                             THEN [sockets[s] EXCEPT !.state = "closed"]
                                             ELSE sockets[s]]
  OBVIOUS
<1>3. PICK m : m = Len(sockets) + 1
  OBVIOUS
<1>4. /\ active # 0 /\ sockets' = Append(z, NewSocket(project))
      /\ socketOf' = [socketOf EXCEPT ![active] = m]
      /\ project' = project /\ carried' = carried /\ UNCHANGED queueVars /\ UNCHANGED fileVars
      /\ UNCHANGED <<tabs, tabCounter, active>>
  BY <1>2, <1>3 DEF Restart
<1>5. HomeOK' /\ RanHome' /\ WrittenHome' /\ QueuesOK'
  BY <1>1, <1>4, CommandsStay
<1>6. PICK n \in Nat : n = Len(sockets) /\ DOMAIN sockets = 1..n
  BY <1>1 DEF SessionsOK
<1>7. /\ z \in Seq(SocketType) /\ DOMAIN z = 1..n /\ Len(z) = n
      /\ \A s \in 1..n : z[s].project = sockets[s].project
  <2>1. \A s \in 1..n : sockets[s] \in SocketType
    BY <1>1, <1>6 DEF SessionsOK
  <2>2. z \in [1..n -> SocketType] /\ \A s \in 1..n : z[s].project = sockets[s].project
    BY <1>2, <1>6, <2>1 DEF SocketType
  <2> QED BY <2>2
<1>8. project \in Projects /\ active \in ToSet(tabs) /\ active \in 1..MaxTabs
  <2>1. active \in ToSet(tabs)
    BY <1>1, <1>4 DEF SessionsOK
  <2> QED BY <1>1, <2>1, TabNumber DEF SessionsOK
<1>9. /\ sockets' \in Seq(SocketType) /\ m \in DOMAIN sockets' /\ m \in Nat
      /\ sockets'[m].project = project /\ sockets'[m].state = "connecting"
      /\ \A s \in 1..n : s \in DOMAIN sockets' /\ sockets'[s] = z[s]
  <2>1. PICK y : y = sockets'
    OBVIOUS
  <2>2. y = Append(z, NewSocket(project))
    BY <1>4, <2>1
  <2>3. /\ y \in Seq(SocketType) /\ Len(z) + 1 \in DOMAIN y
        /\ y[Len(z) + 1].project = project /\ y[Len(z) + 1].state = "connecting"
        /\ \A s \in DOMAIN z : s \in DOMAIN y /\ y[s] = z[s]
    BY <1>7, <1>8, <2>2, SocketAdded
  <2>4. m = Len(z) + 1 /\ m \in Nat
    BY <1>3, <1>6, <1>7
  <2> QED BY <1>7, <2>1, <2>3, <2>4
<1>10. socketOf' \in [1..MaxTabs -> Nat] /\ socketOf'[active] = m
       /\ \A u \in 1..MaxTabs : u # active => socketOf'[u] = socketOf[u]
  BY <1>1, <1>4, <1>8, <1>9 DEF SessionsOK
<1>11. ASSUME NEW u \in ToSet(tabs)
       PROVE  /\ u <= tabCounter /\ socketOf'[u] \in DOMAIN sockets'
              /\ sockets'[socketOf'[u]].project = project
  <2>1. u \in 1..MaxTabs
    BY <1>1, TabNumber
  <2>2. u <= tabCounter /\ socketOf[u] \in 1..n /\ sockets[socketOf[u]].project = project
    BY <1>1, <1>6 DEF SessionsOK
  <2>3. CASE u = active
    BY <1>9, <1>10, <2>2, <2>3
  <2>4. CASE u # active
    BY <1>7, <1>9, <1>10, <2>1, <2>2, <2>4
  <2> QED BY <2>3, <2>4
<1>12. SessionsOK'
  <2>1. active' \in ToSet(tabs') \/ (active' = 0 /\ tabs' = <<>>)
    BY <1>1, <1>4 DEF SessionsOK
  <2>2. Keyed(tabs', 1..MaxTabs) /\ tabCounter' \in Nat /\ project' \in Projects
    BY <1>1, <1>4 DEF SessionsOK
  <2>3. \A u \in ToSet(tabs') :
          u <= tabCounter' /\ socketOf'[u] \in DOMAIN sockets' /\ sockets'[socketOf'[u]].project = project'
    BY <1>4, <1>11
  <2> QED BY <1>9, <1>10, <2>1, <2>2, <2>3 DEF SessionsOK
<1>13. SocketComing'
  BY <1>9 DEF SocketComing
<1> QED BY <1>5, <1>12, <1>13 DEF TerminalInv, NothingStranded, SocketComing

\* What was sent stays at home when more is sent from the project that is shown.
LEMMA SentAtHome ==
  ASSUME RanHome, NEW c, \A i \in DOMAIN ran' : FromOr(ran'[i], ran, c, project),
         carried' = carried, \A i \in DOMAIN ran : issued'[ran[i][1]] = issued[ran[i][1]],
         \A x \in ToSet(c) : x \in carried.commands \/ issued'[x] = project
  PROVE  RanHome'
<1>1. ASSUME NEW i \in DOMAIN ran'
      PROVE  ran'[i][1] \in carried'.commands \/ ran'[i][2] = issued'[ran'[i][1]]
  <2>1. FromOr(ran'[i], ran, c, project)
    OBVIOUS
  <2>2. CASE \E j \in DOMAIN ran : ran'[i] = ran[j]
    BY <2>2 DEF RanHome
  <2>3. CASE \E x \in ToSet(c) : ran'[i] = <<x, project>>
    <3>1. PICK x \in ToSet(c) : ran'[i] = <<x, project>>
      BY <2>3
    <3> QED BY <3>1
  <2> QED BY <2>1, <2>2, <2>3 DEF FromOr
<1> QED BY <1>1 DEF RanHome

LEMMA RunsCommand ==
  ASSUME TerminalInv, RunCommand PROVE TerminalInv'
<1>1. SessionsOK /\ HomeOK /\ RanHome /\ WrittenHome /\ NothingStranded /\ QueuesOK
  BY DEF TerminalInv
<1>2. PICK n : n = Len(issued) + 1
  OBVIOUS
<1>3. PICK c : c = <<n>>
  OBVIOUS
<1>4. /\ issued' = Append(issued, project) /\ Dispatch(c, pendingCommands, timers)
      /\ project' = project /\ carried' = carried /\ UNCHANGED fileVars /\ lostAt' = lostAt
  BY <1>2, <1>3 DEF RunCommand, Issue, cutVars
<1>5. project \in Projects
  BY <1>1 DEF SessionsOK
<1>6. /\ issued' \in Seq(Projects) /\ DOMAIN issued' = DOMAIN issued \cup {n}
      /\ n \notin DOMAIN issued /\ issued'[n] = project
      /\ \A d \in DOMAIN issued : issued'[d] = issued[d]
      /\ Keyed(c, Nat) /\ ToSet(c) = {n} /\ c # <<>>
  BY <1>1, <1>2, <1>3, <1>4, <1>5, CommandGiven
<1>7. Dispatch(c, pendingCommands, timers)
  BY <1>4
<1>8. QueueInv(pendingCommands, timers, ran, DOMAIN issued) /\ ToSet(c) \cap DOMAIN issued = {}
  BY <1>1, <1>6 DEF QueuesOK
<1>9. /\ SessionsOK' /\ timers' = timers
      /\ QueueInv(pendingCommands', timers, ran', DOMAIN issued \cup ToSet(c))
      /\ \/ /\ pendingCommands' = pendingCommands /\ UNCHANGED <<active, sockets>>
            /\ \A i \in DOMAIN ran' : FromOr(ran'[i], ran, c, project)
         \/ /\ ToSet(pendingCommands') = ToSet(pendingCommands) \cup ToSet(c)
            /\ ran' = ran /\ (active' # 0 => SocketComing')
  <2>1. project' = project
    BY <1>4
  <2> QED BY <1>1, <1>6, <1>7, <1>8, <2>1, CommandsDispatched
<1>10. QueuesOK'
  BY <1>6, <1>9 DEF QueuesOK
<1>11. /\ Waiting \subseteq DOMAIN issued /\ ToSet(pendingCommands) \subseteq Waiting
       /\ \A i \in DOMAIN ran : ran[i][1] \in DOMAIN issued
  BY <1>1, WaitingGiven
<1>12. Waiting' \subseteq Waiting \cup {n}
  BY <1>6, <1>9 DEF Waiting
<1>13. project' = project /\ carried' = carried /\ pendingSync' = pendingSync /\ written' = written
       /\ lostAt' = lostAt
  BY <1>4 DEF fileVars
<1>14. HomeOK' /\ WrittenHome'
  BY <1>1, <1>6, <1>11, <1>12, <1>13 DEF HomeOK, WrittenHome
<1>15. RanHome'
  <2>1. CASE \A i \in DOMAIN ran' : FromOr(ran'[i], ran, c, project)
    BY <1>1, <1>6, <1>11, <1>13, <2>1, SentAtHome
  <2>2. CASE ran' = ran
    BY <1>1, <1>6, <1>11, <1>13, <2>2 DEF RanHome
  <2> QED BY <1>9, <2>1, <2>2
<1>16. NothingStranded'
  BY <1>1, <1>9, <1>13 DEF NothingStranded, SocketComing
<1> QED BY <1>9, <1>10, <1>14, <1>15, <1>16 DEF TerminalInv

LEMMA RunsProfile ==
  ASSUME TerminalInv, RunProfile PROVE TerminalInv'
<1>1. SessionsOK /\ HomeOK /\ RanHome /\ WrittenHome /\ NothingStranded /\ QueuesOK
  BY DEF TerminalInv
<1>2. PICK n : n = Len(issued) + 1
  OBVIOUS
<1>3. PICK c : c = <<n>>
  OBVIOUS
<1>5. /\ issued' = Append(issued, project) /\ timers' = timers \cup {c}
      /\ \/ CreateTab(tabs, project, TRUE)
         \/ /\ \E i \in DOMAIN tabs : active' = tabs[i]
            /\ UNCHANGED <<tabs, tabCounter, socketOf, sockets>>
      /\ UNCHANGED <<project, pendingCommands, ran, carried, lostAt, pendingSync, written>>
  BY <1>2, <1>3 DEF RunProfile, Issue, cutVars, fileVars
<1>6. project \in Projects /\ Keyed(tabs, 1..MaxTabs)
  BY <1>1 DEF SessionsOK
<1>7. /\ issued' \in Seq(Projects) /\ DOMAIN issued' = DOMAIN issued \cup {n}
      /\ n \notin DOMAIN issued /\ issued'[n] = project
      /\ \A d \in DOMAIN issued : issued'[d] = issued[d]
      /\ Keyed(c, Nat) /\ ToSet(c) = {n} /\ c # <<>>
  BY <1>1, <1>2, <1>3, <1>5, <1>6, CommandGiven
<1>8. QueuesOK'
  <2>1. QueueInv(pendingCommands, timers, ran, DOMAIN issued) /\ ToSet(c) \cap DOMAIN issued = {}
    BY <1>1, <1>7 DEF QueuesOK
  <2>2. QueueInv(pendingCommands, timers \cup {c}, ran, DOMAIN issued \cup ToSet(c))
    BY <1>7, <2>1, TimerSet
  <2> QED BY <1>5, <1>7, <2>2 DEF QueuesOK
<1>9. /\ Waiting \subseteq DOMAIN issued /\ ToSet(pendingCommands) \subseteq Waiting
      /\ \A k \in DOMAIN ran : ran[k][1] \in DOMAIN issued
  BY <1>1, WaitingGiven
<1>10. Waiting' = Waiting \cup {n}
  BY <1>5, <1>7 DEF Waiting
<1>11. HomeOK' /\ WrittenHome' /\ RanHome'
  BY <1>1, <1>5, <1>7, <1>9, <1>10 DEF HomeOK, WrittenHome, RanHome
<1>12. CASE CreateTab(tabs, project, TRUE)
  <2>1. SessionsOK' /\ SocketComing'
    BY <1>1, <1>5, <1>6, <1>12, TabCreated
  <2> QED BY <1>8, <1>11, <2>1 DEF TerminalInv, NothingStranded, SocketComing
<1>13. CASE /\ \E i \in DOMAIN tabs : active' = tabs[i]
            /\ UNCHANGED <<tabs, tabCounter, socketOf, sockets>>
  <2>1. active' \in ToSet(tabs) /\ UNCHANGED <<tabs, tabCounter, socketOf, sockets, project>>
    BY <1>5, <1>13 DEF ToSet
  <2>2. SessionsOK'
    BY <1>1, <2>1 DEF SessionsOK
  <2>3. active # 0
    BY <1>1, <2>1, TabNumber
  <2>4. NothingStranded'
    BY <1>1, <1>5, <2>1, <2>3 DEF NothingStranded
  <2> QED BY <1>8, <1>11, <2>2, <2>4 DEF TerminalInv
<1> QED BY <1>5, <1>12, <1>13

LEMMA TimerGoesOff ==
  ASSUME TerminalInv, NEW c \in timers, TimerFires(c) PROVE TerminalInv'
<1>1. SessionsOK /\ HomeOK /\ RanHome /\ WrittenHome /\ NothingStranded /\ QueuesOK
  BY DEF TerminalInv
<1>2. /\ Dispatch(c, pendingCommands, timers \ {c}) /\ project' = project /\ issued' = issued
      /\ UNCHANGED <<carried, lostAt, pendingSync, written>>
  BY DEF TimerFires, fileVars, cutVars
<1>3. PICK C : C = DOMAIN issued \ ToSet(c)
  OBVIOUS
<1>4. /\ QueueInv(pendingCommands, timers \ {c}, ran, C)
      /\ Keyed(c, Nat) /\ c # <<>> /\ ToSet(c) \subseteq DOMAIN issued
  BY <1>1, <1>3, TimerTaken DEF QueuesOK
<1>5. ToSet(c) \cap C = {} /\ C \cup ToSet(c) = DOMAIN issued
  BY <1>3, <1>4
<1>6. /\ SessionsOK' /\ timers' = timers \ {c}
      /\ QueueInv(pendingCommands', timers \ {c}, ran', C \cup ToSet(c))
      /\ \/ /\ pendingCommands' = pendingCommands /\ UNCHANGED <<active, sockets>>
            /\ \A i \in DOMAIN ran' : FromOr(ran'[i], ran, c, project)
         \/ /\ ToSet(pendingCommands') = ToSet(pendingCommands) \cup ToSet(c)
            /\ ran' = ran /\ (active' # 0 => SocketComing')
  <2>1. Dispatch(c, pendingCommands, timers \ {c}) /\ project' = project
    BY <1>2
  <2> QED BY <1>1, <1>4, <1>5, <2>1, CommandsDispatched
<1>7. QueuesOK'
  BY <1>2, <1>5, <1>6 DEF QueuesOK
<1>8. ToSet(c) \subseteq Waiting
  BY <1>1, WaitingGiven
<1>9. Waiting' \subseteq Waiting
  BY <1>6, <1>8 DEF Waiting
<1>10. HomeOK' /\ WrittenHome'
  BY <1>1, <1>2, <1>9 DEF HomeOK, WrittenHome
<1>11. RanHome'
  <2>1. CASE \A i \in DOMAIN ran' : FromOr(ran'[i], ran, c, project)
    <3>1. \A x \in ToSet(c) : x \in carried.commands \/ issued'[x] = project
      BY <1>1, <1>2, <1>8 DEF HomeOK
    <3> QED BY <1>1, <1>2, <2>1, <3>1, SentAtHome
  <2>2. CASE ran' = ran
    BY <1>1, <1>2, <2>2 DEF RanHome
  <2> QED BY <1>6, <2>1, <2>2
<1>12. NothingStranded'
  BY <1>1, <1>2, <1>6 DEF NothingStranded, SocketComing
<1> QED BY <1>6, <1>7, <1>10, <1>11, <1>12 DEF TerminalInv

LEMMA SyncsFiles ==
  ASSUME TerminalInv, SyncFiles PROVE TerminalInv'
<1>1. SessionsOK /\ HomeOK /\ RanHome /\ WrittenHome /\ NothingStranded /\ QueuesOK
  BY DEF TerminalInv
<1>2. /\ SyncTo({project}, ActiveOpen, pendingSync) /\ project' = project /\ carried' = carried
      /\ UNCHANGED tabVars /\ UNCHANGED queueVars /\ lostAt' = lostAt
  BY DEF SyncFiles, cutVars
<1>3. WrittenHome' /\ pendingSync' \subseteq carried'.files \cup {project'}
  <2>1. ActiveOpen \in BOOLEAN /\ (ActiveOpen => active # 0)
    BY DEF ActiveOpen, SocketIs
  <2>2. pendingSync \subseteq carried.files \cup {project}
    BY <1>1 DEF HomeOK
  <2> QED BY <1>1, <1>2, <2>1, <2>2, FilesWritten
<1>4. Waiting' = Waiting /\ QueuesOK' /\ RanHome'
  BY <1>1, <1>2 DEF Waiting, QueuesOK, RanHome, queueVars
<1>5. HomeOK'
  BY <1>1, <1>2, <1>3, <1>4 DEF HomeOK, queueVars
<1>6. SessionsOK' /\ NothingStranded'
  BY <1>1, <1>2 DEF SessionsOK, NothingStranded, tabVars, queueVars
<1> QED BY <1>3, <1>4, <1>5, <1>6 DEF TerminalInv

LEMMA Opens ==
  ASSUME TerminalInv, NEW s \in DOMAIN sockets, OnOpen(s) PROVE TerminalInv'
<1>1. SessionsOK /\ HomeOK /\ RanHome /\ WrittenHome /\ NothingStranded /\ QueuesOK
  BY DEF TerminalInv
<1>2. PICK isOpen : isOpen = (ActiveOpen \/ (active # 0 /\ socketOf[active] = s))
  OBVIOUS
<1>3. /\ sockets' = [sockets EXCEPT ![s].state = "open"]
      /\ SyncTo(pendingSync, isOpen, {}) /\ pendingCommands' = <<>>
      /\ timers' = IF pendingCommands = <<>> THEN timers ELSE timers \cup {pendingCommands}
      /\ UNCHANGED <<project, tabs, tabCounter, active, socketOf, issued, ran, carried>>
  BY <1>2 DEF OnOpen, Opened
<1>4. SessionsOK'
  BY <1>1, <1>3, StateChanges
<1>5. WrittenHome' /\ pendingSync' \subseteq carried'.files \cup {project'}
  <2>1. isOpen \in BOOLEAN /\ (isOpen => active # 0)
    BY <1>2 DEF ActiveOpen, SocketIs
  <2>2. pendingSync \subseteq carried.files \cup {project}
    BY <1>1 DEF HomeOK
  <2> QED BY <1>1, <1>3, <2>1, <2>2, FilesWritten
<1>6. PICK C : C = DOMAIN issued \ ToSet(pendingCommands)
  OBVIOUS
<1>7. /\ QueueInv(<<>>, timers, ran, C)
      /\ Keyed(pendingCommands, Nat) /\ ToSet(pendingCommands) \subseteq DOMAIN issued
  BY <1>1, <1>6, QueueTaken DEF QueuesOK
<1>8. QueuesOK' /\ Waiting' = Waiting
  <2>1. CASE pendingCommands = <<>>
    BY <1>1, <1>3, <2>1 DEF QueuesOK, Waiting
  <2>2. CASE pendingCommands # <<>>
    <3>1. ToSet(pendingCommands) \cap C = {} /\ C \cup ToSet(pendingCommands) = DOMAIN issued
      BY <1>6, <1>7
    <3>2. QueueInv(<<>>, timers \cup {pendingCommands}, ran, C \cup ToSet(pendingCommands))
      BY <1>7, <2>2, <3>1, TimerSet
    <3>3. QueuesOK'
      BY <1>3, <2>2, <3>1, <3>2 DEF QueuesOK
    <3>4. Waiting' = Waiting
      BY <1>3, <2>2, NoTab DEF Waiting
    <3> QED BY <3>3, <3>4
  <2> QED BY <2>1, <2>2
<1>9. HomeOK' /\ RanHome'
  BY <1>1, <1>3, <1>5, <1>8 DEF HomeOK, RanHome
<1>10. NothingStranded'
  BY <1>3, NoTab DEF NothingStranded
<1> QED BY <1>4, <1>5, <1>8, <1>9, <1>10 DEF TerminalInv

LEMMA Closes ==
  ASSUME TerminalInv, NEW s \in DOMAIN sockets, OnClose(s) PROVE TerminalInv'
<1>1. SessionsOK /\ HomeOK /\ RanHome /\ WrittenHome /\ NothingStranded /\ QueuesOK
  BY DEF TerminalInv
<1>2. /\ Cut /\ sockets' = [sockets EXCEPT ![s].state = "closed"]
      /\ UNCHANGED <<project, tabs, tabCounter, active, socketOf, carried>>
      /\ UNCHANGED queueVars /\ UNCHANGED fileVars
  BY DEF OnClose
<1>3. SessionsOK'
  BY <1>1, <1>2, StateChanges
<1>4. HomeOK' /\ RanHome' /\ WrittenHome' /\ QueuesOK'
  BY <1>1, <1>2, CommandsStay
<1>5. NothingStranded'
  BY <1>1, <1>2, NoneSinceCut
<1> QED BY <1>3, <1>4, <1>5 DEF TerminalInv

LEMMA TerminalStarts == TerminalInit => TerminalInv
<1> SUFFICES ASSUME TerminalInit PROVE TerminalInv
  OBVIOUS
<1>1. project \in Projects
  BY TerminalAssumption DEF TerminalInit
<1>2. \A S : Keyed(<<>>, S) /\ <<>> \in Seq(S)
  BY DEF Keyed
<1>3. ToSet(<<>>) = {} /\ Sent(<<>>) = {} /\ SentOnce(<<>>) /\ DOMAIN <<>> = {}
  BY DEF ToSet, Sent, SentOnce
<1>4. /\ active = 0 /\ tabs = <<>> /\ tabCounter = 0 /\ sockets = <<>>
      /\ socketOf = [t \in 1..MaxTabs |-> 0] /\ pendingCommands = <<>> /\ pendingSync = {}
      /\ timers = {} /\ issued = <<>> /\ ran = <<>> /\ written = {}
  BY DEF TerminalInit
<1>5. SessionsOK
  <2>1. socketOf \in [1..MaxTabs -> Nat]
    BY <1>4
  <2> QED BY <1>1, <1>2, <1>3, <1>4, <2>1 DEF SessionsOK
<1>6. Waiting = {}
  BY <1>3, <1>4 DEF Waiting
<1>7. HomeOK /\ RanHome /\ WrittenHome /\ NothingStranded
  BY <1>2, <1>3, <1>4, <1>6 DEF HomeOK, RanHome, WrittenHome, NothingStranded
<1>8. QueuesOK
  BY <1>2, <1>3, <1>4 DEF QueuesOK, QueueInv
<1> QED BY <1>5, <1>7, <1>8 DEF TerminalInv

LEMMA TerminalNextKeeps ==
  ASSUME TerminalInv, [TerminalNext]_terminalVars PROVE TerminalInv'
<1>1. ASSUME NEW p \in Projects, AttachToElement(p) \/ SetProject(p) PROVE TerminalInv'
  BY <1>1, Attaches, MovesOn
<1>2. ASSUME NEW t \in 1..MaxTabs, SwitchTab(t) \/ CloseTab(t) PROVE TerminalInv'
  BY <1>2, Switches, ClosesTab
<1>3. CASE NewTab \/ Restart \/ RunCommand \/ RunProfile \/ SyncFiles
  BY <1>3, OpensTab, Restarts, RunsCommand, RunsProfile, SyncsFiles
<1>4. ASSUME NEW cmds \in timers, TimerFires(cmds) PROVE TerminalInv'
  BY <1>4, TimerGoesOff
<1>5. ASSUME NEW s \in DOMAIN sockets, OnOpen(s) \/ OnClose(s) PROVE TerminalInv'
  BY <1>5, Opens, Closes
<1>6. CASE UNCHANGED terminalVars
  <2>1. /\ UNCHANGED <<project, tabs, tabCounter, active, socketOf, sockets, pendingCommands>>
        /\ UNCHANGED <<pendingSync, timers, issued, ran, written, carried, lostAt>>
    BY <1>6 DEF terminalVars
  <2> QED BY <2>1 DEF TerminalInv, SessionsOK, HomeOK, RanHome, WrittenHome, NothingStranded,
                      QueuesOK, Waiting
<1> QED BY <1>1, <1>2, <1>3, <1>4, <1>5, <1>6 DEF TerminalNext

\* Every command given is in one place, once, and one given since the last cut waits
\* only while a socket is connecting; commands and files go to the project they come from,
\* but for those a change of project carried along: for every number of tabs, sockets,
\* commands and lost connections, in whatever order sockets open, timers fire and projects
\* change (LiveTerminalService, RunConfigService.runProfile).
THEOREM CommandsAlwaysArrive == TerminalSpec => []CommandsArrive
<1>1. TerminalInit => TerminalInv
  BY TerminalStarts
<1>2. TerminalInv /\ [TerminalNext]_terminalVars => TerminalInv'
  BY TerminalNextKeeps
<1>3. TerminalInv => CommandsArrive
  BY OnePlace DEF TerminalInv, CommandsArrive, StaysInProject, RanHome, WrittenHome
<1> QED BY <1>1, <1>2, <1>3, PTL DEF TerminalSpec

================================================================================
