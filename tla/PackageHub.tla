------------------------------ MODULE PackageHub ------------------------------
(***************************************************************************)
(* The package panel of the workspace page (PackageManagerService, which   *)
(* the editors share): the search box with its debounced pipe, and the     *)
(* packages marked as being installed or removed.  A query stands for a    *)
(* text with the language it is asked for.  The pipe drops a query equal   *)
(* to the last one it let through, and forgets the request under way when  *)
(* the next query comes.                                                   *)
(***************************************************************************)
EXTENDS Naturals, FiniteSets

CONSTANTS Queries, Blank, Packages, MaxKeys, MaxInstalls

ASSUME HubAssumption == Blank \notin Queries

VARIABLES
  packageBox,  \* packageSearchInput
  debounced,   \* the query that waits for 250 ms of rest, or Blank
  lastPassed,  \* the query distinctUntilChanged let through last, or Blank
  asking,      \* the queries of the requests whose answer will be shown
  found,       \* the query searchResults are of; Blank: they are empty
  spinning,    \* isSearching
  swallowed,   \* was the last query dropped as equal to the one before
  emptied,     \* were the results emptied, by a failing request or an editor
  installing,  \* installingPackages
  removing,    \* uninstallingPackages
  installs,    \* the calls of installPackage and uninstallPackage under way
  twice,       \* packages with two calls under way at once
  keys, calls  \* bounds

hubPanelVars == <<packageBox, debounced, lastPassed, asking, found, spinning,
                  swallowed, emptied, installing, removing, installs, twice, keys, calls>>
pipeVars == <<debounced, lastPassed, asking, swallowed>>
boxVars == <<packageBox, found, spinning, emptied, keys>>
installVars == <<installing, removing, installs, twice, calls>>

HubInit ==
  /\ packageBox = Blank /\ debounced = Blank /\ lastPassed = Blank
  /\ asking = {} /\ found = Blank /\ spinning = FALSE
  /\ swallowed = FALSE /\ emptied = FALSE
  /\ installing = {} /\ removing = {} /\ installs = {} /\ twice = {}
  /\ keys = 0 /\ calls = 0

Key == keys < MaxKeys /\ keys' = keys + 1

(* searchPackagesReactive: an empty query clears the results and does not    *)
(* reach the pipe, so what waits there, or was asked, goes on.               *)
SearchPackagesReactive(q) ==
  IF q = Blank
  THEN found' = Blank /\ spinning' = FALSE /\ UNCHANGED debounced
  ELSE spinning' = TRUE /\ debounced' = q /\ UNCHANGED found

(* onSearchPackageInput.                                                     *)
OnSearchPackageInput(q) ==
  /\ Key /\ packageBox' = q
  /\ SearchPackagesReactive(q)
  /\ UNCHANGED <<lastPassed, asking, swallowed, emptied, installVars>>

(* refreshPackageManagerForCurrentLanguage, of an editor that opens: after   *)
(* its awaits the results are emptied, whatever the page's box holds; for a  *)
(* language without packages isSearching stays as it is.                     *)
RefreshForLanguage ==
  /\ Key /\ emptied' = TRUE
  /\ found' = Blank /\ spinning' \in {spinning, FALSE}
  /\ UNCHANGED <<packageBox, pipeVars, installVars>>

(* distinctUntilChanged, with the requests under way taken over by the new   *)
(* one as switchMap does, or kept.                                           *)
Pass(kept) ==
  /\ debounced # Blank /\ debounced' = Blank
  /\ IF debounced = lastPassed
     THEN swallowed' = TRUE /\ UNCHANGED <<lastPassed, asking>>
     ELSE /\ lastPassed' = debounced /\ asking' = kept \cup {debounced}
          /\ swallowed' = FALSE
  /\ UNCHANGED <<boxVars, installVars>>

(* The pipe with mergeMap in the place of switchMap.                         *)
PipeMerges == Pass(asking)

(* The pipe of the constructor once the query has rested.                    *)
PipeFires == Pass({})

(* The subscriber of the pipe shows what it gets.                            *)
Shows(results) ==
  found' = results /\ emptied' = (results = Blank) /\ spinning' = FALSE

(* executeSearch returns: a failing request counts as no result.             *)
ExecuteSearch(q) ==
  /\ q \in asking /\ asking' = asking \ {q}
  /\ Shows(q) \/ Shows(Blank)
  /\ UNCHANGED <<packageBox, debounced, lastPassed, swallowed, installVars, keys>>

-----------------------------------------------------------------------------
Call(p, removes) == [nr |-> calls + 1, package |-> p, removes |-> removes, step |-> "posted"]
Begins(c) ==
  /\ calls < MaxInstalls /\ calls' = calls + 1
  /\ installs' = installs \cup {c}
  /\ twice' = twice \cup {d.package : d \in {d \in installs :
                            d.package = c.package /\ d.removes = c.removes}}

(* installTargetPackage, installPackage up to its request.                   *)
InstallPackage(p) ==
  /\ Begins(Call(p, FALSE)) /\ installing' = installing \cup {p}
  /\ UNCHANGED <<boxVars, pipeVars, removing>>

(* uninstallTargetPackage, uninstallPackage up to its request.               *)
UninstallPackage(p) ==
  /\ Begins(Call(p, TRUE)) /\ removing' = removing \cup {p}
  /\ UNCHANGED <<boxVars, pipeVars, installing>>

(* The request succeeded: fetchInstalledPackages is awaited before the       *)
(* "finally" of the call.                                                    *)
FetchInstalledPackages(c) ==
  /\ c.step = "posted"
  /\ installs' = (installs \ {c}) \cup {[c EXCEPT !.step = "listing"]}
  /\ UNCHANGED <<boxVars, pipeVars, installing, removing, twice, calls>>

(* The "finally", after a failed request or the list, with the marks left to *)
(* installations and to removals.                                            *)
Ends(c, left, leftRemoving) ==
  /\ installs' = installs \ {c}
  /\ installing' = left /\ removing' = leftRemoving
  /\ UNCHANGED <<boxVars, pipeVars, twice, calls>>

(* A "finally" that resets the marks instead of removing one.                *)
FinallyForgetsAll(c) ==
  Ends(c, IF c.removes THEN installing ELSE {}, IF c.removes THEN {} ELSE removing)

(* The set of marks is read again after the awaits and loses this package,   *)
(* even if a second call for it is under way.                                *)
Finally(c) ==
  Ends(c, IF c.removes THEN installing ELSE installing \ {c.package},
          IF c.removes THEN removing \ {c.package} ELSE removing)

HubNext ==
  \/ \E q \in Queries \cup {Blank} : OnSearchPackageInput(q)
  \/ RefreshForLanguage \/ PipeFires
  \/ \E q \in asking : ExecuteSearch(q)
  \/ \E p \in Packages : InstallPackage(p) \/ UninstallPackage(p)
  \/ \E c \in installs : FetchInstalledPackages(c) \/ Finally(c)

HubSpec == HubInit /\ [][HubNext]_hubPanelVars

-----------------------------------------------------------------------------
HubTypeOK ==
  /\ {packageBox, debounced, lastPassed, found} \subseteq Queries \cup {Blank}
  /\ asking \subseteq Queries
  /\ {spinning, swallowed, emptied} \subseteq BOOLEAN
  /\ installing \cup removing \cup twice \subseteq Packages
  /\ keys \in Nat /\ calls \in Nat
  /\ \A c \in installs :
       c \in [nr : 1..calls, package : Packages, removes : BOOLEAN,
              step : {"posted", "listing"}]

Marked(removes) == {c.package : c \in {c \in installs : c.removes = removes}}

(* When no query waits or is asked, the results are those of the text in the *)
(* box and the spinner is gone: an answer never covers that of a later       *)
(* query.  Not so for an empty box, under which a late answer may appear,    *)
(* after results were emptied by a failing request or by an editor that      *)
(* opened, and for a query dropped because it was also the one before, whose *)
(* spinner stays (the pipe, searchPackagesReactive).                         *)
(* A package is marked exactly while a call for it is under way, but for one *)
(* with two calls at once (the "finally" of installPackage).                 *)
PanelSettles ==
  /\ (debounced = Blank /\ asking = {}) =>
       \/ packageBox = Blank \/ swallowed \/ emptied
       \/ found = packageBox /\ ~spinning
  /\ installing \subseteq Marked(FALSE) /\ Marked(FALSE) \subseteq installing \cup twice
  /\ removing \subseteq Marked(TRUE) /\ Marked(TRUE) \subseteq removing \cup twice
=============================================================================
