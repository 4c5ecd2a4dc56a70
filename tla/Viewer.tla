------------------------------- MODULE Viewer -------------------------------
(***************************************************************************)
(* The viewer front end: the routes of App.jsx put together the session,   *)
(* the header with its search bar, the results page, the library page, My  *)
(* List and the cards that three of them show.  A step that changes route  *)
(* or user mounts and unmounts components; a loaded page is a new one.     *)
(***************************************************************************)
EXTENDS Session, Search, LibraryPage, Watchlist

CONSTANTS
    CategoryAt,    \* CategoryAt[r]: the category of a route of the library
    FirstPage      \* FirstPage[c]: titles on page 1 of a category

ASSUME ViewerAssumption ==
    /\ CategoryAt \in [{"home", "series"} -> Category]
    /\ FirstPage \in [Category -> SUBSET Title]

viewerVars == <<sessionVars, searchVars, libraryVars, watchlistVars>>

ViewerTypeOK ==
    SessionTypeOK /\ SearchTypeOK /\ LibraryTypeOK /\ WatchlistTypeOK

(* The cards of the trending row and those of the grid of the page.        *)
OnPage(v) == IF v.page = 1 THEN FirstPage[v.category] ELSE {}
GridCards(shown, found) ==
    IF shown = None \/ shown.loading \/ shown.shows = None THEN {}
    ELSE found \X {"grid"}
Visible(l, r) ==
    (IF l # None /\ Trending \in l.rows THEN Title \X {"row"} ELSE {})
    \cup GridCards(l, OnPage(l.shows))
    \cup GridCards(r, {Hits[r.shows.q][i] : i \in DOMAIN Hits[r.shows.q]})

SyncCards == ShowCards(Visible(lib', results'))

(* The components of the route the step leads to; anew: all of them are    *)
(* new ones.                                                               *)
Follow(anew) ==
    /\ IF route' \notin MainPage THEN UnmountBar
       ELSE IF anew \/ bar = None THEN MountBar
       ELSE UNCHANGED <<bar, lookups>>
    /\ IF route' # "search" THEN LeaveResults
       ELSE IF anew THEN ReloadResults ELSE ShowResults(searchQ)
    /\ IF route' \notin DOMAIN CategoryAt THEN UnmountLibrary
       ELSE IF anew \/ lib = None
       THEN MountLibrary(CategoryAt[route'], auth'.profile)
       ELSE SetCategory(CategoryAt[route'],
                        IF auth' = auth THEN {} ELSE {Trending, auth'.profile})
    /\ IF route' # "mylist" THEN UnmountList
       ELSE IF anew \/ list = None THEN MountList
       ELSE UNCHANGED list
    /\ SyncCards

ViewerInit ==
    /\ SessionInit /\ WatchlistInit
    /\ SearchInit(route \in MainPage)
    /\ LibraryInit(IF route = "home" THEN CategoryAt["home"] ELSE None, auth.profile)

-----------------------------------------------------------------------------
(* Steps of the session and of the other tab.                              *)
Visit(r) == (r = "search" => searchQ # Empty) /\ Navigate(r)

SessionStep ==
    \/ /\ \/ SignInPages \/ Logout
          \/ \E p \in Profile : SelectProfile(p)
          \/ \E r \in MainPage \cup {"profiles", "login", "register"} : Visit(r)
       /\ Follow(FALSE)
    \/ \E r \in MainPage \cup {"profiles", "login", "register"} :
          Reload(r) /\ Follow(TRUE)
    \/ AdminTab /\ UNCHANGED <<searchVars, libraryVars, watchlistVars>>

Elsewhere == UNCHANGED <<browser, server, route, orderly>>

(* handleSearch and handleSelect: the address becomes /search?q=q; a title *)
(* that was selected is put into the field.                                *)
SearchFor(q) ==
    /\ bar # None /\ q \in Chosen \cup Clickable
    /\ Input
    /\ bar' = [WithText(bar, q) EXCEPT !.open = FALSE]
    /\ route' = "search"
    /\ ShowResults(q)
    /\ UnmountLibrary /\ UnmountList
    /\ SyncCards
    /\ UNCHANGED <<browser, server, orderly, lookups>>

SearchInput ==
    /\ \/ \E q \in Query : Type(q)
       \/ HandleField
       \/ \E f \in Filter : PickFilter(f)
    /\ Input
    /\ Elsewhere /\ UNCHANGED <<libraryVars, list>> /\ SyncCards

LibraryInput ==
    /\ (\E s \in Sort : SetSort(s)) \/ PreviousPage \/ NextPage
    /\ Input
    /\ Elsewhere /\ UNCHANGED <<searchVars, list>> /\ SyncCards

HeartInput ==
    /\ \E c \in CardId : ClickHeart(c)
    /\ Input
    /\ Elsewhere /\ UNCHANGED <<searchVars, libraryVars>>

(* Timers and answers.                                                     *)
SearchEvent ==
    /\ Debounce \/ SearchAnswers
    /\ UNCHANGED <<sessionVars, libraryVars, list>> /\ SyncCards

LibraryEvent ==
    /\ LibraryAnswers
    /\ UNCHANGED <<sessionVars, searchVars, list>> /\ SyncCards

WatchlistEvent ==
    /\ WatchlistAnswers(auth.profile)
    /\ UNCHANGED <<sessionVars, searchVars, libraryVars>>

ViewerNext ==
    \/ SessionStep
    \/ \E q \in Query : SearchFor(q)
    \/ SearchInput \/ LibraryInput \/ HeartInput
    \/ SearchEvent \/ LibraryEvent \/ WatchlistEvent

(* A request for a page of the library is answered, or fails.              *)
ViewerSpec ==
    ViewerInit /\ [][ViewerNext]_viewerVars /\ WF_viewerVars(LibraryEvent)
=============================================================================
