---------------------------- MODULE LibraryPage ----------------------------
(***************************************************************************)
(* The Library page of the viewer front end (pages/Library.jsx): a page of *)
(* one category in one order, fetched again when any of them changes, and  *)
(* the rows "Continue Watching" and "Trending Now".                        *)
(*                                                                         *)
(* The effect that loads a page cancels its predecessor: an answer to a    *)
(* request that is not the latest one is dropped.  The two rows are        *)
(* fetched once per mount.  React keeps the component mounted across "/",  *)
(* "/series" and "/movies", so a change of category keeps page and order.  *)
(***************************************************************************)
EXTENDS ViewerData

CONSTANTS
    Category, Sort,
    Newest,      \* the initial order
    PagesOf      \* PagesOf[c]: pages the catalogue has in category c

ASSUME LibraryAssumption ==
    /\ Newest \in Sort
    /\ PagesOf \in [Category -> Nat \ {0}]

VARIABLES
    lib,         \* the mounted page, or None
    pageLoads,   \* requests for a page of the catalogue in flight
    rowLoads     \* requests for the two rows in flight

libraryVars == <<lib, pageLoads, rowLoads>>

View == [category : Category, sort : Sort, page : Nat]
Trending == None
Row == {Trending} \cup Profile

(* Types; the latest request is the one that is not cancelled.             *)
LibraryTypeOK ==
    /\ \/ lib = None
       \/ lib \in [view : View, pages : Nat, loading : BOOLEAN,
                   shows : View \cup {None}, rows : SUBSET Row, last : Nat,
                   failed : BOOLEAN]
    /\ \A c \in pageLoads : lib # None /\ c.n <= lib.last /\ c.view \in View
    /\ rowLoads \subseteq Row

(* The effect on [category, sort, page, limit].                            *)
Asked(l, v) == [l EXCEPT !.view = v, !.loading = TRUE, !.last = @ + 1]
Load(l, v) ==
    /\ lib' = Asked(l, v)
    /\ pageLoads' = pageLoads \cup {[n |-> l.last + 1, view |-> v]}

Fresh(c) == [view |-> [category |-> c, sort |-> Newest, page |-> 1], pages |-> 0,
             loading |-> FALSE, shows |-> None, rows |-> {}, last |-> 0,
             failed |-> FALSE]

(* The page is mounted, or there from the start, for a category and the    *)
(* active profile.                                                         *)
Mounted(c) == Asked(Fresh(c), Fresh(c).view)
FirstLoad(c) == {[n |-> 1, view |-> Fresh(c).view]}
MountLibrary(c, p) ==
    lib' = Mounted(c) /\ pageLoads' = FirstLoad(c) /\ rowLoads' = {Trending, p}

LibraryInit(c, p) ==
    IF c = None THEN lib = None /\ pageLoads = {} /\ rowLoads = {}
    ELSE lib = Mounted(c) /\ pageLoads = FirstLoad(c) /\ rowLoads = {Trending, p}

UnmountLibrary == lib' = None /\ pageLoads' = {} /\ rowLoads' = {}

(* The route changes the category; page and order stay.  A new user or     *)
(* profile has the rows fetched again.                                     *)
SetCategory(c, again) ==
    /\ IF lib.view.category = c THEN UNCHANGED <<lib, pageLoads>>
       ELSE Load(lib, [lib.view EXCEPT !.category = c])
    /\ rowLoads' = rowLoads \cup again

(* The order menu, and the buttons below the grid, which are there only    *)
(* when the last answer spoke of more than one page.                       *)
SetSort(s) ==
    /\ lib # None /\ s # lib.view.sort
    /\ Load(lib, [lib.view EXCEPT !.sort = s])
    /\ UNCHANGED rowLoads

PreviousPage ==
    /\ lib # None /\ lib.pages > 1 /\ lib.view.page > 1
    /\ Load(lib, [lib.view EXCEPT !.page = @ - 1])
    /\ UNCHANGED rowLoads

NextPage ==
    /\ lib # None /\ lib.pages > 1 /\ lib.view.page < lib.pages
    /\ Load(lib, [lib.view EXCEPT !.page = @ + 1])
    /\ UNCHANGED rowLoads

-----------------------------------------------------------------------------
(* Faulty: without the flag "cancelled".                                   *)
NeverCancelled(c) == FALSE

Cancelled(c) == c.n # lib.last

(* The answer: results beyond the last page are empty, the total is not.   *)
PageArrives(c) ==
    /\ pageLoads' = pageLoads \ {c}
    /\ lib' = IF Cancelled(c) THEN lib
              ELSE [lib EXCEPT !.shows = c.view, !.pages = PagesOf[c.view.category],
                               !.loading = FALSE, !.failed = FALSE]
    /\ UNCHANGED rowLoads

(* Faulty: loading is cleared by an answer only.                           *)
FailsGrey(c) ==
    /\ pageLoads' = pageLoads \ {c}
    /\ lib' = IF Cancelled(c) THEN lib ELSE [lib EXCEPT !.failed = TRUE]
    /\ UNCHANGED rowLoads

(* "Failed to load library": the items shown before stay.                  *)
PageFails(c) ==
    /\ pageLoads' = pageLoads \ {c}
    /\ lib' = IF Cancelled(c) THEN lib
              ELSE [lib EXCEPT !.loading = FALSE, !.failed = TRUE]
    /\ UNCHANGED rowLoads

(* History and titles with their metadata; a failed request is logged.     *)
RowArrives(r) ==
    /\ rowLoads' = rowLoads \ {r}
    /\ lib' \in {lib, [lib EXCEPT !.rows = @ \cup {r}]}
    /\ UNCHANGED pageLoads

LibraryAnswers ==
    \/ \E c \in pageLoads : PageArrives(c) \/ PageFails(c)
    \/ \E r \in rowLoads : RowArrives(r)

-----------------------------------------------------------------------------
(* What the grid shows when it is not loading is the category, order and   *)
(* page that heading, menu and pager name, however fast they were changed, *)
(* unless the last request failed (Library.jsx:85-104).                    *)
LibraryShowsWhatIsAsked ==
    lib # None /\ ~lib.loading /\ ~lib.failed => lib.shows = lib.view

(* The grid does not stay grey: the request that set loading is answered   *)
(* or fails, and only a newer one keeps it from clearing the flag.         *)
LibraryLoads == (lib # None /\ lib.loading) ~> (lib = None \/ ~lib.loading)
=============================================================================
