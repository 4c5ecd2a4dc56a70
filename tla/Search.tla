------------------------------- MODULE Search -------------------------------
(***************************************************************************)
(* Searching in the viewer front end: the SearchBar of the header, with    *)
(* its debounce timer and its list of suggestions, and the SearchResults   *)
(* page, both fed by GET /media/search.                                    *)
(*                                                                         *)
(* Neither component cancels a request: answers come in any order, to a    *)
(* component that may by then want another one.  Requests are numbered in  *)
(* the order they are sent.  A component that is not mounted is None, and  *)
(* an answer to it changes nothing.                                        *)
(***************************************************************************)
EXTENDS ViewerData

CONSTANTS
    Query,       \* what can stand in the search field, titles among them
    Empty,       \* the empty query
    Short,       \* queries of less than two characters, Empty among them
    Hits,        \* Hits[q]: the titles /media/search answers
    Filter, All  \* the category filter of the results page; All: no filter

ASSUME SearchAssumption ==
    /\ Short \subseteq Query /\ Empty \in Short /\ Title \subseteq Query \ Short
    /\ Hits \in [Query -> Seq(Title)]
    /\ All \in Filter /\ None \notin Query \cup Filter

VARIABLES
    bar,       \* the mounted SearchBar, or None
    lookups,   \* its requests in flight
    results,   \* the mounted SearchResults, or None
    searches,  \* its requests in flight
    searchQ    \* the parameter q of the address

searchVars == <<bar, lookups, results, searches, searchQ>>

Bar == [query : Query, due : BOOLEAN, suggestions : Seq(Title),
        open : BOOLEAN, index : Int, spinner : BOOLEAN,
        last : Nat, seen : Nat, overtaken : BOOLEAN]
Results == [filter : Filter, loading : BOOLEAN,
            shows : [q : Query, filter : Filter] \cup {None},
            last : Nat, seen : Nat, overtaken : BOOLEAN]

(* A component that is not mounted is none that is.                        *)
ASSUME ResultsAssumption == None \notin Results

(* Types; last and seen number the latest request sent and answered.       *)
SearchTypeOK ==
    /\ bar = None \/ (bar \in Bar /\ bar.seen <= bar.last)
    /\ results = None \/ (results \in Results /\ results.seen <= results.last)
    /\ \A c \in lookups : c.n \in Nat /\ c.q \in Query
    /\ \A c \in searches : c.n \in Nat /\ c.q \in Query /\ c.filter \in Filter
    /\ searchQ \in Query

NewBar == [query |-> Empty, due |-> FALSE, suggestions |-> <<>>, open |-> FALSE,
           index |-> -1, spinner |-> FALSE, last |-> 0, seen |-> 0,
           overtaken |-> FALSE]

SearchInit(header) ==
    /\ bar = (IF header THEN NewBar ELSE None) /\ lookups = {}
    /\ results = None /\ searches = {}
    /\ searchQ = Empty

(* The header mounts a new SearchBar, or unmounts it.                      *)
MountBar == bar' = NewBar /\ lookups' = {}
UnmountBar == bar' = None /\ lookups' = {}

-----------------------------------------------------------------------------
(* Faulty: no timer is started while an answer is awaited.                 *)
WithIdleText(b, q) ==
    IF q = b.query THEN b
    ELSE IF q \in Short
    THEN [b EXCEPT !.query = q, !.due = FALSE, !.suggestions = <<>>, !.open = FALSE]
    ELSE [b EXCEPT !.query = q, !.due = ~b.spinner]

(* setQuery and the effect on [query]: the old timer is cleared; a short   *)
(* text clears the suggestions, another one starts a timer of 300 ms.      *)
WithText(b, q) ==
    IF q = b.query THEN b
    ELSE IF q \in Short
    THEN [b EXCEPT !.query = q, !.due = FALSE, !.suggestions = <<>>, !.open = FALSE]
    ELSE [b EXCEPT !.query = q, !.due = TRUE]

Type(q) ==
    /\ bar # None /\ q # bar.query
    /\ bar' = WithText(bar, q)
    /\ UNCHANGED <<lookups, results, searches, searchQ>>

(* The timer fires: a request for five suggestions.                        *)
Debounce ==
    /\ bar # None /\ bar.due
    /\ bar' = [bar EXCEPT !.due = FALSE, !.spinner = TRUE, !.last = @ + 1]
    /\ lookups' = lookups \cup {[n |-> bar.last + 1, q |-> bar.query]}
    /\ UNCHANGED <<results, searches, searchQ>>

(* What an answer to c does to the bookkeeping of a component: overtaken,  *)
(* when the answer to a later request has been shown before.               *)
Seen(x, c) == [x EXCEPT !.overtaken = @ \/ c.n < x.seen,
                        !.seen = IF c.n > @ THEN c.n ELSE @]

(* The answer replaces the suggestions and opens the list, whatever the    *)
(* field contains by now.                                                  *)
Suggest(c) ==
    /\ lookups' = lookups \ {c}
    /\ bar' = [Seen(bar, c) EXCEPT !.suggestions = Hits[c.q], !.open = TRUE,
                                   !.spinner = FALSE]
    /\ UNCHANGED <<results, searches, searchQ>>

(* "Search failed": no suggestions, and the spinner stops.                 *)
SuggestFails(c) ==
    /\ lookups' = lookups \ {c}
    /\ bar' = [Seen(bar, c) EXCEPT !.suggestions = <<>>, !.spinner = FALSE,
                                   !.overtaken = TRUE]
    /\ UNCHANGED <<results, searches, searchQ>>

ListShown == bar.open /\ bar.suggestions # <<>>

(* Focus, a click elsewhere, Escape.                                       *)
Focus == bar.query \notin Short /\ ~bar.open /\ bar' = [bar EXCEPT !.open = TRUE]
Dismiss == bar.open /\ bar' = [bar EXCEPT !.open = FALSE]

(* The arrow keys move within the present suggestions, shown or not; the   *)
(* index may be one of earlier suggestions.                                *)
Down == IF bar.index + 1 < Len(bar.suggestions) THEN bar.index + 1
        ELSE Len(bar.suggestions) - 1
Up == IF bar.index > 0 THEN bar.index - 1 ELSE -1
Arrow == \E i \in {Down, Up} \ {bar.index} : bar' = [bar EXCEPT !.index = i]

HandleField ==
    /\ bar # None
    /\ Focus \/ Dismiss \/ Arrow
    /\ UNCHANGED <<lookups, results, searches, searchQ>>

(* What Enter, a click on a suggestion and "See all results" search for,   *)
(* and what the field contains afterwards.                                 *)
Chosen ==
    IF bar.index >= 0 /\ bar.index < Len(bar.suggestions)
    THEN {bar.suggestions[bar.index + 1]}
    ELSE {bar.query} \ {Empty}
Clickable ==
    IF ListShown
    THEN {bar.suggestions[i] : i \in DOMAIN bar.suggestions} \cup {bar.query}
    ELSE {}

-----------------------------------------------------------------------------
Ask(r, q) == [n |-> r.last + 1, q |-> q, filter |-> r.filter]
Asking(r) == [r EXCEPT !.loading = TRUE, !.last = @ + 1]
NewResults == [filter |-> All, loading |-> TRUE, shows |-> None, last |-> 0,
               seen |-> 0, overtaken |-> FALSE]

(* SearchResults at the address ?q=q: loading is TRUE from the start, and  *)
(* without a query nothing is asked.                                       *)
ShowResults(q) ==
    /\ searchQ' = q
    /\ LET r == IF results = None THEN NewResults ELSE results
           again == results # None /\ searchQ = q IN
       IF q = Empty \/ again
       THEN results' = r /\ UNCHANGED searches
       ELSE results' = Asking(r) /\ searches' = searches \cup {Ask(r, q)}

(* The page is loaded anew, with the address as it is.                     *)
ReloadResults ==
    /\ UNCHANGED searchQ
    /\ IF searchQ = Empty THEN results' = NewResults /\ searches' = {}
       ELSE results' = Asking(NewResults) /\ searches' = {Ask(NewResults, searchQ)}

LeaveResults == results' = None /\ searches' = {} /\ UNCHANGED searchQ

(* A filter button; the buttons are hidden while the page is loading.      *)
PickFilter(f) ==
    /\ results # None /\ ~results.loading /\ results.filter # f
    /\ LET r == [results EXCEPT !.filter = f] IN
       IF searchQ = Empty THEN results' = r /\ UNCHANGED searches
       ELSE results' = Asking(r) /\ searches' = searches \cup {Ask(r, searchQ)}
    /\ UNCHANGED <<bar, lookups, searchQ>>

(* Faulty: the effect of a change of filter still asks for everything.     *)
ShowUnfiltered(c) ==
    /\ searches' = searches \ {c}
    /\ results' = [Seen(results, c) EXCEPT !.loading = FALSE,
                      !.shows = [q |-> c.q, filter |-> All]]
    /\ UNCHANGED <<bar, lookups, searchQ>>

ShowAnswer(c) ==
    /\ searches' = searches \ {c}
    /\ results' = [Seen(results, c) EXCEPT !.loading = FALSE,
                      !.shows = [q |-> c.q, filter |-> c.filter]]
    /\ UNCHANGED <<bar, lookups, searchQ>>

(* An outage is shown as "No results found".                               *)
SearchFails(c) ==
    /\ searches' = searches \ {c}
    /\ results' = [Seen(results, c) EXCEPT !.loading = FALSE, !.shows = None,
                      !.overtaken = TRUE]
    /\ UNCHANGED <<bar, lookups, searchQ>>

SearchAnswers ==
    \/ \E c \in lookups : Suggest(c) \/ SuggestFails(c)
    \/ \E c \in searches : ShowAnswer(c) \/ SearchFails(c)

-----------------------------------------------------------------------------
(* Once the timer has fired and every request is answered, the suggestions *)
(* are those of the text in the field, unless an answer was overtaken by a *)
(* later one or failed (SearchBar.jsx:16-38 cancels the timer only).       *)
SuggestionsMatch ==
    bar # None /\ ~bar.due /\ lookups = {} /\ bar.query \notin Short
        /\ ~bar.overtaken => bar.suggestions = Hits[bar.query]

(* The results page shows the results of the query in the address and of   *)
(* the filter chosen, under the same condition (SearchResults.jsx:15-38).  *)
ResultsMatch ==
    results # None /\ searches = {} /\ searchQ # Empty /\ ~results.overtaken =>
        results.shows = [q |-> searchQ, filter |-> results.filter]
=============================================================================
