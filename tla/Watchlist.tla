----------------------------- MODULE Watchlist -----------------------------
(***************************************************************************)
(* The heart on a title card and the My List page (MediaCard.jsx,          *)
(* MyList.jsx), with the watchlist handlers of user-service                *)
(* (handler/user.go) and its table.                                        *)
(*                                                                         *)
(* A card names the user in its requests and never the profile: an add is  *)
(* stored under profile 0, a delete deletes there, and the check a card    *)
(* makes when it is mounted is refused.  The page asks for the rows of the *)
(* active profile.  A title may have several cards on one page.            *)
(***************************************************************************)
EXTENDS ViewerData

CONSTANTS
    Zero,            \* profile id 0, which no profile has
    Place,           \* where on a page a title has a card
    MaxRows          \* bound on rows of one title

CardId == Title \X Place
Card == [filled : BOOLEAN, busy : BOOLEAN]

ASSUME WatchlistAssumption ==
    /\ Zero \notin Profile /\ MaxRows \in Nat
    /\ None \notin CardId \cup Card

VARIABLES
    cards,     \* cards[c]: heart and disabled flag of a mounted card, or None
    requests,  \* POST and DELETE /user/watchlist in flight or in service
    rows,      \* rows[p][t]: rows of profile p and title t in the database
    list,      \* the mounted My List page, or None
    hearted,   \* history: profile and title of acknowledged adds, undeleted
    solo,      \* history: cards whose click was the last one on their title,
               \* with no other request about it under way, and not lost
    clicks     \* number of clicks on hearts

watchlistVars == <<cards, requests, rows, list, hearted, solo, clicks>>

NewCard == [filled |-> FALSE, busy |-> FALSE]
Request == [n : Nat, kind : {"add", "remove"}, title : Title,
            card : CardId \cup {None}, found : {"unread", "yes", "no"}]

(* Types; a busy card waits for exactly one request.                       *)
WatchlistTypeOK ==
    /\ cards \in [CardId -> Card \cup {None}]
    /\ \A r \in requests : r \in Request
    /\ \A c \in CardId : Cardinality({r \in requests : r.card = c}) =
                          IF cards[c] # None /\ cards[c].busy THEN 1 ELSE 0
    /\ rows \in [Profile \cup {Zero} -> [Title -> 0..MaxRows]]
    /\ list = None \/ list \in [loading : BOOLEAN, titles : SUBSET Title]
    /\ hearted \subseteq Profile \X Title /\ solo \subseteq CardId

WatchlistInit ==
    /\ cards = [c \in CardId |-> None] /\ requests = {} /\ clicks = 0
    /\ rows = [p \in Profile \cup {Zero} |-> [t \in Title |-> 0]]
    /\ list = None /\ hearted = {} /\ solo = {}

(* The pages show the cards in visible.  A card is mounted with an empty   *)
(* heart: checkWatchlist asks with a userId, is answered "profileId query  *)
(* param required", and logs it.  Requests of a card that is gone are      *)
(* still served.                                                           *)
ShowCards(visible) ==
    /\ cards' = [c \in CardId |-> IF c \notin visible THEN None
                                  ELSE IF cards[c] = None THEN NewCard
                                  ELSE cards[c]]
    /\ requests' = {IF r.card \in visible THEN r ELSE [r EXCEPT !.card = None] :
                       r \in requests}
    /\ solo' = solo \cap visible
    /\ UNCHANGED <<rows, hearted, clicks>>

-----------------------------------------------------------------------------
(* toggleWatchlist: the heart is disabled while its request is pending.    *)
ClickHeart(c) ==
    /\ cards[c] # None /\ ~cards[c].busy
    /\ cards' = [cards EXCEPT ![c].busy = TRUE]
    /\ clicks' = clicks + 1
    /\ requests' = requests \cup
          {[n |-> clicks', kind |-> IF cards[c].filled THEN "remove" ELSE "add",
            title |-> c[1], card |-> c, found |-> "unread"]}
    /\ solo' = {d \in solo : d[1] # c[1]} \cup
                (IF \E r \in requests : r.title = c[1] THEN {} ELSE {c})
    /\ UNCHANGED <<rows, list, hearted>>

(* The profile a row is stored under and deleted from: neither request has *)
(* a profileId.                                                            *)
StoredUnder == Zero

(* The answer fills or empties the heart of the card that asked.           *)
Answered(r, filled) ==
    cards' = IF r.card = None THEN cards
             ELSE [cards EXCEPT ![r.card].filled = filled, ![r.card].busy = FALSE]

(* AddToWatchlist: look for a row, and only then create one.               *)
FindListed(r) ==
    /\ r.kind = "add" /\ r.found = "unread"
    /\ requests' = (requests \ {r}) \cup
          {[r EXCEPT !.found = IF rows[StoredUnder][r.title] > 0 THEN "yes" ELSE "no"]}
    /\ UNCHANGED <<cards, rows, list, hearted, solo, clicks>>

(* Faulty: a new row is not created when one was not found.                *)
AcknowledgeOnly(r, p) ==
    /\ r.found # "unread"
    /\ requests' = requests \ {r}
    /\ UNCHANGED rows
    /\ Answered(r, TRUE)
    /\ hearted' = IF r.card = None THEN hearted ELSE hearted \cup {<<p, r.title>>}
    /\ UNCHANGED <<list, solo, clicks>>

StoreListed(r, p) ==
    /\ r.found # "unread"
    /\ requests' = requests \ {r}
    /\ IF r.found = "yes" THEN UNCHANGED rows
       ELSE /\ rows[StoredUnder][r.title] < MaxRows
            /\ rows' = [rows EXCEPT ![StoredUnder][r.title] = @ + 1]
    /\ Answered(r, TRUE)
    /\ hearted' = IF r.card = None THEN hearted ELSE hearted \cup {<<p, r.title>>}
    /\ UNCHANGED <<list, solo, clicks>>

(* RemoveFromWatchlist deletes every row of the title under profile 0,     *)
(* whoever added it.                                                       *)
RemoveListed(r) ==
    /\ r.kind = "remove"
    /\ requests' = requests \ {r}
    /\ rows' = [rows EXCEPT ![StoredUnder][r.title] = 0]
    /\ Answered(r, FALSE)
    /\ hearted' = hearted \ (Profile \X {r.title})
    /\ UNCHANGED <<list, solo, clicks>>

(* The request is lost, or only its answer: "Failed to toggle watchlist",  *)
(* and the heart stays as it was.                                          *)
ToggleLost(r) ==
    /\ r.card # None
    /\ cards' = [cards EXCEPT ![r.card].busy = FALSE]
    /\ requests' \in {requests \ {r}, (requests \ {r}) \cup {[r EXCEPT !.card = None]}}
    /\ solo' = solo \ {r.card}
    /\ UNCHANGED <<rows, list, hearted, clicks>>

-----------------------------------------------------------------------------
MountList == list' = [loading |-> TRUE, titles |-> {}]
UnmountList == list' = None

(* loadWatchlist: the rows of the active profile, each with its title.     *)
ListArrives(p) ==
    /\ list # None /\ list.loading
    /\ list' = [loading |-> FALSE, titles |-> {t \in Title : rows[p][t] > 0}]
    /\ UNCHANGED <<cards, requests, rows, hearted, solo, clicks>>

ListFails ==
    /\ list # None /\ list.loading
    /\ list' = [list EXCEPT !.loading = FALSE]
    /\ UNCHANGED <<cards, requests, rows, hearted, solo, clicks>>

WatchlistAnswers(p) ==
    \/ \E r \in requests :
          FindListed(r) \/ StoreListed(r, p) \/ RemoveListed(r) \/ ToggleLost(r)
    \/ ListArrives(p) \/ ListFails

-----------------------------------------------------------------------------
(* A heart is full if and only if a row of the title is stored, whatever   *)
(* was clicked before on this page or another: when the last click on the  *)
(* title was made with nothing else about it under way, was answered and   *)
(* was not lost (MediaCard.jsx:60-89 waits for the answer before it fills  *)
(* the heart; user.go:157-177).                                            *)
HeartTellsTruth ==
    \A c \in solo :
        (\A r \in requests : r.title # c[1]) =>
            cards[c].filled = (rows[StoredUnder][c[1]] > 0)

(* "Click the heart icon on any title to add it to your list"              *)
(* (MyList.jsx:96): My List shows every title the profile has added and    *)
(* nobody has removed since.                                               *)
HeartMeansListed ==
    [][\A p \in Profile : ListArrives(p) =>
          \A t \in Title : <<p, t>> \in hearted => t \in list'.titles]_watchlistVars
=============================================================================
