---------------------------- MODULE ViewerProofs ----------------------------
(***************************************************************************)
(* Proofs about Viewer, for any users, profiles, queries, categories and   *)
(* any number of inputs.                                                   *)
(***************************************************************************)
EXTENDS Viewer, TLAPS, SequenceTheorems

(* As long as sessions are orderly, storage and tab name one user.         *)
OneUser ==
    orderly =>
        /\ storage.token = auth.user /\ storage.userId = auth.user
        /\ storage.profile # None => OwnerOf[storage.profile] = auth.user
        /\ auth.profile # None => OwnerOf[auth.profile] = auth.user

(* A stored token has its user id with it.                                 *)
TokenHasUser == storage.token # None => storage.userId # None

SessionInv == SessionTypeOK /\ OneUser /\ TokenHasUser

(* Steps of the other components leave the session alone, but for the      *)
(* address.                                                                *)
LEMMA SessionApart ==
    ASSUME ViewerNext, ~SessionStep
    PROVE  /\ UNCHANGED <<storage, auth, admin, accounts, logins, registers, form, orderly>>
           /\ inputs' = inputs \/ Input
           /\ route' = route \/ route' = "search"
  <1>1. CASE \E q \in Query : SearchFor(q)
    BY <1>1 DEF SearchFor, browser, server
  <1>2. CASE SearchInput \/ LibraryInput \/ HeartInput
    BY <1>2 DEF SearchInput, LibraryInput, HeartInput, Elsewhere, browser, server
  <1>3. CASE SearchEvent \/ LibraryEvent \/ WatchlistEvent
    BY <1>3 DEF SearchEvent, LibraryEvent, WatchlistEvent, sessionVars, browser, server
  <1> QED
    BY <1>1, <1>2, <1>3 DEF ViewerNext

LEMMA SessionInitInv == ViewerInit => SessionInv
  <1> SUFFICES ASSUME SessionInit PROVE SessionInv
    BY DEF ViewerInit
  <1> USE SessionAssumption
  <1>1. /\ storage \in [token : User \cup {None}, userId : User \cup {None},
                        profile : Profile \cup {None}]
        /\ auth \in [user : User \cup {None}, profile : Profile \cup {None}]
        /\ auth.user = None => auth.profile = None
    BY DEF SessionInit, Restored, Nobody
  <1>2. SessionTypeOK
    BY <1>1 DEF SessionInit, SessionTypeOK, Landing, MainPage
  <1>3. OneUser
    BY <1>1 DEF SessionInit, OneUser, Restored, Nobody
  <1> QED
    BY <1>1, <1>2, <1>3 DEF SessionInit, SessionInv, TokenHasUser

LEMMA LandingType ==
    ASSUME NEW a, NEW r \in MainPage \cup {"login", "register", "profiles"}
    PROVE  Landing(a, r) \in MainPage \cup {"login", "register", "profiles"}
  BY DEF Landing

LEMMA SessionStepInv ==
    ASSUME SessionInv, SessionStep
    PROVE  SessionInv'
  <1> USE SessionAssumption DEF SessionInv, TokenHasUser
  <1>0. /\ SessionTypeOK /\ OneUser /\ (storage.token # None => storage.userId # None)
        /\ storage \in [token : User \cup {None}, userId : User \cup {None},
                        profile : Profile \cup {None}]
        /\ auth \in [user : User \cup {None}, profile : Profile \cup {None}]
    BY DEF SessionTypeOK
  <1>i. Input => inputs' \in 0..MaxInputs
    BY DEF Input, SessionTypeOK
  <1>h. Landing(auth', "home") \in MainPage \cup {"login", "register", "profiles"}
    BY LandingType DEF MainPage
  <1>1. ASSUME NEW u \in User, SubmitLogin(u) \/ SubmitRegister(u) PROVE SessionInv'
    BY <1>0, <1>1, <1>i DEF SubmitLogin, SubmitRegister, browser, SessionTypeOK, OneUser
  <1>2. ASSUME NEW u \in User, LoginFails(u) \/ RegisterFails(u) PROVE SessionInv'
    BY <1>0, <1>2 DEF LoginFails, RegisterFails, browser, SessionTypeOK, OneUser
  <1>3. ASSUME NEW u \in User, RegisterSucceeds(u) PROVE SessionInv'
    BY <1>0, <1>3 DEF RegisterSucceeds, GoTo, browser, SessionTypeOK, OneUser
  <1>4. ASSUME NEW u \in User, LoginSucceeds(u) PROVE SessionInv'
    <2>1. /\ storage' = [storage EXCEPT !.token = u, !.userId = u]
          /\ auth' = [auth EXCEPT !.user = u]
          /\ orderly' = (orderly /\ {storage.token, auth.user} \subseteq {None, u})
          /\ logins' = logins \ {u} /\ UNCHANGED <<admin, accounts, registers, inputs>>
          /\ route' = Landing(auth', "home") /\ form' \in {form, None}
      BY <1>4 DEF LoginSucceeds, GoTo
    <2>2. /\ storage' \in [token : User \cup {None}, userId : User \cup {None},
                           profile : Profile \cup {None}]
          /\ auth' \in [user : User \cup {None}, profile : Profile \cup {None}]
          /\ storage'.token = u /\ storage'.userId = u /\ auth'.user = u
          /\ storage'.profile = storage.profile /\ auth'.profile = auth.profile
      BY <1>0, <2>1
    <2>3. SessionTypeOK'
      BY <1>0, <1>h, <2>1, <2>2 DEF SessionTypeOK
    <2>4. OneUser'
      <3> SUFFICES ASSUME orderly, auth.user \in {None, u}
                   PROVE  /\ storage.profile # None => OwnerOf[storage.profile] = u
                          /\ auth.profile # None => OwnerOf[auth.profile] = u
        BY <2>1, <2>2 DEF OneUser
      <3> QED
        BY <1>0 DEF OneUser
    <2> QED
      BY <1>0, <2>1, <2>2, <2>3, <2>4
  <1>5. ASSUME NEW p \in Profile, SelectProfile(p) PROVE SessionInv'
    <2>1. /\ storage' = [storage EXCEPT !.profile = p] /\ auth' = [auth EXCEPT !.profile = p]
          /\ OwnerOf[p] = auth.user /\ form' \in {form, None}
          /\ route' = Landing(auth', "home")
          /\ UNCHANGED <<admin, accounts, logins, registers, orderly>> /\ Input
      BY <1>5 DEF SelectProfile, GoTo
    <2>2. /\ storage' \in [token : User \cup {None}, userId : User \cup {None},
                           profile : Profile \cup {None}]
          /\ auth' \in [user : User \cup {None}, profile : Profile \cup {None}]
          /\ storage'.token = storage.token /\ storage'.userId = storage.userId
          /\ auth'.user = auth.user /\ storage'.profile = p /\ auth'.profile = p
      BY <1>0, <2>1
    <2>3. SessionTypeOK'
      BY <1>0, <1>h, <1>i, <2>1, <2>2 DEF SessionTypeOK
    <2>4. OneUser'
      BY <1>0, <2>1, <2>2 DEF OneUser
    <2> QED
      BY <1>0, <2>1, <2>2, <2>3, <2>4
  <1>6. CASE Logout
    <2>1. /\ storage' = [token |-> None, userId |-> None, profile |-> None]
          /\ auth' = Nobody /\ form' \in {form, None} /\ route' = Landing(auth', route)
          /\ UNCHANGED <<admin, accounts, logins, registers, orderly>> /\ Input
      BY <1>6 DEF Logout, GoTo
    <2>2. route' \in MainPage \cup {"login", "register", "profiles"}
      BY <1>0, <2>1, LandingType DEF SessionTypeOK
    <2> QED
      BY <1>0, <1>i, <2>1, <2>2 DEF SessionTypeOK, OneUser, Nobody
  <1>7. ASSUME NEW r \in MainPage \cup {"login", "register", "profiles"}, Navigate(r)
        PROVE  SessionInv'
    <2>1. route' = Landing(auth, r) /\ form' \in {form, None} /\ Input
          /\ UNCHANGED <<storage, auth, admin, accounts, logins, registers, orderly>>
      BY <1>7 DEF Navigate, GoTo, browser
    <2>2. route' \in MainPage \cup {"login", "register", "profiles"}
      BY <2>1, LandingType
    <2> QED
      BY <1>0, <1>i, <2>1, <2>2 DEF SessionTypeOK, OneUser
  <1>8. ASSUME NEW r \in MainPage \cup {"login", "register", "profiles"}, Reload(r)
        PROVE  SessionInv'
    <2>1. /\ auth' = Restored /\ route' = Landing(auth', r) /\ Input
          /\ logins' = {} /\ registers' = {} /\ form' = None
          /\ UNCHANGED <<storage, admin, accounts, orderly>>
      BY <1>8 DEF Reload
    <2>2. route' \in MainPage \cup {"login", "register", "profiles"}
      BY <2>1, LandingType
    <2>3. CASE storage.token = None
      BY <1>0, <1>i, <2>1, <2>2, <2>3 DEF SessionTypeOK, OneUser, Restored, Nobody
    <2>4. CASE storage.token # None
      <3>1. auth' = [user |-> storage.userId, profile |-> storage.profile]
        BY <2>1, <2>4 DEF Restored
      <3> QED
        BY <1>0, <1>i, <2>1, <2>2, <2>4, <3>1 DEF SessionTypeOK, OneUser
    <2> QED
      BY <2>3, <2>4
  <1>9. CASE AdminTab
    <2>1. CASE OpenAdmin
      BY <1>0, <1>i, <2>1 DEF OpenAdmin, server, SessionTypeOK, OneUser
    <2>2. CASE AdminLogout
      BY <1>0, <1>i, <2>2 DEF AdminLogout, server, SessionTypeOK, OneUser
    <2>3. CASE AdminUnauthorized
      BY <1>0, <1>i, <2>3 DEF AdminUnauthorized, server, SessionTypeOK, OneUser
    <2> QED
      BY <1>9, <2>1, <2>2, <2>3 DEF AdminTab
  <1> QED
    BY <1>1, <1>2, <1>3, <1>4, <1>5, <1>6, <1>7, <1>8, <1>9
       DEF SessionStep, SignInPages, Visit

LEMMA SessionNextInv ==
    ASSUME SessionInv, [ViewerNext]_viewerVars
    PROVE  SessionInv'
  <1>1. CASE UNCHANGED sessionVars
    BY <1>1 DEF sessionVars, browser, server, SessionInv, TokenHasUser, SessionTypeOK, OneUser
  <1>2. CASE ViewerNext /\ ~SessionStep
    <2>1. UNCHANGED <<storage, auth, admin, accounts, logins, registers, form, orderly>>
          /\ (inputs' = inputs \/ Input) /\ (route' = route \/ route' = "search")
      BY <1>2, SessionApart
    <2> QED
      BY <2>1, SessionAssumption DEF Input, MainPage, SessionInv, TokenHasUser, SessionTypeOK, OneUser
  <1> QED
    BY <1>1, <1>2, SessionStepInv DEF viewerVars

(* Nobody watches with the profile of another user, as far as sessions     *)
(* are signed out of before the next one starts.                           *)
THEOREM ProfilesKept == ViewerSpec => []ProfileOfUser
  <1>1. SessionInv => ProfileOfUser
    BY DEF SessionInv, OneUser, ProfileOfUser
  <1> QED
    BY <1>1, SessionInitInv, SessionNextInv, PTL DEF ViewerSpec

-----------------------------------------------------------------------------
(* The field and its suggestions.  The latest request is in flight, or its *)
(* answer is what is shown.                                                *)
LatestSuggested ==
    ~bar.due /\ bar.query \notin Short /\ ~bar.overtaken =>
        \/ \E c \in lookups : c.n = bar.last /\ c.q = bar.query
        \/ bar.seen = bar.last /\ bar.suggestions = Hits[bar.query]

(* The requests in flight have different numbers, none of them answered.   *)
LookupsNumbered ==
    /\ \A c \in lookups : c.n \in Nat /\ c.n <= bar.last /\ c.n # bar.seen /\ c.q \in Query
    /\ \A c, d \in lookups : c.n = d.n => c = d

BarShown ==
    bar \in Bar /\ bar.seen <= bar.last /\ LookupsNumbered /\ LatestSuggested

BarInv == (bar = None /\ lookups = {}) \/ BarShown

(* The steps that concern the SearchBar.                                   *)
BarStep ==
    \/ UNCHANGED <<bar, lookups>>
    \/ MountBar
    \/ UnmountBar
    \/ \E q \in Query : /\ bar # None /\ UNCHANGED lookups
                         /\ \/ bar' = WithText(bar, q)
                            \/ bar' = [WithText(bar, q) EXCEPT !.open = FALSE]
    \/ HandleField
    \/ Debounce
    \/ \E c \in lookups : Suggest(c) \/ SuggestFails(c)

LEMMA BarSteps ==
    ASSUME [ViewerNext]_viewerVars
    PROVE  BarStep
  <1>1. CASE SessionStep
    <2>1. ASSUME NEW anew, Follow(anew) PROVE BarStep
      BY <2>1 DEF Follow, BarStep
    <2>2. CASE AdminTab /\ UNCHANGED <<searchVars, libraryVars, watchlistVars>>
      BY <2>2 DEF searchVars, BarStep
    <2> QED
      BY <1>1, <2>1, <2>2 DEF SessionStep
  <1>2. ASSUME NEW q \in Query, SearchFor(q) PROVE BarStep
    BY <1>2 DEF SearchFor, BarStep
  <1>3. CASE SearchInput
    <2>1. ASSUME NEW q \in Query, Type(q) PROVE BarStep
      BY <2>1 DEF Type, BarStep
    <2>2. CASE HandleField
      BY <2>2 DEF BarStep
    <2>3. ASSUME NEW f \in Filter, PickFilter(f) PROVE BarStep
      BY <2>3 DEF PickFilter, BarStep
    <2> QED
      BY <1>3, <2>1, <2>2, <2>3 DEF SearchInput
  <1>4. CASE SearchEvent
    <2>1. ASSUME NEW c \in searches, ShowAnswer(c) \/ SearchFails(c) PROVE BarStep
      BY <2>1 DEF ShowAnswer, SearchFails, BarStep
    <2> QED
      BY <1>4, <2>1 DEF SearchEvent, SearchAnswers, BarStep
  <1>5. CASE LibraryInput \/ HeartInput \/ LibraryEvent \/ WatchlistEvent
    BY <1>5 DEF LibraryInput, HeartInput, LibraryEvent, WatchlistEvent, searchVars, BarStep
  <1>6. CASE UNCHANGED viewerVars
    BY <1>6 DEF viewerVars, searchVars, BarStep
  <1> QED
    BY <1>1, <1>2, <1>3, <1>4, <1>5, <1>6 DEF ViewerNext

LEMMA NewBarType ==
    NewBar \in Bar /\ NewBar.query \in Short /\ NewBar.seen <= NewBar.last
  BY SearchAssumption, EmptySeq DEF NewBar, Bar

LEMMA BarStepInv ==
    ASSUME BarInv, BarStep
    PROVE  BarInv'
  <1> USE SearchAssumption
  <1>0. \A q \in Query : Hits[q] \in Seq(Title)
    OBVIOUS
  <1>1. CASE UNCHANGED <<bar, lookups>>
    BY <1>1 DEF BarInv, BarShown, LookupsNumbered, LatestSuggested
  <1>2. CASE MountBar
    <2>1. bar' = NewBar /\ lookups' = {}
      BY <1>2 DEF MountBar
    <2>2. bar' \in Bar /\ bar'.query \in Short /\ bar'.seen <= bar'.last
      BY <2>1, NewBarType
    <2>3. LatestSuggested'
      BY <2>2 DEF LatestSuggested
    <2>4. LookupsNumbered'
      BY <2>1 DEF LookupsNumbered
    <2> QED
      BY <2>2, <2>3, <2>4 DEF BarInv, BarShown
  <1>3. CASE UnmountBar
    BY <1>3 DEF UnmountBar, BarInv, BarShown, LookupsNumbered
  <1>4. ASSUME NEW q \in Query, bar # None, UNCHANGED lookups,
               \/ bar' = WithText(bar, q)
               \/ bar' = [WithText(bar, q) EXCEPT !.open = FALSE]
        PROVE  BarInv'
    <2>1. bar \in Bar
      BY <1>4 DEF BarInv, BarShown, LookupsNumbered
    <2> DEFINE b == WithText(bar, q)
    <2>2. /\ b \in Bar /\ b.last = bar.last /\ b.seen = bar.seen
          /\ b.overtaken = bar.overtaken
          /\ b.due \/ b.query \in Short \/ b = bar
      BY <2>1, EmptySeq DEF WithText, Bar
    <2>3. /\ bar' \in Bar /\ bar'.last = bar.last /\ bar'.seen = bar.seen
          /\ bar'.overtaken = bar.overtaken
          /\ \/ bar'.due \/ bar'.query \in Short
             \/ /\ bar'.query = bar.query /\ bar'.due = bar.due
                /\ bar'.suggestions = bar.suggestions
      <3> HIDE DEF b
      <3> QED
        BY <1>4, <2>2 DEF b, Bar
    <2> QED
      BY <1>4, <2>1, <2>3 DEF BarInv, BarShown, LookupsNumbered, LatestSuggested
  <1>5. CASE HandleField
    <2>0. BarShown
      BY <1>5 DEF HandleField, BarInv
    <2>1. bar \in Bar /\ UNCHANGED lookups /\ Len(bar.suggestions) \in Nat
      BY <1>5, <2>0 DEF HandleField, BarShown, Bar
    <2>2. Down \in Int /\ Up \in Int
      BY <2>1 DEF Down, Up, Bar
    <2>3. \/ \E o \in BOOLEAN : bar' = [bar EXCEPT !.open = o]
          \/ \E i \in Int : bar' = [bar EXCEPT !.index = i]
      BY <1>5, <2>2 DEF HandleField, Focus, Dismiss, Arrow
    <2>4. /\ bar' \in Bar /\ bar'.last = bar.last /\ bar'.seen = bar.seen
          /\ bar'.overtaken = bar.overtaken /\ bar'.query = bar.query
          /\ bar'.due = bar.due /\ bar'.suggestions = bar.suggestions
      BY <2>1, <2>3 DEF Bar
    <2> QED
      BY <2>0, <2>1, <2>4 DEF BarInv, BarShown, LookupsNumbered, LatestSuggested
  <1>6. CASE Debounce
    <2>0. BarShown
      BY <1>6 DEF Debounce, BarInv
    <2>1. bar \in Bar
      BY <2>0 DEF BarShown
    <2>2. /\ bar' = [bar EXCEPT !.due = FALSE, !.spinner = TRUE, !.last = @ + 1]
          /\ lookups' = lookups \cup {[n |-> bar.last + 1, q |-> bar.query]}
      BY <1>6 DEF Debounce
    <2>a. bar.last \in Nat /\ bar.seen \in Nat /\ bar.query \in Query /\ bar.last + 1 \in Nat
      BY <2>1 DEF Bar
    <2>b. \A k \in Nat : [bar EXCEPT !.due = FALSE, !.spinner = TRUE, !.last = k] \in Bar
      BY <2>1 DEF Bar
    <2>3. /\ bar' \in Bar /\ bar'.last = bar.last + 1 /\ bar'.seen = bar.seen
          /\ bar'.overtaken = bar.overtaken /\ bar'.query = bar.query
          /\ bar'.suggestions = bar.suggestions
      BY <2>1, <2>2, <2>a, <2>b DEF Bar
    <2>4. \A c \in lookups : c.n \in Nat /\ c.n <= bar.last /\ c.n # bar.last + 1
                            /\ c.n # bar.seen /\ c.q \in Query
      BY <2>0, <2>a DEF BarShown, LookupsNumbered
    <2>5. \A c, d \in lookups' : c.n = d.n => c = d
      BY <2>0, <2>2, <2>4 DEF BarShown, LookupsNumbered
    <2> DEFINE new == [n |-> bar.last + 1, q |-> bar.query]
    <2>6. new \in lookups' /\ new.n = bar'.last /\ new.q = bar'.query
      BY <2>2, <2>3
    <2>7. LatestSuggested'
      BY <2>6 DEF LatestSuggested
    <2>8. \A c \in lookups' : c.n \in Nat /\ c.n <= bar'.last /\ c.n # bar'.seen /\ c.q \in Query
      BY <2>0, <2>1, <2>2, <2>3, <2>4, <2>a DEF BarShown, LookupsNumbered
    <2>9. bar.seen <= bar.last
      BY <2>0 DEF BarShown
    <2> QED
      BY <2>3, <2>a, <2>5, <2>7, <2>8, <2>9 DEF BarInv, BarShown, LookupsNumbered
  <1>7. ASSUME NEW c \in lookups, Suggest(c) \/ SuggestFails(c) PROVE BarInv'
    <2>1. bar \in Bar /\ c.n \in Nat /\ c.n <= bar.last /\ c.q \in Query
          /\ bar.seen <= bar.last
      BY <1>7 DEF BarInv, BarShown, LookupsNumbered
    <2>2. lookups' = lookups \ {c}
      BY <1>7 DEF Suggest, SuggestFails
    <2>3. /\ Seen(bar, c) \in Bar /\ Seen(bar, c).last = bar.last
          /\ Seen(bar, c).query = bar.query /\ Seen(bar, c).due = bar.due
          /\ Seen(bar, c).suggestions = bar.suggestions
          /\ Seen(bar, c).seen = (IF c.n > bar.seen THEN c.n ELSE bar.seen)
          /\ Seen(bar, c).overtaken = (bar.overtaken \/ c.n < bar.seen)
      BY <2>1 DEF Seen, Bar
    <2>4. /\ bar' \in Bar /\ bar'.last = bar.last /\ bar'.query = bar.query
          /\ bar'.due = bar.due
          /\ bar'.seen = (IF c.n > bar.seen THEN c.n ELSE bar.seen)
          /\ \/ bar'.overtaken
             \/ /\ bar'.suggestions = Hits[c.q]
                /\ bar.overtaken \/ c.n < bar.seen => bar'.overtaken
      <3>1. CASE Suggest(c)
        <4>1. bar' = [Seen(bar, c) EXCEPT !.suggestions = Hits[c.q], !.open = TRUE,
                                          !.spinner = FALSE]
          BY <3>1 DEF Suggest
        <4> QED
          BY <1>0, <2>1, <2>3, <4>1 DEF Bar
      <3>2. CASE SuggestFails(c)
        <4>1. bar' = [Seen(bar, c) EXCEPT !.suggestions = <<>>, !.spinner = FALSE,
                                          !.overtaken = TRUE]
          BY <3>2 DEF SuggestFails
        <4> QED
          BY <2>3, <4>1, EmptySeq DEF Bar
      <3> QED
        BY <1>7, <3>1, <3>2
    <2>5. bar.last \in Nat /\ bar.seen \in Nat
      BY <2>1 DEF Bar
    <2>6. LatestSuggested'
      <3> SUFFICES ASSUME ~bar'.due, bar'.query \notin Short, ~bar'.overtaken
                   PROVE  \/ \E d \in lookups' : d.n = bar'.last /\ d.q = bar'.query
                          \/ /\ bar'.seen = bar'.last
                             /\ bar'.suggestions = Hits[bar'.query]
        BY DEF LatestSuggested
      <3>a. ~(bar.overtaken \/ c.n < bar.seen)
        BY <2>4
      <3>1. /\ bar \in Bar /\ ~bar.due /\ bar.query \notin Short /\ ~bar.overtaken
            /\ c.n >= bar.seen
        BY <2>1, <2>4, <2>5, <3>a
      <3>2. CASE c.n = bar.last /\ c.q = bar.query
        BY <2>1, <2>4, <2>5, <3>1, <3>2
      <3>3. CASE \E d \in lookups : d # c /\ d.n = bar.last /\ d.q = bar.query
        BY <2>2, <2>4, <3>3
      <3>4. CASE bar.seen = bar.last
        BY <1>7, <2>1, <2>5, <3>1, <3>4 DEF BarInv, BarShown, LookupsNumbered
      <3> QED
        BY <3>1, <3>2, <3>3, <3>4 DEF BarInv, BarShown, LookupsNumbered, LatestSuggested
    <2>7. \A d \in lookups' : d.n \in Nat /\ d.n <= bar'.last /\ d.n # bar'.seen /\ d.q \in Query
      BY <2>1, <2>2, <2>4, <2>5 DEF BarInv, BarShown, LookupsNumbered
    <2> QED
      BY <2>1, <2>2, <2>4, <2>5, <2>6, <2>7 DEF BarInv, BarShown, LookupsNumbered
  <1> QED
    BY <1>1, <1>2, <1>3, <1>4, <1>5, <1>6, <1>7 DEF BarStep

LEMMA BarInit == ViewerInit => BarInv
  <1>1. ASSUME ViewerInit, route \in MainPage PROVE BarInv
    <2>1. bar = NewBar /\ lookups = {}
      BY <1>1 DEF ViewerInit, SearchInit
    <2>2. bar \in Bar /\ bar.query \in Short /\ bar.seen <= bar.last
      BY <2>1, NewBarType
    <2> QED
      BY <2>1, <2>2 DEF BarInv, BarShown, LookupsNumbered, LatestSuggested
  <1>2. ASSUME ViewerInit, route \notin MainPage PROVE BarInv
    BY <1>2 DEF ViewerInit, SearchInit, BarInv
  <1> QED
    BY <1>1, <1>2

(* When nothing is awaited, the suggestions are those of the text in the   *)
(* field, unless an answer came after a later one or failed.               *)
THEOREM SuggestionsAgree == ViewerSpec => []SuggestionsMatch
  <1>1. BarInv => SuggestionsMatch
    BY DEF BarInv, BarShown, LatestSuggested, SuggestionsMatch
  <1>2. BarInv /\ [ViewerNext]_viewerVars => BarInv'
    BY BarSteps, BarStepInv
  <1> QED
    BY <1>1, <1>2, BarInit, PTL DEF ViewerSpec

-----------------------------------------------------------------------------
(* The library page.  The request that is not cancelled asks for what the  *)
(* page names, and what a page at rest shows is what it names.             *)
LibState == [view : View, pages : Nat, loading : BOOLEAN, shows : View \cup {None},
             rows : SUBSET Row, last : Nat, failed : BOOLEAN]

AtRest == ~lib.loading /\ ~lib.failed => lib.shows = lib.view

LibShown ==
    /\ lib \in LibState /\ rowLoads \subseteq Row
    /\ \A c \in pageLoads : /\ c.n \in Nat /\ c.n <= lib.last /\ c.view \in View
                            /\ ~Cancelled(c) => c.view = lib.view
    /\ AtRest

LibInv == (lib = None /\ pageLoads = {} /\ rowLoads = {}) \/ LibShown

(* The steps that concern the Library page.                                *)
LibStep ==
    \/ UNCHANGED libraryVars
    \/ UnmountLibrary
    \/ \E c \in Category, p \in Profile \cup {None} : MountLibrary(c, p)
    \/ lib # None /\ \E c \in Category, rs \in SUBSET Row : SetCategory(c, rs)
    \/ (\E s \in Sort : SetSort(s)) \/ PreviousPage \/ NextPage
    \/ LibraryAnswers

LEMMA LibSteps ==
    ASSUME SessionTypeOK', [ViewerNext]_viewerVars
    PROVE  LibStep
  <1>1. CASE SessionStep
    <2>1. ASSUME NEW anew, Follow(anew) PROVE LibStep
      <3>1. CASE route' \notin DOMAIN CategoryAt
        BY <2>1, <3>1 DEF Follow, LibStep
      <3>2. CASE route' \in DOMAIN CategoryAt
        <4>1. CategoryAt[route'] \in Category
          BY <3>2, ViewerAssumption
        <4>2. auth'.profile \in Profile \cup {None}
          BY DEF SessionTypeOK
        <4>3. {Trending, auth'.profile} \in SUBSET Row /\ {} \in SUBSET Row
          BY <4>2 DEF Row, Trending
        <4> QED
          BY <2>1, <3>2, <4>1, <4>2, <4>3 DEF Follow, LibStep
      <3> QED
        BY <3>1, <3>2
    <2>2. CASE AdminTab /\ UNCHANGED <<searchVars, libraryVars, watchlistVars>>
      BY <2>2 DEF LibStep
    <2> QED
      BY <1>1, <2>1, <2>2 DEF SessionStep
  <1>2. ASSUME NEW q \in Query, SearchFor(q) PROVE LibStep
    BY <1>2 DEF SearchFor, LibStep
  <1>3. CASE SearchInput \/ HeartInput \/ SearchEvent \/ WatchlistEvent
    BY <1>3 DEF SearchInput, HeartInput, SearchEvent, WatchlistEvent, LibStep
  <1>4. CASE LibraryInput \/ LibraryEvent
    BY <1>4 DEF LibraryInput, LibraryEvent, LibStep
  <1>5. CASE UNCHANGED viewerVars
    BY <1>5 DEF viewerVars, LibStep
  <1> QED
    BY <1>1, <1>2, <1>3, <1>4, <1>5 DEF ViewerNext

(* A new request: whatever was on its way is cancelled.                    *)
LEMMA LoadInv ==
    ASSUME LibShown, NEW v \in View, Load(lib, v), rowLoads' \subseteq Row
    PROVE  LibInv'
  <1>1. lib \in LibState /\ lib.last \in Nat /\ lib.last + 1 \in Nat
    BY DEF LibShown, LibState
  <1>2. /\ lib' = [lib EXCEPT !.view = v, !.loading = TRUE, !.last = lib.last + 1]
        /\ pageLoads' = pageLoads \cup {[n |-> lib.last + 1, view |-> v]}
    BY DEF Load, Asked
  <1>3. lib' \in LibState /\ lib'.view = v /\ lib'.loading /\ lib'.last = lib.last + 1
    BY <1>1, <1>2 DEF LibState
  <1>4. \A c \in pageLoads' : /\ c.n \in Nat /\ c.n <= lib'.last /\ c.view \in View
                              /\ c.n = lib'.last => c.view = lib'.view
    BY <1>1, <1>2, <1>3 DEF LibShown
  <1> QED
    BY <1>3, <1>4 DEF LibInv, LibShown, AtRest, Cancelled

LEMMA MountedLibrary ==
    ASSUME NEW c \in Category
    PROVE  /\ Mounted(c) \in LibState /\ Mounted(c).last = 1 /\ Mounted(c).loading
           /\ Mounted(c).view = Fresh(c).view /\ Fresh(c).view \in View
  <1> USE LibraryAssumption
  <1>1. Fresh(c).view \in View
    BY DEF Fresh, View
  <1>2. /\ Fresh(c) \in LibState /\ Fresh(c).last = 0
    BY <1>1 DEF Fresh, LibState
  <1>3. \A l \in LibState, v \in View : l.last = 0 =>
           /\ Asked(l, v) \in LibState /\ Asked(l, v).last = 1
           /\ Asked(l, v).loading /\ Asked(l, v).view = v
    <2> TAKE l \in LibState, v \in View
    <2> HAVE l.last = 0
    <2>1. Asked(l, v) = [l EXCEPT !.view = v, !.loading = TRUE, !.last = l.last + 1]
      BY DEF Asked
    <2>2. \A k \in Nat : LET m == [l EXCEPT !.view = v, !.loading = TRUE, !.last = k]
                        IN  m \in LibState /\ m.last = k /\ m.loading /\ m.view = v
      BY DEF LibState
    <2>3. l.last + 1 = 1 /\ 1 \in Nat
      OBVIOUS
    <2> QED
      BY <2>1, <2>2, <2>3
  <1> QED
    BY <1>1, <1>2, <1>3 DEF Mounted

LEMMA FreshLibrary ==
    ASSUME NEW c \in Category, NEW p \in Profile \cup {None},
           lib = Mounted(c), pageLoads = FirstLoad(c), rowLoads = {Trending, p}
    PROVE  LibShown
  <1>1. /\ lib \in LibState /\ lib.last = 1 /\ lib.loading
        /\ lib.view = Fresh(c).view /\ Fresh(c).view \in View
    BY MountedLibrary
  <1>2. rowLoads \subseteq Row
    BY DEF Row, Trending
  <1> QED
    BY <1>1, <1>2 DEF LibShown, AtRest, FirstLoad

LEMMA LibStepInv ==
    ASSUME LibInv, LibStep
    PROVE  LibInv'
  <1> USE LibraryAssumption
  <1>1. CASE UNCHANGED libraryVars
    BY <1>1 DEF libraryVars, LibInv, LibShown, AtRest, Cancelled
  <1>2. CASE UnmountLibrary
    BY <1>2 DEF UnmountLibrary, LibInv
  <1>3. ASSUME NEW c \in Category, NEW p \in Profile \cup {None}, MountLibrary(c, p)
        PROVE  LibInv'
    <2>1. lib' = Mounted(c)
      BY <1>3 DEF MountLibrary
    <2>2. Fresh(c).view \in View
      BY MountedLibrary
    <2>3. /\ lib' \in LibState /\ lib'.last = 1 /\ lib'.loading
          /\ lib'.view = Fresh(c).view
      BY <2>1, MountedLibrary
    <2>4. rowLoads' \subseteq Row
      BY <1>3 DEF MountLibrary, Row, Trending
    <2>5. pageLoads' = {[n |-> 1, view |-> Fresh(c).view]}
      BY <1>3 DEF MountLibrary, FirstLoad
    <2> QED
      BY <2>2, <2>3, <2>4, <2>5 DEF LibInv, LibShown, AtRest, Cancelled
  <1>4. ASSUME NEW c \in Category, NEW rs \in SUBSET Row, lib # None, SetCategory(c, rs)
        PROVE  LibInv'
    <2>1. LibShown
      BY <1>4 DEF LibInv
    <2>2. rowLoads' \subseteq Row
      BY <1>4, <2>1 DEF SetCategory, LibShown
    <2>3. CASE UNCHANGED <<lib, pageLoads>>
      BY <2>1, <2>2, <2>3 DEF LibInv, LibShown, AtRest, Cancelled
    <2>4. CASE Load(lib, [lib.view EXCEPT !.category = c])
      <3>1. [lib.view EXCEPT !.category = c] \in View
        BY <2>1 DEF LibShown, LibState, View
      <3> QED
        BY <2>1, <2>2, <2>4, <3>1, LoadInv
    <2> QED
      BY <1>4, <2>3, <2>4 DEF SetCategory
  <1>5. CASE (\E s \in Sort : SetSort(s)) \/ PreviousPage \/ NextPage
    <2>1. LibShown /\ lib.view \in View /\ rowLoads' = rowLoads
      BY <1>5 DEF SetSort, PreviousPage, NextPage, LibInv, LibShown, LibState
    <2>2. rowLoads' \subseteq Row
      BY <2>1 DEF LibShown
    <2>3. ASSUME NEW s \in Sort, SetSort(s) PROVE LibInv'
      <3>1. [lib.view EXCEPT !.sort = s] \in View
        BY <2>1 DEF View
      <3> QED
        BY <2>1, <2>2, <2>3, <3>1, LoadInv DEF SetSort
    <2>4. CASE PreviousPage
      <3>1. [lib.view EXCEPT !.page = @ - 1] \in View
        BY <2>1, <2>4 DEF PreviousPage, View
      <3> QED
        BY <2>1, <2>2, <2>4, <3>1, LoadInv DEF PreviousPage
    <2>5. CASE NextPage
      <3>1. [lib.view EXCEPT !.page = @ + 1] \in View
        BY <2>1, <2>5 DEF NextPage, View
      <3> QED
        BY <2>1, <2>2, <2>5, <3>1, LoadInv DEF NextPage
    <2> QED
      BY <1>5, <2>3, <2>4, <2>5
  <1>6. ASSUME NEW c \in pageLoads, PageArrives(c) \/ PageFails(c) PROVE LibInv'
    <2>1. /\ LibShown /\ lib \in LibState /\ c.view \in View
          /\ ~Cancelled(c) => c.view = lib.view
      BY <1>6 DEF LibInv, LibShown
    <2>2. /\ pageLoads' \subseteq pageLoads /\ rowLoads' = rowLoads
      BY <1>6 DEF PageArrives, PageFails
    <2>3. PagesOf[c.view.category] \in Nat
      BY <2>1 DEF View
    <2>4. /\ lib' \in LibState /\ lib'.last = lib.last /\ lib'.view = lib.view
          /\ \/ lib' = lib
             \/ lib'.failed
             \/ lib'.shows = lib.view
      <3>1. CASE PageArrives(c)
        BY <2>1, <2>3, <3>1 DEF PageArrives, LibState
      <3>2. CASE PageFails(c)
        BY <2>1, <3>2 DEF PageFails, LibState
      <3> QED
        BY <1>6, <3>1, <3>2
    <2> QED
      BY <2>1, <2>2, <2>4 DEF LibInv, LibShown, AtRest, Cancelled
  <1>7. ASSUME NEW r \in rowLoads, RowArrives(r) PROVE LibInv'
    <2>1. LibShown /\ lib \in LibState /\ r \in Row
      BY <1>7 DEF LibInv, LibShown
    <2>2. lib.rows \cup {r} \in SUBSET Row
      BY <2>1 DEF LibState
    <2>3. /\ lib' \in LibState /\ lib'.last = lib.last /\ lib'.view = lib.view
          /\ lib'.failed = lib.failed /\ lib'.loading = lib.loading
          /\ lib'.shows = lib.shows
      BY <1>7, <2>1, <2>2 DEF RowArrives, LibState
    <2>4. rowLoads' \subseteq Row /\ pageLoads' = pageLoads
      BY <1>7, <2>1 DEF RowArrives, LibShown
    <2>5. \A c \in pageLoads' : /\ c.n \in Nat /\ c.n <= lib'.last /\ c.view \in View
                                /\ c.n = lib'.last => c.view = lib'.view
      BY <2>1, <2>3, <2>4 DEF LibShown, Cancelled
    <2>6. AtRest'
      BY <2>1, <2>3 DEF LibShown, AtRest
    <2> QED
      BY <2>3, <2>4, <2>5, <2>6 DEF LibInv, LibShown, Cancelled
  <1> QED
    BY <1>1, <1>2, <1>3, <1>4, <1>5, <1>6, <1>7 DEF LibStep, LibraryAnswers

LEMMA LibInit ==
    ASSUME ViewerInit
    PROVE  LibInv
  <1>1. auth.profile \in Profile \cup {None}
    BY SessionInitInv DEF SessionInv, SessionTypeOK
  <1>2. CategoryAt["home"] \in Category
    BY ViewerAssumption
  <1>3. CASE lib = None /\ pageLoads = {} /\ rowLoads = {}
    BY <1>3 DEF LibInv
  <1>4. CASE ~(lib = None /\ pageLoads = {} /\ rowLoads = {})
    <2>1. /\ lib = Mounted(CategoryAt["home"]) /\ pageLoads = FirstLoad(CategoryAt["home"])
          /\ rowLoads = {Trending, auth.profile}
      BY <1>4 DEF ViewerInit, LibraryInit
    <2> QED
      BY <1>1, <1>2, <2>1, FreshLibrary DEF LibInv
  <1> QED
    BY <1>3, <1>4

(* What the grid shows when it is not loading is the category, order and   *)
(* page that are chosen, for any number of pages and requests, unless the  *)
(* last request failed.                                                    *)
THEOREM LibraryAgrees == ViewerSpec => []LibraryShowsWhatIsAsked
  <1>1. SessionInv' /\ LibInv /\ [ViewerNext]_viewerVars => LibInv'
    BY LibSteps, LibStepInv DEF SessionInv
  <1>2. LibInv => LibraryShowsWhatIsAsked
    BY DEF LibInv, LibShown, AtRest, LibraryShowsWhatIsAsked
  <1>3. ViewerInit => LibInv
    BY LibInit
  <1> QED
    BY <1>1, <1>2, <1>3, SessionInitInv, SessionNextInv, PTL DEF ViewerSpec
-----------------------------------------------------------------------------
(* The results page.  The latest request is in flight, or its answer is    *)
(* what is shown.                                                          *)
LatestAsked ==
    searchQ # Empty /\ ~results.overtaken =>
        \/ \E c \in searches : c.n = results.last /\ c.q = searchQ
                               /\ c.filter = results.filter
        \/ /\ results.seen = results.last
           /\ results.shows = [q |-> searchQ, filter |-> results.filter]

SearchesNumbered ==
    /\ \A c \in searches : /\ c.n \in Nat /\ c.n <= results.last /\ c.n # results.seen
                            /\ c.q \in Query /\ c.filter \in Filter
    /\ \A c, d \in searches : c.n = d.n => c = d

ResultsShown ==
    /\ results \in Results /\ results.seen <= results.last
    /\ SearchesNumbered /\ LatestAsked

ResultsInv ==
    searchQ \in Query /\ ((results = None /\ searches = {}) \/ ResultsShown)

(* The steps that concern the results page.                                *)
ResultsStep ==
    \/ UNCHANGED <<results, searches, searchQ>>
    \/ LeaveResults \/ ReloadResults
    \/ \E q \in Query : ShowResults(q)
    \/ \E f \in Filter : PickFilter(f)
    \/ \E c \in searches : ShowAnswer(c) \/ SearchFails(c)

LEMMA ResultsSteps ==
    ASSUME searchQ \in Query, [ViewerNext]_viewerVars
    PROVE  ResultsStep
  <1>1. CASE SessionStep
    <2>1. ASSUME NEW anew, Follow(anew) PROVE ResultsStep
      BY <2>1 DEF Follow, ResultsStep
    <2>2. CASE AdminTab /\ UNCHANGED <<searchVars, libraryVars, watchlistVars>>
      BY <2>2 DEF searchVars, ResultsStep
    <2> QED
      BY <1>1, <2>1, <2>2 DEF SessionStep
  <1>2. ASSUME NEW q \in Query, SearchFor(q) PROVE ResultsStep
    BY <1>2 DEF SearchFor, ResultsStep
  <1>3. CASE SearchInput
    <2>1. ASSUME NEW q \in Query, Type(q) PROVE ResultsStep
      BY <2>1 DEF Type, ResultsStep
    <2>2. CASE HandleField
      BY <2>2 DEF HandleField, ResultsStep
    <2> QED
      BY <1>3, <2>1, <2>2 DEF SearchInput, ResultsStep
  <1>4. CASE SearchEvent
    <2>1. CASE Debounce
      BY <2>1 DEF Debounce, ResultsStep
    <2>2. ASSUME NEW c \in lookups, Suggest(c) \/ SuggestFails(c) PROVE ResultsStep
      BY <2>2 DEF Suggest, SuggestFails, ResultsStep
    <2> QED
      BY <1>4, <2>1, <2>2 DEF SearchEvent, SearchAnswers, ResultsStep
  <1>5. CASE LibraryInput \/ HeartInput \/ LibraryEvent \/ WatchlistEvent
    BY <1>5 DEF LibraryInput, HeartInput, LibraryEvent, WatchlistEvent, searchVars, ResultsStep
  <1>6. CASE UNCHANGED viewerVars
    BY <1>6 DEF viewerVars, searchVars, ResultsStep
  <1> QED
    BY <1>1, <1>2, <1>3, <1>4, <1>5, <1>6 DEF ViewerNext

(* A request more, for the query of the address and the filter chosen.     *)
LEMMA AskInv ==
    ASSUME NEW r \in Results, r.seen <= r.last, NEW S,
           \A c \in S : /\ c.n \in Nat /\ c.n <= r.last /\ c.n # r.seen
                        /\ c.q \in Query /\ c.filter \in Filter,
           \A c, d \in S : c.n = d.n => c = d,
           searchQ' \in Query,
           results' = Asking(r), searches' = S \cup {Ask(r, searchQ')}
    PROVE  ResultsInv'
  <1>1. r.last \in Nat /\ r.seen \in Nat /\ r.last + 1 \in Nat /\ r.filter \in Filter
    BY DEF Results
  <1>2. \A k \in Nat : [r EXCEPT !.loading = TRUE, !.last = k] \in Results
    BY DEF Results
  <1>3. /\ results' \in Results /\ results'.last = r.last + 1
        /\ results'.seen = r.seen /\ results'.filter = r.filter
    BY <1>1, <1>2 DEF Asking, Results
  <1> DEFINE new == Ask(r, searchQ')
  <1>4. /\ new \in searches' /\ new.n = r.last + 1 /\ new.q = searchQ'
        /\ new.filter = r.filter
    BY DEF Ask
  <1>5. LatestAsked'
    BY <1>3, <1>4 DEF LatestAsked
  <1>6. \A c \in S : c.n # r.last + 1 /\ c.n <= r.last + 1
    BY <1>1
  <1>7. SearchesNumbered'
    <2> HIDE DEF new
    <2>1. \A c \in searches' : c \in S \/ c = new
      BY DEF new
    <2> QED
      BY <1>1, <1>3, <1>4, <1>6, <2>1 DEF SearchesNumbered
  <1> QED
    BY <1>1, <1>3, <1>5, <1>7 DEF ResultsInv, ResultsShown

LEMMA NewResultsType ==
    NewResults \in Results /\ NewResults.last = 0 /\ NewResults.seen = 0
  BY SearchAssumption DEF NewResults, Results

LEMMA ResultsStepInv ==
    ASSUME ResultsInv, ResultsStep
    PROVE  ResultsInv'
  <1> USE SearchAssumption, ResultsAssumption
  <1>1. CASE UNCHANGED <<results, searches, searchQ>>
    BY <1>1 DEF ResultsInv, ResultsShown, SearchesNumbered, LatestAsked
  <1>2. CASE LeaveResults
    BY <1>2 DEF LeaveResults, ResultsInv
  <1>3. CASE ReloadResults
    <2>1. CASE searchQ = Empty
      BY <1>3, <2>1, NewResultsType
         DEF ReloadResults, ResultsInv, ResultsShown, SearchesNumbered, LatestAsked
    <2>2. CASE searchQ # Empty
      <3> DEFINE S == {c \in searches : FALSE}
      <3>1. results' = Asking(NewResults) /\ searches' = S \cup {Ask(NewResults, searchQ')}
            /\ searchQ' \in Query /\ \A c : c \notin S
        BY <1>3, <2>2 DEF ReloadResults, ResultsInv
      <3> HIDE DEF S
      <3>2. NewResults.seen <= NewResults.last
        BY NewResultsType
      <3> QED
        BY <3>1, <3>2, NewResultsType, AskInv
    <2> QED
      BY <2>1, <2>2
  <1>4. ASSUME NEW q \in Query, ShowResults(q) PROVE ResultsInv'
    <2> DEFINE r == IF results = None THEN NewResults ELSE results
               again == results # None /\ searchQ = q
    <2>1. /\ r \in Results /\ r.seen <= r.last
          /\ \A c \in searches : /\ c.n \in Nat /\ c.n <= r.last /\ c.n # r.seen
                                  /\ c.q \in Query /\ c.filter \in Filter
          /\ \A c, d \in searches : c.n = d.n => c = d
      BY NewResultsType DEF ResultsInv, ResultsShown, SearchesNumbered
    <2>2. CASE q = Empty \/ again
      <3>1. results' = r /\ searches' = searches /\ searchQ' = q
        BY <1>4, <2>2 DEF ShowResults
      <3>2. SearchesNumbered'
        BY <2>1, <3>1 DEF SearchesNumbered
      <3>3. LatestAsked'
        <4>1. CASE q = Empty
          BY <3>1, <4>1 DEF LatestAsked
        <4>2. CASE again
          <5>1. r = results /\ searchQ = q /\ LatestAsked
            BY <4>2 DEF ResultsInv, ResultsShown
          <5>2. UNCHANGED <<results, searches, searchQ>>
            BY <3>1, <5>1
          <5> QED
            BY <5>1, <5>2 DEF LatestAsked
        <4> QED
          BY <2>2, <4>1, <4>2
      <3> QED
        BY <2>1, <3>1, <3>2, <3>3 DEF ResultsInv, ResultsShown
    <2>3. CASE ~(q = Empty \/ again)
      <3>1. /\ results' = Asking(r) /\ searchQ' = q
            /\ searches' = searches \cup {Ask(r, searchQ')}
        BY <1>4, <2>3 DEF ShowResults
      <3> QED
        BY <2>1, <3>1, AskInv
    <2> QED
      BY <2>2, <2>3
  <1>5. ASSUME NEW f \in Filter, PickFilter(f) PROVE ResultsInv'
    <2> DEFINE r == [results EXCEPT !.filter = f]
    <2>1. ResultsShown /\ results \in Results /\ searchQ' = searchQ /\ searchQ \in Query
      BY <1>5 DEF PickFilter, ResultsInv, ResultsShown
    <2>2. r \in Results /\ r.last = results.last /\ r.seen = results.seen
      BY <2>1 DEF Results
    <2>3. /\ r.seen <= r.last
          /\ \A c \in searches : /\ c.n \in Nat /\ c.n <= r.last /\ c.n # r.seen
                                  /\ c.q \in Query /\ c.filter \in Filter
          /\ \A c, d \in searches : c.n = d.n => c = d
      BY <2>1, <2>2 DEF ResultsShown, SearchesNumbered
    <2>4. CASE searchQ = Empty
      <3>1. results' = r /\ searches' = searches
        BY <1>5, <2>4 DEF PickFilter
      <3> QED
        BY <2>1, <2>2, <2>3, <2>4, <3>1 DEF ResultsInv, ResultsShown, SearchesNumbered, LatestAsked
    <2>5. CASE searchQ # Empty
      <3>1. results' = Asking(r) /\ searches' = searches \cup {Ask(r, searchQ')}
        BY <1>5, <2>1, <2>5 DEF PickFilter
      <3> QED
        BY <2>1, <2>2, <2>3, <3>1, AskInv
    <2> QED
      BY <2>4, <2>5
  <1>6. ASSUME NEW c \in searches, ShowAnswer(c) \/ SearchFails(c) PROVE ResultsInv'
    <2>1. /\ ResultsShown /\ results \in Results /\ c.n \in Nat /\ c.n <= results.last
          /\ c.q \in Query /\ c.filter \in Filter /\ results.seen <= results.last
          /\ results.last \in Nat /\ results.seen \in Nat /\ searchQ \in Query
      BY <1>6 DEF ResultsInv, ResultsShown, SearchesNumbered, Results
    <2>2. searches' = searches \ {c} /\ searchQ' = searchQ
      BY <1>6 DEF ShowAnswer, SearchFails
    <2>3. /\ Seen(results, c) \in Results /\ Seen(results, c).last = results.last
          /\ Seen(results, c).filter = results.filter
          /\ Seen(results, c).seen = (IF c.n > results.seen THEN c.n ELSE results.seen)
          /\ Seen(results, c).overtaken = (results.overtaken \/ c.n < results.seen)
      BY <2>1 DEF Seen, Results
    <2>4. /\ results' \in Results /\ results'.last = results.last
          /\ results'.filter = results.filter
          /\ results'.seen = (IF c.n > results.seen THEN c.n ELSE results.seen)
          /\ \/ results'.overtaken
             \/ /\ results'.shows = [q |-> c.q, filter |-> c.filter]
                /\ results.overtaken \/ c.n < results.seen => results'.overtaken
      <3>1. CASE ShowAnswer(c)
        <4>1. results' = [Seen(results, c) EXCEPT !.loading = FALSE,
                             !.shows = [q |-> c.q, filter |-> c.filter]]
          BY <3>1 DEF ShowAnswer
        <4>2. [q |-> c.q, filter |-> c.filter] \in [q : Query, filter : Filter]
          BY <2>1
        <4> QED
          BY <2>3, <4>1, <4>2 DEF Results
      <3>2. CASE SearchFails(c)
        <4>1. results' = [Seen(results, c) EXCEPT !.loading = FALSE, !.shows = None,
                             !.overtaken = TRUE]
          BY <3>2 DEF SearchFails
        <4> QED
          BY <2>3, <4>1 DEF Results
      <3> QED
        BY <1>6, <3>1, <3>2
    <2>5. LatestAsked'
      <3> SUFFICES ASSUME searchQ # Empty, ~results'.overtaken
                   PROVE  \/ \E d \in searches' : d.n = results'.last /\ d.q = searchQ
                                                   /\ d.filter = results'.filter
                          \/ /\ results'.seen = results'.last
                             /\ results'.shows = [q |-> searchQ, filter |-> results'.filter]
        BY <2>2 DEF LatestAsked
      <3>1. ~results.overtaken /\ c.n >= results.seen
        BY <2>1, <2>4
      <3>2. CASE c.n = results.last /\ c.q = searchQ /\ c.filter = results.filter
        BY <2>1, <2>4, <3>1, <3>2
      <3>3. CASE \E d \in searches : d # c /\ d.n = results.last /\ d.q = searchQ
                                      /\ d.filter = results.filter
        BY <2>2, <2>4, <3>3
      <3>4. CASE results.seen = results.last
        BY <1>6, <2>1, <3>1, <3>4 DEF ResultsShown, SearchesNumbered
      <3> QED
        BY <2>1, <3>1, <3>2, <3>3, <3>4 DEF ResultsShown, LatestAsked
    <2>6. SearchesNumbered'
      BY <2>1, <2>2, <2>4 DEF ResultsShown, SearchesNumbered
    <2> QED
      BY <2>1, <2>2, <2>4, <2>5, <2>6 DEF ResultsInv, ResultsShown
  <1> QED
    BY <1>1, <1>2, <1>3, <1>4, <1>5, <1>6 DEF ResultsStep

(* When every request is answered, the results page shows the results of   *)
(* the query in the address and of the filter chosen, unless an answer was *)
(* overtaken by a later one or failed.                                     *)
THEOREM ResultsAgree == ViewerSpec => []ResultsMatch
  <1>1. ViewerInit => ResultsInv
    BY SearchAssumption DEF ViewerInit, SearchInit, ResultsInv
  <1>2. ResultsInv /\ [ViewerNext]_viewerVars => ResultsInv'
    BY ResultsSteps, ResultsStepInv DEF ResultsInv
  <1>3. ResultsInv => ResultsMatch
    BY DEF ResultsInv, ResultsShown, LatestAsked, ResultsMatch
  <1> QED
    BY <1>1, <1>2, <1>3, PTL DEF ViewerSpec
-----------------------------------------------------------------------------
(* Hearts.  A request of a card is about its title and the card is there.  *)
(* The one request about the title of a card in solo is that card's, and   *)
(* an add that found a row is not overtaken by a delete.                   *)
HeartTypeOK ==
    /\ cards \in [CardId -> Card \cup {None}]
    /\ rows \in [Profile \cup {Zero} -> [Title -> Nat]]
    /\ solo \subseteq CardId /\ clicks \in Nat /\ requests \subseteq Request
    /\ \A r \in requests :
          r.card # None => r.card \in CardId /\ r.card[1] = r.title /\ cards[r.card] \in Card

SoloRequest(c) ==
    /\ cards[c] \in Card
    /\ \A r \in requests : r.title = c[1] =>
          /\ r.card = c
          /\ r.found = "yes" => rows[Zero][c[1]] > 0
    /\ \A r, s \in requests : r.title = c[1] /\ s.title = c[1] => r = s

SoloTruth(c) ==
    (\A r \in requests : r.title # c[1]) => cards[c].filled = (rows[Zero][c[1]] > 0)

HeartInv == HeartTypeOK /\ \A c \in solo : SoloRequest(c) /\ SoloTruth(c)

(* The steps that concern hearts.                                          *)
HeartStep ==
    \/ UNCHANGED <<cards, requests, rows, solo, clicks>>
    \/ \E visible : ShowCards(visible)
    \/ \E c \in CardId : ClickHeart(c)
    \/ \E r \in requests : \/ FindListed(r) \/ (\E p : StoreListed(r, p))
                           \/ RemoveListed(r) \/ ToggleLost(r)

LEMMA HeartSteps ==
    ASSUME [ViewerNext]_viewerVars
    PROVE  HeartStep
  <1>0. SyncCards => HeartStep
    BY DEF SyncCards, HeartStep
  <1>1. CASE SessionStep
    <2>1. ASSUME NEW anew, Follow(anew) PROVE HeartStep
      BY <1>0, <2>1 DEF Follow
    <2>2. CASE AdminTab /\ UNCHANGED <<searchVars, libraryVars, watchlistVars>>
      BY <2>2 DEF watchlistVars, HeartStep
    <2> QED
      BY <1>1, <2>1, <2>2 DEF SessionStep
  <1>2. CASE (\E q \in Query : SearchFor(q)) \/ SearchInput \/ LibraryInput
             \/ SearchEvent \/ LibraryEvent
    BY <1>0, <1>2 DEF SearchFor, SearchInput, LibraryInput, SearchEvent, LibraryEvent
  <1>3. CASE HeartInput
    BY <1>3 DEF HeartInput, HeartStep
  <1>4. CASE WatchlistEvent
    <2>1. CASE ListArrives(auth.profile) \/ ListFails
      BY <2>1 DEF ListArrives, ListFails, HeartStep
    <2> QED
      BY <1>4, <2>1 DEF WatchlistEvent, WatchlistAnswers, HeartStep
  <1>5. CASE UNCHANGED viewerVars
    BY <1>5 DEF viewerVars, watchlistVars, HeartStep
  <1> QED
    BY <1>1, <1>2, <1>3, <1>4, <1>5 DEF ViewerNext

LEMMA ShowCardsInv ==
    ASSUME HeartInv, NEW visible, ShowCards(visible)
    PROVE  HeartInv'
  <1> USE WatchlistAssumption
  <1>1. /\ \A c \in CardId : cards'[c] = IF c \notin visible THEN None
                                         ELSE IF cards[c] = None THEN NewCard ELSE cards[c]
        /\ DOMAIN cards' = CardId /\ cards' = [c \in CardId |-> cards'[c]]
        /\ rows' = rows /\ solo' = solo \cap visible
    BY DEF ShowCards
  <1>2. NewCard \in Card
    BY DEF NewCard, Card
  <1>3. cards' \in [CardId -> Card \cup {None}]
    BY <1>1, <1>2 DEF HeartInv, HeartTypeOK
  <1>4. ASSUME NEW r \in requests'
        PROVE  /\ r \in Request
               /\ \E s \in requests :
                     /\ r.title = s.title
                     /\ \/ r = s /\ s.card \in visible
                        \/ r.card = None /\ s.card \notin visible
    <2>1. PICK s \in requests : r = IF s.card \in visible THEN s ELSE [s EXCEPT !.card = None]
      BY DEF ShowCards
    <2>2. s \in Request
      BY DEF HeartInv, HeartTypeOK
    <2>3. /\ [s EXCEPT !.card = None] \in Request /\ [s EXCEPT !.card = None].title = s.title
          /\ [s EXCEPT !.card = None].card = None
      BY <2>2 DEF Request
    <2> QED
      BY <2>1, <2>2, <2>3
  <1>5. HeartTypeOK'
    <2>1. \A r \in requests : r.card \in visible /\ r.card # None => cards'[r.card] \in Card
      BY <1>1, <1>2 DEF HeartInv, HeartTypeOK
    <2>2. clicks' \in Nat /\ rows' \in [Profile \cup {Zero} -> [Title -> Nat]]
          /\ solo' \subseteq CardId /\ requests' \subseteq Request
      BY <1>1, <1>4 DEF ShowCards, HeartInv, HeartTypeOK
    <2>3. \A r \in requests' : r.card # None =>
             r.card \in CardId /\ r.card[1] = r.title /\ cards'[r.card] \in Card
      BY <1>4, <2>1 DEF HeartInv, HeartTypeOK
    <2> QED
      BY <1>3, <2>2, <2>3 DEF HeartTypeOK
  <1>6. ASSUME NEW c \in solo' PROVE SoloRequest(c)' /\ SoloTruth(c)'
    <2>1. c \in solo /\ c \in visible /\ c \in CardId /\ cards'[c] = cards[c]
          /\ SoloRequest(c) /\ SoloTruth(c)
      BY <1>1 DEF HeartInv, HeartTypeOK, SoloRequest
    <2>2. \A r \in requests' : r.title = c[1] => r \in requests
      BY <1>4, <2>1 DEF SoloRequest
    <2>3. \A s \in requests : s.title = c[1] => s \in requests'
      BY <2>1 DEF ShowCards, SoloRequest
    <2>4. SoloRequest(c)'
      BY <1>1, <2>1, <2>2 DEF SoloRequest
    <2>5. SoloTruth(c)'
      BY <1>1, <2>1, <2>3 DEF SoloTruth
    <2> QED
      BY <2>4, <2>5
  <1> QED
    BY <1>5, <1>6 DEF HeartInv

LEMMA ClickHeartInv ==
    ASSUME HeartInv, NEW c \in CardId, ClickHeart(c)
    PROVE  HeartInv'
  <1> USE WatchlistAssumption
  <1>1. /\ cards[c] \in Card /\ rows' = rows /\ c[1] \in Title
        /\ cards \in [CardId -> Card \cup {None}]
    BY DEF ClickHeart, HeartInv, HeartTypeOK, CardId
  <1>2. /\ cards' \in [CardId -> Card \cup {None}]
        /\ cards'[c] \in Card /\ \A d \in CardId \ {c} : cards'[d] = cards[d]
    <2>1. [cards[c] EXCEPT !.busy = TRUE] \in Card
      BY <1>1 DEF Card
    <2>2. cards' = [cards EXCEPT ![c] = [cards[c] EXCEPT !.busy = TRUE]]
      BY DEF ClickHeart
    <2> QED
      BY <1>1, <2>1, <2>2
  <1>a. clicks + 1 \in Nat /\ clicks' = clicks + 1
    BY DEF ClickHeart, HeartInv, HeartTypeOK
  <1>3. PICK new \in Request : /\ requests' = requests \cup {new} /\ new.title = c[1]
                               /\ new.card = c /\ new.found = "unread"
    <2> DEFINE kind == IF cards[c].filled THEN "remove" ELSE "add"
               new == [n |-> clicks + 1, kind |-> kind, title |-> c[1], card |-> c,
                       found |-> "unread"]
    <2>1. requests' = requests \cup {new}
      BY <1>a DEF ClickHeart
    <2>2. new \in Request
      BY <1>1, <1>a DEF Request
    <2> QED
      BY <2>1, <2>2
  <1>4. /\ \A d \in solo' : \/ d \in solo /\ d[1] # c[1]
                            \/ d = c /\ \A r \in requests : r.title # c[1]
        /\ solo' \subseteq CardId
    BY DEF ClickHeart, HeartInv, HeartTypeOK
  <1>5. HeartTypeOK'
    <2>1. \A r \in requests : r.card # None => cards'[r.card] \in Card
      BY <1>2 DEF HeartInv, HeartTypeOK
    <2> QED
      BY <1>1, <1>2, <1>3, <1>4, <1>a, <2>1 DEF HeartInv, HeartTypeOK
  <1>6. ASSUME NEW d \in solo' PROVE SoloRequest(d)' /\ SoloTruth(d)'
    <2>1. CASE d \in solo /\ d[1] # c[1]
      <3>1. d \in CardId /\ d # c /\ cards'[d] = cards[d]
        BY <1>2, <2>1 DEF HeartInv, HeartTypeOK
      <3> QED
        BY <1>1, <1>3, <2>1, <3>1 DEF HeartInv, SoloRequest, SoloTruth
    <2>2. CASE d = c /\ \A r \in requests : r.title # c[1]
      BY <1>2, <1>3, <2>2 DEF SoloRequest, SoloTruth
    <2> QED
      BY <1>4, <2>1, <2>2
  <1> QED
    BY <1>5, <1>6 DEF HeartInv

(* What an answer does to the cards.                                       *)
LEMMA AnsweredCards ==
    ASSUME HeartInv, NEW r \in requests, NEW filled \in BOOLEAN, Answered(r, filled)
    PROVE  /\ cards' \in [CardId -> Card \cup {None}]
           /\ \A d \in CardId : d # r.card => cards'[d] = cards[d]
           /\ r.card # None => cards'[r.card] \in Card /\ cards'[r.card].filled = filled
  <1>1. CASE r.card = None
    BY <1>1 DEF Answered, HeartInv, HeartTypeOK
  <1>2. CASE r.card # None
    <2>1. /\ r.card \in CardId /\ cards[r.card] \in Card
          /\ cards \in [CardId -> Card \cup {None}]
      BY <1>2 DEF HeartInv, HeartTypeOK
    <2> DEFINE card == [cards[r.card] EXCEPT !.filled = filled, !.busy = FALSE]
    <2>2. card \in Card /\ card.filled = filled
      BY <2>1 DEF Card
    <2>3. cards' = [cards EXCEPT ![r.card] = card]
      BY <1>2, <2>1 DEF Answered
    <2> QED
      BY <2>1, <2>2, <2>3
  <1> QED
    BY <1>1, <1>2

(* A request leaves: cards about other titles keep what they have.         *)
LEMMA HeartAnswered ==
    ASSUME HeartInv, NEW r \in requests, NEW filled \in BOOLEAN, Answered(r, filled),
           requests' = requests \ {r}, solo' = solo, clicks' = clicks,
           rows' \in [Profile \cup {Zero} -> [Title -> Nat]],
           \A t \in Title : t # r.title => rows'[Zero][t] = rows[Zero][t],
           r.card \in solo => filled = (rows'[Zero][r.title] > 0)
    PROVE  HeartInv'
  <1> USE WatchlistAssumption
  <1>1. /\ cards' \in [CardId -> Card \cup {None}]
        /\ \A d \in CardId : d # r.card => cards'[d] = cards[d]
        /\ r.card # None => cards'[r.card] \in Card /\ cards'[r.card].filled = filled
    BY AnsweredCards
  <1>2. HeartTypeOK'
    <2>1. \A s \in requests : s.card # None => cards'[s.card] \in Card
      BY <1>1 DEF HeartInv, HeartTypeOK
    <2> QED
      BY <1>1, <2>1 DEF HeartInv, HeartTypeOK
  <1>3. ASSUME NEW c \in solo' PROVE SoloRequest(c)' /\ SoloTruth(c)'
    <2>1. c \in solo /\ c \in CardId /\ c # None /\ SoloRequest(c) /\ SoloTruth(c)
          /\ c[1] \in Title
      BY DEF HeartInv, HeartTypeOK, CardId
    <2>2. CASE r.title = c[1]
      <3>1. r.card = c /\ \A s \in requests' : s.title # c[1]
        BY <2>1, <2>2 DEF SoloRequest
      <3> QED
        BY <1>1, <2>1, <2>2, <3>1 DEF SoloRequest, SoloTruth
    <2>3. CASE r.title # c[1]
      <3>1. r.card # c /\ rows'[Zero][c[1]] = rows[Zero][c[1]]
        BY <2>1, <2>3 DEF HeartInv, HeartTypeOK
      <3>2. cards'[c] = cards[c]
        BY <1>1, <2>1, <3>1
      <3> QED
        BY <2>1, <2>3, <3>1, <3>2 DEF SoloRequest, SoloTruth
    <2> QED
      BY <2>2, <2>3
  <1> QED
    BY <1>2, <1>3 DEF HeartInv

LEMMA HeartStepInv ==
    ASSUME HeartInv, HeartStep
    PROVE  HeartInv'
  <1> USE WatchlistAssumption
  <1>1. CASE UNCHANGED <<cards, requests, rows, solo, clicks>>
    BY <1>1 DEF HeartInv, HeartTypeOK, SoloRequest, SoloTruth
  <1>2. ASSUME NEW r \in requests, FindListed(r) PROVE HeartInv'
    <2>1. PICK s \in Request :
                   /\ requests' = (requests \ {r}) \cup {s} /\ s.title = r.title
                   /\ s.card = r.card
                   /\ s.found = "yes" => rows[Zero][r.title] > 0
      <3> DEFINE f == IF rows[StoredUnder][r.title] > 0 THEN "yes" ELSE "no"
      <3>1. requests' = (requests \ {r}) \cup {[r EXCEPT !.found = f]}
        BY <1>2 DEF FindListed
      <3>2. f = "yes" => rows[Zero][r.title] > 0
        BY DEF StoredUnder
      <3>a. r \in Request /\ f \in {"yes", "no"}
        BY DEF HeartInv, HeartTypeOK
      <3> HIDE DEF f
      <3>3. LET s == [r EXCEPT !.found = f]
            IN  s \in Request /\ s.title = r.title /\ s.card = r.card /\ s.found = f
        BY <3>a DEF Request
      <3> QED
        BY <3>1, <3>2, <3>3
    <2>2. UNCHANGED <<cards, rows, solo, clicks>>
      BY <1>2 DEF FindListed
    <2>3. HeartTypeOK'
      BY <2>1, <2>2 DEF HeartInv, HeartTypeOK
    <2>4. ASSUME NEW c \in solo' PROVE SoloRequest(c)' /\ SoloTruth(c)'
      BY <2>1, <2>2 DEF HeartInv, SoloRequest, SoloTruth
    <2> QED
      BY <2>3, <2>4 DEF HeartInv
  <1>3. ASSUME NEW r \in requests, NEW p, StoreListed(r, p) PROVE HeartInv'
    <2>0. r.title \in Title /\ rows \in [Profile \cup {Zero} -> [Title -> Nat]]
      BY DEF HeartInv, HeartTypeOK, Request
    <2>1. Answered(r, TRUE) /\ requests' = requests \ {r} /\ UNCHANGED <<solo, clicks>>
      BY <1>3 DEF StoreListed
    <2>2. CASE r.found = "yes"
      <3>1. rows' = rows
        BY <1>3, <2>2 DEF StoreListed
      <3>2. r.card \in solo => rows[Zero][r.title] > 0
        BY <2>2 DEF HeartInv, HeartTypeOK, SoloRequest
      <3> QED
        BY <2>0, <2>1, <3>1, <3>2, HeartAnswered
    <2>3. CASE r.found # "yes"
      <3>1. rows' = [rows EXCEPT ![Zero] = [rows[Zero] EXCEPT ![r.title] = rows[Zero][r.title] + 1]]
        BY <1>3, <2>3 DEF StoreListed, StoredUnder
      <3>2. rows[Zero][r.title] + 1 \in Nat /\ rows[Zero][r.title] + 1 > 0
            /\ rows[Zero] \in [Title -> Nat]
        BY <2>0
      <3>3. /\ rows' \in [Profile \cup {Zero} -> [Title -> Nat]]
            /\ \A t \in Title : t # r.title => rows'[Zero][t] = rows[Zero][t]
            /\ rows'[Zero][r.title] > 0
        BY <2>0, <3>1, <3>2
      <3> QED
        BY <2>1, <3>3, HeartAnswered
    <2> QED
      BY <2>2, <2>3
  <1>4. ASSUME NEW r \in requests, RemoveListed(r) PROVE HeartInv'
    <2>0. r.title \in Title /\ rows \in [Profile \cup {Zero} -> [Title -> Nat]]
      BY DEF HeartInv, HeartTypeOK, Request
    <2>1. /\ Answered(r, FALSE) /\ requests' = requests \ {r} /\ UNCHANGED <<solo, clicks>>
          /\ rows' = [rows EXCEPT ![Zero] = [rows[Zero] EXCEPT ![r.title] = 0]]
      BY <1>4 DEF RemoveListed, StoredUnder
    <2>2. rows[Zero] \in [Title -> Nat]
      BY <2>0
    <2>3. /\ rows' \in [Profile \cup {Zero} -> [Title -> Nat]]
          /\ \A t \in Title : t # r.title => rows'[Zero][t] = rows[Zero][t]
          /\ FALSE = (rows'[Zero][r.title] > 0)
      BY <2>0, <2>1, <2>2
    <2> QED
      BY <2>1, <2>3, HeartAnswered
  <1>5. ASSUME NEW r \in requests, ToggleLost(r) PROVE HeartInv'
    <2>1. /\ r.card \in CardId /\ cards[r.card] \in Card
          /\ cards \in [CardId -> Card \cup {None}]
      BY <1>5 DEF ToggleLost, HeartInv, HeartTypeOK
    <2>2. /\ cards' \in [CardId -> Card \cup {None}] /\ cards'[r.card] \in Card
          /\ \A d \in CardId : d # r.card => cards'[d] = cards[d]
      <3>1. [cards[r.card] EXCEPT !.busy = FALSE] \in Card
        BY <2>1 DEF Card
      <3>2. cards' = [cards EXCEPT ![r.card] = [cards[r.card] EXCEPT !.busy = FALSE]]
        BY <1>5 DEF ToggleLost
      <3> QED
        BY <2>1, <3>1, <3>2
    <2>a. r \in Request
      BY DEF HeartInv, HeartTypeOK
    <2>b. LET s == [r EXCEPT !.card = None]
          IN  s \in Request /\ s.title = r.title /\ s.card = None
      BY <2>a DEF Request
    <2>3. /\ rows' = rows /\ solo' = solo \ {r.card} /\ clicks' = clicks
          /\ \A s \in requests' :
                s \in requests \/ (s \in Request /\ s.title = r.title /\ s.card = None)
          /\ requests \ {r} \subseteq requests'
      BY <1>5, <2>b DEF ToggleLost
    <2>4. HeartTypeOK'
      <3>1. \A s \in requests : s.card # None => cards'[s.card] \in Card
        BY <2>2 DEF HeartInv, HeartTypeOK
      <3> QED
        BY <2>2, <2>3, <3>1 DEF HeartInv, HeartTypeOK
    <2>5. ASSUME NEW c \in solo' PROVE SoloRequest(c)' /\ SoloTruth(c)'
      <3>1. c \in solo /\ c # r.card /\ c \in CardId /\ SoloRequest(c) /\ SoloTruth(c)
        BY <2>3 DEF HeartInv, HeartTypeOK
      <3>2. r.title # c[1] /\ cards'[c] = cards[c]
        BY <2>2, <3>1 DEF SoloRequest
      <3>3. /\ \A s \in requests' : s.title = c[1] => s \in requests
            /\ \A s \in requests : s.title = c[1] => s \in requests'
        BY <2>3, <3>2
      <3> QED
        BY <2>3, <3>1, <3>2, <3>3 DEF SoloRequest, SoloTruth
    <2> QED
      BY <2>4, <2>5 DEF HeartInv
  <1> QED
    BY <1>1, <1>2, <1>3, <1>4, <1>5, ShowCardsInv, ClickHeartInv DEF HeartStep

(* A heart is full if and only if the title is stored, when the last click *)
(* on the title met no other request about it, was answered and not lost:  *)
(* for any number of users, titles, cards and clicks.                      *)
THEOREM HeartsAgree == ViewerSpec => []HeartTellsTruth
  <1>1. ViewerInit => HeartInv
    BY DEF ViewerInit, WatchlistInit, HeartInv, HeartTypeOK
  <1>2. HeartInv /\ [ViewerNext]_viewerVars => HeartInv'
    BY HeartSteps, HeartStepInv
  <1>3. HeartInv => HeartTellsTruth
    BY DEF HeartInv, SoloTruth, HeartTellsTruth, StoredUnder
  <1> QED
    BY <1>1, <1>2, <1>3, PTL DEF ViewerSpec
=============================================================================
