--------------------------- MODULE ResumePosition ---------------------------
(***************************************************************************)
(* Playing a title and remembering how far it was watched: the video       *)
(* player of the viewer front end (VideoPlayer.jsx, opened and closed by   *)
(* MainApp in App.jsx) on top of the watch history of user-service         *)
(* (SaveHistory and GetHistory in handler/user.go).                        *)
(*                                                                         *)
(* A position is a number of five-second units plus a flag: a position     *)
(* that is not a whole number of seconds lies strictly behind its unit.    *)
(* The store keeps integers, and Go refuses to decode a JSON number with a *)
(* fraction into one.  The video element announces play and pause by       *)
(* events that are handled later; requests are answered in any order, and  *)
(* an answer may come when its player has been closed.                     *)
(***************************************************************************)
EXTENDS Integers, Sequences, FiniteSets, SequencesExt

CONSTANTS
    Profile, Title,
    WholeLength,  \* titles whose duration is a whole number of seconds
    Length,       \* their duration, in units, rounded down
    None,
    MaxVisits,    \* bound on players opened
    MaxSaves,     \* bound on saves sent
    MaxFaults     \* bound on lost requests and database errors

ASSUME ResumeAssumption ==
    /\ WholeLength \subseteq Title
    /\ Length \in Nat /\ Length > 2
    /\ {MaxVisits, MaxSaves, MaxFaults} \subseteq Nat

VARIABLES
    player,    \* the mounted player, or None
    loads,     \* GET /user/history in flight
    saves,     \* POST /user/history in flight
    history,   \* rows of watch_histories, by id
    posted,    \* history: positions sent, by profile and title
    kept,      \* history: position of the last save written
    raced,     \* history: profile and title with overlapping saves or a fault
    visits, sent, faults

counters == <<visits, sent, faults>>
ghosts == <<posted, kept, raced>>
resumeVars == <<player, loads, saves, history, ghosts, counters>>

Unit == 0..Length
Pair == Profile \X Title
Mounted ==
    [visit : 1..MaxVisits, profile : Profile, title : Title, at : Unit,
     whole : BOOLEAN, loaded : BOOLEAN, paused : BOOLEAN, playing : BOOLEAN,
     started : BOOLEAN, resumed : BOOLEAN, events : Seq({"play", "pause"})]
Load == [visit : 1..MaxVisits, profile : Profile, title : Title,
         read : BOOLEAN, reply : Unit \cup {None}]
Save == [n : 1..MaxSaves, profile : Profile, title : Title, at : Unit,
         sound : BOOLEAN, row : Nat \cup {None}]
Row == [profile : Profile, title : Title, at : Unit, watched : 1..MaxSaves]
KeyOfRow(r) == <<r.profile, r.title>>

(* Types; the counters stay within their bounds.                           *)
ResumeTypeOK ==
    /\ player \in Mounted \cup {None}
    /\ loads \subseteq Load /\ saves \subseteq Save
    /\ history \in Seq(Row)
    /\ posted \subseteq Pair \X Unit /\ raced \subseteq Pair
    /\ kept \in [Pair -> Unit \cup {None}]
    /\ visits \in 0..MaxVisits /\ sent \in 0..MaxSaves /\ faults \in 0..MaxFaults

ResumeInit ==
    /\ player = None /\ loads = {} /\ saves = {} /\ history = <<>>
    /\ posted = {} /\ raced = {} /\ kept = [k \in Pair |-> None]
    /\ visits = 0 /\ sent = 0 /\ faults = 0

-----------------------------------------------------------------------------
(* onPlay mounts a player, which asks for the history of its profile and   *)
(* tries to play: at once, muted, or not at all when the browser refuses.  *)
Open(p, t) ==
    /\ player = None
    /\ visits < MaxVisits
    /\ visits' = visits + 1
    /\ \E allowed \in BOOLEAN :
          player' = [visit |-> visits', profile |-> p, title |-> t, at |-> 0,
                     whole |-> TRUE, loaded |-> FALSE, paused |-> ~allowed,
                     playing |-> TRUE, started |-> allowed, resumed |-> FALSE,
                     events |-> IF allowed THEN <<"play">> ELSE <<>>]
    /\ loads' = loads \cup {[visit |-> visits', profile |-> p, title |-> t,
                             read |-> FALSE, reply |-> None]}
    /\ UNCHANGED <<saves, history, ghosts, sent, faults>>

(* closePlayer unmounts it.  "Save on unmount" runs when React has already *)
(* cleared vidRef, so saveProgress returns at its first line.              *)
Close ==
    /\ player # None
    /\ player' = None
    /\ UNCHANGED <<loads, saves, history, ghosts, counters>>

MoveTo(at, whole) == player' = [player EXCEPT !.at = at, !.whole = whole]

AtEnd ==
    /\ player.at = Length
    /\ player.title \in WholeLength \/ ~player.whole

(* durationchange: the length of the title is known from here on.          *)
Metadata ==
    /\ player # None /\ ~player.loaded
    /\ player' = [player EXCEPT !.loaded = TRUE]
    /\ UNCHANGED <<loads, saves, history, ghosts, counters>>

(* Playback advances, and rarely stops on a whole second.                  *)
Advance ==
    /\ player # None /\ player.loaded /\ ~player.paused /\ ~AtEnd
    /\ \E at \in {player.at, player.at + 1} \cap Unit, whole \in BOOLEAN :
          /\ at > player.at \/ (player.whole /\ ~whole)
          /\ at = Length /\ player.title \in WholeLength => whole
          /\ MoveTo(at, whole)
    /\ UNCHANGED <<loads, saves, history, ghosts, counters>>

(* The end of the title pauses the element.                                *)
ReachEnd ==
    /\ player # None /\ player.loaded /\ ~player.paused /\ AtEnd
    /\ player' = [player EXCEPT !.paused = TRUE,
                                !.events = Append(@, "pause")]
    /\ UNCHANGED <<loads, saves, history, ghosts, counters>>

(* togglePlay, once the events of the last click have been handled.        *)
(* Playing at the end starts over.                                         *)
TogglePlay ==
    /\ player # None /\ player.events = <<>>
    /\ LET again == player.paused /\ player.loaded /\ AtEnd IN
       player' = [player EXCEPT
           !.paused = ~@,
           !.started = TRUE,
           !.at = IF again THEN 0 ELSE @,
           !.whole = again \/ @,
           !.events = Append(@, IF player.paused THEN "play" ELSE "pause")]
    /\ UNCHANGED <<loads, saves, history, ghosts, counters>>

(* handleSeek: the slider steps by whole seconds.                          *)
Slide(at) ==
    /\ player # None
    /\ MoveTo(at, TRUE)
    /\ UNCHANGED <<loads, saves, history, ghosts, counters>>

(* seekRelative: ten seconds either way, within the title; before its      *)
(* length is known the new time is NaN, which the element refuses.         *)
SeekRelative(d) ==
    /\ player # None /\ player.loaded
    /\ \/ player.at + d \in Unit /\ MoveTo(player.at + d,
             player.whole \/ (player.at + d = Length /\ player.title \in WholeLength))
       \/ player.at + d < 0 /\ MoveTo(0, TRUE)
       \/ player.at + d > Length /\ MoveTo(Length, player.title \in WholeLength)
    /\ UNCHANGED <<loads, saves, history, ghosts, counters>>

-----------------------------------------------------------------------------
PastFive == player.at > 1 \/ (player.at = 1 /\ ~player.whole)

(* saveProgress.  sound: user-service can decode both numbers; a duration  *)
(* that is not known yet is sent as null, which decodes to 0.              *)
SaveProgress ==
    IF PastFive
    THEN /\ sent < MaxSaves
         /\ sent' = sent + 1
         /\ saves' = saves \cup {[n |-> sent', profile |-> player.profile,
               title |-> player.title, at |-> player.at,
               sound |-> player.whole
                         /\ (player.loaded => player.title \in WholeLength),
               row |-> None]}
         /\ posted' = posted \cup
               {<<<<player.profile, player.title>>, player.at>>}
    ELSE UNCHANGED <<saves, sent, posted>>

(* "Save progress periodically": the interval fires every ten seconds.     *)
Interval ==
    /\ player # None /\ ~player.paused
    /\ PastFive
    /\ SaveProgress
    /\ UNCHANGED <<player, loads, history, kept, raced, visits, faults>>

(* Faulty: onPause saves and does not call setPlaying.                     *)
HandleEventSilently ==
    /\ player # None /\ player.events # <<>>
    /\ LET e == Head(player.events) IN
       /\ player' = [player EXCEPT !.playing = (e = "play") \/ @, !.events = Tail(@)]
       /\ IF e = "pause" THEN SaveProgress ELSE UNCHANGED <<saves, sent, posted>>
    /\ UNCHANGED <<loads, history, kept, raced, visits, faults>>

(* onPlay and onPause; the latter saves.                                   *)
HandleEvent ==
    /\ player # None /\ player.events # <<>>
    /\ LET e == Head(player.events) IN
       /\ player' = [player EXCEPT !.playing = (e = "play"), !.events = Tail(@)]
       /\ IF e = "pause" THEN SaveProgress ELSE UNCHANGED <<saves, sent, posted>>
    /\ UNCHANGED <<loads, history, kept, raced, visits, faults>>

-----------------------------------------------------------------------------
RowsOf(k) == {i \in DOMAIN history : KeyOfRow(history[i]) = k}

(* GetHistory reads the rows of the profile, the one watched last first;   *)
(* the player picks the first one of its title.                            *)
Match(k) ==
    IF RowsOf(k) = {} THEN {None}
    ELSE {history[i].at : i \in {j \in RowsOf(k) :
             \A other \in RowsOf(k) : history[other].watched <= history[j].watched}}

AnswerLoad(l) ==
    /\ ~l.read
    /\ \E reply \in Match(<<l.profile, l.title>>) :
          loads' = (loads \ {l}) \cup {[l EXCEPT !.read = TRUE, !.reply = reply]}
    /\ UNCHANGED <<player, saves, history, ghosts, counters>>

LoadFails(l) ==
    /\ faults < MaxFaults
    /\ faults' = faults + 1
    /\ loads' = loads \ {l}
    /\ UNCHANGED <<player, saves, history, ghosts, visits, sent>>

(* Faulty: the answer moves whichever player is open.                      *)
HasAnyVideo(l) == player # None

(* The answer arrives; the vidRef of a closed player is null.              *)
HasVideo(l) == player # None /\ player.visit = l.visit

Resume(l) ==
    /\ l.read
    /\ loads' = loads \ {l}
    /\ player' = IF HasVideo(l) /\ l.reply # None /\ l.reply > 2
                 THEN [player EXCEPT !.at = l.reply, !.whole = TRUE, !.resumed = TRUE]
                 ELSE player
    /\ UNCHANGED <<saves, history, ghosts, counters>>

-----------------------------------------------------------------------------
SaveKey(s) == <<s.profile, s.title>>
Overlaps(s) == \E o \in saves \ {s} : SaveKey(o) = SaveKey(s)

(* ShouldBindJSON fails: 400, and the player only logs it.                 *)
RefuseSave(s) ==
    /\ s.row = None /\ ~s.sound
    /\ saves' = saves \ {s}
    /\ UNCHANGED <<player, loads, history, ghosts, counters>>

(* First: the row with the lowest id, or none.                             *)
Lowest(rows) ==
    IF rows = {} THEN {0} ELSE {i \in rows : \A j \in rows : i <= j}

(* Faulty: the row is looked up by media path alone.                       *)
LookUpTitle(s) == Lowest({i \in DOMAIN history : history[i].title = s.title})

(* Where profile_id = ? and media_path = ?                                 *)
LookUp(s) == Lowest(RowsOf(SaveKey(s)))

FindRow(s) ==
    /\ s.row = None /\ s.sound
    /\ \E row \in LookUp(s) : saves' = (saves \ {s}) \cup {[s EXCEPT !.row = row]}
    /\ raced' = IF Overlaps(s) THEN raced \cup {SaveKey(s)} ELSE raced
    /\ UNCHANGED <<player, loads, history, posted, kept, counters>>

(* Any database error is taken for "no such row".                          *)
FindRowFails(s) ==
    /\ s.row = None /\ s.sound
    /\ faults < MaxFaults
    /\ faults' = faults + 1
    /\ saves' = (saves \ {s}) \cup {[s EXCEPT !.row = 0]}
    /\ raced' = raced \cup {SaveKey(s)}
    /\ UNCHANGED <<player, loads, history, posted, kept, visits, sent>>

(* The time of a write: later than any before.                             *)
IsNow(w) ==
    /\ \A i \in DOMAIN history : history[i].watched < w
    /\ w = 1 \/ \E i \in DOMAIN history : history[i].watched = w - 1

(* Save: the row written becomes the latest one.  Create: the new row      *)
(* bears the time before its lookup, which other writes may have followed. *)
WriteRow(s) ==
    /\ s.row # None
    /\ saves' = saves \ {s}
    /\ \E now, time \in 1..MaxSaves :
          /\ IsNow(now)
          /\ time = now \/ (s.row = 0 /\ time < now)
          /\ LET new == [profile |-> s.profile, title |-> s.title, at |-> s.at,
                         watched |-> time] IN
             history' = IF s.row = 0 THEN Append(history, new)
                        ELSE [history EXCEPT ![s.row] = new]
    /\ kept' = [kept EXCEPT ![SaveKey(s)] = s.at]
    /\ UNCHANGED <<player, loads, posted, raced, counters>>

SaveLost(s) ==
    /\ s.row = None
    /\ faults < MaxFaults
    /\ faults' = faults + 1
    /\ saves' = saves \ {s}
    /\ UNCHANGED <<player, loads, history, ghosts, visits, sent>>

ServeSave(s) == RefuseSave(s) \/ FindRow(s) \/ WriteRow(s)
Viewer ==
    \/ \E p \in Profile, t \in Title : Open(p, t)
    \/ Close \/ TogglePlay
    \/ \E at \in Unit : Slide(at)
    \/ \E d \in {-2, 2} : SeekRelative(d)
Element == Metadata \/ Advance \/ ReachEnd \/ Interval
Faults ==
    \/ \E l \in loads : LoadFails(l)
    \/ \E s \in saves : FindRowFails(s) \/ SaveLost(s)

ResumeNext ==
    \/ Viewer \/ Element \/ HandleEvent
    \/ \E l \in loads : AnswerLoad(l) \/ Resume(l)
    \/ \E s \in saves : ServeSave(s)
    \/ Faults

ResumeSpec == ResumeInit /\ [][ResumeNext]_resumeVars

-----------------------------------------------------------------------------
(* A player resumes at a position that its own profile was at in its own   *)
(* title (VideoPlayer.jsx:34-44), whatever was opened, saved and closed    *)
(* while the answer was on its way.                                        *)
ResumesOwnProgress ==
    [][player # None /\ player' # None /\ ~player.resumed /\ player'.resumed =>
          <<<<player.profile, player.title>>, player'.at>> \in posted]_resumeVars

(* SaveHistory keeps one row per profile and title, and GetHistory offers  *)
(* the position written last, as long as no two saves of that profile and  *)
(* title are served together and no lookup fails: neither a transaction    *)
(* nor a unique index makes it so otherwise (user.go:131-141).             *)
SerialSavesKept ==
    \A k \in Pair \ raced :
        (\A i, j \in RowsOf(k) : i = j) /\ Match(k) = {kept[k]}

(* The play button shows what the video does once the events it announced  *)
(* have been handled, unless the browser refused to start it.              *)
ButtonTellsTruth ==
    player # None /\ player.started /\ player.events = <<>> =>
        player.playing = ~player.paused
=============================================================================
