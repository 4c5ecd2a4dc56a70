----------------------- MODULE ResumePositionProofs -----------------------
(* Safety of the player and its watch history, for any profiles, titles    *)
(* and lengths, any number of players opened, saves and failures.          *)
EXTENDS ResumePosition, SequenceTheorems, TLAPS

Event == {"play", "pause"}

(* The last event that is still to be handled tells the state of the video.*)
LastEventTrue ==
    player # None /\ player.events # <<>> =>
        player.events[Len(player.events)] = IF player.paused THEN "pause" ELSE "play"

(* What is in flight or stored was posted, and an answer for the open      *)
(* player is about its profile and title.                                  *)
LoadKey(l) == <<l.profile, l.title>>

OnlyPosted ==
    /\ \A s \in saves : <<SaveKey(s), s.at>> \in posted
    /\ \A i \in DOMAIN history : <<KeyOfRow(history[i]), history[i].at>> \in posted
    /\ \A l \in loads : l.read /\ l.reply # None => <<LoadKey(l), l.reply>> \in posted

OwnLoad ==
    /\ player # None => player.visit <= visits
    /\ \A l \in loads :
          /\ l.visit <= visits
          /\ player # None /\ player.visit = l.visit =>
                LoadKey(l) = <<player.profile, player.title>>

(* A save that has found a row found one of its own; and where no saves    *)
(* overlapped, the saves that have looked up are one at most, and it is    *)
(* about to write the only row there is, or the first one.                 *)
FoundOwnRow ==
    \A s \in saves : s.row \notin {None, 0} => s.row \in RowsOf(SaveKey(s))

Serial(k) ==
    /\ \A i, j \in RowsOf(k) : i = j
    /\ \A i \in RowsOf(k) : history[i].at = kept[k]
    /\ RowsOf(k) = {} => kept[k] = None
    /\ \A s \in saves : SaveKey(s) = k /\ s.row # None =>
          /\ s.row = 0 => RowsOf(k) = {}
          /\ \A o \in saves : SaveKey(o) = k /\ o.row # None => o = s

ResumeInv ==
    /\ ResumeTypeOK /\ LastEventTrue /\ ButtonTellsTruth /\ OnlyPosted /\ OwnLoad
    /\ FoundOwnRow /\ \A k \in Pair \ raced : Serial(k)

-----------------------------------------------------------------------------
(* What the steps of the player leave alone of it.                         *)
Alike(m, n) ==
    /\ m.visit = n.visit /\ m.profile = n.profile /\ m.title = n.title
    /\ m.resumed = n.resumed

Still(m, n) ==
    /\ m.paused = n.paused /\ m.playing = n.playing /\ m.started = n.started
    /\ m.events = n.events

LEMMA MovedPlayer ==
    ASSUME NEW m \in Mounted, NEW at \in Unit, NEW whole \in BOOLEAN
    PROVE  /\ LET n == [m EXCEPT !.at = at, !.whole = whole] IN
              n \in Mounted /\ Alike(n, m) /\ Still(n, m)
           /\ LET n == [m EXCEPT !.loaded = TRUE] IN
              n \in Mounted /\ Alike(n, m) /\ Still(n, m)
           /\ LET n == [m EXCEPT !.at = at, !.whole = whole, !.resumed = TRUE] IN
              /\ n \in Mounted /\ Still(n, m) /\ n.at = at
              /\ n.visit = m.visit /\ n.profile = m.profile /\ n.title = m.title
  BY DEF Mounted, Alike, Still

(* An event is appended to the others, or the first of them is handled.    *)
LEMMA EventAdded ==
    ASSUME NEW s \in Seq(Event), NEW e \in Event
    PROVE  LET t == Append(s, e) IN t \in Seq(Event) /\ t # <<>> /\ t[Len(t)] = e
  <1>1. /\ Append(s, e) \in Seq(Event) /\ Len(Append(s, e)) = Len(s) + 1
        /\ Append(s, e)[Len(s) + 1] = e
    BY AppendProperties
  <1> QED
    BY <1>1, LenProperties, EmptySeq

LEMMA EventHandled ==
    ASSUME NEW S, NEW s \in Seq(S), s # <<>>
    PROVE  /\ Head(s) \in S /\ Tail(s) \in Seq(S)
           /\ Tail(s) = <<>> => Head(s) = s[Len(s)]
           /\ Tail(s) # <<>> => Tail(s)[Len(Tail(s))] = s[Len(s)]
  <1>1. /\ Head(s) \in S /\ Tail(s) \in Seq(S) /\ Len(Tail(s)) = Len(s) - 1
        /\ \A i \in 1..Len(Tail(s)) : Tail(s)[i] = s[i + 1]
        /\ Len(s) \in Nat \ {0} /\ Head(s) = s[1]
    <2>1. Len(s) \in Nat \ {0}
      BY EmptySeq
    <2>2. /\ Head(s) \in S /\ Tail(s) \in Seq(S) /\ Len(Tail(s)) = Len(s) - 1
          /\ \A i \in 1..Len(Tail(s)) : Tail(s)[i] = s[i + 1]
      BY HeadTailProperties
    <2>3. Head(s) = s[1]
      BY EmptySeq, HeadTailProperties
    <2> QED
      BY <2>1, <2>2, <2>3
  <1>2. Tail(s) = <<>> => Len(s) = 1
    <2>1. Len(<<>>) = 0
      BY EmptySeq
    <2>2. Tail(s) = <<>> => Len(Tail(s)) = 0
      BY <2>1, Zenon
    <2> QED
      BY <1>1, <2>2
  <1>3. Tail(s) # <<>> => Len(Tail(s)) \in Nat \ {0}
    BY <1>1, EmptySeq
  <1> QED
    BY <1>1, <1>2, <1>3

-----------------------------------------------------------------------------
(* The steps of the player that send and receive nothing.                  *)
PlayerOnly ==
    \/ Close \/ TogglePlay \/ Metadata \/ Advance \/ ReachEnd
    \/ \E at \in Unit : Slide(at)
    \/ \E d \in {-2, 2} : SeekRelative(d)

LEMMA PlayerKinds ==
    ASSUME ResumeInv, PlayerOnly
    PROVE  /\ UNCHANGED <<loads, saves, history, ghosts, counters>>
           /\ \/ player' = None
              \/ /\ player # None /\ player' \in Mounted /\ Alike(player', player)
                 /\ \/ Still(player', player)
                    \/ /\ LastEventTrue' /\ player'.events # <<>>
  <1>1. CASE Close
    BY <1>1 DEF Close
  <1>2. ASSUME player # None PROVE player \in Mounted /\ player.events \in Seq(Event)
    BY <1>2 DEF ResumeInv, ResumeTypeOK, Mounted, Event
  <1>3. Length \in Nat /\ Length > 2
    BY ResumeAssumption
  <1>4. CASE Metadata
    <2>1. 0 \in Unit /\ TRUE \in BOOLEAN /\ player \in Mounted
      BY <1>2, <1>3, <1>4 DEF Metadata, Unit
    <2>2. LET n == [player EXCEPT !.loaded = TRUE] IN
          n \in Mounted /\ Alike(n, player) /\ Still(n, player)
      BY <2>1, MovedPlayer
    <2> QED
      BY <1>4, <2>2 DEF Metadata
  <1>5. ASSUME NEW at \in Unit, NEW whole \in BOOLEAN, player # None, MoveTo(at, whole)
        PROVE  player' \in Mounted /\ Alike(player', player) /\ Still(player', player)
    BY <1>2, <1>5, MovedPlayer DEF MoveTo
  <1>6. CASE Advance
    BY <1>5, <1>6 DEF Advance
  <1>7. CASE \E at \in Unit : Slide(at)
    BY <1>5, <1>7 DEF Slide
  <1>8. ASSUME NEW d \in {-2, 2}, SeekRelative(d)
        PROVE  \E at \in Unit, whole \in BOOLEAN : MoveTo(at, whole)
    <2>1. player \in Mounted /\ 0 \in Unit /\ Length \in Unit
      BY <1>2, <1>3, <1>8 DEF SeekRelative, Unit
    <2>2. player.whole \in BOOLEAN
      BY <2>1 DEF Mounted
    <2> DEFINE w == player.whole \/ (player.at + d = Length /\ player.title \in WholeLength)
               v == player.title \in WholeLength
    <2>3. w \in BOOLEAN
      BY <2>2
    <2>5. v \in BOOLEAN
      OBVIOUS
    <2>4. \/ player.at + d \in Unit /\ MoveTo(player.at + d, w)
          \/ MoveTo(0, TRUE) \/ MoveTo(Length, v)
      BY <1>8 DEF SeekRelative
    <2> HIDE DEF w, v
    <2> QED
      BY <2>1, <2>3, <2>4, <2>5
  <1>9. CASE \E d \in {-2, 2} : SeekRelative(d)
    BY <1>5, <1>8, <1>9 DEF SeekRelative
  <1>10. CASE ReachEnd
    <2>1. player \in Mounted /\ player.events \in Seq(Event) /\ player # None
      BY <1>2, <1>10 DEF ReachEnd
    <2>2. PICK t \in Seq(Event) : /\ t = Append(player.events, "pause")
                                  /\ t # <<>> /\ t[Len(t)] = "pause"
      BY <2>1, EventAdded DEF Event
    <2>3. player' = [player EXCEPT !.paused = TRUE, !.events = t]
      BY <1>10, <2>2 DEF ReachEnd
    <2>4. \A m \in Mounted : LET n == [m EXCEPT !.paused = TRUE, !.events = t] IN
             n \in Mounted /\ Alike(n, m) /\ n.paused = TRUE /\ n.events = t
      BY DEF Mounted, Alike, Event
    <2>5. /\ player' \in Mounted /\ Alike(player', player) /\ player'.paused = TRUE
          /\ player'.events = t
      BY <2>1, <2>3, <2>4
    <2>6. LastEventTrue'
      BY <2>2, <2>5 DEF LastEventTrue
    <2> QED
      BY <1>10, <2>1, <2>2, <2>5, <2>6 DEF ReachEnd
  <1>11. CASE TogglePlay
    <2>1. player \in Mounted /\ player.events \in Seq(Event) /\ player # None
      BY <1>2, <1>11 DEF TogglePlay
    <2>2. PICK e \in Event : e = IF player.paused THEN "play" ELSE "pause"
      BY DEF Event
    <2>3. PICK t \in Seq(Event) : /\ t = Append(player.events, e)
                                  /\ t # <<>> /\ t[Len(t)] = e
      BY <2>1, EventAdded
    <2>4. PICK again \in BOOLEAN : again = (player.paused /\ player.loaded /\ AtEnd)
      BY <2>1 DEF Mounted
    <2>10. PICK at \in Unit, whole \in BOOLEAN :
              /\ at = (IF again THEN 0 ELSE player.at)
              /\ whole = (again \/ player.whole)
      <3>1. player.at \in Unit /\ player.whole \in BOOLEAN /\ 0 \in Unit
        BY <1>3, <2>1 DEF Mounted, Unit
      <3>2. (again \/ player.whole) \in BOOLEAN
        BY <3>1
      <3> QED
        BY <3>1, <3>2
    <2>11. PICK paused \in BOOLEAN : paused = ~player.paused
      BY <2>1 DEF Mounted
    <2>5. player' = [player EXCEPT !.paused = paused, !.started = TRUE, !.at = at,
                                   !.whole = whole, !.events = t]
      BY <1>11, <2>2, <2>3, <2>4, <2>10, <2>11 DEF TogglePlay
    <2>6. \A m \in Mounted :
             LET n == [m EXCEPT !.paused = paused, !.started = TRUE, !.at = at,
                                !.whole = whole, !.events = t] IN
             n \in Mounted /\ Alike(n, m) /\ n.paused = paused /\ n.events = t
      BY DEF Mounted, Alike, Event
    <2>7. /\ player' \in Mounted /\ Alike(player', player)
          /\ player'.paused = ~player.paused /\ player'.events = t
      BY <2>1, <2>5, <2>6, <2>11
    <2>8. player.paused \in BOOLEAN
      BY <2>1 DEF Mounted
    <2>9. LastEventTrue'
      BY <2>2, <2>3, <2>7, <2>8 DEF LastEventTrue
    <2> QED
      BY <1>11, <2>1, <2>3, <2>7, <2>9 DEF TogglePlay
  <1> QED
    BY <1>1, <1>4, <1>5, <1>6, <1>7, <1>9, <1>10, <1>11
       DEF PlayerOnly, Metadata, Advance, Slide, SeekRelative

StoreInv == OnlyPosted /\ FoundOwnRow /\ \A k \in Pair \ raced : Serial(k)

LEMMA StoreKept ==
    ASSUME StoreInv, UNCHANGED <<loads, saves, history, ghosts>>
    PROVE  StoreInv'
  BY DEF StoreInv, ghosts, OnlyPosted, FoundOwnRow, Serial, RowsOf

LEMMA ResumeInitInv == ResumeInit => ResumeInv
  <1> SUFFICES ASSUME ResumeInit PROVE ResumeInv
    OBVIOUS
  <1>1. history \in Seq(Row) /\ \A i \in DOMAIN history : FALSE
    BY EmptySeq DEF ResumeInit
  <1>2. ResumeTypeOK
    BY <1>1, ResumeAssumption DEF ResumeInit, ResumeTypeOK
  <1>3. \A k \in Pair : RowsOf(k) = {}
    BY <1>1 DEF RowsOf
  <1>4. \A k \in Pair \ raced : Serial(k)
    BY <1>3 DEF ResumeInit, Serial
  <1> QED
    BY <1>1, <1>2, <1>4
       DEF ResumeInit, ResumeInv, LastEventTrue, ButtonTellsTruth, OnlyPosted, OwnLoad,
           FoundOwnRow

(* The player moves, or the load of the open player is still its own.      *)
LEMMA PlayerChanges ==
    ASSUME ResumeInv, player # None, player' \in Mounted, visits' = visits,
           loads' \subseteq loads,
           player'.visit = player.visit, player'.profile = player.profile,
           player'.title = player.title,
           Still(player', player) \/ (LastEventTrue' /\ player'.events # <<>>)
    PROVE  LastEventTrue' /\ ButtonTellsTruth' /\ OwnLoad'
  <1>1. OwnLoad'
    BY DEF ResumeInv, OwnLoad, LoadKey
  <1>2. CASE Still(player', player)
    BY <1>1, <1>2 DEF ResumeInv, Still, LastEventTrue, ButtonTellsTruth
  <1>3. CASE LastEventTrue' /\ player'.events # <<>>
    BY <1>1, <1>3 DEF ButtonTellsTruth
  <1> QED
    BY <1>2, <1>3

LEMMA PlayerOnlyInv ==
    ASSUME ResumeInv, PlayerOnly
    PROVE  ResumeInv'
  <1>1. UNCHANGED <<loads, saves, history, ghosts, counters>>
    BY PlayerKinds
  <1>2. StoreInv'
    BY <1>1, StoreKept DEF ResumeInv, StoreInv
  <1>3. player' \in Mounted \cup {None} /\ LastEventTrue' /\ ButtonTellsTruth' /\ OwnLoad'
    <2>1. CASE player' = None
      BY <1>1, <2>1 DEF counters, ResumeInv, LastEventTrue, ButtonTellsTruth, OwnLoad
    <2>2. CASE player' # None
      BY <1>1, <2>2, PlayerKinds, PlayerChanges DEF counters, Alike
    <2> QED
      BY <2>1, <2>2
  <1>4. ResumeTypeOK'
    BY <1>1, <1>3 DEF ghosts, counters, ResumeInv, ResumeTypeOK
  <1> QED
    BY <1>2, <1>3, <1>4 DEF ResumeInv, StoreInv

LEMMA OpenInv ==
    ASSUME ResumeInv, NEW p \in Profile, NEW t \in Title, Open(p, t)
    PROVE  ResumeInv'
  <1>1. visits' = visits + 1 /\ visits' \in 1..MaxVisits /\ visits \in Nat
    BY ResumeAssumption DEF Open, ResumeInv, ResumeTypeOK
  <1>2. PICK allowed \in BOOLEAN :
          player' = [visit |-> visits', profile |-> p, title |-> t, at |-> 0,
                     whole |-> TRUE, loaded |-> FALSE, paused |-> ~allowed,
                     playing |-> TRUE, started |-> allowed, resumed |-> FALSE,
                     events |-> IF allowed THEN <<"play">> ELSE <<>>]
    BY DEF Open
  <1>3. PICK e \in Seq(Event) :
          /\ e = IF allowed THEN <<"play">> ELSE <<>>
          /\ e # <<>> => allowed /\ e[Len(e)] = "play"
          /\ e = <<>> => ~allowed
    <2>1. <<>> \in Seq(Event)
      BY EmptySeq
    <2>2. /\ Append(<<>>, "play") \in Seq(Event) /\ Append(<<>>, "play") # <<>>
          /\ Append(<<>>, "play")[Len(Append(<<>>, "play"))] = "play"
      BY <2>1, EventAdded DEF Event
    <2>3. <<"play">> = Append(<<>>, "play")
      OBVIOUS
    <2> QED
      BY <2>1, <2>2, <2>3
  <1>4. 0 \in Unit
    BY ResumeAssumption DEF Unit
  <1>5. /\ player' \in Mounted /\ player'.visit = visits' /\ player'.profile = p
        /\ player'.title = t /\ player'.events = e /\ player'.started = allowed
        /\ player'.paused = ~allowed /\ player'.playing = TRUE
    BY <1>1, <1>2, <1>3, <1>4 DEF Mounted, Event
  <1>6. PICK l \in Load : /\ loads' = loads \cup {l} /\ l.visit = visits' /\ ~l.read
                          /\ LoadKey(l) = <<p, t>>
    <2> DEFINE new == [visit |-> visits', profile |-> p, title |-> t, read |-> FALSE,
                       reply |-> None]
    <2>1. new \in Load
      BY <1>1 DEF Load
    <2>2. loads' = loads \cup {new}
      BY DEF Open
    <2> QED
      BY <2>1, <2>2 DEF LoadKey
  <1>7. UNCHANGED <<saves, history, ghosts, sent, faults>>
    BY DEF Open
  <1>8. ResumeTypeOK'
    BY <1>1, <1>5, <1>6, <1>7 DEF ghosts, ResumeInv, ResumeTypeOK
  <1>9. LastEventTrue' /\ ButtonTellsTruth'
    BY <1>3, <1>5 DEF LastEventTrue, ButtonTellsTruth
  <1>10. OwnLoad'
    <2>1. \A m \in loads : m.visit \in Nat /\ m.visit <= visits
      BY DEF ResumeInv, ResumeTypeOK, OwnLoad, Load
    <2>2. \A m \in loads : m.visit <= visits' /\ m.visit # visits'
      BY <1>1, <2>1
    <2> QED
      BY <1>1, <1>5, <1>6, <2>2 DEF OwnLoad
  <1>11. OnlyPosted' /\ FoundOwnRow' /\ \A k \in (Pair \ raced)' : Serial(k)'
    BY <1>6, <1>7 DEF ghosts, ResumeInv, OnlyPosted, FoundOwnRow, Serial, RowsOf
  <1> QED
    BY <1>8, <1>9, <1>10, <1>11 DEF ResumeInv

-----------------------------------------------------------------------------
(* Saves are sent by the interval and by the handler of the pause event.   *)
NewSave ==
    \/ UNCHANGED <<saves, sent, posted>>
    \/ /\ sent < MaxSaves /\ sent' = sent + 1
       /\ \E s \in Save : /\ s.row = None /\ saves' = saves \cup {s}
                          /\ posted' = posted \cup {<<SaveKey(s), s.at>>}

LEMMA SaveSent ==
    ASSUME ResumeInv, player # None, SaveProgress
    PROVE  NewSave
  <1>1. player \in Mounted /\ sent \in Nat
    BY DEF ResumeInv, ResumeTypeOK
  <1>2. CASE PastFive
    <2> DEFINE sound == player.whole /\ (player.loaded => player.title \in WholeLength)
    <2>1. sent' \in 1..MaxSaves
      BY <1>1, <1>2, ResumeAssumption DEF SaveProgress
    <2>2. PICK b \in BOOLEAN : b = sound
      BY <1>1 DEF Mounted
    <2> DEFINE new == [n |-> sent', profile |-> player.profile, title |-> player.title,
                       at |-> player.at, sound |-> b, row |-> None]
    <2>3. new \in Save /\ SaveKey(new) = <<player.profile, player.title>>
          /\ new.at = player.at /\ new.row = None
      BY <1>1, <2>1 DEF Save, SaveKey, Mounted
    <2>4. /\ saves' = saves \cup {new}
          /\ posted' = posted \cup {<<<<player.profile, player.title>>, player.at>>}
          /\ sent < MaxSaves /\ sent' = sent + 1
      BY <1>2, <2>2 DEF SaveProgress
    <2> HIDE DEF new
    <2> QED
      BY <2>3, <2>4 DEF NewSave
  <1>3. CASE ~PastFive
    BY <1>3 DEF SaveProgress, NewSave
  <1> QED
    BY <1>2, <1>3

LEMMA NewSaveInv ==
    ASSUME ResumeInv, NewSave, UNCHANGED <<loads, history, kept, raced, visits, faults>>,
           player' \in Mounted \cup {None}, LastEventTrue', ButtonTellsTruth', OwnLoad'
    PROVE  ResumeInv'
  <1>1. CASE UNCHANGED <<saves, sent, posted>>
    BY <1>1 DEF ResumeInv, ResumeTypeOK, OnlyPosted, FoundOwnRow, Serial, RowsOf
  <1>2. ASSUME sent < MaxSaves, sent' = sent + 1, NEW s \in Save, s.row = None,
               saves' = saves \cup {s}, posted' = posted \cup {<<SaveKey(s), s.at>>}
        PROVE  ResumeInv'
    <2>1. SaveKey(s) \in Pair /\ s.at \in Unit
      BY DEF Save, SaveKey, Pair
    <2>2. sent' \in 0..MaxSaves
      BY <1>2, ResumeAssumption DEF ResumeInv, ResumeTypeOK
    <2>3. ResumeTypeOK'
      BY <1>2, <2>1, <2>2 DEF ResumeInv, ResumeTypeOK
    <2>4. OnlyPosted'
      BY <1>2 DEF ResumeInv, OnlyPosted
    <2>5. FoundOwnRow'
      BY <1>2 DEF ResumeInv, FoundOwnRow, RowsOf
    <2>6. \A k \in (Pair \ raced)' : Serial(k)'
      BY <1>2 DEF ResumeInv, Serial, RowsOf
    <2> QED
      BY <2>3, <2>4, <2>5, <2>6 DEF ResumeInv
  <1> QED
    BY <1>1, <1>2 DEF NewSave

LEMMA IntervalInv ==
    ASSUME ResumeInv, Interval
    PROVE  ResumeInv'
  <1>1. NewSave /\ UNCHANGED <<player, loads, history, kept, raced, visits, faults>>
    BY SaveSent DEF Interval
  <1>2. player' \in Mounted \cup {None} /\ LastEventTrue' /\ ButtonTellsTruth' /\ OwnLoad'
    BY <1>1 DEF ResumeInv, ResumeTypeOK, LastEventTrue, ButtonTellsTruth, OwnLoad
  <1> QED
    BY <1>1, <1>2, NewSaveInv

LEMMA HandleEventInv ==
    ASSUME ResumeInv, HandleEvent
    PROVE  ResumeInv' /\ Alike(player', player)
  <1>1. player # None /\ player \in Mounted /\ player.events # <<>>
        /\ player.events \in Seq(Event)
    BY DEF HandleEvent, ResumeInv, ResumeTypeOK, Mounted, Event
  <1>2. PICK e \in Event, rest \in Seq(Event) :
          /\ e = Head(player.events) /\ rest = Tail(player.events)
          /\ rest = <<>> => e = player.events[Len(player.events)]
          /\ rest # <<>> => rest[Len(rest)] = player.events[Len(player.events)]
    BY <1>1, EventHandled
  <1>3. /\ player' = [player EXCEPT !.playing = (e = "play"), !.events = rest]
        /\ IF e = "pause" THEN SaveProgress ELSE UNCHANGED <<saves, sent, posted>>
        /\ UNCHANGED <<loads, history, kept, raced, visits, faults>>
    BY <1>2 DEF HandleEvent
  <1>4. NewSave
    BY <1>1, <1>3, SaveSent DEF NewSave
  <1>5. PICK playing \in BOOLEAN : playing = (e = "play")
    OBVIOUS
  <1>6. \A m \in Mounted : LET n == [m EXCEPT !.playing = playing, !.events = rest] IN
           /\ n \in Mounted /\ Alike(n, m) /\ n.playing = playing /\ n.events = rest
           /\ n.paused = m.paused /\ n.started = m.started
    BY DEF Mounted, Alike, Event
  <1>7. /\ player' \in Mounted /\ Alike(player', player) /\ player'.playing = playing
        /\ player'.events = rest /\ player'.paused = player.paused
    BY <1>1, <1>3, <1>5, <1>6
  <1>8. player.events[Len(player.events)] = IF player.paused THEN "pause" ELSE "play"
    BY <1>1 DEF ResumeInv, LastEventTrue
  <1>9. LastEventTrue'
    BY <1>2, <1>7, <1>8 DEF LastEventTrue
  <1>10. player.paused \in BOOLEAN
    BY <1>1 DEF Mounted
  <1>11. ButtonTellsTruth'
    <2>1. CASE rest = <<>>
      <3>1. playing = ~player.paused
        BY <1>2, <1>5, <1>8, <1>10, <2>1
      <3> QED
        BY <1>7, <3>1 DEF ButtonTellsTruth
    <2>2. CASE rest # <<>>
      BY <1>7, <2>2 DEF ButtonTellsTruth
    <2> QED
      BY <2>1, <2>2
  <1>12. OwnLoad'
    BY <1>1, <1>3, <1>7 DEF ResumeInv, OwnLoad, Alike
  <1> QED
    BY <1>3, <1>4, <1>7, <1>9, <1>11, <1>12, NewSaveInv

-----------------------------------------------------------------------------
(* Loads are answered with positions that were posted, if any.             *)
LEMMA MatchPosted ==
    ASSUME ResumeInv, NEW k, NEW reply \in Match(k)
    PROVE  reply \in Unit \cup {None} /\ (reply # None => <<k, reply>> \in posted)
  <1>1. \A i \in RowsOf(k) : history[i].at \in Unit /\ <<k, history[i].at>> \in posted
    <2>1. \A i \in DOMAIN history : history[i] \in Row
      BY ElementOfSeq DEF ResumeInv, ResumeTypeOK
    <2> QED
      BY <2>1 DEF RowsOf, Row, ResumeInv, OnlyPosted
  <1>2. reply = None \/ \E i \in RowsOf(k) : reply = history[i].at
    BY DEF Match
  <1> QED
    BY <1>1, <1>2

LEMMA AnswerLoadInv ==
    ASSUME ResumeInv, NEW l \in loads, AnswerLoad(l)
    PROVE  ResumeInv'
  <1>1. PICK reply \in Match(LoadKey(l)) :
           loads' = (loads \ {l}) \cup {[l EXCEPT !.read = TRUE, !.reply = reply]}
    BY DEF AnswerLoad, LoadKey
  <1>2. l \in Load /\ reply \in Unit \cup {None}
        /\ (reply # None => <<LoadKey(l), reply>> \in posted)
    BY MatchPosted DEF ResumeInv, ResumeTypeOK
  <1>3. PICK new \in Load :
           /\ loads' = (loads \ {l}) \cup {new} /\ LoadKey(new) = LoadKey(l)
           /\ new.visit = l.visit /\ new.reply = reply
    <2>1. \A m \in Load : LET n == [m EXCEPT !.read = TRUE, !.reply = reply] IN
             /\ n \in Load /\ LoadKey(n) = LoadKey(m) /\ n.visit = m.visit
             /\ n.reply = reply
      BY <1>2 DEF Load, LoadKey
    <2> QED
      BY <1>1, <1>2, <2>1
  <1>4. UNCHANGED <<player, saves, history, ghosts, counters>>
    BY DEF AnswerLoad
  <1>5. ResumeTypeOK'
    BY <1>3, <1>4 DEF ghosts, counters, ResumeInv, ResumeTypeOK
  <1>6. OnlyPosted'
    BY <1>2, <1>3, <1>4 DEF ghosts, ResumeInv, OnlyPosted
  <1>7. OwnLoad'
    BY <1>3, <1>4 DEF counters, ResumeInv, OwnLoad
  <1>8. FoundOwnRow' /\ \A k \in (Pair \ raced)' : Serial(k)'
    BY <1>4 DEF ghosts, ResumeInv, FoundOwnRow, Serial, RowsOf
  <1>9. LastEventTrue' /\ ButtonTellsTruth'
    BY <1>4 DEF ResumeInv, LastEventTrue, ButtonTellsTruth
  <1> QED
    BY <1>5, <1>6, <1>7, <1>8, <1>9 DEF ResumeInv

LEMMA LoadGone ==
    ASSUME ResumeInv, NEW l \in loads, loads' = loads \ {l},
           UNCHANGED <<saves, history, ghosts, visits, sent>>, faults' \in 0..MaxFaults,
           player' \in Mounted \cup {None}, LastEventTrue', ButtonTellsTruth', OwnLoad'
    PROVE  ResumeInv'
  <1>1. ResumeTypeOK'
    BY DEF ghosts, ResumeInv, ResumeTypeOK
  <1>2. OnlyPosted' /\ FoundOwnRow' /\ \A k \in (Pair \ raced)' : Serial(k)'
    BY DEF ghosts, ResumeInv, OnlyPosted, FoundOwnRow, Serial, RowsOf
  <1> QED
    BY <1>1, <1>2 DEF ResumeInv

LEMMA LoadFailsInv ==
    ASSUME ResumeInv, NEW l \in loads, LoadFails(l)
    PROVE  ResumeInv' /\ player' = player
  <1>1. faults' \in 0..MaxFaults
    BY ResumeAssumption DEF LoadFails, ResumeInv, ResumeTypeOK
  <1>2. player' \in Mounted \cup {None} /\ LastEventTrue' /\ ButtonTellsTruth' /\ OwnLoad'
    BY DEF LoadFails, ResumeInv, ResumeTypeOK, LastEventTrue, ButtonTellsTruth, OwnLoad
  <1> QED
    BY <1>1, <1>2, LoadGone DEF LoadFails

(* Where the answer moves the player, it is about its profile and title.   *)
LEMMA ResumeMoves ==
    ASSUME ResumeInv, NEW l \in loads, Resume(l), player' # player
    PROVE  /\ player # None /\ player' \in Mounted /\ Still(player', player)
           /\ player'.visit = player.visit /\ player'.profile = player.profile
           /\ player'.title = player.title
           /\ <<<<player.profile, player.title>>, player'.at>> \in posted
  <1>1. /\ player # None /\ player \in Mounted /\ player.visit = l.visit
        /\ l.read /\ l.reply # None /\ l.reply \in Unit
        /\ player' = [player EXCEPT !.at = l.reply, !.whole = TRUE, !.resumed = TRUE]
    <2>1. l \in Load
      BY DEF ResumeInv, ResumeTypeOK
    <2> QED
      BY <2>1 DEF Resume, HasVideo, ResumeInv, ResumeTypeOK, Load
  <1>2. <<LoadKey(l), l.reply>> \in posted /\ LoadKey(l) = <<player.profile, player.title>>
    BY <1>1 DEF ResumeInv, OnlyPosted, OwnLoad
  <1>3. /\ player' \in Mounted /\ Still(player', player) /\ player'.at = l.reply
        /\ player'.visit = player.visit /\ player'.profile = player.profile
        /\ player'.title = player.title
    BY <1>1, MovedPlayer
  <1> QED
    BY <1>1, <1>2, <1>3

LEMMA ResumeStepInv ==
    ASSUME ResumeInv, NEW l \in loads, Resume(l)
    PROVE  ResumeInv'
  <1>1. loads' = loads \ {l} /\ UNCHANGED <<saves, history, ghosts, counters>>
    BY DEF Resume
  <1>2. player' \in Mounted \cup {None} /\ LastEventTrue' /\ ButtonTellsTruth' /\ OwnLoad'
    <2>1. CASE player' = player
      BY <1>1, <2>1 DEF counters, ResumeInv, ResumeTypeOK, LastEventTrue,
                        ButtonTellsTruth, OwnLoad
    <2>2. CASE player' # player
      BY <1>1, <2>2, ResumeMoves, PlayerChanges DEF counters
    <2> QED
      BY <2>1, <2>2
  <1>3. faults' \in 0..MaxFaults
    BY <1>1 DEF counters, ResumeInv, ResumeTypeOK
  <1> QED
    BY <1>1, <1>2, <1>3, LoadGone DEF counters

-----------------------------------------------------------------------------
(* A step of user-service, which leaves the player and its loads alone.    *)
LEMMA ServedInv ==
    ASSUME ResumeInv, UNCHANGED <<player, loads, visits>>, ResumeTypeOK', OnlyPosted',
           FoundOwnRow', \A k \in (Pair \ raced)' : Serial(k)'
    PROVE  ResumeInv'
  BY DEF ResumeInv, LastEventTrue, ButtonTellsTruth, OwnLoad

LEMMA SaveFacts ==
    ASSUME ResumeInv, NEW s \in saves
    PROVE  s \in Save /\ SaveKey(s) \in Pair /\ s.at \in Unit
           /\ <<SaveKey(s), s.at>> \in posted
  BY DEF ResumeInv, ResumeTypeOK, Save, SaveKey, Pair, OnlyPosted

LEMMA SaveGone ==
    ASSUME ResumeInv, NEW s \in saves, RefuseSave(s) \/ SaveLost(s)
    PROVE  ResumeInv' /\ player' = player
  <1>1. /\ saves' = saves \ {s} /\ UNCHANGED <<player, loads, history, ghosts, visits, sent>>
        /\ faults' \in 0..MaxFaults
    BY ResumeAssumption DEF RefuseSave, SaveLost, counters, ResumeInv, ResumeTypeOK
  <1>2. ResumeTypeOK'
    BY <1>1 DEF ghosts, ResumeInv, ResumeTypeOK
  <1>3. OnlyPosted' /\ FoundOwnRow' /\ \A k \in (Pair \ raced)' : Serial(k)'
    BY <1>1 DEF ghosts, ResumeInv, OnlyPosted, FoundOwnRow, Serial, RowsOf
  <1> QED
    BY <1>1, <1>2, <1>3, ServedInv

(* A lookup finds a row of the profile and title of the save, or none.     *)
LEMMA LookUpFinds ==
    ASSUME ResumeInv, NEW s \in saves, NEW row \in LookUp(s)
    PROVE  \/ row = 0 /\ RowsOf(SaveKey(s)) = {}
           \/ row \in RowsOf(SaveKey(s)) /\ row \in Nat
  <1>1. DOMAIN history \subseteq Nat
    BY LenProperties DEF ResumeInv, ResumeTypeOK
  <1> QED
    BY <1>1 DEF LookUp, Lowest, RowsOf

LEMMA LookedUpInv ==
    ASSUME ResumeInv, NEW s \in saves, s.row = None,
           NEW row \in Nat, row = 0 \/ row \in RowsOf(SaveKey(s)),
           saves' = (saves \ {s}) \cup {[s EXCEPT !.row = row]},
           UNCHANGED <<player, loads, history, posted, kept, visits, sent>>,
           faults' \in 0..MaxFaults,
           \/ raced' = raced \cup {SaveKey(s)}
           \/ /\ raced' = raced /\ ~Overlaps(s)
              /\ row = 0 => RowsOf(SaveKey(s)) = {}
    PROVE  ResumeInv'
  <1>1. PICK new \in Save :
           /\ saves' = (saves \ {s}) \cup {new} /\ SaveKey(new) = SaveKey(s)
           /\ new.at = s.at /\ new.row = row
    <2>1. \A m \in Save : LET n == [m EXCEPT !.row = row] IN
             n \in Save /\ SaveKey(n) = SaveKey(m) /\ n.at = m.at /\ n.row = row
      BY DEF Save, SaveKey
    <2> QED
      BY <2>1, SaveFacts
  <1>2. ResumeTypeOK'
    BY <1>1, SaveFacts DEF ResumeInv, ResumeTypeOK
  <1>3. OnlyPosted'
    BY <1>1 DEF ResumeInv, OnlyPosted
  <1>4. FoundOwnRow'
    BY <1>1 DEF ResumeInv, FoundOwnRow, RowsOf
  <1>5. ASSUME NEW k \in (Pair \ raced)' PROVE Serial(k)'
    <2>1. Serial(k) /\ k \in Pair \ raced
      BY <1>5 DEF ResumeInv
    <2>2. CASE k # SaveKey(s)
      BY <1>1, <2>1, <2>2 DEF Serial, RowsOf
    <2>3. CASE k = SaveKey(s)
      <3>1. ~Overlaps(s) /\ (row = 0 => RowsOf(k) = {})
        BY <1>5, <2>3
      <3>2. \A o \in saves' : SaveKey(o) = k => o = new
        BY <1>1, <2>3, <3>1 DEF Overlaps
      <3> QED
        BY <1>1, <2>1, <3>1, <3>2 DEF Serial, RowsOf
    <2> QED
      BY <2>2, <2>3
  <1> QED
    BY <1>2, <1>3, <1>4, <1>5, ServedInv

LEMMA FindRowInv ==
    ASSUME ResumeInv, NEW s \in saves, FindRow(s) \/ FindRowFails(s)
    PROVE  ResumeInv' /\ player' = player
  <1>1. CASE FindRow(s)
    <2>1. PICK row \in LookUp(s) :
             saves' = (saves \ {s}) \cup {[s EXCEPT !.row = row]}
      BY <1>1 DEF FindRow
    <2>2. /\ row \in Nat /\ (row = 0 \/ row \in RowsOf(SaveKey(s)))
          /\ row = 0 /\ RowsOf(SaveKey(s)) # {} => row \in RowsOf(SaveKey(s))
      BY LookUpFinds
    <2>3. 0 \notin RowsOf(SaveKey(s))
      BY LenProperties DEF ResumeInv, ResumeTypeOK, RowsOf
    <2>4. faults' \in 0..MaxFaults
      BY <1>1 DEF FindRow, counters, ResumeInv, ResumeTypeOK
    <2> QED
      BY <1>1, <2>1, <2>2, <2>3, <2>4, LookedUpInv DEF FindRow, counters
  <1>2. CASE FindRowFails(s)
    <2>1. faults' \in 0..MaxFaults
      BY <1>2, ResumeAssumption DEF FindRowFails, ResumeInv, ResumeTypeOK
    <2> QED
      BY <1>2, <2>1, LookedUpInv DEF FindRowFails
  <1> QED
    BY <1>1, <1>2

(* A write creates a row, or updates one of its own profile and title.     *)
LEMMA RowWritten ==
    ASSUME ResumeInv, NEW s \in saves, WriteRow(s)
    PROVE  /\ history' \in Seq(Row) /\ DOMAIN history \subseteq DOMAIN history'
           /\ \E w \in DOMAIN history' :
                 /\ KeyOfRow(history'[w]) = SaveKey(s) /\ history'[w].at = s.at
                 /\ \A i \in DOMAIN history' :
                       i # w => i \in DOMAIN history /\ history'[i] = history[i]
                 /\ w \in DOMAIN history => w \in RowsOf(SaveKey(s))
                 /\ s.row # 0 => w = s.row
  <1>1. PICK new \in Row :
          /\ KeyOfRow(new) = SaveKey(s) /\ new.at = s.at
          /\ history' = IF s.row = 0 THEN Append(history, new)
                        ELSE [history EXCEPT ![s.row] = new]
    <2>1. PICK time \in 1..MaxSaves :
             LET new == [profile |-> s.profile, title |-> s.title, at |-> s.at,
                         watched |-> time] IN
             history' = IF s.row = 0 THEN Append(history, new)
                        ELSE [history EXCEPT ![s.row] = new]
      BY DEF WriteRow
    <2> DEFINE new == [profile |-> s.profile, title |-> s.title, at |-> s.at,
                       watched |-> time]
    <2>2. new \in Row /\ KeyOfRow(new) = SaveKey(s) /\ new.at = s.at
      BY SaveFacts DEF Save, Row, KeyOfRow, SaveKey
    <2>3. history' = IF s.row = 0 THEN Append(history, new)
                     ELSE [history EXCEPT ![s.row] = new]
      BY <2>1
    <2> HIDE DEF new
    <2> QED
      BY <2>2, <2>3
  <1>2. /\ history \in Seq(Row) /\ Len(history) \in Nat
        /\ DOMAIN history = 1..Len(history)
    BY LenProperties DEF ResumeInv, ResumeTypeOK
  <1>3. CASE s.row = 0
    <2>1. /\ history' \in Seq(Row) /\ Len(history') = Len(history) + 1
          /\ \A i \in 1..Len(history) : history'[i] = history[i]
          /\ history'[Len(history) + 1] = new
      BY <1>1, <1>2, <1>3, AppendProperties
    <2>2. DOMAIN history' = 1..Len(history) + 1
      BY <2>1, LenProperties
    <2>3. PICK w \in DOMAIN history' : w = Len(history) + 1
      BY <1>2, <2>2
    <2>4. /\ w \notin DOMAIN history /\ history'[w] = new
          /\ \A i \in DOMAIN history' :
                i # w => i \in DOMAIN history /\ history'[i] = history[i]
      BY <1>2, <2>1, <2>2, <2>3
    <2>5. DOMAIN history \subseteq DOMAIN history'
      BY <1>2, <2>2
    <2> QED
      BY <1>1, <1>3, <2>1, <2>4, <2>5
  <1>4. CASE s.row # 0
    <2>1. s.row \in RowsOf(SaveKey(s)) /\ s.row \in DOMAIN history
      BY <1>4 DEF WriteRow, ResumeInv, FoundOwnRow, RowsOf
    <2>2. /\ history' \in Seq(Row) /\ Len(history') = Len(history)
          /\ history'[s.row] = new
          /\ \A i \in 1..Len(history) : i # s.row => history'[i] = history[i]
      BY <1>1, <1>2, <1>4, <2>1, ExceptSeq
    <2>3. DOMAIN history' = DOMAIN history
      BY <1>2, <2>2, LenProperties
    <2> QED
      BY <1>1, <1>2, <2>1, <2>2, <2>3
  <1> QED
    BY <1>3, <1>4

LEMMA WriteRowInv ==
    ASSUME ResumeInv, NEW s \in saves, WriteRow(s)
    PROVE  ResumeInv' /\ player' = player
  <1>1. /\ s.row # None /\ saves' = saves \ {s}
        /\ kept' = [kept EXCEPT ![SaveKey(s)] = s.at]
        /\ UNCHANGED <<player, loads, posted, raced, counters>>
    BY DEF WriteRow
  <1>2. /\ s \in Save /\ SaveKey(s) \in Pair /\ s.at \in Unit
        /\ <<SaveKey(s), s.at>> \in posted
    BY SaveFacts
  <1>3. PICK w \in DOMAIN history' :
          /\ KeyOfRow(history'[w]) = SaveKey(s) /\ history'[w].at = s.at
          /\ \A i \in DOMAIN history' :
                i # w => i \in DOMAIN history /\ history'[i] = history[i]
          /\ w \in DOMAIN history => w \in RowsOf(SaveKey(s))
          /\ s.row # 0 => w = s.row
    BY RowWritten
  <1>4. history' \in Seq(Row) /\ DOMAIN history \subseteq DOMAIN history'
    BY RowWritten
  <1>5. \A k : k # SaveKey(s) =>
           /\ w \notin RowsOf(k) /\ w \notin RowsOf(k)'
           /\ RowsOf(k)' = RowsOf(k)
           /\ \A i \in RowsOf(k) : history'[i] = history[i]
    BY <1>3, <1>4 DEF RowsOf
  <1>6. w \in RowsOf(SaveKey(s))' /\ RowsOf(SaveKey(s))' = RowsOf(SaveKey(s)) \cup {w}
    BY <1>3, <1>4 DEF RowsOf
  <1>7. ResumeTypeOK'
    BY <1>1, <1>2, <1>4 DEF counters, ResumeInv, ResumeTypeOK
  <1>8. OnlyPosted'
    BY <1>1, <1>2, <1>3 DEF ResumeInv, OnlyPosted
  <1>9. FoundOwnRow'
    <2>1. \A k : RowsOf(k) \subseteq RowsOf(k)'
      BY <1>5, <1>6
    <2> QED
      BY <1>1, <2>1 DEF ResumeInv, FoundOwnRow
  <1>10. ASSUME NEW k \in (Pair \ raced)' PROVE Serial(k)'
    <2>1. Serial(k) /\ k \in Pair
      BY <1>1, <1>10 DEF ResumeInv
    <2>2. CASE k # SaveKey(s)
      <3>1. kept'[k] = kept[k]
        BY <1>1, <2>1, <2>2 DEF ResumeInv, ResumeTypeOK
      <3> QED
        BY <1>1, <1>5, <2>1, <2>2, <3>1 DEF Serial
    <2>3. CASE k = SaveKey(s)
      <3>1. kept'[k] = s.at
        BY <1>1, <2>1, <2>3 DEF ResumeInv, ResumeTypeOK
      <3>2. RowsOf(k)' = {w}
        BY <1>1, <1>3, <1>6, <2>1, <2>3 DEF Serial, ResumeInv, FoundOwnRow
      <3>3. \A o \in saves' : ~(SaveKey(o) = k /\ o.row # None)
        BY <1>1, <2>1, <2>3 DEF Serial
      <3> QED
        BY <1>3, <3>1, <3>2, <3>3 DEF Serial
    <2> QED
      BY <2>2, <2>3
  <1> QED
    BY <1>1, <1>7, <1>8, <1>9, <1>10, ServedInv DEF counters

-----------------------------------------------------------------------------
LEMMA ResumeNextInv ==
    ASSUME ResumeInv, [ResumeNext]_resumeVars
    PROVE  ResumeInv'
  <1>1. CASE Viewer
    BY <1>1, OpenInv, PlayerOnlyInv DEF Viewer, PlayerOnly
  <1>2. CASE Element
    BY <1>2, IntervalInv, PlayerOnlyInv DEF Element, PlayerOnly
  <1>3. CASE HandleEvent
    BY <1>3, HandleEventInv
  <1>4. CASE \E l \in loads : AnswerLoad(l) \/ Resume(l)
    BY <1>4, AnswerLoadInv, ResumeStepInv
  <1>5. CASE \E s \in saves : ServeSave(s)
    BY <1>5, SaveGone, FindRowInv, WriteRowInv DEF ServeSave
  <1>6. CASE Faults
    BY <1>6, LoadFailsInv, FindRowInv, SaveGone DEF Faults
  <1>7. CASE UNCHANGED resumeVars
    BY <1>7 DEF resumeVars, ghosts, counters, ResumeInv, ResumeTypeOK, LastEventTrue,
                ButtonTellsTruth, OnlyPosted, OwnLoad, FoundOwnRow, Serial, RowsOf
  <1> QED
    BY <1>1, <1>2, <1>3, <1>4, <1>5, <1>6, <1>7 DEF ResumeNext

LEMMA ResumeInvariant == ResumeSpec => []ResumeInv
  <1>1. ResumeInv /\ [ResumeNext]_resumeVars => ResumeInv'
    BY ResumeNextInv
  <1> QED
    BY <1>1, ResumeInitInv, PTL DEF ResumeSpec

(* The store and the player keep their types, the counters their bounds    *)
(* (VideoPlayer.jsx:6, user.go:121).                                       *)
THEOREM PlayerTypes == ResumeSpec => []ResumeTypeOK
  <1>1. ResumeInv => ResumeTypeOK
    BY DEF ResumeInv
  <1> QED
    BY <1>1, ResumeInvariant, PTL

(* The play button shows what the video does once the events it announced  *)
(* have been handled (VideoPlayer.jsx:115-130, 185-190).                   *)
THEOREM ButtonIsTrue == ResumeSpec => []ButtonTellsTruth
  <1>1. ResumeInv => ButtonTellsTruth
    BY DEF ResumeInv
  <1> QED
    BY <1>1, ResumeInvariant, PTL

(* One row per profile and title, holding the position written last, where *)
(* no two saves overlapped and no lookup failed (user.go:131-141).         *)
THEOREM SerialHistory == ResumeSpec => []SerialSavesKept
  <1>1. ASSUME ResumeInv, NEW k \in Pair \ raced
        PROVE  (\A i, j \in RowsOf(k) : i = j) /\ Match(k) = {kept[k]}
    <2>1. Serial(k)
      BY <1>1 DEF ResumeInv
    <2>2. CASE RowsOf(k) = {}
      BY <2>1, <2>2 DEF Serial, Match
    <2>3. CASE RowsOf(k) # {}
      <3>1. PICK w : RowsOf(k) = {w}
        BY <2>1, <2>3 DEF Serial
      <3>2. history[w].watched <= history[w].watched
        <4>1. w \in DOMAIN history /\ history[w] \in Row
          BY <1>1, <3>1, ElementOfSeq DEF RowsOf, ResumeInv, ResumeTypeOK
        <4> QED
          BY <4>1, ResumeAssumption DEF Row
      <3> QED
        BY <2>1, <3>1, <3>2 DEF Serial, Match
    <2> QED
      BY <2>1, <2>2, <2>3 DEF Serial
  <1>2. ResumeInv => SerialSavesKept
    BY <1>1 DEF SerialSavesKept
  <1> QED
    BY <1>2, ResumeInvariant, PTL

(* A player resumes where its own profile was in its own title, whatever   *)
(* was opened and closed meanwhile (VideoPlayer.jsx:34-44).                *)
THEOREM ResumesOwn == ResumeSpec => ResumesOwnProgress
  <1> DEFINE Own == player # None /\ player' # None /\ ~player.resumed /\ player'.resumed =>
                        <<<<player.profile, player.title>>, player'.at>> \in posted
  <1>1. ASSUME ResumeInv, [ResumeNext]_resumeVars PROVE Own
    <2>1. CASE PlayerOnly
      BY <1>1, <2>1, PlayerKinds DEF Alike
    <2>2. CASE \E p \in Profile, t \in Title : Open(p, t)
      BY <2>2 DEF Open
    <2>3. CASE HandleEvent
      BY <1>1, <2>3, HandleEventInv DEF Alike
    <2>4. CASE \E l \in loads : Resume(l)
      BY <1>1, <2>4, ResumeMoves
    <2>5. CASE Interval \/ (\E l \in loads : AnswerLoad(l)) \/ UNCHANGED resumeVars
      BY <2>5 DEF Interval, AnswerLoad, resumeVars
    <2>6. CASE \E s \in saves : ServeSave(s)
      BY <2>6 DEF ServeSave, RefuseSave, FindRow, WriteRow
    <2>7. CASE Faults
      BY <2>7 DEF Faults, LoadFails, FindRowFails, SaveLost
    <2> QED
      BY <1>1, <2>1, <2>2, <2>3, <2>4, <2>5, <2>6, <2>7
         DEF ResumeNext, Viewer, Element, PlayerOnly
  <1>2. ResumeInv /\ [ResumeNext]_resumeVars => [Own]_resumeVars
    BY <1>1
  <1>3. ResumesOwnProgress <=> [][Own]_resumeVars
    BY DEF ResumesOwnProgress
  <1> HIDE DEF Own
  <1> QED
    BY <1>2, <1>3, ResumeInvariant, PTL DEF ResumeSpec
=============================================================================
