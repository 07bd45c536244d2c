-------------------------- MODULE OverlayPanel_proofs --------------------------
(***************************************************************************)
(* What the panel says is true of every combination of what OBS says and   *)
(* what the server said last; and the overlay row with its button, in any  *)
(* scenes, with any pages and any edits behind the panel's back: the row   *)
(* blocks when the server would, a panel with nothing left to press has    *)
(* the voice heard once, and a press while the panel is fresh does no harm *)
(* and settles what it was offered for.                                    *)
(***************************************************************************)
EXTENDS OverlayPanel, SequenceTheorems, FiniteSetTheorems, WellFoundedInduction, TLAPS

(***************************************************************************)
(* Readiness                                                               *)
(***************************************************************************)


\* On the overlay row, blocked is not connected, whatever OBS looks like.
LEMMA OverlayFollowsTheGate ==
  ASSUME NEW o, NEW count \in 0..2
  PROVE  overlay_row(o, TRUE, count).level = "Block" <=> count = 0
<1>1. ConnectedRow(o, count).level # "Block"
  BY DEF ConnectedRow, Fixable
<1>2. SilentRow(o, TRUE).level = "Block"
  BY DEF SilentRow, Fixable
<1>3. count = 0 \/ count > 0
  OBVIOUS
<1>4. CASE count = 0
  <2>1. ~(count > 0)
    BY <1>4
  <2>2. overlay_row(o, TRUE, count) = SilentRow(o, TRUE)
    BY <2>1, Zenon DEF overlay_row
  <2>. QED
    BY <1>2, <1>4, <2>2
<1>5. CASE count > 0
  <2>1. overlay_row(o, TRUE, count) = ConnectedRow(o, count)
    BY <1>5, Zenon DEF overlay_row
  <2>2. count # 0
    BY <1>5
  <2>. QED
    BY <1>1, <2>1, <2>2
<1>. QED
  BY <1>3, <1>4, <1>5

\* "A row blocks exactly when the server's gate would keep the co-host silent"
\* (readiness.hpp:51-52), for the account and the overlay.
THEOREM RowsTellTheGate ==
  \A local \in LocalFacts, answer \in ServerStates : RowsFollowTheGate(local, answer)
<1>. SUFFICES ASSUME NEW local \in LocalFacts, NEW answer \in ServerStates,
                     Polled(answer), answer.link = "Ok", local.configured
              PROVE  /\ account_row(local, answer).level = "Block" <=> ~answer.admitted
                     /\ OverlayRow(local, answer).level = "Block" <=> answer.overlay_count = 0
  BY DEF RowsFollowTheGate
<1>1. Known(answer) = TRUE
  BY DEF Known, Polled, ServerStates
<1>2. account_row(local, answer).level = "Block" <=> ~answer.admitted
  BY <1>1 DEF account_row, Row, Known
<1>3. OverlayRow(local, answer).level = "Block" <=> answer.overlay_count = 0
  <2>1. answer.overlay_count \in 0..2
    BY DEF ServerStates
  <2>2. OverlayRow(local, answer) = overlay_row(local.overlay, TRUE, answer.overlay_count)
    BY <1>1, Zenon DEF OverlayRow
  <2>. QED
    BY <2>1, <2>2, OverlayFollowsTheGate, Zenon
<1>. QED
  BY <1>2, <1>3

\* "On air" is said only when nothing is wrong with the key, the account, the page or the eyes.
THEOREM OnAirIsNotSaidLightly ==
  \A local \in LocalFacts, answer \in ServerStates : OnAirIsTrue(local, answer)
<1>. SUFFICES ASSUME NEW local \in LocalFacts, NEW answer \in ServerStates,
                     Polled(answer), headline(local, answer) = "OnAir"
              PROVE  /\ answer.link = "Ok" /\ local.configured /\ answer.admitted
                     /\ answer.overlay_count > 0
                     /\ local.streaming /\ local.eyes_selected
                     /\ local.vision \notin {"NoSource", "Retrying", "KeyRejected"}
  BY DEF OnAirIsTrue
<1>1. /\ answer.link # "Offline" /\ ~Blocked(local, answer)
      /\ answer.run_state = "Ok" /\ local.streaming
  BY DEF headline
<1>2. /\ account_row(local, answer).level # "Block" /\ OverlayRow(local, answer).level # "Block"
      /\ eyes_row(local, answer).level # "Block"
  BY <1>1 DEF Blocked
<1>3. local.configured /\ answer.link # "KeyRejected" /\ answer.have_beta
  BY <1>1, <1>2 DEF account_row, Row, Polled
<1>4. answer.link = "Ok"
  BY <1>1, <1>3 DEF Polled, ServerStates
<1>5. answer.admitted
  BY <1>2, <1>3, <1>4 DEF account_row, Row
<1>6. answer.overlay_count > 0
  BY <1>2, <1>3, <1>4, RowsTellTheGate DEF RowsFollowTheGate, ServerStates
<1>7. local.eyes_selected
  BY <1>2 DEF eyes_row, Row
<1>8. VisionRow(local.vision).level # "Block"
  BY <1>1, <1>2, <1>7 DEF eyes_row, Row
<1>9. local.vision \notin {"NoSource", "Retrying", "KeyRejected"}
  BY <1>8 DEF VisionRow, Row
<1>. QED
  BY <1>1, <1>3, <1>4, <1>5, <1>6, <1>7, <1>9

\* Whatever keeps the co-host silent on air shows on a row: the ones the air row
\* leaves to the others are said there.
THEOREM SilenceIsSaid ==
  \A local \in LocalFacts, answer \in ServerStates : SilenceIsShown(local, answer)
<1>. SUFFICES ASSUME NEW local \in LocalFacts, NEW answer \in ServerStates,
                     Polled(answer), Gated(answer), answer.link = "Ok", local.streaming,
                     answer.run_state # "Ok"
              PROVE  \/ account_row(local, answer).level = "Block"
                     \/ OverlayRow(local, answer).level = "Block"
                     \/ eyes_row(local, answer).level \in {"Warn", "Block"}
                     \/ air_row(local, answer).text # ""
  BY DEF SilenceIsShown
<1>1. answer.have_beta
  BY DEF Polled
<1>2. CASE ~local.configured
  BY <1>2 DEF account_row, Row
<1>3. CASE local.configured /\ answer.run_state = "NotApproved"
  BY <1>1, <1>3 DEF Gated, account_row, Row
<1>4. CASE local.configured /\ answer.run_state = "NoOverlay"
  BY <1>4, RowsTellTheGate DEF Gated, RowsFollowTheGate, ServerStates
<1>5. CASE answer.run_state = "DesktopOffline"
  <2>1. VisionRow(local.vision).level \in {"Ok", "Warn", "Block"}
    BY DEF VisionRow, Row
  <2>. QED
    BY <1>5, <2>1 DEF eyes_row, Row
<1>6. CASE answer.run_state \in {"SessionStopped", "BudgetExhausted", "NoCredit", "NoOrder"}
  BY <1>1, <1>6 DEF air_row, Row
<1>. QED
  BY <1>2, <1>3, <1>4, <1>5, <1>6 DEF Gated, ServerStates, RunStates

\* The panel, for every combination of the facts.
THEOREM PanelTellsTheTruth ==
  \A local \in LocalFacts, answer \in ServerStates : PanelIsTrue(local, answer)
<1>. QED
  BY OnAirIsNotSaidLightly, RowsTellTheGate, SilenceIsSaid DEF PanelIsTrue

(***************************************************************************)
(* The search of the scenes                                                *)
(***************************************************************************)

\* What find_overlay() looks at, in range.
World ==
    /\ Made \subseteq Pages /\ settings \in [Made -> Settings]
    /\ items \in [Scenes -> Seq(Made)]
    /\ current \in Scenes /\ reaches \in BOOLEAN /\ server \in Snapshots

\* A set of indices that is not empty has a first one.
LEMMA FirstExists ==
  ASSUME NEW n \in Nat, NEW S \in SUBSET (1..n), S # {}
  PROVE  \E x \in S : \A y \in 1..(x - 1) : y \notin S
<1>1. S \subseteq Nat
  OBVIOUS
<1>2. PICK x \in S : \A y \in S : ~(<<y, x>> \in OpToRel(<, Nat))
  BY <1>1, NatLessThanWellFounded, WFMin
<1>3. \A y \in S : ~(y < x)
  BY <1>1, <1>2 DEF OpToRel
<1>. QED
  BY <1>1, <1>3

\* The page a list is searched for: the first good one, else the first of ours.
IsFirst(list, s) ==
    IF s = None THEN \A i \in DOMAIN list : ~IsOurPage(list[i])
    ELSE \E i \in DOMAIN list :
           /\ s = list[i] /\ IsOurPage(s)
           /\ IF names_token(s)
              THEN \A j \in 1..(i - 1) : ~(IsOurPage(list[j]) /\ names_token(list[j]))
              ELSE /\ \A j \in DOMAIN list : IsOurPage(list[j]) => ~names_token(list[j])
                   /\ \A j \in 1..(i - 1) : ~IsOurPage(list[j])

LEMMA SearchIsFirst == \A S : \A list \in Seq(S) : IsFirst(list, Search(list))
<1>. SUFFICES ASSUME NEW S, NEW list \in Seq(S) PROVE IsFirst(list, Search(list))
  OBVIOUS
<1>. DEFINE Ours(i) == IsOurPage(list[i])
            Good(i) == Ours(i) /\ names_token(list[i])
<1>1. DOMAIN list = 1..Len(list) /\ Len(list) \in Nat
  OBVIOUS
<1>2. CASE \E i \in DOMAIN list : Good(i)
  <2>. DEFINE k == CHOOSE i \in DOMAIN list : Good(i) /\ \A j \in 1..(i - 1) : ~Good(j)
  <2>1. \E i \in DOMAIN list : Good(i) /\ \A j \in 1..(i - 1) : ~Good(j)
    <3>. DEFINE T == {i \in DOMAIN list : Good(i)}
    <3>1. PICK x \in T : \A y \in 1..(x - 1) : y \notin T
      <4>1. T \in SUBSET (1..Len(list)) /\ T # {}
        BY <1>1, <1>2
      <4>. HIDE DEF T
      <4>. QED
        BY <1>1, <4>1, FirstExists
    <3>. QED
      BY <1>1, <3>1
  <2>2. k \in DOMAIN list /\ Good(k) /\ \A j \in 1..(k - 1) : ~Good(j)
    BY <2>1, Zenon
  <2>3. Search(list) = list[k]
    BY <1>2, Zenon DEF Search
  <2>4. list[k] # None
    BY <2>2 DEF IsOurPage
  <2>. HIDE DEF k
  <2>. QED
    BY <2>2, <2>3, <2>4, Zenon DEF IsFirst
<1>3. CASE ~(\E i \in DOMAIN list : Good(i)) /\ \E i \in DOMAIN list : Ours(i)
  <2>. DEFINE k == CHOOSE i \in DOMAIN list : Ours(i) /\ \A j \in 1..(i - 1) : ~Ours(j)
  <2>1. \E i \in DOMAIN list : Ours(i) /\ \A j \in 1..(i - 1) : ~Ours(j)
    <3>. DEFINE T == {i \in DOMAIN list : Ours(i)}
    <3>1. PICK x \in T : \A y \in 1..(x - 1) : y \notin T
      <4>1. T \in SUBSET (1..Len(list)) /\ T # {}
        BY <1>1, <1>3
      <4>. HIDE DEF T
      <4>. QED
        BY <1>1, <4>1, FirstExists
    <3>. QED
      BY <1>1, <3>1
  <2>2. k \in DOMAIN list /\ Ours(k) /\ \A j \in 1..(k - 1) : ~Ours(j)
    BY <2>1, Zenon
  <2>3. Search(list) = list[k]
    BY <1>3, Zenon DEF Search
  <2>4. list[k] # None
    BY <2>2 DEF IsOurPage
  <2>. HIDE DEF k
  <2>. QED
    BY <1>3, <2>2, <2>3, <2>4, Zenon DEF IsFirst
<1>4. CASE ~(\E i \in DOMAIN list : Ours(i))
  <2>1. Search(list) = None
    BY <1>4, Zenon DEF Search
  <2>. QED
    BY <1>4, <2>1, Zenon DEF IsFirst
<1>. QED
  BY <1>2, <1>3, <1>4

\* So does the search after a step.
LEMMA SearchIsFirstNext == (\A S : \A list \in Seq(S) : IsFirst(list, Search(list)))'
  BY SearchIsFirst, PTL

\* The same, of the set of pages in the list.
LEMMA SearchFinds ==
  ASSUME NEW S, NEW list \in Seq(S)
  PROVE  /\ Search(list) = None => \A t \in ToSet(list) : ~IsOurPage(t)
         /\ Search(list) # None =>
              /\ Search(list) \in ToSet(list) /\ IsOurPage(Search(list))
              /\ ~names_token(Search(list)) => \A t \in ToSet(list) : IsOurPage(t) => ~names_token(t)
<1>1. IsFirst(list, Search(list))
  BY SearchIsFirst, Zenon
<1>. DEFINE s == Search(list)
<1>. HIDE DEF s
<1>2. IsFirst(list, s)
  BY <1>1 DEF s
<1>3. /\ s = None => \A t \in ToSet(list) : ~IsOurPage(t)
      /\ s # None =>
              /\ s \in ToSet(list) /\ IsOurPage(s)
              /\ ~names_token(s) => \A t \in ToSet(list) : IsOurPage(t) => ~names_token(t)
  BY <1>2, Zenon DEF IsFirst, ToSet
<1>. QED
  BY <1>3 DEF s

\* And of what all scenes show.
LEMMA AnywhereFinds ==
  ASSUME World
  PROVE  /\ Anywhere = None => \A t : Shown(t) => ~IsOurPage(t)
         /\ Anywhere # None =>
              /\ Shown(Anywhere) /\ IsOurPage(Anywhere)
              /\ ~names_token(Anywhere) => \A t : Shown(t) /\ IsOurPage(t) => ~names_token(t)
<1>. DEFINE best == [i \in DOMAIN SceneList |-> Search(items[SceneList[i]])]
            S == {Search(items[SceneList[i]]) : i \in DOMAIN SceneList}
<1>1. Anywhere = Search(best)
  BY DEF Anywhere
<1>2. best \in Seq(S)
  <2>1. DOMAIN SceneList = 1..Len(SceneList) /\ Len(SceneList) \in Nat
    BY SceneAssumption
  <2>2. best \in [1..Len(SceneList) -> S]
    BY <2>1
  <2>. HIDE DEF best, S
  <2>. QED
    BY <2>1, <2>2, SeqDef
<1>3. ASSUME NEW i \in DOMAIN SceneList
      PROVE  /\ SceneList[i] \in Scenes /\ best[i] \in ToSet(best)
             /\ best[i] = None => \A t \in ToSet(items[SceneList[i]]) : ~IsOurPage(t)
             /\ best[i] # None =>
                  /\ best[i] \in ToSet(items[SceneList[i]]) /\ IsOurPage(best[i])
                  /\ ~names_token(best[i]) =>
                       \A t \in ToSet(items[SceneList[i]]) : IsOurPage(t) => ~names_token(t)
  <2>1. SceneList[i] \in Scenes
    BY DEF Scenes, ToSet
  <2>2. items[SceneList[i]] \in Seq(Made)
    BY <2>1 DEF World
  <2>3. best[i] = Search(items[SceneList[i]])
    OBVIOUS
  <2>4. best[i] \in ToSet(best)
    BY DEF ToSet
  <2>. HIDE DEF best
  <2>. QED
    BY <2>1, <2>2, <2>3, <2>4, SearchFinds
<1>4. ASSUME NEW t, Shown(t)
      PROVE  \E i \in DOMAIN SceneList : t \in ToSet(items[SceneList[i]])
  BY <1>4, Zenon DEF Shown, Scenes, ToSet
<1>5. /\ Search(best) = None => \A t \in ToSet(best) : ~IsOurPage(t)
      /\ Search(best) # None =>
           /\ Search(best) \in ToSet(best) /\ IsOurPage(Search(best))
           /\ ~names_token(Search(best)) => \A t \in ToSet(best) : IsOurPage(t) => ~names_token(t)
  <2>. HIDE DEF best, S
  <2>. QED
    BY <1>2, SearchFinds
<1>6. \A t \in ToSet(best) : \E i \in DOMAIN SceneList : t = best[i]
  BY DEF ToSet
<1>. HIDE DEF best, S
<1>7. ASSUME NEW t, Shown(t), IsOurPage(t)
      PROVE  \E b \in ToSet(best) : IsOurPage(b) /\ (names_token(t) => names_token(b))
  <2>1. PICK i \in DOMAIN SceneList : t \in ToSet(items[SceneList[i]])
    BY <1>4, <1>7
  <2>2. best[i] # None /\ best[i] \in ToSet(best) /\ IsOurPage(best[i])
    BY <1>3, <1>7, <2>1
  <2>3. names_token(t) => names_token(best[i])
    BY <1>3, <1>7, <2>1, <2>2
  <2>. QED
    BY <2>2, <2>3
<1>8. ASSUME Search(best) # None PROVE Shown(Search(best))
  <2>1. PICK i \in DOMAIN SceneList : Search(best) = best[i]
    BY <1>5, <1>6, <1>8
  <2>. QED
    BY <1>3, <1>8, <2>1 DEF Shown
<1>. QED
  BY <1>1, <1>5, <1>7, <1>8, Zenon

\* What find_overlay() says of the scenes.
Facts(o) ==
    /\ o.where \in Where /\ o.sound \in Sounds /\ o.source_uuid \in Made \cup {None}
    /\ o.where = "Missing" <=> o.source_uuid = None
    /\ o.where = "Missing" => \A t : Shown(t) => ~IsOurPage(t)
    /\ o.where # "Missing" =>
         /\ Shown(o.source_uuid) /\ IsOurPage(o.source_uuid)
         /\ o.stale <=> ~names_token(o.source_uuid)
         /\ o.shutdown = settings[o.source_uuid].shutdown /\ o.sound = judge_sound(o.source_uuid)
         /\ o.stale => \A t : Shown(t) /\ IsOurPage(t) => ~names_token(t)
    /\ o.where = "CurrentScene" => o.source_uuid \in ToSet(items[current])
    /\ o.where = "OtherScene" =>
         \A t \in ToSet(items[current]) : IsOurPage(t) => ~o.stale /\ ~names_token(t)

LEMMA ShownIsMade ==
  ASSUME World, NEW t, Shown(t)
  PROVE  t \in Made /\ t # None
<1>1. PICK scene \in Scenes : t \in ToSet(items[scene])
  BY DEF Shown
<1>2. items[scene] \in Seq(Made)
  BY DEF World
<1>3. t \in Made
  BY <1>1, <1>2 DEF ToSet
<1>. QED
  BY <1>3, PageAssumption DEF World

LEMMA FindingFacts == World => Facts(find_overlay(Here, Anywhere))
<1>. SUFFICES ASSUME World PROVE Facts(find_overlay(Here, Anywhere))
  OBVIOUS
<1>. DEFINE o == find_overlay(Here, Anywhere)
<1>1. /\ Here = None => \A t \in ToSet(items[current]) : ~IsOurPage(t)
      /\ Here # None =>
           /\ Here \in ToSet(items[current]) /\ IsOurPage(Here)
           /\ ~names_token(Here) => \A t \in ToSet(items[current]) : IsOurPage(t) => ~names_token(t)
  BY SearchFinds DEF Here, World
<1>2. /\ Anywhere = None => \A t : Shown(t) => ~IsOurPage(t)
      /\ Anywhere # None =>
           /\ Shown(Anywhere) /\ IsOurPage(Anywhere)
           /\ ~names_token(Anywhere) => \A t : Shown(t) /\ IsOurPage(t) => ~names_token(t)
  BY AnywhereFinds
<1>3. ASSUME NEW s PROVE judge_sound(s) \in Sounds
  BY DEF judge_sound, Sounds
<1>4. ASSUME NEW w, NEW s
      PROVE  LET p == Presence(w, s) IN
             /\ p.where = w /\ p.source_uuid = s /\ p.stale = ~names_token(s) /\ p.sound \in Sounds
             /\ p.shutdown = settings[s].shutdown /\ p.sound = judge_sound(s)
  BY <1>3 DEF Presence
<1>5. CASE Anywhere = None
  <2>1. o = Nothing
    BY <1>5 DEF find_overlay
  <2>2. Facts(Nothing)
    BY <1>2, <1>5 DEF Facts, Nothing, Where, Sounds
  <2>. QED
    BY <2>1, <2>2
<1>6. CASE Anywhere # None /\ Here # None /\ (names_token(Here) \/ ~names_token(Anywhere))
  <2>1. o = Presence("CurrentScene", Here)
    BY <1>6 DEF find_overlay
  <2>2. Shown(Here)
    BY <1>1, <1>6 DEF Shown, World
  <2>3. Here \in Made /\ Here # None
    BY <2>2, ShownIsMade
  <2>4. Here \in ToSet(items[current]) /\ IsOurPage(Here)
    BY <1>1, <1>6
  <2>. HIDE DEF o
  <2>5. /\ o.where = "CurrentScene" /\ o.source_uuid = Here /\ o.sound \in Sounds
        /\ o.stale = ~names_token(Here) /\ o.shutdown = settings[Here].shutdown
        /\ o.sound = judge_sound(Here)
    BY <1>4, <2>1
  <2>6. o.stale => \A t : Shown(t) /\ IsOurPage(t) => ~names_token(t)
    BY <1>2, <1>6, <2>5
  <2>7. Facts(o)
    BY <2>2, <2>3, <2>6, <2>4, <2>5 DEF Facts, Where
  <2>. QED
    BY <2>7 DEF o
<1>7. CASE Anywhere # None /\ ~(Here # None /\ (names_token(Here) \/ ~names_token(Anywhere)))
  <2>1. o = Presence("OtherScene", Anywhere)
    BY <1>7, Zenon DEF find_overlay
  <2>2. Anywhere \in Made /\ Shown(Anywhere) /\ IsOurPage(Anywhere)
    BY <1>2, <1>7, ShownIsMade
  <2>. HIDE DEF o
  <2>3. /\ o.where = "OtherScene" /\ o.source_uuid = Anywhere /\ o.sound \in Sounds
        /\ o.stale = ~names_token(Anywhere) /\ o.shutdown = settings[Anywhere].shutdown
        /\ o.sound = judge_sound(Anywhere)
    BY <1>4, <2>1
  <2>4. o.stale => \A t : Shown(t) /\ IsOurPage(t) => ~names_token(t)
    BY <1>2, <1>7, <2>3
  <2>5. \A t \in ToSet(items[current]) : IsOurPage(t) => ~o.stale /\ ~names_token(t)
    BY <1>1, <1>7, <2>3
  <2>6. Facts(o)
    BY <1>7, <2>2, <2>3, <2>4, <2>5 DEF Facts, Where
  <2>. QED
    BY <2>6 DEF o
<1>. QED
  BY <1>5, <1>6, <1>7

\* What reevaluate() puts on the panel: the facts, and the row they make with the server's.
Judged(p) == Facts(p.found) /\ p.row = overlay_row(p.found, server.known, server.count)

LEMMA Evaluating == World => Judged(Evaluated) /\ Evaluated.found = find_overlay(Here, Anywhere)
<1>. SUFFICES ASSUME World PROVE Judged(Evaluated) /\ Evaluated.found = find_overlay(Here, Anywhere)
  OBVIOUS
<1>. DEFINE o == find_overlay(Here, Anywhere)
            r == overlay_row(o, server.known, server.count)
<1>1. Facts(o)
  BY FindingFacts
<1>. HIDE DEF o
<1>2. Panels = {[found |-> o, row |-> r]}
  <2>1. {find_overlay(here, anywhere) : here \in {Here}, anywhere \in {Anywhere}} = {o}
    BY DEF o
  <2>. QED
    BY <2>1 DEF Panels
<1>. HIDE DEF r
<1>3. Evaluated = [found |-> o, row |-> r]
  <2>1. Evaluated \in Panels
    BY <1>2, Zenon DEF Evaluated
  <2>. QED
    BY <1>2, <2>1
<1>4. Evaluated.found = o /\ Evaluated.row = r
  BY <1>3
<1>. QED
  BY <1>1, <1>4 DEF Judged, r, o

LEMMA EvaluatingNext == (World => Judged(Evaluated) /\ Evaluated.found = find_overlay(Here, Anywhere))'
  BY Evaluating, PTL

(***************************************************************************)
(* The row and its fix                                                     *)
(***************************************************************************)

\* What each fix is offered for, and when none is.
LEMMA RowFixes ==
  ASSUME NEW o, o.where \in Where, NEW known \in BOOLEAN, NEW count \in 0..2
  PROVE  LET fix == overlay_row(o, known, count).fix IN
         /\ fix \in Fixes
         /\ fix = "Add" => \/ o.where = "Missing"
                           \/ o.where = "OtherScene" /\ o.sound = "Ok" /\ ~o.shutdown
         /\ fix = "Update" => o.where # "Missing" /\ o.stale /\ ~(known /\ count > 0)
         /\ fix \in {"Listen", "Sound"} => o.where # "Missing"
         /\ o.sound = "Ok" => fix \notin {"Listen", "Sound"}
         /\ o.where = "CurrentScene" /\ ~o.stale /\ ~o.shutdown /\ o.sound = "Ok" => fix = "None"
         /\ o.where # "Missing" /\ ~o.stale /\ ~(known /\ count > 0) => fix = "None"
<1>1. CASE known /\ count > 0
  <2>1. overlay_row(o, known, count) = ConnectedRow(o, count)
    BY <1>1, Zenon DEF overlay_row
  <2>2. CASE o.where = "Missing"
    <3>1. ConnectedRow(o, count) = Fixable("Warn", "Elsewhere", "Add")
      BY <2>2, Zenon DEF ConnectedRow
    <3>2. overlay_row(o, known, count).fix = "Add"
      BY <2>1, <3>1 DEF Fixable
    <3>. QED
      BY <1>1, <2>2, <3>2 DEF Fixes
  <2>3. CASE o.where # "Missing" /\ o.sound # "Ok"
    <3>1. ConnectedRow(o, count)
            = Fixable("Warn", o.sound, IF o.sound = "Unheard" THEN "Listen" ELSE "Sound")
      BY <2>3, Zenon DEF ConnectedRow
    <3>2. overlay_row(o, known, count).fix \in {"Listen", "Sound"}
      BY <2>1, <3>1 DEF Fixable
    <3>. QED
      BY <1>1, <2>3, <3>2 DEF Fixes
  <2>4. CASE o.where # "Missing" /\ o.sound = "Ok"
    <3>1. CASE count > 1 \/ o.shutdown
      <4>1. overlay_row(o, known, count).fix = "None"
        BY <2>1, <2>4, <3>1 DEF ConnectedRow, Fixable
      <4>. QED
        BY <1>1, <4>1 DEF Fixes
    <3>2. CASE ~(count > 1) /\ ~o.shutdown
      <4>1. overlay_row(o, known, count).fix = IF o.where = "OtherScene" THEN "Add" ELSE "None"
        BY <2>1, <2>4, <3>2 DEF ConnectedRow, Fixable
      <4>. QED
        BY <1>1, <2>4, <3>2, <4>1 DEF Fixes
    <3>. QED
      BY <3>1, <3>2
  <2>. QED
    BY <2>2, <2>3, <2>4
<1>2. CASE ~(known /\ count > 0)
  <2>1. overlay_row(o, known, count) = SilentRow(o, known)
    BY <1>2, Zenon DEF overlay_row
  <2>2. CASE o.where = "Missing"
    BY <1>2, <2>1, <2>2 DEF SilentRow, Fixable, Fixes
  <2>3. CASE o.where # "Missing" /\ o.stale
    BY <1>2, <2>1, <2>3 DEF SilentRow, Fixable, Fixes
  <2>4. CASE o.where # "Missing" /\ ~o.stale
    <3>1. overlay_row(o, known, count).fix = "None"
      <4>1. \E level, text : SilentRow(o, known) = Fixable(level, text, "None")
        BY <2>4, Zenon DEF SilentRow
      <4>. QED
        BY <2>1, <4>1 DEF Fixable
    <3>. QED
      BY <2>4, <3>1 DEF Fixes
  <2>. QED
    BY <2>2, <2>3, <2>4
<1>. QED
  BY <1>1, <1>2

(***************************************************************************)
(* The invariant                                                           *)
(***************************************************************************)

\* The row is the one of the facts on the panel and of the last answer, which never part:
\* an answer is not stored without a look at OBS.
RowIsOfFound ==
    /\ panel.found.where \in Where /\ panel.found.sound \in Sounds
    /\ panel.found.source_uuid \in Made \cup {None}
    /\ panel.found.where = "Missing" <=> panel.found.source_uuid = None
    /\ panel.row = overlay_row(panel.found, server.known, server.count)

PanelInv == World /\ IsFiniteSet(Made) /\ edits \in Nat /\ RowIsOfFound

LEMMA MakingPage ==
  ASSUME World, IsFiniteSet(Made), NEW s \in Pages, NEW page \in Settings, Make(s, page)
  PROVE  /\ Made' = Made \cup {s} /\ Made' \subseteq Pages /\ IsFiniteSet(Made')
         /\ settings' \in [Made' -> Settings]
         /\ settings'[s] = page /\ \A p \in Made \ {s} : settings'[p] = settings[p]
<1>1. Made' = Made \cup {s}
  BY DEF Make, Made
<1>2. IsFiniteSet(Made \cup {s})
  BY FS_AddElement
<1>3. settings' \in [Made \cup {s} -> Settings]
  BY DEF Make, World
<1>. QED
  BY <1>1, <1>2, <1>3 DEF Make, World

LEMMA PlacingPage ==
  ASSUME World, NEW scene \in Scenes, NEW s, s \in Made', Made \subseteq Made',
         items' = [items EXCEPT ![scene] = Append(@, s)]
  PROVE  /\ items' \in [Scenes -> Seq(Made')]
         /\ ToSet(items'[scene]) = ToSet(items[scene]) \cup {s}
         /\ \A other \in Scenes \ {scene} : items'[other] = items[other]
<1>1. ASSUME NEW c \in Scenes
      PROVE  items[c] \in Seq(Made')
  <2>1. items[c] \in Seq(Made)
    BY DEF World
  <2>. QED
    BY <2>1
<1>2. /\ Append(items[scene], s) \in Seq(Made')
      /\ DOMAIN Append(items[scene], s) = 1..(Len(items[scene]) + 1)
      /\ DOMAIN items[scene] = 1..Len(items[scene]) /\ Len(items[scene]) \in Nat
      /\ \A i \in 1..Len(items[scene]) : Append(items[scene], s)[i] = items[scene][i]
      /\ Append(items[scene], s)[Len(items[scene]) + 1] = s
  BY <1>1
<1>3. ToSet(Append(items[scene], s)) = ToSet(items[scene]) \cup {s}
  BY <1>2 DEF ToSet
<1>4. items \in [Scenes -> Seq(Made)]
  BY DEF World
<1>. QED
  BY <1>1, <1>2, <1>3, <1>4

LEMMA PanelStart == Init => PanelInv
<1>. SUFFICES ASSUME Init PROVE PanelInv
  OBVIOUS
<1>1. Made = {}
  BY DEF Init, Made
<1>2. World
  <2>1. items \in [Scenes -> Seq(Made)]
    BY DEF Init
  <2>2. settings \in [Made -> Settings]
    BY <1>1 DEF Init, Made
  <2>3. server \in Snapshots
    BY DEF Init, Blank, Snapshots
  <2>. QED
    BY <1>1, <2>1, <2>2, <2>3 DEF Init, World
<1>3. IsFiniteSet(Made)
  BY <1>1, FS_EmptySet
<1>4. Judged(panel)
  BY <1>2, Evaluating DEF Init
<1>. QED
  BY <1>2, <1>3, <1>4 DEF Init, PanelInv, RowIsOfFound, Judged, Facts

\* A look at OBS after the step, and one before it.
LEMMA Reevaluated ==
  ASSUME World', reevaluate
  PROVE  RowIsOfFound' /\ Judged(panel)'
<1>1. Judged(Evaluated)'
  BY EvaluatingNext
<1>. QED
  BY <1>1 DEF reevaluate, Judged, RowIsOfFound, Facts

\* Facts that were right stay in range whatever pages are made.
LEMMA PanelLeftAlone ==
  ASSUME RowIsOfFound, UNCHANGED <<server, panel>>, Made \subseteq Made'
  PROVE  RowIsOfFound'
  BY DEF RowIsOfFound

LEMMA OverlayFixWorld ==
  ASSUME PanelInv, OverlayFix
  PROVE  World' /\ IsFiniteSet(Made')
<1>. USE DEF PanelInv
<1>1. UNCHANGED <<current, reaches, server>> /\ current \in Scenes
  BY DEF OverlayFix, World
<1>2. CASE AddExisting
  <2>1. Made' = Made
    BY <1>2 DEF AddExisting, Made
  <2>2. panel.found.source_uuid \in Made
    BY <1>2, ShownIsMade DEF AddExisting, IsReused, Alive
  <2>3. items' \in [Scenes -> Seq(Made')]
    BY <1>1, <1>2, <2>1, <2>2, PlacingPage DEF AddExisting, Place
  <2>. QED
    BY <1>1, <1>2, <2>1, <2>3 DEF World, AddExisting
<1>3. CASE AddNew
  <2>1. PICK s \in Pages \ Made :
          /\ Make(s, [url |-> "own", shutdown |-> FALSE, through_obs |-> TRUE,
                      monitoring |-> wanted_monitoring])
          /\ Place(s)
    BY <1>3 DEF AddNew
  <2>2. [url |-> "own", shutdown |-> FALSE, through_obs |-> TRUE,
         monitoring |-> wanted_monitoring] \in Settings
    BY DEF Settings, Monitoring, wanted_monitoring
  <2>3. /\ Made' = Made \cup {s} /\ Made' \subseteq Pages /\ IsFiniteSet(Made')
        /\ settings' \in [Made' -> Settings]
    BY <2>1, <2>2, MakingPage
  <2>4. items' \in [Scenes -> Seq(Made')]
    BY <1>1, <2>1, <2>3, PlacingPage DEF Place
  <2>. QED
    BY <1>1, <2>3, <2>4 DEF World
<1>4. CASE set_overlay_url \/ fix_overlay_sound
  <2>1. Made' = Made /\ settings' \in [Made -> Settings]
    <3>1. wanted_monitoring \in Monitoring
      BY DEF wanted_monitoring, Monitoring
    <3>2. panel.found.source_uuid \in Made
      BY <1>4, ShownIsMade DEF set_overlay_url, fix_overlay_sound, Alive
    <3>3. settings \in [Made -> Settings] /\ settings[panel.found.source_uuid] \in Settings
      BY <3>2 DEF World
    <3>4. CASE set_overlay_url
      <4>1. settings' = [settings EXCEPT ![panel.found.source_uuid].url = "own"]
        BY <3>4 DEF set_overlay_url
      <4>2. [settings[panel.found.source_uuid] EXCEPT !.url = "own"] \in Settings
        BY <3>3 DEF Settings
      <4>. QED
        BY <3>3, <4>1, <4>2 DEF Made
    <3>5. CASE fix_overlay_sound
      <4>1. settings' = [settings EXCEPT ![panel.found.source_uuid].monitoring = wanted_monitoring]
        BY <3>5 DEF fix_overlay_sound
      <4>2. [settings[panel.found.source_uuid] EXCEPT !.monitoring = wanted_monitoring] \in Settings
        BY <3>1, <3>3 DEF Settings
      <4>. QED
        BY <3>3, <4>1, <4>2 DEF Made
    <3>. QED
      BY <1>4, <3>4, <3>5
  <2>2. UNCHANGED items
    BY <1>4 DEF set_overlay_url, fix_overlay_sound
  <2>. QED
    BY <1>1, <2>1, <2>2 DEF World
<1>. QED
  BY <1>2, <1>3, <1>4 DEF OverlayFix, AddOverlay

LEMMA OverlayFixInv == PanelInv /\ OverlayFix => PanelInv'
<1>. SUFFICES ASSUME PanelInv, OverlayFix PROVE PanelInv'
  OBVIOUS
<1>1. World' /\ IsFiniteSet(Made')
  BY OverlayFixWorld
<1>2. RowIsOfFound'
  BY <1>1, Reevaluated DEF OverlayFix
<1>. QED
  BY <1>1, <1>2 DEF PanelInv, OverlayFix

LEMMA LookingInv == PanelInv /\ (Refresh \/ ApplyServerState) => PanelInv'
<1>. SUFFICES ASSUME PanelInv, Refresh \/ ApplyServerState PROVE PanelInv'
  OBVIOUS
<1>. USE DEF PanelInv
<1>1. CASE Refresh
  <2>1. Judged(Evaluated)
    BY Evaluating
  <2>2. Made' = Made
    BY <1>1 DEF Refresh, world, Made
  <2>3. RowIsOfFound'
    BY <1>1, <2>1, <2>2 DEF Refresh, RowIsOfFound, Judged, Facts
  <2>4. World'
    BY <1>1, <2>2 DEF Refresh, world, World
  <2>. QED
    BY <1>1, <2>2, <2>3, <2>4 DEF Refresh
<1>2. CASE ApplyServerState
  <2>1. Made' = Made
    BY <1>2 DEF ApplyServerState, world, Made
  <2>2. server' \in Snapshots
    <3>1. Blank \in Snapshots
      BY DEF Blank, Snapshots
    <3>. QED
      BY <1>2, <3>1 DEF ApplyServerState
  <2>3. World'
    BY <1>2, <2>1, <2>2 DEF ApplyServerState, world, World
  <2>4. RowIsOfFound'
    BY <1>2, <2>3, Reevaluated DEF ApplyServerState
  <2>. QED
    BY <1>2, <2>1, <2>3, <2>4 DEF ApplyServerState
<1>. QED
  BY <1>1, <1>2

LEMMA StreamerInv ==
  PanelInv /\ (SceneSwitched \/ CaptureChanged \/ PageAdded \/ PageReused \/ PageRemoved \/ PageEdited)
    => PanelInv' /\ edits' # edits
<1>. SUFFICES ASSUME PanelInv,
                     SceneSwitched \/ CaptureChanged \/ PageAdded \/ PageReused \/ PageRemoved \/ PageEdited
              PROVE  PanelInv' /\ edits' # edits
  OBVIOUS
<1>. USE DEF PanelInv
<1>1. UNCHANGED <<server, panel>> /\ edits' \in Nat /\ edits' # edits
  BY DEF SceneSwitched, CaptureChanged, PageAdded, PageReused, PageRemoved, PageEdited, Edit
<1>2. Made \subseteq Made' /\ World' /\ IsFiniteSet(Made')
  <2>1. CASE SceneSwitched \/ CaptureChanged
    <3>1. Made' = Made
      BY <2>1 DEF SceneSwitched, CaptureChanged, Made
    <3>. QED
      BY <1>1, <2>1, <3>1 DEF SceneSwitched, CaptureChanged, World
  <2>2. CASE PageAdded
    <3>1. PICK s \in Pages \ Made, page \in Page, scene \in Scenes :
             Make(s, page) /\ items' = [items EXCEPT ![scene] = Append(@, s)]
      BY <2>2 DEF PageAdded
    <3>2. page \in Settings
      BY PageAssumption
    <3>3. /\ Made' = Made \cup {s} /\ Made' \subseteq Pages /\ IsFiniteSet(Made')
          /\ settings' \in [Made' -> Settings]
      BY <3>1, <3>2, MakingPage
    <3>4. items' \in [Scenes -> Seq(Made')]
      BY <3>1, <3>3, PlacingPage
    <3>. QED
      BY <1>1, <2>2, <3>3, <3>4 DEF PageAdded, World
  <2>3. CASE PageReused
    <3>1. PICK s \in Made, scene \in Scenes : items' = [items EXCEPT ![scene] = Append(@, s)]
      BY <2>3 DEF PageReused
    <3>2. Made' = Made
      BY <2>3 DEF PageReused, Made
    <3>3. items' \in [Scenes -> Seq(Made')]
      BY <3>1, <3>2, PlacingPage
    <3>. QED
      BY <1>1, <2>3, <3>2, <3>3 DEF PageReused, World
  <2>4. CASE PageRemoved
    <3>1. PICK scene \in Scenes : \E i \in DOMAIN items[scene] :
            items' = [items EXCEPT ![scene] = RemoveAt(@, i)]
      BY <2>4 DEF PageRemoved
    <3>2. PICK i \in DOMAIN items[scene] : items' = [items EXCEPT ![scene] = RemoveAt(@, i)]
      BY <3>1
    <3>3. items[scene] \in Seq(Made) /\ items \in [Scenes -> Seq(Made)]
      BY DEF World
    <3>4. i \in 1..Len(items[scene]) /\ Len(items[scene]) \in Nat
      BY <3>3
    <3>5. SubSeq(items[scene], 1, i - 1) \in Seq(Made)
      BY <3>3, <3>4
    <3>6. SubSeq(items[scene], i + 1, Len(items[scene])) \in Seq(Made)
      BY <3>3, <3>4
    <3>7. RemoveAt(items[scene], i) \in Seq(Made)
      BY <3>5, <3>6 DEF RemoveAt
    <3>8. Made' = Made
      BY <2>4 DEF PageRemoved, Made
    <3>9. items' \in [Scenes -> Seq(Made)]
      BY <3>2, <3>3, <3>7
    <3>. QED
      BY <1>1, <2>4, <3>8, <3>9 DEF PageRemoved, World
  <2>5. CASE PageEdited
    <3>1. PICK s \in Made, page \in Page : settings' = [settings EXCEPT ![s] = page]
      BY <2>5 DEF PageEdited
    <3>2. Made' = Made /\ settings' \in [Made -> Settings]
      BY <3>1, PageAssumption DEF World, Made
    <3>. QED
      BY <1>1, <2>5, <3>2 DEF PageEdited, World
  <2>. QED
    BY <2>1, <2>2, <2>3, <2>4, <2>5
<1>3. RowIsOfFound'
  BY <1>1, <1>2, PanelLeftAlone
<1>. QED
  BY <1>1, <1>2, <1>3

LEMMA PanelStep == PanelInv /\ [Next]_vars => PanelInv'
<1>1. PanelInv /\ Next => PanelInv'
  BY OverlayFixInv, LookingInv, StreamerInv DEF Next
<1>2. PanelInv /\ UNCHANGED vars => PanelInv'
  BY DEF PanelInv, World, RowIsOfFound, vars, Made
<1>. QED
  BY <1>1, <1>2

LEMMA PanelInvHolds == Spec => []PanelInv
  BY PanelStart, PanelStep, PTL DEF Spec

\* "A row blocks exactly when the server's gate would keep the co-host silent"
\* (readiness.hpp:51-52), in any scenes and however old the panel is.
THEOREM PanelIsSafe == Spec => []PanelInvariant
<1>1. PanelInv => PanelInvariant
  <2>. SUFFICES ASSUME PanelInv PROVE PanelInvariant
    OBVIOUS
  <2>1. server.count \in 0..2 /\ server.known \in BOOLEAN
    BY DEF PanelInv, World, Snapshots
  <2>2. TypeOK
    <3>1. panel.row.fix \in Fixes
      BY <2>1, RowFixes DEF PanelInv, RowIsOfFound
    <3>. QED
      BY <3>1 DEF TypeOK, PanelInv, World, RowIsOfFound
  <2>3. BlocksExactlyWhenSilent
    <3>. SUFFICES ASSUME server.known PROVE panel.row.level = "Block" <=> server.count = 0
      BY DEF BlocksExactlyWhenSilent
    <3>1. panel.row = overlay_row(panel.found, TRUE, server.count)
      BY <2>1 DEF PanelInv, RowIsOfFound
    <3>. QED
      BY <2>1, <3>1, OverlayFollowsTheGate, Zenon
  <2>. QED
    BY <2>2, <2>3 DEF PanelInvariant
<1>. QED
  BY <1>1, PanelInvHolds, PTL

(***************************************************************************)
(* The button                                                              *)
(***************************************************************************)

\* Nobody but the streamer edits the scenes without the button.
LEMMA PressIsFix == PanelInv /\ Next /\ Pressed => OverlayFix
  BY StreamerInv DEF Next, Pressed, Refresh, ApplyServerState

\* In any scenes, a fresh panel that has nothing left to offer while the server hears of
\* a page speaks of one that the streamer hears, and the stream once.
THEOREM SettledPanelIsHeard == Spec => []SettledIsHeardOnce
<1>1. PanelInv => SettledIsHeardOnce
  <2>. SUFFICES ASSUME PanelInv, Fresh, server.known, server.count > 0, panel.row.fix = "None"
                PROVE  LET s == panel.found.source_uuid IN
                       /\ IsOurPage(s) /\ Shown(s)
                       /\ server.token /\ Copies # {} => s \in Copies
                       /\ settings[s].through_obs
                            => settings[s].monitoring # "none" /\ TimesOnStream(settings[s]) = 1
                       /\ server.count = 1 /\ ~settings[s].shutdown => s \in ToSet(items[current])
    BY Zenon DEF SettledIsHeardOnce
  <2>. DEFINE s == panel.found.source_uuid
              o == panel.found
  <2>1. Facts(o) /\ panel.row = ConnectedRow(o, server.count)
    <3>1. Judged(panel)
      BY Evaluating DEF Fresh, PanelInv
    <3>. QED
      BY <3>1, Zenon DEF Judged, overlay_row
  <2>2. ConnectedRow(o, server.count).fix = "None"
    BY <2>1
  <2>3. o.where # "Missing" /\ o.sound = "Ok"
    BY <2>2 DEF ConnectedRow, Fixable
  <2>4. /\ Shown(s) /\ IsOurPage(s) /\ s \in Made /\ judge_sound(s) = "Ok"
        /\ o.shutdown = settings[s].shutdown /\ (o.stale <=> ~names_token(s))
        /\ o.stale => \A t : Shown(t) /\ IsOurPage(t) => ~names_token(t)
        /\ o.where = "CurrentScene" => s \in ToSet(items[current])
    BY <2>1, <2>3, ShownIsMade DEF Facts, PanelInv
  <2>5. ASSUME server.token, Copies # {} PROVE s \in Copies
    <3>1. PICK t \in Made : Shown(t) /\ settings[t].url = "own"
      BY <2>5 DEF Copies
    <3>2. IsOurPage(t) /\ names_token(t)
      BY <3>1, PageAssumption DEF IsOurPage, names_token, PanelInv, World
    <3>. QED
      BY <2>4, <2>5, <3>1, <3>2 DEF Copies, names_token
  <2>6. ASSUME settings[s].through_obs
        PROVE  settings[s].monitoring # "none" /\ TimesOnStream(settings[s]) = 1
    <3>1. settings[s].monitoring \in {"none", "both", "only"} /\ reaches \in BOOLEAN
      BY <2>4 DEF PanelInv, World, Settings, Monitoring
    <3>2. /\ settings[s].monitoring # "none"
          /\ ~(settings[s].monitoring = "both" /\ reaches) /\ ~(settings[s].monitoring = "only" /\ ~reaches)
      BY <2>4, <2>6 DEF judge_sound
    <3>. QED
      BY <2>6, <3>1, <3>2 DEF TimesOnStream
  <2>7. ASSUME server.count = 1, ~settings[s].shutdown PROVE s \in ToSet(items[current])
    <3>1. o.where # "OtherScene"
      BY <2>2, <2>3, <2>4, <2>7 DEF ConnectedRow, Fixable
    <3>. QED
      BY <2>1, <2>3, <2>4, <3>1 DEF Facts, Where
  <2>. QED
    BY <2>4, <2>5, <2>6, <2>7
<1>. QED
  BY <1>1, PanelInvHolds, PTL

\* What a press finds when the panel is fresh, and what it leaves.
LEMMA FreshPress ==
  ASSUME PanelInv, Next, Pressed, Fresh
  PROVE  /\ OverlayFix /\ Facts(panel.found)
         /\ panel.row = overlay_row(panel.found, server.known, server.count)
         /\ Facts(panel.found)' /\ World'
         /\ panel'.row = overlay_row(panel'.found, server.known, server.count)
         /\ server' = server /\ current' = current /\ reaches' = reaches
         /\ server.known \in BOOLEAN /\ server.count \in 0..2
<1>1. OverlayFix
  BY PressIsFix
<1>2. Judged(panel)
  BY Evaluating DEF Fresh, PanelInv
<1>3. World'
  BY <1>1, OverlayFixWorld
<1>4. Judged(panel)'
  BY <1>1, <1>3, Reevaluated DEF OverlayFix
<1>5. server' = server /\ current' = current /\ reaches' = reaches
  BY <1>1 DEF OverlayFix
<1>. QED
  BY <1>1, <1>2, <1>3, <1>4, <1>5 DEF Judged, PanelInv, World, Snapshots

\* What the panel found and may use again is this account's page, elsewhere.
LEMMA ReusedWhenGood ==
  ASSUME Facts(panel.found), World
  PROVE  IsReused <=> panel.found.where = "OtherScene" /\ ~panel.found.stale
<1>1. ASSUME panel.found.where = "OtherScene" PROVE Alive(panel.found.source_uuid)
  BY <1>1 DEF Facts, Alive
<1>. QED
  BY <1>1, Zenon DEF IsReused

\* A good page that is the only good one the current scene shows is what is found next.
LEMMA OnlyGoodIsFound ==
  ASSUME NEW s, Facts(panel.found)', current' \in Scenes',
         s \in ToSet(items[current])', IsOurPage(s)', names_token(s)',
         \A t \in ToSet(items[current])' : IsOurPage(t)' /\ names_token(t)' => t = s
  PROVE  /\ panel'.found.where = "CurrentScene" /\ ~panel'.found.stale
         /\ panel'.found.shutdown = settings'[s].shutdown
         /\ panel'.found.sound = judge_sound(s)'
<1>1. Shown(s)'
  BY DEF Shown
<1>2. panel'.found.where # "Missing"
  BY <1>1 DEF Facts
<1>3. panel'.found.where # "OtherScene"
  BY DEF Facts
<1>4. panel'.found.where = "CurrentScene"
  BY <1>2, <1>3 DEF Facts, Where
<1>5. ~panel'.found.stale
  BY <1>1, <1>2 DEF Facts
<1>6. /\ panel'.found.shutdown = settings'[panel'.found.source_uuid].shutdown
      /\ panel'.found.sound = judge_sound(panel.found.source_uuid)'
  BY <1>2 DEF Facts
<1>7. names_token(panel.found.source_uuid)'
  BY <1>2, <1>5 DEF Facts
<1>8. panel'.found.source_uuid = s
  BY <1>2, <1>4, <1>7 DEF Facts
<1>. QED
  BY <1>4, <1>5, <1>6, <1>8

\* Adding: the page found elsewhere, or a new one, is then all there is to find.
LEMMA AddingSettles ==
  ASSUME PanelInv, Next, Pressed, Fresh, panel.row.fix = "Add"
  PROVE  panel'.row.fix = "None"
<1>1. /\ AddOverlay /\ Facts(panel.found) /\ Facts(panel.found)' /\ World /\ World'
      /\ server' = server /\ current' = current /\ reaches' = reaches
      /\ server.known \in BOOLEAN /\ server.count \in 0..2
  BY FreshPress DEF OverlayFix, PanelInv
<1>2. \/ panel.found.where = "Missing"
      \/ panel.found.where = "OtherScene" /\ panel.found.sound = "Ok" /\ ~panel.found.shutdown
  BY FreshPress, RowFixes DEF Facts
<1>3. ASSUME panel'.found.where = "CurrentScene", ~panel'.found.stale, ~panel'.found.shutdown,
             panel'.found.sound = "Ok"
      PROVE  panel'.row.fix = "None"
  BY <1>3, FreshPress, RowFixes DEF Where
<1>4. IsReused <=> panel.found.where = "OtherScene" /\ ~panel.found.stale
  BY <1>1, ReusedWhenGood
<1>5. CASE AddExisting
  <2>. PICK u : u = panel.found.source_uuid
    OBVIOUS
  <2>1. /\ panel.found.where = "OtherScene" /\ ~panel.found.stale
        /\ items' = [items EXCEPT ![current] = Append(@, u)] /\ settings' = settings
    BY <1>4, <1>5 DEF AddExisting, Place
  <2>2. /\ Shown(u) /\ IsOurPage(u)
        /\ \A t \in ToSet(items[current]) : IsOurPage(t) => ~names_token(t)
    BY <1>1, <2>1 DEF Facts
  <2>3. names_token(u) /\ judge_sound(u) = "Ok" /\ ~settings[u].shutdown
    BY <1>1, <1>2, <2>1 DEF Facts
  <2>4. Made' = Made /\ u \in Made' /\ current \in Scenes
    BY <1>1, <2>1, <2>2, ShownIsMade DEF Made, World
  <2>5. ToSet(items[current])' = ToSet(items[current]) \cup {u}
    BY <1>1, <2>1, <2>4, PlacingPage
  <2>6. \A t : (IsOurPage(t)' <=> IsOurPage(t)) /\ (names_token(t)' <=> names_token(t))
    BY <1>1, <2>1 DEF IsOurPage, names_token
  <2>7. judge_sound(u)' = judge_sound(u)
    BY <1>1, <2>1 DEF judge_sound
  <2>8. \A t \in ToSet(items[current])' : IsOurPage(t)' /\ names_token(t)' => t = u
    BY <2>2, <2>5, <2>6
  <2>9. u \in ToSet(items[current])' /\ IsOurPage(u)' /\ names_token(u)' /\ current' \in Scenes'
    BY <1>1, <2>2, <2>3, <2>4, <2>5, <2>6 DEF Scenes
  <2>10. /\ panel'.found.where = "CurrentScene" /\ ~panel'.found.stale
         /\ panel'.found.shutdown = settings'[u].shutdown
         /\ panel'.found.sound = judge_sound(u)'
    BY <1>1, <2>8, <2>9, OnlyGoodIsFound
  <2>. QED
    BY <1>3, <2>1, <2>3, <2>7, <2>10
<1>6. CASE AddNew
  <2>. DEFINE page == [url |-> "own", shutdown |-> FALSE, through_obs |-> TRUE,
                       monitoring |-> wanted_monitoring]
  <2>1. PICK s \in Pages \ Made : Make(s, page) /\ Place(s)
    BY <1>6 DEF AddNew
  <2>2. page \in Settings
    BY DEF Settings, Monitoring, wanted_monitoring
  <2>3. /\ Made' = Made \cup {s} /\ settings'[s] = page
        /\ \A p \in Made \ {s} : settings'[p] = settings[p]
    <3>. HIDE DEF page
    <3>. QED
      BY <1>1, <2>1, <2>2, MakingPage DEF PanelInv
  <2>4. ToSet(items[current])' = ToSet(items[current]) \cup {s} /\ current \in Scenes
    BY <1>1, <2>1, <2>3, PlacingPage DEF Place, World
  <2>5. \A t \in ToSet(items[current]) : ~IsOurPage(t)
    <3>1. CASE panel.found.where = "Missing"
      <4>1. \A t \in ToSet(items[current]) : Shown(t)
        BY <2>4 DEF Shown
      <4>. QED
        BY <1>1, <3>1, <4>1 DEF Facts
    <3>2. CASE panel.found.where = "OtherScene"
      <4>1. panel.found.stale
        BY <1>4, <1>6, <3>2 DEF AddNew
      <4>. QED
        BY <1>1, <3>2, <4>1 DEF Facts
    <3>. QED
      BY <1>2, <3>1, <3>2
  <2>6. \A t \in ToSet(items[current]) : t \in Made /\ t # s
    <3>1. items[current] \in Seq(Made)
      BY <1>1 DEF World
    <3>. QED
      BY <2>1, <3>1 DEF ToSet
  <2>7. \A t \in ToSet(items[current]) : ~IsOurPage(t)'
    BY <2>3, <2>5, <2>6 DEF IsOurPage
  <2>8. s # None
    BY <2>1, PageAssumption
  <2>9. IsOurPage(s)' /\ names_token(s)'
    BY <2>3, <2>8 DEF IsOurPage, names_token
  <2>10. judge_sound(s)' = "Ok" /\ ~settings'[s].shutdown
    BY <1>1, <2>3 DEF judge_sound, wanted_monitoring
  <2>. HIDE DEF page
  <2>11. \A t \in ToSet(items[current])' : IsOurPage(t)' /\ names_token(t)' => t = s
    BY <2>4, <2>7
  <2>12. s \in ToSet(items[current])' /\ current' \in Scenes'
    BY <1>1, <2>4 DEF Scenes
  <2>13. /\ panel'.found.where = "CurrentScene" /\ ~panel'.found.stale
         /\ panel'.found.shutdown = settings'[s].shutdown
         /\ panel'.found.sound = judge_sound(s)'
    BY <1>1, <2>9, <2>11, <2>12, OnlyGoodIsFound
  <2>. QED
    BY <1>3, <2>10, <2>13
<1>. QED
  BY <1>1, <1>5, <1>6 DEF AddOverlay

\* Updating: the page has this account's address, so something good is found wherever it is.
LEMMA UpdatingSettles ==
  ASSUME PanelInv, Next, Pressed, Fresh, panel.row.fix = "Update"
  PROVE  panel'.row.fix = "None"
<1>. PICK u : u = panel.found.source_uuid
  OBVIOUS
<1>1. /\ set_overlay_url /\ Facts(panel.found) /\ Facts(panel.found)' /\ World /\ World'
      /\ server' = server /\ server.known \in BOOLEAN /\ server.count \in 0..2
  BY FreshPress DEF OverlayFix, PanelInv
<1>2. panel.found.where # "Missing" /\ ~(server.known /\ server.count > 0)
  BY FreshPress, RowFixes DEF Facts
<1>3. Shown(u) /\ IsOurPage(u)
  BY <1>1, <1>2 DEF Facts
<1>4. u \in Made /\ u # None
  BY <1>1, <1>3, ShownIsMade
<1>5. settings'[u].url = "own" /\ items' = items
  BY <1>1, <1>4 DEF set_overlay_url, World, Made, Settings
<1>6. Shown(u)' /\ IsOurPage(u)' /\ names_token(u)'
  BY <1>3, <1>4, <1>5 DEF Shown, Scenes, IsOurPage, names_token
<1>7. panel'.found.where # "Missing" /\ ~panel'.found.stale
  BY <1>1, <1>6 DEF Facts
<1>8. panel'.found.where \in Where
  BY <1>1 DEF Facts
<1>. QED
  BY <1>1, <1>2, <1>7, <1>8, FreshPress, RowFixes

\* The search asks a page for its address only: a step that changes no address finds the same.
LEMMA SearchKept ==
  ASSUME NEW S, NEW list \in Seq(S),
         \A i \in DOMAIN list : /\ IsOurPage(list[i])' <=> IsOurPage(list[i])
                                /\ IsOurPage(list[i]) => (names_token(list[i])' <=> names_token(list[i]))
  PROVE  Search(list)' = Search(list)
<1>. PICK s : s = Search(list)
  OBVIOUS
<1>. PICK z : z = Search(list)'
  OBVIOUS
<1>1. IsFirst(list, s)
  BY SearchIsFirst
<1>2. IsFirst(list, z)'
  BY SearchIsFirstNext
<1>3. DOMAIN list = 1..Len(list) /\ Len(list) \in Nat
  OBVIOUS
<1>. DEFINE Ours(i) == IsOurPage(list[i])
            Good(i) == Ours(i) /\ names_token(list[i])
            Found(t) == IF t = None THEN \A i \in DOMAIN list : ~Ours(i)
                        ELSE \E i \in DOMAIN list :
                               /\ t = list[i] /\ Ours(i)
                               /\ \/ Good(i) /\ \A j \in 1..(i - 1) : ~Good(j)
                                  \/ /\ \A j \in DOMAIN list : ~Good(j)
                                     /\ \A j \in 1..(i - 1) : ~Ours(j)
<1>4. Found(s)
  BY <1>1, Zenon DEF IsFirst
<1>5. Found(z)
  <2>1. CASE z = None
    <3>1. \A i \in DOMAIN list : ~IsOurPage(list[i])'
      BY <1>2, <2>1 DEF IsFirst
    <3>. QED
      BY <2>1, <3>1
  <2>2. CASE z # None
    <3>1. PICK i \in DOMAIN list :
            /\ z = list[i] /\ IsOurPage(z)'
            /\ IF names_token(z)'
               THEN \A j \in 1..(i - 1) : ~(IsOurPage(list[j])' /\ names_token(list[j])')
               ELSE /\ \A j \in DOMAIN list : IsOurPage(list[j])' => ~names_token(list[j])'
                    /\ \A j \in 1..(i - 1) : ~IsOurPage(list[j])'
      BY <1>2, <2>2, Zenon DEF IsFirst
    <3>2. \A j \in 1..(i - 1) : j \in DOMAIN list
      BY <1>3
    <3>. QED
      BY <2>2, <3>1, <3>2
  <2>. QED
    BY <2>1, <2>2
<1>6. s = z
  <2>1. CASE s = None \/ z = None
    BY <1>4, <1>5, <2>1
  <2>2. CASE s # None /\ z # None
    <3>1. PICK i \in DOMAIN list :
            /\ s = list[i] /\ Ours(i)
            /\ \/ Good(i) /\ \A j \in 1..(i - 1) : ~Good(j)
               \/ (\A j \in DOMAIN list : ~Good(j)) /\ \A j \in 1..(i - 1) : ~Ours(j)
      BY <1>4, <2>2
    <3>2. PICK k \in DOMAIN list :
            /\ z = list[k] /\ Ours(k)
            /\ \/ Good(k) /\ \A j \in 1..(k - 1) : ~Good(j)
               \/ (\A j \in DOMAIN list : ~Good(j)) /\ \A j \in 1..(k - 1) : ~Ours(j)
      BY <1>5, <2>2
    <3>3. i = k \/ i \in 1..(k - 1) \/ k \in 1..(i - 1)
      BY <1>3
    <3>. HIDE DEF Ours, Good
    <3>. QED
      BY <3>1, <3>2, <3>3
  <2>. QED
    BY <2>1, <2>2
<1>. QED
  BY <1>6

\* Listening, or sounding once: the same page is found, and there is nothing to say of its sound.
LEMMA SoundSettles ==
  ASSUME PanelInv, Next, Pressed, Fresh, panel.row.fix \in {"Listen", "Sound"}
  PROVE  panel'.row.fix \in Fixes \ {"Listen", "Sound"}
<1>. PICK u : u = panel.found.source_uuid
  OBVIOUS
<1>1. /\ fix_overlay_sound /\ Facts(panel.found) /\ Facts(panel.found)' /\ World /\ World'
      /\ server' = server /\ current' = current /\ reaches' = reaches
      /\ server.known \in BOOLEAN /\ server.count \in 0..2
  BY FreshPress DEF OverlayFix, PanelInv
<1>2. panel.found.where # "Missing"
  BY FreshPress, RowFixes DEF Facts
<1>3. u \in Made /\ u # None
  BY <1>1, <1>2, ShownIsMade DEF Facts
<1>4. /\ items' = items /\ settings' = [settings EXCEPT ![u].monitoring = wanted_monitoring]
      /\ settings \in [Made -> Settings]
  BY <1>1 DEF fix_overlay_sound, World
<1>5. settings'[u].monitoring = wanted_monitoring
  BY <1>3, <1>4 DEF Settings
<1>6. \A t \in Made : settings'[t].url = settings[t].url
  BY <1>3, <1>4 DEF Settings
<1>7. \A t \in Made \cup {None} :
        /\ IsOurPage(t)' <=> IsOurPage(t)
        /\ IsOurPage(t) => (names_token(t)' <=> names_token(t))
  BY <1>1, <1>6 DEF IsOurPage, names_token
<1>8. ASSUME NEW list \in Seq(Made \cup {None}) PROVE Search(list)' = Search(list)
  <2>1. \A i \in DOMAIN list : list[i] \in Made \cup {None}
    OBVIOUS
  <2>2. \A i \in DOMAIN list :
          /\ IsOurPage(list[i])' <=> IsOurPage(list[i])
          /\ IsOurPage(list[i]) => (names_token(list[i])' <=> names_token(list[i]))
    BY <1>7, <2>1
  <2>. QED
    BY <2>2, SearchKept, Zenon
<1>9. ASSUME NEW scene \in Scenes
      PROVE  /\ Search(items[scene])' = Search(items[scene])
             /\ Search(items[scene]) \in Made \cup {None}
  <2>. PICK list : list = items[scene]
    OBVIOUS
  <2>1. list \in Seq(Made)
    BY <1>1 DEF World
  <2>2. list \in Seq(Made \cup {None})
    BY <2>1
  <2>3. Search(list)' = Search(list)
    BY <1>8, <2>2
  <2>4. Search(list) \in Made \cup {None}
    BY <2>1, SearchFinds DEF ToSet
  <2>5. items'[scene] = list
    BY <1>4
  <2>. QED
    BY <2>3, <2>4, <2>5
<1>10. Here' = Here
  BY <1>1, <1>9 DEF Here, World
<1>11. Anywhere' = Anywhere
  <2>. PICK best : best = [i \in DOMAIN SceneList |-> Search(items[SceneList[i]])]
    OBVIOUS
  <2>1. \A i \in DOMAIN SceneList : SceneList[i] \in Scenes
    BY DEF Scenes, ToSet
  <2>2. [i \in DOMAIN SceneList |-> Search(items[SceneList[i]])]' = best
    BY <1>9, <2>1
  <2>3. best \in Seq(Made \cup {None})
    <3>1. DOMAIN SceneList = 1..Len(SceneList) /\ Len(SceneList) \in Nat
      BY SceneAssumption
    <3>2. best \in [1..Len(SceneList) -> Made \cup {None}]
      BY <1>9, <2>1, <3>1
    <3>. QED
      BY <3>1, <3>2, SeqDef
  <2>4. Search(best)' = Search(best)
    BY <1>8, <2>3
  <2>. QED
    BY <2>2, <2>4 DEF Anywhere
<1>12. panel.found = find_overlay(Here, Anywhere) /\ panel'.found = find_overlay(Here, Anywhere)'
  BY <1>1, FreshPress, Evaluating, EvaluatingNext DEF Fresh, OverlayFix, reevaluate
<1>13. panel'.found.source_uuid = u
  <2>1. Anywhere # None
    BY <1>2, <1>12 DEF find_overlay, Nothing
  <2>2. /\ Here # None => IsOurPage(Here) /\ Here \in Made
        /\ IsOurPage(Anywhere) /\ Anywhere \in Made
    <3>1. Here # None => IsOurPage(Here) /\ Here \in Made
      BY <1>1, <1>9, SearchFinds DEF Here, World
    <3>2. IsOurPage(Anywhere) /\ Anywhere \in Made
      BY <1>1, <2>1, AnywhereFinds, ShownIsMade
    <3>. QED
      BY <3>1, <3>2
  <2>3. /\ Here # None => (names_token(Here)' <=> names_token(Here))
        /\ names_token(Anywhere)' <=> names_token(Anywhere)
    <3>. PICK h, a : h = Here /\ a = Anywhere
      OBVIOUS
    <3>1. (h # None => IsOurPage(h) /\ h \in Made \cup {None}) /\ IsOurPage(a) /\ a \in Made \cup {None}
      BY <2>2
    <3>2. h # None => (names_token(h)' <=> names_token(h))
      BY <1>7, <3>1
    <3>3. names_token(a)' <=> names_token(a)
      BY <1>7, <3>1
    <3>. QED
      BY <1>10, <1>11, <3>2, <3>3
  <2>4. u = find_overlay(Here, Anywhere).source_uuid
    BY <1>12
  <2>5. panel'.found.source_uuid = find_overlay(Here, Anywhere).source_uuid'
    BY <1>12
  <2>6. \A w, t : Presence(w, t).source_uuid = t /\ Presence(w, t).source_uuid' = t
    BY DEF Presence
  <2>. QED
    BY <1>10, <1>11, <2>1, <2>3, <2>4, <2>5, <2>6 DEF find_overlay
<1>14. judge_sound(u)' = "Ok"
  BY <1>1, <1>5 DEF judge_sound, wanted_monitoring
<1>15. panel'.found.sound = "Ok" /\ panel'.found.where \in Where
  BY <1>1, <1>3, <1>13, <1>14 DEF Facts
<1>. QED
  BY <1>1, <1>15, FreshPress, RowFixes

\* "The one fix the overlay row offers" (readiness.hpp:71) is one: what it was offered
\* for is over once it is pressed, and two presses leave nothing to press.
THEOREM PressesSettle == Spec => PressesRunOut
<1>. DEFINE Settled == Pressed /\ Fresh => Rank(panel'.row.fix) < Rank(panel.row.fix)
<1>1. PanelInv /\ [Next]_vars => [Settled]_vars
  <2>. SUFFICES ASSUME PanelInv, Next, Pressed, Fresh
                PROVE  Rank(panel'.row.fix) < Rank(panel.row.fix)
    BY Zenon
  <2>1. CASE panel.row.fix = "Add"
    BY <2>1, AddingSettles DEF Rank
  <2>2. CASE panel.row.fix = "Update"
    BY <2>2, UpdatingSettles DEF Rank
  <2>3. CASE panel.row.fix \in {"Listen", "Sound"}
    <3>1. Rank(panel.row.fix) = 2
      BY <2>3 DEF Rank
    <3>2. Rank(panel'.row.fix) \in {0, 1}
      BY <2>3, SoundSettles DEF Rank, Fixes
    <3>. QED
      BY <3>1, <3>2
  <2>. QED
    BY <2>1, <2>2, <2>3, PressIsFix DEF OverlayFix
<1>. QED
  BY <1>1, PanelInvHolds, PTL DEF Spec, PressesRunOut

\* While the panel is fresh, a press adds no second connected copy of the page
\* (overlay-finder.hpp:69-70) and rewrites no page of another service (overlay-finder.cpp:55-57).
THEOREM FreshPressDoesNoHarm == Spec => FreshPressIsHarmless
<1>. DEFINE Harmless ==
       Pressed /\ Fresh =>
          /\ Copies # {} => Cardinality(Copies') <= Cardinality(Copies)
          /\ \A s \in Made : Spared(s)
<1>1. PanelInv /\ [Next]_vars => [Harmless]_vars
  <2>. SUFFICES ASSUME PanelInv, Next, Pressed, Fresh
                PROVE  /\ Copies # {} => Cardinality(Copies') <= Cardinality(Copies)
                       /\ \A s \in Made : Spared(s)
    BY Zenon
  <2>1. /\ OverlayFix /\ Facts(panel.found) /\ World /\ World' /\ settings \in [Made -> Settings]
        /\ server.known \in BOOLEAN /\ server.count \in 0..2
    BY FreshPress DEF PanelInv, World
  <2>2. Cardinality(Copies) \in Nat
    <3>1. IsFiniteSet(Copies)
      BY FS_Subset DEF PanelInv, Copies
    <3>. QED
      BY <3>1, FS_CardinalityType
  <2>3. ASSUME \A t : Shown(t) /\ IsOurPage(t) => ~names_token(t) PROVE Copies = {}
    <3>1. \A t \in Made : settings[t].url = "own" => IsOurPage(t) /\ names_token(t)
      BY <2>1, PageAssumption DEF IsOurPage, names_token, World
    <3>. QED
      BY <2>3, <3>1 DEF Copies
  <2>4. CASE panel.row.fix = "Add" /\ AddExisting
    <3>. PICK u : u = panel.found.source_uuid
      OBVIOUS
    <3>1. /\ settings' = settings /\ Made' = Made /\ current \in Scenes /\ Shown(u) /\ u \in Made'
          /\ items' = [items EXCEPT ![current] = Append(@, u)]
      BY <2>1, <2>4, ShownIsMade DEF AddExisting, IsReused, Alive, Place, Made, World
    <3>2. /\ ToSet(items'[current]) = ToSet(items[current]) \cup {u}
          /\ \A other \in Scenes \ {current} : items'[other] = items[other]
      BY <2>1, <3>1, PlacingPage
    <3>3. \A t : Shown(t)' <=> Shown(t)
      <4>. SUFFICES ASSUME NEW t
                    PROVE  (\E scene \in Scenes : t \in ToSet(items'[scene]))
                             <=> \E scene \in Scenes : t \in ToSet(items[scene])
        BY DEF Shown, Scenes
      <4>1. u = t => \E scene \in Scenes : t \in ToSet(items[scene])
        BY <3>1 DEF Shown
      <4>. QED
        BY <3>1, <3>2, <4>1
    <3>4. Copies' = Copies
      BY <3>1, <3>3 DEF Copies
    <3>. QED
      BY <2>2, <3>1, <3>4 DEF Spared
  <2>5. CASE panel.row.fix = "Add" /\ AddNew
    <3>1. panel.found.where = "Missing" \/ panel.found.where = "OtherScene"
      BY <2>1, <2>5, FreshPress, RowFixes DEF Facts
    <3>2. Copies = {}
      <4>1. CASE panel.found.where = "Missing"
        BY <2>1, <2>3, <4>1 DEF Facts
      <4>2. CASE panel.found.where = "OtherScene"
        <5>1. panel.found.stale
          BY <2>1, <2>5, <4>2, ReusedWhenGood DEF AddNew
        <5>. QED
          BY <2>1, <2>3, <4>2, <5>1 DEF Facts
      <4>. QED
        BY <3>1, <4>1, <4>2
    <3>3. \A t \in Made : settings'[t] = settings[t]
      BY <2>5 DEF AddNew, Make
    <3>. QED
      BY <3>2, <3>3 DEF Spared
  <2>6. CASE panel.row.fix = "Update" /\ set_overlay_url
    <3>. PICK u : u = panel.found.source_uuid
      OBVIOUS
    <3>1. panel.found.where # "Missing" /\ panel.found.stale
      BY <2>1, <2>6, FreshPress, RowFixes DEF Facts
    <3>2. Copies = {}
      BY <2>1, <2>3, <3>1 DEF Facts
    <3>3. IsOurPage(u) /\ settings[u].url # "theirs"
      BY <2>1, <3>1 DEF Facts, IsOurPage
    <3>4. \A t \in Made \ {u} : settings'[t] = settings[t]
      BY <2>1, <2>6 DEF set_overlay_url
    <3>. QED
      BY <3>2, <3>3, <3>4 DEF Spared
  <2>7. CASE panel.row.fix \in {"Listen", "Sound"} /\ fix_overlay_sound
    <3>. PICK u : u = panel.found.source_uuid
      OBVIOUS
    <3>1. /\ items' = items /\ settings' = [settings EXCEPT ![u].monitoring = wanted_monitoring]
          /\ u \in Made
      BY <2>1, <2>7, ShownIsMade DEF fix_overlay_sound, Alive
    <3>2. Made' = Made /\ \A t \in Made : settings'[t].url = settings[t].url
      BY <2>1, <3>1 DEF Made, Settings
    <3>3. Copies' = Copies
      BY <3>1, <3>2 DEF Copies, Shown, Scenes
    <3>. QED
      BY <2>2, <3>2, <3>3 DEF Spared
  <2>. QED
    BY <2>1, <2>4, <2>5, <2>6, <2>7 DEF OverlayFix, AddOverlay
<1>. QED
  BY <1>1, PanelInvHolds, PTL DEF Spec, FreshPressIsHarmless
=============================================================================
