-------------------------- MODULE StatusLoop_proofs --------------------------
(***************************************************************************)
(* What the status worker knows is of one account, nothing is taken off    *)
(* the air without a press, and a stop is not undone: for any keys and any *)
(* number of changes, faults and presses.                                  *)
(***************************************************************************)
EXTENDS StatusLoop, TLAPS

\* The worker keeps a place in the event queue from the round's start to its post.
Room == worker \in Paths \cup {"done", "sink"} => Len(inbox) < MaxInbox

\* Once raised, stop_ stays; by the join the cancel is up as well.
StopKept ==
    /\ ui \in {"stopping", "joining", "gone"} => stop_
    /\ StopIsNotLifted

\* The DELETEs asked for and not begun: one in the flag, one in the worker's hands.
InFlag == IF drop_ THEN 1 ELSE 0
InHand == IF worker = "drop" /\ wire = NoRequest THEN 1 ELSE 0
DeletesAreOwed == deletes + InFlag + InHand <= presses

Inv == TypeOK /\ NoMixedAccounts /\ Room /\ StopKept /\ DeletesAreOwed


LEMMA InitInv == Init => Inv
<1>. SUFFICES ASSUME Init PROVE Inv
  OBVIOUS
<1>1. Blank \in Snapshots
  BY DEF Blank, Snapshots, Links, Owners, Answers
<1>2. << >> \in Seq(Snapshots) /\ Len(<< >>) = 0
  OBVIOUS
<1>3. TypeOKClient(Paths)
  BY DEF Init, TypeOKClient, NoRequest, Stages, Statuses
<1>4. 0 \in 0..MaxPresses /\ 0 \in 0..MaxUpsets /\ 0 \in Nat /\ 0 <= MaxInbox
  BY BoundAssumption
<1>7. inbox \in Seq(Snapshots) /\ Len(inbox) <= MaxInbox
  BY <1>2, <1>4 DEF Init
<1>8. TypeOK
  BY <1>1, <1>3, <1>4, <1>7 DEF Init, TypeOK, Owners
<1>5. NoMixedAccounts
  BY DEF Init, NoMixedAccounts, Blank
<1>6. Room /\ StopKept /\ DeletesAreOwed
  BY DEF Init, Room, StopKept, StopIsNotLifted, DeletesAreOwed, InFlag, InHand, Paths
<1>. QED
  BY <1>5, <1>6, <1>8 DEF Inv

LEMMA UIInv == Inv /\ (UIThread \/ Hotkey) => Inv'
<1>. SUFFICES ASSUME Inv, UIThread \/ Hotkey PROVE Inv'
  OBVIOUS
<1>. USE DEF Inv
<1>1. CASE SetKey
  <2>1. TypeOK'
    BY <1>1, BoundAssumption DEF SetKey, TypeOK, TypeOKClient, Owners, Keys, flags, local, screen, button
  <2>2. NoMixedAccounts' /\ Room' /\ StopKept' /\ DeletesAreOwed'
    BY <1>1 DEF SetKey, NoMixedAccounts, Room, StopKept, StopIsNotLifted, DeletesAreOwed, InFlag, InHand,
       flags, local, screen, button
  <2>. QED
    BY <2>1, <2>2
<1>2. CASE ReconfigureCancel
  <2>1. TypeOK'
    BY <1>2, BoundAssumption DEF ReconfigureCancel, Cancel, TypeOK, TypeOKClient, flags, local, screen, button
  <2>2. NoMixedAccounts' /\ Room' /\ StopKept' /\ DeletesAreOwed'
    BY <1>2 DEF ReconfigureCancel, Cancel, NoMixedAccounts, Room, StopKept, StopIsNotLifted, DeletesAreOwed, InFlag, InHand,
       flags, local, screen, button
  <2>. QED
    BY <2>1, <2>2
<1>3. CASE ReconfigureRaise
  <2>1. TypeOK'
    BY <1>3 DEF ReconfigureRaise, Notify, TypeOK, TypeOKClient, flags, local, screen, button
  <2>2. NoMixedAccounts' /\ Room' /\ StopKept' /\ DeletesAreOwed'
    BY <1>3 DEF ReconfigureRaise, Notify, NoMixedAccounts, Room, StopKept, StopIsNotLifted, DeletesAreOwed, InFlag, InHand, Paths,
       flags, local, screen, button
  <2>. QED
    BY <2>1, <2>2
<1>4. CASE Poke
  <2>1. TypeOK'
    BY <1>4 DEF Poke, Notify, TypeOK, TypeOKClient, flags, local, screen, button
  <2>2. NoMixedAccounts' /\ Room' /\ StopKept' /\ DeletesAreOwed'
    BY <1>4 DEF Poke, Notify, NoMixedAccounts, Room, StopKept, StopIsNotLifted, DeletesAreOwed, InFlag, InHand, Paths,
       flags, local, screen, button
  <2>. QED
    BY <2>1, <2>2
<1>5. CASE StopRaise
  <2>1. TypeOK'
    BY <1>5 DEF StopRaise, TypeOK, TypeOKClient, flags, local, screen, button
  <2>2. NoMixedAccounts' /\ Room' /\ StopKept' /\ DeletesAreOwed'
    BY <1>5 DEF StopRaise, NoMixedAccounts, Room, StopKept, StopIsNotLifted, DeletesAreOwed, InFlag, InHand,
       flags, local, screen, button
  <2>. QED
    BY <2>1, <2>2
<1>6. CASE StopCancel
  <2>1. TypeOK'
    BY <1>6 DEF StopCancel, Cancel, Notify, TypeOK, TypeOKClient, flags, local, screen, button
  <2>2. NoMixedAccounts' /\ Room' /\ StopKept' /\ DeletesAreOwed'
    BY <1>6 DEF StopCancel, Cancel, Notify, NoMixedAccounts, Room, StopKept, StopIsNotLifted, DeletesAreOwed, InFlag, InHand, Paths,
       flags, local, screen, button
  <2>. QED
    BY <2>1, <2>2
<1>7. CASE StopJoin
  <2>1. << >> \in Seq(Snapshots) /\ Len(<< >>) = 0
    OBVIOUS
  <2>2. TypeOK'
    BY <1>7, <2>1, BoundAssumption DEF StopJoin, TypeOK, TypeOKClient, flags, local, button
  <2>3. NoMixedAccounts' /\ Room' /\ StopKept' /\ DeletesAreOwed'
    BY <1>7 DEF StopJoin, NoMixedAccounts, Room, StopKept, StopIsNotLifted, DeletesAreOwed, InFlag, InHand, Paths,
       flags, local, button
  <2>. QED
    BY <2>2, <2>3
<1>8. CASE ApplyServerState
  <2>1. /\ inbox \in Seq(Snapshots) /\ inbox # << >> /\ Len(inbox) <= MaxInbox
        /\ inbox' = Tail(inbox) /\ dock' = Head(inbox) /\ shownDropSeq_' = Head(inbox).drop_seq
    BY <1>8 DEF ApplyServerState, TypeOK
  <2>2. /\ inbox' \in Seq(Snapshots) /\ Len(inbox') = Len(inbox) - 1 /\ Len(inbox) \in Nat
        /\ dock' \in Snapshots
    BY <2>1
  <2>3. shownDropSeq_' \in Nat /\ Len(inbox') <= MaxInbox
    BY <2>1, <2>2, BoundAssumption DEF Snapshots
  <2>4. TypeOK'
    BY <1>8, <2>2, <2>3 DEF ApplyServerState, TypeOK, TypeOKClient, flags, local, button
  <2>5. Room'
    BY <1>8, <2>1, <2>2, BoundAssumption DEF ApplyServerState, Room
  <2>6. NoMixedAccounts' /\ StopKept' /\ DeletesAreOwed'
    BY <1>8 DEF ApplyServerState, NoMixedAccounts, StopKept, StopIsNotLifted, DeletesAreOwed, InFlag, InHand,
       flags, local, button
  <2>. QED
    BY <2>4, <2>5, <2>6
<1>9. CASE DropOrder
  <2>1. TypeOK'
    BY <1>9, BoundAssumption DEF DropOrder, Notify, TypeOK, TypeOKClient, flags, local, screen
  <2>2. NoMixedAccounts' /\ Room' /\ StopKept'
    BY <1>9 DEF DropOrder, Notify, NoMixedAccounts, Room, StopKept, StopIsNotLifted, Paths, local, screen
  <2>3. /\ deletes \in Nat /\ presses \in Nat /\ deletes' = deletes /\ presses' = presses + 1
        /\ drop_' = TRUE
    BY <1>9, BoundAssumption DEF DropOrder, TypeOK
  <2>4. worker' = "drop" /\ wire' = NoRequest <=> worker = "drop" /\ wire = NoRequest
    BY <1>9 DEF DropOrder, Notify
  <2>5. DeletesAreOwed'
    BY <2>3, <2>4 DEF DeletesAreOwed, InFlag, InHand
  <2>. QED
    BY <2>1, <2>2, <2>5
<1>10. CASE CoolDown
  <2>1. TypeOK'
    <3>1. cooling' \in BOOLEAN
      BY <1>10 DEF CoolDown
    <3>. QED
      BY <1>10, <3>1 DEF CoolDown, TypeOK, TypeOKClient, flags, local, screen
  <2>2. NoMixedAccounts' /\ Room' /\ StopKept' /\ DeletesAreOwed'
    BY <1>10 DEF CoolDown, NoMixedAccounts, Room, StopKept, StopIsNotLifted, DeletesAreOwed, InFlag, InHand,
       flags, local, screen
  <2>. QED
    BY <2>1, <2>2
<1>. QED
  BY <1>1, <1>2, <1>3, <1>4, <1>5, <1>6, <1>7, <1>8, <1>9, <1>10 DEF UIThread, Hotkey

\* What a reset and an answered press make of a snapshot.
LEMMA SnapshotsKept ==
  ASSUME NEW s \in Snapshots, NEW a \in Answers
  PROVE  /\ Reset(s) \in Snapshots
         /\ {Reset(s).name, Reset(s).token, Reset(s).beta, Reset(s).orders} = {"nobody"}
         /\ Answered(s, a) \in Snapshots
         /\ Answered(s, a).name = s.name /\ Answered(s, a).token = s.token
         /\ Answered(s, a).beta = s.beta /\ Answered(s, a).orders = s.orders
<1>1. Blank \in Snapshots /\ s.last_drop \in Answers /\ s.drop_seq \in Nat
  BY DEF Blank, Snapshots, Links, Owners, Answers
<1>2. Reset(s) \in Snapshots
  BY <1>1 DEF Reset, Snapshots
<1>3. {Reset(s).name, Reset(s).token, Reset(s).beta, Reset(s).orders} = {"nobody"}
  <2>1. /\ Reset(s).name = Blank.name /\ Reset(s).token = Blank.token
        /\ Reset(s).beta = Blank.beta /\ Reset(s).orders = Blank.orders
    BY <1>1 DEF Reset, Snapshots
  <2>. QED
    BY <2>1 DEF Blank
<1>4. s.drop_seq + 1 \in Nat
  BY <1>1
<1>5. Answered(s, a) \in Snapshots
  BY <1>4 DEF Answered, Snapshots
<1>6. /\ Answered(s, a).name = s.name /\ Answered(s, a).token = s.token
      /\ Answered(s, a).beta = s.beta /\ Answered(s, a).orders = s.orders
  BY DEF Answered, Snapshots
<1>. QED
  BY <1>2, <1>3, <1>5, <1>6

\* A round begins with the flags taken: the order to drop passes from the flag
\* to the worker's hands, or is answered at once.
LEMMA RoundInv ==
  ASSUME Inv, NEW s \in Snapshots, NEW fetched \in BOOLEAN, worker = "top", TakeFlags(s, fetched),
         reconfigure_' \in BOOLEAN, client_key' \in Owners, cancelled' \in BOOLEAN,
         {s.name, s.token, s.beta, s.orders} \subseteq {"nobody", client_key'},
         ui = "joining" => cancelled'
  PROVE  Inv'
<1>. USE DEF Inv
<1>1. Len(inbox) < MaxInbox /\ UNCHANGED <<ui, key, stop_, me_ok, screen, button, reconfigures, faults, wire>>
  BY DEF TakeFlags
<1>2. drop' = drop_ /\ drop_' = FALSE /\ poke_' = FALSE /\ account_fetched_' = fetched
  BY DEF TakeFlags
<1>3. configured' \in BOOLEAN
  BY DEF TakeFlags
<1>4. worker' \in {"drop", "me", "beta", "done"} /\ (worker' = "drop" => drop_)
  BY DEF TakeFlags, FirstRequest
<1>5. state_' \in {s, Reset(s), Answered(Reset(s), "Failed")}
  BY DEF TakeFlags
<1>6. "Failed" \in Answers
  BY DEF Answers
<1>7. state_' \in Snapshots /\ NoMixedAccounts'
  <2>1. /\ Reset(s) \in Snapshots
        /\ {Reset(s).name, Reset(s).token, Reset(s).beta, Reset(s).orders} = {"nobody"}
    BY <1>6, SnapshotsKept
  <2>2. /\ Answered(Reset(s), "Failed") \in Snapshots
        /\ Answered(Reset(s), "Failed").name = "nobody" /\ Answered(Reset(s), "Failed").token = "nobody"
        /\ Answered(Reset(s), "Failed").beta = "nobody" /\ Answered(Reset(s), "Failed").orders = "nobody"
    BY <1>6, <2>1, SnapshotsKept
  <2>. QED
    BY <1>5, <2>1, <2>2 DEF NoMixedAccounts
<1>8. TypeOK'
  <2>1. worker' \in Paths \cup {"top", "done", "sink", "decide", "idle", "timed", "exited", "absent"}
    BY <1>4 DEF Paths
  <2>2. UNCHANGED <<dock, shownDropSeq_, inbox, cooling, presses, deletes, reconfigures, faults, wire>>
    BY <1>1 DEF screen, button
  <2>3. TypeOKClient(Paths)'
    BY <2>2 DEF TypeOK, TypeOKClient
  <2>. QED
    BY <1>1, <1>2, <1>3, <1>7, <2>1, <2>2, <2>3 DEF TypeOK
<1>9. Room' /\ StopKept'
  BY <1>1 DEF Room, StopKept, StopIsNotLifted, screen
<1>10. DeletesAreOwed'
  BY <1>1, <1>2, <1>4 DEF DeletesAreOwed, InFlag, InHand, TypeOK, button
<1>. QED
  BY <1>7, <1>8, <1>9, <1>10

\* A request that has come back leaves nothing on the wire.
LEMMA ReturnedInv ==
  ASSUME Inv, NEW path \in Paths, NEW s \in Statuses, Returned(path, s)
  PROVE  /\ worker = path /\ wire # NoRequest /\ wire' = NoRequest
         /\ faults' \in 0..MaxUpsets
<1>1. worker = path /\ wire # NoRequest /\ wire' = NoRequest
  BY DEF Returned, Hangup
<1>2. faults' = faults \/ (reconfigures + faults < MaxUpsets /\ faults' = faults + 1)
  BY DEF Returned
<1>. QED
  BY <1>1, <1>2, BoundAssumption DEF Inv, TypeOK

\* Whatever the worker then makes of it, the rest of the loop is as it was.
LEMMA RequestInv ==
  ASSUME Inv, worker \in Paths, worker' \in (Paths \ {"drop"}) \cup {"done"},
         wire' = NoRequest, faults' \in 0..MaxUpsets, UNCHANGED RequestUnchanged,
         state_' \in Snapshots, NoMixedAccounts', me_ok' \in BOOLEAN, account_fetched_' \in BOOLEAN
  PROVE  Inv'
<1>. USE DEF Inv
<1>1. TypeOKClient(Paths)'
  BY DEF TypeOK, TypeOKClient, NoRequest, Stages, Statuses, RequestUnchanged
<1>2. TypeOK'
  BY <1>1 DEF TypeOK, RequestUnchanged, flags, screen, button
<1>3. Room' /\ StopKept'
  BY DEF Room, StopKept, StopIsNotLifted, RequestUnchanged, flags, screen
<1>4. DeletesAreOwed'
  BY DEF DeletesAreOwed, InFlag, InHand, TypeOK, RequestUnchanged, flags, button
<1>. QED
  BY <1>2, <1>3, <1>4

LEMMA WorkerInv == Inv /\ Worker => Inv'
<1>. SUFFICES ASSUME Inv, Worker PROVE Inv'
  OBVIOUS
<1>. USE DEF Inv
<1>1. CASE TopStopped
  <2>1. TypeOK'
    BY <1>1 DEF TopStopped, TypeOK, TypeOKClient, flags, local, screen, button
  <2>2. NoMixedAccounts' /\ Room' /\ StopKept' /\ DeletesAreOwed'
    BY <1>1 DEF TopStopped, NoMixedAccounts, Room, StopKept, StopIsNotLifted, DeletesAreOwed,
       InFlag, InHand, Paths, flags, local, screen, button
  <2>. QED
    BY <2>1, <2>2
<1>2. CASE PickUpKey
  <2>1. /\ worker = "top" /\ ~stop_ /\ reconfigure_' = FALSE /\ client_key' = key
        /\ cancelled' = FALSE /\ TakeFlags(Reset(state_), FALSE)
    BY <1>2 DEF PickUpKey, Configure
  <2>2. "None" \in Answers /\ state_ \in Snapshots /\ client_key' \in Owners
    BY <2>1 DEF Answers, TypeOK
  <2>3. /\ Reset(state_) \in Snapshots
        /\ {Reset(state_).name, Reset(state_).token, Reset(state_).beta, Reset(state_).orders} = {"nobody"}
    BY <2>2, SnapshotsKept
  <2>4. ui # "joining"
    BY <2>1 DEF StopKept
  <2>. HIDE DEF Inv
  <2>. QED
    BY <2>1, <2>2, <2>3, <2>4, RoundInv
<1>3. CASE NextRound
  <2>1. /\ worker = "top" /\ UNCHANGED <<reconfigure_, client_key, cancelled>>
        /\ TakeFlags(state_, account_fetched_)
    BY <1>3 DEF NextRound
  <2>2. /\ state_ \in Snapshots /\ account_fetched_ \in BOOLEAN /\ reconfigure_' \in BOOLEAN
        /\ client_key' \in Owners /\ cancelled' \in BOOLEAN
    BY <2>1 DEF TypeOK, TypeOKClient
  <2>3. {state_.name, state_.token, state_.beta, state_.orders} \subseteq {"nobody", client_key'}
    BY <2>1 DEF NoMixedAccounts
  <2>4. ui = "joining" => cancelled'
    BY <2>1 DEF StopKept, StopIsNotLifted
  <2>. HIDE DEF Inv
  <2>. QED
    BY <2>1, <2>2, <2>3, <2>4, RoundInv
<1>4. CASE Ask
  <2>1. /\ worker \in Paths /\ wire = NoRequest
        /\ wire' = [path |-> worker, stage |-> IF cancelled THEN "refused" ELSE "sent", status |-> "failed"]
        /\ deletes' = IF worker = "drop" THEN deletes + 1 ELSE deletes
        /\ UNCHANGED <<ui, key, worker, client_key, flags, local, state_, screen, cooling, presses,
                       reconfigures, faults, cancelled>>
    BY <1>4 DEF Ask, Issue
  <2>2. wire' # NoRequest
    BY <2>1 DEF NoRequest, Paths
  <2>3. TypeOKClient(Paths)'
    BY <2>1 DEF TypeOK, TypeOKClient, Stages, Statuses
  <2>4. deletes' \in Nat
    BY <2>1 DEF TypeOK
  <2>5. TypeOK'
    BY <2>1, <2>3, <2>4 DEF TypeOK, flags, local, screen
  <2>6. NoMixedAccounts' /\ Room' /\ StopKept'
    BY <2>1 DEF NoMixedAccounts, Room, StopKept, StopIsNotLifted, flags, screen
  <2>7. DeletesAreOwed'
    BY <2>1, <2>2 DEF DeletesAreOwed, InFlag, InHand, TypeOK, flags
  <2>. QED
    BY <2>5, <2>6, <2>7
<1>5. CASE DropNow
  <2>1. PICK s \in Statuses : /\ Returned("drop", s)
                              /\ state_' = Answered(state_, IF s = "ok" THEN "Done" ELSE "Failed")
    BY <1>5 DEF DropNow
  <2>2. worker = "drop" /\ wire' = NoRequest /\ faults' \in 0..MaxUpsets
    BY <2>1, ReturnedInv DEF Paths
  <2>3. /\ worker' = FirstRequest(account_fetched_)
        /\ UNCHANGED <<me_ok, account_fetched_, RequestUnchanged>>
    BY <1>5 DEF DropNow
  <2>4. state_' \in Snapshots /\ NoMixedAccounts'
    BY <2>1, <2>3, SnapshotsKept DEF NoMixedAccounts, TypeOK, Answers, RequestUnchanged
  <2>5. worker \in Paths /\ worker' \in (Paths \ {"drop"}) \cup {"done"}
    BY <2>2, <2>3 DEF FirstRequest, Paths
  <2>6. me_ok' \in BOOLEAN /\ account_fetched_' \in BOOLEAN /\ UNCHANGED RequestUnchanged
    BY <2>3 DEF TypeOK
  <2>. HIDE DEF Inv
  <2>. QED
    BY <2>2, <2>4, <2>5, <2>6, RequestInv
<1>6. CASE FetchName
  <2>1. PICK s \in Statuses : /\ Returned("me", s) /\ me_ok' = (s = "ok")
                              /\ state_' = IF s = "ok" THEN [state_ EXCEPT !.name = client_key] ELSE state_
    BY <1>6 DEF FetchName
  <2>2. worker = "me" /\ wire' = NoRequest /\ faults' \in 0..MaxUpsets
    BY <2>1, ReturnedInv DEF Paths
  <2>3. worker' = "token" /\ UNCHANGED <<account_fetched_, RequestUnchanged>>
    BY <1>6 DEF FetchName
  <2>4. state_' \in Snapshots /\ NoMixedAccounts'
    BY <2>1, <2>3 DEF NoMixedAccounts, TypeOK, Snapshots, RequestUnchanged
  <2>5. worker \in Paths /\ worker' \in (Paths \ {"drop"}) \cup {"done"}
    BY <2>2, <2>3 DEF Paths
  <2>6. me_ok' \in BOOLEAN /\ account_fetched_' \in BOOLEAN /\ UNCHANGED RequestUnchanged
    BY <2>1, <2>3 DEF TypeOK
  <2>. HIDE DEF Inv
  <2>. QED
    BY <2>2, <2>4, <2>5, <2>6, RequestInv
<1>7. CASE FetchToken
  <2>1. PICK s \in Statuses : /\ Returned("token", s) /\ account_fetched_' = (me_ok /\ s = "ok")
                              /\ state_' = IF s = "ok" THEN [state_ EXCEPT !.token = client_key] ELSE state_
    BY <1>7 DEF FetchToken
  <2>2. worker = "token" /\ wire' = NoRequest /\ faults' \in 0..MaxUpsets
    BY <2>1, ReturnedInv DEF Paths
  <2>3. worker' = "beta" /\ UNCHANGED <<me_ok, RequestUnchanged>>
    BY <1>7 DEF FetchToken
  <2>4. state_' \in Snapshots /\ NoMixedAccounts'
    BY <2>1, <2>3 DEF NoMixedAccounts, TypeOK, Snapshots, RequestUnchanged
  <2>5. worker \in Paths /\ worker' \in (Paths \ {"drop"}) \cup {"done"}
    BY <2>2, <2>3 DEF Paths
  <2>6. me_ok' \in BOOLEAN /\ account_fetched_' \in BOOLEAN /\ UNCHANGED RequestUnchanged
    BY <2>1, <2>3 DEF TypeOK
  <2>. HIDE DEF Inv
  <2>. QED
    BY <2>2, <2>4, <2>5, <2>6, RequestInv
<1>8. CASE PollRejected \/ PollFailed
  <2>1. PICK s \in Statuses, l \in Links :
           Returned("beta", s) /\ state_' = [state_ EXCEPT !.link = l]
    BY <1>8 DEF PollRejected, PollFailed, Rejections, Statuses, Links
  <2>2. worker = "beta" /\ wire' = NoRequest /\ faults' \in 0..MaxUpsets
    BY <2>1, ReturnedInv DEF Paths
  <2>3. worker' = "done" /\ UNCHANGED <<me_ok, RequestUnchanged>> /\ account_fetched_' \in {account_fetched_, FALSE}
    BY <1>8 DEF PollRejected, PollFailed
  <2>4. state_' \in Snapshots /\ NoMixedAccounts'
    BY <2>1, <2>3 DEF NoMixedAccounts, TypeOK, Snapshots, RequestUnchanged
  <2>5. worker \in Paths /\ worker' \in (Paths \ {"drop"}) \cup {"done"}
    BY <2>2, <2>3 DEF Paths
  <2>6. me_ok' \in BOOLEAN /\ account_fetched_' \in BOOLEAN /\ UNCHANGED RequestUnchanged
    BY <2>3 DEF TypeOK
  <2>. HIDE DEF Inv
  <2>. QED
    BY <2>2, <2>4, <2>5, <2>6, RequestInv
<1>9. CASE PollOk
  <2>1. Returned("beta", "ok") /\ state_' = [state_ EXCEPT !.link = "Ok", !.beta = client_key]
    BY <1>9 DEF PollOk
  <2>2. worker = "beta" /\ wire' = NoRequest /\ faults' \in 0..MaxUpsets
    BY <2>1, ReturnedInv DEF Paths, Statuses
  <2>3. worker' = "orders" /\ UNCHANGED <<me_ok, account_fetched_, RequestUnchanged>>
    BY <1>9 DEF PollOk
  <2>4. state_' \in Snapshots /\ NoMixedAccounts'
    BY <2>1, <2>3 DEF NoMixedAccounts, TypeOK, Snapshots, Links, RequestUnchanged
  <2>5. worker \in Paths /\ worker' \in (Paths \ {"drop"}) \cup {"done"}
    BY <2>2, <2>3 DEF Paths
  <2>6. me_ok' \in BOOLEAN /\ account_fetched_' \in BOOLEAN /\ UNCHANGED RequestUnchanged
    BY <2>3 DEF TypeOK
  <2>. HIDE DEF Inv
  <2>. QED
    BY <2>2, <2>4, <2>5, <2>6, RequestInv
<1>10. CASE PollOrders
  <2>1. PICK s \in Statuses : /\ Returned("orders", s)
                              /\ state_' = IF s = "ok" THEN [state_ EXCEPT !.orders = client_key] ELSE state_
    BY <1>10 DEF PollOrders
  <2>2. worker = "orders" /\ wire' = NoRequest /\ faults' \in 0..MaxUpsets
    BY <2>1, ReturnedInv DEF Paths
  <2>3. worker' = "done" /\ UNCHANGED <<me_ok, account_fetched_, RequestUnchanged>>
    BY <1>10 DEF PollOrders
  <2>4. state_' \in Snapshots /\ NoMixedAccounts'
    BY <2>1, <2>3 DEF NoMixedAccounts, TypeOK, Snapshots, RequestUnchanged
  <2>5. worker \in Paths /\ worker' \in (Paths \ {"drop"}) \cup {"done"}
    BY <2>2, <2>3 DEF Paths
  <2>6. me_ok' \in BOOLEAN /\ account_fetched_' \in BOOLEAN /\ UNCHANGED RequestUnchanged
    BY <2>3 DEF TypeOK
  <2>. HIDE DEF Inv
  <2>. QED
    BY <2>2, <2>4, <2>5, <2>6, RequestInv
<1>11. CASE Sink
  <2>1. /\ worker = "sink" /\ inbox' = Append(inbox, state_) /\ worker' = "decide"
        /\ UNCHANGED <<ui, key, client_key, flags, local, state_, dock, shownDropSeq_, button,
                       reconfigures, faults, cancelled, wire>>
    BY <1>11 DEF Sink
  <2>2. inbox \in Seq(Snapshots) /\ Len(inbox) < MaxInbox /\ state_ \in Snapshots
    BY <2>1 DEF TypeOK, Room
  <2>3. inbox' \in Seq(Snapshots) /\ Len(inbox') <= MaxInbox
    BY <2>1, <2>2, BoundAssumption
  <2>4. TypeOK'
    BY <2>1, <2>3 DEF TypeOK, TypeOKClient, flags, local, button
  <2>5. NoMixedAccounts' /\ Room' /\ StopKept' /\ DeletesAreOwed'
    BY <2>1 DEF NoMixedAccounts, Room, StopKept, StopIsNotLifted, DeletesAreOwed,
       InFlag, InHand, Paths, flags, button
  <2>. QED
    BY <2>4, <2>5
<1>12. CASE Done \/ Decide \/ Timeout
  <2>1. /\ worker \in {"done", "decide", "timed"}
        /\ worker' \in {"exited", "decide", "sink", "top", "timed", "idle"}
        /\ worker' = "sink" => worker = "done"
        /\ UNCHANGED <<ui, key, client_key, flags, local, state_, screen, button, reconfigures,
                       faults, cancelled, wire>>
    BY <1>12 DEF Done, Decide, Timeout
  <2>2. TypeOK'
    BY <2>1 DEF TypeOK, TypeOKClient, flags, local, screen, button
  <2>3. NoMixedAccounts' /\ Room' /\ StopKept' /\ DeletesAreOwed'
    BY <2>1 DEF NoMixedAccounts, Room, StopKept, StopIsNotLifted, DeletesAreOwed,
       InFlag, InHand, Paths, flags, screen, button
  <2>. QED
    BY <2>2, <2>3
<1>. QED
  BY <1>1, <1>2, <1>3, <1>4, <1>5, <1>6, <1>7, <1>8, <1>9, <1>10, <1>11, <1>12 DEF Worker, Request

LEMMA ServeInv == Inv /\ Serve => Inv'
<1>. SUFFICES ASSUME Inv, Serve PROVE Inv'
  OBVIOUS
<1>. USE DEF Inv
<1>1. PICK s \in Statuses : Served(s)
  BY DEF Serve, Statuses
<1>2. wire # NoRequest /\ wire' = [wire EXCEPT !.stage = "served", !.status = s]
  BY <1>1 DEF Served, NoRequest
<1>3. wire' # NoRequest /\ wire' \in [path : Paths \cup {"none"}, stage : Stages, status : Statuses]
  BY <1>2 DEF NoRequest, TypeOK, TypeOKClient, Stages
<1>4. /\ UNCHANGED <<ui, key, worker, client_key, flags, local, state_, screen, button, reconfigures,
                     cancelled>>
      /\ faults' = faults \/ (reconfigures + faults < MaxUpsets /\ faults' = faults + 1)
  BY DEF Serve
<1>5. faults' \in 0..MaxUpsets
  BY <1>4, BoundAssumption DEF TypeOK
<1>6. TypeOK'
  BY <1>3, <1>4, <1>5 DEF TypeOK, TypeOKClient, flags, local, screen, button
<1>7. NoMixedAccounts' /\ Room' /\ StopKept' /\ DeletesAreOwed'
  BY <1>2, <1>3, <1>4 DEF NoMixedAccounts, Room, StopKept, StopIsNotLifted, DeletesAreOwed,
     InFlag, InHand, flags, screen, button
<1>. QED
  BY <1>6, <1>7

LEMMA StepInv == Inv /\ [Next]_vars => Inv'
<1>. SUFFICES ASSUME Inv, [Next]_vars PROVE Inv'
  OBVIOUS
<1>1. CASE UNCHANGED vars
  BY <1>1 DEF Inv, TypeOK, TypeOKClient, NoMixedAccounts, Room, StopKept, StopIsNotLifted, DeletesAreOwed,
     InFlag, InHand, vars, flags, local, screen, button
<1>. QED
  BY <1>1, UIInv, WorkerInv, ServeInv DEF Next

\* What is promised of the answers and the press, of every state.
LEMMA InvPromises == Inv => StatusInvariant /\ NoUnaskedDelete
<1>. SUFFICES ASSUME Inv PROVE NoUnaskedDelete
  BY DEF Inv, StatusInvariant, StopKept
<1>1. deletes \in Nat /\ presses \in Int
  BY BoundAssumption DEF Inv, TypeOK
<1>. QED
  BY <1>1 DEF Inv, DeletesAreOwed, InFlag, InHand, NoUnaskedDelete

LEMMA AlwaysInv == Spec => []Inv
  BY InitInv, StepInv, PTL DEF Spec

\* Whatever crosses what, a change of key, a stop, an answer that is late: the
\* snapshot is of one account, and a stop keeps the cancel it raised.
THEOREM AccountsAreNotMixed == Spec => []StatusInvariant
  BY AlwaysInv, InvPromises, PTL

\* The panic button's DELETE is sent at most once for every press that was accepted.
THEOREM OnlyPressesDelete == Spec => []NoUnaskedDelete
  BY AlwaysInv, InvPromises, PTL
=============================================================================
