----------------------------- MODULE StatusLoop -----------------------------
(***************************************************************************)
(* The status worker and the dock it feeds (dock/status-loop, the matching *)
(* parts of dock/sokaster-dock).  The worker polls the server with the key *)
(* it was last configured with and hands each snapshot to the UI thread    *)
(* through Qt's event queue; the UI thread changes the key, asks for a     *)
(* fresh start, and stops the worker; the hotkey thread may order the      *)
(* panic button's DELETE at any moment.                                    *)
(*                                                                         *)
(* A snapshot records whose data it holds: each part is the key it was     *)
(* read with, or "nobody".                                                 *)
(***************************************************************************)
EXTENDS Integers, Sequences, BackendClient

CONSTANTS
    GoodKeys,       \* keys the server accepts
    BadKeys,        \* keys it rejects
    MaxUpsets,      \* bound: sign-ins, sign-outs, reconnects, failed answers and broken requests
    MaxPresses,     \* bound: presses of the panic button
    MaxInbox        \* bound: snapshots waiting in the event queue

ASSUME KeyAssumption ==
    /\ GoodKeys \cap BadKeys = {}
    /\ "nobody" \notin GoodKeys \cup BadKeys
ASSUME BoundAssumption ==
    /\ MaxUpsets \in Nat /\ MaxPresses \in Nat
    /\ MaxInbox \in Nat \ {0}

Keys == GoodKeys \cup BadKeys
Owners == Keys \cup {"nobody"}
Paths == {"drop", "me", "token", "beta", "orders"}
Links == {"Unknown", "Ok", "Offline", "KeyRejected"}
Answers == {"None", "Done", "Failed"}
Snapshots == [link : Links, name : Owners, token : Owners, beta : Owners, orders : Owners,
              last_drop : Answers, drop_seq : Nat]

VARIABLES
    ui,            \* where the UI thread is inside reconfigure() or stop()
    key,           \* the access key of the shared Config
    worker,        \* where the worker is
    client_key,    \* the key client_ was configured with
    stop_, reconfigure_, poke_, drop_,
    configured, drop,   \* locals of run()
    me_ok,         \* local of fetch_account()
    account_fetched_,
    state_,
    inbox,         \* snapshots posted to the UI thread
    dock,          \* server_, the snapshot the dock shows
    shownDropSeq_,
    cooling,       \* less than kDropCooldownNs since the last accepted press
    reconfigures, faults,
    presses,       \* history: presses accepted
    deletes        \* history: DELETEs begun

flags  == <<stop_, reconfigure_, poke_, drop_>>
local  == <<configured, drop, me_ok, account_fetched_>>
screen == <<inbox, dock, shownDropSeq_>>
button == <<cooling, presses, deletes>>
vars   == <<ui, key, worker, client_key, flags, local, state_, screen, button,
            reconfigures, faults, cancelled, wire>>

Blank == [link |-> "Unknown", name |-> "nobody", token |-> "nobody", beta |-> "nobody",
          orders |-> "nobody", last_drop |-> "None", drop_seq |-> 0]

\* The dock's constructor starts the loop; "nobody" is signed out.
Init ==
    /\ ui = "free" /\ key \in Owners
    /\ worker = "top" /\ client_key = "nobody"
    /\ stop_ = FALSE /\ reconfigure_ = TRUE /\ poke_ = FALSE /\ drop_ = FALSE
    /\ configured = FALSE /\ drop = FALSE /\ me_ok = FALSE /\ account_fetched_ = FALSE
    /\ state_ = Blank /\ inbox = << >> /\ dock = Blank /\ shownDropSeq_ = 0
    /\ cooling = FALSE /\ presses = 0 /\ deletes = 0
    /\ reconfigures = 0 /\ faults = 0
    /\ cancelled = FALSE /\ wire = NoRequest

\* notify_all(), right after a flag was set under the lock: a waiting worker
\* looks at its predicate again.
Notify == worker' = IF worker \in {"idle", "timed"} THEN "decide" ELSE worker

-----------------------------------------------------------------------------
(* UI and hotkey threads *)

\* config::set() of a sign-in or a sign-out; what follows it before the call
\* of reconfigure() (resolve_track, stopping the loops) takes its time.
SetKey ==
    /\ ui = "free" /\ reconfigures + faults < MaxUpsets
    /\ \E k \in Owners \ {key} : key' = k
    /\ ui' = "keyed"
    /\ reconfigures' = reconfigures + 1
    /\ UNCHANGED <<worker, client_key, flags, local, state_, screen, button, faults,
                   cancelled, wire>>

\* reconfigure(): "Cancel first: whatever is on the wire was asked with the
\* old key".  The Reconnect button gets here without a new key.
ReconfigureCancel ==
    /\ \/ ui = "keyed" /\ UNCHANGED reconfigures
       \/ ui = "free" /\ reconfigures + faults < MaxUpsets /\ reconfigures' = reconfigures + 1
    /\ ui' = "cancelled"
    /\ Cancel
    /\ UNCHANGED <<key, worker, client_key, flags, local, state_, screen, button, faults,
                   wire>>

\* Mutant: the flag is set and nobody is told.
ReconfigureSilently ==
    /\ ui = "cancelled" /\ ui' = "free"
    /\ reconfigure_' = TRUE
    /\ UNCHANGED <<key, worker, client_key, stop_, poke_, drop_, local, state_, screen, button,
                   reconfigures, faults, cancelled, wire>>

ReconfigureRaise ==
    /\ ui = "cancelled" /\ ui' = "free"
    /\ reconfigure_' = TRUE
    /\ Notify
    /\ UNCHANGED <<key, client_key, stop_, poke_, drop_, local, state_, screen, button,
                   reconfigures, faults, cancelled, wire>>

Poke ==
    /\ ~poke_ /\ poke_' = TRUE
    /\ Notify
    /\ UNCHANGED <<ui, key, client_key, stop_, reconfigure_, drop_, local, state_, screen, button,
                   reconfigures, faults, cancelled, wire>>

\* drop_order() past the cooldown; within it the press is ignored.
DropOrder ==
    /\ ~cooling /\ presses < MaxPresses
    /\ cooling' = TRUE /\ presses' = presses + 1
    /\ drop_' = TRUE
    /\ Notify
    /\ UNCHANGED <<ui, key, client_key, stop_, reconfigure_, poke_, local, state_, screen,
                   deletes, reconfigures, faults, cancelled, wire>>

CoolDown ==
    /\ cooling /\ cooling' = FALSE
    /\ UNCHANGED <<ui, key, worker, client_key, flags, local, state_, screen, presses, deletes,
                   reconfigures, faults, cancelled, wire>>

\* stop(): the flag under the lock, then the cancel and the notification.
StopRaise ==
    /\ ui = "free" /\ worker # "absent"
    /\ ui' = "stopping"
    /\ stop_' = TRUE
    /\ UNCHANGED <<key, worker, client_key, reconfigure_, poke_, drop_, local, state_, screen,
                   button, reconfigures, faults, cancelled, wire>>

\* Mutant: the worker is left to find out.
StopCancelSilently ==
    /\ ui = "stopping" /\ ui' = "joining"
    /\ Cancel
    /\ UNCHANGED <<key, worker, client_key, flags, local, state_, screen, button, reconfigures,
                   faults, wire>>

StopCancel ==
    /\ ui = "stopping" /\ ui' = "joining"
    /\ Cancel
    /\ Notify
    /\ UNCHANGED <<key, client_key, flags, local, state_, screen, button, reconfigures, faults,
                   wire>>

\* join(); the dock is being destroyed, and Qt drops what is queued for it.
StopJoin ==
    /\ ui = "joining" /\ ui' = "gone"
    /\ worker = "exited" /\ worker' = "absent"
    /\ inbox' = << >>
    /\ UNCHANGED <<key, client_key, flags, local, state_, dock, shownDropSeq_, button,
                   reconfigures, faults, cancelled, wire>>

\* applyServerState(): an answer with a new number is shown.
ApplyServerState ==
    /\ ui = "free" /\ inbox # << >>
    /\ dock' = Head(inbox) /\ inbox' = Tail(inbox)
    /\ shownDropSeq_' = Head(inbox).drop_seq
    /\ UNCHANGED <<ui, key, worker, client_key, flags, local, state_, button,
                   reconfigures, faults, cancelled, wire>>

-----------------------------------------------------------------------------
(* The worker *)

\* Mutant: "a reset to zero could match the number the dock has already shown".
ResetAll(s) == Blank
Reset(s) == [Blank EXCEPT !.last_drop = s.last_drop, !.drop_seq = s.drop_seq]

Answered(s, a) == [s EXCEPT !.last_drop = a, !.drop_seq = s.drop_seq + 1]

FirstRequest(fetched) == IF fetched THEN "beta" ELSE "me"

\* The top of the loop, under the lock: the flags are taken, and a pending
\* reconfigure_ makes the client's key the one in the Config.
TopStopped ==
    /\ worker = "top" /\ stop_
    /\ worker' = "exited"
    /\ UNCHANGED <<ui, key, client_key, flags, local, state_, screen, button, reconfigures,
                   faults, cancelled, wire>>

\* Mutant: the order to drop is not taken out of its flag.
TakeFlagsKeepingDrop(s, fetched) ==
    /\ Len(inbox) < MaxInbox
    /\ configured' = (key # "nobody")
    /\ drop' = drop_ /\ poke_' = FALSE
    /\ account_fetched_' = fetched
    /\ state_' = IF configured' \/ ~drop_ THEN s ELSE Answered(Reset(s), "Failed")
    /\ worker' = IF ~configured' THEN "done" ELSE IF drop_ THEN "drop" ELSE FirstRequest(fetched)
    /\ UNCHANGED <<ui, key, stop_, drop_, me_ok, screen, button, reconfigures, faults, wire>>

\* MaxInbox bounds how far the worker runs ahead of the UI thread.
TakeFlags(s, fetched) ==
    /\ Len(inbox) < MaxInbox
    /\ configured' = (key # "nobody")
    /\ drop' = drop_ /\ drop_' = FALSE
    /\ poke_' = FALSE
    /\ account_fetched_' = fetched
    /\ IF configured'
       THEN /\ state_' = s
            /\ worker' = IF drop_ THEN "drop" ELSE FirstRequest(fetched)
       ELSE /\ state_' = IF drop_ THEN Answered(Reset(s), "Failed") ELSE Reset(s)
            /\ worker' = "done"
    /\ UNCHANGED <<ui, key, stop_, me_ok, screen, button, reconfigures, faults, wire>>

\* Mutant: the stop is looked for only after the new key was picked up.
PickUpFirst ==
    /\ worker = "top" /\ reconfigure_
    /\ reconfigure_' = FALSE
    /\ client_key' = key /\ Configure
    /\ TakeFlags(Reset(state_), FALSE)

PickUpKey ==
    /\ worker = "top" /\ ~stop_ /\ reconfigure_
    /\ reconfigure_' = FALSE
    /\ client_key' = key /\ Configure
    /\ TakeFlags(Reset(state_), FALSE)

NextRound ==
    /\ worker = "top" /\ ~stop_ /\ ~reconfigure_
    /\ TakeFlags(state_, account_fetched_)
    /\ UNCHANGED <<reconfigure_, client_key, cancelled>>

\* Any of the worker's requests: begun, and later answered, refused or lost.
Ask ==
    /\ worker \in Paths /\ wire = NoRequest
    /\ Issue(worker)
    /\ deletes' = IF worker = "drop" THEN deletes + 1 ELSE deletes
    /\ UNCHANGED <<ui, key, worker, client_key, flags, local, state_, screen, cooling, presses,
                   reconfigures, faults, cancelled>>

Returned(path, s) ==
    /\ worker = path /\ wire # NoRequest
    /\ \/ (Answer(s) \/ Refusal(s) \/ Abort(s)) /\ UNCHANGED faults
       \/ Break(s) /\ reconfigures + faults < MaxUpsets /\ faults' = faults + 1
    /\ Hangup

RequestUnchanged == <<ui, key, client_key, flags, configured, drop, screen, button,
                      reconfigures, cancelled>>

\* drop_now()
DropNow ==
    /\ \E s \in Statuses :
         /\ Returned("drop", s)
         /\ state_' = Answered(state_, IF s = "ok" THEN "Done" ELSE "Failed")
    /\ worker' = FirstRequest(account_fetched_)
    /\ UNCHANGED <<me_ok, account_fetched_, RequestUnchanged>>

\* fetch_account()
FetchName ==
    /\ \E s \in Statuses :
         /\ Returned("me", s)
         /\ me_ok' = (s = "ok")
         /\ state_' = IF s = "ok" THEN [state_ EXCEPT !.name = client_key] ELSE state_
    /\ worker' = "token"
    /\ UNCHANGED <<account_fetched_, RequestUnchanged>>

FetchToken ==
    /\ \E s \in Statuses :
         /\ Returned("token", s)
         /\ account_fetched_' = (me_ok /\ s = "ok")
         /\ state_' = IF s = "ok" THEN [state_ EXCEPT !.token = client_key] ELSE state_
    /\ worker' = "beta"
    /\ UNCHANGED <<me_ok, RequestUnchanged>>

\* poll(): the beta state decides what the dock says of the link.
PollRejected ==
    /\ \E s \in Rejections : Returned("beta", s)
    /\ state_' = [state_ EXCEPT !.link = "KeyRejected"]
    /\ account_fetched_' = FALSE
    /\ worker' = "done"
    /\ UNCHANGED <<me_ok, RequestUnchanged>>

PollFailed ==
    /\ \E s \in {"failed", "limited"} : Returned("beta", s)
    /\ state_' = [state_ EXCEPT !.link = "Offline"]
    /\ worker' = "done"
    /\ UNCHANGED <<me_ok, account_fetched_, RequestUnchanged>>

PollOk ==
    /\ Returned("beta", "ok")
    /\ state_' = [state_ EXCEPT !.link = "Ok", !.beta = client_key]
    /\ worker' = "orders"
    /\ UNCHANGED <<me_ok, account_fetched_, RequestUnchanged>>

\* "A failed read keeps the last count."
PollOrders ==
    /\ \E s \in Statuses :
         /\ Returned("orders", s)
         /\ state_' = IF s = "ok" THEN [state_ EXCEPT !.orders = client_key] ELSE state_
    /\ worker' = "done"
    /\ UNCHANGED <<me_ok, account_fetched_, RequestUnchanged>>

\* Under the lock again: a snapshot asked with an old key is kept back.
Done ==
    /\ worker = "done"
    /\ worker' = IF stop_ THEN "exited" ELSE IF reconfigure_ THEN "decide" ELSE "sink"
    /\ UNCHANGED <<ui, key, client_key, flags, local, state_, screen, button, reconfigures,
                   faults, cancelled, wire>>

\* sink_(), without the lock.
Sink ==
    /\ worker = "sink"
    /\ inbox' = Append(inbox, state_)
    /\ worker' = "decide"
    /\ UNCHANGED <<ui, key, client_key, flags, local, state_, dock, shownDropSeq_, button,
                   reconfigures, faults, cancelled, wire>>

\* "Nothing to ask with: idle until a new key or a stop", or a timed wait.
MayAsk == configured /\ state_.link # "KeyRejected"
Decide ==
    /\ worker = "decide"
    /\ worker' = IF stop_ \/ reconfigure_ \/ drop_ \/ (MayAsk /\ poke_) THEN "top"
                 ELSE IF MayAsk THEN "timed" ELSE "idle"
    /\ UNCHANGED <<ui, key, client_key, flags, local, state_, screen, button, reconfigures,
                   faults, cancelled, wire>>

Timeout ==
    /\ worker = "timed" /\ worker' = "top"
    /\ UNCHANGED <<ui, key, client_key, flags, local, state_, screen, button, reconfigures,
                   faults, cancelled, wire>>

-----------------------------------------------------------------------------
\* The server: a key is accepted or rejected for good, a request may fail.
Serve ==
    /\ \/ Served(IF client_key \in GoodKeys THEN "ok" ELSE "unauthorized") /\ UNCHANGED faults
       \/ Served("failed") /\ reconfigures + faults < MaxUpsets /\ faults' = faults + 1
    /\ UNCHANGED <<ui, key, worker, client_key, flags, local, state_, screen, button,
                   reconfigures, cancelled>>

-----------------------------------------------------------------------------
UIThread == \/ SetKey \/ ReconfigureCancel \/ ReconfigureRaise \/ Poke
            \/ StopRaise \/ StopCancel \/ StopJoin \/ ApplyServerState
Hotkey == DropOrder \/ CoolDown
Request == \/ Ask \/ DropNow \/ FetchName \/ FetchToken
           \/ PollRejected \/ PollFailed \/ PollOk \/ PollOrders
Worker == \/ TopStopped \/ PickUpKey \/ NextRound \/ Request \/ Done \/ Sink \/ Decide \/ Timeout

Next == UIThread \/ Hotkey \/ Worker \/ Serve

Spec == Init /\ [][Next]_vars

\* Threads run and requests end; the UI thread finishes the calls it began and
\* empties its event queue.  Nobody has to press, sign in or stop.
FairSpec ==
    /\ Spec
    /\ WF_vars(Worker) /\ WF_vars(Serve) /\ WF_vars(ApplyServerState)
    /\ WF_vars(ui = "keyed" /\ ReconfigureCancel) /\ WF_vars(ReconfigureRaise)
    /\ WF_vars(StopCancel) /\ WF_vars(StopJoin)

-----------------------------------------------------------------------------
\* Every variable keeps to its range.
TypeOK ==
    /\ ui \in {"free", "keyed", "cancelled", "stopping", "joining", "gone"}
    /\ key \in Owners /\ client_key \in Owners
    /\ worker \in Paths \cup {"top", "done", "sink", "decide", "idle", "timed", "exited", "absent"}
    /\ stop_ \in BOOLEAN /\ reconfigure_ \in BOOLEAN /\ poke_ \in BOOLEAN /\ drop_ \in BOOLEAN
    /\ configured \in BOOLEAN /\ drop \in BOOLEAN /\ me_ok \in BOOLEAN
    /\ account_fetched_ \in BOOLEAN
    /\ state_ \in Snapshots /\ dock \in Snapshots /\ shownDropSeq_ \in Nat
    /\ inbox \in Seq(Snapshots) /\ Len(inbox) <= MaxInbox
    /\ cooling \in BOOLEAN /\ presses \in 0..MaxPresses /\ deletes \in Nat
    /\ reconfigures \in 0..MaxUpsets /\ faults \in 0..MaxUpsets
    /\ TypeOKClient(Paths)

\* The panic button takes off what was on air when it was pressed: there is
\* never a DELETE nobody pressed for, whatever wakes the worker up again
\* ("by then the next order may be on air", status-loop.hpp:115-116).
NoUnaskedDelete == deletes + (IF drop_ THEN 1 ELSE 0) <= presses

\* A snapshot never mixes two accounts: all the loop knows, and will show, was
\* read with the key it asks with now; what another key was told is gone first
\* ("forget the account and ask again", status-loop.hpp:105).
NoMixedAccounts ==
    {state_.name, state_.token, state_.beta, state_.orders} \subseteq {"nobody", client_key}

\* A stop is not undone by a reconfigure still pending: the cancel that spares
\* the UI thread the request's timeout stays up until the worker is gone
\* (status-loop.cpp:78-91).
StopIsNotLifted == ui = "joining" => cancelled

\* What every state of the loop is: its variables in range, its snapshot of one
\* account, its stop not undone.
StatusInvariant == TypeOK /\ NoMixedAccounts /\ StopIsNotLifted

\* stop() always gets the UI thread back.
StopReturns == ui = "stopping" ~> ui = "gone"

\* Every accepted press is answered on the screen, across a change of key:
\* "the last answer outlives a new key" (status-loop.cpp:137-138).
PressIsAnswered ==
    \A n \in 0..(MaxPresses - 1) :
        (drop_ /\ state_.drop_seq = n) ~> (shownDropSeq_ > n \/ stop_)

\* The dock ends up telling the truth about the key in the Config, however a
\* sign-in, a sign-out and a poll with the old key crossed each other.
Truth ==
    \/ key = "nobody"  /\ dock.link = "Unknown" /\ dock.name = "nobody"
    \/ key \in BadKeys /\ dock.link = "KeyRejected" /\ dock.name = "nobody"
    \/ key \in GoodKeys /\ dock.link = "Ok"
                        /\ {dock.name, dock.token, dock.beta, dock.orders} = {key}
DockSettles == <>[](Truth \/ stop_)

\* status-loop.hpp:90-91, "never without a key": nothing is asked of the server
\* by a client that has no key.  Not so when the panic button is pressed in the
\* middle of a sign-in (README, section 4).
NeverWithoutKey == wire.stage = "sent" => client_key # "nobody"
=============================================================================
