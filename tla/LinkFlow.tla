------------------------------ MODULE LinkFlow ------------------------------
(***************************************************************************)
(* Signing in through the site (dock/link-flow) and the dock's side of it. *)
(* The worker asks the server for a code, then polls until the streamer    *)
(* has decided on the site or the code has lapsed; each thing it learns is *)
(* posted to the UI thread, which may be cancelling that very sign-in.     *)
(*                                                                         *)
(* A sign-in is a number; the key it collects is that number, and 0 is     *)
(* nobody.  Waiting takes no time: wait_ms may return at any moment, which *)
(* makes cv_'s notification, a mere hastening, invisible.                  *)
(***************************************************************************)
EXTENDS Integers, Sequences, BackendClient

CONSTANTS
    MaxFlows,    \* bound: sign-ins begun
    MaxFaults    \* bound: failed or garbled answers, broken requests

ASSUME BoundAssumption == MaxFlows \in Nat \ {0} /\ MaxFaults \in Nat

Flows == 1..MaxFlows
Decisions == {"pending", "approved", "denied", "expired"}
Kinds == {"Code", "Done", "Failed"}
LinkEvents == [kind : Kinds, flow : Flows]

VARIABLES
    ui,          \* where the UI thread is inside cancel()
    why,         \* who called cancel()
    linking_, key, shown,   \* the dock: its flag, the Config's key, the sign-in whose code it shows
    streaming, loops,       \* on air; VisionLoop and AudioLoop run
    exited,      \* OBS_FRONTEND_EVENT_EXIT has been handled
    cancelled_, sink_,
    worker,      \* where the worker is; "absent" when not joinable
    flow,        \* the sign-in the worker was started for
    lapsed,      \* its deadline has passed
    inbox,       \* events posted to the UI thread
    site,        \* the server: what was decided about each sign-in
    reply,       \* the status in the body of the answer on its way
    faults

dock == <<linking_, key, shown, streaming, loops, exited>>
vars == <<ui, why, dock, cancelled_, sink_, worker, flow, lapsed, inbox, site, reply, faults,
          cancelled, wire>>

Init ==
    /\ ui = "free" /\ why = "nobody"
    /\ linking_ = FALSE /\ key = 0 /\ shown = 0
    /\ streaming = FALSE /\ loops = FALSE /\ exited = FALSE
    /\ cancelled_ = FALSE /\ sink_ = TRUE
    /\ worker = "absent" /\ flow = 0 /\ lapsed = FALSE /\ inbox = << >>
    /\ site = [f \in Flows |-> "none"] /\ reply = "none" /\ faults = 0
    /\ cancelled = FALSE /\ wire = NoRequest

-----------------------------------------------------------------------------
(* The UI thread: clicks and frontend events *)

\* Clicks are far apart for a computer: the event queue is empty when the
\* handler of one begins, though not when it ends.
Idle == ui = "free" /\ inbox = << >>
Enter(caller) == ui' = "raise" /\ why' = caller

SignIn ==
    /\ Idle /\ ~exited /\ ~linking_ /\ flow < MaxFlows
    /\ Enter("signin")
    /\ linking_' = TRUE /\ shown' = 0
    /\ UNCHANGED <<key, streaming, loops, exited, cancelled_, sink_, worker, flow, lapsed, inbox,
                   site, reply, faults, cancelled, wire>>

CancelClicked ==
    /\ Idle /\ ~exited /\ linking_
    /\ Enter("button")
    /\ UNCHANGED <<dock, cancelled_, sink_, worker, flow, lapsed, inbox, site, reply, faults,
                   cancelled, wire>>

\* shutdown_workers(), at EXIT and again at unload, begins with cancel().
Exit ==
    /\ Idle /\ ~exited
    /\ Enter("exit")
    /\ UNCHANGED <<dock, cancelled_, sink_, worker, flow, lapsed, inbox, site, reply, faults,
                   cancelled, wire>>

Unload ==
    /\ ui = "free" /\ exited
    /\ Enter("unload")
    /\ UNCHANGED <<dock, cancelled_, sink_, worker, flow, lapsed, inbox, site, reply, faults,
                   cancelled, wire>>

\* STREAMING_STARTED and STREAMING_STOPPED; a loop does not start without a key.
StreamingStarted ==
    /\ ui = "free" /\ ~exited /\ ~streaming
    /\ streaming' = TRUE /\ loops' = (key # 0)
    /\ UNCHANGED <<ui, why, linking_, key, shown, exited, cancelled_, sink_, worker, flow, lapsed,
                   inbox, site, reply, faults, cancelled, wire>>

StreamingStopped ==
    /\ ui = "free" /\ streaming
    /\ streaming' = FALSE /\ loops' = FALSE
    /\ UNCHANGED <<ui, why, linking_, key, shown, exited, cancelled_, sink_, worker, flow, lapsed,
                   inbox, site, reply, faults, cancelled, wire>>

SignOut ==
    /\ Idle /\ ~exited /\ key # 0
    /\ key' = 0 /\ loops' = FALSE
    /\ UNCHANGED <<ui, why, linking_, shown, streaming, exited, cancelled_, sink_, worker, flow,
                   lapsed, inbox, site, reply, faults, cancelled, wire>>

(* cancel(), and what its callers do once it has returned *)

UIStep(from, to) == ui = from /\ ui' = to /\ UNCHANGED why

\* Mutant: the client is cancelled and the flow is not.
CancelForgotten ==
    /\ UIStep("raise", "curl")
    /\ UNCHANGED <<dock, cancelled_, sink_, worker, flow, lapsed, inbox, site, reply, faults,
                   cancelled, wire>>

CancelRaise ==
    /\ UIStep("raise", "curl")
    /\ cancelled_' = TRUE
    /\ UNCHANGED <<dock, sink_, worker, flow, lapsed, inbox, site, reply, faults, cancelled, wire>>

CancelRequest ==
    /\ UIStep("curl", "join")
    /\ Cancel
    /\ UNCHANGED <<dock, cancelled_, sink_, worker, flow, lapsed, inbox, site, reply, faults, wire>>

CancelReturned(caller) ==
    /\ ui = "join" /\ why = caller
    /\ worker \in {"absent", "exited"}

\* The rest of start(): configure() lifts the cancel before the worker exists.
StartWorker ==
    /\ CancelReturned("signin")
    /\ ui' = "free" /\ why' = "nobody"
    /\ cancelled_' = FALSE /\ Configure
    /\ worker' = "start" /\ flow' = flow + 1 /\ lapsed' = FALSE
    /\ UNCHANGED <<dock, sink_, inbox, site, reply, faults, wire>>

StopLinking ==
    /\ CancelReturned("button")
    /\ ui' = "free" /\ why' = "nobody"
    /\ worker' = "absent" /\ linking_' = FALSE
    /\ UNCHANGED <<key, shown, streaming, loops, exited, cancelled_, sink_, flow, lapsed, inbox,
                   site, reply, faults, cancelled, wire>>

\* The rest of shutdown_workers() stops the loops.
ShutDown ==
    /\ CancelReturned("exit")
    /\ ui' = "free" /\ why' = "nobody"
    /\ worker' = "absent" /\ loops' = FALSE /\ exited' = TRUE
    /\ UNCHANGED <<linking_, key, shown, streaming, cancelled_, sink_, flow, lapsed, inbox, site,
                   reply, faults, cancelled, wire>>

\* After unload's, the dock's destructor drops the sink and cancels once more.
TearDown ==
    /\ CancelReturned("unload")
    /\ Enter("dtor")
    /\ worker' = "absent" /\ loops' = FALSE /\ sink_' = FALSE
    /\ UNCHANGED <<linking_, key, shown, streaming, exited, cancelled_, flow, lapsed, inbox, site,
                   reply, faults, cancelled, wire>>

\* Qt drops what is still queued for a deleted receiver.
Deleted ==
    /\ CancelReturned("dtor")
    /\ ui' = "gone" /\ why' = "nobody"
    /\ inbox' = << >>
    /\ UNCHANGED <<dock, cancelled_, sink_, worker, flow, lapsed, site, reply, faults,
                   cancelled, wire>>

(* applyLinkEvent() *)

Deliver == ui = "free" /\ inbox # << >> /\ inbox' = Tail(inbox)

ApplyCode ==
    /\ Deliver /\ Head(inbox).kind = "Code"
    /\ shown' = Head(inbox).flow
    /\ UNCHANGED <<ui, why, linking_, key, streaming, loops, exited, cancelled_, sink_, worker, flow,
                   lapsed, site, reply, faults, cancelled, wire>>

ApplyFailed ==
    /\ Deliver /\ Head(inbox).kind = "Failed"
    /\ linking_' = FALSE
    /\ UNCHANGED <<ui, why, key, shown, streaming, loops, exited, cancelled_, sink_, worker, flow,
                   lapsed, site, reply, faults, cancelled, wire>>

\* "The workers read the key when they start: mid-stream, restart them."
ApplyDone ==
    /\ Deliver /\ Head(inbox).kind = "Done"
    /\ linking_' = FALSE /\ key' = Head(inbox).flow
    /\ loops' = (loops \/ streaming)
    /\ UNCHANGED <<ui, why, shown, streaming, exited, cancelled_, sink_, worker, flow,
                   lapsed, site, reply, faults, cancelled, wire>>

-----------------------------------------------------------------------------
(* The worker *)

Ask ==
    /\ worker \in {"start", "poll"} /\ wire = NoRequest
    /\ Issue(worker)
    /\ UNCHANGED <<ui, why, dock, cancelled_, sink_, worker, flow, lapsed, inbox, site, reply,
                   faults, cancelled>>

Returned(path, s) ==
    /\ worker = path /\ wire # NoRequest
    /\ \/ (Answer(s) \/ Refusal(s) \/ Abort(s)) /\ UNCHANGED faults
       \/ Break(s) /\ faults < MaxFaults /\ faults' = faults + 1
    /\ Hangup
    /\ UNCHANGED <<ui, why, dock, cancelled_, sink_, flow, lapsed, inbox, site, reply, cancelled>>

\* An answer without a code is as good as none.
Coded(s) == s = "ok" /\ reply = "pending"
StartReturned ==
    \E s \in Statuses :
        /\ Returned("start", s)
        /\ worker' = IF Coded(s) THEN "code" ELSE "failed"

\* Mutant: a refusal on the site is taken for a yes.
DecisionReached == {"approved", "denied"}
Approved == {"approved"}

\* "A blink of the network is not an answer."
PollReturned ==
    \E s \in Statuses :
        /\ Returned("poll", s)
        /\ worker' = CASE s # "ok" \/ reply = "pending" -> "wait"
                       [] s = "ok" /\ reply \in Approved -> "done"
                       [] OTHER -> "failed"

\* Mutant: the code is polled for ever.
WaitOn ==
    /\ worker = "wait"
    /\ worker' = IF cancelled_ THEN "failed" ELSE "poll"
    /\ UNCHANGED <<ui, why, dock, cancelled_, sink_, flow, lapsed, inbox, site, reply, faults,
                   cancelled, wire>>

\* The loop's condition: wait_ms(), and the deadline.
Wait ==
    /\ worker = "wait"
    /\ worker' = IF cancelled_ \/ lapsed THEN "failed" ELSE "poll"
    /\ UNCHANGED <<ui, why, dock, cancelled_, sink_, flow, lapsed, inbox, site, reply, faults,
                   cancelled, wire>>

\* notify(): the flag and the post are under one lock.
Post(kind) ==
    inbox' = IF sink_ /\ ~cancelled_ THEN Append(inbox, [kind |-> kind, flow |-> flow])
                                     ELSE inbox

NotifyCode ==
    /\ worker = "code" /\ worker' = "wait"
    /\ Post("Code")
    /\ UNCHANGED <<ui, why, dock, cancelled_, sink_, flow, lapsed, site, reply, faults,
                   cancelled, wire>>

NotifyDone ==
    /\ worker = "done" /\ worker' = "exited"
    /\ Post("Done")
    /\ UNCHANGED <<ui, why, dock, cancelled_, sink_, flow, lapsed, site, reply, faults,
                   cancelled, wire>>

\* Mutant: a failure is only logged.
FailSilently ==
    /\ worker = "failed" /\ worker' = "exited"
    /\ UNCHANGED <<ui, why, dock, cancelled_, sink_, flow, lapsed, inbox, site, reply, faults,
                   cancelled, wire>>

NotifyFailed ==
    /\ worker = "failed" /\ worker' = "exited"
    /\ Post("Failed")
    /\ UNCHANGED <<ui, why, dock, cancelled_, sink_, flow, lapsed, site, reply, faults,
                   cancelled, wire>>

-----------------------------------------------------------------------------
(* The clock, the server, and the streamer on the site *)

Lapse ==
    /\ worker \in {"wait", "poll"} /\ ~lapsed
    /\ lapsed' = TRUE
    /\ UNCHANGED <<ui, why, dock, cancelled_, sink_, worker, flow, inbox, site, reply, faults,
                   cancelled, wire>>

Serve ==
    /\ \/ /\ Served("ok") /\ UNCHANGED faults
          /\ site' = IF wire.path = "start" THEN [site EXCEPT ![flow] = "pending"] ELSE site
          /\ reply' = site'[flow]
       \/ /\ faults < MaxFaults /\ faults' = faults + 1
          /\ \E s \in Statuses : Served(s)
          /\ reply' = "garbled" /\ UNCHANGED site
    /\ UNCHANGED <<ui, why, dock, cancelled_, sink_, worker, flow, lapsed, inbox, cancelled>>

Decided ==
    /\ \E f \in Flows, d \in Decisions \ {"pending"} :
         site[f] = "pending" /\ site' = [site EXCEPT ![f] = d]
    /\ UNCHANGED <<ui, why, dock, cancelled_, sink_, worker, flow, lapsed, inbox, reply, faults,
                   cancelled, wire>>

-----------------------------------------------------------------------------
UIClicks == \/ SignIn \/ CancelClicked \/ Exit \/ Unload \/ SignOut
            \/ StreamingStarted \/ StreamingStopped
Cancelling == \/ CancelRaise \/ CancelRequest
              \/ StartWorker \/ StopLinking \/ ShutDown \/ TearDown \/ Deleted
ApplyLinkEvent == ApplyCode \/ ApplyFailed \/ ApplyDone
Worker == \/ Ask \/ StartReturned \/ PollReturned \/ Wait
          \/ NotifyCode \/ NotifyDone \/ NotifyFailed

Next == UIClicks \/ Cancelling \/ ApplyLinkEvent \/ Worker \/ Lapse \/ Serve \/ Decided

Spec == Init /\ [][Next]_vars

\* Threads run, requests end, the UI thread goes on and empties its queue.
\* Neither a click nor a decision on the site is owed to anybody.
FairSpec ==
    Spec /\ WF_vars(Cancelling) /\ WF_vars(ApplyLinkEvent) /\ WF_vars(Worker) /\ WF_vars(Serve)

-----------------------------------------------------------------------------
\* Every variable keeps to its range; a sign-in posts a code and one outcome.
TypeOK ==
    /\ ui \in {"free", "raise", "curl", "join", "gone"}
    /\ why \in {"nobody", "signin", "button", "exit", "unload", "dtor"}
    /\ linking_ \in BOOLEAN /\ key \in 0..MaxFlows /\ shown \in 0..MaxFlows
    /\ streaming \in BOOLEAN /\ loops \in BOOLEAN /\ exited \in BOOLEAN
    /\ cancelled_ \in BOOLEAN /\ sink_ \in BOOLEAN
    /\ worker \in {"absent", "start", "code", "wait", "poll", "done", "failed", "exited"}
    /\ flow \in 0..MaxFlows /\ lapsed \in BOOLEAN
    /\ inbox \in Seq(LinkEvents) /\ Len(inbox) <= 2
    /\ site \in [Flows -> Decisions \cup {"none"}]
    /\ reply \in Decisions \cup {"none", "garbled"}
    /\ faults \in 0..MaxFaults
    /\ TypeOKClient({"start", "poll"})

Outcomes == {"Done", "Failed"}
OutcomePosted == \E i \in 1..Len(inbox) : inbox[i].kind \in Outcomes
Waiting == worker \notin {"absent", "exited"}

\* The dock and the worker agree: the dock waits only while a worker will
\* answer it or has, and no worker waits behind a dock that offers to sign in
\* (reevaluate(), sokaster-dock.cpp:441-442, goes by linking_ alone).
DockWaitsForSomeone ==
    ui = "free" /\ ~exited =>
        /\ linking_ => Waiting \/ OutcomePosted
        /\ Waiting => linking_ /\ ~OutcomePosted

\* Nobody is signed in with a key the streamer did not confirm on the site,
\* and what is posted or shown of a sign-in is of the latest one.
ConfirmedOnSite ==
    /\ key # 0 => site[key] = "approved"
    /\ \A i \in 1..Len(inbox) :
         /\ inbox[i].flow = flow
         /\ inbox[i].kind = "Done" => site[flow] = "approved"
    /\ shown \in {0, flow}

\* What every state of a sign-in is: its variables in range, its key confirmed.
LinkInvariant == TypeOK /\ ConfirmedOnSite

\* cancel(), "Returns once the worker is gone" (link-flow.hpp:68): it does
\* return, without waiting for the streamer, the server or the deadline.
CancelReturns == ui = "raise" ~> ui \in {"free", "gone"}

\* "The code is good until the deadline": whatever the network and the streamer
\* do, a sign-in comes to an end on the screen.
SignInEnds == WF_vars(Lapse) => (linking_ ~> (~linking_ \/ exited))

\* Cancel is the way out of a sign-in (sokaster-dock.hpp:92): once pressed, the
\* sign-in it was pressed for does not sign anybody in.  Not so when its Done
\* was posted before cancel() had the lock (README, section 4).
CancelIsAWayOut == [][key' \in {0, key} \/ linking_]_vars

\* "A thread that outlives this is a crash on the way out" (plugin-main.cpp:175).
NothingOutlivesExit == exited => worker = "absent" /\ ~loops
=============================================================================
