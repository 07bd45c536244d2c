--------------------------- MODULE LinkFlow_proofs ---------------------------
(***************************************************************************)
(* Nobody is signed in with a key that was not confirmed on the site, and  *)
(* the dock waits exactly while somebody will answer it: for any number of *)
(* sign-ins and faults, and however cancels and answers cross.             *)
(***************************************************************************)
EXTENDS LinkFlow, TLAPS

\* The request on its way is the worker's.
Wires == wire # NoRequest => wire.path = worker /\ wire.stage # "none"

\* The site hears of a sign-in when its start is served, and of no later one.
Asked ==
    /\ worker # "absent" => flow \in Flows
    /\ \A f \in Flows : f > flow => site[f] = "none"
    /\ worker = "start" /\ wire.stage # "served" => site[flow] = "none"

\* A yes in an answer, or in the worker's hands, was said on the site.
Approvals ==
    /\ wire.stage = "served" /\ reply = "approved" => site[flow] = "approved"
    /\ worker = "done" => site[flow] = "approved"

\* A worker posts its code before it polls, and its outcome when it leaves.
Posts ==
    /\ worker \in {"start", "code"} => Len(inbox) = 0
    /\ Waiting => Len(inbox) <= 1 /\ ~OutcomePosted

\* Who is inside cancel(), and what they found when they called it; and a worker
\* the dock waits for is listened to.
Callers ==
    /\ ui = "free" => why = "nobody"
    /\ why = "signin" => ~Waiting /\ linking_ /\ shown = 0 /\ Len(inbox) = 0 /\ flow < MaxFlows /\ ~exited
    /\ why \in {"unload", "dtor"} => exited
    /\ ~exited => sink_
    /\ ui = "free" /\ ~exited /\ Waiting => ~cancelled_

Inv == /\ TypeOK /\ ConfirmedOnSite /\ DockWaitsForSomeone
       /\ Wires /\ Asked /\ Approvals /\ Posts /\ Callers

LEMMA InitInv == Init => Inv
<1>. SUFFICES ASSUME Init PROVE Inv
  OBVIOUS
<1>1. 0 \in 0..MaxFlows /\ 0 \in 0..MaxFaults
  BY BoundAssumption
<1>2. inbox \in Seq(LinkEvents) /\ Len(inbox) = 0
  BY DEF Init
<1>3. TypeOKClient({"start", "poll"})
  BY DEF Init, TypeOKClient, NoRequest, Stages, Statuses
<1>4. site \in [Flows -> Decisions \cup {"none"}] /\ \A f \in Flows : site[f] = "none"
  BY DEF Init
<1>5. TypeOK
  <2>1. /\ site \in [Flows -> Decisions \cup {"none"}] /\ reply \in Decisions \cup {"none", "garbled"}
        /\ inbox \in Seq(LinkEvents) /\ Len(inbox) <= 2
    BY <1>2, <1>4 DEF Init
  <2>. QED
    BY <1>1, <1>3, <2>1 DEF Init, TypeOK
<1>6. ConfirmedOnSite /\ DockWaitsForSomeone
  BY <1>2 DEF Init, ConfirmedOnSite, DockWaitsForSomeone, Waiting
<1>7. Wires /\ Asked /\ Approvals
  BY <1>4 DEF Init, Wires, Asked, Approvals, NoRequest
<1>8. Posts /\ Callers
  BY DEF Init, Posts, Callers, Waiting
<1>. QED
  BY <1>5, <1>6, <1>7, <1>8 DEF Inv

\* What the flow and the site know is as it was while the UI thread goes about its own.
LEMMA QuietInv ==
  ASSUME Inv, UNCHANGED <<worker, flow, inbox, site, reply, wire>>
  PROVE  /\ Wires' /\ Asked' /\ Approvals' /\ Posts' /\ Waiting' = Waiting
         /\ OutcomePosted' = OutcomePosted
  BY DEF Inv, Wires, Asked, Approvals, Posts, Waiting, OutcomePosted, Outcomes

LEMMA UIInv == Inv /\ UIClicks => Inv'
<1>. SUFFICES ASSUME Inv, UIClicks PROVE Inv'
  OBVIOUS
<1>1. /\ UNCHANGED <<cancelled_, sink_, worker, flow, lapsed, inbox, site, reply, faults, cancelled, wire>>
      /\ UNCHANGED exited
  BY DEF UIClicks, SignIn, CancelClicked, Exit, Unload, SignOut, StreamingStarted, StreamingStopped, dock
<1>2. Wires' /\ Asked' /\ Approvals' /\ Posts' /\ Waiting' = Waiting /\ OutcomePosted' = OutcomePosted
  BY <1>1, QuietInv
<1>3. /\ ui = "free" /\ ui' \in {"free", "raise"} /\ why' \in {"nobody", "signin", "button", "exit", "unload", "dtor"}
      /\ linking_' \in BOOLEAN /\ key' \in {0, key} /\ shown' \in {0, shown}
      /\ streaming' \in BOOLEAN /\ loops' \in BOOLEAN
  BY DEF UIClicks, SignIn, CancelClicked, Exit, Unload, SignOut, StreamingStarted, StreamingStopped, dock,
     Idle, Enter, Inv, TypeOK
<1>4. TypeOK'
  BY <1>1, <1>3, BoundAssumption DEF Inv, TypeOK, TypeOKClient
<1>5. ConfirmedOnSite'
  BY <1>1, <1>3 DEF Inv, ConfirmedOnSite
<1>6. CASE ui' = "raise"
  <2>1. DockWaitsForSomeone'
    BY <1>6 DEF DockWaitsForSomeone
  <2>2. why' = "signin" => ~Waiting /\ linking_' /\ shown' = 0 /\ Len(inbox) = 0 /\ flow < MaxFlows /\ ~exited
    BY <1>6, <1>3 DEF UIClicks, SignIn, CancelClicked, Exit, Unload, SignOut, StreamingStarted, StreamingStopped,
       Idle, Enter, Inv, DockWaitsForSomeone
  <2>3. why' \in {"unload", "dtor"} => exited
    BY <1>6, <1>3 DEF UIClicks, SignIn, CancelClicked, Exit, Unload, SignOut, StreamingStarted, StreamingStopped,
       Idle, Enter
  <2>4. Callers'
    BY <1>1, <1>2, <1>6, <2>2, <2>3 DEF Inv, Callers
  <2>. QED
    BY <1>2, <1>4, <1>5, <2>1, <2>4 DEF Inv
<1>7. CASE ui' = "free"
  <2>1. UNCHANGED <<ui, why, linking_, shown>>
    BY <1>3, <1>7 DEF UIClicks, SignIn, CancelClicked, Exit, Unload, SignOut, StreamingStarted, StreamingStopped,
       Idle, Enter
  <2>2. DockWaitsForSomeone' /\ Callers'
    BY <1>1, <1>2, <1>3, <1>7, <2>1 DEF Inv, DockWaitsForSomeone, Callers
  <2>. QED
    BY <1>2, <1>4, <1>5, <2>2 DEF Inv
<1>. QED
  BY <1>3, <1>6, <1>7

LEMMA CancellingInv == Inv /\ Cancelling => Inv'
<1>. SUFFICES ASSUME Inv, Cancelling PROVE Inv'
  OBVIOUS
<1>1. CASE CancelRaise \/ CancelRequest
  <2>1. /\ ui \in {"raise", "curl"} /\ ui' \in {"curl", "join"} /\ cancelled_' \in BOOLEAN /\ cancelled' \in BOOLEAN
        /\ UNCHANGED <<why, dock, sink_, worker, flow, lapsed, inbox, site, reply, faults, wire>>
    BY <1>1 DEF CancelRaise, CancelRequest, UIStep, Cancel, Inv, TypeOK, TypeOKClient
  <2>2. Wires' /\ Asked' /\ Approvals' /\ Posts' /\ Waiting' = Waiting
    BY <2>1, QuietInv
  <2>3. TypeOK' /\ ConfirmedOnSite' /\ DockWaitsForSomeone' /\ Callers'
    BY <2>1, <2>2 DEF Inv, TypeOK, TypeOKClient, ConfirmedOnSite, DockWaitsForSomeone, Callers, dock
  <2>. QED
    BY <2>2, <2>3 DEF Inv
<1>2. CASE StartWorker
  <2>1. /\ ui = "join" /\ why = "signin" /\ worker \in {"absent", "exited"}
        /\ ui' = "free" /\ why' = "nobody" /\ cancelled_' = FALSE /\ cancelled' = FALSE
        /\ worker' = "start" /\ flow' = flow + 1 /\ lapsed' = FALSE
        /\ UNCHANGED <<dock, sink_, inbox, site, reply, faults, wire>>
    BY <1>2 DEF StartWorker, CancelReturned, Configure
  <2>2. linking_ /\ shown = 0 /\ Len(inbox) = 0 /\ flow < MaxFlows /\ ~exited /\ sink_
    BY <2>1 DEF Inv, Callers
  <2>3. flow \in Nat /\ flow' \in Flows /\ flow' \in 0..MaxFlows
    BY <2>1, <2>2, BoundAssumption DEF Inv, TypeOK, Flows
  <2>4. TypeOK'
    BY <2>1, <2>3 DEF Inv, TypeOK, TypeOKClient, dock
  <2>5. ConfirmedOnSite'
    BY <2>1, <2>2 DEF Inv, ConfirmedOnSite, dock
  <2>6. wire = NoRequest
    BY <2>1 DEF Inv, Wires, TypeOK, TypeOKClient
  <2>7. Wires' /\ Approvals'
    BY <2>1, <2>6 DEF Wires, Approvals, NoRequest
  <2>8. Asked'
    BY <2>1, <2>3 DEF Inv, Asked, Flows
  <2>9. Len(inbox') = 0 /\ ~OutcomePosted'
    BY <2>1, <2>2 DEF OutcomePosted
  <2>10. Posts' /\ Waiting' /\ DockWaitsForSomeone' /\ Callers'
    BY <2>1, <2>2, <2>9 DEF Posts, Waiting, DockWaitsForSomeone, Callers, dock
  <2>. QED
    BY <2>4, <2>5, <2>7, <2>8, <2>10 DEF Inv
<1>3. CASE StopLinking \/ ShutDown \/ TearDown
  <2>1. /\ worker \in {"absent", "exited"} /\ worker' = "absent" /\ why # "signin"
        /\ ui' \in {"free", "raise"} /\ why' \in {"nobody", "dtor"} /\ (ui' = "free" => why' = "nobody")
        /\ (linking_' = linking_ \/ linking_' = FALSE) /\ (loops' = loops \/ loops' = FALSE)
        /\ (sink_' = sink_ \/ sink_' = FALSE) /\ (exited' = exited \/ exited' = TRUE)
        /\ why' = "dtor" => why = "unload" /\ exited' = exited
        /\ sink_' # sink_ => why = "unload" /\ exited' = exited
        /\ ui' = "free" => ~linking_' \/ exited'
        /\ UNCHANGED <<key, shown, streaming, cancelled_, flow, lapsed, inbox, site, reply, faults,
                       cancelled, wire>>
    BY <1>3 DEF StopLinking, ShutDown, TearDown, CancelReturned, Enter
  <2>8. linking_' \in BOOLEAN /\ loops' \in BOOLEAN /\ sink_' \in BOOLEAN /\ exited' \in BOOLEAN
    BY <2>1, Zenon DEF Inv, TypeOK
  <2>2. TypeOK'
    BY <2>1, <2>8 DEF Inv, TypeOK, TypeOKClient
  <2>3. ConfirmedOnSite'
    BY <2>1 DEF Inv, ConfirmedOnSite
  <2>4. wire = NoRequest /\ ~Waiting'
    BY <2>1 DEF Inv, Wires, TypeOK, TypeOKClient, Waiting
  <2>5. Wires' /\ Approvals' /\ Asked'
    BY <2>1, <2>4 DEF Inv, Wires, Approvals, Asked, NoRequest
  <2>6. Posts' /\ DockWaitsForSomeone'
    BY <2>1, <2>4 DEF Posts, DockWaitsForSomeone
  <2>7. Callers'
    BY <2>1, <2>4 DEF Inv, Callers
  <2>. QED
    BY <2>2, <2>3, <2>5, <2>6, <2>7 DEF Inv
<1>4. CASE Deleted
  <2>1. /\ ui' = "gone" /\ why' = "nobody" /\ inbox' = << >>
        /\ UNCHANGED <<dock, cancelled_, sink_, worker, flow, lapsed, site, reply, faults, cancelled, wire>>
    BY <1>4 DEF Deleted
  <2>2. inbox' \in Seq(LinkEvents) /\ Len(inbox') = 0
    BY <2>1
  <2>3. ~OutcomePosted'
    BY <2>2 DEF OutcomePosted
  <2>4. TypeOK'
    BY <2>1, <2>2 DEF Inv, TypeOK, TypeOKClient, dock
  <2>5. ConfirmedOnSite'
    BY <2>1, <2>2 DEF Inv, ConfirmedOnSite, dock
  <2>6. Wires' /\ Asked' /\ Approvals' /\ Posts'
    BY <2>1, <2>2, <2>3 DEF Inv, Wires, Asked, Approvals, Posts
  <2>7. DockWaitsForSomeone' /\ Callers'
    BY <2>1 DEF Inv, DockWaitsForSomeone, Callers, dock
  <2>. QED
    BY <2>4, <2>5, <2>6, <2>7 DEF Inv
<1>. QED
  BY <1>1, <1>2, <1>3, <1>4 DEF Cancelling

\* What is left in the queue was there before, and an outcome stays unless it is the one taken out.
LEMMA Delivered ==
  ASSUME Inv, Deliver
  PROVE  /\ Head(inbox) = inbox[1] /\ 1 \in 1..Len(inbox) /\ inbox[1] \in LinkEvents
         /\ inbox' \in Seq(LinkEvents) /\ Len(inbox) \in Nat /\ Len(inbox') = Len(inbox) - 1
         /\ \A i \in 1..Len(inbox') : i + 1 \in 1..Len(inbox) /\ inbox'[i] = inbox[i + 1]
         /\ OutcomePosted' => OutcomePosted
         /\ OutcomePosted => OutcomePosted' \/ Head(inbox).kind \in Outcomes
<1>1. inbox \in Seq(LinkEvents) /\ inbox # << >> /\ inbox' = Tail(inbox)
  BY DEF Inv, TypeOK, Deliver
<1>2. /\ Head(inbox) = inbox[1] /\ 1 \in 1..Len(inbox) /\ inbox[1] \in LinkEvents
      /\ inbox' \in Seq(LinkEvents) /\ Len(inbox) \in Nat /\ Len(inbox') = Len(inbox) - 1
  BY <1>1
<1>3. \A i \in 1..Len(inbox') : i + 1 \in 1..Len(inbox) /\ inbox'[i] = inbox[i + 1]
  BY <1>1, <1>2
<1>4. OutcomePosted' => OutcomePosted
  BY <1>3 DEF OutcomePosted
<1>5. ASSUME OutcomePosted, Head(inbox).kind \notin Outcomes PROVE OutcomePosted'
  <2>1. PICK i \in 1..Len(inbox) : inbox[i].kind \in Outcomes
    BY <1>5 DEF OutcomePosted
  <2>2. i # 1
    BY <1>2, <1>5, <2>1
  <2>3. i - 1 \in 1..Len(inbox') /\ inbox'[i - 1] = inbox[(i - 1) + 1] /\ (i - 1) + 1 = i
    BY <1>2, <1>3, <2>1, <2>2
  <2>. QED
    BY <2>1, <2>3 DEF OutcomePosted
<1>. QED
  BY <1>2, <1>3, <1>4, <1>5

LEMMA ApplyInv == Inv /\ ApplyLinkEvent => Inv'
<1>. SUFFICES ASSUME Inv, ApplyLinkEvent PROVE Inv'
  OBVIOUS
<1>1. /\ Deliver /\ ui = "free"
      /\ UNCHANGED <<ui, why, streaming, exited, cancelled_, sink_, worker, flow, lapsed, site, reply,
                     faults, cancelled, wire>>
      /\ loops' \in {loops, loops \/ streaming}
      /\ \/ Head(inbox).kind = "Code" /\ shown' = Head(inbox).flow /\ UNCHANGED <<linking_, key>>
         \/ Head(inbox).kind = "Failed" /\ linking_' = FALSE /\ UNCHANGED <<shown, key>>
         \/ Head(inbox).kind = "Done" /\ linking_' = FALSE /\ key' = Head(inbox).flow /\ UNCHANGED shown
  BY DEF ApplyLinkEvent, ApplyCode, ApplyFailed, ApplyDone, Deliver
<1>2. /\ Head(inbox) = inbox[1] /\ 1 \in 1..Len(inbox) /\ inbox[1] \in LinkEvents
      /\ inbox' \in Seq(LinkEvents) /\ Len(inbox) \in Nat /\ Len(inbox') = Len(inbox) - 1
      /\ \A i \in 1..Len(inbox') : i + 1 \in 1..Len(inbox) /\ inbox'[i] = inbox[i + 1]
      /\ OutcomePosted' => OutcomePosted
      /\ OutcomePosted => OutcomePosted' \/ Head(inbox).kind \in Outcomes
  BY <1>1, Delivered
<1>3. Head(inbox).flow = flow /\ (Head(inbox).kind = "Done" => site[flow] = "approved")
  BY <1>2 DEF Inv, ConfirmedOnSite
<1>4. flow \in 0..MaxFlows /\ key \in 0..MaxFlows /\ shown \in 0..MaxFlows /\ Len(inbox) <= 2
  BY DEF Inv, TypeOK
<1>5. key' \in 0..MaxFlows /\ shown' \in 0..MaxFlows
  BY <1>1, <1>3, <1>4
<1>12. linking_' \in BOOLEAN /\ loops' \in BOOLEAN
  BY <1>1, Zenon DEF Inv, TypeOK
<1>13. Len(inbox') <= 2
  BY <1>2, <1>4
<1>6. TypeOK'
  BY <1>1, <1>2, <1>5, <1>12, <1>13 DEF Inv, TypeOK, TypeOKClient
<1>7. ConfirmedOnSite'
  <2>1. key' # 0 => site[key'] = "approved"
    BY <1>1, <1>3 DEF Inv, ConfirmedOnSite
  <2>2. shown' \in {0, flow}
    BY <1>1, <1>3 DEF Inv, ConfirmedOnSite
  <2>3. \A i \in 1..Len(inbox') : inbox'[i].flow = flow /\ (inbox'[i].kind = "Done" => site[flow] = "approved")
    BY <1>2 DEF Inv, ConfirmedOnSite
  <2>. QED
    BY <1>1, <2>1, <2>2, <2>3 DEF ConfirmedOnSite
<1>8. Waiting' = Waiting /\ Wires' /\ Asked' /\ Approvals'
  BY <1>1 DEF Inv, Waiting, Wires, Asked, Approvals
<1>9. Posts'
  BY <1>1, <1>2, <1>8 DEF Inv, Posts
<1>10. DockWaitsForSomeone'
  <2>1. CASE Head(inbox).kind = "Code"
    BY <1>1, <1>2, <1>8, <2>1 DEF Inv, DockWaitsForSomeone, Outcomes
  <2>2. CASE Head(inbox).kind \in Outcomes
    <3>1. OutcomePosted /\ ~linking_'
      BY <1>1, <1>2, <2>2 DEF OutcomePosted, Outcomes
    <3>. QED
      BY <1>1, <1>8, <3>1 DEF Inv, DockWaitsForSomeone, Posts
  <2>. QED
    BY <1>1, <2>1, <2>2 DEF Outcomes
<1>11. Callers'
  BY <1>1, <1>8 DEF Inv, Callers
<1>. QED
  BY <1>6, <1>7, <1>8, <1>9, <1>10, <1>11 DEF Inv

\* A post adds one event of the latest sign-in, or none.
LEMMA Posted ==
  ASSUME Inv, NEW kind \in Kinds, flow \in Flows, Len(inbox) <= 1, Post(kind)
  PROVE  /\ inbox' \in Seq(LinkEvents) /\ Len(inbox') <= Len(inbox) + 1 /\ Len(inbox') <= 2
         /\ \A i \in 1..Len(inbox') : \/ i \in 1..Len(inbox) /\ inbox'[i] = inbox[i]
                                      \/ inbox'[i] = [kind |-> kind, flow |-> flow]
         /\ OutcomePosted => OutcomePosted'
         /\ OutcomePosted' => OutcomePosted \/ kind \in Outcomes
         /\ sink_ /\ ~cancelled_ /\ kind \in Outcomes => OutcomePosted'
<1>. DEFINE e == [kind |-> kind, flow |-> flow]
<1>1. inbox \in Seq(LinkEvents) /\ e \in LinkEvents /\ Len(inbox) \in Nat
  BY DEF Inv, TypeOK, LinkEvents
<1>2. CASE sink_ /\ ~cancelled_
  <2>1. inbox' = Append(inbox, e)
    BY <1>2 DEF Post
  <2>2. /\ inbox' \in Seq(LinkEvents) /\ Len(inbox') = Len(inbox) + 1
        /\ \A i \in 1..Len(inbox) : inbox'[i] = inbox[i]
        /\ inbox'[Len(inbox) + 1] = e
    BY <1>1, <2>1
  <2>3. \A i \in 1..Len(inbox') : i \in 1..Len(inbox) \/ i = Len(inbox) + 1
    BY <1>1, <2>2
  <2>4. \A i \in 1..Len(inbox') : (i \in 1..Len(inbox) /\ inbox'[i] = inbox[i]) \/ inbox'[i] = e
    BY <2>2, <2>3
  <2>5. e.kind = kind /\ Len(inbox) + 1 \in 1..Len(inbox') /\ 1..Len(inbox) \subseteq 1..Len(inbox')
    BY <1>1, <2>2
  <2>6. OutcomePosted => OutcomePosted'
    BY <2>2, <2>5 DEF OutcomePosted
  <2>7. OutcomePosted' => OutcomePosted \/ kind \in Outcomes
    BY <2>4, <2>5 DEF OutcomePosted
  <2>8. kind \in Outcomes => OutcomePosted'
    BY <2>2, <2>5 DEF OutcomePosted
  <2>. QED
    BY <1>1, <2>2, <2>4, <2>6, <2>7, <2>8
<1>3. CASE ~(sink_ /\ ~cancelled_)
  <2>1. inbox' = inbox
    BY <1>3 DEF Post
  <2>. QED
    BY <1>1, <1>3, <2>1 DEF OutcomePosted
<1>. QED
  BY <1>2, <1>3

\* A post leaves what is posted of the latest sign-in, if a yes was said on the site.
LEMMA PostInv ==
  ASSUME Inv, NEW kind \in Kinds, flow \in Flows, Len(inbox) <= 1, Post(kind),
         kind = "Done" => site[flow] = "approved",
         UNCHANGED <<ui, why, dock, cancelled_, sink_, flow, lapsed, site, reply, faults, cancelled, wire>>,
         worker' \in {"wait", "exited"}
  PROVE  TypeOK' /\ ConfirmedOnSite'
<1>1. /\ inbox' \in Seq(LinkEvents) /\ Len(inbox') <= 2
      /\ \A i \in 1..Len(inbox') : \/ i \in 1..Len(inbox) /\ inbox'[i] = inbox[i]
                                   \/ inbox'[i] = [kind |-> kind, flow |-> flow]
  BY Posted
<1>2. TypeOK'
  BY <1>1 DEF Inv, TypeOK, TypeOKClient, dock
<1>3. \A i \in 1..Len(inbox') : inbox'[i].flow = flow /\ (inbox'[i].kind = "Done" => site[flow] = "approved")
  BY <1>1 DEF Inv, ConfirmedOnSite
<1>4. ConfirmedOnSite'
  BY <1>3 DEF Inv, ConfirmedOnSite, dock
<1>. QED
  BY <1>2, <1>4

LEMMA NotifyInv == Inv /\ (NotifyCode \/ NotifyDone \/ NotifyFailed) => Inv'
<1>. SUFFICES ASSUME Inv, NotifyCode \/ NotifyDone \/ NotifyFailed PROVE Inv'
  OBVIOUS
<1>1. PICK kind \in Kinds :
        /\ Post(kind)
        /\ \/ worker = "code" /\ kind = "Code" /\ worker' = "wait"
           \/ worker = "done" /\ kind = "Done" /\ worker' = "exited"
           \/ worker = "failed" /\ kind = "Failed" /\ worker' = "exited"
  BY DEF NotifyCode, NotifyDone, NotifyFailed, Kinds
<1>2. UNCHANGED <<ui, why, dock, cancelled_, sink_, flow, lapsed, site, reply, faults, cancelled, wire>>
  BY DEF NotifyCode, NotifyDone, NotifyFailed
<1>3. /\ Waiting /\ flow \in Flows /\ ~OutcomePosted /\ Len(inbox) <= 1 /\ (worker = "code" => Len(inbox) = 0)
      /\ Len(inbox) \in Nat /\ (kind = "Done" => site[flow] = "approved")
  BY <1>1 DEF Inv, Waiting, Asked, Posts, Approvals, TypeOK
<1>4. /\ Len(inbox') <= Len(inbox) + 1
      /\ OutcomePosted' => kind \in Outcomes
      /\ sink_ /\ ~cancelled_ /\ kind \in Outcomes => OutcomePosted'
  BY <1>1, <1>3, Posted
<1>5. TypeOK' /\ ConfirmedOnSite'
  BY <1>1, <1>2, <1>3, PostInv
<1>6. wire = NoRequest
  BY <1>1 DEF Inv, Wires, TypeOK, TypeOKClient
<1>7. Wires' /\ Asked' /\ Approvals'
  BY <1>1, <1>2, <1>3, <1>6 DEF Inv, Wires, Asked, Approvals, NoRequest
<1>8. CASE kind = "Code"
  <2>1. worker = "code" /\ worker' = "wait" /\ ~OutcomePosted'
    BY <1>1, <1>4, <1>8 DEF Outcomes
  <2>2. Len(inbox) = 0
    BY <1>3, <2>1
  <2>3. Len(inbox') <= 1
    BY <1>4, <2>2
  <2>4. Waiting'
    BY <2>1 DEF Waiting
  <2>. QED
    BY <1>2, <1>3, <1>5, <1>7, <2>1, <2>3, <2>4 DEF Inv, Posts, DockWaitsForSomeone, Callers, dock
<1>9. CASE kind # "Code"
  <2>1. worker' = "exited" /\ ~Waiting' /\ kind \in Outcomes
    BY <1>1, <1>9 DEF Waiting, Outcomes
  <2>2. ui = "free" /\ ~exited => OutcomePosted'
    BY <1>3, <1>4, <2>1 DEF Inv, Callers
  <2>. QED
    BY <1>2, <1>3, <1>5, <1>7, <2>1, <2>2 DEF Inv, Posts, DockWaitsForSomeone, Callers, dock
<1>. QED
  BY <1>8, <1>9

LEMMA WorkerInv == Inv /\ (Ask \/ StartReturned \/ PollReturned \/ Wait) => Inv'
<1>. SUFFICES ASSUME Inv, Ask \/ StartReturned \/ PollReturned \/ Wait PROVE Inv'
  OBVIOUS
<1>1. /\ worker \in {"start", "poll", "wait"}
      /\ UNCHANGED <<ui, why, dock, cancelled_, sink_, flow, lapsed, inbox, site, reply, cancelled>>
  BY DEF Ask, StartReturned, PollReturned, Wait, Returned
<1>2. /\ worker' \in {"start", "code", "wait", "poll", "done", "failed"}
      /\ worker' \in {"start", "code"} => worker = "start"
      /\ worker' = "start" => Ask
  BY DEF Ask, StartReturned, PollReturned, Wait, Returned
<1>3. faults' \in 0..MaxFaults
  BY BoundAssumption DEF Ask, StartReturned, PollReturned, Wait, Returned, Inv, TypeOK
<1>4. TypeOKClient({"start", "poll"})' /\ Wires'
  <2>1. CASE Ask
    <3>1. /\ worker' = worker /\ worker \in {"start", "poll"} /\ cancelled' = cancelled
          /\ wire' = [path |-> worker, stage |-> IF cancelled THEN "refused" ELSE "sent", status |-> "failed"]
      BY <2>1 DEF Ask, Issue
    <3>. QED
      BY <3>1 DEF Wires, Inv, TypeOK, TypeOKClient, Stages, Statuses
  <2>2. CASE StartReturned \/ PollReturned
    <3>1. wire' = NoRequest /\ cancelled' = cancelled
      BY <2>2 DEF StartReturned, PollReturned, Returned, Hangup
    <3>. QED
      BY <3>1 DEF Wires, Inv, TypeOK, TypeOKClient, Stages, Statuses, NoRequest
  <2>3. CASE Wait
    <3>1. wire = NoRequest /\ wire' = wire /\ cancelled' = cancelled
      BY <2>3 DEF Wait, Inv, Wires, TypeOK, TypeOKClient
    <3>. QED
      BY <3>1 DEF Wires, Inv, TypeOK, TypeOKClient
  <2>. QED
    BY <2>1, <2>2, <2>3
<1>5. wire'.stage # "served"
  BY DEF Ask, StartReturned, PollReturned, Wait, Returned, Issue, Hangup, NoRequest, Inv, Wires, TypeOK, TypeOKClient
<1>6. worker' = "done" => site[flow] = "approved"
  <2>1. SUFFICES ASSUME worker' = "done" PROVE site[flow] = "approved"
    OBVIOUS
  <2>2. PollReturned
    BY <2>1 DEF Ask, StartReturned, PollReturned, Wait, Returned
  <2>3. Returned("poll", "ok") /\ reply = "approved"
    BY <2>1, <2>2 DEF PollReturned, Approved
  <2>4. wire.stage = "served"
    BY <2>3 DEF Returned, Answer, Refusal, Abort, Break
  <2>. QED
    BY <2>3, <2>4 DEF Inv, Approvals
<1>7. Waiting /\ Waiting' /\ flow \in Flows /\ OutcomePosted' = OutcomePosted
  BY <1>1, <1>2 DEF Waiting, Inv, Asked, OutcomePosted
<1>8. TypeOK' /\ ConfirmedOnSite'
  BY <1>1, <1>2, <1>3, <1>4 DEF Inv, TypeOK, ConfirmedOnSite, dock
<1>9. Asked'
  <2>1. worker' = "start" => worker = "start" /\ wire.stage # "served"
    BY <1>2 DEF Ask, NoRequest
  <2>. QED
    BY <1>1, <1>7, <2>1 DEF Inv, Asked
<1>10. Approvals' /\ Posts'
  BY <1>1, <1>2, <1>5, <1>6, <1>7 DEF Inv, Approvals, Posts
<1>11. DockWaitsForSomeone' /\ Callers'
  BY <1>1, <1>7 DEF Inv, DockWaitsForSomeone, Callers, dock
<1>. QED
  BY <1>4, <1>8, <1>9, <1>10, <1>11 DEF Inv

LEMMA ServeInv == Inv /\ Serve => Inv'
<1>. SUFFICES ASSUME Inv, Serve PROVE Inv'
  OBVIOUS
<1>1. UNCHANGED <<ui, why, dock, cancelled_, sink_, worker, flow, lapsed, inbox, cancelled>>
  BY DEF Serve
<1>2. PICK s \in Statuses : Served(s)
  BY DEF Serve, Statuses
<1>3. wire.stage = "sent" /\ wire' = [wire EXCEPT !.stage = "served", !.status = s]
  BY <1>2 DEF Served
<1>4. wire # NoRequest /\ wire.path = worker /\ worker # "absent" /\ flow \in Flows
  BY <1>3 DEF Inv, Wires, Asked, TypeOK, TypeOKClient, NoRequest
<1>5. wire'.stage = "served" /\ wire'.path = worker /\ TypeOKClient({"start", "poll"})'
  BY <1>1, <1>3, <1>4 DEF Inv, TypeOK, TypeOKClient, Stages
<1>6. Wires'
  BY <1>1, <1>5 DEF Wires
<1>7. /\ site' = site \/ (worker = "start" /\ site' = [site EXCEPT ![flow] = "pending"])
      /\ reply' \in {site'[flow], "garbled"}
  BY <1>4 DEF Serve
<1>8. site' \in [Flows -> Decisions \cup {"none"}]
  BY <1>4, <1>7 DEF Inv, TypeOK, Decisions
<1>9. faults' \in 0..MaxFaults
  BY BoundAssumption DEF Serve, Inv, TypeOK
<1>10. TypeOK'
  <2>1. reply' \in Decisions \cup {"none", "garbled"}
    BY <1>4, <1>7, <1>8
  <2>. QED
    BY <1>1, <1>5, <1>8, <1>9, <2>1 DEF Inv, TypeOK, dock
<1>11. \A f \in Flows : site[f] = "approved" => site'[f] = "approved"
  BY <1>3, <1>4, <1>7 DEF Inv, TypeOK, Asked
<1>12. ConfirmedOnSite'
  <2>1. key # 0 => key \in Flows
    BY BoundAssumption DEF Inv, TypeOK, Flows
  <2>. QED
    BY <1>1, <1>4, <1>11, <2>1 DEF Inv, ConfirmedOnSite, dock
<1>13. Asked'
  BY <1>1, <1>4, <1>5, <1>7, BoundAssumption DEF Inv, TypeOK, Asked, Flows
<1>14. Approvals'
  BY <1>1, <1>4, <1>7, <1>11 DEF Inv, Approvals
<1>15. Waiting' = Waiting /\ OutcomePosted' = OutcomePosted
  BY <1>1 DEF Waiting, OutcomePosted
<1>16. Posts' /\ DockWaitsForSomeone' /\ Callers'
  BY <1>1, <1>15 DEF Inv, Posts, DockWaitsForSomeone, Callers, dock
<1>. QED
  BY <1>6, <1>10, <1>12, <1>13, <1>14, <1>16 DEF Inv

LEMMA ClockInv == Inv /\ (Lapse \/ Decided) => Inv'
<1>. SUFFICES ASSUME Inv, Lapse \/ Decided PROVE Inv'
  OBVIOUS
<1>1. UNCHANGED <<ui, why, dock, cancelled_, sink_, worker, flow, inbox, reply, faults, cancelled, wire>>
  BY DEF Lapse, Decided
<1>2. lapsed' \in BOOLEAN
  BY DEF Lapse, Decided, Inv, TypeOK
<1>3. \/ site' = site
      \/ \E f \in Flows, d \in Decisions : site[f] = "pending" /\ site' = [site EXCEPT ![f] = d]
  BY DEF Lapse, Decided
<1>4. /\ site' \in [Flows -> Decisions \cup {"none"}]
      /\ \A f \in Flows : (site[f] = "approved" => site'[f] = "approved") /\ (site[f] = "none" => site'[f] = "none")
  BY <1>3 DEF Inv, TypeOK
<1>5. TypeOK'
  BY <1>1, <1>2, <1>4 DEF Inv, TypeOK, TypeOKClient, dock
<1>6. (key # 0 => key \in Flows) /\ (Len(inbox) # 0 => shown \in {0, flow})
  BY BoundAssumption DEF Inv, TypeOK, Flows, ConfirmedOnSite
<1>7. \A i \in 1..Len(inbox) : inbox[i].flow \in Flows
  <2>1. \A i \in 1..Len(inbox) : inbox[i] \in LinkEvents
    BY DEF Inv, TypeOK
  <2>. QED
    BY <2>1 DEF LinkEvents
<1>8. ConfirmedOnSite'
  BY <1>1, <1>4, <1>6, <1>7 DEF Inv, ConfirmedOnSite, dock
<1>9. Wires' /\ Asked'
  BY <1>1, <1>4, BoundAssumption DEF Inv, Wires, Asked
<1>10. Approvals'
  <2>1. wire.stage = "served" \/ worker = "done" => flow \in Flows
    BY DEF Inv, Wires, Asked, TypeOK, TypeOKClient, NoRequest
  <2>. QED
    BY <1>1, <1>4, <2>1 DEF Inv, Approvals
<1>11. Waiting' = Waiting /\ OutcomePosted' = OutcomePosted
  BY <1>1 DEF Waiting, OutcomePosted
<1>12. Posts' /\ DockWaitsForSomeone' /\ Callers'
  BY <1>1, <1>11 DEF Inv, Posts, DockWaitsForSomeone, Callers, dock
<1>. QED
  BY <1>5, <1>8, <1>9, <1>10, <1>12 DEF Inv

LEMMA StepInv == Inv /\ [Next]_vars => Inv'
<1>. SUFFICES ASSUME Inv, [Next]_vars PROVE Inv'
  OBVIOUS
<1>1. CASE UNCHANGED vars
  <2>1. Wires' /\ Asked' /\ Approvals' /\ Posts' /\ Waiting' = Waiting /\ OutcomePosted' = OutcomePosted
    BY <1>1, QuietInv DEF vars
  <2>. QED
    BY <1>1, <2>1 DEF Inv, TypeOK, TypeOKClient, ConfirmedOnSite, DockWaitsForSomeone, Callers, vars, dock
<1>. QED
  BY <1>1, UIInv, CancellingInv, ApplyInv, NotifyInv, WorkerInv, ServeInv, ClockInv DEF Next, Worker

LEMMA AlwaysInv == Spec => []Inv
  BY InitInv, StepInv, PTL DEF Spec

\* Nobody is signed in with a key the streamer did not confirm on the site, and what the
\* dock shows and is posted is of the latest sign-in.
THEOREM KeysAreConfirmed == Spec => []LinkInvariant
<1>1. Inv => LinkInvariant
  BY DEF Inv, LinkInvariant
<1>. QED
  BY <1>1, AlwaysInv, PTL

\* The dock that waits will be answered, and one that offers to sign in has no worker behind it.
THEOREM NobodyWaitsForNobody == Spec => []DockWaitsForSomeone
<1>1. Inv => DockWaitsForSomeone
  BY DEF Inv
<1>. QED
  BY <1>1, AlwaysInv, PTL
=============================================================================
