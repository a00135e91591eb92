----------------------------- MODULE ScanSession -----------------------------
(***************************************************************************)
(* One tool window: the React page (App.tsx), the query handler of the     *)
(* JCEF bridge, HostScanCoordinator with its scan threads, and the state   *)
(* that ChangesOrchestrator keeps for the window.                          *)
(*                                                                         *)
(* A graph, a changes payload and a snapshot list are represented by the   *)
(* server they belong to.  Requests of the page reach the handler in       *)
(* order.  Status events go through the EDT queue and replies through the  *)
(* query's callback: each kind stays in order, and the platform decides    *)
(* how the two kinds interleave.                                           *)
(***************************************************************************)
EXTENDS Naturals, Sequences, FiniteSets

CONSTANTS
  Servers,
  None,               \* no server: the built-in mock graph, no payload
  MaxScans,           \* bound on the scans a user asks for
  MaxCalls,           \* bound on the history requests a user makes
  OneBrowserThread    \* TRUE: queries and status scripts share one ordered thread

ASSUME ServersAssumption == None \notin Servers
ASSUME BoundsAssumption == MaxScans \in Nat /\ MaxCalls \in Nat
ASSUME ThreadAssumption == OneBrowserThread \in BOOLEAN

VARIABLES
  \* the page
  scanState, connected, shown, payload, changesError, changesLoading,
  asked,          \* scan requests made so far
  calls,          \* history requests made so far
  epoch,          \* number of Disconnects: a request is stamped with it
  \* the bridge
  requests,       \* queries on their way to the handler
  comparing,      \* the comparison that the handler is computing, as a set
  inbox,          \* status events and replies on their way to the page
  \* the plugin
  scans,          \* the accepted scans, the active one last
  graph,          \* HostScanCoordinator.graph
  activeServer,   \* ChangesOrchestrator.activeServerId
  latest,         \* ChangesOrchestrator.latest
  window

page == <<scanState, connected, shown, payload, changesError, changesLoading>>
bounds == <<asked, calls, epoch>>
plugin == <<graph, activeServer, latest>>
vars == <<page, bounds, requests, comparing, inbox, scans, plugin, window>>

Epochs == 0..MaxScans
ScanStates == {"IDLE", "CONNECTING", "SCANNING", "CONNECTED", "ERROR"}
Alive == {"submitted", "connecting", "scanning", "capturing", "comparing",
          "published", "unrecorded", "closing"}
Ended == {"done", "dead"}
Requests == [kind : {"SCAN_HOST", "GET_CHANGES", "COMPARE_SNAPSHOTS"},
             server : Servers \cup {None}, epoch : Epochs]
Messages == [kind : (ScanStates \ {"IDLE"}) \cup {"rejected", "changes"},
             server : Servers \cup {None}, ok : BOOLEAN, epoch : Epochs]
Scans == [pc : Alive \cup Ended, server : Servers, epoch : Epochs, cancelled : BOOLEAN]

Init ==
  /\ scanState = "IDLE" /\ connected = FALSE /\ shown = None
  /\ payload = None /\ changesError = FALSE /\ changesLoading = FALSE
  /\ asked = 0 /\ calls = 0 /\ epoch = 0
  /\ requests = <<>> /\ comparing = {} /\ inbox = <<>>
  /\ scans = <<>>
  /\ graph = None /\ activeServer = None /\ latest = None
  /\ window = "open"

(***************************************************************************)
(* The page.                                                               *)
(***************************************************************************)
Active == scanState \in {"CONNECTING", "SCANNING"}

\* The guard of disconnect, and one that only looks at the first phase.
CanDisconnectEarly == scanState # "CONNECTING"
CanDisconnect == ~Active

Send(kind, server) ==
  requests' = Append(requests, [kind |-> kind, server |-> server, epoch |-> epoch])

RequestScan(s) ==
  /\ window # "closed" /\ ~Active /\ asked < MaxScans
  /\ scanState' = "CONNECTING"
  /\ asked' = asked + 1
  /\ Send("SCAN_HOST", s)
  /\ UNCHANGED <<connected, shown, payload, changesError, changesLoading, calls, epoch,
                 comparing, inbox, scans, plugin, window>>

\* The form is incomplete: no request is made.
RejectForm ==
  /\ window # "closed" /\ ~Active
  /\ scanState' = "IDLE"
  /\ UNCHANGED <<connected, shown, payload, changesError, changesLoading, bounds,
                 requests, comparing, inbox, scans, plugin, window>>

OpenChanges ==
  /\ window # "closed" /\ connected /\ payload = None /\ calls < MaxCalls
  /\ changesLoading' = TRUE
  /\ calls' = calls + 1
  /\ Send("GET_CHANGES", None)
  /\ UNCHANGED <<scanState, connected, shown, payload, changesError, asked, epoch,
                 comparing, inbox, scans, plugin, window>>

\* Two entries of the history list in the payload that is shown.
CompareSnapshots ==
  /\ window # "closed" /\ connected /\ payload # None /\ ~changesLoading /\ calls < MaxCalls
  /\ changesLoading' = TRUE
  /\ changesError' = FALSE
  /\ calls' = calls + 1
  /\ Send("COMPARE_SNAPSHOTS", payload)
  /\ UNCHANGED <<scanState, connected, shown, payload, asked, epoch, comparing, inbox,
                 scans, plugin, window>>

Disconnect ==
  /\ window # "closed" /\ connected /\ CanDisconnect
  /\ scanState' = "IDLE" /\ connected' = FALSE
  /\ payload' = None /\ changesError' = FALSE
  /\ epoch' = epoch + 1
  /\ UNCHANGED <<shown, changesLoading, asked, calls, requests, comparing, inbox,
                 scans, plugin, window>>

\* A reply may overtake status events, and be overtaken, unless they share a
\* thread.  A bridge without any order would be DeliverableInAnyOrder.
IsStatus(m) == m.kind \in ScanStates
DeliverableInAnyOrder(i) == TRUE
Deliverable(i) ==
  \/ i = 1
  \/ ~OneBrowserThread /\ \A j \in 1..(i - 1) : IsStatus(inbox[j]) # IsStatus(inbox[i])

\* scanSessionState: a status event never takes the session back.
HasSuccessfulGraph(state) == connected \/ state = "CONNECTED"

ApplyChanges(m) ==
  /\ payload' = IF m.ok THEN m.server ELSE payload
  /\ changesError' = ~m.ok

ReceiveStatus(m) ==
  /\ IsStatus(m)
  /\ scanState' = m.kind
  /\ connected' = HasSuccessfulGraph(m.kind)
  /\ \/ /\ m.kind = "CONNECTED"
        /\ shown' = m.server
        /\ ApplyChanges(m)
     \/ m.kind # "CONNECTED" /\ UNCHANGED <<shown, payload, changesError>>
  /\ UNCHANGED changesLoading

ReceiveRejection(m) ==
  /\ m.kind = "rejected"
  /\ scanState' = "ERROR"
  /\ UNCHANGED <<connected, shown, payload, changesError, changesLoading>>

\* The spinner stopped on success only, and in "finally" as the code does.
LoadedOnSuccess(m) == changesLoading' = ~m.ok
Loaded(m) == changesLoading' = FALSE

ReceiveChanges(m) ==
  /\ m.kind = "changes"
  /\ ApplyChanges(m)
  /\ Loaded(m)
  /\ UNCHANGED <<scanState, connected, shown>>

Deliver(i) ==
  /\ window # "closed" /\ Deliverable(i)
  /\ ReceiveStatus(inbox[i]) \/ ReceiveRejection(inbox[i]) \/ ReceiveChanges(inbox[i])
  /\ inbox' = SubSeq(inbox, 1, i - 1) \o SubSeq(inbox, i + 1, Len(inbox))
  /\ UNCHANGED <<bounds, requests, comparing, scans, plugin, window>>

(***************************************************************************)
(* The query handler: one request at a time.                               *)
(***************************************************************************)
Post(kind, server, ok, e) ==
  inbox' = IF window = "closed" THEN inbox
           ELSE Append(inbox, [kind |-> kind, server |-> server, ok |-> ok, epoch |-> e])

\* Future.isDone: cancelled counts as done while the thread still runs.
IsDone(scan) == scan.pc \in Ended \/ scan.cancelled

\* start() without its test, and as it is.
AcceptAll == TRUE
Accepts == \A n \in 1..Len(scans) : n = Len(scans) => IsDone(scans[n])

Handle(kind) ==
  /\ window # "closed" /\ comparing = {} /\ requests # <<>>
  /\ Head(requests).kind = kind
  /\ requests' = Tail(requests)

\* The answer to an accepted request changes nothing on the page.  One is refused
\* while a scan is active, and also when SshTarget does not take its parameters;
\* a query that fails altogether is the same to the page.
HandleScan ==
  LET r == Head(requests)
  IN  /\ Handle("SCAN_HOST")
      /\ \/ /\ Accepts
            /\ scans' = Append(scans, [pc |-> "submitted", server |-> r.server,
                                       epoch |-> r.epoch, cancelled |-> FALSE])
            /\ UNCHANGED inbox
         \/ /\ Post("rejected", None, FALSE, r.epoch)
            /\ UNCHANGED scans
      /\ UNCHANGED <<page, bounds, comparing, plugin, window>>

HandleChanges ==
  /\ Handle("GET_CHANGES")
  /\ Post("changes", latest, latest # None, Head(requests).epoch)
  /\ UNCHANGED <<page, bounds, comparing, scans, plugin, window>>

\* compare() reads activeServerId first.  Its snapshots are found only in the
\* history of that server, where reading them may still fail.
Compared(r, active) ==
  \E ok \in {r.server = active, FALSE} : Post("changes", r.server, ok, epoch)

HandleCompare ==
  /\ Handle("COMPARE_SNAPSHOTS")
  /\ \/ /\ OneBrowserThread
        /\ Compared(Head(requests), activeServer)
        /\ UNCHANGED comparing
     \/ /\ ~OneBrowserThread
        /\ comparing' = {[request |-> Head(requests), active |-> activeServer]}
        /\ UNCHANGED inbox
  /\ UNCHANGED <<page, bounds, scans, plugin, window>>

ReplyCompare ==
  /\ \E c \in comparing : Compared(c.request, c.active)
  /\ comparing' = {}
  /\ UNCHANGED <<page, bounds, requests, scans, plugin, window>>

(***************************************************************************)
(* A scan thread.                                                          *)
(***************************************************************************)
Goto(n, label) == scans' = [scans EXCEPT ![n].pc = label]

Emit(n, state, ok) == Post(state, scans[n].server, ok, scans[n].epoch)

Begin(n) ==
  /\ scans[n].pc = "submitted"
  /\ \/ scans[n].cancelled /\ Goto(n, "done") /\ UNCHANGED inbox
     \/ ~scans[n].cancelled /\ Goto(n, "connecting") /\ Emit(n, "CONNECTING", TRUE)
  /\ UNCHANGED <<page, bounds, requests, comparing, plugin, window>>

\* A graph published before the scan succeeded, and the step of the code.
AuthenticatedPublishing(n) ==
  /\ scans[n].pc = "connecting"
  /\ Goto(n, "scanning")
  /\ Emit(n, "SCANNING", TRUE)
  /\ graph' = scans[n].server
  /\ UNCHANGED <<page, bounds, requests, comparing, activeServer, latest, window>>

Authenticated(n) ==
  /\ scans[n].pc = "connecting"
  /\ Goto(n, "scanning")
  /\ Emit(n, "SCANNING", TRUE)
  /\ UNCHANGED <<page, bounds, requests, comparing, plugin, window>>

\* The scan succeeded: the graph is published before anything is recorded.
Publish(n) ==
  /\ scans[n].pc = "scanning"
  /\ graph' = scans[n].server
  /\ Goto(n, "capturing")
  /\ UNCHANGED <<page, bounds, requests, comparing, inbox, activeServer, latest, window>>

\* ChangesOrchestrator.capture: activeServerId, then the payload, then latest.
Capture(n) ==
  /\ \/ /\ scans[n].pc = "capturing"
        /\ Goto(n, "comparing")
        /\ activeServer' = scans[n].server
        /\ UNCHANGED latest
     \/ /\ scans[n].pc = "comparing"
        /\ Goto(n, "published")
        /\ latest' = scans[n].server
        /\ UNCHANGED activeServer
  /\ UNCHANGED <<page, bounds, requests, comparing, inbox, graph, window>>

CaptureFails(n) ==
  /\ scans[n].pc \in {"capturing", "comparing"}
  /\ Goto(n, "unrecorded")
  /\ UNCHANGED <<page, bounds, requests, comparing, inbox, plugin, window>>

EmitConnected(n) ==
  /\ scans[n].pc \in {"published", "unrecorded"}
  /\ Goto(n, "closing")
  /\ Emit(n, "CONNECTED", scans[n].pc = "published")
  /\ UNCHANGED <<page, bounds, requests, comparing, plugin, window>>

\* A failure that is only logged, and the event that the code sends.
LogFailure(n) == UNCHANGED inbox
EmitFailure(n) == Emit(n, "ERROR", FALSE)

\* A failed scan, or an Exception.
EmitError(n) ==
  /\ scans[n].pc \in {"connecting", "scanning"}
  /\ Goto(n, "closing")
  /\ EmitFailure(n)
  /\ UNCHANGED <<page, bounds, requests, comparing, plugin, window>>

\* After the last event the executor is closed, and only then is the Future done.
Finish(n) ==
  /\ scans[n].pc = "closing"
  /\ Goto(n, "done")
  /\ UNCHANGED <<page, bounds, requests, comparing, inbox, plugin, window>>

\* An Error (not an Exception) passes the catch clause: no event is sent.
Die(n) ==
  /\ scans[n].pc \in {"connecting", "scanning"}
  /\ Goto(n, "dead")
  /\ UNCHANGED <<page, bounds, requests, comparing, inbox, plugin, window>>

(***************************************************************************)
(* Disposal: first the coordinator, then the query and the browser.        *)
(***************************************************************************)
DisposeCoordinator ==
  /\ window = "open"
  /\ window' = "disposing"
  /\ scans' = [n \in DOMAIN scans |->
                 IF n = Len(scans) /\ scans[n].pc \notin Ended
                 THEN [scans[n] EXCEPT !.cancelled = TRUE] ELSE scans[n]]
  /\ UNCHANGED <<page, bounds, requests, comparing, inbox, plugin>>

\* The page and everything on its way to or from it are gone.
DisposeBrowser ==
  /\ window = "disposing"
  /\ window' = "closed"
  /\ scanState' = "IDLE" /\ connected' = FALSE /\ shown' = None
  /\ payload' = None /\ changesError' = FALSE /\ changesLoading' = FALSE
  /\ requests' = <<>> /\ comparing' = {} /\ inbox' = <<>>
  /\ UNCHANGED <<bounds, scans, plugin>>

User ==
  \/ \E s \in Servers : RequestScan(s)
  \/ RejectForm \/ OpenChanges \/ CompareSnapshots \/ Disconnect
  \/ DisposeCoordinator \/ DisposeBrowser

Handler == HandleScan \/ HandleChanges \/ HandleCompare \/ ReplyCompare

Scanner(n) ==
  \/ Begin(n) \/ Authenticated(n) \/ Publish(n) \/ Capture(n) \/ CaptureFails(n)
  \/ EmitConnected(n) \/ EmitError(n) \/ Finish(n) \/ Die(n)

Next ==
  \/ User
  \/ Handler
  \/ \E i \in 1..Len(inbox) : Deliver(i)
  \/ \E n \in 1..Len(scans) : Scanner(n)

\* Timeouts end every remote step, and the queues are served in order.
Fairness ==
  /\ WF_vars(Handler)
  /\ WF_vars(\E i \in 1..Len(inbox) : Deliver(i))
  /\ \A k \in 1..MaxScans : WF_vars(k <= Len(scans) /\ Scanner(k))

Spec == Init /\ [][Next]_vars
FairSpec == Spec /\ Fairness
-----------------------------------------------------------------------------
(***************************************************************************)
(* Invariants.                                                             *)
(***************************************************************************)
TypeOK ==
  /\ scanState \in ScanStates /\ connected \in BOOLEAN
  /\ shown \in Servers \cup {None} /\ payload \in Servers \cup {None}
  /\ changesError \in BOOLEAN /\ changesLoading \in BOOLEAN
  /\ asked \in 0..MaxScans /\ calls \in 0..MaxCalls /\ epoch \in Epochs
  /\ requests \in Seq(Requests)
  /\ comparing \in {{}} \cup {{c} : c \in [request : Requests, active : Servers \cup {None}]}
  /\ inbox \in Seq(Messages)
  /\ scans \in Seq(Scans)
  /\ graph \in Servers \cup {None}
  /\ activeServer \in Servers \cup {None} /\ latest \in Servers \cup {None}
  /\ window \in {"open", "disposing", "closed"}

\* What tells that an asked scan has not ended for the page yet: its request, a
\* thread that has not emitted its last event, and that event or a rejection.
Ends(m) == m.kind \in {"CONNECTED", "ERROR", "rejected"}
Owed ==
  \/ \E i \in 1..Len(requests) : requests[i].kind = "SCAN_HOST"
  \/ \E n \in 1..Len(scans) : scans[n].pc \in Alive \ {"closing"}
  \/ \E i \in 1..Len(inbox) : IsStatus(inbox[i]) \/ Ends(inbox[i])

\* The coordinator accepts one active scan at a time.
OneScanAtATime ==
  window = "open" => \A n \in 1..Len(scans) : scans[n].pc \in Alive => n = Len(scans)

SessionInv == TypeOK /\ OneScanAtATime

\* Disconnect is disabled during a scan: as long as anything of a scan can still
\* reach the page, the page is in an active state, whose guard holds Disconnect
\* and the next scan back.
ActiveWhileOwed == window = "open" /\ Owed => Active

\* When nothing is under way, the page and the plugin hold the same graph.
GraphAgreement == window = "open" /\ connected /\ ~Owed => shown = graph

(***************************************************************************)
(* Properties.                                                             *)
(***************************************************************************)

\* A disconnected page is connected again only by a scan that was asked for
\* after the Disconnect.
NoRepopulation ==
  [][window = "open" /\ ~connected /\ connected' =>
       \E i \in 1..Len(inbox) : inbox[i].kind = "CONNECTED" /\ inbox[i].epoch = epoch]_vars

\* Unless the scan dies, the page does not stay in an active state.
ScanEnds ==
  Active ~> (~Active \/ window # "open" \/ \E n \in 1..Len(scans) : scans[n].pc = "dead")

\* Every history request is answered: the Changes page does not load forever.
LoadingEnds == changesLoading ~> (~changesLoading \/ window # "open")

\* The plugin compares only snapshots of the active server: changes that the
\* page shows without an error, when no scan is under way, belong to the server
\* whose graph it shows.
ChangesOfShownServer ==
  window = "open" /\ ~Owed /\ connected /\ payload # None /\ ~changesLoading /\ ~changesError
    => payload = shown
=============================================================================
