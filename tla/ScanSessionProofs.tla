-------------------------- MODULE ScanSessionProofs --------------------------
(***************************************************************************)
(* ScanSession for any number of servers, scans and calls, on either       *)
(* thread model of the browser and with scans that die: the token of a     *)
(* scan is in one place at a time, and as long as it is anywhere the page  *)
(* is in an active state.                                                  *)
(***************************************************************************)
EXTENDS ScanSession, SequenceTheorems, TLAPS

(***************************************************************************)
(* Queues: what appending, taking the head and taking out do to a          *)
(* sequence.                                                               *)
(***************************************************************************)
Without(q, i) == SubSeq(q, 1, i - 1) \o SubSeq(q, i + 1, Len(q))

LEMMA Appended ==
  ASSUME NEW T, NEW q \in Seq(T), NEW m \in T
  PROVE  /\ Append(q, m) \in Seq(T)
         /\ Len(q) \in Nat /\ Len(Append(q, m)) = Len(q) + 1
         /\ \A i \in 1..Len(q) : Append(q, m)[i] = q[i] /\ q[i] \in T
         /\ Append(q, m)[Len(q) + 1] = m
OBVIOUS

LEMMA HeadTaken ==
  ASSUME NEW T, NEW q \in Seq(T), q # <<>>
  PROVE  /\ Tail(q) \in Seq(T) /\ Head(q) \in T /\ Head(q) = q[1]
         /\ Len(q) \in Nat \ {0} /\ Len(Tail(q)) = Len(q) - 1
         /\ \A i \in 1..(Len(q) - 1) : Tail(q)[i] = q[i + 1]
OBVIOUS

LEMMA TakenOut ==
  ASSUME NEW T, NEW q \in Seq(T), NEW i \in 1..Len(q)
  PROVE  /\ Without(q, i) \in Seq(T) /\ q[i] \in T
         /\ Len(q) \in Nat \ {0} /\ Len(Without(q, i)) = Len(q) - 1
         /\ \A j \in 1..(Len(q) - 1) : Without(q, i)[j] = IF j < i THEN q[j] ELSE q[j + 1]
<1>1. Len(q) \in Nat \ {0} /\ q[i] \in T
  OBVIOUS
<1>2. PICK a \in Seq(T) : /\ a = SubSeq(q, 1, i - 1) /\ Len(a) = i - 1
                           /\ \A j \in 1..(i - 1) : a[j] = q[j]
  <2>1. /\ SubSeq(q, 1, i - 1) \in Seq(T) /\ Len(SubSeq(q, 1, i - 1)) = i - 1
        /\ \A j \in 1..(i - 1) : SubSeq(q, 1, i - 1)[j] = q[j]
    OBVIOUS
  <2> QED
    BY <2>1, Zenon
<1>3. PICK b \in Seq(T) : /\ b = SubSeq(q, i + 1, Len(q)) /\ Len(b) = Len(q) - i
                           /\ \A j \in 1..(Len(q) - i) : b[j] = q[i + j]
  <2>1. /\ SubSeq(q, i + 1, Len(q)) \in Seq(T) /\ Len(SubSeq(q, i + 1, Len(q))) = Len(q) - i
        /\ \A j \in 1..(Len(q) - i) : SubSeq(q, i + 1, Len(q))[j] = q[i + j]
    OBVIOUS
  <2> QED
    BY <2>1, Zenon
<1>4. PICK c \in Seq(T) :
         /\ c = a \o b /\ Len(c) = Len(a) + Len(b)
         /\ \A j \in 1..(Len(a) + Len(b)) : c[j] = IF j <= Len(a) THEN a[j] ELSE b[j - Len(a)]
  <2>1. /\ a \o b \in Seq(T) /\ Len(a \o b) = Len(a) + Len(b)
        /\ \A j \in 1..(Len(a) + Len(b)) :
             (a \o b)[j] = IF j <= Len(a) THEN a[j] ELSE b[j - Len(a)]
    BY ConcatProperties
  <2> QED
    BY <2>1, Zenon
<1>5. /\ Len(a) = i - 1 /\ \A j \in 1..(i - 1) : a[j] = q[j]
      /\ Len(b) = Len(q) - i /\ \A j \in 1..(Len(q) - i) : b[j] = q[i + j]
      /\ Len(c) = Len(a) + Len(b)
      /\ \A j \in 1..(Len(a) + Len(b)) : c[j] = IF j <= Len(a) THEN a[j] ELSE b[j - Len(a)]
  <2>1. Len(a) = i - 1 /\ \A j \in 1..(i - 1) : a[j] = q[j]
    BY <1>2, Zenon
  <2>2. Len(b) = Len(q) - i /\ \A j \in 1..(Len(q) - i) : b[j] = q[i + j]
    BY <1>3, Zenon
  <2>3. /\ Len(c) = Len(a) + Len(b)
        /\ \A j \in 1..(Len(a) + Len(b)) : c[j] = IF j <= Len(a) THEN a[j] ELSE b[j - Len(a)]
    BY <1>4, Zenon
  <2> QED
    BY <2>1, <2>2, <2>3, Zenon
<1>6. Len(c) = Len(q) - 1
  BY <1>1, <1>5
<1>7. ASSUME NEW j \in 1..(Len(q) - 1) PROVE c[j] = IF j < i THEN q[j] ELSE q[j + 1]
  <2>1. c[j] = IF j <= i - 1 THEN a[j] ELSE b[j - (i - 1)]
    BY <1>1, <1>5
  <2>2. CASE j < i
    BY <1>1, <1>5, <2>1, <2>2
  <2>3. CASE ~(j < i)
    <3>1. j - (i - 1) \in 1..(Len(q) - i) /\ i + (j - (i - 1)) = j + 1
      BY <1>1, <2>3
    <3> QED
      BY <1>1, <1>5, <2>1, <2>3, <3>1
  <2> QED
    BY <2>2, <2>3
<1>8. c = Without(q, i)
  BY <1>2, <1>3, <1>4 DEF Without
<1> QED
  BY <1>1, <1>6, <1>7, <1>8

(***************************************************************************)
(* The inductive invariant.                                                *)
(***************************************************************************)

\* A thread that still owes its last event, and one that has published its
\* graph and not said so yet.
Running(n) == scans[n].pc \in Alive \ {"closing"}
Published(n) == scans[n].pc \in {"capturing", "comparing", "published", "unrecorded"}

\* The messages of a scan: its events, and the rejection of its request.
Marks(m) == IsStatus(m) \/ Ends(m)

Asking(i) == requests[i].kind = "SCAN_HOST"

\* While the page lives, a scan is in one place at a time: one request at most,
\* threads that are over but for the last one, nothing of a scan on the way while
\* one is asked for, no ending while one runs, and endings behind all the rest.
OneRequest ==
  window # "closed" =>
    \A i, j \in 1..Len(requests) : Asking(i) /\ Asking(j) => i = j
OthersEnding ==
  window # "closed" =>
    \A n \in 1..Len(scans) : n # Len(scans) => ~Running(n)
AskedAlone ==
  window # "closed" =>
    \A i \in 1..Len(requests) : Asking(i) =>
      /\ \A n \in 1..Len(scans) : ~Running(n)
      /\ \A j \in 1..Len(inbox) : ~Marks(inbox[j])
RunsUnended ==
  window # "closed" =>
    \A n \in 1..Len(scans) : Running(n) => \A j \in 1..Len(inbox) : ~Ends(inbox[j])
EndsLast ==
  window # "closed" =>
    \A i, j \in 1..Len(inbox) :
      Ends(inbox[i]) /\ Marks(inbox[j]) => j <= i /\ (inbox[i].kind = "rejected" => i = j)

OneToken == OneRequest /\ OthersEnding /\ AskedAlone /\ RunsUnended /\ EndsLast

\* In an open window no scan is cancelled, and all but the last one are over.
OthersDone ==
  window = "open" =>
    \A n \in 1..Len(scans) :
      ~scans[n].cancelled /\ (n # Len(scans) => scans[n].pc \in Ended)

WhileOwed == window # "closed" /\ Owed => Active

\* What is owed was asked for since the last Disconnect, and every Disconnect
\* followed a scan of its own.
OwnEpoch ==
  /\ epoch <= asked
  /\ window # "closed" =>
       /\ \A i \in 1..Len(requests) :
            Asking(i) => requests[i].epoch = epoch /\ requests[i].server \in Servers
       /\ \A n \in 1..Len(scans) : Running(n) => scans[n].epoch = epoch
       /\ \A i \in 1..Len(inbox) : IsStatus(inbox[i]) => inbox[i].epoch = epoch
       /\ connected \/ Owed => epoch < asked

\* A published graph is on its way to the page until the page shows it.
GraphOnItsWay ==
  window # "closed" =>
    /\ \A n \in 1..Len(scans) : Published(n) => scans[n].server = graph
    /\ \A i \in 1..Len(inbox) : inbox[i].kind = "CONNECTED" => inbox[i].server = graph
    /\ \/ ~connected \/ shown = graph
       \/ \E n \in 1..Len(scans) : Published(n)
       \/ \E i \in 1..Len(inbox) : inbox[i].kind = "CONNECTED"

SessionIInv == TypeOK /\ OneToken /\ OthersDone /\ WhileOwed /\ OwnEpoch /\ GraphOnItsWay

(***************************************************************************)
(* Types.                                                                  *)
(***************************************************************************)

\* A request that is sent, and a message that is posted.
LEMMA SendTyped ==
  ASSUME TypeOK, NEW kind \in {"SCAN_HOST", "GET_CHANGES", "COMPARE_SNAPSHOTS"},
         NEW server \in Servers \cup {None}, Send(kind, server)
  PROVE  /\ requests' \in Seq(Requests)
         /\ requests' = Append(requests, [kind |-> kind, server |-> server, epoch |-> epoch])
         /\ [kind |-> kind, server |-> server, epoch |-> epoch] \in Requests
<1>1. [kind |-> kind, server |-> server, epoch |-> epoch] \in Requests
  BY DEF TypeOK, Requests
<1> QED
  BY <1>1, Appended DEF TypeOK, Send

LEMMA PostTyped ==
  ASSUME TypeOK, NEW kind \in (ScanStates \ {"IDLE"}) \cup {"rejected", "changes"},
         NEW server \in Servers \cup {None}, NEW ok \in BOOLEAN, NEW e \in Epochs,
         Post(kind, server, ok, e)
  PROVE  inbox' \in Seq(Messages)
<1>1. [kind |-> kind, server |-> server, ok |-> ok, epoch |-> e] \in Messages
  BY DEF Messages
<1> QED
  BY <1>1, Appended DEF TypeOK, Post

LEMMA TypeStep ==
  ASSUME TypeOK, OwnEpoch, [Next]_vars
  PROVE  TypeOK'
<1> USE DEF TypeOK, page, bounds, plugin
<1>a. /\ ScanStates = {"IDLE", "CONNECTING", "SCANNING", "CONNECTED", "ERROR"}
      /\ Epochs = 0..MaxScans /\ MaxScans \in Nat /\ MaxCalls \in Nat
  BY BoundsAssumption DEF ScanStates, Epochs
<1>b. \A n \in 1..Len(scans) : scans[n] \in Scans
  OBVIOUS
<1>c. ASSUME NEW n \in 1..Len(scans), NEW label \in Alive \cup Ended, Goto(n, label)
      PROVE  scans' \in Seq(Scans)
  <2>1. [scans[n] EXCEPT !.pc = label] \in Scans
    BY <1>b DEF Scans
  <2> QED
    BY <1>c, <2>1 DEF Goto
<1>d. ASSUME NEW n \in 1..Len(scans), NEW state \in ScanStates \ {"IDLE"}, NEW ok \in BOOLEAN,
             Emit(n, state, ok)
      PROVE  inbox' \in Seq(Messages)
  BY <1>b, <1>d, PostTyped DEF Emit, Scans
<1>1. ASSUME NEW s \in Servers, RequestScan(s) PROVE TypeOK'
  <2>1. requests' \in Seq(Requests)
    BY <1>1, SendTyped DEF RequestScan
  <2>2. asked' \in 0..MaxScans
    BY <1>1, <1>a DEF RequestScan
  <2> QED
    BY <1>1, <1>a, <2>1, <2>2 DEF RequestScan
<1>2. CASE RejectForm
  BY <1>2, <1>a DEF RejectForm
<1>3. CASE OpenChanges
  <2>1. requests' \in Seq(Requests)
    BY <1>3, SendTyped DEF OpenChanges
  <2>2. calls' \in 0..MaxCalls
    BY <1>3, <1>a DEF OpenChanges
  <2> QED
    BY <1>3, <1>a, <2>1, <2>2 DEF OpenChanges
<1>4. CASE CompareSnapshots
  <2>1. requests' \in Seq(Requests)
    BY <1>4, SendTyped DEF CompareSnapshots
  <2>2. calls' \in 0..MaxCalls
    BY <1>4, <1>a DEF CompareSnapshots
  <2> QED
    BY <1>4, <1>a, <2>1, <2>2 DEF CompareSnapshots
<1>5. CASE Disconnect
  <2>1. epoch' \in Epochs
    <3>1. epoch < asked /\ epoch' = epoch + 1
      BY <1>5 DEF Disconnect, OwnEpoch
    <3> QED
      BY <1>a, <3>1
  <2> QED
    BY <1>5, <1>a, <2>1 DEF Disconnect
<1>6. ASSUME NEW i \in 1..Len(inbox), Deliver(i) PROVE TypeOK'
  <2>1. inbox[i] \in Messages /\ inbox' \in Seq(Messages)
    BY <1>6, TakenOut DEF Deliver, Without
  <2>2. /\ inbox[i].kind \in ScanStates \cup {"rejected", "changes"}
        /\ inbox[i].server \in Servers \cup {None} /\ inbox[i].ok \in BOOLEAN
    BY <2>1 DEF Messages
  <2>3. CASE ReceiveStatus(inbox[i])
    BY <1>6, <1>a, <2>1, <2>2, <2>3
       DEF Deliver, ReceiveStatus, ApplyChanges, IsStatus, HasSuccessfulGraph
  <2>4. CASE ReceiveRejection(inbox[i])
    BY <1>6, <1>a, <2>1, <2>4 DEF Deliver, ReceiveRejection
  <2>5. CASE ReceiveChanges(inbox[i])
    BY <1>6, <1>a, <2>1, <2>2, <2>5 DEF Deliver, ReceiveChanges, ApplyChanges, Loaded
  <2> QED
    BY <1>6, <2>3, <2>4, <2>5 DEF Deliver
<1>7. CASE HandleScan
  <2> DEFINE r == Head(requests)
  <2>1. requests' \in Seq(Requests) /\ r \in Requests /\ r.epoch \in Epochs
    <3>1. requests # <<>> /\ requests' = Tail(requests)
      BY <1>7 DEF HandleScan, Handle
    <3>2. requests' \in Seq(Requests) /\ r \in Requests
      BY <3>1, HeadTaken
    <3> QED
      BY <3>2 DEF Requests
  <2>2. inbox' \in Seq(Messages)
    BY <1>7, <2>1, PostTyped DEF HandleScan
  <2>3. scans' \in Seq(Scans)
    <3>1. r.server \in Servers
      <4>1. window # "closed" /\ requests # <<>> /\ r.kind = "SCAN_HOST"
        BY <1>7 DEF HandleScan, Handle
      <4>2. r = requests[1] /\ 1 \in 1..Len(requests)
        BY <4>1, HeadTaken
      <4> QED
        BY <4>1, <4>2 DEF OwnEpoch, Asking
    <3>2. [pc |-> "submitted", server |-> r.server, epoch |-> r.epoch, cancelled |-> FALSE] \in Scans
      BY <2>1, <3>1 DEF Scans, Alive
    <3>3. Append(scans, [pc |-> "submitted", server |-> r.server, epoch |-> r.epoch,
                         cancelled |-> FALSE]) \in Seq(Scans)
      BY <3>2, Appended
    <3> QED
      BY <1>7, <3>3 DEF HandleScan
  <2> QED
    BY <1>7, <2>1, <2>2, <2>3 DEF HandleScan
<1>8. CASE HandleChanges
  <2>1. requests' \in Seq(Requests) /\ Head(requests).epoch \in Epochs
    <3>1. requests # <<>> /\ requests' = Tail(requests)
      BY <1>8 DEF HandleChanges, Handle
    <3>2. requests' \in Seq(Requests) /\ Head(requests) \in Requests
      BY <3>1, HeadTaken
    <3> QED
      BY <3>2 DEF Requests
  <2>2. inbox' \in Seq(Messages)
    <3>1. (latest # None) \in BOOLEAN
      OBVIOUS
    <3>2. Post("changes", latest, latest # None, Head(requests).epoch)
      BY <1>8 DEF HandleChanges
    <3> QED
      BY <2>1, <3>1, <3>2, PostTyped
  <2> QED
    BY <1>8, <2>1, <2>2 DEF HandleChanges
<1>9. ASSUME NEW r \in Requests, NEW x, Compared(r, x) PROVE inbox' \in Seq(Messages)
  <2>1. r.server \in Servers \cup {None}
    BY DEF Requests
  <2>2. PICK ok \in {r.server = x, FALSE} : Post("changes", r.server, ok, epoch)
    BY <1>9 DEF Compared
  <2>3. ok \in BOOLEAN
    OBVIOUS
  <2> QED
    BY <2>1, <2>2, <2>3, PostTyped
<1>10. CASE HandleCompare
  <2>1. requests' \in Seq(Requests) /\ Head(requests) \in Requests
    BY <1>10, HeadTaken DEF HandleCompare, Handle
  <2> QED
    BY <1>10, <1>9, <2>1, SMTT(20) DEF HandleCompare
<1>11. CASE ReplyCompare
  <2>1. \A c \in comparing : c.request \in Requests
    OBVIOUS
  <2> QED
    BY <1>11, <1>9, <2>1 DEF ReplyCompare
<1>12. ASSUME NEW n \in 1..Len(scans), Scanner(n) PROVE TypeOK'
  <2>1. scans' \in Seq(Scans)
    <3>1. \E label \in Alive \cup Ended : Goto(n, label)
      BY <1>12 DEF Scanner, Begin, Authenticated, Publish, Capture, CaptureFails, EmitConnected,
         EmitError, Finish, Die, Alive, Ended
    <3> QED
      BY <3>1, <1>c
  <2>2. inbox' \in Seq(Messages)
    <3>1. CASE inbox' = inbox
      BY <3>1
    <3>2. CASE \E state \in ScanStates \ {"IDLE"}, ok \in BOOLEAN : Emit(n, state, ok)
      BY <3>2, <1>d
    <3> QED
      BY <1>12, <1>a, <3>1, <3>2 DEF Scanner, Begin, Authenticated, Publish, Capture, CaptureFails,
         EmitConnected, EmitError, EmitFailure, Finish, Die
  <2>3. /\ graph' \in {graph, scans[n].server}
        /\ activeServer' \in {activeServer, scans[n].server}
        /\ latest' \in {latest, scans[n].server}
        /\ UNCHANGED <<page, bounds, requests, comparing, window>>
    BY <1>12 DEF Scanner, Begin, Authenticated, Publish, Capture, CaptureFails, EmitConnected,
       EmitError, Finish, Die
  <2>4. scans[n].server \in Servers
    BY <1>b DEF Scans
  <2> QED
    BY <2>1, <2>2, <2>3, <2>4
<1>13. CASE DisposeCoordinator
  <2>1. scans' \in Seq(Scans)
    <3>1. \A n \in 1..Len(scans) : [scans[n] EXCEPT !.cancelled = TRUE] \in Scans
      BY <1>b DEF Scans
    <3>2. DOMAIN scans = 1..Len(scans) /\ Len(scans) \in Nat
      OBVIOUS
    <3> QED
      BY <1>13, <1>b, <3>1, <3>2, IsASeq DEF DisposeCoordinator
  <2> QED
    BY <1>13, <2>1 DEF DisposeCoordinator
<1>14. CASE DisposeBrowser
  <2>1. requests' \in Seq(Requests) /\ inbox' \in Seq(Messages)
    BY <1>14, EmptySeq DEF DisposeBrowser
  <2> QED
    BY <1>14, <1>a, <2>1 DEF DisposeBrowser
<1>15. CASE UNCHANGED vars
  BY <1>15 DEF vars
<1> QED
  BY <1>1, <1>2, <1>3, <1>4, <1>5, <1>6, <1>7, <1>8, <1>10, <1>11, <1>12, <1>13, <1>14, <1>15
     DEF Next, User, Handler

(***************************************************************************)
(* What the steps do to the queues and the threads, as far as the          *)
(* invariants below see it.                                                *)
(***************************************************************************)
Grew(q, longer, m) ==
  /\ Len(longer) = Len(q) + 1 /\ longer[Len(q) + 1] = m
  /\ \A i \in 1..Len(q) : longer[i] = q[i]
Shrank(q, shorter, i) ==
  /\ Len(shorter) = Len(q) - 1
  /\ \A j \in 1..Len(shorter) : shorter[j] = IF j < i THEN q[j] ELSE q[j + 1]

LEMMA Lengths ==
  ASSUME TypeOK
  PROVE  /\ Len(requests) \in Nat /\ Len(inbox) \in Nat /\ Len(scans) \in Nat
         /\ \A i \in 1..Len(requests) : requests[i] \in Requests
         /\ \A i \in 1..Len(inbox) : inbox[i] \in Messages
         /\ \A n \in 1..Len(scans) : scans[n] \in Scans
BY DEF TypeOK

\* A thread that is not running is closing or over.
LEMMA NotRunning ==
  ASSUME TypeOK
  PROVE  \A n \in 1..Len(scans) :
           /\ ~Running(n) <=> scans[n].pc \in {"closing"} \cup Ended
           /\ Published(n) => Running(n)
BY Lengths DEF Running, Published, Scans, Alive, Ended

\* The kinds of the messages: what ends a scan, and what only accompanies it.
LEMMA Kinds ==
  \A m : /\ IsStatus(m) <=> m.kind \in {"IDLE", "CONNECTING", "SCANNING", "CONNECTED", "ERROR"}
         /\ Ends(m) <=> m.kind \in {"CONNECTED", "ERROR", "rejected"}
         /\ Marks(m) <=> IsStatus(m) \/ Ends(m)
BY DEF IsStatus, ScanStates, Ends, Marks

LEMMA PostEffect ==
  ASSUME TypeOK, window # "closed", NEW kind \in (ScanStates \ {"IDLE"}) \cup {"rejected", "changes"},
         NEW server \in Servers \cup {None}, NEW ok \in BOOLEAN, NEW e \in Epochs,
         Post(kind, server, ok, e)
  PROVE  Grew(inbox, inbox', [kind |-> kind, server |-> server, ok |-> ok, epoch |-> e])
<1>1. [kind |-> kind, server |-> server, ok |-> ok, epoch |-> e] \in Messages
  BY DEF Messages
<1> QED
  BY <1>1, Appended DEF TypeOK, Post, Grew

LEMMA SendEffect ==
  ASSUME TypeOK, NEW kind \in {"SCAN_HOST", "GET_CHANGES", "COMPARE_SNAPSHOTS"},
         NEW server \in Servers \cup {None}, Send(kind, server)
  PROVE  Grew(requests, requests', [kind |-> kind, server |-> server, epoch |-> epoch])
<1>1. /\ requests' = Append(requests, [kind |-> kind, server |-> server, epoch |-> epoch])
      /\ [kind |-> kind, server |-> server, epoch |-> epoch] \in Requests
  BY SendTyped
<1> QED
  BY <1>1, Appended DEF TypeOK, Grew

LEMMA GotoEffect ==
  ASSUME TypeOK, NEW n \in 1..Len(scans), NEW label, Goto(n, label)
  PROVE  /\ Len(scans') = Len(scans) /\ scans'[n].pc = label
         /\ \A k \in 1..Len(scans) :
              /\ k # n => scans'[k] = scans[k]
              /\ scans'[k].server = scans[k].server /\ scans'[k].epoch = scans[k].epoch
              /\ scans'[k].cancelled = scans[k].cancelled
<1>1. scans[n] \in Scans
  BY DEF TypeOK
<1>2. scans' = [scans EXCEPT ![n] = [scans[n] EXCEPT !.pc = label]]
  BY DEF Goto
<1> QED
  BY <1>1, <1>2 DEF TypeOK, Scans

\* A scan thread says nothing, publishes its graph, or says something.
Says(n, kinds) ==
  \E kind \in kinds, ok \in BOOLEAN :
    Grew(inbox, inbox', [kind |-> kind, server |-> scans[n].server, ok |-> ok,
                         epoch |-> scans[n].epoch])

LEMMA SaidOne ==
  ASSUME NEW n, NEW kinds, Says(n, kinds)
  PROVE  \E m : /\ m.kind \in kinds /\ m.server = scans[n].server /\ m.epoch = scans[n].epoch
                /\ Grew(inbox, inbox', m)
<1>1. PICK kind \in kinds, ok \in BOOLEAN :
         Grew(inbox, inbox', [kind |-> kind, server |-> scans[n].server, ok |-> ok,
                              epoch |-> scans[n].epoch])
  BY DEF Says
<1> DEFINE m == [kind |-> kind, server |-> scans[n].server, ok |-> ok, epoch |-> scans[n].epoch]
<1>2. /\ m.kind \in kinds /\ m.server = scans[n].server /\ m.epoch = scans[n].epoch
      /\ Grew(inbox, inbox', m)
  BY <1>1
<1> HIDE DEF m
<1> QED
  BY <1>2

LEMMA ScannerEffect ==
  ASSUME TypeOK, window # "closed", NEW n \in 1..Len(scans), Scanner(n)
  PROVE  /\ UNCHANGED <<page, bounds, requests, window>>
         /\ Len(scans') = Len(scans) /\ scans[n].pc \notin Ended
         /\ \A k \in 1..Len(scans) :
              /\ k # n => scans'[k] = scans[k]
              /\ scans'[k].server = scans[k].server /\ scans'[k].epoch = scans[k].epoch
              /\ scans'[k].cancelled = scans[k].cancelled
         /\ \/ /\ inbox' = inbox /\ graph' = graph
               /\ Running(n)' => Running(n)
               /\ Published(n)' <=> Published(n)
            \/ /\ inbox' = inbox /\ graph' = scans[n].server
               /\ Running(n) /\ Running(n)' /\ ~Published(n) /\ Published(n)'
            \/ /\ Says(n, {"CONNECTING", "SCANNING"}) /\ graph' = graph
               /\ Running(n) /\ Running(n)' /\ ~Published(n) /\ ~Published(n)'
            \/ /\ Says(n, {"ERROR"}) /\ graph' = graph
               /\ Running(n) /\ ~Running(n)' /\ ~Published(n) /\ ~Published(n)'
            \/ /\ Says(n, {"CONNECTED"}) /\ graph' = graph
               /\ Running(n) /\ ~Running(n)' /\ Published(n) /\ ~Published(n)'
<1>1. \E label \in Alive \cup Ended : Goto(n, label) /\ scans[n].pc \notin Ended
  BY DEF Scanner, Begin, Authenticated, Publish, Capture, CaptureFails, EmitConnected,
     EmitError, Finish, Die, Alive, Ended
<1>2. /\ Len(scans') = Len(scans) /\ scans[n].pc \notin Ended
      /\ \A k \in 1..Len(scans) :
           /\ k # n => scans'[k] = scans[k]
           /\ scans'[k].server = scans[k].server /\ scans'[k].epoch = scans[k].epoch
           /\ scans'[k].cancelled = scans[k].cancelled
  BY <1>1, GotoEffect
<1>3. /\ UNCHANGED <<page, bounds, requests, window>>
  BY DEF Scanner, Begin, Authenticated, Publish, Capture, CaptureFails, EmitConnected,
     EmitError, Finish, Die, bounds, page
<1>4. \A label : Goto(n, label) => scans'[n].pc = label
  BY GotoEffect
<1>5. ASSUME NEW kind \in ScanStates \ {"IDLE"}, NEW ok \in BOOLEAN, Emit(n, kind, ok)
      PROVE  Grew(inbox, inbox', [kind |-> kind, server |-> scans[n].server, ok |-> ok,
                                  epoch |-> scans[n].epoch])
  <2>1. scans[n].server \in Servers /\ scans[n].epoch \in Epochs
    BY Lengths DEF Scans
  <2> QED
    BY <1>5, <2>1, PostEffect DEF Emit
<1> USE <1>4 DEF Running, Published, Alive, plugin
<1>6. CASE Begin(n)
  BY <1>2, <1>3, <1>5, <1>6 DEF Begin, Says, ScanStates
<1>7. CASE Authenticated(n)
  BY <1>2, <1>3, <1>5, <1>7 DEF Authenticated, Says, ScanStates
<1>8. CASE Publish(n)
  BY <1>2, <1>3, <1>8 DEF Publish
<1>9. CASE Capture(n) \/ CaptureFails(n) \/ Finish(n) \/ Die(n)
  BY <1>2, <1>3, <1>9 DEF Capture, CaptureFails, Finish, Die
<1>10. CASE EmitConnected(n)
  BY <1>2, <1>3, <1>5, <1>10 DEF EmitConnected, Says, ScanStates
<1>11. CASE EmitError(n)
  BY <1>2, <1>3, <1>5, <1>11 DEF EmitError, EmitFailure, Says, ScanStates
<1> QED
  BY <1>6, <1>7, <1>8, <1>9, <1>10, <1>11 DEF Scanner

\* The handler of the history requests.
LEMMA HistoryEffect ==
  ASSUME TypeOK, window # "closed", HandleChanges \/ HandleCompare \/ ReplyCompare
  PROVE  /\ UNCHANGED <<page, bounds, scans, graph, window>>
         /\ \/ requests' = requests
            \/ ~Asking(1) /\ requests # <<>> /\ Shrank(requests, requests', 1)
         /\ \/ inbox' = inbox
            \/ \E m \in Messages : m.kind = "changes" /\ Grew(inbox, inbox', m)
<1>1. UNCHANGED <<page, bounds, scans, graph, window>>
  BY DEF HandleChanges, HandleCompare, ReplyCompare, plugin
<1>2. ASSUME NEW kind \in {"GET_CHANGES", "COMPARE_SNAPSHOTS"}, Handle(kind)
      PROVE  /\ ~Asking(1) /\ requests # <<>> /\ Shrank(requests, requests', 1)
             /\ Head(requests) \in Requests
  BY <1>2, HeadTaken DEF TypeOK, Handle, Asking, Shrank
<1>3. ASSUME NEW server \in Servers \cup {None}, NEW ok \in BOOLEAN, NEW e \in Epochs,
             Post("changes", server, ok, e)
      PROVE  \E m \in Messages : m.kind = "changes" /\ Grew(inbox, inbox', m)
  <2>1. [kind |-> "changes", server |-> server, ok |-> ok, epoch |-> e] \in Messages
    BY DEF Messages
  <2> QED
    BY <1>3, <2>1, PostEffect
<1>4. ASSUME NEW r \in Requests, NEW x, Compared(r, x)
      PROVE  \E m \in Messages : m.kind = "changes" /\ Grew(inbox, inbox', m)
  <2>1. PICK ok \in {r.server = x, FALSE} : Post("changes", r.server, ok, epoch)
    BY <1>4 DEF Compared
  <2>2. ok \in BOOLEAN /\ r.server \in Servers \cup {None} /\ epoch \in Epochs
    BY DEF Requests, TypeOK
  <2> QED
    BY <1>3, <2>1, <2>2
<1>5. CASE HandleChanges
  <2>1. Head(requests).epoch \in Epochs
    BY <1>2, <1>5 DEF HandleChanges, Requests
  <2>2. (latest # None) \in BOOLEAN /\ latest \in Servers \cup {None}
    BY DEF TypeOK
  <2> QED
    BY <1>1, <1>2, <1>3, <1>5, <2>1, <2>2 DEF HandleChanges
<1>6. CASE HandleCompare
  BY <1>1, <1>2, <1>4, <1>6 DEF HandleCompare
<1>7. CASE ReplyCompare
  <2>1. \A c \in comparing : c.request \in Requests
    BY DEF TypeOK
  <2> QED
    BY <1>1, <1>4, <1>7, <2>1 DEF ReplyCompare
<1> QED
  BY <1>5, <1>6, <1>7

\* The answer to a scan request: a thread of its own, or a rejection.
LEMMA ScanRequestEffect ==
  ASSUME TypeOK, OwnEpoch, HandleScan
  PROVE  /\ UNCHANGED <<page, bounds, graph, window>> /\ window # "closed"
         /\ requests # <<>> /\ Asking(1) /\ Shrank(requests, requests', 1)
         /\ \/ /\ inbox' = inbox
               /\ Len(scans) > 0 => IsDone(scans[Len(scans)])
               /\ Grew(scans, scans', [pc |-> "submitted", server |-> requests[1].server,
                                       epoch |-> epoch, cancelled |-> FALSE])
            \/ /\ scans' = scans
               /\ \E m \in Messages : m.kind = "rejected" /\ Grew(inbox, inbox', m)
<1>1. /\ window # "closed" /\ requests # <<>> /\ Head(requests) = requests[1]
      /\ Asking(1) /\ Shrank(requests, requests', 1) /\ 1 \in 1..Len(requests)
      /\ requests[1] \in Requests
  BY HeadTaken DEF TypeOK, HandleScan, Handle, Asking, Shrank
<1>2. requests[1].epoch = epoch /\ requests[1].server \in Servers /\ epoch \in Epochs
  BY <1>1 DEF OwnEpoch, TypeOK
<1>3. UNCHANGED <<page, bounds, graph, window>>
  BY DEF HandleScan, plugin
<1>4. CASE Post("rejected", None, FALSE, epoch) /\ scans' = scans
  <2>1. [kind |-> "rejected", server |-> None, ok |-> FALSE, epoch |-> epoch] \in Messages
    BY <1>2 DEF Messages
  <2> QED
    BY <1>1, <1>2, <1>3, <1>4, <2>1, PostEffect
<1>5. ASSUME Accepts, inbox' = inbox,
             scans' = Append(scans, [pc |-> "submitted", server |-> requests[1].server,
                                     epoch |-> epoch, cancelled |-> FALSE])
      PROVE  /\ Len(scans) > 0 => IsDone(scans[Len(scans)])
             /\ Grew(scans, scans', [pc |-> "submitted", server |-> requests[1].server,
                                     epoch |-> epoch, cancelled |-> FALSE])
  <2>1. [pc |-> "submitted", server |-> requests[1].server, epoch |-> epoch,
         cancelled |-> FALSE] \in Scans
    BY <1>2 DEF Scans, Alive
  <2>2. Len(scans) > 0 => Len(scans) \in 1..Len(scans)
    BY Lengths
  <2> QED
    BY <1>5, <2>1, <2>2, Appended DEF TypeOK, Grew, Accepts
<1> QED
  BY <1>1, <1>2, <1>3, <1>4, <1>5 DEF HandleScan

\* The page takes one message, which nothing of its kind precedes.
LEMMA DeliverEffect ==
  ASSUME TypeOK, NEW i \in 1..Len(inbox), Deliver(i)
  PROVE  /\ UNCHANGED <<bounds, requests, scans, graph, window>> /\ window # "closed"
         /\ inbox[i] \in Messages /\ Shrank(inbox, inbox', i)
         /\ \A j \in 1..(i - 1) : IsStatus(inbox[j]) # IsStatus(inbox[i])
<1>1. /\ UNCHANGED <<bounds, requests, scans, graph, window>> /\ window # "closed"
      /\ inbox' = Without(inbox, i)
  BY DEF Deliver, Without, plugin
<1>2. inbox \in Seq(Messages)
  BY DEF TypeOK
<1>3. inbox[i] \in Messages /\ Shrank(inbox, inbox', i)
  BY <1>1, <1>2, TakenOut DEF Shrank
<1>4. \A j \in 1..(i - 1) : IsStatus(inbox[j]) # IsStatus(inbox[i])
  BY DEF Deliver, Deliverable
<1> QED
  BY <1>1, <1>3, <1>4

\* The page asks for something else than a scan.
LEMMA AskEffect ==
  ASSUME TypeOK, OpenChanges \/ CompareSnapshots
  PROVE  /\ UNCHANGED <<scanState, connected, shown, asked, epoch, inbox, scans, graph, window>>
         /\ \E r \in Requests : r.kind # "SCAN_HOST" /\ Grew(requests, requests', r)
<1>1. \E kind \in {"GET_CHANGES", "COMPARE_SNAPSHOTS"}, server \in Servers \cup {None} :
         Send(kind, server)
  BY DEF TypeOK, OpenChanges, CompareSnapshots
<1>2. UNCHANGED <<scanState, connected, shown, asked, epoch, inbox, scans, graph, window>>
  BY DEF OpenChanges, CompareSnapshots, plugin
<1> QED
  BY <1>1, <1>2, SendEffect, SendTyped

\* The coordinator is disposed of: threads are cancelled, not stopped.
LEMMA DisposeEffect ==
  ASSUME TypeOK, DisposeCoordinator
  PROVE  /\ UNCHANGED <<page, bounds, requests, inbox, graph>>
         /\ window # "closed" /\ window' = "disposing" /\ Len(scans') = Len(scans)
         /\ \A n \in 1..Len(scans) :
              /\ scans'[n].pc = scans[n].pc /\ scans'[n].server = scans[n].server
              /\ scans'[n].epoch = scans[n].epoch
<1>1. DOMAIN scans = 1..Len(scans) /\ Len(scans) \in Nat
  BY DEF TypeOK
<1>2. DOMAIN scans' = 1..Len(scans) /\ Len(scans') = Len(scans)
  BY <1>1 DEF DisposeCoordinator
<1>3. \A n \in 1..Len(scans) : scans[n] \in Scans
  BY DEF TypeOK
<1> QED
  BY <1>1, <1>2, <1>3 DEF DisposeCoordinator, plugin, Scans

(***************************************************************************)
(* One scan, in one place.                                                 *)
(***************************************************************************)
LEMMA TokenStep ==
  ASSUME TypeOK, OneToken, WhileOwed, OwnEpoch, [Next]_vars
  PROVE  OneToken'
<1> SUFFICES ASSUME window' # "closed" PROVE OneToken'
  BY DEF OneToken, OneRequest, OthersEnding, AskedAlone, RunsUnended, EndsLast
<1> USE Lengths, NotRunning, Kinds DEF OneToken, page, bounds, plugin
<1>1. ASSUME NEW s \in Servers, RequestScan(s) PROVE OneToken'
  <2>1. /\ UNCHANGED <<inbox, scans, window>> /\ window # "closed" /\ ~Active
        /\ Grew(requests, requests', [kind |-> "SCAN_HOST", server |-> s, epoch |-> epoch])
    BY <1>1, SendEffect DEF RequestScan
  <2>2. ~Owed
    BY <2>1 DEF WhileOwed
  <2>3. /\ \A i \in 1..Len(requests) : ~Asking(i)
        /\ \A n \in 1..Len(scans) : ~Running(n)
        /\ \A j \in 1..Len(inbox) : ~Marks(inbox[j])
    BY <2>2 DEF Owed, Asking, Running
  <2>4. \A i \in 1..Len(requests)' : Asking(i)' => i = Len(requests) + 1
    BY <2>1, <2>3 DEF Grew, Asking
  <2> QED
    BY <2>1, <2>3, <2>4
       DEF OneRequest, OthersEnding, AskedAlone, RunsUnended, EndsLast, Running
<1>2. CASE UNCHANGED <<requests, inbox, scans, window>>
  BY <1>2 DEF OneRequest, OthersEnding, AskedAlone, RunsUnended, EndsLast, Running, Asking
<1>3. CASE OpenChanges \/ CompareSnapshots
  <2>1. PICK r \in Requests : r.kind # "SCAN_HOST" /\ Grew(requests, requests', r)
    BY <1>3, AskEffect
  <2>2. UNCHANGED <<inbox, scans, window>>
    BY <1>3, AskEffect
  <2>3. \A i \in 1..Len(requests)' : Asking(i)' => i \in 1..Len(requests) /\ Asking(i)
    BY <2>1 DEF Grew, Asking
  <2> QED
    BY <2>2, <2>3 DEF OneRequest, OthersEnding, AskedAlone, RunsUnended, EndsLast, Running
<1>4. ASSUME NEW k \in 1..Len(inbox), Deliver(k) PROVE OneToken'
  <2>1. UNCHANGED <<requests, scans, window>> /\ Shrank(inbox, inbox', k)
    BY <1>4, DeliverEffect
  <2>2. \A j \in 1..Len(inbox)' :
           \E i \in 1..Len(inbox) : inbox'[j] = inbox[i] /\ i = IF j < k THEN j ELSE j + 1
    BY <2>1 DEF Shrank
  <2>3. (OneRequest /\ OthersEnding /\ AskedAlone /\ RunsUnended)'
    BY <2>1, <2>2 DEF OneRequest, OthersEnding, AskedAlone, RunsUnended, Running, Asking
  <2>4. EndsLast'
    <3> SUFFICES ASSUME window # "closed", NEW i \in 1..Len(inbox'), NEW j \in 1..Len(inbox'),
                        Ends(inbox'[i]), Marks(inbox'[j])
                 PROVE  j <= i /\ (inbox'[i].kind = "rejected" => i = j)
      BY <2>1 DEF EndsLast
    <3>1. PICK p \in 1..Len(inbox) : inbox'[i] = inbox[p] /\ p = IF i < k THEN i ELSE i + 1
      BY <2>2
    <3>2. PICK q \in 1..Len(inbox) : inbox'[j] = inbox[q] /\ q = IF j < k THEN j ELSE j + 1
      BY <2>2
    <3>3. q <= p /\ (inbox[p].kind = "rejected" => p = q)
      BY <3>1, <3>2 DEF EndsLast
    <3> QED
      BY <3>1, <3>2, <3>3
  <2> QED
    BY <2>3, <2>4
<1>5. CASE HandleScan
  <2>1. /\ window # "closed" /\ window' = window /\ requests # <<>>
        /\ Asking(1) /\ Shrank(requests, requests', 1)
    BY <1>5, ScanRequestEffect
  <2>2. /\ \A n \in 1..Len(scans) : ~Running(n)
        /\ \A j \in 1..Len(inbox) : ~Marks(inbox[j])
    BY <2>1 DEF AskedAlone
  <2>3. \A i \in 1..Len(requests)' : ~Asking(i)'
    BY <2>1 DEF OneRequest, Shrank, Asking
  <2>4. ASSUME inbox' = inbox,
               Grew(scans, scans', [pc |-> "submitted", server |-> requests[1].server,
                                    epoch |-> epoch, cancelled |-> FALSE])
        PROVE  OneToken'
    <3>1. Len(scans') = Len(scans) + 1 /\ \A n \in 1..Len(scans) : scans'[n] = scans[n]
      BY <2>4 DEF Grew
    <3>2. \A n \in 1..Len(scans') : Running(n)' => n = Len(scans')
      BY <2>2, <3>1 DEF Running
    <3>3. \A j \in 1..Len(inbox') : ~Marks(inbox'[j])
      BY <2>2, <2>4
    <3> QED
      BY <2>1, <2>3, <3>2, <3>3 DEF OneRequest, OthersEnding, AskedAlone, RunsUnended, EndsLast
  <2>5. ASSUME scans' = scans, NEW m \in Messages, m.kind = "rejected", Grew(inbox, inbox', m)
        PROVE  OneToken'
    <3>1. \A j \in 1..Len(inbox)' : Marks(inbox'[j]) => j = Len(inbox) + 1
      BY <2>2, <2>5 DEF Grew
    <3> QED
      BY <2>1, <2>2, <2>3, <2>5, <3>1
         DEF OneRequest, OthersEnding, AskedAlone, RunsUnended, EndsLast, Running
  <2>6. \/ /\ inbox' = inbox
           /\ Grew(scans, scans', [pc |-> "submitted", server |-> requests[1].server,
                                   epoch |-> epoch, cancelled |-> FALSE])
        \/ scans' = scans /\ \E m \in Messages : m.kind = "rejected" /\ Grew(inbox, inbox', m)
    BY <1>5, ScanRequestEffect
  <2> QED
    BY <2>4, <2>5, <2>6
<1>6. CASE HandleChanges \/ HandleCompare \/ ReplyCompare
  <2>1. window # "closed"
    <3>1. window' = window
      BY <1>6 DEF HandleChanges, HandleCompare, ReplyCompare
    <3> QED
      BY <3>1
  <2>2. UNCHANGED <<scans, window>>
    BY <1>6, <2>1, HistoryEffect
  <2>3. \A j \in 1..Len(inbox') : Marks(inbox'[j]) => j \in 1..Len(inbox) /\ inbox'[j] = inbox[j]
    BY <1>6, <2>1, HistoryEffect DEF Grew
  <2>4. \/ requests' = requests
        \/ ~Asking(1) /\ Shrank(requests, requests', 1) /\ Len(requests) > 0
    BY <1>6, <2>1, HistoryEffect, HeadTaken DEF TypeOK
  <2>5. \A i \in 1..Len(requests') : Asking(i)' =>
           \E k \in 1..Len(requests) : Asking(k) /\ k = IF requests' = requests THEN i ELSE i + 1
    BY <2>4 DEF Shrank, Asking
  <2> QED
    BY <2>1, <2>2, <2>3, <2>5, SMTT(20)
       DEF OneRequest, OthersEnding, AskedAlone, RunsUnended, EndsLast, Running
<1>7. ASSUME NEW n \in 1..Len(scans), Scanner(n) PROVE OneToken'
  <2>1. window # "closed"
    <3>1. window' = window
      BY <1>7 DEF Scanner, Begin, Authenticated, Publish, Capture, CaptureFails, EmitConnected,
         EmitError, Finish, Die
    <3> QED
      BY <3>1
  <2>2. UNCHANGED <<requests, window>> /\ Len(scans') = Len(scans)
    BY <1>7, <2>1, ScannerEffect
  <2>3. \A k \in 1..Len(scans) : Running(k)' => Running(k)
    <3>1. Running(n)' => Running(n)
      BY <1>7, <2>1, ScannerEffect
    <3>2. \A k \in 1..Len(scans) : k # n => scans'[k] = scans[k]
      BY <1>7, <2>1, ScannerEffect
    <3> QED
      BY <3>1, <3>2 DEF Running
  <2>4. (OneRequest /\ OthersEnding)'
    BY <2>1, <2>2, <2>3 DEF OneRequest, OthersEnding, Asking
  <2>5. CASE inbox' = inbox
    BY <2>1, <2>2, <2>3, <2>4, <2>5 DEF AskedAlone, RunsUnended, EndsLast, Asking
  <2>6. ASSUME Running(n), NEW m, Grew(inbox, inbox', m), m.kind # "rejected", Ends(m) => ~Running(n)'
        PROVE  OneToken'
    <3>1. /\ \A i \in 1..Len(requests) : ~Asking(i)
          /\ \A j \in 1..Len(inbox) : ~Ends(inbox[j])
      BY <2>1, <2>6 DEF AskedAlone, RunsUnended
    <3>2. \A j \in 1..Len(inbox') : Ends(inbox'[j]) =>
             /\ j = Len(inbox') /\ inbox'[j].kind # "rejected"
             /\ ~Running(n)'
      BY <2>6, <3>1 DEF Grew
    <3>3. \A k \in 1..Len(scans) : Running(k)' => k = n
      BY <2>1, <2>3, <2>6 DEF OthersEnding
    <3> QED
      BY <2>2, <2>4, <3>1, <3>2, <3>3 DEF AskedAlone, RunsUnended, EndsLast, Asking
  <2>7. \/ inbox' = inbox
        \/ Running(n) /\ \E m : /\ Grew(inbox, inbox', m) /\ m.kind # "rejected"
                                /\ Ends(m) => ~Running(n)'
    <3>1. \/ inbox' = inbox
          \/ Says(n, {"CONNECTING", "SCANNING"}) /\ Running(n)
          \/ Says(n, {"ERROR"}) /\ Running(n) /\ ~Running(n)'
          \/ Says(n, {"CONNECTED"}) /\ Running(n) /\ ~Running(n)'
      BY <1>7, <2>1, ScannerEffect
    <3> QED
      BY <3>1, SaidOne
  <2> QED
    BY <2>5, <2>6, <2>7
<1>8. CASE DisposeCoordinator
  <2>1. UNCHANGED <<requests, inbox>> /\ window # "closed" /\ Len(scans') = Len(scans)
    BY <1>8, DisposeEffect
  <2>2. \A n \in 1..Len(scans) : Running(n)' <=> Running(n)
    BY <1>8, DisposeEffect DEF Running
  <2> QED
    BY <2>1, <2>2 DEF OneRequest, OthersEnding, AskedAlone, RunsUnended, EndsLast, Asking
<1>9. CASE DisposeBrowser
  BY <1>9 DEF DisposeBrowser
<1>10. RejectForm \/ Disconnect \/ UNCHANGED vars => UNCHANGED <<requests, inbox, scans, window>>
  BY DEF RejectForm, Disconnect, vars
<1> QED
  BY <1>1, <1>2, <1>3, <1>4, <1>5, <1>6, <1>7, <1>8, <1>9, <1>10 DEF Next, User, Handler

\* A window that lives now lived before: nothing opens one.
LEMMA WindowLives ==
  ASSUME [Next]_vars, window' # "closed"
  PROVE  window # "closed" /\ (window' = "open" => window = "open")
<1> USE DEF page, bounds, plugin
<1>1. DisposeCoordinator \/ DisposeBrowser \/ window' = window
  <2>1. User => DisposeCoordinator \/ DisposeBrowser \/ window' = window
    BY DEF User, RequestScan, RejectForm, OpenChanges, CompareSnapshots, Disconnect
  <2>2. Handler => window' = window
    BY DEF Handler, HandleScan, HandleChanges, HandleCompare, ReplyCompare
  <2>3. \A i \in 1..Len(inbox) : Deliver(i) => window' = window
    BY DEF Deliver
  <2>4. \A n \in 1..Len(scans) : Scanner(n) => window' = window
    BY DEF Scanner, Begin, Authenticated, Publish, Capture, CaptureFails, EmitConnected,
       EmitError, Finish, Die
  <2> QED
    BY <2>1, <2>2, <2>3, <2>4 DEF Next, vars
<1> QED
  BY <1>1 DEF DisposeCoordinator, DisposeBrowser

LEMMA OthersStep ==
  ASSUME TypeOK, OthersDone, OwnEpoch, [Next]_vars
  PROVE  OthersDone'
<1> SUFFICES ASSUME window' = "open" PROVE OthersDone'
  BY DEF OthersDone
<1>a. window = "open"
  BY WindowLives
<1> USE <1>a, Lengths DEF page, bounds, plugin, OthersDone
<1>1. CASE scans' = scans
  BY <1>1
<1>2. CASE HandleScan
  <2>1. ASSUME Len(scans) > 0 => IsDone(scans[Len(scans)]),
               Grew(scans, scans', [pc |-> "submitted", server |-> requests[1].server,
                                    epoch |-> epoch, cancelled |-> FALSE])
        PROVE  OthersDone'
    <3>1. \A n \in 1..Len(scans) : scans[n].pc \in Ended /\ ~scans[n].cancelled
      BY <2>1 DEF IsDone
    <3> QED
      BY <2>1, <3>1 DEF Grew
  <2> QED
    BY <1>1, <1>2, <2>1, ScanRequestEffect
<1>3. ASSUME NEW n \in 1..Len(scans), Scanner(n) PROVE OthersDone'
  <2>1. /\ Len(scans') = Len(scans) /\ scans[n].pc \notin Ended
        /\ \A k \in 1..Len(scans) :
             /\ k # n => scans'[k] = scans[k]
             /\ scans'[k].cancelled = scans[k].cancelled
    BY <1>3, ScannerEffect
  <2> QED
    BY <2>1
<1>4. User => scans' = scans
  BY DEF User, RequestScan, RejectForm, OpenChanges, CompareSnapshots, Disconnect,
     DisposeCoordinator, DisposeBrowser
<1>5. Handler => HandleScan \/ scans' = scans
  BY DEF Handler, HandleChanges, HandleCompare, ReplyCompare
<1>6. (\E i \in 1..Len(inbox) : Deliver(i)) \/ UNCHANGED vars => scans' = scans
  BY DEF Deliver, vars
<1> QED
  BY <1>1, <1>2, <1>3, <1>4, <1>5, <1>6 DEF Next

(***************************************************************************)
(* The page waits as long as anything is owed.                             *)
(***************************************************************************)
LEMMA OwedIs ==
  /\ (Owed <=> \/ \E i \in 1..Len(requests) : Asking(i)
               \/ \E n \in 1..Len(scans) : Running(n)
               \/ \E i \in 1..Len(inbox) : Marks(inbox[i]))
  /\ (Owed' <=> \/ \E i \in 1..Len(requests') : Asking(i)'
                \/ \E n \in 1..Len(scans') : Running(n)'
                \/ \E i \in 1..Len(inbox') : Marks(inbox'[i]))
BY DEF Owed, Asking, Running, Marks

\* A history request leaves what is on its way of a scan as it was.
LEMMA HistoryQueues ==
  ASSUME TypeOK, window # "closed", HandleChanges \/ HandleCompare \/ ReplyCompare
  PROVE  /\ \A i \in 1..Len(requests') : \E k \in 1..Len(requests) : requests'[i] = requests[k]
         /\ \A j \in 1..Len(inbox') :
              inbox'[j].kind # "changes" => j \in 1..Len(inbox) /\ inbox'[j] = inbox[j]
         /\ \A j \in 1..Len(inbox) : j \in 1..Len(inbox') /\ inbox'[j] = inbox[j]
         /\ Owed' => Owed
<1> USE Lengths
<1>1. scans' = scans
  BY HistoryEffect
<1>2. /\ \A j \in 1..Len(inbox') :
            inbox'[j].kind # "changes" => j \in 1..Len(inbox) /\ inbox'[j] = inbox[j]
      /\ \A j \in 1..Len(inbox) : j \in 1..Len(inbox') /\ inbox'[j] = inbox[j]
  <2>1. inbox' = inbox \/ \E m \in Messages : m.kind = "changes" /\ Grew(inbox, inbox', m)
    BY HistoryEffect
  <2> QED
    BY <2>1 DEF Grew
<1>3. \A i \in 1..Len(requests') : \E k \in 1..Len(requests) : requests'[i] = requests[k]
  <2>1. CASE requests' = requests
    BY <2>1
  <2>2. CASE requests # <<>> /\ Shrank(requests, requests', 1)
    <3>1. Len(requests) \in Nat \ {0}
      BY <2>2, HeadTaken DEF TypeOK
    <3>2. \A i \in 1..Len(requests') : requests'[i] = requests[i + 1] /\ i + 1 \in 1..Len(requests)
      BY <2>2, <3>1 DEF Shrank
    <3> QED
      BY <3>2
  <2> QED
    BY <2>1, <2>2, HistoryEffect
<1>4. Owed' => Owed
  <2>1. \A i \in 1..Len(requests') : Asking(i)' => \E k \in 1..Len(requests) : Asking(k)
    BY <1>3 DEF Asking
  <2>2. \A j \in 1..Len(inbox') : Marks(inbox'[j]) => inbox'[j].kind # "changes"
    BY Kinds
  <2> QED
    BY <1>1, <1>2, <2>1, <2>2, OwedIs DEF Running
<1> QED
  BY <1>2, <1>3, <1>4

\* A message that ends a scan is the last thing that is owed.
LEMMA EndingIsLast ==
  ASSUME TypeOK, OneToken, NEW i \in 1..Len(inbox), Deliver(i), Ends(inbox[i])
  PROVE  ~Owed'
<1> USE Lengths DEF OneToken
<1>1. /\ UNCHANGED <<requests, scans, window>> /\ window # "closed"
      /\ Shrank(inbox, inbox', i)
      /\ \A j \in 1..(i - 1) : IsStatus(inbox[j]) # IsStatus(inbox[i])
  BY DeliverEffect
<1>2. /\ \A k \in 1..Len(requests) : ~Asking(k)
      /\ \A n \in 1..Len(scans) : ~Running(n)
  BY <1>1 DEF AskedAlone, RunsUnended, Marks
<1>3. \A j \in 1..Len(inbox) : Marks(inbox[j]) => j = i
  <2> SUFFICES ASSUME NEW j \in 1..Len(inbox), Marks(inbox[j]), j # i PROVE FALSE
    OBVIOUS
  <2>1. j < i /\ inbox[i].kind # "rejected"
    BY <1>1 DEF EndsLast
  <2>2. IsStatus(inbox[i]) /\ ~IsStatus(inbox[j])
    <3>1. IsStatus(inbox[i])
      BY <2>1, Kinds
    <3>2. IsStatus(inbox[j]) # IsStatus(inbox[i])
      BY <1>1, <2>1
    <3> QED
      BY <3>1, <3>2 DEF IsStatus
  <2>3. Ends(inbox[j])
    BY <2>2 DEF Marks
  <2> QED
    BY <1>1, <2>1, <2>3 DEF EndsLast, Marks
<1>4. \A j \in 1..Len(inbox') : ~Marks(inbox'[j])
  BY <1>1, <1>3 DEF Shrank
<1> QED
  BY <1>1, <1>2, <1>4, OwedIs DEF Asking, Running

\* Nothing but a scan request makes something owed.
LEMMA OwedKept ==
  ASSUME TypeOK, OneToken, OwnEpoch, [Next]_vars, window' # "closed",
         \A s \in Servers : ~RequestScan(s)
  PROVE  Owed' => Owed
<1>a. window # "closed"
  BY WindowLives
<1> USE <1>a, Lengths, OwedIs, Kinds DEF page, bounds, plugin
<1>1. CASE UNCHANGED <<requests, inbox, scans>>
  BY <1>1 DEF Asking, Running
<1>2. CASE OpenChanges \/ CompareSnapshots
  <2>1. PICK r \in Requests : r.kind # "SCAN_HOST" /\ Grew(requests, requests', r)
    BY <1>2, AskEffect
  <2>2. UNCHANGED <<inbox, scans>>
    BY <1>2, AskEffect
  <2>3. \A i \in 1..Len(requests') : Asking(i)' => i \in 1..Len(requests) /\ Asking(i)
    BY <2>1 DEF Grew, Asking
  <2> QED
    BY <2>2, <2>3 DEF Running
<1>3. ASSUME NEW k \in 1..Len(inbox), Deliver(k) PROVE Owed' => Owed
  <2>1. UNCHANGED <<requests, scans>> /\ Shrank(inbox, inbox', k)
    BY <1>3, DeliverEffect
  <2>2. \A j \in 1..Len(inbox') : \E i \in 1..Len(inbox) : inbox'[j] = inbox[i]
    BY <2>1 DEF Shrank
  <2> QED
    BY <2>1, <2>2 DEF Running, Asking
<1>4. CASE HandleScan
  <2>1. Asking(1) /\ 1 \in 1..Len(requests)
    BY <1>4, ScanRequestEffect, HeadTaken DEF TypeOK
  <2> QED
    BY <2>1
<1>5. CASE HandleChanges \/ HandleCompare \/ ReplyCompare
  BY <1>5, HistoryQueues
<1>6. ASSUME NEW n \in 1..Len(scans), Scanner(n) PROVE Owed' => Owed
  <2>1. requests' = requests /\ Len(scans') = Len(scans)
    BY <1>6, ScannerEffect
  <2>2. \A k \in 1..Len(scans) : k # n => scans'[k] = scans[k]
    BY <1>6, ScannerEffect
  <2>3. Running(n) \/ (inbox' = inbox /\ ~Running(n)')
    BY <1>6, ScannerEffect
  <2> QED
    BY <2>1, <2>2, <2>3 DEF Running, Asking
<1>7. CASE DisposeCoordinator
  <2>1. UNCHANGED <<requests, inbox>> /\ Len(scans') = Len(scans)
    BY <1>7, DisposeEffect
  <2>2. \A n \in 1..Len(scans) : Running(n)' <=> Running(n)
    BY <1>7, DisposeEffect DEF Running
  <2> QED
    BY <2>1, <2>2 DEF Asking
<1>8. RejectForm \/ Disconnect \/ UNCHANGED vars => UNCHANGED <<requests, inbox, scans>>
  BY DEF RejectForm, Disconnect, vars
<1>9. ~DisposeBrowser
  BY DEF DisposeBrowser
<1> QED
  BY <1>1, <1>2, <1>3, <1>4, <1>5, <1>6, <1>7, <1>8, <1>9 DEF Next, User, Handler

LEMMA WaitingStep ==
  ASSUME TypeOK, OneToken, OwnEpoch, WhileOwed, [Next]_vars
  PROVE  WhileOwed'
<1> SUFFICES ASSUME window' # "closed", Owed' PROVE Active'
  BY DEF WhileOwed
<1>a. window # "closed"
  BY WindowLives
<1> USE <1>a, Lengths, OwedIs DEF page, bounds, plugin, Active
<1>1. ASSUME NEW s \in Servers, RequestScan(s) PROVE Active'
  BY <1>1 DEF RequestScan
<1>2. ASSUME \A s \in Servers : ~RequestScan(s) PROVE Active
  BY <1>2, OwedKept DEF WhileOwed
<1>3. ASSUME NEW i \in 1..Len(inbox), Deliver(i), Active PROVE Active'
  <2>1. inbox[i].kind \in {"CONNECTING", "SCANNING", "changes"}
    <3>1. ~Ends(inbox[i])
      BY <1>3, EndingIsLast
    <3>2. inbox[i].kind \in {"CONNECTING", "SCANNING", "CONNECTED", "ERROR", "rejected", "changes"}
      BY DEF Messages, ScanStates
    <3> QED
      BY <3>1, <3>2 DEF Ends
  <2> QED
    BY <1>3, <2>1
       DEF Deliver, ReceiveStatus, ReceiveRejection, ReceiveChanges, IsStatus, ScanStates
<1>4. Handler \/ UNCHANGED vars => scanState' = scanState
  BY DEF Handler, HandleScan, HandleChanges, HandleCompare, ReplyCompare, vars
<1>5. \A n \in 1..Len(scans) : Scanner(n) => scanState' = scanState
  BY ScannerEffect
<1>6. OpenChanges \/ CompareSnapshots \/ DisposeCoordinator => scanState' = scanState
  BY DEF OpenChanges, CompareSnapshots, DisposeCoordinator
<1>7. ~DisposeBrowser
  BY DEF DisposeBrowser
<1>8. RejectForm \/ Disconnect => ~Active /\ \A s \in Servers : ~RequestScan(s)
  BY DEF RejectForm, Disconnect, CanDisconnect, RequestScan
<1> QED
  BY <1>1, <1>2, <1>3, <1>4, <1>5, <1>6, <1>7, <1>8 DEF Next, User

(***************************************************************************)
(* Epochs.                                                                 *)
(***************************************************************************)
LEMMA EpochStep ==
  ASSUME TypeOK, OneToken, OwnEpoch, WhileOwed, [Next]_vars
  PROVE  OwnEpoch'
<1> USE Lengths, OwedIs, NotRunning, Kinds DEF page, bounds, plugin
<1>a. asked \in Nat /\ epoch \in Nat /\ epoch <= asked
  BY BoundsAssumption DEF TypeOK, Epochs, OwnEpoch
<1>1. ASSUME NEW s \in Servers, RequestScan(s) PROVE OwnEpoch'
  <2>1. /\ UNCHANGED <<inbox, scans, window, epoch, connected>> /\ window # "closed" /\ ~Active
        /\ Grew(requests, requests', [kind |-> "SCAN_HOST", server |-> s, epoch |-> epoch])
        /\ asked' = asked + 1
    BY <1>1, SendEffect DEF RequestScan
  <2>2. /\ \A n \in 1..Len(scans) : ~Running(n)
        /\ \A i \in 1..Len(requests) : ~Asking(i)
        /\ \A j \in 1..Len(inbox) : ~Marks(inbox[j])
    BY <2>1 DEF WhileOwed
  <2>3. epoch' <= asked' /\ epoch' < asked'
    BY <1>a, <2>1
  <2>4. \A i \in 1..Len(requests') :
           Asking(i)' => requests'[i].epoch = epoch' /\ requests'[i].server \in Servers
    <3>1. PICK r : /\ r = [kind |-> "SCAN_HOST", server |-> s, epoch |-> epoch]
                   /\ Grew(requests, requests', r)
      BY <2>1
    <3>2. ASSUME NEW i \in 1..Len(requests'), Asking(i)' PROVE requests'[i] = r
      <4>1. i \notin 1..Len(requests)
        BY <2>2, <3>1, <3>2 DEF Grew, Asking
      <4>2. i = Len(requests) + 1
        BY <3>1, <4>1 DEF Grew
      <4> QED
        BY <3>1, <4>2 DEF Grew
    <3>3. r.epoch = epoch' /\ r.server \in Servers
      BY <2>1, <3>1
    <3> QED
      BY <3>2, <3>3
  <2>5. \A n \in 1..Len(scans') : Running(n)' => scans'[n].epoch = epoch'
    BY <2>1, <2>2 DEF Running
  <2>6. \A i \in 1..Len(inbox') : IsStatus(inbox'[i]) => inbox'[i].epoch = epoch'
    BY <2>1 DEF OwnEpoch
  <2> QED
    BY <2>3, <2>4, <2>5, <2>6 DEF OwnEpoch
<1>2. CASE UNCHANGED <<bounds, requests, inbox, scans, window, connected>>
  BY <1>2 DEF OwnEpoch, Asking, Running
<1>3. CASE OpenChanges \/ CompareSnapshots
  <2>1. PICK r \in Requests : r.kind # "SCAN_HOST" /\ Grew(requests, requests', r)
    BY <1>3, AskEffect
  <2>2. UNCHANGED <<inbox, scans, window, epoch, asked, connected>>
    BY <1>3, AskEffect
  <2>3. \A i \in 1..Len(requests') : Asking(i)' =>
           i \in 1..Len(requests) /\ Asking(i) /\ requests'[i] = requests[i]
    BY <2>1 DEF Grew, Asking
  <2> QED
    BY <2>2, <2>3 DEF OwnEpoch, Running
<1>4. CASE Disconnect
  <2>1. /\ UNCHANGED <<asked, requests, inbox, scans, window>> /\ window # "closed" /\ ~Active
        /\ connected /\ ~connected' /\ epoch' = epoch + 1
    BY <1>4 DEF Disconnect, CanDisconnect
  <2>2. ~Owed
    BY <2>1 DEF WhileOwed
  <2>3. epoch < asked
    BY <2>1 DEF OwnEpoch
  <2> QED
    BY <1>a, <2>1, <2>2, <2>3 DEF OwnEpoch, Asking, Running
<1>5. ASSUME NEW k \in 1..Len(inbox), Deliver(k) PROVE OwnEpoch'
  <2>1. /\ UNCHANGED <<bounds, requests, scans, window>> /\ window # "closed"
        /\ Shrank(inbox, inbox', k)
    BY <1>5, DeliverEffect
  <2>2. \A j \in 1..Len(inbox') : \E i \in 1..Len(inbox) : inbox'[j] = inbox[i]
    BY <2>1, SMTT(20) DEF Shrank
  <2>3. connected' => connected \/ Owed
    BY <1>5 DEF Deliver, ReceiveStatus, ReceiveRejection, ReceiveChanges, HasSuccessfulGraph
  <2>4. Owed' => Owed
    BY <2>1, <2>2 DEF Asking, Running
  <2> QED
    BY <2>1, <2>2, <2>3, <2>4 DEF OwnEpoch, Asking, Running
<1>6. CASE HandleScan
  <2>1. /\ UNCHANGED <<page, bounds, window>> /\ window # "closed"
        /\ requests # <<>> /\ Asking(1) /\ Shrank(requests, requests', 1) /\ 1 \in 1..Len(requests)
    BY <1>6, ScanRequestEffect, HeadTaken DEF TypeOK
  <2>2. epoch < asked /\ \A n \in 1..Len(scans) : ~Running(n)
    BY <2>1 DEF OwnEpoch, OneToken, AskedAlone
  <2>3. \A i \in 1..Len(requests)' : ~Asking(i)'
    BY <2>1, SMTT(20) DEF OneToken, OneRequest, Shrank, Asking
  <2>4. \A n \in 1..Len(scans') : Running(n)' => scans'[n].epoch = epoch
    <3>1. \/ scans' = scans
          \/ Grew(scans, scans', [pc |-> "submitted", server |-> requests[1].server,
                                  epoch |-> epoch, cancelled |-> FALSE])
      BY <1>6, ScanRequestEffect
    <3> QED
      BY <2>2, <3>1 DEF Grew, Running
  <2>5. \A j \in 1..Len(inbox') : IsStatus(inbox'[j]) => j \in 1..Len(inbox) /\ inbox'[j] = inbox[j]
    <3>1. inbox' = inbox \/ \E m \in Messages : m.kind = "rejected" /\ Grew(inbox, inbox', m)
      BY <1>6, ScanRequestEffect
    <3> QED
      BY <3>1 DEF Grew
  <2> QED
    BY <1>a, <2>1, <2>2, <2>3, <2>4, <2>5 DEF OwnEpoch
<1>7. CASE HandleChanges \/ HandleCompare \/ ReplyCompare
  <2>1. CASE window = "closed"
    <3>1. UNCHANGED <<bounds, window>>
      BY <1>7 DEF HandleChanges, HandleCompare, ReplyCompare
    <3> QED
      BY <1>a, <2>1, <3>1 DEF OwnEpoch
  <2>2. CASE window # "closed"
    <3>1. UNCHANGED <<page, bounds, scans, window>>
      BY <1>7, <2>2, HistoryEffect
    <3>2. /\ \A i \in 1..Len(requests') : \E k \in 1..Len(requests) : requests'[i] = requests[k]
          /\ \A j \in 1..Len(inbox') :
               inbox'[j].kind # "changes" => j \in 1..Len(inbox) /\ inbox'[j] = inbox[j]
          /\ Owed' => Owed
      BY <1>7, <2>2, HistoryQueues
    <3>3. \A i \in 1..Len(requests') :
             Asking(i)' => requests'[i].epoch = epoch /\ requests'[i].server \in Servers
      BY <2>2, <3>2 DEF OwnEpoch, Asking
    <3>4. \A j \in 1..Len(inbox') : IsStatus(inbox'[j]) => inbox'[j].epoch = epoch
      <4>1. \A m : IsStatus(m) => m.kind # "changes"
        BY Kinds
      <4> QED
        BY <2>2, <3>2, <4>1 DEF OwnEpoch
    <3> QED
      BY <1>a, <2>2, <3>1, <3>2, <3>3, <3>4 DEF OwnEpoch, Running
  <2> QED
    BY <2>1, <2>2
<1>8. ASSUME NEW n \in 1..Len(scans), Scanner(n) PROVE OwnEpoch'
  <2>1. CASE window = "closed"
    <3>1. UNCHANGED <<bounds, window>>
      BY <1>8 DEF Scanner, Begin, Authenticated, Publish, Capture, CaptureFails, EmitConnected,
         EmitError, Finish, Die
    <3> QED
      BY <1>a, <2>1, <3>1 DEF OwnEpoch
  <2>2. CASE window # "closed"
    <3>1. /\ UNCHANGED <<page, bounds, requests, window>> /\ Len(scans') = Len(scans)
          /\ \A k \in 1..Len(scans) : /\ k # n => scans'[k] = scans[k]
                                      /\ scans'[k].epoch = scans[k].epoch
      BY <1>8, <2>2, ScannerEffect
    <3>2. \A k \in 1..Len(scans') : Running(k)' => Running(k) /\ scans'[k].epoch = scans[k].epoch
      <4>1. Running(n)' => Running(n)
        BY <1>8, <2>2, ScannerEffect
      <4> QED
        BY <3>1, <4>1 DEF Running
    <3>3. \/ inbox' = inbox
          \/ Running(n) /\ \E m : m.epoch = scans[n].epoch /\ Grew(inbox, inbox', m)
      <4>1. \/ inbox' = inbox
            \/ Running(n) /\ \E kinds : Says(n, kinds)
        BY <1>8, <2>2, ScannerEffect
      <4> QED
        BY <4>1, SaidOne
    <3>4. \A j \in 1..Len(inbox') : IsStatus(inbox'[j]) => inbox'[j].epoch = epoch
      BY <2>2, <3>3 DEF OwnEpoch, Grew
    <3>5. Owed' => Owed
      <4>1. \A i \in 1..Len(requests') : Asking(i)' <=> Asking(i)
        BY <3>1 DEF Asking
      <4> QED
        BY <3>1, <3>2, <3>3, <4>1
    <3> QED
      BY <1>a, <2>2, <3>1, <3>2, <3>4, <3>5 DEF OwnEpoch, Asking
  <2> QED
    BY <2>1, <2>2
<1>9. CASE DisposeCoordinator
  <2>1. /\ UNCHANGED <<page, bounds, requests, inbox>> /\ Len(scans') = Len(scans)
        /\ window # "closed"
    BY <1>9, DisposeEffect
  <2>2. \A n \in 1..Len(scans) : (Running(n)' <=> Running(n)) /\ scans'[n].epoch = scans[n].epoch
    BY <1>9, DisposeEffect DEF Running
  <2> QED
    BY <1>a, <2>1, <2>2 DEF OwnEpoch, Asking
<1>10. CASE DisposeBrowser
  BY <1>10, <1>a DEF DisposeBrowser, OwnEpoch
<1>11. RejectForm \/ UNCHANGED vars
         => UNCHANGED <<bounds, requests, inbox, scans, window, connected>>
  BY DEF RejectForm, vars
<1> QED
  BY <1>1, <1>2, <1>3, <1>4, <1>5, <1>6, <1>7, <1>8, <1>9, <1>10, <1>11 DEF Next, User, Handler

(***************************************************************************)
(* A published graph reaches the page.                                     *)
(***************************************************************************)
LEMMA GraphStep ==
  ASSUME TypeOK, OneToken, OwnEpoch, GraphOnItsWay, [Next]_vars
  PROVE  GraphOnItsWay'
<1> SUFFICES ASSUME window' # "closed" PROVE GraphOnItsWay'
  BY DEF GraphOnItsWay
<1>a. window # "closed"
  BY WindowLives
<1> USE <1>a, Lengths DEF page, bounds, plugin
<1>1. CASE UNCHANGED <<connected, shown, inbox, scans, graph>>
  BY <1>1 DEF GraphOnItsWay, Published
<1>2. CASE Disconnect
  <2>1. ~connected' /\ UNCHANGED <<inbox, scans, graph>>
    BY <1>2 DEF Disconnect
  <2> QED
    BY <2>1 DEF GraphOnItsWay, Published
<1>3. ASSUME NEW k \in 1..Len(inbox), Deliver(k) PROVE GraphOnItsWay'
  <2>1. UNCHANGED <<scans, graph>> /\ inbox[k] \in Messages /\ Shrank(inbox, inbox', k)
    BY <1>3, DeliverEffect
  <2>2. \A j \in 1..Len(inbox') : \E i \in 1..Len(inbox) : inbox'[j] = inbox[i]
    <3>1. \A j \in 1..Len(inbox') :
             IF j < k THEN j \in 1..Len(inbox) /\ inbox'[j] = inbox[j]
                      ELSE j + 1 \in 1..Len(inbox) /\ inbox'[j] = inbox[j + 1]
      BY <2>1 DEF Shrank
    <3> QED
      BY <3>1
  <2>3. CASE inbox[k].kind = "CONNECTED"
    <3>1. shown' = inbox[k].server
      BY <1>3, <2>3 DEF Deliver, ReceiveStatus, ReceiveRejection, ReceiveChanges
    <3> QED
      BY <2>1, <2>2, <2>3, <3>1 DEF GraphOnItsWay, Published
  <2>4. CASE inbox[k].kind # "CONNECTED"
    <3>1. connected' = connected /\ shown' = shown
      BY <1>3, <2>4 DEF Deliver, ReceiveStatus, ReceiveRejection, ReceiveChanges,
         HasSuccessfulGraph, TypeOK
    <3>2. ASSUME NEW i \in 1..Len(inbox), i # k
          PROVE  \E j \in 1..Len(inbox') : inbox'[j] = inbox[i]
      <4>1. CASE i < k
        BY <2>1, <4>1 DEF Shrank
      <4>2. CASE i > k
        <5>1. i - 1 \in 1..Len(inbox') /\ inbox'[i - 1] = inbox[i]
          BY <2>1, <4>2 DEF Shrank
        <5> QED
          BY <5>1
      <4> QED
        BY <3>2, <4>1, <4>2
    <3> QED
      BY <2>1, <2>2, <2>4, <3>1, <3>2, ZenonT(30) DEF GraphOnItsWay, Published
  <2> QED
    BY <2>3, <2>4
<1>4. CASE HandleScan
  <2>1. UNCHANGED <<connected, shown, graph>>
    BY <1>4, ScanRequestEffect
  <2>2. /\ \A n \in 1..Len(scans') :
              Published(n)' => n \in 1..Len(scans) /\ scans'[n] = scans[n]
        /\ \A n \in 1..Len(scans) : n \in 1..Len(scans') /\ scans'[n] = scans[n]
    <3>1. \/ scans' = scans
          \/ Grew(scans, scans', [pc |-> "submitted", server |-> requests[1].server,
                                  epoch |-> epoch, cancelled |-> FALSE])
      BY <1>4, ScanRequestEffect
    <3> QED
      BY <3>1 DEF Grew, Published
  <2>3. /\ \A j \in 1..Len(inbox') :
              inbox'[j].kind = "CONNECTED" => j \in 1..Len(inbox) /\ inbox'[j] = inbox[j]
        /\ \A j \in 1..Len(inbox) : j \in 1..Len(inbox') /\ inbox'[j] = inbox[j]
    <3>1. inbox' = inbox \/ \E m \in Messages : m.kind = "rejected" /\ Grew(inbox, inbox', m)
      BY <1>4, ScanRequestEffect
    <3> QED
      BY <3>1 DEF Grew
  <2> QED
    BY <2>1, <2>2, <2>3 DEF GraphOnItsWay, Published
<1>5. CASE HandleChanges \/ HandleCompare \/ ReplyCompare
  <2>1. UNCHANGED <<connected, shown, scans, graph>>
    BY <1>5, HistoryEffect DEF page
  <2>2. /\ \A j \in 1..Len(inbox') :
              inbox'[j].kind # "changes" => j \in 1..Len(inbox) /\ inbox'[j] = inbox[j]
        /\ \A j \in 1..Len(inbox) : j \in 1..Len(inbox') /\ inbox'[j] = inbox[j]
    BY <1>5, HistoryQueues
  <2> QED
    BY <2>1, <2>2 DEF GraphOnItsWay, Published
<1>6. ASSUME NEW n \in 1..Len(scans), Scanner(n) PROVE GraphOnItsWay'
  <2>1. /\ UNCHANGED <<connected, shown>> /\ Len(scans') = Len(scans)
        /\ \A k \in 1..Len(scans) : /\ k # n => scans'[k] = scans[k]
                                    /\ scans'[k].server = scans[k].server
    BY <1>6, ScannerEffect
  <2>2. \A k \in 1..Len(scans) : k # n => (Published(k)' <=> Published(k))
    BY <2>1 DEF Published
  <2>3. CASE inbox' = inbox /\ graph' = graph /\ (Published(n)' <=> Published(n))
    <3>1. \A k \in 1..Len(scans) : Published(k)' <=> Published(k)
      BY <2>2, <2>3
    <3> QED
      BY <2>1, <2>3, <3>1 DEF GraphOnItsWay
  <2>4. CASE inbox' = inbox /\ graph' = scans[n].server /\ Running(n) /\ Published(n)'
    <3>1. \A k \in 1..Len(scans) : Published(k)' => k = n
      BY <2>2, <2>4, NotRunning DEF OneToken, OthersEnding
    <3>2. \A j \in 1..Len(inbox') : inbox'[j].kind # "CONNECTED"
      BY <2>4 DEF OneToken, RunsUnended, Ends
    <3> QED
      BY <2>1, <2>4, <3>1, <3>2 DEF GraphOnItsWay
  <2>5. ASSUME graph' = graph, Published(n)' <=> Published(n),
               NEW m, m.kind # "CONNECTED", Grew(inbox, inbox', m)
        PROVE  GraphOnItsWay'
    <3>1. \A k \in 1..Len(scans) : Published(k)' <=> Published(k)
      BY <2>2, <2>5
    <3>2. /\ \A j \in 1..Len(inbox') :
                inbox'[j].kind = "CONNECTED" => j \in 1..Len(inbox) /\ inbox'[j] = inbox[j]
          /\ \A j \in 1..Len(inbox) : j \in 1..Len(inbox') /\ inbox'[j] = inbox[j]
      BY <2>5 DEF Grew
    <3> QED
      BY <2>1, <2>5, <3>1, <3>2 DEF GraphOnItsWay
  <2>6. ASSUME graph' = graph, Published(n), ~Published(n)',
               NEW m, m.kind = "CONNECTED", m.server = scans[n].server, Grew(inbox, inbox', m)
        PROVE  GraphOnItsWay'
    <3>1. /\ \A k \in 1..Len(scans) : Published(k)' => Published(k)
          /\ m.server = graph
      BY <2>2, <2>6 DEF GraphOnItsWay
    <3>2. \A j \in 1..Len(inbox) : inbox[j].kind = "CONNECTED" => inbox[j].server = graph
      BY DEF GraphOnItsWay
    <3>3. \A j \in 1..Len(inbox') : inbox'[j].kind = "CONNECTED" => inbox'[j].server = graph
      BY <2>6, <3>1, <3>2 DEF Grew
    <3>4. \E j \in 1..Len(inbox') : inbox'[j].kind = "CONNECTED"
      BY <2>6 DEF Grew
    <3> QED
      BY <2>1, <2>6, <3>1, <3>3, <3>4 DEF GraphOnItsWay
  <2>7. \/ inbox' = inbox /\ graph' = graph /\ (Published(n)' <=> Published(n))
        \/ inbox' = inbox /\ graph' = scans[n].server /\ Running(n) /\ Published(n)'
        \/ /\ graph' = graph /\ (Published(n)' <=> Published(n))
           /\ Says(n, {"CONNECTING", "SCANNING"}) \/ Says(n, {"ERROR"})
        \/ graph' = graph /\ Published(n) /\ ~Published(n)' /\ Says(n, {"CONNECTED"})
    BY <1>6, ScannerEffect
  <2>8. CASE /\ graph' = graph /\ (Published(n)' <=> Published(n))
             /\ Says(n, {"CONNECTING", "SCANNING"}) \/ Says(n, {"ERROR"})
    <3>1. \E m : m.kind # "CONNECTED" /\ Grew(inbox, inbox', m)
      BY <2>8, SaidOne
    <3> QED
      BY <2>5, <2>8, <3>1
  <2>9. CASE graph' = graph /\ Published(n) /\ ~Published(n)' /\ Says(n, {"CONNECTED"})
    <3>1. \E m : m.kind = "CONNECTED" /\ m.server = scans[n].server /\ Grew(inbox, inbox', m)
      BY <2>9, SaidOne
    <3> QED
      BY <2>6, <2>9, <3>1
  <2> QED
    BY <2>3, <2>4, <2>7, <2>8, <2>9
<1>7. CASE DisposeCoordinator
  <2>1. UNCHANGED <<connected, shown, inbox, graph>> /\ Len(scans') = Len(scans)
    BY <1>7, DisposeEffect
  <2>2. \A n \in 1..Len(scans) :
           (Published(n)' <=> Published(n)) /\ scans'[n].server = scans[n].server
    BY <1>7, DisposeEffect DEF Published
  <2> QED
    BY <2>1, <2>2 DEF GraphOnItsWay
<1>8. ~DisposeBrowser
  BY DEF DisposeBrowser
<1>9. (\E s \in Servers : RequestScan(s)) \/ RejectForm \/ OpenChanges \/ CompareSnapshots
        \/ UNCHANGED vars
      => UNCHANGED <<connected, shown, inbox, scans, graph>>
  BY DEF RequestScan, RejectForm, OpenChanges, CompareSnapshots, vars
<1> QED
  BY <1>1, <1>2, <1>3, <1>4, <1>5, <1>6, <1>7, <1>8, <1>9 DEF Next, User, Handler

(***************************************************************************)
(* The theorems.                                                           *)
(***************************************************************************)
LEMMA SessionInit == Init => SessionIInv
<1> SUFFICES ASSUME Init PROVE SessionIInv
  OBVIOUS
<1> USE DEF Init
<1>1. Len(requests) = 0 /\ Len(inbox) = 0 /\ Len(scans) = 0
  OBVIOUS
<1>2. TypeOK
  <2>1. requests \in Seq(Requests) /\ inbox \in Seq(Messages) /\ scans \in Seq(Scans)
    BY EmptySeq
  <2>2. asked \in 0..MaxScans /\ calls \in 0..MaxCalls /\ epoch \in Epochs
    BY BoundsAssumption DEF Epochs
  <2> QED
    BY <2>1, <2>2 DEF TypeOK, ScanStates
<1>3. ~Owed /\ OneToken /\ OthersDone
  BY <1>1 DEF Owed, OneToken, OneRequest, OthersEnding, AskedAlone, RunsUnended, EndsLast,
     OthersDone
<1>4. WhileOwed /\ OwnEpoch /\ GraphOnItsWay
  BY <1>1, <1>3 DEF WhileOwed, OwnEpoch, GraphOnItsWay
<1> QED
  BY <1>2, <1>3, <1>4 DEF SessionIInv

\* The token of a scan (its request, its thread, its events) stays in one place,
\* the page waits for it, and a published graph is on its way to the page: the
\* inductive invariant of the window holds for any number of servers, scans and
\* calls and on either thread model.
THEOREM SessionCorrect == Spec => []SessionIInv
<1>1. SessionIInv /\ [Next]_vars => SessionIInv'
  BY TypeStep, TokenStep, OthersStep, WaitingStep, EpochStep, GraphStep DEF SessionIInv
<1> QED
  BY SessionInit, <1>1, PTL DEF Spec

\* The coordinator never runs two scans in an open window: start() accepts a
\* request only when the Future of the last one is done, and until disposal no
\* Future is cancelled, so that done means that the thread is over.
THEOREM OneScan == Spec => []SessionInv
<1>1. SessionIInv => SessionInv
  <2> SUFFICES ASSUME SessionIInv, window = "open", NEW n \in 1..Len(scans),
                      scans[n].pc \in Alive
               PROVE  n = Len(scans)
    BY DEF SessionIInv, SessionInv, OneScanAtATime
  <2> QED
    BY DEF SessionIInv, OthersDone, Alive, Ended
<1> QED
  BY <1>1, SessionCorrect, PTL

\* Disconnect and the next scan are held back for as long as anything of the last
\* scan can still reach the page.
THEOREM WaitsForItsScan == Spec => []ActiveWhileOwed
<1>1. SessionIInv => ActiveWhileOwed
  BY DEF SessionIInv, WhileOwed, ActiveWhileOwed
<1> QED
  BY <1>1, SessionCorrect, PTL

\* When nothing is under way, the page shows the graph that the coordinator
\* answers with, even after scans that failed once they had published theirs.
THEOREM SameGraph == Spec => []GraphAgreement
<1>1. SessionIInv => GraphAgreement
  <2> SUFFICES ASSUME SessionIInv, window = "open", connected, ~Owed
               PROVE  shown = graph
    BY DEF GraphAgreement
  <2>1. /\ \A n \in 1..Len(scans) : ~Published(n)
        /\ \A i \in 1..Len(inbox) : inbox[i].kind # "CONNECTED"
    BY OwedIs, NotRunning, Kinds DEF SessionIInv
  <2> QED
    BY <2>1 DEF SessionIInv, GraphOnItsWay
<1> QED
  BY <1>1, SessionCorrect, PTL

\* A disconnected page is connected again only by the event of a scan that was
\* asked for after the Disconnect: no late event brings the old graph back.
THEOREM NoLateGraph == Spec => NoRepopulation
<1>1. SessionIInv /\ [Next]_vars =>
        [window = "open" /\ ~connected /\ connected' =>
           \E i \in 1..Len(inbox) : inbox[i].kind = "CONNECTED" /\ inbox[i].epoch = epoch]_vars
  <2> SUFFICES ASSUME SessionIInv, [Next]_vars, window = "open", ~connected, connected'
               PROVE  \E i \in 1..Len(inbox) : inbox[i].kind = "CONNECTED" /\ inbox[i].epoch = epoch
    OBVIOUS
  <2> USE DEF page, bounds, plugin
  <2>1. PICK i \in 1..Len(inbox) : Deliver(i)
    <3>1. User \/ Handler \/ UNCHANGED vars => ~connected'
      BY DEF User, RequestScan, RejectForm, OpenChanges, CompareSnapshots, Disconnect,
         DisposeCoordinator, DisposeBrowser, Handler, HandleScan, HandleChanges, HandleCompare,
         ReplyCompare, vars
    <3>2. \A n \in 1..Len(scans) : Scanner(n) => ~connected'
      BY ScannerEffect DEF SessionIInv
    <3> QED
      BY <3>1, <3>2 DEF Next
  <2>2. inbox[i].kind = "CONNECTED"
    BY <2>1 DEF Deliver, ReceiveStatus, ReceiveRejection, ReceiveChanges, HasSuccessfulGraph
  <2>3. inbox[i].epoch = epoch
    BY <2>2, Kinds DEF SessionIInv, OwnEpoch
  <2> QED
    BY <2>2, <2>3
<1> QED
  BY <1>1, SessionCorrect, PTL DEF Spec, NoRepopulation
=============================================================================
