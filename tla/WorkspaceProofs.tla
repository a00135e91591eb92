---------------------------- MODULE WorkspaceProofs ----------------------------
(***************************************************************************)
(* What a user sees of any scans, whatever is clicked and whenever a scan  *)
(* ends.                                                                   *)
(***************************************************************************)
EXTENDS Workspace, GraphTheorems

\* The resources of a scanned graph have the types that the pages know.
LEMMA KnownTypes ==
  ASSUME NEW s \in DOMAIN Scans
  PROVE  \A id \in Ids(Graphs[s]) : type(id) \in NodeTypes \ {"DIRECTORY"}
PROOF
<1> DEFINE d == Scans[s]
<1>1. Ids(Graphs[s]) \subseteq HostIds(d.systemd.services, d.listeners.items)
                               \cup DockerIds(d.containers) \cup CaddyIds(d.caddy.instances)
  BY GraphIdsAre DEF Graphs, Ids
<1>2. \A id \in HostIds(d.systemd.services, d.listeners.items) :
        type(id) \in {"SERVER", "DOCKER_ENGINE", "SYSTEMD_SERVICE", "HOST_LISTENER"}
  BY TypesAre DEF HostIds
<1>3. \A id \in DockerIds(d.containers) :
        type(id) \in {"DOCKER_COMPOSE_PROJECT", "DOCKER_CONTAINER", "PORT", "MOUNT", "NETWORK"}
  BY TypesAre DEF DockerIds
<1>4. \A id \in CaddyIds(d.caddy.instances) : type(id) \in {"REVERSE_PROXY", "UPSTREAM", "DOMAIN"}
  BY TypesAre DEF CaddyIds, UpstreamsOf
<1> HIDE DEF d
<1> QED
  BY <1>1, <1>2, <1>3, <1>4 DEF NodeTypes

LEMMA ServerIsThere ==
  ASSUME NEW s \in DOMAIN Scans
  PROVE  serverId \in Ids(Graphs[s]) /\ type(serverId) = "SERVER"
BY GraphIdsAre, TypesAre DEF Graphs, Ids, HostIds

(***************************************************************************)
(* A click.                                                                *)
(***************************************************************************)
PageState ==
  [graph : DOMAIN Scans \cup {None}, connected : BOOLEAN, active : BOOLEAN, section : PrimarySections,
   subsection : NetworkSubsections \cup {None}, selectedId : AllIds \cup {None}, change : BOOLEAN,
   topology : BOOLEAN, focus : AllIds \cup {None}]

\* What each of the handlers makes of a state u when a click meets the drawing of r.
Clicked(r, u, v) ==
  \/ /\ v.section # "CHANGES" /\ ~v.topology /\ v.focus = None
  \/ v.section = "CHANGES" /\ ~v.topology /\ v.focus = None /\ v.selectedId = None /\ ~v.change
  \/ v.section \in {"SERVICES", "STORAGE"} /\ v.topology = u.topology /\ v.focus = u.focus
  \/ /\ ShowsTopology(r) /\ v.section = "APPLICATIONS" /\ v.selectedId \in Ids(Topology(r))
     /\ v.topology = u.topology /\ v.focus = u.focus
  \/ v.section = u.section /\ v.selectedId = u.selectedId /\ v.change = u.change /\ ~v.topology /\ v.focus = None
  \/ /\ r.section = "APPLICATIONS" /\ ~ShowsTopology(r)
     /\ v = [u EXCEPT !.topology = TRUE]
  \/ /\ r.selectedId \in Ids(Graphs[r.graph]) /\ type(r.selectedId) \in CanShowTopology
     /\ v = revealTopology(u, r.selectedId)
  \/ r.section = "CHANGES" /\ v = [u EXCEPT !.change = TRUE, !.selectedId = None]
  \/ r.section = "CHANGES" /\ v = [u EXCEPT !.change = FALSE]

\* The page is one state, whatever was clicked.
SamePage(u, v) ==
  v \in PageState /\ v.graph = u.graph /\ v.connected = u.connected /\ v.active = u.active

LEMMA TypesHaveNoPageOfChanges ==
  \A t : /\ pageFor(t) \in PrimarySections \ {"CHANGES"}
         /\ networkSubsectionFor(t) \in NetworkSubsections \cup {None}
BY DEF pageFor, networkSubsectionFor, PrimarySections, NetworkSubsections

LEMMA GraphIdsKnown ==
  ASSUME NEW s \in DOMAIN Scans, NEW id \in Ids(Graphs[s])
  PROVE  id \in AllIds /\ id # None
BY NoneAssumption DEF AllIds

LEMMA DrawnIsKnown ==
  ASSUME NEW s \in DOMAIN Scans, NEW u, u.graph = s
  PROVE  Ids(Topology(u)) \subseteq Ids(Graphs[s])
BY DEF Topology, deriveVisibleGraph, Visible, Ids

LEMMA ClickIs ==
  ASSUME NEW r \in PageState, r.graph # None, NEW u \in PageState, NEW v \in Clicks(r, u)
  PROVE  SamePage(u, v) /\ Clicked(r, u, v)
PROOF
<1> DEFINE graph == Graphs[r.graph]
<1>0. r.graph \in DOMAIN Scans
  BY DEF PageState
<1>1. \A id \in Ids(graph) : id \in AllIds
  BY <1>0, GraphIdsKnown
<1>2. \A n \in graph.nodes : n.id \in Ids(graph)
  BY DEF Ids
<1>3. \A id \in Ids(graph) : SamePage(u, selectResource(u, id)) /\ Clicked(r, u, selectResource(u, id))
  <2> SUFFICES ASSUME NEW id \in Ids(graph)
               PROVE  SamePage(u, selectResource(u, id)) /\ Clicked(r, u, selectResource(u, id))
    OBVIOUS
  <2>1. PICK section : section = pageFor(type(id))
    OBVIOUS
  <2>2. PICK subsection : subsection = networkSubsectionFor(type(id))
    OBVIOUS
  <2>3. selectResource(u, id) =
          [u EXCEPT !.change = FALSE, !.selectedId = id, !.section = section,
                    !.subsection = subsection, !.topology = FALSE, !.focus = None]
    BY <2>1, <2>2 DEF selectResource
  <2>4. section \in PrimarySections \ {"CHANGES"} /\ subsection \in NetworkSubsections \cup {None}
    BY <2>1, <2>2, TypesHaveNoPageOfChanges
  <2> HIDE DEF graph
  <2> QED
    BY <1>1, <2>3, <2>4 DEF SamePage, Clicked, PageState
<1>4. CASE v \in SelectResource(r, u)
  BY <1>3, <1>4 DEF SelectResource
<1>5. CASE v \in Navigate(r, u)
  <2>1. CASE v = openChanges(u)
    BY <2>1 DEF openChanges, SamePage, Clicked, PageState, PrimarySections
  <2>2. CASE \E name \in PrimarySections \ {"CHANGES"} : v = navigate(u, name)
    <3>1. PICK name \in PrimarySections \ {"CHANGES"} : v = navigate(u, name)
      BY <2>2
    <3>2. v.section # "CHANGES" /\ ~v.topology /\ v.focus = None
      BY <3>1 DEF navigate, PageState
    <3>3. SamePage(u, v)
      BY <3>1 DEF navigate, SamePage, PageState
    <3> QED
      BY <3>2, <3>3 DEF Clicked
  <2> QED
    BY <1>5, <2>1, <2>2 DEF Navigate
<1>6. CASE v \in OpenList(r, u)
  <2> DEFINE Of(subsection) == {n.id : n \in {x \in graph.nodes : networkSubsectionFor(type(x.id)) = subsection}}
             First(t) == FirstOf({n.id : n \in OfType(graph, t)})
  <2>1. \A t : First(t) \subseteq Ids(graph) \cup {None}
    BY <1>2 DEF FirstOf, OfType
  <2>2. \A s : FirstOf(Of(s)) \subseteq Ids(graph) \cup {None}
    BY <1>2 DEF FirstOf
  <2>3. \/ \E s \in NetworkSubsections : \E id \in FirstOf(Of(s)) : v = openNetworkSubsection(u, s, id)
        \/ \E id \in First("SYSTEMD_SERVICE") : v = [u EXCEPT !.section = "SERVICES", !.selectedId = id]
        \/ \E id \in First("MOUNT") :
             v = IF id = None THEN [u EXCEPT !.section = "STORAGE"] ELSE selectResource(u, id)
    <3>1. OpenList(r, u) =
            (UNION {{openNetworkSubsection(u, s, id) : id \in FirstOf(Of(s))} : s \in NetworkSubsections})
            \cup {[u EXCEPT !.section = "SERVICES", !.selectedId = id] : id \in First("SYSTEMD_SERVICE")}
            \cup {IF id = None THEN [u EXCEPT !.section = "STORAGE"] ELSE selectResource(u, id) : id \in First("MOUNT")}
      BY DEF OpenList
    <3> HIDE DEF Of, First, graph
    <3>2. CASE v \in UNION {{openNetworkSubsection(u, s, id) : id \in FirstOf(Of(s))} : s \in NetworkSubsections}
      <4>1. PICK s \in NetworkSubsections : v \in {openNetworkSubsection(u, s, id) : id \in FirstOf(Of(s))}
        BY <3>2
      <4> QED
        BY <4>1
    <3>3. CASE v \in {[u EXCEPT !.section = "SERVICES", !.selectedId = id] : id \in First("SYSTEMD_SERVICE")}
      BY <3>3
    <3>4. CASE v \in {IF id = None THEN [u EXCEPT !.section = "STORAGE"] ELSE selectResource(u, id) : id \in First("MOUNT")}
      BY <3>4, Zenon
    <3> QED
      BY <1>6, <3>1, <3>2, <3>3, <3>4, Zenon
  <2> HIDE DEF Of, First, graph
  <2>4. CASE \E s \in NetworkSubsections : \E id \in FirstOf(Of(s)) : v = openNetworkSubsection(u, s, id)
    <3>1. PICK s \in NetworkSubsections : \E id \in FirstOf(Of(s)) : v = openNetworkSubsection(u, s, id)
      BY <2>4
    <3>2. PICK id \in AllIds \cup {None} : v = openNetworkSubsection(u, s, id)
      BY <1>1, <2>2, <3>1
    <3> QED
      BY <3>1, <3>2 DEF openNetworkSubsection, SamePage, Clicked, PageState, PrimarySections
  <2>5. CASE \E id \in First("SYSTEMD_SERVICE") : v = [u EXCEPT !.section = "SERVICES", !.selectedId = id]
    <3>1. PICK id \in AllIds \cup {None} : v = [u EXCEPT !.section = "SERVICES", !.selectedId = id]
      BY <1>1, <2>1, <2>5
    <3> QED
      BY <3>1 DEF SamePage, Clicked, PageState, PrimarySections
  <2>6. CASE \E id \in First("MOUNT") :
               v = IF id = None THEN [u EXCEPT !.section = "STORAGE"] ELSE selectResource(u, id)
    <3>1. CASE v = [u EXCEPT !.section = "STORAGE"]
      BY <3>1 DEF SamePage, Clicked, PageState, PrimarySections
    <3>2. CASE \E id \in Ids(graph) : v = selectResource(u, id)
      BY <1>3, <3>2
    <3> QED
      BY <2>1, <2>6, <3>1, <3>2
  <2> QED
    BY <2>3, <2>4, <2>5, <2>6
<1>7. CASE v \in UseTopology(r, u)
  <2>1. \/ ShowsTopology(r) /\ \E id \in Ids(Topology(r)) : v = selectTopologyResource(u, id)
        \/ v = [u EXCEPT !.topology = FALSE, !.focus = None]
        \/ r.section = "APPLICATIONS" /\ ~ShowsTopology(r) /\ v = [u EXCEPT !.topology = TRUE]
        \/ r.selectedId \in Ids(graph) /\ type(r.selectedId) \in CanShowTopology /\ v = revealTopology(u, r.selectedId)
    BY <1>7 DEF UseTopology, Ids
  <2>2. CASE ShowsTopology(r) /\ \E id \in Ids(Topology(r)) : v = selectTopologyResource(u, id)
    <3>1. PICK id \in Ids(Topology(r)) : v = selectTopologyResource(u, id)
      BY <2>2
    <3>2. id \in AllIds
      BY <1>0, <1>1, DrawnIsKnown
    <3> QED
      BY <2>2, <3>1, <3>2 DEF selectTopologyResource, SamePage, Clicked, PageState, PrimarySections
  <2>3. CASE v = [u EXCEPT !.topology = FALSE, !.focus = None]
    BY <2>3 DEF SamePage, Clicked, PageState
  <2>4. CASE r.section = "APPLICATIONS" /\ ~ShowsTopology(r) /\ v = [u EXCEPT !.topology = TRUE]
    BY <2>4 DEF SamePage, Clicked, PageState
  <2>5. CASE r.selectedId \in Ids(graph) /\ type(r.selectedId) \in CanShowTopology
             /\ v = revealTopology(u, r.selectedId)
    <3>1. SamePage(u, v)
      BY <1>1, <2>5 DEF revealTopology, SamePage, PageState, PrimarySections
    <3> QED
      BY <2>5, <3>1 DEF Clicked
  <2> QED
    BY <2>1, <2>2, <2>3, <2>4, <2>5
<1>8. CASE v \in UseChanges(r, u)
  <2>1. r.section = "CHANGES"
    BY <1>8 DEF UseChanges
  <2>2. v = [u EXCEPT !.change = TRUE, !.selectedId = None] \/ v = [u EXCEPT !.change = FALSE]
    BY <1>8 DEF UseChanges
  <2>3. SamePage(u, v)
    BY <2>2 DEF SamePage, PageState
  <2> QED
    BY <2>1, <2>2, <2>3 DEF Clicked
<1> QED
  BY <1>4, <1>5, <1>6, <1>7, <1>8 DEF Clicks

(***************************************************************************)
(* The topology: the resources of its types, or the focused one with those *)
(* around it.                                                              *)
(***************************************************************************)
Drawable(graph) == {n \in graph.nodes : type(n.id) \in CanShowTopology}
Near(graph, focus) == {n \in Drawable(graph) : n.id \in {focus} \cup Neighbours(graph, focus)}

LEMMA DerivedIs ==
  ASSUME NEW graph, NEW focus
  PROVE  deriveVisibleGraph(graph, "OVERVIEW", {}, focus) =
           Visible(graph, IF \E n \in Drawable(graph) : n.id = focus THEN Near(graph, focus) ELSE Drawable(graph))
PROOF
<1> DEFINE hidden == Hidden(graph, {})
           shown == {n \in graph.nodes : type(n.id) \in viewTypes["OVERVIEW"] /\ n.id \notin hidden}
           nodes == {n \in shown : ~isOrphanedSecondary(n, Between(graph.edges, shown))}
<1>1. hidden = {}
  <2>1. (UNION {Targets(graph, "CONTAINS", p) : p \in {}}) = {}
    OBVIOUS
  <2> QED
    BY <2>1 DEF Hidden
<1>2. viewTypes["OVERVIEW"] = CanShowTopology
  BY DEF viewTypes, CanShowTopology
<1>3. shown = Drawable(graph)
  BY <1>1, <1>2 DEF Drawable
<1>4. nodes = Drawable(graph)
  BY <1>3 DEF isOrphanedSecondary, Drawable, CanShowTopology
<1>5. deriveVisibleGraph(graph, "OVERVIEW", {}, focus) =
        Visible(graph, IF HasFocus(nodes, focus) THEN {n \in nodes : n.id \in {focus} \cup Neighbours(graph, focus)}
                       ELSE nodes)
  BY DEF deriveVisibleGraph
<1> HIDE DEF nodes
<1> QED
  BY <1>4, <1>5 DEF HasFocus, Near

LEMMA TopologyIs ==
  ASSUME NEW u, u.graph \in DOMAIN Scans
  PROVE  /\ Topology(u).nodes # {}
         /\ \A id \in Ids(Graphs[u.graph]) :
              type(id) \in CanShowTopology /\ u.focus = id => id \in Ids(Topology(u))
         /\ \/ u.focus \in Ids(Topology(u))
            \/ Topology(u) = deriveVisibleGraph(Graphs[u.graph], "OVERVIEW", {}, None)
PROOF
<1> DEFINE graph == Graphs[u.graph]
<1>1. Topology(u) = Visible(graph, IF \E n \in Drawable(graph) : n.id = u.focus
                                   THEN Near(graph, u.focus) ELSE Drawable(graph))
  BY DerivedIs DEF Topology
<1>2. \A nodes : Visible(graph, nodes).nodes = nodes
  BY DEF Visible
<1>3. deriveVisibleGraph(graph, "OVERVIEW", {}, None) = Visible(graph, Drawable(graph))
  <2>1. ~\E n \in Drawable(graph) : n.id = None
    BY NoneAssumption DEF Drawable, Ids
  <2> QED
    BY <2>1, DerivedIs
<1>4. Drawable(graph) # {}
  <2>1. \E n \in graph.nodes : n.id = serverId
    BY ServerIsThere DEF Ids
  <2> QED
    BY <2>1, ServerIsThere DEF Drawable, CanShowTopology
<1>5. \A id \in Ids(graph) : type(id) \in CanShowTopology => \E n \in Drawable(graph) : n.id = id
  BY DEF Ids, Drawable
<1> HIDE DEF graph
<1>6. CASE \E n \in Drawable(graph) : n.id = u.focus
  <2>1. Topology(u).nodes = Near(graph, u.focus)
    BY <1>1, <1>2, <1>6
  <2>2. \E n \in Near(graph, u.focus) : n.id = u.focus
    BY <1>6 DEF Near
  <2> QED
    BY <2>1, <2>2 DEF Ids, graph
<1>7. CASE ~\E n \in Drawable(graph) : n.id = u.focus
  BY <1>1, <1>2, <1>3, <1>4, <1>5, <1>7 DEF graph
<1> QED
  BY <1>6, <1>7

(***************************************************************************)
(* The inductive invariant.  A topology that is open around a focus shows  *)
(* what is selected: the selection comes from the canvas or is the focus,  *)
(* and a late click that leaves a focus of the graph before leaves none    *)
(* selected.  Where no topology is open there is no focus.                 *)
(***************************************************************************)
WorkspaceIInv ==
  /\ ui \in PageState
  /\ ui.connected => ui.graph # None
  /\ ui.section = "CHANGES" => ui.selectedId = None
  /\ ui.focus # None => ui.topology
  /\ ui.connected /\ ui.focus # None /\ ui.section = "APPLICATIONS" =>
       ui.selectedId \in {None} \cup Ids(Topology(ui))

LEMMA WorkspaceInit == Init => WorkspaceIInv
BY DEF Init, WorkspaceIInv, PageState, PrimarySections

LEMMA ReceivedIs ==
  ASSUME NEW u \in PageState, NEW g \in DOMAIN Scans
  PROVE  /\ Received(u, g) \in PageState
         /\ Received(u, g).graph = g /\ Received(u, g).connected /\ Received(u, g).selectedId = None
         /\ Received(u, g).section = "OVERVIEW" /\ Received(u, g).focus = None
BY ScansAssumption DEF Received, PageState, PrimarySections

LEMMA WorkspaceStep == WorkspaceIInv /\ [Next]_ui => WorkspaceIInv'
PROOF
<1> SUFFICES ASSUME WorkspaceIInv, [Next]_ui PROVE WorkspaceIInv'
  OBVIOUS
<1>1. CASE Click
  <2>1. PICK v \in Clicks(ui, ui) : ui' = v
    BY <1>1 DEF Click
  <2>2. ui.connected /\ ui.graph # None /\ ui \in PageState
    BY <1>1 DEF Click, WorkspaceIInv
  <2>3. SamePage(ui, v) /\ Clicked(ui, ui, v)
    BY <2>2, ClickIs
  <2>4. v.graph \in DOMAIN Scans
    BY <2>2, <2>3 DEF SamePage, PageState
  <2>5. v.focus = ui.focus => Topology(v) = Topology(ui)
    BY <2>3 DEF SamePage, Topology
  <2>6. v.section = "CHANGES" => v.selectedId = None
    <3>1. v = revealTopology(ui, ui.selectedId) => v.section = "APPLICATIONS"
      BY <2>2 DEF revealTopology, PageState
    <3>2. v = [ui EXCEPT !.topology = TRUE] \/ v = [ui EXCEPT !.change = FALSE]
          => v.section = ui.section /\ v.selectedId = ui.selectedId
      BY <2>2 DEF PageState
    <3>3. v = [ui EXCEPT !.change = TRUE, !.selectedId = None] => v.selectedId = None
      BY <2>2 DEF PageState
    <3>4. ui.section = "CHANGES" => ui.selectedId = None
      BY DEF WorkspaceIInv
    <3> QED
      BY <2>3, <3>1, <3>2, <3>3, <3>4 DEF Clicked
  <2>7. v.focus # None => v.topology
    BY <2>2, <2>3 DEF Clicked, WorkspaceIInv, revealTopology, PageState
  <2>8. ASSUME v.focus # None, v.section = "APPLICATIONS"
        PROVE  v.selectedId \in {None} \cup Ids(Topology(v))
    <3>1. CASE ShowsTopology(ui) /\ v.selectedId \in Ids(Topology(ui)) /\ v.focus = ui.focus
      BY <2>5, <3>1
    <3>2. CASE ui.selectedId \in Ids(Graphs[ui.graph]) /\ type(ui.selectedId) \in CanShowTopology
               /\ v = revealTopology(ui, ui.selectedId)
      <4>1. v.focus = ui.selectedId /\ v.selectedId = ui.selectedId /\ v.graph = ui.graph
        BY <2>2, <3>2 DEF revealTopology, PageState
      <4> QED
        BY <2>4, <3>2, <4>1, TopologyIs
    <3>3. CASE ui.section = "APPLICATIONS" /\ ~ShowsTopology(ui) /\ v = [ui EXCEPT !.topology = TRUE]
      <4>1. ui.focus = None
        BY <2>2, <3>3 DEF ShowsTopology, WorkspaceIInv
      <4> QED
        BY <2>2, <2>8, <3>3, <4>1 DEF PageState
    <3> QED
      BY <2>2, <2>3, <2>8, <3>1, <3>2, <3>3 DEF Clicked, PageState
  <2> QED
    BY <2>1, <2>2, <2>3, <2>6, <2>7, <2>8 DEF WorkspaceIInv, SamePage
<1>2. CASE RequestScan \/ ScanFails
  <2>1. PICK active \in BOOLEAN : ui' = [ui EXCEPT !.active = active]
    BY <1>2 DEF RequestScan, ScanFails
  <2>2. ui' \in PageState
    BY <2>1 DEF WorkspaceIInv, PageState
  <2>3. /\ ui'.graph = ui.graph /\ ui'.connected = ui.connected /\ ui'.section = ui.section
        /\ ui'.selectedId = ui.selectedId /\ ui'.topology = ui.topology /\ ui'.focus = ui.focus
    BY <2>1 DEF WorkspaceIInv, PageState
  <2>4. Topology(ui') = Topology(ui)
    BY <2>3 DEF Topology
  <2> QED
    BY <2>2, <2>3, <2>4 DEF WorkspaceIInv
<1>3. CASE Receive
  <2>1. PICK g \in DOMAIN Scans : ui' = Received(ui, g)
    BY <1>3 DEF Receive
  <2>2. ui' \in PageState /\ ui'.graph = g /\ ui'.section = "OVERVIEW" /\ ui'.focus = None
    BY <2>1, ReceivedIs DEF WorkspaceIInv
  <2> QED
    BY <2>2, ScansAssumption DEF WorkspaceIInv
<1>4. CASE LateClick
  <2>1. PICK g \in DOMAIN Scans : ui' \in Clicks(ui, Received(ui, g))
    BY <1>4 DEF LateClick
  <2>2. PICK u : u = Received(ui, g)
    OBVIOUS
  <2>3. /\ u \in PageState /\ u.graph = g /\ u.connected /\ u.selectedId = None
        /\ u.section = "OVERVIEW" /\ u.focus = None
    BY <2>2, ReceivedIs DEF WorkspaceIInv
  <2>4. PICK v \in Clicks(ui, u) : ui' = v
    BY <2>1, <2>2
  <2>5. ui \in PageState /\ ui.graph # None
    BY <1>4 DEF LateClick, WorkspaceIInv
  <2>6. SamePage(u, v) /\ Clicked(ui, u, v)
    BY <2>3, <2>5, ClickIs
  <2>7. v.section = "CHANGES" => v.selectedId = None
    BY <2>3, <2>6 DEF Clicked, revealTopology, PageState
  <2>8. v.focus # None => v.topology /\ v.selectedId = None
    BY <2>3, <2>6 DEF Clicked, revealTopology, PageState
  <2> QED
    BY <2>3, <2>4, <2>6, <2>7, <2>8, ScansAssumption DEF WorkspaceIInv, SamePage
<1>5. CASE Disconnect
  <2>1. /\ ui' \in PageState /\ ~ui'.connected /\ ui'.section = "OVERVIEW" /\ ui'.focus = None
    BY <1>5 DEF Disconnect, WorkspaceIInv, PageState, PrimarySections
  <2> QED
    BY <2>1 DEF WorkspaceIInv
<1>6. CASE UNCHANGED ui
  BY <1>6 DEF WorkspaceIInv, Topology
<1> QED
  BY <1>1, <1>2, <1>3, <1>4, <1>5, <1>6 DEF Next

\* The inductive invariant holds of every page.
THEOREM WorkspaceCorrect == Spec => []WorkspaceIInv
BY WorkspaceInit, WorkspaceStep, PTL DEF Spec

\* The state of the page stays what its handlers expect: a section that exists, a
\* resource of some scan, and a graph whenever it is connected.
THEOREM TypeCorrect == Spec => []TypeOK
PROOF
<1>1. WorkspaceIInv => TypeOK
  <2>1. \A id \in AllIds : type(id) \in NodeTypes
    BY KnownTypes DEF AllIds
  <2> QED
    BY <2>1 DEF WorkspaceIInv, PageState, TypeOK
<1> QED
  BY <1>1, WorkspaceCorrect, PTL

\* The topology never comes up empty, nor with all of it subdued around a focus,
\* whatever graphs the scans bring and whatever late click sets the focus.
THEOREM TopologyIsUsable == Spec => []TopologyUsable
PROOF
<1>1. WorkspaceIInv => TopologyUsable
  <2> SUFFICES ASSUME WorkspaceIInv, ShowsTopology(ui) PROVE TopologyUsable
    BY DEF TopologyUsable
  <2> DEFINE drawn == Topology(ui)
  <2>1. ui.connected /\ ui.section = "APPLICATIONS" /\ ui.graph \in DOMAIN Scans
    BY DEF ShowsTopology, WorkspaceIInv, PageState
  <2>2. /\ drawn.nodes # {}
        /\ \/ ui.focus \in Ids(drawn)
           \/ drawn = deriveVisibleGraph(Graphs[ui.graph], "OVERVIEW", {}, None)
    BY <2>1, TopologyIs
  <2>3. ASSUME ui.focus # None PROVE toFlowGraph(drawn, "OVERVIEW", ui.selectedId).subdued # Ids(drawn)
    <3>1. ui.selectedId \in {None} \cup Ids(drawn)
      BY <2>1, <2>3 DEF WorkspaceIInv
    <3> HIDE DEF drawn
    <3>2. toFlowGraph(drawn, "OVERVIEW", ui.selectedId).subdued =
            IF ui.selectedId = None THEN {}
            ELSE {n.id : n \in drawn.nodes} \ ({ui.selectedId} \cup Neighbours(drawn, ui.selectedId))
      BY DEF toFlowGraph
    <3> QED
      BY <2>2, <3>1, <3>2 DEF Ids
  <2> QED
    BY <2>2, <2>3 DEF TopologyUsable
<1> QED
  BY <1>1, WorkspaceCorrect, PTL

\* The changes open without a selected resource and without the change that was
\* inspected last, however one gets there.
THEOREM ChangesOpenClean == Spec => ChangesOpensClean
PROOF
<1>1. WorkspaceIInv /\ WorkspaceIInv' /\ [Next]_ui
      => [ui'.section = "CHANGES" => ui'.selectedId = None /\ (ui.section # "CHANGES" => ~ui'.change)]_ui
  <2> SUFFICES ASSUME WorkspaceIInv, WorkspaceIInv', Next, ui'.section = "CHANGES", ui.section # "CHANGES"
               PROVE  ~ui'.change
    BY DEF WorkspaceIInv
  <2>1. CASE Click
    <3>1. ui.graph # None /\ ui \in PageState /\ ui' \in Clicks(ui, ui)
      BY <2>1 DEF Click, WorkspaceIInv
    <3>2. Clicked(ui, ui, ui')
      BY <3>1, ClickIs
    <3> QED
      BY <3>1, <3>2 DEF Clicked, revealTopology, PageState
  <2>2. CASE LateClick
    <3>1. PICK g \in DOMAIN Scans : ui' \in Clicks(ui, Received(ui, g))
      BY <2>2 DEF LateClick
    <3>2. PICK u : u = Received(ui, g)
      OBVIOUS
    <3>3. u \in PageState /\ u.section = "OVERVIEW"
      BY <3>2, ReceivedIs DEF WorkspaceIInv
    <3>4. Clicked(ui, u, ui')
      BY <2>2, <3>1, <3>2, <3>3, ClickIs DEF WorkspaceIInv, LateClick
    <3> QED
      BY <3>3, <3>4 DEF Clicked, revealTopology, PageState
  <2> QED
    BY <2>1, <2>2 DEF Next, RequestScan, ScanFails, Receive, Received, Disconnect, WorkspaceIInv, PageState
<1> QED
  BY <1>1, WorkspaceCorrect, PTL DEF Spec, ChangesOpensClean

\* A topology that a scan left open comes back only to who asks for it: on the page
\* of the applications, or from the inspector of a resource.
THEOREM TopologyIsRequested == Spec => TopologyOnlyOnRequest
PROOF
<1>1. WorkspaceIInv /\ WorkspaceIInv' /\ [Next]_ui
      => [ShowsTopology(ui') /\ ~ShowsTopology(ui) =>
            ui'.focus # None \/ (ui.section = "APPLICATIONS" /\ ui'.selectedId = ui.selectedId)]_ui
  <2> SUFFICES ASSUME WorkspaceIInv, Next, ShowsTopology(ui'), ~ShowsTopology(ui)
               PROVE  ui'.focus # None \/ (ui.section = "APPLICATIONS" /\ ui'.selectedId = ui.selectedId)
    OBVIOUS
  <2>0. ui \in PageState /\ ui'.section = "APPLICATIONS" /\ ui'.topology
    BY DEF ShowsTopology, WorkspaceIInv
  <2>a. ASSUME NEW id \in Ids(Graphs[ui.graph]), ui.graph # None PROVE id # None
    BY <2>0, <2>a, GraphIdsKnown DEF PageState
  <2>1. CASE Click
    <3>1. ui.graph # None /\ ui' \in Clicks(ui, ui)
      BY <2>1 DEF Click, WorkspaceIInv
    <3>2. SamePage(ui, ui') /\ Clicked(ui, ui, ui')
      BY <2>0, <3>1, ClickIs
    <3> QED
      BY <2>0, <2>a, <3>1, <3>2 DEF Clicked, revealTopology, PageState, ShowsTopology, SamePage
  <2>2. CASE LateClick
    <3>1. PICK g \in DOMAIN Scans : ui' \in Clicks(ui, Received(ui, g))
      BY <2>2 DEF LateClick
    <3>2. PICK u : u = Received(ui, g)
      OBVIOUS
    <3>3. u \in PageState /\ u.section = "OVERVIEW"
      BY <3>2, ReceivedIs DEF WorkspaceIInv
    <3>4. ui.graph # None
      BY <2>2 DEF WorkspaceIInv, LateClick
    <3>5. Clicked(ui, u, ui')
      BY <2>0, <3>1, <3>2, <3>3, <3>4, ClickIs
    <3> QED
      BY <2>0, <2>a, <3>3, <3>4, <3>5 DEF Clicked, revealTopology, PageState
  <2>3. CASE Receive
    <3>1. PICK g \in DOMAIN Scans : ui' = Received(ui, g)
      BY <2>3 DEF Receive
    <3> QED
      BY <2>0, <3>1, ReceivedIs
  <2> QED
    BY <2>0, <2>1, <2>2, <2>3 DEF Next, RequestScan, ScanFails, Disconnect, PageState, ShowsTopology
<1> QED
  BY <1>1, WorkspaceCorrect, PTL DEF Spec, TopologyOnlyOnRequest
(***************************************************************************)
(* What the pages list of a scan.                                          *)
(***************************************************************************)
\* The assumptions about scans, for one of them.
WellFormed(d) ==
  /\ IsFiniteSet(d.containers) /\ IsFiniteSet(d.listeners.items)
  /\ \A c \in d.containers : IsFiniteSet(c.ports) /\ IsFiniteSet(c.networks) /\ IsFiniteSet(c.mounts)
  /\ \A c \in d.caddy.instances : \A r \in c.routes :
       r.upstreams \in Seq({r.upstreams[i] : i \in DOMAIN r.upstreams})
  /\ \A x, y \in d.containers : x.id = y.id => x = y
  /\ \A x, y \in d.systemd.services : x.unit = y.unit => x = y
  /\ \A x, y \in d.listeners.items : x.key = y.key => x = y
  /\ \A x, y \in d.caddy.instances : x.container = y.container => x = y

LEMMA ScansAre == \A s \in DOMAIN Scans : WellFormed(Scans[s]) /\ Graphs[s] = create(Scans[s])
                                          /\ Models[s] = resourceModel(create(Scans[s]))
BY ScansAssumption DEF WellFormed, Graphs, Models

LEMMA OneNodePerId ==
  ASSUME NEW d, WellFormed(d), NEW m \in create(d).nodes, NEW n \in create(d).nodes, m.id = n.id
  PROVE  m = n
BY NodesAreUnique DEF WellFormed

LEMMA ContainersAre ==
  ASSUME NEW d, NEW n \in OfType(create(d), "DOCKER_CONTAINER")
  PROVE  d.docker = "AVAILABLE" /\ \E c \in d.containers : n = ContainerNode(c) /\ n.id = containerId(c.id)
PROOF
<1>1. Named(d)
  BY IdsOf
<1>2. d.docker = "AVAILABLE" /\ \E c \in d.containers : n = ContainerNode(c)
  BY NodesAre DEF OfType
<1> QED
  BY <1>1, <1>2 DEF Named

LEMMA ProjectsAre ==
  ASSUME NEW d, NEW n \in OfType(create(d), "DOCKER_COMPOSE_PROJECT")
  PROVE  d.docker = "AVAILABLE" /\ \E p \in Projects(d) : n = ProjectNode(d, p) /\ n.id = projectId(p)
PROOF
<1>1. Named(d)
  BY IdsOf
<1>2. d.docker = "AVAILABLE" /\ \E p \in Projects(d) : n = ProjectNode(d, p)
  BY NodesAre DEF OfType
<1> QED
  BY <1>1, <1>2 DEF Named

\* The application of a project has the containers of that project.
LEMMA MembersAre ==
  ASSUME NEW d, WellFormed(d), d.docker = "AVAILABLE", NEW p \in Projects(d)
  PROVE  {n \in OfType(create(d), "DOCKER_CONTAINER") : parentByChild(create(d), n.id) = projectId(p)}
           = {ContainerNode(c) : c \in {x \in d.containers : x.project = p}}
PROOF
<1>0. Named(d) /\ p # None
  BY IdsOf DEF Projects
<1>1. \A c \in d.containers : parentByChild(create(d), containerId(c.id)) = projectId(p) <=> c.project = p
  <2>1. \A c \in d.containers : Parent(c) = projectId(p) <=> c.project = p
    <3>1. engineId # projectId(p)
      BY TypesAre
    <3> QED
      BY <1>0, <3>1, IdsAreInjective DEF Parent
  <2>2. \A c \in d.containers : parentByChild(create(d), containerId(c.id)) = Parent(c)
    BY ParentIs DEF WellFormed
  <2> QED
    BY <2>1, <2>2
<1>2. \A c \in d.containers : ContainerNode(c) \in OfType(create(d), "DOCKER_CONTAINER")
  BY <1>0, NodesAreThere, TypesAre DEF OfType, Named
<1>3. \A c \in d.containers : ContainerNode(c).id = containerId(c.id)
  BY <1>0 DEF Named
<1> QED
  BY <1>1, <1>2, <1>3, ContainersAre

LEMMA ContainerListedOnce ==
  ASSUME NEW d, WellFormed(d), NEW c \in OfType(create(d), "DOCKER_CONTAINER"),
         NEW model, model = resourceModel(create(d)),
         NEW apps, apps = {a \in model.applications : c \in a.containers}
  PROVE  /\ (c \in model.standaloneContainers <=> apps = {})
         /\ {a.project.label : a \in apps} = {c.metadata.compose_project} \ {None}
PROOF
<1>0. Named(d)
  BY IdsOf
<1>1. PICK x \in d.containers : c = ContainerNode(x) /\ c.id = containerId(x.id)
  BY ContainersAre
<1>2. d.docker = "AVAILABLE"
  BY ContainersAre
<1> DEFINE MembersOf(p) == {n \in OfType(create(d), "DOCKER_CONTAINER") : parentByChild(create(d), n.id) = p.id}
           App(p) == [project |-> p, containers |-> MembersOf(p), status |-> aggregateStatus(MembersOf(p))]
<1>3. model.applications = {App(p) : p \in OfType(create(d), "DOCKER_COMPOSE_PROJECT")}
  BY DEF resourceModel, applications
<1>4. model.standaloneContainers =
        OfType(create(d), "DOCKER_CONTAINER") \ UNION {a.containers : a \in model.applications}
  BY DEF resourceModel
<1>5. c \in model.standaloneContainers <=> apps = {}
  BY <1>4
<1>6. \A p : App(p).project = p /\ App(p).containers = MembersOf(p)
  OBVIOUS
<1>7. ASSUME NEW p \in Projects(d)
      PROVE  c \in MembersOf(ProjectNode(d, p)) <=> x.project = p
  <2>1. ProjectNode(d, p).id = projectId(p)
    BY <1>0 DEF Named
  <2>2. MembersOf(ProjectNode(d, p)) = {ContainerNode(y) : y \in {z \in d.containers : z.project = p}}
    BY <1>2, <2>1, MembersAre
  <2>3. \A y \in d.containers : ContainerNode(y) = c => y = x
    <3>1. \A y \in d.containers : ContainerNode(y).id = containerId(y.id)
      BY <1>0 DEF Named
    <3> QED
      BY <1>1, <3>1, IdsAreInjective DEF WellFormed
  <2> QED
    BY <1>1, <2>2, <2>3
<1> HIDE DEF App, MembersOf
<1>8. ASSUME NEW a \in apps
      PROVE  x.project # None /\ a.project = ProjectNode(d, x.project)
  <2>1. PICK p \in OfType(create(d), "DOCKER_COMPOSE_PROJECT") : a = App(p)
    BY <1>3
  <2>2. PICK q \in Projects(d) : p = ProjectNode(d, q)
    BY ProjectsAre
  <2>3. c \in MembersOf(p)
    BY <1>6, <2>1
  <2>4. x.project = q
    BY <1>7, <2>2, <2>3
  <2> QED
    BY <1>6, <2>1, <2>2, <2>4 DEF Projects
<1>9. ASSUME x.project # None
      PROVE  \E a \in apps : a.project = ProjectNode(d, x.project)
  <2>1. x.project \in Projects(d)
    BY <1>9 DEF Projects
  <2>2. ProjectNode(d, x.project) \in OfType(create(d), "DOCKER_COMPOSE_PROJECT")
    BY <1>0, <1>2, <2>1, NodesAreThere, TypesAre DEF OfType, Named
  <2>3. c \in MembersOf(ProjectNode(d, x.project))
    BY <1>7, <2>1
  <2> QED
    BY <1>3, <1>6, <2>2, <2>3
<1>10. /\ c.metadata.compose_project = x.project
       /\ ProjectNode(d, x.project).label = x.project
  BY <1>1 DEF ContainerNode, ProjectNode, node
<1>11. {a.project.label : a \in apps} = {c.metadata.compose_project} \ {None}
  BY <1>8, <1>9, <1>10
<1> QED
  BY <1>5, <1>11

\* A container is listed in the application of its project, or as standalone, but
\* never in two places and never nowhere.
THEOREM ContainersOnce == Spec => []EveryContainerOnce
PROOF
<1>1. WorkspaceIInv => EveryContainerOnce
  <2> SUFFICES ASSUME WorkspaceIInv, ui.connected PROVE EveryContainerOnce
    BY DEF EveryContainerOnce
  <2>1. PICK s \in DOMAIN Scans : s = ui.graph
    BY DEF WorkspaceIInv, PageState
  <2>2. PICK d : d = Scans[s]
    OBVIOUS
  <2>3. WellFormed(d) /\ Graphs[ui.graph] = create(d) /\ Models[ui.graph] = resourceModel(create(d))
    BY <2>1, <2>2, ScansAre
  <2>4. PICK model : model = Models[ui.graph]
    OBVIOUS
  <2>5. ASSUME NEW c \in OfType(Graphs[ui.graph], "DOCKER_CONTAINER"),
               NEW apps, apps = {a \in model.applications : c \in a.containers}
        PROVE  /\ (c \in model.standaloneContainers <=> apps = {})
               /\ {a.project.label : a \in apps} = {c.metadata.compose_project} \ {None}
    <3>1. c \in OfType(create(d), "DOCKER_CONTAINER") /\ WellFormed(d) /\ model = resourceModel(create(d))
      BY <2>3, <2>4, <2>5
    <3> QED
      BY <3>1, <2>5, ContainerListedOnce
  <2> QED
    BY <2>4, <2>5 DEF EveryContainerOnce
<1> QED
  BY <1>1, WorkspaceCorrect, PTL
(***************************************************************************)
(* Where a selected resource is found.                                     *)
(***************************************************************************)
LEMMA BackendsThere ==
  ASSUME NEW r, NEW S, r.upstreams \in Seq(S)
  PROVE  DOMAIN Backends(r) # {}
PROOF
<1> DEFINE up == r.upstreams
           none == NoDial("NONE")
           dynamic == NoDial("DYNAMIC")
           b == Backends(r)
<1>1. b \in {up, up \o <<dynamic>>, <<none>>} /\ b # <<>>
  <2>1. up \o <<>> = up
    OBVIOUS
  <2> QED
    BY <2>1 DEF Backends
<1> HIDE DEF b, none, dynamic, up
<1>2. up \in Seq(S)
  BY DEF up
<1>3. CASE b = <<none>>
  <2>1. 1 \in DOMAIN b
    BY <1>3
  <2> QED
    BY <2>1 DEF b
<1>4. CASE b \in {up, up \o <<dynamic>>}
  <2>1. up \in Seq(S \cup {dynamic}) /\ <<dynamic>> \in Seq(S \cup {dynamic})
    BY <1>2
  <2>2. b \in Seq(S \cup {dynamic})
    BY <1>4, <2>1
  <2>3. Len(b) \in Nat /\ Len(b) # 0 /\ DOMAIN b = 1..Len(b)
    BY <1>1, <2>2
  <2>4. 1 \in DOMAIN b
    BY <2>3
  <2> QED
    BY <2>4 DEF b
<1> QED
  BY <1>1, <1>3, <1>4

\* Every route of a proxy makes an upstream that leads back to the proxy, and to
\* the domains of the route.
LEMMA UpstreamsAreRouted ==
  ASSUME NEW d, WellFormed(d), d.docker = "AVAILABLE", NEW h \in Hops(d)
  PROVE  /\ RouteOf(create(d), UpstreamNode(h)) \in resourceModel(create(d)).routes
         /\ \A host \in h.hosts :
              DomainNode(host, Hops(d)) \in RouteOf(create(d), UpstreamNode(h)).domains
         /\ \A c \in d.caddy.instances : h.proxy = proxyId(c.container) =>
              RouteOf(create(d), UpstreamNode(h)).proxy = ProxyNode(c)
PROOF
<1>0. Named(d)
  BY IdsOf
<1> DEFINE graph == create(d)
           u == UpstreamNode(h)
<1>1. u.id = h.id
  BY <1>0 DEF Named
<1>2. u \in OfType(graph, "UPSTREAM")
  BY <1>1, HopTypes, NodesAreThere DEF OfType
<1>3. RouteOf(graph, u) \in resourceModel(graph).routes
  BY <1>2 DEF resourceModel
<1>4. ASSUME NEW host \in h.hosts PROVE DomainNode(host, Hops(d)) \in RouteOf(graph, u).domains
  <2>1. CaddyJoins(d, domainId(host), "ROUTES_TO", h.id)
    BY DEF CaddyJoins
  <2>2. domainId(host) \in Sources(graph, "ROUTES_TO", h.id)
    BY <2>1, RoutesJoin, JoinedAre DEF RouteRelations
  <2>3. host \in HostsOf(d)
    BY DEF HostsOf
  <2>4. DomainNode(host, Hops(d)) \in graph.nodes /\ DomainNode(host, Hops(d)).id = domainId(host)
    BY <1>0, <2>3, NodesAreThere DEF Named
  <2>5. DomainNode(host, Hops(d)) \in Nodes(graph, Sources(graph, "ROUTES_TO", h.id), "DOMAIN")
    BY <2>2, <2>4, TypesAre DEF Nodes
  <2>6. RouteOf(graph, u).domains = Nodes(graph, Sources(graph, "ROUTES_TO", u.id), "DOMAIN")
    BY DEF RouteOf
  <2> QED
    BY <1>1, <2>5, <2>6
<1>5. ASSUME NEW c \in d.caddy.instances, h.proxy = proxyId(c.container)
      PROVE  RouteOf(graph, u).proxy = ProxyNode(c)
  <2>1. ASSUME NEW s PROVE s \in Sources(graph, "PROXIES_TO", h.id) <=> s = h.proxy
    <3>1. CaddyJoins(d, s, "PROXIES_TO", h.id) <=> \E g \in Hops(d) : s = g.proxy /\ h.id = g.id
      BY DEF CaddyJoins
    <3>2. \A g \in Hops(d) : h.id = g.id => g = h
      BY HopsAreUnique DEF WellFormed
    <3> QED
      BY <3>1, <3>2, RoutesJoin, JoinedAre DEF RouteRelations
  <2>2. ProxyNode(c) \in graph.nodes /\ ProxyNode(c).id = proxyId(c.container)
    BY <1>0, NodesAreThere DEF Named
  <2>3. \A n \in graph.nodes : n.id = proxyId(c.container) => n = ProxyNode(c)
    BY <2>2, OneNodePerId
  <2>4. Nodes(graph, Sources(graph, "PROXIES_TO", h.id), "REVERSE_PROXY") = {ProxyNode(c)}
    BY <1>5, <2>1, <2>2, <2>3, TypesAre DEF Nodes
  <2>5. RouteOf(graph, u).proxy = Only(Nodes(graph, Sources(graph, "PROXIES_TO", u.id), "REVERSE_PROXY"))
    BY DEF RouteOf
  <2> QED
    BY <1>1, <2>4, <2>5, OnlyIs
<1> QED
  BY <1>3, <1>4, <1>5

LEMMA RoutingOffers ==
  ASSUME NEW d, WellFormed(d), None \notin create(d).nodes, NEW n \in create(d).nodes,
         type(n.id) \in {"DOMAIN", "REVERSE_PROXY", "UPSTREAM"},
         type(n.id) = "REVERSE_PROXY" => n.metadata.route_count > 0
  PROVE  n \in RoutingPage(resourceModel(create(d)))
PROOF
<1> DEFINE model == resourceModel(create(d))
           R(h) == RouteOf(create(d), UpstreamNode(h))
<1>1. d.docker = "AVAILABLE"
  BY NodesAre
<1>2. \A r \in model.routes : r.domains \cup ({r.proxy} \ {None}) \cup {r.upstream} \subseteq RoutingPage(model)
  BY DEF RoutingPage
<1> HIDE DEF model
<1>3. \A h \in Hops(d) : R(h) \in model.routes
  BY <1>1, UpstreamsAreRouted DEF model
<1>4. CASE type(n.id) = "DOMAIN"
  <2>1. PICK host \in HostsOf(d) : n = DomainNode(host, Hops(d))
    BY <1>4, NodesAre
  <2>2. PICK h \in Hops(d) : host \in h.hosts
    BY DEF HostsOf
  <2>3. n \in R(h).domains
    BY <1>1, <2>1, <2>2, UpstreamsAreRouted
  <2> QED
    BY <1>2, <1>3, <2>3 DEF model
<1>5. CASE type(n.id) = "UPSTREAM"
  <2>1. PICK h \in Hops(d) : n = UpstreamNode(h)
    BY <1>5, NodesAre
  <2>2. R(h).upstream = n
    BY <2>1 DEF RouteOf
  <2> QED
    BY <1>2, <1>3, <2>2 DEF model
<1>6. CASE type(n.id) = "REVERSE_PROXY"
  <2>1. PICK c \in d.caddy.instances : n = ProxyNode(c)
    BY <1>6, NodesAre
  <2>2. c.routes # {}
    <3>1. n.metadata.route_count = Cardinality(c.routes)
      BY <2>1 DEF ProxyNode, node
    <3>2. Cardinality(c.routes) > 0
      BY <1>6, <3>1
    <3> QED
      BY <3>2, FS_EmptySet
  <2>3. PICK r \in c.routes : TRUE
    BY <2>2
  <2>4. DOMAIN Backends(r) # {}
    BY BackendsThere DEF WellFormed
  <2>5. PICK i \in DOMAIN Backends(r) : TRUE
    BY <2>4
  <2>6. PICK h \in Hops(d) : h = Hop(d, c, r, i)
    BY HopsAre
  <2>7. h.proxy = proxyId(c.container)
    BY <2>6, HopIs
  <2>8. R(h).proxy = n
    BY <1>1, <2>1, <2>7, UpstreamsAreRouted
  <2>9. n # None
    OBVIOUS
  <2> QED
    BY <1>2, <1>3, <2>8, <2>9 DEF model
<1> QED
  BY <1>4, <1>5, <1>6

LEMMA StorageOffers ==
  ASSUME NEW d, NEW n \in create(d).nodes, type(n.id) = "MOUNT"
  PROVE  n \in StoragePage(create(d))
PROOF
<1>0. Named(d)
  BY IdsOf
<1>1. d.docker = "AVAILABLE" /\ \E v \in Mounts(d) : n = MountNode(v)
  BY NodesAre
<1>2. PICK v \in Mounts(d) : n = MountNode(v)
  BY <1>1
<1>3. PICK c \in d.containers : \E m \in c.mounts : v = <<c.id, m>>
  BY DEF Mounts
<1>4. n.id = mountId(v[1], v[2]) /\ v[1] = c.id
  BY <1>0, <1>2, <1>3 DEF Named
<1>5. DockerJoins(d, containerId(c.id), "MOUNTS", n.id)
  BY <1>4 DEF DockerJoins
<1>6. n.id \in Targets(create(d), "MOUNTS", containerId(c.id))
  BY <1>1, <1>5, DetailsJoin, JoinedAre DEF DetailRelations
<1>7. ContainerNode(c) \in OfType(create(d), "DOCKER_CONTAINER") /\ ContainerNode(c).id = containerId(c.id)
  BY <1>0, <1>1, NodesAreThere, TypesAre DEF OfType, Named
<1>8. n \in relatedResources(create(d), ContainerNode(c), "MOUNTS")
  BY <1>6, <1>7 DEF relatedResources
<1> QED
  BY <1>7, <1>8 DEF StoragePage

LEMMA ApplicationsOffer ==
  ASSUME NEW d, WellFormed(d), NEW n \in create(d).nodes, type(n.id) \in {"DOCKER_COMPOSE_PROJECT", "DOCKER_CONTAINER"}
  PROVE  n \in Applications(resourceModel(create(d)))
PROOF
<1> DEFINE model == resourceModel(create(d))
<1>1. CASE type(n.id) = "DOCKER_COMPOSE_PROJECT"
  <2>1. n \in OfType(create(d), "DOCKER_COMPOSE_PROJECT")
    BY <1>1 DEF OfType
  <2>2. \E a \in model.applications : a.project = n
    <3> DEFINE Containers(p) == {c \in OfType(create(d), "DOCKER_CONTAINER") : parentByChild(create(d), c.id) = p.id}
               App(p) == [project |-> p, containers |-> Containers(p), status |-> aggregateStatus(Containers(p))]
    <3>1. model.applications = {App(p) : p \in OfType(create(d), "DOCKER_COMPOSE_PROJECT")}
      BY DEF resourceModel, applications
    <3>2. App(n).project = n
      OBVIOUS
    <3> HIDE DEF App, model
    <3> QED
      BY <2>1, <3>1, <3>2
  <2> HIDE DEF model
  <2> QED
    BY <2>2 DEF Applications, Overview, model
<1>2. CASE type(n.id) = "DOCKER_CONTAINER"
  <2>1. n \in OfType(create(d), "DOCKER_CONTAINER")
    BY <1>2 DEF OfType
  <2>2. n \in model.standaloneContainers \/ \E a \in model.applications : n \in a.containers
    BY <2>1 DEF resourceModel
  <2> HIDE DEF model
  <2> QED
    BY <2>2 DEF Applications, model
<1> QED
  BY <1>1, <1>2

LEMMA OfferedIs ==
  ASSUME NEW graph, NEW model
  PROVE  /\ Offered(graph, model, "APPLICATIONS") = Applications(model)
         /\ Offered(graph, model, "SERVICES") = ServicesPage(graph, "LISTENING")
         /\ Offered(graph, model, "ROUTING") = RoutingPage(model)
         /\ Offered(graph, model, "NETWORK") = NetworkPage(graph)
         /\ Offered(graph, model, "STORAGE") = StoragePage(graph)
BY DEF Offered

\* What the pages do not hide is offered on the page that a selection opens.
HiddenByFilter(n) ==
  \/ type(n.id) \in {"SERVER", "DOCKER_ENGINE"}
  \/ type(n.id) = "SYSTEMD_SERVICE" /\ ~(n.metadata.listener_count > 0)
  \/ type(n.id) = "REVERSE_PROXY" /\ ~(n.metadata.route_count > 0)

LEMMA Landing ==
  ASSUME NEW d, WellFormed(d), None \notin create(d).nodes, NEW n \in create(d).nodes, ~HiddenByFilter(n)
  PROVE  n \in Offered(create(d), resourceModel(create(d)), pageFor(type(n.id)))
PROOF
<1> DEFINE graph == create(d)
           model == resourceModel(create(d))
           T == type(n.id)
<1>1. T \in {"SYSTEMD_SERVICE", "HOST_LISTENER", "DOCKER_COMPOSE_PROJECT", "DOCKER_CONTAINER", "PORT", "MOUNT",
             "NETWORK", "REVERSE_PROXY", "UPSTREAM", "DOMAIN"}
  BY NodesAre DEF HiddenByFilter
<1>2. CASE T = "SYSTEMD_SERVICE"
  <2>1. n \in ServicesPage(graph, "LISTENING")
    BY <1>2 DEF HiddenByFilter, ServicesPage, servicesForFilter, OfType
  <2>2. pageFor(T) = "SERVICES"
    BY <1>2 DEF pageFor
  <2> HIDE DEF graph, model
  <2>3. n \in Offered(graph, model, pageFor(T))
    BY <2>1, <2>2, OfferedIs
  <2> QED
    BY <2>3 DEF graph, model
<1>3. CASE T \in {"HOST_LISTENER", "PORT", "NETWORK"}
  <2>1. n \in NetworkPage(graph)
    BY <1>3 DEF NetworkPage, OfType
  <2>2. pageFor(T) = "NETWORK"
    BY <1>3 DEF pageFor
  <2> HIDE DEF graph, model
  <2>3. n \in Offered(graph, model, pageFor(T))
    BY <2>1, <2>2, OfferedIs
  <2> QED
    BY <2>3 DEF graph, model
<1>4. CASE T \in {"DOMAIN", "REVERSE_PROXY", "UPSTREAM"}
  <2>1. n \in RoutingPage(model)
    BY <1>4, RoutingOffers DEF HiddenByFilter
  <2>2. pageFor(T) = "ROUTING"
    BY <1>4 DEF pageFor
  <2> HIDE DEF graph, model
  <2>3. n \in Offered(graph, model, pageFor(T))
    BY <2>1, <2>2, OfferedIs
  <2> QED
    BY <2>3 DEF graph, model
<1>5. CASE T = "MOUNT"
  <2>1. n \in StoragePage(graph)
    BY <1>5, StorageOffers
  <2>2. pageFor(T) = "STORAGE"
    BY <1>5 DEF pageFor
  <2> HIDE DEF graph, model
  <2>3. n \in Offered(graph, model, pageFor(T))
    BY <2>1, <2>2, OfferedIs
  <2> QED
    BY <2>3 DEF graph, model
<1>6. CASE T \in {"DOCKER_COMPOSE_PROJECT", "DOCKER_CONTAINER"}
  <2>1. n \in Applications(model)
    BY <1>6, ApplicationsOffer
  <2>2. pageFor(T) = "APPLICATIONS"
    BY <1>6 DEF pageFor
  <2> HIDE DEF graph, model
  <2>3. n \in Offered(graph, model, pageFor(T))
    BY <2>1, <2>2, OfferedIs
  <2> QED
    BY <2>3 DEF graph, model
<1> QED
  BY <1>1, <1>2, <1>3, <1>4, <1>5, <1>6

\* A resource that is selected is offered on the page that its selection opens,
\* whatever the scan found.
THEOREM SelectionsLand == Spec => []SelectionLands
PROOF
<1>1. WorkspaceIInv => SelectionLands
  <2> SUFFICES ASSUME WorkspaceIInv, ui.connected, ui.selectedId \in Ids(Graphs[ui.graph])
               PROVE  SelectionLands
    BY DEF SelectionLands
  <2>1. PICK s \in DOMAIN Scans : s = ui.graph
    BY DEF WorkspaceIInv, PageState
  <2>2. PICK d : d = Scans[s]
    OBVIOUS
  <2>3. /\ WellFormed(d) /\ Graphs[ui.graph] = create(d) /\ Models[ui.graph] = resourceModel(create(d))
        /\ None \notin create(d).nodes
    BY <2>1, <2>2, ScansAre, NoneAssumption
  <2>4. PICK n \in create(d).nodes : n.id = ui.selectedId
    BY <2>3 DEF Ids
  <2>5. byId(Graphs[ui.graph], ui.selectedId) = n
    <3>1. {m \in create(d).nodes : m.id = ui.selectedId} = {n}
      BY <2>3, <2>4, OneNodePerId
    <3> QED
      BY <2>3, <3>1, OnlyIs DEF byId
  <2>6. selectResource(ui, n.id).section = pageFor(type(n.id))
    BY DEF selectResource, WorkspaceIInv, PageState
  <2>7. ~HiddenByFilter(n) => n \in Offered(Graphs[ui.graph], Models[ui.graph], selectResource(ui, n.id).section)
    BY <2>3, <2>6, Landing
  <2> QED
    BY <2>5, <2>7 DEF SelectionLands, HiddenByFilter
<1> QED
  BY <1>1, WorkspaceCorrect, PTL
(***************************************************************************)
(* What the plugin counts and what the pages count.                        *)
(***************************************************************************)
LEMMA ProjectCount ==
  ASSUME NEW d, WellFormed(d), NEW a \in resourceModel(create(d)).applications
  PROVE  a.project.metadata.container_count = Cardinality(a.containers)
PROOF
<1>0. Named(d)
  BY IdsOf
<1> DEFINE Containers(p) == {c \in OfType(create(d), "DOCKER_CONTAINER") : parentByChild(create(d), c.id) = p.id}
           App(p) == [project |-> p, containers |-> Containers(p), status |-> aggregateStatus(Containers(p))]
<1>1. resourceModel(create(d)).applications = {App(p) : p \in OfType(create(d), "DOCKER_COMPOSE_PROJECT")}
  BY DEF resourceModel, applications
<1>2. PICK n \in OfType(create(d), "DOCKER_COMPOSE_PROJECT") : a = App(n)
  BY <1>1
<1>3. a.project = n /\ a.containers = Containers(n)
  BY <1>2
<1>4. PICK p \in Projects(d) : n = ProjectNode(d, p) /\ n.id = projectId(p)
  BY ProjectsAre
<1>5. d.docker = "AVAILABLE"
  BY ProjectsAre
<1> DEFINE mine == {c \in d.containers : c.project = p}
<1>6. a.containers = {ContainerNode(c) : c \in mine}
  BY <1>3, <1>4, <1>5, MembersAre
<1>7. a.project.metadata.container_count = Cardinality(mine)
  BY <1>3, <1>4 DEF ProjectNode, node
<1>8. Cardinality({ContainerNode(c) : c \in mine}) = Cardinality(mine)
  <2>1. IsFiniteSet(mine)
    BY FS_Subset DEF WellFormed
  <2>2. PICK f : f = [c \in mine |-> ContainerNode(c)]
    OBVIOUS
  <2>3. \A x, y \in mine : f[x] = f[y] => x = y
    <3>1. \A x \in mine : ContainerNode(x).id = containerId(x.id)
      BY <1>0 DEF Named
    <3> QED
      BY <2>2, <3>1, IdsAreInjective DEF WellFormed
  <2>4. {ContainerNode(c) : c \in mine} = {f[c] : c \in mine} /\ f = [c \in mine |-> f[c]]
    BY <2>2
  <2> HIDE DEF mine
  <2> QED
    BY <2>1, <2>3, <2>4, ImageCount
<1> QED
  BY <1>6, <1>7, <1>8

LEMMA NetworkMembers ==
  ASSUME NEW d, WellFormed(d), NEW n \in OfType(create(d), "NETWORK")
  PROVE  n.metadata.connected_containers = {c.label : c \in connectedContainers(create(d), n)}
PROOF
<1>0. Named(d)
  BY IdsOf
<1>1. d.docker = "AVAILABLE" /\ \E x \in Networks(d) : n = NetworkNode(d, x)
  BY NodesAre DEF OfType
<1>2. PICK x \in Networks(d) : n = NetworkNode(d, x)
  BY <1>1
<1>3. n.id = networkId(x) /\ n.metadata.connected_containers = {c.name : c \in {y \in d.containers : x \in y.networks}}
  BY <1>0, <1>2 DEF Named, NetworkNode, node
<1>4. \A c \in d.containers : /\ ContainerNode(c) \in create(d).nodes
                              /\ ContainerNode(c).id = containerId(c.id) /\ ContainerNode(c).label = c.name
  BY <1>0, <1>1, NodesAreThere DEF Named, ContainerNode, node
<1>5. ASSUME NEW c \in d.containers
      PROVE  containerId(c.id) \in Sources(create(d), "CONNECTED_TO", networkId(x)) <=> x \in c.networks
  <2>1. containerId(c.id) \in Sources(create(d), "CONNECTED_TO", networkId(x))
        <=> DockerJoins(d, containerId(c.id), "CONNECTED_TO", networkId(x))
    BY <1>1, DetailsJoin, JoinedAre DEF DetailRelations
  <2>2. DockerJoins(d, containerId(c.id), "CONNECTED_TO", networkId(x))
        <=> \E b \in d.containers : \E y \in b.networks : containerId(c.id) = containerId(b.id) /\ networkId(x) = networkId(y)
    BY DEF DockerJoins
  <2>3. \A b \in d.containers : containerId(c.id) = containerId(b.id) => c = b
    BY IdsAreInjective DEF WellFormed
  <2>4. \A y : networkId(x) = networkId(y) => x = y
    BY IdsAreInjective
  <2> QED
    BY <2>1, <2>2, <2>3, <2>4
<1>6. connectedContainers(create(d), n) = {ContainerNode(c) : c \in {y \in d.containers : x \in y.networks}}
  <2>1. connectedContainers(create(d), n) =
          {m \in OfType(create(d), "DOCKER_CONTAINER") : m.id \in Sources(create(d), "CONNECTED_TO", networkId(x))}
    BY <1>3 DEF connectedContainers, Nodes, OfType
  <2>2. \A c \in d.containers : ContainerNode(c) \in OfType(create(d), "DOCKER_CONTAINER")
    BY <1>4, TypesAre DEF OfType
  <2> QED
    BY <1>4, <1>5, <2>1, <2>2, ContainersAre
<1> QED
  BY <1>3, <1>4, <1>6

LEMMA ServiceCount ==
  ASSUME NEW d, WellFormed(d), NEW n \in OfType(create(d), "SYSTEMD_SERVICE")
  PROVE  n.metadata.listener_count = Cardinality(relatedResources(create(d), n, "LISTENS_ON"))
PROOF
<1>0. Named(d)
  BY IdsOf
<1>1. PICK s \in d.systemd.services : n = ServiceNode(d, s)
  BY NodesAre DEF OfType
<1> DEFINE mine == {l \in d.listeners.items : l.ownership = "SYSTEMD_SERVICE" /\ l.unit = s.unit}
<1>2. n.id = serviceId(s.unit) /\ n.metadata.listener_count = Cardinality(mine)
  BY <1>0, <1>1 DEF Named, ServiceNode, node
<1>3. \A l \in mine : l \in Owned(d)
  BY DEF Owned
<1>4. \A l \in d.listeners.items : ListenerNode(l) \in create(d).nodes /\ ListenerNode(l).id = listenerId(l.key)
  BY <1>0, NodesAreThere DEF Named
<1>5. ASSUME NEW id
      PROVE  id \in Sources(create(d), "LISTENS_ON", n.id) \cup Targets(create(d), "LISTENS_ON", n.id)
             <=> \E l \in mine : id = listenerId(l.key)
  <2>1. ~HostJoins(d, id, "LISTENS_ON", serviceId(s.unit))
    BY TypesAre DEF HostJoins
  <2>2. HostJoins(d, serviceId(s.unit), "LISTENS_ON", id)
        <=> \E l \in Owned(d) : serviceId(s.unit) = serviceId(l.unit) /\ id = listenerId(l.key)
    BY DEF HostJoins
  <2>3. \A l \in Owned(d) : serviceId(s.unit) = serviceId(l.unit) <=> l \in mine
    BY IdsAreInjective DEF Owned
  <2>4. HostJoins(d, serviceId(s.unit), "LISTENS_ON", id) <=> \E l \in mine : id = listenerId(l.key)
    BY <1>3, <2>2, <2>3
  <2> HIDE DEF mine
  <2>5. id \in Sources(create(d), "LISTENS_ON", n.id) <=> HostJoins(d, id, "LISTENS_ON", serviceId(s.unit))
    BY <1>2, ListensJoin, JoinedAre
  <2>6. id \in Targets(create(d), "LISTENS_ON", n.id) <=> HostJoins(d, serviceId(s.unit), "LISTENS_ON", id)
    BY <1>2, ListensJoin, JoinedAre
  <2> QED
    BY <2>1, <2>4, <2>5, <2>6
<1>6. relatedResources(create(d), n, "LISTENS_ON") = {ListenerNode(l) : l \in mine}
  <2>1. relatedResources(create(d), n, "LISTENS_ON") = {m \in create(d).nodes : \E l \in mine : m.id = listenerId(l.key)}
    BY <1>5 DEF relatedResources
  <2>2. ASSUME NEW m \in create(d).nodes, NEW l \in mine, m.id = listenerId(l.key)
        PROVE  m = ListenerNode(l)
    BY <1>4, <2>2, OneNodePerId
  <2> QED
    BY <1>4, <2>1, <2>2
<1>7. Cardinality({ListenerNode(l) : l \in mine}) = Cardinality(mine)
  <2>1. IsFiniteSet(mine)
    BY FS_Subset DEF WellFormed
  <2>2. PICK f : f = [l \in mine |-> ListenerNode(l)]
    OBVIOUS
  <2>3. \A x, y \in mine : f[x] = f[y] => x = y
    BY <1>4, <2>2, IdsAreInjective DEF WellFormed
  <2>4. {ListenerNode(l) : l \in mine} = {f[l] : l \in mine} /\ f = [l \in mine |-> f[l]]
    BY <2>2
  <2> HIDE DEF mine
  <2> QED
    BY <2>1, <2>3, <2>4, ImageCount
<1> QED
  BY <1>2, <1>6, <1>7

LEMMA BindingsAre ==
  ASSUME NEW d, NEW l \in OfType(create(d), "HOST_LISTENER"), NEW p \in publishedPorts(create(d), l)
  PROVE  p.metadata.host_binding = l.label
PROOF
<1>0. Named(d)
  BY IdsOf
<1>1. PICK k \in d.listeners.items : l = ListenerNode(k)
  BY NodesAre DEF OfType
<1>2. l.id = listenerId(k.key) /\ l.label = k.key
  BY <1>0, <1>1 DEF Named, ListenerNode, node
<1>3. p \in create(d).nodes /\ type(p.id) = "PORT"
  BY DEF publishedPorts, relatedResources
<1>4. d.docker = "AVAILABLE" /\ \E q \in Ports(d) : p = PortNode(q)
  BY <1>3, NodesAre
<1>5. PICK q \in Ports(d) : p = PortNode(q)
  BY <1>4
<1>6. p.id = portId(q[1], q[2]) /\ p.metadata.host_binding = q[2].binding
  BY <1>0, <1>5 DEF Named, PortNode, node
<1>7. DockerJoins(d, p.id, "PUBLISHED_AS", l.id) \/ DockerJoins(d, l.id, "PUBLISHED_AS", p.id)
  <2>1. p.id \in Sources(create(d), "PUBLISHED_AS", l.id) \cup Targets(create(d), "PUBLISHED_AS", l.id)
    BY DEF publishedPorts, relatedResources
  <2> QED
    BY <1>4, <2>1, DetailsJoin, JoinedAre DEF DetailRelations
<1>8. ~DockerJoins(d, l.id, "PUBLISHED_AS", p.id)
  BY <1>2, <1>6, TypesAre DEF DockerJoins
<1>9. PICK m \in d.listeners.items : \E x \in PublishedAs(d, m) :
        p.id = portId(x[1], x[2]) /\ l.id = listenerId(m.key)
  BY <1>7, <1>8 DEF DockerJoins
<1>10. PICK x \in PublishedAs(d, m) : p.id = portId(x[1], x[2]) /\ l.id = listenerId(m.key)
  BY <1>9
<1>11. x[2].binding = m.key
  BY DEF PublishedAs
<1>12. q[2] = x[2] /\ k.key = m.key
  <2>1. portId(q[1], q[2]) = portId(x[1], x[2]) /\ listenerId(k.key) = listenerId(m.key)
    BY <1>2, <1>6, <1>10
  <2>2. \A y, z, u, v : portId(y, u) = portId(z, v) => u = v
    BY IdsAreInjective
  <2>3. \A y, z : listenerId(y) = listenerId(z) => y = z
    BY IdsAreInjective
  <2>4. q[2] = x[2]
    BY <2>1, <2>2
  <2> QED
    BY <2>1, <2>3, <2>4
<1> QED
  BY <1>2, <1>6, <1>11, <1>12
\* An upstream resolves to a container that was discovered.
LEMMA ResolvedIsFound ==
  ASSUME NEW d, NEW h \in Hops(d), h.resolution.container # None
  PROVE  h.resolution.container \in d.containers
PROOF
<1>1. PICK c \in d.caddy.instances : \E r \in c.routes : \E i \in DOMAIN Backends(r) : h = Hop(d, c, r, i)
  BY HopsAre
<1>2. PICK r \in c.routes : \E i \in DOMAIN Backends(r) : h = Hop(d, c, r, i)
  BY <1>1
<1>3. PICK i \in DOMAIN Backends(r) : h = Hop(d, c, r, i)
  BY <1>2
<1>4. PICK dial : dial = Backends(r)[i]
  OBVIOUS
<1>5. h.resolution = resolve(c, dial, d.containers)
  BY <1>3, <1>4, HopIs
<1>6. \A candidates, caddy : select(candidates, caddy, dial).container # None
        => select(candidates, caddy, dial).container \in candidates
  <2>1. ASSUME NEW candidates, NEW caddy, select(candidates, caddy, dial).container # None
        PROVE  select(candidates, caddy, dial).container \in candidates
    <3>1. select(candidates, caddy, dial).container = Only(Matching(candidates, caddy, dial))
      BY DEF select
    <3>2. select(candidates, caddy, dial).container \in Matching(candidates, caddy, dial)
      BY <2>1, <3>1, OnlyIs
    <3> QED
      BY <3>2 DEF Matching
  <2> QED
    BY <2>1
<1>7. \A state : Unmatched(state).container = None
  BY DEF Unmatched
<1>8. \/ \E state : h.resolution = Unmatched(state)
      \/ \E candidates \in SUBSET d.containers : \E caddy : h.resolution = select(candidates, caddy, dial)
  BY <1>5 DEF resolve
<1> QED
  BY <1>6, <1>7, <1>8

\* A domain is routed to the containers that its upstreams resolve to.
LEMMA DomainsOfContainer ==
  ASSUME NEW d, WellFormed(d), d.docker = "AVAILABLE", NEW host \in HostsOf(d), NEW c \in d.containers
  PROVE  DomainNode(host, Hops(d)) \in routedDomains(create(d), ContainerNode(c))
         <=> \E h \in Hops(d) : host \in h.hosts /\ h.resolution.container # None /\ h.resolution.container = c
PROOF
<1>0. Named(d)
  BY IdsOf
<1> DEFINE g == create(d)
           n == DomainNode(host, Hops(d))
<1>1. /\ n \in g.nodes /\ n.id = domainId(host) /\ type(n.id) = "DOMAIN"
      /\ ContainerNode(c).id = containerId(c.id)
  BY <1>0, NodesAreThere, TypesAre DEF Named
<1>2. n \in routedDomains(g, ContainerNode(c)) <=>
        \E u \in Sources(g, "RESOLVES_TO", containerId(c.id)) : n.id \in Sources(g, "ROUTES_TO", u)
  BY <1>1 DEF routedDomains, Nodes
<1>3. ASSUME NEW u
      PROVE  u \in Sources(g, "RESOLVES_TO", containerId(c.id)) <=>
             \E h \in Hops(d) : h.resolution.container # None /\ h.resolution.container = c /\ u = h.id
  <2>1. u \in Sources(g, "RESOLVES_TO", containerId(c.id)) <=> CaddyJoins(d, u, "RESOLVES_TO", containerId(c.id))
    BY RoutesJoin, JoinedAre DEF RouteRelations
  <2>2. CaddyJoins(d, u, "RESOLVES_TO", containerId(c.id)) <=>
          \E h \in Hops(d) : /\ h.resolution.container # None /\ u = h.id
                             /\ containerId(c.id) = containerId(h.resolution.container.id)
    BY DEF CaddyJoins
  <2>3. ASSUME NEW h \in Hops(d), h.resolution.container # None,
               containerId(c.id) = containerId(h.resolution.container.id)
        PROVE  h.resolution.container = c
    BY <2>3, ResolvedIsFound, IdsAreInjective DEF WellFormed
  <2> QED
    BY <2>1, <2>2, <2>3
<1>4. ASSUME NEW u
      PROVE  n.id \in Sources(g, "ROUTES_TO", u) <=> \E h \in Hops(d) : host \in h.hosts /\ u = h.id
  <2>1. n.id \in Sources(g, "ROUTES_TO", u) <=> CaddyJoins(d, domainId(host), "ROUTES_TO", u)
    BY <1>1, RoutesJoin, JoinedAre DEF RouteRelations
  <2>2. CaddyJoins(d, domainId(host), "ROUTES_TO", u) <=>
          \E h \in Hops(d) : \E x \in h.hosts : domainId(host) = domainId(x) /\ u = h.id
    BY DEF CaddyJoins
  <2>3. \A x : domainId(host) = domainId(x) <=> x = host
    BY IdsAreInjective
  <2> QED
    BY <2>1, <2>2, <2>3
<1> HIDE DEF g, n
<1>5. \A x, y \in Hops(d) : x.id = y.id => x = y
  BY HopsAreUnique DEF WellFormed
<1>6. n \in routedDomains(g, ContainerNode(c)) <=>
        \E x, y \in Hops(d) : /\ x.resolution.container # None /\ x.resolution.container = c
                              /\ host \in y.hosts /\ x.id = y.id
  BY <1>2, <1>3, <1>4
<1>7. n \in routedDomains(g, ContainerNode(c)) <=>
        \E h \in Hops(d) : host \in h.hosts /\ h.resolution.container # None /\ h.resolution.container = c
  BY <1>5, <1>6
<1> QED
  BY <1>7 DEF g, n

LEMMA DomainContainers ==
  ASSUME NEW d, WellFormed(d), NEW n \in OfType(create(d), "DOMAIN")
  PROVE  OrNone({c.label : c \in {x \in OfType(create(d), "DOCKER_CONTAINER") : n \in routedDomains(create(d), x)}})
           = n.metadata.resolved_containers
PROOF
<1>0. Named(d)
  BY IdsOf
<1>1. d.docker = "AVAILABLE" /\ \E host \in HostsOf(d) : n = DomainNode(host, Hops(d))
  BY NodesAre DEF OfType
<1>2. PICK host \in HostsOf(d) : n = DomainNode(host, Hops(d))
  BY <1>1
<1> DEFINE mine == {h \in Hops(d) : host \in h.hosts}
           names == {h.resolution.container.name : h \in {x \in mine : x.resolution.container # None}}
           routed == {x \in OfType(create(d), "DOCKER_CONTAINER") : n \in routedDomains(create(d), x)}
<1>3. n.metadata.resolved_containers = OrNone(names)
  BY <1>2 DEF DomainNode, node
<1>4. \A c \in d.containers : ContainerNode(c) \in OfType(create(d), "DOCKER_CONTAINER") /\ ContainerNode(c).label = c.name
  <2>1. \A c \in d.containers : ContainerNode(c) \in create(d).nodes /\ type(ContainerNode(c).id) = "DOCKER_CONTAINER"
    BY <1>0, <1>1, NodesAreThere, TypesAre DEF Named
  <2>2. \A c \in d.containers : ContainerNode(c).label = c.name
    BY DEF ContainerNode, node
  <2> QED
    BY <2>1, <2>2 DEF OfType
<1>5. ASSUME NEW x \in routed PROVE x.label \in names
  <2>1. PICK c \in d.containers : x = ContainerNode(c)
    BY ContainersAre
  <2>2. PICK h \in Hops(d) : host \in h.hosts /\ h.resolution.container # None /\ h.resolution.container = c
    BY <1>1, <1>2, <2>1, DomainsOfContainer
  <2>3. x.label = h.resolution.container.name
    BY <1>4, <2>1, <2>2
  <2> QED
    BY <2>2, <2>3
<1>6. ASSUME NEW h \in mine, h.resolution.container # None
      PROVE  \E x \in routed : x.label = h.resolution.container.name
  <2>1. PICK c \in d.containers : c = h.resolution.container
    BY <1>6, ResolvedIsFound
  <2>2. n \in routedDomains(create(d), ContainerNode(c))
    BY <1>1, <1>2, <1>6, <2>1, DomainsOfContainer
  <2> QED
    BY <1>4, <2>1, <2>2
<1> HIDE DEF routed
<1>7. {c.label : c \in routed} = names
  BY <1>5, <1>6
<1> HIDE DEF names
<1> QED
  BY <1>3, <1>7 DEF routed

\* What the plugin wrote into the metadata of a resource agrees with what the pages
\* count along the edges, so that no two numbers on the page contradict each other.
THEOREM SourcesAgree == Spec => []TwoSourcesAgree
PROOF
<1>1. WorkspaceIInv => TwoSourcesAgree
  <2> SUFFICES ASSUME WorkspaceIInv, ui.connected PROVE TwoSourcesAgree
    BY DEF TwoSourcesAgree
  <2>1. PICK s \in DOMAIN Scans : s = ui.graph
    BY DEF WorkspaceIInv, PageState
  <2>2. PICK d : d = Scans[s]
    OBVIOUS
  <2>3. PICK g : g = create(d)
    OBVIOUS
  <2>4. WellFormed(d) /\ Graphs[ui.graph] = g /\ Models[ui.graph] = resourceModel(g)
    BY <2>1, <2>2, <2>3, ScansAre
  <2>5. \A a \in Models[ui.graph].applications : a.project.metadata.container_count = Cardinality(a.containers)
    BY <2>3, <2>4, ProjectCount
  <2>6. \A n \in OfType(g, "NETWORK") : n.metadata.connected_containers = {c.label : c \in connectedContainers(g, n)}
    BY <2>3, <2>4, NetworkMembers
  <2>7. \A n \in OfType(g, "SYSTEMD_SERVICE") :
          n.metadata.listener_count = Cardinality(relatedResources(g, n, "LISTENS_ON"))
    BY <2>3, <2>4, ServiceCount
  <2>8. \A l \in OfType(g, "HOST_LISTENER") : \A p \in publishedPorts(g, l) : p.metadata.host_binding = l.label
    BY <2>3, BindingsAre
  <2>9. \A n \in OfType(g, "DOMAIN") :
          OrNone({c.label : c \in {x \in OfType(g, "DOCKER_CONTAINER") : n \in routedDomains(g, x)}})
            = n.metadata.resolved_containers
    BY <2>3, <2>4, DomainContainers
  <2> QED
    BY <2>4, <2>5, <2>6, <2>7, <2>8, <2>9, Zenon DEF TwoSourcesAgree
<1> QED
  BY <1>1, WorkspaceCorrect, PTL
(***************************************************************************)
(* Where the topology is drawn.                                            *)
(***************************************************************************)
LEMMA AllNumbers ==
  ASSUME NEW S, 0 \in S, \A n \in Nat : n \in S => n + 1 \in S
  PROVE  \A n \in Nat : n \in S
PROOF
<1> DEFINE T == Nat \ S
<1>1. SUFFICES ASSUME T # {} PROVE FALSE
  OBVIOUS
<1>2. T \subseteq Nat
  OBVIOUS
<1>3. PICK n \in T : \A m \in T : ~(<<m, n>> \in OpToRel(<, Nat))
  <2> HIDE DEF T
  <2> QED
    BY <1>1, <1>2, WFMin, NatLessThanWellFounded
<1>4. \A m \in Nat : m < n => <<m, n>> \in OpToRel(<, Nat)
  BY <1>2 DEF OpToRel
<1>5. n \in Nat \ {0} /\ n \notin S
  BY <1>2
<1>6. n - 1 \in Nat /\ n - 1 < n /\ (n - 1) + 1 = n
  BY <1>5
<1>7. n - 1 \notin S
  BY <1>5, <1>6
<1>8. n - 1 \in T
  BY <1>6, <1>7
<1> HIDE DEF T
<1> QED
  BY <1>3, <1>4, <1>6, <1>8

\* The heights add up: what stands before a group ends before the group starts.
Summed(top, n, h) ==
  /\ top \in [1..(n + 1) -> Nat] /\ top[1] = 64
  /\ \A i \in 1..n : top[i + 1] = top[i] + h[i]

LEMMA TopsAre ==
  ASSUME NEW n \in Nat, NEW h \in [1..n -> Nat], NEW top, top = Tops(h)
  PROVE  Summed(top, n, h)
PROOF
<1>1. Len(h) = n
  OBVIOUS
<1> DEFINE Sums(g, k) == /\ g \in [1..(k + 1) -> Nat] /\ g[1] = 64
                         /\ \A i \in 1..k : g[i + 1] = g[i] + h[i]
           S == {k \in Nat : k <= n => \E g : Sums(g, k)}
<1>2. 0 \in S
  <2>1. Sums([i \in 1..1 |-> 64], 0)
    OBVIOUS
  <2> QED
    BY <2>1
<1>3. ASSUME NEW k \in Nat, k \in S PROVE k + 1 \in S
  <2> SUFFICES ASSUME k + 1 <= n PROVE \E g : Sums(g, k + 1)
    <3> HIDE DEF Sums
    <3> QED
      OBVIOUS
  <2>1. PICK g : Sums(g, k)
    BY <1>3
  <2>2. Sums([i \in 1..(k + 2) |-> IF i <= k + 1 THEN g[i] ELSE g[k + 1] + h[k + 1]], k + 1)
    BY <2>1, SMTT(20)
  <2> QED
    BY <2>2
<1>4. n \in S
  <2> HIDE DEF S
  <2> QED
    BY <1>2, <1>3, AllNumbers
<1>5. PICK g : Sums(g, n)
  <2> HIDE DEF Sums
  <2> QED
    BY <1>4
<1>6. g = [i \in 1..(n + 1) |-> IF i = 1 THEN 64 ELSE g[i - 1] + h[i - 1]]
  <2>1. ASSUME NEW i \in 1..(n + 1) PROVE g[i] = IF i = 1 THEN 64 ELSE g[i - 1] + h[i - 1]
    <3>1. CASE i = 1
      BY <1>5, <3>1
    <3>2. CASE i # 1
      <4>1. i - 1 \in 1..n /\ (i - 1) + 1 = i
        BY <3>2
      <4> QED
        BY <1>5, <3>2, <4>1
    <3> QED
      BY <3>1, <3>2
  <2> QED
    BY <1>5, <2>1
<1>7. top = [i \in 1..(n + 1) |-> IF i = 1 THEN 64 ELSE top[i - 1] + h[i - 1]]
  BY <1>1, <1>6 DEF Tops
<1>a. \A i \in 1..n : top[i + 1] = top[i] + h[i]
  <2> TAKE i \in 1..n
  <2>1. i + 1 \in 1..(n + 1) /\ i + 1 # 1 /\ (i + 1) - 1 = i
    OBVIOUS
  <2>2. \A j \in 1..(n + 1) : top[j] = IF j = 1 THEN 64 ELSE top[j - 1] + h[j - 1]
    BY <1>7
  <2> QED
    BY <2>1, <2>2
<1> HIDE DEF Sums
<1> DEFINE U == {k \in Nat : \A i \in 1..(n + 1) : i <= k + 1 => top[i] \in Nat}
<1>8. \A k \in Nat : k \in U
  <2>1. 0 \in U
    BY <1>7
  <2>2. ASSUME NEW k \in Nat, k \in U PROVE k + 1 \in U
    <3> SUFFICES ASSUME NEW i \in 1..(n + 1), i = k + 2 PROVE top[i] \in Nat
      BY <2>2
    <3>1. k + 1 \in 1..n /\ k + 1 <= k + 1 /\ (k + 1) + 1 = i
      OBVIOUS
    <3>2. top[i] = top[k + 1] + h[k + 1]
      BY <1>a, <3>1
    <3> QED
      BY <2>2, <3>1, <3>2
  <2> HIDE DEF U
  <2> QED
    BY <2>1, <2>2, AllNumbers
<1>9. \A i \in 1..(n + 1) : top[i] \in Nat
  <2> TAKE i \in 1..(n + 1)
  <2>1. i - 1 \in U
    BY <1>8
  <2> QED
    BY <2>1
<1>10. top = [i \in 1..(n + 1) |-> top[i]] /\ top[1] = 64
  BY <1>7
<1> QED
  BY <1>a, <1>9, <1>10 DEF Summed
LEMMA TopsGrow ==
  ASSUME NEW n \in Nat, NEW h \in [1..n -> Nat], NEW top, top = Tops(h)
  PROVE  \A i \in 1..n, j \in 1..(n + 1) : i < j => top[i] + h[i] <= top[j]
PROOF
<1>0. Summed(top, n, h)
  BY TopsAre
<1>1. /\ top \in [1..(n + 1) -> Nat]
      /\ \A i \in 1..n : top[i + 1] = top[i] + h[i]
  BY <1>0 DEF Summed
<1> DEFINE S == {k \in Nat : \A i \in 1..n : i + k + 1 \in 1..(n + 1) => top[i] + h[i] <= top[i + k + 1]}
<1>2. 0 \in S
  BY <1>1
<1>3. ASSUME NEW k \in Nat, k \in S PROVE k + 1 \in S
  <2> SUFFICES ASSUME NEW i \in 1..n, i + (k + 1) + 1 \in 1..(n + 1)
               PROVE  top[i] + h[i] <= top[i + (k + 1) + 1]
    OBVIOUS
  <2>1. i + k + 1 \in 1..n /\ i + k + 1 \in 1..(n + 1)
    OBVIOUS
  <2>2. top[i] + h[i] <= top[i + k + 1]
    BY <1>3, <2>1
  <2>3. PICK j \in 1..n : j = i + k + 1
    BY <2>1
  <2>4. top[j + 1] = top[j] + h[j] /\ j + 1 = i + (k + 1) + 1 /\ h[j] \in Nat
    BY <1>1, <2>3
  <2>5. top[i] \in Nat /\ h[i] \in Nat /\ top[j] \in Nat
    <3>1. i \in 1..(n + 1) /\ j \in 1..(n + 1)
      OBVIOUS
    <3> QED
      BY <1>1, <3>1
  <2> QED
    BY <2>2, <2>3, <2>4, <2>5
<1>4. \A k \in Nat : k \in S
  <2> HIDE DEF S
  <2> QED
    BY <1>2, <1>3, AllNumbers
<1> SUFFICES ASSUME NEW i \in 1..n, NEW j \in 1..(n + 1), i < j
             PROVE  top[i] + h[i] <= top[j]
  OBVIOUS
<1>5. j - i - 1 \in Nat /\ i + (j - i - 1) + 1 = j
  OBVIOUS
<1> QED
  BY <1>4, <1>5

\* The order of the nodes of a column has each of them once.
LEMMA OrderIs ==
  ASSUME NEW N, IsFiniteSet(N), NEW order, order = InOrder(N)
  PROVE  /\ Cardinality(N) \in Nat /\ order \in [1..Cardinality(N) -> N]
         /\ \A i, j \in 1..Cardinality(N) : order[i] = order[j] => i = j
         /\ \A n \in N : \E i \in 1..Cardinality(N) : order[i] = n
PROOF
<1>1. Cardinality(N) \in Nat /\ ExistsBijection(1..Cardinality(N), N)
  BY FS_CardinalityType
<1>2. \E f \in [1..Cardinality(N) -> N] : IsInjective(f)
  BY <1>1 DEF ExistsBijection, Bijection, Injection
<1>3. order \in [1..Cardinality(N) -> N] /\ IsInjective(order)
  BY <1>2 DEF InOrder, SetToSeq
<1>4. order \in Injection(1..Cardinality(N), N)
  BY <1>3 DEF Injection
<1>5. IsFiniteSet(1..Cardinality(N)) /\ Cardinality(1..Cardinality(N)) = Cardinality(N)
  <2>1. 1 <= Cardinality(N) => Cardinality(N) - 1 + 1 = Cardinality(N)
    BY <1>1
  <2> QED
    BY <1>1, FS_Interval
<1>6. order \in Surjection(1..Cardinality(N), N)
  BY <1>4, <1>5, FS_Injection
<1>7. \A i, j \in 1..Cardinality(N) : order[i] = order[j] => i = j
  BY <1>3 DEF IsInjective
<1>8. \A n \in N : \E i \in 1..Cardinality(N) : order[i] = n
  BY <1>6 DEF Surjection
<1> QED
  BY <1>1, <1>3, <1>7, <1>8
(***************************************************************************)
(* A panel: positions P of the nodes N, one for each, apart, at some of    *)
(* the x in X, from a height on and above another.                         *)
(***************************************************************************)
OneId(N) == \A m, n \in N : m.id = n.id => m = n
Drawn(P, N) == {p.id : p \in P} = {n.id : n \in N} /\ \A p, q \in P : p.id = q.id => p = q
Panel(P, N, X) == Drawn(P, N) /\ Apart(P) /\ \A p \in P : p.x \in X
Column(P, N, x, from, to) ==
  Panel(P, N, {x}) /\ \A p \in P : p.y \in Int /\ from <= p.y /\ p.y + 142 <= to

LEMMA JoinDrawn ==
  ASSUME NEW P, NEW Q, NEW N, NEW M, Drawn(P, N), Drawn(Q, M), N \cap M = {}, OneId(N \cup M)
  PROVE  Drawn(P \cup Q, N \cup M)
PROOF
<1>1. {p.id : p \in P \cup Q} = {n.id : n \in N \cup M}
  <2>1. /\ {p.id : p \in P \cup Q} = {p.id : p \in P} \cup {q.id : q \in Q}
        /\ {n.id : n \in N \cup M} = {n.id : n \in N} \cup {m.id : m \in M}
    OBVIOUS
  <2> QED
    BY <2>1 DEF Drawn
<1>2. ASSUME NEW p \in P, NEW q \in Q PROVE p.id # q.id
  <2>1. PICK n \in N : n.id = p.id
    BY DEF Drawn
  <2>2. PICK m \in M : m.id = q.id
    BY DEF Drawn
  <2> QED
    BY <2>1, <2>2 DEF OneId
<1> QED
  BY <1>1, <1>2 DEF Drawn

\* Two panels side by side are a panel.
LEMMA Beside ==
  ASSUME NEW P, NEW Q, NEW N, NEW M, NEW X, NEW Y, Panel(P, N, X), Panel(Q, M, Y),
         N \cap M = {}, X \cap Y = {}, OneId(N \cup M)
  PROVE  Panel(P \cup Q, N \cup M, X \cup Y)
PROOF
<1>1. Drawn(P \cup Q, N \cup M)
  BY JoinDrawn DEF Panel
<1>2. \A p \in P \cup Q : p.x \in X \cup Y
  BY DEF Panel
<1>3. \A p \in P, q \in Q : p.x # q.x
  BY DEF Panel
<1>4. Apart(P \cup Q)
  BY <1>3 DEF Panel, Apart
<1> QED
  BY <1>1, <1>2, <1>4 DEF Panel

LEMMA PlacedAre ==
  ASSUME NEW N, IsFiniteSet(N), OneId(N), NEW x, NEW from \in Int
  PROVE  Column(place(N, x, from), N, x, from, from + Cardinality(N) * 142)
PROOF
<1> DEFINE order == InOrder(N)
           k == Cardinality(N)
           At(i) == [id |-> order[i].id, x |-> x, y |-> from + (i - 1) * 142]
           P == place(N, x, from)
<1>1. /\ k \in Nat /\ order \in [1..k -> N]
      /\ \A i, j \in 1..k : order[i] = order[j] => i = j
      /\ \A n \in N : \E i \in 1..k : order[i] = n
  BY OrderIs
<1>2. P = {At(i) : i \in 1..k}
  BY <1>1 DEF place
<1>3. \A i \in 1..k : At(i).id = order[i].id /\ At(i).x = x /\ At(i).y = from + (i - 1) * 142
  OBVIOUS
<1> HIDE DEF order, k, At, P
<1>4. {p.id : p \in P} = {n.id : n \in N}
  <2>1. \A p \in P : \E n \in N : p.id = n.id
    BY <1>1, <1>2, <1>3
  <2>2. \A n \in N : \E p \in P : p.id = n.id
    BY <1>1, <1>2, <1>3
  <2> QED
    BY <2>1, <2>2
<1>5. ASSUME NEW i \in 1..k, NEW j \in 1..k, At(i).id = At(j).id PROVE i = j
  <2>1. order[i] = order[j]
    BY <1>1, <1>3, <1>5 DEF OneId
  <2> QED
    BY <1>1, <2>1
<1>6. Drawn(P, N)
  BY <1>2, <1>4, <1>5 DEF Drawn
<1>7. \A i \in 1..k : At(i).y \in Int /\ from <= At(i).y /\ At(i).y + 142 <= from + k * 142
  BY <1>1, <1>3
<1>8. \A i, j \in 1..k : i # j => At(i).y - At(j).y >= 142 \/ At(j).y - At(i).y >= 142
  BY <1>1, <1>3
<1>9. Apart(P)
  BY <1>2, <1>8 DEF Apart
<1> QED
  BY <1>2, <1>3, <1>6, <1>7, <1>9 DEF Column, Panel, P, k
\* What a layout needs of a drawn graph: finitely many nodes of each type, one
\* of an ID, and a container in one project at most.
Layoutable(v) ==
  /\ \A t : IsFiniteSet(OfType(v, t)) /\ OneId(v.nodes)
  /\ \A p, q \in OfType(v, "DOCKER_COMPOSE_PROJECT") :
       p # q => Members(v, p) \cap Members(v, q) = {}
  /\ \A p \in OfType(v, "DOCKER_COMPOSE_PROJECT") : Members(v, p) \subseteq OfType(v, "DOCKER_CONTAINER")

LEMMA GroupsAre ==
  ASSUME NEW v, Layoutable(v), NEW px, NEW cx, px # cx
  PROVE  Panel(placeComposeGroups(v, px, cx),
               OfType(v, "DOCKER_COMPOSE_PROJECT") \cup OfType(v, "DOCKER_CONTAINER"), {px, cx})
PROOF
<1> DEFINE projects == OfType(v, "DOCKER_COMPOSE_PROJECT")
           containers == OfType(v, "DOCKER_CONTAINER")
           order == InOrder(projects)
           k == Cardinality(projects)
           members == [i \in DOMAIN order |-> Members(v, order[i])]
           heights == [i \in DOMAIN order |-> Height(members[i])]
           top == Tops(heights)
           Centre(i) == IF members[i] = {} THEN 0 ELSE (Cardinality(members[i]) - 1) * 71
           grouped == UNION {members[i] : i \in DOMAIN order}
           Beginning(i) == [id |-> order[i].id, x |-> px, y |-> top[i] + Centre(i)]
           Group(i) == place(members[i], cx, top[i])
           A == {Beginning(i) : i \in DOMAIN order}
           B == UNION {Group(i) : i \in DOMAIN order}
           C == place(containers \ grouped, cx, top[Len(order) + 1])
<1>1. placeComposeGroups(v, px, cx) = A \cup B \cup C
  BY DEF placeComposeGroups
<1>2. /\ IsFiniteSet(projects) /\ IsFiniteSet(containers)
      /\ OneId(projects) /\ OneId(containers) /\ OneId(projects \cup containers)
  BY DEF Layoutable, OneId, OfType
<1>3. /\ k \in Nat /\ order \in [1..k -> projects]
      /\ \A i, j \in 1..k : order[i] = order[j] => i = j
      /\ \A n \in projects : \E i \in 1..k : order[i] = n
  <2> HIDE DEF projects
  <2> QED
    BY <1>2, OrderIs
<1>4. DOMAIN order = 1..k /\ Len(order) = k
  BY <1>3
<1>5. \A i \in 1..k : members[i] = Members(v, order[i])
  BY <1>4
<1>6. \A i \in 1..k : /\ members[i] \subseteq containers /\ IsFiniteSet(members[i]) /\ OneId(members[i])
                      /\ Cardinality(members[i]) \in Nat
                      /\ (members[i] # {} => Cardinality(members[i]) >= 1)
  <2> TAKE i \in 1..k
  <2>1. members[i] \subseteq containers
    BY <1>3, <1>5 DEF Layoutable
  <2> HIDE DEF members, containers
  <2>2. IsFiniteSet(members[i])
    BY <1>2, <2>1, FS_Subset
  <2>3. Cardinality(members[i]) \in Nat /\ (members[i] # {} => Cardinality(members[i]) >= 1)
    BY <2>2, FS_CardinalityType, FS_EmptySet
  <2> QED
    BY <1>2, <2>1, <2>2, <2>3 DEF OneId
<1>7. \A i, j \in 1..k : i # j => members[i] \cap members[j] = {}
  BY <1>3, <1>5 DEF Layoutable
<1>8. heights \in [1..k -> Nat] /\ \A i \in 1..k : heights[i] = Height(members[i])
  <2>1. \A i \in 1..k : Height(members[i]) \in Nat
    BY <1>6 DEF Height
  <2> QED
    BY <1>4, <2>1
<1> HIDE DEF members, heights, order, k, projects, containers
<1>9. Summed(top, k, heights)
  BY <1>3, <1>8, TopsAre
<1>10. \A i \in 1..k, j \in 1..(k + 1) : i < j => top[i] + heights[i] <= top[j]
  BY <1>3, <1>8, TopsGrow
<1> HIDE DEF top
<1>11. \A i \in 1..(k + 1) : top[i] \in Nat
  BY <1>9 DEF Summed
<1>12. \A i \in 1..k : /\ Centre(i) \in Nat
                       /\ Centre(i) + 142 <= heights[i]
                       /\ Cardinality(members[i]) * 142 <= heights[i]
  <2> TAKE i \in 1..k
  <2>1. PICK c \in Nat : c = Cardinality(members[i])
    BY <1>6
  <2>2. heights[i] = Height(members[i])
    BY <1>8
  <2>3. CASE members[i] = {}
    <3>1. c = 0 /\ heights[i] = 176 /\ Centre(i) = 0
      BY <2>1, <2>2, <2>3, FS_EmptySet DEF Height
    <3> QED
      BY <2>1, <3>1
  <2>4. CASE members[i] # {}
    <3>1. c >= 1 /\ heights[i] = c * 142 + 34 /\ Centre(i) = (c - 1) * 71
      BY <1>6, <2>1, <2>2, <2>4 DEF Height
    <3> QED
      BY <2>1, <3>1
  <2> QED
    BY <2>3, <2>4
<1> HIDE DEF Centre
\* The projects.
<1>13. Panel(A, projects, {px})
  <2>1. \A i \in 1..k : /\ Beginning(i).id = order[i].id /\ Beginning(i).x = px
                        /\ Beginning(i).y = top[i] + Centre(i)
    OBVIOUS
  <2>2. A = {Beginning(i) : i \in 1..k}
    BY <1>4
  <2> HIDE DEF Beginning, A
  <2>3. {p.id : p \in A} = {n.id : n \in projects}
    <3>1. \A p \in A : \E n \in projects : p.id = n.id
      BY <1>3, <2>1, <2>2
    <3>2. \A n \in projects : \E p \in A : p.id = n.id
      BY <1>3, <2>1, <2>2
    <3> QED
      BY <3>1, <3>2
  <2>4. \A i, j \in 1..k : Beginning(i).id = Beginning(j).id => i = j
    BY <1>2, <1>3, <2>1 DEF OneId
  <2>5. Drawn(A, projects)
    BY <2>2, <2>3, <2>4 DEF Drawn
  <2>6. ASSUME NEW i \in 1..k, NEW j \in 1..k, i < j
        PROVE  Beginning(j).y - Beginning(i).y >= 142
    <3>a. j \in 1..(k + 1)
      BY <1>3
    <3>1. top[i] + heights[i] <= top[j]
      BY <1>10, <2>6, <3>a
    <3>2. top[i] \in Nat /\ top[j] \in Nat /\ heights[i] \in Nat
      BY <1>3, <1>8, <1>11
    <3> QED
      BY <1>12, <2>1, <3>1, <3>2
  <2>7. \A i, j \in 1..k : i = j \/ i < j \/ j < i
    BY <1>3
  <2>8. Apart(A)
    BY <2>2, <2>6, <2>7 DEF Apart
  <2> QED
    BY <2>1, <2>2, <2>5, <2>8 DEF Panel
<1> HIDE DEF A
\* The containers of the projects.
<1>14. ASSUME NEW i \in 1..k
       PROVE  /\ Column(Group(i), members[i], cx, top[i], top[i] + Cardinality(members[i]) * 142)
              /\ \A p \in Group(i) : p.y \in Int /\ top[i] <= p.y /\ p.y + 142 <= top[i] + heights[i]
  <2>1. top[i] \in Int /\ top[i] \in Nat /\ heights[i] \in Nat
    BY <1>3, <1>8, <1>11
  <2>2. Column(Group(i), members[i], cx, top[i], top[i] + Cardinality(members[i]) * 142)
    BY <1>6, <2>1, PlacedAre
  <2> QED
    BY <1>6, <1>12, <2>1, <2>2 DEF Column
<1>15. B = UNION {Group(i) : i \in 1..k} /\ grouped = UNION {members[i] : i \in 1..k}
  BY <1>4
<1> HIDE DEF Group, B, grouped
<1>16. \A i \in 1..k : Drawn(Group(i), members[i]) /\ Apart(Group(i)) /\ \A p \in Group(i) : p.x = cx
  BY <1>14 DEF Column, Panel
<1>17. Column(B, grouped, cx, 64, top[k + 1])
  <2>1. {p.id : p \in B} = {n.id : n \in grouped}
    <3>1. \A i \in 1..k : {p.id : p \in Group(i)} = {n.id : n \in members[i]}
      BY <1>16 DEF Drawn
    <3>2. \A p \in B : \E n \in grouped : p.id = n.id
      BY <1>15, <3>1
    <3>3. \A n \in grouped : \E p \in B : p.id = n.id
      BY <1>15, <3>1
    <3> QED
      BY <3>2, <3>3
  <2>2. ASSUME NEW i \in 1..k, NEW j \in 1..k, NEW p \in Group(i), NEW q \in Group(j), p.id = q.id
        PROVE  i = j
    <3>1. PICK m \in members[i] : m.id = p.id
      BY <1>16 DEF Drawn
    <3>2. PICK n \in members[j] : n.id = q.id
      BY <1>16 DEF Drawn
    <3>3. m = n
      BY <1>2, <1>6, <2>2, <3>1, <3>2 DEF OneId
    <3> QED
      BY <1>7, <3>1, <3>2, <3>3
  <2>3. \A p, q \in B : p.id = q.id => p = q
    BY <1>15, <1>16, <2>2 DEF Drawn
  <2>4. ASSUME NEW i \in 1..k, NEW j \in 1..k, i < j, NEW p \in Group(i), NEW q \in Group(j)
        PROVE  q.y - p.y >= 142
    <3>a. j \in 1..(k + 1)
      BY <1>3
    <3>1. top[i] + heights[i] <= top[j]
      BY <1>10, <2>4, <3>a
    <3>2. top[i] \in Nat /\ top[j] \in Nat /\ heights[i] \in Nat
      BY <1>3, <1>8, <1>11
    <3> QED
      BY <1>14, <3>1, <3>2
  <2>5. \A i, j \in 1..k : i = j \/ i < j \/ j < i
    BY <1>3
  <2>6. Apart(B)
    BY <1>15, <1>16, <2>4, <2>5 DEF Apart
  <2>7. ASSUME NEW i \in 1..k, NEW p \in Group(i) PROVE p.y \in Int /\ 64 <= p.y /\ p.y + 142 <= top[k + 1]
    <3>1. top[i] + heights[i] <= top[k + 1] /\ top[i] \in Nat /\ heights[i] \in Nat /\ top[k + 1] \in Nat
      BY <1>3, <1>8, <1>10, <1>11
    <3>2. 64 <= top[i]
      <4>1. top[1] = 64
        BY <1>9 DEF Summed
      <4>2. CASE i = 1
        BY <4>1, <4>2
      <4>3. CASE i # 1
        <5>1. 1 \in 1..k /\ 1 < i
          BY <1>3, <4>3
        <5>2. top[1] + heights[1] <= top[i] /\ heights[1] \in Nat
          BY <1>3, <1>8, <1>10, <5>1
        <5> QED
          BY <3>1, <4>1, <5>2
      <4> QED
        BY <4>2, <4>3
    <3> QED
      BY <1>14, <3>1, <3>2
  <2> QED
    BY <1>15, <1>16, <2>1, <2>3, <2>6, <2>7 DEF Column, Panel, Drawn
\* The other containers.
<1>18. grouped \subseteq containers
  BY <1>6, <1>15
<1>19. Column(C, containers \ grouped, cx, top[k + 1], top[k + 1] + Cardinality(containers \ grouped) * 142)
  <2>1. IsFiniteSet(containers \ grouped) /\ OneId(containers \ grouped)
    BY <1>2, FS_Subset DEF OneId
  <2>2. top[k + 1] \in Int
    BY <1>3, <1>11
  <2> QED
    BY <1>4, <2>1, <2>2, PlacedAre
<1> HIDE DEF C
<1>20. Panel(B \cup C, containers, {cx})
  <2>1. containers = grouped \cup (containers \ grouped)
    BY <1>18
  <2>2. Drawn(B \cup C, containers)
    <3>1. Drawn(B, grouped) /\ Drawn(C, containers \ grouped)
      BY <1>17, <1>19 DEF Column, Panel
    <3>2. OneId(grouped \cup (containers \ grouped))
      BY <1>2, <2>1
    <3> QED
      BY <2>1, <3>1, <3>2, JoinDrawn
  <2>3. \A p \in B, q \in C : q.y - p.y >= 142
    <3>1. top[k + 1] \in Int
      BY <1>3, <1>11
    <3>2. \A p \in B : p.y \in Int /\ p.y + 142 <= top[k + 1]
      BY <1>17 DEF Column
    <3>3. \A q \in C : q.y \in Int /\ top[k + 1] <= q.y
      BY <1>19 DEF Column
    <3> QED
      BY <3>1, <3>2, <3>3
  <2>4. Apart(B) /\ Apart(C) /\ \A p \in B \cup C : p.x \in {cx}
    BY <1>17, <1>19 DEF Column, Panel
  <2>5. Apart(B \cup C)
    BY <2>3, <2>4 DEF Apart
  <2> QED
    BY <2>2, <2>4, <2>5 DEF Panel
<1>21. projects \cap containers = {}
  BY DEF projects, containers, OfType
<1>22. Panel(A \cup (B \cup C), projects \cup containers, {px} \cup {cx})
  <2>1. {px} \cap {cx} = {}
    OBVIOUS
  <2> QED
    BY <1>2, <1>13, <1>20, <1>21, <2>1, Beside
<1>23. A \cup (B \cup C) = A \cup B \cup C /\ {px} \cup {cx} = {px, cx}
  OBVIOUS
<1> QED
  BY <1>1, <1>22, <1>23 DEF projects, containers

LEMMA DrawnTypesFinite ==
  ASSUME NEW d, WellFormed(d),
         NEW t \in {"SERVER", "DOCKER_ENGINE", "DOCKER_COMPOSE_PROJECT", "DOCKER_CONTAINER", "NETWORK", "PORT", "MOUNT"}
  PROVE  IsFiniteSet(OfType(create(d), t))
PROOF
<1> DEFINE ids == HostIds({}, {}) \cup DockerIds(d.containers)
           nodes == OfType(create(d), t)
           g == [id \in ids |-> {n \in nodes : n.id = id}]
<1>1. IsFiniteSet(ids)
  <2>1. IsFiniteSet(HostIds({}, {}))
    BY FS_EmptySet, HostIdsFinite
  <2>2. IsFiniteSet(DockerIds(d.containers))
    BY DockerIdsFinite DEF WellFormed
  <2> QED
    BY <2>1, <2>2, FS_Union
<1>2. \A n \in nodes : n.id \in ids
  <2> TAKE n \in nodes
  <2>1. n \in create(d).nodes /\ type(n.id) = t
    BY DEF OfType
  <2>2. n.id \in HostIds(d.systemd.services, d.listeners.items)
                 \cup DockerIds(d.containers) \cup CaddyIds(d.caddy.instances)
    BY <2>1, GraphIdsAre, ZenonT(30)
  <2>3. n.id \notin CaddyIds(d.caddy.instances)
    BY <2>1, TypesAre DEF CaddyIds, UpstreamsOf
  <2>4. n.id \in HostIds(d.systemd.services, d.listeners.items) => n.id \in HostIds({}, {})
    BY <2>1, TypesAre DEF HostIds
  <2> QED
    BY <2>2, <2>3, <2>4
<1>3. g = [id \in ids |-> g[id]] /\ \A n \in nodes : \E id \in ids : n \in g[id]
  BY <1>2
<1>4. ASSUME NEW id \in ids PROVE IsFiniteSet(g[id])
  <2>1. g[id] = {n \in nodes : n.id = id}
    OBVIOUS
  <2>2. CASE \E n \in nodes : n.id = id
    <3>1. PICK n \in nodes : n.id = id
      BY <2>2
    <3>2. \A m \in nodes : m.id = id => m = n
      BY <3>1, OneNodePerId DEF OfType
    <3>3. g[id] = {n}
      BY <2>1, <3>1, <3>2
    <3> QED
      BY <3>3, FS_Singleton
  <2>3. CASE ~\E n \in nodes : n.id = id
    <3>1. g[id] = {}
      BY <2>1, <2>3
    <3> QED
      BY <3>1, FS_EmptySet
  <2> QED
    BY <2>2, <2>3
<1> HIDE DEF g, ids, nodes
<1>5. IsFiniteSet(nodes)
  BY <1>1, <1>3, <1>4, FiniteCover
<1> QED
  BY <1>5 DEF nodes

\* The views that are drawn, with what they can show.
DrawnTypes(view) ==
  {"SERVER", "DOCKER_ENGINE", "DOCKER_COMPOSE_PROJECT", "DOCKER_CONTAINER"}
  \cup CASE view = "NETWORKING" -> {"NETWORK", "PORT"} [] view = "STORAGE" -> {"MOUNT"} [] OTHER -> {}

LEMMA LayoutableIs ==
  ASSUME NEW d, WellFormed(d), NEW v, v.nodes \subseteq create(d).nodes, v.edges \subseteq create(d).edges,
         NEW view, \A n \in v.nodes : type(n.id) \in DrawnTypes(view)
  PROVE  Layoutable(v)
PROOF
<1>1. ASSUME NEW t PROVE IsFiniteSet(OfType(v, t))
  <2>1. CASE t \in DrawnTypes(view)
    <3>1. t \in {"SERVER", "DOCKER_ENGINE", "DOCKER_COMPOSE_PROJECT", "DOCKER_CONTAINER", "NETWORK", "PORT", "MOUNT"}
      BY <2>1 DEF DrawnTypes
    <3>2. IsFiniteSet(OfType(create(d), t)) /\ OfType(v, t) \subseteq OfType(create(d), t)
      BY <3>1, DrawnTypesFinite DEF OfType
    <3> QED
      BY <3>2, FS_Subset
  <2>2. CASE t \notin DrawnTypes(view)
    <3>1. OfType(v, t) = {}
      BY <2>2 DEF OfType
    <3> QED
      BY <3>1, FS_EmptySet
  <2> QED
    BY <2>1, <2>2
<1>2. OneId(v.nodes)
  BY OneNodePerId DEF OneId
<1>3. ASSUME NEW p \in OfType(v, "DOCKER_COMPOSE_PROJECT"), NEW n \in Members(v, p)
      PROVE  \E c \in d.containers : /\ d.docker = "AVAILABLE" /\ n.id = containerId(c.id)
                                     /\ p.id = Parent(c)
  <2>1. n \in create(d).nodes /\ type(n.id) = "DOCKER_CONTAINER" /\ n.id \in Targets(v, "CONTAINS", p.id)
    BY DEF Members, Nodes
  <2>2. PICK c \in d.containers : n.id = containerId(c.id)
    BY <2>1, ContainersAre DEF OfType
  <2>3. d.docker = "AVAILABLE"
    BY <2>1, ContainersAre DEF OfType
  <2>4. p.id \in Sources(create(d), "CONTAINS", containerId(c.id))
    BY <2>1, <2>2 DEF Targets, Sources
  <2>5. p.id \in UNION {Sources(create(d), relation, containerId(c.id))
                        : relation \in {"CONTAINS", "RUNS", "EXPOSES", "MOUNTS"}}
    BY <2>4
  <2>6. \A x, y \in d.containers : x.id = y.id => x = y
    BY DEF WellFormed
  <2>7. p.id \in {Parent(c)}
    BY <2>3, <2>5, <2>6, ParentsAre
  <2> QED
    BY <2>2, <2>3, <2>7
<1>4. ASSUME NEW p \in OfType(v, "DOCKER_COMPOSE_PROJECT"), NEW q \in OfType(v, "DOCKER_COMPOSE_PROJECT"),
             NEW n \in Members(v, p), n \in Members(v, q)
      PROVE  p = q
  <2>1. PICK c \in d.containers : n.id = containerId(c.id) /\ p.id = Parent(c)
    BY <1>3
  <2>2. PICK e \in d.containers : n.id = containerId(e.id) /\ q.id = Parent(e)
    BY <1>3, <1>4
  <2>3. c = e
    BY <2>1, <2>2, IdsAreInjective DEF WellFormed
  <2> QED
    BY <1>2, <2>1, <2>2, <2>3 DEF OneId, OfType
<1>5. \A p \in OfType(v, "DOCKER_COMPOSE_PROJECT") : Members(v, p) \subseteq OfType(v, "DOCKER_CONTAINER")
  BY DEF Members, Nodes, OfType
<1> QED
  BY <1>1, <1>2, <1>4, <1>5 DEF Layoutable

LEMMA DerivedIsPart ==
  ASSUME NEW graph, NEW view \in {"OVERVIEW", "NETWORKING", "STORAGE"}, NEW focus,
         NEW v, v = deriveVisibleGraph(graph, view, {}, focus)
  PROVE  /\ v.nodes \subseteq graph.nodes /\ v.edges \subseteq graph.edges
         /\ \A n \in v.nodes : type(n.id) \in DrawnTypes(view)
PROOF
<1> DEFINE hidden == Hidden(graph, {})
           shown == {n \in graph.nodes : type(n.id) \in viewTypes[view] /\ n.id \notin hidden}
           nodes == {n \in shown : ~isOrphanedSecondary(n, Between(graph.edges, shown))}
           near == {n \in nodes : n.id \in {focus} \cup Neighbours(graph, focus)}
<1>1. v = Visible(graph, IF HasFocus(nodes, focus) THEN near ELSE nodes)
  BY DEF deriveVisibleGraph
<1>2. viewTypes[view] \subseteq DrawnTypes(view)
  BY DEF viewTypes, DrawnTypes
<1>3. near \subseteq nodes /\ nodes \subseteq graph.nodes /\ \A n \in nodes : type(n.id) \in DrawnTypes(view)
  BY <1>2
<1> HIDE DEF nodes, near
<1>4. (v.nodes = near \/ v.nodes = nodes) /\ v.edges \subseteq graph.edges
  BY <1>1 DEF Visible, Between
<1> QED
  BY <1>3, <1>4

LEMMA NothingPlaced == \A x, y : place({}, x, y) = {}
PROOF
<1>1. Cardinality({}) = 0 /\ IsFiniteSet({})
  BY FS_EmptySet
<1>2. InOrder({}) \in [1..0 -> {}]
  BY <1>1, OrderIs
<1>3. DOMAIN InOrder({}) = {}
  BY <1>2
<1> QED
  BY <1>3 DEF place

\* Every node is drawn once and none over another.
LEMMA LayoutIs ==
  ASSUME NEW v, Layoutable(v), NEW view \in {"OVERVIEW", "NETWORKING", "STORAGE"},
         \A n \in v.nodes : type(n.id) \in DrawnTypes(view)
  PROVE  Drawn(layoutVisibleGraph(v, view), v.nodes) /\ Apart(layoutVisibleGraph(v, view))
PROOF
<1> DEFINE Of(t) == OfType(v, t)
           groups == Of("DOCKER_COMPOSE_PROJECT") \cup Of("DOCKER_CONTAINER")
<1>1. /\ \A t : IsFiniteSet(Of(t)) /\ OneId(Of(t))
      /\ \A N : N \subseteq v.nodes => OneId(N)
      /\ \A t : Of(t) \subseteq v.nodes
  BY DEF Layoutable, OneId, OfType
<1>2. \A t, u : t # u => Of(t) \cap Of(u) = {}
  BY DEF OfType
<1>3. groups \subseteq v.nodes /\ \A t \in {"SERVER", "DOCKER_ENGINE", "NETWORK", "PORT", "MOUNT"} : Of(t) \cap groups = {}
  BY <1>1, <1>2
<1>4. \A t : t \notin DrawnTypes(view) => Of(t) = {}
  BY DEF OfType
<1>5. \A t, x : \A y \in Int : Panel(place(Of(t), x, y), Of(t), {x})
  <2> HIDE DEF Of
  <2> QED
    BY <1>1, PlacedAre DEF Column
<1>6. v.nodes = UNION {Of(t) : t \in DrawnTypes(view)}
  BY DEF OfType
<1> DEFINE server == place(Of("SERVER"), 32, 310)
           engine(x) == place(Of("DOCKER_ENGINE"), x, 310)
<1>7. ASSUME NEW x, NEW G, NEW X, Panel(G, groups, X), {32} \cap {x} = {}, ({32} \cup {x}) \cap X = {}
      PROVE  Panel((server \cup engine(x)) \cup G, (Of("SERVER") \cup Of("DOCKER_ENGINE")) \cup groups,
                   ({32} \cup {x}) \cup X)
  <2>1. Panel(server, Of("SERVER"), {32}) /\ Panel(engine(x), Of("DOCKER_ENGINE"), {x})
    BY <1>5
  <2>2. /\ Of("SERVER") \cap Of("DOCKER_ENGINE") = {} /\ OneId(Of("SERVER") \cup Of("DOCKER_ENGINE"))
        /\ (Of("SERVER") \cup Of("DOCKER_ENGINE")) \cap groups = {}
        /\ OneId((Of("SERVER") \cup Of("DOCKER_ENGINE")) \cup groups)
    BY <1>1, <1>2, <1>3
  <2> HIDE DEF Of, groups, server, engine
  <2>4. Panel(server \cup engine(x), Of("SERVER") \cup Of("DOCKER_ENGINE"), {32} \cup {x})
    BY <1>7, <2>1, <2>2, Beside
  <2> QED
    BY <1>7, <2>2, <2>4, Beside
<1> DEFINE base == (Of("SERVER") \cup Of("DOCKER_ENGINE")) \cup groups
           narrow == (server \cup engine(245)) \cup placeComposeGroups(v, 470, 730)
           wide == (server \cup engine(270)) \cup placeComposeGroups(v, 530, 800)
<1>8. Panel(narrow, base, ({32} \cup {245}) \cup {470, 730}) /\ Panel(wide, base, ({32} \cup {270}) \cup {530, 800})
  <2>1. Panel(placeComposeGroups(v, 470, 730), groups, {470, 730}) /\ Panel(placeComposeGroups(v, 530, 800), groups, {530, 800})
    BY GroupsAre
  <2>2. /\ {32} \cap {245} = {} /\ ({32} \cup {245}) \cap {470, 730} = {}
        /\ {32} \cap {270} = {} /\ ({32} \cup {270}) \cap {530, 800} = {}
    OBVIOUS
  <2> HIDE DEF Of, groups, server, engine
  <2>3. Panel(narrow, base, ({32} \cup {245}) \cup {470, 730})
    <3>1. PICK G : G = placeComposeGroups(v, 470, 730)
      OBVIOUS
    <3>2. PICK X : X = {470, 730}
      OBVIOUS
    <3>3. PICK x : x = 245
      OBVIOUS
    <3>4. Panel(G, groups, X) /\ {32} \cap {x} = {} /\ ({32} \cup {x}) \cap X = {}
      BY <2>1, <2>2, <3>1, <3>2, <3>3
    <3>5. Panel((server \cup engine(x)) \cup G, base, ({32} \cup {x}) \cup X)
      BY <1>7, <3>4
    <3>6. narrow = (server \cup engine(x)) \cup G
      BY <3>1, <3>3, ZenonT(30)
    <3>7. ({32} \cup {245}) \cup {470, 730} = ({32} \cup {x}) \cup X
      BY <3>2, <3>3, ZenonT(30)
    <3> HIDE DEF narrow
    <3> QED
      BY <3>5, <3>6, <3>7, ZenonT(30)
  <2>4. Panel(wide, base, ({32} \cup {270}) \cup {530, 800})
    <3>1. PICK G : G = placeComposeGroups(v, 530, 800)
      OBVIOUS
    <3>2. PICK X : X = {530, 800}
      OBVIOUS
    <3>3. PICK x : x = 270
      OBVIOUS
    <3>4. Panel(G, groups, X) /\ {32} \cap {x} = {} /\ ({32} \cup {x}) \cap X = {}
      BY <2>1, <2>2, <3>1, <3>2, <3>3
    <3>5. Panel((server \cup engine(x)) \cup G, base, ({32} \cup {x}) \cup X)
      BY <1>7, <3>4
    <3>6. wide = (server \cup engine(x)) \cup G
      BY <3>1, <3>3, ZenonT(30)
    <3>7. ({32} \cup {270}) \cup {530, 800} = ({32} \cup {x}) \cup X
      BY <3>2, <3>3, ZenonT(30)
    <3> HIDE DEF wide
    <3> QED
      BY <3>5, <3>6, <3>7, ZenonT(30)
  <2> HIDE DEF narrow, wide
  <2> QED
    BY <2>3, <2>4, Zenon
<1>9. CASE view = "OVERVIEW"
  <2>1. /\ \A t \in {"NETWORK", "PORT", "MOUNT", "REVERSE_PROXY", "DOMAIN", "DIRECTORY"} : Of(t) = {}
        /\ v.nodes = base
    BY <1>4, <1>6, <1>9 DEF DrawnTypes
  <2>2. layoutVisibleGraph(v, view) = wide
    <3> DEFINE rest == place(Of("PORT"), 1070, 64)
                       \cup place(Of("MOUNT"), 1070, 64 + Cardinality(Of("PORT")) * 142)
                       \cup place(Of("NETWORK"), 1340, 64) \cup place(Of("REVERSE_PROXY"), 530, 64)
                       \cup place(Of("DOMAIN"), 800, 64) \cup place(Of("DIRECTORY"), 1070, 64)
    <3>1. layoutVisibleGraph(v, view) = wide \cup rest
      BY <1>9 DEF layoutVisibleGraph
    <3>2. \A x, y : /\ place(Of("PORT"), x, y) = {} /\ place(Of("MOUNT"), x, y) = {}
                    /\ place(Of("NETWORK"), x, y) = {} /\ place(Of("REVERSE_PROXY"), x, y) = {}
                    /\ place(Of("DOMAIN"), x, y) = {} /\ place(Of("DIRECTORY"), x, y) = {}
      <4> HIDE DEF Of
      <4> QED
        BY <2>1, NothingPlaced
    <3>3. rest = {}
      <4> HIDE DEF Of
      <4> QED
        BY <3>2
    <3> HIDE DEF wide, rest
    <3> QED
      BY <3>1, <3>3
  <2> QED
    BY <1>8, <2>1, <2>2 DEF Panel
<1>10. CASE view = "NETWORKING"
  <2> DEFINE networks == place(Of("NETWORK"), 1000, 64)
             ports == place(Of("PORT"), 1270, 64)
  <2>1. v.nodes = (base \cup Of("NETWORK")) \cup Of("PORT")
    BY <1>6, <1>10 DEF DrawnTypes
  <2>2. layoutVisibleGraph(v, view) = (narrow \cup networks) \cup ports
    BY <1>10 DEF layoutVisibleGraph
  <2>3. Panel(networks, Of("NETWORK"), {1000}) /\ Panel(ports, Of("PORT"), {1270})
    BY <1>5
  <2>4. /\ base \cap Of("NETWORK") = {} /\ (base \cup Of("NETWORK")) \cap Of("PORT") = {}
        /\ OneId(base \cup Of("NETWORK")) /\ OneId((base \cup Of("NETWORK")) \cup Of("PORT"))
    BY <1>1, <1>2, <1>3, <2>1
  <2> DEFINE X == ({32} \cup {245}) \cup {470, 730}
  <2>5. X \cap {1000} = {} /\ (X \cup {1000}) \cap {1270} = {}
    OBVIOUS
  <2>6. Panel(narrow, base, X)
    BY <1>8
  <2> HIDE DEF X, base, narrow, networks, ports, Of
  <2>7. Panel(narrow \cup networks, base \cup Of("NETWORK"), X \cup {1000})
    BY <2>3, <2>4, <2>5, <2>6, Beside
  <2>8. Panel((narrow \cup networks) \cup ports, (base \cup Of("NETWORK")) \cup Of("PORT"), (X \cup {1000}) \cup {1270})
    BY <2>3, <2>4, <2>5, <2>7, Beside
  <2> QED
    BY <2>1, <2>2, <2>8 DEF Panel
<1>11. CASE view = "STORAGE"
  <2> DEFINE mounts == place(Of("MOUNT"), 1010, 64)
             X == ({32} \cup {245}) \cup {470, 730}
  <2>1. v.nodes = base \cup Of("MOUNT")
    BY <1>6, <1>11 DEF DrawnTypes
  <2>2. layoutVisibleGraph(v, view) = narrow \cup mounts
    BY <1>11 DEF layoutVisibleGraph
  <2>3. Panel(mounts, Of("MOUNT"), {1010})
    BY <1>5
  <2>4. base \cap Of("MOUNT") = {} /\ OneId(base \cup Of("MOUNT"))
    BY <1>1, <1>2, <1>3, <2>1
  <2>5. X \cap {1010} = {}
    OBVIOUS
  <2>6. Panel(narrow, base, X)
    BY <1>8
  <2> HIDE DEF X, base, narrow, mounts, Of
  <2>7. Panel(narrow \cup mounts, base \cup Of("MOUNT"), X \cup {1010})
    BY <2>3, <2>4, <2>5, <2>6, Beside
  <2> QED
    BY <2>1, <2>2, <2>7 DEF Panel
<1> QED
  BY <1>9, <1>10, <1>11
\* One position for each node.
LEMMA AsManyPlaced ==
  ASSUME NEW P, NEW N, IsFiniteSet(N), OneId(N), Drawn(P, N)
  PROVE  Cardinality(P) = Cardinality(N)
PROOF
<1> DEFINE ids == {n.id : n \in N}
           f == [n \in N |-> n.id]
           g == [p \in P |-> p.id]
<1>1. IsFiniteSet(ids) /\ Cardinality(ids) = Cardinality(N)
  <2>1. f = [n \in N |-> f[n]] /\ (\A m, n \in N : f[m] = f[n] => m = n) /\ ids = {f[n] : n \in N}
    BY DEF OneId
  <2> HIDE DEF f, ids
  <2> QED
    BY <2>1, ImageCount
<1>2. g \in Bijection(P, ids)
  <2>1. g \in [P -> ids] /\ (\A p, q \in P : g[p] = g[q] => p = q)
    BY DEF Drawn
  <2>2. \A i \in ids : \E p \in P : g[p] = i
    BY DEF Drawn
  <2> HIDE DEF g, ids
  <2> QED
    BY <2>1, <2>2 DEF Bijection, Injection, Surjection, IsInjective
<1> HIDE DEF g, ids
<1>3. IsFiniteSet(P)
  <2>1. g \in Injection(P, ids)
    BY <1>2 DEF Bijection
  <2> QED
    BY <1>1, <2>1, FS_Injection
<1>4. Cardinality(P) = Cardinality(ids)
  BY <1>2, <1>3, FS_Bijection DEF ExistsBijection
<1> QED
  BY <1>1, <1>4

PlacedFor(P, v) == Apart(P) /\ {p.id : p \in P} = Ids(v) /\ Cardinality(P) = Cardinality(v.nodes)

LEMMA VisiblePlaced ==
  ASSUME NEW s \in DOMAIN Scans, NEW view \in {"OVERVIEW", "NETWORKING", "STORAGE"}, NEW focus,
         NEW v, v = deriveVisibleGraph(Graphs[s], view, {}, focus), NEW P, P = layoutVisibleGraph(v, view)
  PROVE  PlacedFor(P, v)
PROOF
<1>1. PICK d : d = Scans[s]
  OBVIOUS
<1>2. WellFormed(d) /\ Graphs[s] = create(d)
  BY <1>1, ScansAre
<1>3. /\ v.nodes \subseteq create(d).nodes /\ v.edges \subseteq create(d).edges
      /\ \A n \in v.nodes : type(n.id) \in DrawnTypes(view)
  <2>1. /\ v.nodes \subseteq Graphs[s].nodes /\ v.edges \subseteq Graphs[s].edges
        /\ \A n \in v.nodes : type(n.id) \in DrawnTypes(view)
    BY DerivedIsPart
  <2> QED
    BY <1>2, <2>1
<1>4. Layoutable(v)
  BY <1>2, <1>3, LayoutableIs
<1>5. Drawn(P, v.nodes) /\ Apart(P)
  BY <1>3, <1>4, LayoutIs
<1>6. IsFiniteSet(v.nodes)
  <2> DEFINE Part == [t \in DrawnTypes(view) |-> OfType(v, t)]
  <2>1. IsFiniteSet(DrawnTypes(view))
    <3>1. DrawnTypes(view) \subseteq {"SERVER", "DOCKER_ENGINE", "DOCKER_COMPOSE_PROJECT", "DOCKER_CONTAINER"}
                                     \cup {"NETWORK", "PORT", "MOUNT"}
      BY DEF DrawnTypes
    <3>2. IsFiniteSet({"SERVER", "DOCKER_ENGINE", "DOCKER_COMPOSE_PROJECT", "DOCKER_CONTAINER"}
                      \cup {"NETWORK", "PORT", "MOUNT"})
      <4>1. \A a, b : IsFiniteSet({a, b})
        <5> TAKE a, b
        <5>1. {a, b} = {a} \cup {b}
          OBVIOUS
        <5>2. IsFiniteSet({a}) /\ IsFiniteSet({b})
          BY FS_Singleton
        <5>3. IsFiniteSet({a} \cup {b})
          BY <5>2, FS_Union
        <5> QED
          BY <5>1, <5>3
      <4>2. {"SERVER", "DOCKER_ENGINE", "DOCKER_COMPOSE_PROJECT", "DOCKER_CONTAINER"} \cup {"NETWORK", "PORT", "MOUNT"}
            = ({"SERVER", "DOCKER_ENGINE"} \cup {"DOCKER_COMPOSE_PROJECT", "DOCKER_CONTAINER"})
              \cup ({"NETWORK", "PORT"} \cup {"MOUNT", "MOUNT"})
        OBVIOUS
      <4>3. /\ IsFiniteSet({"SERVER", "DOCKER_ENGINE"} \cup {"DOCKER_COMPOSE_PROJECT", "DOCKER_CONTAINER"})
            /\ IsFiniteSet({"NETWORK", "PORT"} \cup {"MOUNT", "MOUNT"})
        BY <4>1, FS_Union
      <4> QED
        BY <4>2, <4>3, FS_Union
    <3> QED
      BY <3>1, <3>2, FS_Subset
  <2>2. /\ Part = [t \in DrawnTypes(view) |-> Part[t]]
        /\ \A t \in DrawnTypes(view) : IsFiniteSet(Part[t])
        /\ \A n \in v.nodes : \E t \in DrawnTypes(view) : n \in Part[t]
    BY <1>3, <1>4 DEF Layoutable, OfType
  <2> HIDE DEF Part
  <2> QED
    BY <2>1, <2>2, FiniteCover
<1>7. OneId(v.nodes)
  BY <1>4 DEF Layoutable
<1>8. Cardinality(P) = Cardinality(v.nodes)
  BY <1>5, <1>6, <1>7, AsManyPlaced
<1> QED
  BY <1>5, <1>8 DEF Drawn, Ids, PlacedFor

\* In the topology and in the views of networks and storage every node stands
\* at one place and none over another: layoutVisibleGraph and what it is given.
THEOREM NodesPlacedApart == Spec => []PlacedApart
PROOF
<1>1. WorkspaceIInv => PlacedApart
  <2> SUFFICES ASSUME WorkspaceIInv, ui.graph # None PROVE PlacedApart
    BY DEF PlacedApart
  <2>1. ui.graph \in DOMAIN Scans
    BY DEF WorkspaceIInv, PageState
  <2> DEFINE Placed(visible, view) ==
               /\ Apart(layoutVisibleGraph(visible, view))
               /\ {p.id : p \in layoutVisibleGraph(visible, view)} = Ids(visible)
               /\ Cardinality(layoutVisibleGraph(visible, view)) = Cardinality(visible.nodes)
  <2>2. \A view \in {"OVERVIEW", "NETWORKING", "STORAGE"} : \A focus :
          Placed(deriveVisibleGraph(Graphs[ui.graph], view, {}, focus), view)
    <3> TAKE view \in {"OVERVIEW", "NETWORKING", "STORAGE"}
    <3> TAKE focus
    <3>1. PICK v : v = deriveVisibleGraph(Graphs[ui.graph], view, {}, focus)
      OBVIOUS
    <3>2. PICK P : P = layoutVisibleGraph(v, view)
      OBVIOUS
    <3>3. PlacedFor(P, v)
      <4> HIDE DEF Placed
      <4>1. PICK s \in DOMAIN Scans : s = ui.graph
        BY <2>1
      <4>2. v = deriveVisibleGraph(Graphs[s], view, {}, focus)
        BY <3>1, <4>1
      <4> QED
        BY <3>2, <4>1, <4>2, VisiblePlaced
    <3> QED
      BY <3>1, <3>2, <3>3 DEF PlacedFor
  <2>3. Placed(Topology(ui), "OVERVIEW")
    <3> HIDE DEF Placed
    <3> QED
      BY <2>2 DEF Topology
  <2>4. \A view \in {"NETWORKING", "STORAGE"} : Placed(deriveVisibleGraph(Graphs[ui.graph], view, {}, None), view)
    <3> HIDE DEF Placed
    <3> QED
      BY <2>2
  <2> QED
    BY <2>3, <2>4, Zenon DEF PlacedApart
<1> QED
  BY <1>1, WorkspaceCorrect, PTL
=============================================================================
