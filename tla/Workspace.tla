----------------------------- MODULE Workspace -----------------------------
(***************************************************************************)
(* What the user does with a scanned graph in App.tsx: sections, the       *)
(* selected resource or change, the topology, and rescans in between.      *)
(*                                                                         *)
(* A handler is a function of the state of the page; the last assignment   *)
(* of a render wins, so a handler is the state with what it sets.  The     *)
(* handlers of a render still run when a scan's result has been set but    *)
(* not been drawn: they read the old graph and change the new state.       *)
(* Panels, search and the connection form are left out; a resource that a  *)
(* search finds is selected as any other.                                  *)
(***************************************************************************)
EXTENDS GraphUtils

CONSTANT Scans      \* name |-> discovery

\* Docker's container IDs are unique; the parser keeps one service of a unit and
\* one listener of an address, and the helper reads each Caddy container once.  The
\* upstreams of a route are a list.
ASSUME ScansAssumption ==
  /\ None \notin DOMAIN Scans
  /\ \A s \in DOMAIN Scans :
       LET d == Scans[s]
       IN  /\ IsFiniteSet(d.containers) /\ IsFiniteSet(d.listeners.items)
           /\ \A c \in d.containers : IsFiniteSet(c.ports) /\ IsFiniteSet(c.networks) /\ IsFiniteSet(c.mounts)
           /\ \A c \in d.caddy.instances : \A r \in c.routes :
                r.upstreams \in Seq({r.upstreams[i] : i \in DOMAIN r.upstreams})
           /\ \A x, y \in d.containers : x.id = y.id => x = y
           /\ \A x, y \in d.systemd.services : x.unit = y.unit => x = y
           /\ \A x, y \in d.listeners.items : x.key = y.key => x = y
           /\ \A x, y \in d.caddy.instances : x.container = y.container => x = y

VARIABLE ui         \* the state of the page

\* useMemo: the graph of a scan, and the model of that.
Graphs == [s \in DOMAIN Scans |-> create(Scans[s])]
Models == [s \in DOMAIN Scans |-> resourceModel(Graphs[s])]
Ids(graph) == {n.id : n \in graph.nodes}

ASSUME NoneAssumption ==
  \A s \in DOMAIN Scans : None \notin Graphs[s].nodes /\ None \notin Ids(Graphs[s])

\* None is the built-in graph, which is never drawn.
Init ==
  ui = [graph |-> None, connected |-> FALSE, active |-> FALSE, section |-> "OVERVIEW", subsection |-> None,
        selectedId |-> None, change |-> FALSE, topology |-> FALSE, focus |-> None]

(* Handlers. *)

selectResource(u, id) ==
  [u EXCEPT !.change = FALSE, !.selectedId = id, !.section = pageFor(type(id)),
            !.subsection = networkSubsectionFor(type(id)), !.topology = FALSE, !.focus = None]

\* A fault: the topology stays open behind the other section.
NavigatedOver(u, name) ==
  [u EXCEPT !.change = FALSE, !.section = name, !.subsection = None, !.focus = None]

navigate(u, name) ==
  [u EXCEPT !.change = FALSE, !.section = name, !.subsection = None, !.topology = FALSE, !.focus = None]

\* A fault: a resource stays selected beside the changes.
ChangesBeside(u) ==
  [u EXCEPT !.section = "CHANGES", !.change = FALSE, !.topology = FALSE, !.focus = None]

openChanges(u) ==
  [u EXCEPT !.section = "CHANGES", !.selectedId = None, !.change = FALSE, !.topology = FALSE, !.focus = None]

openNetworkSubsection(u, subsection, id) ==
  [u EXCEPT !.section = "NETWORK", !.subsection = subsection, !.selectedId = id,
            !.topology = FALSE, !.focus = None]

selectTopologyResource(u, id) == [u EXCEPT !.selectedId = id, !.section = "APPLICATIONS"]
revealTopology(u, id) == [u EXCEPT !.section = "APPLICATIONS", !.topology = TRUE, !.focus = id]

(* What is drawn, and what can be clicked in it. *)

Topology(u) == deriveVisibleGraph(Graphs[u.graph], "OVERVIEW", {}, u.focus)
ShowsTopology(u) == u.connected /\ u.section = "APPLICATIONS" /\ u.topology
FirstOf(S) == IF S = {} THEN {None} ELSE S
CanShowTopology == {"SERVER", "DOCKER_ENGINE", "DOCKER_COMPOSE_PROJECT", "DOCKER_CONTAINER"}

\* The resources of the explorer, of a page, of a search or of a change.
SelectResource(r, u) == {selectResource(u, id) : id \in Ids(Graphs[r.graph])}

Navigate(r, u) == {navigate(u, name) : name \in PrimarySections \ {"CHANGES"}} \cup {openChanges(u)}

\* The entries of the explorer for a kind of resource select the first one.
OpenList(r, u) ==
  LET graph == Graphs[r.graph]
      Of(subsection) == {n.id : n \in {x \in graph.nodes : networkSubsectionFor(type(x.id)) = subsection}}
      First(t) == FirstOf({n.id : n \in OfType(graph, t)})
  IN  (UNION {{openNetworkSubsection(u, s, id) : id \in FirstOf(Of(s))} : s \in NetworkSubsections})
      \cup {[u EXCEPT !.section = "SERVICES", !.selectedId = id] : id \in First("SYSTEMD_SERVICE")}
      \cup {IF id = None THEN [u EXCEPT !.section = "STORAGE"] ELSE selectResource(u, id) : id \in First("MOUNT")}

\* The canvas, its exit, the button of the page and the one of the inspector.
UseTopology(r, u) ==
  (IF ShowsTopology(r)
   THEN {selectTopologyResource(u, n.id) : n \in Topology(r).nodes} \cup {[u EXCEPT !.topology = FALSE, !.focus = None]}
   ELSE IF r.section = "APPLICATIONS" THEN {[u EXCEPT !.topology = TRUE]} ELSE {})
  \cup (IF r.selectedId \in Ids(Graphs[r.graph]) /\ type(r.selectedId) \in CanShowTopology
        THEN {revealTopology(u, r.selectedId)} ELSE {})

\* inspectChange, compareSnapshots: a resource named by a change is in SelectResource.
UseChanges(r, u) ==
  IF r.section = "CHANGES" THEN {[u EXCEPT !.change = TRUE, !.selectedId = None], [u EXCEPT !.change = FALSE]}
  ELSE {}

Clicks(r, u) ==
  SelectResource(r, u) \cup Navigate(r, u) \cup OpenList(r, u) \cup UseTopology(r, u) \cup UseChanges(r, u)

(* Actions. *)

Click == ui.connected /\ ui' \in Clicks(ui, ui)

RequestScan == ~ui.active /\ ui' = [ui EXCEPT !.active = TRUE]
ScanFails == ui.active /\ ui' = [ui EXCEPT !.active = FALSE]

\* A fault: the state of the scan is taken over without its graph.
ReceivedWithoutGraph(u, g) ==
  [u EXCEPT !.connected = TRUE, !.active = FALSE, !.selectedId = None, !.change = FALSE,
            !.section = "OVERVIEW", !.subsection = None, !.focus = None]

\* receive: topologyOpen is not reset.
Received(u, g) ==
  [u EXCEPT !.graph = g, !.connected = TRUE, !.active = FALSE, !.selectedId = None, !.change = FALSE,
            !.section = "OVERVIEW", !.subsection = None, !.focus = None]
Receive == ui.active /\ \E g \in DOMAIN Scans : ui' = Received(ui, g)

\* A click between a scan's result and its drawing.
LateClick ==
  /\ ui.connected /\ ui.active
  /\ \E g \in DOMAIN Scans : ui' \in Clicks(ui, Received(ui, g))

Disconnect ==
  /\ ui.connected /\ ~ui.active
  /\ ui' = [ui EXCEPT !.connected = FALSE, !.change = FALSE, !.selectedId = None, !.section = "OVERVIEW",
                      !.subsection = None, !.topology = FALSE, !.focus = None]

Next == Click \/ RequestScan \/ ScanFails \/ Receive \/ LateClick \/ Disconnect
Spec == Init /\ [][Next]_ui

-----------------------------------------------------------------------------
(* Properties. *)

AllIds == UNION {Ids(Graphs[s]) : s \in DOMAIN Scans}

\* The state of the page: a graph is there while it is connected; every section
\* and subsection is a page, and every id is that of a resource of some scan.
TypeOK ==
  /\ ui.graph \in DOMAIN Scans \cup {None}
  /\ ui.connected \in BOOLEAN /\ ui.active \in BOOLEAN /\ ui.change \in BOOLEAN /\ ui.topology \in BOOLEAN
  /\ ui.section \in PrimarySections
  /\ ui.subsection \in NetworkSubsections \cup {None}
  /\ \A id \in AllIds : type(id) \in NodeTypes
  /\ ui.selectedId \in AllIds \cup {None} /\ ui.focus \in AllIds \cup {None}
  /\ ui.connected => ui.graph # None

\* The topology never comes up empty or wholly subdued around a focus, not even
\* for a focus that a late click took from the graph before: it shows the focused
\* resource with its neighbours, or everything.
TopologyUsable ==
  ShowsTopology(ui) =>
    LET drawn == Topology(ui)
        all == deriveVisibleGraph(Graphs[ui.graph], "OVERVIEW", {}, None)
    IN  /\ drawn.nodes # {}
        /\ ui.focus \in Ids(drawn) \/ drawn = all
        /\ ui.focus # None => toFlowGraph(drawn, "OVERVIEW", ui.selectedId).subdued # Ids(drawn)

Apart(positions) ==
  \A a, b \in positions :
    a.x = b.x => a = b \/ a.y - b.y >= 142 \/ b.y - a.y >= 142

\* No node of the topology is drawn over another, whatever project is without
\* visible containers in a focused view; nor in the views of networks and storage.
PlacedApart ==
  ui.graph # None =>
    LET Placed(visible, view) ==
          LET positions == layoutVisibleGraph(visible, view)
          IN  /\ Apart(positions) /\ {p.id : p \in positions} = Ids(visible)
              /\ Cardinality(positions) = Cardinality(visible.nodes)
    IN  /\ ShowsTopology(ui) => Placed(Topology(ui), "OVERVIEW")
        /\ ui.section = "OVERVIEW" =>
             \A view \in {"NETWORKING", "STORAGE"} :
               Placed(deriveVisibleGraph(Graphs[ui.graph], view, {}, None), view)

\* The topology appears when it is asked for, from the page of the applications
\* or from the inspector: one that a rescan left open never comes back by itself.
TopologyOnlyOnRequest ==
  [][ShowsTopology(ui') /\ ~ShowsTopology(ui) =>
       ui'.focus # None \/ (ui.section = "APPLICATIONS" /\ ui'.selectedId = ui.selectedId)]_ui

\* The inspector of the changes and that of a resource are never both due, and
\* the changes open without the change that was inspected last.
ChangesOpensClean ==
  [][ui'.section = "CHANGES" => ui'.selectedId = None /\ (ui.section # "CHANGES" => ~ui'.change)]_ui

\* A resource that is selected is listed on the page that selectResource opens
\* for it, so that it is seen to be selected; a service without listeners and a
\* proxy without routes are hidden by the page's own filter.
SelectionLands ==
  LET Listed(n) ==
        CASE type(n.id) \in {"SERVER", "DOCKER_ENGINE"} -> FALSE
          [] type(n.id) = "SYSTEMD_SERVICE" -> n.metadata.listener_count > 0
          [] type(n.id) = "REVERSE_PROXY" -> n.metadata.route_count > 0
          [] OTHER -> TRUE
  IN  ui.connected /\ ~ShowsTopology(ui) /\ ui.selectedId \in Ids(Graphs[ui.graph]) =>
        LET n == byId(Graphs[ui.graph], ui.selectedId)
            landed == selectResource(ui, n.id)
        IN  Listed(n) => n \in Offered(Graphs[ui.graph], Models[ui.graph], landed.section)

\* Every container is listed once: in the application of its Compose project,
\* or as a standalone one.
EveryContainerOnce ==
  ui.connected =>
    LET model == Models[ui.graph]
    IN  \A c \in OfType(Graphs[ui.graph], "DOCKER_CONTAINER") :
          LET apps == {a \in model.applications : c \in a.containers}
          IN  /\ (c \in model.standaloneContainers <=> apps = {})
              /\ {a.project.label : a \in apps} = {c.metadata.compose_project} \ {None}

\* What the plugin counted into the metadata agrees with what the pages count
\* along the edges: containers of a project and of a network, listeners of a
\* service, the binding of a published port, and the containers behind a domain.
TwoSourcesAgree ==
  ui.connected =>
    LET g == Graphs[ui.graph]
        Labels(nodes) == {n.label : n \in nodes}
    IN  /\ \A a \in Models[ui.graph].applications :
             a.project.metadata.container_count = Cardinality(a.containers)
        /\ \A n \in OfType(g, "NETWORK") :
             n.metadata.connected_containers = Labels(connectedContainers(g, n))
        /\ \A s \in OfType(g, "SYSTEMD_SERVICE") :
             s.metadata.listener_count = Cardinality(relatedResources(g, s, "LISTENS_ON"))
        /\ \A l \in OfType(g, "HOST_LISTENER") :
             \A p \in publishedPorts(g, l) : p.metadata.host_binding = l.label
        /\ \A d \in OfType(g, "DOMAIN") :
             OrNone(Labels({c \in OfType(g, "DOCKER_CONTAINER") : d \in routedDomains(g, c)}))
               = d.metadata.resolved_containers
=============================================================================
