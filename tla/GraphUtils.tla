----------------------------- MODULE GraphUtils -----------------------------
(***************************************************************************)
(* The topology view of a graph: graph-utils.ts.                           *)
(*                                                                         *)
(* A visible graph is [nodes, edges].  Nodes of one type are drawn in the  *)
(* order of their labels; which order that is makes no difference here, so *)
(* the model takes a fixed one.                                            *)
(***************************************************************************)
EXTENDS ResourceModel, SequencesExt

(* What is visible. *)

viewTypes ==
  LET base == {"SERVER", "DOCKER_ENGINE", "DOCKER_COMPOSE_PROJECT", "DOCKER_CONTAINER"}
      details == {"NETWORK", "PORT", "MOUNT", "REVERSE_PROXY", "DOMAIN", "DIRECTORY"}
  IN  [OVERVIEW |-> base, NETWORKING |-> base \cup {"NETWORK", "PORT"},
       STORAGE |-> base \cup {"MOUNT"}, EVERYTHING |-> base \cup details]

Between(edges, nodes) ==
  LET ids == {n.id : n \in nodes} IN {e \in edges : e.source \in ids /\ e.target \in ids}
Visible(graph, nodes) == [nodes |-> nodes, edges |-> Between(graph.edges, nodes)]

Neighbours(graph, id) ==
  {e.target : e \in {x \in graph.edges : x.source = id}} \cup {e.source : e \in {x \in graph.edges : x.target = id}}

isOrphanedSecondary(n, edges) ==
  /\ type(n.id) \in {"NETWORK", "PORT", "MOUNT"}
  /\ ~\E e \in edges : n.id \in {e.source, e.target}

\* The containers of the collapsed projects, with their ports and mounts.
Hidden(graph, collapsed) ==
  LET containers == UNION {Targets(graph, "CONTAINS", p) : p \in collapsed}
  IN  containers \cup UNION {Targets(graph, "EXPOSES", c) \cup Targets(graph, "MOUNTS", c) : c \in containers}

\* A fault: the focus is not looked up among the visible nodes.
AlwaysFocused(nodes, focus) == focus # None

HasFocus(nodes, focus) == \E n \in nodes : n.id = focus

deriveVisibleGraph(graph, view, collapsed, focus) ==
  LET hidden == Hidden(graph, collapsed)
      shown == {n \in graph.nodes : type(n.id) \in viewTypes[view] /\ n.id \notin hidden}
      nodes == {n \in shown : ~isOrphanedSecondary(n, Between(graph.edges, shown))}
      near == {focus} \cup Neighbours(graph, focus)
  IN  Visible(graph, IF HasFocus(nodes, focus) THEN {n \in nodes : n.id \in near} ELSE nodes)

(* Where it is drawn. *)

InOrder(nodes) == SetToSeq(nodes)

\* The nodes of one column from a height on.
place(nodes, x, startY) ==
  LET order == InOrder(nodes)
  IN  {[id |-> order[i].id, x |-> x, y |-> startY + (i - 1) * 142] : i \in DOMAIN order}

Members(visible, project) == Nodes(visible, Targets(visible, "CONTAINS", project.id), "DOCKER_CONTAINER")

\* A fault: a project without visible containers takes no row.
NoRow(members) == Cardinality(members) * 142 + 34

Height(members) == (IF members = {} THEN 1 ELSE Cardinality(members)) * 142 + 34

\* Where the groups of a column start, one below the other, and where they end.
Tops(heights) ==
  LET top[i \in 1..(Len(heights) + 1)] == IF i = 1 THEN 64 ELSE top[i - 1] + heights[i - 1]
  IN  top

\* Each project beside its containers, and below them the other containers.
placeComposeGroups(visible, projectX, containerX) ==
  LET projects == InOrder(OfType(visible, "DOCKER_COMPOSE_PROJECT"))
      members == [i \in DOMAIN projects |-> Members(visible, projects[i])]
      top == Tops([i \in DOMAIN projects |-> Height(members[i])])
      Centre(i) == IF members[i] = {} THEN 0 ELSE (Cardinality(members[i]) - 1) * 71
      grouped == UNION {members[i] : i \in DOMAIN projects}
  IN  {[id |-> projects[i].id, x |-> projectX, y |-> top[i] + Centre(i)] : i \in DOMAIN projects}
      \cup (UNION {place(members[i], containerX, top[i]) : i \in DOMAIN projects})
      \cup place(OfType(visible, "DOCKER_CONTAINER") \ grouped, containerX, top[Len(projects) + 1])

layoutVisibleGraph(visible, view) ==
  LET Of(t) == OfType(visible, t)
      narrow == view \in {"NETWORKING", "STORAGE"}
  IN  place(Of("SERVER"), 32, 310)
      \cup place(Of("DOCKER_ENGINE"), IF narrow THEN 245 ELSE 270, 310)
      \cup (IF narrow THEN placeComposeGroups(visible, 470, 730) ELSE placeComposeGroups(visible, 530, 800))
      \cup CASE view = "NETWORKING" -> place(Of("NETWORK"), 1000, 64) \cup place(Of("PORT"), 1270, 64)
             [] view = "STORAGE" -> place(Of("MOUNT"), 1010, 64)
             [] OTHER -> place(Of("PORT"), 1070, 64)
                         \cup place(Of("MOUNT"), 1070, 64 + Cardinality(Of("PORT")) * 142)
                         \cup place(Of("NETWORK"), 1340, 64) \cup place(Of("REVERSE_PROXY"), 530, 64)
                         \cup place(Of("DOMAIN"), 800, 64) \cup place(Of("DIRECTORY"), 1070, 64)

\* The topology as it is drawn: what has nothing to do with the selection is subdued.
toFlowGraph(visible, view, selected) ==
  [positions |-> layoutVisibleGraph(visible, view),
   subdued |-> IF selected = None THEN {}
               ELSE {n.id : n \in visible.nodes} \ ({selected} \cup Neighbours(visible, selected))]
=============================================================================
