------------------------- MODULE InfrastructureDiff -------------------------
(***************************************************************************)
(* InfrastructureDiffEngine.compare: the differences between two snapshots *)
(* of one server, each with the evidence that the discovery behind the     *)
(* snapshots gives.                                                        *)
(*                                                                         *)
(* A snapshot is [id, serverId, capturedAt, content]; equal fingerprints   *)
(* are equal contents.                                                     *)
(***************************************************************************)
EXTENDS HostDockerGraph

REMOTE_SUBSYSTEMS == {"DOCKER", "CADDY", "SYSTEMD", "HOST_LISTENERS"}
QUALITY_METADATA_KEYS == {"docker_discovery_state", "caddy_discovery_state",
                          "systemd_discovery_status", "listener_discovery_status"}
HOST_RESOLUTION_FIELDS == {"host_resolution", "host_service"}

\* A fault: a partial discovery counts as a complete one.
PartialIsComplete(subsystem, quality) ==
  subsystem = "BASE_HOST" \/ quality[subsystem] \in {"AVAILABLE", "DISCOVERED", "NOT_DETECTED", "PARTIAL"}

isComplete(subsystem, quality) ==
  CASE subsystem = "BASE_HOST" -> TRUE
    [] subsystem = "DOCKER" -> quality.DOCKER = "AVAILABLE"
    [] subsystem = "CADDY" -> quality.CADDY \in {"DISCOVERED", "NOT_DETECTED"}
    [] OTHER -> quality[subsystem] = "DISCOVERED"

requiredSubsystems(t) ==
  CASE t = "SERVER" -> {"BASE_HOST"}
    [] t \in {"REVERSE_PROXY", "DOMAIN", "UPSTREAM"} -> {"DOCKER", "CADDY"}
    [] t = "SYSTEMD_SERVICE" -> {"SYSTEMD"}
    [] t = "HOST_LISTENER" -> {"HOST_LISTENERS"}
    [] OTHER -> {"DOCKER"}

\* A fault: an edge needs only what its source needs.
SourceSubsystems(e) == requiredSubsystems(type(e.source))

edgeSubsystems(e) == requiredSubsystems(type(e.source)) \cup requiredSubsystems(type(e.target))

Incomplete(required, quality) == {s \in required : ~isComplete(s, quality)}

\* A fault: an addition needs every subsystem, not only its own.
AdditionNeedsAll(required, previousQuality) ==
  IF Incomplete(REMOTE_SUBSYSTEMS, previousQuality) = {} THEN "CONFIRMED" ELSE "NEWLY_OBSERVED"

additionEvidence(required, previousQuality) ==
  IF Incomplete(required, previousQuality) = {} THEN "CONFIRMED" ELSE "NEWLY_OBSERVED"

removalEvidence(required, currentQuality) ==
  IF Incomplete(required, currentQuality) = {} THEN "CONFIRMED" ELSE "UNCONFIRMED_REMOVAL"

fieldSubsystems(t, key) ==
  CASE t = "SYSTEMD_SERVICE" /\ key = "listener_count" -> {"HOST_LISTENERS"}
    [] t = "HOST_LISTENER" /\ key \in {"ownership_state", "systemd_unit"} -> {"HOST_LISTENERS", "SYSTEMD"}
    [] t = "DOMAIN" /\ key = "resolved_containers" -> {"DOCKER", "CADDY"}
    [] \/ t = "DOMAIN" /\ key = "resolved_host_services"
       \/ t = "UPSTREAM" /\ key \in HOST_RESOLUTION_FIELDS -> REMOTE_SUBSYSTEMS
    [] OTHER -> {}

FieldMayBe(n, key, newValue, quality) ==
  /\ Incomplete(fieldSubsystems(type(n.id), key), quality) = {}
  /\ newValue # None \/ Incomplete(requiredSubsystems(type(n.id)), quality) = {}

\* The fields that changed, each with its values.
fieldChanges(before, after, quality) ==
  LET label == IF before.label # after.label /\ type(before.id) # "DOCKER_ENGINE"
               THEN {"label"} ELSE {}
      keys == {k \in DOMAIN after.metadata \ QUALITY_METADATA_KEYS :
                 /\ before.metadata[k] # after.metadata[k]
                 /\ FieldMayBe(after, k, after.metadata[k], quality)}
      Value(n, k) == IF k = "label" THEN n.label ELSE n.metadata[k]
  IN  [k \in label \cup keys |-> [before |-> Value(before, k), after |-> Value(after, k)]]

NoFields == [key \in {} |-> None]

Summary(nodes, relationships, uncertainties, complete) ==
  LET Count(S, kind) == Cardinality({c \in S : c.kind = kind /\ c.evidence # "UNCONFIRMED_REMOVAL"})
      all == nodes \cup relationships
      unconfirmed == {c \in all : c.evidence = "UNCONFIRMED_REMOVAL"}
  IN  [addedNodes |-> Count(nodes, "ADDED"), removedNodes |-> Count(nodes, "REMOVED"),
       modifiedNodes |-> Count(nodes, "MODIFIED"),
       addedRelationships |-> Count(relationships, "RELATIONSHIP_ADDED"),
       removedRelationships |-> Count(relationships, "RELATIONSHIP_REMOVED"),
       uncertainComparisons |-> Cardinality(uncertainties) + Cardinality(unconfirmed),
       hasChanges |-> all # unconfirmed,
       isComplete |-> complete /\ uncertainties = {} /\ unconfirmed = {}]

terminal(status, complete) ==
  [status |-> status, nodeChanges |-> {}, relationshipChanges |-> {}, uncertainties |-> {},
   summary |-> Summary({}, {}, {}, complete)]

Differences(p, c) ==
  LET Ids(x) == {n.id : n \in x.nodes}
      Changed(n) == fieldChanges(CHOOSE b \in p.nodes : b.id = n.id, n, c.quality)
      NodeChange(kind, evidence, n, fields) ==
        [kind |-> kind, evidence |-> evidence, nodeId |-> n.id, label |-> n.label, fields |-> fields]
      RelationshipChange(kind, evidence, e) == [kind |-> kind, evidence |-> evidence, edge |-> e]
      addedNodes == {n \in c.nodes : n.id \notin Ids(p)}
      addedEdges == c.edges \ p.edges
      nodes ==
        {NodeChange("ADDED", additionEvidence(requiredSubsystems(type(n.id)), p.quality), n, NoFields)
           : n \in addedNodes}
        \cup {NodeChange("REMOVED", removalEvidence(requiredSubsystems(type(n.id)), c.quality), n, NoFields)
                : n \in {x \in p.nodes : x.id \notin Ids(c)}}
        \cup {m \in {NodeChange("MODIFIED", "CONFIRMED", n, Changed(n)) : n \in c.nodes \ addedNodes}
                : DOMAIN m.fields # {}}
      relationships ==
        {RelationshipChange("RELATIONSHIP_ADDED", additionEvidence(edgeSubsystems(e), p.quality), e)
           : e \in addedEdges}
        \cup {RelationshipChange("RELATIONSHIP_REMOVED", removalEvidence(edgeSubsystems(e), c.quality), e)
                : e \in p.edges \ c.edges}
      needed == UNION ({requiredSubsystems(type(n.id)) : n \in addedNodes}
                       \cup {edgeSubsystems(e) : e \in addedEdges})
      uncertainties ==
        {[subsystem |-> s, reason |-> "CURRENT_DISCOVERY_INCOMPLETE"]
           : s \in Incomplete(REMOTE_SUBSYSTEMS, c.quality)}
        \cup {[subsystem |-> s, reason |-> "PREVIOUS_DISCOVERY_INCOMPLETE"]
                : s \in Incomplete(needed, p.quality)}
      summary == Summary(nodes, relationships, uncertainties, TRUE)
  IN  [status |-> IF ~summary.isComplete THEN "PARTIAL"
                  ELSE IF summary.hasChanges THEN "CHANGED" ELSE "NO_CHANGES",
       nodeChanges |-> nodes, relationshipChanges |-> relationships,
       uncertainties |-> uncertainties, summary |-> summary]

compare(previous, current) ==
  IF previous = None THEN terminal("NO_BASELINE", FALSE)
  ELSE IF previous.serverId # current.serverId THEN terminal("SERVER_MISMATCH", FALSE)
  ELSE IF previous.capturedAt > current.capturedAt THEN terminal("INVALID_TIME_ORDER", FALSE)
  ELSE IF previous.content = current.content THEN terminal("NO_CHANGES", TRUE)
  ELSE Differences(previous.content, current.content)
=============================================================================
