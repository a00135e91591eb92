----------------------------- MODULE Resolvers -----------------------------
(***************************************************************************)
(* How an upstream of a Caddy route is matched with what was discovered:   *)
(* CaddyUpstreamResolver with the containers, HostTargetResolver with the  *)
(* host's listeners and services.                                          *)
(*                                                                         *)
(* A parsed dial is [kind, host, port]; its kind is "NONE" for an upstream *)
(* without a usable dial and "DYNAMIC" for the upstream that stands for a  *)
(* route's dynamic ones.                                                   *)
(***************************************************************************)
EXTENDS Integers, FiniteSets

CONSTANT None       \* an optional value that is absent

Only(S) == IF Cardinality(S) = 1 THEN CHOOSE x \in S : TRUE ELSE None

Matching(candidates, caddy, dial) ==
  {c \in candidates : /\ \E p \in c.ports : p.protocol = "tcp" /\ p.port = dial.port
                      /\ c.networks \cap caddy.networks # {}}

\* A fault: the first of several matches is taken.
FirstMatch(candidates, caddy, dial) ==
  LET matches == Matching(candidates, caddy, dial)
  IN  IF matches = {} THEN [state |-> "UNRESOLVED", container |-> None]
      ELSE [state |-> "RESOLVED", container |-> CHOOSE c \in matches : TRUE]

select(candidates, caddy, dial) ==
  LET matches == Matching(candidates, caddy, dial)
  IN  [state |-> CASE matches = {} -> "UNRESOLVED"
                   [] Cardinality(matches) > 1 -> "AMBIGUOUS"
                   [] OTHER -> "RESOLVED",
       container |-> Only(matches)]

\* CaddyUpstreamResolver.resolve, and the DYNAMIC state that the graph
\* factory gives to a route's dynamic upstreams.
Unmatched(state) == [state |-> state, container |-> None]
resolve(instance, dial, containers) ==
  LET caddies == {c \in containers : c.id = instance.container}
      named == {c \in containers : c.name = dial.host}
      serving == {c \in containers : c.service = dial.host}
  IN  IF dial.kind \in {"HOST_TARGET", "DYNAMIC"} THEN Unmatched(dial.kind)
      ELSE IF dial.kind # "DOCKER_NAME" \/ Cardinality(caddies) # 1 THEN Unmatched("UNRESOLVED")
      ELSE select(IF named # {} THEN named ELSE serving, Only(caddies), dial)

\* A fault: listeners without a known owner are not counted.
KnownOwners(eligible, services) ==
  [services |-> {s \in services : \E l \in eligible : l.ownership = "SYSTEMD_SERVICE" /\ l.unit = s.unit},
   unresolved |-> 0]

\* The services that own the eligible listeners, and how many of those have none.
Owners(eligible, services) ==
  LET owned == {l \in eligible : /\ l.ownership = "SYSTEMD_SERVICE"
                                 /\ \E s \in services : s.unit = l.unit}
  IN  [services |-> {s \in services : \E l \in owned : l.unit = s.unit},
       unresolved |-> Cardinality(eligible \ owned)]

HostTarget(state, listeners, services) ==
  [state |-> state, listeners |-> listeners, services |-> services, service |-> Only(services)]

\* HostTargetResolver.resolve, for a dial of kind HOST_TARGET.
resolveHost(dial, systemd, discovery) ==
  LET eligible == {l \in discovery.items : l.protocol = "tcp" /\ l.port = dial.port /\ ~l.loopback}
      owners == Owners(eligible, systemd.services)
  IN  IF discovery.state = "UNKNOWN" /\ discovery.items = {} THEN HostTarget("HOST_TARGET", {}, {})
      ELSE IF discovery.state # "DISCOVERED" THEN HostTarget("HOST_PARTIAL", eligible, {})
      ELSE IF eligible = {} THEN HostTarget("HOST_TARGET", {}, {})
      ELSE IF owners.services = {} THEN HostTarget("HOST_LISTENER", eligible, {})
      ELSE IF owners.unresolved > 0 \/ Cardinality(owners.services) > 1
      THEN HostTarget("HOST_AMBIGUOUS", eligible, owners.services)
      ELSE HostTarget("HOST_SERVICE", eligible, owners.services)
=============================================================================
