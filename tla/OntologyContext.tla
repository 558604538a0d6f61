--------------------------- MODULE OntologyContext ---------------------------
(***************************************************************************)
(* The neighbourhood of an entity and the shortest connections of two, from *)
(* the store to the answer: queryOntologyContext and findOntologyConnections *)
(* of ontologyContextQueries.js, then fitApplicationResult of the MCP server, *)
(* which drops detail until the answer has the size that was asked for.     *)
(*                                                                         *)
(* An edge is a connection the store has evidence of: an asserted relation, *)
(* the filler of a restriction, or its property.  Those of restrictions     *)
(* carry the expression of their source.  One step expands one entity.      *)
(***************************************************************************)
EXTENDS Integers, FiniteSets, SequencesExt

CONSTANTS
  Graph,       \* the edges a store may hold: [source, target, kind]
  MaxEdges,    \* bound: edges of one store
  Source, Target,  \* the entities that are asked about
  Depths, Directions, NodeLimits, ConnectionLimits, MaximumPaths, None

Requests == [depth : Depths, direction : Directions, maximumNodes : NodeLimits,
             maximumConnections : ConnectionLimits]

ContextAssumption ==
  /\ Depths \subseteq Nat /\ MaxEdges \in Nat /\ MaximumPaths \in Nat \ {0}
  /\ None \notin Requests /\ None \notin {Source, Target}
  /\ \A e \in Graph : None \notin {e.source, e.target}
ASSUME ContextAssumption

VARIABLES
  edges,     \* the store, in the order of its answers
  inquiry,   \* one of Requests, or None before it
  context,   \* nodes, connections, frontier, visited, reasons
  paths,     \* [paths, omitted, status, established] of the connection search
  fit        \* what has been dropped: [statements, details, reasons, stage]

contextVars == <<edges, inquiry, context, paths, fit>>

ContextInit ==
  /\ edges = <<>> /\ inquiry = None /\ context = None /\ paths = None
  /\ fit = [statements |-> {}, details |-> {}, reasons |-> {}, stage |-> "querying"]

\* A store is loaded, and a request made of it.
Inquire ==
  /\ inquiry = None
  /\ \E n \in 0..MaxEdges : edges' \in {s \in [1..n -> Graph] : IsInjective(s)}
  /\ inquiry' \in Requests
  /\ context' = [nodes |-> <<Source>>, connections |-> {}, frontier |-> <<<<Source, 0>>>>,
                 visited |-> {Source}, reasons |-> {}]
  /\ UNCHANGED <<paths, fit>>

Neighbour(edge, entity) == IF edge.source = entity THEN edge.target ELSE edge.source
\* Those edges of a store that are in a set, in its order.
Those(store, S) == FoldLeft(LAMBDA q, e : IF e \in S THEN Append(q, e) ELSE q, <<>>, store)
Outgoing(store, entity) == Those(store, {e \in ToSet(store) : e.source = entity})
Incoming(store, entity) == Those(store, {e \in ToSet(store) : e.target = entity})

\* Of an entity: its own edges, then those that refer to it.
Incident(store, asked, entity) ==
  (IF asked.direction # "incoming" THEN Outgoing(store, entity) ELSE <<>>)
  \o (IF asked.direction # "outgoing" THEN Incoming(store, entity) ELSE <<>>)

\* Mutant of Admit: a connection is kept although its neighbour is not.
AdmitDangling(c, edge, entity, distance) ==
  LET neighbour == Neighbour(edge, entity)
      known == neighbour \in ToSet(c.nodes)
      full == ~known /\ Len(c.nodes) >= inquiry.maximumNodes
  IN IF edge \in c.connections THEN c
     ELSE IF Cardinality(c.connections) >= inquiry.maximumConnections
     THEN [c EXCEPT !.reasons = @ \cup {"connection_limit"}]
     ELSE [c EXCEPT !.nodes = IF known \/ full THEN @ ELSE Append(@, neighbour),
                    !.connections = @ \cup {edge},
                    !.reasons = IF full THEN @ \cup {"node_limit"} ELSE @]

\* addConnection: under both limits, and the neighbour is expanded later unless it is
\* the property of a restriction.
Admit(c, edge, entity, distance) ==
  LET neighbour == Neighbour(edge, entity)
      known == neighbour \in ToSet(c.nodes)
      expand == edge.kind # "property" /\ neighbour \notin c.visited
  IN IF edge \in c.connections THEN c
     ELSE IF Cardinality(c.connections) >= inquiry.maximumConnections
     THEN [c EXCEPT !.reasons = @ \cup {"connection_limit"}]
     ELSE IF ~known /\ Len(c.nodes) >= inquiry.maximumNodes
     THEN [c EXCEPT !.reasons = @ \cup {"node_limit"}]
     ELSE [c EXCEPT !.nodes = IF known THEN @ ELSE Append(@, neighbour),
                    !.connections = @ \cup {edge},
                    !.visited = IF expand THEN @ \cup {neighbour} ELSE @,
                    !.frontier = IF expand THEN Append(@, <<neighbour, distance + 1>>)
                                 ELSE @]

\* Some edges of an entity, one after the other.
AdmitAll(c, some, entity, distance) ==
  FoldLeft(LAMBDA d, edge : Admit(d, edge, entity, distance), c, some)

Querying == fit.stage = "querying"
Stopped == "candidate_limit" \in context.reasons

\* One entity of the frontier.  When the candidates run out, some of its edges are read
\* and nothing after them.
Expand ==
  /\ Querying /\ context # None /\ context.frontier # <<>> /\ ~Stopped
  /\ LET entity == Head(context.frontier)[1]
         distance == Head(context.frontier)[2]
         incident == Incident(edges, inquiry, entity)
         rest == [context EXCEPT !.frontier = Tail(@)]
         Read(n) == AdmitAll(rest, SubSeq(incident, 1, n), entity, distance)
     IN IF distance >= inquiry.depth THEN context' = rest
        ELSE \/ context' = Read(Len(incident))
             \/ \E n \in 0..Len(incident) :
                  context' = [Read(n) EXCEPT !.reasons = @ \cup {"candidate_limit"}]
  /\ UNCHANGED <<edges, inquiry, paths, fit>>

-----------------------------------------------------------------------------
(* Shortest paths, over any set of connections.                            *)

Hops(cs, asked, from) ==
  {e \in cs : /\ e.kind # "property"
              /\ \/ asked.direction # "incoming" /\ e.source = from
                 \/ asked.direction # "outgoing" /\ e.target = from}

\* Where a sequence of connections leads from Source, or None.
EndOf(asked, path) ==
  FoldLeft(LAMBDA at, e : IF e \in Hops({e}, asked, at) THEN Neighbour(e, at) ELSE None,
           Source, path)
PathsOf(cs, asked, length) == {p \in [1..length -> cs] : EndOf(asked, p) = Target}
ShortestPaths(cs, asked) ==
  LET lengths == {k \in 0..asked.depth : PathsOf(cs, asked, k) # {}}
  IN IF lengths = {} THEN {} ELSE PathsOf(cs, asked, Min(lengths))

\* Mutant of Status: limits are not considered when no path is found.
StatusIgnoresLimits(found) == IF found = {} THEN "no_path_within_depth" ELSE "paths_found"
Status(found) == CASE context.reasons # {} -> "search_incomplete"
                   [] context.reasons = {} /\ found # {} -> "paths_found"
                   [] OTHER -> "no_path_within_depth"

\* The projection is complete, or has been given up: paths are looked for in it, or the
\* context alone is what was asked for.
Connect ==
  /\ Querying /\ context # None /\ (context.frontier = <<>> \/ Stopped)
  /\ LET all == ShortestPaths(context.connections, inquiry)
     IN \E some \in SUBSET all :
          /\ Cardinality(some) = Min({Cardinality(all), MaximumPaths})
          /\ paths' = [paths |-> some, omitted |-> Cardinality(all) > MaximumPaths,
                       status |-> Status(some),
                       established |-> context.reasons = {} /\ some # {}]
  /\ fit' = [fit EXCEPT !.stage = "fitting"]
  /\ UNCHANGED <<edges, inquiry, context>>

-----------------------------------------------------------------------------
(* fitApplicationResult; whether a state fits is left open.                *)

Expressions(cs) == {e.source : e \in {d \in cs : d.kind # "asserted"}}
Nodes == ToSet(context.nodes)
BeingFitted == fit.stage = "fitting"

Deliver == /\ BeingFitted /\ fit' = [fit EXCEPT !.stage = "delivered"]
           /\ UNCHANGED <<edges, inquiry, context, paths>>

Detailed == Expressions(context.connections) \ fit.statements

OmitStatements ==
  /\ BeingFitted
  /\ \E x \in Detailed : fit' = [fit EXCEPT !.statements = @ \cup {x},
                                      !.reasons = @ \cup {"expression_detail_byte_limit"}]
  /\ UNCHANGED <<edges, inquiry, context, paths>>

Peripheral == Nodes \ ({Source} \cup fit.details)

\* The details of the last entity that still has some.
OmitDetails ==
  /\ BeingFitted /\ Detailed = {} /\ Peripheral # {}
  /\ LET last == context.nodes[SelectLastInSeq(context.nodes, LAMBDA e : e \in Peripheral)]
     IN fit' = [fit EXCEPT !.details = @ \cup {last},
                           !.reasons = @ \cup {"neighbour_detail_byte_limit"}]
  /\ UNCHANGED <<edges, inquiry, context, paths>>

\* The last entity goes, with its connections, what only they refer to, and the paths
\* that use them.
RemoveNode ==
  /\ BeingFitted /\ Detailed = {} /\ Peripheral = {} /\ Len(context.nodes) > 1
  /\ LET removed == Last(context.nodes)
         kept == {e \in context.connections : removed \notin {e.source, e.target}}
     IN /\ context' = [context EXCEPT !.nodes = Front(@), !.connections = kept]
        /\ paths' = [paths EXCEPT !.paths = {p \in @ : ToSet(p) \subseteq kept},
                                  !.status = "search_incomplete", !.established = FALSE]
  /\ fit' = [fit EXCEPT !.reasons = @ \cup {"byte_limit"}]
  /\ UNCHANGED <<edges, inquiry>>

SizeExceeded == /\ BeingFitted /\ Detailed = {} /\ Peripheral = {} /\ Len(context.nodes) = 1
                /\ fit' = [fit EXCEPT !.stage = "refused"]
                /\ UNCHANGED <<edges, inquiry, context, paths>>

ContextNext == \/ Inquire \/ Expand \/ Connect \/ Deliver \/ OmitStatements
               \/ OmitDetails \/ RemoveNode \/ SizeExceeded

ContextSpec == ContextInit /\ [][ContextNext]_contextVars

-----------------------------------------------------------------------------
Delivered == fit.stage = "delivered"
Reasons == context.reasons \cup fit.reasons
Truncated == context.reasons # {} \/ "byte_limit" \in fit.reasons

\* The entities within k hops of Source in a store, and all the edges of those that are
\* nearer than the depth.
Near(store, asked, k) ==
  FoldLeft(LAMBDA near, i : near \cup UNION {{Neighbour(e, n) :
                                               e \in Hops(ToSet(store), asked, n)} : n \in near},
           {Source}, [i \in 1..k |-> i])
Neighbourhood(store, asked) ==
  UNION {ToSet(Incident(store, asked, n)) :
           n \in UNION {Near(store, asked, k) : k \in 0..(asked.depth - 1)}}

\* "no implicit completeness": whatever limit cut the search and whatever was dropped for
\* size, an answer hangs together and says what it lacks.  A missing path is a fact about
\* the store, paths that are called shortest are, and an answer without a reason for
\* truncation has the whole neighbourhood.
AnswersAreHonest ==
  Delivered =>
    /\ Source \in Nodes
    /\ \A e \in context.connections : {e.source, e.target} \subseteq Nodes
    /\ \A p \in paths.paths : ToSet(p) \subseteq context.connections
    /\ paths.status = "no_path_within_depth" => ShortestPaths(ToSet(edges), inquiry) = {}
    /\ paths.established =>
         /\ paths.paths \subseteq ShortestPaths(ToSet(edges), inquiry)
         /\ ~paths.omitted => paths.paths = ShortestPaths(ToSet(edges), inquiry)
    /\ ~Truncated => context.connections = Neighbourhood(edges, inquiry)
    /\ fit.statements # {} => "expression_detail_byte_limit" \in fit.reasons
    /\ fit.details # {} => "neighbour_detail_byte_limit" \in fit.reasons
=============================================================================
