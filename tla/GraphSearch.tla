---------------------------- MODULE GraphSearch ----------------------------
(***************************************************************************)
(* The bounded searches of the analytics graph                             *)
(* (src/app/analytics/graph_store.py and sqlite_graph_store.py), as        *)
(* operators on small graphs.                                              *)
(*                                                                         *)
(* A graph is a pair of its nodes and its edges, the edges in a sequence   *)
(* ordered by edge id, the order in which every search examines them.      *)
(* Nodes are numbers: their order is that of the node ids.  "scope" is the *)
(* set of nodes of the allowed kinds inside the time window; an edge whose *)
(* own relation or time is out of scope is left out of the graph at once.  *)
(*                                                                         *)
(* A request q names what is asked (method, dir, root, goal) and its       *)
(* limits: hops, visited (max_visited, max_nodes), queue, results,         *)
(* examined (max_edges_examined, max_edges) and the root policy.           *)
(***************************************************************************)
EXTENDS Integers, Sequences, FiniteSets, SequencesExt

Ends(e) == {e.src, e.dst}

\* The ends from which a search in this direction follows the edge.
Starts(e, dir) ==
    CASE dir = "outgoing" -> {e.src}
      [] dir = "incoming" -> {e.dst}
      [] OTHER -> {e.src, e.dst}

FarEnd(e, n) == IF e.src = n THEN e.dst ELSE e.src

\* What the two searches may look at: both ends stored and in scope.
Eligible(g, scope) ==
    [nodes |-> g.nodes,
     edges |-> SelectSeq(g.edges, LAMBDA e : Ends(e) \subseteq (g.nodes \cap scope))]

EdgesAt(edges, dir, n) == SelectSeq(edges, LAMBDA e : n \in Starts(e, dir))

AtMost(limit, seq) == SubSeq(seq, 1, IF Len(seq) < limit THEN Len(seq) ELSE limit)

Keep(edges, chosen) == SelectSeq(edges, LAMBDA e : e \in chosen)

SeqRange(seq) == {seq[i] : i \in 1 .. Len(seq)}

\* A loop whose rounds are the numbers 1 .. n.
Rounds(step(_), start, n) ==
    FoldLeft(LAMBDA t, i : step(t), start, [i \in 1 .. n |-> i])

NoAnswer == [status |-> "none", nodes |-> {}, edges |-> {}, paths |-> {}, truncated |-> FALSE]
Failed(status) == [NoAnswer EXCEPT !.status = status]
Found(nodes, edges, paths, truncated) ==
    [status |-> "found", nodes |-> nodes, edges |-> edges, paths |-> paths, truncated |-> truncated]

-----------------------------------------------------------------------------
(* The in-memory searches, over a whole generation or over what was loaded. *)

\* _traversal_adjacency: the edges within the scan limit, and whether more exist.
Scanned(g, scope, q) == AtMost(q.examined, Eligible(g, scope).edges)
ScanStopped(g, scope, q) == Len(Eligible(g, scope).edges) > q.examined

\* neighborhood: one edge of the node being expanded.
FollowEdge(q, here, t, e) ==
    LET far == FarEnd(e, here.node)
        unseen == far \notin t.visited
        full == unseen /\ \/ Cardinality(t.visited) >= q.visited
                          \/ Len(t.queue) >= q.queue
        reached == IF unseen /\ ~full
                     THEN [t EXCEPT !.visited = @ \cup {far},
                                    !.queue = Append(@, [node |-> far, depth |-> here.depth + 1])]
                     ELSE t
    IN IF full \/ (e \notin t.selected /\ Cardinality(t.selected) >= q.results)
         THEN [reached EXCEPT !.truncated = TRUE]
         ELSE [reached EXCEPT !.selected = @ \cup {e}]

\* neighborhood: one round of the breadth-first loop.
ExpandNode(q, edges, t) ==
    LET here == Head(t.queue)
        rest == Tail(t.queue)
        around == EdgesAt(edges, q.dir, here.node)
        more == \E e \in SeqRange(around) : FarEnd(e, here.node) \notin t.visited
        popped == [t EXCEPT !.queue = rest, !.count = @ + 1]
    IN IF t.queue = << >> THEN t
       ELSE IF popped.count >= q.visited
              THEN [popped EXCEPT !.queue = << >>, !.truncated = @ \/ rest # << >> \/ more]
       ELSE IF here.depth >= q.hops THEN [popped EXCEPT !.truncated = @ \/ more]
       ELSE FoldLeft(LAMBDA s, e : FollowEdge(q, here, s, e), popped, around)

\* The answer to a root outside the scope.
RootOnly(q) ==
    IF q.policy = "require" THEN Failed("out_of_scope") ELSE Found({q.root}, {}, {}, FALSE)

Neighborhood(g, scope, q) ==
    LET edges == Scanned(g, scope, q)
        start == [queue |-> <<[node |-> q.root, depth |-> 0]>>, visited |-> {q.root},
                  selected |-> {}, count |-> 0, truncated |-> ScanStopped(g, scope, q)]
        end == Rounds(LAMBDA t : ExpandNode(q, edges, t), start, Cardinality(g.nodes))
    IN CASE q.root \notin g.nodes -> Failed("unavailable")
         [] q.root \in g.nodes \ scope -> RootOnly(q)
         [] OTHER -> Found({q.root} \cup UNION {Ends(e) : e \in end.selected},
                           end.selected, {}, end.truncated)

-----------------------------------------------------------------------------
\* find_paths: one edge of the node being expanded; a predecessor is kept for
\* every edge that reaches a node at its distance.
ReachEdge(q, here, t, e) ==
    LET far == FarEnd(e, here)
        next == t.depth[here] + 1
        unseen == far \notin DOMAIN t.depth
        full == unseen /\ \/ Cardinality(DOMAIN t.depth) >= q.visited
                          \/ Len(t.queue) >= q.queue
        depth == IF unseen THEN [n \in DOMAIN t.depth \cup {far} |->
                                   IF n = far THEN next ELSE t.depth[n]]
                           ELSE t.depth
    IN IF full
         THEN [t EXCEPT !.truncated = TRUE]
         ELSE [t EXCEPT !.depth = depth,
                        !.queue = IF unseen THEN Append(@, far) ELSE @,
                        !.before = IF depth[far] = next
                                     THEN @ \cup {[at |-> far, from |-> here, edge |-> e]} ELSE @,
                        !.goalDepth = IF far = q.goal /\ @ = -1 THEN next ELSE @]

\* find_paths: one round of the loop; the goal's depth ends the expansion.
ExpandTowards(q, edges, t) ==
    LET here == Head(t.queue)
        around == EdgesAt(edges, q.dir, here)
        more == \E e \in SeqRange(around) : FarEnd(e, here) \notin DOMAIN t.depth
        popped == [t EXCEPT !.queue = Tail(@), !.count = @ + 1]
    IN IF t.queue = << >> THEN t
       ELSE IF t.goalDepth # -1 /\ t.depth[here] >= t.goalDepth THEN popped
       ELSE IF popped.count > q.visited THEN [popped EXCEPT !.queue = << >>, !.truncated = TRUE]
       ELSE IF t.depth[here] >= q.hops THEN [popped EXCEPT !.truncated = @ \/ more]
       ELSE FoldLeft(LAMBDA s, e : ReachEdge(q, here, s, e), popped, around)

\* _reconstruct_shortest_paths: from the goal backwards, in the order of
\* previous node and edge; a path is its sequence of edges.
ShortestPaths(q, before, goalDepth) ==
    LET Earlier(a, b) == a.from < b.from \/ (a.from = b.from /\ a.edge.id < b.edge.id)
        Extend(p) == LET into == SetToSortSeq({b \in before : b.at = p.at}, Earlier)
                     IN [i \in 1 .. Len(into) |-> [at |-> into[i].from, edges |-> <<into[i].edge>> \o p.edges]]
        all == Rounds(LAMBDA ps : FlattenSeq([i \in 1 .. Len(ps) |-> Extend(ps[i])]),
                      <<[at |-> q.goal, edges |-> << >>]>>, goalDepth)
    IN [paths |-> {p.edges : p \in SeqRange(AtMost(q.results, all))}, more |-> Len(all) > q.results]

Paths(g, scope, q) ==
    LET edges == Scanned(g, scope, q)
        start == [queue |-> <<q.root>>, depth |-> [n \in {q.root} |-> 0], before |-> {}, count |-> 0,
                  goalDepth |-> -1, truncated |-> ScanStopped(g, scope, q)]
        end == Rounds(LAMBDA t : ExpandTowards(q, edges, t), start, Cardinality(g.nodes))
        ends == {q.root, q.goal}
        shortest == ShortestPaths(q, end.before, end.goalDepth)
    IN IF ~(ends \subseteq g.nodes) THEN Failed("unavailable")
       ELSE IF ~(ends \subseteq scope) /\ q.policy = "require" THEN Failed("out_of_scope")
       ELSE IF q.root = q.goal THEN Found({}, {}, {<< >>}, FALSE)
       ELSE IF ~(ends \subseteq scope) THEN Found({}, {}, {}, FALSE)
       ELSE IF end.goalDepth = -1
         THEN Found({}, {}, {}, end.truncated \/ Cardinality(DOMAIN end.depth) >= q.visited)
       ELSE Found({}, {}, shortest.paths, end.truncated \/ shortest.more)

-----------------------------------------------------------------------------
\* degree: the edges counted at the root.
Degree(g, scope, q) ==
    LET counted == EdgesAt(Scanned(g, scope, q), q.dir, q.root)
        cap == IF q.results < q.examined THEN q.results ELSE q.examined
    IN CASE q.root \notin g.nodes -> Failed("unavailable")
         [] q.root \in g.nodes \ scope ->
              IF q.policy = "require" THEN Failed("out_of_scope") ELSE Found({}, {}, {}, FALSE)
         [] OTHER -> Found({}, SeqRange(AtMost(cap, counted)), {},
                           ScanStopped(g, scope, q) \/ Len(counted) > cap)

-----------------------------------------------------------------------------
(* The slices that the centrality and community algorithms run on.         *)

\* Take one edge of a rooted slice and the nodes it brings in.
TakeSliceEdge(q, t, e) ==
    LET missing == Ends(e) \ t.nodes
        crowded == missing # {} /\ \/ Cardinality(t.nodes \cup missing) > q.visited
                                   \/ Cardinality(t.next \cup missing) > q.queue
    IN IF t.stopped \/ e \in t.edges \/ Ends(e) \cap t.frontier = {} THEN t
       ELSE IF Cardinality(t.edges) >= q.examined THEN [t EXCEPT !.stopped = TRUE, !.truncated = TRUE]
       ELSE IF crowded THEN [t EXCEPT !.truncated = TRUE]
       ELSE [t EXCEPT !.nodes = @ \cup missing, !.next = @ \cup missing, !.edges = @ \cup {e}]

\* _algorithm_extension_exists: eligible work left at the frontier.
WorkLeft(edges, t) == \E i \in 1 .. Len(edges) : edges[i] \notin t.edges /\ Ends(edges[i]) \cap t.frontier # {}

\* One hop of _bounded_root_subgraph, and the check when the edge limit ends it.
HopSlice(q, edges, t) ==
    IF t.done \/ t.frontier = {}
      THEN [t EXCEPT !.done = TRUE]
      ELSE LET taken == FoldLeft(LAMBDA s, e : TakeSliceEdge(q, s, e),
                                 [t EXCEPT !.next = {}, !.stopped = FALSE], edges)
               moved == [taken EXCEPT !.frontier = taken.next]
               ends == Cardinality(moved.edges) >= q.examined
           IN [moved EXCEPT !.done = ends, !.truncated = @ \/ (ends /\ WorkLeft(edges, moved))]

RootSlice(g, scope, q) ==
    LET edges == Eligible(g, scope).edges
        start == [nodes |-> {q.root}, edges |-> {}, frontier |-> {q.root}, next |-> {},
                  stopped |-> FALSE, done |-> FALSE, truncated |-> FALSE]
        end == Rounds(LAMBDA t : HopSlice(q, edges, t), start, q.hops)
    IN CASE q.root \notin g.nodes -> Failed("unavailable")
         [] q.root \in g.nodes \ scope -> RootOnly(q)
         [] OTHER -> Found(end.nodes, end.edges, {}, end.truncated \/ (~end.done /\ WorkLeft(edges, end)))

\* _bounded_subgraph without a root: the first eligible nodes and the edges among them.
WholeSlice(g, scope, q) ==
    LET in == g.nodes \cap scope
        nodes == {n \in in : Cardinality({m \in in : m < n}) < q.visited}
        among == SelectSeq(g.edges, LAMBDA e : Ends(e) \subseteq nodes)
    IN Found(nodes, SeqRange(AtMost(q.examined, among)), {},
             Cardinality(in) > q.visited \/ Len(among) > q.examined)

\* _bounded_subgraph.
Slice(g, scope, q) == IF q.rooted THEN RootSlice(g, scope, q) ELSE WholeSlice(g, scope, q)
=============================================================================
