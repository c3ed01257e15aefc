----------------------------- MODULE GraphLoad -----------------------------
(***************************************************************************)
(* What the SQLite reader loads before it searches in memory               *)
(* (src/app/analytics/sqlite_graph_store.py): one hop per query, the       *)
(* limits applied to rows, the result a smaller graph and whether anything *)
(* was left out.  Each load is one read transaction.                       *)
(***************************************************************************)
EXTENDS GraphSearch

Loaded(status, g, truncated) == [status |-> status, graph |-> g, truncated |-> truncated]
NoGraph == [nodes |-> {}, edges |-> << >>]
NotLoaded(status) == Loaded(status, NoGraph, FALSE)
Part(g, nodes, edges) == [nodes |-> nodes, edges |-> Keep(g.edges, edges)]

\* The eligible edges that touch the frontier in the search's direction.
Touching(edges, dir, frontier) == SelectSeq(edges, LAMBDA e : Starts(e, dir) \cap frontier # {})

\* One fetched row: its new end joins the frontier while the queue has room.
TakeRow(q, t, e) ==
    LET missing == Ends(e) \ t.nodes
    IN IF missing # {} /\ Cardinality(t.nodes \cup missing) > q.visited
         THEN [t EXCEPT !.truncated = TRUE]
         ELSE [t EXCEPT !.nodes = @ \cup missing, !.edges = @ \cup {e},
                        !.next = IF Cardinality(@) < q.queue THEN @ \cup missing ELSE @,
                        !.truncated = @ \/ (missing # {} /\ Cardinality(t.next) >= q.queue)]

\* One hop: the rows not yet examined, as far as the examination limit goes.
LoadHop(q, edges, t) ==
    LET rows == SelectSeq(Touching(edges, q.dir, t.frontier), LAMBDA e : e \notin t.examined)
        remaining == q.examined - Cardinality(t.examined)
        taken == AtMost(remaining, rows)
        read == FoldLeft(LAMBDA s, e : TakeRow(q, s, e),
                         [t EXCEPT !.next = {}, !.examined = @ \cup SeqRange(taken),
                                   !.truncated = @ \/ Len(rows) > remaining], taken)
    IN IF t.frontier = {} THEN t ELSE [read EXCEPT !.frontier = read.next]

\* Mutant: the end beyond an edge is taken to be its target in every direction.
BeyondLastHopTargets(q, edges, t) ==
    \E e \in SeqRange(Touching(edges, q.dir, t.frontier)) : e.dst \notin t.nodes

\* _traversal_extension_exists: an unseen end beyond the last hop.  (For "both"
\* the query's parameters are bound in the wrong order; what it then selects is this.)
BeyondLastHop(q, edges, t) ==
    \E e \in SeqRange(Touching(edges, q.dir, t.frontier)) :
        LET far == CASE q.dir = "outgoing" -> e.dst
                     [] q.dir = "incoming" -> e.src
                     [] OTHER -> IF e.src \in t.frontier THEN e.dst ELSE e.src
        IN far \notin t.nodes

\* _bounded_traversal_store.
LoadTraversal(g, scope, q) ==
    LET roots == IF q.method = "paths" THEN {q.root, q.goal} ELSE {q.root}
        edges == Eligible(g, scope).edges
        start == [nodes |-> roots, edges |-> {}, examined |-> {}, frontier |-> {q.root} \cap scope,
                  next |-> {}, truncated |-> FALSE]
        end == Rounds(LAMBDA t : LoadHop(q, edges, t), start, q.hops)
    IN IF ~(roots \subseteq g.nodes) THEN NotLoaded("unavailable")
       ELSE IF ~(roots \subseteq scope) /\ q.policy = "require" THEN NotLoaded("out_of_scope")
       ELSE Loaded("loaded", Part(g, end.nodes, end.edges), end.truncated \/ BeyondLastHop(q, edges, end))

\* degree: counted by the query itself.
CountDegree(g, scope, q) ==
    LET cap == IF q.results < q.examined THEN q.results ELSE q.examined
        rows == AtMost(cap + 1, EdgesAt(Eligible(g, scope).edges, q.dir, q.root))
    IN IF q.root \notin g.nodes THEN Failed("unavailable")
       ELSE IF q.root \in scope THEN Found({}, SeqRange(AtMost(cap, rows)), {}, Len(rows) > cap)
       ELSE IF q.policy = "require" THEN Failed("out_of_scope")
       ELSE Found({}, {}, {}, FALSE)

\* One hop of _bounded_root_algorithm_store.
LoadSliceHop(q, edges, t) ==
    LET remaining == q.examined - Cardinality(t.edges)
        rows == SelectSeq(Touching(edges, "both", t.frontier), LAMBDA e : e \notin t.edges)
        read == FoldLeft(LAMBDA s, e : TakeSliceEdge(q, s, e),
                         [t EXCEPT !.next = {}, !.truncated = @ \/ Len(rows) > remaining],
                         AtMost(remaining, rows))
    IN IF t.done \/ t.frontier = {} THEN [t EXCEPT !.done = TRUE]
       ELSE IF remaining <= 0 THEN [t EXCEPT !.done = TRUE, !.truncated = WorkLeft(edges, t)]
       ELSE [read EXCEPT !.frontier = read.next]

\* _bounded_root_algorithm_store.
LoadRootSlice(g, scope, q) ==
    LET edges == Eligible(g, scope).edges
        start == [nodes |-> {q.root}, edges |-> {}, frontier |-> {q.root}, next |-> {},
                  stopped |-> FALSE, done |-> FALSE, truncated |-> FALSE]
        end == Rounds(LAMBDA t : LoadSliceHop(q, edges, t), start, q.hops)
    IN IF q.root \notin g.nodes THEN NotLoaded("unavailable")
       ELSE IF q.root \in scope
         THEN Loaded("loaded", Part(g, end.nodes, end.edges),
                     end.truncated \/ (~end.done /\ WorkLeft(edges, end)))
       ELSE IF q.policy = "require" THEN NotLoaded("out_of_scope")
       ELSE Loaded("loaded", Part(g, {q.root}, {}), FALSE)

\* _bounded_algorithm_store without a root.
LoadWholeSlice(g, scope, q) ==
    LET slice == WholeSlice(g, scope, q)
    IN Loaded("loaded", Part(g, slice.nodes, slice.edges), slice.truncated)

\* _bounded_algorithm_store.
LoadSlice(g, scope, q) == IF q.rooted THEN LoadRootSlice(g, scope, q) ELSE LoadWholeSlice(g, scope, q)
=============================================================================
