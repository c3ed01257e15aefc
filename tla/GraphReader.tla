---------------------------- MODULE GraphReader ----------------------------
(***************************************************************************)
(* A reader of the analytics graph (SQLiteGraphReader and                  *)
(* InMemoryGraphReader): every public method is a fixed sequence of steps, *)
(* each a transaction of its own, between which another connection may     *)
(* activate a new generation, withdraw the active one or collect the rows  *)
(* of a retired one.  An algorithm keeps its answer in a cache, per        *)
(* generation.                                                             *)
(*                                                                         *)
(* Generation 1 is active at first and holds the chosen graph; generation  *)
(* 2, when it comes, holds it without its first edge.                      *)
(***************************************************************************)
EXTENDS GraphLoad

CONSTANTS Nodes,        \* the nodes of every generation; 1 is the root asked for
          MaxEdges,     \* how many edges a graph has at most
          HopLimits, VisitedLimits, QueueLimits, ResultLimits, ExaminedLimits,
          MaxTight,     \* how many of the limits of a request are not the largest
          MaxTightShared,  \* the same for requests that other connections disturb,
          MaxEdgesShared,  \* and how many edges the graph has then at most
          MaxAsked      \* how often the same request is made

ASSUME NodesAssumption == /\ IsFiniteSet(Nodes) /\ Nodes \subseteq Nat /\ 1 \in Nodes
                          /\ \A S \in {HopLimits, VisitedLimits, QueueLimits, ResultLimits, ExaminedLimits} :
                                S \subseteq Nat

VARIABLES q,         \* the request
          scope,     \* the nodes of its kinds and window
          content,   \* generation -> its edges
          status,    \* generation -> absent, active, retired or collected
          visible,   \* whether the active generation is witnessed and may be served
          todo,      \* the steps that the running method has still to take
          gen,       \* the generation it resolved, 0 before
          held,      \* what it loaded
          answer,    \* what it computed
          outcome,   \* none, answered, or why it failed
          late,      \* the request was cancelled or its deadline is over
          cache,     \* the rows of graph_algorithm_metrics
          asked      \* how often the method was called

graphVars == <<content, status, visible>>
callVars == <<todo, gen, held, answer, outcome>>
vars == <<q, scope, content, status, visible, todo, gen, held, answer, outcome, late, cache, asked>>

Generations == {1, 2}
Algorithms == {"centrality", "communities"}

\* What a generation held when it was published, and what its rows still hold.
Published(g) == [nodes |-> Nodes, edges |-> content[g]]
Stored(g) == IF status[g] = "collected" THEN NoGraph ELSE Published(g)

\* _active_generation_id: what the resolver answers; 0 is none.  It reads the
\* witness and the canonical file around the active row and answers with the row
\* it reads last, so its answer is that of one moment.
Active == IF visible /\ \E g \in Generations : status[g] = "active"
            THEN CHOOSE g \in Generations : status[g] = "active" ELSE 0

-----------------------------------------------------------------------------
(* The methods.                                                            *)
NeighborhoodSteps == <<"resolve", "load", "compute", "recheck">>
PathSteps == <<"resolve", "load", "compute", "recheck">>
DegreeSteps == <<"resolve", "count", "recheck">>
RowsSteps == <<"resolve", "count", "recheck">>
CentralitySteps == <<"resolve", "lookup", "resolved", "load", "compute", "recheck", "store", "confirm">>
CommunitySteps == <<"resolve", "lookup", "resolved", "load", "compute", "recheck", "store", "confirm">>
CachedSteps == <<"recheck", "recheck">>
MemorySteps == <<"resolve", "load", "compute", "recheck">>

Steps(r) ==
    IF r.backend = "memory" THEN MemorySteps ELSE
    CASE r.method = "neighborhood" -> NeighborhoodSteps
      [] r.method = "paths" -> PathSteps
      [] r.method = "degree" -> DegreeSteps
      [] r.method = "rows" -> RowsSteps
      [] r.method = "centrality" -> CentralitySteps
      [] OTHER -> CommunitySteps

\* Reads of stored rows: nodes, edges, get_node, get_edge.
Rows(g) == Found(g.nodes, SeqRange(g.edges), {}, FALSE)

\* What the SQLite reader loads of a stored graph; the memory reader holds all of it.
Load(g, r) ==
    IF r.backend = "memory" THEN Loaded("loaded", g, FALSE) ELSE
    CASE r.method \in {"neighborhood", "paths"} -> LoadTraversal(g, scope, r)
      [] OTHER -> LoadSlice(g, scope, r)

Count(g, r) == IF r.method = "degree" THEN CountDegree(g, scope, r) ELSE Rows(g)

Search(g, r) ==
    CASE r.method = "neighborhood" -> Neighborhood(g, scope, r)
      [] r.method = "paths" -> Paths(g, scope, r)
      [] r.method = "degree" -> Degree(g, scope, r)
      [] r.method = "rows" -> Rows(g)
      [] OTHER -> Slice(g, scope, r)

\* The answer over what was loaded: a truncated load truncates it, except for a
\* path from a node to itself; so does no path when one node may be visited.
Compute(h, r) ==
    LET found == Search(h.graph, r)
        pathless == r.backend = "sqlite" /\ r.method = "paths" /\ found.paths = {} /\ r.visited = 1
    IN IF h.status # "loaded" THEN Failed(h.status)
       ELSE IF r.method = "paths" /\ r.root = r.goal THEN found
       ELSE [found EXCEPT !.truncated = @ \/ h.truncated \/ pathless]

\* The answer that a generation gives, taken in one piece.
AnswerOf(g) ==
    IF q.backend = "sqlite" /\ q.method \in {"degree", "rows"}
      THEN Count(Published(g), q) ELSE Compute(Load(Published(g), q), q)

-----------------------------------------------------------------------------
(* The requests and graphs.                                                *)
\* The relations of a projected graph join two different nodes.
Pairs == {p \in Nodes \X Nodes : p[1] # p[2]}
Graphs == UNION {{[i \in 1 .. n |-> [id |-> i, src |-> s[i][1], dst |-> s[i][2]]] :
                     s \in [1 .. n -> Pairs]} : n \in 0 .. MaxEdges}

Largest(S) == CHOOSE x \in S : \A y \in S : y <= x
Tight(S, x) == IF x = Largest(S) THEN 0 ELSE 1
TightLimits(l) == Tight(HopLimits, l.hops) + Tight(VisitedLimits, l.visited) + Tight(QueueLimits, l.queue)
                    + Tight(ResultLimits, l.results) + Tight(ExaminedLimits, l.examined)
Limits == {l \in [hops : HopLimits, visited : VisitedLimits, queue : QueueLimits,
                  results : ResultLimits, examined : ExaminedLimits] : TightLimits(l) <= MaxTight}

Goal == Largest(Nodes)
Shapes == [method : {"rows"}, dir : {"both"}, goal : {Goal}, rooted : {TRUE}]
    \cup [method : {"neighborhood", "degree"}, dir : {"outgoing", "incoming", "both"}, goal : {Goal}, rooted : {TRUE}]
    \cup [method : {"paths"}, dir : {"outgoing", "both"}, goal : {1, Goal}, rooted : {TRUE}]
    \cup [method : {"centrality"}, dir : {"both"}, goal : {Goal}, rooted : {TRUE}]
    \cup [method : {"communities"}, dir : {"both"}, goal : {Goal}, rooted : {FALSE}]

\* A request with the same limits in every field that its method does not read.
Request(backend, shape, l, policy) ==
    [backend |-> backend, method |-> shape.method, dir |-> shape.dir, root |-> 1, goal |-> shape.goal,
     rooted |-> shape.rooted, policy |-> policy, examined |-> l.examined,
     hops |-> IF shape.method \in {"degree", "rows"} THEN Largest(HopLimits) ELSE l.hops,
     visited |-> IF shape.method \in {"degree", "rows"} THEN Largest(VisitedLimits) ELSE l.visited,
     queue |-> IF shape.method \in {"degree", "rows"} THEN Largest(QueueLimits) ELSE l.queue,
     results |-> IF shape.method \in Algorithms THEN Largest(ResultLimits) ELSE l.results]

Init ==
    /\ \E backend \in {"sqlite", "memory"}, shape \in Shapes, l \in Limits, policy \in {"require", "include"} :
         q = Request(backend, shape, l, policy)
    /\ scope \in {Nodes} \cup {Nodes \ {n} : n \in Nodes}
    /\ scope # Nodes => TightLimits(q) = 0
    /\ q.policy = "include" => {q.root, q.goal} \cap scope # {q.root, q.goal}
    /\ \E graph \in Graphs :
         content = [g \in Generations |-> IF g = 1 \/ graph = << >> THEN graph ELSE Tail(graph)]
    /\ status = [g \in Generations |-> IF g = 1 THEN "active" ELSE "absent"]
    /\ visible = TRUE
    /\ todo = << >> /\ gen = 0 /\ held = NotLoaded("none") /\ answer = NoAnswer /\ outcome = "none"
    /\ late = FALSE /\ cache = {} /\ asked = 0

-----------------------------------------------------------------------------
(* The steps of a method.                                                  *)
Quiet == todo = << >>

Call ==
    /\ Quiet /\ asked < MaxAsked
    /\ asked = 0 \/ (q.method \in Algorithms /\ q.backend = "sqlite")
    /\ todo' = Steps(q) /\ asked' = asked + 1
    /\ gen' = 0 /\ held' = NotLoaded("none") /\ answer' = NoAnswer /\ outcome' = "none"
    /\ UNCHANGED <<q, scope, graphVars, late, cache>>

\* The method ends here; what it loaded and computed is dropped unless it answers.
Raise(why) == /\ todo' = << >> /\ outcome' = why /\ gen' = 0
              /\ held' = NotLoaded("none") /\ answer' = NoAnswer

\* _check_budget, before and after every step.
OutOfTime ==
    /\ late /\ late' = FALSE
    /\ Raise("late")
    /\ UNCHANGED <<q, scope, graphVars, cache, asked>>

At(step) == ~Quiet /\ ~late /\ Head(todo) = step

Resolve ==
    /\ At("resolve")
    /\ IF Active = 0 THEN Raise("unavailable")
       ELSE /\ gen' = Active /\ todo' = Tail(todo) /\ UNCHANGED <<held, answer, outcome>>
    /\ UNCHANGED <<q, scope, graphVars, late, cache, asked>>

\* The row that this method looks up, keeps or deletes.
IsCached(row) == row.gen = gen /\ row.metric = q.method

\* _algorithm_cache.
Lookup ==
    /\ At("lookup")
    /\ \/ \E row \in cache : IsCached(row) /\ answer' = row.answer /\ todo' = CachedSteps
       \/ /\ \A row \in cache : ~IsCached(row)
          /\ todo' = Tail(todo) /\ UNCHANGED answer
    /\ UNCHANGED <<q, scope, graphVars, gen, held, outcome, late, cache, asked>>

\* _bounded_algorithm_store resolves again and expects the same generation.
Resolved ==
    /\ At("resolved")
    /\ IF Active = gen THEN todo' = Tail(todo) /\ UNCHANGED <<gen, held, answer, outcome>>
       ELSE Raise(IF Active = 0 THEN "unavailable" ELSE "changed")
    /\ UNCHANGED <<q, scope, graphVars, late, cache, asked>>

LoadRows ==
    /\ At("load")
    /\ LET loaded == Load(IF q.backend = "memory" THEN Published(gen) ELSE Stored(gen), q)
       IN IF loaded.status # "loaded" THEN Raise(loaded.status)
          ELSE held' = loaded /\ todo' = Tail(todo) /\ UNCHANGED <<gen, answer, outcome>>
    /\ UNCHANGED <<q, scope, graphVars, late, cache, asked>>

\* degree and the row reads have one query for their answer.
CountRows ==
    /\ At("count")
    /\ LET counted == Count(Stored(gen), q)
       IN IF counted.status # "found" THEN Raise(counted.status)
          ELSE answer' = counted /\ todo' = Tail(todo) /\ UNCHANGED <<gen, held, outcome>>
    /\ UNCHANGED <<q, scope, graphVars, late, cache, asked>>

ComputeAnswer ==
    /\ At("compute")
    /\ LET computed == Compute(held, q)
       IN IF computed.status # "found" THEN Raise(computed.status)
          ELSE /\ answer' = computed /\ held' = NotLoaded("none") /\ todo' = Tail(todo)
               /\ UNCHANGED <<gen, outcome>>
    /\ UNCHANGED <<q, scope, graphVars, late, cache, asked>>

\* Mutant: it is only checked that the account still has an active generation.
RecheckPresent ==
    /\ At("recheck")
    /\ IF Active # 0
         THEN /\ todo' = Tail(todo) /\ outcome' = IF Tail(todo) = << >> THEN "answered" ELSE outcome
              /\ UNCHANGED <<gen, held, answer>>
         ELSE Raise("changed")
    /\ UNCHANGED <<q, scope, graphVars, late, cache, asked>>

\* The generation is still the active one; after the last step the method returns.
Recheck ==
    /\ At("recheck")
    /\ IF Active = gen
         THEN /\ todo' = Tail(todo) /\ outcome' = IF Tail(todo) = << >> THEN "answered" ELSE outcome
              /\ UNCHANGED <<gen, held, answer>>
         ELSE Raise("changed")
    /\ UNCHANGED <<q, scope, graphVars, late, cache, asked>>

\* Mutant: the row is stored for the generation that is active by now.
StoreAnswerLatest ==
    /\ At("store")
    /\ cache' = IF Active # 0 /\ \A row \in cache : ~IsCached(row)
                  THEN cache \cup {[gen |-> Active, metric |-> q.method, answer |-> answer]} ELSE cache
    /\ todo' = Tail(todo)
    /\ UNCHANGED <<q, scope, graphVars, gen, held, answer, outcome, late, asked>>

\* _cache_algorithm: only while the generation's row says active.
StoreAnswer ==
    /\ At("store")
    /\ cache' = IF status[gen] = "active" /\ \A row \in cache : ~IsCached(row)
                  THEN cache \cup {[gen |-> gen, metric |-> q.method, answer |-> answer]} ELSE cache
    /\ todo' = Tail(todo)
    /\ UNCHANGED <<q, scope, graphVars, gen, held, answer, outcome, late, asked>>

\* The recheck behind the cache: the row of a generation that changed is deleted.
Confirm ==
    /\ At("confirm")
    /\ IF Active = gen
         THEN todo' = << >> /\ outcome' = "answered" /\ UNCHANGED <<gen, held, answer, cache>>
         ELSE /\ Raise("changed")
              /\ cache' = {row \in cache : ~IsCached(row)}
    /\ UNCHANGED <<q, scope, graphVars, late, asked>>

-----------------------------------------------------------------------------
(* The other connections, and the clock.  What they do between two calls is *)
(* the same as what they do after the second has begun.                    *)
Disturbed == /\ ~Quiet /\ TightLimits(q) <= MaxTightShared
             /\ Len(content[1]) <= MaxEdgesShared

Activate ==
    /\ Disturbed /\ status[2] = "absent"
    /\ status' = [status EXCEPT ![2] = "active", ![1] = "retired"]
    /\ visible' = TRUE
    /\ UNCHANGED <<q, scope, content, callVars, late, cache, asked>>

\* The witness of the active generation is gone: an epoch revoked, a file replaced.
Withdraw ==
    /\ Disturbed /\ visible
    /\ visible' = FALSE
    /\ UNCHANGED <<q, scope, content, status, callVars, late, cache, asked>>

\* Rows of a retired generation are deleted, the cached answers with them.
Collect ==
    /\ Disturbed /\ status[1] = "retired"
    /\ status' = [status EXCEPT ![1] = "collected"]
    /\ cache' = {row \in cache : row.gen # 1}
    /\ UNCHANGED <<q, scope, content, visible, callVars, late, asked>>

\* The caller cancels, or the wall-clock limit passes; reads of rows have neither.
BecomeLate ==
    /\ Disturbed /\ ~late /\ q.method # "rows"
    /\ late' = TRUE
    /\ UNCHANGED <<q, scope, graphVars, callVars, cache, asked>>

Next ==
    \/ Call \/ OutOfTime \/ Resolve \/ Lookup \/ Resolved \/ LoadRows \/ CountRows \/ ComputeAnswer
    \/ Recheck \/ StoreAnswer \/ Confirm
    \/ Activate \/ Withdraw \/ Collect \/ BecomeLate

Spec == Init /\ [][Next]_vars

-----------------------------------------------------------------------------
(* Reference answers.                                                      *)
InScope(g) == SeqRange(Eligible(Published(g), scope).edges)

\* The nodes at most k steps from the root.
Within(edges, dir, k) ==
    Rounds(LAMBDA ns : ns \cup {FarEnd(p[1], p[2]) : p \in {r \in edges \X ns : r[2] \in Starts(r[1], dir)}},
           {q.root}, k)

EdgesWithin(edges, dir, k) == {e \in edges : Starts(e, dir) \cap Within(edges, dir, k) # {}}

\* Sequences of k edges that lead from the root to the goal.
Walks(edges, k) ==
    {w \in [1 .. k -> edges] :
        \E at \in [0 .. k -> Nodes] :
            /\ at[0] = q.root /\ at[k] = q.goal
            /\ \A i \in 1 .. k : at[i - 1] \in Starts(w[i], q.dir) /\ at[i] = FarEnd(w[i], at[i - 1])}

Shortest(edges) ==
    LET lengths == {k \in 0 .. Cardinality(Nodes) : Walks(edges, k) # {}}
    IN IF lengths = {} THEN {} ELSE Walks(edges, CHOOSE k \in lengths : \A j \in lengths : k <= j)

\* Whether an answer leaves nothing out of what the request asks for: no node
\* beyond the hop limit either, but edges between two nodes at that limit.
Complete(a, g) ==
    LET edges == InScope(g)
        reached == Within(edges, q.dir, Cardinality(Nodes))
        edgesAsked ==
          CASE q.method = "rows" -> SeqRange(content[g])
            [] q.method = "neighborhood" -> IF q.hops = 0 THEN {} ELSE EdgesWithin(edges, q.dir, q.hops - 1)
            [] q.method = "degree" -> {e \in edges : q.root \in Starts(e, q.dir)}
            [] q.method \in Algorithms /\ q.rooted -> {e \in edges : Ends(e) \subseteq reached}
            [] q.method \in Algorithms /\ ~q.rooted -> edges
            [] OTHER -> {}
        nodesAsked ==
          CASE q.method = "rows" -> Nodes
            [] q.method \in {"paths", "degree"} -> {}
            [] q.method \in Algorithms /\ ~q.rooted -> scope
            [] OTHER -> reached
    IN /\ a.edges = edgesAsked
       /\ a.nodes = nodesAsked
       /\ a.paths = IF q.method = "paths" THEN Shortest(edges) ELSE {}

-----------------------------------------------------------------------------
(* Properties.                                                             *)
TypeOK ==
    /\ status \in [Generations -> {"absent", "active", "retired", "collected"}]
    /\ visible \in BOOLEAN /\ late \in BOOLEAN
    /\ gen \in {0} \cup Generations
    /\ outcome \in {"none", "answered", "unavailable", "out_of_scope", "changed", "late"}
    /\ \A row \in cache : row.gen \in Generations /\ row.metric \in Algorithms

\* A method returns only what the generation that is active at that moment gives,
\* whatever was activated, withdrawn or collected while it ran, and also when the
\* answer comes out of the cache.
AnswersAreOfActive ==
    [][outcome' = "answered" /\ outcome # "answered" => Active # 0 /\ answer' = AnswerOf(Active)]_vars

\* A cached answer is the one its generation gives, even when the generation was
\* withdrawn or retired while it was computed.
CacheIsExact == \A row \in cache : row.answer = AnswerOf(row.gen)

\* An answer that does not say it is truncated leaves nothing out, except where
\* TruncationIsReported fails: a neighborhood whose visited limit is used up
\* (graph_store.py:378), a rooted slice whose edge limit is (sqlite_graph_store.py:1240),
\* and no path where the goal is one step beyond the hop limit (sqlite_graph_store.py:869).
UntruncatedIsComplete ==
    outcome = "answered" /\ ~answer.truncated /\ q.root \in scope
      /\ ~(q.method = "neighborhood" /\ Cardinality(answer.nodes) >= q.visited)
      /\ ~(q.method \in Algorithms /\ q.rooted /\ Cardinality(answer.edges) >= q.examined)
      /\ ~(q.method = "paths" /\ q.backend = "sqlite" /\ answer.paths = {} /\ Walks(InScope(gen), q.hops + 1) # {})
    => Complete(answer, gen)

\* Truncated or not, an answer holds nothing that is not there or out of scope,
\* nothing farther from the root than the hop limit, and no more than its limits.
AnswersStayInBounds ==
    outcome = "answered" /\ q.method # "rows" =>
        LET edges == InScope(gen)
        IN /\ answer.edges \subseteq edges
           /\ q.method \in {"neighborhood", "centrality"} =>
                /\ answer.nodes \subseteq Within(edges, q.dir, q.hops)
                /\ Cardinality(answer.nodes) <= q.visited
           /\ q.method = "communities" => Cardinality(answer.nodes) <= q.visited
           /\ Cardinality(answer.edges) <= IF q.method \in Algorithms THEN q.examined ELSE q.results
           /\ Cardinality(answer.paths) <= q.results
           /\ \A w \in answer.paths : Len(w) <= q.hops /\ (w # << >> => w \in Walks(edges, Len(w)))

\* An answer is neither less than it says nor more than it may be, and all is of its type.
AnswersAreHonest == TypeOK /\ UntruncatedIsComplete /\ AnswersStayInBounds

\* src/app/analytics/README.md:58-62: every traversal reports truncation.  The code
\* does not in the three cases above (README, Disagreements).
TruncationIsReported ==
    outcome = "answered" /\ ~answer.truncated /\ q.root \in scope => Complete(answer, gen)
=============================================================================
