------------------------- MODULE GraphStore_proofs -------------------------
(***************************************************************************)
(* Theorems about the two sides of the graph store, GraphReader and        *)
(* GraphWriter.                                                            *)
(*                                                                         *)
(* What a reader answers and what it caches are exact, for every graph,    *)
(* request and limit.  The searches themselves stay closed: the theorems   *)
(* say that no interleaving with activation, withdrawal and collection     *)
(* makes the steps of a method answer other than one undisturbed search.   *)
(*                                                                         *)
(* For the writer, whoever holds the file's lock knows the status of the   *)
(* generation, since a reclaimer needs the lock too, and a terminal call   *)
(* has joined the heartbeat before it commits, so nothing can fail after.  *)
(***************************************************************************)
EXTENDS GraphReader, GraphWriter, TLAPS

-----------------------------------------------------------------------------
(***************************************************************************)
(* The reader.                                                             *)
(***************************************************************************)

StepNames == {"resolve", "lookup", "resolved", "load", "compute", "count", "recheck", "store", "confirm"}

\* Which step comes after which.
Order == {<<"resolve", "lookup">>, <<"resolve", "load">>, <<"resolve", "count">>,
          <<"lookup", "resolved">>, <<"resolved", "load">>, <<"load", "compute">>,
          <<"compute", "recheck">>, <<"count", "recheck">>,
          <<"recheck", "recheck">>, <<"recheck", "store">>, <<"store", "confirm">>}

WellOrdered(s) == /\ s \in Seq(StepNames)
                  /\ \A i \in 1 .. Len(s) - 1 : <<s[i], s[i + 1]>> \in Order

\* A request that one query answers.
Counted == q.backend = "sqlite" /\ q.method \in {"degree", "rows"}

Suits(s) == \A i \in 1 .. Len(s) : /\ s[i] = "count" => Counted
                                   /\ s[i] = "compute" => ~Counted

\* Generation 1 is active until generation 2 is there.
StatusOK == /\ status \in [Generations -> {"absent", "active", "retired", "collected"}]
            /\ status[2] = "absent" => status[1] = "active"

Due(step) == todo # << >> /\ Head(todo) = step

GenIsResolved == todo # << >> /\ Head(todo) # "resolve" => gen \in Generations

\* What is loaded and computed is of the resolved generation, unless its rows
\* were collected meanwhile: then the method cannot answer any more.
HeldIsExact == Due("compute") => /\ held.status = "loaded"
                                 /\ held = Load(Published(gen), q) \/ status[gen] = "collected"
AnswerIsExact == Due("recheck") \/ Due("store") \/ Due("confirm")
                   => answer = AnswerOf(gen) \/ status[gen] = "collected"

BackendOK == q.backend \in {"sqlite", "memory"}

ReaderInv == /\ BackendOK /\ WellOrdered(todo) /\ Suits(todo)
             /\ StatusOK /\ GenIsResolved /\ HeldIsExact /\ AnswerIsExact
             /\ CacheIsExact

-----------------------------------------------------------------------------
\* The rest of a well-ordered method is one.
LEMMA RestIsOrdered ==
    ASSUME NEW s, WellOrdered(s), Suits(s), s # << >>
    PROVE  /\ WellOrdered(Tail(s)) /\ Suits(Tail(s))
           /\ Head(s) \in StepNames
           /\ Tail(s) # << >> => <<Head(s), Head(Tail(s))>> \in Order
           /\ Head(s) = "count" => Counted
           /\ Head(s) = "compute" => ~Counted
  <1> DEFINE t == Tail(s)
  <1>1. /\ s \in Seq(StepNames) /\ Len(s) \in Nat /\ Len(s) > 0
        /\ t \in Seq(StepNames) /\ Len(t) = Len(s) - 1
        /\ \A i \in 1 .. Len(t) : t[i] = s[i + 1]
        /\ Head(s) = s[1] /\ s[1] \in StepNames
        /\ t # << >> => Head(t) = t[1] /\ Len(t) > 0
    BY DEF WellOrdered
  <1>2. WellOrdered(t)
    BY <1>1 DEF WellOrdered
  <1>3. Suits(t)
    BY <1>1 DEF Suits
  <1>4. t # << >> => <<Head(s), Head(t)>> \in Order
    BY <1>1 DEF WellOrdered
  <1>5. /\ Head(s) = "count" => Counted
        /\ Head(s) = "compute" => ~Counted
    BY <1>1 DEF Suits
  <1> QED
    BY <1>1, <1>2, <1>3, <1>4, <1>5

\* Every method takes its steps in that order.
LEMMA MethodsAreOrdered ==
    ASSUME BackendOK
    PROVE  WellOrdered(Steps(q)) /\ Suits(Steps(q))
  <1>1. WellOrdered(MemorySteps) /\ WellOrdered(DegreeSteps) /\ WellOrdered(CachedSteps)
    BY DEF WellOrdered, MemorySteps, DegreeSteps, CachedSteps, StepNames, Order
  <1>2. WellOrdered(CentralitySteps)
    BY DEF WellOrdered, CentralitySteps, StepNames, Order
  <1>3. /\ NeighborhoodSteps = MemorySteps /\ PathSteps = MemorySteps
        /\ RowsSteps = DegreeSteps /\ CommunitySteps = CentralitySteps
    BY DEF NeighborhoodSteps, PathSteps, MemorySteps, RowsSteps, DegreeSteps, CommunitySteps, CentralitySteps
  <1>4. CASE Counted
    <2>1. Steps(q) = DegreeSteps
      BY <1>3, <1>4 DEF Steps, Counted
    <2>2. Suits(DegreeSteps)
      BY <1>4 DEF Suits, DegreeSteps
    <2> QED
      BY <1>1, <2>1, <2>2
  <1>5. CASE ~Counted
    <2>1. q.backend = "memory" \/ q.method \notin {"degree", "rows"}
      BY <1>5 DEF Counted, BackendOK
    <2>2. Steps(q) = MemorySteps \/ Steps(q) = CentralitySteps
      BY <1>3, <2>1 DEF Steps
    <2>3. Suits(MemorySteps)
      BY <1>5 DEF Suits, MemorySteps
    <2>4. Suits(CentralitySteps)
      BY <1>5 DEF Suits, CentralitySteps
    <2> QED
      BY <1>1, <1>2, <2>2, <2>3, <2>4
  <1> QED
    BY <1>4, <1>5

\* The generation that may be served is one, and its rows are there.
LEMMA ActiveIsActive ==
    ASSUME Active # 0
    PROVE  Active \in Generations /\ status[Active] = "active"
  BY DEF Active

\* What a generation answers never changes.
LEMMA AnswersAreFixed ==
    ASSUME UNCHANGED <<q, scope, content>>, NEW g
    PROVE  AnswerOf(g)' = AnswerOf(g) /\ Load(Published(g), q)' = Load(Published(g), q)
  BY DEF AnswerOf, Count, Compute, Search, Load, Published

-----------------------------------------------------------------------------
LEMMA InitReader == Init => ReaderInv
  <1> SUFFICES ASSUME Init PROVE ReaderInv
    OBVIOUS
  <1>1. BackendOK
    BY DEF Init, Request, BackendOK
  <1>2. todo = << >> /\ cache = {}
    BY DEF Init
  <1>3. WellOrdered(todo) /\ Suits(todo)
    BY <1>2 DEF WellOrdered, Suits
  <1>4. StatusOK
    BY DEF Init, StatusOK, Generations
  <1>5. GenIsResolved /\ HeldIsExact /\ AnswerIsExact /\ CacheIsExact
    BY <1>2 DEF GenIsResolved, HeldIsExact, AnswerIsExact, CacheIsExact, Due
  <1> QED
    BY <1>1, <1>3, <1>4, <1>5 DEF ReaderInv

\* A step of the method that leaves the generations alone has to keep what its
\* place says, and what it puts into the cache has to be exact.
LEMMA MethodStep ==
    ASSUME ReaderInv, UNCHANGED <<q, scope, graphVars>>,
           WellOrdered(todo'), Suits(todo'),
           GenIsResolved', HeldIsExact', AnswerIsExact',
           \A row \in cache' : row \in cache \/ row.answer = AnswerOf(row.gen)
    PROVE  ReaderInv'
  <1>1. BackendOK' /\ StatusOK' /\ Suits(todo)'
    BY DEF ReaderInv, BackendOK, StatusOK, graphVars, Suits, Counted
  <1>2. CacheIsExact'
    BY AnswersAreFixed DEF ReaderInv, CacheIsExact, graphVars
  <1>3. WellOrdered(todo)'
    BY DEF WellOrdered
  <1> QED
    BY <1>1, <1>2, <1>3 DEF ReaderInv

\* A method that ends has nothing left to be exact about.
LEMMA MethodEnds ==
    ASSUME ReaderInv, UNCHANGED <<q, scope, graphVars>>, todo' = << >>, cache' \subseteq cache
    PROVE  ReaderInv'
  <1>1. WellOrdered(todo') /\ Suits(todo')
    BY DEF WellOrdered, Suits
  <1>2. GenIsResolved' /\ HeldIsExact' /\ AnswerIsExact'
    BY DEF GenIsResolved, HeldIsExact, AnswerIsExact, Due
  <1> QED
    BY <1>1, <1>2, MethodStep

\* Raise ends the method.
LEMMA RaiseEnds ==
    ASSUME ReaderInv, UNCHANGED <<q, scope, graphVars>>, NEW why, Raise(why), cache' \subseteq cache
    PROVE  ReaderInv'
  BY MethodEnds DEF Raise

\* What the next step is, and what holds of the steps after it.
LEMMA NextStep ==
    ASSUME ReaderInv, NEW step, At(step)
    PROVE  /\ todo # << >> /\ Head(todo) = step /\ Due(step)
           /\ WellOrdered(Tail(todo)) /\ Suits(Tail(todo))
           /\ Tail(todo) # << >> => <<step, Head(Tail(todo))>> \in Order
           /\ step = "count" => Counted
           /\ step = "compute" => ~Counted
  <1>1. todo # << >> /\ Head(todo) = step
    BY DEF At, Quiet
  <1> QED
    BY <1>1, RestIsOrdered DEF ReaderInv, Due

\* After the first step there is a generation.
LEMMA GenIsThere ==
    ASSUME ReaderInv, NEW step \in StepNames \ {"resolve"}, At(step)
    PROVE  gen \in Generations
  BY DEF ReaderInv, GenIsResolved, At, Quiet

LEMMA CallKeeps == ASSUME ReaderInv, Call PROVE ReaderInv'
  <1>1. WellOrdered(todo') /\ Suits(todo')
    <2>1. todo' = Steps(q) /\ UNCHANGED q
      BY DEF Call
    <2> QED
      BY <2>1, MethodsAreOrdered DEF ReaderInv
  <1>2. todo' # << >> => Head(todo') = "resolve"
    BY DEF Call, Steps, MemorySteps, NeighborhoodSteps, PathSteps, DegreeSteps, RowsSteps,
           CentralitySteps, CommunitySteps
  <1>3. GenIsResolved' /\ HeldIsExact' /\ AnswerIsExact'
    BY <1>2 DEF GenIsResolved, HeldIsExact, AnswerIsExact, Due
  <1> QED
    BY <1>1, <1>3, MethodStep DEF Call

LEMMA ResolveKeeps == ASSUME ReaderInv, Resolve PROVE ReaderInv'
  <1>1. CASE Active = 0
    BY <1>1, RaiseEnds DEF Resolve
  <1>2. CASE Active # 0
    <2>1. /\ gen' = Active /\ todo' = Tail(todo) /\ UNCHANGED <<held, answer, cache>>
          /\ UNCHANGED <<q, scope, graphVars>> /\ At("resolve")
      BY <1>2 DEF Resolve
    <2>2. /\ WellOrdered(todo') /\ Suits(todo')
          /\ todo' # << >> => Head(todo') \in {"lookup", "load", "count"}
      BY <2>1, NextStep DEF Order
    <2>3. GenIsResolved' /\ HeldIsExact' /\ AnswerIsExact'
      BY <1>2, <2>1, <2>2, ActiveIsActive DEF GenIsResolved, HeldIsExact, AnswerIsExact, Due
    <2> QED
      BY <2>1, <2>2, <2>3, MethodStep
  <1> QED
    BY <1>1, <1>2

\* A step that keeps the generation and is followed by none that needs the load or the answer.
LEMMA PlainStep ==
    ASSUME ReaderInv, NEW step \in {"lookup", "resolved"}, At(step),
           UNCHANGED <<q, scope, graphVars, gen, cache>>, todo' = Tail(todo)
    PROVE  ReaderInv'
  <1>1. /\ WellOrdered(todo') /\ Suits(todo')
        /\ todo' # << >> => Head(todo') \in {"resolved", "load"}
    BY NextStep DEF Order
  <1>2. GenIsResolved' /\ HeldIsExact' /\ AnswerIsExact'
    BY <1>1, NextStep DEF GenIsResolved, HeldIsExact, AnswerIsExact, Due, ReaderInv
  <1> QED
    BY <1>1, <1>2, MethodStep

LEMMA LookupKeeps == ASSUME ReaderInv, Lookup PROVE ReaderInv'
  <1> USE DEF Lookup
  <1>1. CASE \A row \in cache : ~IsCached(row)
    BY <1>1, PlainStep
  <1>2. ASSUME NEW row \in cache, IsCached(row), answer' = row.answer, todo' = CachedSteps
        PROVE  ReaderInv'
    <2>1. answer' = AnswerOf(gen)
      BY <1>2 DEF ReaderInv, CacheIsExact, IsCached
    <2>2. gen \in Generations
      BY GenIsThere DEF StepNames
    <2>3. WellOrdered(todo') /\ Suits(todo') /\ Head(todo') = "recheck"
      BY <1>2 DEF WellOrdered, Suits, CachedSteps, StepNames, Order
    <2>4. GenIsResolved' /\ HeldIsExact' /\ AnswerIsExact'
      BY <2>1, <2>2, <2>3, AnswersAreFixed DEF GenIsResolved, HeldIsExact, AnswerIsExact, Due, graphVars
    <2> QED
      BY <2>3, <2>4, MethodStep
  <1> QED
    BY <1>1, <1>2

LEMMA ResolvedKeeps == ASSUME ReaderInv, Resolved PROVE ReaderInv'
  <1>1. CASE Active = gen
    BY <1>1, PlainStep DEF Resolved
  <1>2. CASE Active # gen
    BY <1>2, RaiseEnds DEF Resolved
  <1> QED
    BY <1>1, <1>2

LEMMA LoadKeeps == ASSUME ReaderInv, LoadRows PROVE ReaderInv'
  <1> DEFINE loaded == Load(IF q.backend = "memory" THEN Published(gen) ELSE Stored(gen), q)
  <1>1. CASE loaded.status # "loaded"
    BY <1>1, RaiseEnds DEF LoadRows
  <1>2. CASE loaded.status = "loaded"
    <2>1. /\ held' = loaded /\ todo' = Tail(todo) /\ At("load")
          /\ UNCHANGED <<q, scope, graphVars, gen, answer, cache>>
      BY <1>2 DEF LoadRows
    <2>2. /\ WellOrdered(todo') /\ Suits(todo')
          /\ todo' # << >> => Head(todo') = "compute"
      BY <2>1, NextStep DEF Order
    <2>3. held' = Load(Published(gen), q) \/ status[gen] = "collected"
      BY <2>1 DEF Stored
    <2>4. HeldIsExact'
      BY <1>2, <2>1, <2>3, AnswersAreFixed DEF HeldIsExact, graphVars
    <2>5. gen \in Generations
      BY <2>1, GenIsThere DEF StepNames
    <2>6. GenIsResolved' /\ AnswerIsExact'
      BY <2>1, <2>2, <2>5 DEF GenIsResolved, AnswerIsExact, Due, Generations
    <2> QED
      BY <2>1, <2>2, <2>4, <2>6, MethodStep
  <1> QED
    BY <1>1, <1>2

LEMMA CountKeeps == ASSUME ReaderInv, CountRows PROVE ReaderInv'
  <1> DEFINE counted == Count(Stored(gen), q)
  <1>1. CASE counted.status # "found"
    BY <1>1, RaiseEnds DEF CountRows
  <1>2. CASE counted.status = "found"
    <2>1. /\ answer' = counted /\ todo' = Tail(todo) /\ At("count")
          /\ UNCHANGED <<q, scope, graphVars, gen, held, cache>>
      BY <1>2 DEF CountRows
    <2>2. /\ WellOrdered(todo') /\ Suits(todo') /\ Counted
          /\ todo' # << >> => Head(todo') = "recheck"
      BY <2>1, NextStep DEF Order
    <2>3. answer' = AnswerOf(gen) \/ status[gen] = "collected"
      BY <2>1, <2>2 DEF Stored, AnswerOf, Counted
    <2>4. AnswerIsExact'
      BY <2>1, <2>3, AnswersAreFixed DEF AnswerIsExact, graphVars
    <2>5. gen \in Generations
      BY <2>1, GenIsThere DEF StepNames
    <2>6. GenIsResolved' /\ HeldIsExact'
      BY <2>1, <2>2, <2>5 DEF GenIsResolved, HeldIsExact, Due, Generations
    <2> QED
      BY <2>1, <2>2, <2>4, <2>6, MethodStep
  <1> QED
    BY <1>1, <1>2

LEMMA ComputeKeeps == ASSUME ReaderInv, ComputeAnswer PROVE ReaderInv'
  <1> DEFINE computed == Compute(held, q)
  <1>1. CASE computed.status # "found"
    BY <1>1, RaiseEnds DEF ComputeAnswer
  <1>2. CASE computed.status = "found"
    <2>1. /\ answer' = computed /\ todo' = Tail(todo) /\ At("compute")
          /\ UNCHANGED <<q, scope, graphVars, gen, cache>>
      BY <1>2 DEF ComputeAnswer
    <2>2. /\ WellOrdered(todo') /\ Suits(todo') /\ ~Counted
          /\ todo' # << >> => Head(todo') = "recheck"
      BY <2>1, NextStep DEF Order
    <2>3. answer' = AnswerOf(gen) \/ status[gen] = "collected"
      BY <2>1, <2>2, NextStep DEF AnswerOf, Counted, ReaderInv, HeldIsExact
    <2>4. AnswerIsExact'
      BY <2>1, <2>3, AnswersAreFixed DEF AnswerIsExact, graphVars
    <2>5. gen \in Generations
      BY <2>1, GenIsThere DEF StepNames
    <2>6. GenIsResolved' /\ HeldIsExact'
      BY <2>1, <2>2, <2>5 DEF GenIsResolved, HeldIsExact, Due, Generations
    <2> QED
      BY <2>1, <2>2, <2>4, <2>6, MethodStep
  <1> QED
    BY <1>1, <1>2

LEMMA RecheckKeeps == ASSUME ReaderInv, Recheck PROVE ReaderInv'
  <1>1. CASE Active # gen
    BY <1>1, RaiseEnds DEF Recheck
  <1>2. CASE Active = gen
    <2>1. /\ todo' = Tail(todo) /\ At("recheck")
          /\ UNCHANGED <<q, scope, graphVars, gen, held, answer, cache>>
      BY <1>2 DEF Recheck
    <2>2. /\ WellOrdered(todo') /\ Suits(todo')
          /\ todo' # << >> => Head(todo') \in {"recheck", "store"}
      BY <2>1, NextStep DEF Order
    <2>3. gen \in Generations
      BY <2>1, GenIsThere DEF StepNames
    <2>4. answer = AnswerOf(gen) \/ status[gen] = "collected"
      BY <2>1, NextStep DEF ReaderInv, AnswerIsExact
    <2>5. AnswerIsExact'
      BY <2>1, <2>4, AnswersAreFixed DEF AnswerIsExact, graphVars
    <2>6. GenIsResolved' /\ HeldIsExact'
      BY <2>1, <2>2, <2>3 DEF GenIsResolved, HeldIsExact, Due, Generations
    <2> QED
      BY <2>1, <2>2, <2>5, <2>6, MethodStep
  <1> QED
    BY <1>1, <1>2

LEMMA StoreKeeps == ASSUME ReaderInv, StoreAnswer PROVE ReaderInv'
  <1>1. /\ todo' = Tail(todo) /\ At("store")
        /\ UNCHANGED <<q, scope, graphVars, gen, held, answer>>
    BY DEF StoreAnswer
  <1>2. /\ WellOrdered(todo') /\ Suits(todo')
        /\ todo' # << >> => Head(todo') = "confirm"
    BY <1>1, NextStep DEF Order
  <1>3. gen \in Generations
    BY <1>1, GenIsThere DEF StepNames
  <1>4. answer = AnswerOf(gen) \/ status[gen] = "collected"
    BY <1>1, NextStep DEF ReaderInv, AnswerIsExact
  <1>5. AnswerIsExact'
    BY <1>1, <1>4, AnswersAreFixed DEF AnswerIsExact, graphVars
  <1>6. GenIsResolved' /\ HeldIsExact'
    BY <1>1, <1>2, <1>3 DEF GenIsResolved, HeldIsExact, Due, Generations
  <1>7. \A row \in cache' : row \in cache \/ row.answer = AnswerOf(row.gen)
    BY <1>4 DEF StoreAnswer
  <1> QED
    BY <1>1, <1>2, <1>5, <1>6, <1>7, MethodStep

LEMMA ConfirmKeeps == ASSUME ReaderInv, Confirm PROVE ReaderInv'
  <1>1. todo' = << >> /\ cache' \subseteq cache /\ UNCHANGED <<q, scope, graphVars>>
    BY DEF Confirm, Raise
  <1> QED
    BY <1>1, MethodEnds

\* The other connections leave the method where it is.  None collects a generation
\* that was not retired, and none brings a collected one back.
LEMMA OthersKeep ==
    ASSUME ReaderInv, UNCHANGED <<q, scope, content, callVars>>,
           StatusOK', cache' \subseteq cache,
           \A g \in Generations : status[g] = "collected" => status'[g] = "collected"
    PROVE  ReaderInv'
  <1>1. UNCHANGED <<todo, gen, held, answer>>
    BY DEF callVars
  <1>2. BackendOK' /\ WellOrdered(todo)' /\ Suits(todo)' /\ GenIsResolved'
    BY <1>1 DEF ReaderInv, BackendOK, WellOrdered, Suits, Counted, GenIsResolved
  <1>3. Due("compute") \/ Due("recheck") \/ Due("store") \/ Due("confirm") => gen \in Generations
    BY DEF ReaderInv, GenIsResolved, Due
  <1>4. HeldIsExact' /\ AnswerIsExact'
    BY <1>1, <1>3, AnswersAreFixed DEF ReaderInv, HeldIsExact, AnswerIsExact, Due
  <1>5. CacheIsExact'
    BY AnswersAreFixed DEF ReaderInv, CacheIsExact
  <1> QED
    BY <1>2, <1>4, <1>5 DEF ReaderInv

LEMMA DisturbanceKeeps ==
    ASSUME ReaderInv, Activate \/ Withdraw \/ Collect \/ BecomeLate
    PROVE  ReaderInv'
  <1> USE DEF ReaderInv, StatusOK, Generations
  <1>1. CASE Activate
    BY <1>1, OthersKeep DEF Activate
  <1>2. CASE Withdraw
    BY <1>2, OthersKeep DEF Withdraw
  <1>3. CASE Collect
    BY <1>3, OthersKeep DEF Collect
  <1>4. CASE BecomeLate
    BY <1>4, OthersKeep DEF BecomeLate, graphVars
  <1> QED
    BY <1>1, <1>2, <1>3, <1>4

LEMMA NextReader == ReaderInv /\ [Next]_vars => ReaderInv'
  <1> SUFFICES ASSUME ReaderInv, [Next]_vars PROVE ReaderInv'
    OBVIOUS
  <1>1. CASE OutOfTime
    BY <1>1, RaiseEnds DEF OutOfTime
  <1>2. CASE UNCHANGED vars
    BY <1>2, OthersKeep DEF vars, callVars, ReaderInv, StatusOK
  <1> QED
    BY <1>1, <1>2, CallKeeps, ResolveKeeps, LookupKeeps, ResolvedKeeps, LoadKeeps, CountKeeps,
       ComputeKeeps, RecheckKeeps, StoreKeeps, ConfirmKeeps, DisturbanceKeeps DEF Next

LEMMA ReaderInvariant == Spec => []ReaderInv
  BY InitReader, NextReader, PTL DEF Spec

-----------------------------------------------------------------------------
\* _algorithm_cache and _cache_algorithm: for every graph, request and limit, a cached
\* answer is the one its generation gives, whatever happened while it was computed.
THEOREM CachedAnswersAreExact == Spec => []CacheIsExact
  <1>1. ReaderInv => CacheIsExact
    BY DEF ReaderInv
  <1> QED
    BY <1>1, ReaderInvariant, PTL

\* What a load says, and what a search over it says, is never that a method answered.
LEMMA LoadStatus ==
    ASSUME NEW g
    PROVE  Load(g, q).status # "answered"
  <1>1. LoadTraversal(g, scope, q).status # "answered"
    BY DEF LoadTraversal, NotLoaded, Loaded
  <1>2. LoadRootSlice(g, scope, q).status # "answered"
    BY DEF LoadRootSlice, NotLoaded, Loaded
  <1>3. LoadWholeSlice(g, scope, q).status # "answered"
    BY DEF LoadWholeSlice, Loaded
  <1> QED
    BY <1>1, <1>2, <1>3 DEF Load, LoadSlice, Loaded

\* A search has a status, and it is not that a method answered.
Says(found) == "status" \in DOMAIN found /\ found.status # "answered"

LEMMA SearchStatus ==
    ASSUME NEW g
    PROVE  Says(Search(g, q))
  <1> USE DEF Failed, NoAnswer, Found, Says
  <1>1. Says(Neighborhood(g, scope, q))
    BY DEF Neighborhood, RootOnly
  <1>2. Says(Paths(g, scope, q))
    BY DEF Paths
  <1>3. Says(Degree(g, scope, q))
    BY DEF Degree
  <1>4. Says(RootSlice(g, scope, q))
    BY DEF RootSlice, RootOnly
  <1>5. Says(WholeSlice(g, scope, q))
    BY DEF WholeSlice
  <1> QED
    BY <1>1, <1>2, <1>3, <1>4, <1>5 DEF Search, Slice, Rows

LEMMA ComputeStatus ==
    ASSUME NEW h, h.status = "loaded"
    PROVE  Compute(h, q).status # "answered"
  <1>1. Says(Search(h.graph, q))
    BY SearchStatus
  <1> QED
    BY <1>1 DEF Compute, Says

LEMMA CountStatus ==
    ASSUME NEW g
    PROVE  Count(g, q).status # "answered"
  <1> USE DEF Failed, NoAnswer, Found
  <1>1. CountDegree(g, scope, q).status # "answered"
    BY DEF CountDegree
  <1> QED
    BY <1>1 DEF Count, Rows

\* Only a step that found the resolved generation active lets a method return, and
\* its answer is that generation's.
LEMMA AnsweringStep ==
    ASSUME ReaderInv, Next, outcome' = "answered", outcome # "answered"
    PROVE  Active # 0 /\ answer' = AnswerOf(Active)
  <1>1. CASE Recheck \/ Confirm
    <2>1. At("recheck") \/ At("confirm")
      BY <1>1 DEF Recheck, Confirm
    <2>2. gen \in Generations
      BY <2>1, GenIsThere DEF StepNames
    <2>3. Active = gen /\ UNCHANGED answer
      BY <1>1 DEF Recheck, Confirm, Raise
    <2>4. Active # 0 /\ status[gen] = "active"
      BY <2>2, <2>3, ActiveIsActive DEF Generations
    <2>5. answer = AnswerOf(gen) \/ status[gen] = "collected"
      BY <2>1, NextStep DEF ReaderInv, AnswerIsExact
    <2> QED
      BY <2>3, <2>4, <2>5
  <1>2. CASE Call \/ OutOfTime \/ Resolve \/ Lookup \/ Resolved
    BY <1>2 DEF Call, OutOfTime, Resolve, Lookup, Resolved, Raise
  <1>3. CASE LoadRows \/ CountRows \/ ComputeAnswer \/ StoreAnswer
    <2>1. CASE LoadRows
      BY <2>1, LoadStatus DEF LoadRows, Raise
    <2>2. CASE CountRows
      BY <2>2, CountStatus DEF CountRows, Raise
    <2>3. CASE ComputeAnswer
      <3>1. held.status = "loaded"
        BY <2>3, NextStep DEF ComputeAnswer, ReaderInv, HeldIsExact
      <3> QED
        BY <2>3, <3>1, ComputeStatus DEF ComputeAnswer, Raise
    <2>4. CASE StoreAnswer
      BY <2>4 DEF StoreAnswer
    <2> QED
      BY <1>3, <2>1, <2>2, <2>3, <2>4
  <1>4. CASE Activate \/ Withdraw \/ Collect \/ BecomeLate
    BY <1>4 DEF Activate, Withdraw, Collect, BecomeLate, callVars
  <1> QED
    BY <1>1, <1>2, <1>3, <1>4 DEF Next

\* _bounded_algorithm_store, _bounded_traversal and the rechecks of SQLiteGraphReader: for
\* every graph, request and limit, what a method returns is what the generation that
\* is active when it returns gives to one undisturbed search.
THEOREM ReturnsAreOfActive == Spec => AnswersAreOfActive
  <1>1. ReaderInv /\ [Next]_vars
          => [outcome' = "answered" /\ outcome # "answered" => Active # 0 /\ answer' = AnswerOf(Active)]_vars
    BY AnsweringStep
  <1> QED
    BY <1>1, ReaderInvariant, PTL DEF Spec, AnswersAreOfActive

-----------------------------------------------------------------------------
(***************************************************************************)
(* The writer.                                                             *)
(***************************************************************************)

AllRows == NodeCount + EdgeCount
InGate == {"quiesce", "begin", "body", "reinsert"}

\* The type invariant in four parts.
RowTypes == table \in [TableRows -> 0..2]
NumberTypes ==
    /\ left \in 0..MaxUpserts /\ pos \in 0..AllRows /\ size \in 0..InitialChunk
    /\ chunk \in MinChunk..InitialChunk /\ deleted \in 0..AllRows /\ faults \in 0..MaxFaults
ControlTypes ==
    /\ genStatus \in {"building", "validated", "retired"}
    /\ gate \in {"none", "caller", "heart"} /\ lock \in {"none", "caller", "heart", "other"}
    /\ plan \in {"stage", "discard"}
    /\ call \in {"open", "start", "close", "ended"} \cup Owned \cup Ending \cup Renewing
    /\ phase \in {"enter", "ready", "gate", "quiesce", "join", "begin", "body", "reinsert"}
    /\ report \in {"running", "ok", "error", "died"}
    /\ heart \in {"none", "new", "waiting", "trying", "renewing", "committing", "failing", "exited"}
FlagTypes ==
    /\ expired \in BOOLEAN /\ stats \in BOOLEAN
    /\ ready \in BOOLEAN /\ stop \in BOOLEAN
    /\ terminal \in BOOLEAN /\ failed \in BOOLEAN /\ valid \in BOOLEAN

\* Who holds the gate and the lock follows from where the two threads are.
Locks ==
    /\ lock = "caller" <=> Open
    /\ gate = "caller" <=> phase \in InGate \/ (phase = "join" /\ call # "close")
    /\ lock = "heart" <=> heart = "committing"
    /\ gate = "heart" <=> heart \in {"renewing", "committing"}
    /\ phase = "reinsert" => call = "upsert"
    /\ phase \in {"gate", "begin", "body"} => call \in Owned \cup Renewing \cup Ending
    /\ phase = "join" => call \in Ending \cup {"close"}
    /\ phase = "quiesce" => call \in Ending
    /\ phase = "ready" => call = "start"
    /\ call = "open" \/ (call = "start" /\ phase = "enter") => heart = "none"

\* Whoever holds the lock is still the owner; a terminal call has joined the heartbeat.
Owns ==
    /\ Open /\ call # "discard" => Owner
    /\ heart = "committing" => Owner
    /\ call \in Ending /\ phase \in {"begin", "body"} => heart = "none"

\* The generation is what a session that succeeds leaves.
Done == genStatus = IF plan = "stage" THEN "validated" ELSE "retired"

Reports ==
    /\ call \in {"clear", "rows", "refresh", "stats", "validate"} => plan = "stage"
    /\ call = "discard" => plan = "discard"
    /\ genStatus = "validated" => /\ call \in {"close", "ended"} /\ ~failed
                               /\ heart = "none" /\ report # "error"
    /\ report = "error" => call \in {"close", "ended"}
    /\ report \in {"ok", "died"} => call = "ended"
    /\ report = "running" => call # "ended"
    /\ report = "running" /\ call = "close" => Done
    /\ report = "ok" => Done /\ ~failed
    /\ call = "ended" => heart = "none"

\* How far the caller has come.
Written ==
    /\ call = "upsert" => left > 0
    /\ phase = "reinsert" => deleted \in TableRows
    /\ call = "rows" => /\ pos < AllRows /\ stats = FALSE
                        /\ \A r \in TableRows : table[r] = IF r <= pos THEN 1 ELSE 0
    /\ call = "rows" /\ phase # "enter" => size >= 1
    /\ call \in {"refresh", "stats"} => table = Artifact
    /\ call = "validate" \/ genStatus = "validated" => Recomputes

IInv == WriterTypeOK /\ Locks /\ Owns /\ Reports /\ Written
-----------------------------------------------------------------------------
\* A row that is written again leaves the types of all rows as they are.
LEMMA ReinsertedTypes ==
    ASSUME NEW t \in [TableRows -> 0..2], NEW r, NEW v \in {1, 2}
    PROVE  Reinserted(t, r, v) \in [TableRows -> 0..2]
<1>1. Without(t, r) \in [TableRows -> 0..2]
  BY DEF Without
<1> QED
  BY <1>1 DEF Reinserted

\* Every step keeps the rows' types.
LEMMA RowTypesStep ==
    ASSUME RowTypes, [WriterNext]_writerVars
    PROVE  RowTypes'
<1> USE CountsAssumption DEF RowTypes, Leave, Return, Release, After, Check, Owner, Owned, Renewing, Ending, fileVars, lockVars, callerVars, heartVars, flagVars
<1>1. CASE EnterCall
  BY <1>1 DEF EnterCall
<1>2. CASE StartHeartbeat
  BY <1>2 DEF StartHeartbeat
<1>3. CASE HeartbeatIsReady
  BY <1>3 DEF HeartbeatIsReady
<1>4. CASE TakeGate
  BY <1>4 DEF TakeGate
<1>5. CASE Quiesce
  BY <1>5 DEF Quiesce
<1>6. CASE Join
  BY <1>6 DEF Join
<1>7. CASE Begin
  BY <1>7 DEF Begin
<1>8. CASE BeginTimesOut
  BY <1>8 DEF BeginTimesOut
<1>9. CASE CommitRenewal
  BY <1>9 DEF CommitRenewal
<1>10. CASE CommitClear
  BY <1>10 DEF CommitClear, Empty
<1>11. CASE CommitRows
  BY <1>11 DEF CommitRows
<1>12. CASE CommitStats
  BY <1>12 DEF CommitStats
<1>13. CASE CommitUpsert
  BY <1>13 DEF CommitUpsert
<1>14. CASE UpsertRefused
  BY <1>14 DEF UpsertRefused
<1>15. CASE RollBack
  BY <1>15 DEF RollBack
<1>16. CASE CommitValidation
  BY <1>16 DEF CommitValidation
<1>17. CASE CommitDiscard
  BY <1>17 DEF CommitDiscard
<1>18. CASE CallerFails
  BY <1>18 DEF CallerFails
<1>19. CASE CloseSession
  BY <1>19 DEF CloseSession
<1>20. CASE SessionClosed
  BY <1>20 DEF SessionClosed
<1>21. CASE Wake
  BY <1>21 DEF Wake
<1>22. CASE HeartTakesGate
  BY <1>22 DEF HeartTakesGate
<1>23. CASE HeartFindsGateTaken
  BY <1>23 DEF HeartFindsGateTaken
<1>24. CASE HeartRenews
  BY <1>24 DEF HeartRenews
<1>25. CASE HeartCommits
  BY <1>25 DEF HeartCommits
<1>26. CASE HeartFindsLocked
  BY <1>26 DEF HeartFindsLocked
<1>27. CASE HeartFaults
  BY <1>27 DEF HeartFaults
<1>28. CASE HeartFails
  BY <1>28 DEF HeartFails
<1>29. CASE OtherHolds
  BY <1>29 DEF OtherHolds
<1>30. CASE OtherReleases
  BY <1>30 DEF OtherReleases
<1>31. CASE LeaseExpires
  BY <1>31 DEF LeaseExpires
<1>32. CASE Reclaim
  BY <1>32 DEF Reclaim
<1>33. CASE Die
  BY <1>33 DEF Die
<1>34. CASE UNCHANGED writerVars
  BY <1>34 DEF writerVars
<1>35. CASE DeleteChanged
  BY <1>35 DEF DeleteChanged
<1>36. CASE CommitChanged
  BY <1>36, ReinsertedTypes DEF CommitChanged
<1> QED
  BY <1>1, <1>2, <1>3, <1>4, <1>5, <1>6, <1>7, <1>8, <1>9, <1>10, <1>11, <1>12, <1>13,
     <1>14, <1>15, <1>16, <1>17, <1>18, <1>19, <1>20, <1>21, <1>22, <1>23, <1>24, <1>25,
     <1>26, <1>27, <1>28, <1>29, <1>30, <1>31, <1>32, <1>33, <1>34, <1>35, <1>36
     DEF WriterNext, CallerStep, HeartStep

\* Every step keeps the numbers in their ranges.
LEMMA NumberTypesStep ==
    ASSUME NumberTypes, ControlTypes, Written, [WriterNext]_writerVars
    PROVE  NumberTypes'
<1> USE CountsAssumption DEF NumberTypes, AllRows, Written, Leave, Return, Release, After, Check, Owner, Owned, Renewing, Ending, Resized, LastOf, Limit, fileVars, lockVars, callerVars, heartVars, flagVars
<1>1. CASE EnterCall
  BY <1>1 DEF EnterCall
<1>2. CASE StartHeartbeat
  BY <1>2 DEF StartHeartbeat
<1>3. CASE HeartbeatIsReady
  BY <1>3 DEF HeartbeatIsReady
<1>4. CASE TakeGate
  BY <1>4 DEF TakeGate
<1>5. CASE Quiesce
  BY <1>5 DEF Quiesce
<1>6. CASE Join
  BY <1>6 DEF Join
<1>7. CASE Begin
  BY <1>7 DEF Begin
<1>8. CASE BeginTimesOut
  BY <1>8 DEF BeginTimesOut
<1>9. CASE CommitRenewal
  BY <1>9 DEF CommitRenewal
<1>10. CASE CommitClear
  BY <1>10 DEF CommitClear
<1>11. CASE CommitRows
  BY <1>11 DEF CommitRows
<1>12. CASE CommitStats
  BY <1>12 DEF CommitStats
<1>13. CASE CommitUpsert
  BY <1>13 DEF CommitUpsert
<1>14. CASE UpsertRefused
  BY <1>14 DEF UpsertRefused
<1>15. CASE RollBack
  BY <1>15 DEF RollBack
<1>16. CASE CommitValidation
  BY <1>16 DEF CommitValidation
<1>17. CASE CommitDiscard
  BY <1>17 DEF CommitDiscard
<1>18. CASE CallerFails
  BY <1>18 DEF CallerFails
<1>19. CASE CloseSession
  BY <1>19 DEF CloseSession
<1>20. CASE SessionClosed
  BY <1>20 DEF SessionClosed
<1>21. CASE Wake
  BY <1>21 DEF Wake
<1>22. CASE HeartTakesGate
  BY <1>22 DEF HeartTakesGate
<1>23. CASE HeartFindsGateTaken
  BY <1>23 DEF HeartFindsGateTaken
<1>24. CASE HeartRenews
  BY <1>24 DEF HeartRenews
<1>25. CASE HeartCommits
  BY <1>25 DEF HeartCommits
<1>26. CASE HeartFindsLocked
  BY <1>26 DEF HeartFindsLocked
<1>27. CASE HeartFaults
  BY <1>27 DEF HeartFaults
<1>28. CASE HeartFails
  BY <1>28 DEF HeartFails
<1>29. CASE OtherHolds
  BY <1>29 DEF OtherHolds
<1>30. CASE OtherReleases
  BY <1>30 DEF OtherReleases
<1>31. CASE LeaseExpires
  BY <1>31 DEF LeaseExpires
<1>32. CASE Reclaim
  BY <1>32 DEF Reclaim
<1>33. CASE Die
  BY <1>33 DEF Die
<1>34. CASE UNCHANGED writerVars
  BY <1>34 DEF writerVars
<1>35. CASE DeleteChanged
  BY <1>35 DEF DeleteChanged, TableRows
<1>36. CASE CommitChanged
  BY <1>36 DEF CommitChanged
<1> QED
  BY <1>1, <1>2, <1>3, <1>4, <1>5, <1>6, <1>7, <1>8, <1>9, <1>10, <1>11, <1>12, <1>13,
     <1>14, <1>15, <1>16, <1>17, <1>18, <1>19, <1>20, <1>21, <1>22, <1>23, <1>24, <1>25,
     <1>26, <1>27, <1>28, <1>29, <1>30, <1>31, <1>32, <1>33, <1>34, <1>35, <1>36
     DEF WriterNext, CallerStep, HeartStep

\* Every step keeps the control values.
LEMMA ControlTypesStep ==
    ASSUME ControlTypes, [WriterNext]_writerVars
    PROVE  ControlTypes'
<1> USE CountsAssumption DEF ControlTypes, Leave, Return, Release, After, Check, Owner, Owned, Renewing, Ending, fileVars, lockVars, callerVars, heartVars, flagVars
<1>1. CASE EnterCall
  BY <1>1 DEF EnterCall
<1>2. CASE StartHeartbeat
  BY <1>2 DEF StartHeartbeat
<1>3. CASE HeartbeatIsReady
  BY <1>3 DEF HeartbeatIsReady
<1>4. CASE TakeGate
  BY <1>4 DEF TakeGate
<1>5. CASE Quiesce
  BY <1>5 DEF Quiesce
<1>6. CASE Join
  BY <1>6 DEF Join
<1>7. CASE Begin
  BY <1>7 DEF Begin
<1>8. CASE BeginTimesOut
  BY <1>8 DEF BeginTimesOut
<1>9. CASE CommitRenewal
  BY <1>9 DEF CommitRenewal
<1>10. CASE CommitClear
  BY <1>10 DEF CommitClear
<1>11. CASE CommitRows
  BY <1>11 DEF CommitRows
<1>12. CASE CommitStats
  BY <1>12 DEF CommitStats
<1>13. CASE CommitUpsert
  BY <1>13 DEF CommitUpsert
<1>14. CASE UpsertRefused
  BY <1>14 DEF UpsertRefused
<1>15. CASE RollBack
  BY <1>15 DEF RollBack
<1>16. CASE CommitValidation
  BY <1>16 DEF CommitValidation
<1>17. CASE CommitDiscard
  BY <1>17 DEF CommitDiscard
<1>18. CASE CallerFails
  BY <1>18 DEF CallerFails
<1>19. CASE CloseSession
  BY <1>19 DEF CloseSession
<1>20. CASE SessionClosed
  BY <1>20 DEF SessionClosed
<1>21. CASE Wake
  BY <1>21 DEF Wake
<1>22. CASE HeartTakesGate
  BY <1>22 DEF HeartTakesGate
<1>23. CASE HeartFindsGateTaken
  BY <1>23 DEF HeartFindsGateTaken
<1>24. CASE HeartRenews
  BY <1>24 DEF HeartRenews
<1>25. CASE HeartCommits
  BY <1>25 DEF HeartCommits
<1>26. CASE HeartFindsLocked
  BY <1>26 DEF HeartFindsLocked
<1>27. CASE HeartFaults
  BY <1>27 DEF HeartFaults
<1>28. CASE HeartFails
  BY <1>28 DEF HeartFails
<1>29. CASE OtherHolds
  BY <1>29 DEF OtherHolds
<1>30. CASE OtherReleases
  BY <1>30 DEF OtherReleases
<1>31. CASE LeaseExpires
  BY <1>31 DEF LeaseExpires
<1>32. CASE Reclaim
  BY <1>32 DEF Reclaim
<1>33. CASE Die
  BY <1>33 DEF Die
<1>34. CASE UNCHANGED writerVars
  BY <1>34 DEF writerVars
<1>35. CASE DeleteChanged
  BY <1>35 DEF DeleteChanged
<1>36. CASE CommitChanged
  BY <1>36 DEF CommitChanged
<1> QED
  BY <1>1, <1>2, <1>3, <1>4, <1>5, <1>6, <1>7, <1>8, <1>9, <1>10, <1>11, <1>12, <1>13,
     <1>14, <1>15, <1>16, <1>17, <1>18, <1>19, <1>20, <1>21, <1>22, <1>23, <1>24, <1>25,
     <1>26, <1>27, <1>28, <1>29, <1>30, <1>31, <1>32, <1>33, <1>34, <1>35, <1>36
     DEF WriterNext, CallerStep, HeartStep

\* Every step keeps the flags Boolean.
LEMMA FlagTypesStep ==
    ASSUME FlagTypes, [WriterNext]_writerVars
    PROVE  FlagTypes'
<1> USE CountsAssumption DEF FlagTypes, Leave, Return, Release, After, Check, Owner, Owned, Renewing, Ending, fileVars, lockVars, callerVars, heartVars, flagVars
<1>1. CASE EnterCall
  BY <1>1 DEF EnterCall
<1>2. CASE StartHeartbeat
  BY <1>2 DEF StartHeartbeat
<1>3. CASE HeartbeatIsReady
  BY <1>3 DEF HeartbeatIsReady
<1>4. CASE TakeGate
  BY <1>4 DEF TakeGate
<1>5. CASE Quiesce
  BY <1>5 DEF Quiesce
<1>6. CASE Join
  BY <1>6 DEF Join
<1>7. CASE Begin
  BY <1>7 DEF Begin
<1>8. CASE BeginTimesOut
  BY <1>8 DEF BeginTimesOut
<1>9. CASE CommitRenewal
  BY <1>9 DEF CommitRenewal
<1>10. CASE CommitClear
  BY <1>10 DEF CommitClear
<1>11. CASE CommitRows
  BY <1>11 DEF CommitRows
<1>12. CASE CommitStats
  BY <1>12 DEF CommitStats
<1>13. CASE CommitUpsert
  BY <1>13 DEF CommitUpsert
<1>14. CASE UpsertRefused
  BY <1>14 DEF UpsertRefused
<1>15. CASE RollBack
  BY <1>15 DEF RollBack
<1>16. CASE CommitValidation
  BY <1>16 DEF CommitValidation
<1>17. CASE CommitDiscard
  BY <1>17 DEF CommitDiscard
<1>18. CASE CallerFails
  BY <1>18 DEF CallerFails
<1>19. CASE CloseSession
  BY <1>19 DEF CloseSession
<1>20. CASE SessionClosed
  BY <1>20 DEF SessionClosed
<1>21. CASE Wake
  BY <1>21 DEF Wake
<1>22. CASE HeartTakesGate
  BY <1>22 DEF HeartTakesGate
<1>23. CASE HeartFindsGateTaken
  BY <1>23 DEF HeartFindsGateTaken
<1>24. CASE HeartRenews
  BY <1>24 DEF HeartRenews
<1>25. CASE HeartCommits
  BY <1>25 DEF HeartCommits
<1>26. CASE HeartFindsLocked
  BY <1>26 DEF HeartFindsLocked
<1>27. CASE HeartFaults
  BY <1>27 DEF HeartFaults
<1>28. CASE HeartFails
  BY <1>28 DEF HeartFails
<1>29. CASE OtherHolds
  BY <1>29 DEF OtherHolds
<1>30. CASE OtherReleases
  BY <1>30 DEF OtherReleases
<1>31. CASE LeaseExpires
  BY <1>31 DEF LeaseExpires
<1>32. CASE Reclaim
  BY <1>32 DEF Reclaim
<1>33. CASE Die
  BY <1>33 DEF Die
<1>34. CASE UNCHANGED writerVars
  BY <1>34 DEF writerVars
<1>35. CASE DeleteChanged
  BY <1>35 DEF DeleteChanged
<1>36. CASE CommitChanged
  BY <1>36 DEF CommitChanged
<1> QED
  BY <1>1, <1>2, <1>3, <1>4, <1>5, <1>6, <1>7, <1>8, <1>9, <1>10, <1>11, <1>12, <1>13,
     <1>14, <1>15, <1>16, <1>17, <1>18, <1>19, <1>20, <1>21, <1>22, <1>23, <1>24, <1>25,
     <1>26, <1>27, <1>28, <1>29, <1>30, <1>31, <1>32, <1>33, <1>34, <1>35, <1>36
     DEF WriterNext, CallerStep, HeartStep

\* Every step keeps gate and lock with their holders.
LEMMA LocksStep ==
    ASSUME ControlTypes, Locks, [WriterNext]_writerVars
    PROVE  Locks'
<1> USE CountsAssumption DEF ControlTypes, Locks, InGate, Leave, Return, Release, After, Check, Open, Owner, Owned, Renewing, Ending, fileVars, lockVars, callerVars, heartVars, flagVars
<1>1. CASE EnterCall
  BY <1>1 DEF EnterCall
<1>2. CASE StartHeartbeat
  BY <1>2 DEF StartHeartbeat
<1>3. CASE HeartbeatIsReady
  BY <1>3 DEF HeartbeatIsReady
<1>4. CASE TakeGate
  BY <1>4 DEF TakeGate
<1>5. CASE Quiesce
  BY <1>5 DEF Quiesce
<1>6. CASE Join
  BY <1>6 DEF Join
<1>7. CASE Begin
  BY <1>7 DEF Begin
<1>8. CASE BeginTimesOut
  BY <1>8 DEF BeginTimesOut
<1>9. CASE CommitRenewal
  BY <1>9 DEF CommitRenewal
<1>10. CASE CommitClear
  BY <1>10 DEF CommitClear
<1>11. CASE CommitRows
  BY <1>11 DEF CommitRows
<1>12. CASE CommitStats
  BY <1>12 DEF CommitStats
<1>13. CASE CommitUpsert
  BY <1>13 DEF CommitUpsert
<1>14. CASE UpsertRefused
  BY <1>14 DEF UpsertRefused
<1>15. CASE RollBack
  BY <1>15 DEF RollBack
<1>16. CASE CommitValidation
  BY <1>16 DEF CommitValidation
<1>17. CASE CommitDiscard
  BY <1>17 DEF CommitDiscard
<1>18. CASE CallerFails
  BY <1>18 DEF CallerFails
<1>19. CASE CloseSession
  BY <1>19 DEF CloseSession
<1>20. CASE SessionClosed
  BY <1>20 DEF SessionClosed
<1>21. CASE Wake
  BY <1>21 DEF Wake
<1>22. CASE HeartTakesGate
  BY <1>22 DEF HeartTakesGate
<1>23. CASE HeartFindsGateTaken
  BY <1>23 DEF HeartFindsGateTaken
<1>24. CASE HeartRenews
  BY <1>24 DEF HeartRenews
<1>25. CASE HeartCommits
  BY <1>25 DEF HeartCommits
<1>26. CASE HeartFindsLocked
  BY <1>26 DEF HeartFindsLocked
<1>27. CASE HeartFaults
  BY <1>27 DEF HeartFaults
<1>28. CASE HeartFails
  BY <1>28 DEF HeartFails
<1>29. CASE OtherHolds
  BY <1>29 DEF OtherHolds
<1>30. CASE OtherReleases
  BY <1>30 DEF OtherReleases
<1>31. CASE LeaseExpires
  BY <1>31 DEF LeaseExpires
<1>32. CASE Reclaim
  BY <1>32 DEF Reclaim
<1>33. CASE Die
  BY <1>33 DEF Die
<1>34. CASE UNCHANGED writerVars
  BY <1>34 DEF writerVars
<1>35. CASE DeleteChanged
  BY <1>35 DEF DeleteChanged
<1>36. CASE CommitChanged
  BY <1>36 DEF CommitChanged
<1> QED
  BY <1>1, <1>2, <1>3, <1>4, <1>5, <1>6, <1>7, <1>8, <1>9, <1>10, <1>11, <1>12, <1>13,
     <1>14, <1>15, <1>16, <1>17, <1>18, <1>19, <1>20, <1>21, <1>22, <1>23, <1>24, <1>25,
     <1>26, <1>27, <1>28, <1>29, <1>30, <1>31, <1>32, <1>33, <1>34, <1>35, <1>36
     DEF WriterNext, CallerStep, HeartStep

\* Every step of a holder of the lock finds the generation still its own.
LEMMA OwnsStep ==
    ASSUME ControlTypes, Locks, Owns, [WriterNext]_writerVars
    PROVE  Owns'
<1> USE CountsAssumption DEF ControlTypes, Locks, Owns, InGate, Leave, Return, Release, After, Check, Open, Owner, Owned, Renewing, Ending, fileVars, lockVars, callerVars, heartVars, flagVars
<1>1. CASE EnterCall
  BY <1>1 DEF EnterCall
<1>2. CASE StartHeartbeat
  BY <1>2 DEF StartHeartbeat
<1>3. CASE HeartbeatIsReady
  BY <1>3 DEF HeartbeatIsReady
<1>4. CASE TakeGate
  BY <1>4 DEF TakeGate
<1>5. CASE Quiesce
  BY <1>5 DEF Quiesce
<1>6. CASE Join
  BY <1>6 DEF Join
<1>7. CASE Begin
  BY <1>7 DEF Begin
<1>8. CASE BeginTimesOut
  BY <1>8 DEF BeginTimesOut
<1>9. CASE CommitRenewal
  BY <1>9 DEF CommitRenewal
<1>10. CASE CommitClear
  BY <1>10 DEF CommitClear
<1>11. CASE CommitRows
  BY <1>11 DEF CommitRows
<1>12. CASE CommitStats
  BY <1>12 DEF CommitStats
<1>13. CASE CommitUpsert
  BY <1>13 DEF CommitUpsert
<1>14. CASE UpsertRefused
  BY <1>14 DEF UpsertRefused
<1>15. CASE RollBack
  BY <1>15 DEF RollBack
<1>16. CASE CommitValidation
  BY <1>16 DEF CommitValidation
<1>17. CASE CommitDiscard
  BY <1>17 DEF CommitDiscard
<1>18. CASE CallerFails
  BY <1>18 DEF CallerFails
<1>19. CASE CloseSession
  BY <1>19 DEF CloseSession
<1>20. CASE SessionClosed
  BY <1>20 DEF SessionClosed
<1>21. CASE Wake
  BY <1>21 DEF Wake
<1>22. CASE HeartTakesGate
  BY <1>22 DEF HeartTakesGate
<1>23. CASE HeartFindsGateTaken
  BY <1>23 DEF HeartFindsGateTaken
<1>24. CASE HeartRenews
  BY <1>24 DEF HeartRenews
<1>25. CASE HeartCommits
  BY <1>25 DEF HeartCommits
<1>26. CASE HeartFindsLocked
  BY <1>26 DEF HeartFindsLocked
<1>27. CASE HeartFaults
  BY <1>27 DEF HeartFaults
<1>28. CASE HeartFails
  BY <1>28 DEF HeartFails
<1>29. CASE OtherHolds
  BY <1>29 DEF OtherHolds
<1>30. CASE OtherReleases
  BY <1>30 DEF OtherReleases
<1>31. CASE LeaseExpires
  BY <1>31 DEF LeaseExpires
<1>32. CASE Reclaim
  BY <1>32 DEF Reclaim
<1>33. CASE Die
  BY <1>33 DEF Die
<1>34. CASE UNCHANGED writerVars
  BY <1>34 DEF writerVars
<1>35. CASE DeleteChanged
  BY <1>35 DEF DeleteChanged
<1>36. CASE CommitChanged
  BY <1>36 DEF CommitChanged
<1> QED
  BY <1>1, <1>2, <1>3, <1>4, <1>5, <1>6, <1>7, <1>8, <1>9, <1>10, <1>11, <1>12, <1>13,
     <1>14, <1>15, <1>16, <1>17, <1>18, <1>19, <1>20, <1>21, <1>22, <1>23, <1>24, <1>25,
     <1>26, <1>27, <1>28, <1>29, <1>30, <1>31, <1>32, <1>33, <1>34, <1>35, <1>36
     DEF WriterNext, CallerStep, HeartStep

\* Every step keeps the report true.
LEMMA ReportsStep ==
    ASSUME ControlTypes, Locks, Owns, Reports, [WriterNext]_writerVars
    PROVE  Reports'
<1> USE CountsAssumption DEF ControlTypes, Locks, Owns, Reports, Done, InGate, Leave, Return, Release, After, Check, Open, Owner, Owned, Renewing, Ending, fileVars, lockVars, callerVars, heartVars, flagVars
<1>1. CASE EnterCall
  BY <1>1 DEF EnterCall
<1>2. CASE StartHeartbeat
  BY <1>2 DEF StartHeartbeat
<1>3. CASE HeartbeatIsReady
  BY <1>3 DEF HeartbeatIsReady
<1>4. CASE TakeGate
  BY <1>4 DEF TakeGate
<1>5. CASE Quiesce
  BY <1>5 DEF Quiesce
<1>6. CASE Join
  BY <1>6 DEF Join
<1>7. CASE Begin
  BY <1>7 DEF Begin
<1>8. CASE BeginTimesOut
  BY <1>8 DEF BeginTimesOut
<1>9. CASE CommitRenewal
  BY <1>9 DEF CommitRenewal
<1>10. CASE CommitClear
  BY <1>10 DEF CommitClear
<1>11. CASE CommitRows
  BY <1>11 DEF CommitRows
<1>12. CASE CommitStats
  BY <1>12 DEF CommitStats
<1>13. CASE CommitUpsert
  BY <1>13 DEF CommitUpsert
<1>14. CASE UpsertRefused
  BY <1>14 DEF UpsertRefused
<1>15. CASE RollBack
  BY <1>15 DEF RollBack
<1>16. CASE CommitValidation
  BY <1>16 DEF CommitValidation
<1>17. CASE CommitDiscard
  BY <1>17 DEF CommitDiscard
<1>18. CASE CallerFails
  BY <1>18 DEF CallerFails
<1>19. CASE CloseSession
  BY <1>19 DEF CloseSession
<1>20. CASE SessionClosed
  BY <1>20 DEF SessionClosed
<1>21. CASE Wake
  BY <1>21 DEF Wake
<1>22. CASE HeartTakesGate
  BY <1>22 DEF HeartTakesGate
<1>23. CASE HeartFindsGateTaken
  BY <1>23 DEF HeartFindsGateTaken
<1>24. CASE HeartRenews
  BY <1>24 DEF HeartRenews
<1>25. CASE HeartCommits
  BY <1>25 DEF HeartCommits
<1>26. CASE HeartFindsLocked
  BY <1>26 DEF HeartFindsLocked
<1>27. CASE HeartFaults
  BY <1>27 DEF HeartFaults
<1>28. CASE HeartFails
  BY <1>28 DEF HeartFails
<1>29. CASE OtherHolds
  BY <1>29 DEF OtherHolds
<1>30. CASE OtherReleases
  BY <1>30 DEF OtherReleases
<1>31. CASE LeaseExpires
  BY <1>31 DEF LeaseExpires
<1>32. CASE Reclaim
  BY <1>32 DEF Reclaim
<1>33. CASE Die
  BY <1>33 DEF Die
<1>34. CASE UNCHANGED writerVars
  BY <1>34 DEF writerVars
<1>35. CASE DeleteChanged
  BY <1>35 DEF DeleteChanged
<1>36. CASE CommitChanged
  BY <1>36 DEF CommitChanged
<1> QED
  BY <1>1, <1>2, <1>3, <1>4, <1>5, <1>6, <1>7, <1>8, <1>9, <1>10, <1>11, <1>12, <1>13,
     <1>14, <1>15, <1>16, <1>17, <1>18, <1>19, <1>20, <1>21, <1>22, <1>23, <1>24, <1>25,
     <1>26, <1>27, <1>28, <1>29, <1>30, <1>31, <1>32, <1>33, <1>34, <1>35, <1>36
     DEF WriterNext, CallerStep, HeartStep

\* Every step keeps what replace has written.
LEMMA WrittenStep ==
    ASSUME NumberTypes, ControlTypes, FlagTypes, RowTypes, Locks, Owns, Reports, Written, [WriterNext]_writerVars
    PROVE  Written'
<1> USE CountsAssumption DEF NumberTypes, ControlTypes, RowTypes, AllRows, Locks, Owns, Reports, Done, Written, InGate, Recomputes, Leave, Return, Release, After, Check, Open, Owner, Owned, Renewing, Ending, fileVars, lockVars, callerVars, heartVars, flagVars
<1>1. CASE EnterCall
  BY <1>1 DEF EnterCall
<1>2. CASE StartHeartbeat
  BY <1>2 DEF StartHeartbeat
<1>3. CASE HeartbeatIsReady
  BY <1>3 DEF HeartbeatIsReady
<1>4. CASE TakeGate
  BY <1>4 DEF TakeGate
<1>5. CASE Quiesce
  BY <1>5 DEF Quiesce
<1>6. CASE Join
  BY <1>6 DEF Join
<1>7. CASE Begin
  BY <1>7 DEF Begin
<1>8. CASE BeginTimesOut
  BY <1>8 DEF BeginTimesOut
<1>9. CASE CommitRenewal
  BY <1>9 DEF CommitRenewal
<1>10. CASE CommitClear
  <2>1. /\ call' = "rows" /\ pos' = 0 /\ stats' = FALSE /\ phase' = "enter"
        /\ genStatus' = "building"
    BY <1>10 DEF CommitClear
  <2>2. \A r \in TableRows : table'[r] = 0 /\ ~(r <= pos')
    BY <1>10, <2>1 DEF CommitClear, Empty, TableRows
  <2> QED
    BY <2>1, <2>2
<1>11. CASE CommitRows
  <2>1. /\ call = "rows" /\ phase = "body" /\ phase' = "enter" /\ genStatus' = "building"
        /\ pos' = LastOf(pos, size) /\ stats' = FALSE
        /\ call' = IF pos' < NodeCount + EdgeCount THEN "rows" ELSE "refresh"
    BY <1>11 DEF CommitRows
  <2>2. pos < pos' /\ pos' \in 0..AllRows
    BY <2>1 DEF LastOf, Limit
  <2>3. /\ table' \in [TableRows -> {0, 1}]
        /\ \A r \in TableRows : table'[r] = IF r <= pos' THEN 1 ELSE 0
    BY <1>11, <2>1, <2>2 DEF CommitRows, ChunkAt, TableRows
  <2>4. CASE pos' < AllRows
    BY <2>1, <2>2, <2>3, <2>4
  <2>5. CASE pos' = AllRows
    <3>1. table' = Artifact
      BY <2>3, <2>5 DEF Artifact, TableRows
    <3> QED
      BY <2>1, <2>5, <3>1
  <2>6. pos' < AllRows \/ pos' = AllRows
    BY <2>2
  <2> QED
    BY ONLY <2>4, <2>5, <2>6
<1>12. CASE CommitStats
  BY <1>12 DEF CommitStats
<1>13. CASE CommitUpsert
  BY <1>13 DEF CommitUpsert
<1>14. CASE UpsertRefused
  BY <1>14 DEF UpsertRefused
<1>15. CASE RollBack
  BY <1>15 DEF RollBack
<1>16. CASE CommitValidation
  BY <1>16 DEF CommitValidation
<1>17. CASE CommitDiscard
  BY <1>17 DEF CommitDiscard
<1>18. CASE CallerFails
  BY <1>18 DEF CallerFails
<1>19. CASE CloseSession
  BY <1>19 DEF CloseSession
<1>20. CASE SessionClosed
  BY <1>20 DEF SessionClosed
<1>21. CASE Wake
  BY <1>21 DEF Wake
<1>22. CASE HeartTakesGate
  BY <1>22 DEF HeartTakesGate
<1>23. CASE HeartFindsGateTaken
  BY <1>23 DEF HeartFindsGateTaken
<1>24. CASE HeartRenews
  BY <1>24 DEF HeartRenews
<1>25. CASE HeartCommits
  BY <1>25 DEF HeartCommits
<1>26. CASE HeartFindsLocked
  BY <1>26 DEF HeartFindsLocked
<1>27. CASE HeartFaults
  BY <1>27 DEF HeartFaults
<1>28. CASE HeartFails
  BY <1>28 DEF HeartFails
<1>29. CASE OtherHolds
  BY <1>29 DEF OtherHolds
<1>30. CASE OtherReleases
  BY <1>30 DEF OtherReleases
<1>31. CASE LeaseExpires
  BY <1>31 DEF LeaseExpires
<1>32. CASE Reclaim
  BY <1>32 DEF Reclaim
<1>33. CASE Die
  BY <1>33 DEF Die
<1>34. CASE UNCHANGED writerVars
  BY <1>34 DEF writerVars
<1>35. CASE DeleteChanged
  BY <1>35 DEF DeleteChanged
<1>36. CASE CommitChanged
  BY <1>36 DEF CommitChanged
<1> QED
  BY <1>1, <1>2, <1>3, <1>4, <1>5, <1>6, <1>7, <1>8, <1>9, <1>10, <1>11, <1>12, <1>13,
     <1>14, <1>15, <1>16, <1>17, <1>18, <1>19, <1>20, <1>21, <1>22, <1>23, <1>24, <1>25,
     <1>26, <1>27, <1>28, <1>29, <1>30, <1>31, <1>32, <1>33, <1>34, <1>35, <1>36
     DEF WriterNext, CallerStep, HeartStep

-----------------------------------------------------------------------------
LEMMA TypesInParts ==
    WriterTypeOK <=> RowTypes /\ NumberTypes /\ ControlTypes /\ FlagTypes
BY DEF WriterTypeOK, RowTypes, NumberTypes, ControlTypes, FlagTypes, AllRows

\* The inductive invariant holds at first ...
LEMMA InvInit == WriterInit => IInv
<1> SUFFICES ASSUME WriterInit PROVE IInv
  OBVIOUS
<1> USE CountsAssumption DEF WriterInit
<1>1. WriterTypeOK
  <2>1. RowTypes
    BY DEF RowTypes, Empty
  <2>2. NumberTypes
    BY DEF NumberTypes, AllRows
  <2>3. ControlTypes /\ FlagTypes
    BY DEF ControlTypes, FlagTypes
  <2> QED
    BY <2>1, <2>2, <2>3, TypesInParts
<1>2. Locks /\ Owns
  BY DEF Locks, Owns, InGate, Open, Owned, Renewing, Ending, Owner
<1>3. Reports /\ Written
  BY DEF Reports, Done, Written
<1> QED
  BY <1>1, <1>2, <1>3 DEF IInv

\* ... and every step keeps it.
LEMMA InvStep == ASSUME IInv, [WriterNext]_writerVars PROVE IInv'
<1>1. WriterTypeOK /\ Locks /\ Owns /\ Reports /\ Written
  BY DEF IInv
<1>2. RowTypes /\ NumberTypes /\ ControlTypes /\ FlagTypes
  BY <1>1, TypesInParts
<1>3. RowTypes' /\ NumberTypes' /\ ControlTypes' /\ FlagTypes'
  BY <1>1, <1>2, RowTypesStep, NumberTypesStep, ControlTypesStep, FlagTypesStep
<1>4. WriterTypeOK'
  BY <1>3 DEF WriterTypeOK, RowTypes, NumberTypes, ControlTypes, FlagTypes, AllRows
<1>5. Locks'
  BY <1>1, <1>2, LocksStep
<1>6. Owns'
  BY <1>1, <1>2, OwnsStep
<1>7. Reports'
  BY <1>1, <1>2, ReportsStep
<1>8. Written'
  BY <1>1, <1>2, WrittenStep
<1> QED
  BY <1>4, <1>5, <1>6, <1>7, <1>8 DEF IInv

\* A build that is to be validated holds every row of its artifact, for any
\* number of rows and however the size of a chunk changes (replace).
THEOREM WholeGraphIsValidated == WriterSpec => []ValidatesWholeGraph
<1>1. IInv => ValidatesWholeGraph
  BY DEF IInv, Written, ValidatesWholeGraph
<1> QED
  BY <1>1, InvInit, InvStep, PTL DEF WriterSpec

\* What a session reports is what the file says: ok of a staged build stands for
\* a validated generation, whoever reclaims what and whatever the heartbeat meets
\* on the way (lease_session, validate).
THEOREM ReportsAreTrue == WriterSpec => []ReportIsTrue
<1>1. IInv => ReportIsTrue
  BY DEF IInv, Reports, Done, ReportIsTrue
<1> QED
  BY <1>1, InvInit, InvStep, PTL DEF WriterSpec

\* No thread, gate or lock of a session is left when it has ended (_stop_heartbeat).
THEOREM SessionLeavesNothing == WriterSpec => []NothingIsLeftBehind
<1>1. ASSUME IInv PROVE NothingIsLeftBehind
  BY <1>1 DEF IInv, WriterTypeOK, Locks, Open, Reports, NothingIsLeftBehind, InGate, Ending, Renewing, Owned
<1> QED
  BY <1>1, InvInit, InvStep, PTL DEF WriterSpec

\* A validated or reclaimed generation never changes again, whatever its
\* former owner still tries (_renew_owned).
THEOREM LostStaysUntouched == WriterSpec => LostIsUntouched
<1>1. ASSUME IInv, [WriterNext]_writerVars
      PROVE  [genStatus # "building" => UNCHANGED <<genStatus, table, stats>>]_writerVars
  <2> SUFFICES ASSUME WriterNext, genStatus # "building" PROVE UNCHANGED <<genStatus, table, stats>>
    BY <1>1
  <2> USE <1>1 DEF IInv, Owns, Locks, Open, Owner, fileVars
  <2>1. CASE CallerStep
    BY <2>1 DEF CallerStep, EnterCall, StartHeartbeat, HeartbeatIsReady, TakeGate, Quiesce, Join,
       Begin, BeginTimesOut, CommitRenewal, CommitClear, CommitRows, CommitStats, CommitUpsert,
       DeleteChanged, CommitChanged, UpsertRefused, RollBack, CommitValidation, CommitDiscard, CallerFails, CloseSession, SessionClosed
  <2>2. CASE HeartStep
    BY <2>2 DEF HeartStep, Wake, HeartTakesGate, HeartFindsGateTaken, HeartRenews, HeartCommits,
       HeartFindsLocked, HeartFaults, HeartFails
  <2>3. CASE OtherHolds \/ OtherReleases \/ LeaseExpires \/ Reclaim \/ Die
    BY <2>3 DEF OtherHolds, OtherReleases, LeaseExpires, Reclaim, Die
  <2> QED
    BY <2>1, <2>2, <2>3 DEF WriterNext
<1> QED
  BY <1>1, InvInit, InvStep, PTL DEF WriterSpec, LostIsUntouched

\* Writing a row again takes no edge away.
LEMMA ReinsertedKeepsEdges ==
    ASSUME NEW t, NEW r, NEW v \in {1, 2}, NEW e \in EdgeRows, t[e] # 0
    PROVE  Reinserted(t, r, v)[e] # 0
<1>1. e \in TableRows
  BY CountsAssumption DEF EdgeRows, TableRows
<1>2. Reinserted(t, r, v)[e] = IF e = r THEN v
                               ELSE IF e \in Incident(t, r) THEN t[e] ELSE Without(t, r)[e]
  BY <1>1 DEF Reinserted
<1>3. e # r /\ e \notin Incident(t, r) => Without(t, r)[e] = t[e]
  BY <1>1 DEF Without
<1> QED
  BY <1>2, <1>3

\* Only the deletion that begins a replacement takes edges away (upsert_node).
THEOREM EdgesSurviveUpserts == WriterSpec => UpsertsKeepEdges
<1>1. ASSUME IInv, [WriterNext]_writerVars
      PROVE  [\A e \in EdgeRows : table[e] # 0 /\ table'[e] = 0 => call = "clear"]_writerVars
  <2> SUFFICES ASSUME WriterNext, NEW e \in EdgeRows, table[e] # 0, call # "clear"
               PROVE  table'[e] # 0
    BY <1>1
  <2> USE DEF fileVars
  <2>0. table \in [TableRows -> 0..2] /\ e \in TableRows
    BY <1>1, CountsAssumption DEF IInv, WriterTypeOK, EdgeRows, TableRows
  <2>1. CASE CommitRows
    <3>1. table'[e] = IF e \in ChunkAt(pos) THEN 1 ELSE table[e]
      BY <2>0, <2>1 DEF CommitRows
    <3> QED
      BY <3>1
  <2>2. CASE CommitUpsert
    <3>1. PICK r \in TableRows, v \in {1, 2} : table' = [table EXCEPT ![r] = v]
      BY <2>2 DEF CommitUpsert
    <3> QED
      BY <2>0, <3>1
  <2>3. CASE CommitChanged
    <3>1. PICK v \in {1, 2} : table' = Reinserted(table, deleted, v)
      BY <2>3 DEF CommitChanged
    <3> QED
      BY <3>1, ReinsertedKeepsEdges
  <2>4. CASE CallerStep /\ ~CommitRows /\ ~CommitUpsert /\ ~CommitChanged
    BY <2>4 DEF CallerStep, EnterCall, StartHeartbeat, HeartbeatIsReady, TakeGate, Quiesce, Join,
       Begin, BeginTimesOut, CommitRenewal, CommitClear, CommitStats,
       DeleteChanged, UpsertRefused, RollBack, CommitValidation, CommitDiscard, CallerFails, CloseSession, SessionClosed
  <2>5. CASE HeartStep
    BY <2>5 DEF HeartStep, Wake, HeartTakesGate, HeartFindsGateTaken, HeartRenews, HeartCommits,
       HeartFindsLocked, HeartFaults, HeartFails
  <2>6. CASE OtherHolds \/ OtherReleases \/ LeaseExpires \/ Reclaim \/ Die
    BY <2>6 DEF OtherHolds, OtherReleases, LeaseExpires, Reclaim, Die
  <2> QED
    BY <2>1, <2>2, <2>3, <2>4, <2>5, <2>6 DEF WriterNext
<1> QED
  BY <1>1, InvInit, InvStep, PTL DEF WriterSpec, UpsertsKeepEdges
=============================================================================
