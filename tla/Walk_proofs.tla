----------------------------- MODULE Walk_proofs -----------------------------
(* The walk leaves nothing out: who waits is counted and looked at again,   *)
(* a cycle is reported only where there is one, and a build that ends with  *)
(* success has built all that was asked for.                                *)
EXTENDS Order_proofs

\* Nothing asked for is made from what a command writes beside its targets
SideEffectsUnused ==
  \A s \in Node : IsSideEffect(s) =>
    /\ s \notin ToSet(project.tops)
    /\ \A m \in Node : s \notin project.kids[m] \cup project.incl[m]

Troubled == interrupted \/ \E n \in Node : project.bad[n] # "none"

\* The builds whose walk is followed here.  With -i, a check that raises leaves
\* its node pending; a failure that ends the walk leaves the side effects of
\* its command as executing.
Walked ==
  /\ SideEffectsUnused
  /\ project.policy = "ignore" => \A n \in Node : project.bad[n] # "ready"
  /\ Troubled /\ project.policy = "stop" => \A n \in Node : project.se[n] = {}

\* ... and in which nothing has failed under -k, which may leave a node that
\* fails among the pending children
Traced ==
  /\ Walked
  /\ project.policy = "keep" => \A n \in Node : state[n] # FAILED

-----------------------------------------------------------------------------
\* How the build ended so far
Outcome ==
  /\ (\E n \in Node : state[n] = FAILED) => status # "ok"
  /\ status = "failed" => /\ project.policy # "ignore" /\ Troubled
                          /\ project.policy = "stop" => stopped
  /\ stopped => interrupted \/ (status # "ok" /\ project.policy = "stop")
  /\ status = "cycle" => pc = "ended"
  /\ pc \in {"cleanup", "ended"} => candidates = <<>> /\ (~stopped => topsLeft = <<>>)
  /\ pc = "ended" /\ status # "cycle" => \A n \in pendingChildren : state[n] = EXECUTED

\* Those x waits for
WaitsIn(wp, x) == {c \in Node : x \in wp[c]}
Waits(x) == WaitsIn(waitingParents, x)

Counts == \A p \in Node : refCount[p] = Cardinality(Waits(p))

InTask(x) == pc = "prepare" /\ x \in Group(task)

\* Something x is made from may fail, or has, and the walk goes on
Tainted(x) == \E c \in Reach(x) : Doubtful(c)
Lost(x) == project.policy = "keep" /\ \E c \in Reach(x) : state[c] = FAILED

\* A pending child is awaited, and has not been taken up unless it is lost
PendingAwaited ==
  \A x \in pendingChildren :
    /\ waitingParents[x] # {}
    /\ state[x] \in {PENDING, EXECUTING} \/ InTask(x) \/ Lost(x)

\* The walk never comes to a side effect
SideEffectsAside ==
  \A s \in Node : IsSideEffect(s) =>
    /\ s \notin ToSet(candidates) \cup ToSet(topsLeft) \cup pendingChildren
    /\ state[s] \in {NO_STATE, EXECUTING}
    /\ waitingParents[s] = {} /\ Waits(s) = {}
    /\ \A x \in Node : s \notin waitingSE[x]
    /\ pc = "prepare" => s # task

\* What is marked as executing belongs to a command
ExecutingOwned ==
  \A x \in Node : state[x] = EXECUTING =>
    \E m \in project.builder :
      x \in Writes(m) /\ (m \in Out \/ (pc = "prepare" /\ task = m))

\* What was not looked at waits for nothing
NotWaiting == \A x \in Node : state[x] = NO_STATE => Waits(x) = {}

\* The nodes somebody waits for, and all that are pending until the walk stops
Due ==
  {x \in Node : \/ x \in pendingChildren
                \/ waitingParents[x] # {}
                \/ ~stopped /\ state[x] = PENDING}

\* Why x will be looked at, or ends, or never is built
Reason(x) ==
  \/ Waits(x) # {}
  \/ x \in ToSet(candidates)
  \/ state[x] = EXECUTING
  \/ InTask(x)
  \/ \E s \in Node : IsSideEffect(s) /\ x \in waitingSE[s] /\ state[s] = EXECUTING
  \/ Lost(x)

Reasons == \A x \in Due : Reason(x)

\* Nodes that wait for one another were seen to
CyclesSeen ==
  ~stopped =>
  \A S \in SUBSET Node :
    S # {} /\ (\A p \in S : Waits(p) \cap S # {}) => S \cap pendingChildren # {}

TopsSeen ==
  \A t \in ToSet(project.tops) : t \in ToSet(topsLeft) \/ state[t] # NO_STATE

\* What was looked at has its sources looked at, or about to be
KidsSeen ==
  /\ pc = "prepare" => state[task] # NO_STATE
  /\ ~stopped =>
       \A x \in Node : state[x] # NO_STATE /\ ~Fails(x, "scan") /\ ~IsSideEffect(x) =>
         \A c \in Kids(Group(x)) : state[c] # NO_STATE \/ c \in ToSet(candidates)

\* With -k, nothing fails but for a failure below it
Explained ==
  project.policy = "keep" =>
    \A x \in Node : state[x] = FAILED => interrupted \/ Tainted(x)

\* What is done is made from what is done
MadeFromDone == \A n \in Node : Settled(n) => \A c \in Needs(n) : Settled(c)

NothingLeft ==
  status = "ok" /\ (project.policy = "ignore" => \A n \in Node : project.bad[n] # "scan") =>
    MadeFromDone

WInv ==
  /\ Counts /\ PendingAwaited /\ SideEffectsAside /\ ExecutingOwned /\ NotWaiting
  /\ Reasons /\ CyclesSeen /\ TopsSeen /\ KidsSeen /\ Explained /\ NothingLeft

-----------------------------------------------------------------------------
(* How the build ended *)

LEMMA TroubledStays ==
  ASSUME [Next]_vars
  PROVE  (Troubled => Troubled') /\ (Walked' => Walked)
<1>1. project' = project
  BY ProjectStays
<1>2. interrupted => interrupted'
  BY DEF Next, MainThread, Walk, NoCandidate, SkipHandled, GetResult, Cleanup,
     VisitFailedChildren, VisitWaits, VisitSideEffectHeld, VisitReady, Visit,
     VisitScanFails, Prepare, Dispatch, Execute, WorkerTake, WorkerFinish,
     Interrupt, vars
<1>3. Troubled => Troubled'
  BY <1>1, <1>2 DEF Troubled
<1> QED
  BY <1>1, <1>3 DEF Walked, SideEffectsUnused, IsSideEffect, ToSet

\* A task that ends leaves the walk going on, or a failure behind
LEMMA EndedOutcome ==
  ASSUME TInv, Outcome, NEW n \in Node, Executed(n) \/ Failed(n), project' = project,
         pc \notin {"cleanup", "ended"}, pc' \notin {"cleanup", "ended"},
         Executed(n) \/ Troubled, interrupted' = interrupted
  PROVE  Outcome'
<1>1. CASE Executed(n)
  <2>1. status' = status /\ stopped' = stopped
    BY <1>1 DEF Executed
  <2>2. FAILED # EXECUTED /\ FAILED # NO_STATE
    BY DEF FAILED, EXECUTED, NO_STATE
  <2>3. \A m \in Node : ExecutedState(Group(n))[m] = FAILED => state[m] = FAILED
    BY <2>2 DEF ExecutedState
  <2>4. \A m \in Node : state'[m] = FAILED => state[m] = FAILED
    BY <1>1, <2>2, <2>3 DEF Executed, Postprocess
  <2>5. Troubled' = Troubled
    BY DEF Troubled
  <2> QED
    BY <2>1, <2>4, <2>5 DEF Outcome
<1>2. CASE ~Executed(n)
  <2>1. /\ project.policy # "ignore" /\ status' = "failed"
        /\ stopped' = (stopped \/ project.policy = "stop")
    BY <1>2 DEF Failed
  <2>2. Troubled'
    BY <1>2 DEF Troubled
  <2> QED
    BY <2>1, <2>2 DEF Outcome
<1> QED
  BY <1>1, <1>2

LEMMA OutcomeQuiet ==
  ASSUME TInv, Outcome, project' = project, UNCHANGED <<status, stopped, interrupted>>,
         \A n \in Node : state'[n] = FAILED => \E m \in Node : state[m] = FAILED,
         pc \notin {"cleanup", "ended"}, pc' \notin {"cleanup", "ended"}
  PROVE  Outcome'
  BY DEF Outcome, Troubled

LEMMA OutcomeNext ==
  ASSUME TInv, TInv', OInv, Outcome, [Next]_vars
  PROVE  Outcome'
<1>0. project' = project
  BY ProjectStays
<1>1. CASE NoCandidate
  <2>1. ~stopped => candidates' = <<>> /\ topsLeft' = <<>>
    BY <1>1 DEF NoCandidate, HasCandidate, walkVars
  <2>2. stopped => candidates' = <<>>
    BY <1>1 DEF NoCandidate
  <2> QED
    BY <1>1, <2>1, <2>2 DEF NoCandidate, Looking, Outcome, Troubled
<1>2. CASE SkipHandled
  BY <1>0, <1>2, OutcomeQuiet DEF SkipHandled, Looking, nodeVars
<1>3. CASE GetResult
  <2>1. Head(results).node \in Node /\ Head(results) = results[1] /\ 1 \in DOMAIN results
    BY <1>3, ResultsTail DEF OInv, PoolInv, Ended
  <2>2. ~Head(results).ok => Troubled
    <3>1. SUFFICES ASSUME ~Head(results).ok, ~interrupted
                   PROVE  Troubled
      BY DEF Troubled
    <3>2. Fails(Head(results).node, "action")
      BY <2>1, <3>1 DEF OInv, PoolInv, FailuresExplained
    <3>3. \E t \in Node : project.bad[t] = "action"
      BY <2>1, <3>2, Groups DEF Fails, TInv
    <3> QED
      BY <3>3 DEF Troubled
  <2>3. pc = "wait" /\ pc' \in {"next", "wait"} /\ interrupted' = interrupted
    BY <1>3 DEF GetResult
  <2>4. Executed(Head(results).node) \/ (~Head(results).ok /\ Failed(Head(results).node))
    BY <1>3 DEF GetResult
  <2> QED
    BY <1>0, <2>1, <2>2, <2>3, <2>4, EndedOutcome
<1>4. CASE Cleanup
  <2>1. \/ status' = "cycle"
        \/ status' = status /\ \A n \in pendingChildren : state[n] = EXECUTED
    BY <1>4 DEF Cleanup
  <2>2. /\ pc = "cleanup" /\ pc' = "ended"
        /\ UNCHANGED <<candidates, topsLeft, stopped, interrupted, state, pendingChildren>>
    BY <1>4 DEF Cleanup, nodeVars, walkVars
  <2> QED
    BY <1>0, <2>1, <2>2 DEF Outcome, Troubled
<1>5. ASSUME NEW n \in Node, VisitFailedChildren(n) \/ VisitWaits(n) \/ VisitSideEffectHeld(n)
      PROVE  Outcome'
  <2>1. Visit(n)
    BY <1>5 DEF VisitFailedChildren, VisitWaits, VisitSideEffectHeld
  <2>2. Children(n) \in SUBSET Node /\ PENDING # FAILED
    BY <2>1, VisitScans DEF PENDING, FAILED
  <2>3. \A m \in Node : state'[m] = FAILED => \E x \in Node : state[x] = FAILED
    <3>1. CASE VisitFailedChildren(n)
      BY <2>2, <3>1 DEF VisitFailedChildren, AnyFailed
    <3>2. CASE VisitWaits(n) \/ VisitSideEffectHeld(n)
      BY <2>2, <3>2 DEF VisitWaits, VisitSideEffectHeld, TInv, TypeOK
    <3> QED
      BY <1>5, <3>1, <3>2
  <2>4. pc = "next" /\ pc' = "next" /\ UNCHANGED <<status, stopped, interrupted>>
    BY <1>5 DEF VisitFailedChildren, VisitWaits, VisitSideEffectHeld, Visit, Looking
  <2> QED
    BY <1>0, <2>3, <2>4, OutcomeQuiet
<1>6. ASSUME NEW n \in Node, VisitReady(n) \/ VisitScanFails(n)
      PROVE  Outcome'
  <2>1. MakeReady(n) /\ pc = "next"
    BY <1>6, TakesUp
  <2>2. FAILED # PENDING /\ FAILED # EXECUTING /\ FAILED # UP_TO_DATE
    BY DEF FAILED, PENDING, EXECUTING, UP_TO_DATE
  <2>3. \A m \in Node : state'[m] \in {state[m], PENDING, EXECUTING, UP_TO_DATE}
    BY <2>1 DEF MakeReady
  <2>4. pc' = "prepare" /\ UNCHANGED <<status, stopped, interrupted>>
    BY <1>6, <2>1 DEF VisitReady, VisitScanFails, Visit, MakeReady
  <2> QED
    BY <1>0, <2>1, <2>2, <2>3, <2>4, OutcomeQuiet
<1>7. ASSUME NEW n \in Node, Prepare(n) \/ Execute(n)
      PROVE  Outcome'
  <2>1. Executed(n) \/ (Failed(n) /\ (interrupted \/ \E k \in Trouble \ {"none"} : Fails(n, k)))
    <3>1. CASE Prepare(n)
      BY <3>1 DEF Prepare, PrepareFails, Missing, Trouble
    <3>2. CASE Execute(n)
      BY <3>2 DEF Execute, Outcomes, Trouble
    <3> QED
      BY <1>7, <3>1, <3>2
  <2>2. Executed(n) \/ (Failed(n) /\ Troubled)
    BY <2>1, Groups DEF Fails, Troubled, TInv
  <2>3. pc = "prepare" /\ pc' = "next" /\ interrupted' = interrupted
    BY <1>7 DEF Prepare, Execute, Preparing
  <2> QED
    BY <1>0, <2>2, <2>3, EndedOutcome
<1>8. ASSUME NEW n \in Node, Dispatch(n)
      PROVE  Outcome'
  <2>1. /\ pc = "prepare" /\ pc' \in {"next", "wait"}
        /\ UNCHANGED <<status, stopped, interrupted, state>>
    BY <1>8 DEF Dispatch, Preparing, AfterDispatch, nodeVars
  <2> QED
    BY <1>0, <2>1, OutcomeQuiet
<1>9. CASE Interrupt
  BY <1>0, <1>9 DEF Interrupt, nodeVars, walkVars, Outcome, Troubled
<1>10. ASSUME NEW w \in Worker, WorkerTake(w) \/ WorkerFinish(w)
       PROVE  Outcome'
  BY <1>0, <1>10 DEF WorkerTake, WorkerFinish, nodeVars, walkVars, Outcome, Troubled
<1>11. CASE UNCHANGED vars
  BY <1>0, <1>11 DEF vars, nodeVars, walkVars, Outcome, Troubled
<1> QED
  BY <1>1, <1>2, <1>3, <1>4, <1>5, <1>6, <1>7, <1>8, <1>9, <1>10, <1>11
     DEF Next, MainThread, Walk

-----------------------------------------------------------------------------
(* Sequences as sets, and counts *)

LEMMA OrderSet ==
  ASSUME NEW S \in SUBSET Node, NEW s \in SetToSeqs(S)
  PROVE  s \in Seq(Node) /\ ToSet(s) = S
<1> DEFINE D == 1 .. Cardinality(S)
<1>1. IsFiniteSet(S) /\ Cardinality(S) \in Nat
  BY NodeSubsets
<1>2. s \in [D -> S] /\ \A i, j \in D : i # j => s[i] # s[j]
  BY DEF SetToSeqs
<1>3. s \in Injection(D, S)
  BY <1>2 DEF Injection, IsInjective
<1>4. Cardinality(D) = Cardinality(S)
  BY <1>1, FS_Interval
<1>5. s \in Surjection(D, S)
  BY <1>1, <1>3, <1>4, FS_Injection
<1>6. \A x \in S : \E i \in D : s[i] = x
  BY <1>5 DEF Surjection
<1>7. ToSet(s) = S
  BY <1>2, <1>6 DEF ToSet
<1> QED
  BY <1>7, Orders

LEMMA ConcatSet ==
  ASSUME NEW s \in Seq(Node), NEW t \in Seq(Node)
  PROVE  s \o t \in Seq(Node) /\ ToSet(s \o t) = ToSet(s) \cup ToSet(t)
<1>1. /\ s \o t \in Seq(Node) /\ Len(s \o t) = Len(s) + Len(t)
      /\ Len(s) \in Nat /\ Len(t) \in Nat
      /\ DOMAIN s = 1 .. Len(s) /\ DOMAIN t = 1 .. Len(t)
      /\ DOMAIN (s \o t) = 1 .. Len(s) + Len(t)
  OBVIOUS
<1>2. \A i \in 1 .. Len(s) + Len(t) :
        (s \o t)[i] = IF i <= Len(s) THEN s[i] ELSE t[i - Len(s)]
  OBVIOUS
<1>3. ToSet(s \o t) \subseteq ToSet(s) \cup ToSet(t)
  <2> SUFFICES ASSUME NEW i \in 1 .. Len(s) + Len(t)
               PROVE  (s \o t)[i] \in ToSet(s) \cup ToSet(t)
    BY <1>1 DEF ToSet
  <2>1. CASE i <= Len(s)
    BY <1>1, <1>2, <2>1 DEF ToSet
  <2>2. CASE i > Len(s)
    <3>1. i - Len(s) \in DOMAIN t /\ (s \o t)[i] = t[i - Len(s)]
      BY <1>1, <1>2, <2>2
    <3> QED
      BY <3>1 DEF ToSet
  <2> QED
    BY <1>1, <2>1, <2>2
<1>4. \A i \in DOMAIN s : s[i] \in ToSet(s \o t)
  <2> SUFFICES ASSUME NEW i \in DOMAIN s
               PROVE  s[i] \in ToSet(s \o t)
    OBVIOUS
  <2>1. i \in DOMAIN (s \o t) /\ (s \o t)[i] = s[i]
    BY <1>1, <1>2
  <2> QED
    BY <2>1 DEF ToSet
<1>5. \A i \in DOMAIN t : t[i] \in ToSet(s \o t)
  <2> SUFFICES ASSUME NEW i \in DOMAIN t
               PROVE  t[i] \in ToSet(s \o t)
    OBVIOUS
  <2>1. i + Len(s) \in DOMAIN (s \o t) /\ (s \o t)[i + Len(s)] = t[i]
    BY <1>1, <1>2
  <2> QED
    BY <2>1 DEF ToSet
<1> QED
  BY <1>1, <1>3, <1>4, <1>5 DEF ToSet

\* What is left once the node looked at is taken off
LEMMA Popped ==
  ASSUME TInv, HasCandidate, Pop
  PROVE  /\ Candidate \in Node /\ Rest \in Seq(Node) /\ topsLeft' \in Seq(Node)
         /\ Candidate \in ToSet(candidates) \cup ToSet(topsLeft)
         /\ ToSet(Rest) \subseteq ToSet(candidates)
         /\ ToSet(candidates) \subseteq ToSet(Rest) \cup {Candidate}
         /\ ToSet(topsLeft') \subseteq ToSet(topsLeft)
         /\ ToSet(topsLeft) \subseteq ToSet(topsLeft') \cup {Candidate}
<1>1. candidates \in Seq(Node) /\ topsLeft \in Seq(Node)
  BY DEF TInv, TypeOK
<1>2. Candidate \in Node /\ Rest \in Seq(Node) /\ topsLeft' \in Seq(Node)
  BY PopTypes DEF TInv
<1>3. CASE candidates # <<>>
  <2> DEFINE L == Len(candidates)
  <2>1. /\ L \in Nat /\ L >= 1 /\ DOMAIN candidates = 1 .. L
        /\ Candidate = candidates[L] /\ Rest = [i \in 1 .. L - 1 |-> candidates[i]]
    BY <1>1, <1>3 DEF Candidate, Rest, Last, Front
  <2>2. DOMAIN Rest = 1 .. L - 1 /\ \A i \in 1 .. L - 1 : Rest[i] = candidates[i]
    BY <2>1
  <2>3. ToSet(Rest) \subseteq ToSet(candidates)
    BY <2>1, <2>2 DEF ToSet
  <2>4. L \in Nat => \A i \in 1 .. L : i \in 1 .. L - 1 \/ i = L
    OBVIOUS
  <2>5. ToSet(candidates) \subseteq ToSet(Rest) \cup {Candidate}
    BY <2>1, <2>2, <2>4 DEF ToSet
  <2>6. Candidate \in ToSet(candidates)
    BY <2>1 DEF ToSet
  <2> QED
    BY <1>2, <1>3, <2>3, <2>5, <2>6 DEF Pop, walkVars
<1>4. CASE candidates = <<>>
  <2> DEFINE L == Len(topsLeft)
  <2>1. topsLeft # <<>> /\ topsLeft' = Tail(topsLeft) /\ Candidate = Head(topsLeft)
    BY <1>4 DEF HasCandidate, Pop, Candidate
  <2>2. /\ L \in Nat /\ L >= 1 /\ DOMAIN topsLeft = 1 .. L /\ Candidate = topsLeft[1]
        /\ DOMAIN topsLeft' = 1 .. L - 1
        /\ \A i \in 1 .. L - 1 : topsLeft'[i] = topsLeft[i + 1]
    BY <1>1, <2>1
  <2>3. \A i \in 1 .. L - 1 : i + 1 \in 1 .. L
    BY <2>2
  <2>4. ToSet(topsLeft') \subseteq ToSet(topsLeft)
    BY <2>2, <2>3 DEF ToSet
  <2>5. \A i \in 1 .. L : i = 1 \/ (i - 1 \in 1 .. L - 1 /\ topsLeft'[i - 1] = topsLeft[i])
    <3> SUFFICES ASSUME NEW i \in 1 .. L, i # 1
                 PROVE  i - 1 \in 1 .. L - 1 /\ topsLeft'[i - 1] = topsLeft[i]
      OBVIOUS
    <3>1. i - 1 \in 1 .. L - 1 /\ (i - 1) + 1 = i
      BY <2>2
    <3> QED
      BY <2>2, <3>1
  <2>6. ToSet(topsLeft) \subseteq ToSet(topsLeft') \cup {Candidate}
    <3> SUFFICES ASSUME NEW i \in 1 .. L
                 PROVE  topsLeft[i] \in ToSet(topsLeft') \cup {Candidate}
      BY <2>2 DEF ToSet
    <3> QED
      BY <2>2, <2>5 DEF ToSet
  <2>7. Candidate \in ToSet(topsLeft) /\ Rest = <<>> /\ ToSet(Rest) = {} /\ ToSet(candidates) = {}
    BY <1>4, <2>2 DEF ToSet, Rest
  <2> QED
    BY <1>2, <2>4, <2>6, <2>7
<1> QED
  BY <1>3, <1>4

LEMMA CountLess ==
  ASSUME NEW X \in SUBSET Node, NEW Y
  PROVE  /\ Cardinality(X \ Y) = Cardinality(X) - Cardinality(X \cap Y)
         /\ Cardinality(X) \in Nat /\ Cardinality(X \ Y) \in Nat
         /\ Cardinality(X \cap Y) \in Nat
<1>1. /\ X \ Y \in SUBSET Node /\ X \cap Y \in SUBSET Node
      /\ X = (X \ Y) \cup (X \cap Y) /\ (X \ Y) \cap (X \cap Y) = {}
  OBVIOUS
<1>2. Cardinality(X) = Cardinality(X \ Y) + Cardinality(X \cap Y) - Cardinality({})
  BY <1>1, NodeSubsets, FS_Union
<1> QED
  BY <1>1, <1>2, NodeSubsets, FS_EmptySet

LEMMA CountMore ==
  ASSUME NEW X \in SUBSET Node, NEW Y \in SUBSET Node
  PROVE  Cardinality(X \cup Y) = Cardinality(X) + Cardinality(Y \ X)
<1>1. /\ Y \ X \in SUBSET Node /\ X \cup Y = X \cup (Y \ X) /\ X \cap (Y \ X) = {}
  OBVIOUS
<1>2. Cardinality(X \cup (Y \ X)) = Cardinality(X) + Cardinality(Y \ X) - Cardinality({})
  BY <1>1, NodeSubsets, FS_Union
<1>3. Cardinality(X) \in Nat /\ Cardinality(Y \ X) \in Nat /\ Cardinality({}) = 0
  BY <1>1, NodeSubsets, FS_EmptySet
<1>4. Cardinality(X \cup Y) = Cardinality(X \cup (Y \ X))
  BY <1>1
<1> QED
  BY <1>2, <1>3, <1>4

LEMMA CountZero ==
  ASSUME NEW X \in SUBSET Node
  PROVE  Cardinality(X) = 0 <=> X = {}
  BY NodeSubsets, FS_EmptySet

-----------------------------------------------------------------------------
(* The steps that only pass tasks on *)

LEMMA StopsTheWalk ==
  ASSUME TInv, Walked, Troubled, project.policy = "stop"
  PROVE  \A n \in Node : project.se[n] = {}
  BY DEF Walked

\* Where the walk goes on after a failure, -k was given
LEMMA FailedKeeps ==
  ASSUME TInv, Outcome, ~stopped, pc # "ended", NEW x \in Node, state[x] = FAILED
  PROVE  project.policy = "keep"
<1>1. status = "failed"
  BY DEF Outcome, TInv, TypeOK
<1>2. project.policy \in {"stop", "keep", "ignore"}
  BY ProjectTypes DEF Project, TInv
<1> QED
  BY <1>1, <1>2 DEF Outcome

\* What n is made from
LEMMA ReachFacts ==
  ASSUME TInv, NEW n \in Node
  PROVE  /\ Reach(n) \in SUBSET Node /\ n \in Reach(n)
         /\ \A m \in Reach(n) : Needs(m) \subseteq Reach(n) /\ Reach(m) \subseteq Reach(n)
<1> DEFINE F == [m \in Node |-> MayNeed(m)]
<1>1. F \in [Node -> SUBSET Node] /\ {n} \in SUBSET Node
  BY MayNeedMore DEF TInv
<1>2. Closure({n}, F) \in SUBSET Node /\ n \in Closure({n}, F)
  BY <1>1, Closures, ClosureContains
<1>3. \A m \in Closure({n}, F) : F[m] \subseteq Closure({n}, F)
  <2> HIDE DEF F
  <2> QED
    BY <1>1, ClosureClosed
<1>4. \A m \in Closure({n}, F) : Closure({m}, F) \subseteq Closure({n}, F)
  <2> HIDE DEF F
  <2> QED
    BY <1>2, <1>3, ClosureLeast
<1>5. \A m \in Closure({n}, F) : Needs(m) \subseteq F[m]
  BY <1>2, MayNeedMore DEF TInv
<1> QED
  BY <1>2, <1>3, <1>4, <1>5 DEF Reach

LEMMA BelowLost ==
  ASSUME TInv, NEW n \in Node, NEW c \in Needs(n)
  PROVE  (Lost(c) => Lost(n)) /\ (Tainted(c) => Tainted(n)) /\ c \in Node
<1>1. c \in Reach(n) /\ Reach(c) \subseteq Reach(n) /\ c \in Node
  BY ReachFacts
<1> QED
  BY <1>1 DEF Lost, Tainted

LEMMA ItselfLost ==
  ASSUME TInv, NEW n \in Node
  PROVE  /\ project.policy = "keep" /\ state[n] = FAILED => Lost(n)
         /\ Doubtful(n) => Tainted(n)
  BY ReachFacts DEF Lost, Tainted

LEMMA StatesApart ==
  /\ NO_STATE = 0 /\ PENDING = 1 /\ EXECUTING = 2 /\ UP_TO_DATE = 3 /\ EXECUTED = 4
  /\ FAILED = 5 /\ Done = {3, 4}
  BY DEF NO_STATE, PENDING, EXECUTING, UP_TO_DATE, EXECUTED, FAILED, Done

LEMMA StateOrder ==
  ASSUME TInv, NEW x \in Node
  PROVE  /\ state[x] \in {NO_STATE, PENDING, EXECUTING, UP_TO_DATE, EXECUTED, FAILED}
         /\ state[x] <= PENDING => state[x] \in {NO_STATE, PENDING}
         /\ state[x] <= EXECUTING => state[x] \in {NO_STATE, PENDING, EXECUTING}
<1>1. state[x] \in 0 .. 5
  BY StatesApart DEF TInv, TypeOK
<1> QED
  BY <1>1, StatesApart

LEMMA TopTypes ==
  ASSUME TInv
  PROVE  ToSet(project.tops) \subseteq Node
<1>1. project.tops \in Seq(Node)
  BY ProjectTypes DEF TInv, Project
<1>2. \A i \in DOMAIN project.tops : project.tops[i] \in Node
  BY <1>1
<1> QED
  BY <1>2 DEF ToSet

\* Nothing waits for one that is being built, or that was not looked at
LEMMA WaitingStates ==
  ASSUME TInv, OInv, SideEffectsAside, ExecutingOwned, NotWaiting,
         NEW x \in Node, Waits(x) # {}
  PROVE  state[x] \in {PENDING, FAILED}
<1>1. PICK c \in Node : x \in waitingParents[c]
  BY DEF Waits, WaitsIn
<1>2. state[x] \notin Done /\ (x \in project.builder => state[x] # EXECUTING)
  BY <1>1 DEF OInv, Waiting
<1>3. state[x] # NO_STATE
  BY DEF NotWaiting
<1>4. state[x] # EXECUTING
  <2> SUFFICES ASSUME state[x] = EXECUTING
               PROVE  FALSE
    OBVIOUS
  <2>1. PICK m \in project.builder : x \in Writes(m)
    BY DEF ExecutingOwned
  <2>2. m \in Node /\ Group(m) \subseteq project.builder
    BY <2>1, ProjectTypes, Builders DEF TInv, Project
  <2>3. x \in SideEffects(Group(m))
    BY <1>2, <2>1, <2>2 DEF Writes
  <2>4. IsSideEffect(x)
    BY <2>2, <2>3, Groups DEF SideEffects, IsSideEffect, TInv
  <2> QED
    BY <2>4 DEF SideEffectsAside
<1> QED
  BY <1>2, <1>3, <1>4, StatesApart DEF TInv, TypeOK

LEMMA SameNames ==
  ASSUME project' = project
  PROVE  /\ \A s : IsSideEffect(s)' <=> IsSideEffect(s)
         /\ \A n : Needs(n)' = Needs(n) /\ Writes(n)' = Writes(n) /\ Group(n)' = Group(n)
  BY SameProject, SameMeaning DEF IsSideEffect

\* Nothing is made from a side effect
LEMMA NeedsUnused ==
  ASSUME ProjectGiven, SideEffectsUnused, NEW n \in Node
  PROVE  \A x \in Kids(Group(n)) \cup Needs(n) : ~IsSideEffect(x)
<1> DEFINE X == {x \in Node : ~IsSideEffect(x)}
           S == UNION {project.incl[k] : k \in Kids(Group(n))}
<1>1. /\ \A m \in Node : project.kids[m] \subseteq X
      /\ \A m \in Node : project.incl[m] \subseteq X
  BY ProjectTypes DEF SideEffectsUnused, Project
<1>2. Kids(Group(n)) \subseteq X
  BY <1>1, Groups DEF Kids
<1>3. S \subseteq X /\ X \in SUBSET Node
  BY <1>1, <1>2
<1>4. Closure(S, project.incl) \subseteq X
  BY <1>1, <1>3, ClosureLeast
<1>5. Needs(n) \subseteq Kids(Group(n)) \cup Closure(S, project.incl)
  BY DEF Needs, MadeFrom, Found, Kids
<1> QED
  BY <1>2, <1>4, <1>5

LEMMA SameReach ==
  ASSUME project' = project
  PROVE  \A n : Reach(n)' = Reach(n) /\ Tainted(n)' = Tainted(n) /\ Doubtful(n)' = Doubtful(n)
<1>1. \A n : MayNeed(n)' = MayNeed(n) /\ Doubtful(n)' = Doubtful(n)
  BY SameNeeds DEF Doubtful, Group
<1>2. \A n : Reach(n)' = Reach(n)
  BY <1>1 DEF Reach, Closure
<1> QED
  BY <1>1, <1>2 DEF Tainted

\* Under -k, what has failed stays so, and what is lost with it
LEMMA LostStays ==
  ASSUME TInv, project' = project,
         project.policy = "keep" => \A m \in Node : state[m] = FAILED => state'[m] = FAILED
  PROVE  \A x \in Node : Lost(x) => Lost(x)'
<1> SUFFICES ASSUME NEW x \in Node, Lost(x)
             PROVE  Lost(x)'
  OBVIOUS
<1>1. PICK c \in Reach(x) : state[c] = FAILED
  BY DEF Lost
<1>2. c \in Node /\ project.policy = "keep"
  BY ReachFacts DEF Lost
<1> QED
  BY <1>1, <1>2, SameReach DEF Lost

\* Whoever nothing new happens to is still explained
LEMMA ExplainedStays ==
  ASSUME Explained, project' = project, interrupted => interrupted',
         project.policy = "keep" =>
           \A m \in Node : state'[m] = FAILED => state[m] = FAILED \/ interrupted \/ Tainted(m)
  PROVE  Explained'
  BY SameReach DEF Explained

\* A step that takes at most n off the stack, whose sources are on it or looked
\* at, leaves no source out
LEMMA KidsSeenStays ==
  ASSUME TInv, SideEffectsUnused, KidsSeen, project' = project, ~stopped' => ~stopped,
         pc' = "prepare" => state'[task'] # NO_STATE,
         NEW n \in Node, state'[n] # NO_STATE,
         \A x \in ToSet(candidates) : x = n \/ x \in ToSet(candidates'),
         \A x \in Node : state'[x] = NO_STATE /\ state[x] # NO_STATE => IsSideEffect(x),
         \A x \in Node : state[x] = NO_STATE /\ state'[x] # NO_STATE =>
                           x \in Group(n) \/ IsSideEffect(x),
         ~Fails(n, "scan") =>
           \A c \in Kids(Group(n)) :
             state[c] # NO_STATE \/ c = n \/ c \in ToSet(candidates')
  PROVE  KidsSeen'
<1> SUFFICES ASSUME ~stopped', NEW x \in Node, state'[x] # NO_STATE, ~Fails(x, "scan"),
                    ~IsSideEffect(x), NEW c \in Kids(Group(x))
             PROVE  state'[c] # NO_STATE \/ c \in ToSet(candidates')
  BY SameNames, SameProject, SameMeaning DEF KidsSeen
<1>1. c \in Node /\ ~IsSideEffect(c)
  BY KidsTypes, NeedsUnused DEF TInv
<1>2. CASE state[x] # NO_STATE
  <2>1. state[c] # NO_STATE \/ c \in ToSet(candidates)
    BY <1>2 DEF KidsSeen
  <2> QED
    BY <1>1, <2>1
<1>3. CASE state[x] = NO_STATE
  <2>1. x \in Group(n)
    BY <1>3
  <2>2. Group(x) = Group(n) /\ ~Fails(n, "scan")
    BY <2>1, Partners DEF Fails, TInv
  <2> QED
    BY <1>1, <2>2
<1> QED
  BY <1>2, <1>3

LEMMA HandedOnTraced ==
  ASSUME TInv, OInv, WInv,
         UNCHANGED <<project, nodeVars, candidates, topsLeft, pendingChildren>>,
         stopped => stopped', status' = "ok" => status = "ok", interrupted => interrupted',
         \/ UNCHANGED <<pc, task>> /\ Out' = Out
         \/ pc # "prepare" /\ pc' # "prepare" /\ Out' = Out
         \/ /\ pc = "prepare" /\ pc' # "prepare" /\ state[task] = EXECUTING
            /\ Out' = Out \cup {task}
  PROVE  WInv'
<1>0. /\ UNCHANGED <<project, state, waitingParents, waitingSE, refCount, candidates,
                     topsLeft, pendingChildren>>
      /\ \A x : Waits(x)' = Waits(x)
  BY DEF nodeVars, Waits, WaitsIn
<1>1. pc = "prepare" => task \in Node
  BY DEF TInv, TurnsKept
<1>2. \A x \in Node : InTask(x) => InTask(x)' \/ state[x] = EXECUTING
  <2> SUFFICES ASSUME NEW x \in Node, InTask(x)
               PROVE  InTask(x)' \/ state[x] = EXECUTING
    OBVIOUS
  <2>1. CASE UNCHANGED <<pc, task>>
    BY <1>0, <2>1, SameNames DEF InTask
  <2>2. CASE state[task] = EXECUTING
    BY <1>1, <2>2, Groups, StatesApart DEF InTask, OInv, HeldState, TInv
  <2> QED
    BY <2>1, <2>2 DEF InTask
<1>2a. \A x \in Node : Lost(x) => Lost(x)'
  BY <1>0, LostStays
<1>3. \A c : Settled(c)' => Settled(c)
  BY <1>0, <1>1, Groups, StatesApart, SameNames DEF Settled, OInv, HeldState, TInv
<1>3a. \A c : Settled(c) => Settled(c)'
  BY <1>0, SameNames DEF Settled
<1>4. Counts'
  BY <1>0 DEF WInv, Counts
<1>5. PendingAwaited'
  <2> SUFFICES ASSUME NEW x \in Node, x \in pendingChildren
               PROVE  /\ waitingParents[x] # {}
                      /\ state[x] \in {PENDING, EXECUTING} \/ InTask(x)' \/ Lost(x)'
    BY <1>0 DEF PendingAwaited, TInv, TypeOK
  <2> QED
    BY <1>2, <1>2a DEF WInv, PendingAwaited
<1>6. SideEffectsAside'
  BY <1>0, SameNames DEF WInv, SideEffectsAside
<1>7. ExecutingOwned'
  <2> SUFFICES ASSUME NEW x \in Node, state[x] = EXECUTING
               PROVE  \E m \in project.builder :
                        x \in Writes(m) /\ (m \in Out' \/ (pc' = "prepare" /\ task' = m))
    BY <1>0, SameNames DEF ExecutingOwned
  <2>1. PICK m \in project.builder :
          x \in Writes(m) /\ (m \in Out \/ (pc = "prepare" /\ task = m))
    BY DEF WInv, ExecutingOwned
  <2> QED
    BY <2>1
<1>8. NotWaiting'
  BY <1>0 DEF WInv, NotWaiting
<1>9. Reasons'
  <2> SUFFICES ASSUME NEW x \in Node, x \in Due'
               PROVE  Reason(x)'
    BY DEF Reasons, Due
  <2>1. x \in Due
    BY <1>0 DEF Due
  <2>2. Reason(x)
    BY <2>1 DEF WInv, Reasons
  <2> QED
    BY <1>0, <1>2, <1>2a, <2>2, SameNames DEF Reason
<1>10. CyclesSeen'
  BY <1>0 DEF WInv, CyclesSeen
<1>11. TopsSeen'
  BY <1>0 DEF WInv, TopsSeen
<1>12. NothingLeft'
  BY <1>0, <1>3, <1>3a, SameNames DEF WInv, NothingLeft, MadeFromDone
<1>13. KidsSeen'
  <2>1. pc' = "prepare" => UNCHANGED <<pc, task>>
    OBVIOUS
  <2> QED
    BY <1>0, <2>1, SameNames, SameProject, SameMeaning DEF WInv, KidsSeen
<1>14. Explained'
  BY <1>0, ExplainedStays DEF WInv
<1> QED
  BY <1>4, <1>5, <1>6, <1>7, <1>8, <1>9, <1>10, <1>11, <1>12, <1>13, <1>14 DEF WInv

LEMMA PoolTraced ==
  ASSUME TInv, TInv', OInv, WInv,
         \/ \E n \in Node : Dispatch(n)
         \/ \E w \in Worker : WorkerTake(w) \/ WorkerFinish(w)
         \/ Interrupt
         \/ Cleanup
  PROVE  WInv'
<1>0. PoolInv
  BY DEF OInv
<1>1. ASSUME NEW n \in Node, Dispatch(n)
      PROVE  WInv'
  <2>1. /\ UNCHANGED <<project, nodeVars, candidates, topsLeft, pendingChildren, stopped, status,
                       interrupted>>
        /\ pc = "prepare" /\ task = n /\ pc' # "prepare" /\ state[task] = EXECUTING
    BY <1>1 DEF Dispatch, walkVars, Preparing, AfterDispatch
  <2>2. Out' = Out \cup {n}
    BY <1>0, <1>1, PoolDispatched
  <2> QED
    BY <2>1, <2>2, HandedOnTraced
<1>2. ASSUME NEW w \in Worker, WorkerTake(w)
      PROVE  WInv'
  <2>1. /\ UNCHANGED <<project, nodeVars, candidates, topsLeft, pendingChildren, stopped,
                       status, pc, task, interrupted>>
    BY <1>2 DEF WorkerTake, walkVars
  <2>2. Out' = Out
    BY <1>0, <1>2, PoolTaken
  <2> QED
    BY <2>1, <2>2, HandedOnTraced
<1>3. ASSUME NEW w \in Worker, WorkerFinish(w)
      PROVE  WInv'
  <2>1. /\ UNCHANGED <<project, nodeVars, candidates, topsLeft, pendingChildren, stopped,
                       status, pc, task, interrupted>>
    BY <1>3 DEF WorkerFinish, walkVars
  <2>2. Out' = Out
    BY <1>0, <1>3, PoolFinished
  <2> QED
    BY <2>1, <2>2, HandedOnTraced
<1>4. CASE Interrupt
  <2>1. /\ UNCHANGED <<project, nodeVars, candidates, topsLeft, pendingChildren,
                       status, pc, task>>
        /\ stopped' /\ interrupted'
    BY <1>4 DEF Interrupt, walkVars
  <2>2. Out' = Out
    BY <1>0, <1>4, PoolInterrupted
  <2> QED
    BY <2>1, <2>2, HandedOnTraced
<1>5. CASE Cleanup
  <2>1. /\ UNCHANGED <<project, nodeVars, candidates, topsLeft, pendingChildren, stopped,
                       interrupted>>
        /\ pc # "prepare" /\ pc' # "prepare" /\ status' \in {status, "cycle"}
    BY <1>5 DEF Cleanup, walkVars
  <2>2. Out' = Out
    BY <1>0, <1>5, PoolCleanedUp
  <2> QED
    BY <2>1, <2>2, HandedOnTraced
<1> QED
  BY <1>1, <1>2, <1>3, <1>4, <1>5

\* A node that is done, or being built, is not looked at again
LEMMA SkipTraced ==
  ASSUME TInv, TInv', OInv, Outcome, Walked, WInv, SkipHandled
  PROVE  WInv'
<1> DEFINE n == Candidate
<1>0. /\ UNCHANGED <<project, state, waitingParents, waitingSE, refCount, pendingChildren,
                     stopped, pc, task, status, interrupted>>
      /\ pc = "next" /\ ~stopped /\ HasCandidate /\ Pop /\ candidates' = Rest
      /\ UNCHANGED poolVars /\ state[n] > PENDING
      /\ \A x : Waits(x)' = Waits(x)
  BY DEF SkipHandled, Looking, HasCandidate, nodeVars, Waits, WaitsIn
<1>1. /\ n \in Node
      /\ ToSet(candidates') \subseteq ToSet(candidates)
      /\ ToSet(candidates) \subseteq ToSet(candidates') \cup {n}
      /\ ToSet(topsLeft') \subseteq ToSet(topsLeft)
      /\ ToSet(topsLeft) \subseteq ToSet(topsLeft') \cup {n}
  BY <1>0, Popped
<1>2. state[n] = FAILED => Lost(n)
  BY <1>0, <1>1, FailedKeeps, ItselfLost
<1>2a. \A x \in Node : Lost(x) => Lost(x)'
  BY <1>0, LostStays
<1>3. Out' = Out
  BY <1>0, OutSame
<1>4. /\ Counts' /\ NotWaiting' /\ CyclesSeen'
  BY <1>0, SameNames DEF WInv, Counts, NotWaiting, CyclesSeen
<1>4a. PendingAwaited'
  <2> SUFFICES ASSUME NEW x \in Node, x \in pendingChildren
               PROVE  /\ waitingParents[x] # {}
                      /\ state[x] \in {PENDING, EXECUTING} \/ Lost(x)'
    BY <1>0 DEF PendingAwaited, TInv, TypeOK
  <2> QED
    BY <1>0, <1>2a DEF WInv, PendingAwaited, InTask
<1>5. SideEffectsAside'
  BY <1>0, <1>1, SameNames DEF WInv, SideEffectsAside
<1>6. ExecutingOwned'
  BY <1>0, <1>3, SameNames DEF WInv, ExecutingOwned
<1>7. Reasons'
  <2> SUFFICES ASSUME NEW x \in Node, x \in Due'
               PROVE  Reason(x)'
    BY DEF Reasons, Due
  <2>1. x \in Due
    BY <1>0 DEF Due
  <2>2. Reason(x)
    BY <2>1 DEF WInv, Reasons
  <2>3. CASE x # n \/ x \notin ToSet(candidates)
    BY <1>0, <1>1, <1>2a, <2>2, <2>3, SameNames DEF Reason, InTask
  <2>4. CASE x = n /\ Lost(n)
    BY <1>1, <1>2a, <2>4 DEF Reason
  <2>5. CASE x = n /\ ~Lost(n)
    <3>1. state[n] \in {PENDING, EXECUTING} \/ waitingParents[n] # {}
      BY <1>0, <2>1, <2>5 DEF Due, WInv, PendingAwaited, InTask
    <3>2. state[n] \notin Done
      <4> SUFFICES ASSUME waitingParents[n] # {}
                   PROVE  state[n] \notin Done
        BY <3>1, StatesApart
      <4>1. PICK p \in Node : p \in waitingParents[n]
        BY <1>1 DEF TInv, TypeOK
      <4> QED
        BY <1>0, <1>1, <4>1 DEF OInv, Waiting, Settled
    <3>3. state[n] = EXECUTING
      <4>1. state[n] \in NO_STATE .. FAILED
        BY <1>1 DEF TInv, TypeOK
      <4> HIDE DEF n
      <4> QED
        BY <1>0, <1>2, <2>5, <3>2, <4>1, StatesApart
    <3> QED
      BY <1>0, <2>5, <3>3 DEF Reason
  <2> QED
    BY <2>3, <2>4, <2>5
<1>8. TopsSeen'
  BY <1>0, <1>1, StatesApart DEF WInv, TopsSeen
<1>9. NothingLeft'
  BY <1>0, SameNames DEF WInv, NothingLeft, MadeFromDone, Settled
<1>10. KidsSeen'
  <2> SUFFICES ASSUME NEW x \in Node, state[x] # NO_STATE, ~Fails(x, "scan"),
                      ~IsSideEffect(x), NEW c \in Kids(Group(x))
               PROVE  state[c] # NO_STATE \/ c \in ToSet(candidates')
    BY <1>0, SameNames, SameProject, SameMeaning DEF KidsSeen
  <2>1. state[c] # NO_STATE \/ c \in ToSet(candidates)
    BY <1>0 DEF WInv, KidsSeen
  <2> QED
    BY <1>0, <1>1, <2>1, StatesApart
<1>11. Explained'
  BY <1>0, ExplainedStays DEF WInv
<1> QED
  BY <1>4, <1>4a, <1>5, <1>6, <1>7, <1>8, <1>9, <1>10, <1>11 DEF WInv

\* After stop(), the candidates are given up and so is what waits for them
LEMMA NoCandidateTraced ==
  ASSUME TInv, TInv', OInv, WInv, NoCandidate
  PROVE  WInv'
<1>0. /\ UNCHANGED <<project, state, waitingSE, stopped, task, status, topsLeft,
                     interrupted>>
      /\ pc = "next" /\ pc' # "prepare" /\ UNCHANGED poolVars
  BY DEF NoCandidate, Looking, walkVars
<1>1. Out' = Out
  BY <1>0, OutSame
<1>1a. \A x \in Node : Lost(x) => Lost(x)'
  BY <1>0, LostStays
<1>2. CASE ~stopped
  <2>1. /\ UNCHANGED <<project, nodeVars, candidates, topsLeft, pendingChildren>>
    BY <1>0, <1>2 DEF NoCandidate, nodeVars
  <2> QED
    BY <1>0, <1>1, <2>1, HandedOnTraced
<1>3. CASE stopped
  <2> DEFINE S == ToSet(candidates)
             D == Doomed(S)
  <2>1. /\ waitingParents' = FlushedParents(S) /\ refCount' = FlushedCount(S)
        /\ pendingChildren' = pendingChildren \ D /\ candidates' = <<>>
    BY <1>3 DEF NoCandidate
  <2>2. S \in SUBSET Node /\ waitingParents \in [Node -> SUBSET Node]
    <3>1. candidates \in Seq(Node)
      BY DEF TInv, TypeOK
    <3>2. \A i \in DOMAIN candidates : candidates[i] \in Node
      BY <3>1
    <3>3. S \subseteq Node
      BY <3>2 DEF ToSet
    <3> QED
      BY <3>3 DEF TInv, TypeOK
  <2>3. /\ D \in SUBSET Node /\ S \subseteq D
        /\ \A c \in D : waitingParents[c] \subseteq D
    BY <2>2, Closures, ClosureContains, ClosureClosed DEF Doomed
  <2>4. \A c \in Node : waitingParents'[c] = IF c \in D THEN {} ELSE waitingParents[c]
    BY <2>1 DEF FlushedParents
  <2>5. \A x : Waits(x)' = Waits(x) \ D
    BY <2>4 DEF Waits, WaitsIn
  <2>6. Counts'
    <3> SUFFICES ASSUME NEW p \in Node
                 PROVE  refCount'[p] = Cardinality(Waits(p) \ D)
      BY <2>5 DEF Counts
    <3>1. {c \in D : p \in waitingParents[c]} = Waits(p) \cap D
      BY <2>3 DEF Waits, WaitsIn
    <3>2. refCount'[p] = refCount[p] - Cardinality(Waits(p) \cap D)
      BY <2>1, <3>1 DEF FlushedCount
    <3> QED
      BY <3>2, CountLess DEF WInv, Counts, Waits, WaitsIn
  <2>7. PendingAwaited'
    <3> SUFFICES ASSUME NEW x \in Node, x \in pendingChildren, x \notin D
                 PROVE  /\ waitingParents'[x] # {}
                        /\ state[x] \in {PENDING, EXECUTING} \/ Lost(x)'
      BY <1>0, <2>1 DEF PendingAwaited, TInv, TypeOK
    <3> QED
      BY <1>0, <1>1a, <2>4 DEF WInv, PendingAwaited, InTask
  <2>8. SideEffectsAside'
    <3>1. ToSet(candidates') = {}
      BY <2>1 DEF ToSet
    <3> QED
      BY <1>0, <2>1, <2>4, <2>5, <3>1, SameNames DEF WInv, SideEffectsAside
  <2>9. ExecutingOwned'
    BY <1>0, <1>1, SameNames DEF WInv, ExecutingOwned
  <2>10. NotWaiting'
    BY <1>0, <2>5 DEF WInv, NotWaiting
  <2>11. Reasons'
    <3> SUFFICES ASSUME NEW x \in Node, x \in Due'
                 PROVE  Reason(x)'
      BY DEF Reasons, Due
    <3>1. x \in Due /\ x \notin D
      BY <1>0, <1>3, <2>1, <2>4 DEF Due, WInv, PendingAwaited
    <3>2. Reason(x)
      BY <3>1 DEF WInv, Reasons
    <3>3. x \notin S /\ Waits(x) \cap D = {}
      BY <2>3, <3>1 DEF Waits, WaitsIn
    <3> QED
      BY <1>0, <1>1a, <2>5, <3>2, <3>3, SameNames DEF Reason, InTask
  <2>12. CyclesSeen' /\ TopsSeen'
    BY <1>0, <1>3 DEF WInv, CyclesSeen, TopsSeen
  <2>13. NothingLeft'
    BY <1>0, SameNames DEF WInv, NothingLeft, MadeFromDone, Settled
  <2>14. KidsSeen'
    BY <1>0, <1>3 DEF KidsSeen
  <2>15. Explained'
    BY <1>0, ExplainedStays DEF WInv
  <2> QED
    BY <2>6, <2>7, <2>8, <2>9, <2>10, <2>11, <2>12, <2>13, <2>14, <2>15 DEF WInv
<1> QED
  BY <1>2, <1>3

-----------------------------------------------------------------------------
(* A node is looked at *)

LEMMA Looked ==
  ASSUME TInv, OInv, Outcome, Walked, WInv, NEW n \in Node, Visit(n)
  PROVE  /\ pc = "next" /\ ~stopped /\ state[n] \in {NO_STATE, PENDING}
         /\ ~IsSideEffect(n)
         /\ UNCHANGED <<project, stopped, interrupted, status>> /\ Out' = Out
         /\ Children(n) \in SUBSET Node
         /\ \A c \in Children(n) : ~IsSideEffect(c)
         /\ ToSet(topsLeft') \subseteq ToSet(topsLeft)
         /\ ToSet(topsLeft) \subseteq ToSet(topsLeft') \cup {n}
         /\ \A x \in ToSet(candidates') : x \in ToSet(candidates) \/ x \in Children(n)
         /\ \A x \in ToSet(candidates) : x = n \/ x \in ToSet(candidates')
         /\ \A c \in Children(n) : c # n /\ state[c] = NO_STATE => c \in ToSet(candidates')
<1>1. /\ pc = "next" /\ HasCandidate /\ n = Candidate /\ Pop /\ state[n] <= PENDING
      /\ UNCHANGED <<project, stopped, interrupted, status>> /\ UNCHANGED poolVars
  BY DEF Visit, Looking
<1>2. ~stopped
  BY <1>1 DEF HasCandidate
<1>4. state[n] \in {NO_STATE, PENDING}
  BY <1>1, StateOrder
<1>5. /\ Rest \in Seq(Node) /\ n \in ToSet(candidates) \cup ToSet(topsLeft)
      /\ ToSet(Rest) \subseteq ToSet(candidates)
      /\ ToSet(candidates) \subseteq ToSet(Rest) \cup {n}
      /\ ToSet(topsLeft') \subseteq ToSet(topsLeft)
      /\ ToSet(topsLeft) \subseteq ToSet(topsLeft') \cup {n}
  BY <1>1, Popped
<1>6. ~IsSideEffect(n)
  BY <1>5 DEF WInv, SideEffectsAside
<1>7. /\ Children(n) \in SUBSET Node
      /\ \A m \in Node : IF m \in project.builder THEN implicit'[m] \subseteq Needs(m)
                         ELSE implicit'[m] = {}
  BY VisitScans
<1>8. \A c \in Children(n) : ~IsSideEffect(c)
  <2> SUFFICES ASSUME NEW t \in Group(n), NEW c \in project.kids[t] \cup implicit'[t]
               PROVE  ~IsSideEffect(c)
    BY DEF Children
  <2>1. t \in Node /\ t \in Group(t)
    BY Groups DEF TInv
  <2>2. c \in Kids(Group(t)) \cup Needs(t)
    BY <1>7, <2>1 DEF Kids
  <2> QED
    BY <2>1, <2>2, NeedsUnused DEF TInv, Walked
<1> DEFINE new == [state EXCEPT ![n] = PENDING]
           C == {c \in Children(n) : new[c] = NO_STATE}
<1>9. \A c \in Children(n) : c \in C <=> c # n /\ state[c] = NO_STATE
  BY <1>7, StatesApart DEF TInv, TypeOK
<1>10. PICK order \in SetToSeqs(C) : candidates' = Rest \o order
  BY DEF Visit
<1>11. order \in Seq(Node) /\ ToSet(order) = C
  BY <1>7, OrderSet
<1>12. ToSet(candidates') = ToSet(Rest) \cup C
  BY <1>5, <1>10, <1>11, ConcatSet
<1>13. Out' = Out
  BY <1>1, OutSame
<1> QED
  BY <1>1, <1>2, <1>4, <1>5, <1>6, <1>7, <1>8, <1>9, <1>12, <1>13

\* Where a node is not a side effect, none of those built with it are
LEMMA GroupAside ==
  ASSUME TInv, NEW n \in Node, ~IsSideEffect(n)
  PROVE  \A x \in Group(n) : x \in Node /\ ~IsSideEffect(x)
<1> SUFFICES ASSUME NEW x \in Group(n), IsSideEffect(x)
             PROVE  FALSE
  BY Groups DEF TInv
<1>1. x \in Node /\ x \notin project.builder
  BY Groups, ProjectTypes DEF IsSideEffect, WellFormed, TInv
<1>2. x = n
  BY <1>1, Builders DEF TInv
<1> QED
  BY <1>2

\* A node that is looked at: what is lost, explained and seen stays so
LEMMA LookedKept ==
  ASSUME TInv, OInv, Outcome, Walked, WInv, NEW n \in Node, Visit(n),
         state'[n] # NO_STATE, pc' = "prepare" => task' = n,
         \A m \in Node :
           /\ state'[m] = state[m] \/ (m \in Group(n) \cup {n} /\ state'[m] # NO_STATE)
           /\ state[m] = FAILED => state'[m] = FAILED
           /\ state'[m] = FAILED => state[m] = FAILED \/ interrupted \/ Tainted(m)
  PROVE  /\ \A x \in Node : Lost(x) => Lost(x)'
         /\ KidsSeen' /\ Explained'
<1>1. /\ ~stopped /\ state[n] \in {NO_STATE, PENDING}
      /\ UNCHANGED <<project, stopped, interrupted>>
      /\ \A x \in ToSet(candidates) : x = n \/ x \in ToSet(candidates')
      /\ \A c \in Children(n) : c # n /\ state[c] = NO_STATE => c \in ToSet(candidates')
  BY Looked
<1>2. \A x \in Node : Lost(x) => Lost(x)'
  BY <1>1, LostStays, StatesApart
<1>3. Explained'
  BY <1>1, ExplainedStays DEF WInv
<1>4. Kids(Group(n)) \subseteq Children(n) /\ n \in Group(n)
  BY VisitScans, Groups DEF TInv
<1>5. KidsSeen'
  <2>1. \A c \in Kids(Group(n)) : state[c] # NO_STATE \/ c = n \/ c \in ToSet(candidates')
    BY <1>1, <1>4
  <2>2. \A x \in Node : state'[x] = NO_STATE => state[x] = NO_STATE
    OBVIOUS
  <2>3. \A x \in Node : state[x] = NO_STATE /\ state'[x] # NO_STATE => x \in Group(n)
    BY <1>4
  <2> QED
    BY <1>1, <2>1, <2>2, <2>3, KidsSeenStays DEF WInv, Walked
<1> QED
  BY <1>2, <1>3, <1>5

LEMMA VisitWaitsTraced ==
  ASSUME TInv, TInv', OInv, Outcome, Walked, WInv, NEW n \in Node, VisitWaits(n)
  PROVE  WInv'
<1> DEFINE R == NotReady(n)
<1>0. /\ Visit(n) /\ waitingSE' = waitingSE /\ pc' = pc /\ task' = task
      /\ state' = [state EXCEPT ![n] = PENDING]
      /\ waitingParents' = [c \in Node |-> IF c \in R THEN waitingParents[c] \cup {n}
                                           ELSE waitingParents[c]]
      /\ refCount' = [refCount EXCEPT ![n] =
           @ + Cardinality({c \in R : n \notin waitingParents[c]})]
      /\ pendingChildren' = pendingChildren \cup {c \in R : c = n \/ state[c] = PENDING}
      /\ R # {}
  BY DEF VisitWaits
<1>1. /\ pc = "next" /\ ~stopped /\ state[n] \in {NO_STATE, PENDING}
      /\ ~IsSideEffect(n)
      /\ UNCHANGED <<project, stopped, interrupted, status>> /\ Out' = Out
      /\ Children(n) \in SUBSET Node
      /\ \A c \in Children(n) : ~IsSideEffect(c)
      /\ ToSet(topsLeft') \subseteq ToSet(topsLeft)
      /\ ToSet(topsLeft) \subseteq ToSet(topsLeft') \cup {n}
      /\ \A x \in ToSet(candidates') : x \in ToSet(candidates) \/ x \in Children(n)
      /\ \A x \in ToSet(candidates) : x = n \/ x \in ToSet(candidates')
      /\ \A c \in Children(n) : c # n /\ state[c] = NO_STATE => c \in ToSet(candidates')
  BY <1>0, Looked
<1>2. /\ R \subseteq Node /\ R \subseteq Children(n)
      /\ \A c \in R : c = n \/ state[c] \in {NO_STATE, PENDING, EXECUTING}
  BY <1>1, StateOrder DEF NotReady
<1>3. /\ \A c \in Node : waitingParents'[c] = IF c \in R THEN waitingParents[c] \cup {n}
                                              ELSE waitingParents[c]
      /\ \A m \in Node : state'[m] = IF m = n THEN PENDING ELSE state[m]
      /\ \A p \in Node : p # n => refCount'[p] = refCount[p]
      /\ refCount'[n] = refCount[n] + Cardinality({c \in R : n \notin waitingParents[c]})
  BY <1>0 DEF TInv, TypeOK
<1>4. \A x \in Node : Waits(x)' = IF x = n THEN Waits(n) \cup R ELSE Waits(x)
  BY <1>2, <1>3 DEF Waits, WaitsIn
<1>4a. (\A x \in Node : Lost(x) => Lost(x)') /\ KidsSeen' /\ Explained'
  BY <1>0, <1>1, <1>3, LookedKept, StatesApart
<1> HIDE DEF R
<1>5. Counts'
  <2> SUFFICES ASSUME NEW p \in Node
               PROVE  refCount'[p] = Cardinality(Waits(p)')
    BY DEF Counts
  <2>1. CASE p # n
    BY <1>3, <1>4, <2>1 DEF WInv, Counts
  <2>2. CASE p = n
    <3>1. {c \in R : n \notin waitingParents[c]} = R \ Waits(n)
      BY <1>2 DEF Waits, WaitsIn
    <3>2. Waits(n) \in SUBSET Node /\ R \in SUBSET Node
      BY <1>2 DEF Waits, WaitsIn
    <3>3. Cardinality(Waits(n) \cup R) = Cardinality(Waits(n)) + Cardinality(R \ Waits(n))
      BY <3>2, CountMore
    <3> QED
      BY <1>3, <1>4, <2>2, <3>1, <3>3 DEF WInv, Counts
  <2> QED
    BY <2>1, <2>2
<1>6. PendingAwaited'
  <2> SUFFICES ASSUME NEW x \in Node, x \in pendingChildren'
               PROVE  /\ waitingParents'[x] # {}
                      /\ state'[x] \in {PENDING, EXECUTING} \/ Lost(x)'
    BY DEF PendingAwaited, TInv, TypeOK
  <2>1. CASE x \in pendingChildren
    BY <1>1, <1>3, <1>4a, <2>1 DEF WInv, PendingAwaited, InTask
  <2>2. CASE x \in R /\ (x = n \/ state[x] = PENDING)
    BY <1>3, <2>2
  <2> QED
    BY <1>0, <2>1, <2>2
<1>7. SideEffectsAside'
  <2> SUFFICES ASSUME NEW s \in Node, IsSideEffect(s)
               PROVE  /\ s \notin ToSet(candidates') \cup ToSet(topsLeft') \cup pendingChildren'
                      /\ state'[s] \in {NO_STATE, EXECUTING}
                      /\ waitingParents'[s] = {} /\ Waits(s)' = {}
                      /\ \A x \in Node : s \notin waitingSE'[x]
                      /\ pc' # "prepare"
    BY <1>1, SameNames DEF SideEffectsAside
  <2>1. /\ s \notin ToSet(candidates) \cup ToSet(topsLeft) \cup pendingChildren
        /\ state[s] \in {NO_STATE, EXECUTING}
        /\ waitingParents[s] = {} /\ Waits(s) = {}
        /\ \A x \in Node : s \notin waitingSE[x]
    BY DEF WInv, SideEffectsAside
  <2>2. s # n /\ s \notin Children(n) /\ s \notin R
    BY <1>1, <1>2
  <2> QED
    BY <1>0, <1>1, <1>3, <1>4, <2>1, <2>2
<1>8. ExecutingOwned'
  BY <1>0, <1>1, <1>3, SameNames, StatesApart DEF WInv, ExecutingOwned
<1>9. NotWaiting'
  BY <1>3, <1>4, StatesApart DEF WInv, NotWaiting
<1>10. Reasons'
  <2> SUFFICES ASSUME NEW x \in Node, x \in Due'
               PROVE  Reason(x)'
    BY DEF Reasons, Due
  <2>1. CASE x = n
    BY <1>0, <1>4, <2>1 DEF Reason
  <2>2. CASE x # n /\ x \in Due
    <3>1. Reason(x)
      BY <2>2 DEF WInv, Reasons
    <3>2. \A s \in Node : state[s] = EXECUTING => state'[s] = EXECUTING
      BY <1>1, <1>3, StatesApart
    <3> QED
      BY <1>0, <1>1, <1>3, <1>4a, <1>4, <2>2, <3>1, <3>2, SameNames DEF Reason, InTask
  <2>3. CASE x # n /\ x \notin Due
    <3>1. x \in R
      BY <1>0, <1>1, <1>3, <2>3 DEF Due
    <3>2. state[x] # PENDING
      BY <1>1, <2>3 DEF Due
    <3>3. state[x] = NO_STATE \/ state[x] = EXECUTING
      BY <1>2, <2>3, <3>1, <3>2
    <3> QED
      BY <1>1, <1>2, <1>3, <2>3, <3>1, <3>3 DEF Reason
  <2> QED
    BY <2>1, <2>2, <2>3
<1>11. CyclesSeen'
  <2> SUFFICES ASSUME NEW S \in SUBSET Node, S # {},
                      \A p \in S : Waits(p)' \cap S # {}
               PROVE  S \cap pendingChildren' # {}
    BY DEF CyclesSeen
  <2>1. CASE n \notin S \/ Waits(n) \cap S # {}
    <3>1. \A p \in S : Waits(p) \cap S # {}
      BY <1>4, <2>1
    <3> QED
      BY <1>0, <1>1, <3>1 DEF WInv, CyclesSeen
  <2>2. CASE n \in S /\ Waits(n) \cap S = {}
    <3>1. PICK c \in S : c \in R
      BY <1>4, <2>2
    <3>2. CASE c = n \/ state[c] = PENDING
      BY <1>0, <3>1, <3>2
    <3>3. CASE c # n /\ state[c] # PENDING
      <4>1. Waits(c) # {}
        BY <1>4, <3>3
      <4>2. state[c] \in {PENDING, FAILED}
        BY <4>1, WaitingStates DEF WInv
      <4> QED
        BY <1>2, <3>1, <3>3, <4>2, StatesApart
    <3> QED
      BY <3>2, <3>3
  <2> QED
    BY <2>1, <2>2
<1>12. TopsSeen'
  <2> SUFFICES ASSUME NEW t \in ToSet(project.tops)
               PROVE  t \in ToSet(topsLeft') \/ state'[t] # NO_STATE
    BY <1>1 DEF TopsSeen, ToSet
  <2>1. t \in Node /\ (t \in ToSet(topsLeft) \/ state[t] # NO_STATE)
    BY TopTypes DEF WInv, TopsSeen
  <2> QED
    BY <1>1, <1>3, <2>1, StatesApart
<1>13. NothingLeft'
  <2>1. \A c : c \in Node => (Settled(c)' <=> Settled(c))
    BY <1>0, <1>1, <1>3, StatesApart DEF Settled
  <2>2. \A m \in Node : Needs(m)' = Needs(m) /\ Needs(m) \in SUBSET Node
    BY <1>1, SameNames, KnownTypes
  <2> QED
    BY <1>1, <2>1, <2>2 DEF WInv, NothingLeft, MadeFromDone
<1> QED
  BY <1>4a, <1>5, <1>6, <1>7, <1>8, <1>9, <1>10, <1>11, <1>12, <1>13 DEF WInv

LEMMA VisitHeldTraced ==
  ASSUME TInv, TInv', OInv, Outcome, Walked, WInv, NEW n \in Node, VisitSideEffectHeld(n)
  PROVE  WInv'
<1> DEFINE H == SideEffectsHeld(n)
<1>0. /\ Visit(n) /\ pc' = pc /\ task' = task
      /\ state' = [state EXCEPT ![n] = PENDING]
      /\ waitingSE' = [s \in Node |-> IF s \in H THEN waitingSE[s] \cup {n} ELSE waitingSE[s]]
      /\ UNCHANGED <<waitingParents, refCount, pendingChildren>>
      /\ H # {}
  BY DEF VisitSideEffectHeld
<1>1. /\ pc = "next" /\ ~stopped /\ state[n] \in {NO_STATE, PENDING}
      /\ ~IsSideEffect(n)
      /\ UNCHANGED <<project, stopped, interrupted, status>> /\ Out' = Out
      /\ Children(n) \in SUBSET Node
      /\ \A c \in Children(n) : ~IsSideEffect(c)
      /\ ToSet(topsLeft') \subseteq ToSet(topsLeft)
      /\ ToSet(topsLeft) \subseteq ToSet(topsLeft') \cup {n}
      /\ \A x \in ToSet(candidates') : x \in ToSet(candidates) \/ x \in Children(n)
      /\ \A x \in ToSet(candidates) : x = n \/ x \in ToSet(candidates')
      /\ \A c \in Children(n) : c # n /\ state[c] = NO_STATE => c \in ToSet(candidates')
  BY <1>0, Looked
<1>2. \A s \in H : s \in Node /\ IsSideEffect(s) /\ state[s] = EXECUTING
  <2>1. ActionTargets(n) \in SUBSET Node
    BY Groups DEF ActionTargets, TInv
  <2> QED
    BY <2>1, SideEffectTypes DEF SideEffectsHeld, SideEffects, IsSideEffect, TInv
<1>3. /\ \A m \in Node : state'[m] = IF m = n THEN PENDING ELSE state[m]
      /\ \A s \in Node : waitingSE'[s] = IF s \in H THEN waitingSE[s] \cup {n} ELSE waitingSE[s]
      /\ \A x : Waits(x)' = Waits(x)
  BY <1>0 DEF TInv, TypeOK, Waits, WaitsIn
<1>4a. (\A x \in Node : Lost(x) => Lost(x)') /\ KidsSeen' /\ Explained'
  BY <1>0, <1>1, <1>3, LookedKept, StatesApart
<1> HIDE DEF H
<1>5. Counts'
  BY <1>0, <1>3 DEF WInv, Counts
<1>6. PendingAwaited'
  <2> SUFFICES ASSUME NEW x \in Node, x \in pendingChildren
               PROVE  /\ waitingParents[x] # {}
                      /\ state'[x] \in {PENDING, EXECUTING} \/ Lost(x)'
    BY <1>0 DEF PendingAwaited, TInv, TypeOK
  <2> QED
    BY <1>1, <1>3, <1>4a DEF WInv, PendingAwaited, InTask
<1>7. SideEffectsAside'
  <2> SUFFICES ASSUME NEW s \in Node, IsSideEffect(s)
               PROVE  /\ s \notin ToSet(candidates') \cup ToSet(topsLeft') \cup pendingChildren'
                      /\ state'[s] \in {NO_STATE, EXECUTING}
                      /\ waitingParents'[s] = {} /\ Waits(s)' = {}
                      /\ \A x \in Node : s \notin waitingSE'[x]
                      /\ pc' # "prepare"
    BY <1>1, SameNames DEF SideEffectsAside
  <2>1. /\ s \notin ToSet(candidates) \cup ToSet(topsLeft) \cup pendingChildren
        /\ state[s] \in {NO_STATE, EXECUTING}
        /\ waitingParents[s] = {} /\ Waits(s) = {}
        /\ \A x \in Node : s \notin waitingSE[x]
    BY DEF WInv, SideEffectsAside
  <2>2. s # n /\ s \notin Children(n)
    BY <1>1
  <2> QED
    BY <1>0, <1>1, <1>3, <2>1, <2>2
<1>8. ExecutingOwned'
  BY <1>0, <1>1, <1>3, SameNames, StatesApart DEF WInv, ExecutingOwned
<1>9. NotWaiting'
  BY <1>3, StatesApart DEF WInv, NotWaiting
<1>10. Reasons'
  <2> SUFFICES ASSUME NEW x \in Node, x \in Due'
               PROVE  Reason(x)'
    BY DEF Reasons, Due
  <2>0. \A s \in Node : state[s] = EXECUTING => state'[s] = EXECUTING
    BY <1>1, <1>3, StatesApart
  <2>1. CASE x = n
    <3>1. PICK s \in H : TRUE
      BY <1>0
    <3>2. s \in Node /\ IsSideEffect(s) /\ state'[s] = EXECUTING /\ n \in waitingSE'[s]
      BY <1>2, <1>3, <2>0, <3>1
    <3> QED
      BY <1>1, <2>1, <3>2, SameNames DEF Reason
  <2>2. CASE x # n
    <3>1. Reason(x)
      BY <1>0, <1>1, <1>3, <2>2 DEF Due, WInv, Reasons
    <3> QED
      BY <1>0, <1>1, <1>3, <1>4a, <2>0, <2>2, <3>1, SameNames DEF Reason, InTask
  <2> QED
    BY <2>1, <2>2
<1>11. CyclesSeen'
  BY <1>0, <1>1, <1>3 DEF WInv, CyclesSeen
<1>12. TopsSeen'
  <2> SUFFICES ASSUME NEW t \in ToSet(project.tops)
               PROVE  t \in ToSet(topsLeft') \/ state'[t] # NO_STATE
    BY <1>1 DEF TopsSeen, ToSet
  <2>1. t \in Node /\ (t \in ToSet(topsLeft) \/ state[t] # NO_STATE)
    BY TopTypes DEF WInv, TopsSeen
  <2> QED
    BY <1>1, <1>3, <2>1, StatesApart
<1>13. NothingLeft'
  <2>1. \A c : c \in Node => (Settled(c)' <=> Settled(c))
    BY <1>0, <1>1, <1>3, StatesApart DEF Settled
  <2>2. \A m \in Node : Needs(m)' = Needs(m) /\ Needs(m) \in SUBSET Node
    BY <1>1, SameNames, KnownTypes
  <2> QED
    BY <1>1, <2>1, <2>2 DEF WInv, NothingLeft, MadeFromDone
<1> QED
  BY <1>4a, <1>5, <1>6, <1>7, <1>8, <1>9, <1>10, <1>11, <1>12, <1>13 DEF WInv

\* With -k, a node with a failed child fails too, or is left pending
LEMMA VisitFailedTraced ==
  ASSUME TInv, TInv', OInv, Outcome, Walked, WInv, NEW n \in Node, VisitFailedChildren(n)
  PROVE  WInv'
<1>0. /\ Visit(n) /\ AnyFailed(n) /\ pc' = pc /\ task' = task
      /\ state' = [m \in Node |-> IF m \in ActionTargets(n) THEN FAILED
                                  ELSE IF m = n THEN PENDING ELSE state[m]]
      /\ UNCHANGED <<waitingParents, waitingSE, refCount, pendingChildren>>
  BY DEF VisitFailedChildren
<1>1. /\ pc = "next" /\ ~stopped /\ state[n] \in {NO_STATE, PENDING}
      /\ ~IsSideEffect(n)
      /\ UNCHANGED <<project, stopped, interrupted, status>> /\ Out' = Out
      /\ Children(n) \in SUBSET Node
      /\ \A c \in Children(n) : ~IsSideEffect(c)
      /\ ToSet(topsLeft') \subseteq ToSet(topsLeft)
      /\ ToSet(topsLeft) \subseteq ToSet(topsLeft') \cup {n}
      /\ \A x \in ToSet(candidates') : x \in ToSet(candidates) \/ x \in Children(n)
      /\ \A x \in ToSet(candidates) : x = n \/ x \in ToSet(candidates')
  BY <1>0, Looked
<1>2. PICK c \in Children(n) : state[c] = FAILED
  BY <1>0 DEF AnyFailed
<1>3. c \in Node /\ c \in Needs(n) /\ project.policy = "keep" /\ status # "ok"
  BY <1>0, <1>1, <1>2, ChildrenNeeded, FailedKeeps DEF Outcome
<1>4. \A t \in Group(n) : /\ t \in Node /\ ~IsSideEffect(t) /\ state[t] # EXECUTING
                            /\ Lost(t) /\ (interrupted \/ Tainted(t))
  <2>1. Lost(c) /\ (interrupted \/ Tainted(c))
    BY <1>2, <1>3, ItselfLost DEF WInv, Explained
  <2> SUFFICES ASSUME NEW t \in Group(n)
               PROVE  /\ t \in Node /\ ~IsSideEffect(t) /\ state[t] # EXECUTING
                      /\ Lost(t) /\ (interrupted \/ Tainted(t))
    OBVIOUS
  <2>2. t \in Node /\ c \in Needs(t)
    BY <1>3, NeedsShared DEF TInv
  <2>3. ~IsSideEffect(t) /\ state[t] # EXECUTING
    <3>1. state[n] <= PENDING
      BY <1>0 DEF Visit
    <3> QED
      BY <1>1, <3>1, LookedAt, GroupAside
  <2> QED
    BY <2>1, <2>2, <2>3, BelowLost
<1>5. /\ n \in Group(n) /\ state'[n] \in {FAILED, PENDING}
      /\ \A m \in Node : \/ state'[m] = state[m]
                         \/ m \in Group(n) /\ state'[m] \in {FAILED, PENDING}
      /\ \A m \in Node : state[m] = FAILED => state'[m] = FAILED
  <2>1. n \in Group(n) /\ state[n] # FAILED
    BY <1>1, Groups, StatesApart DEF TInv
  <2>2. \A m \in ActionTargets(n) : m \in Group(n)
    BY DEF ActionTargets
  <2> QED
    BY <1>0, <2>1, <2>2
<1>6. \A x : Waits(x)' = Waits(x)
  BY <1>0 DEF Waits, WaitsIn
<1>7. (\A x \in Node : Lost(x) => Lost(x)') /\ KidsSeen' /\ Explained'
  <2>1. state'[n] # NO_STATE /\ pc' # "prepare"
    BY <1>0, <1>1, <1>5, StatesApart
  <2>2. \A m \in Node :
           /\ state'[m] = state[m] \/ (m \in Group(n) \cup {n} /\ state'[m] # NO_STATE)
           /\ state[m] = FAILED => state'[m] = FAILED
           /\ state'[m] = FAILED => state[m] = FAILED \/ interrupted \/ Tainted(m)
    BY <1>4, <1>5, StatesApart
  <2> QED
    BY <1>0, <2>1, <2>2, LookedKept
<1>8. Counts'
  BY <1>0, <1>6 DEF WInv, Counts
<1>9. PendingAwaited'
  <2> SUFFICES ASSUME NEW x \in Node, x \in pendingChildren
               PROVE  /\ waitingParents[x] # {}
                      /\ state'[x] \in {PENDING, EXECUTING} \/ Lost(x)'
    BY <1>0 DEF PendingAwaited, TInv, TypeOK
  <2> QED
    BY <1>1, <1>4, <1>5, <1>7 DEF WInv, PendingAwaited, InTask
<1>10. SideEffectsAside'
  <2> SUFFICES ASSUME NEW s \in Node, IsSideEffect(s)
               PROVE  /\ s \notin ToSet(candidates') \cup ToSet(topsLeft') \cup pendingChildren'
                      /\ state'[s] \in {NO_STATE, EXECUTING}
                      /\ waitingParents'[s] = {} /\ Waits(s)' = {}
                      /\ \A x \in Node : s \notin waitingSE'[x]
                      /\ pc' # "prepare"
    BY <1>1, SameNames DEF SideEffectsAside
  <2>1. /\ s \notin ToSet(candidates) \cup ToSet(topsLeft) \cup pendingChildren
        /\ state[s] \in {NO_STATE, EXECUTING}
        /\ waitingParents[s] = {} /\ Waits(s) = {}
        /\ \A x \in Node : s \notin waitingSE[x]
    BY DEF WInv, SideEffectsAside
  <2>2. s \notin Group(n) /\ s \notin Children(n)
    BY <1>1, <1>4
  <2> QED
    BY <1>0, <1>1, <1>5, <1>6, <2>1, <2>2
<1>11. ExecutingOwned'
  BY <1>0, <1>1, <1>5, SameNames, StatesApart DEF WInv, ExecutingOwned
<1>12. NotWaiting'
  BY <1>5, <1>6, StatesApart DEF WInv, NotWaiting
<1>13. Reasons'
  <2> SUFFICES ASSUME NEW x \in Node, x \in Due'
               PROVE  Reason(x)'
    BY DEF Reasons, Due
  <2>1. CASE x \in Group(n)
    BY <1>4, <1>7, <2>1 DEF Reason
  <2>2. CASE x \notin Group(n)
    <3>1. Reason(x)
      BY <1>0, <1>1, <1>5, <2>2 DEF Due, WInv, Reasons
    <3>2. \A s \in Node : state[s] = EXECUTING => state'[s] = EXECUTING
      BY <1>4, <1>5
    <3> QED
      BY <1>0, <1>1, <1>5, <1>6, <1>7, <2>2, <3>1, <3>2, SameNames DEF Reason, InTask
  <2> QED
    BY <2>1, <2>2
<1>14. CyclesSeen'
  BY <1>0, <1>1, <1>6 DEF WInv, CyclesSeen
<1>15. TopsSeen'
  <2> SUFFICES ASSUME NEW t \in ToSet(project.tops)
               PROVE  t \in ToSet(topsLeft') \/ state'[t] # NO_STATE
    BY <1>1 DEF TopsSeen, ToSet
  <2>1. t \in Node /\ (t \in ToSet(topsLeft) \/ state[t] # NO_STATE)
    BY TopTypes DEF WInv, TopsSeen
  <2> QED
    BY <1>1, <1>5, <2>1, StatesApart
<1>16. NothingLeft'
  BY <1>1, <1>3 DEF NothingLeft, MadeFromDone
<1> QED
  BY <1>7, <1>8, <1>9, <1>10, <1>11, <1>12, <1>13, <1>14, <1>15, <1>16 DEF WInv

LEMMA Taken ==
  ASSUME TInv, OInv, Outcome, Walked, WInv, NEW n \in Node, VisitReady(n) \/ VisitScanFails(n)
  PROVE  /\ pc = "next" /\ ~stopped /\ state[n] \in {NO_STATE, PENDING}
         /\ ~IsSideEffect(n)
         /\ UNCHANGED <<project, stopped, status, interrupted>> /\ Out' = Out
         /\ ToSet(topsLeft') \subseteq ToSet(topsLeft)
         /\ ToSet(topsLeft) \subseteq ToSet(topsLeft') \cup {n}
         /\ \A x \in ToSet(candidates') : x \in ToSet(candidates) \/ ~IsSideEffect(x)
         /\ \A x \in ToSet(candidates) : x = n \/ x \in ToSet(candidates')
         /\ ~Fails(n, "scan") =>
              \A c \in Kids(Group(n)) :
                state[c] # NO_STATE \/ c = n \/ c \in ToSet(candidates')
         /\ MakeReady(n)
<1>1. CASE VisitReady(n)
  <2>1. Visit(n) /\ MakeReady(n)
    BY <1>1 DEF VisitReady
  <2>2. Kids(Group(n)) \subseteq Children(n)
    BY <2>1, VisitScans
  <2> QED
    BY <2>1, <2>2, Looked
<1>2. CASE VisitScanFails(n)
  <2>1. /\ pc = "next" /\ HasCandidate /\ n = Candidate /\ Pop /\ state[n] <= PENDING
        /\ candidates' = Rest /\ UNCHANGED poolVars
        /\ UNCHANGED <<project, stopped, status, interrupted>>
        /\ Fails(n, "scan") /\ MakeReady(n)
    BY <1>2 DEF VisitScanFails, ScanFails, Looking
  <2>2. ~stopped
    BY <2>1 DEF HasCandidate
  <2>3. state[n] \in {NO_STATE, PENDING}
    BY <2>1, StateOrder
  <2>4. /\ n \in ToSet(candidates) \cup ToSet(topsLeft)
        /\ ToSet(candidates') \subseteq ToSet(candidates)
        /\ ToSet(candidates) \subseteq ToSet(candidates') \cup {n}
        /\ ToSet(topsLeft') \subseteq ToSet(topsLeft)
        /\ ToSet(topsLeft) \subseteq ToSet(topsLeft') \cup {n}
    BY <2>1, Popped
  <2>5. ~IsSideEffect(n)
    BY <2>4 DEF WInv, SideEffectsAside
  <2> QED
    BY <2>1, <2>2, <2>3, <2>4, <2>5, OutSame
<1> QED
  BY <1>1, <1>2

LEMMA TakenTraced ==
  ASSUME TInv, TInv', OInv, Outcome, Walked, WInv, NEW n \in Node,
         VisitReady(n) \/ VisitScanFails(n)
  PROVE  WInv'
<1>1. /\ pc = "next" /\ ~stopped /\ state[n] \in {NO_STATE, PENDING}
      /\ ~IsSideEffect(n)
      /\ UNCHANGED <<project, stopped, status, interrupted>> /\ Out' = Out
      /\ ToSet(topsLeft') \subseteq ToSet(topsLeft)
      /\ ToSet(topsLeft) \subseteq ToSet(topsLeft') \cup {n}
      /\ \A x \in ToSet(candidates') : x \in ToSet(candidates) \/ ~IsSideEffect(x)
      /\ \A x \in ToSet(candidates) : x = n \/ x \in ToSet(candidates')
      /\ ~Fails(n, "scan") =>
           \A c \in Kids(Group(n)) :
             state[c] # NO_STATE \/ c = n \/ c \in ToSet(candidates')
      /\ MakeReady(n)
  BY Taken
<1>2. /\ pc' = "prepare" /\ task' = n
      /\ UNCHANGED <<waitingParents, waitingSE, refCount, pendingChildren>>
      /\ \A x : Waits(x)' = Waits(x)
      /\ Group(n) \in SUBSET Node /\ n \in Group(n)
  BY <1>1, Groups DEF MakeReady, Waits, WaitsIn, TInv
<1>3. \A x \in Node : IsSideEffect(x) => x \notin Group(n)
  <2> SUFFICES ASSUME NEW x \in Node, IsSideEffect(x), x \in Group(n)
               PROVE  FALSE
    OBVIOUS
  <2>1. x \notin project.builder
    BY ProjectTypes DEF IsSideEffect, WellFormed, TInv
  <2>2. n \notin project.builder
    BY <2>1, Builders DEF TInv
  <2>3. x = n
    BY <2>2, Builders DEF TInv
  <2> QED
    BY <1>1, <2>3
<1>4. \A x \in Node \ Group(n) :
        \/ state'[x] = state[x]
        \/ /\ state'[x] = EXECUTING /\ IsSideEffect(x)
           /\ x \in Writes(n) /\ n \in project.builder
  <2> SUFFICES ASSUME NEW x \in Node \ Group(n), state'[x] # state[x]
               PROVE  /\ state'[x] = EXECUTING /\ IsSideEffect(x)
                      /\ x \in Writes(n) /\ n \in project.builder
    OBVIOUS
  <2>1. Stale(n) /\ x \in SideEffects(Group(n)) /\ state'[x] = EXECUTING
    BY <1>1, <1>2 DEF MakeReady
  <2>2. IsSideEffect(x)
    BY <1>2, <2>1 DEF SideEffects, IsSideEffect
  <2> QED
    BY <2>1, <2>2, Builders DEF Writes, TInv
<1>5. \A x \in Group(n) :
        \/ state'[x] = state[x] \/ state'[x] = PENDING \/ state'[x] = UP_TO_DATE
        \/ state'[x] = EXECUTING /\ n \in project.builder
  BY <1>1, <1>2, Builders DEF MakeReady, TInv
<1>6. state'[n] # NO_STATE
  BY <1>1, <1>2, StatesApart DEF MakeReady
<1>6a. \A x \in Node : Lost(x) => Lost(x)'
  <2>1. \A x \in Node : IsSideEffect(x) => state[x] # FAILED
    BY StatesApart DEF WInv, SideEffectsAside
  <2>2. ASSUME NEW t \in Group(n), state[t] = FAILED
        PROVE  state'[t] = FAILED
    <3>1. t \in Node /\ GivenUp(t)
      BY <1>1, <1>2, <2>2 DEF OInv, FailedGivenUp
    <3>2. Fails(n, "ready")
      BY <3>1, TakenNotGivenUp
    <3>3. t # n
      BY <1>1, <2>2, StatesApart
    <3> QED
      BY <1>1, <2>2, <3>1, <3>2, <3>3 DEF MakeReady
  <2>3. \A m \in Node : state[m] = FAILED => state'[m] = FAILED
    BY <1>4, <2>1, <2>2
  <2> QED
    BY <1>1, <2>3, LostStays
<1>6b. KidsSeen'
  <2>1. \A x \in Node : state'[x] = NO_STATE /\ state[x] # NO_STATE => IsSideEffect(x)
    BY <1>4, <1>5, StatesApart
  <2>2. \A x \in Node : state[x] = NO_STATE /\ state'[x] # NO_STATE =>
                            x \in Group(n) \/ IsSideEffect(x)
    BY <1>4
  <2> QED
    BY <1>1, <1>2, <1>6, <2>1, <2>2, KidsSeenStays DEF WInv, Walked
<1>6c. Explained'
  <2>1. \A x \in Node : state'[x] = FAILED => state[x] = FAILED
    BY <1>4, <1>5, StatesApart
  <2> QED
    BY <1>1, <2>1, ExplainedStays DEF WInv
<1>7. Counts'
  BY <1>2 DEF WInv, Counts
<1>8. PendingAwaited'
  <2> SUFFICES ASSUME NEW x \in Node, x \in pendingChildren
               PROVE  /\ waitingParents[x] # {}
                      /\ state'[x] \in {PENDING, EXECUTING} \/ x \in Group(n) \/ Lost(x)'
    BY <1>1, <1>2, SameNames DEF PendingAwaited, InTask, TInv, TypeOK
  <2>1. waitingParents[x] # {} /\ (state[x] \in {PENDING, EXECUTING} \/ Lost(x))
    BY <1>1 DEF WInv, PendingAwaited, InTask
  <2> QED
    BY <1>4, <1>6a, <2>1
<1>9. SideEffectsAside'
  <2> SUFFICES ASSUME NEW s \in Node, IsSideEffect(s)
               PROVE  /\ s \notin ToSet(candidates') \cup ToSet(topsLeft') \cup pendingChildren'
                      /\ state'[s] \in {NO_STATE, EXECUTING}
                      /\ waitingParents'[s] = {} /\ Waits(s)' = {}
                      /\ \A x \in Node : s \notin waitingSE'[x]
                      /\ s # task'
    BY <1>1, SameNames DEF SideEffectsAside
  <2>1. /\ s \notin ToSet(candidates) \cup ToSet(topsLeft) \cup pendingChildren
        /\ state[s] \in {NO_STATE, EXECUTING}
        /\ waitingParents[s] = {} /\ Waits(s) = {}
        /\ \A x \in Node : s \notin waitingSE[x]
    BY DEF WInv, SideEffectsAside
  <2> QED
    BY <1>1, <1>2, <1>3, <1>4, <2>1
<1>10. ExecutingOwned'
  <2> SUFFICES ASSUME NEW x \in Node, state'[x] = EXECUTING
               PROVE  \E m \in project.builder : x \in Writes(m) /\ (m \in Out \/ m = n)
    BY <1>1, <1>2, SameNames DEF ExecutingOwned
  <2>1. CASE state[x] = EXECUTING
    BY <1>1, <2>1 DEF WInv, ExecutingOwned
  <2>2. CASE state[x] # EXECUTING
    <3>1. x \in Writes(n) /\ n \in project.builder
      BY <1>4, <1>5, <2>2, StatesApart DEF Writes
    <3> QED
      BY <3>1
  <2> QED
    BY <2>1, <2>2
<1>11. NotWaiting'
  <2> SUFFICES ASSUME NEW x \in Node, state'[x] = NO_STATE
               PROVE  Waits(x) = {}
    BY <1>2 DEF NotWaiting
  <2>1. state[x] = NO_STATE
    BY <1>4, <1>5, StatesApart
  <2> QED
    BY <2>1 DEF WInv, NotWaiting
<1>12. Reasons'
  <2> SUFFICES ASSUME NEW x \in Node, x \in Due'
               PROVE  Reason(x)'
    BY DEF Reasons, Due
  <2>1. CASE x \in Group(n)
    BY <1>1, <1>2, <2>1, SameNames DEF Reason, InTask
  <2>2. CASE x \notin Group(n)
    <3>1. state'[x] = PENDING => state[x] = PENDING
      BY <1>4, <2>2, StatesApart
    <3>2. Reason(x)
      BY <1>1, <1>2, <3>1 DEF Due, WInv, Reasons
    <3>3. \A s \in Node : s \notin Group(n) /\ state[s] = EXECUTING => state'[s] = EXECUTING
      BY <1>4
    <3> QED
      BY <1>1, <1>2, <1>3, <1>6a, <2>2, <3>2, <3>3, SameNames DEF Reason, InTask
  <2> QED
    BY <2>1, <2>2
<1>13. CyclesSeen'
  BY <1>1, <1>2 DEF WInv, CyclesSeen
<1>14. TopsSeen'
  <2> SUFFICES ASSUME NEW t \in ToSet(project.tops)
               PROVE  t \in ToSet(topsLeft') \/ state'[t] # NO_STATE
    BY <1>1 DEF TopsSeen, ToSet
  <2>1. t \in Node /\ (t \in ToSet(topsLeft) \/ state[t] # NO_STATE)
    BY TopTypes DEF WInv, TopsSeen
  <2> QED
    BY <1>1, <1>4, <1>5, <1>6, <2>1, StatesApart
<1>15. NothingLeft'
  <2>1. \A c : c \in Node => (Settled(c)' <=> Settled(c))
    <3> SUFFICES ASSUME NEW c \in Node
                 PROVE  Settled(c)' <=> Settled(c)
      OBVIOUS
    <3>1. c \in Group(n) => ~Settled(c) /\ ~Settled(c)'
      BY <1>1, <1>2, LookedAt, SameNames, StateOrder, StatesApart DEF Settled
    <3>2. c \notin Group(n) => (Settled(c)' <=> Settled(c))
      <4> SUFFICES ASSUME c \notin Group(n)
                   PROVE  state'[c] \in Done <=> state[c] \in Done
        BY <1>1, <1>2, SameNames DEF Settled
      <4>1. IsSideEffect(c) => state[c] \notin Done
        BY StatesApart DEF WInv, SideEffectsAside
      <4> QED
        BY <1>4, <4>1, StatesApart
    <3> QED
      BY <3>1, <3>2
  <2>2. \A m \in Node : Needs(m)' = Needs(m) /\ Needs(m) \in SUBSET Node
    BY <1>1, SameNames, KnownTypes
  <2> QED
    BY <1>1, <2>1, <2>2 DEF WInv, NothingLeft, MadeFromDone
<1> QED
  BY <1>6b, <1>6c, <1>7, <1>8, <1>9, <1>10, <1>11, <1>12, <1>13, <1>14, <1>15 DEF WInv

-----------------------------------------------------------------------------
(* A task ends *)

\* The counts stay right, and who waits for nothing more is looked at again
LEMMA Counted ==
  ASSUME TInv, NEW T \in SUBSET Node, NEW st \in [Node -> NO_STATE .. FAILED],
         NEW wp \in [Node -> SUBSET Node], NEW rc \in [Node -> Int],
         NEW pend \in SUBSET Node, Postprocess(T, st, wp, rc, pend),
         \A p \in Node : rc[p] = Cardinality(WaitsIn(wp, p)),
         \A s \in Node : IsSideEffect(s) => wp[s] = {}
  PROVE  /\ \A p \in Node : refCount'[p] = Cardinality(WaitsIn(waitingParents', p))
         /\ \A p \in Node :
              WaitsIn(wp, p) # {} /\ WaitsIn(wp, p) \subseteq T => p \in ToSet(candidates')
         /\ \A s \in SideEffects(T) : \A p \in waitingSE[s] :
              WaitsIn(wp, p) = {} => p \in ToSet(candidates')
         /\ ToSet(candidates) \subseteq ToSet(candidates')
         /\ \A x \in ToSet(candidates') : \/ x \in ToSet(candidates)
                                          \/ \E s \in Node : x \in waitingSE[s]
                                          \/ WaitsIn(wp, x) # {}
<1> DEFINE held == {s \in SideEffects(T) : st[s] = EXECUTING}
           count == [p \in Node |-> Cardinality({c \in T \cup held : p \in wp[c]})]
           kept == {p \in UNION {waitingSE[s] : s \in SideEffects(T)} : rc[p] = 0}
           F == Freed(count, rc)
           W(p) == WaitsIn(wp, p)
<1>0. \A p : W(p) = {c \in Node : p \in wp[c]}
  BY DEF WaitsIn
<1>1. /\ SideEffects(T) \in SUBSET Node
      /\ \A s \in SideEffects(T) : s \in Node /\ IsSideEffect(s)
  <2>1. SideEffects(T) \in SUBSET Node
    BY SideEffectTypes DEF TInv
  <2> QED
    BY <2>1 DEF SideEffects, IsSideEffect
<1>2. /\ waitingParents' = [c \in Node |-> IF c \in T THEN {} ELSE wp[c]]
      /\ refCount' = [p \in Node |-> rc[p] - count[p]]
      /\ \E k \in SetToSeqs(kept), f \in SetToSeqs(F) : candidates' = candidates \o k \o f
  BY DEF Postprocess
<1>3. \A p \in Node : count[p] = Cardinality(W(p) \cap T)
  <2> SUFFICES ASSUME NEW p \in Node
               PROVE  {c \in T \cup held : p \in wp[c]} = W(p) \cap T
    OBVIOUS
  <2> QED
    BY <1>0, <1>1
<1>4. \A p \in Node : WaitsIn(waitingParents', p) = W(p) \ T
  BY <1>2 DEF WaitsIn
<1>5. \A p \in Node : refCount'[p] = Cardinality(WaitsIn(waitingParents', p))
  <2> SUFFICES ASSUME NEW p \in Node
               PROVE  refCount'[p] = Cardinality(W(p) \ T)
    BY <1>4
  <2>1. refCount'[p] = Cardinality(W(p)) - Cardinality(W(p) \cap T)
    BY <1>2, <1>3
  <2>2. W(p) \in SUBSET Node
    BY <1>0
  <2> HIDE DEF W
  <2> QED
    BY <2>1, <2>2, CountLess
<1>6. kept \in SUBSET Node
  BY <1>1 DEF TInv, TypeOK
<1>7. F \in SUBSET Node
  BY DEF Freed
<1>8. PICK k \in SetToSeqs(kept), f \in SetToSeqs(F) : candidates' = candidates \o k \o f
  BY <1>2
<1>9. ToSet(candidates') = ToSet(candidates) \cup kept \cup F
  <2>1. k \in Seq(Node) /\ ToSet(k) = kept
    BY <1>6, OrderSet
  <2>2. f \in Seq(Node) /\ ToSet(f) = F
    BY <1>7, OrderSet
  <2>3. candidates \in Seq(Node)
    BY DEF TInv, TypeOK
  <2>4. candidates \o k \in Seq(Node) /\ ToSet(candidates \o k) = ToSet(candidates) \cup kept
    BY <2>1, <2>3, ConcatSet
  <2>5. ToSet((candidates \o k) \o f) = ToSet(candidates \o k) \cup ToSet(f)
    BY <2>2, <2>4, ConcatSet
  <2> QED
    BY <1>8, <2>2, <2>4, <2>5
<1>10. ASSUME NEW p \in Node, W(p) # {}, W(p) \subseteq T
       PROVE  p \in F
  <2>1. W(p) \in SUBSET Node /\ W(p) # {} /\ W(p) \cap T = W(p)
    BY <1>0, <1>10
  <2>2. count[p] = Cardinality(W(p)) /\ rc[p] = Cardinality(W(p))
    BY <1>3, <2>1
  <2>3. Cardinality(W(p)) \in Nat /\ Cardinality(W(p)) # 0
    <3> HIDE DEF W
    <3> QED
      BY <2>1, NodeSubsets, CountZero
  <2>4. count[p] > 0 /\ rc[p] = count[p]
    BY <2>2, <2>3
  <2> HIDE DEF count
  <2> QED
    BY <2>4 DEF Freed
<1>11. ASSUME NEW p \in F
       PROVE  W(p) # {}
  <2>1. p \in Node /\ count[p] > 0
    BY DEF Freed
  <2>2. Cardinality(W(p) \cap T) > 0
    BY <1>3, <2>1
  <2>3. W(p) \cap T # {}
    <3> DEFINE X == W(p) \cap T
    <3>1. Cardinality(X) > 0
      BY <2>2
    <3>2. X = {} => Cardinality(X) = 0
      BY FS_EmptySet
    <3> QED
      BY <3>1, <3>2
  <2> QED
    BY <2>3
<1>12. ASSUME NEW s \in SideEffects(T), NEW p \in waitingSE[s], W(p) = {}
       PROVE  p \in kept
  <2>1. p \in Node /\ W(p) = {}
    BY <1>1, <1>12 DEF TInv, TypeOK
  <2>2. rc[p] = 0
    BY <2>1, FS_EmptySet
  <2> QED
    BY <2>2
<1>13. \A p \in kept : \E s \in Node : p \in waitingSE[s]
  BY <1>1
<1> QED
  BY <1>5, <1>9, <1>10, <1>11, <1>12, <1>13

LEMMA InHandAside ==
  ASSUME TInv, OInv, SideEffectsAside, NEW n \in Node, InHand(n)
  PROVE  /\ ~IsSideEffect(n)
         /\ \A x : InTask(x) => x \in Group(n)
<1>1. pc = "prepare" => task = n
  BY DEF InHand
<1>2. CASE pc = "prepare"
  BY <1>1, <1>2 DEF SideEffectsAside, InTask
<1>3. CASE pc # "prepare"
  <2>1. n \in project.builder
    BY <1>3, OutKnown DEF InHand, OInv, Running
  <2> QED
    BY <1>3, <2>1, ProjectTypes DEF IsSideEffect, WellFormed, TInv, InTask
<1> QED
  BY <1>2, <1>3

LEMMA ExecutedTraced ==
  ASSUME TInv, TInv', OInv, Walked, WInv, NEW n \in Node, InHand(n), Executed(n), ~Fails(n, "ready"),
         project' = project, interrupted' = interrupted, pc' # "prepare", topsLeft' = topsLeft, waitingSE' = waitingSE,
         Out' = Out \ {n}, ~(project.policy = "ignore" /\ Fails(n, "scan")) =>
                             \A c \in Needs(n) : Settled(c)
  PROVE  WInv'
<1> DEFINE T == Group(n)
           st == ExecutedState(T)
<1>1. /\ Postprocess(T, st, waitingParents, refCount, pendingChildren)
      /\ stopped' = stopped /\ status' = status
  BY DEF Executed
<1>2. /\ T \in SUBSET Node /\ n \in T
      /\ \A x \in T : /\ x \in Node /\ Group(x) = T
                      /\ state[x] \in {EXECUTING, UP_TO_DATE} /\ ~Settled(x)
                      /\ Needs(x) = Needs(n)
      /\ \A x : InTask(x) => x \in T
      /\ \A x \in T : ~IsSideEffect(x)
      /\ \A m \in Node \ T : Group(m) \cap T = {}
      /\ \A m \in Node : m \notin T => m # n
  BY EndStates, InHandAside, GroupAside, NeedsShared DEF WInv, TInv
<1>3. /\ SideEffects(T) \in SUBSET Node
      /\ \A s \in SideEffects(T) : IsSideEffect(s) /\ s \notin T
  BY <1>2, SideEffectTypes DEF SideEffects, IsSideEffect, TInv
<1>4. /\ \A p \in Node : refCount[p] = Cardinality(WaitsIn(waitingParents, p))
      /\ \A s \in Node : IsSideEffect(s) => waitingParents[s] = {}
      /\ waitingParents \in [Node -> SUBSET Node] /\ refCount \in [Node -> Int]
      /\ pendingChildren \in SUBSET Node
  BY DEF WInv, Counts, Waits, SideEffectsAside, TInv, TypeOK
<1>4a. st \in [Node -> NO_STATE .. FAILED]
  BY DEF ExecutedState, TInv, TypeOK, NO_STATE, EXECUTED, FAILED
<1>5. /\ \A p \in Node : refCount'[p] = Cardinality(WaitsIn(waitingParents', p))
      /\ \A p \in Node :
           WaitsIn(waitingParents, p) # {} /\ WaitsIn(waitingParents, p) \subseteq T
             => p \in ToSet(candidates')
      /\ \A s \in SideEffects(T) : \A p \in waitingSE[s] :
           WaitsIn(waitingParents, p) = {} => p \in ToSet(candidates')
      /\ ToSet(candidates) \subseteq ToSet(candidates')
      /\ \A x \in ToSet(candidates') : \/ x \in ToSet(candidates)
                                       \/ \E s \in Node : x \in waitingSE[s]
                                       \/ WaitsIn(waitingParents, x) # {}
  <2> HIDE DEF T, st
  <2>1. T \in SUBSET Node
    BY <1>2
  <2> QED
    BY ONLY TInv, <1>1, <1>4, <1>4a, <2>1, Counted
<1>6. /\ \A c \in Node : waitingParents'[c] = IF c \in T THEN {} ELSE waitingParents[c]
      /\ pendingChildren' = pendingChildren \ {t \in T : waitingParents[t] # {}}
      /\ \A x \in Node : Waits(x)' = Waits(x) \ T
  BY <1>1 DEF Postprocess, Waits, WaitsIn
<1>7. \A x \in pendingChildren : x \in Node /\ waitingParents[x] # {}
  BY DEF WInv, PendingAwaited, TInv, TypeOK
<1>8. pendingChildren' = pendingChildren \ T
  BY <1>6, <1>7
<1>9. \A x \in Node :
        state'[x] = IF x \in T THEN IF state[x] = EXECUTING THEN EXECUTED ELSE state[x]
                    ELSE IF x \in SideEffects(T) THEN NO_STATE ELSE state[x]
  <2> SUFFICES ASSUME NEW x \in Node
               PROVE  state'[x] =
                        IF x \in T THEN IF state[x] = EXECUTING THEN EXECUTED ELSE state[x]
                        ELSE IF x \in SideEffects(T) THEN NO_STATE ELSE state[x]
    OBVIOUS
  <2>1. state'[x] = IF x \in SideEffects(T) /\ st[x] = EXECUTING THEN NO_STATE ELSE st[x]
    BY <1>1 DEF Postprocess
  <2>2. st[x] = IF x \in T /\ state[x] = EXECUTING THEN EXECUTED
                ELSE IF \E t \in T : state[t] = EXECUTING /\ x \in project.se[t]
                     THEN NO_STATE ELSE state[x]
    BY DEF ExecutedState
  <2>3. CASE x \in T
    <3>1. x \notin SideEffects(T) /\ \A t \in T : x \notin project.se[t]
      BY <1>3, <2>3 DEF SideEffects
    <3> QED
      BY <2>1, <2>2, <2>3, <3>1
  <2>4. CASE x \notin T /\ x \in SideEffects(T)
    <3>1. state[x] \in {NO_STATE, EXECUTING}
      BY <1>3, <2>4 DEF WInv, SideEffectsAside
    <3> QED
      BY <2>1, <2>2, <2>4, <3>1
  <2>5. CASE x \notin T /\ x \notin SideEffects(T)
    <3>1. \A t \in T : x \notin project.se[t]
      BY <2>5 DEF SideEffects
    <3> QED
      BY <2>1, <2>2, <2>5, <3>1
  <2> QED
    BY <2>3, <2>4, <2>5
<1> HIDE DEF T, st
<1>10. \A x \in T : state'[x] \in Done
  BY <1>2, <1>9, StatesApart
<1>10a. \A x \in Node : Lost(x) => Lost(x)'
  <2>1. \A x \in Node : state[x] = FAILED => state'[x] = FAILED
    BY <1>2, <1>3, <1>9, StatesApart DEF WInv, SideEffectsAside
  <2> QED
    BY <2>1, LostStays
<1>10b. Explained'
  <2>1. \A x \in Node : state'[x] = FAILED => state[x] = FAILED
    BY <1>9, <1>10, StatesApart
  <2> QED
    BY <2>1, ExplainedStays DEF WInv
<1>10c. KidsSeen'
  <2>1. \A x \in Node : state'[x] = NO_STATE /\ state[x] # NO_STATE => IsSideEffect(x)
    BY <1>3, <1>9, <1>10, StatesApart
  <2>2. \A x \in Node : state[x] = NO_STATE /\ state'[x] # NO_STATE => x \in T
    BY <1>9
  <2>3. state[n] # NO_STATE /\ state'[n] # NO_STATE
    BY <1>2, <1>10, StatesApart
  <2>4. ~stopped /\ ~Fails(n, "scan") =>
          \A c \in Kids(T) : state[c] # NO_STATE \/ c = n \/ c \in ToSet(candidates')
    BY <1>2, <1>5, <2>3 DEF WInv, KidsSeen, T
  <2>5. CASE stopped
    BY <1>1, <2>5 DEF KidsSeen
  <2>6. CASE ~stopped
    BY <1>1, <1>5, <2>1, <2>2, <2>3, <2>4, <2>6, KidsSeenStays DEF WInv, Walked, T
  <2> QED
    BY <2>5, <2>6
<1>11. Counts'
  BY <1>5 DEF Counts, Waits, WaitsIn
<1>12. PendingAwaited'
  <2> SUFFICES ASSUME NEW x \in Node, x \in pendingChildren, x \notin T
               PROVE  /\ waitingParents'[x] # {}
                      /\ state'[x] \in {PENDING, EXECUTING} \/ Lost(x)'
    BY <1>7, <1>8 DEF PendingAwaited
  <2>1. waitingParents[x] # {} /\ (state[x] \in {PENDING, EXECUTING} \/ Lost(x))
    BY <1>2 DEF WInv, PendingAwaited
  <2>2. x \notin SideEffects(T)
    BY <1>3, <1>4, <2>1
  <2> QED
    BY <1>6, <1>9, <1>10a, <2>1, <2>2
<1>13. SideEffectsAside'
  <2> SUFFICES ASSUME NEW s \in Node, IsSideEffect(s)
               PROVE  /\ s \notin ToSet(candidates') \cup ToSet(topsLeft') \cup pendingChildren'
                      /\ state'[s] \in {NO_STATE, EXECUTING}
                      /\ waitingParents'[s] = {} /\ Waits(s)' = {}
                      /\ \A x \in Node : s \notin waitingSE'[x]
    BY SameNames DEF SideEffectsAside
  <2>1. /\ s \notin ToSet(candidates) \cup ToSet(topsLeft) \cup pendingChildren
        /\ state[s] \in {NO_STATE, EXECUTING}
        /\ waitingParents[s] = {} /\ Waits(s) = {}
        /\ \A x \in Node : s \notin waitingSE[x]
    BY DEF WInv, SideEffectsAside
  <2>2. s \notin ToSet(candidates')
    BY <1>5, <2>1 DEF Waits, WaitsIn
  <2>3. s \notin T
    BY <1>2
  <2> QED
    BY <1>6, <1>8, <1>9, <2>1, <2>2, <2>3
<1>14. ExecutingOwned'
  <2> SUFFICES ASSUME NEW x \in Node, state'[x] = EXECUTING
               PROVE  \E m \in project.builder : x \in Writes(m) /\ m \in Out'
    BY SameNames DEF ExecutingOwned
  <2>1. x \notin T /\ x \notin SideEffects(T) /\ state[x] = EXECUTING
    BY <1>9, <1>10, StatesApart
  <2>2. PICK m \in project.builder :
          x \in Writes(m) /\ (m \in Out \/ (pc = "prepare" /\ task = m))
    BY <2>1 DEF WInv, ExecutingOwned
  <2>3. m # n
    BY <2>1, <2>2 DEF Writes, T
  <2>4. m \in Out
    BY <2>2, <2>3 DEF InHand
  <2> QED
    BY <2>2, <2>3, <2>4
<1>15. NotWaiting'
  <2> SUFFICES ASSUME NEW x \in Node, state'[x] = NO_STATE
               PROVE  Waits(x)' = {}
    BY DEF NotWaiting
  <2>1. x \in SideEffects(T) \/ state[x] = NO_STATE
    BY <1>9, StatesApart
  <2>2. Waits(x) = {}
    BY <1>3, <2>1 DEF WInv, SideEffectsAside, NotWaiting
  <2> QED
    BY <1>6, <2>2
<1>16. Reasons'
  <2> SUFFICES ASSUME NEW x \in Node, x \in Due'
               PROVE  Reason(x)'
    BY DEF Reasons, Due
  <2>1. x \notin T
    <3>1. x \in T => x \notin pendingChildren' /\ waitingParents'[x] = {} /\ state'[x] # PENDING
      BY <1>6, <1>8, <1>10, StatesApart
    <3> QED
      BY <3>1 DEF Due
  <2>2. x \in Due
    BY <1>1, <1>6, <1>8, <1>9, <2>1, StatesApart DEF Due
  <2>3. x \notin SideEffects(T)
    <3>1. x \in SideEffects(T) =>
            x \notin pendingChildren' /\ waitingParents'[x] = {} /\ state'[x] # PENDING
      BY <1>3, <1>6, <1>7, <1>8, <1>9, <2>1, StatesApart DEF WInv, SideEffectsAside
    <3> QED
      BY <3>1 DEF Due
  <2>4. Reason(x)
    BY <2>2 DEF WInv, Reasons
  <2>5. CASE Waits(x) # {}
    <3>1. CASE Waits(x) \subseteq T
      <4>1. x \in ToSet(candidates')
        BY <1>2, <1>5, <2>5, <3>1 DEF Waits, WaitsIn
      <4> QED
        BY <4>1 DEF Reason
    <3>2. CASE ~(Waits(x) \subseteq T)
      BY <1>6, <3>2 DEF Reason
    <3> QED
      BY <3>1, <3>2
  <2>6. CASE x \in ToSet(candidates)
    BY <1>5, <2>6 DEF Reason
  <2>7. CASE state[x] = EXECUTING
    BY <1>9, <2>1, <2>3, <2>7 DEF Reason
  <2>8. CASE Waits(x) = {} /\ \E s \in Node : /\ IsSideEffect(s) /\ x \in waitingSE[s]
                                              /\ state[s] = EXECUTING
    <3>1. PICK s \in Node : IsSideEffect(s) /\ x \in waitingSE[s] /\ state[s] = EXECUTING
      BY <2>8
    <3>2. CASE s \in SideEffects(T)
      <4>1. x \in ToSet(candidates')
        BY <1>5, <2>8, <3>1, <3>2 DEF Waits, WaitsIn
      <4> QED
        BY <4>1 DEF Reason
    <3>3. CASE s \notin SideEffects(T)
      <4>1. state'[s] = EXECUTING
        BY <1>2, <1>9, <3>1, <3>3
      <4> QED
        BY <3>1, <4>1, SameNames DEF Reason
    <3> QED
      BY <3>2, <3>3
  <2>9. CASE Lost(x)
    BY <1>10a, <2>9 DEF Reason
  <2> QED
    BY <1>2, <2>1, <2>4, <2>5, <2>6, <2>7, <2>8, <2>9 DEF Reason
<1>17. CyclesSeen'
  <2> SUFFICES ASSUME NEW S \in SUBSET Node, S # {}, ~stopped,
                      \A p \in S : Waits(p)' \cap S # {}
               PROVE  S \cap pendingChildren' # {}
    BY <1>1 DEF CyclesSeen
  <2>1. \A p \in S : Waits(p) \cap S # {}
    BY <1>6
  <2>2. S \cap pendingChildren # {}
    BY <2>1 DEF WInv, CyclesSeen
  <2>3. \A p \in S : p \notin T
    <3> SUFFICES ASSUME NEW p \in S, p \in T
                 PROVE  FALSE
      OBVIOUS
    <3>1. Waits(p) # {}
      BY <2>1
    <3>2. state[p] \in {PENDING, FAILED}
      BY <3>1, WaitingStates DEF WInv
    <3> QED
      BY <1>2, <3>2, StatesApart
  <2> QED
    BY <1>8, <2>2, <2>3
<1>18. TopsSeen'
  <2> SUFFICES ASSUME NEW t \in ToSet(project.tops)
               PROVE  t \in ToSet(topsLeft) \/ state'[t] # NO_STATE
    BY DEF TopsSeen, ToSet
  <2>1. t \in Node /\ (t \in ToSet(topsLeft) \/ state[t] # NO_STATE)
    BY TopTypes DEF WInv, TopsSeen
  <2>2. t \notin SideEffects(T)
    BY <1>3, <2>1 DEF Walked, SideEffectsUnused
  <2> QED
    BY <1>9, <1>10, <2>1, <2>2, StatesApart
<1>19. NothingLeft'
  <2>1. \A c \in Node : Settled(c)' <=> Settled(c) \/ c \in T
    <3> SUFFICES ASSUME NEW c \in Node
                 PROVE  Settled(c)' <=> Settled(c) \/ c \in T
      OBVIOUS
    <3>1. CASE c \in T
      BY <1>10, <3>1 DEF Settled
    <3>2. CASE c \notin T
      <4>1. ~(pc = "prepare" /\ c \in Group(task))
        BY <1>2, <3>2 DEF InTask
      <4>2. c \in SideEffects(T) => state[c] \notin Done
        BY <1>3, StatesApart DEF WInv, SideEffectsAside
      <4> QED
        BY <1>9, <3>2, <4>1, <4>2, StatesApart DEF Settled
    <3> QED
      BY <3>1, <3>2
  <2>2. \A m \in Node : Needs(m)' = Needs(m) /\ Needs(m) \in SUBSET Node
    BY SameNames, KnownTypes
  <2> SUFFICES ASSUME status = "ok",
                      project.policy = "ignore" => \A m \in Node : project.bad[m] # "scan",
                      NEW m \in Node, Settled(m)', NEW c \in Needs(m)
               PROVE  Settled(c)'
    BY <1>1, <2>2 DEF NothingLeft, MadeFromDone
  <2>3. CASE Settled(m)
    BY <2>1, <2>2, <2>3 DEF WInv, NothingLeft, MadeFromDone
  <2>4. CASE m \in T
    <3>1. ~(project.policy = "ignore" /\ Fails(n, "scan"))
      BY <1>2 DEF Fails, T
    <3>2. c \in Node /\ Settled(c)
      BY <1>2, <2>2, <2>4, <3>1
    <3> QED
      BY <2>1, <3>2
  <2> QED
    BY <2>1, <2>3, <2>4
<1> QED
  BY <1>10b, <1>10c, <1>11, <1>12, <1>13, <1>14, <1>15, <1>16, <1>17, <1>18, <1>19 DEF WInv

\* A failure that ends the walk: what waits for the failed node fails with it
LEMMA FailedStopsTraced ==
  ASSUME TInv, TInv', OInv, Walked, Troubled, WInv, NEW n \in Node, InHand(n), Failed(n),
         project.policy = "stop", currentTop \in Node,
         project' = project, interrupted' = interrupted, pc' # "prepare", topsLeft' = topsLeft, waitingSE' = waitingSE,
         Out' = Out \ {n}
  PROVE  WInv'
<1> DEFINE T == Group(n)
           D == Doomed(T)
           U == {currentTop}
           st == FailedState(T)
           fp == FlushedParents(T)
           fc == FlushedCount(T)
           pend == pendingChildren \ D
<1>1. \A m \in Node : project.se[m] = {}
  BY StopsTheWalk
<1>2. /\ Postprocess(U, st, fp, fc, pend)
      /\ stopped' /\ status' = "failed"
  BY DEF Failed
<1>3. /\ T \in SUBSET Node /\ n \in T /\ \A x : InTask(x) => x \in T
  BY Groups, InHandAside DEF WInv, TInv
<1>4. /\ D \in SUBSET Node /\ T \subseteq D
      /\ \A c \in D : waitingParents[c] \subseteq D
  <2>1. waitingParents \in [Node -> SUBSET Node]
    BY DEF TInv, TypeOK
  <2> QED
    BY <1>3, <2>1, Closures, ClosureContains, ClosureClosed DEF Doomed
<1>5. \A s \in Node : ~IsSideEffect(s)
  BY <1>1 DEF IsSideEffect
<1>6. SideEffects(U) = {} /\ \A m \in Node : SideEffects(Group(m)) = {}
  BY <1>1, Groups DEF SideEffects, TInv
<1>7. /\ st \in [Node -> NO_STATE .. FAILED]
      /\ fp \in [Node -> SUBSET Node] /\ fc \in [Node -> Int] /\ pend \in SUBSET Node
  BY <1>3, FlushedTypes DEF TInv, TypeOK
<1>8. /\ \A c \in Node : fp[c] = IF c \in D THEN {} ELSE waitingParents[c]
      /\ \A x \in Node : st[x] = IF x \in D THEN FAILED ELSE state[x]
  BY DEF FlushedParents, FailedState
<1>9. \A p \in Node : WaitsIn(fp, p) = Waits(p) \ D
  BY <1>8 DEF Waits, WaitsIn
<1>10. \A p \in Node : fc[p] = Cardinality(WaitsIn(fp, p))
  <2> SUFFICES ASSUME NEW p \in Node
               PROVE  fc[p] = Cardinality(Waits(p) \ D)
    BY <1>9
  <2>1. {c \in D : p \in waitingParents[c]} = Waits(p) \cap D
    BY <1>4 DEF Waits, WaitsIn
  <2>2. fc[p] = refCount[p] - Cardinality(Waits(p) \cap D)
    BY <2>1 DEF FlushedCount
  <2>3. Waits(p) \in SUBSET Node
    BY DEF Waits, WaitsIn
  <2>4. Cardinality(Waits(p) \ D) = Cardinality(Waits(p)) - Cardinality(Waits(p) \cap D)
    BY <2>3, CountLess
  <2> HIDE DEF D, fc
  <2> QED
    BY <2>2, <2>4 DEF WInv, Counts
<1>11. /\ \A p \in Node : refCount'[p] = Cardinality(WaitsIn(waitingParents', p))
       /\ \A p \in Node : WaitsIn(fp, p) # {} /\ WaitsIn(fp, p) \subseteq U => p \in ToSet(candidates')
       /\ ToSet(candidates) \subseteq ToSet(candidates')
  <2>1. U \in SUBSET Node
    BY DEF U
  <2>2. \A s \in Node : IsSideEffect(s) => fp[s] = {}
    BY <1>5
  <2>3. Postprocess(U, st, fp, fc, pend)
    BY <1>2
  <2>4. st \in [Node -> NO_STATE .. FAILED]
    BY <1>7
  <2>5. fp \in [Node -> SUBSET Node]
    BY <1>7
  <2>6. fc \in [Node -> Int]
    BY <1>7
  <2>7. pend \in SUBSET Node
    BY <1>7
  <2>8. \A p \in Node : fc[p] = Cardinality(WaitsIn(fp, p))
    BY <1>10
  <2> HIDE DEF T, D, U, st, fp, fc, pend
  <2>9. /\ \A p \in Node : refCount'[p] = Cardinality(WaitsIn(waitingParents', p))
        /\ \A p \in Node :
             WaitsIn(fp, p) # {} /\ WaitsIn(fp, p) \subseteq U => p \in ToSet(candidates')
        /\ \A s \in SideEffects(U) : \A p \in waitingSE[s] :
             WaitsIn(fp, p) = {} => p \in ToSet(candidates')
        /\ ToSet(candidates) \subseteq ToSet(candidates')
        /\ \A x \in ToSet(candidates') : \/ x \in ToSet(candidates)
                                         \/ \E s \in Node : x \in waitingSE[s]
                                         \/ WaitsIn(fp, x) # {}
    BY ONLY TInv, <2>1, <2>2, <2>3, <2>4, <2>5, <2>6, <2>7, <2>8, Counted
  <2> QED
    BY <2>9
<1>12. /\ \A c \in Node : waitingParents'[c] = IF c = currentTop THEN {} ELSE fp[c]
       /\ pendingChildren' = pend \ {t \in U : fp[t] # {}}
       /\ \A x \in Node : state'[x] = st[x]
  BY <1>2, <1>6 DEF Postprocess
<1> HIDE DEF T, D, U, st, fp, fc
<1>13. \A x \in Node : Waits(x)' = WaitsIn(fp, x) \ U
  BY <1>12 DEF Waits, WaitsIn, U
<1>14. \A x \in Node : x \in pendingChildren' \/ waitingParents'[x] # {} =>
         /\ x \notin D /\ x # currentTop /\ waitingParents'[x] = waitingParents[x]
         /\ x \in pendingChildren \/ waitingParents[x] # {}
  <2> SUFFICES ASSUME NEW x \in Node, x \in pendingChildren' \/ waitingParents'[x] # {}
               PROVE  /\ x \notin D /\ x # currentTop /\ waitingParents'[x] = waitingParents[x]
                      /\ x \in pendingChildren \/ waitingParents[x] # {}
    OBVIOUS
  <2>1. CASE waitingParents'[x] # {}
    BY <1>8, <1>12, <2>1
  <2>2. CASE x \in pendingChildren'
    <3>1. x \in pendingChildren /\ x \notin D /\ (x = currentTop => fp[x] = {})
      BY <1>12, <2>2 DEF U
    <3>2. fp[x] = waitingParents[x] /\ waitingParents[x] # {}
      BY <1>8, <3>1 DEF WInv, PendingAwaited
    <3> QED
      BY <1>12, <3>1, <3>2
  <2> QED
    BY <2>1, <2>2
<1>15. Counts'
  BY <1>11 DEF Counts, Waits
<1>16. PendingAwaited'
  <2> SUFFICES ASSUME NEW x \in Node, x \in pendingChildren'
               PROVE  waitingParents'[x] # {} /\ state'[x] \in {PENDING, EXECUTING}
    BY DEF PendingAwaited, TInv, TypeOK
  <2>1. /\ x \in pendingChildren /\ x \notin D /\ waitingParents'[x] = waitingParents[x]
    BY <1>12, <1>14
  <2>2. waitingParents[x] # {} /\ state[x] \in {PENDING, EXECUTING}
    BY <1>3, <1>4, <2>1 DEF WInv, PendingAwaited, Lost
  <2> QED
    BY <1>8, <1>12, <2>1, <2>2
<1>17. SideEffectsAside'
  BY <1>5, SameNames DEF SideEffectsAside
<1>18. ExecutingOwned'
  <2> SUFFICES ASSUME NEW x \in Node, state'[x] = EXECUTING
               PROVE  \E m \in project.builder : x \in Writes(m) /\ m \in Out'
    BY SameNames DEF ExecutingOwned
  <2>1. x \notin D /\ state[x] = EXECUTING
    BY <1>8, <1>12, StatesApart
  <2>2. PICK m \in project.builder :
          x \in Writes(m) /\ (m \in Out \/ (pc = "prepare" /\ task = m))
    BY <2>1 DEF WInv, ExecutingOwned
  <2>3. m # n
    BY <1>4, <1>6, <2>1, <2>2 DEF Writes, T
  <2> QED
    BY <2>2, <2>3 DEF InHand
<1>19. NotWaiting'
  <2> SUFFICES ASSUME NEW x \in Node, state'[x] = NO_STATE
               PROVE  Waits(x)' = {}
    BY DEF NotWaiting
  <2>1. Waits(x) = {}
    BY <1>8, <1>12, StatesApart DEF WInv, NotWaiting
  <2> QED
    BY <1>9, <1>13, <2>1
<1>20. Reasons'
  <2> SUFFICES ASSUME NEW x \in Node, x \in Due'
               PROVE  Reason(x)'
    BY DEF Reasons, Due
  <2>1. /\ x \notin D /\ x # currentTop
        /\ x \in pendingChildren \/ waitingParents[x] # {}
    BY <1>2, <1>14 DEF Due
  <2>2. Reason(x)
    BY <2>1 DEF Due, WInv, Reasons
  <2>3. CASE Waits(x) # {}
    <3>1. WaitsIn(fp, x) = Waits(x)
      BY <1>4, <1>9, <2>1 DEF Waits, WaitsIn
    <3>2. CASE WaitsIn(fp, x) \subseteq U
      BY <1>11, <2>3, <3>1, <3>2 DEF Reason
    <3>3. CASE ~(WaitsIn(fp, x) \subseteq U)
      BY <1>13, <3>3 DEF Reason
    <3> QED
      BY <3>2, <3>3
  <2>4. CASE x \in ToSet(candidates)
    BY <1>11, <2>4 DEF Reason
  <2>5. CASE state[x] = EXECUTING
    BY <1>8, <1>12, <2>1, <2>5 DEF Reason
  <2> QED
    BY <1>3, <1>4, <1>5, <2>1, <2>2, <2>3, <2>4, <2>5 DEF Reason, Lost
<1>21. CyclesSeen'
  BY <1>2 DEF CyclesSeen
<1>22. TopsSeen'
  <2> SUFFICES ASSUME NEW t \in ToSet(project.tops)
               PROVE  t \in ToSet(topsLeft) \/ state'[t] # NO_STATE
    BY DEF TopsSeen, ToSet
  <2>1. t \in Node /\ (t \in ToSet(topsLeft) \/ state[t] # NO_STATE)
    BY TopTypes DEF WInv, TopsSeen
  <2> QED
    BY <1>8, <1>12, <2>1, StatesApart
<1>23. NothingLeft'
  BY <1>2 DEF NothingLeft, MadeFromDone
<1>24. KidsSeen' /\ Explained'
  BY <1>2 DEF KidsSeen, Explained
<1> QED
  BY <1>24, <1>15, <1>16, <1>17, <1>18, <1>19, <1>20, <1>21, <1>22, <1>23 DEF WInv

\* With -k, what waits for the failed node fails with it, and the walk goes on
LEMMA FailedKeptTraced ==
  ASSUME TInv, TInv', OInv, Walked, WInv, NEW n \in Node, InHand(n), Failed(n),
         project.policy = "keep", interrupted \/ Doubtful(n),
         project' = project, interrupted' = interrupted, pc' # "prepare",
         topsLeft' = topsLeft, waitingSE' = waitingSE, Out' = Out \ {n}
  PROVE  WInv'
<1> DEFINE T == Group(n)
           D == Doomed(T)
           st == FailedState(T)
           fp == FlushedParents(T)
           fc == FlushedCount(T)
           pend == pendingChildren \ D
           Held == {s \in SideEffects(T) : st[s] = EXECUTING}
<1>0. /\ status' = "failed" /\ stopped' = (stopped \/ project.policy = "stop")
      /\ Postprocess(IF project.policy = "stop" THEN {currentTop} ELSE T, st, fp, fc, pend)
  BY DEF Failed
<1>1. /\ Postprocess(T, st, fp, fc, pend)
      /\ stopped' = stopped /\ status' = "failed"
  <2>1. (IF project.policy = "stop" THEN {currentTop} ELSE T) = T
    OBVIOUS
  <2> HIDE DEF T, st, fp, fc, pend
  <2> QED
    BY <1>0, <2>1 DEF TInv, TypeOK
<1>2. /\ T \in SUBSET Node /\ n \in T /\ \A x : InTask(x) => x \in T
      /\ \A t \in T : ~IsSideEffect(t)
  BY Groups, InHandAside, GroupAside DEF WInv, TInv
<1>3. /\ D \in SUBSET Node /\ T \subseteq D
      /\ \A c \in D : waitingParents[c] \subseteq D
      /\ waitingParents \in [Node -> SUBSET Node]
  <2>1. waitingParents \in [Node -> SUBSET Node]
    BY DEF TInv, TypeOK
  <2> QED
    BY <1>2, <2>1, Closures, ClosureContains, ClosureClosed DEF Doomed
<1>4. /\ SideEffects(T) \in SUBSET Node
      /\ \A s \in SideEffects(T) : IsSideEffect(s)
  BY <1>2, SideEffectTypes DEF SideEffects, IsSideEffect, TInv
<1>5. state[n] # NO_STATE
  <2>1. CASE pc = "prepare"
    BY <2>1 DEF InHand, WInv, KidsSeen
  <2>2. CASE pc # "prepare"
    BY <1>2, <2>2, OutKnown, StatesApart DEF InHand, OInv, Running
  <2> QED
    BY <2>1, <2>2
\* Why those given up are
<1>6. \A x \in D : /\ ~IsSideEffect(x) /\ (x \in T \/ state[x] # NO_STATE)
                   /\ interrupted \/ Tainted(x)
  <2> DEFINE X == {x \in Node : /\ ~IsSideEffect(x) /\ (x \in T \/ state[x] # NO_STATE)
                                /\ interrupted \/ Tainted(x)}
  <2>1. T \subseteq X
    <3> SUFFICES ASSUME NEW t \in T
                 PROVE  interrupted \/ Tainted(t)
      BY <1>2
    <3>1. t \in Node /\ (Doubtful(t) <=> Doubtful(n))
      BY NeedsShared DEF TInv
    <3> QED
      BY <3>1, ItselfLost
  <2>2. ASSUME NEW c \in X, NEW p \in waitingParents[c]
        PROVE  p \in X
    <3>1. c \in Node /\ p \in Node /\ c \in Waits(p)
      BY <1>3 DEF Waits, WaitsIn
    <3>2. ~IsSideEffect(p) /\ state[p] # NO_STATE
      BY <3>1 DEF WInv, SideEffectsAside, NotWaiting
    <3>3. c \in Needs(p)
      BY <3>1, KnownNeeded DEF OInv, Waiting
    <3>4. interrupted \/ Tainted(p)
      BY <3>1, <3>3, BelowLost
    <3> QED
      BY <3>1, <3>2, <3>4
  <2>3. D \subseteq X
    <3> HIDE DEF X
    <3>1. X \in SUBSET Node
      BY DEF X
    <3> QED
      BY <2>1, <2>2, <3>1, ClosureLeast DEF Doomed
  <2> QED
    BY <2>3
<1>7. /\ st \in [Node -> NO_STATE .. FAILED]
      /\ fp \in [Node -> SUBSET Node] /\ fc \in [Node -> Int] /\ pend \in SUBSET Node
  BY <1>2, FlushedTypes DEF TInv, TypeOK
<1>8. /\ \A c \in Node : fp[c] = IF c \in D THEN {} ELSE waitingParents[c]
      /\ \A x \in Node : st[x] = IF x \in D THEN FAILED ELSE state[x]
  BY DEF FlushedParents, FailedState
<1>9. \A p \in Node : WaitsIn(fp, p) = Waits(p) \ D
  BY <1>8 DEF Waits, WaitsIn
<1>10. \A p \in Node : fc[p] = Cardinality(WaitsIn(fp, p))
  <2> SUFFICES ASSUME NEW p \in Node
               PROVE  fc[p] = Cardinality(Waits(p) \ D)
    BY <1>9
  <2>1. {c \in D : p \in waitingParents[c]} = Waits(p) \cap D
    BY <1>3 DEF Waits, WaitsIn
  <2>2. fc[p] = refCount[p] - Cardinality(Waits(p) \cap D)
    BY <2>1 DEF FlushedCount
  <2>3. Waits(p) \in SUBSET Node
    BY DEF Waits, WaitsIn
  <2>4. Cardinality(Waits(p) \ D) = Cardinality(Waits(p)) - Cardinality(Waits(p) \cap D)
    BY <2>3, CountLess
  <2> HIDE DEF D, fc
  <2> QED
    BY <2>2, <2>4 DEF WInv, Counts
<1>11. /\ \A p \in Node : refCount'[p] = Cardinality(WaitsIn(waitingParents', p))
       /\ \A s \in SideEffects(T) : \A p \in waitingSE[s] :
            WaitsIn(fp, p) = {} => p \in ToSet(candidates')
       /\ ToSet(candidates) \subseteq ToSet(candidates')
       /\ \A x \in ToSet(candidates') : \/ x \in ToSet(candidates)
                                        \/ \E s \in Node : x \in waitingSE[s]
                                        \/ WaitsIn(fp, x) # {}
  <2>1. T \in SUBSET Node /\ Postprocess(T, st, fp, fc, pend)
    BY <1>1, <1>2
  <2>2. \A s \in Node : IsSideEffect(s) => fp[s] = {}
    BY <1>8 DEF WInv, SideEffectsAside
  <2>3. st \in [Node -> NO_STATE .. FAILED]
    BY <1>7
  <2>4. fp \in [Node -> SUBSET Node]
    BY <1>7
  <2>5. fc \in [Node -> Int]
    BY <1>7
  <2>6. pend \in SUBSET Node
    BY <1>7
  <2>7. \A p \in Node : fc[p] = Cardinality(WaitsIn(fp, p))
    BY <1>10
  <2> HIDE DEF T, D, st, fp, fc, pend
  <2>8. /\ \A p \in Node : refCount'[p] = Cardinality(WaitsIn(waitingParents', p))
        /\ \A p \in Node :
             WaitsIn(fp, p) # {} /\ WaitsIn(fp, p) \subseteq T => p \in ToSet(candidates')
        /\ \A s \in SideEffects(T) : \A p \in waitingSE[s] :
             WaitsIn(fp, p) = {} => p \in ToSet(candidates')
        /\ ToSet(candidates) \subseteq ToSet(candidates')
        /\ \A x \in ToSet(candidates') : \/ x \in ToSet(candidates)
                                         \/ \E s \in Node : x \in waitingSE[s]
                                         \/ WaitsIn(fp, x) # {}
    BY ONLY TInv, <2>1, <2>2, <2>3, <2>4, <2>5, <2>6, <2>7, Counted
  <2> QED
    BY <2>8
<1>12. /\ \A x \in Node : state'[x] = IF x \in Held THEN NO_STATE ELSE st[x]
       /\ waitingParents' = [x \in Node |-> IF x \in T THEN {} ELSE fp[x]]
       /\ pendingChildren' = pend \ {t \in T : fp[t] # {}}
  BY <1>1 DEF Postprocess
<1>13. \A x \in Node :
         state'[x] = IF x \in D THEN FAILED
                     ELSE IF x \in SideEffects(T) /\ state[x] = EXECUTING THEN NO_STATE
                     ELSE state[x]
  <2> SUFFICES ASSUME NEW x \in Node
               PROVE  state'[x] = IF x \in D THEN FAILED
                                  ELSE IF x \in SideEffects(T) /\ state[x] = EXECUTING THEN NO_STATE
                                  ELSE state[x]
    OBVIOUS
  <2>1. x \in Held <=> x \in SideEffects(T) /\ st[x] = EXECUTING
    OBVIOUS
  <2>2. CASE x \in D
    <3>1. x \notin SideEffects(T)
      BY <1>4, <1>6, <2>2
    <3> HIDE DEF Held, st, D, T
    <3> QED
      BY <1>8, <1>12, <2>1, <2>2, <3>1
  <2>3. CASE x \notin D
    <3> HIDE DEF Held, st, D, T
    <3> QED
      BY <1>8, <1>12, <2>1, <2>3
  <2> QED
    BY <2>2, <2>3
<1>14. /\ \A c \in Node : waitingParents'[c] = IF c \in D THEN {} ELSE waitingParents[c]
       /\ pendingChildren' = pendingChildren \ D
       /\ \A x \in Node : Waits(x)' = Waits(x) \ D
  <2>1. \A t \in T : t \in D /\ fp[t] = {}
    BY <1>2, <1>3, <1>8
  <2>2. \A c \in Node : waitingParents'[c] = IF c \in D THEN {} ELSE waitingParents[c]
    <3> HIDE DEF fp, D, T
    <3> QED
      BY <1>8, <1>12, <2>1
  <2>3. pendingChildren' = pendingChildren \ D
    <3> HIDE DEF fp, D, T
    <3> QED
      BY <1>12, <2>1 DEF pend
  <2> QED
    BY <2>2, <2>3 DEF Waits, WaitsIn
<1> HIDE DEF T, D, st, fp, fc, pend, Held
<1>15. \A x \in Node : IsSideEffect(x) => x \notin D /\ state[x] \in {NO_STATE, EXECUTING}
  BY <1>6 DEF WInv, SideEffectsAside
<1>16. \A x \in Node : Lost(x) => Lost(x)'
  <2>1. \A x \in Node : state[x] = FAILED => state'[x] = FAILED
    BY <1>4, <1>13, StatesApart
  <2> QED
    BY <2>1, LostStays
<1>17. \A x \in D : Lost(x)'
  <2> SUFFICES ASSUME NEW x \in D
               PROVE  Lost(x)'
    OBVIOUS
  <2>1. x \in Reach(x) /\ x \in Node
    BY <1>3, ReachFacts
  <2>2. state'[x] = FAILED
    BY <1>13, <2>1
  <2> QED
    BY <2>1, <2>2, SameReach DEF Lost
<1>18. \A x \in Node : x \in Due' =>
         /\ x \notin D /\ x \in Due /\ state'[x] = state[x] /\ waitingParents'[x] = waitingParents[x]
  <2> SUFFICES ASSUME NEW x \in Node,
                      x \in pendingChildren' \/ waitingParents'[x] # {}
                        \/ (~stopped /\ state'[x] = PENDING)
               PROVE  /\ x \notin D /\ x \in Due /\ state'[x] = state[x]
                      /\ waitingParents'[x] = waitingParents[x]
    BY <1>1 DEF Due
  <2>1. x \notin D
    BY <1>13, <1>14, StatesApart
  <2>2. waitingParents'[x] = waitingParents[x]
    BY <1>14, <2>1
  <2>3. state'[x] = state[x]
    <3>1. CASE x \in SideEffects(T) /\ state[x] = EXECUTING
      <4>1. waitingParents[x] = {} /\ x \notin pendingChildren
        BY <1>4, <3>1 DEF WInv, SideEffectsAside
      <4>2. state'[x] = NO_STATE
        BY <1>13, <2>1, <3>1
      <4> QED
        BY <1>14, <2>2, <4>1, <4>2, StatesApart
    <3>2. CASE ~(x \in SideEffects(T) /\ state[x] = EXECUTING)
      BY <1>13, <2>1, <3>2
    <3> QED
      BY <3>1, <3>2
  <2> QED
    BY <1>14, <2>1, <2>2, <2>3 DEF Due
<1>19. Counts'
  BY <1>11 DEF Counts, Waits
<1>20. PendingAwaited'
  <2> SUFFICES ASSUME NEW x \in Node, x \in pendingChildren'
               PROVE  /\ waitingParents'[x] # {}
                      /\ state'[x] \in {PENDING, EXECUTING} \/ Lost(x)'
    BY DEF PendingAwaited, TInv, TypeOK
  <2>1. x \in Due'
    BY DEF Due
  <2>2. /\ x \notin D /\ state'[x] = state[x] /\ waitingParents'[x] = waitingParents[x]
        /\ x \in pendingChildren
    BY <1>14, <1>18, <2>1
  <2>3. ~InTask(x)
    BY <1>2, <1>3, <2>2
  <2> QED
    BY <1>16, <2>2, <2>3 DEF WInv, PendingAwaited
<1>21. SideEffectsAside'
  <2> SUFFICES ASSUME NEW s \in Node, IsSideEffect(s)
               PROVE  /\ s \notin ToSet(candidates') \cup ToSet(topsLeft') \cup pendingChildren'
                      /\ state'[s] \in {NO_STATE, EXECUTING}
                      /\ waitingParents'[s] = {} /\ Waits(s)' = {}
                      /\ \A x \in Node : s \notin waitingSE'[x]
    BY SameNames DEF SideEffectsAside
  <2>1. /\ s \notin ToSet(candidates) \cup ToSet(topsLeft) \cup pendingChildren
        /\ waitingParents[s] = {} /\ Waits(s) = {}
        /\ \A x \in Node : s \notin waitingSE[x]
    BY DEF WInv, SideEffectsAside
  <2>2. s \notin ToSet(candidates')
    BY <1>9, <1>11, <2>1
  <2> QED
    BY <1>13, <1>14, <1>15, <2>1, <2>2
<1>22. ExecutingOwned'
  <2> SUFFICES ASSUME NEW x \in Node, state'[x] = EXECUTING
               PROVE  \E m \in project.builder : x \in Writes(m) /\ m \in Out'
    BY SameNames DEF ExecutingOwned
  <2>1. x \notin D /\ x \notin SideEffects(T) /\ state[x] = EXECUTING
    BY <1>13, StatesApart
  <2>2. PICK m \in project.builder :
          x \in Writes(m) /\ (m \in Out \/ (pc = "prepare" /\ task = m))
    BY <2>1 DEF WInv, ExecutingOwned
  <2>3. m # n
    BY <1>3, <2>1, <2>2 DEF Writes, T
  <2> QED
    BY <2>2, <2>3 DEF InHand
<1>23. NotWaiting'
  <2> SUFFICES ASSUME NEW x \in Node, state'[x] = NO_STATE
               PROVE  Waits(x)' = {}
    BY DEF NotWaiting
  <2>1. x \in SideEffects(T) \/ state[x] = NO_STATE
    BY <1>13, StatesApart
  <2>2. Waits(x) = {}
    BY <1>4, <2>1 DEF WInv, SideEffectsAside, NotWaiting
  <2> QED
    BY <1>14, <2>2
<1>24. Reasons'
  <2> SUFFICES ASSUME NEW x \in Node, x \in Due'
               PROVE  Reason(x)'
    BY DEF Reasons, Due
  <2>1. x \notin D /\ x \in Due /\ state'[x] = state[x]
    BY <1>18
  <2>2. Reason(x)
    BY <2>1 DEF WInv, Reasons
  <2>3. Waits(x)' = Waits(x) /\ WaitsIn(fp, x) = Waits(x)
    <3>1. Waits(x) \cap D = {}
      BY <1>3, <2>1 DEF Waits, WaitsIn
    <3> QED
      BY <1>9, <1>14, <3>1
  <2>4. CASE Waits(x) = {} /\ \E s \in Node : /\ IsSideEffect(s) /\ x \in waitingSE[s]
                                              /\ state[s] = EXECUTING
    <3>1. PICK s \in Node : IsSideEffect(s) /\ x \in waitingSE[s] /\ state[s] = EXECUTING
      BY <2>4
    <3>2. CASE s \in SideEffects(T)
      <4>1. x \in ToSet(candidates')
        BY <1>11, <2>3, <2>4, <3>1, <3>2
      <4> QED
        BY <4>1 DEF Reason
    <3>3. CASE s \notin SideEffects(T)
      <4>1. state'[s] = EXECUTING
        BY <1>13, <1>15, <3>1, <3>3
      <4> QED
        BY <3>1, <4>1, SameNames DEF Reason
    <3> QED
      BY <3>2, <3>3
  <2>5. CASE x \in ToSet(candidates)
    BY <1>11, <2>5 DEF Reason
  <2>6. ~InTask(x)
    BY <1>2, <1>3, <2>1
  <2> QED
    BY <1>16, <2>1, <2>2, <2>3, <2>4, <2>5, <2>6 DEF Reason
<1>25. CyclesSeen'
  <2> SUFFICES ASSUME ~stopped, NEW S \in SUBSET Node, S # {},
                      \A p \in S : Waits(p)' \cap S # {}
               PROVE  S \cap pendingChildren' # {}
    BY <1>1 DEF CyclesSeen
  <2>1. S \ D \in SUBSET Node /\ S \ D # {} /\ \A p \in S \ D : Waits(p) \cap (S \ D) # {}
    BY <1>14
  <2>2. (S \ D) \cap pendingChildren # {}
    BY <2>1 DEF WInv, CyclesSeen
  <2> QED
    BY <1>14, <2>2
<1>26. TopsSeen'
  <2> SUFFICES ASSUME NEW t \in ToSet(project.tops)
               PROVE  t \in ToSet(topsLeft) \/ state'[t] # NO_STATE
    BY DEF TopsSeen, ToSet
  <2>1. t \in Node /\ (t \in ToSet(topsLeft) \/ state[t] # NO_STATE)
    BY TopTypes DEF WInv, TopsSeen
  <2>2. t \notin SideEffects(T)
    BY <1>4, <2>1 DEF Walked, SideEffectsUnused
  <2> QED
    BY <1>13, <2>1, <2>2, StatesApart
<1>27. KidsSeen'
  <2>1. \A x \in Node : state'[x] = NO_STATE /\ state[x] # NO_STATE => IsSideEffect(x)
    BY <1>4, <1>13, StatesApart
  <2>2. \A x \in Node : state[x] = NO_STATE /\ state'[x] # NO_STATE => x \in Group(n)
    BY <1>6, <1>13, StatesApart DEF T
  <2>3. state'[n] # NO_STATE
    BY <1>2, <1>3, <1>13, StatesApart
  <2>4. CASE stopped
    BY <1>1, <2>4 DEF KidsSeen
  <2>5. CASE ~stopped
    <3>1. ~Fails(n, "scan") =>
            \A c \in Kids(Group(n)) : state[c] # NO_STATE \/ c \in ToSet(candidates')
      BY <1>2, <1>5, <1>11, <2>5 DEF WInv, KidsSeen
    <3> QED
      BY <1>1, <1>11, <2>1, <2>2, <2>3, <2>5, <3>1, KidsSeenStays DEF WInv, Walked
  <2> QED
    BY <2>4, <2>5
<1>28. Explained'
  <2>1. \A x \in Node : state'[x] = FAILED => state[x] = FAILED \/ interrupted \/ Tainted(x)
    BY <1>6, <1>13, StatesApart
  <2> QED
    BY <2>1, ExplainedStays DEF WInv
<1>29. NothingLeft'
  BY <1>1 DEF NothingLeft, MadeFromDone
<1> QED
  BY <1>19, <1>20, <1>21, <1>22, <1>23, <1>24, <1>25, <1>26, <1>27, <1>28, <1>29 DEF WInv

\* A failure that is not ignored
LEMMA FailedTraced ==
  ASSUME TInv, TInv', OInv, Walked, Troubled, WInv, NEW n \in Node, InHand(n), Failed(n),
         project.policy # "ignore", interrupted \/ Doubtful(n), currentTop \in Node,
         project' = project, interrupted' = interrupted, pc' # "prepare",
         topsLeft' = topsLeft, waitingSE' = waitingSE, Out' = Out \ {n}
  PROVE  WInv'
<1>1. project.policy \in {"stop", "keep", "ignore"}
  BY ProjectTypes DEF Project, TInv
<1> QED
  BY <1>1, FailedStopsTraced, FailedKeptTraced

\* The main thread ends the task it holds
LEMMA HeldTraced ==
  ASSUME TInv, TInv', OInv, RInv, Walked, WInv, NEW n \in Node, Prepare(n) \/ Execute(n)
  PROVE  WInv'
<1>1. /\ pc = "prepare" /\ task = n /\ pc' = "next" /\ project' = project
      /\ UNCHANGED <<topsLeft, waitingSE, interrupted>> /\ UNCHANGED poolVars
  BY DEF Prepare, Execute, Preparing, walkVars
<1>2. Out' = Out \ {n} /\ InHand(n) /\ currentTop \in Node
  BY <1>1, OutSame DEF OInv, PoolInv, OnceEach, InHand, TInv, TopKnown
<1>3. ~Fails(n, "scan") => \A c \in Needs(n) : Settled(c)
  BY <1>1 DEF RInv, HeldNeeds
<1>4. project.policy = "ignore" => ~Fails(n, "ready")
  BY Groups DEF Fails, Walked, TInv
<1>5. \/ Executed(n) /\ ~PrepareFails(n)
      \/ Failed(n) /\ (interrupted \/ \E k \in Trouble \ {"none"} : Fails(n, k))
  <2>1. CASE Prepare(n)
    BY <2>1 DEF Prepare, PrepareFails, Missing, Trouble
  <2>2. CASE Execute(n)
    BY <2>2 DEF Execute, Outcomes, Trouble
  <2> QED
    BY <2>1, <2>2
<1>6. CASE Executed(n) /\ ~PrepareFails(n)
  <2>1. ~Fails(n, "ready") /\ ~Fails(n, "scan")
    BY <1>6 DEF PrepareFails
  <2> QED
    BY <1>1, <1>2, <1>3, <1>6, <2>1, ExecutedTraced
<1>7. CASE Failed(n) /\ project.policy = "ignore"
  <2>1. Executed(n)
    BY <1>7 DEF Failed
  <2> QED
    BY <1>1, <1>2, <1>3, <1>4, <1>7, <2>1, ExecutedTraced
<1>8. CASE /\ Failed(n) /\ project.policy # "ignore"
           /\ interrupted \/ \E k \in Trouble \ {"none"} : Fails(n, k)
  <2>1. Troubled /\ (interrupted \/ Doubtful(n))
    BY <1>8, Groups DEF Fails, Doubtful, Troubled, TInv
  <2> QED
    BY <1>1, <1>2, <1>8, <2>1, FailedTraced
<1> QED
  BY <1>5, <1>6, <1>7, <1>8

\* The main thread gets a result
LEMMA ResultTraced ==
  ASSUME TInv, TInv', OInv, Walked, WInv, GetResult
  PROVE  WInv'
<1> DEFINE n == Head(results).node
<1>1. /\ pc = "wait" /\ pc' # "prepare" /\ project' = project
      /\ UNCHANGED <<topsLeft, waitingSE, interrupted>>
      /\ \/ Executed(n)
         \/ ~Head(results).ok /\ Failed(n)
  BY DEF GetResult, walkVars
<1>2. n \in Node /\ n \in Out /\ n \in UnderWay /\ Out' = Out \ {n} /\ InHand(n)
  BY <1>1, PoolResult DEF OInv, InHand
<1>3. currentTop \in Node
  <2>1. results # <<>> /\ results \in Seq(Task)
    BY DEF GetResult, TInv, TypeOK
  <2>2. jobs = Len(requests) + Cardinality(Busy) + Len(results) /\ requests \in Seq(Node)
    BY <1>1 DEF TInv, JobsCounted
  <2>3. jobs > 0
    BY <2>1, <2>2, BusyTypes
  <2> QED
    BY <2>3 DEF TInv, TopKnown
<1>4. \A c \in Needs(n) : Settled(c)
  BY <1>2 DEF OInv, NeedsSettled
<1>5. ~Fails(n, "ready")
  <2>1. n \in project.builder /\ state[n] = EXECUTING
    BY <1>2, Groups DEF OInv, Running, TInv
  <2> QED
    BY <1>2, <2>1 DEF OInv, EarlyFailures
<1>6. ~Head(results).ok => Troubled /\ (interrupted \/ Doubtful(n))
  <2> SUFFICES ASSUME ~Head(results).ok, ~interrupted
               PROVE  Troubled /\ Doubtful(n)
    BY DEF Troubled
  <2>1. Fails(n, "action")
    BY ResultsTail DEF OInv, PoolInv, FailuresExplained
  <2> QED
    BY <1>2, <2>1, Groups DEF Fails, Doubtful, Troubled, TInv
<1> HIDE DEF n
<1>7. CASE Executed(n)
  BY <1>1, <1>2, <1>4, <1>5, <1>7, ExecutedTraced
<1>8. CASE ~Head(results).ok /\ Failed(n)
  <2>1. CASE project.policy = "ignore"
    <3>1. Executed(n)
      BY <1>8, <2>1 DEF Failed
    <3> QED
      BY <1>7, <3>1
  <2>2. CASE project.policy # "ignore"
    BY <1>1, <1>2, <1>3, <1>6, <1>8, <2>2, FailedTraced
  <2> QED
    BY <2>1, <2>2
<1> QED
  BY <1>1, <1>7, <1>8

-----------------------------------------------------------------------------
\* The tasks are all back when the loop has ended
Gone ==
  /\ pc = "ended" => Out = {}
  /\ status = "cycle" => pendingChildren # {}

LEMMA NoneOut ==
  ASSUME TInv, pc = "cleanup"
  PROVE  Out = {}
<1>1. jobs = 0 /\ requests \in Seq(Node) /\ results \in Seq(Task)
      /\ jobs = Len(requests) + Cardinality(Busy) + Len(results)
  BY DEF TInv, TypeOK, TurnsKept, JobsCounted
<1>2. Len(requests) = 0 /\ Cardinality(Busy) = 0 /\ Len(results) = 0
  BY <1>1, BusyTypes
<1>3. DOMAIN requests = {} /\ DOMAIN results = {} /\ Busy = {}
  BY <1>1, <1>2, BusyTypes, FS_EmptySet
<1> QED
  BY <1>3 DEF Out, Queued, Working, Ended, Busy

LEMMA WInit ==
  ASSUME Init, TInv
  PROVE  Outcome /\ Gone /\ (Walked => WInv)
<1>1. /\ \A n \in Node : /\ state[n] = NO_STATE /\ waitingParents[n] = {}
                         /\ waitingSE[n] = {} /\ refCount[n] = 0
      /\ candidates = <<>> /\ topsLeft = project.tops /\ pendingChildren = {}
      /\ ~stopped /\ pc = "next" /\ status = "ok"
  BY DEF Init
<1>2. Outcome /\ Gone
  BY <1>1, StatesApart DEF Outcome, Gone
<1>3. \A x : Waits(x) = {}
  BY <1>1 DEF Waits, WaitsIn
<1>4. Counts
  BY <1>1, <1>3, FS_EmptySet DEF Counts
<1>5. PendingAwaited /\ ExecutingOwned /\ NotWaiting /\ CyclesSeen /\ TopsSeen
  BY <1>1, <1>3, StatesApart DEF PendingAwaited, ExecutingOwned, NotWaiting, CyclesSeen, TopsSeen
<1>6. Reasons
  BY <1>1, StatesApart DEF Reasons, Due
<1>7. NothingLeft
  BY <1>1, StatesApart DEF NothingLeft, MadeFromDone, Settled
<1>7a. KidsSeen /\ Explained
  BY <1>1, StatesApart DEF KidsSeen, Explained
<1>8. Walked => SideEffectsAside
  BY <1>1, <1>3 DEF Walked, SideEffectsUnused, SideEffectsAside, ToSet
<1> QED
  BY <1>2, <1>4, <1>5, <1>6, <1>7, <1>7a, <1>8 DEF WInv

LEMMA WNext ==
  ASSUME Walked, TInv, TInv', OInv, RInv, Outcome, WInv, [Next]_vars
  PROVE  WInv'
<1>1. ASSUME NEW n \in Node, Walk(n)
      PROVE  WInv'
  BY <1>1, VisitFailedTraced, VisitWaitsTraced, VisitHeldTraced, TakenTraced, HeldTraced, PoolTraced
  DEF Walk
<1>2. CASE MainThread
  BY <1>1, <1>2, NoCandidateTraced, SkipTraced, ResultTraced, PoolTraced DEF MainThread
<1>3. CASE Interrupt \/ \E w \in Worker : WorkerTake(w) \/ WorkerFinish(w)
  BY <1>3, PoolTraced
<1>4. CASE UNCHANGED vars
  <2>1. /\ UNCHANGED <<project, nodeVars, candidates, topsLeft, pendingChildren>>
        /\ UNCHANGED <<stopped, status, interrupted, pc, task>> /\ UNCHANGED poolVars
    BY <1>4 DEF vars, nodeVars, walkVars, poolVars
  <2>2. Out' = Out
    BY <2>1, OutSame
  <2> QED
    BY <2>1, <2>2, HandedOnTraced
<1> QED
  BY <1>2, <1>3, <1>4 DEF Next

\* A build ends with no command under way, and with a cycle only where
\* children are pending
LEMMA GoneNext ==
  ASSUME TInv, TInv', OInv, Outcome, Outcome', Gone, [Next]_vars
  PROVE  Gone'
<1>0. PoolInv
  BY DEF OInv
<1>1. CASE pc = "ended"
  <2>1. /\ UNCHANGED <<status, pendingChildren>>
        /\ UNCHANGED poolVars \/ \E w \in Worker : WorkerTake(w) \/ WorkerFinish(w)
    BY <1>1
    DEF Next, MainThread, Walk, NoCandidate, SkipHandled, GetResult, Cleanup, Looking,
        VisitFailedChildren, VisitWaits, VisitSideEffectHeld, VisitReady, Visit,
        VisitScanFails, Prepare, Dispatch, Execute, Preparing, WorkerTake, WorkerFinish,
        Interrupt, vars
  <2>2. Out' = Out
    BY <1>0, <2>1, OutSame, PoolTaken, PoolFinished
  <2> QED
    BY <1>1, <2>1, <2>2 DEF Gone
<1>2. CASE pc # "ended" /\ pc' = "ended"
  <2>1. Cleanup
    BY <1>2
    DEF Next, MainThread, Walk, NoCandidate, SkipHandled, GetResult, Looking,
        VisitFailedChildren, VisitWaits, VisitSideEffectHeld, VisitReady, Visit,
        VisitScanFails, MakeReady, Prepare, Dispatch, AfterDispatch, Execute, WorkerTake,
        WorkerFinish, Interrupt, vars
  <2>2. /\ pc = "cleanup" /\ UNCHANGED pendingChildren
        /\ status' = "cycle" => pendingChildren # {} \/ status = "cycle"
    BY <2>1 DEF Cleanup
  <2>3. Out' = Out
    BY <1>0, <2>1, PoolCleanedUp
  <2> QED
    BY <2>2, <2>3, NoneOut DEF Gone, Outcome
<1>3. CASE pc' # "ended"
  BY <1>3 DEF Gone, Outcome
<1> QED
  BY <1>1, <1>2, <1>3

-----------------------------------------------------------------------------
(* What the end of the build says *)

\* In a finite graph, who follows arcs and never gets out comes round
LEMMA CycleFound ==
  ASSUME NEW F \in [Node -> SUBSET Node], NEW S \in SUBSET Node, S # {},
         \A x \in S : F[x] \cap S # {}
  PROVE  \E n \in S : n \in Closure(F[n], F)
<1> DEFINE R(x) == Closure(F[x], F)
           Q == {R(x) : x \in S}
<1>1. Q \subseteq FiniteSubsetsOf(Node) /\ Q # {}
  BY Closures, NodeSubsets DEF FiniteSubsetsOf
<1>2. IsWellFoundedOn(StrictSubsetOrdering(Node), FiniteSubsetsOf(Node))
  BY FS_StrictSubsetOrderingWellFounded
<1>3. \E A \in Q : \A B \in Q : <<B, A>> \notin StrictSubsetOrdering(Node)
  BY <1>1, <1>2, WFMin
<1>4. PICK x \in S : \A B \in Q : <<B, R(x)>> \notin StrictSubsetOrdering(Node)
  BY <1>3
<1>5. PICK y \in S : y \in F[x]
  OBVIOUS
<1>6. y \in R(x) /\ F[y] \subseteq R(x) /\ \A m \in R(x) : F[m] \subseteq R(x)
  <2>1. F[x] \in SUBSET Node
    OBVIOUS
  <2>2. y \in R(x)
    BY <1>5, <2>1, ClosureContains
  <2> QED
    BY <2>2, ClosureClosed
<1>7. R(y) \subseteq R(x) /\ R(y) \in SUBSET Node /\ R(x) \in SUBSET Node
  BY <1>6, Closures, ClosureLeast
<1>8. <<R(y), R(x)>> \notin StrictSubsetOrdering(Node)
  BY <1>4
<1>9. R(y) = R(x)
  BY <1>7, <1>8 DEF StrictSubsetOrdering
<1> QED
  BY <1>6, <1>9

\* What is due waits for what is due, when the loop has ended
LEMMA DueWaits ==
  ASSUME TInv, OInv, Outcome, WInv, Out = {}, pc \in {"cleanup", "ended"}
  PROVE  /\ \A x \in Node : state[x] # EXECUTING
         /\ \A x \in Due :
              Lost(x) \/ (Waits(x) # {} /\ Waits(x) \subseteq Due /\ Waits(x) \subseteq Needs(x))
<1>1. \A x \in Node : state[x] # EXECUTING
  BY DEF WInv, ExecutingOwned
<1>2. candidates = <<>>
  BY DEF Outcome
<1>3. ASSUME NEW x \in Due, ~Lost(x)
      PROVE  Waits(x) # {} /\ Waits(x) \subseteq Due /\ Waits(x) \subseteq Needs(x)
  <2>1. x \in Node /\ Reason(x)
    BY DEF Due, WInv, Reasons
  <2>2. x \notin ToSet(candidates) /\ ~InTask(x)
    BY <1>2 DEF ToSet, InTask
  <2>3. \A s \in Node : IsSideEffect(s) => state[s] # EXECUTING
    BY <1>1
  <2>4. Waits(x) # {}
    BY <1>1, <1>3, <2>1, <2>2, <2>3 DEF Reason
  <2>5. Waits(x) \subseteq Due
    BY DEF Waits, WaitsIn, Due
  <2>6. Waits(x) \subseteq Needs(x)
    BY DEF Waits, WaitsIn, OInv, Waiting
  <2> QED
    BY <2>4, <2>5, <2>6
<1> QED
  BY <1>1, <1>3

\* Where nothing failed under -k, nothing is lost
LEMMA NoneLost ==
  ASSUME TInv, project.policy = "keep" => \A n \in Node : state[n] # FAILED
  PROVE  \A x \in Node : ~Lost(x)
  BY ReachFacts DEF Lost

LEMMA CyclesOnly ==
  ASSUME TInv, OInv, Outcome, Gone, Traced, WInv
  PROVE  OnlyCyclesReported
<1> SUFFICES ASSUME status = "cycle"
             PROVE  \E n \in Node : n \in Closure(MayNeed(n), [m \in Node |-> MayNeed(m)])
  BY DEF OnlyCyclesReported, OnCycle
<1> DEFINE F == [m \in Node |-> MayNeed(m)]
<1>1. pc = "ended" /\ Out = {} /\ pendingChildren # {}
  BY DEF Outcome, Gone
<1>2. Due \in SUBSET Node /\ Due # {}
  BY <1>1 DEF Due, TInv, TypeOK
<1>3. F \in [Node -> SUBSET Node] /\ \A x \in Node : Needs(x) \subseteq F[x]
  BY MayNeedMore DEF TInv
<1>4. \A x \in Due : F[x] \cap Due # {}
  <2> HIDE DEF F
  <2> QED
    BY <1>1, <1>2, <1>3, DueWaits, NoneLost DEF Traced
<1>5. PICK n \in Due : n \in Closure(F[n], F)
  <2> HIDE DEF F
  <2> QED
    BY <1>2, <1>3, <1>4, CycleFound
<1> QED
  BY <1>2, <1>5

LEMMA SuccessBuilt ==
  ASSUME TInv, OInv, Outcome, Gone, Walked, WInv,
         project.policy = "ignore" => \A n \in Node : project.bad[n] # "scan"
  PROVE  SuccessMeansBuilt
<1> SUFFICES ASSUME pc = "ended", status = "ok", ~interrupted
             PROVE  \A n \in Wanted : state[n] \in Done
  BY DEF SuccessMeansBuilt
<1> DEFINE F == [m \in Node |-> Needs(m)]
           T == {n \in Node : state[n] \in Done}
<1>1. ~stopped /\ topsLeft = <<>> /\ Out = {} /\ \A n \in Node : state[n] # FAILED
  BY DEF Outcome, Gone
<1>2. \A x \in Node : state[x] # EXECUTING /\ ~Lost(x)
  BY <1>1, DueWaits, NoneLost
<1>3. pendingChildren = {}
  <2> SUFFICES ASSUME NEW x \in pendingChildren
               PROVE  FALSE
    OBVIOUS
  <2>1. x \in Node /\ state[x] = EXECUTED
    BY DEF Outcome, TInv, TypeOK
  <2>2. state[x] \in {PENDING, EXECUTING}
    BY <1>2, <2>1 DEF WInv, PendingAwaited, InTask
  <2> QED
    BY <2>1, <2>2, StatesApart
<1>4. Due = {}
  <2>1. Due \in SUBSET Node
    BY DEF Due
  <2>2. \A x \in Due : Waits(x) \cap Due # {}
    BY <1>1, <1>2, <2>1, DueWaits
  <2> QED
    BY <1>1, <1>3, <2>1, <2>2 DEF WInv, CyclesSeen
<1>5. \A x \in Node : state[x] = NO_STATE \/ state[x] \in Done
  <2> SUFFICES ASSUME NEW x \in Node
               PROVE  state[x] = NO_STATE \/ state[x] \in Done
    OBVIOUS
  <2>1. state[x] # PENDING
    BY <1>1, <1>4 DEF Due
  <2> QED
    BY <1>1, <1>2, <2>1, StateOrder, StatesApart
<1>6. ToSet(project.tops) \subseteq T
  <2> SUFFICES ASSUME NEW t \in ToSet(project.tops)
               PROVE  t \in T
    OBVIOUS
  <2>1. t \in Node /\ state[t] # NO_STATE
    BY <1>1, TopTypes DEF WInv, TopsSeen, ToSet
  <2> QED
    BY <1>5, <2>1
<1>7. \A m \in T : F[m] \subseteq T
  <2> SUFFICES ASSUME NEW m \in Node, state[m] \in Done, NEW c \in Needs(m)
               PROVE  c \in Node /\ state[c] \in Done
    OBVIOUS
  <2>1. c \in Node
    BY KnownTypes DEF TInv
  <2> QED
    BY <2>1 DEF WInv, NothingLeft, MadeFromDone, Settled
<1>8. Wanted \subseteq T
  <2> HIDE DEF T, F
  <2>1. T \in SUBSET Node
    BY DEF T
  <2>2. Closure(ToSet(project.tops), F) \subseteq T
    BY <1>6, <1>7, <2>1, ClosureLeast
  <2> QED
    BY <2>2 DEF Wanted, F
<1> QED
  BY <1>8

\* The walk comes to all that is sought
LEMMA SoughtSeen ==
  ASSUME TInv, Walked, WInv, ~stopped, candidates = <<>>, topsLeft = <<>>, pc # "prepare"
  PROVE  \A n \in Sought : n \in Node /\ state[n] # NO_STATE /\ ~IsSideEffect(n)
<1> DEFINE F == [n \in Node |-> IF Fails(n, "scan") THEN {}
                               ELSE UNION {project.kids[t] : t \in Group(n)}]
           X == {n \in Node : state[n] # NO_STATE /\ ~IsSideEffect(n)}
<1>1. ToSet(project.tops) \subseteq X
  <2> SUFFICES ASSUME NEW t \in ToSet(project.tops)
               PROVE  t \in X
    OBVIOUS
  <2>1. t \in Node /\ state[t] # NO_STATE
    BY TopTypes DEF WInv, TopsSeen, ToSet
  <2> QED
    BY <2>1 DEF Walked, SideEffectsUnused
<1>2. ASSUME NEW x \in X
      PROVE  F[x] \subseteq X
  <2>1. CASE Fails(x, "scan")
    BY <2>1
  <2>2. CASE ~Fails(x, "scan")
    <3>1. F[x] = Kids(Group(x))
      BY <2>2 DEF Kids
    <3>2. \A c \in Kids(Group(x)) : c \in Node /\ ~IsSideEffect(c)
      BY KidsTypes, NeedsUnused DEF TInv, Walked
    <3>3. \A c \in Kids(Group(x)) : state[c] # NO_STATE
      BY <2>2 DEF WInv, KidsSeen, ToSet
    <3> QED
      BY <3>1, <3>2, <3>3
  <2> QED
    BY <2>1, <2>2
<1>3. Closure(ToSet(project.tops), F) \subseteq X
  <2> HIDE DEF F, X
  <2>1. X \in SUBSET Node
    BY DEF X
  <2> QED
    BY <1>1, <1>2, <2>1, ClosureLeast
<1> QED
  BY <1>3 DEF Sought

\* What is neither built nor above a possible failure waits for others like it,
\* and so for itself
LEMMA RestBuilt ==
  ASSUME TInv, OInv, Outcome, Gone, Walked, WInv
  PROVE  KeepGoingBuildsRest
<1> SUFFICES ASSUME pc = "ended", ~interrupted, project.policy = "keep", NEW n \in Sought,
                    state[n] \notin Done, ~Tainted(n)
             PROVE  \E c \in Reach(n) :
                      status = "cycle" /\ c \in Closure(MayNeed(c), [m \in Node |-> MayNeed(m)])
  BY DEF KeepGoingBuildsRest, Tainted, OnCycle
<1> DEFINE F == [m \in Node |-> MayNeed(m)]
           S == Due \cap Reach(n)
<1>1. ~stopped /\ candidates = <<>> /\ topsLeft = <<>> /\ Out = {}
  BY DEF Outcome, Gone
<1>2. n \in Node /\ state[n] # NO_STATE
  BY <1>1, SoughtSeen
<1>3. \A x \in Reach(n) : x \in Node /\ state[x] # FAILED /\ ~Lost(x)
  <2> SUFFICES ASSUME NEW x \in Reach(n), NEW c \in Reach(x), state[c] = FAILED
               PROVE  FALSE
    BY <1>2, ReachFacts DEF Lost
  <2>1. x \in Node /\ c \in Reach(n)
    BY <1>2, ReachFacts
  <2>2. c \in Node
    BY <1>2, <2>1, ReachFacts
  <2>3. Tainted(c)
    BY <2>2 DEF WInv, Explained
  <2>4. Reach(c) \subseteq Reach(n)
    BY <1>2, <2>1, ReachFacts
  <2> QED
    BY <2>3, <2>4 DEF Tainted
<1>4. \A x \in Node : state[x] # EXECUTING
  BY <1>1, DueWaits
<1>5. n \in S /\ S \in SUBSET Node
  <2>1. n \in Reach(n)
    BY <1>2, ReachFacts
  <2>2. state[n] = PENDING
    BY <1>2, <1>3, <1>4, <2>1, StateOrder, StatesApart
  <2> QED
    BY <1>1, <1>2, <2>1, <2>2 DEF Due
<1>6. \A x \in S : Waits(x) # {} /\ Waits(x) \subseteq S /\ Waits(x) \subseteq F[x]
  <2> SUFFICES ASSUME NEW x \in S
               PROVE  Waits(x) # {} /\ Waits(x) \subseteq S /\ Waits(x) \subseteq F[x]
    OBVIOUS
  <2>1. Waits(x) # {} /\ Waits(x) \subseteq Due /\ Waits(x) \subseteq Needs(x)
    BY <1>1, <1>3, DueWaits
  <2>2. Needs(x) \subseteq Reach(n) /\ x \in Node /\ Needs(x) \subseteq F[x]
    BY <1>2, <1>3, ReachFacts, MayNeedMore DEF TInv
  <2> QED
    BY <2>1, <2>2
<1>7. status = "cycle"
  <2>1. S \cap pendingChildren # {}
    BY <1>1, <1>5, <1>6 DEF WInv, CyclesSeen
  <2>2. PICK x \in S : x \in pendingChildren
    BY <2>1
  <2>3. state[x] \in {PENDING, EXECUTING}
    BY <1>3, <2>2 DEF WInv, PendingAwaited, InTask
  <2> QED
    BY <2>2, <2>3, StatesApart DEF Outcome
<1>8. PICK y \in S : y \in Closure(F[y], F)
  <2>1. F \in [Node -> SUBSET Node]
    BY MayNeedMore DEF TInv
  <2>2. S # {} /\ \A x \in S : F[x] \cap S # {}
    BY <1>5, <1>6
  <2> HIDE DEF F, S
  <2> QED
    BY <1>5, <2>1, <2>2, CycleFound
<1> QED
  BY <1>5, <1>7, <1>8

LEMMA CountsKept ==
  ASSUME TInv, Traced, WInv
  PROVE  WaitCounts
<1>1. \A p \in Node : refCount[p] = Cardinality({c \in Node : p \in waitingParents[c]})
  BY DEF WInv, Counts, Waits, WaitsIn
<1>2. pc # "prepare" =>
        \A n \in pendingChildren : state[n] \in {PENDING, EXECUTING} /\ waitingParents[n] # {}
  BY NoneLost DEF WInv, PendingAwaited, InTask, Traced, TInv, TypeOK
<1> QED
  BY <1>1, <1>2 DEF WaitCounts

-----------------------------------------------------------------------------
WalkInv ==
  /\ TInv /\ OInv /\ RInv /\ Outcome /\ Gone
  /\ Walked => WInv

LEMMA WalkAlways == Spec /\ IncludesKept => []WalkInv
<1>1. Init /\ IncludesKept => WalkInv
  BY TInit, OInit, OrderInit, WInit DEF WalkInv
<1>2. WalkInv /\ [Next]_vars => WalkInv'
  <2> SUFFICES ASSUME WalkInv, [Next]_vars
               PROVE  WalkInv'
    OBVIOUS
  <2>1. TInv /\ TInv' /\ project' = project /\ (Walked' => Walked)
    BY TNext, ProjectStays, TroubledStays DEF WalkInv
  <2>2. OInv' /\ RInv' /\ Outcome'
    BY <2>1, ONext, RNext, OutcomeNext DEF WalkInv
  <2>3. Gone'
    BY <2>1, <2>2, GoneNext DEF WalkInv
  <2>4. Walked' => WInv'
    BY <2>1, WNext DEF WalkInv
  <2> QED
    BY <2>1, <2>2, <2>3, <2>4 DEF WalkInv
<1> QED
  BY <1>1, <1>2, PTL DEF Spec

\* The count that puts a node back on the stack is the number of those it
\* waits for, and what waits among the pending children is awaited, for every
\* project, number of threads and interleaving, in the builds Traced
\* describes: a failure may end the walk, or be ignored, or not have come yet.
THEOREM WaitCountsAlways == Spec /\ IncludesKept => [](Traced => WaitCounts)
<1>1. WalkInv => (Traced => WaitCounts)
  BY CountsKept DEF WalkInv, Traced
<1> QED
  BY <1>1, WalkAlways, PTL

\* A dependency cycle is reported only where what the targets are made from
\* has one, in the same builds, interrupted ones among them.
THEOREM OnlyCyclesReportedAlways == Spec /\ IncludesKept => [](Traced => OnlyCyclesReported)
<1>1. WalkInv => (Traced => OnlyCyclesReported)
  BY CyclesOnly DEF WalkInv, Traced, Walked
<1> QED
  BY <1>1, WalkAlways, PTL

\* With -i, a scanner's failure makes a node look built whatever its sources
ScansTrusted == project.policy = "ignore" => \A n \in Node : project.bad[n] # "scan"

\* A build that ends with success has brought all that its targets are made
\* from up to date.  The walk forgets nothing: a node that waits is counted,
\* and looked at again when what it waits for is done.
THEOREM SuccessMeansBuiltAlways ==
  Spec /\ IncludesKept => [](Walked /\ ScansTrusted => SuccessMeansBuilt)
<1>1. WalkInv => (Walked /\ ScansTrusted => SuccessMeansBuilt)
  BY SuccessBuilt DEF WalkInv, Walked, ScansTrusted
<1> QED
  BY <1>1, WalkAlways, PTL

\* With -k, whatever fails and wherever, what does not need a node that may
\* fail is built, or needs a node on a cycle and the cycle is reported: for
\* every project Walked describes, commands of several targets among them.
THEOREM KeepGoingBuildsRestAlways == Spec /\ IncludesKept => [](Walked => KeepGoingBuildsRest)
<1>1. WalkInv => (Walked => KeepGoingBuildsRest)
  BY RestBuilt DEF WalkInv, Walked
<1> QED
  BY <1>1, WalkAlways, PTL

\* While nothing has failed, what is done is made from what is done: no command
\* and no check found a node current before all it is made from was brought up to
\* date, what a scanner finds only after a rebuild included.
THEOREM BuiltFromBuilt ==
  Spec /\ IncludesKept => [](Walked /\ ScansTrusted => (status = "ok" => MadeFromDone))
<1>1. WalkInv => (Walked /\ ScansTrusted => (status = "ok" => MadeFromDone))
  BY DEF WalkInv, WInv, NothingLeft, MadeFromDone, ScansTrusted
<1> QED
  BY <1>1, WalkAlways, PTL
=============================================================================
