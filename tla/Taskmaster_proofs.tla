-------------------------- MODULE Taskmaster_proofs --------------------------
(* Types and job counts of the build engine, where its tasks are, and the    *)
(* side effects of its commands, for every project, number of threads and    *)
(* interleaving.                                                             *)
EXTENDS Taskmaster, FiniteSetTheorems, SequenceTheorems, TLAPS

\* The project is one of those given
ProjectGiven == project \in Projects

\* The threads that build
Busy == {w \in Worker : worker[w] \in Node}

\* A task handed out is in the queue, with a worker, or its result waits
JobsCounted ==
  pc # "ended" =>
    /\ requests \in Seq(Node)
    /\ jobs = Len(requests) + Cardinality(Busy) + Len(results)

\* The main thread looks for tasks only while there is room for one, holds a
\* task while it prepares it, and ends the loop only when all results are in
TurnsKept ==
  /\ pc \in {"next", "prepare"} => jobs < project.jobs
  /\ pc \in {"cleanup", "ended"} => jobs = 0
  /\ pc = "prepare" => task \in Node

\* Whatever is under way is under some target asked for
TopKnown ==
  pc = "prepare" \/ candidates # <<>> \/ jobs > 0 => currentTop \in Node

TInv == TypeOK /\ ProjectGiven /\ JobsCounted /\ TurnsKept /\ TopKnown

-----------------------------------------------------------------------------
(* Sets, sequences and the project *)

LEMMA NodeSubsets ==
  ASSUME NEW S \in SUBSET Node
  PROVE  IsFiniteSet(S) /\ Cardinality(S) \in Nat
  BY NodeAssumption, FS_Subset, FS_CardinalityType

LEMMA Orders ==
  ASSUME NEW S \in SUBSET Node, NEW s \in SetToSeqs(S)
  PROVE  s \in Seq(Node)
  BY NodeSubsets DEF SetToSeqs

LEMMA ProjectTypes ==
  ASSUME ProjectGiven
  PROVE  /\ project \in Project /\ WellFormed(project)
         /\ project.jobs \in Nat /\ project.jobs >= 1
<1>1. project \in Project /\ WellFormed(project)
  BY ProjectAssumption DEF ProjectGiven
<1>2. Cardinality(Worker) \in Nat /\ Cardinality(Worker) # 0
  BY NodeAssumption, FS_CardinalityType, FS_EmptySet
<1> QED
  BY <1>1, <1>2 DEF Project

LEMMA Groups ==
  ASSUME ProjectGiven, NEW n \in Node
  PROVE  Group(n) \in SUBSET Node /\ n \in Group(n)
  BY ProjectTypes DEF Project, WellFormed, Group

LEMMA SideEffectTypes ==
  ASSUME ProjectGiven, NEW T \in SUBSET Node
  PROVE  SideEffects(T) \in SUBSET Node
  BY ProjectTypes DEF Project, SideEffects

LEMMA Closures ==
  ASSUME NEW S, NEW F
  PROVE  Closure(S, F) \in SUBSET Node
  BY DEF Closure

\* The threads that build, after one takes a task or ends one
LEMMA BusyTypes == IsFiniteSet(Busy) /\ Cardinality(Busy) \in Nat
  BY NodeAssumption, FS_Subset, FS_CardinalityType DEF Busy

LEMMA BusyMore ==
  ASSUME worker \in [Worker -> Node \cup {NoNode, Quit}], NEW w \in Worker,
         NEW n \in Node, worker[w] = NoNode,
         worker' = [worker EXCEPT ![w] = n]
  PROVE  Cardinality(Busy') = Cardinality(Busy) + 1
<1>1. Busy' = Busy \cup {w} /\ w \notin Busy
  BY NamesAssumption DEF Busy
<1> QED
  BY <1>1, BusyTypes, FS_AddElement

LEMMA BusyLess ==
  ASSUME worker \in [Worker -> Node \cup {NoNode, Quit}], NEW w \in Worker,
         worker[w] \in Node, worker' = [worker EXCEPT ![w] = NoNode]
  PROVE  Cardinality(Busy') = Cardinality(Busy) - 1
<1>1. Busy' = Busy \ {w} /\ w \in Busy
  BY NamesAssumption DEF Busy
<1> QED
  BY <1>1, BusyTypes, FS_RemoveElement

-----------------------------------------------------------------------------
(* What becomes of a task *)

LEMMA PostprocessTypes ==
  ASSUME TypeOK, ProjectGiven,
         NEW T \in SUBSET Node, NEW st \in [Node -> NO_STATE .. FAILED],
         NEW wp \in [Node -> SUBSET Node], NEW rc \in [Node -> Int],
         NEW pend \in SUBSET Node, Postprocess(T, st, wp, rc, pend)
  PROVE  /\ state' \in [Node -> NO_STATE .. FAILED]
         /\ waitingParents' \in [Node -> SUBSET Node]
         /\ refCount' \in [Node -> Int]
         /\ pendingChildren' \in SUBSET Node
         /\ candidates' \in Seq(Node)
<1> DEFINE held == {s \in SideEffects(T) : st[s] = EXECUTING}
           count == [p \in Node |-> Cardinality({c \in T \cup held : p \in wp[c]})]
           kept == {p \in UNION {waitingSE[s] : s \in SideEffects(T)} : rc[p] = 0}
<1>1. SideEffects(T) \in SUBSET Node
  BY SideEffectTypes
<1>2. kept \in SUBSET Node
  BY <1>1 DEF TypeOK
<1>3. Freed(count, rc) \in SUBSET Node
  BY DEF Freed
<1>4. \A p \in Node : count[p] \in Nat
  BY <1>1, NodeSubsets
<1>5. candidates' \in Seq(Node)
  <2>1. PICK k \in SetToSeqs(kept), f \in SetToSeqs(Freed(count, rc)) :
          candidates' = candidates \o k \o f
    BY DEF Postprocess
  <2>2. k \in Seq(Node) /\ f \in Seq(Node)
    BY <1>2, <1>3, Orders
  <2> QED
    BY <2>1, <2>2 DEF TypeOK
<1>6. refCount' = [p \in Node |-> rc[p] - count[p]]
  BY DEF Postprocess
<1>7. refCount' \in [Node -> Int]
  BY <1>4, <1>6
<1>8. state' \in [Node -> NO_STATE .. FAILED]
  BY DEF Postprocess, NO_STATE, FAILED
<1>9. waitingParents' \in [Node -> SUBSET Node] /\ pendingChildren' \in SUBSET Node
  BY DEF Postprocess
<1> QED
  BY <1>5, <1>7, <1>8, <1>9

LEMMA FlushedTypes ==
  ASSUME TypeOK, NEW S \in SUBSET Node
  PROVE  /\ FlushedParents(S) \in [Node -> SUBSET Node]
         /\ FlushedCount(S) \in [Node -> Int]
         /\ FailedState(S) \in [Node -> NO_STATE .. FAILED]
<1>1. Doomed(S) \in SUBSET Node
  BY Closures DEF Doomed
<1>2. \A p \in Node : Cardinality({n \in Doomed(S) : p \in waitingParents[n]}) \in Nat
  BY <1>1, NodeSubsets
<1>3. FlushedCount(S) \in [Node -> Int]
  <2>1. \A p \in Node : refCount[p] \in Int
    BY DEF TypeOK
  <2> QED
    BY <1>2, <2>1 DEF FlushedCount
<1>4. FlushedParents(S) \in [Node -> SUBSET Node]
  BY DEF FlushedParents, TypeOK
<1>5. FailedState(S) \in [Node -> NO_STATE .. FAILED]
  BY DEF FailedState, TypeOK, NO_STATE, FAILED
<1> QED
  BY <1>3, <1>4, <1>5

TaskTypes ==
  /\ state' \in [Node -> NO_STATE .. FAILED]
  /\ waitingParents' \in [Node -> SUBSET Node]
  /\ refCount' \in [Node -> Int]
  /\ pendingChildren' \in SUBSET Node
  /\ candidates' \in Seq(Node)
  /\ scanned' \in SUBSET Node /\ implicit' = implicit
  /\ stopped' \in BOOLEAN /\ status' \in {"ok", "failed", "cycle"}

LEMMA ExecutedTypes ==
  ASSUME TypeOK, ProjectGiven, NEW n \in Node, Executed(n)
  PROVE  TaskTypes
<1>1. Group(n) \in SUBSET Node
  BY Groups
<1>2. ExecutedState(Group(n)) \in [Node -> NO_STATE .. FAILED]
  BY DEF ExecutedState, TypeOK, NO_STATE, EXECUTED, FAILED
<1>3. scanned' \in SUBSET Node
  BY DEF Executed, Rescanned, TypeOK
<1> QED
  BY <1>1, <1>2, <1>3, PostprocessTypes DEF Executed, TaskTypes, TypeOK

LEMMA FailedTypes ==
  ASSUME TypeOK, ProjectGiven, currentTop \in Node, NEW n \in Node, Failed(n)
  PROVE  TaskTypes
<1>1. CASE Executed(n)
  BY <1>1, ExecutedTypes
<1>2. CASE ~Executed(n)
  <2>1. Group(n) \in SUBSET Node /\ {currentTop} \in SUBSET Node
    BY Groups
  <2>2. pendingChildren \ Doomed(Group(n)) \in SUBSET Node
    BY DEF TypeOK
  <2>3. PICK T \in SUBSET Node :
          Postprocess(T, FailedState(Group(n)), FlushedParents(Group(n)),
                      FlushedCount(Group(n)), pendingChildren \ Doomed(Group(n)))
    BY <1>2, <2>1 DEF Failed
  <2>4. /\ status' = "failed" /\ stopped' = (stopped \/ project.policy = "stop")
        /\ UNCHANGED scanVars
    BY <1>2 DEF Failed
  <2> QED
    BY <2>1, <2>2, <2>3, <2>4, FlushedTypes, PostprocessTypes
    DEF TaskTypes, TypeOK, scanVars
<1> QED
  BY <1>1, <1>2

-----------------------------------------------------------------------------
(* The walk *)

LEMMA PopTypes ==
  ASSUME TypeOK, HasCandidate, Pop
  PROVE  /\ Candidate \in Node /\ Rest \in Seq(Node)
         /\ topsLeft' \in Seq(Node)
         /\ currentTop' \in Node \cup {NoNode}
         /\ candidates = <<>> => currentTop' \in Node
         /\ candidates # <<>> => currentTop' = currentTop
<1>1. CASE candidates # <<>>
  <2>1. Candidate \in Node
    BY <1>1 DEF Candidate, Last, TypeOK
  <2>2. Rest \in Seq(Node)
    BY <1>1 DEF Rest, Front, TypeOK
  <2> QED
    BY <1>1, <2>1, <2>2 DEF Pop, walkVars, TypeOK
<1>2. CASE candidates = <<>>
  <2>1. topsLeft # <<>> /\ topsLeft \in Seq(Node)
    BY <1>2 DEF HasCandidate, TypeOK
  <2> QED
    BY <1>2, <2>1 DEF Pop, Candidate, Rest
<1> QED
  BY <1>1, <1>2

LEMMA VisitTypes ==
  ASSUME TypeOK, ProjectGiven, TopKnown, NEW n \in Node, Visit(n)
  PROVE  /\ scanned' \in SUBSET Node /\ implicit' \in [Node -> SUBSET Node]
         /\ candidates' \in Seq(Node) /\ topsLeft' \in Seq(Node)
         /\ currentTop' \in Node
         /\ UNCHANGED <<project, stopped, poolVars, interrupted, status>>
<1>1. Pop /\ Scan(n) /\ HasCandidate
  BY DEF Visit
<1>2. /\ Rest \in Seq(Node) /\ topsLeft' \in Seq(Node)
      /\ currentTop' \in Node
  BY <1>1, PopTypes DEF TopKnown
<1>3. Group(n) \in SUBSET Node /\ \A shows : Found(Group(n), shows) \in SUBSET Node
  BY Groups, Closures DEF Found
<1>4. scanned' \in SUBSET Node /\ implicit' \in [Node -> SUBSET Node]
  BY <1>1, <1>3 DEF Scan, TypeOK
<1>5. Children(n) \in SUBSET Node
  BY <1>3, <1>4, ProjectTypes DEF Children, Project
<1>6. candidates' \in Seq(Node)
  <2> DEFINE new == [state EXCEPT ![n] = PENDING]
  <2>1. PICK order \in SetToSeqs({c \in Children(n) : new[c] = NO_STATE}) :
          candidates' = Rest \o order
    BY DEF Visit
  <2>2. order \in Seq(Node)
    BY <1>5, <2>1, Orders
  <2> QED
    BY <1>2, <2>1, <2>2
<1> QED
  BY <1>2, <1>4, <1>6 DEF Visit

LEMMA ReadyTypes ==
  ASSUME TypeOK, NEW n \in Node, MakeReady(n)
  PROVE  /\ state' \in [Node -> NO_STATE .. FAILED]
         /\ task' = n /\ pc' = "prepare"
         /\ UNCHANGED <<waitingParents, waitingSE, refCount, pendingChildren>>
  BY DEF MakeReady, TypeOK, NO_STATE, PENDING, EXECUTING, UP_TO_DATE, FAILED

\* What a step of the walk leaves to the pool
LEMMA WalkKeepsPool ==
  ASSUME TypeOK, JobsCounted, pc # "ended", UNCHANGED poolVars
  PROVE  JobsCounted'
  BY DEF JobsCounted, poolVars, Busy

LEMMA VisitFailedChildrenTypes ==
  ASSUME TInv, NEW n \in Node, VisitFailedChildren(n)
  PROVE  TInv'
<1>1. Visit(n) /\ pc = "next" /\ pc' = pc /\ task' = task
  BY DEF VisitFailedChildren, Visit, Looking
<1>2. state' \in [Node -> NO_STATE .. FAILED]
  BY DEF VisitFailedChildren, TInv, TypeOK, NO_STATE, PENDING, FAILED
<1>3. UNCHANGED <<project, stopped, poolVars, interrupted, status>>
  BY <1>1 DEF Visit
<1>4. TypeOK'
  BY <1>1, <1>2, <1>3, VisitTypes
  DEF VisitFailedChildren, TInv, TypeOK, poolVars
<1>5. TopKnown' /\ TurnsKept' /\ ProjectGiven'
  BY <1>1, <1>3, VisitTypes DEF TInv, TopKnown, TurnsKept, ProjectGiven, poolVars
<1> QED
  BY <1>1, <1>3, <1>4, <1>5, WalkKeepsPool DEF TInv

LEMMA VisitWaitsTypes ==
  ASSUME TInv, NEW n \in Node, VisitWaits(n)
  PROVE  TInv'
<1>1. Visit(n) /\ pc = "next" /\ pc' = pc /\ task' = task
  BY DEF VisitWaits, Visit, Looking
<1>2. state' \in [Node -> NO_STATE .. FAILED]
  BY DEF VisitWaits, TInv, TypeOK, NO_STATE, PENDING, FAILED
<1>3. UNCHANGED <<project, stopped, poolVars, interrupted, status>>
  BY <1>1 DEF Visit
<1>4. waitingParents' \in [Node -> SUBSET Node] /\ waitingSE' = waitingSE
  BY DEF VisitWaits, TInv, TypeOK
<1>5. NotReady(n) \in SUBSET Node
  <2>1. Group(n) \in SUBSET Node
    BY Groups DEF TInv
  <2>2. implicit' \in [Node -> SUBSET Node]
    BY <1>1, VisitTypes DEF TInv
  <2> QED
    BY <2>1, <2>2, ProjectTypes DEF TInv, NotReady, Children, Project
<1>6. refCount' \in [Node -> Int]
  <2>1. Cardinality({c \in NotReady(n) : n \notin waitingParents[c]}) \in Nat
    BY <1>5, NodeSubsets
  <2> QED
    BY <2>1 DEF VisitWaits, TInv, TypeOK
<1>7. pendingChildren' \in SUBSET Node
  BY <1>5 DEF VisitWaits, TInv, TypeOK
<1>8. TypeOK'
  BY <1>1, <1>2, <1>3, <1>4, <1>6, <1>7, VisitTypes DEF TInv, TypeOK, poolVars
<1>9. TopKnown' /\ TurnsKept' /\ ProjectGiven'
  BY <1>1, <1>3, VisitTypes DEF TInv, TopKnown, TurnsKept, ProjectGiven, poolVars
<1> QED
  BY <1>1, <1>3, <1>8, <1>9, WalkKeepsPool DEF TInv

LEMMA VisitSideEffectHeldTypes ==
  ASSUME TInv, NEW n \in Node, VisitSideEffectHeld(n)
  PROVE  TInv'
<1>1. Visit(n) /\ pc = "next" /\ pc' = pc /\ task' = task
  BY DEF VisitSideEffectHeld, Visit, Looking
<1>2. state' \in [Node -> NO_STATE .. FAILED]
  BY DEF VisitSideEffectHeld, TInv, TypeOK, NO_STATE, PENDING, FAILED
<1>3. UNCHANGED <<project, stopped, poolVars, interrupted, status>>
  BY <1>1 DEF Visit
<1>4. waitingSE' \in [Node -> SUBSET Node]
  BY DEF VisitSideEffectHeld, TInv, TypeOK
<1>5. TypeOK'
  BY <1>1, <1>2, <1>3, <1>4, VisitTypes
  DEF VisitSideEffectHeld, TInv, TypeOK, poolVars
<1>6. TopKnown' /\ TurnsKept' /\ ProjectGiven'
  BY <1>1, <1>3, VisitTypes DEF TInv, TopKnown, TurnsKept, ProjectGiven, poolVars
<1> QED
  BY <1>1, <1>3, <1>5, <1>6, WalkKeepsPool DEF TInv

LEMMA VisitReadyTypes ==
  ASSUME TInv, NEW n \in Node, VisitReady(n)
  PROVE  TInv'
<1>1. Visit(n) /\ MakeReady(n) /\ pc = "next"
  BY DEF VisitReady, Visit, Looking
<1>2. UNCHANGED <<project, stopped, poolVars, interrupted, status>>
  BY <1>1 DEF Visit
<1>3. TypeOK'
  BY <1>1, <1>2, VisitTypes, ReadyTypes DEF TInv, TypeOK, poolVars
<1>4. TopKnown' /\ TurnsKept' /\ ProjectGiven'
  BY <1>1, <1>2, VisitTypes, ReadyTypes
  DEF TInv, TopKnown, TurnsKept, ProjectGiven, poolVars
<1> QED
  BY <1>1, <1>2, <1>3, <1>4, WalkKeepsPool DEF TInv

LEMMA VisitScanFailsTypes ==
  ASSUME TInv, NEW n \in Node, VisitScanFails(n)
  PROVE  TInv'
<1>1. MakeReady(n) /\ pc = "next"
  BY DEF VisitScanFails, Looking
<1>2. UNCHANGED <<project, stopped, poolVars, interrupted, status>>
  BY DEF VisitScanFails
<1>3. /\ candidates' \in Seq(Node) /\ topsLeft' \in Seq(Node)
      /\ currentTop' \in Node
  BY PopTypes DEF VisitScanFails, TInv, TopKnown
<1>4. scanned' \in SUBSET Node /\ implicit' \in [Node -> SUBSET Node]
  BY DEF VisitScanFails, TInv, TypeOK
<1>5. TypeOK'
  BY <1>1, <1>2, <1>3, <1>4, ReadyTypes DEF TInv, TypeOK, poolVars
<1>6. TopKnown' /\ TurnsKept' /\ ProjectGiven'
  BY <1>1, <1>2, <1>3, ReadyTypes
  DEF TInv, TopKnown, TurnsKept, ProjectGiven, poolVars
<1> QED
  BY <1>1, <1>2, <1>5, <1>6, WalkKeepsPool DEF TInv

LEMMA SkipHandledTypes ==
  ASSUME TInv, SkipHandled
  PROVE  TInv'
<1>1. pc = "next" /\ HasCandidate /\ Pop /\ candidates' = Rest
  BY DEF SkipHandled, Looking
<1>2. UNCHANGED <<project, nodeVars, scanVars, pendingChildren, stopped, pc,
                  task, poolVars, interrupted, status>>
  BY DEF SkipHandled
<1>3. TypeOK'
  BY <1>1, <1>2, PopTypes DEF TInv, TypeOK, nodeVars, scanVars, poolVars
<1>4. TopKnown' /\ TurnsKept' /\ ProjectGiven'
  BY <1>1, <1>2, PopTypes DEF TInv, TopKnown, TurnsKept, ProjectGiven, poolVars
<1> QED
  BY <1>1, <1>2, <1>3, <1>4, WalkKeepsPool DEF TInv

LEMMA NoCandidateTypes ==
  ASSUME TInv, NoCandidate
  PROVE  TInv'
<1>1. /\ pc = "next" /\ pc' = IF jobs = 0 THEN "cleanup" ELSE "wait"
      /\ UNCHANGED <<project, state, waitingSE, scanVars, walkVars, stopped,
                     task, poolVars, interrupted, status>>
  BY DEF NoCandidate, Looking
<1>2. /\ waitingParents' \in [Node -> SUBSET Node]
      /\ refCount' \in [Node -> Int] /\ pendingChildren' \in SUBSET Node
      /\ candidates' \in Seq(Node)
      /\ candidates' # <<>> => candidates # <<>>
  <2>1. CASE stopped
    <3>1. ToSet(candidates) \in SUBSET Node
      BY DEF ToSet, TInv, TypeOK
    <3>2. /\ FlushedParents(ToSet(candidates)) \in [Node -> SUBSET Node]
          /\ FlushedCount(ToSet(candidates)) \in [Node -> Int]
      BY <3>1, FlushedTypes DEF TInv
    <3>3. /\ waitingParents' = FlushedParents(ToSet(candidates))
          /\ refCount' = FlushedCount(ToSet(candidates))
          /\ pendingChildren' \subseteq pendingChildren
          /\ candidates' = <<>>
      BY <2>1 DEF NoCandidate
    <3> QED
      BY <3>2, <3>3 DEF TInv, TypeOK
  <2>2. CASE ~stopped
    BY <2>2 DEF NoCandidate, TInv, TypeOK
  <2> QED
    BY <2>1, <2>2
<1>3. TypeOK'
  BY <1>1, <1>2 DEF TInv, TypeOK, scanVars, walkVars, poolVars
<1>4. TopKnown' /\ TurnsKept' /\ ProjectGiven'
  BY <1>1, <1>2
  DEF TInv, TypeOK, TopKnown, TurnsKept, ProjectGiven, walkVars, poolVars
<1> QED
  BY <1>1, <1>3, <1>4, WalkKeepsPool DEF TInv

-----------------------------------------------------------------------------
(* Tasks, threads and signals *)

LEMMA PrepareTypes ==
  ASSUME TInv, NEW n \in Node, Prepare(n)
  PROVE  TInv'
<1>1. pc = "prepare" /\ pc' = "next" /\ task' = NoNode
  BY DEF Prepare, Preparing
<1>2. UNCHANGED <<project, waitingSE, implicit, walkVars, poolVars, interrupted>>
  BY DEF Prepare
<1>3. currentTop \in Node
  BY <1>1 DEF TInv, TopKnown
<1>4. TaskTypes
  BY <1>3, ExecutedTypes, FailedTypes DEF Prepare, TInv
<1>5. TypeOK'
  BY <1>1, <1>2, <1>4 DEF TaskTypes, TInv, TypeOK, walkVars, poolVars
<1>6. TopKnown' /\ TurnsKept' /\ ProjectGiven'
  BY <1>1, <1>2, <1>3
  DEF TInv, TopKnown, TurnsKept, ProjectGiven, walkVars, poolVars
<1> QED
  BY <1>1, <1>2, <1>5, <1>6, WalkKeepsPool DEF TInv

LEMMA ExecuteTypes ==
  ASSUME TInv, NEW n \in Node, Execute(n)
  PROVE  TInv'
<1>1. pc = "prepare" /\ pc' = "next" /\ task' = NoNode
  BY DEF Execute, Preparing
<1>2. UNCHANGED <<project, waitingSE, implicit, walkVars, poolVars, interrupted>>
  BY DEF Execute
<1>3. currentTop \in Node
  BY <1>1 DEF TInv, TopKnown
<1>4. TaskTypes
  BY <1>3, ExecutedTypes, FailedTypes DEF Execute, TInv
<1>5. TypeOK'
  BY <1>1, <1>2, <1>4 DEF TaskTypes, TInv, TypeOK, walkVars, poolVars
<1>6. TopKnown' /\ TurnsKept' /\ ProjectGiven'
  BY <1>1, <1>2, <1>3
  DEF TInv, TopKnown, TurnsKept, ProjectGiven, walkVars, poolVars
<1> QED
  BY <1>1, <1>2, <1>5, <1>6, WalkKeepsPool DEF TInv

LEMMA DispatchTypes ==
  ASSUME TInv, NEW n \in Node, Dispatch(n)
  PROVE  TInv'
<1>1. /\ pc = "prepare" /\ task' = NoNode
      /\ requests' = Append(requests, n) /\ jobs' = jobs + 1
      /\ pc' = IF jobs' < project.jobs THEN "next" ELSE "wait"
      /\ UNCHANGED <<project, nodeVars, scanVars, candidates, walkVars,
                     pendingChildren, stopped, results, worker, interrupted, status>>
  BY DEF Dispatch, Preparing, AfterDispatch
<1>2. currentTop \in Node /\ jobs < project.jobs
  BY <1>1 DEF TInv, TopKnown, TurnsKept
<1>3. requests \in Seq(Node) /\ requests' \in Seq(Node) /\ Len(requests') = Len(requests) + 1
  BY <1>1 DEF TInv, JobsCounted
<1>4. jobs' \in 0 .. project.jobs
  BY <1>1, <1>2, ProjectTypes DEF TInv, TypeOK
<1>5. requests' \in Seq(Node \cup {Quit})
  BY <1>1 DEF TInv, TypeOK
<1>6. TypeOK'
  BY <1>1, <1>4, <1>5 DEF TInv, TypeOK, nodeVars, scanVars, walkVars
<1>7. JobsCounted'
  <2>1. Busy' = Busy /\ Len(results') = Len(results) /\ Len(results) \in Nat
    BY <1>1 DEF Busy, TInv, TypeOK
  <2>2. jobs = Len(requests) + Cardinality(Busy) + Len(results)
    BY <1>1 DEF TInv, JobsCounted
  <2>3. jobs' = Len(requests') + Cardinality(Busy) + Len(results)
    <3>1. Len(requests) \in Nat /\ Cardinality(Busy) \in Nat /\ jobs' = jobs + 1
      BY <1>1, BusyTypes DEF TInv, TypeOK
    <3> QED
      BY <1>3, <2>1, <2>2, <3>1
  <2> QED
    BY <1>3, <2>1, <2>3 DEF JobsCounted
<1>8. TopKnown' /\ TurnsKept' /\ ProjectGiven'
  BY <1>1, <1>2 DEF TInv, TopKnown, TurnsKept, ProjectGiven, walkVars
<1> QED
  BY <1>6, <1>7, <1>8 DEF TInv

LEMMA GetResultTypes ==
  ASSUME TInv, GetResult
  PROVE  TInv'
<1>1. /\ pc = "wait" /\ results # <<>>
      /\ results' = Tail(results) /\ jobs' = jobs - 1
      /\ pc' = IF Tail(results) = <<>> THEN "next" ELSE "wait"
      /\ UNCHANGED <<project, waitingSE, implicit, walkVars, task, requests,
                     worker, interrupted>>
  BY DEF GetResult
<1>2. results \in Seq(Task)
  BY DEF TInv, TypeOK
<1>3. Head(results) \in Task /\ results' \in Seq(Task) /\ Len(results') = Len(results) - 1
      /\ Len(results) \in Nat /\ Len(results) >= 1
  BY <1>1, <1>2
<1>4. requests \in Seq(Node) /\ Len(requests) \in Nat
      /\ jobs = Len(requests) + Cardinality(Busy) + Len(results)
  BY <1>1 DEF TInv, JobsCounted
<1>5. jobs > 0 /\ jobs \in 0 .. project.jobs
  BY <1>3, <1>4, BusyTypes DEF TInv, TypeOK
<1>6. currentTop \in Node
  BY <1>5 DEF TInv, TopKnown
<1>7. TaskTypes
  <2>1. Head(results).node \in Node
    BY <1>3 DEF Task
  <2>2. Executed(Head(results).node) \/ Failed(Head(results).node)
    BY DEF GetResult
  <2> QED
    BY <1>6, <2>1, <2>2, ExecutedTypes, FailedTypes DEF TInv
<1>8. jobs' \in 0 .. project.jobs /\ jobs' < project.jobs
  BY <1>1, <1>5, ProjectTypes DEF TInv
<1>9. TypeOK'
  BY <1>1, <1>3, <1>7, <1>8 DEF TaskTypes, TInv, TypeOK, walkVars
<1>10. JobsCounted'
  <2>1. Busy' = Busy /\ requests' = requests
    BY <1>1 DEF Busy
  <2>2. jobs' = Len(requests) + Cardinality(Busy) + Len(results')
    BY <1>1, <1>3, <1>4, BusyTypes
  <2> QED
    BY <1>4, <2>1, <2>2 DEF JobsCounted
<1>11. TopKnown' /\ TurnsKept' /\ ProjectGiven'
  BY <1>1, <1>6, <1>8 DEF TInv, TopKnown, TurnsKept, ProjectGiven, walkVars
<1> QED
  BY <1>9, <1>10, <1>11 DEF TInv

LEMMA WorkerTakeTypes ==
  ASSUME TInv, NEW w \in Worker, WorkerTake(w)
  PROVE  TInv'
<1>1. /\ worker[w] = NoNode /\ requests # <<>>
      /\ requests' = Tail(requests)
      /\ UNCHANGED <<project, nodeVars, scanVars, candidates, walkVars,
                     pendingChildren, stopped, pc, task, jobs, interrupted, status>>
  BY DEF WorkerTake
<1>2. /\ requests' \in Seq(Node \cup {Quit}) /\ Head(requests) \in Node \cup {Quit}
      /\ Len(requests') = Len(requests) - 1
  BY <1>1 DEF TInv, TypeOK
<1>3. worker' \in [Worker -> Node \cup {NoNode, Quit}] /\ results' \in Seq(Task)
  <2>1. CASE interrupted /\ Head(requests) # Quit
    <3>1. [node |-> Head(requests), ok |-> FALSE] \in Task
      BY <1>2, <2>1 DEF Task
    <3>2. results' = Append(results, [node |-> Head(requests), ok |-> FALSE])
          /\ worker' = worker
      BY <2>1 DEF WorkerTake
    <3> QED
      BY <3>1, <3>2 DEF TInv, TypeOK
  <2>2. CASE ~(interrupted /\ Head(requests) # Quit)
    <3>1. worker' = [worker EXCEPT ![w] = Head(requests)] /\ results' = results
      BY <2>2 DEF WorkerTake
    <3> QED
      BY <1>2, <3>1 DEF TInv, TypeOK
  <2> QED
    BY <2>1, <2>2
<1>4. TypeOK'
  BY <1>1, <1>2, <1>3 DEF TInv, TypeOK, nodeVars, scanVars, walkVars
<1>5. JobsCounted'
  <2> SUFFICES ASSUME pc # "ended"
               PROVE  /\ requests' \in Seq(Node)
                      /\ jobs = Len(requests') + Cardinality(Busy') + Len(results')
    BY <1>1 DEF JobsCounted
  <2>1. requests \in Seq(Node) /\ jobs = Len(requests) + Cardinality(Busy) + Len(results)
    BY DEF TInv, JobsCounted
  <2>2. requests' \in Seq(Node) /\ Head(requests) \in Node /\ Head(requests) # Quit
    BY <1>1, <2>1, NamesAssumption
  <2>3. Len(requests) \in Nat /\ Len(results) \in Nat /\ results \in Seq(Task)
    BY <2>1 DEF TInv, TypeOK
  <2>4. CASE interrupted
    <3>1. Busy' = Busy /\ Len(results') = Len(results) + 1
      BY <2>2, <2>3, <2>4 DEF WorkerTake, Busy
    <3> QED
      BY <1>2, <2>1, <2>2, <2>3, <3>1, BusyTypes
  <2>5. CASE ~interrupted
    <3>1. worker' = [worker EXCEPT ![w] = Head(requests)] /\ results' = results
      BY <2>5 DEF WorkerTake
    <3>2. Cardinality(Busy') = Cardinality(Busy) + 1
      BY <1>1, <2>2, <3>1, BusyMore DEF TInv, TypeOK
    <3> QED
      BY <1>2, <2>1, <2>2, <2>3, <3>1, <3>2, BusyTypes
  <2> QED
    BY <2>4, <2>5
<1>6. TopKnown' /\ TurnsKept' /\ ProjectGiven'
  BY <1>1 DEF TInv, TopKnown, TurnsKept, ProjectGiven, walkVars
<1> QED
  BY <1>4, <1>5, <1>6 DEF TInv

LEMMA WorkerFinishTypes ==
  ASSUME TInv, NEW w \in Worker, WorkerFinish(w)
  PROVE  TInv'
<1>1. /\ worker[w] \in Node /\ worker' = [worker EXCEPT ![w] = NoNode]
      /\ UNCHANGED <<project, nodeVars, scanVars, candidates, walkVars,
                     pendingChildren, stopped, pc, task, jobs, requests,
                     interrupted, status>>
  BY DEF WorkerFinish
<1>2. PICK ok \in BOOLEAN : results' = Append(results, [node |-> worker[w], ok |-> ok])
  BY DEF WorkerFinish, Outcomes
<1>3. results \in Seq(Task) /\ [node |-> worker[w], ok |-> ok] \in Task
  BY <1>1 DEF TInv, TypeOK, Task
<1>4. results' \in Seq(Task) /\ Len(results') = Len(results) + 1 /\ Len(results) \in Nat
  BY <1>2, <1>3
<1>5. TypeOK'
  BY <1>1, <1>4 DEF TInv, TypeOK, nodeVars, scanVars, walkVars
<1>6. JobsCounted'
  <2>1. Cardinality(Busy') = Cardinality(Busy) - 1
    BY <1>1, BusyLess DEF TInv, TypeOK
  <2>2. \A s \in Seq(Node) : Len(s) \in Nat
    OBVIOUS
  <2>3. /\ requests' = requests /\ jobs' = jobs /\ pc' = pc
        /\ Cardinality(Busy) \in Nat
    BY <1>1, BusyTypes DEF TInv
  <2> QED
    BY <1>4, <2>1, <2>2, <2>3 DEF TInv, JobsCounted
<1>7. TopKnown' /\ TurnsKept' /\ ProjectGiven'
  BY <1>1 DEF TInv, TopKnown, TurnsKept, ProjectGiven, walkVars
<1> QED
  BY <1>5, <1>6, <1>7 DEF TInv

LEMMA InterruptTypes ==
  ASSUME TInv, Interrupt
  PROVE  TInv'
<1>1. UNCHANGED <<project, nodeVars, scanVars, candidates, walkVars,
                  pendingChildren, pc, task, poolVars, status>>
      /\ stopped' = TRUE /\ interrupted' = TRUE /\ pc # "ended"
  BY DEF Interrupt
<1>2. TypeOK'
  BY <1>1 DEF TInv, TypeOK, nodeVars, scanVars, walkVars, poolVars
<1>3. TopKnown' /\ TurnsKept' /\ ProjectGiven'
  BY <1>1 DEF TInv, TopKnown, TurnsKept, ProjectGiven, walkVars, poolVars
<1> QED
  BY <1>1, <1>2, <1>3, WalkKeepsPool DEF TInv

LEMMA CleanupTypes ==
  ASSUME TInv, Cleanup
  PROVE  TInv'
<1>1. /\ pc = "cleanup" /\ pc' = "ended" /\ requests' = requests \o Sentinels
      /\ status' \in {"cycle", status}
      /\ UNCHANGED <<project, nodeVars, scanVars, candidates, walkVars,
                     pendingChildren, stopped, task, jobs, results, worker,
                     interrupted>>
  BY DEF Cleanup
<1>2. Sentinels \in Seq(Node \cup {Quit})
  BY NodeAssumption, FS_CardinalityType DEF Sentinels
<1>3. requests' \in Seq(Node \cup {Quit})
  BY <1>1, <1>2 DEF TInv, TypeOK
<1>4. TypeOK'
  BY <1>1, <1>3 DEF TInv, TypeOK, nodeVars, scanVars, walkVars
<1>5. JobsCounted' /\ TopKnown' /\ TurnsKept' /\ ProjectGiven'
  BY <1>1 DEF TInv, JobsCounted, TopKnown, TurnsKept, ProjectGiven, walkVars
<1> QED
  BY <1>4, <1>5 DEF TInv

-----------------------------------------------------------------------------
LEMMA TInit ==
  ASSUME Init
  PROVE  TInv
<1>1. ProjectGiven
  BY DEF Init, ProjectGiven
<1>2. project.tops \in Seq(Node) /\ project.jobs \in Nat /\ project.jobs >= 1
      /\ project \in Project
  BY <1>1, ProjectTypes DEF Project
<1>3. TypeOK
  <2>1. /\ state \in [Node -> NO_STATE .. FAILED]
        /\ waitingParents \in [Node -> SUBSET Node]
        /\ waitingSE \in [Node -> SUBSET Node]
        /\ refCount \in [Node -> Int]
        /\ implicit \in [Node -> SUBSET Node]
        /\ worker \in [Worker -> Node \cup {NoNode, Quit}]
    BY DEF Init, NO_STATE, FAILED
  <2>2. /\ candidates \in Seq(Node) /\ topsLeft \in Seq(Node)
        /\ requests \in Seq(Node \cup {Quit}) /\ results \in Seq(Task)
        /\ jobs \in 0 .. project.jobs
    BY <1>2 DEF Init
  <2> QED
    BY <1>2, <2>1, <2>2 DEF Init, TypeOK
<1>4. JobsCounted
  <2>1. Busy = {}
    BY NamesAssumption DEF Init, Busy
  <2> QED
    BY <2>1, FS_EmptySet DEF Init, JobsCounted
<1> QED
  BY <1>1, <1>2, <1>3, <1>4 DEF Init, TInv, TurnsKept, TopKnown

LEMMA TNext ==
  ASSUME TInv, [Next]_vars
  PROVE  TInv'
<1>1. ASSUME NEW n \in Node, Walk(n) PROVE TInv'
  BY <1>1, VisitFailedChildrenTypes, VisitWaitsTypes, VisitSideEffectHeldTypes,
     VisitReadyTypes, VisitScanFailsTypes, PrepareTypes, DispatchTypes, ExecuteTypes
  DEF Walk
<1>2. CASE MainThread
  <2>1. NoCandidate \/ SkipHandled \/ GetResult \/ Cleanup \/ \E n \in Node : Walk(n)
    BY <1>2 DEF MainThread
  <2>2. CASE NoCandidate \/ SkipHandled
    BY <2>2, NoCandidateTypes, SkipHandledTypes
  <2>3. CASE GetResult \/ Cleanup
    BY <2>3, GetResultTypes, CleanupTypes
  <2> QED
    BY <1>1, <2>1, <2>2, <2>3
<1>3. ASSUME NEW w \in Worker, WorkerTake(w) \/ WorkerFinish(w) PROVE TInv'
  BY <1>3, WorkerTakeTypes, WorkerFinishTypes
<1>4. CASE UNCHANGED vars
  BY <1>4 DEF vars, nodeVars, scanVars, walkVars, poolVars, TInv, TypeOK,
     ProjectGiven, JobsCounted, Busy, TurnsKept, TopKnown
<1> QED
  BY <1>2, <1>3, <1>4, InterruptTypes DEF Next

LEMMA TInvAlways == Spec => []TInv
<1>1. Init => TInv
  BY TInit
<1>2. TInv /\ [Next]_vars => TInv'
  BY TNext
<1> QED
  BY <1>1, <1>2, PTL DEF Spec

\* The state has its types for every project, number of threads and
\* interleaving: no more tasks are out than -j allows, and the main thread
\* never takes a result it has not handed out
THEOREM TypesAlways == Spec => []TypeOK
<1>1. TInv => TypeOK
  BY DEF TInv
<1> QED
  BY <1>1, TInvAlways, PTL

-----------------------------------------------------------------------------
(* The tasks under way: each is in one place, and no node is in two tasks    *)

\* The tasks handed out: in the queue, with a worker, ended
Queued == {n \in Node : \E i \in DOMAIN requests : requests[i] = n}
Working == {n \in Node : \E w \in Worker : worker[w] = n}
Ended == {n \in Node : \E i \in DOMAIN results : results[i].node = n}
Out == Queued \cup Working \cup Ended

\* The main thread's own task, when it is a command
Holding(n) ==
  pc = "prepare" /\ task = n /\ ~PrepareFails(n) /\ state[n] = EXECUTING

\* No task is handed out twice
OnceEach ==
  /\ \A i, j \in DOMAIN requests :
       requests[i] \in Node /\ requests[i] = requests[j] => i = j
  /\ \A i, j \in DOMAIN results : results[i].node = results[j].node => i = j
  /\ \A v, w \in Worker : worker[v] \in Node /\ worker[v] = worker[w] => v = w
  /\ Queued \cap Working = {} /\ Queued \cap Ended = {} /\ Working \cap Ended = {}
  /\ pc = "prepare" => task \notin Out

\* A result is bad only if the command fails or was interrupted
FailuresExplained ==
  /\ interrupted => stopped
  /\ \A i \in DOMAIN results :
       ~results[i].ok => interrupted \/ Fails(results[i].node, "action")

PoolInv == OnceEach /\ FailuresExplained

\* What the command of n writes
Writes(n) == Group(n) \cup SideEffects(Group(n))

Disjoint(m, n) == Writes(m) \cap Writes(n) = {}

-----------------------------------------------------------------------------
(* The project does not change *)

LEMMA SameProject ==
  ASSUME project' = project
  PROVE  /\ \A n : /\ Group(n)' = Group(n) /\ Writes(n)' = Writes(n)
                   /\ PrepareFails(n)' = PrepareFails(n)
                   /\ Stale(n)' = Stale(n)
         /\ \A n, k : Fails(n, k)' = Fails(n, k)
         /\ \A m, n : Disjoint(m, n)' = Disjoint(m, n)
         /\ Undisturbed' = Undisturbed
  BY DEF Group, Writes, SideEffects, PrepareFails, Stale, Fails, HasBuilder,
         Disjoint, Undisturbed

LEMMA Partners ==
  ASSUME ProjectGiven, NEW n \in Node, NEW t \in Group(n)
  PROVE  Group(t) = Group(n)
  BY Groups, ProjectTypes DEF WellFormed, Group

LEMMA Builders ==
  ASSUME ProjectGiven, NEW n \in Node
  PROVE  /\ n \in project.builder => Group(n) \subseteq project.builder
         /\ n \notin project.builder => Group(n) = {n} /\ SideEffects(Group(n)) = {}
         /\ Stale(n) => n \in project.builder
         /\ Fails(n, "scan") => Group(n) = {n} /\ n \in project.builder
<1>1. /\ n \in project.builder => Group(n) \subseteq project.builder
      /\ n \notin project.builder => Group(n) = {n} /\ project.se[n] = {}
  BY ProjectTypes DEF WellFormed, Group
<1>2. Stale(n) => n \in project.builder
  <2> SUFFICES ASSUME NEW t \in Group(n), t \in project.builder
               PROVE  n \in project.builder
    BY DEF Stale
  <2>1. t \in Node /\ Group(t) = Group(n) /\ n \in Group(n)
    BY Groups, Partners
  <2>2. Group(t) \subseteq project.builder
    BY <2>1, ProjectTypes DEF WellFormed, Group
  <2> QED
    BY <2>1, <2>2
<1>3. Fails(n, "scan") => Group(n) = {n} /\ n \in project.builder
  <2> SUFFICES ASSUME NEW t \in Group(n), project.bad[t] = "scan"
               PROVE  Group(n) = {n} /\ n \in project.builder
    BY DEF Fails
  <2>1. t \in Node /\ Group(t) = Group(n) /\ n \in Group(n)
    BY Groups, Partners
  <2>2. Group(t) = {t} /\ t \in project.builder
    BY <2>1, ProjectTypes DEF WellFormed, Group
  <2> QED
    BY <2>1, <2>2
<1> QED
  BY <1>1, <1>2, <1>3 DEF SideEffects

LEMMA SideEffectsUnbuilt ==
  ASSUME ProjectGiven, NEW n \in Node, NEW s \in SideEffects(Group(n))
  PROVE  s \in Node /\ s \notin project.builder /\ Group(s) = {s}
<1>1. PICK t \in Group(n) : s \in project.se[t]
  BY DEF SideEffects
<1>2. t \in Node
  BY Groups
<1>3. s \in Node /\ s \notin project.builder
  BY <1>1, <1>2, ProjectTypes DEF WellFormed, Project
<1> QED
  BY <1>3, Builders

-----------------------------------------------------------------------------
(* Which commands are under way *)

LEMMA UnderWayIs ==
  ASSUME TInv
  PROVE  UnderWay = Out \cup {n \in Node : Holding(n)}
  BY DEF UnderWay, Out, Holding, Queued, Working, Ended, Preparing, ToSet, TInv, TypeOK

LEMMA UnderWayNext ==
  ASSUME TInv'
  PROVE  UnderWay' = Out' \cup {n \in Node : Holding(n)'}
  BY DEF UnderWay, Out, Holding, Queued, Working, Ended, Preparing, ToSet, TInv, TypeOK

LEMMA OutSame ==
  ASSUME UNCHANGED poolVars
  PROVE  Out' = Out /\ Queued' = Queued /\ Working' = Working /\ Ended' = Ended
  BY DEF poolVars, Out, Queued, Working, Ended

LEMMA OutKnown ==
  ASSUME TInv
  PROVE  Out \subseteq UnderWay /\ UnderWay \subseteq Node
  BY UnderWayIs DEF Out, Queued, Working, Ended

\* The queue of results, without its head
LEMMA ResultsTail ==
  ASSUME TInv, OnceEach, GetResult
  PROVE  /\ Head(results).node \in Ended /\ Head(results) = results[1]
         /\ 1 \in DOMAIN results
         /\ \A i \in DOMAIN results' :
              i + 1 \in DOMAIN results /\ results'[i] = results[i + 1] /\ i \in Nat
                /\ i + 1 # 1
         /\ Ended' = Ended \ {Head(results).node}
<1>1. results \in Seq(Task) /\ results # <<>> /\ results' = Tail(results)
  BY DEF GetResult, TInv, TypeOK
<1>2. /\ Head(results) = results[1] /\ 1 \in DOMAIN results
      /\ \A i \in DOMAIN results' :
           i + 1 \in DOMAIN results /\ results'[i] = results[i + 1] /\ i \in Nat
             /\ i + 1 # 1
      /\ \A i \in DOMAIN results : i # 1 => i - 1 \in DOMAIN results' /\ i \in Nat
  BY <1>1
<1>3. \A i \in DOMAIN results : results[i].node \in Node
  <2>1. \A i \in DOMAIN results : results[i] \in Task
    BY <1>1
  <2> QED
    BY <2>1 DEF Task
<1>4. ASSUME NEW k \in Ended, k # results[1].node
      PROVE  k \in Ended'
  <2>1. PICK i \in DOMAIN results : results[i].node = k
    BY <1>4 DEF Ended
  <2>2. i - 1 \in DOMAIN results' /\ results'[i - 1] = results[i]
    BY <1>2, <1>4, <2>1
  <2> QED
    BY <1>3, <2>1, <2>2 DEF Ended
<1>5. ASSUME NEW k \in Ended'
      PROVE  k \in Ended /\ k # results[1].node
  <2>1. PICK i \in DOMAIN results' : results'[i].node = k
    BY DEF Ended
  <2>2. i + 1 \in DOMAIN results /\ results[i + 1].node = k /\ i + 1 # 1
    BY <1>2, <2>1
  <2>3. k \in Ended
    BY <1>3, <2>2 DEF Ended
  <2> QED
    BY <1>2, <2>2, <2>3 DEF OnceEach
<1>6. results[1].node \in Ended
  BY <1>2, <1>3 DEF Ended
<1> QED
  BY <1>2, <1>4, <1>5, <1>6

\* The queue of tasks, without its head
LEMMA RequestsTail ==
  ASSUME TInv, OnceEach, requests # <<>>, requests' = Tail(requests)
  PROVE  /\ Head(requests) \in Node \cup {Quit}
         /\ \A i, j \in DOMAIN requests' :
              requests'[i] \in Node /\ requests'[i] = requests'[j] => i = j
         /\ Queued' = Queued \ {Head(requests)}
         /\ Head(requests) \in Node => Head(requests) \in Queued
<1>1. requests \in Seq(Node \cup {Quit})
  BY DEF TInv, TypeOK
<1>2. /\ Head(requests) = requests[1] /\ 1 \in DOMAIN requests
      /\ \A i \in DOMAIN requests' :
           i + 1 \in DOMAIN requests /\ requests'[i] = requests[i + 1] /\ i \in Nat
             /\ i + 1 # 1
      /\ \A i \in DOMAIN requests : i # 1 => i - 1 \in DOMAIN requests' /\ i \in Nat
      /\ Head(requests) \in Node \cup {Quit}
  BY <1>1
<1>3. ASSUME NEW k \in Queued, k # requests[1]
      PROVE  k \in Queued'
  <2>1. PICK i \in DOMAIN requests : requests[i] = k
    BY DEF Queued
  <2>2. i - 1 \in DOMAIN requests' /\ requests'[i - 1] = requests[i]
    BY <1>2, <1>3, <2>1
  <2> QED
    BY <2>1, <2>2 DEF Queued
<1>4. ASSUME NEW k \in Queued'
      PROVE  k \in Queued /\ k # requests[1]
  <2>1. PICK i \in DOMAIN requests' : requests'[i] = k /\ k \in Node
    BY DEF Queued
  <2>2. i + 1 \in DOMAIN requests /\ requests[i + 1] = k /\ i + 1 # 1
    BY <1>2, <2>1
  <2> QED
    BY <1>2, <2>1, <2>2 DEF OnceEach, Queued
<1>5. ASSUME NEW i \in DOMAIN requests', NEW j \in DOMAIN requests',
             requests'[i] \in Node, requests'[i] = requests'[j]
      PROVE  i = j
  <2>1. i + 1 = j + 1 /\ i \in Nat /\ j \in Nat
    BY <1>2, <1>5 DEF OnceEach
  <2> QED
    BY <2>1
<1>6. Head(requests) \in Node => Head(requests) \in Queued
  BY <1>2 DEF Queued
<1> QED
  BY <1>2, <1>3, <1>4, <1>5, <1>6

-----------------------------------------------------------------------------
(* How tasks change hands *)

\* A step that hands out nothing and takes nothing back
LEMMA PoolQuiet ==
  ASSUME PoolInv, project' = project, UNCHANGED poolVars,
         interrupted' = interrupted, stopped => stopped', pc' # "prepare"
  PROVE  PoolInv' /\ Out' = Out
<1>1. OnceEach' /\ Out' = Out
  BY OutSame DEF PoolInv, OnceEach, poolVars
<1>2. FailuresExplained'
  BY SameProject DEF PoolInv, FailuresExplained, poolVars
<1> QED
  BY <1>1, <1>2 DEF PoolInv

\* The main thread takes up a node
LEMMA PoolTakenUp ==
  ASSUME TInv, PoolInv, NEW n \in Node, pc = "next", MakeReady(n), n \notin Out,
         project' = project, UNCHANGED poolVars, UNCHANGED <<interrupted, stopped>>
  PROVE  PoolInv' /\ Out' = Out
<1>1. pc' = "prepare" /\ task' = n
  BY DEF MakeReady
<1>2. OnceEach' /\ Out' = Out
  BY <1>1, OutSame DEF PoolInv, OnceEach, poolVars
<1>3. FailuresExplained'
  BY SameProject DEF PoolInv, FailuresExplained, poolVars
<1> QED
  BY <1>2, <1>3 DEF PoolInv

LEMMA PoolDispatched ==
  ASSUME TInv, TInv', PoolInv, NEW n \in Node, Dispatch(n)
  PROVE  PoolInv' /\ Out' = Out \cup {n} /\ UnderWay' = UnderWay
<1>1. /\ pc = "prepare" /\ task = n /\ ~PrepareFails(n) /\ state[n] = EXECUTING
      /\ requests' = Append(requests, n) /\ pc' \in {"next", "wait"}
      /\ UNCHANGED <<project, state, stopped, interrupted, results, worker>>
  BY DEF Dispatch, Preparing, AfterDispatch, nodeVars
<1>2. requests \in Seq(Node)
  BY <1>1 DEF TInv, JobsCounted
<1>3. /\ DOMAIN requests' = DOMAIN requests \cup {Len(requests) + 1}
      /\ Len(requests) + 1 \notin DOMAIN requests
      /\ requests'[Len(requests) + 1] = n
      /\ \A i \in DOMAIN requests : requests'[i] = requests[i]
  BY <1>1, <1>2
<1>4. Queued' = Queued \cup {n} /\ Working' = Working /\ Ended' = Ended
  BY <1>1, <1>3 DEF Queued, Working, Ended
<1>5. n \notin Out
  BY <1>1 DEF PoolInv, OnceEach
<1>6. UnderWay' = UnderWay
  <2>1. UnderWay = Out \cup {n}
    BY <1>1, UnderWayIs DEF Holding
  <2>2. UnderWay' = Out'
    BY <1>1, UnderWayNext DEF Holding
  <2> QED
    BY <1>4, <2>1, <2>2 DEF Out
<1>7. OnceEach'
  <2>1. \A i \in DOMAIN requests : requests[i] # n
    BY <1>5 DEF Out, Queued
  <2> QED
    BY <1>1, <1>3, <1>4, <1>5, <2>1 DEF PoolInv, OnceEach, Out
<1>8. FailuresExplained'
  BY <1>1, SameProject DEF PoolInv, FailuresExplained
<1> QED
  BY <1>4, <1>6, <1>7, <1>8 DEF PoolInv, Out

LEMMA PoolResult ==
  ASSUME TInv, TInv', PoolInv, GetResult
  PROVE  LET n == Head(results).node IN
         /\ n \in Node /\ n \in Out /\ Out' = Out \ {n} /\ OnceEach'
         /\ UnderWay = Out /\ UnderWay' = Out'
         /\ (stopped => stopped') => FailuresExplained'
         /\ Head(results).ok \/ stopped \/ Fails(n, "action")
<1> DEFINE n == Head(results).node
<1>1. /\ pc = "wait" /\ pc' # "prepare" /\ project' = project
      /\ UNCHANGED <<requests, worker, interrupted>>
  BY DEF GetResult
<1>2. n \in Ended /\ Head(results) = results[1] /\ 1 \in DOMAIN results
      /\ Ended' = Ended \ {n}
  BY ResultsTail DEF PoolInv
<1>3. n \in Node /\ n \notin Queued /\ n \notin Working
  BY <1>2 DEF Ended, PoolInv, OnceEach
<1>4. Queued' = Queued /\ Working' = Working
  BY <1>1 DEF Queued, Working
<1>5. UnderWay = Out /\ UnderWay' = Out'
  BY <1>1, UnderWayIs, UnderWayNext DEF Holding
<1>6. n \in Out /\ Out' = Out \ {n}
  BY <1>2, <1>3, <1>4 DEF Out
<1>7. OnceEach'
  <2>1. \A i, j \in DOMAIN results' : results'[i].node = results'[j].node => i = j
    <3> SUFFICES ASSUME NEW i \in DOMAIN results', NEW j \in DOMAIN results',
                        results'[i].node = results'[j].node
                 PROVE  i = j
      OBVIOUS
    <3>1. /\ i + 1 \in DOMAIN results /\ results'[i] = results[i + 1] /\ i \in Nat
          /\ j + 1 \in DOMAIN results /\ results'[j] = results[j + 1] /\ j \in Nat
      BY ResultsTail DEF PoolInv
    <3>2. i + 1 = j + 1
      BY <3>1 DEF PoolInv, OnceEach
    <3> QED
      BY <3>1, <3>2
  <2> QED
    BY <1>1, <1>2, <1>4, <2>1 DEF PoolInv, OnceEach
<1>8. (stopped => stopped') => FailuresExplained'
  BY <1>1, ResultsTail, SameProject DEF PoolInv, FailuresExplained
<1>9. Head(results).ok \/ stopped \/ Fails(n, "action")
  BY <1>2 DEF PoolInv, FailuresExplained
<1> QED
  BY <1>3, <1>5, <1>6, <1>7, <1>8, <1>9

\* A task moves on in the pool
LEMMA SameUnderWay ==
  ASSUME TInv, TInv', Out' = Out, UNCHANGED <<project, state, pc, task>>
  PROVE  UnderWay' = UnderWay
<1>1. \A m : Holding(m)' <=> Holding(m)
  BY SameProject DEF Holding
<1> QED
  BY <1>1, UnderWayIs, UnderWayNext

LEMMA PoolTaken ==
  ASSUME TInv, TInv', PoolInv, NEW w \in Worker, WorkerTake(w)
  PROVE  PoolInv' /\ Out' = Out /\ UnderWay' = UnderWay
<1> DEFINE n == Head(requests)
<1>1. /\ worker[w] = NoNode /\ requests # <<>> /\ requests' = Tail(requests)
      /\ UNCHANGED <<project, state, stopped, pc, task, interrupted>>
  BY DEF WorkerTake, nodeVars
<1>2. /\ n \in Node \cup {Quit}
      /\ \A i, j \in DOMAIN requests' :
           requests'[i] \in Node /\ requests'[i] = requests'[j] => i = j
      /\ Queued' = Queued \ {n} /\ (n \in Node => n \in Queued)
  BY <1>1, RequestsTail DEF PoolInv
<1>3. Queued \subseteq Node /\ Working \subseteq Node /\ Ended \subseteq Node
  BY DEF Queued, Working, Ended
<1>4. n \in Node => n \notin Working /\ n \notin Ended
  BY <1>2 DEF PoolInv, OnceEach
<1>5. CASE interrupted /\ n # Quit
  <2>1. /\ n \in Node /\ worker' = worker
        /\ results' = Append(results, [node |-> n, ok |-> FALSE])
    BY <1>2, <1>5 DEF WorkerTake
  <2>2. results \in Seq(Task)
    BY DEF TInv, TypeOK
  <2>3. /\ DOMAIN results' = DOMAIN results \cup {Len(results) + 1}
        /\ Len(results) + 1 \notin DOMAIN results
        /\ results'[Len(results) + 1] = [node |-> n, ok |-> FALSE]
        /\ \A i \in DOMAIN results : results'[i] = results[i]
    BY <2>1, <2>2
  <2>4. Ended' = Ended \cup {n} /\ Working' = Working
    BY <2>1, <2>3 DEF Ended, Working
  <2>5. Out' = Out
    BY <1>2, <2>1, <2>4 DEF Out
  <2>6. \A i \in DOMAIN results : results[i].node # n
    BY <1>4, <2>1 DEF Ended
  <2>7. \A i, j \in DOMAIN results' : results'[i].node = results'[j].node => i = j
    BY <2>3, <2>6 DEF PoolInv, OnceEach
  <2>8. /\ Queued' \cap Working' = {} /\ Queued' \cap Ended' = {}
        /\ Working' \cap Ended' = {}
    BY <1>2, <1>4, <2>1, <2>4 DEF PoolInv, OnceEach
  <2>9. OnceEach'
    BY <1>1, <1>2, <2>1, <2>5, <2>7, <2>8 DEF PoolInv, OnceEach
  <2>10. FailuresExplained'
    BY <1>1, <1>5, <2>3, SameProject DEF PoolInv, FailuresExplained
  <2> QED
    BY <1>1, <2>5, <2>9, <2>10, SameUnderWay DEF PoolInv
<1>6. CASE ~(interrupted /\ n # Quit)
  <2>1. results' = results /\ worker' = [worker EXCEPT ![w] = n]
    BY <1>6 DEF WorkerTake
  <2>2. worker \in [Worker -> Node \cup {NoNode, Quit}]
    BY DEF TInv, TypeOK
  <2>3. worker'[w] = n /\ \A v \in Worker \ {w} : worker'[v] = worker[v]
    BY <2>1, <2>2
  <2>4. Ended' = Ended
    BY <2>1 DEF Ended
  <2>5. n = Quit => n \notin Node
    BY NamesAssumption
  <2>6. worker[w] \notin Node
    BY <1>1, NamesAssumption
  <2>7. Working' = Working \cup ({n} \cap Node)
    BY <2>3, <2>6 DEF Working
  <2>8. Out' = Out
    BY <1>2, <1>3, <2>4, <2>7 DEF Out
  <2>9. \A u, v \in Worker : worker'[u] \in Node /\ worker'[u] = worker'[v] => u = v
    <3>1. n \in Node => \A v \in Worker : worker[v] # n
      BY <1>4 DEF Working
    <3> QED
      BY <2>3, <3>1 DEF PoolInv, OnceEach
  <2>10. /\ Queued' \cap Working' = {} /\ Queued' \cap Ended' = {}
         /\ Working' \cap Ended' = {}
    BY <1>2, <1>4, <2>4, <2>7 DEF PoolInv, OnceEach
  <2>11. OnceEach'
    BY <1>1, <1>2, <2>1, <2>8, <2>9, <2>10 DEF PoolInv, OnceEach
  <2>12. FailuresExplained'
    BY <1>1, <2>1, SameProject DEF PoolInv, FailuresExplained
  <2> QED
    BY <1>1, <2>8, <2>11, <2>12, SameUnderWay DEF PoolInv
<1> QED
  BY <1>5, <1>6

LEMMA PoolFinished ==
  ASSUME TInv, TInv', PoolInv, NEW w \in Worker, WorkerFinish(w)
  PROVE  PoolInv' /\ Out' = Out /\ UnderWay' = UnderWay
<1> DEFINE n == worker[w]
<1>1. /\ n \in Node /\ worker' = [worker EXCEPT ![w] = NoNode]
      /\ UNCHANGED <<project, state, stopped, pc, task, requests, interrupted>>
  BY DEF WorkerFinish, nodeVars
<1>2. PICK ok \in Outcomes(n) : results' = Append(results, [node |-> n, ok |-> ok])
  BY DEF WorkerFinish
<1>3. ok \/ Fails(n, "action") \/ interrupted
  BY <1>2 DEF Outcomes
<1>4. results \in Seq(Task) /\ worker \in [Worker -> Node \cup {NoNode, Quit}]
  BY DEF TInv, TypeOK
<1>5. /\ DOMAIN results' = DOMAIN results \cup {Len(results) + 1}
      /\ Len(results) + 1 \notin DOMAIN results
      /\ results'[Len(results) + 1] = [node |-> n, ok |-> ok]
      /\ \A i \in DOMAIN results : results'[i] = results[i]
  BY <1>2, <1>4
<1>6. worker'[w] = NoNode /\ \A v \in Worker \ {w} : worker'[v] = worker[v]
  BY <1>1, <1>4
<1>7. Ended' = Ended \cup {n} /\ Queued' = Queued
  BY <1>1, <1>5 DEF Ended, Queued
<1>8. n \in Working /\ n \notin Ended /\ n \notin Queued
  BY <1>1 DEF PoolInv, OnceEach, Working
<1>9. Working' = Working \ {n}
  <2>1. \A v \in Worker \ {w} : worker[v] # n
    BY <1>1 DEF PoolInv, OnceEach
  <2> QED
    BY <1>1, <1>6, <2>1, NamesAssumption DEF Working
<1>10. Out' = Out
  BY <1>7, <1>8, <1>9 DEF Out
<1>11. OnceEach'
  <2>1. \A i \in DOMAIN results : results[i].node # n
    BY <1>8, <1>1 DEF Ended
  <2>2. \A i, j \in DOMAIN results' : results'[i].node = results'[j].node => i = j
    BY <1>5, <2>1 DEF PoolInv, OnceEach
  <2>3. \A u, v \in Worker : worker'[u] \in Node /\ worker'[u] = worker'[v] => u = v
    BY <1>6, NamesAssumption DEF PoolInv, OnceEach
  <2>4. /\ Queued' \cap Working' = {} /\ Queued' \cap Ended' = {}
        /\ Working' \cap Ended' = {}
    BY <1>7, <1>8, <1>9 DEF PoolInv, OnceEach
  <2> QED
    BY <1>1, <1>10, <2>2, <2>3, <2>4 DEF PoolInv, OnceEach
<1>12. FailuresExplained'
  BY <1>1, <1>3, <1>5, SameProject DEF PoolInv, FailuresExplained
<1> QED
  BY <1>1, <1>10, <1>11, <1>12, SameUnderWay DEF PoolInv

LEMMA PoolInterrupted ==
  ASSUME TInv, TInv', PoolInv, Interrupt
  PROVE  PoolInv' /\ Out' = Out /\ UnderWay' = UnderWay
<1>1. /\ UNCHANGED <<project, state, pc, task>> /\ UNCHANGED poolVars
      /\ stopped' = TRUE
  BY DEF Interrupt, nodeVars
<1>2. Out' = Out
  BY <1>1, OutSame
<1>3. OnceEach'
  BY <1>1, OutSame DEF PoolInv, OnceEach, poolVars
<1>4. FailuresExplained'
  BY <1>1, SameProject DEF Interrupt, PoolInv, FailuresExplained, poolVars
<1> QED
  BY <1>1, <1>2, <1>3, <1>4, SameUnderWay DEF PoolInv

LEMMA PoolCleanedUp ==
  ASSUME TInv, TInv', PoolInv, Cleanup
  PROVE  PoolInv' /\ Out' = Out /\ UnderWay' = UnderWay
<1>1. /\ pc = "cleanup" /\ pc' = "ended" /\ requests' = requests \o Sentinels
      /\ UNCHANGED <<project, state, stopped, interrupted, results, worker>>
  BY DEF Cleanup, nodeVars
<1>2. requests \in Seq(Node)
  BY <1>1 DEF TInv, JobsCounted
<1>3. Sentinels \in Seq({Quit})
  BY NodeAssumption, FS_CardinalityType DEF Sentinels
<1>4. \A i \in DOMAIN requests' :
        IF i \in DOMAIN requests THEN requests'[i] = requests[i]
        ELSE requests'[i] = Quit
  BY <1>1, <1>2, <1>3
<1>5. DOMAIN requests \subseteq DOMAIN requests'
  BY <1>1, <1>2, <1>3
<1>6. Queued' = Queued /\ Working' = Working /\ Ended' = Ended
  BY <1>1, <1>4, <1>5, NamesAssumption DEF Queued, Working, Ended
<1>7. UnderWay' = UnderWay
  BY <1>1, <1>6, UnderWayIs, UnderWayNext DEF Holding, Out
<1>8. OnceEach'
  BY <1>1, <1>4, <1>6, NamesAssumption DEF PoolInv, OnceEach
<1>9. FailuresExplained'
  BY <1>1, SameProject DEF PoolInv, FailuresExplained
<1> QED
  BY <1>6, <1>7, <1>8, <1>9 DEF PoolInv, Out

-----------------------------------------------------------------------------
LEMMA PoolInit ==
  ASSUME Init
  PROVE  PoolInv /\ UnderWay = {} /\ Out = {}
<1>1. UnderWay = {} /\ Out = {}
  BY NamesAssumption
  DEF Init, UnderWay, Preparing, ToSet, Out, Queued, Working, Ended
<1> QED
  BY <1>1, NamesAssumption
  DEF Init, PoolInv, OnceEach, FailuresExplained, Out, Queued, Working, Ended

LEMMA StoppedStays ==
  ASSUME NEW n, Executed(n) \/ Failed(n), stopped
  PROVE  stopped'
  BY DEF Executed, Failed

\* The project is chosen once
LEMMA ProjectStays ==
  ASSUME [Next]_vars
  PROVE  project' = project
  BY DEF Next, MainThread, Walk, NoCandidate, SkipHandled, GetResult, Cleanup,
     VisitFailedChildren, VisitWaits, VisitSideEffectHeld, VisitReady, Visit,
     VisitScanFails, Prepare, Dispatch, Execute, WorkerTake, WorkerFinish,
     Interrupt, vars

-----------------------------------------------------------------------------
(* Commands that write the same file never run together: SideEffectsApart    *)

\* Until the walk is stopped, what a command writes is marked as executing
Marked ==
  ~stopped => \A n \in UnderWay : \A x \in Writes(n) : state[x] = EXECUTING

\* Only builders have commands
BuildersOnly == UnderWay \subseteq project.builder

\* No two commands write the same file
WritesApart == \A m, n \in UnderWay : m # n => Disjoint(m, n)

\* Nor does the node the main thread holds, whatever becomes of it
HeldApart ==
  pc = "prepare" /\ ~Fails(task, "scan") =>
    \A m \in UnderWay : m # task => Disjoint(m, task)

CInv == PoolInv /\ Marked /\ BuildersOnly /\ WritesApart /\ HeldApart

-----------------------------------------------------------------------------
LEMMA WritesTypes ==
  ASSUME ProjectGiven, NEW n \in Node
  PROVE  Writes(n) \subseteq Node /\ n \in Writes(n) /\ Group(n) \subseteq Writes(n)
  BY Groups, SideEffectTypes DEF Writes

\* A node still to be looked at touches no command under way
LEMMA Untouched ==
  ASSUME TInv, CInv, ~stopped, NEW n \in Node, state[n] <= PENDING, NEW m \in UnderWay
  PROVE  m # n /\ Group(n) \cap Writes(m) = {} /\ n \notin Writes(m)
<1>1. m \in Node /\ m \in project.builder
  BY OutKnown DEF CInv, BuildersOnly
<1>2. \A x \in Writes(m) : state[x] = EXECUTING
  BY DEF CInv, Marked
<1>3. n \notin Writes(m)
  BY <1>2 DEF PENDING, EXECUTING
<1>4. ASSUME NEW t \in Group(n), t \in Writes(m)
      PROVE  FALSE
  <2>1. t \in Node /\ Group(t) = Group(n) /\ n \in Group(n)
    BY Groups, Partners DEF TInv
  <2>2. CASE t \in Group(m)
    <3>1. Group(t) = Group(m)
      BY <1>1, <2>2, Partners DEF TInv
    <3> QED
      BY <1>3, <2>1, <3>1 DEF Writes
  <2>3. CASE t \in SideEffects(Group(m))
    <3>1. Group(t) = {t}
      BY <1>1, <2>3, SideEffectsUnbuilt DEF TInv
    <3> QED
      BY <1>3, <1>4, <2>1, <3>1
  <2> QED
    BY <1>4, <2>2, <2>3 DEF Writes
<1> QED
  BY <1>1, <1>3, <1>4, WritesTypes DEF TInv

\* A step that hands out nothing and takes nothing back
LEMMA Quiet ==
  ASSUME TInv, TInv', CInv, project' = project, UNCHANGED poolVars,
         UNCHANGED <<interrupted, stopped>>, pc # "prepare", pc' # "prepare",
         ~stopped => \A m \in UnderWay : \A x \in Writes(m) : state'[x] = state[x]
  PROVE  CInv'
<1>1. UnderWay = Out /\ UnderWay' = Out' /\ Out' = Out
  BY UnderWayIs, UnderWayNext, OutSame DEF Holding
<1>2. PoolInv'
  BY PoolQuiet DEF CInv
<1>3. Marked' /\ BuildersOnly' /\ WritesApart' /\ HeldApart'
  BY <1>1, SameProject DEF CInv, Marked, BuildersOnly, WritesApart, HeldApart
<1> QED
  BY <1>2, <1>3 DEF CInv

LEMMA VisitQuiet ==
  ASSUME TInv, TInv', CInv, NEW n \in Node,
         VisitFailedChildren(n) \/ VisitWaits(n) \/ VisitSideEffectHeld(n)
  PROVE  CInv'
<1>1. /\ Visit(n) /\ pc = "next" /\ pc' = pc /\ project' = project
      /\ UNCHANGED poolVars /\ UNCHANGED <<interrupted, stopped>>
  BY DEF VisitFailedChildren, VisitWaits, VisitSideEffectHeld, Visit, Looking
<1>2. ~stopped /\ state[n] <= PENDING
  BY <1>1 DEF Visit, HasCandidate
<1>3. ASSUME NEW m \in UnderWay, NEW x \in Writes(m)
      PROVE  state'[x] = state[x]
  <2>1. n \notin Writes(m) /\ x \notin Group(n) /\ x # n
    BY <1>2, Untouched
  <2>2. x \in Node
    BY OutKnown, WritesTypes DEF TInv
  <2>3. x \notin ActionTargets(n)
    BY <2>1 DEF ActionTargets
  <2> QED
    BY <2>1, <2>2, <2>3
    DEF VisitFailedChildren, VisitWaits, VisitSideEffectHeld, TInv, TypeOK
<1> QED
  BY <1>1, <1>3, Quiet

LEMMA SkipQuiet ==
  ASSUME TInv, TInv', CInv, SkipHandled \/ NoCandidate
  PROVE  CInv'
  BY Quiet DEF SkipHandled, NoCandidate, Looking, nodeVars

\* The main thread takes up a node that touches no command under way
LEMMA TakenUp ==
  ASSUME TInv, TInv', CInv, NEW n \in Node, pc = "next", ~stopped,
         state[n] <= PENDING, MakeReady(n), project' = project,
         UNCHANGED poolVars, UNCHANGED <<interrupted, stopped>>,
         SideEffectsHeld(n) = {} \/ Fails(n, "scan")
  PROVE  CInv'
<1>1. pc' = "prepare" /\ task' = n
  BY DEF MakeReady
<1>2. Out' = Out /\ UnderWay = Out /\ UnderWay' = Out \cup {m \in Node : Holding(m)'}
  BY UnderWayIs, UnderWayNext, OutSame DEF Holding
<1>3. UnderWay' \subseteq UnderWay \cup {n} /\ UnderWay \subseteq UnderWay'
  BY <1>1, <1>2 DEF Holding
<1>4. \A m \in UnderWay : m # n /\ Group(n) \cap Writes(m) = {} /\ n \notin Writes(m)
  BY Untouched
<1>5. n \in UnderWay' => ~Fails(n, "scan") /\ ~Fails(n, "ready") /\ state'[n] = EXECUTING
  <2>1. n \in UnderWay' => Holding(n)'
    BY <1>2, <1>4
  <2> QED
    BY <2>1, SameProject DEF Holding, PrepareFails
<1>6. n \in UnderWay' => Stale(n)
  BY <1>5, Groups DEF MakeReady, TInv, UP_TO_DATE, EXECUTING
<1>7. PoolInv'
  BY <1>2, <1>4, PoolTakenUp DEF CInv
<1>8. Marked'
  <2> SUFFICES ASSUME NEW m \in UnderWay', NEW x \in Writes(m)
               PROVE  state'[x] = EXECUTING
    BY SameProject DEF Marked
  <2>1. m \in Node /\ x \in Node
    BY <1>3, OutKnown, WritesTypes DEF TInv
  <2>2. CASE m = n
    BY <1>5, <1>6, <2>1, <2>2 DEF MakeReady, Writes
  <2>3. CASE m # n
    <3>1. m \in UnderWay /\ state[x] = EXECUTING
      BY <1>3, <2>3 DEF CInv, Marked
    <3>2. x \notin Group(n) /\ x # n
      BY <1>4, <3>1
    <3> QED
      BY <2>1, <3>1, <3>2 DEF MakeReady
  <2> QED
    BY <2>2, <2>3
<1>9. BuildersOnly'
  BY <1>3, <1>6, Builders DEF CInv, BuildersOnly, TInv
<1>10. ASSUME ~Fails(n, "scan"), NEW m \in UnderWay
       PROVE  Disjoint(m, n)
  <2>1. m \in Node /\ m \in project.builder
    BY OutKnown DEF CInv, BuildersOnly
  <2> SUFFICES ASSUME NEW s \in SideEffects(Group(n)), s \in Writes(m)
               PROVE  FALSE
    BY <1>4 DEF Disjoint, Writes
  <2>2. s \notin project.builder
    BY SideEffectsUnbuilt DEF TInv
  <2>3. HasBuilder(n)
    BY Builders DEF HasBuilder, TInv
  <2>4. state[s] = EXECUTING
    BY <2>1 DEF CInv, Marked
  <2>5. s \in SideEffectsHeld(n)
    BY <2>3, <2>4 DEF SideEffectsHeld, ActionTargets
  <2> QED
    BY <1>10, <2>5
<1>11. WritesApart'
  <2> SUFFICES ASSUME NEW m \in UnderWay', NEW k \in UnderWay', m # k
               PROVE  Disjoint(m, k)
    BY SameProject DEF WritesApart
  <2>1. CASE m = n
    BY <1>3, <1>5, <1>10, <2>1 DEF Disjoint
  <2>2. CASE k = n
    BY <1>3, <1>5, <1>10, <2>2 DEF Disjoint
  <2>3. CASE m # n /\ k # n
    BY <1>3, <2>3 DEF CInv, WritesApart
  <2> QED
    BY <2>1, <2>2, <2>3
<1>12. HeldApart'
  BY <1>1, <1>3, <1>10, SameProject DEF HeldApart
<1> QED
  BY <1>7, <1>8, <1>9, <1>11, <1>12 DEF CInv

LEMMA ReadyTakenUp ==
  ASSUME TInv, TInv', CInv, NEW n \in Node, VisitReady(n) \/ VisitScanFails(n)
  PROVE  CInv'
<1>1. /\ pc = "next" /\ ~stopped /\ state[n] <= PENDING /\ MakeReady(n)
      /\ project' = project /\ UNCHANGED poolVars
      /\ UNCHANGED <<interrupted, stopped>>
  BY DEF VisitReady, VisitScanFails, Visit, Looking, HasCandidate
<1>2. SideEffectsHeld(n) = {} \/ Fails(n, "scan")
  BY DEF VisitReady, VisitScanFails, ScanFails
<1> QED
  BY <1>1, <1>2, TakenUp

-----------------------------------------------------------------------------
(* What a task leaves behind *)

LEMMA ExecutedMarks ==
  ASSUME TInv, NEW n \in Node, Executed(n), NEW m \in Node, Disjoint(m, n)
  PROVE  \A x \in Writes(m) : state'[x] = state[x]
<1> SUFFICES ASSUME NEW x \in Writes(m)
             PROVE  state'[x] = state[x]
  OBVIOUS
<1>1. x \in Node /\ x \notin Group(n) /\ x \notin SideEffects(Group(n))
  BY WritesTypes DEF Disjoint, Writes, TInv
<1>2. ExecutedState(Group(n))[x] = state[x]
  BY <1>1 DEF ExecutedState, SideEffects
<1> QED
  BY <1>1, <1>2 DEF Executed, Postprocess

\* As long as failures leave side effects alone, a task that failed is treated
\* as a good one or stops the walk
LEMMA FailedStops ==
  ASSUME Undisturbed, TInv, NEW n \in Node, Failed(n),
         stopped \/ \E k \in Trouble \ {"none"} : Fails(n, k)
  PROVE  stopped' \/ (Executed(n) /\ ~Fails(n, "scan"))
<1>1. Group(n) \subseteq Node
  BY Groups DEF TInv
<1>2. CASE project.policy = "ignore"
  <2>1. Executed(n) /\ stopped' = stopped
    BY <1>2 DEF Failed, Executed
  <2>2. \A t \in Node : project.bad[t] # "scan"
    BY <1>2 DEF Undisturbed
  <2> QED
    BY <1>1, <2>1, <2>2 DEF Fails
<1>3. CASE project.policy # "ignore"
  <2>1. stopped' = (stopped \/ project.policy = "stop")
    BY <1>3 DEF Failed
  <2>2. CASE stopped \/ project.policy = "stop"
    BY <2>1, <2>2
  <2>3. CASE ~stopped /\ project.policy # "stop"
    <3>1. \A t \in Node : project.bad[t] = "none"
      BY <1>3, <2>3 DEF Undisturbed
    <3> QED
      BY <1>1, <2>3, <3>1 DEF Fails
  <2> QED
    BY <2>2, <2>3
<1> QED
  BY <1>2, <1>3

\* A task leaves the main thread's hands
LEMMA TaskReturned ==
  ASSUME TInv, TInv', CInv, NEW n \in Node, stopped' \/ Executed(n),
         UnderWay' \subseteq UnderWay \ {n},
         stopped' \/ \A m \in UnderWay : m # n => Disjoint(m, n),
         project' = project, interrupted' = interrupted, pc' # "prepare",
         PoolInv'
  PROVE  CInv'
<1>1. Marked'
  <2> SUFFICES ASSUME ~stopped', NEW m \in UnderWay', NEW x \in Writes(m)
               PROVE  state'[x] = EXECUTING
    BY SameProject DEF Marked
  <2>1. m \in UnderWay /\ m # n /\ Disjoint(m, n) /\ m \in Node
    BY OutKnown
  <2>2. state'[x] = state[x]
    BY <2>1, ExecutedMarks
  <2>3. ~stopped
    BY DEF Executed
  <2> QED
    BY <2>1, <2>2, <2>3 DEF CInv, Marked
<1>2. BuildersOnly' /\ WritesApart' /\ HeldApart'
  BY SameProject DEF CInv, BuildersOnly, WritesApart, HeldApart
<1> QED
  BY <1>1, <1>2 DEF CInv

LEMMA HeldReturned ==
  ASSUME Undisturbed, TInv, TInv', CInv, NEW n \in Node, Prepare(n) \/ Execute(n)
  PROVE  CInv'
<1>1. /\ pc = "prepare" /\ task = n /\ pc' = "next" /\ project' = project
      /\ interrupted' = interrupted /\ UNCHANGED poolVars
  BY DEF Prepare, Execute, Preparing
<1>2. UnderWay = Out \cup {m \in Node : Holding(m)} /\ UnderWay' = Out' /\ Out' = Out
  BY <1>1, UnderWayIs, UnderWayNext, OutSame DEF Holding
<1>3. UnderWay' \subseteq UnderWay \ {n}
  BY <1>1, <1>2 DEF CInv, PoolInv, OnceEach
<1>4. stopped => stopped'
  BY StoppedStays DEF Prepare, Execute
<1>5. PoolInv'
  BY <1>1, <1>4, PoolQuiet DEF CInv
<1>6. stopped' \/ (Executed(n) /\ ~Fails(n, "scan"))
  <2>1. CASE Prepare(n) /\ PrepareFails(n)
    <3>1. Failed(n) /\ \E k \in Trouble \ {"none"} : Fails(n, k)
      BY <2>1 DEF Prepare, PrepareFails, Trouble
    <3> QED
      BY <3>1, FailedStops
  <2>2. CASE Prepare(n) /\ ~PrepareFails(n)
    <3>1. ~Fails(n, "scan")
      BY <2>2 DEF PrepareFails
    <3>2. Executed(n) \/ (Failed(n) /\ Fails(n, "missing"))
      BY <2>2 DEF Prepare, Missing
    <3> QED
      BY <3>1, <3>2, FailedStops DEF Trouble
  <2>3. CASE Execute(n)
    <3>1. ~Fails(n, "scan")
      BY <2>3 DEF Execute, PrepareFails
    <3>2. PICK ok \in Outcomes(n) : IF ok THEN Executed(n) ELSE Failed(n)
      BY <2>3 DEF Execute
    <3>3. ok \/ Fails(n, "action") \/ interrupted
      BY <3>2 DEF Outcomes
    <3> QED
      BY <3>1, <3>2, <3>3, FailedStops DEF Trouble, CInv, PoolInv, FailuresExplained
  <2> QED
    BY <2>1, <2>2, <2>3
<1>7. stopped' \/ \A m \in UnderWay : m # n => Disjoint(m, n)
  BY <1>1, <1>6 DEF CInv, HeldApart
<1> QED
  BY <1>1, <1>3, <1>5, <1>6, <1>7, TaskReturned

LEMMA ResultReturned ==
  ASSUME Undisturbed, TInv, TInv', CInv, GetResult
  PROVE  CInv'
<1> DEFINE r == Head(results)
           n == r.node
<1>1. /\ IF r.ok THEN Executed(n) ELSE Failed(n)
      /\ pc' # "prepare" /\ project' = project /\ interrupted' = interrupted
  BY DEF GetResult
<1>2. /\ n \in Node /\ n \in Out /\ UnderWay' = UnderWay \ {n} /\ OnceEach'
      /\ n \in UnderWay /\ (r.ok \/ stopped \/ Fails(n, "action"))
  BY PoolResult DEF CInv
<1>3. PoolInv'
  BY <1>1, <1>2, StoppedStays, PoolResult DEF CInv, PoolInv
<1>4. stopped' \/ Executed(n)
  BY <1>1, <1>2, FailedStops DEF Trouble
<1>5. \A m \in UnderWay : m # n => Disjoint(m, n)
  BY <1>2 DEF CInv, WritesApart
<1> QED
  BY <1>1, <1>2, <1>3, <1>4, <1>5, TaskReturned

\* A task moves on in the pool
LEMMA HandedOn ==
  ASSUME CInv, UnderWay' = UnderWay, UNCHANGED <<project, state>>, PoolInv',
         stopped' \/ stopped' = stopped, pc' # "prepare" \/ UNCHANGED <<pc, task>>
  PROVE  CInv'
<1>1. Marked' /\ BuildersOnly' /\ WritesApart' /\ HeldApart'
  BY SameProject DEF CInv, Marked, BuildersOnly, WritesApart, HeldApart
<1> QED
  BY <1>1 DEF CInv

LEMMA PoolSteps ==
  ASSUME TInv, TInv', CInv,
         \/ \E n \in Node : Dispatch(n)
         \/ \E w \in Worker : WorkerTake(w) \/ WorkerFinish(w)
         \/ Interrupt
         \/ Cleanup
  PROVE  CInv'
<1>1. CASE \E n \in Node : Dispatch(n)
  BY <1>1, PoolDispatched, HandedOn DEF CInv, Dispatch, AfterDispatch, nodeVars
<1>2. CASE \E w \in Worker : WorkerTake(w)
  BY <1>2, PoolTaken, HandedOn DEF CInv, WorkerTake, nodeVars
<1>3. CASE \E w \in Worker : WorkerFinish(w)
  BY <1>3, PoolFinished, HandedOn DEF CInv, WorkerFinish, nodeVars
<1>4. CASE Interrupt
  BY <1>4, PoolInterrupted, HandedOn DEF CInv, Interrupt, nodeVars
<1>5. CASE Cleanup
  BY <1>5, PoolCleanedUp, HandedOn DEF CInv, Cleanup, nodeVars
<1> QED
  BY <1>1, <1>2, <1>3, <1>4, <1>5

-----------------------------------------------------------------------------
LEMMA CInit ==
  ASSUME Init
  PROVE  CInv
  BY PoolInit DEF Init, CInv, Marked, BuildersOnly, WritesApart, HeldApart

LEMMA CNext ==
  ASSUME Undisturbed, TInv, TInv', CInv, [Next]_vars
  PROVE  CInv'
<1>1. ASSUME NEW n \in Node, Walk(n) PROVE CInv'
  BY <1>1, VisitQuiet, ReadyTakenUp, HeldReturned, PoolSteps DEF Walk
<1>2. CASE MainThread
  BY <1>1, <1>2, SkipQuiet, ResultReturned, PoolSteps DEF MainThread
<1>3. CASE Interrupt \/ \E w \in Worker : WorkerTake(w) \/ WorkerFinish(w)
  BY <1>3, PoolSteps
<1>4. CASE UNCHANGED vars
  <2>1. /\ UNCHANGED <<project, state, pc, task, stopped, interrupted>>
        /\ UNCHANGED poolVars
    BY <1>4 DEF vars, nodeVars, poolVars
  <2>2. PoolInv' /\ Out' = Out
    BY <2>1, OutSame, SameProject
    DEF CInv, PoolInv, OnceEach, FailuresExplained, poolVars
  <2> QED
    BY <2>1, <2>2, SameUnderWay, HandedOn
<1> QED
  BY <1>2, <1>3, <1>4 DEF Next

\* Commands that write the same target or side effect never run together, for
\* every project, number of threads and interleaving, unless a failure under
\* -k or of a scanner under -i takes a side effect from the command that
\* holds it
THEOREM SideEffectsApartAlways == Spec => []SideEffectsApart
<1> DEFINE Inv == TInv /\ (Undisturbed => CInv)
<1>1. Init => Inv
  BY TInit, CInit
<1>2. Inv /\ [Next]_vars => Inv'
  BY TNext, CNext, ProjectStays, SameProject
<1>3. Inv => SideEffectsApart
  <2> SUFFICES ASSUME TInv, CInv, NEW m \in UnderWay, NEW n \in UnderWay, m # n
               PROVE  /\ m \notin Group(n)
                      /\ SideEffects(Group(m)) \cap SideEffects(Group(n)) = {}
    BY DEF SideEffectsApart, CommandsApart
  <2>1. m \in Node /\ Writes(m) \cap Writes(n) = {}
    BY OutKnown DEF CInv, WritesApart, Disjoint
  <2> QED
    BY <2>1, WritesTypes DEF TInv, Writes
<1> QED
  BY <1>1, <1>2, <1>3, PTL DEF Spec
=============================================================================
