----------------------------- MODULE Taskmaster -----------------------------
(***************************************************************************)
(* The build engine of the vendored SCons (engine/SCons/Taskmaster.py,     *)
(* Job.py, the node states of Node/__init__.py and BuildTask of            *)
(* Script/Main.py).  The main thread walks the dependency graph, looks for *)
(* nodes whose children are done and hands them to worker threads; signals *)
(* stop the walk.  What is built, from what, and with which options is     *)
(* chosen at the start and does not change.                                *)
(***************************************************************************)
EXTENDS Integers, FiniteSets, Sequences, SequencesExt

CONSTANTS
  Node,      \* files and aliases of the build
  Worker,    \* threads of the pool
  Projects   \* the projects (see Project) TLC chooses from

\* Node states, in the priority order the engine compares them by
NO_STATE == 0
PENDING == 1
EXECUTING == 2
UP_TO_DATE == 3
EXECUTED == 4
FAILED == 5

Done == {UP_TO_DATE, EXECUTED}

NoNode == "none"
Quit == "quit"   \* the sentinel a worker ends at

(* What an SConstruct and the command line say:                            *)
(*   kids[n]   n's sources, explicit dependencies and prerequisites        *)
(*   incl[n]   what a scanner finds in n once n has its final contents     *)
(*   old[n]    what one may find in n before n is rebuilt; nothing if the  *)
(*             scanner only reads current files and n never looks current  *)
(*             (that asking so scans n itself too early is left out)       *)
(*   group[n]  the targets that one action builds together with n          *)
(*   se[n]     side effects of building n; each has n among its kids       *)
(*   builder   the nodes with a builder                                    *)
(*   stale     the nodes a build would find out of date                    *)
(*   bad[n]    where building n goes wrong, if anywhere                    *)
(*   tops      the targets asked for, in order                             *)
(*   policy    stop at an error, -k, or -i                                 *)
(*   jobs      -j                                                          *)
Trouble == {"none", "scan", "ready", "prepare", "action", "missing"}

Project ==
  [kids : [Node -> SUBSET Node], incl : [Node -> SUBSET Node],
   old : [Node -> SUBSET Node], group : [Node -> SUBSET Node],
   se : [Node -> SUBSET Node],
   builder : SUBSET Node, stale : SUBSET Node, bad : [Node -> Trouble],
   tops : Seq(Node), policy : {"stop", "keep", "ignore"},
   jobs : {1, Cardinality(Worker)}]

\* A builder's targets share it; a node without one is alone, has no side
\* effects and scans nothing; SideEffect() makes each target a source of the
\* side effect, which is not the target of a builder itself
WellFormed(p) ==
  /\ \A n \in Node : n \in p.group[n]
  /\ \A m, n \in Node : m \in p.group[n] => p.group[m] = p.group[n]
  /\ \A n \in Node : n \in p.builder => p.group[n] \subseteq p.builder
  /\ \A n \in Node : p.bad[n] = "scan" => p.group[n] = {n} /\ n \in p.builder
  /\ \A n \in Node \ p.builder : p.group[n] = {n} /\ p.se[n] = {}
  /\ \A n \in Node : \A s \in p.se[n] : s \notin p.builder /\ n \in p.kids[s]

ASSUME NodeAssumption ==
  IsFiniteSet(Node) /\ IsFiniteSet(Worker) /\ Worker # {}
ASSUME NamesAssumption == NoNode \notin Node /\ Quit \notin Node
ASSUME ProjectAssumption == \A p \in Projects : p \in Project /\ WellFormed(p)

VARIABLES
  project,          \* the SConstruct and the options
  state,            \* state[n], of each node
  waitingParents,   \* waitingParents[n]: nodes that wait for n
  waitingSE,        \* waitingSE[s]: nodes that wait for the side effect s
  refCount,         \* refCount[n]: how many nodes n waits for
  scanned,          \* nodes whose implicit dependencies are known
  implicit,         \* implicit[n]: the implicit dependencies found
  candidates,       \* the stack of nodes to look at
  topsLeft,         \* targets not looked at yet
  currentTop,       \* the target the walk is under
  pendingChildren,  \* nodes found pending under another node
  stopped,          \* Taskmaster.stop() was called
  pc,               \* where the main thread is
  task,             \* the node of the task it holds
  jobs,             \* tasks handed to workers whose results it has not got
  requests,         \* the pool's queue of tasks
  results,          \* the pool's queue of finished tasks
  worker,           \* worker[w]: the node it builds
  interrupted,      \* a signal arrived
  status            \* how the build ends

nodeVars == <<state, waitingParents, refCount, waitingSE>>
scanVars == <<scanned, implicit>>
walkVars == <<topsLeft, currentTop>>
poolVars == <<jobs, requests, results, worker>>
vars == <<project, nodeVars, scanVars, candidates, walkVars, pendingChildren,
          stopped, pc, task, poolVars, interrupted, status>>

-----------------------------------------------------------------------------
(* The project *)

Group(n) == project.group[n]
HasBuilder(n) == n \in project.builder
\* A node without a builder has the null executor, which has no action
ActionTargets(n) == IF HasBuilder(n) THEN Group(n) ELSE {}
SideEffects(T) == UNION {project.se[t] : t \in T}
IsSideEffect(n) == \E t \in Node : n \in project.se[t]
Stale(n) == \E t \in Group(n) : t \in project.builder \cap project.stale
Fails(n, k) == \E t \in Group(n) : project.bad[t] = k
Doubtful(n) == \E t \in Group(n) : project.bad[t] # "none"

\* The nodes one can reach from S by following F
Closure(S, F) ==
  {n \in Node : \A T \in SUBSET Node :
      (S \subseteq T /\ \A m \in T : F[m] \subseteq T) => n \in T}

-----------------------------------------------------------------------------
(* Children *)

\* The files that are still to be rebuilt
Outdated == {n \in Node : Stale(n) /\ state[n] # EXECUTED}

\* What scanners see in each file.  A file that is still to be rebuilt may look
\* current as long as its own sources are not rebuilt, and some scanners do not
\* ask: they read the old contents of the files in seen, and of a file that is
\* being written what is in read.
Shows(seen, read) ==
  [n \in Node |->
     IF n \notin Outdated THEN project.incl[n]
     ELSE IF n \notin seen THEN {}
     ELSE IF state[n] = EXECUTING THEN (project.old[n] \cup project.incl[n]) \cap read
     ELSE project.old[n]]

\* Executor.scan: the includes of the sources of T, and theirs, where a scanner
\* sees shows[n] in n
Found(T, shows) ==
  LET sources == UNION {project.kids[t] : t \in T}
  IN  Closure(UNION {shows[s] : s \in sources}, shows)

\* What a scanner may find in a file at any time
Contents == [n \in Node |-> project.incl[n] \cup project.old[n]]

\* Scans differ in the files they read early, and in how much of them
Readings ==
  {Shows(seen, read) :
     seen \in SUBSET {n \in Outdated : Contents[n] # {}},
     read \in SUBSET UNION {Contents[n] : n \in {m \in Outdated : state[m] = EXECUTING}}}

\* children() of each target scans it unless it is scanned; a scan's result
\* goes to every target of the executor
Scan(n) ==
  LET T == Group(n)
      new == T \ scanned
  IN  /\ scanned' = scanned \cup T
      /\ \E shows \in IF new = {} \/ ~HasBuilder(n) THEN {project.incl} ELSE Readings :
           implicit' =
             [m \in Node |->
                IF m \notin T \/ new = {} THEN implicit[m]
                ELSE (IF m \in new THEN {} ELSE implicit[m])
                     \cup (IF HasBuilder(n) THEN Found(T, shows) ELSE {})]

\* All children of n's executor, once scanned
Children(n) == UNION {project.kids[t] \cup implicit'[t] : t \in Group(n)}

-----------------------------------------------------------------------------
(* What is done with a task's targets T afterwards.  Each operator gives    *)
(* the new value of one field; ended tasks combine them in the code's order *)

\* executed_with_callbacks: the side effects come first
ExecutedState(T) ==
  [m \in Node |->
     IF m \in T /\ state[m] = EXECUTING THEN EXECUTED
     ELSE IF \E t \in T : state[t] = EXECUTING /\ m \in project.se[t]
          THEN NO_STATE ELSE state[m]]

\* Mutant: a parent does not scan again
RescannedNot(T) == scanned

\* Node.built of each: whoever waits for it scans again
Rescanned(T) ==
  scanned \ UNION {waitingParents[t] : t \in {x \in T : state[x] = EXECUTING}}

\* Mutant: only S itself
DoomedOnly(S) == S

\* will_not_build: S, what waits for it, and so on up
Doomed(S) == Closure(S, waitingParents)

\* Mutant: only S forgets who waits for it
FlushedParentsOnly(S) ==
  [n \in Node |-> IF n \in S THEN {} ELSE waitingParents[n]]

FlushedParents(S) ==
  [n \in Node |-> IF n \in Doomed(S) THEN {} ELSE waitingParents[n]]

FlushedCount(S) ==
  [p \in Node |->
     refCount[p] - Cardinality({n \in Doomed(S) : p \in waitingParents[n]})]

FailedState(S) ==
  [n \in Node |-> IF n \in Doomed(S) THEN FAILED ELSE state[n]]

\* Mutant: a parent is free when the last target is taken off its count alone
FreedOne(count, rc) == {p \in Node : count[p] > 0 /\ rc[p] = 1}

\* The parents that wait for nothing once count is taken off their counts
Freed(count, rc) == {p \in Node : count[p] > 0 /\ rc[p] = count[p]}

\* Task.postprocess on the targets T, where st, wp, rc and pend are the
\* fields as executed() or failed() left them: give back the side effects,
\* take the targets off the counts of the parents and look again at the
\* parents that wait for nothing more and at the nodes a side effect kept
Postprocess(T, st, wp, rc, pend) ==
  LET held == {s \in SideEffects(T) : st[s] = EXECUTING}
      count == [p \in Node |-> Cardinality({c \in T \cup held : p \in wp[c]})]
      kept == {p \in UNION {waitingSE[s] : s \in SideEffects(T)} : rc[p] = 0}
  IN  /\ state' = [n \in Node |-> IF n \in held THEN NO_STATE ELSE st[n]]
      /\ waitingParents' = [n \in Node |-> IF n \in T THEN {} ELSE wp[n]]
      /\ refCount' = [p \in Node |-> rc[p] - count[p]]
      /\ pendingChildren' = pend \ {t \in T : wp[t] # {}}
      /\ \E k \in SetToSeqs(kept), f \in SetToSeqs(Freed(count, rc)) :
           candidates' = candidates \o k \o f

\* The task of n went well
Executed(n) ==
  /\ Postprocess(Group(n), ExecutedState(Group(n)), waitingParents, refCount,
                 pendingChildren)
  /\ scanned' = Rescanned(Group(n))
  /\ UNCHANGED <<implicit, stopped, status>>

\* BuildTask.do_failed, for what the user chose
Failed(n) ==
  LET T == Group(n) IN
  \/ /\ project.policy = "ignore"
     /\ Executed(n)
  \/ /\ project.policy # "ignore"
     /\ status' = "failed"
     /\ stopped' = (stopped \/ project.policy = "stop")
     /\ Postprocess(IF project.policy = "stop" THEN {currentTop} ELSE T,
                    FailedState(T), FlushedParents(T), FlushedCount(T),
                    pendingChildren \ Doomed(T))
     /\ UNCHANGED scanVars

-----------------------------------------------------------------------------
(* The walk: one turn of the loop of _find_next_ready_node each *)

Looking == pc = "next"

\* Mutant: a failure ends the walk, also with -k
HasCandidateUnlessFailed ==
  ~stopped /\ status = "ok" /\ (candidates # <<>> \/ topsLeft # <<>>)

HasCandidate == ~stopped /\ (candidates # <<>> \/ topsLeft # <<>>)

\* find_next_candidate
Candidate == IF candidates # <<>> THEN Last(candidates) ELSE Head(topsLeft)
Rest == IF candidates # <<>> THEN Front(candidates) ELSE <<>>
Pop ==
  IF candidates # <<>> THEN UNCHANGED walkVars
  ELSE topsLeft' = Tail(topsLeft) /\ currentTop' = Head(topsLeft)

\* Nothing left to look at; after stop() the candidates are given up first
NoCandidate ==
  /\ Looking /\ ~HasCandidate
  /\ pc' = IF jobs = 0 THEN "cleanup" ELSE "wait"
  /\ IF stopped
     THEN LET S == ToSet(candidates) IN
          /\ waitingParents' = FlushedParents(S)
          /\ refCount' = FlushedCount(S)
          /\ pendingChildren' = pendingChildren \ Doomed(S)
          /\ candidates' = <<>>
     ELSE UNCHANGED <<waitingParents, refCount, pendingChildren, candidates>>
  /\ UNCHANGED <<project, state, waitingSE, scanVars, walkVars, stopped, task,
                 poolVars, interrupted, status>>

SkipHandled ==
  /\ Looking /\ HasCandidate
  /\ state[Candidate] > PENDING
  /\ candidates' = Rest /\ Pop
  /\ UNCHANGED <<project, nodeVars, scanVars, pendingChildren, stopped, pc,
                 task, poolVars, interrupted, status>>

\* A scanner raises; the attempt has marked n as scanned
ScanFails(n) == Fails(n, "scan") /\ n \notin scanned

\* n is taken off the stack and marked; its unvisited children, in any order
\* (--random), go on the stack
Visit(n) ==
  LET new == [state EXCEPT ![n] = PENDING] IN
  /\ Looking /\ HasCandidate /\ n = Candidate
  /\ state[n] <= PENDING
  /\ ~ScanFails(n)
  /\ Pop /\ Scan(n)
  /\ \E order \in SetToSeqs({c \in Children(n) : new[c] = NO_STATE}) :
       candidates' = Rest \o order
  /\ UNCHANGED <<project, stopped, poolVars, interrupted, status>>

AnyFailed(n) == \E c \in Children(n) : state[c] = FAILED

\* Mutant: a child that is being built is taken for built
NotReadyUnbuilt(n) == {c \in Children(n) : c = n \/ state[c] < EXECUTING}

NotReady(n) == {c \in Children(n) : c = n \/ state[c] <= EXECUTING}

\* Mutant: side effects are not looked at
SideEffectsHeldNever(n) == {}

SideEffectsHeld(n) ==
  {s \in SideEffects(ActionTargets(n)) : state[s] = EXECUTING}

VisitFailedChildren(n) ==
  /\ Visit(n) /\ AnyFailed(n)
  /\ state' = [m \in Node |-> IF m \in ActionTargets(n) THEN FAILED
                              ELSE IF m = n THEN PENDING ELSE state[m]]
  /\ UNCHANGED <<waitingParents, waitingSE, refCount, pendingChildren, pc, task>>

VisitWaits(n) ==
  /\ Visit(n) /\ ~AnyFailed(n) /\ NotReady(n) # {}
  /\ state' = [state EXCEPT ![n] = PENDING]
  /\ waitingParents' = [c \in Node |-> IF c \in NotReady(n)
                                       THEN waitingParents[c] \cup {n}
                                       ELSE waitingParents[c]]
  /\ refCount' = [refCount EXCEPT ![n] =
       @ + Cardinality({c \in NotReady(n) : n \notin waitingParents[c]})]
  /\ pendingChildren' = pendingChildren
       \cup {c \in NotReady(n) : c = n \/ state[c] = PENDING}
  /\ UNCHANGED <<waitingSE, pc, task>>

VisitSideEffectHeld(n) ==
  /\ Visit(n) /\ ~AnyFailed(n) /\ NotReady(n) = {}
  /\ SideEffectsHeld(n) # {}
  /\ state' = [state EXCEPT ![n] = PENDING]
  /\ waitingSE' = [s \in Node |-> IF s \in SideEffectsHeld(n)
                                  THEN waitingSE[s] \cup {n} ELSE waitingSE[s]]
  /\ UNCHANGED <<waitingParents, refCount, pendingChildren, pc, task>>

\* make_ready_current: the targets and their side effects are to be built, or
\* the targets are up to date; when the check itself raises, nothing is set
MakeReady(n) ==
  /\ state' = [m \in Node |->
       IF Fails(n, "ready") THEN IF m = n THEN PENDING ELSE state[m]
       ELSE IF m \in Group(n) THEN IF Stale(n) THEN EXECUTING ELSE UP_TO_DATE
       ELSE IF Stale(n) /\ m \in SideEffects(Group(n)) THEN EXECUTING
       ELSE state[m]]
  /\ task' = n /\ pc' = "prepare"
  /\ UNCHANGED <<waitingParents, waitingSE, refCount, pendingChildren>>

\* Nothing holds n up: next_task returns a task
VisitReady(n) ==
  /\ Visit(n) /\ ~AnyFailed(n) /\ NotReady(n) = {}
  /\ SideEffectsHeld(n) = {}
  /\ MakeReady(n)

\* get_all_children raised: next_task returns a task all the same, which
\* keeps the exception for prepare
VisitScanFails(n) ==
  /\ Looking /\ HasCandidate /\ n = Candidate
  /\ state[n] <= PENDING
  /\ ScanFails(n)
  /\ Pop /\ candidates' = Rest
  /\ scanned' = scanned \cup {n}
  /\ implicit' = [implicit EXCEPT ![n] = {}]
  /\ MakeReady(n)
  /\ UNCHANGED <<project, stopped, poolVars, interrupted, status>>

-----------------------------------------------------------------------------
(* Tasks and jobs *)

\* What makes prepare raise: an exception kept from before, or a source that
\* is missing
PrepareFails(n) ==
  Fails(n, "scan") \/ Fails(n, "ready") \/ (HasBuilder(n) /\ Fails(n, "prepare"))

\* A target asked for that nothing builds and that is not there
Missing(n) ==
  /\ n \in ToSet(project.tops)
  /\ ~HasBuilder(n) /\ ~IsSideEffect(n)
  /\ Fails(n, "missing")

Preparing(n) == pc = "prepare" /\ task = n

Prepare(n) ==
  /\ Preparing(n)
  /\ pc' = "next" /\ task' = NoNode
  /\ \/ PrepareFails(n) /\ Failed(n)
     \/ ~PrepareFails(n) /\ state[n] # EXECUTING
        /\ IF Missing(n) THEN Failed(n) ELSE Executed(n)
  /\ UNCHANGED <<project, waitingSE, implicit, walkVars, poolVars, interrupted>>

\* Mutant: one job too many
AfterDispatchLate(j) == IF j <= project.jobs THEN "next" ELSE "wait"

\* Tasks are looked for until every worker has one
AfterDispatch(j) == IF j < project.jobs THEN "next" ELSE "wait"

\* Parallel: the task goes to the pool
Dispatch(n) ==
  /\ Preparing(n) /\ project.jobs > 1
  /\ ~PrepareFails(n) /\ state[n] = EXECUTING
  /\ requests' = Append(requests, n)
  /\ jobs' = jobs + 1
  /\ pc' = AfterDispatch(jobs') /\ task' = NoNode
  /\ UNCHANGED <<project, nodeVars, scanVars, candidates, walkVars,
                 pendingChildren, stopped, results, worker, interrupted, status>>

\* A command may also be killed by the signal that interrupts the build
Outcomes(n) ==
  IF Fails(n, "action") THEN {FALSE} ELSE IF interrupted THEN BOOLEAN ELSE {TRUE}

\* Serial: the main thread builds
Execute(n) ==
  /\ Preparing(n) /\ project.jobs = 1
  /\ ~PrepareFails(n) /\ state[n] = EXECUTING
  /\ \E ok \in Outcomes(n) : IF ok THEN Executed(n) ELSE Failed(n)
  /\ pc' = "next" /\ task' = NoNode
  /\ UNCHANGED <<project, waitingSE, implicit, walkVars, poolVars, interrupted>>

\* The main thread takes a result; it looks for more work once the queue is
\* empty
GetResult ==
  /\ pc = "wait" /\ results # <<>>
  /\ LET r == Head(results) IN
       IF r.ok THEN Executed(r.node) ELSE Failed(r.node)
  /\ results' = Tail(results)
  /\ jobs' = jobs - 1
  /\ pc' = IF Tail(results) = <<>> THEN "next" ELSE "wait"
  /\ UNCHANGED <<project, waitingSE, implicit, walkVars, task, requests, worker,
                 interrupted>>

\* A task taken after a signal fails without running
WorkerTake(w) ==
  /\ worker[w] = NoNode /\ requests # <<>>
  /\ requests' = Tail(requests)
  /\ IF interrupted /\ Head(requests) # Quit
     THEN /\ results' = Append(results, [node |-> Head(requests), ok |-> FALSE])
          /\ UNCHANGED worker
     ELSE /\ worker' = [worker EXCEPT ![w] = Head(requests)]
          /\ UNCHANGED results
  /\ UNCHANGED <<project, nodeVars, scanVars, candidates, walkVars,
                 pendingChildren, stopped, pc, task, jobs, interrupted, status>>

WorkerFinish(w) ==
  /\ worker[w] \in Node
  /\ worker' = [worker EXCEPT ![w] = NoNode]
  /\ \E ok \in Outcomes(worker[w]) :
       results' = Append(results, [node |-> worker[w], ok |-> ok])
  /\ UNCHANGED <<project, nodeVars, scanVars, candidates, walkVars,
                 pendingChildren, stopped, pc, task, jobs, requests, interrupted,
                 status>>

\* A signal: Taskmaster.stop() and interrupted.set()
Interrupt ==
  /\ pc # "ended" /\ ~interrupted
  /\ stopped' = TRUE /\ interrupted' = TRUE
  /\ UNCHANGED <<project, nodeVars, scanVars, candidates, walkVars,
                 pendingChildren, pc, task, poolVars, status>>

\* find_cycle
InCycle(n) == n \in Closure(waitingParents[n], waitingParents)

\* Mutant: one sentinel for all workers
SentinelsOne == IF project.jobs = 1 THEN <<>> ELSE <<Quit>>

\* ThreadPool.cleanup: a sentinel for each worker
Sentinels ==
  IF project.jobs = 1 THEN <<>> ELSE [i \in 1 .. Cardinality(Worker) |-> Quit]

\* The end of start(), then the search for cycles
Cleanup ==
  /\ pc = "cleanup"
  /\ requests' = requests \o Sentinels
  /\ status' = IF \E n \in pendingChildren : InCycle(n) \/ state[n] # EXECUTED
               THEN "cycle" ELSE status
  /\ pc' = "ended"
  /\ UNCHANGED <<project, nodeVars, scanVars, candidates, walkVars,
                 pendingChildren, stopped, task, jobs, results, worker,
                 interrupted>>

Init ==
  /\ project \in Projects
  /\ state = [n \in Node |-> NO_STATE]
  /\ waitingParents = [n \in Node |-> {}]
  /\ waitingSE = [n \in Node |-> {}]
  /\ refCount = [n \in Node |-> 0]
  /\ scanned = {} /\ implicit = [n \in Node |-> {}]
  /\ candidates = <<>>
  /\ topsLeft = project.tops /\ currentTop = NoNode
  /\ pendingChildren = {}
  /\ stopped = FALSE
  /\ pc = "next" /\ task = NoNode
  /\ jobs = 0 /\ requests = <<>> /\ results = <<>>
  /\ worker = [w \in Worker |-> NoNode]
  /\ interrupted = FALSE /\ status = "ok"

Walk(n) ==
  \/ VisitFailedChildren(n) \/ VisitWaits(n) \/ VisitSideEffectHeld(n)
  \/ VisitReady(n) \/ VisitScanFails(n)
  \/ Prepare(n) \/ Dispatch(n) \/ Execute(n)

MainThread ==
  NoCandidate \/ SkipHandled \/ GetResult \/ Cleanup \/ \E n \in Node : Walk(n)

Next ==
  \/ MainThread
  \/ \E w \in Worker : WorkerTake(w) \/ WorkerFinish(w)
  \/ Interrupt

Spec == Init /\ [][Next]_vars

\* Python runs every thread that is not blocked; commands end
FairSpec ==
  /\ Spec
  /\ WF_vars(MainThread)
  /\ \A w \in Worker : WF_vars(WorkerTake(w)) /\ WF_vars(WorkerFinish(w))

-----------------------------------------------------------------------------
\* What n is built from if a scanner sees shows
MadeFrom(n, shows) ==
  (UNION {project.kids[t] : t \in Group(n)})
    \cup (IF HasBuilder(n) THEN Found(Group(n), shows) ELSE {})

\* All that n is built from, the includes in files of the build's own making
\* among it
Needs(n) == MadeFrom(n, project.incl)

\* and all that the engine may take it to be built from, includes in the old
\* contents of such files among it
MayNeed(n) == MadeFrom(n, Contents)

Clouded(n) == MayNeed(n) # Needs(n)

\* The nodes whose commands are about to start, under way or have results
\* waiting
UnderWay ==
  {n \in Node : \/ Preparing(n) /\ ~PrepareFails(n) /\ state[n] = EXECUTING
                \/ n \in ToSet(requests)
                \/ \E w \in Worker : worker[w] = n
                \/ \E i \in DOMAIN results : results[i].node = n}

-----------------------------------------------------------------------------
(* The promise: BuildOrder, where a node counts as built once its task has  *)
(* left the main thread's hands, and as running while its command may run   *)

Order == INSTANCE BuildOrder WITH
  plan <- [needs |-> [n \in Node |-> Needs(n)],
           sees |-> [n \in Node |-> MayNeed(n)],
           writes |-> [n \in Node |-> Group(n) \cup SideEffects(Group(n))],
           doubtful |-> {n \in Node : Doubtful(n)},
           forgiven |-> {n \in Node : project.policy = "ignore" /\ Doubtful(n)}],
  phase <- [n \in Node |->
              IF state[n] = FAILED THEN "failed"
              ELSE IF \E m \in UnderWay : n \in Group(m) THEN "running"
              ELSE IF /\ state[n] \in Done
                      /\ ~(pc = "prepare" /\ n \in Group(task)) THEN "built"
              ELSE "idle"]

\* The walk, the pool and the signals implement BuildOrder.  About a node
\* that is built or failed twice, or through another node's failure.
ImplementsOrder == Order!Spec

-----------------------------------------------------------------------------
(* Properties *)

Task == [node : Node, ok : BOOLEAN]

\* Types of the build's state.  About jobs: no more tasks are handed out than
\* -j allows, and no result comes without one.
TypeOK ==
  /\ project \in Project
  /\ state \in [Node -> NO_STATE .. FAILED]
  /\ waitingParents \in [Node -> SUBSET Node]
  /\ waitingSE \in [Node -> SUBSET Node]
  /\ refCount \in [Node -> Int]
  /\ scanned \in SUBSET Node /\ implicit \in [Node -> SUBSET Node]
  /\ candidates \in Seq(Node) /\ topsLeft \in Seq(Node)
  /\ currentTop \in Node \cup {NoNode} /\ task \in Node \cup {NoNode}
  /\ pendingChildren \in SUBSET Node
  /\ stopped \in BOOLEAN /\ interrupted \in BOOLEAN
  /\ pc \in {"next", "prepare", "wait", "cleanup", "ended"}
  /\ jobs \in 0 .. project.jobs
  /\ requests \in Seq(Node \cup {Quit}) /\ results \in Seq(Task)
  /\ worker \in [Worker -> Node \cup {NoNode, Quit}]
  /\ status \in {"ok", "failed", "cycle"}

\* What the targets asked for are made from, all the way down
Wanted ==
  Closure(ToSet(project.tops), [n \in Node |-> Needs(n)])

\* A build that ends with success, and was neither interrupted nor stopped,
\* has brought every node its targets are made from up to date.  About the
\* whole walk: each node that waits is put back on the stack when what it
\* waits for is done.
SuccessMeansBuilt ==
  pc = "ended" /\ status = "ok" /\ ~interrupted =>
    \A n \in Wanted : state[n] \in Done

\* No command runs before all it needs is done, implicit dependencies found
\* in generated files included.  About the guard of _find_next_ready_node and
\* Node.built, which makes the waiting parents scan again.
RunsAfterNeeds ==
  \A n \in UnderWay : \A c \in Needs(n) :
    state[c] \in Done \/ (Clouded(c) /\ state[c] = FAILED)

\* Two commands with a common target or side effect never run together.
\* About SideEffect() as CHANGES.txt describes it, and waiting_s_e.
CommandsApart ==
  \A m, n \in UnderWay :
    m # n => /\ m \notin Group(n)
             /\ SideEffects(Group(m)) \cap SideEffects(Group(n)) = {}

\* The failures that leave the state of side effects alone: those that end the
\* walk, and with -i those of a node whose side effects were looked at
Undisturbed ==
  \/ project.policy = "stop"
  \/ project.policy = "ignore" /\ \A n \in Node : project.bad[n] # "scan"
  \/ \A n \in Node : project.bad[n] = "none"

\* Commands are apart unless a failure under -k gives up a side effect that
\* another command holds (or, with -i, a scanner's failure gives it back).
\* About get_action_side_effects and waiting_s_e.
SideEffectsApart == Undisturbed => CommandsApart

\* _validate_pending_children, whose call before a node is made ready the code
\* leaves commented out, and the count that puts a node back on the stack: it
\* is the number of nodes whose waiting_parents has it
WaitCounts ==
  /\ \A p \in Node :
       refCount[p] = Cardinality({c \in Node : p \in waitingParents[c]})
  /\ pc # "prepare" =>
       \A n \in pendingChildren :
         state[n] \in {PENDING, EXECUTING} /\ waitingParents[n] # {}

\* The engine reports a dependency cycle only where there is one, if among what
\* the files included before the build.
OnCycle(n) == n \in Closure(MayNeed(n), [m \in Node |-> MayNeed(m)])
OnlyCyclesReported == status = "cycle" => \E n \in Node : OnCycle(n)

\* What the walk comes to, whatever fails: the targets asked for, and the
\* sources and explicit dependencies of what it scans
Sought ==
  Closure(ToSet(project.tops),
          [n \in Node |-> IF Fails(n, "scan") THEN {}
                          ELSE UNION {project.kids[t] : t \in Group(n)}])

\* n and what it is or may be taken to be made from, all the way down
Reach(n) == Closure({n}, [m \in Node |-> MayNeed(m)])

\* With -k, a failure keeps only what needs the failed node from being built, or
\* needs it by what files included before the build, and a cycle only what needs
\* a node on one, and is reported then.  About
\* VisitFailedChildren and Task.fail_continue: the walk goes on with the other
\* children and the other targets.
KeepGoingBuildsRest ==
  pc = "ended" /\ ~interrupted /\ project.policy = "keep" =>
    \A n \in Sought :
      \/ state[n] \in Done
      \/ \E c \in Reach(n) :
           Doubtful(c) \/ (status = "cycle" /\ OnCycle(c))

\* The build ends, whatever fails and whenever it is interrupted, and the
\* threads of the pool end with it.
Terminates ==
  <>[](pc = "ended" /\ \A w \in Worker : project.jobs > 1 => worker[w] = Quit)
=============================================================================
