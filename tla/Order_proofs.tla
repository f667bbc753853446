---------------------------- MODULE Order_proofs ----------------------------
(* No command starts before all it needs is built, what a scanner finds in  *)
(* generated files included: RunsAfterNeeds.  The walk, the pool and the    *)
(* signals keep the promise of BuildOrder: ImplementsOrder.  For every      *)
(* project, number of threads and interleaving.                             *)
EXTENDS Taskmaster_proofs

\* What a file to be rebuilt is read to include, it includes afterwards too.  Of
\* other projects only the runs speak.
IncludesKept == \A n \in Node : project.old[n] \subseteq project.incl[n]

\* What every scanner sees in each file: a file that is still to be rebuilt may
\* show nothing
Sure == [n \in Node |-> IF n \in Outdated THEN {} ELSE project.incl[n]]

Kids(T) == UNION {project.kids[t] : t \in T}
Implicits(T) == UNION {implicit[t] : t \in T}

\* What n is known to be made from
Known(n) == Kids(Group(n)) \cup Implicits(Group(n))

\* Built, and out of the main thread's hands
Settled(c) == state[c] \in Done /\ ~(pc = "prepare" /\ c \in Group(task))

\* Commands under way are for nodes with builders, all of whose targets
\* are marked
Running ==
  /\ \A n \in UnderWay : /\ n \in project.builder
                         /\ \A t \in Group(n) : state[t] = EXECUTING
  /\ \A m, n \in UnderWay : m # n => m \notin Group(n)

\* The three things make_ready_current may have made of the node it got
HeldState ==
  pc = "prepare" =>
    /\ \A m \in Out : m \notin Group(task)
    /\ \/ Fails(task, "ready") /\ \A t \in Group(task) : state[t] \notin Done \cup {EXECUTING}
       \/ /\ ~Fails(task, "ready") /\ Stale(task)
          /\ \A t \in Group(task) : state[t] = EXECUTING
       \/ /\ ~Fails(task, "ready") /\ ~Stale(task)
          /\ \A t \in Group(task) : state[t] = UP_TO_DATE

\* A command's targets are built together
GroupsTogether ==
  \A n \in Node :
    state[n] <= PENDING => \A t \in Group(n) : state[t] \notin Done \cup {EXECUTING}

\* Nodes that keep each other from being built: a check of theirs raises, their
\* command failed, or they are made from one of the others
Barred(L) ==
  \A n \in L :
    /\ Group(n) \subseteq L
    /\ state[n] \notin Done /\ (n \in project.builder => state[n] # EXECUTING)
    /\ \/ Fails(n, "ready")
       \/ ~IsSideEffect(n) /\ \A t \in Group(n) : state[t] = FAILED
       \/ project.bad[n] # "scan" /\ Needs(n) \cap L # {}

\* With -k, what has failed is given up, all targets of its command with it.
\* The state alone does not say so: will_not_build may reach one of several
\* targets, and a failed side effect may be given back.
GivenUp(n) == \E L \in SUBSET Node : n \in L /\ Barred(L)

FailedGivenUp == ~stopped => \A n \in Node : state[n] = FAILED => GivenUp(n)

\* Who waits is not built itself, and waits for something it is made from and
\* that is not settled
Waiting ==
  \A c \in Node : \A p \in waitingParents[c] :
    /\ state[p] \notin Done /\ (p \in project.builder => state[p] # EXECUTING)
    /\ c \in Needs(p) /\ ~Settled(c) /\ project.bad[p] # "scan"

\* What fails early never waits and is never built
EarlyFailures ==
  \A n \in Node :
    /\ project.bad[n] = "scan" /\ n \in scanned => state[n] > PENDING
    /\ Fails(n, "ready") =>
         state[n] \notin Done /\ (n \in project.builder => state[n] # EXECUTING)

\* A scanner sees all there is in what is built
UpToDateShows == \A n \in Node : state[n] = UP_TO_DATE => ~Stale(n)

\* A scan finds nothing but what is needed
ImplicitNeeded ==
  \A n \in Node : IF n \in project.builder THEN implicit[n] \subseteq Needs(n)
                  ELSE implicit[n] = {}

\* The targets of one command, still to be built, that count as scanned
Scanned(n) ==
  n \in project.builder /\ state[n] <= PENDING /\ Group(n) \subseteq scanned

\* ... have been scanned late enough: nothing was built since that would add
\* to what was found, because a target waits for all that is not built yet
ScansFresh ==
  ~stopped => \A n \in Node : Scanned(n) => Found(Group(n), Sure) \subseteq Implicits(Group(n))

ScansWatched ==
  ~stopped =>
    \A n \in Node : Scanned(n) =>
      \A c \in Known(n) :
        \/ Settled(c) \/ GivenUp(c) \/ Fails(c, "ready")
        \/ \E t \in Group(n) : t \in waitingParents[c]

\* What is found up to date without a builder has its sources built
SettledKids ==
  \A n \in Node \ project.builder :
    state[n] \in Done => \A c \in project.kids[n] : Settled(c)

\* All that a command under way needs is built
NeedsSettled == \A n \in UnderWay : \A c \in Needs(n) : Settled(c)

OInv ==
  /\ IncludesKept /\ PoolInv /\ Running /\ HeldState /\ GroupsTogether /\ FailedGivenUp
  /\ Waiting /\ EarlyFailures /\ UpToDateShows /\ ImplicitNeeded
  /\ ScansFresh /\ ScansWatched /\ SettledKids /\ NeedsSettled

-----------------------------------------------------------------------------
(* Closures and scans *)

LEMMA ClosureContains ==
  ASSUME NEW S \in SUBSET Node, NEW F
  PROVE  S \subseteq Closure(S, F)
  BY DEF Closure

LEMMA ClosureLeast ==
  ASSUME NEW S, NEW F, NEW T \in SUBSET Node, S \subseteq T,
         \A m \in T : F[m] \subseteq T
  PROVE  Closure(S, F) \subseteq T
  BY DEF Closure

LEMMA ClosureClosed ==
  ASSUME NEW S, NEW F \in [Node -> SUBSET Node], NEW m \in Closure(S, F)
  PROVE  F[m] \subseteq Closure(S, F)
<1>1. m \in Node
  BY DEF Closure
<1>2. ASSUME NEW x \in F[m], NEW T \in SUBSET Node,
             S \subseteq T, \A k \in T : F[k] \subseteq T
      PROVE  x \in T
  <2>1. m \in T
    BY <1>2 DEF Closure
  <2> QED
    BY <1>2, <2>1
<1> QED
  BY <1>1, <1>2 DEF Closure

LEMMA KidsTypes ==
  ASSUME ProjectGiven, NEW n \in Node
  PROVE  Kids(Group(n)) \in SUBSET Node
  BY Groups, ProjectTypes DEF Kids, Project

LEMMA KnownTypes ==
  ASSUME TInv, NEW n \in Node
  PROVE  Known(n) \in SUBSET Node /\ Needs(n) \in SUBSET Node
<1>1. Kids(Group(n)) \in SUBSET Node /\ Group(n) \in SUBSET Node
  BY KidsTypes, Groups DEF TInv
<1> QED
  BY <1>1, Closures DEF Known, Implicits, Needs, MadeFrom, Found, Kids, TInv, TypeOK

LEMMA ShowsTypes ==
  ASSUME ProjectGiven
  PROVE  /\ Sure \in [Node -> SUBSET Node]
         /\ project.incl \in [Node -> SUBSET Node]
         /\ \A T : Found(T, Sure) \in SUBSET Node
  BY ProjectTypes, Closures DEF Sure, Project, Found

\* The sources of a scan and what they show are found, and what that shows
LEMMA FoundClosed ==
  ASSUME ProjectGiven, NEW n \in Node
  PROVE  /\ \A k \in Kids(Group(n)) : Sure[k] \subseteq Found(Group(n), Sure)
         /\ \A x \in Found(Group(n), Sure) : Sure[x] \subseteq Found(Group(n), Sure)
<1> DEFINE S == UNION {Sure[s] : s \in Kids(Group(n))}
<1>1. Found(Group(n), Sure) = Closure(S, Sure)
  BY DEF Found, Kids
<1>2. S \in SUBSET Node
  BY KidsTypes, ShowsTypes
<1>3. S \subseteq Found(Group(n), Sure)
  BY <1>1, <1>2, ClosureContains
<1>4. \A k \in Kids(Group(n)) : Sure[k] \subseteq S
  OBVIOUS
<1>5. \A x \in Closure(S, Sure) : Sure[x] \subseteq Closure(S, Sure)
  BY ClosureClosed, ShowsTypes
<1> QED
  BY <1>1, <1>3, <1>4, <1>5

LEMMA FoundLeast ==
  ASSUME ProjectGiven, NEW n \in Node, NEW X \in SUBSET Node,
         \A k \in Kids(Group(n)) : Sure[k] \subseteq X,
         \A x \in X : Sure[x] \subseteq X
  PROVE  Found(Group(n), Sure) \subseteq X
  BY ClosureLeast DEF Found, Kids

LEMMA ShowsNext ==
  ASSUME project' = project, NEW x \in Node
  PROVE  /\ Sure[x] = IF Stale(x) /\ state[x] # EXECUTED THEN {} ELSE project.incl[x]
         /\ Sure'[x] = IF Stale(x) /\ state'[x] # EXECUTED THEN {} ELSE project.incl[x]
  BY SameProject DEF Sure, Outdated

LEMMA FoundNextLeast ==
  ASSUME ProjectGiven, project' = project, NEW n \in Node, NEW X \in SUBSET Node,
         \A k \in Kids(Group(n)) : Sure'[k] \subseteq X,
         \A x \in X : Sure'[x] \subseteq X
  PROVE  Found(Group(n), Sure)' \subseteq X
<1>1. Found(Group(n), Sure)' = Closure(UNION {Sure'[s] : s \in Kids(Group(n))}, Sure')
  BY DEF Found, Kids, Group
<1> QED
  BY <1>1, ClosureLeast

LEMMA FoundNextClosed ==
  ASSUME ProjectGiven, project' = project, NEW n \in Node
  PROVE  /\ \A k \in Kids(Group(n)) : Sure'[k] \subseteq Found(Group(n), Sure)'
         /\ \A x \in Found(Group(n), Sure)' : Sure'[x] \subseteq Found(Group(n), Sure)'
         /\ Found(Group(n), Sure)' \in SUBSET Node
<1> DEFINE S == UNION {Sure'[s] : s \in Kids(Group(n))}
<1>1. Found(Group(n), Sure)' = Closure(S, Sure')
  BY DEF Found, Kids, Group
<1>2. Sure' \in [Node -> SUBSET Node]
  BY ProjectTypes, SameProject DEF Sure, Project
<1>3. S \in SUBSET Node
  BY <1>2, KidsTypes
<1>4. S \subseteq Found(Group(n), Sure)'
  BY <1>1, <1>3, ClosureContains
<1>5. \A k \in Kids(Group(n)) : Sure'[k] \subseteq S
  OBVIOUS
<1>6. /\ \A x \in Closure(S, Sure') : Sure'[x] \subseteq Closure(S, Sure')
      /\ Closure(S, Sure') \in SUBSET Node
  BY <1>2, ClosureClosed, Closures
<1> QED
  BY <1>1, <1>4, <1>5, <1>6

\* As more is built, a scan finds more
LEMMA FoundGrows ==
  ASSUME ProjectGiven, project' = project, NEW n \in Node,
         \A x \in Node : state[x] = EXECUTED => state'[x] = EXECUTED
  PROVE  Found(Group(n), Sure) \subseteq Found(Group(n), Sure)'
<1>1. \A x \in Node : Sure[x] \subseteq Sure'[x]
  BY ShowsNext DEF Sure
<1>2. /\ \A k \in Kids(Group(n)) : Sure[k] \subseteq Found(Group(n), Sure)'
      /\ \A x \in Found(Group(n), Sure)' : Sure[x] \subseteq Found(Group(n), Sure)'
  BY <1>1, KidsTypes, FoundNextClosed
<1> QED
  BY <1>2, FoundLeast, FoundNextClosed

\* A scan finds the same as before if nothing it looks at was built since
LEMMA FoundStays ==
  ASSUME ProjectGiven, project' = project, NEW n \in Node,
         \A x \in Kids(Group(n)) \cup Found(Group(n), Sure) :
           state'[x] = EXECUTED => state[x] = EXECUTED
  PROVE  Found(Group(n), Sure)' \subseteq Found(Group(n), Sure)
<1>1. Kids(Group(n)) \subseteq Node /\ Found(Group(n), Sure) \in SUBSET Node
  BY KidsTypes, ShowsTypes
<1>2. \A x \in Kids(Group(n)) \cup Found(Group(n), Sure) : Sure'[x] \subseteq Sure[x]
  BY <1>1, ShowsNext DEF Sure
<1>3. /\ \A k \in Kids(Group(n)) : Sure'[k] \subseteq Found(Group(n), Sure)
      /\ \A x \in Found(Group(n), Sure) : Sure'[x] \subseteq Found(Group(n), Sure)
  BY <1>2, FoundClosed
<1> QED
  BY <1>1, <1>3, FoundNextLeast

\* What a scan sees in the files lies between what every scan sees and what they
\* include in the end
LEMMA ReadingsBetween ==
  ASSUME ProjectGiven, IncludesKept, NEW shows \in {project.incl} \cup Readings
  PROVE  /\ shows \in [Node -> SUBSET Node]
         /\ \A x \in Node : Sure[x] \subseteq shows[x] /\ shows[x] \subseteq project.incl[x]
<1>1. /\ project.incl \in [Node -> SUBSET Node] /\ project.old \in [Node -> SUBSET Node]
      /\ \A x \in Node : project.old[x] \subseteq project.incl[x]
  BY ProjectTypes DEF Project, IncludesKept
<1>2. CASE shows = project.incl
  BY <1>1, <1>2 DEF Sure
<1>3. CASE shows \in Readings
  <2>1. PICK seen, read : shows = Shows(seen, read)
    BY <1>3 DEF Readings
  <2> QED
    BY <1>1, <2>1 DEF Shows, Sure
<1> QED
  BY <1>2, <1>3

\* Scanners that see more find more
LEMMA FoundMonotone ==
  ASSUME ProjectGiven, NEW n \in Node,
         NEW f \in [Node -> SUBSET Node], NEW g \in [Node -> SUBSET Node],
         \A x \in Node : f[x] \subseteq g[x]
  PROVE  Found(Group(n), f) \subseteq Found(Group(n), g)
<1> DEFINE S == UNION {f[s] : s \in Kids(Group(n))}
           T == UNION {g[s] : s \in Kids(Group(n))}
           G == Closure(T, g)
<1>1. Found(Group(n), f) = Closure(S, f) /\ Found(Group(n), g) = G
  BY DEF Found, Kids
<1>2. Kids(Group(n)) \in SUBSET Node
  BY KidsTypes
<1>3. S \subseteq T /\ T \in SUBSET Node
  BY <1>2
<1> HIDE DEF S, T
<1>4. T \subseteq G /\ G \in SUBSET Node
  BY <1>3, Closures, ClosureContains
<1>5. \A x \in G : f[x] \subseteq G
  BY <1>4, ClosureClosed
<1> HIDE DEF G
<1>6. Closure(S, f) \subseteq G
  BY <1>3, <1>4, <1>5, ClosureLeast
<1> QED
  BY <1>1, <1>6

\* ... and what one finds lies between, too
LEMMA FoundBetween ==
  ASSUME ProjectGiven, NEW n \in Node, NEW shows \in [Node -> SUBSET Node],
         \A x \in Node : Sure[x] \subseteq shows[x] /\ shows[x] \subseteq project.incl[x]
  PROVE  /\ Found(Group(n), Sure) \subseteq Found(Group(n), shows)
         /\ n \in project.builder => Found(Group(n), shows) \subseteq Needs(n)
<1>1. Found(Group(n), Sure) \subseteq Found(Group(n), shows)
  BY FoundMonotone, ShowsTypes
<1>2. Found(Group(n), shows) \subseteq Found(Group(n), project.incl)
  BY FoundMonotone, ShowsTypes
<1>3. n \in project.builder => Found(Group(n), project.incl) \subseteq Needs(n)
  BY DEF Needs, MadeFrom, HasBuilder
<1> QED
  BY <1>1, <1>2, <1>3

\* All that n needs is known once all that is known is built
LEMMA NeedsFound ==
  ASSUME TInv, UpToDateShows, NEW n \in Node, NEW X \in SUBSET Node,
         Kids(Group(n)) \subseteq X,
         n \in project.builder => Found(Group(n), Sure) \subseteq X,
         \A x \in X : state[x] \in Done
  PROVE  Needs(n) \subseteq X
<1>1. ProjectGiven
  BY DEF TInv
<1>2. \A x \in X : Sure[x] = project.incl[x]
  BY DEF UpToDateShows, Sure, Outdated, Done
<1>3. CASE n \in project.builder
  <2> DEFINE F == Found(Group(n), Sure)
             S == UNION {project.incl[k] : k \in Kids(Group(n))}
  <2>1. \A x \in F : project.incl[x] \subseteq F
    BY <1>1, <1>2, <1>3, FoundClosed
  <2>2. S \subseteq F
    BY <1>1, <1>2, FoundClosed
  <2>3. Closure(S, project.incl) \subseteq F
    BY <1>1, <2>1, <2>2, ShowsTypes, ClosureLeast
  <2> QED
    BY <1>3, <2>3 DEF Needs, MadeFrom, Found, Kids, HasBuilder
<1>4. CASE n \notin project.builder
  BY <1>4 DEF Needs, MadeFrom, Kids, HasBuilder
<1> QED
  BY <1>3, <1>4

LEMMA NeedsShared ==
  ASSUME ProjectGiven, NEW n \in Node, NEW t \in Group(n)
  PROVE  t \in Node /\ Needs(t) = Needs(n) /\ (Doubtful(t) <=> Doubtful(n))
<1>1. t \in Node /\ Group(t) = Group(n) /\ n \in Group(t)
  BY Groups, Partners
<1>2. HasBuilder(t) <=> HasBuilder(n)
  BY <1>1, Builders DEF HasBuilder
<1> QED
  BY <1>1, <1>2 DEF Needs, MadeFrom, Doubtful

\* A node may be taken to be made from more than it is made from
LEMMA MayNeedMore ==
  ASSUME ProjectGiven, NEW n \in Node
  PROVE  MayNeed(n) \in SUBSET Node /\ Needs(n) \subseteq MayNeed(n)
<1>1. /\ project.incl \in [Node -> SUBSET Node] /\ Contents \in [Node -> SUBSET Node]
      /\ \A x \in Node : project.incl[x] \subseteq Contents[x]
  BY ProjectTypes DEF Project, Contents
<1>2. Found(Group(n), project.incl) \subseteq Found(Group(n), Contents)
  BY <1>1, FoundMonotone
<1>3. Kids(Group(n)) \in SUBSET Node /\ Found(Group(n), Contents) \in SUBSET Node
  BY KidsTypes, Closures DEF Found
<1> QED
  BY <1>2, <1>3 DEF Needs, MayNeed, MadeFrom, Kids

\* Nothing is clouded: what the engine may take a node to be made from is what it
\* is made from
LEMMA NeverClouded ==
  ASSUME ProjectGiven, IncludesKept
  PROVE  \A n : MayNeed(n) = Needs(n) /\ ~Clouded(n)
<1>1. Contents = project.incl
  <2>1. project.incl \in [Node -> SUBSET Node] /\ \A n \in Node : project.old[n] \subseteq project.incl[n]
    BY ProjectTypes DEF Project, IncludesKept
  <2> QED
    BY <2>1 DEF Contents
<1> QED
  BY <1>1 DEF MayNeed, Needs, Clouded

-----------------------------------------------------------------------------
(* Steps that build nothing *)

LEMMA SameNeeds ==
  ASSUME project' = project
  PROVE  /\ \A n : /\ Needs(n)' = Needs(n) /\ Group(n)' = Group(n)
                   /\ MayNeed(n)' = MayNeed(n)
         /\ IncludesKept' <=> IncludesKept
<1>1. \A n : Group(n)' = Group(n)
  BY DEF Group
<1>2. \A n : Needs(n)' = Needs(n)
  BY DEF Needs, MadeFrom, Found, Group, HasBuilder, Closure
<1>3. Contents' = Contents
  BY DEF Contents
<1>4. \A n : MayNeed(n)' = MayNeed(n)
  BY <1>3 DEF MayNeed, MadeFrom, Found, Group, HasBuilder, Closure
<1> QED
  BY <1>1, <1>2, <1>4 DEF IncludesKept

LEMMA SameMeaning ==
  ASSUME project' = project
  PROVE  /\ \A n : /\ Needs(n)' = Needs(n)
                   /\ Kids(Group(n))' = Kids(Group(n))
                   /\ Known(n)' = Kids(Group(n)) \cup UNION {implicit'[t] : t \in Group(n)}
                   /\ Implicits(Group(n))' = UNION {implicit'[t] : t \in Group(n)}
         /\ implicit' = implicit =>
              \A n : Known(n)' = Known(n) /\ Implicits(Group(n))' = Implicits(Group(n))
         /\ state' = state => \A n : Found(Group(n), Sure)' = Found(Group(n), Sure)
<1>1. \A n : Group(n)' = Group(n)
  BY DEF Group
<1>2. \A n : Needs(n)' = Needs(n)
  BY SameNeeds
<1>3. \A n : Kids(Group(n))' = Kids(Group(n))
  BY DEF Kids, Group
<1>4. \A n : /\ Known(n)' = Kids(Group(n)) \cup UNION {implicit'[t] : t \in Group(n)}
             /\ Implicits(Group(n))' = UNION {implicit'[t] : t \in Group(n)}
  BY DEF Kids, Group, Known, Implicits
<1>5. implicit' = implicit =>
        \A n : Known(n)' = Known(n) /\ Implicits(Group(n))' = Implicits(Group(n))
  BY <1>4 DEF Known, Implicits
<1>6. state' = state => \A n : Found(Group(n), Sure)' = Found(Group(n), Sure)
  BY DEF Found, Group, Sure, Outdated, Stale, Closure
<1> QED
  BY <1>2, <1>3, <1>4, <1>5, <1>6

\* What is given up is not built, and is so with its command's other targets,
\* for a reason
LEMMA GivenUpIs ==
  ASSUME NEW n, GivenUp(n)
  PROVE  /\ n \in Node /\ state[n] \notin Done
         /\ n \in project.builder => state[n] # EXECUTING
         /\ \A t \in Group(n) : GivenUp(t)
         /\ \/ Fails(n, "ready")
            \/ ~IsSideEffect(n) /\ \A t \in Group(n) : state[t] = FAILED
            \/ project.bad[n] # "scan" /\ \E c \in Needs(n) : GivenUp(c)
<1>1. PICK L \in SUBSET Node : n \in L /\ Barred(L)
  BY DEF GivenUp
<1>2. \A c \in L : GivenUp(c)
  BY <1>1 DEF GivenUp
<1> QED
  BY <1>1, <1>2 DEF Barred

\* More is given up: S, made from S or from what was given up
LEMMA GivenUpMore ==
  ASSUME TInv, project' = project, NEW S \in SUBSET Node,
         \A n \in S :
           /\ Group(n) \subseteq S
           /\ state'[n] \notin Done /\ (n \in project.builder => state'[n] # EXECUTING)
           /\ \/ Fails(n, "ready")
              \/ ~IsSideEffect(n) /\ \A t \in Group(n) : state'[t] = FAILED
              \/ project.bad[n] # "scan" /\ \E c \in Needs(n) : c \in S \/ GivenUp(c)'
  PROVE  \A n \in S : GivenUp(n)'
<1> DEFINE L0 == S \cup {x \in Node : GivenUp(x)'}
<1>0. PICK L \in SUBSET Node : L = L0
  OBVIOUS
<1>1. \A n : Fails(n, "ready")' <=> Fails(n, "ready")
  BY SameProject
<1>2. \A n : Group(n)' = Group(n) /\ (IsSideEffect(n)' <=> IsSideEffect(n))
  BY DEF Group, IsSideEffect
<1>2a. \A n : Needs(n)' = Needs(n)
  BY SameNeeds
<1>3. ASSUME NEW n \in L
      PROVE  /\ Group(n) \subseteq L
             /\ state'[n] \notin Done /\ (n \in project.builder => state'[n] # EXECUTING)
             /\ \/ Fails(n, "ready")
                \/ ~IsSideEffect(n) /\ \A t \in Group(n) : state'[t] = FAILED
                \/ project.bad[n] # "scan" /\ Needs(n) \cap L # {}
  <2>1. CASE n \in S
    <3>1. \A c : GivenUp(c)' => c \in L
      BY <1>0 DEF GivenUp
    <3> QED
      BY <1>0, <2>1, <3>1
  <2>2. CASE n \notin S
    <3>1. GivenUp(n)'
      BY <1>0, <2>2
    <3>2. PICK K \in SUBSET Node : n \in K /\ Barred(K)'
      BY <3>1 DEF GivenUp
    <3>3. K \subseteq L
      BY <1>0, <3>2 DEF GivenUp
    <3>4. /\ Group(n) \subseteq K
          /\ state'[n] \notin Done /\ (n \in project.builder => state'[n] # EXECUTING)
          /\ \/ Fails(n, "ready")
             \/ ~IsSideEffect(n) /\ \A t \in Group(n) : state'[t] = FAILED
             \/ project.bad[n] # "scan" /\ Needs(n) \cap K # {}
      BY <1>1, <1>2, <1>2a, <3>2 DEF Barred
    <3> QED
      BY <3>3, <3>4
  <2> QED
    BY <2>1, <2>2
<1>4. S \subseteq L
  BY <1>0
<1>5. Barred(L)'
  BY <1>1, <1>2, <1>2a, <1>3 DEF Barred
<1> QED
  BY <1>4, <1>5 DEF GivenUp

\* Steps that build none of what is given up leave it given up
LEMMA GivenUpStays ==
  ASSUME TInv, project' = project,
         \A n \in Node : GivenUp(n) =>
           /\ state'[n] \notin Done /\ (n \in project.builder => state'[n] # EXECUTING)
           /\ ~IsSideEffect(n) /\ (\A t \in Group(n) : state[t] = FAILED) =>
                \A t \in Group(n) : state'[t] = FAILED
  PROVE  \A n \in Node : GivenUp(n) => GivenUp(n)'
<1> DEFINE S == {n \in Node : GivenUp(n)}
<1>1. ASSUME NEW n \in S
      PROVE  /\ Group(n) \subseteq S
             /\ state'[n] \notin Done /\ (n \in project.builder => state'[n] # EXECUTING)
             /\ \/ Fails(n, "ready")
                \/ ~IsSideEffect(n) /\ \A t \in Group(n) : state'[t] = FAILED
                \/ project.bad[n] # "scan" /\ \E c \in Needs(n) : c \in S \/ GivenUp(c)'
  <2>1. n \in Node /\ GivenUp(n)
    OBVIOUS
  <2>2. \A c : GivenUp(c) => c \in S
    BY GivenUpIs
  <2> HIDE DEF S
  <2> QED
    BY <2>1, <2>2, GivenUpIs
<1>2. S \in SUBSET Node
  OBVIOUS
<1>3. \A n \in Node : GivenUp(n) => n \in S
  OBVIOUS
<1> HIDE DEF S
<1> QED
  BY <1>1, <1>2, <1>3, GivenUpMore

\* Nothing is built, scanned, or waited for
LEMMA OQuiet ==
  ASSUME TInv, TInv', OInv, PoolInv', project' = project,
         UNCHANGED <<state, implicit, scanned>>, stopped => stopped',
         \A c \in Node : waitingParents'[c] \subseteq waitingParents[c],
         stopped' \/ waitingParents' = waitingParents,
         UnderWay' = UnderWay,
         pc' # "prepare" \/ (UNCHANGED <<pc, task>> /\ Out' = Out),
         \A c \in Node : Settled(c)' <=> Settled(c)
  PROVE  OInv'
<1>1. UnderWay \subseteq Node
  BY OutKnown
<1>2. Running' /\ HeldState'
  BY SameProject DEF OInv, Running, HeldState
<1>3. GroupsTogether' /\ EarlyFailures' /\ UpToDateShows'
  BY SameProject DEF OInv, GroupsTogether, EarlyFailures, UpToDateShows
<1>3a. \A n \in Node : GivenUp(n) => GivenUp(n)'
  BY GivenUpIs, GivenUpStays, SameMeaning
<1>3b. FailedGivenUp'
  BY <1>3a DEF OInv, FailedGivenUp
<1>4. Waiting'
  BY SameMeaning DEF OInv, Waiting
<1>5. ImplicitNeeded'
  BY SameMeaning DEF OInv, ImplicitNeeded
<1>6. \A n : Scanned(n)' <=> Scanned(n)
  BY SameProject DEF Scanned
<1>7. ScansFresh'
  BY <1>6, SameMeaning DEF OInv, ScansFresh
<1>8. ScansWatched'
  <2> SUFFICES ASSUME ~stopped', NEW n \in Node, Scanned(n), NEW c \in Known(n)
               PROVE  \/ Settled(c)' \/ GivenUp(c)' \/ Fails(c, "ready")
                      \/ \E t \in Group(n) : t \in waitingParents[c]
    BY <1>6, SameMeaning, SameProject DEF ScansWatched
  <2>1. \/ Settled(c) \/ GivenUp(c) \/ Fails(c, "ready")
        \/ \E t \in Group(n) : t \in waitingParents[c]
    BY DEF OInv, ScansWatched
  <2> QED
    BY <1>3a, <2>1, KnownTypes
<1>9. SettledKids'
  <2>1. project.kids \in [Node -> SUBSET Node]
    BY ProjectTypes DEF TInv, Project
  <2> QED
    BY <2>1 DEF OInv, SettledKids
<1>10. NeedsSettled'
  BY <1>1, KnownTypes, SameMeaning DEF OInv, NeedsSettled
<1>11. IncludesKept'
  BY SameNeeds DEF OInv
<1> QED
  BY <1>2, <1>3, <1>3b, <1>4, <1>5, <1>7, <1>8, <1>9, <1>10, <1>11 DEF OInv

LEMMA SkipOrdered ==
  ASSUME TInv, TInv', OInv, SkipHandled \/ NoCandidate
  PROVE  OInv'
<1>1. /\ pc = "next" /\ pc' # "prepare" /\ project' = project
      /\ UNCHANGED <<state, implicit, scanned, interrupted, stopped>>
      /\ UNCHANGED poolVars
  BY DEF SkipHandled, NoCandidate, Looking, nodeVars, scanVars
<1>2. \A c \in Node : waitingParents'[c] \subseteq waitingParents[c]
  BY DEF SkipHandled, NoCandidate, nodeVars, FlushedParents
<1>3. stopped' \/ waitingParents' = waitingParents
  BY DEF SkipHandled, NoCandidate, nodeVars
<1>4. PoolInv'
  BY <1>1, PoolQuiet DEF OInv
<1>5. UnderWay' = UnderWay
  BY <1>1, UnderWayIs, UnderWayNext, OutSame DEF Holding
<1>6. \A c \in Node : Settled(c)' <=> Settled(c)
  BY <1>1 DEF Settled
<1> QED
  BY <1>1, <1>2, <1>3, <1>4, <1>5, <1>6, OQuiet

\* A task moves on in the pool
LEMMA HandedOnOrdered ==
  ASSUME TInv, TInv', OInv, UNCHANGED <<project, state, waitingParents, implicit, scanned>>,
         UnderWay' = UnderWay, PoolInv', stopped' \/ stopped' = stopped,
         \/ UNCHANGED <<pc, task>> /\ Out' = Out
         \/ pc # "prepare" /\ pc' # "prepare"
         \/ pc' # "prepare" /\ task \in Node /\ state[task] = EXECUTING
  PROVE  OInv'
<1>1. \A c \in Node : Settled(c)' <=> Settled(c)
  <2>1. CASE pc = "prepare" /\ pc' # "prepare" /\ task \in Node /\ state[task] = EXECUTING
    <3>1. \A t \in Group(task) : state[t] \notin Done
      BY <2>1, Groups DEF OInv, HeldState, TInv, Done, EXECUTING, UP_TO_DATE, EXECUTED
    <3> QED
      BY <2>1, <3>1 DEF Settled
  <2>2. CASE ~(pc = "prepare" /\ pc' # "prepare")
    BY <2>2, SameProject DEF Settled
  <2> QED
    BY <2>1, <2>2
<1> QED
  BY <1>1, OQuiet

LEMMA PoolStepsOrdered ==
  ASSUME TInv, TInv', OInv,
         \/ \E n \in Node : Dispatch(n)
         \/ \E w \in Worker : WorkerTake(w) \/ WorkerFinish(w)
         \/ Interrupt
         \/ Cleanup
  PROVE  OInv'
<1>1. CASE \E n \in Node : Dispatch(n)
  BY <1>1, PoolDispatched, HandedOnOrdered
  DEF OInv, Dispatch, Preparing, AfterDispatch, nodeVars, scanVars
<1>2. CASE \E w \in Worker : WorkerTake(w)
  BY <1>2, PoolTaken, HandedOnOrdered DEF OInv, WorkerTake, nodeVars, scanVars
<1>3. CASE \E w \in Worker : WorkerFinish(w)
  BY <1>3, PoolFinished, HandedOnOrdered DEF OInv, WorkerFinish, nodeVars, scanVars
<1>4. CASE Interrupt
  BY <1>4, PoolInterrupted, HandedOnOrdered DEF OInv, Interrupt, nodeVars, scanVars
<1>5. CASE Cleanup
  BY <1>5, PoolCleanedUp, HandedOnOrdered DEF OInv, Cleanup, nodeVars, scanVars
<1> QED
  BY <1>1, <1>2, <1>3, <1>4, <1>5

-----------------------------------------------------------------------------
(* Visits *)

\* A node that is looked at, with the targets of its command
LEMMA LookedAt ==
  ASSUME TInv, OInv, NEW n \in Node, state[n] <= PENDING
  PROVE  /\ \A t \in Group(n) : /\ t \in Node /\ Group(t) = Group(n)
                                /\ state[t] \notin Done \cup {EXECUTING} /\ ~Settled(t)
                                /\ (n \in project.builder <=> t \in project.builder)
                                /\ \A k : Fails(t, k) <=> Fails(n, k)
                                /\ Stale(t) <=> Stale(n)
         /\ \A m \in Node : m \notin Group(n) => Group(m) \cap Group(n) = {}
         /\ \A m \in UnderWay : m \notin Group(n) /\ Group(m) \cap Group(n) = {}
         /\ n \notin Out /\ n \in Group(n)
<1>1. ProjectGiven /\ n \in Group(n)
  BY Groups DEF TInv
<1>2. ASSUME NEW t \in Group(n)
      PROVE  t \in Node /\ Group(t) = Group(n) /\ t \in Group(t)
  BY <1>1, Groups, Partners
<1>3. \A t \in Group(n) : state[t] \notin Done \cup {EXECUTING} /\ ~Settled(t)
  BY DEF OInv, GroupsTogether, Settled
<1>4. ASSUME NEW t \in Group(n)
      PROVE  n \in project.builder <=> t \in project.builder
  <2>1. n \in Group(t)
    BY <1>1, <1>2
  <2> QED
    BY <1>1, <1>2, <2>1, Builders
<1>5. \A t \in Group(n) : Stale(t) <=> Stale(n)
  BY <1>2 DEF Stale
<1>6. \A t \in Group(n) : \A k : Fails(t, k) <=> Fails(n, k)
  BY <1>2 DEF Fails
<1>7. \A m \in Node : m \notin Group(n) => Group(m) \cap Group(n) = {}
  <2> SUFFICES ASSUME NEW m \in Node, NEW x \in Group(m), x \in Group(n)
               PROVE  m \in Group(n)
    OBVIOUS
  <2>1. Group(x) = Group(m) /\ Group(x) = Group(n) /\ m \in Group(m)
    BY <1>1, Partners, Groups
  <2> QED
    BY <2>1
<1>8. \A m \in UnderWay : m \in Node /\ m \notin Group(n)
  BY <1>1, <1>3, OutKnown, Groups DEF OInv, Running
<1>9. n \notin Out
  BY <1>1, <1>8, OutKnown
<1> QED
  BY <1>1, <1>2, <1>3, <1>4, <1>5, <1>6, <1>7, <1>8, <1>9

\* A visit scans all it should
LEMMA VisitScans ==
  ASSUME TInv, OInv, NEW n \in Node, Visit(n)
  PROVE  /\ pc = "next" /\ ~stopped /\ ~stopped' /\ state[n] <= PENDING
         /\ project' = project /\ UNCHANGED poolVars /\ interrupted' = interrupted
         /\ scanned' = scanned \cup Group(n) /\ project.bad[n] # "scan"
         /\ \A m \in Node : IF m \in project.builder THEN implicit'[m] \subseteq Needs(m)
                            ELSE implicit'[m] = {}
         /\ \A m \in Node \ Group(n) : implicit'[m] = implicit[m]
         /\ n \in project.builder => Found(Group(n), Sure) \subseteq Implicits(Group(n))'
         /\ \A t \in Group(n) : Known(t)' = Children(n)
         /\ Children(n) \in SUBSET Node /\ Kids(Group(n)) \subseteq Children(n)
         /\ Implicits(Group(n))' \subseteq Children(n)
         /\ \A t \in Group(n) : Needs(t) = Needs(n) /\ Children(n) \subseteq Needs(t)
<1> DEFINE T == Group(n)
           new == T \ scanned
<1>1. /\ pc = "next" /\ ~stopped /\ ~stopped' /\ state[n] <= PENDING
      /\ project' = project /\ UNCHANGED poolVars /\ interrupted' = interrupted
      /\ Scan(n) /\ ~ScanFails(n)
  BY DEF Visit, Looking, HasCandidate
<1>2. \A t \in T : t \in Node /\ Group(t) = T
                   /\ (n \in project.builder <=> t \in project.builder)
  BY <1>1, LookedAt
<1>2a. ProjectGiven /\ IncludesKept
  BY DEF OInv, TInv
<1>3. /\ scanned' = scanned \cup T
      /\ \E shows \in {project.incl} \cup Readings :
           implicit' =
             [m \in Node |->
                IF m \notin T \/ new = {} THEN implicit[m]
                ELSE (IF m \in new THEN {} ELSE implicit[m])
                     \cup (IF HasBuilder(n) THEN Found(T, shows) ELSE {})]
  BY <1>1 DEF Scan
<1>4. \A m \in Node : IF m \in project.builder THEN implicit[m] \subseteq Needs(m)
                      ELSE implicit[m] = {}
  BY DEF OInv, ImplicitNeeded
<1>5. PICK shows \in {project.incl} \cup Readings :
        implicit' =
          [m \in Node |->
             IF m \notin T \/ new = {} THEN implicit[m]
             ELSE (IF m \in new THEN {} ELSE implicit[m])
                  \cup (IF HasBuilder(n) THEN Found(T, shows) ELSE {})]
  BY <1>3
<1>5a. /\ Found(T, Sure) \subseteq Found(T, shows)
       /\ n \in project.builder => Found(T, shows) \subseteq Needs(n)
  BY <1>2a, ReadingsBetween, FoundBetween
<1>5b. \A t \in T : Needs(t) = Needs(n)
  BY <1>2 DEF Needs, MadeFrom, HasBuilder
<1>6. \A m \in Node : IF m \in project.builder THEN implicit'[m] \subseteq Needs(m)
                      ELSE implicit'[m] = {}
  BY <1>2, <1>4, <1>5, <1>5a, <1>5b DEF HasBuilder
<1>7. \A m \in Node \ T : implicit'[m] = implicit[m]
  BY <1>5
<1>8. project.bad[n] # "scan"
  <2>1. project.bad[n] = "scan" => n \notin scanned
    <3>1. state[n] \in NO_STATE .. FAILED
      BY DEF TInv, TypeOK
    <3>2. ~(state[n] > PENDING)
      BY <1>1, <3>1 DEF NO_STATE, FAILED, PENDING
    <3> QED
      BY <3>2 DEF OInv, EarlyFailures
  <2> QED
    BY <1>1, <2>1, Groups DEF ScanFails, Fails, TInv
<1>9. Implicits(T)' = UNION {implicit'[t] : t \in T}
  BY <1>1, SameMeaning
<1>10. n \in project.builder => Found(T, Sure) \subseteq Implicits(T)'
  <2>1. CASE new = {}
    <3>1. implicit' = implicit
      BY <1>5, <2>1 DEF TInv, TypeOK
    <3>2. n \in project.builder => Scanned(n)
      BY <1>1, <2>1 DEF Scanned
    <3> QED
      BY <1>1, <1>9, <3>1, <3>2 DEF OInv, ScansFresh, Implicits
  <2>2. CASE new # {}
    <3>1. n \in project.builder => Found(T, Sure) \subseteq implicit'[n]
      BY <1>5, <1>5a, <2>2, Groups DEF HasBuilder, TInv
    <3>2. n \in T
      BY Groups DEF TInv
    <3> QED
      BY <1>9, <3>1, <3>2
  <2> QED
    BY <2>1, <2>2
<1>11. Children(n) = Kids(T) \cup UNION {implicit'[t] : t \in T}
  BY DEF Children, Kids
<1>12. \A t \in T : Known(t)' = Children(n)
  BY <1>1, <1>2, <1>11, SameMeaning
<1>13. Children(n) \in SUBSET Node
  <2>1. implicit' \in [Node -> SUBSET Node]
    BY VisitTypes DEF TInv
  <2> QED
    BY <1>2, <1>11, <2>1, KidsTypes DEF TInv
<1>14. \A t \in T : Needs(t) = Needs(n) /\ Children(n) \subseteq Needs(t)
  <2>1. Kids(T) \subseteq Needs(n)
    BY DEF Needs, MadeFrom, Kids
  <2>2. \A t \in T : implicit'[t] \subseteq Needs(n)
    BY <1>2, <1>5b, <1>6
  <2> QED
    BY <1>5b, <1>11, <2>1, <2>2
<1> QED
  BY <1>1, <1>3, <1>6, <1>7, <1>8, <1>9, <1>10, <1>11, <1>12, <1>13, <1>14

\* The states a visit that does not take n up may change: those of targets
\* still to be built, to states of the same kind
LEMMA VisitStates ==
  ASSUME TInv, OInv, NEW n \in Node,
         VisitFailedChildren(n) \/ VisitWaits(n) \/ VisitSideEffectHeld(n)
  PROVE  \A m \in Node :
           /\ m \notin Group(n) => state'[m] = state[m]
           /\ m \in Group(n) => state'[m] \notin Done \cup {EXECUTING}
           /\ state[m] \in Done \cup {EXECUTING} \/ state'[m] \in Done \cup {EXECUTING}
                => state'[m] = state[m]
           /\ m \in Group(n) /\ ~VisitFailedChildren(n) /\ m # n => state'[m] = state[m]
<1>1. Visit(n) /\ state[n] <= PENDING /\ n \in Group(n)
  BY Groups DEF VisitFailedChildren, VisitWaits, VisitSideEffectHeld, Visit, TInv
<1>2. \A t \in Group(n) : state[t] \notin Done \cup {EXECUTING}
  BY <1>1, LookedAt
<1>3. \A m \in Node : \/ state'[m] = state[m]
                      \/ m = n /\ state'[m] = PENDING
                      \/ VisitFailedChildren(n) /\ m \in Group(n) /\ state'[m] = FAILED
  BY DEF VisitFailedChildren, VisitWaits, VisitSideEffectHeld, ActionTargets,
         TInv, TypeOK
<1>4. PENDING \notin Done \cup {EXECUTING} /\ FAILED \notin Done \cup {EXECUTING}
  BY DEF PENDING, FAILED, Done, EXECUTING, UP_TO_DATE, EXECUTED
<1> QED
  BY <1>1, <1>2, <1>3, <1>4

\* What such a visit leaves unsettled waits for something
LEMMA VisitWatched ==
  ASSUME TInv, OInv, NEW n \in Node,
         VisitFailedChildren(n) \/ VisitWaits(n) \/ VisitSideEffectHeld(n)
  PROVE  /\ n \in project.builder /\ (\E t \in Group(n) : state'[t] <= PENDING) =>
              \A c \in Children(n) : state[c] \in Done \/ n \in waitingParents'[c]
         /\ \A c \in Node : \A p \in waitingParents'[c] :
              \/ p \in waitingParents[c]
              \/ p = n /\ c \in Children(n) /\ state'[c] \notin Done
         /\ \A c \in Node : waitingParents[c] \subseteq waitingParents'[c]
<1>1. Visit(n) /\ state[n] <= PENDING
  BY DEF VisitFailedChildren, VisitWaits, VisitSideEffectHeld, Visit
<1>2. Children(n) \in SUBSET Node
  BY <1>1, VisitScans
<1>3. CASE VisitFailedChildren(n)
  <2>1. n \in project.builder => \A t \in Group(n) : state'[t] = FAILED
    BY <1>1, <1>3, LookedAt DEF VisitFailedChildren, ActionTargets, HasBuilder
  <2> QED
    BY <1>3, <2>1 DEF VisitFailedChildren, FAILED, PENDING
<1>4. CASE VisitWaits(n)
  <2>1. \A c \in Node : waitingParents'[c] =
          IF c \in NotReady(n) THEN waitingParents[c] \cup {n} ELSE waitingParents[c]
    BY <1>4 DEF VisitWaits
  <2>2. ASSUME NEW c \in Children(n), c \notin NotReady(n)
        PROVE  state[c] \in Done
    <3>1. state[c] # FAILED /\ ~(state[c] <= EXECUTING) /\ state[c] \in NO_STATE .. FAILED
      BY <1>2, <1>4, <2>2 DEF VisitWaits, AnyFailed, NotReady, TInv, TypeOK
    <3> QED
      BY <3>1 DEF NO_STATE, FAILED, EXECUTING, Done, UP_TO_DATE, EXECUTED
  <2>3. ASSUME NEW c \in NotReady(n)
        PROVE  c \in Children(n) /\ state'[c] \notin Done
    <3>1. c \in Children(n) /\ c \in Node /\ (c = n \/ state[c] <= EXECUTING)
      BY <1>2 DEF NotReady
    <3>2. state'[c] = PENDING \/ state'[c] = state[c]
      BY <1>4, <3>1 DEF VisitWaits, TInv, TypeOK
    <3> QED
      BY <1>1, <1>4, <3>1, <3>2
      DEF VisitWaits, Done, PENDING, EXECUTING, UP_TO_DATE, EXECUTED, TInv, TypeOK
  <2> QED
    BY <1>2, <2>1, <2>2, <2>3
<1>5. CASE VisitSideEffectHeld(n)
  <2>1. \A c \in Children(n) : state[c] \in Done
    <3> SUFFICES ASSUME NEW c \in Children(n) PROVE state[c] \in Done
      OBVIOUS
    <3>1. state[c] # FAILED /\ ~(state[c] <= EXECUTING) /\ state[c] \in NO_STATE .. FAILED
      BY <1>2, <1>5 DEF VisitSideEffectHeld, AnyFailed, NotReady, TInv, TypeOK
    <3> QED
      BY <3>1 DEF NO_STATE, FAILED, EXECUTING, Done, UP_TO_DATE, EXECUTED
  <2> QED
    BY <1>5, <2>1 DEF VisitSideEffectHeld
<1> QED
  BY <1>3, <1>4, <1>5

LEMMA VisitOrdered ==
  ASSUME TInv, TInv', OInv, NEW n \in Node,
         VisitFailedChildren(n) \/ VisitWaits(n) \/ VisitSideEffectHeld(n)
  PROVE  OInv'
<1> DEFINE T == Group(n)
<1>1. /\ Visit(n) /\ pc = "next" /\ pc' = pc
      /\ ~stopped /\ ~stopped' /\ state[n] <= PENDING /\ interrupted' = interrupted
      /\ project' = project /\ UNCHANGED poolVars
  <2>1. Visit(n) /\ pc' = pc
    BY DEF VisitFailedChildren, VisitWaits, VisitSideEffectHeld
  <2> QED
    BY <2>1, VisitScans
<1>2. PoolInv' /\ UnderWay' = UnderWay
  BY <1>1, PoolQuiet, OutSame, UnderWayIs, UnderWayNext DEF Holding, OInv
<1>3. \A m \in Node :
        /\ m \notin T => state'[m] = state[m]
        /\ m \in T => state'[m] \notin Done \cup {EXECUTING}
        /\ state[m] \in Done \cup {EXECUTING} \/ state'[m] \in Done \cup {EXECUTING}
             => state'[m] = state[m]
        /\ m \in T /\ ~VisitFailedChildren(n) /\ m # n => state'[m] = state[m]
  BY VisitStates
<1>4. /\ \A t \in T : /\ t \in Node /\ Group(t) = T
                      /\ (n \in project.builder <=> t \in project.builder)
      /\ \A m \in Node : m \notin T => Group(m) \cap T = {}
      /\ n \in T /\ T \subseteq Node
  BY <1>1, LookedAt
<1>5. \A m \in Node : Group(m) \subseteq Node
  BY Groups DEF TInv
<1>6. \A c \in Node : Settled(c)' <=> Settled(c)
  BY <1>1, <1>3 DEF Settled
<1>7. \A x \in Node : state'[x] = EXECUTED <=> state[x] = EXECUTED
  BY <1>3 DEF Done
<1>8. \A m \in Node : /\ Found(Group(m), Sure) \subseteq Found(Group(m), Sure)'
                      /\ Found(Group(m), Sure)' \subseteq Found(Group(m), Sure)
  <2> SUFFICES ASSUME NEW m \in Node
               PROVE  /\ Found(Group(m), Sure) \subseteq Found(Group(m), Sure)'
                      /\ Found(Group(m), Sure)' \subseteq Found(Group(m), Sure)
    OBVIOUS
  <2>1. ProjectGiven
    BY DEF TInv
  <2>2. Kids(Group(m)) \subseteq Node /\ Found(Group(m), Sure) \subseteq Node
    BY <2>1, KidsTypes, ShowsTypes
  <2> QED
    BY <1>1, <1>7, <2>1, <2>2, FoundGrows, FoundStays
<1>9. /\ scanned' = scanned \cup T /\ project.bad[n] # "scan"
      /\ \A m \in Node : IF m \in project.builder THEN implicit'[m] \subseteq Needs(m)
                         ELSE implicit'[m] = {}
      /\ \A m \in Node \ T : implicit'[m] = implicit[m]
      /\ n \in project.builder => Found(T, Sure) \subseteq Implicits(T)'
      /\ \A t \in T : Known(t)' = Children(n)
      /\ Children(n) \in SUBSET Node
      /\ \A t \in T : Children(n) \subseteq Needs(t)
  BY <1>1, VisitScans
<1>10. \A m \in Node : m \notin T =>
         Known(m)' = Known(m) /\ Implicits(Group(m))' = Implicits(Group(m))
  <2>1. \A m \in Node : Known(m)' = Kids(Group(m)) \cup UNION {implicit'[t] : t \in Group(m)}
    BY <1>1, SameMeaning
  <2>2. \A m \in Node : Implicits(Group(m))' = UNION {implicit'[t] : t \in Group(m)}
    BY <1>1, SameMeaning
  <2>4. \A m \in Node : m \notin T =>
          UNION {implicit'[t] : t \in Group(m)} = UNION {implicit[t] : t \in Group(m)}
    BY <1>4, <1>5, <1>9
  <2>6. \A m \in Node : m \notin T => Implicits(Group(m))' = Implicits(Group(m))
    BY <2>2, <2>4 DEF Implicits
  <2>7. \A m \in Node : m \notin T => Known(m)' = Known(m)
    BY <2>1, <2>4 DEF Known, Implicits
  <2> QED
    BY <2>6, <2>7
<1>11. /\ n \in project.builder /\ (\E t \in T : state'[t] <= PENDING) =>
            \A c \in Children(n) : state[c] \in Done \/ n \in waitingParents'[c]
       /\ \A c \in Node : \A p \in waitingParents'[c] :
            \/ p \in waitingParents[c]
            \/ p = n /\ c \in Children(n) /\ state'[c] \notin Done
       /\ \A c \in Node : waitingParents[c] \subseteq waitingParents'[c]
  BY VisitWatched
<1>12. waitingParents \in [Node -> SUBSET Node]
  BY DEF TInv, TypeOK
<1>13. Running' /\ HeldState'
  <2>1. Running'
    BY <1>1, <1>2, <1>3, <1>5, OutKnown, SameProject DEF OInv, Running
  <2> QED
    BY <1>1, <2>1 DEF HeldState
<1>14. GroupsTogether'
  <2> SUFFICES ASSUME NEW m \in Node, state'[m] <= PENDING, NEW t \in Group(m)
               PROVE  state'[t] \notin Done \cup {EXECUTING}
    BY <1>1, SameProject DEF GroupsTogether
  <2>1. CASE m \in T
    BY <1>3, <1>4, <2>1
  <2>2. CASE m \notin T
    BY <1>3, <1>5, <2>2 DEF OInv, GroupsTogether
  <2> QED
    BY <2>1, <2>2
<1>15a. \A m \in Node : GivenUp(m) => GivenUp(m)'
  <2> SUFFICES ASSUME NEW m \in Node, GivenUp(m)
               PROVE  /\ state'[m] \notin Done
                      /\ m \in project.builder => state'[m] # EXECUTING
                      /\ (\A t \in Group(m) : state[t] = FAILED) =>
                           \A t \in Group(m) : state'[t] = FAILED
    BY <1>1, GivenUpStays
  <2>1. state[n] # FAILED
    BY <1>1 DEF FAILED, PENDING
  <2> QED
    BY <1>3, <1>4, <1>5, <2>1, GivenUpIs
<1>15. FailedGivenUp'
  <2> SUFFICES ASSUME NEW m \in Node, state'[m] = FAILED
               PROVE  GivenUp(m)'
    BY DEF FailedGivenUp
  <2>1. CASE state[m] = FAILED
    BY <1>1, <1>15a, <2>1 DEF OInv, FailedGivenUp
  <2>2. CASE state[m] # FAILED
    <3>0. PENDING # FAILED /\ state \in [Node -> NO_STATE .. FAILED]
      BY DEF PENDING, FAILED, TInv, TypeOK
    <3>1. VisitFailedChildren(n) /\ m \in ActionTargets(n)
      <4>1. CASE VisitFailedChildren(n)
        BY <2>2, <3>0, <4>1 DEF VisitFailedChildren
      <4>2. CASE VisitWaits(n) \/ VisitSideEffectHeld(n)
        <5>1. state' = [state EXCEPT ![n] = PENDING]
          BY <4>2 DEF VisitWaits, VisitSideEffectHeld
        <5> QED
          BY <2>2, <3>0, <5>1
      <4> QED
        BY <4>1, <4>2
    <3>2. /\ n \in project.builder /\ m \in T
          /\ \A t \in T : state'[t] = FAILED
      BY <1>4, <3>1 DEF VisitFailedChildren, ActionTargets, HasBuilder
    <3>3. PICK c \in Children(n) : state[c] = FAILED
      BY <3>1 DEF VisitFailedChildren, AnyFailed
    <3>4. c \in Node /\ GivenUp(c)'
      BY <1>1, <1>9, <1>15a, <3>3 DEF OInv, FailedGivenUp
    <3>5. \A t \in T : c \in Needs(t) /\ Group(t) \subseteq T
      BY <1>4, <1>9
    <3>6. \A t \in T : ~IsSideEffect(t)
      BY <1>4, <3>2, ProjectTypes DEF WellFormed, IsSideEffect, TInv
    <3>7. FAILED \notin Done /\ FAILED # EXECUTING
      BY DEF FAILED, Done, EXECUTING, UP_TO_DATE, EXECUTED
    <3>9. \A t \in T : project.bad[t] # "scan"
      <4>1. ASSUME NEW t \in T, project.bad[t] = "scan"
            PROVE  FALSE
        <5>1. Group(t) = {t}
          BY <1>4, <4>1, ProjectTypes DEF WellFormed, Group, TInv
        <5> QED
          BY <1>4, <1>9, <4>1, <5>1
      <4> QED
        BY <4>1
    <3>8. \A t \in T : GivenUp(t)'
      <4> HIDE DEF T
      <4> QED
        BY <1>1, <1>4, <3>2, <3>4, <3>5, <3>6, <3>7, <3>9, GivenUpMore
    <3> QED
      BY <3>2, <3>8
  <2> QED
    BY <2>1, <2>2
<1>16. Waiting'
  <2> SUFFICES ASSUME NEW c \in Node, NEW p \in waitingParents'[c]
               PROVE  /\ state'[p] \notin Done
                      /\ (p \in project.builder => state'[p] # EXECUTING)
                      /\ c \in Needs(p) /\ ~Settled(c)' /\ project.bad[p] # "scan"
    BY <1>1, SameNeeds DEF Waiting
  <2>1. CASE p \in waitingParents[c]
    <3>1. p \in Node
      BY <1>12, <2>1
    <3> QED
      BY <1>3, <1>6, <2>1, <3>1 DEF OInv, Waiting
  <2>2. CASE p = n /\ c \in Children(n) /\ state'[c] \notin Done
    BY <1>3, <1>4, <1>9, <2>2 DEF Settled
  <2> QED
    BY <1>11, <2>1, <2>2
<1>17. EarlyFailures'
  <2> SUFFICES ASSUME NEW m \in Node
               PROVE  /\ project.bad[m] = "scan" /\ m \in scanned' => state'[m] > PENDING
                      /\ Fails(m, "ready") =>
                           state'[m] \notin Done
                           /\ (m \in project.builder => state'[m] # EXECUTING)
    BY <1>1, SameProject DEF EarlyFailures
  <2>1. project.bad[m] = "scan" => m \notin T
    <3>1. project.bad[m] = "scan" => Group(m) = {m}
      BY ProjectTypes DEF WellFormed, Group, TInv
    <3> QED
      BY <1>4, <1>9, <3>1
  <2> QED
    BY <1>3, <1>9, <2>1 DEF OInv, EarlyFailures
<1>18. UpToDateShows'
  BY <1>1, <1>3, SameProject DEF OInv, UpToDateShows, Done
<1>19. ImplicitNeeded'
  BY <1>1, <1>9, SameNeeds DEF ImplicitNeeded
<1>20. \A m \in Node : m \notin T /\ Scanned(m)' => Scanned(m)
  BY <1>1, <1>3, <1>4, <1>9, SameProject DEF Scanned
<1>21. ScansFresh'
  <2> SUFFICES ASSUME NEW m \in Node, Scanned(m)'
               PROVE  Found(Group(m), Sure)' \subseteq Implicits(Group(m))'
    BY DEF ScansFresh
  <2>1. CASE m \in T
    <3>1. Found(Group(m), Sure)' = Found(T, Sure)' /\ Implicits(Group(m))' = Implicits(T)'
      BY <1>1, <1>4, <2>1, SameProject
    <3>2. n \in project.builder
      BY <1>1, <1>4, <2>1 DEF Scanned
    <3> QED
      BY <1>8, <1>9, <3>1, <3>2
  <2>2. CASE m \notin T
    BY <1>1, <1>8, <1>10, <1>20, <2>2 DEF OInv, ScansFresh
  <2> QED
    BY <2>1, <2>2
<1>22. ScansWatched'
  <2> SUFFICES ASSUME NEW m \in Node, Scanned(m)', NEW c \in Known(m)'
               PROVE  \/ Settled(c)' \/ GivenUp(c)' \/ Fails(c, "ready")
                      \/ \E t \in Group(m) : t \in waitingParents'[c]
    BY <1>1, SameProject DEF ScansWatched
  <2>1. CASE m \in T
    <3>1. c \in Children(n) /\ n \in Group(m)
      BY <1>4, <1>9, <2>1
    <3>2. n \in project.builder /\ state'[m] <= PENDING
      BY <1>1, <1>4, <2>1 DEF Scanned
    <3>3. state[c] \in Done \/ n \in waitingParents'[c]
      BY <1>11, <2>1, <3>1, <3>2
    <3>4. state[c] \in Done => Settled(c)'
      BY <1>1, <1>3, <1>9, <3>1 DEF Settled
    <3> QED
      BY <3>1, <3>3, <3>4
  <2>2. CASE m \notin T
    <3>1. c \in Known(m) /\ c \in Node /\ Scanned(m)
      BY <1>10, <1>20, <2>2, KnownTypes
    <3>2. \/ Settled(c) \/ GivenUp(c) \/ Fails(c, "ready")
          \/ \E t \in Group(m) : t \in waitingParents[c]
      BY <1>1, <3>1 DEF OInv, ScansWatched
    <3> QED
      BY <1>6, <1>11, <1>15a, <3>1, <3>2
  <2> QED
    BY <2>1, <2>2
<1>23. SettledKids'
  <2>1. project.kids \in [Node -> SUBSET Node]
    BY ProjectTypes DEF TInv, Project
  <2> QED
    BY <1>1, <1>3, <1>6, <2>1 DEF OInv, SettledKids
<1>24. NeedsSettled'
  BY <1>1, <1>2, <1>6, KnownTypes, OutKnown, SameMeaning DEF OInv, NeedsSettled
<1>25. IncludesKept'
  BY <1>1, SameNeeds DEF OInv
<1> QED
  BY <1>2, <1>13, <1>14, <1>15, <1>16, <1>17, <1>18, <1>19, <1>21, <1>22, <1>23,
     <1>24, <1>25 DEF OInv

-----------------------------------------------------------------------------
(* A node is taken up *)

\* What is ready waits for nothing: all its children are settled
LEMMA ReadyChildren ==
  ASSUME TInv, OInv, NEW n \in Node, VisitReady(n)
  PROVE  /\ \A c \in Children(n) : c \in Node /\ Settled(c)
         /\ \A t \in Group(n) : Needs(t) \subseteq Children(n)
         /\ \A c \in Node : waitingParents[c] \cap Group(n) = {}
<1>1. /\ Visit(n) /\ pc = "next" /\ state[n] <= PENDING
      /\ Children(n) \in SUBSET Node /\ Kids(Group(n)) \subseteq Children(n)
      /\ Implicits(Group(n))' \subseteq Children(n)
      /\ n \in project.builder => Found(Group(n), Sure) \subseteq Implicits(Group(n))'
      /\ \A t \in Group(n) : Needs(t) = Needs(n)
  <2>1. Visit(n)
    BY DEF VisitReady
  <2> QED
    BY <2>1, VisitScans
<1>2. \A c \in Children(n) : c \in Node /\ Settled(c)
  <2> SUFFICES ASSUME NEW c \in Children(n) PROVE c \in Node /\ Settled(c)
    OBVIOUS
  <2>1. state[c] # FAILED /\ ~(state[c] <= EXECUTING) /\ state[c] \in NO_STATE .. FAILED
    BY <1>1 DEF VisitReady, AnyFailed, NotReady, TInv, TypeOK
  <2>2. state[c] \in Done
    BY <2>1 DEF NO_STATE, FAILED, EXECUTING, Done, UP_TO_DATE, EXECUTED
  <2> QED
    BY <1>1, <2>2 DEF Settled
<1>2a. \A t \in Group(n) : Needs(t) \subseteq Children(n)
  <2>1. \A x \in Children(n) : state[x] \in Done
    BY <1>2 DEF Settled
  <2>2. UpToDateShows
    BY DEF OInv
  <2> QED
    BY <1>1, <2>1, <2>2, NeedsFound
<1>3. ASSUME NEW c \in Node, NEW p \in waitingParents[c], p \in Group(n)
      PROVE  FALSE
  <2>1. c \in Needs(p) /\ ~Settled(c)
    BY DEF OInv, Waiting
  <2> QED
    BY <1>2, <1>2a, <1>3, <2>1
<1> QED
  BY <1>2, <1>2a, <1>3

\* The states of what is taken up; its side effects have no builder and are
\* not built yet, as they are made from it
LEMMA ReadyStates ==
  ASSUME TInv, OInv, NEW n \in Node, state[n] <= PENDING, MakeReady(n)
  PROVE  /\ \A m \in Node \ Group(n) :
              \/ state'[m] = state[m]
              \/ /\ state'[m] = EXECUTING /\ state[m] \notin Done
                 /\ m \notin project.builder /\ IsSideEffect(m)
         /\ \/ /\ Fails(n, "ready") /\ state'[n] = PENDING
               /\ \A t \in Group(n) : t # n => state'[t] = state[t]
            \/ /\ ~Fails(n, "ready") /\ Stale(n) /\ n \in project.builder
               /\ \A t \in Group(n) : state'[t] = EXECUTING
            \/ /\ ~Fails(n, "ready") /\ ~Stale(n)
               /\ \A t \in Group(n) : state'[t] = UP_TO_DATE
         /\ pc' = "prepare" /\ task' = n /\ waitingParents' = waitingParents
<1>1. \A t \in Group(n) : t \in Node /\ ~Settled(t)
  BY LookedAt
<1>2. ASSUME NEW s \in SideEffects(Group(n))
      PROVE  /\ s \in Node /\ s \notin project.builder /\ state[s] \notin Done
             /\ IsSideEffect(s)
  <2>1. PICK t \in Group(n) : s \in project.se[t]
    BY DEF SideEffects
  <2>2. s \in Node /\ s \notin project.builder /\ t \in project.kids[s]
    BY <1>1, <2>1, ProjectTypes DEF WellFormed, Project, TInv
  <2> QED
    BY <1>1, <2>1, <2>2 DEF OInv, SettledKids, IsSideEffect
<1>3. Stale(n) => n \in project.builder
  BY Builders DEF TInv
<1>4. n \in Group(n)
  BY Groups DEF TInv
<1> QED
  BY <1>1, <1>2, <1>3, <1>4 DEF MakeReady

\* A node whose scanner fails is taken up at once, with nothing found
LEMMA ScanFailsTaken ==
  ASSUME TInv, OInv, NEW n \in Node, VisitScanFails(n)
  PROVE  /\ pc = "next" /\ ~stopped /\ stopped' = stopped /\ state[n] <= PENDING
         /\ project' = project /\ UNCHANGED poolVars /\ interrupted' = interrupted
         /\ MakeReady(n) /\ Group(n) = {n} /\ n \in project.builder
         /\ project.bad[n] = "scan" /\ PrepareFails(n) /\ ~Fails(n, "ready")
         /\ scanned' = scanned \cup Group(n)
         /\ \A m \in Node : IF m \in project.builder THEN implicit'[m] \subseteq Needs(m)
                            ELSE implicit'[m] = {}
         /\ \A m \in Node \ Group(n) : implicit'[m] = implicit[m]
         /\ \A c \in Node : waitingParents[c] \cap Group(n) = {}
<1>1. /\ pc = "next" /\ ~stopped /\ stopped' = stopped /\ state[n] <= PENDING
      /\ project' = project /\ UNCHANGED poolVars /\ interrupted' = interrupted
      /\ MakeReady(n) /\ Fails(n, "scan") /\ scanned' = scanned \cup {n}
      /\ implicit' = [implicit EXCEPT ![n] = {}]
  BY DEF VisitScanFails, Looking, HasCandidate, ScanFails
<1>2. Group(n) = {n} /\ n \in project.builder /\ PrepareFails(n)
  BY <1>1, Builders DEF PrepareFails, TInv
<1>3. project.bad[n] = "scan" /\ ~Fails(n, "ready")
  BY <1>1, <1>2 DEF Fails
<1>4. \A c \in Node : waitingParents[c] \cap Group(n) = {}
  BY <1>2, <1>3 DEF OInv, Waiting
<1>5. \A m \in Node : IF m = n THEN implicit'[m] = {} ELSE implicit'[m] = implicit[m]
  BY <1>1 DEF TInv, TypeOK
<1>6. \A m \in Node : IF m \in project.builder THEN implicit'[m] \subseteq Needs(m)
                      ELSE implicit'[m] = {}
  BY <1>5 DEF OInv, ImplicitNeeded
<1> QED
  BY <1>1, <1>2, <1>3, <1>4, <1>5, <1>6

\* What is taken up is not given up, unless its check raises
LEMMA TakenNotGivenUp ==
  ASSUME TInv, OInv, NEW n \in Node, VisitReady(n) \/ VisitScanFails(n),
         NEW m \in Group(n), GivenUp(m)
  PROVE  Fails(n, "ready")
<1>1. n \in Group(n) /\ Group(m) = Group(n)
  BY Groups, Partners DEF TInv
<1>2. GivenUp(n)
  BY <1>1, GivenUpIs
<1>3. state[n] # FAILED /\ project' = project
  <2>1. state[n] <= PENDING /\ project' = project
    BY VisitScans, ScanFailsTaken DEF VisitReady
  <2> QED
    BY <2>1 DEF PENDING, FAILED
<1>4. CASE VisitScanFails(n)
  BY <1>1, <1>2, <1>3, <1>4, GivenUpIs, ScanFailsTaken
<1>5. ASSUME VisitReady(n), NEW c \in Needs(n), GivenUp(c)
      PROVE  FALSE
  <2>2. Settled(c)
    BY <1>1, <1>5, ReadyChildren
  <2> QED
    BY <1>5, <2>2, GivenUpIs DEF Settled
<1> QED
  BY <1>1, <1>2, <1>3, <1>4, <1>5, GivenUpIs

LEMMA ReadyOrdered ==
  ASSUME TInv, TInv', OInv, NEW n \in Node, VisitReady(n) \/ VisitScanFails(n)
  PROVE  OInv'
<1> DEFINE T == Group(n)
<1>1. /\ MakeReady(n) /\ pc = "next"
      /\ ~stopped /\ stopped' = stopped /\ state[n] <= PENDING
      /\ interrupted' = interrupted /\ project' = project /\ UNCHANGED poolVars
  <2>1. CASE VisitReady(n)
    <3>1. Visit(n) /\ MakeReady(n)
      BY <2>1 DEF VisitReady
    <3>2. stopped' = stopped
      BY <3>1 DEF Visit
    <3> QED
      BY <3>1, <3>2, VisitScans
  <2>2. CASE VisitScanFails(n)
    BY <2>2, ScanFailsTaken
  <2> QED
    BY <2>1, <2>2
<1>2. /\ \A m \in Node \ T : \/ state'[m] = state[m]
                             \/ /\ state'[m] = EXECUTING /\ state[m] \notin Done
                                /\ m \notin project.builder /\ IsSideEffect(m)
      /\ \/ /\ Fails(n, "ready") /\ state'[n] = PENDING
            /\ \A t \in T : t # n => state'[t] = state[t]
         \/ /\ ~Fails(n, "ready") /\ Stale(n) /\ n \in project.builder
            /\ \A t \in T : state'[t] = EXECUTING
         \/ /\ ~Fails(n, "ready") /\ ~Stale(n)
            /\ \A t \in T : state'[t] = UP_TO_DATE
      /\ pc' = "prepare" /\ task' = n /\ waitingParents' = waitingParents
  BY <1>1, ReadyStates
<1>3. /\ \A t \in T : /\ t \in Node /\ Group(t) = T
                      /\ state[t] \notin Done \cup {EXECUTING} /\ ~Settled(t)
                      /\ (n \in project.builder <=> t \in project.builder)
                      /\ \A k : Fails(t, k) <=> Fails(n, k)
                      /\ Stale(t) <=> Stale(n)
      /\ \A m \in Node : m \notin T => Group(m) \cap T = {}
      /\ \A m \in UnderWay : m \notin T /\ Group(m) \cap T = {}
      /\ n \notin Out /\ n \in T
  BY <1>1, LookedAt
<1>4. \A m \in Node : Group(m) \subseteq Node /\ m \in Group(m)
  BY Groups DEF TInv
<1>5. PoolInv' /\ Out' = Out /\ UnderWay = Out
  BY <1>1, <1>3, PoolTakenUp, UnderWayIs DEF Holding, OInv
<1>6. /\ UnderWay' \subseteq Out \cup {n}
      /\ n \in UnderWay' => state'[n] = EXECUTING /\ ~PrepareFails(n)
  <2>1. UnderWay' = Out \cup {m \in Node : Holding(m)'}
    BY <1>5, UnderWayNext
  <2> QED
    BY <1>1, <1>2, <1>3, <2>1, SameProject DEF Holding
<1>7. /\ PENDING \notin Done /\ EXECUTING \notin Done /\ PENDING # EXECUTING
      /\ UP_TO_DATE # EXECUTING /\ FAILED # PENDING /\ FAILED \notin Done
      /\ FAILED # EXECUTING /\ ~(EXECUTING <= PENDING) /\ ~(UP_TO_DATE <= PENDING)
      /\ UP_TO_DATE # EXECUTED /\ EXECUTED \in Done /\ UP_TO_DATE \in Done
      /\ EXECUTING > PENDING
  BY DEF PENDING, FAILED, Done, EXECUTING, UP_TO_DATE, EXECUTED
<1>8. \A c \in Node : Settled(c)' <=> Settled(c)
  <2>1. \A c \in Node : c \notin T => (state'[c] \in Done <=> state[c] \in Done)
    BY <1>2, <1>7
  <2>2. Group(n)' = T
    BY <1>1, SameProject
  <2> QED
    BY <1>1, <1>2, <1>3, <2>1, <2>2 DEF Settled
<1>9. \A x \in Node : state'[x] = EXECUTED <=> state[x] = EXECUTED
  BY <1>2, <1>3, <1>7
<1>10. \A m \in Node : /\ Found(Group(m), Sure) \subseteq Found(Group(m), Sure)'
                       /\ Found(Group(m), Sure)' \subseteq Found(Group(m), Sure)
  <2> SUFFICES ASSUME NEW m \in Node
               PROVE  /\ Found(Group(m), Sure) \subseteq Found(Group(m), Sure)'
                      /\ Found(Group(m), Sure)' \subseteq Found(Group(m), Sure)
    OBVIOUS
  <2>1. ProjectGiven
    BY DEF TInv
  <2>2. Kids(Group(m)) \subseteq Node /\ Found(Group(m), Sure) \subseteq Node
    BY <2>1, KidsTypes, ShowsTypes
  <2> QED
    BY <1>1, <1>9, <2>1, <2>2, FoundGrows, FoundStays
<1>11. /\ scanned' = scanned \cup T
       /\ \A m \in Node : IF m \in project.builder THEN implicit'[m] \subseteq Needs(m)
                          ELSE implicit'[m] = {}
       /\ \A m \in Node \ T : implicit'[m] = implicit[m]
       /\ \A c \in Node : waitingParents[c] \cap T = {}
       /\ \/ /\ project.bad[n] # "scan"
             /\ n \in project.builder => Found(T, Sure) \subseteq Implicits(T)'
             /\ \A t \in T : Known(t)' = Children(n)
             /\ Kids(T) \subseteq Children(n)
             /\ Implicits(T)' \subseteq Children(n)
             /\ Children(n) \in SUBSET Node
             /\ \A c \in Children(n) : c \in Node /\ Settled(c)
          \/ /\ T = {n} /\ n \in project.builder /\ PrepareFails(n)
             /\ ~Fails(n, "ready") /\ state'[n] > PENDING
  <2>1. CASE VisitReady(n)
    <3>1. Visit(n)
      BY <2>1 DEF VisitReady
    <3> QED
      BY <2>1, <3>1, VisitScans, ReadyChildren
  <2>2. CASE VisitScanFails(n)
    <3>1. ~Fails(n, "ready") /\ T = {n} /\ n \in T
      BY <2>2, ScanFailsTaken
    <3>2. state'[n] > PENDING
      BY <1>2, <1>3, <3>1 DEF EXECUTING, PENDING, UP_TO_DATE
    <3> QED
      BY <2>2, <3>2, ScanFailsTaken
  <2> QED
    BY <2>1, <2>2
<1>12. \A m \in Node : m \notin T =>
         Known(m)' = Known(m) /\ Implicits(Group(m))' = Implicits(Group(m))
  <2>1. \A m \in Node : Known(m)' = Kids(Group(m)) \cup UNION {implicit'[t] : t \in Group(m)}
    BY <1>1, SameMeaning
  <2>2. \A m \in Node : Implicits(Group(m))' = UNION {implicit'[t] : t \in Group(m)}
    BY <1>1, SameMeaning
  <2>3. \A m \in Node : m \notin T =>
          UNION {implicit'[t] : t \in Group(m)} = UNION {implicit[t] : t \in Group(m)}
    BY <1>3, <1>4, <1>11
  <2> QED
    BY <2>1, <2>2, <2>3 DEF Known, Implicits
<1>13. ~(state'[n] > PENDING /\ state'[n] <= PENDING)
  <2>1. state'[n] \in NO_STATE .. FAILED
    BY DEF TInv, TypeOK
  <2> QED
    BY <2>1 DEF NO_STATE, FAILED, PENDING
<1>14. waitingParents \in [Node -> SUBSET Node]
  BY DEF TInv, TypeOK
<1>15. \A m \in Node : m \in project.builder =>
         Group(m) \subseteq project.builder
  BY Builders DEF TInv
<1>16. Running'
  <2>1. ASSUME NEW m \in UnderWay'
        PROVE  m \in project.builder /\ \A t \in Group(m) : state'[t] = EXECUTING
    <3>1. CASE m \in Out
      <4>1. /\ m \in Node /\ m \in project.builder /\ Group(m) \cap T = {}
            /\ \A t \in Group(m) : state[t] = EXECUTING
        BY <1>3, <1>5, <3>1, OutKnown DEF OInv, Running
      <4> QED
        BY <1>2, <1>4, <4>1
    <3>2. CASE m = n
      BY <1>2, <1>3, <1>6, <1>7, <2>1, <3>2
    <3> QED
      BY <1>6, <2>1, <3>1, <3>2
  <2>2. ASSUME NEW m \in UnderWay', NEW k \in UnderWay', m # k
        PROVE  m \notin Group(k)
    <3>1. m \in Node /\ k \in Node
      BY <1>5, <1>6, OutKnown
    <3>2. CASE m \in Out /\ k \in Out
      BY <1>5, <2>2, <3>2 DEF OInv, Running
    <3>3. CASE m = n
      BY <1>3, <1>5, <1>6, <2>2, <3>3
    <3>4. CASE k = n
      BY <1>3, <1>5, <1>6, <2>2, <3>4
    <3> QED
      BY <1>6, <3>2, <3>3, <3>4
  <2> QED
    BY <1>1, <2>1, <2>2, SameProject DEF Running
<1>17. HeldState'
  <2>1. \A m \in Out : m \notin T
    BY <1>3, <1>5
  <2>2. \/ Fails(n, "ready") /\ \A t \in T : state'[t] \notin Done \cup {EXECUTING}
        \/ ~Fails(n, "ready") /\ Stale(n) /\ \A t \in T : state'[t] = EXECUTING
        \/ ~Fails(n, "ready") /\ ~Stale(n) /\ \A t \in T : state'[t] = UP_TO_DATE
    BY <1>2, <1>3, <1>7
  <2> QED
    BY <1>1, <1>2, <1>5, <2>1, <2>2, SameProject DEF HeldState
<1>18. GroupsTogether'
  <2> SUFFICES ASSUME NEW m \in Node, state'[m] <= PENDING, NEW t \in Group(m)
               PROVE  state'[t] \notin Done \cup {EXECUTING}
    BY <1>1, SameProject DEF GroupsTogether
  <2>1. CASE m \in T
    BY <1>2, <1>3, <1>7, <2>1
  <2>2. CASE m \notin T
    <3>1. state'[m] = state[m] /\ t \notin T /\ t \in Node
      BY <1>2, <1>3, <1>4, <1>7, <2>2
    <3>2. state[t] \notin Done \cup {EXECUTING}
      BY <3>1 DEF OInv, GroupsTogether
    <3>3. CASE m \in project.builder
      BY <1>2, <1>15, <3>1, <3>2, <3>3
    <3>4. CASE m \notin project.builder
      BY <3>1, <3>2, <3>4, Builders DEF TInv
    <3> QED
      BY <3>3, <3>4
  <2> QED
    BY <2>1, <2>2
<1>19. \A m \in Node : GivenUp(m) => GivenUp(m)'
  <2> SUFFICES ASSUME NEW m \in Node, GivenUp(m)
               PROVE  /\ state'[m] \notin Done
                      /\ m \in project.builder => state'[m] # EXECUTING
                      /\ ~IsSideEffect(m) /\ (\A t \in Group(m) : state[t] = FAILED) =>
                           \A t \in Group(m) : state'[t] = FAILED
    BY <1>1, GivenUpStays
  <2>1. CASE m \in T
    <3>1. Fails(n, "ready")
      BY <2>1, TakenNotGivenUp
    <3>2. state[n] # FAILED /\ n \in Group(m)
      BY <1>1, <1>3, <2>1 DEF FAILED, PENDING
    <3> QED
      BY <1>2, <1>3, <1>7, <2>1, <3>1, <3>2
  <2>2. CASE m \notin T
    <3>1. Group(m) \cap T = {} /\ Group(m) \subseteq Node
      BY <1>3, <1>4, <2>2
    <3>2. \A t \in Group(m) : t \notin project.builder => t = m
      BY <1>15, Builders DEF TInv
    <3> QED
      BY <1>2, <1>7, <2>2, <3>1, <3>2, GivenUpIs
  <2> QED
    BY <2>1, <2>2
<1>19a. FailedGivenUp'
  <2>1. \A m \in Node : state'[m] = FAILED => state[m] = FAILED
    BY <1>2, <1>7
  <2> QED
    BY <1>1, <1>2, <1>19, <2>1 DEF OInv, FailedGivenUp
<1>20. Waiting'
  <2> SUFFICES ASSUME NEW c \in Node, NEW p \in waitingParents[c]
               PROVE  /\ state'[p] \notin Done
                      /\ (p \in project.builder => state'[p] # EXECUTING)
                      /\ c \in Needs(p) /\ ~Settled(c)' /\ project.bad[p] # "scan"
    BY <1>1, <1>2, SameNeeds DEF Waiting
  <2>1. p \in Node /\ p \notin T
    BY <1>11, <1>14
  <2> QED
    BY <1>2, <1>7, <1>8, <2>1 DEF OInv, Waiting
<1>21. EarlyFailures'
  <2> SUFFICES ASSUME NEW m \in Node
               PROVE  /\ project.bad[m] = "scan" /\ m \in scanned' => state'[m] > PENDING
                      /\ Fails(m, "ready") =>
                           state'[m] \notin Done
                           /\ (m \in project.builder => state'[m] # EXECUTING)
    BY <1>1, SameProject DEF EarlyFailures
  <2>1. project.bad[m] = "scan" => m \notin T \/ state'[m] > PENDING
    <3>1. project.bad[m] = "scan" => Group(m) = {m}
      BY ProjectTypes DEF WellFormed, Group, TInv
    <3> QED
      BY <1>3, <1>11, <3>1
  <2>2. project.bad[m] = "scan" /\ m \in scanned' => state'[m] > PENDING
    BY <1>2, <1>7, <1>11, <2>1 DEF OInv, EarlyFailures
  <2>3. CASE m \in T
    BY <1>2, <1>3, <1>7, <2>2, <2>3
  <2>4. CASE m \notin T
    BY <1>2, <1>7, <2>2, <2>4 DEF OInv, EarlyFailures
  <2> QED
    BY <2>3, <2>4
<1>22. UpToDateShows'
  <2> SUFFICES ASSUME NEW m \in Node, state'[m] = UP_TO_DATE
               PROVE  ~Stale(m)
    BY <1>1, SameProject DEF UpToDateShows
  <2>1. CASE m \in T
    BY <1>2, <1>3, <1>7, <2>1
  <2>2. CASE m \notin T
    BY <1>2, <1>7, <2>2 DEF OInv, UpToDateShows
  <2> QED
    BY <2>1, <2>2
<1>23. ImplicitNeeded'
  BY <1>1, <1>11, SameNeeds DEF ImplicitNeeded
<1>24. \A m \in Node : m \notin T /\ Scanned(m)' => Scanned(m)
  BY <1>1, <1>2, <1>3, <1>11, SameProject DEF Scanned
<1>25. ScansFresh'
  <2> SUFFICES ASSUME NEW m \in Node, Scanned(m)'
               PROVE  Found(Group(m), Sure)' \subseteq Implicits(Group(m))'
    BY DEF ScansFresh
  <2>1. CASE m \in T
    <3>1. Found(Group(m), Sure)' = Found(T, Sure)' /\ Implicits(Group(m))' = Implicits(T)'
      BY <1>1, <1>3, <2>1, SameProject
    <3>2. n \in project.builder /\ state'[m] <= PENDING
      BY <1>1, <1>3, <2>1 DEF Scanned
    <3> QED
      BY <1>3, <1>10, <1>11, <1>13, <2>1, <3>1, <3>2
  <2>2. CASE m \notin T
    BY <1>1, <1>10, <1>12, <1>24, <2>2 DEF OInv, ScansFresh
  <2> QED
    BY <2>1, <2>2
<1>26. ScansWatched'
  <2> SUFFICES ASSUME NEW m \in Node, Scanned(m)', NEW c \in Known(m)'
               PROVE  \/ Settled(c)' \/ GivenUp(c)' \/ Fails(c, "ready")
                      \/ \E t \in Group(m) : t \in waitingParents[c]
    BY <1>1, <1>2, SameProject DEF ScansWatched
  <2>1. CASE m \in T
    <3>1. state'[m] <= PENDING
      BY DEF Scanned
    <3> QED
      BY <1>8, <1>11, <1>13, <2>1, <3>1
  <2>2. CASE m \notin T
    <3>1. c \in Known(m) /\ c \in Node /\ Scanned(m)
      BY <1>12, <1>24, <2>2, KnownTypes
    <3>2. \/ Settled(c) \/ GivenUp(c) \/ Fails(c, "ready")
          \/ \E t \in Group(m) : t \in waitingParents[c]
      BY <1>1, <3>1 DEF OInv, ScansWatched
    <3> QED
      BY <1>8, <1>19, <3>1, <3>2
  <2> QED
    BY <2>1, <2>2
<1>27. SettledKids'
  <2> SUFFICES ASSUME NEW m \in Node \ project.builder, state'[m] \in Done,
                      NEW c \in project.kids[m]
               PROVE  Settled(c)'
    BY <1>1 DEF SettledKids
  <2>1. c \in Node
    BY ProjectTypes DEF TInv, Project
  <2>2. CASE m \in T
    <3>1. c \in Kids(T) /\ n \notin project.builder
      BY <1>3, <2>2 DEF Kids
    <3> QED
      BY <1>8, <1>11, <2>1, <3>1
  <2>3. CASE m \notin T
    BY <1>2, <1>7, <1>8, <2>1, <2>3 DEF OInv, SettledKids
  <2> QED
    BY <2>2, <2>3
<1>28. NeedsSettled'
  <2> SUFFICES ASSUME NEW m \in UnderWay', NEW c \in Needs(m)
               PROVE  Settled(c)'
    BY <1>1, SameMeaning DEF NeedsSettled
  <2>1. CASE m \in Out
    <3>1. m \in UnderWay /\ m \in Node
      BY <2>1, OutKnown
    <3> QED
      BY <1>8, <3>1, KnownTypes DEF OInv, NeedsSettled
  <2>2. CASE m = n
    <3>1. /\ Children(n) \in SUBSET Node /\ Kids(T) \subseteq Children(n)
          /\ n \in project.builder => Found(T, Sure) \subseteq Children(n)
          /\ \A x \in Children(n) : x \in Node /\ Settled(x)
      BY <1>6, <1>11, <2>2
    <3>2. UpToDateShows /\ \A x \in Children(n) : state[x] \in Done
      BY <3>1 DEF OInv, Settled
    <3>3. Needs(n) \subseteq Children(n)
      BY <3>1, <3>2, NeedsFound
    <3> QED
      BY <1>8, <2>2, <3>1, <3>3
  <2> QED
    BY <1>6, <2>1, <2>2
<1>29. IncludesKept'
  BY <1>1, SameNeeds DEF OInv
<1> QED
  BY <1>5, <1>16, <1>17, <1>18, <1>19a, <1>20, <1>21, <1>22, <1>23, <1>25, <1>26,
     <1>27, <1>28, <1>29 DEF OInv

-----------------------------------------------------------------------------
(* A task leaves the main thread's hands *)

InHand(n) == (pc = "prepare" /\ task = n) \/ (pc # "prepare" /\ n \in Out)

\* The states the targets may have then
LEMMA EndStates ==
  ASSUME TInv, OInv, NEW n \in Node, InHand(n)
  PROVE  /\ \A t \in Group(n) : /\ t \in Node /\ Group(t) = Group(n)
                                /\ ~Settled(t) /\ state[t] # EXECUTED
                                /\ (n \in project.builder <=> t \in project.builder)
                                /\ \A k : Fails(t, k) <=> Fails(n, k)
         /\ \/ n \in project.builder /\ \A t \in Group(n) : state[t] = EXECUTING
            \/ \A t \in Group(n) : state[t] = UP_TO_DATE
            \/ Fails(n, "ready") /\ \A t \in Group(n) : state[t] \notin Done \cup {EXECUTING}
         /\ \A m \in Node : m \notin Group(n) => Group(m) \cap Group(n) = {}
         /\ \A m \in Out \ {n} : m \notin Group(n)
         /\ n \in Group(n)
<1>1. ProjectGiven /\ n \in Group(n)
  BY Groups DEF TInv
<1>2. ASSUME NEW t \in Group(n)
      PROVE  t \in Node /\ Group(t) = Group(n) /\ t \in Group(t)
  BY <1>1, Groups, Partners
<1>3. /\ \/ n \in project.builder /\ \A t \in Group(n) : state[t] = EXECUTING
         \/ \A t \in Group(n) : state[t] = UP_TO_DATE
         \/ Fails(n, "ready") /\ \A t \in Group(n) : state[t] \notin Done \cup {EXECUTING}
      /\ \A m \in Out \ {n} : m \notin Group(n)
  <2>1. CASE pc = "prepare" /\ task = n
    <3>1. Stale(n) => n \in project.builder
      BY <1>1, Builders
    <3> QED
      BY <2>1, <3>1 DEF OInv, HeldState
  <2>2. CASE pc # "prepare" /\ n \in Out
    BY <2>2, OutKnown DEF OInv, Running
  <2> QED
    BY <2>1, <2>2 DEF InHand
<1>4. /\ EXECUTING \notin Done /\ EXECUTING # EXECUTED /\ UP_TO_DATE # EXECUTED
      /\ EXECUTED \in Done
  BY DEF Done, EXECUTING, EXECUTED, UP_TO_DATE
<1>5. ASSUME NEW t \in Group(n)
      PROVE  ~Settled(t) /\ state[t] # EXECUTED
  <2>1. CASE pc = "prepare" /\ task = n
    BY <1>3, <1>4, <2>1 DEF Settled
  <2>2. CASE pc # "prepare" /\ n \in Out
    <3>1. state[t] = EXECUTING
      BY <2>2, OutKnown DEF OInv, Running
    <3> QED
      BY <1>4, <3>1 DEF Settled
  <2> QED
    BY <2>1, <2>2 DEF InHand
<1>6. ASSUME NEW t \in Group(n)
      PROVE  n \in project.builder <=> t \in project.builder
  <2>1. n \in Group(t)
    BY <1>1, <1>2
  <2> QED
    BY <1>1, <1>2, <2>1, Builders
<1>7. \A t \in Group(n) : \A k : Fails(t, k) <=> Fails(n, k)
  BY <1>2 DEF Fails
<1>8. \A m \in Node : m \notin Group(n) => Group(m) \cap Group(n) = {}
  <2> SUFFICES ASSUME NEW m \in Node, NEW x \in Group(m), x \in Group(n)
               PROVE  m \in Group(n)
    OBVIOUS
  <2>1. Group(x) = Group(m) /\ Group(x) = Group(n) /\ m \in Group(m)
    BY <1>1, Partners, Groups
  <2> QED
    BY <2>1
<1> QED
  BY <1>1, <1>2, <1>3, <1>5, <1>6, <1>7, <1>8

\* What executed() and postprocess() make of them, and of the side effects
LEMMA ExecutedStates ==
  ASSUME TInv, OInv, NEW n \in Node, InHand(n), Executed(n)
  PROVE  /\ \A m \in Node \ Group(n) :
              \/ state'[m] = state[m]
              \/ /\ state'[m] = NO_STATE /\ state[m] \notin Done
                 /\ m \notin project.builder /\ IsSideEffect(m)
         /\ \/ /\ n \in project.builder
               /\ \A t \in Group(n) : state[t] = EXECUTING /\ state'[t] = EXECUTED
            \/ \A t \in Group(n) : state[t] = UP_TO_DATE /\ state'[t] = UP_TO_DATE
            \/ /\ Fails(n, "ready")
               /\ \A t \in Group(n) : /\ state[t] \notin Done \cup {EXECUTING}
                                      /\ state'[t] = state[t]
         /\ \A c \in Node : waitingParents'[c] =
              IF c \in Group(n) THEN {} ELSE waitingParents[c]
         /\ scanned' = Rescanned(Group(n)) /\ implicit' = implicit /\ stopped' = stopped
<1> DEFINE T == Group(n)
           st == ExecutedState(T)
<1>1. \A t \in T : t \in Node /\ ~Settled(t) /\ (n \in project.builder <=> t \in project.builder)
  BY EndStates
<1>2. /\ state' = [m \in Node |-> IF m \in SideEffects(T) /\ st[m] = EXECUTING
                                  THEN NO_STATE ELSE st[m]]
      /\ waitingParents' = [m \in Node |-> IF m \in T THEN {} ELSE waitingParents[m]]
      /\ scanned' = Rescanned(T) /\ implicit' = implicit /\ stopped' = stopped
  BY DEF Executed, Postprocess
<1>3. ASSUME NEW s \in SideEffects(T)
      PROVE  /\ s \in Node /\ s \notin project.builder /\ s \notin T /\ state[s] \notin Done
             /\ IsSideEffect(s)
  <2>1. PICK t \in T : s \in project.se[t]
    BY DEF SideEffects
  <2>2. s \in Node /\ s \notin project.builder /\ t \in project.kids[s]
    BY <1>1, <2>1, ProjectTypes DEF WellFormed, Project, TInv
  <2>3. s \notin T
    <3>1. n \notin project.builder => SideEffects(T) = {}
      BY Builders DEF TInv
    <3> QED
      BY <1>1, <2>2, <3>1
  <2> QED
    BY <1>1, <2>1, <2>2, <2>3 DEF OInv, SettledKids, IsSideEffect
<1>4. \A m \in Node : st[m] =
        IF m \in T /\ state[m] = EXECUTING THEN EXECUTED
        ELSE IF \E t \in T : state[t] = EXECUTING /\ m \in project.se[t]
             THEN NO_STATE ELSE state[m]
  BY DEF ExecutedState
<1>5. \A m \in Node : (\E t \in T : m \in project.se[t]) <=> m \in SideEffects(T)
  BY DEF SideEffects
<1>6. \A m \in T : state'[m] = IF state[m] = EXECUTING THEN EXECUTED ELSE state[m]
  BY <1>1, <1>2, <1>3, <1>4, <1>5
<1>7. \A m \in Node \ T : \/ state'[m] = state[m]
                          \/ state'[m] = NO_STATE /\ m \in SideEffects(T)
  BY <1>2, <1>4, <1>5
<1>8. UP_TO_DATE # EXECUTING /\ n \in T
  BY Groups DEF UP_TO_DATE, EXECUTING, TInv
<1>9. \/ n \in project.builder /\ \A t \in T : state[t] = EXECUTING
      \/ \A t \in T : state[t] = UP_TO_DATE
      \/ Fails(n, "ready") /\ \A t \in T : state[t] \notin Done \cup {EXECUTING}
  BY EndStates
<1> QED
  BY <1>2, <1>3, <1>6, <1>7, <1>8, <1>9

LEMMA ExecutedOrdered ==
  ASSUME TInv, TInv', OInv, NEW n \in Node, InHand(n), Executed(n),
         project' = project, pc' # "prepare", PoolInv', UnderWay' \subseteq Out \ {n}
  PROVE  OInv'
<1> DEFINE T == Group(n)
<1>1. /\ \A m \in Node \ T : \/ state'[m] = state[m]
                             \/ /\ state'[m] = NO_STATE /\ state[m] \notin Done
                                /\ m \notin project.builder /\ IsSideEffect(m)
      /\ \/ /\ n \in project.builder
            /\ \A t \in T : state[t] = EXECUTING /\ state'[t] = EXECUTED
         \/ \A t \in T : state[t] = UP_TO_DATE /\ state'[t] = UP_TO_DATE
         \/ /\ Fails(n, "ready")
            /\ \A t \in T : state[t] \notin Done \cup {EXECUTING} /\ state'[t] = state[t]
      /\ \A c \in Node : waitingParents'[c] = IF c \in T THEN {} ELSE waitingParents[c]
      /\ scanned' = Rescanned(T) /\ implicit' = implicit /\ stopped' = stopped
  BY ExecutedStates
<1>2. /\ \A t \in T : /\ t \in Node /\ Group(t) = T /\ ~Settled(t) /\ state[t] # EXECUTED
                      /\ (n \in project.builder <=> t \in project.builder)
                      /\ \A k : Fails(t, k) <=> Fails(n, k)
      /\ \A m \in Node : m \notin T => Group(m) \cap T = {}
      /\ \A m \in Out \ {n} : m \notin T
      /\ n \in T
  BY EndStates
<1>3. /\ NO_STATE \notin Done /\ EXECUTING \notin Done /\ EXECUTED \in Done
      /\ UP_TO_DATE \in Done /\ NO_STATE # EXECUTING /\ EXECUTED # EXECUTING
      /\ UP_TO_DATE # EXECUTING /\ UP_TO_DATE # EXECUTED /\ NO_STATE # EXECUTED
      /\ NO_STATE # UP_TO_DATE /\ NO_STATE # FAILED /\ EXECUTED # FAILED
      /\ UP_TO_DATE # FAILED /\ ~(EXECUTED <= PENDING) /\ ~(UP_TO_DATE <= PENDING)
      /\ EXECUTED > PENDING /\ NO_STATE <= PENDING
  BY DEF NO_STATE, PENDING, FAILED, Done, EXECUTING, UP_TO_DATE, EXECUTED
<1>4. \A m \in Node : Group(m) \subseteq Node /\ m \in Group(m)
  BY Groups DEF TInv
<1>5. /\ \A m \in Node : m \in project.builder => Group(m) \subseteq project.builder
      /\ \A m \in Node : m \notin project.builder => Group(m) = {m}
  BY Builders DEF TInv
<1>6. Out \subseteq UnderWay /\ UnderWay \subseteq Node
  BY OutKnown
<1>7. waitingParents \in [Node -> SUBSET Node] /\ scanned' \subseteq scanned
  BY <1>1 DEF TInv, TypeOK, Rescanned
<1>8. /\ \A c \in Node : Settled(c) => Settled(c)'
      /\ \A c \in Node \ T : Settled(c)' => Settled(c)
      /\ \A c \in T : Settled(c)' \/ Fails(c, "ready")
  <2>1. \A c \in Node : Settled(c)' <=> state'[c] \in Done
    BY DEF Settled
  <2>2. \A c \in Node \ T : state'[c] \in Done <=> state[c] \in Done
    BY <1>1, <1>3
  <2>3. \A c \in Node \ T : Settled(c) <=> state[c] \in Done
    <3> SUFFICES ASSUME pc = "prepare", NEW c \in Node \ T, c \in Group(task)
                 PROVE  FALSE
      BY DEF Settled
    <3> QED
      BY DEF InHand
  <2>4. \A c \in T : state'[c] \in Done \/ Fails(c, "ready")
    BY <1>1, <1>2, <1>3
  <2> QED
    BY <1>2, <2>1, <2>2, <2>3, <2>4
<1>9. Running'
  <2>1. ASSUME NEW m \in UnderWay'
        PROVE  m \in project.builder /\ \A t \in Group(m) : state'[t] = EXECUTING
    <3>1. /\ m \in UnderWay /\ m \in Node /\ m \in project.builder
          /\ Group(m) \cap T = {} /\ \A t \in Group(m) : state[t] = EXECUTING
      BY <1>2, <1>6 DEF OInv, Running
    <3> QED
      BY <1>1, <1>4, <1>5, <3>1
  <2> QED
    BY <1>6, <2>1, SameProject DEF OInv, Running
<1>10. HeldState'
  BY DEF HeldState
<1>11. GroupsTogether'
  <2> SUFFICES ASSUME NEW m \in Node, state'[m] <= PENDING, NEW t \in Group(m)
               PROVE  state'[t] \notin Done \cup {EXECUTING}
    BY SameProject DEF GroupsTogether
  <2>1. CASE m \in T
    BY <1>1, <1>2, <1>3, <2>1
  <2>2. CASE m \notin T /\ m \in project.builder
    <3>1. state'[m] = state[m] /\ t \notin T /\ t \in Node /\ state'[t] = state[t]
      BY <1>1, <1>2, <1>4, <1>5, <2>2
    <3> QED
      BY <3>1 DEF OInv, GroupsTogether
  <2>3. CASE m \notin T /\ m \notin project.builder
    BY <1>1, <1>3, <1>4, <1>5, <2>3 DEF OInv, GroupsTogether
  <2> QED
    BY <2>1, <2>2, <2>3
<1>12. \A m \in Node : GivenUp(m) => GivenUp(m)'
  <2> SUFFICES ASSUME NEW m \in Node, GivenUp(m)
               PROVE  /\ state'[m] \notin Done
                      /\ m \in project.builder => state'[m] # EXECUTING
                      /\ ~IsSideEffect(m) /\ (\A t \in Group(m) : state[t] = FAILED) =>
                           \A t \in Group(m) : state'[t] = FAILED
    BY GivenUpStays
  <2>1. /\ state[m] \notin Done /\ (m \in project.builder => state[m] # EXECUTING)
        /\ Group(m) \subseteq Node
    BY <1>4, GivenUpIs
  <2>2. state'[m] \notin Done /\ (m \in project.builder => state'[m] # EXECUTING)
    BY <1>1, <1>2, <1>3, <2>1
  <2>3. ASSUME ~IsSideEffect(m), NEW t \in Group(m), state[t] = FAILED
        PROVE  state'[t] = FAILED
    <3>1. t \in project.builder \/ ~IsSideEffect(t)
      BY <1>5, <2>3
    <3>2. CASE t \in T
      BY <1>1, <1>3, <2>3, <3>2 DEF FAILED, EXECUTING, UP_TO_DATE
    <3> QED
      BY <1>1, <2>1, <2>3, <3>1, <3>2
  <2> QED
    BY <2>2, <2>3
<1>12a. FailedGivenUp'
  <2>1. \A m \in Node : state'[m] = FAILED => state[m] = FAILED
    BY <1>1, <1>2, <1>3
  <2> QED
    BY <1>1, <1>12, <2>1 DEF OInv, FailedGivenUp
<1>13. Waiting'
  <2> SUFFICES ASSUME NEW c \in Node, NEW p \in waitingParents'[c]
               PROVE  /\ state'[p] \notin Done
                      /\ (p \in project.builder => state'[p] # EXECUTING)
                      /\ c \in Needs(p) /\ ~Settled(c)' /\ project.bad[p] # "scan"
    BY SameNeeds DEF Waiting
  <2>1. c \notin T /\ p \in waitingParents[c] /\ p \in Node
    BY <1>1, <1>7
  <2>2. /\ state[p] \notin Done /\ (p \in project.builder => state[p] # EXECUTING)
        /\ c \in Needs(p) /\ ~Settled(c) /\ project.bad[p] # "scan"
    BY <2>1 DEF OInv, Waiting
  <2>3. state'[p] \notin Done /\ (p \in project.builder => state'[p] # EXECUTING)
    <3>1. CASE p \in T
      BY <1>1, <1>2, <1>3, <2>2, <3>1
    <3>2. CASE p \notin T
      BY <1>1, <1>3, <2>1, <2>2, <3>2
    <3> QED
      BY <3>1, <3>2
  <2> QED
    BY <1>8, <2>1, <2>2, <2>3
<1>14. EarlyFailures'
  <2> SUFFICES ASSUME NEW m \in Node
               PROVE  /\ project.bad[m] = "scan" /\ m \in scanned' => state'[m] > PENDING
                      /\ Fails(m, "ready") =>
                           state'[m] \notin Done
                           /\ (m \in project.builder => state'[m] # EXECUTING)
    BY SameProject DEF EarlyFailures
  <2>1. project.bad[m] = "scan" => m \in project.builder
    BY ProjectTypes DEF WellFormed, TInv
  <2>2. /\ project.bad[m] = "scan" /\ m \in scanned => state[m] > PENDING
        /\ Fails(m, "ready") =>
             state[m] \notin Done /\ (m \in project.builder => state[m] # EXECUTING)
    BY DEF OInv, EarlyFailures
  <2>3. CASE m \in T
    BY <1>1, <1>2, <1>3, <1>7, <2>2, <2>3
  <2>4. CASE m \notin T
    BY <1>1, <1>3, <1>7, <2>1, <2>2, <2>4
  <2> QED
    BY <2>3, <2>4
<1>15. UpToDateShows'
  <2>1. \A m \in Node : state'[m] = UP_TO_DATE => state[m] = UP_TO_DATE
    BY <1>1, <1>3
  <2> QED
    BY <2>1, SameProject DEF OInv, UpToDateShows
<1>16. ImplicitNeeded'
  BY <1>1, SameNeeds DEF OInv, ImplicitNeeded
<1>17. \A m \in Node : Scanned(m)' => Scanned(m)
  <2> SUFFICES ASSUME NEW m \in Node, Scanned(m)'
               PROVE  Scanned(m)
    OBVIOUS
  <2>1. m \in project.builder /\ state'[m] <= PENDING /\ Group(m) \subseteq scanned'
    BY SameProject DEF Scanned
  <2>2. state'[m] = state[m]
    BY <1>1, <1>3, <2>1
  <2> QED
    BY <1>7, <2>1, <2>2 DEF Scanned
<1>18. ScansFresh'
  <2> SUFFICES ASSUME ~stopped', NEW m \in Node, Scanned(m)'
               PROVE  Found(Group(m), Sure)' \subseteq Implicits(Group(m))
    BY <1>1, SameMeaning DEF ScansFresh
  <2>1. Scanned(m) /\ Found(Group(m), Sure) \subseteq Implicits(Group(m)) /\ ProjectGiven
    BY <1>1, <1>17 DEF OInv, ScansFresh, TInv
  <2>2. ASSUME NEW x \in Kids(Group(m)) \cup Found(Group(m), Sure),
               state'[x] = EXECUTED, state[x] # EXECUTED
        PROVE  FALSE
    <3>1. x \in Known(m) /\ x \in Node
      BY <2>1, KnownTypes DEF Known
    <3>2. x \in T /\ state[x] = EXECUTING /\ x \in project.builder
      BY <1>1, <1>2, <1>3, <2>2, <3>1
    <3>3. ~Settled(x) /\ ~Fails(x, "ready") /\ ~GivenUp(x)
      BY <1>2, <3>1, <3>2, GivenUpIs DEF OInv, EarlyFailures
    <3>4. PICK t \in Group(m) : t \in waitingParents[x]
      BY <1>1, <2>1, <3>1, <3>3 DEF OInv, ScansWatched
    <3>5. t \notin scanned'
      BY <1>1, <3>2, <3>4 DEF Rescanned
    <3>6. Group(m) \subseteq scanned'
      BY SameProject DEF Scanned
    <3> QED
      BY <3>4, <3>5, <3>6
  <2>3. Found(Group(m), Sure)' \subseteq Found(Group(m), Sure)
    BY <2>1, <2>2, FoundStays
  <2> QED
    BY <2>1, <2>3
<1>19. ScansWatched'
  <2> SUFFICES ASSUME ~stopped', NEW m \in Node, Scanned(m)', NEW c \in Known(m)
               PROVE  \/ Settled(c)' \/ GivenUp(c)' \/ Fails(c, "ready")
                      \/ \E t \in Group(m) : t \in waitingParents'[c]
    BY <1>1, SameProject, SameMeaning DEF ScansWatched
  <2>1. c \in Node /\ Scanned(m)
    BY <1>17, KnownTypes
  <2>2. \/ Settled(c) \/ GivenUp(c) \/ Fails(c, "ready")
        \/ \E t \in Group(m) : t \in waitingParents[c]
    BY <1>1, <2>1 DEF OInv, ScansWatched
  <2> QED
    BY <1>1, <1>8, <1>12, <2>1, <2>2
<1>20. SettledKids'
  <2> SUFFICES ASSUME NEW m \in Node \ project.builder, state'[m] \in Done,
                      NEW c \in project.kids[m]
               PROVE  Settled(c)'
    BY DEF SettledKids
  <2>1. c \in Node
    BY ProjectTypes DEF TInv, Project
  <2>2. state[m] \in Done
    BY <1>1, <1>2, <1>3
  <2> QED
    BY <1>8, <2>1, <2>2 DEF OInv, SettledKids
<1>21. NeedsSettled'
  <2> SUFFICES ASSUME NEW m \in UnderWay', NEW c \in Needs(m)
               PROVE  Settled(c)'
    BY SameMeaning DEF NeedsSettled
  <2>1. m \in UnderWay /\ m \in Node
    BY <1>6
  <2> QED
    BY <1>8, <2>1, KnownTypes DEF OInv, NeedsSettled
<1>22. IncludesKept'
  BY SameNeeds DEF OInv
<1> QED
  BY <1>9, <1>10, <1>11, <1>12a, <1>13, <1>14, <1>15, <1>16, <1>18, <1>19, <1>20,
     <1>21, <1>22 DEF OInv

\* What a failure gives up is nothing that is built, and of what is being
\* built only the task itself
LEMMA DoomedUnbuilt ==
  ASSUME TInv, OInv, NEW n \in Node, InHand(n)
  PROVE  /\ \A m \in Doomed(Group(n)) : m \in Node /\ ~Settled(m) /\ state[m] # EXECUTED
         /\ \A m \in Doomed(Group(n)) :
              m \in project.builder /\ state[m] = EXECUTING => m \in Group(n)
         /\ Group(n) \subseteq Doomed(Group(n))
         /\ \A m \in Doomed(Group(n)) : waitingParents[m] \subseteq Doomed(Group(n))
<1> DEFINE X == {m \in Node : ~Settled(m) /\ state[m] # EXECUTED}
           Y == {m \in Node : m \in Group(n) \/ ~(m \in project.builder /\ state[m] = EXECUTING)}
<1>1. waitingParents \in [Node -> SUBSET Node] /\ Group(n) \in SUBSET Node
  BY Groups DEF TInv, TypeOK
<1>2. \A m \in Node : \A p \in waitingParents[m] :
        p \in Node /\ state[p] \notin Done /\ (p \in project.builder => state[p] # EXECUTING)
  BY <1>1 DEF OInv, Waiting
<1>3. Doomed(Group(n)) \subseteq X
  <2>1. Group(n) \subseteq X
    BY <1>1, EndStates
  <2>2. \A m \in X : waitingParents[m] \subseteq X
    BY <1>2 DEF Settled, Done
  <2> QED
    BY <2>1, <2>2, ClosureLeast DEF Doomed
<1>4. Doomed(Group(n)) \subseteq Y
  <2>1. Group(n) \subseteq Y /\ \A m \in Y : waitingParents[m] \subseteq Y
    BY <1>1, <1>2
  <2> QED
    BY <2>1, ClosureLeast DEF Doomed
<1>5. Group(n) \subseteq Doomed(Group(n))
  BY <1>1, ClosureContains DEF Doomed
<1>6. \A m \in Doomed(Group(n)) : waitingParents[m] \subseteq Doomed(Group(n))
  BY <1>1, ClosureClosed DEF Doomed
<1> QED
  BY <1>3, <1>4, <1>5, <1>6

\* What is given up with n, but n's own targets, waits for something given up
LEMMA DoomedWaits ==
  ASSUME TInv, OInv, NEW n \in Node, InHand(n),
         NEW m \in Doomed(Group(n)), m \notin Group(n)
  PROVE  \E c \in Doomed(Group(n)) : m \in waitingParents[c]
<1> DEFINE D == Doomed(Group(n))
           X == {x \in Node : x \in Group(n) \/ \E c \in D : x \in waitingParents[c]}
<1>1. /\ waitingParents \in [Node -> SUBSET Node] /\ Group(n) \in SUBSET Node
      /\ D \in SUBSET Node
  BY Groups, Closures DEF TInv, TypeOK, Doomed
<1>2. X \cap D \in SUBSET Node /\ Group(n) \subseteq X \cap D
  BY <1>1, DoomedUnbuilt
<1>3. \A x \in X \cap D : waitingParents[x] \subseteq X \cap D
  BY <1>1, DoomedUnbuilt
<1>4. D \subseteq X \cap D
  <2> HIDE DEF X
  <2> QED
    BY <1>2, <1>3, ClosureLeast DEF Doomed
<1> QED
  BY <1>4

\* What failed() and postprocess() do, unless failures are ignored
LEMMA FailedStates ==
  ASSUME TInv, NEW n \in Node, Failed(n), project.policy # "ignore", currentTop \in Node
  PROVE  LET D == Doomed(Group(n)) IN
         /\ \A m \in Node :
              \/ m \in D /\ state'[m] = FAILED
              \/ m \notin D /\ state'[m] = state[m]
              \/ /\ state'[m] = NO_STATE /\ m \notin project.builder
                 /\ m \notin D /\ state[m] = EXECUTING
         /\ \A c \in Node : /\ waitingParents'[c] \subseteq waitingParents[c]
                            /\ c \in D => waitingParents'[c] = {}
         /\ UNCHANGED <<scanned, implicit>> /\ (stopped => stopped')
         /\ ~stopped' =>
              /\ project.policy = "keep"
              /\ \A c \in Node : c \notin D \cup Group(n) =>
                   waitingParents'[c] = waitingParents[c]
<1> DEFINE D == Doomed(Group(n))
           P == IF project.policy = "stop" THEN {currentTop} ELSE Group(n)
           st == FailedState(Group(n))
           wp == FlushedParents(Group(n))
<1>1. /\ stopped' = (stopped \/ project.policy = "stop") /\ UNCHANGED scanVars
      /\ Postprocess(P, st, wp, FlushedCount(Group(n)), pendingChildren \ D)
  BY DEF Failed
<1>2. /\ state' = [m \in Node |-> IF m \in SideEffects(P) /\ st[m] = EXECUTING
                                  THEN NO_STATE ELSE st[m]]
      /\ waitingParents' = [m \in Node |-> IF m \in P THEN {} ELSE wp[m]]
  BY <1>1 DEF Postprocess
<1>3. \A m \in Node : st[m] = (IF m \in D THEN FAILED ELSE state[m])
  BY DEF FailedState
<1>4. \A c \in Node : wp[c] = (IF c \in D THEN {} ELSE waitingParents[c])
  BY DEF FlushedParents
<1>5. \A s \in SideEffects(P) : s \in Node => s \notin project.builder
  <2> SUFFICES ASSUME NEW t \in P, NEW s \in project.se[t]
               PROVE  s \notin project.builder
    BY DEF SideEffects
  <2>1. t \in Node
    BY Groups DEF TInv
  <2> QED
    BY <2>1, ProjectTypes DEF WellFormed, TInv
<1>6. FAILED # EXECUTING
  BY DEF FAILED, EXECUTING
<1>7. project.policy \in {"stop", "keep", "ignore"}
  BY ProjectTypes DEF Project, TInv
<1> QED
  BY <1>1, <1>2, <1>3, <1>4, <1>5, <1>6, <1>7 DEF scanVars

LEMMA FailedOrdered ==
  ASSUME TInv, TInv', OInv, NEW n \in Node, InHand(n),
         Failed(n), project.policy # "ignore", currentTop \in Node,
         n \in project.builder \/ Fails(n, "ready") \/ ~IsSideEffect(n),
         project' = project, pc' # "prepare", PoolInv', UnderWay' \subseteq Out \ {n}
  PROVE  OInv'
<1> DEFINE T == Group(n)
           D == Doomed(T)
<1>1. /\ \A m \in Node :
           \/ m \in D /\ state'[m] = FAILED
           \/ m \notin D /\ state'[m] = state[m]
           \/ /\ state'[m] = NO_STATE /\ m \notin project.builder
              /\ m \notin D /\ state[m] = EXECUTING
      /\ \A c \in Node : /\ waitingParents'[c] \subseteq waitingParents[c]
                         /\ c \in D => waitingParents'[c] = {}
      /\ UNCHANGED <<scanned, implicit>> /\ (stopped => stopped')
      /\ ~stopped' =>
           /\ project.policy = "keep"
           /\ \A c \in Node : c \notin D \cup T => waitingParents'[c] = waitingParents[c]
  BY FailedStates
<1>2. /\ \A m \in D : m \in Node /\ ~Settled(m) /\ state[m] # EXECUTED
      /\ \A m \in D : m \in project.builder /\ state[m] = EXECUTING => m \in T
      /\ T \subseteq D
      /\ \A m \in D : waitingParents[m] \subseteq D
  BY DoomedUnbuilt
<1>3. /\ NO_STATE \notin Done /\ EXECUTING \notin Done /\ FAILED \notin Done
      /\ NO_STATE # EXECUTING /\ FAILED # EXECUTING /\ NO_STATE # FAILED
      /\ FAILED > PENDING /\ ~(FAILED <= PENDING) /\ EXECUTED \in Done /\ UP_TO_DATE \in Done
  BY DEF NO_STATE, PENDING, FAILED, Done, EXECUTING, UP_TO_DATE, EXECUTED
<1>4. \A m \in Node : Group(m) \subseteq Node /\ m \in Group(m)
  BY Groups DEF TInv
<1>5. /\ \A m \in Node : m \in project.builder => Group(m) \subseteq project.builder
      /\ \A m \in Node : m \notin project.builder => Group(m) = {m}
  BY Builders DEF TInv
<1>6. Out \subseteq UnderWay /\ UnderWay \subseteq Node /\ project.builder \subseteq Node
  BY OutKnown, ProjectTypes DEF Project, TInv
<1>7. waitingParents \in [Node -> SUBSET Node]
  BY DEF TInv, TypeOK
<1>8. ~stopped' => ~stopped
  BY <1>1 DEF TInv, TypeOK
<1>9. \A c \in Node : Settled(c)' <=> Settled(c)
  <2>1. \A c \in Node : Settled(c)' <=> state'[c] \in Done
    BY DEF Settled
  <2>2. ASSUME NEW c \in Node, Settled(c)
        PROVE  state'[c] \in Done
    BY <1>1, <1>2, <1>3, <2>2 DEF Settled
  <2>3. ASSUME NEW c \in Node, state'[c] \in Done
        PROVE  Settled(c)
    <3>1. c \notin D /\ state[c] \in Done
      BY <1>1, <1>3, <2>3
    <3>2. c \notin T
      BY <1>2, <3>1
    <3> QED
      BY <3>1, <3>2 DEF Settled, InHand
  <2> QED
    BY <2>1, <2>2, <2>3
<1>10. Running'
  <2>1. ASSUME NEW m \in UnderWay'
        PROVE  m \in project.builder /\ \A t \in Group(m) : state'[t] = EXECUTING
    <3>1. m \in UnderWay /\ m \in Node /\ m \notin T
      BY <1>6, EndStates
    <3>2. m \in project.builder /\ \A t \in Group(m) : state[t] = EXECUTING
      BY <3>1 DEF OInv, Running
    <3>3. Group(m) \cap T = {} /\ Group(m) \subseteq project.builder
      BY <1>5, <3>1, <3>2, EndStates
    <3> QED
      BY <1>1, <1>2, <1>4, <3>1, <3>2, <3>3
  <2> QED
    BY <1>6, <2>1, SameProject DEF OInv, Running
<1>11. HeldState'
  BY DEF HeldState
<1>12. GroupsTogether'
  <2> SUFFICES ASSUME NEW m \in Node, state'[m] <= PENDING, NEW t \in Group(m)
               PROVE  state'[t] \notin Done \cup {EXECUTING}
    BY SameProject DEF GroupsTogether
  <2>1. CASE state'[m] = state[m]
    <3>1. state[t] \notin Done \cup {EXECUTING} /\ t \in Node
      BY <1>4, <2>1 DEF OInv, GroupsTogether
    <3> QED
      BY <1>1, <1>3, <3>1
  <2>2. CASE state'[m] # state[m]
    <3>1. state'[m] = NO_STATE /\ m \notin project.builder
      BY <1>1, <1>3, <2>2
    <3> QED
      BY <1>3, <1>5, <3>1
  <2> QED
    BY <2>1, <2>2
<1>13. \A m \in Node : GivenUp(m) => GivenUp(m)'
  <2> SUFFICES ASSUME NEW m \in Node, GivenUp(m)
               PROVE  /\ state'[m] \notin Done
                      /\ m \in project.builder => state'[m] # EXECUTING
                      /\ (\A t \in Group(m) : state[t] = FAILED) =>
                           \A t \in Group(m) : state'[t] = FAILED
    BY <1>1, SameMeaning, GivenUpStays
  <2>1. /\ state[m] \notin Done /\ (m \in project.builder => state[m] # EXECUTING)
        /\ Group(m) \subseteq Node
    BY <1>4, GivenUpIs
  <2> QED
    BY <1>1, <1>3, <2>1
\* All targets of the commands one of whose targets is given up now
<1>13a. ASSUME ~stopped', NEW d \in D
        PROVE  GivenUp(d)'
  <2> DEFINE S == {m \in Node : Group(m) \cap D # {}}
  <2>1. ASSUME NEW m \in S
        PROVE  /\ Group(m) \subseteq S
               /\ state'[m] \notin Done /\ (m \in project.builder => state'[m] # EXECUTING)
    <3>1. PICK k \in D : k \in Group(m) /\ k \in Node
      BY <1>2
    <3>2. Group(m) = Group(k) /\ m \in Group(m) /\ Group(m) \subseteq Node
      BY <1>4, <3>1, Partners DEF TInv
    <3>3. Group(m) \subseteq S
      BY <3>1, <3>2, Partners DEF TInv
    <3>4. CASE k \in T
      <4>1. m \in T
        BY <3>1, <3>2, <3>4, Partners DEF TInv
      <4> QED
        BY <1>1, <1>2, <1>3, <3>3, <4>1
    <3>5. CASE k \notin T /\ m \in project.builder
      <4>1. k \in project.builder /\ state[k] \notin Done \cup {EXECUTING}
        BY <1>2, <1>5, <3>1, <3>5, EndStates DEF Settled, InHand
      <4>2. state[m] \notin Done \cup {EXECUTING}
        <5>1. CASE state[k] <= PENDING
          BY <3>1, <3>2, <5>1 DEF OInv, GroupsTogether
        <5>2. CASE state[k] = FAILED
          BY <1>8, <1>13a, <3>1, <3>2, <3>5, <5>2, GivenUpIs DEF OInv, FailedGivenUp
        <5>3. state[k] \in NO_STATE .. FAILED
          BY <3>1 DEF TInv, TypeOK
        <5>4. state[k] <= PENDING \/ state[k] = FAILED
          BY <4>1, <5>3 DEF NO_STATE, PENDING, EXECUTING, UP_TO_DATE, EXECUTED, FAILED, Done
        <5> QED
          BY <5>1, <5>2, <5>4
      <4> QED
        BY <1>1, <1>3, <3>3, <4>2
    <3>6. CASE k \notin T /\ m \notin project.builder
      <4>1. m = k
        BY <1>5, <3>1, <3>6
      <4> QED
        BY <1>1, <1>3, <3>1, <3>3, <4>1
    <3> QED
      BY <3>4, <3>5, <3>6
  <2>2. ASSUME NEW m \in S
        PROVE  \/ Fails(m, "ready")
               \/ ~IsSideEffect(m) /\ \A t \in Group(m) : state'[t] = FAILED
               \/ project.bad[m] # "scan" /\ \E c \in Needs(m) : c \in S
    <3>1. PICK k \in D : k \in Group(m) /\ k \in Node
      BY <1>2
    <3>2. Group(m) = Group(k) /\ m \in Group(m)
      BY <1>4, <3>1, Partners DEF TInv
    <3>3. CASE k \in T
      <4>1. Group(m) = T /\ m \in T
        BY <3>2, <3>3, Partners DEF TInv
      <4>2. \A t \in T : state'[t] = FAILED
        BY <1>1, <1>2, <1>4
      <4>3. m \in project.builder \/ m = n
        BY <1>5, <4>1
      <4>4. m \in project.builder => ~IsSideEffect(m)
        BY ProjectTypes DEF WellFormed, IsSideEffect, TInv
      <4> QED
        BY <4>1, <4>2, <4>3, <4>4
    <3>4. CASE k \notin T
      <4>1. PICK c \in D : k \in waitingParents[c]
        BY <3>4, DoomedWaits
      <4>2. c \in Node /\ c \in Needs(k) /\ project.bad[k] # "scan"
        BY <1>2, <4>1 DEF OInv, Waiting
      <4>3. c \in Needs(m)
        BY <3>1, <3>2, <4>2, NeedsShared DEF TInv
      <4>4. project.bad[m] # "scan"
        BY <3>1, <4>2, ProjectTypes DEF WellFormed, Group, TInv
      <4>5. c \in S
        BY <1>4, <4>1, <4>2
      <4> HIDE DEF S
      <4> QED
        BY <4>3, <4>4, <4>5
    <3> QED
      BY <3>3, <3>4
  <2>3. d \in S /\ S \in SUBSET Node
    BY <1>2, <1>4
  <2> HIDE DEF S
  <2> QED
    BY <2>1, <2>2, <2>3, GivenUpMore
<1>13b. FailedGivenUp'
  <2> SUFFICES ASSUME ~stopped', NEW m \in Node, state'[m] = FAILED
               PROVE  GivenUp(m)'
    BY DEF FailedGivenUp
  <2>1. m \in D \/ state[m] = FAILED
    BY <1>1, <1>3
  <2> QED
    BY <1>8, <1>13, <1>13a, <2>1 DEF OInv, FailedGivenUp
<1>14. Waiting'
  <2> SUFFICES ASSUME NEW c \in Node, NEW p \in waitingParents'[c]
               PROVE  /\ state'[p] \notin Done
                      /\ (p \in project.builder => state'[p] # EXECUTING)
                      /\ c \in Needs(p) /\ ~Settled(c)' /\ project.bad[p] # "scan"
    BY SameNeeds DEF Waiting
  <2>1. p \in waitingParents[c] /\ p \in Node
    BY <1>1, <1>7
  <2>2. /\ state[p] \notin Done /\ (p \in project.builder => state[p] # EXECUTING)
        /\ c \in Needs(p) /\ ~Settled(c) /\ project.bad[p] # "scan"
    BY <2>1 DEF OInv, Waiting
  <2>3. state'[p] \notin Done /\ (p \in project.builder => state'[p] # EXECUTING)
    BY <1>1, <1>3, <2>1, <2>2
  <2> QED
    BY <1>9, <2>2, <2>3
<1>15. EarlyFailures'
  <2> SUFFICES ASSUME NEW m \in Node
               PROVE  /\ project.bad[m] = "scan" /\ m \in scanned' => state'[m] > PENDING
                      /\ Fails(m, "ready") =>
                           state'[m] \notin Done
                           /\ (m \in project.builder => state'[m] # EXECUTING)
    BY SameProject DEF EarlyFailures
  <2>1. project.bad[m] = "scan" => m \in project.builder
    BY ProjectTypes DEF WellFormed, TInv
  <2> QED
    BY <1>1, <1>3, <2>1 DEF OInv, EarlyFailures
<1>16. UpToDateShows'
  <2>1. \A m \in Node : state'[m] = UP_TO_DATE => state[m] = UP_TO_DATE
    BY <1>1, <1>3
  <2> QED
    BY <2>1, SameProject DEF OInv, UpToDateShows
<1>17. \A m \in Node : state'[m] = EXECUTED <=> state[m] = EXECUTED
  BY <1>1, <1>2, <1>3
<1>18. \A m \in Node : /\ Found(Group(m), Sure) \subseteq Found(Group(m), Sure)'
                       /\ Found(Group(m), Sure)' \subseteq Found(Group(m), Sure)
  <2> SUFFICES ASSUME NEW m \in Node
               PROVE  /\ Found(Group(m), Sure) \subseteq Found(Group(m), Sure)'
                      /\ Found(Group(m), Sure)' \subseteq Found(Group(m), Sure)
    OBVIOUS
  <2>1. ProjectGiven
    BY DEF TInv
  <2>2. Kids(Group(m)) \subseteq Node /\ Found(Group(m), Sure) \subseteq Node
    BY <2>1, KidsTypes, ShowsTypes
  <2> QED
    BY <1>17, <2>1, <2>2, FoundGrows, FoundStays
<1>19. ImplicitNeeded'
  BY <1>1, SameNeeds DEF OInv, ImplicitNeeded
<1>20. ASSUME ~stopped', NEW m \in Node, Scanned(m)'
       PROVE  Scanned(m) /\ m \notin D
  <2>1. m \in project.builder /\ state'[m] <= PENDING /\ Group(m) \subseteq scanned
    BY <1>1, <1>20, SameProject DEF Scanned
  <2>2. state'[m] = state[m] /\ m \notin D
    BY <1>1, <1>3, <2>1
  <2> QED
    BY <2>1, <2>2 DEF Scanned
<1>21. ScansFresh'
  <2> SUFFICES ASSUME ~stopped', NEW m \in Node, Scanned(m)'
               PROVE  Found(Group(m), Sure)' \subseteq Implicits(Group(m))
    BY <1>1, SameMeaning DEF ScansFresh
  <2>1. Scanned(m) /\ ~stopped
    BY <1>8, <1>20
  <2> QED
    BY <1>18, <2>1 DEF OInv, ScansFresh
<1>22. ScansWatched'
  <2> SUFFICES ASSUME ~stopped', NEW m \in Node, Scanned(m)', NEW c \in Known(m)
               PROVE  \/ Settled(c)' \/ GivenUp(c)' \/ Fails(c, "ready")
                      \/ \E t \in Group(m) : t \in waitingParents'[c]
    BY <1>1, SameProject, SameMeaning DEF ScansWatched
  <2>1. c \in Node /\ Scanned(m) /\ ~stopped
    BY <1>8, <1>20, KnownTypes
  <2>2. \/ Settled(c) \/ GivenUp(c) \/ Fails(c, "ready")
        \/ \E t \in Group(m) : t \in waitingParents[c]
    BY <2>1 DEF OInv, ScansWatched
  <2>3. CASE c \in D
    BY <1>13a, <2>3
  <2>4. CASE c \notin D
    BY <1>1, <1>2, <1>9, <1>13, <2>1, <2>2, <2>4
  <2> QED
    BY <2>3, <2>4
<1>23. SettledKids'
  <2> SUFFICES ASSUME NEW m \in Node \ project.builder, state'[m] \in Done,
                      NEW c \in project.kids[m]
               PROVE  Settled(c)'
    BY DEF SettledKids
  <2>1. c \in Node
    BY ProjectTypes DEF TInv, Project
  <2>2. state[m] \in Done
    BY <1>1, <1>3
  <2> QED
    BY <1>9, <2>1, <2>2 DEF OInv, SettledKids
<1>24. NeedsSettled'
  <2> SUFFICES ASSUME NEW m \in UnderWay', NEW c \in Needs(m)
               PROVE  Settled(c)'
    BY SameMeaning DEF NeedsSettled
  <2>1. m \in UnderWay /\ m \in Node
    BY <1>6
  <2> QED
    BY <1>9, <2>1, KnownTypes DEF OInv, NeedsSettled
<1>25. IncludesKept'
  BY SameNeeds DEF OInv
<1> QED
  BY <1>10, <1>11, <1>12, <1>13b, <1>14, <1>15, <1>16, <1>19, <1>21, <1>22, <1>23,
     <1>24, <1>25 DEF OInv

\* However a task ends
LEMMA EndedOrdered ==
  ASSUME TInv, TInv', OInv, NEW n \in Node, InHand(n),
         Executed(n) \/ Failed(n), currentTop \in Node,
         n \in project.builder \/ Fails(n, "ready") \/ ~IsSideEffect(n) \/ Executed(n),
         project' = project, pc' # "prepare", PoolInv', UnderWay' \subseteq Out \ {n}
  PROVE  OInv'
<1>1. CASE Executed(n)
  BY <1>1, ExecutedOrdered
<1>2. CASE ~Executed(n)
  BY <1>2, FailedOrdered DEF Failed
<1> QED
  BY <1>1, <1>2

LEMMA HeldEnded ==
  ASSUME TInv, TInv', OInv, NEW n \in Node, Prepare(n) \/ Execute(n)
  PROVE  OInv'
<1>1. /\ pc = "prepare" /\ task = n /\ pc' = "next" /\ project' = project
      /\ interrupted' = interrupted /\ UNCHANGED poolVars
  BY DEF Prepare, Execute, Preparing
<1>2. Executed(n) \/ Failed(n)
  BY DEF Prepare, Execute
<1>3. UnderWay' = Out /\ n \notin Out
  BY <1>1, UnderWayNext, OutSame DEF Holding, OInv, PoolInv, OnceEach
<1>4. PoolInv'
  BY <1>1, <1>2, StoppedStays, PoolQuiet DEF OInv
<1>5. InHand(n) /\ currentTop \in Node
  BY <1>1 DEF InHand, TInv, TopKnown
<1>6. n \in project.builder \/ Fails(n, "ready") \/ ~IsSideEffect(n) \/ Executed(n)
  <2>1. CASE Prepare(n) /\ PrepareFails(n)
    <3>1. Fails(n, "scan") => n \in project.builder
      BY Builders, ProjectTypes DEF Fails, WellFormed, Group, TInv
    <3> QED
      BY <2>1, <3>1 DEF PrepareFails, HasBuilder
  <2>2. CASE Prepare(n) /\ ~PrepareFails(n)
    BY <2>2 DEF Prepare, Missing
  <2>3. CASE Execute(n)
    BY <2>3, OutKnown DEF Execute, UnderWay, OInv, Running
  <2> QED
    BY <2>1, <2>2, <2>3
<1> QED
  BY <1>1, <1>2, <1>3, <1>4, <1>5, <1>6, EndedOrdered

LEMMA ResultEnded ==
  ASSUME TInv, TInv', OInv, GetResult
  PROVE  OInv'
<1> DEFINE n == Head(results).node
<1>1. /\ pc = "wait" /\ pc' # "prepare" /\ project' = project
      /\ interrupted' = interrupted /\ (Executed(n) \/ Failed(n))
  BY DEF GetResult
<1>2. /\ n \in Node /\ n \in Out /\ UnderWay' = Out \ {n} /\ OnceEach'
      /\ (stopped => stopped') => FailuresExplained'
  BY PoolResult DEF OInv
<1>3. PoolInv'
  BY <1>1, <1>2, StoppedStays DEF PoolInv
<1>4. InHand(n)
  BY <1>1, <1>2 DEF InHand
<1>5. currentTop \in Node
  <2>1. results # <<>> /\ results \in Seq(Task)
    BY DEF GetResult, TInv, TypeOK
  <2>2. jobs = Len(requests) + Cardinality(Busy) + Len(results) /\ requests \in Seq(Node)
    BY <1>1 DEF TInv, JobsCounted
  <2>3. jobs > 0
    BY <2>1, <2>2, BusyTypes
  <2> QED
    BY <2>3 DEF TInv, TopKnown
<1>6. n \in project.builder
  BY <1>2, OutKnown DEF OInv, Running
<1> QED
  BY <1>1, <1>2, <1>3, <1>4, <1>5, <1>6, EndedOrdered

-----------------------------------------------------------------------------
LEMMA OInit ==
  ASSUME Init, TInv, IncludesKept
  PROVE  OInv
<1>1. PoolInv /\ UnderWay = {} /\ Out = {}
  BY PoolInit
<1>2. \A n \in Node : /\ state[n] = NO_STATE /\ waitingParents[n] = {}
                      /\ implicit[n] = {} /\ n \notin scanned
  BY DEF Init
<1>3. /\ NO_STATE \notin Done /\ NO_STATE # EXECUTING /\ NO_STATE # UP_TO_DATE
      /\ NO_STATE # FAILED /\ pc = "next"
  BY DEF Init, NO_STATE, FAILED, Done, EXECUTING, UP_TO_DATE, EXECUTED
<1>4. \A n \in Node : Group(n) \subseteq Node /\ n \in Group(n)
  BY Groups DEF TInv
<1>5. Running /\ HeldState /\ NeedsSettled
  BY <1>1, <1>3 DEF Running, HeldState, NeedsSettled
<1>6. GroupsTogether /\ FailedGivenUp /\ UpToDateShows /\ SettledKids
  <2>1. project.builder \subseteq Node
    BY ProjectTypes DEF TInv, Project
  <2> QED
    BY <1>2, <1>3, <1>4, <2>1 DEF GroupsTogether, FailedGivenUp, UpToDateShows, SettledKids
<1>7. Waiting /\ EarlyFailures /\ ImplicitNeeded
  BY <1>2, <1>3 DEF Waiting, EarlyFailures, ImplicitNeeded
<1>8. ScansFresh /\ ScansWatched
  BY <1>2, <1>4 DEF ScansFresh, ScansWatched, Scanned
<1> QED
  BY <1>1, <1>5, <1>6, <1>7, <1>8 DEF OInv

LEMMA ONext ==
  ASSUME TInv, TInv', OInv, [Next]_vars
  PROVE  OInv'
<1>1. ASSUME NEW n \in Node, Walk(n) PROVE OInv'
  BY <1>1, VisitOrdered, ReadyOrdered, HeldEnded, PoolStepsOrdered DEF Walk
<1>2. CASE MainThread
  BY <1>1, <1>2, SkipOrdered, ResultEnded, PoolStepsOrdered DEF MainThread
<1>3. CASE Interrupt \/ \E w \in Worker : WorkerTake(w) \/ WorkerFinish(w)
  BY <1>3, PoolStepsOrdered
<1>4. CASE UNCHANGED vars
  <2>1. /\ UNCHANGED <<project, state, pc, task, stopped, interrupted>>
        /\ UNCHANGED <<waitingParents, implicit, scanned>> /\ UNCHANGED poolVars
    BY <1>4 DEF vars, nodeVars, scanVars, poolVars
  <2>2. PoolInv' /\ Out' = Out
    BY <2>1, OutSame, SameProject
    DEF OInv, PoolInv, OnceEach, FailuresExplained, poolVars
  <2> QED
    BY <2>1, <2>2, SameUnderWay, HandedOnOrdered
<1> QED
  BY <1>2, <1>3, <1>4 DEF Next

\* No command starts before all it needs is built, for every project in which
\* includes are kept, every number of threads and interleaving.  What a scanner
\* will find in files that are still to be built counts among what is needed.
THEOREM RunsAfterNeedsAlways == Spec /\ IncludesKept => []RunsAfterNeeds
<1> DEFINE Inv == TInv /\ OInv
<1>1. Init /\ IncludesKept => Inv
  BY TInit, OInit
<1>2. Inv /\ [Next]_vars => Inv'
  BY TNext, ONext
<1>3. Inv => RunsAfterNeeds
  BY OutKnown, KnownTypes DEF OInv, NeedsSettled, RunsAfterNeeds, Settled
<1> QED
  BY <1>1, <1>2, <1>3, PTL DEF Spec

-----------------------------------------------------------------------------
(* The walk, the pool and the signals keep the promise of BuildOrder *)

\* No command writes beside its targets, or no failure stays one.  Otherwise a
\* side effect that was given up is given back by the next command that writes
\* it.
Orderly ==
  \/ \A n \in Node : project.se[n] = {}
  \/ project.policy = "ignore" /\ \A n \in Node : project.bad[n] # "scan"

\* A task the main thread holds needs nothing that is not built
HeldNeeds ==
  pc = "prepare" /\ ~Fails(task, "scan") => \A c \in Needs(task) : Settled(c)

\* With -i, failures count as success
NoneFailed == project.policy = "ignore" => \A n \in Node : state[n] # FAILED

RInv == HeldNeeds /\ NoneFailed

-----------------------------------------------------------------------------
(* What the abstract build sees *)

\* A command for n is about to start, under way or has its result waiting
Started(n) == \E m \in UnderWay : n \in Group(m)

PhaseOf(n) ==
  IF state[n] = FAILED THEN "failed"
  ELSE IF Started(n) THEN "running"
  ELSE IF Settled(n) THEN "built" ELSE "idle"

\* A step of the abstract build, or none
OrderStep == [Order!Next]_Order!vars

\* What is started is marked as executing, which nothing built or failed is
LEMMA StartedStates ==
  ASSUME TInv, OInv, NEW n \in Node, Started(n)
  PROVE  state[n] = EXECUTING /\ n \in project.builder /\ state[n] # FAILED /\ ~Settled(n)
<1>1. PICK m \in UnderWay : n \in Group(m)
  BY DEF Started
<1>2. m \in Node /\ m \in project.builder /\ state[n] = EXECUTING
  BY <1>1, OutKnown DEF OInv, Running
<1>3. n \in project.builder
  BY <1>1, <1>2, Builders DEF TInv
<1>4. EXECUTING # FAILED /\ EXECUTING \notin Done
  BY DEF EXECUTING, FAILED, Done, UP_TO_DATE, EXECUTED
<1> QED
  BY <1>2, <1>3, <1>4 DEF Settled

LEMMA PhaseCases ==
  ASSUME TInv, OInv, NEW n \in Node
  PROVE  /\ PhaseOf(n) = "running" <=> Started(n)
         /\ PhaseOf(n) = "failed" <=> state[n] = FAILED
         /\ PhaseOf(n) = "built" <=> Settled(n)
         /\ PhaseOf(n) = "idle" <=> ~Started(n) /\ state[n] # FAILED /\ ~Settled(n)
<1>1. Settled(n) => state[n] # FAILED
  BY DEF Settled, Done, FAILED, UP_TO_DATE, EXECUTED
<1> QED
  BY <1>1, StartedStates DEF PhaseOf

LEMMA OrderSets ==
         /\ Order!In("built") = {n \in Node : PhaseOf(n) = "built"}
         /\ Order!In("running") = {n \in Node : PhaseOf(n) = "running"}
         /\ Order!In("idle") = {n \in Node : PhaseOf(n) = "idle"}
         /\ Order!In("failed") = {n \in Node : PhaseOf(n) = "failed"}
  BY DEF Order!In, PhaseOf, Started, Settled

LEMMA PlanStays ==
  ASSUME project' = project
  PROVE  UNCHANGED [needs |-> [n \in Node |-> Needs(n)],
                    sees |-> [n \in Node |-> MayNeed(n)],
                    writes |-> [n \in Node |-> Writes(n)],
                    doubtful |-> {n \in Node : Doubtful(n)},
                    forgiven |-> {n \in Node : project.policy = "ignore" /\ Doubtful(n)}]
<1>1. \A n : Doubtful(n)' <=> Doubtful(n)
  BY DEF Doubtful, Group
<1>2. \A n : Needs(n)' = Needs(n) /\ MayNeed(n)' = MayNeed(n)
  BY SameNeeds
<1> QED
  BY <1>1, <1>2, SameProject

\* Nothing the abstract build sees
LEMMA Stutter ==
  ASSUME project' = project, \A n \in Node : PhaseOf(n)' = PhaseOf(n)
  PROVE  OrderStep
  BY PlanStays DEF OrderStep, Order!vars, Writes, PhaseOf, Started, Settled

LEMMA SetNext ==
  ASSUME NEW S \in SUBSET Node, NEW p,
         \A n \in Node : PhaseOf(n)' = IF n \in S THEN p ELSE PhaseOf(n)
  PROVE  Order!Set(S, p)
  BY DEF Order!Set, PhaseOf, Started, Settled

LEMMA StartStep ==
  ASSUME project' = project, NEW S \in SUBSET Node,
         \A n \in S : PhaseOf(n) = "idle",
         \A n \in S : \A c \in Needs(n) : c \in Node /\ PhaseOf(c) = "built",
         \A n \in S : \A m \in Node : PhaseOf(m) = "running" => Writes(n) \cap Writes(m) = {},
         \A n \in Node : PhaseOf(n)' = IF n \in S THEN "running" ELSE PhaseOf(n)
  PROVE  OrderStep
<1>1. Order!Set(S, "running")
  BY SetNext
<1>2. Order!Start(S)
  BY <1>1, PlanStays, OrderSets DEF Order!Start, Order!NeedsBuilt, Writes
<1> QED
  BY <1>2 DEF OrderStep, Order!Next

LEMMA BuildStep ==
  ASSUME project' = project, NEW S \in SUBSET Node,
         \A n \in S :
           \/ PhaseOf(n) = "running"
           \/ /\ PhaseOf(n) = "idle"
              /\ \/ \A c \in Needs(n) : c \in Node /\ PhaseOf(c) = "built"
                 \/ project.policy = "ignore" /\ Doubtful(n),
         \A n \in Node : PhaseOf(n)' = IF n \in S THEN "built" ELSE PhaseOf(n)
  PROVE  OrderStep
<1>1. Order!Set(S, "built")
  BY SetNext
<1>2. S \subseteq Order!In("idle") \cup Order!In("running")
  BY OrderSets
<1>3. ASSUME NEW n \in S, PhaseOf(n) # "running"
      PROVE  Order!NeedsBuilt(n) \/ (project.policy = "ignore" /\ Doubtful(n))
  BY <1>3, OrderSets DEF Order!NeedsBuilt
<1>4. \A n \in S : PhaseOf(n) = "running" => n \in Order!In("running")
  BY OrderSets
<1>5. Order!Build(S)
  BY <1>1, <1>2, <1>3, <1>4, PlanStays DEF Order!Build, Order!In, Writes
<1> QED
  BY <1>5 DEF OrderStep, Order!Next

LEMMA FailStep ==
  ASSUME project' = project, ProjectGiven, IncludesKept, NEW S \in SUBSET Node,
         \A n \in S :
           \/ PhaseOf(n) = "running"
           \/ /\ PhaseOf(n) = "idle"
              /\ \/ Doubtful(n)
                 \/ \E c \in Needs(n) : c \in Node /\ (c \in S \/ PhaseOf(c) = "failed"),
         \A n \in Node : PhaseOf(n)' = IF n \in S THEN "failed" ELSE PhaseOf(n)
  PROVE  OrderStep
<1>1. Order!Set(S, "failed")
  BY SetNext
<1>2. S \subseteq Order!In("idle") \cup Order!In("running")
  BY OrderSets
<1>3. \A n \in S : PhaseOf(n) = "running" => n \in Order!In("running")
  BY OrderSets
<1>4. \A c \in Node : PhaseOf(c) = "failed" => c \in Order!In("failed")
  BY OrderSets
<1>4a. \A n \in Node : MayNeed(n) = Needs(n)
  BY NeverClouded
<1>5. ASSUME NEW n \in S
      PROVE  \/ n \in Order!In("running") \/ Doubtful(n)
             \/ MayNeed(n) \cap (S \cup Order!In("failed")) # {}
  <2>1. CASE PhaseOf(n) = "running"
    BY <1>3, <2>1
  <2>2. CASE PhaseOf(n) # "running"
    BY <1>4, <1>4a, <2>2
  <2> QED
    BY <2>1, <2>2
<1>6. \A n \in S : n \in Order!In("running") => PhaseOf(n) = "running"
  BY OrderSets
<1>7. S \subseteq Order!In("idle") \cup Order!In("running") \cup (Order!In("built") \cap Order!Clouded)
  BY <1>2
<1>8. \A n \in S : \/ PhaseOf(n) = "running" \/ Doubtful(n)
                  \/ MayNeed(n) \cap (S \cup Order!In("failed")) # {}
  BY <1>5, <1>6
<1>9. Order!Fail(S)
  BY <1>1, <1>7, <1>8, PlanStays DEF Order!Fail, PhaseOf, Started, Settled, Writes
<1> QED
  BY <1>9 DEF OrderStep, Order!Next

-----------------------------------------------------------------------------
(* What is needed *)

LEMMA KnownNeeded ==
  ASSUME TInv, OInv, NEW n \in Node
  PROVE  Known(n) \subseteq Needs(n)
<1>1. Kids(Group(n)) \subseteq Needs(n)
  BY DEF Kids, Needs, MadeFrom
<1>2. ASSUME NEW t \in Group(n)
      PROVE  implicit[t] \subseteq Needs(n)
  BY NeedsShared DEF OInv, ImplicitNeeded, TInv
<1> QED
  BY <1>1, <1>2 DEF Known, Implicits

LEMMA ChildrenNeeded ==
  ASSUME TInv, OInv, NEW n \in Node, Visit(n)
  PROVE  Children(n) \subseteq Needs(n)
  BY VisitScans, Groups DEF TInv

-----------------------------------------------------------------------------
(* Steps the abstract build does not see *)

\* Nothing is built
LEMMA HandedOnHidden ==
  ASSUME TInv, TInv', OInv, UNCHANGED <<project, state>>, UnderWay' = UnderWay,
         \/ UNCHANGED <<pc, task>>
         \/ pc # "prepare" /\ pc' # "prepare"
         \/ pc' # "prepare" /\ task \in Node /\ state[task] = EXECUTING
  PROVE  OrderStep
<1>1. \A c \in Node : Settled(c)' <=> Settled(c)
  <2>1. CASE pc = "prepare" /\ pc' # "prepare" /\ task \in Node /\ state[task] = EXECUTING
    <3>1. \A t \in Group(task) : state[t] \notin Done
      BY <2>1, Groups DEF OInv, HeldState, TInv, Done, EXECUTING, UP_TO_DATE, EXECUTED
    <3> QED
      BY <2>1, <3>1 DEF Settled
  <2>2. CASE ~(pc = "prepare" /\ pc' # "prepare")
    BY <2>2, SameProject DEF Settled
  <2> QED
    BY <2>1, <2>2
<1>2. \A c \in Node : Started(c)' <=> Started(c)
  BY SameProject DEF Started
<1> QED
  BY <1>1, <1>2, Stutter DEF PhaseOf

LEMMA SkipHidden ==
  ASSUME TInv, TInv', OInv, SkipHandled \/ NoCandidate
  PROVE  OrderStep
<1>1. /\ pc = "next" /\ pc' # "prepare" /\ UNCHANGED <<project, state>>
      /\ UNCHANGED poolVars
  BY DEF SkipHandled, NoCandidate, Looking, nodeVars
<1>2. UnderWay' = UnderWay
  BY <1>1, UnderWayIs, UnderWayNext, OutSame DEF Holding
<1> QED
  BY <1>1, <1>2, HandedOnHidden

LEMMA PoolHidden ==
  ASSUME TInv, TInv', OInv,
         \/ \E n \in Node : Dispatch(n)
         \/ \E w \in Worker : WorkerTake(w) \/ WorkerFinish(w)
         \/ Interrupt
         \/ Cleanup
  PROVE  OrderStep
<1>1. CASE \E n \in Node : Dispatch(n)
  BY <1>1, PoolDispatched, HandedOnHidden DEF OInv, Dispatch, Preparing, AfterDispatch, nodeVars
<1>2. CASE \E w \in Worker : WorkerTake(w)
  BY <1>2, PoolTaken, HandedOnHidden DEF OInv, WorkerTake, nodeVars
<1>3. CASE \E w \in Worker : WorkerFinish(w)
  BY <1>3, PoolFinished, HandedOnHidden DEF OInv, WorkerFinish, nodeVars
<1>4. CASE Interrupt
  BY <1>4, PoolInterrupted, HandedOnHidden DEF OInv, Interrupt, nodeVars
<1>5. CASE Cleanup
  BY <1>5, PoolCleanedUp, HandedOnHidden DEF OInv, Cleanup, nodeVars
<1> QED
  BY <1>1, <1>2, <1>3, <1>4, <1>5

-----------------------------------------------------------------------------
(* Visits *)

\* A node that is looked at, and its command's other targets, are idle, or
\* were given up before
LEMMA LookedAtIdle ==
  ASSUME TInv, OInv, NEW n \in Node, state[n] <= PENDING, NEW t \in Group(n)
  PROVE  t \in Node /\ PhaseOf(t) = IF state[t] = FAILED THEN "failed" ELSE "idle"
<1>1. /\ t \in Node /\ Group(t) = Group(n) /\ ~Settled(t)
      /\ state[t] \notin Done \cup {EXECUTING}
  BY LookedAt
<1>2. ~Started(t)
  BY <1>1, StartedStates
<1> QED
  BY <1>1, <1>2 DEF PhaseOf

\* A node waits, or is given up with a child that failed
LEMMA VisitSteps ==
  ASSUME TInv, TInv', OInv, OInv', NEW n \in Node,
         VisitFailedChildren(n) \/ VisitWaits(n) \/ VisitSideEffectHeld(n)
  PROVE  OrderStep
<1> DEFINE S == {t \in ActionTargets(n) : VisitFailedChildren(n) /\ state[t] # FAILED}
<1>1. Visit(n) /\ pc = "next" /\ pc' = "next"
  BY DEF VisitFailedChildren, VisitWaits, VisitSideEffectHeld, Visit, Looking
<1>2. /\ ~stopped /\ state[n] <= PENDING /\ project' = project /\ UNCHANGED poolVars
      /\ Children(n) \in SUBSET Node
  BY <1>1, VisitScans
<1>3. UnderWay' = UnderWay
  BY <1>1, <1>2, UnderWayIs, UnderWayNext, OutSame DEF Holding
<1>4. S \subseteq Group(n) /\ S \subseteq Node /\ n \in Group(n)
  BY Groups DEF ActionTargets, TInv
<1>5. \A m \in Node : /\ Started(m)' <=> Started(m)
                      /\ Settled(m)' <=> Settled(m)
  <2>1. \A m \in Node : state[m] \in Done \cup {EXECUTING} \/ state'[m] \in Done \cup {EXECUTING}
                          => state'[m] = state[m]
    BY VisitStates
  <2> QED
    BY <1>1, <1>2, <1>3, <2>1, SameProject DEF Started, Settled
<1>6. \A m \in Node : \/ m \in S /\ state'[m] = FAILED
                      \/ m \notin S /\ state'[m] = state[m]
                      \/ m \notin S /\ m = n /\ state'[m] = PENDING
  BY DEF VisitFailedChildren, VisitWaits, VisitSideEffectHeld, TInv, TypeOK
<1>7. \A t \in S : PhaseOf(t) = "idle"
  BY <1>2, <1>4, LookedAtIdle
<1>8. PENDING # FAILED /\ state[n] # FAILED
  BY <1>2 DEF PENDING, FAILED
<1>9. \A m \in Node : PhaseOf(m)' = IF m \in S THEN "failed" ELSE PhaseOf(m)
  <2> SUFFICES ASSUME NEW m \in Node
               PROVE  PhaseOf(m)' = IF m \in S THEN "failed" ELSE PhaseOf(m)
    OBVIOUS
  <2>1. CASE m \in S
    <3>1. ~Started(m) /\ state'[m] = FAILED
      BY <1>4, <1>6, <1>7, <2>1, PhaseCases
    <3> QED
      BY <1>5, <2>1, <3>1 DEF PhaseOf
  <2>2. CASE m \notin S
    <3>1. state'[m] = FAILED <=> state[m] = FAILED
      BY <1>6, <1>8, <2>2
    <3> QED
      BY <1>5, <2>2, <3>1 DEF PhaseOf
  <2> QED
    BY <2>1, <2>2
<1>10. ASSUME NEW t \in S
       PROVE  \E c \in Needs(t) : c \in Node /\ PhaseOf(c) = "failed"
  <2>1. AnyFailed(n)
    BY <1>10 DEF VisitFailedChildren
  <2>2. PICK c \in Children(n) : state[c] = FAILED
    BY <2>1 DEF AnyFailed
  <2>3. c \in Node /\ PhaseOf(c) = "failed"
    BY <1>2, <2>2, PhaseCases
  <2>4. Needs(t) = Needs(n) /\ c \in Needs(n)
    BY <1>1, <1>4, <1>10, NeedsShared, ChildrenNeeded DEF TInv
  <2> QED
    BY <2>3, <2>4
<1>11. \A t \in S : /\ PhaseOf(t) = "idle"
                    /\ \E c \in Needs(t) : c \in Node /\ PhaseOf(c) = "failed"
  BY <1>4, <1>7, <1>10
<1>12. ProjectGiven /\ IncludesKept
  BY DEF TInv, OInv
<1> HIDE DEF S
<1> QED
  BY <1>2, <1>4, <1>9, <1>11, <1>12, FailStep

-----------------------------------------------------------------------------
(* A node is taken up *)

\* All that is needed is built when a node is ready
LEMMA ReadyNeeds ==
  ASSUME TInv, OInv, NEW n \in Node, VisitReady(n)
  PROVE  \A c \in Needs(n) : c \in Node /\ Settled(c)
<1>1. Visit(n)
  BY DEF VisitReady
<1>2. /\ Children(n) \in SUBSET Node /\ Kids(Group(n)) \subseteq Children(n)
      /\ Implicits(Group(n))' \subseteq Children(n)
      /\ n \in project.builder => Found(Group(n), Sure) \subseteq Implicits(Group(n))'
  BY <1>1, VisitScans
<1>3. \A c \in Children(n) : Settled(c)
  BY ReadyChildren
<1>4. UpToDateShows /\ \A c \in Children(n) : state[c] \in Done
  BY <1>3 DEF OInv, Settled
<1>5. Needs(n) \subseteq Children(n)
  BY <1>2, <1>4, NeedsFound
<1> QED
  BY <1>2, <1>3, <1>5

\* Nothing but what is started, or given to the main thread, changes its phase
LEMMA TakenUpStates ==
  ASSUME TInv, OInv, RInv, Orderly, NEW n \in Node, state[n] <= PENDING, MakeReady(n)
  PROVE  /\ \A m \in Node \ Group(n) :
              \/ state'[m] = state[m]
              \/ /\ state'[m] = EXECUTING /\ state[m] \notin Done \cup {FAILED}
                 /\ m \notin project.builder
         /\ \/ /\ Fails(n, "ready") /\ state'[n] = PENDING
               /\ \A t \in Group(n) : t # n => state'[t] = state[t]
            \/ /\ ~Fails(n, "ready") /\ Stale(n) /\ n \in project.builder
               /\ \A t \in Group(n) : state'[t] = EXECUTING
            \/ /\ ~Fails(n, "ready") /\ ~Stale(n)
               /\ \A t \in Group(n) : state'[t] = UP_TO_DATE
         /\ pc' = "prepare" /\ task' = n
<1>1. CASE project.policy = "ignore"
  BY <1>1, ReadyStates DEF RInv, NoneFailed
<1>2. CASE \A m \in Node : project.se[m] = {}
  <2>1. SideEffects(Group(n)) = {}
    BY <1>2, Groups DEF SideEffects, TInv
  <2>2. \A m \in Node \ Group(n) : state'[m] = state[m]
    BY <2>1, Groups DEF MakeReady, TInv
  <2> QED
    BY <2>2, ReadyStates
<1> QED
  BY <1>1, <1>2 DEF Orderly

\* What the steps that take up a node have in common
LEMMA TakesUp ==
  ASSUME TInv, OInv, NEW n \in Node, VisitReady(n) \/ VisitScanFails(n)
  PROVE  /\ MakeReady(n) /\ pc = "next" /\ ~stopped /\ state[n] <= PENDING
         /\ project' = project /\ UNCHANGED poolVars
<1>1. CASE VisitReady(n)
  <2>1. Visit(n) /\ MakeReady(n)
    BY <1>1 DEF VisitReady
  <2> QED
    BY <2>1, VisitScans
<1>2. CASE VisitScanFails(n)
  BY <1>2, ScanFailsTaken
<1> QED
  BY <1>1, <1>2

\* A command starts, or the main thread has an idle node in its hands
LEMMA ReadySteps ==
  ASSUME TInv, TInv', OInv, OInv', RInv, Orderly, Undisturbed => CInv',
         NEW n \in Node, VisitReady(n) \/ VisitScanFails(n)
  PROVE  OrderStep
<1> DEFINE T == Group(n)
           S == IF n \in UnderWay' THEN T ELSE {}
<1>1. /\ MakeReady(n) /\ pc = "next" /\ ~stopped /\ state[n] <= PENDING
      /\ project' = project /\ UNCHANGED poolVars
  BY TakesUp
<1>2. /\ \A m \in Node \ T :
           \/ state'[m] = state[m]
           \/ /\ state'[m] = EXECUTING /\ state[m] \notin Done \cup {FAILED}
              /\ m \notin project.builder
      /\ \/ /\ Fails(n, "ready") /\ state'[n] = PENDING
            /\ \A t \in T : t # n => state'[t] = state[t]
         \/ /\ ~Fails(n, "ready") /\ Stale(n) /\ n \in project.builder
            /\ \A t \in T : state'[t] = EXECUTING
         \/ /\ ~Fails(n, "ready") /\ ~Stale(n)
            /\ \A t \in T : state'[t] = UP_TO_DATE
      /\ pc' = "prepare" /\ task' = n
  BY <1>1, TakenUpStates
<1>3. /\ \A t \in T : t \in Node /\ Group(t) = T /\ state[t] \notin Done \cup {EXECUTING}
      /\ \A m \in Node : m \notin T => Group(m) \cap T = {}
      /\ \A m \in UnderWay : m \notin T /\ Group(m) \cap T = {}
      /\ n \notin Out /\ n \in T
  BY <1>1, LookedAt
<1>4. /\ \A t \in T : PhaseOf(t) = IF state[t] = FAILED THEN "failed" ELSE "idle"
      /\ state[n] # FAILED
      /\ \A t \in T : state[t] = FAILED => Fails(n, "ready")
  <2>1. state[n] # FAILED
    BY <1>1 DEF PENDING, FAILED
  <2> QED
    BY <1>1, <1>3, <2>1, LookedAtIdle, TakenNotGivenUp DEF OInv, FailedGivenUp
<1>5. UnderWay = Out /\ UnderWay' = Out \cup {m \in Node : Holding(m)'}
  BY <1>1, UnderWayIs, UnderWayNext, OutSame DEF Holding
<1>6. /\ UnderWay \subseteq UnderWay' /\ UnderWay' \subseteq UnderWay \cup {n}
      /\ n \in UnderWay' => state'[n] = EXECUTING /\ ~PrepareFails(n)
  <2>1. \A m \in Node : Holding(m)' => m = n /\ state'[n] = EXECUTING /\ ~PrepareFails(n)
    BY <1>1, <1>2, SameProject DEF Holding
  <2> QED
    BY <1>3, <1>5, <2>1
<1>7. /\ PENDING # EXECUTING /\ PENDING # FAILED /\ EXECUTING # FAILED
      /\ EXECUTING \notin Done /\ UP_TO_DATE # EXECUTING /\ UP_TO_DATE # FAILED
      /\ PENDING \notin Done
  BY DEF PENDING, EXECUTING, FAILED, Done, UP_TO_DATE, EXECUTED
<1>8. ASSUME NEW m \in Node
      PROVE  PhaseOf(m)' = IF m \in S THEN "running" ELSE PhaseOf(m)
  <2>1. Started(m)' <=> Started(m) \/ m \in S
    BY <1>1, <1>6, SameProject DEF Started
  <2>2. Settled(m)' <=> state'[m] \in Done /\ m \notin T
    BY <1>1, <1>2, SameProject DEF Settled
  <2>3. Settled(m) <=> state[m] \in Done
    BY <1>1 DEF Settled
  <2>4. CASE m \in S
    BY <1>2, <1>6, <1>7, <2>1, <2>4 DEF PhaseOf
  <2>5. CASE m \notin S /\ m \in T
    <3>1. ~Started(m) /\ ~Started(m)' /\ ~Settled(m)'
      BY <1>4, <2>1, <2>2, <2>5, PhaseCases
    <3>2. state'[m] = FAILED <=> state[m] = FAILED
      BY <1>2, <1>4, <1>7, <2>5
    <3> QED
      BY <1>4, <2>5, <3>1, <3>2 DEF PhaseOf
  <2>6. CASE m \notin T
    <3>1. /\ Settled(m)' <=> Settled(m)
          /\ state'[m] = FAILED <=> state[m] = FAILED
      BY <1>2, <1>7, <2>2, <2>3, <2>6
    <3> QED
      BY <2>1, <2>6, <3>1 DEF PhaseOf
  <2> QED
    BY <2>4, <2>5, <2>6
<1>9. CASE n \notin UnderWay'
  BY <1>1, <1>8, <1>9, Stutter
<1>10. CASE n \in UnderWay'
  <2>1. VisitReady(n)
    <3>1. VisitScanFails(n) => PrepareFails(n)
      BY ScanFailsTaken
    <3> QED
      BY <1>6, <1>10, <3>1
  <2>2. \A t \in T : \A c \in Needs(t) : c \in Node /\ PhaseOf(c) = "built"
    BY <2>1, ReadyNeeds, NeedsShared, PhaseCases DEF TInv
  <2>3. ASSUME NEW t \in T, NEW m \in Node, PhaseOf(m) = "running"
        PROVE  Writes(t) \cap Writes(m) = {}
    <3>1. PICK k \in UnderWay : m \in Group(k)
      BY <2>3, PhaseCases DEF Started
    <3>2. k \in Node /\ k # n /\ k \in UnderWay' /\ Group(k) \cap T = {}
      BY <1>3, <1>6, <3>1, OutKnown
    <3>3. Group(m) = Group(k) /\ Group(t) = T
      BY <1>3, <3>1, <3>2, Partners DEF TInv
    <3>4. Writes(t) = Writes(n) /\ Writes(m) = Writes(k)
      BY <3>3 DEF Writes
    <3>5. CASE \A x \in Node : project.se[x] = {}
      <4>1. \A x \in Node : Writes(x) = Group(x)
        BY <3>5, Groups DEF Writes, SideEffects, TInv
      <4> QED
        BY <3>2, <3>4, <4>1
    <3>6. CASE project.policy = "ignore" /\ \A x \in Node : project.bad[x] # "scan"
      <4>1. WritesApart'
        BY <3>6 DEF Undisturbed, CInv
      <4>2. Disjoint(n, k)
        BY <1>1, <1>10, <3>2, <4>1, SameProject DEF WritesApart
      <4> QED
        BY <3>4, <4>2 DEF Disjoint
    <3> QED
      BY <3>5, <3>6 DEF Orderly
  <2>4. \A t \in T : PhaseOf(t) = "idle"
    BY <1>2, <1>4, <1>6, <1>7, <1>10
  <2>5. /\ T \in SUBSET Node
        /\ \A m \in Node : PhaseOf(m)' = IF m \in T THEN "running" ELSE PhaseOf(m)
    BY <1>3, <1>8, <1>10
  <2> HIDE DEF T
  <2> QED
    BY <1>1, <2>2, <2>3, <2>4, <2>5, StartStep
<1> QED
  BY <1>9, <1>10

-----------------------------------------------------------------------------
(* A task leaves the main thread's hands *)

\* Side effects that are given back were not given up before
LEMMA ReturnedStates ==
  ASSUME TInv, OInv, RInv, Orderly, NEW n \in Node, InHand(n), Executed(n)
  PROVE  /\ \A m \in Node \ Group(n) :
              \/ state'[m] = state[m]
              \/ /\ state'[m] = NO_STATE /\ state[m] \notin Done \cup {FAILED}
                 /\ m \notin project.builder
         /\ \/ \A t \in Group(n) : state[t] = EXECUTING /\ state'[t] = EXECUTED
            \/ \A t \in Group(n) : state[t] = UP_TO_DATE /\ state'[t] = UP_TO_DATE
            \/ \A t \in Group(n) : /\ state[t] \notin Done \cup {EXECUTING}
                                   /\ state'[t] = state[t]
<1>1. CASE project.policy = "ignore"
  BY <1>1, ExecutedStates DEF RInv, NoneFailed
<1>2. CASE \A m \in Node : project.se[m] = {}
  <2>1. \A t \in Group(n) : t \in Node /\ project.se[t] = {}
    BY <1>2, Groups DEF TInv
  <2>2. SideEffects(Group(n)) = {}
    BY <2>1 DEF SideEffects
  <2>3. \A m \in Node \ Group(n) : ExecutedState(Group(n))[m] = state[m]
    BY <2>1 DEF ExecutedState
  <2>4. \A m \in Node \ Group(n) : state'[m] = state[m]
    BY <2>2, <2>3 DEF Executed, Postprocess
  <2> QED
    BY <2>4, ExecutedStates
<1> QED
  BY <1>1, <1>2 DEF Orderly

\* Who else is under way then, and who remains
LEMMA InHandStarted ==
  ASSUME TInv, OInv, NEW n \in Node, InHand(n), project' = project,
         UnderWay' = UnderWay \ {n}, NEW m \in Node
  PROVE  /\ m \in Group(n) => (Started(m) <=> n \in UnderWay) /\ ~Started(m)'
         /\ m \notin Group(n) => (Started(m)' <=> Started(m))
<1>1. UnderWay \subseteq Out \cup {n}
  BY UnderWayIs DEF Holding, InHand
<1>2. /\ \A k \in UnderWay \ {n} : k \in Node /\ k \notin Group(n)
      /\ \A k \in Node : k \notin Group(n) => Group(k) \cap Group(n) = {}
  BY <1>1, EndStates, OutKnown
<1> QED
  BY <1>2, SameProject DEF Started

\* A task went well, or its failure is forgiven
LEMMA ExecutedSteps ==
  ASSUME TInv, TInv', OInv, OInv', RInv, Orderly, NEW n \in Node, InHand(n), Executed(n),
         project' = project, pc' # "prepare", UnderWay' = UnderWay \ {n},
         \/ n \in UnderWay
         \/ project.policy = "ignore" /\ Doubtful(n)
         \/ \A c \in Needs(n) : Settled(c)
  PROVE  OrderStep
<1> DEFINE T == Group(n)
<1>1. /\ \A m \in Node \ T :
           \/ state'[m] = state[m]
           \/ /\ state'[m] = NO_STATE /\ state[m] \notin Done \cup {FAILED}
              /\ m \notin project.builder
      /\ \/ \A t \in T : state[t] = EXECUTING /\ state'[t] = EXECUTED
         \/ \A t \in T : state[t] = UP_TO_DATE /\ state'[t] = UP_TO_DATE
         \/ \A t \in T : state[t] \notin Done \cup {EXECUTING} /\ state'[t] = state[t]
  BY ReturnedStates
<1>2. n \in T /\ T \subseteq Node /\ \A t \in T : ~Settled(t)
  BY EndStates
<1>3. /\ NO_STATE \notin Done /\ NO_STATE # FAILED /\ EXECUTED \in Done
      /\ UP_TO_DATE \in Done /\ EXECUTING # FAILED /\ UP_TO_DATE # FAILED
      /\ EXECUTED # FAILED
  BY DEF NO_STATE, FAILED, Done, EXECUTING, UP_TO_DATE, EXECUTED
<1>4. \A m \in Node : Settled(m)' <=> state'[m] \in Done
  BY DEF Settled
<1>5. ASSUME NEW m \in Node \ T
      PROVE  PhaseOf(m)' = PhaseOf(m)
  <2>1. Started(m)' <=> Started(m)
    BY InHandStarted
  <2>2. Settled(m) <=> state[m] \in Done
    BY <1>2 DEF Settled, InHand
  <2>3. /\ state'[m] \in Done <=> state[m] \in Done
        /\ state'[m] = FAILED <=> state[m] = FAILED
    BY <1>1, <1>3
  <2> QED
    BY <1>4, <2>1, <2>2, <2>3 DEF PhaseOf
<1>6. \A t \in T : (Started(t) <=> n \in UnderWay) /\ ~Started(t)'
  BY <1>2, InHandStarted
<1>7. CASE \A t \in T : state[t] \notin Done \cup {EXECUTING} /\ state'[t] = state[t]
  <2>1. \A t \in T : ~Started(t)
    BY <1>2, <1>7, StartedStates
  <2>2. \A t \in T : ~Settled(t)'
    BY <1>2, <1>4, <1>7
  <2>3. \A t \in T : PhaseOf(t)' = PhaseOf(t)
    BY <1>2, <1>6, <1>7, <2>1, <2>2 DEF PhaseOf
  <2> QED
    BY <1>5, <2>3, Stutter
<1>8. CASE \A t \in T : /\ state'[t] \in {EXECUTED, UP_TO_DATE}
                        /\ state[t] \in {EXECUTING, UP_TO_DATE}
  <2>1. ASSUME NEW m \in Node
        PROVE  PhaseOf(m)' = IF m \in T THEN "built" ELSE PhaseOf(m)
    BY <1>3, <1>4, <1>5, <1>6, <1>8 DEF PhaseOf
  <2>2. \A t \in T : IF n \in UnderWay THEN PhaseOf(t) = "running" ELSE PhaseOf(t) = "idle"
    BY <1>2, <1>3, <1>6, <1>8 DEF PhaseOf
  <2>3. ASSUME NEW t \in T
        PROVE  \/ PhaseOf(t) = "running"
               \/ /\ PhaseOf(t) = "idle"
                  /\ \/ \A c \in Needs(t) : c \in Node /\ PhaseOf(c) = "built"
                     \/ project.policy = "ignore" /\ Doubtful(t)
    <3>1. Needs(t) = Needs(n) /\ (Doubtful(t) <=> Doubtful(n))
      BY NeedsShared DEF TInv
    <3>2. \A c \in Needs(n) : c \in Node /\ (Settled(c) => PhaseOf(c) = "built")
      BY KnownTypes, PhaseCases
    <3> QED
      BY <2>2, <3>1, <3>2
  <2>4. T \in SUBSET Node
    BY <1>2
  <2> HIDE DEF T
  <2> QED
    BY <2>1, <2>3, <2>4, BuildStep
<1> QED
  BY <1>1, <1>7, <1>8

\* What waits for what is given up is given up for a reason
LEMMA DoomedReason ==
  ASSUME TInv, OInv, NEW n \in Node, InHand(n),
         NEW m \in Doomed(Group(n)), m \notin Group(n)
  PROVE  \E c \in Needs(m) : c \in Doomed(Group(n))
<1>1. PICK c \in Doomed(Group(n)) : m \in waitingParents[c]
  BY DoomedWaits
<1>2. c \in Node /\ m \in Node
  BY Closures DEF Doomed
<1>3. c \in Needs(m)
  BY <1>1, <1>2 DEF OInv, Waiting
<1> QED
  BY <1>1, <1>3

\* A task failed, and what waits for it is given up
LEMMA FailedSteps ==
  ASSUME TInv, TInv', OInv, OInv', NEW n \in Node, InHand(n), Failed(n),
         project.policy # "ignore", currentTop \in Node,
         project' = project, pc' # "prepare", UnderWay' = UnderWay \ {n},
         n \in UnderWay \/ Doubtful(n)
  PROVE  OrderStep
<1> DEFINE T == Group(n)
           D == Doomed(T)
           S == {m \in D : state[m] # FAILED}
<1>1. \A m \in Node :
        \/ m \in D /\ state'[m] = FAILED
        \/ m \notin D /\ state'[m] = state[m]
        \/ /\ state'[m] = NO_STATE /\ m \notin project.builder
           /\ m \notin D /\ state[m] = EXECUTING
  BY FailedStates
<1>2. /\ \A m \in D : m \in Node /\ ~Settled(m)
      /\ \A m \in D : m \in project.builder /\ state[m] = EXECUTING => m \in T
      /\ T \subseteq D
  BY DoomedUnbuilt
<1>3. /\ NO_STATE \notin Done /\ EXECUTING \notin Done /\ FAILED \notin Done
      /\ NO_STATE # FAILED /\ EXECUTING # FAILED
  BY DEF NO_STATE, FAILED, Done, EXECUTING, UP_TO_DATE, EXECUTED
<1>4. ASSUME NEW m \in D
      PROVE  ~Started(m)' /\ (Started(m) <=> m \in T /\ n \in UnderWay)
  <2>1. CASE m \in T
    BY <1>2, <2>1, InHandStarted
  <2>2. CASE m \notin T
    <3>1. ~Started(m)
      BY <1>2, <2>2, StartedStates
    <3> QED
      BY <1>2, <2>2, <3>1, InHandStarted
  <2> QED
    BY <2>1, <2>2
<1>5. ASSUME NEW m \in Node \ D
      PROVE  PhaseOf(m)' = PhaseOf(m)
  <2>1. Started(m)' <=> Started(m)
    BY <1>2, InHandStarted
  <2>2. Settled(m) <=> state[m] \in Done
    BY <1>2 DEF Settled, InHand
  <2>3. Settled(m)' <=> state'[m] \in Done
    BY DEF Settled
  <2>4. /\ state'[m] \in Done <=> state[m] \in Done
        /\ state'[m] = FAILED <=> state[m] = FAILED
    BY <1>1, <1>3
  <2> QED
    BY <2>1, <2>2, <2>3, <2>4 DEF PhaseOf
<1>6. \A m \in D : PhaseOf(m)' = "failed"
  BY <1>1, <1>2, <1>4 DEF PhaseOf
<1>7. ASSUME NEW m \in Node
      PROVE  PhaseOf(m)' = IF m \in S THEN "failed" ELSE PhaseOf(m)
  <2>1. CASE m \in D /\ state[m] = FAILED
    BY <1>6, <2>1, PhaseCases
  <2>2. CASE m \in S
    BY <1>6, <2>2
  <2>3. CASE m \notin D
    BY <1>5, <2>3
  <2> QED
    BY <2>1, <2>2, <2>3
<1>8. ASSUME NEW m \in S
      PROVE  \/ PhaseOf(m) = "running"
             \/ /\ PhaseOf(m) = "idle"
                /\ \/ Doubtful(m)
                   \/ \E c \in Needs(m) : c \in Node /\ (c \in S \/ PhaseOf(c) = "failed")
  <2>1. Started(m) \/ PhaseOf(m) = "idle"
    BY <1>2, PhaseCases
  <2>2. CASE Started(m)
    BY <2>2 DEF PhaseOf
  <2>3. CASE ~Started(m) /\ m \in T
    BY <1>4, <2>1, <2>3, NeedsShared DEF TInv
  <2>4. CASE ~Started(m) /\ m \notin T
    <3>1. PICK c \in Needs(m) : c \in D
      BY <2>4, DoomedReason
    <3>2. c \in Node /\ (c \in S \/ PhaseOf(c) = "failed")
      BY <1>2, <3>1, PhaseCases
    <3> QED
      BY <2>1, <2>4, <3>1, <3>2
  <2> QED
    BY <2>2, <2>3, <2>4
<1>9. S \in SUBSET Node
  BY <1>2
<1>10. ProjectGiven /\ IncludesKept
  BY DEF TInv, OInv
<1> HIDE DEF S
<1> QED
  BY <1>7, <1>8, <1>9, <1>10, FailStep

LEMMA EndedSteps ==
  ASSUME TInv, TInv', OInv, OInv', RInv, Orderly, NEW n \in Node, InHand(n),
         currentTop \in Node, project' = project, pc' # "prepare", UnderWay' = UnderWay \ {n},
         \/ Executed(n) /\ (n \in UnderWay \/ \A c \in Needs(n) : Settled(c))
         \/ Failed(n) /\ (n \in UnderWay \/ Doubtful(n))
  PROVE  OrderStep
<1>1. CASE Executed(n) /\ (n \in UnderWay \/ \A c \in Needs(n) : Settled(c))
  BY <1>1, ExecutedSteps
<1>2. CASE Failed(n) /\ (n \in UnderWay \/ Doubtful(n)) /\ project.policy = "ignore"
  <2>1. Executed(n)
    BY <1>2 DEF Failed
  <2> QED
    BY <1>2, <2>1, ExecutedSteps
<1>3. CASE Failed(n) /\ (n \in UnderWay \/ Doubtful(n)) /\ project.policy # "ignore"
  BY <1>3, FailedSteps
<1> QED
  BY <1>1, <1>2, <1>3

\* The main thread ends the task it holds
LEMMA HeldSteps ==
  ASSUME TInv, TInv', OInv, OInv', RInv, Orderly, NEW n \in Node, Prepare(n) \/ Execute(n)
  PROVE  OrderStep
<1>1. /\ pc = "prepare" /\ task = n /\ pc' = "next" /\ project' = project
      /\ UNCHANGED poolVars
  BY DEF Prepare, Execute, Preparing
<1>2. /\ n \in UnderWay <=> ~PrepareFails(n) /\ state[n] = EXECUTING
      /\ UnderWay' = UnderWay \ {n}
  <2>1. n \notin Out
    BY <1>1 DEF OInv, PoolInv, OnceEach
  <2>2. UnderWay = Out \cup {m \in Node : Holding(m)} /\ UnderWay' = Out
    BY <1>1, UnderWayIs, UnderWayNext, OutSame DEF Holding
  <2> QED
    BY <1>1, <2>1, <2>2 DEF Holding
<1>3. InHand(n) /\ currentTop \in Node
  BY <1>1 DEF InHand, TInv, TopKnown
<1>4. \A k \in Trouble : k # "none" /\ Fails(n, k) => Doubtful(n)
  BY DEF Fails, Doubtful
<1>5. \/ Executed(n) /\ (n \in UnderWay \/ \A c \in Needs(n) : Settled(c))
      \/ Failed(n) /\ (n \in UnderWay \/ Doubtful(n))
  <2>1. CASE Prepare(n) /\ PrepareFails(n)
    <3>1. Failed(n) /\ Doubtful(n)
      BY <1>4, <2>1 DEF Prepare, PrepareFails, Trouble
    <3> QED
      BY <3>1
  <2>2. CASE Prepare(n) /\ ~PrepareFails(n) /\ Missing(n)
    <3>1. Failed(n) /\ Doubtful(n)
      BY <1>4, <2>2 DEF Prepare, Missing, Trouble
    <3> QED
      BY <3>1
  <2>3. CASE Prepare(n) /\ ~PrepareFails(n) /\ ~Missing(n)
    BY <1>1, <2>3 DEF Prepare, PrepareFails, RInv, HeldNeeds
  <2>4. CASE Execute(n)
    BY <1>2, <2>4 DEF Execute
  <2> QED
    BY <2>1, <2>2, <2>3, <2>4
<1> QED
  BY <1>1, <1>2, <1>3, <1>5, EndedSteps

\* The main thread gets a result
LEMMA ResultSteps ==
  ASSUME TInv, TInv', OInv, OInv', RInv, Orderly, GetResult
  PROVE  OrderStep
<1> DEFINE n == Head(results).node
<1>1. /\ pc = "wait" /\ pc' # "prepare" /\ project' = project
      /\ (Executed(n) \/ Failed(n))
  BY DEF GetResult
<1>2. n \in Node /\ n \in Out /\ n \in UnderWay /\ UnderWay' = UnderWay \ {n}
  BY PoolResult DEF OInv
<1>3. InHand(n)
  BY <1>1, <1>2 DEF InHand
<1>4. currentTop \in Node
  <2>1. results # <<>> /\ results \in Seq(Task)
    BY DEF GetResult, TInv, TypeOK
  <2>2. jobs = Len(requests) + Cardinality(Busy) + Len(results) /\ requests \in Seq(Node)
    BY <1>1 DEF TInv, JobsCounted
  <2>3. jobs > 0
    BY <2>1, <2>2, BusyTypes
  <2> QED
    BY <2>3 DEF TInv, TopKnown
<1> HIDE DEF n
<1> QED
  BY <1>1, <1>2, <1>3, <1>4, EndedSteps

-----------------------------------------------------------------------------
LEMMA OrderNext ==
  ASSUME TInv, TInv', OInv, OInv', RInv, Orderly, Undisturbed => CInv', [Next]_vars
  PROVE  OrderStep
<1>1. ASSUME NEW n \in Node, Walk(n) PROVE OrderStep
  BY <1>1, VisitSteps, ReadySteps, HeldSteps, PoolHidden DEF Walk
<1>2. CASE MainThread
  BY <1>1, <1>2, SkipHidden, ResultSteps, PoolHidden DEF MainThread
<1>3. CASE Interrupt \/ \E w \in Worker : WorkerTake(w) \/ WorkerFinish(w)
  BY <1>3, PoolHidden
<1>4. CASE UNCHANGED vars
  <2>1. UNCHANGED <<project, state, pc, task>> /\ UNCHANGED poolVars
    BY <1>4 DEF vars, nodeVars, poolVars
  <2> QED
    BY <2>1, OutSame, SameUnderWay, HandedOnHidden
<1> QED
  BY <1>2, <1>3, <1>4 DEF Next

\* With -i, a task that ends leaves nothing failed
LEMMA EndedNoneFailed ==
  ASSUME TInv, NoneFailed, NEW n \in Node, Executed(n) \/ Failed(n), project' = project
  PROVE  NoneFailed'
<1> SUFFICES ASSUME project.policy = "ignore"
             PROVE  \A m \in Node : state'[m] # FAILED
  BY DEF NoneFailed
<1>1. Executed(n)
  BY DEF Failed
<1>2. \A m \in Node : state[m] # FAILED
  BY DEF NoneFailed
<1>3. FAILED # EXECUTED /\ FAILED # NO_STATE
  BY DEF FAILED, EXECUTED, NO_STATE
<1>4. \A m \in Node : ExecutedState(Group(n))[m] # FAILED
  BY <1>2, <1>3 DEF ExecutedState
<1> QED
  BY <1>1, <1>3, <1>4 DEF Executed, Postprocess

LEMMA NoneFailedNext ==
  ASSUME TInv, OInv, NoneFailed, Next
  PROVE  NoneFailed'
<1>1. CASE state' = state /\ project' = project
  BY <1>1 DEF NoneFailed
<1>2. CASE GetResult
  <2>1. \E n \in Node : (Executed(n) \/ Failed(n)) /\ project' = project
    BY <1>2, PoolResult, ResultsTail DEF GetResult, OInv, PoolInv, Ended
  <2> QED
    BY <2>1, EndedNoneFailed
<1>3. CASE \E n \in Node : Prepare(n) \/ Execute(n)
  BY <1>3, EndedNoneFailed DEF Prepare, Execute
<1>4. ASSUME NEW n \in Node, VisitFailedChildren(n) \/ VisitWaits(n) \/ VisitSideEffectHeld(n)
      PROVE  NoneFailed'
  <2>1. Visit(n)
    BY <1>4 DEF VisitFailedChildren, VisitWaits, VisitSideEffectHeld
  <2>2. project' = project /\ Children(n) \in SUBSET Node
    BY <2>1, VisitScans
  <2> SUFFICES ASSUME project.policy = "ignore"
               PROVE  \A m \in Node : state'[m] # FAILED
    BY <2>2 DEF NoneFailed
  <2>3. \A m \in Node : state[m] # FAILED
    BY DEF NoneFailed
  <2>4. ~AnyFailed(n)
    BY <2>2, <2>3 DEF AnyFailed
  <2>5. \A m \in Node : state'[m] = state[m] \/ state'[m] = PENDING
    BY <1>4, <2>4 DEF VisitFailedChildren, VisitWaits, VisitSideEffectHeld, TInv, TypeOK
  <2> QED
    BY <2>3, <2>5 DEF PENDING, FAILED
<1>5. ASSUME NEW n \in Node, VisitReady(n) \/ VisitScanFails(n)
      PROVE  NoneFailed'
  <2>1. MakeReady(n) /\ project' = project
    BY <1>5, TakesUp
  <2>2. /\ FAILED # PENDING /\ FAILED # EXECUTING /\ FAILED # UP_TO_DATE
    BY DEF FAILED, PENDING, EXECUTING, UP_TO_DATE
  <2>3. \A m \in Node : state'[m] \in {state[m], PENDING, EXECUTING, UP_TO_DATE}
    BY <2>1 DEF MakeReady
  <2> QED
    BY <2>1, <2>2, <2>3 DEF NoneFailed
<1>6. CASE \/ NoCandidate \/ SkipHandled \/ Cleanup \/ Interrupt
           \/ \E n \in Node : Dispatch(n)
           \/ \E w \in Worker : WorkerTake(w) \/ WorkerFinish(w)
  BY <1>1, <1>6
  DEF NoCandidate, SkipHandled, Cleanup, Interrupt, Dispatch, WorkerTake, WorkerFinish, nodeVars
<1> QED
  BY <1>2, <1>3, <1>4, <1>5, <1>6 DEF Next, MainThread, Walk

\* The main thread holds on to its task while the pool works
LEMMA HeldNeedsNext ==
  ASSUME TInv, TInv', OInv, HeldNeeds, Next
  PROVE  HeldNeeds'
<1> SUFFICES ASSUME pc' = "prepare"
             PROVE  ~Fails(task, "scan")' => \A c \in Needs(task)' : Settled(c)'
  BY DEF HeldNeeds
<1>1. CASE UNCHANGED <<project, state, pc, task>>
  <2>1. /\ Fails(task, "scan")' <=> Fails(task, "scan")
        /\ Needs(task)' = Needs(task)
        /\ \A c : Settled(c)' <=> Settled(c)
    BY <1>1, SameProject, SameMeaning DEF Settled
  <2> QED
    BY <1>1, <2>1 DEF HeldNeeds
<1>2. ASSUME NEW n \in Node, VisitReady(n) \/ VisitScanFails(n), ~Fails(task, "scan")'
      PROVE  \A c \in Needs(task)' : Settled(c)'
  <2>1. /\ MakeReady(n) /\ pc = "next" /\ state[n] <= PENDING /\ project' = project
    BY <1>2, TakesUp
  <2>2. task' = n /\ ~Fails(n, "scan") /\ Needs(task)' = Needs(n)
    <3>1. task' = n
      BY <2>1 DEF MakeReady
    <3>2. Needs(task)' = Needs(n) /\ (Fails(task, "scan")' <=> Fails(n, "scan"))
      BY <2>1, <3>1 DEF Needs, MadeFrom, Found, Fails, Group, HasBuilder, Closure
    <3> QED
      BY <1>2, <3>1, <3>2
  <2>3. \A c \in Needs(n) : c \in Node /\ Settled(c)
    BY <1>2, <2>2, ReadyNeeds DEF VisitScanFails, ScanFails
  <2>4. \A c \in Node : Settled(c) => Settled(c)'
    <3> SUFFICES ASSUME NEW c \in Node, Settled(c)
                 PROVE  Settled(c)'
      OBVIOUS
    <3>1. c \notin Group(n) /\ state[c] \in Done
      BY <2>1, LookedAt DEF Settled
    <3>2. state'[c] = state[c]
      BY <2>1, <3>1, ReadyStates
    <3> QED
      BY <2>1, <2>2, <3>1, <3>2, SameProject DEF Settled
  <2> QED
    BY <2>2, <2>3, <2>4
<1>3. CASE \/ NoCandidate \/ SkipHandled \/ GetResult \/ Cleanup
           \/ \E n \in Node : \/ VisitFailedChildren(n) \/ VisitWaits(n)
                              \/ VisitSideEffectHeld(n)
                              \/ Prepare(n) \/ Dispatch(n) \/ Execute(n)
  BY <1>3 DEF NoCandidate, SkipHandled, GetResult, Cleanup, VisitFailedChildren, VisitWaits,
              VisitSideEffectHeld, Visit, Looking, Prepare, Dispatch, AfterDispatch, Execute
<1>4. CASE Interrupt \/ \E w \in Worker : WorkerTake(w) \/ WorkerFinish(w)
  BY <1>1, <1>4 DEF Interrupt, WorkerTake, WorkerFinish, nodeVars
<1> QED
  BY <1>2, <1>3, <1>4 DEF Next, MainThread, Walk

LEMMA RNext ==
  ASSUME TInv, TInv', OInv, RInv, [Next]_vars
  PROVE  RInv'
<1>1. CASE Next
  BY <1>1, NoneFailedNext, HeldNeedsNext DEF RInv
<1>2. CASE UNCHANGED vars
  <2>1. UNCHANGED <<project, state, pc, task>>
    BY <1>2 DEF vars, nodeVars
  <2>2. /\ Fails(task, "scan")' <=> Fails(task, "scan")
        /\ Needs(task)' = Needs(task)
        /\ \A c : Settled(c)' <=> Settled(c)
    BY <2>1, SameProject, SameMeaning DEF Settled
  <2> QED
    BY <2>1, <2>2 DEF RInv, HeldNeeds, NoneFailed
<1> QED
  BY <1>1, <1>2

LEMMA OrderInit ==
  ASSUME Init, TInv, IncludesKept
  PROVE  RInv /\ Order!Init
<1>1. UnderWay = {} /\ pc = "next" /\ \A n \in Node : state[n] = NO_STATE
  BY PoolInit DEF Init
<1>2. NO_STATE # FAILED /\ NO_STATE \notin Done
  BY DEF NO_STATE, FAILED, Done, UP_TO_DATE, EXECUTED
<1>3. RInv
  BY <1>1, <1>2 DEF RInv, HeldNeeds, NoneFailed
<1>4. \A n \in Node : PhaseOf(n) = "idle"
  BY <1>1, <1>2 DEF PhaseOf, Started, Settled
<1>5. \A n \in Node : Needs(n) \in SUBSET Node /\ Writes(n) \in SUBSET Node
  BY KnownTypes, WritesTypes DEF TInv
<1>6. \A n \in Node : MayNeed(n) \in SUBSET Node
  BY <1>5, NeverClouded DEF TInv
<1> QED
  BY <1>3, <1>4, <1>5, <1>6 DEF Order!Init, Order!Plan, PhaseOf, Started, Settled, Writes

\* The engine is a build as BuildOrder promises it, for every project in which
\* includes are kept, every number of threads and interleaving: of projects whose
\* commands write nothing but their targets, whatever fails, or with -i.
THEOREM OrderImplemented == Spec /\ Orderly /\ IncludesKept => ImplementsOrder
<1> DEFINE Inv == TInv /\ OInv /\ RInv /\ (Undisturbed => CInv) /\ Orderly
<1>1. Init /\ Orderly /\ IncludesKept => Inv /\ Order!Init
  BY TInit, OInit, CInit, OrderInit
<1>2. Inv /\ [Next]_vars => Inv' /\ [Order!Next]_Order!vars
  <2> SUFFICES ASSUME Inv, [Next]_vars
               PROVE  Inv' /\ OrderStep
    BY DEF OrderStep
  <2>1. TInv' /\ project' = project
    BY TNext, ProjectStays
  <2>2. Orderly' /\ (Undisturbed' <=> Undisturbed)
    BY <2>1, SameProject DEF Orderly
  <2>3. OInv' /\ RInv' /\ (Undisturbed => CInv')
    BY <2>1, ONext, CNext, RNext
  <2> QED
    BY <2>1, <2>2, <2>3, OrderNext
<1> QED
  BY <1>1, <1>2, PTL DEF Spec, ImplementsOrder, Order!Spec
=============================================================================
