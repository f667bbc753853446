----------------------------- MODULE BuildOrder -----------------------------
(***************************************************************************)
(* What a build tool promises about the order of its commands, whatever    *)
(* walk, threads and signals bring it about: a command starts when all it  *)
(* needs is built and nothing else writes what it writes; a node that is   *)
(* built or has failed stays so; and a node fails only through a command   *)
(* or check of its own or because something it needs has failed.  Where    *)
(* old contents of files make a node look as if it needed more (Clouded),  *)
(* it may fail through that too, and a failure can be taken back.          *)
(***************************************************************************)
EXTENDS FiniteSets

CONSTANT Node

VARIABLES
  plan,     \* what each node needs and writes, where it may fail
  phase     \* phase[n]

vars == <<plan, phase>>

Phase == {"idle", "running", "built", "failed"}

Plan ==
  [needs : [Node -> SUBSET Node], sees : [Node -> SUBSET Node], writes : [Node -> SUBSET Node],
   doubtful : SUBSET Node, forgiven : SUBSET Node]

In(p) == {n \in Node : phase[n] = p}
Set(S, p) == phase' = [n \in Node |-> IF n \in S THEN p ELSE phase[n]]

\* Nodes that are taken to need more than they do.  They may be built without it;
\* it may fail them all the same, and a command may bring them back.
Clouded == {n \in Node : plan.sees[n] # plan.needs[n]}

NeedsBuilt(n) == plan.needs[n] \subseteq In("built")

\* One command starts, for all its targets S
Start(S) ==
  /\ S \subseteq In("idle") \cup (In("failed") \cap Clouded)
  /\ \A n \in S : NeedsBuilt(n)
  /\ \A n \in S, m \in In("running") : plan.writes[n] \cap plan.writes[m] = {}
  /\ Set(S, "running")
  /\ UNCHANGED plan

\* A command ends well, or there is nothing to do; a forgiven failure counts
\* as success
Build(S) ==
  /\ S \subseteq In("idle") \cup In("running") \cup (In("failed") \cap Clouded)
  /\ \A n \in S : phase[n] = "running" \/ NeedsBuilt(n) \/ n \in plan.forgiven
  /\ Set(S, "built")
  /\ UNCHANGED plan

\* Something goes wrong at one command, and all that waits for it is given up
Fail(S) ==
  /\ S \subseteq In("idle") \cup In("running") \cup (In("built") \cap Clouded)
  /\ \A n \in S : \/ phase[n] = "running" \/ n \in plan.doubtful
                  \/ plan.sees[n] \cap (S \cup In("failed")) # {}
  /\ Set(S, "failed")
  /\ UNCHANGED plan

Init ==
  /\ plan \in Plan
  /\ phase = [n \in Node |-> "idle"]

Next == \E S \in SUBSET Node : Start(S) \/ Build(S) \/ Fail(S)

Spec == Init /\ [][Next]_vars
=============================================================================
