---------------------------- MODULE MCTaskmaster ----------------------------
(* Projects of up to four nodes for the runs of Taskmaster.                 *)
EXTENDS Taskmaster

\* Everything built by commands of its own, for the target a
Plain ==
  [kids |-> [n \in Node |-> {}], incl |-> [n \in Node |-> {}],
   old |-> [n \in Node |-> {}], group |-> [n \in Node |-> {n}],
   se |-> [n \in Node |-> {}],
   builder |-> Node, stale |-> Node, bad |-> [n \in Node |-> "none"],
   tops |-> <<"a">>, policy |-> "stop", jobs |-> 2]

Relation(E) == [n \in Node |-> {m \in Node : <<n, m>> \in E}]
With(E) == [Plain EXCEPT !.kids = Relation(E)]
Grouped(p, T) == [p EXCEPT !.group = [n \in Node |-> IF n \in T THEN T ELSE @[n]]]

\* Everything that may go wrong at one node, serial and parallel
Wrong(p, Kinds, Policies) ==
  {[p EXCEPT !.bad[n] = b, !.policy = k, !.jobs = j] :
     n \in Node, b \in Kinds, k \in Policies, j \in {1, 2}}

-----------------------------------------------------------------------------
ABC == {"a", "b", "c"}

\* Every dependency graph on three nodes, cycles and all
Graphs == {With(E) : E \in SUBSET (ABC \X ABC)}

\* Every acyclic one, with one failing command and each policy
Order3 == {<<"a", "b">>, <<"a", "c">>, <<"b", "c">>}
Failing == UNION {Wrong(With(E), {"action"}, {"stop", "keep", "ignore"}) :
                    E \in SUBSET Order3}

\* Headers: a is built from b, and the files include each other as they like,
\* some generated, some of them out of date
Headers ==
  {[With({<<"a", "b">>} \cup G) EXCEPT !.incl = Relation(E), !.stale = S] :
     G \in SUBSET {<<"b", "c">>, <<"c", "d">>},
     E \in SUBSET {<<"b", "c">>, <<"b", "d">>, <<"c", "d">>, <<"d", "c">>},
     S \in {Node, Node \ {"b"}, Node \ {"c"}}}

\* A command with two targets b and c; two commands that write the file d
Targets2 ==
  {Grouped([With(E) EXCEPT !.incl = Relation(I)], {"b", "c"}) :
     E \in SUBSET {<<"a", "b">>, <<"a", "c">>, <<"b", "d">>, <<"c", "d">>, <<"b", "a">>},
     I \in SUBSET {<<"b", "c">>, <<"d", "c">>}}
SideEffect ==
  {[With({<<"a", "b">>, <<"a", "c">>, <<"d", "b">>, <<"d", "c">>} \cup E)
      EXCEPT !.se = [n \in Node |-> IF n \in {"b", "c"} THEN {"d"} ELSE {}],
             !.builder = ABC, !.stale = ABC, !.bad["b"] = t, !.policy = k, !.jobs = j] :
     E \in SUBSET {<<"b", "c">>}, t \in {"none", "action", "prepare"},
     k \in {"stop", "ignore"}, j \in {1, 2}}

\* Three targets asked for; something goes wrong at one node.  With -i a check
\* that raises leaves its node pending, so it is not in that list.
ThreeTops ==
  [With({<<"a", "c">>, <<"b", "c">>, <<"b", "d">>})
     EXCEPT !.builder = ABC, !.tops = <<"a", "b", "d">>]
Troubles ==
  Wrong(ThreeTops, Trouble, {"stop", "keep"})
  \cup Wrong(ThreeTops, Trouble \ {"ready"}, {"ignore"})
  \cup Wrong(Grouped(ThreeTops, {"a", "b"}), Trouble \ {"scan"}, {"stop", "keep"})

\* More to build at once than there are workers
Wide == {With({<<"a", "b">>, <<"a", "c">>, <<"a", "d">>})}

\* b is asked for, is found up to date, and a waits for it
UpToDateTop ==
  {[With({<<"a", "b">>, <<"b", "d">>})
      EXCEPT !.stale = Node \ {"b"}, !.tops = <<"b", "a">>]}

\* a is built from b, which is to be rebuilt and may look current, or is read
\* all the same: what it included is built, or fails, or is now built from a
OldHeaders ==
  {[With({<<"a", "b">>} \cup E) EXCEPT !.old["b"] = {"d"}, !.incl["b"] = I,
      !.bad["d"] = t, !.policy = k, !.jobs = j, !.tops = T] :
     E \in SUBSET {<<"b", "c">>, <<"d", "a">>, <<"c", "a">>}, I \in {{}, {"c"}, {"d"}},
     t \in {"none", "action"}, k \in {"stop", "keep"}, j \in {1, 2},
     T \in {<<"a">>, <<"c", "a">>, <<"a", "a">>}}

BuildProjects ==
  {p \in Wide \cup UpToDateTop \cup Graphs \cup Failing \cup Headers \cup Targets2 \cup SideEffect
            \cup Troubles :
     WellFormed(p)}

-----------------------------------------------------------------------------
\* b writes the file d besides its target; c is built from d
SideEffectProjects ==
  {[With({<<"c", "d">>, <<"d", "b">>})
      EXCEPT !.se["b"] = {"d"}, !.builder = ABC, !.tops = <<"b", "c">>]}

\* d is made from a and is written by b and by c besides their targets; a fails
KeepProjects ==
  {[With({<<"d", "a">>, <<"d", "b">>, <<"d", "c">>})
      EXCEPT !.se["b"] = {"d"}, !.se["c"] = {"d"}, !.builder = ABC,
             !.bad["a"] = "action", !.tops = <<"d">>, !.policy = "keep"]}

\* a is built from b, b from d, and d will include c, which fails
KeepCycleProjects ==
  {[With({<<"a", "b">>, <<"b", "d">>})
      EXCEPT !.incl["d"] = {"c"}, !.bad["c"] = "action", !.tops = <<"c", "b", "a">>,
             !.policy = "keep"]}
=============================================================================
