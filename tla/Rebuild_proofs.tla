------------------------------ MODULE Rebuild_proofs ------------------------------
(* Settled builds equal clean ones, caches tell the truth and nothing is     *)
(* built twice, for every set of files, edits, failures and kills.           *)
EXTENDS Rebuild, TLAPS

(* Contents as trees.  What a clean build makes is unique, since files do    *)
(* not go round in circles.                                                  *)

\* f is what a clean build makes of the files in D
Cleans(f, leaf, cmd, D) ==
  f = [n \in D |-> IF n \in Source THEN leaf[n]
                   ELSE Contents(n, cmd[n], [k \in kids[n] |-> f[k]])]

CleanOf(leaf, cmd) == CHOOSE f : Cleans(f, leaf, cmd, Node)

Closed(D) == \A t \in D \cap Target : kids[t] \subseteq D

\* A set of files has one that is made of none of them
LEMMA Minimal ==
  ASSUME NEW S \in SUBSET Node, S # {}
  PROVE  \E m \in S : m \in Target => kids[m] \cap S = {}
<1>1. CASE S \cap Source # {}
  BY <1>1, FilesAssumption
<1>2. CASE S \cap Source = {}
  <2>1. S \in SUBSET Target
    BY <1>2 DEF Node
  <2> QED
    BY <2>1, AcyclicAssumption
<1> QED
  BY <1>1, <1>2

\* Two ways to make the same files make them the same
LEMMA Agreeing ==
  ASSUME NEW leaf, NEW cmd, NEW D \in SUBSET Node, NEW E \in SUBSET Node,
         Closed(D), Closed(E), NEW f, NEW g,
         Cleans(f, leaf, cmd, D), Cleans(g, leaf, cmd, E)
  PROVE  \A n \in D \cap E : f[n] = g[n]
<1> DEFINE S == {n \in D \cap E : f[n] # g[n]}
<1> SUFFICES ASSUME S # {} PROVE FALSE
  OBVIOUS
<1>1. PICK m \in S : m \in Target => kids[m] \cap S = {}
  BY Minimal
<1>2. CASE m \in Source
  BY <1>2 DEF Cleans
<1>3. CASE m \notin Source
  <2>1. m \in Target /\ kids[m] \subseteq D \cap E
    BY <1>3 DEF Closed, Node
  <2>2. \A k \in kids[m] : f[k] = g[k]
    BY <2>1, <1>1
  <2>3. [k \in kids[m] |-> f[k]] = [k \in kids[m] |-> g[k]]
    BY <2>2
  <2>4. f[m] = Contents(m, cmd[m], [k \in kids[m] |-> f[k]])
    BY <1>3 DEF Cleans
  <2>5. g[m] = Contents(m, cmd[m], [k \in kids[m] |-> g[k]])
    BY <1>3 DEF Cleans
  <2> QED
    BY <2>3, <2>4, <2>5
<1> QED
  BY <1>2, <1>3

LEMMA CleanExists ==
  ASSUME NEW leaf, NEW cmd
  PROVE  \E f : Cleans(f, leaf, cmd, Node)
<1> DEFINE G == {D \in SUBSET Node : Closed(D) /\ \E f : Cleans(f, leaf, cmd, D)}
           U == UNION G
           h == [n \in U |-> (CHOOSE f : \E D \in G : n \in D /\ Cleans(f, leaf, cmd, D))[n]]
           Make(n) == IF n \in Source THEN leaf[n]
                      ELSE Contents(n, cmd[n], [k \in kids[n] |-> h[k]])
<1>1. ASSUME NEW D \in G, NEW f, Cleans(f, leaf, cmd, D), NEW n \in D
      PROVE  h[n] = f[n]
  <2> DEFINE g == CHOOSE f2 : \E D2 \in G : n \in D2 /\ Cleans(f2, leaf, cmd, D2)
  <2>1. \E D2 \in G : n \in D2 /\ Cleans(g, leaf, cmd, D2)
    BY <1>1
  <2>2. PICK D2 \in G : n \in D2 /\ Cleans(g, leaf, cmd, D2)
    BY <2>1
  <2>3. f[n] = g[n]
    BY <2>2, <1>1, Agreeing
  <2>4. h[n] = g[n]
    BY <1>1
  <2> QED
    BY <2>3, <2>4
<1>2. Closed(U) /\ U \subseteq Node
  BY DEF Closed
<1>3. \A n \in U : h[n] = Make(n)
  <2> SUFFICES ASSUME NEW n \in U PROVE h[n] = Make(n)
    OBVIOUS
  <2>1. PICK D \in G : n \in D
    OBVIOUS
  <2>2. PICK f : Cleans(f, leaf, cmd, D)
    BY <2>1
  <2>3. h[n] = f[n]
    BY <2>1, <2>2, <1>1
  <2>4. CASE n \in Source
    BY <2>1, <2>2, <2>3, <2>4 DEF Cleans
  <2>5. CASE n \notin Source
    <3>1. kids[n] \subseteq D
      BY <2>1, <2>5 DEF Closed, Node
    <3>2. \A k \in kids[n] : h[k] = f[k]
      BY <3>1, <2>2, <1>1
    <3>3. [k \in kids[n] |-> h[k]] = [k \in kids[n] |-> f[k]]
      BY <3>2
    <3> QED
      BY <3>3, <2>1, <2>2, <2>3, <2>5 DEF Cleans
  <2> QED
    BY <2>4, <2>5
<1>4. U = Node
  <2> SUFFICES ASSUME Node \ U # {} PROVE FALSE
    BY <1>2
  <2>1. PICK m \in Node \ U : m \in Target => kids[m] \cap (Node \ U) = {}
    BY Minimal
  <2> DEFINE E == U \cup {m}
             e == [n \in E |-> IF n \in U THEN h[n] ELSE Make(m)]
  <2>2. m \in Target => kids[m] \subseteq U
    BY <2>1, FilesAssumption
  <2>3. Closed(E) /\ E \in SUBSET Node
    BY <2>2, <1>2 DEF Closed
  <2>4. \A n \in E : e[n] = Make(n)
    BY <1>3
  <2>5. \A n \in E : n \notin Source =>
          [k \in kids[n] |-> e[k]] = [k \in kids[n] |-> h[k]]
    <3> SUFFICES ASSUME NEW n \in E, n \notin Source
                 PROVE  [k \in kids[n] |-> e[k]] = [k \in kids[n] |-> h[k]]
      OBVIOUS
    <3>1. n \in Target
      BY <2>3 DEF Node
    <3>2. kids[n] \subseteq U
      BY <3>1, <2>2, <1>2 DEF Closed
    <3>3. \A k \in kids[n] : e[k] = h[k]
      BY <3>2
    <3> HIDE DEF e, h
    <3> QED
      BY <3>3
  <2>6. Cleans(e, leaf, cmd, E)
    <3>1. \A n \in E : Make(n) = IF n \in Source THEN leaf[n]
                                 ELSE Contents(n, cmd[n], [k \in kids[n] |-> e[k]])
      BY <2>5
    <3> QED
      BY <2>4, <3>1 DEF Cleans
  <2>7. E \in G
    BY <2>3, <2>6
  <2> QED
    BY <2>7
<1>5. h = [n \in U |-> h[n]]
  OBVIOUS
<1> HIDE DEF h
<1>6. h = [n \in Node |-> Make(n)]
  BY <1>3, <1>4, <1>5
<1>7. Cleans(h, leaf, cmd, Node)
  BY <1>6 DEF Cleans
<1> QED
  BY <1>7

\* What a clean build makes of each file
LEMMA CleanOfFiles ==
  ASSUME NEW leaf, NEW cmd
  PROVE  /\ Cleans(CleanOf(leaf, cmd), leaf, cmd, Node)
         /\ \A s \in Source : CleanOf(leaf, cmd)[s] = leaf[s]
         /\ \A t \in Target : CleanOf(leaf, cmd)[t] =
              Contents(t, cmd[t], [k \in kids[t] |-> CleanOf(leaf, cmd)[k]])
<1>1. Cleans(CleanOf(leaf, cmd), leaf, cmd, Node)
  BY CleanExists DEF CleanOf
<1>2. \A t \in Target : t \notin Source
  BY FilesAssumption
<1> HIDE DEF CleanOf
<1> QED
  BY <1>1, <1>2 DEF Cleans, Node

\* Files that are each what their command makes of the others are clean
LEMMA CleanIsUnique ==
  ASSUME NEW leaf, NEW cmd, NEW f, Cleans(f, leaf, cmd, Node)
  PROVE  f = CleanOf(leaf, cmd)
<1> DEFINE g == CleanOf(leaf, cmd)
<1>1. Cleans(g, leaf, cmd, Node)
  BY CleanOfFiles
<1>2. Closed(Node)
  BY FilesAssumption DEF Closed
<1> HIDE DEF g
<1>3. \A n \in Node : f[n] = g[n]
  BY <1>1, <1>2, Agreeing
<1> QED
  BY <1>1, <1>3 DEF Cleans, g

LEMMA CleanIsCleanOf == Clean = CleanOf(disk, command)
<1>1. \E f : Cleans(f, disk, command, Node)
  BY CleanExists
<1>2. Cleans(Clean, disk, command, Node)
  BY <1>1 DEF Clean, Cleans
<1> QED
  BY <1>2, CleanIsUnique

-----------------------------------------------------------------------------
(* Contents grow: a is b made of older versions.                             *)

Shape(c, n) ==
  /\ c = Contents(n, c.version, c.from)
  /\ c.version \in Nat \ {0}
  /\ c.from = IF n \in Source THEN <<>> ELSE [k \in kids[n] |-> c.from[k]]

\* S relates contents of the same files, version by version
Descends(S) ==
  \A p \in S : \E n \in Node :
    /\ Shape(p[1], n) /\ Shape(p[2], n)
    /\ p[1].version <= p[2].version
    /\ n \in Target => \A k \in kids[n] :
         p[1].from[k].of = k /\ <<p[1].from[k], p[2].from[k]>> \in S

Older(a, b) == \E S : Descends(S) /\ <<a, b>> \in S

LEMMA ShapeOf ==
  ASSUME NEW c, NEW n, Shape(c, n)
  PROVE  c.of = n /\ c.version \in Nat \ {0}
BY DEF Shape, Contents

LEMMA OlderParts ==
  ASSUME NEW a, NEW b, Older(a, b)
  PROVE  /\ a.of \in Node /\ a.of = b.of
         /\ Shape(a, a.of) /\ Shape(b, a.of) /\ a.version <= b.version
         /\ a.of \in Target => \A k \in kids[a.of] :
              a.from[k].of = k /\ Older(a.from[k], b.from[k])
<1>1. PICK S : Descends(S) /\ <<a, b>> \in S
  BY DEF Older
<1>2. PICK n \in Node :
        /\ Shape(a, n) /\ Shape(b, n) /\ a.version <= b.version
        /\ n \in Target => \A k \in kids[n] :
             a.from[k].of = k /\ <<a.from[k], b.from[k]>> \in S
  BY <1>1 DEF Descends
<1>3. a.of = n /\ b.of = n
  BY <1>2 DEF Shape, Contents
<1> QED
  BY <1>1, <1>2, <1>3 DEF Older

LEMMA OlderVersion ==
  ASSUME NEW s \in Source, NEW v \in Nat \ {0}, NEW w \in Nat \ {0}, v <= w
  PROVE  Older(Version(s, v), Version(s, w))
<1> DEFINE S == {<<Version(s, v), Version(s, w)>>}
<1>1. s \in Node /\ s \notin Target
  BY FilesAssumption DEF Node
<1>2. Shape(Version(s, v), s) /\ Shape(Version(s, w), s)
  BY DEF Shape, Version, Contents
<1>3. Version(s, v).version <= Version(s, w).version
  BY DEF Version, Contents
<1>4. Descends(S)
  BY <1>1, <1>2, <1>3 DEF Descends
<1> QED
  BY <1>4 DEF Older

LEMMA OlderMake ==
  ASSUME NEW t \in Target, NEW v \in Nat \ {0}, NEW w \in Nat \ {0}, v <= w,
         NEW f, NEW g, \A k \in kids[t] : f[k].of = k /\ Older(f[k], g[k])
  PROVE  Older(Contents(t, v, [k \in kids[t] |-> f[k]]),
               Contents(t, w, [k \in kids[t] |-> g[k]]))
<1> DEFINE a == Contents(t, v, [k \in kids[t] |-> f[k]])
           b == Contents(t, w, [k \in kids[t] |-> g[k]])
           Sub(k) == CHOOSE S : Descends(S) /\ <<f[k], g[k]>> \in S
           S == (UNION {Sub(k) : k \in kids[t]}) \cup {<<a, b>>}
<1>1. \A k \in kids[t] : Descends(Sub(k)) /\ <<f[k], g[k]>> \in Sub(k)
  BY DEF Older
<1>2. t \in Node /\ t \notin Source
  BY FilesAssumption DEF Node
<1>3. /\ a.of = t /\ a.version = v /\ a.from = [k \in kids[t] |-> f[k]]
      /\ b.of = t /\ b.version = w /\ b.from = [k \in kids[t] |-> g[k]]
      /\ a = Contents(t, a.version, a.from) /\ b = Contents(t, b.version, b.from)
  BY DEF Contents
<1>4. \A k \in kids[t] : a.from[k] = f[k] /\ b.from[k] = g[k]
  BY <1>3
<1> HIDE DEF a, b, Sub
<1>5. Shape(a, t) /\ Shape(b, t)
  <2>1. a.from = [k \in kids[t] |-> a.from[k]] /\ b.from = [k \in kids[t] |-> b.from[k]]
    BY <1>3, <1>4
  <2> QED
    BY <1>2, <1>3, <2>1 DEF Shape
<1>6. \A k \in kids[t] : a.from[k].of = k /\ <<a.from[k], b.from[k]>> \in S
  BY <1>1, <1>4
<1>7. \E n \in Node :
        /\ Shape(a, n) /\ Shape(b, n) /\ a.version <= b.version
        /\ n \in Target => \A k \in kids[n] :
             a.from[k].of = k /\ <<a.from[k], b.from[k]>> \in S
  BY <1>2, <1>3, <1>5, <1>6
<1>8. ASSUME NEW k \in kids[t], NEW p \in Sub(k)
      PROVE  \E n \in Node :
               /\ Shape(p[1], n) /\ Shape(p[2], n) /\ p[1].version <= p[2].version
               /\ n \in Target => \A j \in kids[n] :
                    p[1].from[j].of = j /\ <<p[1].from[j], p[2].from[j]>> \in S
  <2>1. Sub(k) \subseteq S /\ Descends(Sub(k))
    BY <1>1
  <2> HIDE DEF S
  <2> QED
    BY <2>1, <1>8 DEF Descends
<1>9. Descends(S)
  <2> SUFFICES ASSUME NEW p \in S
               PROVE  \E n \in Node :
                 /\ Shape(p[1], n) /\ Shape(p[2], n) /\ p[1].version <= p[2].version
                 /\ n \in Target => \A k \in kids[n] :
                      p[1].from[k].of = k /\ <<p[1].from[k], p[2].from[k]>> \in S
    BY DEF Descends
  <2>1. CASE p = <<a, b>>
    BY <2>1, <1>7
  <2>2. CASE p # <<a, b>>
    <3>1. PICK k \in kids[t] : p \in Sub(k)
      BY <2>2
    <3> QED
      BY <3>1, <1>8
  <2> QED
    BY <2>1, <2>2
<1>10. <<a, b>> \in S
  OBVIOUS
<1>11. Older(a, b)
  BY <1>9, <1>10 DEF Older
<1> QED
  BY <1>11 DEF a, b

LEMMA OlderSelf ==
  ASSUME NEW a, NEW b, Older(a, b)
  PROVE  Older(a, a) /\ Older(b, b)
<1>1. PICK S : Descends(S) /\ <<a, b>> \in S
  BY DEF Older
<1> DEFINE A == {<<p[1], p[1]>> : p \in S}
           B == {<<p[2], p[2]>> : p \in S}
<1>2. ASSUME NEW p \in S
      PROVE  \E n \in Node :
        /\ Shape(p[1], n) /\ Shape(p[2], n)
        /\ p[1].version \in Nat \ {0} /\ p[2].version \in Nat \ {0}
        /\ n \in Target => \A k \in kids[n] :
             /\ p[1].from[k].of = k /\ p[2].from[k].of = k
             /\ <<p[1].from[k], p[1].from[k]>> \in A
             /\ <<p[2].from[k], p[2].from[k]>> \in B
  <2>1. PICK n \in Node :
          /\ Shape(p[1], n) /\ Shape(p[2], n)
          /\ n \in Target => \A k \in kids[n] :
               p[1].from[k].of = k /\ <<p[1].from[k], p[2].from[k]>> \in S
    BY <1>1 DEF Descends
  <2>2. ASSUME n \in Target, NEW k \in kids[n]
        PROVE  /\ p[1].from[k].of = k /\ p[2].from[k].of = k
               /\ <<p[1].from[k], p[1].from[k]>> \in A
               /\ <<p[2].from[k], p[2].from[k]>> \in B
    <3> DEFINE q == <<p[1].from[k], p[2].from[k]>>
    <3>1. q \in S /\ q[1].of = k
      BY <2>1, <2>2
    <3>2. PICK m \in Node : Shape(q[1], m) /\ Shape(q[2], m)
      BY <3>1, <1>1 DEF Descends
    <3>3. q[1].of = q[2].of
      BY <3>2, ShapeOf
    <3> QED
      BY <3>1, <3>3
  <2> QED
    BY <2>1, <2>2, ShapeOf
<1>3. Descends(A)
  <2> SUFFICES ASSUME NEW p \in S
               PROVE  \E n \in Node :
                 /\ Shape(p[1], n) /\ p[1].version <= p[1].version
                 /\ n \in Target => \A k \in kids[n] :
                      p[1].from[k].of = k /\ <<p[1].from[k], p[1].from[k]>> \in A
    BY DEF Descends
  <2> HIDE DEF A, B
  <2>1. \E n \in Node :
          /\ Shape(p[1], n) /\ p[1].version \in Nat
          /\ n \in Target => \A k \in kids[n] :
               p[1].from[k].of = k /\ <<p[1].from[k], p[1].from[k]>> \in A
    BY <1>2
  <2>2. p[1].version \in Nat => p[1].version <= p[1].version
    OBVIOUS
  <2> QED
    BY <2>1, <2>2
<1>4. Descends(B)
  <2> SUFFICES ASSUME NEW p \in S
               PROVE  \E n \in Node :
                 /\ Shape(p[2], n) /\ p[2].version <= p[2].version
                 /\ n \in Target => \A k \in kids[n] :
                      p[2].from[k].of = k /\ <<p[2].from[k], p[2].from[k]>> \in B
    BY DEF Descends
  <2> HIDE DEF A, B
  <2>1. \E n \in Node :
          /\ Shape(p[2], n) /\ p[2].version \in Nat
          /\ n \in Target => \A k \in kids[n] :
               p[2].from[k].of = k /\ <<p[2].from[k], p[2].from[k]>> \in B
    BY <1>2
  <2>2. p[2].version \in Nat => p[2].version <= p[2].version
    OBVIOUS
  <2> QED
    BY <2>1, <2>2
<1>5. <<a, a>> \in A /\ <<b, b>> \in B
  BY <1>1
<1> QED
  BY <1>3, <1>4, <1>5 DEF Older

LEMMA OlderTransitive ==
  ASSUME NEW a, NEW b, NEW c, Older(a, b), Older(b, c)
  PROVE  Older(a, c)
<1>1. PICK S : Descends(S) /\ <<a, b>> \in S
  BY DEF Older
<1>2. PICK T : Descends(T) /\ <<b, c>> \in T
  BY DEF Older
<1> DEFINE U == {<<r[1][1], r[2][2]>> : r \in {x \in S \X T : x[1][2] = x[2][1]}}
<1>3. ASSUME NEW p \in S, NEW q \in T, p[2] = q[1]
      PROVE  \E n \in Node :
        /\ Shape(p[1], n) /\ Shape(q[2], n) /\ p[1].version <= q[2].version
        /\ n \in Target => \A k \in kids[n] :
             p[1].from[k].of = k /\ <<p[1].from[k], q[2].from[k]>> \in U
  <2>1. PICK n \in Node :
          /\ Shape(p[1], n) /\ Shape(p[2], n) /\ p[1].version <= p[2].version
          /\ n \in Target => \A k \in kids[n] :
               p[1].from[k].of = k /\ <<p[1].from[k], p[2].from[k]>> \in S
    BY <1>1 DEF Descends
  <2>2. PICK m \in Node :
          /\ Shape(q[1], m) /\ Shape(q[2], m) /\ q[1].version <= q[2].version
          /\ m \in Target => \A k \in kids[m] : <<q[1].from[k], q[2].from[k]>> \in T
    BY <1>2 DEF Descends
  <2>3. m = n
    BY <2>1, <2>2, <1>3 DEF Shape, Contents
  <2>4. p[1].version <= q[2].version
    BY <2>1, <2>2, <1>3 DEF Shape
  <2>5. ASSUME n \in Target, NEW k \in kids[n]
        PROVE  <<p[1].from[k], q[2].from[k]>> \in U
    <3> DEFINE x == << <<p[1].from[k], p[2].from[k]>>, <<q[1].from[k], q[2].from[k]>> >>
    <3>1. x \in S \X T /\ x[1][2] = x[2][1]
      BY <2>1, <2>2, <2>3, <2>5, <1>3
    <3> QED
      BY <3>1
  <2> QED
    BY <2>1, <2>2, <2>3, <2>4, <2>5
<1>4. Descends(U)
  <2> SUFFICES ASSUME NEW r \in U
               PROVE  \E n \in Node :
                 /\ Shape(r[1], n) /\ Shape(r[2], n) /\ r[1].version <= r[2].version
                 /\ n \in Target => \A k \in kids[n] :
                      r[1].from[k].of = k /\ <<r[1].from[k], r[2].from[k]>> \in U
    BY DEF Descends
  <2>1. PICK p \in S, q \in T : p[2] = q[1] /\ r = <<p[1], q[2]>>
    OBVIOUS
  <2> HIDE DEF U
  <2> QED
    BY <2>1, <1>3
<1>5. <<a, c>> \in U
  <2>1. << <<a, b>>, <<b, c>> >> \in {x \in S \X T : x[1][2] = x[2][1]}
    BY <1>1, <1>2
  <2> QED
    BY <2>1
<1> QED
  BY <1>4, <1>5 DEF Older

LEMMA OlderBothWays ==
  ASSUME NEW a, NEW b, Older(a, b), Older(b, a)
  PROVE  a = b
<1> DEFINE Twice(n) == \E x, y : x.of = n /\ Older(x, y) /\ Older(y, x) /\ x # y
           S == {n \in Node : Twice(n)}
<1>1. S = {}
  <2> SUFFICES ASSUME S # {} PROVE FALSE
    OBVIOUS
  <2>1. PICK m \in S : m \in Target => kids[m] \cap S = {}
    BY Minimal
  <2>2. PICK x, y : x.of = m /\ Older(x, y) /\ Older(y, x) /\ x # y
    OBVIOUS
  <2>3. /\ Shape(x, m) /\ Shape(y, m) /\ x.version = y.version
        /\ m \in Target => \A k \in kids[m] :
             x.from[k].of = k /\ Older(x.from[k], y.from[k]) /\ Older(y.from[k], x.from[k])
    <3>1. y.of = m
      BY <2>2, OlderParts
    <3>2. /\ Shape(x, m) /\ Shape(y, m) /\ x.version <= y.version
          /\ m \in Target => \A k \in kids[m] :
               x.from[k].of = k /\ Older(x.from[k], y.from[k])
      BY <2>2, OlderParts
    <3>3. /\ y.version <= x.version
          /\ m \in Target => \A k \in kids[m] : Older(y.from[k], x.from[k])
      BY <2>2, <3>1, OlderParts
    <3>4. x.version \in Nat /\ y.version \in Nat
      BY <3>2, ShapeOf
    <3> QED
      BY <3>2, <3>3, <3>4
  <2>4. CASE m \in Source
    BY <2>2, <2>3, <2>4 DEF Shape
  <2>5. CASE m \notin Source
    <3>1. m \in Target
      BY <2>5 DEF Node
    <3>2. \A k \in kids[m] : k \in Node /\ k \notin S
      BY <3>1, <2>1, FilesAssumption
    <3>3. \A k \in kids[m] : x.from[k] = y.from[k]
      BY <3>1, <3>2, <2>3
    <3>4. x.from = y.from
      BY <3>3, <2>3, <2>5 DEF Shape
    <3> QED
      BY <3>4, <2>2, <2>3 DEF Shape
  <2> QED
    BY <2>4, <2>5
<1>2. a.of \in Node
  BY OlderParts
<1> QED
  BY <1>1, <1>2

\* Versions of sources
Leaves(leaf) ==
  \A s \in Source :
    leaf[s] = Version(s, leaf[s].version) /\ leaf[s].version \in Nat \ {0}

\* A clean build makes newer files of newer ones
LEMMA CleanGrows ==
  ASSUME NEW leaf, NEW cmd, NEW leaf2, NEW cmd2, Leaves(leaf), Leaves(leaf2),
         cmd \in [Target -> Nat \ {0}], cmd2 \in [Target -> Nat \ {0}],
         \A s \in Source : leaf[s].version <= leaf2[s].version,
         \A t \in Target : cmd[t] <= cmd2[t],
         NEW n \in Node
  PROVE  /\ CleanOf(leaf, cmd)[n].of = n
         /\ Older(CleanOf(leaf, cmd)[n], CleanOf(leaf2, cmd2)[n])
<1> DEFINE f == CleanOf(leaf, cmd)
           g == CleanOf(leaf2, cmd2)
           Good(m) == f[m].of = m /\ Older(f[m], g[m])
           S == {m \in Node : ~Good(m)}
<1>1. /\ \A s \in Source : f[s] = leaf[s] /\ g[s] = leaf2[s]
      /\ \A t \in Target : /\ f[t] = Contents(t, cmd[t], [k \in kids[t] |-> f[k]])
                           /\ g[t] = Contents(t, cmd2[t], [k \in kids[t] |-> g[k]])
  BY CleanOfFiles
<1> HIDE DEF f, g
<1>2. S = {}
  <2> SUFFICES ASSUME S # {} PROVE FALSE
    OBVIOUS
  <2>1. PICK m \in S : m \in Target => kids[m] \cap S = {}
    BY Minimal
  <2>2. CASE m \in Source
    <3>1. Older(Version(m, leaf[m].version), Version(m, leaf2[m].version))
      BY <2>2, OlderVersion DEF Leaves
    <3>2. f[m] = Version(m, leaf[m].version) /\ g[m] = Version(m, leaf2[m].version)
      BY <2>2, <1>1 DEF Leaves
    <3> QED
      BY <3>1, <3>2 DEF Version, Contents
  <2>3. CASE m \notin Source
    <3>1. m \in Target
      BY <2>3 DEF Node
    <3>2. \A k \in kids[m] : f[k].of = k /\ Older(f[k], g[k])
      BY <3>1, <2>1, FilesAssumption
    <3>3. cmd[m] \in Nat \ {0} /\ cmd2[m] \in Nat \ {0} /\ cmd[m] <= cmd2[m]
      BY <3>1
    <3>4. Older(Contents(m, cmd[m], [k \in kids[m] |-> f[k]]),
                Contents(m, cmd2[m], [k \in kids[m] |-> g[k]]))
      BY <3>1, <3>2, <3>3, OlderMake
    <3>5. f[m] = Contents(m, cmd[m], [k \in kids[m] |-> f[k]])
      BY <3>1, <1>1
    <3>6. f[m].of = m
      BY <3>5 DEF Contents
    <3> QED
      BY <3>1, <3>4, <3>6, <1>1
  <2> QED
    BY <2>2, <2>3
<1> QED
  BY <1>2 DEF f, g

-----------------------------------------------------------------------------
(* What a build knows, in every mode                                         *)

Domains ==
  /\ DOMAIN disk = Node /\ csig = [n \in Node |-> csig[n]]
  /\ DOMAIN db = Target /\ DOMAIN entries = Target
  /\ at \in [Target -> Known]

Named == \A n \in Node : disk[n] = Missing \/ disk[n].of = n

\* Sources and commands have a version
Versions ==
  /\ \A s \in Source :
       disk[s].version \in 1 .. MaxVersion /\ disk[s] = Version(s, disk[s].version)
  /\ command \in [Target -> 1 .. MaxVersion]

\* The database is missing when it is being renamed, and never in a build
Phases ==
  /\ mode \in Modes
  /\ pc \in {"idle", "building", "stopping", "renaming"}
  /\ pc \in {"building", "stopping"} => db # NoFile
  /\ pc = "renaming" => db = NoFile
  /\ calm \in BOOLEAN /\ settled \in BOOLEAN

Counters == edits \in 0 .. MaxEdits /\ trouble \in 0 .. MaxTrouble

CacheFilled ==
  /\ \A c \in cache : c.contents.version \in Nat \ {0} /\ c.contents.of = c.key.of
  /\ ~mode.cached => cache = {}

\* A target's signature is that of its file, and taken once its task has ended
SignaturesTaken ==
  pc # "idle" =>
    /\ \A s \in Source : csig[s] # Unknown =>
         csig[s].version \in Nat \ {0} /\ csig[s] = Version(s, csig[s].version)
    /\ \A t \in Target : csig[t] # Unknown => at[t] \in Ended /\ csig[t] = disk[t]
    /\ \A t \in Target : at[t] # "waiting" => \A k \in kids[t] : csig[k] # Unknown

\* Where no source was edited, nor is that of a source stale
CalmSignatures ==
  pc # "idle" /\ calm => \A n \in Node : csig[n] # Unknown => csig[n] = disk[n]

\* What is stored of a target whose task has ended is what its task saw
EndedStored ==
  pc # "idle" => \A t \in Target :
    /\ at[t] \in Ended => entries[t] = Result(t, csig)
    /\ at[t] \in {"written", "built"} => disk[t].version \in Nat \ {0}
    /\ at[t] = "current" => disk[t] # Missing

\* After a good build what is stored is what the next build will see
SettledStored ==
  settled => \A t \in Target :
    /\ disk[t] # Missing
    /\ pc = "idle" => db[t] = Result(t, disk)
    /\ pc # "idle" =>
         /\ entries[t] = Result(t, disk)
         /\ calm /\ pc # "stopping" /\ at[t] \in {"waiting", "current"}

KnownInv ==
  Domains /\ Named /\ Versions /\ Phases /\ Counters /\ CacheFilled
    /\ SignaturesTaken /\ CalmSignatures /\ EndedStored /\ SettledStored

LEMMA NoContents ==
  Missing.version = 0 /\ Unknown.version = 0 /\ Missing # Unknown
BY DEF Missing, Unknown, Contents

LEMMA ResultParts ==
  ASSUME NEW t, NEW F
  PROVE  /\ Result(t, F).of = t /\ Result(t, F).version = command[t]
         /\ Result(t, F).from = [k \in kids[t] |-> F[k]]
BY DEF Result, Contents

\* What a command makes depends on its kids
LEMMA SameKids ==
  ASSUME NEW t, NEW v, NEW F, NEW G, \A k \in kids[t] : F[k] = G[k]
  PROVE  Contents(t, v, [k \in kids[t] |-> F[k]]) = Contents(t, v, [k \in kids[t] |-> G[k]])
<1>1. [k \in kids[t] |-> F[k]] = [k \in kids[t] |-> G[k]]
  OBVIOUS
<1> QED
  BY <1>1

LEMMA KnownInit == Init => KnownInv
<1> SUFFICES ASSUME Init PROVE KnownInv
  OBVIOUS
<1> USE FilesAssumption, BoundAssumption
<1>1. \A s \in Source : disk[s] = Version(s, 1) /\ disk[s].version = 1
  BY DEF Init, Version, Contents, Node
<1>2. Versions
  BY <1>1 DEF Init, Versions
<1>3. Domains /\ CacheFilled
  BY DEF Init, Domains, CacheFilled, Nothing, NoFile, Known
<1>4. Phases
  BY DEF Init, Phases
<1>5. Counters
  BY DEF Init, Counters
<1>6. Named
  BY <1>1 DEF Init, Named, Node, Version, Contents
<1> QED
  BY <1>2, <1>3, <1>4, <1>5, <1>6
     DEF Init, KnownInv, SignaturesTaken, CalmSignatures, EndedStored, SettledStored

LEMMA KnownUser ==
  ASSUME KnownInv, User
  PROVE  KnownInv'
<1> USE FilesAssumption, BoundAssumption, NoContents
<1>1. ASSUME NEW s \in Source, NEW v \in 1 .. MaxVersion, Edit(s, v)
      PROVE  KnownInv'
  <2>1. /\ disk' = [disk EXCEPT ![s] = Version(s, v)] /\ calm' = FALSE /\ settled' = FALSE
        /\ UNCHANGED <<mode, command, db, cache, pc, entries, csig, at, trouble>>
        /\ edits' = edits + 1 /\ edits < MaxEdits
    BY <1>1 DEF Edit, buildVars
  <2>2. Domains' /\ Phases' /\ Counters' /\ CacheFilled'
    <3>1. Domains'
      BY <2>1 DEF KnownInv, Domains
    <3>2. Phases' /\ CacheFilled'
      BY <2>1 DEF KnownInv, Phases, CacheFilled
    <3>3. Counters'
      BY <2>1 DEF KnownInv, Counters
    <3> QED
      BY <3>1, <3>2, <3>3
  <2>3. s \in Node /\ \A t \in Target : disk'[t] = disk[t]
    BY <2>1 DEF Node, KnownInv, Domains
  <2>4. Versions'
    <3>1. disk'[s] = Version(s, v) /\ disk'[s].version = v
      BY <2>1, <2>3 DEF KnownInv, Domains, Version, Contents
    <3>2. \A r \in Source \ {s} : disk'[r] = disk[r]
      BY <2>1 DEF KnownInv, Domains
    <3> QED
      BY <2>1, <3>1, <3>2 DEF KnownInv, Versions
  <2>5. SignaturesTaken'
    BY <2>1, <2>3 DEF KnownInv, SignaturesTaken
  <2>7. Named'
    BY <2>1 DEF KnownInv, Domains, Named, Version, Contents
  <2>6. EndedStored'
    BY <2>1, <2>3 DEF KnownInv, EndedStored, Result
  <2> QED
    BY <2>1, <2>2, <2>4, <2>5, <2>6, <2>7 DEF KnownInv, CalmSignatures, SettledStored
<1>2. ASSUME NEW t \in Target, NEW v \in 1 .. MaxVersion, EditCommand(t, v)
      PROVE  KnownInv'
  <2>1. /\ command' = [command EXCEPT ![t] = v] /\ settled' = FALSE /\ pc = "idle"
        /\ UNCHANGED <<mode, disk, db, cache, pc, entries, csig, at, calm, trouble>>
        /\ edits' = edits + 1 /\ edits < MaxEdits
    BY <1>2 DEF EditCommand, buildVars
  <2>2. Domains' /\ Versions' /\ Phases' /\ Counters' /\ CacheFilled'
    <3>1. Domains'
      BY <2>1 DEF KnownInv, Domains
    <3>2. Phases' /\ CacheFilled'
      BY <2>1 DEF KnownInv, Phases, CacheFilled
    <3>3. Counters'
      BY <2>1 DEF KnownInv, Counters
    <3>4. Versions'
      BY <2>1 DEF KnownInv, Versions
    <3> QED
      BY <3>1, <3>2, <3>3, <3>4
  <2> QED
    BY <2>1, <2>2 DEF KnownInv, Named, SignaturesTaken, CalmSignatures, EndedStored, SettledStored
<1>3. ASSUME NEW t \in Target, Remove(t)
      PROVE  KnownInv'
  <2>1. /\ disk' = [disk EXCEPT ![t] = Missing] /\ settled' = FALSE /\ pc = "idle"
        /\ UNCHANGED <<mode, command, db, cache, pc, entries, csig, at, calm, trouble>>
        /\ edits' = edits + 1 /\ edits < MaxEdits
    BY <1>3 DEF Remove, buildVars
  <2>2. \A s \in Source : disk'[s] = disk[s]
    BY <2>1 DEF KnownInv, Domains
  <2>3. Domains' /\ Phases' /\ Counters' /\ CacheFilled'
    <3>1. Domains'
      BY <2>1 DEF KnownInv, Domains
    <3>2. Phases' /\ CacheFilled'
      BY <2>1 DEF KnownInv, Phases, CacheFilled
    <3>3. Counters'
      BY <2>1 DEF KnownInv, Counters
    <3> QED
      BY <3>1, <3>2, <3>3
  <2>4. Versions'
    BY <2>1, <2>2 DEF KnownInv, Versions
  <2>5. Named'
    BY <2>1 DEF KnownInv, Domains, Named
  <2> QED
    BY <2>1, <2>3, <2>4, <2>5
       DEF KnownInv, SignaturesTaken, CalmSignatures, EndedStored, SettledStored
<1> QED
  BY <1>1, <1>2, <1>3 DEF User

\* Starting, and what does not touch a task
LEMMA KnownFrame ==
  ASSUME KnownInv, Start \/ Unlink \/ Rename \/ Interrupt \/ Kill \/ UNCHANGED vars
  PROVE  KnownInv'
<1> USE FilesAssumption, BoundAssumption, NoContents
<1>1. CASE Start
  <2>1. /\ pc = "idle" /\ pc' = "building" /\ db' = Opened /\ entries' = db'
        /\ csig' = [n \in Node |-> Unknown] /\ at' = Fresh /\ calm' = TRUE
        /\ UNCHANGED <<mode, disk, command, cache, settled, edits, trouble>>
    BY <1>1 DEF Start
  <2>2. at' \in [Target -> {"waiting"}] /\ at' \in [Target -> Known]
    BY <2>1 DEF Fresh, Known
  <2>3. \A n \in Node : csig'[n] = Unknown
    BY <2>1
  <2>4. DOMAIN db' = Target /\ db' # NoFile
    <3>1. Nothing # NoFile
      <4>1. PICK t \in Target : TRUE
        OBVIOUS
      <4>2. Nothing[t] = Unknown /\ NoFile[t] = Missing
        BY DEF Nothing, NoFile
      <4> QED
        BY <4>2
    <3> QED
      BY <2>1, <3>1 DEF KnownInv, Domains, Opened, Nothing
  <2>5. Domains' /\ Named' /\ Versions' /\ Phases' /\ Counters' /\ CacheFilled'
    BY <2>1, <2>2, <2>4 DEF KnownInv, Domains, Named, Versions, Phases, Counters, CacheFilled
  <2>6. ASSUME settled
        PROVE  db' = db /\ \A t \in Target : disk[t] # Missing /\ db[t] = Result(t, disk)
    <3>1. \A t \in Target : disk[t] # Missing /\ db[t] = Result(t, disk)
      BY <2>1, <2>6 DEF KnownInv, SettledStored
    <3>2. PICK t \in Target : TRUE
      OBVIOUS
    <3>3. db[t].version = command[t] /\ command[t] # 0
      <4>1. Result(t, disk).version = command[t]
        BY ResultParts
      <4>2. command[t] \in 1 .. MaxVersion
        BY DEF KnownInv, Versions
      <4> QED
        BY <3>1, <4>1, <4>2
    <3>4. db[t] # Missing
      BY <3>3
    <3>5. db # NoFile
      BY <3>4 DEF NoFile
    <3> QED
      BY <3>1, <3>5, <2>1 DEF Opened
  <2>7. SettledStored'
    <3>1. \A t \in Target : Result(t, disk)' = Result(t, disk)
      BY <2>1 DEF Result
    <3> QED
      BY <2>1, <2>2, <2>6, <3>1 DEF SettledStored
  <2>8. SignaturesTaken' /\ CalmSignatures' /\ EndedStored'
    BY <2>1, <2>2, <2>3 DEF SignaturesTaken, CalmSignatures, EndedStored, Node, Ended
  <2> QED
    BY <2>5, <2>7, <2>8 DEF KnownInv
<1>2. CASE Unlink
  <2>1. /\ pc # "idle" /\ db' = NoFile /\ pc' = "renaming"
        /\ UNCHANGED <<mode, disk, command, cache, entries, csig, at, calm, settled,
                       edits, trouble>>
    BY <1>2 DEF Unlink, Building
  <2>2. Domains' /\ Named' /\ Versions' /\ Phases' /\ Counters' /\ CacheFilled'
    <3>1. DOMAIN NoFile = Target
      BY DEF NoFile
    <3> QED
      BY <2>1, <3>1 DEF KnownInv, Domains, Named, Versions, Phases, Counters, CacheFilled
  <2>3. \A t \in Target : Result(t, disk)' = Result(t, disk) /\ Result(t, csig)' = Result(t, csig)
    BY <2>1 DEF Result
  <2> QED
    BY <2>1, <2>2, <2>3
       DEF KnownInv, SignaturesTaken, CalmSignatures, EndedStored, SettledStored
<1>3. CASE Rename
  <2>1. /\ pc = "renaming" /\ db' = entries /\ pc' = "idle"
        /\ settled' = (calm /\ \A t \in Target : at[t] \in Ended)
        /\ UNCHANGED <<mode, disk, command, cache, entries, csig, at, calm, edits, trouble>>
    BY <1>3 DEF Rename
  <2>2. Domains' /\ Named' /\ Versions' /\ Counters' /\ CacheFilled'
    BY <2>1 DEF KnownInv, Domains, Named, Versions, Counters, CacheFilled
  <2>3. Phases'
    BY <2>1 DEF KnownInv, Phases
  <2>4. ASSUME settled', NEW t \in Target
        PROVE  disk[t] # Missing /\ entries[t] = Result(t, disk)
    <3>1. calm /\ at[t] \in Ended /\ at[t] # "waiting"
      BY <2>1, <2>4 DEF Ended
    <3>2. \A k \in kids[t] : csig[k] # Unknown
      BY <3>1, <2>1 DEF KnownInv, SignaturesTaken
    <3>3. \A k \in kids[t] : csig[k] = disk[k]
      BY <3>1, <3>2, <2>1 DEF KnownInv, CalmSignatures
    <3>4. Result(t, csig) = Result(t, disk)
      BY <3>3, SameKids DEF Result
    <3>5. disk[t] # Missing /\ entries[t] = Result(t, csig)
      BY <3>1, <2>1 DEF KnownInv, EndedStored, Ended
    <3> QED
      BY <3>4, <3>5
  <2>5. SettledStored'
    <3>1. \A t \in Target : Result(t, disk)' = Result(t, disk)
      BY <2>1 DEF Result
    <3> QED
      BY <2>1, <2>4, <3>1 DEF SettledStored
  <2> QED
    BY <2>1, <2>2, <2>3, <2>5 DEF KnownInv, SignaturesTaken, CalmSignatures, EndedStored
<1>4. CASE Interrupt \/ Kill
  <2>1. /\ pc' \in {"idle", "stopping"} /\ pc # "idle" /\ settled' = FALSE
        /\ pc' = "stopping" => pc = "building"
        /\ UNCHANGED <<mode, disk, command, db, cache, entries, csig, at, calm, edits>>
        /\ trouble' = trouble + 1 /\ trouble < MaxTrouble
    BY <1>4 DEF Interrupt, Kill, fileVars
  <2>2. Domains' /\ Named' /\ Versions' /\ Phases' /\ Counters' /\ CacheFilled'
    <3>1. Domains' /\ Named' /\ Versions'
      BY <2>1 DEF KnownInv, Domains, Named, Versions
    <3>2. Phases' /\ CacheFilled'
      BY <2>1 DEF KnownInv, Phases, CacheFilled
    <3>3. Counters'
      BY <2>1 DEF KnownInv, Counters
    <3> QED
      BY <3>1, <3>2, <3>3
  <2>3. \A t \in Target : Result(t, disk)' = Result(t, disk) /\ Result(t, csig)' = Result(t, csig)
    BY <2>1 DEF Result
  <2> QED
    BY <2>1, <2>2, <2>3
       DEF KnownInv, SignaturesTaken, CalmSignatures, EndedStored, SettledStored
<1>5. CASE UNCHANGED vars
  <2>1. UNCHANGED <<mode, disk, command, db, cache, pc, entries, csig, at, calm, settled,
                    edits, trouble>>
    BY <1>5 DEF vars, fileVars, buildVars
  <2>2. \A t \in Target : Result(t, disk)' = Result(t, disk) /\ Result(t, csig)' = Result(t, csig)
    BY <2>1 DEF Result
  <2>3. Domains' /\ Named' /\ Versions' /\ Phases' /\ Counters' /\ CacheFilled'
    BY <2>1 DEF KnownInv, Domains, Named, Versions, Phases, Counters, CacheFilled
  <2> QED
    BY <2>1, <2>2, <2>3
       DEF KnownInv, SignaturesTaken, CalmSignatures, EndedStored, SettledStored
<1> QED
  BY <1>1, <1>2, <1>3, <1>4, <1>5

\* The signatures a task takes
LEMMA TakenSignatures ==
  ASSUME KnownInv, pc # "idle", NEW t \in Target, at[t] = "waiting",
         \A k \in kids[t] \cap Target : at[k] \in Ended, TakeSignatures(t)
  PROVE  /\ csig' = [n \in Node |-> csig'[n]]
         /\ \A n \in Node : csig[n] # Unknown => csig'[n] = csig[n]
         /\ \A n \in Node \ kids[t] : csig'[n] = csig[n]
         /\ \A k \in kids[t] : csig[k] = Unknown => csig'[k] = disk[k]
         /\ \A k \in kids[t] : csig'[k] # Unknown
         /\ t \notin kids[t] /\ csig'[t] = Unknown
<1> USE FilesAssumption, NoContents
<1>1. t \notin kids[t] /\ kids[t] \subseteq Node /\ t \in Node
  BY DEF Ended, Node
<1>2. csig' = [n \in Node |->
                 IF n \in kids[t] /\ csig[n] = Unknown THEN disk[n] ELSE csig[n]]
  BY DEF TakeSignatures
<1>3. \A n \in Node : disk[n] # Unknown
  BY DEF KnownInv, Named, Unknown, Contents
<1>4. csig[t] = Unknown
  BY DEF KnownInv, SignaturesTaken, Ended
<1> QED
  BY <1>1, <1>2, <1>3, <1>4

\* Of a settled tree every target is current
LEMMA SettledIsCurrent ==
  ASSUME KnownInv, settled, pc # "idle", NEW t \in Target, at[t] = "waiting",
         \A k \in kids[t] \cap Target : at[k] \in Ended, TakeSignatures(t)
  PROVE  Current(t)
<1>1. /\ entries[t] = Result(t, disk) /\ disk[t] # Missing /\ calm
  BY DEF KnownInv, SettledStored
<1>2. \A k \in kids[t] : csig'[k] = disk[k]
  <2>1. kids[t] \subseteq Node
    BY FilesAssumption
  <2> QED
    BY <1>1, <2>1, TakenSignatures DEF KnownInv, CalmSignatures
<1>3. Result(t, csig') = Result(t, disk)
  BY <1>2, SameKids DEF Result
<1> QED
  BY <1>1, <1>3 DEF Current

LEMMA KnownDecide ==
  ASSUME KnownInv, NEW t \in Target, DecideCurrent(t) \/ DecideBuild(t)
  PROVE  KnownInv'
<1> USE FilesAssumption, BoundAssumption, NoContents
<1>1. /\ pc = "building" /\ pc # "idle" /\ at[t] = "waiting"
      /\ \A k \in kids[t] \cap Target : at[k] \in Ended
      /\ TakeSignatures(t)
      /\ at' = [at EXCEPT ![t] = "current"] \/ at' = [at EXCEPT ![t] = "building"]
      /\ UNCHANGED <<mode, command, db, cache, pc, entries, calm, settled, edits, trouble>>
  BY DEF DecideCurrent, DecideBuild, Ready, fileVars
<1>2. /\ csig' = [n \in Node |-> csig'[n]]
      /\ \A n \in Node : csig[n] # Unknown => csig'[n] = csig[n]
      /\ \A n \in Node \ kids[t] : csig'[n] = csig[n]
      /\ \A k \in kids[t] : csig[k] = Unknown => csig'[k] = disk[k]
      /\ \A k \in kids[t] : csig'[k] # Unknown
      /\ t \notin kids[t] /\ csig'[t] = Unknown
  BY <1>1, TakenSignatures
<1>3. t \in Node /\ t \notin Source /\ kids[t] \subseteq Node
  BY DEF Node
<1>4. \/ disk' = disk /\ Current(t) /\ at'[t] = "current"
      \/ disk' = [disk EXCEPT ![t] = Missing] /\ ~Current(t) /\ at'[t] = "building"
  BY DEF DecideCurrent, DecideBuild, fileVars, KnownInv, Domains
<1>5. DOMAIN disk' = Node /\ \A n \in Node \ {t} : disk'[n] = disk[n]
  BY <1>4 DEF KnownInv, Domains
<1>6. at' \in [Target -> Known] /\ \A u \in Target \ {t} : at'[u] = at[u]
  BY <1>1 DEF KnownInv, Domains, Known
<1>7. Domains' /\ Counters'
  BY <1>1, <1>2, <1>5, <1>6 DEF KnownInv, Domains, Counters
<1>8. Phases' /\ CacheFilled'
  BY <1>1 DEF KnownInv, Phases, CacheFilled
<1>9. Named'
  BY <1>4, <1>5 DEF KnownInv, Named
<1>10. Versions'
  BY <1>1, <1>3, <1>5, FilesAssumption DEF KnownInv, Versions, Node
<1>11. SignaturesTaken'
  <2>1. ASSUME NEW s \in Source, csig'[s] # Unknown
        PROVE  csig'[s].version \in Nat \ {0} /\ csig'[s] = Version(s, csig'[s].version)
    <3>1. s \in Node /\ disk[s].version \in Nat \ {0} /\ disk[s] = Version(s, disk[s].version)
      BY DEF Node, KnownInv, Versions
    <3>2. CASE csig[s] # Unknown
      BY <1>1, <1>2, <3>1, <3>2 DEF KnownInv, SignaturesTaken
    <3>3. CASE csig[s] = Unknown
      BY <1>2, <2>1, <3>1, <3>3
    <3> QED
      BY <3>2, <3>3
  <2>2. ASSUME NEW u \in Target, csig'[u] # Unknown
        PROVE  at'[u] \in Ended /\ csig'[u] = disk'[u]
    <3>1. u # t /\ u \in Node
      BY <1>2, <2>2 DEF Node
    <3>2. CASE csig[u] # Unknown
      BY <1>1, <1>2, <1>5, <1>6, <3>1, <3>2 DEF KnownInv, SignaturesTaken
    <3>3. CASE csig[u] = Unknown
      BY <1>1, <1>2, <1>5, <1>6, <2>2, <3>1, <3>3
    <3> QED
      BY <3>2, <3>3
  <2>3. ASSUME NEW u \in Target, at'[u] # "waiting", NEW k \in kids[u]
        PROVE  csig'[k] # Unknown
    <3>1. k \in Node
      OBVIOUS
    <3>2. CASE u = t
      BY <1>2, <3>2
    <3>3. CASE u # t
      BY <1>1, <1>2, <1>6, <2>3, <3>1, <3>3 DEF KnownInv, SignaturesTaken
    <3> QED
      BY <3>2, <3>3
  <2> QED
    BY <2>1, <2>2, <2>3 DEF SignaturesTaken
<1>12. CalmSignatures'
  <2>1. ASSUME calm, NEW n \in Node, csig'[n] # Unknown
        PROVE  csig'[n] = disk'[n]
    <3>1. n # t /\ disk'[n] = disk[n]
      BY <1>2, <1>5, <2>1
    <3>2. CASE csig[n] # Unknown
      BY <1>1, <1>2, <2>1, <3>1, <3>2 DEF KnownInv, CalmSignatures
    <3>3. CASE csig[n] = Unknown
      BY <1>2, <2>1, <3>1, <3>3
    <3> QED
      BY <3>2, <3>3
  <2> QED
    BY <1>1, <2>1 DEF CalmSignatures
<1>13. EndedStored'
  <2> SUFFICES ASSUME NEW u \in Target
               PROVE  /\ at'[u] \in Ended => entries'[u] = Result(u, csig)'
                      /\ at'[u] \in {"written", "built"} => disk'[u].version \in Nat \ {0}
                      /\ at'[u] = "current" => disk'[u] # Missing
    BY DEF EndedStored
  <2>1. Result(u, csig)' = Result(u, csig')
    BY <1>1 DEF Result
  <2>2. CASE u = t
    BY <1>1, <1>4, <1>6, <2>1, <2>2 DEF Current, Ended
  <2>3. CASE u # t
    <3>1. u \in Node /\ at'[u] = at[u] /\ disk'[u] = disk[u]
      BY <1>5, <1>6, <2>3 DEF Node
    <3>2. ASSUME at[u] \in Ended
          PROVE  Result(u, csig') = Result(u, csig)
      <4>1. \A k \in kids[u] : k \in Node /\ csig[k] # Unknown
        BY <1>1, <3>2 DEF KnownInv, SignaturesTaken, Ended
      <4>2. \A k \in kids[u] : csig'[k] = csig[k]
        BY <1>2, <4>1
      <4> QED
        BY <4>2, SameKids DEF Result
    <3> QED
      BY <1>1, <2>1, <3>1, <3>2 DEF KnownInv, EndedStored
  <2> QED
    BY <2>2, <2>3
<1>14. SettledStored'
  <2> SUFFICES ASSUME settled PROVE SettledStored'
    BY <1>1 DEF SettledStored
  <2>1. disk' = disk /\ at'[t] = "current"
    BY <1>1, <1>4, SettledIsCurrent
  <2>2. \A u \in Target : Result(u, disk)' = Result(u, disk)
    BY <1>1, <2>1 DEF Result
  <2> QED
    BY <1>1, <1>6, <2>1, <2>2 DEF KnownInv, SettledStored
<1> QED
  BY <1>7, <1>8, <1>9, <1>10, <1>11, <1>12, <1>13, <1>14 DEF KnownInv

LEMMA KnownTask ==
  ASSUME KnownInv, NEW t \in Target,
         Retrieve(t) \/ WriteSome(t) \/ WriteRest(t) \/ Executed(t) \/ CommandFails(t)
  PROVE  KnownInv'
<1> USE FilesAssumption, BoundAssumption, NoContents
<1>1. /\ Building /\ pc # "idle" /\ at[t] \in {"building", "writing", "written"}
      /\ UNCHANGED <<mode, command, db, pc, calm, edits>>
  BY DEF Retrieve, WriteSome, WriteRest, Executed, CommandFails, Building, fileVars
<1>2. t \in Node /\ t \notin Source /\ csig[t] = Unknown /\ settled = FALSE
  <2>1. at[t] \notin Ended
    BY <1>1 DEF Ended
  <2> QED
    BY <1>1, <2>1 DEF Node, KnownInv, SignaturesTaken, SettledStored, Phases
<1>3. csig' = csig /\ settled' = FALSE
  <2>1. CASE Executed(t)
    <3>1. csig' = [csig EXCEPT ![t] = Unknown] /\ settled' = settled
      BY <2>1 DEF Executed
    <3> QED
      BY <3>1, <1>2 DEF KnownInv, Domains
  <2>2. CASE ~Executed(t)
    BY <1>2, <2>2 DEF Retrieve, WriteSome, WriteRest, CommandFails, fileVars
  <2> QED
    BY <2>1, <2>2
<1>4. /\ at' \in [Target -> Known] /\ \A u \in Target \ {t} : at'[u] = at[u]
      /\ at'[t] \in {"written", "writing", "failed", "built"}
      /\ at'[t] = "built" => Executed(t)
      /\ at'[t] = "written" => Retrieve(t) \/ WriteRest(t)
  BY DEF KnownInv, Domains, Known, Retrieve, WriteSome, WriteRest, Executed, CommandFails
<1>5. DOMAIN disk' = Node /\ \A n \in Node \ {t} : disk'[n] = disk[n]
  BY DEF KnownInv, Domains, Retrieve, WriteSome, WriteRest, Executed, CommandFails, fileVars
<1>6. DOMAIN entries' = Target /\ \A u \in Target \ {t} : entries'[u] = entries[u]
  BY DEF KnownInv, Domains, Retrieve, WriteSome, WriteRest, Executed, CommandFails, fileVars
<1>7. /\ disk'[t] = Missing \/ disk'[t].of = t
      /\ at'[t] \in {"written", "built"} => disk'[t].version \in Nat \ {0}
  <2>1. CASE Retrieve(t)
    <3>1. PICK c \in cache : c.key = Result(t, csig) /\ disk' = [disk EXCEPT ![t] = c.contents]
      BY <2>1 DEF Retrieve, Cached
    <3>2. disk'[t] = c.contents
      BY <1>2, <3>1 DEF KnownInv, Domains
    <3>3. Result(t, csig).of = t
      BY ResultParts
    <3>4. c.contents.version \in Nat \ {0} /\ c.contents.of = t
      BY <3>1, <3>3 DEF KnownInv, CacheFilled
    <3> QED
      BY <3>2, <3>4
  <2>2. CASE WriteSome(t)
    <3>1. disk'[t] = Partial(t) /\ at'[t] = "writing"
      BY <1>2, <2>2 DEF WriteSome, KnownInv, Domains
    <3> QED
      BY <3>1 DEF Partial, Contents
  <2>3. CASE WriteRest(t)
    <3>1. disk'[t] = Result(t, disk)
      BY <1>2, <2>3 DEF WriteRest, KnownInv, Domains
    <3>2. command[t] \in Nat \ {0}
      BY DEF KnownInv, Versions
    <3>3. Result(t, disk).of = t /\ Result(t, disk).version = command[t]
      BY ResultParts
    <3> QED
      BY <3>1, <3>2, <3>3
  <2>4. CASE Executed(t) \/ CommandFails(t)
    <3>1. disk' = disk
      BY <2>4 DEF Executed, CommandFails, fileVars
    <3>2. at'[t] \in {"written", "built"} => at[t] = "written"
      BY <2>4 DEF Executed, CommandFails, KnownInv, Domains
    <3> QED
      BY <1>1, <1>2, <3>1, <3>2 DEF KnownInv, Named, EndedStored
  <2> QED
    BY <2>1, <2>2, <2>3, <2>4
<1>8. trouble' \in 0 .. MaxTrouble
  <2>1. trouble' = trouble \/ (trouble' = trouble + 1 /\ trouble < MaxTrouble)
    BY DEF Retrieve, WriteSome, WriteRest, Executed, CommandFails
  <2> QED
    BY <2>1 DEF KnownInv, Counters
<1>9. Domains' /\ Phases' /\ Counters'
  BY <1>1, <1>3, <1>4, <1>5, <1>6, <1>8 DEF KnownInv, Domains, Phases, Counters
<1>10. Named'
  BY <1>5, <1>7 DEF KnownInv, Named
<1>11. Versions'
  BY <1>1, <1>2, <1>5 DEF KnownInv, Versions, Node
<1>12. CacheFilled'
  <2>1. CASE cache' = cache
    BY <1>1, <2>1 DEF KnownInv, CacheFilled
  <2>2. CASE cache' # cache
    <3>1. cache' = cache \cup {Pushed(t)} /\ mode.cached /\ at[t] = "written"
      BY <2>2 DEF Retrieve, WriteSome, WriteRest, Executed, CommandFails, fileVars
    <3>2. Pushed(t).contents = disk[t] /\ Pushed(t).key.of = t
      BY ResultParts DEF Pushed
    <3>3. disk[t].version \in Nat \ {0} /\ disk[t].of = t
      BY <1>1, <1>2, <3>1 DEF KnownInv, EndedStored, Named
    <3> QED
      BY <1>1, <3>1, <3>2, <3>3 DEF KnownInv, CacheFilled
  <2> QED
    BY <2>1, <2>2
<1>13. SignaturesTaken'
  BY <1>1, <1>2, <1>3, <1>4, <1>5 DEF KnownInv, SignaturesTaken, Node
<1>14. CalmSignatures'
  BY <1>1, <1>2, <1>3, <1>5 DEF KnownInv, CalmSignatures
<1>15. EndedStored'
  <2> SUFFICES ASSUME NEW u \in Target
               PROVE  /\ at'[u] \in Ended => entries'[u] = Result(u, csig)'
                      /\ at'[u] \in {"written", "built"} => disk'[u].version \in Nat \ {0}
                      /\ at'[u] = "current" => disk'[u] # Missing
    BY DEF EndedStored
  <2>1. Result(u, csig)' = Result(u, csig)
    BY <1>1, <1>3 DEF Result
  <2>2. CASE u = t
    <3>1. ASSUME at'[u] \in Ended
          PROVE  entries'[t] = Result(t, csig)
      <4>1. Executed(t)
        BY <1>4, <2>2, <3>1 DEF Ended
      <4> QED
        BY <4>1 DEF Executed, KnownInv, Domains
    <3> QED
      BY <1>4, <1>7, <2>1, <2>2, <3>1
  <2>3. CASE u # t
    BY <1>1, <1>4, <1>5, <1>6, <2>1, <2>3 DEF KnownInv, EndedStored, Node
  <2> QED
    BY <2>2, <2>3
<1> QED
  BY <1>3, <1>9, <1>10, <1>11, <1>12, <1>13, <1>14, <1>15 DEF KnownInv, SettledStored

LEMMA KnownNext == KnownInv /\ [Next]_vars => KnownInv'
BY KnownUser, KnownFrame, KnownDecide, KnownTask DEF Next, Build, Step

LEMMA KnownAlways == Spec => []KnownInv
<1>1. Init => KnownInv
  BY KnownInit
<1>2. KnownInv /\ [Next]_vars => KnownInv'
  BY KnownNext
<1> QED
  BY <1>1, <1>2, PTL DEF Spec

\* Built again with nothing edited, nothing is built, in every mode: after a
\* good build every target is current, and stays so until something is edited.
THEOREM NothingBuiltTwiceAlways == Spec => NothingBuiltTwice
<1>1. ASSUME KnownInv, [Next]_vars
      PROVE  settled => \A t \in Target : ~(at[t] = "waiting" /\ at'[t] = "building")
  <2> SUFFICES ASSUME settled, NEW t \in Target, at[t] = "waiting", at'[t] = "building"
               PROVE  FALSE
    OBVIOUS
  <2>0. DOMAIN at = Target
    BY <1>1 DEF KnownInv, Domains
  <2>1. CASE Start
    BY <2>1 DEF Start, Fresh
  <2>2. ASSUME NEW u \in Target, Step(u)
        PROVE  FALSE
    <3>1. CASE DecideBuild(u)
      <4>1. u = t
        BY <2>0, <3>1 DEF DecideBuild
      <4>2. /\ TakeSignatures(t) /\ ~Current(t) /\ pc # "idle"
            /\ \A k \in kids[t] \cap Target : at[k] \in Ended
        BY <3>1, <4>1 DEF DecideBuild, Ready
      <4> QED
        BY <1>1, <4>2, SettledIsCurrent
    <3>2. CASE ~DecideBuild(u)
      BY <2>0, <2>2, <3>2 DEF Step, DecideCurrent, Retrieve, WriteSome, WriteRest, Executed
    <3> QED
      BY <3>1, <3>2
  <2>3. CASE User
    BY <2>3 DEF User, Edit, EditCommand, Remove, buildVars
  <2>4. CASE \E u \in Target : CommandFails(u)
    BY <2>0, <2>4 DEF CommandFails
  <2>5. CASE Unlink \/ Rename \/ Interrupt \/ Kill \/ UNCHANGED vars
    BY <2>5 DEF Unlink, Rename, Interrupt, Kill, vars, buildVars
  <2> QED
    BY <1>1, <2>1, <2>2, <2>3, <2>4, <2>5 DEF Next, Build
<1> QED
  BY <1>1, KnownAlways, PTL DEF Spec, NothingBuiltTwice

-----------------------------------------------------------------------------
(* Steps of a task                                                           *)

\* What no step of a task touches
LEMMA TaskFrame ==
  ASSUME KnownInv, NEW t \in Target, Step(t) \/ CommandFails(t)
  PROVE  /\ Building /\ pc \in {"building", "stopping"}
         /\ UNCHANGED <<mode, command, db, pc, calm, edits>>
         /\ \A n \in Node \ {t} : disk'[n] = disk[n]
         /\ \A u \in Target \ {t} : at'[u] = at[u] /\ entries'[u] = entries[u]
         /\ \A n \in Node : csig[n] # Unknown => csig'[n] = csig[n]
         /\ \A n \in Node : csig'[n] \in {csig[n], disk[n]}
         /\ csig[t] = Unknown /\ csig'[t] = Unknown
         /\ t \in Node /\ t \notin Source
<1>1. /\ Building /\ pc \in {"building", "stopping"}
      /\ UNCHANGED <<mode, command, db, pc, calm, edits>>
  BY DEF Step, DecideCurrent, DecideBuild, Ready, Retrieve, WriteSome, WriteRest,
         Executed, CommandFails, Building, fileVars
<1>2. t \in Node /\ t \notin Source
  BY FilesAssumption DEF Node
<1>3. /\ \A n \in Node \ {t} : disk'[n] = disk[n]
      /\ \A u \in Target \ {t} : at'[u] = at[u] /\ entries'[u] = entries[u]
  BY DEF Step, DecideCurrent, DecideBuild, Retrieve, WriteSome, WriteRest,
         Executed, CommandFails, fileVars, KnownInv, Domains
<1>4. csig[t] = Unknown
  <2>1. at[t] \in {"waiting", "building", "writing", "written"}
    BY DEF Step, DecideCurrent, DecideBuild, Ready, Retrieve, WriteSome, WriteRest,
           Executed, CommandFails
  <2> QED
    BY <1>1, <2>1 DEF KnownInv, SignaturesTaken, Ended
<1>5. /\ \A n \in Node : csig[n] # Unknown => csig'[n] = csig[n]
      /\ \A n \in Node : csig'[n] \in {csig[n], disk[n]}
      /\ csig'[t] = Unknown
  <2>1. CASE DecideCurrent(t) \/ DecideBuild(t)
    <3>1. /\ pc # "idle" /\ at[t] = "waiting" /\ TakeSignatures(t)
          /\ \A k \in kids[t] \cap Target : at[k] \in Ended
      BY <2>1 DEF DecideCurrent, DecideBuild, Ready
    <3>2. /\ \A n \in Node : csig[n] # Unknown => csig'[n] = csig[n]
          /\ \A n \in Node \ kids[t] : csig'[n] = csig[n]
          /\ \A k \in kids[t] : csig[k] = Unknown => csig'[k] = disk[k]
          /\ csig'[t] = Unknown
      BY <3>1, TakenSignatures
    <3> QED
      BY <3>2
  <2>2. CASE ~(DecideCurrent(t) \/ DecideBuild(t))
    <3>1. csig' = csig \/ csig' = [csig EXCEPT ![t] = Unknown]
      BY <2>2 DEF Step, Retrieve, WriteSome, WriteRest, Executed, CommandFails
    <3> QED
      BY <1>4, <3>1 DEF KnownInv, Domains
  <2> QED
    BY <2>1, <2>2
<1> QED
  BY <1>1, <1>2, <1>3, <1>4, <1>5

\* What a task that has begun saw does not change
LEMMA TaskSees ==
  ASSUME KnownInv, NEW t \in Target, Step(t) \/ CommandFails(t),
         NEW u \in Target, at[u] # "waiting"
  PROVE  Result(u, csig)' = Result(u, csig)
<1>1. pc # "idle" /\ command' = command
  BY TaskFrame
<1>2. \A k \in kids[u] : k \in Node /\ csig[k] # Unknown
  BY <1>1, FilesAssumption DEF KnownInv, SignaturesTaken
<1>3. \A k \in kids[u] : csig'[k] = csig[k]
  BY <1>2, TaskFrame
<1> QED
  BY <1>1, <1>3, SameKids DEF Result

\* What a step does to its own target
LEMMA TaskEffect ==
  ASSUME KnownInv, NEW t \in Target, Step(t) \/ CommandFails(t)
  PROVE  \/ /\ DecideCurrent(t) /\ at[t] = "waiting" /\ at'[t] = "current"
            /\ disk' = disk /\ entries' = entries /\ cache' = cache
         \/ /\ DecideBuild(t) /\ at[t] = "waiting" /\ at'[t] = "building"
            /\ disk'[t] = Missing /\ entries' = entries /\ cache' = cache
         \/ /\ at[t] = "writing" /\ at'[t] = "written" /\ csig' = csig
            /\ \E c \in Cached(t) : disk'[t] = c.contents
            /\ entries' = entries /\ cache' = cache
         \/ /\ at[t] = "building" /\ at'[t] = "writing" /\ csig' = csig
            /\ disk'[t] = Partial(t) /\ entries' = entries /\ cache' = cache
         \/ /\ at[t] = "writing" /\ at'[t] = "written" /\ csig' = csig
            /\ disk'[t] = Result(t, disk) /\ entries' = entries /\ cache' = cache
         \/ /\ at[t] = "written" /\ at'[t] = "built" /\ csig' = csig
            /\ disk' = disk /\ entries'[t] = Result(t, csig)
            /\ cache' = cache \/ (mode.cached /\ cache' = cache \cup {Pushed(t)})
         \/ /\ at[t] \in {"building", "writing"} /\ at'[t] = "failed" /\ csig' = csig
            /\ disk' = disk /\ entries' = entries /\ cache' = cache
            /\ CommandFails(t)
<1>1. /\ DOMAIN disk = Node /\ DOMAIN entries = Target /\ DOMAIN at = Target
      /\ csig = [n \in Node |-> csig[n]]
  BY DEF KnownInv, Domains
<1>2. t \in Node /\ csig[t] = Unknown
  BY TaskFrame
<1>3. CASE DecideCurrent(t)
  BY <1>1, <1>3 DEF DecideCurrent, Ready, fileVars
<1>4. CASE DecideBuild(t)
  BY <1>1, <1>2, <1>4 DEF DecideBuild, Ready
<1>5. CASE Retrieve(t)
  <2>1. PICK c \in Cached(t) : disk' = [disk EXCEPT ![t] = c.contents]
    BY <1>5 DEF Retrieve
  <2>2. disk'[t] = c.contents
    BY <1>1, <1>2, <2>1
  <2> QED
    BY <1>1, <1>5, <2>2 DEF Retrieve
<1>6. CASE WriteSome(t)
  BY <1>1, <1>2, <1>6 DEF WriteSome
<1>7. CASE WriteRest(t)
  BY <1>1, <1>2, <1>7 DEF WriteRest
<1>8. CASE Executed(t)
  BY <1>1, <1>2, <1>8 DEF Executed
<1>9. CASE CommandFails(t)
  BY <1>1, <1>9 DEF CommandFails, fileVars
<1> QED
  BY <1>3, <1>4, <1>5, <1>6, <1>7, <1>8, <1>9 DEF Step

-----------------------------------------------------------------------------
(* The cache directory                                                       *)

\* Nothing races a build that shares a cache
CacheQuiet == mode.cached => ~mode.during

CalmBuilds == pc # "idle" /\ ~mode.during => calm

\* A command makes of the kids what their signatures say
CalmWritten ==
  pc # "idle" /\ calm => \A t \in Target :
    at[t] \in {"written", "built"} => disk[t] = Result(t, csig)

CacheInv == CacheTrue /\ CalmBuilds /\ CalmWritten

LEMMA CacheNext ==
  ASSUME KnownInv, CacheQuiet, CacheInv, [Next]_vars
  PROVE  CacheInv'
<1> SUFFICES CacheTrue' /\ CalmBuilds' /\ CalmWritten'
  BY DEF CacheInv
<1>1. ASSUME NEW t \in Target, Step(t) \/ CommandFails(t)
      PROVE  CacheTrue' /\ CalmBuilds' /\ CalmWritten'
  <2>1. pc # "idle" /\ pc' = pc /\ mode' = mode /\ calm' = calm
    BY <1>1, TaskFrame
  <2>2. CalmBuilds'
    BY <2>1 DEF CacheInv, CalmBuilds
  <2>3. CacheTrue'
    <3>1. CASE cache' = cache
      BY <3>1 DEF CacheInv, CacheTrue
    <3>2. CASE cache' # cache
      <4>1. mode.cached /\ cache' = cache \cup {Pushed(t)} /\ at[t] = "written"
        BY <1>1, <3>2, TaskEffect
      <4>2. calm
        BY <2>1, <4>1 DEF CacheQuiet, CacheInv, CalmBuilds
      <4>3. disk[t] = Result(t, csig)
        BY <2>1, <4>1, <4>2 DEF CacheInv, CalmWritten
      <4>4. Pushed(t).contents = Pushed(t).key
        BY <4>3 DEF Pushed
      <4> QED
        BY <4>1, <4>4 DEF CacheInv, CacheTrue
    <3> QED
      BY <3>1, <3>2
  <2>4. CalmWritten'
    <3> SUFFICES ASSUME calm, NEW u \in Target, at'[u] \in {"written", "built"}
                 PROVE  disk'[u] = Result(u, csig)'
      BY <2>1 DEF CalmWritten
    <3>1. ASSUME at[u] \in {"written", "built"}, disk'[u] = disk[u]
          PROVE  disk'[u] = Result(u, csig)'
      BY <1>1, <2>1, <3>1, TaskSees DEF CacheInv, CalmWritten
    <3>2. CASE u # t
      <4>1. u \in Node \ {t}
        BY <3>2 DEF Node
      <4> QED
        BY <1>1, <3>1, <3>2, <4>1, TaskFrame
    <3>3. CASE u = t
      <4>1. at[t] # "waiting"
        BY <1>1, <3>3, TaskEffect
      <4>2. Result(t, csig)' = Result(t, csig)
        BY <1>1, <4>1, TaskSees
      <4>3. ASSUME NEW c \in Cached(t)
            PROVE  c.contents = Result(t, csig)
        BY <4>3 DEF Cached, CacheInv, CacheTrue
      <4>4. Result(t, disk) = Result(t, csig)
        <5>1. \A k \in kids[t] : k \in Node /\ csig[k] # Unknown
          BY <2>1, <4>1, FilesAssumption DEF KnownInv, SignaturesTaken
        <5>2. \A k \in kids[t] : disk[k] = csig[k]
          BY <2>1, <5>1 DEF KnownInv, CalmSignatures
        <5> QED
          BY <5>2, SameKids DEF Result
      <4>5. \/ \E c \in Cached(t) : disk'[t] = c.contents
            \/ disk'[t] = Result(t, disk)
            \/ at[t] = "written" /\ disk' = disk
        BY <1>1, <3>3, TaskEffect
      <4> QED
        BY <3>1, <3>3, <4>2, <4>3, <4>4, <4>5
    <3> QED
      BY <3>2, <3>3
  <2> QED
    BY <2>2, <2>3, <2>4
<1>2. CASE Start
  <2>1. cache' = cache /\ calm' = TRUE /\ \A t \in Target : at'[t] = "waiting"
    BY <1>2 DEF Start, Fresh
  <2> QED
    BY <2>1 DEF CacheInv, CacheTrue, CalmBuilds, CalmWritten
<1>3. CASE Unlink \/ Rename \/ Interrupt \/ Kill \/ UNCHANGED vars
  <2>1. /\ UNCHANGED <<mode, disk, command, cache, csig, at, calm>>
        /\ pc' # "idle" => pc # "idle"
    BY <1>3 DEF Unlink, Rename, Interrupt, Kill, vars, fileVars, buildVars, Building
  <2> QED
    BY <2>1 DEF CacheInv, CacheTrue, CalmBuilds, CalmWritten, Result
<1>4. CASE User
  <2>1. /\ UNCHANGED <<mode, cache, pc, at, csig>>
        /\ calm' = calm \/ calm' = FALSE
        /\ pc # "idle" => calm' = FALSE /\ mode.during
    BY <1>4 DEF User, Edit, EditCommand, Remove, buildVars
  <2> QED
    BY <2>1 DEF CacheInv, CacheTrue, CalmBuilds, CalmWritten
<1> QED
  BY <1>1, <1>2, <1>3, <1>4 DEF Next, Build

LEMMA ModeStays == [Next]_vars => mode' = mode
BY DEF Next, Build, User, Step, Start, Unlink, Rename, Interrupt, Kill, Edit,
       EditCommand, Remove, DecideCurrent, DecideBuild, Retrieve, WriteSome,
       WriteRest, Executed, CommandFails, vars, fileVars, buildVars

\* An entry of the cache holds what its signature says: a command that pushes
\* was run on what was signed, as no source is edited in a build that shares a
\* cache.  (Where sources are edited in such builds it is false.)
THEOREM CacheTrueAlways == Spec => [](CacheQuiet => CacheTrue)
<1> DEFINE I == KnownInv /\ (CacheQuiet => CacheInv)
<1>1. Init => I
  <2>1. Init => CacheInv
    BY DEF Init, CacheInv, CacheTrue, CalmBuilds, CalmWritten
  <2> QED
    BY <2>1, KnownInit
<1>2. I /\ [Next]_vars => I'
  BY KnownNext, CacheNext, ModeStays DEF CacheQuiet
<1>3. I => (CacheQuiet => CacheTrue)
  BY DEF CacheInv
<1> QED
  BY <1>1, <1>2, <1>3, PTL DEF Spec

-----------------------------------------------------------------------------
(* Builds in which nothing fails, but versions come back                     *)

Returning == mode.revert /\ ~mode.trouble /\ ~mode.during

\* What is stored of a target is what the file holds, if there is one
StoredOnDisk ==
  /\ pc # "stopping"
  /\ \A t \in Target : disk[t] # Missing =>
       /\ pc = "idle" => disk[t] = db[t]
       /\ pc # "idle" /\ at[t] \in {"waiting", "current", "built"} => disk[t] = entries[t]
  /\ pc # "idle" => \A t \in Target : at[t] # "failed"
  /\ pc = "renaming" => \A t \in Target : at[t] \in Ended

LEMMA StoredInit == Init => StoredOnDisk
BY FilesAssumption DEF Init, StoredOnDisk, Node

LEMMA StoredNext ==
  ASSUME KnownInv, CacheInv, Returning, StoredOnDisk, [Next]_vars
  PROVE  StoredOnDisk'
<1>1. ASSUME NEW t \in Target, Step(t) \/ CommandFails(t)
      PROVE  StoredOnDisk'
  <2>1. /\ pc = "building" /\ pc' = "building" /\ db' = db
        /\ \A u \in Target \ {t} : disk'[u] = disk[u] /\ at'[u] = at[u] /\ entries'[u] = entries[u]
    BY <1>1, TaskFrame DEF StoredOnDisk, Node
  <2>2. ASSUME at[t] = "written" PROVE disk[t] = Result(t, csig)
    <3>1. calm
      BY <2>1 DEF Returning, CacheInv, CalmBuilds
    <3> QED
      BY <2>1, <2>2, <3>1 DEF CacheInv, CalmWritten
  <2>3. /\ at'[t] # "failed"
        /\ disk'[t] # Missing /\ at'[t] \in {"waiting", "current", "built"} =>
             disk'[t] = entries'[t]
    <3>1. ~CommandFails(t)
      BY DEF CommandFails, Returning
    <3> QED
      BY <1>1, <2>1, <2>2, <3>1, TaskEffect DEF StoredOnDisk
  <2> QED
    BY <2>1, <2>3 DEF StoredOnDisk
<1>2. CASE Start
  <2>1. /\ pc = "idle" /\ pc' = "building" /\ disk' = disk /\ entries' = db'
        /\ \A t \in Target : at'[t] = "waiting" /\ db'[t] = Opened[t]
    BY <1>2 DEF Start, Fresh
  <2>2. \A t \in Target : disk[t] # Missing => disk[t] = Opened[t]
    BY <2>1 DEF StoredOnDisk, Opened, NoFile
  <2> QED
    BY <2>1, <2>2 DEF StoredOnDisk
<1>3. CASE Unlink
  <2>1. /\ pc # "idle" /\ pc' = "renaming" /\ UNCHANGED <<disk, entries, at>> /\ WalkEnded
    BY <1>3 DEF Unlink, Building
  <2>2. \A t \in Target : at[t] \in Ended
    BY <2>1 DEF StoredOnDisk, WalkEnded, Stopped
  <2> QED
    BY <2>1, <2>2 DEF StoredOnDisk
<1>4. CASE Rename
  <2>1. pc = "renaming" /\ pc' = "idle" /\ db' = entries /\ disk' = disk
    BY <1>4 DEF Rename
  <2> QED
    BY <2>1 DEF StoredOnDisk, Ended
<1>5. CASE User
  <2>1. /\ pc = "idle" /\ pc' = "idle" /\ db' = db
        /\ \A t \in Target : disk'[t] = disk[t] \/ disk'[t] = Missing
    BY <1>5, FilesAssumption
       DEF User, Edit, EditCommand, Remove, buildVars, Returning, KnownInv, Domains, Node
  <2> QED
    BY <2>1 DEF StoredOnDisk
<1>6. CASE Interrupt \/ Kill
  BY <1>6 DEF Interrupt, Kill, Returning
<1>7. CASE UNCHANGED vars
  BY <1>7 DEF StoredOnDisk, vars, fileVars, buildVars
<1> QED
  BY <1>1, <1>2, <1>3, <1>4, <1>5, <1>6, <1>7 DEF Next, Build

LEMMA ReturningSettled ==
  ASSUME KnownInv, StoredOnDisk, settled, NEW t \in Target
  PROVE  disk[t] = Result(t, disk)
BY DEF KnownInv, SettledStored, StoredOnDisk

-----------------------------------------------------------------------------
(* Builds that fail and are killed, while versions only grow                 *)

\* Where the signatures of sources were taken, and where they will be
View == [n \in Node |-> IF csig[n] = Unknown THEN disk[n] ELSE csig[n]]

\* What a clean build would make now, and the least this build makes
Newest == CleanOf(disk, command)
Least == CleanOf(View, command)

Stored(e) == e # Unknown /\ e # Missing

\* What is stored can match a file only if the file is what it says
MatchesHonestly(e, t) ==
  Stored(e) => Older(e, Newest[t]) /\ (e = Newest[t] => disk[t] = Newest[t])

\* An old signature matches nothing that this build will make
Waiting(t) ==
  at[t] = "waiting" =>
    /\ pc # "renaming" => entries[t] = db[t]
    /\ Stored(entries[t]) =>
         /\ Older(entries[t], Least[t])
         /\ entries[t] = Least[t] => disk[t] = Least[t]

OutOfDate(t) ==
  /\ at[t] \in {"building", "writing", "written", "failed"} => entries[t] # Newest[t]
  /\ at[t] \in {"building", "writing", "written", "failed", "built"} => db[t] # Newest[t]

\* What is written is made of what was signed, or of newer files
Between(t) ==
  /\ at[t] = "written" => Older(Result(t, csig), disk[t]) /\ Older(disk[t], Newest[t])
  /\ at[t] \in Ended => /\ Older(entries[t], disk[t])
                        /\ Older(Least[t], disk[t]) /\ Older(disk[t], Newest[t])
  /\ at[t] = "current" => disk[t] = entries[t]

Grown(t) == MatchesHonestly(entries[t], t) /\ Waiting(t) /\ OutOfDate(t) /\ Between(t)

SignaturesGrow ==
  pc # "idle" => \A s \in Source : csig[s] # Unknown => csig[s].version <= disk[s].version

GrowthInv ==
  /\ \A t \in Target : MatchesHonestly(db[t], t)
  /\ SignaturesGrow
  /\ pc # "idle" => \A t \in Target : Grown(t)

\* A clean build looks at the sources only
LEMMA CleanSame ==
  ASSUME NEW leaf, NEW leaf2, NEW cmd, \A s \in Source : leaf[s] = leaf2[s]
  PROVE  CleanOf(leaf, cmd) = CleanOf(leaf2, cmd)
<1> DEFINE f == CleanOf(leaf, cmd)
<1>1. Cleans(f, leaf, cmd, Node)
  BY CleanOfFiles
<1> HIDE DEF f
<1>2. Cleans(f, leaf2, cmd, Node)
  BY <1>1 DEF Cleans
<1>3. f = CleanOf(leaf2, cmd)
  BY <1>2, CleanIsUnique
<1> QED
  BY <1>3 DEF f

LEMMA NewestFiles ==
  ASSUME KnownInv
  PROVE  /\ Leaves(disk) /\ command \in [Target -> Nat \ {0}]
         /\ \A s \in Source : Newest[s] = disk[s]
         /\ \A t \in Target : Newest[t] = Result(t, Newest)
         /\ \A n \in Node : Newest[n].of = n /\ Newest[n].version \in Nat \ {0}
         /\ \A n \in Node : Older(Newest[n], Newest[n]) /\ Stored(Newest[n])
<1> USE FilesAssumption
<1>1. Leaves(disk)
  <2>1. MaxVersion \in Nat
    BY BoundAssumption
  <2> QED
    BY <2>1 DEF KnownInv, Versions, Leaves
<1>2. command \in [Target -> Nat \ {0}]
  <2>1. MaxVersion \in Nat
    BY BoundAssumption
  <2>2. 1 .. MaxVersion \subseteq Nat \ {0}
    BY <2>1
  <2> QED
    BY <2>2 DEF KnownInv, Versions
<1>3. /\ \A s \in Source : Newest[s] = disk[s]
      /\ \A t \in Target : Newest[t] = Result(t, Newest)
  <2>1. /\ \A s \in Source : CleanOf(disk, command)[s] = disk[s]
        /\ \A t \in Target : CleanOf(disk, command)[t] =
             Contents(t, command[t], [k \in kids[t] |-> CleanOf(disk, command)[k]])
    BY ONLY CleanOfFiles
  <2>2. \A s \in Source : Newest[s] = disk[s]
    BY <2>1 DEF Newest
  <2>3. \A t \in Target : Newest[t] = Result(t, Newest)
    BY <2>1 DEF Newest, Result
  <2> QED
    BY <2>2, <2>3
<1>4. ASSUME NEW n \in Node
      PROVE  /\ Newest[n].of = n /\ Newest[n].version \in Nat \ {0}
             /\ Older(Newest[n], Newest[n]) /\ Stored(Newest[n])
  <2>1. \A s \in Source : disk[s].version <= disk[s].version
    BY <1>1 DEF Leaves
  <2>2. \A t \in Target : command[t] <= command[t]
    BY <1>2
  <2>3. Newest[n].of = n /\ Older(Newest[n], Newest[n])
    BY <1>1, <1>2, <2>1, <2>2, CleanGrows DEF Newest
  <2>4. Newest[n].version \in Nat \ {0}
    BY <2>3, OlderParts, ShapeOf
  <2> QED
    BY <2>3, <2>4, NoContents DEF Stored
<1> QED
  BY <1>1, <1>2, <1>3, <1>4

LEMMA LeastFiles ==
  ASSUME KnownInv, SignaturesGrow, pc # "idle"
  PROVE  /\ Leaves(View)
         /\ \A s \in Source : Least[s] = View[s] /\ View[s].version <= disk[s].version
         /\ \A t \in Target : Least[t] = Result(t, Least)
         /\ \A n \in Node : Least[n].of = n /\ Least[n].version \in Nat \ {0}
         /\ \A n \in Node : Older(Least[n], Newest[n]) /\ Stored(Least[n])
<1> USE FilesAssumption
<1>1. Leaves(disk) /\ command \in [Target -> Nat \ {0}]
  BY NewestFiles
<1>2. \A s \in Source : View[s] = IF csig[s] = Unknown THEN disk[s] ELSE csig[s]
  BY DEF View, Node
<1>3. Leaves(View)
  BY <1>1, <1>2 DEF Leaves, KnownInv, SignaturesTaken
<1>4. \A s \in Source : View[s].version <= disk[s].version
  BY <1>1, <1>2 DEF Leaves, SignaturesGrow
<1>5. /\ \A s \in Source : Least[s] = View[s]
      /\ \A t \in Target : Least[t] = Result(t, Least)
  BY CleanOfFiles DEF Least, Result
<1>6. ASSUME NEW n \in Node
      PROVE  /\ Least[n].of = n /\ Least[n].version \in Nat \ {0}
             /\ Older(Least[n], Newest[n]) /\ Stored(Least[n])
  <2>1. \A t \in Target : command[t] <= command[t]
    BY <1>1
  <2>2. Least[n].of = n /\ Older(Least[n], Newest[n])
    BY <1>1, <1>3, <1>4, <2>1, CleanGrows DEF Newest, Least
  <2>3. Least[n].version \in Nat \ {0}
    BY <2>2, OlderParts, ShapeOf
  <2> QED
    BY <2>2, <2>3, NoContents DEF Stored
<1> QED
  BY <1>3, <1>4, <1>5, <1>6

\* A file as the build sees it is between the least and the newest
LEMMA SeenBetween ==
  ASSUME KnownInv, GrowthInv, pc # "idle", NEW n \in Node,
         n \in Target => at[n] \in Ended
  PROVE  /\ View[n].of = n
         /\ Older(Least[n], View[n]) /\ Older(View[n], disk[n])
         /\ Older(disk[n], Newest[n]) /\ disk[n].of = n
<1>1. View[n] = IF csig[n] = Unknown THEN disk[n] ELSE csig[n]
  BY DEF View
<1>2. SignaturesGrow
  BY DEF GrowthInv
<1>3. CASE n \in Source
  <2>1. /\ Leaves(disk) /\ Leaves(View) /\ Newest[n] = disk[n] /\ Least[n] = View[n]
        /\ View[n].version <= disk[n].version /\ Least[n].of = n /\ Newest[n].of = n
        /\ Older(Newest[n], Newest[n])
    BY <1>2, <1>3, NewestFiles, LeastFiles
  <2>2. Older(Version(n, View[n].version), Version(n, disk[n].version))
    BY <1>3, <2>1, OlderVersion DEF Leaves
  <2>3. Older(View[n], disk[n])
    BY <1>3, <2>1, <2>2 DEF Leaves
  <2> QED
    BY <2>1, <2>3, OlderSelf
<1>4. CASE n \notin Source
  <2>1. n \in Target /\ at[n] \in Ended
    BY <1>4 DEF Node
  <2>2. View[n] = disk[n]
    BY <1>1, <2>1 DEF KnownInv, SignaturesTaken
  <2>3. Older(Least[n], disk[n]) /\ Older(disk[n], Newest[n])
    BY <2>1 DEF GrowthInv, Grown, Between
  <2>4. Older(disk[n], disk[n]) /\ disk[n].of = n
    BY <1>2, <2>3, OlderSelf, OlderParts, LeastFiles
  <2> QED
    BY <2>2, <2>3, <2>4
<1> QED
  BY <1>3, <1>4

\* and so is what a task makes of such files
LEMMA MadeBetween ==
  ASSUME KnownInv, GrowthInv, pc # "idle", NEW t \in Target,
         \A k \in kids[t] \cap Target : at[k] \in Ended
  PROVE  /\ Older(Least[t], Result(t, View))
         /\ Older(Result(t, View), Result(t, disk))
         /\ Older(Result(t, disk), Newest[t])
<1>1. \A k \in kids[t] :
        /\ View[k].of = k /\ Older(Least[k], View[k]) /\ Older(View[k], disk[k])
        /\ Older(disk[k], Newest[k]) /\ disk[k].of = k
  BY SeenBetween, FilesAssumption
<1>2. command[t] \in Nat \ {0} /\ Newest[t] = Result(t, Newest)
  BY NewestFiles
<1>3. Least[t] = Result(t, Least) /\ \A k \in kids[t] : Least[k].of = k
  BY LeastFiles, FilesAssumption DEF GrowthInv
<1>4. command[t] <= command[t]
  BY <1>2
<1>5. Older(Result(t, Least), Result(t, View))
  BY <1>1, <1>2, <1>3, <1>4, OlderMake DEF Result
<1>6. Older(Result(t, View), Result(t, disk))
  BY <1>1, <1>2, <1>4, OlderMake DEF Result
<1>7. Older(Result(t, disk), Result(t, Newest))
  BY <1>1, <1>2, <1>4, OlderMake DEF Result
<1> QED
  BY <1>2, <1>3, <1>5, <1>6, <1>7

\* A task that has begun has seen what the build sees
LEMMA SeesView ==
  ASSUME KnownInv, pc # "idle", NEW t \in Target, at[t] # "waiting"
  PROVE  /\ Result(t, View) = Result(t, csig)
         /\ \A k \in kids[t] \cap Target : at[k] \in Ended
<1>1. \A k \in kids[t] : k \in Node /\ csig[k] # Unknown
  BY FilesAssumption DEF KnownInv, SignaturesTaken
<1>2. \A k \in kids[t] : View[k] = csig[k]
  BY <1>1 DEF View
<1>3. Result(t, View) = Result(t, csig)
  BY <1>2, SameKids DEF Result
<1>4. \A k \in kids[t] \cap Target : at[k] \in Ended
  BY <1>1 DEF KnownInv, SignaturesTaken
<1> QED
  BY <1>3, <1>4

LEMMA GrowthInit == Init => GrowthInv
<1> SUFFICES ASSUME Init PROVE GrowthInv
  OBVIOUS
<1>1. \A t \in Target : db[t] = Missing
  BY DEF Init, NoFile
<1> QED
  BY <1>1 DEF Init, GrowthInv, SignaturesGrow, MatchesHonestly, Stored

\* As sources and commands grow, what matched nothing matches nothing
LEMMA HonestlyGrown ==
  ASSUME NEW e, NEW n, NEW n2, NEW d, Older(n, n2),
         Stored(e) => Older(e, n) /\ (e = n => d = n)
  PROVE  Stored(e) => /\ Older(e, n2) /\ (e = n2 => d = n2)
                      /\ e = n2 => e = n
<1> SUFFICES ASSUME Stored(e)
             PROVE  Older(e, n2) /\ (e = n2 => e = n /\ d = n2)
  OBVIOUS
<1>1. Older(e, n)
  OBVIOUS
<1>2. Older(e, n2)
  BY <1>1, OlderTransitive
<1>3. ASSUME e = n2 PROVE e = n
  BY <1>1, <1>3, OlderBothWays
<1> QED
  BY <1>2, <1>3

LEMMA GrowthEdit ==
  ASSUME KnownInv, GrowthInv, ~mode.revert, NEW s \in Source, NEW v \in 1 .. MaxVersion,
         Edit(s, v)
  PROVE  GrowthInv'
<1> USE FilesAssumption
<1>1. /\ disk' = [disk EXCEPT ![s] = Version(s, v)] /\ disk[s].version < v
      /\ UNCHANGED <<command, db, pc, entries, csig, at>>
  BY DEF Edit, buildVars
<1>2. s \in Node /\ s \notin Target /\ v \in Nat \ {0}
  BY BoundAssumption DEF Node
<1>3. \A n \in Node \ {s} : disk'[n] = disk[n]
  BY <1>1 DEF KnownInv, Domains
<1>4. disk'[s] = Version(s, v) /\ disk'[s].version = v
  BY <1>1, <1>2 DEF KnownInv, Domains, Version, Contents
<1>5. Leaves(disk) /\ command \in [Target -> Nat \ {0}]
  BY NewestFiles
<1>6. Leaves(disk') /\ \A r \in Source : disk[r].version <= disk'[r].version
  BY <1>1, <1>2, <1>3, <1>4, <1>5 DEF Leaves, Node
<1>7. \A t \in Target : command[t] <= command[t]
  BY <1>5
<1>8. \A n \in Node : Older(Newest[n], Newest'[n])
  <2>1. Newest' = CleanOf(disk', command)
    BY <1>1 DEF Newest
  <2> QED
    BY <1>5, <1>6, <1>7, <2>1, CleanGrows DEF Newest
<1>9. SignaturesGrow'
  <2>1. ASSUME pc # "idle", NEW r \in Source, csig[r] # Unknown
        PROVE  csig[r].version <= disk'[r].version
    <3>1. csig[r].version \in Nat /\ csig[r].version <= disk[r].version
      BY <2>1 DEF KnownInv, SignaturesTaken, GrowthInv, SignaturesGrow
    <3>2. disk[r].version \in Nat /\ disk'[r].version \in Nat
      BY <1>5, <1>6 DEF Leaves
    <3> QED
      BY <1>6, <3>1, <3>2
  <2> QED
    BY <1>1, <2>1 DEF SignaturesGrow
<1>10. ASSUME NEW t \in Target, NEW e, MatchesHonestly(e, t)
       PROVE  /\ MatchesHonestly(e, t)'
              /\ e # Newest[t] => e # Newest'[t]
  <2>1. t \in Node /\ disk'[t] = disk[t]
    BY <1>2, <1>3 DEF Node
  <2>2. Stored(e) => /\ Older(e, Newest'[t]) /\ (e = Newest'[t] => disk[t] = Newest'[t])
                     /\ e = Newest'[t] => e = Newest[t]
    BY <1>8, <1>10, <2>1, HonestlyGrown DEF MatchesHonestly
  <2>3. Stored(e) \/ e # Newest'[t]
    <3>1. Newest'[t].version \in Nat \ {0}
      BY <1>8, <2>1, OlderParts, ShapeOf
    <3> QED
      BY <3>1, NoContents DEF Stored
  <2> QED
    BY <2>1, <2>2, <2>3 DEF MatchesHonestly
<1>11. ASSUME pc # "idle"
       PROVE  \A t \in Target : Grown(t)'
  <2>1. \A r \in Source : View'[r] = (IF csig[r] = Unknown THEN disk'[r] ELSE csig[r])
    BY <1>1 DEF View, Node
  <2>2. /\ Leaves(View) /\ \A n \in Node : Least[n].of = n
        /\ \A n \in Node : Stored(Least[n])
    BY <1>11, LeastFiles DEF GrowthInv
  <2>3. Leaves(View') /\ \A r \in Source : View[r].version <= View'[r].version
    <3>1. ASSUME NEW r \in Source
          PROVE  /\ View'[r] = Version(r, View'[r].version)
                 /\ View'[r].version \in Nat \ {0}
                 /\ View[r].version <= View'[r].version
      <4>1. View[r] = (IF csig[r] = Unknown THEN disk[r] ELSE csig[r])
        BY DEF View, Node
      <4>2. View[r] = Version(r, View[r].version) /\ View[r].version \in Nat \ {0}
        BY <2>2 DEF Leaves
      <4>3. disk'[r] = Version(r, disk'[r].version) /\ disk'[r].version \in Nat \ {0}
        BY <1>6 DEF Leaves
      <4> QED
        BY <1>6, <2>1, <4>1, <4>2, <4>3
    <3> QED
      BY <3>1 DEF Leaves
  <2>4. \A n \in Node : Older(Least[n], Least'[n])
    <3>1. Least' = CleanOf(View', command)
      BY <1>1 DEF Least
    <3> QED
      BY <1>5, <1>7, <2>2, <2>3, <3>1, CleanGrows DEF Least
  <2>5. \A t \in Target : at[t] \in Ended => Least'[t] = Least[t]
    <3> DEFINE S == {t \in Target : at[t] \in Ended /\ Least'[t] # Least[t]}
    <3> SUFFICES ASSUME S # {} PROVE FALSE
      OBVIOUS
    <3>1. PICK t \in S : kids[t] \cap S = {}
      BY AcyclicAssumption
    <3>2. \A k \in kids[t] : k \in Node /\ csig[k] # Unknown
      BY <1>11, <3>1 DEF KnownInv, SignaturesTaken, Ended
    <3>3. ASSUME NEW k \in kids[t]
          PROVE  Least'[k] = Least[k]
      <4>1. CASE k \in Source
        <5>1. View'[k] = View[k]
          BY <2>1, <3>2, <4>1 DEF View
        <5>2. Least[k] = View[k] /\ Least'[k] = View'[k]
          BY <1>1, <4>1, CleanOfFiles DEF Least
        <5> QED
          BY <5>1, <5>2
      <4>2. CASE k \notin Source
        <5>1. k \in Target /\ at[k] \in Ended
          BY <1>11, <3>2, <4>2 DEF KnownInv, SignaturesTaken, Node
        <5> QED
          BY <3>1, <5>1
      <4> QED
        BY <4>1, <4>2
    <3>4. /\ Least[t] = Contents(t, command[t], [k \in kids[t] |-> Least[k]])
          /\ Least'[t] = Contents(t, command[t], [k \in kids[t] |-> Least'[k]])
      <4>1. Least' = CleanOf(View', command)
        BY <1>1 DEF Least
      <4> QED
        BY <4>1, CleanOfFiles DEF Least
    <3>5. Contents(t, command[t], [k \in kids[t] |-> Least'[k]]) =
            Contents(t, command[t], [k \in kids[t] |-> Least[k]])
      BY <3>3, SameKids
    <3> QED
      BY <3>1, <3>4, <3>5
  <2> SUFFICES ASSUME NEW t \in Target
               PROVE  Grown(t)'
    OBVIOUS
  <2>6. t \in Node /\ disk'[t] = disk[t] /\ Grown(t)
    BY <1>2, <1>3, <1>11 DEF Node, GrowthInv
  <2>7. MatchesHonestly(entries[t], t)'
    BY <1>1, <1>10, <2>6 DEF Grown, MatchesHonestly
  <2>8. Waiting(t)'
    <3> SUFFICES ASSUME at[t] = "waiting"
                 PROVE  /\ pc # "renaming" => entries[t] = db[t]
                        /\ Stored(entries[t]) =>
                             /\ Older(entries[t], Least'[t])
                             /\ entries[t] = Least'[t] => disk'[t] = Least'[t]
      BY <1>1 DEF Waiting, Stored
    <3>1. /\ pc # "renaming" => entries[t] = db[t]
          /\ Stored(entries[t]) =>
               /\ Older(entries[t], Least[t])
               /\ entries[t] = Least[t] => disk[t] = Least[t]
      BY <2>6 DEF Grown, Waiting
    <3> QED
      BY <2>4, <2>6, <3>1, HonestlyGrown
  <2>9. OutOfDate(t)'
    BY <1>1, <1>10, <2>6 DEF Grown, OutOfDate, GrowthInv
  <2>10. Between(t)'
    <3>1. Result(t, csig)' = Result(t, csig)
      BY <1>1 DEF Result
    <3>2. Older(Newest[t], Newest'[t])
      BY <1>8, <2>6
    <3> QED
      BY <1>1, <2>5, <2>6, <3>1, <3>2, OlderTransitive DEF Grown, Between
  <2> QED
    BY <2>7, <2>8, <2>9, <2>10 DEF Grown
<1>12. \A t \in Target : MatchesHonestly(db[t], t)'
  BY <1>1, <1>10 DEF GrowthInv
<1> QED
  BY <1>1, <1>9, <1>11, <1>12 DEF GrowthInv, MatchesHonestly

LEMMA GrowthEditCommand ==
  ASSUME KnownInv, GrowthInv, ~mode.revert, NEW t \in Target, NEW v \in 1 .. MaxVersion,
         EditCommand(t, v)
  PROVE  GrowthInv'
<1>1. /\ command' = [command EXCEPT ![t] = v] /\ command[t] < v /\ pc = "idle"
      /\ UNCHANGED <<disk, db, pc>>
  BY DEF EditCommand, buildVars
<1>2. Leaves(disk) /\ command \in [Target -> Nat \ {0}]
  BY NewestFiles
<1>3. v \in Nat \ {0}
  BY BoundAssumption
<1>4. command' \in [Target -> Nat \ {0}] /\ \A u \in Target : command[u] <= command'[u]
  BY <1>1, <1>2, <1>3
<1>5. \A s \in Source : disk[s].version <= disk[s].version
  BY <1>2 DEF Leaves
<1>6. \A n \in Node : Older(Newest[n], Newest'[n])
  <2>1. Newest' = CleanOf(disk, command')
    BY <1>1 DEF Newest
  <2> QED
    BY <1>2, <1>4, <1>5, <2>1, CleanGrows DEF Newest
<1>7. ASSUME NEW u \in Target
      PROVE  MatchesHonestly(db[u], u)'
  <2>1. Older(Newest[u], Newest'[u]) /\ MatchesHonestly(db[u], u)
    BY <1>6 DEF GrowthInv, Node
  <2>2. Stored(db[u]) => /\ Older(db[u], Newest'[u])
                         /\ db[u] = Newest'[u] => disk[u] = Newest'[u]
    BY <2>1, HonestlyGrown DEF MatchesHonestly
  <2> QED
    BY <1>1, <2>2 DEF MatchesHonestly, Stored
<1> QED
  BY <1>1, <1>7 DEF GrowthInv, SignaturesGrow

LEMMA GrowthFrame ==
  ASSUME KnownInv, GrowthInv, Start \/ Unlink \/ Rename \/ Interrupt \/ Kill \/ UNCHANGED vars
  PROVE  GrowthInv'
<1> USE FilesAssumption
<1>1. UNCHANGED <<disk, command>>
  BY DEF Start, Unlink, Rename, Interrupt, Kill, vars, fileVars
<1>2. Newest' = Newest
  BY <1>1 DEF Newest
<1>3. CASE Start
  <2>1. /\ pc = "idle" /\ pc' = "building" /\ db' = Opened /\ entries' = db'
        /\ csig' = [n \in Node |-> Unknown] /\ at' = Fresh
    BY <1>3 DEF Start
  <2>2. \A t \in Target : at'[t] = "waiting" /\ (db'[t] = db[t] \/ ~Stored(db'[t]))
    BY <2>1 DEF Fresh, Opened, Nothing, Stored
  <2>3. Least' = Newest
    <3>1. \A s \in Source : View'[s] = disk[s]
      BY <1>1, <2>1 DEF View, Node
    <3>2. CleanOf(View', command) = CleanOf(disk, command)
      BY <3>1, CleanSame
    <3> QED
      BY <1>1, <3>2 DEF Least, Newest
  <2>4. ASSUME NEW t \in Target
        PROVE  Stored(db'[t]) =>
                 Older(db'[t], Newest[t]) /\ (db'[t] = Newest[t] => disk[t] = Newest[t])
    BY <2>2 DEF GrowthInv, MatchesHonestly
  <2>5. \A t \in Target : MatchesHonestly(db[t], t)' /\ MatchesHonestly(entries[t], t)'
    BY <1>1, <1>2, <2>1, <2>4 DEF MatchesHonestly, Stored
  <2>6. \A t \in Target : Waiting(t)'
    BY <1>1, <2>1, <2>3, <2>4 DEF Waiting, Stored
  <2>7. \A t \in Target : OutOfDate(t)' /\ Between(t)'
    BY <2>2 DEF OutOfDate, Between, Ended
  <2>8. SignaturesGrow'
    BY <2>1 DEF SignaturesGrow, Node
  <2> QED
    BY <2>5, <2>6, <2>7, <2>8 DEF GrowthInv, Grown
<1>4. CASE Unlink
  <2>1. /\ pc # "idle" /\ pc' = "renaming" /\ db' = NoFile
        /\ UNCHANGED <<entries, csig, at>>
    BY <1>4 DEF Unlink, Building
  <2>2. \A t \in Target : db'[t] = Missing
    BY <2>1 DEF NoFile
  <2>3. Least' = Least
    BY <1>1, <2>1 DEF Least, View
  <2>4. SignaturesGrow'
    BY <1>1, <2>1 DEF GrowthInv, SignaturesGrow
  <2>5. \A t \in Target : MatchesHonestly(db[t], t)'
    BY <2>2 DEF MatchesHonestly, Stored
  <2>6. ASSUME NEW t \in Target PROVE Grown(t)'
    <3>1. Grown(t) /\ t \in Node
      BY <2>1 DEF GrowthInv, Node
    <3>2. MatchesHonestly(entries[t], t)'
      BY <1>1, <1>2, <2>1, <3>1 DEF Grown, MatchesHonestly, Stored
    <3>3. Waiting(t)'
      BY <1>1, <2>1, <2>3, <3>1 DEF Grown, Waiting, Stored
    <3>4. OutOfDate(t)'
      <4>1. Newest[t] # Missing
        BY <3>1, NewestFiles DEF Stored
      <4> QED
        BY <1>2, <2>1, <2>2, <3>1, <4>1 DEF Grown, OutOfDate
    <3>5. Between(t)'
      BY <1>1, <1>2, <2>1, <2>3, <3>1 DEF Grown, Between, Result
    <3> QED
      BY <3>2, <3>3, <3>4, <3>5 DEF Grown
  <2> QED
    BY <2>4, <2>5, <2>6 DEF GrowthInv
<1>5. CASE Rename
  <2>1. pc = "renaming" /\ pc' = "idle" /\ db' = entries
    BY <1>5 DEF Rename
  <2>2. \A t \in Target : MatchesHonestly(entries[t], t)
    BY <2>1 DEF GrowthInv, Grown
  <2>3. \A t \in Target : MatchesHonestly(db[t], t)'
    BY <1>1, <1>2, <2>1, <2>2 DEF MatchesHonestly, Stored
  <2> QED
    BY <2>1, <2>3 DEF GrowthInv, SignaturesGrow
<1>6. CASE Kill
  <2>1. pc' = "idle" /\ db' = db
    BY <1>6 DEF Kill, fileVars
  <2>2. \A t \in Target : MatchesHonestly(db[t], t)'
    BY <1>1, <1>2, <2>1 DEF GrowthInv, MatchesHonestly, Stored
  <2> QED
    BY <2>1, <2>2 DEF GrowthInv, SignaturesGrow
<1>7. CASE Interrupt \/ UNCHANGED vars
  <2>1. /\ UNCHANGED <<db, entries, csig, at>>
        /\ pc' # "idle" => pc # "idle"
        /\ pc' # "renaming" => pc # "renaming"
    BY <1>7 DEF Interrupt, vars, fileVars, buildVars
  <2>2. Least' = Least
    BY <1>1, <2>1 DEF Least, View
  <2>3. \A t \in Target : MatchesHonestly(db[t], t)'
    BY <1>1, <1>2, <2>1 DEF GrowthInv, MatchesHonestly, Stored
  <2>4. SignaturesGrow'
    BY <1>1, <2>1 DEF GrowthInv, SignaturesGrow
  <2>5. ASSUME pc # "idle", NEW t \in Target PROVE Grown(t)'
    <3>1. Grown(t)
      BY <2>5 DEF GrowthInv
    <3>2. MatchesHonestly(entries[t], t)'
      BY <1>1, <1>2, <2>1, <3>1 DEF Grown, MatchesHonestly, Stored
    <3>3. Waiting(t)'
      BY <1>1, <2>1, <2>2, <3>1 DEF Grown, Waiting, Stored
    <3>4. OutOfDate(t)' /\ Between(t)'
      BY <1>1, <1>2, <2>1, <2>2, <3>1 DEF Grown, OutOfDate, Between, Result
    <3> QED
      BY <3>2, <3>3, <3>4 DEF Grown
  <2> QED
    BY <2>1, <2>3, <2>4, <2>5 DEF GrowthInv
<1> QED
  BY <1>3, <1>4, <1>5, <1>6, <1>7

\* What a task decides by: an entry that matches is what the file holds
LEMMA MatchIsHonest ==
  ASSUME KnownInv, GrowthInv, pc # "idle", NEW t \in Target, at[t] = "waiting",
         \A k \in kids[t] \cap Target : at[k] \in Ended, TakeSignatures(t)
  PROVE  /\ Result(t, csig') = Result(t, View)
         /\ entries[t] = Result(t, View) =>
              entries[t] = Least[t] /\ disk[t] = Least[t]
         /\ entries[t] = Newest[t] => entries[t] = Result(t, View)
<1>1. \A k \in kids[t] : csig'[k] = View[k]
  BY FilesAssumption DEF TakeSignatures, View
<1>2. Result(t, csig') = Result(t, View)
  BY <1>1, SameKids DEF Result
<1>3. Older(Least[t], Result(t, View)) /\ Older(Result(t, View), Newest[t])
  BY MadeBetween, OlderTransitive
<1>4. Stored(entries[t]) =>
        /\ Older(entries[t], Least[t])
        /\ entries[t] = Least[t] => disk[t] = Least[t]
  BY DEF GrowthInv, Grown, Waiting
<1>5. ASSUME entries[t] = Result(t, View) \/ entries[t] = Newest[t]
      PROVE  Stored(entries[t])
  <2>1. entries[t].version \in Nat \ {0}
    BY <1>3, <1>5, OlderParts, ShapeOf
  <2> QED
    BY <2>1, NoContents DEF Stored
<1>6. ASSUME entries[t] = Result(t, View)
      PROVE  entries[t] = Least[t] /\ disk[t] = Least[t]
  BY <1>3, <1>4, <1>5, <1>6, OlderBothWays
<1>7. ASSUME entries[t] = Newest[t]
      PROVE  entries[t] = Result(t, View)
  <2>1. Older(entries[t], Result(t, View))
    BY <1>3, <1>4, <1>5, <1>7, OlderTransitive
  <2> QED
    BY <1>3, <1>7, <2>1, OlderBothWays
<1> QED
  BY <1>2, <1>6, <1>7

LEMMA GrowthTask ==
  ASSUME KnownInv, CacheTrue, GrowthInv, NEW t \in Target, Step(t) \/ CommandFails(t)
  PROVE  GrowthInv'
<1> USE FilesAssumption
<1>1. /\ pc \in {"building", "stopping"} /\ UNCHANGED <<command, db, pc>>
      /\ \A n \in Node \ {t} : disk'[n] = disk[n]
      /\ \A u \in Target \ {t} : at'[u] = at[u] /\ entries'[u] = entries[u]
      /\ \A n \in Node : csig[n] # Unknown => csig'[n] = csig[n]
      /\ \A n \in Node : csig'[n] \in {csig[n], disk[n]}
      /\ t \in Node /\ t \notin Source
  BY TaskFrame
<1>2. \A s \in Source : s \in Node /\ disk'[s] = disk[s]
  BY <1>1 DEF Node
<1>3. Newest' = Newest
  BY <1>1, <1>2, CleanSame DEF Newest
<1>4. Least' = Least
  <2>1. \A s \in Source : View'[s] = View[s]
    BY <1>1, <1>2 DEF View
  <2> QED
    BY <1>1, <2>1, CleanSame DEF Least
<1>5. SignaturesGrow'
  <2>1. \A s \in Source : disk[s].version <= disk[s].version
    BY NewestFiles DEF Leaves
  <2> QED
    BY <1>1, <1>2, <2>1 DEF GrowthInv, SignaturesGrow
<1>6. ASSUME NEW u \in Target \ {t}
      PROVE  MatchesHonestly(db[u], u)' /\ Grown(u)'
  <2>1. /\ Grown(u) /\ u \in Node /\ disk'[u] = disk[u]
        /\ at'[u] = at[u] /\ entries'[u] = entries[u]
    BY <1>1 DEF GrowthInv, Node
  <2>2. MatchesHonestly(db[u], u)' /\ MatchesHonestly(entries[u], u)'
    BY <1>1, <1>3, <2>1 DEF GrowthInv, Grown, MatchesHonestly, Stored
  <2>3. Waiting(u)' /\ OutOfDate(u)'
    BY <1>1, <1>3, <1>4, <2>1 DEF Grown, Waiting, OutOfDate, Stored
  <2>4. Between(u)'
    <3>1. at[u] # "waiting" => Result(u, csig)' = Result(u, csig)
      BY TaskSees
    <3> QED
      BY <1>1, <1>3, <1>4, <2>1, <3>1 DEF Grown, Between
  <2> QED
    BY <2>2, <2>3, <2>4 DEF Grown
<1>7. Grown(t) /\ MatchesHonestly(db[t], t) /\ pc # "idle"
  BY <1>1 DEF GrowthInv
<1>8. MatchesHonestly(db[t], t)' /\ Grown(t)'
  <2>1. CASE DecideCurrent(t) /\ at[t] = "waiting" /\ at'[t] = "current"
             /\ disk' = disk /\ entries' = entries
    <3>1. /\ TakeSignatures(t) /\ entries[t] = Result(t, csig')
          /\ \A k \in kids[t] \cap Target : at[k] \in Ended
      BY <2>1 DEF DecideCurrent, Ready, Current
    <3>2. entries[t] = Least[t] /\ disk[t] = Least[t]
      BY <1>7, <2>1, <3>1, MatchIsHonest
    <3>3. Older(Least[t], Newest[t]) /\ Older(Least[t], Least[t])
      BY <1>1, <1>7, LeastFiles, OlderSelf DEF GrowthInv
    <3>4. Between(t)'
      BY <1>1, <1>3, <1>4, <2>1, <3>2, <3>3 DEF Between, Ended
    <3>5. Waiting(t)' /\ OutOfDate(t)'
      BY <2>1 DEF Waiting, OutOfDate
    <3> QED
      BY <1>1, <1>3, <1>7, <2>1, <3>4, <3>5 DEF Grown, MatchesHonestly, Stored
  <2>2. CASE DecideBuild(t) /\ at[t] = "waiting" /\ at'[t] = "building" /\ entries' = entries
    <3>1. /\ TakeSignatures(t) /\ ~Current(t) /\ pc = "building"
          /\ \A k \in kids[t] \cap Target : at[k] \in Ended
      BY <2>2 DEF DecideBuild, Ready
    <3>2. entries[t] # Newest[t]
      <4> SUFFICES ASSUME entries[t] = Newest[t] PROVE FALSE
        OBVIOUS
      <4>1. entries[t] = Result(t, csig') /\ disk[t] = Least[t]
        BY <1>7, <2>2, <3>1, MatchIsHonest
      <4>2. Least[t] # Missing
        BY <1>1, <1>7, LeastFiles DEF GrowthInv, Stored
      <4> QED
        BY <3>1, <4>1, <4>2 DEF Current
    <3>3. entries[t] = db[t]
      BY <1>7, <2>2, <3>1 DEF Grown, Waiting
    <3>4. MatchesHonestly(db[t], t)' /\ MatchesHonestly(entries[t], t)'
      BY <1>1, <1>3, <1>7, <2>2, <3>2, <3>3 DEF MatchesHonestly, Stored
    <3>5. Waiting(t)' /\ OutOfDate(t)' /\ Between(t)'
      BY <1>1, <1>3, <2>2, <3>2, <3>3 DEF Waiting, OutOfDate, Between, Ended
    <3> QED
      BY <3>4, <3>5 DEF Grown
  <2>3. CASE ~DecideCurrent(t) /\ ~DecideBuild(t)
    <3>1. at[t] \in {"building", "writing", "written"} /\ csig' = csig
      BY <2>3, TaskEffect
    <3>2. /\ Result(t, View) = Result(t, csig)
          /\ Older(Least[t], Result(t, csig))
          /\ Older(Result(t, csig), Result(t, disk))
          /\ Older(Result(t, disk), Newest[t])
          /\ Older(Result(t, csig), Result(t, csig))
          /\ Older(Result(t, csig), Newest[t])
      <4>1. /\ Result(t, View) = Result(t, csig)
            /\ \A k \in kids[t] \cap Target : at[k] \in Ended
        BY <1>7, <3>1, SeesView
      <4> QED
        BY <1>7, <4>1, MadeBetween, OlderSelf, OlderTransitive
    <3>3. Result(t, csig)' = Result(t, csig)
      BY <1>1, <3>1 DEF Result
    <3>4. db[t] # Newest[t] /\ entries[t] # Newest[t]
      BY <1>7, <3>1 DEF Grown, OutOfDate
    <3>5. MatchesHonestly(db[t], t)'
      BY <1>1, <1>3, <1>7, <3>4 DEF MatchesHonestly, Stored
    <3>6. Waiting(t)'
      <4>1. at'[t] # "waiting"
        BY <2>3, TaskEffect
      <4> QED
        BY <4>1 DEF Waiting
    <3>7. CASE at'[t] = "written"
      <4>1. entries' = entries
        BY <2>3, <3>1, <3>7, TaskEffect
      <4>2. ASSUME NEW c \in Cached(t) PROVE c.contents = Result(t, csig)
        BY <4>2 DEF Cached, CacheTrue
      <4>3. disk'[t] = Result(t, csig) \/ disk'[t] = Result(t, disk)
        BY <2>3, <3>7, <4>2, TaskEffect
      <4>4. Between(t)'
        BY <1>3, <3>2, <3>3, <3>7, <4>3 DEF Between, Ended
      <4>5. OutOfDate(t)' /\ MatchesHonestly(entries[t], t)'
        BY <1>1, <1>3, <1>7, <3>4, <4>1 DEF Grown, OutOfDate, MatchesHonestly, Stored
      <4> QED
        BY <3>5, <3>6, <4>4, <4>5 DEF Grown
    <3>8. CASE at'[t] = "built"
      <4>1. at[t] = "written" /\ disk' = disk /\ entries'[t] = Result(t, csig)
        BY <2>3, <3>8, TaskEffect
      <4>2. Older(Result(t, csig), disk[t]) /\ Older(disk[t], Newest[t])
        BY <1>7, <4>1 DEF Grown, Between
      <4>3. Between(t)'
        BY <1>3, <1>4, <3>2, <3>8, <4>1, <4>2, OlderTransitive DEF Between, Ended
      <4>4. OutOfDate(t)'
        BY <1>1, <1>3, <3>4, <3>8 DEF OutOfDate
      <4>5. Result(t, csig) = Newest[t] => disk[t] = Newest[t]
        BY <4>2, OlderBothWays
      <4>6. MatchesHonestly(entries[t], t)'
        BY <1>3, <3>2, <4>1, <4>5 DEF MatchesHonestly, Stored
      <4> QED
        BY <3>5, <3>6, <4>3, <4>4, <4>6 DEF Grown
    <3>9. CASE at'[t] \in {"writing", "failed"}
      <4>1. entries' = entries
        BY <2>3, <3>9, TaskEffect
      <4>2. OutOfDate(t)' /\ MatchesHonestly(entries[t], t)' /\ Between(t)'
        BY <1>1, <1>3, <1>7, <3>4, <3>9, <4>1
           DEF Grown, OutOfDate, MatchesHonestly, Stored, Between, Ended
      <4> QED
        BY <3>5, <3>6, <4>2 DEF Grown
    <3> QED
      BY <2>3, <3>7, <3>8, <3>9, TaskEffect
  <2>4. /\ DecideCurrent(t) => at[t] = "waiting" /\ at'[t] = "current"
        /\ DecideBuild(t) => at[t] = "waiting" /\ at'[t] = "building"
    BY DEF DecideCurrent, DecideBuild, Ready, KnownInv, Domains
  <2> QED
    BY <2>1, <2>2, <2>3, <2>4, TaskEffect
<1> QED
  BY <1>5, <1>6, <1>8 DEF GrowthInv

LEMMA GrowthNext ==
  ASSUME KnownInv, CacheTrue, GrowthInv, ~mode.revert, [Next]_vars
  PROVE  GrowthInv'
BY GrowthEdit, GrowthEditCommand, GrowthFrame, GrowthTask DEF Next, Build, User, Remove

\* Where everything stored is what the file was made of, all files are clean
LEMMA GrownSettled ==
  ASSUME KnownInv, GrowthInv, settled, NEW t \in Target
  PROVE  disk[t] = Newest[t]
<1> USE FilesAssumption
<1> DEFINE e(u) == IF pc = "idle" THEN db[u] ELSE entries[u]
           S == {u \in Target : disk[u] # Newest[u]}
<1>1. \A u \in Target : e(u) = Result(u, disk) /\ MatchesHonestly(e(u), u)
  BY DEF KnownInv, SettledStored, GrowthInv, Grown
<1> HIDE DEF e
<1>2. S = {}
  <2> SUFFICES ASSUME S # {} PROVE FALSE
    OBVIOUS
  <2>1. PICK u \in S : kids[u] \cap S = {}
    BY AcyclicAssumption
  <2>2. ASSUME NEW k \in kids[u] PROVE disk[k] = Newest[k]
    BY <2>1, NewestFiles DEF Node
  <2>3. Result(u, disk) = Result(u, Newest)
    BY <2>2, SameKids DEF Result
  <2>4. e(u) = Newest[u] /\ Stored(Newest[u])
    BY <1>1, <2>3, NewestFiles DEF Node
  <2> QED
    BY <1>1, <2>4 DEF MatchesHonestly
<1> QED
  BY <1>2

-----------------------------------------------------------------------------
(* Steady modes: nothing races a build that shares a cache, and where        *)
(* versions come back nothing fails or races.                                *)

Steady == CacheQuiet /\ (mode.revert => Returning)

\* Built from whole files
Whole(e, t) ==
  e = Unknown \/
    /\ e.of = t
    /\ \A k \in kids[t] : e.from[k].version \in Nat \ {0}

WholeInv ==
  /\ db = NoFile \/ \A t \in Target : Whole(db[t], t)
  /\ \A t \in Target : Whole(entries[t], t)

SteadyInv ==
  /\ KnownInv
  /\ CacheQuiet => CacheInv
  /\ CacheQuiet /\ Returning => StoredOnDisk
  /\ CacheQuiet /\ ~mode.revert => GrowthInv
  /\ Steady => WholeInv

\* Half a file is never taken for current
LEMMA CurrentIsStored ==
  ASSUME SteadyInv, Steady, pc # "idle", NEW t \in Target, at[t] = "current"
  PROVE  disk[t] = entries[t]
<1>1. CASE mode.revert
  <2>1. StoredOnDisk /\ disk[t] # Missing
    BY <1>1 DEF SteadyInv, Steady, KnownInv, EndedStored
  <2> QED
    BY <2>1 DEF StoredOnDisk
<1>2. CASE ~mode.revert
  BY <1>2 DEF SteadyInv, Steady, GrowthInv, Grown, Between
<1> QED
  BY <1>1, <1>2

LEMMA TakenWhole ==
  ASSUME SteadyInv, Steady, pc # "idle", NEW n \in Node, csig[n] # Unknown
  PROVE  csig[n].version \in Nat \ {0}
<1>1. KnownInv
  BY DEF SteadyInv
<1>2. CASE n \in Source
  BY <1>1, <1>2 DEF KnownInv, SignaturesTaken
<1>3. CASE n \notin Source
  <2>1. n \in Target /\ csig[n] = disk[n] /\ at[n] \in Ended
    BY <1>1, <1>3 DEF KnownInv, SignaturesTaken, Node
  <2>2. CASE at[n] = "built"
    BY <1>1, <2>1, <2>2 DEF KnownInv, EndedStored
  <2>3. CASE at[n] = "current"
    <3>1. disk[n] = Result(n, csig)
      BY <1>1, <2>1, <2>3, CurrentIsStored DEF KnownInv, EndedStored
    <3>2. Result(n, csig).version = command[n] /\ command[n] \in Nat \ {0}
      BY <1>1, <2>1, NewestFiles, ResultParts
    <3> QED
      BY <2>1, <3>1, <3>2
  <2> QED
    BY <2>1, <2>2, <2>3 DEF Ended
<1> QED
  BY <1>2, <1>3

LEMMA WholeNext ==
  ASSUME SteadyInv, Steady, [Next]_vars
  PROVE  WholeInv'
<1>1. WholeInv /\ KnownInv
  BY DEF SteadyInv
<1>2. ASSUME NEW t \in Target, Step(t) \/ CommandFails(t)
      PROVE  WholeInv'
  <2>1. pc # "idle" /\ db' = db /\ \A u \in Target \ {t} : entries'[u] = entries[u]
    BY <1>1, <1>2, TaskFrame
  <2>2. CASE entries'[t] = entries[t]
    BY <1>1, <2>1, <2>2 DEF WholeInv, Whole
  <2>3. CASE entries'[t] # entries[t]
    <3>1. at[t] = "written" /\ entries'[t] = Result(t, csig)
      BY <1>1, <1>2, <2>3, TaskEffect
    <3>2. \A k \in kids[t] : csig[k].version \in Nat \ {0}
      <4>1. \A k \in kids[t] : k \in Node /\ csig[k] # Unknown
        BY <1>1, <2>1, <3>1, FilesAssumption DEF KnownInv, SignaturesTaken
      <4> QED
        BY <2>1, <4>1, TakenWhole
    <3>3. /\ Result(t, csig).of = t
          /\ Result(t, csig).from = [k \in kids[t] |-> csig[k]]
      BY ResultParts
    <3>4. Whole(entries'[t], t)
      BY <3>1, <3>2, <3>3 DEF Whole
    <3> QED
      BY <1>1, <2>1, <3>4 DEF WholeInv, Whole
  <2> QED
    BY <2>2, <2>3
<1>3. CASE Start
  <2>1. db' = Opened /\ entries' = db'
    BY <1>3 DEF Start
  <2>2. \A t \in Target : Whole(Opened[t], t)
    BY <1>1 DEF WholeInv, Opened, Nothing, Whole
  <2> QED
    BY <2>1, <2>2 DEF WholeInv, Whole
<1>4. CASE Unlink
  BY <1>1, <1>4 DEF Unlink, WholeInv, Whole, NoFile
<1>5. CASE Rename
  BY <1>1, <1>5 DEF Rename, WholeInv, Whole
<1>6. CASE User \/ Interrupt \/ Kill \/ UNCHANGED vars
  <2>1. db' = db /\ entries' = entries
    BY <1>6 DEF User, Edit, EditCommand, Remove, Interrupt, Kill, vars, fileVars, buildVars
  <2> QED
    BY <1>1, <2>1 DEF WholeInv, Whole, NoFile
<1> QED
  BY <1>2, <1>3, <1>4, <1>5, <1>6 DEF Next, Build

LEMMA SteadyAlways == Spec => []SteadyInv
<1>1. Init => SteadyInv
  <2> SUFFICES ASSUME Init PROVE SteadyInv
    OBVIOUS
  <2>1. CacheInv
    BY DEF Init, CacheInv, CacheTrue, CalmBuilds, CalmWritten
  <2>2. WholeInv
    BY DEF Init, WholeInv, Whole, Nothing
  <2> QED
    BY <2>1, <2>2, KnownInit, StoredInit, GrowthInit DEF SteadyInv
<1>2. SteadyInv /\ [Next]_vars => SteadyInv'
  <2> SUFFICES ASSUME SteadyInv, [Next]_vars PROVE SteadyInv'
    OBVIOUS
  <2>1. mode' = mode
    BY ModeStays
  <2>2. KnownInv /\ KnownInv'
    BY KnownNext DEF SteadyInv
  <2>3. (CacheQuiet => CacheInv)'
    BY <2>1, <2>2, CacheNext DEF SteadyInv, CacheQuiet
  <2>4. (CacheQuiet /\ Returning => StoredOnDisk)'
    BY <2>1, <2>2, StoredNext DEF SteadyInv, CacheQuiet, Returning
  <2>5. (CacheQuiet /\ ~mode.revert => GrowthInv)'
    <3> SUFFICES ASSUME CacheQuiet, ~mode.revert PROVE GrowthInv'
      BY <2>1 DEF CacheQuiet
    <3>1. CacheTrue /\ GrowthInv
      BY DEF SteadyInv, CacheInv
    <3> QED
      BY <2>2, <3>1, GrowthNext
  <2>6. (Steady => WholeInv)'
    BY <2>1, WholeNext DEF Steady, CacheQuiet, Returning
  <2> QED
    BY <2>2, <2>3, <2>4, <2>5, <2>6 DEF SteadyInv
<1> QED
  BY <1>1, <1>2, PTL DEF Spec

\* In steady modes the values have their kinds, and what is stored of a target
\* was built from whole files: a half-written one is never signed as current.
THEOREM TypesSteady == Spec => [](Steady => TypeOK)
<1>1. SteadyInv => (Steady => TypeOK)
  <2> SUFFICES ASSUME SteadyInv, Steady PROVE TypeOK
    OBVIOUS
  <2>1. KnownInv /\ WholeInv
    BY DEF SteadyInv
  <2>2. /\ mode \in Modes
        /\ pc \in {"idle", "building", "stopping", "renaming"}
        /\ calm \in BOOLEAN /\ settled \in BOOLEAN
        /\ db = NoFile => pc \in {"idle", "renaming"}
    BY <2>1 DEF KnownInv, Phases
  <2>3. \A n \in Node : disk[n] = Missing \/ disk[n].of = n
    BY <2>1 DEF KnownInv, Named
  <2>4. /\ command \in [Target -> 1 .. MaxVersion] /\ at \in [Target -> Known]
        /\ edits \in 0 .. MaxEdits /\ trouble \in 0 .. MaxTrouble
    BY <2>1 DEF KnownInv, Versions, Domains, Counters
  <2>5. \A t \in Target : entries[t] = Unknown \/
          (/\ entries[t].of = t
           /\ \A k \in kids[t] : entries[t].from[k] # Partial(k))
    <3>1. \A k \in Node : Partial(k).version = 0
      BY DEF Partial, Contents
    <3> QED
      BY <2>1, <3>1, FilesAssumption DEF WholeInv, Whole
  <2> QED
    BY <2>2, <2>3, <2>4, <2>5 DEF TypeOK
<1> QED
  BY <1>1, SteadyAlways, PTL

\* After a good build during which nothing was edited every target is what a
\* build from nothing makes of the sources, in all steady modes and whatever
\* failed, was killed or was edited before: where versions only grow an old
\* signature can match nothing new, and where they come back what is stored is
\* what the files hold.
THEOREM SettledIsCleanSteady == Spec => [](Steady => SettledIsClean)
<1>1. SteadyInv => (Steady => SettledIsClean)
  <2> SUFFICES ASSUME SteadyInv, Steady, settled, NEW t \in Target
               PROVE  disk[t] = Clean[t]
    BY DEF SettledIsClean
  <2>1. KnownInv /\ Clean = Newest
    BY CleanIsCleanOf DEF SteadyInv, Newest
  <2>2. CASE mode.revert
    <3>1. StoredOnDisk
      BY <2>2 DEF SteadyInv, Steady
    <3> DEFINE f == [n \in Node |-> disk[n]]
    <3>2. \A u \in Target : u \in Node /\ u \notin Source /\ kids[u] \subseteq Node
      BY FilesAssumption DEF Node
    <3>3. \A u \in Target : disk[u] = Contents(u, command[u], [k \in kids[u] |-> f[k]])
      <4>1. ASSUME NEW u \in Target
            PROVE  disk[u] = Contents(u, command[u], [k \in kids[u] |-> f[k]])
        <5>1. disk[u] = Contents(u, command[u], [k \in kids[u] |-> disk[k]])
          BY <2>1, <3>1, ReturningSettled DEF Result
        <5>2. \A k \in kids[u] : disk[k] = f[k]
          BY <3>2
        <5>3. Contents(u, command[u], [k \in kids[u] |-> disk[k]]) =
                Contents(u, command[u], [k \in kids[u] |-> f[k]])
          BY <5>2, SameKids
        <5> QED
          BY <5>1, <5>3
      <4> QED
        BY <4>1
    <3>4. Cleans(f, disk, command, Node)
      <4>1. \A n \in Node :
              f[n] = IF n \in Source THEN disk[n]
                     ELSE Contents(n, command[n], [k \in kids[n] |-> f[k]])
        BY <3>3 DEF Node
      <4> QED
        BY <4>1 DEF Cleans
    <3>5. f = Newest
      BY <3>4, CleanIsUnique DEF Newest
    <3> QED
      BY <2>1, <3>2, <3>5
  <2>3. CASE ~mode.revert
    <3>1. GrowthInv
      BY <2>3 DEF SteadyInv, Steady
    <3> QED
      BY <2>1, <3>1, GrownSettled
  <2> QED
    BY <2>2, <2>3
<1> QED
  BY <1>1, SteadyAlways, PTL
=============================================================================
