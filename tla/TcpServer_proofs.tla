------------------------- MODULE TcpServer_proofs -------------------------
(* The server touches no descriptor the kernel gave to another connection, *)
(* and serves clients that wait for each answer one result per request, for *)
(* every number of connections, descriptors and requests.                   *)
EXTENDS TcpServer, FiniteSetTheorems, TLAPS

(* Sequences without repetitions, and ranks                                  *)

LEMMA ToSetHas ==
  ASSUME NEW s, NEW i \in DOMAIN s
  PROVE  s[i] \in ToSet(s)
BY DEF ToSet

LEMMA AppendDistinct ==
  ASSUME NEW T, NEW s \in Seq(T), NEW x \in T, IsInjective(s), x \notin ToSet(s)
  PROVE  /\ Append(s, x) \in Seq(T)
         /\ IsInjective(Append(s, x))
         /\ ToSet(Append(s, x)) = ToSet(s) \cup {x}
<1>1. /\ Append(s, x) \in Seq(T) /\ DOMAIN Append(s, x) = 1 .. Len(s) + 1
      /\ Append(s, x)[Len(s) + 1] = x /\ Len(s) + 1 \in 1 .. Len(s) + 1
      /\ \A i \in 1 .. Len(s) : Append(s, x)[i] = s[i]
      /\ DOMAIN s = 1 .. Len(s) /\ Len(s) \in Nat
  OBVIOUS
<1> DEFINE a == Append(s, x)
<1> HIDE DEF a
<1>2. \A i \in DOMAIN a : i = Len(s) + 1 \/ i \in DOMAIN s
  BY <1>1 DEF a
<1>3. IsInjective(a)
  BY <1>1, <1>2 DEF IsInjective, ToSet, a
<1>4. ToSet(a) = ToSet(s) \cup {x}
  <2>1. ToSet(a) \subseteq ToSet(s) \cup {x}
    BY <1>1, <1>2 DEF ToSet, a
  <2>2. x \in ToSet(a)
    BY <1>1, ToSetHas DEF a
  <2>3. ToSet(s) \subseteq ToSet(a)
    <3>1. ASSUME NEW i \in DOMAIN s PROVE s[i] \in ToSet(a)
      <4>1. i \in DOMAIN a /\ a[i] = s[i]
        BY <1>1 DEF a
      <4> QED
        BY <4>1 DEF ToSet
    <3> QED
      BY <3>1 DEF ToSet
  <2> QED
    BY <2>1, <2>2, <2>3
<1> QED
  BY <1>1, <1>3, <1>4 DEF a

LEMMA TailDistinct ==
  ASSUME NEW T, NEW s \in Seq(T), s # <<>>, IsInjective(s)
  PROVE  /\ Head(s) \in ToSet(s) /\ Head(s) \in T
         /\ Tail(s) \in Seq(T) /\ IsInjective(Tail(s))
         /\ ToSet(Tail(s)) \subseteq ToSet(s) \ {Head(s)}
<1>1. /\ Head(s) = s[1] /\ 1 \in DOMAIN s /\ Head(s) \in T
      /\ Tail(s) \in Seq(T) /\ DOMAIN Tail(s) = 1 .. Len(s) - 1
      /\ \A i \in 1 .. Len(s) - 1 : Tail(s)[i] = s[i + 1] /\ i + 1 \in DOMAIN s /\ i + 1 # 1
  OBVIOUS
<1>2. IsInjective(Tail(s))
  <2> SUFFICES ASSUME NEW i \in DOMAIN Tail(s), NEW j \in DOMAIN Tail(s), Tail(s)[i] = Tail(s)[j]
               PROVE  i = j
    BY DEF IsInjective
  <2>1. i \in Int /\ j \in Int /\ i + 1 \in DOMAIN s /\ j + 1 \in DOMAIN s
    BY <1>1
  <2>2. s[i + 1] = s[j + 1]
    BY <1>1
  <2>3. i + 1 = j + 1
    BY <2>1, <2>2 DEF IsInjective
  <2> QED
    BY <2>1, <2>3
<1>3. ToSet(Tail(s)) \subseteq ToSet(s) \ {Head(s)}
  <2>1. ASSUME NEW i \in DOMAIN Tail(s)
        PROVE  Tail(s)[i] \in ToSet(s) /\ Tail(s)[i] # Head(s)
    <3>1. Tail(s)[i] = s[i + 1] /\ i + 1 \in DOMAIN s /\ i + 1 # 1
      BY <1>1
    <3>2. s[i + 1] # s[1]
      BY <1>1, <3>1 DEF IsInjective
    <3> QED
      BY <1>1, <3>1, <3>2, ToSetHas
  <2> QED
    BY <2>1 DEF ToSet
<1> QED
  BY <1>1, <1>2, <1>3, ToSetHas

\* The numbers of a finite set have the places from the first to the last
LEMMA Ranks ==
  ASSUME NEW S \in SUBSET Int, IsFiniteSet(S)
  PROVE  /\ Cardinality(S) \in Nat
         /\ \A i \in S : Rank(S, i) \in 1 .. Cardinality(S)
         /\ \A i \in S, j \in S : Rank(S, i) = Rank(S, j) => i = j
         /\ \A n \in 1 .. Cardinality(S) : \E i \in S : Rank(S, i) = n
<1> DEFINE n == Cardinality(S)
           Upto(i) == {h \in S : h <= i}
<1>1. n \in Nat
  BY FS_CardinalityType
<1>2. \A i \in S : Rank(S, i) = Cardinality(Upto(i)) /\ Upto(i) \in SUBSET S /\ i \in Upto(i)
  BY DEF Rank
<1> HIDE DEF n
<1>3. ASSUME NEW i \in S
      PROVE  IsFiniteSet(Upto(i)) /\ Rank(S, i) \in 1 .. n
  <2>1. IsFiniteSet(Upto(i)) /\ Cardinality(Upto(i)) <= n
    BY <1>2, FS_Subset DEF n
  <2>2. Cardinality(Upto(i)) \in Nat /\ Cardinality(Upto(i)) # 0
    BY <1>2, <2>1, FS_CardinalityType, FS_EmptySet
  <2> QED
    BY <1>1, <1>2, <2>1, <2>2
<1>4. ASSUME NEW i \in S, NEW j \in S, Rank(S, i) = Rank(S, j), i < j
      PROVE  FALSE
  <2>1. Upto(i) \in SUBSET Upto(j) /\ j \in Upto(j) /\ j \notin Upto(i)
    <3>1. i \in Int /\ j \in Int /\ \A h \in S : h \in Int
      OBVIOUS
    <3>2. \A h \in S : h <= i => h <= j
      BY <1>4, <3>1
    <3>3. ~(j <= i) /\ j <= j
      BY <1>4, <3>1
    <3> QED
      BY <3>2, <3>3
  <2>2. IsFiniteSet(Upto(j)) /\ Cardinality(Upto(j)) = Cardinality(Upto(i))
    BY <1>2, <1>3, <1>4
  <2>3. Upto(j) = Upto(i)
    BY <2>1, <2>2, FS_Subset
  <2> QED
    BY <2>1, <2>3
<1>5. \A i \in S, j \in S : Rank(S, i) = Rank(S, j) => i = j
  <2> SUFFICES ASSUME NEW i \in S, NEW j \in S, Rank(S, i) = Rank(S, j), i # j
               PROVE  FALSE
    OBVIOUS
  <2>1. i < j \/ j < i
    OBVIOUS
  <2> QED
    BY <1>4, <2>1
<1> DEFINE f == [i \in S |-> Rank(S, i)]
<1>6. f \in Injection(S, 1 .. n)
  <2>1. f \in [S -> 1 .. n]
    BY <1>3
  <2>2. IsInjective(f)
    BY <1>5 DEF IsInjective
  <2> QED
    BY <2>1, <2>2 DEF Injection
<1>7. IsFiniteSet(1 .. n) /\ Cardinality(1 .. n) = n
  BY <1>1, FS_Interval
<1>8. f \in Surjection(S, 1 .. n)
  <2>1. Cardinality(S) = Cardinality(1 .. n)
    BY <1>7 DEF n
  <2> HIDE DEF f
  <2> QED
    BY <1>6, <1>7, <2>1, FS_Injection
<1>9. \A m \in 1 .. n : \E i \in S : Rank(S, i) = m
  BY <1>8 DEF Surjection
<1> QED
  BY <1>1, <1>3, <1>5, <1>9 DEF n

\* so that there is a least one
LEMMA Least ==
  ASSUME NEW S \in SUBSET Int, IsFiniteSet(S), S # {}
  PROVE  \E m \in S : \A i \in S : m <= i
<1>1. Cardinality(S) \in Nat /\ Cardinality(S) # 0
  BY FS_CardinalityType, FS_EmptySet
<1>2. PICK m \in S : Rank(S, m) = 1
  BY <1>1, Ranks
<1> DEFINE U == {h \in S : h <= m}
<1>3. U \in SUBSET S /\ m \in U /\ Cardinality(U) = 1
  BY <1>2 DEF Rank
<1>4. \E x : U = {x}
  BY <1>3, FS_Subset, FS_Singleton
<1>5. \A i \in S : i <= m => i = m
  BY <1>3, <1>4
<1> QED
  BY <1>5

LEMMA KeptClients ==
  ASSUME NEW T, clients \in Seq(T), IsInjective(clients)
  PROVE  /\ Kept \in Seq(T) /\ IsInjective(Kept)
         /\ ToSet(Kept) = ToSet(clients) \ ToSet(purge)
<1> DEFINE S == {i \in DOMAIN clients : clients[i] \notin ToSet(purge)}
           Place(j) == CHOOSE i \in S : Rank(S, i) = j
<1>1. DOMAIN clients = 1 .. Len(clients) /\ Len(clients) \in Nat
  OBVIOUS
<1>2. S \in SUBSET Int /\ IsFiniteSet(S)
  <2>1. IsFiniteSet(DOMAIN clients) /\ S \in SUBSET DOMAIN clients
    BY <1>1, FS_Interval
  <2>2. IsFiniteSet(S)
    BY <2>1, FS_Subset
  <2> QED
    BY <1>1, <2>1, <2>2
<1>3. \A i \in S : i \in DOMAIN clients /\ clients[i] \in T /\ clients[i] \notin ToSet(purge)
  BY <1>1
<1>4. \A i \in DOMAIN clients : clients[i] \notin ToSet(purge) => i \in S
  OBVIOUS
<1>5. Kept = [j \in 1 .. Cardinality(S) |-> clients[Place(j)]]
  BY DEF Kept
<1> HIDE DEF S
<1>6. /\ Cardinality(S) \in Nat
      /\ \A i \in S : Rank(S, i) \in 1 .. Cardinality(S)
      /\ \A i \in S, j \in S : Rank(S, i) = Rank(S, j) => i = j
      /\ \A j \in 1 .. Cardinality(S) : \E i \in S : Rank(S, i) = j
  BY <1>2, Ranks
<1>7. \A j \in 1 .. Cardinality(S) : Place(j) \in S /\ Rank(S, Place(j)) = j
  BY <1>6
<1>8. \A i \in S : Rank(S, i) \in 1 .. Cardinality(S) /\ Place(Rank(S, i)) = i
  BY <1>6, <1>7
<1> HIDE DEF Place
<1>9. \A j \in 1 .. Cardinality(S) : Kept[j] = clients[Place(j)] /\ Kept[j] \in T
  BY <1>3, <1>5, <1>7
<1>10. Kept \in Seq(T) /\ DOMAIN Kept = 1 .. Cardinality(S)
  <2>1. Kept \in [1 .. Cardinality(S) -> T]
    BY <1>5, <1>9
  <2> QED
    BY <1>6, <2>1
<1>11. IsInjective(Kept)
  <2> SUFFICES ASSUME NEW j \in 1 .. Cardinality(S), NEW h \in 1 .. Cardinality(S),
                      Kept[j] = Kept[h]
               PROVE  j = h
    BY <1>10 DEF IsInjective
  <2>1. Place(j) = Place(h)
    BY <1>3, <1>7, <1>9 DEF IsInjective
  <2> QED
    BY <1>7, <2>1
<1>12. ToSet(Kept) \subseteq ToSet(clients) \ ToSet(purge)
  <2>1. ASSUME NEW j \in 1 .. Cardinality(S)
        PROVE  Kept[j] \in ToSet(clients) \ ToSet(purge)
    BY <1>3, <1>7, <1>9, ToSetHas
  <2> QED
    BY <1>10, <2>1 DEF ToSet
<1>13. ToSet(clients) \ ToSet(purge) \subseteq ToSet(Kept)
  <2>1. ASSUME NEW i \in DOMAIN clients, clients[i] \notin ToSet(purge)
        PROVE  clients[i] \in ToSet(Kept)
    <3>1. Rank(S, i) \in DOMAIN Kept /\ Kept[Rank(S, i)] = clients[i]
      BY <1>4, <1>8, <1>9, <1>10, <2>1
    <3> QED
      BY <3>1 DEF ToSet
  <2> QED
    BY <2>1 DEF ToSet
<1> QED
  BY <1>10, <1>11, <1>12, <1>13

\* accept gives the lowest descriptor that is free
LEMMA FreeFdFree ==
  ASSUME \E n \in 1 .. MaxFd : conn \in [1 .. n -> Conn \cup {None}], Open # Fd
  PROVE  FreeFd \in Fd \ Open
<1>1. Fd \ Open \in SUBSET Int /\ IsFiniteSet(Fd) /\ Fd \ Open # {}
  <2>1. PICK n \in 1 .. MaxFd : Fd = 1 .. n
    BY DEF Fd
  <2>2. n \in Int /\ IsFiniteSet(1 .. n)
    BY ServerAssumption, FS_Interval
  <2> QED
    BY <2>1, <2>2 DEF Open
<1>2. IsFiniteSet(Fd \ Open)
  BY <1>1, FS_Subset
<1>3. \E f \in Fd \ Open : \A g \in Fd \ Open : f <= g
  BY <1>1, <1>2, Least
<1> QED
  BY <1>3 DEF FreeFd

-----------------------------------------------------------------------------
(* What the server keeps of its connections                                  *)

\* In a round the server purges only clients it has passed, and it accepts
\* only what waits: between poll and accept the kernel's queue does not shrink.
Rounds ==
  pc # "dead" =>
    /\ IsInjective(backlog)
    /\ \A c \in ToSet(backlog) : link[c] # "new"
    /\ \A f \in Open : link[conn[f]] # "new"
    /\ pc \in {"setup", "loop", "poll", "accept"} => purge = <<>>
    /\ pc \in {"scan", "recv", "handle", "send"} =>
         \A f \in ToSet(purge) : \E i \in DOMAIN clients : i < pos /\ f = clients[i]
    /\ pc = "accept" /\ pfd[1] => backlog # <<>>

ServerInv == TypeOK /\ SocketsTracked /\ Rounds

LEMMA HereOpen ==
  ASSUME ServerInv, pc \in {"recv", "handle", "send"}
  PROVE  /\ pos \in DOMAIN clients /\ clients[pos] \in Open /\ clients[pos] \in Fd
         /\ Here \in Conn /\ link[Here] # "new"
<1>1. pos \in DOMAIN clients
  BY DEF ServerInv, TypeOK
<1>2. clients[pos] \in Open
  BY <1>1, ToSetHas DEF ServerInv, SocketsTracked
<1>3. \A f \in Open : f \in Fd /\ conn[f] \in Conn
  BY DEF ServerInv, TypeOK, Open, Fd
<1> QED
  BY <1>1, <1>2, <1>3 DEF Here, ServerInv, Rounds

LEMMA EventsType ==
  ASSUME ServerInv
  PROVE  Events \in Seq(BOOLEAN) /\ Events[1] = (backlog # <<>>)
<1> DEFINE s == [i \in DOMAIN clients |-> Readable(conn[clients[i]])]
<1>1. DOMAIN clients = 1 .. Len(clients) /\ Len(clients) \in Nat
  BY DEF ServerInv, TypeOK
<1>2. \A i \in DOMAIN clients : s[i] \in BOOLEAN
  BY DEF Readable
<1>3. s \in Seq(BOOLEAN)
  BY <1>1, <1>2
<1> HIDE DEF s
<1>4. << backlog # <<>> >> \in Seq(BOOLEAN)
  OBVIOUS
<1>5. (<< backlog # <<>> >> \o s) \in Seq(BOOLEAN) /\ (<< backlog # <<>> >> \o s)[1] = (backlog # <<>>)
  BY <1>3, <1>4
<1> QED
  BY <1>5 DEF Events, s

LEMMA HangUpTypes ==
  ASSUME TypeOK, HangUp
  PROVE  /\ \E n \in 1 .. MaxFd : conn' \in [1 .. n -> Conn \cup {None}]
         /\ Fd' = Fd /\ backlog' = <<>> /\ link' \in [Conn -> Link]
<1>1. /\ conn' = [f \in Fd |-> None] /\ backlog' = <<>>
      /\ link' = [c \in Conn |-> IF link[c] = "open" THEN "closed" ELSE link[c]]
  BY DEF HangUp
<1>2. PICK n \in 1 .. MaxFd : conn \in [1 .. n -> Conn \cup {None}]
  BY DEF TypeOK
<1>3. Fd = 1 .. n
  BY <1>2 DEF Fd
<1>4. conn' \in [1 .. n -> Conn \cup {None}] /\ Fd' = Fd
  BY <1>1, <1>3 DEF Fd
<1>5. link' \in [Conn -> Link]
  BY <1>1 DEF TypeOK, Link
<1> QED
  BY <1>1, <1>4, <1>5

LEMMA TypesInit == Init => TypeOK
<1> SUFFICES ASSUME Init PROVE TypeOK
  OBVIOUS
<1>1. \E n \in 1 .. MaxFd : conn \in [1 .. n -> Conn \cup {None}]
  BY DEF Init
<1>2. /\ clients \in Seq(Fd) /\ purge \in Seq(Fd) /\ pfd \in Seq(BOOLEAN) /\ backlog \in Seq(Conn)
      /\ pc \in Pc /\ run \in BOOLEAN /\ pos \in Nat \ {0} /\ reply \in {None, "result", "error"}
      /\ pc \notin {"recv", "handle", "send"}
  <2>1. clients = <<>> /\ purge = <<>> /\ backlog = <<>> /\ pfd = <<FALSE>>
    BY DEF Init
  <2>2. clients \in Seq(Fd) /\ purge \in Seq(Fd) /\ backlog \in Seq(Conn)
    BY <2>1
  <2>3. pfd \in Seq(BOOLEAN)
    BY <2>1
  <2>4. pc = "setup" /\ run = FALSE /\ pos = 1 /\ reply = None
    BY DEF Init
  <2>5. pc \in Pc /\ pc \notin {"recv", "handle", "send"}
    BY <2>4 DEF Pc
  <2>6. run \in BOOLEAN
    BY <2>4
  <2>7. pos \in Nat \ {0}
    BY <2>4
  <2>8. reply \in {None, "result", "error"}
    BY <2>4
  <2> QED
    BY <2>2, <2>3, <2>5, <2>6, <2>7, <2>8
<1>3. /\ link \in [Conn -> Link] /\ stream \in [Conn -> Seq(Unit)]
      /\ sent \in [Conn -> 0 .. MaxRequests] /\ partial \subseteq Conn
      /\ results \in [Conn -> Nat] /\ errors \in [Conn -> Nat]
  BY ServerAssumption DEF Init, Link
<1> QED
  BY <1>1, <1>2, <1>3 DEF TypeOK

LEMMA TypesNext ==
  ASSUME ServerInv, [Next]_vars
  PROVE  TypeOK'
<1> USE DEF clientVars, answerVars, serverVars
<1> DEFINE Conns == \E n \in 1 .. MaxFd : conn \in [1 .. n -> Conn \cup {None}]
           Server1 == /\ pc \in Pc /\ run \in BOOLEAN
                      /\ clients \in Seq(Fd) /\ purge \in Seq(Fd) /\ pfd \in Seq(BOOLEAN)
                      /\ pos \in Nat \ {0}
                      /\ pc \in {"recv", "handle", "send"} => pos <= Len(clients)
                      /\ reply \in {None, "result", "error"}
           Kernel == /\ backlog \in Seq(Conn) /\ link \in [Conn -> Link]
                     /\ stream \in [Conn -> Seq(Unit)]
           Counts == /\ sent \in [Conn -> 0 .. MaxRequests] /\ partial \subseteq Conn
                     /\ results \in [Conn -> Nat] /\ errors \in [Conn -> Nat]
<1>a. TypeOK <=> Conns /\ Server1 /\ Kernel /\ Counts
  BY DEF TypeOK
<1>b. TypeOK /\ Conns /\ Server1 /\ Kernel /\ Counts
  BY <1>a DEF ServerInv
<1> SUFFICES Conns' /\ Server1' /\ Kernel' /\ Counts'
  BY DEF TypeOK
<1>1. CASE Start
  <2>1. Conns' /\ Kernel' /\ Counts'
    BY <1>1, <1>b DEF Start
  <2> QED
    BY <1>1, <1>b, <2>1 DEF Start, Pc, Fd
<1>2. CASE Loop
  <2>1. CASE run
    <3>1. Conns' /\ Kernel' /\ Counts'
      BY <1>2, <1>b, <2>1 DEF Loop
    <3> QED
      BY <1>2, <1>b, <2>1, <3>1 DEF Loop, Pc, Fd
  <2>2. CASE ~run
    <3>1. Conns' /\ Fd' = Fd /\ backlog' = <<>> /\ link' \in [Conn -> Link]
      BY <1>b, <1>2, <2>2, HangUpTypes DEF Loop
    <3>2. Kernel' /\ Counts'
      BY <1>b, <1>2, <3>1 DEF Loop
    <3>3. Server1'
      BY <1>b, <1>2, <2>2, <3>1 DEF Loop, Pc
    <3> QED
      BY <3>1, <3>2, <3>3
  <2> QED
    BY <2>1, <2>2
<1>3. CASE Poll
  <2>1. Conns' /\ Kernel' /\ Counts'
    BY <1>3, <1>b DEF Poll
  <2>2. pfd' \in Seq(BOOLEAN)
    BY <1>3, EventsType DEF Poll
  <2> QED
    BY <1>3, <1>b, <2>1, <2>2 DEF Poll, Pc, Fd
<1>4. CASE PollReturnsNothing
  <2>1. Conns' /\ Kernel' /\ Counts'
    BY <1>4, <1>b DEF PollReturnsNothing
  <2> QED
    BY <1>4, <1>b, <2>1 DEF PollReturnsNothing, Pc, Fd
<1>5. CASE Accept
  <2>1. CASE pfd[1] /\ Open # Fd
    <3>1. FreeFd \in Fd
      BY <1>b, <2>1, FreeFdFree
    <3>2. backlog # <<>> /\ Head(backlog) \in Conn /\ Tail(backlog) \in Seq(Conn)
      BY <1>b, <1>5, <2>1 DEF Accept, ServerInv, Rounds
    <3>3. conn' = [conn EXCEPT ![FreeFd] = Head(backlog)]
      BY <1>5, <2>1 DEF Accept
    <3>4. Conns' /\ Fd' = Fd
      BY <1>b, <3>1, <3>2, <3>3 DEF Fd
    <3>5. Kernel' /\ Counts'
      BY <1>b, <1>5, <2>1, <3>2 DEF Accept
    <3>6. clients' \in Seq(Fd)
      <4>1. clients' = Append(clients, FreeFd)
        BY <1>5, <2>1 DEF Accept
      <4> QED
        BY <1>b, <3>1, <4>1
    <3>7. pc' = "scan" /\ pos' = 1 /\ UNCHANGED <<run, purge, pfd, reply>>
      BY <1>5 DEF Accept
    <3>8. Server1'
      BY <1>b, <3>4, <3>6, <3>7 DEF Pc
    <3> QED
      BY <3>4, <3>5, <3>8
  <2>2. CASE ~(pfd[1] /\ Open # Fd)
    <3>1. Conns' /\ Kernel' /\ Counts'
      BY <1>5, <1>b, <2>2 DEF Accept
    <3>2. UNCHANGED <<conn, clients, run, purge, pfd, reply>> /\ pc' = "scan" /\ pos' = 1
      BY <1>5, <2>2 DEF Accept
    <3>3. Fd' = Fd
      BY <3>2 DEF Fd
    <3>4. Server1'
      BY <1>b, <3>2, <3>3 DEF Pc
    <3> QED
      BY <3>1, <3>4
  <2> QED
    BY <2>1, <2>2
<1>6. CASE Scan
  <2>1. Conns' /\ Kernel' /\ Counts'
    BY <1>6, <1>b DEF Scan
  <2>2. \/ pc' = "purge" /\ pos' = pos
        \/ pc' = "recv" /\ pos' = pos /\ pos <= Len(clients)
        \/ pc' = "scan" /\ pos' = pos + 1
    <3>1. pos \in Nat
      BY <1>b
    <3>2. clients \in Seq(Fd)
      BY <1>b
    <3>3. Len(clients) \in Nat
      BY <3>2
    <3>4. CASE pos > Len(clients)
      BY <1>6, <3>4 DEF Scan
    <3>5. CASE ~(pos > Len(clients))
      <4>1. \/ pc' = "recv" /\ pos' = pos
            \/ pos' = pos + 1 /\ pc' = pc
        BY <1>6, <3>5 DEF Scan
      <4>2. pc = "scan"
        BY <1>6 DEF Scan
      <4> QED
        BY <3>1, <3>3, <3>5, <4>1, <4>2
    <3> QED
      BY <3>4, <3>5
  <2>3. UNCHANGED <<run, clients, purge, pfd, reply>> /\ Fd' = Fd
    BY <1>6 DEF Scan, Fd
  <2>4. Server1'
    BY <1>b, <2>2, <2>3 DEF Pc
  <2> QED
    BY <2>1, <2>4
<1>7. CASE Recv
  <2>1. Conns' /\ Counts'
    BY <1>7, <1>b DEF Recv
  <2>2. Here \in Conn
    BY <1>7, HereOpen DEF Recv
  <2>3. Kernel'
    <3>1. PICK n \in Nat : stream' = [stream EXCEPT ![Here] = SubSeq(@, n + 1, Len(@))]
      <4>1. stream[Here] \in Seq(Unit)
        BY <1>b, <2>2
      <4>2. Len(stream[Here]) \in Nat /\ Buf \in Nat
        BY <4>1, ServerAssumption
      <4> QED
        BY <1>7, <4>2 DEF Recv
    <3>2. SubSeq(stream[Here], n + 1, Len(stream[Here])) \in Seq(Unit)
      <4>1. stream[Here] \in Seq(Unit) /\ n + 1 >= 1
        BY <1>b, <2>2
      <4> QED
        BY <4>1
    <3>3. stream' \in [Conn -> Seq(Unit)]
      BY <1>b, <3>1, <3>2
    <3> QED
      BY <1>7, <1>b, <3>3 DEF Recv
  <2>4. reply' \in {None, "result", "error"}
    BY <1>7 DEF Recv, Process
  <2> QED
    BY <1>7, <1>b, <2>1, <2>3, <2>4 DEF Recv, Pc, Fd
<1>8. CASE RecvFails
  <2>1. Conns' /\ Kernel' /\ Counts'
    BY <1>8, <1>b DEF RecvFails
  <2>2. purge' \in Seq(Fd)
    <3>1. clients[pos] \in Fd
      BY <1>8, HereOpen DEF RecvFails
    <3> QED
      BY <1>8, <1>b, <3>1 DEF RecvFails
  <2>3. pc' = "scan" /\ pos' = pos + 1 /\ UNCHANGED <<run, clients, pfd, reply>> /\ Fd' = Fd
    BY <1>8 DEF RecvFails, Fd
  <2>4. Server1'
    BY <1>b, <2>2, <2>3 DEF Pc
  <2> QED
    BY <2>1, <2>4
<1>9. CASE Send
  <2>1. Here \in Conn /\ pc = "send"
    BY <1>9, HereOpen DEF Send
  <2>2. Counts'
    <3>1. CASE link[Here] = "open"
      <4>1. /\ results' = [results EXCEPT ![Here] = @ + IF reply = "result" THEN 1 ELSE 0]
            /\ errors' = [errors EXCEPT ![Here] = @ + IF reply = "error" THEN 1 ELSE 0]
            /\ UNCHANGED <<sent, partial>>
        BY <1>9, <3>1 DEF Send
      <4>2. results' \in [Conn -> Nat] /\ errors' \in [Conn -> Nat]
        <5>1. /\ results[Here] + (IF reply = "result" THEN 1 ELSE 0) \in Nat
              /\ errors[Here] + (IF reply = "error" THEN 1 ELSE 0) \in Nat
          BY <1>b, <2>1
        <5> QED
          BY <1>b, <4>1, <5>1
      <4> QED
        BY <1>b, <4>1, <4>2
    <3>2. CASE link[Here] # "open"
      BY <1>9, <1>b, <3>2 DEF Send
    <3> QED
      BY <3>1, <3>2
  <2>3. CASE link[Here] = "broken"
    <3>1. HangUp /\ pc' = "dead" /\ UNCHANGED <<pos, reply, run, clients, purge, pfd, stream>>
      BY <1>9, <2>3 DEF Send
    <3>2. Conns' /\ Fd' = Fd /\ backlog' = <<>> /\ link' \in [Conn -> Link]
      BY <1>b, <3>1, HangUpTypes
    <3>3. Kernel'
      BY <1>b, <3>1, <3>2
    <3>4. Server1'
      BY <1>b, <3>1, <3>2 DEF Pc
    <3> QED
      BY <2>2, <3>2, <3>3, <3>4
  <2>4. CASE link[Here] # "broken"
    <3>1. /\ UNCHANGED <<conn, backlog, run, clients, purge, pfd, stream>>
          /\ pc' = "scan" /\ pos' = pos + 1 /\ reply' = None
          /\ \E l \in {"open", "fin", "broken"} : link' = [link EXCEPT ![Here] = l]
      BY <1>9, <2>4 DEF Send
    <3>2. Kernel'
      BY <1>b, <2>1, <3>1 DEF Link
    <3>3. Fd' = Fd
      BY <3>1 DEF Fd
    <3>4. Conns'
      BY <1>b, <3>1
    <3>5. Server1'
      BY <1>b, <3>1, <3>3 DEF Pc
    <3> QED
      BY <2>2, <3>2, <3>4, <3>5
  <2> QED
    BY <2>3, <2>4
<1>10. CASE Purge
  <2>1. /\ conn' = [f \in Fd |-> IF f \in ToSet(purge) THEN None ELSE conn[f]]
        /\ clients' = Kept /\ purge' = <<>> /\ pc' = "loop" /\ pc = "purge"
        /\ UNCHANGED <<run, pfd, pos, reply, backlog, link, stream, clientVars, answerVars>>
    BY <1>10 DEF Purge
  <2>2. Conns' /\ Fd' = Fd
    <3>1. PICK n \in 1 .. MaxFd : conn \in [1 .. n -> Conn \cup {None}]
      BY <1>b
    <3>2. Fd = 1 .. n
      BY <3>1 DEF Fd
    <3> QED
      BY <2>1, <3>1, <3>2 DEF Fd
  <2>3. clients' \in Seq(Fd)
    BY <1>b, <2>1, KeptClients DEF ServerInv, SocketsTracked
  <2>4. Kernel' /\ Counts'
    BY <1>b, <2>1
  <2>5. Server1'
    BY <1>b, <2>1, <2>2, <2>3 DEF Pc
  <2> QED
    BY <2>2, <2>4, <2>5
<1>11. CASE Signal
  <2>1. Conns' /\ Kernel' /\ Counts'
    BY <1>11, <1>b DEF Signal
  <2> QED
    BY <1>11, <1>b, <2>1 DEF Signal, Fd
<1>12. ASSUME NEW c \in Conn, Client(c)
       PROVE  Conns' /\ Server1' /\ Kernel' /\ Counts'
  <2>1. Conns' /\ Server1'
    BY <1>b, <1>12 DEF Client, Connect, Request, RestArrives, Finish, Fd
  <2>2. Kernel'
    <3>1. CASE Connect(c)
      BY <1>b, <3>1 DEF Connect, Link
    <3>2. CASE Request(c)
      <4>1. \A u \in Unit : Append(stream[c], u) \in Seq(Unit)
        BY <1>b
      <4>2. \E u \in Unit : stream' = [stream EXCEPT ![c] = Append(stream[c], u)]
        BY <3>2 DEF Request, Arrives, Unit
      <4>3. UNCHANGED <<backlog, link>>
        BY <3>2 DEF Request
      <4> QED
        BY <1>b, <4>1, <4>2, <4>3
    <3>3. CASE RestArrives(c)
      BY <1>b, <3>3 DEF RestArrives, Arrives, Unit
    <3>4. CASE Finish(c)
      BY <1>b, <3>4 DEF Finish, Link
    <3> QED
      BY <1>12, <3>1, <3>2, <3>3, <3>4 DEF Client
  <2>3. Counts'
    <3>1. CASE Request(c)
      <4>1. sent[c] + 1 \in 0 .. MaxRequests
        BY <1>b, <3>1, ServerAssumption DEF Request
      <4> QED
        BY <1>b, <3>1, <4>1 DEF Request
    <3>2. CASE ~Request(c)
      BY <1>b, <1>12, <3>2 DEF Client, Connect, RestArrives, Finish
    <3> QED
      BY <3>1, <3>2
  <2> QED
    BY <2>1, <2>2, <2>3
<1>14. CASE HandlerReturns
  <2>1. /\ pc = "handle" /\ pc' = "send" /\ Fd' = Fd
        /\ UNCHANGED <<run, clients, purge, pfd, pos, reply, conn, backlog, link, stream,
                       clientVars, answerVars>>
    BY <1>14 DEF HandlerReturns, Fd
  <2> QED
    BY <1>b, <2>1 DEF Pc
<1>13. CASE UNCHANGED vars
  <2>1. Conns' /\ Kernel' /\ Counts'
    BY <1>b, <1>13 DEF vars
  <2> QED
    BY <1>b, <1>13, <2>1 DEF vars, Fd
<1> QED
  BY <1>1, <1>2, <1>3, <1>4, <1>5, <1>6, <1>7, <1>8, <1>9, <1>10, <1>11, <1>12, <1>13,
     <1>14 DEF Next, Server, Thread

LEMMA EmptyDistinct == ToSet(<<>>) = {} /\ IsInjective(<<>>)
BY DEF ToSet, IsInjective

LEMMA TrackedInit == Init => SocketsTracked /\ Rounds
<1> SUFFICES ASSUME Init PROVE SocketsTracked /\ Rounds
  OBVIOUS
<1>1. clients = <<>> /\ purge = <<>> /\ backlog = <<>> /\ pc = "setup" /\ Open = {}
  BY DEF Init, Open, Fd
<1> QED
  BY <1>1, EmptyDistinct DEF SocketsTracked, Rounds

\* A step that moves no socket
LEMMA TrackedStill ==
  ASSUME ServerInv, pc # "dead", UNCHANGED <<conn, clients, purge, backlog>>,
         \A c \in Conn : link'[c] = "new" => link[c] = "new"
  PROVE  /\ SocketsTracked'
         /\ IsInjective(backlog') /\ \A c \in ToSet(backlog') : link'[c] # "new"
         /\ \A f \in Open' : link'[conn'[f]] # "new"
<1>1. Open' = Open /\ Fd' = Fd
  BY DEF Open, Fd
<1>2. SocketsTracked'
  BY <1>1 DEF ServerInv, SocketsTracked
<1>3. ToSet(backlog) \subseteq Conn
  BY DEF ServerInv, TypeOK, ToSet
<1>4. \A f \in Open : conn[f] \in Conn
  BY DEF ServerInv, TypeOK, Open, Fd
<1> QED
  BY <1>1, <1>2, <1>3, <1>4 DEF ServerInv, Rounds

LEMMA TrackedNext ==
  ASSUME ServerInv, [Next]_vars
  PROVE  SocketsTracked' /\ Rounds'
<1> SUFFICES ASSUME pc' # "dead" PROVE SocketsTracked' /\ Rounds'
  BY DEF SocketsTracked, Rounds
<1> USE DEF clientVars, answerVars, serverVars
<1> DEFINE Held == /\ IsInjective(backlog) /\ \A c \in ToSet(backlog) : link[c] # "new"
                   /\ \A f \in Open : link[conn[f]] # "new"
           Round == /\ pc \in {"setup", "loop", "poll", "accept"} => purge = <<>>
                    /\ pc \in {"scan", "recv", "handle", "send"} =>
                         \A f \in ToSet(purge) : \E i \in DOMAIN clients : i < pos /\ f = clients[i]
                    /\ pc = "accept" /\ pfd[1] => backlog # <<>>
<1>a. Rounds <=> (pc # "dead" => Held /\ Round)
  BY DEF Rounds
<1>b. pc # "dead"
  BY DEF Next, Server, Thread, Start, Loop, Poll, PollReturnsNothing, Accept, Scan, Recv,
         HandlerReturns, RecvFails, Send, Purge, Signal, Client, Connect, Request,
         RestArrives, Finish, vars
<1>c. /\ TypeOK /\ Held /\ Round
      /\ IsInjective(clients) /\ ToSet(clients) = Open
      /\ IsInjective(purge) /\ ToSet(purge) \subseteq ToSet(clients)
      /\ \A f, g \in Open : conn[f] = conn[g] => f = g
      /\ \A f \in Open : conn[f] \notin ToSet(backlog)
  BY <1>a, <1>b DEF ServerInv, SocketsTracked
<1>d. /\ clients \in Seq(Fd) /\ purge \in Seq(Fd) /\ backlog \in Seq(Conn)
      /\ \E n \in 1 .. MaxFd : conn \in [1 .. n -> Conn \cup {None}]
      /\ pos \in Nat \ {0} /\ link \in [Conn -> Link]
      /\ ToSet(backlog) \subseteq Conn
      /\ \A f \in Open : f \in Fd /\ conn[f] \in Conn
      /\ None \notin Conn
  <2>1. /\ clients \in Seq(Fd) /\ purge \in Seq(Fd) /\ backlog \in Seq(Conn)
        /\ \E n \in 1 .. MaxFd : conn \in [1 .. n -> Conn \cup {None}]
        /\ pos \in Nat \ {0} /\ link \in [Conn -> Link]
    BY <1>c DEF TypeOK
  <2>2. \A f \in Open : f \in Fd /\ conn[f] \in Conn
    BY <2>1 DEF Open, Fd
  <2>3. ToSet(backlog) \subseteq Conn
    BY <2>1 DEF ToSet
  <2>4. None \notin Conn
    BY ServerAssumption DEF None
  <2> QED
    BY <2>1, <2>2, <2>3, <2>4
<1> SUFFICES SocketsTracked' /\ Held' /\ Round'
  BY DEF Rounds
<1>1. CASE Start \/ Poll \/ PollReturnsNothing \/ Scan \/ Recv \/ HandlerReturns \/ Signal
             \/ UNCHANGED vars
  <2>1. UNCHANGED <<conn, clients, purge, backlog, link>>
    BY <1>1 DEF Start, Poll, PollReturnsNothing, Scan, Recv, HandlerReturns, Signal, vars
  <2>2. SocketsTracked' /\ Held'
    BY <1>b, <2>1, TrackedStill
  <2>3. Round'
    <3>1. CASE Poll
      <4>1. pc = "poll" /\ pc' = "accept" /\ pfd'[1] = (backlog # <<>>)
        BY <3>1, EventsType DEF Poll
      <4> QED
        BY <1>c, <2>1, <4>1
    <3>2. CASE Scan
      <4>1. /\ pc = "scan" /\ pc' \in {"scan", "recv", "purge"}
            /\ pos' = pos \/ pos' = pos + 1
        BY <3>2 DEF Scan
      <4>2. \A i \in DOMAIN clients : i < pos => i < pos'
        BY <1>d, <4>1
      <4> QED
        BY <1>c, <2>1, <4>1, <4>2
    <3>3. CASE Start \/ PollReturnsNothing
      BY <1>c, <2>1, <3>3 DEF Start, PollReturnsNothing
    <3>4. CASE Recv \/ HandlerReturns
      BY <1>c, <2>1, <3>4 DEF Recv, HandlerReturns
    <3>5. CASE Signal \/ UNCHANGED vars
      BY <1>c, <2>1, <3>5 DEF Signal, vars
    <3> QED
      BY <1>1, <3>1, <3>2, <3>3, <3>4, <3>5
  <2> QED
    BY <2>2, <2>3
<1>2. CASE Loop
  <2>1. CASE run
    <3>1. UNCHANGED <<conn, clients, purge, backlog, link>> /\ pc = "loop" /\ pc' = "poll"
      BY <1>2, <2>1 DEF Loop
    <3>2. SocketsTracked' /\ Held'
      BY <1>b, <3>1, TrackedStill
    <3> QED
      BY <1>c, <3>1, <3>2
  <2>2. CASE ~run
    <3>1. /\ pc = "loop" /\ pc' = "stopped" /\ clients' = <<>> /\ purge' = purge
          /\ backlog' = <<>> /\ conn' = [f \in Fd |-> None]
      BY <1>2, <2>2 DEF Loop, HangUp
    <3>2. purge' = <<>> /\ Open' = {}
      BY <1>c, <3>1 DEF Open, Fd
    <3> QED
      BY <3>1, <3>2, EmptyDistinct DEF SocketsTracked
  <2> QED
    BY <2>1, <2>2
<1>3. CASE Accept
  <2>0. pc = "accept" /\ pc' = "scan" /\ purge' = purge /\ link' = link /\ purge = <<>>
    BY <1>3, <1>c DEF Accept
  <2>00. Round'
    BY <2>0, EmptyDistinct
  <2>1. CASE pfd[1] /\ Open # Fd
    <3>1. FreeFd \in Fd /\ FreeFd \notin Open
      BY <1>d, <2>1, FreeFdFree
    <3>2. /\ conn' = [conn EXCEPT ![FreeFd] = Head(backlog)]
          /\ clients' = Append(clients, FreeFd) /\ backlog' = Tail(backlog)
      BY <1>3, <2>1 DEF Accept
    <3>3. backlog # <<>>
      BY <1>c, <2>0, <2>1
    <3>4. /\ Head(backlog) \in ToSet(backlog) /\ Head(backlog) \in Conn
          /\ IsInjective(Tail(backlog)) /\ ToSet(Tail(backlog)) \subseteq ToSet(backlog) \ {Head(backlog)}
      BY <1>c, <1>d, <3>3, TailDistinct
    <3>5. /\ IsInjective(clients') /\ ToSet(clients') = Open \cup {FreeFd}
      BY <1>c, <1>d, <3>1, <3>2, AppendDistinct
    <3>6. /\ conn'[FreeFd] = Head(backlog) /\ \A f \in Fd \ {FreeFd} : conn'[f] = conn[f]
          /\ Fd' = Fd
      BY <1>d, <3>1, <3>2 DEF Fd
    <3>7. Open' = Open \cup {FreeFd}
      <4>1. \A f \in Fd : conn'[f] # None <=> conn[f] # None \/ f = FreeFd
        BY <1>d, <3>1, <3>4, <3>6
      <4> QED
        BY <3>1, <3>6, <4>1 DEF Open
    <3>8. \A f, g \in Open' : conn'[f] = conn'[g] => f = g
      BY <1>c, <1>d, <3>1, <3>4, <3>6, <3>7
    <3>9. \A f \in Open' : conn'[f] \notin ToSet(backlog') /\ link'[conn'[f]] # "new"
      BY <1>c, <1>d, <2>0, <3>1, <3>2, <3>4, <3>6, <3>7
    <3>10. SocketsTracked'
      BY <2>0, <3>5, <3>7, <3>8, <3>9, EmptyDistinct DEF SocketsTracked
    <3>11. Held'
      BY <1>c, <2>0, <3>2, <3>4, <3>9
    <3> QED
      BY <2>00, <3>10, <3>11
  <2>2. CASE ~(pfd[1] /\ Open # Fd)
    <3>1. UNCHANGED <<conn, clients, backlog>>
      BY <1>3, <2>2 DEF Accept
    <3> QED
      BY <1>b, <2>0, <2>00, <3>1, TrackedStill
  <2> QED
    BY <2>1, <2>2
<1>4. CASE RecvFails
  <2>1. /\ pc = "recv" /\ pc' = "scan" /\ purge' = Append(purge, clients[pos]) /\ pos' = pos + 1
        /\ UNCHANGED <<conn, clients, backlog, link>>
    BY <1>4 DEF RecvFails
  <2>2. pos \in DOMAIN clients /\ clients[pos] \in Open /\ clients[pos] \in Fd
    BY <2>1, HereOpen
  <2>3. clients[pos] \notin ToSet(purge)
    <3> SUFFICES ASSUME clients[pos] \in ToSet(purge) PROVE FALSE
      OBVIOUS
    <3>1. PICK i \in DOMAIN clients : i < pos /\ clients[pos] = clients[i]
      BY <1>c, <2>1
    <3>2. i = pos
      BY <1>c, <2>2, <3>1 DEF IsInjective
    <3> QED
      BY <1>d, <3>1, <3>2
  <2>4. IsInjective(purge') /\ ToSet(purge') = ToSet(purge) \cup {clients[pos]}
    BY <1>c, <1>d, <2>1, <2>2, <2>3, AppendDistinct
  <2>5. Open' = Open
    BY <2>1 DEF Open, Fd
  <2>6. SocketsTracked' /\ Held'
    BY <1>c, <2>1, <2>2, <2>4, <2>5 DEF SocketsTracked
  <2>7. Round'
    <3>1. \A i \in DOMAIN clients : i < pos => i < pos + 1
      BY <1>d
    <3>2. pos < pos + 1
      BY <1>d
    <3> QED
      BY <1>c, <2>1, <2>2, <2>4, <3>1, <3>2
  <2> QED
    BY <2>6, <2>7
<1>5. CASE Send
  <2>1. /\ pc = "send" /\ pc' = "scan" /\ pos' = pos + 1
        /\ UNCHANGED <<conn, clients, purge, backlog>>
        /\ \E l \in {"open", "fin", "broken"} : link' = [link EXCEPT ![Here] = l]
    BY <1>5 DEF Send
  <2>2. \A c \in Conn : link'[c] = "new" => link[c] = "new"
    BY <1>d, <2>1
  <2>3. SocketsTracked' /\ Held'
    BY <1>b, <2>1, <2>2, TrackedStill
  <2>4. \A i \in DOMAIN clients : i < pos => i < pos + 1
    BY <1>d
  <2> QED
    BY <1>c, <2>1, <2>3, <2>4
<1>6. CASE Purge
  <2>1. /\ conn' = [f \in Fd |-> IF f \in ToSet(purge) THEN None ELSE conn[f]]
        /\ clients' = Kept /\ purge' = <<>> /\ pc' = "loop"
        /\ UNCHANGED <<backlog, link>>
    BY <1>6 DEF Purge
  <2>2. IsInjective(clients') /\ ToSet(clients') = Open \ ToSet(purge)
    BY <1>c, <1>d, <2>1, KeptClients
  <2>3. Open' = Open \ ToSet(purge) /\ \A f \in Open' : conn'[f] = conn[f]
    BY <2>1 DEF Open, Fd
  <2>4. SocketsTracked'
    BY <1>c, <2>1, <2>2, <2>3, EmptyDistinct DEF SocketsTracked
  <2> QED
    BY <1>c, <2>1, <2>3, <2>4
<1>7. ASSUME NEW c \in Conn, Request(c) \/ RestArrives(c) \/ Finish(c)
      PROVE  SocketsTracked' /\ Held' /\ Round'
  <2>1. UNCHANGED <<pc, pos, pfd, conn, clients, purge, backlog>>
    BY <1>7 DEF Request, RestArrives, Finish
  <2>2. \A d \in Conn : link'[d] = "new" => link[d] = "new"
    BY <1>7, <1>d DEF Request, RestArrives, Finish
  <2>3. SocketsTracked' /\ Held'
    BY <1>b, <2>1, <2>2, TrackedStill
  <2> QED
    BY <1>c, <2>1, <2>3
<1>8. ASSUME NEW c \in Conn, Connect(c)
      PROVE  SocketsTracked' /\ Held' /\ Round'
  <2>1. /\ UNCHANGED <<pc, pos, pfd, conn, clients, purge>> /\ link[c] = "new"
        /\ link' = [link EXCEPT ![c] = "open"] /\ backlog' = Append(backlog, c)
    BY <1>8 DEF Connect
  <2>2. c \notin ToSet(backlog) /\ \A f \in Open : conn[f] # c
    BY <1>c, <2>1
  <2>3. IsInjective(backlog') /\ ToSet(backlog') = ToSet(backlog) \cup {c}
    BY <1>c, <1>d, <2>1, <2>2, AppendDistinct
  <2>4. Open' = Open
    BY <2>1 DEF Open, Fd
  <2>5. link'[c] = "open" /\ \A d \in Conn \ {c} : link'[d] = link[d]
    BY <1>d, <2>1
  <2>6. SocketsTracked'
    BY <1>c, <2>1, <2>2, <2>3, <2>4 DEF SocketsTracked
  <2>7. Held'
    BY <1>c, <1>d, <2>1, <2>3, <2>4, <2>5
  <2>8. backlog' # <<>>
    BY <2>3, EmptyDistinct
  <2>9. Round'
    BY <1>c, <2>1, <2>8
  <2> QED
    BY <2>6, <2>7, <2>9
<1> QED
  BY <1>1, <1>2, <1>3, <1>4, <1>5, <1>6, <1>7, <1>8 DEF Next, Server, Thread, Client

LEMMA ServerInvAlways == Spec => []ServerInv
<1>1. Init => ServerInv
  BY TypesInit, TrackedInit DEF ServerInv
<1>2. ServerInv /\ [Next]_vars => ServerInv'
  BY TypesNext, TrackedNext DEF ServerInv
<1> QED
  BY <1>1, <1>2, PTL DEF Spec

\* The server's state has its types, and it never leaves the list of clients
\* while it receives or sends.
THEOREM TypesAlways == Spec => []TypeOK
BY ServerInvAlways, PTL DEF ServerInv

\* m_clients has every open descriptor once and no closed one, however clients
\* come and go: a round purges only what it has passed, and a new connection
\* gets a descriptor that no client has.
THEOREM SocketsTrackedAlways == Spec => []SocketsTracked
BY ServerInvAlways, PTL DEF ServerInv

-----------------------------------------------------------------------------
(* Clients that wait for each answer, and whose requests arrive whole        *)

OneAtATime == Window <= 1

Whole == Conn \ Split

Answering(c) == pc \in {"handle", "send"} /\ Here = c

\* A request of c arrived and has no answer
Due(c) == Answering(c) \/ stream[c] # <<>>

Agree(c) ==
  /\ errors[c] = 0
  /\ Due(c) => sent[c] = results[c] + 1
  /\ ~Due(c) => sent[c] = results[c]

LockStep ==
  /\ partial \subseteq Split
  /\ pc = "dead" => \E c \in Split : link[c] = "broken"
  /\ pc \in {"handle", "send"} /\ Here \in Whole => reply = "result"
  /\ \A c \in Whole :
       /\ stream[c] = <<>> \/ stream[c] = <<"whole">>
       /\ Answering(c) => stream[c] = <<>>
       /\ link[c] = "open" => Agree(c)
       /\ link[c] = "broken" => stream[c] = <<>> /\ ~Answering(c)
       /\ link[c] = "new" =>
            sent[c] = 0 /\ results[c] = 0 /\ errors[c] = 0 /\ stream[c] = <<>>

LEMMA LockStepInit == Init => LockStep
<1> SUFFICES ASSUME Init PROVE LockStep
  OBVIOUS
<1>1. /\ pc = "setup" /\ partial = {} /\ Whole \subseteq Conn
      /\ \A c \in Conn : link[c] = "new" /\ stream[c] = <<>> /\ sent[c] = 0
                           /\ results[c] = 0 /\ errors[c] = 0
  BY DEF Init, Whole
<1> QED
  BY <1>1 DEF LockStep, Answering

\* One recv takes the whole of a request, and its answer is a result
LEMMA WholeTaken ==
  ASSUME stream \in [Conn -> Seq(Unit)], Here \in Conn, stream[Here] = <<"whole">>, Recv
  PROVE  reply' = "result" /\ stream' = [stream EXCEPT ![Here] = <<>>]
<1>1. Len(stream[Here]) = 1 /\ Buf \in Nat \ {0}
  BY ServerAssumption
<1>2. (IF Len(stream[Here]) < Buf THEN Len(stream[Here]) ELSE Buf) = 1
  BY <1>1
<1>3. /\ reply' = Process(SubSeq(stream[Here], 1, 1))
      /\ stream' = [stream EXCEPT ![Here] = SubSeq(stream[Here], 1 + 1, Len(stream[Here]))]
  BY <1>2 DEF Recv
<1>4. SubSeq(<<"whole">>, 1, 1)[1] = "whole"
  OBVIOUS
<1>5. SubSeq(<<"whole">>, 1 + 1, 1) = <<>>
  <2> DEFINE w == <<"whole">>
  <2>1. w \in Seq(Unit)
    BY DEF Unit
  <2> HIDE DEF w
  <2>2. SubSeq(w, 2, 1) \in Seq(Unit) /\ Len(SubSeq(w, 2, 1)) = 0
    BY <2>1
  <2>3. SubSeq(w, 2, 1) = <<>>
    BY <2>2
  <2> QED
    BY <2>3 DEF w
<1> QED
  BY <1>1, <1>3, <1>4, <1>5 DEF Process

LEMMA LockStepNext ==
  ASSUME OneAtATime, ServerInv, LockStep, [Next]_vars
  PROVE  LockStep'
<1> USE DEF clientVars, answerVars, serverVars
<1>a. /\ stream \in [Conn -> Seq(Unit)] /\ link \in [Conn -> Link]
      /\ sent \in [Conn -> 0 .. MaxRequests]
      /\ results \in [Conn -> Nat] /\ errors \in [Conn -> Nat]
  BY DEF ServerInv, TypeOK
<1>b. /\ partial \subseteq Split /\ Whole \subseteq Conn /\ Split \subseteq Conn
      /\ pc = "dead" => \E c \in Split : link[c] = "broken"
      /\ pc \in {"handle", "send"} /\ Here \in Whole => reply = "result"
      /\ \A c \in Whole :
           /\ stream[c] = <<>> \/ stream[c] = <<"whole">>
           /\ Answering(c) => stream[c] = <<>>
           /\ link[c] = "open" => Agree(c)
           /\ link[c] = "broken" => stream[c] = <<>> /\ ~Answering(c)
           /\ link[c] = "new" =>
                sent[c] = 0 /\ results[c] = 0 /\ errors[c] = 0 /\ stream[c] = <<>>
  BY ServerAssumption DEF LockStep, Whole
<1>1. CASE Start \/ Poll \/ PollReturnsNothing \/ Accept \/ Scan \/ RecvFails \/ Purge
  <2>1. /\ UNCHANGED <<link, stream, sent, partial, results, errors>>
        /\ pc \notin {"handle", "send"} /\ pc' \notin {"handle", "send", "dead"}
    BY <1>1 DEF Start, Poll, PollReturnsNothing, Accept, Scan, RecvFails, Purge
  <2>2. \A c \in Whole : Answering(c)' = FALSE /\ Answering(c) = FALSE
    BY <2>1 DEF Answering
  <2>3. \A c \in Whole : Agree(c)' <=> Agree(c)
    BY <2>1, <2>2 DEF Agree, Due
  <2> QED
    BY <1>b, <2>1, <2>2, <2>3 DEF LockStep
<1>2. CASE Loop
  <2>1. /\ UNCHANGED <<stream, sent, partial, results, errors>>
        /\ pc \notin {"handle", "send"} /\ pc' \notin {"handle", "send", "dead"}
        /\ \A c \in Conn : link'[c] = link[c] \/ link'[c] = "closed"
    BY <1>2 DEF Loop, HangUp
  <2>2. \A c \in Whole : Answering(c)' = FALSE /\ Answering(c) = FALSE
    BY <2>1 DEF Answering
  <2>3. \A c \in Whole : Agree(c)' <=> Agree(c)
    BY <2>1, <2>2 DEF Agree, Due
  <2> QED
    BY <1>b, <2>1, <2>2, <2>3 DEF LockStep
<1>3. CASE Recv
  <2>1. /\ pc = "recv" /\ pc' \in {"handle", "send"} /\ stream[Here] # <<>>
        /\ UNCHANGED <<conn, clients, pos, link, sent, partial, results, errors>>
    BY <1>3 DEF Recv
  <2>2. Here \in Conn /\ Here' = Here
    BY <2>1, HereOpen DEF Here
  <2>3. ASSUME Here \in Whole
        PROVE  reply' = "result" /\ stream' = [stream EXCEPT ![Here] = <<>>]
    <3>1. stream[Here] = <<"whole">>
      BY <1>b, <2>1, <2>3
    <3> QED
      BY <1>3, <1>a, <2>2, <3>1, WholeTaken
  <2>4. \A c \in Conn \ {Here} : stream'[c] = stream[c]
    BY <1>3, <1>a, <2>2 DEF Recv
  <2>5. \A c \in Whole : ~Answering(c) /\ (Answering(c)' <=> c = Here)
    BY <2>1, <2>2 DEF Answering
  <2>6. Here \in Whole => stream'[Here] = <<>>
    BY <1>a, <2>2, <2>3
  <2>7. \A c \in Whole : Due(c)' <=> Due(c)
    BY <1>b, <2>1, <2>4, <2>5, <2>6 DEF Due
  <2>8. \A c \in Whole : Agree(c)' <=> Agree(c)
    BY <2>1, <2>7 DEF Agree
  <2> QED
    BY <1>b, <2>1, <2>2, <2>3, <2>4, <2>5, <2>6, <2>8 DEF LockStep
<1>7. CASE HandlerReturns
  <2>1. /\ pc = "handle" /\ pc' = "send"
        /\ UNCHANGED <<conn, clients, pos, reply, link, stream, sent, partial, results, errors>>
    BY <1>7 DEF HandlerReturns
  <2>2. Here' = Here
    BY <2>1 DEF Here
  <2>3. \A c \in Whole : (Answering(c)' <=> Answering(c)) /\ (Agree(c)' <=> Agree(c))
    BY <2>1, <2>2 DEF Answering, Agree, Due
  <2> QED
    BY <1>b, <2>1, <2>2, <2>3 DEF LockStep
<1>4. CASE Send
  <2>1. pc = "send" /\ Here \in Conn
    BY <1>4, HereOpen DEF Send
  <2>h. PICK h \in Conn : h = Here
    BY <2>1
  <2>2. /\ UNCHANGED <<stream, sent, partial>>
        /\ \A c \in Conn \ {h} : results'[c] = results[c] /\ errors'[c] = errors[c]
        /\ link[h] # "broken" =>
             /\ pc' = "scan"
             /\ \A c \in Conn \ {h} : link'[c] = link[c]
        /\ link[h] = "broken" =>
             /\ pc' = "dead" /\ link'[h] = "broken"
             /\ \A c \in Conn \ {h} : link'[c] = link[c] \/ link'[c] = "closed"
    BY <1>4, <1>a, <2>h DEF Send, HangUp
  <2>3. \A c \in Whole : ~Answering(c)' /\ (Answering(c) <=> c = h)
    BY <2>1, <2>2, <2>h DEF Answering
  <2>4. ASSUME NEW c \in Whole, c # h
        PROVE  Agree(c)' <=> Agree(c)
    <3>1. /\ stream'[c] = stream[c] /\ results'[c] = results[c] /\ errors'[c] = errors[c]
          /\ sent'[c] = sent[c]
      BY <1>b, <2>2, <2>4
    <3>2. Due(c)' <=> Due(c)
      BY <2>3, <2>4, <3>1 DEF Due
    <3> QED
      BY <3>1, <3>2 DEF Agree
  <2>5. ASSUME h \in Whole
        PROVE  /\ link[h] # "broken" /\ reply = "result" /\ stream[h] = <<>>
               /\ Due(h) /\ ~Due(h)'
    <3>1. Answering(h) /\ ~Answering(h)'
      BY <2>3, <2>5
    <3>2. link[h] # "broken" /\ reply = "result" /\ stream[h] = <<>>
      BY <1>b, <2>1, <2>h, <2>5, <3>1
    <3> QED
      BY <2>2, <3>1, <3>2 DEF Due
  <2>6. ASSUME h \in Whole, link[h] = "open"
        PROVE  link'[h] = "open" /\ Agree(h)'
    <3>1. sent[h] = results[h] + 1 /\ errors[h] = 0
      BY <1>b, <2>5, <2>6 DEF Agree
    <3>2. /\ results' = [results EXCEPT ![h] = results[h] + 1]
          /\ errors' = [errors EXCEPT ![h] = errors[h] + 0]
          /\ link' = [link EXCEPT ![h] = "open"]
      BY <1>4, <2>5, <2>6, <2>h DEF Send
    <3>3. link'[h] = "open" /\ results'[h] = sent[h] /\ errors'[h] = 0
      BY <1>a, <3>1, <3>2
    <3> QED
      BY <2>2, <2>5, <2>6, <3>3 DEF Agree
  <2>7. ASSUME h \in Whole, link[h] # "open"
        PROVE  link'[h] \in {"fin", "broken"}
    <3>1. \E l \in {"fin", "broken"} : link' = [link EXCEPT ![h] = l]
      BY <1>4, <2>5, <2>7, <2>h DEF Send
    <3> QED
      BY <1>a, <3>1
  <2>8. \A c \in Whole :
          /\ link'[c] = "open" => Agree(c)'
          /\ link'[c] = "new" =>
               sent[c] = 0 /\ results'[c] = 0 /\ errors'[c] = 0 /\ stream[c] = <<>>
    <3>1. ASSUME NEW c \in Whole, c # h, link'[c] \in {"open", "new"}
          PROVE  link[c] = link'[c] /\ results'[c] = results[c] /\ errors'[c] = errors[c]
      BY <1>b, <2>2, <3>1
    <3>2. ASSUME NEW c \in Whole, c # h, link'[c] = "open" PROVE Agree(c)'
      BY <1>b, <2>4, <3>1, <3>2
    <3>3. ASSUME NEW c \in Whole, c # h, link'[c] = "new"
          PROVE  sent[c] = 0 /\ results'[c] = 0 /\ errors'[c] = 0 /\ stream[c] = <<>>
      BY <1>b, <3>1, <3>3
    <3>4. h \in Whole => (link'[h] = "open" => Agree(h)') /\ link'[h] # "new"
      BY <2>6, <2>7
    <3> QED
      BY <3>2, <3>3, <3>4
  <2>9. \A c \in Whole : link'[c] = "broken" => stream[c] = <<>>
    BY <1>b, <2>2, <2>5
  <2>10. pc' = "dead" => \E c \in Split : link'[c] = "broken"
    BY <2>2, <2>5 DEF Whole
  <2> QED
    BY <1>b, <2>2, <2>3, <2>8, <2>9, <2>10 DEF LockStep
<1>5. CASE Signal \/ UNCHANGED vars
  <2>1. UNCHANGED <<pc, clients, conn, pos, reply, link, stream, sent, partial, results, errors>>
    BY <1>5 DEF Signal, vars
  <2>2. Here' = Here
    BY <2>1 DEF Here
  <2>3. \A c \in Whole : (Answering(c)' <=> Answering(c)) /\ (Agree(c)' <=> Agree(c))
    BY <2>1, <2>2 DEF Answering, Agree, Due
  <2> QED
    BY <1>b, <2>1, <2>2, <2>3 DEF LockStep
<1>6. ASSUME NEW d \in Conn, Client(d)
      PROVE  LockStep'
  <2>1. UNCHANGED <<pc, clients, conn, pos, reply, results, errors>>
    BY <1>6 DEF Client, Connect, Request, RestArrives, Finish
  <2>h. Here' = Here
    BY <2>1 DEF Here
  <2>2. \A c \in Whole : Answering(c)' <=> Answering(c)
    BY <2>1, <2>h DEF Answering
  <2>l. /\ \A c \in Conn \ {d} : link'[c] = link[c]
        /\ link'[d] = link[d] \/ (link[d] # "broken" /\ link'[d] # "broken")
    BY <1>6, <1>a DEF Client, Connect, Request, RestArrives, Finish
  <2>b. \A c \in Conn : link'[c] = "broken" <=> link[c] = "broken"
    BY <2>l
  <2>s. \A c \in Conn \ {d} : stream'[c] = stream[c] /\ sent'[c] = sent[c]
    BY <1>6, <1>a DEF Client, Connect, Request, RestArrives, Finish, Arrives
  <2>a. \A c \in Whole \ {d} : Agree(c)' <=> Agree(c)
    BY <1>b, <2>1, <2>2, <2>s DEF Agree, Due
  <2>p. partial' \subseteq Split
    BY <1>6, <1>b DEF Client, Connect, Request, RestArrives, Finish
  <2>d. pc' = "dead" => \E c \in Split : link'[c] = "broken"
    BY <1>b, <2>1, <2>b
  <2>3. ASSUME d \in Whole
        PROVE  /\ stream'[d] = <<>> \/ stream'[d] = <<"whole">>
               /\ Answering(d)' => stream'[d] = <<>>
               /\ link'[d] = "open" => Agree(d)'
               /\ link'[d] = "broken" => stream'[d] = <<>> /\ ~Answering(d)'
               /\ link'[d] = "new" =>
                    sent'[d] = 0 /\ results'[d] = 0 /\ errors'[d] = 0 /\ stream'[d] = <<>>
    <3>1. CASE Connect(d)
      <4>1. /\ link[d] = "new" /\ link'[d] = "open" /\ UNCHANGED <<stream, sent>>
        BY <3>1, <1>a DEF Connect
      <4>2. ~Answering(d)
        BY <4>1, HereOpen DEF Answering
      <4>3. Agree(d)'
        BY <1>b, <2>1, <2>2, <2>3, <4>1, <4>2 DEF Agree, Due
      <4> QED
        BY <1>b, <2>2, <2>3, <4>1, <4>2, <4>3
    <3>2. CASE Request(d)
      <4>1. /\ link[d] = "open" /\ link' = link /\ d \notin Split
            /\ sent[d] - results[d] - errors[d] < Window
            /\ sent' = [sent EXCEPT ![d] = sent[d] + 1]
        BY <2>3, <3>2 DEF Request, Whole
      <4>2. stream' = [stream EXCEPT ![d] = Append(stream[d], "whole")]
        BY <3>2, <4>1 DEF Request, Arrives
      <4>3. ~Due(d) /\ sent[d] = results[d] /\ errors[d] = 0
        <5>1. Agree(d)
          BY <1>b, <2>3, <4>1
        <5>2. errors[d] = 0 /\ results[d] \in Int /\ Window \in Int /\ Window <= 1
          BY <1>a, <5>1, ServerAssumption DEF Agree, OneAtATime
        <5>3. sent[d] # results[d] + 1
          BY <4>1, <5>2
        <5> QED
          BY <5>1, <5>3 DEF Agree
      <4>4. stream[d] = <<>> /\ ~Answering(d) /\ Append(<<>>, "whole") = <<"whole">>
        BY <4>3 DEF Due
      <4>5. stream'[d] = <<"whole">> /\ sent'[d] = sent[d] + 1
        BY <1>a, <4>1, <4>2, <4>4
      <4>6. Due(d)'
        BY <4>5 DEF Due
      <4>7. Agree(d)'
        BY <2>1, <4>3, <4>5, <4>6 DEF Agree
      <4> QED
        BY <2>2, <2>3, <4>1, <4>4, <4>5, <4>7
    <3>3. CASE RestArrives(d)
      BY <1>b, <2>3, <3>3 DEF RestArrives, Whole
    <3>4. CASE Finish(d)
      <4>1. link'[d] \in {"fin", "reset"} /\ UNCHANGED <<stream, sent>>
        BY <1>a, <3>4 DEF Finish
      <4> QED
        BY <1>b, <2>2, <2>3, <4>1
    <3> QED
      BY <1>6, <3>1, <3>2, <3>3, <3>4 DEF Client
  <2>4. ASSUME NEW c \in Whole, c # d
        PROVE  /\ stream'[c] = <<>> \/ stream'[c] = <<"whole">>
               /\ Answering(c)' => stream'[c] = <<>>
               /\ link'[c] = "open" => Agree(c)'
               /\ link'[c] = "broken" => stream'[c] = <<>> /\ ~Answering(c)'
               /\ link'[c] = "new" =>
                    sent'[c] = 0 /\ results'[c] = 0 /\ errors'[c] = 0 /\ stream'[c] = <<>>
    <3>1. /\ stream'[c] = stream[c] /\ sent'[c] = sent[c] /\ link'[c] = link[c]
          /\ results'[c] = results[c] /\ errors'[c] = errors[c]
      BY <1>b, <2>1, <2>4, <2>l, <2>s
    <3>2. (Agree(c)' <=> Agree(c)) /\ (Answering(c)' <=> Answering(c))
      BY <2>2, <2>4, <2>a
    <3> QED
      BY <1>b, <3>1, <3>2
  <2> QED
    BY <1>b, <2>1, <2>h, <2>p, <2>d, <2>3, <2>4 DEF LockStep
<1> QED
  BY <1>1, <1>2, <1>3, <1>4, <1>5, <1>6, <1>7 DEF Next, Server, Thread

LEMMA LockStepAlways == OneAtATime => (Spec => []LockStep)
<1> SUFFICES ASSUME OneAtATime PROVE Spec => []LockStep
  OBVIOUS
<1>1. Init => ServerInv /\ LockStep
  BY TypesInit, TrackedInit, LockStepInit DEF ServerInv
<1>2. ServerInv /\ LockStep /\ [Next]_vars => (ServerInv /\ LockStep)'
  BY TypesNext, TrackedNext, LockStepNext DEF ServerInv
<1> QED
  BY <1>1, <1>2, PTL DEF Spec

\* With clients that wait for each answer, one whose requests arrive whole has,
\* whenever the server is back in poll with nothing of it to read, one result
\* for each request and no error, however many others there are and in whatever
\* pieces their requests come.
THEOREM OneResultEachAlways == OneAtATime => (Spec => []OneResultEach)
<1> SUFFICES ASSUME OneAtATime PROVE Spec => []OneResultEach
  OBVIOUS
<1>1. ServerInv /\ LockStep => OneResultEach
  <2> SUFFICES ASSUME ServerInv, LockStep, pc = "poll", NEW f \in Open,
                      conn[f] \notin Split, stream[conn[f]] = <<>>, link[conn[f]] = "open"
               PROVE  results[conn[f]] = sent[conn[f]] /\ errors[conn[f]] = 0
    BY DEF OneResultEach
  <2>1. conn[f] \in Whole
    BY DEF ServerInv, TypeOK, Open, Fd, Whole
  <2>2. ~Due(conn[f])
    BY DEF Due, Answering
  <2>3. Agree(conn[f])
    BY <2>1 DEF LockStep
  <2> QED
    BY <2>2, <2>3 DEF Agree
<1> QED
  BY <1>1, ServerInvAlways, LockStepAlways, PTL

\* Nor do such clients end the daemon by leaving: after the end of its data a
\* client is sent at most the one answer that was due.
THEOREM SurvivesSendAlways == OneAtATime => (Spec => []SurvivesSend)
<1> SUFFICES ASSUME OneAtATime PROVE Spec => []SurvivesSend
  OBVIOUS
<1>1. LockStep => SurvivesSend
  BY DEF LockStep, SurvivesSend
<1> QED
  BY <1>1, LockStepAlways, PTL
=============================================================================
