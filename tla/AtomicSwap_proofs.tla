-------------------------- MODULE AtomicSwap_proofs --------------------------
(***************************************************************************)
(* Type correctness and the safety of both parties of AtomicSwap, for any  *)
(* number of contracts, any durations and any clock skew.                  *)
(***************************************************************************)
EXTENDS AtomicSwap, TLAPS

-----------------------------------------------------------------------------
(* Type correctness *)

LEMMA InitType == Init => TypeOK
<1> SUFFICES ASSUME Init PROVE TypeOK
  OBVIOUS
<1>1. now \in 0 .. MaxTime /\ faults \in 0 .. MaxFaults
  BY DurationAssumption DEF Init
<1>2. job \in [Party -> Job \cup {Idle}]
  BY DEF Init
<1> QED
  BY <1>1, <1>2 DEF Init, TypeOK

\* The lock time a daemon puts into a contract is a number the script can hold
LEMMA LockTimeType ==
  ASSUME TypeOK, NEW p \in Party
  PROVE  LockTime(p) \in Nat
BY DurationAssumption, SkewAssumption DEF TypeOK, LockTime, Party

LEMMA StartedType ==
  ASSUME TypeOK, NEW op \in Op, NEW pc \in Pc, NEW t \in Tx, NEW kind \in Kind,
         NEW s \in Tx
  PROVE  Started(op, pc, t, kind, s) \in Job
BY DurationAssumption DEF TypeOK, Started, Job

\* The two ways a handler goes on
LEMMA JobStepType ==
  ASSUME TypeOK, NEW p \in Party, Busy(p), NEW pc \in Pc, NEW ok \in BOOLEAN,
         Continue(p, pc) \/ Return(p, ok)
  PROVE  job' \in [Party -> Job \cup {Idle}]
<1>1. job[p] \in Job
  BY DEF TypeOK, Busy
<1>2. [job[p] EXCEPT !.pc = pc] \in Job
  BY <1>1 DEF Job
<1>3. [[job[p] EXCEPT !.pc = "reply"] EXCEPT !.ok = ok] \in Job
  BY <1>1 DEF Job, Pc
<1>4. CASE Continue(p, pc)
  BY <1>2, <1>4 DEF Continue, TypeOK
<1>5. CASE Return(p, ok)
  BY <1>3, <1>5 DEF Return, TypeOK
<1> QED
  BY <1>4, <1>5

LEMMA CommandType ==
  ASSUME TypeOK, NEW p \in Party, Command(p)
  PROVE  TypeOK'
<1>1. CASE \E t \in Tx : Initiate(t)
  BY <1>1, LockTimeType, StartedType DEF TypeOK, Initiate, Build, userVars, spendVars, faultVars, Op, Pc, Kind, Party
<1>2. CASE \E t, a \in Tx : Participate(t, a)
  BY <1>2, LockTimeType, StartedType DEF TypeOK, Participate, Build, userVars, spendVars, faultVars, Op, Pc, Kind, Party
<1>3. CASE \E t, s \in Tx : Redeem(p, t, s)
  BY <1>3, StartedType DEF TypeOK, Redeem, contractVars, userVars, spendVars, faultVars, Op, Pc, Kind
<1>4. CASE \E t \in Tx : Refund(p, t)
  BY <1>4, StartedType DEF TypeOK, Refund, contractVars, userVars, spendVars, faultVars, Op, Pc, Kind
<1>5. CASE \E t, a \in Tx, kind \in Kind : ExtractSecret(p, t, kind, a)
  BY <1>5, StartedType DEF TypeOK, ExtractSecret, contractVars, userVars, spendVars, faultVars, Op, Pc, Kind
<1> QED
  BY <1>1, <1>2, <1>3, <1>4, <1>5 DEF Command

LEMMA DaemonType ==
  ASSUME TypeOK, NEW p \in Party, DaemonStep(p) \/ Fault(p)
  PROVE  TypeOK'
<1>1. CASE \E lost \in BOOLEAN : SendToAddress(p, lost)
  <2>1. PICK lost \in BOOLEAN : SendToAddress(p, lost)
    BY <1>1
  <2>2. job[p] \in Job
    BY <2>1 DEF SendToAddress, At, Busy, TypeOK
  <2>3. job' \in [Party -> Job \cup {Idle}]
    BY <2>1, JobStepType DEF SendToAddress, At, Pc
  <2>4. faults' \in 0 .. MaxFaults
    BY <2>1, DurationAssumption DEF SendToAddress, CanFail, TypeOK
  <2>5. funded' \in SUBSET Tx
    BY <2>1, <2>2 DEF SendToAddress, TypeOK, Job
  <2> QED
    BY <2>1, <2>3, <2>4, <2>5 DEF SendToAddress, TypeOK, contractVars, userVars, spendVars
<1>2. CASE GetRawTransaction(p) \/ DecodeRawTransaction(p) \/ DumpPrivKey(p) \/ RefuseRawTransaction(p)
  <2>1. Busy(p) /\ \E pc \in Pc, ok \in BOOLEAN : Continue(p, pc) \/ Return(p, ok)
    BY <1>2 DEF GetRawTransaction, DecodeRawTransaction, DumpPrivKey, RefuseRawTransaction, At, Pc
  <2>2. job' \in [Party -> Job \cup {Idle}]
    BY <2>1, JobStepType
  <2> QED
    BY <1>2, <2>2 DEF GetRawTransaction, DecodeRawTransaction, DumpPrivKey, RefuseRawTransaction,
       TypeOK, contractVars, userVars, spendVars, faultVars
<1>3. CASE \E lost \in BOOLEAN : SendRawTransaction(p, lost)
  <2>1. PICK lost \in BOOLEAN : SendRawTransaction(p, lost)
    BY <1>3
  <2>2. job[p] \in Job /\ job[p].op \in Spend
    BY <2>1 DEF SendRawTransaction, Acceptable, ScriptAccepts, At, Busy, TypeOK, Spend
  <2>3. job' \in [Party -> Job \cup {Idle}]
    BY <2>1, JobStepType DEF SendRawTransaction, At, Pc
  <2>4. faults' \in 0 .. MaxFaults
    BY <2>1, DurationAssumption DEF SendRawTransaction, CanFail, TypeOK
  <2>5. broadcast' \in [Tx -> SUBSET Spend] /\ spendTime' \in [Tx -> Nat]
    BY <2>1, <2>2, DurationAssumption DEF SendRawTransaction, TypeOK, Job
  <2> QED
    BY <2>1, <2>3, <2>4, <2>5 DEF SendRawTransaction, TypeOK, contractVars, userVars
<1>4. CASE CallRpcFails(p)
  <2>1. job' \in [Party -> Job \cup {Idle}]
    BY <1>4, JobStepType DEF CallRpcFails, Pc
  <2>2. faults' \in 0 .. MaxFaults
    BY <1>4, DurationAssumption DEF CallRpcFails, CanFail, TypeOK
  <2> QED
    BY <1>4, <2>1, <2>2 DEF CallRpcFails, TypeOK, contractVars, userVars, spendVars
<1>5. CASE Answer(p)
  <2>1. job[p] \in Job
    BY <1>5 DEF Answer, At, Busy, TypeOK
  <2>2. contracts' \in SUBSET Tx
    BY <1>5, <2>1 DEF Answer, TypeOK, Job
  <2>3. Given(job[p]) \in [for : Tx, is : Tx \cup {None}]
    BY <2>1 DEF Given, Carried, TypeOK, Job
  <2>4. secrets' \in [Party -> SUBSET [for : Tx, is : Tx \cup {None}]]
    BY <1>5, <2>3 DEF Answer, TypeOK
  <2> QED
    BY <1>5, <2>2, <2>4 DEF Answer, TypeOK, contractVars, spendVars, faultVars
<1>6. CASE Crash(p) \/ AnswerLost(p)
  <2>1. faults' \in 0 .. MaxFaults
    BY <1>6, DurationAssumption DEF Crash, AnswerLost, CanFail, TypeOK
  <2>2. job' \in [Party -> Job \cup {Idle}] /\ unanswered' \in SUBSET Tx
    BY <1>6 DEF Crash, AnswerLost, NoAnswer, TypeOK
  <2> QED
    BY <1>6, <2>1, <2>2 DEF Crash, AnswerLost, TypeOK, contractVars, userVars, spendVars
<1> QED
  BY <1>1, <1>2, <1>3, <1>4, <1>5, <1>6 DEF DaemonStep, Fault

LEMMA ChainType ==
  ASSUME TypeOK, Tick \/ \E t \in Tx, kind \in Spend : Confirm(t, kind)
  PROVE  TypeOK'
<1>1. CASE Tick
  BY <1>1, DurationAssumption DEF Tick, TypeOK, contractVars, userVars, spendVars, faultVars
<1>2. ASSUME NEW t \in Tx, NEW kind \in Spend, Confirm(t, kind)
      PROVE  TypeOK'
  <2>1. spent' \in [Tx -> Spend \cup {"none"}] /\ spendTime' \in [Tx -> Nat]
    BY <1>2, DurationAssumption DEF Confirm, TypeOK
  <2> QED
    BY <1>2, <2>1 DEF Confirm, TypeOK, contractVars, userVars, faultVars
<1> QED
  BY <1>1, <1>2

LEMMA TypeStep == TypeOK /\ [Next]_vars => TypeOK'
<1> SUFFICES ASSUME TypeOK, [Next]_vars PROVE TypeOK'
  OBVIOUS
<1>1. CASE UNCHANGED vars
  BY <1>1 DEF vars, TypeOK
<1>2. CASE Next
  BY <1>2, CommandType, DaemonType, ChainType DEF Next
<1> QED
  BY <1>1, <1>2

\* The state has its type at every step of every run, whatever the constants
THEOREM TypeCorrect == Spec => []TypeOK
BY InitType, TypeStep, PTL DEF Spec

-----------------------------------------------------------------------------
(* Which contracts commands and spends are about *)

Locking(p) == job[p].op \in {"initiate", "participate"}
Spending(p) == job[p].op \in {"redeem", "refund"}

\* What a command in progress is about, call by call
JobInv(p) ==
  Busy(p) =>
    /\ job[p].tx \in made /\ job[p].secret \in made
    /\ Spending(p) => job[p].reads = "lock"
    /\ job[p].pc = "send" => Locking(p)
    /\ Locking(p) => job[p].pc \in {"send", "reply"}
    /\ job[p].pc \in {"dump", "sendraw"} => Spending(p)
    /\ job[p].op = "initiate" => p = "initiator" /\ hash[job[p].tx] = job[p].tx
    /\ job[p].op = "participate" => p = "participant" /\ hash[job[p].tx] # job[p].tx
    /\ Spending(p) => job[p].tx \in contracts
    /\ Spending(p) /\ job[p].pc \in {"decode", "dump", "sendraw"} => job[p].tx \in funded
    /\ job[p].pc = "sendraw" => OwnsKey(p)

\* A contract asks for the secret of a contract of the initiator; a spend is of
\* a contract the users know and the nodes have
ChainInv ==
  /\ contracts \subseteq made /\ funded \subseteq made
  /\ \A t \in made : hash[t] \in made /\ hash[hash[t]] = hash[t]
  /\ \A p \in Party : \A g \in secrets[p] : g.is \in made \cup {None}
  /\ \A t \in Tx : broadcast[t] # {} => t \in contracts /\ t \in funded
  /\ \A t \in Tx : spent[t] # "none" => spent[t] \in broadcast[t]

StructInv == ChainInv /\ \A p \in Party : JobInv(p)

LEMMA StructCommand ==
  ASSUME TypeOK, StructInv, NEW p \in Party, Command(p)
  PROVE  StructInv'
<1> USE NoneAssumption DEF TypeOK, StructInv, ChainInv, JobInv, Locking, Spending, Busy, Started, Idle,
            userVars, spendVars, faultVars, contractVars, IsInitiators, OwnsKey, Recipient, Refunder
<1>1. CASE \E t \in Tx : Initiate(t)
  BY <1>1 DEF Initiate, Build, Party
<1>2. CASE \E t, a \in Tx : Participate(t, a)
  BY <1>2 DEF Participate, Build, Party
<1>3. CASE \E t, s \in Tx : Redeem(p, t, s)
  BY <1>3 DEF Redeem
<1>4. CASE \E t \in Tx : Refund(p, t)
  BY <1>4 DEF Refund
<1>5. CASE \E t, a \in Tx, kind \in Kind : ExtractSecret(p, t, kind, a)
  BY <1>5 DEF ExtractSecret
<1> QED
  BY <1>1, <1>2, <1>3, <1>4, <1>5 DEF Command

\* A step of p's daemon that leaves its command in progress, at pc
SameJob(p, pc) ==
  /\ \A q \in Party \ {p} : job'[q] = job[q]
  /\ job'[p] # Idle /\ job'[p].pc = pc
  /\ job'[p].op = job[p].op /\ job'[p].tx = job[p].tx /\ job'[p].reads = job[p].reads
  /\ job'[p].secret = job[p].secret /\ job'[p].since = job[p].since

LEMMA ContinueStep ==
  ASSUME TypeOK, NEW p \in Party, Busy(p), NEW pc \in Pc, Continue(p, pc)
  PROVE  SameJob(p, pc)
<1>1. job[p] \in Job
  BY DEF TypeOK, Busy
<1>2. job' = [job EXCEPT ![p] = [job[p] EXCEPT !.pc = pc]]
  BY DEF Continue
<1>3. job'[p] = [job[p] EXCEPT !.pc = pc]
  BY <1>2 DEF TypeOK
<1>4. job'[p].op = job[p].op /\ job'[p].tx = job[p].tx /\ job'[p].pc = pc
      /\ job'[p].secret = job[p].secret /\ job'[p].since = job[p].since
      /\ job'[p].reads = job[p].reads
  BY <1>1, <1>3 DEF Job
<1>5. job'[p] # Idle
  BY <1>1, <1>4 DEF Job, Op, Idle
<1> QED
  BY <1>2, <1>4, <1>5 DEF TypeOK, SameJob

LEMMA ReturnStep ==
  ASSUME TypeOK, NEW p \in Party, Busy(p), NEW ok \in BOOLEAN, Return(p, ok)
  PROVE  SameJob(p, "reply") /\ job'[p].ok = ok
<1>1. job[p] \in Job
  BY DEF TypeOK, Busy
<1>2. job' = [job EXCEPT ![p] = [[job[p] EXCEPT !.pc = "reply"] EXCEPT !.ok = ok]]
  BY DEF Return, TypeOK
<1>3. job'[p] = [[job[p] EXCEPT !.pc = "reply"] EXCEPT !.ok = ok]
  BY <1>2 DEF TypeOK
<1>4. job'[p].op = job[p].op /\ job'[p].tx = job[p].tx /\ job'[p].pc = "reply"
      /\ job'[p].secret = job[p].secret /\ job'[p].since = job[p].since /\ job'[p].ok = ok
      /\ job'[p].reads = job[p].reads
  BY <1>1, <1>3 DEF Job
<1>5. job'[p] # Idle
  BY <1>1, <1>4 DEF Job, Op, Idle
<1> QED
  BY <1>2, <1>4, <1>5 DEF TypeOK, SameJob

\* The commands in progress after a call of p's
LEMMA JobInvStep ==
  ASSUME TypeOK, StructInv, NEW p \in Party, Busy(p), NEW pc \in Pc, SameJob(p, pc),
         UNCHANGED <<made, hash, contracts>>, funded \subseteq funded',
         \/ pc = "reply"
         \/ /\ pc = "decode" /\ ~Locking(p)
            /\ Spending(p) => job[p].tx \in funded
         \/ pc \in {"dump", "sendraw"} /\ Spending(p) /\ job[p].tx \in funded
            /\ (pc = "sendraw" => OwnsKey(p))
  PROVE  \A q \in Party : JobInv(q)'
<1> USE DEF StructInv, JobInv, SameJob, Locking, Spending, Busy
<1>1. ASSUME NEW q \in Party \ {p} PROVE JobInv(q)'
  BY <1>1 DEF OwnsKey, Recipient, Refunder, IsInitiators
<1>2. OwnsKey(p) => OwnsKey(p)'
  BY DEF OwnsKey, Recipient, Refunder, IsInitiators
<1>3. JobInv(p)'
  BY <1>2
<1> QED
  BY <1>1, <1>3

LEMMA StructDaemon ==
  ASSUME TypeOK, StructInv, NEW p \in Party, DaemonStep(p) \/ Fault(p)
  PROVE  StructInv'
<1> USE DEF At, contractVars, userVars, spendVars
<1>1. CASE \E lost \in BOOLEAN : SendToAddress(p, lost)
  <2>1. Busy(p) /\ SameJob(p, "reply")
    BY <1>1, ReturnStep DEF SendToAddress
  <2>2. ChainInv'
    BY <1>1 DEF SendToAddress, StructInv, ChainInv, JobInv
  <2> QED
    BY <1>1, <2>1, <2>2, JobInvStep DEF SendToAddress, StructInv, Pc
<1>2. CASE GetRawTransaction(p) \/ DecodeRawTransaction(p) \/ DumpPrivKey(p)
           \/ RefuseRawTransaction(p) \/ CallRpcFails(p)
  <2>1. UNCHANGED <<contractVars, funded, userVars, spendVars>> /\ Busy(p)
    BY <1>2 DEF GetRawTransaction, DecodeRawTransaction, DumpPrivKey, RefuseRawTransaction, CallRpcFails
  <2>2. ChainInv'
    BY <2>1 DEF StructInv, ChainInv
  <2>3. CASE \E ok \in BOOLEAN : Return(p, ok)
    BY <2>1, <2>2, <2>3, ReturnStep, JobInvStep DEF StructInv, Pc
  <2>4. CASE GetRawTransaction(p) /\ NodeHas(p) /\ Continue(p, "decode")
    BY <2>1, <2>2, <2>4, ContinueStep, JobInvStep
       DEF StructInv, JobInv, GetRawTransaction, NodeHas, Spending, Locking, Pc
  <2>5. CASE DecodeRawTransaction(p) /\ job[p].op # "extractsecret" /\ Continue(p, "dump")
    <3>1. Spending(p)
      BY <2>5 DEF DecodeRawTransaction, StructInv, JobInv, Spending, Locking, TypeOK, Busy, Job, Op
    <3> QED
      BY <2>1, <2>2, <2>5, <3>1, ContinueStep, JobInvStep DEF StructInv, JobInv, DecodeRawTransaction, Pc
  <2>6. CASE DumpPrivKey(p) /\ OwnsKey(p) /\ Continue(p, "sendraw")
    BY <2>1, <2>2, <2>6, ContinueStep, JobInvStep DEF StructInv, JobInv, DumpPrivKey, Pc
  <2> QED
    BY <1>2, <2>3, <2>4, <2>5, <2>6
       DEF GetRawTransaction, DecodeRawTransaction, DumpPrivKey, RefuseRawTransaction, CallRpcFails
<1>3. CASE \E lost \in BOOLEAN : SendRawTransaction(p, lost)
  <2>1. Busy(p) /\ SameJob(p, "reply")
    BY <1>3, ReturnStep DEF SendRawTransaction
  <2>2. job[p].tx \in contracts /\ job[p].tx \in funded
    BY <1>3 DEF SendRawTransaction, StructInv, JobInv, Spending
  <2>3. ChainInv'
    BY <1>3, <2>2 DEF SendRawTransaction, StructInv, ChainInv, TypeOK
  <2> QED
    BY <1>3, <2>1, <2>3, JobInvStep DEF SendRawTransaction, StructInv, Pc
<1>4. CASE Answer(p) \/ AnswerLost(p) \/ Crash(p)
  <2>1. Busy(p) /\ job' = [job EXCEPT ![p] = Idle] /\ contracts \subseteq contracts'
        /\ UNCHANGED <<made, hash, funded>>
    BY <1>4 DEF Answer, AnswerLost, Crash, NoAnswer
  <2>2. \A q \in Party : JobInv(q)'
    BY <2>1 DEF StructInv, JobInv, Busy, TypeOK, Locking, Spending, OwnsKey, Recipient, Refunder, IsInitiators
  <2>3. ChainInv'
    <3>1. Given(job[p]).is \in made \cup {None}
      BY <2>1 DEF Given, Carried, StructInv, ChainInv, JobInv
    <3>2. \A q \in Party : \A g \in secrets'[q] : g.is \in made \cup {None}
      BY <1>4, <3>1 DEF Answer, AnswerLost, Crash, StructInv, ChainInv, TypeOK
    <3> QED
      BY <1>4, <2>1, <3>2 DEF Answer, AnswerLost, Crash, StructInv, ChainInv, JobInv, TypeOK
  <2> QED
    BY <2>2, <2>3 DEF StructInv
<1> QED
  BY <1>1, <1>2, <1>3, <1>4 DEF DaemonStep, Fault

LEMMA StructChain ==
  ASSUME TypeOK, StructInv, Tick \/ \E t \in Tx, kind \in Spend : Confirm(t, kind)
  PROVE  StructInv'
<1> USE DEF StructInv, ChainInv, JobInv, Locking, Spending, Busy, IsInitiators,
            OwnsKey, Recipient, Refunder, contractVars, userVars, spendVars
<1>1. CASE Tick
  BY <1>1 DEF Tick
<1>2. CASE \E t \in Tx, kind \in Spend : Confirm(t, kind)
  BY <1>2 DEF Confirm, TypeOK
<1> QED
  BY <1>1, <1>2

\* Every spend is of a contract the users were told of and the nodes have
LEMMA StructCorrect == Spec => []StructInv
<1>1. Init => StructInv
  BY DEF Init, StructInv, ChainInv, JobInv, Busy, Idle
<1>2. TypeOK /\ StructInv /\ [Next]_vars => StructInv'
  <2> SUFFICES ASSUME TypeOK, StructInv, [Next]_vars PROVE StructInv'
    OBVIOUS
  <2>1. CASE UNCHANGED vars
    BY <2>1 DEF vars, StructInv, ChainInv, JobInv, Locking, Spending, Busy, OwnsKey,
                Recipient, Refunder, IsInitiators
  <2>2. CASE Next
    BY <2>2, StructCommand, StructDaemon, StructChain DEF Next
  <2> QED
    BY <2>1, <2>2
<1> QED
  BY <1>1, <1>2, TypeCorrect, PTL DEF Spec

-----------------------------------------------------------------------------
(* Safety of the two parties, from what the script and the daemon do and     *)
(* from how much time the users leave                                        *)

\* The participant joins early enough to redeem after the initiator has, the
\* latest it can, before the initiator may refund; and a participate command
\* ends before its own lock time has come
ParticipantTimely ==
  /\ ParticipateLock + Skew["participant"] + 2 * React + 2 * Conf < ParticipateMargin
  /\ MaxHang <= ParticipateLock + Skew["participant"] + React

\* The initiator asks for its redemption early enough to see it confirmed
\* before the participant may refund
InitiatorTimely == MaxHang + Conf < RedeemMargin

-----------------------------------------------------------------------------
(* Facts about every step *)

\* Contracts keep their hash and lock time; spends are only added
Grows ==
  /\ made \subseteq made'
  /\ \A t \in made : hash'[t] = hash[t] /\ lock'[t] = lock[t]
  /\ \A t \in Tx : broadcast[t] \subseteq broadcast'[t]

LEMMA StepGrows ==
  ASSUME TypeOK, [Next]_vars
  PROVE  Grows
<1> USE DEF Grows, contractVars, spendVars
<1>1. ASSUME NEW p \in Party, Command(p) PROVE Grows
  BY <1>1 DEF Command, Initiate, Participate, Build, Redeem, Refund, ExtractSecret, TypeOK
<1>2. ASSUME NEW p \in Party, DaemonStep(p) \/ Fault(p) PROVE Grows
  <2>1. UNCHANGED contractVars
    BY <1>2 DEF DaemonStep, Fault, SendToAddress, GetRawTransaction, DecodeRawTransaction, DumpPrivKey,
       SendRawTransaction, RefuseRawTransaction, CallRpcFails, Answer, AnswerLost, Crash, NoAnswer
  <2>2. CASE \E lost \in BOOLEAN : SendRawTransaction(p, lost)
    BY <2>1, <2>2 DEF SendRawTransaction, TypeOK
  <2>3. CASE ~\E lost \in BOOLEAN : SendRawTransaction(p, lost)
    BY <1>2, <2>1, <2>3 DEF DaemonStep, Fault, SendToAddress, GetRawTransaction, DecodeRawTransaction,
       DumpPrivKey, RefuseRawTransaction, CallRpcFails, Answer, AnswerLost, Crash, NoAnswer
  <2> QED
    BY <2>2, <2>3
<1>3. CASE Tick \/ \E t \in Tx, kind \in Spend : Confirm(t, kind)
  BY <1>3 DEF Tick, Confirm
<1>4. CASE UNCHANGED vars
  BY <1>4 DEF vars
<1> QED
  BY <1>1, <1>2, <1>3, <1>4 DEF Next

-----------------------------------------------------------------------------
(* Where the participant's secrets come from *)

Revealed(a) == \E b \in Tx : Answers(b, a) /\ "redeem" \in broadcast[b]

\* What p's command knows of a secret
SecretJob(p) ==
  Busy(p) =>
    /\ job[p].op = "extractsecret" /\ job[p].pc = "decode" /\ job[p].reads = "redeem" =>
         "redeem" \in broadcast[job[p].tx]
    /\ job[p].op = "extractsecret" /\ job[p].pc = "reply" /\ job[p].ok =>
         Carried(job[p]) = job[p].secret /\ "redeem" \in broadcast[job[p].tx]
    /\ job[p].op = "redeem" => \E g \in secrets[p] : g.is = job[p].secret

SecretInv ==
  /\ \A p \in Party : SecretJob(p)
  /\ \A g \in secrets["participant"] : g.is = g.for /\ Revealed(g.for)
  /\ \A a \in made : IsInitiators(a) /\ "redeem" \in broadcast[a] => Revealed(a)

LEMMA RevealedGrows ==
  ASSUME TypeOK, Grows, NEW a, Revealed(a)
  PROVE  Revealed(a)'
BY DEF Grows, Revealed, Answers, IsInitiators, TypeOK

\* A command of one daemon is not disturbed by the other
LEMMA SecretJobKept ==
  ASSUME TypeOK, StructInv, Grows, NEW p \in Party, SecretJob(p), job'[p] = job[p],
         secrets[p] \subseteq secrets'[p]
  PROVE  SecretJob(p)'
BY DEF SecretJob, Carried, StructInv, JobInv, Busy, Grows, TypeOK

LEMMA SecretStep ==
  ASSUME TypeOK, StructInv, SecretInv, [Next]_vars
  PROVE  SecretInv'
<1> Grows
  BY StepGrows
<1>1. ASSUME UNCHANGED secrets
      PROVE  \A g \in secrets'["participant"] : g.is = g.for /\ Revealed(g.for)'
  BY <1>1, RevealedGrows DEF SecretInv
<1>2. ASSUME UNCHANGED broadcast
      PROVE  \A a \in made' : IsInitiators(a)' /\ "redeem" \in broadcast'[a] => Revealed(a)'
  <2> SUFFICES ASSUME NEW a \in made', IsInitiators(a)', "redeem" \in broadcast'[a]
               PROVE  Revealed(a)'
    OBVIOUS
  <2>1. a \in Tx /\ broadcast[a] # {}
    BY <1>2, TypeStep DEF TypeOK
  <2>2. a \in made
    BY <2>1 DEF StructInv, ChainInv
  <2> QED
    BY <1>2, <2>2, RevealedGrows DEF SecretInv, Grows, IsInitiators
<1>3. ASSUME NEW p \in Party, Command(p) PROVE SecretInv'
  <2>1. UNCHANGED <<secrets, broadcast>> /\ \A q \in Party \ {p} : job'[q] = job[q]
    BY <1>3 DEF Command, Initiate, Participate, Redeem, Refund, ExtractSecret, userVars, spendVars, TypeOK
  <2>2. \A q \in Party \ {p} : SecretJob(q)'
    BY <2>1, SecretJobKept DEF SecretInv
  <2>3. SecretJob(p)'
    BY <1>3, <2>1 DEF Command, Initiate, Participate, Redeem, Refund, ExtractSecret, SecretJob,
       Started, TypeOK
  <2> QED
    BY <1>1, <1>2, <2>1, <2>2, <2>3 DEF SecretInv
<1>4. ASSUME NEW p \in Party, DaemonStep(p) \/ Fault(p) PROVE SecretInv'
  <2>1. \A q \in Party \ {p} : job'[q] = job[q]
    BY <1>4, ReturnStep, ContinueStep
       DEF DaemonStep, Fault, SendToAddress, GetRawTransaction, DecodeRawTransaction, DumpPrivKey,
       SendRawTransaction, RefuseRawTransaction, CallRpcFails, Answer, AnswerLost, Crash, NoAnswer, TypeOK, Return, Continue
  <2>2. CASE Answer(p)
    <3>1. \A q \in Party : secrets[q] \subseteq secrets'[q]
      BY <2>2 DEF Answer, TypeOK
    <3>2. \A q \in Party : SecretJob(q)'
      BY <2>1, <2>2, <3>1, SecretJobKept DEF Answer, SecretInv, SecretJob, Busy, TypeOK
    <3>3. ASSUME NEW g \in secrets'["participant"], g \notin secrets["participant"]
          PROVE  g.is = g.for /\ Revealed(g.for)
      <4>1. p = "participant" /\ Busy(p) /\ g = Given(job[p])
        BY <2>2, <3>3 DEF Answer, At, TypeOK, Party
      <4>2. job[p].op = "extractsecret" /\ job[p].pc = "reply" /\ job[p].ok
        BY <2>2, <3>3, <4>1 DEF Answer, At, StructInv, JobInv, Party
      <4>3. g.for = job[p].secret /\ g.is = Carried(job[p])
        BY <4>1, <4>2 DEF Given
      <4>4. /\ Carried(job[p]) = job[p].secret /\ "redeem" \in broadcast[job[p].tx]
            /\ job[p].tx \in made /\ job[p].secret \in Tx
        BY <4>1, <4>2 DEF SecretInv, SecretJob, StructInv, JobInv, TypeOK, Busy, Job
      <4>5. hash[job[p].tx] = g.for
        BY <4>3, <4>4, NoneAssumption DEF Carried
      <4> QED
        BY <4>3, <4>4, <4>5 DEF SecretInv, Revealed, Answers, IsInitiators, TypeOK
    <3>4. \A g \in secrets'["participant"] : g.is = g.for /\ Revealed(g.for)'
      BY <3>3, RevealedGrows DEF SecretInv
    <3> QED
      BY <1>2, <2>2, <3>2, <3>4 DEF SecretInv, Answer, spendVars
  <2>3. CASE Crash(p) \/ AnswerLost(p)
    <3>1. job' = [job EXCEPT ![p] = Idle] /\ UNCHANGED <<userVars, spendVars>>
      BY <2>3 DEF Crash, AnswerLost, NoAnswer
    <3>2. \A q \in Party : SecretJob(q)'
      BY <2>1, <3>1, SecretJobKept DEF userVars, SecretInv, SecretJob, Busy, TypeOK
    <3> QED
      BY <1>1, <1>2, <3>1, <3>2 DEF SecretInv, userVars, spendVars
  <2>4. CASE \E lost \in BOOLEAN : SendRawTransaction(p, lost)
    <3>1. PICK lost \in BOOLEAN : SendRawTransaction(p, lost)
      BY <2>4
    <3>2. Busy(p) /\ SameJob(p, "reply") /\ job[p].op \in Spend /\ UNCHANGED <<secrets, made, hash>>
      BY <3>1, ReturnStep DEF SendRawTransaction, At, Acceptable, ScriptAccepts, Spend, contractVars, userVars
    <3>3. \A q \in Party : SecretJob(q)'
      BY <2>1, <3>2, SecretJobKept DEF SecretInv, SecretJob, Carried, SameJob, Spend
    <3>4. ASSUME NEW a \in made', IsInitiators(a)', "redeem" \in broadcast'[a]
          PROVE  Revealed(a)
      <4>1. CASE "redeem" \in broadcast[a]
        BY <3>2, <3>4, <4>1 DEF SecretInv, IsInitiators
      <4>2. CASE "redeem" \notin broadcast[a]
        <5>1. job[p].tx = a /\ job[p].op = "redeem" /\ job[p].secret = hash[a]
          BY <3>1, <3>4, <4>2 DEF SendRawTransaction, Acceptable, ScriptAccepts, TypeOK
        <5>2. p = "participant"
          BY <3>1, <3>2, <3>4, <5>1 DEF SendRawTransaction, At, StructInv, JobInv, OwnsKey, Recipient, IsInitiators
        <5>3. \E g \in secrets["participant"] : g.is = a
          BY <3>2, <3>4, <5>1, <5>2 DEF SecretInv, SecretJob, IsInitiators
        <5> QED
          BY <5>3 DEF SecretInv
      <4> QED
        BY <4>1, <4>2
    <3> QED
      BY <1>1, <3>2, <3>3, <3>4, RevealedGrows DEF SecretInv
  <2>5. CASE \/ \E lost \in BOOLEAN : SendToAddress(p, lost)
             \/ GetRawTransaction(p) \/ DecodeRawTransaction(p) \/ DumpPrivKey(p)
             \/ RefuseRawTransaction(p) \/ CallRpcFails(p)
    <3>1. Busy(p) /\ UNCHANGED <<contractVars, userVars, spendVars>>
      BY <2>5 DEF SendToAddress, GetRawTransaction, DecodeRawTransaction, DumpPrivKey,
         RefuseRawTransaction, CallRpcFails, At
    <3>2. SecretJob(p)'
      <4> USE DEF At, SecretInv, SecretJob, SameJob, Pc, userVars, spendVars, contractVars, Busy
      <4>1. CASE \E lost \in BOOLEAN : SendToAddress(p, lost)
        BY <3>1, <4>1, ReturnStep DEF SendToAddress, StructInv, JobInv, Locking
      <4>2. CASE DecodeRawTransaction(p) /\ job[p].op = "extractsecret"
        <5>1. Return(p, Carried(job[p]) = job[p].secret) /\ job[p].pc = "decode"
          BY <4>2 DEF DecodeRawTransaction
        <5>2. SameJob(p, "reply") /\ job'[p].ok = (Carried(job[p]) = job[p].secret)
          BY <3>1, <5>1, ReturnStep
        <5>3. Carried(job[p])' = Carried(job[p])
          BY <3>1, <5>2 DEF Carried
        <5>4. job[p].secret \in Tx
          BY <3>1 DEF TypeOK, Job
        <5>5. Carried(job[p]) = job[p].secret => "redeem" \in broadcast[job[p].tx]
          BY <3>1, <4>2, <5>1, <5>4, NoneAssumption DEF Carried
        <5> QED
          BY <3>1, <4>2, <5>2, <5>3, <5>5
      <4>5. CASE GetRawTransaction(p) /\ Continue(p, "decode")
        <5>1. job[p].reads = "redeem" => "redeem" \in broadcast[job[p].tx]
          BY <3>1, <4>5 DEF GetRawTransaction, NodeHas, Return, Continue, TypeOK, Job
        <5> QED
          BY <3>1, <4>5, <5>1, ContinueStep
      <4>3. CASE \E pc \in Pc : pc \notin {"decode", "reply"} /\ Continue(p, pc)
        BY <3>1, <4>3, ContinueStep
      <4>4. CASE Return(p, FALSE)
        BY <3>1, <4>4, ReturnStep
      <4> QED
        BY <2>5, <4>1, <4>2, <4>3, <4>4, <4>5
           DEF GetRawTransaction, DecodeRawTransaction, DumpPrivKey, RefuseRawTransaction, CallRpcFails
    <3>3. \A q \in Party : SecretJob(q)'
      BY <2>1, <3>1, <3>2, SecretJobKept DEF SecretInv, userVars
    <3> QED
      BY <1>1, <1>2, <3>1, <3>3 DEF SecretInv, userVars, spendVars
  <2> QED
    BY <1>4, <2>2, <2>3, <2>4, <2>5 DEF DaemonStep, Fault
<1>5. CASE Tick \/ (\E t \in Tx, kind \in Spend : Confirm(t, kind)) \/ UNCHANGED vars
  <2>1. UNCHANGED <<job, secrets, broadcast>>
    BY <1>5 DEF Tick, Confirm, vars, userVars, spendVars
  <2>2. \A q \in Party : SecretJob(q)'
    BY <2>1, SecretJobKept DEF SecretInv
  <2> QED
    BY <1>1, <1>2, <2>1, <2>2 DEF SecretInv
<1> QED
  BY <1>3, <1>4, <1>5 DEF Next

\* The participant learns a secret only from the initiator's redemption of a
\* contract for it, over any number of swaps, retries and crashes
THEOREM SecretCorrect == Spec => []SecretFromRedemption
<1>1. Init => SecretInv
  BY DEF Init, SecretInv, SecretJob, Busy, Party
<1>2. TypeOK /\ StructInv /\ SecretInv /\ [Next]_vars => SecretInv'
  BY SecretStep
<1>3. SecretInv => SecretFromRedemption
  BY DEF SecretInv, SecretFromRedemption, Revealed
<1> QED
  BY <1>1, <1>2, <1>3, TypeCorrect, StructCorrect, PTL DEF Spec

-----------------------------------------------------------------------------
(* Deadlines *)

\* What the deadlines make true of commands and spends
TimeInv ==
  /\ \A p \in Party : Busy(p) =>
       /\ job[p].since <= now /\ now <= job[p].since + MaxHang
       /\ job[p].op = "participate" =>
            lock[job[p].tx] = job[p].since + Skew["participant"] + ParticipateLock
  /\ \A t \in Tx : broadcast[t] # {} =>
       /\ spendTime[t] <= now
       /\ spent[t] = "none" => now <= spendTime[t] + Conf
  /\ \A t \in Tx : "refund" \in broadcast[t] => lock[t] <= now

\* A step of p's daemon other than the acceptance of a spend
Elsewhere(p) ==
  (DaemonStep(p) \/ Fault(p)) /\ ~\E lost \in BOOLEAN : SendRawTransaction(p, lost)

LEMMA ElsewhereStep ==
  ASSUME TypeOK, NEW p \in Party, Elsewhere(p)
  PROVE  /\ Busy(p) /\ UNCHANGED <<now, contractVars, spendVars>>
         /\ job'[p] = Idle \/ \E pc \in Pc : SameJob(p, pc)
         /\ \A q \in Party \ {p} : job'[q] = job[q]
         /\ \A t \in funded' \ funded : job[p].tx = t /\ job[p].pc = "send"
         /\ \A t \in contracts' \ contracts : job[p].tx = t /\ job[p].op \in {"initiate", "participate"}
<1> USE DEF At, contractVars, userVars, spendVars
<1>1. CASE SendToAddress(p, TRUE) \/ SendToAddress(p, FALSE)
  BY <1>1, ReturnStep DEF SendToAddress, SameJob, Pc
<1>2. CASE GetRawTransaction(p) \/ DecodeRawTransaction(p) \/ DumpPrivKey(p)
           \/ RefuseRawTransaction(p) \/ CallRpcFails(p)
  <2>1. Busy(p) /\ UNCHANGED <<now, contractVars, funded, userVars, spendVars>>
    BY <1>2 DEF GetRawTransaction, DecodeRawTransaction, DumpPrivKey, RefuseRawTransaction, CallRpcFails
  <2>2. \E pc \in Pc : SameJob(p, pc)
    BY <1>2, <2>1, ReturnStep, ContinueStep
       DEF GetRawTransaction, DecodeRawTransaction, DumpPrivKey, RefuseRawTransaction, CallRpcFails, Pc
  <2> QED
    BY <2>1, <2>2 DEF SameJob
<1>3. CASE Answer(p) \/ Crash(p) \/ AnswerLost(p)
  BY <1>3 DEF Answer, Crash, AnswerLost, NoAnswer, TypeOK
<1> QED
  BY <1>1, <1>2, <1>3 DEF Elsewhere, DaemonStep, Fault

LEMMA TimeStep ==
  ASSUME TypeOK, StructInv, TimeInv, [Next]_vars
  PROVE  TimeInv'
<1> Grows
  BY StepGrows
<1> USE DurationAssumption DEF TimeInv
<1>1. ASSUME NEW p \in Party, Command(p) PROVE TimeInv'
  <2>1. UNCHANGED <<now, spendVars>> /\ \A q \in Party \ {p} : job'[q] = job[q]
    BY <1>1 DEF Command, Initiate, Participate, Redeem, Refund, ExtractSecret, TypeOK
  <2>2. job'[p].since = now
    BY <1>1 DEF Command, Initiate, Participate, Redeem, Refund, ExtractSecret, Started, TypeOK
  <2>3. job'[p].op = "participate" =>
          lock'[job'[p].tx] = now + Skew["participant"] + ParticipateLock
    BY <1>1, SkewAssumption DEF Command, Initiate, Participate, Redeem, Refund, ExtractSecret, Started, Build, LockTime,
       TypeOK, Party
  <2>4. \A q \in Party \ {p} : Busy(q) => job[q].tx \in made
    BY DEF StructInv, JobInv
  <2>5. \A t \in Tx : broadcast[t] # {} => lock'[t] = lock[t]
    BY DEF StructInv, ChainInv, Grows
  <2> QED
    BY <2>1, <2>2, <2>3, <2>4, <2>5 DEF Grows, Busy, spendVars, TypeOK
<1>2. ASSUME NEW p \in Party, Elsewhere(p) PROVE TimeInv'
  BY <1>2, ElsewhereStep DEF SameJob, Busy, contractVars, spendVars
<1>3. ASSUME NEW p \in Party, NEW lost \in BOOLEAN, SendRawTransaction(p, lost) PROVE TimeInv'
  <2>1. Busy(p) /\ SameJob(p, "reply") /\ UNCHANGED <<now, contractVars>>
    BY <1>3, ReturnStep DEF SendRawTransaction, At
  <2>2. \A t \in Tx : broadcast'[t] # {} =>
          spendTime'[t] <= now /\ (spent'[t] = "none" => now <= spendTime'[t] + Conf)
    BY <1>3 DEF SendRawTransaction, TypeOK
  <2>3. \A t \in Tx : "refund" \in broadcast'[t] => lock[t] <= now
    BY <1>3 DEF SendRawTransaction, Acceptable, ScriptAccepts, TypeOK
  <2> QED
    BY <2>1, <2>2, <2>3 DEF SameJob, Busy, contractVars
<1>4. CASE \E t \in Tx, kind \in Spend : Confirm(t, kind)
  BY <1>4 DEF Confirm, contractVars, TypeOK, Busy, Spend
<1>5. CASE Tick
  BY <1>5 DEF Tick, Deadlines, HandlersReturn, SpendsConfirm, contractVars, spendVars, TypeOK, Busy, Job
<1>6. CASE UNCHANGED vars
  BY <1>6 DEF vars, Busy
<1> QED
  BY <1>1, <1>2, <1>3, <1>4, <1>5, <1>6 DEF Next, Elsewhere

-----------------------------------------------------------------------------
(* The participant *)

\* The participant's contract runs out so much earlier than the initiator's
\* that the participant can answer the last possible redemption
Ordered ==
  \A b \in made : ~IsInitiators(b) =>
    lock[b] + 2 * React + 2 * Conf < lock[hash[b]]

\* The participant's contract is spent soon after its lock time
SpentSoon ==
  /\ \A b \in contracts \cap funded :
       ~IsInitiators(b) /\ broadcast[b] = {} => now <= lock[b] + React
  /\ \A b \in made : ~IsInitiators(b) /\ broadcast[b] # {} =>
       /\ spent[b] = "none" => spendTime[b] <= lock[b] + React
       /\ spent[b] # "none" => spendTime[b] <= lock[b] + React + Conf

\* After the initiator's redemption the participant's one comes soon
RedeemedSoon ==
  \A a, b \in Tx : Answers(b, a) /\ spent[b] = "redeem" /\ spent[a] = "none" =>
    /\ "redeem" \notin broadcast[a] => now <= spendTime[b] + React
    /\ broadcast[a] # {} => spendTime[a] <= lock[b] + 2 * React + Conf

ParticipantInv == Ordered /\ SpentSoon /\ RedeemedSoon /\ ParticipantSafe

\* While the participant's contract has an unconfirmed spend, and while only
\* the initiator's contract is left, no refund of the latter is possible
LEMMA NotYet ==
  ASSUME TypeOK, StructInv, TimeInv, ParticipantInv, NEW a \in Tx, NEW b \in Tx, Answers(b, a),
         \/ spent[b] = "none" /\ broadcast[b] # {}
         \/ spent[b] = "redeem" /\ spent[a] = "none"
  PROVE  now < lock[a] /\ now <= lock[b] + 2 * React + 2 * Conf
<1> USE DurationAssumption DEF TypeOK, ParticipantInv, Answers
<1>1. lock[b] + 2 * React + 2 * Conf < lock[a]
  BY DEF Ordered
<1>2. CASE spent[b] = "none" /\ broadcast[b] # {}
  <2>1. now <= lock[b] + React + Conf
    BY <1>2 DEF SpentSoon, TimeInv
  <2> QED
    BY <1>1, <2>1
<1>3. CASE spent[b] = "redeem" /\ spent[a] = "none"
  <2>1. spendTime[b] <= lock[b] + React + Conf
    BY <1>3 DEF SpentSoon, StructInv, ChainInv
  <2>2. CASE "redeem" \notin broadcast[a]
    BY <1>1, <1>3, <2>1, <2>2 DEF RedeemedSoon
  <2>3. CASE "redeem" \in broadcast[a]
    BY <1>1, <1>3, <2>3 DEF RedeemedSoon, TimeInv
  <2> QED
    BY <2>2, <2>3
<1> QED
  BY <1>2, <1>3

LEMMA ParticipantStep ==
  ASSUME ParticipantTimely, TypeOK, StructInv, TimeInv, ParticipantInv, [Next]_vars
  PROVE  ParticipantInv'
<1> Grows
  BY StepGrows
<1> TypeOK'
  BY TypeStep
<1> USE DurationAssumption, SkewAssumption DEF ParticipantTimely, ParticipantInv
\* steps that leave time and spends alone
<1>1. ASSUME UNCHANGED <<now, spendVars>>, \A t \in Tx : t \in made' \ made => broadcast[t] = {} /\ spent[t] = "none"
      PROVE  RedeemedSoon' /\ ParticipantSafe'
  <2>1. \A a, b \in Tx : Answers(b, a)' /\ spent[b] = "redeem" => Answers(b, a)
    BY <1>1 DEF Answers, Grows, IsInitiators
  <2> QED
    BY <1>1, <2>1 DEF RedeemedSoon, ParticipantSafe, Grows, Answers, spendVars
<1>2. ASSUME NEW p \in Party, Command(p) PROVE ParticipantInv'
  <2>1. UNCHANGED <<now, spendVars, contracts, funded>>
    BY <1>2 DEF Command, Initiate, Participate, Redeem, Refund, ExtractSecret, userVars
  <2>2. \A t \in Tx \ made : broadcast[t] = {} /\ spent[t] = "none"
    BY DEF StructInv, ChainInv
  <2>3. Ordered'
    <3>1. CASE \E t, a \in Tx : Participate(t, a)
      <4>1. PICK t \in Tx, a \in Tx : Participate(t, a)
        BY <3>1
      <4>2. t # a /\ t \notin made /\ a \in made /\ made' = made \cup {t} /\ hash'[t] = a
            /\ lock'[t] = now + Skew["participant"] + ParticipateLock
        BY <4>1 DEF Participate, Build, LockTime, TypeOK, StructInv, ChainInv
      <4>3. lock'[t] + 2 * React + 2 * Conf < lock'[a]
        BY <4>1, <4>2 DEF Participate, TypeOK, Grows, Party
      <4> QED
        BY <4>2, <4>3 DEF Ordered, Grows, IsInitiators, StructInv, ChainInv
    <3>2. CASE ~\E t, a \in Tx : Participate(t, a)
      <4>1. \A t \in made' \ made : hash'[t] = t
        BY <1>2, <3>2 DEF Command, Initiate, Redeem, Refund, ExtractSecret, Build, contractVars, TypeOK
      <4> QED
        BY <4>1 DEF Ordered, Grows, IsInitiators, StructInv, ChainInv
    <3> QED
      BY <3>1, <3>2
  <2>4. SpentSoon'
    <3>1. made' \subseteq Tx
      BY DEF TypeOK
    <3>2. \A b \in made' : broadcast[b] # {} => b \in made
      BY <2>2, <3>1
    <3>3. contracts \subseteq made
      BY DEF StructInv, ChainInv
    <3> QED
      BY <2>1, <3>2, <3>3 DEF SpentSoon, Grows, IsInitiators, spendVars
  <2> QED
    BY <1>1, <2>1, <2>2, <2>3, <2>4 DEF TypeOK
<1>3. ASSUME NEW p \in Party, Elsewhere(p) PROVE ParticipantInv'
  <2>1. UNCHANGED <<now, contractVars, spendVars>>
    BY <1>3, ElsewhereStep
  <2>2. RedeemedSoon' /\ ParticipantSafe' /\ Ordered'
    BY <1>1, <2>1 DEF Ordered, contractVars, IsInitiators
  <2>3. ASSUME NEW b \in contracts' \cap funded', b \notin contracts \cap funded, ~IsInitiators(b)
        PROVE  now <= lock[b] + React
    <3>1. Busy(p) /\ job[p].tx = b /\ Locking(p)
      BY <1>3, <2>3, ElsewhereStep DEF StructInv, JobInv, Locking
    <3>2. job[p].op = "participate"
      BY <2>3, <3>1 DEF StructInv, JobInv, Locking, IsInitiators
    <3>3. now <= job[p].since + MaxHang /\ lock[b] = job[p].since + Skew["participant"] + ParticipateLock
      BY <3>1, <3>2 DEF TimeInv
    <3>4. job[p].since \in Nat
      BY <3>1 DEF TypeOK, Job, Busy
    <3> QED
      BY <2>3, <3>3, <3>4 DEF TypeOK, Party
  <2>4. SpentSoon'
    BY <2>1, <2>3 DEF SpentSoon, contractVars, spendVars, IsInitiators
  <2> QED
    BY <2>2, <2>4
<1>4. ASSUME NEW p \in Party, NEW lost \in BOOLEAN, SendRawTransaction(p, lost)
      PROVE  ParticipantInv'
  <2> DEFINE t == job[p].tx
             k == job[p].op
  <2>1. /\ t \in made /\ t \in contracts /\ t \in funded /\ k \in Spend
        /\ spent[t] = "none" /\ k \notin broadcast[t]
    BY <1>4 DEF SendRawTransaction, Acceptable, ScriptAccepts, At, StructInv, JobInv, Spending, Spend
  <2>2. /\ UNCHANGED <<now, contractVars, funded, userVars, spent>>
        /\ broadcast' = [broadcast EXCEPT ![t] = @ \cup {k}]
        /\ spendTime' = [spendTime EXCEPT ![t] = IF broadcast[t] = {} THEN now ELSE @]
    BY <1>4 DEF SendRawTransaction
  <2>3. Ordered'
    BY <2>2 DEF Ordered, contractVars, IsInitiators
  <2>4. SpentSoon'
    BY <2>1, <2>2 DEF SpentSoon, contractVars, userVars, IsInitiators, TypeOK
  <2>5. RedeemedSoon'
    <3> SUFFICES ASSUME NEW a \in Tx, NEW b \in Tx, Answers(b, a), spent[b] = "redeem", spent[a] = "none"
                 PROVE  /\ "redeem" \notin broadcast'[a] => now <= spendTime'[b] + React
                        /\ broadcast'[a] # {} => spendTime'[a] <= lock[b] + 2 * React + Conf
      BY <2>2 DEF RedeemedSoon, Answers, contractVars, IsInitiators
    <3>1. spendTime'[b] = spendTime[b]
      BY <2>1, <2>2 DEF TypeOK
    <3>2. spendTime[b] <= lock[b] + React + Conf
      BY DEF SpentSoon, StructInv, ChainInv, Answers
    <3>3. CASE broadcast[a] = {}
      <4>1. now <= spendTime[b] + React
        BY <3>3 DEF RedeemedSoon
      <4>2. spendTime'[a] \in {now, spendTime[a]} /\ (broadcast'[a] # {} => spendTime'[a] = now)
        BY <2>2, <3>3 DEF TypeOK
      <4> QED
        BY <3>1, <3>2, <4>1, <4>2 DEF TypeOK
    <3>4. CASE broadcast[a] # {}
      BY <2>2, <3>1, <3>4 DEF RedeemedSoon, TypeOK
    <3> QED
      BY <3>3, <3>4
  <2>6. ParticipantSafe'
    BY <2>2 DEF ParticipantSafe, Answers, contractVars, IsInitiators
  <2> QED
    BY <2>3, <2>4, <2>5, <2>6
<1>5. ASSUME NEW t \in Tx, NEW k \in Spend, Confirm(t, k) PROVE ParticipantInv'
  <2>1. /\ UNCHANGED <<now, contractVars, funded, userVars, broadcast>>
        /\ spent[t] = "none" /\ k \in broadcast[t]
        /\ spent' = [spent EXCEPT ![t] = k] /\ spendTime' = [spendTime EXCEPT ![t] = now]
    BY <1>5 DEF Confirm
  <2>2. Ordered'
    BY <2>1 DEF Ordered, contractVars, IsInitiators
  <2>3. SpentSoon'
    <3>1. ASSUME NEW b \in made, ~IsInitiators(b), broadcast[b] # {}
          PROVE  /\ spent'[b] = "none" => spendTime'[b] <= lock[b] + React
                 /\ spent'[b] # "none" => spendTime'[b] <= lock[b] + React + Conf
      <4>1. CASE b = t
        <5>1. spendTime[b] <= lock[b] + React /\ now <= spendTime[b] + Conf
          BY <2>1, <3>1, <4>1 DEF SpentSoon, TimeInv
        <5> QED
          BY <2>1, <4>1, <5>1 DEF TypeOK, Spend
      <4>2. CASE b # t
        BY <2>1, <3>1, <4>2 DEF SpentSoon, TypeOK
      <4> QED
        BY <4>1, <4>2
    <3> QED
      BY <2>1, <3>1 DEF SpentSoon, contractVars, userVars, IsInitiators
  <2>4. ASSUME NEW a \in Tx, NEW b \in Tx, Answers(b, a), spent'[b] = "redeem", spent'[a] = "none"
        PROVE  /\ "redeem" \notin broadcast[a] => now <= spendTime'[b] + React
               /\ broadcast[a] # {} => spendTime'[a] <= lock[b] + 2 * React + Conf
    <3>1. t # a /\ spent[a] = "none" /\ spendTime'[a] = spendTime[a]
      BY <2>1, <2>4 DEF TypeOK, Spend
    <3>2. CASE t = b
      <4>1. spendTime'[b] = now /\ now <= lock[b] + React + Conf
        BY <2>1, <2>4, <3>2 DEF SpentSoon, TimeInv, Answers, TypeOK
      <4> QED
        BY <3>1, <4>1 DEF TimeInv, TypeOK
    <3>3. CASE t # b
      BY <2>1, <2>4, <3>1, <3>3 DEF RedeemedSoon, TypeOK
    <3> QED
      BY <3>2, <3>3
  <2>5. RedeemedSoon'
    BY <2>1, <2>4 DEF RedeemedSoon, Answers, contractVars, IsInitiators
  <2>6. ASSUME NEW a \in Tx, NEW b \in Tx, Answers(b, a), spent'[b] = "redeem", spent'[a] = "refund"
        PROVE  FALSE
    <3>1. CASE t # a /\ t # b
      BY <2>1, <2>6, <3>1 DEF ParticipantSafe, TypeOK
    <3>2. CASE t = b
      <4>1. a # b /\ spent[a] = "refund" /\ broadcast[b] # {} /\ spent[b] = "none"
        BY <2>1, <2>6, <3>2 DEF Answers, IsInitiators, TypeOK
      <4>2. lock[a] <= now
        BY <4>1 DEF StructInv, ChainInv, TimeInv
      <4> QED
        BY <2>6, <4>1, <4>2, NotYet DEF TypeOK
    <3>3. CASE t = a
      <4>1. a # b /\ spent[b] = "redeem" /\ spent[a] = "none" /\ "refund" \in broadcast[a]
        BY <2>1, <2>6, <3>3 DEF Answers, IsInitiators, TypeOK
      <4>2. lock[a] <= now
        BY <4>1 DEF TimeInv
      <4> QED
        BY <2>6, <4>1, <4>2, NotYet DEF TypeOK
    <3> QED
      BY <3>1, <3>2, <3>3
  <2>7. ParticipantSafe'
    BY <2>1, <2>6 DEF ParticipantSafe, Answers, contractVars, IsInitiators
  <2> QED
    BY <2>2, <2>3, <2>5, <2>7
<1>6. CASE Tick
  <2>1. now' = now + 1 /\ Deadlines /\ UNCHANGED <<contractVars, funded, userVars, spendVars>>
    BY <1>6 DEF Tick
  <2>2. Ordered' /\ ParticipantSafe'
    BY <2>1 DEF Ordered, ParticipantSafe, Answers, contractVars, spendVars, IsInitiators
  <2>3. SpentSoon'
    BY <2>1 DEF Deadlines, ParticipantRefunds, SpentSoon, contractVars, userVars, spendVars, IsInitiators, TypeOK
  <2>4. RedeemedSoon'
    BY <2>1 DEF Deadlines, ParticipantRedeems, RedeemedSoon, Answers, contractVars, spendVars, IsInitiators, TypeOK
  <2> QED
    BY <2>2, <2>3, <2>4
<1>7. CASE UNCHANGED vars
  BY <1>7 DEF vars, Ordered, SpentSoon, RedeemedSoon, ParticipantSafe, Answers, IsInitiators
<1> QED
  BY <1>2, <1>3, <1>4, <1>5, <1>6, <1>7 DEF Next, Elsewhere

\* With the margin the participant is safe, whatever the initiator does:
\* its contract redeemed and the initiator's refunded is out of reach
THEOREM ParticipantCorrect ==
  ASSUME ParticipantTimely
  PROVE  Spec => []ParticipantSafe
<1>1. Init => TimeInv /\ ParticipantInv
  BY DEF Init, TimeInv, ParticipantInv, Ordered, SpentSoon, RedeemedSoon, ParticipantSafe, Answers, Busy
<1>2. TypeOK /\ StructInv /\ TimeInv /\ ParticipantInv /\ [Next]_vars => (TimeInv /\ ParticipantInv)'
  BY TimeStep, ParticipantStep
<1>3. ParticipantInv => ParticipantSafe
  BY DEF ParticipantInv
<1> QED
  BY <1>1, <1>2, <1>3, TypeCorrect, StructCorrect, PTL DEF Spec

-----------------------------------------------------------------------------
(* The initiator *)

\* A redemption of t was accepted so early that it is, or was, confirmed
\* before a refund could be accepted
RedeemedEarly(t) ==
  "redeem" \in broadcast[t] =>
    /\ "refund" \notin broadcast[t]
    /\ spent[t] = "none" => spendTime[t] + Conf < lock[t]

InitiatorInv ==
  /\ Busy("initiator") /\ job["initiator"].op = "redeem" =>
       job["initiator"].since + RedeemMargin <= lock[job["initiator"].tx]
  /\ \A b \in made : ~IsInitiators(b) => RedeemedEarly(b)

\* An early redemption excludes a refund
LEMMA EarlyStep ==
  ASSUME TypeOK, TimeInv, NEW t \in Tx, NEW p \in Party, NEW lost \in BOOLEAN,
         SendRawTransaction(p, lost), RedeemedEarly(t),
         job[p].tx = t /\ job[p].op = "redeem" => now + Conf < lock[t]
  PROVE  RedeemedEarly(t)'
<1> USE DurationAssumption DEF TypeOK, RedeemedEarly
<1>1. /\ UNCHANGED <<now, lock, spent>>
      /\ spent[job[p].tx] = "none" /\ job[p].op \in Spend /\ job[p].op \notin broadcast[job[p].tx]
      /\ job[p].op = "refund" => lock[job[p].tx] <= now
      /\ broadcast' = [broadcast EXCEPT ![job[p].tx] = @ \cup {job[p].op}]
      /\ spendTime' = [spendTime EXCEPT ![job[p].tx] = IF broadcast[job[p].tx] = {} THEN now ELSE @]
  BY DEF SendRawTransaction, Acceptable, ScriptAccepts, contractVars, Spend
<1>2. CASE job[p].tx # t
  BY <1>1, <1>2
<1>3. CASE job[p].tx = t /\ job[p].op = "redeem"
  <2>1. "refund" \notin broadcast[t]
    BY <1>3 DEF TimeInv
  <2>2. broadcast[t] = {}
    BY <1>1, <1>3, <2>1 DEF Spend
  <2> QED
    BY <1>1, <1>3, <2>2
<1>4. CASE job[p].tx = t /\ job[p].op = "refund"
  <2>1. "redeem" \notin broadcast[t]
    BY <1>1, <1>4 DEF TimeInv
  <2> QED
    BY <1>1, <1>4, <2>1
<1> QED
  BY <1>1, <1>2, <1>3, <1>4 DEF Spend

\* Other steps do not add a spend
LEMMA EarlyKept ==
  ASSUME TypeOK, Grows, NEW t \in made, RedeemedEarly(t), UNCHANGED broadcast,
         spent[t] # "none" => spent'[t] # "none",
         spent'[t] = "none" => spendTime'[t] = spendTime[t]
  PROVE  RedeemedEarly(t)'
BY DEF RedeemedEarly, Grows

\* What a step that is not the acceptance of a spend does to all spends
LEMMA NoSend ==
  ASSUME TypeOK, [Next]_vars, ~\E p \in Party, lost \in BOOLEAN : SendRawTransaction(p, lost)
  PROVE  /\ UNCHANGED broadcast
         /\ \A t \in Tx : /\ spent[t] # "none" => spent'[t] # "none"
                          /\ spent'[t] = "none" => spendTime'[t] = spendTime[t]
<1>1. ASSUME NEW p \in Party, Command(p) PROVE UNCHANGED spendVars
  BY <1>1 DEF Command, Initiate, Participate, Redeem, Refund, ExtractSecret
<1>2. ASSUME NEW p \in Party, Elsewhere(p) PROVE UNCHANGED spendVars
  BY <1>2, ElsewhereStep
<1>3. CASE Tick \/ UNCHANGED vars
  BY <1>3 DEF Tick, vars, spendVars
<1>4. ASSUME NEW t \in Tx, NEW kind \in Spend, Confirm(t, kind)
      PROVE  /\ UNCHANGED broadcast
             /\ \A u \in Tx : /\ spent[u] # "none" => spent'[u] # "none"
                              /\ spent'[u] = "none" => spendTime'[u] = spendTime[u]
  BY <1>4 DEF Confirm, TypeOK, Spend
<1> QED
  BY <1>1, <1>2, <1>3, <1>4 DEF Next, Elsewhere, spendVars

LEMMA InitiatorStep ==
  ASSUME InitiatorTimely, TypeOK, StructInv, TimeInv, InitiatorInv, [Next]_vars
  PROVE  InitiatorInv'
<1> Grows
  BY StepGrows
<1> USE DurationAssumption DEF InitiatorInv
<1> DEFINE JobPart == Busy("initiator") /\ job["initiator"].op = "redeem" =>
                        job["initiator"].since + RedeemMargin <= lock[job["initiator"].tx]
<1>1. JobPart'
  <2>1. CASE job'["initiator"] = job["initiator"]
    BY <2>1 DEF Busy, Grows, StructInv, JobInv, Party
  <2>2. CASE Command("initiator")
    BY <2>2 DEF Command, Initiate, Participate, Redeem, Refund, ExtractSecret, Started, contractVars,
       TypeOK, Party
  <2>3. CASE Elsewhere("initiator")
    BY <2>3, ElsewhereStep DEF SameJob, Busy, contractVars, Party
  <2>4. CASE \E lost \in BOOLEAN : SendRawTransaction("initiator", lost)
    BY <2>4, ReturnStep DEF SendRawTransaction, At, SameJob, Busy, contractVars, Party
  <2>5. ASSUME NEW p \in Party \ {"initiator"}, Command(p) \/ DaemonStep(p) \/ Fault(p)
        PROVE  job'["initiator"] = job["initiator"]
    <3>1. CASE Command(p)
      BY <2>5, <3>1 DEF Command, Initiate, Participate, Redeem, Refund, ExtractSecret, TypeOK, Party
    <3>2. CASE Elsewhere(p)
      BY <2>5, <3>2, ElsewhereStep DEF Party
    <3>3. CASE \E lost \in BOOLEAN : SendRawTransaction(p, lost)
      BY <2>5, <3>3 DEF SendRawTransaction, Return, TypeOK, Party
    <3> QED
      BY <2>5, <3>1, <3>2, <3>3 DEF Elsewhere
  <2>6. CASE Tick \/ (\E t \in Tx, kind \in Spend : Confirm(t, kind)) \/ UNCHANGED vars
    BY <2>1, <2>6 DEF Tick, Confirm, vars
  <2> QED
    BY <2>1, <2>2, <2>3, <2>4, <2>5, <2>6 DEF Next, Elsewhere, Party
<1>2. ASSUME NEW b \in made', ~IsInitiators(b)' PROVE RedeemedEarly(b)'
  <2>1. CASE b \notin made
    <3>1. b \in Tx /\ broadcast[b] = {}
      BY <2>1, TypeStep DEF TypeOK, StructInv, ChainInv
    <3>2. broadcast'[b] = {}
      <4>1. ASSUME NEW p \in Party, NEW lost \in BOOLEAN, SendRawTransaction(p, lost)
            PROVE  UNCHANGED made
        BY <4>1 DEF SendRawTransaction, contractVars
      <4> QED
        BY <2>1, <3>1, <4>1, NoSend
    <3> QED
      BY <3>2 DEF RedeemedEarly
  <2>2. CASE b \in made
    <3>1. ~IsInitiators(b) /\ b \in Tx
      BY <1>2, <2>2 DEF Grows, IsInitiators, TypeOK
    <3>2. CASE ~\E p \in Party, lost \in BOOLEAN : SendRawTransaction(p, lost)
      <4>1. RedeemedEarly(b)
        BY <2>2, <3>1
      <4>2. /\ UNCHANGED broadcast
            /\ spent[b] # "none" => spent'[b] # "none"
            /\ spent'[b] = "none" => spendTime'[b] = spendTime[b]
        BY <3>1, <3>2, NoSend
      <4> QED
        BY <2>2, <4>1, <4>2, EarlyKept
    <3>3. ASSUME NEW p \in Party, NEW lost \in BOOLEAN, SendRawTransaction(p, lost)
          PROVE  RedeemedEarly(b)'
      <4>1. ASSUME job[p].tx = b, job[p].op = "redeem" PROVE now + Conf < lock[b]
        <5>1. p = "initiator" /\ Busy(p)
          BY <3>1, <3>3, <4>1 DEF SendRawTransaction, At, StructInv, JobInv, OwnsKey, Recipient
        <5>2. now <= job[p].since + MaxHang /\ job[p].since + RedeemMargin <= lock[b]
          BY <4>1, <5>1 DEF TimeInv
        <5>3. job[p].since \in Nat
          BY <5>1 DEF TypeOK, Job, Busy
        <5> QED
          BY <3>1, <5>2, <5>3 DEF InitiatorTimely, TypeOK
      <4> QED
        BY <2>2, <3>1, <3>3, <4>1, EarlyStep
    <3> QED
      BY <3>2, <3>3
  <2> QED
    BY <2>1, <2>2
<1> QED
  BY <1>1, <1>2

\* With the margin the initiator is safe, whatever the participant does: its
\* contract is redeemed only if its own redemption of a counterpart stands
THEOREM InitiatorCorrect ==
  ASSUME InitiatorTimely
  PROVE  Spec => []InitiatorSafe
<1>1. Init => TimeInv /\ InitiatorInv /\ SecretInv
  BY DEF Init, TimeInv, InitiatorInv, SecretInv, SecretJob, Busy, Party
<1>2. TypeOK /\ StructInv /\ TimeInv /\ InitiatorInv /\ SecretInv /\ [Next]_vars =>
        (TimeInv /\ InitiatorInv /\ SecretInv)'
  BY TimeStep, InitiatorStep, SecretStep
<1>3. TypeOK /\ StructInv /\ InitiatorInv /\ SecretInv => InitiatorSafe
  BY DEF InitiatorSafe, TypeOK, StructInv, ChainInv, InitiatorInv, RedeemedEarly, SecretInv, Revealed, Answers
<1> QED
  BY <1>1, <1>2, <1>3, TypeCorrect, StructCorrect, PTL DEF Spec

-----------------------------------------------------------------------------
(* No race between a redemption and a refund *)

\* The participant's redemption too is early
RaceInv == \A a \in made : IsInitiators(a) => RedeemedEarly(a)

LEMMA RaceStep ==
  ASSUME ParticipantTimely, TypeOK, StructInv, TimeInv, SecretInv, ParticipantInv, InitiatorInv,
         RaceInv, [Next]_vars
  PROVE  RaceInv'
<1> Grows
  BY StepGrows
<1> SUFFICES ASSUME NEW a \in made', IsInitiators(a)' PROVE RedeemedEarly(a)'
  BY DEF RaceInv
<1>1. CASE ~\E p \in Party, lost \in BOOLEAN : SendRawTransaction(p, lost)
  <2>1. a \in Tx /\ UNCHANGED broadcast
    BY <1>1, TypeStep, NoSend DEF TypeOK
  <2>2. CASE a \notin made
    BY <2>1, <2>2 DEF RedeemedEarly, StructInv, ChainInv
  <2>3. CASE a \in made
    <3>1. RedeemedEarly(a)
      BY <2>3 DEF RaceInv, Grows, IsInitiators
    <3>2. /\ spent[a] # "none" => spent'[a] # "none"
          /\ spent'[a] = "none" => spendTime'[a] = spendTime[a]
      BY <1>1, <2>1, NoSend
    <3> QED
      BY <2>1, <2>3, <3>1, <3>2, EarlyKept
  <2> QED
    BY <2>2, <2>3
<1>2. ASSUME NEW p \in Party, NEW lost \in BOOLEAN, SendRawTransaction(p, lost)
      PROVE  RedeemedEarly(a)'
  <2>1. a \in made /\ a \in Tx /\ IsInitiators(a) /\ RedeemedEarly(a)
    BY <1>2 DEF SendRawTransaction, contractVars, IsInitiators, TypeOK, RaceInv
  <2>2. ASSUME job[p].tx = a, job[p].op = "redeem" PROVE now + Conf < lock[a]
    <3>1. /\ Busy(p) /\ p = "participant" /\ job[p].secret = a
          /\ spent[a] = "none" /\ "redeem" \notin broadcast[a]
      BY <1>2, <2>1, <2>2 DEF SendRawTransaction, Acceptable, ScriptAccepts, At, StructInv, JobInv, OwnsKey,
         Recipient, IsInitiators
    <3>2. PICK b \in Tx : Answers(b, a) /\ "redeem" \in broadcast[b]
      BY <2>2, <3>1 DEF SecretInv, SecretJob, Revealed
    <3>3. lock[b] + 2 * React + 2 * Conf < lock[a] /\ lock[b] \in Nat /\ lock[a] \in Nat
      BY <2>1, <3>2 DEF ParticipantInv, Ordered, Answers, TypeOK
    <3>4. CASE spent[b] = "none"
      <4>1. now <= lock[b] + React + Conf
        BY <3>2, <3>4, DurationAssumption DEF ParticipantInv, SpentSoon, TimeInv, Answers, TypeOK
      <4> QED
        BY <3>3, <4>1, DurationAssumption DEF TypeOK
    <3>5. CASE spent[b] = "redeem"
      <4>1. now <= spendTime[b] + React /\ spendTime[b] <= lock[b] + React + Conf
        BY <2>1, <3>1, <3>2, <3>5 DEF ParticipantInv, RedeemedSoon, SpentSoon, StructInv, ChainInv, Answers
      <4> QED
        BY <3>3, <4>1, DurationAssumption DEF TypeOK
    <3>6. spent[b] # "refund"
      BY <3>2 DEF InitiatorInv, RedeemedEarly, StructInv, ChainInv, Answers
    <3> QED
      BY <3>4, <3>5, <3>6 DEF TypeOK, Spend
  <2> QED
    BY <1>2, <2>1, <2>2, EarlyStep
<1> QED
  BY <1>1, <1>2

\* When both users keep their margins no contract ever has both a redemption
\* and a refund in flight
THEOREM RaceFree ==
  ASSUME ParticipantTimely, InitiatorTimely
  PROVE  Spec => []NoRace
<1> DEFINE I == TimeInv /\ SecretInv /\ ParticipantInv /\ InitiatorInv /\ RaceInv
<1>1. Init => I
  BY DEF Init, TimeInv, SecretInv, SecretJob, ParticipantInv, Ordered, SpentSoon, RedeemedSoon,
     ParticipantSafe, InitiatorInv, RaceInv, Answers, Busy, Party
<1>2. TypeOK /\ StructInv /\ I /\ [Next]_vars => I'
  BY TimeStep, SecretStep, ParticipantStep, InitiatorStep, RaceStep
<1>3. TypeOK /\ StructInv /\ I => NoRace
  <2> SUFFICES ASSUME TypeOK, StructInv, I, NEW t \in Tx, broadcast[t] = Spend PROVE FALSE
    BY DEF NoRace
  <2>1. t \in made /\ RedeemedEarly(t)
    BY DEF StructInv, ChainInv, InitiatorInv, RaceInv, Spend
  <2> QED
    BY <2>1 DEF RedeemedEarly, Spend
<1> QED
  BY <1>1, <1>2, <1>3, TypeCorrect, StructCorrect, PTL DEF Spec

-----------------------------------------------------------------------------
(* The escrow *)

\* Only an offer that is paid is answered
Countered == \A b \in made : ~IsInitiators(b) => hash[b] \in funded

LEMMA CounteredStep ==
  ASSUME TypeOK, StructInv, Countered, [Next]_vars
  PROVE  Countered' /\ funded \subseteq funded'
<1> USE DEF Countered, IsInitiators, contractVars, spendVars
<1>1. ASSUME NEW p \in Party, Command(p) PROVE Countered' /\ funded \subseteq funded'
  BY <1>1 DEF Command, Initiate, Participate, Build, Redeem, Refund, ExtractSecret, TypeOK
<1>2. ASSUME NEW p \in Party, DaemonStep(p) \/ Fault(p) PROVE Countered' /\ funded \subseteq funded'
  BY <1>2 DEF DaemonStep, Fault, SendToAddress, GetRawTransaction, DecodeRawTransaction, DumpPrivKey,
     SendRawTransaction, RefuseRawTransaction, CallRpcFails, Answer, AnswerLost, Crash, NoAnswer
<1>3. CASE Tick \/ (\E t \in Tx, kind \in Spend : Confirm(t, kind)) \/ UNCHANGED vars
  BY <1>3 DEF Tick, Confirm, vars
<1> QED
  BY <1>1, <1>2, <1>3 DEF Next

\* Everything that is known of a state when both users keep their margins
SwapInv ==
  /\ TypeOK /\ StructInv /\ TimeInv /\ SecretInv /\ ParticipantInv /\ InitiatorInv /\ RaceInv
  /\ Countered

LEMMA SwapAlways ==
  ASSUME ParticipantTimely, InitiatorTimely
  PROVE  Spec => []SwapInv
<1> DEFINE I == TimeInv /\ SecretInv /\ ParticipantInv /\ InitiatorInv /\ RaceInv /\ Countered
<1>1. Init => I
  BY DEF Init, TimeInv, SecretInv, SecretJob, ParticipantInv, Ordered, SpentSoon, RedeemedSoon,
     ParticipantSafe, InitiatorInv, RaceInv, Countered, Answers, Busy, Party
<1>2. TypeOK /\ StructInv /\ I /\ [Next]_vars => I'
  BY TimeStep, SecretStep, ParticipantStep, InitiatorStep, RaceStep, CounteredStep
<1>3. TypeOK /\ StructInv /\ I => SwapInv
  BY DEF SwapInv
<1> QED
  BY <1>1, <1>2, <1>3, TypeCorrect, StructCorrect, PTL DEF Spec

\* A spend that a node accepts is of a contract without one, and is one the
\* escrow allows
LEMMA SendAllowed ==
  ASSUME ParticipantTimely, InitiatorTimely, SwapInv,
         NEW p \in Party, NEW lost \in BOOLEAN, SendRawTransaction(p, lost)
  PROVE  /\ broadcast[job[p].tx] = {} /\ job[p].tx \in funded
         /\ job[p].op = "redeem" =>
              IF IsInitiators(job[p].tx) THEN Revealed(job[p].tx)
              ELSE "refund" \notin broadcast[hash[job[p].tx]]
         /\ job[p].op = "refund" => ~Revealed(job[p].tx)
<1> DEFINE t == job[p].tx
<1> USE DEF SwapInv
<1>1. /\ Busy(p) /\ job[p] \in Job /\ t \in Tx /\ t \in made /\ t \in funded /\ Spending(p) /\ OwnsKey(p)
      /\ job[p].op \in Spend /\ spent[t] = "none" /\ job[p].op \notin broadcast[t]
      /\ ScriptAccepts(t, job[p].op, job[p].secret)
      /\ broadcast' = [broadcast EXCEPT ![t] = @ \cup {job[p].op}]
      /\ UNCHANGED <<contractVars, spent>>
  BY DEF SendRawTransaction, Acceptable, At, StructInv, JobInv, Spending, Spend, TypeOK, Busy
<1>2. InitiatorInv' /\ RaceInv'
  BY InitiatorStep, RaceStep DEF Next, DaemonStep, Fault
<1>3. broadcast[t] = {}
  <2>1. "redeem" \in broadcast'[t] => "refund" \notin broadcast'[t]
    BY <1>1, <1>2 DEF InitiatorInv, RaceInv, RedeemedEarly, contractVars
  <2> QED
    BY <1>1, <2>1 DEF TypeOK, Spend
<1>4. ASSUME job[p].op = "redeem", IsInitiators(t) PROVE Revealed(t)
  <2>1. p = "participant" /\ job[p].secret = t
    BY <1>1, <1>4 DEF OwnsKey, Recipient, IsInitiators, ScriptAccepts
  <2> QED
    BY <1>1, <1>4, <2>1 DEF SecretInv, SecretJob
<1>5. ASSUME job[p].op = "redeem", ~IsInitiators(t) PROVE "refund" \notin broadcast[hash[t]]
  <2>1. hash[t] \in Tx
    BY <1>1 DEF TypeOK
  <2>2. now < lock[t]
    <3>1. p = "initiator" /\ job[p].since + RedeemMargin <= lock[t]
      BY <1>1, <1>5 DEF OwnsKey, Recipient, InitiatorInv
    <3>2. now <= job[p].since + MaxHang /\ job[p].since \in Nat
      BY <1>1 DEF TimeInv, Job
    <3> QED
      BY <1>1, <3>1, <3>2, DurationAssumption DEF InitiatorTimely, TypeOK
  <2>3. lock[t] < lock[hash[t]]
    BY <1>1, <1>5, <2>1, DurationAssumption DEF ParticipantInv, Ordered, TypeOK
  <2> QED
    BY <1>1, <2>1, <2>2, <2>3 DEF TimeInv, TypeOK
<1>6. ASSUME job[p].op = "refund", Revealed(t) PROVE FALSE
  <2>1. PICK b \in Tx : Answers(b, t) /\ "redeem" \in broadcast[b]
    BY <1>6 DEF Revealed
  <2>2. lock[t] <= now
    BY <1>1, <1>6 DEF ScriptAccepts
  <2>3. spent[b] # "refund"
    BY <2>1 DEF InitiatorInv, RedeemedEarly, StructInv, ChainInv, Answers
  <2>4. now < lock[t]
    BY <1>1, <2>1, <2>3, NotYet DEF TypeOK, Spend
  <2> QED
    BY <1>1, <2>2, <2>4 DEF TypeOK
<1> QED
  BY <1>1, <1>3, <1>4, <1>5, <1>6

\* What the escrow sees of a state: asks is Asks
Asks == [t \in Tx |-> IF t \in funded THEN hash[t] ELSE t]
Claimed == {t \in Tx : "redeem" \in broadcast[t]}
Returned == {t \in Tx : "refund" \in broadcast[t]}

\* An accepted spend claims a contract or gives it back
LEMMA SendClaims ==
  ASSUME ParticipantTimely, InitiatorTimely, SwapInv,
         NEW p \in Party, NEW lost \in BOOLEAN, SendRawTransaction(p, lost)
  PROVE  \E t \in Tx : Swap!Claim(t) \/ Swap!Return(t)
<1>0. job[p].tx \in Tx
  BY DEF SendRawTransaction, At, Busy, SwapInv, TypeOK, Job
<1> PICK t \in Tx : t = job[p].tx
  BY <1>0
<1>1. /\ t \in Tx /\ t \in funded /\ broadcast[t] = {} /\ job[p].op \in Spend
      /\ broadcast' = [broadcast EXCEPT ![t] = @ \cup {job[p].op}]
      /\ UNCHANGED <<made, hash, funded>>
  BY SendAllowed DEF SendRawTransaction, Acceptable, ScriptAccepts, At, Busy, SwapInv, TypeOK, Job,
     contractVars, Spend
<1>2. Asks' = Asks /\ funded' = funded
  BY <1>1 DEF Asks
<1>3. Asks[t] = hash[t] /\ t \in funded \ (Claimed \cup Returned)
  BY <1>1 DEF Asks, Claimed, Returned
<1>4. ASSUME NEW a \in Tx, a \in funded
      PROVE  {b \in funded : Asks[b] = a /\ b # a} \cap Claimed # {} <=> Revealed(a)
  <2>1. ASSUME NEW b \in Tx
        PROVE  b \in funded /\ Asks[b] = a /\ b # a /\ b \in Claimed <=>
                 Answers(b, a) /\ "redeem" \in broadcast[b]
    BY <1>4, <2>1 DEF Asks, Claimed, Answers, IsInitiators, SwapInv, StructInv, ChainInv, TypeOK
  <2>2. funded \subseteq Tx
    BY DEF SwapInv, TypeOK
  <2> QED
    BY <2>1, <2>2 DEF Revealed
<1>5. CASE job[p].op = "redeem"
  <2>1. Claimed' = Claimed \cup {t} /\ Returned' = Returned
    BY <1>1, <1>5 DEF Claimed, Returned, SwapInv, TypeOK
  <2>2. IF Asks[t] = t THEN Revealed(t) ELSE Asks[t] \notin Returned
    BY <1>1, <1>3, <1>5, SendAllowed DEF Returned, IsInitiators
  <2> QED
    BY <1>1, <1>2, <1>3, <1>4, <2>1, <2>2
       DEF Swap!Claim, Swap!Open, Swap!IsOffer, Swap!Counters, Asks, Claimed, Returned
<1>6. CASE job[p].op = "refund"
  <2>1. Returned' = Returned \cup {t} /\ Claimed' = Claimed
    BY <1>1, <1>6 DEF Claimed, Returned, SwapInv, TypeOK
  <2>2. ~Revealed(t)
    BY <1>6, SendAllowed
  <2> QED
    BY <1>1, <1>2, <1>3, <1>4, <2>1, <2>2
       DEF Swap!Return, Swap!Open, Swap!Counters, Asks, Claimed, Returned
<1> QED
  BY <1>1, <1>5, <1>6 DEF Spend

\* What neither pays nor spends a contract is hidden from the escrow
LEMMA ElsewhereSame ==
  ASSUME UNCHANGED <<funded, broadcast>>, \A t \in funded : hash'[t] = hash[t]
  PROVE  UNCHANGED Swap!vars
<1>1. Asks' = Asks
  BY DEF Asks
<1> QED
  BY <1>1 DEF Asks, Swap!vars

\* The answer of sendtoaddress locks coins
LEMMA PaidLocks ==
  ASSUME SwapInv, NEW p \in Party, NEW lost \in BOOLEAN, SendToAddress(p, lost)
  PROVE  (\E t, a \in Tx : Swap!Lock(t, a)) \/ UNCHANGED Swap!vars
<1>0. job[p].tx \in Tx
  BY DEF SendToAddress, At, Busy, SwapInv, TypeOK, Job
<1> PICK t \in Tx : t = job[p].tx
  BY <1>0
<1>1. /\ t \in made /\ t \in Tx /\ hash \in [Tx -> Tx] /\ hash[t] \in Tx
      /\ hash[hash[t]] = hash[t] /\ (hash[t] # t => hash[t] \in funded)
      /\ funded' = funded \cup {t} /\ UNCHANGED <<hash, broadcast>>
  BY DEF SendToAddress, At, SwapInv, StructInv, ChainInv, JobInv, Countered, IsInitiators, TypeOK,
     contractVars, spendVars
<1>2. CASE t \in funded
  <2>1. funded' = funded
    BY <1>1, <1>2
  <2> QED
    BY <1>1, <2>1, ElsewhereSame
<1>3. CASE t \notin funded
  <2> PICK a \in Tx : a = hash[t]
    BY <1>1
  <2>1. Asks' = [Asks EXCEPT ![t] = a]
    BY <1>1, <1>3 DEF Asks
  <2>2. a = t \/ (a \in funded /\ Asks[a] = a)
    BY <1>1 DEF Asks
  <2>3. Swap!Lock(t, a)
    BY <1>1, <1>3, <2>1, <2>2 DEF Swap!Lock, Swap!IsOffer, Asks
  <2> QED
    BY <1>1, <2>3
<1> QED
  BY <1>2, <1>3

LEMMA EscrowStep ==
  ASSUME ParticipantTimely, InitiatorTimely, SwapInv, [Next]_vars
  PROVE  [Swap!Next]_(Swap!vars)
<1>1. \A t \in funded : hash'[t] = hash[t]
  BY StepGrows DEF Grows, SwapInv, StructInv, ChainInv
<1>2. ASSUME NEW p \in Party, Command(p) PROVE UNCHANGED Swap!vars
  BY <1>1, <1>2, ElsewhereSame
     DEF Command, Initiate, Participate, Redeem, Refund, ExtractSecret, spendVars
<1>3. ASSUME NEW p \in Party, NEW lost \in BOOLEAN, SendToAddress(p, lost)
      PROVE  [Swap!Next]_(Swap!vars)
  BY <1>3, PaidLocks DEF Swap!Next
<1>4. ASSUME NEW p \in Party, NEW lost \in BOOLEAN, SendRawTransaction(p, lost)
      PROVE  [Swap!Next]_(Swap!vars)
  BY <1>4, SendClaims DEF Swap!Next
<1>5. ASSUME NEW p \in Party,
             \/ GetRawTransaction(p) \/ DecodeRawTransaction(p) \/ DumpPrivKey(p)
             \/ RefuseRawTransaction(p) \/ CallRpcFails(p) \/ Answer(p) \/ Crash(p) \/ AnswerLost(p)
      PROVE  UNCHANGED Swap!vars
  BY <1>1, <1>5, ElsewhereSame
     DEF GetRawTransaction, DecodeRawTransaction, DumpPrivKey, RefuseRawTransaction, CallRpcFails,
         Answer, Crash, AnswerLost, NoAnswer, spendVars
<1>6. CASE Tick \/ (\E t \in Tx, kind \in Spend : Confirm(t, kind)) \/ UNCHANGED vars
  BY <1>1, <1>6, ElsewhereSame DEF Tick, Confirm, vars, spendVars
<1> QED
  BY <1>2, <1>3, <1>4, <1>5, <1>6 DEF Next, DaemonStep, Fault

\* When both users keep their margins, daemons that look at no clock and at
\* one contract at a time carry out an escrow: every spend a node accepts is
\* final, and none is one the other user could lose by.
THEOREM EscrowImplemented ==
  ASSUME ParticipantTimely, InitiatorTimely
  PROVE  Spec => ImplementsEscrow
<1>1. Init => Swap!Init
  BY DEF Init, Swap!Init
<1>2. SwapInv /\ [Next]_vars => [Swap!Next]_(Swap!vars)
  BY EscrowStep
<1> QED
  BY <1>1, <1>2, SwapAlways, PTL DEF Spec, Swap!Spec, ImplementsEscrow

\* That an escrow is atomic, of what it sees
AnswersIn(asks, locked, a) == {b \in locked : asks[b] = a /\ b # a}
Settles(asks, locked, claimed, returned) ==
  /\ claimed \cup returned \subseteq locked
  /\ claimed \cap returned = {}
  /\ \A a \in locked : asks[a] = a =>
       /\ a \in claimed => AnswersIn(asks, locked, a) \cap claimed # {}
       /\ a \in returned => AnswersIn(asks, locked, a) \cap claimed = {}

EscrowInv == Settles(Asks, funded, Claimed, Returned)

LEMMA AtomicStep ==
  ASSUME EscrowInv, funded \subseteq Tx, [Swap!Next]_(Swap!vars)
  PROVE  EscrowInv'
<1> USE DEF EscrowInv, Settles, AnswersIn
<1>1. ASSUME NEW t \in Tx, NEW a \in Tx, Swap!Lock(t, a) PROVE EscrowInv'
  <2>1. /\ t \notin funded /\ funded' = funded \cup {t} /\ Asks' = [Asks EXCEPT ![t] = a]
        /\ a = t \/ (a \in funded /\ Asks[a] = a)
        /\ Claimed' = Claimed /\ Returned' = Returned
    BY <1>1 DEF Swap!Lock, Swap!IsOffer, Asks, Claimed, Returned
  <2>2. DOMAIN Asks = Tx
    BY DEF Asks
  <2> QED
    BY <2>1, <2>2
<1>2. ASSUME NEW t \in Tx, Swap!Claim(t) PROVE EscrowInv'
  <2>1. /\ t \in funded \ (Claimed \cup Returned)
        /\ IF Asks[t] = t THEN AnswersIn(Asks, funded, t) \cap Claimed # {} ELSE Asks[t] \notin Returned
        /\ Claimed' = Claimed \cup {t}
        /\ Asks' = Asks /\ funded' = funded /\ Returned' = Returned
    BY <1>2 DEF Swap!Claim, Swap!Open, Swap!IsOffer, Swap!Counters, Asks, Claimed, Returned
  <2> QED
    BY <2>1
<1>3. ASSUME NEW t \in Tx, Swap!Return(t) PROVE EscrowInv'
  <2>1. /\ t \in funded \ (Claimed \cup Returned)
        /\ AnswersIn(Asks, funded, t) \cap Claimed = {}
        /\ Returned' = Returned \cup {t}
        /\ Asks' = Asks /\ funded' = funded /\ Claimed' = Claimed
    BY <1>3 DEF Swap!Return, Swap!Open, Swap!Counters, Asks, Claimed, Returned
  <2> QED
    BY <2>1
<1>4. CASE UNCHANGED Swap!vars
  <2>1. Asks' = Asks /\ funded' = funded /\ Claimed' = Claimed /\ Returned' = Returned
    BY <1>4 DEF Swap!vars, Asks, Claimed, Returned
  <2> QED
    BY <2>1
<1> QED
  BY <1>1, <1>2, <1>3, <1>4 DEF Swap!Next

\* With both margins each swap is atomic in what the nodes have accepted: no
\* contract is both claimed and given back, an offer is claimed only after a
\* counter to it, and is not given back once one has been claimed.
THEOREM SwapAtomic ==
  ASSUME ParticipantTimely, InitiatorTimely
  PROVE  Spec => []Swap!Atomic
<1>1. Swap!Init => EscrowInv
  BY DEF Swap!Init, EscrowInv, Settles, AnswersIn, Asks, Claimed, Returned
<1>2. SwapInv => funded \subseteq Tx
  BY DEF SwapInv, TypeOK
<1>3. EscrowInv => Swap!Atomic
  BY DEF EscrowInv, Settles, AnswersIn, Swap!Atomic, Swap!IsOffer, Swap!Counters, Asks, Claimed, Returned
<1> QED
  BY <1>1, <1>2, <1>3, AtomicStep, SwapAlways, EscrowImplemented, PTL DEF Swap!Spec, ImplementsEscrow

-----------------------------------------------------------------------------
(* Contracts nobody knows *)

\* A contract that is told, whose answer is lost, or whose command goes on, stays
\* one of these
LEMMA ToldStep ==
  ASSUME TypeOK, StructInv, FundedContractTold, [Next]_vars
  PROVE  FundedContractTold'
<1>1. ASSUME NEW p \in Party, Command(p)
      PROVE  FundedContractTold'
  <2>1. ~Busy(p) /\ UNCHANGED <<funded, contracts, unanswered>>
    BY <1>1 DEF Command, Initiate, Participate, Build, Redeem, Refund, ExtractSecret,
       userVars, faultVars, contractVars
  <2>2. \A q \in Party \ {p} : job'[q] = job[q]
    BY <1>1 DEF Command, Initiate, Participate, Redeem, Refund, ExtractSecret, TypeOK, Party
  <2> QED
    BY <2>1, <2>2 DEF FundedContractTold, Locks, Busy
<1>2. ASSUME NEW p \in Party, DaemonStep(p) \/ Fault(p)
      PROVE  FundedContractTold'
  <2>1. CASE \E lost \in BOOLEAN : SendToAddress(p, lost)
    <3>1. PICK lost \in BOOLEAN : SendToAddress(p, lost)
      BY <2>1
    <3>2. Busy(p) /\ SameJob(p, "reply") /\ Locking(p)
      BY <3>1, ReturnStep DEF SendToAddress, At, StructInv, JobInv
    <3>3. funded' = funded \cup {job[p].tx} /\ UNCHANGED <<contracts, unanswered>>
      BY <3>1 DEF SendToAddress, userVars
    <3> QED
      BY <3>2, <3>3 DEF FundedContractTold, Locks, SameJob, Busy, Locking
  <2>2. CASE Answer(p)
    <3>1. \A q \in Party \ {p} : job'[q] = job[q]
      BY <2>2 DEF Answer, TypeOK
    <3>2. UNCHANGED <<funded, unanswered>> /\ contracts \subseteq contracts'
          /\ (Locking(p) => job[p].tx \in contracts')
      BY <2>2 DEF Answer, faultVars, Locking
    <3> QED
      BY <3>1, <3>2 DEF FundedContractTold, Locks, Busy, Locking
  <2>3. CASE Crash(p) \/ AnswerLost(p)
    <3>1. NoAnswer(p) /\ UNCHANGED <<funded, contracts>>
      BY <2>3 DEF Crash, AnswerLost, userVars
    <3>2. \A q \in Party \ {p} : job'[q] = job[q]
      BY <3>1 DEF NoAnswer, TypeOK
    <3>3. \A t \in Tx : Locks(p, t) => t \in unanswered'
      BY <3>1 DEF NoAnswer
    <3>4. unanswered \subseteq unanswered' /\ funded \subseteq Tx
      BY <3>1 DEF NoAnswer, TypeOK
    <3> QED
      BY <3>1, <3>2, <3>3, <3>4 DEF FundedContractTold, Locks, Busy
  <2>4. CASE /\ ~(\E lost \in BOOLEAN : SendToAddress(p, lost)) /\ ~Answer(p)
             /\ ~Crash(p) /\ ~AnswerLost(p)
    <3>1. Busy(p) /\ UNCHANGED <<funded, contracts, unanswered>>
      BY <1>2, <2>4 DEF DaemonStep, Fault, GetRawTransaction, DecodeRawTransaction, DumpPrivKey,
         SendRawTransaction, RefuseRawTransaction, CallRpcFails, At, userVars, faultVars
    <3>2. (\E pc \in Pc : Continue(p, pc)) \/ (\E ok \in BOOLEAN : Return(p, ok))
      BY <1>2, <2>4 DEF DaemonStep, Fault, GetRawTransaction, DecodeRawTransaction, DumpPrivKey,
         SendRawTransaction, RefuseRawTransaction, CallRpcFails, Pc
    <3>3. \E pc \in Pc : SameJob(p, pc)
      BY <3>1, <3>2, ContinueStep, ReturnStep DEF Pc
    <3> QED
      BY <3>1, <3>3 DEF FundedContractTold, Locks, SameJob, Busy
  <2> QED
    BY <2>1, <2>2, <2>3, <2>4
<1>3. CASE Tick \/ (\E t \in Tx, kind \in Spend : Confirm(t, kind)) \/ UNCHANGED vars
  BY <1>3 DEF Tick, Confirm, vars, FundedContractTold, Locks, Busy, userVars, faultVars
<1> QED
  BY <1>1, <1>2, <1>3 DEF Next

\* A contract that is paid is told to a user, whatever calls fail and however often
\* a command is repeated, but for the daemon's end in its command or the loss of
\* its own answer
THEOREM ContractsTold == Spec => []FundedContractTold
<1>1. Init => FundedContractTold
  BY DEF Init, FundedContractTold
<1> QED
  BY <1>1, ToldStep, TypeCorrect, StructCorrect, PTL DEF Spec
=============================================================================
