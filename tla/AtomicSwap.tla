------------------------------ MODULE AtomicSwap ------------------------------
(***************************************************************************)
(* The swap protocol of src/atomicswap: two users, each with a daemon of   *)
(* their own (atomicswap.cpp) that carries out one command at a time as a  *)
(* sequence of blocking CallRPC calls to coin nodes, over two chains whose *)
(* outputs are locked by the contract script of AtomicSwapContract.        *)
(*                                                                         *)
(* A lock transaction t is made by one call of Initiate or Participate.    *)
(* Initiate draws a fresh secret, so a secret is named by the transaction  *)
(* that introduced it: hash[t] = t for a contract of Initiate, and         *)
(* hash[t] = a for a contract Participate built with the hash of a.        *)
(*                                                                         *)
(* A user may give its daemon any command on what it knows, in any order   *)
(* and as often as it likes.  The daemon never looks at a clock or at the  *)
(* other contract's lock time, so each user keeps a margin of its own, a   *)
(* constant (0: it relies on the program).  How long nodes, handlers and   *)
(* the participant's attention may take is a deadline time does not pass   *)
(* (Deadlines).                                                            *)
(***************************************************************************)
EXTENDS Integers

CONSTANTS
  Tx,                 \* lock transactions, one per call of Initiate or Participate
  InitiateLock,       \* INITIATE_LOCKTIME
  ParticipateLock,    \* PARTICIPATE_LOCKTIME
  Skew,               \* Skew[p]: the clock of p's daemon minus the chains' time
  ParticipateMargin,  \* time left on the initiator's lock for the participant to join
  RedeemMargin,       \* time left on the participant's lock for the initiator to redeem
  MaxHang,            \* longest time a handler spends in its CallRPC calls
  Conf,               \* longest time from a broadcast to the confirmation of a spend
  React,              \* longest time the participant takes to answer an event
  MaxFaults,          \* bound: failed calls, lost replies and answers, crashes
  LastInitiate,       \* bound: no Initiate after this time
  MaxTime             \* bound: the clock stops here

Party == {"initiator", "participant"}

\* What stands in a script where no secret does
None == "none"

ASSUME NoneAssumption == None \notin Tx

ASSUME DurationAssumption ==
  /\ InitiateLock \in Nat /\ ParticipateLock \in Nat
  /\ ParticipateMargin \in Nat /\ RedeemMargin \in Nat
  /\ MaxHang \in Nat /\ Conf \in Nat /\ React \in Nat
  /\ MaxFaults \in Nat /\ LastInitiate \in Nat /\ MaxTime \in Nat

ASSUME SkewAssumption ==
  /\ Skew \in [Party -> Int]
  /\ Skew["initiator"] + InitiateLock >= 0
  /\ Skew["participant"] + ParticipateLock >= 0

VARIABLES
  now,        \* the chains' time, the one OP_CHECKLOCKTIMEVERIFY is compared with
  made,       \* contracts a handler has built
  hash,       \* hash[t]: the transaction whose secret t's contract asks for
  lock,       \* lock[t]: the lock time in t's contract
  funded,     \* lock transactions the nodes have sent
  contracts,  \* contracts some answer has handed to the users
  secrets,    \* secrets[p]: what p's user was given: for whose secret, and what it is
  broadcast,  \* broadcast[t]: the kinds of spends of t the nodes have accepted
  spent,      \* spent[t]: the confirmed spend of t
  spendTime,  \* spendTime[t]: when t's first spend was accepted, then when one confirmed
  job,        \* job[p]: the command p's daemon is executing
  faults,     \* failed calls, lost replies and answers, and crashes so far
  unanswered  \* history: lock transactions whose making was not answered

vars == <<now, made, hash, lock, funded, contracts, secrets,
          broadcast, spent, spendTime, job, faults, unanswered>>

contractVars == <<made, hash, lock>>
userVars     == <<contracts, secrets>>
spendVars    == <<broadcast, spent, spendTime>>
faultVars    == <<faults, unanswered>>

-----------------------------------------------------------------------------
(* Contracts and the conditions their script puts on a spend *)

IsInitiators(t) == hash[t] = t

Recipient(t) == IF IsInitiators(t) THEN "participant" ELSE "initiator"
Refunder(t)  == IF IsInitiators(t) THEN "initiator" ELSE "participant"

\* Mutants: the initiator's duration in both handlers, and a sign lost on the way
LockTimeSame(p) == now + Skew[p] + InitiateLock
LockTimeNegative(p) ==
  now + Skew[p] - (IF p = "initiator" THEN InitiateLock ELSE ParticipateLock)

\* time(NULL) on p's machine plus the lock duration of p's command
LockTime(p) ==
  now + Skew[p] + (IF p = "initiator" THEN InitiateLock ELSE ParticipateLock)

Spend == {"redeem", "refund"}

\* Mutant: a refund branch without OP_CHECKLOCKTIMEVERIFY
ScriptAcceptsNoLock(t, kind, s) == kind = "redeem" => s = hash[t]

\* The script: IF the secret of the hash ELSE the lock time has come
ScriptAccepts(t, kind, s) ==
  \/ kind = "redeem" /\ s = hash[t]
  \/ kind = "refund" /\ lock[t] <= now

-----------------------------------------------------------------------------
(* The daemon: at most one command, between two CallRPC calls of it *)

Op == {"initiate", "participate", "redeem", "refund", "extractsecret"}
Pc == {"send", "getraw", "decode", "dump", "sendraw", "reply"}

\* Of t a node may be asked for the lock transaction or for a spend of it
Kind == {"lock"} \cup Spend

Job == [op : Op, pc : Pc, tx : Tx, reads : Kind, secret : Tx, ok : BOOLEAN, since : Nat]
Idle == [op |-> "none"]

Started(op, pc, t, kind, s) ==
  [op |-> op, pc |-> pc, tx |-> t, reads |-> kind, secret |-> s, ok |-> FALSE,
   since |-> now]

Busy(p) == job[p] # Idle
At(p, pc) == Busy(p) /\ job[p].pc = pc

\* The call answered and the handler goes on
Continue(p, pc) == job' = [job EXCEPT ![p].pc = pc]
\* The handler returns ok, which becomes "success" or "failed" in the answer
Return(p, ok) == job' = [job EXCEPT ![p].pc = "reply", ![p].ok = ok]

CanFail == faults < MaxFaults

Init ==
  /\ now = 0
  /\ made = {}
  /\ hash = [t \in Tx |-> t]
  /\ lock = [t \in Tx |-> 0]
  /\ funded = {}
  /\ contracts = {}
  /\ secrets = [p \in Party |-> {}]
  /\ broadcast = [t \in Tx |-> {}]
  /\ spent = [t \in Tx |-> "none"]
  /\ spendTime = [t \in Tx |-> 0]
  /\ job = [p \in Party |-> Idle]
  /\ faults = 0
  /\ unanswered = {}

-----------------------------------------------------------------------------
(* Commands: a user calls the daemon, which runs up to its first CallRPC *)

\* A contract is built, its lock time taken from the daemon's clock, before
\* anything is sent
Build(p, t, a) ==
  /\ t \notin made
  /\ made' = made \cup {t}
  /\ hash' = [hash EXCEPT ![t] = a]
  /\ lock' = [lock EXCEPT ![t] = LockTime(p)]

Initiate(t) ==
  /\ ~Busy("initiator")
  /\ now <= LastInitiate
  /\ Build("initiator", t, t)
  /\ job' = [job EXCEPT !["initiator"] = Started("initiate", "send", t, "lock", t)]
  /\ UNCHANGED <<now, funded, userVars, spendVars, faultVars>>

\* The handler gets a hash only: that there is an offer, that it is paid and that
\* enough time is left on it (ParticipateMargin) is for the user to see
Participate(t, a) ==
  /\ ~Busy("participant")
  /\ a \in contracts /\ IsInitiators(a) /\ a \in funded
  /\ now + ParticipateMargin <= lock[a]
  /\ t # a
  /\ Build("participant", t, a)
  /\ job' = [job EXCEPT !["participant"] = Started("participate", "send", t, "lock", a)]
  /\ UNCHANGED <<now, funded, userVars, spendVars, faultVars>>

\* The users pass each other the contracts and transaction ids the answers
\* show them.  Redeem never compares the lock time with the clock; the initiator's user
\* keeps RedeemMargin
Redeem(p, t, s) ==
  /\ ~Busy(p)
  /\ t \in contracts /\ \E g \in secrets[p] : g.is = s
  /\ p = "initiator" => now + RedeemMargin <= lock[t]
  /\ job' = [job EXCEPT ![p] = Started("redeem", "getraw", t, "lock", s)]
  /\ UNCHANGED <<now, contractVars, funded, userVars, spendVars, faultVars>>

Refund(p, t) ==
  /\ ~Busy(p)
  /\ t \in contracts
  /\ job' = [job EXCEPT ![p] = Started("refund", "getraw", t, "lock", t)]
  /\ UNCHANGED <<now, contractVars, funded, userVars, spendVars, faultVars>>

\* On the id of a transaction, the lock transaction or a spend of it, for the hash
\* of a: the handler does not ask which it is
ExtractSecret(p, t, kind, a) ==
  /\ ~Busy(p)
  /\ {t, a} \subseteq contracts /\ IsInitiators(a)
  /\ kind = "lock" \/ kind \in broadcast[t]
  /\ job' = [job EXCEPT ![p] = Started("extractsecret", "getraw", t, kind, a)]
  /\ UNCHANGED <<now, contractVars, funded, userVars, spendVars, faultVars>>

-----------------------------------------------------------------------------
(* The CallRPC calls of the handlers.  A reply that is lost leaves the      *)
(* call's effect behind and makes the handler return false.                 *)

\* sendtoaddress, the last call of Initiate and Participate
SendToAddress(p, lost) ==
  /\ At(p, "send")
  /\ lost => CanFail
  /\ funded' = funded \cup {job[p].tx}
  /\ Return(p, ~lost)
  /\ faults' = IF lost THEN faults + 1 ELSE faults
  /\ UNCHANGED <<now, contractVars, userVars, spendVars, unanswered>>

\* The transaction the handler reads is one the node has; a spend is gone once
\* another one is confirmed
NodeHas(p) ==
  LET t == job[p].tx
      kind == job[p].reads IN
  IF kind = "lock" THEN t \in funded
  ELSE kind \in broadcast[t] /\ spent[t] \in {"none", kind}

GetRawTransaction(p) ==
  /\ At(p, "getraw")
  /\ IF NodeHas(p) THEN Continue(p, "decode") ELSE Return(p, FALSE)
  /\ UNCHANGED <<now, contractVars, funded, userVars, spendVars, faultVars>>

\* Mutant: the contract has the secret in it in place of its hash
CarriedByAll(j) == hash[j.tx]

\* The secret in the script of the transaction a command reads
Carried(j) == IF j.reads = "redeem" THEN hash[j.tx] ELSE None

\* Mutant: what stands in the place of the secret is not hashed and compared
DecodeNoComparison(p) ==
  /\ At(p, "decode")
  /\ IF job[p].op = "extractsecret" THEN Return(p, TRUE) ELSE Continue(p, "dump")
  /\ UNCHANGED <<now, contractVars, funded, userVars, spendVars, faultVars>>

\* Redeem and Refund find the contract's output; ExtractSecret takes the third
\* word of the input's script and compares its hash with the one asked for.  A
\* refund has another word there; a lock transaction has too few, which is
\* refused here or ends the daemon (Crash).
DecodeRawTransaction(p) ==
  /\ At(p, "decode")
  /\ IF job[p].op = "extractsecret"
     THEN Return(p, Carried(job[p]) = job[p].secret)
     ELSE Continue(p, "dump")
  /\ UNCHANGED <<now, contractVars, funded, userVars, spendVars, faultVars>>

\* p's node has the key of one branch of the script only
OwnsKey(p) ==
  p = IF job[p].op = "redeem" THEN Recipient(job[p].tx) ELSE Refunder(job[p].tx)

DumpPrivKey(p) ==
  /\ At(p, "dump")
  /\ IF OwnsKey(p) THEN Continue(p, "sendraw") ELSE Return(p, FALSE)
  /\ UNCHANGED <<now, contractVars, funded, userVars, spendVars, faultVars>>

\* The node takes a valid spend of an unspent output.  Against a conflicting
\* spend it decides by whether it has seen that one.
Acceptable(p) ==
  LET t == job[p].tx IN
  /\ spent[t] = "none"
  /\ job[p].op \notin broadcast[t]
  /\ ScriptAccepts(t, job[p].op, job[p].secret)

SendRawTransaction(p, lost) ==
  LET t == job[p].tx IN
  /\ At(p, "sendraw")
  /\ Acceptable(p)
  /\ lost => CanFail
  /\ broadcast' = [broadcast EXCEPT ![t] = @ \cup {job[p].op}]
  /\ spendTime' = [spendTime EXCEPT ![t] = IF broadcast[t] = {} THEN now ELSE @]
  /\ Return(p, ~lost)
  /\ faults' = IF lost THEN faults + 1 ELSE faults
  /\ UNCHANGED <<now, contractVars, funded, userVars, spent, unanswered>>

RefuseRawTransaction(p) ==
  /\ At(p, "sendraw")
  /\ ~Acceptable(p) \/ broadcast[job[p].tx] # {}
  /\ Return(p, FALSE)
  /\ UNCHANGED <<now, contractVars, funded, userVars, spendVars, faultVars>>

\* No connection, an HTTP error, an empty or broken reply, or an error object,
\* with no effect at the node
CallRpcFails(p) ==
  /\ Busy(p) /\ job[p].pc # "reply"
  /\ CanFail
  /\ Return(p, FALSE)
  /\ faults' = faults + 1
  /\ UNCHANGED <<now, contractVars, funded, userVars, spendVars, unanswered>>

\* The secret in the answer to Initiate is its own, in one to ExtractSecret the
\* one of the transaction it read; the user takes it for the one asked for
Given(j) == [for |-> j.secret, is |-> IF j.op = "initiate" THEN j.tx ELSE Carried(j)]

\* Mutant: the contract is in the answer of a successful command only
AnswerOnSuccess(p) ==
  LET j == job[p] IN
  /\ At(p, "reply")
  /\ contracts' = IF j.op \in {"initiate", "participate"} /\ j.ok
                  THEN contracts \cup {j.tx} ELSE contracts
  /\ secrets' = IF j.op \in {"initiate", "extractsecret"} /\ j.ok
                THEN [secrets EXCEPT ![p] = @ \cup {Given(j)}] ELSE secrets
  /\ job' = [job EXCEPT ![p] = Idle]
  /\ UNCHANGED <<now, contractVars, funded, spendVars, faultVars>>

\* The answer reaches the user.  The contract and the secret are in it even
\* when the result is "failed": they are set before sendtoaddress is called.
Answer(p) ==
  LET j == job[p] IN
  /\ At(p, "reply")
  /\ contracts' = IF j.op \in {"initiate", "participate"}
                  THEN contracts \cup {j.tx} ELSE contracts
  /\ secrets' = IF j.op = "initiate" \/ (j.op = "extractsecret" /\ j.ok)
                THEN [secrets EXCEPT ![p] = @ \cup {Given(j)}] ELSE secrets
  /\ job' = [job EXCEPT ![p] = Idle]
  /\ UNCHANGED <<now, contractVars, funded, spendVars, faultVars>>

\* A command that locks coins, and has not ended
Locks(p, t) == Busy(p) /\ job[p].tx = t /\ job[p].op \in {"initiate", "participate"}

\* The command ends and nobody is told: contract and secret are kept nowhere
NoAnswer(p) ==
  /\ job' = [job EXCEPT ![p] = Idle]
  /\ unanswered' = unanswered \cup {t \in Tx : Locks(p, t)}

\* The user's program has left or the answer cannot be sent; the daemon goes on
AnswerLost(p) ==
  /\ At(p, "reply")
  /\ CanFail
  /\ NoAnswer(p)
  /\ faults' = faults + 1
  /\ UNCHANGED <<now, contractVars, funded, userVars, spendVars>>

\* Nothing is kept on disk: the command and its answer are gone
Crash(p) ==
  /\ Busy(p)
  /\ CanFail
  /\ NoAnswer(p)
  /\ faults' = faults + 1
  /\ UNCHANGED <<now, contractVars, funded, userVars, spendVars>>

-----------------------------------------------------------------------------
(* The chains and time *)

Confirm(t, kind) ==
  /\ spent[t] = "none"
  /\ kind \in broadcast[t]
  /\ spent' = [spent EXCEPT ![t] = kind]
  /\ spendTime' = [spendTime EXCEPT ![t] = now]
  /\ UNCHANGED <<now, contractVars, funded, userVars, broadcast, job, faultVars>>

\* What has to happen before time passes
HandlersReturn == \A p \in Party : Busy(p) => now < job[p].since + MaxHang

SpendsConfirm ==
  \A t \in Tx : broadcast[t] # {} /\ spent[t] = "none" => now < spendTime[t] + Conf

\* The participant takes its coins back after the lock time ...
ParticipantRefunds ==
  \A b \in contracts \cap funded :
     ~IsInitiators(b) /\ broadcast[b] = {} => now < lock[b] + React

\* ... and redeems once the initiator has
ParticipantRedeems ==
  \A b \in made :
     /\ ~IsInitiators(b) /\ spent[b] = "redeem"
     /\ spent[hash[b]] = "none" /\ "redeem" \notin broadcast[hash[b]]
     => now < spendTime[b] + React

Deadlines ==
  HandlersReturn /\ SpendsConfirm /\ ParticipantRefunds /\ ParticipantRedeems

Tick ==
  /\ now < MaxTime
  /\ Deadlines
  /\ now' = now + 1
  /\ UNCHANGED <<contractVars, funded, userVars, spendVars, job, faultVars>>

Command(p) ==
  \/ p = "initiator" /\ \E t \in Tx : Initiate(t)
  \/ p = "participant" /\ \E t, a \in Tx : Participate(t, a)
  \/ \E t, s \in Tx : Redeem(p, t, s)
  \/ \E t \in Tx : Refund(p, t)
  \/ \E t, a \in Tx, kind \in Kind : ExtractSecret(p, t, kind, a)

\* A step of p's daemon when the node answers
DaemonStep(p) ==
  \/ SendToAddress(p, FALSE)
  \/ GetRawTransaction(p)
  \/ DecodeRawTransaction(p)
  \/ DumpPrivKey(p)
  \/ SendRawTransaction(p, FALSE)
  \/ RefuseRawTransaction(p)
  \/ Answer(p)

Fault(p) ==
  \/ SendToAddress(p, TRUE)
  \/ SendRawTransaction(p, TRUE)
  \/ CallRpcFails(p)
  \/ AnswerLost(p)
  \/ Crash(p)

Next ==
  \/ \E p \in Party : Command(p) \/ DaemonStep(p) \/ Fault(p)
  \/ \E t \in Tx, kind \in Spend : Confirm(t, kind)
  \/ Tick

Spec == Init /\ [][Next]_vars

-----------------------------------------------------------------------------
(* The promise: Escrow, where a contract is locked once it is paid, and      *)
(* claimed or given back as soon as a node has accepted the spend            *)

Swap == INSTANCE Escrow WITH
  asks <- [t \in Tx |-> IF t \in funded THEN hash[t] ELSE t],
  locked <- funded,
  claimed <- {t \in Tx : "redeem" \in broadcast[t]},
  returned <- {t \in Tx : "refund" \in broadcast[t]}

\* The two daemons, over chains that may still confirm either of two spends,
\* keep the promise: no spend a node accepts is one too many, and the secret
\* is given away only while it is of use.  About Redeem and Refund, which ask
\* for neither the time nor the other contract.
ImplementsEscrow == Swap!Spec

-----------------------------------------------------------------------------
(* Properties *)

\* Types of the swap's state.  About LockTime: the lock time pushed into a
\* contract is never negative, whatever the skew SkewAssumption allows.
TypeOK ==
  /\ now \in 0 .. MaxTime
  /\ made \in SUBSET Tx /\ funded \in SUBSET Tx /\ contracts \in SUBSET Tx
  /\ hash \in [Tx -> Tx]
  /\ lock \in [Tx -> Nat]
  /\ secrets \in [Party -> SUBSET [for : Tx, is : Tx \cup {None}]]
  /\ broadcast \in [Tx -> SUBSET Spend]
  /\ spent \in [Tx -> Spend \cup {"none"}]
  /\ spendTime \in [Tx -> Nat]
  /\ job \in [Party -> Job \cup {Idle}]
  /\ faults \in 0 .. MaxFaults
  /\ unanswered \in SUBSET Tx

\* b is a contract of the participant for the secret of a
Answers(b, a) == b \in made /\ ~IsInitiators(b) /\ hash[b] = a

\* The participant never ends without its own coins and without the
\* initiator's: once its contract is redeemed with the secret, the other one
\* is not refunded.  About Participate's lock time, which the daemon takes
\* from its own clock and never compares with the initiator's.
ParticipantSafe ==
  \A a, b \in Tx : Answers(b, a) /\ spent[b] = "redeem" => spent[a] # "refund"

\* The initiator never ends without its own coins and without the
\* participant's: a redeemed contract of the initiator has a counterpart the
\* initiator redeemed and the participant did not get back.  About Redeem,
\* which sends the secret out whatever the time.
InitiatorSafe ==
  \A a \in made : IsInitiators(a) /\ spent[a] = "redeem" =>
    \E b \in Tx : /\ Answers(b, a)
                  /\ "redeem" \in broadcast[b] /\ spent[b] # "refund"

\* The chains are never asked to choose between a redemption and a refund of
\* one contract, so no outcome hangs on which of them is confirmed first.
NoRace == \A t \in Tx : broadcast[t] # Spend

\* What a participant is given as a secret is the one asked for, and comes from
\* the initiator's redemption of a contract for this very secret and in no other
\* way, whatever transactions ExtractSecret is tried on.  About its comparison
\* of hashes and the answers, over all contracts and retries.
SecretFromRedemption ==
  \A g \in secrets["participant"] :
    /\ g.is = g.for
    /\ \E b \in Tx : Answers(b, g.for) /\ "redeem" \in broadcast[b]

\* Every contract that is paid is told to a user, even in the answer to a command
\* whose call failed: only the crash of the daemon in this very command, or the
\* loss of this very answer, leaves coins in a contract nobody knows.  About the
\* answers, which alone hold the contract and the secret.
FundedContractTold ==
  \A t \in funded : t \in contracts \cup unanswered \/ \E p \in Party : Locks(p, t)
=============================================================================
