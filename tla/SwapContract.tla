----------------------------- MODULE SwapContract -----------------------------
(***************************************************************************)
(* The contract script as bytes: how AtomicSwapContract writes it, how     *)
(* Redeem and Refund recognise it and take it apart by offset, and the     *)
(* lock time's way from time_t through an int, a script number and a hex   *)
(* string into the nLockTime of a refund; and the transactions that spend  *)
(* a contract: their inputs, outputs and what each signature covers.       *)
(*                                                                         *)
(* Bytes and opcodes have their real values.  HashLen (20 in the code) and *)
(* Word (4) are the lengths of a hash and of an int in bytes; the code's   *)
(* offsets are sums of them.                                               *)
(***************************************************************************)
EXTENDS Integers, SequencesExt, FiniteSetsExt

CONSTANTS
  HashLen, Word,
  InitiateLock, ParticipateLock,  \* INITIATE_LOCKTIME, PARTICIPATE_LOCKTIME
  Times,        \* clock readings
  Key,          \* hashes of the public keys in use
  Hashes,       \* what users pass as the secret's hash, of any length
  Offers,       \* coins and amounts of the contracts
  Fee,          \* BITCOIN_MIN_TX_FEE, BLACKCOIN_MIN_TX_FEE, by coin
  COIN, CFOSCOIN,  \* the parts a coin is counted in, by coin
  Unspents,     \* what listunspent may answer
  Garbage,      \* what an integer that is not initialised may be
  MaxContracts, \* bound: contracts that are funded
  MaxSpends     \* bound: redemptions and refunds that are sent

Byte == 0 .. 255
NoKey == [i \in 1 .. HashLen |-> 0]
Coin == {"bitcoin", "blackcoin", "cfos"}

\* Power[n] = 256 ^ n
Power[n \in Nat] == IF n = 0 THEN 1 ELSE 256 * Power[n - 1]

ASSUME ContractAssumption ==
  /\ HashLen \in 1 .. 75 /\ Word \in 2 .. 75
  /\ InitiateLock \in Nat /\ ParticipateLock \in Nat /\ {MaxContracts, MaxSpends} \subseteq Nat
  /\ Times \subseteq Nat
  /\ Key \subseteq [1 .. HashLen -> Byte] \ {NoKey}
  /\ \A h \in Hashes : h \in Seq(Byte) /\ Len(h) < Power[2]  \* a request has 1500 bytes
  /\ Offers \subseteq [coin : Coin, amount : Nat]
  /\ Fee \in [{"bitcoin", "blackcoin"} -> Nat] /\ {COIN, CFOSCOIN} \subseteq Nat \ {0}
  /\ Unspents \subseteq Seq([tx : STRING, n : Nat, amount : Nat, key : Key])
  /\ Garbage \subseteq Int

OP_PUSHDATA1 == 76
OP_PUSHDATA2 == 77
OP_1 == 81
OP_IF == 99
OP_ELSE == 103
OP_ENDIF == 104
OP_DROP == 117
OP_DUP == 118
OP_EQUALVERIFY == 136
OP_RIPEMD160 == 166
OP_HASH160 == 169
OP_CHECKSIG == 172
OP_CHECKLOCKTIMEVERIFY == 177

-----------------------------------------------------------------------------
(* Writing *)

\* The ints that are not negative are below Half
Half == Power[Word] \div 2

\* A 64-bit number passed as an int
ToInt(n) ==
  LET m == n % Power[Word] IN IF m < Half THEN m ELSE m - Power[Word]

\* The bytes of a magnitude, least significant first, none for 0
Magnitude(n) ==
  LET size == CHOOSE k \in 0 .. Word :
                n < Power[k] /\ \A j \in 0 .. k - 1 : n >= Power[j] IN
  [i \in 1 .. size |-> (n \div Power[i - 1]) % 256]

\* CBigNum::getvch: the top bit of the last byte is the sign
Getvch(n) ==
  LET m == Magnitude(IF n < 0 THEN -n ELSE n)
      sign == IF n < 0 THEN 128 ELSE 0 IN
  IF m = <<>> THEN m
  ELSE IF Last(m) >= 128 THEN Append(m, sign)
  ELSE [m EXCEPT ![Len(m)] = @ + sign]

PushSize(n) ==
  IF n < OP_PUSHDATA1 THEN <<n>>
  ELSE IF n <= 255 THEN <<OP_PUSHDATA1, n>>
  ELSE <<OP_PUSHDATA2, n % 256, n \div 256>>

Push(v) == PushSize(Len(v)) \o v

\* CScript << time_t
PushInt64(n) ==
  IF n \in 1 .. 16 THEN <<OP_1 - 1 + n>> ELSE Push(Getvch(ToInt(n)))

AtomicSwapContract(me, them, lockTime, secHash) ==
  <<OP_IF, OP_RIPEMD160>> \o Push(secHash) \o <<OP_EQUALVERIFY, OP_DUP, OP_HASH160>>
    \o Push(them)
    \o <<OP_ELSE>> \o PushInt64(lockTime) \o <<OP_CHECKLOCKTIMEVERIFY, OP_DROP>>
    \o <<OP_DUP, OP_HASH160>> \o Push(me)
    \o <<OP_ENDIF, OP_EQUALVERIFY, OP_CHECKSIG>>

-----------------------------------------------------------------------------
(* Reading *)

\* Offsets of the parts, and of what ISAtomicSwap compares, in its order
HashAt == 3
ThemAt == HashAt + HashLen + 4
LockAt == ThemAt + HashLen + 2
MeAt == LockAt + Word + 5

Template ==
  << <<0, OP_IF>>, <<1, OP_RIPEMD160>>, <<2, HashLen>>,
     <<ThemAt - 4, OP_EQUALVERIFY>>, <<ThemAt - 3, OP_DUP>>,
     <<ThemAt - 2, OP_HASH160>>, <<ThemAt - 1, HashLen>>,
     <<LockAt - 2, OP_ELSE>>, <<LockAt - 1, Word>>,
     <<LockAt + Word, OP_CHECKLOCKTIMEVERIFY>>, <<LockAt + Word + 1, OP_DROP>>,
     <<LockAt + Word + 2, OP_DUP>>, <<LockAt + Word + 3, OP_HASH160>>,
     <<MeAt - 1, HashLen>>, <<MeAt + HashLen, OP_ENDIF>>,
     <<MeAt + HashLen + 1, OP_EQUALVERIFY>>, <<MeAt + HashLen + 2, OP_CHECKSIG>> >>

Beyond(s, i) == Template[i][1] >= Len(s)

\* Mutant: & in place of &&, so that every offset is looked at
ISAtomicSwapEager(s) ==
  IF \E i \in DOMAIN Template : Beyond(s, i) THEN "throws"
  ELSE IF \A i \in DOMAIN Template : s[Template[i][1] + 1] = Template[i][2]
  THEN "yes" ELSE "no"

\* The first comparison that fails decides; at() throws beyond the end
ISAtomicSwap(s) ==
  LET fails == {i \in DOMAIN Template :
                  Beyond(s, i) \/ s[Template[i][1] + 1] # Template[i][2]} IN
  IF fails = {} THEN "yes"
  ELSE IF Beyond(s, Min(fails)) THEN "throws" ELSE "no"

Part(s, at, n) == SubSeq(s, at + 1, at + n)

\* Mutant: the length byte is taken for the first byte of the key
ExtractOffByOne(s) ==
  [secHash |-> Part(s, HashAt, HashLen),
   recipient |-> Part(s, ThemAt - 1, HashLen),
   lockTime |-> Part(s, LockAt, Word),
   refund |-> Part(s, MeAt, HashLen)]

ExtractAtomicSwapData(s) ==
  [secHash |-> Part(s, HashAt, HashLen),
   recipient |-> Part(s, ThemAt, HashLen),
   lockTime |-> Part(s, LockAt, Word),
   refund |-> Part(s, MeAt, HashLen)]

Value(bytes) ==
  LET sum[i \in 0 .. Len(bytes)] ==
        IF i = 0 THEN 0 ELSE sum[i - 1] + bytes[i] * Power[i - 1]
  IN  sum[Len(bytes)]

\* Mutant: without htonl
RefundLockNoSwap(bytes) == Value(Reverse(bytes))

\* Mutant: read as a script number
RefundLockSigned(bytes) ==
  IF Last(bytes) >= 128 THEN Value(bytes) - Power[Word] ELSE Value(bytes)

\* strtol reads the hex string most significant byte first, htonl swaps it
RefundLock(bytes) == Value(bytes)

-----------------------------------------------------------------------------
(* Transactions.  Amounts count in parts of 1 / COIN; a public key stands    *)
(* for its hash, and a secret, of the 32 bytes that Initiate draws, for its  *)
(* hash too                                                                  *)

\* A double as an int64: the product of an amount and COIN lies at n or just
\* beside it (amounts stay below 2 ^ 53 parts), and the fraction is cut off
Cut(n) ==
  IF n > 0 THEN {n - 1, n} ELSE IF n < 0 THEN {n, n + 1} ELSE {0}

\* What SIGHASH_ALL covers: the outputs, the outputs that all inputs spend, the
\* input the signature is for and the script that input spends.  Another
\* transaction gives another hash.
SignatureHash(script, tx, i) ==
  [script |-> script, input |-> i, prevs |-> [k \in DOMAIN tx.vin |-> tx.vin[k].prev],
   vout |-> tx.vout, nLockTime |-> tx.nLockTime]

Sign(key, script, tx, i) == [by |-> key, hash |-> SignatureHash(script, tx, i)]

\* What OP_TRUE and OP_FALSE put on the stack
True == <<1>>
False == <<>>

\* The transaction that pays the output of contract c to one output
Spend(c, value, nLockTime) ==
  [vin |-> << [prev |-> [tx |-> "contract", n |-> 0], scriptSig |-> <<>>] >>,
   vout |-> << value >>, nLockTime |-> nLockTime]

\* Mutant: the fee is taken off after the signature
RedeemBitcoinLate(c, data, secret, value) ==
  LET tx == Spend(c, c.amount, 0)
      sig == Sign(data.recipient, c.script, tx, 1)
  IN  [tx EXCEPT !.vin[1].scriptSig = <<sig, data.recipient, secret, True, c.script>>,
                 !.vout[1] = value]

\* Redeem up to the cfos branch, with the secret that the user gave
RedeemBitcoin(c, data, secret, value) ==
  LET tx == Spend(c, value, 0)
      sig == Sign(data.recipient, c.script, tx, 1)
  IN  [tx EXCEPT !.vin[1].scriptSig = <<sig, data.recipient, secret, True, c.script>>]

\* The value of a redemption's first output
Redeemed(c) ==
  Cut(IF c.coin = "cfos" THEN (c.amount * CFOSCOIN) \div COIN ELSE c.amount - Fee[c.coin])

\* The fee of a cfos redemption: an unspent output of so many whole coins as the
\* fee has, which are none; it is named by its place in the answer and signed
\* with the recipient's key, and the signature goes to the first input
Enough(list) ==
  {i \in DOMAIN list : list[i].amount >= (Fee["blackcoin"] \div COIN) * COIN}

AddFee(tx, list, key) ==
  LET i == Min(Enough(list)) IN
  {LET with == [tx EXCEPT
         !.vin = Append(@, [prev |-> [tx |-> list[i].tx, n |-> i - 1], scriptSig |-> <<>>]),
         !.vout = Append(@, value)]
   IN  [with EXCEPT !.vin[1].scriptSig = << Sign(key, list[i].key, with, 2) >>] :
     value \in Cut((list[i].amount * CFOSCOIN) \div COIN - Fee["blackcoin"])}

\* The transactions that Redeem may send for the contract c
Redemptions(c, data, secret) ==
  LET txs == {RedeemBitcoin(c, data, secret, value) : value \in Redeemed(c)} IN
  IF c.coin = "cfos"
  THEN UNION {AddFee(tx, list, data.recipient) :
                tx \in txs, list \in {u \in Unspents : Enough(u) # {}}}
  ELSE txs

\* The transactions that Refund may send; the fee has no value for cfos, whose
\* amounts are scaled as those of the others
Refunds(c, data) ==
  {LET tx == Spend(c, value, RefundLock(data.lockTime))
   IN  [tx EXCEPT !.vin[1].scriptSig =
          <<Sign(data.refund, c.script, tx, 1), data.refund, False, c.script>>] :
     value \in UNION {Cut(c.amount - fee) :
                        fee \in IF c.coin = "cfos" THEN Garbage ELSE {Fee[c.coin]}}}

\* Mutant: the public key is taken for the secret
ExtractSecretKey(tx, h) ==
  IF Len(tx.vin) = 1 /\ tx.vin[1].scriptSig[2] = h THEN {h} ELSE {}

\* ExtractSecret: the secret, if it is that of the hash h
ExtractSecret(tx, h) ==
  IF Len(tx.vin) = 1 /\ tx.vin[1].scriptSig[3] = h THEN {h} ELSE {}

-----------------------------------------------------------------------------
(* The daemon *)

VARIABLES
  pc,       \* whether the daemon runs
  now,      \* time(NULL)
  funded,   \* contracts that were paid into, with what they were made of
  refunds,  \* refunds sent: the contract they are of and the transaction
  redeems   \* redemptions sent: the contract they are of, the secret that was
            \* given and the transaction

vars == <<pc, now, funded, refunds, redeems>>

Init ==
  /\ pc = "up" /\ now \in Times
  /\ funded = {} /\ refunds = {} /\ redeems = {}

Tick ==
  /\ now' \in {t \in Times : t > now}
  /\ UNCHANGED <<pc, funded, refunds, redeems>>

\* The user names a counterparty and an address for refunds.  Addresses that
\* are no key hashes of this coin leave the key ids as they were constructed.
Fund(me, them, lockTime, secHash, offer) ==
  /\ pc = "up"
  /\ Cardinality(funded) < MaxContracts
  /\ funded' = funded \cup
       {[me |-> me, them |-> them, lock |-> lockTime, hash |-> secHash,
         coin |-> offer.coin, amount |-> offer.amount,
         script |-> AtomicSwapContract(me, them, lockTime, secHash)]}
  /\ UNCHANGED <<pc, now, refunds, redeems>>

Initiate(me, them, h, offer) ==
  Len(h) = HashLen /\ Fund(me, them, now + InitiateLock, h, offer)
Participate(me, them, h, offer) == Fund(me, them, now + ParticipateLock, h, offer)

\* A contract that a user hands in: one that was funded, cut short on its way,
\* or with something after it
Given ==
  UNION {{c.script, Append(c.script, OP_DROP)}
           \cup {SubSeq(c.script, 1, n) : n \in 0 .. Len(c.script) - 1} : c \in funded}

\* The node has a transaction that pays to the hash of s, and the key
Payable(s, key) == {c \in funded : key \in Key /\ c.script = s}

\* The secrets that a user may give, the right one or not
Secret == {h \in Hashes : Len(h) = HashLen}

\* What follows ISAtomicSwap is not reached when it throws: nothing catches.
\* The secret is not compared with the contract.
Redeem(s, secret) ==
  LET data == ExtractAtomicSwapData(s) IN
  /\ pc = "up"
  /\ \/ ISAtomicSwap(s) = "throws" /\ pc' = "dead" /\ UNCHANGED redeems
     \/ /\ ISAtomicSwap(s) = "yes" /\ Cardinality(redeems \cup refunds) < MaxSpends
        /\ \E c \in Payable(s, data.recipient) : \E tx \in Redemptions(c, data, secret) :
             redeems' = redeems \cup {[of |-> c, secret |-> secret, tx |-> tx]}
        /\ UNCHANGED pc
  /\ UNCHANGED <<now, funded, refunds>>

Refund(s) ==
  LET data == ExtractAtomicSwapData(s) IN
  /\ pc = "up"
  /\ \/ ISAtomicSwap(s) = "throws" /\ pc' = "dead" /\ UNCHANGED refunds
     \/ /\ ISAtomicSwap(s) = "yes" /\ Cardinality(redeems \cup refunds) < MaxSpends
        /\ \E c \in Payable(s, data.refund) : \E tx \in Refunds(c, data) :
             refunds' = refunds \cup {[of |-> c, tx |-> tx]}
        /\ UNCHANGED pc
  /\ UNCHANGED <<now, funded, redeems>>

Next ==
  \/ Tick
  \/ \E me, them \in Key \cup {NoKey}, h \in Hashes, o \in Offers :
       Initiate(me, them, h, o) \/ Participate(me, them, h, o)
  \/ \E s \in Given : Refund(s) \/ \E secret \in Secret : Redeem(s, secret)

Spec == Init /\ [][Next]_vars

-----------------------------------------------------------------------------
(* Properties *)

\* Types of the daemon's state; an nLockTime is an unsigned int (Refund).
TypeOK ==
  /\ pc \in {"up", "dead"} /\ now \in Times
  /\ \A c \in funded : c.script \in Seq(Byte)
  /\ \A r \in refunds \cup redeems :
       /\ r.of \in funded
       /\ r.tx.nLockTime \in 0 .. Power[Word] - 1

\* The lock times that take Word bytes as a script number
WordLock(t) == Power[Word - 1] \div 2 <= t /\ t < Half

\* A funded contract whose hash has the right length and whose lock time fits
\* is recognised; and whatever hash and clock it was made with, a contract that
\* is recognised is taken apart into what it was made of, also when its bytes
\* look like the opcodes around them (AtomicSwapContract against ISAtomicSwap
\* and ExtractAtomicSwapData).
TakenApart ==
  \A c \in funded :
    LET data == ExtractAtomicSwapData(c.script) IN
    /\ Len(c.hash) = HashLen /\ WordLock(c.lock) => ISAtomicSwap(c.script) = "yes"
    /\ ISAtomicSwap(c.script) = "yes" =>
         data.secHash = c.hash /\ data.recipient = c.them /\ data.refund = c.me

\* How a node reads the number that OP_CHECKLOCKTIMEVERIFY finds
ScriptNum(bytes) ==
  IF bytes = <<>> THEN 0
  ELSE LET top == Last(bytes) IN
       IF top < 128 THEN Value(bytes)
       ELSE -Value([bytes EXCEPT ![Len(bytes)] = top - 128])

\* A refund that is sent satisfies the script it spends and is final no later
\* than the lock the contract was made with, as long as lock times fit an int:
\* the lock time survives int, script number, hex string and byte order
\* (push_int64, ExtractAtomicSwapData, Refund).
RefundFinal ==
  \A r \in refunds :
    r.of.lock < Half =>
      /\ r.tx.nLockTime = r.of.lock
      /\ ScriptNum(Part(r.of.script, LockAt, Word)) \in 0 .. r.tx.nLockTime

\* What a node checks of the input that spends the contract c, for the one
\* branch of its script and for the other
Redeems(tx, c) ==
  tx.vin[1].scriptSig = <<Sign(c.them, c.script, tx, 1), c.them, c.hash, True, c.script>>
RefundsTo(tx, c) ==
  tx.vin[1].scriptSig = <<Sign(c.me, c.script, tx, 1), c.me, False, c.script>>

\* and of the amounts: one output, with the value of the contract less the fee
\* of its coin and less one part at most, which the cut of the double costs
Pays(tx, c) ==
  /\ Len(tx.vout) = 1
  /\ c.amount - tx.vout[1] \in {Fee[c.coin], Fee[c.coin] + 1}
  /\ tx.vout[1] >= 0

\* The redemption and the refund of a contract of more than the fee are signed
\* over the transaction that is sent and pay all but the fee and one part; the
\* refund is what the script asks for, and the redemption is if, and only if,
\* the user gave the contract's secret.  About the order of building, signing
\* and adding outputs.
SpendsValid ==
  \A r \in redeems \cup refunds :
    r.of.coin # "cfos" /\ r.of.amount > Fee[r.of.coin] =>
      /\ r \in redeems => (Redeems(r.tx, r.of) <=> r.secret = r.of.hash)
      /\ r \in refunds => RefundsTo(r.tx, r.of)
      /\ Pays(r.tx, r.of)

\* The docs: a contract, of whatever coin, is redeemed with
\* <their sig> <their pubkey> <secret> OP_TRUE, by whoever has the secret.
RedeemedAsDocumented ==
  \A r \in redeems : r.secret = r.of.hash => Redeems(r.tx, r.of)

\* Whoever hands ExtractSecret a redemption of the contract gets its secret if
\* the redemption was made with it and nothing otherwise, and nobody gets it
\* from a refund.  About the place of the secret in the script.
SecretShown ==
  /\ \A r \in redeems : r.of.coin # "cfos" =>
       ExtractSecret(r.tx, r.of.hash) = {r.secret} \cap {r.of.hash}
  /\ \A r \in refunds : ExtractSecret(r.tx, r.of.hash) = {}

\* A whole contract, however odd the hash or the clock it was made with, never
\* ends the daemon: ISAtomicSwap looks beyond its end only if it was cut.
WholeContractsHarmless ==
  [][pc' = "dead" =>
       \A c \in funded :
         ~Refund(c.script) /\ \A secret \in Secret : ~Redeem(c.script, secret)]_vars
=============================================================================
