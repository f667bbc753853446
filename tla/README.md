# Verification of the Atom cross-chain swap

The repository is a daemon for atomic swaps between two coins (`src/atomicswap`),
the JSON-RPC library it serves its users with (`src/jsonrpc-cpp`), command-line
clients (`src/testatomrpc`), and vendored code: `jsoncpp`, parts of Bitcoin, and
SCons, the build tool that compiles jsoncpp. This directory holds TLA+
specifications of the daemon, of its server, and of the two parts of SCons that
have behaviour of their own (the build engine and what it remembers between
builds), TLC configurations that check them, and TLAPS proofs.

## The system

Two users each run a daemon. A daemon accepts JSON-RPC requests over TCP, one at
a time, and carries each out as a sequence of blocking HTTP calls (`CallRPC`) to
coin nodes. Coins are locked by a script (`AtomicSwapContract`): the recipient
takes them with the secret of a hash, the refunder after a lock time.

1. The initiator's `Initiate` draws a secret, builds a contract that locks for
   48 hours by the daemon's clock, and pays into it.
2. The participant's `Participate` gets the hash, builds a contract on the other
   chain that locks for 24 hours by *its* clock, and pays into it.
3. The initiator's `Redeem` of the second contract publishes the secret.
4. The participant's `ExtractSecret` reads it from that transaction, and its
   `Redeem` takes the coins of the first contract.
5. Either user can `Refund` its own contract after the lock time.

SCons reads SConstruct files, walks the graph of files they describe from the
targets asked for, gives commands to worker threads, and stores in
`.sconsign.dblite` from what each target was built, so that the next build can
leave it alone.

| component | state | operations | interacts by | hard behaviour |
|---|---|---|---|---|
| swap protocol (`atomicswap.cpp`) | none kept: secret and contract live in a call and in its answer | Initiate, Participate, Redeem, Refund, ExtractSecret | CallRPC to nodes, answers to users | two clocks and two lock times, calls that fail half way, lost replies, retries with new secrets, crashes |
| coin nodes, chains (external) | transactions, mempool, keys | sendtoaddress, getrawtransaction, decoderawtransaction, dumpprivkey, sendrawtransaction | HTTP | conflicting spends, confirmation delay |
| CallRPC (`rpccall.h`) | one connection per call | request, status, headers, body, parse | TCP/HTTP | no timeout; an effect with a lost reply |
| contract script (`script.h`, `script.cpp`, `bignum.h`) | bytes | build, recognise, extract by offset | called by the commands | integer width of the lock time, lengths |
| spending transactions (`atomicswap.cpp:299-464`, `547-626`, `transaction.h`) | inputs, outputs, signatures | redeem, add a fee (cfos), refund, read the secret | listunspent, dumpprivkey | what each signature covers, amounts against fees |
| TCP server and main loop (`jsonrpc_tcpserver.cpp`, `tcpserver.cpp`) | client list, purge list, `g_run` | WaitMessage, Accept, Recv, Send, Close | poll, sockets, signals | accept during a round, blocking recv, fragments, disconnects |
| JSON-RPC handler (`jsonrpc_handler.cpp`) | method list | AddMethod, DeleteMethod, Check, Process | callbacks | batches, notifications |
| HTTP client (`jsonrpc_httpclient.cpp`, `system.cpp`) | reply list, mutex | Send, StoreRecv, Recv, WaitRecv | libcurl callback, threads | compiled only with `CURL_ENABLED_H`, which no build file defines |
| netstring | none | encode, decode | library users | not used by the daemon |
| SCons build engine (`Taskmaster.py`, `Job.py`, `Executor.py`, node states of `Node/__init__.py`, `BuildTask` of `Main.py`) | a state, waiting parents and a reference count per node; a stack of candidates; pending children; the pool's two queues | the turns of `_find_next_ready_node`, prepare, execute, executed, failed, postprocess, will_not_build, stop, cleanup, Worker.run | two queues, an Event, signal handlers | order of the walk against order of the results, side effects several commands share, generated headers, failures with -k and -i, signals |
| SCons signatures, database and cache (`Node/FS.py`, `SConsign.py`, `dblite.py`, `CacheDir.py`) | signatures in memory, the database file, the cache directory | changed, get_csig, retrieve, push, store_info, write | files | kills between unlink and rename, half-written targets, edits during a build, entries that come back |
| rest of SCons | environments, builders, scanners, tools, file system nodes | | | string processing; its result is the project the engine starts from |

What makes each correct:

- swap: neither user ends without its own coins and without the other's; a
  secret is learnt only through a redemption; no paid contract is unknown to
  everyone.
- contract: what is built is recognised and taken apart again, a lock time
  survives the trip into the script and into the refund's nLockTime, and each
  spend is signed as it is sent.
- server: a client is served whatever others do, as long as commands end; each
  accepted socket is closed exactly once; shutdown ends the loop.
- build engine: a command starts when what it needs is built, and never beside
  one that writes the same file; nothing is waited for in vain; success means
  that everything asked for is built; the build ends.
- signatures: after a successful build the targets are what a build from
  nothing would give, and the next build does nothing.

## Modules

| module | models |
|---|---|
| `Escrow` | the abstract promise of an atomic swap: what may be locked, claimed and given back |
| `AtomicSwap` | two users, two daemons, the commands call by call, two chains and time; it implements `Escrow` |
| `TcpServer` | the daemon's one thread, its sockets, its clients and signals |
| `SwapContract` | the contract script as bytes, written by one command and read by another, and the transactions that spend it |
| `BuildOrder` | the abstract promise of a build tool: what may start, be built and fail |
| `Taskmaster` | the build engine: walk, tasks, serial and parallel jobs, signals; it implements `BuildOrder` |
| `Rebuild` | signatures, database and cache over a sequence of builds, edits, failures and kills |
| `MCAtomicSwap`, `MCSwapContract`, `MCTaskmaster`, `MCRebuild` | values for TLC |
| `AtomicSwap_proofs` | type correctness, structure and safety of the swap, and that it implements `Escrow`, for all constants |
| `SwapContract_proofs` | the bytes of a contract, there and back, and what its spends carry and pay, for any lengths |
| `TcpServer_proofs` | the server's sockets, answers and signals, for any number of clients |
| `Taskmaster_proofs` | type correctness of the build engine; each task is in one place; commands with a common side effect never run together |
| `Order_proofs` | commands run after all they need; the build engine implements `BuildOrder` |
| `Walk_proofs` | the walk forgets nothing: counts, cycles, success, and what `-k` goes on with |
| `Rebuild_proofs` | what a build leaves, over any number of builds |

`Taskmaster` starts from a project, which `Rebuild` could supply (a node is
`stale` there if `Rebuild` decides to build it). They are kept apart: `Rebuild`
lets the build take any order that `BuildOrder` allows, so that its results do
not depend on the engine's walk, and the engine's do not depend on why a node is
out of date.

### How `AtomicSwap` corresponds to the code

A lock transaction `t \in Tx` is one call of `Initiate` or `Participate`. Each
`Initiate` draws a new secret (`RAND_bytes`), so secrets are named by the
transaction that introduced them: `hash[t] = t` for the initiator's contracts,
`hash[t] = a` for a participant's contract with the hash of `a`.

| variable | in the program |
|---|---|
| `now` | time of the chains; a daemon's `time(NULL)` is `now + Skew[p]` |
| `made`, `hash`, `lock` | contracts built, and the two fields of the script that matter |
| `funded` | contracts the node has sent coins to |
| `contracts`, `secrets` | what answers showed to users (users exchange contracts and ids) |
| `broadcast`, `spent`, `spendTime` | spends the nodes accepted, the one confirmed, when |
| `job` | the one command a daemon is carrying out, and at which CallRPC call |
| `faults` | a counter that bounds what goes wrong |
| `unanswered` | history: the contracts whose `Initiate` or `Participate` was not answered |

The actions `Initiate` ... `ExtractSecret` are a user's request and everything the
handler does before its first call. `SendToAddress`, `GetRawTransaction`,
`DecodeRawTransaction`, `DumpPrivKey`, `SendRawTransaction` are the calls in the
handlers' order, each with the code between it and the next one;
`RefuseRawTransaction` is an error object in the reply. `CallRpcFails` is each
early `return false` of `CallRPC`, and the `lost` variants are calls that took
effect and whose reply did not arrive. `Answer` builds the JSON answer: the
contract and the secret are in it even when `result` is `failed`, because they
are assigned before the call (`atomicswap.cpp:63,91`). `AnswerLost` is the
answer that cannot be sent, because the client has left or `send` fails
(`jsonrpc_tcpserver.cpp:112`), and the daemon goes on; `Crash` loses the command
and the daemon's other state with it, of which there is none. Either way nothing
is stored, and the only copy of a contract and its secret is gone (`NoAnswer`).

`ExtractSecret` may be given any transaction that spends a contract, or the lock
transaction itself (`Kind`). What it takes for the secret is what stands in the
script there: the secret of the contract in a redemption, something else in the
others (`Carried`). The comparison with the hash the user gave
(`atomicswap.cpp:716`) is all that tells them apart. `secrets` therefore holds
pairs: for which hash a user was given a secret, and which secret it is
(`Given`).

That the offer is paid when the participant joins is a guard of `Participate`,
as its margin is: the program looks at neither, and a careful user does.

The refinement mapping (`Swap`) takes a contract for locked once it is paid, and
for claimed or given back as soon as a node has accepted the spend: the secret is
public from then on, whatever is confirmed. Time, calls and answers are hidden,
so that what `Escrow` asks of one contract about another has to follow from the
lock times and the users' margins, the only link between the two chains.

A node accepts a conflicting spend nondeterministically (whether it has seen the
first one differs between nodes); `Confirm` chooses the winner.

Time: the program compares no lock time with a clock. What users and nodes do in
time is therefore a constant of the model, and a deadline time does not pass:
`MaxHang` bounds how long a command's calls take, `Conf` how long a broadcast
spend takes to confirm, `React` how long the participant waits before it refunds
or redeems. `ParticipateMargin` and `RedeemMargin` are the time a careful user
insists on before it gives the command; 0 means a user that relies on the
program. Deadlines restrict only `Tick`; every action is possible at any time.

### How `TcpServer` corresponds to the code

`pc` is where the thread of `startserver` is inside one call of `WaitMessage`:

| action | in the program |
|---|---|
| `Start`, `Loop` | `g_run = 1`, `while (g_run)`, `Close` and the end of the process |
| `Poll`, `PollReturnsNothing` | the filling of `pfd`, and `poll` with or without an event |
| `Accept` | `Accept` in `WaitMessage`: the new client goes to the end of `m_clients` |
| `Scan` | one turn of the loop over `m_clients`: is its entry of `pfd` readable |
| `Recv`, `RecvFails` | `recv` with data, and with 0 or -1 (the client goes to `m_purge`) |
| `HandlerReturns` | the end of the command that `Process` runs for a request (`jsonrpc_tcpserver.cpp:98`) |
| `Send` | `Process` has an answer; the `send` loop of `Recv` |
| `Purge` | `close` of what is in `m_purge`, its removal from `m_clients` |

`clients`, `purge`, `pfd` and `run` are `m_clients`, `m_purge`, `pfd` and
`g_run`. `conn` is the kernel's table of descriptors, which gives out the lowest
free number, so that a number that is closed comes back soon. `Init` chooses how
many descriptors (`Fd`) the process may use, up to `MaxFd`. `Revents` says
what reading `pfd` past its end may find: anything, since the block comes from
`new[]`.

`stream[c]` is what has arrived on connection `c`, in units that the network or
the buffer's 1500 bytes keep apart. `Buf` is how many units one `recv` takes, so
`Buf = 2` lets two requests, or both halves of one, or a tail and the next head,
be parsed as one message. What `Process` does with a message is reduced to
whether its first value is complete, since that is what decides between a result
and a parse error. A request is handled in the same thread: the command runs to
its end, with all its calls to coin nodes, while `pc` is `"handle"`. A message
that does not parse is answered at once. `Window` says how many requests a client sends before it
waits for an answer: 1 for the clients of `testatomrpc`. `Split` is the set of
clients whose requests may arrive in pieces.

`link[c]` follows the connection: `fin` and `reset` are the two ways a client
leaves, and `broken` is a connection on which the next `send` raises `SIGPIPE`.

### How `SwapContract` corresponds to the code

`AtomicSwapContract` is the function of that name, with the push operators of
`CScript` (`Push`, `PushInt64`) and the script numbers of `CBigNum` (`ToInt`,
`Getvch`) under it. `Template` lists the comparisons of `ISAtomicSwap` in their
order: the first that fails decides, and `at()` throws when it is beyond the
end, which ends the daemon since nothing catches it. `ExtractAtomicSwapData`
takes the parts by offset, and `RefundLock` is the hex string, `strtol` and
`htonl` of `Refund`.

Bytes and opcodes have their real values. Hashes have `HashLen` bytes and ints
`Word`, 20 and 4 in the code; its literal offsets (23, 47, 49, 58, ...) are sums
of the two, so that TLC can use 2 and 2. A lock time of 2^15 then stands for
2^31. `Fund` is what `Initiate` and `Participate` do up to the payment, whose
failures are in `AtomicSwap`; the calls of `Redeem` and `Refund` are there too,
and reduced here to whether there is an output and a key (`Payable`).

A transaction is its inputs, outputs and `nLockTime`. `Sign(key, script, tx, i)`
is the key with all that `SignatureHash` puts into the hash: the transaction
without scripts, except the contract in the input being signed. A secret is
named by its hash; the user may give `Redeem` any (`Secret`), since the program
does not compare it with the contract (`atomicswap.cpp:376`), and a redemption
satisfies the script only with the right one. Amounts are counted in parts of
`1 / COIN`, and the value of an output is a double cut to an integer
(`atomicswap.cpp:341`, `568`), which may lose one part (`Cut`): 0.29 coins pay one
part less than 0.29 coins. `RedeemBitcoin` is `Redeem` up to the branch for cfos, `AddFee`
that branch with whatever `listunspent` answers (`Unspents`), `Refunds` what
`Refund` sends, whose fee is read uninitialised for cfos (`Garbage`), and
`ExtractSecret` the word of the script it takes for the secret, when there is
one input. `redeems` and `refunds` are what was sent, each with the contract it
spends.

### How `BuildOrder` and `Taskmaster` correspond to the code

`BuildOrder` is no program: it says what any order of commands has to keep to.
A node is idle, running, built or failed. `Start` needs everything the command
needs built and nothing running that writes what it writes; `Build` and `Fail`
are final.

`Taskmaster` starts from a project, what an SConstruct and the command line come
to: sources (`kids`), what scanners find in files once they are made (`incl`),
targets that share a command (`group`), side effects (`se`), what is out of date
(`stale`), what such a file may be read to include before it is rebuilt (`old`),
where something goes wrong (`bad`), and the options. `WellFormed` is
what `Environment` makes sure of.

| variable | in the program |
|---|---|
| `state`, `waitingParents`, `waitingSE`, `refCount` | `Node.state`, `waiting_parents`, `waiting_s_e`, `ref_count` |
| `scanned`, `implicit` | `implicit is not None`, `implicit` |
| `candidates`, `topsLeft`, `currentTop`, `pendingChildren` | `candidates`, `top`, `current_top`, `pending_children` |
| `stopped` | `next_candidate` and `will_not_build` after `stop()` |
| `pc`, `task`, `jobs` | where `start()` of `Serial` or `Parallel` is, its task, its count |
| `requests`, `results`, `worker` | the two queues of `ThreadPool`, what each `Worker` builds |
| `interrupted`, `status` | `InterruptState`, how `do_failed` and `cleanup` end the build |

| action | in the program |
|---|---|
| `NoCandidate`, `SkipHandled`, `Visit...` | one turn each of the loop of `_find_next_ready_node`, by the way it leaves it: nothing to look at, handled before, a failed child, children to wait for, a side effect under construction, ready, a scanner that raises |
| `Prepare` | `prepare()`, and all that follows for a task that has no command to run or does not get to it |
| `Dispatch`, `Execute` | a command given to the pool; run by the main thread without `-j` |
| `WorkerTake`, `WorkerFinish` | `Worker.run`: a task taken, refused after a signal; its end |
| `GetResult` | the inner loop of `Parallel.start`, `executed` or `failed`, `postprocess` |
| `Interrupt` | the signal handlers: `stop()` and `interrupted.set()` |
| `Cleanup` | the sentinels of `ThreadPool.cleanup`, `Taskmaster.cleanup` |

`Executed`, `Failed` and `Postprocess` put together what `executed`, `failed` and
`postprocess` do one after the other; each field has an operator of its own
(`ExecutedState`, `FailedState`, `FlushedParents`, `FlushedCount`, `Freed`). The
loops over sets are in any order, since Python's sets have none, and so are
children, since `--random` shuffles them.

The refinement mapping (`Order`) takes a node for running while its command is
held, queued, run or has a result waiting, and for built once the main thread
has let go of it. `Needs` is what a node is built from when all files have their
final contents, which the engine only learns by scanning again; `MayNeed` has
the old contents as well.

A scanner asks `is_up_to_date()` before it reads a generated file
(`Scanner/__init__.py:300-311`), or does not ask. A file that is out of date only
because a source of its own is still to be rebuilt looks current then, and is
read with what it included before. `Shows` has all of it: `seen` is the set of
files that are read too early, and `read` what is found in one that a command is
writing. `Readings` are the possible scans, of which `Scan` takes any. What the
engine finds this way it waits for, and its parents fail with it, although
nothing in the final files asks for it. It is a cost and no error of the walk, so
the properties count it: a cycle through old includes is one (`OnCycle`), what
fails may be needed by what files used to include (`Reach`). A node that old
contents make look as if it needed more is `Clouded`. `-k` may give it up because
of an old include while its command runs or after it has run, and the result of
the command, or a second one, brings it back. `BuildOrder` therefore lets a
clouded node fail through what it was seen to need, and go back; of all others it
asks what it says.

### How `Rebuild` corresponds to the code

Contents stand for their MD5 signatures. `db` is the database file (`NoFile`
between `unlink` and `rename`), `entries` the signatures in memory, `csig` the
content signatures taken in this build (`get_csig` keeps the first), `cache` the
cache directory, and `at[t]` how far the task of `t` is.

| action | in the program |
|---|---|
| `Edit`, `EditCommand`, `Remove` | the user, at any time in the modes that allow it |
| `Start` | `dblite.open`, a new process |
| `DecideCurrent`, `DecideBuild` | `is_up_to_date`, `changed`, `changed_content`; `prepare` removes the target |
| `WriteSome` | the target is there in part: the copy in `CacheRetrieveFunc`, or the command |
| `Retrieve` | the end of that copy |
| `WriteRest`, `CommandFails` | the end of the command, external |
| `Executed` | `push_to_cache`, `built`, `store_info`, `release_target_info` |
| `Interrupt`, `Kill` | `stop()`; the end of the process |
| `Unlink`, `Rename` | `SConsign.write`, `dblite.sync` |

## Runs

### The swap

All clocks start at 0, `Initiate` happens at 0 (`LastInitiate`), and the lock
durations are 8 and 4 units: the proportion 48:24 of the code, with one unit for
a handler and one for a confirmation, so that both lock times, the moments just
before and after them, and the spends that follow are inside `MaxTime = 9`. The
clock stops there, which is why the configurations set `CHECK_DEADLOCK FALSE`.
Two lock transactions are one swap, or two attempts of the initiator's; what
happens over more of them is proved (below). They are symmetric, and the runs use
that.

| run | constants that matter | shows |
|---|---|---|
| `SwapDiligent` | margins 7 and 3, one fault: a failed call, a lost reply, a lost answer or a crash | `TypeOK`; `NoRace`: no contract is asked for both a redemption and a refund; `ParticipantSafe`, `InitiatorSafe`; `SecretFromRedemption`; `FundedContractTold`: a paid contract is told, unless the daemon crashed in this very command or this very answer was lost; `ImplementsEscrow`: it implements `Escrow` |
| `SwapLateParticipate` | participant's margin 0 | a violation of `ParticipantSafe`: finding 1 |

That each user's safety rests on its own margin alone is what the theorems
`ParticipantCorrect` and `InitiatorCorrect` say; `SecretCorrect` and
`ContractsTold` cover retries with any number of secrets and contracts.

### The server

| run | constants that matter | shows |
|---|---|---|
| `Server` | two clients, one of them in `Split`; one or two descriptors; window 1; fairness | `TypeOK`; `SocketsTracked`, `OneResultEach`, `SurvivesSend`; if handlers return, `ClientsServed`, `SocketsFreed`, `StopsOnSignal`, also when `accept` fails for lack of a descriptor |
| `ServerSilentClient` | fairness of the daemon alone | a violation of `WaitReturns`: finding 2 |

Two connections are enough for one client to keep another waiting, and, with one
descriptor, for the second to get the number the first has freed; the safety
properties are proved for any number. `MaxRequests = 2` lets a client ask again
after an answer, and a second answer meet a connection that broke on the first.
The configurations set `CHECK_DEADLOCK FALSE`: the daemon may have stopped, and a client that has
left sends nothing more.

`OneResultEach` holds for clients that wait for each answer (`Window = 1`) and
requests that arrive whole. With `Window = 2` a request that arrives in the same
`recv` as the one before it is dropped without an answer, since the parser
ignores what follows the first value; for a client in `Split` each piece of a
request is answered with a parse error. That makes two answers to one request,
so that such a client can end the daemon by leaving: the second answer raises
`SIGPIPE` (`jsonrpc_tcpserver.cpp:115`). `SurvivesSend` says that nobody else
can. It rests on the window as well, since a client that sends two requests and
leaves has the same effect, but no client of the repository does.

`ServerFair` is weak fairness of the one thread: it runs whenever it is not
blocked in `poll` or `recv`, or in a handler. That a handler ends is not part of
it, since the code does not see to it: a command waits for coin nodes in
`CallRPC`, which has no timeout (`rpccall.h:277-284`). One silent node keeps every
client waiting, no descriptor is freed meanwhile, and a signal only clears
`g_run`. So the liveness properties are promised under `HandlersReturn`, the
condition that no command stays in its handler for ever, which each of them
names; without it they fail. `ClientFair` says that a client that is not waiting
for an answer sends the rest of its request, asks or leaves, as the clients of
`testatomrpc` do, which send one request and exit. Without it the thread may wait
for ever in `recv`, which is finding 2. Signals and new connections are not fair.

### The contract

| run | shows |
|---|---|
| `ContractEdges` | `TypeOK`; `TakenApart`, `RefundFinal`: the bytes; `SpendsValid`, `SecretShown`: the transactions; `WholeContractsHarmless` |
| `CfosRedeem` | a violation of `RedeemedAsDocumented`: finding 3 |

`ContractEdges` has a clock at every change of the lock time's encoding (single
opcodes, one byte, two, the sign bit, the end of an int, of an unsigned one, and
beyond), hashes of 0 to 4 and of 76 bytes, keys and hashes whose bytes are the
script's own opcodes, and amounts at and just above the fee. Users hand in
contracts that are whole, cut anywhere, or longer, and secrets that match or do
not. One contract and one spend (`MaxContracts`, `MaxSpends`) are enough, since no
spend depends on another; the theorems have any number.
`SpendsValid` speaks of amounts above the fee: below it `Redeem` and `Refund`
build an output of negative value, of which nothing in the repository speaks.
`RefundFinal` speaks of lock
times that fit an int: from 2038 on `CBigNum(int)` cuts them, and most contracts
would get a negative lock that no refund satisfies. The configuration sets
`CHECK_DEADLOCK FALSE` since a cut contract may have ended the daemon.

### The build engine

| run | projects | shows |
|---|---|---|
| `SconsBuild` | 1228, below | `TypeOK`; `SuccessMeansBuilt`, `RunsAfterNeeds`, `SideEffectsApart`, `WaitCounts`, `OnlyCyclesReported`, `KeepGoingBuildsRest`; `ImplementsOrder`: it implements `BuildOrder`; `Terminates` |
| `SconsOldIncludes` | 576, below | `SuccessMeansBuilt`, `RunsAfterNeeds`, `OnlyCyclesReported`, `KeepGoingBuildsRest`, `ImplementsOrder` when old contents are read |
| `SconsSideEffect` | one, `-j2` | a violation of `SuccessMeansBuilt`: finding 4 |
| `SconsKeepSideEffect` | one, `-k -j2` | a violation of `CommandsApart`: finding 5 |
| `SconsKeepCycle` | one, `-k -j2` | a violation of `OnlyCyclesReported`: finding 6 |

The projects of `SconsBuild` have four nodes and two workers. They are all
graphs on three nodes, cycles and self-loops among them; all acyclic ones with
one failing command and each policy; headers that include each other and are
generated or not, stale or not; a command with two targets, one of which may
need the other; two commands with a side effect in common, one of which may
fail; three targets asked for with every kind of trouble at one node; and more
to build at once than there are workers; and a target that is asked for, found
up to date, and then waited for by another. Each is built once, serially or in
parallel, with a signal at any time. Two workers and three ready commands are
enough for every state of the two queues relative to the main thread; the
fourth node is needed for a header of a generated header and for a side effect
next to two commands and what needs them. `CHECK_DEADLOCK FALSE`: builds end.

In the projects of `SconsBuild` nothing is read early (`old` is empty). In those of
`SconsOldIncludes` `a` is built from `b`, which used to include `d` and is rebuilt
to include nothing, `d` still, or `c`; `d` fails or not, and `b`, `d` and `c` may
themselves be built from `c` and `a`, so that what is read early is an ordinary
node, a failure, or a cycle that only old contents have. Policies stop and `-k`,
one and two workers, one target or two. Two restrictions remain. Asking
`is_up_to_date()` of a file makes the engine scan that file's own sources at that
moment, so that it may itself be scanned too early and miss an include of a
source that is generated; and a file that is up to date may look out of date
while its sources are being written, and show nothing. Both are left out.

What the violating runs show is left out of `BuildProjects`: a node that needs a
side effect and is asked for while its command may run, side effects under `-k`,
and, under `-k`, a file that turns out to include a failed one.
`SideEffectsApart` says the same of `-k` in its own terms
(`Undisturbed`), and is proved with it. Under `-i` a check that raises
(`Fails(n, "ready")`) leaves its node pending, so that what needs it waits in
vain; under `-i` a scanner that raises gives back side effects that another
command holds. Neither is documented otherwise, and both are left out too.
`WaitCounts` is what `_validate_pending_children` would assert where the code
leaves its calls commented out (`Taskmaster.py:778,922`); it is not asked between
the walk and `make_ready`, when the node in hand is no longer waiting.
`KeepGoingBuildsRest` speaks of what the walk comes to (`Sought`), cycles included:
what stays unbuilt because of one, and not of a failure, makes the build report it.

`FairSpec` is weak fairness of the main thread and of each worker: Python runs
every thread that is not blocked, and commands are taken to end. Signals are not
fair.

### Builds one after the other

| run | modes | shows |
|---|---|---|
| `SconsRebuild` | edits during builds with failures and kills; a cache with failures and kills; a cache with versions that come back | `TypeOK`; `SettledIsClean`, `CacheTrue`, `NothingBuiltTwice`, `Settles` |

A program of a generated file and a header: two sources, two targets one above
the other, which is the least in which a stale signature can travel. Two edits
and two kills, failures or signals in all (`MaxEdits`, `MaxTrouble`) at any step,
and three versions, allow an edit undone, a kill during the build that follows a
kill, and a target edited past a failed build. Edits that come back are kept
apart from kills, since a half-written target next to signatures that match
again is taken for built (below), and edits during a build from the cache
because an edit between signature and command makes a false entry
(`CacheDir.py:73`), which the program does not claim to prevent.

`FairSpec` says that the user builds again and that commands end: `WF_vars(Build)`.
Edits, failures, signals and kills are bounded and not fair.

### Findings

1. `Participate` takes its lock time from its own clock and never looks at the
   initiator's contract (`atomicswap.cpp:170`). A participant that joins after
   24 of the 48 hours has the later lock, and can lose its coins. There is no
   audit command. The introduction of `Atom跨链交易.docx` says the tool protects
   against a party that does not honour the trade.
2. The loop over `m_clients` visits the client that `Accept` has just appended
   and reads `pfd` past its end (`jsonrpc_tcpserver.cpp:164-176`). If what it
   reads says readable, `recv` waits for the new client, and everyone for
   `recv`. The header promises that `WaitMessage` waits `ms` at most.
3. For cfos the signature of the fee replaces the contract's own input
   (`atomicswap.cpp:443`): no cfos contract can be redeemed. The docs say what a
   redemption carries.
4. With `-j2` a node that finds a side effect of a running command under
   construction waits for it in vain: the side effect is given back before
   `postprocess` looks for who waits (`Taskmaster.py:299`, `467`). The build ends
   with success and without the node.
5. With `-k` a failure gives up a side effect that a running command is writing
   (`Taskmaster.py:367`), so that a second command that writes it starts beside
   the first, which `CHANGES.txt` rules out.
6. With `-k` a node that is looked at again and has a failed child by then fails,
   and nobody who waits for it is told (`Taskmaster.py:871`). It stays among the
   pending children, and `cleanup` ends a build of an acyclic project with
   "Found dependency cycle(s): Internal Error: no cycle found". The comment on
   the pending children (`Taskmaster.py:711`) says that only cycles are left
   there.

Seen while modelling and not run, since nothing in the repository says
otherwise: `Redeem` reads the lock time only to print it (`atomicswap.cpp:265`),
and with `RedeemMargin = 0` `InitiatorSafe` fails; a side effect that waits and
is given up with a failed command is given back, no longer failed, by the next
command that writes it (`Taskmaster.py:300`), which `ImplementsOrder`
would show; the fee of a cfos redemption
is an integer division that gives 0 (`:398`), and that of a cfos refund is
uninitialised (`:557`); a build that is killed, or fails, after its command or a
copy from the cache wrote part of a target leaves the old signatures, and if they
match again the next build takes the partial target for up to date, because
`is_up_to_date` compares signatures only (`Node/FS.py:3101`).

## Proofs

The proofs hold for every value of the constants, under the assumptions named in
the modules: `DurationAssumption` and `SkewAssumption` (`AtomicSwap`),
`ServerAssumption` (`TcpServer`), `ContractAssumption` (`SwapContract`: hashes and
ints of at most 75 bytes, what a push opcode can say, and secret hashes that fit
a request), `NodeAssumption`, `NamesAssumption` and
`ProjectAssumption` (`Taskmaster`: finitely many nodes and workers, and projects
that are well-formed), `FilesAssumption`, `BoundAssumption` and
`AcyclicAssumption` (`Rebuild`: finitely many files, and no cycle among targets,
which would end a build before it starts any of them).

### The swap

Type correctness and the safety properties are proved for every set `Tx`, every
duration, skew and bound.

- `TypeCorrect`: `Spec => []TypeOK`, action by action. `SkewAssumption` is used
  for the sign of a lock time only.
- `StructCorrect` (lemma): `StructInv`, how the commands in progress, the
  contracts and the spends fit together: what is paid or shown was built, a
  command works on a contract its user knows, a spend satisfied its script.
- `SecretCorrect`: `Spec => []SecretFromRedemption`. Not inductive alone:
  `SecretInv` adds what a running `extractsecret` has compared, whatever
  transaction it was given, and what a running redemption of an initiator's
  contract carries.
- `ParticipantCorrect`: `ParticipantTimely` implies `Spec => []ParticipantSafe`, where

      ParticipateLock + Skew["participant"] + 2*React + 2*Conf < ParticipateMargin
      MaxHang <= ParticipateLock + Skew["participant"] + React

  The invariant chains the deadlines: the participant's lock ends early enough
  before the initiator's (`Ordered`), its contract is spent soon after its lock
  (`SpentSoon`), and its redemption follows the initiator's soon enough
  (`RedeemedSoon`) to be confirmed before the initiator's lock ends.
- `InitiatorCorrect`: `InitiatorTimely`, `MaxHang + Conf < RedeemMargin`, implies
  `Spec => []InitiatorSafe`: a redemption is sent and confirmed before the
  participant's lock ends (`RedeemedEarly`).
- `RaceFree`: both conditions imply `Spec => []NoRace`.
- `EscrowImplemented`: both conditions imply `Spec => ImplementsEscrow`. Only
  the answer of `sendtoaddress` and an accepted spend are steps of the escrow.
  `SendAllowed` has what the second needs: the contract has no other spend
  (`RedeemedEarly` in the next state); a counter is claimed before its own lock
  time, so that the offer cannot have been given back (`Ordered`); an offer is
  claimed with a secret some redemption revealed (`SecretInv`); and it is not
  given back once a counter is claimed, since until its lock time the
  participant has redeemed it (`NotYet`). A counter answers an offer that is paid
  (`Countered`).
- `SwapAtomic`: both conditions imply `Spec => []Swap!Atomic`, which every escrow
  has (`AtomicStep`). With `StructInv` the confirmed spend of a contract is the
  one it is claimed or given back with, so that `ParticipantSafe`,
  `InitiatorSafe` and `NoRace` are what it says of the chains.
- `ContractsTold`: `Spec => []FundedContractTold`. A command that pays a contract
  keeps it until it ends (`Locks`); it ends with an answer that has the contract,
  or with none, and then the contract is in `unanswered` (`ToldStep`). No other
  crash or lost answer takes a contract from its user, however many there are.

With the code's 48 and 24 hours and clocks that agree, the first condition says
that a participant has to join within 24 hours less two reactions and two
confirmations, which nothing in the program tells it.

### The contract

`SwapContract_proofs` has the theorems for every `HashLen`, `Word`, hash, key and
clock, so that they hold of the 20 and 4 bytes of the code, where TLC has 2 and 2.

- Numbers. `Power`, and the sum in `Value`, are recursive functions; that they
  have the values their definitions say (`Recursion`, `PowerIs`, `SumsAre`) and
  what they are bounded by is shown by the least number for which it would fail
  (`Smallest`). `ValueOfDigits`: bytes that are the digits of a number stand for
  it. `GetvchValue`: a number that is not negative is read as it was written,
  also when a zero byte keeps its top bit from being the sign.
- Layout. `Layout` says at which offset each of the ten parts of a script is,
  whatever the lengths of its two variable pushes. `FirstParts` and `LastParts`
  give these offsets their names and compare them with `Template`.
- `WholeContract` (lemma): a script that `AtomicSwapContract` wrote is recognised
  if and only if its hash has `HashLen` bytes and its lock time is pushed with
  `Word` (`Fits`), and is then taken apart into what it was made of. Otherwise the
  first comparison that fails is the one with the length byte of the hash or of
  the lock time, and both are inside the script: `at()` never throws.
- `TypesAlways`, `TakenApartAlways`, `RefundFinalAlways`, `SpendsValidAlways`,
  `SecretShownAlways`: `Spec => []...`, from `IInv`: what is funded was made by
  `Fund` (`Made`), and what was sent is a redemption or refund of a funded contract
  with the data the contract was made of. That is why a redemption, which takes
  its data from the bytes a user hands in, satisfies the script, if the secret
  that the user gave along with them is the contract's; and it does not if it is
  another (`SpendsValid` has both). A signature stays
  good when the scripts of the transaction are filled in (`SameHash`).
  `WordLockBytes` shows that the lock times of `TakenApart`, from 2^23 to 2^31 - 1
  in the code, are among those of `Fits`.
- `WholeContractsHarmlessAlways`: `Spec => WholeContractsHarmless`.

### The server

- `TypesAlways`, `SocketsTrackedAlways`: `Spec => []TypeOK` and
  `Spec => []SocketsTracked`, for any number of clients and descriptors. The
  invariant is `ServerInv`: both of them and `Rounds`, what one round of
  `WaitMessage` keeps to. A round purges only clients that the loop over
  `m_clients` has passed (else `Recv` would use a descriptor that is closed
  already, or the next client's), the list is purged before the next `poll`, and
  `accept` is called only when there is a connection to accept. A new connection
  gets the lowest free number, which nothing in `m_clients` can have, since the
  list is exactly the open descriptors.
- `OneResultEachAlways`, `SurvivesSendAlways`: `OneAtATime`, `Window <= 1`,
  implies `Spec => []OneResultEach` and `Spec => []SurvivesSend`. `LockStep`
  keeps, for each client whose requests arrive whole, how many it has sent and
  how many results it has in step (`Agree`), with at most one request under way,
  and says that a connection on which the next `send` would raise `SIGPIPE` has
  nothing left to answer. Other clients may be in `Split`, send anything and
  leave at any time.

### The build engine

- `TypesAlways`: `Spec => []TypeOK`. That `jobs` never exceeds `-j` nor falls
  below 0 needs `TInv`: outside the end of the build `jobs` is the length of both
  queues and the number of busy workers (`JobsCounted`), the walk goes on only
  while there is room (`TurnsKept`), and what is under way is under a target
  (`TopKnown`), which `BuildTask.do_failed` relies on.
- `PoolInv` (lemma): a task is in one place, in the main thread's hand, in a
  queue, or with a worker (`OnceEach`), and a bad result has a reason
  (`FailuresExplained`).
- `SideEffectsApartAlways`: `Spec => []SideEffectsApart`. The engine keeps
  commands apart only through node states, so `CInv` says that until the walk is
  stopped all that a command under way writes is marked `EXECUTING` (`Marked`),
  and that after that nothing new starts but what the main thread holds
  (`HeldApart`). The marks survive failures only under `Undisturbed`; finding 5
  is the step that fails without it.
- `RunsAfterNeedsAlways`: `Spec /\ IncludesKept => []RunsAfterNeeds`.
  `IncludesKept` says that what a file is read to include before it is rebuilt it
  includes afterwards too: scans may still come too early, at any file and in any
  order, and find all, some or none of it. Where rebuilt files drop includes there
  is only the run `SconsOldIncludes`. What a
  command needs includes what scanners find only once generated files are made,
  and the engine scans before that. `OInv` says why it notices: a target that
  counts as scanned has in its implicit dependencies all that a scan would find
  now for sure (`ScansFresh`; `Sure` is what every scanner sees, while `Scan` may
  find more), since it waits for every child that is not settled
  (`ScansWatched`), and whoever waits scans again when the child is built;
  `ImplicitNeeded` and `UpToDateShows` bound what a scan can find, `Waiting` keeps
  the watchers honest, `GroupsTogether` carries this over the targets of one
  command, and `SettledKids` over sources without a builder. When
  all children are settled, `Found` is closed under what files really include,
  and so contains `Needs`. A failure under `-k` is the hard case: `will_not_build`
  forgets the lists of waiting nodes of what it gives up, and may give up one of
  several targets of a command, so that a failed node is watched by nobody and
  the states no longer tell that its command must not run. What still holds is
  that such nodes keep each other from being built: every failed node is in a
  set that contains the other targets of its members' commands and in which each
  member raises when it is checked, belongs to a command that failed as a whole,
  or is made from another member (`Barred`, `GivenUp`, `FailedGivenUp`). A step
  may add to such a set but not take a node out of it (`GivenUpStays`), and no
  node in one is found ready unless its check raises (`TakenNotGivenUp`).

- `OrderImplemented`: `Spec /\ Orderly /\ IncludesKept => ImplementsOrder`.
  Each step of the engine is one of `BuildOrder` or none that it sees. `Start`
  needs `NeedsSettled` and, for what else is running, `CInv`; `Build` needs that
  the task in the main thread's hand needs nothing unbuilt (`HeldNeeds`); `Fail`
  needs that whatever `will_not_build` gives up waits for something given up
  that it needs (`DoomedReason`). `Orderly` leaves out side effects next to
  failures that stay: there a failure can be taken back (see above), which
  `BuildOrder` rules out. Without side effects it holds for every failure and
  policy. With `IncludesKept` no node is clouded, so that the steps `BuildOrder`
  allows such nodes do not occur.

- `WaitCountsAlways`, `OnlyCyclesReportedAlways`:
  `Spec /\ IncludesKept => [](Traced => ...)`; `SuccessMeansBuiltAlways`,
  `BuiltFromBuilt`: `... => [](Walked /\ ScansTrusted => ...)`;
  `KeepGoingBuildsRestAlways`: `... => [](Walked => ...)`. `BuiltFromBuilt` says
  that, as long as the build has not failed, what the engine takes for built or
  up to date is made from nodes that are. All five are about what
  the walk could forget: a node that waits is counted down once for each node it
  waits for, and looked at again when the count is 0. `WInv` is the bookkeeping
  that makes this true: counts are the numbers of waiting lists a node is in
  (`Counts`), each pending child is in the hand of the main thread, executing, or
  awaited (`PendingAwaited`), what executes is a task's (`ExecutingOwned`), what
  is done has nobody waiting (`NotWaiting`), a node is not done only for a reason
  (`Reasons`), every target asked for has been looked at or will be (`TopsSeen`),
  and so have the children of what was scanned (`KidsSeen`), and what is done is
  made from what is done (`NothingLeft`). At the end of the loop no task is out
  (`Gone`), so that pending children that are left wait for each other
  (`CyclesSeen`). That there is a cycle then takes an argument about finite sets
  (`CycleFound`): among the nodes that are left, one with the least closure of
  needs is in its own closure. `Outcome` ties the status of the build to what
  failed.

  With `-k` a failure does not end the walk, and what needs the failed node is
  given up or still waits: a node is `Lost` when something it is made from has
  failed, and the reasons above hold of all that is not lost. A node fails only
  if it, or something below it, may fail, or the build was interrupted
  (`Explained`). `KeepGoingBuildsRest` then
  follows at the end (`RestBuilt`): what was sought has been looked at, so a node
  that is not done is lost, and above one that may fail, or it is among those
  that wait for each other, and its build ends with a cycle reported.

  `Walked` leaves out what is known to go wrong:
  side effects that are sources (finding 4), a failure or a signal that ends the
  walk while side effects are held, and, under `-i`, a check that raises, which
  leaves its node pending. Failures that stop the build, those that do not under `-k`,
  ignored ones, signals under every policy, cycles, generated headers and
  commands with several targets are all in. `Traced` is `Walked` until something
  has failed under `-k`, since such a node may stay among the pending children
  (finding 6). `SuccessMeansBuilt` also needs `ScansTrusted`, since under `-i` a
  scanner that raises makes its node look built whatever its sources.

### Builds one after the other

- `NothingBuiltTwiceAlways`: `Spec => NothingBuiltTwice`, in every mode. `KnownInv`
  has the phases of a build, which signatures are taken when (`SignaturesTaken`,
  and in a build without edits they are those of the files, `CalmSignatures`),
  and what is stored when a target is done (`EndedStored`). `SettledStored` says
  that after a good build the database has of each target what the files would
  give, until something is edited.
- `CacheTrueAlways`: `Spec => [](CacheQuiet => CacheTrue)`. While nothing is
  edited during builds that share a cache (`CacheQuiet`), a command makes what
  its signatures say (`CalmWritten`), and so does what it pushes. With such
  edits it is false (`CacheDir.py:73`), as TLC shows in two steps of the user; nothing
  in the repository says that it should hold then.
- `TypesSteady`, `SettledIsCleanSteady`: `Spec => [](Steady => ...)`, where `Steady`
  is `CacheQuiet` and that, where versions come back, nothing fails and nothing
  is edited during a build. That a good build leaves what a clean one would has
  two different reasons. Where versions come back, what is stored of a target
  is what its file holds (`StoredOnDisk`). Where they only grow, a build may be
  killed anywhere, and an old signature stays next to a half-written file; but
  it can match again only if nothing it was built from has changed since
  (`GrowthInv`: what is stored of a target lies between the oldest and the
  newest contents this build can give it, `Older`, `Least`, `Newest`). With both a
  half-written target may be kept, as said under the findings.
  `Clean` is a recursive function over the project;
  that it has one value takes `AcyclicAssumption` (`Agreeing`, by a minimal file
  on which two would differ).

### Model-checked only

Every invariant of the passing runs is a theorem. What a theorem leaves out and a
run has: `SettledIsClean`, `CacheTrue` and `TypeOK` of `Rebuild` in the modes that
the theorems except; after a failure under `-k`, `WaitCounts` and `OnlyCyclesReported`
where it does no harm; of projects with side effects and failures, `ImplementsOrder`; and the build
engine where rebuilt files drop what they included (`SconsOldIncludes`). That
cfos redemptions are not what the docs say (finding 3) is a run only. Liveness
under fairness (`ClientsServed`, `SocketsFreed`,
`StopsOnSignal`, `Terminates`, `Settles`, and that finding 2 is a violation of
`WaitReturns`) is out of the prover's reach.

## Not modelled

The components table of `PROJECT.json` has the reason for each part.

- The JSON-RPC handler is a lookup in a list that does not change while the
  daemon runs; what it does to the server, an answer or none, is in `TcpServer`.
- The library's TCP, UDP and HTTP clients and the UDP server are not part of the
  daemon. The HTTP client with its threads and its queue of replies is compiled
  only with `CURL_ENABLED_H`, which no build file defines. Netstrings are a pure
  function that the daemon does not use.
- What coin nodes do with amounts given as doubles, base58, keys, the byte layout
  of transactions, HTTP and JSON syntax, logging and settings; chain reorganisations.
- jsoncpp and json_spirit: parsers.
- Of SCons: reading SConstruct files, environments, substitution, builders,
  scanners, tools, the file system's nodes and configure checks. They are by far
  the most of the Python in the repository, and turn strings into the graph that
  `Taskmaster` starts from; their state does not change once a build runs. Of the
  build engine: the scan that asking whether a file is current starts, batches,
  `--implicit-cache`, `-n` and `-c`, nodes made while the
  build runs, statistics and traces. Of the signatures: deciders by timestamp,
  `max_drift`, merging signatures of several processes, `--cache-force`.

## Plan

What is left: `Rebuild` with deciders by timestamp and `max_drift`.
