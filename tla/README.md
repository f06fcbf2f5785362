# btx in TLA+

btx (`src/src/*.rs`) is a small UTXO block chain in Rust: blocks and transactions, an indexer that
keeps a chain in LevelDB and in append-only data files, a pool of transactions, a publish/subscribe
helper, accounts, scripts, hashes. This directory holds TLA+ models of its stateful core and of the
algorithms it rests on, the TLC configurations that check them on small instances, and proofs of
their main safety properties for every instance.

    tlc -workers 2 -config MCStore.cfg MCStore      # a run: see "Runs"
    tlapm LedgerProofs.tla                          # a proof module: see "Proofs"

`PROJECT.json` lists runs, properties, findings, hazards and theorems, and maps each definition to the
lines of the source it models. A definition commented "mutant of X" is X with one plausible bug. It
is used by no specification; it is there to show that the property it is listed with can fail.

## 1. The system

| Component (source) | State it keeps | Operations | Who uses it |
|---|---|---|---|
| Data store (`store.rs`) | numbered files, highest number, a bounded vector of open handles | `push`, `pull`/`read`, `Store::new` | the indexer has two: block data and undo data |
| LevelDB wrapper, `IBatch` (`leveldb.rs`) | key/value pairs; a batch and its inverse | `get`, `has`, `write`, iteration | the indexer |
| Blocks, transactions (`block.rs`, `consts.rs`) | none | `check_value`, `check_coinbase`, `check_rep_cost_coin`, ids | everything |
| Transaction pool (`TxPool`, `index.rs`) | ids; lists of transactions by fee | `push`, `remove`, `is_cost_coin` | the indexer |
| Block indexer (`BlkIndexer`, `index.rs`) | the database, two stores, block cache, pool, configured genesis | `link`, `pop`, `append`, `remove`, `get`, `load`, `next`, `set_genesis_id`, `new` | `Chain` |
| Block cache (`BlkCache`) | an LRU of blocks | `put`, `get`, `pop` | the indexer |
| Chain (`Chain`, `index.rs`) | an `RwLock` around the indexer, a listener | all of the above under the lock; listeners after it | the program |
| Builders (`BlkHelper`, `TxHelper`, `create_block`) | a block under construction | selection from the pool, coinbase, signing | the program, under the write lock |
| Publish/subscribe (`pubsub.rs`) | channels of subscriptions: backlog, running flag, function; a thread pool | `subscribe`, `lazy_subscribe`, `activate`, `cancel`, `notify`, `notify_others` | any thread |
| Accounts (`account.rs`), pools of accounts (`accpool.rs`) | keys, signatures | `verify_full`, addresses | scripts, signers |
| Script (`script.rs`) | a stack, for one evaluation | `exec` | `check_tx_sign` |
| Merkle tree, hashes, difficulty (`merkle.rs`, `hasher.rs`) | none | root, extraction, compact numbers, `compute_bits` | blocks |
| Encoding, keys, configuration, errors | none | | everything |

**How they interact.** The program calls `Chain`, which takes the lock and calls `BlkIndexer`. `link`
checks a block (value, parent, difficulty, amounts, signatures) against the database and the cache,
pushes the block's bytes to the first store and its undo batch to the second, writes one LevelDB
batch (best block, height key, block attributes with the two positions, transaction entries, coins)
and removes the block's transactions from the pool. `pop` reads the block and its undo batch back and
writes that batch. `append` runs the amount and signature checks and pushes to the pool. After the
lock is released `Chain` calls its listener. PubSub is used beside it, with a thread pool of its own.

**What is hard, and what makes each part correct.**

- *Store*: the roll at the byte; a bounded set of handles; bytes left by writes that failed; a new
  process. Correct when a returned position refers for ever to the bytes pushed.
- *Indexer*: reorganisations (pops, then links of a sibling that shares transactions), each undone from
  a batch written when the chain was different; errors between two file writes and the batch, which no
  transaction spans; coins looked up in the database as it was before the block; maturity and
  halving boundaries; a cache that outlives what it caches. Correct when the database is at all times
  the index of one valid chain, and that chain can be undone to the bottom.
- *Pool*: conflicts through any input, two indexes, transactions that leave by `link`.
- *PubSub*: a flag cleared outside the lock that guards the backlog; activation, cancellation and panics
  at any point of a running job; jobs that take up threads while they wait for a mutex. Correct when
  messages are handed over in order, once, and none is forgotten.
- *Chain*: reads that take the lock twice, with pops and links in between; a `load` of attributes kept
  from before; listeners called after the lock, in any order, that call the chain themselves; a
  caller's closure, and a panic, under the write lock. Correct when an answer was true at some moment
  of the call, reports add up to the chain, and every call returns.
- *Scripts, accounts*: the input's script runs first, with anything in it, and leaves the lock its stack;
  signatures lose their places on the way through bytes and are matched to keys in one pass. Correct
  when what passes was signed by the owner, and what the owner signed passes.
- *Builders*: the size and the fees of a block are reckoned before its coinbase is known. Correct when
  what they build is what `link` accepts.
- *Merkle tree, compact numbers, script bytes, undo batches*: odd levels, sign bits, rounding, lengths cut
  short, two walks over the same bytes, a key deleted and put again.

The hazards are listed one by one, at their lines, in `PROJECT.json`.

## 2. Modules

    Blocks ── TxPool ──┐
                       ├── BlkIndexer ──┬── MCBlkIndexer      Ledger: what BlkIndexer implements
    Store ─────────────┘                └── Chain ── MCChain
      └── StoreClient ── MCStore                               PubSub ── MCPubSub

    Account ──┬── Exector ── MCExector
              └── Signing ──┐
    Merkle, Compact, ScriptBytes, IBatch, Builder ──┴── MCAlgorithms

| Module | Models | State | Actions |
|---|---|---|---|
| `Store` | `store.rs` as operators on a store value | `[idx, files, open]` | – |
| `StoreClient` | a store and a caller that keeps the positions | `store`, `stored`, `got` | `DoPush`, `PushFails` (a write that stops after k bytes), `DoPull`, `Reopen` |
| `Blocks` | contents of blocks and transactions, checks that need nothing else | – | – |
| `TxPool` | `TxPool` | `byid`, `byfee` | `AddToPool`, `DropFromPool` |
| `BlkIndexer` | `BlkIndexer` with its cache, pool, stores and database; the coins it lists (`Coins`, `PoolCoins`) | `genesis`, `best`, `hidx`, `battr`, `tattr`, `coin` (LevelDB by kind of key), `blk`, `rev` (stores), `cache`, `byid`, `byfee` | `Link`, `LinkAborts`, `Pop`, `PopAborts`, `SetGenesis`, `AppendTx`, `RemoveTx`, `Get`, `Load`, `Restart` |
| `Ledger` | abstract: a list of blocks that grows by a block it accepts and shrinks by its last one; no index, no files | `chain` | `Extend`, `Retract` |
| `Chain` | `Chain`: threads that share the indexer through its lock, and the listener | the indexer's; `th` (the call each thread is in), `holder`, `poisoned`; `told`, `seen`, `calls` record what happened | `LinkCall`, `PopCall`, `AppendCall`, `RemoveCall` and then `Tell`; `NewLinkBlock`; `GetTxAttr`, `GetTxBlock`, `Return`; `GetCall`; `LoadAttr`, `LoadBlock`; `CreateLock`, `CreateEnd`, `CreatePanics`; `LinkPanics`, `Refused` |
| `Account` | `account.rs`: accounts as records, the two encodings, signing, `verify_full` turn by turn | – | – |
| `Exector` | `Exector::exec` with `InEnv`, then with `LinkExectorEnv` and the output's lock | `owner`, `input`, `env`, `pc`, `typs`, `eles`, `phase`, `loop`, `msg` | one for each operation; `CheckSigAlone`, `CheckSigRefused`, `CheckSigArbiter`, `CheckSigStart`, `CheckSigTurn`, `CheckSigEnd`; `EncodeSign` (from the first run to the second), `Accept` |
| `Signing` | what signatures are over, `FullSigner`, `check_tx_sign` on standard scripts | – | – |
| `Builder` | `TxHelper`, `BlkHelper`, `create_block` | – | – |
| `Merkle`, `Compact`, `ScriptBytes`, `IBatch` | the root; compact numbers, `compute_bits`, `verify_pow`; how `check` and `exec` cut a script, and what is put with its length and got back; a batch and its reverse | – | – |
| `MCAlgorithms` | inputs of the six modules above, grown step by step | `kind`, `in` | `Grow…`, `SignInput`, `ChangeTx` |
| `PubSub` | `pubsub.rs` | `state`, `backlog`, `running`, `poisoned`, `job`, `hand`, `msg`, `sent`, `got` | `Subscribe`, `Activate`, `Cancel`, `Notify`, `NotifyOthers`; of a job: `Start`, `Lock`, `Look`, `Call`, `Return`, `Panic`, `Clear`, `Leave` |
| `StoreProofs`, `StoreClientProofs`, `BlkIndexerProofs`, `LedgerProofs`, `ChainProofs`, `ExectorProofs`, `AlgorithmProofs`, `PubSubProofs` | theorems | | |

**Granularity.** One action of `BlkIndexer` is one call of a public operation, since `Chain` runs each
under its lock; reads that the operation makes of blocks show as what they leave in the cache. A
failure of one of `link`'s three writes is `LinkAborts`, an action that stops at any byte of either file
or before the batch; followed by `Restart` it is a crash there. In `PubSub` everything done under the
mutex of `InnerPubSub` is one action and a job moves through the places between its critical sections.
In `Chain` what a call does under one locking is one action, the indexer's own (`LinkCall` is `Link` and what
becomes of the thread); a call that locks twice, reports, or runs the caller's code has the other threads
act in between. A call that fails and leaves the indexer as it was is no step. `Exector` takes one
operation per step, and one turn of `verify_full`'s loop.

**Abstractions.** Ids are model values and contents constant functions of them, as hashes make them.
In the indexer scripts, Merkle root, time stamp, size, proof of work are one Boolean of a block or transaction (`ok`),
signatures another (`sigs`). A byte in a file carries the body it was written for and its place
therein, so that a misplaced read is seen. LevelDB is a function for each kind of key, and its
batch write is atomic. Which block the LRU evicts is left open, so the model allows the code's choice.
A refused `link` or `append` may leave in the cache blocks it read; that is the effect of `Get` of those
blocks, which is an action. The attributes a caller hands to `load` are not remembered: in `BlkIndexer` they are any
position at which the block's data lies whole (`Kept`), in `Chain`, which has callers, those `LoadAttr` read. Indexes of sequences count from 1. The retarget formula is in `Compact` only,
because `next()` fails before it is reached (finding 4); there the difference of two block times is cast to a u32,
as in a release build (debug builds assert that it is positive), `TimeRange` standing for 2^32.

In `Account` a private key is shown as its public key and a signature as the pair of key and message; a hash
is what it is the hash of (`Identity` for an address, a tree of pairs in `Merkle`), so that different things
have different hashes. In `Exector` a script is a sequence of tokens and data a name; `ScriptBytes` holds
the cutting into tokens, and a script among other bytes. `AccountOf` says of data whether `from_bytes` gives an account, an error or a panic (`Overlong`: more keys or signatures
listed than the account has places). Numbers on the stack are never calculated with, in the code either. In `Merkle` no
leaf is matched, as `compute` has it: its one flag is false and its one hash the root.

**External.** The thread pool (crate `threadpool`): a queued job is taken by a thread when one is
free. The pool serves jobs in order of arrival; the model takes them in any order, which allows more.

## 3. Runs

Twelve runs; those marked V find the violation of a property that states what a comment or a test of
the repository says. States are distinct states.

| Run | Configuration | Question and bounds | States |
|---|---|---|---|
| `store` | `MCStore.cfg` | Bodies of 1 and 2 bytes, files of 3, two rolls. Full and part-filled files, a torn write at each byte, restarts. `ReadBack`, `FileLimit`, `WriterOpen`, `PullExact`, in a directory as the chain names it | 35 518 |
| `store_pull` V | `MCStorePull.cfg` | `PullAnswers`: does pull find every position pushed? | |
| `pool_by_fee` V | `MCTxPoolByFee.cfg` | `ByFeeMatchesById`: do the two indexes agree? | |
| `indexer` | `MCBlkIndexer.cfg` | Two branches of up to four blocks that share a coinbase, spend the same coin differently, spend in the block above and at the maturity boundary; eight blocks that must be refused, each for one reason; halving at height 2; blocks of two bytes in files of three, a `link` that fails at each byte of either file and before the batch; two conflicting transactions offered to the pool; restarts, evictions, blocks loaded from positions kept since before they were popped. Eleven invariants and `ImplementsLedger` | 49 593 |
| `indexer_pool_valid` V | `MCBlkIndexerPoolValid.cfg` | `PoolStaysValid`: is every pooled transaction spendable? | |
| `indexer_retarget` V | `MCBlkIndexerRetarget.cfg` | `NextAnswers`, with `pow_span` 3: does `next()` answer at a retarget? | |
| `chain` | `MCChain.cfg` | Two threads, seven calls, two branches, one with a block that `new_link_block` makes and one in which a signature panics; `get_tx` of a coinbase that two blocks share. `GetTxLinearizable`, `ReportsAddUp`, `CallsReturn` | 53 231 |
| `authorise` | `MCExector.cfg` | An output locked for two of three keys, or for an arbiter: inputs of every one to three operations after their type, the standard inputs of twelve accounts with signatures by various keys in various orders, data that `from_bytes` panics at, inputs of many operations. `SpendAuthorised`, `OwnerSpends`, `Ends` | 56 480 |
| `algorithms` | `MCAlgorithms.cfg` | Up to six leaves; targets of six digits in base 4; scripts that grow up to seven bytes and by one more operation; batches over three keys; accounts of three keys with signatures at any place; a transaction of two inputs, signed and then changed; builders with three coins, three outputs, four pooled transactions | 210 151 |
| `builder` V | `MCAlgorithmsBuilder.cfg` | `CoinbaseMayPay`: is the amount the closure is told within what `link` allows? | |
| `pubsub` | `MCPubSub.cfg` | Two subscriptions of one channel, one whose function may panic; two threads, two messages, jobs of one subscription that take up both threads. Safety, and `JobsEnd`, `Woken` under fairness | 43 027 |
| `pubsub_lost` V | `MCPubSubLost.cfg` | `AllDelivered`: is the backlog of an active subscription handed over? | |

**What the properties of `algorithms` compare.** Each sets a translation of the code against a second definition or
against another part of the code: the root by heights with pairing up level by level (`MerkleBinds`);
compact numbers and the next difficulty with the number they stand for and with `verify_pow`
(`CompactRounds`, `BitsAccepted`); the walk of `check` with that of `exec`, and what `get` returns with
what was put (`FramingAgrees`); a batch with its
reverse (`UndoRestores`); the verdict on an account before and after its way through bytes
(`WireKeepsVerdict`); signatures with the id of the transaction, which is made in another way from other
parts (`SigningCommutes`, `SignatureCommits`); what builders build with what `link` asks
(`BuiltWithinLimits`).

**Why the bounds are enough.** Each instance is built to hold every case its code tells apart: in the
store a body that fits, fits exactly, and does not fit; in the indexer a block refused by each
check, both spends of the same coin, the height below, at and above maturity and halving, and a
chain that is undone to its genesis and rebuilt along another branch; in the chain a transaction that moves
from one block to another between the two halves of `get_tx`, in one data file, so that reads do not fail
(finding 1 would have `get_tx` answer none for a transaction of the chain); among the inputs a stranger's account with
its own signatures, the lock's hash pushed by the input, keys that sign twice, in the wrong order or another
message; six leaves, for trees with an odd level at the bottom and above; targets whose leading digit sets
the sign bit; block times in order, equal, the wrong way round and too far apart for a u32; in PubSub a second
job queued, waiting and leaving while the first runs, and the pool full.
`MaxFile`, `MaxHeight`, `MaxBucket`, `MaxCalls` and `MaxMsg` bound files, heights, one list of the pool,
calls and messages; in `MCAlgorithms` `MaxLeaves`, `MaxDigits`, `MaxScript`, `MaxCoins`, `MaxOuts` and `MaxTxs` bound what
grows; they are guards that only cut behaviours short. `MaxOps`, `MaxKeys`, `MaxBlockSize` and the sizes of scripts
are limits of the code, made small. The proofs need none of them to be small.

Deadlock is not checked: the indexer, the chain, the pool and PubSub answer calls and have nothing to do when
nobody calls or the bounds are reached, and a script and an input have an end. That calls, jobs and
scripts do not stop half-way is `CallsReturn`, `JobsEnd` and `Ends`.

**Fairness.** `PubSub` has `FairSpec`, which adds weak fairness of the steps of each job. A step is
a thread of the pool going on, the release of a mutex somebody holds for a bounded time, or the
subscriber's function returning or panicking (which is assumed). A job is the only one of its
subscription that can enter the function, apart from one that is leaving it, so weak fairness suffices
for `Lock`. Weak fairness of `Start` stands for the pool's queue; a thread that is free for a moment
may be taken by another job, but messages are finite. No caller is assumed to subscribe, notify,
activate or cancel. `ChainSpec` has weak fairness of what each thread does once it is in a call (`GoesOn`): threads
run, the closure given to `create_block` and the listener return or panic, and the lock is let to one that
waits for it while it is free; nobody is assumed to call. `Exector`'s specification has weak fairness of its next
step: `exec` runs in its caller's thread.

## 4. Findings

1. `store_pull`: `open_file` passes the directory where the extension belongs; after a restart only the
   newest data file can be read (`store.rs:276`). The invariants of the indexer hold because reads fail,
   they do not return wrong bytes. Behind it waits another: `open_file` may close the very handle it opened,
   to stay within the limit of handles, and returns the last of the vector, another file (`store.rs:281`).
   `PullExact` is proved for a directory that is not named as its extension, and fails without that. Until
   `store.rs:276` is changed no handle is ever closed (`remove_file` is called two lines below the open that
   fails), so the runs, whose directories are named as the chain's are, do not reach it; `WriterOpen` has it
   only in its proof (`WriterStaysOpen`), which is for any directory.
2. `pool_by_fee`: `TxPool::remove` keeps the removed id in the lists by fee and drops the others
   (`index.rs:425`).
3. `indexer_pool_valid`: transactions stay in the pool when the coin they spend is popped or spent by a
   linked block (`index.rs:1537`); `link` does not look at what the pool spends, though the comment at
   `index.rs:444` has it refuse a block that spends the same.
4. `indexer_retarget`: at a multiple of `pow_span`, `next()` reads attributes under the key of a height
   and fails; the chain stops there (`index.rs:1063`).
5. `builder`: `create_block` tells its closure what the coinbase may pay before the outputs of the
   coinbase are there; with them a transaction may no longer fit, its fee is gone, and the block claims more
   than `check_block_amount` allows (`index.rs:1746`, `index.rs:145`).
6. `pubsub_lost`: a message queued between a job's last look at the backlog and its clearing of the
   running flag waits for the next notification (`pubsub.rs:267`).

Seen on the way, and visible at the line without a run: `new_block` and `new_link_block` ask for the reward of
height 0 (`index.rs:1600`, `1612`), too much after the first halving, so that `link` refuses the block they make;
`new_link_block` tells no listener, though `index.rs:791` has the listener told when a block was linked (当成功连接一个区块时),
which is why `ReportsAddUp` leaves those blocks out.

## 5. Proofs

`tlapm` checks them for every value of the constants, under the named assumptions of the modules:
`StoreAssumption` and `ClientAssumption` (types), `BlocksAssumption` (contents are well typed, transactions
finitely many, the zero hash is no id), `IndexerAssumption` (absent values are none of the present ones; the
chain's directory, `<dir>/block`, is not named as an extension, so that `open_file` fails and reads leave the stores
alone), `AccountAssumption` (absent values are none of the present ones), `ExectorAssumption` (types; a hash is that
of one account, up to signatures, and is no account itself; a script may have the eight operations of a
standard input and output, of `MAX_SCRIPT_OPS` = 256), `ScriptBytesAssumption` (a script's length is one `Writer::usize` takes),
`MCAlgorithmsAssumption` (the keys and messages of the instance are such, no signature is `NoSig`, a
block with a coinbase of two outputs and nothing else is within `MAX_BLOCK_SIZE`, targets have no more digits than
a hash has bytes), `CompactAssumption` (a byte has an even number of values, since its top bit is the sign; the limit
times four spans fits a hash, so that `compute_bits` does not overflow), `BuilderAssumption` (sizes are numbers),
`PubSubAssumption` (names for two jobs), `ChainAssumption` (finitely many threads; types). TLC evaluates them in the
runs, together with that of `IBatch`.

- **StoreProofs** – lemmas about the operators: what a push appends and what it leaves where it was.
  **StoreClientProofs** – `StoreTypeCorrect`, `PositionsStay` (`ReadBack`), `FilesLimited`, for any directory,
  with handles opened and closed: positions stay because files only grow; the handle closed is never
  the one written to (`WriterStaysOpen`). `PullsExact` is proved for a directory that is not named as its extension; without
  that hypothesis it is false (finding 1).
- **BlkIndexerProofs** – first the pool alone: `PoolConflictFree`, with a lemma on what a push and a removal do
  that serves the pool beside the chain too. Then `TypeCorrect`: the type of the undo store matters, since what
  `pop` reads back must be an undo batch before anything can be said of it. Then
  `IndexInvariant` and the properties that follow from it. No property of the indexer is
  inductive by itself. `CoinsExact` after `Pop` needs the batch on disk to be the right one
  (`UndoOnDisk`); that the batch written long ago still is needs that every coin a block spends was
  made below it (`SpentOnceAndMature`), and that the transactions above it are other ones
  (`TxIndexExact`); that `Link` accepts only such blocks needs that a spendable output is looked up in a
  block of the chain, so the entries (`TxIndexExact`), the heights (`ChainShape`) and the files
  (`UndoOnDisk`) must agree; `PoolNotLinked` goes along. `IndexInv` is their conjunction with `TypeOK`, and
  the proof takes one action at a time, with one lemma for each property that `Link` or `Pop` disturbs. The
  cache is not part of it, and could not be: `Load` puts popped blocks there, so it does not hold blocks of the
  chain only. It need not: a cached block is the block of its id, and which block an input asks for comes from the
  transaction index, which `Pop` clears. That is `InputsAlwaysResolve` (`InputsResolve`), by `TxIndexExact` and `UndoOnDisk`.
  `ListedSpendable` follows from it: a coin listed for an address is one `link` would let be spent, and
  the pool's coins and the chain's are different ones.
- **LedgerProofs** – what holds of amounts, and the refinement. `SupplyBounded` is not inductive: when `pop`
  takes back a block that claimed less than its reward, it lowers the rewards granted by more than the coins. What `link` saw
  of each block of the chain stays true: it paid out, over what it spent, no more than its reward
  (`AmountsKept`, in terms of contents, which nothing changes). Summed over the chain it gives
  `NoMoneyFromNothing`, because the coins are what the chain made and did not spend (`CoinsExact`). The laws of sums
  over finite sets come by an induction in the form of sets (`FiniteInd`: a family of subsets that has the empty one and
  grows by any element has them all); so no operator is passed to a theorem.
  `RefinesLedger` maps the indexer to the list of blocks its heights name. `LinkExtends`: what `link`
  checks against the database is what the ledger asks of the list, coin by coin and sum by sum;
  `PopRetracts`: what `pop` leaves is the list without its last block, because the undo batch is exact.
- **ChainProofs** – the same for threads that share the indexer, of which nothing is assumed but that
  they are finitely many. `ChainInv` is `IndexInv`, the types of the calls, `ReportsAddUp`, what a call in its
  second half keeps from its first (`CallsOK`: attributes that were once in the database, and of a
  transaction its true place in a block), and `Witness`, what `get_tx` has seen. `IndexSurvives` is why
  `IndexInv` does without the cache: `LoadBlock` puts popped blocks there, and the index comes to no harm.
  `GetTxSound` is the safe half of `GetTxLinearizable`: `get_tx` never answers with another transaction, nor
  with one the chain did not hold during the call. `ReportsComplete` counts the threads about to report: a
  link or a pop adds one, `Tell` moves one to the listener's sum, and no other step changes either.
  `GetTxLinearizes` has the other half: an answer of none is one the chain would have given at some moment of
  the call. That needs reads that succeed, which finding 1 denies to a chain after a restart; here
  one process writes and reads, and keeps every handle it made (`ReadableChain`, an invariant: a roll adds the handle of the
  new file, and nothing closes one). It needs too that a transaction whose place `get_tx` read can only have left
  that place through a pop, after which the chain did not hold it (`TxStaysOrGoes`, `Following`).
  `CallsGoOn` is why calls return: between steps only `create_block` has the lock, whose closure waits for
  nothing, so whoever waits waits for a thread that can go on, and each step of a call lessens `CallSteps`.
  `ThreadsMakeNoMoney` and `ThreadsRefineLedger` carry the results of `LedgerProofs` to any number of threads.
- **ExectorProofs** – `Authorisation`: whatever an input's script does, it passes only if the owner's account is in it with
  signatures by the arbiter or by enough of the keys. The invariant `IInv` has four parts besides
  the type: every account on the stack came from the input, since the interpreter makes hashes only
  (`Origin`); how far the lock has come says what lies on top (`Stage`: an account, that account under its
  hash, under the lock's hash too, the two found equal, its signatures found good); `verify_full`'s loop has
  matched as many different keys as it counted down, all before the key it looks at (`Matched`, in `LoopInv`); and
  a script that passed is at its end (`OkInv`). The converse, `OwnerAlwaysSpends`, follows the standard
  scripts operation by operation (`OnTrack`) and `verify_full`'s loop by what lies ahead of it (`Left`): the
  signatures matched and those still wanted make up the account's `less`, and the keys of the
  signatures to come are at or after the key it looks at. A first attempt at this proof failed because `Honest`
  compared signatures in pairs, each before the next at *some* place: a key listed at two places (keys k2, k1, k3, k2;
  signatures by k1, k2, k3) satisfies that, and the loop, which takes the first place that fits and never goes
  back, refuses it. `Honest` now asks for one place for each signature, in one order; the keys may still repeat.
  `ScriptRunsOut` is why a script ends: `StepsLeft` counts the operations and the checks still to come, and in
  `verify_full`'s loop the places both indices have before them; every step lessens it and no input makes it
  more than `MaxSteps`.
- **AlgorithmProofs** – what the algorithms of `MCAlgorithms` compute, for inputs of any size. A definition by recursive
  function is unfolded once (`Recursion`: there is such a function) and followed by induction in the form of
  sets (`NatInd`). `UndoAlwaysRestores` has `Undoes` as its invariant: after the batch a key has the value of its
  one write, and after its undo batch the one before. `FramingAlwaysAgrees`: `ops` and `exec` read the same length in
  front of the same piece, by each kind of operation, and `check` has seen all of the script. `PutComesBack` is about
  any bytes with a length up to 0x7FFF, wherever they are put: the first byte says how many the length has, and
  so where the rest begins.
  `VerifyFullExactly` says what the loop accepts: the first `less` signatures present are of the message, by keys
  at increasing places. It does not depend on the gaps between signatures, which is all that bytes lose, so
  `BytesKeepVerdict` follows for accounts of every size and `WireAlwaysKeepsVerdict` for those of the run.
  `SignaturesBind` is about any two transactions: a signature is over the version, every output, every coin spent and the
  input that carries it, so one accepted in another transaction has all these equal there, and a coin is
  spent by one input, so the inputs are in the same order. `SignaturesCommit` applies it to the changes of `ChangeTx`,
  in any number. `SigningAlwaysCommutes` is by the invariant `Transacted`: an input signed is accepted and the
  others carry no signature, while what each signs stays what it was. `BuiltAlwaysWithinLimits` takes coins, outputs
  and pools of any length: a sum grows by what is appended (`SumAppend`), so what is paid, the change and the
  fee add up to the coins; `Fitting` cuts the pool before the first transaction that does not fit, the least such place (`LeastNumber`).
  `RootsBind` is about any two lists of different transactions: a row of the tree is half the one below, rounded up;
  equal roots are at one height, since going down to the left the higher tree has a pair where the other has a leaf; and
  from equal rows the rows below are equal, an odd one out being its own brother where no row has a node twice. The
  transactions of the block must differ for this: with one listed twice, two lists do share a root, and it is
  `check_rep_cost_coin` (`block.rs:416`) that refuses such a block, as one that spends a coin twice. `MerkleAlwaysBinds` adds that the tree by heights has the root of
  pairing up level by level. `CompactAlwaysRounds` and `BitsAlwaysAccepted` rest on `Kept`: what `compact` keeps of a
  number are its digits from the k-th on, k the least with which they are below the sign bit, by cases of
  `compact`'s three lengths and the sign; hence less than one in half a square of the base is lost, what is
  read writes as itself, and larger numbers keep no less (`ExpandMonotone`).
- **PubSubProofs** – `JobInv` first, about jobs alone: type, `OneJob`, that one job at most holds the function,
  and that a subscription without a function has no job. It gives room for the next job (at most one
  other, on its way out), so `Schedule` never replaces a job. Then `PubSubInv`, which adds that a message in
  hand belongs to the job that took it, so that a job that looks finds the hand empty; from it
  `HandedInOrder` and `CancelledIsQuiet`. `JobsGoOn` is why jobs end: among jobs there is always one that waits
  neither for a thread nor for the function, since those who have these are jobs too; and `JobSteps`, which counts
  the messages pending or still to be sent, is lessened by each step of a job and raised by nothing.

**Only model-checked**: liveness (`JobsEnd`, `Woken`, `CallsReturn`, `Ends`), which is out of TLAPS's reach
together with ENABLED. For all but `Woken` the safe half is proved for every instance (`JobsGoOn`,
`CallsGoOn`, `ScriptRunsOut`): a number that steps lessen and that is never below zero, and somebody who can
go on; that a step which can be taken is taken is the fairness of section 3, and stays with TLC. Every other
property of a passing run is a theorem. The library's induction theorems take an operator as a parameter and
cannot be used; where this project needs induction it goes through sets, as above. `SelectSeq` and the folds,
which take operators too, were replaced in `Account` and `Builder` by recursive functions of the same value,
and powers and shifts, of which the provers know nothing, in `Compact` and `Merkle`. No module here declares a
RECURSIVE operator.

## 6. Not modelled

- Loss of unsynced file data at a power failure. `sync` has no caller, so the files may lose anything the operating
  system still holds while LevelDB's log has the batch; a model would only say so again.
- Ciphers, hash functions and proof of work (`compute_pow`): external or a search for a number.
- Byte encodings other than lengths (`usize`, `put`, `get`), hexadecimal and Bech32 texts, configuration
  files, error types: pure, with no state. Where an encoding loses something (the places of signatures,
  private keys) it is modelled by what it keeps.
- Account pools: immutable lists, sets in `Signing` and `Builder`.
- Merkle proofs of a matched transaction: no caller outside `merkle.rs`.
- `BlkCache` stores clones whose height and positions are reset (`block.rs:346`); nothing that changes state
  reads them there.
- `get_txin_ref_coin`, `IBatch` outside `link`, and other operations without a caller.

## 7. Plan

Done, in this order: Store and StoreClient, Blocks, TxPool, BlkIndexer with Ledger, the proofs of these,
PubSub with its proofs; then Account and Exector with the proof of authorisation, Chain over the indexer with
its proofs, Signing, Builder, Merkle, Compact, ScriptBytes, IBatch; the supply and the refinement of Ledger,
alone and under threads, and the proofs about accounts, signatures, script bytes, undo batches, what the
builders build, Merkle roots and compact numbers; lengths and what is put with them (`iobuf.rs`), and the
bounds behind the liveness properties. Next:

1. The fixed-width integers of `iobuf.rs`, and which fields each type puts in a row.
2. If `sync` ever gets a caller: synced and unsynced bytes in `Store`.
