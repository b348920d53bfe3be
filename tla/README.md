# Midpoint in TLA+

Midpoint is a sealed call auction. Traders deposit two assets in a vault on chain and send orders
encrypted to a trusted enclave. Nobody else can read the book. A batch collects orders for a while,
is closed, is cleared in the enclave at one price, and the signed result is applied on chain by
whoever relays it. This directory holds a formal model of that system, its model-checking
configurations and machine-checked proofs.

Paths such as `contracts/src/Vault.sol` are relative to the repository's root.

## 1. Inventory

| Part | Source | State | Operations |
|---|---|---|---|
| OrderBook | `contracts/src/OrderBook.sol` | batch number, pinned machine, opening time, order counter, closed flag, two delays, two roles, extension id | `submitOrder`, `closeBatch`, `advanceBatch`, `voidBatch`, `setExtensionId`, four setters |
| Vault | `contracts/src/Vault.sol`, `SafeTransfer.sol` | balances per asset and holder, frozen flag, two roles | `deposit`, `withdraw`, `move`, `setFrozen`, two setters |
| Settlement | `contracts/src/Settlement.sol` | owner, oracle band, last settled batch | `settle`, two setters |
| Auction | `extension/typescript/src/app/auction.ts` | none | `clear`, `quoteAmount` |
| Enclave handlers | `app/handlers.ts`, `collateral.ts`, `order.ts` | books and commitments per batch, last cleared batch and price, all in memory | `handleSubmitOrder`, `handleRunMatch`, `reportState` |
| Extension server | `extension/typescript/src/base/server.ts` | a promise queue, a handler table | `/action`, `/state` |
| tee-node client | `base/node.ts`, `app/sign.ts` | none | decrypt, sign (HTTP) |
| Relayer | `client/src/relayer.ts`, `client/scripts/settle.mjs` | a deadline | poll for a result, submit it |
| Order sealing | `client/src/order.ts`, `ecies.ts` | none | encrypt an order to a machine's key |
| Web client | `web/src/App.tsx`, `web/src/lib` | what was last polled, one transaction in hand | deposit, order, close, settle |
| Demonstration pool | `contracts/src/demo/NaiveAmm.sol` | two reserves | `addLiquidity`, two swaps |
| Setup scripts | `extension/scripts/*.sh`, `extension/tools/cmd` | `config/extension.env`, and what is on chain | deploy a sender and register an extension; start a node; allow its code, set the governance, register its machine; test it |
| Machine registration | `tools/pkg/fccutils/registration.go`, `cmd/register-tee` | a state file of steps done | register, attest, check, promote, resumable |
| Deployment checks | `tools/pkg/validate`, `cmd/verify-deploy` | none | read-only checks of environment, file and registry |
| InstructionSender | `extension/contracts/InstructionSender.sol` | the extension it is bound to | `setExtensionId`, two sends |
| Go sample extension | `extension/go/internal/extension` | two counters and two texts under a lock | two greetings, `/state` |

`PROJECT.json` lists every part, with the Python sample, the demonstration scripts and the page
rendering, and says which are modelled.

**How the parts interact.** `OrderBook` reads a submitter's balances from `Vault` and sends them,
with the ciphertext, as an instruction to one machine through Flare's registry. The pipeline
carries instructions to the machine's server, which runs one handler at a time. The handler of a
match request returns a signed payload, which the proxy keeps for whoever polls. `settle` takes the
payload, asks `OrderBook` for the batch and the pinned machine, the oracle for a price, drives
`Vault.move` for every fill, and advances `OrderBook`. Nothing on chain talks to the enclave
directly, and nothing in the enclave can read the chain.

The operator's side is apart from the market. The scripts run one after the other and communicate by
the config file and the registry; the node takes its extension from that file once, when it starts;
`register-tee` leaves a state file for a later `register-tee`.

**What is hard.** No party sees both halves of the state. Between the chain and the machine,
instructions may be lost or overtake each other; between the machine and the chain, a result may be
late, repeated, or never come. The book is in one process's memory under a key that dies with it,
and its handlers await another process halfway. The balances an order was accepted against may
change before it is settled. `settle` and `voidBatch` race for a closed batch. Every amount is an
integer and is rounded twice, in two places, in two languages. On the operator's side a command may
die between a transaction and the line in a file that records it, and a node that restarts is
another machine. The list under "hazards" in `PROJECT.json` gives each at its line.

**What makes each part correct.**

- OrderBook: a batch lives in exactly one machine; the set of its orders is fixed when its match is
  requested; each batch ends exactly once, settled or voided; and it does end, whoever is silent.
- Vault: it never owes more than it owns, and only `move` shifts balances.
- Settlement: whatever a machine signed, value is conserved, a batch is applied at most once and
  only while it is current, and its fills apply entirely or not at all.
- Auction: the price maximises volume; nobody trades off its terms; better prices go first; equal
  orders share in proportion; both legs net to zero to the unit.
- Enclave: an order counts for the account and batch it was made for; commitments cover what may be
  signed; one result per batch.
- Servers: a handler has the effect of one step although it awaits, or shares memory with others;
  nobody waits for ever behind one that failed.
- Pool: it holds what its reserves claim, and no sequence of swaps drains it.
- Registration: the state file claims nothing that the chain has not accepted; a command that says a
  machine is registered has brought that machine into production; starting afresh always works.
- Setup: the config file never names an extension half set up; a clean report and a passing test
  mean what they say; a script that fails can be run again, or has a reason.
- The whole: settlement takes from a trader no more than the trader itself offered for that batch.

## 2. Modules

| Module | Models | State and actions |
|---|---|---|
| `BatchLifecycle` | the abstract promise about batches | number, phase, how often the enclave was asked, how each batch ended; open, close, settle, void |
| `OrderBook` | `OrderBook.sol` | one action per external function; a transaction is atomic, so a revert is a disabled action. `sent` is what the registry accepted, each instruction under the id it got (so a repeated request is another instruction), `ended` the log of `BatchAdvanced` and `BatchVoided` events |
| `Vault` | `Vault.sol` | one action per external function; `held` is what the token contracts say the vault owns |
| `Settlement` | `Settlement.sol`, driving the two above by `INSTANCE` | `Settle` is the whole transaction: the checks in order, the two passes of moves, each a fold of `Vault.move` that a refused move ends, the order book's advance |
| `Auction` | `auction.ts` | operators only. Orders keep their place of arrival, so a side, a level and a queue are sets of places put in order by `InOrder` |
| `AuctionBook` | the book an auction clears | `Arrive`: one more order, and the result of clearing the book as it now is |
| `Enclave` | `handlers.ts`, `collateral.ts`, `order.ts` | one action per handler call at each machine, and `Crash`. What it calls of the auction, `Clear` and `QuoteAmount`, are operator constants |
| `Midpoint` | everything about the market together | `Settlement` (whose payloads now are what machines signed) and `Enclave` (with the operators of `Auction`) sharing the variable `sent`, plus the relayer. Its specification is `VenueSpec` |
| `ExtensionContract` | the abstract promise of a server: one request at a time | shared memory and answers; `Serve` |
| `HandlerQueue` | `server.ts` and the awaits of `handlers.ts` | a handler is split at its await: `SubmitOrder` and `Decrypted`, `RunMatch` and `Signed`; `queue` is the promise chain of `serialize`; `Throw`, `Exit` |
| `ExtensionServer` | the Go sample's server | one goroutine per request, split at the lock and at every access to a shared field |
| `NaiveAmm` | `NaiveAmm.sol` | `AddLiquidity`, `Swap` with what the token delivered, donations |
| `Custody`, `Servers` | two contracts that hold tokens (`Vault`, `NaiveAmm`), two servers (`HandlerQueue`, `ExtensionServer`) | each pair shares nothing, so a behaviour is one of either |
| `Registration` | `registration.go`, `register-tee` | a command with its memory and locals, the state file, transactions waiting to be mined, the registry, the node; a step is sending, receiving, saving |
| `DeployChecks` | `tools/pkg/validate` | operators only: a report from an environment, a file and the registry |
| `ExtensionSetup` | the scripts and the commands they call, `InstructionSender.sol` | one action per transaction or file write; `register-tee` is one action here |

`Settlement` instantiates `OrderBook` and `Vault` with its own variables under the same names, so
their actions are conjoined and not retold. `Midpoint` extends `Settlement` and `Auction` and
instantiates `Enclave` in the same way. `ExtensionSetup` extends `DeployChecks`. Both servers are
shown to implement `ExtensionContract`, each with its own memory and outcomes; for `HandlerQueue`
the outcomes are what `Enclave` takes a handler for, which is why a handler may be one action there.
The `MC...` modules give the constants values. The `..._proofs` modules and `Sums` are section 4's.

A call that a contract refuses changes nothing, and so is not a step. What a handler refuses does
change something, since the instruction is used up, and is a step. `AdvanceBatch` and `VoidBatch`
share `NextBatch`, as their bodies are the same assignments in the code.

The name `Faulty...` marks an operator that is no part of any specification: a plausible bug in the
definition after it. Replacing that definition by it must make the listed property fail
("mutants" in `PROJECT.json`); this is how each property is known to say something about the code.

### What is external, and what is assumed of it

- *Tokens*: a transfer in delivers some part of the amount (a fee may be taken), and possibly
  nothing, which the vault refuses and the pool does not. A transfer out delivers all or reverts.
  Anyone may send tokens without a deposit.
- *Registries*: which machine is drawn is arbitrary, and any call may be refused.
- *Instruction pipeline*: an instruction is delivered at most once, in any order, or never.
- *tee-node*: a ciphertext opens only under the key it was made for; signing may fail; a signature
  names its machine and cannot be made by another.
- *A machine is its key.* Both processes of the container die together and return with another key
  and address, so `Crash` is final; a rebuilt machine is another member of `Tees`.
- *Oracle*: any answer of a small set, including a missing timestamp and a negative exponent.
- *`ecrecover`*: a signature stands for the address it recovers to.
- *Malformed input* (hex, ABI, JSON) is refused before any state changes and is not enumerated,
  except an order sealed for another key, trader or batch, which is.
- *Payload fills name traders.* No fill names the settlement contract's own vault account: an order's
  trader is the account that submitted it and the contract submits none. `PassThroughIsEmpty` rests on
  this: a fill naming the contract itself would move value within its own account. It is assumed of
  `Settlement`, where machines sign anything, and proved of what machines sign in `Midpoint`.
- *Finitely many accounts.* Traders and holders are finite sets (an address is 20 bytes), and what
  was deposited before the first order adds up to at most `MaxHeld`.
- *256-bit arithmetic* is checked in Solidity and unbounded in the enclave, so amounts are natural
  numbers. The two widths that matter, the unchecked `uint32` order counter and the `uint64` age
  check, are kept.
- *The machine registry* accepts a registration once, an attestation or promotion of a registered
  machine, and a check of the machine whose challenge is fresh, once; when a machine is registered
  it also compares its code and governance with the extension's. A version's name is taken once.
  Whether it refuses a second extension for the same sender is left open, and both answers are
  explored: `extension/docs/testing.md:82` and
  `extension/tools/integration/registration_test.go:42-44` disagree.
- *The FTDC* proves a check only while the machine it is about still answers.
- *Transactions* of one account are mined in nonce order, possibly after the command that sent them
  has given up, or are dropped. A command that waits for the receipt without a deadline
  (`tools/pkg/utils/instructions.go:80`, `:139`, `:191`) then waits for ever, unless it is killed.
- *Extension ids* are numbered from 1 here. The registry's start at 65536, so that the warning of
  check R1, for a counter of 0, never shows; the ids below, which R7 walks too, match no sender.
- *A node* given a malformed extension id does not come up; only the running node answers.

## 3. What is checked

`tlc -config <cfg> <module>` from this directory repeats a run.

| Run | Config | Question and answer |
|---|---|---|
| `order_book` | `MCOrderBook.cfg` | The batch contract under every order of calls by two accounts, either of them the owner. One machine per batch, one match request per batch, only where orders went, however often closing is tried; book fixed by closing, the inductive invariant, `BatchLifecycle` implemented, and an opened batch ends although enclave, relayer and operator may all be silent. Holds. |
| `vault` | `MCVault.cfg` | The vault's solvency, with fees, donations, moves to oneself and changes of roles; moves create nothing. Beside it the pool: reserves held, product never falling. Holds. |
| `settlement` | `MCSettlement.cfg` | The three contracts against machines that sign anything about traders, through two batches that settle or are voided, with results for the batch in hand, an earlier or a later one. Conservation, agreement on what settled, all-or-nothing application, and no balance lost but to a match. Holds. |
| `auction` | `MCAuction.cfg` | The auction against its rules restated from the outcome, on every small book. Holds. |
| `midpoint` | `MCMidpoint.cfg` | The market end to end, from one batch into the next: replayed and undecipherable ciphertexts, lost and reordered instructions, a crash, failing signatures, withdrawals, any relayer. Nobody is charged but as offered, nobody trades beyond its limit, one result, which each trader who still has its balance can pay. Holds. |
| `servers` | `MCServers.cfg` | Both servers implement `ExtensionContract` and leave no request waiting, though handlers fail, throw or end the process. Holds. |
| `registration` | `MCRegistration.cfg` | A machine's registration with commands that die, resume or start afresh; late, dropped and reverted transactions; torn state files; expired challenges; a rebuilt node. The file is true, a clean success is a success, and fresh starts succeed in the end. Holds. |
| `setup` | `MCSetup.cfg` | The scripts killed, failing and run again in any order and environment, with node restarts. What config file, `verify-deploy` and a passing test say is so; scripts end, but for the three waits that have no deadline, and fail only for the reasons listed in `ScriptsFailForAReason`. Holds. |
| `withdraw_mid_batch`, `reservation`, `late_order`, `resume` | `MCWithdraw.cfg`, `MCReservation.cfg`, `MCLateOrder.cfg`, `MCResume.cfg` | Statements of comments and documents that the code does not keep; each is violated (section 6). |

A type invariant, where a run checks one, is a conjunct of another invariant: `IInv` of
`OrderBook`, `Solvent`, `PassThroughIsEmpty`, `PayableUnlessWithdrawn`, `ConfigIsFinished`. Those of
`Registration`, `ExtensionServer` and `NaiveAmm` are proved.

### Bounds, and why they are enough

- *Accounts, machines*: two of each where it matters. An owner and a stranger tell permissions
  apart; two machines tell a pinned one from another. Traders of the settlement run are alike, so
  symmetric. In `midpoint` one machine suffices because pinning is checked in `order_book`; the key
  of a second one seals a ciphertext nobody can open.
- *Batches* (`MaxBatch`): two, both played to their end, enough for anything of one batch to reach
  the next; after the second a number follows that takes no orders. *Orders* (`MaxOrders`): three per
  batch in `order_book`, where the counter's largest value `U32` is 1, so that the second order wraps
  it to 0 and a batch at the wrap and past it is explored; one per batch in `settlement`, where
  what is signed does not depend on orders; three in all in `midpoint`, so a trader's two orders
  exceed its balance only together, or one or two of them are left for the second batch.
- *Time*: in `order_book` the delays are 1 or 2 and `U64` is 2, so that a delay of 2 overflows for a
  batch opened at time 1 (`OpenBy`), which is a revert as in the code; the clock (`MaxTime`) goes to
  the last age that matters. In `settlement` the delays are 1 and the clock goes to 2: a batch opened
  at 0 may be closed, settled or voided at 1, and the next, opened at 1, at 2. In `midpoint` the delays are 0 and the clock stands still: every age
  check passes, the largest set of interleavings; age checks themselves belong to `order_book`.
- *Auction*: every book of up to four orders over limits 1, 2, 4 and sizes 1, 3, with a scale of 2
  instead of 10^6: ties with an unlisted midpoint, odd volumes, levels of two and three orders,
  and quotes that do not divide all occur.
- *Payloads* of the settlement run: none, one or two fills, balanced or not, with zero sizes and a third
  side, and some of three fills, for two batches, by two signers, against four oracle answers and two
  bands.
- *Amounts*: up to two to four units (`MaxHeld`). `Funding` is what was deposited before the
  first order; `midpoint` starts there and has no later deposits, which the settlement run has. The
  pool keeps 3/4 of an input after its fee, swaps 1, 2 or 4 and holds up to 7 of a token, so that
  both divisions leave remainders.
- *Checks left to their own run*: role setters of `OrderBook` and `Vault` are in `order_book` and
  `vault`; the composed runs start from the wiring that `Deploy.s.sol` leaves and keep it.
- *`midpoint`* has five ciphertexts: two bids and an ask for the first batch, an ask for the second,
  and one sealed for another key. The constraint `InScope` allows three orders in all, and leaves out
  what the machine refuses in the same way whenever and by whomever it is sent: an order under the
  other key comes from its maker in the first batch, the second batch's ask not before that batch,
  and the first batch's orders in the second only as replays. So the second batch clears without a
  trade; what it adds is everything of the first that arrives in it. Two batches that both trade are
  the proofs' matter.
- *Views*: `settlement` identifies states that differ only in who sent an order and with which
  balances (`WithoutOrderData`), which nothing reads there; `midpoint` those that differ only in
  which instruction got which id (`WithoutIds`).
- *`servers`*: six requests each, two of every kind that writes and one of what is refused: enough
  for one to wait behind another that fails, and for a third to arrive meanwhile.
- *`registration`*: two machines (a node and its rebuild), three commands (`rRap` of
  `post-build.sh`, `rap`, `p` alone), two faults of any kind. `MaxId` bounds the instruction ids that
  a file, a command or a transaction still names; others are forgotten and their ids used again.
- *`setup`*: two keys, two senders, extensions, nodes and builds, four environments, one death.
  The one death may be a script that waits for ever. `InScope` says that one operator owns all extensions, that a restarted node gets the variables of
  the first, that no node asks for two signatures, and that the first build is build 1. The checks
  of `verify-deploy` that look at environment and file only are evaluated once on every
  combination of a value of each kind (`ChecksCatch`).

Several configurations switch deadlock checking off: a bounded system stops when its batches,
orders, requests or nodes are used up. `order_book` and `registration` keep it on.

### Fairness

- `OrderBook`: weak fairness of `Tick` (blocks keep coming) and of `VoidBatch`. Anyone may call
  `voidBatch` and nothing but its two checks can refuse it, so one account that cares is enough: a
  trader with an order in the batch. Nothing is assumed of submissions, `closeBatch`, the enclave,
  the relayer or the owner. Two premises limit the result, both are in the code, and
  `EveryBatchEnds` states them: a void delay that overflows 64 bits disables `voidBatch` until the
  owner lowers it, and a batch with exactly a multiple of 2^32 orders counts as empty until one
  more arrives.
- `HandlerQueue`: weak fairness of handlers that can go on (Node's event loop; a request to tee-node
  times out after 30 seconds) and of the end of a process with an unhandled rejection.
- `ExtensionServer`: weak fairness of each goroutine. A waiting writer keeps new readers out of a
  Go `RWMutex`; with finitely many requests weak fairness is enough.
- `Registration`: weak fairness of the command, of mining, of the FTDC's answer and of the proxy
  catching up with the signing policy; strong fairness of the operator, who starts afresh again and
  again while the node is not in production, as `post-build.sh` does. Faults are finitely many.
- `ExtensionSetup`: weak fairness of a script's next step. The waits of `CheckTx`, of the deployment
  and of `ActionResult` have deadlines. Those of `setExtensionId`, `sayHello` and `sayGoodbye` have
  none: `WaitForever` may happen at any of them, is not fair, and nothing makes anybody kill such
  a script. `EveryScriptEnds` names the three as its exception.

## 4. What is proved

`tlapm <module>` checks every obligation, for every value of the constants that satisfies the
module's named assumptions (address zero is no account, delays fit 64 bits, fees are shares, an
environment holds accounts, and the like).

| Module | Theorem | States |
|---|---|---|
| `OrderBook_proofs` | `TypeCorrectness`, `Invariance` | every variable keeps its type and width; `IInv` |
| | `Pinning` | all instructions of a batch go to one machine |
| | `MatchOnce`, `MatchNeedsOrders`, `BookFixedByMatch` | a batch has at most one match request, and the one in hand is closed exactly if it has one; a match is asked only where an order went; no order follows it |
| | `Refinement` | the order book implements `BatchLifecycle` |
| `Custody_proofs` | `VaultSolvency`, `ValueIsConserved` | the vault never owes more than it owns, over any number of accounts; what it owes moves only with what it owns |
| | `Solvency`, `Covered`, `ConstantProduct` | the pool: types, reserves are held, the product never falls |
| `Midpoint_proofs` | `Agreement` | settlement and order book agree on which batch settled last |
| | `NothingStays`, `EachPaysItsPart` | any payload about traders leaves the contract's own account empty; a conserving one goes through exactly when each trader can pay its own part |
| | `SettlingIsSolvent`, `OnlyAMatchSpends` | whole settlements keep the vault solvent; a balance falls only for a batch whose match was requested, or by a withdrawal that touches no other balance and takes out what it takes off |
| `Auction_proofs` | `AuctionInvariant` | what the book and its result are |
| | `VolumeIsAlwaysMaximal`, `PriceAlwaysFollowsTheRules` | no price trades more; the price is the one the rules name |
| | `LegsAlwaysBalance`, `QuoteWithinOneUnitHolds` | both legs add up to the unit; no fill pays or gets more than a unit off its limit |
| | `PricePriorityHolds`, `RationedInProportionHolds`, `ArrivalIsWorthAtMostOneUnit` | better terms first; a level in proportion; a place in the queue is worth at most a unit |
| `Midpoint_proofs`, end to end | `OneResult` | a batch has at most one signed result |
| | `Payable` | what is signed for the batch in hand is what `settle` asks for, and every trader that still holds what it held when it ordered can pay its part of it but for a unit per fill, whatever the others did |
| | `Charged` | a settlement charges a trader at most what its own orders for that batch offered |
| | `WithinLimit` | a trader with exactly one order in the batch trades on its side, and its net gain is within its limit: a buyer less than one unit over, a seller less than two under |
| `Servers_proofs` | `OneHandlerBegun`, `VenueRefinement` | only the head of the queue has begun; the venue's server implements `ExtensionContract` |
| | `Exclusion`, `Refinement` | the lock excludes and copies are fresh; the Go server implements `ExtensionContract` |
| `Operator_proofs`, registration | `Invariance`, `StateFile` | types and what a command knows; the state file is true |
| | `CleanSuccess` | a command that found no state file and reports success promoted the machine it names |
| `Operator_proofs`, setup | `SetUpIsFinished` | the config file names only an extension that is set up, and its own sender |
| | `TestsAreTrue`, `ReportsAreTrue`, `ChecksSeeAll` | a passing test and clean reports of `verify-deploy` mean what they say |
| | `FailuresHaveReasons` | a script that gives up has one of the listed reasons |

**Order book.** `OneEnclavePerBatch` is not inductive: it looks at the instructions sent and says
nothing of `batchTee`, which decides where the next one goes. `IInv` adds the link. `SentToPinned`:
nothing was sent for a later batch than the one in hand, and what was sent for this one went to the
pinned machine. Without its first half, ending a batch could land on a number already in use.
Without its second half, an order could join another machine's book. `PinnedBeforeUse`: while no
machine is pinned, the counter is 0 and the batch is not closed, so `closeBatch` never sends to
address zero, which even the type invariant needs. Its converse would be false, since the counter
wraps to 0 with a machine pinned. `PinnedHasOrder`: a pinned machine was sent an order of this
batch, so a match request never comes first. That does not follow from the counter, again because
of the wrap. That no batch has two requests (`MatchRequestedOnce`) needs `SentToPinned` as well: a
number with a request must not come back. The refinement maps `batchClosed` and `batchTee` to a phase and is by cases on the
action: a first order opens, a later one stutters, `closeBatch` closes, `advanceBatch` settles,
`voidBatch` voids; how often the enclave was asked is the number of match requests of the batch.

**Sums.** Much of what is true here is about sums over accounts, fills or orders, which the community
modules define by a fold over a set. `Sums` proves what such a sum does when an entry changes, when
sets are joined, when it is taken over another set in step, for any finite set. Its two rules of
induction are about sets instead of predicates: a set of naturals with 0 and the successors is
`Nat` (`NatIsLeast`), and a family of subsets that has every set whose one-smaller subsets it has is
the whole powerset (`FiniteSetsAreBuilt`). Each follows from the least counterexample, which
`NatLessThanWellFounded` gives. So a recursive function can be reasoned about too: that a recursion
over 0..n has a solution, and what it holds after n steps.

**Vault.** `Solvent` is inductive with types. The content is in `Moved`: a move writes two entries of
one row, and when the two are the same account, the second write reads the first.

**Settlement.** `SettledMeansAdvanced` compares `lastSettledBatch` with the log `ended`. Inductive
with `LogIsComplete`: the log has one entry per past batch, so that the entry a settlement appends
is that of the batch it settled.

The two passes of `settle` are a recursion over the fills. In the first, the moves debit traders
only, each by its own fill, so the pass goes through exactly when every trader holds the sum of what
its fills collect (`EachPaysItsPart`), and then the contract holds what was bought and paid. In the
second, every debit is the contract's: a conserving payload distributes as much as was collected, so
no move can fail and nothing is left (`NothingStays`). Neither the order of the fills nor what a
trader is about to receive matters. This needs `balance[a][Venue] = 0` before, which is why
`PassThroughIsEmpty` is in the invariant, and that no fill names `Venue`.

**Auction.** The invariant itself is small; the theorems are about `Clear`. Four facts carry them.
(1) The places of a finite set in a strict order are 0, 1, ..., each taken once
(`PlacesAreTakenOnce`), so exactly m elements have a place below m. (2) The units that floors lose are
fewer than the weights with a remainder (`ShortfallIsCovered`), so the largest remainders hand out
exactly the amount, and to each weight less than one unit from its share (`SplitIsExact`). (3) Of a
side, levels are ordered, what is ahead of a level is the sum of the better ones, and a level gets
what is left or all it holds (`GivenToALevel`). Taking the worst level that gets anything, the side
together gets the volume (`GivenIsTheVolume`): this is `LegsBalance` before the quotes, and (2) again
after them. (4) The scan over the candidate prices holds the largest volume so far and, in ascending
order, the prices that reach it with the least imbalance (`ScanInv`). Demand falls and supply rises
with the price: so a price that is no candidate trades no more than the highest ask below it, and
the midpoint of two tied prices as much as they do (`NoPriceTradesMore`, `ClearingPriceFacts`).
For `ArrivalWorthAtMostOneUnit`, a rearranged book has the same interest at every price and the
same sums ahead of each order; only the odd units may go elsewhere.

**End to end.** The properties of `Midpoint` relate what a machine signs to what was sent on chain
long before, with a crash, a loss or a replay in between. Their invariant is `VenueInv`: those of the
three contracts, the machines' types, and three links from the chain to a signature.

- *Books are traced.* Each order in a book comes from an instruction that this machine was given, for
  this batch, sealed and submitted by the trader it names; no two orders from the same one
  (`BooksTraced`: there is an injection from places to instructions). An injection is what a replayed
  ciphertext does not break: submitted again by the same trader it is another instruction, by anyone
  else it is refused. Netting keeps it, as a fill is part of one order and no order is in two fills, so
  what is signed is traced to what was sent, each fill on the terms of its order (`ResultsTraced`).
- *Commitments are backed.* What a machine has committed for a trader is the sum of what its book asks
  of that trader (`CommitmentsAddUp`), and is within a balance that came with one of the trader's own
  orders for the batch (`CommitmentsBacked`). The maximum over its orders, not the last one: every
  order was compared with the balance sent with it, and the side that an order does not raise may
  rest on an older one. After a crash or `releaseBatch` both are zero together. A buyer's fill costs
  less than one unit more than was committed for it (from `QuoteWithinOneUnit`'s lemma), so what is
  signed is backed, but for a unit per fill (`ResultsBacked`).
- *Results conserve* (`ResultsConserve`), which is the auction's theorem about its legs, so the vault
  does not refuse the batch for its arithmetic.

`Payable` then is: the trader still has the balance that backs its part of the result. That the
batch is closed and the signer is the pinned machine comes from `AnswersInv`. `Charged` and
`WithinLimit` are about a step: the settlement contract's lemma says that a settlement changes a
balance by exactly the sums of the trader's fills, and the injection turns those into sums over its
instructions. With one instruction there is one fill, and the limit is that fill's.

That a batch has one result rests on the order book and on the pipeline. A machine does not look at
what it has cleared: asked twice, it would sign twice, over whatever its book holds by then. The
order book requests one match per batch, since a second would need the batch open again, and no
number comes back (`AskedOnce`). The pipeline is assumed to deliver each instruction at most once, so
what is signed answers a request of its own (`AnswersARequest`), and two results of a batch would
answer the same one.

**Servers.** For the venue's server: who waits is in the queue, who has begun is at its head, hence a book
that was read before an await is still the book after it (`BookIsFresh`). A handler takes effect
when it settles, and every earlier step stutters. For the Go server a handler takes effect at its
last assignment: the counter is mapped to its value less the handlers between counting and setting
the text. `LockHeld` bounds these by one, `CopiesAreFresh` makes the number read the number
answered.

**Pool.** Both divisions round down. From `q * d <= n` for a quotient `q` of `n` by `d`, and a fee
that leaves at most what arrived, the new product is at least the old; the reserve that pays stays
covered as no more is paid out than it has.

**Registration.** (Its specification is `Spec`, that of `ExtensionSetup` is `SetupSpec`; one module
holds the proofs about both.) A command records a step after its receipt. The invariant says what file, memory,
receipt and awaited transaction each promise of the chain; the youngest transaction is the one a
waiting command sent, so a receipt is never mistaken for that of an older one. `CleanSuccess` adds,
for commands that found no file, that the check in hand and in memory is about the command's own
machine. For commands that resume this is false, which is the finding `resume`.

**Setup.** The theorems have none of the run's scope: any operators with any environments, any number
of senders, extensions, nodes and deaths, a node restarted with any variables. What is assumed of
an environment (`EnvironmentsAreRead`) is that what it holds are accounts or nothing, finitely many
signers and a natural threshold, which is what the commands parse. `SetupInv` has two halves. The
world's (`WorldInv`) is true whatever script is running: what file and nodes name is finished, a
machine is registered with the extension its node names, a sender is bound to the first extension
registered for it. An extension only ever gains what was set up (`Updated`), so no later step of
anybody undoes this. The script's (`ScriptInv`) is what the steps before the present one have left:
in `SetupExtension`, the effects of the steps passed or found (`SetUpSoFar`), which is why the file
can be written last; in `post-build.sh`, that the node's code is allowed, or its version's name is
another build's, and the governance is the environment's (`PostSoFar`), *while the node is the one the
script began with*; in the test, that the sender has an extension and is bound to its first, and that the answer came from the node's machine or there will be none
(`TestSoFar`). A script's death makes the second half vacuous and cannot touch the first (`Stops`,
`GoesOn`). A script that gives up fails a condition that its earlier steps narrowed down to the listed
reasons: the registry compares the governance in force with the node's, and the former is the
environment's by then, so either the variables differ or both fell back, to different addresses.
For `ReportsAreTrue`: the sender's first extension and the file's are both among the matching
ids of R7, unless their lookups failed, and R7 found at most one.

Only model-checked: liveness and ENABLED, which the prover does not reason about (`EveryBatchEnds`,
`EveryGoRequestAnswered`, `EveryQueuedRequestSettles`, `FreshStartsSucceed`, `EveryScriptEnds`). Every
other property of a passing run is a theorem.

## 5. Not modelled

- The relayer's polling and its timeout: `Midpoint` has any number of relayers at any speed,
  which includes every one of its behaviours.
- The web client's polling and page. It can only make calls that anyone may make. A stale batch
  number in a sealed order is among the ciphertexts of `midpoint`.
- Wire codecs and ECIES: records stand for messages, and what does not decode is refused before
  any state changes.
- The Python sample (the Go one once more, under one lock around the whole handler), `audit-deploy`
  (the registry reads of `verify-deploy` without a verdict), `use-chain`, `stop-services`,
  `query-tee`, `start-proxy` and the image builds.
- Demonstration scripts: sequences of calls, each one behaviour of `Midpoint`.
- `--checks` of `verify-deploy`, which no script passes.

## 6. Findings

| Run | What the code does, against what is said of it |
|---|---|
| `withdraw_mid_batch` | "Reverts while a batch is settling", "for the duration of a batch", but the freeze lasts only inside the `settle` transaction; a withdrawal between closing and settling makes the signed result unpayable, and the batch must be voided. |
| `reservation` | "Reserving at the limit is an upper bound and can never under-reserve", but the quote split may charge a fill one unit more than the floor that was reserved. It is never more than one (`QuoteWithinOneUnit`), and `PayableUnlessWithdrawn` is stated with that unit. |
| `late_order` | "Keyed by batch so a late order for a closed batch cannot slip in", but an order delivered after its batch's match is accepted into a new book that is never cleared or released. No result ever includes it, as the batch is not asked for again (`OneResultPerBatch`). |
| `resume` | "Registered TEE node with id" names the machine the command read at its start, but the state file does not say whose steps it records: resumed after a rebuild, the command promotes the old machine and reports the new one. |

Met while reading, without a run of their own:

- "Everyone waits out `voidDelay`, including the operator" (`OrderBook.sol:235`), but `setVoidDelay`
  acts on the batch in hand, so the owner can lower it and void at once.
- "Being first in the batch is worth exactly nothing", but an odd unit of a rationed level goes to the
  earlier of two equal orders. It is worth at most that unit (`ArrivalWorthAtMostOneUnit`).
- `extension/docs/testing.md:82` and
  `extension/tools/integration/registration_test.go:42-44` disagree on whether a second extension for one
  sender is refused.
- The governance is said to default to the deployer on both sides, but the node's falls back to an
  address fixed in `docker-compose.yaml`: with neither signers nor `INITIAL_OWNER` set and another
  deployer, registering the machine fails (a reason listed in `ScriptsFailForAReason`).
