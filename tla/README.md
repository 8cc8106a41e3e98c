# A TLA+ model of perun-stellar-backend

This directory models the Stellar backend of go-perun: how two parties fund a
payment channel in a Soroban contract, watch it, dispute it, close it and
withdraw from it, through Go code that polls a ledger over two HTTP services, and
how channel states are converted between their three forms and signed. TLC checks
the modules on small instances; TLAPS proves their safety for all values of the
constants.

## The system

| Component | State it keeps | Operations | Hard because |
|---|---|---|---|
| Funder, `channel/funder.go` | none; the loop counter and the context of a running `Fund` | `Fund`: open (A), poll, deposit in turn (A first), abort at a timeout or after 30 polls | two calls race on one contract; a call can fail after it took effect; polls are stale when they are used |
| Adjudicator, `channel/adjudicator.go` | `oneWithdrawer` | `Withdraw` (close or force-close, then withdraw), `Register` | both parties do this at once, with different states; the challenge period; repeated calls |
| Subscription, `channel/adjudicator_sub.go`, `subscribe.go` | the last control, two bounded Go channels, a closer | the polling goroutine; `Next`, `Close`, `Err` | blocking sends, several changes seen by one poll, three ways to stop |
| Contract backend, `client/` | a mutex; the account's sequence number is on the ledger | eight contract methods, each simulate – sign – submit – fetch – decode | several goroutines use one account; the peer acts between any two requests |
| Events, `event/event.go` | none | decode the topics of a transaction, assert the expected one | unknown, skipped and missing events |
| Wire conversions, `wire/` | none | state, balances, params, participants and control to and from Soroban values | widths of numbers, padding, what is lost on the way |
| Signing, `channel/backend.go`, `ethbackend.go` | none | `Sign`, `Verify`, `EncodeEthState`, `CalcID` | the contract recomputes the same bytes from another form |
| Wallet, `wallet/` | the accounts of an `EphemeralWallet`, in memory | add and unlock accounts, addresses in binary form, sign, verify | it is searched by Stellar address alone; addresses outlive it |
| Asset types, `channel/types/` | none | equality, addresses, marshalling | assets of two ledgers in one channel |
| Contract (external) | the channel, the tokens | open, fund, abort_funding, dispute, close, force_close, withdraw, get_channel | only its compiled form is here (`testdata/*.wasm`) |

The Funder, the Adjudicator and the subscription interact only through the
contract, and each through the contract backend of its party. `wire` is between
the backend and the contract. The wrappers of `wire/scval`, apps, the deployment
code, the tests' set-up and the payment test client are not modelled; `PROJECT.json`
gives the reason for each, and lists the hazards line by line.

What makes the components correct:

* Funder: no deposit is left behind without an error; a timeout and a funded channel
  exclude each other; B does not pay before A, if A has to; `Fund` ends.
* Adjudicator: the payout follows one signed state; `nil` means paid; parties that
  insist are paid.
* Subscription: events are true, in order and not lost.
* Contract backend: a call takes effect at most once, `nil` only if it did;
  goroutines do not spoil each other's sequence numbers.
* Conversions: the contract accepts the signatures of every state that can be encoded,
  a signature stands for one state, and reading gives what was written and agreed.
* Wallet and IDs: an address that has been given out unlocks an account that signs for
  it, wherever the address has travelled; a channel ID stands for one channel.

## The modules

    PerunContract                      the ledger: guards (CanX) and effects (TxX)
      ContractCalls                    how a call of the contract backend can end
        Funding --- FundingRetry       two calls of Fund; calls repeated after errors
        Adjudication --> Settlement    two parties that settle, and what that promises
        AdjSubscription                one subscription, its watcher, the parties
        SignedCall --> OneCall         the steps inside one call, and its promise
    Wire                               the conversions
        Encoding                       one channel in all its forms
        Identity                       accounts, addresses and channel IDs

`MCX` instantiates X for TLC. `X_proofs` holds the theorems about X; those about
FundingRetry are in `Funding_proofs`.

**PerunContract** describes one channel with two parties and two assets (the
Funder reads `Assets[0]` and `Assets[1]`, so there are always two). The states
that both have signed are a *history*, numbered by version, chosen initially; a
signature check is membership. `Stellar` is the set of assets on this ledger; with
one asset elsewhere the channel is a swap across chains. Ledger time is the flag
`expired`. The contract is external: its rules come from how the Go code calls it
and checks its results, and from running its compiled form. Rules worth knowing:
`fund` also marks a peer that owes nothing on this ledger; `abort_funding` refunds
the only depositor and deletes the channel; `dispute` is possible until the
channel is closed, even after the challenge period; `close` takes a final state at
any time; the last `withdraw` deletes the channel.

**ContractCalls** reduces a call to three outcomes: it succeeds; the contract has
applied it and the caller gets an error; it fails without effect. `faults` counts
failures that the contract does not cause. **SignedCall** justifies this
reduction: there a call is what `InvokeSignedTx` does, step by step – mutex,
account, simulation, submission, result – with the event decoding and the Assert
functions, while other goroutines and the peer act in between. After its transaction
`Withdraw` reads balances to log them, and a method that misses its event reads the
channel (`reads`); both take the mutex again and can fail. Decoding can fail, too
(`DecodeFails`). A submission can be applied, rejected by the contract, refused for its sequence number, or time out: then
the caller gets an error and the ledger may apply the transaction later
(`LateIsIncluded`), when the goroutine is already in another call. `late` is the set of
such transactions; all have the same sequence number, so at most one of them is applied. `fresh` tells
whether the sequence number that a call has read is still the next one, has been used
up by a late transaction, or by another goroutine, which the mutex has to prevent. Each
call is shown to implement **OneCall** (`KeepsPromise`: the initial state and each step map to
those of OneCall).

**Funding** has one process per call of `Fund`; a label of `pc` is the next call
of the contract backend, and one action is that call with all the code around it.
`OpenX` is `openChannel`, `PollX` the head of the loop and the decisions after
`GetChannelInfo`, `FundX` is `FundChannel`, `BalanceX` A's loop around
`GetBalance`, `AbortX` is `AbortChannel` at a timeout or at the end. `deadline[p]`
may become true at any moment of a call. `NeedFunding` has the code's argument:
row `p` of the balances, which is asset `p`, not party `p`.

**FundingRetry** adds a new call of `Fund` after an error, and late transactions:
`late[p]` are those that Horizon has given up on. They have no time bound
(`NewInfiniteTimeout`) and one sequence number, so the ledger may apply one of them at
any moment until another transaction of the account is applied.

**Adjudication** has one process per party that runs `Withdraw` again and again
until it returns nil; `Register` may come at any time, from the party (bounded) or
its watcher. `oneWithdrawer` is chosen initially. Labels are again the next call. What `Withdraw` has read serves only
to choose that call. One party may be a state behind the other (a message that
was lost), the final one included; `FinalIsShared` says that a final state, if there is
one, is held by both. **Settlement** is the abstract
promise: an outcome that is chosen once among the signed states, and one payment of
its whole share to each party.

**AdjSubscription** models the goroutine (`FirstRead`, `Poll`, `Send`, `TakeError`,
`ContextDone`), the Go channels with their capacities, and a consumer. What the
consumer is told reaches a watcher (`Refute`), which registers the last state when the
event speaks of an older one. A goroutine that sends a second error into `subErrors` is `"stuck"`.

**Wire** has one operator per conversion, with `CanX` for "returns no error".
Soroban maps are records, addresses are atoms, an i128 has two halves of `Half`
values each and a coordinate of a public key two digits to base `Base`. `Curve` is the
set of points on the curve; a key that is nil is not in it, and `NoAccount` is an
address that does not parse. `MakeParticipant` and `elliptic.Unmarshal` refuse both,
`ToParticipant` looks at neither. A state's `Locked` is its sequence of sub-allocations;
`ToEthState` writes out their index maps.
**Encoding** runs them: the parties propose and sign states, also such as lock
funds in sub-channels (`Lockings`), the contract stores what `Open` and `Register` send, and checks signatures against the bytes that it
recomputes itself; `ReadChannel` is what the backend reads back.
**Identity** is about the parties: they add accounts to their wallets, give out
addresses, which reach the peer in binary form, lose their wallets at a restart, and
party 1 proposes channels with addresses that may be outdated; `Open` sends the params
to the contract. `accounts[p]` is the map of `EphemeralWallet`, keyed by `String`.

## The runs

| Run | Distinct states | What it asks |
|---|---|---|
| `funding` | 17440 | two Funders, both assets here: results, order, termination |
| `funding_retry` | 14150 | a cross-chain swap, `Fund` called again after errors, transactions applied late |
| `adjudication` | 337093 | two parties settle, on one or two ledgers, with two withdrawers or one: refinement of Settlement, `nil`, termination |
| `subscription` | 49685 | true, ordered and complete events; disputes are answered |
| `calls` | 286412 | two goroutines of one backend: sequence numbers, refinement of OneCall, no starvation |
| `encoding` | 81762 | conversions and signatures |
| `identity` | 93512 | accounts, addresses in their three forms, channel IDs |
| `funding_alone`, `funding_order`, `subscription_close`, `encoding_backends`, `encoding_balance` | – | violations: see Findings |

### Properties

*Funding.* `SafeReturn`: after nil
or a timeout the channel is funded or the caller has all its tokens.
`TimeoutIsFinal`: a timeout excludes the channel, also later. `StrandedIsReported`:
a deposit that stays behind was reported as an error. `DepositOrder`: if A owes
any of the first asset, B pays in only while A's deposit is there. For the other assets
the code does not keep the order (see Findings). `FundReturns`: every call ends, if
`GetBalance` answers in the end.
`LateIsHarmless`: after nil or a timeout none of the caller's late transactions would
still have an effect.

*Adjudication.* `KeepsSettlement`: the two Adjudicators implement Settlement, so the
outcome is never replaced, nobody is paid before it is settled, and a payment is the
whole share of that one state, once. `EscrowCoversClaims`: what is still to be paid
is there. These two and `GoneMeansPaid` are promised only if `FinalIsShared`: otherwise
the party without the final state force-closes, a late `Close` of the other one replaces
that outcome, and the payouts follow two states. Without the premise TLC finds
all three violated. `NilMeansPaid`, `NilMeansBothPaid`: what the caller may conclude from
nil. `GoneMeansPaid`: a deleted channel has paid both. `Settles`: if both ask with
the last state, and no challenge period ends on an older one, both end up with
their shares of it. With one withdrawer, `NilMeansBothPaid` and `Settles` speak of
networks in which no call fails: B drops an error of `withdrawOther`, A is never
told, and nobody withdraws for A again.

*AdjSubscription.* `EventsAreTrue`, `ConcludedIsLast`, `DisputeTold`, `ClosingTold`.
`Refuted`: a dispute with an older state is answered with the last one, although no
event carries the version of the dispute, unless time runs out or the channel is
closed first. The return of the goroutine after a withdrawn event is never taken: the
event is built empty, so that `GetType` finds no withdrawal in it.

*SignedCall.* `OwnSequence`: whoever submits has the mutex and a current sequence
number. `KeepsPromise`: see above. `SuccessIsTold`: a call that was carried out, by
every method but Close, ends in an error only because a request or the decoding fails.
`CloseNeverNil`: Close never returns nil, so that `Adjudicator.Withdraw` has to read the
channel after each Close. `CallsReturn`: nobody waits for the
mutex for ever.

*Encoding.* `SignaturesAreAccepted`: the contract recomputes the signed bytes.
`SignatureBinds`: a signature is good for one state with its sub-channels; the only
states that share one are a sub-channel without an index map and with the map that this
stands for. `ReadIsRegistered`: the state and, but for Ethereum addresses, the params.
`ReadIsAgreed`: what is read is the one state of its version that both have signed,
although a proposal that the peer rejected may have a signature and the same version.

*Identity.* `SignaturesVerify`: what a party unlocks for its own address, as it comes
back in a proposal, signs for the participant that the peer knows, and over the same
ID. It holds for addresses given out since the last start; without that condition it
does not (see Findings). `IdBinds`: params with one ID are the same params.
`IdSurvives`: params read off the contract have the channel's ID exactly if no part
has an Ethereum address.

### Bounds

* Parties and assets are two, as in the code. `MaxIters` is 30 in the code; 3 (2
  with retries) is enough for a poll that comes too early, one that leads to the
  deposit and one that sees the end, and the proofs do not bound it.
* `MaxFaults` is 1 to 3: a call that fails and the calls that react to it.
  `FundAgain` needs an error; a rejected call is one, so it is not bounded by it.
* `MCHistories`: for funding, every pattern of who owes what, and a share that
  cannot be paid; for adjudication two or three versions, final or not, in which
  a party gains or loses all of an asset, plus a channel without updates. An asset of
another ledger has zero shares on this one.
* `BufferSize` is 2 for a buffer of 1024: full, partly filled and empty.
  `MaxRegisters` bounds what a party registers beside its watcher; versions rise,
  but version 0 may be registered again without end.
* `Half = 4`, `Base = 4`: the halves 1, 2, 3 are below, at and above the sign bit;
  coordinates 2 and 0 have a leading zero. `MaxVersion`, `MaxRejected`, `Amounts` and
  `Controls` bound the updates, the rejected proposals, the balances and the
  controls in `Encoding`, `Lockings` the sub-channels: none, one without an index map,
  with the map that this stands for, and with the other one.
* `MCAccounts` has two keys for one Stellar address, one key for two addresses, and
  keys with leading zeros; two proposals are enough to compare IDs, one restart makes
  addresses outdated. The proofs bound none of them.

`CHECK_DEADLOCK` is off where the processes end or the system may rest (both calls
of `Fund` have returned, the channel is gone and nobody calls, the bounds of
`identity` are reached, a channel of `encoding` whose params are refused is never
opened).

### Fairness

A goroutine that can run does run: weak fairness of a call's steps (`CallStep`,
`Settling`, `Goroutine`, `Runs`). `Fund` itself, a deadline, a failing request and the
peer's transactions are never forced. In `Adjudication` a party answers an error with
another call, its watcher registers what it holds, and time passes (weak fairness of
`ChallengeEnds`). In `AdjSubscription` the consumer calls `Next` again and again, and
the watcher acts on what it is told (weak fairness of `Refute`). A late transaction is
never forced. In `SignedCall` a waiting goroutine gets the mutex if it is free again and
again (strong fairness of `Lock`): Go's `sync.Mutex` hands over to a waiter after a
millisecond.

## The proofs

`Funding_proofs` proves the type invariant, the three other invariants and the
action property of the run `funding` for every set of histories, every endowment,
set of Stellar assets, loop bound and number of failures. None of the invariants is
inductive. `IInv` adds that the escrow is the sum of the deposits (`EscrowInv`), where the processes can be and when they have a result
(`ControlInv`), that a channel that is not open has no trace of an earlier one
(`ChanInv`), that A opens once and nothing was seen or aborted before (`OpenOnce`),
that a caller with nil or a timeout is not the only depositor (`ReturnInv`) and
that A's deposit can only disappear with the channel while B is about to pay
(`TurnInv`). `OneTransaction` splits a step into what it does to the contract and
what to a process, so that each part of `IInv` is preserved by a few transactions
rather than by all actions.

For FundingRetry, where A may open again and B's poll may be from an earlier channel,
`OpenOnce`, `TimeoutIsFinal` and `TurnInv` do not hold. `RetryInv` has three facts
in their place: only who has to pay submits a deposit or is alone in the channel
(`NeedInv`); a late opening belongs to a call that is in error or not past it
(`LateOpenInv`); who was told of success or of the timeout has no deposit in a channel
that is not fully funded, and no late transaction that could bring one (`ToldInv`).
`LateIsHarmless` and the properties of Funding follow.

`FundAdvances` is the safety half of `FundReturns`: `WorkLeft`, from the loop counter,
the label and the failures that are left, is a natural number that every step of a call
decreases and that no other step increases. With the weak fairness of `CallStep` this is
why the call returns; that last step is TLC's.

`PerunContract_proofs` has what all proofs need of the contract: shares are natural
numbers, each state of a history distributes the same amount, and each transaction
keeps the types.

`Adjudication_proofs` proves every safety property of `adjudication`, the refinement of
Settlement included, for every history, endowment and number of failures. The
link is `ChanInv`: the history variable `settled` agrees with the version of a closed
channel. The types, the control flow and `ChanInv` are inductive for all parties
(`BaseInv`); the rest follows the money and needs `FinalIsShared`. Then `SharedInv` says
that a final state is the only outcome, because nobody who knows it force-closes. With it `MoneyInv` (a party has its endowment or what it was
paid besides) and `EscrowInv` (the escrow is what is not withdrawn) make each payment
a whole share of one state. `ReturnInv` and `FirstA` are what nil stands for, with
two withdrawers and with one. TLC finds that nil stands for it without
`FinalIsShared` too; the theorems have the premise.

Beyond the runs' properties it follows all tokens: wallets and escrow always add up to
what there was (`NoTokenIsLost`); and, if `FinalIsShared`, a deleted channel leaves
nothing in the contract (`NothingIsLeft`), and until then what a party is owed is there
and can be withdrawn (`ClaimsAreMet`). The rest holds for all parties. The last state
wins if it gets there: once a version is registered no older one is ever the outcome
(`OutcomeIsNotOlder`, for a fixed version, with `VersionStep` for each transaction). Of
`Settles` it proves what is not fairness: a channel that is not settled can be closed,
force-closed, waited for or disputed with the last state (`NoDeadEnd`; for it
`StartInv`, that an undisputed channel is at version 0), and a call of `Withdraw` never
goes back (`WithdrawAdvances`, with `CallsLeft`).

`SignedCall_proofs` proves `OwnSequence` and that each call implements OneCall, for any
number of goroutines: `MutexInv` leaves one goroutine between Lock and Unlock,
`FreshInv` says that its sequence number is not used by another, and `ServedInv` that
a call takes effect only between its submission and its result or by a late
transaction, once it has returned an error. `MutexIsReleased` is `MutexInv` in both
directions: no path of a call, error or not, keeps the mutex. For `SuccessIsTold`,
`TopicsInv` ties the topics that a call has fetched to what its method emits
(`TopicsOf`), and `EventsAreFound` takes each method through its decoding and its assert, so that no
method ever reads the channel again (`NothingIsReread`). With this `ReturnEnds` gives the
result of each call (`SuccessTold`, and `CloseIsNeverTold` for Close). `CallsAdvance` is the safety half of `CallsReturn`: no answer and no other
goroutine sends a call back.

`AdjSubscription_proofs` proves `EventsAreTrue` and `ConcludedIsLast` for every buffer
size; `OrderInv` is the order of the events in the Go channel, before and behind it.
`BehindInv` says that the stored control is an earlier one of the channel's, so that a
comparison with an existing channel never finds an error. From it follow the safety halves
of `DisputeTold` and `ClosingTold`: without failures the goroutine is never blocked on its
own errors and ends only when it is cancelled (`ListensOn`); each poll builds the event
of the channel's stage, and no other (`PollsTell`); and a dispute that begins after the
first read never gets into the stored control, failed polls included
(`DisputesStayNews`).

`Wire_proofs` proves for halves of every even width that a balance that
`MakeInt128Parts` accepts comes back from `ToBigInt`, that the contract sees the
same number, and for which balances `GetBalance` is right (`CombinedBalance`). For
bytes of every width it has the round trips of keys, participants and params, on
which the next two rest.

`Encoding_proofs` proves all five properties of `encoding`. The invariants needed are
that states stay well formed (as many balances and backends as assets, each backend
that of its asset), that signed states have the ID and the assets of the current one,
so that the encoding is injective up to the index maps (`EncodingIsInjective`), that a
state that locks nothing is signed as it is (`WithoutSubChannels`), and that what is
stored was made from the params and from `source` (`StoredInv`), so that reading it is a
round trip. `AgreedInv`
adds that there is one agreed state for each version, although a rejected proposal may
have one signature and its version. With the first two, `RegisteredWasSigned` and
`ReadWasAgreed` join the whole way from signing to decoding: what is registered after the
opening, and what is read back, is that state.

`Identity_proofs` proves the three properties of `identity` for bytes of every width,
all accounts and any number of proposals and restarts. `IInv` says that a wallet is
keyed by the addresses of its accounts, that what has been given out since the start is
in it, and that proposals arrive as they were sent. That the ID is injective
(`IdIsInjective`) is a lemma over the bytes.

The assumptions are the named ASSUMEs of the modules; TLC evaluates them in each
run. Only model-checked are the liveness properties (`FundReturns`, `Settles`,
`DisputeTold`, `ClosingTold`, `Refuted`, `CallsReturn`); every other property of a passing
run is a theorem. Liveness under fairness, ENABLED, operators as parameters and induction
over data are out of the prover's reach. So that event decoding can be reasoned about, the
events of a transaction are a set of records with their place (`DecodeEventsPerun`), and
the first one decides (`IsFirst`).

## Findings

Each is a violation run and an entry in `PROJECT.json`.

* `AloneIsNotFunded`: `Fund` returns nil to A after an abort at the end of its loop,
  where a test expects the funding timeout.
* `AFundsFirst`: B pays before A when only the second asset is paid in, because
  `needFunding` is given the row of an asset instead of what party A owes; the comment at
  `funder.go:161` has A fund first.
* `CloseEnds`: `Close` of a subscription does not end its goroutine.
* `BackendsFit`: states read from the contract have two zero backends.
* `BalanceIsCombined`: token balances with bit 63 set are read as negative numbers.

Other divergences that need no run: `ContractBackend.Close` returns "close event not
found" after each successful close (`client.go:156`, `event.go:63`), which
`CloseNeverNil` shows; `containsAllAssets` is satisfied with one known asset (`funder.go:266`);
`Fund` opens the channel also if it is open (`funder.go:205`, comment at 68); the
version of a `DisputedEvent` of a subscription is never set
(`adjudicator_sub.go:184`, `subscribe.go:45`); an asset of another ledger comes back
as a Stellar asset with a random address (`wire/balances.go:329`); `convertAssets` tells
the two apart by an `xdr.ScAddress{}`, which no address that the contract returns equals
(`state.go:306`), so that `createEthAsset` is never called;
`StellarAsset.Equal` compares types only (`types/asset.go:144`). `String` of a
participant is said to hold its public key and does not (`address.go:117`), so an
address of a wallet that was lost unlocks another account with the same Stellar
address. A test requires that params keep their ID through the contract's form
(`params_test.go:78`); with an Ethereum address they do not. `GetType` of the withdrawn
event of a subscription is an error, so the goroutine never returns there
(`adjudicator_sub.go:122`). A subscription that starts during a dispute never tells it
(`adjudicator_sub.go:82`).

## Limits

* The contract is modelled from its use; a difference between `PerunContract` and
  the deployed contract is not seen here.
* Late transactions are in `FundingRetry` and `SignedCall`; in `Funding`,
  `Adjudication` and `AdjSubscription` a call that fails has taken effect at once or
  never does.
* A crash between two calls is, for the ledger, a next call that never comes or that
  fails; the Funder and the Adjudicator keep nothing across it. `Restart` of `Identity`
  is the loss of the wallet.
* If only one party holds the final state, its `Close` can land on a channel that is
  force-closed and half withdrawn, and the two payouts follow two states. `Adjudication`
  has that case, but no property forbids it: the code and the contract give no
  protection, and whether it comes up is decided by the protocol between the parties,
  which is go-perun's.
* `MaxFaults = 1` in `calls` leaves one late transaction at a time; more of them are in
  the proofs only.
* A `GetBalance` that never answers keeps A in its loop for ever (`funder.go:135`);
  `FundReturns` excludes it, as every failure is counted.
* `DepositOrder` is a property of single calls: when `Fund` is repeated, B's stale
  poll can meet a channel that A has aborted and opened again.
* `Encoding` has no apps. States with locked funds, or whose balances are beyond an
  i128, can be signed and not be registered; the model has them, and no property
  excludes them.
* Cryptography, XDR, HTTP, fees and the clocks of events are left out.

## Not modelled

`wire/scval` has one constructor of the Stellar SDK per function; `channel/deploy.go`
and `channel/test` deploy and fund on a test network; `payment/test` is an example of
a go-perun client. `LedgerBackendID`, the map keys and the binary form of assets serve
only go-perun. None of them holds state of a channel.

## Plan

Done: the contract, funding with retries and late transactions, adjudication and its
abstract settlement, the subscription and its watcher, the calls of the backend, the
conversions, the signing, accounts and IDs; the proofs above.

Next, in this order:

1. A composition of Adjudication with the watcher of AdjSubscription, in place of
   `Watch`.
2. Late transactions in `Adjudication`: a `Close` or a `Withdraw` that is applied after
   the caller has called again.
