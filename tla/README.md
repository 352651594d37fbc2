# GrowthAgent in TLA+

GrowthAgent lets buyer agents negotiate a cart with a merchant and pay for it. A
request is claimed by its idempotency key and run through a pipeline: a language
model proposes a bundle, a citation audit and a deterministic gatekeeper judge it,
a merchant may be asked. Settlement then holds stock, creates an order at Razorpay
(or at a mock provider), waits for webhooks and records the sale. Everything is one
Node.js process per replica, with PostgreSQL (and Redis for leases) as the only
shared state, so HTTP requests, webhook deliveries, detached runs, queued
completions and timer-driven sweeps interleave at every `await`.

This project models that system, checks it with TLC and proves its core with TLAPS.
Paths below are relative to `src/` (and to `src/api/src/` when they start with
`settlement/`, `pipeline/`, `http/`, `gatekeeper/`, `negotiation/`, `campaign/`).

## 1. Inventory

| Part | State it keeps | Operations | What makes it hard | What makes it correct | Module |
|---|---|---|---|---|---|
| Stock ledger: `settlement/reserve.ts`, `completion.ts`, `releaseExpiredHolds` | `inventory`, `stock_reservations`, `identity_velocity` | reserve, re-reserve, release, expire, commit, each one SQL transaction | concurrent carts over the same counters | no unit is sold or promised twice; counters agree with holds | `StockLedger` |
| State machine: `settlement/state-machine.ts` | `transactions.state` | casTransition | every writer races every other | states follow the authority table | `TxStateMachine` |
| Settle worker, order creation, webhook handler, completion, sweep: the rest of `settlement/` | `razorpay_orders`, `processed_webhook_events`, `completed_sales`, calls queued in memory | T1 to T8, W1 to W8 | crashes anywhere, lost replies, reports twice, late or early, a sweep that decides by age | money taken is never lost from sight, sold once, with its stock; everything interrupted is finished by somebody | `Settlement` |
| Webhook parsing, signatures, simulator: `settlement/provider/*`, boot in `server.ts` | the secrets a process booted with | boot, sign, verify, freshness, insert first, redrive | secret rotation, retries, failures before and after the insert | an acknowledged report is dispatched or on the sweep's list | `Delivery` |
| Idempotency gate: `settlement/idempotency/*`, `routes.ts` | Redis lease, PostgreSQL twin row | acquire, peek, replay, abort, finalize | Redis forgets; either store throws | one execution per key; a replay is a true answer | `Idempotency` |
| Intake, pipeline runs, approvals, stall sweep, poll: `http/proposals.route.ts`, `pipeline/orchestrator.ts`, `pipeline/approvals.ts`, `pipeline/stall-sweeper.ts`, `http/admin-approvals.route.ts` | `proposal_idempotency`, `proposal_txs`, `approvals` | post, the stages, mint, settle, escalate, approve, reject, expire, sweep, poll | a detached run against an inbox, a sweep, a rules change and a crash | one run per key; no money before a decision; what a poll says did happen | `Pipeline` |
| Audit chain and event stream: `pipeline/audit-chain.ts`, `emitter.ts`, `bus.ts`, `http/stream.route.ts`, `web/src/hooks/*` | `audit_log`, tail and queue in memory, subscription, buffer, the page's trace | append, publish, replay, live frames, poll to close, reconnect | replicas append together; rows between replay and subscription; a page that redials | the chain verifies; frames in order, each once; the page stops | `EventStream` |
| Rules store: `rules/store.ts`, `http/admin-rules.route.ts` | `merchant_rules`, a cache per replica | load, refresh, guarded PUT | two PUTs, stale caches | no update lost; drift bounded | `RulesStore` |
| Limits: `http/rate-limit.ts`, `http/auth.ts`, stream ledger | token buckets, failure budget, stream slots | look, spend, prune, admit, release | checks and charges split by an `await`; pruned buckets start full; a client may leave before its slot is counted | no door lets in more than its budget | `FrontDoor` |
| Gatekeeper: `gatekeeper/` | none (pure) | build context, 16 rules, aggregate | dependencies, merged lines, bounds inclusive or not | the verdict is the policy's | `Gatekeeper` |
| Money: `shared/src/money.ts`, `http/mandate-builder.ts` | none (pure) | apportion, split lines, mandate | indivisible paise | no paisa made or lost | `Money` |
| Shared schemas: `shared/src/schemas.ts` | none | acceptance of rules, carts, proposals, results | refinements across fields | what is admitted never fails structurally | `Schemas` |
| Negotiation: `negotiation/`, `pipeline/evidence.ts`, `shared/src/negotiation/` | the ladder of calls of one run | call, retry, repair, fall back, audit, adapt | failure or time-out at every rung | an offer sells what is there and quotes what is true | `Negotiation`, `Offers` |
| Campaign, catalogue, explainer: `campaign/`, `catalog/`, `explainer/` | a cycle's set | assemble, write, verify, fall back, enrich, narrate | model answers of any kind | what is published was checked | `Authors` |
| Demo control plane: `http/scenario-runner.ts`, `admin-chaos`, `admin-reset`, `chaos.ts` | runs, flags | start, poll, judge, arm, reset | a reset in several statements under live runs | a green tick is earned | `Demo` |
| Read routes: `http/admin-analytics.route.ts`, `http/admin-audit.route.ts` | none | seven queries at once; list; replay | snapshots of different moments | panels agree when nothing moves, and are never outside what was true | `Dashboard` |

How they interact: `Pipeline` calls settle and sees the state machine's row move;
`Settlement` uses the ledger and the state machine (it extends both); `Delivery` ends
where `Settlement`'s `Deliver` begins; `Offers` is the inside of one `Pipeline` run,
from the first model call to the mandate; `EventStream` carries what the pipeline
emits (settlement audits to a sink in memory, `audit/writer.ts:55`; nothing wires
`ChainedAuditSink`).

### Not modelled

- The web console's screens and components: presentation. Its stream hook, trace reducer
  and poll hook are in `EventStream`.
- Prompts, wording, layout, logging, SQL analytics that feed the campaign, calendars,
  fixtures, migrations other than the constraints quoted, scripts.
- The access guard and agent administration (`admin-guard.ts`, `admin-agents.route.ts`): a
  comparison of keys and single-row writes, with no step of another actor between.
- PostgreSQL row locks: two transactions that lock inventory rows in different orders
  (`completion.ts:39`) are aborted by the database and retried by the sweep; the model has
  the abort (`StatementFails`), not the lock graph.
- A second replica's settlement sweep: every statement of the sweep is guarded by a
  compare-and-set that the model already interleaves with workers and handlers.

## 2. Modules

| Module | Extends |
|---|---|
| `StockLedger`, `TxStateMachine`, `Settlement` | `Settlement` extends both |
| `SalePromise` | abstract: money is taken for a cart, a paid cart is sold once, off a shelf that has its units |
| `Pipeline` | `TxStateMachine` |
| `Idempotency`, `RulesStore`, `FrontDoor`, `EventStream` | |
| `Money`, `Gatekeeper`, `Schemas`, `Negotiation`, `Offers` | each the one before; `Offers` extends `Negotiation` and `Schemas` |
| `Delivery`, `Demo`, `Authors`, `Dashboard` | |
| `MCStockLedger`, `MCSettlement` | constants of the settlement runs |
| `MCServices` | the four services, one at a time |
| `MCOffers`, `MCBackOffice` | carts, replies and rules; offers, deliveries, demonstrations, texts and the board, one at a time |
| `StockLedgerProofs`, `SettlementProofs`, `SettlementOrderProofs` | theorems about the ledger, settlement and the order it creates, each module extending the one before |
| `PipelineProofs` | theorems about `Pipeline` |
| `EventStreamProofs`, `ServicesProofs` | the audit log and its streams; the theorems about `MCServices`, extending both |
| `OffersProofs`, `BackOfficeProofs` | money and the decision of an offer; the theorems about `MCBackOffice`, extending both |

`MCServices` and `MCBackOffice` compose modules that share no state: a variable `part`
says whose steps a behaviour is made of and the others stay where they begin, so one
run asks each module its own questions without multiplying their states.

An operator whose name ends in an underscore and a phrase (`Acquire_NoNX`) is the
definition with a plausible bug in it; no specification uses it. It is there to show
that the property next to it would notice.

### StockLedger

One action per SQL transaction; a transaction that rolls back changes nothing
and is not a step. All rows of a cart are inserted, flipped and dated by one
statement, so the status is kept per cart: `hold[t]`. `due[t]` stands for
`expires_at < now()`. A unit is a pair of a cart and an index, so `SUM(qty)` is a
cardinality (`Total`). Made-to-order lines take no shelf units (`ShelfQty`) but
count as sold.

| Action | Code |
|---|---|
| `ReserveCart`, `ReserveCartCounted` | `reserveCart` without and with its velocity argument |
| `ReReserveExpiredHolds` | the grace re-reservation; its filter `status IN ('EXPIRED','ACTIVE')` is kept |
| `ReleaseHolds` | `releaseHolds` |
| `ReleaseExpiredHolds` | `releaseExpiredHolds`, one statement over every due cart |
| `CommitHolds` | the hold-to-sale part of `completeTransaction` |
| `HoldLapses` | the clock passes `expires_at` |

Abstracted: all carts belong to one identity and one day; the value ceiling
(`approved_paise`) is folded into the count ceiling; prices do not appear.

### Settlement

Processes are the settle worker of each transaction (named by the transaction),
one handler per webhook event and the sweep. `pc[p]` says which statement `p`
does next; a value read earlier and used later is kept (`seen`). An action is one
statement, one SQL transaction or one provider call, so every interleaving of
the code is a behaviour. `TxOf(p)` is the transaction a process works on.

| Actions | Code |
|---|---|
| `SettleInsert`, `SettleReserve`, `CasReserved`, `CasReleased`, `T5Release`, `T5Fail` | `settle` T1, reserveCart, T2, T3, the T5 catch block |
| `Claim`, `WriteIntent`, `CreateOrder`, `RecordOrder`, `AdvanceCreated`, `AdvanceAwaiting`, `MarkAmbiguous` | `ensureOrder`, for a worker and for W2 and W3; `OrderFails` is where its error leads each caller |
| `CreateOrderFails` | the provider throws: unavailable (503, holds kept) or rejected (T5), the order created or not |
| `Deliver`, `HandlerRead`, `LateCapture`, `HandlerCas`, `HandlerRelease`, `MarkProcessed` | `webhookHandler`, `dispatchParsed`, `onCapture`, `lateCapturePolicy`, `onFailure`; the W6 redrive runs the same steps as `Sweeper` |
| `CompleteTransaction`, `QueuedCompletion`, `SweepComplete` | `completeTransaction`, fired by `queueCompletion` or by W7 |
| `SweepExpireTxs`, `SweepReleaseExpired`, `SweepSelect`, `SweepReserve`, `SweepOrder`, `SweepRedrive`, `SweepEnd` | the expiry passes and the ladder, in tick order |
| `StatementFails`, `Crash` | a database error at any statement; the process dies and its memory is lost |
| `BuyerPays`, `BuyerPaysMismatch`, `PaymentFails` | provider and buyer (external): what may be reported, and when an order is payable |

There is no clock. A hold may lapse at any moment after the request that took
it has ended; the age thresholds of the sweep (30 to 120 s) and the grace window
are free choices. The switches of a run say which timings are considered:
`SlowRequests` (a live request may outlast the sweep's thresholds and the payment
window), `BuyerPolls` (the buyer may pay as soon as `GET /v1/tx` shows the order id,
not only after settle's reply), `HoldsLapse` (the 15-minute window may run out),
`VelocityWired` (`server.ts:179` passes `undefined` today; the code path exists and is
modelled), `ProviderKind` (the mock is idempotent by receipt; Razorpay refuses a second
order with the same receipt), `MaxFaults` (crashes and errors together).

### Pipeline

A request's worker is `<<r, "run">>`; the two inbox handlers of a transaction are
`<<t, "approve">>` and `<<t, "reject">>`. `Post` is the intake up to its answer; `RunStep`
takes a run from `InsertRun` through `ContextBuild`, `Negotiate`, `CitationAudit`,
`ReadRules`, `Gatekeeper` and the routes (settle, decline, escalate); `SettleStep` is the
settlement call seen from outside; `TransactionMoves` lets the row move along the
authority table, which `LegalMoves` of `Settlement` shows is all it does; `InboxStep`,
`ApprovalLapses` and `StallSweep` are the other writers; `PutRules` changes the rules at
any moment; `Throws` and `Crash` are the faults. `Poll(t)` is the body a buyer is given.
The version of the rules is carried from the snapshot through the pin to the mint, since
that is what the E-09 comment promises.

### Services

- `Idempotency`: an action per store call of the middleware, for the lease (`SET NX PX`,
  `GET`, `DEL`, `SET`) and its durable twin. `RedisLoses` is a lapse or a flush. `settle` may
  fail before or after it inserts the transaction's row, and the `GET` of a call that found
  the key taken is outside the middleware's `try`: its rejection ends the process
  (`ProcessEnds`).
- `RulesStore`: time in ticks; `BeginRead` and `EndRead` are the coalesced refresh of a
  replica, `PutBegins` to `PutPublishes` the guarded PUT with its cooldown.
- `FrontDoor`: the failure guard, authentication, token bucket and stream ledger a
  request passes, with the `await` between guard and charge kept apart. `openStreams` and
  the count per agent are the two counters of the code, which nothing but the code
  keeps together; `passed` and `charged` are running totals of what was let through. A slot
  is not a socket: a client that leaves while its stream is being authenticated is admitted
  all the same and its slot is an `orphan`, and a stream that throws gives its slot back and
  stays open (`thrown`).
- `EventStream`: a chain appended to by every replica under the advisory lock, the
  stream of one transaction (subscribe, replay, flush the buffer, live, drain and close
  on the poll; every query may throw, and a stream that has finished hears nothing),
  and the page that folds frames, reconnects with Last-Event-ID and stops. When the first
  `isTerminal` throws, neither heartbeat nor poll is armed: `conn.pc` is `unpolled`. A frame
  read and the page's effect of it are one step.

### Decisions

`Money`, `Gatekeeper`, `Schemas` and `Negotiation` are operators: the apportionment and
rounding in paise, the sixteen rules with their dependencies, the schemas'
refinements, the evidence pack, the citation audit and the fallback bundle. `Offers` runs
them as one pipeline run does, with the ladder of model calls (time budget, retry,
repair, fallback), and `PolicyOutcome` is the reference verdict, written from the
rules' headers without order, dependency or trace. Instants count half seconds and
percentages thousandths, so that the code's own flooring and rounding show.

### Delivery, Demo, Authors, Dashboard

- `Delivery`: environments a process may boot with (and those it refuses), letters signed
  with the secret of the day, copies on the wire, the two-phase ingress and the sweep's
  redrive. Express 4 does not catch a rejected handler: what the handler throws ends the
  process, and the model lets it (`Dies`).
- `Demo`: a scenario's claim, poll and judgement, chaos flags, and the reset as the
  separate statements it is. The pipeline is what the demo can see of it.
- `Authors`: campaign cycles, catalogue batches and explanations, with every answer a
  model may give and the check that decides what ships.
- `Dashboard`: what runs leave in the tables, and the three read routes as operators on
  tables; while the board loads, `loading` keeps what the tables have been, and every
  answer is one put together from those moments.

## 3. Runs

| Run | Configuration | Distinct states | Shows |
|---|---|---|---|
| `ledger` | three carts over two skus that together ask for more than the shelf has, a velocity ceiling of two | 3,808 | `StockWithinBounds`, `HoldsAreBacked`, `UnitsAccounted`, `NoOversell`, `VelocityCounted`: counters stay in range, every live hold is in `reserved`, every unit is on the shelf, held or sold, and the ceiling is never passed |
| `webhooks` | one transaction, late and double reports, lapsing holds, one fault | 98,651 | `TypeOK`, `PaidWasCaptured`, `AmbiguousUnpayable`, `SaleMatchesState`, `LegalMoves`: PAID only behind a capture, an order known to be ambiguous is never payable, a sale and its state are one fact |
| `promise` | two transactions for one unit | 96,600 | `LedgerSpec`, `PromiseKept`: the module implements the ledger and the abstract promise |
| `slow_requests` | requests that outlast the sweep's thresholds, one fault | 6,855 | `CaptureRecorded`, `OrderedWasReserved`, `ClaimExclusive`, `PaidCompletes`: two workers on one transaction do not lose a capture, order without stock or create orders at once, and a paid cart completes |
| `live_lapsing` | holds lapse, one fault, fairness | 10,447 | `EventsProcessed`, `HoldsEnd`, `ReserveResolved`: reports, holds and interrupted reservations all come to an end |
| `pipeline` | two requests of one key with either body, two rules versions, one fault | 166,282 | `KeyNamesOneRun`, `SettledWasDecided`, `OutcomeIsTrue`, `RunsEnd`: one run per key, no transaction without a decision, what a poll says happened, and every run gets an outcome |
| `services` | the four services, two replicas, three calls | 592,698 | `ExecutionsExclusive`, `ReplayIsTrue`, `NoUpdateLost`, `DriftBounded`, `AdmissionBounded`, `FramesInOrder`, `PassedOverWasElsewhere`, `ChainVerifies`, `StreamEnds` |
| `back_office` | carts and replies at every boundary, one report, one scenario, up to four opportunities, two carts on the board | 174,720 | `GateFollowsPolicy`, `PaiseConserved`, `OfferIsGrounded`, `AckedIsKept`, `VerdictIsTrue`, `PublishedIsSound`, `BoardIsTrue`, `ScenarioEnds` |

Each of these properties is broken by at least one of the buggy definitions mentioned in
section 2, under the configuration of its own run.

`CHECK_DEADLOCK FALSE` where the system really may stop: a ledger with every cart
closed, a pipeline with every run over, services with nothing more to ask. `Settlement`
never stops, its sweep ticks for ever.

Bounds of the settlement runs. One transaction is enough for most properties of
`Settlement`: its processes interact through one transaction's rows, and transactions
meet only in the shelf (run `promise`, two carts and one unit) and in the velocity count.
One sku with one unit suffices there because `ledger` and the proofs cover
quantities. Two reports of one payment give two handlers, plus the sweep's redrive
of either. One fault is one crash or one error at any statement; it already
gives every resume path. In `slow_requests` holds do not lapse, failed attempts
are not sent and the buyer does not poll, because with any of those the code
does lose a capture (section 5).

Bounds of the others. `pipeline`: two requests and one key are the race for a claim
(requests, like PUTs of the rules, are named in the order they arrive: which name comes
first makes no difference);
two versions of the rules are a change between any two steps; one crash or error.
`services`: two replicas are one writer and one that missed the write; three calls of one
key are a holder, a loser and a retry after a loss; three requests of two agents over
buckets of one token reach every refusal within two ticks; a chain of two rows already
has a row of the other replica before one of the stream's own. `back_office`: carts, rules and histories
are chosen on and next to each boundary (a paisa, half a second, a thousandth of a percent);
`MaxSafe` is 2^31 - 1 because TLC's integers are 32 bits wide, and no cart comes near it;
one report with two requests in hand, two secrets and one trouble; one scenario, one
operator call; two calls per item and two entries per set against up to four
opportunities; two carts of which one may go as far as a completed payment, a window that
does not start on a bucket, and one change while the board is loading.

### Runs that end in a violation

Each takes a sentence of the repository's own documents or comments and shows
a behaviour of the code that contradicts it.

| Run | Statement | What happens |
|---|---|---|
| `v_phantom_reservation` | `ReservedIsExact`: effect exactly once (`webhook-handler.ts:152`) | both reports of one late payment take the re-reservation, whose filter accepts ACTIVE rows; one cart counts twice in `reserved`, for good |
| `v_paid_lapse` | `PaidKeepsHolds` (`completion.ts:4`) | expiry looks at `expires_at` alone; a PAID transaction loses its holds and can never complete |
| `v_two_resolvers` | `OneResolverWins` (`docs/design/api-contract.md:827`) | an approve that comes after the expiry is refused by `resolveApproval` and answered 202 all the same (`server.ts:224`); the reject that then wins is answered 202 too. The loser of the compare-and-set itself is answered 409 |
| `v_slot_leak` | `SlotsEndWithSockets` (`http/stream.route.ts:148`) | the client leaves while authentication or ownership is awaited; `close` has been emitted before anything listens for it, and the slot then counted is never given back |

### Fairness

`FairSpec` of `Settlement` assumes weak fairness of every request that is already running,
of queued completions, of the clock and of the sweep loop: a request in memory runs
on until it ends or dies, and `setInterval` keeps ticking. It assumes strong
fairness of selecting a row that is a candidate in tick after tick: its age
grows past every threshold. `PipeFairness` assumes weak fairness of the steps of runs,
inbox handlers and the stall sweep; `ServicesSpec` of the stream's and the page's own
steps; `BackOfficeSpec` of the clock and of a scenario's runner. Nothing is assumed of
buyers (they may never settle or pay), of merchants (they may never answer), of the
provider (it may never deliver), of the pipeline as a scenario sees it, or of faults.

## 4. Proofs

`StockLedgerProofs`, for every finite set of carts, any skus, quantities up to
`MaxLineQty`, any initial stock and ceiling (`LedgerAssumption`):

- Lemmas about `Units` and `Total`: finite, additive over disjoint carts.
- `StepKeepsInv`: `LedgerInv`, the conjunction of `LedgerTypeOK`, `StockWithinBounds`,
  `HoldsAreBacked`, `ShelfConserved` and `SalesCounted`, is inductive. The parts need each other:
  expiry keeps `reserved` non-negative only because `HoldsAreBacked` bounds the sum it
  subtracts, and `HoldsAreBacked` survives a commit only through its guard.
  `HoldsAreBacked` is an inequality because the grace re-reservation can count a cart
  twice; with equality it would not be inductive, nor true.
- `LedgerTypeCorrect`, `BoundsHold`, `TripwiresSilent`, `ShelfIsConserved`, `SalesAreCounted`,
  `NeverOversold` follow; `UnitsAreAccounted` joins two of them into `UnitsAccounted`, the form
  the run checks. `VelocityIsCounted` has its own induction, on the fact that reserved
  carts only grow in number.

`SettlementProofs`, for every constant that satisfies `LedgerAssumption`,
`SettlementAssumption` and `ProcAssumption` (the names of processes are disjoint):

- `StepRefines` and `ImplementsLedger`: every step of `Settlement` is one ledger
  transaction or leaves the ledger alone. The only invariant needed is `BusyHasRow`: a
  busy sweep works on a row, so the cart it releases is one of `Txs`.
- `SettlementNeverOversells`: the ledger's theorems therefore hold of the whole module,
  for any number of transactions and faults.

Its second part, safety beyond the ledger, under the same assumptions:

- `StepKeepsSettlement`: `SettlementInv` is inductive and every step moves
  `transactions.state` by the table. `PaidWasCaptured` alone is not inductive: the step
  that writes PAID knows only its label. `HandlersOK` says what the label means (the
  handler's event was sent, and is a capture when the label is on the way to PAID);
  `TodoOK` says the same of the events the sweep will redrive, since a redrive enters the
  handler's code with an event selected some steps ago. `ControlOK`, `DataOK` and
  `BusyHasRow` make the updates meaningful.
- `SettlementTypeCorrect` (`TypeOK`), `PaidBehindCapture` (`PaidWasCaptured`) and
  `MovesAreLegal` (`LegalMoves`) follow.

Its third part, the promise: a step of settlement is quiet, a report of the provider or a
completion (`StepKinds`). Quiet steps stutter in the abstract specification, a captured
payment is `TakeMoney`, a completion that does not roll back is `Sell`. `Sell` needs the
ledger's bounds (the units are on the shelf) and `PaidWasCaptured` (the money was taken).

- `PromiseIsKept`: `Settlement` implements `SalePromise`.
- `SalesMatchStates`: `SaleMatchesState`, from the same three kinds of step.

`SettlementOrderProofs`: who may create an order, and what must be on record before.
`OrderInv` adds to `SettlementInv` what each label of a process relies on (`Needs`): a
process past the claim has a row no longer in an early state, so nobody else's
compare-and-set can succeed; `casReserved` has its holds; the sweep's list holds rows that
are past the claim (`W3Rows`) and, when requests are fast, rows in no request's hands
(`RowsAtRest`). None of the four properties is inductive without it, because the step
that could break them acts on a value read several steps earlier.

- `OrderedWereReserved` (`OrderedWasReserved`) and `ClaimIsExclusive` (`ClaimExclusive`), for
  all constants. The second is about the settle worker and the W2 resume; the W3 retry skips
  the claim by design and may run next to either.
- `AmbiguousIsUnpayable` (`AmbiguousUnpayable`) assumes `OneCreator`: the provider is
  idempotent by receipt, or no request outlasts the sweep's thresholds. Without it the
  statement is false (section 5): the sweep's second request is refused while the first is
  being recorded.
- `CapturesAreAccounted` (`CaptureAccounted`) assumes `AnswersFirst`: `OneCreator`, and the buyer
  learns the order's id from settle's reply. A capture that was handled is then on record, or
  the hold had lapsed (EXPIRED), or a failed attempt had been handled before it (FAILED, and the
  report of the failure was sent). Holds may lapse, attempts fail, processes crash and events
  be redriven as often as they like: under this assumption these are the two ways in which the code
  loses a capture (section 5), and there is no third. The property is not among the runs; `CaptureRecorded`, the
  stronger one that `slow_requests` checks, is true only where neither happens.

`PipelineProofs`, for any requests, keys, bodies, versions of the rules and faults:
`PipeInv` ties where a run and an inbox handler are to what the rows say. A run before
its gate has no decision, one that mints carries the version it pinned, a handler that
settles spent the approval of an escalated cart (`RunOK`, `HandlerOK`), and an outcome has
what it claims (`RowOK`). `SettledWasDecided` needs all of it: settlement starts from a
label, and only the invariant says that the label was reached through a decision.

- `KeysAreHonoured` (`KeyNamesOneRun`), `DecisionsComeFirst` (`SettledWasDecided`),
  `PollsAreTrue` (`OutcomeIsTrue`), and `PipelineTypes`.

`ServicesProofs` and `EventStreamProofs`, about `ServicesSpec`, whose steps are those of one
service at a time; one invariant per service, joined in `ServicesAreSound`:

- `IdemInv`: a call that holds a key Redis has not lost has the lease, in flight; whoever
  a finished lease or twin names succeeded with that key and body. Hence
  `ExecutionsAreExclusive` and `ReplaysAreTrue`.
- `RulesInv`: what a replica caches, what a query has seen and what a PUT is about to
  publish was superseded at most a query ago when it was read. Hence `UpdatesAreKept` and
  `DriftIsBounded`.
- `DoorInv`: for every window that ends now, what was spent plus what the bucket would show
  if it were looked at is within burst and refill (`OnBudget`). A pruned bucket starts full, and
  the assumption that links capacity, refill and idle time is what makes that harmless. The
  failure budget is looked at by the guard and charged after an `await`, so it is kept once
  for each request that can be in between (`Exposure`); the proof attempt showed that this
  holds of the refill as well as of the burst, and `BudgetsKept` says so. Hence
  `DoorsAreBounded`, for any number of requests and agents. Of streams it says that the two
  counts tell the slots taken and not given back and pass neither ceiling; open sockets are
  another number (section 5).
- `ChainInv`: who holds the lock is alone and has read the tail that still is the tail.
  Hence `ChainIsUnbroken`.
- `StreamInv`: the server's last sent sequence number is the last frame the browser has or
  will have; rows in the buffer and in a query's answer increase; and a row that is due is on
  its way, in what a query read, in the buffer or about to be published (`Whereabouts`).
  `FramesComeInOrder` and `OnlyForeignRowsArePassedOver` (`PassedOverWasElsewhere`) follow. The replay is why it is
  needed: between the query and the flush a row may be in both, in either, or committed and
  not yet published. Its lemmas about increasing sequences (`AscendingIs`, `NewerIs`) are
  proved by least counterexamples, as the prover takes no induction principle.

`OffersProofs`, about `Offers`, for any catalogue, cart, rules and replies of the model that the
schemas admit (`OffersAssumption`; quantities may be any integers, as the gate is total):

- `SumSteps` gives a sum over a sequence its steps; sums are then added, scaled, compared,
  grouped and counted by going along them (`SumJoins`, `GroupSums`, `FlatIs`).
- `AllocationIsExact`: the largest-remainder allocation gives out the whole rebate, and no line
  bears more than its own gross. The paise left after rounding down are fewer than the lines with
  a remainder, and a line with a remainder has room for one more.
- `OffersInv`: what is negotiated stands on the shelf it was asked for (`Offered`), the verdict is
  what the gate makes of this run's input, the settleable lines are minted from that verdict, and
  the mandate is built from those lines; before its step each is empty. None of the three
  properties is inductive: minting reads a verdict reached two steps, and perhaps an answer of
  the merchant, earlier, and the gate reads an offer whose evidence is gone.
- `OffersConserve` (`PaiseConserved`): a cart that is not declined is sound and all its lines are
  known, merging loses no unit, a split line's two parts have the line's units and share, and
  what is held and shown sums to the same.
- `OffersFollowPolicy` (`GateFollowsPolicy`): `Marked` says of each of the sixteen rules when it
  passes, fails, escalates or is skipped, on the lines merged by sku; `SoundFate` says the same of
  the lines as they came (a merged cart has their sums, `MergedTotals`). A rule is skipped only
  when one it waits for has failed, or doubts the total, so it hides nothing. The verdict then is
  the worst mark.
- `OffersAreGrounded` (`OfferIsGrounded`): the normaliser's lines are of known skus, each once
  and within stock; a claim survives the audit only if each of its rupee figures is that of an
  evidence it cites, and each such figure is a price, a cost, a margin or the sum of some prices
  (`JustifiedBySum`: a sum over a set is one over any list of it, `OneSetSum`); the fallback's
  bundle is drawn from the same shelf and its words from the same evidence; and a cart priced from
  the shelf passes the four rules.

`OffersAssumption` says what the proofs need of the inputs: proposals, ground truth, rules and
velocity are what their schemas admit, a catalogue is finite, every pairing and occasion kept
with a priority is of the catalogue, and the amounts of the largest cart are safe integers (`Fits`).
The proofs are about integers. The code throws a `RangeError` past 2^53 - 1, which is not modelled.

`BackOfficeProofs`, about `BackOfficeSpec`; `BackOfficeIsSound` joins the invariants of its parts:

- `OffersInv`, from `OffersProofs`. Hence `MoneyIsConserved` (`PaiseConserved`), `GateIsPolicy`
  (`GateFollowsPolicy`) and `OffersAreTheShelfs` (`OfferIsGrounded`).
- `DeliveryInv`: whoever is about to mark, to answer or to redrive works on a row that is
  there, and whoever marks has dispatched. Hence `ReportsAreKept` (`AckedIsKept`).
- `DemoInv`: an outcome in a row, or seen by a runner, is backed by what the pipeline
  recorded, and stays backed through a reset. Hence `VerdictsAreTrue` (`VerdictIsTrue`).
- `AuthorsInv`: what was heard is an answer the port's schema admits, and every result written
  is sound for its task. Hence `PublicationsAreSound` (`PublishedIsSound`), for any number of
  opportunities, any answers and any failures of the calls. The work is in what the writers
  compute, which are folds. `FoldExists` gives such a fold its steps: the library defines it
  as the function that satisfies an equation, so one must exist; it is built prefix by prefix,
  by least counterexample (`LeastNat`). `RankedIs` says that the ranking lists every
  opportunity once (its place is how many come before it), `AssemblyIsRanked` that each is
  then placed, or left out for a reason true of the entries ranked before it, `AppliedIs` that
  what an entry says was verified, and `DistinctIs` that the normaliser keeps known words only,
  each once. `AuthorsAssumption` asks of analytics what its schema promises (a finite set,
  distinct ids, one of four types, natural weights) and of the ports that lists are lists.

- `BoardInv`: at every moment the rows of a cart tell one story (`Sane`): a run's stage, outcome
  and reason come together (`Fated`), its trail is as long as it has come (`TrailTells`), an
  approved run has a payment and an escalated one an inbox row (`Paired`), and what follows a
  recent run is recent (`Dated`). From one moment to the next, each row stays or gains rank
  (`Later`), so moments of which each is later than the other are one (`LaterBoth`). Every write
  keeps both (`GoesKeeps`). The invariant is about all moments the board may be read at, since
  a panel is computed from one of them after the tables have moved on. Hence
  `BoardTellsTheTruth` (`BoardIsTrue`), for any number of runs, any window and any number of
  writes while the board loads: counts grouped by a key add up to the count (`CountsAdd`), so
  verdicts and buckets give what was closed; a sum of amounts grows with its set (`FewerSum`);
  every instant of the window falls in one bucket of the spine (`TruncIs`, `SpineHolds`); and the
  row of a decline is found among the gate's findings or the inbox's rejections
  (`DeclinesHaveReasons`).

Only model-checked: the liveness properties (`EventsProcessed`, `HoldsEnd`, `ReserveResolved`,
`PaidCompletes`, `RunsEnd`, `StreamEnds`, `ScenarioEnds`), which the prover cannot treat, and
`CaptureRecorded`, of which `CapturesAreAccounted` is the general form.

## 5. Disagreements noticed

Four of these are runs (section 3); the others were met while reading and are described
here so that a reader knows what the models contain.

Settlement:

- The W1 resume reserves again by `reserveCart` and releases when that fails; when the other
  worker has committed meanwhile, it releases a cart that is sold (`settlement/sweeper.ts:137`).
  It also passes no velocity (`sweeper.ts:132`), though `docs/design/settlement.md:441` says that every
  reservation counts.
- A capture is dropped when the row is FAILED (`settlement/webhook-handler.ts:246`), when its
  compare-and-set loses to expiry (`:245`), and between the recorded order id and T6 although
  `docs/design/settlement.md:821` says otherwise. `CaptureRecorded` therefore holds only where section 3
  says so.
- A transaction whose hold lapses between two passes of the sweep stays AWAITING_PAYMENT
  (`sweeper.ts:53`), and one that dies between T4a and its intent row is not picked up
  (`sweeper.ts:161`).
- When a request outlasts the W3 threshold, the sweep asks for the same receipt again; the
  refusal flags AMBIGUOUS an order whose first reply is still to be shown to the buyer
  (`ensure-order.ts:94`).
- Any database error inside `ensureOrder` runs T5 (`settle.ts:178`), which releases the holds
  before the compare-and-set that may lose.

Webhooks: a provider's retry later than 300 s is acknowledged as stale and dropped; what the
async handler throws ends the process, since Express 4 catches no rejection; `MockProvider`
verifies with the first secret only, and loses its orders and event counter in a restart;
nothing outside tests calls `schedulePaymentOutcome`.

Idempotency: a key flushed from Redis is not replayed from its PostgreSQL row; a refused body
(400) leaves its lease IN_FLIGHT.

Pipeline:

- An approval consumed before a crash is never settled (`orchestrator.ts:407`). Nothing closes
  the run either: its outcome already says ESCALATED (`:377`), and the stall sweep takes only
  rows without one (`stall-sweeper.ts:93`). A run that the sweep does close may have settled
  (`RetryableWasNotSettled` states the sweep's comment and is not among the runs).
- `stream.route.ts:16` says that the explanation precedes the outcome; the orchestrator records
  the outcome first (`orchestrator.ts:316`).
- `useProposalStatus` stops at ESCALATED, which the poll shows as terminal.
- `escalateReason` answers HIGH_CART_VALUE for an injection, a repeat offender, a drift and
  rules not yet effective. `terminalOutcomeJson`'s DECLINED case (`orchestrator.ts:721`) is
  unreachable. A run that failed before its gate is shown under the rules of the moment. The
  mandate is built at the first poll of an approved run, from the catalogue of that moment
  (`mandate-builder.ts:78`), and throws on a sku that is no longer there (`:88`); later polls, and a
  poll that lost the insert, return the stored one. `BuildCartMandate` is the first build, on
  the snapshot the run had: neither a catalogue that changed nor the stored row is modelled.
- A crash between the claim of a key and the insert of its run leaves PROPOSING for ever;
  `RunsEnd` speaks of inserted runs.

Streams:

- The slot of a stream is counted after two awaits (`http/stream.route.ts:123`) and given back by a
  listener registered at `:150`: a client that leaves in between keeps it for ever (run
  `v_slot_leak`). A throw inside `runSseStream` gives the slot back, but the headers are sent,
  `errors.ts:61` returns, and the socket and its subscription stay, uncounted.
- The first `isTerminal` (`:261`) is what throws. The connection it leaves has no poll to end it
  and no heartbeat, although `:15` says that the poll closes the stream; `StreamEnds` excepts it.
  A later one, in the poll (`:268`), is a rejection nobody handles: it ends the process, which the
  model takes as any crash.
- A replay query that throws (`:227`) is swallowed; a live frame then moves `lastSentSeq` past
  rows that were not replayed, and no reconnect asks for them, although
  `docs/design/api-contract.md:835` says that there are no gaps. `PassedOverWasElsewhere` excepts it,
  and the rows of another replica, whose bus this process does not hear.

Gatekeeper and negotiation: MARGIN depends on DRIFT, so a drifted cart below the floor is
escalated rather than declined; `buildContext` is outside the per-rule try (`engine.ts:112`);
`schemas.ts:82` says that both edges of a band are inclusive, the code has `[lower, cap)`;
without `require_full_availability` the gate approves carts that settlement refuses. The
fallback's audit is not always clean (`FallbackIsClean` states `fallback.ts:299`: a digit in a
product's name is read as a number); its complement follows any pairing, whatever is in the
basket; expiry is by day in the fallback and by instant in the gate. The client's timer is
cleared once headers arrive.

Campaign and catalogue: an index out of range leaves no fallback record
(`rationale-runner.ts:133`); a duplicate index gives PARTIAL_TEMPLATE with no templated entry;
a metric's display is found inside another's; the title is not checked by `verifyNarration`.
The cycle functions have no caller outside tests, and `server.ts` wires the narrator and both
velocity arguments as undefined.

Read routes and demo: approved runs keep stage SETTLING, so analytics counts them in flight for
ever, an unforced reset answers 409 after the first approval, and a forced one rewrites even
paid runs to FAILED (`admin-reset.route.ts:78`) and expires payments the provider can still
capture. `pipeline_terminal` is written by nobody, so a replay never has an outcome; `deep=true`
changes nothing. Panels that are said to show one slice date their rows by themselves
(`admin-analytics.route.ts:114`). Chaos flags are armed but `isArmed` is never consulted
outside tests, and an empty scope means everywhere.

Console: a draft in `PolicyScreen.tsx` silently reverts a concurrent edit.

## 6. Plan

Done: every component of section 1 has a module or is said there to be left out, and every
safety property of a passing run is proved, for all constants its assumptions admit, except
`CaptureRecorded`, whose general form is. Left to the model checker for good: liveness under
fairness. Next, if the code moves: the read-only screens
of the console, the catalogue's routes, and the questions of section 5 that a change to the code
would settle.
