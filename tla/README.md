# Verification of the Agent Commerce Gateway

TLA+ models, TLC configurations and TLAPS proofs for the gateway in `src/app`:
a FastAPI service over one SQLite database that decides whether an AI agent's
purchase is covered by its user's delegation and its merchant's policy, reserves
the delegated budget, takes the payment and keeps a hash-chained audit log.

## 1. The system

| component | state | operations | what makes it correct |
|---|---|---|---|
| Budget ledger (`authorization/reservations.py`, `budget.py`) | table `budget_reservations` | `atomic_reserve`, `commit_reservation`, `release_reservation`, `get_reservation_by_tx`, `compute_budget_state` | holds and payments of a window never exceed the contract's aggregate limit; a hold is settled once |
| Firewall (`authorization/engine.py`) | `authorization_decisions`, `step_up_challenges` | `evaluate`, `_persist_decision`, challenge creation | an ALLOW has its budget; decision and ledger agree although two transactions write them |
| Rules (`authorization/rules.py`) | none | `evaluate_all` and its 22 predicates | no condition, proposal or narrower delegation makes a refusal an ALLOW |
| Mutation detector (`authorization/mutation.py`) | none; no caller in `app/` | `detect_mutations` | agrees with the rules about what a material change is |
| Payments (`payments/`) | `transactions`, `payment_attempts` | `check_idempotency`, `execute_payment`, `_record_*` | no double charge, budget settled with the payment, status follows the state machine |
| Delegations (`authorization/contracts.py`) | `authorization_contracts` | create, get, revoke, seed at start | a revoked or expired contract authorizes nothing |
| Merchant policies (`commerce/merchant_policy.py`) | `merchant_policies` | publish a version, get one, get the active one, seed at start | versions are immutable; the policy in force changes by publishing |
| Catalog (`commerce/catalog.py`) | `products` | get, list, seed at start; stock is deducted by payments | stock follows the sales |
| Audit chain (`audit/hash_chain.py`) | `audit_events` | `append_event`, `verify_chain` | untouched logs verify, changed ones do not and the row is named |
| Forensic replay (`audit/replay.py`) | none | `replay_decision` | same facts, same decision |
| HTTP API (`api/routes.py`) | none | handlers that string the above together, one audit event each | nothing is reported that did not happen |
| Lifecycle (`main.py`, `core/db.py`) | the database file and one process-wide lock | start (seeds everything), stop, `db_transaction` | one writer at a time; a crash is possible between any two transactions |
| Buyer agent (`agents/buyer_agent.py`) | none | `shop`: search, negotiate, form an order, have it evaluated, pay | its own order is never refused for its form; no order above the user's ceiling |
| Negotiation (`commerce/negotiation.py`) | none | `negotiate`: refuse, choose a product, discount | what it refuses is not allowed, what it offers meets the policy |
| Policy compiler (`agents/policy_compiler.py`) | none | `compile`: words into a contract, ambiguities | nothing is allowed that the user did not say or confirm |
| Explanation agent | none | text | - |

**How they interact.** Handlers are synchronous functions, run by FastAPI in a
thread pool. Each opens several database accesses, one after the other; a write
takes the process-wide lock and `BEGIN IMMEDIATE`, a read takes neither. Between
two accesses anything may happen: another handler, the user revoking, the clock,
the end of the process. Nothing but the database is shared, and nothing is undone
when a later access fails. The start of the server writes the demo data over
what is there.

**What is hard.** Reads that are stale when used (contract, stock and budget before
the reservation; decision and idempotency key before the record), two transactions
for what belongs together (hold and decision; budget and payment record; work and
audit event), retries under the same key or another, holds that expire under a
payment, refused inserts, budget windows, restarts that reseed. `PROJECT.json`
lists these hazards with their lines and the properties aimed at each.

## 2. Modules

| module | models | uses |
|---|---|---|
| `Reservations` | the ledger: one action per operation, one step each (it is one transaction under the lock) | |
| `SpendingAccount` | abstract specification: what a contract's budget promises | |
| `Gateway` | authorize and pay requests as processes, one step per database access; contracts, stock, challenges, audit, restart | instance of `Reservations`, `PaymentStateMachine` |
| `PaymentStateMachine` | the `TRANSITIONS` table | |
| `FirewallRules` | every predicate of `evaluate_all`, the resolution, the detector, as operators | |
| `MerchantPolicies` | the versioned policies of a merchant | |
| `Firewall` | evaluate and replay in a world that changes: contract, policies, catalog | `FirewallRules`, instance of `MerchantPolicies` |
| `Negotiation` | search of the catalog, refusals, choice and price of an offer, as operators | `FirewallRules` |
| `Shopping` | one task of the buyer agent, one step per database access, in the world of `Firewall` | `Firewall`, `Negotiation` |
| `PolicyCompiler` | the compiler of delegations, as operators on what it finds in a prompt | |
| `Delegation` | prompts compiled and created as contracts, under which `Firewall` decides | `Firewall`, `PolicyCompiler` |
| `AuditChain` | the chain, its verifier, one change past the service | |
| `MCReservations`, `MCGateway`, `MCShopping`, `MCDelegation` | values of the constants for TLC; `MCFirewall` has those the last two share | |
| `ReservationsProofs`, `AccountProofs` | theorems about the ledger and its refinement | `AccountProofs` extends `ReservationsProofs` |
| `GatewayProofs` | theorems about `Gateway` | instance of `ReservationsProofs` |
| `AuditChainProofs` | theorems about `AuditChain` | |
| `FirewallProofs`, `ReplayProofs` | theorems about `Firewall` and the policies | `ReplayProofs` extends `FirewallProofs` |
| `DelegationProofs`, `ShoppingProofs` | theorems about `Delegation` and `Shopping` | extend `ReplayProofs` |

`Gateway` follows requests through an interleaving and treats rules that look
at nothing mutable as a field of the order; `FirewallRules` and `Firewall` spell
the rules out and make an evaluation one step. Together they cover `evaluate`.
`Shopping` takes that one step apart again, into the reads of contract, policy and
product, and checks when it may be thought of as one.

### State and code

- `rows[r]` is the row of reservation `r`. `late` is history: the reservations
  committed when already expired. Every operation of the ledger reads the clock
  before it waits for the lock: `now` is that stamp, `clock` the time the
  transaction runs, `MaxLag` bounds the wait (in `Gateway` it is unbounded within
  `MaxTime`, and the stamp lies between the step before and now).
- `pc[q]` is the database access request `q` makes next: `product`, `budget`,
  `evaluate`, `reserve`, `persist`, `challenge` for authorize, `decision`, `hold`,
  `release` or `commit`, `recordPaid` or `recordFailed` for pay. `view`, `hold`,
  `since` and `request` are the handler's locals. `compute_budget_state` sums in two
  statements outside a transaction: these are two steps, `ReadCommitted`, `Evaluate`.
- `transactions[t]` keeps the key and decision of the first payment recorded for
  `t`; later ones only overwrite its status (the upsert of both record functions).
  `RecordRefused` is the IntegrityError of a duplicate key or an unknown sku.
- `owed` are the audit events finished handlers have not appended yet; `Restart`
  drops them together with the requests in flight.
- `Firewall!last` is one decision at a time: it is followed from the evaluation, through
  changes of the world, to its replays. `changes` counts what the user, the merchant,
  other buyers and restarts do, up to `MaxChanges`.
- `task` is the agent's task: the request, the constraints extracted from it, the
  policy and product the negotiation read, the offer, the order, and in `pc` the next
  database access. `moments` is history: every world there was since the evaluation
  of the order began. A restart loses the task (`lost`).
- `said` is history: prompt and confirmations the contract was compiled of.
- The stock of a product rises as well as falls: `SellUnits` is the payment of another
  buyer, of a negative quantity too, and `task.seen` is the row the negotiation chose
  its offer from, to be compared with the one the evaluation reads.
- A user may create a contract that is revoked from the start (`CreateContract` stores
  what the request says).
- In `AuditChain` a row's `body` stands for the four hashed columns and `other` for
  the two that are not hashed; in `Firewall`, `last` is the recorded decision with
  the facts it was based on and `replay` its latest replay.

### What is abstracted, and how

- Money is in paise in `FirewallRules`, in small units in the ledger. `fees` stands
  for tax + shipping - discount. Comparisons of floats that come out exactly on
  their threshold (five paise of fee tolerance, ten percent of drift) may fall
  either way: `s.edge` chooses.
- SHA-256 is injective: the hash of a row is the tuple that is hashed.
- A lifetime budget starts at instant 0: contracts are issued before anything is
  reserved under them. Rows written in one instant may be in either order.
- A seeded contract that has expired is reached by the user creating one with
  expiry 0; a request under an unknown contract is denied at once (`GetContract`).
- Quantities are integers, as the request models allow. A negative one raises the stock
  when it is paid; amounts are validated to be positive or zero, which stops it for the
  buyer agent, whose amounts are computed from it.
- The agent's goal is the set of the kinds of word it contains. A prompt is the set of
  the words, amounts of money, numbers of thousands (`70k`), other numbers (`65 inch`) and
  pincodes that occur in it, closed under containment (`"every week"` contains
  `"week"`); which of them the compiler takes for an amount is `AmountsRead`. An answer
  about repetition is a text, by its meaning, or the name of a JSON value; `Falsy` are
  those that Python's `bool` takes for no.
- `round(x, 2)` of an amount exactly between two paise may go either way: floats
  are seldom on the tie (`Rounded`).
- The period of a budget and the length of a contract's validity, which the compiler
  derives from words as well, are left out: `Reservations` has every period, and a
  contract of `Firewall` expires at any moment.
- The processor is external: a payment `fails` or it does not.
- The ledger seen by `Firewall` may answer any amount and refuse any reservation:
  how it really answers is the business of `Reservations` and `Gateway`.
- Wording, logs, formatting, identifiers and signatures are left out.

## 3. Runs

TLC, two workers, each below four minutes. Deadlock checking is off in `AuditChain`,
whose bounded log fills up and whose single change gets used, and in `Shopping`,
whose one task ends; elsewhere the stuttering of idempotent operations keeps
bounded instances from stopping.

| run | instance | what it shows |
|---|---|---|
| `ledger` | 3 reservations; one daily, one per-order budget of 2; 4 instants, the middle two one day; holds live 2 instants; lock wait 1 | `BudgetRespected`: in every window, what was committed in time and what is held stays within the limit, however old the stamps. `SettledOnce`: of a racing commit and release one wins, for good. `ImplementsAccount`: refinement of `SpendingAccount` |
| `handlers` | 2 authorize requests and 2 payments of one transaction: an order that takes the whole budget and one that needs approval; failure, expiry, user, clock, 1 restart | `AllowHoldsBudget`: an ALLOW has reserved exactly its amount on its contract, a DENY or CHALLENGE nothing. `AuditNeverAhead`. `UnapprovedChargesNothing`: while a challenge is open or rejected, be it after an approval, its order holds no budget and no payment of it was ever charged. `PaymentSettlesHold`: a recorded attempt left no hold pending. `UsesLedger`: the gateway's steps are steps of `Reservations`, so the theorems of section 5 carry over |
| `payments` | 1 authorization, 3 payments, 2 transaction ids, 2 keys, a scarce product in a positive or a negative quantity, 1 restart | `SpentBudgetHasPayment`, `SoleKeyRetrySafe`, `StatusOverwrittenByRace`, `StockFollowsSales`: the stock is what was there less what was sold and more what was "bought" in negative numbers |
| `temporal` | 1 request of each kind, under a contract of the demo data or one the user creates and that expires, for a known or an unknown product; 1 restart, fairness | `RevokedStaysDenied`; `HoldsSettled` and `RequestsAudited` are liveness |
| `audit` | up to 4 events of 2 contents, any one change at any moment, appends before and after | `ChangeDetected`, `ChangeLocated`, `UntouchedVerifies` |
| `rules` | 6 contracts and those compiled of 7 prompts under 6 sets of confirmations, 16 transactions, 7 proposals, 2 budgets, any one change of the world | `AllowedAsSaid`, `ConditionsNeverAllow`, `ProposalNeverRelaxes`, `TighterNeverRelaxes`, `RefusedMutationIsMaterial` |
| `shopping` | 9 tasks (2, -1 or no units, a target price, a negative one, a ceiling, a goal against its preferred category, a product of another merchant), 4 products, 3 direct transactions; up to 3 changes of the world between any two reads, the stock by one unit down or up; replays under another version | `OwnOrderIntact`, `NegotiationAgrees`, `EvaluationIsSnapshot`, `ReplayReproduces`; policies: `VersionsImmutable`, `ForceChangesByPublishing` |
| `overspend`, `revoked_retry`, `approved`, `hard_ceiling`, `repeated` | smallest instance of each | what the documents say and the code does not do: section 4 |

**What the properties of `shopping` say.** An agent's order is computed by rounding
discount, tax and shipping one by one; `OwnOrderIntact` says that its parts still add up
and that it never looks like a mutation of its own proposal. The policy and the product
are read twice, by two pieces of code with two sets of conditions: `NegotiationAgrees`
says that they agree when both saw the same policy and product, but for a ceiling that
only tax and shipping exceed, or that the list price exceeds when the offer was of
nothing. What they saw is compared itself: units may be sold and put back while a
negotiation is under way, so that the same stock before and after it does not mean that
the negotiation saw it. (That takes a discount of everything and a target below zero:
the agent takes an offer of 0.0 for none and charges the list price; with no units as
well, the percentage divides by zero and the task fails, `PercentageUndefined`.) The
evaluation takes no lock between its reads; `EvaluationIsSnapshot` says that it still
decides as on one world, unless the world changed twice under it. (With two changes it
may decide on a combination that never existed, which is why the property has the
condition.)

**Bounds.** Two requests of a kind suffice for every race between two accesses; the
third payment matters because the key of a transaction is that of its first payment, so
that a retry, the retried payment and the owner of the row are three. A day of two
instants between two others puts every commit on either side of a window boundary and of
an expiry. One restart separates the requests before from those after; a second one
meets nothing new, since all that a restart touches it sets to a fixed value. Three
changes of the world are a publication, a restart that seeds over it, and one more; two
suffice to tear an evaluation, three to show that a torn one is the exception. The
prices in `MCShopping` are on both sides of the thresholds for shipping, discount and
the merchant's ceiling, some with tax or discount on half a paisa. Each transaction,
contract and proposal of `MCFirewall` differs from the honest one in one field, on each
side of each threshold. `Symmetry` is used in runs without liveness only, over ids that
no definition tells apart.

**Fairness** (`Gateway!FairSpec`): weak fairness of the steps of each entered
authorize request, of each entered pay request and of each request's audit
append. A thread of the pool is scheduled, and the lock is granted to a waiting
thread because every holder releases it (`db_transaction` has no path that keeps
it). Nothing is assumed of agents, the user, restarts or the clock.

**Mutants.** Next to the definition it changes stands the mutant that breaks each
property: a forgotten sum in the budget check, a release without its status test,
an ignored answer of the reservation, a soft rule that passes, an upsert for an
insert. `PROJECT.json` says which run finds which.

## 4. Where documents and code disagree

Each with a run that shows it:

- `overspend`: `commit_reservation` (`reservations.py:107`) commits a hold that has
  expired and whose money was given away. `docs/architecture.md:88` promises no
  over-spend. This is why `BudgetRespected` and the account count payments
  committed in time.
- `revoked_retry` shows two at once. The idempotency key is looked up outside the
  transaction that inserts it, so two concurrent payments under one key are both
  charged (`PROJECT_OVERVIEW.md:606` says no double charges); and `execute_payment`
  never reads the contract, so that it charges under one that was revoked after the
  decision (`razorpay_agent_commerce_gateway.md:758` says DENY).
  `RevokedRetryNotCharged` only forbids a charge that is against both, and is
  violated, so each of the two is.
- `hard_ceiling`: `req.hard_ceiling_inr or 75000.0 if category == ... else 5000.0`
  (`buyer_agent.py:189`) binds as `(... or 75000.0) if ... else 5000.0`: the ceiling a
  user gives counts for electronics only. It is also compared with the price of one
  unit, without tax and shipping (`buyer_agent.py:60`). `README.md:59` forbids to
  increase a ceiling.
- `approved`: approving a challenge changes the challenge and nothing else
  (`routes.py:225`), and only an ALLOW is paid for (`razorpay_client.py:71`): the payment
  of an approved order is turned away for good. The docstring at `routes.py:217` says
  "ALLOW after manual approval", and `PaymentStateMachine` lets CHALLENGED become
  AUTHORIZED. `UnapprovedChargesNothing` therefore speaks of open and rejected
  challenges only.
- `repeated` shows three at once, in one state: its instance has one prompt, one answer
  and one order, so that the first allowed order is against every conjunct of
  `RepeatedAsConfirmed`.
  - Any confirmation, of whatever field, releases all ambiguities of high risk
    (`policy_compiler.py:51`; `docs/architecture.md:63` says that confirmation is
    enforced). Confirmations of `allow_substitutions`, `new_merchants` and
    `tax_and_fees` are never looked at.
  - `bool(recurring_ok)` (`policy_compiler.py:86`) takes any text for yes; the answer
    "Strictly one-time purchases only", an option of the compiler's own (`:262`), makes
    a recurring contract. `PROJECT_OVERVIEW.md:61` forbids just that.
  - Every number above 50 is taken for rupees, the 65 of a 65 inch screen included,
    which the comment at `policy_compiler.py:123` says is ignored. So are pincodes
    ("groceries to 560001 for 5000" gets a budget of 560001 rupees), and "70k", which the
    comment at `:107` names, is read as 70: the first alternative of the pattern always
    wins.

  `AllowedAsSaid` says what does hold: an answer about repetition decides by what `bool`
  makes of it, and an order is within every amount of money that was written out.

Met while modelling and without a run of their own:

- One decision can be paid twice under two keys (`razorpay_client.py:52`;
  `PROJECT_OVERVIEW.md:251` says resubmitting does not double-charge).
- A key recorded by a failed payment is replayed as success (`razorpay_client.py:36`).
- A failed payment releases the hold; a later success of the decision is charged
  with no budget behind it, since the answer of `commit_reservation` is not looked
  at (`razorpay_client.py:138`).
- A restart writes the seeded contracts again, `is_revoked` included (`contracts.py:179`):
  a user's revocation of one is taken back although it is in the audit log. It is what
  `RevokedStaysDenied` exempts, and no more than that.
- Nobody calls `PaymentStateMachine.validate_transition`; a COMPLETED transaction may
  become PAYMENT_FAILED. `StatusOverwrittenByRace` says when.
- A crash between the payment record and its audit transaction loses the event
  (`routes.py:193`); challenges are never audited.
- `event_id` and `decision_id` are not hashed, and deleting the newest rows leaves a
  valid chain (`hash_chain.py:16`, `:73`; `docs/threat_model.md:40` says any change is
  detected). `ChangeDetected` excludes exactly these.
- A replay that differs because the budget denied the original blames a policy
  version change (`replay.py:57`).
- An order sent without a proposal is not compared with one: the five mutation rules are
  skipped (`rules.py:62`), so leaving the proposal out may gain an ALLOW.
  `ProposalNeverRelaxes` covers the other direction only.
- The fee rule ignores unit price and quantity (`rules.py:249`), the category rule
  the category of the catalog's product (`rules.py:141`), the currency rule the
  proposal's currency (`rules.py:232`).
- A transaction may name a superseded policy version and is judged by it
  (`engine.py:69`); so `tests/test_e2e.py` and replays want it, while
  `PROJECT_OVERVIEW.md:214` speaks of the active policy.
- "every week" grants repetition (`policy_compiler.py:190`) and is flagged as ambiguous
  with the default of one-time purchases at once (`:257`).
- "order", "once" or a TV make the period `per_order`, which counts no spending
  (`budget.py`).
- A discount of everything offers 0.0, which counts as no offer: the full price is
  charged (`buyer_agent.py:91`). An order of no units pays shipping.
- A purchase by the agent is audited as one `SHOPPING_TASK_EXECUTED`, without the events
  of authorization and payment (`routes.py:149`).
- The policy's `allow_quantity_changes` is stored and never read; `allow_discounts` and
  `max_discount_pct` bind the negotiation, and no rule of the firewall.

## 5. Proofs

TLAPS proves, for every value of the constants that meets the named assumptions:

| theorem | statement | argument |
|---|---|---|
| `LedgerTypeOK` | `Spec => []TypeOK` | inductive as it stands, one lemma per operation |
| `LedgerBudgetRespected` | `Spec => []BudgetRespected` | inductive with `TypeOK` |
| `LedgerSettledOnce` | `Spec => SettledOnce` | from `TypeOK`, one case per operation |
| `LedgerImplementsAccount` | `Spec => ImplementsAccount` | step simulation with one strengthening |
| `GatewayTypeOK` | `Spec => []TypeOK` | `Typed`: with `Submitted`, `StampsPast` |
| `GatewayUsesLedger` | `Spec => UsesLedger` | every step is a step of `Reservations` or leaves the ledger alone |
| `GatewayBudgetRespected`, `GatewaySettledOnce` | the ledger's theorems in the gateway | through `GatewayUsesLedger` |
| `GatewayAllowHoldsBudget` | `Spec => []AllowHoldsBudget` | `DecisionsFollowed` |
| `GatewayUnapprovedChargesNothing` | `Spec => []UnapprovedChargesNothing` | `DecidedFirst`, `DecisionsFollowed` |
| `GatewayAuditNeverAhead` | `Spec => []AuditNeverAhead` | `EventsFinished` |
| `GatewaySpentBudgetHasPayment`, `GatewayPaymentSettlesHold` | `Spec => []...` | `PaymentsFollowed`, `ReleasedByFailure` |
| `GatewaySoleKeyRetrySafe`, `GatewayStatusOverwrittenByRace` | `Spec => []...`, an action property | `KeysRecorded` |
| `GatewayStockFollowsSales` | `Spec => []StockFollowsSales` | `SalesFinite`: sums over finite sets of payments |
| `GatewayRevokedStaysDenied` | `Spec => RevokedStaysDenied` | `Barred`, kept by every step |
| `AuditTypeOK`, `AuditUntouchedVerifies`, `AuditChangeDetected`, `AuditChangeLocated` | `Spec => []...` | `LogInv` |
| `FirewallTypeOK` | `Spec => []TypeOK` | `RowsNumbered`, `CatalogKnown`, `RecordsTyped` |
| `FirewallVersionsImmutable` | `Spec => VersionsImmutable` | seeded versions keep their seeded contents |
| `FirewallProposalNeverRelaxes` | `Spec => []ProposalNeverRelaxes` | rule by rule, over `WorldKnown` |
| `FirewallRefusedMutationIsMaterial` | `Spec => []RefusedMutationIsMaterial` | the one rule the proposal fails, over `WorldKnown` |
| `FirewallTighterNeverRelaxes` | `Spec => []TighterNeverRelaxes` | rule by rule, over `WorldKnown` |
| `FirewallConditionsNeverAllow` | `Spec => []ConditionsNeverAllow` | rule by rule, over `WorldKnown` |
| `FirewallForceChangesByPublishing` | `Spec => ForceChangesByPublishing` | the order of the rows, `RowsNumbered` |
| `FirewallReplayReproduces` | `Spec => []ReplayReproduces` | an evaluation is a function of what it reads, `RecordKnown` and `ReplayKnown` over `WorldKnown` |
| `DelegationAllowedAsSaid` | `DelegationSpec => []AllowedAsSaid` | the contract decided under is what was compiled, `SaidKnown` |
| `DelegationTypeOK`, `DelegationConditionsNeverAllow`, `DelegationProposalNeverRelaxes`, `DelegationTighterNeverRelaxes`, `DelegationRefusedMutationIsMaterial` | the firewall's under `DelegationSpec` | what is compiled is a contract (`CompiledContract`) |
| `ShoppingTypeOK` | `ShopSpec => []ShopTypeOK` | `ShopInv` |
| `ShoppingOwnOrderIntact` | `ShopSpec => []OwnOrderIntact` | the parts of an order add up, `ShopInv` |
| `ShoppingNegotiationAgrees` | `ShopSpec => []NegotiationAgrees` | `OfferedBounds`, `ShopInv` |
| `ShoppingEvaluationIsSnapshot` | `ShopSpec => []EvaluationIsSnapshot` | `Snapshot` |
| `ShoppingReplayReproduces`, `ShoppingVersionsImmutable`, `ShoppingForceChangesByPublishing` | the firewall's under `ShopSpec` | a task's steps read the world or sell |

**The ledger.** *BudgetRespected* quantifies over all windows, past ones included, and
this is what makes it inductive. A reservation is checked against the window of its
stamp, which may already be over when the transaction runs. What counts against
the window of `t` is what was committed in it, on time, and the live holds placed
in it or before. A new hold adds to the windows from its own on; for those the sums
`atomic_reserve` took (committed since its window's start, alive at its stamp)
cover everything charged, because the window of a later `t` contains no earlier
commit and every hold alive now was alive at the older stamp (`ReserveFits`). A
commit in time moves money from the live holds to one window's commits
(`CommitBudget`); time and release only shrink the charge. Without the stamp's
window in the statement, a stale stamp would break the induction.

*ImplementsAccount*: held is the sum of the live holds, spent the sum of the commits
in time in the current window. A reserve is a `Hold` or a stutter, a commit or
release a `Settle`, a tick an `Elapse`. The strengthening `StampsPast` (every stamp
of a row lies in the past) rules out commits that a new window would already
contain.

**The gateway.** The invariant is kept in parts, so that each theorem shows what it
rests on. `Typed` says that a request runs through the labels of its own handler and
that its stamp lies in the past, which is what lets its ledger access be a step of
`Reservations` (`GatewayUsesLedger`). The module takes `ReservationsProofs` as an
instance, so that the theorems about the ledger alone hold of the ledger in the
gateway.

- `DecisionsFollowed` relates, for an authorize request at each step of its handler, the
  decision, the challenge and the row of the ledger. Hold and decision are written by
  two transactions: `AllowHoldsBudget` alone is not inductive, because it says nothing
  of a request that is between them or was lost there.
- `DecidedFirst` says that a payment that is under way or recorded goes by a decision
  that was, and still is, ALLOW. With the above, an order without approval is not charged.
- `PaymentsFollowed` follows the row of the ledger that a payment found, through the
  commit or release to the record. A hold may be shared by payments and may expire
  between: what is known afterwards is that it is not pending. Which side it was
  settled on depends on who came first, so `ReleasedByFailure` and
  `SpentBudgetHasPayment` name, for every settled row, a payment that did it.
- `KeysRecorded`: a transaction keeps the key of the payment that made it, and a payment
  past its idempotency check was submitted when no recorded transaction had its
  key. This is what a retry that waits for its answer relies on, and what a race breaks.
- `EventsFinished`: an event that is appended or still owed is of a handler that
  returned, whose tables say what it reports.
- `Barred(a, c, n)` is true of a request `a` from its arrival after contract `c` was
  revoked, at whatever step it is: it has not read the contract yet, has read it
  revoked, has an outcome other than ALLOW, or is lost. It is kept by every step up to a
  restart that seeds `c` again, so the nested temporal formula follows by one
  induction, with `a`, `c` and `n` constant.

**The audit log.** The verifier compares positions with sequence numbers and each row with
the one before; the proof relates rows by their numbers only. `Positions` and `AtNumber`
connect the two: rows stand at positions 1 to their number, one at each, by counting
finite sets, and when no number is missing the position of a row is its number. `LogInv`
then says: an untouched log has no gaps and every row is linked and hashed (`Intact`);
after an edit of a content, a link or a hash, the edited row's hash is not that of its
columns, no matter what is appended, and all rows before it are sound (`Edited`); after
a change of a number or a deletion, a row is numbered 0 or a gap lies below a row that
is still there (`Misnumbered`). The last is why deleting the newest row is excluded.

**Decisions.** The four theorems about the rules share one argument in two halves.
First, decisions are monotone in the outcomes of the rules: `MilderDecision` says that
when no rule gets more severe, neither does the decision, and `SoftenedDecision` that
when rules only change the way they fail, the same orders are allowed. Then each theorem
compares two situations rule by rule: leaving the proposal out turns an outcome into
PASS or ABSENT or keeps it; a tighter contract makes each rule at least as severe;
another set of approval conditions, or of step-up rules, only moves a rule between its
soft and its hard failure. None of this is true of arbitrary records, and this is what
the invariant `WorldKnown` is for: the policies in force are published or seeded
contents, the contract is one a user may create, and the facts recorded with the last
decision were read from such a world. It is inductive (`InitKnown`, `NextKnown`), and
says in particular that a policy that was read is never `None` by accident, which the
rules that are skipped without a policy depend on. A compiled delegation is such a
contract as well (`CompiledContract`): its limits are numbers, the largest amount read
from a prompt included, because a prompt has finitely many amounts and numbers
(`ReadFinite`, `GreatestAmount`). So all of it holds under `DelegationSpec`, which is
the specification that the run `rules` checks.

*ForceChangesByPublishing* is about the order of the rows of `merchant_policies`:
the version in force is the active one that was written last, and a restart sets
the seeded rows' `is_active` back. `RowsNumbered` says why that is harmless: the
seeded rows are the first ones, and as long as no published version is active the
active ones are exactly those seeded so. So if a published version is in force it is
a later row than any a restart can touch (`SeedKeepsForce`), and if none is, the
restart writes the flags that are there.

*ReplayReproduces*: `RecordKnown` and `ReplayKnown` say that the recorded decision and
its replay are both `Outcome` of the facts stored with them, the recorded one
possibly denied afterwards because the reservation was refused. What is left is that
facts which differ only in the budget have the same outcome of every rule but
one (`OnlyBudgetDiffers`), and that a replay, which takes the whole budget for
unspent, fails that rule only if the original did. `SameFactsSameOutcome` says so of any
facts with a contract and a total, and `OrderRecorded` that the facts an agent's task
has read step by step are such.

*AllowedAsSaid*: `SaidKnown` says that revocation and expiry, restarts included, leave
what the compiled contract grants alone, and that an ALLOW was a decision on such a
contract. An allowed order passes every rule (`AllowedPasses`), no list that was
compiled is empty unless confirmed so, the cap of an order is no larger than any amount
that was read (`OrderCapNamed`), and every amount written out is read (`ReadNumbers`).
Nothing is claimed of limits beyond that: what the compiler takes for an amount is what
the run `repeated` refutes.

**The buyer agent.** `ShopInv` follows one task through the changing world:

- `RowFound`: the product found, and the row the negotiation saw, are as seeded but for
  the stock, which is some natural number (`AnyStock`).
- `OrderFormed`: there is an order only after an answer of the negotiation, and the
  order follows from it. A refusal was for the policy, the price or the stock of the row
  it saw (`Refused`), an offer has none of these against it (`Accepted`). If the
  evaluation finds that policy and that row, the firewall's rules come to the same. The
  other part of `NegotiationAgrees` is `OfferedBounds`: what is offered is no more than
  the list price and no less than the target and the permitted percentage allow, to half
  a paisa.
- `Judged`: the recorded decision is about this order and the policy and product the
  evaluation read, which with `PartsAddUp` gives `OwnOrderIntact`.
- `Snapshot`: while an evaluation is under way the present world is among its `moments`,
  what it has read is true of one of them, and if there are at most two of them they
  differ in one aspect only (revocation, expiry, policy or product). That is what makes
  a decision read in three steps a decision on one of the two; the property alone speaks
  of finished evaluations and cannot be inductive.

**Assumptions.** The `ASSUME`s of `Reservations` (finitely many ids, limits are
naturals, calendars round down and never run backwards); of `Gateway` (the two kinds of
requests differ, payments and orders have the fields of their models, `None` is not
data; `LedgerAssumption`: contracts and calendar are what the ledger takes them for); of
`AuditChain`; of `Firewall` (`None` is not data; drafts, seeds, products and contracts
have the fields, types and bounds of the pydantic models; totals and budgets are
integers; so are the quantities others pay for), of `MerchantPolicies` (every seeded
version is seeded once); of `Shopping` (quantities and targets are integers, no seeded
product is free); of `Delegation` (prompts consist of what the compiler can find,
finitely many amounts and numbers; a confirmed limit is a number, as the compiler's
`float` makes sure). TLC evaluates them in every run of a module that extends theirs.

**Only model-checked.** Liveness, which is out of TLAPS's reach: `HoldsSettled` and
`RequestsAudited`. And the five properties that the code violates.

## 6. Plan

Done, in this order: the ledger, the gateway's interleavings, the chain, the rules and
the replay; the buyer agent with the negotiation, the policies as they change under an
evaluation, the compiler and the delegations it makes; then the proofs of all safety
properties that the passing runs check. Next:

1. `PaymentStateMachine`: which of its transitions the record functions make, as an
   action property of `Gateway`, with a theorem.
2. `Shopping` on `Gateway`: that an evaluation of `Shopping` is one of the authorize
   handler, so that one module need not let the ledger answer anything.
3. `PolicyCompiler`: the budget's period and the validity, with `Reservations` for the
   windows.

Not modelled at all: the explanation agent, logging and configuration (no state,
or text only), the frontend (renders answers), the evaluation harness, and
`schemas.py`, `models.py`, `database.py`, `config.py` at the top of `src/app`, a
first design that the started application does not import. Not modelled of what is:
the period and the validity a compiler finds, the texts, titles and delivery estimates
of a negotiation, the text search of the catalog, which only the browser uses.
