-------------------------------- MODULE Gateway --------------------------------
(***************************************************************************)
(* The gateway: the authorize and pay handlers of api/routes.py, running   *)
(* concurrently in the server's thread pool over one SQLite database, with *)
(* the contract, catalog, ledger, decision, challenge, transaction,        *)
(* payment-attempt and audit tables they share.                            *)
(*                                                                         *)
(* A request is a process. Each of its steps is one database access of the *)
(* handler (a read, or one BEGIN IMMEDIATE transaction), and steps of      *)
(* different requests interleave freely. A step that only receives the     *)
(* request is merged with the first read that follows it.                  *)
(*                                                                         *)
(* The outcome of the rules that look at nothing mutable but the order     *)
(* itself is a field of the order; the rules that read the contract, the   *)
(* stock, the clock and the ledger are evaluated here.                     *)
(***************************************************************************)
EXTENDS Integers, FiniteSets, PaymentStateMachine

CONSTANTS
  Auths,          (* authorize requests; also the ids of the decision and   *)
                  (* of the reservation a request creates                   *)
  Pays,           (* pay requests; also the ids of their payment attempts   *)
  Txs, Keys, Skus, Contracts,
  EmptyKey,       (* the idempotency key ""                                 *)
  Unlisted,       (* a sku with no row in the products table                *)
  Orders,         (* the orders agents may submit (a subset of Order)       *)
  Payments,       (* the payments agents may submit (a subset of Payment)   *)
  Expiries,       (* the expiry instants contracts are created with         *)
  SeedStock,      (* inventories the catalog is seeded with                 *)
  SeedContracts,  (* the contracts written by seed_contracts                *)
  SeedRevoked,    (* those it writes as revoked                             *)
  Validity,       (* days_valid of the seeded contracts                     *)
  Cap, Period, CalendarStart, Timeout, MaxAmount, MaxTime, NoRow,
  MaxRestarts,    (* bound: restarts of the server                          *)
  None            (* no row, no value                                       *)

VARIABLES
  rows, clock, late,  (* the ledger, see Reservations                       *)
  contracts,     (* contracts[c]: row of authorization_contracts            *)
  stock,         (* stock[s]: products.inventory                            *)
  decision,      (* decision[a]: row of authorization_decisions             *)
  challenge,     (* challenge[a]: row of step_up_challenges                 *)
  transactions,  (* transactions[t]: row of transactions                    *)
  attempts,      (* attempts[p]: row of payment_attempts                    *)
  audit,         (* the events in the audit chain                           *)
  owed,          (* the events finished handlers are about to append        *)
  request,       (* request[q]: what q was submitted with                   *)
  pc,            (* pc[q]: the database access q makes next                 *)
  view,          (* view[a]: local variables of evaluate                    *)
  hold,          (* hold[p]: the reservation execute_payment found          *)
  since,         (* since[q]: when q last read the clock                    *)
  known,         (* history: the attempts recorded when p looked up its key *)
  restarts       (* restarts of the server so far                           *)

Ledger == INSTANCE Reservations WITH Ids <- Auths, MaxLag <- MaxTime

ledger == <<rows, clock, late>>
tables == <<contracts, stock, decision, challenge, transactions, attempts>>
locals == <<request, view, hold, since, known>>
vars == <<ledger, tables, audit, owed, pc, locals, restarts>>

Requests == Auths \cup Pays
Times == 0 .. MaxTime
Decisions == {"ALLOW", "CHALLENGE", "DENY"}
ChallengeStatuses == {"PENDING", "APPROVED", "REJECTED"}
AttemptStatuses == {"SUCCESS", "FAILED"}

(* rules: what the remaining predicates of RuleEvaluator say of the order.  *)
(* Nothing keeps quantity from being zero or negative.                      *)
Order == [tx: Txs, contract: Contracts, amount: 0 .. MaxAmount,
          sku: Skus \cup {Unlisted}, qty: Int, rules: Decisions]
Payment == [tx: Txs, decision: Auths, key: Keys \cup {EmptyKey}, fails: BOOLEAN]

Contract == [revoked: BOOLEAN, expires: Nat]
Transaction == [status: {"COMPLETED", "PAYMENT_FAILED"},
                key: Keys \cup {EmptyKey}, decision: Auths]
View == [contract: Contract \cup {None}, inStock: BOOLEAN, spent: Nat,
         outcome: Decisions]

ASSUME GatewayAssumption ==
  /\ Auths \cap Pays = {} /\ IsFiniteSet(Auths)
  /\ Unlisted \notin Skus /\ EmptyKey \notin Keys
  /\ Orders \subseteq Order /\ Payments \subseteq Payment
  /\ Expiries \subseteq Nat
  /\ SeedStock \in [Skus -> Nat]
  /\ SeedRevoked \subseteq SeedContracts /\ SeedContracts \subseteq Contracts
  /\ Validity \in Nat /\ MaxRestarts \in Nat
  /\ None \notin Auths \cup Order \cup Payment \cup Contract \cup Transaction
  /\ None \notin Decisions \cup ChallengeStatuses \cup AttemptStatuses

(* The limits, periods and calendar are what the ledger takes them to be.   *)
ASSUME LedgerAssumption ==
  /\ NoRow \notin Ledger!Row
  /\ Ledger!BoundsAssumption
  /\ Ledger!ContractsAssumption
  /\ Ledger!CalendarAssumption

BlankView == [contract |-> None, inStock |-> FALSE, spent |-> 0, outcome |-> "DENY"]

Event(type, of) == [type |-> type, of |-> of]

(* The row seed_contracts writes for c at time t.                           *)
SeedRow(c, t) == [revoked |-> c \in SeedRevoked, expires |-> t + Validity]

(* Mutant: the handler returns without an audit event.                      *)
FinishSilently(q, type) ==
  /\ pc' = [pc EXCEPT ![q] = "done"]
  /\ UNCHANGED owed

(* The handler of q returns: only its audit event is left to append.        *)
Finish(q, type) ==
  /\ pc' = [pc EXCEPT ![q] = "done"]
  /\ owed' = owed \cup {Event(type, q)}

Goto(q, label) ==
  /\ pc' = [pc EXCEPT ![q] = label]
  /\ UNCHANGED owed

-------------------------------------------------------------------------------
(* POST /gateway/authorize: AuthorizationFirewall.evaluate.                 *)

GetContract(a, order) ==
  /\ pc[a] = "idle"
  /\ request' = [request EXCEPT ![a] = order]
  /\ view' = [view EXCEPT ![a].contract = contracts[order.contract],
                          ![a].outcome = "DENY"]
  /\ Goto(a, IF contracts[order.contract] = None THEN "persist" ELSE "product")
  /\ UNCHANGED <<ledger, tables, audit, hold, since, known, restarts>>

(* A product that is not in the catalog is not checked at all.              *)
GetProduct(a) ==
  LET order == request[a] IN
  /\ pc[a] = "product"
  /\ view' = [view EXCEPT ![a].inStock =
                \/ order.sku = Unlisted
                \/ order.qty <= stock[order.sku]]
  /\ Goto(a, "budget")
  /\ UNCHANGED <<ledger, tables, audit, request, hold, since, known, restarts>>

(* compute_budget_state reads the two sums in two statements outside any    *)
(* transaction.                                                             *)
ReadCommitted(a) ==
  LET c == request[a].contract IN
  /\ pc[a] = "budget"
  /\ view' = [view EXCEPT ![a].spent =
                Ledger!Total(Ledger!CommittedIn(c, Ledger!WindowStart(c, clock)))]
  /\ since' = [since EXCEPT ![a] = clock]
  /\ Goto(a, "evaluate")
  /\ UNCHANGED <<ledger, tables, audit, request, hold, known, restarts>>

(* compute_budget_state reads the holds, with the instant of the first read.*)
OverBudget(a) ==
  LET order == request[a]
      active == Ledger!Total(Ledger!ActiveAt(order.contract, since[a]))
  IN  order.amount + view[a].spent + active > Cap[order.contract]

(* Mutant: the revocation rule is not evaluated.                            *)
DeniedUnlessRevoked(a) ==
  \/ request[a].rules = "DENY"
  \/ clock > view[a].contract.expires
  \/ ~ view[a].inStock
  \/ OverBudget(a)

(* Some rule of evaluate_all fails with impact DENY.                        *)
Denied(a) ==
  \/ request[a].rules = "DENY"
  \/ view[a].contract.revoked
  \/ clock > view[a].contract.expires
  \/ ~ view[a].inStock
  \/ OverBudget(a)

(* The second read, the rules and the resolution of the decision.           *)
Evaluate(a) ==
  LET outcome == IF Denied(a) THEN "DENY" ELSE request[a].rules IN
  /\ pc[a] = "evaluate"
  /\ view' = [view EXCEPT ![a] = [BlankView EXCEPT !.outcome = outcome]]
  /\ since' = [since EXCEPT ![a] = IF outcome = "ALLOW" THEN clock ELSE 0]
  /\ Goto(a, IF outcome = "ALLOW" THEN "reserve" ELSE "persist")
  /\ UNCHANGED <<ledger, tables, audit, request, hold, known, restarts>>

(* Mutant: the answer of atomic_reserve is not looked at.                   *)
ReserveUnchecked(a) ==
  LET order == request[a] IN
  /\ pc[a] = "reserve"
  /\ \E now \in since[a] .. clock :
       Ledger!AtomicReserve(a, order.contract, order.amount, now)
  /\ since' = [since EXCEPT ![a] = 0]
  /\ Goto(a, "persist")
  /\ UNCHANGED <<tables, audit, request, view, hold, known, restarts>>

(* atomic_reserve; a refusal turns the decision into a DENY.                *)
Reserve(a) ==
  LET order == request[a] IN
  /\ pc[a] = "reserve"
  /\ \E now \in since[a] .. clock :
       Ledger!AtomicReserve(a, order.contract, order.amount, now)
  /\ view' = [view EXCEPT ![a].outcome = IF rows'[a] = NoRow THEN "DENY" ELSE "ALLOW"]
  /\ since' = [since EXCEPT ![a] = 0]
  /\ Goto(a, "persist")
  /\ UNCHANGED <<tables, audit, request, hold, known, restarts>>

(* Mutant: the challenge of a CHALLENGE decision is never created.          *)
PersistDecisionOnly(a) ==
  /\ pc[a] = "persist"
  /\ decision' = [decision EXCEPT ![a] = view[a].outcome]
  /\ view' = [view EXCEPT ![a] = BlankView]
  /\ Finish(a, "AUTHORIZATION_DECISION_EMITTED")
  /\ UNCHANGED <<ledger, contracts, stock, challenge, transactions, attempts,
                 audit, request, hold, since, known, restarts>>

PersistDecision(a) ==
  /\ pc[a] = "persist"
  /\ decision' = [decision EXCEPT ![a] = view[a].outcome]
  /\ view' = [view EXCEPT ![a] = BlankView]
  /\ IF view[a].outcome = "CHALLENGE"
       THEN Goto(a, "challenge")
       ELSE Finish(a, "AUTHORIZATION_DECISION_EMITTED")
  /\ UNCHANGED <<ledger, contracts, stock, challenge, transactions, attempts,
                 audit, request, hold, since, known, restarts>>

CreateStepUpChallenge(a) ==
  /\ pc[a] = "challenge"
  /\ challenge' = [challenge EXCEPT ![a] = "PENDING"]
  /\ Finish(a, "AUTHORIZATION_DECISION_EMITTED")
  /\ UNCHANGED <<ledger, contracts, stock, decision, transactions, attempts,
                 audit, locals, restarts>>

-------------------------------------------------------------------------------
(* POST /gateway/pay: RazorpayGatewayService.execute_payment.               *)

(* check_idempotency: a row with this key, whatever its status, is replayed *)
(* as a success. The empty key is never looked up.                          *)
KeyTaken(key) == \E t \in Txs : transactions[t] # None /\ transactions[t].key = key
(* Mutant: only completed transactions are replayed.                        *)
KeyCompleted(key) ==
  /\ key # EmptyKey
  /\ \E t \in Txs : /\ transactions[t] # None /\ transactions[t].key = key
                   /\ transactions[t].status = "COMPLETED"
KeyUsed(key) == key # EmptyKey /\ KeyTaken(key)

CheckIdempotency(p, payment) ==
  /\ pc[p] = "idle"
  /\ request' = [request EXCEPT ![p] = payment]
  /\ known' = [known EXCEPT ![p] = {p2 \in Pays : attempts[p2] # None}]
  /\ IF KeyUsed(payment.key)
       THEN Finish(p, "PAYMENT_EXECUTED")
       ELSE Goto(p, "decision")
  /\ UNCHANGED <<ledger, tables, audit, view, hold, since, restarts>>

(* Mutant: an order that needs the user's approval is paid for as well.     *)
LoadUnlessDenied(p) ==
  /\ pc[p] = "decision"
  /\ IF decision[request[p].decision] \in {"ALLOW", "CHALLENGE"}
       THEN Goto(p, "hold")
       ELSE Finish(p, "PAYMENT_FAILED")
  /\ UNCHANGED <<ledger, tables, audit, locals, restarts>>

(* Only an ALLOW decision is paid for.                                      *)
LoadDecision(p) ==
  /\ pc[p] = "decision"
  /\ IF decision[request[p].decision] = "ALLOW"
       THEN Goto(p, "hold")
       ELSE Finish(p, "PAYMENT_FAILED")
  /\ UNCHANGED <<ledger, tables, audit, locals, restarts>>

(* get_reservation_by_tx goes by the transaction id of the request, not by  *)
(* the decision. Rows created within one instant of the clock may be in     *)
(* either order.                                                            *)
LatestOf(tx) ==
  LET of == {r \in Ledger!Issued : request[r].tx = tx}
  IN  {r \in of : \A s \in of : rows[s].createdAt <= rows[r].createdAt}

GetReservationByTx(p) ==
  LET latest == LatestOf(request[p].tx) IN
  /\ pc[p] = "hold"
  /\ \E r \in (IF latest = {} THEN {None} ELSE latest) :
       hold' = [hold EXCEPT ![p] = r]
  /\ since' = [since EXCEPT ![p] = clock]
  /\ Goto(p, IF request[p].fails THEN "release" ELSE "commit")
  /\ UNCHANGED <<ledger, tables, audit, request, view, known, restarts>>

(* Mutants: the hold of a failed payment is forgotten, or committed.        *)
ReleaseForgotten(p) ==
  /\ pc[p] = "release"
  /\ since' = [since EXCEPT ![p] = 0]
  /\ Goto(p, "recordFailed")
  /\ UNCHANGED <<ledger, tables, audit, request, view, hold, known, restarts>>
ReleaseCommits(p) ==
  /\ pc[p] = "release"
  /\ IF hold[p] = None THEN UNCHANGED ledger
                       ELSE Ledger!CommitReservation(hold[p], clock)
  /\ since' = [since EXCEPT ![p] = 0]
  /\ Goto(p, "recordFailed")
  /\ UNCHANGED <<tables, audit, request, view, hold, known, restarts>>

ReleaseBudget(p) ==
  /\ pc[p] = "release"
  /\ IF hold[p] = None THEN UNCHANGED ledger
                       ELSE Ledger!ReleaseReservation(hold[p])
  /\ since' = [since EXCEPT ![p] = 0]
  /\ Goto(p, "recordFailed")
  /\ UNCHANGED <<tables, audit, request, view, hold, known, restarts>>

(* Mutants: a hold that was already settled is committed again, or one that *)
(* has expired is left alone.                                               *)
CommitAnyStatus(p) ==
  /\ pc[p] = "commit"
  /\ rows' = IF hold[p] = None THEN rows
             ELSE [rows EXCEPT ![hold[p]].status = "COMMITTED",
                               ![hold[p]].committedAt = clock]
  /\ UNCHANGED <<clock, late>>
  /\ since' = [since EXCEPT ![p] = 0]
  /\ Goto(p, "recordPaid")
  /\ UNCHANGED <<tables, audit, request, view, hold, known, restarts>>
CommitUnexpired(p) ==
  /\ pc[p] = "commit"
  /\ IF hold[p] # None /\ rows[hold[p]].expiresAt > clock
       THEN Ledger!CommitReservation(hold[p], clock)
       ELSE UNCHANGED ledger
  /\ since' = [since EXCEPT ![p] = 0]
  /\ Goto(p, "recordPaid")
  /\ UNCHANGED <<tables, audit, request, view, hold, known, restarts>>

(* Whether the reservation was still PENDING is not looked at.              *)
CommitBudget(p) ==
  /\ pc[p] = "commit"
  /\ IF hold[p] = None
       THEN UNCHANGED ledger
       ELSE \E now \in since[p] .. clock : Ledger!CommitReservation(hold[p], now)
  /\ since' = [since EXCEPT ![p] = 0]
  /\ Goto(p, "recordPaid")
  /\ UNCHANGED <<tables, audit, request, view, hold, known, restarts>>

(* The upsert of both record functions: an existing row of the transaction  *)
(* only has its status overwritten; a new one needs a key no other row has  *)
(* (idempotency_key is UNIQUE, the empty key included) and a listed sku     *)
(* (a foreign key), or the database refuses the whole transaction.          *)
Recordable(p) ==
  LET payment == request[p] IN
  \/ transactions[payment.tx] # None
  \/ /\ request[payment.decision].sku # Unlisted
     /\ ~ KeyTaken(payment.key)

Upserted(p, status) ==
  LET payment == request[p]
      old == transactions[payment.tx]
  IN  [transactions EXCEPT ![payment.tx] =
         IF old # None
           THEN [old EXCEPT !.status = status]
           ELSE [status |-> status, key |-> payment.key,
                 decision |-> payment.decision]]

(* Mutant: the stock is not kept from going below zero.                     *)
DeductedBelowZero(s, qty) == stock[s] - qty
(* MAX(0, inventory - quantity); a negative quantity adds to the stock.     *)
Deducted(s, qty) == IF qty <= stock[s] THEN stock[s] - qty ELSE 0

RecordSuccessfulPayment(p) ==
  LET order == request[request[p].decision] IN
  /\ pc[p] = "recordPaid"
  /\ Recordable(p)
  /\ transactions' = Upserted(p, "COMPLETED")
  /\ attempts' = [attempts EXCEPT ![p] = "SUCCESS"]
  /\ stock' = [s \in Skus |-> IF s = order.sku THEN Deducted(s, order.qty) ELSE stock[s]]
  /\ Finish(p, "PAYMENT_EXECUTED")
  /\ UNCHANGED <<ledger, contracts, decision, challenge, audit, locals, restarts>>

RecordFailedPayment(p) ==
  /\ pc[p] = "recordFailed"
  /\ Recordable(p)
  /\ transactions' = Upserted(p, "PAYMENT_FAILED")
  /\ attempts' = [attempts EXCEPT ![p] = "FAILED"]
  /\ Finish(p, "PAYMENT_FAILED")
  /\ UNCHANGED <<ledger, contracts, stock, decision, challenge, audit, locals, restarts>>

(* IntegrityError: rolled back, and the handler ends without an audit event.*)
RecordRefused(p) ==
  /\ pc[p] \in {"recordPaid", "recordFailed"}
  /\ ~ Recordable(p)
  /\ Goto(p, "error")
  /\ UNCHANGED <<ledger, tables, audit, locals, restarts>>

-------------------------------------------------------------------------------
(* The user's operations, the audit log, the server and the clock.          *)

(* POST /user/delegations: a plain INSERT of what the request says, its     *)
(* is_revoked included.                                                     *)
CreateContract(c, contract) ==
  /\ contracts[c] = None
  /\ contracts' = [contracts EXCEPT ![c] = contract]
  /\ owed' = owed \cup {Event("AUTHORIZATION_CONTRACT_CREATED", c)}
  /\ UNCHANGED <<ledger, stock, decision, challenge, transactions, attempts,
                 audit, pc, locals, restarts>>

(* POST /user/delegations/{id}/revoke.                                      *)
RevokeContract(c) ==
  /\ contracts' = IF contracts[c] = None THEN contracts
                  ELSE [contracts EXCEPT ![c].revoked = TRUE]
  /\ owed' = owed \cup {Event("AUTHORIZATION_CONTRACT_REVOKED", c)}
  /\ UNCHANGED <<ledger, stock, decision, challenge, transactions, attempts,
                 audit, pc, locals, restarts>>

(* POST /gateway/challenges/resolve: the status is overwritten, resolved or *)
(* not; neither the decision nor the audit log is touched.                  *)
ResolveChallenge(a, verdict) ==
  /\ challenge[a] # None
  /\ challenge' = [challenge EXCEPT ![a] = verdict]
  /\ UNCHANGED <<ledger, contracts, stock, decision, transactions, attempts,
                 audit, owed, pc, locals, restarts>>

(* append_event, a transaction of its own after the handler's work.         *)
AppendEvent(e) ==
  /\ e \in owed
  /\ audit' = audit \cup {e}
  /\ owed' = owed \ {e}
  /\ UNCHANGED <<ledger, tables, pc, locals, restarts>>

InFlight(q) == pc[q] \notin {"idle", "done", "error", "lost"}

(* The process dies between two transactions and starts again: requests in  *)
(* flight and events not appended are gone, and lifespan seeds the catalog  *)
(* and the contracts over whatever is in their rows.                        *)
Restart ==
  /\ restarts < MaxRestarts
  /\ restarts' = restarts + 1
  /\ pc' = [q \in Requests |-> IF InFlight(q) THEN "lost" ELSE pc[q]]
  /\ view' = [a \in Auths |-> BlankView]
  /\ since' = [q \in Requests |-> 0]
  /\ owed' = {}
  /\ stock' = SeedStock
  /\ contracts' = [c \in Contracts |->
       IF c \in SeedContracts THEN SeedRow(c, clock) ELSE contracts[c]]
  /\ UNCHANGED <<ledger, decision, challenge, transactions, attempts, audit,
                 request, hold, known>>

Tick ==
  /\ Ledger!Tick
  /\ UNCHANGED <<tables, audit, owed, pc, locals, restarts>>

Init ==
  /\ Ledger!Init
  /\ contracts = [c \in Contracts |->
       IF c \in SeedContracts THEN SeedRow(c, 0) ELSE None]
  /\ stock = SeedStock
  /\ decision = [a \in Auths |-> None]
  /\ challenge = [a \in Auths |-> None]
  /\ transactions = [t \in Txs |-> None]
  /\ attempts = [p \in Pays |-> None]
  /\ audit = {} /\ owed = {}
  /\ request = [q \in Requests |-> None]
  /\ pc = [q \in Requests |-> "idle"]
  /\ view = [a \in Auths |-> BlankView]
  /\ hold = [p \in Pays |-> None]
  /\ since = [q \in Requests |-> 0]
  /\ known = [p \in Pays |-> {}]
  /\ restarts = 0

AuthorizeStep(a) ==
  \/ GetProduct(a) \/ ReadCommitted(a) \/ Evaluate(a) \/ Reserve(a)
  \/ PersistDecision(a) \/ CreateStepUpChallenge(a)
PayStep(p) ==
  \/ LoadDecision(p) \/ GetReservationByTx(p) \/ ReleaseBudget(p) \/ CommitBudget(p)
  \/ RecordSuccessfulPayment(p) \/ RecordFailedPayment(p) \/ RecordRefused(p)
UserStep ==
  \/ \E c \in Contracts, contract \in [revoked: BOOLEAN, expires: Expiries] :
       CreateContract(c, contract)
  \/ \E c \in Contracts : RevokeContract(c)
  \/ \E a \in Auths, verdict \in {"APPROVED", "REJECTED"} : ResolveChallenge(a, verdict)

Next ==
  \/ \E a \in Auths, order \in Orders : GetContract(a, order)
  \/ \E a \in Auths : AuthorizeStep(a)
  \/ \E p \in Pays, payment \in Payments : CheckIdempotency(p, payment)
  \/ \E p \in Pays : PayStep(p)
  \/ \E e \in owed : AppendEvent(e)
  \/ UserStep
  \/ Restart
  \/ Tick

Spec == Init /\ [][Next]_vars

(* A handler that was entered runs on: its thread is scheduled and the      *)
(* database lock is granted. Nothing makes agents submit requests, users    *)
(* act, the server restart or the bounded clock advance.                    *)
Fairness ==
  /\ \A a \in Auths : WF_vars(AuthorizeStep(a))
  /\ \A p \in Pays : WF_vars(PayStep(p))
  /\ \A q \in Requests : WF_vars(\E e \in owed : e.of = q /\ AppendEvent(e))
FairSpec == Spec /\ Fairness

-------------------------------------------------------------------------------
(* Type invariant of the gateway.                                           *)
Labels == {"idle", "product", "budget", "evaluate", "reserve", "persist",
           "challenge", "decision", "hold", "release", "commit", "recordPaid",
           "recordFailed", "done", "error", "lost"}
EventTypes == {"AUTHORIZATION_DECISION_EMITTED", "PAYMENT_EXECUTED", "PAYMENT_FAILED",
               "AUTHORIZATION_CONTRACT_CREATED", "AUTHORIZATION_CONTRACT_REVOKED"}
Events == [type: EventTypes, of: Requests \cup Contracts]
TypeOK ==
  /\ Ledger!TypeOK
  /\ contracts \in [Contracts -> Contract \cup {None}]
  /\ stock \in [Skus -> Nat]
  /\ decision \in [Auths -> Decisions \cup {None}]
  /\ challenge \in [Auths -> ChallengeStatuses \cup {None}]
  /\ transactions \in [Txs -> Transaction \cup {None}]
  /\ attempts \in [Pays -> AttemptStatuses \cup {None}]
  /\ audit \subseteq Events /\ owed \subseteq Events
  /\ request \in [Requests -> Order \cup Payment \cup {None}]
  /\ pc \in [Requests -> Labels]
  /\ view \in [Auths -> View]
  /\ hold \in [Pays -> Auths \cup {None}]
  /\ since \in [Requests -> Times]
  /\ known \in [Pays -> SUBSET Pays]
  /\ restarts \in 0 .. MaxRestarts

(* The gateway changes budget_reservations only through the transactions of *)
(* ReservationService, so what the ledger guarantees holds in it, stale     *)
(* reads, retries and restarts included. (Ledger!Spec, with the steps that  *)
(* leave the ledger alone told apart first.)                                *)
UsesLedger == Ledger!Init /\ [][UNCHANGED ledger \/ Ledger!Next]_ledger

(* A decision and the ledger never tell different stories, although they    *)
(* are written by two transactions with a crash possible between them: an   *)
(* ALLOW has reserved its order's amount on its contract, and a DENY or a   *)
(* CHALLENGE holds no budget.                                               *)
AllowHoldsBudget ==
  \A a \in Auths :
    /\ decision[a] = "ALLOW" =>
         /\ rows[a] # NoRow
         /\ rows[a].contract = request[a].contract
         /\ rows[a].amount = request[a].amount
    /\ decision[a] \in {"DENY", "CHALLENGE"} => rows[a] = NoRow

(* An order that needs the user's approval and does not have it, because its*)
(* challenge is open or was rejected, be it after an approval, holds no     *)
(* budget and no payment of it has been charged, whenever it was submitted. *)
UnapprovedChargesNothing ==
  \A a \in Auths : challenge[a] \in {"PENDING", "REJECTED"} =>
    /\ decision[a] = "CHALLENGE" /\ rows[a] = NoRow
    /\ \A p \in Pays : attempts[p] # None => request[p].decision # a

(* A recorded payment attempt belongs to an allowed decision and has settled*)
(* the hold it found: no charge leaves its budget to expire, no failed      *)
(* payment keeps it. A charge whose hold no failing payment shared has it   *)
(* COMMITTED.                                                               *)
PaymentSettlesHold ==
  \A p \in Pays : attempts[p] # None =>
    /\ decision[request[p].decision] = "ALLOW"
    /\ hold[p] # None => rows[hold[p]].status # "PENDING"
    /\ (/\ hold[p] # None /\ attempts[p] = "SUCCESS"
        /\ \A p2 \in Pays : hold[p2] = hold[p] => ~ request[p2].fails)
         => rows[hold[p]].status = "COMMITTED"

(* Budget is only spent by a payment that is recorded, is about to be, was  *)
(* refused by the database or was cut short by a crash.                     *)
SpentBudgetHasPayment ==
  \A r \in Ledger!Issued : rows[r].status = "COMMITTED" =>
    \E p \in Pays : /\ hold[p] = r /\ ~ request[p].fails
                    /\ \/ attempts[p] = "SUCCESS"
                       \/ pc[p] \in {"recordPaid", "error", "lost"}

(* An audit event never runs ahead of what it reports: the decision and the *)
(* challenge it announces are in the database, a payment it reports executed*)
(* is recorded or a replay, one it reports failed was not charged.          *)
AuditNeverAhead ==
  \A e \in audit \cup owed :
    /\ e.type = "AUTHORIZATION_DECISION_EMITTED" =>
         /\ decision[e.of] # None
         /\ decision[e.of] = "CHALLENGE" => challenge[e.of] # None
    /\ e.type = "PAYMENT_EXECUTED" =>
         attempts[e.of] = "SUCCESS" \/ KeyUsed(request[e.of].key)
    /\ e.type = "PAYMENT_FAILED" => attempts[e.of] # "SUCCESS"

(* Two payments that were submitted with one non-empty key for one          *)
(* transaction, the second after the first had been recorded.               *)
SequentialRetry(p1, p2) ==
  /\ request[p1] # None /\ request[p2] # None
  /\ request[p1].tx = request[p2].tx
  /\ request[p1].key = request[p2].key /\ request[p2].key # EmptyKey
  /\ p1 \in known[p2]

(* A client that pays a transaction under one key only, and retries once the*)
(* answer is recorded, is never charged by a retry.                         *)
SoleKeyRetrySafe ==
  \A p1, p2 \in Pays :
    SequentialRetry(p1, p2) /\ attempts[p2] # None =>
      \E p3 \in Pays : /\ attempts[p3] # None
                       /\ request[p3].tx = request[p2].tx
                       /\ request[p3].key # request[p2].key

(* The status of a transaction is overwritten against PaymentStateMachine,  *)
(* which nobody asks, only by a payment that was no sequential retry of     *)
(* another recorded one: submitted before the answer, or under another key. *)
StatusOverwrittenByRace ==
  [][\A t \in Txs :
       /\ transactions[t] # None /\ transactions'[t] # transactions[t]
       /\ transactions'[t].status \notin TRANSITIONS(transactions[t].status)
       => \E p1, p2 \in Pays :
            /\ attempts[p1] # None /\ request[p1].tx = t
            /\ attempts[p2] = None /\ attempts'[p2] # None /\ request[p2].tx = t
            /\ ~ SequentialRetry(p1, p2)]_vars

(* What was charged for product s, unit by unit: with sign 1 the units sold,*)
(* with sign -1 those a negative quantity put back.                         *)
OrderOf(p) == request[request[p].decision]
Units(s, sign) ==
  UNION {{p} \X (1 .. sign * OrderOf(p).qty) :
           p \in {x \in Pays : attempts[x] = "SUCCESS" /\ OrderOf(x).sku = s}}
(* Until a restart reseeds the catalog, the stock of a product is what it   *)
(* was seeded with less what was sold and plus what was put back; once more *)
(* was sold than there was, the shortfall is forgotten and what is left is  *)
(* at most what was put back.                                               *)
StockFollowsSales ==
  restarts = 0 => \A s \in Skus :
    LET sold == Cardinality(Units(s, 1))
        back == Cardinality(Units(s, -1))
    IN  IF sold <= SeedStock[s] THEN stock[s] = SeedStock[s] - sold + back
                                ELSE stock[s] \in 0 .. back

(* Once a contract is revoked, a request that arrives later is never        *)
(* allowed, restarts included; for the contracts of the demo data, until a  *)
(* restart seeds them again.                                                *)
RevokedStaysDenied ==
  \A a \in Auths, c \in Contracts, n \in 0 .. MaxRestarts :
    []( /\ contracts[c] # None /\ contracts[c].revoked
        /\ pc[a] = "idle" /\ restarts = n
        => []( /\ request[a] # None /\ request[a].contract = c
               /\ c \in SeedContracts => restarts = n
               => decision[a] # "ALLOW"))

(* A hold that a payment has picked up is settled, unless the server goes   *)
(* down under the payment.                                                  *)
HoldsSettled ==
  \A p \in Pays, r \in Auths :
    (hold[p] = r) ~>
      (\/ rows[r] # NoRow /\ rows[r].status # "PENDING"
       \/ pc[p] = "lost")

(* Every request that was entered is finished and its event reaches the     *)
(* audit log, unless the database refuses its record or the server goes     *)
(* down before that.                                                        *)
RequestsAudited ==
  \A q \in Requests, n \in 0 .. MaxRestarts :
    (InFlight(q) /\ restarts = n) ~>
      ((\E e \in audit : e.of = q) \/ pc[q] = "error" \/ restarts > n)

-------------------------------------------------------------------------------
(* What the repository's documents say of the gateway and the code does not *)
(* do; each is refuted by a run of its own.                                 *)

(* One idempotency key is charged once, and nothing is charged under a      *)
(* contract that was revoked before. This is the least that follows from the*)
(* two: no charge is against both, made under a key that was charged already*)
(* and a contract that the user has revoked. The key is looked up before,   *)
(* and outside, the transaction that records it; the contract is not looked *)
(* at.                                                                      *)
RevokedRetryNotCharged ==
  [][\A p1, p2 \in Pays :
       /\ attempts[p1] = "SUCCESS" /\ attempts[p2] = None /\ attempts'[p2] = "SUCCESS"
       /\ request[p1].key = request[p2].key /\ request[p2].key # EmptyKey
       => ~ contracts[OrderOf(p2).contract].revoked]_vars

(* Once the user has approved an order that needed it, the order may be paid*)
(* for: its payment gets past the decision. ResolveChallenge changes the    *)
(* status of the challenge and never the decision a payment goes by.        *)
ApprovedIsPayable ==
  [][\A p \in Pays :
       pc[p] = "decision" /\ challenge[request[p].decision] = "APPROVED"
         => pc'[p] \notin {"done", "error"}]_vars

===============================================================================
