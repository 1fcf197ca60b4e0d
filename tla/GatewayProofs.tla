----------------------------- MODULE GatewayProofs -----------------------------
(***************************************************************************)
(* Proofs about the gateway, for every set of requests, orders, payments,  *)
(* keys, contracts and products, every seed, calendar and clock, and any   *)
(* number of restarts of the server.                                       *)
(*                                                                         *)
(* The inductive invariant is kept in parts, one per table or actor, so    *)
(* that the proof of each theorem shows what that theorem rests on.        *)
(***************************************************************************)
EXTENDS Gateway, FiniteSetTheorems, TLAPS

(* The ledger with the theorems proved about it.                            *)
LedgerFacts == INSTANCE ReservationsProofs WITH Ids <- Auths, MaxLag <- MaxTime

-------------------------------------------------------------------------------
(* The parts of the inductive invariant *)

AuthorizeLabels == {"idle", "product", "budget", "evaluate", "reserve", "persist",
                    "challenge", "done", "lost"}
PayLabels == {"idle", "decision", "hold", "release", "commit", "recordPaid",
              "recordFailed", "done", "error", "lost"}

(* A request runs through the steps of its own handler, with what it was    *)
(* submitted with.                                                          *)
Submitted ==
  /\ \A a \in Auths : /\ pc[a] \in AuthorizeLabels
                      /\ pc[a] # "idle" => request[a] \in Order
  /\ \A p \in Pays : /\ pc[p] \in PayLabels
                     /\ pc[p] # "idle" => request[p] \in Payment

(* No request carries a stamp of the future.                                *)
StampsPast == \A q \in Requests : since[q] <= clock

Typed == TypeOK /\ Submitted /\ StampsPast

(* A decision is persisted at the end of its handler, and a payment is only *)
(* carried on with under an ALLOW decision.                                 *)
Decided == {"challenge", "done", "lost"}
Paying == {"hold", "release", "commit", "recordPaid", "recordFailed"}
DecidedFirst ==
  /\ \A a \in Auths : decision[a] # None => pc[a] \in Decided
  /\ \A p \in Pays : pc[p] \in Paying \/ attempts[p] # None =>
       decision[request[p].decision] = "ALLOW"
  /\ \A p \in Pays : attempts[p] # None => pc[p] = "done"

(* What the tables say of an authorize request at each step of its handler. *)
Undecided == {"idle", "product", "budget", "evaluate", "reserve"}
DecisionFollowed(a) ==
  /\ pc[a] \in Undecided => rows[a] = NoRow
  /\ challenge[a] # None => decision[a] = "CHALLENGE" /\ pc[a] \in {"done", "lost"}
  /\ pc[a] = "persist" => (view[a].outcome = "ALLOW" <=> rows[a] # NoRow)
  /\ pc[a] = "challenge" => decision[a] = "CHALLENGE"
  /\ pc[a] = "done" =>
       decision[a] # None /\ (decision[a] = "CHALLENGE" => challenge[a] # None)
  /\ decision[a] = "ALLOW" => rows[a] # NoRow
  /\ decision[a] \in {"DENY", "CHALLENGE"} => rows[a] = NoRow
  /\ rows[a] # NoRow => /\ rows[a].contract = request[a].contract
                        /\ rows[a].amount = request[a].amount
DecisionsFollowed == \A a \in Auths : DecisionFollowed(a)

(* What they say of a pay request.                                          *)
PaymentFollowed(p) ==
  /\ hold[p] # None => /\ pc[p] \notin {"idle", "decision", "hold"}
                       /\ rows[hold[p]] # NoRow
  /\ pc[p] \in {"release", "recordFailed"} => request[p].fails
  /\ pc[p] \in {"commit", "recordPaid"} \/ attempts[p] = "SUCCESS" => ~ request[p].fails
  /\ (pc[p] \in {"recordPaid", "recordFailed"} \/ attempts[p] # None) /\ hold[p] # None
       => rows[hold[p]].status # "PENDING"
PaymentsFollowed == \A p \in Pays : PaymentFollowed(p)

(* A hold that was released was released by a payment that failed.          *)
ReleasedByFailure ==
  \A r \in Ledger!Issued : rows[r].status = "RELEASED" =>
    \E p \in Pays : hold[p] = r /\ request[p].fails

(* An event reports of a request whose handler has returned.                *)
Reports(e) ==
  /\ e.type = "AUTHORIZATION_DECISION_EMITTED" => e.of \in Auths /\ pc[e.of] = "done"
  /\ e.type = "PAYMENT_EXECUTED" =>
       /\ e.of \in Pays /\ pc[e.of] = "done"
       /\ attempts[e.of] = "SUCCESS" \/ KeyUsed(request[e.of].key)
  /\ e.type = "PAYMENT_FAILED" =>
       e.of \in Pays /\ pc[e.of] = "done" /\ attempts[e.of] # "SUCCESS"
EventsFinished == \A e \in audit \cup owed : Reports(e)

(* A transaction and the attempts recorded for it: it keeps the key of the  *)
(* payment that created it, and a payment that passed the idempotency check *)
(* found no transaction under its key.                                      *)
PastCheck(p) ==
  pc[p] \in {"decision"} \cup Paying \/ attempts[p] # None
KeysRecorded ==
  /\ \A p \in Pays : attempts[p] # None => transactions[request[p].tx] # None
  /\ \A t \in Txs : transactions[t] # None =>
       \E p \in Pays : /\ attempts[p] # None
                       /\ request[p].tx = t /\ request[p].key = transactions[t].key
  /\ \A p \in Pays : \A p1 \in known[p] :
       /\ attempts[p1] # None
       /\ PastCheck(p) /\ request[p].key # EmptyKey =>
            transactions[request[p1].tx].key # request[p].key

(* Finitely many units were sold or put back.                               *)
SalesFinite ==
  \A s \in Skus : IsFiniteSet(Units(s, 1)) /\ IsFiniteSet(Units(s, -1))

-------------------------------------------------------------------------------
(* The ledger inside the gateway *)

(* What the ledger assumes of its constants holds in the gateway.           *)
LEMMA LedgerAssumed ==
  /\ LedgerFacts!IsFiniteSet(Auths) /\ NoRow \notin LedgerFacts!Row
  /\ LedgerFacts!BoundsAssumption
  /\ LedgerFacts!ContractsAssumption
  /\ LedgerFacts!CalendarAssumption
<1>1. LedgerFacts!Row = Ledger!Row
  BY DEF LedgerFacts!Row, Ledger!Row, LedgerFacts!Statuses, Ledger!Statuses,
         LedgerFacts!Times, Ledger!Times, LedgerFacts!Amounts, Ledger!Amounts
<1>2. LedgerFacts!IsFiniteSet(Auths)
  BY GatewayAssumption DEF LedgerFacts!IsFiniteSet, IsFiniteSet
<1>3. LedgerFacts!BoundsAssumption
  BY LedgerAssumption
<1>4. LedgerFacts!ContractsAssumption
  BY LedgerAssumption
  DEF LedgerFacts!Periods, Ledger!Periods, LedgerFacts!CalendarPeriods, Ledger!CalendarPeriods
<1>5. LedgerFacts!CalendarAssumption
  BY LedgerAssumption
  DEF LedgerFacts!Times, Ledger!Times, LedgerFacts!CalendarPeriods, Ledger!CalendarPeriods
<1>. QED
  BY <1>1, <1>2, <1>3, <1>4, <1>5, LedgerAssumption

(* The two copies of the ledger are one.                                    *)
LEMMA SameOperators ==
  /\ LedgerFacts!Times = Ledger!Times
  /\ LedgerFacts!Amounts = Ledger!Amounts
  /\ LedgerFacts!Row = Ledger!Row
  /\ LedgerFacts!Issued = Ledger!Issued
  /\ LedgerFacts!Stamps = Ledger!Stamps
  /\ LedgerFacts!vars = Ledger!vars
BY DEF LedgerFacts!Times, Ledger!Times, LedgerFacts!Amounts, Ledger!Amounts,
  LedgerFacts!Row, Ledger!Row, LedgerFacts!Statuses, Ledger!Statuses,
  LedgerFacts!Issued, Ledger!Issued, LedgerFacts!Stamps, Ledger!Stamps,
  LedgerFacts!vars, Ledger!vars

(* The ledger instantiated twice adds up the same totals,                   *)
LEMMA SameTotal ==
  ASSUME NEW S
  PROVE  LedgerFacts!Total(S) = Ledger!Total(S)
BY DEF LedgerFacts!Total, Ledger!Total, LedgerFacts!Rupees, Ledger!Rupees,
  LedgerFacts!Cardinality, Ledger!Cardinality

(* the same sums of a window,                                               *)
LEMMA SameSums ==
  ASSUME NEW c, NEW t
  PROVE  /\ LedgerFacts!WindowStart(c, t) = Ledger!WindowStart(c, t)
         /\ LedgerFacts!CommittedIn(c, t) = Ledger!CommittedIn(c, t)
         /\ LedgerFacts!ActiveAt(c, t) = Ledger!ActiveAt(c, t)
BY DEF LedgerFacts!WindowStart, Ledger!WindowStart,
  LedgerFacts!CalendarPeriods, Ledger!CalendarPeriods,
  LedgerFacts!CommittedIn, Ledger!CommittedIn, LedgerFacts!ActiveAt, Ledger!ActiveAt,
  LedgerFacts!Issued, Ledger!Issued

(* and so it is the same ledger.                                            *)
LEMMA SameLedger ==
  /\ LedgerFacts!Init <=> Ledger!Init
  /\ LedgerFacts!Next <=> Ledger!Next
  /\ LedgerFacts!TypeOK <=> Ledger!TypeOK
  /\ LedgerFacts!BudgetRespected <=> Ledger!BudgetRespected
<1>1. LedgerFacts!Init <=> Ledger!Init
  BY DEF LedgerFacts!Init, Ledger!Init
<1>2. LedgerFacts!TypeOK <=> Ledger!TypeOK
  BY SameOperators DEF LedgerFacts!TypeOK, Ledger!TypeOK
<1>3. \A c, a, now : LedgerFacts!Fits(c, a, now) <=> Ledger!Fits(c, a, now)
  BY SameTotal, SameSums DEF LedgerFacts!Fits, Ledger!Fits
<1>4. LedgerFacts!Next <=> Ledger!Next
  BY <1>3, SameOperators
  DEF LedgerFacts!Next, Ledger!Next, LedgerFacts!AtomicReserve, Ledger!AtomicReserve,
    LedgerFacts!CommitReservation, Ledger!CommitReservation,
    LedgerFacts!ReleaseReservation, Ledger!ReleaseReservation,
    LedgerFacts!Tick, Ledger!Tick
<1>5. LedgerFacts!BudgetRespected <=> Ledger!BudgetRespected
  <2>1. \A c, t : LedgerFacts!Charged(c, t) = Ledger!Charged(c, t)
    BY SameSums, SameOperators
    DEF LedgerFacts!Charged, Ledger!Charged, LedgerFacts!OnTime, Ledger!OnTime,
      LedgerFacts!AliveFor, Ledger!AliveFor
  <2>. QED
    BY <2>1, SameTotal, SameOperators DEF LedgerFacts!BudgetRespected, Ledger!BudgetRespected
<1>. QED
  BY <1>1, <1>2, <1>4, <1>5

(* The stamps the gateway works with are stamps of the ledger.              *)
LEMMA StampsAreLedgerStamps ==
  ASSUME clock \in Times
  PROVE  \A t \in Times : \A now \in t .. clock : now \in Ledger!Stamps
BY LedgerAssumption DEF Times, Ledger!Stamps, Ledger!Times, Ledger!BoundsAssumption

(* Every step of the gateway is a transaction of the ledger or leaves it    *)
(* alone.                                                                   *)
LEMMA GatewayLedgerStep ==
  ASSUME Typed, [Next]_vars
  PROVE  [Ledger!Next]_(Ledger!vars)
<1>. DEFINE Kept == UNCHANGED <<rows, clock, late>>
<1>. USE DEF Typed, TypeOK
<1>0. Times = Ledger!Times /\ clock \in Times
  BY DEF Times, Ledger!Times, Ledger!TypeOK
<1>1. ASSUME NEW a \in Auths, Reserve(a)
      PROVE  Ledger!Next
  <2>1. request[a] \in Order /\ since[a] \in Times
    BY <1>1 DEF Reserve, Submitted, Requests
  <2>2. PICK now \in since[a] .. clock :
          Ledger!AtomicReserve(a, request[a].contract, request[a].amount, now)
    BY <1>1 DEF Reserve
  <2>3. now \in Ledger!Stamps
    BY <1>0, <2>1, StampsAreLedgerStamps
  <2>4. request[a].contract \in Contracts /\ request[a].amount \in Ledger!Amounts
    BY <2>1 DEF Order, Ledger!Amounts
  <2>. QED
    BY <2>2, <2>3, <2>4 DEF Ledger!Next
<1>2. ASSUME NEW p \in Pays, CommitBudget(p)
      PROVE  Ledger!Next \/ Kept
  <2>1. CASE hold[p] = None
    BY <1>2, <2>1 DEF CommitBudget, ledger
  <2>2. CASE hold[p] # None
    <3>1. hold[p] \in Auths /\ since[p] \in Times
      BY <2>2 DEF Requests
    <3>2. PICK now \in since[p] .. clock : Ledger!CommitReservation(hold[p], now)
      BY <1>2, <2>2 DEF CommitBudget
    <3>3. now \in Ledger!Stamps
      BY <1>0, <3>1, StampsAreLedgerStamps
    <3>. QED
      BY <3>1, <3>2, <3>3 DEF Ledger!Next
  <2>. QED
    BY <2>1, <2>2
<1>3. ASSUME NEW p \in Pays, ReleaseBudget(p)
      PROVE  Ledger!Next \/ Kept
  <2>1. hold[p] = None \/ hold[p] \in Auths
    OBVIOUS
  <2>. QED
    BY <1>3, <2>1 DEF ReleaseBudget, ledger, Ledger!Next
<1>4. ASSUME Tick
      PROVE  Ledger!Next
  BY <1>4 DEF Tick, Ledger!Next
<1>5. ASSUME NEW a \in Auths,
             \/ \E order \in Orders : GetContract(a, order)
             \/ GetProduct(a) \/ ReadCommitted(a) \/ Evaluate(a)
             \/ PersistDecision(a) \/ CreateStepUpChallenge(a)
      PROVE  Kept
  BY <1>5 DEF GetContract, GetProduct, ReadCommitted, Evaluate, PersistDecision,
              CreateStepUpChallenge, ledger
<1>6. ASSUME NEW p \in Pays,
             \/ \E payment \in Payments : CheckIdempotency(p, payment)
             \/ LoadDecision(p) \/ GetReservationByTx(p) \/ RecordSuccessfulPayment(p)
             \/ RecordFailedPayment(p) \/ RecordRefused(p)
      PROVE  Kept
  BY <1>6 DEF CheckIdempotency, LoadDecision, GetReservationByTx, RecordSuccessfulPayment,
              RecordFailedPayment, RecordRefused, ledger
<1>7. ASSUME (\E e \in owed : AppendEvent(e)) \/ UserStep \/ Restart
      PROVE  Kept
  BY <1>7 DEF AppendEvent, UserStep, CreateContract, RevokeContract, ResolveChallenge,
              Restart, ledger
<1>8. UNCHANGED vars => Kept
  BY DEF vars, ledger
<1>. QED
  BY <1>1, <1>2, <1>3, <1>4, <1>5, <1>6, <1>7, <1>8
  DEF Next, AuthorizeStep, PayStep, Ledger!vars

(* The ledger keeps its types inside the gateway.                           *)
LEMMA LedgerTypesKept ==
  ASSUME Typed, [Next]_vars
  PROVE  Ledger!TypeOK'
<1>1. LedgerFacts!TypeOK /\ [LedgerFacts!Next]_(LedgerFacts!vars)
  BY GatewayLedgerStep, SameLedger DEF Typed, TypeOK, LedgerFacts!vars, Ledger!vars
<1>2. LedgerFacts!TypeOK'
  BY <1>1, LedgerAssumed, LedgerFacts!NextTypeOK
<1>. QED
  BY <1>2, SameLedger, PTL

-------------------------------------------------------------------------------
(* Type correctness *)

(* A sum of the ledger is a natural number.                                 *)
LEMMA TotalIsNatural ==
  ASSUME NEW S, S \subseteq Ledger!Issued
  PROVE  Ledger!Total(S) \in Nat
<1>1. LedgerFacts!IsFiniteSet(S)
  <2>1. S \in SUBSET Auths
    BY DEF Ledger!Issued
  <2>2. IsFiniteSet(S)
    BY <2>1, GatewayAssumption, FS_Subset
  <2>. QED
    BY <2>2 DEF LedgerFacts!IsFiniteSet, IsFiniteSet
<1>2. LedgerFacts!Cardinality(LedgerFacts!RupeesOf(rows, S)) \in Nat
  BY <1>1, LedgerAssumed, LedgerFacts!RupeesFinite
<1>3. LedgerFacts!Total(S) = LedgerFacts!Cardinality(LedgerFacts!RupeesOf(rows, S))
  BY DEF LedgerFacts!Total, LedgerFacts!Rupees, LedgerFacts!RupeesOf
<1>. QED
  BY <1>2, <1>3, SameTotal

(* The first state is well typed.                                           *)
LEMMA InitTyped == Init => Typed
<1>. SUFFICES ASSUME Init PROVE Typed
  OBVIOUS
<1>1. Ledger!TypeOK
  BY LedgerAssumption DEF Init, Ledger!Init, Ledger!TypeOK, Ledger!Issued, Ledger!Times,
    Ledger!BoundsAssumption
<1>2. 0 \in Times /\ clock = 0
  BY LedgerAssumption DEF Init, Ledger!Init, Times, Ledger!BoundsAssumption
<1>3. \A c \in Contracts : SeedRow(c, 0) \in Contract
  BY GatewayAssumption DEF SeedRow, Contract
<1>4. BlankView \in View
  BY DEF BlankView, View, Decisions
<1>5. "idle" \in Labels \cap AuthorizeLabels \cap PayLabels
  BY DEF Labels, AuthorizeLabels, PayLabels
<1>6. TypeOK
  BY <1>1, <1>2, <1>3, <1>4, <1>5, GatewayAssumption DEF Init, TypeOK
<1>7. Submitted /\ StampsPast
  BY <1>2, <1>5 DEF Init, Submitted, StampsPast, Requests
<1>. QED
  BY <1>6, <1>7 DEF Typed

(* The steps of an authorize request keep the types.                        *)
LEMMA AuthorizeTyped ==
  ASSUME Typed, Ledger!TypeOK', clock' = clock, NEW a \in Auths,
         (\E order \in Orders : GetContract(a, order)) \/ AuthorizeStep(a)
  PROVE  Typed'
<1>. USE DEF Typed
<1>0. /\ clock \in Times /\ 0 \in Times /\ 0 <= clock
      /\ a \in Requests /\ a \notin Pays
  BY GatewayAssumption, LedgerAssumption
  DEF Times, TypeOK, Ledger!TypeOK, Ledger!Times, Ledger!BoundsAssumption, Requests
<1>1. ASSUME NEW order \in Orders, GetContract(a, order)
      PROVE  Typed'
  <2>. order \in Order
    BY GatewayAssumption
  <2>1. contracts[order.contract] \in Contract \cup {None}
    BY DEF TypeOK, Order
  <2>2. view' \in [Auths -> View]
    <3>1. view[a] \in View
      BY DEF TypeOK
    <3>2. [view[a] EXCEPT !.contract = contracts[order.contract],
                          !.outcome = "DENY"] \in View
      BY <2>1, <3>1 DEF View, Decisions
    <3>3. view' = [view EXCEPT ![a] = [view[a] EXCEPT !.contract = contracts[order.contract],
                                                      !.outcome = "DENY"]]
      BY <1>1 DEF GetContract, TypeOK
    <3>. QED
      BY <3>2, <3>3 DEF TypeOK
  <2>3. /\ request' = [request EXCEPT ![a] = order]
        /\ pc' = [pc EXCEPT ![a] = IF contracts[order.contract] = None
                                     THEN "persist" ELSE "product"]
        /\ UNCHANGED <<owed, tables, audit, hold, since, known, restarts>>
    BY <1>1 DEF GetContract, Goto
  <2>4. TypeOK'
    BY <2>2, <2>3, <1>0 DEF TypeOK, tables, Labels
  <2>5. Submitted' /\ StampsPast'
    BY <2>3, <1>0 DEF TypeOK, Submitted, StampsPast, AuthorizeLabels, Requests
  <2>. QED
    BY <2>4, <2>5
<1>2. ASSUME GetProduct(a)
      PROVE  Typed'
  <2>2. view' \in [Auths -> View]
    BY <1>2 DEF GetProduct, TypeOK, View
  <2>3. /\ pc' = [pc EXCEPT ![a] = "budget"]
        /\ UNCHANGED <<owed, tables, audit, request, hold, since, known, restarts>>
    BY <1>2 DEF GetProduct, Goto
  <2>. QED
    BY <2>2, <2>3, <1>2, <1>0
    DEF TypeOK, tables, Labels, Submitted, StampsPast, AuthorizeLabels, Requests, GetProduct
<1>3. ASSUME ReadCommitted(a)
      PROVE  Typed'
  <2>1. Ledger!Total(Ledger!CommittedIn(request[a].contract,
                                        Ledger!WindowStart(request[a].contract, clock))) \in Nat
    BY TotalIsNatural DEF Ledger!CommittedIn
  <2>2. view' \in [Auths -> View]
    BY <1>3, <2>1 DEF ReadCommitted, TypeOK, View
  <2>3. /\ pc' = [pc EXCEPT ![a] = "evaluate"]
        /\ since' = [since EXCEPT ![a] = clock]
        /\ UNCHANGED <<owed, tables, audit, request, hold, known, restarts>>
    BY <1>3 DEF ReadCommitted, Goto
  <2>4. pc[a] = "budget"
    BY <1>3 DEF ReadCommitted
  <2>5. TypeOK'
    BY <2>2, <2>3, <1>0 DEF TypeOK, tables, Labels
  <2>6. Submitted'
    BY <2>3, <2>4, <1>0 DEF TypeOK, Submitted, AuthorizeLabels, Requests
  <2>7. StampsPast'
    BY <2>3, <1>0 DEF TypeOK, StampsPast, Times
  <2>. QED
    BY <2>5, <2>6, <2>7
<1>4. ASSUME Evaluate(a)
      PROVE  Typed'
  <2>. DEFINE outcome == IF Denied(a) THEN "DENY" ELSE request[a].rules
  <2>1. outcome \in Decisions
    BY <1>4 DEF Evaluate, Submitted, Order, Decisions
  <2>2. view' \in [Auths -> View]
    BY <1>4, <2>1 DEF Evaluate, TypeOK, View, BlankView
  <2>3. /\ pc' = [pc EXCEPT ![a] = IF outcome = "ALLOW" THEN "reserve" ELSE "persist"]
        /\ since' = [since EXCEPT ![a] = IF outcome = "ALLOW" THEN clock ELSE 0]
        /\ UNCHANGED <<owed, tables, audit, request, hold, known, restarts>>
    BY <1>4 DEF Evaluate, Goto
  <2>4. pc[a] = "evaluate"
    BY <1>4 DEF Evaluate
  <2>. HIDE DEF outcome
  <2>5. TypeOK'
    BY <2>2, <2>3, <1>0 DEF TypeOK, tables, Labels
  <2>6. Submitted'
    BY <2>3, <2>4, <1>0 DEF TypeOK, Submitted, AuthorizeLabels, Requests
  <2>7. StampsPast'
    BY <2>3, <1>0 DEF TypeOK, StampsPast, Times
  <2>. QED
    BY <2>5, <2>6, <2>7
<1>5. ASSUME Reserve(a)
      PROVE  Typed'
  <2>2. view' \in [Auths -> View]
    BY <1>5 DEF Reserve, TypeOK, View, Decisions
  <2>3. /\ pc' = [pc EXCEPT ![a] = "persist"]
        /\ since' = [since EXCEPT ![a] = 0]
        /\ UNCHANGED <<owed, tables, audit, request, hold, known, restarts>>
    BY <1>5 DEF Reserve, Goto
  <2>4. pc[a] = "reserve"
    BY <1>5 DEF Reserve
  <2>. QED
    BY <2>2, <2>3, <2>4, <1>0
    DEF TypeOK, tables, Labels, Submitted, StampsPast, AuthorizeLabels, Requests
<1>6. ASSUME PersistDecision(a)
      PROVE  Typed'
  <2>1. view[a].outcome \in Decisions
    BY DEF TypeOK, View
  <2>2. view' \in [Auths -> View] /\ decision' \in [Auths -> Decisions \cup {None}]
    BY <1>6, <2>1 DEF PersistDecision, TypeOK, View, BlankView, Decisions
  <2>3. /\ pc' = [pc EXCEPT ![a] = IF view[a].outcome = "CHALLENGE"
                                     THEN "challenge" ELSE "done"]
        /\ owed' \subseteq owed \cup {Event("AUTHORIZATION_DECISION_EMITTED", a)}
        /\ UNCHANGED <<contracts, stock, challenge, transactions, attempts,
                       audit, request, hold, since, known, restarts>>
    BY <1>6 DEF PersistDecision, Goto, Finish
  <2>4. Event("AUTHORIZATION_DECISION_EMITTED", a) \in Events
    BY <1>0 DEF Event, Events, EventTypes
  <2>5. pc[a] = "persist"
    BY <1>6 DEF PersistDecision
  <2>. QED
    BY <2>2, <2>3, <2>4, <2>5, <1>0
    DEF TypeOK, Labels, Submitted, StampsPast, AuthorizeLabels, Requests
<1>7. ASSUME CreateStepUpChallenge(a)
      PROVE  Typed'
  <2>1. /\ challenge' = [challenge EXCEPT ![a] = "PENDING"]
        /\ pc' = [pc EXCEPT ![a] = "done"]
        /\ owed' = owed \cup {Event("AUTHORIZATION_DECISION_EMITTED", a)}
        /\ UNCHANGED <<contracts, stock, decision, transactions, attempts,
                       audit, locals, restarts>>
    BY <1>7 DEF CreateStepUpChallenge, Finish
  <2>2. Event("AUTHORIZATION_DECISION_EMITTED", a) \in Events
    BY <1>0 DEF Event, Events, EventTypes
  <2>3. pc[a] = "challenge"
    BY <1>7 DEF CreateStepUpChallenge
  <2>. QED
    BY <2>1, <2>2, <2>3, <1>0
    DEF TypeOK, Labels, Submitted, StampsPast, AuthorizeLabels, Requests, locals,
        ChallengeStatuses
<1>. QED
  BY <1>1, <1>2, <1>3, <1>4, <1>5, <1>6, <1>7 DEF AuthorizeStep

(* What is paid for is an order.                                            *)
LEMMA AllowedOrder ==
  ASSUME Typed, DecidedFirst, NEW p \in Pays, pc[p] \in Paying \/ attempts[p] = "SUCCESS"
  PROVE  /\ request[p] \in Payment
         /\ request[p].decision \in Auths
         /\ pc[request[p].decision] \in Decided
         /\ request[request[p].decision] \in Order
<1>1. attempts[p] = "SUCCESS" => attempts[p] # None
  BY GatewayAssumption DEF AttemptStatuses
<1>2. decision[request[p].decision] = "ALLOW" /\ "ALLOW" # None
  BY <1>1, GatewayAssumption DEF DecidedFirst, Decisions
<1>3. request[p] \in Payment
  BY <1>1 DEF Typed, Submitted, DecidedFirst, Paying
<1>4. request[p].decision \in Auths
  BY <1>3 DEF Payment
<1>. QED
  BY <1>2, <1>3, <1>4 DEF Typed, Submitted, DecidedFirst, Decided

(* The steps of a pay request keep the types.                               *)
LEMMA PayTyped ==
  ASSUME Typed, DecidedFirst, Ledger!TypeOK', clock' = clock, NEW p \in Pays,
         (\E payment \in Payments : CheckIdempotency(p, payment)) \/ PayStep(p)
  PROVE  Typed'
<1>. USE DEF Typed
<1>0. /\ clock \in Times /\ 0 \in Times /\ 0 <= clock
      /\ p \in Requests /\ p \notin Auths
  BY GatewayAssumption, LedgerAssumption
  DEF Times, TypeOK, Ledger!TypeOK, Ledger!Times, Ledger!BoundsAssumption, Requests
<1>1. /\ Event("PAYMENT_EXECUTED", p) \in Events
      /\ Event("PAYMENT_FAILED", p) \in Events
  BY <1>0 DEF Event, Events, EventTypes
<1>2. ASSUME NEW payment \in Payments, CheckIdempotency(p, payment)
      PROVE  Typed'
  <2>. payment \in Payment
    BY GatewayAssumption
  <2>1. /\ request' = [request EXCEPT ![p] = payment]
        /\ known' = [known EXCEPT ![p] = {p2 \in Pays : attempts[p2] # None}]
        /\ pc' = [pc EXCEPT ![p] = IF KeyUsed(payment.key) THEN "done" ELSE "decision"]
        /\ owed' \subseteq owed \cup {Event("PAYMENT_EXECUTED", p)}
        /\ UNCHANGED <<tables, audit, view, hold, since, restarts>>
    BY <1>2 DEF CheckIdempotency, Goto, Finish
  <2>2. TypeOK'
    BY <2>1, <1>0, <1>1 DEF TypeOK, tables, Labels
  <2>3. Submitted' /\ StampsPast'
    BY <2>1, <1>0 DEF TypeOK, Submitted, StampsPast, PayLabels, Requests
  <2>. QED
    BY <2>2, <2>3
<1>3. ASSUME LoadDecision(p)
      PROVE  Typed'
  <2>1. /\ pc' = [pc EXCEPT ![p] = IF decision[request[p].decision] = "ALLOW"
                                     THEN "hold" ELSE "done"]
        /\ owed' \subseteq owed \cup {Event("PAYMENT_FAILED", p)}
        /\ pc[p] = "decision"
        /\ UNCHANGED <<tables, audit, locals, restarts>>
    BY <1>3 DEF LoadDecision, Goto, Finish
  <2>. QED
    BY <2>1, <1>0, <1>1
    DEF TypeOK, tables, locals, Labels, Submitted, StampsPast, PayLabels, Requests
<1>4. ASSUME GetReservationByTx(p)
      PROVE  Typed'
  <2>1. PICK r \in Auths \cup {None} : hold' = [hold EXCEPT ![p] = r]
    BY <1>4 DEF GetReservationByTx, LatestOf, Ledger!Issued
  <2>2. /\ since' = [since EXCEPT ![p] = clock]
        /\ pc' = [pc EXCEPT ![p] = IF request[p].fails THEN "release" ELSE "commit"]
        /\ pc[p] = "hold"
        /\ UNCHANGED <<owed, tables, audit, request, view, known, restarts>>
    BY <1>4 DEF GetReservationByTx, Goto
  <2>3. TypeOK'
    BY <2>1, <2>2, <1>0 DEF TypeOK, tables, Labels
  <2>4. Submitted'
    BY <2>2, <1>0 DEF TypeOK, Submitted, PayLabels, Requests
  <2>5. StampsPast'
    BY <2>2, <1>0 DEF TypeOK, StampsPast, Times
  <2>. QED
    BY <2>3, <2>4, <2>5
<1>5. ASSUME ReleaseBudget(p) \/ CommitBudget(p)
      PROVE  Typed'
  <2>1. /\ since' = [since EXCEPT ![p] = 0]
        /\ pc' = [pc EXCEPT ![p] = "recordFailed"] \/ pc' = [pc EXCEPT ![p] = "recordPaid"]
        /\ pc[p] \in {"release", "commit"}
        /\ UNCHANGED <<owed, tables, audit, request, view, hold, known, restarts>>
    BY <1>5 DEF ReleaseBudget, CommitBudget, Goto
  <2>2. TypeOK'
    BY <2>1, <1>0 DEF TypeOK, tables, Labels
  <2>3. Submitted' /\ StampsPast'
    BY <2>1, <1>0 DEF TypeOK, Submitted, StampsPast, PayLabels, Requests
  <2>. QED
    BY <2>2, <2>3
<1>6. ASSUME RecordSuccessfulPayment(p) \/ RecordFailedPayment(p)
      PROVE  Typed'
  <2>. DEFINE payment == request[p]
  <2>1. pc[p] \in {"recordPaid", "recordFailed"} /\ payment \in Payment
    BY <1>6 DEF RecordSuccessfulPayment, RecordFailedPayment, Submitted
  <2>2. /\ payment.tx \in Txs /\ payment.decision \in Auths
        /\ payment.key \in Keys \cup {EmptyKey}
    BY <2>1 DEF Payment
  <2>3. ASSUME NEW status \in {"COMPLETED", "PAYMENT_FAILED"}
        PROVE  Upserted(p, status) \in [Txs -> Transaction \cup {None}]
    <3>. DEFINE old == transactions[payment.tx]
    <3>1. old \in Transaction \cup {None}
      BY <2>2 DEF TypeOK
    <3>2. old # None => [old EXCEPT !.status = status] \in Transaction
      BY <3>1 DEF Transaction
    <3>3. [status |-> status, key |-> payment.key, decision |-> payment.decision]
            \in Transaction
      BY <2>2 DEF Transaction
    <3>. QED
      BY <3>2, <3>3 DEF Upserted, TypeOK
  <2>4. transactions' \in [Txs -> Transaction \cup {None}]
    BY <1>6, <2>3 DEF RecordSuccessfulPayment, RecordFailedPayment
  <2>5. attempts' \in [Pays -> AttemptStatuses \cup {None}]
    BY <1>6 DEF RecordSuccessfulPayment, RecordFailedPayment, TypeOK, AttemptStatuses
  <2>6. stock' \in [Skus -> Nat]
    <3>1. CASE RecordFailedPayment(p)
      BY <3>1 DEF RecordFailedPayment, TypeOK
    <3>2. CASE RecordSuccessfulPayment(p)
      <4>. DEFINE order == request[payment.decision]
      <4>1. order.qty \in Int
        BY <3>2, AllowedOrder DEF RecordSuccessfulPayment, Paying, Order
      <4>. QED
        BY <3>2, <4>1 DEF RecordSuccessfulPayment, TypeOK, Deducted
    <3>. QED
      BY <1>6, <3>1, <3>2
  <2>7. /\ pc' = [pc EXCEPT ![p] = "done"]
        /\ owed' \subseteq owed \cup {Event("PAYMENT_EXECUTED", p), Event("PAYMENT_FAILED", p)}
        /\ UNCHANGED <<contracts, decision, challenge, audit, locals, restarts>>
    BY <1>6 DEF RecordSuccessfulPayment, RecordFailedPayment, Finish
  <2>8. TypeOK'
    BY <2>4, <2>5, <2>6, <2>7, <1>0, <1>1 DEF TypeOK, locals, Labels
  <2>9. Submitted' /\ StampsPast'
    BY <2>7, <2>1, <1>0 DEF TypeOK, Submitted, StampsPast, PayLabels, Requests, locals
  <2>. QED
    BY <2>8, <2>9
<1>7. ASSUME RecordRefused(p)
      PROVE  Typed'
  <2>1. /\ pc' = [pc EXCEPT ![p] = "error"]
        /\ pc[p] \in {"recordPaid", "recordFailed"}
        /\ UNCHANGED <<owed, tables, audit, locals, restarts>>
    BY <1>7 DEF RecordRefused, Goto
  <2>. QED
    BY <2>1, <1>0
    DEF TypeOK, tables, locals, Labels, Submitted, StampsPast, PayLabels, Requests
<1>. QED
  BY <1>2, <1>3, <1>4, <1>5, <1>6, <1>7 DEF PayStep

(* What the user, the audit log, the server and the clock do keeps them.    *)
LEMMA OthersTyped ==
  ASSUME Typed, Ledger!TypeOK',
         (\E e \in owed : AppendEvent(e)) \/ UserStep \/ Restart \/ Tick \/ UNCHANGED vars
  PROVE  Typed'
<1>. USE DEF Typed
<1>0. clock \in Times /\ 0 \in Times /\ 0 <= clock
  BY LedgerAssumption
  DEF Times, TypeOK, Ledger!TypeOK, Ledger!Times, Ledger!BoundsAssumption
<1>1. ASSUME NEW e \in owed, AppendEvent(e)
      PROVE  Typed'
  BY <1>1 DEF AppendEvent, TypeOK, Submitted, StampsPast, ledger, tables, locals
<1>2. ASSUME UserStep
      PROVE  Typed'
  <2>1. UNCHANGED <<ledger, stock, decision, transactions, attempts, audit, pc,
                    locals, restarts>>
    BY <1>2 DEF UserStep, CreateContract, RevokeContract, ResolveChallenge
  <2>2. /\ contracts' \in [Contracts -> Contract \cup {None}]
        /\ challenge' \in [Auths -> ChallengeStatuses \cup {None}]
        /\ owed' \subseteq Events
    <3>1. ASSUME NEW c \in Contracts, NEW contract \in [revoked: BOOLEAN, expires: Expiries],
                 CreateContract(c, contract)
          PROVE  <2>2
      <4>1. contract \in Contract
        BY GatewayAssumption DEF Contract
      <4>. QED
        BY <3>1, <4>1 DEF CreateContract, TypeOK, Event, Events, EventTypes
    <3>2. ASSUME NEW c \in Contracts, RevokeContract(c)
          PROVE  <2>2
      <4>1. contracts[c] # None => [contracts[c] EXCEPT !.revoked = TRUE] \in Contract
        <5>1. contracts[c] \in Contract \cup {None}
          BY DEF TypeOK
        <5>. QED
          BY <5>1 DEF Contract
      <4>2. contracts' \in [Contracts -> Contract \cup {None}]
        BY <3>2, <4>1 DEF RevokeContract, TypeOK
      <4>3. challenge' = challenge /\ owed' \subseteq Events
        BY <3>2 DEF RevokeContract, TypeOK, Event, Events, EventTypes
      <4>. QED
        BY <4>2, <4>3 DEF TypeOK
    <3>3. ASSUME NEW a \in Auths, NEW verdict \in {"APPROVED", "REJECTED"},
                 ResolveChallenge(a, verdict)
          PROVE  <2>2
      BY <3>3 DEF ResolveChallenge, TypeOK, ChallengeStatuses
    <3>. QED
      BY <1>2, <3>1, <3>2, <3>3 DEF UserStep
  <2>. QED
    BY <2>1, <2>2 DEF TypeOK, Submitted, StampsPast, ledger, locals
<1>3. ASSUME Restart
      PROVE  Typed'
  <2>1. view' \in [Auths -> View]
    BY <1>3 DEF Restart, View, BlankView, Decisions
  <2>2. contracts' \in [Contracts -> Contract \cup {None}]
    <3>1. clock + Validity \in Nat
      BY <1>0, GatewayAssumption, LedgerAssumption DEF Times, Ledger!BoundsAssumption
    <3>2. \A c \in Contracts : SeedRow(c, clock) \in Contract
      BY <3>1 DEF SeedRow, Contract
    <3>. QED
      BY <1>3, <3>2 DEF Restart, TypeOK
  <2>3. /\ pc' = [q \in Requests |-> IF InFlight(q) THEN "lost" ELSE pc[q]]
        /\ since' = [q \in Requests |-> 0]
        /\ owed' = {} /\ stock' = SeedStock
        /\ restarts < MaxRestarts /\ restarts' = restarts + 1
        /\ UNCHANGED <<ledger, decision, challenge, transactions, attempts, audit,
                       request, hold, known>>
    BY <1>3 DEF Restart
  <2>4. restarts' \in 0 .. MaxRestarts
    BY <2>3, GatewayAssumption DEF TypeOK
  <2>5. TypeOK'
    BY <2>1, <2>2, <2>3, <2>4, <1>0, GatewayAssumption DEF TypeOK, Labels
  <2>6. Submitted'
    BY <2>3 DEF TypeOK, Submitted, InFlight, AuthorizeLabels, PayLabels, Requests
  <2>7. StampsPast'
    BY <2>3, <1>0 DEF StampsPast, ledger
  <2>. QED
    BY <2>5, <2>6, <2>7
<1>4. ASSUME Tick
      PROVE  Typed'
  <2>1. /\ clock' = clock + 1
        /\ UNCHANGED <<tables, audit, owed, pc, locals, restarts>>
    BY <1>4 DEF Tick, Ledger!Tick
  <2>2. TypeOK' /\ Submitted'
    BY <2>1 DEF TypeOK, Submitted, tables, locals
  <2>3. \A q \in Requests : since[q] \in Times
    BY DEF TypeOK
  <2>4. StampsPast'
    BY <2>1, <2>3, <1>0 DEF StampsPast, locals, Times
  <2>. QED
    BY <2>2, <2>4
<1>5. ASSUME UNCHANGED vars
      PROVE  Typed'
  BY <1>5 DEF vars, ledger, tables, locals, TypeOK, Submitted, StampsPast
<1>. QED
  BY <1>1, <1>2, <1>3, <1>4, <1>5

(* Only the clock's own step moves the clock.                               *)
LEMMA ClockSteps ==
  ASSUME NEW q,
         \/ \E order \in Orders : GetContract(q, order)
         \/ AuthorizeStep(q)
         \/ \E payment \in Payments : CheckIdempotency(q, payment)
         \/ PayStep(q)
  PROVE  clock' = clock
BY DEF GetContract, AuthorizeStep, GetProduct, ReadCommitted, Evaluate, Reserve,
  PersistDecision, CreateStepUpChallenge, CheckIdempotency, PayStep, LoadDecision,
  GetReservationByTx, ReleaseBudget, CommitBudget, RecordSuccessfulPayment,
  RecordFailedPayment, RecordRefused, ledger,
  Ledger!AtomicReserve, Ledger!CommitReservation, Ledger!ReleaseReservation

(* A decision is written once, by the request it belongs to, and no payment *)
(* goes on without an ALLOW.                                                *)
LEMMA DecidedFirstKept ==
  ASSUME Typed, DecidedFirst, [Next]_vars
  PROVE  DecidedFirst'
<1>. USE DEF Typed
<1>0. /\ Auths \cap Pays = {} /\ None \notin Decisions
      /\ pc \in [Requests -> Labels] /\ decision \in [Auths -> Decisions \cup {None}]
      /\ attempts \in [Pays -> AttemptStatuses \cup {None}]
      /\ DOMAIN request = Requests
  BY GatewayAssumption DEF TypeOK
<1>1. \A p \in Pays : pc[p] \in Paying \cup {"decision"} \/ attempts[p] # None =>
        request[p].decision \in Auths
  BY DEF Submitted, DecidedFirst, Paying, Payment
<1>2. ASSUME NEW a \in Auths, NEW order \in Orders, GetContract(a, order)
      PROVE  DecidedFirst'
  <2>1. /\ pc[a] = "idle" /\ \E l \in Labels : pc' = [pc EXCEPT ![a] = l]
        /\ request' = [request EXCEPT ![a] = order]
        /\ UNCHANGED <<decision, attempts>>
    BY <1>2 DEF GetContract, Goto, tables, Labels
  <2>. QED
    BY <2>1, <1>0, <1>1 DEF DecidedFirst, Decided, Requests
<1>3. ASSUME NEW a \in Auths,
             GetProduct(a) \/ ReadCommitted(a) \/ Evaluate(a) \/ Reserve(a)
      PROVE  DecidedFirst'
  <2>1. /\ pc[a] \notin Decided /\ \E l \in Labels : pc' = [pc EXCEPT ![a] = l]
        /\ UNCHANGED <<request, decision, attempts>>
    BY <1>3 DEF GetProduct, ReadCommitted, Evaluate, Reserve, Goto, tables, Decided, Labels
  <2>. QED
    BY <2>1, <1>0, <1>1 DEF DecidedFirst, Requests
<1>4. ASSUME NEW a \in Auths, PersistDecision(a)
      PROVE  DecidedFirst'
  <2>1. /\ pc[a] = "persist" /\ \E l \in Decided : pc' = [pc EXCEPT ![a] = l]
        /\ decision' = [decision EXCEPT ![a] = view[a].outcome]
        /\ UNCHANGED <<request, attempts>>
    BY <1>4 DEF PersistDecision, Goto, Finish, Decided
  <2>2. decision[a] = None
    BY <2>1 DEF DecidedFirst, Decided
  <2>. QED
    BY <2>1, <2>2, <1>0, <1>1 DEF DecidedFirst, Requests, Decisions
<1>5. ASSUME NEW a \in Auths, CreateStepUpChallenge(a)
      PROVE  DecidedFirst'
  BY <1>5, <1>0, <1>1
  DEF CreateStepUpChallenge, Finish, locals, DecidedFirst, Decided, Requests
<1>6. ASSUME NEW p \in Pays, NEW payment \in Payments, CheckIdempotency(p, payment)
      PROVE  DecidedFirst'
  <2>1. /\ pc[p] = "idle"
        /\ \E l \in {"done", "decision"} : pc' = [pc EXCEPT ![p] = l]
        /\ request' = [request EXCEPT ![p] = payment]
        /\ UNCHANGED <<decision, attempts>>
    BY <1>6 DEF CheckIdempotency, Goto, Finish, tables
  <2>2. "done" \notin Paying /\ "decision" \notin Paying
    BY DEF Paying
  <2>. QED
    BY <2>1, <2>2, <1>0, <1>1 DEF DecidedFirst, Requests
<1>7. ASSUME NEW p \in Pays, LoadDecision(p)
      PROVE  DecidedFirst'
  <2>1. /\ UNCHANGED <<request, decision, attempts>>
        /\ pc[p] = "decision"
        /\ IF decision[request[p].decision] = "ALLOW"
             THEN pc' = [pc EXCEPT ![p] = "hold"] ELSE pc' = [pc EXCEPT ![p] = "done"]
    BY <1>7 DEF LoadDecision, Goto, Finish, tables, locals
  <2>2. "done" \notin Paying
    BY DEF Paying
  <2>. QED
    BY <2>1, <2>2, <1>0, <1>1 DEF DecidedFirst, Requests
<1>8. ASSUME NEW p \in Pays,
             GetReservationByTx(p) \/ ReleaseBudget(p) \/ CommitBudget(p)
      PROVE  DecidedFirst'
  <2>1. /\ pc[p] \in Paying /\ \E l \in Labels : pc' = [pc EXCEPT ![p] = l]
        /\ UNCHANGED <<request, decision, attempts>>
    BY <1>8 DEF GetReservationByTx, ReleaseBudget, CommitBudget, Goto, tables, Paying, Labels
  <2>2. attempts[p] = None
    BY <2>1 DEF DecidedFirst, Paying
  <2>. QED
    BY <2>1, <2>2, <1>0, <1>1 DEF DecidedFirst, Requests
<1>9. ASSUME NEW p \in Pays, RecordSuccessfulPayment(p) \/ RecordFailedPayment(p)
      PROVE  DecidedFirst'
  <2>1. /\ pc[p] \in Paying /\ pc' = [pc EXCEPT ![p] = "done"]
        /\ \E s \in AttemptStatuses : attempts' = [attempts EXCEPT ![p] = s]
        /\ UNCHANGED <<request, decision>>
    BY <1>9 DEF RecordSuccessfulPayment, RecordFailedPayment, Finish, locals, Paying,
                AttemptStatuses
  <2>. QED
    BY <2>1, <1>0, <1>1 DEF DecidedFirst, Requests
<1>10. ASSUME NEW p \in Pays, RecordRefused(p)
       PROVE  DecidedFirst'
  <2>1. /\ pc[p] \in Paying /\ pc' = [pc EXCEPT ![p] = "error"]
        /\ UNCHANGED <<request, decision, attempts>>
    BY <1>10 DEF RecordRefused, Goto, tables, locals, Paying
  <2>2. attempts[p] = None /\ "error" \notin Paying
    BY <2>1 DEF DecidedFirst, Paying
  <2>. QED
    BY <2>1, <2>2, <1>0, <1>1 DEF DecidedFirst, Requests
<1>11. ASSUME Restart
       PROVE  DecidedFirst'
  <2>1. /\ pc' = [q \in Requests |-> IF InFlight(q) THEN "lost" ELSE pc[q]]
        /\ UNCHANGED <<request, decision, attempts>>
    BY <1>11 DEF Restart
  <2>. QED
    BY <2>1, <1>0 DEF DecidedFirst, Requests, InFlight, Decided, Paying
<1>12. ASSUME (\E e \in owed : AppendEvent(e)) \/ UserStep \/ Tick \/ UNCHANGED vars
       PROVE  DecidedFirst'
  BY <1>12 DEF AppendEvent, UserStep, CreateContract, RevokeContract, ResolveChallenge,
    Tick, vars, tables, locals, DecidedFirst
<1>. QED
  BY <1>2, <1>3, <1>4, <1>5, <1>6, <1>7, <1>8, <1>9, <1>10, <1>11, <1>12
  DEF Next, AuthorizeStep, PayStep

(* The types, the stamps and the order of the decisions are inductive.      *)
LEMMA TypedKept ==
  ASSUME Typed, DecidedFirst, [Next]_vars
  PROVE  Typed' /\ DecidedFirst'
<1>1. Ledger!TypeOK'
  BY LedgerTypesKept
<1>2. Typed'
  BY <1>1, AuthorizeTyped, PayTyped, OthersTyped, ClockSteps DEF Next
<1>. QED
  BY <1>2, DecidedFirstKept

(* Nothing is recorded at first.                                            *)
LEMMA InitDecidedFirst == Init => DecidedFirst
BY DEF Init, DecidedFirst, Paying, Requests

(* Both are invariants.                                                     *)
LEMMA TypedAlways == Spec => [](Typed /\ DecidedFirst)
<1>1. Init => Typed /\ DecidedFirst
  BY InitTyped, InitDecidedFirst
<1>. QED
  BY <1>1, TypedKept, PTL DEF Spec

(* The columns, the labels and the local variables of the handlers have     *)
(* their types, whatever interleaving of requests, user actions and         *)
(* restarts.                                                                *)
THEOREM GatewayTypeOK == Spec => []TypeOK
<1>1. Typed => TypeOK
  BY DEF Typed
<1>. QED
  BY <1>1, TypedAlways, PTL

(* The gateway changes budget_reservations only through the transactions of *)
(* ReservationService: what it does to that table is a behaviour of the     *)
(* ledger.                                                                  *)
THEOREM GatewayUsesLedger == Spec => UsesLedger
<1>1. Init => Ledger!Init
  BY DEF Init
<1>2. Typed /\ [Next]_vars => [Ledger!Next]_(Ledger!vars)
  BY GatewayLedgerStep
<1>3. [Ledger!Next]_(Ledger!vars) => [UNCHANGED ledger \/ Ledger!Next]_ledger
  BY DEF Ledger!vars, ledger
<1>. QED
  BY <1>1, <1>2, <1>3, TypedAlways, PTL DEF Spec, UsesLedger

(* Which is what its specification says.                                    *)
LEMMA LedgerSpecified == UsesLedger => Ledger!Spec
<1>1. [UNCHANGED ledger \/ Ledger!Next]_ledger => [Ledger!Next]_(Ledger!vars)
  BY DEF Ledger!vars, ledger
<1>. QED
  BY <1>1, PTL DEF UsesLedger, Ledger!Spec

(* The two instances specify the same.                                      *)
LEMMA SameSpec == Ledger!Spec <=> LedgerFacts!Spec
<1>1. [Ledger!Next]_(Ledger!vars) <=> [LedgerFacts!Next]_(LedgerFacts!vars)
  BY SameLedger DEF Ledger!vars, LedgerFacts!vars
<1>. QED
  BY <1>1, SameLedger, PTL DEF Ledger!Spec, LedgerFacts!Spec

(* So the budget of every contract is respected in every window, however    *)
(* the requests, retries and restarts interleave: the theorem about the     *)
(* ledger alone, carried over to the gateway.                               *)
THEOREM GatewayBudgetRespected == Spec => []Ledger!BudgetRespected
<1>1. LedgerFacts!Spec => []LedgerFacts!BudgetRespected
  BY LedgerAssumed, LedgerFacts!LedgerBudgetRespected
<1>. QED
  BY <1>1, SameSpec, SameLedger, GatewayUsesLedger, LedgerSpecified, PTL

(* And a hold is settled once, whichever of the payments that share it, the *)
(* retries and the failures gets to it first.                               *)
THEOREM GatewaySettledOnce == Spec => Ledger!SettledOnce
<1>1. LedgerFacts!Spec => LedgerFacts!SettledOnce
  BY LedgerAssumed, LedgerFacts!LedgerSettledOnce
<1>2. LedgerFacts!SettledOnce <=> Ledger!SettledOnce
  BY DEF Ledger!SettledOnce, LedgerFacts!SettledOnce, Ledger!Issued, LedgerFacts!Issued,
    Ledger!vars, LedgerFacts!vars
<1>. QED
  BY <1>1, <1>2, SameSpec, GatewayUsesLedger, LedgerSpecified, PTL

-------------------------------------------------------------------------------
(* Decisions, challenges and holds *)

(* What a handler's transaction on the ledger leaves in its rows: a commit  *)
(* or a release changes neither which rows there are nor what they are for, *)
(* and settles the hold it was given.                                       *)
LEMMA SettleRows ==
  ASSUME Typed, NEW p \in Pays, ReleaseBudget(p) \/ CommitBudget(p)
  PROVE  /\ DOMAIN rows' = Auths
         /\ \A r \in Auths :
              /\ rows'[r] = NoRow <=> rows[r] = NoRow
              /\ rows[r] # NoRow => /\ rows'[r].contract = rows[r].contract
                                    /\ rows'[r].amount = rows[r].amount
              /\ rows'[r] # rows[r] =>
                   /\ rows[r] # NoRow /\ hold[p] = r
                   /\ rows'[r].status =
                        IF pc[p] = "release" THEN "RELEASED" ELSE "COMMITTED"
         /\ hold[p] # None => rows[hold[p]] # NoRow /\ rows'[hold[p]].status # "PENDING"
<1>. USE DEF Typed
<1>1. rows \in [Auths -> Ledger!Row \cup {NoRow}]
  BY DEF TypeOK, Ledger!TypeOK
<1>2. \A r \in Auths : rows[r] # NoRow => rows[r] \in Ledger!Row
  BY <1>1
<1>3. CASE hold[p] = None
  BY <1>1, <1>3 DEF ReleaseBudget, CommitBudget, ledger
<1>4. CASE hold[p] # None
  <2>1. hold[p] \in Auths
    BY <1>4 DEF TypeOK
  <2>. DEFINE r == hold[p]
  <2>2. rows[r] # NoRow /\ rows[r] \in Ledger!Row
    BY <1>2, <1>4, <2>1
    DEF ReleaseBudget, CommitBudget, Ledger!ReleaseReservation, Ledger!CommitReservation,
        Ledger!Issued
  <2>. DEFINE status == IF pc[p] = "release" THEN "RELEASED" ELSE "COMMITTED"
  <2>3. \/ rows[r].status # "PENDING" /\ rows' = rows
        \/ \E new \in Ledger!Row :
             /\ rows' = [rows EXCEPT ![r] = new]
             /\ new.contract = rows[r].contract /\ new.amount = rows[r].amount
             /\ new.status = status
    <3>1. CASE ReleaseBudget(p)
      <4>1. [rows[r] EXCEPT !.status = "RELEASED"] \in Ledger!Row
        BY <2>2 DEF Ledger!Row, Ledger!Statuses
      <4>. QED
        BY <1>1, <1>4, <2>2, <3>1, <4>1
        DEF ReleaseBudget, Ledger!ReleaseReservation, Ledger!Row
    <3>2. CASE CommitBudget(p)
      <4>1. PICK now \in since[p] .. clock : Ledger!CommitReservation(r, now)
        BY <1>4, <3>2 DEF CommitBudget
      <4>2. now \in Ledger!Times /\ pc[p] = "commit"
        BY <3>2, StampsAreLedgerStamps
        DEF CommitBudget, TypeOK, Ledger!TypeOK, Requests, Times, Ledger!Times, Ledger!Stamps
      <4>. DEFINE new == [rows[r] EXCEPT !.status = "COMMITTED", !.committedAt = now]
      <4>3. new \in Ledger!Row
        BY <2>2, <4>2 DEF Ledger!Row, Ledger!Statuses
      <4>4. CASE rows[r].status # "PENDING"
        BY <4>1, <4>4 DEF Ledger!CommitReservation
      <4>5. CASE rows[r].status = "PENDING"
        <5>1. rows' = [rows EXCEPT ![r].status = "COMMITTED", ![r].committedAt = now]
          BY <4>1, <4>5 DEF Ledger!CommitReservation
        <5>2. rows' = [rows EXCEPT ![r] = new]
          BY <1>1, <2>1, <5>1
        <5>. QED
          BY <2>2, <4>2, <4>3, <5>2 DEF Ledger!Row
      <4>. QED
        BY <4>4, <4>5
    <3>. QED
      BY <3>1, <3>2
  <2>. HIDE DEF status
  <2>4. CASE rows[r].status # "PENDING" /\ rows' = rows
    BY <1>1, <2>2, <2>4
  <2>5. ASSUME NEW new \in Ledger!Row,
               rows' = [rows EXCEPT ![r] = new],
               new.contract = rows[r].contract, new.amount = rows[r].amount,
               new.status = status
        PROVE  /\ DOMAIN rows' = Auths
               /\ \A s \in Auths :
                    /\ rows'[s] = NoRow <=> rows[s] = NoRow
                    /\ rows[s] # NoRow => /\ rows'[s].contract = rows[s].contract
                                          /\ rows'[s].amount = rows[s].amount
                    /\ rows'[s] # rows[s] =>
                         rows[s] # NoRow /\ r = s /\ rows'[s].status = status
               /\ rows'[r].status # "PENDING"
    <3>1. new # NoRow
      BY LedgerAssumption
    <3>2. status # "PENDING"
      BY DEF status
    <3>. QED
      BY <1>1, <2>1, <2>2, <2>5, <3>1, <3>2
  <2>. QED
    BY <2>2, <2>3, <2>4, <2>5 DEF status
<1>. QED
  BY <1>3, <1>4

(* A request whose rows and variables a step leaves alone stays as it is.   *)
LEMMA DecisionUntouched ==
  ASSUME NEW a \in Auths, DecisionFollowed(a),
         pc'[a] = pc[a], rows'[a] = rows[a], decision'[a] = decision[a],
         challenge'[a] = challenge[a], request'[a] = request[a], view'[a] = view[a]
  PROVE  DecisionFollowed(a)'
BY DEF DecisionFollowed

(* The steps of an authorize request, each of which touches one request.    *)
LEMMA AuthorizeFollowed ==
  ASSUME Typed, DecidedFirst, DecisionsFollowed, NEW a \in Auths,
         (\E order \in Orders : GetContract(a, order)) \/ AuthorizeStep(a)
  PROVE  DecisionsFollowed'
<1>. USE DEF Typed, DecisionsFollowed
<1>0. /\ pc \in [Requests -> Labels] /\ a \in Requests
      /\ decision \in [Auths -> Decisions \cup {None}]
      /\ challenge \in [Auths -> ChallengeStatuses \cup {None}]
      /\ view \in [Auths -> View] /\ DOMAIN request = Requests
      /\ rows \in [Auths -> Ledger!Row \cup {NoRow}]
      /\ Auths \subseteq Requests
  BY DEF TypeOK, Ledger!TypeOK, Requests
<1>1. /\ None \notin Decisions /\ None \notin ChallengeStatuses
  BY GatewayAssumption
<1>2. DecisionFollowed(a)
  OBVIOUS
<1>3. decision[a] # None => pc[a] \in Decided
  BY DEF DecidedFirst
<1>4. SUFFICES ASSUME NEW b \in Auths PROVE DecisionFollowed(b)'
  OBVIOUS
<1>5. ASSUME NEW order \in Orders, GetContract(a, order)
      PROVE  DecisionFollowed(b)'
  <2>1. /\ pc[a] = "idle"
        /\ view' = [view EXCEPT ![a].contract = contracts[order.contract],
                                ![a].outcome = "DENY"]
        /\ pc' = [pc EXCEPT ![a] = IF contracts[order.contract] = None
                                     THEN "persist" ELSE "product"]
        /\ request' = [request EXCEPT ![a] = order]
        /\ UNCHANGED <<rows, decision, challenge>>
    BY <1>5 DEF GetContract, Goto, ledger, tables
  <2>2. rows[a] = NoRow /\ decision[a] = None /\ challenge[a] = None
    BY <1>1, <1>2, <1>3, <2>1 DEF DecisionFollowed, Undecided, Decided, Decisions
  <2>3. view'[a].outcome = "DENY"
    BY <1>0, <2>1 DEF View
  <2>4. CASE b = a
    BY <1>0, <1>1, <2>1, <2>2, <2>3, <2>4 DEF DecisionFollowed, Undecided, Decisions
  <2>5. CASE b # a
    BY <1>0, <2>1, <2>5, DecisionUntouched
  <2>. QED
    BY <2>4, <2>5
<1>6. ASSUME GetProduct(a) \/ ReadCommitted(a)
      PROVE  DecisionFollowed(b)'
  <2>1. /\ pc[a] \in Undecided
        /\ \E l \in {"budget", "evaluate"} : pc' = [pc EXCEPT ![a] = l]
        /\ \A c \in Auths \ {a} : view'[c] = view[c]
        /\ UNCHANGED <<rows, decision, challenge, request>>
    BY <1>0, <1>6 DEF GetProduct, ReadCommitted, Goto, ledger, tables, Undecided
  <2>2. CASE b = a
    BY <1>0, <1>2, <1>3, <2>1, <2>2 DEF DecisionFollowed, Undecided, Decided
  <2>3. CASE b # a
    BY <1>0, <2>1, <2>3, DecisionUntouched
  <2>. QED
    BY <2>2, <2>3
<1>7. ASSUME Evaluate(a)
      PROVE  DecisionFollowed(b)'
  <2>1. /\ pc[a] = "evaluate"
        /\ \E outcome : /\ view' = [view EXCEPT ![a] = [BlankView EXCEPT !.outcome = outcome]]
                        /\ pc' = [pc EXCEPT ![a] = IF outcome = "ALLOW" THEN "reserve"
                                                   ELSE "persist"]
        /\ UNCHANGED <<rows, decision, challenge, request>>
    BY <1>7 DEF Evaluate, Goto, ledger, tables
  <2>2. rows[a] = NoRow /\ decision[a] = None /\ challenge[a] = None
    BY <1>1, <1>2, <1>3, <2>1 DEF DecisionFollowed, Undecided, Decided, Decisions
  <2>3. CASE b = a
    BY <1>0, <1>1, <2>1, <2>2, <2>3 DEF DecisionFollowed, Undecided, Decisions, BlankView
  <2>4. CASE b # a
    BY <1>0, <2>1, <2>4, DecisionUntouched
  <2>. QED
    BY <2>3, <2>4
<1>8. ASSUME Reserve(a)
      PROVE  DecisionFollowed(b)'
  <2>1. /\ pc[a] = "reserve"
        /\ view' = [view EXCEPT ![a].outcome = IF rows'[a] = NoRow THEN "DENY" ELSE "ALLOW"]
        /\ pc' = [pc EXCEPT ![a] = "persist"]
        /\ UNCHANGED <<decision, challenge, request>>
    BY <1>8 DEF Reserve, Goto, tables
  <2>2. PICK now : Ledger!AtomicReserve(a, request[a].contract, request[a].amount, now)
    BY <1>8 DEF Reserve
  <2>3. /\ \A c \in Auths \ {a} : rows'[c] = rows[c]
        /\ rows'[a] # NoRow => /\ rows'[a].contract = request[a].contract
                               /\ rows'[a].amount = request[a].amount
    BY <1>0, <2>2 DEF Ledger!AtomicReserve
  <2>4. decision[a] = None /\ challenge[a] = None
    BY <1>1, <1>2, <1>3, <2>1 DEF DecisionFollowed, Undecided, Decided, Decisions
  <2>5. view'[a].outcome = IF rows'[a] = NoRow THEN "DENY" ELSE "ALLOW"
    BY <1>0, <2>1 DEF View
  <2>6. CASE b = a
    BY <1>0, <1>1, <2>1, <2>3, <2>4, <2>5, <2>6 DEF DecisionFollowed, Undecided, Decisions
  <2>7. CASE b # a
    BY <1>0, <2>1, <2>3, <2>7, DecisionUntouched
  <2>. QED
    BY <2>6, <2>7
<1>9. ASSUME PersistDecision(a)
      PROVE  DecisionFollowed(b)'
  <2>1. /\ pc[a] = "persist"
        /\ decision' = [decision EXCEPT ![a] = view[a].outcome]
        /\ view' = [view EXCEPT ![a] = BlankView]
        /\ pc' = [pc EXCEPT ![a] = IF view[a].outcome = "CHALLENGE" THEN "challenge"
                                   ELSE "done"]
        /\ UNCHANGED <<rows, challenge, request>>
    BY <1>9 DEF PersistDecision, Goto, Finish, ledger
  <2>2. /\ view[a].outcome = "ALLOW" <=> rows[a] # NoRow
        /\ challenge[a] = None
        /\ rows[a] # NoRow => /\ rows[a].contract = request[a].contract
                              /\ rows[a].amount = request[a].amount
    BY <1>2, <2>1 DEF DecisionFollowed, Decided
  <2>3. view[a].outcome \in Decisions
    BY <1>0 DEF View
  <2>4. CASE b = a
    BY <1>0, <1>1, <2>1, <2>2, <2>3, <2>4 DEF DecisionFollowed, Undecided, Decisions
  <2>5. CASE b # a
    BY <1>0, <2>1, <2>5, DecisionUntouched
  <2>. QED
    BY <2>4, <2>5
<1>10. ASSUME CreateStepUpChallenge(a)
       PROVE  DecisionFollowed(b)'
  <2>1. /\ pc[a] = "challenge"
        /\ challenge' = [challenge EXCEPT ![a] = "PENDING"]
        /\ pc' = [pc EXCEPT ![a] = "done"]
        /\ UNCHANGED <<rows, decision, view, request>>
    BY <1>10 DEF CreateStepUpChallenge, Finish, ledger, locals
  <2>2. /\ decision[a] = "CHALLENGE"
        /\ rows[a] = NoRow
    BY <1>2, <2>1 DEF DecisionFollowed
  <2>3. CASE b = a
    BY <1>0, <1>1, <2>1, <2>2, <2>3
    DEF DecisionFollowed, Undecided, Decisions, ChallengeStatuses
  <2>4. CASE b # a
    BY <1>0, <2>1, <2>4, DecisionUntouched
  <2>. QED
    BY <2>3, <2>4
<1>. QED
  BY <1>5, <1>6, <1>7, <1>8, <1>9, <1>10 DEF AuthorizeStep

(* Payments and the steps of others.                                        *)
LEMMA DecisionsFollowedKept ==
  ASSUME Typed, DecidedFirst, DecisionsFollowed, [Next]_vars
  PROVE  DecisionsFollowed'
<1>. USE DEF Typed, DecisionsFollowed
<1>0. /\ pc \in [Requests -> Labels] /\ DOMAIN request = Requests
      /\ challenge \in [Auths -> ChallengeStatuses \cup {None}]
      /\ Auths \subseteq Requests /\ Pays \cap Auths = {}
  BY GatewayAssumption DEF TypeOK, Requests
<1>1. ASSUME NEW a \in Auths,
             (\E order \in Orders : GetContract(a, order)) \/ AuthorizeStep(a)
      PROVE  DecisionsFollowed'
  BY <1>1, AuthorizeFollowed
<1>2. ASSUME NEW p \in Pays, NEW payment \in Payments, CheckIdempotency(p, payment)
      PROVE  DecisionsFollowed'
  <2>1. /\ \E l \in Labels : pc' = [pc EXCEPT ![p] = l]
        /\ request' = [request EXCEPT ![p] = payment]
        /\ UNCHANGED <<rows, decision, challenge, view>>
    BY <1>2 DEF CheckIdempotency, Goto, Finish, ledger, tables, Labels
  <2>2. \A a \in Auths : pc'[a] = pc[a] /\ request'[a] = request[a]
    BY <1>0, <2>1
  <2>. QED
    BY <2>1, <2>2, DecisionUntouched
<1>3. ASSUME NEW p \in Pays,
             \/ LoadDecision(p) \/ GetReservationByTx(p)
             \/ RecordSuccessfulPayment(p) \/ RecordFailedPayment(p) \/ RecordRefused(p)
      PROVE  DecisionsFollowed'
  <2>1. /\ \E l \in Labels : pc' = [pc EXCEPT ![p] = l]
        /\ UNCHANGED <<rows, decision, challenge, view, request>>
    BY <1>3 DEF LoadDecision, GetReservationByTx, RecordSuccessfulPayment,
      RecordFailedPayment, RecordRefused, Goto, Finish, ledger, tables, locals, Labels
  <2>2. \A a \in Auths : pc'[a] = pc[a]
    BY <1>0, <2>1
  <2>. QED
    BY <2>1, <2>2, DecisionUntouched
<1>4. ASSUME NEW p \in Pays, ReleaseBudget(p) \/ CommitBudget(p)
      PROVE  DecisionsFollowed'
  <2>1. /\ \E l \in Labels : pc' = [pc EXCEPT ![p] = l]
        /\ UNCHANGED <<decision, challenge, view, request>>
    BY <1>4 DEF ReleaseBudget, CommitBudget, Goto, tables, Labels
  <2>2. \A a \in Auths : pc'[a] = pc[a]
    BY <1>0, <2>1
  <2>. QED
    BY <1>4, <2>1, <2>2, SettleRows DEF DecisionFollowed
<1>5. ASSUME UserStep
      PROVE  DecisionsFollowed'
  <2>1. /\ UNCHANGED <<rows, pc, decision, view, request>>
        /\ \/ UNCHANGED challenge
           \/ \E a \in Auths, verdict \in ChallengeStatuses :
                challenge[a] # None /\ challenge' = [challenge EXCEPT ![a] = verdict]
    BY <1>5 DEF UserStep, CreateContract, RevokeContract, ResolveChallenge, ledger, locals,
      ChallengeStatuses
  <2>2. \A a \in Auths : challenge'[a] # None <=> challenge[a] # None
    BY <1>0, <2>1, GatewayAssumption
  <2>. QED
    BY <2>1, <2>2 DEF DecisionFollowed
<1>6. ASSUME Restart
      PROVE  DecisionsFollowed'
  <2>1. /\ pc' = [q \in Requests |-> IF InFlight(q) THEN "lost" ELSE pc[q]]
        /\ UNCHANGED <<rows, decision, challenge, request>>
    BY <1>6 DEF Restart, ledger
  <2>2. ASSUME NEW a \in Auths
        PROVE  DecisionFollowed(a)'
    <3>1. \/ pc'[a] = pc[a] /\ pc[a] \in {"idle", "done", "error", "lost"}
          \/ pc'[a] = "lost"
      BY <1>0, <2>1 DEF InFlight
    <3>2. DecisionFollowed(a)
      OBVIOUS
    <3>. QED
      BY <2>1, <3>1, <3>2 DEF DecisionFollowed, Undecided
  <2>. QED
    BY <2>2
<1>7. ASSUME (\E e \in owed : AppendEvent(e)) \/ Tick \/ UNCHANGED vars
      PROVE  DecisionsFollowed'
  <2>1. UNCHANGED <<rows, pc, decision, challenge, view, request>>
    BY <1>7 DEF AppendEvent, Tick, Ledger!Tick, vars, ledger, tables, locals
  <2>. QED
    BY <2>1, DecisionUntouched
<1>. QED
  BY <1>1, <1>2, <1>3, <1>4, <1>5, <1>6, <1>7 DEF Next, PayStep

(* No decision is taken at first.                                           *)
LEMMA InitDecisionsFollowed == Init => DecisionsFollowed
BY GatewayAssumption
DEF Init, DecisionsFollowed, DecisionFollowed, Requests, Ledger!Init, Decisions

(* Every decision is followed up.                                           *)
LEMMA DecisionsFollowedAlways == Spec => [](Typed /\ DecidedFirst /\ DecisionsFollowed)
<1>1. Init => DecisionsFollowed
  BY InitDecisionsFollowed
<1>2. Typed /\ DecidedFirst /\ DecisionsFollowed /\ [Next]_vars => DecisionsFollowed'
  BY DecisionsFollowedKept
<1>. QED
  BY <1>1, <1>2, TypedAlways, PTL DEF Spec

(* An ALLOW holds the budget of its order and a DENY or a CHALLENGE none,   *)
(* although the decision and the hold are written by two transactions with  *)
(* other requests and a crash possible between them.                        *)
THEOREM GatewayAllowHoldsBudget == Spec => []AllowHoldsBudget
<1>1. DecisionsFollowed => AllowHoldsBudget
  BY DEF DecisionsFollowed, DecisionFollowed, AllowHoldsBudget
<1>. QED
  BY <1>1, DecisionsFollowedAlways, PTL

(* An order whose challenge is open or was rejected has not been charged and*)
(* holds no budget, however often the challenge was resolved before.        *)
THEOREM GatewayUnapprovedChargesNothing == Spec => []UnapprovedChargesNothing
<1>1. DecidedFirst /\ DecisionsFollowed => UnapprovedChargesNothing
  <2>1. \A a \in Auths : challenge[a] \in {"PENDING", "REJECTED"} => challenge[a] # None
    BY GatewayAssumption DEF ChallengeStatuses
  <2>. QED
    BY <2>1 DEF DecidedFirst, DecisionsFollowed, DecisionFollowed, UnapprovedChargesNothing
<1>. QED
  BY <1>1, DecisionsFollowedAlways, PTL

-------------------------------------------------------------------------------
(* Payments and the holds they settle *)

(* A row that is there stays, and a settled one is never changed.           *)
LEMMA RowsProgress ==
  ASSUME Typed, [Next]_vars, NEW r \in Auths, rows[r] # NoRow
  PROVE  /\ rows'[r] # NoRow
         /\ rows[r].status # "PENDING" => rows'[r] = rows[r]
<1>1. rows \in [Auths -> Ledger!Row \cup {NoRow}]
  BY DEF Typed, TypeOK, Ledger!TypeOK
<1>3. [Ledger!Next]_(Ledger!vars)
  BY GatewayLedgerStep
<1>4. \A row \in Ledger!Row : row # NoRow
  BY LedgerAssumption
<1>5. rows[r] \in Ledger!Row
  BY <1>1
<1>6. ASSUME NEW q \in Auths, NEW c, NEW a, NEW now, Ledger!AtomicReserve(q, c, a, now)
      PROVE  rows'[r] = rows[r]
  BY <1>1, <1>6 DEF Ledger!AtomicReserve
<1>7. ASSUME NEW q \in Auths, NEW now \in Ledger!Stamps, Ledger!CommitReservation(q, now)
      PROVE  rows'[r] = rows[r] \/ (rows[r].status = "PENDING" /\ rows'[r] # NoRow)
  <2>1. CASE rows[q].status = "PENDING"
    <3>1. rows' = [rows EXCEPT ![q].status = "COMMITTED", ![q].committedAt = now]
      BY <1>7, <2>1 DEF Ledger!CommitReservation
    <3>. DEFINE new == [rows[q] EXCEPT !.status = "COMMITTED", !.committedAt = now]
    <3>2. rows' = [rows EXCEPT ![q] = new]
      BY <1>1, <3>1
    <3>3. rows[q] \in Ledger!Row
      BY <1>1, <1>7 DEF Ledger!CommitReservation, Ledger!Issued
    <3>4. new \in Ledger!Row
      BY <3>3 DEF Ledger!Row, Ledger!Statuses, Ledger!Stamps
    <3>. QED
      BY <1>1, <1>4, <2>1, <3>2, <3>4
  <2>2. CASE rows[q].status # "PENDING"
    BY <1>7, <2>2 DEF Ledger!CommitReservation
  <2>. QED
    BY <2>1, <2>2
<1>8. ASSUME NEW q \in Auths, Ledger!ReleaseReservation(q)
      PROVE  rows'[r] = rows[r] \/ (rows[r].status = "PENDING" /\ rows'[r] # NoRow)
  <2>1. CASE q = r /\ rows[r].status = "PENDING"
    <3>1. [rows[r] EXCEPT !.status = "RELEASED"] \in Ledger!Row
      BY <1>5 DEF Ledger!Row, Ledger!Statuses
    <3>. QED
      BY <1>1, <1>4, <1>8, <2>1, <3>1 DEF Ledger!ReleaseReservation
  <2>2. CASE ~ (q = r /\ rows[r].status = "PENDING")
    BY <1>1, <1>8, <2>2 DEF Ledger!ReleaseReservation
  <2>. QED
    BY <2>1, <2>2
<1>9. ASSUME Ledger!Tick \/ UNCHANGED Ledger!vars
      PROVE  rows' = rows
  BY <1>9 DEF Ledger!Tick, Ledger!vars
<1>. QED
  BY <1>3, <1>6, <1>7, <1>8, <1>9 DEF Ledger!Next

(* A payment that a step does not make stays as it is.                      *)
LEMMA PaymentUntouched ==
  ASSUME Typed, PaymentsFollowed, [Next]_vars, NEW p \in Pays,
         pc'[p] = pc[p], hold'[p] = hold[p], attempts'[p] = attempts[p],
         request'[p] = request[p]
  PROVE  PaymentFollowed(p)'
<1>1. PaymentFollowed(p)
  BY DEF PaymentsFollowed
<1>2. hold[p] # None => hold[p] \in Auths
  BY DEF Typed, TypeOK
<1>. QED
  BY <1>1, <1>2, RowsProgress DEF PaymentFollowed

(* A payment keeps following its hold, whatever step is taken.              *)
LEMMA PaymentsFollowedKept ==
  ASSUME Typed, DecidedFirst, PaymentsFollowed, [Next]_vars
  PROVE  PaymentsFollowed'
<1>0. /\ pc \in [Requests -> Labels] /\ DOMAIN request = Requests
      /\ attempts \in [Pays -> AttemptStatuses \cup {None}]
      /\ hold \in [Pays -> Auths \cup {None}]
      /\ Pays \subseteq Requests /\ Pays \cap Auths = {}
  BY GatewayAssumption DEF Typed, TypeOK, Requests
<1>1. \A p \in Pays : attempts[p] # None => pc[p] = "done"
  BY DEF DecidedFirst
<1>2. SUFFICES ASSUME NEW p \in Pays PROVE PaymentFollowed(p)'
  BY DEF PaymentsFollowed
<1>3. PaymentFollowed(p) /\ None # "SUCCESS"
  BY GatewayAssumption DEF PaymentsFollowed, AttemptStatuses
<1>4. ASSUME NEW a \in Auths,
             (\E order \in Orders : GetContract(a, order)) \/ AuthorizeStep(a)
      PROVE  PaymentFollowed(p)'
  <2>1. /\ \E l \in Labels : pc' = [pc EXCEPT ![a] = l]
        /\ UNCHANGED request \/ \E order : request' = [request EXCEPT ![a] = order]
        /\ UNCHANGED <<hold, attempts>>
    BY <1>4 DEF GetContract, AuthorizeStep, GetProduct, ReadCommitted, Evaluate, Reserve,
      PersistDecision, CreateStepUpChallenge, Goto, Finish, tables, locals, Labels
  <2>. QED
    BY <1>0, <2>1, PaymentUntouched
<1>5. ASSUME NEW q \in Pays, NEW payment \in Payments, CheckIdempotency(q, payment)
      PROVE  PaymentFollowed(p)'
  <2>1. /\ pc[q] = "idle"
        /\ \E l \in {"done", "decision"} : pc' = [pc EXCEPT ![q] = l]
        /\ request' = [request EXCEPT ![q] = payment]
        /\ UNCHANGED <<hold, attempts>>
    BY <1>5 DEF CheckIdempotency, Goto, Finish, tables
  <2>2. CASE p = q
    BY <1>0, <1>1, <1>3, <2>1, <2>2 DEF PaymentFollowed
  <2>3. CASE p # q
    BY <1>0, <2>1, <2>3, PaymentUntouched
  <2>. QED
    BY <2>2, <2>3
<1>6. ASSUME NEW q \in Pays, LoadDecision(q)
      PROVE  PaymentFollowed(p)'
  <2>1. /\ pc[q] = "decision"
        /\ \E l \in {"done", "hold"} : pc' = [pc EXCEPT ![q] = l]
        /\ UNCHANGED <<request, hold, attempts>>
    BY <1>6 DEF LoadDecision, Goto, Finish, tables, locals
  <2>2. CASE p = q
    BY <1>0, <1>1, <1>3, <2>1, <2>2 DEF PaymentFollowed
  <2>3. CASE p # q
    BY <1>0, <2>1, <2>3, PaymentUntouched
  <2>. QED
    BY <2>2, <2>3
<1>7. ASSUME NEW q \in Pays, GetReservationByTx(q)
      PROVE  PaymentFollowed(p)'
  <2>1. /\ pc[q] = "hold"
        /\ pc' = [pc EXCEPT ![q] = IF request[q].fails THEN "release" ELSE "commit"]
        /\ \E r : /\ r # None => rows[r] # NoRow
                  /\ hold' = [hold EXCEPT ![q] = r]
        /\ UNCHANGED <<rows, request, attempts>>
    BY <1>7 DEF GetReservationByTx, LatestOf, Ledger!Issued, Goto, ledger, tables
  <2>2. CASE p = q
    BY <1>0, <1>1, <1>3, <2>1, <2>2 DEF PaymentFollowed
  <2>3. CASE p # q
    BY <1>0, <2>1, <2>3, PaymentUntouched
  <2>. QED
    BY <2>2, <2>3
<1>8. ASSUME NEW q \in Pays, ReleaseBudget(q) \/ CommitBudget(q)
      PROVE  PaymentFollowed(p)'
  <2>1. /\ \/ pc[q] = "release" /\ pc' = [pc EXCEPT ![q] = "recordFailed"]
           \/ pc[q] = "commit" /\ pc' = [pc EXCEPT ![q] = "recordPaid"]
        /\ UNCHANGED <<request, hold, attempts>>
    BY <1>8 DEF ReleaseBudget, CommitBudget, Goto, tables
  <2>2. CASE p = q
    <3>1. hold[p] # None => rows'[hold[p]] # NoRow /\ rows'[hold[p]].status # "PENDING"
      BY <1>0, <1>8, <2>2, SettleRows
    <3>. QED
      BY <1>0, <1>1, <1>3, <2>1, <2>2, <3>1 DEF PaymentFollowed
  <2>3. CASE p # q
    BY <1>0, <2>1, <2>3, PaymentUntouched
  <2>. QED
    BY <2>2, <2>3
<1>9. ASSUME NEW q \in Pays, RecordSuccessfulPayment(q) \/ RecordFailedPayment(q)
      PROVE  PaymentFollowed(p)'
  <2>1. /\ \/ pc[q] = "recordPaid" /\ attempts' = [attempts EXCEPT ![q] = "SUCCESS"]
           \/ pc[q] = "recordFailed" /\ attempts' = [attempts EXCEPT ![q] = "FAILED"]
        /\ pc' = [pc EXCEPT ![q] = "done"]
        /\ UNCHANGED <<rows, request, hold>>
    BY <1>9 DEF RecordSuccessfulPayment, RecordFailedPayment, Finish, locals, ledger
  <2>2. CASE p = q
    BY <1>0, <1>1, <1>3, <2>1, <2>2 DEF PaymentFollowed
  <2>3. CASE p # q
    BY <1>0, <2>1, <2>3, PaymentUntouched
  <2>. QED
    BY <2>2, <2>3
<1>10. ASSUME NEW q \in Pays, RecordRefused(q)
       PROVE  PaymentFollowed(p)'
  <2>1. /\ pc[q] \in {"recordPaid", "recordFailed"}
        /\ pc' = [pc EXCEPT ![q] = "error"]
        /\ UNCHANGED <<rows, request, hold, attempts>>
    BY <1>10 DEF RecordRefused, Goto, tables, locals, ledger
  <2>2. CASE p = q
    BY <1>0, <1>1, <1>3, <2>1, <2>2 DEF PaymentFollowed
  <2>3. CASE p # q
    BY <1>0, <2>1, <2>3, PaymentUntouched
  <2>. QED
    BY <2>2, <2>3
<1>11. ASSUME Restart
       PROVE  PaymentFollowed(p)'
  <2>1. /\ pc' = [q \in Requests |-> IF InFlight(q) THEN "lost" ELSE pc[q]]
        /\ UNCHANGED <<rows, request, hold, attempts>>
    BY <1>11 DEF Restart, ledger
  <2>2. (pc'[p] = pc[p] /\ pc[p] \in {"idle", "done", "error", "lost"}) \/ pc'[p] = "lost"
    BY <1>0, <2>1 DEF InFlight
  <2>. QED
    BY <1>1, <1>3, <2>1, <2>2 DEF PaymentFollowed
<1>12. ASSUME (\E e \in owed : AppendEvent(e)) \/ UserStep \/ Tick \/ UNCHANGED vars
       PROVE  PaymentFollowed(p)'
  <2>1. UNCHANGED <<pc, request, hold, attempts>>
    BY <1>12 DEF AppendEvent, UserStep, CreateContract, RevokeContract, ResolveChallenge,
      Tick, vars, tables, locals
  <2>. QED
    BY <2>1, PaymentUntouched
<1>. QED
  BY <1>4, <1>5, <1>6, <1>7, <1>8, <1>9, <1>10, <1>11, <1>12 DEF Next, PayStep

(* A payment whose reservation a step may settle, seen from the hold: who   *)
(* released a hold is a payment that failed, who committed it is a payment  *)
(* that is recorded, about to be, refused or cut short.                     *)
LEMMA HoldersKept ==
  ASSUME Typed, DecidedFirst, PaymentsFollowed, [Next]_vars,
         NEW p \in Pays, hold[p] # None
  PROVE  /\ hold'[p] = hold[p] /\ request'[p] = request[p]
         /\ attempts[p] = "SUCCESS" \/ pc[p] \in {"recordPaid", "error", "lost"} =>
              attempts'[p] = "SUCCESS" \/ pc'[p] \in {"recordPaid", "error", "lost"}
<1>0. /\ pc \in [Requests -> Labels] /\ DOMAIN request = Requests
      /\ attempts \in [Pays -> AttemptStatuses \cup {None}]
      /\ hold \in [Pays -> Auths \cup {None}]
      /\ Pays \subseteq Requests /\ Pays \cap Auths = {}
  BY GatewayAssumption DEF Typed, TypeOK, Requests
<1>1. /\ pc[p] \notin {"idle", "decision", "hold"}
      /\ attempts[p] # None => pc[p] = "done"
      /\ None # "SUCCESS"
  BY GatewayAssumption
  DEF PaymentsFollowed, PaymentFollowed, DecidedFirst, AttemptStatuses
<1>2. ASSUME NEW a \in Auths,
             (\E order \in Orders : GetContract(a, order)) \/ AuthorizeStep(a)
      PROVE  /\ pc'[p] = pc[p] /\ request'[p] = request[p]
             /\ UNCHANGED <<hold, attempts>>
  <2>1. /\ \E l \in Labels : pc' = [pc EXCEPT ![a] = l]
        /\ UNCHANGED request \/ \E order : request' = [request EXCEPT ![a] = order]
        /\ UNCHANGED <<hold, attempts>>
    BY <1>2 DEF GetContract, AuthorizeStep, GetProduct, ReadCommitted, Evaluate, Reserve,
      PersistDecision, CreateStepUpChallenge, Goto, Finish, tables, locals, Labels
  <2>. QED
    BY <1>0, <2>1
<1>3. ASSUME NEW q \in Pays,
             \/ \E payment \in Payments : CheckIdempotency(q, payment)
             \/ LoadDecision(q) \/ GetReservationByTx(q)
      PROVE  /\ pc'[p] = pc[p] /\ request'[p] = request[p] /\ hold'[p] = hold[p]
             /\ UNCHANGED attempts
  <2>1. /\ pc[q] \in {"idle", "decision", "hold"}
        /\ \E l \in Labels : pc' = [pc EXCEPT ![q] = l]
        /\ UNCHANGED request \/ \E payment : request' = [request EXCEPT ![q] = payment]
        /\ UNCHANGED hold \/ \E r : hold' = [hold EXCEPT ![q] = r]
        /\ UNCHANGED attempts
    BY <1>3 DEF CheckIdempotency, LoadDecision, GetReservationByTx, Goto, Finish, tables,
      locals, Labels
  <2>. QED
    BY <1>0, <1>1, <2>1
<1>4. ASSUME NEW q \in Pays,
             \/ ReleaseBudget(q) \/ CommitBudget(q) \/ RecordSuccessfulPayment(q)
             \/ RecordFailedPayment(q) \/ RecordRefused(q)
      PROVE  /\ UNCHANGED <<hold, request>>
             /\ attempts[p] = "SUCCESS" \/ pc[p] \in {"recordPaid", "error", "lost"} =>
                  attempts'[p] = "SUCCESS" \/ pc'[p] \in {"recordPaid", "error", "lost"}
  <2>1. /\ UNCHANGED <<hold, request>>
        /\ \/ /\ pc[q] \in {"release", "commit"} /\ UNCHANGED attempts
              /\ \E l \in Labels : pc' = [pc EXCEPT ![q] = l]
           \/ /\ pc[q] = "recordPaid" /\ attempts' = [attempts EXCEPT ![q] = "SUCCESS"]
              /\ pc' = [pc EXCEPT ![q] = "done"]
           \/ /\ pc[q] = "recordFailed" /\ attempts' = [attempts EXCEPT ![q] = "FAILED"]
              /\ pc' = [pc EXCEPT ![q] = "done"]
           \/ UNCHANGED attempts /\ pc' = [pc EXCEPT ![q] = "error"]
    BY <1>4 DEF ReleaseBudget, CommitBudget, RecordSuccessfulPayment, RecordFailedPayment,
      RecordRefused, Goto, Finish, tables, locals, Labels
  <2>. QED
    BY <1>0, <1>1, <2>1
<1>5. ASSUME Restart
      PROVE  /\ UNCHANGED <<hold, request, attempts>>
             /\ pc'[p] = pc[p] \/ pc'[p] = "lost"
  BY <1>0, <1>5 DEF Restart
<1>6. ASSUME (\E e \in owed : AppendEvent(e)) \/ UserStep \/ Tick \/ UNCHANGED vars
      PROVE  UNCHANGED <<pc, hold, request, attempts>>
  BY <1>6 DEF AppendEvent, UserStep, CreateContract, RevokeContract, ResolveChallenge,
    Tick, vars, tables, locals
<1>. QED
  BY <1>1, <1>2, <1>3, <1>4, <1>5, <1>6 DEF Next, PayStep

(* A step that settles a hold is the step of a payment that found it.       *)
LEMMA SettledByHolder ==
  ASSUME Typed, [Next]_vars, NEW r \in Auths,
         rows'[r] # NoRow, rows'[r].status # "PENDING", rows'[r] # rows[r]
  PROVE  \E p \in Pays : /\ ReleaseBudget(p) \/ CommitBudget(p)
                         /\ rows[r] # NoRow /\ hold[p] = r
                         /\ rows'[r].status =
                              IF pc[p] = "release" THEN "RELEASED" ELSE "COMMITTED"
<1>0. rows \in [Auths -> Ledger!Row \cup {NoRow}]
  BY DEF Typed, TypeOK, Ledger!TypeOK
<1>1. ASSUME NEW a \in Auths, Reserve(a)
      PROVE  FALSE
  <2>1. PICK now : Ledger!AtomicReserve(a, request[a].contract, request[a].amount, now)
    BY <1>1 DEF Reserve
  <2>. QED
    BY <1>0, <2>1 DEF Ledger!AtomicReserve
<1>2. ASSUME rows' = rows
      PROVE  FALSE
  BY <1>2
<1>3. (\E p \in Pays : ReleaseBudget(p) \/ CommitBudget(p)) \/ UNCHANGED rows
        \/ \E a \in Auths : Reserve(a)
  BY DEF Next, AuthorizeStep, PayStep, UserStep, GetContract, GetProduct, ReadCommitted,
    Evaluate, PersistDecision, CreateStepUpChallenge, CheckIdempotency, LoadDecision,
    GetReservationByTx, RecordSuccessfulPayment, RecordFailedPayment, RecordRefused,
    CreateContract, RevokeContract, ResolveChallenge, AppendEvent, Restart, Tick,
    Ledger!Tick, vars, ledger
<1>. QED
  BY <1>1, <1>2, <1>3, SettleRows

(* A hold is released by a payment that fails, and by nothing else.         *)
LEMMA ReleasedByFailureKept ==
  ASSUME Typed, DecidedFirst, PaymentsFollowed, ReleasedByFailure, [Next]_vars
  PROVE  ReleasedByFailure'
<1>1. SUFFICES ASSUME NEW r \in Auths, rows'[r] # NoRow, rows'[r].status = "RELEASED"
               PROVE  \E p \in Pays : hold'[p] = r /\ request'[p].fails
  BY DEF ReleasedByFailure, Ledger!Issued
<1>2. r # None
  BY GatewayAssumption
<1>3. CASE rows'[r] = rows[r]
  <2>1. PICK p \in Pays : hold[p] = r /\ request[p].fails
    BY <1>1, <1>3 DEF ReleasedByFailure, Ledger!Issued
  <2>. QED
    BY <1>2, <2>1, HoldersKept
<1>4. CASE rows'[r] # rows[r]
  <2>1. PICK p \in Pays : /\ ReleaseBudget(p) \/ CommitBudget(p)
                          /\ hold[p] = r /\ pc[p] = "release"
    BY <1>1, <1>4, SettledByHolder
  <2>2. request[p].fails
    BY <2>1 DEF PaymentsFollowed, PaymentFollowed
  <2>. QED
    BY <1>2, <2>1, <2>2, HoldersKept
<1>. QED
  BY <1>3, <1>4

(* A hold is committed by a payment on its way to its record.               *)
LEMMA SpentBudgetHasPaymentKept ==
  ASSUME Typed, DecidedFirst, PaymentsFollowed, SpentBudgetHasPayment, [Next]_vars
  PROVE  SpentBudgetHasPayment'
<1>1. SUFFICES ASSUME NEW r \in Auths, rows'[r] # NoRow, rows'[r].status = "COMMITTED"
               PROVE  \E p \in Pays : /\ hold'[p] = r /\ ~ request'[p].fails
                                      /\ \/ attempts'[p] = "SUCCESS"
                                         \/ pc'[p] \in {"recordPaid", "error", "lost"}
  BY DEF SpentBudgetHasPayment, Ledger!Issued
<1>2. r # None
  BY GatewayAssumption
<1>3. CASE rows'[r] = rows[r]
  <2>1. PICK p \in Pays : /\ hold[p] = r /\ ~ request[p].fails
                          /\ \/ attempts[p] = "SUCCESS"
                             \/ pc[p] \in {"recordPaid", "error", "lost"}
    BY <1>1, <1>3 DEF SpentBudgetHasPayment, Ledger!Issued
  <2>. QED
    BY <1>2, <2>1, HoldersKept
<1>4. CASE rows'[r] # rows[r]
  <2>1. PICK p \in Pays : CommitBudget(p) /\ hold[p] = r
    BY <1>1, <1>4, SettledByHolder DEF ReleaseBudget
  <2>2. pc[p] = "commit" /\ pc' = [pc EXCEPT ![p] = "recordPaid"]
    BY <2>1 DEF CommitBudget, Goto
  <2>3. ~ request[p].fails /\ pc'[p] = "recordPaid"
    BY <2>2 DEF PaymentsFollowed, PaymentFollowed, Typed, TypeOK, Requests
  <2>. QED
    BY <1>2, <2>1, <2>3, HoldersKept
<1>. QED
  BY <1>3, <1>4

(* The parts that speak of the holds of payments; they are proved together. *)
Paid == PaymentsFollowed /\ ReleasedByFailure /\ SpentBudgetHasPayment

(* They are invariants.                                                     *)
LEMMA PaidAlways == Spec => [](Typed /\ DecidedFirst /\ Paid)
<1>1. Init => Paid
  BY GatewayAssumption
  DEF Init, Paid, PaymentsFollowed, PaymentFollowed, ReleasedByFailure,
    SpentBudgetHasPayment, Ledger!Issued, Ledger!Init, Requests, AttemptStatuses
<1>2. Typed /\ DecidedFirst /\ Paid /\ [Next]_vars => Paid'
  BY PaymentsFollowedKept, ReleasedByFailureKept, SpentBudgetHasPaymentKept DEF Paid
<1>. QED
  BY <1>1, <1>2, TypedAlways, PTL DEF Spec

(* Budget is only spent by a payment that is recorded, is about to be, was  *)
(* refused by the database or was cut short by a crash.                     *)
THEOREM GatewaySpentBudgetHasPayment == Spec => []SpentBudgetHasPayment
BY PaidAlways, PTL DEF Paid

(* A recorded payment belongs to an allowed decision and has settled the    *)
(* hold it found; only a failed payment that shares the hold keeps a charge *)
(* from committing it.                                                      *)
THEOREM GatewayPaymentSettlesHold == Spec => []PaymentSettlesHold
<1>1. Typed /\ DecidedFirst /\ Paid => PaymentSettlesHold
  <2>1. SUFFICES ASSUME Typed, DecidedFirst, Paid, NEW p \in Pays, attempts[p] # None
                 PROVE  /\ decision[request[p].decision] = "ALLOW"
                        /\ hold[p] # None => rows[hold[p]].status # "PENDING"
                        /\ (/\ hold[p] # None /\ attempts[p] = "SUCCESS"
                            /\ \A p2 \in Pays : hold[p2] = hold[p] => ~ request[p2].fails)
                             => rows[hold[p]].status = "COMMITTED"
    BY DEF PaymentSettlesHold
  <2>2. decision[request[p].decision] = "ALLOW"
    BY <2>1 DEF DecidedFirst
  <2>3. hold[p] # None => rows[hold[p]] # NoRow /\ rows[hold[p]].status # "PENDING"
    BY <2>1 DEF Paid, PaymentsFollowed, PaymentFollowed
  <2>4. hold[p] # None => hold[p] \in Auths /\ rows[hold[p]] \in Ledger!Row
    BY <2>1, <2>3 DEF Typed, TypeOK, Ledger!TypeOK
  <2>5. ASSUME hold[p] # None, \A p2 \in Pays : hold[p2] = hold[p] => ~ request[p2].fails
        PROVE  rows[hold[p]].status # "RELEASED"
    BY <2>1, <2>3, <2>4, <2>5 DEF Paid, ReleasedByFailure, Ledger!Issued
  <2>. QED
    BY <2>2, <2>3, <2>4, <2>5 DEF Ledger!Row, Ledger!Statuses
<1>. QED
  BY <1>1, PaidAlways, PTL

-------------------------------------------------------------------------------
(* The audit log *)

(* A transaction's row stays, under the key it was created with.            *)
LEMMA TransactionsStay ==
  ASSUME Typed, [Next]_vars, NEW t \in Txs, transactions[t] # None
  PROVE  transactions'[t] # None /\ transactions'[t].key = transactions[t].key
<1>0. /\ transactions \in [Txs -> Transaction \cup {None}]
      /\ \A row \in Transaction : row # None
  BY GatewayAssumption DEF Typed, TypeOK
<1>1. ASSUME NEW p \in Pays, NEW status \in {"COMPLETED", "PAYMENT_FAILED"},
             transactions' = Upserted(p, status)
      PROVE  transactions'[t] # None /\ transactions'[t].key = transactions[t].key
  <2>1. /\ transactions[t] \in Transaction
        /\ [transactions[t] EXCEPT !.status = status] \in Transaction
        /\ [transactions[t] EXCEPT !.status = status].key = transactions[t].key
    BY <1>0 DEF Transaction
  <2>2. transactions'[t] \in {transactions[t], [transactions[t] EXCEPT !.status = status]}
    BY <1>0, <1>1 DEF Upserted
  <2>. QED
    BY <1>0, <2>1, <2>2
<1>2. (\E p \in Pays, status \in {"COMPLETED", "PAYMENT_FAILED"} :
         transactions' = Upserted(p, status)) \/ UNCHANGED transactions
  BY DEF Next, AuthorizeStep, PayStep, UserStep, GetContract, GetProduct, ReadCommitted,
    Evaluate, Reserve, PersistDecision, CreateStepUpChallenge, CheckIdempotency,
    LoadDecision, GetReservationByTx, ReleaseBudget, CommitBudget,
    RecordSuccessfulPayment, RecordFailedPayment, RecordRefused,
    CreateContract, RevokeContract, ResolveChallenge, AppendEvent, Restart, Tick,
    vars, tables
<1>. QED
  BY <1>1, <1>2

(* What a finished handler did and was asked stays what it was.             *)
LEMMA FinishedStays ==
  ASSUME Typed, [Next]_vars, NEW q \in Requests, pc[q] = "done"
  PROVE  /\ pc'[q] = "done" /\ request'[q] = request[q]
         /\ q \in Pays => attempts'[q] = attempts[q]
<1>0. /\ pc \in [Requests -> Labels] /\ DOMAIN request = Requests
      /\ attempts \in [Pays -> AttemptStatuses \cup {None}]
      /\ Pays \subseteq Requests /\ Auths \subseteq Requests /\ Pays \cap Auths = {}
  BY GatewayAssumption DEF Typed, TypeOK, Requests
<1>1. ASSUME NEW a \in Auths,
             (\E order \in Orders : GetContract(a, order)) \/ AuthorizeStep(a)
      PROVE  /\ a # q => pc'[q] = pc[q] /\ request'[q] = request[q]
             /\ pc[a] # "done" /\ UNCHANGED attempts
  <2>1. /\ \E l \in Labels : pc' = [pc EXCEPT ![a] = l]
        /\ UNCHANGED request \/ \E order : request' = [request EXCEPT ![a] = order]
        /\ pc[a] # "done" /\ UNCHANGED attempts
    BY <1>1 DEF GetContract, AuthorizeStep, GetProduct, ReadCommitted, Evaluate, Reserve,
      PersistDecision, CreateStepUpChallenge, Goto, Finish, tables, locals, Labels
  <2>. QED
    BY <1>0, <2>1
<1>2. ASSUME NEW p \in Pays,
             (\E payment \in Payments : CheckIdempotency(p, payment)) \/ PayStep(p)
      PROVE  /\ p # q => /\ pc'[q] = pc[q] /\ request'[q] = request[q]
                         /\ q \in Pays => attempts'[q] = attempts[q]
             /\ pc[p] # "done"
  <2>1. /\ \E l \in Labels : pc' = [pc EXCEPT ![p] = l]
        /\ UNCHANGED request \/ \E payment : request' = [request EXCEPT ![p] = payment]
        /\ UNCHANGED attempts \/ \E s : attempts' = [attempts EXCEPT ![p] = s]
        /\ pc[p] # "done"
    BY <1>2 DEF CheckIdempotency, PayStep, LoadDecision, GetReservationByTx, ReleaseBudget,
      CommitBudget, RecordSuccessfulPayment, RecordFailedPayment, RecordRefused,
      Goto, Finish, tables, locals, Labels
  <2>. QED
    BY <1>0, <2>1
<1>3. ASSUME Restart
      PROVE  pc'[q] = "done" /\ UNCHANGED <<request, attempts>>
  BY <1>3 DEF Restart, InFlight
<1>4. ASSUME (\E e \in owed : AppendEvent(e)) \/ UserStep \/ Tick \/ UNCHANGED vars
      PROVE  UNCHANGED <<pc, request, attempts>>
  BY <1>4 DEF AppendEvent, UserStep, CreateContract, RevokeContract, ResolveChallenge,
    Tick, vars, tables, locals
<1>. QED
  BY <1>1, <1>2, <1>3, <1>4 DEF Next

(* What an event has reported stays true.                                   *)
LEMMA ReportStays ==
  ASSUME Typed, [Next]_vars, NEW e, Reports(e)
  PROVE  Reports(e)'
<1>1. ASSUME NEW key, KeyUsed(key)
      PROVE  KeyUsed(key)'
  BY <1>1, TransactionsStay DEF KeyUsed, KeyTaken
<1>2. CASE e.type = "AUTHORIZATION_DECISION_EMITTED"
  BY <1>2, FinishedStays DEF Reports, Requests
<1>3. CASE e.type = "PAYMENT_EXECUTED"
  <2>1. /\ e.of \in Pays /\ pc'[e.of] = "done" /\ request'[e.of] = request[e.of]
        /\ attempts'[e.of] = attempts[e.of]
    BY <1>3, FinishedStays DEF Reports, Requests
  <2>. QED
    BY <1>1, <1>3, <2>1 DEF Reports
<1>4. CASE e.type = "PAYMENT_FAILED"
  BY <1>4, FinishedStays DEF Reports, Requests
<1>5. CASE e.type \notin {"AUTHORIZATION_DECISION_EMITTED", "PAYMENT_EXECUTED",
                         "PAYMENT_FAILED"}
  BY <1>5 DEF Reports
<1>. QED
  BY <1>2, <1>3, <1>4, <1>5

(* A handler that returns owes an event that reports what it did.           *)
LEMMA EventsFinishedKept ==
  ASSUME Typed, DecidedFirst, EventsFinished, [Next]_vars
  PROVE  EventsFinished'
<1>0. /\ pc \in [Requests -> Labels] /\ DOMAIN request = Requests
      /\ attempts \in [Pays -> AttemptStatuses \cup {None}]
      /\ Pays \subseteq Requests /\ Auths \subseteq Requests
      /\ None # "SUCCESS"
  BY GatewayAssumption DEF Typed, TypeOK, Requests, AttemptStatuses
<1>1. SUFFICES ASSUME NEW e \in audit' \cup owed', e \notin audit \cup owed
               PROVE  Reports(e)'
  BY ReportStays DEF EventsFinished
<1>2. ASSUME NEW a \in Auths, AuthorizeStep(a)
      PROVE  Reports(e)'
  <2>1. /\ e = Event("AUTHORIZATION_DECISION_EMITTED", a)
        /\ pc' = [pc EXCEPT ![a] = "done"]
    BY <1>1, <1>2 DEF AuthorizeStep, GetProduct, ReadCommitted, Evaluate, Reserve,
      PersistDecision, CreateStepUpChallenge, Goto, Finish
  <2>. QED
    BY <1>0, <2>1 DEF Reports, Event
<1>3. ASSUME NEW p \in Pays, NEW payment \in Payments, CheckIdempotency(p, payment)
      PROVE  Reports(e)'
  <2>1. /\ e = Event("PAYMENT_EXECUTED", p) /\ KeyUsed(payment.key)
        /\ pc' = [pc EXCEPT ![p] = "done"]
        /\ request' = [request EXCEPT ![p] = payment]
        /\ UNCHANGED transactions
    BY <1>1, <1>3 DEF CheckIdempotency, Goto, Finish, tables
  <2>. QED
    BY <1>0, <2>1 DEF Reports, Event, KeyUsed, KeyTaken
<1>4. ASSUME NEW p \in Pays, LoadDecision(p)
      PROVE  Reports(e)'
  <2>1. /\ e = Event("PAYMENT_FAILED", p) /\ pc[p] = "decision"
        /\ pc' = [pc EXCEPT ![p] = "done"]
        /\ UNCHANGED attempts
    BY <1>1, <1>4 DEF LoadDecision, Goto, Finish, tables
  <2>2. attempts[p] = None
    BY <2>1 DEF DecidedFirst
  <2>. QED
    BY <1>0, <2>1, <2>2 DEF Reports, Event
<1>5. ASSUME NEW p \in Pays, RecordSuccessfulPayment(p)
      PROVE  Reports(e)'
  <2>1. /\ e = Event("PAYMENT_EXECUTED", p)
        /\ pc' = [pc EXCEPT ![p] = "done"]
        /\ attempts' = [attempts EXCEPT ![p] = "SUCCESS"]
    BY <1>1, <1>5 DEF RecordSuccessfulPayment, Finish
  <2>. QED
    BY <1>0, <2>1 DEF Reports, Event
<1>6. ASSUME NEW p \in Pays, RecordFailedPayment(p)
      PROVE  Reports(e)'
  <2>1. /\ e = Event("PAYMENT_FAILED", p)
        /\ pc' = [pc EXCEPT ![p] = "done"]
        /\ attempts' = [attempts EXCEPT ![p] = "FAILED"]
    BY <1>1, <1>6 DEF RecordFailedPayment, Finish
  <2>. QED
    BY <1>0, <2>1 DEF Reports, Event
<1>7. ASSUME UserStep
      PROVE  Reports(e)'
  BY <1>1, <1>7 DEF UserStep, CreateContract, RevokeContract, ResolveChallenge, Reports, Event
<1>8. ASSUME \/ \E a \in Auths, order \in Orders : GetContract(a, order)
             \/ \E p \in Pays : \/ GetReservationByTx(p) \/ ReleaseBudget(p)
                                \/ CommitBudget(p) \/ RecordRefused(p)
             \/ \E f \in owed : AppendEvent(f)
             \/ Restart \/ Tick \/ UNCHANGED vars
      PROVE  FALSE
  BY <1>1, <1>8 DEF GetContract, GetReservationByTx, ReleaseBudget, CommitBudget,
    RecordRefused, AppendEvent, Restart, Tick, vars, Goto
<1>. QED
  BY <1>2, <1>3, <1>4, <1>5, <1>6, <1>7, <1>8 DEF Next, PayStep

(* It is an invariant.                                                      *)
LEMMA EventsFinishedAlways == Spec => []EventsFinished
<1>1. Init => EventsFinished
  BY DEF Init, EventsFinished
<1>2. Typed /\ DecidedFirst /\ EventsFinished /\ [Next]_vars => EventsFinished'
  BY EventsFinishedKept
<1>. QED
  BY <1>1, <1>2, TypedAlways, PTL DEF Spec

(* An audit event never runs ahead of what it reports, crashes between a    *)
(* handler's transactions and the append included.                          *)
THEOREM GatewayAuditNeverAhead == Spec => []AuditNeverAhead
<1>1. DecisionsFollowed /\ EventsFinished => AuditNeverAhead
  BY DEF DecisionsFollowed, DecisionFollowed, EventsFinished, Reports, AuditNeverAhead
<1>. QED
  BY <1>1, DecisionsFollowedAlways, EventsFinishedAlways, PTL

-------------------------------------------------------------------------------
(* Idempotency keys *)

(* Only the idempotency check looks at what was recorded, and only it lets  *)
(* a payment through.                                                       *)
LEMMA OnlyCheckLooks ==
  ASSUME Typed, DecidedFirst, [Next]_vars, NEW p \in Pays,
         ~ \E payment \in Payments : CheckIdempotency(p, payment)
  PROVE  /\ known'[p] = known[p]
         /\ PastCheck(p)' => PastCheck(p) /\ request'[p] = request[p]
<1>0. /\ pc \in [Requests -> Labels] /\ DOMAIN request = Requests
      /\ attempts \in [Pays -> AttemptStatuses \cup {None}]
      /\ known \in [Pays -> SUBSET Pays]
      /\ Pays \subseteq Requests /\ Auths \subseteq Requests /\ Pays \cap Auths = {}
  BY GatewayAssumption DEF Typed, TypeOK, Requests
<1>1. ASSUME NEW a \in Auths,
             (\E order \in Orders : GetContract(a, order)) \/ AuthorizeStep(a)
      PROVE  /\ pc'[p] = pc[p] /\ request'[p] = request[p]
             /\ UNCHANGED <<attempts, known>>
  <2>1. /\ \E l \in Labels : pc' = [pc EXCEPT ![a] = l]
        /\ UNCHANGED request \/ \E order : request' = [request EXCEPT ![a] = order]
        /\ UNCHANGED <<attempts, known>>
    BY <1>1 DEF GetContract, AuthorizeStep, GetProduct, ReadCommitted, Evaluate, Reserve,
      PersistDecision, CreateStepUpChallenge, Goto, Finish, tables, locals, Labels
  <2>. QED
    BY <1>0, <2>1
<1>2. ASSUME NEW q \in Pays, NEW payment \in Payments, CheckIdempotency(q, payment)
      PROVE  /\ pc'[p] = pc[p] /\ request'[p] = request[p] /\ known'[p] = known[p]
             /\ UNCHANGED attempts
  <2>1. /\ \E l \in Labels : pc' = [pc EXCEPT ![q] = l]
        /\ request' = [request EXCEPT ![q] = payment]
        /\ known' = [known EXCEPT ![q] = {p2 \in Pays : attempts[p2] # None}]
        /\ UNCHANGED attempts /\ p # q
    BY <1>2 DEF CheckIdempotency, Goto, Finish, tables, Labels
  <2>. QED
    BY <1>0, <2>1
<1>3. ASSUME NEW q \in Pays, PayStep(q)
      PROVE  /\ UNCHANGED <<request, known>>
             /\ PastCheck(p)' => PastCheck(p)
  <2>1. /\ \E l \in Labels : pc' = [pc EXCEPT ![q] = l]
        /\ UNCHANGED attempts \/ \E s : attempts' = [attempts EXCEPT ![q] = s]
        /\ pc[q] \in {"decision"} \cup Paying
        /\ UNCHANGED <<request, known>>
    BY <1>3 DEF PayStep, LoadDecision, GetReservationByTx, ReleaseBudget, CommitBudget,
      RecordSuccessfulPayment, RecordFailedPayment, RecordRefused, Goto, Finish, tables,
      locals, Labels, Paying
  <2>. QED
    BY <1>0, <2>1 DEF PastCheck
<1>4. ASSUME Restart
      PROVE  UNCHANGED <<request, known>> /\ (PastCheck(p)' => PastCheck(p))
  BY <1>0, <1>4 DEF Restart, PastCheck, Paying
<1>5. ASSUME (\E e \in owed : AppendEvent(e)) \/ UserStep \/ Tick \/ UNCHANGED vars
      PROVE  UNCHANGED <<pc, request, attempts, known>>
  BY <1>5 DEF AppendEvent, UserStep, CreateContract, RevokeContract, ResolveChallenge,
    Tick, vars, tables, locals
<1>. QED
  BY <1>1, <1>2, <1>3, <1>4, <1>5 DEF Next, PastCheck

(* An attempt and its transaction are recorded together.                    *)
LEMMA AttemptRecorded ==
  ASSUME Typed, [Next]_vars, NEW p \in Pays, attempts[p] = None, attempts'[p] # None
  PROVE  /\ pc[p] \in Paying /\ UNCHANGED request
         /\ \E status \in {"COMPLETED", "PAYMENT_FAILED"} : transactions' = Upserted(p, status)
         /\ \A q \in Pays \ {p} : attempts'[q] = attempts[q]
<1>0. attempts \in [Pays -> AttemptStatuses \cup {None}]
  BY DEF Typed, TypeOK
<1>1. PICK q \in Pays : RecordSuccessfulPayment(q) \/ RecordFailedPayment(q)
  BY DEF Next, AuthorizeStep, PayStep, UserStep, GetContract, GetProduct, ReadCommitted,
    Evaluate, Reserve, PersistDecision, CreateStepUpChallenge, CheckIdempotency,
    LoadDecision, GetReservationByTx, ReleaseBudget, CommitBudget, RecordRefused,
    CreateContract, RevokeContract, ResolveChallenge, AppendEvent, Restart, Tick,
    vars, tables
<1>2. /\ pc[q] \in Paying /\ UNCHANGED request
      /\ \E status \in {"COMPLETED", "PAYMENT_FAILED"} : transactions' = Upserted(q, status)
      /\ \E s : attempts' = [attempts EXCEPT ![q] = s]
  BY <1>1 DEF RecordSuccessfulPayment, RecordFailedPayment, locals, Paying
<1>. QED
  BY <1>0, <1>2

(* And a transaction is only written by such a step.                        *)
LEMMA TransactionRecorded ==
  ASSUME Typed, DecidedFirst, [Next]_vars, transactions' # transactions
  PROVE  \E p \in Pays : attempts[p] = None /\ attempts'[p] # None
<1>1. PICK p \in Pays : RecordSuccessfulPayment(p) \/ RecordFailedPayment(p)
  BY DEF Next, AuthorizeStep, PayStep, UserStep, GetContract, GetProduct, ReadCommitted,
    Evaluate, Reserve, PersistDecision, CreateStepUpChallenge, CheckIdempotency,
    LoadDecision, GetReservationByTx, ReleaseBudget, CommitBudget, RecordRefused,
    CreateContract, RevokeContract, ResolveChallenge, AppendEvent, Restart, Tick,
    vars, tables
<1>2. pc[p] # "done" /\ attempts'[p] \in AttemptStatuses
  BY <1>1 DEF RecordSuccessfulPayment, RecordFailedPayment, AttemptStatuses, Typed, TypeOK
<1>. QED
  BY <1>2, GatewayAssumption DEF DecidedFirst

(* A key once recorded stays recorded with its payment.                     *)
LEMMA KeysRecordedKept ==
  ASSUME Typed, DecidedFirst, KeysRecorded, [Next]_vars
  PROVE  KeysRecorded'
<1>0. /\ transactions \in [Txs -> Transaction \cup {None}]
      /\ \A row \in Transaction : row # None
      /\ \A p \in Pays : pc[p] # "idle" => request[p] \in Payment
      /\ \A m \in Payment : m.tx \in Txs
      /\ known \in [Pays -> SUBSET Pays]
  BY GatewayAssumption DEF Typed, TypeOK, Submitted, Payment
<1>1. ASSUME NEW p \in Pays, attempts[p] # None
      PROVE  /\ pc[p] = "done" /\ request[p].tx \in Txs
             /\ request'[p] = request[p] /\ attempts'[p] # None
             /\ transactions[request[p].tx] # None
             /\ transactions'[request[p].tx] # None
             /\ transactions'[request[p].tx].key = transactions[request[p].tx].key
  <2>1. pc[p] = "done" /\ request[p].tx \in Txs /\ p \in Requests
    BY <1>0, <1>1 DEF DecidedFirst, Requests
  <2>. QED
    BY <1>1, <2>1, FinishedStays, TransactionsStay DEF KeysRecorded
<1>2. ASSUME NEW p \in Pays, attempts[p] = None, attempts'[p] # None
      PROVE  /\ request[p].tx \in Txs /\ UNCHANGED request
             /\ transactions'[request[p].tx] # None
             /\ \A t \in Txs : transactions[t] = None /\ transactions'[t] # None =>
                  t = request[p].tx /\ transactions'[t].key = request[p].key
  <2>1. PICK status \in {"COMPLETED", "PAYMENT_FAILED"} : transactions' = Upserted(p, status)
    BY <1>2, AttemptRecorded
  <2>2. /\ UNCHANGED request /\ request[p] \in Payment /\ request[p].tx \in Txs
        /\ request[p].key \in Keys \cup {EmptyKey} /\ request[p].decision \in Auths
    BY <1>0, <1>2, AttemptRecorded DEF Paying, Payment
  <2>3. CASE transactions[request[p].tx] = None
    <3>. DEFINE new == [status |-> status, key |-> request[p].key,
                        decision |-> request[p].decision]
    <3>1. new \in Transaction /\ new.key = request[p].key
      BY <2>2 DEF Transaction
    <3>2. transactions' = [transactions EXCEPT ![request[p].tx] = new]
      BY <2>1, <2>3 DEF Upserted
    <3>. HIDE DEF new
    <3>. QED
      BY <1>0, <2>2, <3>1, <3>2
  <2>4. CASE transactions[request[p].tx] # None
    BY <1>0, <2>1, <2>2, <2>4, TransactionsStay DEF Upserted
  <2>. QED
    BY <2>2, <2>3, <2>4
<1>3. \A p \in Pays : attempts'[p] # None => transactions'[request'[p].tx] # None
  BY <1>1, <1>2
<1>4. ASSUME NEW t \in Txs, transactions'[t] # None
      PROVE  \E p \in Pays : /\ attempts'[p] # None
                             /\ request'[p].tx = t /\ request'[p].key = transactions'[t].key
  <2>1. CASE transactions[t] # None
    <3>1. PICK p \in Pays : /\ attempts[p] # None
                            /\ request[p].tx = t /\ request[p].key = transactions[t].key
      BY <2>1 DEF KeysRecorded
    <3>. QED
      BY <1>1, <3>1
  <2>2. CASE transactions[t] = None
    <3>1. PICK p \in Pays : attempts[p] = None /\ attempts'[p] # None
      BY <1>4, <2>2, TransactionRecorded
    <3>. QED
      BY <1>2, <1>4, <2>2, <3>1
  <2>. QED
    BY <2>1, <2>2
<1>5. ASSUME NEW p \in Pays, NEW p1 \in known'[p]
      PROVE  /\ attempts'[p1] # None
             /\ PastCheck(p)' /\ request'[p].key # EmptyKey =>
                  transactions'[request'[p1].tx].key # request'[p].key
  <2>1. CASE \E payment \in Payments : CheckIdempotency(p, payment)
    <3>1. PICK payment \in Payments : CheckIdempotency(p, payment)
      BY <2>1
    <3>2. /\ pc[p] = "idle" /\ request' = [request EXCEPT ![p] = payment]
          /\ known' = [known EXCEPT ![p] = {p2 \in Pays : attempts[p2] # None}]
          /\ pc' = [pc EXCEPT ![p] = IF KeyUsed(payment.key) THEN "done" ELSE "decision"]
          /\ UNCHANGED attempts
      BY <3>1 DEF CheckIdempotency, Goto, Finish, tables
    <3>3. p1 \in Pays /\ attempts[p1] # None
      BY <1>0, <3>2
    <3>4. attempts[p] = None /\ request'[p] = payment
      BY <3>2 DEF DecidedFirst, Typed, TypeOK, Requests
    <3>5. PastCheck(p)' => ~ KeyUsed(payment.key)
      BY <3>2, <3>4 DEF PastCheck, Paying, Typed, TypeOK, Requests
    <3>. QED
      BY <1>1, <3>3, <3>4, <3>5 DEF KeyUsed, KeyTaken
  <2>2. CASE ~ \E payment \in Payments : CheckIdempotency(p, payment)
    <3>1. known'[p] = known[p] /\ (PastCheck(p)' => PastCheck(p) /\ request'[p] = request[p])
      BY <2>2, OnlyCheckLooks
    <3>2. /\ p1 \in Pays /\ attempts[p1] # None
          /\ PastCheck(p) /\ request[p].key # EmptyKey =>
               transactions[request[p1].tx].key # request[p].key
      BY <1>0, <3>1 DEF KeysRecorded
    <3>. QED
      BY <1>1, <3>1, <3>2
  <2>. QED
    BY <2>1, <2>2
<1>. QED
  BY <1>3, <1>4, <1>5 DEF KeysRecorded

(* It is an invariant.                                                      *)
LEMMA KeysRecordedAlways == Spec => []KeysRecorded
<1>1. Init => KeysRecorded
  BY DEF Init, KeysRecorded
<1>2. Typed /\ DecidedFirst /\ KeysRecorded /\ [Next]_vars => KeysRecorded'
  BY KeysRecordedKept
<1>. QED
  BY <1>1, <1>2, TypedAlways, PTL DEF Spec

(* A client that pays a transaction under one key only, and retries once the*)
(* answer is recorded, is never charged by a retry.                         *)
THEOREM GatewaySoleKeyRetrySafe == Spec => []SoleKeyRetrySafe
<1>1. Typed /\ DecidedFirst /\ KeysRecorded => SoleKeyRetrySafe
  <2>1. SUFFICES ASSUME Typed, DecidedFirst, KeysRecorded, NEW p1 \in Pays, NEW p2 \in Pays,
                        SequentialRetry(p1, p2), attempts[p2] # None
                 PROVE  \E p3 \in Pays : /\ attempts[p3] # None
                                         /\ request[p3].tx = request[p2].tx
                                         /\ request[p3].key # request[p2].key
    BY DEF SoleKeyRetrySafe
  <2>2. /\ transactions[request[p1].tx] # None /\ request[p1].tx = request[p2].tx
        /\ transactions[request[p1].tx].key # request[p2].key
    BY <2>1 DEF KeysRecorded, SequentialRetry, PastCheck
  <2>3. request[p2].tx \in Txs
    BY <2>1 DEF Typed, Submitted, DecidedFirst, Payment
  <2>. QED
    BY <2>1, <2>2, <2>3 DEF KeysRecorded
<1>. QED
  BY <1>1, TypedAlways, KeysRecordedAlways, PTL

(* The status of a recorded transaction is only overwritten by a payment    *)
(* that raced the recorded one or came under another key.                   *)
THEOREM GatewayStatusOverwrittenByRace == Spec => StatusOverwrittenByRace
<1>1. ASSUME Typed, DecidedFirst, KeysRecorded, [Next]_vars,
             NEW t \in Txs, transactions[t] # None, transactions'[t] # transactions[t]
      PROVE  \E p1, p2 \in Pays :
               /\ attempts[p1] # None /\ request[p1].tx = t
               /\ attempts[p2] = None /\ attempts'[p2] # None /\ request[p2].tx = t
               /\ ~ SequentialRetry(p1, p2)
  <2>1. PICK p2 \in Pays : attempts[p2] = None /\ attempts'[p2] # None
    BY <1>1, TransactionRecorded
  <2>2. /\ pc[p2] \in Paying
        /\ \E status \in {"COMPLETED", "PAYMENT_FAILED"} : transactions' = Upserted(p2, status)
    BY <1>1, <2>1, AttemptRecorded
  <2>3. request[p2].tx = t
    BY <1>1, <2>2 DEF Upserted, Typed, TypeOK
  <2>4. PICK p1 \in Pays : /\ attempts[p1] # None
                           /\ request[p1].tx = t /\ request[p1].key = transactions[t].key
    BY <1>1 DEF KeysRecorded
  <2>5. ~ SequentialRetry(p1, p2)
    BY <1>1, <2>2, <2>4 DEF KeysRecorded, PastCheck, SequentialRetry
  <2>. QED
    BY <2>1, <2>3, <2>4, <2>5
<1>2. Typed /\ DecidedFirst /\ KeysRecorded /\ [Next]_vars =>
        [\A t \in Txs :
           /\ transactions[t] # None /\ transactions'[t] # transactions[t]
           /\ transactions'[t].status \notin TRANSITIONS(transactions[t].status)
           => \E p1, p2 \in Pays :
                /\ attempts[p1] # None /\ request[p1].tx = t
                /\ attempts[p2] = None /\ attempts'[p2] # None /\ request[p2].tx = t
                /\ ~ SequentialRetry(p1, p2)]_vars
  BY <1>1
<1>. QED
  BY <1>2, TypedAlways, KeysRecordedAlways, PTL DEF Spec, StatusOverwrittenByRace

-------------------------------------------------------------------------------
(* Stock *)

(* A request that was entered keeps what it was submitted with.             *)
LEMMA RequestStays ==
  ASSUME Typed, [Next]_vars, NEW q \in Requests, pc[q] # "idle"
  PROVE  request'[q] = request[q]
<1>1. DOMAIN request = Requests
  BY DEF Typed, TypeOK
<1>2. ASSUME NEW a \in Auths, NEW order \in Orders, GetContract(a, order)
      PROVE  request'[q] = request[q]
  BY <1>1, <1>2 DEF GetContract
<1>3. ASSUME NEW p \in Pays, NEW payment \in Payments, CheckIdempotency(p, payment)
      PROVE  request'[q] = request[q]
  BY <1>1, <1>3 DEF CheckIdempotency
<1>4. ASSUME \/ \E a \in Auths : AuthorizeStep(a)
             \/ \E p \in Pays : PayStep(p)
             \/ \E e \in owed : AppendEvent(e)
             \/ UserStep \/ Restart \/ Tick \/ UNCHANGED vars
      PROVE  UNCHANGED request
  BY <1>4 DEF AuthorizeStep, GetProduct, ReadCommitted, Evaluate, Reserve, PersistDecision,
    CreateStepUpChallenge, PayStep, LoadDecision, GetReservationByTx, ReleaseBudget,
    CommitBudget, RecordSuccessfulPayment, RecordFailedPayment, RecordRefused,
    AppendEvent, UserStep, CreateContract, RevokeContract, ResolveChallenge, Restart,
    Tick, vars, locals
<1>. QED
  BY <1>2, <1>3, <1>4 DEF Next

(* So what was sold stays sold, at the quantity it was ordered in.          *)
LEMMA SalesStay ==
  ASSUME Typed, DecidedFirst, [Next]_vars, NEW p \in Pays, attempts[p] = "SUCCESS"
  PROVE  attempts'[p] = "SUCCESS" /\ OrderOf(p)' = OrderOf(p)
<1>1. /\ pc[p] = "done" /\ p \in Requests
      /\ request[p].decision \in Requests /\ pc[request[p].decision] # "idle"
  BY AllowedOrder, GatewayAssumption DEF DecidedFirst, AttemptStatuses, Decided, Requests
<1>2. attempts'[p] = "SUCCESS" /\ request'[p] = request[p]
  BY <1>1, FinishedStays
<1>3. request'[request[p].decision] = request[request[p].decision]
  BY <1>1, RequestStays
<1>. QED
  BY <1>2, <1>3 DEF OrderOf

(* The units of a step that charges nobody are those there were.            *)
LEMMA NothingSold ==
  ASSUME Typed, DecidedFirst, [Next]_vars, NEW s, NEW sign,
         \A p \in Pays : attempts'[p] = "SUCCESS" => attempts[p] = "SUCCESS"
  PROVE  Units(s, sign)' = Units(s, sign)
<1>. DEFINE sold == {x \in Pays : attempts[x] = "SUCCESS" /\ OrderOf(x).sku = s}
<1>1. sold' = sold
  BY SalesStay
<1>2. \A x \in sold : OrderOf(x)' = OrderOf(x)
  BY SalesStay
<1>3. Units(s, sign) = UNION {{x} \X (1 .. sign * OrderOf(x).qty) : x \in sold}
  BY DEF Units
<1>4. Units(s, sign)' = UNION {{x} \X (1 .. sign * OrderOf(x)'.qty) : x \in sold'}
  BY DEF Units
<1>. HIDE DEF sold
<1>5. {{x} \X (1 .. sign * OrderOf(x)'.qty) : x \in sold'}
        = {{x} \X (1 .. sign * OrderOf(x).qty) : x \in sold}
  BY <1>1, <1>2
<1>. QED
  BY <1>3, <1>4, <1>5

(* A charge adds the units of its order to those of its product.            *)
LEMMA UnitsSold ==
  ASSUME Typed, DecidedFirst, [Next]_vars, NEW s, NEW sign,
         NEW p \in Pays, attempts[p] # "SUCCESS", attempts'[p] = "SUCCESS",
         OrderOf(p)' = OrderOf(p),
         \A x \in Pays \ {p} : attempts'[x] = attempts[x]
  PROVE  Units(s, sign)' = Units(s, sign) \cup
           (IF OrderOf(p).sku = s THEN {p} \X (1 .. sign * OrderOf(p).qty) ELSE {})
<1>. DEFINE sold == {x \in Pays : attempts[x] = "SUCCESS" /\ OrderOf(x).sku = s}
            U(x) == {x} \X (1 .. sign * OrderOf(x).qty)
<1>1. sold' = sold \cup (IF OrderOf(p).sku = s THEN {p} ELSE {})
  BY SalesStay
<1>2. \A x \in sold' : OrderOf(x)' = OrderOf(x)
  BY SalesStay
<1>3. Units(s, sign) = UNION {U(x) : x \in sold}
  BY DEF Units
<1>4. Units(s, sign)' = UNION {{x} \X (1 .. sign * OrderOf(x)'.qty) : x \in sold'}
  BY DEF Units
<1>. HIDE DEF sold
<1>5. {{x} \X (1 .. sign * OrderOf(x)'.qty) : x \in sold'} = {U(x) : x \in sold'}
  BY <1>2
<1>6. CASE OrderOf(p).sku = s
  <2>1. {U(x) : x \in sold'} = {U(x) : x \in sold} \cup {U(p)}
    <3>. HIDE DEF U
    <3>. QED
      BY <1>1, <1>6
  <2>. HIDE DEF U
  <2>2. Units(s, sign)' = Units(s, sign) \cup U(p)
    BY <1>3, <1>4, <1>5, <2>1
  <2>. QED
    BY <1>6, <2>2 DEF U
<1>7. CASE OrderOf(p).sku # s
  <2>1. {U(x) : x \in sold'} = {U(x) : x \in sold}
    <3>. HIDE DEF U
    <3>. QED
      BY <1>1, <1>7
  <2>. QED
    BY <1>3, <1>4, <1>5, <1>7, <2>1
<1>. QED
  BY <1>6, <1>7

(* The units of one order are as many as its quantity says, none when it    *)
(* says zero or less.                                                       *)
LEMMA UnitsOfOrder ==
  ASSUME NEW p, NEW n \in Int
  PROVE  /\ IsFiniteSet({p} \X (1 .. n))
         /\ Cardinality({p} \X (1 .. n)) = IF n > 0 THEN n ELSE 0
<1>1. IsFiniteSet({p}) /\ Cardinality({p}) = 1
  BY FS_Singleton
<1>2. IsFiniteSet(1 .. n) /\ Cardinality(1 .. n) = IF 1 > n THEN 0 ELSE n - 1 + 1
  BY FS_Interval
<1>3. /\ IsFiniteSet({p} \X (1 .. n))
      /\ Cardinality({p} \X (1 .. n)) = Cardinality({p}) * Cardinality(1 .. n)
  BY <1>1, <1>2, FS_Product
<1>. DEFINE k == IF n > 0 THEN n ELSE 0
<1>4. Cardinality(1 .. n) = k /\ k \in Int
  BY <1>2
<1>. HIDE DEF k
<1>5. 1 * k = k
  BY <1>4
<1>. QED
  BY <1>1, <1>3, <1>4, <1>5 DEF k

(* They are counted once.                                                   *)
LEMMA SoldCount ==
  ASSUME NEW U, NEW p, NEW n \in Int, IsFiniteSet(U), \A u \in U : u[1] # p
  PROVE  /\ IsFiniteSet(U \cup ({p} \X (1 .. n)))
         /\ Cardinality(U \cup ({p} \X (1 .. n)))
              = Cardinality(U) + (IF n > 0 THEN n ELSE 0)
<1>. DEFINE V == {p} \X (1 .. n)
<1>1. IsFiniteSet(V) /\ Cardinality(V) = IF n > 0 THEN n ELSE 0
  BY UnitsOfOrder
<1>2. U \cap V = {}
  OBVIOUS
<1>3. Cardinality(U) \in Nat /\ Cardinality(V) \in Nat
  BY <1>1, FS_CardinalityType
<1>. HIDE DEF V
<1>4. /\ IsFiniteSet(U \cup V)
      /\ Cardinality(U \cup V) = Cardinality(U) + Cardinality(V) - Cardinality(U \cap V)
  BY <1>1, FS_Union, Zenon
<1>5. Cardinality(U \cap V) = 0
  BY <1>2, FS_EmptySet
<1>. DEFINE j == Cardinality(U)
            k == Cardinality(V)
            u == Cardinality(U \cup V)
<1>6. j \in Nat /\ k \in Nat /\ u = j + k - 0
  BY <1>3, <1>4, <1>5
<1>. HIDE DEF j, k, u
<1>7. u = j + k
  BY <1>6
<1>. QED
  BY <1>1, <1>4, <1>7 DEF j, k, u, V

(* The arithmetic of a sale: what is left when a quantity, positive or      *)
(* negative, is taken from a stock that follows the sales so far.           *)
LEMMA SaleArithmetic ==
  ASSUME NEW seed \in Nat, NEW sold \in Nat, NEW back \in Nat, NEW left \in Nat,
         NEW qty \in Int,
         IF sold <= seed THEN left = seed - sold + back ELSE left \in 0 .. back,
         NEW sold2 \in Nat, sold2 = sold + (IF qty > 0 THEN qty ELSE 0),
         NEW back2 \in Nat, back2 = back + (IF (-1) * qty > 0 THEN (-1) * qty ELSE 0),
         NEW left2, left2 = IF qty <= left THEN left - qty ELSE 0
  PROVE  IF sold2 <= seed THEN left2 = seed - sold2 + back2 ELSE left2 \in 0 .. back2
OBVIOUS

(* Sales, seen as a step of one product.                                    *)
LEMMA StockKept ==
  ASSUME Typed, DecidedFirst, SalesFinite, StockFollowsSales, [Next]_vars
  PROVE  SalesFinite' /\ StockFollowsSales'
<1>1. CASE \E p \in Pays : RecordSuccessfulPayment(p)
  <2>1. PICK p \in Pays : RecordSuccessfulPayment(p)
    BY <1>1
  <2>. DEFINE order == OrderOf(p)
  <2>2. /\ pc[p] \in Paying
        /\ attempts' = [attempts EXCEPT ![p] = "SUCCESS"]
        /\ stock' = [s \in Skus |-> IF s = order.sku THEN Deducted(s, order.qty) ELSE stock[s]]
        /\ UNCHANGED <<request, restarts>>
    BY <2>1 DEF RecordSuccessfulPayment, Paying, OrderOf, locals
  <2>3. /\ attempts[p] # "SUCCESS" /\ attempts'[p] = "SUCCESS"
        /\ \A x \in Pays \ {p} : attempts'[x] = attempts[x]
    <3>1. attempts[p] = None
      BY <2>2 DEF DecidedFirst, Paying
    <3>. QED
      BY <2>2, <3>1, GatewayAssumption DEF Typed, TypeOK, AttemptStatuses
  <2>4. order \in Order /\ order.qty \in Int
    BY <2>2, AllowedOrder DEF OrderOf, Order
  <2>5. OrderOf(p)' = OrderOf(p)
    BY <2>2 DEF OrderOf
  <2>. HIDE DEF order
  <2>6. ASSUME NEW s \in Skus
        PROVE  /\ IsFiniteSet(Units(s, 1)') /\ IsFiniteSet(Units(s, -1)')
               /\ restarts' = 0 =>
                    IF Cardinality(Units(s, 1)') <= SeedStock[s]
                      THEN stock'[s] = SeedStock[s] - Cardinality(Units(s, 1)')
                                         + Cardinality(Units(s, -1)')
                      ELSE stock'[s] \in 0 .. Cardinality(Units(s, -1)')
    <3>1. ASSUME NEW sign
          PROVE  Units(s, sign)' = Units(s, sign) \cup
                   (IF order.sku = s THEN {p} \X (1 .. sign * order.qty) ELSE {})
      BY <2>3, <2>5, UnitsSold DEF order
    <3>2. IsFiniteSet(Units(s, 1)) /\ IsFiniteSet(Units(s, -1))
      BY DEF SalesFinite
    <3>3. CASE order.sku # s
      <4>1. Units(s, 1)' = Units(s, 1) /\ Units(s, -1)' = Units(s, -1)
        BY <3>1, <3>3
      <4>2. stock'[s] = stock[s]
        BY <2>2, <3>3
      <4>. QED
        BY <2>2, <3>2, <4>1, <4>2 DEF StockFollowsSales
    <3>4. CASE order.sku = s
      <4>1. \A sign : \A u \in Units(s, sign) : u[1] # p
        BY <2>3 DEF Units
      <4>. DEFINE q == order.qty
                  sold == Cardinality(Units(s, 1))
                  back == Cardinality(Units(s, -1))
                  sold2 == Cardinality(Units(s, 1)')
                  back2 == Cardinality(Units(s, -1)')
      <4>2. Units(s, 1)' = Units(s, 1) \cup ({p} \X (1 .. 1 * q))
        BY <3>1, <3>4
      <4>3. Units(s, -1)' = Units(s, -1) \cup ({p} \X (1 .. (-1) * q))
        BY <3>1, <3>4
      <4>4. 1 * q = q /\ q \in Int /\ (-1) * q \in Int
        BY <2>4
      <4>5. IsFiniteSet(Units(s, 1)') /\ sold2 = sold + (IF q > 0 THEN q ELSE 0)
        <5>1. Units(s, 1)' = Units(s, 1) \cup ({p} \X (1 .. q))
          BY <4>2, <4>4
        <5>. HIDE DEF q
        <5>2. /\ IsFiniteSet(Units(s, 1) \cup ({p} \X (1 .. q)))
              /\ Cardinality(Units(s, 1) \cup ({p} \X (1 .. q)))
                   = Cardinality(Units(s, 1)) + (IF q > 0 THEN q ELSE 0)
          BY <3>2, <4>1, <4>4, SoldCount
        <5>. QED
          BY <5>1, <5>2
      <4>6. IsFiniteSet(Units(s, -1)')
              /\ back2 = back + (IF (-1) * q > 0 THEN (-1) * q ELSE 0)
        <5>. DEFINE n == (-1) * q
        <5>1. Units(s, -1)' = Units(s, -1) \cup ({p} \X (1 .. n)) /\ n \in Int
          BY <4>3, <4>4
        <5>. HIDE DEF n
        <5>2. /\ IsFiniteSet(Units(s, -1) \cup ({p} \X (1 .. n)))
              /\ Cardinality(Units(s, -1) \cup ({p} \X (1 .. n)))
                   = Cardinality(Units(s, -1)) + (IF n > 0 THEN n ELSE 0)
          BY <3>2, <4>1, <5>1, SoldCount
        <5>3. IsFiniteSet(Units(s, -1)') /\ back2 = back + (IF n > 0 THEN n ELSE 0)
          BY <5>1, <5>2
        <5>. QED
          BY <5>3 DEF n
      <4>7. /\ sold \in Nat /\ back \in Nat /\ sold2 \in Nat /\ back2 \in Nat
            /\ SeedStock[s] \in Nat /\ stock[s] \in Nat
        BY <3>2, <4>5, <4>6, FS_CardinalityType, GatewayAssumption DEF Typed, TypeOK
      <4>8. stock'[s] = IF q <= stock[s] THEN stock[s] - q ELSE 0
        BY <2>2, <3>4 DEF Deducted
      <4>9. restarts' = 0 =>
              IF sold <= SeedStock[s] THEN stock[s] = SeedStock[s] - sold + back
                                      ELSE stock[s] \in 0 .. back
        BY <2>2 DEF StockFollowsSales
      <4>. HIDE DEF q, sold, back, sold2, back2
      <4>10. restarts' = 0 =>
               IF sold2 <= SeedStock[s] THEN stock'[s] = SeedStock[s] - sold2 + back2
                                        ELSE stock'[s] \in 0 .. back2
        BY <4>4, <4>5, <4>6, <4>7, <4>8, <4>9, SaleArithmetic
      <4>. QED
        BY <4>5, <4>6, <4>10 DEF sold2, back2
    <3>. QED
      BY <3>3, <3>4
  <2>. QED
    BY <2>6 DEF SalesFinite, StockFollowsSales
<1>2. CASE ~ \E p \in Pays : RecordSuccessfulPayment(p)
  <2>1. \A p \in Pays : attempts'[p] = "SUCCESS" => attempts[p] = "SUCCESS"
    <3>1. ASSUME NEW p \in Pays, RecordFailedPayment(p)
          PROVE  \A x \in Pays : attempts'[x] = "SUCCESS" => attempts[x] = "SUCCESS"
      BY <3>1 DEF RecordFailedPayment, Typed, TypeOK
    <3>. QED
      BY <1>2, <3>1 DEF Next, AuthorizeStep, PayStep, UserStep, GetContract, GetProduct,
        ReadCommitted, Evaluate, Reserve, PersistDecision, CreateStepUpChallenge,
        CheckIdempotency, LoadDecision, GetReservationByTx, ReleaseBudget, CommitBudget,
        RecordRefused, CreateContract, RevokeContract, ResolveChallenge, AppendEvent,
        Restart, Tick, vars, tables
  <2>2. \A s \in Skus : Units(s, 1)' = Units(s, 1) /\ Units(s, -1)' = Units(s, -1)
    BY <2>1, NothingSold
  <2>3. restarts' = 0 => restarts = 0 /\ stock' = stock
    <3>1. ASSUME Restart
          PROVE  restarts' # 0
      BY <3>1 DEF Restart, Typed, TypeOK
    <3>. QED
      BY <1>2, <3>1 DEF Next, AuthorizeStep, PayStep, UserStep, GetContract, GetProduct,
        ReadCommitted, Evaluate, Reserve, PersistDecision, CreateStepUpChallenge,
        CheckIdempotency, LoadDecision, GetReservationByTx, ReleaseBudget, CommitBudget,
        RecordFailedPayment, RecordRefused, CreateContract, RevokeContract,
        ResolveChallenge, AppendEvent, Tick, vars, tables
  <2>. QED
    BY <2>2, <2>3 DEF SalesFinite, StockFollowsSales
<1>. QED
  BY <1>1, <1>2

(* Until a restart reseeds the catalog, the stock is what was seeded less   *)
(* what was sold and plus what negative quantities put back, for any number *)
(* of payments racing over one product.                                     *)
THEOREM GatewayStockFollowsSales == Spec => []StockFollowsSales
<1>1. Init => SalesFinite /\ StockFollowsSales
  <2>1. SUFFICES ASSUME Init PROVE SalesFinite /\ StockFollowsSales
    OBVIOUS
  <2>2. \A s, sign : Units(s, sign) = {}
    BY <2>1, GatewayAssumption DEF Init, Units, AttemptStatuses
  <2>3. stock = SeedStock /\ \A s \in Skus : SeedStock[s] \in Nat
    BY <2>1, GatewayAssumption DEF Init
  <2>4. Cardinality({}) = 0 /\ IsFiniteSet({})
    BY FS_EmptySet
  <2>. QED
    BY <2>2, <2>3, <2>4 DEF SalesFinite, StockFollowsSales
<1>2. Typed /\ DecidedFirst /\ SalesFinite /\ StockFollowsSales /\ [Next]_vars
        => SalesFinite' /\ StockFollowsSales'
  BY StockKept
<1>. QED
  BY <1>1, <1>2, TypedAlways, PTL DEF Spec

-------------------------------------------------------------------------------
(* Revocation *)

(* A request that arrived after contract c was revoked, at whatever step of *)
(* its handler it is; n is the number of restarts at that moment, after     *)
(* which a contract of the demo data may have been seeded again.            *)
Reseeded(c, n) == c \in SeedContracts /\ restarts # n
Barred(a, c, n) ==
  /\ contracts[c] # None /\ restarts >= n
  /\ Reseeded(c, n) \/
     /\ contracts[c].revoked
     /\ \/ pc[a] = "idle"
        \/ request[a].contract # c
        \/ pc[a] \in {"product", "budget", "evaluate"} /\ view[a].contract.revoked
        \/ pc[a] = "persist" /\ view[a].outcome # "ALLOW"
        \/ pc[a] \in Decided /\ decision[a] # "ALLOW"

(* A contract is never deleted, and stays revoked unless it is seeded again.*)
LEMMA RevocationStays ==
  ASSUME Typed, [Next]_vars, NEW c \in Contracts, NEW n \in 0 .. MaxRestarts,
         contracts[c] # None, restarts >= n
  PROVE  /\ contracts'[c] # None /\ restarts' >= n
         /\ Reseeded(c, n) => Reseeded(c, n)'
         /\ contracts[c].revoked => Reseeded(c, n)' \/ contracts'[c].revoked
<1>0. /\ contracts \in [Contracts -> Contract \cup {None}] /\ contracts[c] \in Contract
      /\ \A row \in Contract : row # None
      /\ restarts \in Nat /\ n \in Nat
  BY GatewayAssumption DEF Typed, TypeOK
<1>1. ASSUME NEW d \in Contracts, NEW contract \in [revoked: BOOLEAN, expires: Expiries],
             CreateContract(d, contract)
      PROVE  contracts'[c] = contracts[c] /\ UNCHANGED restarts
  BY <1>0, <1>1 DEF CreateContract
<1>2. ASSUME NEW d \in Contracts, RevokeContract(d)
      PROVE  /\ contracts'[c] = contracts[c] \/ contracts'[c] = [contracts[c] EXCEPT !.revoked = TRUE]
             /\ UNCHANGED restarts
  BY <1>0, <1>2 DEF RevokeContract
<1>3. [contracts[c] EXCEPT !.revoked = TRUE] \in Contract
  BY <1>0 DEF Contract
<1>4. [contracts[c] EXCEPT !.revoked = TRUE].revoked
  BY <1>0 DEF Contract
<1>5. ASSUME Restart
      PROVE  /\ contracts'[c] # None /\ restarts' = restarts + 1
             /\ c \notin SeedContracts => contracts'[c] = contracts[c]
  <2>1. SeedRow(c, clock) # None
    <3>1. clock + Validity \in Nat
      BY GatewayAssumption, LedgerAssumption
      DEF Typed, TypeOK, Ledger!TypeOK, Ledger!Times, Ledger!BoundsAssumption
    <3>2. SeedRow(c, clock) \in Contract
      BY <3>1 DEF SeedRow, Contract
    <3>. QED
      BY <1>0, <3>2
  <2>. QED
    BY <1>0, <1>5, <2>1 DEF Restart
<1>6. ASSUME \/ \E a \in Auths : (\E order \in Orders : GetContract(a, order)) \/ AuthorizeStep(a)
             \/ \E p \in Pays : \/ \E payment \in Payments : CheckIdempotency(p, payment)
                                \/ PayStep(p)
             \/ \E e \in owed : AppendEvent(e)
             \/ \E a \in Auths, verdict \in {"APPROVED", "REJECTED"} : ResolveChallenge(a, verdict)
             \/ Tick \/ UNCHANGED vars
      PROVE  UNCHANGED <<contracts, restarts>>
  BY <1>6 DEF AuthorizeStep, PayStep, GetContract, GetProduct, ReadCommitted,
    Evaluate, Reserve, PersistDecision, CreateStepUpChallenge, CheckIdempotency,
    LoadDecision, GetReservationByTx, ReleaseBudget, CommitBudget,
    RecordSuccessfulPayment, RecordFailedPayment, RecordRefused, ResolveChallenge,
    AppendEvent, Tick, vars, tables
<1>7. CASE Restart
  <2>1. contracts'[c] # None /\ restarts' = restarts + 1
    BY <1>5, <1>7
  <2>2. restarts' >= n /\ restarts' # n
    BY <1>0, <2>1
  <2>3. CASE c \in SeedContracts
    BY <2>1, <2>2, <2>3 DEF Reseeded
  <2>4. CASE c \notin SeedContracts
    BY <1>5, <1>7, <2>1, <2>2, <2>4 DEF Reseeded
  <2>. QED
    BY <2>3, <2>4
<1>8. CASE /\ restarts' = restarts
           /\ \/ contracts'[c] = contracts[c]
              \/ contracts'[c] = [contracts[c] EXCEPT !.revoked = TRUE]
  <2>1. contracts'[c] # None
    BY <1>0, <1>3, <1>8
  <2>2. contracts[c].revoked => contracts'[c].revoked
    BY <1>4, <1>8
  <2>3. restarts' = restarts
    BY <1>8
  <2>4. Reseeded(c, n)' = Reseeded(c, n)
    BY <2>3 DEF Reseeded
  <2>5. restarts' >= n
    BY <2>3
  <2>. QED
    BY <2>1, <2>2, <2>4, <2>5, Zenon
<1>. QED
  BY <1>1, <1>2, <1>6, <1>7, <1>8 DEF Next, UserStep

(* A request that is barred by a revocation stays barred.                   *)
LEMMA BarredKept ==
  ASSUME Typed, DecidedFirst, [Next]_vars,
         NEW a \in Auths, NEW c \in Contracts, NEW n \in 0 .. MaxRestarts, Barred(a, c, n)
  PROVE  Barred(a, c, n)'
<1>. DEFINE Stage ==
       \/ pc[a] = "idle"
       \/ request[a].contract # c
       \/ pc[a] \in {"product", "budget", "evaluate"} /\ view[a].contract.revoked
       \/ pc[a] = "persist" /\ view[a].outcome # "ALLOW"
       \/ pc[a] \in Decided /\ decision[a] # "ALLOW"
<1>0. /\ pc \in [Requests -> Labels] /\ DOMAIN request = Requests
      /\ decision \in [Auths -> Decisions \cup {None}] /\ view \in [Auths -> View]
      /\ a \in Requests /\ a \notin Pays /\ None # "ALLOW"
  BY GatewayAssumption DEF Typed, TypeOK, Requests, Decisions
<1>1. /\ contracts'[c] # None /\ restarts' >= n
      /\ Reseeded(c, n) => Reseeded(c, n)'
      /\ contracts[c].revoked => Reseeded(c, n)' \/ contracts'[c].revoked
  BY RevocationStays DEF Barred
<1>2. SUFFICES ASSUME contracts[c].revoked, Stage PROVE Stage'
  BY <1>1 DEF Barred
<1>3. decision[a] # None => pc[a] \in Decided
  BY DEF DecidedFirst
<1>4. ASSUME pc'[a] = pc[a], view'[a] = view[a], decision'[a] = decision[a],
             request'[a] = request[a]
      PROVE  Stage'
  BY <1>2, <1>4
<1>5. ASSUME NEW b \in Auths, b # a,
             (\E order \in Orders : GetContract(b, order)) \/ AuthorizeStep(b)
      PROVE  Stage'
  <2>1. /\ \E l \in Labels : pc' = [pc EXCEPT ![b] = l]
        /\ UNCHANGED request \/ \E order : request' = [request EXCEPT ![b] = order]
        /\ UNCHANGED decision \/ \E d : decision' = [decision EXCEPT ![b] = d]
        /\ view'[a] = view[a]
    BY <1>0, <1>5 DEF GetContract, AuthorizeStep, GetProduct, ReadCommitted, Evaluate, Reserve,
      PersistDecision, CreateStepUpChallenge, Goto, Finish, tables, locals, Labels
  <2>. QED
    BY <1>0, <1>4, <1>5, <2>1
<1>6. ASSUME NEW order \in Orders, GetContract(a, order)
      PROVE  Stage'
  <2>1. /\ pc' = [pc EXCEPT ![a] = IF contracts[order.contract] = None
                                     THEN "persist" ELSE "product"]
        /\ request'[a] = order
        /\ view'[a].contract = contracts[order.contract]
    BY <1>0, <1>6 DEF GetContract, Goto, View
  <2>2. order.contract = c => contracts[order.contract] # None
    BY DEF Barred
  <2>. QED
    BY <1>0, <1>2, <2>1, <2>2
<1>7. ASSUME AuthorizeStep(a)
      PROVE  Stage'
  <2>1. request'[a] = request[a] /\ pc[a] # "idle"
    BY <1>7 DEF AuthorizeStep, GetProduct, ReadCommitted, Evaluate, Reserve,
      PersistDecision, CreateStepUpChallenge, locals
  <2>2. CASE request[a].contract # c
    BY <2>1, <2>2
  <2>3. CASE request[a].contract = c
    <3>1. CASE pc[a] \in {"product", "budget"} /\ view[a].contract.revoked
      BY <1>0, <1>7, <3>1 DEF AuthorizeStep, GetProduct, ReadCommitted, Evaluate, Reserve,
        PersistDecision, CreateStepUpChallenge, Goto, View
    <3>2. CASE pc[a] = "evaluate" /\ view[a].contract.revoked
      <4>1. Evaluate(a)
        BY <1>7, <3>2 DEF AuthorizeStep, GetProduct, ReadCommitted, Reserve,
          PersistDecision, CreateStepUpChallenge
      <4>2. Denied(a)
        BY <3>2 DEF Denied
      <4>3. /\ view' = [view EXCEPT ![a] = [BlankView EXCEPT !.outcome = "DENY"]]
            /\ pc' = [pc EXCEPT ![a] = "persist"]
        BY <4>1, <4>2 DEF Evaluate, Goto
      <4>. QED
        BY <1>0, <4>3 DEF BlankView
    <3>3. CASE pc[a] = "persist" /\ view[a].outcome # "ALLOW"
      <4>1. PersistDecision(a)
        BY <1>7, <3>3 DEF AuthorizeStep, GetProduct, ReadCommitted, Evaluate, Reserve,
          CreateStepUpChallenge
      <4>2. decision'[a] # "ALLOW" /\ pc'[a] \in Decided
        BY <1>0, <3>3, <4>1 DEF PersistDecision, Goto, Finish, Decided
      <4>. QED
        BY <4>2
    <3>4. CASE pc[a] \in Decided /\ decision[a] # "ALLOW"
      <4>1. CreateStepUpChallenge(a)
        BY <1>7, <3>4 DEF AuthorizeStep, GetProduct, ReadCommitted, Evaluate, Reserve,
          PersistDecision, Decided
      <4>. QED
        BY <1>0, <3>4, <4>1 DEF CreateStepUpChallenge, Finish, Decided
    <3>. QED
      BY <1>2, <2>1, <2>3, <3>1, <3>2, <3>3, <3>4
  <2>. QED
    BY <2>2, <2>3
<1>8. ASSUME NEW p \in Pays,
             (\E payment \in Payments : CheckIdempotency(p, payment)) \/ PayStep(p)
      PROVE  Stage'
  <2>1. /\ \E l \in Labels : pc' = [pc EXCEPT ![p] = l]
        /\ UNCHANGED request \/ \E payment : request' = [request EXCEPT ![p] = payment]
        /\ UNCHANGED <<decision, view>>
    BY <1>8 DEF CheckIdempotency, PayStep, LoadDecision, GetReservationByTx, ReleaseBudget,
      CommitBudget, RecordSuccessfulPayment, RecordFailedPayment, RecordRefused,
      Goto, Finish, tables, locals, Labels
  <2>. QED
    BY <1>0, <1>4, <2>1
<1>9. ASSUME Restart
      PROVE  Stage'
  <2>1. /\ pc' = [q \in Requests |-> IF InFlight(q) THEN "lost" ELSE pc[q]]
        /\ UNCHANGED <<request, decision>>
    BY <1>9 DEF Restart
  <2>2. CASE request[a].contract # c
    BY <2>1, <2>2
  <2>3. CASE request[a].contract = c /\ pc[a] # "idle"
    <3>1. decision[a] # "ALLOW"
      BY <1>0, <1>2, <1>3, <2>3 DEF Decided
    <3>2. pc'[a] \in Decided
      BY <1>0, <1>2, <2>1, <2>3 DEF InFlight, Decided
    <3>. QED
      BY <2>1, <3>1, <3>2
  <2>4. CASE pc[a] = "idle"
    BY <1>0, <2>1, <2>4 DEF InFlight
  <2>. QED
    BY <2>2, <2>3, <2>4
<1>10. ASSUME (\E e \in owed : AppendEvent(e)) \/ UserStep \/ Tick \/ UNCHANGED vars
       PROVE  Stage'
  <2>1. UNCHANGED <<pc, request, decision, view>>
    BY <1>10 DEF AppendEvent, UserStep, CreateContract, RevokeContract, ResolveChallenge,
      Tick, vars, tables, locals
  <2>. QED
    BY <1>4, <2>1
<1>. QED
  BY <1>5, <1>6, <1>7, <1>8, <1>9, <1>10 DEF Next

(* Once a contract is revoked, a request that arrives later is never        *)
(* allowed, restarts included; for the contracts of the demo data, until a  *)
(* restart seeds them again.                                                *)
THEOREM GatewayRevokedStaysDenied == Spec => RevokedStaysDenied
<1>. SUFFICES ASSUME NEW a \in Auths, NEW c \in Contracts, NEW n \in 0 .. MaxRestarts
              PROVE  Spec =>
                []( /\ contracts[c] # None /\ contracts[c].revoked
                    /\ pc[a] = "idle" /\ restarts = n
                    => []( /\ request[a] # None /\ request[a].contract = c
                           /\ c \in SeedContracts => restarts = n
                           => decision[a] # "ALLOW"))
  BY DEF RevokedStaysDenied
<1>1. contracts[c] # None /\ contracts[c].revoked /\ pc[a] = "idle" /\ restarts = n
        => Barred(a, c, n)
  BY DEF Barred
<1>2. Typed /\ DecidedFirst /\ Barred(a, c, n) /\ [Next]_vars => Barred(a, c, n)'
  BY BarredKept
<1>3. DecidedFirst /\ Barred(a, c, n) =>
        (/\ request[a] # None /\ request[a].contract = c
         /\ c \in SeedContracts => restarts = n
         => decision[a] # "ALLOW")
  BY GatewayAssumption DEF DecidedFirst, Barred, Reseeded, Decided, Decisions
<1>. QED
  BY <1>1, <1>2, <1>3, TypedAlways, PTL DEF Spec

===============================================================================
