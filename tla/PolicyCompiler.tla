---------------------------- MODULE PolicyCompiler ----------------------------
(***************************************************************************)
(* The compiler of delegations (agents/policy_compiler.py), as operators.  *)
(*                                                                         *)
(* It looks for numbers, pincodes and words in a prompt, and for nothing   *)
(* else; a prompt is what it finds:                                        *)
(*   prompt.amounts    the amounts of money, in paise: whole rupees, and   *)
(*                     more than 50 of them, or they are ignored           *)
(*   prompt.thousands  those that are written in thousands, as in 70k, by  *)
(*                     the number before the k                             *)
(*   prompt.numbers    what else is counted or measured, as in 65 inch     *)
(*   prompt.pincodes   the pincodes, of those that begin with 560          *)
(*   prompt.words      the words below that occur in it; for a category or *)
(*                     a merchant, that one of its words occurs            *)
(* confirmed is what the user has confirmed: a function on fields. An      *)
(* answer about repetition is "once" or "repeat", for the texts of the two *)
(* options, or a JSON value by its name. The                               *)
(* period and the length of the validity are left out: budget windows are  *)
(* those of Reservations, and a contract may expire at any time.           *)
(***************************************************************************)
EXTENDS Integers, FiniteSets

Categories == {"groceries", "electronics", "personal_care", "home_appliances"}
Merchants == {"freshmart", "croma", "apothecary", "quickdash"}
Periods == {"total", "week", "month", "budget"}
OneOrder == {"order", "single"}
RepeatWords == {"recurring", "subscription", "every week", "monthly delivery"}
Refusals == {"no recurring", "ask me before subscription"}
Inclusions == {"tax", "shipping", "all inclusive"}
Substitutes == {"substitut", "alternative"}
Sellers == {"merchant", "store"}

Words == Categories \cup Merchants \cup Periods \cup OneOrder \cup RepeatWords
         \cup Refusals \cup Inclusions \cup Substitutes \cup Sellers

(* Words are searched for as substrings: some contain others.               *)
Contained ==
  {<<"every week", "week">>, <<"monthly delivery", "month">>,
   <<"no recurring", "recurring">>, <<"ask me before subscription", "subscription">>}

(* A pincode is a number as well.                                           *)
PincodeAmount ==
  [code \in {"560001", "560002", "560034", "560095"} |->
     CASE code = "560001" -> 56000100
       [] code = "560002" -> 56000200
       [] code = "560034" -> 56003400
       [] code = "560095" -> 56009500]

(* Every number above 50 is read as one of rupees, a k after it is not seen.*)
AsRupees(n) == 100 * n
AmountsRead(p) ==
  p.amounts \cup {AsRupees(n) : n \in {m \in p.thousands \cup p.numbers : m > 50}}
  \cup {PincodeAmount[code] : code \in p.pincodes}

IsPrompt(p) ==
  /\ p.words \subseteq Words
  /\ \A pair \in Contained : pair[1] \in p.words => pair[2] \in p.words
  /\ IsFiniteSet(p.amounts)
  /\ \A a \in p.amounts : a \in Nat /\ a > 5000 /\ a % 100 = 0
  /\ IsFiniteSet(p.thousands \cup p.numbers) /\ p.thousands \cup p.numbers \subseteq Nat
  /\ p.pincodes \subseteq DOMAIN PincodeAmount

Says(p, words) == p.words \cap words # {}
OrDefault(found, default) == IF found = {} THEN default ELSE found
Least(S) == CHOOSE x \in S : \A y \in S : x <= y
Greatest(S) == CHOOSE x \in S : \A y \in S : y <= x

(* The limits: of one amount a share of a budget, or a budget for one order;*)
(* of several the smallest for an order, the largest for all.               *)
IsBudget(p, amounts) ==
  Least(amounts) = Greatest(amounts) /\ Says(p, Periods) /\ ~ Says(p, OneOrder)
OrderCap(p, amounts) ==
  IF amounts = {} THEN 250000
  ELSE IF IsBudget(p, amounts) THEN Least(amounts) \div 2
  ELSE Least(amounts)
AggregateCap(amounts) == IF amounts = {} THEN 500000 ELSE Greatest(amounts)

(* Mutant: what is not named is left empty.                                 *)
ParseNamedOnly(p) ==
  [max_order_value_inr |-> OrderCap(p, AmountsRead(p)),
   max_aggregate_value_inr |-> AggregateCap(AmountsRead(p)),
   categories_allowlist |-> p.words \cap Categories,
   merchants_allowlist |-> p.words \cap Merchants,
   delivery_pincodes |-> p.pincodes,
   recurring_allowed |-> Says(p, RepeatWords) /\ ~ Says(p, Refusals)]

(* _parse_delegation                                                        *)
ParseDelegation(p) ==
  [max_order_value_inr |-> OrderCap(p, AmountsRead(p)),
   max_aggregate_value_inr |-> AggregateCap(AmountsRead(p)),
   categories_allowlist |->
     OrDefault(p.words \cap Categories, {"groceries", "personal_care", "electronics"}),
   merchants_allowlist |-> OrDefault(p.words \cap Merchants, Merchants),
   delivery_pincodes |-> OrDefault(p.pincodes, DOMAIN PincodeAmount),
   recurring_allowed |-> Says(p, RepeatWords) /\ ~ Says(p, Refusals)]

(* _detect_ambiguities, those of high risk.                                 *)
HighRisk(p) ==
  {field \in {"allow_substitutions", "new_merchants", "recurring_allowed"} :
     CASE field = "allow_substitutions" -> ~ Says(p, Substitutes)
       [] field = "new_merchants"       -> ~ Says(p, Sellers)
       [] field = "recurring_allowed"   -> ~ Says(p, {"subscription", "recurring"})}

(* bool() takes any text but the empty one for yes.                         *)
Falsy == {"false", "null", "0", "empty text", "empty list"}
Confirmed(confirmed, field, parsed) ==
  IF field \notin DOMAIN confirmed THEN parsed[field]
  ELSE IF field = "recurring_allowed" THEN confirmed[field] \notin Falsy
  ELSE confirmed[field]

RequiresConfirmation(p, confirmed) == HighRisk(p) # {} /\ DOMAIN confirmed = {}

(* compile: the contract, if none of the ambiguities has to be confirmed    *)
(* first.                                                                   *)
Compile(p, confirmed) ==
  LET of(field) == Confirmed(confirmed, field, ParseDelegation(p)) IN
  [merchants |-> of("merchants_allowlist"), categories |-> of("categories_allowlist"),
   pincodes |-> of("delivery_pincodes"), maxOrder |-> of("max_order_value_inr"),
   aggregate |-> of("max_aggregate_value_inr"), recurring |-> of("recurring_allowed"),
   conditions |-> {"new_merchant", "price_increase_over_10_percent",
                   "substituted_sku", "unapproved_pincode"},
   revoked |-> FALSE, expired |-> FALSE]

===============================================================================
