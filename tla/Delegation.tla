------------------------------ MODULE Delegation ------------------------------
(***************************************************************************)
(* The user delegates in words: the prompt is compiled, the candidate is   *)
(* created as a contract (POST /user/delegations/compile and POST          *)
(* /user/delegations), and the firewall decides under it.                  *)
(***************************************************************************)
EXTENDS Firewall, PolicyCompiler

CONSTANTS
  Prompts,     (* what users may say                                       *)
  Answers      (* what they may confirm                                    *)

VARIABLE said  (* what the contract was compiled of, or None               *)

delegationVars == <<vars, said>>

ASSUME DelegationAssumption ==
  /\ \A p \in Prompts : IsPrompt(p)
  /\ \A confirmed \in Answers :
       \A field \in {"max_order_value_inr", "max_aggregate_value_inr"} \cap DOMAIN confirmed :
         confirmed[field] \in Int

(* A user who creates the candidate as it is: one of the changes of the     *)
(* world. The agents' transactions name the new contract from then on.      *)
CreateDelegation(p, confirmed) ==
  /\ last = None
  /\ ~ RequiresConfirmation(p, confirmed)
  /\ contract' = Compile(p, confirmed)
  /\ said' = [prompt |-> p, confirmed |-> confirmed]
  /\ UNCHANGED <<policies, active, written, catalog>>

DelegationInit == Init /\ said = None

DelegationNext ==
  \/ \E p \in Prompts, confirmed \in Answers :
       Change(CreateDelegation(p, confirmed))
  \/ Next /\ UNCHANGED said

DelegationSpec == DelegationInit /\ [][DelegationNext]_delegationVars

-------------------------------------------------------------------------------
(* What the user named or confirmed; a list confirmed empty names all.      *)
Answered(field) == field \in DOMAIN said.confirmed
Meant(field, x, named, default) ==
  IF Answered(field) THEN Listed(x, said.confirmed[field])
  ELSE x \in OrDefault(named, default)

(* An order that is allowed under a compiled delegation is one the user     *)
(* spoke of: from a merchant, of a category and to a pincode that was       *)
(* confirmed, or was named, or is a default one when none was; within the   *)
(* limits that were confirmed, or every amount that was written out, or the *)
(* default limit if no number was taken for one; and repeated only if that  *)
(* was answered with something that counts as yes, or if repetition was     *)
(* mentioned and not refused. What the user left out never becomes an empty *)
(* list, which would permit everything.                                     *)
AllowedAsSaid ==
  said # None /\ last # None /\ last.decision = "ALLOW" =>
    LET tx == last.facts.tx
        p  == said.prompt
        confirmed == said.confirmed
    IN
    /\ Meant("merchants_allowlist", tx.merchant, p.words \cap Merchants, Merchants)
    /\ Meant("categories_allowlist", tx.category, p.words \cap Categories,
             Categories \ {"home_appliances"})
    /\ \/ tx.pincode = None
       \/ Meant("delivery_pincodes", tx.pincode, p.pincodes, DOMAIN PincodeAmount)
    /\ IF Answered("max_order_value_inr") THEN tx.total <= confirmed["max_order_value_inr"]
       ELSE /\ \A amount \in p.amounts : tx.total <= amount
            /\ AmountsRead(p) = {} => tx.total <= 250000
    /\ Answered("max_aggregate_value_inr") => tx.total <= confirmed["max_aggregate_value_inr"]
    /\ tx.recurring =>
         IF Answered("recurring_allowed") THEN confirmed["recurring_allowed"] \notin Falsy
         ELSE Says(p, RepeatWords) /\ ~ Says(p, Refusals)

-------------------------------------------------------------------------------
(* What the repository says of the compiler and the code does not do,       *)
(* refuted by a run.                                                        *)

(* Amounts of money, of which a measure or a pincode is none, and 70k is    *)
(* seventy thousand.                                                        *)
MoneySaid(p) == p.amounts \cup {1000 * AsRupees(n) : n \in p.thousands}

(* A repeated order that is allowed under a compiled delegation was         *)
(* confirmed: the user has answered every ambiguity of high risk, and not   *)
(* that purchases are strictly one-time; and it is within limits that were  *)
(* confirmed or follow from the money in the prompt. The compiler is        *)
(* content with any one answer, takes any text for yes and any number above *)
(* 50, as of a 65 inch television, for an amount.                           *)
RepeatedAsConfirmed ==
  /\ said # None /\ last # None
  /\ last.decision = "ALLOW" /\ last.facts.tx.recurring
  =>
    LET p == said.prompt IN
    /\ \A field \in HighRisk(p) : Answered(field)
    /\ Answered("recurring_allowed") => said.confirmed["recurring_allowed"] # "once"
    /\ Answered("max_order_value_inr") \/ contract.maxOrder = OrderCap(p, MoneySaid(p))

===============================================================================
