----------------------------- MODULE MCGraphQL -----------------------------
(***************************************************************************)
(* Instances of GraphQL for TLC.                                           *)
(***************************************************************************)
EXTENDS GraphQL

CONSTANTS r1, r2

TwoRequests == {r1, r2}
ThreePhones == {"phone1", "phone2", "phone0"}

(* Two spellings of one id, an id without transactions, and no other id. *)
ParsedIds ==
  [customer1 |-> "customer1", CUSTOMER1 |-> "customer1", customer2 |-> "customer2",
   customer9 |-> "customer9"]

Ask(f, k, n) == [resolver |-> f, key |-> k, last |-> n]
Balance(p)    == Ask("account_balance", p, 0)
History(a, n) == Ask("transaction_history", a, n)
Change(m)     == Ask(m, "phone1", 0)
Network(g)    == Ask("network_status", g, 0)

Histories ==
  {History("customer1", 1), History("CUSTOMER1", -1), History("customer2", 10),
   History("customer2", -2), History("customer9", 0), History("no id", 10)}

(* Keys found, not found and asked twice, on one loader and on both. *)
SomeQueries ==
  {<<h>> : h \in Histories}
    \cup {<<History("customer1", 10), h>> : h \in Histories}
    \cup {<<Balance("phone0"), f, Balance("phone2")>> :
            f \in {Balance("phone0"), Balance("phone1"), Network("kano"), Network("jos"),
                   History("customer1", 1), History("no id", 10)}}

SomeMutations ==
  {<<Change("process_payment"), Change("reset_pin")>>,
   <<Change("change_plan")>>, <<Change("create_escalation_ticket")>>}

=============================================================================
