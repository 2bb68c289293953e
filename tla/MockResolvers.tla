--------------------------- MODULE MockResolvers ---------------------------
(***************************************************************************)
(* The functions behind the GraphQL API (api/mock_resolvers.py) over their *)
(* constant tables.  A row stands for itself by its id or its merchant; a  *)
(* result is a sequence of rows, and None the empty one.                   *)
(***************************************************************************)
EXTENDS Integers, Sequences

MOCK_CUSTOMERS == [phone1 |-> <<"customer1">>, phone2 |-> <<"customer2">>]

(* Newest first, as every row of a table here. *)
MOCK_TRANSACTIONS ==
  [customer1 |-> <<"MTN Airtime", "Salary Credit">>, customer2 |-> <<"DSTV Subscription">>]

MOCK_NETWORK == [kano |-> <<"healthy">>, lagos |-> <<"degraded">>]

(* dict.get *)
Get(table, key) == IF key \in DOMAIN table THEN table[key] ELSE <<>>

(* Fault: the last rows instead of the first. *)
SliceFromEnd(rows, last) ==
  SubSeq(rows, IF last >= Len(rows) THEN 1 ELSE Len(rows) - last + 1, Len(rows))

(* rows[:last]: a negative last counts from the end. *)
Slice(rows, last) ==
  SubSeq(rows, 1, IF last >= Len(rows) THEN Len(rows)
                  ELSE IF last >= 0 THEN last ELSE Len(rows) + last)

get_customer(phone) == Get(MOCK_CUSTOMERS, phone)
get_network_status(region) == Get(MOCK_NETWORK, region)

(* Fault: one row for each customer found, as a query with IN would give. *)
CustomersFound(phones) ==
  LET Found(phone) == phone \in DOMAIN MOCK_CUSTOMERS
      known == SelectSeq(phones, Found)
  IN  [i \in DOMAIN known |-> get_customer(known[i])]

(* One result for each key, in the order of the keys. *)
get_customers_batch(phones) == [i \in DOMAIN phones |-> get_customer(phones[i])]
get_transactions_batch(ids) == [i \in DOMAIN ids |-> Get(MOCK_TRANSACTIONS, ids[i])]

(* Each of the four asks for confirmation and changes nothing. *)
ReferenceOf ==
  [process_payment          |-> "PAY-2026-00001",
   reset_pin                |-> "PIN-2026-00001",
   change_plan              |-> "PLAN-2026-00001",
   create_escalation_ticket |-> "ESC-2026-00001"]

ActionResult(mutation) ==
  [success |-> TRUE, reference_id |-> ReferenceOf[mutation], requires_confirmation |-> TRUE]

=============================================================================
