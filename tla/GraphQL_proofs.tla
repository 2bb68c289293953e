---------------------------- MODULE GraphQL_proofs ----------------------------
(***************************************************************************)
(* Theorems about GraphQL, for all requests, queries, mutations and ids:   *)
(* each loader of a request fetches once at most, fields say what has been *)
(* fetched since their request came, and every response says what direct   *)
(* lookups would have.                                                     *)
(***************************************************************************)
EXTENDS GraphQL, SequenceTheorems, TLAPS

-----------------------------------------------------------------------------
(* What makes the properties hold, and is inductive *)

Callbacks ==
  {RunField(r, i) : r \in Requests, i \in Nat} \cup
  {RunDispatch(c, ld) : c \in Requests, ld \in Loaders}

(* What the row of a key is in the table behind a loader.                  *)
Lookup(ld, k) == IF ld = "account" THEN get_customer(k) ELSE Get(MOCK_TRANSACTIONS, k)

(* Futures belong to the keys, batches are keys, and callbacks, fetches    *)
(* and fields what they are meant to be.  No future ever raises, and each  *)
(* that is done has the rows of its own key.                               *)
LoaderTypes ==
  /\ DOMAIN future = Requests /\ DOMAIN batch = Requests
  /\ \A c \in Requests :
       /\ DOMAIN future[c] = Loaders /\ DOMAIN batch[c] = Loaders
       /\ \A ld \in Loaders :
            /\ batch[c][ld] \in Seq(Keys)
            /\ DOMAIN future[c][ld] = Keys
            /\ \A k \in Keys : future[c][ld][k] \in {NoFuture, Pending, Done(Lookup(ld, k))}

RequestTypes ==
  /\ request \in [Requests -> Queries \cup Mutations \cup {<<>>}]
  /\ ready \in Seq(Callbacks)
  /\ fetches \in Seq([context : Requests, loader : Loaders, keys : Seq(Keys)])
  /\ arrived \in [Requests -> Nat]
  /\ \A r \in Requests : arrived[r] <= Len(fetches)
  /\ DOMAIN field = Requests
  /\ \A r \in Requests : DOMAIN field[r] = DOMAIN request[r]
  /\ response \in [Requests -> {"none", "data", "null"}]

(* A callback is a field that has not been run, or the dispatch of a batch *)
(* that waits for it, and none of them is there twice.                     *)
CallbacksFit ==
  /\ \A n \in DOMAIN ready :
       \/ \E r \in Requests : \E i \in DOMAIN request[r] :
            /\ ready[n] = RunField(r, i)
            /\ request[r] \in Queries /\ field[r][i] = Ready
       \/ \E c \in Requests, ld \in Loaders :
            ready[n] = RunDispatch(c, ld) /\ batch[c][ld] # <<>>
  /\ \A c \in Requests, ld \in Loaders :
       batch[c][ld] # <<>> => \E n \in DOMAIN ready : ready[n] = RunDispatch(c, ld)
  /\ \A m, n \in DOMAIN ready : m # n => ready[m] # ready[n]

(* All the fields of a request run before the first of its dispatches.     *)
FieldsFirst ==
  \A m, n \in DOMAIN ready : \A c \in Requests, ld \in Loaders : \A i \in DOMAIN request[c] :
    ready[m] = RunDispatch(c, ld) /\ ready[n] = RunField(c, i) => n < m

(* The batch has the pending keys, each of them once.                      *)
BatchFits ==
  \A c \in Requests, ld \in Loaders :
    /\ IsInjective(batch[c][ld])
    /\ \A k \in Keys : k \in Range(batch[c][ld]) <=> future[c][ld][k] = Pending

(* Once a loader has fetched, no field of its request is left to load.     *)
NothingAfterFetch ==
  \A n \in DOMAIN fetches :
    /\ request[fetches[n].context] # <<>>
    /\ batch[fetches[n].context][fetches[n].loader] = <<>>
    /\ \A m \in DOMAIN ready : \A i \in DOMAIN request[fetches[n].context] :
         ready[m] # RunField(fetches[n].context, i)

(* What is done has been fetched since the request came, by a loader of    *)
(* its own.                                                                *)
DoneIsFetched ==
  \A c \in Requests, ld \in Loaders : \A k \in Keys :
    future[c][ld][k].status = "done" =>
      \E n \in arrived[c] + 1 .. Len(fetches) :
        /\ fetches[n].context = c /\ fetches[n].loader = ld
        /\ k \in Range(fetches[n].keys)

(* Before a request comes, its loaders have done nothing.                  *)
FreshLoaders ==
  \A r \in Requests : request[r] = <<>> =>
    /\ response[r] = "none"
    /\ \A ld \in Loaders :
         batch[r][ld] = <<>> /\ \A k \in Keys : future[r][ld][k] = NoFuture

(* A field of a query says what a direct lookup says, or nothing yet; an   *)
(* invalid id is an error, and nothing else is.                            *)
FieldsRight ==
  \A r \in Requests : request[r] \in Queries => \A i \in DOMAIN request[r] :
    \/ field[r][i] = Ready
    \/ /\ field[r][i] = Loading
       /\ ~BadId(request[r][i]) /\ request[r][i].resolver # "network_status"
    \/ ~BadId(request[r][i]) /\ field[r][i] = Said(Direct(request[r][i]))
    \/ field[r][i] = Error /\ BadId(request[r][i])

(* A mutation has said what its actions came to.                           *)
MutationsSaid ==
  \A r \in Requests : request[r] \in Mutations => \A i \in DOMAIN request[r] :
    field[r][i] = Said(<<ActionToType(ActionResult(request[r][i].resolver))>>)

GraphQLInv ==
  /\ LoaderTypes
  /\ RequestTypes
  /\ CallbacksFit
  /\ FieldsFirst
  /\ BatchFits
  /\ OneFetchPerLoader
  /\ NothingAfterFetch
  /\ DoneIsFetched
  /\ FreshLoaders
  /\ FieldsRight
  /\ MutationsSaid
  /\ AnsweredFromOwnFetch
  /\ ResponsesMatchDirectLookup

-----------------------------------------------------------------------------
(* Callbacks, futures and fields *)

(* A callback tells the field or the dispatch it runs.                     *)
LEMMA CallbackFacts ==
  /\ \A r, i, c, ld : RunField(r, i) # RunDispatch(c, ld)
  /\ \A r, i, q, j : RunField(r, i) = RunField(q, j) => r = q /\ i = j
  /\ \A c, ld, d, le : RunDispatch(c, ld) = RunDispatch(d, le) => c = d /\ ld = le
<1>1. \A r, i, c, ld : RunField(r, i) # RunDispatch(c, ld)
  <2> SUFFICES ASSUME NEW r, NEW i, NEW c, NEW ld, RunField(r, i) = RunDispatch(c, ld)
               PROVE  FALSE
    OBVIOUS
  <2>1. DOMAIN RunField(r, i) = {"request", "index"}
    BY DEF RunField
  <2>2. DOMAIN RunDispatch(c, ld) = {"context", "loader"}
    BY DEF RunDispatch
  <2> QED
    BY <2>1, <2>2
<1>2. \A r, i : RunField(r, i).request = r /\ RunField(r, i).index = i
  BY DEF RunField
<1>3. \A c, ld : RunDispatch(c, ld).context = c /\ RunDispatch(c, ld).loader = ld
  BY DEF RunDispatch
<1>4. \A r, i, q, j : RunField(r, i) = RunField(q, j) => r = q /\ i = j
  BY <1>2
<1>5. \A c, ld, d, le : RunDispatch(c, ld) = RunDispatch(d, le) => c = d /\ ld = le
  BY <1>3
<1> QED
  BY <1>1, <1>4, <1>5

(* A future tells whether it is done, and with what.                       *)
LEMMA FutureFacts ==
  /\ NoFuture # Pending /\ NoFuture.status = "none" /\ Pending.status = "pending"
  /\ \A s : Done(s).status = "done" /\ Done(s).rows = s /\ Done(s) # Pending /\ Done(s) # NoFuture
<1>1. NoFuture.status = "none" /\ Pending.status = "pending"
  BY DEF NoFuture, Pending
<1>2. \A s : Done(s).status = "done" /\ Done(s).rows = s
  BY DEF Done
<1> QED
  BY <1>1, <1>2

(* A field tells how far it is, and what it says.                          *)
LEMMA FieldFacts ==
  /\ Ready.status = "ready" /\ Loading.status = "loading" /\ Error.status = "error"
  /\ Ready # Loading /\ Ready # Error /\ Loading # Error
  /\ DOMAIN Ready.value = {} /\ DOMAIN Loading.value = {} /\ DOMAIN Error.value = {}
  /\ \A v : /\ Said(v).status = "answered" /\ Said(v).value = v
            /\ Said(v) # Ready /\ Said(v) # Loading /\ Said(v) # Error
<1>1. Ready.status = "ready" /\ Loading.status = "loading" /\ Error.status = "error"
  BY DEF Ready, Loading, Error
<1>2. \A v : Said(v).status = "answered" /\ Said(v).value = v
  BY DEF Said
<1>3. DOMAIN Ready.value = {} /\ DOMAIN Loading.value = {} /\ DOMAIN Error.value = {}
  BY DEF Ready, Loading, Error
<1> QED
  BY <1>1, <1>2, <1>3

(* Queries and mutations are sequences of fields, none of them is empty    *)
(* and none is both.                                                       *)
LEMMA AskedFacts ==
  /\ \A q \in Queries \cup Mutations :
       q # <<>> /\ Len(q) \in Nat \ {0} /\ DOMAIN q = 1..Len(q)
  /\ Queries \cap Mutations = {}
  /\ <<>> \notin Queries /\ <<>> \notin Mutations
  /\ DOMAIN <<>> = {}
<1> DEFINE Fields == [resolver : STRING, key : STRING, last : Int]
<1>1. ASSUME NEW q \in Queries \cup Mutations
      PROVE  q # <<>> /\ Len(q) \in Nat \ {0} /\ DOMAIN q = 1..Len(q)
  <2>1. q \in Seq(Fields) /\ q # <<>>
    BY GraphQLAssumption
  <2> HIDE DEF Fields
  <2> QED
    BY <2>1, EmptySeq, LenProperties
<1>2. ASSUME NEW q \in Queries, q \in Mutations
      PROVE  FALSE
  <2>1. 1 \in DOMAIN q
    BY <1>1
  <2>2. q[1].resolver \in {"account_balance", "transaction_history", "network_status"}
    BY <2>1, GraphQLAssumption
  <2>3. q[1].resolver \in DOMAIN ReferenceOf
    BY <1>2, <2>1, GraphQLAssumption
  <2>4. DOMAIN ReferenceOf =
          {"process_payment", "reset_pin", "change_plan", "create_escalation_ticket"}
    BY DEF ReferenceOf
  <2> QED
    BY <2>2, <2>3, <2>4
<1> QED
  BY <1>1, <1>2, GraphQLAssumption

(* A field of a query has a key its loader knows, and asks for a number of *)
(* rows.                                                                   *)
LEMMA FieldAsked ==
  ASSUME NEW q \in Queries, NEW i \in DOMAIN q
  PROVE  /\ q[i].resolver \in {"account_balance", "transaction_history", "network_status"}
         /\ q[i].resolver = "account_balance" => q[i].key \in Keys
         /\ q[i].resolver = "transaction_history" /\ ~BadId(q[i]) => UUID[q[i].key] \in Keys
         /\ q[i].last \in Int
<1> DEFINE Fields == [resolver : STRING, key : STRING, last : Int]
<1>1. q[i] \in Fields
  <2>1. q \in Seq(Fields)
    BY GraphQLAssumption
  <2> HIDE DEF Fields
  <2> QED
    BY <2>1, ElementOfSeq, LenProperties
<1>2. q[i].last \in Int
  BY <1>1
<1> QED
  BY <1>2, GraphQLAssumption DEF Keys, BadId, Range

-----------------------------------------------------------------------------
(* Tables, batches and slices *)

(* The rows of the tables.                                                 *)
Rows ==
  {"customer1", "customer2", "MTN Airtime", "Salary Credit", "DSTV Subscription",
   "healthy", "degraded"}

(* Sequences of two rows at most.                                          *)
LEMMA ShortSeqs ==
  ASSUME NEW S
  PROVE  <<>> \in Seq(S) /\ \A a, b \in S : <<a>> \in Seq(S) /\ <<a, b>> \in Seq(S)
<1>1. \A a \in S : <<a>> \in Seq(S)
  OBVIOUS
<1>2. \A a, b \in S : <<a, b>> \in Seq(S)
  OBVIOUS
<1> QED
  BY <1>1, <1>2, EmptySeq

(* A result is a sequence of rows, empty for a key that is in no table.    *)
LEMMA RowsFacts ==
  \A k : /\ get_customer(k) \in Seq(Rows) /\ get_network_status(k) \in Seq(Rows)
         /\ Get(MOCK_TRANSACTIONS, k) \in Seq(Rows)
<1>1. /\ \A a \in Rows : <<a>> \in Seq(Rows)
      /\ \A a, b \in Rows : <<a, b>> \in Seq(Rows)
      /\ <<>> \in Seq(Rows)
      /\ "customer1" \in Rows /\ "customer2" \in Rows
      /\ "MTN Airtime" \in Rows /\ "Salary Credit" \in Rows /\ "DSTV Subscription" \in Rows
      /\ "healthy" \in Rows /\ "degraded" \in Rows
  <2>1. /\ "customer1" \in Rows /\ "customer2" \in Rows
        /\ "MTN Airtime" \in Rows /\ "Salary Credit" \in Rows /\ "DSTV Subscription" \in Rows
        /\ "healthy" \in Rows /\ "degraded" \in Rows
    BY DEF Rows
  <2> QED
    BY <2>1, ShortSeqs
<1>2. ASSUME NEW key \in DOMAIN MOCK_CUSTOMERS
      PROVE  MOCK_CUSTOMERS[key] \in Seq(Rows)
  <2>1. key = "phone1" \/ key = "phone2"
    BY DEF MOCK_CUSTOMERS
  <2>2. \/ MOCK_CUSTOMERS[key] = <<"customer1">>
        \/ MOCK_CUSTOMERS[key] = <<"customer2">>
    BY <2>1 DEF MOCK_CUSTOMERS
  <2>3. /\ <<"customer1">> \in Seq(Rows)
        /\ <<"customer2">> \in Seq(Rows)
    BY <1>1
  <2> QED
    BY <2>2, <2>3
<1>3. ASSUME NEW key \in DOMAIN MOCK_NETWORK
      PROVE  MOCK_NETWORK[key] \in Seq(Rows)
  <2>1. key = "kano" \/ key = "lagos"
    BY DEF MOCK_NETWORK
  <2>2. \/ MOCK_NETWORK[key] = <<"healthy">>
        \/ MOCK_NETWORK[key] = <<"degraded">>
    BY <2>1 DEF MOCK_NETWORK
  <2>3. /\ <<"healthy">> \in Seq(Rows)
        /\ <<"degraded">> \in Seq(Rows)
    BY <1>1
  <2> QED
    BY <2>2, <2>3
<1>4. ASSUME NEW key \in DOMAIN MOCK_TRANSACTIONS
      PROVE  MOCK_TRANSACTIONS[key] \in Seq(Rows)
  <2>1. key = "customer1" \/ key = "customer2"
    BY DEF MOCK_TRANSACTIONS
  <2> DEFINE rows1 == <<"MTN Airtime", "Salary Credit">>
             rows2 == <<"DSTV Subscription">>
  <2>2. MOCK_TRANSACTIONS[key] = rows1 \/ MOCK_TRANSACTIONS[key] = rows2
    <3>1. MOCK_TRANSACTIONS = [customer1 |-> rows1, customer2 |-> rows2]
      BY DEF MOCK_TRANSACTIONS
    <3> HIDE DEF rows1, rows2
    <3> QED
      BY <2>1, <3>1
  <2>3. /\ <<"MTN Airtime", "Salary Credit">> \in Seq(Rows)
        /\ <<"DSTV Subscription">> \in Seq(Rows)
    BY <1>1
  <2> QED
    BY <2>2, <2>3
<1>5. ASSUME NEW k
      PROVE  /\ get_customer(k) \in Seq(Rows) /\ get_network_status(k) \in Seq(Rows)
             /\ Get(MOCK_TRANSACTIONS, k) \in Seq(Rows)
  <2>1. get_customer(k) \in Seq(Rows)
    BY <1>1, <1>2 DEF get_customer, Get
  <2>2. get_network_status(k) \in Seq(Rows)
    BY <1>1, <1>3 DEF get_network_status, Get
  <2>3. Get(MOCK_TRANSACTIONS, k) \in Seq(Rows)
    BY <1>1, <1>4 DEF Get
  <2> QED
    BY <2>1, <2>2, <2>3
<1> QED
  BY <1>5

(* A batch gives each key its own rows, in the order of the keys: one for  *)
(* each of them, so that no future is left with an exception.              *)
LEMMA BatchedRows ==
  ASSUME NEW K, NEW keys \in Seq(K), NEW ld \in Loaders
  PROVE  /\ Len(LoadFn(ld, keys)) = Len(keys)
         /\ \A j \in DOMAIN keys : LoadFn(ld, keys)[j] = Lookup(ld, keys[j])
<1>1. DOMAIN keys = 1..Len(keys) /\ Len(keys) \in Nat
  BY LenProperties
<1>2. LoadFn(ld, keys) = [j \in 1..Len(keys) |-> Lookup(ld, keys[j])]
  <2>1. CASE ld = "account"
    BY <1>1, <2>1 DEF LoadFn, get_customers_batch, Lookup
  <2>2. CASE ld = "transaction"
    BY <1>1, <2>2 DEF LoadFn, get_transactions_batch, Lookup
  <2> QED
    BY <2>1, <2>2 DEF Loaders
<1>3. \A j \in 1..Len(keys) : Lookup(ld, keys[j]) \in Seq(Rows)
  BY RowsFacts DEF Lookup
<1>4. LoadFn(ld, keys) \in Seq(Seq(Rows))
  BY <1>1, <1>2, <1>3, SeqDef
<1>5. DOMAIN LoadFn(ld, keys) = 1..Len(keys) /\ DOMAIN LoadFn(ld, keys) = 1..Len(LoadFn(ld, keys))
      /\ Len(LoadFn(ld, keys)) \in Nat
  BY <1>2, <1>4, LenProperties
<1> QED
  BY <1>1, <1>2, <1>5

(* Python's slice, rows[:last], has the rows that are wanted, whatever     *)
(* last is.                                                                *)
LEMMA SliceIsWanted ==
  ASSUME NEW rows \in Seq(Rows), NEW last \in Int
  PROVE  /\ DOMAIN Slice(rows, last) = Wanted(rows, last)
         /\ \A j \in Wanted(rows, last) : Slice(rows, last)[j] = rows[j]
<1> DEFINE n == IF last >= Len(rows) THEN Len(rows)
                ELSE IF last >= 0 THEN last ELSE Len(rows) + last
<1>1. Len(rows) \in Nat /\ DOMAIN rows = 1..Len(rows) /\ \A j \in 1..Len(rows) : rows[j] \in Rows
  BY LenProperties, ElementOfSeq
<1>2. n \in Int /\ n <= Len(rows)
  BY <1>1
<1>3. /\ SubSeq(rows, 1, n) \in Seq(Rows)
      /\ Len(SubSeq(rows, 1, n)) = IF 1 <= n THEN n - 1 + 1 ELSE 0
      /\ \A j \in 1..n - 1 + 1 : SubSeq(rows, 1, n)[j] = rows[1 + j - 1]
  <2>1. \A j \in 1..n : rows[j] \in Rows
    BY <1>1, <1>2
  <2> HIDE DEF n
  <2> QED
    BY <1>2, <2>1, SubSeqProperties
<1>4. Slice(rows, last) = SubSeq(rows, 1, n)
  BY DEF Slice
<1>5. DOMAIN SubSeq(rows, 1, n) = 1..n /\ \A j \in 1..n : SubSeq(rows, 1, n)[j] = rows[j]
  <2> HIDE DEF n
  <2>1. DOMAIN SubSeq(rows, 1, n) = 1..Len(SubSeq(rows, 1, n))
    BY <1>3, LenProperties
  <2> QED
    BY <1>2, <1>3, <2>1
<1>6. Wanted(rows, last) = 1..n
  BY <1>1 DEF Wanted
<1> QED
  BY <1>4, <1>5, <1>6

(* What a field makes of the rows of its own key is what a direct lookup   *)
(* says.                                                                   *)
LEMMA AnswerIsDirect ==
  ASSUME NEW f, f.last \in Int, f.resolver \in {"account_balance", "transaction_history"}
  PROVE  Direct(f) = IF f.resolver = "account_balance"
                     THEN Answer(f, Lookup("account", f.key))
                     ELSE Answer(f, Lookup("transaction", UUID[f.key]))
<1>1. CASE f.resolver = "account_balance"
  BY <1>1 DEF Direct, Answer, Lookup
<1>2. CASE f.resolver = "transaction_history"
  <2> DEFINE txns == Get(MOCK_TRANSACTIONS, UUID[f.key])
  <2>1. txns \in Seq(Rows)
    BY RowsFacts
  <2>2. Lookup("transaction", UUID[f.key]) = txns
    BY DEF Lookup
  <2>3. /\ Answer(f, txns) =
             [j \in DOMAIN Slice(txns, f.last) |-> TxnToType(Slice(txns, f.last)[j])]
        /\ Direct(f) = [j \in Wanted(txns, f.last) |-> TxnToType(txns[j])]
    BY <1>2 DEF Answer, Direct
  <2> HIDE DEF txns
  <2>4. /\ DOMAIN Slice(txns, f.last) = Wanted(txns, f.last)
        /\ \A j \in Wanted(txns, f.last) : Slice(txns, f.last)[j] = txns[j]
    BY <2>1, SliceIsWanted
  <2> QED
    BY <1>2, <2>2, <2>3, <2>4
<1> QED
  BY <1>1, <1>2

(* What fields and mutations say is of the types of the schema.            *)
LEMMA SaidTypes ==
  /\ \A f : \A j \in DOMAIN Direct(f) : Direct(f)[j].type \in Types
  /\ \A a : ActionToType(a).type \in Types
<1>1. ASSUME NEW f, NEW j \in DOMAIN Direct(f)
      PROVE  Direct(f)[j].type \in Types
  <2>1. /\ \A x : CustomerToAccount(x).type \in Types
        /\ \A x : TxnToType(x).type \in Types
        /\ \A x : NetworkToType(x).type \in Types
    BY DEF CustomerToAccount, TxnToType, NetworkToType, Types
  <2>2. \E x : Direct(f)[j] \in {CustomerToAccount(x), TxnToType(x), NetworkToType(x)}
    BY <1>1 DEF Direct
  <2> QED
    BY <2>1, <2>2
<1>2. \A a : ActionToType(a).type \in Types
  BY DEF ActionToType, Types
<1> QED
  BY <1>1, <1>2

-----------------------------------------------------------------------------
(* The ready callbacks *)

(* A sequence without its head, and one more element behind it.            *)
LEMMA TailAndOne ==
  ASSUME NEW S, NEW s \in Seq(S), s # <<>>, NEW x \in S
  PROVE  /\ Len(s) \in Nat \ {0} /\ DOMAIN s = 1..Len(s) /\ Head(s) = s[1]
         /\ Tail(s) \o <<x>> \in Seq(S)
         /\ DOMAIN (Tail(s) \o <<x>>) = 1..Len(s)
         /\ \A n \in 1..Len(s) : n < Len(s) => (Tail(s) \o <<x>>)[n] = s[n + 1]
         /\ (Tail(s) \o <<x>>)[Len(s)] = x
<1>1. Len(s) \in Nat \ {0} /\ DOMAIN s = 1..Len(s) /\ Head(s) = s[1]
  BY EmptySeq, LenProperties
<1>2. PICK t : t = Tail(s)
  OBVIOUS
<1>3. t \in Seq(S) /\ Len(t) = Len(s) - 1 /\ \A n \in 1..Len(t) : t[n] = s[n + 1]
  BY <1>2, HeadTailProperties
<1>4. PICK u : u = Append(t, x)
  OBVIOUS
<1>5. Tail(s) \o <<x>> = u
  BY <1>2, <1>3, <1>4, AppendIsConcat
<1>6. u \in Seq(S) /\ Len(u) = Len(t) + 1 /\ u[Len(t) + 1] = x
      /\ \A n \in 1..Len(t) : u[n] = t[n]
  BY <1>3, <1>4, AppendProperties
<1>7. DOMAIN u = 1..Len(s)
  BY <1>1, <1>3, <1>6, LenProperties
<1>8. \A n \in 1..Len(s) : n < Len(s) => u[n] = s[n + 1]
  BY <1>1, <1>3, <1>6
<1>9. u[Len(s)] = x
  BY <1>1, <1>3, <1>6
<1> QED
  BY <1>1, <1>5, <1>6, <1>7, <1>8, <1>9

(* Running the callback at the head leaves the others in their order.      *)
LEMMA HeadIsRun ==
  ASSUME RequestTypes, CallbacksFit, ready # <<>>, ready' = Tail(ready)
  PROVE  /\ 1 \in DOMAIN ready /\ ready[1] = Head(ready)
         /\ ready' \in Seq(Callbacks)
         /\ \A n \in DOMAIN ready' : /\ n \in Nat /\ n + 1 \in DOMAIN ready
                                     /\ ready'[n] = ready[n + 1] /\ ready'[n] # Head(ready)
         /\ \A n \in DOMAIN ready : ready[n] # Head(ready) =>
              \E m \in DOMAIN ready' : ready'[m] = ready[n]
<1>1. ready \in Seq(Callbacks) /\ DOMAIN ready = 1..Len(ready) /\ Len(ready) \in Nat
  BY LenProperties DEF RequestTypes
<1>2. Len(ready) # 0
  BY <1>1, EmptySeq
<1>3. /\ Tail(ready) \in Seq(Callbacks) /\ Len(Tail(ready)) = Len(ready) - 1
      /\ \A n \in 1..Len(Tail(ready)) : Tail(ready)[n] = ready[n + 1]
  BY <1>1, HeadTailProperties
<1>4. DOMAIN Tail(ready) = 1..Len(ready) - 1
  BY <1>3, LenProperties
<1>5. 1 \in DOMAIN ready /\ Head(ready) = ready[1]
  BY <1>1, <1>2 DEF RequestTypes
<1>6. \A n \in DOMAIN ready' : n \in Nat /\ n + 1 \in DOMAIN ready /\ ready'[n] = ready[n + 1]
  BY <1>1, <1>3, <1>4
<1>7. \A n \in DOMAIN ready' : ready'[n] # Head(ready)
  BY <1>5, <1>6 DEF CallbacksFit
<1>8. ASSUME NEW n \in DOMAIN ready, ready[n] # Head(ready)
      PROVE  \E m \in DOMAIN ready' : ready'[m] = ready[n]
  <2>1. n - 1 \in 1..Len(ready) - 1 /\ n - 1 + 1 = n
    BY <1>1, <1>5, <1>8
  <2> QED
    BY <1>3, <1>4, <2>1
<1> QED
  BY <1>3, <1>5, <1>6, <1>7, <1>8

(* A dispatch that is queued comes behind all that is ready.               *)
LEMMA DispatchQueued ==
  ASSUME RequestTypes, CallbacksFit, ready # <<>>, NEW x \in Callbacks
  PROVE  ready' = Tail(ready) \o <<x>> =>
         /\ 1 \in DOMAIN ready /\ ready[1] = Head(ready)
         /\ ready' \in Seq(Callbacks)
         /\ \A n \in DOMAIN ready' :
              /\ n \in Nat
              /\ \/ n < Len(ready) /\ n + 1 \in DOMAIN ready
                    /\ ready'[n] = ready[n + 1] /\ ready'[n] # Head(ready)
                 \/ n = Len(ready) /\ ready'[n] = x
         /\ \A n \in DOMAIN ready : ready[n] # Head(ready) =>
              \E m \in DOMAIN ready' : ready'[m] = ready[n]
         /\ Len(ready) \in DOMAIN ready' /\ ready'[Len(ready)] = x
<1>0. HAVE ready' = Tail(ready) \o <<x>>
<1>1. PICK t : t = Tail(ready) \o <<x>>
  OBVIOUS
<1>2. ready' = t
  BY <1>0, <1>1
<1>3. /\ Len(ready) \in Nat \ {0} /\ DOMAIN ready = 1..Len(ready) /\ Head(ready) = ready[1]
      /\ t \in Seq(Callbacks) /\ DOMAIN t = 1..Len(ready)
      /\ \A n \in 1..Len(ready) : n < Len(ready) => t[n] = ready[n + 1]
      /\ t[Len(ready)] = x
  BY <1>1, TailAndOne DEF RequestTypes
<1>4. \A m, n \in DOMAIN ready : m # n => ready[m] # ready[n]
  BY DEF CallbacksFit
<1>5. ASSUME NEW n \in 1..Len(ready), n < Len(ready)
      PROVE  n + 1 \in DOMAIN ready /\ t[n] = ready[n + 1] /\ t[n] # Head(ready)
  <2>1. n + 1 \in DOMAIN ready /\ n + 1 # 1 /\ 1 \in DOMAIN ready
    BY <1>3, <1>5
  <2>2. t[n] = ready[n + 1]
    BY <1>3, <1>5
  <2>3. ready[n + 1] # ready[1]
    BY <1>4, <2>1
  <2> QED
    BY <1>3, <2>1, <2>2, <2>3
<1>6. ASSUME NEW n \in DOMAIN ready, ready[n] # Head(ready)
      PROVE  \E m \in 1..Len(ready) : t[m] = ready[n]
  <2>1. n - 1 \in 1..Len(ready) /\ n - 1 < Len(ready) /\ n - 1 + 1 = n
    BY <1>3, <1>6
  <2> QED
    BY <1>3, <2>1
<1>7. ASSUME NEW n \in 1..Len(ready)
      PROVE  n \in Nat /\ (n < Len(ready) \/ n = Len(ready))
  <2>1. Len(ready) \in Nat
    BY <1>3
  <2> QED
    BY <2>1
<1>8. DOMAIN ready' = 1..Len(ready)
  BY <1>2, <1>3
<1>9. \A n \in DOMAIN ready' :
        /\ n \in Nat
        /\ \/ n < Len(ready) /\ n + 1 \in DOMAIN ready
              /\ ready'[n] = ready[n + 1] /\ ready'[n] # Head(ready)
           \/ n = Len(ready) /\ ready'[n] = x
  <2>1. ASSUME NEW n \in 1..Len(ready)
        PROVE  /\ n \in Nat
               /\ \/ n < Len(ready) /\ n + 1 \in DOMAIN ready
                     /\ t[n] = ready[n + 1] /\ t[n] # Head(ready)
                  \/ n = Len(ready) /\ t[n] = x
    <3>1. CASE n < Len(ready)
      BY <1>5, <1>7, <2>1, <3>1
    <3>2. CASE n = Len(ready)
      BY <1>3, <1>7, <2>1, <3>2
    <3> QED
      BY <1>7, <2>1, <3>1, <3>2
  <2> QED
    BY <1>2, <1>8, <2>1
<1>10. \A n \in DOMAIN ready : ready[n] # Head(ready) =>
         \E m \in DOMAIN ready' : ready'[m] = ready[n]
  BY <1>2, <1>6, <1>8
<1> QED
  BY <1>2, <1>3, <1>8, <1>9, <1>10

(* The fields of a query come behind all that is ready.                    *)
LEMMA FieldsQueued ==
  ASSUME RequestTypes, NEW r \in Requests, NEW q \in Queries,
         ready' = ready \o [i \in DOMAIN q |-> RunField(r, i)]
  PROVE  /\ ready' \in Seq(Callbacks)
         /\ \A n \in DOMAIN ready : n \in DOMAIN ready' /\ ready'[n] = ready[n]
         /\ \A n \in DOMAIN ready' :
              \/ n \in DOMAIN ready /\ ready'[n] = ready[n]
              \/ /\ n \in Nat /\ n > Len(ready) /\ n - Len(ready) \in DOMAIN q
                 /\ ready'[n] = RunField(r, n - Len(ready))
         /\ DOMAIN ready = 1..Len(ready) /\ Len(ready) \in Nat
<1>1. ready \in Seq(Callbacks) /\ DOMAIN ready = 1..Len(ready) /\ Len(ready) \in Nat
  BY LenProperties DEF RequestTypes
<1>2. DOMAIN q = 1..Len(q) /\ Len(q) \in Nat
  BY AskedFacts
<1> DEFINE fs == [i \in DOMAIN q |-> RunField(r, i)]
<1>3. \A i \in 1..Len(q) : RunField(r, i) \in Callbacks
  BY DEF Callbacks
<1>4. fs \in Seq(Callbacks) /\ DOMAIN fs = 1..Len(q) /\ \A i \in 1..Len(q) : fs[i] = RunField(r, i)
  BY <1>2, <1>3, SeqDef
<1> HIDE DEF fs
<1>5. Len(fs) = Len(q)
  BY <1>2, <1>4, LenProperties
<1>6. /\ ready' \in Seq(Callbacks) /\ Len(ready') = Len(ready) + Len(q)
      /\ \A n \in 1..Len(ready) + Len(q) :
           ready'[n] = IF n <= Len(ready) THEN ready[n] ELSE fs[n - Len(ready)]
  BY <1>1, <1>4, <1>5, ConcatProperties DEF fs
<1>7. DOMAIN ready' = 1..Len(ready) + Len(q)
  BY <1>6, LenProperties
<1>8. \A n \in DOMAIN ready : n \in DOMAIN ready' /\ ready'[n] = ready[n]
  BY <1>1, <1>2, <1>6, <1>7
<1>9. ASSUME NEW n \in DOMAIN ready', n \notin DOMAIN ready
      PROVE  /\ n \in Nat /\ n > Len(ready) /\ n - Len(ready) \in DOMAIN q
             /\ ready'[n] = RunField(r, n - Len(ready))
  <2>1. n \in Nat /\ n > Len(ready) /\ n - Len(ready) \in 1..Len(q)
    BY <1>1, <1>2, <1>7, <1>9
  <2> QED
    BY <1>1, <1>2, <1>4, <1>6, <1>7, <2>1
<1> QED
  BY <1>1, <1>6, <1>8, <1>9

(* The fetches so far are of a request's loader.                           *)
LEMMA FetchFacts ==
  ASSUME RequestTypes
  PROVE  /\ Len(fetches) \in Nat /\ DOMAIN fetches = 1..Len(fetches)
         /\ \A n \in DOMAIN fetches :
              fetches[n].context \in Requests /\ fetches[n].loader \in Loaders
<1> DEFINE Fetch == [context : Requests, loader : Loaders, keys : Seq(Keys)]
<1>1. \A x \in Fetch : x.context \in Requests /\ x.loader \in Loaders
  OBVIOUS
<1>2. fetches \in Seq(Fetch)
  BY DEF RequestTypes
<1> HIDE DEF Fetch
<1> QED
  BY <1>1, <1>2, LenProperties, ElementOfSeq

-----------------------------------------------------------------------------
(* The fields of queries *)

(* When a field of a query moves on, to where a field of its kind may be,  *)
(* the others stay, and nothing changes for responses that are out: their  *)
(* fields had all been answered, or one of them had an invalid id.         *)
LEMMA FieldMoves ==
  ASSUME GraphQLInv, NEW r \in Requests, NEW i \in DOMAIN request[r], request[r] \in Queries,
         NEW v, field[r][i] \in {Ready, Loading}, request' = request, response' = response,
         field'[r][i] = v,
         \A q \in Requests : \A j \in DOMAIN request[q] :
           ~(q = r /\ j = i) => field'[q][j] = field[q][j],
         \/ /\ v = Loading
            /\ ~BadId(request[r][i]) /\ request[r][i].resolver # "network_status"
         \/ v = Said(Direct(request[r][i])) /\ ~BadId(request[r][i])
         \/ v = Error /\ BadId(request[r][i])
  PROVE  FieldsRight' /\ MutationsSaid' /\ ResponsesMatchDirectLookup'
<1>1. FieldsRight'
  <2> SUFFICES ASSUME NEW q \in Requests, request[q] \in Queries, NEW j \in DOMAIN request[q]
               PROVE  \/ field'[q][j] = Ready
                      \/ /\ field'[q][j] = Loading
                         /\ ~BadId(request[q][j]) /\ request[q][j].resolver # "network_status"
                      \/ ~BadId(request[q][j]) /\ field'[q][j] = Said(Direct(request[q][j]))
                      \/ field'[q][j] = Error /\ BadId(request[q][j])
    BY DEF FieldsRight
  <2>1. CASE q = r /\ j = i
    BY <2>1
  <2>2. CASE ~(q = r /\ j = i)
    <3>1. field'[q][j] = field[q][j]
      BY <2>2
    <3> QED
      BY <3>1 DEF GraphQLInv, FieldsRight
  <2> QED
    BY <2>1, <2>2
<1>2. MutationsSaid'
  <2> SUFFICES ASSUME NEW q \in Requests, request[q] \in Mutations, NEW j \in DOMAIN request[q]
               PROVE  field'[q][j] = Said(<<ActionToType(ActionResult(request[q][j].resolver))>>)
    BY DEF MutationsSaid
  <2>1. q # r
    BY AskedFacts
  <2> QED
    BY <2>1 DEF GraphQLInv, MutationsSaid
<1>3. ResponsesMatchDirectLookup'
  <2> SUFFICES ASSUME NEW q \in Requests, response[q] # "none", request[q] \in Queries
               PROVE  IF \E j \in DOMAIN request[q] : BadId(request[q][j])
                      THEN response[q] = "null"
                      ELSE /\ response[q] = "data"
                           /\ \A j \in DOMAIN request[q] :
                                field'[q][j] = Said(Direct(request[q][j]))
    BY DEF ResponsesMatchDirectLookup
  <2>1. IF \E j \in DOMAIN request[q] : BadId(request[q][j])
        THEN response[q] = "null"
        ELSE /\ response[q] = "data"
             /\ \A j \in DOMAIN request[q] : field[q][j] = Said(Direct(request[q][j]))
    BY DEF GraphQLInv, ResponsesMatchDirectLookup
  <2>2. CASE \E j \in DOMAIN request[q] : BadId(request[q][j])
    BY <2>1, <2>2
  <2>3. CASE ~\E j \in DOMAIN request[q] : BadId(request[q][j])
    <3>1. q # r
      BY <2>1, <2>3, FieldFacts
    <3> QED
      BY <2>1, <2>3, <3>1
  <2> QED
    BY <2>2, <2>3
<1> QED
  BY <1>1, <1>2, <1>3

-----------------------------------------------------------------------------
(* The invariant holds at the start and is kept by every step *)

(* At the start nothing is there.                                          *)
LEMMA InitInv == Init => GraphQLInv
<1> SUFFICES ASSUME Init
             PROVE  GraphQLInv
  OBVIOUS
<1> USE DEF Init
<1>1. DOMAIN <<>> = {}
  BY AskedFacts
<1>2. LoaderTypes
  <2>1. \A c \in Requests : \A ld \in Loaders : batch[c][ld] = <<>> /\ <<>> \in Seq(Keys)
    BY EmptySeq
  <2>2. \A c \in Requests : \A ld \in Loaders : \A k \in Keys : future[c][ld][k] = NoFuture
    OBVIOUS
  <2> QED
    BY <2>1, <2>2 DEF LoaderTypes
<1>3. RequestTypes
  <2> DEFINE Fetch == [context : Requests, loader : Loaders, keys : Seq(Keys)]
  <2>1. request \in [Requests -> Queries \cup Mutations \cup {<<>>}]
    OBVIOUS
  <2>2. <<>> \in Seq(Callbacks) /\ <<>> \in Seq(Fetch) /\ Len(<<>>) = 0
    <3> HIDE DEF Fetch
    <3> QED
      BY EmptySeq
  <2>3. arrived \in [Requests -> Nat] /\ \A r \in Requests : arrived[r] <= Len(fetches)
    BY <2>2
  <2>4. DOMAIN field = Requests /\ \A r \in Requests : DOMAIN field[r] = DOMAIN request[r]
    OBVIOUS
  <2>5. response \in [Requests -> {"none", "data", "null"}]
    OBVIOUS
  <2> QED
    BY <2>1, <2>2, <2>3, <2>4, <2>5 DEF RequestTypes
<1>4. CallbacksFit
  BY <1>1 DEF CallbacksFit
<1>5. FieldsFirst
  BY <1>1 DEF FieldsFirst
<1>6. BatchFits
  BY <1>1, FutureFacts DEF BatchFits, IsInjective, Range
<1>7. OneFetchPerLoader /\ NothingAfterFetch
  BY <1>1 DEF OneFetchPerLoader, NothingAfterFetch
<1>8. DoneIsFetched
  BY FutureFacts DEF DoneIsFetched
<1>9. FreshLoaders
  BY DEF FreshLoaders
<1>10. FieldsRight /\ MutationsSaid
  BY AskedFacts DEF FieldsRight, MutationsSaid
<1>11. AnsweredFromOwnFetch
  BY <1>1 DEF AnsweredFromOwnFetch
<1>12. ResponsesMatchDirectLookup
  BY DEF ResponsesMatchDirectLookup
<1> QED
  BY <1>2, <1>3, <1>4, <1>5, <1>6, <1>7, <1>8, <1>9, <1>10, <1>11, <1>12 DEF GraphQLInv

(* Steps that leave the loaders alone leave what they have fetched.        *)
LEMMA LoadersKept ==
  ASSUME GraphQLInv, future' = future, batch' = batch, fetches' = fetches, arrived' = arrived
  PROVE  LoaderTypes' /\ BatchFits' /\ OneFetchPerLoader' /\ DoneIsFetched'
<1>1. LoaderTypes'
  BY DEF GraphQLInv, LoaderTypes
<1>2. BatchFits'
  BY DEF GraphQLInv, BatchFits
<1>3. OneFetchPerLoader'
  BY DEF GraphQLInv, OneFetchPerLoader
<1>4. DoneIsFetched'
  BY DEF GraphQLInv, DoneIsFetched
<1> QED
  BY <1>1, <1>2, <1>3, <1>4

(* A field that settles has asked no loader for anything new.              *)
LEMMA SettleStep ==
  ASSUME GraphQLInv, NEW r \in Requests, NEW i \in DOMAIN request[r],
         ready # <<>>, Head(ready) = RunField(r, i), NEW v, Settle(r, i, v),
         \/ /\ v = Loading
            /\ ~BadId(request[r][i]) /\ request[r][i].resolver # "network_status"
         \/ v = Said(Direct(request[r][i])) /\ request[r][i].resolver = "network_status"
         \/ v = Error /\ BadId(request[r][i])
  PROVE  GraphQLInv'
<1>1. /\ field' = [field EXCEPT ![r][i] = v] /\ ready' = Tail(ready)
      /\ request' = request /\ future' = future /\ batch' = batch /\ fetches' = fetches
      /\ arrived' = arrived /\ response' = response
  BY DEF Settle
<1>2. /\ 1 \in DOMAIN ready /\ ready[1] = RunField(r, i)
      /\ ready' \in Seq(Callbacks)
      /\ \A n \in DOMAIN ready' : /\ n \in Nat /\ n + 1 \in DOMAIN ready
                                  /\ ready'[n] = ready[n + 1] /\ ready'[n] # RunField(r, i)
      /\ \A n \in DOMAIN ready : ready[n] # RunField(r, i) =>
           \E m \in DOMAIN ready' : ready'[m] = ready[n]
  BY <1>1, HeadIsRun DEF GraphQLInv
<1>3. request[r] \in Queries /\ field[r][i] = Ready
  BY <1>2, CallbackFacts DEF GraphQLInv, CallbacksFit
<1>4. /\ field[r][i] \in {Ready, Loading}
      /\ \/ /\ v = Loading
            /\ ~BadId(request[r][i]) /\ request[r][i].resolver # "network_status"
         \/ v = Said(Direct(request[r][i])) /\ ~BadId(request[r][i])
         \/ v = Error /\ BadId(request[r][i])
  BY <1>3 DEF BadId
<1>5. /\ DOMAIN field' = Requests
      /\ \A q \in Requests : DOMAIN field'[q] = DOMAIN request[q]
      /\ field'[r][i] = v
      /\ \A q \in Requests : \A j \in DOMAIN request[q] :
           ~(q = r /\ j = i) => field'[q][j] = field[q][j]
      /\ FieldsRight' /\ MutationsSaid' /\ ResponsesMatchDirectLookup'
  <2>1. /\ DOMAIN field = Requests /\ DOMAIN field[r] = DOMAIN request[r]
        /\ \A q \in Requests : DOMAIN field[q] = DOMAIN request[q]
    BY DEF GraphQLInv, RequestTypes
  <2>2. /\ DOMAIN field' = Requests
        /\ \A q \in Requests : q # r => field'[q] = field[q]
        /\ field'[r] = [field[r] EXCEPT ![i] = v]
    BY <1>1, <2>1
  <2>3. /\ \A q \in Requests : DOMAIN field'[q] = DOMAIN request[q]
        /\ field'[r][i] = v
        /\ \A q \in Requests : \A j \in DOMAIN request[q] :
             ~(q = r /\ j = i) => field'[q][j] = field[q][j]
    BY <2>1, <2>2
  <2>4. request' = request /\ response' = response
    BY <1>1
  <2>5. FieldsRight' /\ MutationsSaid' /\ ResponsesMatchDirectLookup'
    BY <1>3, <1>4, <2>3, <2>4, FieldMoves
  <2> QED
    BY <2>2, <2>3, <2>5
<1>6. LoaderTypes' /\ BatchFits' /\ OneFetchPerLoader' /\ DoneIsFetched' /\ FreshLoaders'
  <2>1. FreshLoaders'
    BY <1>1 DEF GraphQLInv, FreshLoaders
  <2> QED
    BY <1>1, <2>1, LoadersKept
<1>7. RequestTypes'
  BY <1>1, <1>2, <1>5 DEF GraphQLInv, RequestTypes
<1>8. CallbacksFit'
  <2>1. ASSUME NEW n \in DOMAIN ready'
        PROVE  \/ \E q \in Requests : \E j \in DOMAIN request[q] :
                    /\ ready'[n] = RunField(q, j)
                    /\ request[q] \in Queries /\ field'[q][j] = Ready
               \/ \E c \in Requests, ld \in Loaders :
                    ready'[n] = RunDispatch(c, ld) /\ batch[c][ld] # <<>>
    <3>1. n + 1 \in DOMAIN ready /\ ready'[n] = ready[n + 1] /\ ready'[n] # RunField(r, i)
      BY <1>2
    <3>2. \/ \E q \in Requests : \E j \in DOMAIN request[q] :
               /\ ready'[n] = RunField(q, j)
               /\ request[q] \in Queries /\ field[q][j] = Ready
          \/ \E c \in Requests, ld \in Loaders :
               ready'[n] = RunDispatch(c, ld) /\ batch[c][ld] # <<>>
      BY <3>1 DEF GraphQLInv, CallbacksFit
    <3> QED
      BY <1>5, <3>1, <3>2
  <2>2. ASSUME NEW c \in Requests, NEW ld \in Loaders, batch[c][ld] # <<>>
        PROVE  \E n \in DOMAIN ready' : ready'[n] = RunDispatch(c, ld)
    <3>1. PICK n \in DOMAIN ready : ready[n] = RunDispatch(c, ld)
      BY <2>2 DEF GraphQLInv, CallbacksFit
    <3> QED
      BY <1>2, <3>1, CallbackFacts
  <2>3. ASSUME NEW m \in DOMAIN ready', NEW n \in DOMAIN ready', m # n
        PROVE  ready'[m] # ready'[n]
    <3>1. m + 1 # n + 1
      BY <1>2, <2>3
    <3> QED
      BY <1>2, <3>1 DEF GraphQLInv, CallbacksFit
  <2> QED
    BY <1>1, <2>1, <2>2, <2>3 DEF CallbacksFit
<1>9. FieldsFirst'
  <2> SUFFICES ASSUME NEW m \in DOMAIN ready', NEW n \in DOMAIN ready', NEW c \in Requests,
                      NEW ld \in Loaders, NEW j \in DOMAIN request[c],
                      ready'[m] = RunDispatch(c, ld), ready'[n] = RunField(c, j)
               PROVE  n < m
    BY <1>1 DEF FieldsFirst
  <2>1. n + 1 < m + 1
    BY <1>2 DEF GraphQLInv, FieldsFirst
  <2> QED
    BY <1>2, <2>1
<1>10. NothingAfterFetch'
  <2>1. ASSUME NEW n \in DOMAIN fetches, NEW m \in DOMAIN ready',
               NEW j \in DOMAIN request[fetches[n].context]
        PROVE  ready'[m] # RunField(fetches[n].context, j)
    BY <1>2 DEF GraphQLInv, NothingAfterFetch
  <2> QED
    BY <1>1, <2>1 DEF GraphQLInv, NothingAfterFetch
<1>11. AnsweredFromOwnFetch'
  <2> SUFFICES ASSUME NEW q \in Requests, NEW j \in DOMAIN request[q], request[q] \in Queries,
                      field'[q][j].status = "answered",
                      request[q][j].resolver # "network_status"
               PROVE  \E n \in arrived[q] + 1 .. Len(fetches) :
                        /\ fetches[n].context = q
                        /\ IF request[q][j].resolver = "account_balance"
                           THEN /\ fetches[n].loader = "account"
                                /\ request[q][j].key \in Range(fetches[n].keys)
                           ELSE /\ fetches[n].loader = "transaction"
                                /\ UUID[request[q][j].key] \in Range(fetches[n].keys)
    BY <1>1, <1>5 DEF AnsweredFromOwnFetch
  <2>1. ~(q = r /\ j = i)
    BY <1>5, FieldFacts
  <2>2. field'[q][j] = field[q][j] /\ j \in DOMAIN field[q]
    BY <1>5, <2>1 DEF GraphQLInv, RequestTypes
  <2> QED
    BY <2>2 DEF GraphQLInv, AnsweredFromOwnFetch
<1> QED
  BY <1>5, <1>6, <1>7, <1>8, <1>9, <1>10, <1>11 DEF GraphQLInv

(* Steps that run no callback leave those that are ready.                  *)
LEMMA CallbacksKept ==
  ASSUME GraphQLInv, request' = request, ready' = ready, batch' = batch, fetches' = fetches,
         \A q \in Requests : \A j \in DOMAIN request[q] :
           field[q][j] = Ready => field'[q][j] = Ready
  PROVE  CallbacksFit' /\ FieldsFirst' /\ NothingAfterFetch'
<1>1. CallbacksFit'
  <2>1. ASSUME NEW n \in DOMAIN ready
        PROVE  \/ \E q \in Requests : \E j \in DOMAIN request[q] :
                    /\ ready[n] = RunField(q, j)
                    /\ request[q] \in Queries /\ field'[q][j] = Ready
               \/ \E c \in Requests, ld \in Loaders :
                    ready[n] = RunDispatch(c, ld) /\ batch[c][ld] # <<>>
    BY DEF GraphQLInv, CallbacksFit
  <2>2. /\ \A c \in Requests, ld \in Loaders :
             batch[c][ld] # <<>> => \E n \in DOMAIN ready : ready[n] = RunDispatch(c, ld)
        /\ \A m, n \in DOMAIN ready : m # n => ready[m] # ready[n]
    BY DEF GraphQLInv, CallbacksFit
  <2> QED
    BY <2>1, <2>2 DEF CallbacksFit
<1>2. FieldsFirst'
  BY DEF GraphQLInv, FieldsFirst
<1>3. NothingAfterFetch'
  BY DEF GraphQLInv, NothingAfterFetch
<1> QED
  BY <1>1, <1>2, <1>3

(* A response has all the data its query asks for, or none if an id in it  *)
(* is invalid.                                                             *)
LEMMA RespondStep ==
  ASSUME GraphQLInv, NEW r \in Requests, Respond(r)
  PROVE  GraphQLInv'
<1>1. /\ request' = request /\ ready' = ready /\ future' = future /\ batch' = batch
      /\ fetches' = fetches /\ arrived' = arrived /\ field' = field
      /\ request[r] # <<>> /\ response[r] = "none"
  BY DEF Respond
<1>2. LoaderTypes' /\ BatchFits' /\ OneFetchPerLoader' /\ DoneIsFetched'
  BY <1>1, LoadersKept
<1>3. CallbacksFit' /\ FieldsFirst' /\ NothingAfterFetch'
  BY <1>1, CallbacksKept
<1>4. response' = [response EXCEPT ![r] = IF HistoryFailed(r) THEN "null" ELSE "data"]
  BY DEF Respond
<1>5. response \in [Requests -> {"none", "data", "null"}]
  BY DEF GraphQLInv, RequestTypes
<1>6. /\ response'[r] = IF HistoryFailed(r) THEN "null" ELSE "data"
      /\ \A q \in Requests : q # r => response'[q] = response[q]
      /\ response' \in [Requests -> {"none", "data", "null"}]
  BY <1>4, <1>5
<1>7. RequestTypes'
  BY <1>1, <1>6 DEF GraphQLInv, RequestTypes
<1>8. FreshLoaders'
  BY <1>1, <1>6 DEF GraphQLInv, FreshLoaders
<1>9. FieldsRight' /\ MutationsSaid'
  BY <1>1 DEF GraphQLInv, FieldsRight, MutationsSaid
<1>10. AnsweredFromOwnFetch'
  BY <1>1 DEF GraphQLInv, AnsweredFromOwnFetch
<1>11. ResponsesMatchDirectLookup'
  <2> SUFFICES ASSUME NEW q \in Requests, response'[q] # "none", request[q] \in Queries
               PROVE  IF \E j \in DOMAIN request[q] : BadId(request[q][j])
                      THEN response'[q] = "null"
                      ELSE /\ response'[q] = "data"
                           /\ \A j \in DOMAIN request[q] :
                                field[q][j] = Said(Direct(request[q][j]))
    BY <1>1 DEF ResponsesMatchDirectLookup
  <2>1. CASE q # r
    BY <1>6, <2>1 DEF GraphQLInv, ResponsesMatchDirectLookup
  <2>2. CASE q = r
    <3>1. DOMAIN field[r] = DOMAIN request[r]
      BY DEF GraphQLInv, RequestTypes
    <3>2. \A j \in DOMAIN request[r] :
            \/ field[r][j] = Ready
            \/ field[r][j] = Loading /\ ~BadId(request[r][j])
            \/ ~BadId(request[r][j]) /\ field[r][j] = Said(Direct(request[r][j]))
            \/ field[r][j] = Error /\ BadId(request[r][j])
      BY <2>2 DEF GraphQLInv, FieldsRight
    <3>3. \/ HistoryFailed(r)
          \/ \A j \in DOMAIN request[r] : field[r][j].status \in {"answered", "error"}
      BY <3>1 DEF Respond
    <3>4. HistoryFailed(r) <=> \E j \in DOMAIN request[r] : field[r][j] = Error
      BY <3>1, <3>2, FieldFacts DEF HistoryFailed, BadId
    <3>5. CASE HistoryFailed(r)
      BY <1>6, <2>2, <3>2, <3>4, <3>5, FieldFacts
    <3>6. CASE ~HistoryFailed(r)
      <4>1. \A j \in DOMAIN request[r] :
              ~BadId(request[r][j]) /\ field[r][j] = Said(Direct(request[r][j]))
        BY <3>2, <3>3, <3>4, <3>6, FieldFacts
      <4> QED
        BY <1>6, <2>2, <3>6, <4>1
    <3> QED
      BY <3>5, <3>6
  <2> QED
    BY <2>1, <2>2
<1> QED
  BY <1>2, <1>3, <1>7, <1>8, <1>9, <1>10, <1>11 DEF GraphQLInv

(* What a field that waits is told are the rows of its own key, fetched    *)
(* since its request came.                                                 *)
LEMMA ResumeStep ==
  ASSUME GraphQLInv, NEW r \in Requests, NEW i \in DOMAIN field[r], Resume(r, i)
  PROVE  GraphQLInv'
<1> DEFINE f == request[r][i]
           ld == IF f.resolver = "account_balance" THEN "account" ELSE "transaction"
           k == IF f.resolver = "account_balance" THEN f.key ELSE UUID[f.key]
           v == Said(Direct(f))
<1>1. /\ DOMAIN field = Requests /\ DOMAIN field[r] = DOMAIN request[r]
      /\ \A q \in Requests : DOMAIN field[q] = DOMAIN request[q]
  BY DEF GraphQLInv, RequestTypes
<1>2. /\ request' = request /\ ready' = ready /\ future' = future /\ batch' = batch
      /\ fetches' = fetches /\ arrived' = arrived /\ response' = response
      /\ field[r][i] = Loading
  BY DEF Resume
<1>3. request[r] \in Queries
  <2>1. request[r] \in Queries \cup Mutations \cup {<<>>}
    BY DEF GraphQLInv, RequestTypes
  <2>2. request[r] # <<>>
    BY <1>1, AskedFacts
  <2>3. request[r] \notin Mutations
    <3>1. request[r] \in Mutations => \E a : field[r][i] = Said(a)
      BY <1>1 DEF GraphQLInv, MutationsSaid
    <3> QED
      BY <1>2, <3>1, FieldFacts
  <2> QED
    BY <2>1, <2>2, <2>3
<1>4. ~BadId(f) /\ f.resolver # "network_status"
  BY <1>1, <1>2, <1>3, FieldFacts DEF GraphQLInv, FieldsRight
<1>5. /\ f.resolver \in {"account_balance", "transaction_history"} /\ f.last \in Int
      /\ ld \in Loaders /\ k \in Keys
  BY <1>1, <1>3, <1>4, FieldAsked DEF Loaders
<1>6. Awaited(r, f) = future[r][ld][k]
  BY <1>5 DEF Awaited, Context
<1>7. future[r][ld][k] \in {NoFuture, Pending, Done(Lookup(ld, k))}
  <2> HIDE DEF f, ld, k
  <2> QED
    BY <1>5 DEF GraphQLInv, LoaderTypes
<1>8. future[r][ld][k] = Done(Lookup(ld, k))
  <2>1. future[r][ld][k].status \in {"done", "raised"}
    BY <1>6 DEF Resume
  <2> HIDE DEF f, ld, k
  <2> QED
    BY <1>7, <2>1, FutureFacts
<1>9. Direct(f) = Answer(f, Lookup(ld, k))
  BY <1>5, AnswerIsDirect
<1>10. field' = [field EXCEPT ![r][i] = v]
  <2>1. Awaited(r, f).status = "done" /\ Awaited(r, f).rows = Lookup(ld, k)
    <3> HIDE DEF f, ld, k
    <3> QED
      BY <1>6, <1>8, FutureFacts
  <2>2. field' = [field EXCEPT ![r][i] =
                    IF Awaited(r, f).status = "done"
                    THEN Said(Answer(f, Awaited(r, f).rows)) ELSE Error]
    BY DEF Resume
  <2> HIDE DEF f, ld, k
  <2> QED
    BY <1>9, <2>1, <2>2
<1>11. /\ DOMAIN field' = Requests
       /\ \A q \in Requests : q # r => field'[q] = field[q]
       /\ field'[r] = [field[r] EXCEPT ![i] = v]
  <2> HIDE DEF v
  <2> QED
    BY <1>1, <1>10
<1>12. /\ \A q \in Requests : DOMAIN field'[q] = DOMAIN request[q]
       /\ field'[r][i] = v
       /\ \A q \in Requests : \A j \in DOMAIN request[q] :
            ~(q = r /\ j = i) => field'[q][j] = field[q][j]
  <2> HIDE DEF v
  <2> QED
    BY <1>1, <1>11
<1>13. FieldsRight' /\ MutationsSaid' /\ ResponsesMatchDirectLookup'
  <2>1. i \in DOMAIN request[r] /\ field[r][i] \in {Ready, Loading}
    BY <1>1, <1>2
  <2>2. v = Said(Direct(request[r][i])) /\ ~BadId(request[r][i])
    BY <1>4
  <2>3. request' = request /\ response' = response
    BY <1>2
  <2> HIDE DEF v
  <2> QED
    BY <1>3, <1>12, <2>1, <2>2, <2>3, FieldMoves
<1>14. LoaderTypes' /\ BatchFits' /\ OneFetchPerLoader' /\ DoneIsFetched'
  BY <1>2, LoadersKept
<1>15. CallbacksFit' /\ FieldsFirst' /\ NothingAfterFetch'
  <2>1. \A q \in Requests : \A j \in DOMAIN request[q] :
          field[q][j] = Ready => field'[q][j] = Ready
    BY <1>2, <1>12, FieldFacts
  <2> QED
    BY <1>2, <2>1, CallbacksKept
<1>16. RequestTypes'
  BY <1>2, <1>11, <1>12 DEF GraphQLInv, RequestTypes
<1>17. FreshLoaders'
  BY <1>2 DEF GraphQLInv, FreshLoaders
<1>18. AnsweredFromOwnFetch'
  <2> SUFFICES ASSUME NEW q \in Requests, NEW j \in DOMAIN request[q], request[q] \in Queries,
                      field'[q][j].status = "answered",
                      request[q][j].resolver # "network_status"
               PROVE  \E n \in arrived[q] + 1 .. Len(fetches) :
                        /\ fetches[n].context = q
                        /\ IF request[q][j].resolver = "account_balance"
                           THEN /\ fetches[n].loader = "account"
                                /\ request[q][j].key \in Range(fetches[n].keys)
                           ELSE /\ fetches[n].loader = "transaction"
                                /\ UUID[request[q][j].key] \in Range(fetches[n].keys)
    BY <1>2, <1>12 DEF AnsweredFromOwnFetch
  <2>1. CASE q = r /\ j = i
    <3>1. future[r][ld][k].status = "done"
      <4> HIDE DEF ld, k
      <4> QED
        BY <1>8, FutureFacts
    <3>2. \E n \in arrived[r] + 1 .. Len(fetches) :
            /\ fetches[n].context = r /\ fetches[n].loader = ld
            /\ k \in Range(fetches[n].keys)
      <4> HIDE DEF ld, k
      <4> QED
        BY <1>5, <3>1 DEF GraphQLInv, DoneIsFetched
    <3> QED
      BY <2>1, <3>2
  <2>2. CASE ~(q = r /\ j = i)
    <3>1. field'[q][j] = field[q][j] /\ j \in DOMAIN field[q]
      BY <1>1, <1>12, <2>2
    <3> QED
      BY <3>1 DEF GraphQLInv, AnsweredFromOwnFetch
  <2> QED
    BY <2>1, <2>2
<1> QED
  BY <1>13, <1>14, <1>15, <1>16, <1>17, <1>18 DEF GraphQLInv

(* When a request comes, its loaders are fresh, and the others are left.   *)
LEMMA RequestComes ==
  ASSUME GraphQLInv, NEW r \in Requests, request[r] = <<>>, NEW q \in Queries \cup Mutations,
         request' = [request EXCEPT ![r] = q], arrived' = [arrived EXCEPT ![r] = Len(fetches)],
         future' = future, batch' = batch, fetches' = fetches,
         \A p \in Requests : p # r => field'[p] = field[p]
  PROVE  /\ request'[r] = q /\ q # <<>>
         /\ \A p \in Requests : p # r => request'[p] = request[p]
         /\ request' \in [Requests -> Queries \cup Mutations \cup {<<>>}]
         /\ arrived' \in [Requests -> Nat] /\ \A p \in Requests : arrived'[p] <= Len(fetches)
         /\ response[r] = "none"
         /\ \A ld \in Loaders : batch[r][ld] = <<>>
         /\ \A n \in DOMAIN ready : \A p \in Requests :
              /\ \A i : ready[n] = RunField(p, i) => p # r
              /\ \A ld \in Loaders : ready[n] = RunDispatch(p, ld) => p # r
         /\ LoaderTypes' /\ BatchFits' /\ OneFetchPerLoader' /\ DoneIsFetched'
<1>1. /\ request \in [Requests -> Queries \cup Mutations \cup {<<>>}]
      /\ arrived \in [Requests -> Nat] /\ \A p \in Requests : arrived[p] <= Len(fetches)
  BY DEF GraphQLInv, RequestTypes
<1>2. Len(fetches) \in Nat
  BY FetchFacts DEF GraphQLInv
<1>3. /\ request'[r] = q /\ \A p \in Requests : p # r => request'[p] = request[p]
      /\ request' \in [Requests -> Queries \cup Mutations \cup {<<>>}]
  BY <1>1
<1>4. /\ arrived'[r] = Len(fetches) /\ \A p \in Requests : p # r => arrived'[p] = arrived[p]
      /\ arrived' \in [Requests -> Nat]
  BY <1>1, <1>2
<1>5. \A p \in Requests : arrived'[p] <= Len(fetches)
  BY <1>1, <1>2, <1>4
<1>6. /\ response[r] = "none"
      /\ \A ld \in Loaders : batch[r][ld] = <<>> /\ \A k \in Keys : future[r][ld][k] = NoFuture
  BY DEF GraphQLInv, FreshLoaders
<1>7. ASSUME NEW n \in DOMAIN ready, NEW p \in Requests
      PROVE  /\ \A i : ready[n] = RunField(p, i) => p # r
             /\ \A ld \in Loaders : ready[n] = RunDispatch(p, ld) => p # r
  <2>1. \/ \E c \in Requests : \E j \in DOMAIN request[c] : ready[n] = RunField(c, j)
        \/ \E c \in Requests, ld \in Loaders : ready[n] = RunDispatch(c, ld) /\ batch[c][ld] # <<>>
    BY DEF GraphQLInv, CallbacksFit
  <2>2. DOMAIN request[r] = {}
    BY AskedFacts
  <2> QED
    BY <1>6, <2>1, <2>2, CallbackFacts
<1>8. LoaderTypes' /\ BatchFits' /\ OneFetchPerLoader'
  <2>1. LoaderTypes'
    BY DEF GraphQLInv, LoaderTypes
  <2>2. BatchFits'
    BY DEF GraphQLInv, BatchFits
  <2>3. OneFetchPerLoader'
    BY DEF GraphQLInv, OneFetchPerLoader
  <2> QED
    BY <2>1, <2>2, <2>3
<1>9. DoneIsFetched'
  <2> SUFFICES ASSUME NEW c \in Requests, NEW ld \in Loaders, NEW k \in Keys,
                      future[c][ld][k].status = "done"
               PROVE  \E n \in arrived'[c] + 1 .. Len(fetches) :
                        /\ fetches[n].context = c /\ fetches[n].loader = ld
                        /\ k \in Range(fetches[n].keys)
    BY DEF DoneIsFetched
  <2>1. c # r
    BY <1>6, FutureFacts
  <2> QED
    BY <1>4, <2>1 DEF GraphQLInv, DoneIsFetched
<1>10. q # <<>>
  BY AskedFacts
<1> QED
  BY <1>3, <1>4, <1>5, <1>6, <1>7, <1>8, <1>9, <1>10

(* The fields of a query are ready, and nothing else has changed for the   *)
(* other requests.                                                         *)
LEMMA QueryStep ==
  ASSUME GraphQLInv, NEW r \in Requests, NEW q \in Queries, Query(r, q)
  PROVE  GraphQLInv'
<1>1. /\ request[r] = <<>> /\ request' = [request EXCEPT ![r] = q]
      /\ arrived' = [arrived EXCEPT ![r] = Len(fetches)]
      /\ future' = future /\ batch' = batch /\ fetches' = fetches /\ response' = response
  BY DEF Query
<1>2. DOMAIN field = Requests /\ \A p \in Requests : DOMAIN field[p] = DOMAIN request[p]
  BY DEF GraphQLInv, RequestTypes
<1>3. /\ DOMAIN field' = Requests
      /\ \A p \in Requests : p # r => field'[p] = field[p]
      /\ DOMAIN field'[r] = DOMAIN q /\ \A i \in DOMAIN q : field'[r][i] = Ready
  BY <1>2 DEF Query
<1>4. /\ request'[r] = q /\ q # <<>>
      /\ \A p \in Requests : p # r => request'[p] = request[p]
      /\ request' \in [Requests -> Queries \cup Mutations \cup {<<>>}]
      /\ arrived' \in [Requests -> Nat] /\ \A p \in Requests : arrived'[p] <= Len(fetches)
      /\ response[r] = "none"
      /\ \A ld \in Loaders : batch[r][ld] = <<>>
      /\ \A n \in DOMAIN ready : \A p \in Requests :
           /\ \A i : ready[n] = RunField(p, i) => p # r
           /\ \A ld \in Loaders : ready[n] = RunDispatch(p, ld) => p # r
      /\ LoaderTypes' /\ BatchFits' /\ OneFetchPerLoader' /\ DoneIsFetched'
  BY <1>1, <1>3, RequestComes
<1>5. \A p \in Requests : p # r => arrived'[p] = arrived[p]
  BY <1>1 DEF GraphQLInv, RequestTypes
<1>6. /\ ready' \in Seq(Callbacks)
      /\ \A n \in DOMAIN ready : n \in DOMAIN ready' /\ ready'[n] = ready[n]
      /\ \A n \in DOMAIN ready' :
           \/ n \in DOMAIN ready /\ ready'[n] = ready[n]
           \/ /\ n \in Nat /\ n > Len(ready) /\ n - Len(ready) \in DOMAIN q
              /\ ready'[n] = RunField(r, n - Len(ready))
      /\ DOMAIN ready = 1..Len(ready) /\ Len(ready) \in Nat
  <2>1. ready' = ready \o [i \in DOMAIN q |-> RunField(r, i)] /\ RequestTypes
    BY DEF Query, GraphQLInv
  <2> QED
    BY <2>1, FieldsQueued
<1>7. RequestTypes'
  <2>1. \A p \in Requests : DOMAIN field'[p] = DOMAIN request'[p]
    BY <1>2, <1>3, <1>4
  <2> QED
    BY <1>1, <1>3, <1>4, <1>6, <2>1 DEF GraphQLInv, RequestTypes
<1>8. CallbacksFit'
  <2>1. ASSUME NEW n \in DOMAIN ready'
        PROVE  \/ \E p \in Requests : \E j \in DOMAIN request'[p] :
                    /\ ready'[n] = RunField(p, j)
                    /\ request'[p] \in Queries /\ field'[p][j] = Ready
               \/ \E c \in Requests, ld \in Loaders :
                    ready'[n] = RunDispatch(c, ld) /\ batch[c][ld] # <<>>
    <3>1. CASE n \in DOMAIN ready /\ ready'[n] = ready[n]
      <4>1. \/ \E p \in Requests : \E j \in DOMAIN request[p] :
                 /\ ready[n] = RunField(p, j)
                 /\ request[p] \in Queries /\ field[p][j] = Ready
            \/ \E c \in Requests, ld \in Loaders :
                 ready[n] = RunDispatch(c, ld) /\ batch[c][ld] # <<>>
        BY <3>1 DEF GraphQLInv, CallbacksFit
      <4>2. \A p \in Requests : \A j : ready[n] = RunField(p, j) => p # r
        BY <1>4, <3>1
      <4> QED
        BY <1>3, <1>4, <3>1, <4>1, <4>2
    <3>2. CASE n - Len(ready) \in DOMAIN q /\ ready'[n] = RunField(r, n - Len(ready))
      BY <1>3, <1>4, <3>2
    <3> QED
      BY <1>6, <3>1, <3>2
  <2>2. ASSUME NEW c \in Requests, NEW ld \in Loaders, batch[c][ld] # <<>>
        PROVE  \E n \in DOMAIN ready' : ready'[n] = RunDispatch(c, ld)
    <3>1. PICK n \in DOMAIN ready : ready[n] = RunDispatch(c, ld)
      BY <2>2 DEF GraphQLInv, CallbacksFit
    <3> QED
      BY <1>6, <3>1
  <2>3. ASSUME NEW m \in DOMAIN ready', NEW n \in DOMAIN ready', m < n
        PROVE  ready'[m] # ready'[n]
    <3>1. CASE n \in DOMAIN ready /\ ready'[n] = ready[n]
      <4>1. m \in DOMAIN ready /\ ready'[m] = ready[m] /\ m # n
        BY <1>6, <2>3, <3>1
      <4> QED
        BY <3>1, <4>1 DEF GraphQLInv, CallbacksFit
    <3>2. CASE n - Len(ready) \in DOMAIN q /\ ready'[n] = RunField(r, n - Len(ready))
      <4>1. CASE m \in DOMAIN ready /\ ready'[m] = ready[m]
        BY <1>4, <3>2, <4>1
      <4>2. CASE ready'[m] = RunField(r, m - Len(ready)) /\ m \in Nat /\ m > Len(ready)
        <5>1. n \in Nat /\ m - Len(ready) # n - Len(ready)
          BY <1>6, <2>3, <4>2
        <5> QED
          BY <3>2, <4>2, <5>1, CallbackFacts
      <4> QED
        BY <1>6, <4>1, <4>2
    <3> QED
      BY <1>6, <3>1, <3>2
  <2>4. ASSUME NEW m \in DOMAIN ready', NEW n \in DOMAIN ready', m # n
        PROVE  ready'[m] # ready'[n]
    <3>1. m \in Nat /\ n \in Nat
      BY <1>6
    <3>2. m < n \/ n < m
      BY <2>4, <3>1
    <3> QED
      BY <2>3, <3>2
  <2> QED
    BY <1>1, <2>1, <2>2, <2>4 DEF CallbacksFit
<1>9. FieldsFirst'
  <2> SUFFICES ASSUME NEW m \in DOMAIN ready', NEW n \in DOMAIN ready', NEW c \in Requests,
                      NEW ld \in Loaders, NEW j \in DOMAIN request'[c],
                      ready'[m] = RunDispatch(c, ld), ready'[n] = RunField(c, j)
               PROVE  n < m
    BY DEF FieldsFirst
  <2>1. m \in DOMAIN ready /\ ready[m] = RunDispatch(c, ld)
    BY <1>6, CallbackFacts
  <2>2. c # r
    BY <1>4, <2>1
  <2>3. n \in DOMAIN ready /\ ready[n] = RunField(c, j)
    BY <1>6, <2>2, CallbackFacts
  <2> QED
    BY <1>4, <2>1, <2>2, <2>3 DEF GraphQLInv, FieldsFirst
<1>10. NothingAfterFetch'
  <2> SUFFICES ASSUME NEW n \in DOMAIN fetches
               PROVE  /\ request'[fetches[n].context] # <<>>
                      /\ batch[fetches[n].context][fetches[n].loader] = <<>>
                      /\ \A m \in DOMAIN ready' : \A j \in DOMAIN request'[fetches[n].context] :
                           ready'[m] # RunField(fetches[n].context, j)
    BY <1>1 DEF NothingAfterFetch
  <2>1. fetches[n].context \in Requests
    BY FetchFacts DEF GraphQLInv
  <2>2. /\ request[fetches[n].context] # <<>>
        /\ batch[fetches[n].context][fetches[n].loader] = <<>>
        /\ \A m \in DOMAIN ready : \A j \in DOMAIN request[fetches[n].context] :
             ready[m] # RunField(fetches[n].context, j)
    BY DEF GraphQLInv, NothingAfterFetch
  <2>3. fetches[n].context # r
    BY <1>1, <2>2
  <2>4. request'[fetches[n].context] = request[fetches[n].context]
    BY <1>4, <2>1, <2>3
  <2>5. ASSUME NEW m \in DOMAIN ready', NEW j \in DOMAIN request[fetches[n].context]
        PROVE  ready'[m] # RunField(fetches[n].context, j)
    <3>1. CASE m \in DOMAIN ready /\ ready'[m] = ready[m]
      BY <2>2, <3>1
    <3>2. CASE ready'[m] = RunField(r, m - Len(ready))
      BY <2>3, <3>2, CallbackFacts
    <3> QED
      BY <1>6, <3>1, <3>2
  <2> QED
    BY <2>2, <2>4, <2>5
<1>11. FreshLoaders'
  BY <1>1, <1>4 DEF GraphQLInv, FreshLoaders
<1>12. FieldsRight'
  BY <1>3, <1>4 DEF GraphQLInv, FieldsRight
<1>13. MutationsSaid'
  <2>1. q \notin Mutations
    BY AskedFacts
  <2> QED
    <3>1. ASSUME NEW p \in Requests, request'[p] \in Mutations
          PROVE  p # r /\ field'[p] = field[p] /\ request'[p] = request[p]
      BY <1>3, <1>4, <2>1, <3>1
    <3> QED
      BY <3>1 DEF GraphQLInv, MutationsSaid
<1>14. AnsweredFromOwnFetch'
  <2> SUFFICES ASSUME NEW p \in Requests, NEW j \in DOMAIN field'[p], request'[p] \in Queries,
                      field'[p][j].status = "answered",
                      request'[p][j].resolver # "network_status"
               PROVE  \E n \in arrived'[p] + 1 .. Len(fetches) :
                        /\ fetches[n].context = p
                        /\ IF request'[p][j].resolver = "account_balance"
                           THEN /\ fetches[n].loader = "account"
                                /\ request'[p][j].key \in Range(fetches[n].keys)
                           ELSE /\ fetches[n].loader = "transaction"
                                /\ UUID[request'[p][j].key] \in Range(fetches[n].keys)
    BY <1>1 DEF AnsweredFromOwnFetch
  <2>1. p # r
    BY <1>3, FieldFacts
  <2>2. field'[p] = field[p] /\ request'[p] = request[p] /\ arrived'[p] = arrived[p]
    BY <1>3, <1>4, <1>5, <2>1
  <2> QED
    BY <2>2 DEF GraphQLInv, AnsweredFromOwnFetch
<1>15. ResponsesMatchDirectLookup'
  <2> SUFFICES ASSUME NEW p \in Requests, response[p] # "none", request'[p] \in Queries
               PROVE  IF \E j \in DOMAIN request'[p] : BadId(request'[p][j])
                      THEN response[p] = "null"
                      ELSE /\ response[p] = "data"
                           /\ \A j \in DOMAIN request'[p] :
                                field'[p][j] = Said(Direct(request'[p][j]))
    BY <1>1 DEF ResponsesMatchDirectLookup
  <2>1. p # r
    BY <1>4
  <2>2. field'[p] = field[p] /\ request'[p] = request[p]
    BY <1>3, <1>4, <2>1
  <2> QED
    BY <2>2 DEF GraphQLInv, ResponsesMatchDirectLookup
<1> QED
  BY <1>4, <1>7, <1>8, <1>9, <1>10, <1>11, <1>12, <1>13, <1>14, <1>15 DEF GraphQLInv

(* A mutation is answered at once, and touches nothing of the others.      *)
LEMMA MutateStep ==
  ASSUME GraphQLInv, NEW r \in Requests, NEW m \in Mutations, Mutate(r, m)
  PROVE  GraphQLInv'
<1>1. /\ request[r] = <<>> /\ request' = [request EXCEPT ![r] = m]
      /\ arrived' = [arrived EXCEPT ![r] = Len(fetches)]
      /\ future' = future /\ batch' = batch /\ fetches' = fetches /\ ready' = ready
  BY DEF Mutate
<1>2. DOMAIN field = Requests /\ \A p \in Requests : DOMAIN field[p] = DOMAIN request[p]
  BY DEF GraphQLInv, RequestTypes
<1>3. /\ DOMAIN field' = Requests
      /\ \A p \in Requests : p # r => field'[p] = field[p]
      /\ DOMAIN field'[r] = DOMAIN m
      /\ \A i \in DOMAIN m : field'[r][i] = Said(<<ActionToType(ActionResult(m[i].resolver))>>)
  BY <1>2 DEF Mutate
<1>4. /\ request'[r] = m /\ m # <<>>
      /\ \A p \in Requests : p # r => request'[p] = request[p]
      /\ request' \in [Requests -> Queries \cup Mutations \cup {<<>>}]
      /\ arrived' \in [Requests -> Nat] /\ \A p \in Requests : arrived'[p] <= Len(fetches)
      /\ \A n \in DOMAIN ready : \A p \in Requests :
           /\ \A i : ready[n] = RunField(p, i) => p # r
           /\ \A ld \in Loaders : ready[n] = RunDispatch(p, ld) => p # r
      /\ LoaderTypes' /\ BatchFits' /\ OneFetchPerLoader' /\ DoneIsFetched'
  <2>1. m \in Queries \cup Mutations
    OBVIOUS
  <2>2. \A p \in Requests : p # r => field'[p] = field[p]
    BY <1>3
  <2> QED
    BY <1>1, <2>1, <2>2, RequestComes
<1>5. \A p \in Requests : p # r => arrived'[p] = arrived[p]
  BY <1>1 DEF GraphQLInv, RequestTypes
<1>6. /\ response' \in [Requests -> {"none", "data", "null"}]
      /\ \A p \in Requests : p # r => response'[p] = response[p]
  BY DEF Mutate, GraphQLInv, RequestTypes
<1>7. \A p \in Requests : request'[p] \in Queries => p # r
  BY <1>4, AskedFacts
<1>8. RequestTypes'
  <2>1. \A p \in Requests : DOMAIN field'[p] = DOMAIN request'[p]
    BY <1>2, <1>3, <1>4
  <2> QED
    BY <1>1, <1>3, <1>4, <1>6, <2>1 DEF GraphQLInv, RequestTypes
<1>9. CallbacksFit'
  <2>1. ASSUME NEW n \in DOMAIN ready
        PROVE  \/ \E p \in Requests : \E j \in DOMAIN request'[p] :
                    /\ ready[n] = RunField(p, j)
                    /\ request'[p] \in Queries /\ field'[p][j] = Ready
               \/ \E c \in Requests, ld \in Loaders :
                    ready[n] = RunDispatch(c, ld) /\ batch[c][ld] # <<>>
    <3>1. \/ \E p \in Requests : \E j \in DOMAIN request[p] :
               /\ ready[n] = RunField(p, j)
               /\ request[p] \in Queries /\ field[p][j] = Ready
          \/ \E c \in Requests, ld \in Loaders :
               ready[n] = RunDispatch(c, ld) /\ batch[c][ld] # <<>>
      BY DEF GraphQLInv, CallbacksFit
    <3>2. \A p \in Requests : \A j : ready[n] = RunField(p, j) => p # r
      BY <1>4
    <3> QED
      BY <1>3, <1>4, <3>1, <3>2
  <2>2. /\ \A c \in Requests, ld \in Loaders :
             batch[c][ld] # <<>> => \E n \in DOMAIN ready : ready[n] = RunDispatch(c, ld)
        /\ \A k, n \in DOMAIN ready : k # n => ready[k] # ready[n]
    BY DEF GraphQLInv, CallbacksFit
  <2> QED
    BY <1>1, <2>1, <2>2 DEF CallbacksFit
<1>10. FieldsFirst'
  <2> SUFFICES ASSUME NEW k \in DOMAIN ready, NEW n \in DOMAIN ready, NEW c \in Requests,
                      NEW ld \in Loaders, NEW j \in DOMAIN request'[c],
                      ready[k] = RunDispatch(c, ld), ready[n] = RunField(c, j)
               PROVE  n < k
    BY <1>1 DEF FieldsFirst
  <2>1. request'[c] = request[c]
    BY <1>4
  <2> QED
    BY <2>1 DEF GraphQLInv, FieldsFirst
<1>11. NothingAfterFetch'
  <2> SUFFICES ASSUME NEW n \in DOMAIN fetches
               PROVE  /\ request'[fetches[n].context] # <<>>
                      /\ batch[fetches[n].context][fetches[n].loader] = <<>>
                      /\ \A k \in DOMAIN ready : \A j \in DOMAIN request'[fetches[n].context] :
                           ready[k] # RunField(fetches[n].context, j)
    BY <1>1 DEF NothingAfterFetch
  <2>1. fetches[n].context \in Requests
    BY FetchFacts DEF GraphQLInv
  <2>2. /\ request[fetches[n].context] # <<>>
        /\ batch[fetches[n].context][fetches[n].loader] = <<>>
        /\ \A k \in DOMAIN ready : \A j \in DOMAIN request[fetches[n].context] :
             ready[k] # RunField(fetches[n].context, j)
    BY DEF GraphQLInv, NothingAfterFetch
  <2>3. request'[fetches[n].context] = request[fetches[n].context]
    BY <1>1, <1>4, <2>1, <2>2
  <2> QED
    BY <2>2, <2>3
<1>12. FreshLoaders'
  <2> SUFFICES ASSUME NEW p \in Requests, request'[p] = <<>>
               PROVE  /\ response'[p] = "none"
                      /\ \A ld \in Loaders :
                           batch[p][ld] = <<>> /\ \A k \in Keys : future[p][ld][k] = NoFuture
    BY <1>1 DEF FreshLoaders
  <2>1. p # r /\ request[p] = <<>> /\ response'[p] = response[p]
    BY <1>4, <1>6
  <2> QED
    BY <2>1 DEF GraphQLInv, FreshLoaders
<1>13. FieldsRight'
  <2>1. ASSUME NEW p \in Requests, request'[p] \in Queries
        PROVE  field'[p] = field[p] /\ request'[p] = request[p]
    BY <1>3, <1>4, <1>7, <2>1
  <2> QED
    BY <2>1 DEF GraphQLInv, FieldsRight
<1>14. MutationsSaid'
  <2> SUFFICES ASSUME NEW p \in Requests, request'[p] \in Mutations, NEW j \in DOMAIN request'[p]
               PROVE  field'[p][j] = Said(<<ActionToType(ActionResult(request'[p][j].resolver))>>)
    BY DEF MutationsSaid
  <2>1. CASE p = r
    BY <1>3, <1>4, <2>1
  <2>2. CASE p # r
    <3>1. field'[p] = field[p] /\ request'[p] = request[p]
      BY <1>3, <1>4, <2>2
    <3> QED
      BY <3>1 DEF GraphQLInv, MutationsSaid
  <2> QED
    BY <2>1, <2>2
<1>15. AnsweredFromOwnFetch'
  <2> SUFFICES ASSUME NEW p \in Requests, NEW j \in DOMAIN field'[p], request'[p] \in Queries,
                      field'[p][j].status = "answered",
                      request'[p][j].resolver # "network_status"
               PROVE  \E n \in arrived'[p] + 1 .. Len(fetches) :
                        /\ fetches[n].context = p
                        /\ IF request'[p][j].resolver = "account_balance"
                           THEN /\ fetches[n].loader = "account"
                                /\ request'[p][j].key \in Range(fetches[n].keys)
                           ELSE /\ fetches[n].loader = "transaction"
                                /\ UUID[request'[p][j].key] \in Range(fetches[n].keys)
    BY <1>1 DEF AnsweredFromOwnFetch
  <2>1. field'[p] = field[p] /\ request'[p] = request[p] /\ arrived'[p] = arrived[p]
    BY <1>3, <1>4, <1>5, <1>7
  <2> QED
    BY <2>1 DEF GraphQLInv, AnsweredFromOwnFetch
<1>16. ResponsesMatchDirectLookup'
  <2> SUFFICES ASSUME NEW p \in Requests, response'[p] # "none", request'[p] \in Queries
               PROVE  IF \E j \in DOMAIN request'[p] : BadId(request'[p][j])
                      THEN response'[p] = "null"
                      ELSE /\ response'[p] = "data"
                           /\ \A j \in DOMAIN request'[p] :
                                field'[p][j] = Said(Direct(request'[p][j]))
    BY DEF ResponsesMatchDirectLookup
  <2>1. field'[p] = field[p] /\ request'[p] = request[p] /\ response'[p] = response[p]
    BY <1>3, <1>4, <1>6, <1>7
  <2> QED
    BY <2>1 DEF GraphQLInv, ResponsesMatchDirectLookup
<1> QED
  BY <1>4, <1>8, <1>9, <1>10, <1>11, <1>12, <1>13, <1>14, <1>15, <1>16 DEF GraphQLInv

(* What is fetched is told to the futures of its keys.                     *)
LEMMA DispatchStep ==
  ASSUME GraphQLInv, NEW c \in Requests, NEW ld \in Loaders, Dispatch(c, ld)
  PROVE  GraphQLInv'
<1> DEFINE keys == batch[c][ld]
           rows == LoadFn(ld, keys)
           At(k) == CHOOSE j \in DOMAIN keys : keys[j] = k
           fetch == [context |-> c, loader |-> ld, keys |-> keys]
           told == [k \in Keys |->
                      IF k \notin Range(keys) THEN future[c][ld][k]
                      ELSE IF Len(rows) # Len(keys) THEN Raised ELSE Done(rows[At(k)])]
<1>1. /\ ready # <<>> /\ Head(ready) = RunDispatch(c, ld) /\ ready' = Tail(ready)
      /\ fetches' = Append(fetches, fetch)
      /\ batch' = [batch EXCEPT ![c][ld] = <<>>]
      /\ request' = request /\ arrived' = arrived /\ field' = field /\ response' = response
  BY DEF Dispatch
<1>2. request' = request /\ arrived' = arrived /\ field' = field
  BY <1>1
<1>3. future' = [future EXCEPT ![c][ld] = told]
  BY DEF Dispatch
<1>4. /\ 1 \in DOMAIN ready /\ ready[1] = RunDispatch(c, ld)
      /\ ready' \in Seq(Callbacks)
      /\ \A n \in DOMAIN ready' : /\ n \in Nat /\ n + 1 \in DOMAIN ready
                                  /\ ready'[n] = ready[n + 1] /\ ready'[n] # RunDispatch(c, ld)
      /\ \A n \in DOMAIN ready : ready[n] # RunDispatch(c, ld) =>
           \E m \in DOMAIN ready' : ready'[m] = ready[n]
  BY <1>1, HeadIsRun DEF GraphQLInv
<1>5. /\ DOMAIN future = Requests /\ DOMAIN batch = Requests
      /\ DOMAIN future[c] = Loaders /\ DOMAIN batch[c] = Loaders
      /\ \A d \in Requests : DOMAIN future[d] = Loaders /\ DOMAIN batch[d] = Loaders
      /\ keys \in Seq(Keys)
  BY DEF GraphQLInv, LoaderTypes
<1>6. keys # <<>>
  BY <1>4, CallbackFacts DEF GraphQLInv, CallbacksFit
<1>7. /\ IsInjective(keys)
      /\ \A k \in Keys : k \in Range(keys) <=> future[c][ld][k] = Pending
  BY DEF GraphQLInv, BatchFits
<1>8. ASSUME NEW k \in Keys
      PROVE  told[k] = IF k \in Range(keys) THEN Done(Lookup(ld, k)) ELSE future[c][ld][k]
  <2>1. Len(rows) = Len(keys) /\ \A j \in DOMAIN keys : rows[j] = Lookup(ld, keys[j])
    <3> HIDE DEF keys
    <3> QED
      BY <1>5, BatchedRows
  <2>2. CASE k \in Range(keys)
    <3>1. \E j \in DOMAIN keys : keys[j] = k
      BY <2>2 DEF Range
    <3>2. At(k) \in DOMAIN keys /\ keys[At(k)] = k
      <4> HIDE DEF keys
      <4> QED
        BY <3>1
    <3>3. rows[At(k)] = Lookup(ld, k)
      <4> HIDE DEF keys, rows, At
      <4> QED
        BY <2>1, <3>2
    <3> QED
      <4> HIDE DEF keys, rows, At
      <4> QED
        BY <2>1, <2>2, <3>3 DEF told
  <2>3. CASE k \notin Range(keys)
    <3> HIDE DEF keys, rows, At
    <3> QED
      BY <2>3 DEF told
  <2> QED
    BY <2>2, <2>3
<1>9. /\ DOMAIN future' = Requests /\ DOMAIN future'[c] = Loaders
      /\ \A d \in Requests : d # c => future'[d] = future[d]
      /\ \A le \in Loaders : le # ld => future'[c][le] = future[c][le]
      /\ future'[c][ld] = told
  <2> HIDE DEF told
  <2> QED
    BY <1>3, <1>5
<1>10. /\ DOMAIN batch' = Requests /\ DOMAIN batch'[c] = Loaders
       /\ \A d \in Requests : d # c => batch'[d] = batch[d]
       /\ \A le \in Loaders : le # ld => batch'[c][le] = batch[c][le]
       /\ batch'[c][ld] = <<>>
  BY <1>1, <1>5
<1>11. \A k \in Keys : future'[c][ld][k] =
         IF k \in Range(keys) THEN Done(Lookup(ld, k)) ELSE future[c][ld][k]
  <2> HIDE DEF told
  <2> QED
    BY <1>8, <1>9
<1>12. DOMAIN future'[c][ld] = Keys
  BY <1>9
<1>13. \A d \in Requests : \A le \in Loaders : ~(d = c /\ le = ld) =>
         future'[d][le] = future[d][le] /\ batch'[d][le] = batch[d][le]
  BY <1>9, <1>10
<1>14. \A d \in Requests : DOMAIN future'[d] = Loaders /\ DOMAIN batch'[d] = Loaders
  BY <1>5, <1>9, <1>10
<1>15. /\ Len(fetches) \in Nat /\ DOMAIN fetches = 1..Len(fetches)
       /\ \A n \in DOMAIN fetches : fetches[n].context \in Requests /\ fetches[n].loader \in Loaders
  BY FetchFacts DEF GraphQLInv
<1>16. fetch.context = c /\ fetch.loader = ld /\ fetch.keys = keys
  OBVIOUS
<1>17. /\ fetches' \in Seq([context : Requests, loader : Loaders, keys : Seq(Keys)])
       /\ Len(fetches') = Len(fetches) + 1 /\ DOMAIN fetches' = 1..Len(fetches) + 1
       /\ \A n \in DOMAIN fetches : n \in DOMAIN fetches' /\ fetches'[n] = fetches[n]
       /\ fetches'[Len(fetches) + 1] = fetch
  <2> DEFINE Fetch == [context : Requests, loader : Loaders, keys : Seq(Keys)]
  <2>1. fetches \in Seq(Fetch)
    BY DEF GraphQLInv, RequestTypes
  <2>2. fetch \in Fetch
    <3> HIDE DEF keys
    <3> QED
      BY <1>5
  <2> HIDE DEF fetch, Fetch
  <2>3. /\ fetches' \in Seq(Fetch) /\ Len(fetches') = Len(fetches) + 1
        /\ \A n \in 1..Len(fetches) : fetches'[n] = fetches[n]
        /\ fetches'[Len(fetches) + 1] = fetch
    BY <1>1, <2>1, <2>2, AppendProperties
  <2>4. DOMAIN fetches' = 1..Len(fetches) + 1
    BY <2>3, LenProperties
  <2> QED
    BY <1>15, <2>3, <2>4 DEF Fetch
<1> HIDE DEF keys, rows, At, fetch, told
<1>18. \A n \in DOMAIN fetches' :
         \/ n \in DOMAIN fetches /\ fetches'[n] = fetches[n]
         \/ n = Len(fetches) + 1 /\ fetches'[n] = fetch
  BY <1>15, <1>17
<1>19. request[c] # <<>>
  BY <1>6 DEF GraphQLInv, FreshLoaders, keys
<1>20. \A n \in DOMAIN fetches : ~(fetches[n].context = c /\ fetches[n].loader = ld)
  BY <1>6 DEF GraphQLInv, NothingAfterFetch, keys
<1>21. \A n \in DOMAIN ready : \A j \in DOMAIN request[c] : ready[n] # RunField(c, j)
  <2> SUFFICES ASSUME NEW n \in DOMAIN ready, NEW j \in DOMAIN request[c], ready[n] = RunField(c, j)
               PROVE  FALSE
    OBVIOUS
  <2>1. n < 1
    BY <1>4 DEF GraphQLInv, FieldsFirst
  <2>2. ready \in Seq(Callbacks)
    BY DEF GraphQLInv, RequestTypes
  <2>3. n \in Nat /\ n >= 1
    BY <2>2, LenProperties
  <2> QED
    BY <2>1, <2>3
<1>22. LoaderTypes'
  <2> SUFFICES ASSUME NEW d \in Requests, NEW le \in Loaders
               PROVE  /\ batch'[d][le] \in Seq(Keys) /\ DOMAIN future'[d][le] = Keys
                      /\ \A k \in Keys :
                           future'[d][le][k] \in {NoFuture, Pending, Done(Lookup(le, k))}
    BY <1>9, <1>10, <1>14 DEF LoaderTypes
  <2>1. CASE d = c /\ le = ld
    <3>1. batch'[d][le] \in Seq(Keys) /\ DOMAIN future'[d][le] = Keys
      BY <1>10, <1>12, <2>1, EmptySeq
    <3>2. ASSUME NEW k \in Keys
          PROVE  future'[c][ld][k] \in {NoFuture, Pending, Done(Lookup(ld, k))}
      <4>1. future[c][ld][k] \in {NoFuture, Pending, Done(Lookup(ld, k))}
        BY DEF GraphQLInv, LoaderTypes
      <4> QED
        BY <1>11, <4>1
    <3> QED
      BY <2>1, <3>1, <3>2
  <2>2. CASE ~(d = c /\ le = ld)
    BY <1>13, <2>2 DEF GraphQLInv, LoaderTypes
  <2> QED
    BY <2>1, <2>2
<1>23. RequestTypes'
  <2>1. \A r \in Requests : arrived[r] \in Nat /\ arrived[r] <= Len(fetches')
    BY <1>15, <1>17 DEF GraphQLInv, RequestTypes
  <2> QED
    BY <1>1, <1>4, <1>17, <2>1 DEF GraphQLInv, RequestTypes
<1>24. CallbacksFit'
  <2>1. ASSUME NEW n \in DOMAIN ready'
        PROVE  \/ \E q \in Requests : \E j \in DOMAIN request[q] :
                    /\ ready'[n] = RunField(q, j)
                    /\ request[q] \in Queries /\ field[q][j] = Ready
               \/ \E d \in Requests, le \in Loaders :
                    ready'[n] = RunDispatch(d, le) /\ batch'[d][le] # <<>>
    <3>1. n + 1 \in DOMAIN ready /\ ready'[n] = ready[n + 1] /\ ready'[n] # RunDispatch(c, ld)
      BY <1>4
    <3>2. \/ \E q \in Requests : \E j \in DOMAIN request[q] :
               /\ ready'[n] = RunField(q, j)
               /\ request[q] \in Queries /\ field[q][j] = Ready
          \/ \E d \in Requests, le \in Loaders :
               ready'[n] = RunDispatch(d, le) /\ batch[d][le] # <<>>
      BY <3>1 DEF GraphQLInv, CallbacksFit
    <3>3. ASSUME NEW d \in Requests, NEW le \in Loaders,
                 ready'[n] = RunDispatch(d, le), batch[d][le] # <<>>
          PROVE  batch'[d][le] # <<>>
      <4>1. ~(d = c /\ le = ld)
        BY <3>1, <3>3
      <4> QED
        BY <1>13, <3>3, <4>1
    <3> QED
      BY <3>2, <3>3
  <2>2. ASSUME NEW d \in Requests, NEW le \in Loaders, batch'[d][le] # <<>>
        PROVE  \E n \in DOMAIN ready' : ready'[n] = RunDispatch(d, le)
    <3>1. ~(d = c /\ le = ld)
      BY <1>10, <2>2
    <3>2. batch[d][le] # <<>>
      BY <1>13, <2>2, <3>1
    <3>3. PICK n \in DOMAIN ready : ready[n] = RunDispatch(d, le)
      BY <3>2 DEF GraphQLInv, CallbacksFit
    <3> QED
      BY <1>4, <3>1, <3>3, CallbackFacts
  <2>3. ASSUME NEW m \in DOMAIN ready', NEW n \in DOMAIN ready', m # n
        PROVE  ready'[m] # ready'[n]
    <3>1. m + 1 # n + 1
      BY <1>4, <2>3
    <3> QED
      BY <1>4, <3>1 DEF GraphQLInv, CallbacksFit
  <2> QED
    BY <1>1, <2>1, <2>2, <2>3 DEF CallbacksFit
<1>25. FieldsFirst'
  <2> SUFFICES ASSUME NEW m \in DOMAIN ready', NEW n \in DOMAIN ready', NEW d \in Requests,
                      NEW le \in Loaders, NEW j \in DOMAIN request[d],
                      ready'[m] = RunDispatch(d, le), ready'[n] = RunField(d, j)
               PROVE  n < m
    BY <1>1 DEF FieldsFirst
  <2>1. n + 1 < m + 1
    BY <1>4 DEF GraphQLInv, FieldsFirst
  <2> QED
    BY <1>4, <2>1
<1>26. BatchFits'
  <2> SUFFICES ASSUME NEW d \in Requests, NEW le \in Loaders
               PROVE  /\ IsInjective(batch'[d][le])
                      /\ \A k \in Keys : k \in Range(batch'[d][le]) <=> future'[d][le][k] = Pending
    BY DEF BatchFits
  <2>1. CASE d = c /\ le = ld
    <3>1. \A k \in Keys : future'[c][ld][k] # Pending
      BY <1>7, <1>11, FutureFacts
    <3>2. IsInjective(<<>>) /\ Range(<<>>) = {}
      BY AskedFacts DEF IsInjective, Range
    <3> QED
      BY <1>10, <2>1, <3>1, <3>2
  <2>2. CASE ~(d = c /\ le = ld)
    BY <1>13, <2>2 DEF GraphQLInv, BatchFits
  <2> QED
    BY <2>1, <2>2
<1>27. OneFetchPerLoader'
  <2> SUFFICES ASSUME NEW m \in DOMAIN fetches'
               PROVE  /\ IsInjective(fetches'[m].keys)
                      /\ \A n \in DOMAIN fetches' :
                           /\ fetches'[m].context = fetches'[n].context
                           /\ fetches'[m].loader = fetches'[n].loader
                           => m = n
    BY DEF OneFetchPerLoader
  <2>1. CASE m \in DOMAIN fetches /\ fetches'[m] = fetches[m]
    <3>1. /\ IsInjective(fetches[m].keys)
          /\ \A n \in DOMAIN fetches :
               /\ fetches[m].context = fetches[n].context /\ fetches[m].loader = fetches[n].loader
               => m = n
      BY <2>1 DEF GraphQLInv, OneFetchPerLoader
    <3> QED
      BY <1>16, <1>18, <1>20, <2>1, <3>1
  <2>2. CASE m = Len(fetches) + 1 /\ fetches'[m] = fetch
    BY <1>7, <1>16, <1>18, <1>20, <2>2
  <2> QED
    BY <1>18, <2>1, <2>2
<1>28. NothingAfterFetch'
  <2> SUFFICES ASSUME NEW n \in DOMAIN fetches'
               PROVE  /\ request[fetches'[n].context] # <<>>
                      /\ batch'[fetches'[n].context][fetches'[n].loader] = <<>>
                      /\ \A m \in DOMAIN ready' : \A j \in DOMAIN request[fetches'[n].context] :
                           ready'[m] # RunField(fetches'[n].context, j)
    BY <1>1 DEF NothingAfterFetch
  <2>1. CASE n \in DOMAIN fetches /\ fetches'[n] = fetches[n]
    <3>1. /\ request[fetches[n].context] # <<>>
          /\ batch[fetches[n].context][fetches[n].loader] = <<>>
          /\ \A m \in DOMAIN ready : \A j \in DOMAIN request[fetches[n].context] :
               ready[m] # RunField(fetches[n].context, j)
      BY <2>1 DEF GraphQLInv, NothingAfterFetch
    <3>2. batch'[fetches[n].context][fetches[n].loader] = <<>>
      BY <1>13, <1>15, <1>20, <2>1, <3>1
    <3> QED
      BY <1>4, <2>1, <3>1, <3>2
  <2>2. CASE fetches'[n] = fetch
    BY <1>4, <1>10, <1>16, <1>19, <1>21, <2>2
  <2> QED
    BY <1>18, <2>1, <2>2
<1>29. DoneIsFetched'
  <2> SUFFICES ASSUME NEW d \in Requests, NEW le \in Loaders, NEW k \in Keys,
                      future'[d][le][k].status = "done"
               PROVE  \E n \in arrived[d] + 1 .. Len(fetches') :
                        /\ fetches'[n].context = d /\ fetches'[n].loader = le
                        /\ k \in Range(fetches'[n].keys)
    BY <1>2 DEF DoneIsFetched
  <2>1. arrived[d] \in Nat /\ arrived[d] <= Len(fetches)
    BY DEF GraphQLInv, RequestTypes
  <2>2. CASE d = c /\ le = ld /\ k \in Range(keys)
    <3>1. Len(fetches) + 1 \in arrived[d] + 1 .. Len(fetches')
      BY <1>15, <1>17, <2>1
    <3> QED
      BY <1>16, <1>17, <2>2, <3>1
  <2>3. CASE ~(d = c /\ le = ld /\ k \in Range(keys))
    <3>1. future[d][le][k].status = "done"
      BY <1>11, <1>13, <2>3
    <3>2. PICK n \in arrived[d] + 1 .. Len(fetches) :
            /\ fetches[n].context = d /\ fetches[n].loader = le
            /\ k \in Range(fetches[n].keys)
      BY <3>1 DEF GraphQLInv, DoneIsFetched
    <3>3. n \in DOMAIN fetches /\ n \in arrived[d] + 1 .. Len(fetches')
      BY <1>15, <1>17, <2>1
    <3> QED
      BY <1>17, <3>2, <3>3
  <2> QED
    BY <2>2, <2>3
<1>30. FreshLoaders'
  <2> SUFFICES ASSUME NEW r \in Requests, request[r] = <<>>
               PROVE  /\ response[r] = "none"
                      /\ \A le \in Loaders :
                           batch'[r][le] = <<>> /\ \A k \in Keys : future'[r][le][k] = NoFuture
    BY <1>1 DEF FreshLoaders
  <2>1. r # c
    BY <1>19
  <2> QED
    BY <1>13, <2>1 DEF GraphQLInv, FreshLoaders
<1>31. FieldsRight' /\ MutationsSaid' /\ ResponsesMatchDirectLookup'
  <2>1. FieldsRight' /\ MutationsSaid'
    BY <1>1 DEF GraphQLInv, FieldsRight, MutationsSaid
  <2>2. ResponsesMatchDirectLookup'
    BY <1>1 DEF GraphQLInv, ResponsesMatchDirectLookup
  <2> QED
    BY <2>1, <2>2
<1>32. AnsweredFromOwnFetch'
  <2> SUFFICES ASSUME NEW q \in Requests, NEW j \in DOMAIN field[q], request[q] \in Queries,
                      field[q][j].status = "answered",
                      request[q][j].resolver # "network_status"
               PROVE  \E n \in arrived[q] + 1 .. Len(fetches') :
                        /\ fetches'[n].context = q
                        /\ IF request[q][j].resolver = "account_balance"
                           THEN /\ fetches'[n].loader = "account"
                                /\ request[q][j].key \in Range(fetches'[n].keys)
                           ELSE /\ fetches'[n].loader = "transaction"
                                /\ UUID[request[q][j].key] \in Range(fetches'[n].keys)
    BY <1>2 DEF AnsweredFromOwnFetch
  <2>1. PICK n \in arrived[q] + 1 .. Len(fetches) :
          /\ fetches[n].context = q
          /\ IF request[q][j].resolver = "account_balance"
             THEN /\ fetches[n].loader = "account"
                  /\ request[q][j].key \in Range(fetches[n].keys)
             ELSE /\ fetches[n].loader = "transaction"
                  /\ UUID[request[q][j].key] \in Range(fetches[n].keys)
    BY DEF GraphQLInv, AnsweredFromOwnFetch
  <2>2. arrived[q] \in Nat
    BY DEF GraphQLInv, RequestTypes
  <2>3. n \in DOMAIN fetches /\ n \in arrived[q] + 1 .. Len(fetches')
    BY <1>15, <1>17, <2>2
  <2> QED
    BY <1>17, <2>1, <2>3
<1> QED
  BY <1>22, <1>23, <1>24, <1>25, <1>26, <1>27, <1>28, <1>29, <1>30, <1>31, <1>32 DEF GraphQLInv

(* A field that is the first to load a key adds it to the batch, and       *)
(* queues the dispatch unless that is queued.  As the field had not been   *)
(* run, no loader of its request has fetched.                              *)
LEMMA NewKeyStep ==
  ASSUME GraphQLInv, NEW r \in Requests, NEW i \in DOMAIN request[r],
         ready # <<>>, Head(ready) = RunField(r, i),
         NEW ld \in Loaders, NEW k \in Keys, Load(r, i, ld, k), future[r][ld][k] = NoFuture,
         ~BadId(request[r][i]), request[r][i].resolver # "network_status"
  PROVE  GraphQLInv'
<1>1. /\ request' = request /\ fetches' = fetches /\ arrived' = arrived /\ response' = response
      /\ field' = [field EXCEPT ![r][i] = Loading]
      /\ future' = [future EXCEPT ![r][ld][k] = Pending]
      /\ batch' = [batch EXCEPT ![r][ld] = Append(batch[r][ld], k)]
  BY DEF Load, Context
<1>2. IF batch[r][ld] = <<>>
      THEN ready' = Tail(ready) \o <<RunDispatch(r, ld)>>
      ELSE ready' = Tail(ready) \o <<>>
  BY DEF Load, Context, Queued
<1>3. ready \in Seq(Callbacks) /\ DOMAIN ready = 1..Len(ready) /\ Len(ready) \in Nat
  BY LenProperties DEF GraphQLInv, RequestTypes
<1>4. /\ 1 \in DOMAIN ready /\ ready[1] = RunField(r, i)
      /\ ready' \in Seq(Callbacks)
      /\ \A n \in DOMAIN ready' :
           /\ n \in Nat
           /\ \/ n < Len(ready) /\ n + 1 \in DOMAIN ready
                 /\ ready'[n] = ready[n + 1] /\ ready'[n] # RunField(r, i)
              \/ n = Len(ready) /\ ready'[n] = RunDispatch(r, ld) /\ batch[r][ld] = <<>>
      /\ \A n \in DOMAIN ready : ready[n] # RunField(r, i) =>
           \E m \in DOMAIN ready' : ready'[m] = ready[n]
      /\ batch[r][ld] = <<>> => \E n \in DOMAIN ready' : ready'[n] = RunDispatch(r, ld)
  <2>1. CASE batch[r][ld] = <<>>
    <3>1. RunDispatch(r, ld) \in Callbacks
      BY DEF Callbacks
    <3>2. ready' = Tail(ready) \o <<RunDispatch(r, ld)>>
      BY <1>2, <2>1
    <3>3. RequestTypes /\ CallbacksFit
      BY DEF GraphQLInv
    <3> QED
      BY <2>1, <3>1, <3>2, <3>3, DispatchQueued
  <2>2. CASE batch[r][ld] # <<>>
    <3>1. Tail(ready) \in Seq(Callbacks)
      BY <1>3, HeadTailProperties
    <3>2. ready' = Tail(ready)
      BY <1>2, <2>2, <3>1, ConcatEmptySeq
    <3>3. RequestTypes /\ CallbacksFit
      BY DEF GraphQLInv
    <3>4. /\ 1 \in DOMAIN ready /\ ready[1] = Head(ready)
          /\ ready' \in Seq(Callbacks)
          /\ \A n \in DOMAIN ready' : /\ n \in Nat /\ n + 1 \in DOMAIN ready
                                      /\ ready'[n] = ready[n + 1] /\ ready'[n] # Head(ready)
          /\ \A n \in DOMAIN ready : ready[n] # Head(ready) =>
               \E m \in DOMAIN ready' : ready'[m] = ready[n]
      BY <3>2, <3>3, HeadIsRun
    <3>5. \A n \in DOMAIN ready' : n < Len(ready)
      BY <1>3, <3>4
    <3> QED
      BY <2>2, <3>4, <3>5
  <2> QED
    BY <2>1, <2>2
<1>5. request[r] \in Queries /\ field[r][i] = Ready
  <2>1. 1 \in DOMAIN ready /\ ready[1] = RunField(r, i)
    BY <1>4
  <2> QED
    BY <2>1, CallbackFacts DEF GraphQLInv, CallbacksFit
<1>6. request[r] # <<>>
  BY <1>5, AskedFacts
<1>7. \A n \in DOMAIN fetches : fetches[n].context # r
  <2>1. 1 \in DOMAIN ready /\ ready[1] = RunField(r, i)
    BY <1>4
  <2> QED
    BY <2>1 DEF GraphQLInv, NothingAfterFetch
<1>8. /\ DOMAIN field = Requests /\ DOMAIN field[r] = DOMAIN request[r]
      /\ \A q \in Requests : DOMAIN field[q] = DOMAIN request[q]
  BY DEF GraphQLInv, RequestTypes
<1>9. /\ DOMAIN field' = Requests
      /\ \A q \in Requests : q # r => field'[q] = field[q]
      /\ field'[r] = [field[r] EXCEPT ![i] = Loading]
  BY <1>1, <1>8
<1>10. /\ \A q \in Requests : DOMAIN field'[q] = DOMAIN request[q]
       /\ field'[r][i] = Loading
       /\ \A q \in Requests : \A j \in DOMAIN request[q] :
            ~(q = r /\ j = i) => field'[q][j] = field[q][j]
  BY <1>8, <1>9
<1>11. FieldsRight' /\ MutationsSaid' /\ ResponsesMatchDirectLookup'
  <2>1. request' = request /\ response' = response /\ field[r][i] \in {Ready, Loading}
    BY <1>1, <1>5
  <2> QED
    BY <1>5, <1>10, <2>1, FieldMoves
<1>12. /\ DOMAIN future = Requests /\ DOMAIN batch = Requests
       /\ \A c \in Requests : DOMAIN future[c] = Loaders /\ DOMAIN batch[c] = Loaders
       /\ DOMAIN future[r][ld] = Keys /\ batch[r][ld] \in Seq(Keys)
  BY DEF GraphQLInv, LoaderTypes
<1>13. /\ DOMAIN future' = Requests
       /\ \A c \in Requests : c # r => future'[c] = future[c]
       /\ future'[r] = [future[r] EXCEPT ![ld] = [future[r][ld] EXCEPT ![k] = Pending]]
  BY <1>1, <1>12
<1>14. /\ DOMAIN future'[r] = Loaders
       /\ \A le \in Loaders : le # ld => future'[r][le] = future[r][le]
       /\ future'[r][ld] = [future[r][ld] EXCEPT ![k] = Pending]
  BY <1>12, <1>13
<1>15. /\ DOMAIN future'[r][ld] = Keys /\ future'[r][ld][k] = Pending
       /\ \A x \in Keys : x # k => future'[r][ld][x] = future[r][ld][x]
  BY <1>12, <1>14
<1>16. /\ DOMAIN batch' = Requests
       /\ \A c \in Requests : c # r => batch'[c] = batch[c]
       /\ DOMAIN batch'[r] = Loaders
       /\ \A le \in Loaders : le # ld => batch'[r][le] = batch[r][le]
       /\ batch'[r][ld] = Append(batch[r][ld], k)
  BY <1>1, <1>12
<1>17. /\ Len(batch[r][ld]) \in Nat /\ DOMAIN batch[r][ld] = 1..Len(batch[r][ld])
       /\ batch'[r][ld] \in Seq(Keys) /\ batch'[r][ld] # <<>>
       /\ DOMAIN batch'[r][ld] = 1..Len(batch[r][ld]) + 1
       /\ \A n \in DOMAIN batch[r][ld] : batch'[r][ld][n] = batch[r][ld][n]
       /\ batch'[r][ld][Len(batch[r][ld]) + 1] = k
  <2>1. PICK b : b = batch[r][ld]
    OBVIOUS
  <2>2. PICK a : a = batch'[r][ld]
    OBVIOUS
  <2>3. a = Append(b, k) /\ b \in Seq(Keys)
    BY <1>12, <1>16, <2>1, <2>2
  <2>4. /\ a \in Seq(Keys) /\ a # <<>> /\ Len(a) = Len(b) + 1
        /\ \A n \in 1..Len(b) : a[n] = b[n]
        /\ a[Len(b) + 1] = k
    BY <2>3, AppendProperties
  <2>5. Len(b) \in Nat /\ DOMAIN b = 1..Len(b) /\ DOMAIN a = 1..Len(b) + 1
    BY <2>3, <2>4, LenProperties
  <2> QED
    BY <2>1, <2>2, <2>4, <2>5
<1>18. \A c \in Requests : \A le \in Loaders : ~(c = r /\ le = ld) =>
         future'[c][le] = future[c][le] /\ batch'[c][le] = batch[c][le]
  BY <1>13, <1>14, <1>16
<1>19. \A c \in Requests : DOMAIN future'[c] = Loaders /\ DOMAIN batch'[c] = Loaders
  BY <1>12, <1>13, <1>14, <1>16
<1>20. k \notin Range(batch[r][ld])
  BY FutureFacts DEF GraphQLInv, BatchFits
<1>21. request' = request /\ fetches' = fetches /\ arrived' = arrived /\ response' = response
  BY <1>1
<1>22. LoaderTypes'
  <2> SUFFICES ASSUME NEW c \in Requests, NEW le \in Loaders
               PROVE  /\ batch'[c][le] \in Seq(Keys) /\ DOMAIN future'[c][le] = Keys
                      /\ \A x \in Keys :
                           future'[c][le][x] \in {NoFuture, Pending, Done(Lookup(le, x))}
    BY <1>13, <1>16, <1>19 DEF LoaderTypes
  <2>1. CASE c = r /\ le = ld
    <3>1. ASSUME NEW x \in Keys
          PROVE  future'[r][ld][x] \in {NoFuture, Pending, Done(Lookup(ld, x))}
      <4>1. future[r][ld][x] \in {NoFuture, Pending, Done(Lookup(ld, x))}
        BY DEF GraphQLInv, LoaderTypes
      <4> QED
        BY <1>15, <4>1
    <3> QED
      BY <1>15, <1>17, <2>1, <3>1
  <2>2. CASE ~(c = r /\ le = ld)
    BY <1>18, <2>2 DEF GraphQLInv, LoaderTypes
  <2> QED
    BY <2>1, <2>2
<1>23. RequestTypes'
  BY <1>4, <1>9, <1>10, <1>21 DEF GraphQLInv, RequestTypes
<1>24. CallbacksFit'
  <2>1. ASSUME NEW n \in DOMAIN ready'
        PROVE  \/ \E q \in Requests : \E j \in DOMAIN request[q] :
                    /\ ready'[n] = RunField(q, j)
                    /\ request[q] \in Queries /\ field'[q][j] = Ready
               \/ \E c \in Requests, le \in Loaders :
                    ready'[n] = RunDispatch(c, le) /\ batch'[c][le] # <<>>
    <3>1. CASE n + 1 \in DOMAIN ready /\ ready'[n] = ready[n + 1] /\ ready'[n] # RunField(r, i)
      <4>1. \/ \E q \in Requests : \E j \in DOMAIN request[q] :
                 /\ ready'[n] = RunField(q, j)
                 /\ request[q] \in Queries /\ field[q][j] = Ready
            \/ \E c \in Requests, le \in Loaders :
                 ready'[n] = RunDispatch(c, le) /\ batch[c][le] # <<>>
        BY <3>1 DEF GraphQLInv, CallbacksFit
      <4>2. \A q \in Requests : \A j \in DOMAIN request[q] :
              ready'[n] = RunField(q, j) => field'[q][j] = field[q][j]
        BY <1>10, <3>1
      <4>3. \A c \in Requests : \A le \in Loaders : batch[c][le] # <<>> => batch'[c][le] # <<>>
        BY <1>17, <1>18
      <4> QED
        BY <4>1, <4>2, <4>3
    <3>2. CASE ready'[n] = RunDispatch(r, ld)
      BY <1>17, <3>2
    <3> QED
      BY <1>4, <3>1, <3>2
  <2>2. ASSUME NEW c \in Requests, NEW le \in Loaders, batch'[c][le] # <<>>
        PROVE  \E n \in DOMAIN ready' : ready'[n] = RunDispatch(c, le)
    <3>1. CASE batch[c][le] # <<>>
      <4>1. PICK n \in DOMAIN ready : ready[n] = RunDispatch(c, le)
        BY <3>1 DEF GraphQLInv, CallbacksFit
      <4> QED
        BY <1>4, <4>1, CallbackFacts
    <3>2. CASE batch[c][le] = <<>>
      <4>1. c = r /\ le = ld
        BY <1>18, <2>2, <3>2
      <4> QED
        BY <1>4, <3>2, <4>1
    <3> QED
      BY <3>1, <3>2
  <2>3. batch[r][ld] = <<>> => \A n \in DOMAIN ready : ready[n] # RunDispatch(r, ld)
    BY CallbackFacts DEF GraphQLInv, CallbacksFit
  <2>4. ASSUME NEW m \in DOMAIN ready', NEW n \in DOMAIN ready', m # n
        PROVE  ready'[m] # ready'[n]
    <3>1. m \in Nat /\ n \in Nat
      BY <1>4
    <3>2. CASE /\ m + 1 \in DOMAIN ready /\ ready'[m] = ready[m + 1]
               /\ n + 1 \in DOMAIN ready /\ ready'[n] = ready[n + 1]
      <4>1. m + 1 # n + 1
        BY <2>4, <3>1
      <4> QED
        BY <3>2, <4>1 DEF GraphQLInv, CallbacksFit
    <3>3. CASE /\ m + 1 \in DOMAIN ready /\ ready'[m] = ready[m + 1]
               /\ ready'[n] = RunDispatch(r, ld) /\ batch[r][ld] = <<>>
      BY <2>3, <3>3
    <3>4. CASE /\ n + 1 \in DOMAIN ready /\ ready'[n] = ready[n + 1]
               /\ ready'[m] = RunDispatch(r, ld) /\ batch[r][ld] = <<>>
      BY <2>3, <3>4
    <3> QED
      BY <1>4, <2>4, <3>2, <3>3, <3>4
  <2> QED
    BY <1>21, <2>1, <2>2, <2>4 DEF CallbacksFit
<1>25. FieldsFirst'
  <2> SUFFICES ASSUME NEW m \in DOMAIN ready', NEW n \in DOMAIN ready', NEW c \in Requests,
                      NEW le \in Loaders, NEW j \in DOMAIN request[c],
                      ready'[m] = RunDispatch(c, le), ready'[n] = RunField(c, j)
               PROVE  n < m
    BY <1>21 DEF FieldsFirst
  <2>1. n \in Nat /\ n < Len(ready) /\ n + 1 \in DOMAIN ready /\ ready'[n] = ready[n + 1]
    BY <1>4, CallbackFacts
  <2>2. CASE m \in Nat /\ m + 1 \in DOMAIN ready /\ ready'[m] = ready[m + 1]
    <3>1. n + 1 < m + 1
      BY <2>1, <2>2 DEF GraphQLInv, FieldsFirst
    <3> QED
      BY <2>1, <2>2, <3>1
  <2>3. CASE m = Len(ready)
    BY <2>1, <2>3
  <2> QED
    BY <1>4, <2>2, <2>3
<1>26. BatchFits'
  <2> SUFFICES ASSUME NEW c \in Requests, NEW le \in Loaders
               PROVE  /\ IsInjective(batch'[c][le])
                      /\ \A x \in Keys : x \in Range(batch'[c][le]) <=> future'[c][le][x] = Pending
    BY DEF BatchFits
  <2>1. CASE c = r /\ le = ld
    <3>1. IsInjective(batch'[r][ld])
      <4> SUFFICES ASSUME NEW m \in DOMAIN batch'[r][ld], NEW n \in DOMAIN batch'[r][ld],
                          batch'[r][ld][m] = batch'[r][ld][n]
                   PROVE  m = n
        BY DEF IsInjective
      <4>1. \A a, b \in DOMAIN batch[r][ld] : batch[r][ld][a] = batch[r][ld][b] => a = b
        BY DEF GraphQLInv, BatchFits, IsInjective
      <4>2. \A a \in DOMAIN batch[r][ld] : batch[r][ld][a] # k
        BY <1>20 DEF Range
      <4>3. \A a \in DOMAIN batch'[r][ld] : a \in DOMAIN batch[r][ld] \/ a = Len(batch[r][ld]) + 1
        BY <1>17
      <4> QED
        BY <1>17, <4>1, <4>2, <4>3
    <3>2. ASSUME NEW x \in Keys
          PROVE  x \in Range(batch'[r][ld]) <=> x \in Range(batch[r][ld]) \/ x = k
      <4>1. \A a \in DOMAIN batch'[r][ld] : a \in DOMAIN batch[r][ld] \/ a = Len(batch[r][ld]) + 1
        BY <1>17
      <4>2. /\ \A a \in DOMAIN batch[r][ld] : a \in DOMAIN batch'[r][ld]
            /\ Len(batch[r][ld]) + 1 \in DOMAIN batch'[r][ld]
        BY <1>17
      <4> QED
        BY <1>17, <4>1, <4>2 DEF Range
    <3>3. \A x \in Keys : x \in Range(batch[r][ld]) <=> future[r][ld][x] = Pending
      BY DEF GraphQLInv, BatchFits
    <3> QED
      BY <1>15, <2>1, <3>1, <3>2, <3>3
  <2>2. CASE ~(c = r /\ le = ld)
    BY <1>18, <2>2 DEF GraphQLInv, BatchFits
  <2> QED
    BY <2>1, <2>2
<1>27. OneFetchPerLoader'
  BY <1>21 DEF GraphQLInv, OneFetchPerLoader
<1>28. NothingAfterFetch'
  <2> SUFFICES ASSUME NEW n \in DOMAIN fetches
               PROVE  /\ request[fetches[n].context] # <<>>
                      /\ batch'[fetches[n].context][fetches[n].loader] = <<>>
                      /\ \A m \in DOMAIN ready' : \A j \in DOMAIN request[fetches[n].context] :
                           ready'[m] # RunField(fetches[n].context, j)
    BY <1>21 DEF NothingAfterFetch
  <2>1. fetches[n].context \in Requests /\ fetches[n].loader \in Loaders
    BY FetchFacts DEF GraphQLInv
  <2>2. /\ request[fetches[n].context] # <<>>
        /\ batch[fetches[n].context][fetches[n].loader] = <<>>
        /\ \A m \in DOMAIN ready : \A j \in DOMAIN request[fetches[n].context] :
             ready[m] # RunField(fetches[n].context, j)
    BY DEF GraphQLInv, NothingAfterFetch
  <2>3. batch'[fetches[n].context][fetches[n].loader] = <<>>
    BY <1>7, <1>18, <2>1, <2>2
  <2>4. ASSUME NEW m \in DOMAIN ready', NEW j \in DOMAIN request[fetches[n].context]
        PROVE  ready'[m] # RunField(fetches[n].context, j)
    BY <1>4, <2>2, CallbackFacts
  <2> QED
    BY <2>2, <2>3, <2>4
<1>29. DoneIsFetched'
  <2> SUFFICES ASSUME NEW c \in Requests, NEW le \in Loaders, NEW x \in Keys,
                      future'[c][le][x].status = "done"
               PROVE  \E n \in arrived[c] + 1 .. Len(fetches) :
                        /\ fetches[n].context = c /\ fetches[n].loader = le
                        /\ x \in Range(fetches[n].keys)
    BY <1>21 DEF DoneIsFetched
  <2>1. future[c][le][x].status = "done"
    BY <1>15, <1>18, FutureFacts
  <2> QED
    BY <2>1 DEF GraphQLInv, DoneIsFetched
<1>30. FreshLoaders'
  <2> SUFFICES ASSUME NEW q \in Requests, request[q] = <<>>
               PROVE  /\ response[q] = "none"
                      /\ \A le \in Loaders :
                           batch'[q][le] = <<>> /\ \A x \in Keys : future'[q][le][x] = NoFuture
    BY <1>21 DEF FreshLoaders
  <2>1. q # r
    BY <1>6
  <2> QED
    BY <1>18, <2>1 DEF GraphQLInv, FreshLoaders
<1>31. AnsweredFromOwnFetch'
  <2> SUFFICES ASSUME NEW q \in Requests, NEW j \in DOMAIN request[q], request[q] \in Queries,
                      field'[q][j].status = "answered",
                      request[q][j].resolver # "network_status"
               PROVE  \E n \in arrived[q] + 1 .. Len(fetches) :
                        /\ fetches[n].context = q
                        /\ IF request[q][j].resolver = "account_balance"
                           THEN /\ fetches[n].loader = "account"
                                /\ request[q][j].key \in Range(fetches[n].keys)
                           ELSE /\ fetches[n].loader = "transaction"
                                /\ UUID[request[q][j].key] \in Range(fetches[n].keys)
    BY <1>10, <1>21 DEF AnsweredFromOwnFetch
  <2>1. ~(q = r /\ j = i)
    BY <1>10, FieldFacts
  <2>2. field'[q][j] = field[q][j] /\ j \in DOMAIN field[q]
    BY <1>8, <1>10, <2>1
  <2> QED
    BY <2>2 DEF GraphQLInv, AnsweredFromOwnFetch
<1> QED
  BY <1>11, <1>22, <1>23, <1>24, <1>25, <1>26, <1>27, <1>28, <1>29, <1>30, <1>31 DEF GraphQLInv

(* A key that has been asked for is not loaded again: its field waits.     *)
LEMMA LoadStep ==
  ASSUME GraphQLInv, NEW r \in Requests, NEW i \in DOMAIN request[r],
         ready # <<>>, Head(ready) = RunField(r, i),
         NEW ld \in Loaders, NEW k \in Keys, Load(r, i, ld, k),
         ~BadId(request[r][i]), request[r][i].resolver # "network_status"
  PROVE  GraphQLInv'
<1>1. CASE future[r][ld][k] = NoFuture
  BY <1>1, NewKeyStep
<1>2. CASE future[r][ld][k] # NoFuture
  <2>1. ready \in Seq(Callbacks)
    BY DEF GraphQLInv, RequestTypes
  <2>2. Tail(ready) \in Seq(Callbacks)
    BY <2>1, HeadTailProperties
  <2>3. ready' = Tail(ready) \o <<>>
    BY <1>2 DEF Load, Context
  <2>4. ready' = Tail(ready)
    BY <2>2, <2>3, ConcatEmptySeq
  <2>5. Settle(r, i, Loading)
    BY <1>2, <2>4 DEF Load, Context, Settle
  <2> QED
    BY <2>5, SettleStep
<1> QED
  BY <1>1, <1>2

(* Every step keeps the invariant.                                         *)
LEMMA NextInv == GraphQLInv /\ [Next]_vars => GraphQLInv'
<1> SUFFICES ASSUME GraphQLInv, [Next]_vars
             PROVE  GraphQLInv'
  OBVIOUS
<1>1. ASSUME NEW r \in Requests, NEW q \in Queries, Query(r, q)
      PROVE  GraphQLInv'
  BY <1>1, QueryStep
<1>2. ASSUME NEW r \in Requests, NEW m \in Mutations, Mutate(r, m)
      PROVE  GraphQLInv'
  BY <1>2, MutateStep
<1>3. ASSUME NEW r \in Requests, NEW i \in DOMAIN request[r],
             ready # <<>>, Head(ready) = RunField(r, i)
      PROVE  request[r] \in Queries
  <2>1. 1 \in DOMAIN ready /\ ready[1] = RunField(r, i)
    <3>1. ready \in Seq(Callbacks)
      BY DEF GraphQLInv, RequestTypes
    <3> QED
      BY <1>3, <3>1, EmptySeq, LenProperties
  <2> QED
    BY <2>1, CallbackFacts DEF GraphQLInv, CallbacksFit
<1>4. ASSUME NEW r \in Requests, NEW i \in DOMAIN request[r], AccountBalance(r, i)
      PROVE  GraphQLInv'
  <2>1. /\ ready # <<>> /\ Head(ready) = RunField(r, i)
        /\ request[r][i].resolver = "account_balance"
        /\ Load(r, i, "account", request[r][i].key)
    BY <1>4 DEF AccountBalance, Runs
  <2>2. request[r][i].key \in Keys
    BY <1>3, <2>1, FieldAsked
  <2>3. ~BadId(request[r][i]) /\ request[r][i].resolver # "network_status" /\ "account" \in Loaders
    BY <2>1 DEF BadId, Loaders
  <2> QED
    BY <2>1, <2>2, <2>3, LoadStep
<1>5. ASSUME NEW r \in Requests, NEW i \in DOMAIN request[r], TransactionHistory(r, i)
      PROVE  GraphQLInv'
  <2>1. /\ ready # <<>> /\ Head(ready) = RunField(r, i)
        /\ request[r][i].resolver = "transaction_history"
    BY <1>5 DEF TransactionHistory, Runs
  <2>2. CASE request[r][i].key \in DOMAIN UUID
    <3>1. Load(r, i, "transaction", UUID[request[r][i].key])
      BY <1>5, <2>2 DEF TransactionHistory
    <3>2. /\ ~BadId(request[r][i]) /\ request[r][i].resolver # "network_status"
          /\ "transaction" \in Loaders
      BY <2>1, <2>2 DEF BadId, Loaders
    <3>3. UUID[request[r][i].key] \in Keys
      BY <1>3, <2>1, <3>2, FieldAsked
    <3> QED
      BY <2>1, <3>1, <3>2, <3>3, LoadStep
  <2>3. CASE request[r][i].key \notin DOMAIN UUID
    <3>1. Settle(r, i, Error) /\ BadId(request[r][i])
      BY <1>5, <2>1, <2>3 DEF TransactionHistory, BadId
    <3> QED
      BY <2>1, <3>1, SettleStep
  <2> QED
    BY <2>2, <2>3
<1>6. ASSUME NEW r \in Requests, NEW i \in DOMAIN request[r], NetworkStatus(r, i)
      PROVE  GraphQLInv'
  <2>1. /\ ready # <<>> /\ Head(ready) = RunField(r, i)
        /\ request[r][i].resolver = "network_status"
    BY <1>6 DEF NetworkStatus, Runs
  <2>2. Settle(r, i, Said(Direct(request[r][i])))
    BY <1>6, <2>1 DEF NetworkStatus, Direct
  <2> QED
    BY <2>1, <2>2, SettleStep
<1>7. ASSUME NEW c \in Requests, NEW ld \in Loaders, Dispatch(c, ld)
      PROVE  GraphQLInv'
  BY <1>7, DispatchStep
<1>8. ASSUME NEW r \in Requests, Progress(r)
      PROVE  GraphQLInv'
  BY <1>8, ResumeStep, RespondStep DEF Progress
<1>9. CASE UNCHANGED vars
  <2>1. /\ request' = request /\ ready' = ready /\ future' = future /\ batch' = batch
        /\ fetches' = fetches /\ arrived' = arrived /\ field' = field /\ response' = response
    BY <1>9 DEF vars
  <2>2. LoaderTypes' /\ BatchFits' /\ OneFetchPerLoader' /\ DoneIsFetched'
    BY <2>1, LoadersKept
  <2>3. CallbacksFit' /\ FieldsFirst' /\ NothingAfterFetch'
    BY <2>1, CallbacksKept
  <2>4. RequestTypes'
    BY <2>1 DEF GraphQLInv, RequestTypes
  <2>5. FreshLoaders' /\ FieldsRight' /\ MutationsSaid'
    BY <2>1 DEF GraphQLInv, FreshLoaders, FieldsRight, MutationsSaid
  <2>6. AnsweredFromOwnFetch'
    BY <2>1 DEF GraphQLInv, AnsweredFromOwnFetch
  <2>7. ResponsesMatchDirectLookup'
    BY <2>1 DEF GraphQLInv, ResponsesMatchDirectLookup
  <2> QED
    BY <2>2, <2>3, <2>4, <2>5, <2>6, <2>7 DEF GraphQLInv
<1> QED
  BY <1>1, <1>2, <1>4, <1>5, <1>6, <1>7, <1>8, <1>9 DEF Next, Callback

(* GraphQLInv holds in every reachable state.                              *)
LEMMA GraphQLInvariant == Spec => []GraphQLInv
<1> QED
  BY InitInv, NextInv, PTL DEF Spec

-----------------------------------------------------------------------------
(* The theorems *)

(* Callbacks, futures, batches and fields are what they are meant to be in *)
(* every reachable state: the ready callbacks are fields and dispatches, a *)
(* dispatch is ready exactly if its batch has a key, and fields only say   *)
(* what is of a type of the schema (api/dataloader.py, api/schema.py).     *)
THEOREM GraphQLTypeCorrect == Spec => []GraphQLTypeOK
<1>1. GraphQLInv => GraphQLTypeOK
  <2> SUFFICES ASSUME GraphQLInv
               PROVE  GraphQLTypeOK
    OBVIOUS
  <2>1. /\ request \in [Requests -> Queries \cup Mutations \cup {<<>>}]
        /\ response \in [Requests -> {"none", "data", "null"}]
    BY DEF GraphQLInv, RequestTypes
  <2>2. ASSUME NEW n \in DOMAIN ready
        PROVE  \/ \E r \in Requests : \E i \in DOMAIN request[r] : ready[n] = RunField(r, i)
               \/ \E c \in Requests, ld \in Loaders : ready[n] = RunDispatch(c, ld)
    BY DEF GraphQLInv, CallbacksFit
  <2>3. ASSUME NEW c \in Requests, NEW ld \in Loaders
        PROVE  /\ DOMAIN future[c][ld] = Keys
               /\ \A k \in Keys : k \in Range(batch[c][ld]) <=> future[c][ld][k] = Pending
               /\ batch[c][ld] # <<>> <=> \E n \in DOMAIN ready : ready[n] = RunDispatch(c, ld)
    <3>1. DOMAIN future[c][ld] = Keys
      BY DEF GraphQLInv, LoaderTypes
    <3>2. \A k \in Keys : k \in Range(batch[c][ld]) <=> future[c][ld][k] = Pending
      BY DEF GraphQLInv, BatchFits
    <3>3. batch[c][ld] # <<>> => \E n \in DOMAIN ready : ready[n] = RunDispatch(c, ld)
      BY DEF GraphQLInv, CallbacksFit
    <3>4. ASSUME NEW n \in DOMAIN ready, ready[n] = RunDispatch(c, ld)
          PROVE  batch[c][ld] # <<>>
      BY <3>4, CallbackFacts DEF GraphQLInv, CallbacksFit
    <3> QED
      BY <3>1, <3>2, <3>3, <3>4
  <2>4. arrived \in [Requests -> 0..Len(fetches)]
    <3>1. Len(fetches) \in Nat
      BY FetchFacts DEF GraphQLInv
    <3>2. arrived \in [Requests -> Nat] /\ \A r \in Requests : arrived[r] <= Len(fetches)
      BY DEF GraphQLInv, RequestTypes
    <3> QED
      BY <3>1, <3>2
  <2>5. ASSUME NEW r \in Requests, NEW i \in DOMAIN request[r]
        PROVE  /\ field[r][i].status \in {"ready", "loading", "answered", "error"}
               /\ \A j \in DOMAIN field[r][i].value : field[r][i].value[j].type \in Types
    <3>1. CASE request[r] \in Queries
      <4>1. \/ field[r][i] \in {Ready, Loading, Error}
            \/ field[r][i] = Said(Direct(request[r][i]))
        BY <3>1 DEF GraphQLInv, FieldsRight
      <4> QED
        BY <4>1, FieldFacts, SaidTypes
    <3>2. CASE request[r] \in Mutations
      <4>1. PICK a : field[r][i] = Said(<<ActionToType(a)>>)
        BY <3>2 DEF GraphQLInv, MutationsSaid
      <4>2. field[r][i].status = "answered" /\ field[r][i].value = <<ActionToType(a)>>
        BY <4>1, FieldFacts
      <4> QED
        BY <4>2, SaidTypes
    <3>3. request[r] # <<>>
      BY AskedFacts
    <3> QED
      BY <2>1, <3>1, <3>2, <3>3
  <2>6. \A r \in Requests : DOMAIN field[r] = DOMAIN request[r]
    BY DEF GraphQLInv, RequestTypes
  <2> QED
    BY <2>1, <2>2, <2>3, <2>4, <2>5, <2>6 DEF GraphQLTypeOK
<1> QED
  BY <1>1, GraphQLInvariant, PTL

(* However many fields the queries have and however requests, callbacks    *)
(* and dispatches interleave, each loader of a request calls load_fn once  *)
(* at most, and with no key twice.                                         *)
THEOREM LoadersFetchOnce == Spec => []OneFetchPerLoader
<1>1. GraphQLInv => OneFetchPerLoader
  BY DEF GraphQLInv
<1> QED
  BY <1>1, GraphQLInvariant, PTL

(* What a field says has been fetched since its request came, by the right *)
(* one of the request's own loaders, in a call of load_fn that had the     *)
(* field's own key.                                                        *)
THEOREM AnswersAreFetched == Spec => []AnsweredFromOwnFetch
<1>1. GraphQLInv => AnsweredFromOwnFetch
  BY DEF GraphQLInv
<1> QED
  BY <1>1, GraphQLInvariant, PTL

(* A response to a query has for every field what a direct lookup of its   *)
(* key gives, missing rows and all kinds of last included, and is null     *)
(* exactly if one of the account ids is invalid.                           *)
THEOREM ResponsesAreDirect == Spec => []ResponsesMatchDirectLookup
<1>1. GraphQLInv => ResponsesMatchDirectLookup
  BY DEF GraphQLInv
<1> QED
  BY <1>1, GraphQLInvariant, PTL

=============================================================================
