------------------------------ MODULE GraphQL ------------------------------
(***************************************************************************)
(* /graphql: the schema (api/schema.py), the data loaders of each request  *)
(* (api/dataloader.py) and the context that holds them (api/app.py).       *)
(*                                                                         *)
(* A query runs its fields as tasks of one event loop, whose ready         *)
(* callbacks are run first in, first out.  A field that needs rows loads   *)
(* its key; the first key queues a dispatch behind the callbacks that are  *)
(* ready, and the keys loaded until it runs are fetched together.          *)
(***************************************************************************)
EXTENDS MockResolvers, Functions

CONSTANTS
  Requests,    \* GraphQL requests
  Queries,     \* what a query may ask: sequences of fields
  Mutations,   \* what a mutation may ask: sequences of fields
  Phones,      \* the phone numbers queries name
  UUID         \* UUID(s) for each string s the constructor takes

VARIABLES
  request,   \* the fields each request asks for, none before it is here
  ready,     \* the event loop's ready callbacks
  future,    \* per context and loader: what the loader's cache has for each key
  batch,     \* per context and loader: the keys waiting for the dispatch
  fetches,   \* the calls of load_fn so far
  arrived,   \* how many there had been when the request came
  field,     \* how far each field of each request is, and what it says
  response   \* none, or the data of the response: all of it, or null

vars == <<request, ready, future, batch, fetches, arrived, field, response>>

Loaders == {"account", "transaction"}
Keys    == Phones \cup Range(UUID)

ASSUME GraphQLAssumption ==
  /\ Queries \cup Mutations \subseteq Seq([resolver : STRING, key : STRING, last : Int])
  /\ \A q \in Queries : \A i \in DOMAIN q :
       /\ q[i].resolver \in {"account_balance", "transaction_history", "network_status"}
       /\ q[i].resolver = "account_balance" => q[i].key \in Phones
  /\ \A m \in Mutations : \A i \in DOMAIN m : m[i].resolver \in DOMAIN ReferenceOf
  /\ <<>> \notin Queries \cup Mutations

(* load_fn of each loader *)
LoadFn(loader, keys) ==
  IF loader = "account" THEN get_customers_batch(keys) ELSE get_transactions_batch(keys)

(* Fault: one context for all requests. *)
SharedContext(r) == CHOOSE q \in Requests : TRUE

(* _get_context: a request has a context, and in it loaders, of its own. *)
Context(r) == r

Types == {"AccountType", "TransactionType", "ActionResultType", "NetworkStatusType"}

(* The conversions copy every field of a model into a Strawberry type. *)
CustomerToAccount(c) == [type |-> "AccountType", id |-> c]
TxnToType(t)         == [type |-> "TransactionType", id |-> t]
NetworkToType(n)     == [type |-> "NetworkStatusType", id |-> n]
ActionToType(a)      == [type |-> "ActionResultType", id |-> a.reference_id]

NoFuture == [status |-> "none", rows |-> <<>>]
Pending  == [status |-> "pending", rows |-> <<>>]
Raised   == [status |-> "raised", rows |-> <<>>]
Done(s)  == [status |-> "done", rows |-> s]

Ready   == [status |-> "ready", value |-> <<>>]
Loading == [status |-> "loading", value |-> <<>>]
Error   == [status |-> "error", value |-> <<>>]
Said(v) == [status |-> "answered", value |-> v]

(* The callbacks: a field's task, and the dispatch of a loader's batch. *)
RunField(r, i)     == [request |-> r, index |-> i]
RunDispatch(c, ld) == [context |-> c, loader |-> ld]

GraphQLTypeOK ==
  /\ request \in [Requests -> Queries \cup Mutations \cup {<<>>}]
  /\ \A n \in DOMAIN ready :
       \/ \E r \in Requests : \E i \in DOMAIN request[r] : ready[n] = RunField(r, i)
       \/ \E c \in Requests, ld \in Loaders : ready[n] = RunDispatch(c, ld)
  /\ \A c \in Requests, ld \in Loaders :
       /\ DOMAIN future[c][ld] = Keys
       /\ \A k \in Keys : k \in Range(batch[c][ld]) <=> future[c][ld][k] = Pending
       /\ batch[c][ld] # <<>> <=> \E n \in DOMAIN ready : ready[n] = RunDispatch(c, ld)
  /\ arrived \in [Requests -> 0..Len(fetches)]
  /\ \A r \in Requests :
       /\ DOMAIN field[r] = DOMAIN request[r]
       /\ \A i \in DOMAIN field[r] :
            /\ field[r][i].status \in {"ready", "loading", "answered", "error"}
            /\ \A j \in DOMAIN field[r][i].value : field[r][i].value[j].type \in Types
  /\ response \in [Requests -> {"none", "data", "null"}]

Init ==
  /\ request = [r \in Requests |-> <<>>]
  /\ ready = <<>>
  /\ future = [c \in Requests |-> [ld \in Loaders |-> [k \in Keys |-> NoFuture]]]
  /\ batch = [c \in Requests |-> [ld \in Loaders |-> <<>>]]
  /\ fetches = <<>>
  /\ arrived = [r \in Requests |-> 0]
  /\ field = [r \in Requests |-> <<>>]
  /\ response = [r \in Requests |-> "none"]

-----------------------------------------------------------------------------
(* The fields of a query start together, each a task of its own. *)
Query(r, q) ==
  /\ request[r] = <<>>
  /\ request' = [request EXCEPT ![r] = q]
  /\ field' = [field EXCEPT ![r] = [i \in DOMAIN q |-> Ready]]
  /\ ready' = ready \o [i \in DOMAIN q |-> RunField(r, i)]
  /\ arrived' = [arrived EXCEPT ![r] = Len(fetches)]
  /\ UNCHANGED <<future, batch, fetches, response>>

(* The fields of a mutation run one after the other and never suspend. *)
Mutate(r, m) ==
  /\ request[r] = <<>>
  /\ request' = [request EXCEPT ![r] = m]
  /\ field' = [field EXCEPT ![r] =
                 [i \in DOMAIN m |-> Said(<<ActionToType(ActionResult(m[i].resolver))>>)]]
  /\ arrived' = [arrived EXCEPT ![r] = Len(fetches)]
  /\ response' = [response EXCEPT ![r] = "data"]
  /\ UNCHANGED <<ready, future, batch, fetches>>

(* The callback at the head is field i of request r, and f its resolver. *)
Runs(r, i, f) ==
  /\ ready # <<>>
  /\ Head(ready) = RunField(r, i)
  /\ request[r][i].resolver = f

(* The field says v without having loaded anything. *)
Settle(r, i, v) ==
  /\ field' = [field EXCEPT ![r][i] = v]
  /\ ready' = Tail(ready)
  /\ UNCHANGED <<request, future, batch, fetches, arrived, response>>

(* Fault: every key that is loaded queues a dispatch. *)
NeverQueued(c, ld) == FALSE

(* The keys loaded last still wait for their dispatch: another one joins. *)
Queued(c, ld) == batch[c][ld] # <<>>

(* DataLoader.load: a key that is in the cache is not loaded again. *)
Load(r, i, ld, k) ==
  LET c   == Context(r)
      new == future[c][ld][k] = NoFuture
  IN  /\ field' = [field EXCEPT ![r][i] = Loading]
      /\ future' = IF new THEN [future EXCEPT ![c][ld][k] = Pending] ELSE future
      /\ batch' = IF new THEN [batch EXCEPT ![c][ld] = Append(@, k)] ELSE batch
      /\ ready' = Tail(ready) \o
                    IF new /\ ~Queued(c, ld) THEN <<RunDispatch(c, ld)>> ELSE <<>>
      /\ UNCHANGED <<request, fetches, arrived, response>>

(* Fault: the customer is looked up without the loader. *)
AccountBalanceAlone(r, i) ==
  /\ Runs(r, i, "account_balance")
  /\ LET k == request[r][i].key IN
       /\ field' = [field EXCEPT ![r][i] =
            Said([j \in DOMAIN get_customer(k) |-> CustomerToAccount(get_customer(k)[j])])]
       /\ fetches' = Append(fetches, [context |-> r, loader |-> "account", keys |-> <<k>>])
  /\ ready' = Tail(ready)
  /\ UNCHANGED <<request, future, batch, arrived, response>>

AccountBalance(r, i) ==
  /\ Runs(r, i, "account_balance")
  /\ Load(r, i, "account", request[r][i].key)

(* The constructor of UUID raises unless the id is one. *)
TransactionHistory(r, i) ==
  /\ Runs(r, i, "transaction_history")
  /\ IF request[r][i].key \in DOMAIN UUID
     THEN Load(r, i, "transaction", UUID[request[r][i].key])
     ELSE Settle(r, i, Error)

NetworkStatus(r, i) ==
  /\ Runs(r, i, "network_status")
  /\ LET rows == get_network_status(request[r][i].key)
     IN  Settle(r, i, Said([j \in DOMAIN rows |-> NetworkToType(rows[j])]))

(* Fault: a future whose result is empty is dropped and never resolved. *)
DispatchFound(c, ld) ==
  LET keys == batch[c][ld]
      rows == LoadFn(ld, keys)
      At(k) == CHOOSE j \in DOMAIN keys : keys[j] = k
  IN  /\ ready # <<>> /\ Head(ready) = RunDispatch(c, ld)
      /\ fetches' = Append(fetches, [context |-> c, loader |-> ld, keys |-> keys])
      /\ future' = [future EXCEPT ![c][ld] = [k \in Keys |->
                      IF k \notin Range(keys) THEN @[k]
                      ELSE IF rows[At(k)] = <<>> THEN NoFuture ELSE Done(rows[At(k)])]]
      /\ batch' = [batch EXCEPT ![c][ld] = <<>>]
      /\ ready' = Tail(ready)
      /\ UNCHANGED <<request, arrived, field, response>>

(* The callback at the head is a dispatch: load_fn is called with the keys *)
(* of the batch, and its results are given out by position.                *)
Dispatch(c, ld) ==
  LET keys == batch[c][ld]
      rows == LoadFn(ld, keys)
      At(k) == CHOOSE j \in DOMAIN keys : keys[j] = k
  IN  /\ ready # <<>> /\ Head(ready) = RunDispatch(c, ld)
      /\ fetches' = Append(fetches, [context |-> c, loader |-> ld, keys |-> keys])
      /\ future' = [future EXCEPT ![c][ld] = [k \in Keys |->
                      IF k \notin Range(keys) THEN @[k]
                      ELSE IF Len(rows) # Len(keys) THEN Raised ELSE Done(rows[At(k)])]]
      /\ batch' = [batch EXCEPT ![c][ld] = <<>>]
      /\ ready' = Tail(ready)
      /\ UNCHANGED <<request, arrived, field, response>>

(* What a resolver makes of the rows its key was loaded with. *)
Answer(f, rows) ==
  IF f.resolver = "account_balance"
  THEN [j \in DOMAIN rows |-> CustomerToAccount(rows[j])]
  ELSE LET txns == Slice(rows, f.last) IN [j \in DOMAIN txns |-> TxnToType(txns[j])]

(* The future that field f of request r awaits. *)
Awaited(r, f) ==
  IF f.resolver = "account_balance"
  THEN future[Context(r)]["account"][f.key]
  ELSE future[Context(r)]["transaction"][UUID[f.key]]

(* The future is resolved, and its field resumes. *)
Resume(r, i) ==
  /\ i \in DOMAIN field[r] /\ field[r][i] = Loading
  /\ LET f == request[r][i]
         fut == Awaited(r, f)
     IN  /\ fut.status \in {"done", "raised"}
         /\ field' = [field EXCEPT ![r][i] =
                        IF fut.status = "done" THEN Said(Answer(f, fut.rows)) ELSE Error]
  /\ UNCHANGED <<request, ready, future, batch, fetches, arrived, response>>

(* A history may not be null: an error in one leaves nothing of the data,  *)
(* at once.  Otherwise the response waits for all fields.                  *)
HistoryFailed(r) ==
  \E i \in DOMAIN field[r] :
    field[r][i] = Error /\ request[r][i].resolver = "transaction_history"

Respond(r) ==
  /\ request[r] # <<>> /\ response[r] = "none"
  /\ \/ HistoryFailed(r)
     \/ \A i \in DOMAIN field[r] : field[r][i].status \in {"answered", "error"}
  /\ response' = [response EXCEPT ![r] = IF HistoryFailed(r) THEN "null" ELSE "data"]
  /\ UNCHANGED <<request, ready, future, batch, fetches, arrived, field>>

Callback ==
  \/ \E r \in Requests : \E i \in DOMAIN request[r] :
       AccountBalance(r, i) \/ TransactionHistory(r, i) \/ NetworkStatus(r, i)
  \/ \E c \in Requests, ld \in Loaders : Dispatch(c, ld)

Progress(r) == (\E i \in DOMAIN field[r] : Resume(r, i)) \/ Respond(r)

Next ==
  \/ \E r \in Requests : (\E q \in Queries : Query(r, q)) \/ (\E m \in Mutations : Mutate(r, m))
  \/ Callback
  \/ \E r \in Requests : Progress(r)

(* The event loop runs what is ready, and tasks whose future is resolved. *)
Fairness == WF_vars(Callback) /\ \A r \in Requests : WF_vars(Progress(r))

Spec == Init /\ [][Next]_vars /\ Fairness

-----------------------------------------------------------------------------
(* The transactions a history asks for, said without a slice: those with   *)
(* fewer than last newer ones, or, for a negative last, with at least      *)
(* -last older ones.                                                       *)
Wanted(txns, last) ==
  {j \in DOMAIN txns : IF last >= 0 THEN j - 1 < last ELSE Len(txns) - j >= -last}

(* What a field says when it is asked alone. *)
Direct(f) ==
  IF f.resolver = "account_balance"
  THEN [j \in DOMAIN get_customer(f.key) |-> CustomerToAccount(get_customer(f.key)[j])]
  ELSE IF f.resolver = "transaction_history"
  THEN LET txns == Get(MOCK_TRANSACTIONS, UUID[f.key])
       IN  [j \in Wanted(txns, f.last) |-> TxnToType(txns[j])]
  ELSE [j \in DOMAIN get_network_status(f.key) |-> NetworkToType(get_network_status(f.key)[j])]

BadId(f) == f.resolver = "transaction_history" /\ f.key \notin DOMAIN UUID

(* Batched with the fields of its query and next to other requests, every  *)
(* field says what the tables say of its key and of no other, a missing    *)
(* row included (dataloader.py:14, 19, schema.py:136, 150), and histories  *)
(* are newest first whatever last is (schema.py:151).  The data is null    *)
(* exactly if an account id is invalid, and is complete otherwise.         *)
ResponsesMatchDirectLookup ==
  \A r \in Requests : response[r] # "none" /\ request[r] \in Queries =>
    IF \E i \in DOMAIN request[r] : BadId(request[r][i])
    THEN response[r] = "null"
    ELSE /\ response[r] = "data"
         /\ \A i \in DOMAIN request[r] : field[r][i] = Said(Direct(request[r][i]))

(* The loaders "prevent N+1 queries" (docs/ARCHITECTURE.md:181): however   *)
(* many fields a query has, each of its loaders fetches at most once, and  *)
(* no key twice, while other requests come in between.                     *)
OneFetchPerLoader ==
  \A m \in DOMAIN fetches :
    /\ IsInjective(fetches[m].keys)
    /\ \A n \in DOMAIN fetches :
         fetches[m].context = fetches[n].context /\ fetches[m].loader = fetches[n].loader => m = n

(* Loaders are made fresh for each request "to avoid cross-request         *)
(* caching" (docs/IMPLEMENTATION-LOG.md:139): what a field says has been   *)
(* fetched since its request came, by a loader of the request's own.       *)
AnsweredFromOwnFetch ==
  \A r \in Requests : \A i \in DOMAIN field[r] :
    LET f == request[r][i] IN
    request[r] \in Queries /\ field[r][i].status = "answered" /\ f.resolver # "network_status" =>
      \E n \in arrived[r] + 1 .. Len(fetches) :
        /\ fetches[n].context = r
        /\ IF f.resolver = "account_balance"
           THEN fetches[n].loader = "account" /\ f.key \in Range(fetches[n].keys)
           ELSE fetches[n].loader = "transaction" /\ UUID[f.key] \in Range(fetches[n].keys)

(* Every query is answered, also if nothing is found for a key and if an   *)
(* id is invalid while other fields still wait for their batch.            *)
QueriesAnswered == \A r \in Requests : request[r] # <<>> ~> response[r] # "none"

=============================================================================
