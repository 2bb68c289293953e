\* Two GraphQL requests at the same time, with one to three fields each.
SPECIFICATION Spec
CONSTANTS
  r1 = r1
  r2 = r2
  Requests <- TwoRequests
  Queries <- SomeQueries
  Mutations <- SomeMutations
  Phones <- ThreePhones
  UUID <- ParsedIds
INVARIANTS
  GraphQLTypeOK
  ResponsesMatchDirectLookup
  OneFetchPerLoader
  AnsweredFromOwnFetch
PROPERTIES
  QueriesAnswered
CHECK_DEADLOCK FALSE
