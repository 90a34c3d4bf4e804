SPECIFICATION Spec
CONSTANTS
    Null = Null
    Query <- MCQuery
    Kind = {"self", "transfer"}
    QueriesOf <- MCQueriesOf
    Chunks = 1
    RecordsBatchSize = 2
    MaxNumber = 5
    MaxBlock = 2
INVARIANTS
    TypeOK
    CountersExact
PROPERTIES
    CountersTally
    NewRecordsAreHigher
    CountersCatchUp
