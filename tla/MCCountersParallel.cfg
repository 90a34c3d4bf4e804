SPECIFICATION Spec
CONSTANTS
    Null = Null
    Query <- MCQuery
    Kind = {"self", "transfer"}
    QueriesOf <- MCQueriesOf
    Chunks = 2
    RecordsBatchSize = 2
    MaxNumber = 4
    MaxBlock = 2
PROPERTIES
    NewRecordsAreHigher
