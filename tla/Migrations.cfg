SPECIFICATION Spec
CONSTANTS
    s1 = s1
    s2 = s2
    s3 = s3
    c1 = c1
    c2 = c2
    SubmissionIds = {s1, s2, s3}
    ContractIds = {c1, c2}
    ContractOf <- MCContractOf
INVARIANTS
    TypeOK
    SchemaIsTheListedOne
    StatusTellsSchema
    RunFailsOnlyWhenStranded
    
PROPERTIES
    PublishedSurvives
    UnfinishedSurvives
