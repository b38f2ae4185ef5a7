CONSTANT MaxCalls = 2
SPECIFICATION Spec
INVARIANTS TypeOK ReportIsTrue SentIsAccepted FieldIsTrue
