CONSTANTS
    plain = plain
    schema = schema
    Tasks = {t1, t2}
    t1 = t1
    t2 = t2
    Quads = {plain, schema}
    SchemaQuads = {schema}
    Authors = {"ada", "bob"}
    Calls <- CallsOfTasks
    Budgets <- SomeBudgets
SPECIFICATION Spec
CHECK_DEADLOCK FALSE
INVARIANTS
    CrossingCallsAreSafe
PROPERTIES
    CallsSettle
