----------------------------- MODULE MCD1Driver -----------------------------
(* Two tasks of one isolate; a schema quad and a data quad.                *)
EXTENDS D1Driver

CONSTANTS plain, schema, t1, t2

\* A task that writes, in one request or several, and one that changes the
\* level, reads versions, purges and also writes.
Writes ==
    {[op |-> "add", quads |-> {plain}], [op |-> "update", del |-> {schema}, ins |-> {plain}], [op |-> "clear"],
     [op |-> "bulkLoad", chunks |-> <<{plain}, {schema}>>], [op |-> "cypher", of |-> {plain}, ins |-> {}],
     [op |-> "put", of |-> {plain}, ins |-> {plain, schema}],
     [op |-> "setVersioning", to |-> Log, allow_loss |-> FALSE]}
Others ==
    {[op |-> "setVersioning", to |-> Log, allow_loss |-> FALSE], [op |-> "setVersioning", to |-> Off, allow_loss |-> TRUE],
     [op |-> "setVersioning", to |-> Stamped, allow_loss |-> FALSE],
     [op |-> "purge", q |-> plain], [op |-> "optimize"], [op |-> "query"], [op |-> "queryAsOf", version |-> HEAD],
     [op |-> "diff", from |-> 2, to |-> HEAD], [op |-> "unregister", quads |-> {schema}], [op |-> "put", of |-> {plain}, ins |-> {}]}
CallsOfTasks == [i \in Tasks |-> IF i = t1 THEN Writes ELSE Others]

\* Three calls; or two, one of them in a block and one request failing.
SomeBudgets == {[calls |-> 3, blocks |-> 0, failures |-> 0], [calls |-> 2, blocks |-> 1, failures |-> 0],
                [calls |-> 2, blocks |-> 0, failures |-> 1]}
=============================================================================
