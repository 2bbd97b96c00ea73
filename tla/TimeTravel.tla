----------------------------- MODULE TimeTravel -----------------------------
(***************************************************************************)
(* What a versioned store promises its readers, with no word of logs,      *)
(* triggers or levels: the store, a clock, and the versions that can be    *)
(* asked for.  While the store records, the version now is the store; a    *)
(* version before now never changes, but for a purge, which takes quads    *)
(* out of all of them, and a drop, after which none can be asked for.      *)
(***************************************************************************)
EXTENDS Naturals

CONSTANT Quads

VARIABLES
    store,       \* the quads a query of the present sees
    now,         \* the clock
    recording,   \* whether versions are being kept
    versions     \* the versions that can be asked for, each with its quads

vars == <<store, now, recording, versions>>

NoVersions == [v \in {} |-> {}]

\* The versions with one more, or with v replaced.
With(v, content) ==
    [u \in DOMAIN versions \cup {v} |-> IF u = v THEN content ELSE versions[u]]

-----------------------------------------------------------------------------
\* A statement changes the store, and the version now with it.
Change ==
    /\ store' \in SUBSET Quads
    /\ versions' = IF recording THEN With(now, store') ELSE versions
    /\ UNCHANGED <<now, recording>>

\* The clock moves on.
Tick ==
    /\ now' = now + 1
    /\ versions' = IF recording THEN With(now + 1, store) ELSE versions
    /\ UNCHANGED <<store, recording>>

\* Recording begins, or begins again after a pause, with the store as it is.
Record ==
    /\ ~recording
    /\ recording' = TRUE
    /\ now' = now + 1
    /\ versions' = With(now + 1, store)
    /\ UNCHANGED store

\* Recording stops; the versions stay.
Pause ==
    /\ recording
    /\ recording' = FALSE
    /\ now' = now + 1
    /\ versions' = With(now + 1, store)
    /\ UNCHANGED store

\* Recording stops and every version goes.
Drop ==
    /\ recording
    /\ recording' = FALSE
    /\ now' = now + 1
    /\ versions' = NoVersions
    /\ UNCHANGED store

\* A store without versions forgets its clock.
Forget ==
    /\ ~recording
    /\ versions = NoVersions
    /\ now' = 0
    /\ UNCHANGED <<store, recording, versions>>

\* Quads leave the store and every version of it.
Purge(rows) ==
    /\ store' = store \ rows
    /\ now' \in {now, now + 1}
    /\ versions' = [v \in DOMAIN versions \cup (IF recording THEN {now'} ELSE {}) |->
                       IF recording /\ v = now' THEN store' ELSE versions[v] \ rows]
    /\ UNCHANGED recording

-----------------------------------------------------------------------------
Init == store = {} /\ now = 0 /\ ~recording /\ versions = NoVersions

Next == \/ Change \/ Tick \/ Record \/ Pause \/ Drop \/ Forget
        \/ \E rows \in SUBSET Quads : Purge(rows)

Spec == Init /\ [][Next]_vars
=============================================================================
