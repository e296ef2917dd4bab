------------------------------ MODULE Requests ------------------------------
(***************************************************************************)
(* How the portal executes work: every HTTP or websocket request is a task *)
(* of its own that issues one database statement after the other, next to  *)
(* one background task, the lifecycle pass.  A component's actions are     *)
(* written with the five operators below; between two of them any other    *)
(* task may run, and a task may die (the client hangs up and its future is *)
(* dropped, or the process stops) and leaves what it wrote.                *)
(***************************************************************************)
EXTENDS Naturals

CONSTANTS
    Users,      \* the tasks that may serve a request at the same time
    Scenarios   \* which component is exercised, and the bounds: a set of
                \* [of, requests, crashes, serial]

VARIABLES
    scenario,   \* the member of Scenarios this behaviour runs
    req,        \* req[p]: the request task p is serving, with its pc
    requests,   \* requests admitted so far
    crashes     \* tasks that died so far

requestVars == <<scenario, req, requests, crashes>>

\* The background task of the API process; it wakes up for ever.
Pass == "pass"
Tasks == Users \cup {Pass}

ASSUME RequestsAssumption ==
    /\ Pass \notin Users
    /\ \A s \in Scenarios : /\ s.requests \in Nat
                            /\ s.crashes \in Nat
                            /\ s.serial \in BOOLEAN

NoRequest == [pc |-> "idle"]

RequestsInit ==
    /\ scenario \in Scenarios
    /\ req = [p \in Tasks |-> NoRequest]
    /\ requests = 0
    /\ crashes = 0

\* A serial scenario serves one request to its end before the next one, and
\* then one task is as good as another.
Serving == IF scenario.serial THEN {CHOOSE u \in Users : TRUE} ELSE Users

MayStart(p) ==
    /\ req[p] = NoRequest
    /\ scenario.serial => \A q \in Tasks : req[q] = NoRequest

Quiescent == \A p \in Tasks : req[p] = NoRequest

At(p, label) == req[p].pc = label

\* A request of a user arrives and is left in state r.
Request(p, r) ==
    /\ p \in Serving
    /\ MayStart(p)
    /\ requests < scenario.requests
    /\ req' = [req EXCEPT ![p] = r]
    /\ requests' = requests + 1
    /\ UNCHANGED <<scenario, crashes>>

\* The background task takes up a row it found; this is never bounded.
Wake(p, r) ==
    /\ p = Pass
    /\ MayStart(p)
    /\ req' = [req EXCEPT ![p] = r]
    /\ UNCHANGED <<scenario, requests, crashes>>

\* Either of the two.
Begin(p, r) == Request(p, r) \/ Wake(p, r)

Continue(p, r) ==
    /\ req' = [req EXCEPT ![p] = r]
    /\ UNCHANGED <<scenario, requests, crashes>>

Finish(p) == Continue(p, NoRequest)

\* The task dies between two statements.
Die(p) ==
    /\ req[p] # NoRequest
    /\ crashes < scenario.crashes
    /\ req' = [req EXCEPT ![p] = NoRequest]
    /\ crashes' = crashes + 1
    /\ UNCHANGED <<scenario, requests>>

\* What holds of the bookkeeping itself.
RequestsTypeOK ==
    /\ scenario \in Scenarios
    /\ DOMAIN req = Tasks
    /\ requests \in 0 .. scenario.requests
    /\ crashes \in 0 .. scenario.crashes

=============================================================================
