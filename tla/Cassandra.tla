------------------------------ MODULE Cassandra ------------------------------
(***************************************************************************)
(* The retries of the Cassandra session (cassandra/wrapper/queryretry.go). *)
(* Exec and Scan repeat a failed query up to Attempts times; ScanAndClose  *)
(* repeats only the Close of one iterator, and gocql keeps the error of an *)
(* iterator for ever.  An attempt that fails may have been carried out:    *)
(* the caller of these operators decides what it did to the tables.        *)
(***************************************************************************)
EXTENDS Integers

CONSTANTS
    Callers,     \* goroutines that query the datastore
    Attempts,    \* cassandraRetryAttempts, 3 in the code
    MaxFailures  \* bound on the failures of the datastore

ASSUME AttemptsAssumption == Attempts \in Nat \ {0}
ASSUME FailuresAssumption == MaxFailures \in Nat

VARIABLES
    attempt,  \* attempt[c]: failed attempts of the query that c runs
    failures  \* failures of the datastore so far

queryVars == <<attempt, failures>>

QueryTypeOK ==
    /\ attempt \in [Callers -> 0 .. Attempts - 1]
    /\ failures \in 0 .. MaxFailures

QueryInit ==
    /\ attempt = [c \in Callers |-> 0]
    /\ failures = 0

\* The datastore answers.
Succeeds(c) ==
    /\ attempt' = [attempt EXCEPT ![c] = 0]
    /\ UNCHANGED failures

\* The datastore fails or does not answer in time.
Failure == failures < MaxFailures /\ failures' = failures + 1

\* Mutant of TriesLeft: the loop forgets to count.
TriesLeftAlways(c) == TRUE

TriesLeft(c) == attempt[c] + 1 < Attempts

\* The next turn of the loop, after a pause.
Again(c) ==
    /\ TriesLeft(c)
    /\ attempt' = [attempt EXCEPT ![c] = @ + 1]

GivesUp(c) ==
    /\ ~TriesLeft(c)
    /\ attempt' = [attempt EXCEPT ![c] = 0]

\* One attempt of Exec, with its result: the error of the last attempt, or none.
Exec(c, result) ==
    \/ result = "ok" /\ Succeeds(c)
    \/ result = "again" /\ Failure /\ Again(c)
    \/ result = "error" /\ Failure /\ GivesUp(c)

\* One attempt of Scan: a row that is not there is an answer too.
Scan(c, found, result) ==
    \/ result = (IF found THEN "found" ELSE "not found") /\ Succeeds(c)
    \/ result = "again" /\ Failure /\ Again(c)
    \/ result = "error" /\ Failure /\ GivesUp(c)

\* One turn of ScanAndClose: the rows are read by the first turn only, and once Close has
\* failed the other turns fail without asking the datastore.
ScanAndClose(c, result) ==
    \/ result = "ok" /\ attempt[c] = 0 /\ Succeeds(c)
    \/ /\ IF attempt[c] = 0 THEN Failure ELSE UNCHANGED failures
       /\ \/ result = "again" /\ Again(c)
          \/ result = "error" /\ GivesUp(c)

=============================================================================
