--------------------------- MODULE CassandraProofs ---------------------------
(***************************************************************************)
(* What a query leaves behind, for every caller and every number of        *)
(* attempts.                                                               *)
(***************************************************************************)
EXTENDS Cassandra, TLAPS

USE AttemptsAssumption, FailuresAssumption

LEMMA SucceedsType ==
    ASSUME QueryTypeOK, NEW c \in Callers, Succeeds(c)
    PROVE  QueryTypeOK'
<1>1. 0 \in 0 .. Attempts - 1
    OBVIOUS
<1> QED
    BY <1>1 DEF QueryTypeOK, Succeeds

LEMMA FailureType ==
    ASSUME QueryTypeOK, Failure, UNCHANGED attempt
    PROVE  QueryTypeOK'
BY DEF QueryTypeOK, Failure

\* The loop counts an attempt as long as one is left, and begins again at none.
LEMMA RetryType ==
    ASSUME QueryTypeOK, NEW c \in Callers, Failure \/ UNCHANGED failures, Again(c) \/ GivesUp(c)
    PROVE  QueryTypeOK'
<1>1. failures' \in 0 .. MaxFailures
    BY DEF QueryTypeOK, Failure
<1>2. CASE Again(c)
    <2>1. attempt[c] + 1 \in 0 .. Attempts - 1
        BY <1>2 DEF Again, TriesLeft, QueryTypeOK
    <2> QED
        BY <1>1, <1>2, <2>1 DEF Again, QueryTypeOK
<1>3. CASE GivesUp(c)
    <2>1. 0 \in 0 .. Attempts - 1
        OBVIOUS
    <2> QED
        BY <1>1, <1>3, <2>1 DEF GivesUp, QueryTypeOK
<1> QED
    BY <1>2, <1>3

LEMMA ExecType ==
    ASSUME QueryTypeOK, NEW c \in Callers, NEW result, Exec(c, result)
    PROVE  QueryTypeOK'
BY SucceedsType, RetryType DEF Exec

LEMMA ScanType ==
    ASSUME QueryTypeOK, NEW c \in Callers, NEW found, NEW result, Scan(c, found, result)
    PROVE  QueryTypeOK'
BY SucceedsType, RetryType DEF Scan

LEMMA ScanAndCloseType ==
    ASSUME QueryTypeOK, NEW c \in Callers, NEW result, ScanAndClose(c, result)
    PROVE  QueryTypeOK'
BY SucceedsType, RetryType DEF ScanAndClose

=============================================================================
