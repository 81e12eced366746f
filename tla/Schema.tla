-------------------------------- MODULE Schema --------------------------------
(***************************************************************************)
(* How the Cassandra wrapper reads a schema file and what its statements   *)
(* do to the datastore (cassandra/wrapper/init.go).  A file is a sequence  *)
(* of tokens: the clauses of statements, strings, comments, and the        *)
(* semicolons that end statements.  A file that is missing is empty.       *)
(***************************************************************************)
EXTENDS Integers, Sequences

CONSTANTS
    System,      \* the keyspace the wrapper connects to first
    Unqualified  \* the keyspace of a table that is named without one

End == [kind |-> "end"]
Keyspace(k) == [kind |-> "clause", op |-> "keyspace", ks |-> k]
Use(k) == [kind |-> "clause", op |-> "use", ks |-> k]
Table(k, t) == [kind |-> "clause", op |-> "table", ks |-> k, table |-> t]
Quoted(token) == [token EXCEPT !.kind = "string"]
Comment(token) == [token EXCEPT !.kind = "comment"]

IsFile(file) ==
    /\ file \in Seq({file[i] : i \in DOMAIN file})
    /\ \A i \in DOMAIN file :
          file[i] = End \/ file[i].kind \in {"clause", "string", "comment"}

(* getStmtsFromFile: a comment is left out, and so is a last statement that no semicolon
   ends. *)
Read(st, token) ==
    CASE token.kind = "comment" -> st
      [] token.kind = "end" -> [list |-> Append(st.list, st.stmt), stmt |-> <<>>]
      [] OTHER -> [st EXCEPT !.stmt = Append(@, token)]

Reading(file) ==
    LET after[i \in 0 .. Len(file)] ==
            IF i = 0 THEN [list |-> <<>>, stmt |-> <<>>] ELSE Read(after[i - 1], file[i])
    IN  after

Statements(file) == Reading(file)[Len(file)].list

\* getKeyspaceNameFromUseStmt looks for the word anywhere in the statement, strings included.
Uses(stmt) == {k \in DOMAIN stmt : stmt[k].op = "use"}

IsUse(stmt) == Uses(stmt) # {}

KeyspaceOf(stmt) == stmt[CHOOSE k \in Uses(stmt) : \A l \in Uses(stmt) : k <= l].ks

\* What Cassandra takes the statement for, when the wrapper executes it.
Clauses(stmt) == {k \in DOMAIN stmt : stmt[k].kind = "clause"}

Creates(stmt, op) == {stmt[k] : k \in {l \in Clauses(stmt) : stmt[l].op = op}}

Qualified(clause, current) == IF clause.ks = Unqualified THEN current ELSE clause.ks

Executable(stmt, current, keyspaces) ==
    \E k \in DOMAIN stmt :
        /\ Clauses(stmt) = {k}
        /\ stmt[k].op = "table" => Qualified(stmt[k], current) \in keyspaces \ {System}

\* Every statement says IF NOT EXISTS.
KeyspacesAfter(stmt, keyspaces) == keyspaces \union {c.ks : c \in Creates(stmt, "keyspace")}

TablesAfter(stmt, current, tables) ==
    tables \union {<<Qualified(c, current), c.table>> : c \in Creates(stmt, "table")}

\* A string does not have the word USE in it, and a USE does not share its statement with
\* another clause.
UsesStandAlone(file) ==
    \A i, j \in DOMAIN file :
        /\ file[i].kind = "string" => file[i].op # "use"
        /\ /\ i < j /\ file[i].kind = "clause" /\ file[j].kind = "clause"
           /\ \A k \in i .. j : file[k] # End
           => "use" \notin {file[i].op, file[j].op}

\* What the file asks for, read without regard to how the wrapper reads it: each complete
\* CREATE TABLE, in its own keyspace or in the one of the last USE above it.
ClausesOf(file, op) == {j \in Clauses(file) : file[j].op = op}

Latest(S) == CHOOSE j \in S : \A k \in S : k <= j

Current(file, i) ==
    LET uses == {j \in ClausesOf(file, "use") : j < i}
    IN  IF uses = {} THEN System ELSE file[Latest(uses)].ks

AskedAt(file, i) == <<Qualified(file[i], Current(file, i)), file[i].table>>

Asked(file) ==
    {AskedAt(file, i) : i \in {j \in ClausesOf(file, "table") :
                                 \E k \in DOMAIN file : k > j /\ file[k] = End}}

=============================================================================
