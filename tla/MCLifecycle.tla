----------------------------- MODULE MCLifecycle -----------------------------
EXTENDS Lifecycle

\* The file of the repository with two of its tables; one with tables that are not
\* qualified, comments, strings and an end that is missing; one that lacks a table; one that
\* uses a keyspace nobody has created; no file; and one that has the word USE in a string.
MCQualified == <<Keyspace("janus"), End, Use("janus"), End,
                 Table("janus", "api_definition"), End, Table("janus", "oauth"), End>>

MCUnqualified == <<Comment(Use("system")), Keyspace("janus"), Quoted(Keyspace("x")), End,
                   Use("janus"), Comment(Table("", "x")), End,
                   Table("", "api_definition"), Comment(Use("system")), End,
                   Table("", "oauth"), Quoted(Table("", "x")), End, Table("", "x")>>

MCPartial == <<Use("system"), End, Keyspace("janus"), End,
               Table("janus", "api_definition"), End>>

MCMissing == <<Use("other"), End, Table("janus", "api_definition"), End>>

MCUseInString == <<Keyspace("janus"), End, Table("janus", "api_definition"),
                   Quoted(Use("janus")), End, Table("janus", "oauth"), End>>

MCFiles == {MCQualified, MCUnqualified, MCPartial, MCMissing, MCUseInString, <<>>}

=============================================================================
