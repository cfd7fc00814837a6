-------------------------------- MODULE MySql --------------------------------
(***************************************************************************)
(* green_turtle/mysqlcxx.*: a connection, one command with its parameters  *)
(* and the result set of the last select, on the thread that owns them.    *)
(* What libmysqlclient and the server answer is chosen freely: a query     *)
(* fails, changes some lines or yields rows; unread rows make every later  *)
(* query fail ("commands out of sync").                                    *)
(***************************************************************************)
EXTENDS Integers, Sequences

CONSTANTS
    Fields,       \* columns of a select
    Tables,       \* what a select may yield: sequences of rows; a row is a sequence
                  \* of fields with their data and length
    Data,         \* what a parameter may be set to, non-empty sequences
    MaxParams,    \* bound: parameters of the command
    MaxCalls,     \* bound: executions
    Null

VARIABLES
    unread,       \* the library holds rows nobody asked for
    params,       \* SqlCommand::params; params[i + 1] is parameter i
    wanted,       \* history: what SetParam was last given, by index
    statements,   \* MYSQL_STMT handles not closed
    calls,        \* executions so far
    outcome,      \* of the last ExecSql: the number returned, whether it failed
    result        \* the ResultSet, or Null

sql_vars == <<unread, params, wanted, statements, calls, outcome, result>>

Blank == [type |-> "none", data |-> <<>>]

Init ==
    /\ unread = FALSE
    /\ params = <<>> /\ wanted = [i \in {} |-> Blank]
    /\ statements = 0 /\ calls = 0
    /\ outcome = [value |-> 0, failed |-> FALSE]
    /\ result = Null
-----------------------------------------------------------------------------
(* params.resize(index + 1): new ones are Blank (type 0).                  *)
AtLeast(s, n) ==
    [i \in 1 .. (IF Len(s) < n THEN n ELSE Len(s)) |-> IF i <= Len(s) THEN s[i] ELSE Blank]

Bug_SetParamAppends(index, type, data) ==
    /\ params' = [AtLeast(params, index + 1) EXCEPT ![index + 1] =
                    [type |-> type, data |-> @.data \o data]]
    /\ wanted' = [i \in DOMAIN wanted \cup {index} |->
                    IF i = index THEN [type |-> type, data |-> data] ELSE wanted[i]]
    /\ UNCHANGED <<unread, statements, calls, outcome, result>>
SetParam(index, type, data) ==
    /\ params' = [AtLeast(params, index + 1) EXCEPT ![index + 1] =
                    [type |-> type, data |-> data]]
    /\ wanted' = [i \in DOMAIN wanted \cup {index} |->
                    IF i = index THEN [type |-> type, data |-> data] ELSE wanted[i]]
    /\ UNCHANGED <<unread, statements, calls, outcome, result>>
-----------------------------------------------------------------------------
Called == calls < MaxCalls /\ calls' = calls + 1

(* ExecSql(sql), also from SelectCharset: -errno, the lines changed, or    *)
(* (int)(my_ulonglong)-1 for a statement that yields rows.                 *)
ExecSql(answer) ==
    /\ Called
    /\ unread => answer = "error"
    /\ outcome' = CASE answer = "error" -> [value |-> -1064, failed |-> TRUE]
                    [] answer = "lines" -> [value |-> 1, failed |-> FALSE]
                    [] answer = "rows"  -> [value |-> -1, failed |-> FALSE]
    /\ unread' = (unread \/ answer = "rows")
    /\ UNCHANGED <<params, wanted, statements, result>>

(* ExecSql(command).  mysql_stmt_init may fail; an execution that fails    *)
(* returns before mysql_stmt_close, which also discards unread rows.  It   *)
(* returns the errno of the connection, not of the statement, and that is  *)
(* 0 for what the library refuses by itself, such as a statement that a    *)
(* reconnection has detached.                                              *)
ExecCommand(answer) ==
    /\ Called
    /\ unread => answer \in {"no_statement", "error", "detached"}
    /\ outcome' = CASE answer = "no_statement" -> [value |-> -1, failed |-> TRUE]
                    [] answer = "error" -> [value |-> -1064, failed |-> TRUE]
                    [] answer = "detached" -> [value |-> 0, failed |-> TRUE]
                    [] answer = "lines" -> [value |-> 1, failed |-> FALSE]
                    [] answer = "rows"  -> [value |-> -1, failed |-> FALSE]
    /\ statements' = statements + (IF answer \in {"error", "detached"} THEN 1 ELSE 0)
    /\ UNCHANGED <<unread, params, wanted, result>>
-----------------------------------------------------------------------------
(* mysql_fetch_row moves the library's cursor, to NULL after the last row. *)
Fetch(rs) ==
    IF rs.fetched < Len(rs.rows)
    THEN [rs EXCEPT !.fetched = @ + 1, !.row = rs.rows[rs.fetched + 1], !.field_len = TRUE]
    ELSE [rs EXCEPT !.row = Null, !.field_len = FALSE]

NewResult(rows) ==
    [rows |-> rows, fetched |-> 0, row |-> Null, field_len |-> FALSE,
     total_fields |-> Fields, total_rows |-> Len(rows), current_row |-> -1]
MySqlResultSet(rows) ==
    IF Len(rows) > 0 THEN Fetch([NewResult(rows) EXCEPT !.current_row = 0]) ELSE NewResult(rows)

ExecSelect(rows) ==
    /\ Called /\ ~unread
    /\ result' = MySqlResultSet(rows)
    /\ UNCHANGED <<unread, params, wanted, statements, outcome>>
ExecSelectFails ==
    /\ Called
    /\ result' = Null
    /\ UNCHANGED <<unread, params, wanted, statements, outcome>>

NextRow ==
    /\ result # Null
    /\ result' = IF result.current_row < result.total_rows
                 THEN Fetch([result EXCEPT !.current_row = @ + 1]) ELSE result
    /\ UNCHANGED <<unread, params, wanted, statements, calls, outcome>>

IsValid(rs) ==
    /\ rs.total_fields > 0 /\ rs.field_len /\ rs.total_rows > 0
    /\ rs.current_row >= 0 /\ rs.current_row < rs.total_rows

(* operator[] and at: what is empty or NULL reads as a null pointer.       *)
At(rs, field) ==
    IF ~IsValid(rs) \/ field >= rs.total_fields THEN [data |-> Null, len |-> 0]
    ELSE [data |-> IF rs.row[field + 1].len <= 0 THEN Null ELSE rs.row[field + 1].data,
          len |-> rs.row[field + 1].len]

Next ==
    \/ \E index \in 0 .. MaxParams - 1, type \in {"blob", "string"}, data \in Data :
          SetParam(index, type, data)
    \/ \E answer \in {"error", "lines", "rows"} : ExecSql(answer)
    \/ \E answer \in {"no_statement", "error", "detached", "lines", "rows"} : ExecCommand(answer)
    \/ \E rows \in Tables : ExecSelect(rows)
    \/ ExecSelectFails \/ NextRow

Spec == Init /\ [][Next]_sql_vars
-----------------------------------------------------------------------------
(* However far Next is called, the row at hand is the one current_row      *)
(* counts to, so that a loop over IsValid and Next sees every row once and *)
(* in order; beyond the last row, and in a result without rows, no field   *)
(* is read through a null row.  An empty string cannot be told from NULL.  *)
ReadsCurrentRow ==
    result # Null =>
        \A field \in 0 .. Fields :
            LET n == result.current_row + 1
            IN  At(result, field) =
                  IF n \in 1 .. Len(result.rows) /\ field < Fields
                  THEN LET f == result.rows[n][field + 1]
                       IN  [data |-> IF f.len = 0 THEN Null ELSE f.data, len |-> f.len]
                  ELSE [data |-> Null, len |-> 0]

(* The command binds, at each place, what SetParam was last given for it,  *)
(* in whatever order the places are set; places left out are bound empty.  *)
ParamsAreLatest ==
    /\ Len(params) = 0 \/ Len(params) - 1 \in DOMAIN wanted
    /\ DOMAIN wanted \subseteq 0 .. Len(params) - 1
    /\ \A i \in 0 .. Len(params) - 1 :
          params[i + 1] = IF i \in DOMAIN wanted THEN wanted[i] ELSE Blank

(* What callers of the wrapper get through it: rows and parameters.        *)
SqlIsTold == ReadsCurrentRow /\ ParamsAreLatest

(* mysqlcxx.h:69 on ExecSql: "@return lines affected. if lines < 0, that   *)
(* means the error number".  What is returned is negative if and only if   *)
(* the execution failed.                                                   *)
NegativeMeansError == outcome.value < 0 <=> outcome.failed
=============================================================================
