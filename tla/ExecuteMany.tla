----------------------------- MODULE ExecuteMany -----------------------------
(***************************************************************************)
(* executemany() of cursors.py: a bulk INSERT or REPLACE is cut into       *)
(* statements of at most max_stmt_length bytes; any other query is         *)
(* executed once for each row.                                             *)
(*                                                                         *)
(* A row is its number in args; of its text only the length counts.  One   *)
(* execute() is one step, for Cursors says what it does to the cursor: it  *)
(* returns a rowcount, or it raises, and then the statement may have been  *)
(* executed or not, for the answer may be what got lost.                   *)
(***************************************************************************)
EXTENDS Integers, Sequences, SequencesExt

CONSTANTS
  Prefix, Postfix, \* lengths of the query before and after its values
  MaxLength,       \* cursor.max_stmt_length
  Lengths,         \* lengths of the values of a row
  MaxArgs,         \* bound on the number of rows
  Counts,          \* what rowcount may be after one statement
  None

ASSUME LengthsAssumption ==
  /\ Prefix \in Nat /\ Postfix \in Nat /\ MaxLength \in Nat
  /\ Lengths \subseteq Nat
  /\ MaxArgs \in Nat
  /\ Counts \subseteq Int
  /\ None \notin Int

VARIABLES
  args,     \* the lengths of the rows, as _mogrify will format them
  bulk,     \* the query matches RE_INSERT_VALUES
  lazy,     \* args is an iterator, true even when it is empty
  outcome,  \* "begun", "running", "returned" or "raised"
  next,     \* how many rows came out of the iterator
  sql,      \* the rows whose values are in the statement
  size,     \* len(sql)
  rows,     \* what the statements so far returned, added up
  rowcount, \* self.rowcount
  received, \* history: the rows the server has executed, in order
  counted,  \* history: the rowcount of each statement that returned
  last      \* history: the statement sent last

vars == <<args, bulk, lazy, outcome, next, sql, size, rows, rowcount,
          received, counted, last>>

NoStatement == [rows |-> << >>, size |-> 0]

Init ==
  /\ args \in BoundedSeq(Lengths, MaxArgs)
  /\ bulk \in BOOLEAN
  /\ lazy \in BOOLEAN
  /\ outcome = "begun"
  /\ next = 0
  /\ sql = << >>
  /\ size = 0
  /\ rows = 0
  /\ rowcount \in {0, None} \cup Counts \* 0, or as the statement before left it
  /\ received = << >>
  /\ counted = << >>
  /\ last = NoStatement

-----------------------------------------------------------------------------
given == <<args, bulk, lazy>>
history == <<received, counted, last>>

Running == outcome = "running"
RowsLeft == next < Len(args)

(* The row that comes out of the iterator, and its length. *)
Row == next + 1
Size == args[Row]

(* An exception leaves rowcount as the last execute() left it. *)
Raise ==
  /\ outcome' = "raised"
  /\ UNCHANGED <<given, next, sql, size, rows>>

(* if not args: return *)
NoArgs ==
  /\ outcome = "begun"
  /\ args = << >> /\ ~lazy
  /\ outcome' = "returned"
  /\ UNCHANGED <<given, next, sql, size, rows, rowcount, history>>

(* next(args) of an empty iterator raises StopIteration. *)
NoFirstRow ==
  /\ outcome = "begun"
  /\ args = << >> /\ lazy /\ bulk
  /\ Raise
  /\ UNCHANGED <<rowcount, history>>

(* sql = prefix + the first row; a query that is not bulk has no such step. *)
FirstRow ==
  /\ outcome = "begun"
  /\ args # << >> /\ bulk
  /\ outcome' = "running"
  /\ next' = 1
  /\ sql' = <<1>>
  /\ size' = Prefix + args[1]
  /\ UNCHANGED <<given, rows, rowcount, history>>

EachRow ==
  /\ outcome = "begun"
  /\ args # << >> \/ lazy
  /\ ~bulk
  /\ outcome' = "running"
  /\ UNCHANGED <<given, next, sql, size, rows, rowcount, history>>

(* A row that does not fit the query, or that has no literal; or the       *)
(* cursor is closed.                                                       *)
MogrifyRaises ==
  /\ RowsLeft
  /\ Running \/ outcome = "begun"
  /\ outcome = "begun" => bulk
  /\ Raise
  /\ UNCHANGED <<rowcount, history>>

(* self.execute: the values it sends, and the count it returns. *)
Sends(values, length) ==
  /\ received' = received \o values
  /\ last' = [rows |-> values, size |-> length]

Returns(n) ==
  /\ counted' = Append(counted, n)
  /\ rowcount' = n

ExecuteRaises(values, length) ==
  /\ \/ Sends(values, length)
     \/ UNCHANGED <<received, last>>
  /\ rowcount' \in {None, rowcount} \cup Counts
  /\ UNCHANGED counted
  /\ Raise

(* Mutants: the separator is not counted; a statement may not be as long   *)
(* as max_stmt_length.                                                     *)
FullWithoutSeparator == size + Size + Postfix > MaxLength
FullTooSoon == size + Size + Postfix + 1 >= MaxLength

(* len(sql) + len(v) + len(postfix) + 1 > max_stmt_length *)
Full == size + Size + Postfix + 1 > MaxLength

AddRow ==
  /\ Running /\ bulk /\ RowsLeft
  /\ ~Full
  /\ next' = Row
  /\ sql' = Append(sql, Row)
  /\ size' = size + 1 + Size
  /\ UNCHANGED <<given, outcome, rows, rowcount, history>>

(* Mutant: the row that did not fit is lost. *)
FlushLosesRow ==
  /\ Running /\ bulk /\ RowsLeft
  /\ Full
  /\ \E n \in Counts : Returns(n) /\ rows' = rows + n
  /\ Sends(sql, size + Postfix)
  /\ next' = Row
  /\ sql' = << >>
  /\ size' = Prefix
  /\ UNCHANGED <<given, outcome>>

Flush ==
  /\ Running /\ bulk /\ RowsLeft
  /\ Full
  /\ \E n \in Counts : Returns(n) /\ rows' = rows + n
  /\ Sends(sql, size + Postfix)
  /\ next' = Row
  /\ sql' = <<Row>>
  /\ size' = Prefix + Size
  /\ UNCHANGED <<given, outcome>>

FlushRaises ==
  /\ Running /\ bulk
  /\ RowsLeft => Full
  /\ ExecuteRaises(sql, size + Postfix)

(* Mutant: rowcount is that of the last statement. *)
FlushLastCounted ==
  /\ Running /\ bulk /\ ~RowsLeft
  /\ Sends(sql, size + Postfix)
  /\ \E n \in Counts : Returns(n)
  /\ outcome' = "returned"
  /\ sql' = << >>
  /\ UNCHANGED <<given, next, size, rows>>

(* The last statement, and self.rowcount = rows. *)
FlushLast ==
  /\ Running /\ bulk /\ ~RowsLeft
  /\ Sends(sql, size + Postfix)
  /\ \E n \in Counts :
       /\ counted' = Append(counted, n)
       /\ rows' = rows + n
       /\ rowcount' = rows'
  /\ outcome' = "returned"
  /\ sql' = << >>
  /\ UNCHANGED <<given, next, size>>

(* Mutant: the iterator is advanced twice. *)
ExecuteEveryOther ==
  /\ Running /\ ~bulk /\ RowsLeft
  /\ \E n \in Counts : Returns(n) /\ rows' = rows + n
  /\ Sends(<<Row>>, Prefix + Size + Postfix)
  /\ next' = Row + 1
  /\ UNCHANGED <<given, outcome, sql, size>>

(* sum(self.execute(query, arg) for arg in args) *)
ExecuteRow ==
  /\ Running /\ ~bulk /\ RowsLeft
  /\ \E n \in Counts : Returns(n) /\ rows' = rows + n
  /\ Sends(<<Row>>, Prefix + Size + Postfix)
  /\ next' = Row
  /\ UNCHANGED <<given, outcome, sql, size>>

ExecuteRowRaises ==
  /\ Running /\ ~bulk /\ RowsLeft
  /\ ExecuteRaises(<<Row>>, Prefix + Size + Postfix)

Sum ==
  /\ Running /\ ~bulk /\ ~RowsLeft
  /\ rowcount' = rows
  /\ outcome' = "returned"
  /\ UNCHANGED <<given, next, sql, size, rows, history>>

Next ==
  \/ NoArgs \/ NoFirstRow \/ FirstRow \/ EachRow \/ MogrifyRaises
  \/ AddRow \/ Flush \/ FlushRaises \/ FlushLast
  \/ ExecuteRow \/ ExecuteRowRaises \/ Sum

Spec == Init /\ [][Next]_vars

-----------------------------------------------------------------------------
TypeOK ==
  /\ args \in Seq(Lengths)
  /\ bulk \in BOOLEAN /\ lazy \in BOOLEAN
  /\ outcome \in {"begun", "running", "returned", "raised"}
  /\ next \in 0..Len(args)
  /\ sql \in Seq(Nat) /\ size \in Nat
  /\ rows \in Int /\ rowcount \in Int \cup {None}
  /\ received \in Seq(Nat) /\ counted \in Seq(Int)
  /\ last \in [rows : Seq(Nat), size : Nat]

(* The server gets the rows in the order of args, each once, however they  *)
(* are cut into statements and wherever an exception ends the method; and  *)
(* executemany() returns only when it has got them all.                    *)
EachRowOnce ==
  /\ \A i \in DOMAIN received : received[i] = i
  /\ Len(received) <= Len(args)
  /\ outcome = "returned" => Len(received) = Len(args)

(* The sum of a sequence of numbers. *)
Total(seq) ==
  LET sums[n \in 0..Len(seq)] == IF n = 0 THEN 0 ELSE sums[n - 1] + seq[n]
  IN sums[Len(seq)]

(* The members of seq at those places, and the text that they make. *)
At(seq, places) == [i \in 1..Len(places) |-> seq[places[i]]]
Text(values) == Prefix + Total(At(args, values)) + Len(values) - 1 + Postfix

(* A bulk statement of more than one row is not longer than                *)
(* max_stmt_length, its separators and both ends of the query counted.     *)
StatementsBounded ==
  bulk /\ Len(last.rows) > 1 => last.size <= MaxLength

(* A statement is as long as its prefix, its values, one separator between *)
(* two of them, and its postfix, counted from the rows themselves.         *)
StatementsFit ==
  /\ StatementsBounded
  /\ last # NoStatement => last.size = Text(last.rows)

(* A bulk statement is sent only when the next row would not fit. *)
StatementsFull ==
  bulk /\ last.rows # << >> /\ Last(last.rows) < Len(args) =>
    last.size + 1 + args[Last(last.rows) + 1] > MaxLength

(* The rowcount that executemany() leaves is that of all its statements,   *)
(* although each execute() has overwritten it with its own.  (When there   *)
(* are no args, it leaves what it found.)                                  *)
RowcountOfAll ==
  outcome = "returned" /\ (args # << >> \/ lazy) => rowcount = Total(counted)

-----------------------------------------------------------------------------
(* The inductive invariant behind them: what was received and what is in   *)
(* the statement are, in that order, all that came out of the iterator.    *)
OrderInv ==
  /\ \A i \in DOMAIN received : received[i] = i
  /\ outcome = "begun" => next = 0 /\ received = << >>
  /\ Running /\ bulk =>
       /\ sql # << >>
       /\ \A i \in DOMAIN sql : sql[i] = Len(received) + i
       /\ next = Len(received) + Len(sql)
  /\ Running /\ ~bulk => next = Len(received)
  /\ Len(received) <= Len(args)
  /\ outcome = "returned" => Len(received) = Len(args)

FitInv ==
  /\ Running /\ bulk /\ Len(sql) > 1 => size + Postfix <= MaxLength
  /\ StatementsBounded
  /\ StatementsFull

(* Behind the sums: size is the length of the text so far, and rows the    *)
(* total so far.                                                           *)
TextInv ==
  /\ Running /\ bulk => size + Postfix = Text(sql)
  /\ last # NoStatement => last.size = Text(last.rows)

CountInv ==
  /\ rows = Total(counted)
  /\ RowcountOfAll
=============================================================================
