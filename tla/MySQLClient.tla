---------------------------- MODULE MySQLClient ----------------------------
(***************************************************************************)
(* One session of the MySQL client library, as the methods of _mysql.c use *)
(* it: a MYSQL structure is a record, and each function of the library an  *)
(* operator from the record before the call to the one after it.           *)
(*                                                                         *)
(* The server answers a statement with a sequence of result sets: one with *)
(* rows, one without (an OK packet), or an error, which ends the sequence. *)
(* It may go away at any time; the library notices when it next reads or   *)
(* writes, and does not connect again.                                     *)
(***************************************************************************)
EXTENDS Naturals, Sequences

Rows(n) == [kind |-> "rows", n |-> n]
OkSet == [kind |-> "ok", n |-> 0]
ErrorSet == [kind |-> "error", n |-> 0]

ResultSets == [kind : {"rows", "ok", "error"}, n : Nat]

IsAnswer(a) ==
  /\ a \in Seq(ResultSets)
  /\ a # << >>
  /\ \A k \in 1..Len(a) : a[k].kind = "error" => k = Len(a)

(* An error is cleared when the next command is sent, or its next result   *)
(* asked for, and at no other time.  fresh is history: whether it was set  *)
(* during the current method of a cursor.                                  *)
NoError == [code |-> "none", fresh |-> FALSE]
SetError(code) == [code |-> code, fresh |-> TRUE]
Stale(my) == [my EXCEPT !.err.fresh = FALSE]

(* status, as in the library: the session may send a command, must take    *)
(* the result set that was announced, or is reading one row by row.        *)
Connected ==
  [status |-> "ready",
   stmt   |-> 0,          \* how many statements the server has answered
   sets   |-> <<OkSet>>,  \* the answer to the last one
   at     |-> 1,          \* the result set the session is at
   fields |-> FALSE,      \* its columns are there and not taken yet
   read   |-> 0,          \* rows of it read one by one
   cut    |-> "no",       \* why not all of them come: "killed", "lost"
   link   |-> "up",       \* "down": the server is gone; "closed": noticed
   err    |-> NoError]

Sessions ==
  [status : {"ready", "get_result", "use_result"},
   stmt   : Nat,
   sets   : Seq(ResultSets),
   at     : Nat,
   fields : BOOLEAN,
   read   : Nat,
   cut    : {"no", "killed", "lost"},
   link   : {"up", "down", "closed"},
   err    : [code : {"none", "server", "sync", "lost"}, fresh : BOOLEAN]]

CurrentSet(my) == my.sets[my.at]
SetId(my) == <<my.stmt, my.at>>
MoreResults(my) == my.at < Len(my.sets)

(* The header of the result set the session has come to. *)
ReadHeader(my) ==
  LET set == CurrentSet(my)
      base == [my EXCEPT !.read = 0, !.err = NoError]
  IN CASE set.kind = "ok"    -> [base EXCEPT !.fields = FALSE]
       [] set.kind = "error" -> [base EXCEPT !.err = SetError("server")]
       [] OTHER              -> [base EXCEPT !.fields = TRUE, !.status = "get_result"]

OutOfSync(my) == [my EXCEPT !.err = SetError("sync")]

(* A read or a write finds the server gone: the library closes its end and *)
(* forgets the columns, but not that more result sets were announced.      *)
Lost(my) == [my EXCEPT !.link = "closed", !.fields = FALSE, !.status = "ready",
                       !.err = SetError("lost")]

(* mysql_real_query *)
RealQuery(my, answer) ==
  CASE my.link = "closed" -> Lost(my)
    [] my.link # "closed" /\ (my.status # "ready" \/ MoreResults(my)) -> OutOfSync(my)
    [] my.link = "down" /\ my.status = "ready" /\ ~MoreResults(my) -> Lost(my)
    [] OTHER -> ReadHeader([my EXCEPT !.stmt = @ + 1, !.sets = answer, !.at = 1,
                                      !.cut = "no"])

(* mysql_next_result: the session after it, and what it returns.           *)
NextResult(my) ==
  CASE my.status # "ready" -> OutOfSync(my)
    [] my.status = "ready" /\ MoreResults(my) ->
         IF my.link = "up" THEN ReadHeader([my EXCEPT !.at = @ + 1]) ELSE Lost(my)
    [] OTHER -> [my EXCEPT !.err = NoError]

NextResultReturns(my) ==
  CASE my.status # "ready" -> "error"
    [] my.status = "ready" /\ MoreResults(my) ->
         IF NextResult(my).err.code = "none" THEN "set" ELSE "error"
    [] OTHER -> "no more"

(* The session after a result set of which only a part came. *)
Cut(my) ==
  IF my.cut = "lost" THEN Lost(my)
  ELSE [my EXCEPT !.status = "ready", !.err = SetError("server"),
                  !.sets = SubSeq(@, 1, my.at)]

(* mysql_store_result and mysql_use_result return NULL without an error    *)
(* when there are no columns to take.  The first reads every row, and      *)
(* fails when not all of them come.                                        *)
StoreResult(my) ==
  CASE ~my.fields -> my
    [] my.fields /\ my.status # "get_result" -> OutOfSync(my)
    [] my.fields /\ my.status = "get_result" /\ my.cut # "no" -> Cut(my)
    [] OTHER -> [my EXCEPT !.status = "ready", !.fields = FALSE]

UseResult(my) ==
  CASE ~my.fields -> my
    [] my.fields /\ my.status # "get_result" -> OutOfSync(my)
    [] OTHER -> [my EXCEPT !.status = "use_result", !.fields = FALSE]

TakesResult(my, after) == my.fields /\ ~after.fields /\ after.err = my.err

(* The packet after the last row: the session is ready again; when rows    *)
(* are missing it has an error, and the other result sets do not come.     *)
EndOfRows(my) ==
  LET read == [my EXCEPT !.read = CurrentSet(my).n]
  IN IF my.cut = "no" THEN [read EXCEPT !.status = "ready"] ELSE Cut(read)

(* mysql_fetch_row, up to n times, on the result set that is being read.   *)
RowsLeft(my) == CurrentSet(my).n - my.read
FetchRows(my, n) ==
  IF n > RowsLeft(my) THEN EndOfRows(my) ELSE [my EXCEPT !.read = @ + n]

(* Somebody kills the statement while its rows are on their way, or the    *)
(* server goes away: k of them still arrive.                               *)
CutRows(my, why, k) == [my EXCEPT !.cut = why, !.sets[my.at].n = k]
KillStatement(my, k) == CutRows(my, "killed", k)
LinkDown(my) == [my EXCEPT !.link = "down"]
=============================================================================
