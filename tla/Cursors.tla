------------------------------ MODULE Cursors ------------------------------
(***************************************************************************)
(* The cursors of one connection (cursors.py), over the session of the     *)
(* client library that they share.                                         *)
(*                                                                         *)
(* A method runs to its end before another begins: the program is one      *)
(* thread.  A method is a plan, the steps it still has to do, and an       *)
(* exception drops the rest of the plan.  Between two steps somebody else  *)
(* may kill the statement, or the server go away.                          *)
(*                                                                         *)
(* A step makes at most one call into _mysql.c that reaches the session,   *)
(* with the calls around it that only read what the library has already:   *)
(* describe, field_flags, warning_count, affected_rows and insert_id.  In  *)
(* one thread, with memory, none of these raises or changes the session;   *)
(* ConnectionLock has other threads that hold the lock or close.           *)
(***************************************************************************)
EXTENDS MySQLClient, FiniteSets, SequencesExt

CONSTANTS
  Cursors,
  Streaming,       \* those that are SSCursors; the others are Cursors
  Answers,         \* what the server may answer to a statement
  MaxStatements,   \* bound on the statements sent
  Sizes,           \* the sizes given to fetchmany
  Offsets,         \* the positions given to scroll
  Kills,           \* whether statements may be killed
  Disconnects,     \* whether the server may go away
  ConverterRaises, \* whether the conversion of a row may raise
  None

SetIds == Nat \X Nat
StoredRows == Nat \X Nat \X Nat
StreamResults == [set : SetIds, eof : BOOLEAN]

ASSUME CursorsAssumption ==
  /\ Streaming \subseteq Cursors
  /\ \A a \in Answers : IsAnswer(a)
  /\ MaxStatements \in Nat
  /\ Sizes \subseteq Nat \ {0}
  /\ Offsets \subseteq Nat
  /\ Kills \in BOOLEAN
  /\ Disconnects \in BOOLEAN
  /\ ConverterRaises \in BOOLEAN
  /\ None \notin Cursors \cup Nat \cup SetIds \cup StreamResults \cup Seq(StoredRows)

VARIABLES
  my,   \* the session: connection.connection
  cur,  \* the attributes of each cursor
  run   \* the method that runs, or the outcome of the last one

vars == <<my, cur, run>>

(* open: self.connection is set.  executed: the statement of               *)
(* self._executed, 0 for none.  A result object knows its result set and,  *)
(* when it streams, whether it has seen the end of it.  unconverted is     *)
(* history: the rows of the result set could not be converted.             *)
NewCursor ==
  [open        |-> TRUE,
   executed    |-> 0,
   description |-> None,
   result      |-> None,
   rows        |-> None,
   rownumber   |-> None,
   unconverted |-> FALSE]

NoRun ==
  [who |-> None, method |-> "none", plan |-> << >>,
   size |-> None, exc |-> "none", own |-> TRUE, out |-> None]

Init ==
  /\ my = Connected
  /\ cur = [c \in Cursors |-> NewCursor]
  /\ run = NoRun

-----------------------------------------------------------------------------
Idle == run.plan = << >>
Active(c, step) == run.who = c /\ ~Idle /\ Head(run.plan) = step
Then(plan) == run' = [run EXCEPT !.plan = plan]
Proceed == Then(Tail(run.plan))

(* An exception ends the method, but for the finally clause of close().    *)
Raise(exc, own) ==
  run' = [run EXCEPT !.exc = exc, !.own = own,
                     !.plan = IF run.method = "close" THEN <<"detach">> ELSE << >>]

(* Mutant: an error of the session goes unnoticed. *)
Swallow(session) == Proceed

(* _mysql_Exception: the error the session has now. *)
RaiseError(session) == Raise(session.err.code, session.err.fresh)

(* A fetch method returns rows; nextset and callproc drop them. *)
FetchMethods == {"fetchone", "fetchmany", "fetchall"}
Give(out) ==
  run' = [run EXCEPT !.plan = Tail(@),
                     !.out = IF run.method \in FetchMethods THEN out ELSE @]

Begin(c, method, plan) ==
  /\ Idle
  /\ my' = Stale(my)
  /\ run' = [NoRun EXCEPT !.who = c, !.method = method, !.plan = plan]

(* A method that raises before it does anything. *)
Fails(c, method, exc) ==
  /\ Idle
  /\ run' = [NoRun EXCEPT !.who = c, !.method = method, !.exc = exc]
  /\ UNCHANGED <<my, cur>>

Streams(c) == c \in Streaming
Reading(result) == result # None /\ ~result.eof

(* The last reference to a result object goes: mysql_free_result reads the *)
(* rows that are left, and flags an error nobody looks at.                 *)
Freed(session, result) ==
  IF Reading(result) THEN EndOfRows(session) ELSE session

RowsOf(set, from, to) == [i \in 1..(to - from) |-> <<set[1], set[2], from + i>>]

-----------------------------------------------------------------------------
(* Mutant: the rows of the last statement stay. *)
ClearedKeepsRows(c) == cur' = [cur EXCEPT ![c].description = None]

(* _discard: attributes first, then the result, then the pending sets. *)
Cleared(c) ==
  cur' = [cur EXCEPT ![c].description = None, ![c].rows = None,
                     ![c].rownumber = None]

(* Mutant: pending result sets are left for the next statement. *)
DiscardPlanResult(c, rest) ==
  IF cur[c].result # None THEN <<"discard">> \o rest ELSE rest

(* What _discard has to do before the rest of a method. *)
DiscardPlan(c, rest) ==
  LET pending == IF cur[c].open THEN <<"next">> \o rest ELSE rest
  IN IF cur[c].result # None THEN <<"discard">> \o pending ELSE pending

Execute(c) ==
  /\ my.stmt < MaxStatements
  /\ Begin(c, "execute",
           DiscardPlan(c, <<"mogrify", "query", "get", "post", "executed">>))
  /\ Cleared(c)

Close(c) ==
  /\ cur[c].open
  /\ Begin(c, "close", DiscardPlan(c, <<"detach">>))
  /\ Cleared(c)

(* Mutant: the result object is dropped and its rows are not read. *)
DiscardUnread(c) ==
  /\ Active(c, "discard")
  /\ cur' = [cur EXCEPT ![c].result = None]
  /\ Proceed
  /\ UNCHANGED my

(* self._result.discard() reads to the end of the rows, and raises the     *)
(* error that the session has then; the result is dropped only when it     *)
(* does not raise.                                                         *)
Discard(c) ==
  /\ Active(c, "discard")
  /\ LET after == Freed(my, cur[c].result)
     IN /\ my' = after
        /\ IF after.err.code = "none"
             THEN cur' = [cur EXCEPT ![c].result = None] /\ Proceed
             ELSE /\ cur' = [cur EXCEPT ![c].result.eof = TRUE]
                  /\ RaiseError(after)

(* Mutant: the loop does not end when there are no more result sets. *)
DiscardNextForever(c) ==
  /\ Active(c, "next")
  /\ my' = NextResult(my)
  /\ IF NextResultReturns(my) = "error" THEN RaiseError(my')
                                       ELSE Then(<<"drain">> \o run.plan)
  /\ UNCHANGED cur

(* while con.next_result() == 0 *)
DiscardNext(c) ==
  /\ Active(c, "next")
  /\ my' = NextResult(my)
  /\ CASE NextResultReturns(my) = "set" -> Then(<<"drain">> \o run.plan)
       [] NextResultReturns(my) = "no more" -> Proceed
       [] OTHER -> RaiseError(my')
  /\ UNCHANGED cur

(* con.discard_result(): use_result, fetch to the end, free. *)
DiscardResult(c) ==
  /\ Active(c, "drain")
  /\ my' = LET used == UseResult(my)
           IN IF TakesResult(my, used) THEN EndOfRows(used) ELSE used
  /\ IF my'.err.code = "none" THEN Proceed ELSE RaiseError(my')
  /\ UNCHANGED cur

(* The finally clause of close(). *)
Detach(c) ==
  /\ Active(c, "detach")
  /\ my' = Freed(my, cur[c].result)
  /\ cur' = [cur EXCEPT ![c].open = FALSE, ![c].result = None]
  /\ Then(<< >>)

(* A closed cursor has no encoding to mogrify with, and arguments may not  *)
(* fit the query.                                                          *)
Mogrify(c) ==
  /\ Active(c, "mogrify")
  /\ \/ cur[c].open /\ Proceed
     \/ Raise("programming", TRUE)
  /\ UNCHANGED <<my, cur>>

QueryPlan == <<"query", "get", "post", "executed">>

(* The SET of callproc is answered without rows. *)
Setting == run.method = "callproc" /\ Len(run.plan) > Len(QueryPlan)
AnswersNow == IF Setting THEN {<<OkSet>>, <<ErrorSet>>} ELSE Answers

(* _query up to db.query(q): the result object is dropped, the statement   *)
(* sent, the header of its first result set read.                          *)
Query(c) ==
  /\ Active(c, "query")
  /\ cur' = [cur EXCEPT ![c].result = None]
  /\ \E answer \in AnswersNow :
       my' = RealQuery(Freed(my, cur[c].result), answer)
  /\ IF my'.err.code = "none" THEN Proceed ELSE RaiseError(my')

(* Mutant: rownumber is not set back. *)
GetResultGoesOn(c) ==
  /\ Active(c, "get")
  /\ LET after == IF Streams(c) THEN UseResult(my) ELSE StoreResult(my)
     IN /\ TakesResult(my, after)
        /\ my' = after
        /\ cur' = [cur EXCEPT ![c].description = SetId(my),
                              ![c].result = [set |-> SetId(my), eof |-> ~Streams(c)]]
        /\ Proceed

(* _do_get_result: store_result or use_result, then the description; the   *)
(* result object it replaces is freed after that.                          *)
GetResult(c) ==
  /\ Active(c, "get")
  /\ LET after == IF Streams(c) THEN UseResult(my) ELSE StoreResult(my)
         set == SetId(my)
     IN \/ /\ TakesResult(my, after)
           /\ my' = after
           /\ cur' = [cur EXCEPT ![c].description = set,
                                 ![c].result = [set |-> set, eof |-> ~Streams(c)],
                                 ![c].rownumber = 0]
           /\ Proceed
        \/ /\ ~TakesResult(my, after) /\ after.err.code = "none"
           /\ my' = Freed(after, cur[c].result)
           /\ cur' = [cur EXCEPT ![c].description = None, ![c].result = None,
                                 ![c].rownumber = 0]
           /\ Proceed
        \/ /\ ~TakesResult(my, after) /\ after.err.code # "none"
           /\ my' = after
           /\ RaiseError(after)
           /\ UNCHANGED cur

(* _post_get_result: a Cursor takes all the rows and drops the result, an  *)
(* SSCursor does nothing.                                                  *)
PostGetResult(c) ==
  /\ Active(c, "post")
  /\ \/ /\ Streams(c)
        /\ Proceed
        /\ UNCHANGED cur
     \/ /\ ~Streams(c)
        /\ cur' = [cur EXCEPT
             ![c].rows = IF cur[c].result = None THEN << >>
                         ELSE RowsOf(cur[c].result.set, 0, CurrentSet(my).n),
             ![c].result = None, ![c].unconverted = FALSE]
        /\ Proceed
     \/ /\ ~Streams(c) /\ ConverterRaises
        /\ cur[c].result # None /\ CurrentSet(my).n > 0
        /\ Raise("converter", TRUE)
        /\ cur' = [cur EXCEPT ![c].unconverted = TRUE]
  /\ UNCHANGED my

(* Mutant: only the first statement is remembered. *)
ExecutedFirst(c) ==
  /\ Active(c, "executed")
  /\ IF cur[c].executed = 0 THEN cur' = [cur EXCEPT ![c].executed = my.stmt]
                            ELSE UNCHANGED cur
  /\ Proceed
  /\ UNCHANGED my

Executed(c) ==
  /\ Active(c, "executed")
  /\ cur' = [cur EXCEPT ![c].executed = my.stmt]
  /\ Proceed
  /\ UNCHANGED my

-----------------------------------------------------------------------------
(* callproc: with arguments a SET and a nextset() come before the CALL; it *)
(* discards nothing first.                                                 *)
Callproc(c) ==
  /\ \E args \in {FALSE, TRUE} :
       /\ my.stmt + (IF args THEN 2 ELSE 1) <= MaxStatements
       /\ Begin(c, "callproc",
                IF args THEN QueryPlan \o <<"fetch", "advance">> \o QueryPlan
                        ELSE QueryPlan)
  /\ cur[c].open
  /\ UNCHANGED cur

CallprocClosed(c) == ~cur[c].open /\ Fails(c, "callproc", "programming")

(* nextset: the rows left are fetched, if anything was ever executed.      *)
Nextset(c) ==
  /\ Begin(c, "nextset",
           (IF cur[c].executed # 0 THEN <<"fetch">> ELSE << >>) \o <<"advance">>)
  /\ UNCHANGED cur

Advance(c) ==
  /\ Active(c, "advance")
  /\ \/ /\ ~cur[c].open
        /\ Raise("programming", TRUE)
        /\ UNCHANGED my
     \/ /\ cur[c].open
        /\ my' = NextResult(my)
        /\ CASE NextResultReturns(my) = "set" ->
                  Then(<<"get", "post">> \o Tail(run.plan))
             [] NextResultReturns(my) = "no more" -> Proceed
             [] OTHER -> RaiseError(my')
  /\ UNCHANGED cur

-----------------------------------------------------------------------------
(* The fetch methods; size is a number, or None for all the rows.  Both    *)
(* kinds of cursor refuse only when nothing was ever executed.             *)
SizesOf(method) ==
  CASE method = "fetchone"  -> {1}
    [] method = "fetchmany" -> Sizes
    [] OTHER                -> {None}

Fetch(c, method) ==
  /\ Idle
  /\ cur[c].executed # 0
  /\ my' = Stale(my)
  /\ \E size \in SizesOf(method) :
       run' = [NoRun EXCEPT !.who = c, !.method = method, !.plan = <<"fetch">>,
                            !.size = size]
  /\ UNCHANGED cur

FetchUnexecuted(c, method) ==
  cur[c].executed = 0 /\ Fails(c, method, "programming")

(* A Cursor takes the rows from self._rows, which is None after a method   *)
(* that failed and after close().                                          *)
FetchStored(c) ==
  /\ Active(c, "fetch")
  /\ ~Streams(c)
  /\ LET this == cur[c]
         total == Len(this.rows)
         to == IF run.size = None \/ this.rownumber + run.size > total
                 THEN total ELSE this.rownumber + run.size
     IN \/ /\ this.rows = None
           /\ Raise("type", TRUE)
           /\ UNCHANGED cur
        \/ /\ this.rows # None
           /\ cur' = [cur EXCEPT ![c].rownumber = to]
           /\ Give(SubSeq(this.rows, this.rownumber + 1, to))
  /\ UNCHANGED my

(* An SSCursor without a result object has no rows; fetchone does not look *)
(* at rownumber then, the other methods add to it.                         *)
FetchNothing(c) ==
  /\ Active(c, "fetch")
  /\ Streams(c)
  /\ cur[c].result = None
  /\ CASE ~cur[c].open -> Raise("programming", TRUE)
       [] cur[c].open /\ cur[c].rownumber = None /\ run.method # "fetchone" ->
            Raise("type", TRUE)
       [] OTHER -> Give(<< >>)
  /\ UNCHANGED <<my, cur>>

(* fetch_row reads rows until it has enough of them or there are no more;  *)
(* at the end it raises the error the session has, and the rows it read    *)
(* are lost.                                                               *)
FetchStreamed(c) ==
  /\ Active(c, "fetch")
  /\ Streams(c)
  /\ cur[c].result # None
  /\ LET result == cur[c].result
         left == IF result.eof THEN 0 ELSE RowsLeft(my)
         n == IF run.size = None THEN left + 1 ELSE run.size
         got == IF n > left THEN left ELSE n
         end == n > left
         after == IF result.eof THEN my ELSE FetchRows(my, n)
     IN /\ my' = after
        /\ \/ /\ end /\ after.err.code # "none"
              /\ cur' = [cur EXCEPT ![c].result.eof = TRUE]
              /\ RaiseError(after)
           \/ /\ ~end \/ after.err.code = "none"
              /\ IF cur[c].rownumber = None
                   THEN /\ IF run.method = "fetchone" /\ got = 0
                             THEN Give(<< >>) ELSE Raise("type", TRUE)
                        /\ cur' = [cur EXCEPT ![c].result.eof = end]
                   ELSE /\ cur' = [cur EXCEPT ![c].result.eof = end,
                                              ![c].rownumber = @ + got]
                        /\ Give(RowsOf(result.set, my.read, my.read + got))

(* The converter of a field raises at a row: it and the rows before it are *)
(* lost.                                                                   *)
FetchConverterRaises(c) ==
  /\ Active(c, "fetch")
  /\ Streams(c) /\ ConverterRaises
  /\ Reading(cur[c].result)
  /\ \E n \in 1..RowsLeft(my) :
       /\ run.size # None => n <= run.size
       /\ my' = FetchRows(my, n)
  /\ Raise("converter", TRUE)
  /\ UNCHANGED cur

(* Mutant: scroll does not look where the rows end. *)
ScrollAnywhere(c, r) ==
  /\ Idle
  /\ ~Streams(c)
  /\ cur[c].rows # None
  /\ cur' = [cur EXCEPT ![c].rownumber = r]
  /\ run' = [NoRun EXCEPT !.who = c, !.method = "scroll"]
  /\ UNCHANGED my

(* scroll, which only a Cursor has: r is where it would go.                *)
Scroll(c, r) ==
  /\ Idle
  /\ ~Streams(c)
  /\ LET outcome == CASE cur[c].executed = 0 -> "programming"
                      [] cur[c].executed # 0 /\ cur[c].rows = None -> "type"
                      [] cur[c].executed # 0 /\ cur[c].rows # None
                           /\ r >= Len(cur[c].rows) -> "index"
                      [] OTHER -> "none"
     IN /\ run' = [NoRun EXCEPT !.who = c, !.method = "scroll", !.exc = outcome]
        /\ cur' = IF outcome = "none" THEN [cur EXCEPT ![c].rownumber = r] ELSE cur
  /\ UNCHANGED my

-----------------------------------------------------------------------------
(* Somebody else kills the statement while its rows are on their way. *)
Kill ==
  /\ Kills
  /\ my.status \in {"get_result", "use_result"}
  /\ my.cut = "no" /\ my.link = "up"
  /\ \E k \in my.read..CurrentSet(my).n : my' = KillStatement(my, k)
  /\ UNCHANGED <<cur, run>>

(* The server goes away, for ever.  Rows that it had sent still arrive:    *)
(* all that were to come, or some.                                         *)
Disconnect ==
  /\ Disconnects
  /\ my.link = "up"
  /\ \/ my' = LinkDown(my)
     \/ /\ my.status \in {"get_result", "use_result"}
        /\ \E k \in my.read..CurrentSet(my).n :
             my' = CutRows(LinkDown(my), "lost", k)
  /\ UNCHANGED <<cur, run>>

Start(c) ==
  \/ Execute(c) \/ Close(c) \/ Nextset(c) \/ Callproc(c) \/ CallprocClosed(c)
  \/ \E method \in FetchMethods : Fetch(c, method) \/ FetchUnexecuted(c, method)
  \/ \E r \in Offsets : Scroll(c, r)

Step(c) ==
  \/ Discard(c) \/ DiscardNext(c) \/ DiscardResult(c) \/ Detach(c)
  \/ Mogrify(c) \/ Query(c) \/ GetResult(c) \/ PostGetResult(c) \/ Executed(c)
  \/ Advance(c)
  \/ FetchStored(c) \/ FetchNothing(c) \/ FetchStreamed(c) \/ FetchConverterRaises(c)

Next == Kill \/ Disconnect \/ \E c \in Cursors : Start(c) \/ Step(c)

Spec == Init /\ [][Next]_vars

(* A method that runs goes on: the server answers. *)
FairSpec == Spec /\ \A c \in Cursors : WF_vars(Step(c))

-----------------------------------------------------------------------------
CursorStates ==
  [open        : BOOLEAN,
   executed    : Nat,
   description : SetIds \cup {None},
   result      : StreamResults \cup {None},
   rows        : Seq(StoredRows) \cup {None},
   rownumber   : Nat \cup {None},
   unconverted : BOOLEAN]

Methods == {"none", "execute", "close", "callproc", "nextset", "scroll"} \cup FetchMethods
Steps == {"discard", "next", "drain", "detach", "mogrify", "query", "get", "post",
          "executed", "fetch", "advance"}
Exceptions == {"none", "programming", "converter", "type", "index",
               "server", "sync", "lost"}

Runs ==
  [who    : Cursors \cup {None},
   method : Methods,
   plan   : Seq(Steps),
   size   : (Nat \ {0}) \cup {None},
   exc    : Exceptions,
   own    : BOOLEAN,
   out    : Seq(StoredRows) \cup {None}]

(* A method is some cursor's.  A cursor describes a result set of a        *)
(* statement that was sent, and its position is within the rows it has.    *)
TypeOK ==
  /\ my \in Sessions
  /\ my.stmt <= MaxStatements
  /\ my.at \in 1..Len(my.sets)
  /\ my.read <= CurrentSet(my).n
  /\ cur \in [Cursors -> CursorStates]
  /\ \A c \in Cursors :
       /\ cur[c].executed <= my.stmt
       /\ cur[c].description # None => cur[c].description[1] \in 1..my.stmt
       /\ cur[c].rows # None => ~Streams(c) /\ cur[c].rownumber \in 0..Len(cur[c].rows)
  /\ run \in Runs
  /\ run.method # "none" => run.who \in Cursors

(* A result object that has not seen its last row is the one the session   *)
(* is sending, and between methods the session is either ready or sends to *)
(* a cursor that can still read it to the end: no failing method leaves    *)
(* the session in the middle of a result set that nobody owns.             *)
StreamOwned ==
  /\ \A c \in Cursors : Streams(c) /\ Reading(cur[c].result) =>
       my.status = "use_result" /\ cur[c].result.set = SetId(my)
  /\ Idle /\ my.status # "ready" =>
       \E c \in Cursors : Streams(c) /\ Reading(cur[c].result)

(* While a cursor streams, rownumber counts the rows that came over the    *)
(* wire: each was handed out once, in order.                               *)
RowsInOrder ==
  Idle => \A c \in Cursors :
    Streams(c) /\ Reading(cur[c].result) => cur[c].rownumber = my.read

(* The rows a fetch hands out are rows of the result set that description  *)
(* is about, and the last of them is row number rownumber, or later when   *)
(* rows of a stream could not be converted.  A Cursor that could not       *)
(* convert the rows it describes still has those of the set before them.   *)
RowsDescribed ==
  /\ Idle
  /\ run.out \notin {None, << >>}
  /\ ~cur[run.who].unconverted
  => LET this == cur[run.who]
     IN /\ \A i \in 1..Len(run.out) :
             <<run.out[i][1], run.out[i][2]>> = this.description
        /\ IF Streams(run.who) THEN Last(run.out)[3] >= this.rownumber
                               ELSE Last(run.out)[3] = this.rownumber

(* execute() that returns leaves the cursor before the first row of the    *)
(* first result set of its own statement; a Cursor has all of its rows.    *)
ExecuteStartsAfresh ==
  /\ Idle
  /\ run.method = "execute" /\ run.exc = "none"
  => LET this == cur[run.who]
     IN /\ this.executed = my.stmt /\ my.at = 1
        /\ this.rownumber = 0
        /\ this.description \in {None, <<my.stmt, 1>>}
        /\ this.description # None =>
             IF Streams(run.who) THEN this.result.set = SetId(my) /\ my.read = 0
                                 ELSE my.cut = "no" /\ Len(this.rows) = CurrentSet(my).n

(* A method raises an error of the session only if the error came up while *)
(* the method ran: no error is raised twice, and none is another cursor's. *)
OwnErrors == Idle => run.own

(* Whatever a cursor did before, its execute() does not get the session    *)
(* out of sync, unless another cursor is streaming.                        *)
OutOfSyncOnlyByStream ==
  /\ Idle
  /\ run.method = "execute" /\ run.exc = "sync" /\ run.own
  => \E c \in Cursors \ {run.who} : Streams(c) /\ Reading(cur[c].result)

(* What a cursor describes, and goes on to with nextset(), is the answer   *)
(* to its own last statement.                                              *)
SetsOfOwnStatement ==
  Idle => \A c \in Cursors :
    cur[c].description # None => cur[c].description[1] = cur[c].executed

(* A fetch that comes to the end of the rows without raising has had them  *)
(* all: an empty one means that there are no more, and none were lost.     *)
EmptyMeansEnd ==
  /\ Idle
  /\ run.method \in FetchMethods /\ run.exc = "none"
  /\ Streams(run.who) /\ cur[run.who].result # None
  /\ cur[run.who].result.eof /\ cur[run.who].result.set = SetId(my)
  => my.cut = "no" /\ cur[run.who].rownumber = CurrentSet(my).n

(* Every method comes to an end, whatever result sets are pending and      *)
(* whenever the statement is killed or the connection lost.                *)
MethodsReturn == ~Idle ~> Idle
=============================================================================
