# mysqlclient in TLA+

mysqlclient is a Python DB-API driver: a C extension (`src/MySQLdb/_mysql.c`) that
wraps the MySQL client library, and a Python layer over it. These modules model the
parts of it that have state and are hard to test: who may be inside the client library
when, what a cursor may assume of the session it shares, how `executemany()` cuts its
statements, which settings and transactions survive a lost connection, and how times go
to the server and back. Paths below are relative to the repository.

## The system

| Part | Source | State | Operations |
| --- | --- | --- | --- |
| Native connection | `_mysql.c` 81-166, 483-870, 885-2533 | the `MYSQL` structure, `open`, `lock`, reference count | about 40 methods, constructor, deallocator |
| Native result | `_mysql.c` 312-457, 1325-1756, 2550-2579 | `MYSQL_RES`, `conn`, `use`, converters | `fetch_row`, `discard`, `describe`, `field_flags`, deallocator |
| Client library session | external | status, pending result sets, rows on the wire, last error | query, next/store/use result, fetch, free |
| Session settings, transactions | `connections.py`, `_mysql.c` 885-970, 1758-1799, 2147-2205 | `encoding`, `reconnect`; the library's character set, its copy of the server's status; what the server has | constructor, `set_character_set`, `autocommit`, `begin`, `commit`, `rollback`, `change_user`, `ping` |
| Cursor, SSCursor | `cursors.py` | `_executed`, `_result`, `_rows`, `rownumber`, `description`, `connection` | `execute`, `callproc`, `nextset`, fetches, `scroll`, `close` |
| `executemany` | `cursors.py` 212-269 | local: the statement under construction, the count | one call |
| Conversion, escaping | `_mysql.c` 1118-1449, `converters.py` | none | pure, but runs Python code under the lock |
| Errors | `_mysql.c` 170-279, `_exceptions.py` | none | error number to exception class |
| Dates and times | `times.py` | none | timedelta and datetime to literals, columns to objects |
| Constants, packaging | `constants/`, `__init__.py` | none | tables |

How they interact. A cursor calls methods of the connection and of the result objects
it gets from `store_result()` and `use_result()`. A result holds a counted reference to its
connection; nothing else orders their ends. All methods of both take the one lock of
the connection, without waiting, and raise `ProgrammingError` when it is taken; only the
deallocation of a result waits. Network calls are made without the GIL but with the
lock. Two kinds of Python code run with the lock held: row converters inside
`fetch_row`, and `__str__` inside `string_literal`. Cursors of one connection share the
session: one statement, its pending result sets, its rows on the wire, and one error
that stays until the next command.

What is hard, and what makes each part correct:

* **Connection and results**: interleavings of threads, callbacks and deallocations. One
  user of the handle at a time; who found it open works on it open; each outcome is read by
  the call it belongs to; each result set is freed once and before the handle; the lock
  is given up on every path.
* **Cursors**: long sequences of legal calls, of several cursors, with errors between any
  two of them and statements killed halfway. Rows in order, none lost, none of another
  statement; no failing method leaves rows on the wire that nobody can read.
* **executemany**: boundaries of `max_stmt_length`, an exception between two statements.
* **Session settings and transactions**: three parties keep a copy of each setting, a
  command may be refused or lost between two of them, and a reconnection puts the server's
  back. The codec of arguments is the one the server expects; the session is in the
  autocommit mode that was asked for in it; no transaction is cut in two unnoticed.
* **Dates and times**: signs, borrows and digits at the boundaries of the fields.

`PROJECT.json` lists the hazards one by one, with the line where each bites.

`README.md:27-31` and `HISTORY.rst:10-12` of the repository call simultaneous use of one
connection by several threads undefined. The code still defends against it, and
`tests/test_connection.py:48` asserts how: that defence is what is modelled.

## Modules

| Module | Models |
| --- | --- |
| `ConnectionLock` | `_mysql.c`: connection, results, lock, GIL, callbacks, for any number of threads |
| `HandleProtocol` | what the client library demands of the owner of a `MYSQL` handle; abstract |
| `ConnectionLockProofs` | proofs about `ConnectionLock`, and that it implements `HandleProtocol` |
| `MySQLClient` | the session of the client library, as operators on a record; external |
| `ClientProofs` | lemmas: what each function of the library does to a session |
| `Cursors` | `cursors.py`: any number of cursors of either kind over one session |
| `CursorPlans` | lemmas: the plans of the methods, and what a step makes of them |
| `CursorsProofs` | proofs about `Cursors`, for any number of cursors |
| `StatementProofs` | proofs about a cursor that has the connection to itself |
| `ExecuteMany` | `executemany()` and `_do_execute_many()` |
| `ExecuteManyProofs` | proofs about `ExecuteMany` |
| `Session` | `connections.py` and the methods of `_mysql.c` under it, over a server whose session may end |
| `SessionProofs` | proofs about `Session` |
| `Times` | `times.py` over TIME and DATETIME columns |
| `TimesProofs` | proofs about `Times` |
| `MCConnectionLock`, `MCCursors`, `MCExecuteMany`, `MCSession`, `MCTimes` | small instances for TLC |

### ConnectionLock

A call is a frame `<<thread, depth>>`. A frame deeper than 1 is a call made by the Python
code that the frame above it runs under the lock. `pc` is the place in the C function,
`call` the method, `arg` the result object; `local` is the C variable the rest depends on
(rows `fetch_row` may still convert, whether `store_result` got a set, `use_connection`).
The methods fall into families with one control flow each:

| `call` | Methods |
| --- | --- |
| `command` | those that let the GIL go: `query`, `commit`, `rollback`, `autocommit`, `next_result`, `ping`, `kill`, `stat`, `change_user`, `select_db`, `shutdown`, `discard_result`, ... |
| `read` | those that keep it: `errno`, `affected_rows`, `insert_id`, `get_host_info`, `warning_count`, ... |
| `literal` | `string_literal` (it calls `__str__` under the lock), `escape`, `escape_string` (which checks `open` only when it is a method of a connection) |
| `store` | `store_result`, `use_result`, with `_mysql_ResultObject_Initialize` |
| `fetch`, `discard`, `describe` | of a result; `describe` also stands for `field_flags` and, but for the leak, for `num_rows`, `num_fields` and `data_seek` |
| `close`, `connect`, `forget`, `drop` | `close()`, the constructor, giving up the connection or a result |

An action is the code between two points where another thread, or a callback, may come
in: taking the lock, the call into the library with the GIL let go, getting the GIL back,
a callback. `Gil = FALSE` is a free-threaded interpreter: every step is then interleaved.
Two reads of the handle come after the unlock and have a place of their own: `errno`, where
`Initialize` asks for `mysql_errno`, and `error`, where a call that found the connection closed
asks, in `_mysql_Exception`, for `mysql_error`. Where a family of methods has one control flow,
the definition is mapped to one of them: `query` for the commands.
`NoMemory` lets `PyTuple_New` fail in `describe` and `field_flags`, which then return without
unlocking. `Init` has no connection; one is constructed, used, closed, dropped and
constructed again.

`HandleProtocol` is what the library allows: connect, use an open handle, close it, free result
sets at any time, destroy the handle after them. `Peek`, the reading of `mysql_error` from a
closed handle, is no part of what the library offers and is there because the code does it
(`closed_handle`); the protocol still demands that nobody else is in the library then.

### Cursors and MySQLClient

A method of a cursor is a plan, a sequence of steps; each step makes at most one call that
reaches the session or can raise when one thread uses the connection, or is one of the
statements whose order matters when the next raises. `_do_get_result` is one step for that
reason: after `store_result()` or `use_result()` it calls `describe`, `field_flags`, `affected_rows`
and the like, which read memory of a connection that is open and whose lock is free, so they
fail only for want of memory. What other threads do between these calls is `ConnectionLock`'s. An
exception drops the rest of the plan (but for the `finally` clause of `close()`), so every
intermediate state of every method is one that a later method may find. The attributes are
those of the class; a row is `<<statement, set, number>>`. `Kill` is another session's
`KILL QUERY` at any row. `Disconnect` is the server going away: rows that it had sent still
arrive, then the library closes its end, and every later command fails (it reconnects only
when asked, which `Session` has). The history field `unconverted` of a cursor says that the
rows of its result set could not be converted.

`MySQLClient` is the state machine of the library: `ready`, `get_result` (a set is
announced) and `use_result` (it is read row by row); an answer is a sequence of result sets,
possibly with an error at its end; the `SET` of `callproc()` is answered without rows, or by an
error. The history field `fresh` of the error says whether it
came up in the method that is running.

### ExecuteMany

A row is its number and its length. One `execute()` is one step, which returns a rowcount or
raises; when it raises the statement may have reached the server or not. `args` may be an
iterator, true even when it is empty.

### Session

`srv` is the session on the server and the rows that are committed, `my` the library's
`MYSQL`, `py` the attributes of the `Connection`, `run` the method that runs, again as a
plan, and `hist` what the program asked for and was told, for the properties. A command
is answered, refused, or lost; when it is lost the server may have done it or not.
`Disconnect` ends the session at any time and rolls its transaction back. The library
connects again, inside the next command, only if the last `ping()` asked for it and its
own copy of the status shows no transaction; in a transaction it fails once and closes its end, and
the command after that reconnects. The new session has the library's character set and
the autocommit mode of the server, which is chosen at `Init`. A method is a plan of
commands: the constructor connects, sets the character set and, when asked, the collation and
autocommit;
`autocommit(on)` looks at the library's copy of the status and sends a command only when
that differs. `ExecuteSetAutocommit` is the same setting made in SQL. Autocommit that is switched from
off to on commits the transaction, and asked for again ends none. `set_character_set` without a
link succeeds inside MySQL's library, which takes the name for the sessions to come, and fails or
reconnects in MariaDB's: the model has both. A character set is its name;
`Names` may hold another spelling of one, since `_charset_to_encoding` looks it up as the program
spelled it while the library goes by its own name.

### Times

A value goes through four steps: it is formatted as a literal, stored, sent as text and
converted; a second kind of behaviour begins with a value that is in the column already.
A text is a record of its fields, with the number of digits of its fraction; the sign is a
field of its own, as `-00:30:00` needs. The server's part (a sign in front of days is that of the
whole time, a fraction has as many digits as its column) is external.

## Runs

| Run | Shows |
| --- | --- |
| `lock_gil` | two threads with a GIL, callbacks one deep: mutual exclusion up to `mysql_errno` and `mysql_error`, a handle that is up for whoever found it open, the implementation of `HandleProtocol`, and liveness |
| `lock_free` | three threads without a GIL, memory may run out: what needs neither |
| `cursor_stream` | one SSCursor, four statements, every kind of answer, killed or cut off at any row: the rows it hands out |
| `cursor_pair` | a Cursor and an SSCursor on one session, converters that raise, kills and a lost connection: who owns the rows on the wire, and that methods end |
| `executemany` | every argument list of up to four rows |
| `session` | settings, users and transactions over sessions that end at any time |
| `times` | timedeltas and datetimes at the boundaries of their fields |
| `self_deadlock`, `call_blocks`, `closed_handle`, `same_error_twice`, `stale_encoding` | counterexamples, below |

Bounds. Two threads meet at every pair of steps, and a third tells "another thread" from
"the other thread"; two results, one of each kind, tell a result apart from another of the same
connection; depth 2 is a callback that uses the connection its caller has locked (it is
refused, so depth 3 adds nothing but further refusals); two rows are a first and a next
one. In `Cursors` two statements are an earlier and a later one, four let an SSCursor come back
to a statement that left an error behind and call a procedure with arguments after it;
`MCAnswers` has every kind of result set in first and later position, and `MCFewAnswers` one of
each for the two cursors. In `ExecuteMany` the four lengths make statements of one
to four rows, ones that fit exactly, and rows longer than `MaxLength` by themselves;
the count -1 is what an SSCursor reports; the method starts from each `rowcount` that a statement may have left. In `Session` two rows are one before and one after a
reconnection, and three sessions let the library reconnect from a session that it had opened
itself; the names are the default, another one, and another spelling of that. In `Times`
minutes, seconds, microseconds and days are those next to each carry and to the limits of a TIME
column, with a half hour between them, and a column has from none to six fractional digits.

Deadlock is checked except in `lock_free`, where after a leaked lock a deallocation does
wait for ever; in `executemany` and `times`, which end; and in `session`, where a
constructor that fails in the last session allowed ends the behaviour.

Fairness. `FairSpec` of `ConnectionLock` is strong fairness of the steps of a call that has
begun: the server answers (or a timeout of the library strikes), converters return, and
the interpreter hands the GIL to a thread that keeps asking. Strong, for the GIL is taken
and given back again and again while a thread waits. Nothing is assumed of the wait for the
lock: `CallsReturn` allows a deallocation to wait, and `LockReleased` says that it does not have to
do so behind one call for ever. `FairSpec` of `Cursors` is weak fairness of the running
method: the server answers. `Session` and `Times` state safety only: their
methods have no loops, so that they end with the server's answers.

### Where the code and its documentation disagree

* `self_deadlock`: a deallocation waits for the lock even when its own thread holds it, in a
  converter or a `__str__` that drops another result of the connection. It never ends.
* `call_blocks`: `store_result()` that is refused, or finds no result set, drops its half-made
  result object, whose deallocation waits for the other thread's call; the test says calls
  raise immediately.
* `closed_handle`: a method of a closed connection unlocks and calls `_mysql_Exception`, which skips
  `mysql_errno` when the connection is not open, for fear of a SEGV (its comment, GH-270), and then
  calls `mysql_error` on the same structure. `OpenMeansUp` is what holds: a call that found the
  connection open works on a handle that is up. With a GIL the read at least overlaps no other use
  (`HandleExclusive`).
* `same_error_twice`: `discard()` takes the error that a fetch has raised already for its
  own, so the next `execute()` or `close()` raises it again.
* `stale_encoding`: `change_user()` goes back to the character set of the constructor, and
  `self.encoding` stays that of the last `set_character_set()`: arguments are then encoded by
  another codec than the server expects. `EncodingFollows` is what holds: the two differ only then, or when
  the program spells a character set as the server does not.

Two more are plain from one function each, and have no run:

* The docstring of `ping()` (`_mysql.c:2155-2157`) calls the reconnect setting persistent, but a
  `ping()` without its argument switches it off (2182). `ReconnectsOnlyAsked` is what holds whichever
  is meant: nothing but a `ping(True)` switches it on, and `ping(False)` takes that back.
* `format_TIMEDELTA` (`times.py:39-43`) puts the days, which carry the sign, before hours that count
  upwards, so a negative timedelta that is not of whole days is stored as another time:
  `timedelta(-1, 1)`, a time of -23:59:59, is written `-1 0:0:1`, which is -24:00:01 and comes back so.
  The docstring of `DateTimeDelta2literal` (`times.py:150`) promises the delta "as a time", and a
  test (`tests/test_MySQLdb_times.py:135`) asserts such a text.

The other runs leave out what these show: `MCSafeCallbacks` has no callback that drops
a result, `OpenMeansUp`, `EncodingFollows` and `TimedeltasComeBack` name their cases.

The models also show behaviour that no document speaks of, and that is therefore no run:
a Cursor whose `nextset()` failed to convert rows keeps those of the set before under the new
description; fetching from a closed Cursor raises `TypeError`; after a reconnection autocommit is the server's, so a program that
had switched it off commits row by row until it notices; a character set given as `LATIN1`
gives a codec that differs from the library's in a few characters.

## Proofs

`ConnectionLockProofs` proves for every set of threads and results, every depth of
callbacks, every choice of calls, from `ConstantsAssumption` alone:

* `TypeCorrect`;
* `InvHolds`, the inductive invariant `Inv`. The exclusion itself is not inductive. `LockInv` says
  that a frame in a locked section holds the lock; `CallInv` ties place, method and argument
  together; `ResultInv` says that a result refers to the connection as long as it exists
  and is made or deallocated by one frame; `OwnerInv` that constructor and deallocator, which take no
  lock, find no references; `HandleInv` that `open` implies a handle that is up except
  while `close()` is in; `OutcomeInv` that the last user of the library is the one that reads its outcome.
  From it follow `Exclusive` and `Last`, with or without a GIL, and even when the lock leaks;
* `NoLeak`: with enough memory the lock is held exactly in a locked section (`LeakInv`);
* `GilSafeHolds`: what needs the GIL. `StackInv` (the frames above a running one are in their
  callbacks) and `GilInv` (C code holds the GIL) make the running frame unique, and
  `ErrnoInv` says that between `Initialize`'s unlock and its reading of `mysql_errno`
  everybody else is at most waiting. From it follow `HandleSafe` (for the unlocked read of `mysql_error`
  too), `OwnOutcome` and `OpenStaysOpen`, which says nothing of the calls that found the connection
  closed: those read a closed handle;
* `Implements`: with a GIL the connection is an implementation of `HandleProtocol`. The mapping
  chooses the one frame that is in the library (`Sole`: exclusion makes the choice unique), what it
  does there, and the result sets that are outstanding. A step changes one frame only, so it looks to
  the library like that frame staying out, entering, staying in or leaving (`StaysOut`, `Enters`,
  `Leaves`, ...), and each of these is an action of the protocol or a stutter. A refused call's reading of `mysql_error` maps to the
  protocol's `Peek`. Without a GIL there
  is nothing to prove: `store_result` reads `mysql_errno`, and a refused call `mysql_error`, after the
  unlock.

`ExecuteManyProofs` proves for every list of rows, length limit and row counts, from
`LengthsAssumption`: `TypeCorrect`; `InOrder`, from `OrderInv` (what the server received,
followed by what is in the statement, are the rows that came out of the iterator);
`Bounded` and `Filled`, from `FitInv`; `Fits`, from `TextInv` (`size` is the length of the text made so far);
`CountsAll`, from `CountInv`. The last two are about sums, `Total`, a recursive function over the places
of a sequence. That such a function exists and is unique takes induction, which the library has
only with an operator parameter; `SetInduction` does without one: the least number that a
set lacks (`LeastMember`, from the well-foundedness of `<`) has a predecessor in it. `TotalEmpty` and
`TotalAppend` are what the invariants need.

`SessionProofs` proves for every set of character sets, any number of rows and of sessions,
either default of the server, from `SessionAssumption` and `CharsetAssumption`:

* `Invariance`, the inductive invariant `Inv`, and `TypeCorrect`. `PlanInv` says which plans a method may
  be in; `StatusInv` that the library's copy of the status is that of the session as long as there is one;
  `KeepInv` that a session that ends takes no row with it unless the library knows of the transaction, and
  so will tell; `SettledInv` and `UndoInv` tie the modes that the program asked for to that of
  the session and to what is committed; `EncodingInv` and `ReconnectInv` the copies of the
  other settings. The argument goes by commands and not by methods: `Sound` is the
  part of the invariant about server, library and program; `SentIs` splits a
  command into one served in this session, served in a new one, refused and lost, a lemma
  per command (`ServeInsert`, `ServeAutocommit`, ...) shows that serving it keeps `Sound`, and each method
  step (`InsertRowStep`, `PingServerStep`, ...) combines them with its plan;
* from `Inv`: `AutocommitKept`, `EncodingsAgree`, `RowsKept`; and of its steps: `ReconnectsOnlyWhenAsked`,
  `CommitDone` and `RollbackDone`.

The proofs about `Cursors` hold for every set of cursors of either kind, every set of answers,
any number of statements, with or without kills, a lost connection and converters that raise,
from `CursorsAssumption`. They are in four layers. `ClientProofs` has a lemma for each function of
the library: that a session stays one (`SessionOK`), where it is afterwards, and which error it has.
`CursorPlans` has the order of the steps of each method as a relation (`After`), the step that is up
(`Now`), and what each way to end a step makes of the plan. On these rest

* `CursorsProofs`, with one lemma for each action (`QueryKeeps`, `FetchStreamedKeeps`, ...) that the
  inductive invariant `Inv` survives it. None of the properties is inductive:
  that a stream has an owner needs to know which steps may find a result set announced and not
  taken; that rows are described rightly needs the attributes in the middle of `_do_get_result`;
  that `execute()` starts afresh needs how far it has come. `StreamInv` says that at most one cursor reads,
  from the result set that the session sends, and that an announced result set is taken by the next step;
  `CursorOK` ties attributes to the result object, with the exceptions for a `_discard` that has
  reset the one and not the other and for a Cursor between `_do_get_result` and `_post_get_result`;
  `OutInv` is about the rows handed out, `SyncInv` about why a query may be refused,
  `ExecuteInv` about the steps of `execute()` after its query. From it follow `CursorTypesHold`,
  `StreamHasOwner`, `RowsAreDescribed`, `ExecuteIsFresh`, `SyncOnlyByStream`, and, while every row can be
  converted, `RowsComeInOrder`: a converter that raises loses rows that the session has read.
* `StatementProofs`, for a cursor that is the only one (`Alone`) and whose rows can be converted:
  `DescribesOwnStatement` and `EndIsTheEnd`. Both hypotheses are needed. With two cursors
  `nextset()` of the one takes the result sets of the other; a Cursor whose rows cannot be
  converted has described the new statement and remembers the old one. `StatementInv` is inductive
  relative to `Inv`. Its difficulty is the time between the query and the end of `execute()`, when the session
  has the answer to a statement that `_executed` does not name yet: `Answered` says when that is, and
  `QueriesEnd` that each query of a plan is followed by the step that remembers it. `EndOK` follows a
  streaming cursor to the end of its rows, and `NoticedInv` says that no fetch passed over an error there.

`TimesProofs` proves for every timedelta, date and column within the limits of `TimesAssumption` (the
hours, minutes, seconds and microseconds that a TIME column may hold are constants, any sets within
the limits of their fields), all precisions: `TimesAreRead`, `DatetimesReturn`, `TimedeltasReturn`. A value is at each phase
what the steps so far make of the one it began with (`WayInv`); the rest is arithmetic, of
which `FractionBack` (a fraction that fits its column survives its digits), `DayParts` and `OneTimedelta`
(days and seconds of a day are unique) are the lemmas.

Only model-checked: liveness (`LockReleased`, `CallsReturn`, `MethodsReturn`), since the prover
does not handle fairness and `ENABLED`. Every invariant and every safety property of steps
that a passing run checks is also proved.

## Not modelled

* Values that methods return, row shapes and conversion, escaping, the mapping of error
  numbers, the other connect options: data without shared state.
* `set_sql_mode` and `show_warnings`: one query each, of which the Connection keeps nothing.
* The cycle collector's `tp_traverse`: its inverted test makes the collector see fewer references
  than there are, so a cycle leaks and nothing in use is ever cleared.
* `Date_or_None`, `Time_or_None` (slices without arithmetic) and the `FromTicks` constructors
  (the local clock).
* Re-running `__init__` on a live connection, converters dropped inside `close()`, two threads that
  interleave `query()` and `store_result()` of one connection (no call is refused there, and
  no code claims it works), `LOAD DATA LOCAL`, `send_query`/`read_query_result` out of order.
* Reconnecting in the middle of a cursor's methods: `Cursors` has connections that never asked for
  it, and `Session` has no result sets.

## Plan

1. Done: `ConnectionLock` with `HandleProtocol`, `MySQLClient`, `Cursors` with lost connections,
   `ExecuteMany`, `Session`, `Times`; proofs of all safety properties.
2. Proofs: what holds of the statements of several cursors when none of them calls `nextset()`.

## Running

    tlc -config lock_gil.cfg MCConnectionLock
    tlc -config session.cfg MCSession
    tlapm ConnectionLockProofs.tla
    tlapm SessionProofs.tla
    tlapm CursorsProofs.tla
    tlapm StatementProofs.tla
    tlapm TimesProofs.tla
