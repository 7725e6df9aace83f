--------------------------- MODULE ConnectionLock ---------------------------
(***************************************************************************)
(* The native connection object of _mysql.c: one MYSQL handle, the lock    *)
(* that guards it, the result objects that refer to it, and the threads    *)
(* that call their methods.                                                *)
(*                                                                         *)
(* Every method of a connection or of a result takes the lock without      *)
(* waiting and raises ProgrammingError when it cannot; only the            *)
(* deallocation of a result waits for it.  A call is a frame <<t, d>>: the *)
(* call thread t is in at depth d.  A frame deeper than 1 runs inside the  *)
(* Python code (a row converter, a __str__) that the frame above it is     *)
(* running while it holds the lock.                                        *)
(***************************************************************************)
EXTENDS Naturals, FiniteSets

CONSTANTS
  Threads,       \* threads that share the connection
  Depth,         \* bound on how deep calls nest through Python callbacks
  Results,       \* result objects that exist at one time
  Unbuffered,    \* those made by use_result; the others by store_result
  MaxRows,       \* bound on the rows one fetch_row converts
  Gil,           \* the interpreter has a global interpreter lock
  Calls,         \* the calls a program makes
  CallbackCalls, \* the calls made by Python code that runs under the lock
  NoMemory,      \* PyTuple_New may fail in describe and field_flags
  None

ConnectionCalls == {"command", "read", "literal", "close", "store"}
ResultCalls     == {"fetch", "discard", "describe"}
AllCalls == ConnectionCalls \cup ResultCalls \cup {"connect", "drop", "forget"}

ASSUME ConstantsAssumption ==
  /\ Depth \in Nat \ {0}
  /\ MaxRows \in Nat \ {0}
  /\ Gil \in BOOLEAN
  /\ NoMemory \in BOOLEAN
  /\ Unbuffered \subseteq Results
  /\ CallbackCalls \subseteq Calls
  /\ Calls \subseteq AllCalls
  /\ None \notin Threads \cup Results \cup AllCalls
  /\ None \notin Threads \X (1..Depth)
  /\ "program" \notin Results

Frames == Threads \X (1..Depth)

VARIABLES
  open,      \* self->open
  handle,    \* the MYSQL structure: "none", "up" or "closed" by mysql_close
  lock,      \* self->lock: the frame that took it, or None
  connRefs,  \* who holds a reference to the connection object
  res,       \* the life of each result object
  gil,       \* the thread inside _mysql.c with the GIL, or None
  pc,        \* where each frame is in its call
  call,      \* the call it makes
  arg,       \* the result object the call works on
  local,     \* the C variable the rest of the call depends on
  lastUser   \* the frame whose call into the client library ended last

vars == <<open, handle, lock, connRefs, res, gil, pc, call, arg, local, lastUser>>

Locations == {"idle", "lock", "check", "alloc", "native", "reacquire", "finish",
              "callback", "errno", "error", "wait", "waited", "free", "clear",
              "connect", "dealloc"}

(* Where a frame holds the connection's lock. *)
Locked == {"check", "native", "reacquire", "finish", "callback", "waited", "free"}

TypeOK ==
  /\ open \in BOOLEAN
  /\ handle \in {"none", "up", "closed"}
  /\ lock \in Frames \cup {None}
  /\ connRefs \subseteq Results \cup {"program"}
  /\ res \in [Results -> {"none", "new", "held", "dying"}]
  /\ gil \in Threads \cup {None}
  /\ pc \in [Frames -> Locations]
  /\ call \in [Frames -> AllCalls \cup {None}]
  /\ arg \in [Frames -> Results \cup {None}]
  /\ local \in [Frames -> 0..MaxRows]
  /\ lastUser \in Frames \cup {None}

Init ==
  /\ open = FALSE
  /\ handle = "none"
  /\ lock = None
  /\ connRefs = {}
  /\ res = [r \in Results |-> "none"]
  /\ gil = None
  /\ pc = [f \in Frames |-> "idle"]
  /\ call = [f \in Frames |-> None]
  /\ arg = [f \in Frames |-> None]
  /\ local = [f \in Frames |-> 0]
  /\ lastUser = None

-----------------------------------------------------------------------------
(* Python code runs in the thread at depth d: the program itself at depth  *)
(* 1, a callback of the frame above it at the others.                      *)
RunsPython(f) ==
  /\ pc[f] = "idle"
  /\ f[2] > 1 => pc[<<f[1], f[2] - 1>>] = "callback"

(* The Python code that a frame waits for has returned. *)
Returned(f) ==
  f[2] < Depth => pc[<<f[1], f[2] + 1>>] = "idle"

MayCall(f, c) ==
  /\ RunsPython(f)
  /\ c \in (IF f[2] = 1 THEN Calls ELSE CallbackCalls)
  /\ gil = None

(* The frame runs C code that holds the GIL, if there is one. *)
HasGil(f) == Gil => gil = f[1]
TakeGil(f) == gil' = IF Gil THEN f[1] ELSE None
CanTakeGil == gil = None
DropGil == gil' = None

Goto(f, l) == pc' = [pc EXCEPT ![f] = l]
Begin(f, c, r, l) ==
  /\ pc' = [pc EXCEPT ![f] = l]
  /\ call' = [call EXCEPT ![f] = c]
  /\ arg' = [arg EXCEPT ![f] = r]
  /\ UNCHANGED local
Return(f) ==
  /\ pc' = [pc EXCEPT ![f] = "idle"]
  /\ call' = [call EXCEPT ![f] = None]
  /\ arg' = [arg EXCEPT ![f] = None]
  /\ local' = [local EXCEPT ![f] = 0]
  /\ DropGil

(* The calls that let other threads run while they are in the client      *)
(* library (Py_BEGIN_ALLOW_THREADS).                                       *)
ReleasesGil(f) ==
  \/ call[f] \in {"command", "close", "store", "discard"}
  \/ call[f] = "fetch" /\ arg[f] \in Unbuffered

Unlock == lock' = None

-----------------------------------------------------------------------------
(* Construction: mysql_init and the options with the GIL held, then        *)
(* mysql_real_connect without it.  open is already true here.              *)
Connect(f) ==
  /\ MayCall(f, "connect")
  /\ connRefs = {}
  /\ handle = "none"
  /\ open' = TRUE
  /\ handle' = "up"
  /\ Begin(f, "connect", None, "connect")
  /\ UNCHANGED <<lock, connRefs, res, gil, lastUser>>

Connected(f) ==
  /\ pc[f] = "connect"
  /\ CanTakeGil
  /\ connRefs' = {"program"}
  /\ Return(f)
  /\ UNCHANGED <<open, handle, lock, res, lastUser>>

ConnectFailed(f) ==
  /\ pc[f] = "connect"
  /\ CanTakeGil
  /\ TakeGil(f)
  /\ Goto(f, "dealloc")
  /\ UNCHANGED <<open, handle, lock, connRefs, res, call, arg, local, lastUser>>

(* A method of the connection, or of a result, is called. *)
CallConnection(f, c) ==
  /\ MayCall(f, c)
  /\ c \in ConnectionCalls
  /\ "program" \in connRefs
  /\ TakeGil(f)
  /\ Begin(f, c, None, "lock")
  /\ UNCHANGED <<open, handle, lock, connRefs, res, lastUser>>

CallResult(f, c, r) ==
  /\ MayCall(f, c)
  /\ c \in ResultCalls
  /\ res[r] = "held"
  /\ TakeGil(f)
  /\ Begin(f, c, r, "lock")
  /\ UNCHANGED <<open, handle, lock, connRefs, res, lastUser>>

(* Mutant: the result of PyThread_acquire_lock is not looked at. *)
AcquireAnyway(f) ==
  /\ pc[f] = "lock"
  /\ HasGil(f)
  /\ lock' = f
  /\ Goto(f, "check")
  /\ UNCHANGED <<open, handle, connRefs, res, gil, call, arg, local, lastUser>>

(* _mysql_ConnectionObject_Lock: the lock is taken, or the call raises.    *)
(* The second attempt of store_result, made with a result object already   *)
(* in hand, fails into that object's deallocation.                         *)
Acquire(f) ==
  /\ pc[f] = "lock"
  /\ HasGil(f)
  /\ lock = None
  /\ lock' = f
  /\ Goto(f, "check")
  /\ UNCHANGED <<open, handle, connRefs, res, gil, call, arg, local, lastUser>>

(* Mutant: the deallocation waits for the lock with the GIL held. *)
DiscardingWithGil(f) ==
  /\ Goto(f, "wait")
  /\ res' = [res EXCEPT ![arg[f]] = "dying"]
  /\ UNCHANGED <<call, arg, local, gil>>

(* Py_DECREF of the only reference to a result object whose conn is set. *)
Discarding(f) ==
  /\ Goto(f, "wait")
  /\ DropGil
  /\ res' = [res EXCEPT ![arg[f]] = "dying"]
  /\ UNCHANGED <<call, arg, local>>

Refuse(f) ==
  /\ pc[f] = "lock"
  /\ HasGil(f)
  /\ lock # None
  /\ IF call[f] = "store" /\ arg[f] # None
       THEN Discarding(f)
       ELSE Return(f) /\ UNCHANGED res
  /\ UNCHANGED <<open, handle, lock, connRefs, lastUser>>

(* Mutant: the method of a closed connection raises without unlocking. *)
CheckClosedLocked(f) ==
  /\ pc[f] = "check"
  /\ HasGil(f)
  /\ ~open
  /\ Goto(f, "error")
  /\ UNCHANGED <<open, handle, lock, connRefs, res, gil, call, arg, local, lastUser>>

(* The connection is closed: unlock, then make an exception.               *)
(* string_literal and escape_string escape without the handle, the first   *)
(* perhaps after a callback.                                               *)
CheckClosed(f) ==
  /\ pc[f] = "check"
  /\ HasGil(f)
  /\ ~open
  /\ \/ /\ call[f] = "literal"
        /\ Goto(f, "callback")
        /\ DropGil
        /\ UNCHANGED <<lock, call, arg, local>>
     \/ /\ call[f] = "literal"
        /\ Unlock
        /\ Return(f)
     \/ /\ call[f] # "literal"
        /\ Unlock
        /\ Goto(f, "error")
        /\ UNCHANGED <<gil, call, arg, local>>
  /\ UNCHANGED <<open, handle, connRefs, res, lastUser>>

(* _mysql_Exception of a closed connection does not ask for its errno, but *)
(* it does read mysql_error, and raises.                                   *)
ReadError(f) ==
  /\ pc[f] = "error"
  /\ HasGil(f)
  /\ IF call[f] = "store" /\ arg[f] # None
       THEN Discarding(f)
       ELSE Return(f) /\ UNCHANGED res
  /\ UNCHANGED <<open, handle, lock, connRefs, lastUser>>

Checked(f) == pc[f] = "check" /\ HasGil(f) /\ open

(* store_result's first locked section only reads the converter; the       *)
(* result object is allocated after it, and Initialize locks again.        *)
CheckStore(f) ==
  /\ Checked(f)
  /\ call[f] = "store" /\ arg[f] = None
  /\ Unlock
  /\ Goto(f, "alloc")
  /\ UNCHANGED <<open, handle, connRefs, res, gil, call, arg, local, lastUser>>

(* string_literal notes that it will use the handle, then calls __str__.   *)
CheckLiteral(f) ==
  /\ Checked(f)
  /\ call[f] = "literal"
  /\ local' = [local EXCEPT ![f] = 1]
  /\ Goto(f, "callback")
  /\ DropGil
  /\ UNCHANGED <<open, handle, lock, connRefs, res, call, arg, lastUser>>

(* escape_string, and string_literal of bytes, call no Python code.        *)
CheckEscape(f) ==
  /\ Checked(f)
  /\ call[f] = "literal"
  /\ Goto(f, "native")
  /\ UNCHANGED <<open, handle, lock, connRefs, res, gil, call, arg, local, lastUser>>

(* describe and field_flags read the result's fields and build a tuple;    *)
(* when there is no memory for it they return without unlocking.           *)
CheckDescribe(f) ==
  /\ Checked(f)
  /\ call[f] = "describe"
  /\ \/ Unlock
     \/ NoMemory /\ UNCHANGED lock
  /\ Return(f)
  /\ UNCHANGED <<open, handle, connRefs, res, lastUser>>

(* Mutant: the lock covers the test of open and not the call. *)
CheckNativeUnlocked(f) ==
  /\ Checked(f)
  /\ call[f] \in {"command", "read", "close", "discard"}
  /\ Unlock
  /\ Goto(f, "native")
  /\ IF ReleasesGil(f) THEN DropGil ELSE UNCHANGED gil
  /\ UNCHANGED <<open, handle, connRefs, res, call, arg, local, lastUser>>

(* The other calls go into the client library.  local is how many rows     *)
(* fetch_row will convert, and whether store_result gets a result set.     *)
CheckNative(f) ==
  /\ Checked(f)
  /\ call[f] \notin {"literal", "describe"}
  /\ call[f] = "store" => arg[f] # None
  /\ \E n \in CASE call[f] = "fetch" -> 0..MaxRows
                [] call[f] = "store" -> {0, 1}
                [] OTHER -> {0} :
       local' = [local EXCEPT ![f] = n]
  /\ Goto(f, "native")
  /\ IF ReleasesGil(f) THEN DropGil ELSE UNCHANGED gil
  /\ UNCHANGED <<open, handle, lock, connRefs, res, call, arg, lastUser>>

(* Mutant: the result object does not count its reference to the connection. *)
AllocateUncounted(f, r) ==
  /\ pc[f] = "alloc"
  /\ HasGil(f)
  /\ res[r] = "none"
  /\ res' = [res EXCEPT ![r] = "new"]
  /\ arg' = [arg EXCEPT ![f] = r]
  /\ Goto(f, "lock")
  /\ UNCHANGED <<open, handle, lock, connRefs, gil, call, local, lastUser>>

(* MyAlloc of the result object, then Initialize: conn is set and counted  *)
(* before the lock is tried.                                               *)
Allocate(f, r) ==
  /\ pc[f] = "alloc"
  /\ HasGil(f)
  /\ res[r] = "none"
  /\ res' = [res EXCEPT ![r] = "new"]
  /\ arg' = [arg EXCEPT ![f] = r]
  /\ connRefs' = connRefs \cup {r}
  /\ Goto(f, "lock")
  /\ UNCHANGED <<open, handle, lock, gil, call, local, lastUser>>

AllocateFailed(f) ==
  /\ pc[f] = "alloc"
  /\ HasGil(f)
  /\ Return(f)
  /\ UNCHANGED <<open, handle, lock, connRefs, res, lastUser>>

-----------------------------------------------------------------------------
(* A call into the client library ends.  A call that let other threads run *)
(* waits for the GIL before it looks at the outcome.                       *)
LeaveNative(f) ==
  /\ pc[f] = "native"
  /\ lastUser' = f
  /\ handle' = IF call[f] = "close" THEN "closed" ELSE handle
  /\ Goto(f, IF ReleasesGil(f) THEN "reacquire" ELSE "finish")
  /\ UNCHANGED <<open, lock, connRefs, res, gil, call, arg, local>>

Reacquire(f) ==
  /\ pc[f] = "reacquire"
  /\ CanTakeGil
  /\ TakeGil(f)
  /\ Goto(f, "finish")
  /\ UNCHANGED <<open, handle, lock, connRefs, res, call, arg, local, lastUser>>

(* The call reads mysql_errno, builds its value or raises, and unlocks.    *)
Finish(f) ==
  /\ pc[f] = "finish"
  /\ HasGil(f)
  /\ call[f] \notin {"close", "store"}
  /\ call[f] = "fetch" => local[f] = 0
  /\ Unlock
  /\ Return(f)
  /\ UNCHANGED <<open, handle, connRefs, res, lastUser>>

(* Mutant: close() leaves open as it is. *)
FinishCloseOpen(f) ==
  /\ pc[f] = "finish"
  /\ HasGil(f)
  /\ call[f] = "close"
  /\ Unlock
  /\ Return(f)
  /\ UNCHANGED <<open, handle, connRefs, res, lastUser>>

FinishClose(f) ==
  /\ pc[f] = "finish"
  /\ HasGil(f)
  /\ call[f] = "close"
  /\ open' = FALSE
  /\ Unlock
  /\ Return(f)
  /\ UNCHANGED <<handle, connRefs, res, lastUser>>

(* Initialize reads has_next and the encoding, and unlocks.  With a result *)
(* set it looks up the converters; when a lookup fails, store_result drops *)
(* the object with the set in it.  Without a set it reads mysql_errno, to  *)
(* tell an error from a statement that has none.                           *)
FinishStore(f) ==
  /\ pc[f] = "finish"
  /\ HasGil(f)
  /\ call[f] = "store"
  /\ Unlock
  /\ \/ /\ local[f] = 1
        /\ res' = [res EXCEPT ![arg[f]] = "held"]
        /\ Return(f)
     \/ local[f] = 1 /\ Discarding(f)
     \/ /\ local[f] = 0
        /\ Goto(f, "errno")
        /\ UNCHANGED <<res, gil, call, arg, local>>
  /\ UNCHANGED <<open, handle, connRefs, lastUser>>

(* An error raises and no result set returns None: store_result drops the  *)
(* result object either way.                                               *)
ReadErrno(f) ==
  /\ pc[f] = "errno"
  /\ HasGil(f)
  /\ Discarding(f)
  /\ UNCHANGED <<open, handle, lock, connRefs, lastUser>>

(* Mutant: a row is converted although mysql_fetch_row returned NULL. *)
ConvertNull(f) ==
  /\ pc[f] = "finish"
  /\ HasGil(f)
  /\ call[f] = "fetch"
  /\ local' = [local EXCEPT ![f] = @ - 1]
  /\ Goto(f, "callback")
  /\ DropGil
  /\ UNCHANGED <<open, handle, lock, connRefs, res, call, arg, lastUser>>

(* A row was fetched: its fields are converted by Python code.             *)
ConvertRow(f) ==
  /\ pc[f] = "finish"
  /\ HasGil(f)
  /\ call[f] = "fetch"
  /\ local[f] > 0
  /\ local' = [local EXCEPT ![f] = @ - 1]
  /\ Goto(f, "callback")
  /\ DropGil
  /\ UNCHANGED <<open, handle, lock, connRefs, res, call, arg, lastUser>>

CallbackOf(f, c) ==
  /\ pc[f] = "callback"
  /\ call[f] = c
  /\ Returned(f)
  /\ CanTakeGil

(* The next row, unless maxrows is reached.                                *)
NextRow(f) ==
  /\ CallbackOf(f, "fetch")
  /\ Goto(f, "native")
  /\ IF ReleasesGil(f) THEN DropGil ELSE TakeGil(f)
  /\ UNCHANGED <<open, handle, lock, connRefs, res, call, arg, local, lastUser>>

(* Mutant: a converter that raises leaves fetch_row without unlocking. *)
EndFetchLocked(f) ==
  /\ CallbackOf(f, "fetch")
  /\ Return(f)
  /\ UNCHANGED <<open, handle, lock, connRefs, res, lastUser>>

(* maxrows rows are there, or the converter raised.                        *)
EndFetch(f) ==
  /\ CallbackOf(f, "fetch")
  /\ Unlock
  /\ Return(f)
  /\ UNCHANGED <<open, handle, connRefs, res, lastUser>>

(* __str__ has returned: the handle's character set is used only when      *)
(* open was seen before it.                                                *)
Escape(f) ==
  /\ CallbackOf(f, "literal")
  /\ local[f] = 1
  /\ Goto(f, "native")
  /\ TakeGil(f)
  /\ UNCHANGED <<open, handle, lock, connRefs, res, call, arg, local, lastUser>>

EndLiteral(f) ==
  /\ CallbackOf(f, "literal")
  /\ Unlock
  /\ Return(f)
  /\ UNCHANGED <<open, handle, connRefs, res, lastUser>>

-----------------------------------------------------------------------------
(* Deallocation of a result object.  The last reference to it goes: the    *)
(* thread waits for the lock without the GIL.                              *)
DropResult(f, r) ==
  /\ MayCall(f, "drop")
  /\ res[r] = "held"
  /\ \A g \in Frames : arg[g] # r
  /\ res' = [res EXCEPT ![r] = "dying"]
  /\ Begin(f, "drop", r, "wait")
  /\ UNCHANGED <<open, handle, lock, connRefs, gil, lastUser>>

(* Mutant: the deallocation does not wait. *)
LockWaitNot(f) ==
  /\ pc[f] = "wait"
  /\ lock' = f
  /\ Goto(f, "waited")
  /\ UNCHANGED <<open, handle, connRefs, res, gil, call, arg, local, lastUser>>

LockWait(f) ==
  /\ pc[f] = "wait"
  /\ lock = None
  /\ lock' = f
  /\ Goto(f, "waited")
  /\ UNCHANGED <<open, handle, connRefs, res, gil, call, arg, local, lastUser>>

EnterFree(f) ==
  /\ pc[f] = "waited"
  /\ CanTakeGil
  /\ TakeGil(f)
  /\ Goto(f, "free")
  /\ UNCHANGED <<open, handle, lock, connRefs, res, call, arg, local, lastUser>>

(* mysql_free_result, with the GIL held, then the lock is given up.        *)
FreeResult(f) ==
  /\ pc[f] = "free"
  /\ lastUser' = f
  /\ Unlock
  /\ Goto(f, "clear")
  /\ UNCHANGED <<open, handle, connRefs, res, gil, call, arg, local>>

(* _mysql_ResultObject_clear drops the reference to the connection, which  *)
(* may be the last one.                                                    *)
ClearResult(f) ==
  /\ pc[f] = "clear"
  /\ HasGil(f)
  /\ connRefs' = connRefs \ {arg[f]}
  /\ res' = [res EXCEPT ![arg[f]] = "none"]
  /\ IF connRefs' = {}
       THEN Goto(f, "dealloc") /\ UNCHANGED <<gil, call, arg, local>>
       ELSE Return(f)
  /\ UNCHANGED <<open, handle, lock, lastUser>>

(* Mutant: the connection goes although result objects refer to it. *)
ForgetAtOnce(f) ==
  /\ MayCall(f, "forget")
  /\ "program" \in connRefs
  /\ \A g \in Frames : call[g] \notin ConnectionCalls
  /\ connRefs' = {}
  /\ Begin(f, "forget", None, "dealloc")
  /\ TakeGil(f)
  /\ UNCHANGED <<open, handle, lock, res, lastUser>>

(* The program gives up the connection object; a call of one of its        *)
(* methods keeps it alive.                                                 *)
Forget(f) ==
  /\ MayCall(f, "forget")
  /\ "program" \in connRefs
  /\ \A g \in Frames : call[g] \notin ConnectionCalls
  /\ connRefs' = connRefs \ {"program"}
  /\ IF connRefs' = {}
       THEN Begin(f, "forget", None, "dealloc") /\ TakeGil(f)
       ELSE UNCHANGED <<pc, call, arg, local, gil>>
  /\ UNCHANGED <<open, handle, lock, res, lastUser>>

(* _mysql_ConnectionObject_dealloc: mysql_close without the lock.          *)
Dealloc(f) ==
  /\ pc[f] = "dealloc"
  /\ HasGil(f)
  /\ open' = FALSE
  /\ handle' = "none"
  /\ Unlock
  /\ lastUser' = None
  /\ Return(f)
  /\ UNCHANGED <<connRefs, res>>

-----------------------------------------------------------------------------
(* What the program, or a callback, begins. *)
Start(f) ==
  \/ Connect(f)
  \/ \E c \in ConnectionCalls : CallConnection(f, c)
  \/ \E c \in ResultCalls, r \in Results : CallResult(f, c, r)
  \/ \E r \in Results : DropResult(f, r)
  \/ Forget(f)

(* The steps of a call that has begun, but for the wait of a deallocation. *)
Continue(f) ==
  \/ Connected(f) \/ ConnectFailed(f)
  \/ Acquire(f) \/ Refuse(f) \/ CheckClosed(f) \/ ReadError(f)
  \/ CheckStore(f) \/ CheckLiteral(f) \/ CheckEscape(f)
  \/ CheckDescribe(f) \/ CheckNative(f)
  \/ AllocateFailed(f) \/ \E r \in Results : Allocate(f, r)
  \/ LeaveNative(f) \/ Reacquire(f)
  \/ Finish(f) \/ FinishClose(f) \/ FinishStore(f) \/ ReadErrno(f)
  \/ ConvertRow(f) \/ NextRow(f) \/ EndFetch(f) \/ Escape(f) \/ EndLiteral(f)
  \/ EnterFree(f) \/ FreeResult(f) \/ ClearResult(f) \/ Dealloc(f)

Next == \E f \in Frames : Start(f) \/ Continue(f) \/ LockWait(f)

Spec == Init /\ [][Next]_vars

(* A call that has begun goes on: the server answers, Python callbacks     *)
(* return, and the interpreter hands the GIL to a thread that keeps asking *)
(* for it.  Nothing is assumed of the wait for the connection's lock.      *)
Fairness == \A f \in Frames : SF_vars(Continue(f))
FairSpec == Spec /\ Fairness

-----------------------------------------------------------------------------
(* Where a frame reads or writes the MYSQL structure: under the lock, in   *)
(* the constructor, in the deallocator, and after the lock was given up.   *)
UsesUnderLock(f) == pc[f] \in {"native", "finish", "free"}
ReadsUnlocked(f) == pc[f] \in {"errno", "error"}
UsesHandle(f) ==
  UsesUnderLock(f) \/ ReadsUnlocked(f) \/ pc[f] \in {"connect", "dealloc"}

(* No two calls are in the client library, or between a call into it and   *)
(* the reading of its outcome, at the same time, on any interpreter: the   *)
(* lock of every method, the wait of a result's deallocation, and the      *)
(* reference counts that keep the two lock-free users (constructor and     *)
(* deallocator) alone.                                                     *)
NativeExclusive ==
  \A f, g \in Frames :
    /\ UsesUnderLock(f) \/ pc[f] \in {"connect", "dealloc"}
    /\ UsesHandle(g) /\ ~ReadsUnlocked(g)
    => f = g

(* With a GIL the same holds of what is read after the lock was given up,  *)
(* Initialize's mysql_errno and the mysql_error of a closed connection: no *)
(* other call gets at the handle in between.                               *)
HandleExclusive ==
  Gil => \A f, g \in Frames : UsesHandle(f) /\ UsesHandle(g) => f = g

(* Where a call works on a handle that it has found open. *)
WorksOnOpen(f) ==
  \/ pc[f] \in {"native", "connect"}
  \/ pc[f] = "finish" /\ call[f] # "close"
  \/ Gil /\ pc[f] = "errno"

(* The handle is up whenever a call that found it open works on it: the    *)
(* test of open, made before callbacks run and before the GIL is released, *)
(* still holds when it is relied on, and mysql_close happens once.         *)
OpenMeansUp == \A f \in Frames : WorksOnOpen(f) => handle = "up"

(* No call reads the structure after mysql_close, whether it relies on     *)
(* open or not: "when connection is closed, accessing the c->connection    *)
(* object may cause SEGV" (_mysql_Exception).                              *)
NeverUsedAfterClose ==
  \A f \in Frames : WorksOnOpen(f) \/ pc[f] = "error" => handle = "up"

(* The errno and the result set that a call looks at, after it got the GIL *)
(* back, are those of its own call into the client library.                *)
ReadsOwnOutcome ==
  \A f \in Frames :
    pc[f] = "finish" \/ (Gil /\ pc[f] = "errno") => lastUser = f

(* A connection object outlives every call that works on it and every      *)
(* result object that points to it, whatever order the program gives up    *)
(* its references in: the deallocator runs alone.                          *)
DeallocatedLast ==
  (\E f \in Frames : pc[f] = "dealloc") \/ handle = "none"
  => /\ \A r \in Results : res[r] = "none"
     /\ \A f \in Frames : pc[f] \in {"idle", "dealloc"}

(* With enough memory the lock is held exactly by the calls that are in a  *)
(* locked section: no path out of a method, and no other failing one,      *)
(* leaves it taken.                                                        *)
LockHeldInCall ==
  \A f \in Frames : lock = f <=> pc[f] \in Locked

(* Only a deallocation that the program asked for waits for another call:  *)
(* a method never blocks behind another thread's call.                     *)
CallsNeverBlock ==
  \A f \in Frames :
    pc[f] = "wait" /\ lock # None /\ lock[1] # f[1] => call[f] = "drop"

(* A deallocation never waits for a lock that its own thread holds: nobody *)
(* could release it.                                                       *)
WaitsForOthers ==
  \A f \in Frames : pc[f] = "wait" /\ lock # None => lock[1] # f[1]

(* Who takes the lock gives it up again, whatever the interleaving of      *)
(* threads, callbacks and the GIL.                                         *)
LockReleased ==
  \A f \in Frames : lock = f ~> lock # f

(* A call returns, or it waits in a deallocation: none is stuck waiting    *)
(* for the GIL or for a callback.                                          *)
CallsReturn ==
  \A f \in Frames : pc[f] # "idle" ~> pc[f] \in {"idle", "wait"}

-----------------------------------------------------------------------------
(* The protocol of the handle, as the frames of this module follow it.     *)
InLibrary(f) == UsesHandle(f) /\ ~(pc[f] = "finish" /\ call[f] = "close")

Doing(f) ==
  CASE pc[f] = "connect" -> "connect"
    [] pc[f] = "free" -> "free"
    [] pc[f] = "dealloc" -> "destroy"
    [] pc[f] = "error" -> "peek"
    [] OTHER -> "use"

(* Of the result objects that store_result itself deallocates, only those  *)
(* hold a set that failed after they had got it.                           *)
FreesSet(f) ==
  /\ pc[f] \in {"wait", "waited", "free"}
  /\ call[f] = "drop" \/ local[f] = 1

HoldsSet(r) ==
  \/ res[r] = "held"
  \/ \E f \in Frames : arg[f] = r /\ FreesSet(f)

Outstanding == {r \in Results : HoldsSet(r)}

LibraryUser ==
  IF \E f \in Frames : InLibrary(f) THEN CHOOSE f \in Frames : InLibrary(f) ELSE None

LibraryDoing == IF LibraryUser = None THEN "nothing" ELSE Doing(LibraryUser)

Handle == INSTANCE HandleProtocol WITH
  Users <- Frames, Sets <- Results, Nobody <- None,
  stage <- handle,
  user <- LibraryUser,
  doing <- LibraryDoing,
  outstanding <- Outstanding

(* Under a GIL the calls of all threads together follow the protocol: one  *)
(* at a time, nothing after mysql_close but the freeing of results and the *)
(* reading of mysql_error, each result freed once and before the handle    *)
(* goes.                                                                   *)
FollowsProtocol == Handle!Spec
-----------------------------------------------------------------------------
(* The inductive invariant behind the properties above. *)

(* Who is in a locked section holds the lock. *)
LockInv == \A f \in Frames : pc[f] \in Locked => lock = f

(* What a frame at each place of its call works on. *)
CallInv ==
  \A f \in Frames :
    /\ pc[f] = "idle" => call[f] = None /\ arg[f] = None
    /\ pc[f] \in {"idle", "lock", "check", "alloc", "error"} => local[f] = 0
    /\ call[f] \in ConnectionCalls => "program" \in connRefs
    /\ pc[f] \in {"connect", "dealloc"} => call[f] \in {"connect", "drop", "forget"}
    /\ pc[f] \notin {"idle", "connect", "dealloc"} =>
         \/ call[f] \in ConnectionCalls /\ (arg[f] = None \/ call[f] = "store")
         \/ call[f] \in ResultCalls \cup {"drop"} /\ arg[f] \in Results
    /\ pc[f] \in {"wait", "waited", "free", "clear"} =>
         call[f] \in {"store", "drop"} /\ arg[f] \in Results
    /\ pc[f] = "alloc" => call[f] = "store" /\ arg[f] = None
    /\ pc[f] \in {"native", "reacquire", "finish", "errno"} /\ call[f] = "store" =>
         arg[f] \in Results
    /\ pc[f] = "errno" => call[f] = "store"
    /\ pc[f] = "callback" => call[f] \in {"fetch", "literal"}
    /\ call[f] = "drop" => pc[f] \in {"wait", "waited", "free", "clear", "dealloc"}

(* A result object holds a reference to the connection as long as it       *)
(* exists; a frame works on one that is there, and one that makes or       *)
(* deallocates it does so alone.                                           *)
ResultInv ==
  /\ \A r \in Results : res[r] # "none" <=> r \in connRefs
  /\ \A f \in Frames : pc[f] # "dealloc" /\ arg[f] # None =>
       IF call[f] \in ResultCalls
         THEN res[arg[f]] = "held"
         ELSE res[arg[f]] \in {"new", "dying"}
  /\ \A f, g \in Frames :
       /\ pc[f] # "dealloc" /\ pc[g] # "dealloc"
       /\ call[f] \notin ResultCalls /\ arg[f] # None /\ arg[g] = arg[f]
       => f = g

(* The constructor and the deallocator have the connection to themselves.  *)
OwnerInv ==
  /\ \A f \in Frames : pc[f] \in {"connect", "dealloc"} => connRefs = {} /\ handle # "none"
  /\ \A f, g \in Frames :
       pc[f] \in {"connect", "dealloc"} /\ pc[g] \in {"connect", "dealloc"} => f = g
  /\ handle = "none" => connRefs = {} /\ ~open

(* open says that the handle is up, but for the moment close() is in, and  *)
(* stays FALSE while a call that found it so is on its way out.            *)
HandleInv ==
  /\ open /\ handle # "up" =>
       \E f \in Frames : call[f] = "close" /\ pc[f] \in {"reacquire", "finish"}
  /\ \A f \in Frames : pc[f] = "connect" => handle = "up"
  /\ \A f \in Frames :
       \/ pc[f] = "native"
       \/ pc[f] \in {"reacquire", "finish"} /\ call[f] # "close"
       \/ pc[f] = "callback" /\ (call[f] = "fetch" \/ local[f] = 1)
       => open /\ handle = "up"
  /\ handle = "up" => open
  /\ \A f \in Frames :
       pc[f] \in {"reacquire", "finish"} /\ call[f] = "close" => handle = "closed"
  /\ \A f \in Frames : pc[f] = "error" => ~open

OutcomeInv == \A f \in Frames : pc[f] \in {"reacquire", "finish"} => lastUser = f

Inv == LockInv /\ CallInv /\ ResultInv /\ OwnerInv /\ HandleInv /\ OutcomeInv

(* With enough memory the lock is left only by unlocking it.               *)
LeakInv == ~NoMemory => \A f \in Frames : lock = f => pc[f] \in Locked

(* A frame runs inside callbacks of all the frames above it.               *)
StackInv ==
  \A f \in Frames : pc[f] # "idle" =>
    \A d \in 1..Depth : d < f[2] => pc[<<f[1], d>>] = "callback"

(* Where the C code of a call holds the GIL. *)
OnGil(f) ==
  \/ pc[f] \in {"lock", "check", "alloc", "finish", "errno", "error", "free",
               "clear", "dealloc"}
  \/ pc[f] = "native" /\ ~ReleasesGil(f)

GilInv == Gil => \A f \in Frames : OnGil(f) => gil = f[1]

(* Between the unlock and the reading of errno or of the error's text      *)
(* nobody else gets beyond waiting for the GIL, with or without the lock.  *)
ErrnoInv ==
  Gil => \A f, g \in Frames :
    /\ pc[f] = "errno" => lastUser = f /\ handle = "up"
    /\ ReadsUnlocked(f) /\ pc[g] \in Locked => pc[g] = "waited"
=============================================================================
