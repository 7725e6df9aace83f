------------------------ MODULE ConnectionLockProofs ------------------------
(***************************************************************************)
(* Proofs about ConnectionLock, for every set of threads and of result     *)
(* objects, every depth of callbacks, with a GIL and without.              *)
(*                                                                         *)
(* Inv is inductive by itself; StackInv, GilInv and ErrnoInv are inductive *)
(* relative to it and are what the properties that speak of the GIL need.  *)
(*                                                                         *)
(* The last part proves that ConnectionLock implements HandleProtocol      *)
(* under a GIL.  A step of a frame changes what that frame does and nobody *)
(* else's business; what the abstract specification sees of it is whether  *)
(* the frame is in the library before and after the step.                  *)
(***************************************************************************)
EXTENDS ConnectionLock, TLAPS

(* A lock that nobody holds is not held by a frame.                        *)
LEMMA NoneNotFrame == None \notin Frames
  BY ConstantsAssumption DEF Frames

(* A frame is the pair of its thread and its depth.                        *)
LEMMA FrameForm ==
  ASSUME NEW f \in Frames
  PROVE  f = <<f[1], f[2]>> /\ f[1] \in Threads /\ f[2] \in 1..Depth
  BY DEF Frames

(* A thread and a depth make a frame.                                      *)
LEMMA FrameMade ==
  ASSUME NEW t \in Threads, NEW d \in 1..Depth
  PROVE  <<t, d>> \in Frames /\ <<t, d>>[1] = t /\ <<t, d>>[2] = d
  BY DEF Frames

(* The small steps and tests that the actions are made of. *)
USE DEF Locked, ConnectionCalls, ResultCalls, AllCalls, Locations, Goto,
        Return, Begin, Discarding, MayCall, RunsPython, Checked, CallbackOf,
        ReleasesGil, TakeGil, DropGil, Unlock, ReadsUnlocked

-----------------------------------------------------------------------------
(* The initial state is well typed.                                        *)
LEMMA InitType == Init => TypeOK
<1> SUFFICES ASSUME Init PROVE TypeOK
  OBVIOUS
<1>1. open \in BOOLEAN /\ handle \in {"none", "up", "closed"}
  BY DEF Init
<1>2. lock \in Frames \cup {None} /\ lastUser \in Frames \cup {None}
  BY DEF Init
<1>3. connRefs \subseteq Results \cup {"program"} /\ gil \in Threads \cup {None}
  BY DEF Init
<1>4. res \in [Results -> {"none", "new", "held", "dying"}]
  BY DEF Init
<1>5. pc \in [Frames -> Locations]
  BY DEF Init
<1>6. call \in [Frames -> AllCalls \cup {None}] /\ arg \in [Frames -> Results \cup {None}]
  BY DEF Init
<1>7. local \in [Frames -> 0..MaxRows]
  BY ConstantsAssumption DEF Init
<1> QED
  BY <1>1, <1>2, <1>3, <1>4, <1>5, <1>6, <1>7 DEF TypeOK

(* Every step of a call keeps the types.                                   *)
LEMMA StepType ==
  ASSUME TypeOK, [Next]_vars
  PROVE  TypeOK'
<1>0. CASE UNCHANGED vars
  BY <1>0 DEF vars, TypeOK
<1> SUFFICES ASSUME NEW f \in Frames, Start(f) \/ Continue(f) \/ LockWait(f)
             PROVE  TypeOK'
  BY <1>0 DEF Next
<1>1. Start(f) \/ Continue(f) \/ LockWait(f)
  OBVIOUS
<1>2. f[1] \in Threads
  BY FrameForm
<1> QED
  <2>1. CASE Connect(f)
    BY <2>1, <1>2, ConstantsAssumption DEF Connect, TypeOK
  <2>2. CASE Connected(f)
    BY <2>2, <1>2, ConstantsAssumption DEF Connected, TypeOK
  <2>3. CASE ConnectFailed(f)
    BY <2>3, <1>2, ConstantsAssumption DEF ConnectFailed, TypeOK
  <2>4. CASE \E c \in ConnectionCalls : CallConnection(f, c)
    BY <2>4, <1>2, ConstantsAssumption DEF CallConnection, TypeOK
  <2>5. CASE \E c \in ResultCalls, r \in Results : CallResult(f, c, r)
    BY <2>5, <1>2, ConstantsAssumption DEF CallResult, TypeOK
  <2>6. CASE \E r \in Results : DropResult(f, r)
    BY <2>6, <1>2, ConstantsAssumption DEF DropResult, TypeOK
  <2>7. CASE Forget(f)
    BY <2>7, <1>2, ConstantsAssumption DEF Forget, TypeOK
  <2>8. CASE Acquire(f)
    BY <2>8, <1>2, ConstantsAssumption DEF Acquire, TypeOK
  <2>9. CASE Refuse(f)
    BY <2>9, <1>2, ConstantsAssumption DEF Refuse, TypeOK
  <2>10. CASE CheckClosed(f)
    BY <2>10, <1>2, ConstantsAssumption DEF CheckClosed, TypeOK
  <2>11. CASE CheckStore(f)
    BY <2>11, <1>2, ConstantsAssumption DEF CheckStore, TypeOK
  <2>12. CASE CheckLiteral(f)
    BY <2>12, <1>2, ConstantsAssumption DEF CheckLiteral, TypeOK
  <2>33. CASE CheckEscape(f)
    BY <2>33, <1>2, ConstantsAssumption DEF CheckEscape, TypeOK
  <2>13. CASE CheckDescribe(f)
    BY <2>13, <1>2, ConstantsAssumption DEF CheckDescribe, TypeOK
  <2>14. CASE CheckNative(f)
    BY <2>14, <1>2, ConstantsAssumption DEF CheckNative, TypeOK
  <2>15. CASE AllocateFailed(f)
    BY <2>15, <1>2, ConstantsAssumption DEF AllocateFailed, TypeOK
  <2>16. CASE \E r \in Results : Allocate(f, r)
    BY <2>16, <1>2, ConstantsAssumption DEF Allocate, TypeOK
  <2>17. CASE LeaveNative(f)
    BY <2>17, <1>2, ConstantsAssumption DEF LeaveNative, TypeOK
  <2>18. CASE Reacquire(f)
    BY <2>18, <1>2, ConstantsAssumption DEF Reacquire, TypeOK
  <2>19. CASE Finish(f)
    BY <2>19, <1>2, ConstantsAssumption DEF Finish, TypeOK
  <2>20. CASE FinishClose(f)
    <3>1. open' \in BOOLEAN
      BY <2>20 DEF FinishClose, TypeOK
    <3>2. handle' \in {"none", "up", "closed"}
      BY <2>20 DEF FinishClose, TypeOK
    <3>3. lock' \in Frames \cup {None} /\ lastUser' \in Frames \cup {None}
      BY <2>20 DEF FinishClose, TypeOK
    <3>4. connRefs' \subseteq Results \cup {"program"} /\ gil' \in Threads \cup {None}
      BY <2>20 DEF FinishClose, TypeOK
    <3>5. res' \in [Results -> {"none", "new", "held", "dying"}]
      BY <2>20 DEF FinishClose, TypeOK
    <3>6. pc' \in [Frames -> Locations]
      BY <2>20 DEF FinishClose, TypeOK
    <3>7. call' \in [Frames -> AllCalls \cup {None}]
      BY <2>20 DEF FinishClose, TypeOK
    <3>8. arg' \in [Frames -> Results \cup {None}]
      BY <2>20 DEF FinishClose, TypeOK
    <3>9. local' \in [Frames -> 0..MaxRows]
      BY <2>20, ConstantsAssumption DEF FinishClose, TypeOK
    <3> QED
      BY <3>1, <3>2, <3>3, <3>4, <3>5, <3>6, <3>7, <3>8, <3>9 DEF TypeOK
  <2>21. CASE FinishStore(f)
    BY <2>21, <1>2, ConstantsAssumption DEF FinishStore, TypeOK
  <2>22. CASE ReadErrno(f)
    BY <2>22, <1>2, ConstantsAssumption DEF ReadErrno, TypeOK
  <2>34. CASE ReadError(f)
    BY <2>34, <1>2, ConstantsAssumption DEF ReadError, TypeOK
  <2>23. CASE ConvertRow(f)
    BY <2>23, <1>2, ConstantsAssumption DEF ConvertRow, TypeOK
  <2>24. CASE NextRow(f)
    BY <2>24, <1>2, ConstantsAssumption DEF NextRow, TypeOK
  <2>25. CASE EndFetch(f)
    BY <2>25, <1>2, ConstantsAssumption DEF EndFetch, TypeOK
  <2>26. CASE Escape(f)
    BY <2>26, <1>2, ConstantsAssumption DEF Escape, TypeOK
  <2>27. CASE EndLiteral(f)
    BY <2>27, <1>2, ConstantsAssumption DEF EndLiteral, TypeOK
  <2>28. CASE LockWait(f)
    BY <2>28, <1>2, ConstantsAssumption DEF LockWait, TypeOK
  <2>29. CASE EnterFree(f)
    BY <2>29, <1>2, ConstantsAssumption DEF EnterFree, TypeOK
  <2>30. CASE FreeResult(f)
    BY <2>30, <1>2, ConstantsAssumption DEF FreeResult, TypeOK
  <2>31. CASE ClearResult(f)
    <3>1. open' \in BOOLEAN
      BY <2>31 DEF ClearResult, TypeOK
    <3>2. handle' \in {"none", "up", "closed"}
      BY <2>31 DEF ClearResult, TypeOK
    <3>3. lock' \in Frames \cup {None} /\ lastUser' \in Frames \cup {None}
      BY <2>31 DEF ClearResult, TypeOK
    <3>4. connRefs' \subseteq Results \cup {"program"} /\ gil' \in Threads \cup {None}
      BY <2>31 DEF ClearResult, TypeOK
    <3>5. res' \in [Results -> {"none", "new", "held", "dying"}]
      BY <2>31 DEF ClearResult, TypeOK
    <3>6. pc' \in [Frames -> Locations]
      BY <2>31 DEF ClearResult, TypeOK
    <3>7. call' \in [Frames -> AllCalls \cup {None}]
      BY <2>31 DEF ClearResult, TypeOK
    <3>8. arg' \in [Frames -> Results \cup {None}]
      BY <2>31 DEF ClearResult, TypeOK
    <3>9. local' \in [Frames -> 0..MaxRows]
      BY <2>31, ConstantsAssumption DEF ClearResult, TypeOK
    <3> QED
      BY <3>1, <3>2, <3>3, <3>4, <3>5, <3>6, <3>7, <3>8, <3>9 DEF TypeOK
  <2>32. CASE Dealloc(f)
    <3>1. open' \in BOOLEAN
      BY <2>32 DEF Dealloc, TypeOK
    <3>2. handle' \in {"none", "up", "closed"}
      BY <2>32 DEF Dealloc, TypeOK
    <3>3. lock' \in Frames \cup {None} /\ lastUser' \in Frames \cup {None}
      BY <2>32 DEF Dealloc, TypeOK
    <3>4. connRefs' \subseteq Results \cup {"program"} /\ gil' \in Threads \cup {None}
      BY <2>32 DEF Dealloc, TypeOK
    <3>5. res' \in [Results -> {"none", "new", "held", "dying"}]
      BY <2>32 DEF Dealloc, TypeOK
    <3>6. pc' \in [Frames -> Locations]
      BY <2>32 DEF Dealloc, TypeOK
    <3>7. call' \in [Frames -> AllCalls \cup {None}]
      BY <2>32 DEF Dealloc, TypeOK
    <3>8. arg' \in [Frames -> Results \cup {None}]
      BY <2>32 DEF Dealloc, TypeOK
    <3>9. local' \in [Frames -> 0..MaxRows]
      BY <2>32, ConstantsAssumption DEF Dealloc, TypeOK
    <3> QED
      BY <3>1, <3>2, <3>3, <3>4, <3>5, <3>6, <3>7, <3>8, <3>9 DEF TypeOK
  <2> QED
    BY <1>1, <2>1, <2>2, <2>3, <2>4, <2>5, <2>6, <2>7, <2>8, <2>9, <2>10,
      <2>11, <2>12, <2>13, <2>14, <2>15, <2>16, <2>17, <2>18, <2>19, <2>20,
      <2>21, <2>22, <2>23, <2>24, <2>25, <2>26, <2>27, <2>28, <2>29, <2>30,
      <2>31, <2>32, <2>33, <2>34 DEF Start, Continue

(* Every variable of the connection keeps its type, in every behaviour of  *)
(* its calls, callbacks and deallocations.                                 *)
THEOREM TypeCorrect == Spec => []TypeOK
<1>1. Init => TypeOK
  BY InitType
<1>2. TypeOK /\ [Next]_vars => TypeOK'
  BY StepType
<1> QED
  BY <1>1, <1>2, PTL DEF Spec

-----------------------------------------------------------------------------
(* Nobody holds the lock and there is no connection yet.                   *)
LEMMA InitInv == Init => Inv
  BY ConstantsAssumption, NoneNotFrame
  DEF Init, Inv, LockInv, CallInv, ResultInv, OwnerInv, HandleInv, OutcomeInv

(* Every step of a call keeps the inductive invariant.                     *)
LEMMA StepInv ==
  ASSUME TypeOK, Inv, [Next]_vars
  PROVE  Inv'
<1>0. CASE UNCHANGED vars
  BY <1>0 DEF vars, Inv, LockInv, CallInv, ResultInv, OwnerInv, HandleInv,
    OutcomeInv
<1> SUFFICES ASSUME NEW f \in Frames, Start(f) \/ Continue(f) \/ LockWait(f)
             PROVE  Inv'
  BY <1>0 DEF Next
<1>1. Start(f) \/ Continue(f) \/ LockWait(f)
  OBVIOUS
<1> QED
  <2>1. CASE Connect(f)
    BY <2>1, ConstantsAssumption, NoneNotFrame DEF Connect, TypeOK, Inv,
      LockInv, CallInv, ResultInv, OwnerInv, HandleInv, OutcomeInv
  <2>2. CASE Connected(f)
    BY <2>2, ConstantsAssumption, NoneNotFrame DEF Connected, TypeOK, Inv,
      LockInv, CallInv, ResultInv, OwnerInv, HandleInv, OutcomeInv
  <2>3. CASE ConnectFailed(f)
    BY <2>3, ConstantsAssumption, NoneNotFrame DEF ConnectFailed, TypeOK,
      Inv, LockInv, CallInv, ResultInv, OwnerInv, HandleInv, OutcomeInv
  <2>4. CASE \E c \in ConnectionCalls : CallConnection(f, c)
    BY <2>4, ConstantsAssumption, NoneNotFrame DEF CallConnection, TypeOK,
      Inv, LockInv, CallInv, ResultInv, OwnerInv, HandleInv, OutcomeInv
  <2>5. CASE \E c \in ResultCalls, r \in Results : CallResult(f, c, r)
    BY <2>5, ConstantsAssumption, NoneNotFrame DEF CallResult, TypeOK, Inv,
      LockInv, CallInv, ResultInv, OwnerInv, HandleInv, OutcomeInv
  <2>6. CASE \E r \in Results : DropResult(f, r)
    BY <2>6, ConstantsAssumption, NoneNotFrame DEF DropResult, TypeOK, Inv,
      LockInv, CallInv, ResultInv, OwnerInv, HandleInv, OutcomeInv
  <2>7. CASE Forget(f)
    BY <2>7, ConstantsAssumption, NoneNotFrame DEF Forget, TypeOK, Inv,
      LockInv, CallInv, ResultInv, OwnerInv, HandleInv, OutcomeInv
  <2>8. CASE Acquire(f)
    BY <2>8, ConstantsAssumption, NoneNotFrame DEF Acquire, TypeOK, Inv,
      LockInv, CallInv, ResultInv, OwnerInv, HandleInv, OutcomeInv
  <2>9. CASE Refuse(f)
    BY <2>9, ConstantsAssumption, NoneNotFrame DEF Refuse, TypeOK, Inv,
      LockInv, CallInv, ResultInv, OwnerInv, HandleInv, OutcomeInv
  <2>10. CASE CheckClosed(f)
    BY <2>10, ConstantsAssumption, NoneNotFrame DEF CheckClosed, TypeOK,
      Inv, LockInv, CallInv, ResultInv, OwnerInv, HandleInv, OutcomeInv
  <2>11. CASE CheckStore(f)
    BY <2>11, ConstantsAssumption, NoneNotFrame DEF CheckStore, TypeOK, Inv,
      LockInv, CallInv, ResultInv, OwnerInv, HandleInv, OutcomeInv
  <2>12. CASE CheckLiteral(f)
    BY <2>12, ConstantsAssumption, NoneNotFrame DEF CheckLiteral, TypeOK,
      Inv, LockInv, CallInv, ResultInv, OwnerInv, HandleInv, OutcomeInv
  <2>33. CASE CheckEscape(f)
    BY <2>33, ConstantsAssumption, NoneNotFrame DEF CheckEscape, TypeOK,
      Inv, LockInv, CallInv, ResultInv, OwnerInv, HandleInv, OutcomeInv
  <2>13. CASE CheckDescribe(f)
    BY <2>13, ConstantsAssumption, NoneNotFrame DEF CheckDescribe, TypeOK,
      Inv, LockInv, CallInv, ResultInv, OwnerInv, HandleInv, OutcomeInv
  <2>14. CASE CheckNative(f)
    BY <2>14, ConstantsAssumption, NoneNotFrame DEF CheckNative, TypeOK,
      Inv, LockInv, CallInv, ResultInv, OwnerInv, HandleInv, OutcomeInv
  <2>15. CASE AllocateFailed(f)
    BY <2>15, ConstantsAssumption, NoneNotFrame DEF AllocateFailed, TypeOK,
      Inv, LockInv, CallInv, ResultInv, OwnerInv, HandleInv, OutcomeInv
  <2>16. CASE \E r \in Results : Allocate(f, r)
    BY <2>16, ConstantsAssumption, NoneNotFrame DEF Allocate, TypeOK, Inv,
      LockInv, CallInv, ResultInv, OwnerInv, HandleInv, OutcomeInv
  <2>17. CASE LeaveNative(f)
    BY <2>17, ConstantsAssumption, NoneNotFrame DEF LeaveNative, TypeOK,
      Inv, LockInv, CallInv, ResultInv, OwnerInv, HandleInv, OutcomeInv
  <2>18. CASE Reacquire(f)
    BY <2>18, ConstantsAssumption, NoneNotFrame DEF Reacquire, TypeOK, Inv,
      LockInv, CallInv, ResultInv, OwnerInv, HandleInv, OutcomeInv
  <2>19. CASE Finish(f)
    BY <2>19, ConstantsAssumption, NoneNotFrame DEF Finish, TypeOK, Inv,
      LockInv, CallInv, ResultInv, OwnerInv, HandleInv, OutcomeInv
  <2>20. CASE FinishClose(f)
    BY <2>20, ConstantsAssumption, NoneNotFrame DEF FinishClose, TypeOK,
      Inv, LockInv, CallInv, ResultInv, OwnerInv, HandleInv, OutcomeInv
  <2>21. CASE FinishStore(f)
    BY <2>21, ConstantsAssumption, NoneNotFrame DEF FinishStore, TypeOK,
      Inv, LockInv, CallInv, ResultInv, OwnerInv, HandleInv, OutcomeInv
  <2>22. CASE ReadErrno(f)
    BY <2>22, ConstantsAssumption, NoneNotFrame DEF ReadErrno, TypeOK, Inv,
      LockInv, CallInv, ResultInv, OwnerInv, HandleInv, OutcomeInv
  <2>34. CASE ReadError(f)
    BY <2>34, ConstantsAssumption, NoneNotFrame DEF ReadError, TypeOK, Inv,
      LockInv, CallInv, ResultInv, OwnerInv, HandleInv, OutcomeInv
  <2>23. CASE ConvertRow(f)
    BY <2>23, ConstantsAssumption, NoneNotFrame DEF ConvertRow, TypeOK, Inv,
      LockInv, CallInv, ResultInv, OwnerInv, HandleInv, OutcomeInv
  <2>24. CASE NextRow(f)
    BY <2>24, ConstantsAssumption, NoneNotFrame DEF NextRow, TypeOK, Inv,
      LockInv, CallInv, ResultInv, OwnerInv, HandleInv, OutcomeInv
  <2>25. CASE EndFetch(f)
    BY <2>25, ConstantsAssumption, NoneNotFrame DEF EndFetch, TypeOK, Inv,
      LockInv, CallInv, ResultInv, OwnerInv, HandleInv, OutcomeInv
  <2>26. CASE Escape(f)
    BY <2>26, ConstantsAssumption, NoneNotFrame DEF Escape, TypeOK, Inv,
      LockInv, CallInv, ResultInv, OwnerInv, HandleInv, OutcomeInv
  <2>27. CASE EndLiteral(f)
    BY <2>27, ConstantsAssumption, NoneNotFrame DEF EndLiteral, TypeOK, Inv,
      LockInv, CallInv, ResultInv, OwnerInv, HandleInv, OutcomeInv
  <2>28. CASE LockWait(f)
    BY <2>28, ConstantsAssumption, NoneNotFrame DEF LockWait, TypeOK, Inv,
      LockInv, CallInv, ResultInv, OwnerInv, HandleInv, OutcomeInv
  <2>29. CASE EnterFree(f)
    BY <2>29, ConstantsAssumption, NoneNotFrame DEF EnterFree, TypeOK, Inv,
      LockInv, CallInv, ResultInv, OwnerInv, HandleInv, OutcomeInv
  <2>30. CASE FreeResult(f)
    BY <2>30, ConstantsAssumption, NoneNotFrame DEF FreeResult, TypeOK, Inv,
      LockInv, CallInv, ResultInv, OwnerInv, HandleInv, OutcomeInv
  <2>31. CASE ClearResult(f)
    BY <2>31, ConstantsAssumption, NoneNotFrame DEF ClearResult, TypeOK,
      Inv, LockInv, CallInv, ResultInv, OwnerInv, HandleInv, OutcomeInv
  <2>32. CASE Dealloc(f)
    BY <2>32, ConstantsAssumption, NoneNotFrame DEF Dealloc, TypeOK, Inv,
      LockInv, CallInv, ResultInv, OwnerInv, HandleInv, OutcomeInv
  <2> QED
    BY <1>1, <2>1, <2>2, <2>3, <2>4, <2>5, <2>6, <2>7, <2>8, <2>9, <2>10,
      <2>11, <2>12, <2>13, <2>14, <2>15, <2>16, <2>17, <2>18, <2>19, <2>20,
      <2>21, <2>22, <2>23, <2>24, <2>25, <2>26, <2>27, <2>28, <2>29, <2>30,
      <2>31, <2>32, <2>33, <2>34 DEF Start, Continue

(* What the lock, the reference counts and the test of open guarantee of   *)
(* every call in progress, in every behaviour of threads and callbacks,    *)
(* with a GIL or without one.                                              *)
THEOREM InvHolds == Spec => [](TypeOK /\ Inv)
<1>1. Init => TypeOK /\ Inv
  BY InitType, InitInv
<1>2. TypeOK /\ Inv /\ [Next]_vars => TypeOK' /\ Inv'
  BY StepType, StepInv
<1> QED
  BY <1>1, <1>2, PTL DEF Spec

(* Two frames inside the library would both hold the lock, and the         *)
(* constructor and the deallocator have no reference to call through.      *)
LEMMA ExclusiveByInv == TypeOK /\ Inv => NativeExclusive
  BY ConstantsAssumption, NoneNotFrame
  DEF TypeOK, Inv, LockInv, CallInv, ResultInv, OwnerInv, NativeExclusive,
      UsesUnderLock, UsesHandle

(* No two calls are in the client library at the same time, with a GIL or  *)
(* without one.                                                            *)
THEOREM Exclusive == Spec => []NativeExclusive
  BY InvHolds, ExclusiveByInv, PTL

(* A frame or a result object holds a reference, and the deallocator       *)
(* starts when there are none.                                             *)
LEMMA LastByInv == TypeOK /\ Inv => DeallocatedLast
  BY ConstantsAssumption, NoneNotFrame
  DEF TypeOK, Inv, LockInv, CallInv, ResultInv, OwnerInv, DeallocatedLast

(* The deallocator of a connection runs alone, after every call and every  *)
(* result object of it.                                                    *)
THEOREM Last == Spec => []DeallocatedLast
  BY InvHolds, LastByInv, PTL

-----------------------------------------------------------------------------
(* No lock is held in the initial state.                                   *)
LEMMA InitLeak == Init => LeakInv
  BY NoneNotFrame DEF Init, LeakInv

(* Every step that leaves a locked section unlocks.                        *)
LEMMA StepLeak ==
  ASSUME TypeOK, Inv, LeakInv, [Next]_vars
  PROVE  LeakInv'
<1>0. CASE UNCHANGED vars
  BY <1>0 DEF vars, LeakInv
<1> SUFFICES ASSUME NEW f \in Frames, Start(f) \/ Continue(f) \/ LockWait(f)
             PROVE  LeakInv'
  BY <1>0 DEF Next
<1>1. Start(f) \/ Continue(f) \/ LockWait(f)
  OBVIOUS
<1> QED
  <2>1. CASE Connect(f)
    BY <2>1, ConstantsAssumption, NoneNotFrame DEF Connect, TypeOK, Inv,
      LockInv, CallInv, ResultInv, OwnerInv, LeakInv
  <2>2. CASE Connected(f)
    BY <2>2, ConstantsAssumption, NoneNotFrame DEF Connected, TypeOK, Inv,
      LockInv, CallInv, ResultInv, OwnerInv, LeakInv
  <2>3. CASE ConnectFailed(f)
    BY <2>3, ConstantsAssumption, NoneNotFrame DEF ConnectFailed, TypeOK,
      Inv, LockInv, CallInv, ResultInv, OwnerInv, LeakInv
  <2>4. CASE \E c \in ConnectionCalls : CallConnection(f, c)
    BY <2>4, ConstantsAssumption, NoneNotFrame DEF CallConnection, TypeOK,
      Inv, LockInv, CallInv, ResultInv, OwnerInv, LeakInv
  <2>5. CASE \E c \in ResultCalls, r \in Results : CallResult(f, c, r)
    BY <2>5, ConstantsAssumption, NoneNotFrame DEF CallResult, TypeOK, Inv,
      LockInv, CallInv, ResultInv, OwnerInv, LeakInv
  <2>6. CASE \E r \in Results : DropResult(f, r)
    BY <2>6, ConstantsAssumption, NoneNotFrame DEF DropResult, TypeOK, Inv,
      LockInv, CallInv, ResultInv, OwnerInv, LeakInv
  <2>7. CASE Forget(f)
    BY <2>7, ConstantsAssumption, NoneNotFrame DEF Forget, TypeOK, Inv,
      LockInv, CallInv, ResultInv, OwnerInv, LeakInv
  <2>8. CASE Acquire(f)
    BY <2>8, ConstantsAssumption, NoneNotFrame DEF Acquire, TypeOK, Inv,
      LockInv, CallInv, ResultInv, OwnerInv, LeakInv
  <2>9. CASE Refuse(f)
    BY <2>9, ConstantsAssumption, NoneNotFrame DEF Refuse, TypeOK, Inv,
      LockInv, CallInv, ResultInv, OwnerInv, LeakInv
  <2>10. CASE CheckClosed(f)
    BY <2>10, ConstantsAssumption, NoneNotFrame DEF CheckClosed, TypeOK,
      Inv, LockInv, CallInv, ResultInv, OwnerInv, LeakInv
  <2>11. CASE CheckStore(f)
    BY <2>11, ConstantsAssumption, NoneNotFrame DEF CheckStore, TypeOK, Inv,
      LockInv, CallInv, ResultInv, OwnerInv, LeakInv
  <2>12. CASE CheckLiteral(f)
    BY <2>12, ConstantsAssumption, NoneNotFrame DEF CheckLiteral, TypeOK,
      Inv, LockInv, CallInv, ResultInv, OwnerInv, LeakInv
  <2>33. CASE CheckEscape(f)
    BY <2>33, ConstantsAssumption, NoneNotFrame DEF CheckEscape, TypeOK,
      Inv, LockInv, CallInv, ResultInv, OwnerInv, LeakInv
  <2>13. CASE CheckDescribe(f)
    BY <2>13, ConstantsAssumption, NoneNotFrame DEF CheckDescribe, TypeOK,
      Inv, LockInv, CallInv, ResultInv, OwnerInv, LeakInv
  <2>14. CASE CheckNative(f)
    BY <2>14, ConstantsAssumption, NoneNotFrame DEF CheckNative, TypeOK,
      Inv, LockInv, CallInv, ResultInv, OwnerInv, LeakInv
  <2>15. CASE AllocateFailed(f)
    BY <2>15, ConstantsAssumption, NoneNotFrame DEF AllocateFailed, TypeOK,
      Inv, LockInv, CallInv, ResultInv, OwnerInv, LeakInv
  <2>16. CASE \E r \in Results : Allocate(f, r)
    BY <2>16, ConstantsAssumption, NoneNotFrame DEF Allocate, TypeOK, Inv,
      LockInv, CallInv, ResultInv, OwnerInv, LeakInv
  <2>17. CASE LeaveNative(f)
    BY <2>17, ConstantsAssumption, NoneNotFrame DEF LeaveNative, TypeOK,
      Inv, LockInv, CallInv, ResultInv, OwnerInv, LeakInv
  <2>18. CASE Reacquire(f)
    BY <2>18, ConstantsAssumption, NoneNotFrame DEF Reacquire, TypeOK, Inv,
      LockInv, CallInv, ResultInv, OwnerInv, LeakInv
  <2>19. CASE Finish(f)
    BY <2>19, ConstantsAssumption, NoneNotFrame DEF Finish, TypeOK, Inv,
      LockInv, CallInv, ResultInv, OwnerInv, LeakInv
  <2>20. CASE FinishClose(f)
    BY <2>20, ConstantsAssumption, NoneNotFrame DEF FinishClose, TypeOK,
      Inv, LockInv, CallInv, ResultInv, OwnerInv, LeakInv
  <2>21. CASE FinishStore(f)
    BY <2>21, ConstantsAssumption, NoneNotFrame DEF FinishStore, TypeOK,
      Inv, LockInv, CallInv, ResultInv, OwnerInv, LeakInv
  <2>22. CASE ReadErrno(f)
    BY <2>22, ConstantsAssumption, NoneNotFrame DEF ReadErrno, TypeOK, Inv,
      LockInv, CallInv, ResultInv, OwnerInv, LeakInv
  <2>34. CASE ReadError(f)
    BY <2>34, ConstantsAssumption, NoneNotFrame DEF ReadError, TypeOK, Inv,
      LockInv, CallInv, ResultInv, OwnerInv, LeakInv
  <2>23. CASE ConvertRow(f)
    BY <2>23, ConstantsAssumption, NoneNotFrame DEF ConvertRow, TypeOK, Inv,
      LockInv, CallInv, ResultInv, OwnerInv, LeakInv
  <2>24. CASE NextRow(f)
    BY <2>24, ConstantsAssumption, NoneNotFrame DEF NextRow, TypeOK, Inv,
      LockInv, CallInv, ResultInv, OwnerInv, LeakInv
  <2>25. CASE EndFetch(f)
    BY <2>25, ConstantsAssumption, NoneNotFrame DEF EndFetch, TypeOK, Inv,
      LockInv, CallInv, ResultInv, OwnerInv, LeakInv
  <2>26. CASE Escape(f)
    BY <2>26, ConstantsAssumption, NoneNotFrame DEF Escape, TypeOK, Inv,
      LockInv, CallInv, ResultInv, OwnerInv, LeakInv
  <2>27. CASE EndLiteral(f)
    BY <2>27, ConstantsAssumption, NoneNotFrame DEF EndLiteral, TypeOK, Inv,
      LockInv, CallInv, ResultInv, OwnerInv, LeakInv
  <2>28. CASE LockWait(f)
    BY <2>28, ConstantsAssumption, NoneNotFrame DEF LockWait, TypeOK, Inv,
      LockInv, CallInv, ResultInv, OwnerInv, LeakInv
  <2>29. CASE EnterFree(f)
    BY <2>29, ConstantsAssumption, NoneNotFrame DEF EnterFree, TypeOK, Inv,
      LockInv, CallInv, ResultInv, OwnerInv, LeakInv
  <2>30. CASE FreeResult(f)
    BY <2>30, ConstantsAssumption, NoneNotFrame DEF FreeResult, TypeOK, Inv,
      LockInv, CallInv, ResultInv, OwnerInv, LeakInv
  <2>31. CASE ClearResult(f)
    BY <2>31, ConstantsAssumption, NoneNotFrame DEF ClearResult, TypeOK,
      Inv, LockInv, CallInv, ResultInv, OwnerInv, LeakInv
  <2>32. CASE Dealloc(f)
    BY <2>32, ConstantsAssumption, NoneNotFrame DEF Dealloc, TypeOK, Inv,
      LockInv, CallInv, ResultInv, OwnerInv, LeakInv
  <2> QED
    BY <1>1, <2>1, <2>2, <2>3, <2>4, <2>5, <2>6, <2>7, <2>8, <2>9, <2>10,
      <2>11, <2>12, <2>13, <2>14, <2>15, <2>16, <2>17, <2>18, <2>19, <2>20,
      <2>21, <2>22, <2>23, <2>24, <2>25, <2>26, <2>27, <2>28, <2>29, <2>30,
      <2>31, <2>32, <2>33, <2>34 DEF Start, Continue

(* When memory does not run out, the lock is held exactly by the calls in  *)
(* a locked section: no path out of a method leaves it taken.              *)
THEOREM NoLeak == ~NoMemory /\ Spec => []LockHeldInCall
<1>1. Init => TypeOK /\ Inv /\ LeakInv
  BY InitType, InitInv, InitLeak
<1>2. TypeOK /\ Inv /\ LeakInv /\ [Next]_vars => TypeOK' /\ Inv' /\ LeakInv'
  BY StepType, StepInv, StepLeak
<1>3. ~NoMemory /\ TypeOK /\ Inv /\ LeakInv => LockHeldInCall
  BY DEF Inv, LockInv, LeakInv, LockHeldInCall
<1> QED
  <2>1. CASE NoMemory
    BY <2>1
  <2>2. CASE ~NoMemory
    <3>1. TypeOK /\ Inv /\ LeakInv => LockHeldInCall
      BY <1>3, <2>2
    <3> QED
      BY <1>1, <1>2, <3>1, PTL DEF Spec
  <2> QED
    BY <2>1, <2>2

-----------------------------------------------------------------------------
(* Two frames that hold the GIL are one: they are of one thread, and of    *)
(* two frames of a thread the upper one is in a callback.                  *)
LEMMA GilSole ==
  ASSUME TypeOK, StackInv, GilInv, Gil,
         NEW f \in Frames, NEW g \in Frames, OnGil(f), OnGil(g)
  PROVE  f = g
<1>1. f[1] = g[1]
  BY DEF GilInv
<1>2. ~(f[2] < g[2])
  BY <1>1, FrameForm DEF StackInv, OnGil
<1>3. ~(g[2] < f[2])
  BY <1>1, FrameForm DEF StackInv, OnGil
<1> QED
  BY <1>1, <1>2, <1>3, FrameForm, ConstantsAssumption

(* Where Python code runs, all the frames above are in callbacks. *)
LEMMA AllAbove ==
  ASSUME TypeOK, StackInv, NEW f \in Frames, RunsPython(f)
  PROVE  \A d \in 1..Depth : d < f[2] => pc[<<f[1], d>>] = "callback"
<1>1. CASE f[2] = 1
  BY <1>1, FrameForm
<1>2. CASE f[2] > 1
  <2> DEFINE g == <<f[1], f[2] - 1>>
  <2>1. f[2] - 1 \in 1..Depth
    BY <1>2, FrameForm, ConstantsAssumption
  <2>2. g \in Frames /\ g[1] = f[1] /\ g[2] = f[2] - 1
    BY <2>1, FrameForm, FrameMade
  <2>3. pc[g] = "callback"
    BY <1>2
  <2>4. \A d \in 1..Depth : d < g[2] => pc[<<g[1], d>>] = "callback"
    BY <2>2, <2>3 DEF StackInv
  <2>5. \A d \in 1..Depth : d < f[2] => d < f[2] - 1 \/ d = f[2] - 1
    BY FrameForm, ConstantsAssumption
  <2> QED
    BY <2>2, <2>3, <2>4, <2>5
<1> QED
  BY <1>1, <1>2, FrameForm, ConstantsAssumption

(* Under an idle frame, or one whose callback is over, all are idle. *)
LEMMA NoneBelow ==
  ASSUME TypeOK, StackInv, NEW f \in Frames, pc[f] = "idle" \/ Returned(f),
         NEW g \in Frames, g[1] = f[1], f[2] < g[2]
  PROVE  pc[g] = "idle"
<1> SUFFICES ASSUME pc[g] # "idle" PROVE FALSE
  OBVIOUS
<1>1. \A d \in 1..Depth : d < g[2] => pc[<<f[1], d>>] = "callback"
  BY DEF StackInv
<1>2. Returned(f)
  BY <1>1, FrameForm
<1>3. f[2] + 1 \in 1..Depth /\ f[2] < Depth /\ f[2] + 1 <= g[2]
  BY FrameForm, ConstantsAssumption
<1>4. pc[<<f[1], f[2] + 1>>] = "idle"
  BY <1>2, <1>3 DEF Returned
<1>5. CASE f[2] + 1 = g[2]
  BY <1>4, <1>5, FrameForm
<1>6. CASE f[2] + 1 < g[2]
  BY <1>1, <1>3, <1>4, <1>6
<1> QED
  BY <1>3, <1>5, <1>6, FrameForm, ConstantsAssumption

(* A call that begins keeps the stack. *)
LEMMA StackBegin ==
  ASSUME TypeOK, StackInv, NEW f \in Frames, NEW l \in Locations,
         RunsPython(f), pc' = [pc EXCEPT ![f] = l]
  PROVE  StackInv'
<1> SUFFICES ASSUME NEW g \in Frames, pc'[g] # "idle",
                    NEW d \in 1..Depth, d < g[2]
             PROVE  pc'[<<g[1], d>>] = "callback"
  BY DEF StackInv
<1>1. /\ <<g[1], d>> \in Frames
      /\ <<g[1], d>>[1] = g[1] /\ <<g[1], d>>[2] = d
  BY FrameForm, FrameMade
<1>2. CASE g = f
  BY <1>1, <1>2, AllAbove, FrameForm, ConstantsAssumption DEF TypeOK
<1>3. CASE g # f
  <2>1. pc[g] # "idle" /\ pc[<<g[1], d>>] = "callback"
    BY <1>3 DEF TypeOK, StackInv
  <2>2. <<g[1], d>> # f
    BY <2>1
  <2> QED
    BY <1>1, <2>1, <2>2 DEF TypeOK
<1> QED
  BY <1>2, <1>3

(* A frame whose callback is over leaves nobody behind below it. *)
LEMMA StackReturn ==
  ASSUME TypeOK, StackInv, NEW f \in Frames, NEW l \in Locations,
         pc[f] # "idle", Returned(f), pc' = [pc EXCEPT ![f] = l]
  PROVE  StackInv'
<1> SUFFICES ASSUME NEW g \in Frames, pc'[g] # "idle",
                    NEW d \in 1..Depth, d < g[2]
             PROVE  pc'[<<g[1], d>>] = "callback"
  BY DEF StackInv
<1>1. /\ <<g[1], d>> \in Frames
      /\ <<g[1], d>>[1] = g[1] /\ <<g[1], d>>[2] = d
  BY FrameForm, FrameMade
<1>2. pc[g] # "idle"
  BY DEF TypeOK
<1>3. pc[<<g[1], d>>] = "callback"
  BY <1>2 DEF StackInv
<1>4. <<g[1], d>> # f
  BY <1>1, <1>2, NoneBelow
<1> QED
  BY <1>1, <1>3, <1>4 DEF TypeOK

(* Calls nest: every step keeps the frames above a running one in their    *)
(* callbacks.                                                              *)
LEMMA StepStack ==
  ASSUME TypeOK, Inv, StackInv, [Next]_vars
  PROVE  StackInv'
<1>0. CASE UNCHANGED vars
  BY <1>0 DEF vars, StackInv
<1> SUFFICES ASSUME NEW f \in Frames, Start(f) \/ Continue(f) \/ LockWait(f)
             PROVE  StackInv'
  BY <1>0 DEF Next
<1>1. Start(f) \/ Continue(f) \/ LockWait(f)
  OBVIOUS
<1> QED
  <2>1. CASE Connect(f)
    BY <2>1, StackBegin DEF Connect, StackInv
  <2>2. CASE Connected(f)
    BY <2>2, FrameForm, FrameMade DEF Connected, TypeOK, StackInv
  <2>3. CASE ConnectFailed(f)
    BY <2>3, FrameForm, FrameMade DEF ConnectFailed, TypeOK, StackInv
  <2>4. CASE \E c \in ConnectionCalls : CallConnection(f, c)
    BY <2>4, StackBegin DEF CallConnection, StackInv
  <2>5. CASE \E c \in ResultCalls, r \in Results : CallResult(f, c, r)
    BY <2>5, StackBegin DEF CallResult, StackInv
  <2>6. CASE \E r \in Results : DropResult(f, r)
    BY <2>6, StackBegin DEF DropResult, StackInv
  <2>7. CASE Forget(f)
    BY <2>7, StackBegin DEF Forget, StackInv
  <2>8. CASE Acquire(f)
    BY <2>8, FrameForm, FrameMade DEF Acquire, TypeOK, StackInv
  <2>9. CASE Refuse(f)
    BY <2>9, FrameForm, FrameMade DEF Refuse, TypeOK, StackInv
  <2>10. CASE CheckClosed(f)
    BY <2>10, FrameForm, FrameMade DEF CheckClosed, TypeOK, StackInv
  <2>11. CASE CheckStore(f)
    BY <2>11, FrameForm, FrameMade DEF CheckStore, TypeOK, StackInv
  <2>12. CASE CheckLiteral(f)
    BY <2>12, FrameForm, FrameMade DEF CheckLiteral, TypeOK, StackInv
  <2>33. CASE CheckEscape(f)
    BY <2>33, FrameForm, FrameMade DEF CheckEscape, TypeOK, StackInv
  <2>13. CASE CheckDescribe(f)
    BY <2>13, FrameForm, FrameMade DEF CheckDescribe, TypeOK, StackInv
  <2>14. CASE CheckNative(f)
    BY <2>14, FrameForm, FrameMade DEF CheckNative, TypeOK, StackInv
  <2>15. CASE AllocateFailed(f)
    BY <2>15, FrameForm, FrameMade DEF AllocateFailed, TypeOK, StackInv
  <2>16. CASE \E r \in Results : Allocate(f, r)
    BY <2>16, FrameForm, FrameMade DEF Allocate, TypeOK, StackInv
  <2>17. CASE LeaveNative(f)
    BY <2>17, FrameForm, FrameMade DEF LeaveNative, TypeOK, StackInv
  <2>18. CASE Reacquire(f)
    BY <2>18, FrameForm, FrameMade DEF Reacquire, TypeOK, StackInv
  <2>19. CASE Finish(f)
    BY <2>19, FrameForm, FrameMade DEF Finish, TypeOK, StackInv
  <2>20. CASE FinishClose(f)
    BY <2>20, FrameForm, FrameMade DEF FinishClose, TypeOK, StackInv
  <2>21. CASE FinishStore(f)
    BY <2>21, FrameForm, FrameMade DEF FinishStore, TypeOK, StackInv
  <2>22. CASE ReadErrno(f)
    BY <2>22, FrameForm, FrameMade DEF ReadErrno, TypeOK, StackInv
  <2>34. CASE ReadError(f)
    BY <2>34, FrameForm, FrameMade DEF ReadError, TypeOK, StackInv
  <2>23. CASE ConvertRow(f)
    BY <2>23, FrameForm, FrameMade DEF ConvertRow, TypeOK, StackInv
  <2>24. CASE NextRow(f)
    BY <2>24, StackReturn DEF NextRow, StackInv
  <2>25. CASE EndFetch(f)
    BY <2>25, StackReturn DEF EndFetch, StackInv
  <2>26. CASE Escape(f)
    BY <2>26, StackReturn DEF Escape, StackInv
  <2>27. CASE EndLiteral(f)
    BY <2>27, StackReturn DEF EndLiteral, StackInv
  <2>28. CASE LockWait(f)
    BY <2>28, FrameForm, FrameMade DEF LockWait, TypeOK, StackInv
  <2>29. CASE EnterFree(f)
    BY <2>29, FrameForm, FrameMade DEF EnterFree, TypeOK, StackInv
  <2>30. CASE FreeResult(f)
    BY <2>30, FrameForm, FrameMade DEF FreeResult, TypeOK, StackInv
  <2>31. CASE ClearResult(f)
    BY <2>31, FrameForm, FrameMade DEF ClearResult, TypeOK, StackInv
  <2>32. CASE Dealloc(f)
    BY <2>32, FrameForm, FrameMade DEF Dealloc, TypeOK, StackInv
  <2> QED
    BY <1>1, <2>1, <2>2, <2>3, <2>4, <2>5, <2>6, <2>7, <2>8, <2>9, <2>10,
      <2>11, <2>12, <2>13, <2>14, <2>15, <2>16, <2>17, <2>18, <2>19, <2>20,
      <2>21, <2>22, <2>23, <2>24, <2>25, <2>26, <2>27, <2>28, <2>29, <2>30,
      <2>31, <2>32, <2>33, <2>34 DEF Start, Continue

USE DEF HasGil, CanTakeGil

(* Every step that goes on in C code has the GIL.                          *)
LEMMA StepGil ==
  ASSUME TypeOK, Inv, StackInv, GilInv, [Next]_vars
  PROVE  GilInv'
<1>0. CASE UNCHANGED vars
  BY <1>0 DEF vars, GilInv, OnGil
<1> SUFFICES ASSUME NEW f \in Frames, Start(f) \/ Continue(f) \/ LockWait(f)
             PROVE  GilInv'
  BY <1>0 DEF Next
<1>1. Start(f) \/ Continue(f) \/ LockWait(f)
  OBVIOUS
<1> QED
  <2>1. CASE Connect(f)
    BY <2>1, ConstantsAssumption, NoneNotFrame, GilSole DEF Connect, TypeOK,
      Inv, LockInv, CallInv, ResultInv, OwnerInv, HandleInv, OutcomeInv,
      GilInv, OnGil
  <2>2. CASE Connected(f)
    BY <2>2, ConstantsAssumption, NoneNotFrame, GilSole DEF Connected,
      TypeOK, Inv, LockInv, CallInv, ResultInv, OwnerInv, HandleInv,
      OutcomeInv, GilInv, OnGil
  <2>3. CASE ConnectFailed(f)
    BY <2>3, ConstantsAssumption, NoneNotFrame, GilSole DEF ConnectFailed,
      TypeOK, Inv, LockInv, CallInv, ResultInv, OwnerInv, HandleInv,
      OutcomeInv, GilInv, OnGil
  <2>4. CASE \E c \in ConnectionCalls : CallConnection(f, c)
    BY <2>4, ConstantsAssumption, FrameForm DEF CallConnection, TypeOK,
      GilInv, OnGil
  <2>5. CASE \E c \in ResultCalls, r \in Results : CallResult(f, c, r)
    BY <2>5, ConstantsAssumption, FrameForm DEF CallResult, TypeOK, GilInv,
      OnGil
  <2>6. CASE \E r \in Results : DropResult(f, r)
    BY <2>6, ConstantsAssumption, NoneNotFrame, GilSole DEF DropResult,
      TypeOK, Inv, LockInv, CallInv, ResultInv, OwnerInv, HandleInv,
      OutcomeInv, GilInv, OnGil
  <2>7. CASE Forget(f)
    BY <2>7, ConstantsAssumption, NoneNotFrame, GilSole DEF Forget, TypeOK,
      Inv, LockInv, CallInv, ResultInv, OwnerInv, HandleInv, OutcomeInv,
      GilInv, OnGil
  <2>8. CASE Acquire(f)
    BY <2>8, ConstantsAssumption, NoneNotFrame, GilSole DEF Acquire, TypeOK,
      Inv, LockInv, CallInv, ResultInv, OwnerInv, HandleInv, OutcomeInv,
      GilInv, OnGil
  <2>9. CASE Refuse(f)
    BY <2>9, ConstantsAssumption, NoneNotFrame, GilSole DEF Refuse, TypeOK,
      Inv, LockInv, CallInv, ResultInv, OwnerInv, HandleInv, OutcomeInv,
      GilInv, OnGil
  <2>10. CASE CheckClosed(f)
    BY <2>10, ConstantsAssumption, NoneNotFrame, GilSole DEF CheckClosed,
      TypeOK, Inv, LockInv, CallInv, ResultInv, OwnerInv, HandleInv,
      OutcomeInv, GilInv, OnGil
  <2>11. CASE CheckStore(f)
    BY <2>11, ConstantsAssumption, NoneNotFrame, GilSole DEF CheckStore,
      TypeOK, Inv, LockInv, CallInv, ResultInv, OwnerInv, HandleInv,
      OutcomeInv, GilInv, OnGil
  <2>12. CASE CheckLiteral(f)
    BY <2>12, ConstantsAssumption, NoneNotFrame, GilSole DEF CheckLiteral,
      TypeOK, Inv, LockInv, CallInv, ResultInv, OwnerInv, HandleInv,
      OutcomeInv, GilInv, OnGil
  <2>33. CASE CheckEscape(f)
    BY <2>33, ConstantsAssumption, NoneNotFrame, GilSole DEF CheckEscape,
      TypeOK, Inv, LockInv, CallInv, ResultInv, OwnerInv, HandleInv,
      OutcomeInv, GilInv, OnGil
  <2>13. CASE CheckDescribe(f)
    BY <2>13, ConstantsAssumption, NoneNotFrame, GilSole DEF CheckDescribe,
      TypeOK, Inv, LockInv, CallInv, ResultInv, OwnerInv, HandleInv,
      OutcomeInv, GilInv, OnGil
  <2>14. CASE CheckNative(f)
    BY <2>14, ConstantsAssumption, NoneNotFrame, GilSole DEF CheckNative,
      TypeOK, Inv, LockInv, CallInv, ResultInv, OwnerInv, HandleInv,
      OutcomeInv, GilInv, OnGil
  <2>15. CASE AllocateFailed(f)
    BY <2>15, ConstantsAssumption, NoneNotFrame, GilSole DEF AllocateFailed,
      TypeOK, Inv, LockInv, CallInv, ResultInv, OwnerInv, HandleInv,
      OutcomeInv, GilInv, OnGil
  <2>16. CASE \E r \in Results : Allocate(f, r)
    BY <2>16, ConstantsAssumption, NoneNotFrame, GilSole DEF Allocate,
      TypeOK, Inv, LockInv, CallInv, ResultInv, OwnerInv, HandleInv,
      OutcomeInv, GilInv, OnGil
  <2>17. CASE LeaveNative(f)
    BY <2>17, ConstantsAssumption, NoneNotFrame, GilSole DEF LeaveNative,
      TypeOK, Inv, LockInv, CallInv, ResultInv, OwnerInv, HandleInv,
      OutcomeInv, GilInv, OnGil
  <2>18. CASE Reacquire(f)
    BY <2>18, ConstantsAssumption, FrameForm DEF Reacquire, TypeOK, GilInv,
      OnGil
  <2>19. CASE Finish(f)
    BY <2>19, ConstantsAssumption, NoneNotFrame, GilSole DEF Finish, TypeOK,
      Inv, LockInv, CallInv, ResultInv, OwnerInv, HandleInv, OutcomeInv,
      GilInv, OnGil
  <2>20. CASE FinishClose(f)
    BY <2>20, ConstantsAssumption, NoneNotFrame, GilSole DEF FinishClose,
      TypeOK, Inv, LockInv, CallInv, ResultInv, OwnerInv, HandleInv,
      OutcomeInv, GilInv, OnGil
  <2>21. CASE FinishStore(f)
    BY <2>21, ConstantsAssumption, NoneNotFrame, GilSole DEF FinishStore,
      TypeOK, Inv, LockInv, CallInv, ResultInv, OwnerInv, HandleInv,
      OutcomeInv, GilInv, OnGil
  <2>22. CASE ReadErrno(f)
    BY <2>22, ConstantsAssumption, NoneNotFrame, GilSole DEF ReadErrno,
      TypeOK, Inv, LockInv, CallInv, ResultInv, OwnerInv, HandleInv,
      OutcomeInv, GilInv, OnGil
  <2>34. CASE ReadError(f)
    BY <2>34, ConstantsAssumption, NoneNotFrame, GilSole DEF ReadError,
      TypeOK, Inv, LockInv, CallInv, ResultInv, OwnerInv, HandleInv,
      OutcomeInv, GilInv, OnGil
  <2>23. CASE ConvertRow(f)
    BY <2>23, ConstantsAssumption, NoneNotFrame, GilSole DEF ConvertRow,
      TypeOK, Inv, LockInv, CallInv, ResultInv, OwnerInv, HandleInv,
      OutcomeInv, GilInv, OnGil
  <2>24. CASE NextRow(f)
    BY <2>24, ConstantsAssumption, FrameForm DEF NextRow, TypeOK, GilInv,
      OnGil
  <2>25. CASE EndFetch(f)
    BY <2>25, ConstantsAssumption, NoneNotFrame, GilSole DEF EndFetch,
      TypeOK, Inv, LockInv, CallInv, ResultInv, OwnerInv, HandleInv,
      OutcomeInv, GilInv, OnGil
  <2>26. CASE Escape(f)
    BY <2>26, ConstantsAssumption, FrameForm DEF Escape, TypeOK, GilInv,
      OnGil
  <2>27. CASE EndLiteral(f)
    BY <2>27, ConstantsAssumption, NoneNotFrame, GilSole DEF EndLiteral,
      TypeOK, Inv, LockInv, CallInv, ResultInv, OwnerInv, HandleInv,
      OutcomeInv, GilInv, OnGil
  <2>28. CASE LockWait(f)
    BY <2>28, ConstantsAssumption, NoneNotFrame, GilSole DEF LockWait,
      TypeOK, Inv, LockInv, CallInv, ResultInv, OwnerInv, HandleInv,
      OutcomeInv, GilInv, OnGil
  <2>29. CASE EnterFree(f)
    BY <2>29, ConstantsAssumption, FrameForm DEF EnterFree, TypeOK, GilInv,
      OnGil
  <2>30. CASE FreeResult(f)
    BY <2>30, ConstantsAssumption, NoneNotFrame, GilSole DEF FreeResult,
      TypeOK, Inv, LockInv, CallInv, ResultInv, OwnerInv, HandleInv,
      OutcomeInv, GilInv, OnGil
  <2>31. CASE ClearResult(f)
    BY <2>31, ConstantsAssumption, NoneNotFrame, GilSole DEF ClearResult,
      TypeOK, Inv, LockInv, CallInv, ResultInv, OwnerInv, HandleInv,
      OutcomeInv, GilInv, OnGil
  <2>32. CASE Dealloc(f)
    BY <2>32, ConstantsAssumption, NoneNotFrame, GilSole DEF Dealloc,
      TypeOK, Inv, LockInv, CallInv, ResultInv, OwnerInv, HandleInv,
      OutcomeInv, GilInv, OnGil
  <2> QED
    BY <1>1, <2>1, <2>2, <2>3, <2>4, <2>5, <2>6, <2>7, <2>8, <2>9, <2>10,
      <2>11, <2>12, <2>13, <2>14, <2>15, <2>16, <2>17, <2>18, <2>19, <2>20,
      <2>21, <2>22, <2>23, <2>24, <2>25, <2>26, <2>27, <2>28, <2>29, <2>30,
      <2>31, <2>32, <2>33, <2>34 DEF Start, Continue

(* Who has unlocked keeps the GIL until it has read mysql_errno, or        *)
(* mysql_error of a closed connection.                                     *)
LEMMA StepErrno ==
  ASSUME TypeOK, Inv, StackInv, GilInv, ErrnoInv, [Next]_vars
  PROVE  ErrnoInv'
<1>0. CASE UNCHANGED vars
  BY <1>0 DEF vars, ErrnoInv
<1> SUFFICES ASSUME NEW f \in Frames, Start(f) \/ Continue(f) \/ LockWait(f)
             PROVE  ErrnoInv'
  BY <1>0 DEF Next
<1>1. Start(f) \/ Continue(f) \/ LockWait(f)
  OBVIOUS
<1> QED
  <2>1. CASE Connect(f)
    BY <2>1, ConstantsAssumption, NoneNotFrame, GilSole DEF Connect, TypeOK,
      Inv, LockInv, CallInv, ResultInv, OwnerInv, HandleInv, OutcomeInv,
      GilInv, OnGil, ErrnoInv
  <2>2. CASE Connected(f)
    BY <2>2, ConstantsAssumption, NoneNotFrame, GilSole DEF Connected,
      TypeOK, Inv, LockInv, CallInv, ResultInv, OwnerInv, HandleInv,
      OutcomeInv, GilInv, OnGil, ErrnoInv
  <2>3. CASE ConnectFailed(f)
    BY <2>3, ConstantsAssumption, NoneNotFrame, GilSole DEF ConnectFailed,
      TypeOK, Inv, LockInv, CallInv, ResultInv, OwnerInv, HandleInv,
      OutcomeInv, GilInv, OnGil, ErrnoInv
  <2>4. CASE \E c \in ConnectionCalls : CallConnection(f, c)
    BY <2>4, ConstantsAssumption, NoneNotFrame, GilSole DEF CallConnection,
      TypeOK, Inv, LockInv, CallInv, ResultInv, OwnerInv, HandleInv,
      OutcomeInv, GilInv, OnGil, ErrnoInv
  <2>5. CASE \E c \in ResultCalls, r \in Results : CallResult(f, c, r)
    BY <2>5, ConstantsAssumption, NoneNotFrame, GilSole DEF CallResult,
      TypeOK, Inv, LockInv, CallInv, ResultInv, OwnerInv, HandleInv,
      OutcomeInv, GilInv, OnGil, ErrnoInv
  <2>6. CASE \E r \in Results : DropResult(f, r)
    BY <2>6, ConstantsAssumption, NoneNotFrame, GilSole DEF DropResult,
      TypeOK, Inv, LockInv, CallInv, ResultInv, OwnerInv, HandleInv,
      OutcomeInv, GilInv, OnGil, ErrnoInv
  <2>7. CASE Forget(f)
    BY <2>7, ConstantsAssumption, NoneNotFrame, GilSole DEF Forget, TypeOK,
      Inv, LockInv, CallInv, ResultInv, OwnerInv, HandleInv, OutcomeInv,
      GilInv, OnGil, ErrnoInv
  <2>8. CASE Acquire(f)
    BY <2>8, ConstantsAssumption, NoneNotFrame, GilSole DEF Acquire, TypeOK,
      Inv, LockInv, CallInv, ResultInv, OwnerInv, HandleInv, OutcomeInv,
      GilInv, OnGil, ErrnoInv
  <2>9. CASE Refuse(f)
    BY <2>9, ConstantsAssumption, NoneNotFrame, GilSole DEF Refuse, TypeOK,
      Inv, LockInv, CallInv, ResultInv, OwnerInv, HandleInv, OutcomeInv,
      GilInv, OnGil, ErrnoInv
  <2>10. CASE CheckClosed(f)
    BY <2>10, ConstantsAssumption, NoneNotFrame, GilSole DEF CheckClosed,
      TypeOK, Inv, LockInv, CallInv, ResultInv, OwnerInv, HandleInv,
      OutcomeInv, GilInv, OnGil, ErrnoInv
  <2>11. CASE CheckStore(f)
    BY <2>11, ConstantsAssumption, NoneNotFrame, GilSole DEF CheckStore,
      TypeOK, Inv, LockInv, CallInv, ResultInv, OwnerInv, HandleInv,
      OutcomeInv, GilInv, OnGil, ErrnoInv
  <2>12. CASE CheckLiteral(f)
    BY <2>12, ConstantsAssumption, NoneNotFrame, GilSole DEF CheckLiteral,
      TypeOK, Inv, LockInv, CallInv, ResultInv, OwnerInv, HandleInv,
      OutcomeInv, GilInv, OnGil, ErrnoInv
  <2>33. CASE CheckEscape(f)
    BY <2>33, ConstantsAssumption, NoneNotFrame, GilSole DEF CheckEscape,
      TypeOK, Inv, LockInv, CallInv, ResultInv, OwnerInv, HandleInv,
      OutcomeInv, GilInv, OnGil, ErrnoInv
  <2>13. CASE CheckDescribe(f)
    BY <2>13, ConstantsAssumption, NoneNotFrame, GilSole DEF CheckDescribe,
      TypeOK, Inv, LockInv, CallInv, ResultInv, OwnerInv, HandleInv,
      OutcomeInv, GilInv, OnGil, ErrnoInv
  <2>14. CASE CheckNative(f)
    BY <2>14, ConstantsAssumption, NoneNotFrame, GilSole DEF CheckNative,
      TypeOK, Inv, LockInv, CallInv, ResultInv, OwnerInv, HandleInv,
      OutcomeInv, GilInv, OnGil, ErrnoInv
  <2>15. CASE AllocateFailed(f)
    BY <2>15, ConstantsAssumption, NoneNotFrame, GilSole DEF AllocateFailed,
      TypeOK, Inv, LockInv, CallInv, ResultInv, OwnerInv, HandleInv,
      OutcomeInv, GilInv, OnGil, ErrnoInv
  <2>16. CASE \E r \in Results : Allocate(f, r)
    BY <2>16, ConstantsAssumption, NoneNotFrame, GilSole DEF Allocate,
      TypeOK, Inv, LockInv, CallInv, ResultInv, OwnerInv, HandleInv,
      OutcomeInv, GilInv, OnGil, ErrnoInv
  <2>17. CASE LeaveNative(f)
    BY <2>17, ConstantsAssumption, NoneNotFrame, GilSole DEF LeaveNative,
      TypeOK, Inv, LockInv, CallInv, ResultInv, OwnerInv, HandleInv,
      OutcomeInv, GilInv, OnGil, ErrnoInv
  <2>18. CASE Reacquire(f)
    BY <2>18, ConstantsAssumption, NoneNotFrame, GilSole DEF Reacquire,
      TypeOK, Inv, LockInv, CallInv, ResultInv, OwnerInv, HandleInv,
      OutcomeInv, GilInv, OnGil, ErrnoInv
  <2>19. CASE Finish(f)
    BY <2>19, ConstantsAssumption, NoneNotFrame, GilSole DEF Finish, TypeOK,
      Inv, LockInv, CallInv, ResultInv, OwnerInv, HandleInv, OutcomeInv,
      GilInv, OnGil, ErrnoInv
  <2>20. CASE FinishClose(f)
    BY <2>20, ConstantsAssumption, NoneNotFrame, GilSole DEF FinishClose,
      TypeOK, Inv, LockInv, CallInv, ResultInv, OwnerInv, HandleInv,
      OutcomeInv, GilInv, OnGil, ErrnoInv
  <2>21. CASE FinishStore(f)
    BY <2>21, ConstantsAssumption, NoneNotFrame, GilSole DEF FinishStore,
      TypeOK, Inv, LockInv, CallInv, ResultInv, OwnerInv, HandleInv,
      OutcomeInv, GilInv, OnGil, ErrnoInv
  <2>22. CASE ReadErrno(f)
    BY <2>22, ConstantsAssumption, NoneNotFrame, GilSole DEF ReadErrno,
      TypeOK, Inv, LockInv, CallInv, ResultInv, OwnerInv, HandleInv,
      OutcomeInv, GilInv, OnGil, ErrnoInv
  <2>34. CASE ReadError(f)
    BY <2>34, ConstantsAssumption, NoneNotFrame, GilSole DEF ReadError,
      TypeOK, Inv, LockInv, CallInv, ResultInv, OwnerInv, HandleInv,
      OutcomeInv, GilInv, OnGil, ErrnoInv
  <2>23. CASE ConvertRow(f)
    BY <2>23, ConstantsAssumption, NoneNotFrame, GilSole DEF ConvertRow,
      TypeOK, Inv, LockInv, CallInv, ResultInv, OwnerInv, HandleInv,
      OutcomeInv, GilInv, OnGil, ErrnoInv
  <2>24. CASE NextRow(f)
    BY <2>24, ConstantsAssumption, NoneNotFrame, GilSole DEF NextRow,
      TypeOK, Inv, LockInv, CallInv, ResultInv, OwnerInv, HandleInv,
      OutcomeInv, GilInv, OnGil, ErrnoInv
  <2>25. CASE EndFetch(f)
    BY <2>25, ConstantsAssumption, NoneNotFrame, GilSole DEF EndFetch,
      TypeOK, Inv, LockInv, CallInv, ResultInv, OwnerInv, HandleInv,
      OutcomeInv, GilInv, OnGil, ErrnoInv
  <2>26. CASE Escape(f)
    BY <2>26, ConstantsAssumption, NoneNotFrame, GilSole DEF Escape, TypeOK,
      Inv, LockInv, CallInv, ResultInv, OwnerInv, HandleInv, OutcomeInv,
      GilInv, OnGil, ErrnoInv
  <2>27. CASE EndLiteral(f)
    BY <2>27, ConstantsAssumption, NoneNotFrame, GilSole DEF EndLiteral,
      TypeOK, Inv, LockInv, CallInv, ResultInv, OwnerInv, HandleInv,
      OutcomeInv, GilInv, OnGil, ErrnoInv
  <2>28. CASE LockWait(f)
    BY <2>28, ConstantsAssumption, NoneNotFrame, GilSole DEF LockWait,
      TypeOK, Inv, LockInv, CallInv, ResultInv, OwnerInv, HandleInv,
      OutcomeInv, GilInv, OnGil, ErrnoInv
  <2>29. CASE EnterFree(f)
    BY <2>29, ConstantsAssumption, FrameForm, NoneNotFrame, GilSole DEF
      EnterFree, TypeOK, Inv, LockInv, CallInv, ResultInv, OwnerInv,
      HandleInv, OutcomeInv, GilInv, OnGil, ErrnoInv
  <2>30. CASE FreeResult(f)
    BY <2>30, ConstantsAssumption, NoneNotFrame, GilSole DEF FreeResult,
      TypeOK, Inv, LockInv, CallInv, ResultInv, OwnerInv, HandleInv,
      OutcomeInv, GilInv, OnGil, ErrnoInv
  <2>31. CASE ClearResult(f)
    BY <2>31, ConstantsAssumption, NoneNotFrame, GilSole DEF ClearResult,
      TypeOK, Inv, LockInv, CallInv, ResultInv, OwnerInv, HandleInv,
      OutcomeInv, GilInv, OnGil, ErrnoInv
  <2>32. CASE Dealloc(f)
    BY <2>32, ConstantsAssumption, NoneNotFrame, GilSole DEF Dealloc,
      TypeOK, Inv, LockInv, CallInv, ResultInv, OwnerInv, HandleInv,
      OutcomeInv, GilInv, OnGil, ErrnoInv
  <2> QED
    BY <1>1, <2>1, <2>2, <2>3, <2>4, <2>5, <2>6, <2>7, <2>8, <2>9, <2>10,
      <2>11, <2>12, <2>13, <2>14, <2>15, <2>16, <2>17, <2>18, <2>19, <2>20,
      <2>21, <2>22, <2>23, <2>24, <2>25, <2>26, <2>27, <2>28, <2>29, <2>30,
      <2>31, <2>32, <2>33, <2>34 DEF Start, Continue

GilSafe == TypeOK /\ Inv /\ StackInv /\ GilInv /\ ErrnoInv

(* With a GIL, the calls nest, C code has the GIL and nobody gets between  *)
(* an unlock and the reading of errno or of the error's text after it.     *)
THEOREM GilSafeHolds == Spec => []GilSafe
<1>1. Init => GilSafe
  <2>1. Init => StackInv /\ GilInv /\ ErrnoInv
    BY DEF Init, StackInv, GilInv, OnGil, ErrnoInv
  <2> QED
    BY <2>1, InitType, InitInv DEF GilSafe
<1>2. GilSafe /\ [Next]_vars => GilSafe'
  BY StepType, StepInv, StepStack, StepGil, StepErrno DEF GilSafe
<1> QED
  BY <1>1, <1>2, PTL DEF Spec

(* Two users of the handle would both hold the GIL or the lock.            *)
LEMMA HandleByGil == GilSafe => HandleExclusive
<1> SUFFICES ASSUME GilSafe, Gil, NEW f \in Frames, NEW g \in Frames,
                    UsesHandle(f), UsesHandle(g)
             PROVE  f = g
  BY DEF HandleExclusive
<1> USE DEF GilSafe
<1>1. CASE ~ReadsUnlocked(f) /\ ~ReadsUnlocked(g)
  BY <1>1, ExclusiveByInv DEF NativeExclusive, UsesHandle
<1>2. CASE ReadsUnlocked(f) /\ ReadsUnlocked(g)
  BY <1>2, GilSole DEF OnGil
<1>3. ASSUME NEW h \in Frames, NEW k \in Frames, ReadsUnlocked(h), UsesHandle(k)
      PROVE  ReadsUnlocked(k)
  BY <1>3, NoneNotFrame, ConstantsAssumption
  DEF UsesHandle, UsesUnderLock, ErrnoInv, Inv, CallInv, ResultInv, OwnerInv, TypeOK
<1> QED
  BY <1>1, <1>2, <1>3

(* With a GIL nothing touches the handle while another call does, the      *)
(* readings of errno and of the error's text after the unlock included.    *)
THEOREM HandleSafe == Spec => []HandleExclusive
  BY GilSafeHolds, HandleByGil, PTL

(* The outcome is read before anybody else gets at the handle.             *)
LEMMA OutcomeByGil == GilSafe => ReadsOwnOutcome
  BY DEF GilSafe, Inv, OutcomeInv, ErrnoInv, ReadsOwnOutcome

(* Every call looks at the outcome of its own use of the client library.   *)
THEOREM OwnOutcome == Spec => []ReadsOwnOutcome
  BY GilSafeHolds, OutcomeByGil, PTL

(* Who saw open still relies on it when the handle is up.                  *)
LEMMA UpByGil == GilSafe => OpenMeansUp
  BY DEF GilSafe, Inv, HandleInv, ErrnoInv, OpenMeansUp, WorksOnOpen

(* The test of open that starts a method holds as long as the method       *)
(* relies on it, through callbacks and while other threads run.            *)
THEOREM OpenStaysOpen == Spec => []OpenMeansUp
  BY GilSafeHolds, UpByGil, PTL
-----------------------------------------------------------------------------
HIDE DEF Locked, ConnectionCalls, ResultCalls, AllCalls, Locations, Goto,
         Return, Begin, Discarding, MayCall, RunsPython, Checked, CallbackOf,
         ReleasesGil, TakeGil, DropGil, Unlock, ReadsUnlocked, HasGil,
         CanTakeGil

(* A call that waits to read mysql_errno has no result set. *)
ErrnoLocalInv == \A f \in Frames : pc[f] = "errno" => local[f] = 0

ProtocolSafe == Gil /\ GilSafe /\ ErrnoLocalInv

-----------------------------------------------------------------------------
(* There is one user of the library, the one that LibraryUser chooses.     *)
Sole == Gil =>
  \A f \in Frames : InLibrary(f) => LibraryUser = f /\ LibraryDoing = Doing(f)

LEMMA UserIs == GilSafe => Sole
<1> SUFFICES ASSUME GilSafe, Gil, NEW f \in Frames, InLibrary(f)
             PROVE  LibraryUser = f /\ LibraryDoing = Doing(f)
  BY DEF Sole
<1>1. HandleExclusive
  BY HandleByGil
<1>2. \A g \in Frames : InLibrary(g) => g = f
  BY <1>1 DEF HandleExclusive, InLibrary
<1>3. LibraryUser = f
  BY <1>2 DEF LibraryUser
<1> QED
  BY <1>3, NoneNotFrame DEF LibraryDoing

NobodyIn == \A f \in Frames : ~InLibrary(f)

LEMMA NobodyIs == NobodyIn => LibraryUser = None /\ LibraryDoing = "nothing"
  BY DEF NobodyIn, LibraryUser, LibraryDoing

(* The frames other than f do what they did. *)
OthersStay(f) ==
  \A g \in Frames \ {f} :
    pc'[g] = pc[g] /\ call'[g] = call[g] /\ arg'[g] = arg[g] /\ local'[g] = local[g]

LEMMA OthersStayOut ==
  ASSUME NEW f \in Frames, OthersStay(f), NEW g \in Frames, g # f
  PROVE  /\ InLibrary(g)' <=> InLibrary(g)
         /\ Doing(g)' = Doing(g)
         /\ FreesSet(g)' <=> FreesSet(g)
         /\ arg'[g] = arg[g]
  BY DEF OthersStay, InLibrary, UsesHandle, UsesUnderLock, ReadsUnlocked, Doing, FreesSet

(* Sole, NobodyIs and HandleExclusive of the state after a step. *)
LEMMA SoleNext == GilSafe' => Sole'
  BY UserIs, PTL

LEMMA ExclusiveNext == GilSafe' => HandleExclusive'
  BY HandleByGil, PTL

LEMMA NobodyNext == NobodyIn' => LibraryUser' = None /\ LibraryDoing' = "nothing"
<1>1. NobodyIn' => (LibraryUser = None /\ LibraryDoing = "nothing")'
  BY NobodyIs, PTL
<1> QED
  BY <1>1

(* The four ways in which a step of f may look to the library. *)
LEMMA StaysOut ==
  ASSUME NEW f \in Frames, OthersStay(f), GilSafe, GilSafe', Gil,
         ~InLibrary(f), ~InLibrary(f)'
  PROVE  LibraryUser' = LibraryUser /\ LibraryDoing' = LibraryDoing
<1>1. CASE \E g \in Frames : InLibrary(g)
  <2>1. PICK g \in Frames : InLibrary(g)
    BY <1>1
  <2>2. InLibrary(g)' /\ Doing(g)' = Doing(g)
    BY <2>1, OthersStayOut
  <2>3. LibraryUser = g /\ LibraryDoing = Doing(g)
    BY <2>1, UserIs DEF Sole
  <2>4. LibraryUser' = g /\ LibraryDoing' = Doing(g)'
    BY <2>2, SoleNext DEF Sole
  <2> QED
    BY <2>2, <2>3, <2>4
<1>2. CASE NobodyIn
  <2>1. NobodyIn'
    BY <1>2, OthersStayOut DEF NobodyIn
  <2> QED
    BY <1>2, <2>1, NobodyIs, NobodyNext
<1> QED
  BY <1>1, <1>2 DEF NobodyIn

LEMMA Enters ==
  ASSUME NEW f \in Frames, OthersStay(f), GilSafe, GilSafe', Gil,
         ~InLibrary(f), InLibrary(f)'
  PROVE  /\ LibraryUser = None /\ LibraryDoing = "nothing"
         /\ LibraryUser' = f /\ LibraryDoing' = Doing(f)'
<1>1. ASSUME NEW g \in Frames, InLibrary(g) PROVE FALSE
  <2>1. g # f /\ InLibrary(g)'
    BY <1>1, OthersStayOut
  <2>2. UsesHandle(g)' /\ UsesHandle(f)'
    BY <2>1 DEF InLibrary
  <2> QED
    BY <2>1, <2>2, ExclusiveNext DEF HandleExclusive
<1>2. LibraryUser' = f /\ LibraryDoing' = Doing(f)'
  BY SoleNext DEF Sole
<1> QED
  BY <1>1, <1>2, NobodyIs DEF NobodyIn

LEMMA Leaves ==
  ASSUME NEW f \in Frames, OthersStay(f), GilSafe, GilSafe', Gil,
         InLibrary(f), ~InLibrary(f)'
  PROVE  /\ LibraryUser = f /\ LibraryDoing = Doing(f)
         /\ LibraryUser' = None /\ LibraryDoing' = "nothing"
<1>1. ASSUME NEW g \in Frames, InLibrary(g)' PROVE FALSE
  <2>1. g # f /\ InLibrary(g)
    BY <1>1, OthersStayOut
  <2> QED
    BY <2>1, HandleByGil DEF HandleExclusive, InLibrary
<1>2. NobodyIn'
  BY <1>1 DEF NobodyIn
<1> QED
  BY <1>2, NobodyNext, UserIs DEF Sole

LEMMA StaysIn ==
  ASSUME NEW f \in Frames, GilSafe, GilSafe', Gil, InLibrary(f), InLibrary(f)'
  PROVE  /\ LibraryUser = f /\ LibraryDoing = Doing(f)
         /\ LibraryUser' = f /\ LibraryDoing' = Doing(f)'
  BY UserIs, SoleNext DEF Sole
-----------------------------------------------------------------------------
(* The small steps and tests that the actions are made of. *)
USE DEF Locked, ConnectionCalls, ResultCalls, AllCalls, Locations, Goto,
        Return, Begin, Discarding, MayCall, RunsPython, Checked, CallbackOf,
        ReleasesGil, TakeGil, DropGil, Unlock, ReadsUnlocked

(* No step brings a call with a result set to the reading of errno.        *)
LEMMA StepErrnoLocal ==
  ASSUME TypeOK, ErrnoLocalInv, [Next]_vars
  PROVE  ErrnoLocalInv'
<1>0. CASE UNCHANGED vars
  BY <1>0 DEF vars, ErrnoLocalInv
<1> SUFFICES ASSUME NEW f \in Frames, Start(f) \/ Continue(f) \/ LockWait(f)
             PROVE  ErrnoLocalInv'
  BY <1>0 DEF Next
<1>1. Start(f) \/ Continue(f) \/ LockWait(f)
  OBVIOUS
<1> QED
  <2>1. CASE Connect(f)
    BY <2>1 DEF Connect, TypeOK, ErrnoLocalInv
  <2>2. CASE Connected(f)
    BY <2>2 DEF Connected, TypeOK, ErrnoLocalInv
  <2>3. CASE ConnectFailed(f)
    BY <2>3 DEF ConnectFailed, TypeOK, ErrnoLocalInv
  <2>4. CASE \E c \in ConnectionCalls : CallConnection(f, c)
    BY <2>4 DEF CallConnection, TypeOK, ErrnoLocalInv
  <2>5. CASE \E c \in ResultCalls, r \in Results : CallResult(f, c, r)
    BY <2>5 DEF CallResult, TypeOK, ErrnoLocalInv
  <2>6. CASE \E r \in Results : DropResult(f, r)
    BY <2>6 DEF DropResult, TypeOK, ErrnoLocalInv
  <2>7. CASE Forget(f)
    BY <2>7 DEF Forget, TypeOK, ErrnoLocalInv
  <2>8. CASE Acquire(f)
    BY <2>8 DEF Acquire, TypeOK, ErrnoLocalInv
  <2>9. CASE Refuse(f)
    BY <2>9 DEF Refuse, TypeOK, ErrnoLocalInv
  <2>10. CASE CheckClosed(f)
    BY <2>10 DEF CheckClosed, TypeOK, ErrnoLocalInv
  <2>11. CASE CheckStore(f)
    BY <2>11 DEF CheckStore, TypeOK, ErrnoLocalInv
  <2>12. CASE CheckLiteral(f)
    BY <2>12 DEF CheckLiteral, TypeOK, ErrnoLocalInv
  <2>13. CASE CheckEscape(f)
    BY <2>13 DEF CheckEscape, TypeOK, ErrnoLocalInv
  <2>14. CASE CheckDescribe(f)
    BY <2>14 DEF CheckDescribe, TypeOK, ErrnoLocalInv
  <2>15. CASE CheckNative(f)
    BY <2>15 DEF CheckNative, TypeOK, ErrnoLocalInv
  <2>16. CASE AllocateFailed(f)
    BY <2>16 DEF AllocateFailed, TypeOK, ErrnoLocalInv
  <2>17. CASE \E r \in Results : Allocate(f, r)
    BY <2>17 DEF Allocate, TypeOK, ErrnoLocalInv
  <2>18. CASE LeaveNative(f)
    BY <2>18 DEF LeaveNative, TypeOK, ErrnoLocalInv
  <2>19. CASE Reacquire(f)
    BY <2>19 DEF Reacquire, TypeOK, ErrnoLocalInv
  <2>20. CASE Finish(f)
    BY <2>20 DEF Finish, TypeOK, ErrnoLocalInv
  <2>21. CASE FinishClose(f)
    BY <2>21 DEF FinishClose, TypeOK, ErrnoLocalInv
  <2>22. CASE FinishStore(f)
    BY <2>22 DEF FinishStore, TypeOK, ErrnoLocalInv
  <2>23. CASE ReadErrno(f)
    BY <2>23 DEF ReadErrno, TypeOK, ErrnoLocalInv
  <2>34. CASE ReadError(f)
    BY <2>34 DEF ReadError, TypeOK, ErrnoLocalInv
  <2>24. CASE ConvertRow(f)
    BY <2>24 DEF ConvertRow, TypeOK, ErrnoLocalInv
  <2>25. CASE NextRow(f)
    BY <2>25 DEF NextRow, TypeOK, ErrnoLocalInv
  <2>26. CASE EndFetch(f)
    BY <2>26 DEF EndFetch, TypeOK, ErrnoLocalInv
  <2>27. CASE Escape(f)
    BY <2>27 DEF Escape, TypeOK, ErrnoLocalInv
  <2>28. CASE EndLiteral(f)
    BY <2>28 DEF EndLiteral, TypeOK, ErrnoLocalInv
  <2>29. CASE LockWait(f)
    BY <2>29 DEF LockWait, TypeOK, ErrnoLocalInv
  <2>30. CASE EnterFree(f)
    BY <2>30 DEF EnterFree, TypeOK, ErrnoLocalInv
  <2>31. CASE FreeResult(f)
    BY <2>31 DEF FreeResult, TypeOK, ErrnoLocalInv
  <2>32. CASE ClearResult(f)
    BY <2>32 DEF ClearResult, TypeOK, ErrnoLocalInv
  <2>33. CASE Dealloc(f)
    BY <2>33 DEF Dealloc, TypeOK, ErrnoLocalInv
  <2> QED
    BY <1>1, <2>1, <2>2, <2>3, <2>4, <2>5, <2>6, <2>7, <2>8, <2>9, <2>10,
      <2>11, <2>12, <2>13, <2>14, <2>15, <2>16, <2>17, <2>18, <2>19, <2>20,
      <2>21, <2>22, <2>23, <2>24, <2>25, <2>26, <2>27, <2>28, <2>29, <2>30,
      <2>31, <2>32, <2>33, <2>34 DEF Start, Continue

(* The GIL, what it guarantees, and that errno is read without a set.      *)
LEMMA ProtocolSafeHolds == Gil /\ Spec => []ProtocolSafe
<1>1. Init => ErrnoLocalInv
  BY DEF Init, ErrnoLocalInv
<1>2. GilSafe /\ ErrnoLocalInv /\ [Next]_vars => ErrnoLocalInv'
  BY StepErrnoLocal DEF GilSafe
<1>3. CASE Gil
  <2>1. GilSafe /\ ErrnoLocalInv => ProtocolSafe
    BY <1>3 DEF ProtocolSafe
  <2> QED
    BY <1>1, <1>2, <2>1, GilSafeHolds, PTL DEF Spec
<1>4. CASE ~Gil
  BY <1>4
<1> QED
  BY <1>3, <1>4

-----------------------------------------------------------------------------
(* The sets that are out are those held before, when f frees what it freed. *)
LEMMA SameSets ==
  ASSUME NEW f \in Frames, OthersStay(f),
         \A r \in Results : res'[r] = "held" <=> res[r] = "held",
         FreesSet(f)' <=> FreesSet(f), FreesSet(f) => arg'[f] = arg[f]
  PROVE  Outstanding' = Outstanding
<1>1. ASSUME NEW g \in Frames
      PROVE  /\ FreesSet(g)' <=> FreesSet(g)
             /\ FreesSet(g) => arg'[g] = arg[g]
  BY <1>1, OthersStayOut
<1>2. ASSUME NEW r \in Results PROVE HoldsSet(r)' <=> HoldsSet(r)
  BY <1>1, <1>2 DEF HoldsSet
<1> QED
  BY <1>2 DEF Outstanding

(* A step outside the library that moves no set is not seen.               *)
LEMMA Quiet ==
  ASSUME NEW f \in Frames, ProtocolSafe, ProtocolSafe', OthersStay(f),
         ~InLibrary(f), ~InLibrary(f)', handle' = handle,
         Outstanding' = Outstanding
  PROVE  UNCHANGED Handle!protocol
  BY StaysOut DEF ProtocolSafe, Handle!protocol
-----------------------------------------------------------------------------
(* The steps that the abstract specification does not see: calls begin and *)
(* end, take the lock or are refused it, and callbacks return.             *)
LEMMA QuietSteps ==
  ASSUME ProtocolSafe, ProtocolSafe', NEW f \in Frames,
         \/ \E c \in ConnectionCalls : CallConnection(f, c)
         \/ \E c \in ResultCalls, r \in Results : CallResult(f, c, r)
         \/ Acquire(f)
         \/ Refuse(f)
         \/ CheckClosed(f) /\ call[f] = "literal"
         \/ CheckStore(f)
         \/ CheckLiteral(f)
         \/ CheckDescribe(f)
         \/ AllocateFailed(f)
         \/ \E r \in Results : Allocate(f, r)
         \/ FinishClose(f)
         \/ EndFetch(f)
         \/ EndLiteral(f)
         \/ LockWait(f)
  PROVE  UNCHANGED Handle!protocol
<1> USE DEF ProtocolSafe, GilSafe, InLibrary, UsesHandle, UsesUnderLock, FreesSet
<1>1. CASE \E c \in ConnectionCalls : CallConnection(f, c)
  <2>1. OthersStay(f) /\ handle' = handle
    BY <1>1 DEF CallConnection, TypeOK, OthersStay
  <2>2. ~InLibrary(f) /\ ~InLibrary(f)'
    BY <1>1 DEF CallConnection, TypeOK
  <2>3. Outstanding' = Outstanding
    <3>1. \A r \in Results : res'[r] = "held" <=> res[r] = "held"
      BY <1>1, ConstantsAssumption DEF CallConnection, TypeOK, Inv, CallInv,
        ResultInv
    <3>2. (FreesSet(f)' <=> FreesSet(f)) /\ (FreesSet(f) => arg'[f] = arg[f])
      BY <1>1 DEF CallConnection, TypeOK, Inv, CallInv
    <3> QED
      BY <2>1, <3>1, <3>2, SameSets
  <2> QED
    BY <2>1, <2>2, <2>3, Quiet
<1>2. CASE \E c \in ResultCalls, r \in Results : CallResult(f, c, r)
  <2>1. OthersStay(f) /\ handle' = handle
    BY <1>2 DEF CallResult, TypeOK, OthersStay
  <2>2. ~InLibrary(f) /\ ~InLibrary(f)'
    BY <1>2 DEF CallResult, TypeOK
  <2>3. Outstanding' = Outstanding
    <3>1. \A r \in Results : res'[r] = "held" <=> res[r] = "held"
      BY <1>2, ConstantsAssumption DEF CallResult, TypeOK, Inv, CallInv,
        ResultInv
    <3>2. (FreesSet(f)' <=> FreesSet(f)) /\ (FreesSet(f) => arg'[f] = arg[f])
      BY <1>2 DEF CallResult, TypeOK, Inv, CallInv
    <3> QED
      BY <2>1, <3>1, <3>2, SameSets
  <2> QED
    BY <2>1, <2>2, <2>3, Quiet
<1>3. CASE Acquire(f)
  <2>1. OthersStay(f) /\ handle' = handle
    BY <1>3 DEF Acquire, TypeOK, OthersStay
  <2>2. ~InLibrary(f) /\ ~InLibrary(f)'
    BY <1>3 DEF Acquire, TypeOK
  <2>3. Outstanding' = Outstanding
    <3>1. \A r \in Results : res'[r] = "held" <=> res[r] = "held"
      BY <1>3, ConstantsAssumption DEF Acquire, TypeOK, Inv, CallInv,
        ResultInv
    <3>2. (FreesSet(f)' <=> FreesSet(f)) /\ (FreesSet(f) => arg'[f] = arg[f])
      BY <1>3 DEF Acquire, TypeOK, Inv, CallInv
    <3> QED
      BY <2>1, <3>1, <3>2, SameSets
  <2> QED
    BY <2>1, <2>2, <2>3, Quiet
<1>4. CASE Refuse(f)
  <2>1. OthersStay(f) /\ handle' = handle
    BY <1>4 DEF Refuse, TypeOK, OthersStay
  <2>2. ~InLibrary(f) /\ ~InLibrary(f)'
    BY <1>4 DEF Refuse, TypeOK
  <2>3. Outstanding' = Outstanding
    <3>1. \A r \in Results : res'[r] = "held" <=> res[r] = "held"
      BY <1>4, ConstantsAssumption DEF Refuse, TypeOK, Inv, CallInv, ResultInv
    <3>2. (FreesSet(f)' <=> FreesSet(f)) /\ (FreesSet(f) => arg'[f] = arg[f])
      BY <1>4 DEF Refuse, TypeOK, Inv, CallInv
    <3> QED
      BY <2>1, <3>1, <3>2, SameSets
  <2> QED
    BY <2>1, <2>2, <2>3, Quiet
<1>5. CASE CheckClosed(f) /\ call[f] = "literal"
  <2>1. OthersStay(f) /\ handle' = handle
    BY <1>5 DEF CheckClosed, TypeOK, OthersStay
  <2>2. ~InLibrary(f) /\ ~InLibrary(f)'
    BY <1>5 DEF CheckClosed, TypeOK
  <2>3. Outstanding' = Outstanding
    <3>1. \A r \in Results : res'[r] = "held" <=> res[r] = "held"
      BY <1>5, ConstantsAssumption DEF CheckClosed, TypeOK, Inv, CallInv,
        ResultInv
    <3>2. (FreesSet(f)' <=> FreesSet(f)) /\ (FreesSet(f) => arg'[f] = arg[f])
      BY <1>5 DEF CheckClosed, TypeOK, Inv, CallInv
    <3> QED
      BY <2>1, <3>1, <3>2, SameSets
  <2> QED
    BY <2>1, <2>2, <2>3, Quiet
<1>6. CASE CheckStore(f)
  <2>1. OthersStay(f) /\ handle' = handle
    BY <1>6 DEF CheckStore, TypeOK, OthersStay
  <2>2. ~InLibrary(f) /\ ~InLibrary(f)'
    BY <1>6 DEF CheckStore, TypeOK
  <2>3. Outstanding' = Outstanding
    <3>1. \A r \in Results : res'[r] = "held" <=> res[r] = "held"
      BY <1>6, ConstantsAssumption DEF CheckStore, TypeOK, Inv, CallInv,
        ResultInv
    <3>2. (FreesSet(f)' <=> FreesSet(f)) /\ (FreesSet(f) => arg'[f] = arg[f])
      BY <1>6 DEF CheckStore, TypeOK, Inv, CallInv
    <3> QED
      BY <2>1, <3>1, <3>2, SameSets
  <2> QED
    BY <2>1, <2>2, <2>3, Quiet
<1>7. CASE CheckLiteral(f)
  <2>1. OthersStay(f) /\ handle' = handle
    BY <1>7 DEF CheckLiteral, TypeOK, OthersStay
  <2>2. ~InLibrary(f) /\ ~InLibrary(f)'
    BY <1>7 DEF CheckLiteral, TypeOK
  <2>3. Outstanding' = Outstanding
    <3>1. \A r \in Results : res'[r] = "held" <=> res[r] = "held"
      BY <1>7, ConstantsAssumption DEF CheckLiteral, TypeOK, Inv, CallInv,
        ResultInv
    <3>2. (FreesSet(f)' <=> FreesSet(f)) /\ (FreesSet(f) => arg'[f] = arg[f])
      BY <1>7 DEF CheckLiteral, TypeOK, Inv, CallInv
    <3> QED
      BY <2>1, <3>1, <3>2, SameSets
  <2> QED
    BY <2>1, <2>2, <2>3, Quiet
<1>8. CASE CheckDescribe(f)
  <2>1. OthersStay(f) /\ handle' = handle
    BY <1>8 DEF CheckDescribe, TypeOK, OthersStay
  <2>2. ~InLibrary(f) /\ ~InLibrary(f)'
    BY <1>8 DEF CheckDescribe, TypeOK
  <2>3. Outstanding' = Outstanding
    <3>1. \A r \in Results : res'[r] = "held" <=> res[r] = "held"
      BY <1>8, ConstantsAssumption DEF CheckDescribe, TypeOK, Inv, CallInv,
        ResultInv
    <3>2. (FreesSet(f)' <=> FreesSet(f)) /\ (FreesSet(f) => arg'[f] = arg[f])
      BY <1>8 DEF CheckDescribe, TypeOK, Inv, CallInv
    <3> QED
      BY <2>1, <3>1, <3>2, SameSets
  <2> QED
    BY <2>1, <2>2, <2>3, Quiet
<1>9. CASE AllocateFailed(f)
  <2>1. OthersStay(f) /\ handle' = handle
    BY <1>9 DEF AllocateFailed, TypeOK, OthersStay
  <2>2. ~InLibrary(f) /\ ~InLibrary(f)'
    BY <1>9 DEF AllocateFailed, TypeOK
  <2>3. Outstanding' = Outstanding
    <3>1. \A r \in Results : res'[r] = "held" <=> res[r] = "held"
      BY <1>9, ConstantsAssumption DEF AllocateFailed, TypeOK, Inv, CallInv,
        ResultInv
    <3>2. (FreesSet(f)' <=> FreesSet(f)) /\ (FreesSet(f) => arg'[f] = arg[f])
      BY <1>9 DEF AllocateFailed, TypeOK, Inv, CallInv
    <3> QED
      BY <2>1, <3>1, <3>2, SameSets
  <2> QED
    BY <2>1, <2>2, <2>3, Quiet
<1>10. CASE \E r \in Results : Allocate(f, r)
  <2>1. OthersStay(f) /\ handle' = handle
    BY <1>10 DEF Allocate, TypeOK, OthersStay
  <2>2. ~InLibrary(f) /\ ~InLibrary(f)'
    BY <1>10 DEF Allocate, TypeOK
  <2>3. Outstanding' = Outstanding
    <3>1. \A r \in Results : res'[r] = "held" <=> res[r] = "held"
      BY <1>10, ConstantsAssumption DEF Allocate, TypeOK, Inv, CallInv,
        ResultInv
    <3>2. (FreesSet(f)' <=> FreesSet(f)) /\ (FreesSet(f) => arg'[f] = arg[f])
      BY <1>10 DEF Allocate, TypeOK, Inv, CallInv
    <3> QED
      BY <2>1, <3>1, <3>2, SameSets
  <2> QED
    BY <2>1, <2>2, <2>3, Quiet
<1>11. CASE FinishClose(f)
  <2>1. OthersStay(f) /\ handle' = handle
    BY <1>11 DEF FinishClose, TypeOK, OthersStay
  <2>2. ~InLibrary(f) /\ ~InLibrary(f)'
    BY <1>11 DEF FinishClose, TypeOK
  <2>3. Outstanding' = Outstanding
    <3>1. \A r \in Results : res'[r] = "held" <=> res[r] = "held"
      BY <1>11, ConstantsAssumption DEF FinishClose, TypeOK, Inv, CallInv,
        ResultInv
    <3>2. (FreesSet(f)' <=> FreesSet(f)) /\ (FreesSet(f) => arg'[f] = arg[f])
      BY <1>11 DEF FinishClose, TypeOK, Inv, CallInv
    <3> QED
      BY <2>1, <3>1, <3>2, SameSets
  <2> QED
    BY <2>1, <2>2, <2>3, Quiet
<1>12. CASE EndFetch(f)
  <2>1. OthersStay(f) /\ handle' = handle
    BY <1>12 DEF EndFetch, TypeOK, OthersStay
  <2>2. ~InLibrary(f) /\ ~InLibrary(f)'
    BY <1>12 DEF EndFetch, TypeOK
  <2>3. Outstanding' = Outstanding
    <3>1. \A r \in Results : res'[r] = "held" <=> res[r] = "held"
      BY <1>12, ConstantsAssumption DEF EndFetch, TypeOK, Inv, CallInv,
        ResultInv
    <3>2. (FreesSet(f)' <=> FreesSet(f)) /\ (FreesSet(f) => arg'[f] = arg[f])
      BY <1>12 DEF EndFetch, TypeOK, Inv, CallInv
    <3> QED
      BY <2>1, <3>1, <3>2, SameSets
  <2> QED
    BY <2>1, <2>2, <2>3, Quiet
<1>13. CASE EndLiteral(f)
  <2>1. OthersStay(f) /\ handle' = handle
    BY <1>13 DEF EndLiteral, TypeOK, OthersStay
  <2>2. ~InLibrary(f) /\ ~InLibrary(f)'
    BY <1>13 DEF EndLiteral, TypeOK
  <2>3. Outstanding' = Outstanding
    <3>1. \A r \in Results : res'[r] = "held" <=> res[r] = "held"
      BY <1>13, ConstantsAssumption DEF EndLiteral, TypeOK, Inv, CallInv,
        ResultInv
    <3>2. (FreesSet(f)' <=> FreesSet(f)) /\ (FreesSet(f) => arg'[f] = arg[f])
      BY <1>13 DEF EndLiteral, TypeOK, Inv, CallInv
    <3> QED
      BY <2>1, <3>1, <3>2, SameSets
  <2> QED
    BY <2>1, <2>2, <2>3, Quiet
<1>14. CASE LockWait(f)
  <2>1. OthersStay(f) /\ handle' = handle
    BY <1>14 DEF LockWait, TypeOK, OthersStay
  <2>2. ~InLibrary(f) /\ ~InLibrary(f)'
    BY <1>14 DEF LockWait, TypeOK
  <2>3. Outstanding' = Outstanding
    <3>1. \A r \in Results : res'[r] = "held" <=> res[r] = "held"
      BY <1>14, ConstantsAssumption DEF LockWait, TypeOK, Inv, CallInv,
        ResultInv
    <3>2. (FreesSet(f)' <=> FreesSet(f)) /\ (FreesSet(f) => arg'[f] = arg[f])
      BY <1>14 DEF LockWait, TypeOK, Inv, CallInv
    <3> QED
      BY <2>1, <3>1, <3>2, SameSets
  <2> QED
    BY <2>1, <2>2, <2>3, Quiet
<1> QED
  BY <1>1, <1>2, <1>3, <1>4, <1>5, <1>6, <1>7, <1>8, <1>9, <1>10, <1>11,
    <1>12, <1>13, <1>14
-----------------------------------------------------------------------------
(* A step into the library with the handle up.                             *)
LEMMA EnterUse ==
  ASSUME NEW f \in Frames, ProtocolSafe, ProtocolSafe', OthersStay(f),
         ~InLibrary(f), InLibrary(f)', Doing(f)' = "use",
         handle = "up", handle' = handle, Outstanding' = Outstanding
  PROVE  Handle!Next
<1>1. Handle!Use(f)
  BY Enters DEF ProtocolSafe, Handle!Use, Handle!Enter
<1> QED
  BY <1>1 DEF Handle!Next

(* A step out of it, perhaps with one more set.                            *)
LEMMA LeaveUse ==
  ASSUME NEW f \in Frames, ProtocolSafe, ProtocolSafe', OthersStay(f),
         InLibrary(f), ~InLibrary(f)', Doing(f) = "use", handle' = handle,
         \/ Outstanding' = Outstanding
         \/ \E s \in Results \ Outstanding : Outstanding' = Outstanding \cup {s}
  PROVE  Handle!Next
<1>1. Handle!Used(f)
  BY Leaves DEF ProtocolSafe, Handle!Used, Handle!Leave
<1> QED
  BY <1>1 DEF Handle!Next

(* A step inside the library, which nobody else sees either.               *)
LEMMA StayUse ==
  ASSUME NEW f \in Frames, ProtocolSafe, ProtocolSafe', InLibrary(f),
         InLibrary(f)', Doing(f) = "use", Doing(f)' = "use",
         handle' = handle, Outstanding' = Outstanding
  PROVE  UNCHANGED Handle!protocol
  BY StaysIn DEF ProtocolSafe, Handle!protocol

(* The calls that go into the library, again after a callback, after a     *)
(* wait for the GIL.                                                       *)
LEMMA UseSteps ==
  ASSUME ProtocolSafe, ProtocolSafe', NEW f \in Frames,
         \/ CheckEscape(f)
         \/ CheckNative(f)
         \/ NextRow(f)
         \/ Escape(f)
         \/ Reacquire(f)
  PROVE  [Handle!Next]_(Handle!protocol)
<1> USE DEF ProtocolSafe, GilSafe, InLibrary, UsesHandle, UsesUnderLock, FreesSet, Doing
<1>1. CASE CheckEscape(f)
  <2>1. OthersStay(f) /\ handle' = handle
    BY <1>1 DEF CheckEscape, TypeOK, OthersStay
  <2>2. ~InLibrary(f) /\ InLibrary(f)' /\ Doing(f)' = "use"
    BY <1>1 DEF CheckEscape, TypeOK, Inv, CallInv
  <2>3. Outstanding' = Outstanding
    <3>1. res' = res /\ ~FreesSet(f) /\ ~FreesSet(f)'
      BY <1>1 DEF CheckEscape, TypeOK
    <3> QED
      BY <2>1, <3>1, SameSets
  <2>4. handle = "up"
    BY <1>1, NoneNotFrame DEF CheckEscape, TypeOK, Inv, HandleInv, LockInv
  <2> QED
    BY <2>1, <2>2, <2>3, <2>4, EnterUse
<1>2. CASE CheckNative(f)
  <2>1. OthersStay(f) /\ handle' = handle
    BY <1>2 DEF CheckNative, TypeOK, OthersStay
  <2>2. ~InLibrary(f) /\ InLibrary(f)' /\ Doing(f)' = "use"
    BY <1>2 DEF CheckNative, TypeOK, Inv, CallInv
  <2>3. Outstanding' = Outstanding
    <3>1. res' = res /\ ~FreesSet(f) /\ ~FreesSet(f)'
      BY <1>2 DEF CheckNative, TypeOK
    <3> QED
      BY <2>1, <3>1, SameSets
  <2>4. handle = "up"
    BY <1>2, NoneNotFrame DEF CheckNative, TypeOK, Inv, HandleInv, LockInv
  <2> QED
    BY <2>1, <2>2, <2>3, <2>4, EnterUse
<1>3. CASE NextRow(f)
  <2>1. OthersStay(f) /\ handle' = handle
    BY <1>3 DEF NextRow, TypeOK, OthersStay
  <2>2. ~InLibrary(f) /\ InLibrary(f)' /\ Doing(f)' = "use"
    BY <1>3 DEF NextRow, TypeOK, Inv, CallInv
  <2>3. Outstanding' = Outstanding
    <3>1. res' = res /\ ~FreesSet(f) /\ ~FreesSet(f)'
      BY <1>3 DEF NextRow, TypeOK
    <3> QED
      BY <2>1, <3>1, SameSets
  <2>4. handle = "up"
    BY <1>3, NoneNotFrame DEF NextRow, TypeOK, Inv, HandleInv, LockInv
  <2> QED
    BY <2>1, <2>2, <2>3, <2>4, EnterUse
<1>4. CASE Escape(f)
  <2>1. OthersStay(f) /\ handle' = handle
    BY <1>4 DEF Escape, TypeOK, OthersStay
  <2>2. ~InLibrary(f) /\ InLibrary(f)' /\ Doing(f)' = "use"
    BY <1>4 DEF Escape, TypeOK, Inv, CallInv
  <2>3. Outstanding' = Outstanding
    <3>1. res' = res /\ ~FreesSet(f) /\ ~FreesSet(f)'
      BY <1>4 DEF Escape, TypeOK
    <3> QED
      BY <2>1, <3>1, SameSets
  <2>4. handle = "up"
    BY <1>4, NoneNotFrame DEF Escape, TypeOK, Inv, HandleInv, LockInv
  <2> QED
    BY <2>1, <2>2, <2>3, <2>4, EnterUse
<1>5. CASE Reacquire(f)
  <2>1. OthersStay(f) /\ handle' = handle
    BY <1>5 DEF Reacquire, TypeOK, OthersStay
  <2>2. ~InLibrary(f) /\ call'[f] = call[f] /\ pc'[f] = "finish"
    BY <1>5 DEF Reacquire, TypeOK
  <2>3. Outstanding' = Outstanding
    <3>1. res' = res /\ ~FreesSet(f) /\ ~FreesSet(f)'
      BY <1>5 DEF Reacquire, TypeOK
    <3> QED
      BY <2>1, <3>1, SameSets
  <2>4. CASE call[f] = "close"
    <3>1. ~InLibrary(f)'
      BY <2>2, <2>4
    <3> QED
      BY <2>1, <2>2, <2>3, <3>1, Quiet
  <2>5. CASE call[f] # "close"
    <3>1. InLibrary(f)' /\ Doing(f)' = "use"
      BY <2>2, <2>5
    <3>2. handle = "up"
      BY <1>5, <2>5 DEF Reacquire, Inv, HandleInv
    <3> QED
      BY <2>1, <2>2, <2>3, <3>1, <3>2, EnterUse
  <2> QED
    BY <2>4, <2>5
<1> QED
  BY <1>1, <1>2, <1>3, <1>4, <1>5

(* A method of a closed connection asks the library for the error's text   *)
(* when it has unlocked; the connection is still there, and nobody else in *)
(* the library.                                                            *)
LEMMA ClosedSteps ==
  ASSUME ProtocolSafe, ProtocolSafe', NEW f \in Frames,
         CheckClosed(f) \/ ReadError(f)
  PROVE  [Handle!Next]_(Handle!protocol)
<1> USE DEF ProtocolSafe, GilSafe, InLibrary, UsesHandle, UsesUnderLock, FreesSet, Doing
<1>1. CASE CheckClosed(f) /\ call[f] = "literal"
  BY <1>1, QuietSteps
<1>2. CASE CheckClosed(f) /\ call[f] # "literal"
  <2>1. OthersStay(f) /\ handle' = handle
    BY <1>2 DEF CheckClosed, TypeOK, OthersStay
  <2>2. ~InLibrary(f) /\ InLibrary(f)' /\ Doing(f)' = "peek"
    BY <1>2 DEF CheckClosed, TypeOK
  <2>3. Outstanding' = Outstanding
    <3>1. res' = res /\ ~FreesSet(f) /\ ~FreesSet(f)'
      BY <1>2 DEF CheckClosed, TypeOK
    <3> QED
      BY <2>1, <3>1, SameSets
  <2>4. handle = "closed"
    <3>1. handle # "none"
      BY <1>2, ConstantsAssumption
      DEF CheckClosed, TypeOK, Inv, CallInv, ResultInv, OwnerInv
    <3> QED
      BY <1>2, <3>1 DEF CheckClosed, TypeOK, Inv, HandleInv
  <2>5. Handle!Peek(f)
    BY <2>1, <2>2, <2>3, <2>4, Enters DEF Handle!Peek, Handle!Enter
  <2> QED
    BY <2>5 DEF Handle!Next
<1>3. CASE ReadError(f)
  <2>1. OthersStay(f) /\ handle' = handle
    BY <1>3 DEF ReadError, TypeOK, OthersStay
  <2>2. InLibrary(f) /\ ~InLibrary(f)' /\ Doing(f) = "peek"
    BY <1>3 DEF ReadError, TypeOK
  <2>3. Outstanding' = Outstanding
    <3>1. \A r \in Results : res'[r] = "held" <=> res[r] = "held"
      BY <1>3, ConstantsAssumption DEF ReadError, TypeOK, Inv, CallInv,
        ResultInv
    <3>2. ~FreesSet(f) /\ ~FreesSet(f)'
      BY <1>3 DEF ReadError, TypeOK, Inv, CallInv
    <3> QED
      BY <2>1, <3>1, <3>2, SameSets
  <2>4. Handle!Peeked(f)
    BY <2>1, <2>2, <2>3, Leaves DEF Handle!Peeked, Handle!Leave
  <2> QED
    BY <2>4 DEF Handle!Next
<1> QED
  BY <1>1, <1>2, <1>3

(* The calls that come out of it; close() has closed the handle, and a     *)
(* call that kept the GIL goes on to its outcome.                          *)
LEMMA LeaveSteps ==
  ASSUME ProtocolSafe, ProtocolSafe', NEW f \in Frames,
         \/ LeaveNative(f)
         \/ Finish(f)
         \/ ConvertRow(f)
         \/ ReadErrno(f)
  PROVE  [Handle!Next]_(Handle!protocol)
<1> USE DEF ProtocolSafe, GilSafe, InLibrary, UsesHandle, UsesUnderLock, FreesSet, Doing
<1>1. CASE Finish(f)
  <2>1. OthersStay(f) /\ handle' = handle
    BY <1>1 DEF Finish, TypeOK, OthersStay
  <2>2. InLibrary(f) /\ ~InLibrary(f)' /\ Doing(f) = "use"
    BY <1>1 DEF Finish, TypeOK, Inv, CallInv
  <2>3. Outstanding' = Outstanding
    <3>1. \A r \in Results : res'[r] = "held" <=> res[r] = "held"
      BY <1>1, ConstantsAssumption DEF Finish, TypeOK, Inv, CallInv, ResultInv
    <3>2. ~FreesSet(f) /\ ~FreesSet(f)'
      BY <1>1 DEF Finish, TypeOK, Inv, CallInv, ErrnoLocalInv
    <3> QED
      BY <2>1, <3>1, <3>2, SameSets
  <2> QED
    BY <2>1, <2>2, <2>3, LeaveUse
<1>2. CASE ConvertRow(f)
  <2>1. OthersStay(f) /\ handle' = handle
    BY <1>2 DEF ConvertRow, TypeOK, OthersStay
  <2>2. InLibrary(f) /\ ~InLibrary(f)' /\ Doing(f) = "use"
    BY <1>2 DEF ConvertRow, TypeOK, Inv, CallInv
  <2>3. Outstanding' = Outstanding
    <3>1. \A r \in Results : res'[r] = "held" <=> res[r] = "held"
      BY <1>2, ConstantsAssumption DEF ConvertRow, TypeOK, Inv, CallInv,
        ResultInv
    <3>2. ~FreesSet(f) /\ ~FreesSet(f)'
      BY <1>2 DEF ConvertRow, TypeOK, Inv, CallInv, ErrnoLocalInv
    <3> QED
      BY <2>1, <3>1, <3>2, SameSets
  <2> QED
    BY <2>1, <2>2, <2>3, LeaveUse
<1>3. CASE ReadErrno(f)
  <2>1. OthersStay(f) /\ handle' = handle
    BY <1>3 DEF ReadErrno, TypeOK, OthersStay
  <2>2. InLibrary(f) /\ ~InLibrary(f)' /\ Doing(f) = "use"
    BY <1>3 DEF ReadErrno, TypeOK, Inv, CallInv
  <2>3. Outstanding' = Outstanding
    <3>1. \A r \in Results : res'[r] = "held" <=> res[r] = "held"
      BY <1>3, ConstantsAssumption DEF ReadErrno, TypeOK, Inv, CallInv,
        ResultInv
    <3>2. ~FreesSet(f) /\ ~FreesSet(f)'
      BY <1>3 DEF ReadErrno, TypeOK, Inv, CallInv, ErrnoLocalInv
    <3> QED
      BY <2>1, <3>1, <3>2, SameSets
  <2> QED
    BY <2>1, <2>2, <2>3, LeaveUse
<1>4. CASE LeaveNative(f)
  <2>1. OthersStay(f) /\ InLibrary(f) /\ Doing(f) = "use" /\ call' = call
    BY <1>4 DEF LeaveNative, TypeOK, OthersStay
  <2>2. Outstanding' = Outstanding
    <3>1. res' = res /\ ~FreesSet(f) /\ ~FreesSet(f)'
      BY <1>4 DEF LeaveNative, TypeOK
    <3> QED
      BY <2>1, <3>1, SameSets
  <2>3. CASE call[f] = "close"
    <3>1. ~InLibrary(f)' /\ handle' = "closed"
      BY <1>4, <2>3 DEF LeaveNative, TypeOK
    <3>2. handle = "up"
      BY <1>4 DEF LeaveNative, Inv, HandleInv
    <3>3. Handle!Closed(f)
      BY <2>1, <2>2, <3>1, <3>2, Leaves DEF Handle!Closed, Handle!Leave
    <3> QED
      BY <3>3 DEF Handle!Next
  <2>4. CASE call[f] # "close" /\ ReleasesGil(f)
    <3>1. ~InLibrary(f)' /\ handle' = handle
      BY <1>4, <2>4 DEF LeaveNative, TypeOK
    <3> QED
      BY <2>1, <2>2, <3>1, LeaveUse
  <2>5. CASE call[f] # "close" /\ ~ReleasesGil(f)
    <3>1. InLibrary(f)' /\ Doing(f)' = "use" /\ handle' = handle
      BY <1>4, <2>5 DEF LeaveNative, TypeOK
    <3> QED
      BY <2>1, <2>2, <3>1, StayUse
  <2> QED
    BY <2>3, <2>4, <2>5
<1> QED
  BY <1>1, <1>2, <1>3, <1>4
-----------------------------------------------------------------------------
(* A set that is out belongs to a result that refers to the connection.    *)
LEMMA HeldRefs == TypeOK /\ Inv => Outstanding \subseteq connRefs
<1> SUFFICES ASSUME TypeOK, Inv, NEW r \in Results, HoldsSet(r)
             PROVE  r \in connRefs
  BY DEF Outstanding
<1>1. res[r] # "none"
  BY ConstantsAssumption DEF TypeOK, Inv, ResultInv, HoldsSet, FreesSet
<1> QED
  BY <1>1 DEF Inv, ResultInv

LEMMA HeldRefsNext == ProtocolSafe' => Outstanding' \subseteq connRefs'
<1>1. ProtocolSafe => TypeOK /\ Inv
  BY DEF ProtocolSafe, GilSafe
<1>2. ProtocolSafe' => (Outstanding \subseteq connRefs)'
  BY <1>1, HeldRefs, PTL
<1> QED
  BY <1>2

(* The constructor, which ends in the program's hands or in the            *)
(* deallocator.                                                            *)
LEMMA ConnectSteps ==
  ASSUME ProtocolSafe, ProtocolSafe', NEW f \in Frames,
         Connect(f) \/ Connected(f) \/ ConnectFailed(f)
  PROVE  Handle!Next
<1> USE DEF ProtocolSafe, GilSafe, InLibrary, UsesHandle, UsesUnderLock, FreesSet, Doing
<1>1. OthersStay(f)
  BY DEF Connect, Connected, ConnectFailed, TypeOK, OthersStay
<1>2. Outstanding' = Outstanding
  <2>1. res' = res /\ ~FreesSet(f) /\ ~FreesSet(f)'
    BY DEF Connect, Connected, ConnectFailed, TypeOK
  <2> QED
    BY <1>1, <2>1, SameSets
<1>3. CASE Connect(f)
  <2>1. ~InLibrary(f) /\ InLibrary(f)' /\ Doing(f)' = "connect"
    BY <1>3 DEF Connect, TypeOK
  <2>2. handle = "none" /\ handle' = "up"
    BY <1>3 DEF Connect
  <2>3. Handle!Connect(f)
    BY <1>1, <1>2, <2>1, <2>2, Enters DEF Handle!Connect, Handle!Enter
  <2> QED
    BY <2>3 DEF Handle!Next
<1>4. CASE Connected(f)
  <2>1. InLibrary(f) /\ ~InLibrary(f)' /\ Doing(f) = "connect" /\ handle' = handle
    BY <1>4 DEF Connected, TypeOK
  <2>2. Handle!Connected(f)
    BY <1>1, <1>2, <2>1, Leaves DEF Handle!Connected, Handle!Leave
  <2> QED
    BY <2>2 DEF Handle!Next
<1>5. CASE ConnectFailed(f)
  <2>1. InLibrary(f) /\ InLibrary(f)' /\ handle' = handle
    BY <1>5 DEF ConnectFailed, TypeOK
  <2>2. Doing(f) = "connect" /\ Doing(f)' = "destroy"
    BY <1>5 DEF ConnectFailed, TypeOK
  <2>3. Handle!ConnectFailed(f)
    BY <1>2, <2>1, <2>2, StaysIn DEF Handle!ConnectFailed
  <2> QED
    BY <2>3 DEF Handle!Next
<1> QED
  BY <1>3, <1>4, <1>5

(* The result object that store_result fills is nobody else's, so the set  *)
(* it gets was not out before.                                             *)
LEMMA StoreSteps ==
  ASSUME ProtocolSafe, ProtocolSafe', NEW f \in Frames, FinishStore(f)
  PROVE  [Handle!Next]_(Handle!protocol)
<1> USE DEF ProtocolSafe, GilSafe, InLibrary, UsesHandle, UsesUnderLock, FreesSet, Doing
<1>0. PICK r \in Results : r = arg[f]
  BY DEF FinishStore, TypeOK, Inv, CallInv
<1>1. OthersStay(f) /\ handle' = handle
  BY DEF FinishStore, TypeOK, OthersStay
<1>2. InLibrary(f) /\ Doing(f) = "use"
  BY DEF FinishStore, TypeOK
<1>3. /\ r = arg[f] /\ res[r] # "held" /\ pc[f] = "finish"
      /\ \A g \in Frames : arg[g] = r /\ pc[g] # "dealloc" => g = f
  BY <1>0, ConstantsAssumption DEF FinishStore, TypeOK, Inv, CallInv, ResultInv
<1>4. CASE local[f] = 0
  <2>1. InLibrary(f)' /\ Doing(f)' = "use" /\ res' = res
    BY <1>4 DEF FinishStore, TypeOK
  <2>2. ~FreesSet(f) /\ ~FreesSet(f)'
    BY <1>4 DEF FinishStore, TypeOK
  <2> QED
    BY <1>1, <1>2, <2>1, <2>2, SameSets, StayUse
<1>5. CASE local[f] = 1
  <2>1. ~InLibrary(f)'
    BY <1>5 DEF FinishStore, TypeOK
  <2>2. r \notin Outstanding
    BY <1>3 DEF Outstanding, HoldsSet
  <2>3. \/ res'[r] = "held" /\ ~FreesSet(f)'
        \/ res'[r] # "held" /\ FreesSet(f)' /\ arg'[f] = r
    BY <1>3, <1>5 DEF FinishStore, TypeOK
  <2>4. \A s \in Results : s # r => res'[s] = res[s]
    BY <1>3, <1>5 DEF FinishStore, TypeOK
  <2>5. ASSUME NEW s \in Results, s # r PROVE HoldsSet(s)' <=> HoldsSet(s)
    <3>1. ASSUME NEW g \in Frames, g # f
          PROVE  (FreesSet(g)' <=> FreesSet(g)) /\ arg'[g] = arg[g]
      BY <1>1, <3>1, OthersStayOut
    <3> QED
      BY <1>3, <2>3, <2>4, <2>5, <3>1 DEF HoldsSet
  <2>6. HoldsSet(r)'
    BY <1>3, <2>3 DEF HoldsSet
  <2>7. Outstanding' = Outstanding \cup {r}
    BY <1>3, <2>5, <2>6 DEF Outstanding
  <2>8. \E s \in Results \ Outstanding : Outstanding' = Outstanding \cup {s}
    BY <1>3, <2>2, <2>7
  <2> QED
    BY <1>1, <1>2, <2>1, <2>8, LeaveUse
<1> QED
  BY <1>4, <1>5 DEF FinishStore

(* The deallocation of a result, from the last reference to the freeing of *)
(* its set; only the call that deallocates a result works on it.           *)
LEMMA FreeSteps ==
  ASSUME ProtocolSafe, ProtocolSafe', NEW f \in Frames,
         (\E r \in Results : DropResult(f, r)) \/ EnterFree(f) \/ FreeResult(f)
  PROVE  [Handle!Next]_(Handle!protocol)
<1> USE DEF ProtocolSafe, GilSafe, InLibrary, UsesHandle, UsesUnderLock, FreesSet, Doing
<1>1. CASE \E r \in Results : DropResult(f, r)
  <2>1. PICK r \in Results : DropResult(f, r)
    BY <1>1
  <2>2. OthersStay(f) /\ handle' = handle
    BY <2>1 DEF DropResult, TypeOK, OthersStay
  <2>3. ~InLibrary(f) /\ ~InLibrary(f)'
    BY <2>1 DEF DropResult, TypeOK
  <2>4. /\ ~FreesSet(f) /\ FreesSet(f)' /\ arg'[f] = r /\ res[r] = "held"
        /\ \A s \in Results : s # r => res'[s] = res[s]
    BY <2>1 DEF DropResult, TypeOK
  <2>5. ASSUME NEW s \in Results PROVE HoldsSet(s)' <=> HoldsSet(s)
    <3>1. ASSUME NEW g \in Frames, g # f
          PROVE  (FreesSet(g)' <=> FreesSet(g)) /\ arg'[g] = arg[g]
      BY <2>2, <3>1, OthersStayOut
    <3> QED
      BY <2>4, <2>5, <3>1 DEF HoldsSet
  <2>6. Outstanding' = Outstanding
    BY <2>5 DEF Outstanding
  <2> QED
    BY <2>2, <2>3, <2>6, Quiet
<1>2. CASE EnterFree(f)
  <2>1. OthersStay(f) /\ handle' = handle
    BY <1>2 DEF EnterFree, TypeOK, OthersStay
  <2>2. ~InLibrary(f) /\ InLibrary(f)' /\ Doing(f)' = "free"
    BY <1>2 DEF EnterFree, TypeOK
  <2>3. Outstanding' = Outstanding
    <3>1. res' = res /\ (FreesSet(f)' <=> FreesSet(f)) /\ arg'[f] = arg[f]
      BY <1>2 DEF EnterFree, TypeOK
    <3> QED
      BY <2>1, <3>1, SameSets
  <2>4. handle # "none"
    BY <1>2, ConstantsAssumption DEF EnterFree, TypeOK, Inv, CallInv, ResultInv, OwnerInv
  <2>5. Handle!Free(f)
    BY <2>1, <2>2, <2>3, <2>4, Enters DEF Handle!Free, Handle!Enter
  <2> QED
    BY <2>5 DEF Handle!Next
<1>3. CASE FreeResult(f)
  <2>0. PICK r \in Results : r = arg[f]
    BY <1>3 DEF FreeResult, TypeOK, Inv, CallInv
  <2>1. OthersStay(f) /\ handle' = handle /\ res' = res
    BY <1>3 DEF FreeResult, TypeOK, OthersStay
  <2>2. InLibrary(f) /\ ~InLibrary(f)' /\ Doing(f) = "free" /\ ~FreesSet(f)'
    BY <1>3 DEF FreeResult, TypeOK
  <2>3. /\ r = arg[f] /\ res[r] # "held"
        /\ \A g \in Frames : arg[g] = r /\ pc[g] # "dealloc" => g = f
    BY <1>3, <2>0, ConstantsAssumption DEF FreeResult, TypeOK, Inv, CallInv, ResultInv
  <2>4. ASSUME ~FreesSet(f) PROVE Outstanding' = Outstanding
    <3>1. Outstanding' = Outstanding
      BY <2>1, <2>2, <2>4, SameSets
    <3> QED
      BY <3>1
  <2>5. ASSUME FreesSet(f)
        PROVE  \E s \in Outstanding : Outstanding' = Outstanding \ {s}
    <3>1. ASSUME NEW g \in Frames, g # f
          PROVE  (FreesSet(g)' <=> FreesSet(g)) /\ arg'[g] = arg[g]
      BY <2>1, <3>1, OthersStayOut
    <3>2. ASSUME NEW s \in Results, s # r PROVE HoldsSet(s)' <=> HoldsSet(s)
      BY <2>1, <2>2, <2>3, <3>1, <3>2 DEF HoldsSet
    <3>3. HoldsSet(r)
      BY <2>3, <2>5 DEF HoldsSet
    <3>4. ~HoldsSet(r)'
      BY <2>1, <2>2, <2>3, <3>1 DEF HoldsSet
    <3>5. r \in Outstanding /\ Outstanding' = Outstanding \ {r}
      BY <2>3, <3>2, <3>3, <3>4 DEF Outstanding
    <3> QED
      BY <3>5
  <2>6. Outstanding' = Outstanding \/ \E s \in Outstanding : Outstanding' = Outstanding \ {s}
    BY <2>4, <2>5
  <2>7. Handle!Freed(f)
    BY <2>1, <2>2, <2>6, Leaves DEF Handle!Freed, Handle!Leave
  <2> QED
    BY <2>7 DEF Handle!Next
<1> QED
  BY <1>1, <1>2, <1>3

(* The last reference to the connection goes, and the handle with it: no   *)
(* result refers to it any more.                                           *)
LEMMA DestroySteps ==
  ASSUME ProtocolSafe, ProtocolSafe', NEW f \in Frames,
         Forget(f) \/ ClearResult(f) \/ Dealloc(f)
  PROVE  [Handle!Next]_(Handle!protocol)
<1> USE DEF ProtocolSafe, GilSafe, InLibrary, UsesHandle, UsesUnderLock, FreesSet, Doing
<1>1. OthersStay(f)
  BY DEF Forget, ClearResult, Dealloc, TypeOK, OthersStay
<1>2. Outstanding' = Outstanding
  <2>1. \A r \in Results : res'[r] = "held" <=> res[r] = "held"
    BY ConstantsAssumption
    DEF Forget, ClearResult, Dealloc, TypeOK, Inv, CallInv, ResultInv
  <2>2. ~FreesSet(f) /\ ~FreesSet(f)'
    BY DEF Forget, ClearResult, Dealloc, TypeOK
  <2> QED
    BY <1>1, <2>1, <2>2, SameSets
<1>3. CASE Dealloc(f)
  <2>1. InLibrary(f) /\ ~InLibrary(f)' /\ Doing(f) = "destroy" /\ handle' = "none"
    BY <1>3 DEF Dealloc, TypeOK
  <2>2. Outstanding = {}
    BY <1>3, HeldRefs DEF Dealloc, Inv, OwnerInv
  <2>3. Handle!Destroyed(f)
    BY <1>1, <1>2, <2>1, <2>2, Leaves DEF Handle!Destroyed, Handle!Leave
  <2> QED
    BY <2>3 DEF Handle!Next
<1>4. CASE (Forget(f) \/ ClearResult(f)) /\ connRefs' = {}
  <2>1. ~InLibrary(f) /\ InLibrary(f)' /\ Doing(f)' = "destroy" /\ handle' = handle
    BY <1>4 DEF Forget, ClearResult, TypeOK
  <2>2. Outstanding = {}
    BY <1>2, <1>4, HeldRefsNext
  <2>3. handle # "none"
    BY <1>4, ConstantsAssumption
    DEF Forget, ClearResult, TypeOK, Inv, CallInv, ResultInv, OwnerInv
  <2>4. Handle!Destroy(f)
    BY <1>1, <1>2, <2>1, <2>2, <2>3, Enters DEF Handle!Destroy, Handle!Enter
  <2> QED
    BY <2>4 DEF Handle!Next
<1>5. CASE (Forget(f) \/ ClearResult(f)) /\ connRefs' # {}
  <2>1. ~InLibrary(f) /\ ~InLibrary(f)' /\ handle' = handle
    BY <1>5 DEF Forget, ClearResult, TypeOK
  <2> QED
    BY <1>1, <1>2, <2>1, Quiet
<1> QED
  BY <1>3, <1>4, <1>5

-----------------------------------------------------------------------------
(* Every step of the connection is a step of the protocol or none.         *)
LEMMA StepFollows ==
  ASSUME ProtocolSafe, ProtocolSafe', [Next]_vars
  PROVE  [Handle!Next]_(Handle!protocol)
<1>1. CASE UNCHANGED vars
  BY <1>1 DEF vars, Handle!protocol, LibraryUser, LibraryDoing, Outstanding,
    InLibrary, Doing, HoldsSet, FreesSet, UsesHandle, UsesUnderLock
<1>2. ASSUME NEW f \in Frames, Start(f) \/ Continue(f) \/ LockWait(f)
      PROVE  [Handle!Next]_(Handle!protocol)
  BY <1>2, QuietSteps, UseSteps, LeaveSteps, ConnectSteps, StoreSteps,
    FreeSteps, DestroySteps, ClosedSteps DEF Start, Continue
<1> QED
  BY <1>1, <1>2 DEF Next

(* Before the connection is made nobody is in the library.                 *)
LEMMA InitFollows == Init => Handle!Init
<1> SUFFICES ASSUME Init PROVE Handle!Init
  OBVIOUS
<1>1. NobodyIn
  BY DEF Init, NobodyIn, InLibrary, UsesHandle, UsesUnderLock
<1>2. Outstanding = {}
  BY DEF Init, Outstanding, HoldsSet, FreesSet
<1> QED
  BY <1>1, <1>2, NobodyIs DEF Init, Handle!Init

(* Under a GIL the calls of all threads together, with their callbacks,    *)
(* failures and deallocations, follow the protocol of the client library:  *)
(* one user at a time, nothing after mysql_close but the freeing of        *)
(* results and the reading of mysql_error, each result freed once and      *)
(* before the handle goes.                                                 *)
THEOREM Implements == Gil /\ Spec => FollowsProtocol
<1>1. ProtocolSafe /\ ProtocolSafe' /\ [Next]_vars => [Handle!Next]_(Handle!protocol)
  BY StepFollows
<1> QED
  BY <1>1, InitFollows, ProtocolSafeHolds, PTL DEF Spec, FollowsProtocol, Handle!Spec
=============================================================================
