---------------------------- MODULE CursorsProofs ----------------------------
(***************************************************************************)
(* Proofs about Cursors, for every set of cursors, every answer of the     *)
(* server and every number of statements.                                  *)
(*                                                                         *)
(* The functions of the client library are summed up in ClientProofs, and  *)
(* what becomes of a plan in CursorPlans; the steps of the cursors are     *)
(* reasoned about without looking into either.                             *)
(***************************************************************************)
EXTENDS CursorPlans

-----------------------------------------------------------------------------
CursorTyped(c) ==
  /\ cur[c].executed <= my.stmt
  /\ cur[c].description # None => cur[c].description[1] \in 1..my.stmt
  /\ cur[c].rows # None => ~Streams(c) /\ cur[c].rownumber \in 0..Len(cur[c].rows)

(* The types, and a plan that its statements suffice for.                  *)
Base ==
  /\ SessionOK(my)
  /\ my.stmt <= MaxStatements
  /\ cur \in [Cursors -> CursorStates]
  /\ \A c \in Cursors : CursorTyped(c)
  /\ RunOK
  /\ QueriesFit(run.plan, my.stmt)

(* Who reads from the session, and when it is the session that must be read. *)
StreamInv ==
  /\ \A c \in Cursors : Reading(cur[c].result) =>
       /\ Streams(c)
       /\ my.status = "use_result"
       /\ cur[c].result.set = SetId(my)
  /\ \A c, d \in Cursors : Reading(cur[c].result) /\ Reading(cur[d].result) => c = d
  /\ my.status = "use_result" => \E c \in Cursors : Reading(cur[c].result)
  /\ my.status = "get_result" => Now \in {"get", "drain"}
  /\ Now \in {"get", "drain"} => Announced(my)

Doing(c, step) == run.who = c /\ Now = step

(* The attributes of a cursor against its result object. *)
CursorOK(c) ==
  /\ Doing(c, "discard") => cur[c].result # None
  /\ Reading(cur[c].result) /\ ~Doing(c, "discard") =>
       /\ cur[c].description = cur[c].result.set
       /\ cur[c].rownumber # None /\ cur[c].rownumber <= my.read
       /\ ~ConverterRaises => cur[c].rownumber = my.read
  /\ Doing(c, "post") =>
       /\ cur[c].rownumber = 0
       /\ cur[c].result # None => cur[c].result.set = cur[c].description
       /\ cur[c].result = None => cur[c].description = None
  /\ cur[c].rows # None /\ ~cur[c].unconverted /\ ~Doing(c, "post") =>
       \A i \in 1..Len(cur[c].rows) :
         /\ <<cur[c].rows[i][1], cur[c].rows[i][2]>> = cur[c].description
         /\ cur[c].rows[i][3] = i

CursorInv == \A c \in Cursors : CursorOK(c)

(* What a fetch hands out. *)
OutInv ==
  /\ Now # "end" => run.out = None
  /\ run.out # None => run.method \in FetchMethods
  /\ run.out \notin {None, << >>} /\ ~cur[run.who].unconverted =>
       LET this == cur[run.who]
       IN /\ \A i \in 1..Len(run.out) :
               <<run.out[i][1], run.out[i][2]>> = this.description
          /\ IF Streams(run.who) THEN Last(run.out)[3] >= this.rownumber
                                 ELSE Last(run.out)[3] = this.rownumber

(* When execute() is refused. *)
SyncInv ==
  run.method = "execute" =>
    /\ Now # "end" => run.exc = "none"
    /\ Now = "discard" =>
         ~my.err.fresh /\ (run.plan[2] # "next" => ~cur[run.who].open)
    /\ Now \in {"next", "drain"} => cur[run.who].result = None
    /\ Now = "mogrify" /\ cur[run.who].open => my.status = "ready" /\ ~MoreResults(my)
    /\ Now = "query" => my.status = "ready" /\ ~MoreResults(my)
    /\ run.exc = "sync" /\ run.own =>
         \E d \in Cursors \ {run.who} : Reading(cur[d].result)

(* How far execute() has come. *)
ExecuteInv ==
  run.method = "execute" =>
    /\ Now = "get" => my.at = 1
    /\ Now \in {"post", "executed"} \/ (Now = "end" /\ run.exc = "none") =>
         LET this == cur[run.who]
         IN /\ my.at = 1
            /\ this.rownumber = 0
            /\ this.description \in {None, <<my.stmt, 1>>}
            /\ this.description # None =>
                 IF Streams(run.who)
                   THEN this.result # None /\ this.result.set = SetId(my) /\ my.read = 0
                   ELSE /\ my.cut = "no" /\ my.status = "ready"
                        /\ IF Now = "post" THEN this.result # None
                           ELSE this.rows # None /\ Len(this.rows) = CurrentSet(my).n
    /\ Now = "end" /\ run.exc = "none" => cur[run.who].executed = my.stmt

Inv == Base /\ StreamInv /\ CursorInv /\ OutInv /\ SyncInv /\ ExecuteInv
-----------------------------------------------------------------------------
USE DEF FetchMethods

(* What the typed parts of a state are.                                    *)
LEMMA BaseIs ==
  ASSUME Base
  PROVE  /\ my \in Sessions /\ my.stmt \in Nat /\ my.at \in Nat /\ my.read \in Nat
         /\ my.status \in {"ready", "get_result", "use_result"}
         /\ CurrentSet(my).n \in Nat /\ my.read <= CurrentSet(my).n
         /\ \A c \in Cursors : cur[c] \in CursorStates /\ CursorTyped(c)
         /\ run \in Runs /\ run.method \in Methods
         /\ Idle <=> Now = "end"
         /\ \A c, x : x # "end" => (Active(c, x) <=> Doing(c, x))
         /\ Now # "end" => run.who \in Cursors /\ Now \in MethodSteps(run.method)
<1>1. /\ my \in Sessions /\ my.stmt \in Nat /\ my.at \in Nat /\ my.read \in Nat
      /\ my.status \in {"ready", "get_result", "use_result"} /\ my.read <= CurrentSet(my).n
  BY DEF Base, SessionOK, Sessions
<1>2. CurrentSet(my).n \in Nat
  BY CurrentIs DEF Base
<1>3. \A c \in Cursors : cur[c] \in CursorStates /\ CursorTyped(c)
  BY DEF Base
<1>4. RunOK /\ run \in Runs /\ run.method \in Methods
  BY DEF Base, RunOK, Runs
<1>5. /\ Idle <=> Now = "end"
      /\ ~Idle => Now \in MethodSteps(run.method)
      /\ \A c, x : x # "end" => (Active(c, x) <=> run.who = c /\ Now = x)
  BY <1>4, NowIs
<1> QED
  BY <1>1, <1>2, <1>3, <1>4, <1>5 DEF Doing, RunOK

LEMMA NextIdle ==
  ASSUME RunOK'
  PROVE  Idle' <=> Now' = "end"
<1>1. run'.plan \in Seq(Steps)
  BY DEF RunOK, Runs
<1>2. run'.plan # << >> => Head(run'.plan) \in Steps /\ Head(run'.plan) # "end"
  BY <1>1, EmptySeq, HeadTailProperties DEF Steps
<1> QED
  BY <1>2 DEF Now, Idle

(* A cursor that a step leaves alone.                                      *)
LEMMA SameCursor ==
  ASSUME Base, NEW c \in Cursors, CursorOK(c), cur'[c] = cur[c],
         my'.stmt \in Nat, my.stmt <= my'.stmt,
         Reading(cur[c].result) => my'.read = my.read,
         ~Doing(c, "discard"), ~Doing(c, "post"),
         ~Doing(c, "discard")', ~Doing(c, "post")'
  PROVE  CursorTyped(c)' /\ CursorOK(c)'
<1>1. CursorTyped(c)'
  BY BaseIs DEF CursorTyped, CursorStates, SetIds, Streams
<1>2. CursorOK(c)'
  BY DEF CursorOK
<1> QED
  BY <1>1, <1>2

(* The others, when it is a method of c that runs.                         *)
LEMMA OtherCursors ==
  ASSUME Base, CursorInv, NEW c \in Cursors,
         \A d \in Cursors : d # c => cur'[d] = cur[d],
         CursorTyped(c)', CursorOK(c)',
         my'.stmt \in Nat, my.stmt <= my'.stmt,
         \A d \in Cursors : d # c /\ Reading(cur[d].result) => my'.read = my.read,
         Now = "end" \/ run.who = c, run'.who = c
  PROVE  (\A d \in Cursors : CursorTyped(d)') /\ CursorInv'
<1>1. \A d \in Cursors : d # c => CursorTyped(d)' /\ CursorOK(d)'
  <2> SUFFICES ASSUME NEW d \in Cursors, d # c PROVE CursorTyped(d)' /\ CursorOK(d)'
    OBVIOUS
  <2>1. CursorOK(d) /\ ~Doing(d, "discard") /\ ~Doing(d, "post")
       /\ ~Doing(d, "discard")' /\ ~Doing(d, "post")'
    BY DEF CursorInv, Doing
  <2> QED
    BY <2>1, SameCursor
<1> QED
  BY <1>1 DEF CursorInv

(* The streams, when nobody begins to read and nobody stops.               *)
LEMMA SameStreams ==
  ASSUME StreamInv, my'.status = my.status, my'.stmt = my.stmt, my'.at = my.at,
         \A c \in Cursors : Reading(cur'[c].result) => cur'[c].result.set = cur[c].result.set,
         \A c \in Cursors : Reading(cur'[c].result) <=> Reading(cur[c].result),
         my.status = "get_result" => Now' \in {"get", "drain"},
         Now' \in {"get", "drain"} => Announced(my')
  PROVE  StreamInv'
  BY DEF StreamInv, SetId, Streams

LEMMA NoStreams ==
  ASSUME \A c \in Cursors : ~Reading(cur'[c].result),
         my'.status # "use_result",
         my'.status = "get_result" => Now' \in {"get", "drain"},
         Now' \in {"get", "drain"} => Announced(my')
  PROVE  StreamInv'
  BY DEF StreamInv

LEMMA Nobody ==
  ASSUME StreamInv, my.status # "use_result"
  PROVE  \A c \in Cursors : ~Reading(cur[c].result)
  BY DEF StreamInv

(* The session after a result object of c has gone.                        *)
LEMMA FreedIs ==
  ASSUME Base, StreamInv, NEW c \in Cursors
  PROVE  LET t == Freed(my, cur[c].result)
         IN /\ SessionOK(t) /\ SamePlace(my, t) /\ NoMoreThan(my, t)
            /\ ~Reading(cur[c].result) => t = my
            /\ Reading(cur[c].result) =>
                 /\ t.status = "ready" /\ t.read = CurrentSet(my).n
                 /\ IF my.cut = "no" THEN t.err = my.err
                                     ELSE JustFailed(t, {"server", "lost"})
                 /\ \A d \in Cursors : Reading(cur[d].result) => d = c
<1>1. SessionOK(my) /\ SamePlace(my, my) /\ NoMoreThan(my, my)
  BY DEF Base, SamePlace, NoMoreThan
<1>2. CASE Reading(cur[c].result)
  BY <1>1, <1>2, EndOfRowsIs DEF Freed, StreamInv
<1>3. CASE ~Reading(cur[c].result)
  BY <1>1, <1>3 DEF Freed
<1> QED
  BY <1>2, <1>3

-----------------------------------------------------------------------------
(* What goes on elsewhere: the session stays where it is.                  *)
LEMMA ElsewhereKeeps ==
  ASSUME Inv, UNCHANGED <<cur, run>>, SessionOK(my'),
         my'.stmt = my.stmt, my'.at = my.at, my'.status = my.status,
         my'.fields = my.fields, my'.read = my.read, my'.err = my.err,
         MoreResults(my') <=> MoreResults(my),
         my.status = "ready" => my'.cut = my.cut /\ CurrentSet(my').n = CurrentSet(my).n
  PROVE  Inv'
<1>1. Now' = Now /\ Idle' = Idle
  BY DEF Now, Idle
<1>2. Base'
  BY DEF Inv, Base, RunOK, CursorTyped, Streams, QueriesFit, Idle
<1>3. StreamInv'
  BY <1>1 DEF Inv, StreamInv, Announced, SetId, Streams
<1>4. CursorInv'
  BY <1>1 DEF Inv, CursorInv, CursorOK, Doing
<1>5. OutInv'
  BY <1>1 DEF Inv, OutInv, Streams
<1>6. SyncInv'
  BY <1>1 DEF Inv, SyncInv
<1>7. ExecuteInv'
  BY <1>1 DEF Inv, ExecuteInv, SetId, Streams
<1> QED
  BY <1>2, <1>3, <1>4, <1>5, <1>6, <1>7 DEF Inv

LEMMA KillKeeps ==
  ASSUME Inv, Kill
  PROVE  Inv'
<1>1. SessionOK(my) /\ my.status \in {"get_result", "use_result"} /\ UNCHANGED <<cur, run>>
  BY DEF Inv, Base, Kill
<1>2. PICK k \in my.read..CurrentSet(my).n : my' = CutRows(my, "killed", k)
  BY DEF Kill, KillStatement
<1> QED
  BY <1>1, <1>2, CutRowsIs, ElsewhereKeeps

LEMMA DisconnectKeeps ==
  ASSUME Inv, Disconnect
  PROVE  Inv'
<1>1. SessionOK(my) /\ UNCHANGED <<cur, run>>
  BY DEF Inv, Base, Disconnect
<1>2. PICK down : down = LinkDown(my)
  OBVIOUS
<1>3. /\ SessionOK(down) /\ SamePlace(my, down) /\ (MoreResults(down) <=> MoreResults(my))
      /\ down.status = my.status /\ down.fields = my.fields /\ down.read = my.read
      /\ down.err = my.err
  BY <1>1, <1>2, LinkDownIs
<1>4. CASE my' = down
  BY <1>1, <1>3, <1>4, ElsewhereKeeps DEF SamePlace
<1>5. CASE /\ my.status \in {"get_result", "use_result"}
           /\ \E k \in my.read..CurrentSet(my).n : my' = CutRows(down, "lost", k)
  <2>1. PICK k \in down.read..CurrentSet(down).n : my' = CutRows(down, "lost", k)
    BY <1>3, <1>5 DEF SamePlace
  <2> QED
    BY <1>1, <1>3, <1>5, <2>1, CutRowsIs, ElsewhereKeeps DEF SamePlace
<1> QED
  BY <1>2, <1>4, <1>5 DEF Disconnect

-----------------------------------------------------------------------------
(* The methods begin.                                                      *)
LEMMA BeginKeeps ==
  ASSUME Inv, Now = "end", NEW c \in Cursors, NEW method \in Methods,
         NEW plan \in Seq(Steps), NEW size \in (Nat \ {0}) \cup {None}, NEW exc \in Exceptions,
         run' = [who |-> c, method |-> method, plan |-> plan, size |-> size,
                 exc |-> exc, own |-> TRUE, out |-> None],
         PlanOK(method, plan), QueriesFit(plan, my.stmt),
         plan # << >> => Head(plan) \notin {"get", "drain", "post"},
         SessionOK(my'), SamePlace(my, my'), my'.status = my.status, my'.read = my.read,
         cur' \in [Cursors -> CursorStates],
         \A d \in Cursors : d # c => cur'[d] = cur[d],
         cur'[c].result = cur[c].result,
         CursorTyped(c)', CursorOK(c)',
         method = "execute" =>
           /\ exc = "none" /\ plan # << >> /\ Head(plan) \in {"discard", "next", "mogrify"}
           /\ Head(plan) = "discard" =>
                ~my'.err.fresh /\ (plan[2] # "next" => ~cur'[c].open)
           /\ Head(plan) = "next" => cur'[c].result = None
           /\ Head(plan) = "mogrify" => ~cur'[c].open
  PROVE  Inv'
<1>0. Base /\ StreamInv /\ CursorInv /\ my'.stmt = my.stmt /\ my'.at = my.at /\ my.stmt \in Nat
  BY BaseIs DEF Inv, SamePlace
<1>1. /\ RunOK' /\ run'.who = c /\ run'.method = method /\ run'.exc = exc /\ run'.out = None
      /\ run'.plan = plan /\ Now' = IF plan = << >> THEN "end" ELSE Head(plan)
  BY NewRunIs
<1>2. (\A d \in Cursors : CursorTyped(d)') /\ CursorInv'
  BY <1>0, <1>1, OtherCursors
<1>3. Base'
  BY <1>0, <1>1, <1>2 DEF Base
<1>4. Now' \notin {"get", "drain", "post"} /\ my.status # "get_result"
  BY <1>0, <1>1 DEF StreamInv
<1>5. StreamInv'
  <2>1. \A d \in Cursors : cur'[d].result = cur[d].result
    OBVIOUS
  <2> QED
    BY <1>0, <1>4, <2>1, SameStreams
<1>6. OutInv'
  BY <1>1 DEF OutInv
<1>7. SyncInv'
  BY <1>1, <1>0 DEF SyncInv, Exceptions
<1>8. ExecuteInv'
  BY <1>1, <1>4 DEF ExecuteInv
<1> QED
  BY <1>2, <1>3, <1>5, <1>6, <1>7, <1>8 DEF Inv

(* A cursor between methods, when only its session ages.                   *)
LEMMA RestingCursor ==
  ASSUME Inv, NEW c \in Cursors, Now = "end", cur' = cur, my'.stmt = my.stmt,
         my'.read = my.read, ~Doing(c, "discard")', ~Doing(c, "post")'
  PROVE  CursorTyped(c)' /\ CursorOK(c)' /\ cur' \in [Cursors -> CursorStates]
<1>1. Base /\ CursorOK(c) /\ my.stmt \in Nat
  BY BaseIs DEF Inv, CursorInv
<1> QED
  BY <1>1, SameCursor DEF Doing, Base

(* The attributes that execute() and close() clear first.                  *)
LEMMA ClearedIs ==
  ASSUME Base, NEW c \in Cursors, Cleared(c), my'.stmt = my.stmt
  PROVE  /\ cur' \in [Cursors -> CursorStates]
         /\ \A d \in Cursors : d # c => cur'[d] = cur[d]
         /\ cur'[c].result = cur[c].result /\ cur'[c].open = cur[c].open
         /\ cur'[c].executed = cur[c].executed
         /\ cur'[c].description = None /\ cur'[c].rows = None
         /\ CursorTyped(c)'
<1>0. cur \in [Cursors -> CursorStates] /\ CursorTyped(c)
  BY DEF Base
<1>1. PICK new : new = [cur[c] EXCEPT !.description = None, !.rows = None, !.rownumber = None]
  OBVIOUS
<1>2. cur' = [cur EXCEPT ![c] = new]
  BY <1>0, <1>1 DEF Cleared, CursorStates
<1>3. /\ new \in CursorStates /\ new.result = cur[c].result /\ new.open = cur[c].open
      /\ new.executed = cur[c].executed /\ new.description = None /\ new.rows = None
  BY <1>0, <1>1 DEF CursorStates
<1>4. /\ cur' \in [Cursors -> CursorStates] /\ cur'[c] = new
      /\ \A d \in Cursors : d # c => cur'[d] = cur[d]
  BY <1>0, <1>2, <1>3
<1> QED
  BY <1>0, <1>3, <1>4 DEF CursorTyped

LEMMA ExecuteKeeps ==
  ASSUME Inv, NEW c \in Cursors, Execute(c)
  PROVE  Inv'
<1>0. Base /\ Now = "end" /\ my.stmt \in Nat /\ my' = Stale(my) /\ Cleared(c)
  BY BaseIs DEF Inv, Execute, Begin
<1>1. PICK rest : rest = <<"mogrify", "query", "get", "post", "executed">>
  OBVIOUS
<1>2. /\ rest \in Seq(Steps) /\ PlanOK("execute", rest) /\ rest # << >>
      /\ Head(rest) = "mogrify" /\ QueriesFit(rest, my.stmt)
  BY <1>0, <1>1, ExecutePlan DEF Execute
<1>3. PICK plan : plan = DiscardPlan(c, rest)
  OBVIOUS
<1>4. /\ plan \in Seq(Steps) /\ PlanOK("execute", plan) /\ plan # << >>
      /\ QueriesFit(plan, my.stmt)
      /\ Head(plan) = IF cur[c].result # None THEN "discard"
                      ELSE IF cur[c].open THEN "next" ELSE "mogrify"
      /\ cur[c].result # None /\ plan[2] # "next" => ~cur[c].open
  BY <1>0, <1>2, <1>3, DiscardPlanIs
<1>5. run' = [who |-> c, method |-> "execute", plan |-> plan, size |-> None,
              exc |-> "none", own |-> TRUE, out |-> None]
  BY <1>1, <1>3 DEF Execute, Begin, NoRun
<1>6. /\ SessionOK(my') /\ SamePlace(my, my') /\ my'.status = my.status
      /\ my'.read = my.read /\ ~my'.err.fresh /\ my'.stmt = my.stmt
  BY <1>0, StaleIs DEF Base, SamePlace
<1>7. /\ cur' \in [Cursors -> CursorStates]
      /\ \A d \in Cursors : d # c => cur'[d] = cur[d]
      /\ cur'[c].result = cur[c].result /\ cur'[c].open = cur[c].open
      /\ cur'[c].rows = None
      /\ CursorTyped(c)'
  BY <1>0, <1>6, ClearedIs
<1>8. Now' = Head(plan) /\ run'.who = c
  BY <1>4, <1>5 DEF Now, Idle
<1>9. CursorOK(c)'
  <2>1. Reading(cur'[c].result) => Doing(c, "discard")'
    BY <1>4, <1>7, <1>8 DEF Reading, Doing
  <2> QED
    BY <1>4, <1>7, <1>8, <2>1 DEF CursorOK, Doing
<1>10. "execute" \in Methods /\ "none" \in Exceptions
  BY DEF Methods, Exceptions
<1> QED
  BY <1>0, <1>4, <1>5, <1>6, <1>7, <1>9, <1>10, BeginKeeps

LEMMA CloseKeeps ==
  ASSUME Inv, NEW c \in Cursors, Close(c)
  PROVE  Inv'
<1>0. Base /\ Now = "end" /\ my.stmt \in Nat /\ my' = Stale(my) /\ Cleared(c)
  BY BaseIs DEF Inv, Close, Begin
<1>1. PICK rest : rest = <<"detach">>
  OBVIOUS
<1>2. /\ rest \in Seq(Steps) /\ PlanOK("close", rest) /\ rest # << >>
      /\ Head(rest) = "detach" /\ QueriesFit(rest, my.stmt)
  BY <1>0, <1>1, ClosePlan
<1>3. PICK plan : plan = DiscardPlan(c, rest)
  OBVIOUS
<1>4. /\ plan \in Seq(Steps) /\ PlanOK("close", plan) /\ plan # << >>
      /\ QueriesFit(plan, my.stmt)
      /\ Head(plan) = IF cur[c].result # None THEN "discard"
                      ELSE IF cur[c].open THEN "next" ELSE "detach"
  BY <1>0, <1>2, <1>3, DiscardPlanIs
<1>5. run' = [who |-> c, method |-> "close", plan |-> plan, size |-> None,
              exc |-> "none", own |-> TRUE, out |-> None]
  BY <1>1, <1>3 DEF Close, Begin, NoRun
<1>6. /\ SessionOK(my') /\ SamePlace(my, my') /\ my'.status = my.status
      /\ my'.read = my.read /\ my'.stmt = my.stmt
  BY <1>0, StaleIs DEF Base, SamePlace
<1>7. /\ cur' \in [Cursors -> CursorStates]
      /\ \A d \in Cursors : d # c => cur'[d] = cur[d]
      /\ cur'[c].result = cur[c].result
      /\ cur'[c].rows = None
      /\ CursorTyped(c)'
  BY <1>0, <1>6, ClearedIs
<1>8. Now' = Head(plan) /\ run'.who = c
  BY <1>4, <1>5 DEF Now, Idle
<1>9. CursorOK(c)'
  <2>1. Reading(cur'[c].result) => Doing(c, "discard")'
    BY <1>4, <1>7, <1>8 DEF Reading, Doing
  <2> QED
    BY <1>4, <1>7, <1>8, <2>1 DEF CursorOK, Doing
<1>10. "close" \in Methods /\ "none" \in Exceptions
  BY DEF Methods, Exceptions
<1> QED
  BY <1>0, <1>4, <1>5, <1>6, <1>7, <1>9, <1>10, BeginKeeps

(* A method that begins and looks at nothing of its cursor yet.            *)
LEMMA PlainBeginKeeps ==
  ASSUME Inv, Idle, NEW c \in Cursors, NEW method \in Methods, method # "execute",
         NEW plan \in Seq(Steps), NEW size \in (Nat \ {0}) \cup {None}, NEW exc \in Exceptions,
         PlanOK(method, plan), QueriesFit(plan, my.stmt),
         plan # << >> => Head(plan) \in {"fetch", "advance", "query"},
         my' = Stale(my) \/ my' = my, cur' = cur,
         run' = [who |-> c, method |-> method, plan |-> plan, size |-> size,
                 exc |-> exc, own |-> TRUE, out |-> None]
  PROVE  Inv'
<1>0. Base /\ SessionOK(my) /\ Now = "end"
  BY BaseIs DEF Inv, Base
<1>1. /\ SessionOK(my') /\ SamePlace(my, my') /\ my'.status = my.status
      /\ my'.read = my.read /\ my'.stmt = my.stmt
  BY <1>0, StaleIs DEF SamePlace
<1>2. ~Doing(c, "discard")' /\ ~Doing(c, "post")'
  BY DEF Doing, Now, Idle
<1>3. CursorTyped(c)' /\ CursorOK(c)' /\ cur' \in [Cursors -> CursorStates]
  BY <1>0, <1>1, <1>2, RestingCursor
<1> QED
  BY <1>0, <1>1, <1>3, BeginKeeps

LEMMA NextsetKeeps ==
  ASSUME Inv, NEW c \in Cursors, Nextset(c)
  PROVE  Inv'
<1>1. PICK plan : plan = (IF cur[c].executed # 0 THEN <<"fetch">> ELSE << >>) \o <<"advance">>
  OBVIOUS
<1>2. /\ plan \in Seq(Steps) /\ PlanOK("nextset", plan) /\ Head(plan) \in {"fetch", "advance"}
      /\ \A n \in Nat : QueriesFit(plan, n)
  BY <1>1, NextsetPlan
<1>3. /\ run' = [who |-> c, method |-> "nextset", plan |-> plan, size |-> None,
                 exc |-> "none", own |-> TRUE, out |-> None]
      /\ Idle /\ my' = Stale(my) /\ cur' = cur
  BY <1>1 DEF Nextset, Begin, NoRun
<1>4. "nextset" \in Methods /\ "none" \in Exceptions /\ my.stmt \in Nat
  BY BaseIs DEF Methods, Exceptions, Inv
<1> QED
  BY <1>2, <1>3, <1>4, PlainBeginKeeps

LEMMA CallprocKeeps ==
  ASSUME Inv, NEW c \in Cursors, Callproc(c)
  PROVE  Inv'
<1>1. my.stmt \in Nat /\ MaxStatements \in Nat /\ "callproc" \in Methods /\ "none" \in Exceptions
  BY BaseIs, CursorsAssumption DEF Methods, Exceptions, Inv
<1>2. PICK args \in {FALSE, TRUE} :
        /\ my.stmt + (IF args THEN 2 ELSE 1) <= MaxStatements
        /\ Begin(c, "callproc",
                 IF args THEN QueryPlan \o <<"fetch", "advance">> \o QueryPlan
                         ELSE QueryPlan)
  BY DEF Callproc
<1>3. PICK plan : plan = IF args THEN QueryPlan \o <<"fetch", "advance">> \o QueryPlan
                                 ELSE QueryPlan
  OBVIOUS
<1>4. /\ plan \in Seq(Steps) /\ PlanOK("callproc", plan) /\ Head(plan) = "query"
      /\ QueriesFit(plan, my.stmt)
  <2>1. CASE args
    <3>1. my.stmt + 1 < MaxStatements
      BY <1>1, <1>2, <2>1
    <3> QED
      BY <1>1, <1>3, <2>1, <3>1, ArgsPlanIs
  <2>2. CASE ~args
    <3>1. my.stmt < MaxStatements
      BY <1>1, <1>2, <2>2
    <3> QED
      BY <1>1, <1>3, <2>2, <3>1, QueryPlanIs
  <2> QED
    BY <2>1, <2>2
<1>5. /\ run' = [who |-> c, method |-> "callproc", plan |-> plan, size |-> None,
                 exc |-> "none", own |-> TRUE, out |-> None]
      /\ Idle /\ my' = Stale(my) /\ cur' = cur
  BY <1>2, <1>3 DEF Callproc, Begin, NoRun
<1> QED
  BY <1>1, <1>4, <1>5, PlainBeginKeeps

LEMMA FetchKeeps ==
  ASSUME Inv, NEW c \in Cursors, NEW method \in FetchMethods, Fetch(c, method)
  PROVE  Inv'
<1>1. PICK size \in SizesOf(method) :
        run' = [NoRun EXCEPT !.who = c, !.method = method, !.plan = <<"fetch">>,
                             !.size = size]
  BY DEF Fetch
<1>2. size \in (Nat \ {0}) \cup {None} /\ method \in Methods /\ "none" \in Exceptions /\ my.stmt \in Nat
  BY <1>1, CursorsAssumption, BaseIs DEF SizesOf, Methods, Exceptions, Inv
<1>3. PICK plan : plan = <<"fetch">>
  OBVIOUS
<1>4. /\ plan \in Seq(Steps) /\ PlanOK(method, plan) /\ Head(plan) = "fetch"
      /\ QueriesFit(plan, my.stmt)
  BY <1>2, <1>3, FetchPlan
<1>5. /\ run' = [who |-> c, method |-> method, plan |-> plan, size |-> size,
                 exc |-> "none", own |-> TRUE, out |-> None]
      /\ Idle /\ my' = Stale(my) /\ cur' = cur
  BY <1>1, <1>3 DEF Fetch, NoRun
<1>6. method # "execute"
  OBVIOUS
<1> QED
  BY <1>2, <1>4, <1>5, <1>6, PlainBeginKeeps

(* A method that raises at once.                                           *)
LEMMA FailsKeeps ==
  ASSUME Inv, NEW c \in Cursors, NEW method \in FetchMethods \cup {"callproc"},
         Fails(c, method, "programming")
  PROVE  Inv'
<1>1. PICK plan : plan = << >>
  OBVIOUS
<1>2. /\ plan \in Seq(Steps) /\ PlanOK(method, plan) /\ QueriesFit(plan, my.stmt)
  <2>1. my.stmt \in Nat
    BY BaseIs DEF Inv
  <2> QED
    BY <1>1, <2>1, EmptyPlan
<1>3. /\ run' = [who |-> c, method |-> method, plan |-> plan, size |-> None,
                 exc |-> "programming", own |-> TRUE, out |-> None]
      /\ Idle /\ my' = my /\ cur' = cur
  BY <1>1 DEF Fails, NoRun
<1>4. method \in Methods /\ "programming" \in Exceptions /\ method # "execute"
  BY DEF Methods, Exceptions
<1> QED
  BY <1>1, <1>2, <1>3, <1>4, PlainBeginKeeps

LEMMA ScrollKeeps ==
  ASSUME Inv, NEW c \in Cursors, NEW r \in Offsets, Scroll(c, r)
  PROVE  Inv'
<1>0. /\ Base /\ Now = "end" /\ Idle /\ my' = my /\ my.stmt \in Nat /\ SessionOK(my)
      /\ cur \in [Cursors -> CursorStates] /\ CursorTyped(c) /\ CursorOK(c)
      /\ ~Streams(c) /\ r \in Nat
  BY BaseIs, CursorsAssumption DEF Inv, Scroll, Base, CursorInv
<1>1. PICK outcome \in {"programming", "type", "index", "none"} :
        /\ run' = [NoRun EXCEPT !.who = c, !.method = "scroll", !.exc = outcome]
        /\ cur' = IF outcome = "none" THEN [cur EXCEPT ![c].rownumber = r] ELSE cur
        /\ outcome = "none" => cur[c].rows # None /\ ~(r >= Len(cur[c].rows))
  BY DEF Scroll
<1>2. PICK plan : plan = << >>
  OBVIOUS
<1>3. plan \in Seq(Steps) /\ PlanOK("scroll", plan) /\ QueriesFit(plan, my.stmt)
  BY <1>0, <1>2, EmptyPlan
<1>4. /\ run' = [who |-> c, method |-> "scroll", plan |-> plan, size |-> None,
                 exc |-> outcome, own |-> TRUE, out |-> None]
  BY <1>1, <1>2 DEF NoRun
<1>5. "scroll" \in Methods /\ outcome \in Exceptions /\ run'.who = c
  BY <1>4 DEF Methods, Exceptions
<1>6. Now' = "end"
  BY <1>2, <1>4 DEF Now, Idle
<1>7. CASE cur' = cur
  BY <1>0, <1>2, <1>3, <1>4, <1>5, <1>7, PlainBeginKeeps
<1>8. CASE outcome = "none"
  <2>1. PICK new : new = [cur[c] EXCEPT !.rownumber = r]
    OBVIOUS
  <2>2. cur' = [cur EXCEPT ![c] = new]
    BY <1>0, <1>1, <1>8, <2>1 DEF CursorStates
  <2>3. /\ new \in CursorStates /\ new.result = cur[c].result /\ new.rows = cur[c].rows
        /\ new.executed = cur[c].executed /\ new.description = cur[c].description
        /\ new.unconverted = cur[c].unconverted /\ new.rownumber = r
    BY <1>0, <2>1 DEF CursorStates
  <2>4. /\ cur' \in [Cursors -> CursorStates] /\ cur'[c] = new
        /\ \A d \in Cursors : d # c => cur'[d] = cur[d]
    BY <1>0, <2>2, <2>3
  <2>5. CursorTyped(c)'
    <3>1. Len(cur[c].rows) \in Nat /\ r < Len(cur[c].rows)
      <4>1. cur[c].rows \in Seq(StoredRows) /\ ~(r >= Len(cur[c].rows))
        BY <1>0, <1>1, <1>8 DEF CursorStates
      <4> QED
        BY <1>0, <4>1
    <3> QED
      BY <1>0, <2>3, <2>4, <3>1 DEF CursorTyped, Streams
  <2>6. CursorOK(c)'
    <3>1. ~Reading(cur[c].result)
      BY <1>0 DEF Inv, StreamInv
    <3> QED
      BY <1>0, <1>6, <2>3, <2>4, <3>1 DEF CursorOK, Doing
  <2>7. SamePlace(my, my')
    BY <1>0 DEF SamePlace
  <2> QED
    BY <1>0, <1>2, <1>3, <1>4, <1>5, <2>3, <2>4, <2>5, <2>6, <2>7, BeginKeeps
<1> QED
  BY <1>1, <1>7, <1>8

-----------------------------------------------------------------------------
(* The steps of a method.                                                  *)
LEMMA StepFacts ==
  ASSUME Inv, NEW c \in Cursors, NEW step \in Steps, Active(c, step)
  PROVE  /\ Base /\ StreamInv /\ CursorInv /\ OutInv /\ SyncInv /\ ExecuteInv
         /\ SessionOK(my) /\ RunOK /\ ~Idle /\ run.who = c /\ Now = step
         /\ run.method \in Methods /\ step \in MethodSteps(run.method) /\ run.out = None
         /\ my.stmt \in Nat /\ my.read \in Nat
         /\ CursorTyped(c) /\ CursorOK(c) /\ cur[c] \in CursorStates
         /\ cur \in [Cursors -> CursorStates]
         /\ my.status = "get_result" => step \in {"get", "drain"}
<1>1. /\ Base /\ StreamInv /\ CursorInv /\ OutInv /\ SyncInv /\ ExecuteInv
      /\ SessionOK(my) /\ RunOK /\ cur \in [Cursors -> CursorStates]
  BY DEF Inv, Base
<1>2. step # "end"
  BY DEF Steps
<1>3. Doing(c, step) /\ ~Idle
  BY <1>1, <1>2, BaseIs DEF Active
<1> QED
  BY <1>1, <1>2, <1>3, BaseIs DEF Doing, CursorInv, StreamInv, OutInv

(* What the methods may be that have a step.                               *)
LEMMA MethodOf ==
  ASSUME NEW m \in Methods, NEW step \in MethodSteps(m)
  PROVE  /\ step \in {"discard", "next", "drain"} => m \in {"execute", "close"}
         /\ step = "detach" => m = "close"
         /\ step = "mogrify" => m = "execute"
         /\ step \in {"query", "executed"} => m \in {"execute", "callproc"}
         /\ step \in {"get", "post"} => m \in {"execute", "callproc", "nextset"}
         /\ step = "advance" => m \in {"callproc", "nextset"}
         /\ step = "fetch" => m \in {"callproc", "nextset"} \cup FetchMethods
  BY StepsOf DEF Methods

(* The parts of a step put together.                                       *)
LEMMA StepKeeps ==
  ASSUME Inv, NEW c \in Cursors, run.who = c, Now # "end",
         SessionOK(my'), my'.stmt \in Nat, my.stmt <= my'.stmt, my'.stmt <= MaxStatements,
         cur' \in [Cursors -> CursorStates],
         \A d \in Cursors : d # c => cur'[d] = cur[d],
         CursorTyped(c)', CursorOK(c)',
         \A d \in Cursors : d # c /\ Reading(cur[d].result) => my'.read = my.read,
         RunOK', SameRun, QueriesFit(run'.plan, my'.stmt),
         StreamInv', OutInv', SyncInv', ExecuteInv'
  PROVE  Inv'
<1>1. Base /\ CursorInv /\ run'.who = c
  BY DEF Inv, SameRun
<1>2. (\A d \in Cursors : CursorTyped(d)') /\ CursorInv'
  BY <1>1, OtherCursors
<1>3. Base'
  BY <1>2 DEF Base
<1> QED
  BY <1>2, <1>3 DEF Inv

(* How a step may end: the plan goes on, or the method raises.             *)
LEMMA StepProceeds ==
  ASSUME Inv, NEW c \in Cursors, NEW step \in Steps, Active(c, step), Proceed
  PROVE  /\ RunOK' /\ SameRun /\ run'.exc = run.exc /\ run'.own = run.own
         /\ run'.out = None /\ OutInv'
         /\ run'.plan = Tail(run.plan)
         /\ StepRow(run.method, step, Now')
         /\ Now' # "end" => Now' = run.plan[2]
         /\ \A n \in Nat : QueriesFit(run.plan, n) =>
              /\ QueriesFit(run'.plan, n)
              /\ step = "query" => n < MaxStatements /\ QueriesFit(run'.plan, n + 1)
<1>1. /\ RunOK /\ ~Idle /\ Now = step /\ run.out = None /\ run.plan \in Seq(Steps)
      /\ run.plan # << >> /\ Head(run.plan) = step
  BY StepFacts DEF RunOK, Runs, Idle, Active
<1>2. /\ RunOK' /\ SameRun /\ run'.exc = run.exc /\ run'.own = run.own
      /\ run'.out = None /\ run'.plan = Tail(run.plan)
      /\ StepRow(run.method, step, Now')
      /\ Now' # "end" => Now' = run.plan[2]
  BY <1>1, ProceedIs
<1>3. OutInv'
  BY <1>2 DEF OutInv
<1>4. \A n \in Nat : QueriesFit(run.plan, n) =>
              /\ QueriesFit(run'.plan, n)
              /\ step = "query" => n < MaxStatements /\ QueriesFit(run'.plan, n + 1)
  BY <1>1, <1>2, QueriesTail
<1> QED
  BY <1>2, <1>3, <1>4

LEMMA StepRaises ==
  ASSUME Inv, NEW c \in Cursors, NEW step \in Steps, Active(c, step),
         NEW exc \in Exceptions, NEW own \in BOOLEAN, Raise(exc, own)
  PROVE  /\ RunOK' /\ SameRun /\ run'.exc = exc /\ run'.own = own
         /\ run'.out = None /\ OutInv'
         /\ Now' = IF run.method = "close" THEN "detach" ELSE "end"
         /\ \A n \in Nat : QueriesFit(run'.plan, n)
<1>1. RunOK /\ ~Idle /\ run.out = None
  BY StepFacts
<1>2. /\ RunOK' /\ SameRun /\ run'.exc = exc /\ run'.own = own /\ run'.out = None
      /\ Now' = IF run.method = "close" THEN "detach" ELSE "end"
      /\ \A n \in Nat : QueriesFit(run'.plan, n)
  BY <1>1, RaiseIs
<1> QED
  BY <1>2 DEF OutInv

(* A method of c that ends without a result, or raises: execute() does not *)
(* raise "sync" of its own accord.                                         *)
LEMMA ErrorTyped ==
  ASSUME NEW s, SessionOK(s)
  PROVE  s.err.code \in Exceptions /\ s.err.fresh \in BOOLEAN
  BY DEF SessionOK, Sessions, Exceptions

(* What becomes of the streams when c drops its result object.             *)
LEMMA FreedStreams ==
  ASSUME Base, StreamInv, NEW c \in Cursors, my' = Freed(my, cur[c].result),
         \A d \in Cursors : d # c => cur'[d] = cur[d], ~Reading(cur'[c].result),
         Now \notin {"get", "drain"}, Now' \notin {"get", "drain"}
  PROVE  /\ StreamInv' /\ SessionOK(my') /\ my'.stmt = my.stmt
         /\ \A d \in Cursors : d # c /\ Reading(cur[d].result) => my'.read = my.read
<1>1. CASE Reading(cur[c].result)
  <2>1. /\ SessionOK(my') /\ SamePlace(my, my') /\ my'.status = "ready"
        /\ \A d \in Cursors : Reading(cur[d].result) => d = c
    BY <1>1, FreedIs
  <2>2. \A d \in Cursors : ~Reading(cur'[d].result)
    BY <2>1
  <2> QED
    BY <2>1, <2>2, NoStreams DEF SamePlace
<1>2. CASE ~Reading(cur[c].result)
  <2>1. my' = my /\ SessionOK(my)
    BY <1>2, FreedIs DEF Base
  <2>2. StreamInv'
    BY <1>2, <2>1, SameStreams DEF StreamInv
  <2> QED
    BY <2>1, <2>2
<1> QED
  BY <1>1, <1>2

LEMMA DiscardKeeps ==
  ASSUME Inv, NEW c \in Cursors, Discard(c)
  PROVE  Inv'
<1>0. Active(c, "discard") /\ "discard" \in Steps
  BY DEF Discard, Steps
<1>1. /\ Base /\ StreamInv /\ SyncInv /\ RunOK /\ SessionOK(my)
      /\ run.who = c /\ Now = "discard" /\ my.stmt \in Nat
      /\ CursorTyped(c) /\ CursorOK(c) /\ cur[c] \in CursorStates
      /\ cur \in [Cursors -> CursorStates] /\ run.method \in {"execute", "close"}
  BY <1>0, StepFacts, MethodOf
<1>2. cur[c].result # None /\ cur[c].result \in StreamResults
  BY <1>1 DEF CursorOK, Doing, CursorStates
<1>3. /\ my' = Freed(my, cur[c].result)
      /\ IF my'.err.code = "none"
           THEN cur' = [cur EXCEPT ![c].result = None] /\ Proceed
           ELSE cur' = [cur EXCEPT ![c].result.eof = TRUE] /\ RaiseError(my')
  BY DEF Discard
<1>4. SessionOK(my') /\ my'.stmt = my.stmt
  BY <1>1, <1>3, FreedIs DEF SamePlace
<1>13. PICK result : result = IF my'.err.code = "none" THEN None
                                 ELSE [cur[c].result EXCEPT !.eof = TRUE]
  OBVIOUS
<1>5. ~Reading(result) /\ result \in StreamResults \cup {None}
  <2>1. PICK old \in StreamResults : old = cur[c].result
    BY <1>2
  <2>2. PICK read : read = [old EXCEPT !.eof = TRUE]
    OBVIOUS
  <2>3. read \in StreamResults /\ read.eof = TRUE
    BY <2>1, <2>2 DEF StreamResults
  <2>4. result = None \/ result = read
    BY <1>13, <2>1, <2>2
  <2> QED
    BY <2>3, <2>4 DEF Reading
<1>6. PICK new : new = [cur[c] EXCEPT !.result = result]
  OBVIOUS
<1>7. cur' = [cur EXCEPT ![c] = new]
  BY <1>1, <1>3, <1>6, <1>13 DEF CursorStates
<1>8. /\ new \in CursorStates /\ new.result = result /\ new.open = cur[c].open
      /\ new.rows = cur[c].rows /\ new.rownumber = cur[c].rownumber
      /\ new.executed = cur[c].executed /\ new.description = cur[c].description
      /\ new.unconverted = cur[c].unconverted
  BY <1>1, <1>5, <1>6 DEF CursorStates
<1>9. /\ cur' \in [Cursors -> CursorStates] /\ cur'[c] = new
      /\ \A d \in Cursors : d # c => cur'[d] = cur[d]
  BY <1>1, <1>7, <1>8
<1>10. CursorTyped(c)'
  BY <1>1, <1>4, <1>8, <1>9 DEF CursorTyped, Streams
<1>11. CASE my'.err.code = "none"
  <2>1. /\ RunOK' /\ SameRun /\ OutInv' /\ run'.exc = run.exc
        /\ StepRow(run.method, "discard", Now') /\ (Now' # "end" => Now' = run.plan[2])
        /\ QueriesFit(run'.plan, my'.stmt)
    BY <1>0, <1>1, <1>3, <1>4, <1>11, StepProceeds DEF Base
  <2>2. /\ Now' \in {"next", "mogrify", "detach"}
        /\ run.method = "execute" => Now' \in {"next", "mogrify"}
    BY <2>1 DEF StepRow
  <2>3. CursorOK(c)'
    BY <1>1, <1>5, <1>8, <1>9, <2>2 DEF CursorOK, Doing
  <2>4. SyncInv'
    BY <1>1, <1>8, <1>9, <1>11, <1>13, <2>1, <2>2 DEF SyncInv, SameRun
  <2>5. ExecuteInv'
    BY <2>1, <2>2 DEF ExecuteInv, SameRun
  <2>6. /\ StreamInv'
        /\ \A d \in Cursors : d # c /\ Reading(cur[d].result) => my'.read = my.read
    BY <1>1, <1>3, <1>5, <1>8, <1>9, <2>2, FreedStreams
  <2> QED
    BY <1>1, <1>4, <1>9, <1>10, <2>1, <2>3, <2>4, <2>5, <2>6, StepKeeps DEF Base
<1>12. CASE my'.err.code # "none"
  <2>0. my'.err.code \in Exceptions /\ my'.err.fresh \in BOOLEAN
    BY <1>4, ErrorTyped
  <2>1. /\ RunOK' /\ SameRun /\ OutInv' /\ run'.exc = my'.err.code /\ run'.own = my'.err.fresh
        /\ Now' = IF run.method = "close" THEN "detach" ELSE "end"
        /\ QueriesFit(run'.plan, my'.stmt)
    BY <1>0, <1>1, <1>3, <1>4, <1>12, <2>0, StepRaises DEF RaiseError
  <2>2. CursorOK(c)'
    BY <1>1, <1>5, <1>8, <1>9, <2>1 DEF CursorOK, Doing
  <2>3. SyncInv'
    <3>1. run.method = "execute" => ~(my'.err.code = "sync" /\ my'.err.fresh)
      BY <1>1, <1>3, FreedIs DEF SyncInv, JustFailed
    <3> QED
      BY <1>1, <2>1, <3>1 DEF SyncInv, SameRun
  <2>4. ExecuteInv'
    BY <1>12, <2>1 DEF ExecuteInv, SameRun
  <2>5. /\ StreamInv'
        /\ \A d \in Cursors : d # c /\ Reading(cur[d].result) => my'.read = my.read
    BY <1>1, <1>3, <1>5, <1>8, <1>9, <2>1, FreedStreams
  <2> QED
    BY <1>1, <1>4, <1>9, <1>10, <2>1, <2>2, <2>3, <2>4, <2>5, StepKeeps DEF Base
<1> QED
  BY <1>11, <1>12

(* The session of the streams after next_result().                         *)
LEMMA NextResultStreams ==
  ASSUME Base, StreamInv, my' = NextResult(my), cur' = cur, Now \notin {"get", "drain"},
         IF NextResultReturns(my) = "set" THEN Now' \in {"get", "drain"}
                                          ELSE Now' \notin {"get", "drain"}
  PROVE  /\ StreamInv'
         /\ \A c \in Cursors : Reading(cur[c].result) => my'.read = my.read
<1>0. SessionOK(my) /\ my.status # "get_result"
  BY DEF Base, StreamInv
<1>1. CASE my.status # "ready"
  <2>1. /\ SamePlace(my, my') /\ my'.status = my.status /\ my'.read = my.read
        /\ NextResultReturns(my) = "error"
    BY <1>0, <1>1, NextResultIs
  <2>2. StreamInv'
    BY <1>0, <2>1, SameStreams DEF SamePlace
  <2> QED
    BY <2>1, <2>2
<1>2. CASE my.status = "ready"
  <2>1. \A c \in Cursors : ~Reading(cur[c].result)
    BY <1>2, Nobody
  <2>2. \/ NextResultReturns(my) = "set" /\ Announced(my')
        \/ NextResultReturns(my) # "set" /\ my'.status = "ready"
    BY <1>0, <1>2, NextResultIs
  <2>3. StreamInv'
    BY <2>1, <2>2, NoStreams DEF Announced
  <2> QED
    BY <2>1, <2>3
<1> QED
  BY <1>1, <1>2

LEMMA DiscardNextKeeps ==
  ASSUME Inv, NEW c \in Cursors, DiscardNext(c)
  PROVE  Inv'
<1>0. Active(c, "next") /\ "next" \in Steps
  BY DEF DiscardNext, Steps
<1>1. /\ Base /\ StreamInv /\ SyncInv /\ RunOK /\ SessionOK(my)
      /\ run.who = c /\ Now = "next" /\ my.stmt \in Nat /\ run.out = None
      /\ CursorTyped(c) /\ CursorOK(c) /\ QueriesFit(run.plan, my.stmt)
      /\ cur \in [Cursors -> CursorStates] /\ run.method \in {"execute", "close"}
      /\ my.status # "get_result"
  BY <1>0, StepFacts, MethodOf DEF Base
<1>2. my' = NextResult(my) /\ cur' = cur
  BY DEF DiscardNext
<1>3. /\ SessionOK(my') /\ my'.stmt = my.stmt
      /\ my'.err.code \in Exceptions /\ my'.err.fresh \in BOOLEAN
  BY <1>1, <1>2, NextResultIs, ErrorTyped
<1>4. CASE NextResultReturns(my) = "set"
  <2>1. Then(<<"drain">> \o run.plan)
    BY <1>4 DEF DiscardNext
  <2>2. /\ RunOK' /\ SameRun /\ run'.exc = run.exc /\ run'.own = run.own
        /\ run'.out = None /\ Now' = "drain" /\ QueriesFit(run'.plan, my'.stmt)
    BY <1>1, <1>3, <2>1, DrainIs
  <2>3. /\ StreamInv'
        /\ \A d \in Cursors : Reading(cur[d].result) => my'.read = my.read
    BY <1>1, <1>2, <1>4, <2>2, NextResultStreams
  <2>4. CursorTyped(c)' /\ CursorOK(c)'
    BY <1>1, <1>2, <1>3, <2>2, <2>3, SameCursor DEF Doing
  <2>5. OutInv'
    BY <2>2 DEF OutInv
  <2>6. SyncInv'
    BY <1>1, <1>2, <2>2 DEF SyncInv, SameRun
  <2>7. ExecuteInv'
    BY <2>2 DEF ExecuteInv
  <2> QED
    BY <1>1, <1>2, <1>3, <2>2, <2>3, <2>4, <2>5, <2>6, <2>7, StepKeeps DEF Base
<1>5. CASE NextResultReturns(my) = "no more"
  <2>1. Proceed
    BY <1>5 DEF DiscardNext
  <2>2. /\ RunOK' /\ SameRun /\ OutInv' /\ run'.exc = run.exc
        /\ StepRow(run.method, "next", Now')
        /\ QueriesFit(run'.plan, my'.stmt)
    BY <1>0, <1>1, <1>3, <2>1, StepProceeds
  <2>3. Now' \in {"mogrify", "detach"} /\ (run.method = "execute" => Now' = "mogrify")
    BY <1>1, <2>2 DEF StepRow
  <2>4. /\ StreamInv'
        /\ \A d \in Cursors : Reading(cur[d].result) => my'.read = my.read
    BY <1>1, <1>2, <1>5, <2>3, NextResultStreams
  <2>5. CursorTyped(c)' /\ CursorOK(c)'
    BY <1>1, <1>2, <1>3, <2>3, <2>4, SameCursor DEF Doing
  <2>6. SyncInv'
    <3>1. my'.status = "ready" /\ ~MoreResults(my')
      BY <1>1, <1>2, <1>5, NextResultIs
    <3> QED
      BY <1>1, <1>2, <2>2, <2>3, <3>1 DEF SyncInv, SameRun
  <2>7. ExecuteInv'
    BY <2>2, <2>3 DEF ExecuteInv, SameRun
  <2> QED
    BY <1>1, <1>2, <1>3, <2>2, <2>4, <2>5, <2>6, <2>7, StepKeeps DEF Base
<1>6. CASE NextResultReturns(my) \notin {"set", "no more"}
  <2>1. RaiseError(my')
    BY <1>6 DEF DiscardNext
  <2>2. /\ RunOK' /\ SameRun /\ OutInv' /\ run'.exc = my'.err.code
        /\ Now' = IF run.method = "close" THEN "detach" ELSE "end"
        /\ QueriesFit(run'.plan, my'.stmt)
    BY <1>0, <1>1, <1>3, <2>1, StepRaises DEF RaiseError
  <2>3. /\ StreamInv'
        /\ \A d \in Cursors : Reading(cur[d].result) => my'.read = my.read
    BY <1>1, <1>2, <1>6, <2>2, NextResultStreams
  <2>4. CursorTyped(c)' /\ CursorOK(c)'
    BY <1>1, <1>2, <1>3, <2>2, <2>3, SameCursor DEF Doing
  <2>5. ASSUME run.method = "execute", my'.err.code = "sync"
        PROVE  \E d \in Cursors \ {c} : Reading(cur[d].result)
    <3>1. my.status # "ready"
      BY <1>1, <1>2, <1>6, <2>5, NextResultIs DEF JustFailed
    <3>2. my.status = "use_result"
      BY <1>1, <3>1, BaseIs
    <3>3. PICK d \in Cursors : Reading(cur[d].result)
      BY <1>1, <3>2 DEF StreamInv
    <3>4. cur[c].result = None
      BY <1>1, <2>5 DEF SyncInv
    <3> QED
      BY <3>3, <3>4 DEF Reading
  <2>6. SyncInv'
    BY <1>1, <1>2, <2>2, <2>5 DEF SyncInv, SameRun
  <2>7. ExecuteInv'
    <3>1. my'.err.code # "none"
      BY <1>1, <1>2, <1>6, NextResultIs DEF JustFailed
    <3> QED
      BY <2>2, <3>1 DEF ExecuteInv, SameRun
  <2> QED
    BY <1>1, <1>2, <1>3, <2>2, <2>3, <2>4, <2>6, <2>7, StepKeeps DEF Base
<1> QED
  BY <1>4, <1>5, <1>6

(* discard_result() takes the result set that was announced to its end.    *)
LEMMA DrainedIs ==
  ASSUME NEW s, SessionOK(s), Announced(s)
  PROVE  LET used == UseResult(s)
             t == IF TakesResult(s, used) THEN EndOfRows(used) ELSE used
         IN /\ SessionOK(t) /\ SamePlace(s, t) /\ NoMoreThan(s, t) /\ t.status = "ready"
            /\ t.err = s.err \/ JustFailed(t, {"server", "lost"})
<1>1. PICK used : used = UseResult(s)
  OBVIOUS
<1>2. /\ SessionOK(used) /\ SamePlace(s, used) /\ NoMoreThan(s, used)
      /\ used.err = s.err
      /\ TakesResult(s, used) \/ used.status = "ready"
  BY <1>1, UseResultIs
<1>3. CASE TakesResult(s, used)
  BY <1>1, <1>2, <1>3, EndOfRowsIs DEF SamePlace, NoMoreThan
<1>4. CASE ~TakesResult(s, used)
  BY <1>1, <1>2, <1>4
<1> QED
  BY <1>3, <1>4

LEMMA DiscardResultKeeps ==
  ASSUME Inv, NEW c \in Cursors, DiscardResult(c)
  PROVE  Inv'
<1>0. Active(c, "drain") /\ "drain" \in Steps
  BY DEF DiscardResult, Steps
<1>1. /\ Base /\ StreamInv /\ SyncInv /\ RunOK /\ SessionOK(my)
      /\ run.who = c /\ Now = "drain" /\ my.stmt \in Nat
      /\ CursorTyped(c) /\ CursorOK(c) /\ QueriesFit(run.plan, my.stmt)
      /\ cur \in [Cursors -> CursorStates] /\ run.method \in {"execute", "close"}
      /\ Announced(my) /\ my.status # "use_result"
  BY <1>0, StepFacts, MethodOf DEF Base, StreamInv, Announced
<1>2. my' = LET used == UseResult(my)
            IN IF TakesResult(my, used) THEN EndOfRows(used) ELSE used
  BY DEF DiscardResult
<1>3. /\ SessionOK(my') /\ my'.stmt = my.stmt /\ my'.status = "ready"
      /\ my'.err.code = "none" \/ JustFailed(my', {"server", "lost"})
      /\ my'.err.code \in Exceptions /\ my'.err.fresh \in BOOLEAN
  BY <1>1, <1>2, DrainedIs, ErrorTyped DEF SamePlace, Announced
<1>4. cur' = cur /\ \A d \in Cursors : ~Reading(cur[d].result)
  BY <1>1, Nobody DEF DiscardResult
<1>5. CASE my'.err.code = "none"
  <2>1. Proceed
    BY <1>5 DEF DiscardResult
  <2>2. /\ RunOK' /\ SameRun /\ OutInv' /\ run'.exc = run.exc
        /\ StepRow(run.method, "drain", Now')
        /\ QueriesFit(run'.plan, my'.stmt)
    BY <1>0, <1>1, <1>3, <2>1, StepProceeds
  <2>3. Now' = "next"
    BY <2>2 DEF StepRow
  <2>4. StreamInv'
    BY <1>3, <1>4, <2>3, NoStreams
  <2>5. CursorTyped(c)' /\ CursorOK(c)'
    BY <1>1, <1>3, <1>4, <2>3, SameCursor DEF Doing
  <2>6. SyncInv'
    BY <1>1, <1>4, <2>2, <2>3 DEF SyncInv, SameRun
  <2>7. ExecuteInv'
    BY <2>3 DEF ExecuteInv
  <2> QED
    BY <1>1, <1>3, <1>4, <2>2, <2>4, <2>5, <2>6, <2>7, StepKeeps DEF Base
<1>6. CASE my'.err.code # "none"
  <2>1. RaiseError(my')
    BY <1>6 DEF DiscardResult
  <2>2. /\ RunOK' /\ SameRun /\ OutInv' /\ run'.exc = my'.err.code
        /\ Now' = IF run.method = "close" THEN "detach" ELSE "end"
        /\ QueriesFit(run'.plan, my'.stmt)
    BY <1>0, <1>1, <1>3, <2>1, StepRaises DEF RaiseError
  <2>4. StreamInv'
    BY <1>3, <1>4, <2>2, NoStreams
  <2>5. CursorTyped(c)' /\ CursorOK(c)'
    BY <1>1, <1>3, <1>4, <2>2, SameCursor DEF Doing
  <2>6. SyncInv'
    BY <1>1, <1>3, <1>6, <2>2 DEF SyncInv, SameRun, JustFailed
  <2>7. ExecuteInv'
    BY <1>6, <2>2 DEF ExecuteInv, SameRun
  <2> QED
    BY <1>1, <1>3, <1>4, <2>2, <2>4, <2>5, <2>6, <2>7, StepKeeps DEF Base
<1> QED
  BY <1>5, <1>6

LEMMA DetachKeeps ==
  ASSUME Inv, NEW c \in Cursors, Detach(c)
  PROVE  Inv'
<1>0. Active(c, "detach") /\ "detach" \in Steps
  BY DEF Detach, Steps
<1>1. /\ Base /\ StreamInv /\ RunOK /\ SessionOK(my) /\ ~Idle
      /\ run.who = c /\ Now = "detach" /\ my.stmt \in Nat /\ run.out = None
      /\ CursorTyped(c) /\ CursorOK(c) /\ cur[c] \in CursorStates
      /\ cur \in [Cursors -> CursorStates] /\ run.method = "close"
  BY <1>0, StepFacts, MethodOf
<1>2. my' = Freed(my, cur[c].result) /\ Then(<< >>)
  BY DEF Detach
<1>3. SessionOK(my') /\ my'.stmt = my.stmt
  BY <1>1, <1>2, FreedIs DEF SamePlace
<1>4. PICK new : new = [cur[c] EXCEPT !.open = FALSE, !.result = None]
  OBVIOUS
<1>5. cur' = [cur EXCEPT ![c] = new]
  BY <1>1, <1>4 DEF Detach, CursorStates
<1>6. /\ new \in CursorStates /\ new.result = None
      /\ new.rows = cur[c].rows /\ new.rownumber = cur[c].rownumber
      /\ new.executed = cur[c].executed /\ new.description = cur[c].description
      /\ new.unconverted = cur[c].unconverted
  BY <1>1, <1>4 DEF CursorStates
<1>7. /\ cur' \in [Cursors -> CursorStates] /\ cur'[c] = new
      /\ \A d \in Cursors : d # c => cur'[d] = cur[d]
  BY <1>1, <1>5, <1>6
<1>8. /\ RunOK' /\ SameRun /\ run'.out = None /\ Now' = "end"
      /\ QueriesFit(run'.plan, my'.stmt)
  BY <1>1, <1>2, <1>3, DetachIs
<1>9. CursorTyped(c)'
  BY <1>1, <1>3, <1>6, <1>7 DEF CursorTyped, Streams
<1>10. ~Reading(cur'[c].result)
  BY <1>6, <1>7 DEF Reading
<1>11. CursorOK(c)'
  BY <1>1, <1>6, <1>7, <1>8, <1>10 DEF CursorOK, Doing
<1>12. OutInv' /\ SyncInv' /\ ExecuteInv'
  BY <1>1, <1>8 DEF OutInv, SyncInv, ExecuteInv, SameRun
<1>13. /\ StreamInv'
       /\ \A d \in Cursors : d # c /\ Reading(cur[d].result) => my'.read = my.read
  BY <1>1, <1>2, <1>7, <1>8, <1>10, FreedStreams
<1> QED
  BY <1>1, <1>3, <1>7, <1>8, <1>9, <1>11, <1>12, <1>13, StepKeeps DEF Base

LEMMA MogrifyKeeps ==
  ASSUME Inv, NEW c \in Cursors, Mogrify(c)
  PROVE  Inv'
<1>0. Active(c, "mogrify") /\ "mogrify" \in Steps
  BY DEF Mogrify, Steps
<1>1. /\ Base /\ StreamInv /\ SyncInv /\ RunOK /\ SessionOK(my)
      /\ run.who = c /\ Now = "mogrify" /\ my.stmt \in Nat
      /\ CursorTyped(c) /\ CursorOK(c) /\ QueriesFit(run.plan, my.stmt)
      /\ cur \in [Cursors -> CursorStates] /\ run.method = "execute"
      /\ my.status # "get_result"
  BY <1>0, StepFacts, MethodOf DEF Base
<1>2. my' = my /\ cur' = cur
  BY DEF Mogrify
<1>3. ASSUME cur[c].open, Proceed PROVE Inv'
  <2>1. /\ RunOK' /\ SameRun /\ OutInv' /\ run'.exc = run.exc
        /\ StepRow(run.method, "mogrify", Now')
        /\ QueriesFit(run'.plan, my'.stmt)
    BY <1>0, <1>1, <1>2, <1>3, StepProceeds
  <2>2. Now' = "query"
    BY <2>1 DEF StepRow
  <2>3. StreamInv'
    BY <1>1, <1>2, <2>2, SameStreams
  <2>4. CursorTyped(c)' /\ CursorOK(c)'
    BY <1>1, <1>2, <2>2, SameCursor DEF Doing
  <2>5. SyncInv'
    BY <1>1, <1>2, <1>3, <2>1, <2>2 DEF SyncInv, SameRun
  <2>6. ExecuteInv'
    BY <2>2 DEF ExecuteInv
  <2> QED
    BY <1>1, <1>2, <2>1, <2>3, <2>4, <2>5, <2>6, StepKeeps DEF Base
<1>4. ASSUME Raise("programming", TRUE) PROVE Inv'
  <2>0. "programming" \in Exceptions
    BY DEF Exceptions
  <2>1. /\ RunOK' /\ SameRun /\ OutInv' /\ run'.exc = "programming"
        /\ Now' = "end" /\ QueriesFit(run'.plan, my'.stmt)
    BY <1>0, <1>1, <1>2, <1>4, <2>0, StepRaises
  <2>2. StreamInv'
    BY <1>1, <1>2, <2>1, SameStreams
  <2>3. CursorTyped(c)' /\ CursorOK(c)'
    BY <1>1, <1>2, <2>1, SameCursor DEF Doing
  <2>4. SyncInv' /\ ExecuteInv'
    BY <2>1 DEF SyncInv, ExecuteInv
  <2> QED
    BY <1>1, <1>2, <2>1, <2>2, <2>3, <2>4, StepKeeps DEF Base
<1> QED
  BY <1>3, <1>4 DEF Mogrify

(* A cursor of which only the result object has gone.                      *)
LEMMA DroppedIs ==
  ASSUME NEW c \in Cursors, cur \in [Cursors -> CursorStates],
         cur' = [cur EXCEPT ![c].result = None]
  PROVE  /\ cur' \in [Cursors -> CursorStates]
         /\ \A d \in Cursors : d # c => cur'[d] = cur[d]
         /\ cur'[c].result = None /\ ~Reading(cur'[c].result)
         /\ cur'[c].open = cur[c].open
         /\ cur'[c].rows = cur[c].rows /\ cur'[c].rownumber = cur[c].rownumber
         /\ cur'[c].executed = cur[c].executed /\ cur'[c].description = cur[c].description
         /\ cur'[c].unconverted = cur[c].unconverted
<1>1. PICK new : new = [cur[c] EXCEPT !.result = None]
  OBVIOUS
<1>2. cur' = [cur EXCEPT ![c] = new]
  BY <1>1 DEF CursorStates
<1>3. /\ new \in CursorStates /\ new.result = None /\ new.open = cur[c].open
      /\ new.rows = cur[c].rows /\ new.rownumber = cur[c].rownumber
      /\ new.executed = cur[c].executed /\ new.description = cur[c].description
      /\ new.unconverted = cur[c].unconverted
  BY <1>1 DEF CursorStates
<1>4. /\ cur' \in [Cursors -> CursorStates] /\ cur'[c] = new
      /\ \A d \in Cursors : d # c => cur'[d] = cur[d]
  BY <1>2, <1>3
<1> QED
  BY <1>3, <1>4 DEF Reading

(* What the server may answer is well-formed, to callproc's SET as well. *)
LEMMA AnswersAre ==
  ASSUME NEW answer \in AnswersNow
  PROVE  IsAnswer(answer)
<1>1. ASSUME NEW set \in {OkSet, ErrorSet}
      PROVE  IsAnswer(<<set>>)
  <2>1. set \in ResultSets
    BY DEF OkSet, ErrorSet, ResultSets
  <2>2. /\ <<set>> \in Seq(ResultSets) /\ <<set>> # << >> /\ Len(<<set>>) = 1
    BY <2>1
  <2> QED
    BY <2>2 DEF IsAnswer
<1>2. CASE Setting
  BY <1>1, <1>2 DEF AnswersNow
<1>3. CASE ~Setting
  BY <1>3, CursorsAssumption DEF AnswersNow
<1> QED
  BY <1>2, <1>3

(* The session after db.query(q), from the one before the result object of *)
(* the cursor went.                                                        *)
LEMMA QueriedIs ==
  ASSUME Base, StreamInv, NEW c \in Cursors, NEW answer, IsAnswer(answer),
         Now \notin {"get", "drain"},
         my' = RealQuery(Freed(my, cur[c].result), answer)
  PROVE  /\ SessionOK(my')
         /\ \/ /\ my'.stmt = my.stmt + 1 /\ my'.at = 1
               /\ my'.status # "use_result"
               /\ my.status = "ready" \/ Reading(cur[c].result)
               /\ Announced(my') \/ (JustFailed(my', {"server"}) /\ my'.status = "ready")
            \/ /\ my'.stmt = my.stmt
               /\ my'.status = "ready"
               /\ my.status = "ready" \/ Reading(cur[c].result)
               /\ JustFailed(my', {"lost", "sync"})
               /\ my'.err.code = "sync" => MoreResults(my) \/ Reading(cur[c].result)
            \/ /\ my'.stmt = my.stmt /\ my'.at = my.at
               /\ my'.status = my.status /\ my'.read = my.read
               /\ my.status = "use_result" /\ ~Reading(cur[c].result)
               /\ JustFailed(my', {"sync"})
<1>0. SessionOK(my) /\ my.status # "get_result"
      /\ my.status \in {"ready", "get_result", "use_result"}
  BY BaseIs DEF Base, StreamInv
<1>1. PICK s : s = Freed(my, cur[c].result)
  OBVIOUS
<1>2. /\ SessionOK(s) /\ s.stmt = my.stmt /\ s.at = my.at
      /\ ~Reading(cur[c].result) => s = my
      /\ Reading(cur[c].result) => s.status = "ready"
  BY <1>1, FreedIs DEF SamePlace
<1>3. my' = RealQuery(s, answer)
  BY <1>1
<1>4. /\ SessionOK(my')
      /\ \/ /\ s.status = "ready"
            /\ my'.stmt = s.stmt + 1 /\ my'.at = 1 /\ my'.status # "use_result"
            /\ Announced(my') \/ (JustFailed(my', {"server"}) /\ my'.status = "ready")
         \/ /\ s.status = "ready"
            /\ my'.stmt = s.stmt /\ my'.status = "ready"
            /\ JustFailed(my', {"lost"})
         \/ /\ s.status # "ready" \/ MoreResults(s)
            /\ my'.stmt = s.stmt /\ my'.at = s.at /\ my'.read = s.read
            /\ my'.status = s.status
            /\ JustFailed(my', {"sync"})
  <2>1. PICK t : t = RealQuery(s, answer)
    OBVIOUS
  <2>2. /\ SessionOK(t)
        /\ \/ /\ s.status = "ready"
              /\ t.stmt = s.stmt + 1 /\ t.at = 1 /\ t.status # "use_result"
              /\ Announced(t) \/ (JustFailed(t, {"server"}) /\ t.status = "ready")
           \/ /\ s.status = "ready"
              /\ SamePlace(s, t) /\ t.status = "ready"
              /\ JustFailed(t, {"lost"})
           \/ /\ s.status # "ready" \/ MoreResults(s)
              /\ SamePlace(s, t) /\ t.read = s.read
              /\ t.status = s.status
              /\ JustFailed(t, {"sync"})
    <3>1. LET q == RealQuery(s, answer)
          IN /\ SessionOK(q)
             /\ \/ /\ s.status = "ready" /\ ~MoreResults(s)
                   /\ q.stmt = s.stmt + 1 /\ q.at = 1 /\ q.status # "use_result"
                   /\ q.read = 0
                   /\ \/ Announced(q)
                      \/ /\ JustFailed(q, {"server"}) /\ ~MoreResults(q)
                         /\ q.status = "ready"
                \/ /\ s.status = "ready"
                   /\ SamePlace(s, q) /\ NoMoreThan(s, q) /\ q.read = s.read
                   /\ q.status = "ready"
                   /\ JustFailed(q, {"lost"})
                \/ /\ s.status # "ready" \/ MoreResults(s)
                   /\ SamePlace(s, q) /\ NoMoreThan(s, q) /\ q.read = s.read
                   /\ q.status = s.status /\ q.fields = s.fields
                   /\ JustFailed(q, {"sync"})
      <4>1. SessionOK(s) /\ IsAnswer(answer)
        BY <1>0, <1>2
      <4> QED
        BY <4>1, RealQueryIs, Zenon
    <3> QED
      BY <2>1, <3>1
  <2> QED
    BY <1>3, <2>1, <2>2 DEF SamePlace
<1>5. CASE s.status = "ready"
  BY <1>0, <1>2, <1>4, <1>5 DEF JustFailed
<1>6. CASE s.status # "ready"
  BY <1>0, <1>2, <1>4, <1>6 DEF JustFailed
<1> QED
  BY <1>5, <1>6

LEMMA QueryKeeps ==
  ASSUME Inv, NEW c \in Cursors, Query(c)
  PROVE  Inv'
<1>0. Active(c, "query") /\ "query" \in Steps
  BY DEF Query, Steps
<1>1. /\ Base /\ StreamInv /\ SyncInv /\ RunOK /\ SessionOK(my)
      /\ run.who = c /\ Now = "query" /\ my.stmt \in Nat
      /\ CursorTyped(c) /\ CursorOK(c) /\ QueriesFit(run.plan, my.stmt)
      /\ cur[c] \in CursorStates
      /\ cur \in [Cursors -> CursorStates] /\ run.method \in {"execute", "callproc"}
      /\ my.stmt < MaxStatements /\ MaxStatements \in Nat
  <2>1. /\ Base /\ StreamInv /\ SyncInv /\ RunOK /\ SessionOK(my)
        /\ run.who = c /\ Now = "query" /\ my.stmt \in Nat
        /\ CursorTyped(c) /\ CursorOK(c) /\ QueriesFit(run.plan, my.stmt)
        /\ cur[c] \in CursorStates
        /\ cur \in [Cursors -> CursorStates] /\ run.method \in {"execute", "callproc"}
    BY <1>0, StepFacts, MethodOf DEF Base
  <2>2. run.plan \in Seq(Steps) /\ run.plan # << >> /\ Head(run.plan) = "query"
    BY <1>0 DEF Active, Idle, Inv, Base, RunOK, Runs
  <2> QED
    BY <2>1, <2>2, QueriesTail, CursorsAssumption
<1>2. PICK answer \in AnswersNow : my' = RealQuery(Freed(my, cur[c].result), answer)
  BY DEF Query
<1>3. /\ SessionOK(my')
      /\ \/ /\ my'.stmt = my.stmt + 1 /\ my'.at = 1
            /\ my'.status # "use_result"
            /\ my.status = "ready" \/ Reading(cur[c].result)
            /\ Announced(my') \/ (JustFailed(my', {"server"}) /\ my'.status = "ready")
         \/ /\ my'.stmt = my.stmt
            /\ my'.status = "ready"
            /\ my.status = "ready" \/ Reading(cur[c].result)
            /\ JustFailed(my', {"lost", "sync"})
            /\ my'.err.code = "sync" => MoreResults(my) \/ Reading(cur[c].result)
         \/ /\ my'.stmt = my.stmt /\ my'.at = my.at
            /\ my'.status = my.status /\ my'.read = my.read
            /\ my.status = "use_result" /\ ~Reading(cur[c].result)
            /\ JustFailed(my', {"sync"})
  <2>1. IsAnswer(answer)
    BY AnswersAre
  <2> QED
    BY <1>1, <1>2, <2>1, QueriedIs
<1>4. /\ my'.stmt \in Nat /\ my.stmt <= my'.stmt /\ my'.stmt <= MaxStatements
      /\ my'.err.code \in Exceptions /\ my'.err.fresh \in BOOLEAN
  BY <1>1, <1>3, ErrorTyped
<1>5. /\ cur' \in [Cursors -> CursorStates]
      /\ \A d \in Cursors : d # c => cur'[d] = cur[d]
      /\ ~Reading(cur'[c].result)
      /\ cur'[c].rows = cur[c].rows /\ cur'[c].rownumber = cur[c].rownumber
      /\ cur'[c].executed = cur[c].executed /\ cur'[c].description = cur[c].description
      /\ cur'[c].unconverted = cur[c].unconverted
  BY <1>1, DroppedIs DEF Query
<1>6. CursorTyped(c)'
  BY <1>1, <1>4, <1>5 DEF CursorTyped, Streams, CursorStates, SetIds
<1>7. \A d \in Cursors : d # c /\ Reading(cur[d].result) => my'.read = my.read
  BY <1>1, <1>3 DEF StreamInv
<1>8. ASSUME Now' \in {"get", "end"}, Now' = "get" => Announced(my'),
             Now' = "end" => my'.err.code # "none"
      PROVE  StreamInv' /\ CursorOK(c)'
  <2>1. my'.status = "get_result" => Announced(my')
    BY <1>1, <1>3 DEF StreamInv
  <2>2. my'.status = "get_result" => Now' = "get"
    BY <1>8, <2>1 DEF Announced
  <2>3. CursorOK(c)'
    BY <1>1, <1>5, <1>8 DEF CursorOK, Doing
  <2>4. CASE my'.status # "use_result"
    <3>1. \A d \in Cursors : ~Reading(cur'[d].result)
      BY <1>1, <1>3, <1>5, <2>4 DEF StreamInv
    <3> QED
      BY <1>8, <2>2, <2>3, <2>4, <3>1, NoStreams
  <2>5. CASE my'.status = "use_result"
    <3>1. /\ my'.stmt = my.stmt /\ my'.at = my.at /\ my'.status = my.status
          /\ ~Reading(cur[c].result)
      BY <1>3, <2>5 DEF Announced
    <3>2. \A d \in Cursors : /\ Reading(cur'[d].result) <=> Reading(cur[d].result)
                             /\ Reading(cur'[d].result) => cur'[d].result = cur[d].result
      BY <1>5, <3>1
    <3> QED
      BY <1>1, <1>8, <2>2, <2>3, <3>1, <3>2, SameStreams
  <2> QED
    BY <2>4, <2>5
<1>9. CASE my'.err.code = "none"
  <2>1. Announced(my') /\ my'.stmt = my.stmt + 1 /\ my'.at = 1 /\ Proceed
    BY <1>3, <1>9 DEF JustFailed, Query
  <2>2. /\ RunOK' /\ SameRun /\ OutInv' /\ run'.exc = run.exc
        /\ StepRow(run.method, "query", Now')
        /\ QueriesFit(run'.plan, my'.stmt)
    BY <1>0, <1>1, <2>1, StepProceeds
  <2>3. Now' = "get"
    BY <2>2 DEF StepRow
  <2>4. SyncInv'
    BY <1>1, <2>2, <2>3 DEF SyncInv, SameRun
  <2>5. ExecuteInv'
    BY <2>1, <2>3 DEF ExecuteInv
  <2> QED
    BY <1>1, <1>3, <1>4, <1>5, <1>6, <1>7, <1>8, <2>1, <2>2, <2>3, <2>4, <2>5, StepKeeps
<1>10. CASE my'.err.code # "none"
  <2>1. /\ RunOK' /\ SameRun /\ OutInv' /\ run'.exc = my'.err.code
        /\ Now' = "end" /\ QueriesFit(run'.plan, my'.stmt)
    BY <1>0, <1>1, <1>4, <1>10, StepRaises DEF RaiseError, Query
  <2>2. ASSUME run.method = "execute" PROVE my'.err.code # "sync"
    <3>1. my.status = "ready" /\ ~MoreResults(my)
      BY <1>1, <2>2 DEF SyncInv
    <3>2. ~Reading(cur[c].result)
      BY <1>1, <3>1, Nobody
    <3> QED
      BY <1>3, <3>1, <3>2 DEF JustFailed, Announced
  <2>3. SyncInv' /\ ExecuteInv'
    BY <1>1, <1>10, <2>1, <2>2 DEF SyncInv, ExecuteInv, SameRun
  <2> QED
    BY <1>1, <1>3, <1>4, <1>5, <1>6, <1>7, <1>8, <1>10, <2>1, <2>3, StepKeeps
<1> QED
  BY <1>9, <1>10

LEMMA GetResultKeeps ==
  ASSUME Inv, NEW c \in Cursors, GetResult(c)
  PROVE  Inv'
<1>0. Active(c, "get") /\ "get" \in Steps
  BY DEF GetResult, Steps
<1>1. /\ Base /\ StreamInv /\ SyncInv /\ ExecuteInv /\ RunOK /\ SessionOK(my)
      /\ run.who = c /\ Now = "get" /\ my.stmt \in Nat /\ my.at \in Nat
      /\ CursorTyped(c) /\ CursorOK(c) /\ QueriesFit(run.plan, my.stmt)
      /\ cur[c] \in CursorStates
      /\ cur \in [Cursors -> CursorStates]
      /\ run.method \in {"execute", "callproc", "nextset"}
      /\ Announced(my) /\ my.stmt <= MaxStatements
  BY <1>0, StepFacts, MethodOf, BaseIs DEF Base, StreamInv
<1>2. \A d \in Cursors : ~Reading(cur[d].result)
  BY <1>1, Nobody DEF Announced
<1>3. PICK after : after = IF Streams(c) THEN UseResult(my) ELSE StoreResult(my)
  OBVIOUS
<1>4. /\ SessionOK(after) /\ SamePlace(my, after) /\ after.stmt = my.stmt /\ after.at = my.at
      /\ after.read = 0
      /\ after.err.code \in Exceptions /\ after.err.fresh \in BOOLEAN
      /\ \/ /\ TakesResult(my, after) /\ after.err = my.err
            /\ IF Streams(c) THEN after.status = "use_result"
                             ELSE after.status = "ready" /\ after.cut = "no"
         \/ ~TakesResult(my, after) /\ after = my /\ after.status = "ready"
         \/ /\ ~TakesResult(my, after) /\ after.status = "ready"
            /\ JustFailed(after, {"server", "lost"})
  BY <1>1, <1>3, UseResultIs, StoreResultIs, ErrorTyped DEF SamePlace
<1>5. my.err.code = "none" /\ my.stmt > 0 /\ None \notin SetIds \cup Nat
  BY <1>1, CursorsAssumption DEF Announced
<1>6. PICK set \in SetIds : set = SetId(my) /\ set[1] = my.stmt /\ SetId(after) = set
  BY <1>1, <1>4 DEF SetIds, SetId
<1>7. ASSUME Proceed, my' = after
      PROVE  /\ RunOK' /\ SameRun /\ OutInv' /\ run'.exc = run.exc
             /\ Now' = "post" /\ run'.who = c /\ QueriesFit(run'.plan, my'.stmt) /\ SyncInv'
  <2>1. /\ RunOK' /\ SameRun /\ OutInv' /\ run'.exc = run.exc
        /\ StepRow(run.method, "get", Now')
        /\ QueriesFit(run'.plan, my'.stmt)
    BY <1>0, <1>1, <1>4, <1>7, StepProceeds
  <2>2. Now' = "post"
    BY <2>1 DEF StepRow
  <2> QED
    BY <1>1, <2>1, <2>2 DEF SyncInv, SameRun
<1>8. ASSUME NEW result \in StreamResults \cup {None},
             NEW description \in SetIds \cup {None},
             cur' = [cur EXCEPT ![c].description = description, ![c].result = result,
                                ![c].rownumber = 0]
      PROVE  /\ cur' \in [Cursors -> CursorStates]
             /\ \A d \in Cursors : d # c => cur'[d] = cur[d]
             /\ cur'[c].result = result /\ cur'[c].description = description
             /\ cur'[c].rownumber = 0
             /\ cur'[c].rows = cur[c].rows /\ cur'[c].executed = cur[c].executed
  <2>1. PICK new : new = [cur[c] EXCEPT !.description = description, !.result = result,
                                        !.rownumber = 0]
    OBVIOUS
  <2>2. cur' = [cur EXCEPT ![c] = new]
    BY <1>1, <1>8, <2>1 DEF CursorStates
  <2>3. /\ new \in CursorStates /\ new.result = result /\ new.description = description
        /\ new.rownumber = 0 /\ new.rows = cur[c].rows /\ new.executed = cur[c].executed
    BY <1>1, <2>1 DEF CursorStates
  <2>4. /\ cur' \in [Cursors -> CursorStates] /\ cur'[c] = new
        /\ \A d \in Cursors : d # c => cur'[d] = cur[d]
    BY <1>1, <2>2, <2>3
  <2> QED
    BY <2>3, <2>4
<1>9. ASSUME TakesResult(my, after), my' = after, Proceed,
             cur' = [cur EXCEPT ![c].description = set,
                                ![c].result = [set |-> set, eof |-> ~Streams(c)],
                                ![c].rownumber = 0]
      PROVE  Inv'
  <2>0. PICK eof \in BOOLEAN : eof = ~Streams(c)
    BY DEF Streams
  <2>9. PICK result : result = [set |-> set, eof |-> eof]
    OBVIOUS
  <2>10. result \in StreamResults /\ result.set = set /\ result.eof = eof
    BY <2>0, <2>9 DEF StreamResults
  <2>11. [set |-> set, eof |-> ~Streams(c)] = [set |-> set, eof |-> eof]
    BY <2>0, Zenon
  <2>1. /\ result \in StreamResults /\ result = [set |-> set, eof |-> ~Streams(c)]
        /\ result.set = set /\ (result.eof <=> ~Streams(c))
    BY <2>0, <2>9, <2>10, <2>11, Zenon
  <2>2. result # None
    BY <2>10, CursorsAssumption
  <2>3. /\ cur' \in [Cursors -> CursorStates]
        /\ \A d \in Cursors : d # c => cur'[d] = cur[d]
        /\ cur'[c].result = result /\ cur'[c].description = set
        /\ cur'[c].rownumber = 0
        /\ cur'[c].rows = cur[c].rows /\ cur'[c].executed = cur[c].executed
    BY <1>8, <1>9, <2>1
  <2>4. Reading(cur'[c].result) <=> Streams(c)
    BY <2>1, <2>2, <2>3 DEF Reading
  <2>5. CursorTyped(c)'
    <3>1. cur[c].rows # None => 0 \in 0..Len(cur[c].rows) /\ ~Streams(c)
      BY <1>1 DEF CursorTyped, CursorStates
    <3> QED
      BY <1>1, <1>4, <1>5, <1>6, <1>9, <2>3, <3>1 DEF CursorTyped, Streams
  <2>6. CursorOK(c)'
    BY <1>4, <1>5, <1>7, <1>9, <2>1, <2>2, <2>3 DEF CursorOK, Doing
  <2>7. StreamInv'
    <3>1. CASE Streams(c)
      <4>1. \A d \in Cursors : Reading(cur'[d].result) <=> d = c
        BY <1>2, <2>3, <2>4, <3>1
      <4>2. my'.status = "use_result" /\ SetId(my') = set /\ Now' = "post"
        BY <1>4, <1>6, <1>7, <1>9, <3>1
      <4> QED
        BY <2>1, <2>3, <3>1, <4>1, <4>2 DEF StreamInv, Streams
    <3>2. CASE ~Streams(c)
      <4>1. \A d \in Cursors : ~Reading(cur'[d].result)
        BY <1>2, <2>3, <2>4, <3>2
      <4>2. my'.status = "ready" /\ Now' = "post"
        BY <1>4, <1>7, <1>9, <3>2
      <4> QED
        BY <4>1, <4>2, NoStreams
    <3> QED
      BY <3>1, <3>2
  <2>8. ExecuteInv'
    <3>1. run.method = "execute" => my.at = 1
      BY <1>1 DEF ExecuteInv
    <3>2. run.method = "execute" => set = <<my.stmt, 1>>
      BY <1>6, <3>1 DEF SetId
    <3> QED
      BY <1>1, <1>4, <1>6, <1>7, <1>9, <2>1, <2>2, <2>3, <3>1, <3>2
        DEF ExecuteInv, SameRun, Streams
  <2> QED
    BY <1>1, <1>2, <1>4, <1>7, <1>9, <2>3, <2>5, <2>6, <2>7, <2>8, StepKeeps
<1>10. ASSUME ~TakesResult(my, after), after.err.code = "none",
              my' = Freed(after, cur[c].result), Proceed,
              cur' = [cur EXCEPT ![c].description = None, ![c].result = None,
                                 ![c].rownumber = 0]
       PROVE  Inv'
  <2>1. my' = after /\ my'.status = "ready"
    BY <1>2, <1>4, <1>10 DEF Freed, JustFailed
  <2>3. /\ cur' \in [Cursors -> CursorStates]
        /\ \A d \in Cursors : d # c => cur'[d] = cur[d]
        /\ cur'[c].result = None /\ cur'[c].description = None
        /\ cur'[c].rownumber = 0
        /\ cur'[c].rows = cur[c].rows /\ cur'[c].executed = cur[c].executed
    BY <1>8, <1>10
  <2>4. \A d \in Cursors : ~Reading(cur'[d].result)
    BY <1>2, <2>3 DEF Reading
  <2>5. CursorTyped(c)'
    <3>1. cur[c].rows # None => 0 \in 0..Len(cur[c].rows) /\ ~Streams(c)
      BY <1>1 DEF CursorTyped, CursorStates
    <3> QED
      BY <1>1, <1>4, <2>1, <2>3, <3>1 DEF CursorTyped, Streams
  <2>6. CursorOK(c)'
    BY <1>7, <1>10, <2>1, <2>3, <2>4 DEF CursorOK, Doing
  <2>7. StreamInv'
    BY <1>7, <1>10, <2>1, <2>4, NoStreams
  <2>8. ExecuteInv'
    BY <1>1, <1>4, <1>7, <1>10, <2>1, <2>3 DEF ExecuteInv, SameRun
  <2> QED
    BY <1>1, <1>2, <1>4, <1>7, <1>10, <2>1, <2>3, <2>5, <2>6, <2>7, <2>8, StepKeeps
<1>11. ASSUME ~TakesResult(my, after), after.err.code # "none", my' = after,
              RaiseError(after), cur' = cur
       PROVE  Inv'
  <2>1. /\ RunOK' /\ SameRun /\ OutInv' /\ run'.exc = after.err.code
        /\ Now' = "end" /\ QueriesFit(run'.plan, my'.stmt)
    BY <1>0, <1>1, <1>4, <1>11, StepRaises DEF RaiseError
  <2>2. my'.status = "ready" /\ after.err.code # "sync"
    BY <1>4, <1>5, <1>11 DEF JustFailed
  <2>3. StreamInv'
    BY <1>2, <1>11, <2>1, <2>2, NoStreams
  <2>4. CursorTyped(c)' /\ CursorOK(c)'
    BY <1>1, <1>2, <1>4, <1>11, <2>1, SameCursor DEF Doing
  <2>5. SyncInv' /\ ExecuteInv'
    BY <1>11, <2>1, <2>2 DEF SyncInv, ExecuteInv, SameRun
  <2> QED
    BY <1>1, <1>2, <1>4, <1>11, <2>1, <2>3, <2>4, <2>5, StepKeeps
<1> QED
  BY <1>3, <1>6, <1>9, <1>10, <1>11 DEF GetResult

(* The rows that are numbered from one place of a result set to another.   *)
LEMMA RowsOfIs ==
  ASSUME NEW set \in SetIds, NEW from \in Nat, NEW to \in Nat, from <= to
  PROVE  LET rows == RowsOf(set, from, to)
         IN /\ rows \in Seq(StoredRows) /\ Len(rows) = to - from
            /\ \A i \in 1..Len(rows) : /\ <<rows[i][1], rows[i][2]>> = set
                                       /\ rows[i][3] = from + i
<1>1. PICK n \in Nat : n = to - from
  OBVIOUS
<1>2. PICK rows : rows = [i \in 1..n |-> <<set[1], set[2], from + i>>]
  OBVIOUS
<1>3. rows = RowsOf(set, from, to)
  BY <1>1, <1>2 DEF RowsOf
<1>4. \A i \in 1..n : <<set[1], set[2], from + i>> \in StoredRows
  BY DEF StoredRows, SetIds
<1>5. rows \in Seq(StoredRows) /\ Len(rows) = n
  <2>1. rows \in [1..n -> StoredRows]
    BY <1>2, <1>4
  <2> QED
    BY <2>1, IsASeq
<1>6. \A i \in 1..n : rows[i] = <<set[1], set[2], from + i>>
  BY <1>2
<1>7. <<set[1], set[2]>> = set
  BY DEF SetIds
<1> QED
  BY <1>1, <1>3, <1>5, <1>6, <1>7

LEMMA PostGetResultKeeps ==
  ASSUME Inv, NEW c \in Cursors, PostGetResult(c)
  PROVE  Inv'
<1>0. Active(c, "post") /\ "post" \in Steps
  BY DEF PostGetResult, Steps
<1>1. /\ Base /\ StreamInv /\ SyncInv /\ ExecuteInv /\ RunOK /\ SessionOK(my)
      /\ run.who = c /\ Now = "post" /\ my.stmt \in Nat
      /\ CursorTyped(c) /\ CursorOK(c) /\ QueriesFit(run.plan, my.stmt)
      /\ cur[c] \in CursorStates
      /\ cur \in [Cursors -> CursorStates]
      /\ run.method \in {"execute", "callproc", "nextset"}
      /\ my.stmt <= MaxStatements /\ my.status # "get_result"
      /\ CurrentSet(my).n \in Nat
  BY <1>0, StepFacts, MethodOf, BaseIs DEF Base
<1>2. my' = my
  BY DEF PostGetResult
<1>3. /\ cur[c].rownumber = 0
      /\ cur[c].result # None => cur[c].result.set = cur[c].description
      /\ cur[c].result = None => cur[c].description = None
      /\ ~Streams(c) => ~Reading(cur[c].result)
  BY <1>1 DEF CursorOK, Doing, StreamInv
<1>4. ASSUME Proceed
      PROVE  /\ RunOK' /\ SameRun /\ OutInv' /\ run'.exc = run.exc /\ run'.who = c
             /\ Now' \in {"executed", "query", "end"} /\ QueriesFit(run'.plan, my'.stmt)
             /\ run.method = "execute" => Now' = "executed"
             /\ SyncInv'
  <2>1. /\ RunOK' /\ SameRun /\ OutInv' /\ run'.exc = run.exc
        /\ StepRow(run.method, "post", Now')
        /\ QueriesFit(run'.plan, my'.stmt)
    BY <1>0, <1>1, <1>2, <1>4, StepProceeds
  <2>2. /\ Now' \in {"executed", "query", "end"}
        /\ run.method = "execute" => Now' = "executed"
    BY <2>1 DEF StepRow
  <2> QED
    BY <1>1, <2>1, <2>2 DEF SyncInv, SameRun
<1>5. ASSUME Streams(c), Proceed, cur' = cur PROVE Inv'
  <2>1. StreamInv'
    BY <1>1, <1>2, <1>4, <1>5, SameStreams
  <2>2. CursorTyped(c)'
    BY <1>1, <1>2, <1>5 DEF CursorTyped, Streams
  <2>3. CursorOK(c)'
    BY <1>1, <1>2, <1>4, <1>5 DEF CursorOK, Doing, CursorTyped, Streams
  <2>4. ExecuteInv'
    BY <1>1, <1>2, <1>4, <1>5 DEF ExecuteInv, SameRun, Streams, SetId
  <2> QED
    BY <1>1, <1>2, <1>4, <1>5, <2>1, <2>2, <2>3, <2>4, StepKeeps
<1>6. PICK rows : rows = IF cur[c].result = None THEN << >>
                         ELSE RowsOf(cur[c].result.set, 0, CurrentSet(my).n)
  OBVIOUS
<1>7. /\ rows \in Seq(StoredRows)
      /\ \A i \in 1..Len(rows) : /\ <<rows[i][1], rows[i][2]>> = cur[c].description
                                 /\ rows[i][3] = i
      /\ cur[c].result # None => Len(rows) = CurrentSet(my).n
  <2>1. CASE cur[c].result = None
    <3>1. rows = << >>
      BY <1>6, <2>1
    <3> QED
      BY <2>1, <3>1
  <2>2. CASE cur[c].result # None
    <3>1. PICK set \in SetIds : set = cur[c].result.set
      BY <1>1, <2>2 DEF CursorStates, StreamResults
    <3>2. rows = RowsOf(set, 0, CurrentSet(my).n)
      BY <1>6, <2>2, <3>1
    <3>3. /\ rows \in Seq(StoredRows) /\ Len(rows) = CurrentSet(my).n - 0
          /\ \A i \in 1..Len(rows) : /\ <<rows[i][1], rows[i][2]>> = set
                                     /\ rows[i][3] = 0 + i
      BY <1>1, <3>2, RowsOfIs
    <3> QED
      BY <1>1, <1>3, <2>2, <3>1, <3>3
  <2> QED
    BY <2>1, <2>2
<1>8. ASSUME ~Streams(c), Proceed,
             cur' = [cur EXCEPT ![c].rows = rows, ![c].result = None,
                                ![c].unconverted = FALSE]
      PROVE  Inv'
  <2>1. PICK new : new = [cur[c] EXCEPT !.rows = rows, !.result = None,
                                        !.unconverted = FALSE]
    OBVIOUS
  <2>2. cur' = [cur EXCEPT ![c] = new]
    BY <1>1, <1>8, <2>1 DEF CursorStates
  <2>3. /\ new \in CursorStates /\ new.result = None /\ new.rows = rows
        /\ new.rownumber = 0 /\ new.description = cur[c].description
        /\ new.executed = cur[c].executed
    BY <1>1, <1>3, <1>7, <2>1 DEF CursorStates
  <2>4. /\ cur' \in [Cursors -> CursorStates] /\ cur'[c] = new
        /\ \A d \in Cursors : d # c => cur'[d] = cur[d]
    BY <1>1, <2>2, <2>3
  <2>5. StreamInv'
    <3>1. \A d \in Cursors : /\ Reading(cur'[d].result) <=> Reading(cur[d].result)
                             /\ Reading(cur'[d].result) => cur'[d].result = cur[d].result
      BY <1>3, <1>8, <2>3, <2>4 DEF Reading
    <3> QED
      BY <1>1, <1>2, <1>4, <1>8, <3>1, SameStreams
  <2>6. CursorTyped(c)'
    <3>1. 0 \in 0..Len(rows)
      BY <1>7
    <3> QED
      BY <1>1, <1>2, <1>8, <2>3, <2>4, <3>1 DEF CursorTyped, Streams
  <2>7. CursorOK(c)'
    BY <1>2, <1>4, <1>7, <1>8, <2>3, <2>4 DEF CursorOK, Doing, Reading
  <2>8. ExecuteInv'
    <3>1. None \notin Seq(StoredRows)
      BY CursorsAssumption
    <3> QED
      BY <1>1, <1>2, <1>4, <1>7, <1>8, <2>3, <2>4, <3>1 DEF ExecuteInv, SameRun, Streams
  <2> QED
    BY <1>1, <1>2, <1>4, <1>8, <2>4, <2>5, <2>6, <2>7, <2>8, StepKeeps
<1>9. ASSUME ~Streams(c), Raise("converter", TRUE),
             cur' = [cur EXCEPT ![c].unconverted = TRUE]
      PROVE  Inv'
  <2>0. "converter" \in Exceptions
    BY DEF Exceptions
  <2>1. PICK new : new = [cur[c] EXCEPT !.unconverted = TRUE]
    OBVIOUS
  <2>2. cur' = [cur EXCEPT ![c] = new]
    BY <1>1, <1>9, <2>1 DEF CursorStates
  <2>3. /\ new \in CursorStates /\ new.result = cur[c].result /\ new.rows = cur[c].rows
        /\ new.rownumber = 0 /\ new.description = cur[c].description
        /\ new.executed = cur[c].executed /\ new.unconverted
    BY <1>1, <1>3, <2>1 DEF CursorStates
  <2>4. /\ cur' \in [Cursors -> CursorStates] /\ cur'[c] = new
        /\ \A d \in Cursors : d # c => cur'[d] = cur[d]
    BY <1>1, <2>2, <2>3
  <2>5. /\ RunOK' /\ SameRun /\ OutInv' /\ run'.exc = "converter"
        /\ Now' = "end" /\ QueriesFit(run'.plan, my'.stmt)
    BY <1>0, <1>1, <1>2, <1>9, <2>0, StepRaises
  <2>6. StreamInv'
    <3>1. \A d \in Cursors : cur'[d].result = cur[d].result
      BY <2>3, <2>4
    <3> QED
      BY <1>1, <1>2, <2>5, <3>1, SameStreams
  <2>7. CursorTyped(c)'
    BY <1>1, <1>2, <1>3, <2>3, <2>4 DEF CursorTyped, Streams
  <2>8. CursorOK(c)'
    BY <1>3, <1>9, <2>3, <2>4, <2>5 DEF CursorOK, Doing
  <2>9. SyncInv' /\ ExecuteInv'
    BY <2>5 DEF SyncInv, ExecuteInv
  <2> QED
    BY <1>1, <1>2, <2>4, <2>5, <2>6, <2>7, <2>8, <2>9, StepKeeps
<1> QED
  BY <1>5, <1>6, <1>8, <1>9 DEF PostGetResult

LEMMA ExecutedKeeps ==
  ASSUME Inv, NEW c \in Cursors, Executed(c)
  PROVE  Inv'
<1>0. Active(c, "executed") /\ "executed" \in Steps
  BY DEF Executed, Steps
<1>1. /\ Base /\ StreamInv /\ SyncInv /\ ExecuteInv /\ RunOK /\ SessionOK(my)
      /\ run.who = c /\ Now = "executed" /\ my.stmt \in Nat
      /\ CursorTyped(c) /\ CursorOK(c) /\ QueriesFit(run.plan, my.stmt)
      /\ cur[c] \in CursorStates
      /\ cur \in [Cursors -> CursorStates] /\ run.method \in {"execute", "callproc"}
      /\ my.stmt <= MaxStatements /\ my.status # "get_result"
  BY <1>0, StepFacts, MethodOf DEF Base
<1>2. my' = my /\ Proceed
  BY DEF Executed
<1>3. PICK new : new = [cur[c] EXCEPT !.executed = my.stmt]
  OBVIOUS
<1>4. cur' = [cur EXCEPT ![c] = new]
  BY <1>1, <1>3 DEF CursorStates, Executed
<1>5. /\ new \in CursorStates /\ new.result = cur[c].result /\ new.rows = cur[c].rows
      /\ new.rownumber = cur[c].rownumber /\ new.description = cur[c].description
      /\ new.executed = my.stmt /\ new.unconverted = cur[c].unconverted
  BY <1>1, <1>3 DEF CursorStates
<1>6. /\ cur' \in [Cursors -> CursorStates] /\ cur'[c] = new
      /\ \A d \in Cursors : d # c => cur'[d] = cur[d]
  BY <1>1, <1>4, <1>5
<1>7. /\ RunOK' /\ SameRun /\ OutInv' /\ run'.exc = run.exc
      /\ StepRow(run.method, "executed", Now')
      /\ QueriesFit(run'.plan, my'.stmt)
  BY <1>0, <1>1, <1>2, StepProceeds
<1>8. Now' \in {"end", "fetch"} /\ (run.method = "execute" => Now' = "end")
  BY <1>7 DEF StepRow
<1>9. StreamInv'
  <2>1. \A d \in Cursors : cur'[d].result = cur[d].result
    BY <1>5, <1>6
  <2> QED
    BY <1>1, <1>2, <1>8, <2>1, SameStreams
<1>10. CursorTyped(c)'
  BY <1>1, <1>2, <1>5, <1>6 DEF CursorTyped, Streams
<1>11. CursorOK(c)'
  BY <1>1, <1>2, <1>5, <1>6, <1>8 DEF CursorOK, Doing
<1>12. SyncInv'
  BY <1>1, <1>7, <1>8 DEF SyncInv, SameRun
<1>13. ExecuteInv'
  BY <1>1, <1>2, <1>5, <1>6, <1>7, <1>8 DEF ExecuteInv, SameRun, Streams, SetId
<1> QED
  BY <1>1, <1>2, <1>6, <1>7, <1>9, <1>10, <1>11, <1>12, <1>13, StepKeeps

LEMMA AdvanceKeeps ==
  ASSUME Inv, NEW c \in Cursors, Advance(c)
  PROVE  Inv'
<1>0. Active(c, "advance") /\ "advance" \in Steps
  BY DEF Advance, Steps
<1>1. /\ Base /\ StreamInv /\ RunOK /\ SessionOK(my)
      /\ run.who = c /\ Now = "advance" /\ my.stmt \in Nat /\ run.out = None
      /\ CursorTyped(c) /\ CursorOK(c) /\ QueriesFit(run.plan, my.stmt)
      /\ cur \in [Cursors -> CursorStates] /\ run.method \in {"callproc", "nextset"}
      /\ my.stmt <= MaxStatements /\ my.status # "get_result"
  BY <1>0, StepFacts, MethodOf DEF Base
<1>2. cur' = cur
  BY DEF Advance
<1>3. ASSUME SessionOK(my'), my'.stmt = my.stmt, RunOK', SameRun, run'.out = None,
             Now' \notin {"discard", "post"}, QueriesFit(run'.plan, my'.stmt), StreamInv',
             \A d \in Cursors : Reading(cur[d].result) => my'.read = my.read
      PROVE  Inv'
  <2>1. CursorTyped(c)' /\ CursorOK(c)'
    BY <1>1, <1>2, <1>3, SameCursor DEF Doing
  <2>2. OutInv' /\ SyncInv' /\ ExecuteInv'
    BY <1>1, <1>3 DEF OutInv, SyncInv, ExecuteInv, SameRun
  <2> QED
    BY <1>1, <1>2, <1>3, <2>1, <2>2, StepKeeps
<1>4. ASSUME Raise("programming", TRUE), my' = my PROVE Inv'
  <2>0. "programming" \in Exceptions
    BY DEF Exceptions
  <2>1. /\ RunOK' /\ SameRun /\ run'.out = None
        /\ Now' = "end" /\ QueriesFit(run'.plan, my'.stmt)
    BY <1>0, <1>1, <1>4, <2>0, StepRaises
  <2>2. StreamInv'
    BY <1>1, <1>2, <1>4, <2>1, SameStreams
  <2> QED
    BY <1>1, <1>3, <1>4, <2>1, <2>2
<1>5. ASSUME my' = NextResult(my)
      PROVE  SessionOK(my') /\ my'.stmt = my.stmt
             /\ my'.err.code \in Exceptions /\ my'.err.fresh \in BOOLEAN
  BY <1>1, <1>5, NextResultIs, ErrorTyped
<1>6. ASSUME my' = NextResult(my), NextResultReturns(my) = "set",
             Then(<<"get", "post">> \o Tail(run.plan))
      PROVE  Inv'
  <2>1. /\ RunOK' /\ SameRun /\ run'.out = None
        /\ Now' = "get" /\ QueriesFit(run'.plan, my'.stmt)
    BY <1>1, <1>5, <1>6, GetIs
  <2>2. /\ StreamInv'
        /\ \A d \in Cursors : Reading(cur[d].result) => my'.read = my.read
    BY <1>1, <1>2, <1>6, <2>1, NextResultStreams
  <2> QED
    BY <1>3, <1>5, <1>6, <2>1, <2>2
<1>7. ASSUME my' = NextResult(my), NextResultReturns(my) = "no more", Proceed PROVE Inv'
  <2>1. /\ RunOK' /\ SameRun /\ run'.out = None
        /\ StepRow(run.method, "advance", Now') /\ QueriesFit(run'.plan, my'.stmt)
    BY <1>0, <1>1, <1>5, <1>7, StepProceeds
  <2>2. Now' \in {"end", "query"}
    BY <1>1, <2>1 DEF StepRow
  <2>3. /\ StreamInv'
        /\ \A d \in Cursors : Reading(cur[d].result) => my'.read = my.read
    BY <1>1, <1>2, <1>7, <2>2, NextResultStreams
  <2> QED
    BY <1>3, <1>5, <1>7, <2>1, <2>2, <2>3
<1>8. ASSUME my' = NextResult(my), NextResultReturns(my) \notin {"set", "no more"},
             RaiseError(my')
      PROVE  Inv'
  <2>1. /\ RunOK' /\ SameRun /\ run'.out = None
        /\ Now' = "end" /\ QueriesFit(run'.plan, my'.stmt)
    BY <1>0, <1>1, <1>5, <1>8, StepRaises DEF RaiseError
  <2>2. /\ StreamInv'
        /\ \A d \in Cursors : Reading(cur[d].result) => my'.read = my.read
    BY <1>1, <1>2, <1>8, <2>1, NextResultStreams
  <2> QED
    BY <1>3, <1>5, <1>8, <2>1, <2>2
<1>9. CASE ~cur[c].open
  BY <1>4, <1>9 DEF Advance
<1>10. CASE cur[c].open
  BY <1>6, <1>7, <1>8, <1>10 DEF Advance
<1> QED
  BY <1>9, <1>10

(* A step of a fetch that raises an error of the program's own making, and *)
(* leaves the session in the same result set.                              *)
LEMMA FetchFails ==
  ASSUME Inv, NEW c \in Cursors, Active(c, "fetch"),
         NEW exc \in Exceptions, NEW own \in BOOLEAN, Raise(exc, own),
         SessionOK(my'), my'.stmt = my.stmt,
         cur' \in [Cursors -> CursorStates],
         \A d \in Cursors : d # c => cur'[d] = cur[d],
         CursorTyped(c)',
         \A d \in Cursors : d # c /\ Reading(cur[d].result) => my'.read = my.read,
         Now' = "end" => CursorOK(c)' /\ StreamInv'
  PROVE  Inv'
<1>0. "fetch" \in Steps
  BY DEF Steps
<1>1. /\ run.who = c /\ Now = "fetch" /\ my.stmt \in Nat
      /\ run.method \in {"callproc", "nextset"} \cup FetchMethods
      /\ my.stmt <= MaxStatements
  BY <1>0, StepFacts, MethodOf DEF Base
<1>2. /\ RunOK' /\ SameRun /\ OutInv' /\ Now' = "end" /\ QueriesFit(run'.plan, my'.stmt)
  BY <1>0, <1>1, StepRaises
<1>3. SyncInv' /\ ExecuteInv'
  BY <1>1, <1>2 DEF SyncInv, ExecuteInv, SameRun
<1> QED
  BY <1>1, <1>2, <1>3, StepKeeps

(* A step of a fetch that hands out rows.                                  *)
LEMMA FetchGives ==
  ASSUME Inv, NEW c \in Cursors, Active(c, "fetch"),
         NEW rows \in Seq(StoredRows), Give(rows),
         SessionOK(my'), my'.stmt = my.stmt,
         cur' \in [Cursors -> CursorStates],
         \A d \in Cursors : d # c => cur'[d] = cur[d],
         CursorTyped(c)',
         \A d \in Cursors : d # c /\ Reading(cur[d].result) => my'.read = my.read,
         rows # << >> /\ ~cur'[c].unconverted =>
           LET this == cur'[c]
           IN /\ \A i \in 1..Len(rows) : <<rows[i][1], rows[i][2]>> = this.description
              /\ IF Streams(c) THEN Last(rows)[3] >= this.rownumber
                               ELSE Last(rows)[3] = this.rownumber,
         Now' \in {"end", "advance"} => CursorOK(c)' /\ StreamInv'
  PROVE  Inv'
<1>0. "fetch" \in Steps
  BY DEF Steps
<1>1. /\ run.who = c /\ Now = "fetch" /\ my.stmt \in Nat /\ RunOK /\ ~Idle
      /\ run.method \in {"callproc", "nextset"} \cup FetchMethods
      /\ my.stmt <= MaxStatements /\ run.out = None /\ QueriesFit(run.plan, my.stmt)
      /\ run.plan \in Seq(Steps) /\ run.plan # << >>
  BY <1>0, StepFacts, MethodOf DEF Base, RunOK, Runs, Idle
<1>2. /\ RunOK' /\ SameRun
      /\ run'.out = IF run.method \in FetchMethods THEN rows ELSE None
      /\ run'.plan = Tail(run.plan)
      /\ StepRow(run.method, "fetch", Now')
  BY <1>1, GiveIs
<1>3. /\ Now' \in {"end", "advance"}
      /\ run.method \in FetchMethods => Now' = "end"
      /\ run.method \notin FetchMethods => Now' = "advance"
  BY <1>1, <1>2 DEF StepRow
<1>4. QueriesFit(run'.plan, my'.stmt)
  BY <1>1, <1>2, QueriesTail
<1>5. OutInv'
  BY <1>1, <1>2, <1>3 DEF OutInv, SameRun, Streams
<1>6. SyncInv' /\ ExecuteInv'
  BY <1>1, <1>2 DEF SyncInv, ExecuteInv, SameRun
<1> QED
  BY <1>1, <1>2, <1>3, <1>4, <1>5, <1>6, StepKeeps

(* A part of a sequence.                                                   *)
LEMMA PartIs ==
  ASSUME NEW S, NEW all \in Seq(S), NEW from \in Nat, NEW to \in Nat,
         from <= to, to <= Len(all)
  PROVE  LET part == SubSeq(all, from + 1, to)
         IN /\ part \in Seq(S) /\ Len(part) = to - from
            /\ \A i \in 1..Len(part) : part[i] = all[from + i] /\ from + i \in 1..Len(all)
<1>1. PICK m \in Nat : m = from + 1
  OBVIOUS
<1>2. PICK part : part = SubSeq(all, m, to)
  OBVIOUS
<1>3. m \in Int /\ to \in Int /\ Len(all) \in Nat
  OBVIOUS
<1>4. \A i \in m..to : all[i] \in S
  <2> SUFFICES ASSUME NEW i \in m..to PROVE all[i] \in S
    OBVIOUS
  <2>1. i \in 1..Len(all)
    BY <1>1, <1>3
  <2> QED
    BY <2>1, ElementOfSeq
<1>5. /\ part \in Seq(S) /\ Len(part) = IF m <= to THEN to - m + 1 ELSE 0
      /\ \A i \in 1..to - m + 1 : part[i] = all[m + i - 1]
  BY <1>2, <1>3, <1>4, SubSeqProperties
<1>6. Len(part) = to - from
  BY <1>1, <1>5
<1>7. ASSUME NEW i \in 1..to - from
      PROVE  part[i] = all[from + i] /\ from + i \in 1..Len(all)
  <2>1. i \in 1..to - m + 1 /\ m + i - 1 = from + i
    BY <1>1
  <2>2. part[i] = all[m + i - 1]
    BY <1>5, <2>1
  <2> QED
    BY <1>3, <2>1, <2>2
<1> QED
  BY <1>1, <1>2, <1>5, <1>6, <1>7

LEMMA FetchStoredKeeps ==
  ASSUME Inv, NEW c \in Cursors, FetchStored(c)
  PROVE  Inv'
<1>0. Active(c, "fetch") /\ "fetch" \in Steps /\ "type" \in Exceptions /\ ~Streams(c)
  BY DEF FetchStored, Steps, Exceptions
<1>1. /\ StreamInv /\ run \in Runs /\ SessionOK(my)
      /\ run.who = c /\ Now = "fetch" /\ my.stmt \in Nat
      /\ CursorTyped(c) /\ CursorOK(c) /\ cur[c] \in CursorStates
      /\ cur \in [Cursors -> CursorStates] /\ ~Reading(cur[c].result)
      /\ my.status # "get_result"
  BY <1>0, StepFacts DEF StreamInv, RunOK
<1>2. my' = my
  BY DEF FetchStored
<1>3. ASSUME Raise("type", TRUE), cur' = cur PROVE Inv'
  <2>1. CursorTyped(c)'
    BY <1>1, <1>2, <1>3 DEF CursorTyped, Streams
  <2>2. ASSUME Now' = "end" PROVE CursorOK(c)' /\ StreamInv'
    <3>1. CursorOK(c)'
      BY <1>1, <1>3, <2>2 DEF CursorOK, Doing
    <3> QED
      BY <1>1, <1>2, <1>3, <2>2, <3>1, SameStreams
  <2> QED
    BY <1>0, <1>1, <1>2, <1>3, <2>1, <2>2, FetchFails
<1>4. PICK to : to = IF run.size = None \/ cur[c].rownumber + run.size > Len(cur[c].rows)
                       THEN Len(cur[c].rows) ELSE cur[c].rownumber + run.size
  OBVIOUS
<1>5. ASSUME cur[c].rows # None, cur' = [cur EXCEPT ![c].rownumber = to],
             Give(SubSeq(cur[c].rows, cur[c].rownumber + 1, to))
      PROVE  Inv'
  <2>1. PICK all \in Seq(StoredRows) : all = cur[c].rows
    BY <1>1, <1>5 DEF CursorStates
  <2>2. PICK from \in Nat : from = cur[c].rownumber /\ from <= Len(all) /\ Len(all) \in Nat
    BY <1>1, <1>5, <2>1 DEF CursorTyped
  <2>3. to \in Nat /\ from <= to /\ to <= Len(all)
    <3>1. CASE run.size = None
      BY <1>4, <2>1, <2>2, <3>1
    <3>2. CASE run.size # None
      <4>1. run.size \in Nat
        BY <1>1, <3>2 DEF Runs
      <4> QED
        BY <1>4, <2>1, <2>2, <3>2, <4>1
    <3> QED
      BY <3>1, <3>2
  <2>4. PICK rows : rows = SubSeq(all, from + 1, to)
    OBVIOUS
  <2>5. /\ rows \in Seq(StoredRows) /\ Len(rows) = to - from
        /\ \A i \in 1..Len(rows) : rows[i] = all[from + i] /\ from + i \in 1..Len(all)
    <3>1. LET part == SubSeq(all, from + 1, to)
          IN /\ part \in Seq(StoredRows) /\ Len(part) = to - from
             /\ \A i \in 1..Len(part) : part[i] = all[from + i] /\ from + i \in 1..Len(all)
      <4>1. from <= to /\ to <= Len(all) /\ to \in Nat
        BY <2>3
      <4> QED
        BY <4>1, PartIs, Zenon
    <3> QED
      BY <2>4, <3>1
  <2>6. PICK new : new = [cur[c] EXCEPT !.rownumber = to]
    OBVIOUS
  <2>7. cur' = [cur EXCEPT ![c] = new]
    BY <1>1, <1>5, <2>6 DEF CursorStates
  <2>8. /\ new \in CursorStates /\ new.result = cur[c].result /\ new.rows = all
        /\ new.rownumber = to /\ new.description = cur[c].description
        /\ new.executed = cur[c].executed /\ new.unconverted = cur[c].unconverted
    BY <1>1, <2>1, <2>3, <2>6 DEF CursorStates
  <2>9. /\ cur' \in [Cursors -> CursorStates] /\ cur'[c] = new
        /\ \A d \in Cursors : d # c => cur'[d] = cur[d]
    BY <1>1, <2>7, <2>8
  <2>10. CursorTyped(c)'
    BY <1>0, <1>1, <1>2, <2>3, <2>8, <2>9 DEF CursorTyped, Streams
  <2>11. ASSUME ~new.unconverted, NEW i \in 1..Len(all)
         PROVE  <<all[i][1], all[i][2]>> = new.description /\ all[i][3] = i
    BY <1>1, <1>5, <2>1, <2>8, <2>11 DEF CursorOK, Doing
  <2>12. ASSUME rows # << >>, ~new.unconverted
         PROVE  /\ \A i \in 1..Len(rows) : <<rows[i][1], rows[i][2]>> = new.description
                /\ Last(rows)[3] = to
    <3>1. Len(rows) \in 1..Len(rows) /\ Last(rows) = rows[Len(rows)]
      BY <2>5, <2>12, EmptySeq DEF Last
    <3>2. from + Len(rows) = to
      BY <2>2, <2>3, <2>5
    <3>3. rows[Len(rows)] = all[to] /\ to \in 1..Len(all)
      BY <2>5, <3>1, <3>2
    <3>4. Last(rows)[3] = to
      BY <2>11, <2>12, <3>1, <3>3
    <3>5. ASSUME NEW i \in 1..Len(rows)
          PROVE  <<rows[i][1], rows[i][2]>> = new.description
      BY <2>5, <2>11, <2>12
    <3> QED
      BY <3>4, <3>5
  <2>13. ASSUME Now' \in {"end", "advance"} PROVE CursorOK(c)' /\ StreamInv'
    <3>1. CursorOK(c)'
      BY <1>1, <2>1, <2>8, <2>9, <2>11, <2>13 DEF CursorOK, Doing
    <3>2. \A d \in Cursors : cur'[d].result = cur[d].result
      BY <2>8, <2>9
    <3> QED
      BY <1>1, <1>2, <2>13, <3>1, <3>2, SameStreams
  <2>14. Give(rows)
    BY <1>5, <2>1, <2>2, <2>4
  <2> QED
    BY <1>0, <1>1, <1>2, <2>5, <2>8, <2>9, <2>10, <2>12, <2>13, <2>14, FetchGives
<1> QED
  BY <1>3, <1>4, <1>5 DEF FetchStored

LEMMA FetchNothingKeeps ==
  ASSUME Inv, NEW c \in Cursors, FetchNothing(c)
  PROVE  Inv'
<1>0. Active(c, "fetch") /\ "fetch" \in Steps /\ {"type", "programming"} \subseteq Exceptions
  BY DEF FetchNothing, Steps, Exceptions
<1>1. /\ StreamInv /\ SessionOK(my)
      /\ run.who = c /\ Now = "fetch" /\ my.stmt \in Nat
      /\ CursorTyped(c) /\ CursorOK(c)
      /\ cur \in [Cursors -> CursorStates]
      /\ my.status # "get_result"
  BY <1>0, StepFacts
<1>2. my' = my /\ cur' = cur
  BY DEF FetchNothing
<1>3. CursorTyped(c)'
  BY <1>1, <1>2 DEF CursorTyped, Streams
<1>4. ASSUME Now' \in {"end", "advance"} PROVE CursorOK(c)' /\ StreamInv'
  <2>1. CursorOK(c)'
    BY <1>1, <1>2, <1>4 DEF CursorOK, Doing
  <2> QED
    BY <1>1, <1>2, <1>4, <2>1, SameStreams
<1>5. ASSUME NEW exc \in {"type", "programming"}, Raise(exc, TRUE) PROVE Inv'
  BY <1>0, <1>1, <1>2, <1>3, <1>4, <1>5, FetchFails
<1>6. ASSUME Give(<< >>) PROVE Inv'
  <2>1. << >> \in Seq(StoredRows)
    BY EmptySeq
  <2> QED
    BY <1>0, <1>1, <1>2, <1>3, <1>4, <1>6, <2>1, FetchGives
<1>7. Raise("type", TRUE) \/ Raise("programming", TRUE) \/ Give(<< >>)
  BY DEF FetchNothing
<1> QED
  BY <1>5, <1>6, <1>7

LEMMA FetchStreamedKeeps ==
  ASSUME Inv, NEW c \in Cursors, FetchStreamed(c)
  PROVE  Inv'
<1>0. /\ Active(c, "fetch") /\ "fetch" \in Steps /\ "type" \in Exceptions
      /\ Streams(c) /\ cur[c].result # None
  BY DEF FetchStreamed, Steps, Exceptions
<1>1. /\ Base /\ StreamInv /\ run \in Runs /\ SessionOK(my)
      /\ run.who = c /\ Now = "fetch" /\ my.stmt \in Nat /\ my.read \in Nat
      /\ CursorTyped(c) /\ CursorOK(c) /\ cur[c] \in CursorStates
      /\ cur \in [Cursors -> CursorStates]
      /\ my.status # "get_result"
  BY <1>0, StepFacts DEF RunOK
<1>2. PICK result \in StreamResults : result = cur[c].result
  BY <1>0, <1>1 DEF CursorStates
<1>3. result.set \in SetIds /\ result.eof \in BOOLEAN /\ result # None
      /\ (Reading(cur[c].result) <=> ~result.eof)
  BY <1>0, <1>2 DEF StreamResults, Reading
<1>4. PICK left : left = IF result.eof THEN 0 ELSE RowsLeft(my)
  OBVIOUS
<1>5. left \in Nat
  BY <1>1, <1>4, FetchRowsIs
<1>6. PICK n : n = IF run.size = None THEN left + 1 ELSE run.size
  OBVIOUS
<1>7. n \in Nat /\ n > 0
  <2>1. CASE run.size = None
    BY <1>5, <1>6, <2>1
  <2>2. CASE run.size # None
    <3>1. run.size \in Nat \ {0}
      BY <1>1, <2>2 DEF Runs
    <3> QED
      BY <1>6, <2>2, <3>1
  <2> QED
    BY <2>1, <2>2
<1>8. PICK got \in Nat : got = (IF n > left THEN left ELSE n) /\ got <= left
  BY <1>5, <1>7
<1>9. PICK end \in BOOLEAN : end <=> n > left
  OBVIOUS
<1>10. my' = IF result.eof THEN my ELSE FetchRows(my, n)
  BY <1>2, <1>4, <1>6 DEF FetchStreamed
<1>11. /\ SessionOK(my') /\ my'.stmt = my.stmt /\ my'.at = my.at
       /\ \/ result.eof /\ end /\ my' = my /\ got = 0
          \/ ~result.eof /\ end /\ my'.status = "ready"
          \/ ~result.eof /\ ~end /\ my'.status = my.status /\ my'.read = my.read + got
             /\ got = n
  <2>1. CASE result.eof
    <3>1. left = 0 /\ my' = my
      BY <1>4, <1>10, <2>1
    <3>2. n > left
      BY <1>7, <3>1
    <3> QED
      BY <1>1, <1>8, <1>9, <2>1, <3>1, <3>2
  <2>2. CASE ~result.eof /\ end
    <3>1. n > RowsLeft(my) /\ my' = EndOfRows(my)
      BY <1>1, <1>4, <1>7, <1>9, <1>10, <2>2, FetchRowsIs
    <3> QED
      BY <1>1, <2>2, <3>1, EndOfRowsIs DEF SamePlace
  <2>3. CASE ~result.eof /\ ~end
    <3>1. n <= RowsLeft(my) /\ got = n
      BY <1>4, <1>5, <1>7, <1>8, <1>9, <2>3
    <3> QED
      BY <1>1, <1>7, <1>10, <2>3, <3>1, FetchRowsIs DEF SamePlace
  <2> QED
    BY <1>9, <2>1, <2>2, <2>3
<1>12. \A d \in Cursors : d # c /\ Reading(cur[d].result) => my'.read = my.read
  <2>1. CASE result.eof
    BY <1>11, <2>1
  <2>2. CASE ~result.eof
    BY <1>1, <1>3, <2>2 DEF StreamInv
  <2> QED
    BY <1>3, <2>1, <2>2
<1>13. PICK read : read = [result EXCEPT !.eof = end]
  OBVIOUS
<1>14. read \in StreamResults /\ read.set = result.set /\ read.eof = end /\ read # None
       /\ (Reading(read) <=> ~end)
  <2>1. read \in StreamResults /\ read.set = result.set /\ read.eof = end
    BY <1>9, <1>13 DEF StreamResults
  <2>2. read # None
    BY <2>1, CursorsAssumption
  <2> QED
    BY <1>9, <2>1, <2>2 DEF Reading
<1>15. ASSUME cur'[c].result = read, \A d \in Cursors : d # c => cur'[d] = cur[d],
              Now' \in {"end", "advance"}
       PROVE  StreamInv'
  <2>1. CASE ~result.eof /\ end
    <3>1. \A d \in Cursors : ~Reading(cur'[d].result)
      BY <1>1, <1>3, <1>14, <1>15, <2>1 DEF StreamInv
    <3> QED
      BY <1>11, <1>15, <2>1, <3>1, NoStreams
  <2>2. CASE result.eof \/ ~end
    <3>1. my'.status = my.status
      BY <1>11, <2>2
    <3>2. Reading(cur'[c].result) <=> Reading(cur[c].result)
      BY <1>3, <1>11, <1>14, <1>15, <2>2
    <3>3. \A d \in Cursors : /\ Reading(cur'[d].result) <=> Reading(cur[d].result)
                             /\ cur'[d].result.set = cur[d].result.set
      BY <1>2, <1>14, <1>15, <3>2
    <3> QED
      BY <1>1, <1>11, <1>15, <3>1, <3>3, SameStreams
  <2> QED
    BY <1>3, <1>9, <2>1, <2>2
<1>16. ASSUME NEW rownumber \in Nat \cup {None},
              rownumber = cur[c].rownumber \/ cur[c].rownumber # None,
              NEW new, new = [cur[c] EXCEPT !.result = read, !.rownumber = rownumber],
              cur' = [cur EXCEPT ![c] = new]
       PROVE  /\ cur' \in [Cursors -> CursorStates] /\ cur'[c] = new
              /\ \A d \in Cursors : d # c => cur'[d] = cur[d]
              /\ cur'[c].result = read /\ cur'[c].rownumber = rownumber
              /\ cur'[c].description = cur[c].description /\ cur'[c].rows = None
              /\ CursorTyped(c)'
  <2>1. cur[c].rows = None
    BY <1>0, <1>1 DEF CursorTyped
  <2>2. /\ new \in CursorStates /\ new.result = read /\ new.rownumber = rownumber
        /\ new.description = cur[c].description /\ new.rows = None
        /\ new.executed = cur[c].executed
    BY <1>1, <1>14, <1>16, <2>1 DEF CursorStates
  <2>3. /\ cur' \in [Cursors -> CursorStates] /\ cur'[c] = new
        /\ \A d \in Cursors : d # c => cur'[d] = cur[d]
    BY <1>1, <1>16, <2>2
  <2> QED
    BY <1>1, <1>11, <2>2, <2>3 DEF CursorTyped
<1>17. ~result.eof => /\ cur[c].description = result.set
                      /\ cur[c].rownumber # None /\ cur[c].rownumber <= my.read
                      /\ ~ConverterRaises => cur[c].rownumber = my.read
  BY <1>1, <1>2, <1>3 DEF CursorOK, Doing
<1>18. cur[c].rownumber \in Nat \cup {None} /\ None \notin Nat
  BY <1>1, CursorsAssumption DEF CursorStates
<1>19. ASSUME end, my'.err.code # "none", cur' = [cur EXCEPT ![c].result.eof = TRUE],
              RaiseError(my')
       PROVE  Inv'
  <2>1. PICK new : new = [cur[c] EXCEPT !.result = read, !.rownumber = cur[c].rownumber]
    OBVIOUS
  <2>2. cur' = [cur EXCEPT ![c] = new]
    <3>1. read = [cur[c].result EXCEPT !.eof = TRUE]
      BY <1>2, <1>13, <1>19
    <3>2. new = [cur[c] EXCEPT !.result = read]
      BY <1>1, <2>1 DEF CursorStates
    <3> QED
      BY <1>1, <1>19, <3>1, <3>2 DEF CursorStates
  <2>3. /\ cur' \in [Cursors -> CursorStates]
        /\ \A d \in Cursors : d # c => cur'[d] = cur[d]
        /\ cur'[c].result = read /\ cur'[c].rows = None
        /\ CursorTyped(c)'
    BY <1>16, <1>18, <2>1, <2>2
  <2>4. ASSUME Now' = "end" PROVE CursorOK(c)' /\ StreamInv'
    <3>1. CursorOK(c)'
      BY <1>14, <1>19, <2>3, <2>4 DEF CursorOK, Doing
    <3> QED
      BY <1>15, <2>3, <2>4, <3>1
  <2>5. my'.err.code \in Exceptions /\ my'.err.fresh \in BOOLEAN
    BY <1>11, ErrorTyped
  <2> QED
    BY <1>0, <1>11, <1>12, <1>19, <2>3, <2>4, <2>5, FetchFails DEF RaiseError
<1>20. ASSUME cur[c].rownumber = None, cur' = [cur EXCEPT ![c].result.eof = end],
              Give(<< >>) \/ Raise("type", TRUE)
       PROVE  Inv'
  <2>1. PICK new : new = [cur[c] EXCEPT !.result = read, !.rownumber = cur[c].rownumber]
    OBVIOUS
  <2>2. cur' = [cur EXCEPT ![c] = new]
    <3>1. read = [cur[c].result EXCEPT !.eof = end]
      BY <1>2, <1>13
    <3>2. new = [cur[c] EXCEPT !.result = read]
      BY <1>1, <2>1 DEF CursorStates
    <3> QED
      BY <1>1, <1>20, <3>1, <3>2 DEF CursorStates
  <2>3. /\ cur' \in [Cursors -> CursorStates]
        /\ \A d \in Cursors : d # c => cur'[d] = cur[d]
        /\ cur'[c].result = read /\ cur'[c].rows = None
        /\ CursorTyped(c)'
    BY <1>16, <1>18, <2>1, <2>2
  <2>4. result.eof /\ end
    BY <1>3, <1>11, <1>17, <1>20
  <2>5. ASSUME Now' \in {"end", "advance"} PROVE CursorOK(c)' /\ StreamInv'
    <3>1. CursorOK(c)'
      BY <1>14, <2>3, <2>4, <2>5 DEF CursorOK, Doing
    <3> QED
      BY <1>15, <2>3, <2>5, <3>1
  <2>6. << >> \in Seq(StoredRows)
    BY EmptySeq
  <2>7. CASE Give(<< >>)
    BY <1>0, <1>11, <1>12, <2>3, <2>5, <2>6, <2>7, FetchGives
  <2>8. CASE Raise("type", TRUE)
    BY <1>0, <1>11, <1>12, <2>3, <2>5, <2>8, FetchFails
  <2> QED
    BY <1>20, <2>7, <2>8
<1>21. ASSUME cur[c].rownumber # None,
              cur' = [cur EXCEPT ![c].result.eof = end, ![c].rownumber = @ + got],
              Give(RowsOf(result.set, my.read, my.read + got))
       PROVE  Inv'
  <2>0. PICK rownumber \in Nat : rownumber = cur[c].rownumber + got
    BY <1>18, <1>21
  <2>1. PICK new : new = [cur[c] EXCEPT !.result = read, !.rownumber = rownumber]
    OBVIOUS
  <2>2. cur' = [cur EXCEPT ![c] = new]
    <3>1. read = [cur[c].result EXCEPT !.eof = end]
      BY <1>2, <1>13
    <3> QED
      BY <1>1, <1>21, <2>0, <2>1, <3>1 DEF CursorStates
  <2>3. /\ cur' \in [Cursors -> CursorStates]
        /\ \A d \in Cursors : d # c => cur'[d] = cur[d]
        /\ cur'[c].result = read /\ cur'[c].rownumber = rownumber /\ cur'[c].rows = None
        /\ cur'[c].description = cur[c].description
        /\ CursorTyped(c)'
    BY <1>16, <1>21, <2>0, <2>1, <2>2
  <2>4. PICK to \in Nat : to = my.read + got /\ my.read <= to
    BY <1>1
  <2>5. PICK rows : rows = RowsOf(result.set, my.read, to)
    OBVIOUS
  <2>6. /\ rows \in Seq(StoredRows) /\ Len(rows) = to - my.read
        /\ \A i \in 1..Len(rows) : /\ <<rows[i][1], rows[i][2]>> = result.set
                                   /\ rows[i][3] = my.read + i
    <3>1. LET part == RowsOf(result.set, my.read, to)
          IN /\ part \in Seq(StoredRows) /\ Len(part) = to - my.read
             /\ \A i \in 1..Len(part) : /\ <<part[i][1], part[i][2]>> = result.set
                                        /\ part[i][3] = my.read + i
      BY <1>1, <1>3, <2>4, RowsOfIs, Zenon
    <3> QED
      BY <2>5, <3>1
  <2>7. Give(rows)
    BY <1>21, <2>4, <2>5
  <2>8. ASSUME rows # << >>
        PROVE  /\ \A i \in 1..Len(rows) :
                    <<rows[i][1], rows[i][2]>> = cur'[c].description
               /\ Last(rows)[3] >= cur'[c].rownumber
    <3>1. Len(rows) = got /\ got > 0
      BY <1>1, <2>4, <2>6, <2>8, EmptySeq
    <3>2. ~result.eof
      BY <1>11, <3>1
    <3>3. Last(rows) = rows[Len(rows)] /\ Len(rows) \in 1..Len(rows)
      BY <3>1 DEF Last
    <3>4. Last(rows)[3] = my.read + got
      BY <2>6, <3>1, <3>3
    <3>5. cur[c].rownumber \in Nat /\ cur[c].rownumber <= my.read
      BY <1>17, <1>18, <3>2
    <3>6. my.read + got >= rownumber
      BY <1>1, <2>0, <3>5
    <3> QED
      BY <1>17, <2>3, <2>6, <3>2, <3>4, <3>6
  <2>9. ASSUME Now' \in {"end", "advance"} PROVE CursorOK(c)' /\ StreamInv'
    <3>1. CASE end
      <4>1. CursorOK(c)'
        BY <1>14, <2>3, <2>9, <3>1 DEF CursorOK, Doing
      <4> QED
        BY <1>15, <2>3, <2>9, <4>1
    <3>2. CASE ~end
      <4>1. ~result.eof /\ my'.read = my.read + got
        BY <1>11, <3>2
      <4>2. /\ cur[c].rownumber \in Nat /\ cur[c].rownumber <= my.read
            /\ ~ConverterRaises => cur[c].rownumber = my.read
        BY <1>17, <1>18, <4>1
      <4>3. rownumber <= my'.read /\ (~ConverterRaises => rownumber = my'.read)
        BY <1>1, <2>0, <4>1, <4>2
      <4>4. CursorOK(c)'
        BY <1>14, <1>17, <1>18, <2>0, <2>3, <2>9, <4>1, <4>3 DEF CursorOK, Doing
      <4> QED
        BY <1>15, <2>3, <2>9, <4>4
    <3> QED
      BY <3>1, <3>2
  <2> QED
    BY <1>0, <1>11, <1>12, <2>3, <2>6, <2>7, <2>8, <2>9, FetchGives
<1>22. \/ end /\ my'.err.code # "none" /\ cur' = [cur EXCEPT ![c].result.eof = TRUE]
          /\ RaiseError(my')
       \/ /\ cur[c].rownumber = None /\ cur' = [cur EXCEPT ![c].result.eof = end]
          /\ Give(<< >>) \/ Raise("type", TRUE)
       \/ /\ cur[c].rownumber # None
          /\ cur' = [cur EXCEPT ![c].result.eof = end, ![c].rownumber = @ + got]
          /\ Give(RowsOf(result.set, my.read, my.read + got))
  <2>1. (n > left) = end
    BY <1>5, <1>7, <1>9
  <2> QED
    BY <1>2, <1>4, <1>6, <1>8, <1>10, <2>1 DEF FetchStreamed
<1> QED
  BY <1>19, <1>20, <1>21, <1>22

LEMMA FetchConverterRaisesKeeps ==
  ASSUME Inv, NEW c \in Cursors, FetchConverterRaises(c)
  PROVE  Inv'
<1>0. /\ Active(c, "fetch") /\ "fetch" \in Steps /\ "converter" \in Exceptions
      /\ Streams(c) /\ ConverterRaises /\ Reading(cur[c].result)
      /\ Raise("converter", TRUE) /\ cur' = cur
  BY DEF FetchConverterRaises, Steps, Exceptions
<1>1. /\ Base /\ StreamInv /\ SessionOK(my)
      /\ run.who = c /\ Now = "fetch" /\ my.stmt \in Nat /\ my.read \in Nat
      /\ CursorTyped(c) /\ CursorOK(c) /\ cur[c] \in CursorStates
      /\ cur \in [Cursors -> CursorStates]
      /\ my.status # "get_result"
  BY <1>0, StepFacts
<1>2. PICK n \in 1..RowsLeft(my) : my' = FetchRows(my, n)
  BY DEF FetchConverterRaises
<1>3. n \in Nat /\ n <= RowsLeft(my)
  BY <1>1, FetchRowsIs
<1>4. /\ SessionOK(my') /\ my'.stmt = my.stmt /\ my'.at = my.at
      /\ my'.status = my.status /\ my'.read = my.read + n
  BY <1>1, <1>2, <1>3, FetchRowsIs DEF SamePlace
<1>5. \A d \in Cursors : d # c => ~Reading(cur[d].result)
  BY <1>0, <1>1 DEF StreamInv
<1>6. CursorTyped(c)'
  BY <1>0, <1>1, <1>4 DEF CursorTyped, Streams
<1>7. ASSUME Now' = "end" PROVE CursorOK(c)' /\ StreamInv'
  <2>1. cur[c].rownumber \in Nat /\ cur[c].rownumber <= my.read
    BY <1>0, <1>1 DEF CursorOK, Doing, CursorStates
  <2>2. cur[c].rownumber <= my'.read
    BY <1>1, <1>3, <1>4, <2>1
  <2>3. CursorOK(c)'
    BY <1>0, <1>1, <1>7, <2>2 DEF CursorOK, Doing
  <2> QED
    BY <1>0, <1>1, <1>4, <1>7, <2>3, SameStreams
<1> QED
  BY <1>0, <1>1, <1>4, <1>5, <1>6, <1>7, FetchFails

-----------------------------------------------------------------------------
(* Between methods, and before the first.                                  *)
LEMMA InitIs == Init => Inv
<1> SUFFICES ASSUME Init PROVE Inv
  OBVIOUS
<1>1. /\ my.status = "ready" /\ my.stmt = 0 /\ SessionOK(my)
      /\ my.stmt <= MaxStatements
  BY ConnectedIs, CursorsAssumption DEF Init, Connected
<1>2. /\ NewCursor \in CursorStates /\ NewCursor.executed = 0
      /\ NewCursor.description = None /\ NewCursor.result = None /\ NewCursor.rows = None
  BY DEF NewCursor, CursorStates
<1>3. cur \in [Cursors -> CursorStates] /\ \A c \in Cursors : cur[c] = NewCursor
  BY <1>2 DEF Init
<1>4. \A c \in Cursors : CursorTyped(c)
  BY <1>1, <1>2, <1>3 DEF CursorTyped
<1>5. /\ run.method = "none" /\ run.plan = << >> /\ run.out = None /\ Idle /\ Now = "end"
  BY DEF Init, NoRun, Idle, Now
<1>6. RunOK /\ QueriesFit(run.plan, my.stmt)
  <2>1. run \in Runs
    <3>1. << >> \in Seq(Steps)
      BY EmptyPlan
    <3> QED
      BY <3>1 DEF Init, NoRun, Runs, Methods, Exceptions
  <2>2. PlanOK(run.method, run.plan) /\ QueriesFit(run.plan, 0)
    BY <1>5, EmptyPlan
  <2> QED
    BY <1>1, <1>5, <2>1, <2>2 DEF RunOK
<1>7. Base
  BY <1>1, <1>3, <1>4, <1>6 DEF Base
<1>8. \A c \in Cursors : ~Reading(cur[c].result)
  BY <1>2, <1>3 DEF Reading
<1>9. StreamInv
  BY <1>1, <1>5, <1>8 DEF StreamInv
<1>10. CursorInv
  BY <1>2, <1>3, <1>5, <1>8 DEF CursorInv, CursorOK, Doing
<1>11. OutInv /\ SyncInv /\ ExecuteInv
  BY <1>5 DEF OutInv, SyncInv, ExecuteInv
<1> QED
  BY <1>7, <1>9, <1>10, <1>11 DEF Inv

(* A step in which nothing changes.                                        *)
LEMMA NothingKeeps ==
  ASSUME Inv, UNCHANGED vars
  PROVE  Inv'
<1>1. my' = my /\ cur' = cur /\ run' = run
  BY DEF vars
<1>2. Base'
  BY <1>1 DEF Inv, Base, CursorTyped, RunOK, Now, Idle
<1>3. StreamInv'
  BY <1>1 DEF Inv, StreamInv, Now, Idle
<1>4. CursorInv'
  BY <1>1 DEF Inv, CursorInv, CursorOK, Doing, Now, Idle
<1>5. OutInv' /\ SyncInv' /\ ExecuteInv'
  BY <1>1 DEF Inv, OutInv, SyncInv, ExecuteInv, Now, Idle
<1> QED
  BY <1>2, <1>3, <1>4, <1>5 DEF Inv

LEMMA NextKeeps == Inv /\ [Next]_vars => Inv'
<1> SUFFICES ASSUME Inv, [Next]_vars PROVE Inv'
  OBVIOUS
<1>1. CASE UNCHANGED vars
  BY <1>1, NothingKeeps
<1>2. CASE Kill
  BY <1>2, KillKeeps
<1>3. CASE Disconnect
  BY <1>3, DisconnectKeeps
<1>4. ASSUME NEW c \in Cursors, Start(c)
      PROVE  Inv'
  <2>1. CASE Execute(c)
    BY <2>1, ExecuteKeeps
  <2>2. CASE Close(c)
    BY <2>2, CloseKeeps
  <2>3. CASE Nextset(c)
    BY <2>3, NextsetKeeps
  <2>4. CASE Callproc(c)
    BY <2>4, CallprocKeeps
  <2>5. CASE CallprocClosed(c)
    BY <2>5, FailsKeeps DEF CallprocClosed
  <2>6. ASSUME NEW method \in FetchMethods, Fetch(c, method)
        PROVE  Inv'
    BY <2>6, FetchKeeps
  <2>7. ASSUME NEW method \in FetchMethods, FetchUnexecuted(c, method)
        PROVE  Inv'
    BY <2>7, FailsKeeps DEF FetchUnexecuted
  <2>8. ASSUME NEW r \in Offsets, Scroll(c, r)
        PROVE  Inv'
    BY <2>8, ScrollKeeps
  <2> QED
    BY <1>4, <2>1, <2>2, <2>3, <2>4, <2>5, <2>6, <2>7, <2>8 DEF Start
<1>5. ASSUME NEW c \in Cursors, Step(c)
      PROVE  Inv'
  <2>1. CASE Discard(c)
    BY <2>1, DiscardKeeps
  <2>2. CASE DiscardNext(c)
    BY <2>2, DiscardNextKeeps
  <2>3. CASE DiscardResult(c)
    BY <2>3, DiscardResultKeeps
  <2>4. CASE Detach(c)
    BY <2>4, DetachKeeps
  <2>5. CASE Mogrify(c)
    BY <2>5, MogrifyKeeps
  <2>6. CASE Query(c)
    BY <2>6, QueryKeeps
  <2>7. CASE GetResult(c)
    BY <2>7, GetResultKeeps
  <2>8. CASE PostGetResult(c)
    BY <2>8, PostGetResultKeeps
  <2>9. CASE Executed(c)
    BY <2>9, ExecutedKeeps
  <2>10. CASE Advance(c)
    BY <2>10, AdvanceKeeps
  <2>11. CASE FetchStored(c)
    BY <2>11, FetchStoredKeeps
  <2>12. CASE FetchNothing(c)
    BY <2>12, FetchNothingKeeps
  <2>13. CASE FetchStreamed(c)
    BY <2>13, FetchStreamedKeeps
  <2>14. CASE FetchConverterRaises(c)
    BY <2>14, FetchConverterRaisesKeeps
  <2> QED
    BY <1>5, <2>1, <2>2, <2>3, <2>4, <2>5, <2>6, <2>7, <2>8, <2>9, <2>10, <2>11,
       <2>12, <2>13, <2>14 DEF Step
<1> QED
  BY <1>1, <1>2, <1>3, <1>4, <1>5 DEF Next

(* The invariant holds of every behaviour of the cursors.                  *)
THEOREM InvHolds == Spec => []Inv
  BY InitIs, NextKeeps, PTL DEF Spec

-----------------------------------------------------------------------------
(* The session, the cursors and the method that runs have their types      *)
(* (cursors.py, the attributes set in __init__ and by every method).       *)
THEOREM CursorTypesHold == Spec => []TypeOK
<1>1. Inv => TypeOK
  <2> SUFFICES ASSUME Inv PROVE TypeOK
    OBVIOUS
  <2>1. Base
    BY DEF Inv
  <2>2. /\ my \in Sessions /\ my.at \in 1..Len(my.sets) /\ my.read <= CurrentSet(my).n
        /\ my.stmt <= MaxStatements /\ run \in Runs
        /\ cur \in [Cursors -> CursorStates]
        /\ run.method # "none" => run.who \in Cursors
    BY <2>1 DEF Base, SessionOK, RunOK
  <2>3. \A c \in Cursors :
          /\ cur[c].executed <= my.stmt
          /\ cur[c].description # None => cur[c].description[1] \in 1..my.stmt
          /\ cur[c].rows # None =>
               ~Streams(c) /\ cur[c].rownumber \in 0..Len(cur[c].rows)
    BY <2>1 DEF Base, CursorTyped
  <2> QED
    BY <2>2, <2>3 DEF TypeOK
<1> QED
  BY <1>1, InvHolds, PTL

(* No method, failing or not, leaves the session in the middle of a result *)
(* set that no cursor can read to its end (SSCursor and _discard).         *)
THEOREM StreamHasOwner == Spec => []StreamOwned
<1>1. Inv => StreamOwned
  <2> SUFFICES ASSUME Inv PROVE StreamOwned
    OBVIOUS
  <2>1. StreamInv /\ (Idle <=> Now = "end")
        /\ my.status \in {"ready", "get_result", "use_result"}
    BY BaseIs DEF Inv
  <2> QED
    BY <2>1 DEF StreamInv, StreamOwned
<1> QED
  BY <1>1, InvHolds, PTL

(* While every row can be converted, rownumber of a streaming cursor is    *)
(* the number of rows that the session read (_fetch_row, rownumber).       *)
THEOREM RowsComeInOrder == ~ConverterRaises => (Spec => []RowsInOrder)
<1> SUFFICES ASSUME ~ConverterRaises PROVE Spec => []RowsInOrder
  OBVIOUS
<1>1. Inv => RowsInOrder
  <2> SUFFICES ASSUME Inv PROVE RowsInOrder
    OBVIOUS
  <2>1. CursorInv /\ (Idle <=> Now = "end")
    BY BaseIs DEF Inv
  <2> QED
    BY <2>1 DEF CursorInv, CursorOK, Doing, RowsInOrder
<1> QED
  BY <1>1, InvHolds, PTL

(* A fetch hands out rows of the result set that description tells of, up  *)
(* to row number rownumber (fetchone, fetchmany and fetchall of both kinds *)
(* of cursor).                                                             *)
THEOREM RowsAreDescribed == Spec => []RowsDescribed
<1>1. Inv => RowsDescribed
  BY DEF Inv, OutInv, RowsDescribed
<1> QED
  BY <1>1, InvHolds, PTL

(* execute() that returns leaves the cursor before the first row of the    *)
(* answer to its own statement (execute, _query and _do_get_result).       *)
THEOREM ExecuteIsFresh == Spec => []ExecuteStartsAfresh
<1>1. Inv => ExecuteStartsAfresh
  <2> SUFFICES ASSUME Inv, Idle, run.method = "execute", run.exc = "none"
               PROVE  LET this == cur[run.who]
                      IN /\ this.executed = my.stmt /\ my.at = 1
                         /\ this.rownumber = 0
                         /\ this.description \in {None, <<my.stmt, 1>>}
                         /\ this.description # None =>
                              IF Streams(run.who)
                                THEN this.result.set = SetId(my) /\ my.read = 0
                                ELSE /\ my.cut = "no"
                                     /\ Len(this.rows) = CurrentSet(my).n
    BY DEF ExecuteStartsAfresh
  <2>1. ExecuteInv /\ Now = "end"
    BY BaseIs DEF Inv
  <2> QED
    BY <2>1 DEF ExecuteInv
<1> QED
  BY <1>1, InvHolds, PTL

(* execute() raises "Commands out of sync" for a reason of its own only    *)
(* while another cursor streams (_discard before every statement).         *)
THEOREM SyncOnlyByStream == Spec => []OutOfSyncOnlyByStream
<1>1. Inv => OutOfSyncOnlyByStream
  <2> SUFFICES ASSUME Inv, run.method = "execute", run.exc = "sync", run.own
               PROVE  \E c \in Cursors \ {run.who} : Streams(c) /\ Reading(cur[c].result)
    BY DEF OutOfSyncOnlyByStream
  <2>1. PICK d \in Cursors \ {run.who} : Reading(cur[d].result)
    BY DEF Inv, SyncInv
  <2>2. Streams(d)
    BY <2>1 DEF Inv, StreamInv
  <2> QED
    BY <2>1, <2>2
<1> QED
  BY <1>1, InvHolds, PTL
=============================================================================
