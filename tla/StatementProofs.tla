--------------------------- MODULE StatementProofs ---------------------------
(***************************************************************************)
(* Proofs about one cursor that has the connection to itself and whose     *)
(* rows can all be converted: what it describes, and goes on to, is the    *)
(* answer to its own last statement, and the end of the rows is their end. *)
(*                                                                         *)
(* With a second cursor neither holds: nextset() of the one takes the      *)
(* result sets of the other.                                               *)
(***************************************************************************)
EXTENDS CursorsProofs

-----------------------------------------------------------------------------
(* The query of this plan is answered, and executed not yet set.           *)
Answered ==
  \/ Now = "executed"
  \/ Now = "post" /\ Len(run.plan) > 1 /\ run.plan[2] = "executed"
  \/ Now = "get" /\ Len(run.plan) > 2 /\ run.plan[3] = "executed"

(* Every query of a plan is followed by what ends in its being remembered. *)
QueriesEnd(plan) ==
  \A i \in 1..Len(plan) :
    plan[i] = "query" => i + 3 <= Len(plan) /\ plan[i+3] = "executed"

PlanInv ==
  /\ QueriesEnd(run.plan)
  /\ run.method \notin FetchMethods => run.size = None

(* Whose answer it is that the session has, and that a cursor describes.   *)
OwnOK(c) ==
  /\ MoreResults(my) /\ my.link = "up" /\ ~Answered => cur[c].executed = my.stmt
  /\ Now = "get" => IF Answered THEN cur[c].result = None
                                ELSE cur[c].executed = my.stmt
  /\ cur[c].description # None =>
       cur[c].description[1] =
         IF Answered /\ Now # "get" THEN my.stmt ELSE cur[c].executed

(* How far a streaming cursor is from the end of its rows.                 *)
EndOK(c) ==
  Streams(c) /\ cur[c].result # None =>
    /\ cur[c].result.set[1] \in 1..my.stmt
    /\ cur[c].result.set[1] = my.stmt => cur[c].result.set[2] <= my.at
    /\ Now = "get" => cur[c].result.set # SetId(my)
    /\ ~Answered => cur[c].executed # 0
    /\ Now = "advance" => cur[c].result.eof /\ my.err.code = "none"
    /\ Now \notin {"next", "drain", "mogrify"}
    /\ cur[c].result.eof /\ cur[c].result.set = SetId(my) =>
         /\ my.cut # "no" => my.err.code # "none"
         /\ my.err.code = "none" /\ ~Doing(c, "discard") =>
              cur[c].rownumber = CurrentSet(my).n

StatementInv == PlanInv /\ \A c \in Cursors : OwnOK(c) /\ EndOK(c)

(* A cursor that has the connection to itself. *)
Alone == \A c, d \in Cursors : c = d

-----------------------------------------------------------------------------
(* The queries of the plans.                                               *)
LEMMA EndTail ==
  ASSUME NEW S, NEW p \in Seq(S), p # << >>, QueriesEnd(p)
  PROVE  QueriesEnd(Tail(p))
<1>1. /\ Len(p) \in Nat /\ Len(p) > 0 /\ Len(Tail(p)) = Len(p) - 1
      /\ \A i \in 1..Len(Tail(p)) : Tail(p)[i] = p[i + 1]
  BY EmptySeq, HeadTailProperties
<1> SUFFICES ASSUME NEW i \in 1..Len(Tail(p)), Tail(p)[i] = "query"
             PROVE  i + 3 <= Len(Tail(p)) /\ Tail(p)[i + 3] = "executed"
  BY DEF QueriesEnd
<1>2. i \in Nat /\ i > 0 /\ i + 1 \in 1..Len(p) /\ p[i + 1] = "query"
  BY <1>1
<1>3. (i + 1) + 3 <= Len(p) /\ p[(i + 1) + 3] = "executed"
  BY <1>2 DEF QueriesEnd
<1>4. i + 3 <= Len(Tail(p)) /\ i + 3 \in 1..Len(Tail(p)) /\ (i + 3) + 1 = (i + 1) + 3
  BY <1>1, <1>2, <1>3
<1> QED
  BY <1>1, <1>3, <1>4

LEMMA EndCons ==
  ASSUME NEW S, NEW p \in Seq(S), NEW x \in S, x # "query", QueriesEnd(p)
  PROVE  QueriesEnd(<<x>> \o p)
<1> DEFINE q == <<x>> \o p
<1>1. /\ Len(p) \in Nat /\ Len(q) = Len(p) + 1 /\ q[1] = x
      /\ \A i \in 1..Len(p) : q[i + 1] = p[i]
  BY ConsIs
<1> HIDE DEF q
<1> SUFFICES ASSUME NEW i \in 1..Len(q), q[i] = "query"
             PROVE  i + 3 <= Len(q) /\ q[i + 3] = "executed"
  BY DEF QueriesEnd, q
<1>2. PICK j \in 1..Len(p) : i = j + 1
  <2>1. i # 1
    BY <1>1
  <2>2. i - 1 \in 1..Len(p) /\ i = (i - 1) + 1
    BY <1>1, <2>1
  <2> QED
    BY <2>2
<1>3. p[j] = "query"
  BY <1>1, <1>2
<1>4. j + 3 <= Len(p) /\ p[j + 3] = "executed"
  BY <1>3 DEF QueriesEnd
<1>5. j + 3 \in 1..Len(p) /\ i + 3 <= Len(q) /\ (j + 3) + 1 = i + 3
  BY <1>1, <1>2, <1>4
<1>6. q[(j + 3) + 1] = p[j + 3]
  BY <1>1, <1>5
<1> QED
  BY <1>4, <1>5, <1>6

(* How the methods begin.                                                  *)
LEMMA NoQueries ==
  /\ QueriesEnd(<< >>)
  /\ \A x : x # "query" => QueriesEnd(<<x>>)
<1>1. QueriesEnd(<< >>)
  BY EmptySeq DEF QueriesEnd
<1>2. ASSUME NEW x, x # "query" PROVE QueriesEnd(<<x>>)
  <2>1. PICK p : p = <<x>>
    OBVIOUS
  <2>2. p[1] = x /\ Len(p) = 1
    BY <2>1
  <2> QED
    BY <1>2, <2>1, <2>2 DEF QueriesEnd
<1> QED
  BY <1>1, <1>2

LEMMA ExecuteEnds == QueriesEnd(<<"mogrify", "query", "get", "post", "executed">>)
<1>1. PICK p : p = <<"mogrify", "query", "get", "post", "executed">>
  OBVIOUS
<1>2. /\ Len(p) = 5 /\ p[1] = "mogrify" /\ p[2] = "query" /\ p[3] = "get"
      /\ p[4] = "post" /\ p[5] = "executed"
  BY <1>1
<1>3. \A i \in 1..5 : p[i] = "query" => i = 2
  <2>1. \A i \in 1..5 : i = 1 \/ i = 2 \/ i = 3 \/ i = 4 \/ i = 5
    OBVIOUS
  <2> QED
    BY <1>2, <2>1
<1> QED
  BY <1>1, <1>2, <1>3 DEF QueriesEnd

LEMMA CallprocEnds ==
  ASSUME NEW n \in Nat
  PROVE  /\ n < MaxStatements => QueriesEnd(QueryPlan)
         /\ n + 1 < MaxStatements =>
              QueriesEnd(QueryPlan \o <<"fetch", "advance">> \o QueryPlan)
<1>1. ASSUME n < MaxStatements PROVE QueriesEnd(QueryPlan)
  <2>1. PICK p : p = QueryPlan
    OBVIOUS
  <2>2. /\ Len(p) = 4 /\ p[1] = "query" /\ p[2] = "get" /\ p[3] = "post"
        /\ p[4] = "executed"
    BY <1>1, <2>1, QueryPlanIs
  <2>3. \A i \in 1..4 : p[i] = "query" => i = 1
    <3>1. \A i \in 1..4 : i = 1 \/ i = 2 \/ i = 3 \/ i = 4
      OBVIOUS
    <3> QED
      BY <2>2, <3>1
  <2> QED
    BY <2>1, <2>2, <2>3 DEF QueriesEnd
<1>2. ASSUME n + 1 < MaxStatements
      PROVE  QueriesEnd(QueryPlan \o <<"fetch", "advance">> \o QueryPlan)
  <2>1. PICK p : p = QueryPlan \o <<"fetch", "advance">> \o QueryPlan
    OBVIOUS
  <2>2. /\ Len(p) = 10 /\ p[4] = "executed" /\ p[10] = "executed"
        /\ \A i \in 1..10 : p[i] = "query" => i = 1 \/ i = 7
    <3>1. LET q == QueryPlan \o <<"fetch", "advance">> \o QueryPlan
          IN /\ q \in Seq(Steps) /\ PlanOK("callproc", q) /\ q # << >> /\ Head(q) = "query"
             /\ QueriesFit(q, n)
             /\ Len(q) = 10 /\ q[4] = "executed" /\ q[10] = "executed"
             /\ \A i \in 1..10 : q[i] = "query" => i = 1 \/ i = 7
      BY <1>2, ArgsPlanIs, Zenon
    <3> QED
      BY <2>1, <3>1
  <2> QED
    BY <2>1, <2>2 DEF QueriesEnd
<1> QED
  BY <1>1, <1>2

LEMMA DiscardEnds ==
  ASSUME NEW c \in Cursors, NEW rest \in Seq(Steps), QueriesEnd(rest)
  PROVE  QueriesEnd(DiscardPlan(c, rest))
<1>0. "discard" \in Steps /\ "next" \in Steps
  BY DEF Steps
<1>1. PICK pending : pending = IF cur[c].open THEN <<"next">> \o rest ELSE rest
  OBVIOUS
<1>2. pending \in Seq(Steps) /\ QueriesEnd(pending)
  <2>1. <<"next">> \o rest \in Seq(Steps) /\ QueriesEnd(<<"next">> \o rest)
    BY <1>0, ConsIs, EndCons
  <2> QED
    BY <1>1, <2>1
<1>3. QueriesEnd(<<"discard">> \o pending)
  BY <1>0, <1>2, EndCons
<1> QED
  BY <1>1, <1>2, <1>3 DEF DiscardPlan

(* How the plans go on.                                                    *)
LEMMA AnsweredGoes ==
  ASSUME RunOK, ~Idle, PlanInv, SameRun, run'.plan = Tail(run.plan),
         StepRow(run.method, Now, Now'),
         Now = "post" /\ Now' # "end" => Now' = run.plan[2] /\ Len(run.plan) > 1
  PROVE  /\ PlanInv'
         /\ Now = "query" => Now' = "get" /\ Answered'
         /\ Now \in {"get", "post"} => (Answered' <=> Answered)
         /\ Now \notin {"query", "get", "post"} => ~Answered'
<1>1. PICK p \in Seq(Steps) : p = run.plan /\ p # << >>
  BY DEF RunOK, Runs, Idle
<1>2. PICK t : t = Tail(p)
  OBVIOUS
<1>3. /\ Len(p) \in Nat /\ Len(p) > 0 /\ t \in Seq(Steps) /\ Len(t) = Len(p) - 1
      /\ \A i \in 1..Len(t) : t[i] = p[i + 1]
      /\ Now = p[1] /\ run'.plan = t
  BY <1>1, <1>2, EmptySeq, HeadTailProperties DEF Now, Idle
<1>4. PlanInv'
  BY <1>1, <1>2, <1>3, EndTail DEF PlanInv, SameRun
<1>5. ASSUME Now = "query" PROVE Now' = "get" /\ Answered'
  <2>1. 1 \in 1..Len(p) /\ p[1] = "query" /\ QueriesEnd(p)
    BY <1>1, <1>3, <1>5 DEF PlanInv
  <2>2. 1 + 3 <= Len(p) /\ p[1 + 3] = "executed"
    BY <2>1 DEF QueriesEnd
  <2>3. Len(t) > 2 /\ t[3] = "executed"
    <3>1. Len(t) > 2 /\ 3 \in 1..Len(t) /\ 3 + 1 = 1 + 3
      BY <1>3, <2>2
    <3>2. t[3] = p[3 + 1]
      BY <1>3, <3>1
    <3> QED
      BY <2>2, <3>1, <3>2
  <2>4. Now' = "get"
    BY <1>5 DEF StepRow
  <2> QED
    BY <1>3, <2>2, <2>3, <2>4 DEF Answered
<1>6. ASSUME Now = "get" PROVE Answered' <=> Answered
  <2>1. Now' = "post"
    BY <1>6 DEF StepRow
  <2>2. /\ Len(t) > 1 <=> Len(p) > 2
        /\ Len(t) > 1 => t[2] = p[2 + 1]
    BY <1>3
  <2> QED
    BY <1>1, <1>3, <1>6, <2>1, <2>2 DEF Answered
<1>7. ASSUME Now = "post" PROVE Answered' <=> Answered
  <2>1. Now' \in {"executed", "end", "query"}
    BY <1>7 DEF StepRow
  <2>2. Now' = "end" => Len(p) = 1
    <3>1. ASSUME Now' = "end" PROVE t = << >>
      <4>1. t # << >> => Head(t) \in Steps
        BY <1>3, HeadTailProperties, EmptySeq
      <4> QED
        BY <1>3, <3>1, <4>1 DEF Now, Idle, Steps
    <3> QED
      BY <1>3, <3>1, EmptySeq
  <2> QED
    BY <1>1, <1>7, <2>1, <2>2 DEF Answered
<1>8. ASSUME Now \notin {"query", "get", "post"} PROVE ~Answered'
  <2>1. Now' \notin {"executed", "post", "get"}
    BY <1>8 DEF StepRow
  <2> QED
    BY <2>1 DEF Answered
<1> QED
  BY <1>4, <1>5, <1>6, <1>7, <1>8

(* An exception, and the steps put before a plan.                          *)
LEMMA RaisedPlan ==
  ASSUME PlanInv, NEW exc, NEW own, Raise(exc, own), RunOK, Now' \in {"end", "detach"}
  PROVE  PlanInv' /\ ~Answered'
<1>1. run'.plan \in {<< >>, <<"detach">>} /\ run'.method = run.method /\ run'.size = run.size
  BY DEF Raise, RunOK, Runs
<1>2. PlanInv'
  BY <1>1, NoQueries DEF PlanInv
<1> QED
  BY <1>2 DEF Answered

LEMMA DrainPlan ==
  ASSUME RunOK, PlanInv, Then(<<"drain">> \o run.plan), Now' = "drain"
  PROVE  PlanInv' /\ ~Answered'
<1>1. run.plan \in Seq(Steps) /\ "drain" \in Steps
  BY DEF RunOK, Runs, Steps
<1>2. QueriesEnd(<<"drain">> \o run.plan)
  BY <1>1, EndCons DEF PlanInv
<1>3. run'.plan = <<"drain">> \o run.plan /\ run'.method = run.method /\ run'.size = run.size
  BY DEF Then, RunOK, Runs
<1> QED
  BY <1>2, <1>3 DEF PlanInv, Answered

LEMMA GetPlan ==
  ASSUME RunOK, PlanInv, Now = "advance", Then(<<"get", "post">> \o Tail(run.plan))
  PROVE  PlanInv' /\ ~Answered'
<1>1. /\ Now' = "get" /\ ~(Len(run'.plan) > 2 /\ run'.plan[3] = "executed") /\ SameRun
  BY GetIs
<1>2. /\ run.plan \in Seq(Steps) /\ run.plan # << >>
      /\ {"get", "post"} \subseteq Steps
  BY DEF RunOK, Runs, Steps, Now, Idle
<1>3. PICK t : t = Tail(run.plan)
  OBVIOUS
<1>4. t \in Seq(Steps) /\ QueriesEnd(t)
  BY <1>2, <1>3, HeadTailProperties, EndTail DEF PlanInv
<1>5. PICK r : r = <<"post">> \o t
  OBVIOUS
<1>6. r \in Seq(Steps) /\ QueriesEnd(r)
  BY <1>2, <1>4, <1>5, ConsIs, EndCons
<1>7. QueriesEnd(<<"get">> \o r)
  BY <1>2, <1>6, EndCons
<1>8. <<"get", "post">> \o t = <<"get">> \o r
  BY <1>2, <1>4, <1>5, GetPostIs
<1>9. run'.plan = <<"get">> \o r
  BY <1>3, <1>8 DEF Then, RunOK, Runs
<1> QED
  BY <1>1, <1>7, <1>9 DEF PlanInv, Answered, SameRun

-----------------------------------------------------------------------------
(* What holds of a cursor goes on to hold when it goes on as it is.        *)
LEMMA OwnKept ==
  ASSUME NEW c \in Cursors, OwnOK(c), my'.stmt = my.stmt,
         cur'[c].executed = cur[c].executed,
         cur'[c].description = None \/ cur'[c].description = cur[c].description,
         ~Answered', Now' # "get", ~Answered \/ Now = "get", NoMoreThan(my, my'),
         Answered => ~(MoreResults(my') /\ my'.link = "up")
  PROVE  OwnOK(c)'
  BY DEF OwnOK, NoMoreThan

LEMMA EndKept ==
  ASSUME NEW c \in Cursors, EndOK(c), SamePlace(my, my'),
         my'.err.code = my.err.code, ~Answered,
         cur'[c].executed = cur[c].executed, cur'[c].result = cur[c].result,
         Streams(c) /\ cur[c].result # None =>
           /\ Now' \notin {"get", "advance", "next", "drain", "mogrify"}
           /\ ~Doing(c, "discard")' =>
                ~Doing(c, "discard") /\ cur'[c].rownumber = cur[c].rownumber
  PROVE  EndOK(c)'
<1> SUFFICES ASSUME Streams(c), cur[c].result # None PROVE EndOK(c)'
  BY DEF EndOK, Streams
<1>1. /\ my'.stmt = my.stmt /\ my'.at = my.at /\ my'.cut = my.cut
      /\ CurrentSet(my').n = CurrentSet(my).n /\ SetId(my') = SetId(my)
  BY DEF SamePlace, SetId
<1> QED
  BY <1>1 DEF EndOK

LEMMA EndGone ==
  ASSUME NEW c \in Cursors, cur'[c].result = None \/ ~Streams(c)
  PROVE  EndOK(c)'
  BY DEF EndOK, Streams

(* A cursor between methods, or in the middle of one.                      *)
LEMMA OwnFacts ==
  ASSUME StatementInv, NEW c \in Cursors
  PROVE  /\ PlanInv /\ OwnOK(c) /\ EndOK(c)
         /\ Now \notin {"get", "post", "executed"} => ~Answered
  BY DEF StatementInv, Answered

LEMMA OnlyOne ==
  ASSUME Alone, NEW c \in Cursors, PlanInv', OwnOK(c)', EndOK(c)'
  PROVE  StatementInv'
<1>1. \A d \in Cursors : d = c
  BY DEF Alone
<1> QED
  BY <1>1 DEF StatementInv

-----------------------------------------------------------------------------
(* The methods begin.                                                      *)
LEMMA BeginOwn ==
  ASSUME Inv, StatementInv, Alone, Now = "end",
         NEW c \in Cursors, NEW method, NEW plan \in Seq(Steps), NEW size, NEW exc,
         run' = [who |-> c, method |-> method, plan |-> plan, size |-> size,
                 exc |-> exc, own |-> TRUE, out |-> None],
         QueriesEnd(plan), method \notin FetchMethods => size = None,
         plan # << >> => Head(plan) \notin {"get", "post", "executed"},
         my' = Stale(my) \/ my' = my,
         cur'[c].executed = cur[c].executed, cur'[c].result = cur[c].result,
         cur'[c].description = None \/ cur'[c].description = cur[c].description,
         Streams(c) /\ cur[c].result # None =>
           /\ plan # << >> =>
                \/ Head(plan) \notin {"advance", "next", "drain", "mogrify"}
                \/ Head(plan) = "advance" /\ cur[c].executed = 0
           /\ plan = << >> \/ Head(plan) # "discard" =>
                cur'[c].rownumber = cur[c].rownumber
  PROVE  StatementInv'
<1>1. PlanInv /\ OwnOK(c) /\ EndOK(c) /\ ~Answered /\ SessionOK(my)
  BY OwnFacts DEF Inv, Base
<1>2. /\ SamePlace(my, my') /\ NoMoreThan(my, my') /\ my'.err.code = my.err.code
      /\ my'.stmt = my.stmt
  BY <1>1, StaleIs DEF SamePlace, NoMoreThan
<1>3. Now' = IF plan = << >> THEN "end" ELSE Head(plan)
  BY DEF Now, Idle
<1>4. PlanInv' /\ run'.who = c
  BY DEF PlanInv
<1>5. ~Answered' /\ Now' # "get"
  BY <1>3 DEF Answered
<1>6. OwnOK(c)'
  BY <1>1, <1>2, <1>5, OwnKept
<1>7. EndOK(c)'
  <2>1. CASE Streams(c) /\ cur[c].result # None
    <3>1. cur[c].executed # 0
      BY <1>1, <2>1 DEF EndOK
    <3>2. Now' \notin {"get", "advance", "next", "drain", "mogrify"}
      BY <1>3, <1>5, <2>1, <3>1
    <3>3. ~Doing(c, "discard")' =>
             ~Doing(c, "discard") /\ cur'[c].rownumber = cur[c].rownumber
      BY <1>3, <1>4, <2>1 DEF Doing
    <3> QED
      BY <1>1, <1>2, <3>2, <3>3, EndKept
  <2>2. CASE ~(Streams(c) /\ cur[c].result # None)
    BY <2>2, EndGone
  <2> QED
    BY <2>1, <2>2
<1> QED
  BY <1>4, <1>6, <1>7, OnlyOne

LEMMA ExecuteOwn ==
  ASSUME Inv, StatementInv, Alone, NEW c \in Cursors, Execute(c)
  PROVE  StatementInv'
<1>0. Base /\ Now = "end" /\ my.stmt \in Nat /\ my' = Stale(my) /\ Cleared(c) /\ SessionOK(my)
  BY BaseIs DEF Inv, Execute, Begin, Base
<1>1. PICK rest : rest = <<"mogrify", "query", "get", "post", "executed">>
  OBVIOUS
<1>2. /\ rest \in Seq(Steps) /\ PlanOK("execute", rest) /\ rest # << >>
      /\ Head(rest) = "mogrify" /\ QueriesFit(rest, my.stmt) /\ QueriesEnd(rest)
  BY <1>0, <1>1, ExecutePlan, ExecuteEnds DEF Execute
<1>3. PICK plan : plan = DiscardPlan(c, rest)
  OBVIOUS
<1>4. /\ plan \in Seq(Steps) /\ plan # << >> /\ QueriesEnd(plan)
      /\ Head(plan) = IF cur[c].result # None THEN "discard"
                      ELSE IF cur[c].open THEN "next" ELSE "mogrify"
  BY <1>0, <1>2, <1>3, DiscardPlanIs, DiscardEnds
<1>5. run' = [who |-> c, method |-> "execute", plan |-> plan, size |-> None,
              exc |-> "none", own |-> TRUE, out |-> None]
  BY <1>1, <1>3 DEF Execute, Begin, NoRun
<1>6. /\ cur'[c].result = cur[c].result /\ cur'[c].executed = cur[c].executed
      /\ cur'[c].description = None
  <2>1. my'.stmt = my.stmt
    BY <1>0, StaleIs DEF SamePlace
  <2> QED
    BY <1>0, <2>1, ClearedIs
<1> QED
  BY <1>0, <1>4, <1>5, <1>6, BeginOwn

LEMMA CloseOwn ==
  ASSUME Inv, StatementInv, Alone, NEW c \in Cursors, Close(c)
  PROVE  StatementInv'
<1>0. Base /\ Now = "end" /\ my.stmt \in Nat /\ my' = Stale(my) /\ Cleared(c) /\ SessionOK(my)
  BY BaseIs DEF Inv, Close, Begin, Base
<1>1. PICK rest : rest = <<"detach">>
  OBVIOUS
<1>2. /\ rest \in Seq(Steps) /\ PlanOK("close", rest) /\ rest # << >>
      /\ Head(rest) = "detach" /\ QueriesFit(rest, my.stmt) /\ QueriesEnd(rest)
  BY <1>0, <1>1, ClosePlan, NoQueries
<1>3. PICK plan : plan = DiscardPlan(c, rest)
  OBVIOUS
<1>4. /\ plan \in Seq(Steps) /\ plan # << >> /\ QueriesEnd(plan)
      /\ Head(plan) = IF cur[c].result # None THEN "discard"
                      ELSE IF cur[c].open THEN "next" ELSE "detach"
  BY <1>0, <1>2, <1>3, DiscardPlanIs, DiscardEnds
<1>5. run' = [who |-> c, method |-> "close", plan |-> plan, size |-> None,
              exc |-> "none", own |-> TRUE, out |-> None]
  BY <1>1, <1>3 DEF Close, Begin, NoRun
<1>6. /\ cur'[c].result = cur[c].result /\ cur'[c].executed = cur[c].executed
      /\ cur'[c].description = None
  <2>1. my'.stmt = my.stmt
    BY <1>0, StaleIs DEF SamePlace
  <2> QED
    BY <1>0, <2>1, ClearedIs
<1> QED
  BY <1>0, <1>4, <1>5, <1>6, BeginOwn

LEMMA NextsetOwn ==
  ASSUME Inv, StatementInv, Alone, NEW c \in Cursors, Nextset(c)
  PROVE  StatementInv'
<1>1. PICK plan : plan = (IF cur[c].executed # 0 THEN <<"fetch">> ELSE << >>) \o <<"advance">>
  OBVIOUS
<1>2. /\ plan \in Seq(Steps) /\ plan # << >>
      /\ Head(plan) = IF cur[c].executed # 0 THEN "fetch" ELSE "advance"
  BY <1>1, NextsetPlan
<1>3. QueriesEnd(plan)
  <2>1. PICK last : last = <<"advance">>
    OBVIOUS
  <2>2. last \in Seq(Steps) /\ QueriesEnd(last) /\ "fetch" \in Steps
    BY <2>1, NoQueries DEF Steps
  <2>3. QueriesEnd(<<"fetch">> \o last) /\ << >> \o last = last
    BY <2>2, EndCons
  <2> QED
    BY <1>1, <2>1, <2>2, <2>3
<1>4. /\ run' = [who |-> c, method |-> "nextset", plan |-> plan, size |-> None,
                 exc |-> "none", own |-> TRUE, out |-> None]
      /\ Idle /\ my' = Stale(my) /\ cur' = cur
  BY <1>1 DEF Nextset, Begin, NoRun
<1>5. Now = "end"
  BY <1>4 DEF Now
<1> QED
  BY <1>2, <1>3, <1>4, <1>5, BeginOwn

LEMMA CallprocOwn ==
  ASSUME Inv, StatementInv, Alone, NEW c \in Cursors, Callproc(c)
  PROVE  StatementInv'
<1>1. my.stmt \in Nat /\ MaxStatements \in Nat
  BY BaseIs, CursorsAssumption DEF Inv
<1>2. PICK args \in BOOLEAN :
        /\ my.stmt + (IF args THEN 2 ELSE 1) <= MaxStatements
        /\ Begin(c, "callproc",
                 IF args THEN QueryPlan \o <<"fetch", "advance">> \o QueryPlan
                         ELSE QueryPlan)
  BY DEF Callproc
<1>3. PICK plan : plan = IF args THEN QueryPlan \o <<"fetch", "advance">> \o QueryPlan
                                 ELSE QueryPlan
  OBVIOUS
<1>4. plan \in Seq(Steps) /\ plan # << >> /\ Head(plan) = "query" /\ QueriesEnd(plan)
  <2>1. CASE args
    <3>1. my.stmt + 1 < MaxStatements
      BY <1>1, <1>2, <2>1
    <3> QED
      BY <1>1, <1>3, <2>1, <3>1, ArgsPlanIs, CallprocEnds
  <2>2. CASE ~args
    <3>1. my.stmt < MaxStatements
      BY <1>1, <1>2, <2>2
    <3> QED
      BY <1>1, <1>3, <2>2, <3>1, QueryPlanIs, CallprocEnds
  <2> QED
    BY <2>1, <2>2
<1>5. /\ run' = [who |-> c, method |-> "callproc", plan |-> plan, size |-> None,
                 exc |-> "none", own |-> TRUE, out |-> None]
      /\ Idle /\ my' = Stale(my) /\ cur' = cur
  BY <1>2, <1>3 DEF Callproc, Begin, NoRun
<1>6. Now = "end"
  BY <1>5 DEF Now
<1> QED
  BY <1>4, <1>5, <1>6, BeginOwn

LEMMA FetchOwn ==
  ASSUME Inv, StatementInv, Alone, NEW c \in Cursors, NEW method \in FetchMethods,
         Fetch(c, method)
  PROVE  StatementInv'
<1>1. PICK size \in SizesOf(method) :
        run' = [NoRun EXCEPT !.who = c, !.method = method, !.plan = <<"fetch">>,
                             !.size = size]
  BY DEF Fetch
<1>2. PICK plan : plan = <<"fetch">>
  OBVIOUS
<1>3. plan \in Seq(Steps) /\ plan # << >> /\ Head(plan) = "fetch" /\ QueriesEnd(plan)
  BY <1>2, FetchPlan, NoQueries
<1>4. /\ run' = [who |-> c, method |-> method, plan |-> plan, size |-> size,
                 exc |-> "none", own |-> TRUE, out |-> None]
      /\ Idle /\ my' = Stale(my) /\ cur' = cur
  BY <1>1, <1>2 DEF Fetch, NoRun
<1>5. Now = "end"
  BY <1>4 DEF Now
<1> QED
  BY <1>3, <1>4, <1>5, BeginOwn

LEMMA FailsOwn ==
  ASSUME Inv, StatementInv, Alone, NEW c \in Cursors, NEW method,
         Fails(c, method, "programming")
  PROVE  StatementInv'
<1>1. PICK plan : plan = << >>
  OBVIOUS
<1>2. plan \in Seq(Steps) /\ QueriesEnd(plan)
  BY <1>1, EmptyPlan, NoQueries
<1>3. /\ run' = [who |-> c, method |-> method, plan |-> plan, size |-> None,
                 exc |-> "programming", own |-> TRUE, out |-> None]
      /\ Idle /\ my' = my /\ cur' = cur
  BY <1>1 DEF Fails, NoRun
<1>4. Now = "end"
  BY <1>3 DEF Now
<1> QED
  BY <1>1, <1>2, <1>3, <1>4, BeginOwn

LEMMA ScrollOwn ==
  ASSUME Inv, StatementInv, Alone, NEW c \in Cursors, NEW r \in Offsets, Scroll(c, r)
  PROVE  StatementInv'
<1>0. /\ Now = "end" /\ Idle /\ my' = my /\ cur \in [Cursors -> CursorStates]
      /\ ~Streams(c) /\ cur[c] \in CursorStates
  BY BaseIs DEF Inv, Scroll, Base
<1>1. PICK outcome \in {"programming", "type", "index", "none"} :
        /\ run' = [NoRun EXCEPT !.who = c, !.method = "scroll", !.exc = outcome]
        /\ cur' = IF outcome = "none" THEN [cur EXCEPT ![c].rownumber = r] ELSE cur
  BY DEF Scroll
<1>2. PICK plan : plan = << >>
  OBVIOUS
<1>3. plan \in Seq(Steps) /\ QueriesEnd(plan)
  BY <1>2, EmptyPlan, NoQueries
<1>4. run' = [who |-> c, method |-> "scroll", plan |-> plan, size |-> None,
              exc |-> outcome, own |-> TRUE, out |-> None]
  BY <1>1, <1>2 DEF NoRun
<1>5. /\ cur'[c].executed = cur[c].executed /\ cur'[c].result = cur[c].result
      /\ cur'[c].description = cur[c].description
  BY <1>0, <1>1 DEF CursorStates
<1> QED
  BY <1>0, <1>2, <1>3, <1>4, <1>5, BeginOwn

-----------------------------------------------------------------------------
(* What goes on elsewhere.                                                 *)
LEMMA ElsewhereOwn ==
  ASSUME Inv, StatementInv, Alone, UNCHANGED <<cur, run>>,
         my'.stmt = my.stmt, my'.at = my.at, my'.err = my.err,
         MoreResults(my') <=> MoreResults(my), my'.link = "up" => my.link = "up",
         my.status = "ready" => my'.cut = my.cut /\ CurrentSet(my').n = CurrentSet(my).n
  PROVE  StatementInv'
<1>1. Now' = Now /\ Answered' = Answered
  BY DEF Now, Idle, Answered
<1>2. PlanInv'
  BY DEF StatementInv, PlanInv
<1> SUFFICES ASSUME NEW c \in Cursors PROVE OwnOK(c)' /\ EndOK(c)'
  BY <1>2 DEF StatementInv
<1>3. /\ OwnOK(c) /\ EndOK(c) /\ StreamInv
      /\ my.status \in {"ready", "get_result", "use_result"}
  BY OwnFacts, BaseIs DEF Inv
<1>4. OwnOK(c)'
  BY <1>1, <1>3 DEF OwnOK
<1>5. CASE my.status = "ready"
  BY <1>1, <1>3, <1>4, <1>5 DEF EndOK, Streams, SetId, Doing
<1>6. CASE my.status # "ready"
  <2>1. ASSUME Streams(c), cur[c].result # None, cur[c].result.eof,
               cur[c].result.set = SetId(my)
        PROVE  FALSE
    <3>1. CASE my.status = "use_result"
      <4>1. PICK d \in Cursors : Reading(cur[d].result)
        BY <1>3, <3>1 DEF StreamInv
      <4>2. d = c
        BY DEF Alone
      <4> QED
        BY <2>1, <4>1, <4>2 DEF Reading
    <3>2. CASE my.status = "get_result"
      BY <1>3, <2>1, <3>2 DEF StreamInv, EndOK
    <3> QED
      BY <1>3, <1>6, <3>1, <3>2
  <2>2. SetId(my') = SetId(my)
    BY DEF SetId
  <2> QED
    BY <1>1, <1>3, <1>4, <2>1, <2>2 DEF EndOK, Streams
<1> QED
  BY <1>3, <1>5, <1>6

LEMMA KillOwn ==
  ASSUME Inv, StatementInv, Alone, Kill
  PROVE  StatementInv'
<1>1. SessionOK(my) /\ my.status \in {"get_result", "use_result"} /\ UNCHANGED <<cur, run>>
  BY DEF Inv, Base, Kill
<1>2. PICK k \in my.read..CurrentSet(my).n : my' = CutRows(my, "killed", k)
  BY DEF Kill, KillStatement
<1> QED
  BY <1>1, <1>2, CutRowsIs, ElsewhereOwn

LEMMA DisconnectOwn ==
  ASSUME Inv, StatementInv, Alone, Disconnect
  PROVE  StatementInv'
<1>1. SessionOK(my) /\ UNCHANGED <<cur, run>> /\ my.link = "up"
  BY DEF Inv, Base, Disconnect
<1>2. PICK down : down = LinkDown(my)
  OBVIOUS
<1>3. /\ SessionOK(down) /\ SamePlace(my, down) /\ (MoreResults(down) <=> MoreResults(my))
      /\ down.status = my.status /\ down.fields = my.fields /\ down.read = my.read
      /\ down.err = my.err
  BY <1>1, <1>2, LinkDownIs
<1>4. CASE my' = down
  BY <1>1, <1>3, <1>4, ElsewhereOwn DEF SamePlace
<1>5. CASE /\ my.status \in {"get_result", "use_result"}
           /\ \E k \in my.read..CurrentSet(my).n : my' = CutRows(down, "lost", k)
  <2>1. PICK k \in down.read..CurrentSet(down).n : my' = CutRows(down, "lost", k)
    BY <1>3, <1>5 DEF SamePlace
  <2> QED
    BY <1>1, <1>3, <1>5, <2>1, CutRowsIs, ElsewhereOwn DEF SamePlace
<1> QED
  BY <1>2, <1>4, <1>5 DEF Disconnect

-----------------------------------------------------------------------------
(* The steps of a method.                                                  *)
LEMMA ProceedsOwn ==
  ASSUME Inv, StatementInv, NEW c \in Cursors, NEW step \in Steps, Active(c, step), Proceed
  PROVE  /\ PlanInv' /\ run'.who = c /\ run'.method = run.method
         /\ StepRow(run.method, step, Now')
         /\ step = "query" => Now' = "get" /\ Answered'
         /\ step \in {"get", "post"} => (Answered' <=> Answered)
         /\ step \notin {"query", "get", "post"} => ~Answered'
<1>1. RunOK /\ ~Idle /\ Now = step /\ run.who = c /\ PlanInv
  BY StepFacts, OwnFacts
<1>2. /\ RunOK' /\ SameRun /\ run'.plan = Tail(run.plan)
      /\ StepRow(run.method, Now, Now')
      /\ Now' # "end" => Now' = run.plan[2] /\ Len(run.plan) > 1
  BY <1>1, ProceedIs
<1> QED
  BY <1>1, <1>2, AnsweredGoes DEF SameRun

LEMMA RaisesOwn ==
  ASSUME Inv, StatementInv, NEW c \in Cursors, NEW step \in Steps, Active(c, step),
         NEW exc \in Exceptions, NEW own \in BOOLEAN, Raise(exc, own)
  PROVE  /\ PlanInv' /\ run'.who = c /\ ~Answered'
         /\ Now' = IF run.method = "close" THEN "detach" ELSE "end"
<1>1. RunOK /\ run.who = c /\ PlanInv
  BY StepFacts, OwnFacts
<1>2. SameRun /\ Now' = IF run.method = "close" THEN "detach" ELSE "end"
  BY StepRaises
<1> QED
  BY <1>1, <1>2, RaisedPlan DEF SameRun

LEMMA DiscardOwn ==
  ASSUME Inv, StatementInv, Alone, NEW c \in Cursors, Discard(c)
  PROVE  StatementInv'
<1>0. Active(c, "discard") /\ "discard" \in Steps
  BY DEF Discard, Steps
<1>1. /\ Base /\ StreamInv /\ SessionOK(my) /\ Now = "discard"
      /\ cur \in [Cursors -> CursorStates] /\ cur[c] \in CursorStates
      /\ OwnOK(c) /\ EndOK(c) /\ ~Answered /\ cur[c].result # None
      /\ cur[c].result \in StreamResults
  BY <1>0, StepFacts, OwnFacts DEF CursorOK, Doing, CursorStates
<1>2. /\ my' = Freed(my, cur[c].result)
      /\ SessionOK(my') /\ SamePlace(my, my') /\ NoMoreThan(my, my') /\ my'.stmt = my.stmt
  BY <1>1, FreedIs DEF Discard, SamePlace
<1>3. ASSUME my'.err.code = "none"
      PROVE  StatementInv'
  <2>1. cur' = [cur EXCEPT ![c].result = None] /\ Proceed
    BY <1>3 DEF Discard
  <2>2. /\ PlanInv' /\ ~Answered' /\ StepRow(run.method, "discard", Now')
    BY <1>0, <2>1, ProceedsOwn
  <2>3. Now' # "get"
    BY <2>2 DEF StepRow
  <2>4. /\ cur'[c].result = None /\ cur'[c].executed = cur[c].executed
        /\ cur'[c].description = cur[c].description
    BY <1>1, <2>1, DroppedIs
  <2>5. OwnOK(c)'
    BY <1>1, <1>2, <2>2, <2>3, <2>4, OwnKept
  <2>6. EndOK(c)'
    BY <2>4, EndGone
  <2> QED
    BY <2>2, <2>5, <2>6, OnlyOne
<1>4. ASSUME my'.err.code # "none"
      PROVE  StatementInv'
  <2>1. cur' = [cur EXCEPT ![c].result.eof = TRUE] /\ RaiseError(my')
    BY <1>4 DEF Discard
  <2>2. my'.err.code \in Exceptions /\ my'.err.fresh \in BOOLEAN
    BY <1>2, ErrorTyped
  <2>3. /\ PlanInv' /\ ~Answered' /\ Now' \in {"detach", "end"}
    BY <1>0, <2>1, <2>2, RaisesOwn DEF RaiseError
  <2>4. /\ cur'[c].result = [cur[c].result EXCEPT !.eof = TRUE]
        /\ cur'[c].executed = cur[c].executed
        /\ cur'[c].description = cur[c].description
    BY <1>1, <2>1 DEF CursorStates
  <2>5. OwnOK(c)'
    BY <1>1, <1>2, <2>3, <2>4, OwnKept
  <2>6. cur'[c].result.set = cur[c].result.set
    BY <1>1, <2>4 DEF StreamResults
  <2>7. EndOK(c)'
    BY <1>1, <1>2, <1>4, <2>3, <2>4, <2>6 DEF EndOK, SamePlace, Streams
  <2> QED
    BY <2>3, <2>5, <2>7, OnlyOne
<1> QED
  BY <1>3, <1>4

LEMMA DiscardNextOwn ==
  ASSUME Inv, StatementInv, Alone, NEW c \in Cursors, DiscardNext(c)
  PROVE  StatementInv'
<1>0. Active(c, "next") /\ "next" \in Steps
  BY DEF DiscardNext, Steps
<1>1. /\ SessionOK(my) /\ Now = "next" /\ RunOK /\ PlanInv
      /\ OwnOK(c) /\ EndOK(c) /\ ~Answered /\ cur' = cur /\ my' = NextResult(my)
  BY <1>0, StepFacts, OwnFacts DEF DiscardNext
<1>2. SessionOK(my') /\ my'.stmt = my.stmt /\ NoMoreThan(my, my')
  BY <1>1, NextResultIs
<1>3. ASSUME PlanInv', ~Answered', Now' # "get" PROVE StatementInv'
  <2>1. OwnOK(c)'
    BY <1>1, <1>2, <1>3, OwnKept
  <2>2. cur[c].result = None \/ ~Streams(c)
    BY <1>1 DEF EndOK
  <2>3. EndOK(c)'
    BY <1>1, <2>2, EndGone
  <2> QED
    BY <1>3, <2>1, <2>3, OnlyOne
<1>4. CASE Proceed
  <2>1. PlanInv' /\ ~Answered' /\ StepRow(run.method, "next", Now')
    BY <1>0, <1>4, ProceedsOwn
  <2> QED
    BY <1>3, <2>1 DEF StepRow
<1>5. CASE Then(<<"drain">> \o run.plan)
  <2>1. Now' = "drain"
    BY <1>1, <1>5, DrainIs
  <2> QED
    BY <1>1, <1>3, <1>5, <2>1, DrainPlan
<1>6. CASE RaiseError(my')
  <2>1. my'.err.code \in Exceptions /\ my'.err.fresh \in BOOLEAN
    BY <1>2, ErrorTyped
  <2>2. /\ PlanInv' /\ ~Answered' /\ Now' \in {"detach", "end"}
    BY <1>0, <1>6, <2>1, RaisesOwn DEF RaiseError
  <2> QED
    BY <1>3, <2>2
<1> QED
  BY <1>4, <1>5, <1>6 DEF DiscardNext

LEMMA DiscardResultOwn ==
  ASSUME Inv, StatementInv, Alone, NEW c \in Cursors, DiscardResult(c)
  PROVE  StatementInv'
<1>0. Active(c, "drain") /\ "drain" \in Steps
  BY DEF DiscardResult, Steps
<1>1. /\ SessionOK(my) /\ Now = "drain" /\ Announced(my)
      /\ OwnOK(c) /\ EndOK(c) /\ ~Answered /\ cur' = cur
  BY <1>0, StepFacts, OwnFacts DEF DiscardResult, StreamInv
<1>2. SessionOK(my') /\ my'.stmt = my.stmt /\ NoMoreThan(my, my')
  <2>1. PICK used : used = UseResult(my)
    OBVIOUS
  <2>2. SessionOK(used) /\ SamePlace(my, used) /\ NoMoreThan(my, used)
    BY <1>1, <2>1, UseResultIs
  <2>3. my' = IF TakesResult(my, used) THEN EndOfRows(used) ELSE used
    BY <2>1 DEF DiscardResult
  <2>4. PICK end : end = EndOfRows(used)
    OBVIOUS
  <2>5. SessionOK(end) /\ SamePlace(used, end) /\ NoMoreThan(used, end)
    BY <2>2, <2>4, EndOfRowsIs
  <2>6. my' = end \/ my' = used
    BY <2>3, <2>4
  <2> QED
    BY <2>2, <2>5, <2>6 DEF SamePlace, NoMoreThan
<1>3. ASSUME PlanInv', ~Answered', Now' # "get" PROVE StatementInv'
  <2>1. OwnOK(c)'
    BY <1>1, <1>2, <1>3, OwnKept
  <2>2. cur[c].result = None \/ ~Streams(c)
    BY <1>1 DEF EndOK
  <2>3. EndOK(c)'
    BY <1>1, <2>2, EndGone
  <2> QED
    BY <1>3, <2>1, <2>3, OnlyOne
<1>4. CASE Proceed
  <2>1. PlanInv' /\ ~Answered' /\ StepRow(run.method, "drain", Now')
    BY <1>0, <1>4, ProceedsOwn
  <2> QED
    BY <1>3, <2>1 DEF StepRow
<1>5. CASE RaiseError(my')
  <2>1. my'.err.code \in Exceptions /\ my'.err.fresh \in BOOLEAN
    BY <1>2, ErrorTyped
  <2>2. /\ PlanInv' /\ ~Answered' /\ Now' \in {"detach", "end"}
    BY <1>0, <1>5, <2>1, RaisesOwn DEF RaiseError
  <2> QED
    BY <1>3, <2>2
<1> QED
  BY <1>4, <1>5 DEF DiscardResult

LEMMA DetachOwn ==
  ASSUME Inv, StatementInv, Alone, NEW c \in Cursors, Detach(c)
  PROVE  StatementInv'
<1>0. Active(c, "detach") /\ "detach" \in Steps
  BY DEF Detach, Steps
<1>1. /\ Base /\ StreamInv /\ RunOK /\ Now = "detach" /\ PlanInv
      /\ OwnOK(c) /\ ~Answered
      /\ cur \in [Cursors -> CursorStates] /\ cur[c] \in CursorStates
  BY <1>0, StepFacts, OwnFacts
<1>2. my'.stmt = my.stmt /\ NoMoreThan(my, my')
  BY <1>1, FreedIs DEF Detach, SamePlace
<1>3. /\ run'.plan = << >> /\ run'.method = run.method /\ run'.size = run.size
  BY <1>1 DEF Detach, Then, RunOK, Runs
<1>4. Now' = "end" /\ ~Answered' /\ PlanInv'
  BY <1>1, <1>3, NoQueries DEF Now, Idle, Answered, PlanInv
<1>5. /\ cur'[c].result = None /\ cur'[c].executed = cur[c].executed
      /\ cur'[c].description = cur[c].description
  BY <1>1 DEF Detach, CursorStates
<1>6. OwnOK(c)'
  BY <1>1, <1>2, <1>4, <1>5, OwnKept
<1>7. EndOK(c)'
  BY <1>5, EndGone
<1> QED
  BY <1>4, <1>6, <1>7, OnlyOne

LEMMA MogrifyOwn ==
  ASSUME Inv, StatementInv, Alone, NEW c \in Cursors, Mogrify(c)
  PROVE  StatementInv'
<1>0. Active(c, "mogrify") /\ "mogrify" \in Steps
  BY DEF Mogrify, Steps
<1>1. /\ Now = "mogrify" /\ OwnOK(c) /\ EndOK(c) /\ ~Answered
      /\ cur' = cur /\ my' = my /\ run.method = "execute"
  BY <1>0, StepFacts, OwnFacts, MethodOf DEF Mogrify
<1>2. ASSUME PlanInv', ~Answered', Now' # "get" PROVE StatementInv'
  <2>1. OwnOK(c)'
    BY <1>1, <1>2, OwnKept DEF NoMoreThan
  <2>2. cur[c].result = None \/ ~Streams(c)
    BY <1>1 DEF EndOK
  <2>3. EndOK(c)'
    BY <1>1, <2>2, EndGone
  <2> QED
    BY <1>2, <2>1, <2>3, OnlyOne
<1>3. CASE Proceed
  <2>1. PlanInv' /\ ~Answered' /\ StepRow(run.method, "mogrify", Now')
    BY <1>0, <1>3, ProceedsOwn
  <2> QED
    BY <1>2, <2>1 DEF StepRow
<1>4. CASE Raise("programming", TRUE)
  <2>1. "programming" \in Exceptions
    BY DEF Exceptions
  <2>2. PlanInv' /\ ~Answered' /\ Now' = "end"
    BY <1>0, <1>1, <1>4, <2>1, RaisesOwn
  <2> QED
    BY <1>2, <2>2
<1> QED
  BY <1>3, <1>4 DEF Mogrify

(* The session after db.query(q): nothing of the answer before is left     *)
(* that was not there.                                                     *)
LEMMA QueriedOwn ==
  ASSUME Base, StreamInv, NEW c \in Cursors, NEW answer, IsAnswer(answer),
         my' = RealQuery(Freed(my, cur[c].result), answer)
  PROVE  \/ my'.err.code = "none"
         \/ my'.err.code # "none" /\ ~MoreResults(my')
         \/ my'.err.code # "none" /\ my'.stmt = my.stmt /\ NoMoreThan(my, my')
<1>1. PICK s : s = Freed(my, cur[c].result)
  OBVIOUS
<1>2. SessionOK(s) /\ s.stmt = my.stmt /\ NoMoreThan(my, s)
  BY <1>1, FreedIs DEF SamePlace
<1>3. IsAnswer(answer)
  OBVIOUS
<1>4. LET t == RealQuery(s, answer)
      IN /\ SessionOK(t)
         /\ \/ /\ s.status = "ready" /\ ~MoreResults(s)
               /\ t.stmt = s.stmt + 1 /\ t.at = 1 /\ t.status # "use_result"
               /\ t.read = 0
               /\ \/ Announced(t)
                  \/ /\ JustFailed(t, {"server"}) /\ ~MoreResults(t)
                     /\ t.status = "ready"
            \/ /\ s.status = "ready"
               /\ SamePlace(s, t) /\ NoMoreThan(s, t) /\ t.read = s.read
               /\ t.status = "ready"
               /\ JustFailed(t, {"lost"})
            \/ /\ s.status # "ready" \/ MoreResults(s)
               /\ SamePlace(s, t) /\ NoMoreThan(s, t) /\ t.read = s.read
               /\ t.status = s.status /\ t.fields = s.fields
               /\ JustFailed(t, {"sync"})
  BY <1>2, <1>3, RealQueryIs, Zenon
<1>5. PICK t : t = RealQuery(s, answer)
  OBVIOUS
<1>6. \/ Announced(t)
      \/ JustFailed(t, {"server"}) /\ ~MoreResults(t)
      \/ SamePlace(s, t) /\ NoMoreThan(s, t) /\ JustFailed(t, {"lost"})
      \/ SamePlace(s, t) /\ NoMoreThan(s, t) /\ JustFailed(t, {"sync"})
  BY <1>4, <1>5
<1>7. my' = t
  BY <1>1, <1>5
<1> QED
  BY <1>2, <1>6, <1>7 DEF Announced, JustFailed, SamePlace, NoMoreThan

LEMMA QueryOwn ==
  ASSUME Inv, StatementInv, Alone, NEW c \in Cursors, Query(c)
  PROVE  StatementInv'
<1>0. Active(c, "query") /\ "query" \in Steps
  BY DEF Query, Steps
<1>1. /\ Base /\ StreamInv /\ Now = "query" /\ run.method # "close" /\ OwnOK(c) /\ ~Answered
      /\ cur \in [Cursors -> CursorStates] /\ cur[c] \in CursorStates
  BY <1>0, StepFacts, OwnFacts, MethodOf
<1>2. /\ cur'[c].result = None /\ cur'[c].executed = cur[c].executed
      /\ cur'[c].description = cur[c].description
  BY <1>1, DroppedIs DEF Query
<1>3. PICK answer \in AnswersNow : my' = RealQuery(Freed(my, cur[c].result), answer)
  BY DEF Query
<1>4. /\ \/ my'.err.code = "none"
         \/ my'.err.code # "none" /\ ~MoreResults(my')
         \/ my'.err.code # "none" /\ my'.stmt = my.stmt /\ NoMoreThan(my, my')
      /\ SessionOK(my')
  <2>1. Now \notin {"get", "drain"} /\ IsAnswer(answer)
    BY <1>1, AnswersAre
  <2>2. SessionOK(my')
    BY <1>1, <1>3, <2>1, QueriedIs
  <2> QED
    BY <1>1, <1>3, <2>1, <2>2, QueriedOwn
<1>5. EndOK(c)'
  BY <1>2, EndGone
<1>6. ASSUME my'.err.code = "none"
      PROVE  StatementInv'
  <2>1. PlanInv' /\ Now' = "get" /\ Answered'
    BY <1>0, <1>6, ProceedsOwn DEF Query
  <2>2. OwnOK(c)'
    BY <1>1, <1>2, <2>1 DEF OwnOK
  <2> QED
    BY <1>5, <2>1, <2>2, OnlyOne
<1>7. ASSUME my'.err.code # "none"
      PROVE  StatementInv'
  <2>1. my'.err.code \in Exceptions /\ my'.err.fresh \in BOOLEAN
    BY <1>4, ErrorTyped
  <2>2. PlanInv' /\ ~Answered' /\ Now' = "end"
    BY <1>0, <1>1, <1>7, <2>1, RaisesOwn DEF Query, RaiseError
  <2>3. OwnOK(c)'
    BY <1>1, <1>2, <1>4, <1>7, <2>2 DEF OwnOK, NoMoreThan
  <2> QED
    BY <1>5, <2>2, <2>3, OnlyOne
<1> QED
  BY <1>6, <1>7

(* A result set that could not be stored was the last one.                 *)
LEMMA StoreFails ==
  ASSUME SessionOK(my), Announced(my)
  PROVE  LET t == StoreResult(my)
         IN t.err.code # "none" => ~(MoreResults(t) /\ t.link = "up")
<1>1. PICK t : t = StoreResult(my)
  OBVIOUS
<1>2. SUFFICES ASSUME t.err.code # "none" PROVE ~(MoreResults(t) /\ t.link = "up")
  BY <1>1
<1>3. my \in Sessions /\ my.err.code = "none" /\ my.at \in Nat /\ my.at <= Len(my.sets)
      /\ my.sets \in Seq(ResultSets) /\ (my.fields => my.status = "get_result")
  BY DEF SessionOK, Sessions, Announced
<1>4. t = Cut(my)
  <2>1. ASSUME ~my.fields \/ my.cut = "no" PROVE t.err = my.err
    BY <1>1, <1>3, <2>1 DEF StoreResult, Sessions
  <2> QED
    BY <1>1, <1>2, <1>3, <2>1 DEF StoreResult
<1>5. CASE my.cut = "lost"
  <2>1. t.link = "closed"
    BY <1>3, <1>4, <1>5 DEF Cut, Lost, Sessions
  <2> QED
    BY <2>1
<1>6. CASE my.cut # "lost"
  <2>1. t.sets = SubSeq(my.sets, 1, my.at) /\ t.at = my.at
    BY <1>3, <1>4, <1>6 DEF Cut, Sessions
  <2>2. Len(SubSeq(my.sets, 1, my.at)) = my.at
    BY <1>3
  <2> QED
    BY <1>3, <2>1, <2>2 DEF MoreResults
<1> QED
  BY <1>5, <1>6

LEMMA GetResultOwn ==
  ASSUME Inv, StatementInv, Alone, NEW c \in Cursors, GetResult(c)
  PROVE  StatementInv'
<1>0. Active(c, "get") /\ "get" \in Steps
  BY DEF GetResult, Steps
<1>1. /\ Base /\ StreamInv /\ SessionOK(my) /\ Now = "get" /\ run.method # "close"
      /\ OwnOK(c) /\ EndOK(c) /\ Announced(my) /\ my.stmt \in Nat /\ my.stmt > 0
      /\ cur \in [Cursors -> CursorStates] /\ cur[c] \in CursorStates
      /\ my.status # "use_result" /\ my.at \in Nat
  BY <1>0, StepFacts, OwnFacts, MethodOf, BaseIs DEF StreamInv, Announced
<1>2. PICK after : after = IF Streams(c) THEN UseResult(my) ELSE StoreResult(my)
  OBVIOUS
<1>3. /\ SessionOK(after) /\ SamePlace(my, after) /\ NoMoreThan(my, after)
      /\ ~Streams(c) \/ TakesResult(my, after) \/ after.err.code = "none"
      /\ ~TakesResult(my, after) /\ after.err.code # "none" =>
           ~(MoreResults(after) /\ after.link = "up")
  <2>1. CASE Streams(c)
    <3>1. after = UseResult(my)
      BY <1>2, <2>1
    <3>2. /\ SessionOK(after) /\ SamePlace(my, after) /\ NoMoreThan(my, after)
          /\ after.err = my.err
      BY <1>1, <3>1, UseResultIs
    <3> QED
      BY <1>1, <3>2 DEF Announced
  <2>2. CASE ~Streams(c)
    <3>1. after = StoreResult(my)
      BY <1>2, <2>2
    <3>2. /\ SessionOK(after) /\ SamePlace(my, after) /\ NoMoreThan(my, after)
      BY <1>1, <3>1, StoreResultIs
    <3>3. after.err.code # "none" => ~(MoreResults(after) /\ after.link = "up")
      BY <1>1, <3>1, StoreFails
    <3> QED
      BY <2>2, <3>2, <3>3
  <2> QED
    BY <2>1, <2>2
<1>4. PICK set : set = SetId(my) /\ set[1] = my.stmt /\ set[2] = my.at
  <2>1. PICK set : set = SetId(my)
    OBVIOUS
  <2>2. set = <<my.stmt, my.at>>
    BY <2>1 DEF SetId
  <2>3. set[1] = my.stmt /\ set[2] = my.at
    BY <2>2
  <2> QED
    BY <2>1, <2>3
<1>5. Reading(cur[c].result) => FALSE
  BY <1>1 DEF StreamInv
<1>6. ASSUME TakesResult(my, after), my' = after, Proceed,
             cur' = [cur EXCEPT ![c].description = set,
                                ![c].result = [set |-> set, eof |-> ~Streams(c)],
                                ![c].rownumber = 0]
      PROVE  StatementInv'
  <2>1. /\ PlanInv' /\ (Answered' <=> Answered) /\ StepRow(run.method, "get", Now')
        /\ run'.who = c
    BY <1>0, <1>6, ProceedsOwn
  <2>2. Now' = "post"
    BY <2>1 DEF StepRow
  <2>3. PICK eof \in BOOLEAN : eof <=> ~Streams(c)
    OBVIOUS
  <2>4. PICK result : result = [set |-> set, eof |-> eof]
    OBVIOUS
  <2>5. result.set = set /\ result.eof = eof
    BY <2>4
  <2>6. PICK new : new = [cur[c] EXCEPT !.description = set, !.result = result, !.rownumber = 0]
    OBVIOUS
  <2>7. cur' = [cur EXCEPT ![c] = new]
    <3>1. eof = ~Streams(c)
      BY <2>3
    <3>2. result = [set |-> set, eof |-> ~Streams(c)]
      BY <2>4, <3>1
    <3> QED
      BY <1>1, <1>6, <2>6, <3>2 DEF CursorStates
  <2>8. /\ cur'[c] = new /\ new.description = set /\ new.result = result
        /\ new.executed = cur[c].executed
    BY <1>1, <2>6, <2>7 DEF CursorStates
  <2>9. my'.stmt = my.stmt /\ my'.at = my.at /\ NoMoreThan(my, my')
    BY <1>3, <1>6 DEF SamePlace
  <2>10. OwnOK(c)'
    BY <1>1, <1>4, <2>1, <2>2, <2>8, <2>9 DEF OwnOK, NoMoreThan
  <2>11. EndOK(c)'
    <3>1. Streams(c) => ~cur'[c].result.eof
      BY <2>3, <2>5, <2>8
    <3>2. cur'[c].result.set[1] = my'.stmt /\ cur'[c].result.set[2] = my'.at
      BY <1>4, <2>5, <2>8, <2>9
    <3>3. ~Answered' => cur'[c].executed # 0
      BY <1>1, <2>1, <2>8 DEF OwnOK
    <3>4. my'.stmt \in 1..my'.stmt /\ my'.at <= my'.at
      BY <1>1, <2>9
    <3> QED
      BY <2>2, <3>1, <3>2, <3>3, <3>4 DEF EndOK, Streams
  <2> QED
    BY <2>1, <2>10, <2>11, OnlyOne
<1>7. ASSUME ~TakesResult(my, after), after.err.code = "none", Proceed,
             my' = Freed(after, cur[c].result),
             cur' = [cur EXCEPT ![c].description = None, ![c].result = None,
                                ![c].rownumber = 0]
      PROVE  StatementInv'
  <2>1. PlanInv' /\ (Answered' <=> Answered) /\ StepRow(run.method, "get", Now')
    BY <1>0, <1>7, ProceedsOwn
  <2>2. Now' = "post"
    BY <2>1 DEF StepRow
  <2>3. my' = after
    BY <1>5, <1>7 DEF Freed
  <2>4. /\ cur'[c].result = None /\ cur'[c].executed = cur[c].executed
        /\ cur'[c].description = None
    BY <1>1, <1>7 DEF CursorStates
  <2>5. OwnOK(c)'
    BY <1>1, <1>3, <2>1, <2>2, <2>3, <2>4 DEF OwnOK, NoMoreThan, SamePlace
  <2>6. EndOK(c)'
    BY <2>4, EndGone
  <2> QED
    BY <2>1, <2>5, <2>6, OnlyOne
<1>8. ASSUME ~TakesResult(my, after), after.err.code # "none", my' = after,
             RaiseError(after), cur' = cur
      PROVE  StatementInv'
  <2>1. my'.err.code \in Exceptions /\ my'.err.fresh \in BOOLEAN
    BY <1>3, <1>8, ErrorTyped
  <2>2. PlanInv' /\ ~Answered' /\ Now' = "end"
    BY <1>0, <1>1, <1>8, <2>1, RaisesOwn DEF RaiseError
  <2>3. OwnOK(c)'
    BY <1>1, <1>3, <1>8, <2>2, OwnKept DEF SamePlace
  <2>4. ~Streams(c)
    BY <1>3, <1>8
  <2>5. EndOK(c)'
    BY <2>4, EndGone
  <2> QED
    BY <2>2, <2>3, <2>5, OnlyOne
<1> QED
  BY <1>2, <1>4, <1>6, <1>7, <1>8 DEF GetResult

LEMMA PostGetResultOwn ==
  ASSUME Inv, StatementInv, Alone, ~ConverterRaises, NEW c \in Cursors, PostGetResult(c)
  PROVE  StatementInv'
<1>0. Active(c, "post") /\ "post" \in Steps
  BY DEF PostGetResult, Steps
<1>1. /\ Now = "post" /\ OwnOK(c) /\ EndOK(c) /\ my' = my
      /\ cur \in [Cursors -> CursorStates] /\ cur[c] \in CursorStates
  BY <1>0, StepFacts, OwnFacts DEF PostGetResult
<1>2. Proceed
  BY DEF PostGetResult
<1>3. /\ PlanInv' /\ (Answered' <=> Answered) /\ StepRow(run.method, "post", Now')
      /\ run'.who = c
  BY <1>0, <1>2, ProceedsOwn
<1>4. Now' \in {"executed", "end", "query"} /\ (Answered' => Now' # "get")
  BY <1>3 DEF StepRow
<1>5. /\ cur'[c].executed = cur[c].executed /\ cur'[c].description = cur[c].description
      /\ Streams(c) => cur' = cur
  <2>1. CASE Streams(c)
    BY <2>1 DEF PostGetResult
  <2>2. CASE ~Streams(c)
    <3>1. PICK rows : cur' = [cur EXCEPT ![c].rows = rows, ![c].result = None,
                                         ![c].unconverted = FALSE]
      BY <2>2 DEF PostGetResult
    <3> QED
      BY <1>1, <2>2, <3>1 DEF CursorStates
  <2> QED
    BY <2>1, <2>2
<1>6. OwnOK(c)'
  BY <1>1, <1>3, <1>4, <1>5 DEF OwnOK
<1>7. EndOK(c)'
  <2>1. CASE Streams(c)
    <3>1. cur' = cur /\ ~Doing(c, "discard") /\ ~Doing(c, "discard")'
      BY <1>1, <1>4, <1>5, <2>1 DEF Doing
    <3> QED
      BY <1>1, <1>3, <1>4, <3>1 DEF EndOK, Streams
  <2>2. CASE ~Streams(c)
    BY <2>2, EndGone
  <2> QED
    BY <2>1, <2>2
<1> QED
  BY <1>3, <1>6, <1>7, OnlyOne

LEMMA ExecutedOwn ==
  ASSUME Inv, StatementInv, Alone, NEW c \in Cursors, Executed(c)
  PROVE  StatementInv'
<1>0. Active(c, "executed") /\ "executed" \in Steps
  BY DEF Executed, Steps
<1>1. /\ Now = "executed" /\ OwnOK(c) /\ EndOK(c) /\ my' = my /\ my.stmt \in Nat
      /\ cur \in [Cursors -> CursorStates] /\ cur[c] \in CursorStates /\ Answered
  BY <1>0, StepFacts, OwnFacts DEF Executed, Answered
<1>2. /\ PlanInv' /\ ~Answered' /\ StepRow(run.method, "executed", Now') /\ run'.who = c
  BY <1>0, ProceedsOwn DEF Executed
<1>3. Now' \in {"end", "fetch"}
  BY <1>2 DEF StepRow
<1>4. PICK stmt : stmt = my.stmt
  OBVIOUS
<1>5. cur' = [cur EXCEPT ![c].executed = stmt]
  BY <1>4 DEF Executed
<1>6. /\ cur'[c].executed = stmt /\ cur'[c].description = cur[c].description
      /\ cur'[c].result = cur[c].result /\ cur'[c].rownumber = cur[c].rownumber
  BY <1>1, <1>5 DEF CursorStates
<1>7. OwnOK(c)'
  BY <1>1, <1>2, <1>3, <1>4, <1>6 DEF OwnOK
<1>8. EndOK(c)'
  <2> SUFFICES ASSUME Streams(c), cur[c].result # None PROVE EndOK(c)'
    BY <1>6, EndGone
  <2>1. stmt # 0
    BY <1>1, <1>4 DEF EndOK
  <2>2. ~Doing(c, "discard") /\ ~Doing(c, "discard")'
    BY <1>1, <1>3 DEF Doing
  <2> QED
    BY <1>1, <1>2, <1>3, <1>6, <2>1, <2>2 DEF EndOK, Streams
<1> QED
  BY <1>2, <1>7, <1>8, OnlyOne

LEMMA AdvanceOwn ==
  ASSUME Inv, StatementInv, Alone, NEW c \in Cursors, Advance(c)
  PROVE  StatementInv'
<1>0. Active(c, "advance") /\ "advance" \in Steps
  BY DEF Advance, Steps
<1>1. /\ Base /\ RunOK /\ SessionOK(my) /\ Now = "advance" /\ run.method # "close"
      /\ PlanInv /\ OwnOK(c) /\ EndOK(c) /\ ~Answered /\ cur' = cur /\ my.at \in Nat
      /\ cur[c] \in CursorStates /\ my.stmt \in Nat
  BY <1>0, StepFacts, OwnFacts, MethodOf, BaseIs DEF Advance
<1>2. CASE my' = my /\ Raise("programming", TRUE)
  <2>1. "programming" \in Exceptions
    BY DEF Exceptions
  <2>2. PlanInv' /\ ~Answered' /\ Now' = "end"
    BY <1>0, <1>1, <1>2, <2>1, RaisesOwn
  <2>3. OwnOK(c)'
    BY <1>1, <1>2, <2>2, OwnKept DEF NoMoreThan
  <2>4. EndOK(c)'
    BY <1>1, <1>2, <2>2, EndKept DEF SamePlace, Doing
  <2> QED
    BY <2>2, <2>3, <2>4, OnlyOne
<1>3. ASSUME my' = NextResult(my),
             CASE NextResultReturns(my) = "set" ->
                    Then(<<"get", "post">> \o Tail(run.plan))
               [] NextResultReturns(my) = "no more" -> Proceed
               [] OTHER -> RaiseError(my')
      PROVE  StatementInv'
  <2>1. /\ SessionOK(my') /\ my'.stmt = my.stmt /\ my'.cut = my.cut /\ NoMoreThan(my, my')
        /\ \/ /\ NextResultReturns(my) = "error" /\ my'.err.code # "none"
              /\ my'.at >= my.at
           \/ /\ my.status = "ready" /\ MoreResults(my) /\ my.link = "up"
              /\ my'.at = my.at + 1 /\ NextResultReturns(my) = "set"
           \/ /\ NextResultReturns(my) = "no more" /\ SamePlace(my, my')
              /\ my'.err.code = "none"
    <3>1. PICK t : t = NextResult(my)
      OBVIOUS
    <3>2. /\ SessionOK(t) /\ t.stmt = my.stmt /\ t.cut = my.cut /\ NoMoreThan(my, t)
          /\ \/ NextResultReturns(my) = "error" /\ SamePlace(my, t) /\ JustFailed(t, {"sync"})
             \/ /\ my.status = "ready" /\ MoreResults(my) /\ my.link = "up"
                /\ t.at = my.at + 1
                /\ \/ NextResultReturns(my) = "set"
                   \/ NextResultReturns(my) = "error" /\ JustFailed(t, {"server"})
             \/ NextResultReturns(my) = "error" /\ SamePlace(my, t) /\ JustFailed(t, {"lost"})
             \/ /\ NextResultReturns(my) = "no more" /\ SamePlace(my, t)
                /\ t.err.code = "none"
      BY <1>1, <3>1, NextResultIs
    <3>3. my' = t
      BY <1>3, <3>1
    <3>4. my.at + 1 >= my.at /\ my.at >= my.at
      BY <1>1
    <3> QED
      BY <3>2, <3>3, <3>4 DEF JustFailed, SamePlace
  <2>2. CASE NextResultReturns(my) = "error"
    <3>1. RaiseError(my') /\ my'.err.code # "none" /\ my'.at >= my.at
      BY <1>3, <2>1, <2>2
    <3>2. my'.err.code \in Exceptions /\ my'.err.fresh \in BOOLEAN
      BY <2>1, ErrorTyped
    <3>3. PlanInv' /\ ~Answered' /\ Now' = "end"
      BY <1>0, <1>1, <3>1, <3>2, RaisesOwn DEF RaiseError
    <3>4. OwnOK(c)'
      BY <1>1, <2>1, <3>3, OwnKept
    <3>5. EndOK(c)'
      <4> SUFFICES ASSUME Streams(c), cur[c].result # None PROVE EndOK(c)'
        BY <1>1, EndGone
      <4>1. /\ cur[c].result.set[1] \in 1..my.stmt
            /\ cur[c].result.set[1] = my.stmt => cur[c].result.set[2] <= my.at
            /\ cur[c].executed # 0
        BY <1>1 DEF EndOK
      <4>2. cur[c].result.set[2] \in Nat /\ my'.at \in Nat
        BY <1>1, <2>1 DEF CursorStates, StreamResults, SetIds, SessionOK, Sessions
      <4>3. cur[c].result.set[1] = my'.stmt => cur[c].result.set[2] <= my'.at
        <5>1. PICK k \in Nat : k = cur[c].result.set[2]
          BY <4>2
        <5>2. PICK at \in Nat : at = my'.at
          BY <4>2
        <5>3. k <= my.at => k <= at
          BY <1>1, <3>1, <5>2
        <5> QED
          BY <2>1, <4>1, <5>1, <5>2, <5>3
      <4> QED
        BY <1>1, <2>1, <3>1, <3>3, <4>1, <4>3 DEF EndOK, Streams
    <3> QED
      BY <3>3, <3>4, <3>5, OnlyOne
  <2>3. CASE NextResultReturns(my) = "set"
    <3>1. /\ Then(<<"get", "post">> \o Tail(run.plan))
          /\ MoreResults(my) /\ my.link = "up" /\ my'.at = my.at + 1
      BY <1>3, <2>1, <2>3
    <3>2. PlanInv' /\ ~Answered' /\ Now' = "get"
      BY <1>1, <3>1, GetPlan, GetIs
    <3>3. cur[c].executed = my.stmt
      BY <1>1, <3>1 DEF OwnOK
    <3>4. OwnOK(c)'
      BY <1>1, <2>1, <3>2, <3>3 DEF OwnOK
    <3>5. EndOK(c)'
      <4> SUFFICES ASSUME Streams(c), cur[c].result # None PROVE EndOK(c)'
        BY <1>1, EndGone
      <4>1. /\ cur[c].result.set[1] \in 1..my.stmt
            /\ cur[c].result.set[1] = my.stmt => cur[c].result.set[2] <= my.at
            /\ cur[c].executed # 0
        BY <1>1 DEF EndOK
      <4>2. cur[c].result.set[2] \in Nat
        BY <1>1 DEF CursorStates, StreamResults, SetIds
      <4>3. cur[c].result.set[1] = my'.stmt =>
              cur[c].result.set[2] <= my'.at /\ cur[c].result.set[2] # my'.at
        <5>1. PICK k \in Nat : k = cur[c].result.set[2]
          BY <4>2
        <5>2. k <= my.at => k <= my.at + 1 /\ k # my.at + 1
          BY <1>1
        <5> QED
          BY <2>1, <3>1, <4>1, <5>1, <5>2
      <4>4. cur[c].result.set # SetId(my')
        BY <4>3 DEF SetId
      <4> QED
        BY <1>1, <2>1, <3>2, <4>1, <4>3, <4>4 DEF EndOK, Streams
    <3> QED
      BY <3>2, <3>4, <3>5, OnlyOne
  <2>4. CASE NextResultReturns(my) = "no more"
    <3>1. Proceed /\ SamePlace(my, my') /\ my'.err.code = "none"
      BY <1>3, <2>1, <2>4
    <3>2. PlanInv' /\ ~Answered' /\ StepRow(run.method, "advance", Now')
      BY <1>0, <3>1, ProceedsOwn
    <3>3. Now' \in {"query", "end"}
      BY <3>2 DEF StepRow
    <3>4. OwnOK(c)'
      BY <1>1, <2>1, <3>2, <3>3, OwnKept
    <3>5. EndOK(c)'
      <4> SUFFICES ASSUME Streams(c), cur[c].result # None PROVE EndOK(c)'
        BY <1>1, EndGone
      <4>1. my.err.code = my'.err.code /\ ~Doing(c, "discard")
        BY <1>1, <3>1 DEF EndOK, Doing
      <4> QED
        BY <1>1, <3>1, <3>3, <4>1, EndKept
    <3> QED
      BY <3>2, <3>4, <3>5, OnlyOne
  <2> QED
    BY <2>1, <2>2, <2>3, <2>4
<1> QED
  BY <1>2, <1>3 DEF Advance

(* A fetch that hands out rows.                                            *)
LEMMA GivesOwn ==
  ASSUME Inv, StatementInv, NEW c \in Cursors, Active(c, "fetch"), NEW rows, Give(rows)
  PROVE  /\ PlanInv' /\ ~Answered' /\ run'.who = c
         /\ run.method \in FetchMethods => Now' = "end"
         /\ run.method \notin FetchMethods => Now' = "advance" /\ run.size = None
<1>0. "fetch" \in Steps
  BY DEF Steps
<1>1. RunOK /\ ~Idle /\ Now = "fetch" /\ run.who = c /\ PlanInv
  BY <1>0, StepFacts, OwnFacts
<1>2. SameRun /\ run'.plan = Tail(run.plan)
  BY <1>1 DEF Give, RunOK, Runs, SameRun
<1>3. StepRow(run.method, Now, Now')
  BY <1>1, <1>2, TailIs DEF Now, Idle
<1>4. PlanInv' /\ ~Answered'
  BY <1>1, <1>2, <1>3, AnsweredGoes
<1>5. \/ run.method \in {"callproc", "nextset"} /\ Now' = "advance"
      \/ run.method \in FetchMethods /\ Now' = "end"
  BY <1>1, <1>3 DEF StepRow
<1>6. run.method \in {"callproc", "nextset"} => run.method \notin FetchMethods
  BY DEF FetchMethods
<1> QED
  BY <1>1, <1>2, <1>4, <1>5, <1>6 DEF SameRun, PlanInv

(* close() has no such step.                                               *)
LEMMA FetchesNotClose ==
  ASSUME Inv, NEW c \in Cursors, Active(c, "fetch")
  PROVE  run.method # "close"
<1>1. "fetch" \in Steps
  BY DEF Steps
<1>2. PICK m \in Methods : m = run.method /\ "fetch" \in MethodSteps(m)
  BY <1>1, StepFacts
<1>3. m \in {"callproc", "nextset"} \cup FetchMethods
  BY <1>2, MethodOf
<1> QED
  BY <1>2, <1>3 DEF FetchMethods

LEMMA FetchStoredOwn ==
  ASSUME Inv, StatementInv, Alone, NEW c \in Cursors, FetchStored(c)
  PROVE  StatementInv'
<1>0. Active(c, "fetch") /\ "fetch" \in Steps /\ "type" \in Exceptions /\ ~Streams(c)
  BY DEF FetchStored, Steps, Exceptions
<1>1. /\ Now = "fetch" /\ OwnOK(c) /\ ~Answered /\ my' = my /\ run.method # "close"
      /\ cur \in [Cursors -> CursorStates] /\ cur[c] \in CursorStates
  BY <1>0, StepFacts, OwnFacts, FetchesNotClose DEF FetchStored
<1>2. /\ cur'[c].executed = cur[c].executed /\ cur'[c].description = cur[c].description
      /\ Raise("type", TRUE) \/ \E rows : Give(rows)
  <2>1. CASE cur[c].rows = None
    BY <2>1 DEF FetchStored
  <2>2. CASE cur[c].rows # None
    <3>1. PICK to : cur' = [cur EXCEPT ![c].rownumber = to]
      BY <2>2 DEF FetchStored
    <3>2. \E rows : Give(rows)
      BY <2>2 DEF FetchStored
    <3> QED
      BY <1>1, <3>1, <3>2 DEF CursorStates
  <2> QED
    BY <2>1, <2>2
<1>3. PlanInv' /\ ~Answered' /\ Now' \in {"end", "advance"}
  BY <1>0, <1>1, <1>2, RaisesOwn, GivesOwn
<1>4. OwnOK(c)'
  BY <1>1, <1>2, <1>3, OwnKept DEF NoMoreThan
<1>5. EndOK(c)'
  BY <1>0, EndGone
<1> QED
  BY <1>3, <1>4, <1>5, OnlyOne

LEMMA FetchNothingOwn ==
  ASSUME Inv, StatementInv, Alone, NEW c \in Cursors, FetchNothing(c)
  PROVE  StatementInv'
<1>0. /\ Active(c, "fetch") /\ "fetch" \in Steps /\ {"type", "programming"} \subseteq Exceptions
      /\ cur[c].result = None /\ cur' = cur /\ my' = my
  BY DEF FetchNothing, Steps, Exceptions
<1>1. Now = "fetch" /\ OwnOK(c) /\ ~Answered /\ run.method # "close"
  BY <1>0, StepFacts, OwnFacts, FetchesNotClose
<1>2. Raise("programming", TRUE) \/ Raise("type", TRUE) \/ \E rows : Give(rows)
  BY DEF FetchNothing
<1>3. PlanInv' /\ ~Answered' /\ Now' \in {"end", "advance"}
  BY <1>0, <1>1, <1>2, RaisesOwn, GivesOwn
<1>4. OwnOK(c)'
  BY <1>0, <1>1, <1>3, OwnKept DEF NoMoreThan
<1>5. EndOK(c)'
  BY <1>0, EndGone
<1> QED
  BY <1>3, <1>4, <1>5, OnlyOne

LEMMA FetchStreamedOwn ==
  ASSUME Inv, StatementInv, Alone, ~ConverterRaises, NEW c \in Cursors, FetchStreamed(c)
  PROVE  StatementInv'
<1>0. /\ Active(c, "fetch") /\ "fetch" \in Steps /\ "type" \in Exceptions
      /\ Streams(c) /\ cur[c].result # None
  BY DEF FetchStreamed, Steps, Exceptions
<1>1. /\ StreamInv /\ run \in Runs /\ SessionOK(my)
      /\ run.who = c /\ Now = "fetch" /\ my.stmt \in Nat /\ my.read \in Nat
      /\ CursorOK(c) /\ cur[c] \in CursorStates
      /\ cur \in [Cursors -> CursorStates] /\ run.method # "close"
      /\ OwnOK(c) /\ EndOK(c) /\ ~Answered
  BY <1>0, StepFacts, OwnFacts, FetchesNotClose DEF RunOK
<1>2. PICK result \in StreamResults : result = cur[c].result
  BY <1>0, <1>1 DEF CursorStates
<1>3. result.set \in SetIds /\ result.eof \in BOOLEAN /\ result # None
      /\ (Reading(cur[c].result) <=> ~result.eof)
  BY <1>0, <1>2 DEF StreamResults, Reading
<1>4. PICK left : left = IF result.eof THEN 0 ELSE RowsLeft(my)
  OBVIOUS
<1>5. left \in Nat
  BY <1>1, <1>4, FetchRowsIs
<1>6. PICK n : n = IF run.size = None THEN left + 1 ELSE run.size
  OBVIOUS
<1>7. n \in Nat /\ n > 0
  <2>1. CASE run.size = None
    BY <1>5, <1>6, <2>1
  <2>2. CASE run.size # None
    <3>1. run.size \in Nat \ {0}
      BY <1>1, <2>2 DEF Runs
    <3> QED
      BY <1>6, <2>2, <3>1
  <2> QED
    BY <2>1, <2>2
<1>8. PICK got \in Nat : got = (IF n > left THEN left ELSE n) /\ got <= left
  BY <1>5, <1>7
<1>9. PICK end \in BOOLEAN : end <=> n > left
  OBVIOUS
<1>10. my' = IF result.eof THEN my ELSE FetchRows(my, n)
  BY <1>2, <1>4, <1>6 DEF FetchStreamed
<1>11. /\ SamePlace(my, my') /\ NoMoreThan(my, my') /\ SessionOK(my')
       /\ \/ result.eof /\ end /\ my' = my /\ got = 0
          \/ /\ ~result.eof /\ end /\ my'.cut = my.cut
             /\ IF my.cut = "no" THEN my'.err = my.err ELSE my'.err.code # "none"
          \/ ~result.eof /\ ~end
  <2>1. CASE result.eof
    <3>1. left = 0 /\ my' = my
      BY <1>4, <1>10, <2>1
    <3>2. n > left
      BY <1>7, <3>1
    <3> QED
      BY <1>1, <1>8, <1>9, <2>1, <3>1, <3>2 DEF SamePlace, NoMoreThan
  <2>2. CASE ~result.eof /\ end
    <3>1. n > RowsLeft(my) /\ my' = EndOfRows(my)
      BY <1>1, <1>4, <1>7, <1>9, <1>10, <2>2, FetchRowsIs
    <3> QED
      BY <1>1, <2>2, <3>1, EndOfRowsIs DEF SamePlace, JustFailed
  <2>3. CASE ~result.eof /\ ~end
    <3>1. n <= RowsLeft(my)
      BY <1>4, <1>5, <1>7, <1>9, <2>3
    <3> QED
      BY <1>1, <1>7, <1>10, <2>3, <3>1, FetchRowsIs
  <2> QED
    BY <1>9, <2>1, <2>2, <2>3
<1>12. /\ my'.stmt = my.stmt /\ my'.at = my.at /\ my'.cut = my.cut
       /\ CurrentSet(my').n = CurrentSet(my).n /\ SetId(my') = SetId(my)
  BY <1>11 DEF SamePlace, SetId
<1>13. PICK read : read = [result EXCEPT !.eof = end]
  OBVIOUS
<1>14. read \in StreamResults /\ read.set = result.set /\ read.eof = end
  BY <1>9, <1>13 DEF StreamResults
<1>15. /\ result.set[1] \in 1..my.stmt
       /\ result.set[1] = my.stmt => result.set[2] <= my.at
       /\ cur[c].executed # 0
       /\ result.eof /\ result.set = SetId(my) =>
            /\ my.cut # "no" => my.err.code # "none"
            /\ my.err.code = "none" => cur[c].rownumber = CurrentSet(my).n
  BY <1>0, <1>1, <1>2 DEF EndOK, Doing
<1>16. ASSUME cur'[c].executed = cur[c].executed,
              cur'[c].description = cur[c].description, cur'[c].result = read,
              PlanInv', ~Answered',
              Now' = "end" \/ (Now' = "advance" /\ end /\ my'.err.code = "none"),
              end /\ read.set = SetId(my) =>
                /\ my.cut # "no" => my'.err.code # "none"
                /\ my'.err.code = "none" => cur'[c].rownumber = CurrentSet(my).n
       PROVE  StatementInv'
  <2>1. OwnOK(c)'
    BY <1>1, <1>11, <1>12, <1>16, OwnKept
  <2>2. EndOK(c)'
    BY <1>12, <1>14, <1>15, <1>16 DEF EndOK
  <2> QED
    BY <1>16, <2>1, <2>2, OnlyOne
<1>17. ASSUME end, my'.err.code # "none", cur' = [cur EXCEPT ![c].result.eof = TRUE],
              RaiseError(my')
       PROVE  StatementInv'
  <2>1. my'.err.code \in Exceptions /\ my'.err.fresh \in BOOLEAN
    BY <1>11, ErrorTyped
  <2>2. PlanInv' /\ ~Answered' /\ Now' = "end"
    BY <1>0, <1>1, <1>17, <2>1, RaisesOwn DEF RaiseError
  <2>3. read = [cur[c].result EXCEPT !.eof = TRUE]
    BY <1>2, <1>13, <1>17
  <2>4. /\ cur'[c].executed = cur[c].executed
        /\ cur'[c].description = cur[c].description /\ cur'[c].result = read
    BY <1>1, <1>17, <2>3 DEF CursorStates
  <2> QED
    BY <1>16, <1>17, <2>2, <2>4
<1>18. ASSUME cur[c].rownumber = None, cur' = [cur EXCEPT ![c].result.eof = end],
              ~end \/ my'.err.code = "none",
              Raise("type", TRUE) \/ Give(<< >>)
       PROVE  StatementInv'
  <2>1. read = [cur[c].result EXCEPT !.eof = end]
    BY <1>2, <1>13
  <2>2. /\ cur'[c].executed = cur[c].executed /\ cur'[c].rownumber = None
        /\ cur'[c].description = cur[c].description /\ cur'[c].result = read
    BY <1>1, <1>18, <2>1 DEF CursorStates
  <2>3. result.eof /\ end /\ my' = my
    <3>1. ~Reading(cur[c].result)
      BY <1>1, <1>18 DEF CursorOK, Doing
    <3> QED
      BY <1>3, <1>11, <3>1
  <2>4. /\ PlanInv' /\ ~Answered'
        /\ Now' = "end" \/ (Now' = "advance" /\ my'.err.code = "none")
    <3>1. CASE Raise("type", TRUE)
      BY <1>0, <1>1, <3>1, RaisesOwn
    <3>2. CASE Give(<< >>)
      <4>1. my'.err.code = "none"
        BY <1>18, <2>3
      <4> QED
        BY <1>0, <3>2, <4>1, GivesOwn
    <3> QED
      BY <1>18, <3>1, <3>2
  <2> QED
    BY <1>14, <1>15, <1>16, <1>18, <2>2, <2>3, <2>4
<1>19. ASSUME cur[c].rownumber # None, ~end \/ my'.err.code = "none",
              cur' = [cur EXCEPT ![c].result.eof = end, ![c].rownumber = @ + got],
              NEW rows, Give(rows)
       PROVE  StatementInv'
  <2>1. cur[c].rownumber \in Nat
    BY <1>1, <1>19 DEF CursorStates
  <2>2. PICK rownumber : rownumber = cur[c].rownumber + got
    OBVIOUS
  <2>3. read = [cur[c].result EXCEPT !.eof = end]
    BY <1>2, <1>13
  <2>4. PICK new : new = [cur[c] EXCEPT !.result = read, !.rownumber = rownumber]
    OBVIOUS
  <2>5. cur' = [cur EXCEPT ![c] = new]
    BY <1>1, <1>19, <2>2, <2>3, <2>4 DEF CursorStates
  <2>6. /\ cur'[c] = new /\ new.result = read /\ new.rownumber = rownumber
        /\ new.executed = cur[c].executed /\ new.description = cur[c].description
    BY <1>1, <2>4, <2>5 DEF CursorStates
  <2>7. /\ PlanInv' /\ ~Answered'
        /\ Now' = "end" \/ (Now' = "advance" /\ end /\ my'.err.code = "none")
    <3>1. run.size = None => end
      BY <1>5, <1>6, <1>9
    <3> QED
      BY <1>0, <1>19, <3>1, GivesOwn
  <2>8. ASSUME end, read.set = SetId(my), my'.err.code = "none"
        PROVE  my.cut = "no" /\ rownumber = CurrentSet(my).n
    <3>1. CASE result.eof
      <4>1. my' = my /\ got = 0 /\ result.set = SetId(my)
        BY <1>11, <1>14, <2>8, <3>1
      <4> QED
        BY <1>15, <2>1, <2>2, <2>8, <3>1, <4>1
    <3>2. CASE ~result.eof
      <4>1. my.cut = "no"
        BY <1>11, <2>8, <3>2
      <4>2. cur[c].rownumber = my.read
        BY <1>1, <1>3, <3>2 DEF CursorOK, Doing
      <4>3. got = left /\ left = CurrentSet(my).n - my.read
        BY <1>4, <1>8, <1>9, <2>8, <3>2 DEF RowsLeft
      <4>4. CurrentSet(my).n \in Nat
        BY <1>1, CurrentIs
      <4> QED
        BY <1>1, <2>2, <4>1, <4>2, <4>3, <4>4
    <3> QED
      BY <3>1, <3>2
  <2> QED
    BY <1>14, <1>16, <2>6, <2>7, <2>8
<1>20. \/ end /\ my'.err.code # "none" /\ cur' = [cur EXCEPT ![c].result.eof = TRUE]
          /\ RaiseError(my')
       \/ /\ cur[c].rownumber = None /\ cur' = [cur EXCEPT ![c].result.eof = end]
          /\ (~end \/ my'.err.code = "none")
          /\ (Raise("type", TRUE) \/ Give(<< >>))
       \/ /\ cur[c].rownumber # None
          /\ (~end \/ my'.err.code = "none")
          /\ cur' = [cur EXCEPT ![c].result.eof = end, ![c].rownumber = @ + got]
          /\ Give(RowsOf(result.set, my.read, my.read + got))
  <2>1. (n > left) = end
    BY <1>5, <1>7, <1>9
  <2>2. \/ end /\ my'.err.code # "none" /\ cur' = [cur EXCEPT ![c].result.eof = TRUE]
           /\ RaiseError(my')
        \/ /\ cur[c].rownumber = None /\ cur' = [cur EXCEPT ![c].result.eof = end]
           /\ (Raise("type", TRUE) \/ Give(<< >>))
        \/ /\ cur[c].rownumber # None
           /\ cur' = [cur EXCEPT ![c].result.eof = end, ![c].rownumber = @ + got]
           /\ Give(RowsOf(result.set, my.read, my.read + got))
    BY <1>2, <1>4, <1>6, <1>8, <1>10, <2>1 DEF FetchStreamed
  <2>3. \/ n > left /\ my'.err.code # "none" /\ cur' = [cur EXCEPT ![c].result.eof = TRUE]
           /\ RaiseError(my')
        \/ ~(n > left) \/ my'.err.code = "none"
    BY <1>2, <1>4, <1>6, <1>10 DEF FetchStreamed
  <2> QED
    BY <1>9, <2>2, <2>3
<1> QED
  BY <1>17, <1>18, <1>19, <1>20

-----------------------------------------------------------------------------
LEMMA InitOwn ==
  ASSUME Init
  PROVE  StatementInv
<1>1. /\ run.plan = << >> /\ run.method = "none" /\ run.size = None
      /\ Idle /\ Now = "end"
  BY DEF Init, NoRun, Idle, Now
<1>2. PlanInv
  BY <1>1, NoQueries DEF PlanInv
<1>3. ~Answered
  BY <1>1 DEF Answered
<1>4. ~MoreResults(my)
  BY DEF Init, Connected, MoreResults
<1>5. \A c \in Cursors : cur[c] = NewCursor
  BY DEF Init
<1>6. NewCursor.description = None /\ NewCursor.result = None
  BY DEF NewCursor
<1>7. \A c \in Cursors : OwnOK(c) /\ EndOK(c)
  BY <1>1, <1>3, <1>4, <1>5, <1>6 DEF OwnOK, EndOK
<1> QED
  BY <1>2, <1>7 DEF StatementInv

LEMMA NothingOwn ==
  ASSUME StatementInv, UNCHANGED vars
  PROVE  StatementInv'
<1>1. my' = my /\ cur' = cur /\ run' = run
  BY DEF vars
<1>2. PlanInv'
  BY <1>1 DEF StatementInv, PlanInv
<1>3. Answered' = Answered /\ Now' = Now
  BY <1>1 DEF Answered, Now, Idle
<1>4. \A c \in Cursors : OwnOK(c)' /\ EndOK(c)'
  BY <1>1, <1>3 DEF StatementInv, OwnOK, EndOK, Doing, Streams
<1> QED
  BY <1>2, <1>4 DEF StatementInv

LEMMA NextOwn ==
  ASSUME Inv, StatementInv, Alone, ~ConverterRaises, [Next]_vars
  PROVE  StatementInv'
<1>1. CASE UNCHANGED vars
  BY <1>1, NothingOwn
<1>2. CASE Kill
  BY <1>2, KillOwn
<1>3. CASE Disconnect
  BY <1>3, DisconnectOwn
<1>4. ASSUME NEW c \in Cursors, Start(c)
      PROVE  StatementInv'
  <2>1. CASE Execute(c)
    BY <2>1, ExecuteOwn
  <2>2. CASE Close(c)
    BY <2>2, CloseOwn
  <2>3. CASE Nextset(c)
    BY <2>3, NextsetOwn
  <2>4. CASE Callproc(c)
    BY <2>4, CallprocOwn
  <2>5. CASE CallprocClosed(c)
    BY <2>5, FailsOwn DEF CallprocClosed
  <2>6. ASSUME NEW method \in FetchMethods, Fetch(c, method)
        PROVE  StatementInv'
    BY <2>6, FetchOwn
  <2>7. ASSUME NEW method \in FetchMethods, FetchUnexecuted(c, method)
        PROVE  StatementInv'
    BY <2>7, FailsOwn DEF FetchUnexecuted
  <2>8. ASSUME NEW r \in Offsets, Scroll(c, r)
        PROVE  StatementInv'
    BY <2>8, ScrollOwn
  <2> QED
    BY <1>4, <2>1, <2>2, <2>3, <2>4, <2>5, <2>6, <2>7, <2>8 DEF Start
<1>5. ASSUME NEW c \in Cursors, Step(c)
      PROVE  StatementInv'
  <2>1. CASE Discard(c)
    BY <2>1, DiscardOwn
  <2>2. CASE DiscardNext(c)
    BY <2>2, DiscardNextOwn
  <2>3. CASE DiscardResult(c)
    BY <2>3, DiscardResultOwn
  <2>4. CASE Detach(c)
    BY <2>4, DetachOwn
  <2>5. CASE Mogrify(c)
    BY <2>5, MogrifyOwn
  <2>6. CASE Query(c)
    BY <2>6, QueryOwn
  <2>7. CASE GetResult(c)
    BY <2>7, GetResultOwn
  <2>8. CASE PostGetResult(c)
    BY <2>8, PostGetResultOwn
  <2>9. CASE Executed(c)
    BY <2>9, ExecutedOwn
  <2>10. CASE Advance(c)
    BY <2>10, AdvanceOwn
  <2>11. CASE FetchStored(c)
    BY <2>11, FetchStoredOwn
  <2>12. CASE FetchNothing(c)
    BY <2>12, FetchNothingOwn
  <2>13. CASE FetchStreamed(c)
    BY <2>13, FetchStreamedOwn
  <2>14. ~FetchConverterRaises(c)
    BY DEF FetchConverterRaises
  <2> QED
    BY <1>5, <2>1, <2>2, <2>3, <2>4, <2>5, <2>6, <2>7, <2>8, <2>9, <2>10, <2>11,
       <2>12, <2>13, <2>14 DEF Step
<1> QED
  BY <1>1, <1>2, <1>3, <1>4, <1>5 DEF Next

(* The invariant holds of every behaviour of one cursor alone.             *)
THEOREM StatementInvHolds == Alone /\ ~ConverterRaises => (Spec => []StatementInv)
<1> SUFFICES ASSUME Alone, ~ConverterRaises PROVE Spec => []StatementInv
  OBVIOUS
<1>1. Init => StatementInv
  BY InitOwn
<1>2. Inv /\ StatementInv /\ [Next]_vars => StatementInv'
  BY NextOwn
<1> QED
  BY <1>1, <1>2, InvHolds, PTL DEF Spec

(* What a cursor describes is the answer to its own last statement         *)
(* (execute, nextset and _do_get_result, with one cursor).                 *)
THEOREM DescribesOwnStatement == Alone /\ ~ConverterRaises => (Spec => []SetsOfOwnStatement)
<1> SUFFICES ASSUME Alone, ~ConverterRaises PROVE Spec => []SetsOfOwnStatement
  OBVIOUS
<1>1. Inv /\ StatementInv => SetsOfOwnStatement
  <2> SUFFICES ASSUME Inv, StatementInv, Idle, NEW c \in Cursors,
                      cur[c].description # None
               PROVE  cur[c].description[1] = cur[c].executed
    BY DEF SetsOfOwnStatement
  <2>1. Now = "end" /\ OwnOK(c)
    BY OwnFacts DEF Now
  <2>2. ~Answered
    BY <2>1 DEF Answered
  <2> QED
    BY <2>1, <2>2 DEF OwnOK
<1> QED
  BY <1>1, InvHolds, StatementInvHolds, PTL

-----------------------------------------------------------------------------
(* A fetch that returned at the end of a stream found no error there.      *)
NoticedInv ==
  /\ Now = "end"
  /\ run.method \in FetchMethods /\ run.exc = "none"
  /\ Streams(run.who) /\ cur[run.who].result # None /\ cur[run.who].result.eof
  => my.err.code = "none"

LEMMA OtherSteps ==
  ASSUME Inv, NEW c \in Cursors, NEW step \in Steps, Active(c, step), step # "fetch",
         run'.method = run.method
  PROVE  NoticedInv'
<1>1. run.method \in Methods /\ step \in MethodSteps(run.method)
  BY StepFacts
<1>2. run.method \notin FetchMethods
  BY <1>1, StepsOf DEF Steps, FetchMethods
<1> QED
  BY <1>2 DEF NoticedInv

(* The method that runs is the same after a step of it. *)
LEMMA SameMethod ==
  ASSUME Inv, NEW c \in Cursors, Step(c)
  PROVE  run'.method = run.method
<1>1. run \in Runs
  BY BaseIs DEF Inv
<1>2. \A plan : Then(plan) => run'.method = run.method
  BY <1>1 DEF Then, Runs
<1>3. Proceed => run'.method = run.method
  BY <1>2 DEF Proceed
<1>4. \A exc, own : Raise(exc, own) => run'.method = run.method
  BY <1>1 DEF Raise, Runs
<1>5. \A out : Give(out) => run'.method = run.method
  BY <1>1 DEF Give, Runs
<1>6. Discard(c) \/ DiscardResult(c) => run'.method = run.method
  BY <1>3, <1>4 DEF Discard, DiscardResult, RaiseError
<1>12. DiscardNext(c) => run'.method = run.method
  BY <1>2, <1>3, <1>4 DEF DiscardNext, RaiseError
<1>7. Detach(c) \/ Mogrify(c) \/ Query(c) => run'.method = run.method
  BY <1>2, <1>3, <1>4 DEF Detach, Mogrify, Query, RaiseError
<1>8. GetResult(c) \/ PostGetResult(c) \/ Executed(c) => run'.method = run.method
  BY <1>3, <1>4 DEF GetResult, PostGetResult, Executed, RaiseError
<1>9. Advance(c) => run'.method = run.method
  BY <1>2, <1>3, <1>4 DEF Advance, RaiseError
<1>10. FetchStored(c) \/ FetchNothing(c) => run'.method = run.method
  BY <1>4, <1>5 DEF FetchStored, FetchNothing
<1>11. FetchStreamed(c) \/ FetchConverterRaises(c) => run'.method = run.method
  BY <1>4, <1>5 DEF FetchStreamed, FetchConverterRaises, RaiseError
<1> QED
  BY <1>6, <1>7, <1>8, <1>9, <1>10, <1>11, <1>12 DEF Step

LEMMA NextNotices ==
  ASSUME Inv, NoticedInv, [Next]_vars
  PROVE  NoticedInv'
<1>1. CASE UNCHANGED vars
  BY <1>1 DEF vars, NoticedInv, Now, Idle, Streams
<1>2. CASE Kill \/ Disconnect
  <2>1. UNCHANGED <<cur, run>>
    BY <1>2 DEF Kill, Disconnect
  <2>2. my'.err = my.err
    <3>1. SessionOK(my)
      BY DEF Inv, Base
    <3>2. PICK down : down = LinkDown(my)
      OBVIOUS
    <3>3. SessionOK(down) /\ SamePlace(my, down) /\ down.read = my.read
          /\ down.err = my.err /\ down.status = my.status
      BY <3>1, <3>2, LinkDownIs
    <3>4. CASE Kill
      <4>1. PICK k \in my.read..CurrentSet(my).n : my' = CutRows(my, "killed", k)
        BY <3>4 DEF Kill, KillStatement
      <4> QED
        BY <3>1, <3>4, <4>1, CutRowsIs DEF Kill
    <3>5. CASE my' = down
      BY <3>3, <3>5
    <3>6. CASE /\ my.status \in {"get_result", "use_result"}
               /\ \E k \in my.read..CurrentSet(my).n : my' = CutRows(down, "lost", k)
      <4>1. PICK k \in down.read..CurrentSet(down).n : my' = CutRows(down, "lost", k)
        BY <3>3, <3>6 DEF SamePlace
      <4> QED
        BY <3>3, <3>6, <4>1, CutRowsIs
    <3> QED
      BY <1>2, <3>2, <3>4, <3>5, <3>6 DEF Disconnect
  <2> QED
    BY <2>1, <2>2 DEF NoticedInv, Now, Idle, Streams
<1>3. ASSUME NEW c \in Cursors, Start(c)
      PROVE  NoticedInv'
  <2>1. ASSUME NEW method \in Methods, NEW plan, Begin(c, method, plan),
               method \notin FetchMethods
        PROVE  NoticedInv'
    BY <2>1 DEF Begin, NoRun, NoticedInv
  <2>2. ASSUME NEW method, Fails(c, method, "programming")
        PROVE  NoticedInv'
    BY <2>2 DEF Fails, NoRun, NoticedInv
  <2>3. ASSUME NEW method, Fetch(c, method)
        PROVE  NoticedInv'
    <3>1. run'.plan = <<"fetch">>
      BY <2>3 DEF Fetch, NoRun
    <3>2. Now' = "fetch"
      BY <3>1 DEF Now, Idle
    <3> QED
      BY <3>2 DEF NoticedInv
  <2>4. ASSUME NEW r, Scroll(c, r)
        PROVE  NoticedInv'
    <3>1. run'.method = "scroll"
      BY <2>4 DEF Scroll, NoRun
    <3> QED
      BY <3>1 DEF NoticedInv, FetchMethods
  <2>5. {"execute", "close", "nextset", "callproc"} \subseteq Methods \ FetchMethods
    BY DEF Methods, FetchMethods
  <2>6. Execute(c) \/ Close(c) \/ Nextset(c) \/ Callproc(c) => NoticedInv'
    BY <2>1, <2>5 DEF Execute, Close, Nextset, Callproc
  <2> QED
    BY <1>3, <2>2, <2>3, <2>4, <2>6 DEF Start, CallprocClosed, FetchUnexecuted
<1>4. ASSUME NEW c \in Cursors, Step(c)
      PROVE  NoticedInv'
  <2>1. run'.method = run.method
    BY <1>4, SameMethod
  <2>2. CASE Discard(c) \/ DiscardNext(c) \/ DiscardResult(c) \/ Detach(c)
    BY <2>1, <2>2, OtherSteps DEF Discard, DiscardNext, DiscardResult, Detach, Steps
  <2>3. CASE Mogrify(c) \/ Query(c) \/ GetResult(c) \/ PostGetResult(c)
    BY <2>1, <2>3, OtherSteps DEF Mogrify, Query, GetResult, PostGetResult, Steps
  <2>4. CASE Executed(c) \/ Advance(c)
    BY <2>1, <2>4, OtherSteps DEF Executed, Advance, Steps
  <2>5. ASSUME Active(c, "fetch")
        PROVE  /\ run \in Runs /\ run.who = c /\ cur \in [Cursors -> CursorStates]
               /\ \A exc, own : Raise(exc, own) => run'.who = c /\ run'.exc = exc
               /\ \A out : Give(out) => run'.who = c
    <3>1. "fetch" \in Steps /\ run \in Runs
      BY BaseIs DEF Steps, Inv
    <3>2. run.who = c /\ cur \in [Cursors -> CursorStates]
      BY <2>5, <3>1, StepFacts
    <3>3. \A exc, own : Raise(exc, own) => run'.who = c /\ run'.exc = exc
      BY <3>1, <3>2 DEF Raise, Runs
    <3>4. \A out : Give(out) => run'.who = c
      BY <3>1, <3>2 DEF Give, Runs
    <3> QED
      BY <3>1, <3>2, <3>3, <3>4
  <2>6. CASE FetchStored(c)
    <3>1. run'.who = c /\ ~Streams(c)
      BY <2>5, <2>6 DEF FetchStored
    <3> QED
      BY <3>1 DEF NoticedInv, Streams
  <2>7. CASE FetchNothing(c)
    <3>1. run'.who = c /\ cur'[c].result = None
      BY <2>5, <2>7 DEF FetchNothing
    <3> QED
      BY <3>1 DEF NoticedInv
  <2>8. CASE FetchStreamed(c)
    <3>1. Active(c, "fetch") /\ cur[c].result # None
      BY <2>8 DEF FetchStreamed
    <3>2. PICK result \in StreamResults : result = cur[c].result
      BY <2>5, <3>1 DEF CursorStates
    <3>3. PICK left : left = IF result.eof THEN 0 ELSE RowsLeft(my)
      OBVIOUS
    <3>4. PICK n : n = IF run.size = None THEN left + 1 ELSE run.size
      OBVIOUS
    <3>5. PICK got : got = IF n > left THEN left ELSE n
      OBVIOUS
    <3>6. PICK end : end = (n > left)
      OBVIOUS
    <3>7. \/ my'.err.code # "none" /\ RaiseError(my')
          \/ Raise("type", TRUE)
          \/ /\ \/ cur' = [cur EXCEPT ![c].result.eof = end]
                \/ cur' = [cur EXCEPT ![c].result.eof = end, ![c].rownumber = @ + got]
             /\ \/ Give(<< >>)
                \/ Give(RowsOf(result.set, my.read, my.read + got))
      BY <2>8, <3>2, <3>3, <3>4, <3>5, <3>6 DEF FetchStreamed
    <3>8. \/ my'.err.code # "none" /\ RaiseError(my')
          \/ ~(n > left)
          \/ my'.err.code = "none"
      BY <2>8, <3>2, <3>3, <3>4 DEF FetchStreamed
    <3>9. CASE my'.err.code # "none" /\ RaiseError(my')
      <4>1. run'.exc = my'.err.code
        BY <2>5, <3>1, <3>9 DEF RaiseError
      <4> QED
        BY <3>9, <4>1 DEF NoticedInv
    <3>10. CASE Raise("type", TRUE)
      <4>1. run'.exc = "type"
        BY <2>5, <3>1, <3>10
      <4> QED
        BY <4>1 DEF NoticedInv
    <3>11. ASSUME \/ cur' = [cur EXCEPT ![c].result.eof = end]
                  \/ cur' = [cur EXCEPT ![c].result.eof = end, ![c].rownumber = @ + got],
                  \/ Give(<< >>)
                  \/ Give(RowsOf(result.set, my.read, my.read + got)),
                  ~(n > left) \/ my'.err.code = "none"
           PROVE  NoticedInv'
      <4>1. run'.who = c
        BY <2>5, <3>1, <3>11
      <4>2. cur'[c].result.eof = end
        BY <2>5, <3>1, <3>2, <3>11 DEF CursorStates, StreamResults
      <4> QED
        BY <3>6, <3>11, <4>1, <4>2 DEF NoticedInv
    <3> QED
      BY <3>7, <3>8, <3>9, <3>10, <3>11
  <2>9. CASE FetchConverterRaises(c)
    <3>1. run'.exc = "converter"
      BY <2>5, <2>9 DEF FetchConverterRaises
    <3> QED
      BY <3>1 DEF NoticedInv
  <2> QED
    BY <1>4, <2>2, <2>3, <2>4, <2>6, <2>7, <2>8, <2>9 DEF Step
<1> QED
  BY <1>1, <1>2, <1>3, <1>4 DEF Next

LEMMA NoticedHolds == Spec => []NoticedInv
<1>1. Init => NoticedInv
  BY DEF Init, NoRun, NoticedInv, FetchMethods
<1>2. Inv /\ NoticedInv /\ [Next]_vars => NoticedInv'
  BY NextNotices
<1> QED
  BY <1>1, <1>2, InvHolds, PTL DEF Spec

(* A streaming fetch that comes to the end without raising has had all the *)
(* rows (fetch_row and _mysql_ResultObject_fetch_row, with one cursor).    *)
THEOREM EndIsTheEnd == Alone /\ ~ConverterRaises => (Spec => []EmptyMeansEnd)
<1> SUFFICES ASSUME Alone, ~ConverterRaises PROVE Spec => []EmptyMeansEnd
  OBVIOUS
<1>1. Inv /\ StatementInv /\ NoticedInv => EmptyMeansEnd
  <2> SUFFICES ASSUME Inv, StatementInv, NoticedInv, Idle,
                      run.method \in FetchMethods, run.exc = "none",
                      Streams(run.who), cur[run.who].result # None,
                      cur[run.who].result.eof, cur[run.who].result.set = SetId(my)
               PROVE  my.cut = "no" /\ cur[run.who].rownumber = CurrentSet(my).n
    BY DEF EmptyMeansEnd
  <2>1. Now = "end"
    BY DEF Now
  <2>2. run.who \in Cursors
    BY CursorsAssumption DEF Streams
  <2>3. my.err.code = "none"
    BY <2>1 DEF NoticedInv
  <2>4. EndOK(run.who) /\ ~Doing(run.who, "discard")
    BY <2>1, <2>2, OwnFacts DEF Doing
  <2> QED
    BY <2>3, <2>4 DEF EndOK
<1> QED
  BY <1>1, InvHolds, StatementInvHolds, NoticedHolds, PTL
=============================================================================
