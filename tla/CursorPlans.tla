---------------------------- MODULE CursorPlans ----------------------------
(***************************************************************************)
(* The plans of the methods of Cursors: which steps there are and in which *)
(* order, and what each way to end a step makes of the plan.  The proofs   *)
(* about the cursors rest on these lemmas, and do not look into sequences. *)
(***************************************************************************)
EXTENDS Cursors, ClientProofs

-----------------------------------------------------------------------------
(* The plans of the methods: which steps there are, in which order.        *)
MethodSteps(method) ==
  CASE method = "execute" ->
         {"discard", "next", "drain", "mogrify", "query", "get", "post", "executed"}
    [] method = "close" -> {"discard", "next", "drain", "detach"}
    [] method = "callproc" -> {"query", "get", "post", "executed", "fetch", "advance"}
    [] method = "nextset" -> {"fetch", "advance", "get", "post"}
    [] method \in FetchMethods -> {"fetch"}
    [] OTHER -> {}

LastSteps(method) ==
  CASE method \in {"execute", "callproc"} -> {"executed"}
    [] method = "close" -> {"detach"}
    [] method = "nextset" -> {"advance", "post"}
    [] OTHER -> {"fetch"}

After(method, step) ==
  CASE step = "discard" -> {"next", "mogrify", "detach"}
    [] step = "next" -> {"mogrify", "detach"}
    [] step = "drain" -> {"next"}
    [] step = "mogrify" -> {"query"}
    [] step = "query" -> {"get"}
    [] step = "get" -> {"post"}
    [] step = "post" -> IF method = "callproc" THEN {"executed", "query"} ELSE {"executed"}
    [] step = "executed" -> {"fetch"}
    [] step = "fetch" -> {"advance"}
    [] step = "advance" -> {"query"}
    [] OTHER -> {}

PlanOK(method, plan) ==
  /\ plan \in Seq(MethodSteps(method))
  /\ \A i \in 1..Len(plan) :
       IF i = Len(plan) THEN plan[i] \in LastSteps(method)
                        ELSE plan[i+1] \in After(method, plan[i])

(* There are statements left for the queries of a plan, two at most. *)
QueriesFit(plan, stmt) ==
  /\ \A i \in 1..Len(plan) : plan[i] = "query" => stmt < MaxStatements
  /\ \A i, j \in 1..Len(plan) :
       i < j /\ plan[i] = "query" /\ plan[j] = "query" => stmt + 1 < MaxStatements
  /\ \A i, j, k \in 1..Len(plan) :
       i < j /\ j < k => ~(plan[i] = "query" /\ plan[j] = "query" /\ plan[k] = "query")

(* The step that is up, "end" between methods. *)
Now == IF Idle THEN "end" ELSE Head(run.plan)

-----------------------------------------------------------------------------
(* The plan of a method after a step: the next one, and what it may be.    *)
LEMMA PlanTail ==
  ASSUME NEW m, NEW p, PlanOK(m, p), p # << >>
  PROVE  /\ Head(p) = p[1] /\ Head(p) \in MethodSteps(m)
         /\ PlanOK(m, Tail(p)) /\ Tail(p) \in Seq(MethodSteps(m))
         /\ IF Tail(p) = << >> THEN Head(p) \in LastSteps(m)
            ELSE Head(Tail(p)) \in After(m, Head(p)) /\ Len(p) > 1 /\ p[2] = Head(Tail(p))
<1>1. /\ p \in Seq(MethodSteps(m)) /\ Len(p) \in Nat /\ Len(p) > 0
      /\ Head(p) = p[1] /\ p[1] \in MethodSteps(m)
  BY EmptySeq, HeadTailProperties, ElementOfSeq DEF PlanOK
<1>0. PICK t : t = Tail(p)
  OBVIOUS
<1>2. /\ t \in Seq(MethodSteps(m)) /\ Len(t) = Len(p) - 1 /\ Len(t) \in Nat
      /\ \A i \in 1..Len(t) : t[i] = p[i + 1]
  BY <1>0, <1>1, HeadTailProperties
<1>3. PlanOK(m, t)
  <2> SUFFICES ASSUME NEW i \in 1..Len(t)
               PROVE  IF i = Len(t) THEN t[i] \in LastSteps(m)
                      ELSE t[i + 1] \in After(m, t[i])
    BY <1>2 DEF PlanOK
  <2>1. i + 1 \in 1..Len(p) /\ t[i] = p[i + 1] /\ (i = Len(t) <=> i + 1 = Len(p))
    BY <1>1, <1>2
  <2>2. ASSUME i # Len(t) PROVE t[i + 1] = p[(i + 1) + 1]
    <3>1. Len(t) \in Nat /\ i + 1 \in 1..Len(t)
      BY <1>1, <1>2, <2>2
    <3> QED
      BY <1>2, <3>1
  <2> QED
    BY <2>1, <2>2 DEF PlanOK
<1>4. CASE t = << >>
  <2>1. Len(p) = 1
    <3>1. Len(t) = 0
      BY <1>4
    <3> QED
      BY <1>1, <1>2, <3>1
  <2>2. p[1] \in LastSteps(m)
    BY <1>1, <2>1 DEF PlanOK
  <2> QED
    BY <1>0, <1>1, <1>2, <1>3, <1>4, <2>2
<1>5. CASE t # << >>
  <2>1. Len(p) > 1 /\ Head(t) = t[1]
    BY <1>1, <1>2, <1>5, EmptySeq, HeadTailProperties
  <2>2. t[1] = p[2]
    BY <1>1, <1>2, <2>1
  <2>3. p[1 + 1] \in After(m, p[1])
    BY <1>1, <2>1 DEF PlanOK
  <2> QED
    BY <1>0, <1>1, <1>2, <1>3, <1>5, <2>1, <2>2, <2>3
<1> QED
  BY <1>0, <1>4, <1>5

(* A step put before a plan.                                               *)
LEMMA ConsIs ==
  ASSUME NEW S, NEW p \in Seq(S), NEW x \in S
  PROVE  /\ <<x>> \o p \in Seq(S) /\ <<x>> \o p # << >>
         /\ Len(<<x>> \o p) = Len(p) + 1
         /\ Head(<<x>> \o p) = x /\ Tail(<<x>> \o p) = p /\ (<<x>> \o p)[1] = x
         /\ \A i \in 1..Len(p) : (<<x>> \o p)[i + 1] = p[i]
<1> DEFINE q == <<x>> \o p
<1>1. <<x>> \in Seq(S) /\ Len(<<x>>) = 1 /\ <<x>>[1] = x /\ Len(p) \in Nat
  OBVIOUS
<1>2. /\ q \in Seq(S) /\ Len(q) = 1 + Len(p)
      /\ \A i \in 1..1 + Len(p) : q[i] = IF i <= 1 THEN <<x>>[i] ELSE p[i - 1]
  BY <1>1, ConcatProperties
<1>3. q # << >> /\ q[1] = x /\ \A i \in 1..Len(p) : q[i + 1] = p[i]
  BY <1>1, <1>2, EmptySeq
<1>4. Head(q) = q[1] /\ Tail(q) \in Seq(S) /\ Len(Tail(q)) = Len(p)
      /\ \A i \in 1..Len(p) : Tail(q)[i] = q[i + 1]
  BY <1>1, <1>2, <1>3, HeadTailProperties
<1>5. Tail(q) = p
  BY <1>3, <1>4, SeqEqual
<1> QED
  BY <1>1, <1>2, <1>3, <1>4, <1>5

LEMMA PlanCons ==
  ASSUME NEW m, NEW p, PlanOK(m, p), NEW x \in MethodSteps(m),
         IF p = << >> THEN x \in LastSteps(m) ELSE Head(p) \in After(m, x)
  PROVE  PlanOK(m, <<x>> \o p)
<1> DEFINE q == <<x>> \o p
<1>1. /\ p \in Seq(MethodSteps(m)) /\ q \in Seq(MethodSteps(m)) /\ Len(q) = Len(p) + 1
      /\ q[1] = x /\ \A i \in 1..Len(p) : q[i + 1] = p[i]
  BY ConsIs DEF PlanOK
<1>2. Len(p) \in Nat /\ (p = << >> <=> Len(p) = 0) /\ (p # << >> => Head(p) = p[1])
  BY <1>1, EmptySeq, HeadTailProperties
<1> SUFFICES ASSUME NEW i \in 1..Len(q)
             PROVE  IF i = Len(q) THEN q[i] \in LastSteps(m) ELSE q[i + 1] \in After(m, q[i])
  BY <1>1 DEF PlanOK
<1>3. CASE i = 1
  BY <1>1, <1>2, <1>3
<1>4. CASE i > 1
  <2>1. PICK j \in 1..Len(p) : i = j + 1
    <3>1. i - 1 \in 1..Len(p) /\ i = (i - 1) + 1
      BY <1>1, <1>2, <1>4
    <3> QED
      BY <3>1
  <2>2. IF j = Len(p) THEN p[j] \in LastSteps(m) ELSE p[j + 1] \in After(m, p[j])
    BY <2>1 DEF PlanOK
  <2>3. q[i] = p[j] /\ (i = Len(q) <=> j = Len(p)) /\ (j # Len(p) => q[i + 1] = p[j + 1])
    BY <1>1, <1>2, <2>1
  <2> QED
    BY <2>2, <2>3
<1> QED
  BY <1>1, <1>3, <1>4

(* The queries of a plan when a step leaves it, or one that is no query    *)
(* comes in front of it.                                                   *)
LEMMA QueriesTail ==
  ASSUME NEW S, NEW p \in Seq(S), p # << >>, NEW n \in Nat, QueriesFit(p, n)
  PROVE  /\ QueriesFit(Tail(p), n)
         /\ Head(p) = "query" => n < MaxStatements /\ QueriesFit(Tail(p), n + 1)
<1>1. /\ Len(p) \in Nat /\ Len(p) > 0 /\ Head(p) = p[1] /\ Len(Tail(p)) = Len(p) - 1
      /\ \A i \in 1..Len(Tail(p)) : Tail(p)[i] = p[i + 1] /\ i + 1 \in 1..Len(p)
  BY EmptySeq, HeadTailProperties
<1>2. 1 \in 1..Len(p) /\ MaxStatements \in Nat
  BY <1>1, CursorsAssumption
<1>3. QueriesFit(Tail(p), n)
  <2>1. \A i \in 1..Len(Tail(p)) : Tail(p)[i] = "query" => n < MaxStatements
    BY <1>1 DEF QueriesFit
  <2>2. \A i, j \in 1..Len(Tail(p)) :
          i < j /\ Tail(p)[i] = "query" /\ Tail(p)[j] = "query" => n + 1 < MaxStatements
    <3> SUFFICES ASSUME NEW i \in 1..Len(Tail(p)), NEW j \in 1..Len(Tail(p)), i < j,
                        Tail(p)[i] = "query", Tail(p)[j] = "query"
                 PROVE  n + 1 < MaxStatements
      OBVIOUS
    <3>1. i + 1 < j + 1 /\ p[i + 1] = "query" /\ p[j + 1] = "query"
      BY <1>1
    <3> QED
      BY <1>1, <3>1 DEF QueriesFit
  <2>3. \A i, j, k \in 1..Len(Tail(p)) : i < j /\ j < k =>
          ~(Tail(p)[i] = "query" /\ Tail(p)[j] = "query" /\ Tail(p)[k] = "query")
    <3> SUFFICES ASSUME NEW i \in 1..Len(Tail(p)), NEW j \in 1..Len(Tail(p)),
                        NEW k \in 1..Len(Tail(p)), i < j, j < k,
                        Tail(p)[i] = "query", Tail(p)[j] = "query", Tail(p)[k] = "query"
                 PROVE  FALSE
      OBVIOUS
    <3>1. /\ i + 1 < j + 1 /\ j + 1 < k + 1
          /\ p[i + 1] = "query" /\ p[j + 1] = "query" /\ p[k + 1] = "query"
      BY <1>1
    <3> QED
      BY <1>1, <3>1 DEF QueriesFit
  <2> QED
    BY <2>1, <2>2, <2>3 DEF QueriesFit
<1>4. ASSUME Head(p) = "query" PROVE n < MaxStatements /\ QueriesFit(Tail(p), n + 1)
  <2>1. n < MaxStatements
    BY <1>1, <1>2, <1>4 DEF QueriesFit
  <2>2. \A i \in 1..Len(Tail(p)) : Tail(p)[i] = "query" => n + 1 < MaxStatements
    <3> SUFFICES ASSUME NEW i \in 1..Len(Tail(p)), Tail(p)[i] = "query"
                 PROVE  n + 1 < MaxStatements
      OBVIOUS
    <3>1. 1 < i + 1 /\ p[i + 1] = "query" /\ i + 1 \in 1..Len(p) /\ p[1] = "query"
      BY <1>1, <1>4
    <3> QED
      BY <1>2, <3>1 DEF QueriesFit
  <2>3. \A i, j \in 1..Len(Tail(p)) :
          i < j => ~(Tail(p)[i] = "query" /\ Tail(p)[j] = "query")
    <3> SUFFICES ASSUME NEW i \in 1..Len(Tail(p)), NEW j \in 1..Len(Tail(p)), i < j,
                        Tail(p)[i] = "query", Tail(p)[j] = "query"
                 PROVE  FALSE
      OBVIOUS
    <3>1. /\ 1 < i + 1 /\ i + 1 < j + 1 /\ i + 1 \in 1..Len(p) /\ j + 1 \in 1..Len(p)
          /\ p[1] = "query" /\ p[i + 1] = "query" /\ p[j + 1] = "query"
      BY <1>1, <1>4
    <3> QED
      BY <1>2, <3>1 DEF QueriesFit
  <2> QED
    BY <2>1, <2>2, <2>3 DEF QueriesFit
<1> QED
  BY <1>3, <1>4

LEMMA QueriesCons ==
  ASSUME NEW S, NEW p \in Seq(S), NEW x \in S, x # "query", NEW n \in Nat, QueriesFit(p, n)
  PROVE  QueriesFit(<<x>> \o p, n)
<1> DEFINE q == <<x>> \o p
<1>1. /\ Len(p) \in Nat /\ Len(q) = Len(p) + 1 /\ q[1] = x
      /\ \A i \in 1..Len(p) : q[i + 1] = p[i]
  BY ConsIs
<1>2. ASSUME NEW i \in 1..Len(q), q[i] = "query"
      PROVE  \E j \in 1..Len(p) : i = j + 1 /\ p[j] = "query"
  <2>1. i - 1 \in 1..Len(p) /\ i = (i - 1) + 1
    BY <1>1, <1>2
  <2> QED
    BY <1>1, <1>2, <2>1
<1>3. \A i \in 1..Len(q) : q[i] = "query" => n < MaxStatements
  BY <1>2 DEF QueriesFit
<1>4. \A i, j \in 1..Len(q) :
        i < j /\ q[i] = "query" /\ q[j] = "query" => n + 1 < MaxStatements
  <2> SUFFICES ASSUME NEW i \in 1..Len(q), NEW j \in 1..Len(q), i < j,
                      q[i] = "query", q[j] = "query"
               PROVE  n + 1 < MaxStatements
    OBVIOUS
  <2>1. PICK a \in 1..Len(p) : i = a + 1 /\ p[a] = "query"
    BY <1>2
  <2>2. PICK b \in 1..Len(p) : j = b + 1 /\ p[b] = "query"
    BY <1>2
  <2>3. a < b
    BY <1>1, <2>1, <2>2
  <2> QED
    BY <2>1, <2>2, <2>3 DEF QueriesFit
<1>5. \A i, j, k \in 1..Len(q) : i < j /\ j < k =>
        ~(q[i] = "query" /\ q[j] = "query" /\ q[k] = "query")
  <2> SUFFICES ASSUME NEW i \in 1..Len(q), NEW j \in 1..Len(q), NEW k \in 1..Len(q),
                      i < j, j < k, q[i] = "query", q[j] = "query", q[k] = "query"
               PROVE  FALSE
    OBVIOUS
  <2>1. PICK a \in 1..Len(p) : i = a + 1 /\ p[a] = "query"
    BY <1>2
  <2>2. PICK b \in 1..Len(p) : j = b + 1 /\ p[b] = "query"
    BY <1>2
  <2>3. PICK d \in 1..Len(p) : k = d + 1 /\ p[d] = "query"
    BY <1>2
  <2>4. a < b /\ b < d
    BY <1>1, <2>1, <2>2, <2>3
  <2> QED
    BY <2>1, <2>2, <2>3, <2>4 DEF QueriesFit
<1> QED
  BY <1>3, <1>4, <1>5 DEF QueriesFit

-----------------------------------------------------------------------------
(* What run a method makes of the one before, and what is up next.         *)
StepRow(method, step, next) ==
  \/ method = "execute" /\ step = "discard" /\ next \in {"next", "mogrify"}
  \/ method = "execute" /\ step = "next" /\ next = "mogrify"
  \/ method = "execute" /\ step = "mogrify" /\ next = "query"
  \/ method = "execute" /\ step = "post" /\ next = "executed"
  \/ method = "execute" /\ step = "executed" /\ next = "end"
  \/ method = "close" /\ step = "discard" /\ next \in {"next", "detach"}
  \/ method = "close" /\ step = "next" /\ next = "detach"
  \/ method = "close" /\ step = "detach" /\ next = "end"
  \/ method \in {"execute", "close"} /\ step = "drain" /\ next = "next"
  \/ method \in {"execute", "callproc"} /\ step = "query" /\ next = "get"
  \/ method \in {"execute", "callproc", "nextset"} /\ step = "get" /\ next = "post"
  \/ method = "callproc" /\ step = "post" /\ next \in {"executed", "query"}
  \/ method = "callproc" /\ step = "executed" /\ next \in {"end", "fetch"}
  \/ method = "callproc" /\ step = "advance" /\ next = "query"
  \/ method = "nextset" /\ step = "post" /\ next = "end"
  \/ method = "nextset" /\ step = "advance" /\ next = "end"
  \/ method \in {"callproc", "nextset"} /\ step = "fetch" /\ next = "advance"
  \/ method \in FetchMethods /\ step = "fetch" /\ next = "end"

SameRun == run'.who = run.who /\ run'.method = run.method /\ run'.size = run.size

RunOK ==
  /\ run \in Runs
  /\ run.method # "none" => run.who \in Cursors
  /\ PlanOK(run.method, run.plan)
  /\ ~Idle => run.who \in Cursors

USE DEF FetchMethods

LEMMA StepsOf ==
  /\ MethodSteps("execute") =
       {"discard", "next", "drain", "mogrify", "query", "get", "post", "executed"}
  /\ MethodSteps("close") = {"discard", "next", "drain", "detach"}
  /\ MethodSteps("callproc") = {"query", "get", "post", "executed", "fetch", "advance"}
  /\ MethodSteps("nextset") = {"fetch", "advance", "get", "post"}
  /\ \A m \in FetchMethods : MethodSteps(m) = {"fetch"}
  /\ \A m \in {"none", "scroll"} : MethodSteps(m) = {}
  BY DEF MethodSteps

LEMMA LastStepsOf ==
  /\ LastSteps("execute") = {"executed"}
  /\ LastSteps("close") = {"detach"}
  /\ LastSteps("callproc") = {"executed"}
  /\ LastSteps("nextset") = {"advance", "post"}
  /\ \A m \in FetchMethods : LastSteps(m) = {"fetch"}
  BY DEF LastSteps

LEMMA AfterIs ==
  ASSUME NEW m
  PROVE  /\ After(m, "discard") = {"next", "mogrify", "detach"}
         /\ After(m, "next") = {"mogrify", "detach"}
         /\ After(m, "drain") = {"next"}
         /\ After(m, "mogrify") = {"query"}
         /\ After(m, "query") = {"get"}
         /\ After(m, "get") = {"post"}
         /\ After(m, "post") =
              IF m = "callproc" THEN {"executed", "query"} ELSE {"executed"}
         /\ After(m, "executed") = {"fetch"}
         /\ After(m, "fetch") = {"advance"}
         /\ After(m, "advance") = {"query"}
         /\ After(m, "detach") = {}
  BY DEF After

LEMMA NowIs ==
  ASSUME RunOK
  PROVE  /\ Idle <=> Now = "end"
         /\ ~Idle => Now \in MethodSteps(run.method) /\ Now = Head(run.plan) /\ Now = run.plan[1]
         /\ run.plan \in Seq(Steps)
         /\ \A c, x : x # "end" => (Active(c, x) <=> run.who = c /\ Now = x)
<1>1. run.plan \in Seq(Steps) /\ PlanOK(run.method, run.plan)
  BY DEF RunOK, Runs
<1>2. ~Idle => /\ Head(run.plan) \in MethodSteps(run.method)
               /\ Head(run.plan) = run.plan[1] /\ Head(run.plan) \in Steps
  BY <1>1, PlanTail, ElementOfSeq, EmptySeq DEF Idle
<1>3. "end" \notin Steps
  BY DEF Steps
<1> QED
  BY <1>1, <1>2, <1>3 DEF Now, Idle, Active

(* A step that ends leaves the rest of the plan.                           *)
LEMMA TailIs ==
  ASSUME RunOK, ~Idle
  PROVE  LET rest == Tail(run.plan)
             next == IF rest = << >> THEN "end" ELSE Head(rest)
         IN /\ rest \in Seq(Steps) /\ PlanOK(run.method, rest)
            /\ StepRow(run.method, Now, next)
            /\ next # "end" => next = run.plan[2] /\ Len(run.plan) > 1
<1>1. PICK m \in Methods : m = run.method
  BY DEF RunOK, Runs
<1>2. PICK p \in Seq(Steps) : p = run.plan /\ p # << >> /\ PlanOK(m, p)
  BY <1>1 DEF RunOK, Runs, Idle
<1>3. PICK rest : rest = Tail(p)
  OBVIOUS
<1>4. PICK next : next = IF rest = << >> THEN "end" ELSE Head(rest)
  OBVIOUS
<1>5. /\ rest \in Seq(Steps) /\ PlanOK(m, rest) /\ Now = Head(p) /\ Now \in MethodSteps(m)
      /\ IF rest = << >> THEN Now \in LastSteps(m)
                         ELSE next \in After(m, Now) /\ next = p[2] /\ Len(p) > 1
  BY <1>1, <1>2, <1>3, <1>4, PlanTail, HeadTailProperties DEF Now, Idle
<1>6. rest # << >> => next \in MethodSteps(m)
  <2>1. ASSUME rest # << >> PROVE Head(rest) \in MethodSteps(m)
    BY <1>5, <2>1, PlanTail
  <2> QED
    BY <1>4, <2>1
<1>7. ASSUME m = "execute" PROVE StepRow(m, Now, next)
  BY <1>4, <1>5, <1>6, <1>7, StepsOf, LastStepsOf, AfterIs DEF StepRow
<1>8. ASSUME m = "close" PROVE StepRow(m, Now, next)
  BY <1>4, <1>5, <1>6, <1>8, StepsOf, LastStepsOf, AfterIs DEF StepRow
<1>9. ASSUME m = "callproc" PROVE StepRow(m, Now, next)
  BY <1>4, <1>5, <1>6, <1>9, StepsOf, LastStepsOf, AfterIs DEF StepRow
<1>10. ASSUME m = "nextset" PROVE StepRow(m, Now, next)
  BY <1>4, <1>5, <1>6, <1>10, StepsOf, LastStepsOf, AfterIs DEF StepRow
<1>11. ASSUME m \in FetchMethods PROVE StepRow(m, Now, next)
  BY <1>4, <1>5, <1>6, <1>11, StepsOf, LastStepsOf, AfterIs DEF StepRow
<1>12. ASSUME m \in {"none", "scroll"} PROVE StepRow(m, Now, next)
  BY <1>5, <1>12, StepsOf
<1>13. StepRow(m, Now, next)
  BY <1>1, <1>7, <1>8, <1>9, <1>10, <1>11, <1>12 DEF Methods
<1> QED
  BY <1>1, <1>2, <1>3, <1>4, <1>5, <1>13, EmptySeq

LEMMA ProceedIs ==
  ASSUME RunOK, ~Idle, Proceed
  PROVE  /\ RunOK' /\ SameRun
         /\ run'.exc = run.exc /\ run'.own = run.own /\ run'.out = run.out
         /\ run'.plan = Tail(run.plan)
         /\ StepRow(run.method, Now, Now')
         /\ Now' # "end" => Now' = run.plan[2] /\ Len(run.plan) > 1
<1>1. PICK rest : rest = Tail(run.plan)
  OBVIOUS
<1>2. /\ rest \in Seq(Steps) /\ PlanOK(run.method, rest)
      /\ StepRow(run.method, Now, IF rest = << >> THEN "end" ELSE Head(rest))
      /\ rest # << >> /\ Head(rest) # "end" => Head(rest) = run.plan[2] /\ Len(run.plan) > 1
  BY <1>1, TailIs
<1>3. run' = [run EXCEPT !.plan = rest]
  BY <1>1 DEF Proceed, Then
<1>4. /\ run' \in Runs /\ SameRun /\ run'.plan = rest
      /\ run'.exc = run.exc /\ run'.own = run.own /\ run'.out = run.out
  BY <1>2, <1>3 DEF RunOK, Runs, SameRun
<1>5. Now' = IF rest = << >> THEN "end" ELSE Head(rest)
  BY <1>4 DEF Now, Idle
<1>6. RunOK'
  BY <1>2, <1>4 DEF RunOK, SameRun
<1> QED
  BY <1>1, <1>2, <1>4, <1>5, <1>6

LEMMA RaiseIs ==
  ASSUME RunOK, ~Idle, NEW exc \in Exceptions, NEW own \in BOOLEAN, Raise(exc, own)
  PROVE  /\ RunOK' /\ SameRun
         /\ run'.exc = exc /\ run'.own = own /\ run'.out = run.out
         /\ Now' = IF run.method = "close" THEN "detach" ELSE "end"
         /\ \A n \in Nat : QueriesFit(run'.plan, n)
<1>1. PICK rest : rest = IF run.method = "close" THEN <<"detach">> ELSE << >>
  OBVIOUS
<1>2. rest \in Seq(Steps) /\ rest \in Seq(MethodSteps(run.method))
  <2>1. CASE run.method = "close"
    <3>1. "detach" \in Steps /\ "detach" \in MethodSteps(run.method) /\ rest = <<"detach">>
      BY <1>1, <2>1, StepsOf DEF Steps
    <3> QED
      BY <3>1
  <2>2. CASE run.method # "close"
    BY <1>1, <2>2, EmptySeq
  <2> QED
    BY <2>1, <2>2
<1>3. PlanOK(run.method, rest)
  BY <1>1, <1>2 DEF PlanOK, LastSteps
<1>4. run' = [run EXCEPT !.exc = exc, !.own = own, !.plan = rest]
  BY <1>1 DEF Raise
<1>5. /\ run' \in Runs /\ SameRun /\ run'.plan = rest
      /\ run'.exc = exc /\ run'.own = own /\ run'.out = run.out
  BY <1>2, <1>4 DEF RunOK, Runs, SameRun
<1>6. Now' = IF run.method = "close" THEN "detach" ELSE "end"
  BY <1>1, <1>5 DEF Now, Idle
<1>7. RunOK'
  BY <1>3, <1>5 DEF RunOK, SameRun
<1>8. \A n \in Nat : QueriesFit(rest, n)
  BY <1>1 DEF QueriesFit
<1> QED
  BY <1>5, <1>6, <1>7, <1>8

(* A result set that is there is taken before the plan goes on.            *)
LEMMA DrainIs ==
  ASSUME RunOK, Now = "next", Then(<<"drain">> \o run.plan)
  PROVE  /\ RunOK' /\ SameRun
         /\ run'.exc = run.exc /\ run'.own = run.own /\ run'.out = run.out
         /\ Now' = "drain"
         /\ \A n \in Nat : QueriesFit(run.plan, n) => QueriesFit(run'.plan, n)
<1>1. PICK p \in Seq(Steps) : p = run.plan
  BY DEF RunOK, Runs
<1>2. PlanOK(run.method, p) /\ p # << >> /\ Head(p) = "next" /\ "drain" \in Steps
  BY <1>1 DEF RunOK, Now, Idle, Steps
<1>3. run.method \in {"execute", "close"}
  <2>1. "next" \in MethodSteps(run.method) /\ run.method \in Methods
    BY <1>2, PlanTail DEF RunOK, Runs
  <2> QED
    BY <2>1, StepsOf DEF Methods
<1>4. "drain" \in MethodSteps(run.method)
  BY <1>3, StepsOf
<1>5. PICK q : q = <<"drain">> \o p
  OBVIOUS
<1>6. PlanOK(run.method, q)
  BY <1>2, <1>4, <1>5, PlanCons, AfterIs
<1>7. q \in Seq(Steps) /\ q # << >> /\ Head(q) = "drain"
  BY <1>2, <1>5, ConsIs
<1>8. \A n \in Nat : QueriesFit(p, n) => QueriesFit(q, n)
  BY <1>2, <1>5, QueriesCons
<1>9. run' = [run EXCEPT !.plan = q]
  BY <1>1, <1>5 DEF Then
<1>10. /\ run' \in Runs /\ SameRun /\ run'.plan = q
       /\ run'.exc = run.exc /\ run'.own = run.own /\ run'.out = run.out
  BY <1>7, <1>9 DEF RunOK, Runs, SameRun
<1>11. Now' = "drain" /\ Idle' = FALSE
  BY <1>7, <1>10 DEF Now, Idle
<1>12. RunOK'
  <2>1. run.who \in Cursors
    BY <1>1, <1>2 DEF RunOK, Idle
  <2> QED
    BY <1>6, <1>10, <2>1 DEF RunOK, SameRun
<1> QED
  BY <1>1, <1>8, <1>10, <1>11, <1>12

LEMMA GetPostIs ==
  ASSUME NEW t \in Seq(Steps)
  PROVE  <<"get", "post">> \o t = <<"get">> \o (<<"post">> \o t)
<1>1. <<"get">> \in Seq(Steps) /\ <<"post">> \in Seq(Steps)
  BY DEF Steps
<1>2. <<"get">> \o <<"post">> = <<"get", "post">>
  <2>1. PICK u, v : u = <<"get">> /\ v = <<"post">>
    OBVIOUS
  <2>2. /\ u \in Seq(Steps) /\ v \in Seq(Steps) /\ Len(u) = 1 /\ Len(v) = 1
        /\ u[1] = "get" /\ v[1] = "post"
    BY <1>1, <2>1
  <2>3. PICK w : w = u \o v
    OBVIOUS
  <2>4. w \in Seq(Steps) /\ Len(w) = 2 /\ w[1] = "get" /\ w[2] = "post"
    <3>1. /\ w \in Seq(Steps) /\ Len(w) = 1 + 1
          /\ \A i \in 1..1 + 1 : w[i] = IF i <= 1 THEN u[i] ELSE v[i - 1]
      <4>1. /\ u \o v \in Seq(Steps) /\ Len(u \o v) = Len(u) + Len(v)
            /\ \A i \in 1..Len(u) + Len(v) :
                 (u \o v)[i] = IF i <= Len(u) THEN u[i] ELSE v[i - Len(u)]
        BY <2>2, ConcatProperties
      <4> QED
        BY <2>2, <2>3, <4>1
    <3>2. 1 \in 1..1 + 1 /\ 2 \in 1..1 + 1 /\ 1 <= 1 /\ ~(2 <= 1) /\ 2 - 1 = 1 /\ 1 + 1 = 2
      OBVIOUS
    <3>3. w[1] = u[1] /\ w[2] = v[1]
      BY <3>1, <3>2
    <3> QED
      BY <2>2, <3>1, <3>3
  <2>5. w = <<"get", "post">>
    BY <2>4
  <2> QED
    BY <2>1, <2>3, <2>5
<1> QED
  BY <1>1, <1>2, ConcatAssociative

LEMMA GetIs ==
  ASSUME RunOK, Now = "advance", Then(<<"get", "post">> \o Tail(run.plan))
  PROVE  /\ RunOK' /\ SameRun
         /\ run'.exc = run.exc /\ run'.own = run.own /\ run'.out = run.out
         /\ Now' = "get" /\ run.method \in {"callproc", "nextset"}
         /\ ~(Len(run'.plan) > 2 /\ run'.plan[3] = "executed")
         /\ \A n \in Nat : QueriesFit(run.plan, n) => QueriesFit(run'.plan, n)
<1>1. PICK p \in Seq(Steps) : p = run.plan
  BY DEF RunOK, Runs
<1>2. /\ PlanOK(run.method, p) /\ p # << >> /\ Head(p) = "advance"
      /\ "get" \in Steps /\ "post" \in Steps /\ ~Idle
  BY <1>1 DEF RunOK, Now, Idle, Steps
<1>3. PICK t : t = Tail(p)
  OBVIOUS
<1>4. /\ PlanOK(run.method, t) /\ t \in Seq(Steps)
      /\ StepRow(run.method, "advance", IF t = << >> THEN "end" ELSE Head(t))
  BY <1>1, <1>2, <1>3, TailIs
<1>5. /\ run.method \in {"callproc", "nextset"}
      /\ t # << >> => run.method = "callproc" /\ Head(t) = "query"
      /\ t = << >> => run.method = "nextset"
  BY <1>4, EmptySeq, PlanTail, StepsOf DEF StepRow, RunOK, Runs
<1>6. {"get", "post"} \subseteq MethodSteps(run.method)
  BY <1>5, StepsOf
<1>7. PICK r : r = <<"post">> \o t
  OBVIOUS
<1>8. PlanOK(run.method, r)
  BY <1>4, <1>5, <1>6, <1>7, PlanCons, AfterIs, LastStepsOf
<1>9. r \in Seq(Steps) /\ r # << >> /\ Head(r) = "post" /\ r[1] = "post"
      /\ Len(r) = Len(t) + 1 /\ \A i \in 1..Len(t) : r[i + 1] = t[i]
  BY <1>2, <1>4, <1>7, ConsIs
<1>10. PICK q : q = <<"get">> \o r
  OBVIOUS
<1>11. PlanOK(run.method, q)
  BY <1>6, <1>8, <1>9, <1>10, PlanCons, AfterIs
<1>12. q \in Seq(Steps) /\ q # << >> /\ Head(q) = "get"
       /\ Len(q) = Len(r) + 1 /\ \A i \in 1..Len(r) : q[i + 1] = r[i]
  BY <1>2, <1>9, <1>10, ConsIs
<1>13. <<"get", "post">> \o t = q
  BY <1>4, <1>7, <1>10, GetPostIs
<1>14. \A n \in Nat : QueriesFit(p, n) => QueriesFit(q, n)
  BY <1>2, <1>3, <1>4, <1>7, <1>9, <1>10, QueriesTail, QueriesCons
<1>15. ~(Len(q) > 2 /\ q[3] = "executed")
  <2> SUFFICES ASSUME Len(q) > 2 PROVE q[3] # "executed"
    OBVIOUS
  <2>1. Len(t) \in Nat /\ Len(t) > 0
    BY <1>4, <1>9, <1>12
  <2>2. t # << >> /\ Head(t) = t[1] /\ q[3] = t[1]
    <3>1. q[1 + 2] = r[1 + 1] /\ r[1 + 1] = t[1]
      BY <1>9, <1>12, <2>1
    <3> QED
      BY <1>4, <2>1, <3>1, HeadTailProperties
  <2> QED
    BY <1>5, <2>2
<1>16. run' = [run EXCEPT !.plan = q]
  BY <1>1, <1>3, <1>13 DEF Then
<1>17. /\ run' \in Runs /\ SameRun /\ run'.plan = q
       /\ run'.exc = run.exc /\ run'.own = run.own /\ run'.out = run.out
  BY <1>12, <1>16 DEF RunOK, Runs, SameRun
<1>18. Now' = "get"
  BY <1>12, <1>17 DEF Now, Idle
<1>19. RunOK'
  BY <1>2, <1>11, <1>17 DEF RunOK, SameRun, Idle
<1> QED
  BY <1>1, <1>5, <1>14, <1>15, <1>17, <1>18, <1>19

(* Rows are handed out by the methods that the program called for them.    *)
LEMMA GiveIs ==
  ASSUME RunOK, ~Idle, NEW rows \in Seq(StoredRows), Give(rows)
  PROVE  /\ RunOK' /\ SameRun
         /\ run'.exc = run.exc /\ run'.own = run.own
         /\ run'.out = IF run.method \in FetchMethods THEN rows ELSE run.out
         /\ run'.plan = Tail(run.plan)
         /\ StepRow(run.method, Now, Now')
<1>1. PICK rest : rest = Tail(run.plan)
  OBVIOUS
<1>2. /\ rest \in Seq(Steps) /\ PlanOK(run.method, rest)
      /\ StepRow(run.method, Now, IF rest = << >> THEN "end" ELSE Head(rest))
  BY <1>1, TailIs
<1>3. PICK out : out = IF run.method \in FetchMethods THEN rows ELSE run.out
  OBVIOUS
<1>4. run' = [run EXCEPT !.plan = rest, !.out = out]
  BY <1>1, <1>3 DEF Give, RunOK, Runs
<1>5. out \in Seq(StoredRows) \cup {None}
  BY <1>3 DEF RunOK, Runs
<1>6. /\ run' \in Runs /\ SameRun /\ run'.plan = rest
      /\ run'.exc = run.exc /\ run'.own = run.own /\ run'.out = out
  BY <1>2, <1>4, <1>5 DEF RunOK, Runs, SameRun
<1>7. Now' = IF rest = << >> THEN "end" ELSE Head(rest)
  BY <1>6 DEF Now, Idle
<1>8. RunOK'
  BY <1>2, <1>6 DEF RunOK, SameRun
<1> QED
  BY <1>1, <1>2, <1>3, <1>6, <1>7, <1>8

(* close() ends.                                                           *)
LEMMA DetachIs ==
  ASSUME RunOK, ~Idle, Then(<< >>)
  PROVE  /\ RunOK' /\ SameRun
         /\ run'.exc = run.exc /\ run'.own = run.own /\ run'.out = run.out
         /\ Now' = "end" /\ \A n \in Nat : QueriesFit(run'.plan, n)
<1>1. run' = [run EXCEPT !.plan = << >>]
  BY DEF Then
<1>2. /\ run' \in Runs /\ SameRun /\ run'.plan = << >>
      /\ run'.exc = run.exc /\ run'.own = run.own /\ run'.out = run.out
  BY <1>1, EmptySeq DEF RunOK, Runs, SameRun
<1>3. RunOK'
  BY <1>2, EmptySeq DEF RunOK, SameRun, PlanOK
<1> QED
  BY <1>2, <1>3 DEF Now, Idle, QueriesFit

-----------------------------------------------------------------------------
(* How the methods begin.                                                  *)
LEMMA NewRunIs ==
  ASSUME NEW c \in Cursors, NEW method \in Methods, NEW plan \in Seq(Steps),
         NEW size \in (Nat \ {0}) \cup {None}, NEW exc \in Exceptions, PlanOK(method, plan),
         run' = [who |-> c, method |-> method, plan |-> plan, size |-> size,
                 exc |-> exc, own |-> TRUE, out |-> None]
  PROVE  /\ RunOK'
         /\ run'.who = c /\ run'.method = method /\ run'.exc = exc
         /\ run'.own /\ run'.out = None
         /\ run'.plan = plan
         /\ Now' = IF plan = << >> THEN "end" ELSE Head(plan)
<1>1. /\ run' \in Runs /\ run'.who = c /\ run'.method = method /\ run'.exc = exc
      /\ run'.own /\ run'.out = None /\ run'.plan = plan
  BY DEF Runs
<1>2. RunOK'
  BY <1>1 DEF RunOK
<1> QED
  BY <1>1, <1>2 DEF Now, Idle

(* A method that has nothing to do.                                        *)
LEMMA EmptyPlan ==
  ASSUME NEW m
  PROVE  << >> \in Seq(Steps) /\ PlanOK(m, << >>) /\ \A n \in Nat : QueriesFit(<< >>, n)
  BY EmptySeq DEF PlanOK, QueriesFit

(* The plan of a fetch.                                                    *)
LEMMA FetchPlan ==
  ASSUME NEW m \in FetchMethods
  PROVE  /\ <<"fetch">> \in Seq(Steps) /\ PlanOK(m, <<"fetch">>)
         /\ \A n \in Nat : QueriesFit(<<"fetch">>, n)
         /\ <<"fetch">> # << >> /\ Head(<<"fetch">>) = "fetch"
<1>1. PICK p : p = <<"fetch">>
  OBVIOUS
<1>2. p \in Seq(Steps) /\ p \in Seq(MethodSteps(m)) /\ Len(p) = 1 /\ p[1] = "fetch"
  <2>1. "fetch" \in Steps /\ "fetch" \in MethodSteps(m)
    BY StepsOf DEF Steps
  <2> QED
    BY <1>1, <2>1
<1>3. PlanOK(m, p)
  BY <1>2, LastStepsOf DEF PlanOK
<1>4. \A n \in Nat : QueriesFit(p, n)
  BY <1>2 DEF QueriesFit
<1>5. p # << >> /\ Head(p) = "fetch"
  BY <1>1
<1> QED
  BY <1>1, <1>2, <1>3, <1>4, <1>5

(* The plan of nextset.                                                    *)
LEMMA NextsetPlan ==
  ASSUME NEW c \in Cursors
  PROVE  LET p == (IF cur[c].executed # 0 THEN <<"fetch">> ELSE << >>) \o <<"advance">>
         IN /\ p \in Seq(Steps) /\ PlanOK("nextset", p) /\ p # << >>
            /\ Head(p) = IF cur[c].executed # 0 THEN "fetch" ELSE "advance"
            /\ \A n \in Nat : QueriesFit(p, n)
<1>1. PICK a : a = <<"advance">>
  OBVIOUS
<1>2. {"fetch", "advance"} \subseteq Steps /\ {"fetch", "advance"} \subseteq MethodSteps("nextset")
  BY StepsOf DEF Steps
<1>3. /\ a \in Seq(Steps) /\ a \in Seq(MethodSteps("nextset")) /\ Len(a) = 1
      /\ a[1] = "advance" /\ a # << >> /\ Head(a) = "advance"
  BY <1>1, <1>2
<1>4. PlanOK("nextset", a)
  BY <1>3, LastStepsOf DEF PlanOK
<1>5. \A n \in Nat : QueriesFit(a, n)
  BY <1>3 DEF QueriesFit
<1>6. CASE cur[c].executed = 0
  <2>1. << >> \o a = a
    BY <1>3, ConcatEmptySeq
  <2> QED
    BY <1>1, <1>3, <1>4, <1>5, <1>6, <2>1
<1>7. CASE cur[c].executed # 0
  <2>1. PICK p : p = <<"fetch">> \o a
    OBVIOUS
  <2>2. p \in Seq(Steps) /\ p # << >> /\ Head(p) = "fetch"
    BY <1>2, <1>3, <2>1, ConsIs
  <2>3. PlanOK("nextset", p)
    BY <1>2, <1>3, <1>4, <2>1, PlanCons, AfterIs
  <2>4. \A n \in Nat : QueriesFit(p, n)
    BY <1>2, <1>3, <1>5, <2>1, QueriesCons
  <2> QED
    BY <1>1, <1>7, <2>1, <2>2, <2>3, <2>4
<1> QED
  BY <1>6, <1>7

(* What is discarded before a method goes on to its own steps.             *)
LEMMA DiscardPlanIs ==
  ASSUME NEW c \in Cursors, NEW m \in {"execute", "close"}, NEW rest \in Seq(Steps),
         PlanOK(m, rest), rest # << >>, Head(rest) \in {"mogrify", "detach"},
         NEW n \in Nat, QueriesFit(rest, n)
  PROVE  LET p == DiscardPlan(c, rest)
         IN /\ p \in Seq(Steps) /\ PlanOK(m, p) /\ p # << >> /\ QueriesFit(p, n)
            /\ Head(p) = IF cur[c].result # None THEN "discard"
                         ELSE IF cur[c].open THEN "next" ELSE Head(rest)
            /\ cur[c].result # None /\ p[2] # "next" => ~cur[c].open
<1>1. {"discard", "next"} \subseteq Steps /\ {"discard", "next"} \subseteq MethodSteps(m)
  BY StepsOf DEF Steps
<1>2. PICK pending : pending = IF cur[c].open THEN <<"next">> \o rest ELSE rest
  OBVIOUS
<1>3. /\ pending \in Seq(Steps) /\ PlanOK(m, pending) /\ pending # << >>
      /\ QueriesFit(pending, n)
      /\ Head(pending) = IF cur[c].open THEN "next" ELSE Head(rest)
  <2>1. ASSUME cur[c].open
        PROVE  /\ <<"next">> \o rest \in Seq(Steps) /\ PlanOK(m, <<"next">> \o rest)
               /\ <<"next">> \o rest # << >> /\ Head(<<"next">> \o rest) = "next"
               /\ QueriesFit(<<"next">> \o rest, n)
    BY <1>1, ConsIs, PlanCons, QueriesCons, AfterIs
  <2> QED
    BY <1>2, <2>1
<1>4. PICK p : p = IF cur[c].result # None THEN <<"discard">> \o pending ELSE pending
  OBVIOUS
<1>5. p = DiscardPlan(c, rest)
  BY <1>2, <1>4 DEF DiscardPlan
<1>6. ASSUME cur[c].result # None
      PROVE  /\ p \in Seq(Steps) /\ PlanOK(m, p) /\ p # << >> /\ Head(p) = "discard"
             /\ QueriesFit(p, n) /\ p[2] = Head(pending)
  <2>0. Head(pending) \in After(m, "discard")
    BY <1>3, AfterIs
  <2>1. /\ p \in Seq(Steps) /\ PlanOK(m, p) /\ p # << >> /\ Head(p) = "discard"
        /\ QueriesFit(p, n) /\ \A i \in 1..Len(pending) : p[i + 1] = pending[i]
    BY <1>1, <1>3, <1>4, <1>6, <2>0, ConsIs, PlanCons, QueriesCons
  <2>2. Len(pending) \in Nat /\ Len(pending) > 0 /\ Head(pending) = pending[1]
    BY <1>3, EmptySeq, HeadTailProperties
  <2>3. p[2] = p[1 + 1] /\ p[1 + 1] = pending[1]
    BY <2>1, <2>2
  <2> QED
    BY <2>1, <2>2, <2>3
<1>7. Head(rest) # "next" /\ "next" # "discard"
  OBVIOUS
<1> QED
  BY <1>3, <1>4, <1>5, <1>6

(* The plans of execute and close after that.                              *)
LEMMA ExecutePlan ==
  ASSUME NEW n \in Nat, n < MaxStatements
  PROVE  LET p == <<"mogrify", "query", "get", "post", "executed">>
         IN /\ p \in Seq(Steps) /\ PlanOK("execute", p) /\ p # << >> /\ Head(p) = "mogrify"
            /\ QueriesFit(p, n)
<1>1. PICK p : p = <<"mogrify", "query", "get", "post", "executed">>
  OBVIOUS
<1>2. {"mogrify", "query", "get", "post", "executed"} \subseteq Steps \cap MethodSteps("execute")
  BY StepsOf DEF Steps
<1>3. /\ p \in Seq(Steps) /\ p \in Seq(MethodSteps("execute")) /\ Len(p) = 5
      /\ p[1] = "mogrify" /\ p[2] = "query" /\ p[3] = "get" /\ p[4] = "post"
      /\ p[5] = "executed" /\ p # << >> /\ Head(p) = "mogrify"
  BY <1>1, <1>2
<1>4. PlanOK("execute", p)
  <2> SUFFICES ASSUME NEW i \in 1..5
               PROVE  IF i = 5 THEN p[i] \in LastSteps("execute")
                               ELSE p[i + 1] \in After("execute", p[i])
    BY <1>3 DEF PlanOK
  <2>1. i = 1 \/ i = 2 \/ i = 3 \/ i = 4 \/ i = 5
    OBVIOUS
  <2>2. /\ p[1 + 1] \in After("execute", p[1]) /\ p[2 + 1] \in After("execute", p[2])
        /\ p[3 + 1] \in After("execute", p[3]) /\ p[4 + 1] \in After("execute", p[4])
        /\ p[5] \in LastSteps("execute")
    BY <1>3, LastStepsOf, AfterIs
  <2> QED
    BY <2>1, <2>2
<1>5. QueriesFit(p, n)
  BY <1>3 DEF QueriesFit
<1> QED
  BY <1>1, <1>3, <1>4, <1>5

LEMMA ClosePlan ==
  ASSUME NEW n \in Nat
  PROVE  LET p == <<"detach">>
         IN /\ p \in Seq(Steps) /\ PlanOK("close", p) /\ p # << >> /\ Head(p) = "detach"
            /\ QueriesFit(p, n)
<1>1. PICK p : p = <<"detach">>
  OBVIOUS
<1>2. "detach" \in Steps \cap MethodSteps("close")
  BY StepsOf DEF Steps
<1>3. /\ p \in Seq(Steps) /\ p \in Seq(MethodSteps("close")) /\ Len(p) = 1
      /\ p[1] = "detach" /\ p # << >> /\ Head(p) = "detach"
  BY <1>1, <1>2
<1>4. PlanOK("close", p)
  BY <1>3, LastStepsOf DEF PlanOK
<1>5. QueriesFit(p, n)
  BY <1>3 DEF QueriesFit
<1> QED
  BY <1>1, <1>3, <1>4, <1>5

(* The plans of callproc, without arguments and with them.                 *)
LEMMA QueryPlanIs ==
  ASSUME NEW n \in Nat, n < MaxStatements
  PROVE  /\ QueryPlan \in Seq(Steps) /\ QueryPlan \in Seq(MethodSteps("callproc"))
         /\ Len(QueryPlan) = 4 /\ QueryPlan[1] = "query" /\ QueryPlan[2] = "get"
         /\ QueryPlan[3] = "post" /\ QueryPlan[4] = "executed"
         /\ PlanOK("callproc", QueryPlan) /\ QueryPlan # << >> /\ Head(QueryPlan) = "query"
         /\ QueriesFit(QueryPlan, n)
<1>1. PICK p : p = <<"query", "get", "post", "executed">>
  OBVIOUS
<1>2. {"query", "get", "post", "executed"} \subseteq Steps \cap MethodSteps("callproc")
  BY StepsOf DEF Steps
<1>3. /\ p \in Seq(Steps) /\ p \in Seq(MethodSteps("callproc")) /\ Len(p) = 4
      /\ p[1] = "query" /\ p[2] = "get" /\ p[3] = "post"
      /\ p[4] = "executed" /\ p # << >> /\ Head(p) = "query"
  BY <1>1, <1>2
<1>4. PlanOK("callproc", p)
  <2> SUFFICES ASSUME NEW i \in 1..4
               PROVE  IF i = 4 THEN p[i] \in LastSteps("callproc")
                               ELSE p[i + 1] \in After("callproc", p[i])
    BY <1>3 DEF PlanOK
  <2>1. i = 1 \/ i = 2 \/ i = 3 \/ i = 4
    OBVIOUS
  <2>2. /\ p[1 + 1] \in After("callproc", p[1]) /\ p[2 + 1] \in After("callproc", p[2])
        /\ p[3 + 1] \in After("callproc", p[3]) /\ p[4] \in LastSteps("callproc")
    BY <1>3, LastStepsOf, AfterIs
  <2> QED
    BY <2>1, <2>2
<1>5. QueriesFit(p, n)
  BY <1>3 DEF QueriesFit
<1> QED
  BY <1>1, <1>3, <1>4, <1>5 DEF QueryPlan

LEMMA ArgsPlanIs ==
  ASSUME NEW n \in Nat, n + 1 < MaxStatements
  PROVE  LET p == QueryPlan \o <<"fetch", "advance">> \o QueryPlan
         IN /\ p \in Seq(Steps) /\ PlanOK("callproc", p) /\ p # << >> /\ Head(p) = "query"
            /\ QueriesFit(p, n)
            /\ Len(p) = 10 /\ p[4] = "executed" /\ p[10] = "executed"
            /\ \A i \in 1..10 : p[i] = "query" => i = 1 \/ i = 7
<1>0. MaxStatements \in Nat /\ n < MaxStatements
  BY CursorsAssumption
<1>1. PICK S : S = MethodSteps("callproc")
  OBVIOUS
<1>2. S \subseteq Steps /\ {"fetch", "advance"} \subseteq S
  BY <1>1, StepsOf DEF Steps
<1>3. PICK q : q = QueryPlan
  OBVIOUS
<1>4. /\ q \in Seq(S) /\ Len(q) = 4 /\ q[1] = "query" /\ q[2] = "get"
      /\ q[3] = "post" /\ q[4] = "executed"
  BY <1>0, <1>1, <1>3, QueryPlanIs
<1>5. PICK f : f = <<"fetch", "advance">>
  OBVIOUS
<1>6. f \in Seq(S) /\ Len(f) = 2 /\ f[1] = "fetch" /\ f[2] = "advance"
  BY <1>2, <1>5
<1>7. PICK g : g = q \o f
  OBVIOUS
<1>8. /\ g \in Seq(S) /\ Len(g) = 6
      /\ \A i \in 1..6 : g[i] = IF i <= 4 THEN q[i] ELSE f[i - 4]
  <2>1. /\ q \o f \in Seq(S) /\ Len(q \o f) = Len(q) + Len(f)
        /\ \A i \in 1..Len(q) + Len(f) :
             (q \o f)[i] = IF i <= Len(q) THEN q[i] ELSE f[i - Len(q)]
    BY <1>4, <1>6, ConcatProperties
  <2> QED
    BY <1>4, <1>6, <1>7, <2>1
<1>9. PICK p : p = g \o q
  OBVIOUS
<1>10. /\ p \in Seq(S) /\ Len(p) = 10
       /\ \A i \in 1..10 : p[i] = IF i <= 6 THEN g[i] ELSE q[i - 6]
  <2>1. /\ g \o q \in Seq(S) /\ Len(g \o q) = Len(g) + Len(q)
        /\ \A i \in 1..Len(g) + Len(q) :
             (g \o q)[i] = IF i <= Len(g) THEN g[i] ELSE q[i - Len(g)]
    BY <1>4, <1>8, ConcatProperties
  <2>2. Len(g) = 6 /\ Len(q) = 4 /\ 6 + 4 = 10
    BY <1>4, <1>8
  <2> QED
    BY <1>9, <2>1, <2>2
<1>11. /\ p[1] = "query" /\ p[2] = "get" /\ p[3] = "post" /\ p[4] = "executed"
       /\ p[5] = "fetch" /\ p[6] = "advance"
       /\ p[7] = "query" /\ p[8] = "get" /\ p[9] = "post" /\ p[10] = "executed"
  <2>1. /\ p[1] = g[1] /\ p[2] = g[2] /\ p[3] = g[3] /\ p[4] = g[4] /\ p[5] = g[5]
        /\ p[6] = g[6] /\ p[7] = q[1] /\ p[8] = q[2] /\ p[9] = q[3] /\ p[10] = q[4]
    BY <1>10
  <2>2. /\ g[1] = q[1] /\ g[2] = q[2] /\ g[3] = q[3] /\ g[4] = q[4]
        /\ g[5] = f[1] /\ g[6] = f[2]
    BY <1>8
  <2> QED
    BY <1>4, <1>6, <2>1, <2>2
<1>12. PlanOK("callproc", p)
  <2> SUFFICES ASSUME NEW i \in 1..10
               PROVE  IF i = 10 THEN p[i] \in LastSteps("callproc")
                                ELSE p[i + 1] \in After("callproc", p[i])
    BY <1>1, <1>10 DEF PlanOK
  <2>1. \/ i = 1 \/ i = 2 \/ i = 3 \/ i = 4 \/ i = 5
        \/ i = 6 \/ i = 7 \/ i = 8 \/ i = 9 \/ i = 10
    OBVIOUS
  <2>2. /\ p[1 + 1] \in After("callproc", p[1]) /\ p[2 + 1] \in After("callproc", p[2])
        /\ p[3 + 1] \in After("callproc", p[3]) /\ p[4 + 1] \in After("callproc", p[4])
        /\ p[5 + 1] \in After("callproc", p[5]) /\ p[6 + 1] \in After("callproc", p[6])
        /\ p[7 + 1] \in After("callproc", p[7]) /\ p[8 + 1] \in After("callproc", p[8])
        /\ p[9 + 1] \in After("callproc", p[9]) /\ p[10] \in LastSteps("callproc")
    BY <1>11, LastStepsOf, AfterIs
  <2> QED
    BY <2>1, <2>2
<1>13. \A i \in 1..10 : p[i] = "query" => i = 1 \/ i = 7
  <2> SUFFICES ASSUME NEW i \in 1..10, i # 1, i # 7 PROVE p[i] # "query"
    OBVIOUS
  <2>1. i = 2 \/ i = 3 \/ i = 4 \/ i = 5 \/ i = 6 \/ i = 8 \/ i = 9 \/ i = 10
    OBVIOUS
  <2> QED
    BY <1>11, <2>1
<1>14. QueriesFit(p, n)
  <2>1. \A i, j, k \in 1..Len(p) : i < j /\ j < k =>
          ~(p[i] = "query" /\ p[j] = "query" /\ p[k] = "query")
    BY <1>10, <1>13
  <2> QED
    BY <1>0, <2>1 DEF QueriesFit
<1>15. p \in Seq(Steps) /\ p # << >> /\ Head(p) = "query"
  <2>1. p # << >>
    BY <1>10, EmptySeq
  <2>2. Head(p) = p[1]
    BY <1>10, <2>1, HeadTailProperties
  <2>3. p \in Seq(Steps)
    BY <1>2, <1>10
  <2> QED
    BY <1>11, <2>1, <2>2, <2>3
<1> QED
  BY <1>3, <1>5, <1>7, <1>9, <1>10, <1>11, <1>12, <1>13, <1>14, <1>15
=============================================================================
