-------------------------- MODULE ExecuteManyProofs --------------------------
(***************************************************************************)
(* Proofs about ExecuteMany, for any lengths, any number of rows and any   *)
(* counts: types, the order of the rows, the size of the statements.       *)
(***************************************************************************)
EXTENDS ExecuteMany, SequenceTheorems, WellFoundedInduction, TLAPS

(* Sums.  Induction over the natural numbers needs no operator parameter    *)
(* when it is about a set: the least number outside it has a predecessor   *)
(* in it.                                                                  *)

(* The relation of < on the natural numbers. *)
Less == {p \in Nat \X Nat : p[1] < p[2]}

(* Every non-empty set of natural numbers has a least member. *)
LEMMA LeastMember ==
  ASSUME NEW S \in SUBSET Nat, S # {}
  PROVE  \E x \in S : \A y \in S : x <= y
<1>1. OpToRel(<, Nat) = Less
  BY DEF OpToRel, Less
<1>2. IsWellFoundedOn(Less, Nat)
  BY <1>1, NatLessThanWellFounded
<1>3. PICK x \in S : \A y \in S : ~(<<y, x>> \in Less)
  BY <1>2, WFMin
<1>4. ASSUME NEW y \in S PROVE x <= y
  <2>1. x \in Nat /\ y \in Nat /\ ~(y < x)
    BY <1>3 DEF Less
  <2> QED
    BY <2>1
<1> QED
  BY <1>4

(* Induction: a set with 0, and with n + 1 for each n in it, is Nat. *)
LEMMA SetInduction ==
  ASSUME NEW S \in SUBSET Nat, 0 \in S, \A n \in S : n + 1 \in S
  PROVE  S = Nat
<1> SUFFICES ASSUME S # Nat PROVE FALSE
  OBVIOUS
<1>1. PICK x \in Nat \ S : \A y \in Nat \ S : x <= y
  BY LeastMember
<1>2. x # 0 /\ x - 1 \in Nat
  BY <1>1
<1>3. x - 1 \in S
  BY <1>1, <1>2
<1> QED
  BY <1>1, <1>2, <1>3

(* f gives the sums of the first k members of s. *)
SumsTo(f, s, k) ==
  /\ f[0] = 0
  /\ \A n \in 1..k : f[n] = f[n - 1] + s[n]

(* The first k members are the same. *)
Agree(s, t, k) == \A n \in 1..k : s[n] = t[n]

(* The function that Total chooses exists. *)
LEMMA SumsExist ==
  ASSUME NEW s \in Seq(Int)
  PROVE  \E f \in [0..Len(s) -> Int] : SumsTo(f, s, Len(s))
<1> DEFINE S == {k \in Nat : k <= Len(s) => \E f \in [0..k -> Int] : SumsTo(f, s, k)}
<1>1. 0 \in S
  <2>1. SumsTo([n \in 0..0 |-> 0], s, 0) /\ [n \in 0..0 |-> 0] \in [0..0 -> Int]
    BY DEF SumsTo
  <2> QED
    BY <2>1
<1>2. ASSUME NEW k \in S PROVE k + 1 \in S
  <2> SUFFICES ASSUME k + 1 <= Len(s) PROVE \E f \in [0..(k + 1) -> Int] : SumsTo(f, s, k + 1)
    OBVIOUS
  <2>1. k \in Nat /\ k <= Len(s) /\ Len(s) \in Nat
    BY LenProperties
  <2>2. PICK f \in [0..k -> Int] : SumsTo(f, s, k)
    BY <2>1
  <2>3. s[k + 1] \in Int
    BY <2>1, ElementOfSeq
  <2> DEFINE g == [n \in 0..(k + 1) |-> IF n = k + 1 THEN f[k] + s[k + 1] ELSE f[n]]
  <2>4. g \in [0..(k + 1) -> Int] /\ g[0] = 0
    BY <2>1, <2>2, <2>3 DEF SumsTo
  <2>5. ASSUME NEW n \in 1..(k + 1) PROVE g[n] = g[n - 1] + s[n]
    <3>1. CASE n = k + 1
      BY <2>1, <3>1
    <3>2. CASE n \in 1..k
      BY <2>1, <2>2, <3>2 DEF SumsTo
    <3> QED
      BY <2>1, <3>1, <3>2
  <2>6. SumsTo(g, s, k + 1)
    BY <2>4, <2>5 DEF SumsTo
  <2> QED
    BY <2>4, <2>6
<1>3. S = Nat
  <2> HIDE DEF S
  <2>1. S \in SUBSET Nat
    BY DEF S
  <2> QED
    BY <1>1, <1>2, <2>1, SetInduction
<1>4. Len(s) \in S
  BY <1>3, LenProperties
<1> QED
  BY <1>4, LenProperties

(* Sums of the same members are the same. *)
LEMMA SumsAgree ==
  ASSUME NEW s, NEW t, NEW f, NEW g, NEW k \in Nat, NEW m \in Nat, k <= m,
         SumsTo(f, s, k), SumsTo(g, t, m), Agree(s, t, k)
  PROVE  \A n \in 0..k : f[n] = g[n]
<1> DEFINE S == {n \in Nat : n <= k => f[n] = g[n]}
<1>1. 0 \in S
  BY DEF SumsTo
<1>2. ASSUME NEW n \in S PROVE n + 1 \in S
  <2> SUFFICES ASSUME n + 1 <= k PROVE f[n + 1] = g[n + 1]
    OBVIOUS
  <2>1. n + 1 \in 1..k /\ n + 1 \in 1..m /\ (n + 1) - 1 = n /\ f[n] = g[n]
    OBVIOUS
  <2>2. /\ f[n + 1] = f[n] + s[n + 1] /\ g[n + 1] = g[n] + t[n + 1]
        /\ s[n + 1] = t[n + 1]
    BY <2>1 DEF SumsTo, Agree
  <2> QED
    BY <2>1, <2>2
<1>3. S = Nat
  <2> HIDE DEF S
  <2>1. S \in SUBSET Nat
    BY DEF S
  <2> QED
    BY <1>1, <1>2, <2>1, SetInduction
<1> QED
  BY <1>3

(* Total is the last of the sums, whichever function gives them. *)
LEMMA TotalIs ==
  ASSUME NEW s \in Seq(Int), NEW f \in [0..Len(s) -> Int], SumsTo(f, s, Len(s))
  PROVE  Total(s) = f[Len(s)]
<1> DEFINE Recursion(h) ==
      h = [n \in 0..Len(s) |-> IF n = 0 THEN 0 ELSE h[n - 1] + s[n]]
<1>a. Len(s) \in Nat
  BY LenProperties
<1>1. Recursion(f)
  <2>1. ASSUME NEW n \in 0..Len(s)
        PROVE  f[n] = IF n = 0 THEN 0 ELSE f[n - 1] + s[n]
    BY <1>a DEF SumsTo
  <2>2. f = [n \in 0..Len(s) |-> f[n]]
    OBVIOUS
  <2> QED
    BY <2>1, <2>2
<1> DEFINE sums == CHOOSE h : Recursion(h)
<1>2. Recursion(sums)
  BY <1>1
<1>3. Total(s) = sums[Len(s)]
  BY DEF Total
<1> HIDE DEF sums
<1>4. SumsTo(sums, s, Len(s))
  <2>1. ASSUME NEW n \in 0..Len(s)
        PROVE  sums[n] = IF n = 0 THEN 0 ELSE sums[n - 1] + s[n]
    BY <1>2
  <2> QED
    BY <2>1, <1>a DEF SumsTo
<1>5. \A n \in 0..Len(s) : sums[n] = f[n]
  BY <1>a, <1>4, SumsAgree DEF Agree
<1> QED
  BY <1>3, <1>5, <1>a

(* Nothing adds up to 0. *)
LEMMA TotalEmpty == Total(<< >>) = 0
<1>1. SumsTo([n \in 0..0 |-> 0], << >>, 0) /\ [n \in 0..0 |-> 0] \in [0..0 -> Int]
  BY DEF SumsTo
<1>2. << >> \in Seq(Int) /\ Len(<< >>) = 0
  OBVIOUS
<1> QED
  BY <1>1, <1>2, TotalIs

(* One member more adds its number to the total. *)
LEMMA TotalAppend ==
  ASSUME NEW s \in Seq(Int), NEW x \in Int
  PROVE  Total(Append(s, x)) = Total(s) + x /\ Total(s) \in Int
<1> DEFINE t == Append(s, x)
<1>1. /\ t \in Seq(Int) /\ Len(t) = Len(s) + 1 /\ t[Len(s) + 1] = x
      /\ \A n \in 1..Len(s) : t[n] = s[n]
  BY AppendProperties
<1>2. Len(s) \in Nat
  BY LenProperties
<1> HIDE DEF t
<1>3. PICK f \in [0..Len(s) -> Int] : SumsTo(f, s, Len(s))
  BY SumsExist
<1>4. PICK g \in [0..Len(t) -> Int] : SumsTo(g, t, Len(t))
  BY <1>1, SumsExist
<1>5. f[Len(s)] = g[Len(s)]
  <2>1. Len(t) \in Nat /\ Len(s) <= Len(t) /\ Agree(s, t, Len(s))
    BY <1>1, <1>2 DEF Agree
  <2>2. \A n \in 0..Len(s) : f[n] = g[n]
    BY <1>2, <1>3, <1>4, <2>1, SumsAgree
  <2> QED
    BY <2>2, <1>2
<1>6. g[Len(t)] = g[Len(s)] + x
  <2>1. Len(t) \in 1..Len(t) /\ Len(t) - 1 = Len(s)
    BY <1>1, <1>2
  <2> QED
    BY <1>1, <1>4, <2>1 DEF SumsTo
<1>7. Total(t) = g[Len(t)] /\ Total(s) = f[Len(s)]
  BY <1>1, <1>3, <1>4, TotalIs
<1>8. f[Len(s)] \in Int
  BY <1>2, <1>3
<1> QED
  BY <1>5, <1>6, <1>7, <1>8 DEF t

-----------------------------------------------------------------------------
USE LengthsAssumption DEF LengthsAssumption

(* The row that comes next, and its length, are numbers. *)
LEMMA SizeNat ==
  ASSUME TypeOK, RowsLeft
  PROVE  Size \in Nat /\ Row \in 1..Len(args)
<1>1. Len(args) \in Nat /\ next \in Nat
  BY LenProperties DEF TypeOK
<1>2. Row \in 1..Len(args)
  BY <1>1 DEF RowsLeft, Row
<1>3. args[Row] \in Lengths
  BY <1>2, ElementOfSeq DEF TypeOK
<1> QED
  BY <1>2, <1>3 DEF Size

(* There is a first row when args is not empty. *)
LEMMA FirstSize ==
  ASSUME TypeOK, args # << >>
  PROVE  args[1] \in Nat /\ 1 \in 1..Len(args)
<1>1. 1 \in 1..Len(args)
  BY EmptySeq DEF TypeOK
<1> QED
  BY <1>1, ElementOfSeq DEF TypeOK

(* What a statement adds to the rows that the server received. *)
LEMMA SendsRows ==
  ASSUME TypeOK, NEW values \in Seq(Nat), NEW length \in Nat,
         Sends(values, length)
  PROVE  /\ received' \in Seq(Nat)
         /\ Len(received') = Len(received) + Len(values)
         /\ \A i \in 1..Len(received) : received'[i] = received[i]
         /\ \A i \in 1..Len(values) : received'[Len(received) + i] = values[i]
         /\ last' \in [rows : Seq(Nat), size : Nat]
         /\ last'.rows = values /\ last'.size = length
<1>1. received \in Seq(Nat) /\ received' = received \o values
  BY DEF TypeOK, Sends
<1>2. /\ received' \in Seq(Nat)
      /\ Len(received') = Len(received) + Len(values)
      /\ \A i \in 1 .. Len(received) + Len(values) :
           received'[i] = IF i <= Len(received)
                            THEN received[i]
                            ELSE values[i - Len(received)]
  BY <1>1, ConcatProperties
<1>3. Len(received) \in Nat /\ Len(values) \in Nat
  BY <1>1, LenProperties
<1>4. ASSUME NEW i \in 1..Len(received) PROVE received'[i] = received[i]
  BY <1>2, <1>3
<1>5. ASSUME NEW i \in 1..Len(values) PROVE received'[Len(received) + i] = values[i]
  <2>1. /\ Len(received) + i \in 1..(Len(received) + Len(values))
        /\ ~(Len(received) + i <= Len(received))
        /\ (Len(received) + i) - Len(received) = i
    BY <1>3
  <2> QED
    BY <1>2, <2>1
<1> QED
  BY <1>2, <1>4, <1>5 DEF Sends

-----------------------------------------------------------------------------
(* Every variable starts in its set. *)
LEMMA TypeInit == Init => TypeOK
<1> SUFFICES ASSUME Init PROVE TypeOK
  OBVIOUS
<1>1. args \in Seq(Lengths)
  BY DEF Init, BoundedSeq, SeqOf
<1>2. next \in 0..Len(args)
  BY <1>1, LenProperties DEF Init
<1> QED
  BY <1>1, <1>2 DEF Init, TypeOK, NoStatement

(* Every step keeps every variable in its set. *)
LEMMA TypeStep == TypeOK /\ [Next]_vars => TypeOK'
<1> SUFFICES ASSUME TypeOK, [Next]_vars PROVE TypeOK'
  OBVIOUS
<1>a. sql \in Seq(Nat) /\ size \in Nat /\ size + Postfix \in Nat
  BY DEF TypeOK
<1>b. ASSUME RowsLeft
      PROVE  /\ <<Row>> \in Seq(Nat)
             /\ Append(sql, Row) \in Seq(Nat)
             /\ Prefix + Size \in Nat
             /\ Prefix + Size + Postfix \in Nat
             /\ size + 1 + Size \in Nat
  BY <1>b, <1>a, SizeNat
<1> USE DEF TypeOK, given, history
<1>1. CASE UNCHANGED vars
  BY <1>1 DEF vars
<1>2. CASE NoArgs
  BY <1>2 DEF NoArgs
<1>3. CASE NoFirstRow
  BY <1>3 DEF NoFirstRow, Raise
<1>4. CASE FirstRow
  BY <1>4, FirstSize DEF FirstRow
<1>5. CASE EachRow
  BY <1>5 DEF EachRow
<1>6. CASE MogrifyRaises
  BY <1>6 DEF MogrifyRaises, Raise
<1>7. CASE AddRow
  BY <1>7, <1>b, SizeNat DEF AddRow, Row
<1>8. CASE Flush
  BY <1>8, <1>a, <1>b, SizeNat, SendsRows DEF Flush, Returns
<1>9. CASE FlushRaises
  <2>1. received' \in Seq(Nat) /\ last' \in [rows : Seq(Nat), size : Nat]
    BY <1>9, <1>a, SendsRows DEF FlushRaises, ExecuteRaises
  <2> QED
    BY <1>9, <2>1 DEF FlushRaises, ExecuteRaises, Raise
<1>10. CASE FlushLast
  BY <1>10, <1>a, SendsRows DEF FlushLast
<1>11. CASE ExecuteRow
  <2>1. received' \in Seq(Nat) /\ last' \in [rows : Seq(Nat), size : Nat]
    BY <1>11, <1>b, SendsRows DEF ExecuteRow
  <2>2. rows' \in Int /\ rowcount' \in Int /\ counted' \in Seq(Int)
    BY <1>11 DEF ExecuteRow, Returns
  <2> QED
    BY <1>11, <1>b, <2>1, <2>2, SizeNat DEF ExecuteRow
<1>12. CASE ExecuteRowRaises
  <2>1. received' \in Seq(Nat) /\ last' \in [rows : Seq(Nat), size : Nat]
    BY <1>12, <1>b, SendsRows DEF ExecuteRowRaises, ExecuteRaises
  <2> QED
    BY <1>12, <2>1 DEF ExecuteRowRaises, ExecuteRaises, Raise
<1>13. CASE Sum
  BY <1>13 DEF Sum
<1> QED
  BY <1>1, <1>2, <1>3, <1>4, <1>5, <1>6, <1>7, <1>8, <1>9, <1>10, <1>11,
     <1>12, <1>13 DEF Next

(* The counts add up to integers and the row numbers to a sequence of      *)
(* them, whatever executemany() is given.                                  *)
THEOREM TypeCorrect == Spec => []TypeOK
  BY TypeInit, TypeStep, PTL DEF Spec

-----------------------------------------------------------------------------
(* A row added to a statement goes on where the statement ends. *)
LEMMA AppendsOn ==
  ASSUME NEW seq \in Seq(Nat), NEW base \in Nat,
         \A i \in DOMAIN seq : seq[i] = base + i
  PROVE  LET longer == Append(seq, base + Len(seq) + 1)
         IN /\ Len(longer) = Len(seq) + 1
            /\ longer # << >>
            /\ \A i \in DOMAIN longer : longer[i] = base + i
<1> DEFINE longer == Append(seq, base + Len(seq) + 1)
<1>1. Len(seq) \in Nat /\ DOMAIN seq = 1..Len(seq)
  BY LenProperties
<1>2. base + Len(seq) + 1 \in Nat
  BY <1>1
<1>3. /\ longer \in Seq(Nat) /\ longer # << >> /\ Len(longer) = Len(seq) + 1
      /\ \A i \in 1..Len(seq) : longer[i] = seq[i]
      /\ longer[Len(seq) + 1] = base + Len(seq) + 1
  BY <1>2, AppendProperties
<1>4. DOMAIN longer = 1..(Len(seq) + 1)
  BY <1>3, LenProperties
<1>5. ASSUME NEW i \in DOMAIN longer PROVE longer[i] = base + i
  <2>1. i \in 1..Len(seq) \/ i = Len(seq) + 1
    BY <1>1, <1>4
  <2>2. CASE i \in 1..Len(seq)
    BY <1>1, <1>3, <2>2
  <2>3. CASE i = Len(seq) + 1
    BY <1>1, <1>3, <2>3
  <2> QED
    BY <2>1, <2>2, <2>3
<1> QED
  BY <1>3, <1>5

(* A statement whose rows go on where the received ones end. *)
LEMMA SendsOn ==
  ASSUME TypeOK, NEW values \in Seq(Nat), NEW length \in Nat,
         Sends(values, length),
         \A i \in DOMAIN received : received[i] = i,
         \A i \in DOMAIN values : values[i] = Len(received) + i
  PROVE  /\ Len(received') = Len(received) + Len(values)
         /\ \A i \in DOMAIN received' : received'[i] = i
<1>1. /\ received' \in Seq(Nat)
      /\ Len(received') = Len(received) + Len(values)
      /\ \A i \in 1..Len(received) : received'[i] = received[i]
      /\ \A i \in 1..Len(values) : received'[Len(received) + i] = values[i]
  BY SendsRows
<1>2. /\ Len(received) \in Nat /\ DOMAIN received = 1..Len(received)
      /\ Len(values) \in Nat /\ DOMAIN values = 1..Len(values)
      /\ DOMAIN received' = 1..Len(received')
  BY <1>1, LenProperties DEF TypeOK
<1>3. ASSUME NEW i \in DOMAIN received' PROVE received'[i] = i
  <2>1. CASE i \in 1..Len(received)
    BY <1>1, <1>2, <2>1
  <2>2. CASE i \notin 1..Len(received)
    <3>1. PICK j \in 1..Len(values) : i = Len(received) + j
      <4>1. i - Len(received) \in 1..Len(values) /\ i = Len(received) + (i - Len(received))
        BY <1>1, <1>2, <2>2
      <4> QED
        BY <4>1
    <3>2. received'[Len(received) + j] = values[j]
      BY <1>1
    <3> QED
      BY <1>2, <3>1, <3>2
  <2> QED
    BY <2>1, <2>2
<1> QED
  BY <1>1, <1>3

(* Nothing is received, and nothing in the statement, at first. *)
LEMMA OrderInit == Init => OrderInv
<1> SUFFICES ASSUME Init PROVE OrderInv
  OBVIOUS
<1>1. Len(args) \in Nat
  BY TypeInit, LenProperties DEF TypeOK
<1> QED
  BY <1>1 DEF Init, OrderInv, Running

(* Every step keeps what was received, and what is in the statement after  *)
(* it, in the order of args.                                               *)
LEMMA OrderStep == TypeOK /\ OrderInv /\ [Next]_vars => OrderInv'
<1> SUFFICES ASSUME TypeOK, OrderInv, [Next]_vars PROVE OrderInv'
  OBVIOUS
<1>a. /\ Len(args) \in Nat /\ next \in 0..Len(args)
      /\ sql \in Seq(Nat) /\ received \in Seq(Nat)
      /\ size + Postfix \in Nat
      /\ Len(received) \in Nat /\ Len(sql) \in Nat
      /\ DOMAIN received = 1..Len(received) /\ DOMAIN sql = 1..Len(sql)
  BY LenProperties DEF TypeOK
<1>b. ASSUME RowsLeft
      PROVE  /\ <<Row>> \in Seq(Nat) /\ Prefix + Size + Postfix \in Nat
             /\ Len(<<Row>>) = 1 /\ DOMAIN <<Row>> = {1} /\ <<Row>>[1] = Row
  BY <1>b, SizeNat
<1>c. ASSUME Running, bulk, Sends(sql, size + Postfix)
      PROVE  /\ Len(received') = Len(received) + Len(sql)
             /\ \A i \in DOMAIN received' : received'[i] = i
  BY <1>a, <1>c, SendsOn DEF OrderInv
<1>d. ASSUME Running, ~bulk, RowsLeft, Sends(<<Row>>, Prefix + Size + Postfix)
      PROVE  /\ Len(received') = Len(received) + 1
             /\ \A i \in DOMAIN received' : received'[i] = i
  <2>1. \A i \in DOMAIN <<Row>> : <<Row>>[i] = Len(received) + i
    BY <1>d, <1>a, <1>b DEF OrderInv, Row
  <2>2. \A i \in DOMAIN received : received[i] = i
    BY DEF OrderInv
  <2> QED
    BY <1>d, <1>b, <2>1, <2>2, SendsOn
<1> USE DEF OrderInv, Running, given, history
<1>1. CASE UNCHANGED vars
  BY <1>1 DEF vars
<1>2. CASE NoArgs
  BY <1>2 DEF NoArgs
<1>3. CASE NoFirstRow
  BY <1>3 DEF NoFirstRow, Raise
<1>4. CASE FirstRow
  BY <1>4, <1>a DEF FirstRow
<1>5. CASE EachRow
  BY <1>5, <1>a DEF EachRow
<1>6. CASE MogrifyRaises
  BY <1>6 DEF MogrifyRaises, Raise
<1>7. CASE AddRow
  <2>1. /\ \A i \in DOMAIN sql : sql[i] = Len(received) + i
        /\ next = Len(received) + Len(sql)
    BY <1>7 DEF AddRow
  <2>2. /\ sql' = Append(sql, Len(received) + Len(sql) + 1) /\ next' = next + 1
        /\ UNCHANGED <<args, bulk, outcome, received>> /\ Running /\ bulk
    BY <1>7, <2>1 DEF AddRow, Row
  <2>3. /\ Len(sql') = Len(sql) + 1 /\ sql' # << >>
        /\ \A i \in DOMAIN sql' : sql'[i] = Len(received) + i
    <3>1. /\ Len(received) \in Nat /\ sql \in Seq(Nat)
          /\ \A i \in DOMAIN sql : sql[i] = Len(received) + i
      BY <1>a, <2>1
    <3> HIDE DEF OrderInv, Running
    <3> DEFINE longer == Append(sql, Len(received) + Len(sql) + 1)
    <3>2. /\ Len(longer) = Len(sql) + 1 /\ longer # << >>
          /\ \A i \in DOMAIN longer : longer[i] = Len(received) + i
      BY ONLY <3>1, AppendsOn, Zenon
    <3> QED
      BY <2>2, <3>2
  <2> QED
    BY <1>a, <2>1, <2>2, <2>3
<1>8. CASE Flush
  <2>1. /\ sql' = <<next + 1>> /\ next' = next + 1 /\ UNCHANGED <<args, bulk, outcome>>
        /\ next < Len(args) /\ Running /\ bulk
    BY <1>8 DEF Flush, RowsLeft, Row
  <2>2. Len(received') = next /\ \A i \in DOMAIN received' : received'[i] = i
    BY <1>8, <1>a, <1>c DEF Flush
  <2> QED
    BY <1>a, <2>1, <2>2
<1>9. CASE FlushRaises
  <2>1. outcome' = "raised" /\ UNCHANGED args /\ Running /\ bulk
    BY <1>9 DEF FlushRaises, ExecuteRaises, Raise
  <2>2. \/ UNCHANGED received
        \/ Len(received') = next /\ \A i \in DOMAIN received' : received'[i] = i
    BY <1>9, <1>a, <1>c DEF FlushRaises, ExecuteRaises
  <2>3. Len(received') <= Len(args) /\ \A i \in DOMAIN received' : received'[i] = i
    <3>1. CASE received' = received
      BY <3>1
    <3>2. CASE received' # received
      BY <1>a, <2>1, <2>2, <3>2
    <3> QED
      BY <3>1, <3>2
  <2> QED
    BY <2>1, <2>3
<1>10. CASE FlushLast
  <2>1. /\ outcome' = "returned" /\ UNCHANGED args /\ next = Len(args)
        /\ Running /\ bulk
    BY <1>10, <1>a DEF FlushLast, RowsLeft
  <2>2. Len(received') = next /\ \A i \in DOMAIN received' : received'[i] = i
    BY <1>10, <1>a, <1>c DEF FlushLast
  <2> QED
    BY <1>a, <2>1, <2>2
<1>11. CASE ExecuteRow
  <2>1. /\ next' = next + 1 /\ UNCHANGED <<args, bulk, outcome>>
        /\ next < Len(args) /\ Running /\ ~bulk
    BY <1>11 DEF ExecuteRow, RowsLeft, Row
  <2>2. Len(received') = next + 1 /\ \A i \in DOMAIN received' : received'[i] = i
    BY <1>11, <1>a, <1>d DEF ExecuteRow
  <2> QED
    BY <1>a, <2>1, <2>2
<1>12. CASE ExecuteRowRaises
  <2>1. /\ outcome' = "raised" /\ UNCHANGED args
        /\ next < Len(args) /\ Running /\ ~bulk
    BY <1>12 DEF ExecuteRowRaises, ExecuteRaises, Raise, RowsLeft
  <2>2. \/ UNCHANGED received
        \/ Len(received') = next + 1 /\ \A i \in DOMAIN received' : received'[i] = i
    BY <1>12, <1>a, <1>d DEF ExecuteRowRaises, ExecuteRaises
  <2>3. Len(received') <= Len(args) /\ \A i \in DOMAIN received' : received'[i] = i
    <3>1. CASE received' = received
      BY <3>1
    <3>2. CASE received' # received
      BY <1>a, <2>1, <2>2, <3>2
    <3> QED
      BY <3>1, <3>2
  <2> QED
    BY <2>1, <2>3
<1>13. CASE Sum
  BY <1>13, <1>a DEF Sum, RowsLeft
<1> QED
  BY <1>1, <1>2, <1>3, <1>4, <1>5, <1>6, <1>7, <1>8, <1>9, <1>10, <1>11,
     <1>12, <1>13 DEF Next

(* The server gets an initial run of the rows, in their order and each     *)
(* once, and all of them when executemany() returns.                       *)
THEOREM InOrder == Spec => []EachRowOnce
<1>1. OrderInv => EachRowOnce
  BY DEF OrderInv, EachRowOnce
<1> QED
  BY <1>1, TypeInit, TypeStep, OrderInit, OrderStep, PTL DEF Spec

-----------------------------------------------------------------------------
(* No statement is there at first. *)
LEMMA FitInit == Init => FitInv
  BY DEF Init, FitInv, Running, StatementsBounded, StatementsFull, NoStatement

(* Every step that adds a row to a statement, or sends one, keeps it as    *)
(* long as it may be and no shorter than it could be.                      *)
LEMMA FitStep == TypeOK /\ OrderInv /\ FitInv /\ [Next]_vars => FitInv'
<1> SUFFICES ASSUME TypeOK, OrderInv, FitInv, [Next]_vars PROVE FitInv'
  OBVIOUS
<1>a. /\ sql \in Seq(Nat) /\ size \in Nat /\ size + Postfix \in Nat
      /\ Len(args) \in Nat /\ Len(sql) \in Nat /\ next \in Nat
      /\ Len(received) \in Nat /\ DOMAIN sql = 1..Len(sql)
  BY LenProperties DEF TypeOK
<1>b. ASSUME RowsLeft
      PROVE  Size \in Nat /\ <<Row>> \in Seq(Nat) /\ Prefix + Size + Postfix \in Nat
  BY <1>b, SizeNat
<1>c. ASSUME UNCHANGED <<given, history>>
      PROVE  StatementsBounded' /\ StatementsFull'
  BY <1>c DEF FitInv, StatementsBounded, StatementsFull, given, history
<1>d. ASSUME Running, bulk PROVE Last(sql) = next
  <2>1. Len(sql) \in 1..Len(sql)
    BY <1>d, <1>a, EmptySeq DEF OrderInv
  <2> QED
    BY <1>d, <1>a, <2>1 DEF OrderInv, Last
<1>e. ASSUME Running, bulk, Sends(sql, size + Postfix), UNCHANGED given,
             RowsLeft => Full
      PROVE  StatementsBounded' /\ StatementsFull'
  <2>1. last'.rows = sql /\ last'.size = size + Postfix
    BY <1>e, <1>a, SendsRows
  <2>2. StatementsBounded'
    BY <1>e, <2>1 DEF FitInv, StatementsBounded, given
  <2>3. ASSUME next < Len(args) PROVE size + Postfix + 1 + args[next + 1] > MaxLength
    BY <2>3, <1>a, <1>b, <1>e DEF Full, RowsLeft, Size, Row
  <2>4. StatementsFull'
    BY <1>e, <2>1, <1>d, <2>3 DEF StatementsFull, given
  <2> QED
    BY <2>2, <2>4
<1>f. ASSUME ~bulk, UNCHANGED given
      PROVE  StatementsBounded' /\ StatementsFull'
  BY <1>f DEF StatementsBounded, StatementsFull, given
<1> USE DEF FitInv, Running
<1>1. CASE UNCHANGED vars
  BY <1>1 DEF vars, StatementsBounded, StatementsFull
<1>2. CASE NoArgs
  BY <1>2, <1>c DEF NoArgs
<1>3. CASE NoFirstRow
  BY <1>3, <1>c DEF NoFirstRow, Raise
<1>4. CASE FirstRow
  BY <1>4, <1>c DEF FirstRow
<1>5. CASE EachRow
  BY <1>5, <1>c DEF EachRow, given
<1>6. CASE MogrifyRaises
  BY <1>6, <1>c DEF MogrifyRaises, Raise
<1>7. CASE AddRow
  <2>1. StatementsBounded' /\ StatementsFull'
    BY <1>7, <1>c DEF AddRow
  <2>2. size' + Postfix <= MaxLength
    <3>1. /\ Size \in Nat /\ size' = size + 1 + Size
          /\ ~(size + Size + Postfix + 1 > MaxLength)
      BY <1>7, <1>b DEF AddRow, Full
    <3> QED
      BY <3>1, <1>a
  <2> QED
    BY <2>1, <2>2
<1>8. CASE Flush
  BY <1>8, <1>e DEF Flush
<1>9. CASE FlushRaises
  <2>1. UNCHANGED given /\ outcome' = "raised"
    BY <1>9 DEF FlushRaises, ExecuteRaises, Raise
  <2>2. CASE Sends(sql, size + Postfix)
    BY <1>9, <1>e, <2>1, <2>2 DEF FlushRaises
  <2>3. CASE UNCHANGED <<received, last>>
    BY <1>9, <1>c, <2>1, <2>3 DEF FlushRaises, ExecuteRaises, history
  <2> QED
    BY <1>9, <2>2, <2>3 DEF FlushRaises, ExecuteRaises
<1>10. CASE FlushLast
  BY <1>10, <1>e DEF FlushLast
<1>11. CASE ExecuteRow
  BY <1>11, <1>f DEF ExecuteRow, given
<1>12. CASE ExecuteRowRaises
  BY <1>12, <1>f DEF ExecuteRowRaises, ExecuteRaises, Raise, given
<1>13. CASE Sum
  BY <1>13, <1>c DEF Sum
<1> QED
  BY <1>1, <1>2, <1>3, <1>4, <1>5, <1>6, <1>7, <1>8, <1>9, <1>10, <1>11,
     <1>12, <1>13 DEF Next

(* A bulk statement of more than one row is not longer than                *)
(* max_stmt_length, whatever the lengths of the rows.                      *)
THEOREM Bounded == Spec => []StatementsBounded
<1>1. FitInv => StatementsBounded
  BY DEF FitInv
<1> QED
  BY <1>1, TypeInit, TypeStep, OrderInit, OrderStep, FitInit, FitStep, PTL DEF Spec

(* A bulk statement is sent only when the next row would not fit.          *)
THEOREM Filled == Spec => []StatementsFull
<1>1. FitInv => StatementsFull
  BY DEF FitInv
<1> QED
  BY <1>1, TypeInit, TypeStep, OrderInit, OrderStep, FitInit, FitStep, PTL DEF Spec

-----------------------------------------------------------------------------
(* The length of a row is a number. *)
LEMMA RowLength ==
  ASSUME TypeOK, NEW row \in 1..Len(args)
  PROVE  args[row] \in Int
<1>1. args[row] \in Lengths
  BY ElementOfSeq DEF TypeOK
<1>2. args[row] \in Nat
  BY <1>1
<1> QED
  BY <1>2

(* What the text of a statement is made of are numbers. *)
LEMMA AtNumbers ==
  ASSUME TypeOK, NEW values \in Seq(1..Len(args))
  PROVE  At(args, values) \in Seq(Int) /\ Len(At(args, values)) = Len(values)
<1>1. Len(values) \in Nat
  BY LenProperties
<1>2. ASSUME NEW i \in 1..Len(values) PROVE args[values[i]] \in Int
  <2>1. values[i] \in 1..Len(args)
    BY ElementOfSeq
  <2> QED
    BY <2>1, RowLength
<1>3. At(args, values) \in [1..Len(values) -> Int]
  BY <1>2 DEF At
<1> QED
  BY <1>1, <1>3

(* A row more makes a statement longer by a separator and its values. *)
LEMMA TextAppend ==
  ASSUME TypeOK, NEW values \in Seq(1..Len(args)), NEW row \in 1..Len(args)
  PROVE  /\ Text(values) \in Int
         /\ Text(Append(values, row)) = Text(values) + 1 + args[row]
<1> DEFINE more == Append(values, row)
<1>1. /\ more \in Seq(1..Len(args)) /\ Len(more) = Len(values) + 1
      /\ more[Len(values) + 1] = row
      /\ \A i \in 1..Len(values) : more[i] = values[i]
  BY AppendProperties
<1>2. Len(values) \in Nat
  BY LenProperties
<1>3. args[row] \in Int
  BY RowLength
<1>4. /\ At(args, values) \in Seq(Int) /\ Len(At(args, values)) = Len(values)
      /\ \A i \in 1..Len(values) : At(args, values)[i] = args[values[i]]
  BY AtNumbers DEF At
<1> HIDE DEF more
<1>5. At(args, more) = Append(At(args, values), args[row])
  <2> DEFINE longer == Append(At(args, values), args[row])
  <2>1. /\ longer \in Seq(Int) /\ Len(longer) = Len(values) + 1
        /\ longer[Len(values) + 1] = args[row]
        /\ \A i \in 1..Len(values) : longer[i] = args[values[i]]
    BY <1>3, <1>4, AppendProperties
  <2>2. /\ At(args, more) \in Seq(Int) /\ Len(At(args, more)) = Len(values) + 1
        /\ \A i \in 1..(Len(values) + 1) : At(args, more)[i] = args[more[i]]
    BY <1>1, AtNumbers DEF At
  <2> HIDE DEF longer
  <2>3. ASSUME NEW i \in 1..(Len(values) + 1) PROVE At(args, more)[i] = longer[i]
    <3>1. CASE i = Len(values) + 1
      BY <1>1, <1>2, <2>1, <2>2, <3>1
    <3>2. CASE i \in 1..Len(values)
      <4>1. /\ longer[i] = args[values[i]] /\ more[i] = values[i]
            /\ At(args, more)[i] = args[more[i]]
        BY <1>1, <2>1, <2>2, <3>2
      <4> QED
        BY <4>1
    <3> QED
      BY <1>2, <3>1, <3>2
  <2>4. At(args, more) = longer
    BY <2>1, <2>2, <2>3, SeqEqual
  <2> QED
    BY <2>4 DEF longer
<1>6. /\ Total(At(args, more)) = Total(At(args, values)) + args[row]
      /\ Total(At(args, values)) \in Int
  BY <1>3, <1>4, <1>5, TotalAppend
<1>7. /\ Text(more) = Prefix + (Total(At(args, values)) + args[row]) + (Len(values) + 1) - 1 + Postfix
      /\ Text(values) = Prefix + Total(At(args, values)) + Len(values) - 1 + Postfix
  BY <1>1, <1>6 DEF Text
<1> QED
  BY <1>2, <1>3, <1>6, <1>7 DEF more

(* A statement of one row. *)
LEMMA TextOne ==
  ASSUME TypeOK, NEW row \in 1..Len(args)
  PROVE  Text(<<row>>) = Prefix + args[row] + Postfix
<1>1. << >> \in Seq(1..Len(args)) /\ <<row>> = Append(<< >>, row)
  OBVIOUS
<1>2. args[row] \in Int
  BY RowLength
<1>3. Text(<< >>) = Prefix + Postfix - 1
  <2>1. At(args, << >>) \in Seq(Int) /\ Len(At(args, << >>)) = 0
    BY <1>1, AtNumbers
  <2>2. At(args, << >>) = << >>
    BY <2>1, EmptySeq
  <2> QED
    BY <2>2, TotalEmpty DEF Text
<1>4. Text(Append(<< >>, row)) = Text(<< >>) + 1 + args[row]
  BY <1>1, TextAppend
<1>5. Text(<<row>>) = Text(<< >>) + 1 + args[row]
  BY <1>1, <1>4
<1> QED
  BY <1>2, <1>3, <1>5

(* There is no text at first. *)
LEMMA TextInit == Init => TextInv
  BY DEF Init, TextInv, Running

(* Every step that adds a row to a statement keeps size its length, and    *)
(* every step that sends one adds the postfix.                             *)
LEMMA TextStep == TypeOK /\ OrderInv /\ TextInv /\ [Next]_vars => TextInv'
<1> SUFFICES ASSUME TypeOK, OrderInv, TextInv, [Next]_vars PROVE TextInv'
  OBVIOUS
<1>a. UNCHANGED args
  BY DEF Next, vars, given, NoArgs, NoFirstRow, FirstRow, EachRow,
     MogrifyRaises, AddRow, Flush, FlushRaises, FlushLast, ExecuteRow,
     ExecuteRowRaises, Sum, Raise, ExecuteRaises
<1>b. /\ sql \in Seq(Nat) /\ size \in Nat /\ next \in Nat /\ Len(sql) \in Nat
      /\ Len(args) \in Nat /\ next <= Len(args) /\ Len(received) \in Nat
      /\ DOMAIN sql = 1..Len(sql) /\ size + Postfix \in Nat
  BY LenProperties DEF TypeOK
<1>c. ASSUME Running, bulk PROVE sql \in Seq(1..Len(args))
  <2>1. ASSUME NEW i \in 1..Len(sql) PROVE sql[i] \in 1..Len(args)
    BY <1>b, <1>c DEF OrderInv
  <2>2. sql \in [1..Len(sql) -> 1..Len(args)]
    BY <1>b, <2>1
  <2> QED
    BY <1>b, <2>2
<1>d. ASSUME RowsLeft
      PROVE  /\ Row \in 1..Len(args) /\ Size = args[Row] /\ Size \in Nat
             /\ <<Row>> \in Seq(Nat) /\ Prefix + Size + Postfix \in Nat
             /\ Text(<<Row>>) = Prefix + Size + Postfix
  BY <1>d, SizeNat, TextOne DEF Size
<1>e. /\ (Running /\ bulk => size + Postfix = Text(sql))'
        <=> ((Running /\ bulk)' => size' + Postfix = Prefix + Total(At(args, sql')) + Len(sql') - 1 + Postfix)
      /\ (last # NoStatement => last.size = Text(last.rows))'
        <=> (last' # NoStatement =>
               last'.size = Prefix + Total(At(args, last'.rows)) + Len(last'.rows) - 1 + Postfix)
  BY <1>a DEF Text, NoStatement
<1>f. (UNCHANGED last) => (last # NoStatement => last.size = Text(last.rows))'
  BY <1>e DEF TextInv, Text
<1>g. ASSUME NEW values \in Seq(Nat), NEW length \in Nat, Sends(values, length),
             length = Text(values)
      PROVE  (last # NoStatement => last.size = Text(last.rows))'
  <2>1. last'.rows = values /\ last'.size = length
    BY <1>g, SendsRows
  <2> QED
    BY <1>e, <1>g, <2>1 DEF Text
<1>h. (outcome' # "running" \/ ~bulk') => (Running /\ bulk => size + Postfix = Text(sql))'
  BY DEF Running
<1>i. ASSUME (Running /\ bulk => size + Postfix = Text(sql))',
             (last # NoStatement => last.size = Text(last.rows))'
      PROVE  TextInv'
  BY <1>i DEF TextInv
<1>1. CASE UNCHANGED vars
  BY <1>1, <1>e, <1>f, <1>i DEF vars, TextInv, Running, Text
<1>2. CASE NoArgs
  BY <1>2, <1>f, <1>h, <1>i DEF NoArgs, history
<1>3. CASE NoFirstRow
  BY <1>3, <1>f, <1>h, <1>i DEF NoFirstRow, Raise, history
<1>4. CASE FirstRow
  <2>1. /\ sql' = <<1>> /\ size' = Prefix + args[1] /\ UNCHANGED last
        /\ args # << >>
    BY <1>4 DEF FirstRow, history
  <2>2. Text(<<1>>) = Prefix + args[1] + Postfix /\ args[1] \in Nat
    BY <2>1, FirstSize, TextOne
  <2>3. size' + Postfix = Prefix + Total(At(args, sql')) + Len(sql') - 1 + Postfix
    BY <2>1, <2>2 DEF Text
  <2> QED
    BY <1>e, <1>f, <1>i, <2>1, <2>3
<1>5. CASE EachRow
  BY <1>5, <1>f, <1>h, <1>i DEF EachRow, given, history
<1>6. CASE MogrifyRaises
  BY <1>6, <1>f, <1>h, <1>i DEF MogrifyRaises, Raise, history
<1>7. CASE AddRow
  <2>1. /\ sql' = Append(sql, Row) /\ size' = size + 1 + Size /\ UNCHANGED last
        /\ RowsLeft /\ Running /\ bulk
    BY <1>7 DEF AddRow, history
  <2>2. Text(Append(sql, Row)) = Text(sql) + 1 + Size /\ Text(sql) = size + Postfix
    BY <2>1, <1>c, <1>d, TextAppend DEF TextInv
  <2>3. size' + Postfix = Text(Append(sql, Row))
    BY <1>b, <1>d, <2>1, <2>2
  <2>4. size' + Postfix = Prefix + Total(At(args, sql')) + Len(sql') - 1 + Postfix
    BY <2>1, <2>3 DEF Text
  <2> QED
    BY <1>e, <1>f, <1>i, <2>1, <2>4
<1>8. CASE Flush
  <2>1. /\ sql' = <<Row>> /\ size' = Prefix + Size /\ Sends(sql, size + Postfix)
        /\ RowsLeft /\ Running /\ bulk
    BY <1>8 DEF Flush
  <2>2. size' + Postfix = Prefix + Total(At(args, sql')) + Len(sql') - 1 + Postfix
    BY <1>d, <2>1 DEF Text
  <2> QED
    BY <1>b, <1>e, <1>g, <1>i, <2>1, <2>2 DEF TextInv
<1>9. CASE FlushRaises
  <2>1. /\ outcome' = "raised" /\ Running /\ bulk
        /\ Sends(sql, size + Postfix) \/ UNCHANGED last
    BY <1>9 DEF FlushRaises, ExecuteRaises, Raise
  <2> QED
    BY <1>b, <1>f, <1>g, <1>h, <1>i, <2>1 DEF TextInv
<1>10. CASE FlushLast
  <2>1. /\ outcome' = "returned" /\ Running /\ bulk /\ Sends(sql, size + Postfix)
    BY <1>10 DEF FlushLast
  <2> QED
    BY <1>b, <1>g, <1>h, <1>i, <2>1 DEF TextInv
<1>11. CASE ExecuteRow
  <2>1. /\ Sends(<<Row>>, Prefix + Size + Postfix) /\ RowsLeft /\ ~bulk'
    BY <1>11 DEF ExecuteRow, given
  <2> QED
    BY <1>d, <1>g, <1>h, <1>i, <2>1
<1>12. CASE ExecuteRowRaises
  <2>1. /\ outcome' = "raised" /\ RowsLeft
        /\ Sends(<<Row>>, Prefix + Size + Postfix) \/ UNCHANGED last
    BY <1>12 DEF ExecuteRowRaises, ExecuteRaises, Raise
  <2> QED
    BY <1>d, <1>f, <1>g, <1>h, <1>i, <2>1
<1>13. CASE Sum
  BY <1>13, <1>f, <1>h, <1>i DEF Sum, history
<1> QED
  BY <1>1, <1>2, <1>3, <1>4, <1>5, <1>6, <1>7, <1>8, <1>9, <1>10, <1>11,
     <1>12, <1>13 DEF Next

(* The size that executemany() computes while it joins the values is the   *)
(* length of the statement it sends: the sum of its prefix, its values,    *)
(* their separators and its postfix, and bounded as above.                 *)
THEOREM Fits == Spec => []StatementsFit
<1>1. FitInv /\ TextInv => StatementsFit
  BY DEF FitInv, TextInv, StatementsFit
<1> QED
  BY <1>1, TypeInit, TypeStep, OrderInit, OrderStep, FitInit, FitStep,
     TextInit, TextStep, PTL DEF Spec

-----------------------------------------------------------------------------
(* Nothing is counted at first. *)
LEMMA CountInit == Init => CountInv
  BY TotalEmpty DEF Init, CountInv, RowcountOfAll

(* Every statement that returns adds its count to rows. *)
LEMMA CountStep == TypeOK /\ CountInv /\ [Next]_vars => CountInv'
<1> SUFFICES ASSUME TypeOK, CountInv, [Next]_vars PROVE CountInv'
  OBVIOUS
<1>a. counted \in Seq(Int) /\ rows = Total(counted)
  BY DEF TypeOK, CountInv
<1>b. ASSUME UNCHANGED <<rows, counted>>, outcome' # "returned"
      PROVE  CountInv'
  BY <1>a, <1>b DEF CountInv, RowcountOfAll
<1>c. ASSUME NEW n \in Counts PROVE Total(Append(counted, n)) = rows + n
  BY <1>a, TotalAppend
<1>1. CASE UNCHANGED vars
  BY <1>1 DEF vars, CountInv, RowcountOfAll
<1>2. CASE NoArgs
  BY <1>2, <1>a DEF NoArgs, CountInv, RowcountOfAll, given, history
<1>3. CASE NoFirstRow
  BY <1>3, <1>b DEF NoFirstRow, Raise, history
<1>4. CASE FirstRow
  BY <1>4, <1>b DEF FirstRow, history
<1>5. CASE EachRow
  BY <1>5, <1>b DEF EachRow, history
<1>6. CASE MogrifyRaises
  BY <1>6, <1>b DEF MogrifyRaises, Raise, history
<1>7. CASE AddRow
  BY <1>7, <1>b DEF AddRow, Running, history
<1>8. CASE Flush
  BY <1>8, <1>a, <1>c DEF Flush, Returns, Running, CountInv, RowcountOfAll
<1>9. CASE FlushRaises
  BY <1>9, <1>b DEF FlushRaises, ExecuteRaises, Raise
<1>10. CASE FlushLast
  BY <1>10, <1>a, <1>c DEF FlushLast, CountInv, RowcountOfAll
<1>11. CASE ExecuteRow
  BY <1>11, <1>a, <1>c DEF ExecuteRow, Returns, Running, CountInv, RowcountOfAll
<1>12. CASE ExecuteRowRaises
  BY <1>12, <1>b DEF ExecuteRowRaises, ExecuteRaises, Raise
<1>13. CASE Sum
  BY <1>13, <1>a DEF Sum, CountInv, RowcountOfAll, history
<1> QED
  BY <1>1, <1>2, <1>3, <1>4, <1>5, <1>6, <1>7, <1>8, <1>9, <1>10, <1>11,
     <1>12, <1>13 DEF Next

(* The rowcount that executemany() leaves is the total over all its        *)
(* statements, although every execute() overwrites it with its own.        *)
THEOREM CountsAll == Spec => []RowcountOfAll
<1>1. CountInv => RowcountOfAll
  BY DEF CountInv
<1> QED
  BY <1>1, TypeInit, TypeStep, CountInit, CountStep, PTL DEF Spec
=============================================================================
