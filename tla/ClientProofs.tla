----------------------------- MODULE ClientProofs -----------------------------
(***************************************************************************)
(* What the functions of the client library do to a session, one lemma a   *)
(* function: that it stays a session, and what its callers rely on.        *)
(***************************************************************************)
EXTENDS MySQLClient, SequenceTheorems, TLAPS

(* What a session always is: its position is within the answer, nothing    *)
(* comes after an error or over a closed link, and there is nothing to     *)
(* read before the first statement.                                        *)
SessionOK(s) ==
  /\ s \in Sessions
  /\ s.at \in 1..Len(s.sets)
  /\ s.read <= CurrentSet(s).n
  /\ s.stmt = 0 => Len(s.sets) = 1 /\ ~s.fields
  /\ s.link = "closed" => s.status = "ready"
  /\ \A k \in 1..Len(s.sets) : s.sets[k].kind = "error" => k = Len(s.sets)

(* Two sessions that are at the same place of the same answer.             *)
SamePlace(s, t) ==
  /\ t.stmt = s.stmt /\ t.at = s.at
  /\ CurrentSet(t).n = CurrentSet(s).n
  /\ t.cut = s.cut

(* What t still has to come, s had.                                        *)
NoMoreThan(s, t) == MoreResults(t) /\ t.link = "up" => MoreResults(s) /\ s.link = "up"

(* The session has just read a header without an error.                    *)
Announced(t) ==
  /\ t.err.code = "none"
  /\ t.fields <=> t.status = "get_result"
  /\ t.status # "use_result"
  /\ t.read = 0
  /\ t.stmt > 0

(* The session has an error that has just come up.                         *)
JustFailed(t, codes) == t.err.code \in codes /\ t.err.fresh

USE DEF SetError, NoError

(* The result set that a session is at.                                    *)
LEMMA CurrentIs ==
  ASSUME NEW s, SessionOK(s)
  PROVE  CurrentSet(s) \in ResultSets /\ CurrentSet(s).n \in Nat
<1>1. s.sets \in Seq(ResultSets) /\ s.at \in 1..Len(s.sets)
  BY DEF SessionOK, Sessions
<1>2. CurrentSet(s) \in ResultSets
  BY <1>1, ElementOfSeq DEF CurrentSet
<1> QED
  BY <1>2 DEF ResultSets

(* A session stays one when it stays at its place of the answer.           *)
LEMMA SameAnswer ==
  ASSUME NEW s, SessionOK(s), NEW t \in Sessions,
         t.sets = s.sets, t.at = s.at, t.stmt = s.stmt,
         t.read \in 0..CurrentSet(s).n, t.stmt = 0 => ~t.fields,
         t.link = "closed" => t.status = "ready"
  PROVE  /\ SessionOK(t)
         /\ CurrentSet(t) = CurrentSet(s)
         /\ MoreResults(t) <=> MoreResults(s)
  BY CurrentIs DEF SessionOK, CurrentSet, MoreResults

(* The session of a new connection.                                        *)
LEMMA ConnectedIs == SessionOK(Connected)
<1>1. <<OkSet>> \in Seq(ResultSets)
  BY DEF OkSet, ResultSets
<1> QED
  BY <1>1 DEF Connected, SessionOK, Sessions, CurrentSet, OkSet

(* An error ages; nothing else changes.                                    *)
LEMMA StaleIs ==
  ASSUME NEW s, SessionOK(s)
  PROVE  LET t == Stale(s)
         IN /\ SessionOK(t) /\ SamePlace(s, t) /\ NoMoreThan(s, t)
            /\ t.status = s.status /\ t.fields = s.fields /\ t.read = s.read
            /\ t.err.code = s.err.code /\ ~t.err.fresh
  BY DEF Stale, SessionOK, Sessions, CurrentSet, SamePlace, NoMoreThan, MoreResults

(* A command that comes at the wrong time changes the error only.          *)
LEMMA OutOfSyncIs ==
  ASSUME NEW s, SessionOK(s)
  PROVE  LET t == OutOfSync(s)
         IN /\ SessionOK(t) /\ SamePlace(s, t) /\ NoMoreThan(s, t)
            /\ t.status = s.status /\ t.fields = s.fields /\ t.read = s.read
            /\ JustFailed(t, {"sync"})
  BY DEF OutOfSync, SessionOK, Sessions, CurrentSet, SamePlace, NoMoreThan,
    MoreResults, JustFailed

(* A link that is found broken ends whatever was being read.               *)
LEMMA LostIs ==
  ASSUME NEW s, SessionOK(s)
  PROVE  LET t == Lost(s)
         IN /\ SessionOK(t) /\ SamePlace(s, t) /\ NoMoreThan(s, t)
            /\ t.status = "ready" /\ ~t.fields /\ t.read = s.read
            /\ JustFailed(t, {"lost"})
  BY DEF Lost, SessionOK, Sessions, CurrentSet, SamePlace, NoMoreThan,
    MoreResults, JustFailed

(* The header of the result set that a session has come to.                *)
LEMMA ReadHeaderIs ==
  ASSUME NEW s, SessionOK(s), s.status = "ready", s.link = "up", s.stmt > 0
  PROVE  LET t == ReadHeader(s)
         IN /\ SessionOK(t) /\ SamePlace(s, t) /\ NoMoreThan(s, t)
            /\ t.link = s.link /\ t.status # "use_result" /\ t.read = 0
            /\ \/ Announced(t)
               \/ JustFailed(t, {"server"}) /\ ~MoreResults(t) /\ t.status = "ready"
<1>0. s \in Sessions /\ s.stmt > 0
  BY DEF SessionOK
<1>1. CurrentSet(s) \in ResultSets
  BY CurrentIs
<1>5. PICK t : t = ReadHeader(s)
  OBVIOUS
<1>2. CASE CurrentSet(s).kind = "ok"
  <2>1. t = [s EXCEPT !.read = 0, !.err = NoError, !.fields = FALSE]
    BY <1>2, <1>5 DEF ReadHeader
  <2>2. /\ t \in Sessions /\ t.sets = s.sets /\ t.at = s.at /\ t.stmt = s.stmt
        /\ t.read = 0 /\ t.link = s.link /\ t.cut = s.cut /\ t.err.code = "none"
        /\ t.status # "use_result" /\ (t.fields <=> t.status = "get_result")
    BY <1>0, <2>1 DEF Sessions
  <2>3. SessionOK(t) /\ CurrentSet(t) = CurrentSet(s) /\ (MoreResults(t) <=> MoreResults(s))
    BY <1>1, <2>2, SameAnswer DEF ResultSets
  <2> QED
    BY <1>5, <2>2, <2>3 DEF SamePlace, NoMoreThan, Announced
<1>3. CASE CurrentSet(s).kind = "error"
  <2>1. t = [s EXCEPT !.read = 0, !.err = SetError("server")]
    BY <1>3, <1>5 DEF ReadHeader
  <2>2. s.at = Len(s.sets)
    BY <1>3 DEF SessionOK, CurrentSet
  <2>3. /\ t \in Sessions /\ t.sets = s.sets /\ t.at = s.at /\ t.stmt = s.stmt
        /\ t.read = 0 /\ t.link = s.link /\ t.cut = s.cut
        /\ t.err = SetError("server") /\ t.status = "ready"
    BY <1>0, <2>1 DEF Sessions
  <2>4. SessionOK(t) /\ CurrentSet(t) = CurrentSet(s) /\ (MoreResults(t) <=> MoreResults(s))
    BY <1>1, <2>3, SameAnswer DEF ResultSets
  <2>5. ~MoreResults(t)
    BY <2>2, <2>3, <2>4 DEF MoreResults, SessionOK
  <2> QED
    BY <1>5, <2>3, <2>4, <2>5 DEF SamePlace, NoMoreThan, JustFailed
<1>4. CASE CurrentSet(s).kind = "rows"
  <2>1. t = [s EXCEPT !.read = 0, !.err = NoError, !.fields = TRUE, !.status = "get_result"]
    BY <1>4, <1>5 DEF ReadHeader
  <2>2. /\ t \in Sessions /\ t.sets = s.sets /\ t.at = s.at /\ t.stmt = s.stmt
        /\ t.read = 0 /\ t.link = s.link /\ t.cut = s.cut /\ t.err.code = "none"
        /\ t.status # "use_result" /\ (t.fields <=> t.status = "get_result")
    BY <1>0, <2>1 DEF Sessions
  <2>3. SessionOK(t) /\ CurrentSet(t) = CurrentSet(s) /\ (MoreResults(t) <=> MoreResults(s))
    BY <1>1, <2>2, SameAnswer DEF ResultSets
  <2> QED
    BY <1>5, <2>2, <2>3 DEF SamePlace, NoMoreThan, Announced
<1> QED
  BY <1>1, <1>2, <1>3, <1>4 DEF ResultSets

(* A query is answered, refused or lost on a broken link.                  *)
LEMMA RealQueryIs ==
  ASSUME NEW s, SessionOK(s), NEW a, IsAnswer(a)
  PROVE  LET t == RealQuery(s, a)
         IN /\ SessionOK(t)
            /\ \/ /\ s.status = "ready" /\ ~MoreResults(s)
                  /\ t.stmt = s.stmt + 1 /\ t.at = 1 /\ t.status # "use_result"
                  /\ t.read = 0
                  /\ \/ Announced(t)
                     \/ /\ JustFailed(t, {"server"}) /\ ~MoreResults(t)
                        /\ t.status = "ready"
               \/ /\ s.status = "ready"
                  /\ SamePlace(s, t) /\ NoMoreThan(s, t) /\ t.read = s.read
                  /\ t.status = "ready"
                  /\ JustFailed(t, {"lost"})
               \/ /\ s.status # "ready" \/ MoreResults(s)
                  /\ SamePlace(s, t) /\ NoMoreThan(s, t) /\ t.read = s.read
                  /\ t.status = s.status /\ t.fields = s.fields
                  /\ JustFailed(t, {"sync"})
<1>0. s \in Sessions
  BY DEF SessionOK
<1>1. CASE s.link = "closed"
  BY <1>1, LostIs DEF RealQuery, SessionOK
<1>2. CASE s.link # "closed" /\ (s.status # "ready" \/ MoreResults(s))
  BY <1>2, OutOfSyncIs DEF RealQuery
<1>3. CASE s.link = "down" /\ s.status = "ready" /\ ~MoreResults(s)
  BY <1>3, LostIs DEF RealQuery
<1>4. CASE s.link = "up" /\ s.status = "ready" /\ ~MoreResults(s)
  <2>1. PICK h : h = [s EXCEPT !.stmt = s.stmt + 1, !.sets = a, !.at = 1, !.cut = "no",
                               !.read = 0]
    OBVIOUS
  <2>2. RealQuery(s, a) = ReadHeader(h)
    <3> DEFINE b == [s EXCEPT !.stmt = s.stmt + 1, !.sets = a, !.at = 1, !.cut = "no"]
    <3>1. RealQuery(s, a) = ReadHeader(b)
      BY <1>4 DEF RealQuery
    <3>2. CurrentSet(b) = CurrentSet(h)
      BY <1>0, <2>1 DEF CurrentSet, Sessions
    <3>3. \A e : [b EXCEPT !.read = 0, !.err = e] = [h EXCEPT !.read = 0, !.err = e]
      BY <1>0, <2>1 DEF Sessions
    <3> QED
      BY <3>1, <3>2, <3>3 DEF ReadHeader
  <2>3. SessionOK(h)
    <3>1. a \in Seq(ResultSets) /\ Len(a) \in Nat /\ Len(a) > 0
      BY EmptySeq DEF IsAnswer
    <3>2. a[1] \in ResultSets
      BY <3>1, ElementOfSeq
    <3>3. /\ h \in Sessions /\ h.sets = a /\ h.at = 1 /\ h.read = 0
          /\ h.stmt > 0 /\ h.status = s.status
      <4>1. PICK m \in Nat : m = s.stmt + 1 /\ m > 0
        BY <1>0 DEF Sessions
      <4>2. h = [s EXCEPT !.stmt = m, !.sets = a, !.at = 1, !.cut = "no", !.read = 0]
        BY <2>1, <4>1
      <4>3. h.sets = a /\ h.at = 1 /\ h.read = 0 /\ h.stmt = m /\ h.status = s.status
        BY <1>0, <4>2 DEF Sessions
      <4>4. h \in Sessions
        BY <1>0, <3>1, <4>1, <4>2 DEF Sessions
      <4> QED
        BY <4>1, <4>3, <4>4
    <3>4. CurrentSet(h) = a[1] /\ a[1].n \in Nat
      BY <3>2, <3>3 DEF CurrentSet, ResultSets
    <3> QED
      BY <1>4, <2>1, <3>1, <3>3, <3>4 DEF SessionOK, IsAnswer
  <2>4. h.status = "ready" /\ h.link = "up" /\ h.stmt = s.stmt + 1 /\ h.stmt > 0 /\ h.at = 1
    BY <1>0, <1>4, <2>1 DEF Sessions
  <2>5. LET t == ReadHeader(h)
        IN SessionOK(t) /\ SamePlace(h, t) /\ t.status # "use_result" /\ t.read = 0
           /\ (\/ Announced(t)
               \/ JustFailed(t, {"server"}) /\ ~MoreResults(t) /\ t.status = "ready")
    BY <2>3, <2>4, ReadHeaderIs
  <2> QED
    BY <1>4, <2>2, <2>4, <2>5 DEF SamePlace
<1> QED
  BY <1>1, <1>2, <1>3, <1>4 DEF SessionOK, Sessions

(* The next result set is announced, or is an error, or the link is gone,  *)
(* or there is none; out of order the call is refused.                     *)
LEMMA NextResultIs ==
  ASSUME NEW s, SessionOK(s)
  PROVE  LET t == NextResult(s)
         IN /\ SessionOK(t) /\ t.stmt = s.stmt /\ t.cut = s.cut /\ NoMoreThan(s, t)
            /\ \/ /\ s.status # "ready" /\ NextResultReturns(s) = "error"
                  /\ SamePlace(s, t) /\ t.status = s.status /\ t.fields = s.fields
                  /\ t.read = s.read
                  /\ JustFailed(t, {"sync"})
               \/ /\ s.status = "ready" /\ MoreResults(s) /\ s.link = "up"
                  /\ t.at = s.at + 1 /\ t.link = "up"
                  /\ \/ NextResultReturns(s) = "set" /\ Announced(t)
                     \/ /\ NextResultReturns(s) = "error"
                        /\ JustFailed(t, {"server"})
                        /\ ~MoreResults(t) /\ t.status = "ready"
               \/ /\ s.status = "ready" /\ NextResultReturns(s) = "error"
                  /\ SamePlace(s, t) /\ t.status = "ready" /\ t.read = s.read
                  /\ JustFailed(t, {"lost"})
               \/ /\ s.status = "ready" /\ NextResultReturns(s) = "no more"
                  /\ SamePlace(s, t) /\ t.status = "ready" /\ t.fields = s.fields
                  /\ t.read = s.read /\ ~MoreResults(t) /\ t.err.code = "none"
<1>0. s \in Sessions
  BY DEF SessionOK
<1>1. PICK t : t = NextResult(s)
  OBVIOUS
<1>2. CASE s.status # "ready"
  BY <1>2, OutOfSyncIs DEF NextResult, NextResultReturns, SamePlace
<1>3. CASE s.status = "ready" /\ MoreResults(s) /\ s.link # "up"
  <2>1. NextResult(s) = Lost(s)
    BY <1>3 DEF NextResult
  <2>2. NextResultReturns(s) = "error"
    BY <1>3, <2>1, LostIs DEF NextResultReturns, JustFailed
  <2> QED
    BY <1>3, <2>1, <2>2, LostIs DEF SamePlace
<1>4. CASE s.status = "ready" /\ ~MoreResults(s)
  <2>1. t = [s EXCEPT !.err = NoError] /\ NextResultReturns(s) = "no more"
    BY <1>1, <1>4 DEF NextResult, NextResultReturns
  <2>2. /\ t \in Sessions /\ t.sets = s.sets /\ t.at = s.at /\ t.stmt = s.stmt
        /\ t.read = s.read /\ t.link = s.link /\ t.cut = s.cut
        /\ t.err.code = "none" /\ t.status = s.status /\ t.fields = s.fields
    BY <1>0, <2>1 DEF Sessions
  <2>3. s.read \in 0..CurrentSet(s).n /\ (s.stmt = 0 => ~s.fields)
    BY <1>0, CurrentIs DEF SessionOK, Sessions
  <2>4. SessionOK(t) /\ CurrentSet(t) = CurrentSet(s) /\ (MoreResults(t) <=> MoreResults(s))
    BY <1>4, <2>2, <2>3, SameAnswer
  <2> QED
    BY <1>1, <1>4, <2>1, <2>2, <2>4 DEF SamePlace, NoMoreThan
<1>5. CASE s.status = "ready" /\ MoreResults(s) /\ s.link = "up"
  <2>1. PICK m \in Nat : m = s.at + 1 /\ m \in 1..Len(s.sets)
    BY <1>0, <1>5 DEF MoreResults, SessionOK, Sessions
  <2>2. PICK h : h = [s EXCEPT !.at = m, !.read = 0]
    OBVIOUS
  <2>3. /\ h \in Sessions /\ h.sets = s.sets /\ h.at = m /\ h.stmt = s.stmt /\ h.read = 0
        /\ h.link = "up" /\ h.status = "ready" /\ h.cut = s.cut /\ h.fields = s.fields
    BY <1>0, <1>5, <2>1, <2>2 DEF Sessions
  <2>4. t = ReadHeader(h)
    <3> DEFINE b == [s EXCEPT !.at = m]
    <3>1. t = ReadHeader(b)
      BY <1>1, <1>5, <2>1 DEF NextResult
    <3>2. CurrentSet(b) = CurrentSet(h)
      BY <1>0, <2>2 DEF CurrentSet, Sessions
    <3>3. \A e : [b EXCEPT !.read = 0, !.err = e] = [h EXCEPT !.read = 0, !.err = e]
      BY <1>0, <2>2 DEF Sessions
    <3> QED
      BY <3>1, <3>2, <3>3 DEF ReadHeader
  <2>5. h.stmt > 0
    <3>1. ASSUME s.stmt = 0 PROVE FALSE
      <4>1. Len(s.sets) = 1 /\ s.at \in 1..Len(s.sets) /\ s.at < Len(s.sets)
        BY <1>5, <3>1 DEF MoreResults, SessionOK
      <4> QED
        BY <4>1
    <3> QED
      BY <1>0, <2>3, <3>1 DEF Sessions
  <2>6. SessionOK(h)
    <3>1. CurrentSet(h) \in ResultSets
      BY <1>0, <2>1, <2>3, ElementOfSeq DEF CurrentSet, Sessions
    <3>2. h.read <= CurrentSet(h).n
      BY <2>3, <3>1 DEF ResultSets
    <3> QED
      BY <2>1, <2>3, <2>5, <3>2 DEF SessionOK
  <2>7. /\ SessionOK(t) /\ SamePlace(h, t) /\ t.link = h.link
        /\ \/ Announced(t)
           \/ JustFailed(t, {"server"}) /\ ~MoreResults(t) /\ t.status = "ready"
    BY <2>3, <2>4, <2>5, <2>6, ReadHeaderIs
  <2>8. NextResultReturns(s) = IF t.err.code = "none" THEN "set" ELSE "error"
    BY <1>1, <1>5 DEF NextResultReturns
  <2> QED
    BY <1>1, <1>5, <2>1, <2>3, <2>7, <2>8 DEF SamePlace, NoMoreThan, Announced, JustFailed
<1> QED
  BY <1>2, <1>3, <1>4, <1>5

(* A result set of which only a part came ends the answer.                 *)
LEMMA CutIs ==
  ASSUME NEW s, SessionOK(s)
  PROVE  LET t == Cut(s)
         IN /\ SessionOK(t) /\ SamePlace(s, t) /\ NoMoreThan(s, t)
            /\ t.status = "ready" /\ t.read = s.read
            /\ JustFailed(t, {"server", "lost"})
<1>0. s \in Sessions
  BY DEF SessionOK
<1>1. CASE s.cut = "lost"
  BY <1>1, LostIs DEF Cut, JustFailed
<1>2. CASE s.cut # "lost"
  <2>1. PICK q : q = SubSeq(s.sets, 1, s.at)
    OBVIOUS
  <2>2. /\ q \in Seq(ResultSets) /\ Len(q) = s.at
        /\ \A k \in 1..s.at : q[k] = s.sets[k]
    BY <1>0, <2>1, SubSeqProperties DEF SessionOK, Sessions
  <2>3. PICK t : t = [s EXCEPT !.status = "ready", !.err = SetError("server"), !.sets = q]
    OBVIOUS
  <2>4. t = Cut(s)
    BY <1>2, <2>1, <2>3 DEF Cut
  <2>5. /\ t \in Sessions /\ t.sets = q /\ t.at = s.at /\ t.stmt = s.stmt
        /\ t.read = s.read /\ t.cut = s.cut /\ t.err = SetError("server")
        /\ t.status = "ready" /\ t.fields = s.fields
    BY <1>0, <2>2, <2>3 DEF Sessions
  <2>6. CurrentSet(t) = CurrentSet(s) /\ ~MoreResults(t)
    BY <1>0, <2>2, <2>5 DEF CurrentSet, MoreResults, SessionOK, Sessions
  <2>7. \A k \in 1..Len(q) : q[k].kind = "error" => k = Len(q)
    BY <1>0, <2>2 DEF SessionOK, Sessions
  <2>8. SessionOK(t)
    BY <1>0, <2>2, <2>5, <2>6, <2>7 DEF SessionOK, Sessions
  <2> QED
    BY <2>4, <2>5, <2>6, <2>8 DEF SamePlace, NoMoreThan, JustFailed
<1> QED
  BY <1>1, <1>2

(* The last row has been read: the session is ready, and has an error      *)
(* when rows are missing.                                                  *)
LEMMA EndOfRowsIs ==
  ASSUME NEW s, SessionOK(s)
  PROVE  LET t == EndOfRows(s)
         IN /\ SessionOK(t) /\ SamePlace(s, t) /\ NoMoreThan(s, t)
            /\ t.status = "ready" /\ t.read = CurrentSet(s).n
            /\ IF s.cut = "no" THEN t.err = s.err
                               ELSE JustFailed(t, {"server", "lost"})
<1>0. s \in Sessions /\ CurrentSet(s).n \in Nat
  BY CurrentIs DEF SessionOK
<1>1. PICK r : r = [s EXCEPT !.read = CurrentSet(s).n]
  OBVIOUS
<1>2. /\ r \in Sessions /\ r.sets = s.sets /\ r.at = s.at /\ r.stmt = s.stmt
      /\ r.read = CurrentSet(s).n /\ r.link = s.link /\ r.cut = s.cut
      /\ r.err = s.err /\ r.status = s.status /\ r.fields = s.fields
  BY <1>0, <1>1 DEF Sessions
<1>3. SessionOK(r) /\ CurrentSet(r) = CurrentSet(s) /\ (MoreResults(r) <=> MoreResults(s))
  <2>1. (r.stmt = 0 => ~r.fields) /\ (r.link = "closed" => r.status = "ready")
    BY <1>2 DEF SessionOK
  <2> QED
    BY <1>0, <1>2, <2>1, SameAnswer
<1>4. CASE s.cut # "no"
  <2>1. EndOfRows(s) = Cut(r)
    BY <1>1, <1>4 DEF EndOfRows
  <2> QED
    BY <1>2, <1>3, <1>4, <2>1, CutIs DEF SamePlace, NoMoreThan
<1>5. CASE s.cut = "no"
  <2>1. PICK t : t = [r EXCEPT !.status = "ready"]
    OBVIOUS
  <2>2. /\ t \in Sessions /\ t.sets = s.sets /\ t.at = s.at /\ t.stmt = s.stmt
        /\ t.read = CurrentSet(s).n /\ t.link = s.link /\ t.cut = s.cut
        /\ t.err = s.err /\ t.status = "ready" /\ t.fields = s.fields
    BY <1>2, <2>1 DEF Sessions
  <2>3. SessionOK(t) /\ CurrentSet(t) = CurrentSet(s) /\ (MoreResults(t) <=> MoreResults(s))
    <3>1. t.stmt = 0 => ~t.fields
      BY <2>2 DEF SessionOK
    <3> QED
      BY <1>0, <2>2, <3>1, SameAnswer
  <2>4. EndOfRows(s) = t
    BY <1>1, <1>5, <2>1 DEF EndOfRows
  <2> QED
    BY <1>5, <2>2, <2>3, <2>4 DEF SamePlace, NoMoreThan
<1> QED
  BY <1>4, <1>5

(* mysql_use_result and mysql_store_result after a header: the columns are *)
(* taken when there are any; storing the rows may fail.                    *)
LEMMA UseResultIs ==
  ASSUME NEW s, SessionOK(s), Announced(s)
  PROVE  LET t == UseResult(s)
         IN /\ SessionOK(t) /\ SamePlace(s, t) /\ NoMoreThan(s, t)
            /\ t.err = s.err /\ t.read = 0
            /\ IF s.fields THEN TakesResult(s, t) /\ t.status = "use_result"
                           ELSE ~TakesResult(s, t) /\ t = s /\ t.status = "ready"
<1>0. s \in Sessions
  BY DEF SessionOK
<1>1. CASE ~s.fields
  BY <1>0, <1>1 DEF UseResult, Announced, SamePlace, NoMoreThan, TakesResult, Sessions
<1>2. CASE s.fields
  <2>1. PICK t : t = [s EXCEPT !.status = "use_result", !.fields = FALSE]
    OBVIOUS
  <2>2. t = UseResult(s)
    BY <1>2, <2>1 DEF UseResult, Announced
  <2>3. /\ t \in Sessions /\ t.sets = s.sets /\ t.at = s.at /\ t.stmt = s.stmt
        /\ t.read = s.read /\ t.link = s.link /\ t.cut = s.cut
        /\ t.err = s.err /\ t.status = "use_result" /\ ~t.fields
    BY <1>0, <2>1 DEF Sessions
  <2>4. s.link # "closed" /\ s.read = 0 /\ CurrentSet(s).n \in Nat
    BY <1>2, CurrentIs DEF SessionOK, Announced
  <2>5. SessionOK(t) /\ CurrentSet(t) = CurrentSet(s) /\ (MoreResults(t) <=> MoreResults(s))
    BY <2>3, <2>4, SameAnswer
  <2> QED
    BY <1>2, <2>2, <2>3, <2>4, <2>5 DEF SamePlace, NoMoreThan, TakesResult
<1> QED
  BY <1>1, <1>2

LEMMA StoreResultIs ==
  ASSUME NEW s, SessionOK(s), Announced(s)
  PROVE  LET t == StoreResult(s)
         IN /\ SessionOK(t) /\ SamePlace(s, t) /\ NoMoreThan(s, t)
            /\ t.status = "ready" /\ t.read = 0
            /\ \/ s.fields /\ TakesResult(s, t) /\ t.err = s.err /\ t.cut = "no"
               \/ ~s.fields /\ ~TakesResult(s, t) /\ t = s
               \/ s.fields /\ ~TakesResult(s, t) /\ JustFailed(t, {"server", "lost"})
<1>0. s \in Sessions
  BY DEF SessionOK
<1>1. CASE ~s.fields
  BY <1>0, <1>1 DEF StoreResult, Announced, SamePlace, NoMoreThan, TakesResult, Sessions
<1>2. CASE s.fields /\ s.cut # "no"
  <2>1. StoreResult(s) = Cut(s)
    BY <1>2 DEF StoreResult, Announced
  <2> QED
    BY <1>2, <2>1, CutIs DEF JustFailed, TakesResult, Announced
<1>3. CASE s.fields /\ s.cut = "no"
  <2>1. PICK t : t = [s EXCEPT !.status = "ready", !.fields = FALSE]
    OBVIOUS
  <2>2. t = StoreResult(s)
    BY <1>3, <2>1 DEF StoreResult, Announced
  <2>3. /\ t \in Sessions /\ t.sets = s.sets /\ t.at = s.at /\ t.stmt = s.stmt
        /\ t.read = s.read /\ t.link = s.link /\ t.cut = s.cut
        /\ t.err = s.err /\ t.status = "ready" /\ ~t.fields
    BY <1>0, <2>1 DEF Sessions
  <2>4. s.read = 0 /\ CurrentSet(s).n \in Nat
    BY CurrentIs DEF Announced
  <2>5. SessionOK(t) /\ CurrentSet(t) = CurrentSet(s) /\ (MoreResults(t) <=> MoreResults(s))
    BY <2>3, <2>4, SameAnswer
  <2> QED
    BY <1>3, <2>2, <2>3, <2>4, <2>5 DEF SamePlace, NoMoreThan, TakesResult
<1> QED
  BY <1>1, <1>2, <1>3

(* mysql_fetch_row: some rows, or the rest of them and the end.            *)
LEMMA FetchRowsIs ==
  ASSUME NEW s, SessionOK(s), NEW n \in Nat
  PROVE  LET t == FetchRows(s, n)
         IN /\ RowsLeft(s) \in Nat
            /\ n > RowsLeft(s) => t = EndOfRows(s)
            /\ n <= RowsLeft(s) =>
                 /\ SessionOK(t) /\ SamePlace(s, t) /\ NoMoreThan(s, t)
                 /\ t.status = s.status /\ t.fields = s.fields /\ t.err = s.err
                 /\ t.read = s.read + n
<1>0. s \in Sessions /\ CurrentSet(s).n \in Nat /\ s.read \in Nat
  BY CurrentIs DEF SessionOK, Sessions
<1>1. RowsLeft(s) \in Nat
  BY <1>0 DEF RowsLeft, SessionOK
<1>2. CASE n > RowsLeft(s)
  BY <1>1, <1>2 DEF FetchRows
<1>3. CASE n <= RowsLeft(s)
  <2>1. PICK m \in Nat : m = s.read + n /\ m <= CurrentSet(s).n
    BY <1>0, <1>3 DEF RowsLeft
  <2>2. PICK t : t = [s EXCEPT !.read = m]
    OBVIOUS
  <2>3. t = FetchRows(s, n)
    BY <1>1, <1>3, <2>1, <2>2 DEF FetchRows
  <2>4. /\ t \in Sessions /\ t.sets = s.sets /\ t.at = s.at /\ t.stmt = s.stmt
        /\ t.read = m /\ t.link = s.link /\ t.cut = s.cut
        /\ t.err = s.err /\ t.status = s.status /\ t.fields = s.fields
    BY <1>0, <2>2 DEF Sessions
  <2>5. SessionOK(t) /\ CurrentSet(t) = CurrentSet(s) /\ (MoreResults(t) <=> MoreResults(s))
    <3>1. (t.stmt = 0 => ~t.fields) /\ (t.link = "closed" => t.status = "ready")
      BY <2>4 DEF SessionOK
    <3> QED
      BY <1>0, <2>1, <2>4, <3>1, SameAnswer
  <2> QED
    BY <1>1, <1>3, <2>1, <2>3, <2>4, <2>5 DEF SamePlace, NoMoreThan
<1> QED
  BY <1>1, <1>2, <1>3

(* The server sends less than it announced.                                *)
LEMMA CutRowsIs ==
  ASSUME NEW s, SessionOK(s), NEW k \in s.read..CurrentSet(s).n, NEW why \in {"killed", "lost"}
  PROVE  LET t == CutRows(s, why, k)
         IN /\ SessionOK(t) /\ (MoreResults(t) <=> MoreResults(s))
            /\ t.stmt = s.stmt /\ t.at = s.at /\ t.cut = why /\ t.status = s.status
            /\ t.fields = s.fields /\ t.read = s.read /\ t.err = s.err /\ t.link = s.link
<1>0. s \in Sessions /\ CurrentSet(s) \in ResultSets /\ s.read \in Nat
  BY CurrentIs DEF SessionOK, Sessions
<1>1. PICK e : e = [s.sets[s.at] EXCEPT !.n = k]
  OBVIOUS
<1>2. e \in ResultSets /\ e.n = k /\ e.kind = s.sets[s.at].kind
  BY <1>0, <1>1 DEF ResultSets, CurrentSet
<1>3. PICK q : q = [s.sets EXCEPT ![s.at] = e]
  OBVIOUS
<1>4. /\ q \in Seq(ResultSets) /\ Len(q) = Len(s.sets)
      /\ \A j \in 1..Len(s.sets) : q[j] = IF j = s.at THEN e ELSE s.sets[j]
  BY <1>0, <1>2, <1>3, ExceptSeq DEF SessionOK, Sessions
<1>5. PICK t : t = [s EXCEPT !.cut = why, !.sets = q]
  OBVIOUS
<1>6. t = CutRows(s, why, k)
  BY <1>0, <1>1, <1>3, <1>5 DEF CutRows, Sessions
<1>7. /\ t \in Sessions /\ t.sets = q /\ t.at = s.at /\ t.stmt = s.stmt
      /\ t.read = s.read /\ t.cut = why /\ t.err = s.err
      /\ t.status = s.status /\ t.fields = s.fields /\ t.link = s.link
  BY <1>0, <1>4, <1>5 DEF Sessions
<1>8. CurrentSet(t) = e /\ (MoreResults(t) <=> MoreResults(s))
  BY <1>4, <1>7 DEF CurrentSet, MoreResults, SessionOK
<1>9. \A j \in 1..Len(q) : q[j].kind = "error" => j = Len(q)
  BY <1>2, <1>4 DEF SessionOK
<1>10. SessionOK(t)
  BY <1>0, <1>2, <1>4, <1>7, <1>8, <1>9 DEF SessionOK
<1> QED
  BY <1>6, <1>7, <1>8, <1>10

LEMMA LinkDownIs ==
  ASSUME NEW s, SessionOK(s)
  PROVE  LET t == LinkDown(s)
         IN /\ SessionOK(t) /\ SamePlace(s, t) /\ (MoreResults(t) <=> MoreResults(s))
            /\ t.status = s.status /\ t.fields = s.fields /\ t.read = s.read
            /\ t.err = s.err /\ t.link = "down"
<1>0. s \in Sessions /\ CurrentSet(s).n \in Nat /\ s.read \in Nat
  BY CurrentIs DEF SessionOK, Sessions
<1>1. PICK t : t = [s EXCEPT !.link = "down"]
  OBVIOUS
<1>2. /\ t \in Sessions /\ t.sets = s.sets /\ t.at = s.at /\ t.stmt = s.stmt
      /\ t.read = s.read /\ t.cut = s.cut /\ t.link = "down"
      /\ t.err = s.err /\ t.status = s.status /\ t.fields = s.fields
  BY <1>0, <1>1 DEF Sessions
<1>3. SessionOK(t) /\ CurrentSet(t) = CurrentSet(s) /\ (MoreResults(t) <=> MoreResults(s))
  <2>1. (t.stmt = 0 => ~t.fields) /\ t.read <= CurrentSet(s).n
    BY <1>2 DEF SessionOK
  <2> QED
    BY <1>0, <1>2, <2>1, SameAnswer
<1>4. t = LinkDown(s)
  BY <1>1 DEF LinkDown
<1> QED
  BY <1>2, <1>3, <1>4 DEF SamePlace
=============================================================================
