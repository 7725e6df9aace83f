---------------------------- MODULE SessionProofs ----------------------------
(***************************************************************************)
(* Proofs about Session: what a program may rely on for every set of       *)
(* character sets and any number of rows and of sessions.                  *)
(*                                                                         *)
(* Every command is served in a session, is refused, or is lost.  The      *)
(* lemmas say what each does to Sound, the part of the invariant that is   *)
(* about the server, the library and what the program knows; the steps of  *)
(* the methods follow from them.                                           *)
(***************************************************************************)
EXTENDS Session, TLAPS

(* StatusInv, RowsInv, KeepInv, SettledInv and UndoInv. *)
Sound(s, m, h) ==
  /\ s.up => m.link = "up" /\ m.autocommit = s.autocommit /\ m.trans = s.trans
  /\ s.pending # {} => s.up /\ s.trans
  /\ s.pending \subseteq 1..h.rows /\ s.done \subseteq 1..h.rows /\ h.ran \subseteq 1..h.rows
  /\ s.pending \cap s.done = {}
  /\ s.up => h.ran \subseteq s.pending \cup s.done
  /\ ~s.up => m.trans \/ h.ran \subseteq s.done
  /\ h.begun => m.trans
  /\ h.settled <= s.id
  /\ s.up /\ h.autocommit # None /\ h.settled = s.id => s.autocommit = h.autocommit
  /\ s.up /\ s.autocommit /\ ~s.default => h.autocommit = TRUE
  /\ h.begun \/ (h.autocommit # TRUE /\ (~s.default \/ ~m.autocommit))
     => h.ran \cap s.done = {}

LEMMA SoundIs ==
  ASSUME TypeOK
  PROVE  Sound(srv, my, hist) <=>
           StatusInv /\ RowsInv /\ KeepInv /\ SettledInv /\ UndoInv
  BY DEF Sound, StatusInv, RowsInv, KeepInv, SettledInv, UndoInv, TypeOK, Servers,
     Clients, Histories

(* What the library knows of the session s after an answer. *)
Synced(m, s) == [m EXCEPT !.link = "up", !.autocommit = s.autocommit, !.trans = s.trans]

(* The session that a command of the library m is served in. *)
Opened(s, m) ==
  \/ s = srv /\ srv.up
  \/ s = NewSession(srv, m.charset) /\ ~srv.up /\ ~m.trans /\ m.reconnect
     /\ srv.id < MaxSessions

(* The library as a command finds it: ping() may have set reconnect. *)
SameButReconnect(m) ==
  /\ m \in Clients
  /\ m.link = my.link /\ m.option = my.option /\ m.charset = my.charset
  /\ m.autocommit = my.autocommit /\ m.trans = my.trans

(* A session that begins has the server's modes and the library's          *)
(* character set.                                                          *)
LEMMA NewSessionIs ==
  ASSUME NEW s \in Servers, NEW c \in Charsets, s.id < MaxSessions
  PROVE  LET n == NewSession(s, c)
         IN /\ n \in Servers
            /\ n.id = s.id + 1 /\ n.up /\ n.charset = c /\ n.default = s.default
            /\ n.autocommit = s.default /\ ~n.trans /\ n.pending = {} /\ n.done = s.done
<1> DEFINE u == UndoWork(s)
           n == NewSession(s, c)
<1>1. /\ u \in Servers /\ u.id = s.id /\ u.default = s.default /\ ~u.trans
      /\ u.pending = {} /\ u.done = s.done
  BY DEF UndoWork, Servers
<1>2. s.id + 1 \in SessionIds /\ s.default \in BOOLEAN
  BY SessionAssumption DEF Servers, SessionIds
<1>3. n = [u EXCEPT !.id = u.id + 1, !.up = TRUE, !.charset = c, !.autocommit = s.default]
  BY DEF NewSession
<1> HIDE DEF u, n
<1>4. n \in Servers
  BY <1>1, <1>2, <1>3 DEF Servers
<1>5. /\ n.id = s.id + 1 /\ n.up = TRUE /\ n.charset = c /\ n.default = s.default
      /\ n.autocommit = s.default /\ n.trans = u.trans /\ n.pending = {}
      /\ n.done = s.done
  BY <1>1, <1>3 DEF Servers
<1> QED
  BY <1>1, <1>4, <1>5 DEF n

LEMMA GoneIs ==
  ASSUME NEW s \in Servers
  PROVE  /\ Gone(s) \in Servers
         /\ ~Gone(s).up /\ Gone(s).pending = {} /\ Gone(s).done = s.done
         /\ Gone(s).id = s.id /\ Gone(s).default = s.default
  BY DEF Gone, UndoWork, Servers, RowIds

(* A command is served in the session there is, or in a new one that takes *)
(* nothing with it.                                                        *)
LEMMA OpenedSound ==
  ASSUME TypeOK, Sound(srv, my, hist), NEW m, SameButReconnect(m),
         NEW s, Opened(s, m)
  PROVE  /\ s \in Servers /\ s.up /\ s.done = srv.done /\ srv.id <= s.id
         /\ Synced(m, s) \in Clients
         /\ Sound(s, Synced(m, s), hist)
<1>0. srv \in Servers /\ my \in Clients /\ hist \in Histories /\ m \in Clients
  BY DEF TypeOK, SameButReconnect
<1>1. CASE s = srv /\ srv.up
  <2>1. /\ Synced(m, s) \in Clients
        /\ Synced(m, s).link = "up" /\ Synced(m, s).autocommit = s.autocommit
        /\ Synced(m, s).trans = s.trans
    BY <1>0, <1>1 DEF Synced, Clients, Servers
  <2>2. s.autocommit = my.autocommit /\ s.trans = my.trans
    BY <1>1 DEF Sound
  <2>3. Sound(s, Synced(m, s), hist)
    BY <1>1, <2>1, <2>2 DEF Sound
  <2>4. srv.id <= s.id
    BY <1>0, <1>1, SessionAssumption DEF Servers, SessionIds
  <2> QED
    BY <1>0, <1>1, <2>1, <2>3, <2>4
<1>2. CASE /\ s = NewSession(srv, m.charset) /\ ~srv.up /\ ~m.trans
           /\ srv.id < MaxSessions
  <2>1. m.charset \in Charsets
    BY <1>0 DEF Clients
  <2>2. /\ s \in Servers /\ s.id = srv.id + 1 /\ s.up /\ s.default = srv.default
        /\ s.autocommit = srv.default /\ ~s.trans /\ s.pending = {} /\ s.done = srv.done
    BY <1>0, <1>2, <2>1, NewSessionIs
  <2>3. srv.id \in Nat /\ hist.settled \in Nat
    BY <1>0, SessionAssumption DEF Servers, Histories, SessionIds
  <2>4. /\ Synced(m, s) \in Clients
        /\ Synced(m, s).link = "up" /\ Synced(m, s).autocommit = s.autocommit
        /\ Synced(m, s).trans = s.trans
    BY <1>0, <2>2 DEF Synced, Clients, Servers
  <2>5. Sound(s, Synced(m, s), hist)
    <3>1. hist.settled <= s.id /\ hist.settled # s.id
      BY <2>2, <2>3 DEF Sound
    <3>2. ~my.trans /\ ~hist.begun /\ hist.ran \subseteq srv.done
      BY <1>2 DEF Sound, SameButReconnect
    <3>3. srv.done \subseteq 1..hist.rows
      BY DEF Sound
    <3>4. hist.autocommit # TRUE /\ ~srv.default => hist.ran \cap srv.done = {}
      BY DEF Sound
    <3>5. Synced(m, s).autocommit = srv.default
      BY <2>2, <2>4
    <3> QED
      BY <2>2, <2>4, <3>1, <3>2, <3>3, <3>4, <3>5 DEF Sound
  <2> QED
    BY <2>2, <2>3, <2>4, <2>5
<1> QED
  BY <1>1, <1>2 DEF Opened

-----------------------------------------------------------------------------
(* What may come back of a command. *)
Accepted(r, m, op, arg) ==
  /\ r.exc = "none"
  /\ \E s : /\ Opened(s, m)
           /\ r.srv = Serve(s, op, arg) /\ r.my = Synced(m, Serve(s, op, arg))

Denied(r, m, op) ==
  /\ r.exc = "server"
  /\ \E s : /\ Opened(s, m)
           /\ r.srv = (IF op = "change_user" THEN Gone(s) ELSE s)
           /\ r.my = Synced(m, s)

NoAnswer(r, m, op, arg) ==
  /\ r.exc = "lost"
  /\ \/ r.srv = srv /\ ~srv.up
     \/ r.srv = Gone(Serve(srv, op, arg)) /\ srv.up
  /\ \E trans \in BOOLEAN : r.my = [m EXCEPT !.link = "closed", !.trans = trans]

LEMMA SendIs ==
  ASSUME TypeOK, Sound(srv, my, hist), NEW m, SameButReconnect(m),
         NEW op, NEW arg, NEW r \in Send(m, op, arg)
  PROVE  Accepted(r, m, op, arg) \/ Denied(r, m, op) \/ NoAnswer(r, m, op, arg)
<1> DEFINE Missed(trans) == [srv |-> srv, exc |-> "lost",
                           my  |-> [m EXCEPT !.link = "closed", !.trans = trans]]
<1>1. m.trans \in BOOLEAN /\ (srv.up => m.link = "up") /\ srv.up \in BOOLEAN
  BY DEF SameButReconnect, Sound, TypeOK, Clients, Servers
<1>2. ASSUME NEW s, Opened(s, m), r \in Served(s, m, op, arg)
      PROVE  Accepted(r, m, op, arg) \/ Denied(r, m, op)
  <2>1. CASE r = Answered(s, m, op, arg)
    BY <1>2, <2>1 DEF Answered, Accepted, Synced
  <2>2. CASE r = Refused(s, m, op)
    BY <1>2, <2>2 DEF Refused, Denied, Synced
  <2> QED
    BY <1>2, <2>1, <2>2 DEF Served
<1>3. CASE srv.up
  <2>1. \/ r \in Served(srv, m, op, arg)
        \/ r = [Missed(m.trans) EXCEPT !.srv = Gone(Serve(srv, op, arg))]
    <3>1. Send(m, op, arg) =
            Served(srv, m, op, arg) \cup
            {[Missed(m.trans) EXCEPT !.srv = Gone(Serve(srv, op, arg))]}
      BY <1>1, <1>3, Zenon DEF Send
    <3> QED
      BY <3>1
  <2>2. CASE r \in Served(srv, m, op, arg)
    BY <1>2, <1>3, <2>2 DEF Opened
  <2>3. CASE r = [Missed(m.trans) EXCEPT !.srv = Gone(Serve(srv, op, arg))]
    BY <1>1, <1>3, <2>3 DEF NoAnswer
  <2> QED
    BY <2>1, <2>2, <2>3
<1>4. CASE ~srv.up
  <2>1. \/ r \in {Missed(FALSE), Missed(m.trans)}
        \/ MayReconnect(m) /\ r \in Served(NewSession(srv, m.charset), m, op, arg)
    BY <1>4 DEF Send
  <2>2. CASE r \in {Missed(FALSE), Missed(m.trans)}
    <3>1. PICK trans \in BOOLEAN : r = Missed(trans)
      BY <1>1, <2>2
    <3>2. r.exc = "lost" /\ r.srv = srv /\ r.my = [m EXCEPT !.link = "closed", !.trans = trans]
      BY <3>1
    <3> QED
      BY <1>4, <3>2 DEF NoAnswer
  <2>3. CASE MayReconnect(m) /\ r \in Served(NewSession(srv, m.charset), m, op, arg)
    <3>1. ~m.trans /\ m.reconnect /\ srv.id < MaxSessions
      BY <2>3 DEF MayReconnect
    <3>2. Opened(NewSession(srv, m.charset), m)
      BY <3>1, <1>4 DEF Opened
    <3> QED
      BY <1>2, <2>3, <3>2
  <2> QED
    BY <2>1, <2>2, <2>3
<1> QED
  BY <1>1, <1>3, <1>4

(* The session is gone and the program was told: it knows of no row. *)
LEMMA LostSound ==
  ASSUME NEW s \in Servers, NEW m, NEW h \in Histories,
         ~s.up, s.pending = {}, s.done \subseteq 1..h.rows,
         h.ran = {}, ~h.begun, h.settled <= s.id
  PROVE  Sound(s, m, h)
  BY DEF Sound

(* What the program knows after an exception. *)
LEMMA ToldIs ==
  ASSUME NEW h \in Histories, NEW exc \in {"server", "lost"}
  PROVE  LET t == Told(h, exc)
         IN /\ t \in Histories /\ t.rows = h.rows /\ t.settled = h.settled
            /\ t.autocommit = h.autocommit /\ t.charset = h.charset
            /\ t.given = h.given /\ t.changed = h.changed /\ t.reconnect = h.reconnect
            /\ \/ exc = "server" /\ t.ran = h.ran /\ t.begun = h.begun
               \/ exc = "lost" /\ t.ran = {} /\ ~t.begun
  BY DEF Told, Histories

-----------------------------------------------------------------------------
(* What each command does to a session that is sound. *)
LEMMA SyncedIs ==
  ASSUME NEW m \in Clients, NEW s \in Servers
  PROVE  /\ Synced(m, s) \in Clients
         /\ Synced(m, s).link = "up" /\ Synced(m, s).autocommit = s.autocommit
         /\ Synced(m, s).trans = s.trans /\ Synced(m, s).charset = m.charset
         /\ Synced(m, s).option = m.option /\ Synced(m, s).reconnect = m.reconnect
  BY DEF Synced, Clients, Servers

LEMMA CommitWorkIs ==
  ASSUME NEW s \in Servers
  PROVE  LET t == CommitWork(s)
         IN /\ t \in Servers /\ t.id = s.id /\ t.up = s.up /\ t.charset = s.charset
            /\ t.default = s.default /\ t.autocommit = s.autocommit /\ t.trans = FALSE
            /\ t.pending = {} /\ t.done = s.done \cup s.pending
  BY DEF CommitWork, Servers

LEMMA UndoWorkIs ==
  ASSUME NEW s \in Servers
  PROVE  LET t == UndoWork(s)
         IN /\ t \in Servers /\ t.id = s.id /\ t.up = s.up /\ t.charset = s.charset
            /\ t.default = s.default /\ t.autocommit = s.autocommit /\ t.trans = FALSE
            /\ t.pending = {} /\ t.done = s.done
  BY DEF UndoWork, Servers

LEMMA ServeNames ==
  ASSUME NEW s \in Servers, s.up, NEW arg, CharsetOf(arg) \in Charsets,
         NEW m \in Clients, NEW h \in Histories, Sound(s, Synced(m, s), h)
  PROVE  LET t == Serve(s, "names", arg)
         IN /\ t \in Servers /\ t.up /\ t.id = s.id /\ t.charset = CharsetOf(arg)
            /\ Sound(t, Synced(m, t), h)
<1> DEFINE t == Serve(s, "names", arg)
<1>1. t = [s EXCEPT !.charset = CharsetOf(arg)]
  BY DEF Serve
<1> HIDE DEF t
<1>2. /\ t \in Servers /\ t.id = s.id /\ t.up = s.up /\ t.charset = CharsetOf(arg)
      /\ t.default = s.default /\ t.autocommit = s.autocommit /\ t.trans = s.trans
      /\ t.pending = s.pending /\ t.done = s.done
  BY <1>1 DEF Servers
<1>3. Sound(t, Synced(m, t), h)
  BY <1>2, SyncedIs DEF Sound
<1> QED
  BY <1>2, <1>3 DEF t

(* The session that was asked for its autocommit mode; h is what the       *)
(* program knows then.                                                     *)
LEMMA ServeAutocommit ==
  ASSUME NEW s \in Servers, s.up, NEW on \in BOOLEAN,
         NEW m \in Clients, NEW h \in Histories, NEW k \in Histories,
         Sound(s, Synced(m, s), h),
         k.rows = h.rows, k.autocommit = on, k.settled = s.id,
         \/ k.ran = {} /\ ~k.begun
         \/ /\ k.ran = h.ran /\ k.begun = h.begun
            /\ \/ ~on /\ h.ran \cap s.done = {}
               \/ on /\ (h.begun => s.autocommit)
  PROVE  LET t == Serve(s, "autocommit", on)
         IN /\ t \in Servers /\ t.up /\ t.id = s.id /\ t.charset = s.charset
            /\ Sound(t, Synced(m, t), k)
<1> DEFINE t == Serve(s, "autocommit", on)
           u == IF on /\ ~s.autocommit THEN CommitWork(s) ELSE s
<1>1. t = [u EXCEPT !.autocommit = on]
  BY DEF Serve
<1>2. /\ u \in Servers /\ u.id = s.id /\ u.up = s.up /\ u.charset = s.charset
      /\ u.default = s.default
  BY CommitWorkIs
<1>3. \/ u.pending = {} /\ u.done = s.done \cup s.pending /\ u.trans = FALSE /\ on
      \/ u.pending = s.pending /\ u.done = s.done /\ u.trans = s.trans
  BY CommitWorkIs
<1> HIDE DEF t, u
<1>4. /\ t \in Servers /\ t.id = s.id /\ t.up = s.up /\ t.charset = s.charset
      /\ t.default = s.default /\ t.autocommit = on /\ t.trans = u.trans
      /\ t.pending = u.pending /\ t.done = u.done
  BY <1>1, <1>2 DEF Servers
<1>5. Sound(t, Synced(m, t), k)
  <2>1. s.id \in Nat
    BY SessionAssumption DEF Servers, SessionIds
  <2>3. Synced(m, s).autocommit = s.autocommit /\ Synced(m, s).trans = s.trans
    BY SyncedIs
  <2>4. /\ t.pending # {} => t.trans
        /\ t.pending \subseteq 1..k.rows /\ t.done \subseteq 1..k.rows
        /\ k.ran \subseteq 1..k.rows
        /\ t.pending \cap t.done = {}
        /\ k.ran \subseteq t.pending \cup t.done
    BY <1>3, <1>4 DEF Sound
  <2>5. k.begun => t.trans
    <3>1. CASE k.ran = {} /\ ~k.begun
      BY <3>1
    <3>2. CASE k.begun = h.begun /\ (~on \/ (h.begun => s.autocommit))
      <4>1. h.begun => u = s
        BY <3>2 DEF u
      <4> QED
        BY <1>4, <2>3, <3>2, <4>1 DEF Sound
    <3> QED
      BY <3>1, <3>2
  <2>7. k.begun \/ k.autocommit # TRUE => k.ran \cap t.done = {}
    <3>1. CASE k.ran = {}
      BY <3>1
    <3>2. CASE ~on /\ k.ran = h.ran /\ h.ran \cap s.done = {}
      <4>1. u = s
        BY <3>2 DEF u
      <4> QED
        BY <1>4, <3>2, <4>1
    <3>3. CASE on = TRUE /\ ~k.begun
      BY <3>3
    <3>4. CASE /\ k.begun /\ k.ran = h.ran /\ k.begun = h.begun
               /\ h.begun => s.autocommit
      <4>1. u = s
        BY <3>4 DEF u
      <4>2. h.ran \cap s.done = {}
        BY <3>4 DEF Sound
      <4> QED
        BY <1>4, <3>4, <4>1, <4>2
    <3> QED
      BY <3>1, <3>2, <3>3, <3>4
  <2>8. t.autocommit = k.autocommit /\ (t.autocommit => k.autocommit = TRUE)
    <3>1. CASE on = TRUE
      BY <1>4, <3>1
    <3>2. CASE on = FALSE
      BY <1>4, <3>2
    <3> QED
      BY <3>1, <3>2
  <2>9. t.up /\ k.settled <= t.id
    BY <1>2, <1>4, <2>1
  <2>10. /\ Synced(m, t).autocommit = t.autocommit /\ Synced(m, t).trans = t.trans
         /\ Synced(m, t).link = "up"
    BY <1>4, SyncedIs
  <2> QED
    BY <2>4, <2>5, <2>7, <2>8, <2>9, <2>10 DEF Sound
<1> QED
  BY <1>2, <1>4, <1>5 DEF t

(* h: the program knows of a transaction, and of no rows in it. *)
LEMMA ServeBegin ==
  ASSUME NEW s \in Servers, s.up, NEW arg,
         NEW m \in Clients, NEW h \in Histories, NEW k \in Histories,
         Sound(s, Synced(m, s), h),
         k.rows = h.rows, k.autocommit = h.autocommit, k.settled = h.settled, k.ran = {}
  PROVE  LET t == Serve(s, "begin", arg)
         IN /\ t \in Servers /\ t.up /\ t.id = s.id /\ t.charset = s.charset
            /\ Sound(t, Synced(m, t), k)
<1> DEFINE t == Serve(s, "begin", arg)
           u == CommitWork(s)
<1>1. t = [u EXCEPT !.trans = TRUE]
  BY DEF Serve
<1>2. /\ u \in Servers /\ u.id = s.id /\ u.up = s.up /\ u.charset = s.charset
      /\ u.default = s.default /\ u.autocommit = s.autocommit
      /\ u.pending = {} /\ u.done = s.done \cup s.pending
  BY CommitWorkIs
<1> HIDE DEF t, u
<1>3. /\ t \in Servers /\ t.id = s.id /\ t.up = s.up /\ t.charset = s.charset
      /\ t.default = s.default /\ t.autocommit = s.autocommit /\ t.trans = TRUE
      /\ t.pending = {} /\ t.done = s.done \cup s.pending
  BY <1>1, <1>2 DEF Servers
<1>4. Sound(t, Synced(m, t), k)
  BY <1>3, SyncedIs DEF Sound
<1> QED
  BY <1>3, <1>4 DEF t

(* commit and rollback: the program knows of no transaction. *)
LEMMA ServeEnd ==
  ASSUME NEW s \in Servers, s.up, NEW op \in {"commit", "rollback"}, NEW arg,
         NEW m \in Clients, NEW h \in Histories, NEW k \in Histories,
         Sound(s, Synced(m, s), h),
         k.rows = h.rows, k.autocommit = h.autocommit, k.settled = h.settled,
         k.ran = {}, ~k.begun
  PROVE  LET t == Serve(s, op, arg)
         IN /\ t \in Servers /\ t.up /\ t.id = s.id /\ t.charset = s.charset
            /\ t.done = IF op = "commit" THEN s.done \cup s.pending ELSE s.done
            /\ Sound(t, Synced(m, t), k)
<1> DEFINE t == Serve(s, op, arg)
<1>1. t = IF op = "commit" THEN CommitWork(s) ELSE UndoWork(s)
  <2>1. CASE op = "commit"
    BY <2>1 DEF Serve
  <2>2. CASE op = "rollback"
    BY <2>2 DEF Serve
  <2> QED
    BY <2>1, <2>2
<1> HIDE DEF t
<1>2. /\ t \in Servers /\ t.id = s.id /\ t.up = s.up /\ t.charset = s.charset
      /\ t.default = s.default /\ t.autocommit = s.autocommit /\ t.pending = {}
      /\ t.done = IF op = "commit" THEN s.done \cup s.pending ELSE s.done
  BY <1>1, CommitWorkIs, UndoWorkIs
<1>3. Sound(t, Synced(m, t), k)
  BY <1>2, SyncedIs DEF Sound
<1> QED
  BY <1>2, <1>3 DEF t

(* A row that fails, or whose answer is lost, takes its number. *)
LEMMA RowsGrow ==
  ASSUME NEW s, NEW m, NEW h \in Histories, NEW k \in Histories, Sound(s, m, h),
         h.rows <= k.rows, k.ran = h.ran, k.begun = h.begun,
         k.autocommit = h.autocommit, k.settled = h.settled
  PROVE  Sound(s, m, k)
<1>1. 1..h.rows \subseteq 1..k.rows
  BY SessionAssumption DEF Histories
<1> QED
  BY <1>1 DEF Sound

(* A row that was inserted without an error is new to the session. *)
LEMMA ServeInsert ==
  ASSUME NEW s \in Servers, s.up,
         NEW m \in Clients, NEW h \in Histories, NEW k \in Histories,
         Sound(s, Synced(m, s), h), k.rows = h.rows + 1,
         k.ran = h.ran \cup {k.rows}, k.begun = h.begun,
         k.autocommit = h.autocommit, k.settled = h.settled
  PROVE  LET t == Serve(s, "insert", k.rows)
         IN /\ t \in Servers /\ t.up /\ t.id = s.id /\ t.charset = s.charset
            /\ Sound(t, Synced(m, t), k)
<1> DEFINE t == Serve(s, "insert", k.rows)
<1>0. /\ h.rows \in Nat /\ k.rows \in RowIds /\ k.rows \notin 1..h.rows
      /\ 1..h.rows \subseteq 1..k.rows /\ k.rows \in 1..k.rows
  BY SessionAssumption DEF Histories, RowIds
<1>1. /\ Synced(m, s).autocommit = s.autocommit /\ Synced(m, s).trans = s.trans
  BY SyncedIs
<1>2. CASE s.autocommit = TRUE /\ s.trans = FALSE
  <2>1. t = [s EXCEPT !.done = s.done \cup {k.rows}]
    BY <1>2 DEF Serve
  <2> HIDE DEF t
  <2>2. /\ t \in Servers /\ t.id = s.id /\ t.up = s.up /\ t.charset = s.charset
        /\ t.default = s.default /\ t.autocommit = s.autocommit /\ t.trans = s.trans
        /\ t.pending = s.pending /\ t.done = s.done \cup {k.rows}
    BY <1>0, <2>1 DEF Servers
  <2>3. s.pending = {} /\ ~k.begun
    BY <1>1, <1>2 DEF Sound
  <2>4. k.autocommit = TRUE \/ s.default
    BY <1>2 DEF Sound
  <2>5. /\ Synced(m, t).autocommit = TRUE /\ Synced(m, t).trans = FALSE
        /\ Synced(m, t).link = "up"
    BY <1>2, <2>2, SyncedIs
  <2>6. Sound(t, Synced(m, t), k)
    BY <1>0, <1>2, <2>2, <2>3, <2>4, <2>5 DEF Sound
  <2> QED
    BY <2>2, <2>6 DEF t
<1>3. CASE ~(s.autocommit = TRUE /\ s.trans = FALSE)
  <2>1. t = [s EXCEPT !.pending = s.pending \cup {k.rows}, !.trans = TRUE]
    BY <1>3 DEF Serve, Servers
  <2> HIDE DEF t
  <2>2. /\ t \in Servers /\ t.id = s.id /\ t.up = s.up /\ t.charset = s.charset
        /\ t.default = s.default /\ t.autocommit = s.autocommit /\ t.trans = TRUE
        /\ t.pending = s.pending \cup {k.rows} /\ t.done = s.done
    BY <1>0, <2>1 DEF Servers
  <2>3. /\ Synced(m, t).autocommit = s.autocommit /\ Synced(m, t).trans = TRUE
        /\ Synced(m, t).link = "up"
    BY <2>2, SyncedIs
  <2>4. /\ t.pending \cap t.done = {}
        /\ h.ran \cap s.done = {} => k.ran \cap t.done = {}
        /\ t.pending \subseteq 1..k.rows /\ t.done \subseteq 1..k.rows
        /\ k.ran \subseteq 1..k.rows /\ k.ran \subseteq t.pending \cup t.done
    BY <1>0, <2>2 DEF Sound
  <2>5. Sound(t, Synced(m, t), k)
    BY <1>1, <2>2, <2>3, <2>4 DEF Sound
  <2> QED
    BY <2>2, <2>5 DEF t
<1> QED
  BY <1>2, <1>3

(* The user changes: the session starts again with the server's modes. *)
LEMMA ServeChangeUser ==
  ASSUME NEW s \in Servers, s.up, NEW arg \in Charsets,
         NEW m \in Clients, NEW h \in Histories, NEW k \in Histories,
         Sound(s, Synced(m, s), h),
         k.rows = h.rows, k.autocommit = None, k.settled = h.settled,
         k.ran = {}, ~k.begun
  PROVE  LET t == Serve(s, "change_user", arg)
         IN /\ t \in Servers /\ t.up /\ t.id = s.id /\ t.charset = arg
            /\ Sound(t, Synced(m, t), k)
<1> DEFINE t == Serve(s, "change_user", arg)
           u == UndoWork(s)
<1>1. t = [u EXCEPT !.charset = arg, !.autocommit = s.default]
  BY DEF Serve
<1>2. /\ u \in Servers /\ u.id = s.id /\ u.up = s.up /\ u.default = s.default
      /\ u.trans = FALSE /\ u.pending = {} /\ u.done = s.done
  BY UndoWorkIs
<1>3. s.default \in BOOLEAN
  BY DEF Servers
<1> HIDE DEF t, u
<1>4. /\ t \in Servers /\ t.id = s.id /\ t.up = s.up /\ t.charset = arg
      /\ t.default = s.default /\ t.autocommit = s.default /\ t.trans = FALSE
      /\ t.pending = {} /\ t.done = s.done
  BY <1>1, <1>2, <1>3 DEF Servers
<1>5. Sound(t, Synced(m, t), k)
  BY <1>4, SyncedIs DEF Sound
<1> QED
  BY <1>4, <1>5 DEF t

(* The session is gone, and the program was not told. *)
LEMMA GoneSound ==
  ASSUME NEW s \in Servers, s.up, NEW m \in Clients, NEW h, Sound(s, m, h)
  PROVE  Sound(Gone(s), m, h)
<1>1. /\ Gone(s).up = FALSE /\ Gone(s).pending = {} /\ Gone(s).done = s.done
      /\ Gone(s).id = s.id /\ Gone(s).default = s.default
  BY GoneIs DEF Gone, Servers
<1>2. m.trans \/ h.ran \subseteq s.done
  BY DEF Sound
<1> QED
  BY <1>1, <1>2 DEF Sound

-----------------------------------------------------------------------------
Commands ==
  {"names", "autocommit", "begin", "commit", "rollback", "insert", "change_user", "ping"}

Operand(op, arg) ==
  /\ op = "names" => CharsetOf(arg) \in Charsets
  /\ op = "autocommit" => arg \in BOOLEAN
  /\ op = "insert" => arg \in RowIds
  /\ op = "change_user" => arg \in Charsets

(* What every command leaves of a session. *)
LEMMA ServeIs ==
  ASSUME NEW s \in Servers, NEW op \in Commands, NEW arg, Operand(op, arg)
  PROVE  LET t == Serve(s, op, arg)
         IN /\ t \in Servers /\ t.id = s.id /\ t.up = s.up
            /\ t.charset = (IF op = "names" THEN CharsetOf(arg)
                            ELSE IF op = "change_user" THEN arg ELSE s.charset)
            /\ t.done \subseteq s.done \cup s.pending \cup
                                (IF op = "insert" THEN {arg} ELSE {})
<1> DEFINE t == Serve(s, op, arg)
<1>1. CASE op = "names"
  <2>1. t = [s EXCEPT !.charset = CharsetOf(arg)]
    BY <1>1 DEF Serve
  <2> QED
    BY <1>1, <2>1 DEF Operand, Servers
<1>2. CASE op = "autocommit"
  <2> DEFINE u == IF arg /\ ~s.autocommit THEN CommitWork(s) ELSE s
  <2>1. t = [u EXCEPT !.autocommit = arg]
    BY <1>2 DEF Serve
  <2>2. /\ u \in Servers /\ u.id = s.id /\ u.up = s.up /\ u.charset = s.charset
        /\ u.done \subseteq s.done \cup s.pending
    BY CommitWorkIs
  <2> HIDE DEF u, t
  <2>3. arg \in BOOLEAN
    BY <1>2 DEF Operand
  <2>4. /\ t \in Servers /\ t.id = s.id /\ t.up = s.up /\ t.charset = s.charset
        /\ t.done = u.done
    BY <2>1, <2>2, <2>3 DEF Servers
  <2> QED
    BY <1>2, <2>2, <2>4 DEF t
<1>3. CASE op = "begin"
  <2>1. t = [CommitWork(s) EXCEPT !.trans = TRUE]
    BY <1>3 DEF Serve
  <2> HIDE DEF t
  <2>2. /\ t \in Servers /\ t.id = s.id /\ t.up = s.up /\ t.charset = s.charset
        /\ t.done = s.done \cup s.pending
    BY <2>1, CommitWorkIs DEF Servers
  <2> QED
    BY <1>3, <2>2 DEF t
<1>4. CASE op = "commit"
  <2>1. t = CommitWork(s)
    BY <1>4 DEF Serve
  <2> HIDE DEF t
  <2>2. /\ t \in Servers /\ t.id = s.id /\ t.up = s.up /\ t.charset = s.charset
        /\ t.done = s.done \cup s.pending
    BY <2>1, CommitWorkIs
  <2> QED
    BY <1>4, <2>2 DEF t
<1>5. CASE op = "rollback"
  <2>1. t = UndoWork(s)
    BY <1>5 DEF Serve
  <2> HIDE DEF t
  <2>2. /\ t \in Servers /\ t.id = s.id /\ t.up = s.up /\ t.charset = s.charset
        /\ t.done = s.done
    BY <2>1, UndoWorkIs
  <2> QED
    BY <1>5, <2>2 DEF t
<1>6. CASE op = "insert"
  <2>1. arg \in RowIds
    BY <1>6 DEF Operand
  <2>2. \/ t = [s EXCEPT !.done = s.done \cup {arg}]
        \/ t = [s EXCEPT !.pending = s.pending \cup {arg}, !.trans = TRUE]
    BY <1>6 DEF Serve
  <2> HIDE DEF t
  <2>3. CASE t = [s EXCEPT !.done = s.done \cup {arg}]
    <3>1. /\ t \in Servers /\ t.id = s.id /\ t.up = s.up /\ t.charset = s.charset
          /\ t.done = s.done \cup {arg}
      BY <2>1, <2>3 DEF Servers
    <3> QED
      BY <1>6, <3>1 DEF t
  <2>4. CASE t = [s EXCEPT !.pending = s.pending \cup {arg}, !.trans = TRUE]
    <3>1. /\ t \in Servers /\ t.id = s.id /\ t.up = s.up /\ t.charset = s.charset
          /\ t.done = s.done
      BY <2>1, <2>4 DEF Servers
    <3> QED
      BY <1>6, <3>1 DEF t
  <2> QED
    BY <2>2, <2>3, <2>4
<1>7. CASE op = "change_user"
  <2>1. t = [UndoWork(s) EXCEPT !.charset = arg, !.autocommit = s.default]
    BY <1>7 DEF Serve
  <2>2. arg \in Charsets /\ s.default \in BOOLEAN
    BY <1>7 DEF Operand, Servers
  <2> HIDE DEF t
  <2>3. /\ t \in Servers /\ t.id = s.id /\ t.up = s.up /\ t.charset = arg
        /\ t.done = s.done
    BY <2>1, <2>2, UndoWorkIs DEF Servers
  <2> QED
    BY <1>7, <2>3 DEF t
<1>8. CASE op = "ping"
  <2>1. t = s
    BY <1>8 DEF Serve
  <2> QED
    BY <1>8, <2>1
<1> QED
  BY <1>1, <1>2, <1>3, <1>4, <1>5, <1>6, <1>7, <1>8 DEF Commands

(* Another session is opened only when the library was told to reconnect,  *)
(* and it gets the library's character set.                                *)
LEMMA OpenedIs ==
  ASSUME TypeOK, Sound(srv, my, hist), NEW m, SameButReconnect(m),
         NEW s, Opened(s, m)
  PROVE  /\ s \in Servers /\ s.up = TRUE /\ srv.id <= s.id
         /\ s.id # srv.id => m.reconnect
         /\ (srv.up => srv.charset = my.charset) => s.charset = my.charset
<1>1. /\ s \in Servers /\ s.up /\ srv.id <= s.id
  BY OpenedSound
<1>2. s.up = TRUE
  BY <1>1 DEF Servers
<1>3. CASE s = srv /\ srv.up
  BY <1>1, <1>2, <1>3
<1>4. CASE s = NewSession(srv, m.charset) /\ m.reconnect /\ srv.id < MaxSessions
  <2>1. m.charset \in Charsets /\ srv \in Servers /\ m.charset = my.charset
    BY DEF SameButReconnect, Clients, TypeOK
  <2>2. s.charset = m.charset
    BY <1>4, <2>1, NewSessionIs
  <2> QED
    BY <1>1, <1>2, <1>4, <2>1, <2>2
<1> QED
  BY <1>3, <1>4 DEF Opened

(* What every command does, whatever comes back. *)
LEMMA SentIs ==
  ASSUME TypeOK, Sound(srv, my, hist), NEW m, SameButReconnect(m),
         NEW op \in Commands, NEW arg, Operand(op, arg), NEW r \in Send(m, op, arg)
  PROVE  /\ r.srv \in Servers /\ r.my \in Clients
         /\ r.exc \in {"none", "server", "lost"}
         /\ r.my.charset = my.charset /\ r.my.option = my.option
         /\ r.my.reconnect = m.reconnect
         /\ srv.id <= r.srv.id /\ (r.srv.id # srv.id => m.reconnect)
         /\ (srv.up => srv.charset = my.charset) /\ r.srv.up =>
              r.srv.charset =
                (IF r.exc = "none" /\ op = "names" THEN CharsetOf(arg)
                 ELSE IF r.exc = "none" /\ op = "change_user" THEN arg
                 ELSE my.charset)
<1>0. /\ srv \in Servers /\ m \in Clients /\ m.charset = my.charset
      /\ m.option = my.option /\ srv.id \in Nat
  BY SessionAssumption DEF TypeOK, SameButReconnect, Servers, SessionIds
<1>1. CASE Accepted(r, m, op, arg)
  <2>1. PICK s : /\ Opened(s, m)
                 /\ r.srv = Serve(s, op, arg) /\ r.my = Synced(m, r.srv)
    BY <1>1 DEF Accepted
  <2>2. /\ s \in Servers /\ s.up = TRUE /\ srv.id <= s.id
        /\ s.id # srv.id => m.reconnect
        /\ (srv.up => srv.charset = my.charset) => s.charset = my.charset
    BY <2>1, OpenedIs
  <2>3. /\ r.srv \in Servers /\ r.srv.id = s.id /\ r.srv.up = s.up
        /\ r.srv.charset = (IF op = "names" THEN CharsetOf(arg)
                            ELSE IF op = "change_user" THEN arg ELSE s.charset)
    BY <2>1, <2>2, ServeIs
  <2>4. /\ r.my \in Clients /\ r.my.charset = m.charset /\ r.my.option = m.option
        /\ r.my.reconnect = m.reconnect
    BY <1>0, <2>1, <2>3, SyncedIs
  <2>5. r.exc = "none"
    BY <1>1 DEF Accepted
  <2> QED
    BY <1>0, <2>2, <2>3, <2>4, <2>5
<1>2. CASE Denied(r, m, op)
  <2>1. PICK s : /\ Opened(s, m)
                 /\ r.srv = (IF op = "change_user" THEN Gone(s) ELSE s)
                 /\ r.my = Synced(m, s)
    BY <1>2 DEF Denied
  <2>2. /\ s \in Servers /\ s.up = TRUE /\ srv.id <= s.id
        /\ s.id # srv.id => m.reconnect
        /\ (srv.up => srv.charset = my.charset) => s.charset = my.charset
    BY <2>1, OpenedIs
  <2>3. /\ r.srv \in Servers /\ r.srv.id = s.id
        /\ r.srv.up => r.srv.charset = s.charset
    BY <2>1, <2>2, GoneIs
  <2>4. /\ r.my \in Clients /\ r.my.charset = m.charset /\ r.my.option = m.option
        /\ r.my.reconnect = m.reconnect
    BY <1>0, <2>1, <2>2, SyncedIs
  <2>5. r.exc = "server"
    BY <1>2 DEF Denied
  <2> QED
    BY <1>0, <2>2, <2>3, <2>4, <2>5
<1>3. CASE NoAnswer(r, m, op, arg)
  <2>1. r.srv \in Servers /\ r.srv.id = srv.id /\ ~r.srv.up
    <3>1. CASE r.srv = srv /\ ~srv.up
      BY <1>0, <3>1
    <3>2. CASE r.srv = Gone(Serve(srv, op, arg))
      BY <1>0, <3>2, ServeIs, GoneIs
    <3> QED
      BY <1>3, <3>1, <3>2 DEF NoAnswer
  <2>2. /\ r.my \in Clients /\ r.my.charset = m.charset /\ r.my.option = m.option
        /\ r.my.reconnect = m.reconnect
    <3>1. PICK trans \in BOOLEAN : r.my = [m EXCEPT !.link = "closed", !.trans = trans]
      BY <1>3 DEF NoAnswer
    <3> QED
      BY <1>0, <3>1 DEF Clients
  <2>3. r.exc = "lost"
    BY <1>3 DEF NoAnswer
  <2> QED
    BY <1>0, <2>1, <2>2, <2>3
<1> QED
  BY <1>1, <1>2, <1>3, SendIs

(* A command that is refused leaves a sound session, and so does one whose *)
(* answer is lost once the program is told; h allows for the row that an   *)
(* INSERT may have left.                                                   *)
LEMMA FailedSound ==
  ASSUME TypeOK, Sound(srv, my, hist), NEW m, SameButReconnect(m),
         NEW op \in Commands, NEW arg, Operand(op, arg), NEW r \in Send(m, op, arg),
         NEW h \in Histories, hist.rows <= h.rows,
         op = "insert" => arg \in 1..h.rows,
         h.settled = hist.settled, h.autocommit = hist.autocommit,
         \/ r.exc = "server" /\ h.ran = hist.ran /\ h.begun = hist.begun
         \/ r.exc = "lost" /\ h.ran = {} /\ ~h.begun
  PROVE  Sound(r.srv, r.my, h)
<1>0. srv \in Servers /\ m \in Clients /\ hist \in Histories
  BY DEF TypeOK, SameButReconnect
<1>1. CASE Accepted(r, m, op, arg)
  BY <1>1 DEF Accepted
<1>2. CASE Denied(r, m, op)
  <2>1. PICK s : /\ Opened(s, m)
                 /\ r.srv = (IF op = "change_user" THEN Gone(s) ELSE s)
                 /\ r.my = Synced(m, s)
    BY <1>2 DEF Denied
  <2>2. /\ s \in Servers /\ s.up /\ Synced(m, s) \in Clients
        /\ Sound(s, Synced(m, s), hist)
    BY <2>1, OpenedSound
  <2>3. Sound(r.srv, r.my, hist)
    BY <2>1, <2>2, GoneSound
  <2>4. r.exc = "server"
    BY <1>2 DEF Denied
  <2> QED
    BY <1>0, <2>3, <2>4, RowsGrow
<1>3. CASE NoAnswer(r, m, op, arg)
  <2>1. 1..hist.rows \subseteq 1..h.rows
    BY <1>0, SessionAssumption DEF Histories
  <2>2. /\ r.srv \in Servers /\ ~r.srv.up /\ r.srv.pending = {}
        /\ r.srv.done \subseteq 1..h.rows /\ r.srv.id = srv.id
    <3>1. CASE r.srv = srv /\ ~srv.up
      BY <1>0, <2>1, <3>1 DEF Sound
    <3>2. CASE r.srv = Gone(Serve(srv, op, arg))
      <4> DEFINE t == Serve(srv, op, arg)
      <4>1. /\ t \in Servers /\ t.id = srv.id
            /\ t.done \subseteq srv.done \cup srv.pending \cup
                                (IF op = "insert" THEN {arg} ELSE {})
        BY <1>0, ServeIs
      <4>2. t.done \subseteq 1..h.rows
        BY <2>1, <4>1 DEF Sound
      <4> HIDE DEF t
      <4>3. r.srv = Gone(t)
        BY <3>2 DEF t
      <4> QED
        BY <4>1, <4>2, <4>3, GoneIs
    <3> QED
      BY <1>3, <3>1, <3>2 DEF NoAnswer
  <2>3. h.settled <= r.srv.id
    BY <2>2 DEF Sound
  <2>4. r.exc = "lost"
    BY <1>3 DEF NoAnswer
  <2> QED
    BY <2>2, <2>3, <2>4, LostSound
<1> QED
  BY <1>1, <1>2, <1>3, SendIs

-----------------------------------------------------------------------------
(* The plans: what is left of one after a step, and what the step may be. *)
LEMMA PlanIs ==
  ASSUME NEW method \in Methods, NEW plan \in Plans(method), plan # << >>
  PROVE  \/ method = "execute" /\ plan = <<"set">>
         \/ method = "execute" /\ plan = <<"insert">>
         \/ method = "autocommit" /\ plan = <<"get">>
         \/ method = "autocommit" /\ plan = <<"set">>
         \/ method = "set_character_set" /\ plan = <<"charset">>
         \/ method = "set_character_set" /\ plan = <<"charset", "collate">>
         \/ method = "set_character_set" /\ plan = <<"collate">>
         \/ method = "construct" /\ plan = <<"connect", "charset", "built">>
         \/ method = "construct" /\ plan = <<"connect", "charset", "get", "built">>
         \/ /\ method = "construct"
            /\ plan = <<"connect", "charset", "collate", "built">>
         \/ /\ method = "construct"
            /\ plan = <<"connect", "charset", "collate", "get", "built">>
         \/ method = "construct" /\ plan = <<"charset", "built">>
         \/ method = "construct" /\ plan = <<"charset", "collate", "built">>
         \/ method = "construct" /\ plan = <<"charset", "collate", "get", "built">>
         \/ method = "construct" /\ plan = <<"collate", "built">>
         \/ method = "construct" /\ plan = <<"collate", "get", "built">>
         \/ method = "construct" /\ plan = <<"charset", "get", "built">>
         \/ method = "construct" /\ plan = <<"get", "built">>
         \/ method = "construct" /\ plan = <<"set", "built">>
         \/ method = "construct" /\ plan = <<"built">>
         \/ /\ method \in {"begin", "commit", "rollback", "change_user", "ping"}
            /\ plan = <<method>>
<1>1. CASE method = "none"
  BY <1>1 DEF Plans
<1>2. CASE method = "execute"
  BY <1>2 DEF Plans
<1>3. CASE method = "autocommit"
  BY <1>3 DEF Plans
<1>4. CASE method = "set_character_set"
  BY <1>4 DEF Plans
<1>5. CASE method = "construct"
  BY <1>5 DEF Plans
<1>6. CASE method \in {"begin", "commit", "rollback", "change_user", "ping"}
  <2>1. Plans(method) = {<< >>, <<method>>}
    BY <1>6 DEF Plans
  <2> QED
    BY <1>6, <2>1
<1> QED
  BY <1>1, <1>2, <1>3, <1>4, <1>5, <1>6 DEF Methods

OneCommand == {"insert", "begin", "commit", "rollback", "change_user", "ping"}

(* step is what the method does now, and rest the plan after it. *)
Follows(method, step, rest) ==
  /\ rest \in Plans(method)
  /\ rest # << >> =>
       \/ method = "construct" /\ step = "connect" /\ Head(rest) = "charset"
       \/ method = "construct" /\ step = "charset" /\ Head(rest) \in {"collate", "get", "built"}
       \/ method = "construct" /\ step = "collate" /\ Head(rest) \in {"get", "built"}
       \/ method = "construct" /\ step \in {"get", "set"} /\ Head(rest) = "built"
       \/ method = "set_character_set" /\ step = "charset" /\ Head(rest) = "collate"
  /\ step \in {"connect", "built"} => method = "construct"
  /\ step \in {"charset", "collate"} => method \in {"construct", "set_character_set"}
  /\ step = "get" => method \in {"construct", "autocommit"}
  /\ step = "set" => method \in {"construct", "autocommit", "execute"}
  /\ step \in OneCommand \cup {"built"} => rest = << >>
  /\ step \in OneCommand => method # "construct"
  /\ method \in OneCommand => step = method

LEMMA PlanStep ==
  ASSUME NEW method \in Methods, NEW plan \in Plans(method), plan # << >>
  PROVE  /\ Follows(method, Head(plan), Tail(plan))
         /\ Head(plan) \in Steps
         /\ Head(plan) = "get" =>
              LET set == [plan EXCEPT ![1] = "set"]
              IN set \in Plans(method) /\ set # << >> /\ Head(set) = "set"
<1>1. CASE method = "execute" /\ plan = <<"set">>
  <2>1. Head(plan) = "set" /\ Tail(plan) = << >>
    BY <1>1
  <2>2. << >> \in Plans(method)
    BY <1>1 DEF Plans
  <2> QED
    BY <1>1, <2>1, <2>2 DEF Follows, OneCommand, Steps
<1>2. CASE method = "execute" /\ plan = <<"insert">>
  <2>1. Head(plan) = "insert" /\ Tail(plan) = << >>
    BY <1>2
  <2>2. << >> \in Plans(method)
    BY <1>2 DEF Plans
  <2> QED
    BY <1>2, <2>1, <2>2 DEF Follows, OneCommand, Steps
<1>3. CASE method = "autocommit" /\ plan = <<"get">>
  <2>1. Head(plan) = "get" /\ Tail(plan) = << >>
    BY <1>3
  <2>2. << >> \in Plans(method)
    BY <1>3 DEF Plans
  <2>4. [plan EXCEPT ![1] = "set"] = <<"set">>
    BY <1>3
  <2>5. <<"set">> \in Plans(method) /\ <<"set">> # << >> /\ Head(<<"set">>) = "set"
    BY <1>3 DEF Plans
  <2> QED
    BY <1>3, <2>1, <2>2, <2>4, <2>5 DEF Follows, OneCommand, Steps
<1>4. CASE method = "autocommit" /\ plan = <<"set">>
  <2>1. Head(plan) = "set" /\ Tail(plan) = << >>
    BY <1>4
  <2>2. << >> \in Plans(method)
    BY <1>4 DEF Plans
  <2> QED
    BY <1>4, <2>1, <2>2 DEF Follows, OneCommand, Steps
<1>5. CASE method = "set_character_set" /\ plan = <<"charset">>
  <2>1. Head(plan) = "charset" /\ Tail(plan) = << >>
    BY <1>5
  <2>2. << >> \in Plans(method)
    BY <1>5 DEF Plans
  <2> QED
    BY <1>5, <2>1, <2>2 DEF Follows, OneCommand, Steps
<1>6. CASE method = "set_character_set" /\ plan = <<"charset", "collate">>
  <2>1. Head(plan) = "charset" /\ Tail(plan) = <<"collate">>
    BY <1>6
  <2>2. Head(<<"collate">>) = "collate"
    OBVIOUS
  <2>3. <<"collate">> \in Plans(method)
    BY <1>6 DEF Plans
  <2> QED
    BY <1>6, <2>1, <2>2, <2>3 DEF Follows, OneCommand, Steps
<1>7. CASE method = "set_character_set" /\ plan = <<"collate">>
  <2>1. Head(plan) = "collate" /\ Tail(plan) = << >>
    BY <1>7
  <2>2. << >> \in Plans(method)
    BY <1>7 DEF Plans
  <2> QED
    BY <1>7, <2>1, <2>2 DEF Follows, OneCommand, Steps
<1>8. CASE method = "construct" /\ plan = <<"connect", "charset", "built">>
  <2>1. Head(plan) = "connect" /\ Tail(plan) = <<"charset", "built">>
    BY <1>8
  <2>2. Head(<<"charset", "built">>) = "charset"
    OBVIOUS
  <2>3. <<"charset", "built">> \in Plans(method)
    BY <1>8 DEF Plans
  <2> QED
    BY <1>8, <2>1, <2>2, <2>3 DEF Follows, OneCommand, Steps
<1>9. CASE method = "construct" /\ plan = <<"connect", "charset", "get", "built">>
  <2>1. Head(plan) = "connect" /\ Tail(plan) = <<"charset", "get", "built">>
    BY <1>9
  <2>2. Head(<<"charset", "get", "built">>) = "charset"
    OBVIOUS
  <2>3. <<"charset", "get", "built">> \in Plans(method)
    BY <1>9 DEF Plans
  <2> QED
    BY <1>9, <2>1, <2>2, <2>3 DEF Follows, OneCommand, Steps
<1>10. CASE method = "construct" /\ plan = <<"charset", "built">>
  <2>1. Head(plan) = "charset" /\ Tail(plan) = <<"built">>
    BY <1>10
  <2>2. Head(<<"built">>) = "built"
    OBVIOUS
  <2>3. <<"built">> \in Plans(method)
    BY <1>10 DEF Plans
  <2> QED
    BY <1>10, <2>1, <2>2, <2>3 DEF Follows, OneCommand, Steps
<1>11. CASE method = "construct" /\ plan = <<"charset", "get", "built">>
  <2>1. Head(plan) = "charset" /\ Tail(plan) = <<"get", "built">>
    BY <1>11
  <2>2. Head(<<"get", "built">>) = "get"
    OBVIOUS
  <2>3. <<"get", "built">> \in Plans(method)
    BY <1>11 DEF Plans
  <2> QED
    BY <1>11, <2>1, <2>2, <2>3 DEF Follows, OneCommand, Steps
<1>12. CASE method = "construct" /\ plan = <<"get", "built">>
  <2>1. Head(plan) = "get" /\ Tail(plan) = <<"built">>
    BY <1>12
  <2>2. Head(<<"built">>) = "built"
    OBVIOUS
  <2>3. <<"built">> \in Plans(method)
    BY <1>12 DEF Plans
  <2>4. [plan EXCEPT ![1] = "set"] = <<"set", "built">>
    BY <1>12
  <2>5. <<"set", "built">> \in Plans(method) /\ <<"set", "built">> # << >> /\ Head(<<"set", "built">>) = "set"
    BY <1>12 DEF Plans
  <2> QED
    BY <1>12, <2>1, <2>2, <2>3, <2>4, <2>5 DEF Follows, OneCommand, Steps
<1>13. CASE method = "construct" /\ plan = <<"set", "built">>
  <2>1. Head(plan) = "set" /\ Tail(plan) = <<"built">>
    BY <1>13
  <2>2. Head(<<"built">>) = "built"
    OBVIOUS
  <2>3. <<"built">> \in Plans(method)
    BY <1>13 DEF Plans
  <2> QED
    BY <1>13, <2>1, <2>2, <2>3 DEF Follows, OneCommand, Steps
<1>14. CASE method = "construct" /\ plan = <<"built">>
  <2>1. Head(plan) = "built" /\ Tail(plan) = << >>
    BY <1>14
  <2>2. << >> \in Plans(method)
    BY <1>14 DEF Plans
  <2> QED
    BY <1>14, <2>1, <2>2 DEF Follows, OneCommand, Steps
<1>15. CASE /\ method \in {"begin", "commit", "rollback", "change_user", "ping"}
            /\ plan = <<method>>
  <2>1. Head(plan) = method /\ Tail(plan) = << >>
    BY <1>15
  <2>2. << >> \in Plans(method)
    BY DEF Plans
  <2> QED
    BY <1>15, <2>1, <2>2 DEF Follows, OneCommand, Steps
<1>16. CASE method = "construct" /\ plan = <<"connect", "charset", "collate", "built">>
  <2>1. Head(plan) = "connect" /\ Tail(plan) = <<"charset", "collate", "built">>
    BY <1>16
  <2>2. Head(<<"charset", "collate", "built">>) = "charset"
    OBVIOUS
  <2>3. <<"charset", "collate", "built">> \in Plans(method)
    BY <1>16 DEF Plans
  <2> QED
    BY <1>16, <2>1, <2>2, <2>3 DEF Follows, OneCommand, Steps
<1>17. CASE method = "construct" /\ plan = <<"connect", "charset", "collate", "get", "built">>
  <2>1. Head(plan) = "connect" /\ Tail(plan) = <<"charset", "collate", "get", "built">>
    BY <1>17
  <2>2. Head(<<"charset", "collate", "get", "built">>) = "charset"
    OBVIOUS
  <2>3. <<"charset", "collate", "get", "built">> \in Plans(method)
    BY <1>17 DEF Plans
  <2> QED
    BY <1>17, <2>1, <2>2, <2>3 DEF Follows, OneCommand, Steps
<1>18. CASE method = "construct" /\ plan = <<"charset", "collate", "built">>
  <2>1. Head(plan) = "charset" /\ Tail(plan) = <<"collate", "built">>
    BY <1>18
  <2>2. Head(<<"collate", "built">>) = "collate"
    OBVIOUS
  <2>3. <<"collate", "built">> \in Plans(method)
    BY <1>18 DEF Plans
  <2> QED
    BY <1>18, <2>1, <2>2, <2>3 DEF Follows, OneCommand, Steps
<1>19. CASE method = "construct" /\ plan = <<"charset", "collate", "get", "built">>
  <2>1. Head(plan) = "charset" /\ Tail(plan) = <<"collate", "get", "built">>
    BY <1>19
  <2>2. Head(<<"collate", "get", "built">>) = "collate"
    OBVIOUS
  <2>3. <<"collate", "get", "built">> \in Plans(method)
    BY <1>19 DEF Plans
  <2> QED
    BY <1>19, <2>1, <2>2, <2>3 DEF Follows, OneCommand, Steps
<1>20. CASE method = "construct" /\ plan = <<"collate", "built">>
  <2>1. Head(plan) = "collate" /\ Tail(plan) = <<"built">>
    BY <1>20
  <2>2. Head(<<"built">>) = "built"
    OBVIOUS
  <2>3. <<"built">> \in Plans(method)
    BY <1>20 DEF Plans
  <2> QED
    BY <1>20, <2>1, <2>2, <2>3 DEF Follows, OneCommand, Steps
<1>21. CASE method = "construct" /\ plan = <<"collate", "get", "built">>
  <2>1. Head(plan) = "collate" /\ Tail(plan) = <<"get", "built">>
    BY <1>21
  <2>2. Head(<<"get", "built">>) = "get"
    OBVIOUS
  <2>3. <<"get", "built">> \in Plans(method)
    BY <1>21 DEF Plans
  <2> QED
    BY <1>21, <2>1, <2>2, <2>3 DEF Follows, OneCommand, Steps
<1> QED
  BY PlanIs, <1>1, <1>2, <1>3, <1>4, <1>5, <1>6, <1>7, <1>8, <1>9, <1>10, <1>11, <1>12,
     <1>13, <1>14, <1>15, <1>16, <1>17, <1>18, <1>19, <1>20, <1>21

-----------------------------------------------------------------------------
(* A step of a method returns, or raises and ends it. *)
LEMMA RunStep ==
  ASSUME TypeOK, PlanInv, ~Idle, NEW exc \in {"none", "server", "lost"}, Returned(exc)
  PROVE  /\ run' \in Runs /\ run'.exc = exc
         /\ run'.method = run.method /\ run'.charset = run.charset /\ run'.on = run.on
         /\ run'.plan = IF exc = "none" THEN Tail(run.plan) ELSE << >>
         /\ Follows(run.method, Head(run.plan), run'.plan)
<1>1. /\ run \in Runs /\ run.plan \in Seq(Steps) /\ run.plan # << >>
      /\ run.method \in Methods /\ run.plan \in Plans(run.method)
  BY DEF TypeOK, PlanInv, Idle, Runs
<1>2. Tail(run.plan) \in Seq(Steps) /\ << >> \in Seq(Steps)
  BY <1>1
<1>3. run' = [run EXCEPT !.exc = exc,
                         !.plan = IF exc = "none" THEN Tail(run.plan) ELSE << >>]
  BY DEF Returned
<1>4. /\ run' \in Runs /\ run'.exc = exc
      /\ run'.method = run.method /\ run'.charset = run.charset /\ run'.on = run.on
      /\ run'.plan = IF exc = "none" THEN Tail(run.plan) ELSE << >>
  BY <1>1, <1>2, <1>3 DEF Runs
<1>5. << >> \in Plans(run.method)
  BY DEF Plans
<1>6. Follows(run.method, Head(run.plan), Tail(run.plan))
  BY <1>1, PlanStep
<1>7. Follows(run.method, Head(run.plan), << >>)
  BY <1>5, <1>6 DEF Follows
<1> QED
  BY <1>4, <1>6, <1>7

LEMMA PlanKept ==
  ASSUME TypeOK, PlanInv, ~Idle, NEW exc \in {"none", "server", "lost"}, Returned(exc),
         run'.plan # << >> =>
           py'.built = py.built \/ (run.method = "construct" /\ py'.built = FALSE),
         exc = "none" /\ Head(run.plan) = "charset" =>
           my'.charset =
             CharsetOf(IF run.charset = None THEN my'.charset ELSE run.charset)
  PROVE  PlanInv' /\ run' \in Runs
<1>1. /\ run' \in Runs
      /\ run'.method = run.method /\ run'.charset = run.charset /\ run'.on = run.on
      /\ run'.plan = IF exc = "none" THEN Tail(run.plan) ELSE << >>
      /\ Follows(run.method, Head(run.plan), run'.plan)
  BY RunStep
<1>2. run'.plan \in Plans(run'.method)
  BY <1>1 DEF Follows
<1>3. run'.plan # << >> => (py'.built <=> run'.method # "construct")
  BY <1>1 DEF PlanInv, Idle
<1>4. run'.plan # << >> => Head(run'.plan) \in {"charset", "get", "built", "collate"}
  BY <1>1 DEF Follows
<1>5. ASSUME run'.on = None, NEW i \in DOMAIN run'.plan
      PROVE  run'.plan[i] \notin {"get", "set"}
  <2>1. run.plan \in Seq(Steps) /\ run.plan # << >>
    BY DEF TypeOK, Runs, Idle
  <2>2. CASE run'.plan = << >>
    BY <1>5, <2>2
  <2>3. CASE run'.plan = Tail(run.plan)
    <3>1. i \in 1 .. Len(run.plan) - 1 /\ i + 1 \in DOMAIN run.plan
      BY <1>5, <2>1, <2>3
    <3>2. Tail(run.plan)[i] = run.plan[i + 1]
      BY <2>1, <3>1
    <3>3. run.on = None
      BY <1>1, <1>5
    <3> QED
      BY <2>3, <3>1, <3>2, <3>3 DEF PlanInv
  <2> QED
    BY <1>1, <2>2, <2>3
<1>6. run'.method = "set_character_set" => run'.charset \in Names
  BY <1>1 DEF PlanInv
<1>7. run'.plan # << >> /\ Head(run'.plan) = "collate" =>
        my'.charset = CharsetOf(GivenCharset')
  BY <1>1 DEF Follows, GivenCharset
<1> QED
  BY <1>1, <1>2, <1>3, <1>4, <1>5, <1>6, <1>7 DEF PlanInv, Idle, Active

(* A step that leaves the character sets as they are. *)
LEMMA EncodingKept ==
  ASSUME TypeOK, PlanInv, EncodingInv, ~Idle,
         NEW exc \in {"none", "server", "lost"}, Returned(exc),
         Head(run.plan) \notin {"connect", "charset"},
         my'.charset = my.charset, my'.option = my.option,
         srv'.up => srv'.charset = my'.charset,
         py'.encoding = py.encoding, py'.built => py.built \/ Head(run.plan) = "built",
         hist'.charset = hist.charset, hist'.given = hist.given,
         hist'.changed = hist.changed
  PROVE  EncodingInv'
<1>1. run'.plan # << >> => /\ Head(run'.plan) \in {"built", "get"}
                           /\ Head(run.plan) \in {"get", "set", "collate"}
  BY RunStep DEF Follows
<1>2. Head(run.plan) \in {"built", "get", "set", "collate"} \/ py.built =>
        hist.charset # None
  BY DEF EncodingInv, Active
<1> QED
  BY <1>1, <1>2 DEF EncodingInv, Idle, Active

(* The program asked for a session that it finds itself in. *)
Asked == py.built /\ srv'.id # srv.id => hist'.reconnect

(* SoundIs, for both states of a step. *)
LEMMA InvIs ==
  Inv <=> /\ TypeOK /\ PlanInv /\ ReconnectInv /\ EncodingInv
          /\ Sound(srv, my, hist)
  BY SoundIs DEF Inv

LEMMA InvNextIs ==
  Inv' <=> /\ TypeOK' /\ PlanInv' /\ ReconnectInv' /\ EncodingInv'
           /\ Sound(srv', my', hist')
<1>1. ASSUME TypeOK'
      PROVE  Sound(srv', my', hist') <=>
               StatusInv' /\ RowsInv' /\ KeepInv' /\ SettledInv' /\ UndoInv'
  BY <1>1 DEF Sound, StatusInv, RowsInv, KeepInv, SettledInv, UndoInv, TypeOK, Servers,
     Clients, Histories
<1> QED
  BY <1>1 DEF Inv

(* A step that sends one command, and leaves the character sets alone. *)
LEMMA CommandStep ==
  ASSUME Inv, ~Idle, Head(run.plan) \notin {"connect", "charset", "built"},
         NEW m, SameButReconnect(m), NEW op \in Commands \ {"change_user"}, NEW arg,
         Operand(op, arg), op = "names" => CharsetOf(arg) = my.charset,
         NEW r \in Send(m, op, arg), srv' = r.srv, my' = r.my, Returned(r.exc),
         py' \in [built : BOOLEAN, encoding : Codecs, reconnect : BOOLEAN],
         py'.built = py.built, py'.encoding = py.encoding, py'.reconnect = m.reconnect,
         hist' \in Histories, m.reconnect => hist'.reconnect,
         hist'.charset = hist.charset, hist'.given = hist.given,
         hist'.changed = hist.changed,
         Sound(srv', my', hist')
  PROVE  Inv' /\ Asked
<1>0. TypeOK /\ PlanInv /\ ReconnectInv /\ EncodingInv /\ Sound(srv, my, hist)
  BY InvIs
<1>1. /\ r.srv \in Servers /\ r.my \in Clients /\ r.exc \in {"none", "server", "lost"}
      /\ r.my.charset = my.charset /\ r.my.option = my.option
      /\ r.my.reconnect = m.reconnect /\ (r.srv.id # srv.id => m.reconnect)
      /\ (srv.up => srv.charset = my.charset) /\ r.srv.up =>
           r.srv.charset = (IF r.exc = "none" /\ op = "names" THEN CharsetOf(arg)
                            ELSE IF r.exc = "none" /\ op = "change_user" THEN arg
                            ELSE my.charset)
  BY <1>0, SentIs
<1>2. r.srv.up => r.srv.charset = my.charset
  BY <1>0, <1>1 DEF EncodingInv
<1>3. PlanInv' /\ run' \in Runs
  BY <1>0, <1>1, PlanKept
<1>4. EncodingInv'
  BY <1>0, <1>1, <1>2, EncodingKept
<1>5. TypeOK'
  BY <1>1, <1>3 DEF TypeOK
<1>6. ReconnectInv'
  BY <1>1 DEF ReconnectInv
<1>7. Asked
  BY <1>1 DEF Asked
<1> QED
  BY <1>3, <1>4, <1>5, <1>6, <1>7, InvNextIs

(* A command that is answered without an error. *)
LEMMA AcceptedIs ==
  ASSUME TypeOK, Sound(srv, my, hist), NEW m, SameButReconnect(m),
         NEW op, NEW arg, NEW r \in Send(m, op, arg), r.exc = "none"
  PROVE  \E s \in Servers :
           /\ s.up /\ s.done = srv.done /\ Sound(s, Synced(m, s), hist)
           /\ hist.begun => s.autocommit = my.autocommit
           /\ r.srv = Serve(s, op, arg) /\ r.my = Synced(m, r.srv)
<1>1. PICK s : /\ Opened(s, m)
               /\ r.srv = Serve(s, op, arg) /\ r.my = Synced(m, r.srv)
  BY SendIs DEF Accepted, Denied, NoAnswer
<1>2. s \in Servers /\ s.up /\ s.done = srv.done /\ Sound(s, Synced(m, s), hist)
  BY <1>1, OpenedSound
<1>3. hist.begun => s.autocommit = my.autocommit
  BY <1>1 DEF Opened, SameButReconnect, Sound
<1> QED
  BY <1>1, <1>2, <1>3

-----------------------------------------------------------------------------
(* The steps. *)
LEMMA CollateStep == Inv /\ Collate => Inv' /\ Asked
<1> SUFFICES ASSUME Inv, Collate
             PROVE  Inv' /\ Asked
  OBVIOUS
<1>0. TypeOK /\ PlanInv /\ ReconnectInv /\ EncodingInv /\ Sound(srv, my, hist)
  BY InvIs
<1>1. PICK r \in Send(my, "names", GivenCharset) :
        srv' = r.srv /\ my' = r.my /\ hist' = Told(hist, r.exc) /\ Returned(r.exc)
  BY DEF Collate
<1>2. ~Idle /\ Head(run.plan) = "collate" /\ py' = py
  BY DEF Collate, Active
<1>3. CharsetOf(GivenCharset) = my.charset /\ my.charset \in Charsets
  BY <1>0, <1>2 DEF PlanInv, Active, TypeOK, Clients
<1>4. SameButReconnect(my) /\ Operand("names", GivenCharset) /\ "names" \in Commands
  BY <1>0, <1>3 DEF SameButReconnect, TypeOK, Operand, Commands
<1>5. hist \in Histories /\ my \in Clients /\ hist.rows \in Nat
  BY <1>0, SessionAssumption DEF TypeOK, Histories
<1>6. CASE r.exc = "none"
  <2>1. hist' = hist
    BY <1>1, <1>6 DEF Told
  <2>2. Sound(srv', my', hist')
    BY <1>0, <1>1, <1>3, <1>4, <1>5, <1>6, <2>1, AcceptedIs, ServeNames
  <2> QED
    BY <1>0, <1>1, <1>2, <1>3, <1>4, <1>5, <2>1, <2>2, CommandStep
       DEF Commands, TypeOK, ReconnectInv
<1>7. CASE r.exc # "none"
  <2>1. r.exc \in {"server", "lost"}
    BY <1>0, <1>4, <1>7, SentIs
  <2>2. Sound(srv', my', hist')
    BY <1>0, <1>1, <1>4, <1>5, <2>1, ToldIs, FailedSound
  <2> QED
    BY <1>0, <1>1, <1>2, <1>3, <1>4, <1>5, <2>1, <2>2, ToldIs, CommandStep
       DEF Commands, TypeOK, ReconnectInv
<1> QED
  BY <1>6, <1>7

(* The history of a command that ends the transaction the program knows. *)
LEMMA EndOfTransactionIs ==
  ASSUME NEW h \in Histories
  PROVE  LET t == EndOfTransaction(h)
         IN /\ t \in Histories /\ t.rows = h.rows /\ t.settled = h.settled
            /\ t.autocommit = h.autocommit /\ t.charset = h.charset
            /\ t.given = h.given /\ t.changed = h.changed /\ t.reconnect = h.reconnect
            /\ t.ran = {} /\ ~t.begun
  BY DEF EndOfTransaction, Histories

LEMMA EndTransactionStep == Inv /\ EndTransaction => Inv' /\ Asked
<1> SUFFICES ASSUME Inv, EndTransaction
             PROVE  Inv' /\ Asked
  OBVIOUS
<1>0. TypeOK /\ PlanInv /\ ReconnectInv /\ EncodingInv /\ Sound(srv, my, hist)
  BY InvIs
<1>1. PICK method \in {"commit", "rollback"} :
        /\ Active(method)
        /\ \E r \in Send(my, method, None) :
             /\ srv' = r.srv /\ my' = r.my /\ Returned(r.exc)
             /\ hist' = IF r.exc = "none" THEN EndOfTransaction(hist)
                                          ELSE Told(hist, r.exc)
        /\ py' = py
  BY DEF EndTransaction
<1>2. PICK r \in Send(my, method, None) :
        /\ srv' = r.srv /\ my' = r.my /\ Returned(r.exc)
        /\ hist' = IF r.exc = "none" THEN EndOfTransaction(hist) ELSE Told(hist, r.exc)
  BY <1>1
<1>3. ~Idle /\ Head(run.plan) \in {"commit", "rollback"}
  BY <1>1 DEF Active
<1>4. /\ SameButReconnect(my) /\ Operand(method, None)
      /\ method \in Commands \ {"change_user"} /\ method # "names" /\ method # "insert"
  BY <1>0 DEF SameButReconnect, TypeOK, Operand, Commands
<1>5. hist \in Histories /\ my \in Clients /\ hist.rows \in Nat
  BY <1>0, SessionAssumption DEF TypeOK, Histories
<1>6. CASE r.exc = "none"
  <2>1. hist' = EndOfTransaction(hist)
    BY <1>2, <1>6
  <2>2. Sound(srv', my', hist')
    BY <1>0, <1>2, <1>4, <1>5, <1>6, <2>1, AcceptedIs, EndOfTransactionIs, ServeEnd
  <2> QED
    BY <1>0, <1>1, <1>2, <1>3, <1>4, <1>5, <2>1, <2>2, EndOfTransactionIs, CommandStep
       DEF TypeOK, ReconnectInv
<1>7. CASE r.exc # "none"
  <2>1. r.exc \in {"server", "lost"} /\ hist' = Told(hist, r.exc)
    BY <1>0, <1>2, <1>4, <1>7, SentIs
  <2>2. Sound(srv', my', hist')
    BY <1>0, <1>2, <1>4, <1>5, <2>1, ToldIs, FailedSound
  <2> QED
    BY <1>0, <1>1, <1>2, <1>3, <1>4, <1>5, <2>1, <2>2, ToldIs, CommandStep
       DEF TypeOK, ReconnectInv
<1> QED
  BY <1>6, <1>7

LEMMA BeginTransactionStep == Inv /\ BeginTransaction => Inv' /\ Asked
<1> SUFFICES ASSUME Inv, BeginTransaction
             PROVE  Inv' /\ Asked
  OBVIOUS
<1>0. TypeOK /\ PlanInv /\ ReconnectInv /\ EncodingInv /\ Sound(srv, my, hist)
  BY InvIs
<1>1. PICK r \in Send(my, "begin", None) :
        /\ srv' = r.srv /\ my' = r.my /\ Returned(r.exc)
        /\ hist' = IF r.exc = "none" THEN [hist EXCEPT !.ran = {}, !.begun = TRUE]
                                     ELSE Told(hist, r.exc)
  BY DEF BeginTransaction
<1>2. ~Idle /\ Head(run.plan) = "begin" /\ py' = py
  BY DEF BeginTransaction, Active
<1>3. /\ SameButReconnect(my) /\ Operand("begin", None)
      /\ "begin" \in Commands \ {"change_user"}
  BY <1>0 DEF SameButReconnect, TypeOK, Operand, Commands
<1>4. hist \in Histories /\ my \in Clients /\ hist.rows \in Nat
  BY <1>0, SessionAssumption DEF TypeOK, Histories
<1>5. CASE r.exc = "none"
  <2>1. /\ hist' \in Histories /\ hist'.rows = hist.rows /\ hist'.settled = hist.settled
        /\ hist'.autocommit = hist.autocommit /\ hist'.charset = hist.charset
        /\ hist'.given = hist.given /\ hist'.changed = hist.changed
        /\ hist'.reconnect = hist.reconnect /\ hist'.ran = {}
    BY <1>1, <1>4, <1>5 DEF Histories
  <2>2. Sound(srv', my', hist')
    <3>1. PICK s \in Servers :
            /\ s.up /\ Sound(s, Synced(my, s), hist)
            /\ r.srv = Serve(s, "begin", None) /\ r.my = Synced(my, r.srv)
      BY <1>0, <1>3, <1>5, AcceptedIs
    <3>2. Sound(Serve(s, "begin", None), Synced(my, Serve(s, "begin", None)), hist')
      BY <1>4, <2>1, <3>1, ServeBegin
    <3> QED
      BY <1>1, <3>1, <3>2
  <2> QED
    BY <1>0, <1>1, <1>2, <1>3, <1>4, <2>1, <2>2, CommandStep DEF TypeOK, ReconnectInv
<1>6. CASE r.exc # "none"
  <2>1. r.exc \in {"server", "lost"} /\ hist' = Told(hist, r.exc)
    BY <1>0, <1>1, <1>3, <1>6, SentIs
  <2>2. Sound(srv', my', hist')
    BY <1>0, <1>1, <1>3, <1>4, <2>1, ToldIs, FailedSound
  <2> QED
    BY <1>0, <1>1, <1>2, <1>3, <1>4, <2>1, <2>2, ToldIs, CommandStep
       DEF TypeOK, ReconnectInv
<1> QED
  BY <1>5, <1>6

(* A row that was inserted, refused, or lost takes its number. *)
LEMMA InsertRowStep == Inv /\ InsertRow => Inv' /\ Asked
<1> SUFFICES ASSUME Inv, InsertRow
             PROVE  Inv' /\ Asked
  OBVIOUS
<1> DEFINE row == hist.rows + 1
<1>0. TypeOK /\ PlanInv /\ ReconnectInv /\ EncodingInv /\ Sound(srv, my, hist)
  BY InvIs
<1>1. PICK r \in Send(my, "insert", row) :
        /\ srv' = r.srv /\ my' = r.my /\ Returned(r.exc)
        /\ hist' = [(IF r.exc = "none" THEN [hist EXCEPT !.ran = @ \cup {row}]
                                       ELSE Told(hist, r.exc)) EXCEPT !.rows = row]
  BY DEF InsertRow
<1>2. ~Idle /\ Head(run.plan) = "insert" /\ py' = py
  BY DEF InsertRow, Active
<1>3. /\ hist \in Histories /\ my \in Clients /\ hist.rows \in Nat
      /\ hist.rows < MaxStatements
  BY <1>0, <1>2, SessionAssumption DEF PlanInv, Active, TypeOK, Histories
<1>4. row \in RowIds /\ row \in 0..MaxStatements /\ hist.rows <= row /\ row \in 1..row
  BY <1>3, SessionAssumption DEF RowIds
<1> HIDE DEF row
<1>5. /\ SameButReconnect(my) /\ Operand("insert", row)
      /\ "insert" \in Commands \ {"change_user"}
  BY <1>0, <1>4 DEF SameButReconnect, TypeOK, Operand, Commands
<1>6. CASE r.exc = "none"
  <2>1. hist' = [hist EXCEPT !.ran = hist.ran \cup {row}, !.rows = row]
    BY <1>1, <1>3, <1>6 DEF Histories
  <2>2. /\ hist' \in Histories /\ hist'.rows = row /\ hist'.settled = hist.settled
        /\ hist'.autocommit = hist.autocommit /\ hist'.charset = hist.charset
        /\ hist'.given = hist.given /\ hist'.changed = hist.changed
        /\ hist'.reconnect = hist.reconnect /\ hist'.ran = hist.ran \cup {row}
        /\ hist'.begun = hist.begun
    BY <1>3, <1>4, <2>1 DEF Histories
  <2>3. Sound(srv', my', hist')
    <3>1. PICK s \in Servers :
            /\ s.up /\ Sound(s, Synced(my, s), hist)
            /\ r.srv = Serve(s, "insert", row) /\ r.my = Synced(my, r.srv)
      BY <1>0, <1>5, <1>6, AcceptedIs
    <3>2. hist'.rows = hist.rows + 1
      BY <2>2 DEF row
    <3>3. Sound(Serve(s, "insert", hist'.rows),
                Synced(my, Serve(s, "insert", hist'.rows)), hist')
      BY <1>3, <2>2, <3>1, <3>2, ServeInsert
    <3> QED
      BY <1>1, <2>2, <3>1, <3>3
  <2> QED
    BY <1>0, <1>1, <1>2, <1>3, <1>5, <2>2, <2>3, CommandStep DEF TypeOK, ReconnectInv
<1>7. CASE r.exc # "none"
  <2>1. r.exc \in {"server", "lost"} /\ hist' = [Told(hist, r.exc) EXCEPT !.rows = row]
    BY <1>0, <1>1, <1>5, <1>7, SentIs
  <2>2. /\ hist' \in Histories /\ hist'.rows = row /\ hist'.settled = hist.settled
        /\ hist'.autocommit = hist.autocommit /\ hist'.charset = hist.charset
        /\ hist'.given = hist.given /\ hist'.changed = hist.changed
        /\ hist'.reconnect = hist.reconnect
        /\ \/ r.exc = "server" /\ hist'.ran = hist.ran /\ hist'.begun = hist.begun
           \/ r.exc = "lost" /\ hist'.ran = {} /\ ~hist'.begun
    <3> DEFINE t == Told(hist, r.exc)
    <3>1. /\ t \in Histories /\ t.settled = hist.settled
          /\ t.autocommit = hist.autocommit /\ t.charset = hist.charset
          /\ t.given = hist.given /\ t.changed = hist.changed
          /\ t.reconnect = hist.reconnect
          /\ \/ r.exc = "server" /\ t.ran = hist.ran /\ t.begun = hist.begun
             \/ r.exc = "lost" /\ t.ran = {} /\ ~t.begun
      BY <1>3, <2>1, ToldIs
    <3>2. hist' = [t EXCEPT !.rows = row]
      BY <2>1
    <3> HIDE DEF t
    <3>3. /\ hist' \in Histories /\ hist'.rows = row /\ hist'.settled = t.settled
          /\ hist'.autocommit = t.autocommit /\ hist'.charset = t.charset
          /\ hist'.given = t.given /\ hist'.changed = t.changed
          /\ hist'.reconnect = t.reconnect /\ hist'.ran = t.ran /\ hist'.begun = t.begun
      BY <1>4, <3>1, <3>2 DEF Histories
    <3> QED
      BY <3>1, <3>3
  <2>3. Sound(srv', my', hist')
    BY <1>0, <1>1, <1>3, <1>4, <1>5, <2>2, FailedSound
  <2> QED
    BY <1>0, <1>1, <1>2, <1>3, <1>5, <2>2, <2>3, CommandStep DEF TypeOK, ReconnectInv
<1> QED
  BY <1>6, <1>7

(* Settled(h, id), where the program has asked for run.on. *)
LEMMA SettledIs ==
  ASSUME NEW h \in Histories, NEW id \in SessionIds, run.on \in BOOLEAN
  PROVE  LET k == Settled(h, id)
         IN /\ k \in Histories /\ k.rows = h.rows /\ k.autocommit = run.on
            /\ k.settled = id /\ k.charset = h.charset /\ k.given = h.given
            /\ k.changed = h.changed /\ k.reconnect = h.reconnect
            /\ k.ran = h.ran /\ k.begun = h.begun
  BY DEF Settled, Histories

(* When autocommit is asked off the program goes on with a transaction of  *)
(* which no row is committed, or with none.                                *)
LEMMA SwitchedOffIs ==
  ASSUME TypeOK, Sound(srv, my, hist)
  PROVE  LET k == SwitchedOff(hist)
         IN /\ k \in Histories /\ k.rows = hist.rows /\ k.charset = hist.charset
            /\ k.given = hist.given /\ k.changed = hist.changed
            /\ k.reconnect = hist.reconnect
            /\ \/ k.ran = {} /\ ~k.begun
               \/ k.ran = hist.ran /\ k.begun = hist.begun /\ hist.ran \cap srv.done = {}
<1>1. hist \in Histories
  BY DEF TypeOK
<1>2. CASE ~hist.begun /\ (my.autocommit \/ hist.autocommit = TRUE)
  <2>1. SwitchedOff(hist) = EndOfTransaction(hist)
    BY <1>2 DEF SwitchedOff
  <2> QED
    BY <1>1, <2>1, EndOfTransactionIs
<1>3. CASE hist.begun \/ (~my.autocommit /\ hist.autocommit # TRUE)
  <2>1. SwitchedOff(hist) = hist
    BY <1>3 DEF SwitchedOff
  <2>2. hist.ran \cap srv.done = {}
    BY <1>3 DEF Sound
  <2> QED
    BY <1>1, <2>1, <2>2
<1> QED
  BY <1>2, <1>3

LEMMA SetAutocommitStep == Inv /\ SetAutocommit => Inv' /\ Asked
<1> SUFFICES ASSUME Inv, SetAutocommit
             PROVE  Inv' /\ Asked
  OBVIOUS
<1>0. TypeOK /\ PlanInv /\ ReconnectInv /\ EncodingInv /\ Sound(srv, my, hist)
  BY InvIs
<1>1. PICK r \in Send(my, "autocommit", run.on) :
        /\ srv' = r.srv /\ my' = r.my /\ Returned(r.exc)
        /\ hist' = IF r.exc = "none" THEN Settled(Switched(hist), r.srv.id)
                                     ELSE Told(hist, r.exc)
  BY DEF SetAutocommit
<1>2. ~Idle /\ Head(run.plan) = "set" /\ py' = py
  BY DEF SetAutocommit, Active
<1>3. run.on \in BOOLEAN
  <2>1. run.plan \in Seq(Steps) /\ run.plan # << >> /\ run.on \in BOOLEAN \cup {None}
    BY <1>0, <1>2 DEF TypeOK, Runs, Idle
  <2>2. 1 \in DOMAIN run.plan /\ run.plan[1] = "set"
    BY <1>2, <2>1
  <2>3. run.on # None
    BY <1>0, <2>2 DEF PlanInv
  <2> QED
    BY <2>1, <2>3
<1>4. /\ SameButReconnect(my) /\ Operand("autocommit", run.on)
      /\ "autocommit" \in Commands \ {"change_user"}
  BY <1>0, <1>3 DEF SameButReconnect, TypeOK, Operand, Commands
<1>5. hist \in Histories /\ my \in Clients /\ hist.rows \in Nat
  BY <1>0, SessionAssumption DEF TypeOK, Histories
<1>6. CASE r.exc = "none"
  <2>1. PICK s \in Servers :
          /\ s.up /\ s.done = srv.done /\ Sound(s, Synced(my, s), hist)
          /\ hist.begun => s.autocommit = my.autocommit
          /\ r.srv = Serve(s, "autocommit", run.on) /\ r.my = Synced(my, r.srv)
    BY <1>0, <1>4, <1>6, AcceptedIs
  <2>2. r.srv.id = s.id /\ s.id \in SessionIds
    BY <1>4, <2>1, ServeIs DEF Servers
  <2>3. hist' = Settled(Switched(hist), s.id)
    BY <1>1, <1>6, <2>2
  <2> DEFINE k == Switched(hist)
  <2>4. /\ k \in Histories /\ k.rows = hist.rows /\ k.charset = hist.charset
        /\ k.given = hist.given /\ k.changed = hist.changed
        /\ k.reconnect = hist.reconnect
        /\ \/ k.ran = {} /\ ~k.begun
           \/ /\ k.ran = hist.ran /\ k.begun = hist.begun
              /\ \/ ~run.on /\ hist.ran \cap s.done = {}
                 \/ run.on /\ (hist.begun => s.autocommit)
    <3>1. CASE run.on = TRUE /\ ~my.autocommit
      <4>1. k = EndOfTransaction(hist)
        BY <3>1 DEF Switched, SwitchedOn
      <4> QED
        BY <1>5, <4>1, EndOfTransactionIs
    <3>3. CASE run.on = TRUE /\ my.autocommit
      <4>1. k = hist
        BY <3>3 DEF Switched, SwitchedOn
      <4>2. my.autocommit = TRUE
        BY <1>5, <3>3 DEF Clients
      <4> HIDE DEF k
      <4> QED
        BY <1>5, <2>1, <3>3, <4>1, <4>2
    <3>2. CASE run.on = FALSE
      <4>1. k = SwitchedOff(hist)
        BY <3>2 DEF Switched
      <4> HIDE DEF k
      <4> QED
        BY <1>0, <2>1, <3>2, <4>1, SwitchedOffIs
    <3> QED
      BY <1>3, <3>1, <3>2, <3>3
  <2> HIDE DEF k
  <2>5. /\ hist' \in Histories /\ hist'.rows = k.rows /\ hist'.autocommit = run.on
        /\ hist'.settled = s.id /\ hist'.charset = k.charset /\ hist'.given = k.given
        /\ hist'.changed = k.changed /\ hist'.reconnect = k.reconnect
        /\ hist'.ran = k.ran /\ hist'.begun = k.begun
    BY <1>3, <2>2, <2>3, <2>4, SettledIs DEF k
  <2>6. Sound(Serve(s, "autocommit", run.on),
              Synced(my, Serve(s, "autocommit", run.on)), hist')
    BY <1>3, <1>5, <2>1, <2>4, <2>5, ServeAutocommit
  <2>7. Sound(srv', my', hist')
    BY <1>1, <2>1, <2>6
  <2> QED
    BY <1>0, <1>1, <1>2, <1>4, <2>4, <2>5, <2>7, CommandStep DEF TypeOK, ReconnectInv
<1>7. CASE r.exc # "none"
  <2>1. r.exc \in {"server", "lost"} /\ hist' = Told(hist, r.exc)
    BY <1>0, <1>1, <1>4, <1>7, SentIs
  <2>2. Sound(srv', my', hist')
    BY <1>0, <1>1, <1>4, <1>5, <2>1, ToldIs, FailedSound
  <2> QED
    BY <1>0, <1>1, <1>2, <1>4, <1>5, <2>1, <2>2, ToldIs, CommandStep
       DEF TypeOK, ReconnectInv
<1> QED
  BY <1>6, <1>7

(* A get that finds the mode as asked, or goes on to set it. *)
LEMMA GetAutocommitStep == Inv /\ GetAutocommit => Inv' /\ Asked
<1> SUFFICES ASSUME Inv, GetAutocommit
             PROVE  Inv' /\ Asked
  OBVIOUS
<1>0. TypeOK /\ PlanInv /\ ReconnectInv /\ EncodingInv /\ Sound(srv, my, hist)
  BY InvIs
<1>1. /\ ~Idle /\ Head(run.plan) = "get"
      /\ srv' = srv /\ my' = my /\ py' = py
  BY DEF GetAutocommit, Active
<1>2. Asked
  BY <1>1 DEF Asked
<1>3. /\ hist \in Histories /\ my \in Clients /\ srv \in Servers /\ run \in Runs
      /\ run.plan \in Seq(Steps) /\ run.plan # << >> /\ run.plan \in Plans(run.method)
      /\ run.method \in Methods
  BY <1>0, <1>1 DEF TypeOK, Runs, Idle, PlanInv
<1>4. run.on \in BOOLEAN
  <2>1. 1 \in DOMAIN run.plan /\ run.plan[1] = "get"
    BY <1>1, <1>3
  <2> QED
    BY <1>0, <1>3, <2>1 DEF PlanInv, Runs
<1>5. CASE my.autocommit = run.on
  <2>1. /\ Returned("none")
        /\ hist' = Settled(IF run.on THEN hist ELSE SwitchedOff(hist), srv.id)
    BY <1>4, <1>5 DEF GetAutocommit, Switched, SwitchedOn
  <2> DEFINE k == IF run.on THEN hist ELSE SwitchedOff(hist)
  <2>2. /\ k \in Histories /\ k.rows = hist.rows /\ k.charset = hist.charset
        /\ k.given = hist.given /\ k.changed = hist.changed
        /\ k.reconnect = hist.reconnect
        /\ \/ k.ran = {} /\ ~k.begun
           \/ k.ran = hist.ran /\ k.begun = hist.begun
              /\ (run.on = TRUE \/ hist.ran \cap srv.done = {})
    <3>1. CASE run.on = TRUE
      BY <1>3, <3>1
    <3>2. CASE run.on = FALSE
      <4>1. k = SwitchedOff(hist)
        BY <3>2
      <4> HIDE DEF k
      <4> QED
        BY <1>0, <4>1, SwitchedOffIs
    <3> QED
      BY <1>4, <3>1, <3>2
  <2>3. srv.id \in SessionIds /\ srv.id \in Nat
    BY <1>3, SessionAssumption DEF Servers, SessionIds
  <2>4. hist' = Settled(k, srv.id)
    BY <2>1
  <2> HIDE DEF k
  <2>5. /\ hist' \in Histories /\ hist'.rows = k.rows /\ hist'.autocommit = run.on
        /\ hist'.settled = srv.id /\ hist'.charset = k.charset /\ hist'.given = k.given
        /\ hist'.changed = k.changed /\ hist'.reconnect = k.reconnect
        /\ hist'.ran = k.ran /\ hist'.begun = k.begun
    BY <1>4, <2>2, <2>3, <2>4, SettledIs
  <2>6. Sound(srv, my, hist')
    <3>1. /\ hist'.ran \subseteq 1..hist'.rows
          /\ srv.up => hist'.ran \subseteq srv.pending \cup srv.done
          /\ ~srv.up => my.trans \/ hist'.ran \subseteq srv.done
      BY <1>0, <2>2, <2>5 DEF Sound
    <3>2. hist'.begun => my.trans
      BY <1>0, <2>2, <2>5 DEF Sound
    <3>3. hist'.settled <= srv.id
      BY <2>3, <2>5
    <3>4. srv.up => srv.autocommit = hist'.autocommit
      BY <1>0, <1>5, <2>5 DEF Sound
    <3>5. srv.up /\ srv.autocommit => hist'.autocommit = TRUE
      BY <1>4, <2>5, <3>4
    <3>6. hist'.begun \/ hist'.autocommit # TRUE => hist'.ran \cap srv.done = {}
      <4>1. CASE run.on = FALSE
        BY <2>2, <2>5, <4>1
      <4>2. CASE run.on = TRUE
        BY <1>0, <2>2, <2>5, <4>2 DEF Sound
      <4> QED
        BY <1>4, <4>1, <4>2
    <3> QED
      BY <1>0, <2>2, <2>5, <3>1, <3>2, <3>3, <3>4, <3>5, <3>6 DEF Sound
  <2>7. PlanInv' /\ run' \in Runs
    BY <1>0, <1>1, <2>1, PlanKept
  <2>8. EncodingInv'
    BY <1>0, <1>1, <2>1, <2>2, <2>5, EncodingKept DEF EncodingInv
  <2>9. TypeOK' /\ ReconnectInv'
    BY <1>0, <1>1, <2>2, <2>5, <2>7 DEF TypeOK, ReconnectInv
  <2> QED
    BY <1>1, <1>2, <2>6, <2>7, <2>8, <2>9, InvNextIs
<1>6. CASE my.autocommit # run.on
  <2> DEFINE set == [run.plan EXCEPT ![1] = "set"]
  <2>1. run' = [run EXCEPT !.plan = set] /\ hist' = hist
    BY <1>6 DEF GetAutocommit
  <2>2. /\ set \in Plans(run.method) /\ set # << >> /\ Head(set) = "set"
        /\ run.method \in {"construct", "autocommit"}
    BY <1>1, <1>3, PlanStep DEF Follows
  <2>3. set \in Seq(Steps)
    BY <1>3 DEF Steps
  <2> HIDE DEF set
  <2>4. /\ run' \in Runs /\ run'.plan = set /\ run'.method = run.method
        /\ run'.charset = run.charset /\ run'.on = run.on
    BY <1>3, <2>1, <2>3 DEF Runs
  <2>5. run.on # None
    BY <1>4, SessionAssumption
  <2>6. PlanInv'
    BY <1>0, <1>1, <2>2, <2>4, <2>5 DEF PlanInv, Idle, Active
  <2>7. EncodingInv'
    BY <1>0, <1>1, <2>1, <2>2, <2>4 DEF EncodingInv, Idle, Active
  <2>8. TypeOK' /\ ReconnectInv' /\ Sound(srv', my', hist')
    BY <1>0, <1>1, <2>1, <2>4 DEF TypeOK, ReconnectInv
  <2> QED
    BY <1>2, <2>6, <2>7, <2>8, InvNextIs
<1> QED
  BY <1>5, <1>6

(* ping() sends with the option that it was asked for. *)
LEMMA PingServerStep == Inv /\ PingServer => Inv' /\ Asked
<1> SUFFICES ASSUME Inv, PingServer
             PROVE  Inv' /\ Asked
  OBVIOUS
<1> DEFINE asked == run.on = TRUE
           wanted == IF run.on = None THEN hist.reconnect ELSE run.on
           m == IF asked # py.reconnect THEN [my EXCEPT !.reconnect = asked] ELSE my
<1>0. TypeOK /\ PlanInv /\ ReconnectInv /\ EncodingInv /\ Sound(srv, my, hist)
  BY InvIs
<1>1. PICK r \in Send(m, "ping", None) :
        /\ srv' = r.srv /\ my' = r.my /\ Returned(r.exc)
        /\ hist' = [Told(hist, r.exc) EXCEPT !.reconnect = IF run.on = None THEN @ ELSE run.on]
  BY DEF PingServer, PingWith
<1>2. /\ ~Idle /\ Head(run.plan) = "ping"
      /\ py' = [py EXCEPT !.reconnect = asked]
  BY DEF PingServer, PingWith, Active
<1>3. /\ hist \in Histories /\ my \in Clients /\ hist.rows \in Nat
      /\ py \in [built : BOOLEAN, encoding : Codecs, reconnect : BOOLEAN]
  BY <1>0, SessionAssumption DEF TypeOK, Histories
<1>4. asked \in BOOLEAN /\ wanted \in BOOLEAN /\ (asked => wanted = TRUE)
  <2>1. run.on \in BOOLEAN \cup {None} /\ hist.reconnect \in BOOLEAN /\ None # TRUE
    BY <1>0, SessionAssumption DEF TypeOK, Runs, Histories
  <2> QED
    BY <2>1
<1>5. m.reconnect = asked /\ SameButReconnect(m)
  <2>1. CASE asked = py.reconnect
    BY <1>0, <1>3, <2>1 DEF ReconnectInv, SameButReconnect
  <2>2. CASE asked # py.reconnect
    <3>1. m = [my EXCEPT !.reconnect = asked]
      BY <2>2
    <3> HIDE DEF m, asked
    <3> QED
      BY <1>3, <1>4, <3>1 DEF SameButReconnect, Clients
  <2> QED
    BY <2>1, <2>2
<1> HIDE DEF m, asked, wanted
<1>6. /\ py' \in [built : BOOLEAN, encoding : Codecs, reconnect : BOOLEAN]
      /\ py'.built = py.built /\ py'.encoding = py.encoding /\ py'.reconnect = asked
  BY <1>2, <1>3, <1>4
<1>7. Operand("ping", None) /\ "ping" \in Commands \ {"change_user"}
  BY DEF Operand, Commands
<1>8. CASE r.exc = "none"
  <2>1. hist' = [hist EXCEPT !.reconnect = wanted]
    BY <1>1, <1>8 DEF Told, wanted
  <2>2. /\ hist' \in Histories /\ hist'.rows = hist.rows /\ hist'.settled = hist.settled
        /\ hist'.autocommit = hist.autocommit /\ hist'.charset = hist.charset
        /\ hist'.given = hist.given /\ hist'.changed = hist.changed
        /\ hist'.reconnect = wanted /\ hist'.ran = hist.ran /\ hist'.begun = hist.begun
    BY <1>3, <1>4, <2>1 DEF Histories
  <2>3. Sound(srv', my', hist')
    <3>1. PICK s \in Servers :
            /\ s.up /\ Sound(s, Synced(m, s), hist)
            /\ r.srv = Serve(s, "ping", None) /\ r.my = Synced(m, r.srv)
      BY <1>0, <1>5, <1>8, AcceptedIs
    <3>2. r.srv = s
      BY <3>1 DEF Serve
    <3>3. Sound(r.srv, r.my, hist)
      BY <3>1, <3>2
    <3>4. Sound(r.srv, r.my, hist')
      BY <1>3, <2>2, <3>3, RowsGrow
    <3> QED
      BY <1>1, <3>4
  <2> QED
    BY <1>0, <1>1, <1>2, <1>4, <1>5, <1>6, <1>7, <2>2, <2>3, CommandStep
<1>9. CASE r.exc # "none"
  <2>1. r.exc \in {"server", "lost"}
    BY <1>0, <1>5, <1>7, <1>9, SentIs
  <2> DEFINE t == Told(hist, r.exc)
  <2>2. /\ t \in Histories /\ t.rows = hist.rows /\ t.settled = hist.settled
        /\ t.autocommit = hist.autocommit /\ t.charset = hist.charset
        /\ t.given = hist.given /\ t.changed = hist.changed
    BY <1>3, <2>1, ToldIs
  <2>3. \/ r.exc = "server" /\ t.ran = hist.ran /\ t.begun = hist.begun
        \/ r.exc = "lost" /\ t.ran = {} /\ ~t.begun
    BY <1>3, <2>1, ToldIs
  <2>4. hist' = [t EXCEPT !.reconnect = wanted]
    <3>1. t.reconnect = hist.reconnect
      BY <1>3, <2>1, ToldIs
    <3> QED
      BY <1>1, <3>1 DEF wanted
  <2> HIDE DEF t
  <2>5. /\ hist' \in Histories /\ hist'.rows = t.rows /\ hist'.settled = t.settled
        /\ hist'.autocommit = t.autocommit /\ hist'.charset = t.charset
        /\ hist'.given = t.given /\ hist'.changed = t.changed
        /\ hist'.reconnect = wanted /\ hist'.ran = t.ran /\ hist'.begun = t.begun
    BY <1>4, <2>2, <2>4 DEF Histories
  <2>6. /\ hist.rows <= hist'.rows /\ hist'.settled = hist.settled
        /\ hist'.autocommit = hist.autocommit
        /\ \/ r.exc = "server" /\ hist'.ran = hist.ran /\ hist'.begun = hist.begun
           \/ r.exc = "lost" /\ hist'.ran = {} /\ ~hist'.begun
    BY <1>3, <2>2, <2>3, <2>5
  <2>7. Sound(srv', my', hist')
    <3>1. srv' = r.srv /\ my' = r.my /\ "ping" \in Commands /\ "ping" # "insert"
      BY <1>1, <1>7
    <3>2. Sound(r.srv, r.my, hist')
      BY <1>0, <1>5, <1>7, <2>5, <2>6, <3>1, FailedSound
    <3> QED
      BY <3>1, <3>2
  <2> QED
    BY <1>0, <1>1, <1>2, <1>4, <1>5, <1>6, <1>7, <2>2, <2>5, <2>7, CommandStep
<1> QED
  BY <1>8, <1>9

(* The library spells its own spelling the same. *)
LEMMA CharsetOfTwice ==
  ASSUME NEW n
  PROVE  CharsetOf(CharsetOf(n)) = CharsetOf(n)
<1>1. DOMAIN Spellings = {"LATIN1", "UTF8MB4"}
  BY DEF Spellings
<1>2. CASE n = "LATIN1"
  <2>1. CharsetOf(n) = "latin1"
    BY <1>1, <1>2 DEF CharsetOf, Spellings
  <2> QED
    BY <1>1, <2>1 DEF CharsetOf
<1>3. CASE n = "UTF8MB4"
  <2>1. CharsetOf(n) = "utf8mb4"
    BY <1>1, <1>3 DEF CharsetOf, Spellings
  <2> QED
    BY <1>1, <2>1 DEF CharsetOf
<1>4. CASE n \notin {"LATIN1", "UTF8MB4"}
  BY <1>1, <1>4 DEF CharsetOf
<1> QED
  BY <1>2, <1>3, <1>4

(* CharsetOf is what the server and the library call a character set. *)
LEMMA CharsetOfIs ==
  ASSUME NEW name \in Names \cup Charsets
  PROVE  /\ CharsetOf(name) \in Charsets /\ name # None /\ CharsetOf(name) # None
         /\ PyCodec(name) \in Codecs
<1>1. CASE name \in Names
  BY <1>1, CharsetAssumption, SessionAssumption DEF Charsets, Codecs
<1>2. CASE name \in Charsets
  <2>1. CASE name = DefaultCharset
    BY <2>1, CharsetAssumption DEF Charsets, Codecs
  <2>2. CASE \E n \in Names : name = CharsetOf(n)
    <3>1. PICK n \in Names : name = CharsetOf(n)
      BY <2>2
    <3>2. CharsetOf(name) = name
      BY <3>1, CharsetOfTwice
    <3> QED
      BY <1>2, <3>1, <3>2, CharsetAssumption DEF Codecs
  <2> QED
    BY <1>2, <2>1, <2>2 DEF Charsets
<1> QED
  BY <1>1, <1>2

(* The user changes: the library and the session go back to the character  *)
(* set of the options.                                                     *)
LEMMA ChangeUserStep == Inv /\ ChangeUser => Inv' /\ Asked
<1> SUFFICES ASSUME Inv, ChangeUser
             PROVE  Inv' /\ Asked
  OBVIOUS
<1>0. TypeOK /\ PlanInv /\ ReconnectInv /\ EncodingInv /\ Sound(srv, my, hist)
  BY InvIs
<1>1. PICK r \in Send(my, "change_user", my.option) :
        /\ srv' = r.srv /\ Returned(r.exc)
        /\ my' = IF r.exc = "none" THEN [r.my EXCEPT !.charset = my.option] ELSE r.my
        /\ hist' = IF r.exc = "none"
                     THEN [EndOfTransaction(hist) EXCEPT !.changed = TRUE,
                                                         !.autocommit = None]
                     ELSE Told(hist, r.exc)
  BY DEF ChangeUser
<1>2. /\ ~Idle /\ Active("change_user") /\ Head(run.plan) = "change_user" /\ py' = py
  BY DEF ChangeUser, Active
<1>3. /\ hist \in Histories /\ my \in Clients /\ hist.rows \in Nat
      /\ my.option \in Charsets /\ run.plan # << >> /\ run.plan \in Plans(run.method)
      /\ run.method \in Methods
  BY <1>0, <1>2, SessionAssumption DEF TypeOK, Histories, Clients, Idle, PlanInv, Runs
<1>4. /\ SameButReconnect(my) /\ Operand("change_user", my.option)
      /\ "change_user" \in Commands
  BY <1>0, <1>3 DEF SameButReconnect, TypeOK, Operand, Commands
<1>5. /\ r.srv \in Servers /\ r.my \in Clients /\ r.exc \in {"none", "server", "lost"}
      /\ r.my.charset = my.charset /\ r.my.option = my.option
      /\ r.my.reconnect = my.reconnect /\ (r.srv.id # srv.id => my.reconnect)
      /\ (srv.up => srv.charset = my.charset) /\ r.srv.up =>
           r.srv.charset = (IF r.exc = "none" /\ "change_user" = "names"
                              THEN CharsetOf(my.option)
                            ELSE IF r.exc = "none" /\ "change_user" = "change_user"
                              THEN my.option ELSE my.charset)
  BY <1>0, <1>4, SentIs
<1>6. r.srv.up => r.srv.charset = IF r.exc = "none" THEN my.option ELSE my.charset
  BY <1>0, <1>5 DEF EncodingInv
<1>7. /\ PlanInv' /\ run' \in Runs /\ run'.plan = << >>
  <2>1. Follows(run.method, Head(run.plan), run'.plan)
    BY <1>0, <1>1, <1>2, <1>5, RunStep
  <2>2. run'.plan = << >>
    BY <1>2, <2>1 DEF Follows, OneCommand
  <2> QED
    BY <1>0, <1>1, <1>2, <1>5, <2>2, PlanKept
<1>8. ASSUME hist' \in Histories, hist'.reconnect = hist.reconnect,
             my' \in Clients, my'.reconnect = r.my.reconnect
      PROVE  TypeOK' /\ ReconnectInv' /\ Asked
  BY <1>0, <1>1, <1>2, <1>5, <1>7, <1>8 DEF TypeOK, ReconnectInv, Asked
<1>9. CASE r.exc = "none"
  <2> DEFINE e == EndOfTransaction(hist)
  <2>1. /\ e \in Histories /\ e.rows = hist.rows /\ e.settled = hist.settled
        /\ e.charset = hist.charset /\ e.given = hist.given
        /\ e.reconnect = hist.reconnect /\ e.ran = {} /\ e.begun = FALSE
    BY <1>3, EndOfTransactionIs DEF Histories
  <2>2. hist' = [e EXCEPT !.changed = TRUE, !.autocommit = None]
    BY <1>1, <1>9
  <2> HIDE DEF e
  <2>3. /\ hist' \in Histories /\ hist'.rows = e.rows /\ hist'.settled = e.settled
        /\ hist'.autocommit = None /\ hist'.charset = e.charset /\ hist'.given = e.given
        /\ hist'.changed = TRUE /\ hist'.reconnect = e.reconnect
        /\ hist'.ran = {} /\ hist'.begun = FALSE
    BY <2>1, <2>2 DEF Histories
  <2>4. my' = [r.my EXCEPT !.charset = my.option]
    BY <1>1, <1>9
  <2>5. /\ my' \in Clients /\ my'.charset = my.option /\ my'.option = my.option
        /\ my'.reconnect = r.my.reconnect /\ my'.link = r.my.link
        /\ my'.autocommit = r.my.autocommit /\ my'.trans = r.my.trans
    BY <1>3, <1>5, <2>4 DEF Clients
  <2>6. Sound(r.srv, r.my, hist')
    <3>1. PICK s \in Servers :
            /\ s.up /\ Sound(s, Synced(my, s), hist)
            /\ r.srv = Serve(s, "change_user", my.option) /\ r.my = Synced(my, r.srv)
      BY <1>0, <1>4, <1>9, AcceptedIs
    <3>2. Sound(Serve(s, "change_user", my.option),
                Synced(my, Serve(s, "change_user", my.option)), hist')
      BY <1>3, <2>1, <2>3, <3>1, ServeChangeUser
    <3> QED
      BY <3>1, <3>2
  <2>7. Sound(srv', my', hist')
    BY <1>1, <2>5, <2>6 DEF Sound
  <2>8. EncodingInv'
    BY <1>0, <1>1, <1>2, <1>6, <1>7, <1>9, <2>1, <2>3, <2>5
       DEF EncodingInv, Idle, Active
  <2> QED
    BY <1>7, <1>8, <2>1, <2>3, <2>5, <2>7, <2>8, InvNextIs
<1>10. CASE r.exc # "none"
  <2>1. r.exc \in {"server", "lost"} /\ hist' = Told(hist, r.exc) /\ my' = r.my
    BY <1>1, <1>5, <1>10
  <2>2. Sound(srv', my', hist')
    BY <1>0, <1>1, <1>3, <1>4, <2>1, ToldIs, FailedSound
  <2>3. EncodingInv'
    BY <1>0, <1>1, <1>2, <1>3, <1>5, <1>6, <1>10, <2>1, ToldIs, EncodingKept
  <2> QED
    BY <1>3, <1>5, <1>7, <1>8, <2>1, <2>2, <2>3, ToldIs, InvNextIs
<1> QED
  BY <1>9, <1>10

(* The character set changes on the server, in the library, and then in    *)
(* the object.                                                             *)
LEMMA ServerCharsetStep ==
  Inv /\ Active("charset") /\ ChangeCharsetOnServer(PyCodec(GivenCharset)) => Inv' /\ Asked
<1> SUFFICES ASSUME Inv, Active("charset"), ChangeCharsetOnServer(PyCodec(GivenCharset))
             PROVE  Inv' /\ Asked
  OBVIOUS
<1>0. TypeOK /\ PlanInv /\ ReconnectInv /\ EncodingInv /\ Sound(srv, my, hist)
  BY InvIs
<1>1. PICK r \in Send(my, "names", GivenCharset) :
        /\ srv' = r.srv /\ Returned(r.exc)
        /\ IF r.exc = "none"
             THEN /\ my' = [r.my EXCEPT !.charset = CharsetOf(GivenCharset)]
                  /\ py' = [py EXCEPT !.encoding = PyCodec(GivenCharset)]
                  /\ hist' = [hist EXCEPT !.charset = GivenCharset, !.changed = FALSE]
             ELSE my' = r.my /\ hist' = Told(hist, r.exc) /\ py' = py
  BY DEF ChangeCharsetOnServer
<1>2. ~Idle /\ Active("charset") /\ Head(run.plan) = "charset"
  BY DEF Active
<1>3. /\ hist \in Histories /\ my \in Clients /\ hist.rows \in Nat /\ my.charset \in Charsets
      /\ py \in [built : BOOLEAN, encoding : Codecs, reconnect : BOOLEAN]
      /\ run.charset \in Names \cup {None}
  BY <1>0, SessionAssumption DEF TypeOK, Histories, Clients, Runs
<1>4. /\ GivenCharset \in Names \cup Charsets
      /\ CharsetOf(GivenCharset) \in Charsets /\ GivenCharset # None
      /\ PyCodec(GivenCharset) \in Codecs
  <2>1. GivenCharset \in Names \cup Charsets
    BY <1>3 DEF GivenCharset
  <2> QED
    BY <2>1, CharsetOfIs
<1>5. SameButReconnect(my) /\ Operand("names", GivenCharset) /\ "names" \in Commands
  BY <1>0, <1>4 DEF SameButReconnect, TypeOK, Operand, Commands
<1>6. /\ r.srv \in Servers /\ r.my \in Clients /\ r.exc \in {"none", "server", "lost"}
      /\ r.my.charset = my.charset /\ r.my.option = my.option
      /\ r.my.reconnect = my.reconnect /\ (r.srv.id # srv.id => my.reconnect)
      /\ (srv.up => srv.charset = my.charset) /\ r.srv.up =>
           r.srv.charset = (IF r.exc = "none" /\ "names" = "names"
                              THEN CharsetOf(GivenCharset)
                            ELSE IF r.exc = "none" /\ "names" = "change_user"
                              THEN GivenCharset ELSE my.charset)
  BY <1>0, <1>5, SentIs
<1>7. r.srv.up =>
        r.srv.charset = IF r.exc = "none" THEN CharsetOf(GivenCharset) ELSE my.charset
  BY <1>0, <1>6 DEF EncodingInv
<1>8. hist.given # None
  BY <1>0, <1>2 DEF EncodingInv
<1>9. CASE r.exc = "none"
  <2>1. /\ my' = [r.my EXCEPT !.charset = CharsetOf(GivenCharset)]
        /\ py' = [py EXCEPT !.encoding = PyCodec(GivenCharset)]
        /\ hist' = [hist EXCEPT !.charset = GivenCharset, !.changed = FALSE]
    BY <1>1, <1>9
  <2>2. /\ my' \in Clients /\ my'.charset = CharsetOf(GivenCharset)
        /\ my'.option = my.option /\ my'.reconnect = my.reconnect
        /\ my'.link = r.my.link /\ my'.autocommit = r.my.autocommit
        /\ my'.trans = r.my.trans
    BY <1>4, <1>6, <2>1 DEF Clients
  <2>3. /\ py' \in [built : BOOLEAN, encoding : Codecs, reconnect : BOOLEAN]
        /\ py'.built = py.built /\ py'.reconnect = py.reconnect
        /\ py'.encoding = PyCodec(GivenCharset)
    BY <1>3, <1>4, <2>1
  <2>4. /\ hist' \in Histories /\ hist'.rows = hist.rows /\ hist'.settled = hist.settled
        /\ hist'.autocommit = hist.autocommit /\ hist'.charset = GivenCharset
        /\ hist'.given = hist.given /\ hist'.changed = FALSE
        /\ hist'.reconnect = hist.reconnect
        /\ hist'.ran = hist.ran /\ hist'.begun = hist.begun
    BY <1>3, <1>4, <2>1 DEF Histories
  <2>5. Sound(r.srv, r.my, hist)
    BY <1>0, <1>3, <1>4, <1>5, <1>9, AcceptedIs, ServeNames
  <2>6. Sound(srv', my', hist')
    BY <1>1, <2>2, <2>4, <2>5 DEF Sound
  <2>7. my'.charset =
          CharsetOf(IF run.charset = None THEN my'.charset ELSE run.charset)
    BY <2>2, CharsetOfTwice DEF GivenCharset
  <2>8. PlanInv' /\ run' \in Runs
    BY <1>0, <1>1, <1>2, <1>6, <2>3, <2>7, PlanKept
  <2>9. EncodingInv'
    <3>1. srv'.up => srv'.charset = my'.charset
      BY <1>1, <1>7, <1>9, <2>2
    <3>2. hist'.given # None => my'.option = hist'.given
      BY <1>0, <2>2, <2>4 DEF EncodingInv
    <3> QED
      BY <1>4, <1>8, <2>2, <2>3, <2>4, <3>1, <3>2 DEF EncodingInv
  <2>10. TypeOK' /\ ReconnectInv' /\ Asked
    BY <1>0, <1>1, <1>6, <2>2, <2>3, <2>4, <2>8 DEF TypeOK, ReconnectInv, Asked
  <2> QED
    BY <2>6, <2>8, <2>9, <2>10, InvNextIs
<1>10. CASE r.exc # "none"
  <2>1. /\ r.exc \in {"server", "lost"} /\ hist' = Told(hist, r.exc)
        /\ my' = r.my /\ py' = py
    BY <1>1, <1>6, <1>10
  <2>2. Sound(srv', my', hist')
    BY <1>0, <1>1, <1>3, <1>5, <2>1, ToldIs, FailedSound
  <2>3. PlanInv' /\ run' \in Runs /\ run'.plan = << >>
    BY <1>0, <1>1, <1>2, <1>6, <1>10, <2>1, RunStep, PlanKept
  <2>4. EncodingInv'
    BY <1>0, <1>1, <1>3, <1>6, <1>7, <1>10, <2>1, <2>3, ToldIs
       DEF EncodingInv, Idle, Active
  <2>5. TypeOK' /\ ReconnectInv' /\ Asked
    BY <1>0, <1>1, <1>3, <1>6, <2>1, <2>3, ToldIs DEF TypeOK, ReconnectInv, Asked
  <2> QED
    BY <2>2, <2>3, <2>4, <2>5, InvNextIs
<1> QED
  BY <1>6, <1>9, <1>10

(* Without a link MySQL's library takes the character set for itself and   *)
(* for the sessions to come.                                               *)
LEMMA HomeCharsetStep ==
  Inv /\ Active("charset") /\ ChangeCharsetAtHome(PyCodec(GivenCharset)) => Inv' /\ Asked
<1> SUFFICES ASSUME Inv, Active("charset"), ChangeCharsetAtHome(PyCodec(GivenCharset))
             PROVE  Inv' /\ Asked
  OBVIOUS
<1>0. TypeOK /\ PlanInv /\ ReconnectInv /\ EncodingInv /\ Sound(srv, my, hist)
  BY InvIs
<1> DEFINE c == CharsetOf(GivenCharset)
<1>1. /\ my.link = "closed" /\ srv' = srv /\ Returned("none")
      /\ my' = [my EXCEPT !.charset = c, !.option = c]
      /\ py' = [py EXCEPT !.encoding = PyCodec(GivenCharset)]
      /\ hist' = [hist EXCEPT !.charset = GivenCharset, !.changed = FALSE, !.given = c]
  BY DEF ChangeCharsetAtHome
<1>2. ~Idle /\ Head(run.plan) = "charset"
  BY DEF Active
<1>3. /\ hist \in Histories /\ my \in Clients
      /\ py \in [built : BOOLEAN, encoding : Codecs, reconnect : BOOLEAN]
      /\ run.charset \in Names \cup {None} /\ my.charset \in Charsets
  BY <1>0 DEF TypeOK, Clients, Runs
<1>4. /\ GivenCharset \in Names \cup Charsets
      /\ c \in Charsets /\ c # None /\ GivenCharset # None /\ PyCodec(GivenCharset) \in Codecs
  <2>1. GivenCharset \in Names \cup Charsets
    BY <1>3 DEF GivenCharset
  <2> QED
    BY <2>1, CharsetOfIs
<1>5. c = CharsetOf(IF run.charset = None THEN c ELSE run.charset)
  BY CharsetOfTwice DEF GivenCharset
<1>6. c = CharsetOf(GivenCharset)
  OBVIOUS
<1> HIDE DEF c
<1>7. /\ my' \in Clients /\ my'.charset = c /\ my'.option = c
      /\ my'.link = my.link /\ my'.reconnect = my.reconnect
      /\ my'.autocommit = my.autocommit /\ my'.trans = my.trans
  BY <1>1, <1>3, <1>4 DEF Clients
<1>8. /\ py' \in [built : BOOLEAN, encoding : Codecs, reconnect : BOOLEAN]
      /\ py'.built = py.built /\ py'.reconnect = py.reconnect
      /\ py'.encoding = PyCodec(GivenCharset)
  BY <1>1, <1>3, <1>4
<1>9. /\ hist' \in Histories /\ hist'.rows = hist.rows /\ hist'.settled = hist.settled
      /\ hist'.autocommit = hist.autocommit /\ hist'.charset = GivenCharset
      /\ hist'.given = c /\ hist'.changed = FALSE /\ hist'.reconnect = hist.reconnect
      /\ hist'.ran = hist.ran /\ hist'.begun = hist.begun
  BY <1>1, <1>3, <1>4 DEF Histories
<1>10. ~srv.up
  BY <1>0, <1>1 DEF Sound
<1>11. PlanInv' /\ run' \in Runs
  BY <1>0, <1>1, <1>2, <1>5, <1>7, <1>8, PlanKept
<1>12. EncodingInv'
  BY <1>1, <1>4, <1>6, <1>7, <1>8, <1>9, <1>10 DEF EncodingInv
<1>13. Sound(srv', my', hist')
  BY <1>0, <1>1, <1>7, <1>9 DEF Sound
<1>14. TypeOK' /\ ReconnectInv' /\ Asked
  BY <1>0, <1>1, <1>7, <1>8, <1>9, <1>11 DEF TypeOK, ReconnectInv, Asked
<1> QED
  BY <1>11, <1>12, <1>13, <1>14, InvNextIs

LEMMA ChangeCharsetStep == Inv /\ ChangeCharset => Inv' /\ Asked
  BY ServerCharsetStep, HomeCharsetStep DEF ChangeCharset, ChangeCharsetTo

(* The constructor begins a session with the character set that it was     *)
(* given, or fails.                                                        *)
LEMMA ConnectStep == Inv /\ Connect => Inv' /\ Asked
<1> SUFFICES ASSUME Inv, Connect
             PROVE  Inv' /\ Asked
  OBVIOUS
<1>0. TypeOK /\ PlanInv /\ ReconnectInv /\ EncodingInv /\ Sound(srv, my, hist)
  BY InvIs
<1>1. /\ ~Idle /\ Active("connect") /\ Head(run.plan) = "connect"
      /\ py' = NewConnection
  BY DEF Connect, ConnectWith, Active
<1>2. /\ srv \in Servers /\ hist \in Histories /\ srv.id < MaxSessions
      /\ run.charset \in Names \cup {None} /\ srv.id \in Nat
  BY <1>0, <1>1, SessionAssumption DEF TypeOK, PlanInv, Runs, Servers, SessionIds
<1>3. FirstCharset \in Charsets /\ FirstCharset # None
  <2>1. CASE run.charset = None
    BY <2>1, CharsetAssumption DEF FirstCharset, Charsets
  <2>2. CASE run.charset \in Names
    BY <2>2, CharsetAssumption, SessionAssumption DEF FirstCharset, Charsets
  <2> QED
    BY <1>2, <2>1, <2>2
<1>4. run.method = "construct" /\ py.built = FALSE
  <2>1. run.plan # << >> /\ run.method \in Methods /\ run.plan \in Plans(run.method)
    BY <1>0, <1>1 DEF PlanInv, TypeOK, Runs, Idle
  <2>2. run.method = "construct"
    BY <1>1, <2>1, PlanStep DEF Follows
  <2> QED
    BY <1>0, <1>1, <2>2 DEF PlanInv, TypeOK
<1>5. Asked
  BY <1>4 DEF Asked
<1>6. /\ py' \in [built : BOOLEAN, encoding : Codecs, reconnect : BOOLEAN]
      /\ py'.built = FALSE /\ py'.reconnect = FALSE
  BY <1>1 DEF NewConnection, Codecs
<1>7. /\ NoHistory.rows = 0 /\ NoHistory.ran = {} /\ NoHistory.begun = FALSE
      /\ NoHistory.autocommit = None /\ NoHistory.settled = 0
      /\ NoHistory.given = None /\ NoHistory.charset = None
      /\ NoHistory.changed = FALSE /\ NoHistory.reconnect = FALSE
      /\ NoHistory \in Histories
  BY SessionAssumption DEF NoHistory, Histories, SessionIds
<1>8. srv.done \subseteq 1..hist.rows
  BY <1>0 DEF Sound
<1>9. CASE /\ srv' = NewSession(srv, FirstCharset)
           /\ my' = [Unconnected EXCEPT
                       !.link = "up",
                       !.autocommit = NewSession(srv, FirstCharset).autocommit,
                       !.option = FirstCharset, !.charset = FirstCharset]
           /\ hist' = [NoHistory EXCEPT !.rows = hist.rows, !.given = FirstCharset]
           /\ Returned("none")
  <2>1. /\ srv' \in Servers /\ srv'.id = srv.id + 1 /\ srv'.up
        /\ srv'.charset = FirstCharset /\ srv'.default = srv.default
        /\ srv'.autocommit = srv.default /\ ~srv'.trans /\ srv'.pending = {}
        /\ srv'.done = srv.done
    BY <1>2, <1>3, <1>9, NewSessionIs
  <2>2. my' = [Unconnected EXCEPT !.link = "up", !.autocommit = srv.default,
                                  !.option = FirstCharset, !.charset = FirstCharset]
    BY <1>2, <1>3, <1>9, NewSessionIs
  <2>3. /\ my' \in Clients /\ my'.link = "up" /\ my'.autocommit = srv.default
        /\ my'.option = FirstCharset /\ my'.charset = FirstCharset
        /\ my'.trans = FALSE /\ my'.reconnect = FALSE
    BY <1>2, <1>3, <2>2 DEF Unconnected, Clients, Servers
  <2>4. /\ hist' \in Histories /\ hist'.rows = hist.rows /\ hist'.ran = {}
        /\ hist'.begun = FALSE /\ hist'.autocommit = None /\ hist'.settled = 0
        /\ hist'.given = FirstCharset /\ hist'.charset = None /\ hist'.reconnect = FALSE
    BY <1>2, <1>3, <1>7, <1>9 DEF Histories
  <2>5. srv.default \in BOOLEAN
    BY <1>2 DEF Servers
  <2>6. Sound(srv', my', hist')
    <3>1. /\ srv'.up /\ my'.link = "up" /\ my'.autocommit = srv'.autocommit
          /\ my'.trans = srv'.trans
      BY <2>1, <2>3 DEF Servers
    <3>2. srv'.autocommit => srv'.default
      BY <2>1
    <3>3. hist'.settled <= srv'.id
      BY <1>2, <2>1, <2>4
    <3> QED
      BY <1>8, <2>1, <2>4, <3>1, <3>2, <3>3 DEF Sound
  <2>7. /\ PlanInv' /\ run' \in Runs
    BY <1>0, <1>1, <1>4, <1>6, <1>9, PlanKept
  <2>8. run'.plan # << >> => Head(run'.plan) = "charset"
    BY <1>0, <1>1, <1>9, RunStep DEF Follows
  <2>9. EncodingInv'
    BY <1>3, <1>6, <2>1, <2>3, <2>4, <2>8 DEF EncodingInv, Idle, Active
  <2>10. TypeOK' /\ ReconnectInv'
    BY <1>6, <2>1, <2>3, <2>4, <2>7 DEF TypeOK, ReconnectInv
  <2> QED
    BY <1>5, <2>6, <2>7, <2>9, <2>10, InvNextIs
<1>10. CASE /\ srv' = Gone(srv) /\ my' = Unconnected
            /\ hist' = [NoHistory EXCEPT !.rows = hist.rows]
            /\ Returned("lost")
  <2>1. /\ srv' \in Servers /\ ~srv'.up /\ srv'.pending = {} /\ srv'.done = srv.done
        /\ srv'.id = srv.id /\ srv'.default = srv.default
    BY <1>2, <1>10, GoneIs
  <2>2. my' \in Clients /\ my'.reconnect = FALSE
    BY <1>10, CharsetAssumption DEF Unconnected, Clients, Charsets
  <2>3. /\ hist' \in Histories /\ hist'.rows = hist.rows /\ hist'.ran = {}
        /\ hist'.begun = FALSE /\ hist'.settled = 0
        /\ hist'.given = None /\ hist'.charset = None /\ hist'.reconnect = FALSE
    BY <1>2, <1>7, <1>10 DEF Histories
  <2>4. Sound(srv', my', hist')
    BY <1>2, <1>8, <2>1, <2>3, LostSound
  <2>5. /\ PlanInv' /\ run' \in Runs
    BY <1>0, <1>1, <1>4, <1>6, <1>10, PlanKept
  <2>6. run'.plan = << >>
    BY <1>0, <1>1, <1>10, RunStep
  <2>7. EncodingInv'
    BY <1>6, <2>1, <2>3, <2>6 DEF EncodingInv, Idle, Active
  <2>8. TypeOK' /\ ReconnectInv'
    BY <1>6, <2>1, <2>2, <2>3, <2>5 DEF TypeOK, ReconnectInv
  <2> QED
    BY <1>5, <2>4, <2>5, <2>7, <2>8, InvNextIs
<1> QED
  BY <1>9, <1>10 DEF Connect, ConnectWith

(* The constructor is done. *)
LEMMA BuiltStep == Inv /\ Built => Inv' /\ Asked
<1> SUFFICES ASSUME Inv, Built
             PROVE  Inv' /\ Asked
  OBVIOUS
<1>0. TypeOK /\ PlanInv /\ ReconnectInv /\ EncodingInv /\ Sound(srv, my, hist)
  BY InvIs
<1>1. /\ ~Idle /\ Head(run.plan) = "built" /\ Returned("none")
      /\ srv' = srv /\ my' = my /\ hist' = hist /\ py' = [py EXCEPT !.built = TRUE]
  BY DEF Built, Active
<1>2. /\ py' \in [built : BOOLEAN, encoding : Codecs, reconnect : BOOLEAN]
      /\ py'.encoding = py.encoding /\ py'.reconnect = py.reconnect
  BY <1>0, <1>1 DEF TypeOK
<1>3. run'.plan = << >>
  BY <1>0, <1>1, RunStep DEF Follows
<1>4. PlanInv' /\ run' \in Runs
  BY <1>0, <1>1, <1>3, PlanKept
<1>5. EncodingInv'
  BY <1>0, <1>1, <1>2, EncodingKept DEF EncodingInv
<1>6. TypeOK' /\ ReconnectInv' /\ Asked /\ Sound(srv', my', hist')
  BY <1>0, <1>1, <1>2, <1>4 DEF TypeOK, ReconnectInv, Asked
<1> QED
  BY <1>4, <1>5, <1>6, InvNextIs

(* The session ends while the program looks away. *)
LEMMA DisconnectStep == Inv /\ Disconnect => Inv' /\ Asked
<1> SUFFICES ASSUME Inv, Disconnect
             PROVE  Inv' /\ Asked
  OBVIOUS
<1>0. TypeOK /\ PlanInv /\ ReconnectInv /\ EncodingInv /\ Sound(srv, my, hist)
  BY InvIs
<1>1. /\ srv.up /\ srv' = Gone(srv)
      /\ my' = my /\ py' = py /\ run' = run /\ hist' = hist
  BY DEF Disconnect
<1>2. /\ srv' \in Servers /\ ~srv'.up /\ srv'.id = srv.id
  BY <1>0, <1>1, GoneIs DEF TypeOK
<1>3. Sound(srv', my', hist')
  BY <1>0, <1>1, GoneSound DEF TypeOK
<1>4. TypeOK' /\ PlanInv' /\ ReconnectInv' /\ EncodingInv' /\ Asked
  BY <1>0, <1>1, <1>2
     DEF TypeOK, PlanInv, ReconnectInv, EncodingInv, Asked, Idle, Active, GivenCharset
<1> QED
  BY <1>3, <1>4, InvNextIs

(* The constructor connects, sets the character set, and the autocommit    *)
(* mode when it was asked for.                                             *)
LEMMA ConstructPlanIs ==
  ASSUME NEW collation \in BOOLEAN, NEW on
  PROVE  LET plan == ConstructPlan(collation, on)
         IN /\ plan \in Plans("construct") /\ plan \in Seq(Steps)
            /\ Head(plan) = "connect"
            /\ on = None => \A i \in DOMAIN plan : plan[i] \notin {"get", "set"}
<1> DEFINE plan == ConstructPlan(collation, on)
<1>1. CASE ~collation /\ on = None
  <2>1. plan = <<"connect", "charset", "built">>
    BY <1>1 DEF ConstructPlan
  <2>2. <<"connect", "charset", "built">> \in Plans("construct")
    BY DEF Plans
  <2>3. <<"connect", "charset", "built">> \in Seq(Steps) /\ Head(<<"connect", "charset", "built">>) = "connect"
    BY DEF Steps
  <2>4. \A i \in DOMAIN <<"connect", "charset", "built">> :
          <<"connect", "charset", "built">>[i] \notin {"get", "set"}
    OBVIOUS
  <2> QED
    BY <1>1, <2>1, <2>2, <2>3, <2>4
<1>2. CASE ~collation /\ on # None
  <2>1. plan = <<"connect", "charset", "get", "built">>
    BY <1>2 DEF ConstructPlan
  <2>2. <<"connect", "charset", "get", "built">> \in Plans("construct")
    BY DEF Plans
  <2>3. <<"connect", "charset", "get", "built">> \in Seq(Steps) /\ Head(<<"connect", "charset", "get", "built">>) = "connect"
    BY DEF Steps
  <2> QED
    BY <1>2, <2>1, <2>2, <2>3
<1>3. CASE collation /\ on = None
  <2>1. plan = <<"connect", "charset", "collate", "built">>
    BY <1>3 DEF ConstructPlan
  <2>2. <<"connect", "charset", "collate", "built">> \in Plans("construct")
    BY DEF Plans
  <2>3. <<"connect", "charset", "collate", "built">> \in Seq(Steps) /\ Head(<<"connect", "charset", "collate", "built">>) = "connect"
    BY DEF Steps
  <2>4. \A i \in DOMAIN <<"connect", "charset", "collate", "built">> :
          <<"connect", "charset", "collate", "built">>[i] \notin {"get", "set"}
    OBVIOUS
  <2> QED
    BY <1>3, <2>1, <2>2, <2>3, <2>4
<1>4. CASE collation /\ on # None
  <2>1. plan = <<"connect", "charset", "collate", "get", "built">>
    BY <1>4 DEF ConstructPlan
  <2>2. <<"connect", "charset", "collate", "get", "built">> \in Plans("construct")
    BY DEF Plans
  <2>3. <<"connect", "charset", "collate", "get", "built">> \in Seq(Steps) /\ Head(<<"connect", "charset", "collate", "get", "built">>) = "connect"
    BY DEF Steps
  <2> QED
    BY <1>4, <2>1, <2>2, <2>3
<1> QED
  BY <1>1, <1>2, <1>3, <1>4

(* A method begins, when none runs. *)
LEMMA StartStep == Inv /\ Start => Inv' /\ Asked
<1> SUFFICES ASSUME Inv, Start
             PROVE  Inv' /\ Asked
  OBVIOUS
<1>0. TypeOK /\ PlanInv /\ ReconnectInv /\ EncodingInv /\ Sound(srv, my, hist)
  BY InvIs
<1>1. ASSUME srv' = srv, my' = my, py' = py, hist' = hist, run' \in Runs,
             run'.plan \in Plans(run'.method),
             py.built <=> run'.method # "construct",
             ~py.built => srv.id < MaxSessions,
             Head(run'.plan) = "connect" => ~py.built,
             Head(run'.plan) \in {"charset", "get", "set", "insert"} => py.built,
             Head(run'.plan) # "collate", Head(run'.plan) # "built",
             run'.on = None =>
               \A i \in DOMAIN run'.plan : run'.plan[i] \notin {"get", "set"},
             run'.method = "set_character_set" => run'.charset \in Names,
             Head(run'.plan) = "insert" => hist.rows < MaxStatements
      PROVE  Inv' /\ Asked
  <2>1. PlanInv'
    BY <1>1 DEF PlanInv, Idle, Active
  <2>2. EncodingInv'
    BY <1>0, <1>1 DEF EncodingInv, Idle, Active
  <2>3. TypeOK' /\ ReconnectInv' /\ Sound(srv', my', hist') /\ Asked
    BY <1>0, <1>1 DEF TypeOK, ReconnectInv, Asked
  <2> QED
    BY <2>1, <2>2, <2>3, InvNextIs
<1>2. ASSUME NEW method \in Methods \ {"construct"}, NEW plan \in Plans(method) \ {<< >>},
             NEW charset \in Names \cup {None}, NEW on \in BOOLEAN \cup {None},
             Begin(method, plan, charset, on),
             plan \in Seq(Steps), Head(plan) \notin {"connect", "collate", "built"},
             on = None => \A i \in DOMAIN plan : plan[i] \notin {"get", "set"},
             method = "set_character_set" => charset \in Names,
             Head(plan) = "insert" => hist.rows < MaxStatements
      PROVE  Inv' /\ Asked
  <2>1. /\ py.built /\ srv' = srv /\ my' = my /\ py' = py /\ hist' = hist
        /\ run' = [method |-> method, plan |-> plan, charset |-> charset, on |-> on,
                   exc |-> "none"]
    BY <1>2 DEF Begin
  <2>2. /\ run' \in Runs /\ run'.method = method /\ run'.plan = plan
        /\ run'.charset = charset /\ run'.on = on
    BY <1>2, <2>1 DEF Runs
  <2> QED
    BY <1>1, <1>2, <2>1, <2>2
<1>3. CASE \E charset \in Names \cup {None}, collation \in BOOLEAN, on \in {None, TRUE, FALSE} :
             Construct(charset, collation, on)
  <2>1. PICK charset \in Names \cup {None}, collation \in BOOLEAN, on \in {None, TRUE, FALSE} :
          Construct(charset, collation, on)
    BY <1>3
  <2> DEFINE plan == ConstructPlan(collation, on)
  <2>2. /\ ~py.built /\ srv.id < MaxSessions
        /\ srv' = srv /\ my' = my /\ py' = py /\ hist' = hist
        /\ run' = [NoRun EXCEPT !.method = "construct", !.charset = charset, !.on = on,
                                !.plan = plan]
    BY <2>1 DEF Construct
  <2>3. /\ plan \in Plans("construct") /\ plan \in Seq(Steps) /\ Head(plan) = "connect"
        /\ on = None => \A i \in DOMAIN plan : plan[i] \notin {"get", "set"}
    BY ConstructPlanIs
  <2> HIDE DEF plan
  <2>5. /\ run' \in Runs /\ run'.method = "construct" /\ run'.plan = plan
        /\ run'.charset = charset /\ run'.on = on
    BY <2>2, <2>3 DEF NoRun, Runs, Methods
  <2> QED
    BY <1>1, <2>2, <2>3, <2>5
<1>4. CASE \E charset \in Names, collation \in BOOLEAN : SetCharacterSet(charset, collation)
  <2>1. PICK charset \in Names, collation \in BOOLEAN : SetCharacterSet(charset, collation)
    BY <1>4
  <2> DEFINE plan == CharsetPlan(collation)
  <2>2. Begin("set_character_set", plan, charset, None)
    BY <2>1 DEF SetCharacterSet
  <2>3. /\ plan \in Plans("set_character_set") /\ plan # << >> /\ plan \in Seq(Steps)
        /\ Head(plan) = "charset"
    BY DEF Plans, Steps, CharsetPlan
  <2>4. \A i \in DOMAIN plan : plan[i] \notin {"get", "set"}
    BY DEF CharsetPlan
  <2> HIDE DEF plan
  <2> QED
    BY <1>2, <2>2, <2>3, <2>4 DEF Methods
<1>5. CASE \E on \in BOOLEAN : Autocommit(on) \/ ExecuteSetAutocommit(on)
  <2>1. PICK on \in BOOLEAN : Autocommit(on) \/ ExecuteSetAutocommit(on)
    BY <1>5
  <2>2. /\ <<"get">> \in Plans("autocommit") /\ <<"set">> \in Plans("execute")
        /\ <<"get">> # << >> /\ <<"set">> # << >>
        /\ <<"get">> \in Seq(Steps) /\ <<"set">> \in Seq(Steps)
        /\ Head(<<"get">>) = "get" /\ Head(<<"set">>) = "set" /\ on # None
    BY SessionAssumption DEF Plans, Steps
  <2>3. CASE Autocommit(on)
    <3>1. Begin("autocommit", <<"get">>, None, on)
      BY <2>3 DEF Autocommit
    <3> QED
      BY <1>2, <2>2, <3>1 DEF Methods
  <2>4. CASE ExecuteSetAutocommit(on)
    <3>1. Begin("execute", <<"set">>, None, on)
      BY <2>4 DEF ExecuteSetAutocommit
    <3> QED
      BY <1>2, <2>2, <3>1 DEF Methods
  <2> QED
    BY <2>1, <2>3, <2>4
<1>6. CASE Insert
  <2>1. Begin("execute", <<"insert">>, None, None) /\ hist.rows < MaxStatements
    BY <1>6 DEF Insert
  <2>2. /\ <<"insert">> \in Plans("execute") /\ <<"insert">> # << >>
        /\ <<"insert">> \in Seq(Steps) /\ Head(<<"insert">>) = "insert"
        /\ \A i \in DOMAIN <<"insert">> : <<"insert">>[i] \notin {"get", "set"}
    BY DEF Plans, Steps
  <2> QED
    BY <1>2, <2>1, <2>2 DEF Methods
<1>7. ASSUME NEW method \in {"begin", "commit", "rollback", "change_user", "ping"},
             NEW on \in BOOLEAN \cup {None}, Begin(method, <<method>>, None, on)
      PROVE  Inv' /\ Asked
  <2> DEFINE plan == <<method>>
  <2>1. /\ plan \in Plans(method) /\ plan # << >> /\ plan \in Seq(Steps)
        /\ Head(plan) = method /\ \A i \in DOMAIN plan : plan[i] \notin {"get", "set"}
    BY DEF Plans, Steps
  <2> HIDE DEF plan
  <2>2. Begin(method, plan, None, on)
    BY <1>7 DEF plan
  <2> QED
    BY <1>2, <2>1, <2>2 DEF Methods
<1>8. CASE \E method \in {"begin", "commit", "rollback", "change_user"} : Method(method)
  BY <1>7, <1>8 DEF Method
<1>9. CASE \E reconnect \in {None, TRUE, FALSE} : Ping(reconnect)
  BY <1>7, <1>9 DEF Ping
<1> QED
  BY <1>3, <1>4, <1>5, <1>6, <1>8, <1>9 DEF Start

-----------------------------------------------------------------------------
LEMMA InitInv == Init => Inv
<1> SUFFICES ASSUME Init
             PROVE  Inv
  OBVIOUS
<1>1. PICK default \in BOOLEAN : srv = NoSession(default)
  BY DEF Init
<1>2. /\ srv \in Servers /\ srv.id = 0 /\ ~srv.up /\ srv.pending = {} /\ srv.done = {}
  BY <1>1, SessionAssumption DEF NoSession, Servers, Charsets, SessionIds
<1>3. my \in Clients /\ my.reconnect = FALSE
  BY DEF Init, Unconnected, Clients, Charsets
<1>4. /\ py \in [built : BOOLEAN, encoding : Codecs, reconnect : BOOLEAN]
      /\ py.built = FALSE /\ py.reconnect = FALSE
  BY DEF Init, NewConnection, Codecs
<1>5. /\ run \in Runs /\ run.plan = << >> /\ run.method = "none"
  BY DEF Init, NoRun, Runs, Methods
<1>6. /\ hist \in Histories /\ hist.ran = {} /\ hist.begun = FALSE /\ hist.settled = 0
      /\ hist.given = None /\ hist.charset = None /\ hist.reconnect = FALSE
  BY SessionAssumption DEF Init, NoHistory, Histories, SessionIds
<1>7. Sound(srv, my, hist)
  BY <1>2, <1>6, LostSound
<1>8. << >> \in Plans("none")
  BY DEF Plans
<1>9. PlanInv
  BY <1>5, <1>8 DEF PlanInv, Idle, Active
<1>10. EncodingInv
  BY <1>2, <1>4, <1>5, <1>6 DEF EncodingInv, Idle, Active
<1>11. TypeOK /\ ReconnectInv
  BY <1>2, <1>3, <1>4, <1>5, <1>6 DEF TypeOK, ReconnectInv
<1> QED
  BY <1>7, <1>9, <1>10, <1>11, InvIs

LEMMA NextInv == Inv /\ [Next]_vars => Inv' /\ Asked
<1> SUFFICES ASSUME Inv, [Next]_vars
             PROVE  Inv' /\ Asked
  OBVIOUS
<1>1. CASE Disconnect
  BY <1>1, DisconnectStep
<1>2. CASE Start
  BY <1>2, StartStep
<1>3. CASE Step
  BY <1>3, ConnectStep, ChangeCharsetStep, CollateStep, BuiltStep, GetAutocommitStep,
     SetAutocommitStep, InsertRowStep, BeginTransactionStep, EndTransactionStep,
     ChangeUserStep, PingServerStep DEF Step
<1>4. CASE UNCHANGED vars
  <2>1. TypeOK' /\ PlanInv' /\ ReconnectInv' /\ EncodingInv' /\ Sound(srv', my', hist')
    BY <1>4, InvIs
       DEF vars, TypeOK, PlanInv, ReconnectInv, EncodingInv, Idle, Active, GivenCharset
  <2>2. Asked
    BY <1>4 DEF vars, Asked
  <2> QED
    BY <2>1, <2>2, InvNextIs
<1> QED
  BY <1>1, <1>2, <1>3, <1>4 DEF Next

(* The invariant is inductive. *)
THEOREM Invariance == Spec => []Inv
<1>1. Init => Inv
  BY InitInv
<1>2. Inv /\ [Next]_vars => Inv'
  BY NextInv
<1> QED
  BY <1>1, <1>2, PTL DEF Spec

(* Every attribute of the Connection object, of the library's MYSQL and of *)
(* the session is what the code may make of it.                            *)
THEOREM TypeCorrect == Spec => []TypeOK
<1>1. Inv => TypeOK
  BY DEF Inv
<1> QED
  BY <1>1, Invariance, PTL

(* A row that execute() inserted is in the open transaction or committed,  *)
(* until an exception of Connection tells otherwise.                       *)
THEOREM RowsKept == Spec => []NoRowVanishes
<1>1. Inv => NoRowVanishes
  BY DEF Inv, KeepInv, NoRowVanishes
<1> QED
  BY <1>1, Invariance, PTL

(* autocommit() has set the mode of the session that it looked at. *)
THEOREM AutocommitKept == Spec => []AutocommitAsAsked
<1>1. Inv => AutocommitAsAsked
  BY DEF Inv, SettledInv, AutocommitAsAsked
<1> QED
  BY <1>1, Invariance, PTL

(* set_character_set() and _get_encoding() look up the same codec. *)
LEMMA CodecsAgree ==
  ASSUME NEW name
  PROVE  PyCodec(name) = CCodec(name)
<1>1. /\ DOMAIN PyCodecs = {"utf8mb4", "utf8mb3", "latin1", "koi8r", "koi8u"}
      /\ PyCodecs["utf8mb4"] = "utf8" /\ PyCodecs["utf8mb3"] = "utf8"
      /\ PyCodecs["latin1"] = "cp1252" /\ PyCodecs["koi8r"] = "koi8_r"
      /\ PyCodecs["koi8u"] = "koi8_u"
  BY DEF PyCodecs
<1>2. CASE name \in {"utf8mb4", "utf8mb3"}
  BY <1>1, <1>2 DEF PyCodec, CCodec
<1>3. CASE name = "latin1"
  BY <1>1, <1>3 DEF PyCodec, CCodec
<1>4. CASE name = "koi8r"
  BY <1>1, <1>4 DEF PyCodec, CCodec
<1>5. CASE name = "koi8u"
  BY <1>1, <1>5 DEF PyCodec, CCodec
<1>6. CASE name \notin DOMAIN PyCodecs
  <2>1. PyCodec(name) = name
    BY <1>6 DEF PyCodec
  <2>2. CASE name = "utf8"
    BY <2>1, <2>2 DEF CCodec
  <2>3. CASE name # "utf8"
    BY <1>1, <1>6, <2>1, <2>3 DEF CCodec
  <2> QED
    BY <2>2, <2>3
<1> QED
  BY <1>1, <1>2, <1>3, <1>4, <1>5, <1>6

(* set_character_set() keeps the codec of arguments, that of results and   *)
(* the server's character set together.                                    *)
THEOREM EncodingsAgree == Spec => []EncodingFollows
<1>1. Inv => EncodingFollows
  <2> SUFFICES ASSUME Inv, Idle, py.built
               PROVE  /\ srv.up => srv.charset = my.charset
                      /\ CharsetOf(hist.charset) = hist.charset
                         /\ (hist.changed => hist.charset = hist.given)
                         => py.encoding = CCodec(my.charset)
    BY DEF EncodingFollows
  <2>1. /\ srv.up => srv.charset = my.charset
        /\ hist.charset # None
        /\ hist.given # None /\ my.option = hist.given
        /\ my.charset = IF hist.changed THEN my.option ELSE CharsetOf(hist.charset)
        /\ py.encoding = PyCodec(hist.charset)
    BY DEF Inv, EncodingInv
  <2>2. ASSUME CharsetOf(hist.charset) = hist.charset,
               hist.changed => hist.charset = hist.given
        PROVE  py.encoding = CCodec(my.charset)
    <3>1. my.charset = hist.charset
      BY <2>1, <2>2
    <3> QED
      BY <2>1, <3>1, CodecsAgree
  <2> QED
    BY <2>1, <2>2
<1> QED
  BY <1>1, Invariance, PTL

(* Only a ping() that asks for it lets the library reconnect, and only as  *)
(* long as no later one asks for the contrary.                             *)
THEOREM ReconnectsOnlyWhenAsked == Spec => ReconnectsOnlyAsked
<1>1. Inv /\ [Next]_vars => [py.built /\ srv'.id # srv.id => hist'.reconnect]_vars
  BY NextInv DEF Asked
<1> QED
  BY <1>1, Invariance, PTL DEF Spec, ReconnectsOnlyAsked

(* commit() and rollback() send one command, and return with its answer. *)
LEMMA TransactionReturns ==
  ASSUME Inv, Next, NEW method \in {"commit", "rollback"}, Returns(method)
  PROVE  \E s \in Servers :
           /\ s.up /\ s.done = srv.done /\ Sound(s, Synced(my, s), hist)
           /\ srv' = Serve(s, method, None)
<1>0. TypeOK /\ PlanInv /\ Sound(srv, my, hist)
  BY InvIs
<1>1. /\ run.method = method /\ ~Idle /\ run'.plan = << >> /\ run'.exc = "none"
      /\ run.plan # << >>
  BY DEF Returns, Idle
<1>2. Head(run.plan) = method
  <2>1. run.method \in Methods /\ run.plan \in Plans(run.method)
    BY <1>0 DEF PlanInv, TypeOK, Runs
  <2>2. Follows(run.method, Head(run.plan), Tail(run.plan))
    BY <1>1, <2>1, PlanStep
  <2> QED
    BY <1>1, <2>2 DEF Follows, OneCommand
<1>3. EndTransaction
  <2>1. ~Disconnect
    BY <1>1 DEF Disconnect
  <2>2. ~Start
    BY <1>1 DEF Start, Construct, SetCharacterSet, Autocommit, ExecuteSetAutocommit,
       Insert, Method, Ping, Begin
  <2>3. ~Connect /\ ~ChangeCharset /\ ~Collate /\ ~Built /\ ~GetAutocommit
    BY <1>2 DEF Connect, ConnectWith, ChangeCharset, ChangeCharsetTo, Collate, Built,
       GetAutocommit, Active
  <2>4. /\ ~SetAutocommit /\ ~InsertRow /\ ~BeginTransaction /\ ~ChangeUser
        /\ ~PingServer
    BY <1>2 DEF SetAutocommit, InsertRow, BeginTransaction, ChangeUser, PingServer,
       PingWith, Active
  <2> QED
    BY <2>1, <2>2, <2>3, <2>4 DEF Next, Step
<1>4. PICK r \in Send(my, method, None) : srv' = r.srv /\ Returned(r.exc)
  <2>1. PICK m \in {"commit", "rollback"} :
          /\ Active(m)
          /\ \E r \in Send(my, m, None) : srv' = r.srv /\ Returned(r.exc)
    BY <1>3 DEF EndTransaction
  <2>2. m = method
    BY <1>2, <2>1 DEF Active
  <2> QED
    BY <2>1, <2>2
<1>5. /\ SameButReconnect(my) /\ Operand(method, None) /\ method \in Commands
  BY <1>0 DEF SameButReconnect, TypeOK, Operand, Commands
<1>6. r.exc = "none"
  <2>1. r.exc \in {"none", "server", "lost"}
    BY <1>0, <1>4, <1>5, SentIs
  <2> QED
    BY <1>0, <1>1, <1>4, <2>1, RunStep
<1> QED
  BY <1>0, <1>4, <1>5, <1>6, AcceptedIs

(* What commit() returns for is committed. *)
THEOREM CommitDone == Spec => CommitKeepsAll
<1>1. Inv /\ [Next]_vars => [Returns("commit") => hist.ran \subseteq srv'.done]_vars
  <2> SUFFICES ASSUME Inv, Next, Returns("commit")
               PROVE  hist.ran \subseteq srv'.done
    OBVIOUS
  <2>1. PICK s \in Servers :
          /\ s.up /\ Sound(s, Synced(my, s), hist) /\ srv' = Serve(s, "commit", None)
    BY TransactionReturns
  <2>2. hist.ran \subseteq s.pending \cup s.done
    BY <2>1 DEF Sound
  <2>3. srv'.done = s.done \cup s.pending
    <3>1. srv' = CommitWork(s)
      BY <2>1 DEF Serve
    <3> QED
      BY <3>1, CommitWorkIs
  <2> QED
    BY <2>2, <2>3
<1> QED
  BY <1>1, Invariance, PTL DEF Spec, CommitKeepsAll

(* What rollback() returns for is undone, in a transaction that begin()    *)
(* opened or where autocommit was asked off.                               *)
THEOREM RollbackDone == Spec => RollbackUndoes
<1>1. Inv /\ [Next]_vars =>
        [/\ Returns("rollback")
         /\ hist.begun \/ (hist.autocommit = FALSE /\ hist.settled = srv'.id)
         => hist.ran \cap srv'.done = {}]_vars
  <2> SUFFICES ASSUME Inv, Next, Returns("rollback"),
                      hist.begun \/ (hist.autocommit = FALSE /\ hist.settled = srv'.id)
               PROVE  hist.ran \cap srv'.done = {}
    OBVIOUS
  <2>1. PICK s \in Servers :
          /\ s.up /\ Sound(s, Synced(my, s), hist) /\ srv' = Serve(s, "rollback", None)
    BY TransactionReturns
  <2>2. srv'.done = s.done /\ srv'.id = s.id
    <3>1. srv' = UndoWork(s)
      BY <2>1 DEF Serve
    <3> QED
      BY <3>1, UndoWorkIs
  <2>3. my \in Clients
    BY DEF Inv, TypeOK
  <2>4. CASE hist.begun
    BY <2>1, <2>2, <2>4 DEF Sound
  <2>5. CASE hist.autocommit = FALSE /\ hist.settled = s.id
    <3>1. s.autocommit = FALSE /\ Synced(my, s).autocommit = s.autocommit
      BY <2>1, <2>3, <2>5, SessionAssumption, SyncedIs DEF Sound
    <3> QED
      BY <2>1, <2>2, <2>5, <3>1 DEF Sound
  <2> QED
    BY <2>2, <2>4, <2>5
<1> QED
  BY <1>1, Invariance, PTL DEF Spec, RollbackUndoes

=============================================================================
