------------------------------ MODULE Session ------------------------------
(***************************************************************************)
(* The settings of a connection: what connections.Connection keeps of      *)
(* them, what the client library keeps, and what the session on the server *)
(* is in, while the program sets them, changes the user, pings, and runs   *)
(* its transactions, and the server goes away.                             *)
(*                                                                         *)
(* The program is one thread.  A method is a plan of calls into _mysql.c,  *)
(* and an exception drops the rest of it.                                  *)
(***************************************************************************)
EXTENDS Naturals, Sequences

CONSTANTS
  Names,          \* the names of character sets that the program gives
  DefaultCharset, \* that of a connection that gives none
  MaxStatements,  \* bound on the rows inserted
  MaxSessions,    \* bound on the sessions opened
  None

ASSUME SessionAssumption ==
  /\ MaxStatements \in Nat
  /\ MaxSessions \in Nat \ {0}
  /\ None \notin Names /\ None \notin BOOLEAN

VARIABLES
  srv,  \* the session on the server, and the rows that are committed
  my,   \* the client library's MYSQL
  py,   \* the attributes of the Connection object
  run,  \* the method that runs, or the outcome of the last one
  hist  \* history: what the program asked for, and was told

vars == <<srv, my, py, run, hist>>

-----------------------------------------------------------------------------
(* The library knows a character set by other spellings of its name.       *)
Spellings == [LATIN1 |-> "latin1", UTF8MB4 |-> "utf8mb4"]
CharsetOf(name) == IF name \in DOMAIN Spellings THEN Spellings[name] ELSE name

ASSUME CharsetAssumption ==
  /\ CharsetOf(DefaultCharset) = DefaultCharset
  /\ None # DefaultCharset /\ \A name \in Names : CharsetOf(name) # None

(* _charset_to_encoding.get(charset, charset) *)
PyCodecs ==
  [utf8mb4 |-> "utf8", utf8mb3 |-> "utf8", latin1 |-> "cp1252",
   koi8r |-> "koi8_r", koi8u |-> "koi8_u"]
PyCodec(name) == IF name \in DOMAIN PyCodecs THEN PyCodecs[name] ELSE name

(* _get_encoding: the codec that results are decoded with. *)
CCodec(charset) ==
  CASE charset \in {"utf8", "utf8mb3", "utf8mb4"} -> "utf8"
    [] charset = "latin1" -> "cp1252"
    [] charset = "koi8r"  -> "koi8_r"
    [] charset = "koi8u"  -> "koi8_u"
    [] OTHER -> charset

-----------------------------------------------------------------------------
(* What the server makes of a command.  done outlives the session. *)
CommitWork(s) == [s EXCEPT !.done = @ \cup s.pending, !.pending = {}, !.trans = FALSE]
UndoWork(s) == [s EXCEPT !.pending = {}, !.trans = FALSE]

NewSession(s, charset) ==
  [UndoWork(s) EXCEPT !.id = @ + 1, !.up = TRUE, !.charset = charset,
                      !.autocommit = s.default]

Gone(s) == [UndoWork(s) EXCEPT !.up = FALSE]

Serve(s, op, arg) ==
  CASE op = "names"      -> [s EXCEPT !.charset = CharsetOf(arg)]
    [] op = "autocommit" ->
         [(IF arg /\ ~s.autocommit THEN CommitWork(s) ELSE s) EXCEPT !.autocommit = arg]
    [] op = "begin"      -> [CommitWork(s) EXCEPT !.trans = TRUE]
    [] op = "commit"     -> CommitWork(s)
    [] op = "rollback"   -> UndoWork(s)
    [] op = "insert"     ->
         IF s.autocommit /\ ~s.trans
           THEN [s EXCEPT !.done = @ \cup {arg}]
           ELSE [s EXCEPT !.pending = @ \cup {arg}, !.trans = TRUE]
    [] op = "change_user" ->
         [UndoWork(s) EXCEPT !.charset = arg, !.autocommit = s.default]
    [] OTHER -> s

(* A command comes back as [srv, my, exc].  Every answer brings the status *)
(* of the session: the library keeps a copy of it.                         *)
Answered(s, m, op, arg) ==
  LET t == Serve(s, op, arg)
  IN [srv |-> t,
      my  |-> [m EXCEPT !.link = "up", !.autocommit = t.autocommit, !.trans = t.trans],
      exc |-> "none"]

(* The server refuses: a character set, a statement, or a user, and then   *)
(* it closes the session.                                                  *)
Refused(s, m, op) ==
  [srv |-> IF op = "change_user" THEN Gone(s) ELSE s,
   my  |-> [m EXCEPT !.link = "up", !.autocommit = s.autocommit, !.trans = s.trans],
   exc |-> "server"]

Served(s, m, op, arg) ==
  {Answered(s, m, op, arg)} \cup
  (IF op \in {"names", "insert", "change_user"} THEN {Refused(s, m, op)} ELSE {})

(* The library connects again when it may, but never in a transaction: it  *)
(* fails once instead, so that the program gets to know.                   *)
MayReconnect(m) == m.reconnect /\ ~m.trans /\ srv.id < MaxSessions

(* The command is answered, or its answer lost; when the session was gone  *)
(* already the library notices that it cannot write, or cannot read.       *)
Send(m, op, arg) ==
  LET Lost(trans) == [srv |-> srv, exc |-> "lost",
                      my  |-> [m EXCEPT !.link = "closed", !.trans = trans]]
  IN IF srv.up /\ m.link = "up"
       THEN Served(srv, m, op, arg) \cup
            {[Lost(m.trans) EXCEPT !.srv = Gone(Serve(srv, op, arg))]}
       ELSE {Lost(FALSE)} \cup
            (IF m.link = "up" THEN {Lost(m.trans)} ELSE {}) \cup
            (IF MayReconnect(m) THEN Served(NewSession(srv, m.charset), m, op, arg)
                                ELSE {})

-----------------------------------------------------------------------------
(* default: the autocommit mode of a new session. *)
NoSession(default) ==
  [id |-> 0, up |-> FALSE, charset |-> DefaultCharset, default |-> default,
   autocommit |-> default, trans |-> FALSE, pending |-> {}, done |-> {}]

(* option: the character set that mysql_real_connect and mysql_change_user *)
(* start with.  autocommit and trans: the copy of the session's status.    *)
Unconnected ==
  [link |-> "closed", option |-> DefaultCharset, charset |-> DefaultCharset,
   autocommit |-> FALSE, trans |-> FALSE, reconnect |-> FALSE]

NewConnection == [built |-> FALSE, encoding |-> "ascii", reconnect |-> FALSE]

NoRun == [method |-> "none", plan |-> << >>, charset |-> None, on |-> None, exc |-> "none"]

(* ran: the rows inserted in the transaction, as far as the program knows. *)
(* autocommit was asked for in the session settled; given: sessions start  *)
(* with that character set, the constructor's; changed: the user was, after *)
(* charset was asked for; reconnect: the last ping() that had an argument  *)
(* asked for that.                                                         *)
NoHistory ==
  [rows |-> 0, ran |-> {}, begun |-> FALSE, autocommit |-> None, settled |-> 0,
   given |-> None, charset |-> None, changed |-> FALSE, reconnect |-> FALSE]

Init ==
  /\ \E default \in BOOLEAN : srv = NoSession(default)
  /\ my = Unconnected
  /\ py = NewConnection
  /\ run = NoRun
  /\ hist = NoHistory

Idle == run.plan = << >>
Active(step) == ~Idle /\ Head(run.plan) = step

Begin(method, plan, charset, on) ==
  /\ Idle
  /\ py.built
  /\ run' = [method |-> method, plan |-> plan, charset |-> charset, on |-> on,
             exc |-> "none"]
  /\ UNCHANGED <<srv, my, py, hist>>

(* An exception ends the method; one that says the connection is lost      *)
(* tells the program that its transaction is.                              *)
Told(h, exc) == IF exc = "lost" THEN [h EXCEPT !.ran = {}, !.begun = FALSE] ELSE h
Returned(exc) ==
  run' = [run EXCEPT !.exc = exc, !.plan = IF exc = "none" THEN Tail(@) ELSE << >>]

-----------------------------------------------------------------------------
CharsetPlan(collation) ==
  IF collation THEN <<"charset", "collate">> ELSE <<"charset">>

ConstructPlan(collation, on) ==
  CASE ~collation /\ on = None -> <<"connect", "charset", "built">>
    [] ~collation /\ on # None -> <<"connect", "charset", "get", "built">>
    [] collation /\ on = None  -> <<"connect", "charset", "collate", "built">>
    [] collation /\ on # None  -> <<"connect", "charset", "collate", "get", "built">>

(* Connection.__init__ over a server with transactions: charset is None    *)
(* when not given, and autocommit when the program wants the server's.     *)
Construct(charset, collation, on) ==
  /\ Idle
  /\ ~py.built
  /\ srv.id < MaxSessions
  /\ run' = [NoRun EXCEPT !.method = "construct", !.charset = charset, !.on = on,
                          !.plan = ConstructPlan(collation, on)]
  /\ UNCHANGED <<srv, my, py, hist>>

FirstCharset == IF run.charset = None THEN DefaultCharset ELSE CharsetOf(run.charset)

(* mysql_options and mysql_real_connect, which may fail *)
ConnectWith(option) ==
  /\ Active("connect")
  /\ py' = NewConnection
  /\ \/ LET start == NewSession(srv, option)
        IN /\ srv' = start
           /\ my' = [Unconnected EXCEPT !.link = "up", !.autocommit = start.autocommit,
                                        !.option = option, !.charset = option]
           /\ hist' = [NoHistory EXCEPT !.rows = hist.rows, !.given = FirstCharset]
           /\ Returned("none")
     \/ /\ srv' = Gone(srv)
        /\ my' = Unconnected
        /\ hist' = [NoHistory EXCEPT !.rows = hist.rows]
        /\ Returned("lost")

(* Mutant: the library is not told of the character set. *)
ConnectDefault == ConnectWith(DefaultCharset)

Connect == ConnectWith(FirstCharset)

Built ==
  /\ Active("built")
  /\ py' = [py EXCEPT !.built = TRUE]
  /\ Returned("none")
  /\ UNCHANGED <<srv, my, hist>>

(* set_character_set(charset, collation) *)
SetCharacterSet(charset, collation) ==
  Begin("set_character_set", CharsetPlan(collation), charset, None)

(* __init__ takes character_set_name() when it was not given one. *)
GivenCharset == IF run.charset = None THEN my.charset ELSE run.charset

(* super().set_character_set(charset), then self.encoding.  The library    *)
(* changes its own character set when the server has.                      *)
ChangeCharsetOnServer(codec) ==
  \E r \in Send(my, "names", GivenCharset) :
    /\ srv' = r.srv
    /\ Returned(r.exc)
    /\ IF r.exc = "none"
         THEN /\ my' = [r.my EXCEPT !.charset = CharsetOf(GivenCharset)]
              /\ py' = [py EXCEPT !.encoding = codec]
              /\ hist' = [hist EXCEPT !.charset = GivenCharset, !.changed = FALSE]
         ELSE /\ my' = r.my
              /\ hist' = Told(hist, r.exc)
              /\ UNCHANGED py

(* MySQL's library, without a link, asks nobody: it takes the name for     *)
(* itself and for the sessions to come.  MariaDB's always asks.            *)
ChangeCharsetAtHome(codec) ==
  /\ my.link = "closed"
  /\ my' = [my EXCEPT !.charset = CharsetOf(GivenCharset), !.option = CharsetOf(GivenCharset)]
  /\ py' = [py EXCEPT !.encoding = codec]
  /\ hist' = [hist EXCEPT !.charset = GivenCharset, !.changed = FALSE,
                          !.given = CharsetOf(GivenCharset)]
  /\ Returned("none")
  /\ UNCHANGED srv

ChangeCharsetTo(codec) ==
  /\ Active("charset")
  /\ ChangeCharsetOnServer(codec) \/ ChangeCharsetAtHome(codec)

(* Mutant: the character set's name is taken for the name of its codec. *)
ChangeCharsetAsIs == ChangeCharsetTo(GivenCharset)

ChangeCharset == ChangeCharsetTo(PyCodec(GivenCharset))

(* SET NAMES charset COLLATE collation, as a query *)
Collate ==
  /\ Active("collate")
  /\ \E r \in Send(my, "names", GivenCharset) :
       srv' = r.srv /\ my' = r.my /\ hist' = Told(hist, r.exc) /\ Returned(r.exc)
  /\ UNCHANGED py

-----------------------------------------------------------------------------
(* autocommit(on): get_autocommit() looks at the copy of the status, and   *)
(* the server is only asked when that differs.                             *)
Autocommit(on) == Begin("autocommit", <<"get">>, None, on)

EndOfTransaction(h) == [h EXCEPT !.ran = {}, !.begun = FALSE]

(* Switched from off to on it commits the transaction; when it is on, to   *)
(* ask for it again ends nothing, not even what begin() opened; switched   *)
(* off outside of one it leaves the rows that are committed already.       *)
SwitchedOff(h) ==
  IF ~h.begun /\ (my.autocommit \/ h.autocommit = TRUE) THEN EndOfTransaction(h) ELSE h
SwitchedOn(h) == IF my.autocommit THEN h ELSE EndOfTransaction(h)
Switched(h) == IF run.on THEN SwitchedOn(h) ELSE SwitchedOff(h)

Settled(h, id) == [h EXCEPT !.autocommit = run.on, !.settled = id]

(* Mutant: autocommit is switched on only. *)
GetAutocommitOn ==
  /\ Active("get")
  /\ IF my.autocommit \/ ~run.on
       THEN /\ Returned("none")
            /\ hist' = Settled(Switched(hist), srv.id)
       ELSE /\ run' = [run EXCEPT !.plan[1] = "set"]
            /\ UNCHANGED hist
  /\ UNCHANGED <<srv, my, py>>

GetAutocommit ==
  /\ Active("get")
  /\ IF my.autocommit = run.on
       THEN /\ Returned("none")
            /\ hist' = Settled(Switched(hist), srv.id)
       ELSE /\ run' = [run EXCEPT !.plan[1] = "set"]
            /\ UNCHANGED hist
  /\ UNCHANGED <<srv, my, py>>

SetAutocommit ==
  /\ Active("set")
  /\ \E r \in Send(my, "autocommit", run.on) :
       /\ srv' = r.srv /\ my' = r.my /\ Returned(r.exc)
       /\ hist' = IF r.exc = "none"
                    THEN Settled(Switched(hist), r.srv.id)
                    ELSE Told(hist, r.exc)
  /\ UNCHANGED py

(* execute("SET autocommit = ..."), which the Connection does not see.     *)
ExecuteSetAutocommit(on) == Begin("execute", <<"set">>, None, on)

-----------------------------------------------------------------------------
(* One command and no more: the methods of _mysql.c, begin() and execute() *)
(* of an INSERT.                                                           *)
Insert ==
  /\ hist.rows < MaxStatements
  /\ Begin("execute", <<"insert">>, None, None)

Method(method) ==
  /\ method \in {"begin", "commit", "rollback", "change_user"}
  /\ Begin(method, <<method>>, None, None)

Ping(reconnect) == Begin("ping", <<"ping">>, None, reconnect)

(* Mutant: an error of the statement is not looked at. *)
InsertRowUnchecked ==
  /\ Active("insert")
  /\ LET row == hist.rows + 1
     IN \E r \in Send(my, "insert", row) :
          /\ srv' = r.srv /\ my' = r.my /\ Returned("none")
          /\ hist' = [hist EXCEPT !.ran = @ \cup {row}, !.rows = row]
  /\ UNCHANGED py

(* A statement whose answer is lost may be done. *)
InsertRow ==
  /\ Active("insert")
  /\ LET row == hist.rows + 1
     IN \E r \in Send(my, "insert", row) :
          /\ srv' = r.srv /\ my' = r.my /\ Returned(r.exc)
          /\ hist' = [(IF r.exc = "none" THEN [hist EXCEPT !.ran = @ \cup {row}]
                                         ELSE Told(hist, r.exc)) EXCEPT !.rows = row]
  /\ UNCHANGED py

BeginTransaction ==
  /\ Active("begin")
  /\ \E r \in Send(my, "begin", None) :
       /\ srv' = r.srv /\ my' = r.my /\ Returned(r.exc)
       /\ hist' = IF r.exc = "none" THEN [hist EXCEPT !.ran = {}, !.begun = TRUE]
                                    ELSE Told(hist, r.exc)
  /\ UNCHANGED py

(* Mutant: an error of commit and rollback is not looked at. *)
EndTransactionUnchecked ==
  \E method \in {"commit", "rollback"} :
    /\ Active(method)
    /\ \E r \in Send(my, method, None) :
         /\ srv' = r.srv /\ my' = r.my /\ Returned("none")
         /\ hist' = EndOfTransaction(hist)
    /\ UNCHANGED py

EndTransaction ==
  \E method \in {"commit", "rollback"} :
    /\ Active(method)
    /\ \E r \in Send(my, method, None) :
         /\ srv' = r.srv /\ my' = r.my /\ Returned(r.exc)
         /\ hist' = IF r.exc = "none" THEN EndOfTransaction(hist) ELSE Told(hist, r.exc)
    /\ UNCHANGED py

(* mysql_change_user goes back to the character set of the options. *)
ChangeUser ==
  /\ Active("change_user")
  /\ \E r \in Send(my, "change_user", my.option) :
       /\ srv' = r.srv /\ Returned(r.exc)
       /\ my' = IF r.exc = "none" THEN [r.my EXCEPT !.charset = my.option] ELSE r.my
       /\ hist' = IF r.exc = "none"
                    THEN [EndOfTransaction(hist) EXCEPT !.changed = TRUE, !.autocommit = None]
                    ELSE Told(hist, r.exc)
  /\ UNCHANGED py

(* ping(reconnect): without the argument it switches reconnecting off.     *)
(* The option is only set when it differs from what the object remembers.  *)
PingWith(remembered) ==
  /\ Active("ping")
  /\ LET asked == run.on = TRUE
         m == IF asked # py.reconnect THEN [my EXCEPT !.reconnect = asked] ELSE my
     IN /\ py' = [py EXCEPT !.reconnect = remembered]
        /\ \E r \in Send(m, "ping", None) :
             /\ srv' = r.srv /\ my' = r.my /\ Returned(r.exc)
             /\ hist' = [Told(hist, r.exc) EXCEPT !.reconnect = IF run.on = None THEN @ ELSE run.on]

(* Mutant: self->reconnect is never set. *)
PingServerForgets == PingWith(py.reconnect)

PingServer == PingWith(run.on = TRUE)

-----------------------------------------------------------------------------
(* The session ends on the server: a timeout, a kill, a crash. *)
Disconnect ==
  /\ srv.up
  /\ srv' = Gone(srv)
  /\ UNCHANGED <<my, py, run, hist>>

Start ==
  \/ \E charset \in Names \cup {None}, collation \in BOOLEAN, on \in {None, TRUE, FALSE} :
       Construct(charset, collation, on)
  \/ \E charset \in Names, collation \in BOOLEAN : SetCharacterSet(charset, collation)
  \/ \E on \in BOOLEAN : Autocommit(on) \/ ExecuteSetAutocommit(on)
  \/ Insert
  \/ \E method \in {"begin", "commit", "rollback", "change_user"} : Method(method)
  \/ \E reconnect \in {None, TRUE, FALSE} : Ping(reconnect)

Step ==
  \/ Connect \/ ChangeCharset \/ Collate \/ Built
  \/ GetAutocommit \/ SetAutocommit
  \/ InsertRow \/ BeginTransaction \/ EndTransaction \/ ChangeUser \/ PingServer

Next == Disconnect \/ Start \/ Step

Spec == Init /\ [][Next]_vars

-----------------------------------------------------------------------------
SessionIds == 0..MaxSessions
RowIds == 1..MaxStatements
Charsets == {CharsetOf(name) : name \in Names} \cup {DefaultCharset}
Codecs == {PyCodec(name) : name \in Names \cup Charsets} \cup {"ascii"}
Steps == {"connect", "charset", "collate", "get", "set", "built",
          "insert", "begin", "commit", "rollback", "change_user", "ping"}

Methods ==
  {"none", "construct", "set_character_set", "autocommit", "execute", "begin", "commit",
   "rollback", "change_user", "ping"}

Servers ==
  [id : SessionIds, up : BOOLEAN, charset : Charsets, default : BOOLEAN,
   autocommit : BOOLEAN, trans : BOOLEAN, pending : SUBSET RowIds, done : SUBSET RowIds]

Clients ==
  [link : {"up", "closed"}, option : Charsets, charset : Charsets,
   autocommit : BOOLEAN, trans : BOOLEAN, reconnect : BOOLEAN]

Runs ==
  [method : Methods, plan : Seq(Steps), charset : Names \cup {None},
   on : BOOLEAN \cup {None}, exc : {"none", "server", "lost"}]

Histories ==
  [rows : 0..MaxStatements, ran : SUBSET RowIds, begun : BOOLEAN,
   autocommit : BOOLEAN \cup {None}, settled : SessionIds,
   given : Charsets \cup {None}, charset : Names \cup Charsets \cup {None},
   changed : BOOLEAN, reconnect : BOOLEAN]

TypeOK ==
  /\ srv \in Servers
  /\ my \in Clients
  /\ py \in [built : BOOLEAN, encoding : Codecs, reconnect : BOOLEAN]
  /\ run \in Runs
  /\ hist \in Histories

(* Between methods the server is in the autocommit mode that the program   *)
(* asked for, in the constructor, with autocommit() or in SQL, as long as  *)
(* it is in the session where it was: autocommit() never leaves the server *)
(* alone because of a copy of its status that is out of date.              *)
AutocommitAsAsked ==
  Idle /\ py.built /\ srv.up /\ hist.autocommit # None /\ srv.id = hist.settled
  => srv.autocommit = hist.autocommit

(* Arguments are encoded as the server expects them, and results decoded   *)
(* as they were sent, by the same codec: after errors and reconnections,   *)
(* and after change_user() when the character set is the one that sessions *)
(* start with; when the program spells its name as the server does.        *)
EncodingFollows ==
  Idle /\ py.built =>
    /\ srv.up /\ my.link = "up" => srv.charset = my.charset
    /\ /\ CharsetOf(hist.charset) = hist.charset
       /\ hist.changed => hist.charset = hist.given
       => py.encoding = CCodec(my.charset)

(* What the constructor says of arguments, without the exceptions. *)
EncodingAlwaysFollows == Idle /\ py.built => py.encoding = CCodec(my.charset)

(* The program finds itself in another session only if a ping() asked for  *)
(* reconnecting, and no later one asked for the contrary: a session's      *)
(* settings are not lost unasked.                                          *)
ReconnectsOnlyAsked ==
  [][py.built /\ srv'.id # srv.id => hist'.reconnect]_vars

(* A row that was inserted without an error is in the open transaction or  *)
(* committed, until the program is told otherwise.                         *)
NoRowVanishes ==
  srv.up /\ my.link = "up" => hist.ran \subseteq srv.pending \cup srv.done

Returns(method) == run.method = method /\ ~Idle /\ Idle' /\ run'.exc = "none"

(* commit() that returns has committed every row of the transaction, and   *)
(* never the later part of one that a reconnection cut in two.             *)
CommitKeepsAll == [][Returns("commit") => hist.ran \subseteq srv'.done]_vars

(* rollback() that returns has undone every row of the transaction: one    *)
(* that begin() opened, or autocommit asked off in this session.           *)
RollbackUndoes ==
  [][/\ Returns("rollback")
     /\ hist.begun \/ (hist.autocommit = FALSE /\ hist.settled = srv'.id)
     => hist.ran \cap srv'.done = {}]_vars
-----------------------------------------------------------------------------
(* The inductive invariant behind the properties above. *)

(* The plans of a method, as far as it has come. *)
Plans(method) ==
  {<< >>} \cup
  CASE method = "none"       -> {}
    [] method = "execute"    -> {<<"set">>, <<"insert">>}
    [] method = "autocommit" -> {<<"get">>, <<"set">>}
    [] method = "set_character_set" ->
         {<<"charset">>, <<"charset", "collate">>, <<"collate">>}
    [] method = "construct"  ->
         {<<"connect", "charset", "built">>, <<"connect", "charset", "get", "built">>,
          <<"connect", "charset", "collate", "built">>,
          <<"connect", "charset", "collate", "get", "built">>,
          <<"charset", "built">>, <<"charset", "get", "built">>,
          <<"charset", "collate", "built">>, <<"charset", "collate", "get", "built">>,
          <<"collate", "built">>, <<"collate", "get", "built">>,
          <<"get", "built">>, <<"set", "built">>, <<"built">>}
    [] OTHER -> {<<method>>}

PlanInv ==
  /\ run.plan \in Plans(run.method)
  /\ ~Idle => (py.built <=> run.method # "construct")
  /\ Active("connect") => srv.id < MaxSessions
  /\ run.on = None => \A i \in DOMAIN run.plan : run.plan[i] \notin {"get", "set"}
  /\ run.method = "set_character_set" => run.charset \in Names
  /\ Active("insert") => hist.rows < MaxStatements
  /\ Active("collate") => my.charset = CharsetOf(GivenCharset)

(* The library reconnects as the object remembers, and only as some ping() *)
(* asked.                                                                  *)
ReconnectInv == my.reconnect = py.reconnect /\ (py.reconnect => hist.reconnect)

(* The library's copy of the status is up to date as long as the session   *)
(* is there.                                                               *)
StatusInv ==
  /\ srv.up => /\ my.link = "up"
               /\ my.autocommit = srv.autocommit
               /\ my.trans = srv.trans
  /\ srv.pending # {} => srv.up /\ srv.trans

(* Rows are numbered as they are inserted. *)
RowsInv ==
  /\ srv.pending \cup srv.done \cup hist.ran \subseteq 1..hist.rows
  /\ srv.pending \cap srv.done = {}

(* A session that ends takes no row with it unless the library knows that  *)
(* there was a transaction, and will tell.                                 *)
KeepInv ==
  /\ IF srv.up THEN hist.ran \subseteq srv.pending \cup srv.done
               ELSE my.trans \/ hist.ran \subseteq srv.done
  /\ hist.begun => my.trans

(* What the program asked for, and what the session does. *)
SettledInv ==
  /\ hist.settled <= srv.id
  /\ srv.up /\ hist.autocommit # None /\ hist.settled = srv.id =>
       srv.autocommit = hist.autocommit
  /\ srv.up /\ srv.autocommit /\ ~srv.default => hist.autocommit = TRUE

(* Where no row of the transaction can be committed before it ends. *)
UndoInv ==
  hist.begun \/ (hist.autocommit # TRUE /\ (~srv.default \/ ~my.autocommit))
  => hist.ran \cap srv.done = {}

(* The character sets of the library and the server, and the codec. *)
EncodingInv ==
  /\ srv.up => srv.charset = my.charset
  /\ hist.given # None => my.option = hist.given
  /\ hist.charset # None =>
       /\ hist.given # None
       /\ my.charset = IF hist.changed THEN my.option ELSE CharsetOf(hist.charset)
       /\ py.encoding = PyCodec(hist.charset)
  /\ Active("charset") => hist.given # None
  /\ py.built \/ Active("built") \/ Active("get") \/ Active("set") \/ Active("collate") =>
       hist.charset # None

Inv ==
  /\ TypeOK /\ PlanInv /\ ReconnectInv
  /\ StatusInv /\ RowsInv /\ KeepInv /\ SettledInv /\ UndoInv
  /\ EncodingInv
=============================================================================
