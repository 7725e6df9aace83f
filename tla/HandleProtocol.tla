--------------------------- MODULE HandleProtocol ---------------------------
(***************************************************************************)
(* What the client library demands of whoever owns a MYSQL handle: it is   *)
(* connected first; one user at a time is in the library with it; nothing  *)
(* but the freeing of result sets works on it once it is closed; every     *)
(* result set that was obtained is freed, once, before the memory of the   *)
(* handle goes away.  ConnectionLock implements it for any number of       *)
(* threads.                                                                *)
(*                                                                         *)
(* Peek is not a thing that the library offers: it is there because        *)
(* _mysql.c asks a closed handle for the text of its last error.           *)
(***************************************************************************)
CONSTANTS Users, Sets, Nobody

VARIABLES
  stage,       \* the handle: "none", "up" or "closed"
  user,        \* who is in the client library with the handle, or Nobody
  doing,       \* "nothing", "connect", "use", "peek", "free" or "destroy"
  outstanding  \* the result sets obtained and not yet freed

protocol == <<stage, user, doing, outstanding>>

Init ==
  /\ stage = "none"
  /\ user = Nobody
  /\ doing = "nothing"
  /\ outstanding = {}

Enter(u, what) ==
  /\ user = Nobody
  /\ user' = u
  /\ doing' = what

Leave(u, what) ==
  /\ user = u
  /\ doing = what
  /\ user' = Nobody
  /\ doing' = "nothing"

(* mysql_init and mysql_real_connect, which may fail. *)
Connect(u) ==
  /\ stage = "none"
  /\ Enter(u, "connect")
  /\ stage' = "up"
  /\ UNCHANGED outstanding

Connected(u) ==
  /\ Leave(u, "connect")
  /\ UNCHANGED <<stage, outstanding>>

ConnectFailed(u) ==
  /\ user = u
  /\ doing = "connect"
  /\ doing' = "destroy"
  /\ UNCHANGED <<stage, user, outstanding>>

(* Any use of the handle needs it open; it may obtain a result set. *)
Use(u) ==
  /\ stage = "up"
  /\ Enter(u, "use")
  /\ UNCHANGED <<stage, outstanding>>

Used(u) ==
  /\ Leave(u, "use")
  /\ \/ UNCHANGED outstanding
     \/ \E s \in Sets \ outstanding : outstanding' = outstanding \cup {s}
  /\ UNCHANGED stage

Closed(u) ==
  /\ stage = "up"
  /\ Leave(u, "use")
  /\ stage' = "closed"
  /\ UNCHANGED outstanding

(* mysql_error of a handle that was closed; it still has it to itself. *)
Peek(u) ==
  /\ stage = "closed"
  /\ Enter(u, "peek")
  /\ UNCHANGED <<stage, outstanding>>

Peeked(u) ==
  /\ Leave(u, "peek")
  /\ UNCHANGED <<stage, outstanding>>

(* A result set may be freed after the handle was closed; freeing NULL is  *)
(* allowed.                                                                *)
Free(u) ==
  /\ stage # "none"
  /\ Enter(u, "free")
  /\ UNCHANGED <<stage, outstanding>>

Freed(u) ==
  /\ Leave(u, "free")
  /\ \/ UNCHANGED outstanding
     \/ \E s \in outstanding : outstanding' = outstanding \ {s}
  /\ UNCHANGED stage

(* The memory of the handle goes away. *)
Destroy(u) ==
  /\ stage # "none"
  /\ outstanding = {}
  /\ Enter(u, "destroy")
  /\ UNCHANGED <<stage, outstanding>>

Destroyed(u) ==
  /\ outstanding = {}
  /\ Leave(u, "destroy")
  /\ stage' = "none"
  /\ UNCHANGED outstanding

Next == \E u \in Users :
  \/ Connect(u) \/ Connected(u) \/ ConnectFailed(u)
  \/ Use(u) \/ Used(u) \/ Closed(u)
  \/ Peek(u) \/ Peeked(u)
  \/ Free(u) \/ Freed(u) \/ Destroy(u) \/ Destroyed(u)

Spec == Init /\ [][Next]_protocol
=============================================================================
