---------------------------- MODULE SessionStore ----------------------------
(***************************************************************************)
(* What sessions promise, as if the server kept a list of them: a session  *)
(* is opened once, logging out closes every session of the scope and of no *)
(* other, time closes sessions, and a closed session never opens again.    *)
(***************************************************************************)
CONSTANTS Session, Scope

VARIABLES live, ended

Init == live = {} /\ ended = {}

Open(t) ==
  /\ t \notin ended
  /\ live' = live \cup {t}
  /\ UNCHANGED ended

(* A session may be over before it starts: its scope logged out meanwhile. *)
OpenTooLate(t) ==
  /\ t \notin live
  /\ ended' = ended \cup {t}
  /\ UNCHANGED live

End(T) ==
  /\ live' = live \ T
  /\ ended' = ended \cup T

LogOut(s) == End({t \in live : t.scope = s})

Expire == \E T \in SUBSET live : T # {} /\ End(T)

Next ==
  \/ \E t \in Session : Open(t) \/ OpenTooLate(t)
  \/ \E s \in Scope : LogOut(s)
  \/ Expire

Spec == Init /\ [][Next]_<<live, ended>>
=============================================================================
