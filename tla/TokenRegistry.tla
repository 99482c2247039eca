--------------------------- MODULE TokenRegistry ---------------------------
(***************************************************************************)
(* What API tokens promise: a token is issued once, a revoked or expired   *)
(* one never works again, and who asks whether a token works is told yes   *)
(* only of one that worked when it was asked about.                        *)
(***************************************************************************)
CONSTANTS Token, Asker, None

VARIABLES live, over, asked, seenUsed

vars == <<live, over, asked, seenUsed>>

Init ==
  /\ live = {} /\ over = {} /\ seenUsed = {}
  /\ asked = [a \in Asker |-> None]

(* A token may be issued with its expiry in the past. *)
Issue(t) ==
  /\ t \notin live \cup over
  /\ \/ live' = live \cup {t} /\ UNCHANGED over
     \/ over' = over \cup {t} /\ UNCHANGED live
  /\ UNCHANGED <<asked, seenUsed>>

Revoke(t) ==
  /\ t \in live
  /\ live' = live \ {t} /\ over' = over \cup {t}
  /\ UNCHANGED <<asked, seenUsed>>

(* Who asked about a token that expires may still be told no. *)
Expire(T, A) ==
  /\ live' = live \ T /\ over' = over \cup T
  /\ asked' = [a \in Asker |-> IF a \in A /\ asked[a] \in T \cup over THEN None ELSE asked[a]]
  /\ UNCHANGED seenUsed

Ask(a, t) ==
  /\ t \in live
  /\ asked' = [asked EXCEPT ![a] = t]
  /\ UNCHANGED <<live, over, seenUsed>>

(* The answer is given; "last used" may show it. *)
Answer(a) ==
  /\ seenUsed' \in {seenUsed, seenUsed \cup ({asked[a]} \ {None})}
  /\ asked' = [asked EXCEPT ![a] = None]
  /\ UNCHANGED <<live, over>>

Next ==
  \/ \E t \in Token : Issue(t) \/ Revoke(t) \/ \E a \in Asker : Ask(a, t)
  \/ \E T \in SUBSET live, A \in SUBSET Asker : Expire(T, A)
  \/ \E a \in Asker : Answer(a)

Spec == Init /\ [][Next]_vars
=============================================================================
