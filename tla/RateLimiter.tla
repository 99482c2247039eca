---------------------------- MODULE RateLimiter ----------------------------
(***************************************************************************)
(* The sliding-window limiter of the signup handlers (security.RateLimiter)*)
(* on the bucket of one key: the entries of the requests admitted lately,  *)
(* each with the time it came at.  Allow counts entries and compares their *)
(* times, so the order of the slice, in which requests took the mutex, is  *)
(* left out; a caller tells entries of the same time apart.                *)
(***************************************************************************)
EXTENDS Integers, FiniteSets

CONSTANTS Limit, Window

ASSUME LimiterAssumption == Limit \in Nat \ {0} /\ Window \in Nat \ {0}

(* Mutant: one request too many is admitted. *)
HasRoomForOneMore(bucket) == Cardinality(bucket) <= Limit

HasRoom(bucket) == Cardinality(bucket) < Limit

(* Allow, for a request whose entry is e: entries that are not after the    *)
(* cutoff are dropped, whether or not it is then admitted.                  *)
Kept(bucket, t) == {e \in bucket : e.at > t - Window}
Admits(bucket, t) == HasRoom(Kept(bucket, t))
Allow(bucket, e) == Kept(bucket, e.at) \cup IF Admits(bucket, e.at) THEN {e} ELSE {}
=============================================================================
