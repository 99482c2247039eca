---------------------------- MODULE LoginLockout ----------------------------
(***************************************************************************)
(* The password login (AuthService.Login over the Postgres lockout         *)
(* repository): two counts of failed attempts limit the rate, a lock row   *)
(* per user stops the account.  Every statement is a step; an attempt is   *)
(* recorded after the counts it is limited by, and the lock row counts the *)
(* logins that presented the right password.                               *)
(***************************************************************************)
EXTENDS Naturals, FiniteSets, Sequences

CONSTANTS
  User,
  Stranger,       \* the addresses no user has
  IP,
  NoId, NoIP,
  Worker,         \* goroutines serving logins
  IPLimit,        \* failed attempts per address in IPWindow (10 in a minute)
  IPWindow,
  AccountLimit,   \* failed attempts per account in AccountWindow (5 in 15 minutes)
  AccountWindow,
  Threshold,      \* the count that locks an account (20)
  LockDuration,   \* and for how long (one hour)
  MaxFailures,    \* bound on the statements that fail
  MaxTime         \* bound on the clock

Identifier == User \cup Stranger

ASSUME LockoutAssumption ==
  /\ IsFiniteSet(Worker) /\ Worker # {}
  /\ Stranger \cap User = {}
  /\ NoId \notin Identifier /\ NoIP \notin IP
  /\ IPLimit \in Nat \ {0} /\ IPWindow \in Nat
  /\ AccountLimit \in Nat \ {0} /\ AccountWindow \in Nat
  /\ Threshold \in Nat \ {0} /\ LockDuration \in Nat \ {0}
  /\ MaxFailures \in Nat /\ MaxTime \in Nat

VARIABLES
  now,       \* the clock
  verified,  \* the users with a verified_at
  attempts,  \* the failed rows of login_attempts, the oldest first
  lockouts,  \* account_lockouts: the count and the end of the lock (0 for NULL)
  req,       \* what each worker is doing
  late,      \* history: the sessions a user got under its last lock, no statement having failed
  failures   \* the statements that failed so far

vars == <<now, verified, attempts, lockouts, req, late, failures>>

Attempt == [identifier : Identifier, ip : IP, at : Nat,
            blind : BOOLEAN]  \* history: a count of its login failed

Request ==
  [pc    : {"idle", "countIP", "countAccount", "getUser", "isLocked", "increment",
            "fail", "succeed"},
   id    : Identifier \cup {NoId},
   ip    : IP \cup {NoIP},
   since : Nat,        \* the clock when the last count began
   right : BOOLEAN,    \* does the password match?
   known : BOOLEAN,    \* was the user it read verified?
   under : Nat,        \* history: the end of the account's lock when it began
   blind : BOOLEAN]    \* history: one of its statements failed

Idle == [pc |-> "idle", id |-> NoId, ip |-> NoIP, since |-> 0, right |-> FALSE,
         known |-> FALSE, under |-> 0, blind |-> FALSE]

Init ==
  /\ now = 0
  /\ verified = {}
  /\ attempts = <<>>
  /\ lockouts = [u \in User |-> [count |-> 0, until |-> 0]]
  /\ req = [w \in Worker |-> Idle]
  /\ late = [u \in User |-> 0]
  /\ failures = 0

GoOn(w, pc) == req' = [req EXCEPT ![w].pc = pc]
Done(w)     == req' = [req EXCEPT ![w] = Idle]

(* GetIPFailedAttemptCount and GetFailedAttemptCount, the window reaching *)
(* back from the time t.                                                  *)
FailedFrom(a, t)  == Cardinality({k \in DOMAIN attempts : attempts[k].ip = a /\ attempts[k].at + IPWindow >= t})
FailedAgainst(i, t) ==
  Cardinality({k \in DOMAIN attempts : attempts[k].identifier = i /\ attempts[k].at + AccountWindow >= t})

-----------------------------------------------------------------------------
Login(w, i, a, right) ==
  /\ req[w].pc = "idle"
  /\ req' = [req EXCEPT ![w] = [Idle EXCEPT !.pc = "countIP", !.id = i, !.ip = a,
                                            !.since = now, !.right = right,
                        !.under = IF i \in User THEN lockouts[i].until ELSE 0]]
  /\ UNCHANGED <<now, verified, attempts, lockouts, late, failures>>

CountIP(w) ==
  /\ req[w].pc = "countIP"
  /\ IF FailedFrom(req[w].ip, req[w].since) >= IPLimit THEN Done(w)
     ELSE req' = [req EXCEPT ![w].pc = "countAccount", ![w].since = now]
  /\ UNCHANGED <<now, verified, attempts, lockouts, late, failures>>

(* Mutant: one failure too many. *)
CountAccountAbove(w) ==
  /\ req[w].pc = "countAccount"
  /\ IF FailedAgainst(req[w].id, req[w].since) > AccountLimit THEN Done(w) ELSE GoOn(w, "getUser")
  /\ UNCHANGED <<now, verified, attempts, lockouts, late, failures>>

CountAccount(w) ==
  /\ req[w].pc = "countAccount"
  /\ IF FailedAgainst(req[w].id, req[w].since) >= AccountLimit THEN Done(w) ELSE GoOn(w, "getUser")
  /\ UNCHANGED <<now, verified, attempts, lockouts, late, failures>>

(* GetUserByEmail *)
GetUser(w) ==
  /\ req[w].pc = "getUser"
  /\ req' = [req EXCEPT ![w].pc = IF req[w].id \in User THEN "isLocked" ELSE "fail",
                        ![w].known = req[w].id \in verified]
  /\ UNCHANGED <<now, verified, attempts, lockouts, late, failures>>

(* Mutant: the lock is not looked at. *)
SkipLock(w) ==
  /\ req[w].pc = "isLocked"
  /\ GoOn(w, IF req[w].right THEN "increment" ELSE "fail")
  /\ UNCHANGED <<now, verified, attempts, lockouts, late, failures>>

(* IsAccountLocked; an account that is not has its password verified. *)
IsLocked(w) ==
  /\ req[w].pc = "isLocked"
  /\ GoOn(w, IF lockouts[req[w].id].until > now \/ ~req[w].right THEN "fail" ELSE "increment")
  /\ UNCHANGED <<now, verified, attempts, lockouts, late, failures>>

(* The row a first right password inserts is not locked, whatever the threshold. *)
Locks(count) == count >= Threshold /\ count > 1

(* The history: a lock that begins has let nobody finish yet. *)
StartOfLock(u, count) ==
  IF Locks(count) /\ lockouts[u].until <= now THEN [late EXCEPT ![u] = 0] ELSE late

(* Mutant: a count that is at the threshold still passes. *)
PassAtThreshold(w) ==
  LET u     == req[w].id
      count == lockouts[u].count + 1
  IN /\ req[w].pc = "increment"
     /\ lockouts' = [lockouts EXCEPT ![u].count = IF count <= Threshold THEN count ELSE @,
                                     ![u].until = IF Locks(count) THEN now + LockDuration ELSE @]
     /\ IF count > Threshold THEN Done(w) ELSE GoOn(w, IF req[w].known THEN "succeed" ELSE "fail")
     /\ late' = StartOfLock(u, count)
     /\ UNCHANGED <<now, verified, attempts, failures>>

(* IncrementFailedCount, after the right password; an unverified user fails *)
(* after it.  The code counts on above the threshold, here the count stops: *)
(* only whether it is reached is ever asked.                                *)
Increment(w) ==
  LET u     == req[w].id
      count == lockouts[u].count + 1
  IN /\ req[w].pc = "increment"
     /\ lockouts' = [lockouts EXCEPT ![u].count = IF count <= Threshold THEN count ELSE @,
                                     ![u].until = IF Locks(count) THEN now + LockDuration ELSE @]
     /\ IF count >= Threshold THEN Done(w) ELSE GoOn(w, IF req[w].known THEN "succeed" ELSE "fail")
     /\ late' = StartOfLock(u, count)
     /\ UNCHANGED <<now, verified, attempts, failures>>

(* Mutant: the address of the login and the one it came from are swapped. *)
RecordFailedSwapped(w) ==
  /\ req[w].pc = "fail"
  /\ attempts' = Append(attempts, [identifier |-> req[w].ip, ip |-> req[w].id, at |-> now,
                                   blind |-> req[w].blind])
  /\ Done(w)
  /\ UNCHANGED <<now, verified, lockouts, late, failures>>

(* recordFailedLogin *)
RecordFailed(w) ==
  /\ req[w].pc = "fail"
  /\ attempts' = Append(attempts, [identifier |-> req[w].id, ip |-> req[w].ip, at |-> now,
                                   blind |-> req[w].blind])
  /\ Done(w)
  /\ UNCHANGED <<now, verified, lockouts, late, failures>>

(* The successful attempt is recorded, in a row no count looks at, and the *)
(* session issued.                                                         *)
Succeed(w) ==
  /\ req[w].pc = "succeed"
  /\ late' = IF req[w].blind \/ lockouts[req[w].id].until <= now
             THEN late ELSE [late EXCEPT ![req[w].id] = @ + 1]
  /\ Done(w)
  /\ UNCHANGED <<now, verified, attempts, lockouts, failures>>

(* Where a login goes on when its statement at pc fails: a failed count is  *)
(* 0, a failed lookup of the user records an attempt, and the others' errors *)
(* are dropped.                                                             *)
AfterFailure(r) ==
  CASE r.pc = "countIP"      -> "countAccount"
    [] r.pc = "countAccount" -> "getUser"
    [] r.pc = "getUser"      -> "fail"
    [] r.pc = "isLocked"     -> IF r.right THEN "increment" ELSE "fail"
    [] r.pc = "increment"    -> IF r.known THEN "succeed" ELSE "fail"
    [] OTHER                 -> "idle"

Fail(w) ==
  /\ failures < MaxFailures
  /\ failures' = failures + 1
  /\ req[w].pc \notin {"idle", "succeed"}
  /\ IF req[w].pc = "fail" THEN Done(w)
     ELSE req' = [req EXCEPT ![w].pc = AfterFailure(req[w]), ![w].blind = TRUE,
                             ![w].since = IF req[w].pc = "countIP" THEN now ELSE @]
  /\ UNCHANGED <<now, verified, attempts, lockouts, late>>

(* SetVerified, a step of a password reset. *)
SetVerified(u) ==
  /\ verified' = verified \cup {u}
  /\ UNCHANGED <<now, attempts, lockouts, req, late, failures>>

Tick ==
  /\ now < MaxTime
  /\ now' = now + 1
  /\ UNCHANGED <<verified, attempts, lockouts, req, late, failures>>

-----------------------------------------------------------------------------
Next ==
  \/ Tick
  \/ \E u \in User : SetVerified(u)
  \/ \E w \in Worker :
       \/ \E i \in Identifier, a \in IP, right \in BOOLEAN : Login(w, i, a, right)
       \/ CountIP(w) \/ CountAccount(w) \/ GetUser(w) \/ IsLocked(w) \/ Increment(w)
       \/ RecordFailed(w) \/ Succeed(w)
       \/ Fail(w)

Spec == Init /\ [][Next]_vars

-----------------------------------------------------------------------------
(* Every variable has its type. *)
TypeOK ==
  /\ now \in 0 .. MaxTime
  /\ verified \subseteq User
  /\ attempts \in Seq(Attempt)
  /\ lockouts \in [User -> [count : 0 .. Threshold, until : Nat]]
  /\ req \in [Worker -> Request]
  /\ late \in [User -> Nat]
  /\ failures \in 0 .. MaxFailures

(* Attempts are counted first and recorded last, so logins at the same time *)
(* all pass the counts: still, in no window are more failures recorded      *)
(* against an account, or from an address, than the limit and one for each  *)
(* other login at a time.  (Those whose count failed are not limited.)      *)
Counted(k, window) == {j \in DOMAIN attempts : ~attempts[j].blind /\ attempts[j].at <= attempts[k].at
                                               /\ attempts[j].at + window >= attempts[k].at}

FailuresAreLimited ==
  \A k \in DOMAIN attempts :
    /\ Cardinality({j \in Counted(k, AccountWindow) : attempts[j].identifier = attempts[k].identifier})
         < AccountLimit + Cardinality(Worker)
    /\ Cardinality({j \in Counted(k, IPWindow) : attempts[j].ip = attempts[k].ip})
         < IPLimit + Cardinality(Worker)

(* Logins that are past the look at the lock when one begins go on.  Those  *)
(* of them that had also counted still get their session, so under one lock *)
(* a user gets a session for each other login at a time at most: the count  *)
(* is at the threshold, and nobody counts on to a session (those whose      *)
(* statement failed aside).                                                 *)
FewFinishUnderLock == \A u \in User : late[u] < Cardinality(Worker)

(* A lock that is running stops every login that begins under it, however   *)
(* the steps of other logins move the lock on meanwhile (unless the look at *)
(* the lock fails).                                                         *)
LockStopsLaterLogins ==
  \A w \in Worker : req[w].under > now /\ ~req[w].blind => req[w].pc \notin {"increment", "succeed"}

(* An account is locked for its failed attempts (src/README.md:115, "Account *)
(* lockout after 20 failed attempts"): one that has none is not locked.      *)
LockedForFailures ==
  \A u \in User :
    lockouts[u].until > 0 => \E k \in DOMAIN attempts : attempts[k].identifier = u
=============================================================================
