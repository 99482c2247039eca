------------------------- MODULE LoginLockoutProofs -------------------------
(***************************************************************************)
(* Theorems about LoginLockout, for any users, addresses, limits and       *)
(* number of goroutines.                                                   *)
(*                                                                         *)
(* LockStopsLaterLogins needs that the end of a lock only moves later: the *)
(* lock a login began under is then still the least the row says when the  *)
(* login looks at it.  FewFinishUnderLock needs that a row that was ever    *)
(* locked has its count at the threshold, where nobody counts on, and that *)
(* under a running lock the sessions issued and those on their way are     *)
(* together fewer than the goroutines.  FailuresAreLimited needs the same  *)
(* of the rate limits: the failures of a window and the logins that may    *)
(* still add one stay below the limit and the number of goroutines.        *)
(***************************************************************************)
EXTENDS LoginLockout, FiniteSetTheorems, TLAPS

(* What is known of a worker's request at each statement. *)
Placed(w) ==
  /\ req[w].pc # "idle" => req[w].id \in Identifier /\ req[w].ip \in IP
  /\ req[w].pc \in {"isLocked", "increment", "succeed"} => req[w].id \in User
PlacedInv == \A w \in Worker : Placed(w)

LockInv == \A u \in User : lockouts[u].until <= now + LockDuration

(* The lock a login began under has not moved earlier. *)
Under(w) == req[w].under = 0 \/ (req[w].id \in User /\ req[w].under <= lockouts[req[w].id].until)
UnderInv == \A w \in Worker : Under(w)

(* The logins past the count, which no failed statement let through. *)
Passing(u) == {w \in Worker : req[w].pc = "succeed" /\ req[w].id = u /\ ~req[w].blind}

Covered(u) ==
  /\ lockouts[u].until > 0 => lockouts[u].count = Threshold
  /\ late[u] < Cardinality(Worker)
  /\ lockouts[u].until > now => late[u] + Cardinality(Passing(u)) < Cardinality(Worker)
CoveredInv == \A u \in User : Covered(u)

LockoutInv == TypeOK /\ PlacedInv /\ LockInv /\ UnderInv /\ LockStopsLaterLogins

-----------------------------------------------------------------------------
LEMMA LockoutInit == Init => LockoutInv
BY LockoutAssumption DEF Init, LockoutInv, TypeOK, PlacedInv, Placed, LockInv, UnderInv, Under,
   LockStopsLaterLogins, Idle, Request, Identifier

(* A step that gives one worker a request keeps the invariant if the request *)
(* is well formed and does not pass under the lock it began under.           *)
LEMMA RequestStep ==
  ASSUME LockoutInv, UNCHANGED <<now, lockouts>>,
         verified' = verified, attempts' \in Seq(Attempt), late' \in [User -> Nat],
         failures' \in 0 .. MaxFailures,
         NEW w \in Worker, NEW r \in Request,
         req' = [req EXCEPT ![w] = r],
         r.pc # "idle" => r.id \in Identifier /\ r.ip \in IP,
         r.pc \in {"isLocked", "increment", "succeed"} => r.id \in User,
         r.under = 0 \/ (r.id \in User /\ r.under <= lockouts[r.id].until),
         r.under > now /\ ~r.blind => r.pc \notin {"increment", "succeed"}
  PROVE  LockoutInv'
<1>1. TypeOK'
  BY DEF LockoutInv, TypeOK
<1>2. \A x \in Worker : req'[x] = IF x = w THEN r ELSE req[x]
  BY DEF LockoutInv, TypeOK
<1>3. PlacedInv'
  BY <1>2 DEF LockoutInv, PlacedInv, Placed
<1>4. LockInv'
  BY DEF LockoutInv, LockInv
<1>5. UnderInv'
  BY <1>2 DEF LockoutInv, UnderInv, Under
<1>6. LockStopsLaterLogins'
  BY <1>2 DEF LockoutInv, LockStopsLaterLogins
<1> QED BY <1>1, <1>3, <1>4, <1>5, <1>6 DEF LockoutInv

(* A worker that is done. *)
LEMMA DoneStep ==
  ASSUME LockoutInv, UNCHANGED <<now, lockouts>>,
         verified' = verified, attempts' \in Seq(Attempt), late' \in [User -> Nat],
         failures' \in 0 .. MaxFailures,
         NEW w \in Worker, Done(w)
  PROVE  LockoutInv'
<1>1. Idle \in Request /\ Idle.pc = "idle" /\ Idle.under = 0
  BY DEF Idle, Request
<1> QED BY <1>1, RequestStep DEF Done

LEMMA LockoutNext == LockoutInv /\ [Next]_vars => LockoutInv'
<1> SUFFICES ASSUME LockoutInv, [Next]_vars
             PROVE  LockoutInv'
  OBVIOUS
<1>t. TypeOK
  BY DEF LockoutInv
<1>s. /\ attempts \in Seq(Attempt) /\ late \in [User -> Nat]
      /\ failures \in 0 .. MaxFailures /\ now \in Nat /\ now <= MaxTime
  BY <1>t, LockoutAssumption DEF TypeOK
<1>1. CASE Tick
  <2>1. TypeOK'
    BY <1>1, <1>t, LockoutAssumption DEF Tick, TypeOK
  <2>2. LockInv'
    BY <1>1, <1>t, LockoutAssumption DEF Tick, LockoutInv, LockInv, TypeOK
  <2>3. LockStopsLaterLogins'
    <3> SUFFICES ASSUME NEW w \in Worker, req[w].under > now + 1, ~req[w].blind
                 PROVE  req[w].pc \notin {"increment", "succeed"}
      BY <1>1 DEF Tick, LockStopsLaterLogins
    <3>1. req[w].under > now
      BY <1>t, <1>s DEF TypeOK, Request
    <3> QED BY <3>1 DEF LockoutInv, LockStopsLaterLogins
  <2> QED BY <1>1, <2>1, <2>2, <2>3 DEF Tick, LockoutInv, PlacedInv, Placed, UnderInv, Under
<1>2. ASSUME NEW u \in User, SetVerified(u)
      PROVE  LockoutInv'
  BY <1>2, <1>t DEF SetVerified, LockoutInv, TypeOK, PlacedInv, Placed, LockInv, UnderInv, Under,
                    LockStopsLaterLogins
<1>3. ASSUME NEW w \in Worker, NEW i \in Identifier, NEW a \in IP, NEW right \in BOOLEAN,
             Login(w, i, a, right)
      PROVE  LockoutInv'
  <2> DEFINE r == [Idle EXCEPT !.pc = "countIP", !.id = i, !.ip = a, !.since = now, !.right = right,
                               !.under = IF i \in User THEN lockouts[i].until ELSE 0]
  <2>1. (IF i \in User THEN lockouts[i].until ELSE 0) \in Nat
    BY <1>t DEF TypeOK
  <2>2. /\ r \in Request /\ r.pc = "countIP" /\ r.id = i /\ r.ip = a
        /\ r.under = IF i \in User THEN lockouts[i].until ELSE 0
    BY <1>s, <2>1 DEF Idle, Request
  <2>3. r.under = 0 \/ (r.id \in User /\ r.under <= lockouts[r.id].until)
    BY <2>1, <2>2
  <2>4. req' = [req EXCEPT ![w] = r]
    BY <1>3 DEF Login
  <2> HIDE DEF r
  <2> QED BY <1>3, <1>s, <2>2, <2>3, <2>4, RequestStep DEF Login
<1>4. ASSUME NEW w \in Worker, CountIP(w)
      PROVE  LockoutInv'
  <2>1. CASE Done(w)
    BY <1>4, <1>s, <2>1, DoneStep DEF CountIP
  <2>2. CASE req' = [req EXCEPT ![w].pc = "countAccount", ![w].since = now]
    <3> DEFINE r == [req[w] EXCEPT !.pc = "countAccount", !.since = now]
    <3>1. /\ r \in Request /\ r.pc = "countAccount" /\ r.id = req[w].id /\ r.ip = req[w].ip
          /\ r.under = req[w].under
      BY <1>t, <1>s DEF TypeOK, Request
    <3>2. req' = [req EXCEPT ![w] = r]
      BY <2>2, <1>t DEF TypeOK
    <3>3. Placed(w) /\ Under(w) /\ req[w].pc = "countIP"
      BY <1>4 DEF CountIP, LockoutInv, PlacedInv, UnderInv
    <3> HIDE DEF r
    <3> QED BY <1>4, <1>s, <3>1, <3>2, <3>3, RequestStep DEF CountIP, Placed, Under
  <2> QED BY <1>4, <2>1, <2>2 DEF CountIP
<1>5. ASSUME NEW w \in Worker, CountAccount(w)
      PROVE  LockoutInv'
  <2>1. CASE Done(w)
    BY <1>5, <1>s, <2>1, DoneStep DEF CountAccount
  <2>2. CASE GoOn(w, "getUser")
    <3> DEFINE r == [req[w] EXCEPT !.pc = "getUser"]
    <3>1. /\ r \in Request /\ r.pc = "getUser" /\ r.id = req[w].id /\ r.ip = req[w].ip
          /\ r.under = req[w].under
      BY <1>t DEF TypeOK, Request
    <3>2. req' = [req EXCEPT ![w] = r]
      BY <2>2, <1>t DEF TypeOK, GoOn
    <3>3. Placed(w) /\ Under(w) /\ req[w].pc = "countAccount"
      BY <1>5 DEF CountAccount, LockoutInv, PlacedInv, UnderInv
    <3> HIDE DEF r
    <3> QED BY <1>5, <1>s, <3>1, <3>2, <3>3, RequestStep DEF CountAccount, Placed, Under
  <2> QED BY <1>5, <2>1, <2>2 DEF CountAccount
<1>6. ASSUME NEW w \in Worker, GetUser(w)
      PROVE  LockoutInv'
  <2> DEFINE next  == IF req[w].id \in User THEN "isLocked" ELSE "fail"
             known == req[w].id \in verified
             r     == [req[w] EXCEPT !.pc = next, !.known = known]
  <2>0. req[w] \in Request /\ next \in {"isLocked", "fail"} /\ known \in BOOLEAN
        /\ (next = "isLocked" => req[w].id \in User)
    BY <1>t DEF TypeOK
  <2>2. req' = [req EXCEPT ![w] = r]
    BY <1>6, <1>t DEF GetUser, TypeOK
  <2> HIDE DEF next, known
  <2>1. /\ r \in Request /\ r.pc = next
        /\ r.id = req[w].id /\ r.ip = req[w].ip /\ r.under = req[w].under
    BY <2>0 DEF Request
  <2>3. Placed(w) /\ Under(w) /\ req[w].pc = "getUser"
    BY <1>6 DEF GetUser, LockoutInv, PlacedInv, UnderInv
  <2> HIDE DEF r
  <2> QED BY <1>6, <1>s, <2>0, <2>1, <2>2, <2>3, RequestStep DEF GetUser, Placed, Under
<1>7. ASSUME NEW w \in Worker, IsLocked(w)
      PROVE  LockoutInv'
  <2> DEFINE next == IF lockouts[req[w].id].until > now \/ ~req[w].right THEN "fail" ELSE "increment"
             r == [req[w] EXCEPT !.pc = next]
  <2>0. req[w] \in Request /\ next \in {"fail", "increment"}
    BY <1>t DEF TypeOK
  <2> HIDE DEF next
  <2>1. /\ r \in Request /\ r.pc = next /\ r.id = req[w].id /\ r.ip = req[w].ip
        /\ r.under = req[w].under
    BY <2>0 DEF Request
  <2>2. req' = [req EXCEPT ![w] = r]
    BY <1>7, <1>t DEF IsLocked, GoOn, TypeOK, next
  <2>3. Placed(w) /\ Under(w) /\ req[w].pc = "isLocked"
    BY <1>7 DEF IsLocked, LockoutInv, PlacedInv, UnderInv
  <2>4. req[w].under \in Nat /\ lockouts[req[w].id].until \in Nat
    BY <1>t, <2>3 DEF TypeOK, Request, Placed
  <2>5. r.under > now => r.pc = "fail"
    BY <1>s, <2>1, <2>3, <2>4 DEF Under, next
  <2>6. r.pc \in {"fail", "increment"}
    BY <2>0, <2>1
  <2> HIDE DEF r
  <2> QED BY <1>7, <1>s, <2>1, <2>2, <2>3, <2>5, <2>6, RequestStep DEF IsLocked, Placed, Under
<1>8. ASSUME NEW w \in Worker, Increment(w)
      PROVE  LockoutInv'
  <2> DEFINE u == req[w].id
             count == lockouts[u].count + 1
             next == IF req[w].known THEN "succeed" ELSE "fail"
  <2>1. Placed(w) /\ Under(w) /\ req[w].pc = "increment" /\ u \in User /\ req[w] \in Request
    BY <1>8, <1>t DEF Increment, LockoutInv, PlacedInv, UnderInv, Placed, TypeOK
  <2>2. /\ lockouts' = [lockouts EXCEPT ![u].count = IF count <= Threshold THEN count ELSE @,
                                        ![u].until = IF Locks(count) THEN now + LockDuration ELSE @]
        /\ Done(w) \/ GoOn(w, next)
        /\ late' = StartOfLock(u, count)
        /\ UNCHANGED <<now, verified, attempts, failures>>
    BY <1>8 DEF Increment
  <2>3. lockouts[u].count \in 0 .. Threshold /\ lockouts[u].until \in Nat
    BY <1>t, <2>1 DEF TypeOK
  <2>4. /\ lockouts' \in [User -> [count : 0 .. Threshold, until : Nat]]
        /\ \A v \in User : /\ lockouts[v].until <= lockouts'[v].until
                           /\ lockouts'[v].until <= now + LockDuration
    <3> DEFINE c == IF count <= Threshold THEN count ELSE lockouts[u].count
               e == IF Locks(count) THEN now + LockDuration ELSE lockouts[u].until
    <3>1. lockouts[u].until <= now + LockDuration /\ now + LockDuration \in Nat
      BY <1>s, <2>1, LockoutAssumption DEF LockoutInv, LockInv
    <3>2. c \in 0 .. Threshold /\ e \in Nat /\ lockouts[u].until <= e /\ e <= now + LockDuration
      BY <2>3, <3>1, LockoutAssumption
    <3> HIDE DEF c, e
    <3> DEFINE row == [lockouts[u] EXCEPT !.count = c, !.until = e]
    <3>0. row \in [count : 0 .. Threshold, until : Nat] /\ row.until = e
      <4>1. lockouts[u] \in [count : 0 .. Threshold, until : Nat]
        BY <1>t, <2>1 DEF TypeOK
      <4> QED BY ONLY <3>2, <4>1
    <3>3. lockouts' = [lockouts EXCEPT ![u] = row]
      BY <1>t, <2>1, <2>2 DEF TypeOK, c, e
    <3> HIDE DEF row
    <3>4. lockouts' \in [User -> [count : 0 .. Threshold, until : Nat]]
      <4>1. lockouts \in [User -> [count : 0 .. Threshold, until : Nat]]
        BY <1>t DEF TypeOK
      <4> QED BY ONLY <3>0, <3>3, <4>1
    <3>5. \A v \in User : lockouts[v].until \in Nat /\ lockouts[v].until <= now + LockDuration
      BY <1>t DEF TypeOK, LockoutInv, LockInv
    <3>6. \A v \in User : v # u => lockouts'[v].until = lockouts[v].until
      BY <1>t, <3>3 DEF TypeOK
    <3>7. lockouts'[u].until = e
      BY <1>t, <2>1, <3>0, <3>3 DEF TypeOK
    <3>8. \A v \in User : v # u => lockouts[v].until <= lockouts'[v].until
                                   /\ lockouts'[v].until <= now + LockDuration
      BY <3>5, <3>6
    <3> QED BY <3>2, <3>4, <3>7, <3>8
  <2> HIDE DEF u, count, next
  <2>5. PICK r \in Request :
          /\ req' = [req EXCEPT ![w] = r]
          /\ r = Idle \/ (r.pc \in {"succeed", "fail"} /\ r.id = u /\ r.ip = req[w].ip
                            /\ r.under = req[w].under /\ r.blind = req[w].blind)
    <3>1. CASE Done(w)
      <4>1. Idle \in Request
        BY DEF Idle, Request
      <4> QED BY <3>1, <4>1 DEF Done
    <3>2. CASE GoOn(w, next)
      <4>1. [req[w] EXCEPT !.pc = next] \in Request
        BY <2>1 DEF Request, next
      <4>2. req' = [req EXCEPT ![w] = [req[w] EXCEPT !.pc = next]]
        BY <3>2, <1>t DEF GoOn, TypeOK
      <4> QED BY <2>1, <4>1, <4>2 DEF next, u, Request
    <3> QED BY <2>2, <3>1, <3>2
  <2>6. Idle.pc = "idle" /\ Idle.under = 0
    BY DEF Idle
  <2>7. \A x \in Worker : req'[x] = IF x = w THEN r ELSE req[x]
    BY <2>5, <1>t DEF TypeOK
  <2>8. TypeOK'
    <3>1. late' \in [User -> Nat]
      BY <1>s, <2>2 DEF StartOfLock
    <3> QED BY <1>t, <2>2, <2>4, <2>5, <3>1 DEF TypeOK
  <2>9. PlacedInv'
    <3> SUFFICES ASSUME NEW x \in Worker
                 PROVE  Placed(x)'
      BY DEF PlacedInv
    <3>1. CASE x # w
      BY <3>1, <2>7 DEF LockoutInv, PlacedInv, Placed
    <3>2. CASE x = w
      BY <3>2, <2>1, <2>5, <2>6, <2>7 DEF Placed, u
    <3> QED BY <3>1, <3>2
  <2>10. LockInv'
    BY <2>2, <2>4 DEF LockInv
  <2>11. UnderInv'
    <3> SUFFICES ASSUME NEW x \in Worker
                 PROVE  Under(x)'
      BY DEF UnderInv
    <3>1. CASE x = w /\ r = Idle
      BY <3>1, <2>6, <2>7 DEF Under
    <3>2. CASE ~(x = w /\ r = Idle)
      <4>1. req'[x].under = req[x].under /\ req'[x].id = req[x].id
        BY <3>2, <2>5, <2>7 DEF u
      <4>2. Under(x) /\ req[x].under \in Nat
        BY <1>t DEF LockoutInv, UnderInv, TypeOK, Request
      <4>3. CASE req[x].under = 0
        BY <4>1, <4>3 DEF Under
      <4>4. CASE req[x].id \in User /\ req[x].under <= lockouts[req[x].id].until
        <5> DEFINE v == req[x].id
        <5>1. /\ lockouts[v].until \in Nat /\ lockouts'[v].until \in Nat
              /\ lockouts[v].until <= lockouts'[v].until
          BY <4>4, <1>t, <2>4 DEF TypeOK
        <5> QED BY <4>1, <4>2, <4>4, <5>1 DEF Under
      <4> QED BY <4>2, <4>3, <4>4 DEF Under
    <3> QED BY <3>1, <3>2
  <2>12. LockStopsLaterLogins'
    <3> SUFFICES ASSUME NEW x \in Worker, req'[x].under > now, ~req'[x].blind
                 PROVE  req'[x].pc \notin {"increment", "succeed"}
      BY <2>2 DEF LockStopsLaterLogins
    <3>1. CASE x = w /\ r = Idle
      BY <3>1, <2>6, <2>7
    <3>2. CASE x = w /\ r # Idle
      BY <3>2, <2>1, <2>5, <2>7 DEF LockoutInv, LockStopsLaterLogins
    <3>3. CASE x # w
      BY <3>3, <2>7 DEF LockoutInv, LockStopsLaterLogins
    <3> QED BY <3>1, <3>2, <3>3
  <2> QED BY <2>8, <2>9, <2>10, <2>11, <2>12 DEF LockoutInv
<1>9. ASSUME NEW w \in Worker, RecordFailed(w)
      PROVE  LockoutInv'
  <2>1. req[w].id \in Identifier /\ req[w].ip \in IP /\ req[w].blind \in BOOLEAN
    BY <1>9, <1>t DEF RecordFailed, LockoutInv, PlacedInv, Placed, TypeOK, Request
  <2>2. [identifier |-> req[w].id, ip |-> req[w].ip, at |-> now, blind |-> req[w].blind] \in Attempt
    BY <2>1, <1>s DEF Attempt
  <2>3. attempts' \in Seq(Attempt)
    BY <1>9, <1>s, <2>2 DEF RecordFailed
  <2> QED BY <1>9, <1>s, <2>3, DoneStep DEF RecordFailed
<1>10. ASSUME NEW w \in Worker, Succeed(w)
       PROVE  LockoutInv'
  <2>1. req[w].id \in User
    BY <1>10 DEF Succeed, LockoutInv, PlacedInv, Placed
  <2>2. late[req[w].id] + 1 \in Nat
    BY <1>s, <2>1
  <2>3. late' \in [User -> Nat]
    BY <1>10, <1>s, <2>2 DEF Succeed
  <2> QED BY <1>10, <1>s, <2>3, DoneStep DEF Succeed
<1>11. ASSUME NEW w \in Worker, Fail(w)
       PROVE  LockoutInv'
  <2>1. failures' \in 0 .. MaxFailures
    BY <1>11, <1>s, LockoutAssumption DEF Fail
  <2>2. CASE req[w].pc = "fail"
    BY <1>11, <1>s, <2>1, <2>2, DoneStep DEF Fail
  <2>3. CASE req[w].pc # "fail"
    <3> DEFINE next == AfterFailure(req[w])
               since == IF req[w].pc = "countIP" THEN now ELSE req[w].since
               r == [req[w] EXCEPT !.pc = next, !.blind = TRUE, !.since = since]
    <3>1. Placed(w) /\ Under(w) /\ req[w] \in Request
          /\ req[w].pc \in {"countIP", "countAccount", "getUser", "isLocked", "increment"}
      BY <1>11, <1>t, <2>3 DEF Fail, LockoutInv, PlacedInv, UnderInv, TypeOK, Request
    <3>2. /\ next \in {"countAccount", "getUser", "fail", "increment", "succeed"}
          /\ next \in {"increment", "succeed"} => req[w].pc \in {"isLocked", "increment"}
      BY <3>1 DEF AfterFailure
    <3>3. req' = [req EXCEPT ![w] = r]
      BY <1>11, <1>t, <2>3 DEF Fail, TypeOK
    <3>4. since \in Nat
      BY <1>s, <3>1 DEF Request
    <3> HIDE DEF next, since
    <3>5. /\ r \in Request /\ r.pc = next /\ r.id = req[w].id /\ r.ip = req[w].ip
          /\ r.under = req[w].under /\ r.blind
      BY <3>1, <3>2, <3>4 DEF Request
    <3> HIDE DEF r
    <3> QED BY <1>11, <1>s, <2>1, <3>1, <3>2, <3>3, <3>5, RequestStep DEF Fail, Placed, Under
  <2> QED BY <2>2, <2>3
<1>12. CASE UNCHANGED vars
  BY <1>12 DEF vars, LockoutInv, TypeOK, PlacedInv, Placed, LockInv, UnderInv, Under, LockStopsLaterLogins
<1> QED BY <1>1, <1>2, <1>3, <1>4, <1>5, <1>6, <1>7, <1>8, <1>9, <1>10, <1>11, <1>12 DEF Next

-----------------------------------------------------------------------------
LEMMA PassingFinite == \A u : IsFiniteSet(Passing(u)) /\ Cardinality(Passing(u)) \in Nat
<1> SUFFICES ASSUME NEW u
             PROVE  IsFiniteSet(Passing(u)) /\ Cardinality(Passing(u)) \in Nat
  OBVIOUS
<1>1. Passing(u) \subseteq Worker
  BY DEF Passing
<1> QED BY <1>1, FS_Subset, FS_CardinalityType, LockoutAssumption

LEMMA PassingFinitePrimed == \A u : IsFiniteSet(Passing(u)') /\ Cardinality(Passing(u)') \in Nat
<1> SUFFICES ASSUME NEW u
             PROVE  IsFiniteSet(Passing(u)') /\ Cardinality(Passing(u)') \in Nat
  OBVIOUS
<1>1. Passing(u)' \subseteq Worker
  BY DEF Passing
<1> QED BY <1>1, FS_Subset, FS_CardinalityType, LockoutAssumption

(* A step that lets nobody newly past the count, begins no lock and issues *)
(* no session.                                                             *)
LEMMA NobodyPasses ==
  ASSUME TypeOK, CoveredInv, UNCHANGED <<late, lockouts>>, now' \in Nat, now <= now',
         \A u \in User : Passing(u)' \subseteq Passing(u)
  PROVE  CoveredInv'
<1> SUFFICES ASSUME NEW u \in User
             PROVE  Covered(u)'
  BY DEF CoveredInv
<1>1. Cardinality(Passing(u)') <= Cardinality(Passing(u))
  BY PassingFinite, FS_Subset
<1>2. Cardinality(Passing(u)') \in Nat /\ Cardinality(Passing(u)) \in Nat
  BY PassingFinite, PassingFinitePrimed
<1>3. late[u] \in Nat /\ lockouts[u].until \in Nat /\ now \in Nat
  BY LockoutAssumption DEF TypeOK
<1>4. /\ late'[u] = late[u] /\ lockouts'[u] = lockouts[u]
      /\ Cardinality(Passing(u))' = Cardinality(Passing(u)')
  OBVIOUS
<1>5. Covered(u) /\ Cardinality(Worker) \in Nat
  BY LockoutAssumption, FS_CardinalityType DEF CoveredInv
<1>6. lockouts'[u].until > now' =>
        late'[u] + Cardinality(Passing(u))' < Cardinality(Worker)
  BY <1>1, <1>2, <1>3, <1>4, <1>5 DEF Covered
<1> QED BY <1>4, <1>5, <1>6 DEF Covered

(* One worker changes, and not into one that passes. *)
LEMMA NotIntoPassing ==
  ASSUME TypeOK, NEW w \in Worker, NEW r, req' = [req EXCEPT ![w] = r],
         r.pc # "succeed" \/ r.blind
  PROVE  \A u \in User : Passing(u)' \subseteq Passing(u)
BY DEF TypeOK, Passing

LEMMA CoveredInit == Init => CoveredInv
<1> SUFFICES ASSUME Init, NEW u \in User
             PROVE  Covered(u)
  BY DEF CoveredInv
<1>1. \E w : w \in Worker
  BY LockoutAssumption
<1>2. Cardinality(Worker) \in Nat /\ Cardinality(Worker) # 0
  BY <1>1, LockoutAssumption, FS_CardinalityType, FS_EmptySet
<1>3. late[u] = 0 /\ lockouts[u].until = 0 /\ now = 0
  BY DEF Init
<1> QED BY <1>2, <1>3 DEF Covered

LEMMA CoveredNext == LockoutInv /\ CoveredInv /\ [Next]_vars => CoveredInv'
<1> SUFFICES ASSUME LockoutInv, CoveredInv, [Next]_vars
             PROVE  CoveredInv'
  OBVIOUS
<1>t. TypeOK
  BY DEF LockoutInv
<1>n. now \in Nat
  BY <1>t, LockoutAssumption DEF TypeOK
<1>k. Cardinality(Worker) \in Nat
  BY LockoutAssumption, FS_CardinalityType
<1>i. Idle.pc = "idle"
  BY DEF Idle
<1>d. ASSUME NEW w \in Worker, Done(w), UNCHANGED <<now, lockouts, late>>
      PROVE  CoveredInv'
  <2>1. \A u \in User : Passing(u)' \subseteq Passing(u)
    BY <1>d, <1>t, <1>i, NotIntoPassing DEF Done
  <2> QED BY <1>d, <1>n, <1>t, <2>1, NobodyPasses
<1>g. ASSUME NEW w \in Worker, NEW r, req' = [req EXCEPT ![w] = r], r.pc # "succeed" \/ r.blind,
             UNCHANGED <<now, lockouts, late>>
      PROVE  CoveredInv'
  <2>1. \A u \in User : Passing(u)' \subseteq Passing(u)
    BY <1>g, <1>t, NotIntoPassing
  <2> QED BY <1>g, <1>n, <1>t, <2>1, NobodyPasses
<1>1. CASE Tick
  BY <1>1, <1>n, <1>t, NobodyPasses DEF Tick, Passing
<1>2. ASSUME NEW u \in User, SetVerified(u)
      PROVE  CoveredInv'
  BY <1>2, <1>n, <1>t, NobodyPasses DEF SetVerified, Passing
<1>3. ASSUME NEW w \in Worker, NEW i \in Identifier, NEW a \in IP, NEW right \in BOOLEAN,
             Login(w, i, a, right)
      PROVE  CoveredInv'
  <2> DEFINE r == [Idle EXCEPT !.pc = "countIP", !.id = i, !.ip = a, !.since = now, !.right = right,
                               !.under = IF i \in User THEN lockouts[i].until ELSE 0]
  <2>1. r.pc = "countIP"
    BY DEF Idle
  <2> HIDE DEF r
  <2>2. req' = [req EXCEPT ![w] = r]
    BY <1>3 DEF Login, r
  <2> QED BY <1>3, <1>g, <2>1, <2>2 DEF Login
<1>4. ASSUME NEW w \in Worker, CountIP(w)
      PROVE  CoveredInv'
  <2>1. CASE Done(w)
    BY <1>4, <1>d, <2>1 DEF CountIP
  <2>2. CASE req' = [req EXCEPT ![w].pc = "countAccount", ![w].since = now]
    <3> DEFINE r == [req[w] EXCEPT !.pc = "countAccount", !.since = now]
    <3>1. req' = [req EXCEPT ![w] = r] /\ r.pc = "countAccount"
      BY <1>t, <2>2 DEF TypeOK, Request
    <3> HIDE DEF r
    <3> QED BY <1>4, <1>g, <3>1 DEF CountIP
  <2> QED BY <1>4, <2>1, <2>2 DEF CountIP
<1>5. ASSUME NEW w \in Worker, CountAccount(w)
      PROVE  CoveredInv'
  <2>1. CASE Done(w)
    BY <1>5, <1>d, <2>1 DEF CountAccount
  <2>2. CASE GoOn(w, "getUser")
    BY <1>5, <1>g, <1>t, <2>2 DEF CountAccount, GoOn, TypeOK, Request
  <2> QED BY <1>5, <2>1, <2>2 DEF CountAccount
<1>6. ASSUME NEW w \in Worker, GetUser(w)
      PROVE  CoveredInv'
  <2> DEFINE next == IF req[w].id \in User THEN "isLocked" ELSE "fail"
             r == [req[w] EXCEPT !.pc = next, !.known = req[w].id \in verified]
  <2>1. req' = [req EXCEPT ![w] = r]
    BY <1>6, <1>t DEF GetUser, TypeOK
  <2>2. r.pc = next
    BY <1>t DEF TypeOK, Request
  <2>3. next # "succeed"
    OBVIOUS
  <2> HIDE DEF r, next
  <2> QED BY <1>6, <1>g, <2>1, <2>2, <2>3 DEF GetUser
<1>7. ASSUME NEW w \in Worker, IsLocked(w)
      PROVE  CoveredInv'
  <2> DEFINE next == IF lockouts[req[w].id].until > now \/ ~req[w].right THEN "fail" ELSE "increment"
             r == [req[w] EXCEPT !.pc = next]
  <2>1. req' = [req EXCEPT ![w] = r]
    BY <1>7, <1>t DEF IsLocked, GoOn, TypeOK
  <2>2. r.pc = next
    BY <1>t DEF TypeOK, Request
  <2>3. next # "succeed"
    OBVIOUS
  <2> HIDE DEF r, next
  <2> QED BY <1>7, <1>g, <2>1, <2>2, <2>3 DEF IsLocked
<1>8. ASSUME NEW w \in Worker, Increment(w)
      PROVE  CoveredInv'
  <2>0. PICK u \in User : u = req[w].id
    BY <1>8 DEF Increment, LockoutInv, PlacedInv, Placed
  <2>1. PICK count : count = lockouts[u].count + 1
    OBVIOUS
  <2>2. /\ lockouts[u].count \in 0 .. Threshold /\ lockouts[u].until \in Nat
        /\ \A v \in User : late[v] \in Nat
    BY <1>t DEF TypeOK
  <2>3. /\ lockouts' = [lockouts EXCEPT ![u].count = IF count <= Threshold THEN count ELSE @,
                                        ![u].until = IF Locks(count) THEN now + LockDuration ELSE @]
        /\ late' = StartOfLock(u, count) /\ now' = now
        /\ req[w].pc = "increment"
        /\ IF count >= Threshold THEN Done(w)
           ELSE GoOn(w, IF req[w].known THEN "succeed" ELSE "fail")
    BY <1>8, <2>0, <2>1 DEF Increment
  <2>4. /\ lockouts'[u].count = IF count <= Threshold THEN count ELSE lockouts[u].count
        /\ lockouts'[u].until = IF Locks(count) THEN now + LockDuration ELSE lockouts[u].until
        /\ \A v \in User : v # u => lockouts'[v] = lockouts[v]
    BY <1>t, <2>3 DEF TypeOK
  <2>5. \A v \in User : v # u => late'[v] = late[v]
    BY <1>t, <2>3 DEF StartOfLock, TypeOK
  <2>6. \A v \in User : Cardinality(Passing(v))' = Cardinality(Passing(v)')
    OBVIOUS
  <2>7. CASE count >= Threshold
    <3>1. Done(w)
      BY <2>3, <2>7
    <3>2. \A v \in User : Passing(v)' \subseteq Passing(v)
      BY <3>1, <1>i, <1>t, NotIntoPassing DEF Done
    <3>3. \A v \in User : Cardinality(Passing(v)') <= Cardinality(Passing(v))
      BY <3>2, PassingFinite, FS_Subset
    <3>4. \A v \in User : Cardinality(Passing(v)') \in Nat /\ Cardinality(Passing(v)) \in Nat
      BY PassingFinite, PassingFinitePrimed
    <3>5. ASSUME NEW v \in User, v # u
          PROVE  Covered(v)'
      <4>1. Covered(v) /\ late[v] \in Nat /\ late'[v] = late[v] /\ lockouts'[v] = lockouts[v]
        BY <3>5, <2>2, <2>4, <2>5 DEF CoveredInv
      <4>2. lockouts'[v].until > now' => late'[v] + Cardinality(Passing(v))' < Cardinality(Worker)
        <5>1. /\ Cardinality(Passing(v)') <= Cardinality(Passing(v))
              /\ Cardinality(Passing(v)') \in Nat /\ Cardinality(Passing(v)) \in Nat
              /\ Cardinality(Passing(v))' = Cardinality(Passing(v)')
          BY <2>6, <3>3, <3>4
        <5>2. lockouts[v].until > now => late[v] + Cardinality(Passing(v)) < Cardinality(Worker)
          BY <4>1 DEF Covered
        <5>3. now' = now
          BY <2>3
        <5> QED BY <1>k, <4>1, <5>1, <5>2, <5>3
      <4> QED BY <4>1, <4>2 DEF Covered
    <3>6. Covered(u)'
      <4>1. Covered(u)
        BY DEF CoveredInv
      <4>2. lockouts'[u].count = Threshold
        BY <2>1, <2>2, <2>4, <2>7, LockoutAssumption
      <4>3. Cardinality(Passing(u)') < Cardinality(Worker)
        <5>1. Passing(u)' \subseteq Worker /\ w \notin Passing(u)'
          BY <3>1, <1>i, <1>t DEF Passing, Done, TypeOK
        <5>2. IsFiniteSet(Worker \ {w}) /\ Cardinality(Worker \ {w}) = Cardinality(Worker) - 1
          BY LockoutAssumption, FS_RemoveElement
        <5>3. Passing(u)' \subseteq Worker \ {w}
          BY <5>1
        <5>4. Cardinality(Passing(u)') <= Cardinality(Worker \ {w})
          BY <5>2, <5>3, FS_Subset
        <5>5. Cardinality(Passing(u)') \in Nat
          BY <3>4
        <5> QED BY ONLY <1>k, <5>2, <5>4, <5>5
      <4>4. CASE Locks(count) /\ lockouts[u].until <= now
        <5>1. late'[u] = 0
          BY <1>t, <2>3, <4>4 DEF StartOfLock, TypeOK
        <5> QED BY <1>k, <2>6, <3>4, <4>2, <4>3, <5>1 DEF Covered
      <4>5. CASE ~(Locks(count) /\ lockouts[u].until <= now)
        <5>1. late'[u] = late[u]
          BY <2>3, <4>5 DEF StartOfLock
        <5>2. lockouts'[u].until > now' => lockouts[u].until > now
          BY <1>n, <2>2, <2>3, <2>4, <4>5
        <5>3. lockouts'[u].until > now' => late'[u] + Cardinality(Passing(u))' < Cardinality(Worker)
          BY <1>k, <2>2, <2>6, <3>3, <3>4, <4>1, <5>1, <5>2 DEF Covered
        <5> QED BY <4>1, <4>2, <5>1, <5>3 DEF Covered
      <4> QED BY <4>4, <4>5
    <3> QED BY <3>5, <3>6 DEF CoveredInv
  <2>8. CASE count < Threshold
    <3>1. GoOn(w, IF req[w].known THEN "succeed" ELSE "fail")
      BY <2>1, <2>2, <2>3, <2>8, LockoutAssumption
    <3>2. /\ lockouts'[u].until = lockouts[u].until /\ late' = late
          /\ lockouts[u].until = 0
      <4>1. ~Locks(count)
        BY <2>1, <2>2, <2>8, LockoutAssumption DEF Locks
      <4>2. lockouts[u].until = 0
        BY <2>1, <2>2, <2>8, LockoutAssumption DEF CoveredInv, Covered
      <4> QED BY <2>3, <2>4, <4>1, <4>2 DEF StartOfLock
    <3>3. ASSUME NEW v \in User, v # u
          PROVE  Covered(v)'
      <4>1. Passing(v)' = Passing(v)
        BY <3>1, <3>3, <2>0, <1>t DEF GoOn, Passing, TypeOK, Request
      <4>2. Cardinality(Passing(v))' = Cardinality(Passing(v))
        BY <4>1
      <4> QED BY <3>2, <3>3, <2>3, <2>4, <4>2 DEF CoveredInv, Covered
    <3>4. Covered(u)'
      BY <1>n, <2>3, <3>2 DEF CoveredInv, Covered
    <3> QED BY <3>3, <3>4 DEF CoveredInv
  <2> QED BY <2>1, <2>2, <2>7, <2>8, LockoutAssumption
<1>9. ASSUME NEW w \in Worker, RecordFailed(w)
      PROVE  CoveredInv'
  BY <1>9, <1>d DEF RecordFailed
<1>10. ASSUME NEW w \in Worker, Succeed(w)
       PROVE  CoveredInv'
  <2>1. /\ req[w].id \in User /\ req[w].pc = "succeed" /\ UNCHANGED <<now, lockouts>> /\ Done(w)
        /\ \A v \in User : late[v] \in Nat /\ lockouts[v].until \in Nat
    BY <1>10, <1>t DEF Succeed, LockoutInv, PlacedInv, Placed, TypeOK
  <2>2. CASE req[w].blind \/ lockouts[req[w].id].until <= now
    BY <1>10, <1>d, <2>1, <2>2 DEF Succeed
  <2>3. CASE ~(req[w].blind \/ lockouts[req[w].id].until <= now)
    <3> SUFFICES ASSUME NEW v \in User
                 PROVE  Covered(v)'
      BY DEF CoveredInv
    <3>1. Passing(v)' = Passing(v) \ {w}
      BY <2>1, <1>i, <1>t DEF Done, Passing, TypeOK
    <3>2. Cardinality(Passing(v))' = Cardinality(Passing(v) \ {w})
      BY <3>1
    <3>3. Cardinality(Passing(v)) \in Nat /\ late[v] \in Nat
      BY PassingFinite, <2>1
    <3>4. late'[v] = IF v = req[w].id THEN late[v] + 1 ELSE late[v]
      BY <1>10, <1>t, <2>3 DEF Succeed, TypeOK
    <3>5. CASE v = req[w].id
      <4>1. w \in Passing(v)
        BY <2>1, <2>3, <3>5 DEF Passing
      <4>2. Cardinality(Passing(v) \ {w}) = Cardinality(Passing(v)) - 1
        BY <4>1, PassingFinite, FS_RemoveElement
      <4>3. late'[v] + Cardinality(Passing(v))' = late[v] + Cardinality(Passing(v))
        BY <3>2, <3>3, <3>4, <3>5, <4>2
      <4>4. lockouts[v].until > now
        BY <1>n, <2>1, <2>3, <3>5
      <4>5. 1 <= Cardinality(Passing(v))
        BY <4>1, <3>3, PassingFinite, FS_EmptySet
      <4>6. late'[v] + Cardinality(Passing(v))' < Cardinality(Worker)
        BY <4>3, <4>4 DEF CoveredInv, Covered
      <4>7. late'[v] < Cardinality(Worker)
        BY <1>k, <3>2, <3>3, <3>4, <3>5, <4>2, <4>5, <4>6
      <4> QED BY <4>6, <4>7, <2>1 DEF CoveredInv, Covered
    <3>6. CASE v # req[w].id
      <4>1. Passing(v) \ {w} = Passing(v)
        BY <3>6 DEF Passing
      <4> QED BY <3>2, <3>4, <3>6, <4>1, <2>1 DEF CoveredInv, Covered
    <3> QED BY <3>5, <3>6
  <2> QED BY <2>2, <2>3
<1>11. ASSUME NEW w \in Worker, Fail(w)
       PROVE  CoveredInv'
  <2>1. CASE req[w].pc = "fail"
    BY <1>11, <1>d, <2>1 DEF Fail
  <2>2. CASE req[w].pc # "fail"
    <3> DEFINE r == [req[w] EXCEPT !.pc = AfterFailure(req[w]), !.blind = TRUE,
                                   !.since = IF req[w].pc = "countIP" THEN now ELSE @]
    <3>1. req' = [req EXCEPT ![w] = r]
      BY <1>11, <1>t, <2>2 DEF Fail, TypeOK
    <3>2. r.blind
      BY <1>t DEF TypeOK, Request
    <3> HIDE DEF r
    <3> QED BY <1>11, <1>g, <3>1, <3>2 DEF Fail
  <2> QED BY <2>1, <2>2
<1>12. CASE UNCHANGED vars
  BY <1>12, <1>n, <1>t, NobodyPasses DEF vars, Passing
<1> QED BY <1>1, <1>2, <1>3, <1>4, <1>5, <1>6, <1>7, <1>8, <1>9, <1>10, <1>11, <1>12 DEF Next

-----------------------------------------------------------------------------
LEMMA LockoutInvariant == Spec => []LockoutInv
BY LockoutInit, LockoutNext, PTL DEF Spec

(* Every variable keeps its type, for any number of users, addresses and    *)
(* logins at a time.                                                        *)
THEOREM LockoutTypeCorrect == Spec => []TypeOK
<1>1. LockoutInv => TypeOK
  BY DEF LockoutInv
<1> QED BY <1>1, LockoutInvariant, PTL

(* A running lock stops every login that begins under it, whatever other    *)
(* logins do to the lock row meanwhile.                                     *)
THEOREM LockIsEffective == Spec => []LockStopsLaterLogins
<1>1. LockoutInv => LockStopsLaterLogins
  BY DEF LockoutInv
<1> QED BY <1>1, LockoutInvariant, PTL

(* However many logins are past the look at a lock when it begins, a user   *)
(* is issued fewer sessions under it than there are goroutines.             *)
THEOREM FewFinish == Spec => []FewFinishUnderLock
<1>1. CoveredInv => FewFinishUnderLock
  BY DEF CoveredInv, Covered, FewFinishUnderLock
<1> QED BY <1>1, CoveredInit, CoveredNext, LockoutInvariant, PTL DEF Spec

-----------------------------------------------------------------------------
(* The rate limits.  The failures of a window that ends at T, and the logins *)
(* that counted by T and may still add theirs, together stay within a limit: *)
(* this is inductive, and the property, of failures alone, is not.           *)
InWindow(j, window, T) ==
  attempts[j].blind = FALSE /\ attempts[j].at <= T /\ attempts[j].at + window >= T

Against(i, T) == {j \in DOMAIN attempts : attempts[j].identifier = i /\ InWindow(j, AccountWindow, T)}
From(a, T)    == {j \in DOMAIN attempts : attempts[j].ip = a /\ InWindow(j, IPWindow, T)}

(* Where a login stands that may still record a failure. *)
Failing == {"getUser", "isLocked", "increment", "fail"}

FailingAgainst(i, T) ==
  {w \in Worker : req[w].id = i /\ req[w].pc \in Failing
                    /\ req[w].blind = FALSE /\ req[w].since <= T}
FailingFrom(a, T) ==
  {w \in Worker : req[w].ip = a /\ req[w].pc \in Failing \cup {"countAccount"}
                    /\ req[w].blind = FALSE /\ req[w].since <= T}

Within(M, P, limit) == Cardinality(M) + Cardinality(P) < limit + Cardinality(Worker)

SinceInv == \A w \in Worker : req[w].since <= now

LimitInv ==
  /\ LockoutInv /\ SinceInv
  /\ Worker = {} => attempts = <<>>
  /\ Worker # {} =>
       /\ \A i \in Identifier, T \in Nat : Within(Against(i, T), FailingAgainst(i, T), AccountLimit)
       /\ \A a \in IP, T \in Nat : Within(From(a, T), FailingFrom(a, T), IPLimit)

LEMMA SomeWorkers ==
  ASSUME NEW A, A \subseteq Worker
  PROVE  /\ IsFiniteSet(A) /\ Cardinality(A) \in Nat /\ Cardinality(Worker) \in Nat
         /\ Cardinality(A) <= Cardinality(Worker)
BY LockoutAssumption, FS_Subset, FS_CardinalityType

LEMMA SomeAttempts ==
  ASSUME TypeOK, NEW A, A \subseteq DOMAIN attempts
  PROVE  IsFiniteSet(A) /\ Cardinality(A) \in Nat
<1>1. Len(attempts) \in Nat /\ DOMAIN attempts = 1 .. Len(attempts)
  BY DEF TypeOK
<1>2. IsFiniteSet(DOMAIN attempts)
  BY <1>1, FS_Interval
<1> QED BY <1>2, FS_Subset, FS_CardinalityType

(* A login that counted fewer than the limit joins. *)
LEMMA Joined ==
  ASSUME NEW C, NEW M, NEW P, NEW limit \in Nat, IsFiniteSet(C), M \subseteq C, P \subseteq Worker,
         Cardinality(C) < limit
  PROVE  Within(M, P, limit)
<1>1. Cardinality(M) <= Cardinality(C) /\ Cardinality(M) \in Nat /\ Cardinality(C) \in Nat
  BY FS_Subset, FS_CardinalityType
<1>2. Cardinality(P) \in Nat /\ Cardinality(Worker) \in Nat /\ Cardinality(P) <= Cardinality(Worker)
  BY SomeWorkers
<1> QED BY <1>1, <1>2 DEF Within

(* None joins, and none leaves its failure. *)
LEMMA FewerWithin ==
  ASSUME NEW M, NEW P, NEW Q, NEW limit \in Nat, IsFiniteSet(M), P \subseteq Worker,
         Q \subseteq P, Within(M, P, limit)
  PROVE  Within(M, Q, limit)
<1>1. Cardinality(M) \in Nat
  BY FS_CardinalityType
<1>2. IsFiniteSet(P) /\ Cardinality(P) \in Nat /\ Cardinality(Worker) \in Nat
  BY SomeWorkers
<1>3. Cardinality(Q) <= Cardinality(P) /\ Cardinality(Q) \in Nat
  BY <1>2, FS_Subset, FS_CardinalityType
<1> QED BY <1>1, <1>2, <1>3 DEF Within

(* A login leaves its failure. *)
LEMMA MovedWithin ==
  ASSUME NEW M, NEW P, NEW N, NEW Q, NEW limit \in Nat, IsFiniteSet(M), P \subseteq Worker,
         NEW k, NEW w \in P, N \subseteq M \cup {k}, Q \subseteq P \ {w}, Within(M, P, limit)
  PROVE  Within(N, Q, limit)
<1>1. Cardinality(N) <= Cardinality(M) + 1 /\ Cardinality(N) \in Nat /\ Cardinality(M) \in Nat
  <2>0. /\ IsFiniteSet(M \cup {k})
        /\ Cardinality(M \cup {k}) = IF k \in M THEN Cardinality(M) ELSE Cardinality(M) + 1
    BY FS_AddElement
  <2>1. IsFiniteSet(M \cup {k}) /\ Cardinality(M \cup {k}) <= Cardinality(M) + 1
        /\ Cardinality(M) \in Nat
    BY <2>0, FS_CardinalityType
  <2>2. Cardinality(N) <= Cardinality(M \cup {k}) /\ IsFiniteSet(N)
    BY <2>1, FS_Subset
  <2> QED BY <2>1, <2>2, FS_CardinalityType
<1>2. Cardinality(Q) <= Cardinality(P) - 1 /\ Cardinality(Q) \in Nat /\ Cardinality(P) \in Nat
      /\ Cardinality(Worker) \in Nat
  <2>1. IsFiniteSet(P) /\ Cardinality(P) \in Nat /\ Cardinality(Worker) \in Nat
    BY SomeWorkers
  <2>2. IsFiniteSet(P \ {w}) /\ Cardinality(P \ {w}) = Cardinality(P) - 1
    BY <2>1, FS_RemoveElement
  <2>3. Cardinality(Q) <= Cardinality(P \ {w}) /\ IsFiniteSet(Q)
    BY <2>2, FS_Subset
  <2> QED BY <2>1, <2>2, <2>3, FS_CardinalityType
<1> QED BY <1>1, <1>2 DEF Within

(* Only the last statement of a failed login adds to the attempts. *)
LEMMA AttemptStep ==
  ASSUME [Next]_vars
  PROVE  attempts' = attempts \/ \E w \in Worker : RecordFailed(w)
BY DEF Next, vars, Tick, SetVerified, Login, CountIP, CountAccount, GetUser, IsLocked, Increment,
       Succeed, Fail

(* The one that does adds a row for the login, and is done. *)
LEMMA Recorded ==
  ASSUME TypeOK, NEW w \in Worker, RecordFailed(w)
  PROVE  /\ DOMAIN attempts' = DOMAIN attempts \cup {Len(attempts) + 1}
         /\ \A j \in DOMAIN attempts : attempts'[j] = attempts[j]
         /\ attempts'[Len(attempts) + 1] = [identifier |-> req[w].id, ip |-> req[w].ip, at |-> now,
                                            blind |-> req[w].blind]
         /\ req[w].pc = "fail" /\ req' = [req EXCEPT ![w] = Idle]
<1>1. attempts \in Seq(Attempt)
  BY DEF TypeOK
<1>2. attempts' = Append(attempts, [identifier |-> req[w].id, ip |-> req[w].ip, at |-> now,
                                    blind |-> req[w].blind])
  BY DEF RecordFailed
<1> PICK row : row = [identifier |-> req[w].id, ip |-> req[w].ip, at |-> now, blind |-> req[w].blind]
  OBVIOUS
<1>3. /\ DOMAIN Append(attempts, row) = DOMAIN attempts \cup {Len(attempts) + 1}
      /\ \A j \in DOMAIN attempts : Append(attempts, row)[j] = attempts[j]
      /\ Append(attempts, row)[Len(attempts) + 1] = row
  BY <1>1
<1> QED BY <1>2, <1>3 DEF RecordFailed, Done

(* How the requests of a step change. *)
LEMMA FailingStep ==
  ASSUME TypeOK, SinceInv, [Next]_vars, NEW w \in Worker, NEW T \in Nat,
         req'[w].pc \in Failing \cup {"countAccount"}, req'[w].blind = FALSE, req'[w].since <= T
  PROVE  /\ req[w].blind = FALSE /\ req[w].since <= T
         /\ req'[w].id = req[w].id /\ req'[w].ip = req[w].ip /\ ~RecordFailed(w)
         /\ req'[w].pc = "countAccount" =>
              \/ req[w].pc = "countAccount"
              \/ /\ attempts' = attempts
                 /\ req[w].pc = "countIP" /\ ~(FailedFrom(req[w].ip, req[w].since) >= IPLimit)
         /\ req'[w].pc \in Failing =>
              \/ req[w].pc \in Failing
              \/ /\ attempts' = attempts
                 /\ req[w].pc = "countAccount"
                 /\ ~(FailedAgainst(req[w].id, req[w].since) >= AccountLimit)
<1>t. req \in [Worker -> Request] /\ req[w] \in Request /\ now \in Nat
  BY LockoutAssumption DEF TypeOK
<1>s. req[w].since \in Nat /\ req[w].since <= now
  BY <1>t DEF SinceInv, Request
<1>d. ~Done(w) /\ ~RecordFailed(w)
  BY <1>t DEF Done, RecordFailed, Idle, Failing
<1>1. CASE req'[w] = req[w]
  BY <1>1, <1>d
<1>2. ASSUME NEW v \in Worker, v # w, NEW r, req' = [req EXCEPT ![v] = r]
      PROVE  req'[w] = req[w]
  BY <1>2, <1>t
<1>3. ASSUME NEW i \in Identifier, NEW a \in IP, NEW right \in BOOLEAN, Login(w, i, a, right)
      PROVE  FALSE
  BY <1>3, <1>t DEF Login, Idle, Failing
<1>4. CASE CountIP(w)
  BY <1>4, <1>d, <1>t, <1>s DEF CountIP, Failing, Request
<1>5. CASE CountAccount(w)
  BY <1>5, <1>d, <1>t, <1>s DEF CountAccount, GoOn, Failing, Request
<1>6. CASE GetUser(w)
  BY <1>6, <1>d, <1>t DEF GetUser, Failing, Request
<1>7. CASE IsLocked(w)
  BY <1>7, <1>d, <1>t DEF IsLocked, GoOn, Failing, Request
<1>8. CASE Increment(w)
  BY <1>8, <1>d, <1>t DEF Increment, GoOn, Failing, Request
<1>9. CASE Succeed(w) \/ Fail(w)
  <2>1. Fail(w) /\ req[w].pc # "fail"
    BY <1>9, <1>d DEF Succeed, Fail
  <2>2. req'[w].blind
    BY <1>t, <2>1 DEF Fail, Request
  <2> QED BY <2>2
<1>10. ASSUME NEW v \in Worker,
              \/ \E i \in Identifier, a \in IP, right \in BOOLEAN : Login(v, i, a, right)
              \/ CountIP(v) \/ CountAccount(v) \/ GetUser(v) \/ IsLocked(v) \/ Increment(v)
              \/ RecordFailed(v) \/ Succeed(v) \/ Fail(v)
       PROVE  \E r : req' = [req EXCEPT ![v] = r]
  BY <1>10 DEF Login, CountIP, CountAccount, GetUser, IsLocked, Increment, RecordFailed, Succeed,
               Fail, GoOn, Done
<1>11. CASE UNCHANGED req
  BY <1>1, <1>11
<1>12. ASSUME NEW v \in Worker, v # w,
              \/ \E i \in Identifier, a \in IP, right \in BOOLEAN : Login(v, i, a, right)
              \/ CountIP(v) \/ CountAccount(v) \/ GetUser(v) \/ IsLocked(v) \/ Increment(v)
              \/ RecordFailed(v) \/ Succeed(v) \/ Fail(v)
       PROVE  req'[w] = req[w]
  BY <1>2, <1>10, <1>12
<1>13. CASE \/ \E i \in Identifier, a \in IP, right \in BOOLEAN : Login(w, i, a, right)
            \/ CountIP(w) \/ CountAccount(w) \/ GetUser(w) \/ IsLocked(w) \/ Increment(w)
            \/ RecordFailed(w) \/ Succeed(w) \/ Fail(w)
  BY <1>3, <1>4, <1>5, <1>6, <1>7, <1>8, <1>9, <1>13, <1>d
<1>14. CASE Tick \/ (\E u \in User : SetVerified(u)) \/ UNCHANGED vars
  BY <1>11, <1>14 DEF Tick, SetVerified, vars
<1>15. CASE \E v \in Worker \ {w} :
              \/ \E i \in Identifier, a \in IP, right \in BOOLEAN : Login(v, i, a, right)
              \/ CountIP(v) \/ CountAccount(v) \/ GetUser(v) \/ IsLocked(v) \/ Increment(v)
              \/ RecordFailed(v) \/ Succeed(v) \/ Fail(v)
  <2>1. req'[w] = req[w]
    BY <1>12, <1>15
  <2> QED BY <1>1, <2>1
<1> QED BY <1>13, <1>14, <1>15 DEF Next

(* A login goes on with a count no earlier than the clock of the count. *)
LEMMA SinceNext ==
  ASSUME TypeOK, SinceInv, [Next]_vars
  PROVE  SinceInv'
<1>t. req \in [Worker -> Request] /\ now \in Nat /\ \A w \in Worker : req[w].since \in Nat
  BY LockoutAssumption DEF TypeOK, Request
<1>1. CASE UNCHANGED req
  <2>1. now' = now \/ now' = now + 1
    BY <1>1 DEF Next, vars, Tick, SetVerified, Login, CountIP, CountAccount, GetUser, IsLocked,
                Increment, RecordFailed, Succeed, Fail
  <2> QED BY <1>1, <1>t, <2>1 DEF SinceInv
<1>2. ASSUME NEW w \in Worker, UNCHANGED now, NEW r, req' = [req EXCEPT ![w] = r],
             r.since \in {req[w].since, now, 0}
      PROVE  SinceInv'
  BY <1>2, <1>t DEF SinceInv
<1>3. ASSUME NEW w \in Worker, NEW i \in Identifier, NEW a \in IP, NEW right \in BOOLEAN,
             Login(w, i, a, right)
      PROVE  SinceInv'
  <2>1. PICK r : /\ r = [Idle EXCEPT !.pc = "countIP", !.id = i, !.ip = a, !.since = now, !.right = right,
                                     !.under = IF i \in User THEN lockouts[i].until ELSE 0]
    OBVIOUS
  <2>2. r.since = now
    BY <2>1 DEF Idle
  <2>3. req' = [req EXCEPT ![w] = r] /\ UNCHANGED now
    BY <1>3, <2>1 DEF Login
  <2> QED BY <1>2, <2>2, <2>3
<1>4. ASSUME NEW w \in Worker, UNCHANGED now, Done(w)
      PROVE  SinceInv'
  BY <1>2, <1>4 DEF Done, Idle
<1>5. ASSUME NEW w \in Worker, UNCHANGED now, NEW pc, GoOn(w, pc)
      PROVE  SinceInv'
  <2>1. req' = [req EXCEPT ![w] = [req[w] EXCEPT !.pc = pc]]
    BY <1>5 DEF GoOn
  <2>2. [req[w] EXCEPT !.pc = pc].since = req[w].since
    BY <1>t DEF Request
  <2> QED BY <1>2, <1>5, <2>1, <2>2
<1>6. ASSUME NEW w \in Worker, CountIP(w)
      PROVE  SinceInv'
  <2>1. CASE req' = [req EXCEPT ![w].pc = "countAccount", ![w].since = now]
    <3>1. PICK r : r = [req[w] EXCEPT !.pc = "countAccount", !.since = now]
      OBVIOUS
    <3>2. r.since = now /\ req' = [req EXCEPT ![w] = r]
      BY <1>t, <2>1, <3>1 DEF Request
    <3> QED BY <1>2, <1>6, <3>2 DEF CountIP
  <2> QED BY <1>4, <1>6, <2>1 DEF CountIP
<1>7. ASSUME NEW w \in Worker, GetUser(w)
      PROVE  SinceInv'
  <2>1. PICK r : r = [req[w] EXCEPT !.pc = IF req[w].id \in User THEN "isLocked" ELSE "fail",
                                    !.known = req[w].id \in verified]
    OBVIOUS
  <2>2. r.since = req[w].since
    BY <1>t, <2>1 DEF Request
  <2>3. req' = [req EXCEPT ![w] = r] /\ UNCHANGED now
    BY <1>7, <1>t, <2>1 DEF GetUser
  <2> QED BY <1>2, <2>2, <2>3
<1>8. ASSUME NEW w \in Worker, Fail(w), ~Done(w)
      PROVE  SinceInv'
  <2>1. PICK r : r = [req[w] EXCEPT !.pc = AfterFailure(req[w]), !.blind = TRUE,
                                    !.since = IF req[w].pc = "countIP" THEN now ELSE @]
    OBVIOUS
  <2>2. r.since \in {req[w].since, now}
    BY <1>t, <2>1 DEF Request
  <2>3. req' = [req EXCEPT ![w] = r] /\ UNCHANGED now
    BY <1>8, <1>t, <2>1 DEF Fail
  <2> QED BY <1>2, <2>2, <2>3
<1>9. ASSUME NEW w \in Worker, CountAccount(w) \/ IsLocked(w) \/ Increment(w) \/ RecordFailed(w)
                               \/ Succeed(w) \/ Fail(w)
      PROVE  SinceInv'
  <2>1. UNCHANGED now
    BY <1>9 DEF CountAccount, IsLocked, Increment, RecordFailed, Succeed, Fail
  <2>2. (\E pc : GoOn(w, pc)) \/ Done(w) \/ Fail(w)
    BY <1>9 DEF CountAccount, IsLocked, Increment, RecordFailed, Succeed
  <2> QED BY <1>4, <1>5, <1>8, <2>1, <2>2
<1>10. CASE Tick \/ (\E u \in User : SetVerified(u)) \/ UNCHANGED vars
  BY <1>1, <1>10 DEF Tick, SetVerified, vars
<1> QED BY <1>3, <1>6, <1>7, <1>9, <1>10 DEF Next

(* An account's window, and an address's. *)
LEMMA AgainstNext ==
  ASSUME TypeOK, SinceInv, [Next]_vars, NEW i \in Identifier, NEW T \in Nat,
         Within(Against(i, T), FailingAgainst(i, T), AccountLimit)
  PROVE  Within(Against(i, T), FailingAgainst(i, T), AccountLimit)'
<1> PICK M : M = Against(i, T)
  OBVIOUS
<1> PICK P : P = FailingAgainst(i, T)
  OBVIOUS
<1> PICK N : N = Against(i, T)'
  OBVIOUS
<1> PICK Q : Q = FailingAgainst(i, T)'
  OBVIOUS
<1>s. /\ IsFiniteSet(M) /\ M \subseteq DOMAIN attempts /\ P \subseteq Worker /\ Q \subseteq Worker
      /\ AccountLimit \in Nat /\ Within(M, P, AccountLimit)
  BY LockoutAssumption, SomeAttempts DEF Against, FailingAgainst
<1>t. /\ attempts \in Seq(Attempt) /\ req \in [Worker -> Request] /\ now \in Nat
      /\ Len(attempts) \in Nat /\ DOMAIN attempts = 1 .. Len(attempts)
      /\ \A k \in DOMAIN attempts : attempts[k] \in Attempt
  BY LockoutAssumption DEF TypeOK
<1> SUFFICES Within(N, Q, AccountLimit)
  BY DEF Within
<1>1. ASSUME NEW w \in Q
      PROVE  /\ w \in Worker /\ ~RecordFailed(w)
             /\ \/ w \in P
                \/ /\ attempts' = attempts /\ req[w].id = i /\ req[w].since <= T
                   /\ ~(FailedAgainst(i, req[w].since) >= AccountLimit)
  <2>1. /\ w \in Worker /\ req'[w].id = i /\ req'[w].pc \in Failing
        /\ req'[w].blind = FALSE /\ req'[w].since <= T
    BY <1>1 DEF FailingAgainst
  <2>2. /\ req[w].blind = FALSE /\ req[w].since <= T /\ req[w].id = i /\ ~RecordFailed(w)
    BY <2>1, FailingStep
  <2>3. \/ req[w].pc \in Failing
        \/ attempts' = attempts /\ ~(FailedAgainst(i, req[w].since) >= AccountLimit)
    BY <2>1, <2>2, FailingStep
  <2> QED BY <2>1, <2>2, <2>3 DEF FailingAgainst
<1>2. ASSUME NEW w \in Worker, attempts' = attempts, req[w].since <= T,
             ~(FailedAgainst(i, req[w].since) >= AccountLimit)
      PROVE  Within(N, Q, AccountLimit)
  <2> PICK C : C = {k \in DOMAIN attempts : attempts[k].identifier = i
                                             /\ attempts[k].at + AccountWindow >= req[w].since}
    OBVIOUS
  <2>1. IsFiniteSet(C) /\ Cardinality(C) < AccountLimit
    BY <1>2, <1>s, SomeAttempts DEF FailedAgainst
  <2>2. N \subseteq C
    <3>1. req[w].since \in Nat /\ \A k \in DOMAIN attempts : attempts[k].at \in Nat
      BY <1>t DEF Request, Attempt
    <3>2. \A k \in DOMAIN attempts : attempts[k].at + AccountWindow >= T => attempts[k].at + AccountWindow >= req[w].since
      BY <1>2, <3>1, LockoutAssumption
    <3> QED BY <1>2, <3>2 DEF Against, InWindow
  <2> QED BY <1>s, <2>1, <2>2, Joined
<1>3. CASE Q \subseteq P /\ attempts' = attempts
  <2>1. N = M
    BY <1>3 DEF Against, InWindow
  <2> QED BY <1>s, <1>3, <2>1, FewerWithin
<1>4. ASSUME Q \subseteq P, NEW v \in Worker, RecordFailed(v)
      PROVE  Within(N, Q, AccountLimit)
  <2> PICK k : k = Len(attempts) + 1
    OBVIOUS
  <2>0. k \notin DOMAIN attempts
    BY <1>t
  <2>1. /\ DOMAIN attempts' = DOMAIN attempts \cup {k} /\ k \notin DOMAIN attempts
        /\ \A j \in DOMAIN attempts : attempts'[j] = attempts[j]
        /\ attempts'[k] = [identifier |-> req[v].id, ip |-> req[v].ip, at |-> now,
                           blind |-> req[v].blind]
        /\ req[v].pc = "fail" /\ req' = [req EXCEPT ![v] = Idle]
    BY <2>0, <1>4, Recorded
  <2>2. N \subseteq M \cup {k}
    BY <2>1 DEF Against, InWindow
  <2>3. CASE k \in N
    <3>1. req[v].id = i /\ req[v].blind = FALSE /\ now <= T
      BY <2>1, <2>3 DEF Against, InWindow
    <3>2. req[v].since <= T
      BY <1>t, <3>1 DEF SinceInv, Request
    <3>3. v \in P
      BY <2>1, <3>1, <3>2 DEF FailingAgainst, Failing
    <3>4. Q \subseteq P \ {v}
      BY <1>1, <1>4
    <3> QED BY <1>s, <2>2, <3>3, <3>4, MovedWithin
  <2>4. CASE k \notin N
    <3>1. N \subseteq M
      BY <2>2, <2>4
    <3>2. M \subseteq N
      BY <2>1 DEF Against, InWindow
    <3>3. N = M
      BY <3>1, <3>2
    <3> QED BY <1>s, <1>4, <3>3, FewerWithin
  <2> QED BY <2>3, <2>4
<1>5. CASE \E w \in Q : w \notin P
  BY <1>1, <1>2, <1>5
<1>6. CASE Q \subseteq P
  BY <1>3, <1>4, <1>6, AttemptStep
<1> QED BY <1>5, <1>6

LEMMA FromNext ==
  ASSUME TypeOK, SinceInv, [Next]_vars, NEW a \in IP, NEW T \in Nat,
         Within(From(a, T), FailingFrom(a, T), IPLimit)
  PROVE  Within(From(a, T), FailingFrom(a, T), IPLimit)'
<1> PICK M : M = From(a, T)
  OBVIOUS
<1> PICK P : P = FailingFrom(a, T)
  OBVIOUS
<1> PICK N : N = From(a, T)'
  OBVIOUS
<1> PICK Q : Q = FailingFrom(a, T)'
  OBVIOUS
<1>s. /\ IsFiniteSet(M) /\ M \subseteq DOMAIN attempts /\ P \subseteq Worker /\ Q \subseteq Worker
      /\ IPLimit \in Nat /\ Within(M, P, IPLimit)
  BY LockoutAssumption, SomeAttempts DEF From, FailingFrom
<1>t. /\ attempts \in Seq(Attempt) /\ req \in [Worker -> Request] /\ now \in Nat
      /\ Len(attempts) \in Nat /\ DOMAIN attempts = 1 .. Len(attempts)
      /\ \A k \in DOMAIN attempts : attempts[k] \in Attempt
  BY LockoutAssumption DEF TypeOK
<1> SUFFICES Within(N, Q, IPLimit)
  BY DEF Within
<1>1. ASSUME NEW w \in Q
      PROVE  /\ w \in Worker /\ ~RecordFailed(w)
             /\ \/ w \in P
                \/ /\ attempts' = attempts /\ req[w].ip = a /\ req[w].since <= T
                   /\ ~(FailedFrom(a, req[w].since) >= IPLimit)
  <2>1. /\ w \in Worker /\ req'[w].ip = a /\ req'[w].pc \in Failing \cup {"countAccount"}
        /\ req'[w].blind = FALSE /\ req'[w].since <= T
    BY <1>1 DEF FailingFrom
  <2>2. /\ req[w].blind = FALSE /\ req[w].since <= T /\ req[w].ip = a /\ ~RecordFailed(w)
    BY <2>1, FailingStep
  <2>3. \/ req[w].pc \in Failing \cup {"countAccount"}
        \/ attempts' = attempts /\ ~(FailedFrom(a, req[w].since) >= IPLimit)
    BY <2>1, <2>2, FailingStep
  <2> QED BY <2>1, <2>2, <2>3 DEF FailingFrom
<1>2. ASSUME NEW w \in Worker, attempts' = attempts, req[w].since <= T,
             ~(FailedFrom(a, req[w].since) >= IPLimit)
      PROVE  Within(N, Q, IPLimit)
  <2> PICK C : C = {k \in DOMAIN attempts : attempts[k].ip = a
                                             /\ attempts[k].at + IPWindow >= req[w].since}
    OBVIOUS
  <2>1. IsFiniteSet(C) /\ Cardinality(C) < IPLimit
    BY <1>2, <1>s, SomeAttempts DEF FailedFrom
  <2>2. N \subseteq C
    <3>1. req[w].since \in Nat /\ \A k \in DOMAIN attempts : attempts[k].at \in Nat
      BY <1>t DEF Request, Attempt
    <3>2. \A k \in DOMAIN attempts : attempts[k].at + IPWindow >= T => attempts[k].at + IPWindow >= req[w].since
      BY <1>2, <3>1, LockoutAssumption
    <3> QED BY <1>2, <3>2 DEF From, InWindow
  <2> QED BY <1>s, <2>1, <2>2, Joined
<1>3. CASE Q \subseteq P /\ attempts' = attempts
  <2>1. N = M
    BY <1>3 DEF From, InWindow
  <2> QED BY <1>s, <1>3, <2>1, FewerWithin
<1>4. ASSUME Q \subseteq P, NEW v \in Worker, RecordFailed(v)
      PROVE  Within(N, Q, IPLimit)
  <2> PICK k : k = Len(attempts) + 1
    OBVIOUS
  <2>0. k \notin DOMAIN attempts
    BY <1>t
  <2>1. /\ DOMAIN attempts' = DOMAIN attempts \cup {k} /\ k \notin DOMAIN attempts
        /\ \A j \in DOMAIN attempts : attempts'[j] = attempts[j]
        /\ attempts'[k] = [identifier |-> req[v].id, ip |-> req[v].ip, at |-> now,
                           blind |-> req[v].blind]
        /\ req[v].pc = "fail" /\ req' = [req EXCEPT ![v] = Idle]
    BY <2>0, <1>4, Recorded
  <2>2. N \subseteq M \cup {k}
    BY <2>1 DEF From, InWindow
  <2>3. CASE k \in N
    <3>1. req[v].ip = a /\ req[v].blind = FALSE /\ now <= T
      BY <2>1, <2>3 DEF From, InWindow
    <3>2. req[v].since <= T
      BY <1>t, <3>1 DEF SinceInv, Request
    <3>3. v \in P
      BY <2>1, <3>1, <3>2 DEF FailingFrom, Failing
    <3>4. Q \subseteq P \ {v}
      BY <1>1, <1>4
    <3> QED BY <1>s, <2>2, <3>3, <3>4, MovedWithin
  <2>4. CASE k \notin N
    <3>1. N \subseteq M
      BY <2>2, <2>4
    <3>2. M \subseteq N
      BY <2>1 DEF From, InWindow
    <3>3. N = M
      BY <3>1, <3>2
    <3> QED BY <1>s, <1>4, <3>3, FewerWithin
  <2> QED BY <2>3, <2>4
<1>5. CASE \E w \in Q : w \notin P
  BY <1>1, <1>2, <1>5
<1>6. CASE Q \subseteq P
  BY <1>3, <1>4, <1>6, AttemptStep
<1> QED BY <1>5, <1>6

LEMMA AlwaysLimits == Spec => []LimitInv
<1>1. Init => LimitInv
  <2> SUFFICES ASSUME Init
               PROVE  LimitInv
    OBVIOUS
  <2>1. attempts = <<>> /\ \A w \in Worker : req[w].pc = "idle" /\ req[w].since = 0
    BY DEF Init, Idle
  <2>2. /\ \A i \in Identifier, T \in Nat : Against(i, T) = {} /\ FailingAgainst(i, T) = {}
        /\ \A a \in IP, T \in Nat : From(a, T) = {} /\ FailingFrom(a, T) = {}
    BY <2>1 DEF Against, From, FailingAgainst, FailingFrom, Failing
  <2>3. Worker # {} => Cardinality(Worker) > 0
    BY LockoutAssumption, FS_EmptySet, FS_CardinalityType
  <2>4. \A limit \in Nat : Worker # {} => Within({}, {}, limit)
    BY <2>3, FS_EmptySet, SomeWorkers DEF Within
  <2>5. LockoutInv /\ SinceInv
    BY <2>1, LockoutInit DEF SinceInv, Init
  <2> QED BY <2>1, <2>2, <2>4, <2>5, LockoutAssumption DEF LimitInv
<1>2. LimitInv /\ [Next]_vars => LimitInv'
  <2> SUFFICES ASSUME LimitInv, [Next]_vars
               PROVE  LimitInv'
    OBVIOUS
  <2>1. LockoutInv /\ TypeOK /\ SinceInv /\ LockoutInv' /\ SinceInv'
    BY LockoutNext, SinceNext DEF LimitInv, LockoutInv
  <2>2. Worker = {} => attempts' = <<>>
    BY AttemptStep DEF LimitInv
  <2>3. ASSUME Worker # {}, NEW i \in Identifier, NEW T \in Nat
        PROVE  Within(Against(i, T), FailingAgainst(i, T), AccountLimit)'
    BY <2>1, <2>3, AgainstNext DEF LimitInv
  <2>4. ASSUME Worker # {}, NEW a \in IP, NEW T \in Nat
        PROVE  Within(From(a, T), FailingFrom(a, T), IPLimit)'
    BY <2>1, <2>4, FromNext DEF LimitInv
  <2> QED BY <2>1, <2>2, <2>3, <2>4 DEF LimitInv
<1> QED BY <1>1, <1>2, PTL DEF Spec

(* In no window are more failures recorded against an account, or from an   *)
(* address, than the limit and one for each other login at a time, those    *)
(* aside whose count failed.                                                *)
THEOREM FailuresStayLimited == Spec => []FailuresAreLimited
<1>1. ASSUME LimitInv, NEW k \in DOMAIN attempts
      PROVE  /\ Cardinality({j \in Counted(k, AccountWindow) : attempts[j].identifier = attempts[k].identifier})
                  < AccountLimit + Cardinality(Worker)
             /\ Cardinality({j \in Counted(k, IPWindow) : attempts[j].ip = attempts[k].ip})
                  < IPLimit + Cardinality(Worker)
  <2> PICK i : i = attempts[k].identifier
    OBVIOUS
  <2> PICK a : a = attempts[k].ip
    OBVIOUS
  <2> PICK T : T = attempts[k].at
    OBVIOUS
  <2>1. TypeOK /\ Worker # {} /\ \A j \in DOMAIN attempts : attempts[j] \in Attempt
    BY <1>1 DEF LimitInv, LockoutInv, TypeOK
  <2>2. i \in Identifier /\ a \in IP /\ T \in Nat
    BY <2>1 DEF Attempt
  <2>3. \A j \in DOMAIN attempts : ~attempts[j].blind <=> attempts[j].blind = FALSE
    BY <2>1 DEF Attempt
  <2>4. {j \in Counted(k, AccountWindow) : attempts[j].identifier = i} = Against(i, T)
    BY <2>3 DEF Counted, Against, InWindow
  <2>5. {j \in Counted(k, IPWindow) : attempts[j].ip = a} = From(a, T)
    BY <2>3 DEF Counted, From, InWindow
  <2>6. Within(Against(i, T), FailingAgainst(i, T), AccountLimit)
        /\ Within(From(a, T), FailingFrom(a, T), IPLimit)
    BY <1>1, <2>1, <2>2 DEF LimitInv
  <2>7. /\ Cardinality(Against(i, T)) \in Nat /\ Cardinality(FailingAgainst(i, T)) \in Nat
        /\ Cardinality(From(a, T)) \in Nat /\ Cardinality(FailingFrom(a, T)) \in Nat
    <3>1. Against(i, T) \subseteq DOMAIN attempts /\ FailingAgainst(i, T) \subseteq Worker
          /\ From(a, T) \subseteq DOMAIN attempts /\ FailingFrom(a, T) \subseteq Worker
      BY DEF Against, From, FailingAgainst, FailingFrom
    <3> QED BY <2>1, <3>1, SomeAttempts, SomeWorkers
  <2>8. Cardinality(Worker) \in Nat /\ AccountLimit \in Nat /\ IPLimit \in Nat
    BY SomeWorkers, LockoutAssumption
  <2>9. /\ Cardinality(Against(i, T)) < AccountLimit + Cardinality(Worker)
        /\ Cardinality(From(a, T)) < IPLimit + Cardinality(Worker)
    BY <2>6, <2>7, <2>8 DEF Within
  <2> QED BY <2>4, <2>5, <2>9
<1>2. LimitInv => FailuresAreLimited
  BY <1>1 DEF FailuresAreLimited
<1> QED BY <1>2, AlwaysLimits, PTL
=============================================================================
