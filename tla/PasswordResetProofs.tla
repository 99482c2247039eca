------------------------ MODULE PasswordResetProofs ------------------------
(***************************************************************************)
(* Theorems about PasswordReset, for any users, addresses, passwords,      *)
(* tokens, goroutines, limits and lives, with any number of failures.      *)
(*                                                                         *)
(* None of the properties is inductive, since each depends on what         *)
(* requests half way have read.  OwnedInv gives every unused token of a    *)
(* user a goroutine of its own; UsesInv and LimitsInv count what is done   *)
(* together with what is still under way; AloneInv and KeepsInv say what   *)
(* a request nobody overlapped has found and not lost since.               *)
(***************************************************************************)
EXTENDS PasswordReset, FiniteSetTheorems, SequenceTheorems, TLAPS

RequestPcs == {"countUser", "countIP", "sweep", "commit"}
ResetPcs == {"checkHistory", "readOld", "saveOld", "update", "verify", "mark"}

(* What the request r of a worker holds, given the rows. *)
Placed(r) ==
  /\ r.pc = "idle" <=> r.user = NoUser
  /\ r.pc \in RequestPcs => r.ip \in IP /\ r.start <= now
  /\ r.pc = "commit" => \A t \in r.swept : rows[t] \in Row /\ rows[t].user = r.user
  /\ r.pc \in ResetPcs =>
       /\ r.tok \in TokenId /\ rows[r.tok] \in Row /\ rows[r.tok].user = r.user
       /\ r.new \in Password
  /\ r.pc = "saveOld" => r.old \in Password

TypeInv == TypeOK /\ \A w \in Worker : Placed(req[w])

-----------------------------------------------------------------------------
(* Rows are never deleted, and only change in one direction. *)
RowsStay ==
  \A t \in TokenId : rows[t] \in Row =>
    /\ rows'[t] \in Row
    /\ rows'[t].user = rows[t].user /\ rows'[t].ip = rows[t].ip
    /\ rows'[t].created = rows[t].created /\ rows'[t].exp = rows[t].exp
    /\ rows'[t].blind = rows[t].blind
    /\ rows[t].used => rows'[t].used
    /\ rows[t].lost => rows'[t].lost

LEMMA RowFacts ==
  ASSUME TypeOK, NEW t \in TokenId
  PROVE  /\ rows[t] \in Row <=> rows[t] # NoRow
         /\ rows[t] \in Row <=> rows[t].user # NoUser
         /\ rows[t] \in Row <=> rows[t].user \in User
         /\ rows[t] \notin Row => rows[t].used /\ rows[t].uses = 0 /\ rows[t].ip = NoIP
BY ResetAssumption DEF TypeOK, Row, NoRow

LEMMA IdleFacts == Idle \in Request /\ Idle.pc = "idle" /\ Idle.user = NoUser
BY DEF Idle, Request

LEMMA TypeInit == Init => TypeInv
<1> SUFFICES ASSUME Init
             PROVE  TypeInv
  OBVIOUS
<1>1. history \in [User -> Seq(Password)] /\ \A u \in User : Len(history[u]) < HistoryKeep + Cardinality(Worker)
  <2>1. Cardinality(Worker) \in Nat
    BY ResetAssumption, FS_CardinalityType
  <2> QED BY <2>1, ResetAssumption DEF Init
<1>2. TypeOK
  BY <1>1, ResetAssumption, IdleFacts DEF Init, TypeOK
<1>3. \A w \in Worker : Placed(req[w])
  BY IdleFacts DEF Init, Placed, RequestPcs, ResetPcs
<1> QED BY <1>2, <1>3 DEF TypeInv

(* A request that the others' steps have only noted to overlap keeps what it *)
(* holds.                                                                    *)
Noted(r, s) == s = r \/ s = [r EXCEPT !.overlap = TRUE]

LEMMA PlacedKept ==
  ASSUME TypeInv, RowsStay, now' \in Nat, now <= now', NEW x \in Worker, Noted(req[x], req'[x])
  PROVE  Placed(req[x])' /\ req'[x] \in Request
<1>1. req[x] \in Request /\ Placed(req[x]) /\ now \in Nat
  BY DEF TypeInv, TypeOK
<1>2. /\ req'[x] \in Request
      /\ req'[x].pc = req[x].pc /\ req'[x].user = req[x].user /\ req'[x].ip = req[x].ip
      /\ req'[x].start = req[x].start /\ req'[x].swept = req[x].swept
      /\ req'[x].tok = req[x].tok /\ req'[x].new = req[x].new /\ req'[x].old = req[x].old
  BY <1>1 DEF Noted, Request
<1>3. req[x].pc \in RequestPcs => req[x].start <= now'
  <2>1. req[x].start \in Nat
    BY <1>1 DEF Request
  <2> QED BY <1>1, <2>1 DEF Placed
<1>4. \A t \in req[x].swept : t \in TokenId
  BY <1>1 DEF Request
<1> QED BY <1>1, <1>2, <1>3, <1>4 DEF Placed, RowsStay

(* A step of one worker. *)
LEMMA TypeStep ==
  ASSUME TypeInv, RowsStay, now' \in 0 .. MaxTime, now <= now',
         NEW w \in Worker, req' \in [Worker -> Request],
         \A x \in Worker \ {w} : Noted(req[x], req'[x]), Placed(req[w])',
         rows' \in [TokenId -> Row \cup {NoRow}],
         password' \in [User -> Password],
         history' \in [User -> Seq(Password)], \A u \in User : Len(history'[u]) < HistoryKeep + Cardinality(Worker),
         verified' \subseteq User, failures' \in 0 .. MaxFailures
  PROVE  TypeInv'
<1>1. \A x \in Worker : Placed(req[x])'
  BY PlacedKept, ResetAssumption
<1>2. TypeOK'
  BY DEF TypeOK
<1> QED BY <1>1, <1>2 DEF TypeInv

(* One that changes no more than its own request. *)
LEMMA TypeStepReq ==
  ASSUME TypeInv, NEW w \in Worker, NEW r \in Request, req' = [req EXCEPT ![w] = r],
         Placed(req[w])', UNCHANGED <<now, rows, password, history, verified>>,
         failures' \in 0 .. MaxFailures
  PROVE  TypeInv'
<1>1. now' \in 0 .. MaxTime /\ now <= now' /\ RowsStay
  BY ResetAssumption DEF TypeInv, TypeOK, RowsStay
<1>2. req' \in [Worker -> Request] /\ \A x \in Worker \ {w} : Noted(req[x], req'[x])
  BY DEF TypeInv, TypeOK, Noted
<1>3. /\ rows' \in [TokenId -> Row \cup {NoRow}] /\ password' \in [User -> Password]
      /\ history' \in [User -> Seq(Password)] /\ \A u \in User : Len(history'[u]) < HistoryKeep + Cardinality(Worker)
      /\ verified' \subseteq User
  BY DEF TypeInv, TypeOK
<1> QED BY <1>1, <1>2, <1>3, TypeStep

(* What a password that is added does to a history. *)
LEMMA RememberFacts ==
  ASSUME NEW p \in Password, NEW s \in Seq(Password), NEW n \in Nat
  PROVE  /\ Remember(p, s, n) \in Seq(Password)
         /\ Len(Remember(p, s, n)) \in 1 .. HistoryKeep + n
         /\ Len(Remember(p, s, n)) <= Len(s) + 1
         /\ Remember(p, s, n)[1] = p
         /\ \A k \in 2 .. Len(Remember(p, s, n)) : Remember(p, s, n)[k] = s[k - 1]
<1> DEFINE m == IF Len(s) < HistoryKeep + n THEN Len(s) + 1 ELSE HistoryKeep + n
           t == <<p>> \o s
<1>1. Len(s) \in Nat /\ m \in 1 .. HistoryKeep + n /\ m <= Len(s) + 1
  BY ResetAssumption
<1>2. /\ t \in Seq(Password) /\ Len(t) = Len(s) + 1 /\ t[1] = p
      /\ \A k \in 2 .. Len(s) + 1 : t[k] = s[k - 1]
  OBVIOUS
<1>3. \A i \in 1 .. m : t[i] \in Password
  BY <1>1, <1>2
<1>4. Remember(p, s, n) = SubSeq(t, 1, m)
  BY DEF Remember
<1> HIDE DEF m, t
<1>5. /\ SubSeq(t, 1, m) \in Seq(Password) /\ Len(SubSeq(t, 1, m)) = m
      /\ \A i \in 1 .. m : SubSeq(t, 1, m)[i] = t[i]
  <2>1. m \in Int /\ 1 \in Int /\ 1 <= m
    BY <1>1
  <2>2. /\ SubSeq(t, 1, m) \in Seq(Password)
        /\ Len(SubSeq(t, 1, m)) = IF 1 <= m THEN m - 1 + 1 ELSE 0
        /\ \A i \in 1 .. m - 1 + 1 : SubSeq(t, 1, m)[i] = t[1 + i - 1]
    BY <1>3, <2>1, SubSeqProperties
  <2>3. m - 1 + 1 = m /\ \A i \in 1 .. m : 1 + i - 1 = i
    BY <2>1
  <2> QED BY <2>1, <2>2, <2>3
<1> QED BY <1>1, <1>2, <1>4, <1>5

(* What an insert of a worker may leave. *)
LEMMA HiddenFacts ==
  ASSUME NEW w \in Worker, NEW n \in Hidden(w)
  PROVE  n \in Nat /\ HistoryKeep + n < HistoryKeep + Cardinality(Worker)
<1>1. Cardinality(Worker) \in Nat /\ Cardinality(Worker) # 0
  BY ResetAssumption, FS_CardinalityType, FS_EmptySet
<1> QED BY <1>1, ResetAssumption DEF Hidden

(* The row a transaction adds, and those it invalidates. *)
LEMMA CreateFacts ==
  ASSUME TypeInv, NEW w \in Worker, CreateToken(w)
  PROVE  /\ req[w].pc = "commit" /\ req[w].user \in User /\ req[w].ip \in IP
         /\ \E t \in TokenId :
              /\ rows[t] = NoRow /\ rows[t] \notin Row /\ t \notin req[w].swept
              /\ rows'[t] \in Row
              /\ rows'[t].user = req[w].user /\ rows'[t].ip = req[w].ip
              /\ rows'[t].created = req[w].start /\ rows'[t].blind = req[w].failed
              /\ ~rows'[t].used /\ ~rows'[t].lost /\ rows'[t].uses = 0
              /\ \A x \in TokenId \ {t} :
                   /\ x \in req[w].swept => /\ rows[x] \in Row /\ rows[x].user = req[w].user
                                             /\ rows'[x] = [rows[x] EXCEPT !.used = TRUE]
                   /\ x \notin req[w].swept => rows'[x] = rows[x]
<1>1. req[w].pc = "commit" /\ req[w] \in Request /\ Placed(req[w]) /\ req[w].user \in User
      /\ req[w].ip \in IP /\ req[w].swept \subseteq TokenId
  BY DEF CreateToken, TypeInv, TypeOK, Placed, RequestPcs, Request
<1>2. PICK t \in TokenId :
        /\ rows[t] = NoRow
        /\ rows' = [x \in TokenId |->
             IF x = t THEN [user |-> req[w].user, ip |-> req[w].ip, created |-> req[w].start,
                            exp |-> req[w].exp, used |-> FALSE, uses |-> 0, lost |-> FALSE,
                            blind |-> req[w].failed]
             ELSE IF x \in req[w].swept THEN [rows[x] EXCEPT !.used = TRUE]
             ELSE rows[x]]
  BY DEF CreateToken
<1>3. rows'[t] = [user |-> req[w].user, ip |-> req[w].ip, created |-> req[w].start,
                  exp |-> req[w].exp, used |-> FALSE, uses |-> 0, lost |-> FALSE,
                  blind |-> req[w].failed]
  BY <1>2
<1>4. rows'[t] \in Row
  BY <1>1, <1>3 DEF Row, Request
<1>5. rows[t] \notin Row
  BY <1>2, RowFacts DEF TypeInv
<1>6. t \notin req[w].swept
  BY <1>1, <1>5 DEF Placed
<1>7. ASSUME NEW x \in TokenId \ {t}
      PROVE  /\ x \in req[w].swept => /\ rows[x] \in Row /\ rows[x].user = req[w].user
                                       /\ rows'[x] = [rows[x] EXCEPT !.used = TRUE]
             /\ x \notin req[w].swept => rows'[x] = rows[x]
  BY <1>1, <1>2 DEF Placed
<1> QED BY <1>1, <1>2, <1>3, <1>4, <1>5, <1>6, <1>7

(* Rows of one token change. *)
LEMMA OneRow ==
  ASSUME TypeInv, NEW t \in TokenId, rows[t] \in Row, NEW r \in Row, rows' = [rows EXCEPT ![t] = r],
         r.user = rows[t].user, r.ip = rows[t].ip, r.created = rows[t].created,
         r.exp = rows[t].exp, r.blind = rows[t].blind, rows[t].used => r.used,
         rows[t].lost => r.lost
  PROVE  RowsStay /\ rows' \in [TokenId -> Row \cup {NoRow}]
BY DEF TypeInv, TypeOK, RowsStay

(* No token is created. *)
NoneCreated == \A t \in TokenId : rows'[t] \in Row => rows[t] \in Row

LEMMA RowStep ==
  ASSUME TypeInv, NEW w \in Worker,
         CreateToken(w) \/ UpdatePasswordHash(w) \/ MarkUsed(w) \/ Fail(w)
  PROVE  /\ RowsStay /\ rows' \in [TokenId -> Row \cup {NoRow}]
         /\ CreateToken(w) \/ NoneCreated
<1>s. /\ req[w] \in Request /\ Placed(req[w]) /\ rows \in [TokenId -> Row \cup {NoRow}]
      /\ rows' = rows => RowsStay /\ NoneCreated
  BY DEF TypeInv, TypeOK, RowsStay, NoneCreated
<1>1. CASE CreateToken(w)
  <2>1. PICK t \in TokenId :
          /\ rows[t] \notin Row /\ rows'[t] \in Row
          /\ \A x \in TokenId \ {t} :
               /\ x \in req[w].swept => rows[x] \in Row /\ rows'[x] = [rows[x] EXCEPT !.used = TRUE]
               /\ x \notin req[w].swept => rows'[x] = rows[x]
    BY <1>1, CreateFacts
  <2>2. ASSUME NEW x \in TokenId, rows[x] \in Row
        PROVE  /\ rows'[x] \in Row
               /\ rows'[x].user = rows[x].user /\ rows'[x].ip = rows[x].ip
               /\ rows'[x].created = rows[x].created /\ rows'[x].exp = rows[x].exp
               /\ rows'[x].blind = rows[x].blind
               /\ rows[x].used => rows'[x].used
               /\ rows[x].lost => rows'[x].lost
    <3>1. rows'[x] = rows[x] \/ rows'[x] = [rows[x] EXCEPT !.used = TRUE]
      BY <2>1, <2>2
    <3> QED BY <2>2, <3>1 DEF Row
  <2>3. \A x \in TokenId : rows'[x] \in Row \cup {NoRow}
    BY <1>s, <2>1, <2>2
  <2>4. DOMAIN rows' = TokenId /\ rows' = [x \in TokenId |-> rows'[x]]
    BY <1>1 DEF CreateToken
  <2> QED BY <1>1, <2>2, <2>3, <2>4 DEF RowsStay
<1>2. ASSUME req[w].pc \in ResetPcs, NEW r, r \in Row, rows' = [rows EXCEPT ![req[w].tok] = r],
             r.user = rows[req[w].tok].user, r.ip = rows[req[w].tok].ip,
             r.created = rows[req[w].tok].created, r.exp = rows[req[w].tok].exp,
             r.blind = rows[req[w].tok].blind, rows[req[w].tok].used => r.used,
             rows[req[w].tok].lost => r.lost
      PROVE  RowsStay /\ rows' \in [TokenId -> Row \cup {NoRow}] /\ NoneCreated
  <2>1. req[w].tok \in TokenId /\ rows[req[w].tok] \in Row
    BY <1>s, <1>2 DEF Placed
  <2>2. NoneCreated
    BY <1>2, <2>1 DEF NoneCreated
  <2> QED BY <1>2, <2>1, <2>2, OneRow
<1>3. CASE UpdatePasswordHash(w)
  <2>1. req[w].pc \in ResetPcs /\ rows[req[w].tok] \in Row
    BY <1>3, <1>s DEF UpdatePasswordHash, ResetPcs, Placed
  <2>2. PICK r : r = [rows[req[w].tok] EXCEPT !.uses = @ + 1]
    OBVIOUS
  <2>3. rows' = rows \/ rows' = [rows EXCEPT ![req[w].tok] = r]
    BY <1>3, <2>2 DEF UpdatePasswordHash
  <2> QED BY <1>2, <1>s, <2>1, <2>2, <2>3 DEF Row
<1>4. CASE MarkUsed(w)
  <2>1. req[w].pc \in ResetPcs /\ rows[req[w].tok] \in Row
    BY <1>4, <1>s DEF MarkUsed, ResetPcs, Placed
  <2>2. PICK r : r = [rows[req[w].tok] EXCEPT !.used = TRUE]
    OBVIOUS
  <2>3. rows' = [rows EXCEPT ![req[w].tok] = r]
    BY <1>4, <2>2 DEF MarkUsed
  <2> QED BY <1>2, <2>1, <2>2, <2>3 DEF Row
<1>5. CASE Fail(w)
  <2>1. CASE req[w].pc = "mark"
    <3>1. req[w].pc \in ResetPcs /\ rows[req[w].tok] \in Row
      BY <2>1, <1>s DEF ResetPcs, Placed
    <3>2. PICK r : r = [rows[req[w].tok] EXCEPT !.lost = TRUE]
      OBVIOUS
    <3>3. rows' = [rows EXCEPT ![req[w].tok] = r]
      BY <1>5, <2>1, <3>2 DEF Fail
    <3> QED BY <1>2, <3>1, <3>2, <3>3 DEF Row
  <2>2. CASE req[w].pc # "mark"
    BY <1>5, <1>s, <2>2 DEF Fail
  <2> QED BY <2>1, <2>2
<1> QED BY <1>1, <1>3, <1>4, <1>5

(* A request begins: its worker was idle, and it notes whom it overlaps. *)
LEMMA StartFacts ==
  ASSUME TypeInv, NEW w \in Worker, NEW r \in Request, r.user \in User, ~r.overlap, Start(w, r)
  PROVE  /\ req[w].pc = "idle" /\ req[w].user = NoUser
         /\ req' \in [Worker -> Request]
         /\ \A x \in Worker \ {w} : /\ Noted(req[x], req'[x])
                                    /\ req[x].user = r.user => req'[x].overlap /\ req'[w].overlap
         /\ req'[w] = r \/ req'[w] = [r EXCEPT !.overlap = TRUE]
<1> DEFINE beside == {x \in Worker : req[x].user = r.user}
<1>1. /\ req[w].pc = "idle"
      /\ req' = [x \in Worker |-> IF x = w THEN [r EXCEPT !.overlap = beside # {}]
                                 ELSE IF x \in beside THEN [req[x] EXCEPT !.overlap = TRUE]
                                 ELSE req[x]]
  BY DEF Start
<1>2. req[w].user = NoUser
  BY <1>1 DEF TypeInv, Placed
<1>3. req'[w] = IF beside # {} THEN [r EXCEPT !.overlap = TRUE] ELSE r
  BY <1>1 DEF Request
<1>4. ASSUME NEW x \in Worker \ {w}
      PROVE  /\ Noted(req[x], req'[x]) /\ req'[x] \in Request
             /\ req[x].user = r.user => req'[x].overlap /\ req'[w].overlap
  <2>1. req[x] \in Request
    BY DEF TypeInv, TypeOK
  <2>2. CASE req[x].user = r.user
    <3>1. x \in beside
      BY <2>2
    <3>2. req'[x] = [req[x] EXCEPT !.overlap = TRUE] /\ req'[w] = [r EXCEPT !.overlap = TRUE]
      BY <1>1, <1>3, <3>1
    <3> QED BY <2>1, <3>2 DEF Noted, Request
  <2>3. CASE req[x].user # r.user
    BY <1>1, <2>1, <2>3 DEF Noted
  <2> QED BY <2>2, <2>3
<1>5. req'[w] \in Request
  BY <1>3 DEF Request
<1>6. req' \in [Worker -> Request]
  BY <1>1, <1>4, <1>5
<1> QED BY <1>1, <1>2, <1>3, <1>4, <1>6

(* Worker w goes on with the request r. *)
LEMMA Moved ==
  ASSUME TypeInv, NEW w \in Worker, NEW r, req' = [req EXCEPT ![w] = r]
  PROVE  /\ req'[w] = r /\ \A x \in Worker \ {w} : req'[x] = req[x] /\ Noted(req[x], req'[x])
         /\ req[w] \in Request /\ Placed(req[w])
         /\ r \in Request => req' \in [Worker -> Request]
BY DEF TypeInv, TypeOK, Noted

(* What its new request must hold. *)
LEMMA PlacedMoved ==
  ASSUME TypeInv, NEW w \in Worker, NEW r \in Request, req' = [req EXCEPT ![w] = r],
         r.pc = "idle" <=> r.user = NoUser,
         r.pc \in RequestPcs => r.ip \in IP /\ r.start <= now',
         r.pc = "commit" => \A t \in r.swept : rows'[t] \in Row /\ rows'[t].user = r.user,
         r.pc \in ResetPcs => /\ r.tok \in TokenId /\ rows'[r.tok] \in Row
                              /\ rows'[r.tok].user = r.user /\ r.new \in Password,
         r.pc = "saveOld" => r.old \in Password
  PROVE  Placed(req[w])'
<1>1. req'[w] = r
  BY Moved
<1> QED BY <1>1 DEF Placed

LEMMA TypeDone ==
  ASSUME TypeInv, NEW w \in Worker, Done(w), RowsStay, UNCHANGED now,
         rows' \in [TokenId -> Row \cup {NoRow}],
         UNCHANGED <<password, history, verified>>, failures' \in 0 .. MaxFailures
  PROVE  TypeInv'
<1>1. req' = [req EXCEPT ![w] = Idle]
  BY DEF Done
<1>2. req'[w] = Idle /\ \A x \in Worker \ {w} : Noted(req[x], req'[x])
  BY <1>1, Moved
<1>3. req' \in [Worker -> Request] /\ Placed(req[w])'
  <2>1. Placed(Idle)'
    BY IdleFacts DEF Placed, RequestPcs, ResetPcs
  <2> QED BY <1>1, <1>2, <2>1, Moved, IdleFacts
<1>4. /\ now' \in 0 .. MaxTime /\ now <= now' /\ password' \in [User -> Password]
      /\ history' \in [User -> Seq(Password)] /\ \A u \in User : Len(history'[u]) < HistoryKeep + Cardinality(Worker)
      /\ verified' \subseteq User
  BY ResetAssumption DEF TypeInv, TypeOK
<1> QED BY <1>2, <1>3, <1>4, TypeStep

LEMMA TypeSame ==
  ASSUME TypeInv
  PROVE  /\ now \in 0 .. MaxTime /\ now \in Nat /\ now <= now
         /\ rows \in [TokenId -> Row \cup {NoRow}] /\ password \in [User -> Password]
         /\ history \in [User -> Seq(Password)] /\ \A u \in User : Len(history[u]) < HistoryKeep + Cardinality(Worker)
         /\ verified \subseteq User /\ failures \in 0 .. MaxFailures
         /\ rows' = rows => RowsStay
BY ResetAssumption DEF TypeInv, TypeOK, RowsStay

LEMMA TypeNext == TypeInv /\ [Next]_vars => TypeInv'
<1> SUFFICES ASSUME TypeInv, [Next]_vars
             PROVE  TypeInv'
  OBVIOUS
<1>s. \A w \in Worker : req[w] \in Request /\ Placed(req[w])
  BY DEF TypeInv, TypeOK
<1>1. ASSUME NEW w \in Worker, Done(w), UNCHANGED <<now, rows, password, history, verified>>,
             failures' \in 0 .. MaxFailures
      PROVE  TypeInv'
  BY <1>1, TypeSame, TypeDone
<1>2. ASSUME NEW w \in Worker, NEW u \in User, NEW a \in IP, RequestReset(w, u, a)
      PROVE  TypeInv'
  <2> DEFINE r == [Idle EXCEPT !.pc = "countUser", !.user = u, !.ip = a, !.start = now]
  <2>1. r \in Request /\ r.user = u /\ ~r.overlap /\ r.pc = "countUser" /\ r.ip = a /\ r.start = now
    BY TypeSame DEF Idle, Request
  <2>2. Start(w, r) /\ UNCHANGED <<now, rows, password, history, verified, failures>>
    BY <1>2 DEF RequestReset
  <2> HIDE DEF r
  <2>3. /\ req' \in [Worker -> Request] /\ \A x \in Worker \ {w} : Noted(req[x], req'[x])
        /\ req'[w] = r \/ req'[w] = [r EXCEPT !.overlap = TRUE]
    BY <2>1, <2>2, StartFacts
  <2>4. Placed(req[w])'
    <3>1. /\ req'[w].pc = "countUser" /\ req'[w].user = u /\ req'[w].ip = a /\ req'[w].start = now
      BY <2>1, <2>3 DEF Request
    <3>2. now' = now /\ now <= now /\ u # NoUser
      BY <2>2, TypeSame, ResetAssumption
    <3> QED BY <3>1, <3>2 DEF Placed, ResetPcs
  <2> QED BY <2>2, <2>3, <2>4, TypeSame, TypeStep
<1>3. ASSUME NEW w \in Worker, NEW t \in TokenId, NEW p \in Password, ResetPassword(w, t, p)
      PROVE  TypeInv'
  <2> DEFINE r == [Idle EXCEPT !.pc = "checkHistory", !.user = rows[t].user, !.tok = t, !.new = p]
  <2>1. rows[t] \in Row /\ rows[t].user \in User
    BY <1>3, RowFacts DEF ResetPassword, TypeInv
  <2>2. /\ r \in Request /\ r.user = rows[t].user /\ ~r.overlap /\ r.pc = "checkHistory"
        /\ r.tok = t /\ r.new = p
    BY <2>1 DEF Idle, Request
  <2>3. Start(w, r) /\ UNCHANGED <<now, rows, password, history, verified, failures>>
    BY <1>3 DEF ResetPassword
  <2> HIDE DEF r
  <2>4. /\ req' \in [Worker -> Request] /\ \A x \in Worker \ {w} : Noted(req[x], req'[x])
        /\ req'[w] = r \/ req'[w] = [r EXCEPT !.overlap = TRUE]
    BY <2>1, <2>2, <2>3, StartFacts
  <2>5. Placed(req[w])'
    <3>1. /\ req'[w].pc = "checkHistory" /\ req'[w].user = rows[t].user /\ req'[w].tok = t
          /\ req'[w].new = p
      BY <2>2, <2>4 DEF Request
    <3>2. rows[t].user # NoUser /\ rows' = rows
      BY <2>1, <2>3, ResetAssumption
    <3> QED BY <2>1, <3>1, <3>2 DEF Placed, RequestPcs
  <2> QED BY <2>3, <2>4, <2>5, TypeSame, TypeStep
<1>4. ASSUME NEW w \in Worker, NEW pc, GoOn(w, pc), UNCHANGED <<now, rows, password, history, verified>>,
             failures' \in 0 .. MaxFailures,
             \/ req[w].pc = "countUser" /\ pc = "countIP"
             \/ req[w].pc = "checkHistory" /\ pc = "readOld"
      PROVE  TypeInv'
  <2> PICK r : r = [req[w] EXCEPT !.pc = pc]
    OBVIOUS
  <2>1. /\ r \in Request /\ r.pc = pc /\ r.user = req[w].user /\ r.ip = req[w].ip
        /\ r.start = req[w].start /\ r.tok = req[w].tok /\ r.new = req[w].new
    BY <1>4, <1>s DEF Request
  <2>2. req' = [req EXCEPT ![w] = r]
    BY <1>4 DEF GoOn
  <2>3. Placed(req[w])'
    <3>1. Placed(req[w]) /\ rows' = rows /\ now' = now
      BY <1>4, <1>s
    <3>2. /\ r.pc # "commit" /\ r.pc # "saveOld" /\ r.pc # "idle" /\ req[w].pc # "idle"
          /\ r.pc \in RequestPcs => req[w].pc \in RequestPcs
          /\ r.pc \in ResetPcs => req[w].pc \in ResetPcs
      BY <1>4, <2>1 DEF RequestPcs, ResetPcs
    <3> QED BY <2>1, <2>2, <3>1, <3>2, PlacedMoved DEF Placed
  <2> QED BY <1>4, <2>1, <2>2, <2>3, TypeStepReq
<1>5. ASSUME NEW w \in Worker, CountUser(w) \/ CheckHistory(w)
      PROVE  TypeInv'
  <2>1. UNCHANGED <<now, rows, password, history, verified>> /\ failures' \in 0 .. MaxFailures
    BY <1>5, TypeSame DEF CountUser, CheckHistory
  <2>2. CASE Done(w)
    BY <1>1, <2>1, <2>2
  <2>3. CASE ~Done(w)
    <3>1. \/ req[w].pc = "countUser" /\ GoOn(w, "countIP")
          \/ req[w].pc = "checkHistory" /\ GoOn(w, "readOld")
      BY <1>5, <2>3 DEF CountUser, CheckHistory
    <3> QED BY <1>4, <2>1, <3>1
  <2> QED BY <2>2, <2>3

<1>6. ASSUME NEW w \in Worker, req[w].pc = "countIP", NEW failed \in BOOLEAN,
             req' = [req EXCEPT ![w].pc = "sweep", ![w].exp = now + TTL, ![w].failed = failed],
             UNCHANGED <<now, rows, password, history, verified>>, failures' \in 0 .. MaxFailures
      PROVE  TypeInv'
  <2> PICK r : r = [req[w] EXCEPT !.pc = "sweep", !.exp = now + TTL, !.failed = failed]
    OBVIOUS
  <2>1. /\ r \in Request /\ r.pc = "sweep" /\ r.user = req[w].user /\ r.ip = req[w].ip
        /\ r.start = req[w].start
    <3>1. now + TTL \in Nat
      BY TypeSame, ResetAssumption
    <3> QED BY <1>6, <1>s, <3>1 DEF Request
  <2>2. req' = [req EXCEPT ![w] = r]
    BY <1>6
  <2>3. Placed(req[w])'
    <3>1. Placed(req[w]) /\ rows' = rows /\ now' = now
      BY <1>6, <1>s
    <3>2. r.pc \notin ResetPcs /\ req[w].pc \in RequestPcs
      BY <1>6, <2>1 DEF RequestPcs, ResetPcs
    <3> QED BY <1>6, <2>1, <2>2, <3>1, <3>2, PlacedMoved DEF Placed
  <2> QED BY <1>6, <2>1, <2>2, <2>3, TypeStepReq
<1>7. ASSUME NEW w \in Worker, CountIP(w)
      PROVE  TypeInv'
  <2>1. UNCHANGED <<now, rows, password, history, verified>> /\ failures' \in 0 .. MaxFailures
        /\ req[w].pc = "countIP"
    BY <1>7, TypeSame DEF CountIP
  <2>2. CASE Done(w)
    BY <1>1, <2>1, <2>2
  <2>3. CASE ~Done(w)
    <3>1. req' = [req EXCEPT ![w].pc = "sweep", ![w].exp = now + TTL]
      BY <1>7, <2>3 DEF CountIP
    <3>2. req[w] \in Request /\ req[w].failed \in BOOLEAN
      BY <1>s DEF Request
    <3>3. req' = [req EXCEPT ![w].pc = "sweep", ![w].exp = now + TTL, ![w].failed = req[w].failed]
      BY <3>1, <3>2 DEF TypeInv, TypeOK, Request
    <3> QED BY <1>6, <2>1, <3>2, <3>3
  <2> QED BY <2>2, <2>3
<1>8. ASSUME NEW w \in Worker, Sweep(w)
      PROVE  TypeInv'
  <2> PICK r : r = [req[w] EXCEPT !.pc = "commit", !.start = now, !.swept = Unused(req[w].user)]
    OBVIOUS
  <2>1. req[w].pc = "sweep" /\ req[w].user \in User /\ req[w].ip \in IP
        /\ UNCHANGED <<now, rows, password, history, verified>> /\ failures' \in 0 .. MaxFailures
    BY <1>8, <1>s, TypeSame DEF Sweep, Placed, Request, RequestPcs
  <2>2. /\ Unused(req[w].user) \subseteq TokenId
        /\ \A t \in Unused(req[w].user) : rows[t] \in Row /\ rows[t].user = req[w].user
    BY <2>1, RowFacts DEF TypeInv, Unused
  <2>3. /\ r \in Request /\ r.pc = "commit" /\ r.user = req[w].user /\ r.ip = req[w].ip
        /\ r.start = now /\ r.swept = Unused(req[w].user)
    BY <1>s, <2>2, TypeSame DEF Request
  <2>4. req' = [req EXCEPT ![w] = r]
    BY <1>8 DEF Sweep
  <2>5. Placed(req[w])'
    <3>1. /\ r.pc \notin ResetPcs /\ r.pc # "idle" /\ r.pc # "saveOld" /\ r.user # NoUser
          /\ r.start <= now' /\ r.ip \in IP
          /\ \A t \in r.swept : rows'[t] \in Row /\ rows'[t].user = r.user
      BY <2>1, <2>2, <2>3, TypeSame, ResetAssumption DEF ResetPcs
    <3> QED BY <2>3, <2>4, <3>1, PlacedMoved
  <2> QED BY <2>1, <2>3, <2>4, <2>5, TypeStepReq
<1>9. ASSUME NEW w \in Worker, CreateToken(w)
      PROVE  TypeInv'
  BY <1>9, RowStep, TypeSame, TypeDone DEF CreateToken
<1>10. ASSUME NEW w \in Worker, ReadOld(w)
       PROVE  TypeInv'
  <2> PICK r : r = [req[w] EXCEPT !.pc = "saveOld", !.old = password[req[w].user]]
    OBVIOUS
  <2>1. req[w].pc = "readOld" /\ req[w].user \in User /\ UNCHANGED <<now, rows, password, history, verified>>
        /\ failures' \in 0 .. MaxFailures /\ password[req[w].user] \in Password
    BY <1>10, <1>s, TypeSame DEF ReadOld, Placed, Request
  <2>2. /\ r \in Request /\ r.pc = "saveOld" /\ r.user = req[w].user /\ r.tok = req[w].tok
        /\ r.new = req[w].new /\ r.old \in Password
    BY <1>s, <2>1 DEF Request
  <2>3. req' = [req EXCEPT ![w] = r]
    BY <1>10 DEF ReadOld
  <2>4. Placed(req[w])'
    <3>1. Placed(req[w]) /\ r.user # NoUser /\ req[w].pc \in ResetPcs /\ r.pc \notin RequestPcs
      BY <1>s, <2>1, <2>2, ResetAssumption DEF ResetPcs, RequestPcs
    <3> QED BY <2>1, <2>2, <2>3, <3>1, PlacedMoved DEF Placed
  <2> QED BY <2>1, <2>2, <2>3, <2>4, TypeStepReq
(* The later statements of a reset. *)
<1>11. ASSUME NEW w \in Worker, NEW pc \in {"update", "verify", "mark"}, NEW failed \in BOOLEAN,
              req[w].pc \in ResetPcs, req' = [req EXCEPT ![w].pc = pc, ![w].failed = failed],
              RowsStay, UNCHANGED now, rows' \in [TokenId -> Row \cup {NoRow}],
              password' \in [User -> Password], history' \in [User -> Seq(Password)],
              \A u \in User : Len(history'[u]) < HistoryKeep + Cardinality(Worker),
              verified' \subseteq User, failures' \in 0 .. MaxFailures
       PROVE  TypeInv'
  <2> PICK r : r = [req[w] EXCEPT !.pc = pc, !.failed = failed]
    OBVIOUS
  <2>1. r \in Request /\ r.pc = pc /\ r.user = req[w].user /\ r.tok = req[w].tok /\ r.new = req[w].new
    BY <1>11, <1>s DEF Request
  <2>2. req' = [req EXCEPT ![w] = r]
    BY <1>11
  <2>3. /\ req[w].tok \in TokenId /\ rows[req[w].tok] \in Row /\ rows[req[w].tok].user = req[w].user
        /\ req[w].new \in Password /\ req[w].user # NoUser
    BY <1>11, <1>s DEF Placed, ResetPcs
  <2>4. rows'[r.tok] \in Row /\ rows'[r.tok].user = r.user
    BY <1>11, <2>1, <2>3 DEF RowsStay
  <2>5. Placed(req[w])' /\ req' \in [Worker -> Request] /\ \A x \in Worker \ {w} : Noted(req[x], req'[x])
    <3>1. r.pc \notin RequestPcs /\ r.pc # "idle" /\ r.pc # "saveOld" /\ r.pc # "commit"
      BY <1>11, <2>1 DEF RequestPcs
    <3>2. Placed(req[w])'
      BY <2>1, <2>2, <2>3, <2>4, <3>1, PlacedMoved
    <3> QED BY <2>1, <2>2, <3>2, Moved
  <2>6. now' \in 0 .. MaxTime /\ now <= now'
    BY <1>11, TypeSame
  <2> QED BY <1>11, <2>5, <2>6, TypeStep
<1>12. ASSUME NEW w \in Worker, NEW pc, GoOn(w, pc)
       PROVE  req[w].failed \in BOOLEAN /\ req' = [req EXCEPT ![w].pc = pc, ![w].failed = req[w].failed]
  BY <1>12, <1>s DEF GoOn, Request, TypeInv, TypeOK
<1>13. ASSUME NEW w \in Worker, SaveOld(w)
       PROVE  TypeInv'
  <2>1. /\ req[w].pc = "saveOld" /\ req[w].user \in User /\ req[w].old \in Password
        /\ GoOn(w, "update")
        /\ \E n \in Hidden(w) : history' = [history EXCEPT ![req[w].user] = Remember(req[w].old, @, n)]
        /\ UNCHANGED <<now, rows, password, verified, failures>>
    BY <1>13, <1>s DEF SaveOld, Placed, Request
  <2>2. /\ history' \in [User -> Seq(Password)]
        /\ \A u \in User : Len(history'[u]) < HistoryKeep + Cardinality(Worker)
    <3> PICK n \in Hidden(w) : history' = [history EXCEPT ![req[w].user] = Remember(req[w].old, @, n)]
      BY <2>1
    <3> DEFINE h == Remember(req[w].old, history[req[w].user], n)
    <3>1. h \in Seq(Password) /\ Len(h) < HistoryKeep + Cardinality(Worker)
      <4>1. history[req[w].user] \in Seq(Password)
        BY <2>1, TypeSame
      <4>2. n \in Nat /\ HistoryKeep + n < HistoryKeep + Cardinality(Worker)
        BY HiddenFacts
      <4>3. h \in Seq(Password) /\ Len(h) \in 1 .. HistoryKeep + n
        BY <2>1, <4>1, <4>2, RememberFacts
      <4>4. HistoryKeep \in Nat /\ Cardinality(Worker) \in Nat
        BY ResetAssumption, FS_CardinalityType
      <4> HIDE DEF h
      <4> QED BY <4>2, <4>3, <4>4
    <3>2. history' = [history EXCEPT ![req[w].user] = h]
      OBVIOUS
    <3> HIDE DEF h
    <3> QED BY <2>1, <3>1, <3>2, TypeSame
  <2> QED BY <1>11, <1>12, <2>1, <2>2, TypeSame DEF ResetPcs
<1>14. ASSUME NEW w \in Worker, UpdatePasswordHash(w)
       PROVE  TypeInv'
  <2>1. /\ req[w].pc = "update" /\ req[w].user \in User /\ req[w].new \in Password
        /\ req[w].tok \in TokenId /\ rows[req[w].tok] \in Row
        /\ GoOn(w, "verify") /\ password' = [password EXCEPT ![req[w].user] = req[w].new]
        /\ UNCHANGED <<now, history, verified, failures>>
    BY <1>14, <1>s DEF UpdatePasswordHash, Placed, Request, ResetPcs
  <2>3. RowsStay /\ rows' \in [TokenId -> Row \cup {NoRow}]
    BY <1>14, RowStep
  <2>4. password' \in [User -> Password]
    BY <2>1, TypeSame
  <2> QED BY <1>11, <1>12, <2>1, <2>3, <2>4, TypeSame DEF ResetPcs
<1>15. ASSUME NEW w \in Worker, SetVerified(w)
       PROVE  TypeInv'
  <2>1. /\ req[w].pc = "verify" /\ req[w].user \in User /\ verified' = verified \cup {req[w].user}
        /\ GoOn(w, "mark") /\ UNCHANGED <<now, rows, password, history, failures>>
    BY <1>15, <1>s DEF SetVerified, Placed, Request, ResetPcs
  <2> QED BY <1>11, <1>12, <2>1, TypeSame DEF ResetPcs
<1>16. ASSUME NEW w \in Worker, MarkUsed(w)
       PROVE  TypeInv'
  BY <1>16, RowStep, TypeSame, TypeDone DEF MarkUsed

<1>17. ASSUME NEW w \in Worker, Fail(w)
       PROVE  TypeInv'
  <2>1. /\ failures' \in 0 .. MaxFailures /\ req[w].pc # "idle" /\ req[w] \in Request
        /\ UNCHANGED <<now, password, history, verified>>
    BY <1>17, <1>s, TypeSame, ResetAssumption DEF Fail
  <2>2. rows' = IF req[w].pc = "mark" THEN [rows EXCEPT ![req[w].tok].lost = TRUE] ELSE rows
    BY <1>17 DEF Fail
  <2>3. RowsStay /\ rows' \in [TokenId -> Row \cup {NoRow}]
    BY <1>17, RowStep
  <2>4. CASE Done(w)
    BY <2>1, <2>3, <2>4, TypeDone
  <2>5. CASE ~Done(w)
    <3>1. /\ AfterFailure[req[w].pc] # "idle"
          /\ req' = [req EXCEPT ![w].pc = AfterFailure[@], ![w].failed = TRUE,
                                ![w].exp = IF req[w].pc = "countIP" THEN now + TTL ELSE @]
      BY <1>17, <2>5 DEF Fail
    <3>2. req[w].pc \in {"countUser", "countIP", "checkHistory", "readOld", "saveOld", "verify"}
      BY <2>1, <3>1 DEF AfterFailure, Request
    <3>3. rows' = rows
      BY <2>2, <3>2
    <3>4. PICK pc : pc = AfterFailure[req[w].pc]
      OBVIOUS
    <3>5. PICK exp : exp = IF req[w].pc = "countIP" THEN now + TTL ELSE req[w].exp
      OBVIOUS
    <3>6. PICK r : r = [req[w] EXCEPT !.pc = pc, !.failed = TRUE, !.exp = exp]
      OBVIOUS
    <3>7. req' = [req EXCEPT ![w] = r]
      BY <3>1, <3>4, <3>5, <3>6
    <3>8. /\ req[w].pc = "countUser" => pc = "countIP"
          /\ req[w].pc = "countIP" => pc = "sweep"
          /\ req[w].pc = "checkHistory" => pc = "readOld"
          /\ req[w].pc \in {"readOld", "saveOld"} => pc = "update"
          /\ req[w].pc = "verify" => pc = "mark"
      BY <3>4 DEF AfterFailure
    <3>9. exp \in Nat
      BY <2>1, <3>5, TypeSame, ResetAssumption DEF Request
    <3>10. /\ r \in Request /\ r.pc = pc /\ r.user = req[w].user /\ r.ip = req[w].ip
           /\ r.start = req[w].start /\ r.tok = req[w].tok /\ r.new = req[w].new
      BY <2>1, <3>2, <3>6, <3>8, <3>9 DEF Request
    <3>11. Placed(req[w])'
      <4>1. Placed(req[w])
        BY <1>s
      <4>2. /\ r.pc # "commit" /\ r.pc # "saveOld" /\ r.pc # "idle"
            /\ r.pc \in RequestPcs => req[w].pc \in RequestPcs
            /\ r.pc \in ResetPcs => req[w].pc \in ResetPcs
        BY <3>2, <3>8, <3>10 DEF RequestPcs, ResetPcs
      <4> QED BY <2>1, <3>3, <3>7, <3>10, <4>1, <4>2, PlacedMoved DEF Placed
    <3> QED BY <2>1, <3>3, <3>7, <3>10, <3>11, TypeStepReq
  <2> QED BY <2>4, <2>5
<1>18. CASE Tick
  <2>1. now' \in 0 .. MaxTime /\ now <= now' /\ req' = req /\ RowsStay
        /\ UNCHANGED <<rows, password, history, verified, failures>>
    BY <1>18, TypeSame, ResetAssumption DEF Tick, RowsStay
  <2>2. \A w \in Worker : Placed(req[w])'
    BY <2>1, PlacedKept DEF Noted
  <2> QED BY <2>1, <2>2 DEF TypeInv, TypeOK
<1>19. CASE UNCHANGED vars
  BY <1>19 DEF vars, TypeInv, TypeOK, Placed
<1> QED
  BY <1>2, <1>3, <1>5, <1>7, <1>8, <1>9, <1>10, <1>13, <1>14, <1>15, <1>16, <1>17, <1>18, <1>19
     DEF Next, Progress

LEMMA AlwaysTypeInv == Spec => []TypeInv
BY TypeInit, TypeNext, PTL DEF Spec

(* The tables and the requests keep their shapes, the history its length. *)
THEOREM TypeCorrect == Spec => []TypeOK
<1>1. TypeInv => TypeOK
  BY DEF TypeInv
<1> QED BY <1>1, AlwaysTypeInv, PTL

-----------------------------------------------------------------------------
(* What a step does to the workers and to the rows. *)

Acts(w) ==
  \/ \E u \in User, a \in IP : RequestReset(w, u, a)
  \/ \E t \in TokenId, p \in Password : ResetPassword(w, t, p)
  \/ Progress(w)
  \/ Fail(w)

(* Worker w took up something of a user's, or went on with it. *)
Began(w) == req[w].user = NoUser /\ req'[w].pc \in {"countUser", "checkHistory"}
              /\ \A x \in Worker \ {w} : req[x].user = req'[w].user => req'[x].overlap /\ req'[w].overlap
Kept(r, s) ==
  /\ s.user = r.user /\ s.ip = r.ip /\ s.tok = r.tok /\ s.new = r.new /\ s.overlap = r.overlap
  /\ r.failed => s.failed

LEMMA StartStep ==
  ASSUME TypeInv, NEW w \in Worker,
         \/ \E u \in User, a \in IP : RequestReset(w, u, a)
         \/ \E t \in TokenId, p \in Password : ResetPassword(w, t, p)
  PROVE  /\ \A x \in Worker \ {w} : Noted(req[x], req'[x])
         /\ Began(w) /\ req[w].pc = "idle" /\ ~req'[w].failed
         /\ req'[w].pc = "checkHistory" => req'[w].tok \in TokenId /\ Open(req'[w].tok)
         /\ UNCHANGED <<now, rows, password, history, verified, failures>>
<1>1. ASSUME NEW u \in User, NEW a \in IP, RequestReset(w, u, a)
      PROVE  /\ \A x \in Worker \ {w} : Noted(req[x], req'[x])
             /\ Began(w) /\ req[w].pc = "idle" /\ ~req'[w].failed /\ req'[w].pc = "countUser"
             /\ UNCHANGED <<now, rows, password, history, verified, failures>>
  <2> DEFINE r == [Idle EXCEPT !.pc = "countUser", !.user = u, !.ip = a, !.start = now]
  <2>1. r \in Request /\ r.user = u /\ ~r.overlap /\ r.pc = "countUser" /\ ~r.failed
    BY TypeSame DEF Idle, Request
  <2>2. Start(w, r) /\ UNCHANGED <<now, rows, password, history, verified, failures>>
    BY <1>1 DEF RequestReset
  <2> HIDE DEF r
  <2>3. /\ req[w].pc = "idle" /\ req[w].user = NoUser
        /\ \A x \in Worker \ {w} : /\ Noted(req[x], req'[x])
                                   /\ req[x].user = r.user => req'[x].overlap /\ req'[w].overlap
        /\ req'[w] = r \/ req'[w] = [r EXCEPT !.overlap = TRUE]
    BY <2>1, <2>2, StartFacts
  <2>4. req'[w].pc = "countUser" /\ req'[w].user = r.user /\ ~req'[w].failed
    BY <2>1, <2>3 DEF Request
  <2> QED BY <2>2, <2>3, <2>4 DEF Began
<1>2. ASSUME NEW t \in TokenId, NEW p \in Password, ResetPassword(w, t, p)
      PROVE  /\ \A x \in Worker \ {w} : Noted(req[x], req'[x])
             /\ Began(w) /\ req[w].pc = "idle" /\ ~req'[w].failed
             /\ req'[w].tok = t /\ Open(t)
             /\ UNCHANGED <<now, rows, password, history, verified, failures>>
  <2> DEFINE r == [Idle EXCEPT !.pc = "checkHistory", !.user = rows[t].user, !.tok = t, !.new = p]
  <2>1. rows[t] \in Row /\ rows[t].user \in User
    BY <1>2, RowFacts DEF ResetPassword, TypeInv
  <2>2. r \in Request /\ r.user \in User /\ ~r.overlap /\ r.pc = "checkHistory" /\ r.tok = t /\ ~r.failed
    BY <2>1 DEF Idle, Request
  <2>3. Start(w, r) /\ UNCHANGED <<now, rows, password, history, verified, failures>> /\ Open(t)
    BY <1>2 DEF ResetPassword
  <2> HIDE DEF r
  <2>4. /\ req[w].pc = "idle" /\ req[w].user = NoUser
        /\ \A x \in Worker \ {w} : /\ Noted(req[x], req'[x])
                                   /\ req[x].user = r.user => req'[x].overlap /\ req'[w].overlap
        /\ req'[w] = r \/ req'[w] = [r EXCEPT !.overlap = TRUE]
    BY <2>2, <2>3, StartFacts
  <2>5. req'[w].pc = "checkHistory" /\ req'[w].user = r.user /\ ~req'[w].failed /\ req'[w].tok = t
    BY <2>2, <2>4 DEF Request
  <2> QED BY <2>3, <2>4, <2>5 DEF Began
<1> QED BY <1>1, <1>2

LEMMA GoOnStep ==
  ASSUME TypeInv, NEW w \in Worker, Progress(w) \/ Fail(w)
  PROVE  /\ req[w].pc # "idle"
         /\ \A x \in Worker \ {w} : req'[x] = req[x]
         /\ req'[w] = Idle \/ Kept(req[w], req'[w])
         /\ req'[w].pc # "checkHistory" /\ req'[w].pc # "countUser"
         /\ req'[w].pc = "countIP" => req[w].pc = "countUser" /\ req'[w].start = req[w].start
         /\ req'[w].pc = "sweep" => req[w].pc = "countIP" /\ req'[w].start = req[w].start
         /\ req'[w].pc = "commit" => Sweep(w)
         /\ req'[w].pc = "readOld" => req[w].pc = "checkHistory"
         /\ req'[w].pc = "saveOld" => ReadOld(w)
         /\ req'[w].pc = "update" => req[w].pc \in {"readOld", "saveOld"}
         /\ req'[w].pc = "update" => SaveOld(w) \/ (Fail(w) /\ req'[w].failed)
         /\ req'[w].pc = "verify" => UpdatePasswordHash(w)
         /\ req'[w].pc = "mark" => req[w].pc = "verify"
<1>s. req[w] \in Request /\ req \in [Worker -> Request] /\ Idle.pc = "idle"
  BY IdleFacts DEF TypeInv, TypeOK
<1>1. CASE Done(w) /\ req[w].pc # "idle"
  <2>1. req'[w] = Idle /\ \A x \in Worker \ {w} : req'[x] = req[x]
    BY <1>1, <1>s DEF Done
  <2> QED BY <1>1, <1>s, <2>1
<1>2. ASSUME NEW pc, GoOn(w, pc)
      PROVE  /\ req'[w].pc = pc /\ req'[w].start = req[w].start
             /\ Kept(req[w], req'[w]) /\ \A x \in Worker \ {w} : req'[x] = req[x]
  <2>1. req'[w] = [req[w] EXCEPT !.pc = pc]
    BY <1>2, <1>s DEF GoOn
  <2>2. \A x \in Worker \ {w} : req'[x] = req[x]
    BY <1>2, <1>s DEF GoOn
  <2> QED BY <1>s, <2>1, <2>2 DEF Kept, Request
<1>3. CASE CountUser(w)
  BY <1>1, <1>2, <1>3 DEF CountUser
<1>4. CASE CountIP(w)
  <2>1. CASE Done(w)
    BY <1>1, <1>4, <2>1 DEF CountIP
  <2>2. CASE ~Done(w)
    <3>1. req'[w] = [req[w] EXCEPT !.pc = "sweep", !.exp = now + TTL]
      BY <1>4, <1>s, <2>2 DEF CountIP
    <3>2. \A x \in Worker \ {w} : req'[x] = req[x]
      BY <1>4, <1>s, <2>2 DEF CountIP
    <3> QED BY <1>4, <1>s, <3>1, <3>2 DEF Kept, Request, CountIP
  <2> QED BY <2>1, <2>2
<1>5. CASE Sweep(w)
  <2>1. req'[w] = [req[w] EXCEPT !.pc = "commit", !.start = now, !.swept = Unused(req[w].user)]
    BY <1>5, <1>s DEF Sweep
  <2>2. \A x \in Worker \ {w} : req'[x] = req[x]
    BY <1>5, <1>s DEF Sweep
  <2> QED BY <1>5, <1>s, <2>1, <2>2 DEF Kept, Request, Sweep
<1>6. CASE CreateToken(w)
  BY <1>1, <1>6 DEF CreateToken
<1>7. CASE CheckHistory(w)
  BY <1>1, <1>2, <1>7 DEF CheckHistory
<1>8. CASE ReadOld(w)
  <2>1. req'[w] = [req[w] EXCEPT !.pc = "saveOld", !.old = password[req[w].user]]
    BY <1>8, <1>s DEF ReadOld
  <2>2. \A x \in Worker \ {w} : req'[x] = req[x]
    BY <1>8, <1>s DEF ReadOld
  <2> QED BY <1>8, <1>s, <2>1, <2>2 DEF Kept, Request, ReadOld
<1>9. CASE SaveOld(w)
  <2>1. req[w].pc = "saveOld" /\ GoOn(w, "update")
    BY <1>9 DEF SaveOld
  <2>2. /\ req'[w].pc = "update" /\ req'[w].start = req[w].start
        /\ Kept(req[w], req'[w]) /\ \A x \in Worker \ {w} : req'[x] = req[x]
    BY <1>2, <2>1
  <2> QED BY <1>9, <2>1, <2>2
<1>10. CASE UpdatePasswordHash(w)
  BY <1>2, <1>10 DEF UpdatePasswordHash
<1>11. CASE SetVerified(w)
  BY <1>2, <1>11 DEF SetVerified
<1>12. CASE MarkUsed(w)
  BY <1>1, <1>12 DEF MarkUsed
<1>13. CASE Fail(w)
  <2>1. req[w].pc # "idle"
    BY <1>13 DEF Fail
  <2>2. CASE Done(w)
    BY <1>1, <2>1, <2>2
  <2>3. CASE ~Done(w)
    <3>1. /\ AfterFailure[req[w].pc] # "idle"
          /\ req' = [req EXCEPT ![w].pc = AfterFailure[@], ![w].failed = TRUE,
                                ![w].exp = IF req[w].pc = "countIP" THEN now + TTL ELSE @]
      BY <1>13, <2>3 DEF Fail
    <3>2. PICK exp : exp = IF req[w].pc = "countIP" THEN now + TTL ELSE req[w].exp
      OBVIOUS
    <3>3. /\ req'[w] = [req[w] EXCEPT !.pc = AfterFailure[req[w].pc], !.failed = TRUE, !.exp = exp]
          /\ \A x \in Worker \ {w} : req'[x] = req[x]
      BY <1>s, <3>1, <3>2
    <3>4. req'[w].pc = AfterFailure[req[w].pc] /\ req'[w].failed /\ req'[w].start = req[w].start
          /\ Kept(req[w], req'[w])
      BY <1>s, <3>3 DEF Kept, Request
    <3>5. req[w].pc \in {"countUser", "countIP", "checkHistory", "readOld", "saveOld", "verify"}
      BY <1>s, <2>1, <3>1 DEF AfterFailure, Request
    <3>6. /\ req[w].pc = "countUser" => req'[w].pc = "countIP"
          /\ req[w].pc = "countIP" => req'[w].pc = "sweep"
          /\ req[w].pc = "checkHistory" => req'[w].pc = "readOld"
          /\ req[w].pc \in {"readOld", "saveOld"} => req'[w].pc = "update"
          /\ req[w].pc = "verify" => req'[w].pc = "mark"
      BY <3>4 DEF AfterFailure
    <3> QED BY <1>13, <2>1, <3>3, <3>4, <3>5, <3>6
  <2> QED BY <2>2, <2>3
<1> QED BY <1>3, <1>4, <1>5, <1>6, <1>7, <1>8, <1>9, <1>10, <1>11, <1>12, <1>13 DEF Progress

LEMMA FailStep ==
  ASSUME TypeInv, NEW w \in Worker, Fail(w)
  PROVE  req'[w] = Idle \/ req'[w].failed
<1>1. req[w] \in Request /\ req \in [Worker -> Request]
  BY DEF TypeInv, TypeOK
<1>2. CASE Done(w)
  BY <1>1, <1>2 DEF Done
<1>3. CASE ~Done(w)
  <2>1. req' = [req EXCEPT ![w].pc = AfterFailure[@], ![w].failed = TRUE,
                           ![w].exp = IF req[w].pc = "countIP" THEN now + TTL ELSE @]
    BY <1>3 DEF Fail
  <2>2. PICK exp : exp = IF req[w].pc = "countIP" THEN now + TTL ELSE req[w].exp
    OBVIOUS
  <2>3. req'[w] = [req[w] EXCEPT !.pc = AfterFailure[req[w].pc], !.failed = TRUE, !.exp = exp]
    BY <1>1, <2>1, <2>2
  <2> QED BY <1>1, <2>3 DEF Request
<1> QED BY <1>2, <1>3

LEMMA NextCases == Next <=> Tick \/ \E w \in Worker : Acts(w)
BY DEF Next, Acts

(* Outside a step of its own a request is only noted to overlap. *)
LEMMA StepFacts ==
  ASSUME TypeInv, [Next]_vars
  PROVE  /\ RowsStay /\ (NoneCreated \/ \E w \in Worker : CreateToken(w))
         /\ \A x \in Worker : Noted(req[x], req'[x]) \/ Acts(x)
<1>1. CASE Tick \/ UNCHANGED vars
  BY <1>1, TypeSame DEF Tick, vars, NoneCreated, Noted
<1>2. ASSUME NEW w \in Worker, Acts(w)
      PROVE  /\ RowsStay /\ (NoneCreated \/ CreateToken(w))
             /\ \A x \in Worker \ {w} : Noted(req[x], req'[x])
  <2>1. CASE \/ \E u \in User, a \in IP : RequestReset(w, u, a)
             \/ \E t \in TokenId, p \in Password : ResetPassword(w, t, p)
    BY <2>1, StartStep, TypeSame DEF NoneCreated
  <2>2. CASE Progress(w) \/ Fail(w)
    <3>1. \A x \in Worker \ {w} : Noted(req[x], req'[x])
      BY <2>2, GoOnStep DEF Noted
    <3>2. CASE CreateToken(w) \/ UpdatePasswordHash(w) \/ MarkUsed(w) \/ Fail(w)
      BY <3>1, <3>2, RowStep
    <3>3. CASE ~(CreateToken(w) \/ UpdatePasswordHash(w) \/ MarkUsed(w) \/ Fail(w))
      <4>1. rows' = rows
        BY <2>2, <3>3
           DEF Progress, CountUser, CountIP, Sweep, CheckHistory, ReadOld, SaveOld, SetVerified
      <4> QED BY <3>1, <4>1, TypeSame DEF NoneCreated
    <3> QED BY <3>2, <3>3
  <2> QED BY <1>2, <2>1, <2>2 DEF Acts
<1> QED BY <1>1, <1>2, NextCases

-----------------------------------------------------------------------------
(* The unused tokens of a user. *)

LEMMA UnusedShrinks ==
  ASSUME TypeInv, TypeInv', RowsStay, NoneCreated, NEW u \in User
  PROVE  Unused(u)' \subseteq Unused(u)
<1> SUFFICES ASSUME NEW t \in TokenId, rows'[t].user = u, ~rows'[t].used
             PROVE  rows[t].user = u /\ ~rows[t].used
  BY DEF Unused
<1>1. rows'[t] \in Row
  BY ResetAssumption DEF TypeInv, TypeOK, NoRow
<1>2. rows[t] \in Row /\ rows'[t].user = rows[t].user /\ (rows[t].used => rows'[t].used)
  BY <1>1 DEF NoneCreated, RowsStay
<1> QED BY <1>2

LEMMA CreateUnused ==
  ASSUME TypeInv, NEW w \in Worker, CreateToken(w), NEW u \in User
  PROVE  /\ u # req[w].user => Unused(u)' = Unused(u)
         /\ u = req[w].user => \E t \in TokenId : /\ t \notin Unused(u)
                                                  /\ Unused(u)' = (Unused(u) \ req[w].swept) \cup {t}
<1>1. PICK t \in TokenId :
        /\ rows[t] = NoRow /\ rows[t] \notin Row /\ t \notin req[w].swept
        /\ rows'[t].user = req[w].user /\ ~rows'[t].used
        /\ \A x \in TokenId \ {t} :
             /\ x \in req[w].swept => /\ rows[x] \in Row /\ rows[x].user = req[w].user
                                       /\ rows'[x] = [rows[x] EXCEPT !.used = TRUE]
             /\ x \notin req[w].swept => rows'[x] = rows[x]
  BY CreateFacts
<1>2. rows[t].used
  BY <1>1 DEF NoRow
<1>3. ASSUME NEW x \in TokenId \ {t}, x \in req[w].swept
      PROVE  rows[x].user = req[w].user /\ rows'[x].user = rows[x].user /\ rows'[x].used
  BY <1>1, <1>3 DEF Row
<1>4. ASSUME NEW x \in TokenId \ {t}, x \notin req[w].swept
      PROVE  rows'[x] = rows[x]
  BY <1>1, <1>4
<1>5. CASE u # req[w].user
  BY <1>1, <1>2, <1>3, <1>4, <1>5 DEF Unused
<1>6. CASE u = req[w].user
  <2>1. t \notin Unused(u)
    BY <1>2 DEF Unused
  <2>2. Unused(u)' = (Unused(u) \ req[w].swept) \cup {t}
    BY <1>1, <1>2, <1>3, <1>4, <1>6 DEF Unused
  <2> QED BY <1>6, <2>1, <2>2
<1> QED BY <1>5, <1>6

(* What a worker between its UPDATE and its INSERT was before the step. *)
AtCommit(w, u) == req[w].pc = "commit" /\ req[w].user = u

LEMMA CommitStep ==
  ASSUME TypeInv, [Next]_vars, NEW w \in Worker, NEW u \in User, AtCommit(w, u)'
  PROVE  \/ AtCommit(w, u) /\ req'[w].swept = req[w].swept /\ req'[w].start = req[w].start
              /\ (req[w].overlap => req'[w].overlap) /\ (req[w].failed <=> req'[w].failed)
              /\ req'[w].ip = req[w].ip
         \/ /\ Sweep(w) /\ req'[w].swept = Unused(u) /\ req[w].user = u /\ rows' = rows
            /\ \A x \in Worker \ {w} : req'[x] = req[x]
<1>1. req[w] \in Request /\ req \in [Worker -> Request]
  BY DEF TypeInv, TypeOK
<1>2. CASE Noted(req[w], req'[w])
  BY <1>1, <1>2 DEF Noted, AtCommit, Request
<1>3. CASE Sweep(w)
  <2>1. req'[w] = [req[w] EXCEPT !.pc = "commit", !.start = now, !.swept = Unused(req[w].user)]
        /\ \A x \in Worker \ {w} : req'[x] = req[x]
    BY <1>1, <1>3 DEF Sweep
  <2>2. req'[w].user = req[w].user /\ req'[w].swept = Unused(req[w].user)
    BY <1>1, <2>1 DEF Request
  <2> QED BY <1>3, <2>1, <2>2 DEF AtCommit, Sweep
<1>4. CASE Acts(w) /\ ~Sweep(w)
  <2>1. req'[w].pc = "commit"
    BY DEF AtCommit
  <2>2. CASE Progress(w) \/ Fail(w)
    BY <1>4, <2>1, <2>2, GoOnStep
  <2>3. CASE ~(Progress(w) \/ Fail(w))
    <3>1. Began(w)
      BY <1>4, <2>3, StartStep DEF Acts
    <3> QED BY <2>1, <3>1 DEF Began
  <2> QED BY <2>2, <2>3
<1> QED BY <1>2, <1>3, <1>4, StepFacts

(* Each unused token of a user is one worker's, and a worker that is to      *)
(* insert another of that user invalidates the one it has.                   *)
Owned(u) ==
  \E f \in [Unused(u) -> Worker] :
    /\ \A s, t \in Unused(u) : f[s] = f[t] => s = t
    /\ \A w \in Worker : AtCommit(w, u) => \A t \in Unused(u) : f[t] = w => t \in req[w].swept

LEMMA OwnedInit == Init => \A u \in User : Owned(u)
<1> SUFFICES ASSUME Init, NEW u \in User
             PROVE  Owned(u)
  OBVIOUS
<1>1. Unused(u) = {}
  BY DEF Init, Unused, NoRow
<1>2. [t \in {} |-> CHOOSE w : w \in Worker] \in [{} -> Worker]
  OBVIOUS
<1> QED BY <1>1, <1>2 DEF Owned

LEMMA OwnedNext ==
  ASSUME TypeInv, TypeInv', [Next]_vars, NEW u \in User, Owned(u)
  PROVE  Owned(u)'
<1>1. PICK f \in [Unused(u) -> Worker] :
        /\ \A s, t \in Unused(u) : f[s] = f[t] => s = t
        /\ \A w \in Worker : AtCommit(w, u) => \A t \in Unused(u) : f[t] = w => t \in req[w].swept
  BY DEF Owned
<1>2. CASE NoneCreated
  <2>1. Unused(u)' \subseteq Unused(u)
    BY <1>2, StepFacts, UnusedShrinks
  <2>2. PICK U : U = Unused(u)'
    OBVIOUS
  <2> DEFINE g == [t \in U |-> f[t]]
  <2>3. g \in [U -> Worker] /\ \A s, t \in U : g[s] = g[t] => s = t
    BY <1>1, <2>1, <2>2
  <2>4. ASSUME NEW w \in Worker, AtCommit(w, u)', NEW t \in U, g[t] = w
        PROVE  t \in req'[w].swept
    <3>1. t \in Unused(u) /\ f[t] = w
      BY <2>1, <2>2, <2>4
    <3> QED BY <1>1, <2>4, <3>1, CommitStep
  <2> HIDE DEF g
  <2> QED BY <2>2, <2>3, <2>4 DEF Owned
<1>3. ASSUME NEW w \in Worker, CreateToken(w)
      PROVE  Owned(u)'
  <2>0. /\ Done(w) /\ req[w].pc = "commit" /\ req[w].user \in User
        /\ \A x \in Worker \ {w} : req'[x] = req[x]
        /\ req'[w].pc = "idle"
    <3>1. Done(w) /\ req[w].pc = "commit" /\ req[w].user \in User
      BY <1>3, CreateFacts DEF CreateToken
    <3>2. req' = [req EXCEPT ![w] = Idle] /\ req \in [Worker -> Request]
      BY <3>1 DEF Done, TypeInv, TypeOK
    <3> QED BY <3>1, <3>2, IdleFacts
  <2>1. CASE u # req[w].user
    <3>1. Unused(u)' = Unused(u)
      BY <1>3, <2>1, CreateUnused
    <3>2. \A x \in Worker : AtCommit(x, u)' => AtCommit(x, u) /\ req'[x].swept = req[x].swept
      BY <2>0 DEF AtCommit
    <3> QED BY <1>1, <3>1, <3>2 DEF Owned
  <2>2. CASE u = req[w].user
    <3>1. PICK t \in TokenId : /\ t \notin Unused(u)
                               /\ Unused(u)' = (Unused(u) \ req[w].swept) \cup {t}
      BY <1>3, <2>2, CreateUnused
    <3>2. PICK U : U = Unused(u)'
      OBVIOUS
    <3> DEFINE g == [s \in U |-> IF s = t THEN w ELSE f[s]]
    <3>3. \A s \in U \ {t} : s \in Unused(u) /\ s \notin req[w].swept /\ g[s] = f[s]
      BY <3>1, <3>2
    <3>4. t \in U /\ g[t] = w
      BY <3>1, <3>2
    <3>5. g \in [U -> Worker]
      BY <3>3, <3>4
    <3>6. AtCommit(w, u)
      BY <2>0, <2>2 DEF AtCommit
    <3> HIDE DEF g
    <3>7. \A s \in U \ {t} : g[s] # w
      BY <1>1, <3>3, <3>6
    <3>8. \A r, s \in U : g[r] = g[s] => r = s
      BY <1>1, <3>3, <3>4, <3>7
    <3>9. ASSUME NEW x \in Worker, AtCommit(x, u)', NEW s \in U, g[s] = x
          PROVE  s \in req'[x].swept
      <4>1. x # w /\ req'[x] = req[x] /\ AtCommit(x, u)
        BY <2>0, <3>9 DEF AtCommit
      <4>2. s \in Unused(u) /\ f[s] = x
        BY <3>3, <3>4, <3>9, <4>1
      <4> QED BY <1>1, <4>1, <4>2
    <3> QED BY <3>2, <3>5, <3>8, <3>9 DEF Owned
  <2> QED BY <2>1, <2>2
<1> QED BY <1>2, <1>3, StepFacts

OwnedInv == TypeInv /\ \A u \in User : Owned(u)

LEMMA AlwaysOwned == Spec => []OwnedInv
<1>1. Init => OwnedInv
  BY TypeInit, OwnedInit DEF OwnedInv
<1>2. OwnedInv /\ [Next]_vars => OwnedInv'
  BY TypeNext, OwnedNext DEF OwnedInv
<1> QED BY <1>1, <1>2, PTL DEF Spec

(* The tokens of a user that are not used are one-to-one with workers. *)
THEOREM OpenTokensAreBounded == Spec => []OpenTokensBounded
<1>1. OwnedInv => OpenTokensBounded
  <2> SUFFICES ASSUME OwnedInv, NEW u \in User
               PROVE  Cardinality(Unused(u)) <= Cardinality(Worker)
    BY DEF OpenTokensBounded
  <2>1. PICK f \in [Unused(u) -> Worker] : \A s, t \in Unused(u) : f[s] = f[t] => s = t
    BY DEF OwnedInv, Owned
  <2>2. IsInjective(f)
    BY <2>1 DEF IsInjective
  <2>3. f \in Injection(Unused(u), Worker)
    BY <2>1, <2>2 DEF Injection
  <2> QED BY <2>3, FS_Injection, ResetAssumption DEF Unused
<1> QED BY <1>1, AlwaysOwned, PTL

-----------------------------------------------------------------------------
(* Requests that run at a time for one user know of it, so what a request    *)
(* that ran alone invalidates is all there is.                               *)
Overlaps ==
  \A x, y \in Worker : x # y /\ req[x].user = req[y].user /\ req[x].user # NoUser => req[x].overlap
QuietInv ==
  \A w \in Worker, u \in User : AtCommit(w, u) /\ ~req[w].overlap => Unused(u) \subseteq req[w].swept

LEMMA UserStep ==
  ASSUME TypeInv, [Next]_vars, NEW x \in Worker, req'[x].user # NoUser
  PROVE  \/ Began(x) /\ \A y \in Worker \ {x} : Noted(req[y], req'[y])
         \/ req'[x].user = req[x].user /\ (req[x].overlap => req'[x].overlap)
<1>1. req[x] \in Request
  BY DEF TypeInv, TypeOK
<1>2. CASE Noted(req[x], req'[x])
  BY <1>1, <1>2 DEF Noted, Request
<1>3. CASE Acts(x)
  <2>1. CASE Progress(x) \/ Fail(x)
    BY <2>1, GoOnStep, IdleFacts DEF Kept
  <2>2. CASE ~(Progress(x) \/ Fail(x))
    BY <1>3, <2>2, StartStep DEF Acts
  <2> QED BY <2>1, <2>2
<1> QED BY <1>2, <1>3, StepFacts

LEMMA OverlapsNext ==
  ASSUME TypeInv, Overlaps, [Next]_vars
  PROVE  Overlaps'
<1> SUFFICES ASSUME NEW x \in Worker, NEW y \in Worker, x # y, req'[x].user = req'[y].user,
                    req'[x].user # NoUser
             PROVE  req'[x].overlap
  BY DEF Overlaps
<1>s. req[x] \in Request /\ req[y] \in Request
  BY DEF TypeInv, TypeOK
<1>1. CASE Began(x) /\ \A z \in Worker \ {x} : Noted(req[z], req'[z])
  <2>0. Noted(req[y], req'[y])
    BY <1>1
  <2>1. req'[y].user = req[y].user
    BY <2>0, <1>s DEF Noted, Request
  <2> QED BY <1>1, <2>1 DEF Began
<1>2. CASE Began(y) /\ \A z \in Worker \ {y} : Noted(req[z], req'[z])
  <2>1. req'[x].user = req[x].user
    BY <1>2, <1>s DEF Noted, Request
  <2> QED BY <1>2, <2>1 DEF Began
<1>3. CASE /\ req'[x].user = req[x].user /\ (req[x].overlap => req'[x].overlap)
           /\ req'[y].user = req[y].user
  BY <1>3 DEF Overlaps
<1> QED BY <1>1, <1>2, <1>3, UserStep

LEMMA QuietNext ==
  ASSUME TypeInv, TypeInv', Overlaps, QuietInv, [Next]_vars
  PROVE  QuietInv'
<1> SUFFICES ASSUME NEW w \in Worker, NEW u \in User, AtCommit(w, u)', ~req'[w].overlap
             PROVE  Unused(u)' \subseteq req'[w].swept
  BY DEF QuietInv
<1>1. CASE /\ AtCommit(w, u) /\ req'[w].swept = req[w].swept
           /\ req[w].overlap => req'[w].overlap
  <2>1. Unused(u) \subseteq req'[w].swept
    BY <1>1 DEF QuietInv
  <2>2. CASE NoneCreated
    BY <2>1, <2>2, StepFacts, UnusedShrinks
  <2>3. ASSUME NEW x \in Worker, CreateToken(x)
        PROVE  Unused(u)' = Unused(u)
    <3>1. req[x].user \in User /\ req[x].pc = "commit" /\ req' = [req EXCEPT ![x] = Idle]
      BY <2>3, CreateFacts DEF CreateToken, Done
    <3>2. x # w
      BY <3>1, IdleFacts DEF AtCommit, TypeInv, TypeOK
    <3>3. req[x].user # u
      BY <1>1, <3>1, <3>2, ResetAssumption DEF Overlaps, AtCommit
    <3> QED BY <2>3, <3>3, CreateUnused
  <2> QED BY <2>1, <2>2, <2>3, StepFacts
<1>2. CASE req'[w].swept = Unused(u) /\ rows' = rows
  BY <1>2 DEF Unused
<1> QED BY <1>1, <1>2, CommitStep

AloneInv == TypeInv /\ Overlaps /\ QuietInv

LEMMA AlwaysAlone == Spec => []AloneInv
<1>1. Init => Overlaps /\ QuietInv
  BY IdleFacts DEF Init, Overlaps, QuietInv, AtCommit
<1>2. AloneInv /\ [Next]_vars => AloneInv'
  BY TypeNext, OverlapsNext, QuietNext DEF AloneInv
<1> QED BY <1>1, <1>2, TypeInit, PTL DEF Spec, AloneInv

(* Whose step changed the rows. *)
LEMMA RowsChange ==
  ASSUME TypeInv, [Next]_vars, rows' # rows
  PROVE  \E x \in Worker : /\ CreateToken(x) \/ UpdatePasswordHash(x) \/ MarkUsed(x)
                              \/ (Fail(x) /\ req[x].pc = "mark")
                           /\ \A y \in Worker \ {x} : req'[y] = req[y]
<1>1. ~(Tick \/ UNCHANGED vars)
  BY DEF Tick, vars
<1>2. PICK x \in Worker : Acts(x)
  BY <1>1, NextCases
<1>3. Progress(x) \/ Fail(x)
  BY <1>2, StartStep DEF Acts
<1>4. \A y \in Worker \ {x} : req'[y] = req[y]
  BY <1>3, GoOnStep
<1> QED BY <1>3, <1>4
        DEF Progress, Fail, CountUser, CountIP, Sweep, CheckHistory, ReadOld, SaveOld, SetVerified

(* A request that ran alone for its user leaves its token as the only one. *)
THEOREM QuietRequestsLeaveOne == Spec => QuietRequestLeavesOne
<1> DEFINE Step ==
      \A w \in Worker, u \in User :
        req[w].pc = "commit" /\ req[w].user = u /\ ~req[w].overlap
        /\ req'[w] # req[w] /\ rows' # rows
          => Cardinality(Unused(u)') = 1
<1>1. AloneInv /\ [Next]_vars => Step
  <2> SUFFICES ASSUME AloneInv, [Next]_vars, NEW w \in Worker, NEW u \in User,
                      req[w].pc = "commit", req[w].user = u, ~req[w].overlap,
                      req'[w] # req[w], rows' # rows
               PROVE  Cardinality(Unused(u)') = 1
    OBVIOUS
  <2>1. CreateToken(w)
    BY RowsChange DEF AloneInv, UpdatePasswordHash, MarkUsed
  <2>2. Unused(u) \subseteq req[w].swept
    BY DEF AloneInv, QuietInv, AtCommit
  <2>3. PICK t \in TokenId : Unused(u)' = {t}
    BY <2>1, <2>2, CreateUnused DEF AloneInv
  <2> QED BY <2>3, FS_Singleton
<1> QED BY <1>1, AlwaysAlone, PTL DEF Spec, QuietRequestLeavesOne

-----------------------------------------------------------------------------
(* What a token pays for. *)
Pend(t) == {w \in Worker : req[w].tok = t /\ req[w].pc \in {"checkHistory", "readOld", "saveOld", "update"}}
Paid(t) == {w \in Worker : req[w].tok = t /\ req[w].pc \in {"verify", "mark"}}

(* As long as the mark of t was not lost there is a worker for each of its  *)
(* uses past and to come; before it is made, those that used it hold it.    *)
UsesOf(t) ==
  /\ rows[t].uses \in Nat /\ rows[t].uses <= Cardinality(Worker)
  /\ ~rows[t].lost =>
       /\ rows[t].uses + Cardinality(Pend(t)) <= Cardinality(Worker)
       /\ ~rows[t].used => rows[t].uses = Cardinality(Paid(t))

UsesInv == TypeInv /\ \A t \in TokenId : UsesOf(t)

LEMMA SomeWorkers ==
  ASSUME NEW A, A \subseteq Worker
  PROVE  /\ IsFiniteSet(A) /\ Cardinality(A) \in Nat /\ Cardinality(Worker) \in Nat
         /\ Cardinality(A) <= Cardinality(Worker)
BY ResetAssumption, FS_Subset, FS_CardinalityType

(* Disjoint sets of workers. *)
LEMMA Apart ==
  ASSUME NEW A, NEW B, A \subseteq Worker, B \subseteq Worker, A \cap B = {}
  PROVE  Cardinality(A) + Cardinality(B) <= Cardinality(Worker)
<1>1. IsFiniteSet(A) /\ IsFiniteSet(B) /\ A \cup B \subseteq Worker
  BY SomeWorkers
<1>2. Cardinality(A \cup B) = Cardinality(A) + Cardinality(B) - Cardinality(A \cap B)
  BY <1>1, FS_Union
<1>3. Cardinality(A \cap B) = 0
  BY FS_EmptySet
<1>4. Cardinality(A \cup B) <= Cardinality(Worker)
  BY <1>1, SomeWorkers
<1> QED BY <1>1, <1>2, <1>3, <1>4, SomeWorkers

LEMMA Joins ==
  ASSUME NEW A, NEW B, IsFiniteSet(A), NEW w, w \notin A, B = A \cup {w}
  PROVE  Cardinality(B) = Cardinality(A) + 1 /\ Cardinality(A) \in Nat
BY FS_AddElement, FS_CardinalityType

(* Who is added to those that are to use t. *)
LEMMA PendStep ==
  ASSUME TypeInv, [Next]_vars, NEW t \in TokenId, NEW x \in Pend(t)'
  PROVE  \/ x \in Pend(t)
         \/ /\ Open(t) /\ rows' = rows /\ req[x].pc = "idle" /\ req'[x].pc = "checkHistory"
            /\ \A y \in Worker \ {x} : Noted(req[y], req'[y])
<1>1. x \in Worker /\ req'[x].tok = t /\ req'[x].pc \in {"checkHistory", "readOld", "saveOld", "update"}
      /\ req[x] \in Request
  BY DEF Pend, TypeInv, TypeOK
<1>2. CASE Noted(req[x], req'[x])
  BY <1>1, <1>2 DEF Noted, Pend, Request
<1>3. CASE Progress(x) \/ Fail(x)
  <2>1. Kept(req[x], req'[x])
    BY <1>1, <1>3, GoOnStep, IdleFacts
  <2>2. req[x].pc \in {"checkHistory", "readOld", "saveOld"}
    <3>1. /\ req'[x].pc # "checkHistory"
          /\ req'[x].pc = "readOld" => req[x].pc = "checkHistory"
      BY <1>1, <1>3, GoOnStep
    <3>2. req'[x].pc = "saveOld" => ReadOld(x)
      BY <1>1, <1>3, GoOnStep
    <3>3. req'[x].pc = "update" => req[x].pc \in {"readOld", "saveOld"}
      BY <1>1, <1>3, GoOnStep
    <3> QED BY <1>1, <3>1, <3>2, <3>3 DEF ReadOld
  <2> QED BY <1>1, <2>1, <2>2 DEF Kept, Pend
<1>4. CASE Acts(x) /\ ~(Progress(x) \/ Fail(x))
  <2>1. /\ Began(x) /\ req[x].pc = "idle" /\ rows' = rows
        /\ \A y \in Worker \ {x} : Noted(req[y], req'[y])
        /\ req'[x].pc = "checkHistory" => Open(req'[x].tok)
    BY <1>1, <1>4, StartStep DEF Acts
  <2> QED BY <1>1, <2>1 DEF Began
<1> QED BY <1>1, <1>2, <1>3, <1>4, StepFacts

(* Who is added to those that have used t. *)
LEMMA PaidStep ==
  ASSUME TypeInv, [Next]_vars, NEW t \in TokenId, NEW x \in Paid(t)'
  PROVE  x \in Paid(t) \/ (UpdatePasswordHash(x) /\ req[x].tok = t)
<1>1. x \in Worker /\ req'[x].tok = t /\ req'[x].pc \in {"verify", "mark"} /\ req[x] \in Request
  BY DEF Paid, TypeInv, TypeOK
<1>2. CASE Noted(req[x], req'[x])
  BY <1>1, <1>2 DEF Noted, Paid, Request
<1>3. CASE Progress(x) \/ Fail(x)
  <2>1. Kept(req[x], req'[x])
    BY <1>1, <1>3, GoOnStep, IdleFacts
  <2>2. UpdatePasswordHash(x) \/ req[x].pc = "verify"
    BY <1>1, <1>3, GoOnStep
  <2> QED BY <1>1, <2>1, <2>2 DEF Kept, Paid
<1>4. CASE Acts(x) /\ ~(Progress(x) \/ Fail(x))
  BY <1>1, <1>4, StartStep DEF Acts, Began
<1> QED BY <1>1, <1>2, <1>3, <1>4, StepFacts

(* Who has used t is gone only with its mark, made or lost. *)
LEMMA PaidStays ==
  ASSUME TypeInv, [Next]_vars, NEW t \in TokenId, NEW x \in Paid(t)
  PROVE  x \in Paid(t)' \/ rows'[t].used \/ rows'[t].lost
<1>1. x \in Worker /\ req[x].tok = t /\ req[x].pc \in {"verify", "mark"} /\ req[x] \in Request
      /\ rows \in [TokenId -> Row \cup {NoRow}] /\ rows[t] \in Row
  BY DEF Paid, TypeInv, TypeOK, Placed, ResetPcs
<1>2. CASE Noted(req[x], req'[x])
  BY <1>1, <1>2 DEF Noted, Paid, Request
<1>3. CASE Progress(x) \/ Fail(x)
  <2>1. CASE MarkUsed(x) \/ (Fail(x) /\ req[x].pc = "mark")
    BY <1>1, <2>1 DEF MarkUsed, Fail, Row
  <2>2. CASE SetVerified(x)
    <3>1. req'[x] = [req[x] EXCEPT !.pc = "mark"]
      BY <1>1, <2>2 DEF SetVerified, GoOn, TypeInv, TypeOK
    <3> QED BY <1>1, <3>1 DEF Paid, Request
  <2>3. CASE Fail(x) /\ req[x].pc = "verify"
    <3>1. AfterFailure[req[x].pc] = "mark"
      BY <2>3 DEF AfterFailure
    <3>2. req' = [req EXCEPT ![x].pc = AfterFailure[@], ![x].failed = TRUE,
                             ![x].exp = IF req[x].pc = "countIP" THEN now + TTL ELSE @]
      BY <2>3, <3>1 DEF Fail
    <3>3. req'[x].pc = "mark" /\ req'[x].tok = t
      <4>1. PICK exp : exp = IF req[x].pc = "countIP" THEN now + TTL ELSE req[x].exp
        OBVIOUS
      <4>2. req'[x] = [req[x] EXCEPT !.pc = "mark", !.failed = TRUE, !.exp = exp]
        BY <1>1, <3>1, <3>2, <4>1 DEF TypeInv, TypeOK
      <4> QED BY <1>1, <4>2 DEF Request
    <3> QED BY <1>1, <3>3 DEF Paid
  <2> QED BY <1>1, <1>3, <2>1, <2>2, <2>3
          DEF Progress, CountUser, CountIP, Sweep, CreateToken, CheckHistory, ReadOld, SaveOld,
              UpdatePasswordHash
<1>4. CASE Acts(x) /\ ~(Progress(x) \/ Fail(x))
  BY <1>1, <1>4, StartStep DEF Acts
<1> QED BY <1>1, <1>2, <1>3, <1>4, StepFacts

(* How often t was used. *)
LEMMA UsesChange ==
  ASSUME TypeInv, [Next]_vars, NEW t \in TokenId
  PROVE  /\ rows[t] \notin Row => rows'[t].uses = 0
         /\ rows[t] \in Row => rows'[t].uses = rows[t].uses
                               \/ \E x \in Worker : UpdatePasswordHash(x) /\ req[x].tok = t
<1>s. rows \in [TokenId -> Row \cup {NoRow}] /\ (rows[t] \notin Row => rows[t] = NoRow)
  BY DEF TypeInv, TypeOK
<1>1. CASE rows' = rows
  BY <1>1, <1>s DEF NoRow
<1>2. ASSUME NEW w \in Worker, CreateToken(w)
      PROVE  /\ rows[t] \notin Row => rows'[t].uses = 0
             /\ rows[t] \in Row => rows'[t].uses = rows[t].uses
  <2>1. PICK n \in TokenId :
          /\ rows[n] \notin Row /\ rows'[n].uses = 0
          /\ \A x \in TokenId \ {n} :
               /\ x \in req[w].swept => /\ rows[x] \in Row
                                         /\ rows'[x] = [rows[x] EXCEPT !.used = TRUE]
               /\ x \notin req[w].swept => rows'[x] = rows[x]
    BY <1>2, CreateFacts
  <2>2. CASE t = n
    BY <2>1, <2>2
  <2>3. CASE t # n /\ t \in req[w].swept
    <3>1. rows[t] \in Row /\ rows'[t] = [rows[t] EXCEPT !.used = TRUE]
      BY <2>1, <2>3
    <3> QED BY <3>1 DEF Row
  <2>4. CASE t # n /\ t \notin req[w].swept
    <3>1. rows'[t] = rows[t]
      BY <2>1, <2>4
    <3> QED BY <1>s, <3>1 DEF NoRow
  <2> QED BY <2>2, <2>3, <2>4
<1>3. ASSUME NEW w \in Worker, UpdatePasswordHash(w) \/ MarkUsed(w) \/ (Fail(w) /\ req[w].pc = "mark"),
             ~(UpdatePasswordHash(w) /\ req[w].tok = t)
      PROVE  rows'[t].uses = rows[t].uses
  <2>1. req[w].tok \in TokenId /\ rows[req[w].tok] \in Row
    BY <1>3 DEF TypeInv, Placed, UpdatePasswordHash, MarkUsed, ResetPcs
  <2>2. rows'[t] = rows[t] \/ rows'[t] = [rows[t] EXCEPT !.used = TRUE]
        \/ rows'[t] = [rows[t] EXCEPT !.lost = TRUE]
    BY <1>3, <1>s, <2>1 DEF UpdatePasswordHash, MarkUsed, Fail
  <2> QED BY <1>s, <2>2 DEF Row, NoRow
<1>4. ASSUME NEW w \in Worker, UpdatePasswordHash(w), req[w].tok = t
      PROVE  rows[t] \in Row
  BY <1>4 DEF TypeInv, Placed, UpdatePasswordHash, ResetPcs
<1>5. rows[t] \notin Row => rows[t].uses = 0
  BY <1>s DEF NoRow
<1>6. CASE rows' # rows
  <2>1. PICK w \in Worker : CreateToken(w) \/ UpdatePasswordHash(w) \/ MarkUsed(w)
                              \/ (Fail(w) /\ req[w].pc = "mark")
    BY <1>6, RowsChange
  <2>2. CASE CreateToken(w)
    BY <1>2, <2>2
  <2>3. CASE UpdatePasswordHash(w) /\ req[w].tok = t
    BY <1>4, <2>3
  <2>4. CASE ~CreateToken(w) /\ ~(UpdatePasswordHash(w) /\ req[w].tok = t)
    <3>1. rows'[t].uses = rows[t].uses
      BY <1>3, <2>1, <2>4
    <3> QED BY <1>5, <3>1
  <2> QED BY <2>2, <2>3, <2>4
<1> QED BY <1>1, <1>6

LEMMA UsesInit == Init => \A t \in TokenId : UsesOf(t)
<1> SUFFICES ASSUME Init, NEW t \in TokenId
             PROVE  UsesOf(t)
  OBVIOUS
<1>1. Pend(t) = {}
  BY IdleFacts DEF Init, Pend
<1>2. rows[t].uses = 0 /\ rows[t].used
  BY DEF Init, NoRow
<1> QED BY <1>1, <1>2, FS_EmptySet, SomeWorkers DEF UsesOf

LEMMA UsesNext ==
  ASSUME TypeInv, [Next]_vars, NEW t \in TokenId, UsesOf(t)
  PROVE  UsesOf(t)'
<1>s. /\ Pend(t) \subseteq Worker /\ Pend(t)' \subseteq Worker
      /\ Paid(t) \subseteq Worker /\ Paid(t)' \subseteq Worker
      /\ Pend(t)' \cap Paid(t)' = {}
  BY DEF Pend, Paid
<1>1. CASE rows[t] \notin Row
  <2>1. rows'[t].uses = 0 /\ ~Open(t)
    BY <1>1, UsesChange, RowFacts DEF TypeInv, Open
  <2>2. Pend(t) = {} /\ Paid(t) = {}
    BY <1>1 DEF Pend, Paid, TypeInv, Placed, ResetPcs
  <2>3. Pend(t)' = {}
    BY <2>1, <2>2, PendStep
  <2>4. Paid(t)' = {}
    <3>1. ASSUME NEW x \in Worker, UpdatePasswordHash(x)
          PROVE  req[x].tok # t
      BY <1>1, <3>1 DEF TypeInv, Placed, UpdatePasswordHash, ResetPcs
    <3>2. Paid(t)' \subseteq Worker
      BY <1>s
    <3> QED BY <2>2, <3>1, <3>2, PaidStep
  <2> QED BY <2>1, <2>3, <2>4, FS_EmptySet, SomeWorkers DEF UsesOf
<1>2. ASSUME NEW x \in Pend(t)', x \notin Pend(t)
      PROVE  UsesOf(t)'
  <2>1. /\ Open(t) /\ rows' = rows /\ req[x].pc = "idle" /\ req'[x].pc = "checkHistory"
        /\ \A y \in Worker \ {x} : Noted(req[y], req'[y])
    BY <1>2, PendStep
  <2>2. Paid(t)' = Paid(t)
    <3>1. \A y \in Worker \ {x} : req'[y].pc = req[y].pc /\ req'[y].tok = req[y].tok
      BY <2>1 DEF Noted, Request, TypeInv, TypeOK
    <3> QED BY <2>1, <3>1 DEF Paid
  <2>3. Cardinality(Pend(t)') + Cardinality(Paid(t)') <= Cardinality(Worker)
    BY <1>s, Apart
  <2>4. /\ Cardinality(Pend(t)') \in Nat /\ Cardinality(Paid(t)') \in Nat
        /\ Cardinality(Worker) \in Nat
    BY <1>s, SomeWorkers
  <2> QED BY <2>1, <2>2, <2>3, <2>4 DEF UsesOf, Open
<1>3. ASSUME NEW x \in Worker, UpdatePasswordHash(x), req[x].tok = t
      PROVE  UsesOf(t)'
  <2>1. req[x].pc = "update" /\ req[x] \in Request /\ rows[t] \in Row
        /\ req'[x] = [req[x] EXCEPT !.pc = "verify"] /\ \A y \in Worker \ {x} : req'[y] = req[y]
    BY <1>3 DEF UpdatePasswordHash, GoOn, TypeInv, TypeOK, Placed, ResetPcs
  <2>2. req'[x].pc = "verify" /\ req'[x].tok = t
    BY <1>3, <2>1 DEF Request
  <2>3. Pend(t) = Pend(t)' \cup {x} /\ x \notin Pend(t)'
    BY <1>3, <2>1, <2>2 DEF Pend
  <2>4. Paid(t)' = Paid(t) \cup {x} /\ x \notin Paid(t)
    BY <1>3, <2>1, <2>2 DEF Paid
  <2>5. /\ Cardinality(Pend(t)) = Cardinality(Pend(t)') + 1
        /\ Cardinality(Paid(t)') = Cardinality(Paid(t)) + 1
    BY <1>s, <2>3, <2>4, SomeWorkers, Joins
  <2>6. /\ Cardinality(Pend(t)') \in Nat /\ Cardinality(Paid(t)) \in Nat
        /\ Cardinality(Worker) \in Nat
    BY <1>s, SomeWorkers
  <2>7. CASE rows[t].lost
    BY <1>3, <2>7 DEF UpdatePasswordHash, UsesOf
  <2>8. CASE ~rows[t].lost
    <3>1. rows'[t] = [rows[t] EXCEPT !.uses = @ + 1]
      BY <1>3, <2>8 DEF UpdatePasswordHash, TypeInv, TypeOK
    <3>2. /\ rows'[t].uses = rows[t].uses + 1 /\ rows'[t].used = rows[t].used
          /\ rows'[t].lost = rows[t].lost /\ rows[t].uses \in Nat
      BY <2>1, <3>1 DEF Row
    <3> QED BY <2>5, <2>6, <2>8, <3>2 DEF UsesOf
  <2> QED BY <2>7, <2>8
<1>4. CASE /\ rows[t] \in Row /\ Pend(t)' \subseteq Pend(t)
           /\ ~\E x \in Worker : UpdatePasswordHash(x) /\ req[x].tok = t
  <2>1. rows'[t].uses = rows[t].uses
    BY <1>4, UsesChange
  <2>2. (rows[t].used => rows'[t].used) /\ (rows[t].lost => rows'[t].lost)
    BY <1>4, StepFacts DEF RowsStay
  <2>3. Paid(t)' \subseteq Paid(t)
    BY <1>4, <1>s, PaidStep
  <2>4. rows'[t].used \/ rows'[t].lost \/ Paid(t)' = Paid(t)
    BY <2>3, PaidStays
  <2>5. /\ Cardinality(Pend(t)') <= Cardinality(Pend(t)) /\ Cardinality(Pend(t)') \in Nat
        /\ Cardinality(Pend(t)) \in Nat /\ Cardinality(Worker) \in Nat
    BY <1>4, <1>s, SomeWorkers, FS_Subset
  <2> QED BY <2>1, <2>2, <2>4, <2>5 DEF UsesOf
<1> QED BY <1>1, <1>2, <1>3, <1>4

LEMMA AlwaysUses == Spec => []UsesInv
<1>1. Init => UsesInv
  BY TypeInit, UsesInit DEF UsesInv
<1>2. UsesInv /\ [Next]_vars => UsesInv'
  BY TypeNext, UsesNext DEF UsesInv
<1> QED BY <1>1, <1>2, PTL DEF Spec

(* A token pays for no more resets than there are workers. *)
THEOREM ResetsAreBounded == Spec => []ResetsBounded
<1>1. UsesInv => ResetsBounded
  BY DEF UsesInv, UsesOf, ResetsBounded
<1> QED BY <1>1, AlwaysUses, PTL

-----------------------------------------------------------------------------
(* What a reset that runs alone and whole knows of the history. *)

LEMMA RememberTail ==
  ASSUME NEW p \in Password, NEW s \in Seq(Password), NEW m \in Nat, NEW n \in Nat
  PROVE  Latest(Tail(Remember(p, s, m)), n) \subseteq Latest(s, n)
<1> DEFINE t == Remember(p, s, m)
<1>1. /\ t \in Seq(Password) /\ Len(t) \in 1 .. HistoryKeep + m /\ Len(t) <= Len(s) + 1
      /\ \A k \in 2 .. Len(t) : t[k] = s[k - 1]
  BY RememberFacts
<1> HIDE DEF t
<1>2. Len(t) \in Nat /\ Len(t) >= 1 /\ Len(s) \in Nat /\ t # <<>>
  BY <1>1, ResetAssumption
<1>3. Len(Tail(t)) = Len(t) - 1 /\ \A k \in 1 .. Len(t) - 1 : Tail(t)[k] = t[k + 1]
  BY <1>1, <1>2
<1>4. \A k \in 1 .. Len(Tail(t)) : k \in 1 .. Len(s) /\ Tail(t)[k] = s[k]
  <2> SUFFICES ASSUME NEW k \in 1 .. Len(t) - 1
               PROVE  k \in 1 .. Len(s) /\ Tail(t)[k] = s[k]
    BY <1>3
  <2>1. k + 1 \in 2 .. Len(t) /\ k \in 1 .. Len(s) /\ k + 1 - 1 = k
    BY <1>1, <1>2
  <2>2. t[k + 1] = s[k + 1 - 1]
    BY <1>1, <2>1
  <2> QED BY <1>3, <2>1, <2>2
<1>5. Latest(Tail(t), n) \subseteq Latest(s, n)
  BY <1>4 DEF Latest
<1> QED BY <1>5 DEF t

Unseen(r) == ~r.overlap /\ ~r.failed
Checked(r) == r.new \notin Latest(history[r.user], HistoryCheck)

Keeps(r) ==
  /\ r.pc = "readOld" /\ Unseen(r) => Checked(r)
  /\ r.pc = "saveOld" /\ Unseen(r) => Checked(r) /\ r.old = password[r.user]
  /\ r.pc = "update" /\ Unseen(r) =>
       /\ history[r.user][1] = password[r.user]
       /\ r.new \notin Latest(Tail(history[r.user]), HistoryCheck)

KeepsInv == TypeInv /\ Overlaps /\ \A w \in Worker : Keeps(req[w])

(* The history and the password of a user change in the steps of the user's  *)
(* resets only.                                                              *)
LEMMA PasswordsChange ==
  ASSUME TypeInv, [Next]_vars, NEW u \in User
  PROVE  \/ history'[u] = history[u] /\ password'[u] = password[u]
         \/ \E x \in Worker : /\ SaveOld(x) \/ UpdatePasswordHash(x)
                              /\ req[x].user = u
<1>1. ASSUME NEW x \in Worker, SaveOld(x) \/ UpdatePasswordHash(x), req[x].user # u
      PROVE  history'[u] = history[u] /\ password'[u] = password[u]
  <2>1. history \in [User -> Seq(Password)] /\ password \in [User -> Password]
    BY DEF TypeInv, TypeOK
  <2> QED BY <1>1, <2>1 DEF SaveOld, UpdatePasswordHash
<1>2. CASE Tick \/ UNCHANGED vars
  BY <1>2 DEF Tick, vars
<1>3. ASSUME NEW x \in Worker, Acts(x), ~SaveOld(x), ~UpdatePasswordHash(x)
      PROVE  history' = history /\ password' = password
  <2>1. CASE Progress(x) \/ Fail(x)
    BY <1>3, <2>1
       DEF Progress, Fail, CountUser, CountIP, Sweep, CreateToken, CheckHistory, ReadOld,
           SetVerified, MarkUsed
  <2>2. CASE ~(Progress(x) \/ Fail(x))
    BY <1>3, <2>2, StartStep DEF Acts
  <2> QED BY <2>1, <2>2
<1> QED BY <1>1, <1>2, <1>3, NextCases

LEMMA KeepsNext ==
  ASSUME TypeInv, Overlaps, [Next]_vars, NEW w \in Worker, Keeps(req[w])
  PROVE  Keeps(req[w])'
<1>s. req[w] \in Request /\ Placed(req[w]) /\ req \in [Worker -> Request]
      /\ history \in [User -> Seq(Password)] /\ \A u \in User : Len(history[u]) < HistoryKeep + Cardinality(Worker)
      /\ password \in [User -> Password]
  BY DEF TypeInv, TypeOK
<1>1. CASE Noted(req[w], req'[w])
  <2>1. CASE req[w].pc \notin {"readOld", "saveOld", "update"} \/ req'[w].overlap
    BY <1>1, <1>s, <2>1 DEF Noted, Keeps, Unseen, Request
  <2>2. CASE req[w].pc \in {"readOld", "saveOld", "update"} /\ ~req'[w].overlap
    <3>1. req'[w] = req[w] /\ ~req[w].overlap
      BY <1>1, <1>s, <2>2 DEF Noted, Request
    <3>2. req[w].user \in User
      BY <1>s, <2>2 DEF Placed, Request
    <3>3. CASE history'[req[w].user] = history[req[w].user] /\ password'[req[w].user] = password[req[w].user]
      BY <3>1, <3>3 DEF Keeps, Checked, Unseen
    <3>4. ASSUME NEW x \in Worker, SaveOld(x) \/ UpdatePasswordHash(x), req[x].user = req[w].user
          PROVE  FALSE
      <4>1. x # w
        <5>1. req'[x] # req[x]
          BY <3>4, <1>s DEF SaveOld, UpdatePasswordHash, GoOn, Request
        <5> QED BY <3>1, <5>1
      <4> QED BY <3>1, <3>2, <3>4, <4>1, ResetAssumption DEF Overlaps
    <3> QED BY <3>2, <3>3, <3>4, PasswordsChange
  <2> QED BY <2>1, <2>2
<1>2. CASE Progress(w) \/ Fail(w)
  <2>1. CASE req'[w] = Idle \/ req'[w].failed \/ req'[w].pc \notin {"readOld", "saveOld", "update"}
    BY <2>1, IdleFacts DEF Keeps, Unseen
  <2>2. CASE ~(req'[w] = Idle \/ req'[w].failed \/ req'[w].pc \notin {"readOld", "saveOld", "update"})
    <3>1. Kept(req[w], req'[w]) /\ Progress(w)
      BY <1>2, <2>2, GoOnStep, FailStep
    <3>2. /\ req'[w].user = req[w].user /\ req'[w].new = req[w].new /\ ~req[w].failed
          /\ req'[w].overlap = req[w].overlap /\ req[w].user \in User
      <4>1. req[w].user # NoUser
        BY <1>2, <1>s, GoOnStep DEF Placed
      <4> QED BY <1>s, <2>2, <3>1, <4>1 DEF Kept, Request
    <3>3. CASE req'[w].pc = "readOld"
      <4>1. req[w].pc = "checkHistory"
        BY <1>2, <3>3, GoOnStep
      <4>2. CheckHistory(w)
        BY <3>1, <4>1
           DEF Progress, CountUser, CountIP, Sweep, CreateToken, ReadOld, SaveOld,
               UpdatePasswordHash, SetVerified, MarkUsed
      <4>3. Checked(req[w]) /\ history' = history
        BY <1>s, <2>2, <4>2 DEF CheckHistory, Done, Checked
      <4>4. Checked(req[w])'
        BY <3>2, <4>3 DEF Checked
      <4> QED BY <3>3, <4>4 DEF Keeps
    <3>4. CASE req'[w].pc = "saveOld"
      <4>1. ReadOld(w)
        BY <1>2, <3>4, GoOnStep
      <4>2. req[w].pc = "readOld" /\ history' = history /\ password' = password
            /\ req'[w].old = password[req[w].user]
        BY <1>s, <4>1 DEF ReadOld, Request
      <4>3. ~req'[w].overlap => Checked(req[w])
        BY <3>2, <4>2 DEF Keeps, Unseen
      <4>4. ~req'[w].overlap => Checked(req[w])'
        BY <3>2, <4>2, <4>3 DEF Checked
      <4> QED BY <3>2, <3>4, <4>2, <4>4 DEF Keeps, Unseen
    <3>5. CASE req'[w].pc = "update"
      <4> PICK h : h = history[req[w].user]
        OBVIOUS
      <4> PICK u : u = req[w].user
        OBVIOUS
      <4>1. SaveOld(w)
        BY <1>2, <2>2, <3>5, GoOnStep
      <4>2. /\ req[w].pc = "saveOld" /\ req[w].old \in Password /\ password' = password
            /\ u \in User /\ h \in Seq(Password)
            /\ \E n \in Hidden(w) : history'[u] = Remember(req[w].old, h, n)
        BY <1>s, <3>2, <4>1 DEF SaveOld, Placed
      <4> PICK n \in Hidden(w) : history'[u] = Remember(req[w].old, h, n)
        BY <4>2
      <4>3. ASSUME ~req'[w].overlap
            PROVE  /\ req[w].new \notin Latest(h, HistoryCheck)
                   /\ req[w].old = password[u]
        BY <3>2, <4>2, <4>3 DEF Keeps, Unseen, Checked
      <4>4. /\ Remember(req[w].old, h, n)[1] = req[w].old
            /\ Latest(Tail(Remember(req[w].old, h, n)), HistoryCheck) \subseteq Latest(h, HistoryCheck)
        <5>1. n \in Nat
          BY HiddenFacts
        <5>2. Remember(req[w].old, h, n)[1] = req[w].old
          BY <4>2, <5>1, RememberFacts
        <5>3. Latest(Tail(Remember(req[w].old, h, n)), HistoryCheck) \subseteq Latest(h, HistoryCheck)
          BY <4>2, <5>1, RememberTail, ResetAssumption
        <5> QED BY <5>2, <5>3
      <4>5. ASSUME ~req'[w].overlap
            PROVE  /\ history'[u][1] = password'[u]
                   /\ req'[w].new \notin Latest(Tail(history'[u]), HistoryCheck)
        BY <3>2, <4>2, <4>3, <4>4, <4>5
      <4> QED BY <3>2, <3>5, <4>5 DEF Keeps, Unseen, Latest
    <3> QED BY <2>2, <3>3, <3>4, <3>5
  <2> QED BY <2>1, <2>2
<1>3. CASE Acts(w) /\ ~(Progress(w) \/ Fail(w))
  BY <1>3, StartStep DEF Acts, Began, Keeps
<1> QED BY <1>1, <1>2, <1>3, StepFacts

LEMMA AlwaysKeeps == Spec => []KeepsInv
<1>1. Init => KeepsInv
  <2> SUFFICES ASSUME Init
               PROVE  KeepsInv
    OBVIOUS
  <2>1. Overlaps /\ \A w \in Worker : Keeps(req[w])
    BY IdleFacts DEF Init, Overlaps, Keeps
  <2> QED BY <2>1, TypeInit DEF KeepsInv
<1>2. KeepsInv /\ [Next]_vars => KeepsInv'
  BY TypeNext, OverlapsNext, KeepsNext DEF KeepsInv
<1> QED BY <1>1, <1>2, PTL DEF Spec

(* A reset that ran alone and whole leaves the password it replaced at the  *)
(* head of the history, and chose none of the last ones before it.          *)
THEOREM QuietResetsKeepHistory == Spec => QuietResetKeepsHistory
<1>1. KeepsInv /\ [Next]_vars =>
        \A w \in Worker :
          LET r == req[w]
          IN r.pc = "update" /\ req'[w].pc = "verify" /\ ~r.overlap /\ ~r.failed
               => /\ history[r.user][1] = password[r.user]
                  /\ r.new \notin Latest(Tail(history[r.user]), HistoryCheck)
  BY DEF KeepsInv, Keeps, Unseen
<1> QED BY <1>1, AlwaysKeeps, PTL DEF Spec, QuietResetKeepsHistory

-----------------------------------------------------------------------------
(* The rate limits.  The tokens of a window that ends at T, and the requests *)
(* that counted by T and may still add theirs, together stay within a limit. *)
InWindow(x, T) ==
  rows[x] \in Row /\ ~rows[x].blind /\ rows[x].created <= T /\ rows[x].created + Window > T

MadeFor(u, T)  == {x \in TokenId : rows[x].user = u /\ InWindow(x, T)}
MadeFrom(a, T) == {x \in TokenId : rows[x].ip = a /\ InWindow(x, T)}

MakingFor(u, T) ==
  {w \in Worker : req[w].user = u /\ req[w].pc \in {"countIP", "sweep", "commit"}
                    /\ req[w].failed = FALSE /\ req[w].start <= T}
MakingFrom(a, T) ==
  {w \in Worker : req[w].ip = a /\ req[w].pc \in {"sweep", "commit"}
                    /\ req[w].failed = FALSE /\ req[w].start <= T}

Within(M, P, limit) == Cardinality(M) + Cardinality(P) < limit + Cardinality(Worker)

LimitsInv ==
  /\ TypeInv
  /\ Worker = {} => \A t \in TokenId : rows[t] \notin Row
  /\ Worker # {} =>
       /\ \A u \in User, T \in Nat : Within(MadeFor(u, T), MakingFor(u, T), EmailLimit)
       /\ \A a \in IP, T \in Nat : Within(MadeFrom(a, T), MakingFrom(a, T), IPLimit)

LEMMA SomeTokens ==
  ASSUME NEW A, A \subseteq TokenId
  PROVE  IsFiniteSet(A) /\ Cardinality(A) \in Nat
BY ResetAssumption, FS_Subset, FS_CardinalityType

(* A request that counted fewer than the limit joins. *)
LEMMA Joined ==
  ASSUME NEW C, NEW M, NEW P, NEW limit \in Nat, C \subseteq TokenId, M \subseteq C, P \subseteq Worker,
         Cardinality(C) < limit
  PROVE  Within(M, P, limit)
<1>1. Cardinality(M) <= Cardinality(C)
  BY SomeTokens, FS_Subset
<1>2. Cardinality(M) \in Nat /\ Cardinality(C) \in Nat
  BY SomeTokens
<1>3. Cardinality(P) \in Nat /\ Cardinality(Worker) \in Nat /\ Cardinality(P) <= Cardinality(Worker)
  BY SomeWorkers
<1> QED BY <1>1, <1>2, <1>3 DEF Within

(* None joins, and none leaves its token. *)
LEMMA FewerWithin ==
  ASSUME NEW M, NEW P, NEW N, NEW Q, NEW limit \in Nat, M \subseteq TokenId, P \subseteq Worker,
         N \subseteq M, Q \subseteq P, Within(M, P, limit)
  PROVE  Within(N, Q, limit)
<1>1. Cardinality(N) <= Cardinality(M) /\ Cardinality(N) \in Nat /\ Cardinality(M) \in Nat
  BY SomeTokens, FS_Subset
<1>2. Cardinality(Q) <= Cardinality(P) /\ Cardinality(Q) \in Nat /\ Cardinality(P) \in Nat
      /\ Cardinality(Worker) \in Nat
  BY SomeWorkers, FS_Subset
<1> QED BY <1>1, <1>2 DEF Within

(* A request leaves its token. *)
LEMMA MovedWithin ==
  ASSUME NEW M, NEW P, NEW N, NEW Q, NEW limit \in Nat, M \subseteq TokenId, P \subseteq Worker,
         NEW t \in TokenId, NEW w \in P, N \subseteq M \cup {t}, Q \subseteq P \ {w}, Within(M, P, limit)
  PROVE  Within(N, Q, limit)
<1>1. Cardinality(N) <= Cardinality(M) + 1 /\ Cardinality(N) \in Nat /\ Cardinality(M) \in Nat
  <2>1. IsFiniteSet(M) /\ IsFiniteSet(M \cup {t})
    BY SomeTokens
  <2>2. Cardinality(M \cup {t}) <= Cardinality(M) + 1
    BY <2>1, FS_AddElement, FS_CardinalityType
  <2>3. Cardinality(N) <= Cardinality(M \cup {t})
    BY <2>1, FS_Subset
  <2> QED BY <2>1, <2>2, <2>3, SomeTokens, FS_CardinalityType, FS_Subset
<1>2. Cardinality(Q) <= Cardinality(P) - 1 /\ Cardinality(Q) \in Nat /\ Cardinality(P) \in Nat
      /\ Cardinality(Worker) \in Nat
  <2>1. IsFiniteSet(P) /\ IsFiniteSet(P \ {w}) /\ P = (P \ {w}) \cup {w}
    BY SomeWorkers
  <2>2. Cardinality(P) = Cardinality(P \ {w}) + 1
    BY <2>1, Joins
  <2>3. Cardinality(Q) <= Cardinality(P \ {w}) /\ Cardinality(P \ {w}) \in Nat
    BY <2>1, FS_Subset, FS_CardinalityType
  <2> QED BY <2>1, <2>2, <2>3, SomeWorkers
<1> QED BY <1>1, <1>2 DEF Within

(* What is in a window was there, or is the token of the step. *)
LEMMA MadeStep ==
  ASSUME TypeInv, [Next]_vars, NEW x \in TokenId, NEW T \in Nat, InWindow(x, T)'
  PROVE  \/ InWindow(x, T) /\ rows'[x].user = rows[x].user /\ rows'[x].ip = rows[x].ip
         \/ \E w \in Worker :
              /\ CreateToken(w) /\ rows'[x].user = req[w].user /\ rows'[x].ip = req[w].ip
              /\ req[w].failed = FALSE /\ req[w].start <= T /\ rows[x] \notin Row
<1>1. CASE rows[x] \in Row
  BY <1>1, StepFacts DEF RowsStay, InWindow
<1>2. CASE rows[x] \notin Row
  <2>1. PICK w \in Worker : CreateToken(w)
    BY <1>2, StepFacts DEF NoneCreated, InWindow
  <2>2. PICK t \in TokenId :
          /\ rows'[t].user = req[w].user /\ rows'[t].ip = req[w].ip
          /\ rows'[t].created = req[w].start /\ rows'[t].blind = req[w].failed
          /\ \A y \in TokenId \ {t} :
               /\ y \in req[w].swept => /\ rows[y] \in Row /\ rows[y].user = req[w].user
                                         /\ rows'[y] = [rows[y] EXCEPT !.used = TRUE]
               /\ y \notin req[w].swept => rows'[y] = rows[y]
    BY <2>1, CreateFacts
  <2>3. x = t
    BY <1>2, <2>2 DEF InWindow
  <2>4. req[w].failed \in BOOLEAN /\ ~req[w].failed
    BY <2>2, <2>3 DEF InWindow, Request, TypeInv, TypeOK
  <2>5. req[w].start <= T
    BY <2>2, <2>3 DEF InWindow
  <2> QED BY <1>2, <2>1, <2>2, <2>3, <2>4, <2>5
<1> QED BY <1>1, <1>2

LEMMA OneCreated ==
  ASSUME TypeInv, NEW w \in Worker, CreateToken(w), NEW x \in TokenId, NEW y \in TokenId,
         rows[x] \notin Row, rows[y] \notin Row, rows'[x] \in Row, rows'[y] \in Row
  PROVE  x = y
<1>1. PICK t \in TokenId : \A z \in TokenId \ {t} :
        /\ z \in req[w].swept => /\ rows[z] \in Row /\ rows[z].user = req[w].user
                                  /\ rows'[z] = [rows[z] EXCEPT !.used = TRUE]
        /\ z \notin req[w].swept => rows'[z] = rows[z]
  BY CreateFacts
<1>2. ASSUME NEW z \in TokenId, rows[z] \notin Row, rows'[z] \in Row
      PROVE  z = t
  BY <1>1, <1>2
<1> QED BY <1>2

(* Who counted had done so, or does in this step. *)
LEMMA MakingStep ==
  ASSUME TypeInv, [Next]_vars, NEW w \in Worker, NEW T \in Nat,
         req'[w].pc \in {"countIP", "sweep", "commit"}, req'[w].failed = FALSE, req'[w].start <= T
  PROVE  /\ req[w].failed = FALSE /\ req[w].start <= T
         /\ req'[w].user = req[w].user /\ req'[w].ip = req[w].ip
         /\ req[w].pc \in RequestPcs /\ ~CreateToken(w)
         /\ req'[w].pc = "countIP" => \/ req[w].pc = "countIP"
                                      \/ CountUser(w) /\ GoOn(w, "countIP")
         /\ req'[w].pc = "sweep" => \/ req[w].pc = "sweep"
                                    \/ CountIP(w) /\ ~Done(w)
         /\ req'[w].pc = "commit" => req[w].pc \in {"sweep", "commit"}
<1>s. req[w] \in Request /\ req \in [Worker -> Request] /\ Placed(req[w]) /\ now \in Nat
      /\ req[w].start \in Nat /\ req[w].failed \in BOOLEAN
  BY DEF TypeInv, TypeOK, Request
<1>1. CASE Noted(req[w], req'[w])
  <2>1. req'[w].pc # "idle"
    BY DEF RequestPcs
  <2>2. ~CreateToken(w)
    BY <1>1, <1>s, <2>1, IdleFacts DEF CreateToken, Done
  <2> QED BY <1>1, <1>s, <2>2 DEF Noted, Request, RequestPcs
<1>2. CASE Progress(w) \/ Fail(w)
  <2>1. req'[w] # Idle /\ Kept(req[w], req'[w])
    BY <1>2, GoOnStep, IdleFacts
  <2>2. ~Fail(w) /\ ~CreateToken(w) /\ ~Done(w)
    BY <1>s, <2>1, FailStep DEF CreateToken, Done
  <2>3. req[w].failed = FALSE /\ req'[w].user = req[w].user /\ req'[w].ip = req[w].ip
    BY <1>s, <2>1 DEF Kept
  <2>4. CASE req'[w].pc = "countIP"
    <3>1. req[w].pc = "countUser" /\ req'[w].start = req[w].start
      BY <1>2, <2>4, GoOnStep
    <3>2. CountUser(w) /\ GoOn(w, "countIP")
      BY <1>2, <2>2, <3>1
         DEF Progress, CountUser, CountIP, Sweep, CreateToken, CheckHistory, ReadOld, SaveOld,
             UpdatePasswordHash, SetVerified, MarkUsed
    <3> QED BY <2>2, <2>3, <2>4, <3>1, <3>2 DEF RequestPcs
  <2>5. CASE req'[w].pc = "sweep"
    <3>1. req[w].pc = "countIP" /\ req'[w].start = req[w].start
      BY <1>2, <2>5, GoOnStep
    <3>2. CountIP(w)
      BY <1>2, <2>2, <3>1
         DEF Progress, CountUser, CountIP, Sweep, CreateToken, CheckHistory, ReadOld, SaveOld,
             UpdatePasswordHash, SetVerified, MarkUsed
    <3> QED BY <2>2, <2>3, <2>5, <3>1, <3>2 DEF RequestPcs
  <2>6. CASE req'[w].pc = "commit"
    <3>1. Sweep(w)
      BY <1>2, <2>6, GoOnStep
    <3>2. req[w].pc = "sweep" /\ req'[w].start = now
      BY <1>s, <3>1 DEF Sweep, Request
    <3>3. req[w].start <= now
      BY <1>s, <3>2 DEF Placed, RequestPcs
    <3> QED BY <1>s, <2>2, <2>3, <2>6, <3>2, <3>3 DEF RequestPcs
  <2> QED BY <2>4, <2>5, <2>6
<1>3. CASE Acts(w) /\ ~(Progress(w) \/ Fail(w))
  BY <1>3, StartStep DEF Acts, Began
<1> QED BY <1>1, <1>2, <1>3, StepFacts

(* A user's window, and an address's. *)
LEMMA ForNext ==
  ASSUME TypeInv, [Next]_vars, NEW u \in User, NEW T \in Nat,
         Within(MadeFor(u, T), MakingFor(u, T), EmailLimit)
  PROVE  Within(MadeFor(u, T), MakingFor(u, T), EmailLimit)'
<1> PICK M : M = MadeFor(u, T)
  OBVIOUS
<1> PICK P : P = MakingFor(u, T)
  OBVIOUS
<1> PICK N : N = MadeFor(u, T)'
  OBVIOUS
<1> PICK Q : Q = MakingFor(u, T)'
  OBVIOUS
<1>s. M \subseteq TokenId /\ P \subseteq Worker /\ N \subseteq TokenId /\ Q \subseteq Worker
      /\ EmailLimit \in Nat /\ Within(M, P, EmailLimit)
  BY ResetAssumption DEF MadeFor, MakingFor
<1> SUFFICES Within(N, Q, EmailLimit)
  BY DEF Within
<1>1. ASSUME NEW w \in Q
      PROVE  /\ w \in Worker /\ ~CreateToken(w)
             /\ w \in P \/ (CountUser(w) /\ GoOn(w, "countIP") /\ req[w].user = u /\ req[w].start <= T)
  <2>1. /\ w \in Worker /\ req'[w].user = u /\ req'[w].pc \in {"countIP", "sweep", "commit"}
        /\ req'[w].failed = FALSE /\ req'[w].start <= T
    BY <1>1 DEF MakingFor
  <2>2. /\ req[w].failed = FALSE /\ req[w].start <= T /\ req[w].user = u /\ ~CreateToken(w)
    BY <2>1, MakingStep
  <2>3. \/ req[w].pc \in {"countIP", "sweep", "commit"}
        \/ CountUser(w) /\ GoOn(w, "countIP")
    BY <2>1, MakingStep DEF CountIP
  <2> QED BY <2>1, <2>2, <2>3 DEF MakingFor
<1>2. ASSUME NEW w \in Worker, CountUser(w), GoOn(w, "countIP"), req[w].user = u, req[w].start <= T
      PROVE  Within(N, Q, EmailLimit)
  <2> PICK C : C = {t \in TokenId : rows[t].user = u /\ Recent(t, req[w].start)}
    OBVIOUS
  <2>1. Cardinality(C) < EmailLimit
    <3>1. ~Done(w)
      BY <1>2, IdleFacts DEF GoOn, Done, TypeInv, TypeOK, CountUser, Request
    <3>2. ~(CountByUser(u, req[w].start) >= EmailLimit)
      BY <1>2, <3>1 DEF CountUser
    <3> QED BY <1>s, <3>2, SomeTokens DEF CountByUser
  <2>2. N \subseteq C
    <3> SUFFICES ASSUME NEW x \in N
                 PROVE  x \in C
      OBVIOUS
    <3>1. x \in TokenId /\ rows'[x].user = u /\ InWindow(x, T)' /\ rows' = rows
      BY <1>2 DEF MadeFor, CountUser
    <3>2. rows[x] \in Row /\ rows[x] # NoRow /\ rows[x].created + Window > T
      BY <3>1, RowFacts DEF InWindow, TypeInv
    <3>3. rows[x].created \in Nat /\ req[w].start \in Nat
      BY <3>2 DEF Row, Request, TypeInv, TypeOK
    <3> QED BY <1>2, <3>1, <3>2, <3>3, ResetAssumption DEF Recent
  <2> QED BY <1>s, <2>1, <2>2, Joined
<1>3. CASE Q \subseteq P
  <2>1. CASE N \subseteq M
    BY <1>s, <1>3, <2>1, FewerWithin
  <2>2. ASSUME NEW x \in N, x \notin M
        PROVE  Within(N, Q, EmailLimit)
    <3>1. PICK w \in Worker : /\ CreateToken(w) /\ rows'[x].user = req[w].user
                              /\ req[w].failed = FALSE /\ req[w].start <= T
                              /\ rows[x] \notin Row
      BY <2>2, MadeStep DEF MadeFor
    <3>2. w \in P
      BY <2>2, <3>1 DEF MadeFor, MakingFor, CreateToken
    <3>3. Q \subseteq P \ {w}
      BY <1>1, <1>3, <3>1
    <3>4. N \subseteq M \cup {x}
      <4> SUFFICES ASSUME NEW y \in N, y # x
                   PROVE  y \in M
        OBVIOUS
      <4>1. y \in TokenId /\ rows'[y].user = u /\ InWindow(y, T)'
        BY DEF MadeFor
      <4>2. x \in TokenId /\ rows'[x] \in Row /\ rows'[y] \in Row
        BY <1>s, <2>2, <4>1 DEF MadeFor, InWindow
      <4>3. rows[y] \in Row
        BY <3>1, <4>1, <4>2, OneCreated
      <4> QED BY <4>1, <4>3, MadeStep DEF MadeFor
    <3> QED BY <1>s, <2>2, <3>2, <3>3, <3>4, MovedWithin
  <2> QED BY <2>1, <2>2
<1> QED BY <1>1, <1>2, <1>3

LEMMA FromNext ==
  ASSUME TypeInv, [Next]_vars, NEW a \in IP, NEW T \in Nat,
         Within(MadeFrom(a, T), MakingFrom(a, T), IPLimit)
  PROVE  Within(MadeFrom(a, T), MakingFrom(a, T), IPLimit)'
<1> PICK M : M = MadeFrom(a, T)
  OBVIOUS
<1> PICK P : P = MakingFrom(a, T)
  OBVIOUS
<1> PICK N : N = MadeFrom(a, T)'
  OBVIOUS
<1> PICK Q : Q = MakingFrom(a, T)'
  OBVIOUS
<1>s. M \subseteq TokenId /\ P \subseteq Worker /\ N \subseteq TokenId /\ Q \subseteq Worker
      /\ IPLimit \in Nat /\ Within(M, P, IPLimit)
  BY ResetAssumption DEF MadeFrom, MakingFrom
<1> SUFFICES Within(N, Q, IPLimit)
  BY DEF Within
<1>1. ASSUME NEW w \in Q
      PROVE  /\ w \in Worker /\ ~CreateToken(w)
             /\ w \in P \/ (CountIP(w) /\ ~Done(w) /\ req[w].ip = a /\ req[w].start <= T)
  <2>1. /\ w \in Worker /\ req'[w].ip = a /\ req'[w].pc \in {"sweep", "commit"}
        /\ req'[w].failed = FALSE /\ req'[w].start <= T
    BY <1>1 DEF MakingFrom
  <2>2. /\ req[w].failed = FALSE /\ req[w].start <= T /\ req[w].ip = a /\ ~CreateToken(w)
    BY <2>1, MakingStep
  <2>3. \/ req[w].pc \in {"sweep", "commit"}
        \/ CountIP(w) /\ ~Done(w)
    BY <2>1, MakingStep
  <2> QED BY <2>1, <2>2, <2>3 DEF MakingFrom
<1>2. ASSUME NEW w \in Worker, CountIP(w), ~Done(w), req[w].ip = a, req[w].start <= T
      PROVE  Within(N, Q, IPLimit)
  <2> PICK C : C = {t \in TokenId : rows[t].ip = a /\ Recent(t, req[w].start)}
    OBVIOUS
  <2>1. Cardinality(C) < IPLimit
    <3>1. ~(CountByIP(a, req[w].start) >= IPLimit)
      BY <1>2 DEF CountIP
    <3> QED BY <1>s, <3>1, SomeTokens DEF CountByIP
  <2>2. N \subseteq C
    <3> SUFFICES ASSUME NEW x \in N
                 PROVE  x \in C
      OBVIOUS
    <3>1. x \in TokenId /\ rows'[x].ip = a /\ InWindow(x, T)' /\ rows' = rows
      BY <1>2 DEF MadeFrom, CountIP
    <3>2. rows[x] \in Row /\ rows[x] # NoRow /\ rows[x].created + Window > T
      BY <3>1, RowFacts DEF InWindow, TypeInv
    <3>3. rows[x].created \in Nat /\ req[w].start \in Nat
      BY <3>2 DEF Row, Request, TypeInv, TypeOK
    <3> QED BY <1>2, <3>1, <3>2, <3>3, ResetAssumption DEF Recent
  <2> QED BY <1>s, <2>1, <2>2, Joined
<1>3. CASE Q \subseteq P
  <2>1. CASE N \subseteq M
    BY <1>s, <1>3, <2>1, FewerWithin
  <2>2. ASSUME NEW x \in N, x \notin M
        PROVE  Within(N, Q, IPLimit)
    <3>1. PICK w \in Worker : /\ CreateToken(w) /\ rows'[x].ip = req[w].ip
                              /\ req[w].failed = FALSE /\ req[w].start <= T
                              /\ rows[x] \notin Row
      BY <2>2, MadeStep DEF MadeFrom
    <3>2. w \in P
      BY <2>2, <3>1 DEF MadeFrom, MakingFrom, CreateToken
    <3>3. Q \subseteq P \ {w}
      BY <1>1, <1>3, <3>1
    <3>4. N \subseteq M \cup {x}
      <4> SUFFICES ASSUME NEW y \in N, y # x
                   PROVE  y \in M
        OBVIOUS
      <4>1. y \in TokenId /\ rows'[y].ip = a /\ InWindow(y, T)'
        BY DEF MadeFrom
      <4>2. x \in TokenId /\ rows'[x] \in Row /\ rows'[y] \in Row
        BY <1>s, <2>2, <4>1 DEF MadeFrom, InWindow
      <4>3. rows[y] \in Row
        BY <3>1, <4>1, <4>2, OneCreated
      <4> QED BY <4>1, <4>3, MadeStep DEF MadeFrom
    <3> QED BY <1>s, <2>2, <3>2, <3>3, <3>4, MovedWithin
  <2> QED BY <2>1, <2>2
<1> QED BY <1>1, <1>2, <1>3

LEMMA AlwaysLimits == Spec => []LimitsInv
<1>1. Init => LimitsInv
  <2> SUFFICES ASSUME Init
               PROVE  LimitsInv
    OBVIOUS
  <2>1. TypeInv /\ \A t \in TokenId : rows[t] = NoRow /\ rows[t] \notin Row
    BY TypeInit, RowFacts DEF Init, TypeInv
  <2>2. /\ \A u \in User, T \in Nat : MadeFor(u, T) = {} /\ MakingFor(u, T) = {}
        /\ \A a \in IP, T \in Nat : MadeFrom(a, T) = {} /\ MakingFrom(a, T) = {}
    BY <2>1, IdleFacts DEF Init, MadeFor, MakingFor, MadeFrom, MakingFrom, InWindow
  <2>3. Worker # {} => Cardinality(Worker) > 0
    BY ResetAssumption, FS_EmptySet, FS_CardinalityType
  <2>4. \A limit \in Nat : Worker # {} => Within({}, {}, limit)
    BY <2>3, FS_EmptySet, SomeWorkers DEF Within
  <2> QED BY <2>1, <2>2, <2>4, ResetAssumption DEF LimitsInv
<1>2. LimitsInv /\ [Next]_vars => LimitsInv'
  <2> SUFFICES ASSUME LimitsInv, [Next]_vars
               PROVE  LimitsInv'
    OBVIOUS
  <2>1. TypeInv /\ TypeInv'
    BY TypeNext DEF LimitsInv
  <2>2. Worker = {} => \A t \in TokenId : rows'[t] \notin Row
    BY <2>1, StepFacts DEF LimitsInv, NoneCreated
  <2>3. Worker # {} =>
          /\ \A u \in User, T \in Nat : Within(MadeFor(u, T), MakingFor(u, T), EmailLimit)'
          /\ \A a \in IP, T \in Nat : Within(MadeFrom(a, T), MakingFrom(a, T), IPLimit)'
    BY <2>1, ForNext, FromNext DEF LimitsInv
  <2> QED BY <2>1, <2>2, <2>3 DEF LimitsInv
<1> QED BY <1>1, <1>2, PTL DEF Spec

(* In no window are more tokens created for a user, or from an address, than *)
(* the limit and one for each other request at a time.                       *)
THEOREM RequestsStayLimited == Spec => []RequestsAreLimited
<1>1. ASSUME LimitsInv, NEW t \in TokenId, rows[t] # NoRow
      PROVE  /\ Cardinality(CreatedUpTo({x \in TokenId : rows[x].user = rows[t].user}, t))
                  < EmailLimit + Cardinality(Worker)
             /\ Cardinality(CreatedUpTo({x \in TokenId : rows[x].ip = rows[t].ip}, t))
                  < IPLimit + Cardinality(Worker)
  <2> PICK u : u = rows[t].user
    OBVIOUS
  <2> PICK a : a = rows[t].ip
    OBVIOUS
  <2> PICK T : T = rows[t].created
    OBVIOUS
  <2>1. TypeInv /\ rows[t] \in Row /\ Worker # {}
    BY <1>1, RowFacts DEF LimitsInv, TypeInv
  <2>2. u \in User /\ a \in IP /\ T \in Nat
    BY <2>1 DEF Row
  <2>3. \A x \in TokenId : (rows[x].user = u \/ rows[x].ip = a) => rows[x] \in Row
    BY <2>1, <2>2, RowFacts, ResetAssumption DEF TypeInv
  <2>4. CreatedUpTo({x \in TokenId : rows[x].user = u}, t) = MadeFor(u, T)
    BY <2>3 DEF CreatedUpTo, MadeFor, InWindow
  <2>5. CreatedUpTo({x \in TokenId : rows[x].ip = a}, t) = MadeFrom(a, T)
    BY <2>3 DEF CreatedUpTo, MadeFrom, InWindow
  <2>6. Within(MadeFor(u, T), MakingFor(u, T), EmailLimit)
        /\ Within(MadeFrom(a, T), MakingFrom(a, T), IPLimit)
    BY <1>1, <2>1, <2>2 DEF LimitsInv
  <2>7. /\ Cardinality(MadeFor(u, T)) \in Nat /\ Cardinality(MakingFor(u, T)) \in Nat
        /\ Cardinality(MadeFrom(a, T)) \in Nat /\ Cardinality(MakingFrom(a, T)) \in Nat
    <3>1. MadeFor(u, T) \subseteq TokenId /\ MakingFor(u, T) \subseteq Worker
          /\ MadeFrom(a, T) \subseteq TokenId /\ MakingFrom(a, T) \subseteq Worker
      BY DEF MadeFor, MadeFrom, MakingFor, MakingFrom
    <3> QED BY <3>1, SomeTokens, SomeWorkers
  <2>8. Cardinality(Worker) \in Nat /\ EmailLimit \in Nat /\ IPLimit \in Nat
    BY SomeWorkers, ResetAssumption
  <2> QED BY <2>4, <2>5, <2>6, <2>7, <2>8 DEF Within
<1>2. LimitsInv => RequestsAreLimited
  BY <1>1 DEF RequestsAreLimited
<1> QED BY <1>2, AlwaysLimits, PTL
=============================================================================
