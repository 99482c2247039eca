---------------------------- MODULE SignupProofs ----------------------------
(***************************************************************************)
(* Theorems about Signup, for any addresses, slugs, links, life of a link, *)
(* number of goroutines and of failing statements.                         *)
(*                                                                         *)
(* SessionIdentityExists rests on the order of the four statements: a      *)
(* request that reaches the membership has its account, one that reaches   *)
(* the onboarding step its membership, and the foreign key of a membership *)
(* keeps every one of them with a user.  Rows only ever appear.            *)
(*                                                                         *)
(* CompletionsBounded is not inductive: it needs that the completions of a *)
(* link and the requests still on their way to one are together no more    *)
(* than the goroutines, and that none is complete while the link is        *)
(* pending.  SignupGivesOwnIdentity needs that the user of an address      *)
(* whose slug is its own is there from the account on, and that an         *)
(* insertion of a user that is there is one of two at the same time.       *)
(***************************************************************************)
EXTENDS Signup, FiniteSetTheorems, TLAPS

Past == {"mark", "close", "user", "insert", "account", "member", "step", "identity"}

(* What the request r of a worker is known to have found or inserted. *)
PlacedRequest(r) ==
  /\ r.pc # "idle" => r.link \in mailed
  /\ r.pc \in Past => r.email \in Email /\ links[r.link] \in Row
  /\ r.pc \in {"member", "step"} => SlugOf[r.email] \in accounts
  /\ r.pc = "step" => SlugOf[r.email] \in members
PlacedInv == \A w \in Worker : PlacedRequest(req[w])

IdentityInv ==
  /\ members \subseteq accounts \cap Taken
  /\ \A e \in Email : issued[e] \ {Fallback} \subseteq members

SignupInv == TypeOK /\ PlacedInv /\ IdentityInv

(* The requests on their way to a completion of the link l. *)
Marked == {"close", "user", "insert", "account", "member", "step"}
Completing(l) == {w \in Worker : req[w].pc \in {"mark"} \cup Marked /\ req[w].link = l}

CompletionsInv ==
  /\ \A l \in Link : /\ links[l].done + Cardinality(Completing(l)) <= Cardinality(Worker)
                     /\ links[l].state = "pending" => links[l].done = 0
  /\ \A w \in Worker : req[w].pc \in Marked => links[req[w].link].state = "verified"

(* The identities a session of e may be for. *)
Own(e) == {SlugOf[e]} \cup (IF e \in raced THEN {Fallback} ELSE {})

(* A user of a slug that is being inserted has been inserted meanwhile. *)
RacedInv ==
  \A w \in Worker : req[w].pc = "insert" =>
    /\ users[req[w].email] = SlugOf[req[w].email] => req[w].email \in raced
    /\ \A x \in Worker \ {w} : req[x].pc = "insert" /\ req[x].email = req[w].email
                              => req[w].email \in raced

OwnInv ==
  /\ \A e \in Email : users[e] \in Uuid \cup {NoUser, SlugOf[e]}
  /\ RacedInv
  /\ failures = 0 => \A e \in Email : Plain(e) =>
       /\ issued[e] \subseteq Own(e)
       /\ issued[e] # {} => users[e] = SlugOf[e]
       /\ \A w \in Worker : req[w].email = e /\ req[w].pc \in {"account", "member", "step"}
                            => users[e] = SlugOf[e]

-----------------------------------------------------------------------------
LEMMA SignupInit == Init => SignupInv
<1> SUFFICES ASSUME Init
             PROVE  SignupInv
  OBVIOUS
<1>1. TypeOK
  BY SignupAssumption DEF Init, TypeOK, Idle, Request
<1>2. PlacedInv
  BY DEF Init, PlacedInv, PlacedRequest, Idle, Past
<1>3. IdentityInv
  BY DEF Init, IdentityInv
<1> QED BY <1>1, <1>2, <1>3 DEF SignupInv

(* Users only appear. *)
LEMMA TakenGrows ==
  ASSUME TypeOK, NEW e \in Email, NEW x \in UserId, users[e] = NoUser,
         users' = [users EXCEPT ![e] = x]
  PROVE  Taken \subseteq Taken' /\ x \in Taken'
BY SignupAssumption DEF TypeOK, Taken, UserId

(* A worker's step that takes no row away keeps what is known of the others. *)
LEMMA PlacedStep ==
  ASSUME SignupInv, NEW w \in Worker, NEW r,
         req' = [req EXCEPT ![w] = r], PlacedRequest(req[w])',
         mailed \subseteq mailed', accounts \subseteq accounts', members \subseteq members',
         \A l \in Link : links[l] \in Row => links'[l] \in Row
  PROVE  PlacedInv'
<1> SUFFICES ASSUME NEW x \in Worker
             PROVE  PlacedRequest(req[x])'
  BY DEF PlacedInv
<1>1. CASE x = w
  BY <1>1
<1>2. CASE x # w
  <2>1. req'[x] = req[x] /\ PlacedRequest(req[x]) /\ mailed \subseteq Link
    BY <1>2 DEF SignupInv, TypeOK, PlacedInv
  <2> QED BY <2>1 DEF PlacedRequest, Past
<1> QED BY <1>1, <1>2

(* A worker's step that leaves the tables alone. *)
LEMMA RequestStep ==
  ASSUME SignupInv, UNCHANGED <<now, users, accounts, members, links, mailed, issued>>, raced' \subseteq Email,
         failures' \in 0 .. MaxFailures,
         NEW w \in Worker, NEW r \in Request,
         req' = [req EXCEPT ![w] = r], PlacedRequest(r)
  PROVE  SignupInv'
<1>1. TypeOK'
  BY DEF SignupInv, TypeOK
<1>2. PlacedRequest(req[w])'
  BY DEF SignupInv, TypeOK, PlacedRequest
<1>3. PlacedInv'
  BY <1>2, PlacedStep
<1>4. IdentityInv'
  BY DEF SignupInv, IdentityInv, Taken
<1> QED BY <1>1, <1>3, <1>4 DEF SignupInv

LEMMA IdleRequest == Idle \in Request /\ Idle.pc = "idle" /\ PlacedRequest(Idle)
BY DEF Idle, Request, PlacedRequest, Past

(* A session is issued, for the fallback or for a membership. *)
LEMMA IssueStep ==
  ASSUME SignupInv, UNCHANGED <<now, users, accounts, members, mailed, raced>>,
         failures' \in 0 .. MaxFailures,
         NEW w \in Worker, req[w].pc \in Past,
         NEW i \in members \cup {Fallback}, Issue(w, i)
  PROVE  SignupInv'
<1>1. /\ req[w].email \in Email /\ req[w].link \in Link /\ links[req[w].link] \in Row
      /\ req' = [req EXCEPT ![w] = Idle]
  BY DEF SignupInv, PlacedInv, PlacedRequest, Issue, Done, TypeOK, Past
<1>2. links' \in [Link -> Row \cup {NoRow}] /\ \A l \in Link : links[l] \in Row => links'[l] \in Row
  <2> DEFINE d == IF req[w].pc = "identity" THEN links[req[w].link].done ELSE links[req[w].link].done + 1
             row == [links[req[w].link] EXCEPT !.done = d]
  <2>1. d \in Nat
    BY <1>1 DEF Row
  <2> HIDE DEF d
  <2>2. row \in Row
    BY <1>1, <2>1 DEF Row
  <2>3. links' = [links EXCEPT ![req[w].link] = row]
    BY <1>1 DEF Issue, SignupInv, TypeOK, d
  <2> HIDE DEF row
  <2> QED BY <1>1, <2>2, <2>3 DEF SignupInv, TypeOK
<1>3. /\ issued' = [issued EXCEPT ![req[w].email] = @ \cup {i}]
      /\ i \in Slug \cup Uuid \cup {Fallback}
  BY DEF Issue, SignupInv, TypeOK
<1>4. TypeOK'
  BY <1>1, <1>2, <1>3, IdleRequest DEF SignupInv, TypeOK
<1>5. PlacedRequest(req[w])'
  BY <1>1, IdleRequest DEF SignupInv, TypeOK, PlacedRequest, Past
<1>6. PlacedInv'
  BY <1>1, <1>2, <1>5, PlacedStep
<1>7. IdentityInv'
  BY <1>1, <1>3 DEF SignupInv, TypeOK, IdentityInv, Taken
<1> QED BY <1>4, <1>6, <1>7 DEF SignupInv

-----------------------------------------------------------------------------
LEMMA SignupNext == SignupInv /\ [Next]_vars => SignupInv'
<1> SUFFICES ASSUME SignupInv, [Next]_vars
             PROVE  SignupInv'
  OBVIOUS
<1>t. TypeOK
  BY DEF SignupInv
<1>f. failures \in 0 .. MaxFailures /\ now \in Nat
  BY <1>t, SignupAssumption DEF TypeOK
<1>r. UNCHANGED raced => raced' \subseteq Email
  BY <1>t DEF TypeOK
<1>w. ASSUME NEW w \in Worker
      PROVE  /\ req[w] \in Request /\ PlacedRequest(req[w])
             /\ req[w].pc # "idle" => req[w].link \in Link
  BY <1>t, <1>w DEF SignupInv, PlacedInv, PlacedRequest, TypeOK
<1>1. CASE Tick
  BY <1>1, <1>t, SignupAssumption DEF Tick, SignupInv, TypeOK, PlacedInv, PlacedRequest, IdentityInv, Taken
<1>2. ASSUME NEW e \in Email, NEW l \in Link, NEW u \in Uuid, Register(e, u, l)
      PROVE  SignupInv'
  <2>1. Taken \subseteq Taken'
    BY <1>2, <1>t, TakenGrows DEF Register, UserId
  <2>2. TypeOK'
    BY <1>2, <1>t DEF Register, TypeOK, UserId
  <2>3. PlacedInv'
    BY <1>2 DEF Register, SignupInv, PlacedInv, PlacedRequest
  <2>4. IdentityInv'
    BY <1>2, <2>1 DEF Register, SignupInv, IdentityInv
  <2> QED BY <2>2, <2>3, <2>4 DEF SignupInv
<1>3. ASSUME NEW e \in Email, NEW l \in Link, RequestSignup(e, l)
      PROVE  SignupInv'
  <2> DEFINE row == [email |-> e, exp |-> now + TTL, state |-> "pending", done |-> 0]
  <2>1. row \in Row
    BY <1>f, SignupAssumption DEF Row
  <2>2. links' = [links EXCEPT ![l] = row]
    BY <1>3 DEF RequestSignup
  <2> HIDE DEF row
  <2>3. TypeOK'
    BY <1>3, <1>t, <2>1, <2>2 DEF RequestSignup, TypeOK
  <2>4. \A k \in Link : links[k] \in Row => links'[k] \in Row
    BY <1>t, <2>1, <2>2 DEF TypeOK
  <2>5. PlacedInv'
    <3> SUFFICES ASSUME NEW w \in Worker
                 PROVE  PlacedRequest(req[w])'
      BY DEF PlacedInv
    <3> QED BY <1>3, <1>w, <2>4 DEF RequestSignup, PlacedRequest, Past
  <2>6. IdentityInv'
    BY <1>3 DEF RequestSignup, SignupInv, IdentityInv, Taken
  <2> QED BY <2>3, <2>5, <2>6 DEF SignupInv
<1>4. ASSUME NEW w \in Worker, NEW l \in Link, VerifySignup(w, l)
      PROVE  SignupInv'
  <2> DEFINE r == [Idle EXCEPT !.pc = "find", !.link = l]
  <2>1. r \in Request /\ PlacedRequest(r)
    BY <1>4 DEF VerifySignup, Idle, Request, PlacedRequest, Past
  <2> QED BY <1>4, <1>f, <1>r, <2>1, RequestStep DEF VerifySignup
<1>5. ASSUME NEW w \in Worker, FindVerification(w)
      PROVE  SignupInv'
  <2>1. CASE Done(w)
    BY <1>5, <1>f, <1>r, <2>1, IdleRequest, RequestStep DEF FindVerification, Done
  <2>2. CASE ~Done(w)
    <3> DEFINE row == links[req[w].link]
               next == IF row.state = "pending" THEN "mark" ELSE "identity"
               r == [req[w] EXCEPT !.pc = next, !.email = row.email]
    <3>1. req[w] \in Request /\ req[w].link \in mailed /\ req[w].link \in Link
      BY <1>5, <1>w DEF FindVerification, PlacedRequest
    <3>2. row \in Row /\ row.email \in Email
      BY <1>5, <1>t, <2>2, <3>1 DEF FindVerification, TypeOK, Row
    <3>3. req' = [req EXCEPT ![w] = r]
      BY <1>5, <1>t, <2>2 DEF FindVerification, TypeOK
    <3>4. next \in {"mark", "identity"}
      OBVIOUS
    <3> HIDE DEF next
    <3>5. r \in Request /\ r.pc = next /\ r.email = row.email /\ r.link = req[w].link
      BY <3>1, <3>2, <3>4 DEF Request
    <3>6. PlacedRequest(r)
      BY <3>1, <3>2, <3>4, <3>5 DEF PlacedRequest
    <3> HIDE DEF r
    <3> QED BY <1>5, <1>f, <1>r, <3>3, <3>5, <3>6, RequestStep DEF FindVerification
  <2> QED BY <2>1, <2>2
<1>6. ASSUME NEW w \in Worker, FindProvisionedIdentity(w)
      PROVE  SignupInv'
  <2>1. CASE users[req[w].email] \in members
    BY <1>6, <1>f, <2>1, IssueStep DEF FindProvisionedIdentity, Past
  <2>2. CASE users[req[w].email] \notin members
    BY <1>6, <1>f, <1>r, <2>2, IdleRequest, RequestStep DEF FindProvisionedIdentity, Done
  <2> QED BY <2>1, <2>2
<1>7. ASSUME NEW w \in Worker, MarkVerification(w)
      PROVE  SignupInv'
  <2> DEFINE l == req[w].link
             row == [links[l] EXCEPT !.state = "verified"]
             r == [req[w] EXCEPT !.pc = "close"]
  <2>1. /\ req[w] \in Request /\ l \in mailed /\ l \in Link /\ req[w].email \in Email /\ links[l] \in Row
    BY <1>7, <1>w DEF MarkVerification, PlacedRequest, Past
  <2>2. row \in Row
    BY <2>1 DEF Row
  <2>3. links' = [links EXCEPT ![l] = row] /\ req' = [req EXCEPT ![w] = r]
    BY <1>7, <1>t DEF MarkVerification, GoOn, TypeOK
  <2>4. r \in Request /\ r.pc = "close" /\ r.email = req[w].email /\ r.link = l
    BY <2>1 DEF Request
  <2> HIDE DEF row, r
  <2>5. TypeOK'
    BY <1>7, <1>t, <2>1, <2>2, <2>3, <2>4 DEF MarkVerification, TypeOK
  <2>6. \A k \in Link : links[k] \in Row => links'[k] \in Row
    BY <1>t, <2>1, <2>2, <2>3 DEF TypeOK
  <2>7. UNCHANGED <<users, accounts, members, mailed, issued>>
    BY <1>7 DEF MarkVerification
  <2>8. PlacedInv'
    <3> SUFFICES ASSUME NEW x \in Worker
                 PROVE  PlacedRequest(req[x])'
      BY DEF PlacedInv
    <3>1. req'[x] = IF x = w THEN r ELSE req[x]
      BY <1>t, <2>3 DEF TypeOK
    <3> QED BY <3>1, <1>w, <2>1, <2>4, <2>6, <2>7 DEF PlacedRequest, Past
  <2>9. IdentityInv'
    BY <2>7 DEF SignupInv, IdentityInv, Taken
  <2> QED BY <2>5, <2>8, <2>9 DEF SignupInv
<1>8. ASSUME NEW w \in Worker, MarkSignupRequest(w)
      PROVE  SignupInv'
  <2> DEFINE r == [req[w] EXCEPT !.pc = "user"]
  <2>1. req[w] \in Request /\ req[w].pc = "close" /\ PlacedRequest(req[w])
    BY <1>8, <1>w DEF MarkSignupRequest
  <2>2. r \in Request /\ r.pc = "user" /\ r.email = req[w].email /\ r.link = req[w].link
    BY <2>1 DEF Request
  <2>3. req' = [req EXCEPT ![w] = r]
    BY <1>8, <1>t DEF MarkSignupRequest, GoOn, TypeOK
  <2> HIDE DEF r
  <2>4. PlacedRequest(r)
    BY <2>1, <2>2 DEF PlacedRequest, Past
  <2> QED BY <1>8, <1>f, <1>r, <2>2, <2>3, <2>4, RequestStep DEF MarkSignupRequest
<1>15. ASSUME NEW w \in Worker, CheckEmail(w)
       PROVE  SignupInv'
  <2> DEFINE next == IF users[req[w].email] = NoUser THEN "insert" ELSE "account"
             r == [req[w] EXCEPT !.pc = next]
  <2>1. /\ req[w] \in Request /\ req[w].pc = "user" /\ PlacedRequest(req[w])
        /\ req[w].email \in Email
    BY <1>15, <1>w DEF CheckEmail, PlacedRequest, Past
  <2>2. next \in {"insert", "account"}
    OBVIOUS
  <2>3. req' = [req EXCEPT ![w] = r]
    BY <1>15, <1>t DEF CheckEmail, GoOn, TypeOK
  <2> HIDE DEF next
  <2>4. r \in Request /\ r.pc = next /\ r.email = req[w].email /\ r.link = req[w].link
    BY <2>1, <2>2 DEF Request
  <2>5. raced' \subseteq Email
    BY <1>15, <1>t, <2>1 DEF CheckEmail, TypeOK
  <2> HIDE DEF r
  <2>6. PlacedRequest(r)
    BY <2>1, <2>2, <2>4 DEF PlacedRequest, Past
  <2>7. UNCHANGED <<now, users, accounts, members, links, mailed, issued, failures>>
    BY <1>15 DEF CheckEmail
  <2> QED BY <1>f, <2>3, <2>4, <2>5, <2>6, <2>7, RequestStep
<1>9. ASSUME NEW w \in Worker, InsertUser(w)
      PROVE  SignupInv'
  <2> DEFINE e == req[w].email
             r == [req[w] EXCEPT !.pc = "account"]
  <2>1. /\ req[w] \in Request /\ req[w].pc = "insert" /\ PlacedRequest(req[w]) /\ e \in Email
        /\ SlugOf[e] \in UserId
    BY <1>9, <1>w, SignupAssumption DEF InsertUser, PlacedRequest, Past, UserId
  <2>2. CASE SlugOf[e] \in Taken
    BY <1>9, <1>f, <2>1, <2>2, IssueStep DEF InsertUser, Past
  <2>3. CASE SlugOf[e] \notin Taken
    <3>1. /\ req' = [req EXCEPT ![w] = r]
          /\ users' = [users EXCEPT ![e] = IF @ = NoUser THEN SlugOf[e] ELSE @]
          /\ UNCHANGED <<now, accounts, members, links, mailed, issued, raced, failures>>
      BY <1>9, <1>t, <2>3 DEF InsertUser, GoOn, TypeOK
    <3>2. r \in Request /\ r.pc = "account" /\ r.email = e /\ r.link = req[w].link
      BY <2>1 DEF Request
    <3> HIDE DEF r
    <3>3. TypeOK'
      BY <1>t, <2>1, <3>1, <3>2 DEF TypeOK
    <3>4. PlacedRequest(req[w])'
      <4>1. req'[w] = r
        BY <1>t, <3>1 DEF TypeOK
      <4> QED BY <2>1, <3>1, <3>2, <4>1 DEF PlacedRequest, Past
    <3>5. PlacedInv'
      BY <3>1, <3>4, PlacedStep
    <3>6. Taken \subseteq Taken'
      <4>1. CASE users[e] = NoUser
        BY <1>t, <2>1, <3>1, <4>1, TakenGrows
      <4>2. CASE users[e] # NoUser
        <5>1. users' = users
          BY <1>t, <2>1, <3>1, <4>2 DEF TypeOK
        <5> QED BY <5>1 DEF Taken
      <4> QED BY <4>1, <4>2
    <3>7. IdentityInv'
      BY <3>1, <3>6 DEF SignupInv, IdentityInv
    <3> QED BY <3>3, <3>5, <3>7 DEF SignupInv
  <2> QED BY <2>2, <2>3
<1>10. ASSUME NEW w \in Worker, InsertAccount(w)
       PROVE  SignupInv'
  <2> DEFINE r == [req[w] EXCEPT !.pc = "member"]
  <2>1. /\ req[w] \in Request /\ req[w].pc = "account" /\ PlacedRequest(req[w])
        /\ req[w].email \in Email /\ SlugOf[req[w].email] \in Slug
    BY <1>10, <1>w, SignupAssumption DEF InsertAccount, PlacedRequest, Past
  <2>2. req' = [req EXCEPT ![w] = r]
    BY <1>10, <1>t DEF InsertAccount, GoOn, TypeOK
  <2>3. r \in Request /\ r.pc = "member" /\ r.email = req[w].email /\ r.link = req[w].link
    BY <2>1 DEF Request
  <2> HIDE DEF r
  <2>4. /\ accounts' = accounts \cup {SlugOf[r.email]}
        /\ UNCHANGED <<now, users, members, links, mailed, issued, raced, failures>>
    BY <1>10, <2>3 DEF InsertAccount
  <2>5. TypeOK'
    BY <1>t, <2>1, <2>2, <2>3, <2>4 DEF TypeOK
  <2>6. PlacedRequest(req[w])'
    <3>1. req'[w] = r
      BY <1>t, <2>2 DEF TypeOK
    <3> QED BY <2>1, <2>3, <2>4, <3>1 DEF PlacedRequest, Past
  <2>7. PlacedInv'
    BY <2>2, <2>4, <2>6, PlacedStep
  <2>8. IdentityInv'
    BY <2>4 DEF SignupInv, IdentityInv, Taken
  <2> QED BY <2>5, <2>7, <2>8 DEF SignupInv
<1>11. ASSUME NEW w \in Worker, InsertMembership(w)
       PROVE  SignupInv'
  <2> DEFINE s == SlugOf[req[w].email]
             r == [req[w] EXCEPT !.pc = "step"]
  <2>1. /\ req[w] \in Request /\ req[w].pc = "member" /\ PlacedRequest(req[w])
        /\ req[w].email \in Email /\ s \in Slug /\ s \in accounts
    BY <1>11, <1>w, SignupAssumption DEF InsertMembership, PlacedRequest, Past
  <2>2. CASE s \notin members \cup Taken
    BY <1>11, <1>f, <2>1, <2>2, IssueStep DEF InsertMembership, Past
  <2>3. CASE s \in members \cup Taken
    <3>1. req' = [req EXCEPT ![w] = r]
      BY <1>11, <1>t, <2>3 DEF InsertMembership, GoOn, TypeOK
    <3>2. r \in Request /\ r.pc = "step" /\ r.email = req[w].email /\ r.link = req[w].link
      BY <2>1 DEF Request
    <3> HIDE DEF r
    <3>3. /\ members' = members \cup {s}
          /\ UNCHANGED <<now, users, accounts, links, mailed, issued, raced, failures>>
      BY <1>11, <2>3 DEF InsertMembership
    <3>4. TypeOK'
      BY <1>t, <2>1, <3>1, <3>2, <3>3 DEF TypeOK
    <3>5. PlacedRequest(req[w])'
      <4>1. req'[w] = r
        BY <1>t, <3>1 DEF TypeOK
      <4> QED BY <2>1, <3>2, <3>3, <4>1 DEF PlacedRequest, Past
    <3>6. PlacedInv'
      BY <3>1, <3>3, <3>5, PlacedStep
    <3>7. IdentityInv'
      BY <2>1, <2>3, <3>3 DEF SignupInv, IdentityInv, Taken
    <3> QED BY <3>4, <3>6, <3>7 DEF SignupInv
  <2> QED BY <2>2, <2>3
<1>12. ASSUME NEW w \in Worker, InsertStep(w)
       PROVE  SignupInv'
  <2>1. req[w].pc \in Past /\ SlugOf[req[w].email] \in members
    BY <1>12, <1>w DEF InsertStep, PlacedRequest, Past
  <2> QED BY <1>12, <1>f, <2>1, IssueStep DEF InsertStep
<1>13. ASSUME NEW w \in Worker, Fail(w)
       PROVE  SignupInv'
  <2>1. failures' \in 0 .. MaxFailures
    BY <1>13, <1>f, SignupAssumption DEF Fail
  <2>2. CASE Done(w) /\ UNCHANGED <<issued, links>>
    BY <1>13, <1>r, <2>1, <2>2, IdleRequest, RequestStep DEF Fail, Done
  <2>3. CASE req[w].pc \in {"user", "insert", "account", "member", "step"} /\ Issue(w, Fallback)
    BY <1>13, <2>1, <2>3, IssueStep DEF Fail, Past
  <2> QED BY <1>13, <2>2, <2>3 DEF Fail
<1>14. CASE UNCHANGED vars
  BY <1>14 DEF vars, SignupInv, TypeOK, PlacedInv, PlacedRequest, IdentityInv, Taken
<1> QED BY <1>1, <1>2, <1>3, <1>4, <1>5, <1>6, <1>7, <1>8, <1>9, <1>10, <1>11, <1>12, <1>13, <1>14, <1>15
     DEF Next

LEMMA SignupInvariant == Spec => []SignupInv
BY SignupInit, SignupNext, PTL DEF Spec

-----------------------------------------------------------------------------
(* The completions of a link. *)
LEMMA CompletingFinite ==
  ASSUME NEW l
  PROVE  /\ IsFiniteSet(Completing(l)) /\ Cardinality(Completing(l)) \in Nat
         /\ Cardinality(Completing(l)) <= Cardinality(Worker) /\ Cardinality(Worker) \in Nat
<1>1. Completing(l) \subseteq Worker
  BY DEF Completing
<1> QED BY <1>1, FS_Subset, FS_CardinalityType, SignupAssumption

LEMMA CompletingFinitePrimed ==
  ASSUME NEW l
  PROVE  /\ IsFiniteSet(Completing(l)') /\ Cardinality(Completing(l)') \in Nat
         /\ Cardinality(Completing(l)') <= Cardinality(Worker)
<1>1. Completing(l)' \subseteq Worker
  BY DEF Completing
<1> QED BY <1>1, FS_Subset, FS_CardinalityType, SignupAssumption

LEMMA LinkTyped ==
  ASSUME TypeOK, NEW l \in Link
  PROVE  links[l].done \in Nat /\ links[l].state \in {"pending", "verified"}
BY DEF TypeOK, Row, NoRow

(* A request goes on or ends, the links staying as they are; none newly *)
(* sets out for a completion.                                           *)
LEMMA GoingOn ==
  ASSUME SignupInv, CompletionsInv, UNCHANGED links, NEW w \in Worker, NEW r,
         req' = [req EXCEPT ![w] = r],
         r.pc \in {"mark"} \cup Marked =>
           r.link = req[w].link /\ req[w].pc \in {"mark"} \cup Marked,
         r.pc \in Marked => links[r.link].state = "verified"
  PROVE  CompletionsInv'
<1>1. \A x \in Worker : req'[x] = IF x = w THEN r ELSE req[x]
  BY DEF SignupInv, TypeOK
<1>2. ASSUME NEW l \in Link
      PROVE  links'[l].done + Cardinality(Completing(l))' <= Cardinality(Worker)
  <2>1. Completing(l)' \subseteq Completing(l)
    BY <1>1 DEF Completing
  <2>2. Cardinality(Completing(l)') <= Cardinality(Completing(l))
    BY <2>1, CompletingFinite, FS_Subset
  <2>3. links[l].done \in Nat
    BY LinkTyped DEF SignupInv
  <2>4. links[l].done + Cardinality(Completing(l)) <= Cardinality(Worker)
    BY DEF CompletionsInv
  <2>5. Cardinality(Completing(l))' = Cardinality(Completing(l)')
    OBVIOUS
  <2> QED BY <2>2, <2>3, <2>4, <2>5, CompletingFinite, CompletingFinitePrimed
<1>3. \A l \in Link : links'[l].state = "pending" => links'[l].done = 0
  BY DEF CompletionsInv
<1>4. \A x \in Worker : req'[x].pc \in Marked => links'[req'[x].link].state = "verified"
  BY <1>1 DEF CompletionsInv
<1> QED BY <1>2, <1>3, <1>4 DEF CompletionsInv

LEMMA Ending ==
  ASSUME SignupInv, CompletionsInv, UNCHANGED links, NEW w \in Worker, Done(w)
  PROVE  CompletionsInv'
BY IdleRequest, GoingOn DEF Done, Marked

(* A request that reached the provisioning completes the link. *)
LEMMA CompletingOne ==
  ASSUME SignupInv, CompletionsInv, NEW w \in Worker, req[w].pc \in Marked, NEW i, Issue(w, i)
  PROVE  CompletionsInv'
<1>1. /\ PlacedRequest(req[w]) /\ req[w].link \in Link /\ req[w].pc # "identity"
      /\ links[req[w].link].state = "verified" /\ Done(w)
  BY DEF SignupInv, TypeOK, PlacedInv, PlacedRequest, CompletionsInv, Issue, Marked
<1>2. PICK l \in Link : l = req[w].link
  BY <1>1
<1>3. \A k \in Link : /\ links'[k].done = IF k = l THEN links[k].done + 1 ELSE links[k].done
                      /\ links'[k].state = links[k].state
  <2>1. links' = [links EXCEPT ![l].done = @ + 1]
    BY <1>1, <1>2 DEF Issue
  <2>2. links[l] \in Row \cup {NoRow}
    BY DEF SignupInv, TypeOK
  <2>3. links[l] \in Row
    BY <1>1, <1>2 DEF PlacedRequest, Marked, Past
  <2>4. links' = [links EXCEPT ![l] = [links[l] EXCEPT !.done = links[l].done + 1]]
    BY <2>1 DEF SignupInv, TypeOK
  <2>5. /\ [links[l] EXCEPT !.done = links[l].done + 1].done = links[l].done + 1
        /\ [links[l] EXCEPT !.done = links[l].done + 1].state = links[l].state
    BY <2>3 DEF Row
  <2> HIDE <2>1
  <2> QED BY <2>4, <2>5 DEF SignupInv, TypeOK
<1>4. \A x \in Worker : req'[x] = IF x = w THEN Idle ELSE req[x]
  BY <1>1 DEF Done, SignupInv, TypeOK
<1>5. ASSUME NEW k \in Link
      PROVE  /\ links'[k].done + Cardinality(Completing(k))' <= Cardinality(Worker)
             /\ links'[k].state = "pending" => links'[k].done = 0
  <2>1. Completing(k)' = Completing(k) \ {w}
    BY <1>4, IdleRequest DEF Completing, Marked
  <2>2. Cardinality(Completing(k))' = Cardinality(Completing(k) \ {w})
    BY <2>1
  <2>3. links[k].done \in Nat
    BY LinkTyped DEF SignupInv
  <2>4. /\ links[k].done + Cardinality(Completing(k)) <= Cardinality(Worker)
        /\ links[k].state = "pending" => links[k].done = 0
    BY DEF CompletionsInv
  <2>5. CASE k = l
    <3>1. w \in Completing(k)
      BY <1>2, <2>5 DEF Completing
    <3>2. Cardinality(Completing(k) \ {w}) = Cardinality(Completing(k)) - 1
      BY <3>1, CompletingFinite, FS_RemoveElement
    <3>3. links'[k].done + Cardinality(Completing(k))' = links[k].done + Cardinality(Completing(k))
      BY <1>3, <2>2, <2>3, <2>5, <3>2, CompletingFinite
    <3> QED BY <1>1, <1>2, <1>3, <2>4, <2>5, <3>3
  <2>6. CASE k # l
    <3>1. Completing(k) \ {w} = Completing(k)
      BY <1>2, <2>6 DEF Completing
    <3> QED BY <1>3, <2>2, <2>4, <2>6, <3>1
  <2> QED BY <2>5, <2>6
<1>6. \A x \in Worker : req'[x].pc \in Marked => links'[req'[x].link].state = "verified"
  <2> SUFFICES ASSUME NEW x \in Worker, req'[x].pc \in Marked
               PROVE  links'[req'[x].link].state = "verified"
    OBVIOUS
  <2>1. x # w /\ req'[x] = req[x]
    BY <1>4, IdleRequest DEF Marked
  <2>2. req[x].link \in Link /\ links[req[x].link].state = "verified"
    BY <2>1 DEF SignupInv, TypeOK, PlacedInv, PlacedRequest, CompletionsInv, Marked
  <2> QED BY <1>3, <2>1, <2>2
<1> QED BY <1>5, <1>6 DEF CompletionsInv

LEMMA CompletionsInit == Init => CompletionsInv
<1> SUFFICES ASSUME Init
             PROVE  CompletionsInv
  OBVIOUS
<1>1. ASSUME NEW l \in Link
      PROVE  links[l].done + Cardinality(Completing(l)) <= Cardinality(Worker) /\ links[l].done = 0
  <2>1. links[l].done = 0
    BY DEF Init, NoRow
  <2> QED BY <2>1, CompletingFinite
<1>2. \A w \in Worker : req[w].pc \notin Marked
  BY DEF Init, Idle, Marked
<1> QED BY <1>1, <1>2 DEF CompletionsInv

LEMMA CompletionsNext == SignupInv /\ CompletionsInv /\ [Next]_vars => CompletionsInv'
<1> SUFFICES ASSUME SignupInv, CompletionsInv, [Next]_vars
             PROVE  CompletionsInv'
  OBVIOUS
<1>t. TypeOK
  BY DEF SignupInv
<1>u. ASSUME UNCHANGED <<links, req>>
      PROVE  CompletionsInv'
  <2>1. \A l : Completing(l)' = Completing(l)
    BY <1>u DEF Completing
  <2> QED BY <1>u, <2>1 DEF CompletionsInv
<1>g. ASSUME NEW w \in Worker, NEW pc, GoOn(w, pc), UNCHANGED links, pc \in Marked, req[w].pc \in Marked
      PROVE  CompletionsInv'
  <2> DEFINE r == [req[w] EXCEPT !.pc = pc]
  <2>1. req' = [req EXCEPT ![w] = r] /\ r.pc = pc /\ r.link = req[w].link
    BY <1>g, <1>t DEF GoOn, TypeOK, Request
  <2>2. links[req[w].link].state = "verified"
    BY <1>g DEF CompletionsInv
  <2> HIDE DEF r
  <2> QED BY <1>g, <2>1, <2>2, GoingOn
<1>1. CASE Tick
  BY <1>1, <1>u DEF Tick
<1>2. ASSUME NEW e \in Email, NEW l \in Link, NEW u \in Uuid, Register(e, u, l)
      PROVE  CompletionsInv'
  BY <1>2, <1>u DEF Register
<1>3. ASSUME NEW e \in Email, NEW l \in Link, RequestSignup(e, l)
      PROVE  CompletionsInv'
  <2>1. \A k \in Link : /\ k # l => links'[k] = links[k]
                        /\ k = l => links'[k].done = 0
    BY <1>3, <1>t DEF RequestSignup, TypeOK
  <2>2. \A k : Completing(k)' = Completing(k)
    BY <1>3 DEF RequestSignup, Completing
  <2>3. \A w \in Worker : req[w].pc \in Marked => req[w].link \in Link \ {l}
    BY <1>3 DEF RequestSignup, SignupInv, TypeOK, PlacedInv, PlacedRequest, Marked
  <2>4. ASSUME NEW k \in Link
        PROVE  links'[k].done + Cardinality(Completing(k))' <= Cardinality(Worker)
    BY <2>1, <2>2, CompletingFinite DEF CompletionsInv
  <2>5. UNCHANGED req
    BY <1>3 DEF RequestSignup
  <2> QED BY <2>1, <2>3, <2>4, <2>5 DEF CompletionsInv
<1>4. ASSUME NEW w \in Worker, NEW l \in Link, VerifySignup(w, l)
      PROVE  CompletionsInv'
  <2> DEFINE r == [Idle EXCEPT !.pc = "find", !.link = l]
  <2>1. r.pc = "find"
    BY DEF Idle
  <2>2. req' = [req EXCEPT ![w] = r] /\ UNCHANGED links
    BY <1>4 DEF VerifySignup
  <2> HIDE DEF r
  <2> QED BY <2>1, <2>2, GoingOn DEF Marked
<1>5. ASSUME NEW w \in Worker, FindVerification(w)
      PROVE  CompletionsInv'
  <2> DEFINE row == links[req[w].link]
  <2>1. /\ req[w].pc = "find" /\ UNCHANGED links /\ req[w].link \in Link
    BY <1>5, <1>t DEF FindVerification, SignupInv, PlacedInv, PlacedRequest, TypeOK
  <2>2. CASE Done(w)
    BY <2>1, <2>2, Ending
  <2>3. CASE ~Done(w)
    <3> DEFINE next == IF row.state = "pending" THEN "mark" ELSE "identity"
               r == [req[w] EXCEPT !.pc = next, !.email = row.email]
    <3>1. req' = [req EXCEPT ![w] = r] /\ r.pc = next /\ r.link = req[w].link
      BY <1>5, <1>t, <2>3 DEF FindVerification, TypeOK, Request
    <3>2. CASE row.state # "pending"
      <4>1. r.pc = "identity"
        BY <3>1, <3>2
      <4> HIDE DEF r
      <4> QED BY <2>1, <3>1, <4>1, GoingOn DEF Marked
    <3>3. CASE row.state = "pending"
      <4>1. r.pc = "mark"
        BY <3>1, <3>3
      <4> HIDE DEF r, next
      <4>2. \A x \in Worker : req'[x] = IF x = w THEN r ELSE req[x]
        BY <1>t, <3>1 DEF TypeOK
      <4>3. \A x \in Worker : req'[x].pc \in Marked => req[x].pc \in Marked /\ req'[x] = req[x]
        BY <4>1, <4>2 DEF Marked
      <4>4. ASSUME NEW k \in Link
            PROVE  links[k].done + Cardinality(Completing(k))' <= Cardinality(Worker)
        <5>1. CASE k = req[w].link
          <6>1. links[k].done = 0
            BY <3>3, <5>1 DEF CompletionsInv
          <6>2. Cardinality(Completing(k))' = Cardinality(Completing(k)')
            OBVIOUS
          <6> QED BY <6>1, <6>2, CompletingFinitePrimed
        <5>2. CASE k # req[w].link
          <6>1. Completing(k)' = Completing(k)
            BY <2>1, <3>1, <4>2, <5>2 DEF Completing, Marked
          <6> QED BY <6>1 DEF CompletionsInv
        <5> QED BY <5>1, <5>2
      <4> QED BY <2>1, <4>3, <4>4 DEF CompletionsInv
    <3> QED BY <3>2, <3>3
  <2> QED BY <2>2, <2>3
<1>6. ASSUME NEW w \in Worker, FindProvisionedIdentity(w)
      PROVE  CompletionsInv'
  <2>0. req[w].pc = "identity" /\ Done(w)
    BY <1>6 DEF FindProvisionedIdentity, Issue
  <2>1. UNCHANGED links /\ Done(w)
    <3>1. CASE UNCHANGED links
      BY <2>0, <3>1
    <3>2. CASE links' = [links EXCEPT ![req[w].link].done = @]
      <4>1. links[req[w].link] \in Row
        BY <2>0 DEF SignupInv, PlacedInv, PlacedRequest, Past
      <4>2. [links[req[w].link] EXCEPT !.done = links[req[w].link].done] = links[req[w].link]
        BY <4>1 DEF Row
      <4>3. links' = [links EXCEPT ![req[w].link] = links[req[w].link]]
        BY <1>t, <3>2, <4>2 DEF TypeOK
      <4> QED BY <1>t, <2>0, <4>3 DEF TypeOK
    <3> QED BY <1>6, <2>0, <3>1, <3>2 DEF FindProvisionedIdentity, Issue
  <2> QED BY <2>1, Ending
<1>7. ASSUME NEW w \in Worker, MarkVerification(w)
      PROVE  CompletionsInv'
  <2>1. PICK l \in Link : l = req[w].link
    BY <1>7, <1>t DEF MarkVerification, SignupInv, PlacedInv, PlacedRequest, TypeOK
  <2>2. links[l] \in Row /\ req[w] \in Request /\ req[w].pc = "mark"
    BY <1>7, <1>t, <2>1 DEF MarkVerification, SignupInv, PlacedInv, PlacedRequest, TypeOK, Past
  <2>3. \A k \in Link : /\ links'[k].done = links[k].done
                        /\ links'[k].state = IF k = l THEN "verified" ELSE links[k].state
    BY <1>7, <1>t, <2>1, <2>2 DEF MarkVerification, TypeOK, Row
  <2>4. \A x \in Worker : /\ req'[x].link = req[x].link
                          /\ req'[x].pc = IF x = w THEN "close" ELSE req[x].pc
    BY <1>7, <1>t DEF MarkVerification, GoOn, TypeOK, Request
  <2>5. \A k : Completing(k)' = Completing(k)
    BY <2>2, <2>4 DEF Completing, Marked
  <2>6. \A x \in Worker : req'[x].pc \in Marked => links'[req'[x].link].state = "verified"
    <3> SUFFICES ASSUME NEW x \in Worker, req'[x].pc \in Marked
                 PROVE  links'[req[x].link].state = "verified"
      BY <2>4
    <3>1. CASE x = w
      BY <2>1, <2>3, <3>1
    <3>2. CASE x # w
      <4>1. req[x].pc \in Marked /\ req[x].link \in Link
        BY <2>4, <3>2, <1>t DEF SignupInv, PlacedInv, PlacedRequest, TypeOK, Marked
      <4> QED BY <2>3, <4>1 DEF CompletionsInv
    <3> QED BY <3>1, <3>2
  <2> QED BY <2>3, <2>5, <2>6 DEF CompletionsInv
<1>8. ASSUME NEW w \in Worker, MarkSignupRequest(w)
      PROVE  CompletionsInv'
  BY <1>8, <1>g DEF MarkSignupRequest, Marked
<1>15. ASSUME NEW w \in Worker, CheckEmail(w)
       PROVE  CompletionsInv'
  <2>1. PICK pc \in {"insert", "account"} : GoOn(w, pc)
    BY <1>15 DEF CheckEmail
  <2> QED BY <1>15, <1>g, <2>1 DEF CheckEmail, Marked
<1>9. ASSUME NEW w \in Worker, InsertUser(w)
      PROVE  CompletionsInv'
  BY <1>9, <1>g, CompletingOne DEF InsertUser, Marked
<1>10. ASSUME NEW w \in Worker, InsertAccount(w)
       PROVE  CompletionsInv'
  BY <1>10, <1>g DEF InsertAccount, Marked
<1>11. ASSUME NEW w \in Worker, InsertMembership(w)
       PROVE  CompletionsInv'
  BY <1>11, <1>g, CompletingOne DEF InsertMembership, Marked
<1>12. ASSUME NEW w \in Worker, InsertStep(w)
       PROVE  CompletionsInv'
  BY <1>12, CompletingOne DEF InsertStep, Marked
<1>13. ASSUME NEW w \in Worker, Fail(w)
       PROVE  CompletionsInv'
  BY <1>13, Ending, CompletingOne DEF Fail, Marked
<1>14. CASE UNCHANGED vars
  BY <1>14, <1>u DEF vars
<1> QED BY <1>1, <1>2, <1>3, <1>4, <1>5, <1>6, <1>7, <1>8, <1>9, <1>10, <1>11, <1>12, <1>13, <1>14, <1>15
     DEF Next

-----------------------------------------------------------------------------
(* A signup gives its own identity. *)
LEMMA OwnInit == Init => OwnInv
BY SignupAssumption DEF Init, OwnInv, RacedInv, Idle

(* A step that sends no request to the insertion of a user keeps what is *)
(* known of those that are at it.                                        *)
LEMMA RacedStep ==
  ASSUME TypeOK, RacedInv, UNCHANGED <<users, raced>>, NEW w \in Worker, NEW r,
         req' = [req EXCEPT ![w] = r], r.pc # "insert"
  PROVE  RacedInv'
<1>1. \A x \in Worker : req'[x].pc = "insert" => req'[x] = req[x]
  BY DEF TypeOK
<1> QED BY <1>1 DEF RacedInv

(* A request goes on or ends without a session, or a statement has failed. *)
LEMMA OwnGoingOn ==
  ASSUME SignupInv, OwnInv, UNCHANGED <<users, raced>>, NEW w \in Worker, NEW r,
         req' = [req EXCEPT ![w] = r], r.pc # "insert", failures \in Nat,
         \/ failures' = failures + 1
         \/ /\ failures' = failures /\ UNCHANGED issued
            /\ r.pc \in {"account", "member", "step"} =>
                 r.email = req[w].email /\ req[w].pc \in {"account", "member", "step"}
  PROVE  OwnInv'
<1>1. (\A e \in Email : users'[e] \in Uuid \cup {NoUser, SlugOf[e]}) /\ RacedInv'
  BY RacedStep DEF OwnInv, SignupInv
<1>2. ASSUME failures' = 0, NEW e \in Email, Plain(e)'
      PROVE  /\ issued'[e] \subseteq Own(e)'
             /\ issued'[e] # {} => users'[e] = SlugOf[e]
             /\ \A x \in Worker : req'[x].email = e /\ req'[x].pc \in {"account", "member", "step"}
                                  => users'[e] = SlugOf[e]
  <2>1. failures = 0 /\ Plain(e) /\ UNCHANGED issued
        /\ (r.pc \in {"account", "member", "step"} =>
              r.email = req[w].email /\ req[w].pc \in {"account", "member", "step"})
    BY <1>2 DEF Plain
  <2>2. \A x \in Worker : req'[x] = IF x = w THEN r ELSE req[x]
    BY DEF SignupInv, TypeOK
  <2> QED BY <1>2, <2>1, <2>2 DEF OwnInv, Own
<1> QED BY <1>1, <1>2 DEF OwnInv

LEMMA OwnDone ==
  ASSUME SignupInv, OwnInv, UNCHANGED <<users, raced>>, NEW w \in Worker, Done(w), failures \in Nat,
         failures' = failures + 1 \/ (failures' = failures /\ UNCHANGED issued)
  PROVE  OwnInv'
BY IdleRequest, OwnGoingOn DEF Done

(* A session is issued, of the user of the address if its slug is its own, *)
(* or of the fallback to a request that was not alone.                     *)
LEMMA OwnIssue ==
  ASSUME SignupInv, OwnInv, UNCHANGED <<users, raced, failures>>,
         NEW w \in Worker, NEW i, Issue(w, i),
         failures = 0 /\ Plain(req[w].email) =>
           i \in Own(req[w].email) /\ users[req[w].email] = SlugOf[req[w].email]
  PROVE  OwnInv'
<1>1. \A x \in Worker : req'[x] = IF x = w THEN Idle ELSE req[x]
  BY DEF Issue, Done, SignupInv, TypeOK
<1>2. ASSUME NEW e \in Email, failures = 0, Plain(e)
      PROVE  /\ issued'[e] \subseteq Own(e)
             /\ issued'[e] # {} => users[e] = SlugOf[e]
  <2>1. issued'[e] = IF e = req[w].email THEN issued[e] \cup {i} ELSE issued[e]
    BY DEF Issue, SignupInv, TypeOK
  <2> QED BY <1>2, <2>1 DEF OwnInv
<1>3. ASSUME NEW e \in Email
      PROVE  Plain(e)' = Plain(e) /\ Own(e)' = Own(e)
  BY DEF Plain, Own
<1>4. RacedInv'
  BY IdleRequest, RacedStep DEF Issue, Done, OwnInv, SignupInv
<1> QED BY <1>1, <1>2, <1>3, <1>4, IdleRequest DEF OwnInv

LEMMA OwnNext == SignupInv /\ OwnInv /\ [Next]_vars => OwnInv'
<1> SUFFICES ASSUME SignupInv, OwnInv, [Next]_vars
             PROVE  OwnInv'
  OBVIOUS
<1>t. TypeOK
  BY DEF SignupInv
<1>f. failures \in Nat
  BY <1>t, SignupAssumption DEF TypeOK
<1>p. ASSUME NEW w \in Worker, req[w].pc \in Past
      PROVE  req[w].email \in Email
  BY <1>p DEF SignupInv, PlacedInv, PlacedRequest
<1>g. ASSUME NEW w \in Worker, NEW pc, GoOn(w, pc), pc # "insert",
             UNCHANGED <<users, issued, raced, failures>>,
             pc \in {"account", "member", "step"} => req[w].pc \in {"account", "member", "step"}
      PROVE  OwnInv'
  <2> DEFINE r == [req[w] EXCEPT !.pc = pc]
  <2>1. req' = [req EXCEPT ![w] = r] /\ r.pc = pc /\ r.email = req[w].email
    BY <1>g, <1>t DEF GoOn, TypeOK, Request
  <2> HIDE DEF r
  <2> QED BY <1>f, <1>g, <2>1, OwnGoingOn
<1>u. ASSUME UNCHANGED <<users, issued, raced, req, failures>>
      PROVE  OwnInv'
  BY <1>u DEF OwnInv, RacedInv, Plain, Own
<1>1. CASE Tick
  BY <1>1, <1>u DEF Tick
<1>2. ASSUME NEW e \in Email, NEW l \in Link, NEW u \in Uuid, Register(e, u, l)
      PROVE  OwnInv'
  <2>1. /\ \A x \in Email : users'[x] = IF x = e THEN u ELSE users[x]
        /\ UNCHANGED <<issued, raced, req, failures>>
    BY <1>2, <1>t DEF Register, TypeOK
  <2>2. ASSUME NEW x \in Email, Plain(x)'
        PROVE  x # e /\ Plain(x) /\ users'[x] = users[x]
    BY <2>1, <2>2 DEF Plain
  <2>3. RacedInv'
    <3>1. u # SlugOf[e]
      BY SignupAssumption
    <3>2. ASSUME NEW w \in Worker, req[w].pc = "insert"
          PROVE  req[w].email \in Email
      BY <3>2, <1>p DEF Past
    <3> QED BY <2>1, <3>1, <3>2 DEF OwnInv, RacedInv
  <2>4. \A x \in Email : Own(x)' = Own(x)
    BY <2>1 DEF Own
  <2> QED BY <2>1, <2>2, <2>3, <2>4 DEF OwnInv
<1>3. ASSUME NEW e \in Email, NEW l \in Link, RequestSignup(e, l)
      PROVE  OwnInv'
  BY <1>3, <1>u DEF RequestSignup
<1>4. ASSUME NEW w \in Worker, NEW l \in Link, VerifySignup(w, l)
      PROVE  OwnInv'
  <2> DEFINE r == [Idle EXCEPT !.pc = "find", !.link = l]
  <2>1. r.pc = "find" /\ req' = [req EXCEPT ![w] = r]
    BY <1>4 DEF Idle, VerifySignup
  <2> HIDE DEF r
  <2> QED BY <1>4, <1>f, <2>1, OwnGoingOn DEF VerifySignup
<1>5. ASSUME NEW w \in Worker, FindVerification(w)
      PROVE  OwnInv'
  <2>1. CASE Done(w)
    BY <1>5, <1>f, <2>1, OwnDone DEF FindVerification
  <2>2. CASE ~Done(w)
    <3> DEFINE row == links[req[w].link]
               r == [req[w] EXCEPT !.pc = IF row.state = "pending" THEN "mark" ELSE "identity",
                                   !.email = row.email]
    <3>1. req' = [req EXCEPT ![w] = r] /\ r.pc \in {"mark", "identity"}
      BY <1>5, <1>t, <2>2 DEF FindVerification, TypeOK, Request
    <3> HIDE DEF r
    <3> QED BY <1>5, <1>f, <3>1, OwnGoingOn DEF FindVerification
  <2> QED BY <2>1, <2>2
<1>6. ASSUME NEW w \in Worker, FindProvisionedIdentity(w)
      PROVE  OwnInv'
  <2>1. PICK e \in Email : e = req[w].email
    BY <1>6, <1>p DEF FindProvisionedIdentity, Past
  <2>2. CASE users[e] \in members
    <3>1. Plain(e) => users[e] = SlugOf[e]
      BY <2>1, <2>2 DEF SignupInv, IdentityInv, Taken, OwnInv, Plain
    <3> QED BY <1>6, <2>1, <2>2, <3>1, OwnIssue DEF FindProvisionedIdentity, Own
  <2>3. CASE users[e] \notin members
    BY <1>6, <1>f, <2>1, <2>3, OwnDone DEF FindProvisionedIdentity
  <2> QED BY <2>2, <2>3
<1>7. ASSUME NEW w \in Worker, MarkVerification(w)
      PROVE  OwnInv'
  BY <1>7, <1>g DEF MarkVerification
<1>8. ASSUME NEW w \in Worker, MarkSignupRequest(w)
      PROVE  OwnInv'
  BY <1>8, <1>g DEF MarkSignupRequest
<1>15. ASSUME NEW w \in Worker, CheckEmail(w)
       PROVE  OwnInv'
  <2>0. PICK e \in Email : e = req[w].email
    BY <1>15, <1>p DEF CheckEmail, Past
  <2>1. UNCHANGED <<users, issued, failures>> /\ raced \subseteq raced'
    BY <1>15 DEF CheckEmail
  <2>2. /\ \A x \in Worker : req'[x].email = req[x].email
        /\ \A x \in Worker : x # w => req'[x].pc = req[x].pc
        /\ req'[w].pc = IF users[e] = NoUser THEN "insert" ELSE "account"
    BY <1>15, <1>t, <2>0 DEF CheckEmail, GoOn, TypeOK, Request
  <2>3. RacedInv'
    <3>1. users[e] = NoUser => users[e] # SlugOf[e]
      BY SignupAssumption
    <3>2. users[e] = NoUser =>
            \A x \in Worker \ {w} : req[x].pc = "insert" /\ req[x].email = e => e \in raced'
      BY <1>15, <2>0 DEF CheckEmail
    <3> QED BY <2>0, <2>1, <2>2, <3>1, <3>2 DEF OwnInv, RacedInv
  <2>4. ASSUME NEW x \in Email, failures = 0, Plain(x), NEW y \in Worker,
               req'[y].email = x, req'[y].pc \in {"account", "member", "step"}
        PROVE  users[x] = SlugOf[x]
    <3>1. CASE y = w
      BY <2>0, <2>2, <2>4, <3>1 DEF OwnInv, Plain
    <3>2. CASE y # w
      BY <2>2, <2>4, <3>2 DEF OwnInv
    <3> QED BY <3>1, <3>2
  <2>5. \A x \in Email : Plain(x)' = Plain(x) /\ Own(x) \subseteq Own(x)'
    BY <2>1 DEF Plain, Own
  <2> QED BY <2>1, <2>3, <2>4, <2>5 DEF OwnInv
<1>9. ASSUME NEW w \in Worker, InsertUser(w)
      PROVE  OwnInv'
  <2>0. PICK e \in Email : e = req[w].email
    BY <1>9, <1>p DEF InsertUser, Past
  <2>1. CASE SlugOf[e] \in Taken
    <3>1. Plain(e) => users[e] = SlugOf[e]
      <4>1. PICK x \in Email : users[x] = SlugOf[e]
        BY <2>1 DEF Taken
      <4>2. users[x] \in {NoUser, SlugOf[x]} \cup Uuid /\ SlugOf[e] \in Slug /\ SlugOf[x] \in Slug
        BY SignupAssumption DEF OwnInv
      <4>3. SlugOf[x] = SlugOf[e]
        BY <4>1, <4>2, SignupAssumption
      <4> QED BY <4>1, <4>3 DEF Plain
    <3>2. Plain(e) => Fallback \in Own(e)
      BY <1>9, <2>0, <3>1 DEF InsertUser, OwnInv, RacedInv, Own
    <3> QED BY <1>9, <2>0, <2>1, <3>1, <3>2, OwnIssue DEF InsertUser
  <2>2. CASE SlugOf[e] \notin Taken
    <3>1. /\ \A x \in Email : users'[x] = IF x = e /\ users[e] = NoUser THEN SlugOf[e] ELSE users[x]
          /\ UNCHANGED <<issued, raced, failures>>
          /\ GoOn(w, "account")
      BY <1>9, <1>t, <2>0, <2>2 DEF InsertUser, TypeOK
    <3>2. \A x \in Worker : /\ req'[x].email = req[x].email
                            /\ req'[x].pc = IF x = w THEN "account" ELSE req[x].pc
      BY <1>t, <3>1 DEF GoOn, TypeOK, Request
    <3>3. ASSUME NEW x \in Email, Plain(x)'
          PROVE  Plain(x)
      BY <3>1, <3>3, SignupAssumption DEF Plain
    <3>4. ASSUME NEW x \in Email, failures = 0, Plain(x)
          PROVE  /\ issued[x] \subseteq Own(x)'
                 /\ issued[x] # {} => users'[x] = SlugOf[x]
      <4>1. issued[x] \subseteq Own(x) /\ (issued[x] # {} => users[x] = SlugOf[x])
        BY <3>4 DEF OwnInv
      <4>2. SlugOf[x] # NoUser
        BY SignupAssumption
      <4> QED BY <3>1, <4>1, <4>2 DEF Own
    <3>5. ASSUME NEW x \in Email, failures = 0, Plain(x), NEW y \in Worker,
                 req'[y].email = x, req'[y].pc \in {"account", "member", "step"}
          PROVE  users'[x] = SlugOf[x]
      <4>1. CASE y = w
        <5>1. x = e /\ users[e] \in {NoUser, SlugOf[e]}
          BY <2>0, <3>2, <3>5, <4>1 DEF OwnInv, Plain
        <5> QED BY <3>1, <5>1
      <4>2. CASE y # w
        <5>1. users[x] = SlugOf[x]
          BY <3>2, <3>5, <4>2 DEF OwnInv
        <5> QED BY <3>1, <5>1
      <4> QED BY <4>1, <4>2
    <3>6. \A x \in Email : users'[x] \in Uuid \cup {NoUser, SlugOf[x]}
      BY <3>1 DEF OwnInv
    <3>7. RacedInv'
      <4> SUFFICES ASSUME NEW x \in Worker, req'[x].pc = "insert"
                   PROVE  /\ users'[req[x].email] = SlugOf[req[x].email] => req[x].email \in raced
                          /\ \A y \in Worker \ {x} : req'[y].pc = "insert" /\ req[y].email = req[x].email
                                                     => req[x].email \in raced
        BY <3>1, <3>2 DEF RacedInv
      <4>1. x # w /\ req[x].pc = "insert" /\ req[w].pc = "insert" /\ req[x].email \in Email
        BY <1>9, <1>p, <3>2 DEF InsertUser, Past
      <4>2. CASE req[x].email = e
        BY <2>0, <4>1, <4>2 DEF OwnInv, RacedInv
      <4>3. CASE req[x].email # e
        BY <3>1, <3>2, <4>1, <4>3 DEF OwnInv, RacedInv
      <4> QED BY <4>2, <4>3
    <3> QED BY <3>1, <3>3, <3>4, <3>5, <3>6, <3>7 DEF OwnInv
  <2> QED BY <2>1, <2>2
<1>10. ASSUME NEW w \in Worker, InsertAccount(w)
       PROVE  OwnInv'
  BY <1>10, <1>g DEF InsertAccount
<1>11. ASSUME NEW w \in Worker, InsertMembership(w)
       PROVE  OwnInv'
  <2>1. PICK e \in Email : e = req[w].email
    BY <1>11, <1>p DEF InsertMembership, Past
  <2>2. CASE SlugOf[e] \in members \cup Taken
    BY <1>11, <1>g, <2>1, <2>2 DEF InsertMembership
  <2>3. CASE SlugOf[e] \notin members \cup Taken
    <3>1. ~(failures = 0 /\ Plain(e))
      <4> SUFFICES ASSUME failures = 0, Plain(e)
                   PROVE  SlugOf[e] \in Taken
        BY <2>3
      <4>1. users[e] = SlugOf[e]
        BY <1>11, <2>1 DEF InsertMembership, OwnInv
      <4>2. SlugOf[e] # NoUser
        BY SignupAssumption
      <4> QED BY <4>1, <4>2 DEF Taken
    <3> QED BY <1>11, <2>1, <2>3, <3>1, OwnIssue DEF InsertMembership
  <2> QED BY <2>2, <2>3
<1>12. ASSUME NEW w \in Worker, InsertStep(w)
       PROVE  OwnInv'
  <2>1. req[w].email \in Email /\ req[w].pc = "step"
    BY <1>12, <1>p DEF InsertStep, Past
  <2>2. failures = 0 /\ Plain(req[w].email) => SlugOf[req[w].email] = users[req[w].email]
    BY <2>1 DEF OwnInv
  <2> QED BY <1>12, <2>2, OwnIssue DEF InsertStep, Own
<1>13. ASSUME NEW w \in Worker, Fail(w)
       PROVE  OwnInv'
  BY <1>13, <1>f, OwnDone DEF Fail, Issue
<1>14. CASE UNCHANGED vars
  BY <1>14, <1>u DEF vars
<1> QED BY <1>1, <1>2, <1>3, <1>4, <1>5, <1>6, <1>7, <1>8, <1>9, <1>10, <1>11, <1>12, <1>13, <1>14, <1>15
     DEF Next

-----------------------------------------------------------------------------
(* Every variable keeps its type, for any addresses, links and requests. *)
THEOREM SignupTypeCorrect == Spec => []TypeOK
<1>1. SignupInv => TypeOK
  BY DEF SignupInv
<1> QED BY <1>1, SignupInvariant, PTL

(* A session of a signup is for the fallback or for an identity whose user, *)
(* account and membership exist, wherever verifications are cut short.      *)
THEOREM SignupIdentityExists == Spec => []SessionIdentityExists
<1>1. SignupInv => SessionIdentityExists
  BY DEF SignupInv, IdentityInv, SessionIdentityExists
<1> QED BY <1>1, SignupInvariant, PTL

(* While no statement fails, following a signup's links gives an address     *)
(* whose slug is its own, and that is not registered, its own identity only, *)
(* and a user of its own in any case; the exception is verifications of one  *)
(* address that insert its user at the same time.                            *)
THEOREM SignupsGetTheirIdentity == Spec => []SignupGivesOwnIdentity
<1>1. OwnInv => SignupGivesOwnIdentity
  BY DEF OwnInv, Own, SignupGivesOwnIdentity
<1> QED BY <1>1, OwnInit, OwnNext, SignupInvariant, PTL DEF Spec

(* No more answers say a link was verified than there are goroutines, however *)
(* often and by whomever it is followed.                                      *)
THEOREM CompletionsAreBounded == Spec => []CompletionsBounded
<1>1. SignupInv /\ CompletionsInv => CompletionsBounded
  <2> SUFFICES ASSUME SignupInv, CompletionsInv, NEW l \in Link
               PROVE  links[l].done <= Cardinality(Worker)
    BY DEF CompletionsBounded
  <2>1. links[l].done \in Nat
    BY LinkTyped DEF SignupInv
  <2> QED BY <2>1, CompletingFinite DEF CompletionsInv
<1> QED BY <1>1, CompletionsInit, CompletionsNext, SignupInvariant, PTL DEF Spec
=============================================================================
