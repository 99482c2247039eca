------------------------------- MODULE Signup -------------------------------
(***************************************************************************)
(* Registration, signup and provisioning (AuthService.Register,            *)
(* SignupService, the Postgres signup and provisioning repositories).  A   *)
(* signup mails a link; following it completes the verification, inserts a *)
(* user, an account, a membership and an onboarding step in four           *)
(* statements without a transaction, and issues a session for them.  Their *)
(* ids are made of a slug of the address, and an error of any of the four  *)
(* makes the session one of a fixed fallback identity.  Only the insertion *)
(* of the user is two steps: what its ON CONFLICT looks at and the unique  *)
(* index of the ids are not the same.                                      *)
(***************************************************************************)
EXTENDS Naturals, FiniteSets

CONSTANTS
  Email,
  Slug, SlugOf,  \* slugify: two addresses may have the same slug
  Uuid,          \* the ids registrations draw
  NoUser, NoEmail, NoLink, Fallback,
  Link,          \* the tokens ever mailed
  Worker,        \* goroutines serving verifications
  TTL,           \* life of a link
  MaxFailures,   \* bound on the statements that fail
  MaxTime        \* bound on the clock

ASSUME SignupAssumption ==
  /\ IsFiniteSet(Worker)
  /\ SlugOf \in [Email -> Slug]
  /\ Slug \cap Uuid = {} /\ {NoUser, Fallback} \cap (Slug \cup Uuid) = {} /\ NoUser # Fallback
  /\ NoEmail \notin Email /\ NoLink \notin Link
  /\ TTL \in Nat /\ MaxFailures \in Nat /\ MaxTime \in Nat

(* Provisioned users have the id "user_" and their slug, so the slug stands *)
(* for the user, for its account and for its membership.                    *)
UserId == Slug \cup Uuid

VARIABLES
  now,       \* the clock
  users,     \* users: the id of each address
  accounts,  \* accounts: the slugs that have one
  members,   \* memberships: the slugs that have one
  links,     \* email_verifications, by the token they were mailed with
  mailed,    \* history: the links mailed
  issued,    \* history: the identities of the sessions issued for each address
  raced,     \* history: the addresses two verifications inserted at a time
  req,       \* what each worker is doing
  failures   \* the statements that failed so far

vars == <<now, users, accounts, members, links, mailed, issued, raced, req, failures>>

Row == [email : Email, exp : Nat, state : {"pending", "verified"},
        done : Nat]   \* history: the answers that said it was verified
NoRow == [email |-> NoEmail, exp |-> 0, state |-> "pending", done |-> 0]

Request ==
  [pc    : {"idle", "find", "mark", "close", "user", "insert", "account", "member", "step",
            "identity"},
   link  : Link \cup {NoLink},
   email : Email \cup {NoEmail}]

Idle == [pc |-> "idle", link |-> NoLink, email |-> NoEmail]

Init ==
  /\ now = 0
  /\ users = [e \in Email |-> NoUser]
  /\ accounts = {} /\ members = {}
  /\ links = [l \in Link |-> NoRow]
  /\ mailed = {}
  /\ issued = [e \in Email |-> {}]
  /\ raced = {}
  /\ req = [w \in Worker |-> Idle]
  /\ failures = 0

Taken == {users[e] : e \in Email} \ {NoUser}

GoOn(w, pc) == req' = [req EXCEPT ![w].pc = pc]
Done(w)     == req' = [req EXCEPT ![w] = Idle]

(* The session is issued for the identity i. *)
Issue(w, i) ==
  /\ issued' = [issued EXCEPT ![req[w].email] = @ \cup {i}]
  /\ links' = [links EXCEPT ![req[w].link].done = IF req[w].pc = "identity" THEN @ ELSE @ + 1]
  /\ Done(w)

-----------------------------------------------------------------------------
(* Register: a user of a random id in one transaction, unless the address   *)
(* is taken.  The link it mails is one of a token it stores nowhere.        *)
Register(e, u, l) ==
  /\ users[e] = NoUser /\ u \in Uuid \ Taken
  /\ users' = [users EXCEPT ![e] = u]
  /\ l \in Link \ mailed
  /\ mailed' = mailed \cup {l}
  /\ UNCHANGED <<now, accounts, members, links, issued, raced, req, failures>>

(* Mutant: the verification is stored in the state of the request. *)
RequestSignupRequested(e, l) ==
  /\ l \in Link \ mailed
  /\ mailed' = mailed \cup {l}
  /\ links' = [links EXCEPT ![l] = [email |-> e, exp |-> now + TTL, state |-> "requested", done |-> 0]]
  /\ UNCHANGED <<now, users, accounts, members, issued, raced, req, failures>>

(* RequestSignup stores the request and its verification, then mails it. *)
RequestSignup(e, l) ==
  /\ l \in Link \ mailed
  /\ mailed' = mailed \cup {l}
  /\ links' = [links EXCEPT ![l] = [email |-> e, exp |-> now + TTL, state |-> "pending", done |-> 0]]
  /\ UNCHANGED <<now, users, accounts, members, issued, raced, req, failures>>

-----------------------------------------------------------------------------
VerifySignup(w, l) ==
  /\ req[w].pc = "idle"
  /\ l \in mailed
  /\ req' = [req EXCEPT ![w] = [Idle EXCEPT !.pc = "find", !.link = l]]
  /\ UNCHANGED <<now, users, accounts, members, links, mailed, issued, raced, failures>>

(* FindVerificationByTokenHash; the expiry comes before the state. *)
FindVerification(w) ==
  LET row == links[req[w].link]
  IN /\ req[w].pc = "find"
     /\ IF row = NoRow \/ row.exp < now THEN Done(w)
        ELSE req' = [req EXCEPT ![w].pc = IF row.state = "pending" THEN "mark" ELSE "identity",
                                ![w].email = row.email]
     /\ UNCHANGED <<now, users, accounts, members, links, mailed, issued, raced, failures>>

(* FindProvisionedIdentityByEmail for a link used before: a session for the *)
(* identity that has a membership.                                          *)
FindProvisionedIdentity(w) ==
  LET u == users[req[w].email]
  IN /\ req[w].pc = "identity"
     /\ IF u \in members THEN Issue(w, u) ELSE Done(w) /\ UNCHANGED <<issued, links>>
     /\ UNCHANGED <<now, users, accounts, members, mailed, raced, failures>>

(* Mutant: the verification stays pending. *)
MarkNothing(w) ==
  /\ req[w].pc = "mark"
  /\ GoOn(w, "close")
  /\ UNCHANGED <<now, users, accounts, members, links, mailed, issued, raced, failures>>

(* MarkVerificationCompleted: the verification, then the signup request, *)
(* whose state nothing reads.                                            *)
MarkVerification(w) ==
  /\ req[w].pc = "mark"
  /\ links' = [links EXCEPT ![req[w].link].state = "verified"]
  /\ GoOn(w, "close")
  /\ UNCHANGED <<now, users, accounts, members, mailed, issued, raced, failures>>

MarkSignupRequest(w) ==
  /\ req[w].pc = "close"
  /\ GoOn(w, "user")
  /\ UNCHANGED <<now, users, accounts, members, links, mailed, issued, raced, failures>>

(* Mutant: the insertion has no ON CONFLICT. *)
CheckNoEmail(w) ==
  /\ req[w].pc = "user"
  /\ GoOn(w, "insert")
  /\ UNCHANGED <<now, users, accounts, members, links, mailed, issued, raced, failures>>

(* ProvisionSignupIdentity: INSERT users ON CONFLICT (email) DO NOTHING.  A *)
(* user of the address is looked for first.                                 *)
CheckEmail(w) ==
  LET e == req[w].email
      others == {x \in Worker \ {w} : req[x].pc = "insert" /\ req[x].email = e}
  IN /\ req[w].pc = "user"
     /\ GoOn(w, IF users[e] = NoUser THEN "insert" ELSE "account")
     /\ raced' = IF users[e] = NoUser /\ others # {} THEN raced \cup {e} ELSE raced
     /\ UNCHANGED <<now, users, accounts, members, links, mailed, issued, failures>>

(* The row then goes into the indexes, that of the ids first.  ON CONFLICT   *)
(* does not name that one: a taken id is an error, be it another address's   *)
(* or the one a verification of the same address has inserted meanwhile.     *)
InsertUser(w) ==
  LET e == req[w].email
  IN /\ req[w].pc = "insert"
     /\ IF SlugOf[e] \in Taken
        THEN Issue(w, Fallback) /\ UNCHANGED users
        ELSE /\ GoOn(w, "account") /\ UNCHANGED <<issued, links>>
             /\ users' = [users EXCEPT ![e] = IF @ = NoUser THEN SlugOf[e] ELSE @]
     /\ UNCHANGED <<now, accounts, members, mailed, raced, failures>>

InsertAccount(w) ==
  /\ req[w].pc = "account"
  /\ accounts' = accounts \cup {SlugOf[req[w].email]}
  /\ GoOn(w, "member")
  /\ UNCHANGED <<now, users, members, links, mailed, issued, raced, failures>>

(* Mutant: a membership that is refused is passed over. *)
InsertMembershipOrNot(w) ==
  LET s == SlugOf[req[w].email]
  IN /\ req[w].pc = "member"
     /\ members' = IF s \in Taken THEN members \cup {s} ELSE members
     /\ GoOn(w, "step")
     /\ UNCHANGED <<now, users, accounts, links, mailed, issued, raced, failures>>

(* INSERT memberships ON CONFLICT (id) DO NOTHING: a new row must reference *)
(* a user of the slug's id.                                                 *)
InsertMembership(w) ==
  LET s == SlugOf[req[w].email]
  IN /\ req[w].pc = "member"
     /\ IF s \in members \cup Taken
        THEN members' = members \cup {s} /\ GoOn(w, "step") /\ UNCHANGED <<issued, links>>
        ELSE Issue(w, Fallback) /\ UNCHANGED members
     /\ UNCHANGED <<now, users, accounts, mailed, raced, failures>>

(* The onboarding step, of an id of its own, and the session. *)
InsertStep(w) ==
  /\ req[w].pc = "step"
  /\ Issue(w, SlugOf[req[w].email])
  /\ UNCHANGED <<now, users, accounts, members, mailed, raced, failures>>

(* A statement fails: before the provisioning the answer is an error (or,   *)
(* for a failed lookup, one without a session); during it the session is    *)
(* one of the fallback.                                                     *)
Fail(w) ==
  /\ failures < MaxFailures
  /\ failures' = failures + 1
  /\ \/ /\ req[w].pc \in {"find", "identity", "mark", "close"}
        /\ Done(w) /\ UNCHANGED <<issued, links>>
     \/ /\ req[w].pc \in {"user", "insert", "account", "member", "step"}
        /\ Issue(w, Fallback)
  /\ UNCHANGED <<now, users, accounts, members, mailed, raced>>

Tick ==
  /\ now < MaxTime
  /\ now' = now + 1
  /\ UNCHANGED <<users, accounts, members, links, mailed, issued, raced, req, failures>>

-----------------------------------------------------------------------------
Next ==
  \/ Tick
  \/ \E e \in Email, l \in Link :
       \/ \E u \in Uuid : Register(e, u, l)
       \/ RequestSignup(e, l)
  \/ \E w \in Worker :
       \/ \E l \in Link : VerifySignup(w, l)
       \/ FindVerification(w) \/ FindProvisionedIdentity(w)
       \/ MarkVerification(w) \/ MarkSignupRequest(w)
       \/ CheckEmail(w) \/ InsertUser(w) \/ InsertAccount(w) \/ InsertMembership(w) \/ InsertStep(w)
       \/ Fail(w)

Spec == Init /\ [][Next]_vars

-----------------------------------------------------------------------------
(* Every variable has its type. *)
TypeOK ==
  /\ now \in 0 .. MaxTime
  /\ users \in [Email -> UserId \cup {NoUser}]
  /\ accounts \subseteq Slug /\ members \subseteq Slug
  /\ links \in [Link -> Row \cup {NoRow}]
  /\ mailed \subseteq Link
  /\ issued \in [Email -> SUBSET (Slug \cup Uuid \cup {Fallback})]
  /\ raced \subseteq Email
  /\ req \in [Worker -> Request]
  /\ failures \in 0 .. MaxFailures

(* However verifications of an address, of others of its slug and           *)
(* registrations interleave and fail, a session is for an identity whose    *)
(* user, account and membership are all there, or for the fallback.         *)
SessionIdentityExists ==
  \A e \in Email : issued[e] \ {Fallback} \subseteq members \cap accounts \cap Taken

(* A signup nothing fails gives its own identity: for an address that is    *)
(* not registered and shares its slug with no other, the fallback is left   *)
(* to failures and to verifications that insert the user at the same time.  *)
(* Even these leave the address its user, so what they lose is the session: *)
(* the next link gives the identity.                                        *)
Plain(e) == users[e] \notin Uuid /\ \A f \in Email \ {e} : SlugOf[f] # SlugOf[e]
SignupGivesOwnIdentity ==
  failures = 0 =>
    \A e \in Email : Plain(e) /\ issued[e] # {} =>
      /\ users[e] = SlugOf[e]
      /\ issued[e] \subseteq {SlugOf[e]} \cup (IF e \in raced THEN {Fallback} ELSE {})

(* A link is marked as used before the session is issued, and only the      *)
(* requests past the lookup then are still told it was verified: one for    *)
(* each goroutine.                                                          *)
CompletionsBounded == \A l \in Link : links[l].done <= Cardinality(Worker)
=============================================================================
