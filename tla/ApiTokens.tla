----------------------------- MODULE ApiTokens -----------------------------
(***************************************************************************)
(* API tokens (TokenService over PostgresTokenRepository): a user creates  *)
(* tokens, lists, revokes and refreshes them; a relay's token is looked up *)
(* by its hash.  Each SQL statement is a step, requests interleave between *)
(* two, and a statement may fail.  A refresh revokes the old token and     *)
(* inserts a successor in two statements, without a transaction.           *)
(***************************************************************************)
EXTENDS Integers, FiniteSets

CONSTANTS
  User, Account,
  TokenId,         \* rows of api_tokens ever created
  Worker,          \* goroutines serving requests
  NoUser, NoAccount, NoTok,
  Lifetime,        \* values of expires_in, and APITokenDefaultExpiry
  CallsMayFail,    \* may a statement fail, or a request be cancelled?
  MaxTime          \* bound on the clock

ASSUME ApiTokensAssumption ==
  /\ NoUser \notin User /\ NoAccount \notin Account /\ NoTok \notin TokenId
  /\ Lifetime \subseteq Int /\ MaxTime \in Nat /\ CallsMayFail \in BOOLEAN

VARIABLES
  now,   \* the clock
  toks,  \* api_tokens
  req,   \* what each worker is doing
  lost   \* history: tokens one of whose refreshes failed at the insert

vars == <<now, toks, req, lost>>

APIToken ==
  [user : User, account : Account, exp : Int, revoked : BOOLEAN, used : BOOLEAN,
   from : TokenId \cup {NoTok},   \* history: the token it is the successor of
   refreshed : BOOLEAN]           \* history: it was revoked by a refresh
NoToken == [user |-> NoUser, account |-> NoAccount, exp |-> 0, revoked |-> FALSE,
            used |-> FALSE, from |-> NoTok, refreshed |-> FALSE]

Request ==
  [pc : {"idle", "revokeOld", "insertNew", "expiry", "touch"},
   user : User \cup {NoUser}, account : Account \cup {NoAccount}, exp : Int,
   tok : TokenId \cup {NoTok}]

Idle == [pc |-> "idle", user |-> NoUser, account |-> NoAccount, exp |-> 0, tok |-> NoTok]

Init ==
  /\ now = 0
  /\ toks = [t \in TokenId |-> NoToken]
  /\ req = [w \in Worker |-> Idle]
  /\ lost = {}

-----------------------------------------------------------------------------
(* The repository. *)

Stored(t) == toks[t] # NoToken

(* INSERT, under a fresh id and a fresh hash. *)
InsertToken(t, u, a, exp, from) ==
  /\ ~Stored(t)
  /\ toks' = [toks EXCEPT ![t] = [user |-> u, account |-> a, exp |-> exp, revoked |-> FALSE,
                                  used |-> FALSE, from |-> from, refreshed |-> FALSE]]

(* GetTokenByID: the row of the user with that id, revoked or not. *)
GetTokenByID(t, u) == Stored(t) /\ toks[t].user = u

(* RevokeToken: revoked_at, set again when it was set. *)
SetRevoked(t, byRefresh) ==
  toks' = [toks EXCEPT ![t].revoked = TRUE, ![t].refreshed = @ \/ byRefresh]

(* Mutant: any use renews the token. *)
TouchAndRenew(t) == toks' = [toks EXCEPT ![t].used = TRUE, ![t].revoked = FALSE]

(* UpdateLastUsed *)
UpdateLastUsed(t) == toks' = [toks EXCEPT ![t].used = TRUE]

(* ListTokensByUser: what the list shows of a user's tokens. *)
ListTokens(u) == {<<t, toks[t].account, toks[t].revoked, toks[t].used>> :
                  t \in {x \in TokenId : GetTokenByID(x, u)}}

-----------------------------------------------------------------------------
Start(w, pc, u, a, exp, t) ==
  /\ req[w].pc = "idle"
  /\ req' = [req EXCEPT ![w] = [pc |-> pc, user |-> u, account |-> a, exp |-> exp, tok |-> t]]
GoOn(w, pc) == req' = [req EXCEPT ![w].pc = pc]
Done(w)     == req' = [req EXCEPT ![w] = Idle]

(* Mutant: the user's id is lost on the way to the statement. *)
CreateForNobody(w, u, a, d) ==
  /\ req[w].pc = "idle"
  /\ \E t \in TokenId : InsertToken(t, NoUser, a, now + d, NoTok)
  /\ UNCHANGED <<now, req, lost>>

(* POST /tokens, in a user's session: the account is the payload's, or the *)
(* session's; expires_in may be any duration, a negative one too.          *)
Create(w, u, a, d) ==
  /\ req[w].pc = "idle"
  /\ \E t \in TokenId : InsertToken(t, u, a, now + d, NoTok)
  /\ UNCHANGED <<now, req, lost>>

(* DELETE /tokens/{id}: the token is the user's, or 404.  What the first *)
(* statement reads never changes, so the two are one step.               *)
Revoke(w, u, t) ==
  /\ req[w].pc = "idle"
  /\ GetTokenByID(t, u)
  /\ SetRevoked(t, FALSE)
  /\ UNCHANGED <<now, req, lost>>

(* POST /tokens/{id}/refresh: the token is the user's, revoked, expired or *)
(* neither; it is read once, ...                                           *)
Refresh(w, u, t) ==
  /\ GetTokenByID(t, u)
  /\ Start(w, "revokeOld", u, toks[t].account, toks[t].exp, t)
  /\ UNCHANGED <<now, toks, lost>>

(* Mutant: the error of the revocation is dropped. *)
RevokeOldOrNot(w) ==
  /\ req[w].pc = "revokeOld"
  /\ SetRevoked(req[w].tok, TRUE) \/ (CallsMayFail /\ UNCHANGED toks)
  /\ GoOn(w, "insertNew")
  /\ UNCHANGED <<now, lost>>

(* ... revoked, ... *)
RevokeOld(w) ==
  /\ req[w].pc = "revokeOld"
  /\ SetRevoked(req[w].tok, TRUE)
  /\ GoOn(w, "insertNew")
  /\ UNCHANGED <<now, lost>>

(* ... and succeeded by one that expires when it does. *)
InsertSuccessor(w) ==
  /\ req[w].pc = "insertNew"
  /\ \E t \in TokenId : InsertToken(t, req[w].user, req[w].account, req[w].exp, req[w].tok)
  /\ Done(w)
  /\ UNCHANGED <<now, lost>>

(* ValidateToken: a token that is not found, or revoked, is not valid; ... *)
ValidateToken(w, t) ==
  /\ Stored(t) /\ ~toks[t].revoked
  /\ Start(w, "expiry", NoUser, NoAccount, toks[t].exp, t)
  /\ UNCHANGED <<now, toks, lost>>

(* ... nor is one that is expired by now; ... *)
CheckExpiry(w) ==
  /\ req[w].pc = "expiry"
  /\ IF req[w].exp < now THEN Done(w) ELSE GoOn(w, "touch")
  /\ UNCHANGED <<now, toks, lost>>

(* ... the use of a valid one is noted, an error dropped. *)
NoteUse(w) ==
  /\ req[w].pc = "touch"
  /\ UpdateLastUsed(req[w].tok)
  /\ Done(w)
  /\ UNCHANGED <<now, lost>>

(* A statement fails, or the request is cancelled before it. *)
Fail(w) ==
  /\ CallsMayFail
  /\ req[w].pc # "idle"
  /\ lost' = IF req[w].pc = "insertNew" THEN lost \cup {req[w].tok} ELSE lost
  /\ Done(w)
  /\ UNCHANGED <<now, toks>>

Tick ==
  /\ now < MaxTime
  /\ now' = now + 1
  /\ UNCHANGED <<toks, req, lost>>

Next ==
  \/ \E w \in Worker :
       \/ \E u \in User :
            \/ \E a \in Account, d \in Lifetime : Create(w, u, a, d)
            \/ \E t \in TokenId : Revoke(w, u, t) \/ Refresh(w, u, t)
       \/ \E t \in TokenId : ValidateToken(w, t)
       \/ RevokeOld(w) \/ InsertSuccessor(w)
       \/ CheckExpiry(w) \/ NoteUse(w) \/ Fail(w)
  \/ Tick

Spec == Init /\ [][Next]_vars

-----------------------------------------------------------------------------
(* Properties *)

(* The table and the requests have the shapes above. *)
TypeOK ==
  /\ now \in Nat
  /\ toks \in [TokenId -> APIToken \cup {NoToken}]
  /\ req \in [Worker -> Request]
  /\ lost \subseteq TokenId

(* A refresh hands the user a token of the same account and expiry for one *)
(* that is revoked by then, and takes a token away only to give another:   *)
(* a token revoked by a refresh has a successor, or the refresh is still   *)
(* at work, or its insert failed (token_service.go:203).                   *)
RotationOutcome ==
  \A t \in TokenId :
    /\ toks[t].from # NoTok =>
         LET old == toks[toks[t].from]
         IN old.revoked /\ old.user = toks[t].user /\ old.account = toks[t].account
            /\ old.exp = toks[t].exp
    /\ toks[t].refreshed =>
         \/ t \in lost
         \/ \E s \in TokenId : toks[s].from = t
         \/ \E w \in Worker : req[w].pc = "insertNew" /\ req[w].tok = t

(* Tokens as an outside observer sees them: those that work, those that do *)
(* not work any more, the checks that will be answered yes, and the tokens *)
(* the list shows as used.                                                 *)
Works(t) == Stored(t) /\ ~toks[t].revoked /\ ~(toks[t].exp < now)

Registry == INSTANCE TokenRegistry WITH
  Token <- TokenId,
  Asker <- Worker,
  None <- NoTok,
  live <- {t \in TokenId : Works(t)},
  over <- {t \in TokenId : Stored(t) /\ ~Works(t)},
  asked <- [w \in Worker |->
    IF req[w].pc = "touch" \/ (req[w].pc = "expiry" /\ ~(req[w].exp < now))
    THEN req[w].tok ELSE NoTok],
  seenUsed <- {t \in TokenId : \E u \in User : \E x \in ListTokens(u) : x[1] = t /\ x[4]}

(* The service keeps the promise of TokenRegistry through every            *)
(* interleaving: a revoked or expired token never works again, whatever is *)
(* refreshed or revoked twice, and a check that overlaps a revocation is   *)
(* answered yes only when it read the row before.                          *)
ImplementsRegistry == Registry!Spec
=============================================================================
