------------------------------ MODULE Sessions ------------------------------
(***************************************************************************)
(* The browser session of the control plane (internal/session, the login   *)
(* handlers, SessionService, session_versions).  A session is a signed     *)
(* token nobody stores: it names a scope "user|account|role", an expiry    *)
(* and a session version.  The only server-side state is one version       *)
(* number per scope; logging out bumps it.  A token is accepted when it    *)
(* has not expired and its version is the scope's version.                 *)
(*                                                                         *)
(* Every request is served by a goroutine (Worker) and each SQL statement  *)
(* is one atomic step, so an issue, a check and a bump interleave freely.  *)
(***************************************************************************)
EXTENDS Naturals, FiniteSets

CONSTANTS
  Scope,          \* the scope keys: a user, an account and a role
  NoScope,        \* no identity: the request is anonymous
  NoToken,        \* the request carries no token, or one that does not parse
  Worker,         \* goroutines serving requests
  IssuerTTL,      \* life of a session issued by the signup verification
  LoginTTL,       \* life of a session issued by a login (24h)
  AllowPrototype, \* Config.AllowDevAuthFallback
  PrototypeScope, \* the scope anonymous requests get when it is on
  ReadsMayFail,   \* may the SELECT of a session version fail?
  BumpsMayFail,   \* may the UPSERT of a logout fail?
  MaxTime,        \* bound on the clock
  MaxTokens,      \* bound on the tokens signed
  MaxVersion      \* bound on the version of a scope

ASSUME ConstantsAssumption ==
  /\ NoScope \notin Scope
  /\ PrototypeScope \in Scope
  /\ IssuerTTL \in Nat /\ LoginTTL \in Nat
  /\ IsFiniteSet(Worker)
  /\ MaxTime \in Nat /\ MaxTokens \in Nat /\ MaxVersion \in Nat \ {0}
  /\ AllowPrototype \in BOOLEAN /\ ReadsMayFail \in BOOLEAN /\ BumpsMayFail \in BOOLEAN

VARIABLES
  now,     \* the wall clock
  stored,  \* session_versions: the version stored for a scope, 0 when it has no row
  tokens,  \* every token signed so far
  revoked, \* history: the tokens a logout of their scope was to end
  req      \* what each worker is doing

vars == <<now, stored, tokens, revoked, req>>

(* TokenClaims: sv = 0 stands for an omitted "sv" (json omitempty). *)
Token == [scope : Scope, sv : Nat, exp : Nat]

BoundedToken ==
  [scope : Scope, sv : 0 .. MaxVersion, exp : 0 .. (MaxTime + LoginTTL + IssuerTTL)]

Ops == {"none", "verify", "me", "logout", "refresh"}
Request ==
  [pc    : {"idle", "reading", "signing", "parsed", "resolved"},
   op    : Ops,
   token : Token \cup {NoToken},   \* the token presented
   scope : Scope \cup {NoScope},   \* the identity being issued, or resolved
   sv    : Nat,                    \* the version read for the token being issued
   start : Nat,                    \* the time the handler started
   stale : BOOLEAN]                \* history: the scope was logged out since sv was read

Idle == [pc |-> "idle", op |-> "none", token |-> NoToken, scope |-> NoScope,
         sv |-> 0, start |-> 0, stale |-> FALSE]

Init ==
  /\ now = 0
  /\ stored = [s \in Scope |-> 0]
  /\ tokens = {}
  /\ revoked = {}
  /\ req = [w \in Worker |-> Idle]

-----------------------------------------------------------------------------
(* session_versions *)

(* GetSessionVersion of a scope: its row, 1 when there is none. *)
Version(s) == IF stored[s] = 0 THEN 1 ELSE stored[s]

(* What the call returns: any error of the query is reported as version 1. *)
GetSessionVersion(s) == {Version(s)} \cup (IF ReadsMayFail THEN {1} ELSE {})

(* Mutant: the row of a first logout is inserted with the default version. *)
BumpedFromDefault(s) == IF stored[s] = 0 THEN 1 ELSE stored[s] + 1

(* BumpSessionVersion: INSERT version 2, ON CONFLICT version + 1. *)
BumpedVersion(s) == IF stored[s] = 0 THEN 2 ELSE stored[s] + 1

(* Mutant: a token without a version is let in whatever the version is. *)
AcceptsUnversioned(t, v) == t.sv = 0 \/ t.sv = v

(* ValidateSessionVersion against a version read: a token without a version *)
(* is taken for one of version 1.                                           *)
VersionAccepts(t, v) == IF t.sv = 0 THEN v <= 1 ELSE t.sv = v

(* ParseDetailed: the only claim that varies here is the expiry. *)
ParseDetailed(t) == t # NoToken /\ now < t.exp

(* A token a request presenting it at this instant is accepted with. *)
Accepted(t) == ParseDetailed(t) /\ VersionAccepts(t, Version(t.scope))

(* The identity of a request no token authenticates. *)
Anonymous == IF AllowPrototype THEN PrototypeScope ELSE NoScope

(* The bound on versions: every logout in flight may still bump once. *)
CanLogout ==
  LET inFlight == {w \in Worker : req[w].op = "logout"}
  IN \A s \in Scope : Version(s) + Cardinality(inFlight) < MaxVersion

(* The bound on tokens: every verification at work may still sign one. *)
CanSign ==
  Cardinality(tokens) + Cardinality({w \in Worker : req[w].op = "verify"}) < MaxTokens

-----------------------------------------------------------------------------
(* Issuing *)

(* Handler.issueToken of the password login and of the WebAuthn login: the *)
(* claims carry no session version and no row is read.                     *)
issueToken(s) == [scope |-> s, sv |-> 0, exp |-> now + LoginTTL]

(* Mutant: a login starts the scope's versions over. *)
LoginResetsVersion(s) ==
  /\ CanSign
  /\ tokens' = tokens \cup {issueToken(s)}
  /\ stored' = [stored EXCEPT ![s] = 0]
  /\ UNCHANGED <<now, revoked, req>>

Login(s) ==
  /\ CanSign
  /\ tokens' = tokens \cup {issueToken(s)}
  /\ UNCHANGED <<now, stored, revoked, req>>

(* VerifySignup, up to the call of Issuer.Issue: it took the time first. *)
VerifySignup(w, s) ==
  /\ req[w].pc = "idle"
  /\ CanSign
  /\ req' = [req EXCEPT ![w] = [Idle EXCEPT !.pc = "reading", !.op = "verify",
                                            !.scope = s, !.start = now]]
  /\ UNCHANGED <<now, stored, tokens, revoked>>

(* Mutant: an issuer without a version lookup signs version 1. *)
IssueDefault(w) ==
  /\ req[w].pc = "reading"
  /\ req' = [req EXCEPT ![w].pc = "signing", ![w].sv = 1]
  /\ UNCHANGED <<now, stored, tokens, revoked>>

(* Issuer.Issue reads the version of the scope ... *)
IssueRead(w) ==
  /\ req[w].pc = "reading"
  /\ \E v \in GetSessionVersion(req[w].scope) :
       req' = [req EXCEPT ![w].pc = "signing", ![w].sv = v]
  /\ UNCHANGED <<now, stored, tokens, revoked>>

(* ... and signs it into the token. *)
IssueSign(w) ==
  LET t == [scope |-> req[w].scope, sv |-> req[w].sv, exp |-> req[w].start + IssuerTTL]
  IN /\ req[w].pc = "signing"
     /\ tokens' = tokens \cup {t}
     /\ revoked' = IF req[w].stale THEN revoked \cup {t} ELSE revoked
     /\ req' = [req EXCEPT ![w] = Idle]
     /\ UNCHANGED <<now, stored>>

-----------------------------------------------------------------------------
(* Requests under Resolver.Middleware *)

(* The middleware parses the token; without one that parses the request is *)
(* anonymous at once and no version is read.                               *)
Present(w, op, t) ==
  /\ req[w].pc = "idle"
  /\ op = "logout" => CanLogout
  /\ req' = [req EXCEPT ![w] =
       IF ParseDetailed(t)
       THEN [Idle EXCEPT !.pc = "parsed", !.op = op, !.token = t]
       ELSE [Idle EXCEPT !.pc = "resolved", !.op = op, !.token = t, !.scope = Anonymous]]
  /\ UNCHANGED <<now, stored, tokens, revoked>>

(* Mutant: a token that parses is let in. *)
CheckNothing(w) ==
  /\ req[w].pc = "parsed"
  /\ req' = [req EXCEPT ![w].pc = "resolved", ![w].scope = req[w].token.scope]
  /\ UNCHANGED <<now, stored, tokens, revoked>>

(* The middleware reads the version and lets the token in or not. *)
CheckVersion(w) ==
  LET t == req[w].token
  IN /\ req[w].pc = "parsed"
     /\ \E v \in GetSessionVersion(t.scope) :
          req' = [req EXCEPT ![w].pc = "resolved",
                    ![w].scope = IF VersionAccepts(t, v) THEN t.scope ELSE Anonymous]
     /\ UNCHANGED <<now, stored, tokens, revoked>>

(* Any handler that only reads: GET /api/session/me and its like. *)
Serve(w) ==
  /\ req[w].pc = "resolved"
  /\ req[w].op = "me"
  /\ req' = [req EXCEPT ![w] = Idle]
  /\ UNCHANGED <<now, stored, tokens, revoked>>

(* POST /api/session/logout: bump the scope of an authenticated request. *)
Logout(w) ==
  LET s == req[w].scope
  IN /\ req[w].pc = "resolved"
     /\ req[w].op = "logout"
     /\ s # NoScope
     /\ stored' = [stored EXCEPT ![s] = BumpedVersion(s)]
     /\ revoked' = revoked \cup {t \in tokens : t.scope = s}
     /\ req' = [x \in Worker |->
                  IF x = w THEN Idle
                  ELSE IF req[x].pc = "signing" /\ req[x].scope = s
                  THEN [req[x] EXCEPT !.stale = TRUE]
                  ELSE req[x]]
     /\ UNCHANGED <<now, tokens>>

(* Mutant: a logout only clears the cookie. *)
LogoutCookieOnly(w) ==
  /\ req[w].pc = "resolved"
  /\ req[w].op = "logout"
  /\ req' = [req EXCEPT ![w] = Idle]
  /\ UNCHANGED <<now, stored, tokens, revoked>>

(* An anonymous logout changes nothing; neither does one whose bump fails: *)
(* the handler drops the error and answers as if it had succeeded.         *)
LogoutNothing(w) ==
  /\ req[w].pc = "resolved"
  /\ req[w].op = "logout"
  /\ req[w].scope = NoScope \/ BumpsMayFail
  /\ req' = [req EXCEPT ![w] = Idle]
  /\ UNCHANGED <<now, stored, tokens, revoked>>

(* POST /api/auth/refresh: the router mounts /api/auth without the         *)
(* middleware, so no token presented ever reaches the handler's context.   *)
Refresh(w, t) ==
  /\ req[w].pc = "idle"
  /\ req' = [req EXCEPT ![w] = [Idle EXCEPT !.pc = "resolved", !.op = "refresh", !.token = t]]
  /\ UNCHANGED <<now, stored, tokens, revoked>>

(* The refresh handler answers 401 to a context without a session. *)
RefreshUnauthorized(w) ==
  /\ req[w].pc = "resolved"
  /\ req[w].op = "refresh"
  /\ req[w].scope = NoScope
  /\ req' = [req EXCEPT ![w] = Idle]
  /\ UNCHANGED <<now, stored, tokens, revoked>>

Tick ==
  /\ now < MaxTime
  /\ now' = now + 1
  /\ UNCHANGED <<stored, tokens, revoked, req>>

-----------------------------------------------------------------------------
(* What a worker does by itself once it has a request. *)
Progress(w) ==
  \/ IssueRead(w) \/ IssueSign(w)
  \/ CheckVersion(w)
  \/ Serve(w) \/ Logout(w) \/ LogoutNothing(w)
  \/ RefreshUnauthorized(w)

Next ==
  \/ Tick
  \/ \E s \in Scope : Login(s)
  \/ \E w \in Worker :
       \/ \E s \in Scope : VerifySignup(w, s)
       \/ \E t \in tokens \cup {NoToken} :
            \/ \E op \in {"me", "logout"} : Present(w, op, t)
            \/ Refresh(w, t)
       \/ Progress(w)

Spec == Init /\ [][Next]_vars

(* net/http runs every handler to its end: a worker does not stop halfway. *)
Fairness == \A w \in Worker : WF_vars(Progress(w))
FairSpec == Spec /\ Fairness

-----------------------------------------------------------------------------
(* Properties *)

(* The tables hold versions, claims and requests of the shapes above; a *)
(* stored version is never the 1 that stands for no row.                *)
TypeOK ==
  /\ now \in Nat
  /\ stored \in [Scope -> Nat \ {1}]
  /\ tokens \subseteq Token
  /\ revoked \subseteq tokens
  /\ req \in [Worker -> Request]

(* A logout is final.  Every token of the scope signed before it, and every *)
(* token signed after it from a version read before it, is refused from     *)
(* then on, however often the scope logs in and out again: versions are     *)
(* never reused and a token without a version does not match a bumped one.  *)
RevokedStaysRevoked ==
  \A t \in revoked : ~VersionAccepts(t, Version(t.scope))

(* The middleware lets no request in on a token that a logout had already   *)
(* ended when the version was checked.                                      *)
NoRevokedTokenAccepted ==
  [][\A w \in Worker :
       /\ req[w].pc = "parsed" /\ req'[w].pc = "resolved"
       /\ req[w].token \in revoked
       => req'[w].scope = Anonymous]_vars

(* A session the signup verification issued is good until its scope logs    *)
(* out: nothing else, a second login or a logout elsewhere, ends it.        *)
IssuedSessionUsable ==
  \A t \in tokens \ revoked : t.sv > 0 => VersionAccepts(t, Version(t.scope))

(* A logout request that arrives with an accepted token ends the sessions  *)
(* of that version of the scope, even when another logout overtakes it      *)
(* between the check and the bump or before the check; the handlers' own    *)
(* progress is enough, the clock need not advance.  (For bumps that         *)
(* succeed: the handler drops the error of one that fails.)                 *)
LogoutTakesEffect ==
  \A s \in Scope, v \in 1 .. MaxVersion - 1 :
    (\E w \in Worker : /\ req[w].op = "logout" /\ req[w].pc = "parsed"
                       /\ req[w].token.scope = s /\ Version(s) = v /\ Accepted(req[w].token))
    ~> Version(s) > v

(* Sessions implement the list of SessionStore: a session is live when its  *)
(* token would be accepted now, and a token that stopped being accepted     *)
(* never is again.                                                          *)
liveTokens == {t \in tokens : Accepted(t)}
Store == INSTANCE SessionStore WITH Session <- BoundedToken,
                                    live <- liveTokens, ended <- tokens \ liveTokens
ImplementsStore == Store!Spec
=============================================================================
