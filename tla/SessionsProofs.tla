--------------------------- MODULE SessionsProofs ---------------------------
(***************************************************************************)
(* Theorems about Sessions, for any scopes, workers, lives and bounds.     *)
(*                                                                         *)
(* RevokedStaysRevoked is not inductive: a token still to be signed from a *)
(* version read before a logout is refused later only because the version  *)
(* a worker holds never exceeds the stored one and a logout raises the     *)
(* stored one above it.  SessionInv adds that, for signed tokens and for   *)
(* the versions workers hold.  That Sessions implement the list of         *)
(* SessionStore needs BoundsInv besides: what is signed stays within the   *)
(* bounds of the sessions that the list may hold.                          *)
(***************************************************************************)
EXTENDS Sessions, FiniteSetTheorems, TLAPS

(* A signed version is one the scope has or had; a revoked one, it had. *)
SignedInv ==
  /\ \A t \in tokens : t.sv <= Version(t.scope)
  /\ \A t \in revoked : IF t.sv = 0 THEN Version(t.scope) >= 2
                                    ELSE t.sv < Version(t.scope)

(* The same of the versions read and not yet signed. *)
HeldBy(w) ==
  /\ req[w].pc \in {"reading", "signing"} => req[w].scope \in Scope
  /\ req[w].pc = "reading" => ~req[w].stale
  /\ req[w].pc = "parsed" => req[w].token \in Token
  /\ req[w].pc = "signing" =>
       /\ 1 <= req[w].sv /\ req[w].sv <= Version(req[w].scope)
       /\ req[w].stale => req[w].sv < Version(req[w].scope)

HeldInv == \A w \in Worker : HeldBy(w)

SessionInv == TypeOK /\ SignedInv /\ HeldInv

-----------------------------------------------------------------------------
LEMMA VersionPositive ==
  ASSUME TypeOK, NEW s \in Scope
  PROVE  Version(s) \in Nat /\ Version(s) >= 1
BY DEF TypeOK, Version

LEMMA BumpRaises ==
  ASSUME TypeOK, NEW s \in Scope
  PROVE  /\ BumpedVersion(s) \in Nat \ {0, 1}
         /\ BumpedVersion(s) > Version(s)
BY DEF TypeOK, Version, BumpedVersion

LEMMA ReadBounded ==
  ASSUME TypeOK, NEW s \in Scope, NEW v \in GetSessionVersion(s)
  PROVE  v \in Nat /\ 1 <= v /\ v <= Version(s)
BY VersionPositive DEF GetSessionVersion

(* A step that keeps stored, tokens and revoked keeps what is said of them. *)
LEMMA SignedUnchanged ==
  ASSUME SignedInv, UNCHANGED <<stored, tokens, revoked>>
  PROVE  SignedInv'
BY DEF SignedInv, Version

-----------------------------------------------------------------------------
LEMMA InitInv == Init => SessionInv
BY ConstantsAssumption DEF Init, SessionInv, TypeOK, SignedInv, HeldInv, HeldBy, Idle, Request, Ops, Token, Version

(* A worker that leaves the tables alone keeps the invariant if its own *)
(* request stays well formed.                                           *)
LEMMA RequestStep ==
  ASSUME SessionInv, UNCHANGED <<now, stored, tokens, revoked>>,
         NEW w \in Worker, NEW r \in Request,
         req' = [req EXCEPT ![w] = r],
         r.pc \in {"reading", "signing"} => r.scope \in Scope,
         r.pc = "reading" => ~r.stale,
         r.pc = "parsed" => r.token \in Token,
         r.pc = "signing" => 1 <= r.sv /\ r.sv <= Version(r.scope) /\ ~r.stale
  PROVE  SessionInv'
<1>1. TypeOK'
  BY DEF SessionInv, TypeOK
<1>2. SignedInv'
  BY SignedUnchanged DEF SessionInv
<1>3. \A s : Version(s)' = Version(s)
  BY DEF Version
<1>4. HeldInv'
  <2> SUFFICES ASSUME NEW x \in Worker
               PROVE  HeldBy(x)'
    BY DEF HeldInv
  <2>1. CASE x = w
    BY <2>1, <1>3 DEF SessionInv, TypeOK, HeldBy
  <2>2. CASE x # w
    BY <2>2, <1>3 DEF SessionInv, TypeOK, HeldInv, HeldBy
  <2> QED BY <2>1, <2>2
<1> QED BY <1>1, <1>2, <1>4 DEF SessionInv

LEMMA NextInv == SessionInv /\ [Next]_vars => SessionInv'
<1> SUFFICES ASSUME SessionInv, [Next]_vars
             PROVE  SessionInv'
  OBVIOUS
<1>t. TypeOK
  BY DEF SessionInv
<1>i. Idle \in Request
  BY DEF Idle, Request, Ops
<1>a. Anonymous \in Scope \cup {NoScope}
  BY ConstantsAssumption DEF Anonymous
<1>1. CASE Tick
  BY <1>1 DEF Tick, SessionInv, TypeOK, SignedInv, HeldInv, HeldBy, Version
<1>2. ASSUME NEW s \in Scope, Login(s)
      PROVE  SessionInv'
  <2>1. issueToken(s) \in Token /\ issueToken(s).sv = 0 /\ issueToken(s).scope = s
    BY <1>t, ConstantsAssumption DEF issueToken, Token, TypeOK
  <2>2. TypeOK'
    BY <1>2, <2>1, <1>t DEF Login, TypeOK
  <2>3. SignedInv'
    BY <1>2, <2>1, <1>t, VersionPositive DEF Login, SessionInv, SignedInv, Version
  <2>4. HeldInv'
    BY <1>2 DEF Login, SessionInv, HeldInv, HeldBy, Version
  <2> QED BY <2>2, <2>3, <2>4 DEF SessionInv
<1>3. ASSUME NEW w \in Worker, NEW s \in Scope, VerifySignup(w, s)
      PROVE  SessionInv'
  <2> DEFINE r == [Idle EXCEPT !.pc = "reading", !.op = "verify",
                               !.scope = s, !.start = now]
  <2>1. r \in Request /\ r.pc = "reading" /\ r.scope = s /\ ~r.stale
    BY <1>t DEF Idle, Request, Ops, TypeOK
  <2> QED BY <1>3, <2>1, RequestStep DEF VerifySignup
<1>4. ASSUME NEW w \in Worker, IssueRead(w)
      PROVE  SessionInv'
  <2>1. req[w] \in Request /\ req[w].scope \in Scope
    BY <1>4, <1>t DEF IssueRead, SessionInv, HeldInv, HeldBy, TypeOK
  <2>2. PICK v \in GetSessionVersion(req[w].scope) :
          req' = [req EXCEPT ![w].pc = "signing", ![w].sv = v]
    BY <1>4 DEF IssueRead
  <2>3. v \in Nat /\ 1 <= v /\ v <= Version(req[w].scope)
    BY <2>1, <1>t, ReadBounded
  <2> DEFINE r == [req[w] EXCEPT !.pc = "signing", !.sv = v]
  <2>4. r \in Request /\ r.pc = "signing" /\ r.scope = req[w].scope /\ r.sv = v /\ ~r.stale
    BY <1>4, <2>1, <2>3 DEF IssueRead, Request, SessionInv, HeldInv, HeldBy
  <2>5. req' = [req EXCEPT ![w] = r]
    BY <2>2, <1>t DEF TypeOK
  <2> HIDE DEF r
  <2> QED BY <1>4, <2>1, <2>3, <2>4, <2>5, RequestStep DEF IssueRead
<1>5. ASSUME NEW w \in Worker, IssueSign(w)
      PROVE  SessionInv'
  <2> DEFINE t == [scope |-> req[w].scope, sv |-> req[w].sv, exp |-> req[w].start + IssuerTTL]
  <2>1. req[w] \in Request /\ req[w].pc = "signing" /\ req[w].scope \in Scope
    BY <1>5, <1>t DEF IssueSign, SessionInv, HeldInv, HeldBy, TypeOK
  <2>2. /\ t \in Token
        /\ 1 <= t.sv /\ t.sv <= Version(t.scope)
        /\ req[w].stale => t.sv < Version(t.scope)
    BY <2>1, ConstantsAssumption DEF Token, Request, SessionInv, HeldInv, HeldBy
  <2>3. /\ tokens' = tokens \cup {t}
        /\ revoked' = IF req[w].stale THEN revoked \cup {t} ELSE revoked
        /\ req' = [req EXCEPT ![w] = Idle]
        /\ UNCHANGED <<now, stored>>
    BY <1>5 DEF IssueSign
  <2> HIDE DEF t
  <2>4. TypeOK'
    BY <2>2, <2>3, <1>t, <1>i DEF TypeOK
  <2>5. SignedInv'
    <3>1. \A s : Version(s)' = Version(s)
      BY <2>3 DEF Version
    <3>2. t.sv \in Nat /\ Version(t.scope) \in Nat
      BY <2>2, <1>t, VersionPositive DEF Token
    <3> QED BY <2>2, <2>3, <3>1, <3>2 DEF SessionInv, SignedInv
  <2>6. HeldInv'
    BY <2>3, <1>t DEF SessionInv, HeldInv, HeldBy, TypeOK, Version, Idle
  <2> QED BY <2>4, <2>5, <2>6 DEF SessionInv
<1>6. ASSUME NEW w \in Worker, NEW op \in {"me", "logout"}, NEW t \in tokens \cup {NoToken},
             Present(w, op, t)
      PROVE  SessionInv'
  <2> DEFINE r == IF ParseDetailed(t)
                  THEN [Idle EXCEPT !.pc = "parsed", !.op = op, !.token = t]
                  ELSE [Idle EXCEPT !.pc = "resolved", !.op = op, !.token = t, !.scope = Anonymous]
  <2>1. t \in Token \cup {NoToken} /\ (ParseDetailed(t) => t \in Token)
    BY <1>t DEF TypeOK, ParseDetailed
  <2>2. /\ r \in Request
        /\ r.pc \in {"parsed", "resolved"}
        /\ r.pc = "parsed" => r.token \in Token
    BY <2>1, <1>a DEF Idle, Request, Ops
  <2>3. req' = [req EXCEPT ![w] = r] /\ UNCHANGED <<now, stored, tokens, revoked>>
    BY <1>6 DEF Present
  <2> HIDE DEF r
  <2> QED BY <2>2, <2>3, RequestStep
<1>7. ASSUME NEW w \in Worker, CheckVersion(w)
      PROVE  SessionInv'
  <2>1. req[w] \in Request /\ req[w].token \in Token
    BY <1>7, <1>t DEF CheckVersion, SessionInv, HeldInv, HeldBy, TypeOK
  <2>2. PICK v : req' = [req EXCEPT ![w].pc = "resolved",
                    ![w].scope = IF VersionAccepts(req[w].token, v)
                                 THEN req[w].token.scope ELSE Anonymous]
    BY <1>7 DEF CheckVersion
  <2> DEFINE s == IF VersionAccepts(req[w].token, v) THEN req[w].token.scope ELSE Anonymous
             r == [req[w] EXCEPT !.pc = "resolved", !.scope = s]
  <2>3. s \in Scope \cup {NoScope}
    BY <2>1, <1>a DEF Token
  <2>4. req' = [req EXCEPT ![w] = r]
    BY <2>2, <1>t DEF TypeOK
  <2> HIDE DEF s
  <2>5. r \in Request /\ r.pc = "resolved"
    BY <2>1, <2>3 DEF Request
  <2> HIDE DEF r
  <2> QED BY <1>7, <2>4, <2>5, RequestStep DEF CheckVersion
<1>8. ASSUME NEW w \in Worker, Serve(w) \/ LogoutNothing(w) \/ RefreshUnauthorized(w)
      PROVE  SessionInv'
  <2>1. req' = [req EXCEPT ![w] = Idle] /\ UNCHANGED <<now, stored, tokens, revoked>>
    BY <1>8 DEF Serve, LogoutNothing, RefreshUnauthorized
  <2>2. Idle.pc = "idle"
    BY DEF Idle
  <2> QED BY <2>1, <2>2, <1>i, RequestStep
<1>9. ASSUME NEW w \in Worker, NEW t \in tokens \cup {NoToken}, Refresh(w, t)
      PROVE  SessionInv'
  <2> DEFINE r == [Idle EXCEPT !.pc = "resolved", !.op = "refresh", !.token = t]
  <2>1. r \in Request /\ r.pc = "resolved"
    BY <1>t DEF Idle, Request, Ops, TypeOK
  <2>2. req' = [req EXCEPT ![w] = r] /\ UNCHANGED <<now, stored, tokens, revoked>>
    BY <1>9 DEF Refresh
  <2> HIDE DEF r
  <2> QED BY <2>1, <2>2, RequestStep
<1>10. ASSUME NEW w \in Worker, Logout(w)
       PROVE  SessionInv'
  <2> DEFINE s == req[w].scope
  <2>1. s \in Scope
    BY <1>10, <1>t DEF Logout, TypeOK, Request
  <2>2. /\ stored' = [stored EXCEPT ![s] = BumpedVersion(s)]
        /\ revoked' = revoked \cup {t \in tokens : t.scope = s}
        /\ req' = [x \in Worker |->
                     IF x = w THEN Idle
                     ELSE IF req[x].pc = "signing" /\ req[x].scope = s
                     THEN [req[x] EXCEPT !.stale = TRUE]
                     ELSE req[x]]
        /\ UNCHANGED <<now, tokens>>
    BY <1>10 DEF Logout
  <2> HIDE DEF s
  <2>3. BumpedVersion(s) \in Nat \ {0, 1} /\ BumpedVersion(s) > Version(s)
    BY <1>t, <2>1, BumpRaises
  <2>4. TypeOK'
    <3>1. \A x \in Worker : [req[x] EXCEPT !.stale = TRUE] \in Request
      BY <1>t DEF TypeOK, Request
    <3> QED BY <2>2, <2>3, <1>t, <1>i, <3>1 DEF TypeOK
  <2>5. \A x \in Scope : Version(x)' = IF x = s THEN BumpedVersion(s) ELSE Version(x)
    BY <2>1, <2>2, <2>3, <1>t DEF Version, TypeOK
  <2>6. \A x \in Scope : Version(x) \in Nat
    BY <1>t, VersionPositive
  <2>7. SignedInv'
    <3>1. \A t \in tokens : t.scope \in Scope /\ t.sv \in Nat
      BY <1>t DEF TypeOK, Token
    <3>2. revoked \subseteq tokens
      BY <1>t DEF TypeOK
    <3> QED BY <2>2, <2>3, <2>5, <2>6, <3>1, <3>2 DEF SessionInv, SignedInv
  <2>8. HeldInv'
    <3> SUFFICES ASSUME NEW x \in Worker
                 PROVE  HeldBy(x)'
      BY DEF HeldInv
    <3>1. req[x] \in Request
      BY <1>t DEF TypeOK
    <3>2. CASE x = w
      BY <2>2, <3>2 DEF Idle, HeldBy
    <3>3. CASE x # w /\ req[x].pc = "signing" /\ req[x].scope = s
      <4>1. /\ req'[x].pc = "signing" /\ req'[x].scope = s
            /\ req'[x].sv = req[x].sv /\ req'[x].stale
        BY <2>2, <3>1, <3>3 DEF Request
      <4>2. 1 <= req[x].sv /\ req[x].sv <= Version(s) /\ req[x].sv \in Nat
        BY <3>1, <3>3 DEF SessionInv, HeldInv, HeldBy, Request
      <4>3. Version(req[x].scope)' = BumpedVersion(s)
        BY <4>1, <2>1, <2>2, <2>3, <1>t DEF Version, TypeOK
      <4> QED BY <4>1, <4>2, <4>3, <2>1, <2>3, <2>6 DEF HeldBy
    <3>4. CASE x # w /\ ~(req[x].pc = "signing" /\ req[x].scope = s)
      <4>1. req'[x] = req[x]
        BY <2>2, <3>4
      <4>2. req[x].pc = "signing" => Version(req[x].scope)' = Version(req[x].scope)
        BY <4>1, <2>2, <3>4, <1>t DEF Version, TypeOK
      <4> QED BY <4>1, <4>2 DEF SessionInv, HeldInv, HeldBy
    <3> QED BY <3>2, <3>3, <3>4
  <2> QED BY <2>4, <2>7, <2>8 DEF SessionInv
<1>11. CASE UNCHANGED vars
  <2>1. UNCHANGED <<now, stored, tokens, revoked, req>>
    BY <1>11 DEF vars
  <2> QED BY <2>1 DEF SessionInv, TypeOK, SignedInv, HeldInv, HeldBy, Version
<1> QED
  BY <1>1, <1>2, <1>3, <1>4, <1>5, <1>6, <1>7, <1>8, <1>9, <1>10, <1>11 DEF Next, Progress

LEMMA InvHolds == Spec => []SessionInv
BY InitInv, NextInv, PTL DEF Spec

-----------------------------------------------------------------------------
(* The tables and the requests keep their shapes. *)
THEOREM SessionTypeCorrect == Spec => []TypeOK
<1>1. SessionInv => TypeOK
  BY DEF SessionInv
<1> QED BY <1>1, InvHolds, PTL

LEMMA RevokedRefused == SessionInv => RevokedStaysRevoked
<1> SUFFICES ASSUME SessionInv, NEW t \in revoked
             PROVE  ~VersionAccepts(t, Version(t.scope))
  BY DEF RevokedStaysRevoked
<1>1. t \in Token
  BY DEF SessionInv, TypeOK
<1>2. Version(t.scope) \in Nat
  BY <1>1, VersionPositive DEF SessionInv, Token
<1> QED BY <1>1, <1>2 DEF SessionInv, SignedInv, VersionAccepts, Token

(* A token a logout ended, or signed from a version read before it, is never *)
(* accepted again: session_versions and ValidateSessionVersion revoke.       *)
THEOREM RevocationIsFinal == Spec => []RevokedStaysRevoked
BY RevokedRefused, InvHolds, PTL

-----------------------------------------------------------------------------
(* The two theorems below need the version reads to succeed: a failed read *)
(* is reported as version 1, which a revoked token may carry.              *)

(* A worker's request changes only by the worker's own steps, but for the *)
(* history mark a logout leaves on it.                                    *)
LEMMA OnlyCheckResolves ==
  ASSUME SessionInv, Next, NEW w \in Worker,
         req[w].pc = "parsed", req'[w].pc = "resolved"
  PROVE  CheckVersion(w)
<1>1. \A x \in Worker : req[x] \in Request
  BY DEF SessionInv, TypeOK
<1>2. req'[w].pc # req[w].pc
  OBVIOUS
<1>3. ~Tick /\ ~(\E s \in Scope : Login(s))
  BY <1>2 DEF Tick, Login
<1>4. ASSUME NEW x \in Worker, NEW s \in Scope, VerifySignup(x, s)
      PROVE  FALSE
  BY <1>2, <1>4 DEF VerifySignup, SessionInv, TypeOK
<1>5. ASSUME NEW x \in Worker, NEW t, NEW op, Present(x, op, t) \/ Refresh(x, t)
      PROVE  FALSE
  BY <1>2, <1>5 DEF Present, Refresh, SessionInv, TypeOK
<1>6. ASSUME NEW x \in Worker, x # w, Progress(x)
      PROVE  FALSE
  <2>1. CASE Logout(x)
    BY <1>1, <1>2, <1>6, <2>1 DEF Logout, Request
  <2>2. CASE ~Logout(x)
    BY <1>2, <1>6, <2>2 DEF Progress, IssueRead, IssueSign, CheckVersion, Serve,
       LogoutNothing, RefreshUnauthorized, SessionInv, TypeOK
  <2> QED BY <2>1, <2>2
<1>7. Progress(w) => CheckVersion(w)
  BY DEF Progress, IssueRead, IssueSign, Serve, Logout, LogoutNothing, RefreshUnauthorized
<1> QED BY <1>3, <1>4, <1>5, <1>6, <1>7 DEF Next

(* Resolver.Middleware lets no request in on a token a logout had ended *)
(* when the version was read.                                           *)
THEOREM RevokedNeverResolves ==
  ASSUME ReadsMayFail = FALSE
  PROVE  Spec => NoRevokedTokenAccepted
<1> DEFINE Refused(w) == /\ req[w].pc = "parsed" /\ req'[w].pc = "resolved"
                         /\ req[w].token \in revoked
                         => req'[w].scope = Anonymous
<1>1. SessionInv /\ [Next]_vars => [\A w \in Worker : Refused(w)]_vars
  <2> SUFFICES ASSUME SessionInv, Next, NEW w \in Worker,
                      req[w].pc = "parsed", req'[w].pc = "resolved",
                      req[w].token \in revoked
               PROVE  req'[w].scope = Anonymous
    OBVIOUS
  <2>1. CheckVersion(w)
    BY OnlyCheckResolves
  <2>2. ~VersionAccepts(req[w].token, Version(req[w].token.scope))
    BY RevokedRefused DEF RevokedStaysRevoked
  <2>3. GetSessionVersion(req[w].token.scope) = {Version(req[w].token.scope)}
    BY DEF GetSessionVersion
  <2>4. req' = [req EXCEPT ![w].pc = "resolved", ![w].scope = Anonymous]
    BY <2>1, <2>2, <2>3 DEF CheckVersion
  <2>5. req \in [Worker -> Request]
    BY DEF SessionInv, TypeOK
  <2> QED BY <2>4, <2>5 DEF Request
<1> QED BY <1>1, InvHolds, PTL DEF Spec, NoRevokedTokenAccepted

(* What no logout has ended carries the scope's version of this moment. *)
CurrentInv ==
  /\ \A t \in tokens \ revoked : t.sv = 0 \/ t.sv = Version(t.scope)
  /\ \A w \in Worker : req[w].pc = "signing" /\ ~req[w].stale
                       => req[w].sv = Version(req[w].scope)

(* A step that keeps the tables and makes no request "signing" keeps it. *)
LEMMA CurrentUnchanged ==
  ASSUME SessionInv, CurrentInv, UNCHANGED <<stored, tokens, revoked>>,
         NEW w \in Worker, NEW r,
         req' = [req EXCEPT ![w] = r],
         r.pc = "signing" => r.sv = Version(r.scope)
  PROVE  CurrentInv'
<1>1. \A x \in Worker : req'[x] = IF x = w THEN r ELSE req[x]
  BY DEF SessionInv, TypeOK
<1> QED BY <1>1 DEF CurrentInv, Version

LEMMA CurrentStep ==
  ASSUME ReadsMayFail = FALSE
  PROVE  SessionInv /\ CurrentInv /\ [Next]_vars => CurrentInv'
<1> SUFFICES ASSUME SessionInv, CurrentInv, [Next]_vars
             PROVE  CurrentInv'
  OBVIOUS
<1>t. TypeOK
  BY DEF SessionInv
<1>i. Idle.pc = "idle"
  BY DEF Idle
<1>1. CASE Tick
  BY <1>1 DEF Tick, CurrentInv, Version
<1>2. ASSUME NEW s \in Scope, Login(s)
      PROVE  CurrentInv'
  BY <1>2 DEF Login, issueToken, CurrentInv, Version
<1>3. ASSUME NEW w \in Worker, NEW s \in Scope, VerifySignup(w, s)
      PROVE  CurrentInv'
  <2> DEFINE r == [Idle EXCEPT !.pc = "reading", !.op = "verify",
                               !.scope = s, !.start = now]
  <2>1. r.pc = "reading"
    BY DEF Idle
  <2> QED BY <1>3, <2>1, CurrentUnchanged DEF VerifySignup
<1>4. ASSUME NEW w \in Worker, IssueRead(w)
      PROVE  CurrentInv'
  <2> DEFINE r == [req[w] EXCEPT !.pc = "signing", !.sv = Version(req[w].scope)]
  <2>1. req' = [req EXCEPT ![w] = r]
    BY <1>4, <1>t DEF IssueRead, GetSessionVersion, TypeOK
  <2>2. r.sv = Version(r.scope)
    BY <1>t DEF TypeOK, Request
  <2> HIDE DEF r
  <2> QED BY <1>4, <2>1, <2>2, CurrentUnchanged DEF IssueRead
<1>5. ASSUME NEW w \in Worker, IssueSign(w)
      PROVE  CurrentInv'
  <2> DEFINE t == [scope |-> req[w].scope, sv |-> req[w].sv, exp |-> req[w].start + IssuerTTL]
  <2>1. req[w].stale \/ t.sv = Version(t.scope)
    BY <1>5 DEF IssueSign, CurrentInv
  <2>2. /\ tokens' = tokens \cup {t}
        /\ revoked' = IF req[w].stale THEN revoked \cup {t} ELSE revoked
        /\ req' = [req EXCEPT ![w] = Idle]
        /\ UNCHANGED <<now, stored>>
    BY <1>5 DEF IssueSign
  <2> HIDE DEF t
  <2>3. \A x \in Worker : req'[x] = IF x = w THEN Idle ELSE req[x]
    BY <2>2, <1>t DEF TypeOK
  <2> QED BY <2>1, <2>2, <2>3, <1>i DEF CurrentInv, Version
<1>6. ASSUME NEW w \in Worker, NEW op, NEW t, Present(w, op, t) \/ Refresh(w, t)
      PROVE  CurrentInv'
  <2>1. PICK r : /\ req' = [req EXCEPT ![w] = r] /\ r.pc \in {"parsed", "resolved"}
                 /\ UNCHANGED <<stored, tokens, revoked>>
    BY <1>6 DEF Present, Refresh, Idle
  <2> QED BY <2>1, CurrentUnchanged
<1>7. ASSUME NEW w \in Worker, CheckVersion(w)
      PROVE  CurrentInv'
  <2>1. \A x \in Worker : /\ x # w => req'[x] = req[x]
                          /\ req'[w].pc = "resolved"
    BY <1>7, <1>t DEF CheckVersion, TypeOK, Request
  <2> QED BY <1>7, <2>1 DEF CheckVersion, CurrentInv, Version
<1>8. ASSUME NEW w \in Worker, Serve(w) \/ LogoutNothing(w) \/ RefreshUnauthorized(w)
      PROVE  CurrentInv'
  <2>1. req' = [req EXCEPT ![w] = Idle] /\ UNCHANGED <<stored, tokens, revoked>>
    BY <1>8 DEF Serve, LogoutNothing, RefreshUnauthorized
  <2> QED BY <2>1, <1>i, CurrentUnchanged
<1>9. ASSUME NEW w \in Worker, Logout(w)
      PROVE  CurrentInv'
  <2> DEFINE s == req[w].scope
  <2>1. /\ stored' = [stored EXCEPT ![s] = BumpedVersion(s)]
        /\ revoked' = revoked \cup {t \in tokens : t.scope = s}
        /\ tokens' = tokens
    BY <1>9 DEF Logout
  <2>2. \A x \in Scope : x # s => Version(x)' = Version(x)
    BY <2>1, <1>t DEF Version, TypeOK
  <2>3. \A t \in tokens' \ revoked' : t.sv = 0 \/ t.sv = Version(t.scope)'
    BY <2>1, <2>2, <1>t DEF CurrentInv, TypeOK, Token
  <2>4. ASSUME NEW x \in Worker, req'[x].pc = "signing", ~req'[x].stale
        PROVE  req'[x] = req[x] /\ req[x].scope # s
    BY <1>9, <2>4, <1>t, <1>i DEF Logout, TypeOK, Request
  <2>5. \A x \in Worker : req'[x].pc = "signing" /\ ~req'[x].stale
                          => req'[x] = req[x] /\ Version(req[x].scope)' = Version(req[x].scope)
    BY <2>1, <2>4, <1>t DEF Version, SessionInv, HeldInv, HeldBy, TypeOK
  <2> QED BY <2>3, <2>4, <2>5 DEF CurrentInv
<1>10. CASE UNCHANGED vars
  BY <1>10 DEF vars, CurrentInv, Version
<1> QED
  BY <1>1, <1>2, <1>3, <1>4, <1>5, <1>6, <1>7, <1>8, <1>9, <1>10 DEF Next, Progress

(* A session issued by the signup verification stays good until its own *)
(* scope logs out: no login, and no logout of another scope, ends it.   *)
THEOREM IssuedStaysUsable ==
  ASSUME ReadsMayFail = FALSE
  PROVE  Spec => []IssuedSessionUsable
<1>1. Init => CurrentInv
  BY DEF Init, CurrentInv, Idle
<1>2. SessionInv /\ CurrentInv /\ [Next]_vars => CurrentInv'
  BY CurrentStep
<1>3. SessionInv /\ CurrentInv => IssuedSessionUsable
  <2> SUFFICES ASSUME SessionInv, CurrentInv, NEW t \in tokens \ revoked, t.sv > 0
               PROVE  VersionAccepts(t, Version(t.scope))
    BY DEF IssuedSessionUsable
  <2> QED BY DEF SessionInv, TypeOK, Token, CurrentInv, VersionAccepts
<1> QED BY <1>1, <1>2, <1>3, InvHolds, PTL DEF Spec

-----------------------------------------------------------------------------
(* The refinement of SessionStore.  Bounds first: the logouts at work may   *)
(* still bump a version each, and a worker signs no version and no expiry   *)
(* beyond those of BoundedToken.                                            *)
LoggingOut == {w \in Worker : req[w].op = "logout"}

BoundsInv ==
  /\ now <= MaxTime
  /\ \A w \in Worker : req[w].pc \in {"reading", "signing"} => req[w].start <= now
  /\ \A s \in Scope : Version(s) + Cardinality(LoggingOut) <= MaxVersion

LEMMA SomeWorkers ==
  ASSUME NEW A, A \subseteq Worker
  PROVE  IsFiniteSet(A) /\ Cardinality(A) \in Nat
BY ConstantsAssumption, FS_Subset, FS_CardinalityType

LEMMA BoundsInit == Init => BoundsInv
<1> SUFFICES ASSUME Init
             PROVE  BoundsInv
  OBVIOUS
<1>1. LoggingOut = {} /\ now = 0 /\ \A s \in Scope : Version(s) = 1
  BY DEF Init, LoggingOut, Idle, Version
<1>2. Cardinality(LoggingOut) = 0
  BY <1>1, FS_EmptySet
<1>3. \A w \in Worker : req[w].pc = "idle"
  BY DEF Init, Idle
<1> QED BY <1>1, <1>2, <1>3, ConstantsAssumption DEF BoundsInv

(* A worker goes on with something else than a new logout. *)
LEMMA BoundsKept ==
  ASSUME SessionInv, BoundsInv, UNCHANGED <<now, stored>>, NEW w \in Worker, NEW r,
         req' = [req EXCEPT ![w] = r],
         r.pc \in {"reading", "signing"} => r.start <= now,
         r.op = "logout" => req[w].op = "logout"
  PROVE  BoundsInv'
<1>1. \A x \in Worker : req'[x] = IF x = w THEN r ELSE req[x]
  BY DEF SessionInv, TypeOK
<1>2. LoggingOut' \subseteq LoggingOut /\ LoggingOut \subseteq Worker
  BY <1>1 DEF LoggingOut
<1>3. /\ Cardinality(LoggingOut) \in Nat /\ Cardinality(LoggingOut') \in Nat
      /\ Cardinality(LoggingOut') <= Cardinality(LoggingOut)
  BY <1>2, SomeWorkers, FS_Subset
<1>4. \A s \in Scope : Version(s)' = Version(s) /\ Version(s) \in Nat
  BY VersionPositive DEF SessionInv, Version
<1>5. \A s \in Scope : Version(s)' + Cardinality(LoggingOut') <= MaxVersion
  BY <1>3, <1>4, ConstantsAssumption DEF BoundsInv
<1>6. \A x \in Worker : req'[x].pc \in {"reading", "signing"} => req'[x].start <= now
  BY <1>1 DEF BoundsInv
<1> QED BY <1>5, <1>6 DEF BoundsInv

LEMMA BoundsNext == SessionInv /\ BoundsInv /\ [Next]_vars => BoundsInv'
<1> SUFFICES ASSUME SessionInv, BoundsInv, [Next]_vars
             PROVE  BoundsInv'
  OBVIOUS
<1>t. /\ TypeOK /\ now \in Nat /\ req \in [Worker -> Request]
      /\ \A x \in Worker : req[x].start \in Nat
  BY DEF SessionInv, TypeOK, Request
<1>i. Idle.pc = "idle" /\ Idle.op = "none"
  BY DEF Idle
<1>1. CASE Tick
  BY <1>1, <1>t, ConstantsAssumption DEF Tick, BoundsInv, LoggingOut, Version
<1>2. ASSUME NEW s \in Scope, Login(s)
      PROVE  BoundsInv'
  BY <1>2 DEF Login, BoundsInv, LoggingOut, Version
<1>3. ASSUME NEW w \in Worker, NEW s \in Scope, VerifySignup(w, s)
      PROVE  BoundsInv'
  <2> DEFINE r == [Idle EXCEPT !.pc = "reading", !.op = "verify",
                               !.scope = s, !.start = now]
  <2>1. r.op # "logout" /\ r.start <= now
    BY <1>t DEF Idle
  <2>2. req' = [req EXCEPT ![w] = r] /\ UNCHANGED <<now, stored>>
    BY <1>3 DEF VerifySignup
  <2> HIDE DEF r
  <2> QED BY <2>1, <2>2, BoundsKept
<1>4. ASSUME NEW w \in Worker, IssueRead(w)
      PROVE  BoundsInv'
  <2>1. PICK v : req' = [req EXCEPT ![w].pc = "signing", ![w].sv = v]
    BY <1>4 DEF IssueRead
  <2>2. PICK r : r = [req[w] EXCEPT !.pc = "signing", !.sv = v]
    OBVIOUS
  <2>3. r.start = req[w].start /\ r.op = req[w].op /\ req' = [req EXCEPT ![w] = r]
    BY <1>t, <2>1, <2>2 DEF Request
  <2>4. req[w].start <= now /\ UNCHANGED <<now, stored>>
    BY <1>4 DEF IssueRead, BoundsInv
  <2>5. r.start <= now /\ (r.op = "logout" => req[w].op = "logout")
    BY <2>3, <2>4
  <2> QED BY <2>3, <2>4, <2>5, BoundsKept
<1>5. ASSUME NEW w \in Worker, NEW op, NEW t, Present(w, op, t), op # "logout"
      PROVE  BoundsInv'
  <2> DEFINE r == IF ParseDetailed(t)
                  THEN [Idle EXCEPT !.pc = "parsed", !.op = op, !.token = t]
                  ELSE [Idle EXCEPT !.pc = "resolved", !.op = op, !.token = t, !.scope = Anonymous]
  <2>1. r.op = op /\ r.pc \in {"parsed", "resolved"}
    BY DEF Idle
  <2>2. req' = [req EXCEPT ![w] = r] /\ UNCHANGED <<now, stored>>
    BY <1>5 DEF Present
  <2> HIDE DEF r
  <2> QED BY <1>5, <2>1, <2>2, BoundsKept
<1>6. ASSUME NEW w \in Worker, NEW t, Present(w, "logout", t)
      PROVE  BoundsInv'
  <2>0. PICK r : r = IF ParseDetailed(t)
                     THEN [Idle EXCEPT !.pc = "parsed", !.op = "logout", !.token = t]
                     ELSE [Idle EXCEPT !.pc = "resolved", !.op = "logout", !.token = t, !.scope = Anonymous]
    OBVIOUS
  <2>1. req' = [req EXCEPT ![w] = r] /\ r.pc \in {"parsed", "resolved"}
    BY <1>6, <2>0 DEF Present, Idle
  <2>2. \A x \in Worker : req'[x] = IF x = w THEN r ELSE req[x]
    BY <1>t, <2>1
  <2>3. LoggingOut' \subseteq LoggingOut \cup {w} /\ LoggingOut \subseteq Worker
    BY <2>2 DEF LoggingOut
  <2>4. IsFiniteSet(LoggingOut) /\ Cardinality(LoggingOut) \in Nat
    BY <2>3, SomeWorkers
  <2>5. /\ IsFiniteSet(LoggingOut \cup {w})
        /\ Cardinality(LoggingOut \cup {w}) \in {Cardinality(LoggingOut), Cardinality(LoggingOut) + 1}
    BY <2>4, FS_AddElement
  <2>6. Cardinality(LoggingOut') <= Cardinality(LoggingOut) + 1 /\ Cardinality(LoggingOut') \in Nat
    <3>1. IsFiniteSet(LoggingOut') /\ Cardinality(LoggingOut') <= Cardinality(LoggingOut \cup {w})
      BY <2>3, <2>5, FS_Subset
    <3> QED BY <2>4, <2>5, <3>1, FS_CardinalityType
  <2>7. \A s \in Scope : Version(s) + Cardinality(LoggingOut) < MaxVersion
    BY <1>6 DEF Present, CanLogout, LoggingOut
  <2>8. \A s \in Scope : Version(s)' = Version(s) /\ Version(s) \in Nat
    BY <1>6, <1>t, VersionPositive DEF Present, Version
  <2>9. \A s \in Scope : Version(s)' + Cardinality(LoggingOut') <= MaxVersion
    BY <2>4, <2>6, <2>7, <2>8, ConstantsAssumption
  <2>10. \A x \in Worker : req'[x].pc \in {"reading", "signing"} => req'[x].start <= now
    BY <2>1, <2>2 DEF BoundsInv
  <2> QED BY <1>6, <2>9, <2>10 DEF BoundsInv, Present
<1>7. ASSUME NEW w \in Worker, NEW t, Refresh(w, t)
      PROVE  BoundsInv'
  <2>0. PICK r : r = [Idle EXCEPT !.pc = "resolved", !.op = "refresh", !.token = t]
    OBVIOUS
  <2>1. req' = [req EXCEPT ![w] = r] /\ r.pc = "resolved" /\ r.op = "refresh"
    BY <1>7, <2>0 DEF Refresh, Idle
  <2> QED BY <1>7, <2>1, BoundsKept DEF Refresh
<1>8. ASSUME NEW w \in Worker, CheckVersion(w)
      PROVE  BoundsInv'
  <2>1. PICK s : req' = [req EXCEPT ![w].pc = "resolved", ![w].scope = s]
    BY <1>8 DEF CheckVersion
  <2>2. PICK r : r = [req[w] EXCEPT !.pc = "resolved", !.scope = s]
    OBVIOUS
  <2>3. r.pc = "resolved" /\ r.op = req[w].op /\ req' = [req EXCEPT ![w] = r]
    BY <1>t, <2>1, <2>2 DEF Request
  <2> QED BY <1>8, <2>3, BoundsKept DEF CheckVersion
<1>9. ASSUME NEW w \in Worker, IssueSign(w) \/ Serve(w) \/ LogoutNothing(w) \/ RefreshUnauthorized(w)
      PROVE  BoundsInv'
  <2>1. req' = [req EXCEPT ![w] = Idle] /\ UNCHANGED <<now, stored>>
    BY <1>9 DEF IssueSign, Serve, LogoutNothing, RefreshUnauthorized
  <2> QED BY <1>i, <2>1, BoundsKept
<1>10. ASSUME NEW w \in Worker, Logout(w)
       PROVE  BoundsInv'
  <2>1. PICK s \in Scope : s = req[w].scope
    BY <1>10, <1>t DEF Logout, Request
  <2>2. stored' = [stored EXCEPT ![s] = BumpedVersion(s)] /\ UNCHANGED now
    BY <1>10, <2>1 DEF Logout
  <2>3. \A x \in Worker : /\ x # w => req'[x].op = req[x].op /\ req'[x].pc = req[x].pc
                                      /\ req'[x].start = req[x].start
                          /\ req'[w].op = "none" /\ req'[w].pc = "idle"
    BY <1>10, <1>t, <1>i DEF Logout, Request
  <2>4. LoggingOut' = LoggingOut \ {w} /\ w \in LoggingOut /\ LoggingOut \subseteq Worker
    BY <1>10, <2>3 DEF LoggingOut, Logout
  <2>5. IsFiniteSet(LoggingOut) /\ Cardinality(LoggingOut) \in Nat
    BY <2>4, SomeWorkers
  <2>6. Cardinality(LoggingOut') = Cardinality(LoggingOut) - 1
    BY <2>4, <2>5, FS_RemoveElement
  <2>7. \A x \in Scope : /\ Version(x)' = Version(x) \/ Version(x)' = Version(x) + 1
                         /\ Version(x) \in Nat
    BY <1>t, <2>2, VersionPositive DEF Version, BumpedVersion, TypeOK
  <2>8. \A x \in Scope : Version(x)' + Cardinality(LoggingOut') <= MaxVersion
    BY <2>5, <2>6, <2>7, ConstantsAssumption DEF BoundsInv
  <2>9. \A x \in Worker : req'[x].pc \in {"reading", "signing"} => req'[x].start <= now
    BY <2>3 DEF BoundsInv
  <2> QED BY <2>2, <2>8, <2>9 DEF BoundsInv
<1>11. CASE UNCHANGED vars
  BY <1>11 DEF vars, BoundsInv, LoggingOut, Version
<1> QED
  BY <1>1, <1>2, <1>3, <1>4, <1>5, <1>6, <1>7, <1>8, <1>9, <1>10, <1>11 DEF Next, Progress

(* The four ways in which a step of Sessions is one of the list. *)
LEMMA StoreQuiet ==
  ASSUME UNCHANGED <<now, stored, tokens>>
  PROVE  [Store!Next]_<<liveTokens, tokens \ liveTokens>>
<1>1. \A t : Accepted(t)' <=> Accepted(t)
  BY DEF Accepted, ParseDetailed, VersionAccepts, Version
<1>2. liveTokens' = liveTokens
  BY <1>1 DEF liveTokens
<1> QED BY <1>2

LEMMA StoreSign ==
  ASSUME UNCHANGED <<now, stored>>, NEW t \in BoundedToken, tokens' = tokens \cup {t}
  PROVE  [Store!Next]_<<liveTokens, tokens \ liveTokens>>
<1>1. \A x : Accepted(x)' <=> Accepted(x)
  BY DEF Accepted, ParseDetailed, VersionAccepts, Version
<1>2. CASE Accepted(t)
  <2>1. /\ t \notin tokens \ liveTokens
        /\ liveTokens' = liveTokens \cup {t}
        /\ (tokens \ liveTokens)' = tokens \ liveTokens
    BY <1>1, <1>2 DEF liveTokens
  <2> QED BY <2>1 DEF Store!Next, Store!Open
<1>3. CASE ~Accepted(t)
  <2>1. /\ t \notin liveTokens
        /\ (tokens \ liveTokens)' = (tokens \ liveTokens) \cup {t}
        /\ liveTokens' = liveTokens
    BY <1>1, <1>3 DEF liveTokens
  <2> QED BY <2>1 DEF Store!Next, Store!OpenTooLate
<1> QED BY <1>2, <1>3

LEMMA StoreTick ==
  ASSUME TypeOK, Tick
  PROVE  [Store!Next]_<<liveTokens, tokens \ liveTokens>>
<1>1. tokens' = tokens /\ stored' = stored /\ now' = now + 1 /\ now \in Nat
  BY DEF Tick, TypeOK
<1>2. \A t \in tokens : Accepted(t)' => Accepted(t)
  BY <1>1 DEF Accepted, ParseDetailed, VersionAccepts, Version, TypeOK, Token
<1>3. liveTokens' \subseteq liveTokens
  BY <1>1, <1>2 DEF liveTokens
<1> PICK T : T = liveTokens \ liveTokens'
  OBVIOUS
<1>4. /\ T \in SUBSET liveTokens /\ liveTokens' = liveTokens \ T
      /\ (tokens \ liveTokens)' = (tokens \ liveTokens) \cup T
  BY <1>1, <1>3 DEF liveTokens
<1>5. CASE T = {}
  BY <1>4, <1>5
<1>6. CASE T # {}
  BY <1>4, <1>6 DEF Store!Next, Store!Expire, Store!End
<1> QED BY <1>5, <1>6

LEMMA StoreLogOut ==
  ASSUME SessionInv, NEW w \in Worker, Logout(w)
  PROVE  [Store!Next]_<<liveTokens, tokens \ liveTokens>>
<1>t. TypeOK /\ SignedInv
  BY DEF SessionInv
<1>1. PICK s \in Scope : s = req[w].scope
  BY <1>t DEF Logout, TypeOK, Request
<1>2. stored' = [stored EXCEPT ![s] = BumpedVersion(s)] /\ UNCHANGED <<now, tokens>>
  BY <1>1 DEF Logout
<1>3. /\ \A x \in Scope : x # s => Version(x)' = Version(x)
      /\ Version(s)' = BumpedVersion(s) /\ Version(s) \in Nat
      /\ BumpedVersion(s) \in Nat \ {0, 1} /\ BumpedVersion(s) > Version(s)
  BY <1>t, <1>2, VersionPositive, BumpRaises DEF Version, TypeOK
<1>4. ASSUME NEW t \in tokens, t.scope # s
      PROVE  Accepted(t)' <=> Accepted(t)
  <2>1. Version(t.scope)' = Version(t.scope)
    BY <1>t, <1>3, <1>4 DEF TypeOK, Token
  <2> QED BY <1>2, <2>1 DEF Accepted, ParseDetailed, VersionAccepts
<1>5. ASSUME NEW t \in tokens, t.scope = s
      PROVE  ~Accepted(t)'
  <2>1. t.sv \in Nat /\ t.sv <= Version(s)
    BY <1>t, <1>5 DEF TypeOK, Token, SignedInv
  <2>2. ~VersionAccepts(t, Version(t.scope)')
    BY <1>3, <1>5, <2>1 DEF VersionAccepts
  <2> QED BY <2>2 DEF Accepted, VersionAccepts
<1> PICK T : T = {t \in liveTokens : t.scope = s}
  OBVIOUS
<1>6. liveTokens' = liveTokens \ T
  BY <1>2, <1>4, <1>5 DEF liveTokens
<1>7. (tokens \ liveTokens)' = (tokens \ liveTokens) \cup T
  BY <1>2, <1>6 DEF liveTokens
<1>8. Store!LogOut(s)
  BY <1>6, <1>7 DEF Store!LogOut, Store!End
<1> QED BY <1>8 DEF Store!Next

LEMMA StoreStep ==
  SessionInv /\ BoundsInv /\ [Next]_vars => [Store!Next]_<<liveTokens, tokens \ liveTokens>>
<1> SUFFICES ASSUME SessionInv, BoundsInv, [Next]_vars
             PROVE  [Store!Next]_<<liveTokens, tokens \ liveTokens>>
  OBVIOUS
<1>t. TypeOK /\ now \in Nat /\ now <= MaxTime
  BY DEF SessionInv, TypeOK, BoundsInv
<1>1. CASE UNCHANGED <<now, stored, tokens>>
  BY <1>1, StoreQuiet
<1>2. ASSUME NEW s \in Scope, Login(s)
      PROVE  [Store!Next]_<<liveTokens, tokens \ liveTokens>>
  <2>1. PICK t : t = issueToken(s)
    OBVIOUS
  <2>2. t \in BoundedToken
    BY <1>t, <2>1, ConstantsAssumption DEF issueToken, BoundedToken
  <2>3. tokens' = tokens \cup {t} /\ UNCHANGED <<now, stored>>
    BY <1>2, <2>1 DEF Login
  <2> QED BY <2>2, <2>3, StoreSign
<1>3. ASSUME NEW w \in Worker, IssueSign(w)
      PROVE  [Store!Next]_<<liveTokens, tokens \ liveTokens>>
  <2>1. PICK t : t = [scope |-> req[w].scope, sv |-> req[w].sv, exp |-> req[w].start + IssuerTTL]
    OBVIOUS
  <2>2. tokens' = tokens \cup {t} /\ UNCHANGED <<now, stored>> /\ req[w].pc = "signing"
    BY <1>3, <2>1 DEF IssueSign
  <2>3. /\ req[w].scope \in Scope /\ req[w].sv \in Nat /\ req[w].start \in Nat
        /\ req[w].sv <= Version(req[w].scope) /\ req[w].start <= now
    BY <2>2, <1>t DEF SessionInv, HeldInv, HeldBy, BoundsInv, TypeOK, Request
  <2>4. /\ Version(req[w].scope) \in Nat /\ Cardinality(LoggingOut) \in Nat
        /\ Version(req[w].scope) + Cardinality(LoggingOut) <= MaxVersion
    BY <2>3, <1>t, VersionPositive, SomeWorkers DEF LoggingOut, BoundsInv
  <2>5. req[w].sv \in 0 .. MaxVersion /\ req[w].start + IssuerTTL \in 0 .. (MaxTime + LoginTTL + IssuerTTL)
    BY <1>t, <2>3, <2>4, ConstantsAssumption
  <2>6. t \in BoundedToken
    BY <2>1, <2>3, <2>5 DEF BoundedToken
  <2> QED BY <2>2, <2>6, StoreSign
<1>4. CASE Tick
  BY <1>4, <1>t, StoreTick
<1>5. ASSUME NEW w \in Worker, Logout(w)
      PROVE  [Store!Next]_<<liveTokens, tokens \ liveTokens>>
  BY <1>5, StoreLogOut
<1>6. ASSUME NEW w \in Worker, Progress(w), ~IssueSign(w), ~Logout(w)
      PROVE  UNCHANGED <<now, stored, tokens>>
  BY <1>6 DEF Progress, IssueRead, CheckVersion, Serve, LogoutNothing, RefreshUnauthorized
<1>7. ASSUME NEW w \in Worker, NEW s, NEW op, NEW t, VerifySignup(w, s) \/ Present(w, op, t) \/ Refresh(w, t)
      PROVE  UNCHANGED <<now, stored, tokens>>
  BY <1>7 DEF VerifySignup, Present, Refresh
<1>8. CASE UNCHANGED vars
  BY <1>1, <1>8 DEF vars
<1> QED BY <1>1, <1>2, <1>3, <1>4, <1>5, <1>6, <1>7, <1>8 DEF Next

(* Signed tokens and a version per scope do what a list of sessions kept by  *)
(* the server would: a logout closes the sessions of its scope and no other, *)
(* and none opens again, whether or not a version read fails.                *)
THEOREM SessionsImplementStore == Spec => ImplementsStore
<1>1. Init => Store!Init
  BY DEF Init, Store!Init, liveTokens
<1>2. Init => BoundsInv
  BY BoundsInit
<1>3. SessionInv /\ BoundsInv /\ [Next]_vars => BoundsInv'
  BY BoundsNext
<1>4. SessionInv /\ BoundsInv /\ [Next]_vars => [Store!Next]_<<liveTokens, tokens \ liveTokens>>
  BY StoreStep
<1> QED BY <1>1, <1>2, <1>3, <1>4, InvHolds, PTL DEF Spec, Store!Spec, ImplementsStore
=============================================================================
