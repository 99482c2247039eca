-------------------------- MODULE ApiTokensProofs --------------------------
(***************************************************************************)
(* Theorems about ApiTokens, for any users, accounts, tokens, lifetimes,   *)
(* goroutines and bound on the clock, with statements that fail or not.    *)
(*                                                                         *)
(* RotationOutcome is not inductive: a successor copies what a request     *)
(* read two statements earlier, so the invariant must say that a row keeps *)
(* its user, account and expiry as long as requests hold them, and that    *)
(* one revoked stays so.                                                   *)
(***************************************************************************)
EXTENDS ApiTokens, TLAPS

(* What the request r of a worker has read of its token. *)
Holds(r) ==
  /\ r.pc # "idle" => r.tok \in TokenId /\ toks[r.tok] \in APIToken
  /\ r.pc \in {"revokeOld", "insertNew"} =>
       /\ toks[r.tok].user = r.user /\ toks[r.tok].account = r.account
       /\ toks[r.tok].exp = r.exp
  /\ r.pc = "insertNew" => toks[r.tok].revoked
  /\ r.pc = "expiry" => toks[r.tok].exp = r.exp
HoldsInv == \A w \in Worker : Holds(req[w])

(* Token t succeeds the token it names. *)
Succeeds(t) ==
  toks[t].from # NoTok =>
    /\ toks[t].from \in TokenId /\ toks[toks[t].from] \in APIToken
    /\ toks[toks[t].from].revoked
    /\ toks[toks[t].from].user = toks[t].user
    /\ toks[toks[t].from].account = toks[t].account
    /\ toks[toks[t].from].exp = toks[t].exp

(* What became of a token that a refresh revoked. *)
Rotated(t) ==
  toks[t].refreshed =>
    \/ t \in lost
    \/ \E s \in TokenId : toks[s].from = t
    \/ \E w \in Worker : req[w].pc = "insertNew" /\ req[w].tok = t

TokenInv ==
  /\ TypeOK /\ HoldsInv
  /\ \A t \in TokenId : Succeeds(t) /\ Rotated(t)

-----------------------------------------------------------------------------
(* Tokens keep what was inserted, and stay revoked. *)
RowStays(t) ==
  toks[t] \in APIToken =>
    /\ toks'[t] \in APIToken
    /\ toks'[t].user = toks[t].user /\ toks'[t].account = toks[t].account
    /\ toks'[t].exp = toks[t].exp /\ toks'[t].from = toks[t].from
    /\ toks[t].revoked => toks'[t].revoked
RowsStay == \A t \in TokenId : RowStays(t)

LEMMA InsertedToken ==
  ASSUME TypeOK, NEW t \in TokenId, NEW u \in User, NEW a \in Account, NEW exp \in Int,
         NEW from \in TokenId \cup {NoTok}, InsertToken(t, u, a, exp, from)
  PROVE  /\ toks' \in [TokenId -> APIToken \cup {NoToken}] /\ RowsStay
         /\ toks[t] = NoToken
         /\ toks'[t].from = from /\ toks'[t].refreshed = FALSE
         /\ toks'[t].user = u /\ toks'[t].account = a /\ toks'[t].exp = exp
         /\ \A x \in TokenId : x # t => toks'[x] = toks[x]
<1> DEFINE row == [user |-> u, account |-> a, exp |-> exp, revoked |-> FALSE,
                   used |-> FALSE, from |-> from, refreshed |-> FALSE]
<1>1. row \in APIToken
  BY DEF APIToken
<1>2. toks[t] = NoToken /\ toks' = [toks EXCEPT ![t] = row]
  BY DEF InsertToken, Stored
<1>3. NoToken \notin APIToken
  BY ApiTokensAssumption DEF NoToken, APIToken
<1> HIDE DEF row
<1>4. toks'[t] = row /\ \A x \in TokenId : x # t => toks'[x] = toks[x]
  BY <1>2 DEF TypeOK
<1>5. RowsStay
  BY <1>2, <1>3, <1>4 DEF RowsStay, RowStays
<1>6. toks' \in [TokenId -> APIToken \cup {NoToken}]
  BY <1>1, <1>2 DEF TypeOK
<1> QED BY <1>2, <1>4, <1>5, <1>6 DEF row

LEMMA RevokedToken ==
  ASSUME TypeOK, NEW t \in TokenId, toks[t] \in APIToken, NEW b \in BOOLEAN, SetRevoked(t, b)
  PROVE  /\ toks' \in [TokenId -> APIToken \cup {NoToken}] /\ RowsStay
         /\ ~b => toks'[t].refreshed = toks[t].refreshed
         /\ toks'[t].revoked
         /\ \A x \in TokenId : x # t => toks'[x] = toks[x]
<1> DEFINE row == [toks[t] EXCEPT !.revoked = TRUE, !.refreshed = @ \/ b]
<1>0. (toks[t].refreshed \/ b) \in BOOLEAN
  OBVIOUS
<1>1. row \in APIToken
  BY <1>0 DEF APIToken
<1>2. /\ row.user = toks[t].user /\ row.account = toks[t].account /\ row.exp = toks[t].exp
      /\ row.from = toks[t].from /\ row.revoked = TRUE
  BY DEF APIToken
<1>3. row.refreshed = (toks[t].refreshed \/ b) /\ toks[t].refreshed \in BOOLEAN
  BY DEF APIToken
<1>4. toks' = [toks EXCEPT ![t] = row]
  BY DEF SetRevoked, TypeOK
<1> HIDE DEF row
<1>5. toks'[t] = row /\ \A x \in TokenId : x # t => toks'[x] = toks[x]
  BY <1>4 DEF TypeOK
<1>6. RowsStay
  BY <1>1, <1>2, <1>5 DEF RowsStay, RowStays
<1>7. toks' \in [TokenId -> APIToken \cup {NoToken}]
  BY <1>1, <1>4 DEF TypeOK
<1>8. ~b => row.refreshed = toks[t].refreshed
  BY <1>3
<1> QED BY <1>2, <1>5, <1>6, <1>7, <1>8

LEMMA UsedToken ==
  ASSUME TypeOK, NEW t \in TokenId, toks[t] \in APIToken, UpdateLastUsed(t)
  PROVE  /\ toks' \in [TokenId -> APIToken \cup {NoToken}] /\ RowsStay
         /\ toks'[t].refreshed = toks[t].refreshed
         /\ \A x \in TokenId : x # t => toks'[x] = toks[x]
<1> DEFINE row == [toks[t] EXCEPT !.used = TRUE]
<1>1. row \in APIToken
  BY DEF APIToken
<1>2. /\ row.user = toks[t].user /\ row.account = toks[t].account /\ row.exp = toks[t].exp
      /\ row.from = toks[t].from /\ row.revoked = toks[t].revoked
      /\ row.refreshed = toks[t].refreshed
  BY DEF APIToken
<1>4. toks' = [toks EXCEPT ![t] = row]
  BY DEF UpdateLastUsed, TypeOK
<1> HIDE DEF row
<1>5. toks'[t] = row /\ \A x \in TokenId : x # t => toks'[x] = toks[x]
  BY <1>4 DEF TypeOK
<1>6. RowsStay
  BY <1>1, <1>2, <1>5 DEF RowsStay, RowStays
<1>7. toks' \in [TokenId -> APIToken \cup {NoToken}]
  BY <1>1, <1>4 DEF TypeOK
<1> QED BY <1>2, <1>5, <1>6, <1>7

LEMMA UnchangedRows ==
  ASSUME TypeOK, UNCHANGED toks
  PROVE  toks' \in [TokenId -> APIToken \cup {NoToken}] /\ RowsStay
BY DEF TypeOK, RowsStay, RowStays

LEMMA IdleRequest == Idle \in Request /\ Idle.pc = "idle"
BY DEF Idle, Request

(* A step of worker w, which is then well placed. *)
LEMMA HoldsStep ==
  ASSUME TokenInv, NEW w \in Worker, NEW r \in Request, req' = [req EXCEPT ![w] = r],
         Holds(req[w])', RowsStay
  PROVE  HoldsInv' /\ req' \in [Worker -> Request]
<1>1. HoldsInv'
  <2> SUFFICES ASSUME NEW x \in Worker
               PROVE  Holds(req[x])'
    BY DEF HoldsInv
  <2>1. CASE x = w
    BY <2>1
  <2>2. CASE x # w
    <3>1. req'[x] = req[x] /\ Holds(req[x])
      BY <2>2 DEF TokenInv, TypeOK, HoldsInv
    <3>2. PICK y : y = req[x]
      OBVIOUS
    <3>3. CASE y.pc = "idle"
      BY <3>1, <3>2, <3>3 DEF Holds
    <3>4. CASE y.pc # "idle"
      <4>1. y.tok \in TokenId /\ RowStays(y.tok)
        BY <3>1, <3>2, <3>4 DEF Holds, RowsStay
      <4> QED BY <3>1, <3>2, <3>4, <4>1 DEF Holds, RowStays
    <3> QED BY <3>3, <3>4
  <2> QED BY <2>1, <2>2
<1>2. req' \in [Worker -> Request]
  BY DEF TokenInv, TypeOK
<1> QED BY <1>1, <1>2

LEMMA HoldsSame ==
  ASSUME TokenInv, UNCHANGED req, RowsStay
  PROVE  HoldsInv' /\ req' \in [Worker -> Request]
<1>1. HoldsInv'
  <2> SUFFICES ASSUME NEW x \in Worker
               PROVE  Holds(req[x])'
    BY DEF HoldsInv
  <2>1. PICK y : y = req[x] /\ req'[x] = y /\ Holds(y)
    BY DEF TokenInv, HoldsInv
  <2>2. CASE y.pc = "idle"
    BY <2>1, <2>2 DEF Holds
  <2>3. CASE y.pc # "idle"
    <3>1. y.tok \in TokenId /\ RowStays(y.tok)
      BY <2>1, <2>3 DEF Holds, RowsStay
    <3> QED BY <2>1, <2>3, <3>1 DEF Holds, RowStays
  <2> QED BY <2>2, <2>3
<1> QED BY <1>1 DEF TokenInv, TypeOK

LEMMA DoneHolds ==
  ASSUME TokenInv, NEW w \in Worker, Done(w), RowsStay
  PROVE  HoldsInv' /\ req' \in [Worker -> Request]
<1>1. req' = [req EXCEPT ![w] = Idle] /\ req'[w] = Idle
  BY DEF Done, TokenInv, TypeOK
<1>2. Holds(req[w])'
  BY <1>1, IdleRequest DEF Holds
<1> QED BY <1>1, <1>2, IdleRequest, HoldsStep

(* Rows that were there keep succeeding the tokens they succeed. *)
LEMMA SucceedsStays ==
  ASSUME TokenInv, RowsStay, NEW t \in TokenId, toks[t] \in APIToken
  PROVE  Succeeds(t)'
<1>1. toks'[t].from = toks[t].from /\ RowStays(t) /\ Succeeds(t)
  BY DEF RowsStay, RowStays, TokenInv
<1>2. CASE toks[t].from = NoTok
  BY <1>1, <1>2 DEF Succeeds
<1>3. CASE toks[t].from # NoTok
  <2>1. PICK f : f = toks[t].from
    OBVIOUS
  <2>2. f \in TokenId /\ RowStays(f) /\ toks'[t].from = f /\ f # NoTok
    BY <1>1, <1>3, <2>1 DEF Succeeds, RowsStay
  <2> QED BY <1>1, <2>1, <2>2 DEF Succeeds, RowStays
<1> QED BY <1>2, <1>3

(* ... and what became of a token that was refreshed remains, when no        *)
(* request leaves the insert.                                                *)
LEMMA RotatedStays ==
  ASSUME TokenInv, RowsStay, toks' \in [TokenId -> APIToken \cup {NoToken}],
         NEW t \in TokenId, lost \subseteq lost',
         toks'[t].refreshed => toks[t].refreshed,
         \/ \E s \in TokenId : toks'[s].from = t
         \/ t \in lost'
         \/ \A w \in Worker : req[w].pc = "insertNew" /\ req[w].tok = t => req'[w] = req[w]
  PROVE  Rotated(t)'
<1> SUFFICES ASSUME toks[t].refreshed
             PROVE  Rotated(t)'
  BY DEF Rotated
<1>1. Rotated(t)
  BY DEF TokenInv
<1>2. ASSUME NEW s \in TokenId, toks[s].from = t
      PROVE  toks'[s].from = t
  <2>1. toks[s] \in APIToken
    BY <1>2, ApiTokensAssumption DEF TokenInv, TypeOK, NoToken
  <2> QED BY <1>2, <2>1 DEF RowsStay, RowStays
<1> QED BY <1>1, <1>2 DEF Rotated

LEMMA TokenInit == Init => TokenInv
<1> SUFFICES ASSUME Init
             PROVE  TokenInv
  OBVIOUS
<1>1. TypeOK
  BY ApiTokensAssumption DEF Init, TypeOK, Idle, Request
<1>2. HoldsInv
  BY DEF Init, HoldsInv, Holds, Idle
<1>3. \A t \in TokenId : Succeeds(t) /\ Rotated(t)
  BY DEF Init, Succeeds, Rotated, NoToken
<1> QED BY <1>1, <1>2, <1>3 DEF TokenInv

(* A step that revokes by refresh no token, adds no row and leaves no insert. *)
LEMMA QuietStep ==
  ASSUME TokenInv, toks' \in [TokenId -> APIToken \cup {NoToken}], RowsStay,
         \A t \in TokenId : toks[t] = NoToken => toks'[t] = NoToken,
         \A t \in TokenId : toks'[t].refreshed => toks[t].refreshed,
         \A w \in Worker : req[w].pc = "insertNew" => req'[w] = req[w],
         HoldsInv', req' \in [Worker -> Request],
         now' \in Nat, lost' = lost
  PROVE  TokenInv'
<1>1. TypeOK'
  BY DEF TokenInv, TypeOK
<1>2. ASSUME NEW t \in TokenId
      PROVE  Succeeds(t)' /\ Rotated(t)'
  <2>1. Rotated(t)'
    BY RotatedStays
  <2>2. CASE toks[t] = NoToken
    <3>1. toks'[t].from = NoTok
      BY <2>2 DEF NoToken
    <3> QED BY <2>1, <3>1 DEF Succeeds
  <2>3. CASE toks[t] # NoToken
    <3>1. toks[t] \in APIToken
      BY <2>3 DEF TokenInv, TypeOK
    <3> QED BY <2>1, <3>1, SucceedsStays
  <2> QED BY <2>2, <2>3
<1> QED BY <1>1, <1>2 DEF TokenInv

LEMMA TokenNext == TokenInv /\ [Next]_vars => TokenInv'
<1> SUFFICES ASSUME TokenInv, [Next]_vars
             PROVE  TokenInv'
  OBVIOUS
<1>t. TypeOK /\ HoldsInv
  BY DEF TokenInv
<1>n. NoToken \notin APIToken
  BY ApiTokensAssumption DEF NoToken, APIToken
<1>1. ASSUME NEW w \in Worker, NEW u \in User, NEW a \in Account, NEW d \in Lifetime, Create(w, u, a, d)
      PROVE  TokenInv'
  <2>1. PICK t \in TokenId : InsertToken(t, u, a, now + d, NoTok)
    BY <1>1 DEF Create
  <2>2. now + d \in Int
    BY <1>t, ApiTokensAssumption DEF TypeOK
  <2>3. UNCHANGED <<now, req, lost>>
    BY <1>1 DEF Create
  <2>4. /\ toks' \in [TokenId -> APIToken \cup {NoToken}] /\ RowsStay /\ toks[t] = NoToken
        /\ toks'[t].from = NoTok /\ toks'[t].refreshed = FALSE
        /\ \A x \in TokenId : x # t => toks'[x] = toks[x]
    <3> DEFINE exp == now + d
               from == NoTok
    <3>1. from \in TokenId \cup {NoTok} /\ exp \in Int /\ InsertToken(t, u, a, exp, from)
      BY <2>1, <2>2
    <3> HIDE DEF exp, from
    <3>2. /\ toks' \in [TokenId -> APIToken \cup {NoToken}] /\ RowsStay /\ toks[t] = NoToken
          /\ toks'[t].from = from /\ toks'[t].refreshed = FALSE
          /\ \A x \in TokenId : x # t => toks'[x] = toks[x]
      BY ONLY <3>1, u \in User, a \in Account, t \in TokenId, <1>t, InsertedToken
    <3> QED BY <3>2 DEF from
  <2>5. HoldsInv' /\ req' \in [Worker -> Request]
    BY <2>3, <2>4, HoldsSame
  <2>6. TypeOK'
    BY <2>3, <2>4, <2>5, <1>t DEF TypeOK
  <2>7. ASSUME NEW x \in TokenId
        PROVE  Succeeds(x)' /\ Rotated(x)'
    <3>1. toks'[x].refreshed => toks[x].refreshed
      BY <2>4
    <3>2. Rotated(x)'
      BY <2>3, <2>4, <3>1, RotatedStays
    <3>3. CASE toks'[x].from = NoTok
      BY <3>2, <3>3 DEF Succeeds
    <3>4. CASE toks'[x].from # NoTok
      <4>1. toks[x] \in APIToken
        BY <2>4, <3>4, <1>t DEF TypeOK, NoToken
      <4> QED BY <2>4, <3>2, <4>1, SucceedsStays
    <3> QED BY <3>3, <3>4
  <2> QED BY <2>5, <2>6, <2>7 DEF TokenInv
<1>2. ASSUME NEW w \in Worker, NEW u \in User, NEW t \in TokenId, Revoke(w, u, t)
      PROVE  TokenInv'
  <2>1. /\ toks[t] \in APIToken /\ SetRevoked(t, FALSE) /\ UNCHANGED <<now, req, lost>>
    BY <1>2, <1>t DEF Revoke, GetTokenByID, Stored, TypeOK
  <2>2. /\ toks' \in [TokenId -> APIToken \cup {NoToken}] /\ RowsStay
        /\ toks'[t].refreshed = toks[t].refreshed
        /\ \A x \in TokenId : x # t => toks'[x] = toks[x]
    BY <2>1, <1>t, RevokedToken
  <2>3. HoldsInv' /\ req' \in [Worker -> Request]
    BY <2>1, <2>2, HoldsSame
  <2>4. \A x \in TokenId : /\ toks[x] = NoToken => toks'[x] = NoToken
                           /\ toks'[x].refreshed => toks[x].refreshed
    BY <2>1, <2>2, <1>n
  <2> QED BY <2>1, <2>2, <2>3, <2>4, <1>t, QuietStep DEF TypeOK
<1>3. ASSUME NEW w \in Worker, NEW pc \in {"revokeOld", "expiry"}, NEW u \in User \cup {NoUser},
             NEW a \in Account \cup {NoAccount}, NEW t \in TokenId, toks[t] \in APIToken,
             Start(w, pc, u, a, toks[t].exp, t),
             pc = "revokeOld" => toks[t].user = u /\ toks[t].account = a,
             UNCHANGED <<now, toks, lost>>
      PROVE  TokenInv'
  <2> DEFINE r == [pc |-> pc, user |-> u, account |-> a, exp |-> toks[t].exp, tok |-> t]
  <2>1. r \in Request /\ r.pc = pc /\ r.user = u /\ r.account = a /\ r.exp = toks[t].exp /\ r.tok = t
    BY <1>3 DEF Request, APIToken
  <2>2. req' = [req EXCEPT ![w] = r] /\ req[w].pc = "idle"
    BY <1>3 DEF Start
  <2> HIDE DEF r
  <2>3. Holds(req[w])'
    BY <1>3, <2>1, <2>2, <1>t DEF Holds, TypeOK
  <2>4. RowsStay /\ toks' \in [TokenId -> APIToken \cup {NoToken}]
    BY <1>3, <1>t, UnchangedRows
  <2>5. HoldsInv' /\ req' \in [Worker -> Request]
    BY <2>1, <2>2, <2>3, <2>4, HoldsStep
  <2>6. \A x \in Worker : req[x].pc = "insertNew" => req'[x] = req[x]
    BY <2>2, <1>t DEF TypeOK
  <2> QED BY <1>3, <2>4, <2>5, <2>6, <1>t, QuietStep DEF TypeOK
<1>4. ASSUME NEW w \in Worker, NEW u \in User, NEW t \in TokenId, Refresh(w, u, t)
      PROVE  TokenInv'
  <2>1. toks[t] \in APIToken /\ toks[t].user = u
    BY <1>4, <1>t DEF Refresh, GetTokenByID, Stored, TypeOK
  <2>2. toks[t].account \in Account
    BY <2>1 DEF APIToken
  <2> QED BY <1>3, <1>4, <2>1, <2>2 DEF Refresh
<1>5. ASSUME NEW w \in Worker, NEW t \in TokenId, ValidateToken(w, t)
      PROVE  TokenInv'
  <2>1. toks[t] \in APIToken
    BY <1>5, <1>t DEF ValidateToken, Stored, TypeOK
  <2> QED BY <1>3, <1>5, <2>1 DEF ValidateToken
<1>6. ASSUME NEW w \in Worker, RevokeOld(w)
      PROVE  TokenInv'
  <2>1. PICK t \in TokenId : t = req[w].tok
    BY <1>6, <1>t DEF RevokeOld, HoldsInv, Holds
  <2>2. /\ req[w].pc = "revokeOld" /\ toks[t] \in APIToken /\ req[w] \in Request
        /\ toks[t].user = req[w].user /\ toks[t].account = req[w].account /\ toks[t].exp = req[w].exp
        /\ SetRevoked(t, TRUE) /\ GoOn(w, "insertNew") /\ UNCHANGED <<now, lost>>
    BY <1>6, <2>1, <1>t DEF RevokeOld, HoldsInv, Holds, TypeOK
  <2>3. /\ toks' \in [TokenId -> APIToken \cup {NoToken}] /\ RowsStay /\ toks'[t].revoked
        /\ \A x \in TokenId : x # t => toks'[x] = toks[x]
    BY <2>2, <1>t, RevokedToken
  <2> DEFINE r == [req[w] EXCEPT !.pc = "insertNew"]
  <2>4. r \in Request /\ r.pc = "insertNew" /\ r.user = req[w].user /\ r.account = req[w].account
        /\ r.exp = req[w].exp /\ r.tok = t
    BY <2>1, <2>2 DEF Request
  <2>5. req' = [req EXCEPT ![w] = r]
    BY <2>2, <1>t DEF GoOn, TypeOK
  <2> HIDE DEF r
  <2>6. req'[w] = r /\ \A x \in Worker : x # w => req'[x] = req[x]
    BY <2>5, <1>t DEF TypeOK
  <2>7. RowStays(t)
    BY <2>3 DEF RowsStay
  <2>8. Holds(req[w])'
    BY <2>2, <2>3, <2>4, <2>6, <2>7 DEF Holds, RowStays
  <2>9. HoldsInv' /\ req' \in [Worker -> Request]
    BY <2>3, <2>4, <2>5, <2>8, HoldsStep
  <2>10. TypeOK'
    BY <2>2, <2>3, <2>9, <1>t DEF TypeOK
  <2>11. ASSUME NEW x \in TokenId
         PROVE  Succeeds(x)' /\ Rotated(x)'
    <3>1. CASE x = t
      <4>1. Rotated(x)'
        BY <2>4, <2>6, <3>1 DEF Rotated
      <4> QED BY <2>2, <2>3, <3>1, <4>1, SucceedsStays
    <3>2. CASE x # t
      <4>1. toks'[x] = toks[x]
        BY <2>3, <3>2
      <4>2. \A v \in Worker : req[v].pc = "insertNew" /\ req[v].tok = x => req'[v] = req[v]
        BY <2>2, <2>6
      <4>3. Rotated(x)'
        BY <2>2, <2>3, <4>1, <4>2, RotatedStays
      <4>4. CASE toks[x] = NoToken
        BY <4>1, <4>3, <4>4 DEF Succeeds, NoToken
      <4>5. CASE toks[x] \in APIToken
        BY <2>3, <4>3, <4>5, SucceedsStays
      <4> QED BY <4>4, <4>5, <1>t DEF TypeOK
    <3> QED BY <3>1, <3>2
  <2> QED BY <2>9, <2>10, <2>11 DEF TokenInv
<1>7. ASSUME NEW w \in Worker, InsertSuccessor(w)
      PROVE  TokenInv'
  <2>1. PICK o \in TokenId : o = req[w].tok
    BY <1>7, <1>t DEF InsertSuccessor, HoldsInv, Holds
  <2>2. /\ toks[o] \in APIToken /\ req[w].pc = "insertNew" /\ toks[o].revoked
        /\ toks[o].user = req[w].user /\ toks[o].account = req[w].account /\ toks[o].exp = req[w].exp
        /\ Done(w) /\ UNCHANGED <<now, lost>>
    BY <1>7, <2>1, <1>t DEF InsertSuccessor, HoldsInv, Holds
  <2>3. PICK t \in TokenId : InsertToken(t, req[w].user, req[w].account, req[w].exp, o)
    BY <1>7, <2>1 DEF InsertSuccessor
  <2>4. req[w].user \in User /\ req[w].account \in Account /\ req[w].exp \in Int
    BY <2>2 DEF APIToken
  <2>5. /\ toks' \in [TokenId -> APIToken \cup {NoToken}] /\ RowsStay /\ toks[t] = NoToken
        /\ toks'[t].from = o /\ toks'[t].refreshed = FALSE
        /\ toks'[t].user = req[w].user /\ toks'[t].account = req[w].account
        /\ toks'[t].exp = req[w].exp
        /\ \A x \in TokenId : x # t => toks'[x] = toks[x]
    <3> DEFINE u == req[w].user
               a == req[w].account
               exp == req[w].exp
    <3>1. u \in User /\ a \in Account /\ exp \in Int /\ InsertToken(t, u, a, exp, o)
      BY <2>3, <2>4
    <3>2. o \in TokenId \cup {NoTok}
      OBVIOUS
    <3> HIDE DEF u, a, exp
    <3>3. /\ toks' \in [TokenId -> APIToken \cup {NoToken}] /\ RowsStay /\ toks[t] = NoToken
          /\ toks'[t].from = o /\ toks'[t].refreshed = FALSE
          /\ toks'[t].user = u /\ toks'[t].account = a /\ toks'[t].exp = exp
          /\ \A x \in TokenId : x # t => toks'[x] = toks[x]
      BY ONLY <3>1, <3>2, t \in TokenId, <1>t, InsertedToken
    <3> QED BY <3>3 DEF u, a, exp
  <2>6. HoldsInv' /\ req' \in [Worker -> Request]
    BY <2>2, <2>5, DoneHolds
  <2>7. TypeOK'
    BY <2>2, <2>5, <2>6, <1>t DEF TypeOK
  <2>8. RowStays(o)
    BY <2>5 DEF RowsStay
  <2>9. \A v \in Worker : v # w => req'[v] = req[v]
    BY <2>2, <1>t DEF Done, TypeOK
  <2>10. ASSUME NEW x \in TokenId
         PROVE  Succeeds(x)' /\ Rotated(x)'
    <3>1. toks'[x].refreshed => toks[x].refreshed
      BY <2>5
    <3>2. \/ \E s \in TokenId : toks'[s].from = x
          \/ \A v \in Worker : req[v].pc = "insertNew" /\ req[v].tok = x => req'[v] = req[v]
      <4>1. CASE x = o
        BY <2>5, <4>1
      <4>2. CASE x # o
        BY <2>1, <2>9, <4>2
      <4> QED BY <4>1, <4>2
    <3>3. Rotated(x)'
      BY <2>2, <2>5, <3>1, <3>2, RotatedStays
    <3>4. CASE x = t
      BY <2>2, <2>5, <2>8, <3>3, <3>4 DEF Succeeds, RowStays
    <3>5. CASE x # t /\ toks[x] = NoToken
      BY <2>5, <3>3, <3>5 DEF Succeeds, NoToken
    <3>6. CASE x # t /\ toks[x] \in APIToken
      BY <2>5, <3>3, <3>6, SucceedsStays
    <3> QED BY <3>4, <3>5, <3>6, <1>t DEF TypeOK
  <2> QED BY <2>6, <2>7, <2>10 DEF TokenInv
<1>8. ASSUME NEW w \in Worker, CheckExpiry(w)
      PROVE  TokenInv'
  <2>1. /\ req[w].pc = "expiry" /\ (Done(w) \/ GoOn(w, "touch"))
        /\ UNCHANGED <<now, toks, lost>>
    BY <1>8 DEF CheckExpiry
  <2>2. RowsStay /\ toks' \in [TokenId -> APIToken \cup {NoToken}]
    BY <2>1, <1>t, UnchangedRows
  <2>3. \A x \in Worker : req[x].pc = "insertNew" => req'[x] = req[x]
    BY <2>1, <1>t DEF Done, GoOn, TypeOK
  <2>4. CASE Done(w)
    BY <2>1, <2>2, <2>3, <2>4, <1>t, DoneHolds, QuietStep DEF TypeOK
  <2>5. CASE GoOn(w, "touch")
    <3> DEFINE r == [req[w] EXCEPT !.pc = "touch"]
    <3>1. r \in Request /\ r.pc = "touch" /\ r.tok = req[w].tok
      BY <1>t DEF TypeOK, Request
    <3>2. req' = [req EXCEPT ![w] = r]
      BY <2>5, <1>t DEF GoOn, TypeOK
    <3> HIDE DEF r
    <3>3. Holds(req[w])
      BY <1>t DEF HoldsInv
    <3>4. Holds(req[w])'
      BY <2>1, <3>1, <3>2, <3>3, <1>t DEF Holds, TypeOK
    <3>5. HoldsInv' /\ req' \in [Worker -> Request]
      BY <2>2, <3>1, <3>2, <3>4, HoldsStep
    <3> QED BY <2>1, <2>2, <2>3, <3>5, <1>t, QuietStep DEF TypeOK
  <2> QED BY <2>1, <2>4, <2>5
<1>9. ASSUME NEW w \in Worker, NoteUse(w)
      PROVE  TokenInv'
  <2>1. PICK t \in TokenId : t = req[w].tok
    BY <1>9, <1>t DEF NoteUse, HoldsInv, Holds
  <2>2. /\ req[w].pc = "touch" /\ toks[t] \in APIToken /\ UpdateLastUsed(t) /\ Done(w)
        /\ UNCHANGED <<now, lost>>
    BY <1>9, <2>1, <1>t DEF NoteUse, HoldsInv, Holds
  <2>3. /\ toks' \in [TokenId -> APIToken \cup {NoToken}] /\ RowsStay
        /\ toks'[t].refreshed = toks[t].refreshed
        /\ \A x \in TokenId : x # t => toks'[x] = toks[x]
    BY <2>2, <1>t, UsedToken
  <2>4. \A x \in TokenId : /\ toks[x] = NoToken => toks'[x] = NoToken
                           /\ toks'[x].refreshed => toks[x].refreshed
    BY <2>2, <2>3, <1>n
  <2>5. \A x \in Worker : req[x].pc = "insertNew" => req'[x] = req[x]
    BY <2>2, <1>t DEF Done, TypeOK
  <2>6. HoldsInv' /\ req' \in [Worker -> Request]
    BY <2>2, <2>3, DoneHolds
  <2> QED BY <2>2, <2>3, <2>4, <2>5, <2>6, <1>t, QuietStep DEF TypeOK
<1>10. ASSUME NEW w \in Worker, Fail(w)
       PROVE  TokenInv'
  <2>1. /\ req[w].pc # "idle" /\ req[w].tok \in TokenId /\ Done(w) /\ UNCHANGED <<now, toks>>
        /\ lost' = IF req[w].pc = "insertNew" THEN lost \cup {req[w].tok} ELSE lost
    BY <1>10, <1>t DEF Fail, HoldsInv, Holds
  <2>2. RowsStay /\ toks' \in [TokenId -> APIToken \cup {NoToken}]
    BY <2>1, <1>t, UnchangedRows
  <2>3. HoldsInv' /\ req' \in [Worker -> Request]
    BY <2>1, <2>2, DoneHolds
  <2>4. TypeOK'
    BY <2>1, <2>2, <2>3, <1>t DEF TypeOK
  <2>5. \A v \in Worker : v # w => req'[v] = req[v]
    BY <2>1, <1>t DEF Done, TypeOK
  <2>6. ASSUME NEW x \in TokenId
        PROVE  Succeeds(x)' /\ Rotated(x)'
    <3>1. \/ x \in lost'
          \/ \A v \in Worker : req[v].pc = "insertNew" /\ req[v].tok = x => req'[v] = req[v]
      BY <2>1, <2>5
    <3>2. Rotated(x)'
      BY <2>1, <2>2, <3>1, RotatedStays
    <3>3. Succeeds(x)'
      BY <2>1 DEF TokenInv, Succeeds
    <3> QED BY <3>2, <3>3
  <2> QED BY <2>3, <2>4, <2>6 DEF TokenInv
<1>11. CASE Tick
  <2>1. now' \in Nat /\ UNCHANGED <<toks, req, lost>>
    BY <1>11, <1>t DEF Tick, TypeOK
  <2>2. RowsStay /\ toks' \in [TokenId -> APIToken \cup {NoToken}]
    BY <2>1, <1>t, UnchangedRows
  <2> QED BY <2>1, <2>2, HoldsSame, QuietStep
<1>12. CASE UNCHANGED vars
  <2>1. now' \in Nat /\ UNCHANGED <<toks, req, lost>>
    BY <1>12, <1>t DEF vars, TypeOK
  <2>2. RowsStay /\ toks' \in [TokenId -> APIToken \cup {NoToken}]
    BY <2>1, <1>t, UnchangedRows
  <2> QED BY <2>1, <2>2, HoldsSame, QuietStep
<1> QED
  BY <1>1, <1>2, <1>4, <1>5, <1>6, <1>7, <1>8, <1>9, <1>10, <1>11, <1>12 DEF Next

LEMMA AlwaysTokenInv == Spec => []TokenInv
BY TokenInit, TokenNext, PTL DEF Spec

(* The table and the requests keep their shapes. *)
THEOREM TypeCorrect == Spec => []TypeOK
<1>1. TokenInv => TypeOK
  BY DEF TokenInv
<1> QED BY <1>1, AlwaysTokenInv, PTL

(* A successor is its predecessor's, and a refresh that revokes gives one, *)
(* unless its insert fails.                                                *)
THEOREM RotationIsSound == Spec => []RotationOutcome
<1>1. TokenInv => RotationOutcome
  BY DEF TokenInv, RotationOutcome, Succeeds, Rotated
<1> QED BY <1>1, AlwaysTokenInv, PTL

-----------------------------------------------------------------------------
(* The refinement of TokenRegistry. *)

Live == {t \in TokenId : Works(t)}
Over == {t \in TokenId : Stored(t) /\ ~Works(t)}
AskedBy(w) == IF req[w].pc = "touch" \/ (req[w].pc = "expiry" /\ ~(req[w].exp < now))
              THEN req[w].tok ELSE NoTok
Asked == [w \in Worker |-> AskedBy(w)]
Seen == {t \in TokenId : \E u \in User : \E x \in ListTokens(u) : x[1] = t /\ x[4]}
Used == {t \in TokenId : Stored(t) /\ toks[t].used}

LEMMA ListShowsUse ==
  ASSUME TypeOK
  PROVE  Seen = Used
<1>1. \A t \in TokenId : Stored(t) => toks[t].user \in User
  BY DEF TypeOK, Stored, APIToken
<1>2. ASSUME NEW t \in TokenId, NEW u \in User, NEW x \in ListTokens(u), x[1] = t, x[4]
      PROVE  Stored(t) /\ toks[t].used
  BY <1>2 DEF ListTokens, GetTokenByID
<1>3. ASSUME NEW t \in TokenId, Stored(t), toks[t].used
      PROVE  \E u \in User : \E x \in ListTokens(u) : x[1] = t /\ x[4]
  <2> DEFINE x == <<t, toks[t].account, toks[t].revoked, toks[t].used>>
  <2>1. x \in ListTokens(toks[t].user) /\ x[1] = t /\ x[4]
    BY <1>3 DEF ListTokens, GetTokenByID
  <2> HIDE DEF x
  <2> QED BY <1>1, <1>3, <2>1
<1> QED BY <1>2, <1>3 DEF Seen, Used

LEMMA ListShowsUseNext ==
  ASSUME TypeOK'
  PROVE  Seen' = Used'
<1>1. \A t \in TokenId : Stored(t)' => toks'[t].user \in User
  BY DEF TypeOK, Stored, APIToken
<1>2. ASSUME NEW t \in TokenId, NEW u \in User, NEW x \in ListTokens(u)', x[1] = t, x[4]
      PROVE  Stored(t)' /\ toks'[t].used
  BY <1>2 DEF ListTokens, GetTokenByID
<1>3. ASSUME NEW t \in TokenId, Stored(t)', toks'[t].used
      PROVE  \E u \in User : \E x \in ListTokens(u)' : x[1] = t /\ x[4]
  <2> DEFINE x == <<t, toks'[t].account, toks'[t].revoked, toks'[t].used>>
  <2>0. PICK u : u = toks'[t].user
    OBVIOUS
  <2>1. x \in ListTokens(u)' /\ x[1] = t /\ x[4]
    BY <1>3, <2>0 DEF ListTokens, GetTokenByID
  <2> HIDE DEF x
  <2> QED BY <1>1, <1>3, <2>0, <2>1
<1> QED BY <1>2, <1>3 DEF Seen, Used

(* The actions of the registry, in the terms above. *)
LEMMA RegistryQuiet ==
  ASSUME TypeOK, TypeOK', Live' = Live, Over' = Over, Asked' = Asked, Used' = Used
  PROVE  [Registry!Next]_(Registry!vars)
<1>1. Seen' = Seen
  BY ListShowsUse, ListShowsUseNext
<1> QED BY <1>1 DEF Registry!vars, Live, Over, Asked, AskedBy, Seen

LEMMA RegistryIssue ==
  ASSUME TypeOK, TypeOK', NEW t \in TokenId, t \notin Live \cup Over,
         \/ Live' = Live \cup {t} /\ Over' = Over
         \/ Over' = Over \cup {t} /\ Live' = Live,
         Asked' = Asked, Used' = Used
  PROVE  [Registry!Next]_(Registry!vars)
<1>1. Seen' = Seen
  BY ListShowsUse, ListShowsUseNext
<1>2. Registry!Issue(t)
  BY <1>1 DEF Registry!Issue, Live, Over, Asked, AskedBy, Seen
<1> QED BY <1>2 DEF Registry!Next

LEMMA RegistryRevoke ==
  ASSUME TypeOK, TypeOK', NEW t \in TokenId, t \in Live,
         Live' = Live \ {t}, Over' = Over \cup {t}, Asked' = Asked, Used' = Used
  PROVE  [Registry!Next]_(Registry!vars)
<1>1. Seen' = Seen
  BY ListShowsUse, ListShowsUseNext
<1>2. Registry!Revoke(t)
  BY <1>1 DEF Registry!Revoke, Live, Over, Asked, AskedBy, Seen
<1> QED BY <1>2 DEF Registry!Next

LEMMA RegistryAsk ==
  ASSUME TypeOK, TypeOK', NEW w \in Worker, NEW t \in TokenId, t \in Live,
         Live' = Live, Over' = Over, Asked' = [Asked EXCEPT ![w] = t], Used' = Used
  PROVE  [Registry!Next]_(Registry!vars)
<1>1. Seen' = Seen
  BY ListShowsUse, ListShowsUseNext
<1>2. Registry!Ask(w, t)
  BY <1>1 DEF Registry!Ask, Live, Over, Asked, AskedBy, Seen
<1> QED BY <1>2 DEF Registry!Next

LEMMA RegistryAnswer ==
  ASSUME TypeOK, TypeOK', NEW w \in Worker,
         Live' = Live, Over' = Over, Asked' = [Asked EXCEPT ![w] = NoTok],
         Used' = Used \/ Used' = Used \cup ({AskedBy(w)} \ {NoTok})
  PROVE  [Registry!Next]_(Registry!vars)
<1>1. Seen' = Seen \/ Seen' = Seen \cup ({Asked[w]} \ {NoTok})
  BY ListShowsUse, ListShowsUseNext DEF Asked
<1>2. Registry!Answer(w)
  BY <1>1 DEF Registry!Answer, Live, Over, Asked, AskedBy, Seen
<1> QED BY <1>2 DEF Registry!Next

LEMMA RegistryExpire ==
  ASSUME TypeOK, TypeOK', NEW T \in SUBSET Live, NEW A \in SUBSET Worker,
         Live' = Live \ T, Over' = Over \cup T, Used' = Used,
         Asked' = [w \in Worker |-> IF w \in A /\ Asked[w] \in T \cup Over THEN NoTok ELSE Asked[w]]
  PROVE  [Registry!Next]_(Registry!vars)
<1>1. Seen' = Seen
  BY ListShowsUse, ListShowsUseNext
<1>2. Registry!Expire(T, A)
  BY <1>1 DEF Registry!Expire, Live, Over, Asked, AskedBy, Seen
<1> QED BY <1>2 DEF Registry!Next, Live

(* What the registry sees of the table changes with the table alone, and of *)
(* the requests with the requests alone.                                    *)
LEMMA SameTable ==
  ASSUME UNCHANGED <<now, toks>>
  PROVE  Live' = Live /\ Over' = Over /\ Used' = Used
BY DEF Live, Over, Used, Works, Stored

LEMMA SameRequests ==
  ASSUME now' = now, NEW w \in Worker, \A x \in Worker : x # w => req'[x] = req[x]
  PROVE  /\ Asked' = [Asked EXCEPT ![w] = AskedBy(w)']
         /\ AskedBy(w)' = AskedBy(w) => Asked' = Asked
<1>1. \A x \in Worker : x # w => AskedBy(x)' = AskedBy(x)
  BY DEF AskedBy
<1> QED BY <1>1 DEF Asked

LEMMA RegistryStep ==
  ASSUME TokenInv, TokenInv', [Next]_vars
  PROVE  [Registry!Next]_(Registry!vars)
<1>t. TypeOK /\ HoldsInv /\ TypeOK' /\ HoldsInv'
  BY DEF TokenInv
<1>1. ASSUME UNCHANGED <<now, req>>
      PROVE  Asked' = Asked
  BY <1>1 DEF Asked, AskedBy
<1>2. ASSUME NEW t \in TokenId, toks[t] = NoToken, ~toks'[t].revoked, ~toks'[t].used, toks'[t] # NoToken,
             now' = now, \A x \in TokenId : x # t => toks'[x] = toks[x], Asked' = Asked
      PROVE  [Registry!Next]_(Registry!vars)
  <2>1. \A x \in TokenId : x # t => /\ Works(x)' = Works(x) /\ Stored(x)' = Stored(x)
    BY <1>2 DEF Works, Stored
  <2>2. t \notin Live /\ t \notin Over /\ t \notin Used /\ t \notin Used' /\ Stored(t)'
    BY <1>2 DEF Live, Over, Used, Works, Stored
  <2>3. Used' = Used
    BY <1>2, <2>1, <2>2 DEF Used
  <2>4. CASE Works(t)'
    <3>1. Live' = Live \cup {t} /\ Over' = Over
      BY <2>1, <2>2, <2>4 DEF Live, Over
    <3> QED BY <1>2, <1>t, <2>2, <2>3, <3>1, RegistryIssue
  <2>5. CASE ~Works(t)'
    <3>1. Over' = Over \cup {t} /\ Live' = Live
      BY <2>1, <2>2, <2>5 DEF Live, Over
    <3> QED BY <1>2, <1>t, <2>2, <2>3, <3>1, RegistryIssue
  <2> QED BY <2>4, <2>5
<1>3. ASSUME NEW t \in TokenId, toks[t] \in APIToken, toks'[t].revoked, toks'[t] # NoToken,
             toks'[t].used = toks[t].used, now' = now,
             \A x \in TokenId : x # t => toks'[x] = toks[x], Asked' = Asked
      PROVE  [Registry!Next]_(Registry!vars)
  <2>1. \A x \in TokenId : x # t => /\ Works(x)' = Works(x) /\ Stored(x)' = Stored(x)
    BY <1>3 DEF Works, Stored
  <2>2. Stored(t) /\ Stored(t)' /\ ~Works(t)'
    BY <1>3, ApiTokensAssumption DEF Works, Stored, NoToken, APIToken
  <2>3. Used' = Used
    BY <1>3, <2>1, <2>2 DEF Used
  <2>4. CASE Works(t)
    <3>1. t \in Live /\ Live' = Live \ {t} /\ Over' = Over \cup {t}
      BY <2>1, <2>2, <2>4 DEF Live, Over
    <3> QED BY <1>3, <1>t, <2>3, <3>1, RegistryRevoke
  <2>5. CASE ~Works(t)
    <3>1. Live' = Live /\ Over' = Over
      BY <2>1, <2>2, <2>5 DEF Live, Over
    <3> QED BY <1>3, <1>t, <2>3, <3>1, RegistryQuiet
  <2> QED BY <2>4, <2>5
<1>4. ASSUME NEW w \in Worker, UNCHANGED <<now, toks>>, \A x \in Worker : x # w => req'[x] = req[x],
             AskedBy(w)' \in {AskedBy(w), NoTok}
      PROVE  [Registry!Next]_(Registry!vars)
  <2>1. Live' = Live /\ Over' = Over /\ Used' = Used
    BY <1>4, SameTable
  <2>2. CASE AskedBy(w)' = AskedBy(w)
    <3>1. Asked' = Asked
      BY <1>4, <2>2, SameRequests
    <3> QED BY <1>t, <2>1, <3>1, RegistryQuiet
  <2>3. CASE AskedBy(w)' = NoTok
    <3>1. Asked' = [Asked EXCEPT ![w] = NoTok]
      BY <1>4, <2>3, SameRequests
    <3> QED BY <1>t, <2>1, <3>1, RegistryAnswer
  <2> QED BY <1>4, <2>2, <2>3
<1>5. ASSUME NEW w \in Worker, NEW u \in User, NEW a \in Account, NEW d \in Lifetime, Create(w, u, a, d)
      PROVE  [Registry!Next]_(Registry!vars)
  <2>1. PICK t \in TokenId : InsertToken(t, u, a, now + d, NoTok)
    BY <1>5 DEF Create
  <2>2. UNCHANGED <<now, req, lost>>
    BY <1>5 DEF Create
  <2>3. Asked' = Asked
    BY <2>2, <1>1
  <2> QED BY <2>1, <2>2, <2>3, <1>t, <1>2, ApiTokensAssumption DEF InsertToken, Stored, TypeOK, NoToken
<1>6. ASSUME NEW w \in Worker, InsertSuccessor(w)
      PROVE  [Registry!Next]_(Registry!vars)
  <2>1. PICK t \in TokenId : InsertToken(t, req[w].user, req[w].account, req[w].exp, req[w].tok)
    BY <1>6 DEF InsertSuccessor
  <2>2. req[w].pc = "insertNew" /\ Done(w) /\ now' = now
    BY <1>6 DEF InsertSuccessor
  <2>3. req[w].user \in User
    BY <2>2, <1>t DEF HoldsInv, Holds, APIToken
  <2>4. AskedBy(w)' = AskedBy(w) /\ \A x \in Worker : x # w => req'[x] = req[x]
    BY <2>2, <1>t DEF AskedBy, Done, Idle, TypeOK
  <2>5. Asked' = Asked
    BY <2>2, <2>4, SameRequests
  <2>6. /\ toks[t] = NoToken /\ ~toks'[t].revoked /\ ~toks'[t].used /\ toks'[t].user = req[w].user
        /\ \A x \in TokenId : x # t => toks'[x] = toks[x]
    BY <2>1, <1>t DEF InsertToken, Stored, TypeOK
  <2>7. toks'[t] # NoToken
    BY <2>3, <2>6, ApiTokensAssumption DEF NoToken
  <2> QED BY <2>2, <2>5, <2>6, <2>7, <1>2
<1>7. ASSUME NEW w \in Worker, NEW u \in User, NEW t \in TokenId, Revoke(w, u, t)
      PROVE  [Registry!Next]_(Registry!vars)
  <2>1. toks[t] \in APIToken /\ SetRevoked(t, FALSE) /\ UNCHANGED <<now, req>>
    BY <1>7, <1>t DEF Revoke, GetTokenByID, Stored, TypeOK
  <2>2. toks'[t].revoked /\ RowStays(t) /\ \A x \in TokenId : x # t => toks'[x] = toks[x]
    BY <2>1, <1>t, RevokedToken DEF RowsStay
  <2>3. toks'[t].used = toks[t].used
    BY <2>1, <1>t DEF SetRevoked, TypeOK, APIToken
  <2>4. toks'[t] # NoToken
    BY <2>1, <2>2, ApiTokensAssumption DEF RowStays, NoToken, APIToken
  <2> QED BY <2>1, <2>2, <2>3, <2>4, <1>1, <1>3
<1>8. ASSUME NEW w \in Worker, RevokeOld(w)
      PROVE  [Registry!Next]_(Registry!vars)
  <2>1. PICK t \in TokenId : t = req[w].tok
    BY <1>8, <1>t DEF RevokeOld, HoldsInv, Holds
  <2>2. /\ toks[t] \in APIToken /\ SetRevoked(t, TRUE) /\ now' = now
        /\ req[w].pc = "revokeOld" /\ GoOn(w, "insertNew")
    BY <1>8, <2>1, <1>t DEF RevokeOld, HoldsInv, Holds
  <2>3. toks'[t].revoked /\ RowStays(t) /\ \A x \in TokenId : x # t => toks'[x] = toks[x]
    BY <2>2, <1>t, RevokedToken DEF RowsStay
  <2>4. toks'[t].used = toks[t].used
    BY <2>2, <1>t DEF SetRevoked, TypeOK, APIToken
  <2>5. toks'[t] # NoToken
    BY <2>2, <2>3, ApiTokensAssumption DEF RowStays, NoToken, APIToken
  <2>6. req'[w].pc = "insertNew" /\ \A x \in Worker : x # w => req'[x] = req[x]
    BY <2>2, <1>t DEF GoOn, TypeOK, Request
  <2>7. AskedBy(w)' = AskedBy(w)
    BY <2>2, <2>6 DEF AskedBy
  <2>8. Asked' = Asked
    BY <2>2, <2>6, <2>7, SameRequests
  <2> QED BY <2>2, <2>3, <2>4, <2>5, <2>8, <1>3
<1>9. ASSUME NEW w \in Worker, NEW u \in User, NEW t \in TokenId, Refresh(w, u, t)
      PROVE  [Registry!Next]_(Registry!vars)
  <2>1. req[w].pc = "idle" /\ req'[w].pc = "revokeOld" /\ \A x \in Worker : x # w => req'[x] = req[x]
    BY <1>9, <1>t DEF Refresh, Start, TypeOK
  <2>2. AskedBy(w)' = AskedBy(w)
    BY <2>1 DEF AskedBy
  <2> QED BY <1>9, <2>1, <2>2, <1>4 DEF Refresh
<1>10. ASSUME NEW w \in Worker, NEW t \in TokenId, ValidateToken(w, t)
       PROVE  [Registry!Next]_(Registry!vars)
  <2>1. /\ Stored(t) /\ ~toks[t].revoked /\ UNCHANGED <<now, toks>> /\ req[w].pc = "idle"
        /\ \A x \in Worker : x # w => req'[x] = req[x]
        /\ req'[w].pc = "expiry" /\ req'[w].exp = toks[t].exp /\ req'[w].tok = t
    BY <1>10, <1>t DEF ValidateToken, Start, TypeOK
  <2>2. CASE toks[t].exp < now
    <3>1. AskedBy(w)' = NoTok
      BY <2>1, <2>2 DEF AskedBy
    <3> QED BY <2>1, <3>1, <1>4
  <2>3. CASE ~(toks[t].exp < now)
    <3>1. t \in Live
      BY <2>1, <2>3 DEF Live, Works
    <3>2. AskedBy(w)' = t
      BY <2>1, <2>3 DEF AskedBy
    <3>3. Asked' = [Asked EXCEPT ![w] = t]
      BY <2>1, <3>2, SameRequests
    <3>4. Live' = Live /\ Over' = Over /\ Used' = Used
      BY <2>1, SameTable
    <3> QED BY <1>t, <3>1, <3>3, <3>4, RegistryAsk
  <2> QED BY <2>2, <2>3
<1>11. ASSUME NEW w \in Worker, CheckExpiry(w)
       PROVE  [Registry!Next]_(Registry!vars)
  <2>1. /\ req[w].pc = "expiry" /\ UNCHANGED <<now, toks>>
        /\ IF req[w].exp < now THEN Done(w) ELSE GoOn(w, "touch")
    BY <1>11 DEF CheckExpiry
  <2>2. /\ \A x \in Worker : x # w => req'[x] = req[x]
        /\ IF req[w].exp < now THEN req'[w].pc = "idle"
           ELSE req'[w].pc = "touch" /\ req'[w].tok = req[w].tok
    BY <2>1, <1>t DEF Done, GoOn, Idle, TypeOK, Request
  <2>3. AskedBy(w)' = AskedBy(w)
    BY <2>1, <2>2 DEF AskedBy
  <2> QED BY <2>1, <2>2, <2>3, <1>4
<1>12. ASSUME NEW w \in Worker, NoteUse(w)
       PROVE  [Registry!Next]_(Registry!vars)
  <2>1. PICK t \in TokenId : t = req[w].tok
    BY <1>12, <1>t DEF NoteUse, HoldsInv, Holds
  <2>2. /\ req[w].pc = "touch" /\ toks[t] \in APIToken /\ UpdateLastUsed(t) /\ Done(w) /\ now' = now
    BY <1>12, <2>1, <1>t DEF NoteUse, HoldsInv, Holds
  <2>3. /\ \A x \in TokenId : x # t => toks'[x] = toks[x]
        /\ toks'[t].used /\ toks'[t].revoked = toks[t].revoked /\ toks'[t].exp = toks[t].exp
        /\ toks'[t].user = toks[t].user
    BY <2>2, <1>t DEF UpdateLastUsed, TypeOK, APIToken
  <2>4. toks[t] # NoToken /\ toks'[t] # NoToken
    BY <2>2, <2>3, ApiTokensAssumption DEF APIToken, NoToken
  <2>5. \A x \in TokenId : Works(x)' = Works(x) /\ Stored(x)' = Stored(x)
    BY <2>2, <2>3, <2>4 DEF Works, Stored
  <2>6. Live' = Live /\ Over' = Over
    BY <2>5 DEF Live, Over
  <2>7. AskedBy(w) = t /\ t # NoTok
    BY <2>1, <2>2, ApiTokensAssumption DEF AskedBy
  <2>8. Used' = Used \cup ({AskedBy(w)} \ {NoTok})
    BY <2>3, <2>4, <2>7 DEF Used, Stored
  <2>9. AskedBy(w)' = NoTok /\ \A x \in Worker : x # w => req'[x] = req[x]
    BY <2>2, <1>t DEF AskedBy, Done, Idle, TypeOK
  <2>10. Asked' = [Asked EXCEPT ![w] = NoTok]
    BY <2>2, <2>9, SameRequests
  <2> QED BY <1>t, <2>6, <2>8, <2>10, RegistryAnswer
<1>13. ASSUME NEW w \in Worker, Fail(w)
       PROVE  [Registry!Next]_(Registry!vars)
  <2>1. Done(w) /\ UNCHANGED <<now, toks>>
    BY <1>13 DEF Fail
  <2>2. AskedBy(w)' = NoTok /\ \A x \in Worker : x # w => req'[x] = req[x]
    BY <2>1, <1>t DEF AskedBy, Done, Idle, TypeOK
  <2> QED BY <2>1, <2>2, <1>4
<1>14. CASE Tick
  <2>1. now' = now + 1 /\ UNCHANGED <<toks, req>> /\ now \in Nat
    BY <1>14, <1>t DEF Tick, TypeOK
  <2> DEFINE T == {t \in Live : toks[t].exp < now'}
             A == {w \in Worker : AskedBy(w)' # AskedBy(w)}
  <2>2. \A t \in TokenId : Stored(t)' = Stored(t) /\ (Works(t)' <=> Works(t) /\ ~(toks[t].exp < now'))
    <3> SUFFICES ASSUME NEW t \in TokenId
                 PROVE  Stored(t)' = Stored(t) /\ (Works(t)' <=> Works(t) /\ ~(toks[t].exp < now'))
      OBVIOUS
    <3>1. CASE toks[t] \in APIToken
      <4>1. toks[t].exp \in Int
        BY <3>1 DEF APIToken
      <4> QED BY <2>1, <4>1 DEF Stored, Works
    <3>2. CASE toks[t] = NoToken
      BY <2>1, <3>2 DEF Stored, Works
    <3> QED BY <3>1, <3>2, <1>t DEF TypeOK
  <2>3. Live' = Live \ T
    BY <2>2 DEF Live
  <2>4. Over' = Over \cup T
    BY <2>2 DEF Over, Live, Works
  <2>5. Used' = Used
    BY <2>1, <2>2 DEF Used
  <2>6. ASSUME NEW w \in Worker
        PROVE  AskedBy(w)' = IF w \in A /\ AskedBy(w) \in T \cup Over THEN NoTok ELSE AskedBy(w)
    <3>1. CASE AskedBy(w)' = AskedBy(w)
      BY <3>1
    <3>2. CASE AskedBy(w)' # AskedBy(w)
      <4>0. req[w].exp \in Int /\ now \in Int /\ now' = now + 1 /\ req' = req
        BY <2>1, <1>t DEF TypeOK, Request
      <4>1. PICK t : t = req[w].tok /\ req[w].pc = "expiry" /\ ~(req[w].exp < now) /\ req[w].exp < now'
        <5>1. req[w].pc = "expiry" /\ (req[w].exp < now) # (req[w].exp < now')
          BY <3>2, <4>0 DEF AskedBy
        <5> QED BY <4>0, <5>1
      <4>2. t \in TokenId /\ toks[t] \in APIToken /\ toks[t].exp = req[w].exp
        BY <4>1, <1>t DEF HoldsInv, Holds
      <4>3. AskedBy(w) = t /\ AskedBy(w)' = NoTok
        BY <2>1, <4>1 DEF AskedBy
      <4>4. Stored(t) /\ toks[t].exp < now'
        BY <4>1, <4>2, ApiTokensAssumption DEF Stored, NoToken, APIToken
      <4>5. t \in T \cup Over
        BY <4>2, <4>4 DEF Live, Over
      <4> QED BY <3>2, <4>3, <4>5
    <3> QED BY <3>1, <3>2
  <2> HIDE DEF A
  <2>7. Asked' = [w \in Worker |-> IF w \in A /\ Asked[w] \in T \cup Over THEN NoTok ELSE Asked[w]]
    BY <2>6 DEF Asked
  <2>8. A \in SUBSET Worker /\ T \in SUBSET Live
    BY DEF A
  <2> HIDE DEF T
  <2> QED BY <1>t, <2>3, <2>4, <2>5, <2>7, <2>8, RegistryExpire
<1>15. CASE UNCHANGED vars
  <2>1. UNCHANGED <<now, toks, req>>
    BY <1>15 DEF vars
  <2>2. Live' = Live /\ Over' = Over /\ Used' = Used /\ Asked' = Asked
    BY <2>1, <1>1, SameTable
  <2> QED BY <1>t, <2>2, RegistryQuiet
<1> QED
  BY <1>5, <1>6, <1>7, <1>8, <1>9, <1>10, <1>11, <1>12, <1>13, <1>14, <1>15 DEF Next

(* The service implements TokenRegistry: what an outside observer sees of    *)
(* the tokens is a behaviour of the registry.                                *)
THEOREM RegistryIsImplemented == Spec => ImplementsRegistry
<1>1. Init => Registry!Init
  <2> SUFFICES ASSUME Init
               PROVE  Registry!Init
    OBVIOUS
  <2>1. TypeOK
    BY TokenInit DEF TokenInv
  <2>2. Live = {} /\ Over = {} /\ Used = {} /\ Asked = [w \in Worker |-> NoTok]
    BY DEF Init, Live, Over, Used, Asked, AskedBy, Works, Stored, Idle
  <2>3. Seen = {}
    BY <2>1, <2>2, ListShowsUse
  <2> QED BY <2>2, <2>3 DEF Registry!Init, Live, Over, Asked, AskedBy, Seen
<1> QED BY <1>1, AlwaysTokenInv, RegistryStep, PTL DEF Spec, ImplementsRegistry, Registry!Spec
=============================================================================
