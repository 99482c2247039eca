--------------------------- MODULE WebAuthnProofs ---------------------------
(***************************************************************************)
(* Theorems about WebAuthn, for any users, keys, rows, challenges and      *)
(* goroutines, with statements that fail or not.                           *)
(*                                                                         *)
(* FlagAgrees speaks of the moments between requests only; what holds      *)
(* within them is FlagInv: a request about to set the flag has its key     *)
(* stored, one about to clear it has found none.                           *)
(*                                                                         *)
(* ChallengeUsesBounded is not inductive: as long as a challenge is in the *)
(* table, its accepted answers are the requests that have yet to delete    *)
(* it, and no request begins to answer one that is gone.                   *)
(***************************************************************************)
EXTENDS WebAuthn, FiniteSetTheorems, TLAPS

(* What the request r of a worker holds. *)
PlacedRequest(r) ==
  /\ r.pc # "idle" => r.user \in User
  /\ r.pc \in {"store", "enable", "verify", "spend"} =>
       r.challenge \in ChallengeId /\ challenges[r.challenge] \in Challenge
  /\ r.pc = "store" => r.key \in Key
  /\ r.pc = "delete" => r.row \in RowId
PlacedInv == \A w \in Worker : PlacedRequest(req[w])

TypeInv == TypeOK /\ PlacedInv

Has(u) == ListCredentialsByUser(u) # {}
FlagPcs == {"enable", "remaining", "disable"}

(* The flag of user u and the requests that have yet to set or clear it. *)
FlagOf(u) ==
  /\ At(u, "enable") # {} => Has(u)
  /\ At(u, "disable") # {} => ~Has(u)
  /\ u \in enabled => Has(u) \/ At(u, "remaining") # {} \/ At(u, "disable") # {}
  /\ Has(u) => u \in enabled \/ At(u, "enable") # {}
FlagInv == \A u \in User \ crossed : FlagOf(u)

(* The requests that answer challenge c, and those that have answered it and *)
(* not yet deleted it.                                                       *)
Answering(c) == {w \in Worker : req[w].challenge = c /\ req[w].pc \in {"store", "verify"}}
Spending(c)  == {w \in Worker : req[w].challenge = c /\ req[w].pc \in {"enable", "spend"}}

UsesOf(c) ==
  /\ uses[c] + Cardinality(Answering(c)) <= Cardinality(Worker)
  /\ ~challenges[c].gone => uses[c] = Cardinality(Spending(c))
UsesInv == \A c \in ChallengeId \ kept : UsesOf(c)

-----------------------------------------------------------------------------
(* Types. *)

LEMMA TypeInit == Init => TypeInv
BY WebAuthnAssumption DEF Init, TypeInv, TypeOK, PlacedInv, PlacedRequest, Idle, Request

LEMMA IdleRequest == Idle \in Request /\ Idle.pc = "idle" /\ Idle.challenge = NoChallenge
BY DEF Idle, Request

(* A step of one worker that keeps issued challenges issued. *)
LEMMA TypeStep ==
  ASSUME TypeInv, NEW w \in Worker, NEW r \in Request, req' = [req EXCEPT ![w] = r],
         PlacedRequest(req[w])',
         creds' \in [RowId -> Credential \cup {NoCredential}],
         enabled' \subseteq User,
         challenges' \in [ChallengeId -> Challenge \cup {NotIssued}],
         \A c \in ChallengeId : challenges[c] \in Challenge => challenges'[c] \in Challenge,
         uses' \in [ChallengeId -> Nat],
         kept' \subseteq ChallengeId, crossed' \subseteq User
  PROVE  TypeInv'
<1>1. \A x \in Worker : PlacedRequest(req[x])'
  <2> SUFFICES ASSUME NEW x \in Worker
               PROVE  PlacedRequest(req[x])'
    OBVIOUS
  <2>1. CASE x = w
    BY <2>1
  <2>2. CASE x # w
    <3>1. req'[x] = req[x] /\ PlacedRequest(req[x])
      BY <2>2 DEF TypeInv, TypeOK, PlacedInv
    <3> QED BY <3>1 DEF PlacedRequest
  <2> QED BY <2>1, <2>2
<1>2. TypeOK'
  <2>1. req' \in [Worker -> Request]
    BY DEF TypeInv, TypeOK
  <2>2. \A x \in Worker : req'[x].pc # "idle" => req'[x].user \in User
    BY <1>1 DEF PlacedRequest
  <2> QED BY <2>1, <2>2 DEF TypeOK
<1> QED BY <1>1, <1>2 DEF TypeInv, PlacedInv

(* A step that leaves every table alone. *)
LEMMA TypeStepReq ==
  ASSUME TypeInv, NEW w \in Worker, NEW r \in Request, req' = [req EXCEPT ![w] = r],
         PlacedRequest(req[w])',
         UNCHANGED <<creds, enabled, challenges>>,
         uses' \in [ChallengeId -> Nat],
         kept' \subseteq ChallengeId, crossed' \subseteq User
  PROVE  TypeInv'
<1>1. /\ creds' \in [RowId -> Credential \cup {NoCredential}]
      /\ enabled' \subseteq User
      /\ challenges' \in [ChallengeId -> Challenge \cup {NotIssued}]
      /\ \A c \in ChallengeId : challenges[c] \in Challenge => challenges'[c] \in Challenge
  BY DEF TypeInv, TypeOK
<1> QED BY <1>1, TypeStep

(* What a challenge that was issued becomes. *)
LEMMA ChallengeRemoved ==
  ASSUME TypeInv, NEW c \in ChallengeId, challenges[c] \in Challenge, RemoveChallenge(c)
  PROVE  /\ challenges' \in [ChallengeId -> Challenge \cup {NotIssued}]
         /\ \A d \in ChallengeId : challenges[d] \in Challenge => challenges'[d] \in Challenge
         /\ challenges'[c].gone
         /\ \A d \in ChallengeId : d # c => challenges'[d] = challenges[d]
<1>1. challenges \in [ChallengeId -> Challenge \cup {NotIssued}]
  BY DEF TypeInv, TypeOK
<1> DEFINE x == [challenges[c] EXCEPT !.gone = TRUE]
<1>2. x \in Challenge /\ x.gone
  BY DEF Challenge
<1>3. challenges' = [challenges EXCEPT ![c] = x]
  BY <1>1 DEF RemoveChallenge
<1> HIDE DEF x
<1> QED BY <1>1, <1>2, <1>3

LEMMA FoundIsIssued ==
  ASSUME TypeInv, NEW c \in ChallengeId, Found(c)
  PROVE  challenges[c] \in Challenge /\ ~challenges[c].gone
BY DEF TypeInv, TypeOK, Found

LEMMA AcceptedType ==
  ASSUME TypeInv, NEW c \in ChallengeId, Accepted(c)
  PROVE  /\ uses' \in [ChallengeId -> Nat]
         /\ \A d \in ChallengeId : d # c => uses'[d] = uses[d]
         /\ c \notin kept => uses'[c] = uses[c] + 1
BY DEF TypeInv, TypeOK, Accepted

(* What a request is after its worker goes on to the statement pc, or is done. *)
LEMMA GoneOn ==
  ASSUME TypeInv, NEW w \in Worker, NEW pc, GoOn(w, pc)
  PROVE  /\ req' = [req EXCEPT ![w] = [req[w] EXCEPT !.pc = pc]]
         /\ req'[w].pc = pc
         /\ req'[w].user = req[w].user /\ req'[w].challenge = req[w].challenge
         /\ req'[w].key = req[w].key /\ req'[w].row = req[w].row
         /\ pc \in {"createChallenge", "store", "enable", "verify", "spend", "countUse",
                    "delete", "remaining", "disable"} => [req[w] EXCEPT !.pc = pc] \in Request
<1>1. req \in [Worker -> Request] /\ req[w] \in Request
  BY DEF TypeInv, TypeOK
<1>2. req' = [req EXCEPT ![w] = [req[w] EXCEPT !.pc = pc]]
  BY <1>1 DEF GoOn
<1> QED BY <1>1, <1>2 DEF Request

LEMMA WhenDone ==
  ASSUME TypeInv, NEW w \in Worker, Done(w)
  PROVE  req' = [req EXCEPT ![w] = Idle] /\ req'[w] = Idle /\ PlacedRequest(req[w])'
<1>1. req' = [req EXCEPT ![w] = Idle] /\ req'[w] = Idle
  BY DEF TypeInv, TypeOK, Done
<1> QED BY <1>1, IdleRequest DEF PlacedRequest

(* What a worker may do to the tables in one step. *)
TypedTables ==
  /\ creds \in [RowId -> Credential \cup {NoCredential}]
  /\ enabled \subseteq User
  /\ challenges \in [ChallengeId -> Challenge \cup {NotIssued}]
  /\ uses \in [ChallengeId -> Nat]
  /\ kept \subseteq ChallengeId /\ crossed \subseteq User

StillIssued == \A c \in ChallengeId : challenges[c] \in Challenge => challenges'[c] \in Challenge

LEMMA TypeGoOn ==
  ASSUME TypeInv, NEW w \in Worker, NEW pc, GoOn(w, pc), req[w].pc # "idle",
         pc \in {"enable", "spend", "countUse", "remaining", "disable"},
         pc \in {"enable", "spend"} => req[w].pc \in {"store", "enable", "verify", "spend"},
         TypedTables', StillIssued
  PROVE  TypeInv'
<1>1. req' = [req EXCEPT ![w] = [req[w] EXCEPT !.pc = pc]] /\ [req[w] EXCEPT !.pc = pc] \in Request
  BY GoneOn
<1>2. PlacedRequest(req[w])'
  <2>1. PlacedRequest(req[w])
    BY DEF TypeInv, PlacedInv
  <2>2. req'[w].pc = pc /\ req'[w].user = req[w].user /\ req'[w].challenge = req[w].challenge
    BY GoneOn
  <2> QED BY <2>1, <2>2 DEF PlacedRequest, StillIssued
<1> DEFINE r == [req[w] EXCEPT !.pc = pc]
<1>3. req' = [req EXCEPT ![w] = r] /\ r \in Request
  BY <1>1
<1> HIDE DEF r
<1> QED BY <1>2, <1>3, TypeStep DEF TypedTables, StillIssued

LEMMA TypeDone ==
  ASSUME TypeInv, NEW w \in Worker, Done(w), TypedTables', StillIssued
  PROVE  TypeInv'
<1>1. req' = [req EXCEPT ![w] = Idle] /\ Idle \in Request /\ PlacedRequest(req[w])'
  BY WhenDone, IdleRequest
<1> QED BY <1>1, TypeStep DEF TypedTables, StillIssued

LEMMA TablesAreTyped ==
  ASSUME TypeInv
  PROVE  TypedTables
BY DEF TypeInv, TypeOK, TypedTables

LEMMA TypeStart ==
  ASSUME TypeInv, NEW w \in Worker, NEW r \in Request, req' = [req EXCEPT ![w] = r],
         PlacedRequest(req[w])', UNCHANGED <<creds, enabled, challenges, history>>
  PROVE  TypeInv'
<1>1. UNCHANGED <<creds, enabled, challenges>> /\ UNCHANGED <<uses, kept, crossed>>
  BY DEF history
<1> QED BY <1>1, TypeStepReq DEF TypeInv, TypeOK

LEMMA TypeNext == TypeInv /\ [Next]_vars => TypeInv'
<1> SUFFICES ASSUME TypeInv, [Next]_vars
             PROVE  TypeInv'
  OBVIOUS
<1>t. TypeOK /\ PlacedInv /\ TypedTables
  BY TablesAreTyped DEF TypeInv
<1>1. ASSUME NEW w \in Worker, NEW u \in User, BeginRegistration(w, u) \/ BeginLogin(w, u)
      PROVE  TypeInv'
  <2>1. PICK op \in {"registration", "authentication"} :
          Start(w, "createChallenge", op, u, NoKey, NoRowId, NoChallenge)
    BY <1>1 DEF BeginRegistration, BeginLogin
  <2> DEFINE r == [pc |-> "createChallenge", op |-> op, user |-> u, key |-> NoKey,
                   row |-> NoRowId, challenge |-> NoChallenge]
  <2>2. r \in Request /\ r.pc = "createChallenge" /\ r.user = u
    BY DEF Request
  <2>3. UNCHANGED <<creds, enabled, challenges, history>>
    BY <1>1 DEF BeginRegistration, BeginLogin
  <2>4. req' = [req EXCEPT ![w] = r]
    BY <2>1 DEF Start
  <2> HIDE DEF r
  <2>5. PlacedRequest(req[w])'
    BY <1>t, <2>2, <2>4 DEF TypeOK, PlacedRequest
  <2> QED BY <2>2, <2>3, <2>4, <2>5, TypeStart
<1>2. ASSUME NEW w \in Worker, NEW u \in User, NEW c \in ChallengeId, NEW k \in Key \cup {NoKey},
             NEW pc \in {"store", "verify"}, NEW op \in {"registration", "authentication"},
             Found(c), Start(w, pc, op, u, k, NoRowId, c), pc = "store" => k \in Key,
             UNCHANGED <<creds, enabled, challenges, history>>
      PROVE  TypeInv'
  <2> DEFINE r == [pc |-> pc, op |-> op, user |-> u, key |-> k, row |-> NoRowId, challenge |-> c]
  <2>2. r \in Request /\ r.pc = pc /\ r.user = u /\ r.key = k /\ r.challenge = c
    BY DEF Request
  <2>4. req' = [req EXCEPT ![w] = r]
    BY <1>2 DEF Start
  <2> HIDE DEF r
  <2>5. PlacedRequest(req[w])'
    BY <1>2, <1>t, <2>2, <2>4, FoundIsIssued DEF TypeOK, PlacedRequest
  <2> QED BY <1>2, <2>2, <2>4, <2>5, TypeStart
<1>3. ASSUME NEW w \in Worker, NEW u \in User, NEW c \in ChallengeId, FinishLogin(w, u, c)
      PROVE  TypeInv'
  BY <1>3, <1>2 DEF FinishLogin, Answerable
<1>4. ASSUME NEW w \in Worker, NEW u \in User, NEW c \in ChallengeId, NEW k \in Key,
             FinishRegistration(w, u, c, k)
      PROVE  TypeInv'
  BY <1>4, <1>2 DEF FinishRegistration, Answerable
<1>5. ASSUME NEW w \in Worker, NEW u \in User, NEW x \in RowId, DeleteCredential(w, u, x)
      PROVE  TypeInv'
  <2> DEFINE r == [pc |-> "delete", op |-> "delete", user |-> u, key |-> NoKey,
                   row |-> x, challenge |-> NoChallenge]
  <2>2. r \in Request /\ r.pc = "delete" /\ r.user = u /\ r.row = x
    BY DEF Request
  <2>3. UNCHANGED <<creds, enabled, challenges, history>>
    BY <1>5 DEF DeleteCredential
  <2>4. req' = [req EXCEPT ![w] = r]
    BY <1>5 DEF DeleteCredential, Start
  <2> HIDE DEF r
  <2>5. PlacedRequest(req[w])'
    BY <1>t, <2>2, <2>4 DEF TypeOK, PlacedRequest
  <2> QED BY <2>2, <2>3, <2>4, <2>5, TypeStart
<1>6. ASSUME NEW w \in Worker, NEW c \in ChallengeId, DropExpired(w, c)
      PROVE  TypeInv'
  <2>1. challenges[c] \in Challenge /\ RemoveChallenge(c)
        /\ UNCHANGED <<creds, enabled, req, uses, kept, crossed>>
    BY <1>6, FoundIsIssued DEF DropExpired, history
  <2>2. /\ challenges' \in [ChallengeId -> Challenge \cup {NotIssued}]
        /\ \A d \in ChallengeId : challenges[d] \in Challenge => challenges'[d] \in Challenge
    BY <2>1, ChallengeRemoved
  <2> QED BY <2>1, <2>2 DEF TypeInv, TypeOK, PlacedInv, PlacedRequest
<1>7. ASSUME NEW c \in ChallengeId, Expire(c)
      PROVE  TypeInv'
  <2>1. /\ challenges[c] \in Challenge /\ challenges' = [challenges EXCEPT ![c].expired = TRUE]
        /\ UNCHANGED <<creds, enabled, req, uses, kept, crossed>>
    BY <1>7, FoundIsIssued DEF Expire, Answerable, history
  <2>2. [challenges[c] EXCEPT !.expired = TRUE] \in Challenge
    BY <2>1 DEF Challenge
  <2>3. /\ challenges' \in [ChallengeId -> Challenge \cup {NotIssued}]
        /\ \A d \in ChallengeId : challenges[d] \in Challenge => challenges'[d] \in Challenge
    BY <2>1, <2>2, <1>t DEF TypedTables
  <2> QED BY <2>1, <2>3 DEF TypeInv, TypeOK, PlacedInv, PlacedRequest
<1>8. ASSUME NEW w \in Worker, CreateChallenge(w)
      PROVE  TypeInv'
  <2>1. PICK c \in ChallengeId : InsertChallenge(c, req[w].user)
    BY <1>8 DEF CreateChallenge
  <2>2. Done(w) /\ req[w].user \in User /\ UNCHANGED <<creds, enabled, uses, kept, crossed>>
    BY <1>8, <1>t DEF CreateChallenge, TypeOK, history
  <2> DEFINE x == [user |-> req[w].user, expired |-> FALSE, gone |-> FALSE]
  <2>3. x \in Challenge /\ challenges' = [challenges EXCEPT ![c] = x]
    BY <2>1, <2>2 DEF InsertChallenge, Challenge
  <2> HIDE DEF x
  <2>4. TypedTables' /\ StillIssued
    BY <2>2, <2>3, <1>t DEF TypedTables, StillIssued
  <2> QED BY <2>2, <2>4, TypeDone
<1>9. ASSUME NEW w \in Worker, StoreCredential(w)
      PROVE  TypeInv'
  <2>1. /\ req[w].pc = "store" /\ req[w].user \in User /\ req[w].key \in Key
        /\ req[w].challenge \in ChallengeId
        /\ UNCHANGED <<enabled, challenges, kept>>
    BY <1>9, <1>t DEF StoreCredential, PlacedInv, PlacedRequest
  <2>2. StillIssued
    BY <2>1 DEF StillIssued
  <2>3. CASE KeyIsFree(req[w].key)
    <3>1. PICK r \in RowId : InsertCredential(r, req[w].user, req[w].key)
      BY <1>9, <2>3 DEF StoreCredential
    <3>2. creds' \in [RowId -> Credential \cup {NoCredential}]
      <4> DEFINE x == [user |-> req[w].user, key |-> req[w].key, used |-> FALSE, gone |-> FALSE]
      <4>1. x \in Credential /\ creds' = [creds EXCEPT ![r] = x]
        BY <2>1, <3>1 DEF InsertCredential, Credential
      <4> HIDE DEF x
      <4> QED BY <4>1, <1>t DEF TypedTables
    <3>3. Accepted(req[w].challenge) /\ GoOn(w, "enable") /\ crossed' \subseteq User
      BY <1>9, <2>1, <2>3, <1>t DEF StoreCredential, TypedTables
    <3>4. uses' \in [ChallengeId -> Nat]
      BY <2>1, <3>3, AcceptedType
    <3>5. TypedTables'
      BY <2>1, <3>2, <3>3, <3>4, <1>t DEF TypedTables
    <3> QED BY <2>1, <2>2, <3>3, <3>5, TypeGoOn
  <2>4. CASE ~KeyIsFree(req[w].key)
    <3>1. Done(w) /\ UNCHANGED <<creds, uses, crossed>>
      BY <1>9, <2>4 DEF StoreCredential
    <3> QED BY <2>1, <2>2, <3>1, <1>t, TypeDone DEF TypedTables
  <2> QED BY <2>3, <2>4
<1>10. ASSUME NEW w \in Worker, EnableWebAuthn(w)
       PROVE  TypeInv'
  <2>1. /\ req[w].pc = "enable" /\ req[w].user \in User /\ GoOn(w, "spend")
        /\ enabled' = enabled \cup {req[w].user}
        /\ UNCHANGED <<creds, challenges, uses, kept, crossed>>
    BY <1>10, <1>t DEF EnableWebAuthn, PlacedInv, PlacedRequest, history
  <2> QED BY <2>1, <1>t, TypeGoOn DEF TypedTables, StillIssued
<1>11. ASSUME NEW w \in Worker, SpendChallenge(w)
       PROVE  TypeInv'
  <2>1. /\ req[w].pc = "spend" /\ req[w].challenge \in ChallengeId
        /\ challenges[req[w].challenge] \in Challenge
        /\ RemoveChallenge(req[w].challenge) /\ (Done(w) \/ GoOn(w, "countUse"))
        /\ UNCHANGED <<creds, enabled, uses, kept, crossed>>
    BY <1>11, <1>t DEF SpendChallenge, PlacedInv, PlacedRequest, history
  <2>2. TypedTables' /\ StillIssued
    BY <2>1, <1>t, ChallengeRemoved DEF TypedTables, StillIssued
  <2> QED BY <2>1, <2>2, TypeGoOn, TypeDone
<1>12. ASSUME NEW w \in Worker, KeepChallenge(w)
       PROVE  TypeInv'
  <2>1. /\ req[w].pc = "spend" /\ req[w].challenge \in ChallengeId
        /\ kept' = kept \cup {req[w].challenge} /\ (Done(w) \/ GoOn(w, "countUse"))
        /\ UNCHANGED <<creds, enabled, challenges, uses, crossed>>
    BY <1>12, <1>t DEF KeepChallenge, PlacedInv, PlacedRequest
  <2>2. TypedTables' /\ StillIssued
    BY <2>1, <1>t DEF TypedTables, StillIssued
  <2> QED BY <2>1, <2>2, TypeGoOn, TypeDone
<1>13. ASSUME NEW w \in Worker, VerifyLogin(w)
       PROVE  TypeInv'
  <2>1. /\ req[w].pc = "verify" /\ req[w].challenge \in ChallengeId /\ req[w].user \in User
        /\ challenges[req[w].challenge] \in Challenge
        /\ Accepted(req[w].challenge)
        /\ UNCHANGED <<creds, enabled, challenges, kept, crossed>>
    BY <1>13, <1>t DEF VerifyLogin, PlacedInv, PlacedRequest
  <2>2. PICK k \in AcceptableKeys(req[w].user) : req' = [req EXCEPT ![w].pc = "spend", ![w].key = k]
    BY <1>13 DEF VerifyLogin
  <2>3. k \in Key
    BY <2>2, <1>t DEF AcceptableKeys, ListCredentialsByUser, Stored, TypedTables, Credential
  <2> DEFINE r == [req[w] EXCEPT !.pc = "spend", !.key = k]
  <2>4. req' = [req EXCEPT ![w] = r]
    BY <2>2, <1>t DEF TypeOK
  <2>5. r \in Request /\ r.pc = "spend" /\ r.user = req[w].user /\ r.challenge = req[w].challenge
    BY <2>3, <1>t DEF TypeOK, Request
  <2> HIDE DEF r
  <2>6. PlacedRequest(req[w])'
    BY <2>1, <2>4, <2>5, <1>t DEF PlacedRequest, TypeOK
  <2>7. uses' \in [ChallengeId -> Nat] /\ kept' \subseteq ChallengeId /\ crossed' \subseteq User
    BY <2>1, <1>t, AcceptedType DEF TypedTables
  <2> QED BY <2>1, <2>4, <2>5, <2>6, <2>7, TypeStepReq
<1>14. ASSUME NEW w \in Worker, CountUse(w)
       PROVE  TypeInv'
  <2>1. /\ UpdateSignCount(req[w].key) /\ Done(w)
        /\ UNCHANGED <<enabled, challenges, uses, kept, crossed>>
    BY <1>14 DEF CountUse, history
  <2>2. \A r \in RowId : Stored(r) => creds[r] \in Credential
    BY <1>t DEF Stored, TypedTables
  <2>3. \A r \in RowId : Stored(r) => [creds[r] EXCEPT !.used = TRUE] \in Credential
    BY <2>2 DEF Credential
  <2>4. creds' \in [RowId -> Credential \cup {NoCredential}]
    BY <2>1, <2>3, <1>t DEF UpdateSignCount, TypedTables
  <2> QED BY <2>1, <2>4, <1>t, TypeDone DEF TypedTables, StillIssued
<1>15. ASSUME NEW w \in Worker, DeleteOwned(w)
       PROVE  TypeInv'
  <2>1. /\ req[w].pc = "delete" /\ req[w].row \in RowId /\ req[w].user \in User
        /\ RemoveCredential(req[w].row) /\ GoOn(w, "remaining")
        /\ crossed' \subseteq crossed \cup {req[w].user}
        /\ UNCHANGED <<enabled, challenges, uses, kept>>
    BY <1>15, <1>t DEF DeleteOwned, PlacedInv, PlacedRequest
  <2>2. creds' \in [RowId -> Credential \cup {NoCredential}]
    <3>1. CASE Stored(req[w].row)
      <4> DEFINE x == [creds[req[w].row] EXCEPT !.gone = TRUE]
      <4>1. x \in Credential
        BY <2>1, <3>1, <1>t DEF Stored, TypedTables, Credential
      <4>2. creds' = [creds EXCEPT ![req[w].row] = x]
        BY <2>1, <3>1, <1>t DEF RemoveCredential, TypedTables
      <4> HIDE DEF x
      <4> QED BY <2>1, <4>1, <4>2, <1>t DEF TypedTables
    <3>2. CASE ~Stored(req[w].row)
      BY <2>1, <3>2, <1>t DEF RemoveCredential, TypedTables
    <3> QED BY <3>1, <3>2
  <2> QED BY <2>1, <2>2, <1>t, TypeGoOn DEF TypedTables, StillIssued
<1>16. ASSUME NEW w \in Worker, CountRemaining(w) \/ RemainingUnread(w)
       PROVE  TypeInv'
  <2>1. /\ req[w].pc = "remaining" /\ req[w].user \in User
        /\ crossed' \subseteq crossed \cup {req[w].user} /\ (Done(w) \/ GoOn(w, "disable"))
        /\ UNCHANGED <<creds, enabled, challenges, uses, kept>>
    BY <1>16, <1>t DEF CountRemaining, RemainingUnread, PlacedInv, PlacedRequest, history
  <2>2. TypedTables' /\ StillIssued
    BY <2>1, <1>t DEF TypedTables, StillIssued
  <2> QED BY <2>1, <2>2, TypeGoOn, TypeDone
<1>17. ASSUME NEW w \in Worker, DisableWebAuthn(w)
       PROVE  TypeInv'
  <2>1. /\ Done(w) /\ enabled' \subseteq enabled
        /\ UNCHANGED <<creds, challenges, uses, kept, crossed>>
    BY <1>17 DEF DisableWebAuthn, history
  <2> QED BY <2>1, <1>t, TypeDone DEF TypedTables, StillIssued
<1>18. ASSUME NEW w \in Worker, Fail(w)
       PROVE  TypeInv'
  <2>1. /\ req[w].user \in User
        /\ req[w].pc \in {"enable", "spend"} => req[w].challenge \in ChallengeId
    BY <1>18, <1>t DEF Fail, PlacedInv, PlacedRequest
  <2>2. /\ Done(w) /\ UNCHANGED <<creds, enabled, challenges, uses>>
        /\ crossed' \subseteq crossed \cup {req[w].user}
        /\ kept' \subseteq ChallengeId
    BY <1>18, <2>1, <1>t DEF Fail, TypedTables
  <2> QED BY <2>1, <2>2, <1>t, TypeDone DEF TypedTables, StillIssued
<1>19. CASE UNCHANGED vars
  BY <1>19 DEF vars, TypeInv, TypeOK, PlacedInv, PlacedRequest
<1> QED
  BY <1>1, <1>3, <1>4, <1>5, <1>6, <1>7, <1>8, <1>9, <1>10, <1>11, <1>12, <1>13, <1>14, <1>15,
     <1>16, <1>17, <1>18, <1>19 DEF Next, Progress

(* The tables and requests keep their shapes, whatever interleaves or fails. *)
THEOREM TypeCorrect == Spec => []TypeOK
<1>1. Spec => []TypeInv
  BY TypeInit, TypeNext, PTL DEF Spec
<1>2. TypeInv => TypeOK
  BY DEF TypeInv
<1> QED BY <1>1, <1>2, PTL

-----------------------------------------------------------------------------
(* Rows. *)

(* No step gives a row to another user. *)
LEMMA RowsKeepUser ==
  ASSUME TypeInv, [Next]_vars, NEW x \in RowId, creds[x].user \in User
  PROVE  creds'[x].user = creds[x].user
<1>t. TypeOK /\ PlacedInv
  BY DEF TypeInv
<1>c. creds \in [RowId -> Credential \cup {NoCredential}] /\ creds[x] \in Credential
  BY WebAuthnAssumption, <1>t DEF TypeOK, NoCredential
<1>1. ASSUME NEW w \in Worker, StoreCredential(w)
      PROVE  creds'[x].user = creds[x].user
  <2>1. CASE UNCHANGED creds
    BY <2>1
  <2>2. CASE ~UNCHANGED creds
    <3>1. PICK y \in RowId : InsertCredential(y, req[w].user, req[w].key)
      BY <1>1, <2>2 DEF StoreCredential
    <3>2. x # y
      BY <3>1, WebAuthnAssumption DEF InsertCredential, NoCredential
    <3> QED BY <3>1, <3>2, <1>c DEF InsertCredential
  <2> QED BY <2>1, <2>2
<1>2. ASSUME NEW w \in Worker, CountUse(w)
      PROVE  creds'[x].user = creds[x].user
  BY <1>2, <1>c DEF CountUse, UpdateSignCount, Credential
<1>3. ASSUME NEW w \in Worker, DeleteOwned(w)
      PROVE  creds'[x].user = creds[x].user
  <2>1. creds' = creds \/ creds' = [creds EXCEPT ![req[w].row].gone = TRUE]
    BY <1>3 DEF DeleteOwned, RemoveCredential
  <2>2. CASE creds' = creds
    BY <2>2
  <2>3. CASE creds' = [creds EXCEPT ![req[w].row].gone = TRUE]
    <3>1. CASE x = req[w].row
      BY <2>3, <3>1, <1>c DEF Credential
    <3>2. CASE x # req[w].row
      BY <2>3, <3>2, <1>c
    <3> QED BY <3>1, <3>2
  <2> QED BY <2>1, <2>2, <2>3
<1>4. CASE UNCHANGED creds
  BY <1>4
<1> QED
  BY <1>1, <1>2, <1>3, <1>4
     DEF Next, Progress, vars, BeginRegistration, BeginLogin, FinishLogin, FinishRegistration,
         DeleteCredential, DropExpired, Expire, CreateChallenge, EnableWebAuthn, SpendChallenge,
         KeepChallenge, VerifyLogin, CountRemaining, RemainingUnread, DisableWebAuthn, Fail

(* A request about to delete a row is one of the row's user. *)
OwnInv == \A w \in Worker : req[w].pc = "delete" => creds[req[w].row].user = req[w].user

LEMMA OwnInit == Init => OwnInv
BY DEF Init, OwnInv, Idle

LEMMA OwnNext == TypeInv /\ OwnInv /\ [Next]_vars => OwnInv'
<1> SUFFICES ASSUME TypeInv, OwnInv, [Next]_vars,
                    NEW x \in Worker, req'[x].pc = "delete"
             PROVE  creds'[req'[x].row].user = req'[x].user
  BY DEF OwnInv
<1>t. req \in [Worker -> Request] /\ PlacedInv
  BY DEF TypeInv, TypeOK
<1>1. CASE req'[x] = req[x]
  <2>1. req[x].row \in RowId /\ req[x].user \in User /\ creds[req[x].row].user = req[x].user
    BY <1>1, <1>t DEF PlacedInv, PlacedRequest, OwnInv
  <2> QED BY <1>1, <2>1, RowsKeepUser
<1>2. ASSUME NEW w \in Worker, NEW u \in User, NEW r \in RowId, DeleteCredential(w, u, r)
      PROVE  creds'[req'[x].row].user = req'[x].user
  BY <1>1, <1>2, <1>t DEF DeleteCredential, Start, OwnedCredential
<1>3. ASSUME NEW w \in Worker, NEW pc, NEW op, NEW u, NEW k, NEW r, NEW c,
             Start(w, pc, op, u, k, r, c), pc # "delete"
      PROVE  req'[x] = req[x]
  BY <1>3, <1>t DEF Start
<1>4. ASSUME NEW w \in Worker, NEW pc, GoOn(w, pc), pc # "delete"
      PROVE  req'[x] = req[x]
  <2>1. req' = [req EXCEPT ![w] = [req[w] EXCEPT !.pc = pc]] /\ req'[w].pc = pc
    BY <1>4, GoneOn
  <2> QED BY <1>4, <2>1, <1>t
<1>5. ASSUME NEW w \in Worker, Done(w)
      PROVE  req'[x] = req[x]
  <2>1. req' = [req EXCEPT ![w] = Idle] /\ req'[w].pc = "idle"
    BY <1>5, WhenDone, IdleRequest
  <2> QED BY <2>1, <1>t
<1>6. ASSUME NEW w \in Worker, VerifyLogin(w)
      PROVE  req'[x] = req[x]
  <2>1. PICK k \in AcceptableKeys(req[w].user) : req' = [req EXCEPT ![w].pc = "spend", ![w].key = k]
    BY <1>6 DEF VerifyLogin
  <2>2. CASE x = w
    <3>1. req[w] \in Request /\ req'[w] = [req[w] EXCEPT !.pc = "spend", !.key = k]
      BY <2>1, <1>t
    <3>2. req'[w].pc = "spend"
      BY <3>1 DEF Request
    <3> QED BY <2>2, <3>2
  <2>3. CASE x # w
    BY <2>1, <2>3, <1>t
  <2> QED BY <2>2, <2>3
<1>7. \/ req'[x] = req[x]
      \/ \E w \in Worker, u \in User, r \in RowId : DeleteCredential(w, u, r)
  BY <1>3, <1>4, <1>5, <1>6
     DEF Next, Progress, vars, BeginRegistration, BeginLogin, FinishLogin, FinishRegistration,
         DropExpired, Expire, CreateChallenge, StoreCredential, EnableWebAuthn, SpendChallenge,
         KeepChallenge, CountUse, DeleteOwned, CountRemaining, RemainingUnread, DisableWebAuthn, Fail
<1> QED BY <1>1, <1>2, <1>7

-----------------------------------------------------------------------------
(* The flag. *)

(* What every worker does after a step of one. *)
LEMMA AtAfter ==
  ASSUME TypeInv, NEW w \in Worker, NEW r \in Request, req' = [req EXCEPT ![w] = r]
  PROVE  \A x \in Worker : req'[x] = IF x = w THEN r ELSE req[x]
BY DEF TypeInv, TypeOK

(* A step of a request of another user, or of one that neither sets nor      *)
(* clears a flag.                                                            *)
LEMMA FlagKept ==
  ASSUME TypeInv, NEW w \in Worker, NEW r \in Request, req' = [req EXCEPT ![w] = r],
         NEW u \in User, FlagOf(u),
         req[w].user # u \/ req[w].pc \notin FlagPcs,
         r.user # u \/ r.pc \notin FlagPcs,
         u \in enabled' <=> u \in enabled, Has(u)' <=> Has(u)
  PROVE  FlagOf(u)'
<1>1. \A pc \in FlagPcs : At(u, pc)' = At(u, pc)
  <2> SUFFICES ASSUME NEW pc \in FlagPcs
               PROVE  At(u, pc)' = At(u, pc)
    OBVIOUS
  <2>1. w \notin At(u, pc) /\ ~(r.user = u /\ r.pc = pc)
    BY DEF At
  <2> QED BY <2>1, AtAfter DEF At
<1>2. /\ At(u, "enable")' = At(u, "enable") /\ At(u, "remaining")' = At(u, "remaining")
      /\ At(u, "disable")' = At(u, "disable")
  BY <1>1 DEF FlagPcs
<1> QED BY <1>2 DEF FlagOf

LEMMA FlagDone ==
  ASSUME TypeInv, FlagInv, NEW w \in Worker, Done(w),
         req[w].pc \notin FlagPcs \/ req[w].user \in crossed',
         crossed \subseteq crossed', enabled' = enabled,
         \A u \in User : Has(u)' <=> Has(u)
  PROVE  FlagInv'
<1> SUFFICES ASSUME NEW u \in User, u \notin crossed'
             PROVE  FlagOf(u)'
  BY DEF FlagInv
<1>1. FlagOf(u)
  BY DEF FlagInv
<1>2. req' = [req EXCEPT ![w] = Idle] /\ Idle \in Request /\ Idle.pc \notin FlagPcs
  BY WhenDone, IdleRequest DEF FlagPcs
<1> QED BY <1>1, <1>2, FlagKept

LEMMA FlagGoOn ==
  ASSUME TypeInv, FlagInv, NEW w \in Worker, NEW pc, GoOn(w, pc),
         pc \in {"enable", "spend", "countUse", "remaining", "disable"},
         crossed \subseteq crossed',
         \A u \in User : u \in enabled' <=> u \in enabled,
         \A u \in User : Has(u)' <=> Has(u),
         \/ req[w].pc \notin FlagPcs /\ pc \notin FlagPcs
         \/ req[w].user \in crossed'
  PROVE  FlagInv'
<1> SUFFICES ASSUME NEW u \in User, u \notin crossed'
             PROVE  FlagOf(u)'
  BY DEF FlagInv
<1>1. FlagOf(u)
  BY DEF FlagInv
<1> DEFINE r == [req[w] EXCEPT !.pc = pc]
<1>2. req' = [req EXCEPT ![w] = r] /\ r \in Request
  BY GoneOn
<1>3. r.pc = pc /\ r.user = req[w].user
  BY DEF TypeInv, TypeOK, Request
<1> HIDE DEF r
<1> QED BY <1>1, <1>2, <1>3, FlagKept

LEMMA FlagStart ==
  ASSUME TypeInv, FlagInv, NEW w \in Worker, NEW r \in Request, req' = [req EXCEPT ![w] = r],
         req[w].pc \notin FlagPcs, r.pc \notin FlagPcs,
         UNCHANGED <<creds, enabled, crossed>>
  PROVE  FlagInv'
<1> SUFFICES ASSUME NEW u \in User, u \notin crossed
             PROVE  FlagOf(u)'
  BY DEF FlagInv
<1>1. FlagOf(u)
  BY DEF FlagInv
<1>2. Has(u)' <=> Has(u)
  BY DEF Has, ListCredentialsByUser, Stored
<1> QED BY <1>1, <1>2, FlagKept

LEMMA HasUnchanged ==
  ASSUME creds' = creds
  PROVE  \A u \in User : Has(u)' <=> Has(u)
BY DEF Has, ListCredentialsByUser, Stored

LEMMA FlagInit == Init => FlagInv
BY DEF Init, FlagInv, FlagOf, At, Idle, Has, ListCredentialsByUser, Stored

LEMMA FlagNext == TypeInv /\ OwnInv /\ FlagInv /\ [Next]_vars => FlagInv'
<1> SUFFICES ASSUME TypeInv, OwnInv, FlagInv, [Next]_vars
             PROVE  FlagInv'
  OBVIOUS
<1>t. TypeOK /\ PlacedInv
  BY DEF TypeInv
<1>1. ASSUME NEW w \in Worker, NEW pc \in {"createChallenge", "store", "verify", "delete"},
             NEW op \in {"registration", "authentication", "delete"}, NEW u \in User,
             NEW k \in Key \cup {NoKey}, NEW x \in RowId \cup {NoRowId},
             NEW c \in ChallengeId \cup {NoChallenge},
             Start(w, pc, op, u, k, x, c), UNCHANGED <<creds, enabled, challenges, history>>
      PROVE  FlagInv'
  <2> DEFINE r == [pc |-> pc, op |-> op, user |-> u, key |-> k, row |-> x, challenge |-> c]
  <2>1. r \in Request /\ r.pc = pc
    BY DEF Request
  <2>2. req' = [req EXCEPT ![w] = r] /\ req[w].pc = "idle"
    BY <1>1 DEF Start
  <2> HIDE DEF r
  <2>3. req[w].pc \notin FlagPcs /\ r.pc \notin FlagPcs
    BY <2>1, <2>2 DEF FlagPcs
  <2> QED BY <1>1, <2>1, <2>2, <2>3, FlagStart DEF history
<1>2. ASSUME NEW w \in Worker, NEW u \in User, BeginRegistration(w, u) \/ BeginLogin(w, u)
      PROVE  FlagInv'
  BY <1>2, <1>1 DEF BeginRegistration, BeginLogin
<1>3. ASSUME NEW w \in Worker, NEW u \in User, NEW c \in ChallengeId,
             FinishLogin(w, u, c) \/ \E k \in Key : FinishRegistration(w, u, c, k)
      PROVE  FlagInv'
  BY <1>3, <1>1 DEF FinishLogin, FinishRegistration
<1>4. ASSUME NEW w \in Worker, NEW u \in User, NEW x \in RowId, DeleteCredential(w, u, x)
      PROVE  FlagInv'
  BY <1>4, <1>1 DEF DeleteCredential
<1>5. ASSUME UNCHANGED <<creds, enabled, req, crossed>>
      PROVE  FlagInv'
  BY <1>5 DEF FlagInv, FlagOf, At, Has, ListCredentialsByUser, Stored
<1>6. ASSUME NEW c \in ChallengeId, Expire(c) \/ \E w \in Worker : DropExpired(w, c)
      PROVE  FlagInv'
  BY <1>6, <1>5 DEF DropExpired, Expire, history
<1>7. ASSUME NEW w \in Worker, CreateChallenge(w)
      PROVE  FlagInv'
  <2>1. Done(w) /\ req[w].pc \notin FlagPcs /\ UNCHANGED <<creds, enabled, crossed>>
    BY <1>7 DEF CreateChallenge, FlagPcs, history
  <2> QED BY <2>1, HasUnchanged, FlagDone
<1>8. ASSUME NEW w \in Worker, StoreCredential(w)
      PROVE  FlagInv'
  <2>1. req[w].pc = "store" /\ req[w].user \in User /\ enabled' = enabled
    BY <1>8, <1>t DEF StoreCredential, PlacedInv, PlacedRequest
  <2>2. CASE ~KeyIsFree(req[w].key)
    <3>1. Done(w) /\ UNCHANGED <<creds, enabled, crossed>>
      BY <1>8, <2>2 DEF StoreCredential
    <3> QED BY <2>1, <3>1, HasUnchanged, FlagDone DEF FlagPcs
  <2>3. CASE KeyIsFree(req[w].key)
    <3>1. PICK x \in RowId : InsertCredential(x, req[w].user, req[w].key)
      BY <1>8, <2>3 DEF StoreCredential
    <3>2. /\ creds' = [creds EXCEPT ![x] = creds'[x]]
          /\ creds[x] = NoCredential
          /\ creds'[x].user = req[w].user /\ ~creds'[x].gone /\ creds'[x] # NoCredential
      BY <2>1, <3>1, WebAuthnAssumption, <1>t DEF InsertCredential, TypeOK, NoCredential
    <3>3. /\ GoOn(w, "enable")
          /\ crossed' = IF At(req[w].user, "disable") = {} THEN crossed
                        ELSE crossed \cup {req[w].user}
      BY <1>8, <2>3 DEF StoreCredential
    <3> DEFINE r == [req[w] EXCEPT !.pc = "enable"]
    <3>4. req' = [req EXCEPT ![w] = r] /\ r \in Request
      BY <3>3, GoneOn
    <3>5. r.pc = "enable" /\ r.user = req[w].user
      BY <1>t DEF TypeOK, Request
    <3> HIDE DEF r
    <3> SUFFICES ASSUME NEW u \in User, u \notin crossed'
                 PROVE  FlagOf(u)'
      BY DEF FlagInv
    <3>6. FlagOf(u)
      BY <3>3 DEF FlagInv
    <3>7. (u = req[w].user => Has(u)') /\ (u # req[w].user => (Has(u)' <=> Has(u)))
      <4>1. \A y \in RowId : y # x => creds'[y] = creds[y]
        BY <3>2, <1>t DEF TypeOK
      <4>2. u = req[w].user => x \in ListCredentialsByUser(u)'
        BY <3>2 DEF ListCredentialsByUser, Stored
      <4>3. u # req[w].user => \A y \in RowId :
              y \in ListCredentialsByUser(u)' <=> y \in ListCredentialsByUser(u)
        BY <3>2, <4>1 DEF ListCredentialsByUser, Stored
      <4> QED BY <4>2, <4>3 DEF Has, ListCredentialsByUser
    <3>8. CASE u # req[w].user
      BY <2>1, <3>7, <3>4, <3>5, <3>6, <3>8, FlagKept
    <3>9. CASE u = req[w].user
      <4>1. \A v \in Worker : req'[v] = IF v = w THEN r ELSE req[v]
        BY <3>4, AtAfter
      <4>2. At(u, "disable") = {}
        BY <3>3, <3>9
      <4>3. At(u, "disable")' = {}
        BY <3>5, <4>1, <4>2 DEF At
      <4>4. w \in At(u, "enable")'
        BY <3>5, <3>9, <4>1 DEF At
      <4> QED BY <3>7, <3>9, <4>3, <4>4 DEF FlagOf
    <3> QED BY <3>8, <3>9
  <2> QED BY <2>2, <2>3
<1>9. ASSUME NEW w \in Worker, EnableWebAuthn(w)
      PROVE  FlagInv'
  <2>1. /\ req[w].pc = "enable" /\ GoOn(w, "spend") /\ enabled' = enabled \cup {req[w].user}
        /\ UNCHANGED <<creds, crossed>>
    BY <1>9 DEF EnableWebAuthn, history
  <2> DEFINE r == [req[w] EXCEPT !.pc = "spend"]
  <2>2. req' = [req EXCEPT ![w] = r] /\ r \in Request
    BY <2>1, GoneOn
  <2>3. r.pc = "spend" /\ r.user = req[w].user
    BY <1>t DEF TypeOK, Request
  <2> HIDE DEF r
  <2> SUFFICES ASSUME NEW u \in User, u \notin crossed
               PROVE  FlagOf(u)'
    BY <2>1 DEF FlagInv
  <2>4. FlagOf(u) /\ (Has(u)' <=> Has(u))
    BY <2>1, HasUnchanged DEF FlagInv
  <2>5. CASE u # req[w].user
    BY <2>1, <2>2, <2>3, <2>4, <2>5, FlagKept
  <2>6. CASE u = req[w].user
    <3>1. w \in At(u, "enable")
      BY <2>1, <2>6 DEF At
    <3>2. Has(u)
      BY <2>4, <3>1 DEF FlagOf
    <3>3. At(u, "disable")' \subseteq At(u, "disable")
      <4>1. \A x \in Worker : req'[x] = IF x = w THEN r ELSE req[x]
        BY <2>2, AtAfter
      <4> QED BY <2>3, <4>1 DEF At
    <3> QED BY <2>1, <2>4, <2>6, <3>2, <3>3 DEF FlagOf
  <2> QED BY <2>5, <2>6
<1>10. ASSUME NEW w \in Worker, SpendChallenge(w) \/ KeepChallenge(w)
       PROVE  FlagInv'
  <2>1. /\ req[w].pc = "spend" /\ (Done(w) \/ GoOn(w, "countUse"))
        /\ UNCHANGED <<creds, enabled, crossed>>
    BY <1>10 DEF SpendChallenge, KeepChallenge, history
  <2> QED BY <2>1, HasUnchanged, FlagGoOn, FlagDone DEF FlagPcs
<1>11. ASSUME NEW w \in Worker, VerifyLogin(w)
       PROVE  FlagInv'
  <2>1. req[w].pc = "verify" /\ UNCHANGED <<creds, enabled, crossed>>
    BY <1>11 DEF VerifyLogin
  <2>2. PICK k \in AcceptableKeys(req[w].user) : req' = [req EXCEPT ![w].pc = "spend", ![w].key = k]
    BY <1>11 DEF VerifyLogin
  <2>3. k \in Key
    BY <2>2, <1>t DEF AcceptableKeys, ListCredentialsByUser, Stored, TypeOK, Credential
  <2> DEFINE r == [req[w] EXCEPT !.pc = "spend", !.key = k]
  <2>4. req' = [req EXCEPT ![w] = r]
    BY <2>2, <1>t DEF TypeOK
  <2>5. r \in Request /\ r.pc = "spend"
    BY <2>3, <1>t DEF TypeOK, Request
  <2> HIDE DEF r
  <2> QED BY <2>1, <2>4, <2>5, FlagStart DEF FlagPcs
<1>12. ASSUME NEW w \in Worker, CountUse(w)
       PROVE  FlagInv'
  <2>1. /\ req[w].pc = "countUse" /\ UpdateSignCount(req[w].key) /\ Done(w)
        /\ UNCHANGED <<enabled, crossed>>
    BY <1>12 DEF CountUse, history
  <2>2. \A x \in RowId : Stored(x) => creds[x] \in Credential
    BY <1>t DEF Stored, TypeOK
  <2>3. \A x \in RowId : Stored(x)' = Stored(x) /\ creds'[x].user = creds[x].user
    <3> SUFFICES ASSUME NEW x \in RowId
                 PROVE  Stored(x)' = Stored(x) /\ creds'[x].user = creds[x].user
      OBVIOUS
    <3>1. CASE creds'[x] = creds[x]
      BY <3>1 DEF Stored
    <3>2. CASE creds'[x] # creds[x]
      <4>1. Stored(x) /\ creds'[x] = [creds[x] EXCEPT !.used = TRUE]
        BY <2>1, <3>2 DEF UpdateSignCount
      <4>2. creds'[x].user = creds[x].user /\ creds'[x].gone = creds[x].gone /\ creds'[x].user \in User
        BY <2>2, <4>1 DEF Credential
      <4>3. creds'[x] # NoCredential
        BY <4>2, WebAuthnAssumption DEF NoCredential
      <4> QED BY <4>1, <4>2, <4>3 DEF Stored
    <3> QED BY <3>1, <3>2
  <2>4. \A u \in User : Has(u)' <=> Has(u)
    BY <2>3 DEF Has, ListCredentialsByUser
  <2> QED BY <2>1, <2>4, FlagDone DEF FlagPcs
<1>13. ASSUME NEW w \in Worker, DeleteOwned(w)
       PROVE  FlagInv'
  <2>1. /\ req[w].pc = "delete" /\ RemoveCredential(req[w].row) /\ GoOn(w, "remaining")
        /\ crossed' = IF At(req[w].user, "enable") = {} THEN crossed
                      ELSE crossed \cup {req[w].user}
        /\ enabled' = enabled
    BY <1>13 DEF DeleteOwned
  <2>2. PICK y \in RowId : y = req[w].row /\ creds[y].user = req[w].user
    BY <2>1, <1>t DEF PlacedInv, PlacedRequest, OwnInv
  <2>3. /\ \A x \in RowId : x # y => creds'[x] = creds[x]
        /\ Stored(y)' => Stored(y)
        /\ creds'[y].user = creds[y].user
    <3>1. CASE Stored(y)
      <4> DEFINE c == [creds[y] EXCEPT !.gone = TRUE]
      <4>1. c.gone /\ c.user = creds[y].user
        BY <3>1, <1>t DEF Stored, TypeOK, Credential
      <4>2. creds' = [creds EXCEPT ![y] = c]
        BY <2>1, <2>2, <3>1, <1>t DEF RemoveCredential, TypeOK
      <4> HIDE DEF c
      <4>3. creds'[y] = c /\ \A x \in RowId : x # y => creds'[x] = creds[x]
        BY <4>2, <1>t DEF TypeOK
      <4> QED BY <3>1, <4>1, <4>3
    <3>2. CASE ~Stored(y)
      BY <2>1, <2>2, <3>2 DEF RemoveCredential, Stored
    <3> QED BY <3>1, <3>2
  <2> DEFINE r == [req[w] EXCEPT !.pc = "remaining"]
  <2>4. req' = [req EXCEPT ![w] = r] /\ r \in Request
    BY <2>1, GoneOn
  <2>5. r.pc = "remaining" /\ r.user = req[w].user
    BY <1>t DEF TypeOK, Request
  <2> HIDE DEF r
  <2> SUFFICES ASSUME NEW u \in User, u \notin crossed'
               PROVE  FlagOf(u)'
    BY DEF FlagInv
  <2>6. FlagOf(u)
    BY <2>1 DEF FlagInv
  <2>7. (Has(u)' => Has(u)) /\ (u # req[w].user => (Has(u)' <=> Has(u)))
    <3>1. \A x \in RowId :
            x \in ListCredentialsByUser(u)' => x \in ListCredentialsByUser(u)
      BY <2>2, <2>3 DEF ListCredentialsByUser, Stored
    <3>2. u # req[w].user => \A x \in RowId :
            x \in ListCredentialsByUser(u) => x \in ListCredentialsByUser(u)'
      BY <2>2, <2>3 DEF ListCredentialsByUser, Stored
    <3> QED BY <3>1, <3>2 DEF Has, ListCredentialsByUser
  <2>8. CASE u # req[w].user
    BY <2>1, <2>7, <2>4, <2>5, <2>6, <2>8, FlagKept
  <2>9. CASE u = req[w].user
    <3>1. At(u, "enable") = {}
      BY <2>1, <2>9
    <3>2. \A x \in Worker : req'[x] = IF x = w THEN r ELSE req[x]
      BY <2>4, AtAfter
    <3>3. At(u, "enable")' = {}
      BY <2>5, <2>9, <3>1, <3>2 DEF At
    <3>4. At(u, "disable")' \subseteq At(u, "disable")
      BY <2>5, <2>9, <3>2 DEF At
    <3>5. w \in At(u, "remaining")'
      BY <2>5, <2>9, <3>2 DEF At
    <3> QED BY <2>1, <2>7, <2>6, <3>1, <3>3, <3>4, <3>5 DEF FlagOf
  <2> QED BY <2>8, <2>9
<1>14. ASSUME NEW w \in Worker, CountRemaining(w)
       PROVE  FlagInv'
  <2>1. /\ req[w].pc = "remaining" /\ UNCHANGED <<creds, enabled, crossed>>
        /\ IF Has(req[w].user) THEN Done(w) ELSE GoOn(w, "disable")
    BY <1>14 DEF CountRemaining, Has, history
  <2>2. PICK r \in Request : /\ req' = [req EXCEPT ![w] = r]
                            /\ IF Has(req[w].user) THEN r.pc = "idle"
                               ELSE r.pc = "disable" /\ r.user = req[w].user
    <3>1. CASE Has(req[w].user)
      BY <2>1, <3>1, WhenDone, IdleRequest
    <3>2. CASE ~Has(req[w].user)
      <4> DEFINE r == [req[w] EXCEPT !.pc = "disable"]
      <4>1. req' = [req EXCEPT ![w] = r] /\ r \in Request
        BY <2>1, <3>2, GoneOn
      <4>2. r.pc = "disable" /\ r.user = req[w].user
        BY <1>t DEF TypeOK, Request
      <4> HIDE DEF r
      <4> QED BY <3>2, <4>1, <4>2
    <3> QED BY <3>1, <3>2
  <2> SUFFICES ASSUME NEW u \in User, u \notin crossed
               PROVE  FlagOf(u)'
    BY <2>1 DEF FlagInv
  <2>3. FlagOf(u) /\ (Has(u)' <=> Has(u))
    BY <2>1, HasUnchanged DEF FlagInv
  <2>4. CASE u # req[w].user
    BY <2>1, <2>2, <2>3, <2>4, FlagKept DEF FlagPcs
  <2>5. CASE u = req[w].user
    <3>1. /\ At(u, "enable")' = At(u, "enable") /\ (~Has(u) => w \in At(u, "disable")')
          /\ Has(u) => At(u, "disable")' \subseteq At(u, "disable")
      <4>1. \A x \in Worker : req'[x] = IF x = w THEN r ELSE req[x]
        BY <2>2, AtAfter
      <4>2. CASE Has(u)
        <5>1. r.pc = "idle"
          BY <2>2, <2>5, <4>2
        <5>2. At(u, "enable")' = At(u, "enable")
          BY <2>1, <4>1, <5>1 DEF At
        <5>3. At(u, "disable")' \subseteq At(u, "disable")
          BY <4>1, <5>1 DEF At
        <5> QED BY <4>2, <5>2, <5>3
      <4>3. CASE ~Has(u)
        <5>1. r.pc = "disable" /\ r.user = u
          BY <2>2, <2>5, <4>3
        <5>2. At(u, "enable")' = At(u, "enable")
          BY <2>1, <4>1, <5>1 DEF At
        <5>3. w \in At(u, "disable")'
          BY <4>1, <5>1 DEF At
        <5> QED BY <4>3, <5>2, <5>3
      <4> QED BY <4>2, <4>3
    <3> QED BY <2>1, <2>3, <3>1 DEF FlagOf
  <2> QED BY <2>4, <2>5
<1>15. ASSUME NEW w \in Worker, RemainingUnread(w)
       PROVE  FlagInv'
  <2>1. /\ GoOn(w, "disable") /\ crossed' = crossed \cup {req[w].user}
        /\ UNCHANGED <<creds, enabled>>
    BY <1>15 DEF RemainingUnread
  <2> QED BY <2>1, HasUnchanged, FlagGoOn
<1>16. ASSUME NEW w \in Worker, DisableWebAuthn(w)
       PROVE  FlagInv'
  <2>1. /\ req[w].pc = "disable" /\ Done(w) /\ enabled' = enabled \ {req[w].user}
        /\ UNCHANGED <<creds, crossed>>
    BY <1>16 DEF DisableWebAuthn, history
  <2>2. req' = [req EXCEPT ![w] = Idle] /\ Idle \in Request /\ Idle.pc = "idle"
    BY <2>1, WhenDone, IdleRequest
  <2> SUFFICES ASSUME NEW u \in User, u \notin crossed
               PROVE  FlagOf(u)'
    BY <2>1 DEF FlagInv
  <2>3. FlagOf(u) /\ (Has(u)' <=> Has(u))
    BY <2>1, HasUnchanged DEF FlagInv
  <2>4. CASE u # req[w].user
    BY <2>1, <2>2, <2>3, <2>4, FlagKept DEF FlagPcs
  <2>5. CASE u = req[w].user
    <3>1. w \in At(u, "disable") /\ w \notin At(u, "enable")
      BY <2>1, <2>5 DEF At
    <3>2. ~Has(u)
      BY <2>3, <3>1 DEF FlagOf
    <3>3. At(u, "enable")' = At(u, "enable")
      BY <2>2, <3>1, AtAfter DEF At
    <3> QED BY <2>1, <2>3, <2>5, <3>2, <3>3 DEF FlagOf
  <2> QED BY <2>4, <2>5
<1>17. ASSUME NEW w \in Worker, Fail(w)
       PROVE  FlagInv'
  <2>1. /\ Done(w) /\ UNCHANGED <<creds, enabled>>
        /\ crossed' = IF req[w].pc \in FlagPcs THEN crossed \cup {req[w].user} ELSE crossed
    BY <1>17 DEF Fail, FlagPcs
  <2> QED BY <2>1, HasUnchanged, FlagDone
<1>18. CASE UNCHANGED vars
  BY <1>18, <1>5 DEF vars
<1> QED
  BY <1>2, <1>3, <1>4, <1>6, <1>7, <1>8, <1>9, <1>10, <1>11, <1>12, <1>13, <1>14, <1>15, <1>16,
     <1>17, <1>18 DEF Next, Progress

(* The flag and the credentials agree between requests. *)
THEOREM FlagsAgree == Spec => []FlagAgrees
<1>1. Spec => [](TypeInv /\ OwnInv /\ FlagInv)
  BY TypeInit, TypeNext, OwnInit, OwnNext, FlagInit, FlagNext, PTL DEF Spec
<1>2. FlagInv => FlagAgrees
  <2> SUFFICES ASSUME FlagInv, NEW u \in User \ crossed,
                      \A pc \in FlagPcs : At(u, pc) = {}
               PROVE  u \in enabled <=> ListCredentialsByUser(u) # {}
    BY DEF FlagAgrees, FlagPcs
  <2>1. At(u, "enable") = {} /\ At(u, "remaining") = {} /\ At(u, "disable") = {}
    BY DEF FlagPcs
  <2> QED BY <2>1 DEF FlagInv, FlagOf, Has
<1> QED BY <1>1, <1>2, PTL

-----------------------------------------------------------------------------
(* Answers of a challenge. *)

LEMMA SetsOfWorkers ==
  ASSUME NEW c
  PROVE  /\ IsFiniteSet(Answering(c)) /\ IsFiniteSet(Spending(c))
         /\ Cardinality(Answering(c)) \in Nat /\ Cardinality(Spending(c)) \in Nat
         /\ Cardinality(Worker) \in Nat
         /\ Cardinality(Answering(c)) <= Cardinality(Worker)
<1>1. Answering(c) \subseteq Worker /\ Spending(c) \subseteq Worker
  BY DEF Answering, Spending
<1> QED BY <1>1, WebAuthnAssumption, FS_Subset, FS_CardinalityType

LEMMA Joins ==
  ASSUME NEW A, NEW B, IsFiniteSet(A), NEW w, w \notin A, B = A \cup {w}
  PROVE  Cardinality(B) = Cardinality(A) + 1 /\ Cardinality(A) \in Nat
BY FS_AddElement, FS_CardinalityType

(* Disjoint sets of workers. *)
LEMMA Apart ==
  ASSUME NEW A, NEW B, A \subseteq Worker, B \subseteq Worker, A \cap B = {}
  PROVE  /\ Cardinality(A) + Cardinality(B) <= Cardinality(Worker)
         /\ Cardinality(A) \in Nat /\ Cardinality(B) \in Nat /\ Cardinality(Worker) \in Nat
<1>1. IsFiniteSet(A) /\ IsFiniteSet(B) /\ A \cup B \subseteq Worker
  BY WebAuthnAssumption, FS_Subset
<1>2. Cardinality(A \cup B) = Cardinality(A) + Cardinality(B) - Cardinality(A \cap B)
  BY <1>1, FS_Union
<1>3. Cardinality(A \cap B) = 0
  BY FS_EmptySet
<1>4. Cardinality(A \cup B) <= Cardinality(Worker)
  BY <1>1, WebAuthnAssumption, FS_Subset
<1> QED BY <1>1, <1>2, <1>3, <1>4, WebAuthnAssumption, FS_CardinalityType

(* Nobody's part in challenge c changes, and it does not come back. *)
LEMMA UsesKept ==
  ASSUME NEW c, UsesOf(c), uses'[c] = uses[c],
         challenges[c].gone => challenges'[c].gone,
         Answering(c)' = Answering(c), Spending(c)' = Spending(c)
  PROVE  UsesOf(c)'
BY DEF UsesOf

(* A step of a request that has another challenge, or none. *)
LEMMA OtherChallenge ==
  ASSUME TypeInv, NEW w \in Worker, NEW r \in Request, req' = [req EXCEPT ![w] = r],
         NEW c \in ChallengeId,
         req[w].challenge # c \/ req[w].pc \notin {"store", "enable", "verify", "spend"},
         r.challenge # c \/ r.pc \notin {"store", "enable", "verify", "spend"}
  PROVE  Answering(c)' = Answering(c) /\ Spending(c)' = Spending(c)
<1>1. \A x \in Worker : req'[x] = IF x = w THEN r ELSE req[x]
  BY AtAfter
<1> QED BY <1>1 DEF Answering, Spending

LEMMA UsesInit == Init => UsesInv
<1> SUFFICES ASSUME Init, NEW c \in ChallengeId
             PROVE  UsesOf(c)
  BY DEF UsesInv
<1>1. Answering(c) = {} /\ Spending(c) = {}
  BY DEF Init, Idle, Answering, Spending
<1> QED BY <1>1, FS_EmptySet, SetsOfWorkers DEF Init, UsesOf

(* A request begins to answer challenge c, which is there. *)
LEMMA UsesBegun ==
  ASSUME TypeInv, UsesInv, NEW w \in Worker, req[w].pc = "idle", NEW r \in Request,
         req' = [req EXCEPT ![w] = r], r.pc \in {"store", "verify"},
         NEW c \in ChallengeId, r.challenge = c, ~challenges[c].gone,
         UNCHANGED <<challenges, uses, kept>>
  PROVE  UsesInv'
<1> SUFFICES ASSUME NEW d \in ChallengeId, d \notin kept
             PROVE  UsesOf(d)'
  BY DEF UsesInv
<1>0. UsesOf(d)
  BY DEF UsesInv
<1>1. CASE d # c
  <2>1. Answering(d)' = Answering(d) /\ Spending(d)' = Spending(d)
    BY <1>1, OtherChallenge
  <2> QED BY <1>0, <2>1, UsesKept
<1>2. CASE d = c
  <2>1. \A x \in Worker : req'[x] = IF x = w THEN r ELSE req[x]
    BY AtAfter
  <2>2. Spending(d)' = Spending(d)
    BY <1>2, <2>1 DEF Spending
  <2>3. Answering(d)' \subseteq Worker /\ Spending(d) \subseteq Worker
        /\ Answering(d)' \cap Spending(d) = {}
    BY <1>2, <2>1 DEF Answering, Spending
  <2>4. Cardinality(Answering(d)') + Cardinality(Spending(d)) <= Cardinality(Worker)
    BY <2>3, Apart
  <2>5. uses'[d] = Cardinality(Spending(d)) /\ Cardinality(Spending(d)) \in Nat
    BY <1>0, <1>2, SetsOfWorkers DEF UsesOf
  <2>6. Cardinality(Answering(d)') \in Nat /\ Cardinality(Worker) \in Nat
    BY <2>3, Apart
  <2> QED BY <2>2, <2>4, <2>5, <2>6 DEF UsesOf
<1> QED BY <1>1, <1>2

(* The answer of a request is accepted. *)
LEMMA UsesAccepted ==
  ASSUME TypeInv, UsesInv, NEW w \in Worker, req[w].pc \in {"store", "verify"}, NEW r \in Request,
         req' = [req EXCEPT ![w] = r], r.pc \in {"enable", "spend"},
         NEW c \in ChallengeId, req[w].challenge = c, r.challenge = c, Accepted(c),
         UNCHANGED <<challenges, kept>>
  PROVE  UsesInv'
<1> SUFFICES ASSUME NEW d \in ChallengeId, d \notin kept
             PROVE  UsesOf(d)'
  BY DEF UsesInv
<1>0. UsesOf(d)
  BY DEF UsesInv
<1>1. CASE d # c
  <2>1. Answering(d)' = Answering(d) /\ Spending(d)' = Spending(d)
    BY <1>1, OtherChallenge
  <2>2. uses'[d] = uses[d]
    BY <1>1, AcceptedType
  <2> QED BY <1>0, <2>1, <2>2, UsesKept
<1>2. CASE d = c
  <2>1. \A x \in Worker : req'[x] = IF x = w THEN r ELSE req[x]
    BY AtAfter
  <2>2. uses'[d] = uses[d] + 1 /\ uses[d] \in Nat
    BY <1>2, AcceptedType DEF TypeInv, TypeOK
  <2>3. w \notin Spending(d) /\ Spending(d)' = Spending(d) \cup {w}
    BY <1>2, <2>1 DEF Spending
  <2>4. w \notin Answering(d)' /\ Answering(d) = Answering(d)' \cup {w}
    BY <1>2, <2>1 DEF Answering
  <2>5. IsFiniteSet(Answering(d)') /\ IsFiniteSet(Spending(d))
    <3>1. Answering(d)' \subseteq Worker
      BY DEF Answering
    <3> QED BY <3>1, SetsOfWorkers, WebAuthnAssumption, FS_Subset
  <2>6. Cardinality(Spending(d)') = Cardinality(Spending(d)) + 1
    BY <2>3, <2>5, Joins
  <2>7. Cardinality(Answering(d)) = Cardinality(Answering(d)') + 1 /\ Cardinality(Answering(d)') \in Nat
    BY <2>4, <2>5, Joins
  <2>8. challenges'[d].gone = challenges[d].gone /\ Cardinality(Worker) \in Nat
    BY SetsOfWorkers
  <2> QED BY <1>0, <2>2, <2>6, <2>7, <2>8 DEF UsesOf
<1> QED BY <1>1, <1>2

(* A request goes away: it answers no more, or the challenge is gone or kept. *)
LEMMA UsesDropped ==
  ASSUME TypeInv, UsesInv, NEW w \in Worker, NEW r \in Request, req' = [req EXCEPT ![w] = r],
         r.pc \notin {"store", "enable", "verify", "spend"},
         uses' = uses, kept \subseteq kept',
         \A d \in ChallengeId : challenges[d].gone => challenges'[d].gone,
         req[w].pc \in {"enable", "spend"} =>
           req[w].challenge \in kept' \/ challenges'[req[w].challenge].gone
  PROVE  UsesInv'
<1> SUFFICES ASSUME NEW d \in ChallengeId, d \notin kept'
             PROVE  UsesOf(d)'
  BY DEF UsesInv
<1>0. UsesOf(d)
  BY DEF UsesInv
<1>1. CASE req[w].challenge # d \/ req[w].pc \notin {"store", "enable", "verify", "spend"}
  <2>1. Answering(d)' = Answering(d) /\ Spending(d)' = Spending(d)
    BY <1>1, OtherChallenge
  <2> QED BY <1>0, <2>1, UsesKept
<1>2. CASE req[w].challenge = d /\ req[w].pc \in {"store", "enable", "verify", "spend"}
  <2>1. \A x \in Worker : req'[x] = IF x = w THEN r ELSE req[x]
    BY AtAfter
  <2>2. Answering(d)' \subseteq Answering(d)
    BY <2>1 DEF Answering
  <2>3. /\ Cardinality(Answering(d)') <= Cardinality(Answering(d))
        /\ Cardinality(Answering(d)') \in Nat /\ Cardinality(Answering(d)) \in Nat
        /\ Cardinality(Worker) \in Nat
    BY <2>2, SetsOfWorkers, FS_Subset, FS_CardinalityType
  <2>4. uses[d] \in Nat
    BY DEF TypeInv, TypeOK
  <2>5. CASE req[w].pc \in {"store", "verify"}
    <3>1. Spending(d)' = Spending(d)
      BY <2>1, <2>5 DEF Spending
    <3> QED BY <1>0, <2>3, <2>4, <3>1 DEF UsesOf
  <2>6. CASE req[w].pc \in {"enable", "spend"}
    <3>1. challenges'[d].gone
      BY <1>2, <2>6
    <3> QED BY <1>0, <2>3, <2>4, <3>1 DEF UsesOf
  <2> QED BY <1>2, <2>5, <2>6
<1> QED BY <1>1, <1>2

(* Challenges once gone stay so. *)
LEMMA RemovedStays ==
  ASSUME TypeInv, NEW c \in ChallengeId, challenges[c] \in Challenge, RemoveChallenge(c)
  PROVE  \A d \in ChallengeId : challenges[d].gone => challenges'[d].gone
<1>1. challenges'[c].gone /\ \A d \in ChallengeId : d # c => challenges'[d] = challenges[d]
  BY ChallengeRemoved
<1> QED BY <1>1

LEMMA UsesDone ==
  ASSUME TypeInv, UsesInv, NEW w \in Worker, Done(w) \/ GoOn(w, "countUse") \/
           (req[w].pc \in {"delete", "remaining"} /\
              (GoOn(w, "remaining") \/ GoOn(w, "disable"))),
         uses' = uses, kept \subseteq kept',
         \A d \in ChallengeId : challenges[d].gone => challenges'[d].gone,
         req[w].pc \in {"enable", "spend"} =>
           req[w].challenge \in kept' \/ challenges'[req[w].challenge].gone
  PROVE  UsesInv'
<1>1. PICK r \in Request : /\ req' = [req EXCEPT ![w] = r]
                          /\ r.pc \in {"idle", "countUse", "remaining", "disable"}
  <2>1. CASE Done(w)
    BY <2>1, WhenDone, IdleRequest
  <2>2. ASSUME NEW pc \in {"countUse", "remaining", "disable"}, GoOn(w, pc)
        PROVE  \E r \in Request : /\ req' = [req EXCEPT ![w] = r] /\ r.pc = pc
    <3> DEFINE r == [req[w] EXCEPT !.pc = pc]
    <3>1. req' = [req EXCEPT ![w] = r] /\ r \in Request
      BY <2>2, GoneOn
    <3>2. r.pc = pc
      BY DEF TypeInv, TypeOK, Request
    <3> HIDE DEF r
    <3> QED BY <3>1, <3>2
  <2>3. PICK pc \in {"countUse", "remaining", "disable"} : Done(w) \/ GoOn(w, pc)
    OBVIOUS
  <2> QED BY <2>1, <2>2, <2>3
<1>2. r.pc \notin {"store", "enable", "verify", "spend"}
  BY <1>1
<1> QED BY <1>1, <1>2, UsesDropped

LEMMA UsesNext == TypeInv /\ UsesInv /\ [Next]_vars => UsesInv'
<1> SUFFICES ASSUME TypeInv, UsesInv, [Next]_vars
             PROVE  UsesInv'
  OBVIOUS
<1>t. TypeOK /\ PlacedInv
  BY DEF TypeInv
<1>0. ASSUME UNCHANGED <<req, uses, kept>>,
             \A d \in ChallengeId : challenges[d].gone => challenges'[d].gone
      PROVE  UsesInv'
  <2> SUFFICES ASSUME NEW d \in ChallengeId, d \notin kept
               PROVE  UsesOf(d)'
    BY <1>0 DEF UsesInv
  <2>1. UsesOf(d) /\ Answering(d)' = Answering(d) /\ Spending(d)' = Spending(d)
    BY <1>0 DEF UsesInv, Answering, Spending
  <2> QED BY <1>0, <2>1, UsesKept
<1>1. ASSUME NEW w \in Worker, NEW u \in User, NEW op \in {"registration", "authentication", "delete"},
             NEW pc \in {"createChallenge", "delete"}, NEW x \in RowId \cup {NoRowId},
             Start(w, pc, op, u, NoKey, x, NoChallenge), UNCHANGED <<challenges, history>>
      PROVE  UsesInv'
  <2> DEFINE r == [pc |-> pc, op |-> op, user |-> u, key |-> NoKey, row |-> x,
                   challenge |-> NoChallenge]
  <2>1. r \in Request /\ r.pc = pc
    BY DEF Request
  <2>2. req' = [req EXCEPT ![w] = r] /\ req[w].pc = "idle"
    BY <1>1 DEF Start
  <2> HIDE DEF r
  <2>3. UNCHANGED <<uses, kept>>
    BY <1>1 DEF history
  <2>4. r.pc \notin {"store", "enable", "verify", "spend"}
    BY <2>1
  <2> QED BY <1>1, <2>1, <2>2, <2>3, <2>4, UsesDropped
<1>2. ASSUME NEW w \in Worker, NEW u \in User,
             BeginRegistration(w, u) \/ BeginLogin(w, u) \/ \E x \in RowId : DeleteCredential(w, u, x)
      PROVE  UsesInv'
  BY <1>1, <1>2 DEF BeginRegistration, BeginLogin, DeleteCredential
<1>3. ASSUME NEW w \in Worker, NEW u \in User, NEW c \in ChallengeId, NEW k \in Key \cup {NoKey},
             NEW pc \in {"store", "verify"}, NEW op \in {"registration", "authentication"},
             Found(c), Start(w, pc, op, u, k, NoRowId, c), UNCHANGED <<challenges, history>>
      PROVE  UsesInv'
  <2> DEFINE r == [pc |-> pc, op |-> op, user |-> u, key |-> k, row |-> NoRowId, challenge |-> c]
  <2>1. r \in Request /\ r.pc = pc /\ r.challenge = c
    BY DEF Request
  <2>2. req' = [req EXCEPT ![w] = r] /\ req[w].pc = "idle"
    BY <1>3 DEF Start
  <2> HIDE DEF r
  <2>3. ~challenges[c].gone /\ UNCHANGED <<challenges, uses, kept>>
    BY <1>3 DEF Found, history
  <2> QED BY <2>1, <2>2, <2>3, UsesBegun
<1>4. ASSUME NEW w \in Worker, NEW u \in User, NEW c \in ChallengeId,
             FinishLogin(w, u, c) \/ \E k \in Key : FinishRegistration(w, u, c, k)
      PROVE  UsesInv'
  BY <1>3, <1>4 DEF FinishLogin, FinishRegistration, Answerable
<1>5. ASSUME NEW w \in Worker, NEW c \in ChallengeId, DropExpired(w, c)
      PROVE  UsesInv'
  <2>1. challenges[c] \in Challenge /\ RemoveChallenge(c) /\ UNCHANGED <<req, uses, kept>>
    BY <1>5, FoundIsIssued DEF DropExpired, history
  <2>2. \A d \in ChallengeId : challenges[d].gone => challenges'[d].gone
    BY <2>1, RemovedStays
  <2> QED BY <1>0, <2>1, <2>2
<1>6. ASSUME NEW c \in ChallengeId, Expire(c)
      PROVE  UsesInv'
  <2>1. /\ ~challenges[c].gone /\ challenges' = [challenges EXCEPT ![c].expired = TRUE]
        /\ UNCHANGED <<req, uses, kept>>
    BY <1>6 DEF Expire, Answerable, Found, history
  <2>2. \A d \in ChallengeId : challenges[d].gone => challenges'[d].gone
    BY <2>1, <1>t DEF TypeOK
  <2> QED BY <1>0, <2>1, <2>2
<1>7. ASSUME NEW w \in Worker, CreateChallenge(w)
      PROVE  UsesInv'
  <2>1. req[w].pc = "createChallenge" /\ Done(w) /\ UNCHANGED <<uses, kept>>
    BY <1>7 DEF CreateChallenge, history
  <2>2. PICK c \in ChallengeId : InsertChallenge(c, req[w].user)
    BY <1>7 DEF CreateChallenge
  <2>3. \A d \in ChallengeId : challenges[d].gone => challenges'[d].gone
    BY <2>2, <1>t DEF InsertChallenge, NotIssued, TypeOK
  <2> QED BY <2>1, <2>3, UsesDone
<1>8. ASSUME NEW w \in Worker, StoreCredential(w)
      PROVE  UsesInv'
  <2>1. /\ req[w].pc = "store" /\ req[w].challenge \in ChallengeId
        /\ UNCHANGED <<challenges, kept>>
    BY <1>8, <1>t DEF StoreCredential, PlacedInv, PlacedRequest
  <2>2. CASE ~KeyIsFree(req[w].key)
    <3>1. Done(w) /\ UNCHANGED uses
      BY <1>8, <2>2 DEF StoreCredential
    <3> QED BY <2>1, <3>1, UsesDone
  <2>3. CASE KeyIsFree(req[w].key)
    <3>1. Accepted(req[w].challenge) /\ GoOn(w, "enable")
      BY <1>8, <2>3 DEF StoreCredential
    <3> DEFINE r == [req[w] EXCEPT !.pc = "enable"]
    <3>2. req' = [req EXCEPT ![w] = r] /\ r \in Request
      BY <3>1, GoneOn
    <3>3. r.pc = "enable" /\ r.challenge = req[w].challenge
      BY <1>t DEF TypeOK, Request
    <3> HIDE DEF r
    <3> QED BY <2>1, <3>1, <3>2, <3>3, UsesAccepted
  <2> QED BY <2>2, <2>3
<1>9. ASSUME NEW w \in Worker, EnableWebAuthn(w)
      PROVE  UsesInv'
  <2>1. req[w].pc = "enable" /\ GoOn(w, "spend") /\ UNCHANGED <<challenges, uses, kept>>
    BY <1>9 DEF EnableWebAuthn, history
  <2> DEFINE r == [req[w] EXCEPT !.pc = "spend"]
  <2>2. req' = [req EXCEPT ![w] = r] /\ r \in Request
    BY <2>1, GoneOn
  <2>3. r.pc = "spend" /\ r.challenge = req[w].challenge
    BY <1>t DEF TypeOK, Request
  <2> HIDE DEF r
  <2> SUFFICES ASSUME NEW d \in ChallengeId, d \notin kept
               PROVE  UsesOf(d)'
    BY <2>1 DEF UsesInv
  <2>4. \A x \in Worker : req'[x] = IF x = w THEN r ELSE req[x]
    BY <2>2, AtAfter
  <2>5. Answering(d)' = Answering(d) /\ Spending(d)' = Spending(d)
    BY <2>1, <2>3, <2>4 DEF Answering, Spending
  <2>6. UsesOf(d)
    BY DEF UsesInv
  <2> QED BY <2>1, <2>5, <2>6, UsesKept
<1>10. ASSUME NEW w \in Worker, SpendChallenge(w)
       PROVE  UsesInv'
  <2>1. /\ req[w].pc = "spend" /\ req[w].challenge \in ChallengeId
        /\ challenges[req[w].challenge] \in Challenge /\ RemoveChallenge(req[w].challenge)
        /\ (Done(w) \/ GoOn(w, "countUse")) /\ UNCHANGED <<uses, kept>>
    BY <1>10, <1>t DEF SpendChallenge, PlacedInv, PlacedRequest, history
  <2>2. \A d \in ChallengeId : challenges[d].gone => challenges'[d].gone
    BY <2>1, RemovedStays
  <2>3. challenges'[req[w].challenge].gone
    BY <2>1, ChallengeRemoved
  <2> QED BY <2>1, <2>2, <2>3, UsesDone
<1>11. ASSUME NEW w \in Worker, KeepChallenge(w)
       PROVE  UsesInv'
  <2>1. /\ kept' = kept \cup {req[w].challenge}
        /\ (Done(w) \/ GoOn(w, "countUse")) /\ UNCHANGED <<uses, challenges>>
    BY <1>11 DEF KeepChallenge
  <2> QED BY <2>1, UsesDone
<1>12. ASSUME NEW w \in Worker, VerifyLogin(w)
       PROVE  UsesInv'
  <2>1. /\ req[w].pc = "verify" /\ req[w].challenge \in ChallengeId
        /\ Accepted(req[w].challenge) /\ UNCHANGED <<challenges, kept>>
    BY <1>12, <1>t DEF VerifyLogin, PlacedInv, PlacedRequest
  <2>2. PICK k \in AcceptableKeys(req[w].user) : req' = [req EXCEPT ![w].pc = "spend", ![w].key = k]
    BY <1>12 DEF VerifyLogin
  <2>3. k \in Key
    BY <2>2, <1>t DEF AcceptableKeys, ListCredentialsByUser, Stored, TypeOK, Credential
  <2> DEFINE r == [req[w] EXCEPT !.pc = "spend", !.key = k]
  <2>4. req' = [req EXCEPT ![w] = r]
    BY <2>2, <1>t DEF TypeOK
  <2>5. r \in Request /\ r.pc = "spend" /\ r.challenge = req[w].challenge
    BY <2>3, <1>t DEF TypeOK, Request
  <2> HIDE DEF r
  <2> QED BY <2>1, <2>4, <2>5, UsesAccepted
<1>13. ASSUME NEW w \in Worker, CountUse(w) \/ DisableWebAuthn(w)
       PROVE  UsesInv'
  BY <1>13, UsesDone DEF CountUse, DisableWebAuthn, history
<1>14. ASSUME NEW w \in Worker, DeleteOwned(w) \/ CountRemaining(w) \/ RemainingUnread(w)
       PROVE  UsesInv'
  <2>1. /\ req[w].pc \in {"delete", "remaining"}
        /\ Done(w) \/ GoOn(w, "remaining") \/ GoOn(w, "disable")
        /\ UNCHANGED <<challenges, uses, kept>>
    BY <1>14 DEF DeleteOwned, CountRemaining, RemainingUnread, history
  <2> QED BY <2>1, UsesDone
<1>15. ASSUME NEW w \in Worker, Fail(w)
       PROVE  UsesInv'
  <2>1. /\ Done(w) /\ UNCHANGED <<challenges, uses>>
        /\ kept' = IF req[w].pc \in {"enable", "spend"} THEN kept \cup {req[w].challenge} ELSE kept
    BY <1>15 DEF Fail
  <2> QED BY <2>1, UsesDone
<1>16. CASE UNCHANGED vars
  BY <1>16, <1>0 DEF vars
<1> QED
  BY <1>2, <1>4, <1>5, <1>6, <1>7, <1>8, <1>9, <1>10, <1>11, <1>12, <1>13, <1>14, <1>15, <1>16
     DEF Next, Progress

(* No challenge is answered more often than there are goroutines, unless a *)
(* failure kept it.                                                        *)
THEOREM AnswersBounded == Spec => []ChallengeUsesBounded
<1>1. Spec => [](TypeInv /\ UsesInv)
  BY TypeInit, TypeNext, UsesInit, UsesNext, PTL DEF Spec
<1>2. TypeInv /\ UsesInv => ChallengeUsesBounded
  <2> SUFFICES ASSUME TypeInv, UsesInv, NEW c \in ChallengeId \ kept
               PROVE  uses[c] <= Cardinality(Worker)
    BY DEF ChallengeUsesBounded
  <2>1. uses[c] + Cardinality(Answering(c)) <= Cardinality(Worker)
    BY DEF UsesInv, UsesOf
  <2>2. uses[c] \in Nat /\ Cardinality(Answering(c)) \in Nat /\ Cardinality(Worker) \in Nat
    BY SetsOfWorkers DEF TypeInv, TypeOK
  <2> QED BY <2>1, <2>2
<1> QED BY <1>1, <1>2, PTL
=============================================================================
