------------------------------ MODULE WebAuthn ------------------------------
(***************************************************************************)
(* WebAuthn credentials, challenges and logins (WebAuthnService over       *)
(* PostgresWebAuthnRepository and PostgresAuthRepository).  A user         *)
(* registers a security key in two requests (a challenge, then the key's   *)
(* answer), logs in with it in two more, and may delete it.  The column    *)
(* users.webauthn_enabled is to say whether the user has a credential.     *)
(*                                                                         *)
(* No method opens a transaction: each SQL statement is a step, requests   *)
(* interleave between statements, a statement may fail, and a cancelled    *)
(* request stops between two.  What the WebAuthn library accepts is        *)
(* external: an answer made for the challenge, by any key (registration)   *)
(* or by one of the user's keys (login).                                   *)
(***************************************************************************)
EXTENDS Naturals, FiniteSets

CONSTANTS
  User,
  Key,             \* credential ids of the authenticators
  RowId,           \* ids of rows of webauthn_credentials ever created
  ChallengeId,     \* ids of rows of webauthn_challenges ever created
  Worker,          \* goroutines serving requests
  NoUser, NoKey, NoRowId, NoChallenge,
  CallsMayFail     \* may a statement fail, or a request be cancelled?

ASSUME WebAuthnAssumption ==
  /\ IsFiniteSet(Worker) /\ IsFiniteSet(RowId)
  /\ NoUser \notin User /\ NoKey \notin Key
  /\ NoRowId \notin RowId /\ NoChallenge \notin ChallengeId
  /\ CallsMayFail \in BOOLEAN

VARIABLES
  creds,      \* webauthn_credentials
  enabled,    \* the users whose webauthn_enabled is true
  challenges, \* webauthn_challenges
  req,        \* what each worker is doing
  uses,       \* history: how often a challenge's answer was accepted
  kept,       \* history: used challenges that a failure kept in the table
  crossed     \* history: users one of whose registrations crossed a deletion,
              \* or one of whose requests failed between credential and flag

vars == <<creds, enabled, challenges, req, uses, kept, crossed>>
history == <<uses, kept, crossed>>

Credential == [user : User, key : Key, used : BOOLEAN, gone : BOOLEAN]
NoCredential == [user |-> NoUser, key |-> NoKey, used |-> FALSE, gone |-> FALSE]

(* Its kind is stored and never read. *)
Challenge == [user : User, expired : BOOLEAN, gone : BOOLEAN]
NotIssued == [user |-> NoUser, expired |-> FALSE, gone |-> FALSE]

Request ==
  [pc   : {"idle", "createChallenge", "store", "enable", "verify", "spend", "countUse",
           "delete", "remaining", "disable"},
   op   : {"none", "registration", "authentication", "delete"},
   user : User \cup {NoUser}, key : Key \cup {NoKey},
   row  : RowId \cup {NoRowId}, challenge : ChallengeId \cup {NoChallenge}]

Idle == [pc |-> "idle", op |-> "none", user |-> NoUser, key |-> NoKey,
         row |-> NoRowId, challenge |-> NoChallenge]

Init ==
  /\ creds = [r \in RowId |-> NoCredential]
  /\ enabled = {}
  /\ challenges = [c \in ChallengeId |-> NotIssued]
  /\ req = [w \in Worker |-> Idle]
  /\ uses = [c \in ChallengeId |-> 0]
  /\ kept = {} /\ crossed = {}

-----------------------------------------------------------------------------
(* The repositories. *)

Stored(r) == creds[r] # NoCredential /\ ~creds[r].gone

(* ListCredentialsByUser *)
ListCredentialsByUser(u) == {r \in RowId : Stored(r) /\ creds[r].user = u}

(* GetCredentialByID, with the check of the owner. *)
OwnedCredential(r, u) == Stored(r) /\ creds[r].user = u

(* credential_id is UNIQUE *)
KeyIsFree(k) == \A r \in RowId : Stored(r) => creds[r].key # k

(* INSERT of a credential, under a fresh id. *)
InsertCredential(r, u, k) ==
  /\ creds[r] = NoCredential
  /\ KeyIsFree(k)
  /\ creds' = [creds EXCEPT ![r] = [user |-> u, key |-> k, used |-> FALSE, gone |-> FALSE]]

(* DELETE of a credential, of no effect when it is gone. *)
RemoveCredential(r) ==
  creds' = IF Stored(r) THEN [creds EXCEPT ![r].gone = TRUE] ELSE creds

(* UpdateSignCount is handed the key's own id, base64-encoded, and looks for *)
(* it among the rows' ids, which are UUIDs.                                  *)
EncodedKey(k) == <<"base64", k>>
UpdateSignCount(k) ==
  creds' = [r \in RowId |-> IF Stored(r) /\ r = EncodedKey(k)
                            THEN [creds[r] EXCEPT !.used = TRUE] ELSE creds[r]]

(* CreateChallenge *)
InsertChallenge(c, u) ==
  /\ challenges[c] = NotIssued
  /\ challenges' = [challenges EXCEPT ![c] = [user |-> u, expired |-> FALSE, gone |-> FALSE]]

(* Mutant: a row that is missing reads as an empty one. *)
MissingIsFound(c) == ~challenges[c].gone

(* GetChallenge *)
Found(c) == challenges[c] # NotIssued /\ ~challenges[c].gone

(* The first checks of FinishRegistration and of FinishLogin. *)
Answerable(c) == Found(c) /\ ~challenges[c].expired

(* DeleteChallenge *)
RemoveChallenge(c) == challenges' = [challenges EXCEPT ![c].gone = TRUE]

(* What the library may accept a login with: CredentialFromModel of each row. *)
AcceptableKeys(u) == {creds[r].key : r \in ListCredentialsByUser(u)}

-----------------------------------------------------------------------------
Start(w, pc, op, u, k, r, c) ==
  /\ req[w].pc = "idle"
  /\ req' = [req EXCEPT ![w] = [pc |-> pc, op |-> op, user |-> u, key |-> k,
                                row |-> r, challenge |-> c]]
GoOn(w, pc) == req' = [req EXCEPT ![w].pc = pc]
Done(w)     == req' = [req EXCEPT ![w] = Idle]

(* Requests of user u about to execute the statement pc. *)
At(u, pc) == {w \in Worker : req[w].user = u /\ req[w].pc = pc}

(* The answer to challenge c is accepted; of a challenge that a failure left *)
(* in the table the count no longer matters.                                *)
Accepted(c) == uses' = IF c \in kept THEN uses ELSE [uses EXCEPT ![c] = @ + 1]

(* POST register-begin, in the user's session, stores a challenge.  So does  *)
(* POST login-begin, by email, for a user with the flag and a credential.    *)
BeginRegistration(w, u) ==
  /\ Start(w, "createChallenge", "registration", u, NoKey, NoRowId, NoChallenge)
  /\ UNCHANGED <<creds, enabled, challenges, history>>

BeginLogin(w, u) ==
  /\ u \in enabled
  /\ ListCredentialsByUser(u) # {}
  /\ Start(w, "createChallenge", "authentication", u, NoKey, NoRowId, NoChallenge)
  /\ UNCHANGED <<creds, enabled, challenges, history>>

CreateChallenge(w) ==
  /\ req[w].pc = "createChallenge"
  /\ \E c \in ChallengeId : InsertChallenge(c, req[w].user)
  /\ Done(w)
  /\ UNCHANGED <<creds, enabled, history>>

(* Five minutes pass. *)
Expire(c) ==
  /\ Answerable(c)
  /\ challenges' = [challenges EXCEPT ![c].expired = TRUE]
  /\ UNCHANGED <<creds, enabled, req, history>>

(* A request with an expired challenge deletes it, in vain or not. *)
DropExpired(w, c) ==
  /\ req[w].pc = "idle"
  /\ Found(c) /\ challenges[c].expired
  /\ RemoveChallenge(c)
  /\ UNCHANGED <<creds, enabled, req, history>>

(* POST register-finish: the challenge must be the session user's. *)
FinishRegistration(w, u, c, k) ==
  /\ Answerable(c)
  /\ challenges[c].user = u
  /\ Start(w, "store", "registration", u, k, NoRowId, c)
  /\ UNCHANGED <<creds, enabled, challenges, history>>

(* The key is stored, unless some user has stored it before, ... *)
StoreCredential(w) ==
  /\ req[w].pc = "store"
  /\ IF KeyIsFree(req[w].key)
     THEN /\ \E r \in RowId : InsertCredential(r, req[w].user, req[w].key)
          /\ Accepted(req[w].challenge)
          /\ crossed' = IF At(req[w].user, "disable") = {} THEN crossed
                        ELSE crossed \cup {req[w].user}
          /\ GoOn(w, "enable")
     ELSE /\ Done(w)
          /\ UNCHANGED <<creds, uses, crossed>>
  /\ UNCHANGED <<enabled, challenges, kept>>

(* ... the flag is set, ... *)
EnableWebAuthn(w) ==
  /\ req[w].pc = "enable"
  /\ enabled' = enabled \cup {req[w].user}
  /\ GoOn(w, "spend")
  /\ UNCHANGED <<creds, challenges, history>>

(* Mutant: the challenge of a login is left in the table. *)
SpendRegistrationOnly(w) ==
  /\ req[w].pc = "spend"
  /\ IF req[w].op = "registration"
     THEN RemoveChallenge(req[w].challenge) /\ Done(w)
     ELSE UNCHANGED challenges /\ GoOn(w, "countUse")
  /\ UNCHANGED <<creds, enabled, history>>

(* ... and the challenge is deleted. *)
SpendChallenge(w) ==
  /\ req[w].pc = "spend"
  /\ RemoveChallenge(req[w].challenge)
  /\ IF req[w].op = "registration" THEN Done(w) ELSE GoOn(w, "countUse")
  /\ UNCHANGED <<creds, enabled, history>>

(* The deletion's error is dropped. *)
KeepChallenge(w) ==
  /\ CallsMayFail
  /\ req[w].pc = "spend"
  /\ kept' = kept \cup {req[w].challenge}
  /\ IF req[w].op = "registration" THEN Done(w) ELSE GoOn(w, "countUse")
  /\ UNCHANGED <<creds, enabled, challenges, uses, crossed>>

(* POST login-finish, by email: whose challenge it is is not compared. *)
FinishLogin(w, u, c) ==
  /\ Answerable(c)
  /\ Start(w, "verify", "authentication", u, NoKey, NoRowId, c)
  /\ UNCHANGED <<creds, enabled, challenges, history>>

(* The answer is checked against the user's credentials of this moment, ... *)
VerifyLogin(w) ==
  /\ req[w].pc = "verify"
  /\ \E k \in AcceptableKeys(req[w].user) :
       req' = [req EXCEPT ![w].pc = "spend", ![w].key = k]
  /\ Accepted(req[w].challenge)
  /\ UNCHANGED <<creds, enabled, challenges, kept, crossed>>

(* ... the challenge is deleted, and the use of the key is noted (an error *)
(* is dropped here too); then the handler signs a session.                 *)
CountUse(w) ==
  /\ req[w].pc = "countUse"
  /\ UpdateSignCount(req[w].key)
  /\ Done(w)
  /\ UNCHANGED <<enabled, challenges, history>>

(* DELETE credentials/{id}: the row must be the session user's, ... *)
DeleteCredential(w, u, r) ==
  /\ OwnedCredential(r, u)
  /\ Start(w, "delete", "delete", u, NoKey, r, NoChallenge)
  /\ UNCHANGED <<creds, enabled, challenges, history>>

(* ... it is deleted, ... *)
DeleteOwned(w) ==
  /\ req[w].pc = "delete"
  /\ RemoveCredential(req[w].row)
  /\ crossed' = IF At(req[w].user, "enable") = {} THEN crossed
                ELSE crossed \cup {req[w].user}
  /\ GoOn(w, "remaining")
  /\ UNCHANGED <<enabled, challenges, uses, kept>>

(* Mutant: any deletion clears the flag. *)
AlwaysDisable(w) ==
  /\ req[w].pc = "remaining"
  /\ GoOn(w, "disable")
  /\ UNCHANGED <<creds, enabled, challenges, history>>

(* ... and when the user has none left ... *)
CountRemaining(w) ==
  /\ req[w].pc = "remaining"
  /\ IF ListCredentialsByUser(req[w].user) = {} THEN GoOn(w, "disable") ELSE Done(w)
  /\ UNCHANGED <<creds, enabled, challenges, history>>

(* (a list that cannot be read counts as empty) *)
RemainingUnread(w) ==
  /\ CallsMayFail
  /\ req[w].pc = "remaining"
  /\ GoOn(w, "disable")
  /\ crossed' = crossed \cup {req[w].user}
  /\ UNCHANGED <<creds, enabled, challenges, uses, kept>>

(* ... the flag is cleared. *)
DisableWebAuthn(w) ==
  /\ req[w].pc = "disable"
  /\ enabled' = enabled \ {req[w].user}
  /\ Done(w)
  /\ UNCHANGED <<creds, challenges, history>>

(* A statement whose error is returned fails, the library refuses the      *)
(* answer, or the request is cancelled.                                    *)
Fail(w) ==
  /\ CallsMayFail
  /\ req[w].pc # "idle"
  /\ crossed' = IF req[w].pc \in {"enable", "remaining", "disable"}
                THEN crossed \cup {req[w].user} ELSE crossed
  /\ kept' = IF req[w].pc \in {"enable", "spend"} THEN kept \cup {req[w].challenge} ELSE kept
  /\ Done(w)
  /\ UNCHANGED <<creds, enabled, challenges, uses>>

-----------------------------------------------------------------------------
Progress(w) ==
  \/ CreateChallenge(w)
  \/ StoreCredential(w) \/ EnableWebAuthn(w) \/ SpendChallenge(w) \/ KeepChallenge(w)
  \/ VerifyLogin(w) \/ CountUse(w)
  \/ DeleteOwned(w) \/ CountRemaining(w) \/ RemainingUnread(w) \/ DisableWebAuthn(w)

Next ==
  \/ \E w \in Worker :
       \/ \E u \in User :
            \/ BeginRegistration(w, u) \/ BeginLogin(w, u)
            \/ \E c \in ChallengeId :
                 FinishLogin(w, u, c) \/ \E k \in Key : FinishRegistration(w, u, c, k)
            \/ \E r \in RowId : DeleteCredential(w, u, r)
       \/ \E c \in ChallengeId : DropExpired(w, c)
       \/ Progress(w) \/ Fail(w)
  \/ \E c \in ChallengeId : Expire(c)

Spec == Init /\ [][Next]_vars

-----------------------------------------------------------------------------
(* Properties *)

(* The tables and requests have the shapes above. *)
TypeOK ==
  /\ creds \in [RowId -> Credential \cup {NoCredential}]
  /\ enabled \subseteq User
  /\ challenges \in [ChallengeId -> Challenge \cup {NotIssued}]
  /\ req \in [Worker -> Request]
  /\ uses \in [ChallengeId -> Nat]
  /\ kept \subseteq ChallengeId /\ crossed \subseteq User
  /\ \A w \in Worker : req[w].pc # "idle" => req[w].user \in User

(* Between requests the flag says whether the user has a credential, so a   *)
(* user with a key is never told to log in without it, nor one without a    *)
(* key asked for it, as long as no registration ran between the statements  *)
(* of a deletion, or the other way round, and no such request failed half   *)
(* way.                                                                     *)
FlagAgrees ==
  \A u \in User \ crossed :
    (\A pc \in {"enable", "remaining", "disable"} : At(u, pc) = {})
      => (u \in enabled <=> ListCredentialsByUser(u) # {})

(* One challenge is answered at most once per request at work at the same   *)
(* time, so once when requests come one after another, unless the statement *)
(* that deletes it is never executed.                                       *)
ChallengeUsesBounded ==
  \A c \in ChallengeId \ kept : uses[c] <= Cardinality(Worker)
=============================================================================
