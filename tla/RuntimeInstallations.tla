------------------------ MODULE RuntimeInstallations ------------------------
(***************************************************************************)
(* Runtime installations and their tokens (RuntimeInstallationService over *)
(* PostgresRuntimeInstallationRepository).  A customer creates an          *)
(* installation and gets a short-lived enrollment token; the relay trades  *)
(* it for an ingest token and authenticates with that; the customer may    *)
(* rotate the ingest token and revoke the installation.                    *)
(*                                                                         *)
(* No method opens a transaction: each SQL statement is a step of its own, *)
(* methods of concurrent requests interleave between statements, and a     *)
(* failed statement or a cancelled request stops a method between two.     *)
(***************************************************************************)
EXTENDS Naturals, FiniteSets

CONSTANTS
  Installation,  \* ids of installations
  TokenId,       \* rows of runtime_installation_tokens ever created
  NoInst, NoTok, \* none of them
  Worker,        \* goroutines serving requests
  EnrollTTL,     \* life of an enrollment token (15 minutes)
  CallsMayFail,  \* may a statement fail, or the request be cancelled?
  MaxTime        \* bound on the clock

ASSUME InstallationsAssumption ==
  /\ NoInst \notin Installation /\ NoTok \notin TokenId
  /\ IsFiniteSet(Worker) /\ IsFiniteSet(TokenId)
  /\ EnrollTTL \in Nat \ {0} /\ MaxTime \in Nat /\ CallsMayFail \in BOOLEAN

VARIABLES
  now,     \* the clock
  status,  \* runtime_installations.status, "absent" before the INSERT
  seen,    \* the installations whose last_seen_at is set
  toks,    \* runtime_installation_tokens
  req,     \* what each worker is doing
  settled  \* history: installations revoked by a request no minting one
           \* overlapped, and not rotated since

vars == <<now, status, seen, toks, req, settled>>

Row == [inst : Installation, kind : {"enrollment", "ingest"}, used : BOOLEAN, revoked : BOOLEAN,
        exp  : Nat,                      \* 0: expires_at IS NULL
        from : TokenId \cup {NoTok}]     \* history: the enrollment token it was traded for
NoRow == [inst |-> NoInst, kind |-> "none", used |-> FALSE, revoked |-> FALSE,
          exp |-> 0, from |-> NoTok]

Request ==
  [pc   : {"idle", "mintEnrollment", "markUsed", "consume", "mintIngest", "activate",
           "revokeIngest", "revokeEnrollment", "markRevoked", "lastSeen"},
   op   : {"none", "create", "enroll", "rotate", "revoke", "ingest"},
   inst : Installation \cup {NoInst},
   tok  : TokenId \cup {NoTok},
   start : Nat,        \* the method's now
   overlap : BOOLEAN]  \* history: a minting request ran alongside this rotation or revocation

Idle == [pc |-> "idle", op |-> "none", inst |-> NoInst, tok |-> NoTok,
         start |-> 0, overlap |-> FALSE]

Init ==
  /\ now = 0
  /\ status = [i \in Installation |-> "absent"]
  /\ seen = {}
  /\ toks = [t \in TokenId |-> NoRow]
  /\ req = [w \in Worker |-> Idle]
  /\ settled = {}

-----------------------------------------------------------------------------
(* Mutant: a revoked token is still looked up. *)
ActiveUnlessExpired(t, kind) == toks[t].kind = kind /\ (toks[t].exp = 0 \/ now < toks[t].exp)

(* GetActiveTokenByHash; the status of the installation plays no part. *)
Active(t, kind) ==
  /\ toks[t].kind = kind
  /\ ~toks[t].revoked
  /\ toks[t].exp = 0 \/ now < toks[t].exp

(* The requests that create a token, and those that revoke some. *)
MintOps  == {"create", "enroll", "rotate"}
SweepOps == {"rotate", "revoke"}

(* Requests at work on an installation that create a token for it. *)
Minting(i) == {w \in Worker : req[w].inst = i /\ req[w].op \in MintOps}

(* The bound on tokens: every minting request at work still finds a row. *)
CanMint ==
  Cardinality({w \in Worker : req[w].op \in MintOps /\ req[w].pc # "activate"})
    < Cardinality({t \in TokenId : toks[t] = NoRow})

(* Worker w starts on installation i.  The rotations and revocations of i *)
(* under way notice the minting requests they overlap with.               *)
Start(w, pc, op, i, t) ==
  /\ req[w].pc = "idle"
  /\ op \in MintOps => CanMint
  /\ req' = [x \in Worker |->
       IF x = w
       THEN [pc |-> pc, op |-> op, inst |-> i, tok |-> t, start |-> now,
             overlap |-> op \in SweepOps /\ Minting(i) # {}]
       ELSE IF op \in MintOps /\ req[x].op \in SweepOps /\ req[x].inst = i
       THEN [req[x] EXCEPT !.overlap = TRUE]
       ELSE req[x]]

GoOn(w, pc) == req' = [req EXCEPT ![w].pc = pc]
Done(w)     == req' = [req EXCEPT ![w] = Idle]

(* CreateToken: INSERT of a row with a fresh random hash. *)
CreateToken(t, i, kind, exp, from) ==
  /\ toks[t] = NoRow
  /\ toks' = [toks EXCEPT ![t] = [inst |-> i, kind |-> kind, used |-> FALSE,
                                  revoked |-> FALSE, exp |-> exp, from |-> from]]

(* RevokeActiveTokensByKind *)
RevokeActiveTokensByKind(i, kind) ==
  toks' = [t \in TokenId |-> IF toks[t].inst = i /\ toks[t].kind = kind
                             THEN [toks[t] EXCEPT !.revoked = TRUE] ELSE toks[t]]

-----------------------------------------------------------------------------
(* Mutant: the installation's row is not there yet when its token is made. *)
CreateWithoutRow(w, i) ==
  /\ status[i] = "absent"
  /\ Start(w, "mintEnrollment", "create", i, NoTok)
  /\ UNCHANGED <<now, status, seen, toks, settled>>

(* CreateInstallation: the row first, then its enrollment token. *)
CreateInstallation(w, i) ==
  /\ status[i] = "absent"
  /\ Start(w, "mintEnrollment", "create", i, NoTok)
  /\ status' = [status EXCEPT ![i] = "pending"]
  /\ UNCHANGED <<now, seen, toks, settled>>

MintEnrollment(w) ==
  /\ req[w].pc = "mintEnrollment"
  /\ \E t \in TokenId :
       CreateToken(t, req[w].inst, "enrollment", req[w].start + EnrollTTL, NoTok)
  /\ Done(w)
  /\ UNCHANGED <<now, status, seen, settled>>

(* Enroll: look the enrollment token up, ... *)
Enroll(w, t) ==
  /\ Active(t, "enrollment")
  /\ Start(w, "markUsed", "enroll", toks[t].inst, t)
  /\ UNCHANGED <<now, status, seen, toks, settled>>

(* Mutant: an enrollment token is noted as used and nothing more. *)
MarkOnly(w) ==
  /\ req[w].pc = "markUsed"
  /\ toks' = [toks EXCEPT ![req[w].tok].used = TRUE]
  /\ GoOn(w, IF req[w].op = "enroll" THEN "mintIngest" ELSE "lastSeen")
  /\ UNCHANGED <<now, status, seen, settled>>

(* ... (MarkTokenUsed, which ResolveIngestToken calls too) note its use, ... *)
MarkTokenUsed(w) ==
  /\ req[w].pc = "markUsed"
  /\ toks' = [toks EXCEPT ![req[w].tok].used = TRUE]
  /\ GoOn(w, IF req[w].op = "enroll" THEN "consume" ELSE "lastSeen")
  /\ UNCHANGED <<now, status, seen, settled>>

(* Mutant: the installation is made active before its ingest token is created. *)
ConsumeThenActivate(w) ==
  /\ req[w].pc = "consume"
  /\ toks' = [toks EXCEPT ![req[w].tok].revoked = TRUE]
  /\ GoOn(w, "activate")
  /\ UNCHANGED <<now, status, seen, settled>>

(* ... revoke it (whether or not somebody else has by now), ... *)
ConsumeEnrollment(w) ==
  /\ req[w].pc = "consume"
  /\ toks' = [toks EXCEPT ![req[w].tok].revoked = TRUE]
  /\ GoOn(w, "mintIngest")
  /\ UNCHANGED <<now, status, seen, settled>>

(* ... create the ingest token (the last step of a rotation too) ... *)
MintIngest(w) ==
  /\ req[w].pc = "mintIngest"
  /\ \E t \in TokenId : CreateToken(t, req[w].inst, "ingest", 0, req[w].tok)
  /\ IF req[w].op = "enroll" THEN GoOn(w, "activate") ELSE Done(w)
  /\ UNCHANGED <<now, status, seen, settled>>

(* ... and make the installation active. *)
Activate(w) ==
  /\ req[w].pc = "activate"
  /\ status' = [status EXCEPT ![req[w].inst] = "active"]
  /\ Done(w)
  /\ UNCHANGED <<now, seen, toks, settled>>

(* RotateIngestToken, whatever the installation's status is.  The account *)
(* of the session owns it; to another account it is absent.               *)
RotateIngestToken(w, i) ==
  /\ status[i] # "absent"
  /\ Start(w, "revokeIngest", "rotate", i, NoTok)
  /\ settled' = settled \ {i}
  /\ UNCHANGED <<now, status, seen, toks>>

RevokeInstallation(w, i) ==
  /\ status[i] # "absent"
  /\ Start(w, "revokeIngest", "revoke", i, NoTok)
  /\ UNCHANGED <<now, status, seen, toks, settled>>

(* Mutant: the sweep names the wrong kind of token. *)
SweepWrongKind(w) ==
  /\ req[w].pc = "revokeIngest"
  /\ RevokeActiveTokensByKind(req[w].inst, "enrollment")
  /\ GoOn(w, IF req[w].op = "rotate" THEN "mintIngest" ELSE "revokeEnrollment")
  /\ UNCHANGED <<now, status, seen, settled>>

RevokeIngestTokens(w) ==
  /\ req[w].pc = "revokeIngest"
  /\ RevokeActiveTokensByKind(req[w].inst, "ingest")
  /\ GoOn(w, IF req[w].op = "rotate" THEN "mintIngest" ELSE "revokeEnrollment")
  /\ UNCHANGED <<now, status, seen, settled>>

(* Mutant: a revocation leaves the enrollment token alone. *)
SkipEnrollmentTokens(w) ==
  /\ req[w].pc = "revokeEnrollment"
  /\ GoOn(w, "markRevoked")
  /\ UNCHANGED <<now, status, seen, toks, settled>>

RevokeEnrollmentTokens(w) ==
  /\ req[w].pc = "revokeEnrollment"
  /\ RevokeActiveTokensByKind(req[w].inst, "enrollment")
  /\ GoOn(w, "markRevoked")
  /\ UNCHANGED <<now, status, seen, settled>>

MarkRevoked(w) ==
  /\ req[w].pc = "markRevoked"
  /\ status' = [status EXCEPT ![req[w].inst] = "revoked"]
  /\ settled' = IF req[w].overlap THEN settled ELSE settled \cup {req[w].inst}
  /\ Done(w)
  /\ UNCHANGED <<now, seen, toks>>

(* ResolveIngestToken: look the ingest token up, note its use and make the *)
(* caller the installation's principal for the rest of the request.        *)
ResolveIngestToken(w, t) ==
  /\ Active(t, "ingest")
  /\ Start(w, "markUsed", "ingest", toks[t].inst, t)
  /\ UNCHANGED <<now, status, seen, toks, settled>>

UpdateInstallationLastSeen(w) ==
  /\ req[w].pc = "lastSeen"
  /\ seen' = seen \cup {req[w].inst}
  /\ Done(w)
  /\ UNCHANGED <<now, status, toks, settled>>

(* A statement fails, or its context is cancelled: the method returns. *)
Fail(w) ==
  /\ CallsMayFail
  /\ req[w].pc # "idle"
  /\ Done(w)
  /\ UNCHANGED <<now, status, seen, toks, settled>>

Tick ==
  /\ now < MaxTime
  /\ now' = now + 1
  /\ UNCHANGED <<status, seen, toks, req, settled>>

-----------------------------------------------------------------------------
Progress(w) ==
  \/ MintEnrollment(w)
  \/ MarkTokenUsed(w) \/ ConsumeEnrollment(w) \/ MintIngest(w) \/ Activate(w)
  \/ RevokeIngestTokens(w) \/ RevokeEnrollmentTokens(w) \/ MarkRevoked(w)
  \/ UpdateInstallationLastSeen(w)

Next ==
  \/ Tick
  \/ \E w \in Worker :
       \/ \E i \in Installation :
            CreateInstallation(w, i) \/ RotateIngestToken(w, i) \/ RevokeInstallation(w, i)
       \/ \E t \in TokenId : Enroll(w, t) \/ ResolveIngestToken(w, t)
       \/ Progress(w)
       \/ Fail(w)

Spec == Init /\ [][Next]_vars

-----------------------------------------------------------------------------
(* Properties *)

(* The tables hold rows and requests of the shapes above; an installation *)
(* that has a token, or a request at work, exists, and one that was seen  *)
(* has a used ingest token.                                               *)
TypeOK ==
  /\ now \in Nat
  /\ status \in [Installation -> {"absent", "pending", "active", "revoked"}]
  /\ toks \in [TokenId -> Row \cup {NoRow}]
  /\ req \in [Worker -> Request]
  /\ seen \subseteq {toks[t].inst : t \in {x \in TokenId : toks[x].used /\ toks[x].kind = "ingest"}}
  /\ settled \subseteq Installation
  /\ \A t \in TokenId : toks[t] # NoRow => status[toks[t].inst] # "absent"
  /\ \A w \in Worker : req[w].pc # "idle" => req[w].inst \in Installation
                                             /\ status[req[w].inst] # "absent"

(* An installation whose revocation no minting request overlapped stays    *)
(* revoked and without a usable token until it is rotated: no enrollment,  *)
(* however early its token was issued, brings it back.                     *)
SettledStaysRevoked ==
  \A i \in settled :
    /\ status[i] = "revoked"
    /\ \A t \in TokenId : toks[t].inst = i => toks[t].revoked

(* An ingest token was traded for an enrollment token that is used up: no  *)
(* failure between the statements of Enroll leaves both usable.            *)
TradedTokensAreSpent ==
  \A t \in TokenId : toks[t].from # NoTok =>
    LET e == toks[toks[t].from]
    IN e.kind = "enrollment" /\ e.inst = toks[t].inst /\ e.used /\ e.revoked

(* One enrollment token buys at most one ingest token per request at work  *)
(* at the same time, so exactly one when requests come one after another.  *)
TradesBounded ==
  \A e \in TokenId :
    Cardinality({t \in TokenId : toks[t].from = e}) <= Cardinality(Worker)

(* An installation shown as active has been given an ingest token.         *)
ActiveWasEnrolled ==
  \A i \in Installation : status[i] = "active" =>
    \E t \in TokenId : toks[t].inst = i /\ toks[t].kind = "ingest" /\ toks[t].from # NoTok

(* A rotation that no enrollment and no other rotation overlapped leaves    *)
(* the installation with its own token and no other: every ingest token it  *)
(* had before, those of raced enrollments included, is dead.                *)
RotationLeavesOneToken ==
  [][\A w \in Worker :
       /\ req[w].pc = "mintIngest" /\ req[w].op = "rotate" /\ ~req[w].overlap
       /\ toks' # toks /\ req'[w].pc = "idle"
       => Cardinality({t \in TokenId : toks'[t].inst = req[w].inst /\ toks'[t].kind = "ingest"
                                         /\ ~toks'[t].revoked}) = 1]_vars
=============================================================================
