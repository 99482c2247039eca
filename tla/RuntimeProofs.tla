---------------------------- MODULE RuntimeProofs ----------------------------
(***************************************************************************)
(* Theorems about RuntimeInstallations and RuntimeIngest, for any          *)
(* installations, tokens, workers, lives, payloads and bounds, with or     *)
(* without failing statements.                                             *)
(*                                                                         *)
(* The safety properties speak of the tables alone and are not inductive:  *)
(* whether the next statement of a method keeps them depends on what its   *)
(* earlier statements did.  HeldBy says what a worker's program counter    *)
(* vouches for, and SweptBy what a rotation or a revocation that nobody    *)
(* overlapped has achieved so far.  TradesOf counts the tokens a worker may *)
(* still mint together with those minted.  For the reports, LoopInv says of *)
(* each row an open report has written what ReportsAreShown says of those  *)
(* of a report that is over, and RowsInv that a row is of an account its   *)
(* report may store it under.                                              *)
(***************************************************************************)
EXTENDS RuntimeIngest, FiniteSetTheorems, TLAPS

(* What the position of worker w in its method says about it. *)
HeldBy(w) ==
  /\ req[w].pc = "idle" <=> req[w].op = "none"
  /\ req[w].pc = "mintEnrollment" => req[w].op = "create"
  /\ req[w].pc = "markUsed" => req[w].op \in {"enroll", "ingest"}
  /\ req[w].pc \in {"consume", "activate"} => req[w].op = "enroll"
  /\ req[w].pc = "mintIngest" => req[w].op \in {"enroll", "rotate"}
  /\ req[w].pc = "revokeIngest" => req[w].op \in SweepOps
  /\ req[w].pc \in {"revokeEnrollment", "markRevoked"} => req[w].op = "revoke"
  /\ req[w].pc = "lastSeen" => req[w].op = "ingest"
  /\ req[w].op = "rotate" => req[w].tok = NoTok
  /\ req[w].op \in {"enroll", "ingest"} =>
       /\ req[w].tok \in TokenId
       /\ toks[req[w].tok].inst = req[w].inst
       /\ toks[req[w].tok].kind = IF req[w].op = "enroll" THEN "enrollment" ELSE "ingest"
       /\ req[w].pc # "markUsed" => toks[req[w].tok].used
       /\ req[w].pc = "mintIngest" => toks[req[w].tok].revoked
  /\ req[w].pc = "activate" =>
       \E t \in TokenId : toks[t].inst = req[w].inst /\ toks[t].kind = "ingest"
                          /\ toks[t].from # NoTok

(* Worker w is not creating a token for installation i. *)
NotMinting(w, i) == ~(req[w].inst = i /\ req[w].op \in MintOps)

(* Every token of a kind that installation i has is revoked. *)
KindDead(i, kind) ==
  \A t \in TokenId : toks[t].inst = i /\ toks[t].kind = kind => toks[t].revoked

SweptBy(w) ==
  req[w].op \in SweepOps /\ ~req[w].overlap =>
    /\ \A x \in Worker \ {w} : NotMinting(x, req[w].inst)
    /\ req[w].pc # "revokeIngest" => KindDead(req[w].inst, "ingest")
    /\ req[w].pc = "markRevoked" => KindDead(req[w].inst, "enrollment")

SettledAt(i) ==
  i \in settled =>
    /\ status[i] = "revoked"
    /\ \A t \in TokenId : toks[t].inst = i => toks[t].revoked
    /\ \A w \in Worker : NotMinting(w, i)

TableInv == TradedTokensAreSpent /\ ActiveWasEnrolled
RequestInv == \A w \in Worker : HeldBy(w) /\ SweptBy(w)
SettledInv == \A i \in Installation : SettledAt(i)
InstInv == TypeOK /\ TableInv /\ RequestInv /\ SettledInv

-----------------------------------------------------------------------------
(* Rows only change in one direction. *)
Grows ==
  /\ \A t \in TokenId : toks[t] # NoRow =>
       /\ toks'[t].inst = toks[t].inst /\ toks'[t].kind = toks[t].kind
       /\ toks'[t].from = toks[t].from
       /\ toks[t].used => toks'[t].used
       /\ toks[t].revoked => toks'[t].revoked
  /\ \A i \in Installation : status[i] # "absent" => status'[i] # "absent"

LEMMA RowFacts ==
  ASSUME TypeOK, NEW t \in TokenId
  PROVE  /\ toks[t] = NoRow <=> toks[t].inst = NoInst
         /\ toks[t] # NoRow => toks[t] \in Row
         /\ NoRow.from = NoTok /\ NoRow.kind = "none" /\ NoRow.inst \notin Installation
BY InstallationsAssumption DEF TypeOK, Row, NoRow

(* A worker whose request only gained an overlap still holds what it held. *)
LEMMA HeldKept ==
  ASSUME TypeOK, Grows, NEW w \in Worker, HeldBy(w),
         req'[w].pc = req[w].pc, req'[w].op = req[w].op,
         req'[w].inst = req[w].inst, req'[w].tok = req[w].tok
  PROVE  HeldBy(w)'
<1>1. req[w].pc # "idle" => req[w].inst \in Installation
  BY DEF TypeOK
<1>2. req[w].op \in {"enroll", "ingest"} => toks[req[w].tok] # NoRow
  BY <1>1, RowFacts, InstallationsAssumption DEF HeldBy, NoRow
<1>3. ASSUME NEW t \in TokenId, toks[t].kind = "ingest"
      PROVE  toks[t] # NoRow
  BY <1>3 DEF NoRow
<1>4. req[w].pc = "activate" =>
       \E t \in TokenId : toks'[t].inst = req[w].inst /\ toks'[t].kind = "ingest"
                          /\ toks'[t].from # NoTok
  BY <1>3 DEF HeldBy, Grows
<1>5. req[w].op \in {"enroll", "ingest"} =>
       /\ toks'[req[w].tok].inst = toks[req[w].tok].inst
       /\ toks'[req[w].tok].kind = toks[req[w].tok].kind
       /\ toks[req[w].tok].used => toks'[req[w].tok].used
       /\ toks[req[w].tok].revoked => toks'[req[w].tok].revoked
  BY <1>2 DEF HeldBy, Grows
<1> QED BY <1>4, <1>5 DEF HeldBy

(* Revocation is for good: what is dead stays dead while nothing is minted. *)
LEMMA DeadKept ==
  ASSUME TypeOK, Grows, NEW i \in Installation, NEW kind \in {"enrollment", "ingest"},
         KindDead(i, kind),
         \A t \in TokenId : toks[t] = NoRow => toks'[t] = NoRow \/ toks'[t].inst # i
                                                \/ toks'[t].kind # kind
  PROVE  KindDead(i, kind)'
BY RowFacts DEF KindDead, Grows, NoRow

(* A worker takes the next step of its method, or is done with it: the  *)
(* others keep what they hold, since only a minting request adds a row. *)
LEMMA MoveStep ==
  ASSUME InstInv, TypeOK', TableInv', Grows, NEW w \in Worker, NEW r \in Request,
         req' = [req EXCEPT ![w] = r],
         \/ r.op = "none"
         \/ r.op = req[w].op /\ r.inst = req[w].inst /\ r.overlap = req[w].overlap,
         HeldBy(w)', SweptBy(w)',
         \A t \in TokenId : toks[t] = NoRow =>
            toks'[t] = NoRow \/ (toks'[t].inst = req[w].inst /\ req[w].op \in MintOps),
         \A i \in Installation : status'[i] = status[i]
            \/ status'[i] = "revoked" \/ (i = req[w].inst /\ req[w].op \in MintOps),
         \A i \in settled' : i \in settled \/ SettledAt(i)'
  PROVE  InstInv'
<1>t. TypeOK
  BY DEF InstInv
<1>1. \A x \in Worker \ {w} : req'[x] = req[x]
  BY <1>t DEF TypeOK
<1>2. req'[w] = r
  BY <1>t DEF TypeOK
<1>3. ASSUME NEW x \in Worker, NEW i
      PROVE  NotMinting(x, i) => NotMinting(x, i)'
  BY <1>1, <1>2 DEF NotMinting, MintOps
<1>4. ASSUME NEW x \in Worker, x # w
      PROVE  HeldBy(x)' /\ SweptBy(x)'
  <2>1. HeldBy(x)'
    BY <1>1, <1>4, <1>t, HeldKept DEF InstInv, RequestInv
  <2>2. SUFFICES ASSUME req[x].op \in SweepOps, ~req[x].overlap
                 PROVE  SweptBy(x)'
    BY <2>1, <1>1, <1>4 DEF SweptBy
  <2>3. PICK i \in Installation : i = req[x].inst
    BY <2>2, <1>t DEF TypeOK, InstInv, RequestInv, HeldBy, SweepOps
  <2>4. SweptBy(x)
    BY DEF InstInv, RequestInv
  <2>5. NotMinting(w, i)
    BY <2>2, <2>3, <2>4, <1>4 DEF SweptBy
  <2>6. \A t \in TokenId : toks[t] = NoRow => toks'[t] = NoRow \/ toks'[t].inst # i
    BY <2>5 DEF NotMinting
  <2>7. \A kind \in {"enrollment", "ingest"} : KindDead(i, kind) => KindDead(i, kind)'
    BY <2>3, <2>6, <1>t, DeadKept
  <2>8. \A y \in Worker \ {x} : NotMinting(y, i)'
    BY <2>2, <2>3, <2>4, <1>3 DEF SweptBy
  <2>9. req'[x] = req[x]
    BY <1>1, <1>4
  <2> QED BY <2>1, <2>2, <2>3, <2>4, <2>7, <2>8, <2>9 DEF SweptBy, KindDead, NotMinting
<1>5. RequestInv'
  BY <1>4 DEF RequestInv
<1>6. SettledInv'
  <2> SUFFICES ASSUME NEW i \in Installation, i \in settled, i \in settled'
               PROVE  SettledAt(i)'
    BY DEF SettledInv, SettledAt
  <2>1. /\ status[i] = "revoked"
        /\ \A t \in TokenId : toks[t].inst = i => toks[t].revoked
        /\ \A x \in Worker : NotMinting(x, i)
    BY DEF InstInv, SettledInv, SettledAt
  <2>2. status'[i] = "revoked"
    BY <2>1 DEF NotMinting
  <2>3. \A t \in TokenId : toks'[t].inst = i => toks'[t].revoked
    BY <2>1, <1>t, RowFacts DEF NotMinting, Grows
  <2>4. \A x \in Worker : NotMinting(x, i)'
    BY <2>1, <1>3
  <2> QED BY <2>2, <2>3, <2>4 DEF SettledAt
<1> QED BY <1>5, <1>6 DEF InstInv

(* A worker starts on an installation: rotations and revocations of it     *)
(* that are under way notice if it mints, so they vouch for nothing more.  *)
LEMMA StartStep ==
  ASSUME InstInv, TypeOK', TableInv', NEW w \in Worker,
         NEW pc, NEW op, NEW i \in Installation, NEW t \in TokenId \cup {NoTok},
         Start(w, pc, op, i, t), UNCHANGED toks,
         op # "none", op \in SweepOps => pc = "revokeIngest",
         HeldBy(w)',
         \A j \in Installation : status'[j] = status[j]
            \/ (status[j] = "absent" /\ status'[j] # "absent"),
         settled' \subseteq settled, op \in MintOps => i \notin settled'
  PROVE  InstInv'
<1>t. TypeOK
  BY DEF InstInv
<1>1. /\ req[w].pc = "idle"
      /\ req'[w] = [pc |-> pc, op |-> op, inst |-> i, tok |-> t, start |-> now,
                    overlap |-> op \in SweepOps /\ Minting(i) # {}]
      /\ \A x \in Worker \ {w} :
           req'[x] = IF op \in MintOps /\ req[x].op \in SweepOps /\ req[x].inst = i
                     THEN [req[x] EXCEPT !.overlap = TRUE] ELSE req[x]
  BY DEF Start
<1>2. \A x \in Worker \ {w} :
        /\ req'[x].pc = req[x].pc /\ req'[x].op = req[x].op
        /\ req'[x].inst = req[x].inst /\ req'[x].tok = req[x].tok
        /\ ~req'[x].overlap =>
             ~req[x].overlap /\ ~(op \in MintOps /\ req[x].op \in SweepOps /\ req[x].inst = i)
  BY <1>1, <1>t DEF TypeOK, Request
<1>3. Grows
  BY DEF Grows
<1>4. ASSUME NEW x \in Worker, x # w
      PROVE  HeldBy(x)' /\ SweptBy(x)'
  <2>1. HeldBy(x)'
    BY <1>2, <1>3, <1>4, <1>t, HeldKept DEF InstInv, RequestInv
  <2>2. SUFFICES ASSUME req'[x].op \in SweepOps, ~req'[x].overlap
                 PROVE  SweptBy(x)'
    BY <2>1 DEF SweptBy, SweepOps
  <2>3. SweptBy(x)
    BY DEF InstInv, RequestInv
  <2>4. req[x].op \in SweepOps /\ ~req[x].overlap /\ ~(op \in MintOps /\ req[x].inst = i)
    BY <1>2, <1>4, <2>2 DEF SweepOps
  <2>5. \A y \in Worker \ {x} : NotMinting(y, req[x].inst)'
    BY <1>1, <1>2, <1>4, <2>3, <2>4 DEF SweptBy, NotMinting
  <2>6. /\ req[x].pc # "revokeIngest" => KindDead(req[x].inst, "ingest")'
        /\ req[x].pc = "markRevoked" => KindDead(req[x].inst, "enrollment")'
    BY <1>2, <1>4, <2>3, <2>4 DEF SweptBy, KindDead
  <2> QED BY <1>2, <1>4, <2>1, <2>5, <2>6 DEF SweptBy, NotMinting, KindDead
<1>5. SweptBy(w)'
  <2>0. /\ req'[w].op = op /\ req'[w].inst = i /\ req'[w].pc = pc
        /\ req'[w].overlap = (op \in SweepOps /\ Minting(i) # {})
    BY <1>1
  <2>1. SUFFICES ASSUME op \in SweepOps, Minting(i) = {}
                 PROVE  SweptBy(w)'
    BY <2>0 DEF SweptBy
  <2>2. \A x \in Worker : ~(req[x].inst = i /\ req[x].op \in MintOps)
    BY <2>1 DEF Minting
  <2>3. \A x \in Worker \ {w} : NotMinting(x, i)'
    BY <2>2, <1>2 DEF NotMinting
  <2> QED BY <2>0, <2>1, <2>3 DEF SweptBy, NotMinting, SweepOps
<1>6. SettledInv'
  <2> SUFFICES ASSUME NEW j \in Installation, j \in settled, j \in settled'
               PROVE  SettledAt(j)'
    BY DEF SettledInv, SettledAt
  <2>1. SettledAt(j)
    BY DEF InstInv, SettledInv
  <2>2. \A x \in Worker : NotMinting(x, j)'
    BY <1>1, <1>2, <2>1 DEF SettledAt, NotMinting
  <2> QED BY <2>1, <2>2 DEF SettledAt
<1> QED BY <1>4, <1>5, <1>6 DEF InstInv, RequestInv

(* A step that trades nothing and activates nothing keeps what the tables say. *)
LEMMA TableKept ==
  ASSUME TypeOK, TableInv, Grows,
         \A t \in TokenId : toks[t] = NoRow => toks'[t] = NoRow \/ toks'[t].from = NoTok,
         \A i \in Installation : status'[i] = "active" => status[i] = "active"
  PROVE  TableInv'
<1>1. TradedTokensAreSpent'
  <2> SUFFICES ASSUME NEW t \in TokenId, toks'[t].from # NoTok
               PROVE  /\ toks'[toks'[t].from].kind = "enrollment"
                      /\ toks'[toks'[t].from].inst = toks'[t].inst
                      /\ toks'[toks'[t].from].used /\ toks'[toks'[t].from].revoked
    BY DEF TradedTokensAreSpent
  <2>1. toks[t] # NoRow
    BY RowFacts
  <2>2. PICK e \in TokenId : e = toks[t].from
    BY <2>1, RowFacts DEF Row, Grows
  <2>3. toks'[t].from = e /\ toks'[t].inst = toks[t].inst
    BY <2>1, <2>2 DEF Grows
  <2>4. toks[e].kind = "enrollment" /\ toks[e].inst = toks[t].inst /\ toks[e].used /\ toks[e].revoked
    BY <2>1, <2>2, <2>3 DEF TableInv, TradedTokensAreSpent
  <2>5. toks[e] # NoRow
    BY <2>4, RowFacts
  <2> QED BY <2>3, <2>4, <2>5 DEF Grows
<1>2. ActiveWasEnrolled'
  BY RowFacts DEF TableInv, ActiveWasEnrolled, Grows
<1> QED BY <1>1, <1>2 DEF TableInv

(* The installations that were seen keep a used ingest token. *)
LEMMA SeenKept ==
  ASSUME TypeOK, Grows
  PROVE  seen \subseteq {toks'[t].inst : t \in {x \in TokenId : toks'[x].used /\ toks'[x].kind = "ingest"}}
<1> SUFFICES ASSUME NEW i \in seen
             PROVE  \E t \in TokenId : toks'[t].used /\ toks'[t].kind = "ingest" /\ toks'[t].inst = i
  OBVIOUS
<1>1. PICK t \in TokenId : toks[t].used /\ toks[t].kind = "ingest" /\ toks[t].inst = i
  BY DEF TypeOK
<1>2. toks[t] # NoRow
  BY <1>1, RowFacts
<1> QED BY <1>1, <1>2 DEF Grows

(* The types of a step of worker w that only moves its request and the rows. *)
LEMMA TypeStep ==
  ASSUME TypeOK, Grows, UNCHANGED <<now, seen>>,
         NEW w \in Worker, NEW r \in Request, req' = [req EXCEPT ![w] = r],
         r.pc # "idle" => r.inst = req[w].inst /\ req[w].pc # "idle",
         toks' \in [TokenId -> Row \cup {NoRow}],
         \A t \in TokenId : toks[t] = NoRow =>
            toks'[t] = NoRow \/ (toks'[t].inst \in Installation /\ status[toks'[t].inst] # "absent"),
         status' \in [Installation -> {"absent", "pending", "active", "revoked"}],
         settled' \subseteq Installation
  PROVE  TypeOK'
<1>1. req' \in [Worker -> Request]
  BY DEF TypeOK
<1>2. \A t \in TokenId : toks'[t] # NoRow => toks'[t].inst \in Installation /\ status'[toks'[t].inst] # "absent"
  BY RowFacts DEF TypeOK, Grows, Row
<1>3. \A x \in Worker : req'[x].pc # "idle" => req'[x].inst \in Installation
                                             /\ status'[req'[x].inst] # "absent"
  BY DEF TypeOK, Grows
<1> QED BY <1>1, <1>2, <1>3, SeenKept DEF TypeOK

-----------------------------------------------------------------------------
LEMMA InitInv == Init => InstInv
<1> SUFFICES ASSUME Init
             PROVE  InstInv
  OBVIOUS
<1>1. TypeOK
  BY InstallationsAssumption DEF Init, TypeOK, Idle, Request
<1>2. TableInv
  BY DEF Init, TableInv, TradedTokensAreSpent, ActiveWasEnrolled, NoRow
<1>3. RequestInv
  BY DEF Init, RequestInv, HeldBy, SweptBy, Idle, SweepOps
<1>4. SettledInv
  BY DEF Init, SettledInv, SettledAt
<1> QED BY <1>1, <1>2, <1>3, <1>4 DEF InstInv

-----------------------------------------------------------------------------
(* The types of a worker's start. *)
LEMMA StartType ==
  ASSUME TypeOK, NEW w \in Worker, NEW i \in Installation, NEW t \in TokenId \cup {NoTok},
         NEW pc \in {"mintEnrollment", "markUsed", "revokeIngest"},
         NEW op \in {"create", "enroll", "rotate", "revoke", "ingest"},
         Start(w, pc, op, i, t), UNCHANGED <<now, seen, toks>>,
         status' \in [Installation -> {"absent", "pending", "active", "revoked"}],
         status'[i] # "absent",
         \A j \in Installation : status[j] # "absent" => status'[j] # "absent",
         settled' \subseteq Installation
  PROVE  TypeOK'
<1>1. \A x \in Worker : [req[x] EXCEPT !.overlap = TRUE] \in Request
  <2>1. \A x \in Worker : req[x] \in Request
    BY DEF TypeOK
  <2> QED BY ONLY <2>1 DEF Request
<1>2. [pc |-> pc, op |-> op, inst |-> i, tok |-> t, start |-> now,
       overlap |-> op \in SweepOps /\ Minting(i) # {}] \in Request
  BY DEF TypeOK, Request
<1>3. req' \in [Worker -> Request]
  BY <1>1, <1>2 DEF Start, TypeOK
<1>4. \A x \in Worker : req'[x].pc # "idle" => req'[x].inst \in Installation
                                             /\ status'[req'[x].inst] # "absent"
  <2> SUFFICES ASSUME NEW x \in Worker, req'[x].pc # "idle"
               PROVE  req'[x].inst \in Installation /\ status'[req'[x].inst] # "absent"
    OBVIOUS
  <2>1. CASE x = w
    BY <2>1 DEF Start
  <2>2. CASE x # w
    <3>1. req'[x].pc = req[x].pc /\ req'[x].inst = req[x].inst
      BY <2>2 DEF Start, TypeOK, Request
    <3> QED BY <3>1 DEF TypeOK
  <2> QED BY <2>1, <2>2
<1>5. \A x \in TokenId : toks'[x] # NoRow => status'[toks'[x].inst] # "absent"
  BY RowFacts DEF TypeOK, Row
<1> QED BY <1>3, <1>4, <1>5 DEF TypeOK

LEMMA CreateInv ==
  ASSUME InstInv, NEW w \in Worker, NEW i \in Installation, CreateInstallation(w, i)
  PROVE  InstInv'
<1>t. TypeOK /\ TableInv /\ SettledInv
  BY DEF InstInv
<1>1. /\ Start(w, "mintEnrollment", "create", i, NoTok) /\ status[i] = "absent"
      /\ status' = [status EXCEPT ![i] = "pending"]
      /\ UNCHANGED <<now, seen, toks, settled>>
  BY DEF CreateInstallation
<1>2. /\ status' \in [Installation -> {"absent", "pending", "active", "revoked"}]
      /\ status'[i] = "pending" /\ \A j \in Installation \ {i} : status'[j] = status[j]
  BY <1>1, <1>t DEF TypeOK
<1>3. TypeOK'
  BY <1>1, <1>2, <1>t, StartType DEF TypeOK
<1>4. TableInv'
  <2>1. Grows
    BY <1>1, <1>2 DEF Grows
  <2> QED BY <2>1, <1>1, <1>2, <1>t, TableKept
<1>5. HeldBy(w)'
  BY <1>1 DEF Start, HeldBy
<1>6. i \notin settled
  BY <1>1, <1>t DEF SettledInv, SettledAt
<1> QED BY <1>1, <1>2, <1>3, <1>4, <1>5, <1>6, StartStep DEF SweepOps

(* Requests that start by reading leave the tables alone. *)
LEMMA ReadStartInv ==
  ASSUME InstInv, NEW w \in Worker, NEW i \in Installation, NEW t \in TokenId \cup {NoTok},
         NEW pc \in {"markUsed", "revokeIngest"}, NEW op \in {"enroll", "rotate", "revoke", "ingest"},
         Start(w, pc, op, i, t), UNCHANGED <<now, status, seen, toks>>,
         status[i] # "absent", settled' \subseteq settled, op \in MintOps => i \notin settled',
         op \in SweepOps <=> pc = "revokeIngest", op = "rotate" => t = NoTok,
         op \in {"enroll", "ingest"} => /\ t \in TokenId /\ toks[t].inst = i
                                       /\ toks[t].kind = IF op = "enroll" THEN "enrollment" ELSE "ingest"
  PROVE  InstInv'
<1>t. TypeOK /\ TableInv
  BY DEF InstInv
<1>3. TypeOK'
  BY <1>t, StartType DEF TypeOK
<1>4. TableInv'
  BY <1>t DEF TableInv, TradedTokensAreSpent, ActiveWasEnrolled
<1>5. HeldBy(w)'
  <2>1. req'[w] = [pc |-> pc, op |-> op, inst |-> i, tok |-> t, start |-> now,
                   overlap |-> op \in SweepOps /\ Minting(i) # {}]
    BY DEF Start
  <2> QED BY <2>1 DEF HeldBy, SweepOps
<1> QED BY <1>3, <1>4, <1>5, StartStep

LEMMA EnrollInv ==
  ASSUME InstInv, NEW w \in Worker, NEW t \in TokenId, Enroll(w, t) \/ ResolveIngestToken(w, t)
  PROVE  InstInv'
<1>t. TypeOK /\ SettledInv
  BY DEF InstInv
<1>1. PICK op \in {"enroll", "ingest"} :
        /\ Start(w, "markUsed", op, toks[t].inst, t)
        /\ toks[t].kind = IF op = "enroll" THEN "enrollment" ELSE "ingest"
        /\ ~toks[t].revoked /\ UNCHANGED <<now, status, seen, toks, settled>>
  BY DEF Enroll, ResolveIngestToken, Active
<1>2. toks[t] # NoRow
  BY <1>1, RowFacts, <1>t
<1>3. PICK i \in Installation : i = toks[t].inst
  BY <1>2, <1>t, RowFacts DEF Row
<1>4. status[i] # "absent" /\ i \notin settled
  BY <1>1, <1>2, <1>3, <1>t DEF TypeOK, SettledInv, SettledAt
<1> QED BY <1>1, <1>3, <1>4, ReadStartInv DEF SweepOps

LEMMA SweepStartInv ==
  ASSUME InstInv, NEW w \in Worker, NEW i \in Installation,
         RotateIngestToken(w, i) \/ RevokeInstallation(w, i)
  PROVE  InstInv'
<1>1. CASE RotateIngestToken(w, i)
  BY <1>1, ReadStartInv DEF RotateIngestToken, SweepOps, MintOps
<1>2. CASE RevokeInstallation(w, i)
  BY <1>2, ReadStartInv DEF RevokeInstallation, SweepOps, MintOps
<1> QED BY <1>1, <1>2

-----------------------------------------------------------------------------
LEMMA GoOnFacts ==
  ASSUME TypeOK, NEW w \in Worker,
         NEW pc \in {"consume", "mintIngest", "activate", "revokeEnrollment", "markRevoked", "lastSeen"},
         GoOn(w, pc)
  PROVE  \E r \in Request : /\ req' = [req EXCEPT ![w] = r] /\ r.pc = pc /\ r.op = req[w].op
                            /\ r.inst = req[w].inst /\ r.tok = req[w].tok
                            /\ r.overlap = req[w].overlap
<1> DEFINE r == [req[w] EXCEPT !.pc = pc]
<1>0. req[w] \in Request
  BY DEF TypeOK
<1>1. /\ r \in Request /\ r.pc = pc /\ r.op = req[w].op /\ r.inst = req[w].inst
      /\ r.tok = req[w].tok /\ r.overlap = req[w].overlap
  BY ONLY <1>0, pc \in {"consume", "mintIngest", "activate", "revokeEnrollment", "markRevoked", "lastSeen"}
  DEF Request
<1>2. req' = [req EXCEPT ![w] = r]
  BY DEF GoOn, TypeOK
<1> HIDE DEF r
<1> QED BY <1>1, <1>2

LEMMA DoneFacts ==
  ASSUME TypeOK, NEW w \in Worker, Done(w)
  PROVE  /\ Idle \in Request /\ Idle.pc = "idle" /\ Idle.op = "none"
         /\ req' = [req EXCEPT ![w] = Idle]
         /\ HeldBy(w)' /\ SweptBy(w)'
<1>1. Idle \in Request
  BY DEF Idle, Request
<1>2. req'[w] = Idle
  BY DEF Done, TypeOK
<1> QED BY <1>1, <1>2 DEF Done, Idle, HeldBy, SweptBy, SweepOps

(* A new row for an existing installation. *)
LEMMA CreateTokenFacts ==
  ASSUME TypeOK, NEW t \in TokenId, NEW i \in Installation, NEW kind \in {"enrollment", "ingest"},
         NEW exp \in Nat, NEW from \in TokenId \cup {NoTok}, CreateToken(t, i, kind, exp, from),
         UNCHANGED status
  PROVE  /\ Grows
         /\ toks' \in [TokenId -> Row \cup {NoRow}]
         /\ toks[t] = NoRow
         /\ \A x \in TokenId \ {t} : toks'[x] = toks[x]
         /\ toks'[t].inst = i /\ toks'[t].kind = kind /\ toks'[t].from = from
BY RowFacts DEF CreateToken, TypeOK, Row, Grows

LEMMA MintEnrollmentInv ==
  ASSUME InstInv, NEW w \in Worker, MintEnrollment(w)
  PROVE  InstInv'
<1>t. TypeOK /\ TableInv /\ HeldBy(w) /\ req[w] \in Request
  BY DEF InstInv, RequestInv, TypeOK
<1>1. /\ req[w].op = "create" /\ req[w].inst \in Installation /\ status[req[w].inst] # "absent"
      /\ Done(w) /\ UNCHANGED <<now, status, seen, settled>>
  BY <1>t DEF MintEnrollment, TypeOK, HeldBy
<1>2. PICK i \in Installation : i = req[w].inst
  BY <1>1
<1>3. PICK exp \in Nat, t \in TokenId : CreateToken(t, i, "enrollment", exp, NoTok)
  <2>1. req[w].start + EnrollTTL \in Nat
    BY <1>t, InstallationsAssumption DEF Request
  <2> QED BY <2>1, <1>2 DEF MintEnrollment
<1>4. /\ Grows /\ toks' \in [TokenId -> Row \cup {NoRow}] /\ toks[t] = NoRow
      /\ \A x \in TokenId \ {t} : toks'[x] = toks[x]
      /\ toks'[t].inst = i /\ toks'[t].from = NoTok
  BY <1>t, <1>1, <1>3, CreateTokenFacts
<1>5. /\ Idle \in Request /\ Idle.pc = "idle" /\ Idle.op = "none"
      /\ req' = [req EXCEPT ![w] = Idle] /\ HeldBy(w)' /\ SweptBy(w)'
  BY <1>t, <1>1, DoneFacts
<1>6. TypeOK'
  BY <1>t, <1>1, <1>2, <1>4, <1>5, TypeStep DEF TypeOK
<1>7. TableInv'
  BY <1>t, <1>1, <1>4, TableKept
<1> QED BY <1>1, <1>2, <1>4, <1>5, <1>6, <1>7, MoveStep DEF MintOps

(* A mark set on the row of the token the worker presents. *)
LEMMA MarkInv ==
  ASSUME InstInv, NEW w \in Worker, MarkTokenUsed(w) \/ ConsumeEnrollment(w)
  PROVE  InstInv'
<1>t. TypeOK /\ TableInv /\ HeldBy(w)
  BY DEF InstInv, RequestInv
<1>1. /\ req[w].op \in {"enroll", "ingest"} /\ req[w].inst \in Installation
      /\ req[w].pc # "idle" /\ req[w].pc # "activate"
      /\ UNCHANGED <<now, status, seen, settled>>
  BY <1>t DEF MarkTokenUsed, ConsumeEnrollment, TypeOK, HeldBy
<1>2. PICK t \in TokenId : t = req[w].tok
  BY <1>t, <1>1 DEF HeldBy
<1>3. toks[t].inst = req[w].inst /\ toks[t] \in Row
  BY <1>t, <1>1, <1>2, RowFacts DEF HeldBy
<1>4. PICK row \in Row :
        /\ toks' = [toks EXCEPT ![t] = row]
        /\ row.inst = toks[t].inst /\ row.kind = toks[t].kind /\ row.from = toks[t].from
        /\ row.used = (toks[t].used \/ req[w].pc = "markUsed")
        /\ row.revoked = (toks[t].revoked \/ req[w].pc = "consume")
  <2>1. /\ [toks[t] EXCEPT !.used = TRUE] \in Row
        /\ [toks[t] EXCEPT !.revoked = TRUE] \in Row
    BY ONLY <1>3 DEF Row
  <2>2. CASE MarkTokenUsed(w)
    <3>1. toks' = [toks EXCEPT ![t] = [toks[t] EXCEPT !.used = TRUE]] /\ req[w].pc = "markUsed"
      BY <2>2, <1>2, <1>t DEF MarkTokenUsed, TypeOK
    <3> QED BY <2>1, <1>3, <3>1 DEF Row
  <2>3. CASE ConsumeEnrollment(w)
    <3>1. toks' = [toks EXCEPT ![t] = [toks[t] EXCEPT !.revoked = TRUE]] /\ req[w].pc = "consume"
      BY <2>3, <1>2, <1>t DEF ConsumeEnrollment, TypeOK
    <3> QED BY <2>1, <1>3, <3>1 DEF Row
  <2> QED BY <2>2, <2>3
<1>5. /\ toks' \in [TokenId -> Row \cup {NoRow}] /\ toks'[t] = row
      /\ \A x \in TokenId \ {t} : toks'[x] = toks[x]
  BY <1>4, <1>t DEF TypeOK
<1>6. Grows /\ toks[t] # NoRow
  BY <1>1, <1>3, <1>4, <1>5, <1>t, RowFacts DEF Grows
<1>7. PICK pc \in {"consume", "mintIngest", "lastSeen"} :
        /\ GoOn(w, pc)
        /\ pc = IF req[w].pc = "consume" THEN "mintIngest"
                ELSE IF req[w].op = "enroll" THEN "consume" ELSE "lastSeen"
        /\ req[w].pc \in {"markUsed", "consume"}
  BY DEF MarkTokenUsed, ConsumeEnrollment
<1>8. PICK r \in Request : /\ req' = [req EXCEPT ![w] = r] /\ r.pc = pc /\ r.op = req[w].op
                           /\ r.inst = req[w].inst /\ r.tok = req[w].tok
                           /\ r.overlap = req[w].overlap
  BY <1>t, <1>7, GoOnFacts
<1>9. req'[w] = r
  BY <1>8, <1>t DEF TypeOK
<1>10. HeldBy(w)'
  <2>1. /\ toks'[t].inst = r.inst /\ toks'[t].kind = toks[t].kind
        /\ toks'[t].used
        /\ pc = "mintIngest" => toks'[t].revoked
    BY <1>1, <1>2, <1>3, <1>4, <1>5, <1>7, <1>8, <1>t DEF HeldBy
  <2>2. r.op = "enroll" => r.pc \in {"consume", "mintIngest"}
    BY <1>7, <1>8
  <2>3. r.op = "ingest" => r.pc = "lastSeen"
    BY <1>7, <1>8, <1>t DEF HeldBy
  <2>4. toks[t].kind = IF r.op = "enroll" THEN "enrollment" ELSE "ingest"
    BY <1>1, <1>2, <1>8, <1>t DEF HeldBy
  <2>5. /\ req'[w].tok = t /\ req'[w].op = r.op /\ req'[w].inst = r.inst /\ req'[w].pc = r.pc
        /\ r.op \in {"enroll", "ingest"}
        /\ r.pc \in {"consume", "mintIngest", "lastSeen"}
    BY <1>1, <1>2, <1>8, <1>9
  <2>6. r.pc = "mintIngest" => toks'[t].revoked
    BY <1>8, <2>1
  <2> QED BY <2>1, <2>2, <2>3, <2>4, <2>5, <2>6 DEF HeldBy, SweepOps
<1>11. SweptBy(w)'
  BY <1>1, <1>8, <1>9 DEF SweptBy, SweepOps
<1>12. TypeOK'
  BY <1>t, <1>1, <1>5, <1>6, <1>8, TypeStep DEF TypeOK
<1>13. TableInv'
  BY <1>t, <1>1, <1>5, <1>6, TableKept
<1> QED BY <1>1, <1>5, <1>6, <1>8, <1>10, <1>11, <1>12, <1>13, MoveStep

LEMMA MintIngestInv ==
  ASSUME InstInv, NEW w \in Worker, MintIngest(w)
  PROVE  InstInv'
<1>t. TypeOK /\ TableInv /\ HeldBy(w) /\ req[w] \in Request
  BY DEF InstInv, RequestInv, TypeOK
<1>1. /\ req[w].op \in {"enroll", "rotate"} /\ req[w].inst \in Installation
      /\ req[w].pc = "mintIngest"
      /\ status[req[w].inst] # "absent" /\ UNCHANGED <<now, status, seen, settled>>
  BY <1>t DEF MintIngest, TypeOK, HeldBy
<1>2. PICK i \in Installation, from \in TokenId \cup {NoTok} : i = req[w].inst /\ from = req[w].tok
  BY <1>1, <1>t DEF Request
<1>3. PICK t \in TokenId : CreateToken(t, i, "ingest", 0, from)
  BY <1>2 DEF MintIngest
<1>4. /\ Grows /\ toks' \in [TokenId -> Row \cup {NoRow}] /\ toks[t] = NoRow
      /\ \A x \in TokenId \ {t} : toks'[x] = toks[x]
      /\ toks'[t].inst = i /\ toks'[t].kind = "ingest" /\ toks'[t].from = from
  BY <1>t, <1>1, <1>3, CreateTokenFacts
<1>5. TradedTokensAreSpent'
  <2> SUFFICES ASSUME NEW x \in TokenId, toks'[x].from # NoTok
               PROVE  /\ toks'[toks'[x].from].kind = "enrollment"
                      /\ toks'[toks'[x].from].inst = toks'[x].inst
                      /\ toks'[toks'[x].from].used /\ toks'[toks'[x].from].revoked
    BY DEF TradedTokensAreSpent
  <2>1. PICK e \in TokenId :
          /\ e = toks'[x].from /\ toks[e].inst = toks'[x].inst
          /\ toks[e].kind = "enrollment" /\ toks[e].used /\ toks[e].revoked
    <3>1. CASE x = t
      BY <3>1, <1>1, <1>2, <1>4, <1>t DEF HeldBy
    <3>2. CASE x # t
      <4>1. toks'[x] = toks[x] /\ toks[x].from \in TokenId
        BY <3>2, <1>4, <1>t, RowFacts DEF Row
      <4> QED BY <4>1, <1>t DEF TableInv, TradedTokensAreSpent
    <3> QED BY <3>1, <3>2
  <2>2. toks[e] # NoRow
    BY <2>1, RowFacts, <1>t
  <2> QED BY <2>1, <2>2, <1>4 DEF Grows
<1>6. ActiveWasEnrolled'
  <2>1. \A x \in TokenId : toks[x].kind = "ingest" => toks[x] # NoRow
    BY RowFacts, <1>t
  <2> QED BY <2>1, <1>1, <1>4, <1>t DEF TableInv, ActiveWasEnrolled, Grows
<1>7. PICK r \in Request :
        /\ req' = [req EXCEPT ![w] = r]
        /\ \/ r.op = "none" /\ r.pc = "idle"
           \/ /\ r.pc = "activate" /\ r.op = "enroll" /\ r.op = req[w].op /\ r.inst = i
              /\ r.tok = from /\ r.overlap = req[w].overlap
  <2>1. CASE req[w].op = "enroll"
    BY <2>1, <1>2, <1>t, GoOnFacts DEF MintIngest
  <2>2. CASE req[w].op # "enroll"
    BY <2>2, <1>t, DoneFacts DEF MintIngest
  <2> QED BY <2>1, <2>2
<1>8. req'[w] = r
  BY <1>7, <1>t DEF TypeOK
<1>9. HeldBy(w)' /\ SweptBy(w)'
  <2>1. CASE r.op = "none" /\ r.pc = "idle"
    BY <2>1, <1>8 DEF HeldBy, SweptBy, SweepOps
  <2>2. CASE r.op = "enroll" /\ r.pc = "activate" /\ r.op = req[w].op /\ r.inst = i /\ r.tok = from
    <3>1. /\ from \in TokenId /\ toks[from].inst = i /\ toks[from].kind = "enrollment"
          /\ toks[from].used
      BY <2>2, <1>1, <1>2, <1>t DEF HeldBy
    <3>2. toks[from] # NoRow
      BY <3>1, RowFacts, <1>t
    <3>3. toks'[from].inst = i /\ toks'[from].kind = "enrollment" /\ toks'[from].used
      BY <3>1, <3>2, <1>4 DEF Grows
    <3>4. toks'[t].inst = i /\ toks'[t].kind = "ingest" /\ toks'[t].from # NoTok
      BY <3>1, <1>4, InstallationsAssumption
    <3>5. /\ req'[w].op = "enroll" /\ req'[w].pc = "activate" /\ req'[w].inst = i
          /\ req'[w].tok = from
      BY <2>2, <1>8
    <3> QED BY <3>1, <3>3, <3>4, <3>5 DEF HeldBy, SweptBy, SweepOps
  <2> QED BY <1>7, <2>1, <2>2
<1>10. TypeOK'
  <2>1. r.pc # "idle" => r.inst = req[w].inst /\ req[w].pc # "idle"
    BY <1>1, <1>2, <1>7
  <2>2. \A x \in TokenId : toks[x] = NoRow =>
          toks'[x] = NoRow \/ (toks'[x].inst \in Installation /\ status[toks'[x].inst] # "absent")
    BY <1>1, <1>2, <1>4
  <2>3. /\ status' \in [Installation -> {"absent", "pending", "active", "revoked"}]
        /\ settled' \subseteq Installation
    BY <1>1, <1>t DEF TypeOK
  <2> QED BY <2>1, <2>2, <2>3, <1>t, <1>1, <1>4, <1>7, TypeStep
<1> QED BY <1>1, <1>2, <1>4, <1>5, <1>6, <1>7, <1>9, <1>10, MoveStep DEF TableInv, MintOps

LEMMA ActivateInv ==
  ASSUME InstInv, NEW w \in Worker, Activate(w)
  PROVE  InstInv'
<1>t. TypeOK /\ TableInv /\ HeldBy(w)
  BY DEF InstInv, RequestInv
<1>1. PICK i \in Installation : i = req[w].inst
  BY <1>t DEF Activate, TypeOK
<1>2. /\ req[w].op = "enroll" /\ req[w].pc = "activate" /\ Done(w)
      /\ status' = [status EXCEPT ![i] = "active"] /\ UNCHANGED <<now, seen, toks, settled>>
  BY <1>1, <1>t DEF Activate, HeldBy
<1>3. /\ status' \in [Installation -> {"absent", "pending", "active", "revoked"}]
      /\ status'[i] = "active" /\ \A j \in Installation \ {i} : status'[j] = status[j]
  BY <1>2, <1>t DEF TypeOK
<1>4. Grows
  BY <1>2, <1>3 DEF Grows
<1>5. TableInv'
  <2>1. \E t \in TokenId : toks[t].inst = i /\ toks[t].kind = "ingest" /\ toks[t].from # NoTok
    BY <1>1, <1>2, <1>t DEF HeldBy
  <2> QED BY <2>1, <1>2, <1>3, <1>t DEF TableInv, TradedTokensAreSpent, ActiveWasEnrolled
<1>6. /\ Idle \in Request /\ Idle.pc = "idle" /\ Idle.op = "none"
      /\ req' = [req EXCEPT ![w] = Idle] /\ HeldBy(w)' /\ SweptBy(w)'
  BY <1>t, <1>2, DoneFacts
<1>7. TypeOK'
  BY <1>t, <1>2, <1>3, <1>4, <1>6, TypeStep DEF TypeOK
<1> QED BY <1>1, <1>2, <1>3, <1>4, <1>5, <1>6, <1>7, MoveStep DEF MintOps

(* A sweep kills the tokens of one kind. *)
LEMMA SweepFacts ==
  ASSUME TypeOK, NEW i \in Installation, NEW kind \in {"enrollment", "ingest"},
         RevokeActiveTokensByKind(i, kind), UNCHANGED status
  PROVE  /\ toks' \in [TokenId -> Row \cup {NoRow}]
         /\ Grows /\ KindDead(i, kind)'
         /\ \A t \in TokenId : toks[t] = NoRow => toks'[t] = NoRow
<1>1. \A t \in TokenId : toks[t].inst = i => toks[t] \in Row
  BY RowFacts
<1>2. \A row \in Row :
        /\ [row EXCEPT !.revoked = TRUE] \in Row /\ [row EXCEPT !.revoked = TRUE].revoked
        /\ [row EXCEPT !.revoked = TRUE].inst = row.inst
        /\ [row EXCEPT !.revoked = TRUE].kind = row.kind
        /\ [row EXCEPT !.revoked = TRUE].from = row.from
        /\ [row EXCEPT !.revoked = TRUE].used = row.used
  BY DEF Row
<1>3. \A t \in TokenId :
        toks'[t] = IF toks[t].inst = i /\ toks[t].kind = kind
                   THEN [toks[t] EXCEPT !.revoked = TRUE] ELSE toks[t]
  BY DEF RevokeActiveTokensByKind
<1>4. toks' \in [TokenId -> Row \cup {NoRow}]
  BY <1>1, <1>2 DEF RevokeActiveTokensByKind, TypeOK
<1>5. Grows
  <2>1. ASSUME NEW t \in TokenId
        PROVE  /\ toks'[t].inst = toks[t].inst /\ toks'[t].kind = toks[t].kind
               /\ toks'[t].from = toks[t].from
               /\ toks[t].used => toks'[t].used
               /\ toks[t].revoked => toks'[t].revoked
    <3>1. CASE toks[t].inst = i /\ toks[t].kind = kind
      BY <1>1, <1>2, <1>3, <3>1
    <3>2. CASE ~(toks[t].inst = i /\ toks[t].kind = kind)
      BY <1>3, <3>2
    <3> QED BY <3>1, <3>2
  <2> QED BY <2>1 DEF Grows
<1>6. KindDead(i, kind)'
  BY <1>1, <1>2, <1>3 DEF KindDead
<1>7. \A t \in TokenId : toks[t] = NoRow => toks'[t] = NoRow
  BY <1>3, RowFacts
<1> QED BY <1>4, <1>5, <1>6, <1>7

LEMMA SweepInv ==
  ASSUME InstInv, NEW w \in Worker, RevokeIngestTokens(w) \/ RevokeEnrollmentTokens(w)
  PROVE  InstInv'
<1>t. TypeOK /\ TableInv /\ HeldBy(w) /\ SweptBy(w)
  BY DEF InstInv, RequestInv
<1>1. PICK i \in Installation : i = req[w].inst
  BY <1>t DEF RevokeIngestTokens, RevokeEnrollmentTokens, TypeOK
<1>2. PICK kind \in {"enrollment", "ingest"}, pc \in {"mintIngest", "revokeEnrollment", "markRevoked"} :
        /\ RevokeActiveTokensByKind(i, kind) /\ GoOn(w, pc)
        /\ UNCHANGED <<now, status, seen, settled>>
        /\ req[w].op = IF pc = "mintIngest" THEN "rotate" ELSE "revoke"
        /\ IF pc = "markRevoked" THEN kind = "enrollment" /\ req[w].pc = "revokeEnrollment"
                                 ELSE kind = "ingest"
        /\ req[w].pc # "idle"
  BY <1>1, <1>t DEF RevokeIngestTokens, RevokeEnrollmentTokens, HeldBy, SweepOps
<1>3. /\ toks' \in [TokenId -> Row \cup {NoRow}] /\ Grows /\ KindDead(i, kind)'
      /\ \A t \in TokenId : toks[t] = NoRow => toks'[t] = NoRow
  BY <1>t, <1>2, SweepFacts
<1>4. PICK r \in Request : /\ req' = [req EXCEPT ![w] = r] /\ r.pc = pc /\ r.op = req[w].op
                           /\ r.inst = i /\ r.tok = req[w].tok
                           /\ r.overlap = req[w].overlap
  BY <1>t, <1>1, <1>2, GoOnFacts
<1>5. /\ req'[w] = r
      /\ \A x \in Worker \ {w} : req'[x] = req[x]
  BY <1>4, <1>t DEF TypeOK
<1>6. HeldBy(w)'
  <2>1. /\ req'[w].pc = pc /\ req'[w].op = IF pc = "mintIngest" THEN "rotate" ELSE "revoke"
        /\ req'[w].op = "rotate" => req'[w].tok = NoTok
    BY <1>2, <1>4, <1>5, <1>t DEF HeldBy
  <2> QED BY <2>1 DEF HeldBy, SweepOps
<1>7. SweptBy(w)'
  <2> SUFFICES ASSUME ~req[w].overlap
               PROVE  SweptBy(w)'
    BY <1>4, <1>5 DEF SweptBy
  <2>1. \A x \in Worker \ {w} : NotMinting(x, i)'
    BY <1>1, <1>2, <1>5, <1>t DEF SweptBy, NotMinting, SweepOps
  <2>2. KindDead(i, "ingest")'
    <3>1. CASE kind = "ingest"
      BY <3>1, <1>3
    <3>2. CASE pc = "markRevoked"
      <4>1. KindDead(i, "ingest")
        BY <3>2, <1>1, <1>2, <1>t DEF SweptBy, SweepOps
      <4> QED BY <4>1, <1>3, <1>t, DeadKept
    <3> QED BY <1>2, <3>1, <3>2
  <2>3. pc = "markRevoked" => KindDead(i, "enrollment")'
    BY <1>2, <1>3
  <2> QED BY <2>1, <2>2, <2>3, <1>4, <1>5 DEF SweptBy, NotMinting, KindDead
<1>8. TypeOK'
  BY <1>t, <1>1, <1>2, <1>3, <1>4, TypeStep DEF TypeOK
<1>9. TableInv'
  BY <1>t, <1>2, <1>3, TableKept
<1> QED BY <1>1, <1>2, <1>3, <1>4, <1>6, <1>7, <1>8, <1>9, MoveStep

LEMMA MarkRevokedInv ==
  ASSUME InstInv, NEW w \in Worker, MarkRevoked(w)
  PROVE  InstInv'
<1>t. TypeOK /\ TableInv /\ HeldBy(w) /\ SweptBy(w)
  BY DEF InstInv, RequestInv
<1>1. PICK i \in Installation : i = req[w].inst
  BY <1>t DEF MarkRevoked, TypeOK
<1>2. /\ req[w].op = "revoke" /\ req[w].pc = "markRevoked" /\ Done(w)
      /\ status' = [status EXCEPT ![i] = "revoked"] /\ UNCHANGED <<now, seen, toks>>
      /\ settled' = IF req[w].overlap THEN settled ELSE settled \cup {i}
  BY <1>1, <1>t DEF MarkRevoked, HeldBy
<1>3. /\ status' \in [Installation -> {"absent", "pending", "active", "revoked"}]
      /\ status'[i] = "revoked" /\ \A j \in Installation \ {i} : status'[j] = status[j]
  BY <1>2, <1>t DEF TypeOK
<1>4. Grows
  BY <1>2, <1>3 DEF Grows
<1>5. TableInv'
  BY <1>2, <1>3, <1>4, <1>t, TableKept
<1>6. /\ Idle \in Request /\ Idle.pc = "idle" /\ Idle.op = "none"
      /\ req' = [req EXCEPT ![w] = Idle] /\ HeldBy(w)' /\ SweptBy(w)'
  BY <1>t, <1>2, DoneFacts
<1>7. TypeOK'
  <2>1. settled' \subseteq Installation
    BY <1>2, <1>t DEF TypeOK
  <2> QED BY <2>1, <1>t, <1>2, <1>3, <1>4, <1>6, TypeStep DEF TypeOK
<1>8. \A j \in settled' : j \in settled \/ SettledAt(j)'
  <2> SUFFICES ASSUME ~req[w].overlap
               PROVE  SettledAt(i)'
    BY <1>2
  <2>1. /\ \A x \in Worker \ {w} : NotMinting(x, i)
        /\ KindDead(i, "ingest") /\ KindDead(i, "enrollment")
    BY <1>1, <1>2, <1>t DEF SweptBy, SweepOps
  <2>2. \A t \in TokenId : toks'[t].inst = i => toks'[t].revoked
    BY <2>1, <1>2, <1>t, RowFacts DEF KindDead, Row
  <2>3. \A x \in Worker : NotMinting(x, i)'
    BY <2>1, <1>6, <1>t DEF NotMinting, MintOps, TypeOK
  <2> QED BY <2>2, <2>3, <1>3 DEF SettledAt
<1> QED BY <1>1, <1>2, <1>3, <1>4, <1>5, <1>6, <1>7, <1>8, MoveStep

LEMMA LastSeenInv ==
  ASSUME InstInv, NEW w \in Worker, UpdateInstallationLastSeen(w)
  PROVE  InstInv'
<1>t. TypeOK /\ TableInv /\ HeldBy(w)
  BY DEF InstInv, RequestInv
<1>1. /\ req[w].op = "ingest" /\ req[w].pc = "lastSeen" /\ Done(w)
      /\ seen' = seen \cup {req[w].inst} /\ UNCHANGED <<now, status, toks, settled>>
  BY <1>t DEF UpdateInstallationLastSeen, HeldBy
<1>2. Grows
  BY <1>1 DEF Grows
<1>3. /\ Idle \in Request /\ Idle.pc = "idle" /\ Idle.op = "none"
      /\ req' = [req EXCEPT ![w] = Idle] /\ HeldBy(w)' /\ SweptBy(w)'
  BY <1>t, <1>1, DoneFacts
<1>4. TypeOK'
  <2>1. \E t \in TokenId : toks[t].used /\ toks[t].kind = "ingest" /\ toks[t].inst = req[w].inst
    BY <1>1, <1>t DEF HeldBy
  <2>2. req' \in [Worker -> Request]
    BY <1>3, <1>t DEF TypeOK
  <2>3. \A x \in Worker : req'[x].pc # "idle" => req'[x] = req[x]
    BY <1>3, <1>t DEF TypeOK
  <2> QED BY <2>1, <2>2, <2>3, <1>1, <1>t DEF TypeOK
<1>5. TableInv'
  BY <1>1, <1>t DEF TableInv, TradedTokensAreSpent, ActiveWasEnrolled
<1> QED BY <1>1, <1>2, <1>3, <1>4, <1>5, MoveStep

LEMMA FailInv ==
  ASSUME InstInv, NEW w \in Worker, Fail(w)
  PROVE  InstInv'
<1>t. TypeOK /\ TableInv
  BY DEF InstInv
<1>1. Done(w) /\ UNCHANGED <<now, status, seen, toks, settled>>
  BY DEF Fail
<1>2. Grows
  BY <1>1 DEF Grows
<1>3. /\ Idle \in Request /\ Idle.pc = "idle" /\ Idle.op = "none"
      /\ req' = [req EXCEPT ![w] = Idle] /\ HeldBy(w)' /\ SweptBy(w)'
  BY <1>t, <1>1, DoneFacts
<1>4. TypeOK'
  BY <1>t, <1>1, <1>2, <1>3, TypeStep DEF TypeOK
<1>5. TableInv'
  BY <1>1, <1>t DEF TableInv, TradedTokensAreSpent, ActiveWasEnrolled
<1> QED BY <1>1, <1>2, <1>3, <1>4, <1>5, MoveStep

LEMMA NextInv == InstInv /\ [Next]_vars => InstInv'
<1> SUFFICES ASSUME InstInv, [Next]_vars
             PROVE  InstInv'
  OBVIOUS
<1>1. CASE Tick \/ UNCHANGED vars
  <2>1. now' \in Nat /\ UNCHANGED <<status, seen, toks, req, settled>>
    BY <1>1 DEF Tick, vars, InstInv, TypeOK
  <2>2. TypeOK'
    BY <2>1 DEF InstInv, TypeOK
  <2>3. TableInv' /\ SettledInv'
    BY <2>1 DEF InstInv, TableInv, TradedTokensAreSpent, ActiveWasEnrolled, SettledInv, SettledAt, NotMinting
  <2>4. RequestInv'
    BY <2>1 DEF InstInv, RequestInv, HeldBy, SweptBy, NotMinting, KindDead
  <2> QED BY <2>2, <2>3, <2>4 DEF InstInv
<1>2. ASSUME NEW w \in Worker, NEW i \in Installation,
             CreateInstallation(w, i) \/ RotateIngestToken(w, i) \/ RevokeInstallation(w, i)
      PROVE  InstInv'
  BY <1>2, CreateInv, SweepStartInv
<1>3. ASSUME NEW w \in Worker, NEW t \in TokenId, Enroll(w, t) \/ ResolveIngestToken(w, t)
      PROVE  InstInv'
  BY <1>3, EnrollInv
<1>4. ASSUME NEW w \in Worker, Progress(w) \/ Fail(w)
      PROVE  InstInv'
  BY <1>4, MintEnrollmentInv, MarkInv, MintIngestInv, ActivateInv, SweepInv, MarkRevokedInv,
     LastSeenInv, FailInv DEF Progress
<1> QED BY <1>1, <1>2, <1>3, <1>4 DEF Next

LEMMA Invariant == Spec => []InstInv
BY InitInv, NextInv, PTL DEF Spec

-----------------------------------------------------------------------------
(* The tables and requests of RuntimeInstallations have the shapes TypeOK gives, *)
(* and an installation that was seen has presented an ingest token.              *)
THEOREM InstallationTypeCorrect == Spec => []TypeOK
<1>1. InstInv => TypeOK
  BY DEF InstInv
<1> QED BY <1>1, Invariant, PTL

(* A revocation no enrollment, creation or rotation overlapped is lasting:  *)
(* the installation stays revoked, every token of it dead, until a rotation *)
(* (service.RevokeInstallation against Enroll and RotateIngestToken).       *)
THEOREM RevocationSettles == Spec => []SettledStaysRevoked
<1>1. InstInv => SettledStaysRevoked
  BY DEF InstInv, TypeOK, SettledInv, SettledAt, SettledStaysRevoked
<1> QED BY <1>1, Invariant, PTL

(* An enrollment token is used and revoked before the ingest token it buys *)
(* exists, wherever Enroll is cut short.                                   *)
THEOREM TradesSpend == Spec => []TradedTokensAreSpent
<1>1. InstInv => TradedTokensAreSpent
  BY DEF InstInv, TableInv
<1> QED BY <1>1, Invariant, PTL

(* An active installation has been given an ingest token by an enrollment. *)
THEOREM ActiveImpliesEnrolled == Spec => []ActiveWasEnrolled
<1>1. InstInv => ActiveWasEnrolled
  BY DEF InstInv, TableInv
<1> QED BY <1>1, Invariant, PTL

(* RotateIngestToken, when no other minting request overlaps it, leaves its *)
(* own ingest token as the only one alive.                                  *)
THEOREM RotationIsExclusive == Spec => RotationLeavesOneToken
<1> DEFINE A(w) ==
      /\ req[w].pc = "mintIngest" /\ req[w].op = "rotate" /\ ~req[w].overlap
      /\ toks' # toks /\ req'[w].pc = "idle"
      => Cardinality({t \in TokenId : toks'[t].inst = req[w].inst /\ toks'[t].kind = "ingest"
                                        /\ ~toks'[t].revoked}) = 1
<1>1. ASSUME InstInv, [Next]_vars, NEW w \in Worker
      PROVE  A(w)
  <2> SUFFICES ASSUME req[w].pc = "mintIngest", req[w].op = "rotate", ~req[w].overlap,
                      toks' # toks, req'[w].pc = "idle"
               PROVE  Cardinality({t \in TokenId : toks'[t].inst = req[w].inst
                                     /\ toks'[t].kind = "ingest" /\ ~toks'[t].revoked}) = 1
    OBVIOUS
  <2>t. TypeOK /\ SweptBy(w) /\ req[w].inst \in Installation /\ req[w].tok \in TokenId \cup {NoTok}
    BY <1>1 DEF InstInv, RequestInv, TypeOK, Request
  <2>1. PICK t \in TokenId : CreateToken(t, req[w].inst, "ingest", 0, req[w].tok)
    <3>1. ASSUME NEW x \in Worker, NEW pc, NEW op, NEW i, NEW k, Start(x, pc, op, i, k)
          PROVE  FALSE
      BY <3>1, <2>t DEF Start, TypeOK, Request
    <3>2. ASSUME NEW x \in Worker, Progress(x), x # w
          PROVE  req'[w] = req[w]
      BY <3>2, <2>t DEF Progress, MintEnrollment, MarkTokenUsed, ConsumeEnrollment, MintIngest, Activate,
         RevokeIngestTokens, RevokeEnrollmentTokens, MarkRevoked, UpdateInstallationLastSeen,
         GoOn, Done, TypeOK
    <3>3. PICK x \in Worker : Progress(x)
      BY <1>1, <3>1 DEF Next, vars, Tick, Fail, CreateInstallation, RotateIngestToken,
         RevokeInstallation, Enroll, ResolveIngestToken
    <3>4. MintIngest(w)
      BY <3>2, <3>3 DEF Progress, MintEnrollment, MarkTokenUsed, ConsumeEnrollment, Activate,
         RevokeIngestTokens, RevokeEnrollmentTokens, MarkRevoked, UpdateInstallationLastSeen
    <3> QED BY <3>4 DEF MintIngest
  <2>2. /\ toks'[t].inst = req[w].inst /\ toks'[t].kind = "ingest" /\ ~toks'[t].revoked
        /\ \A x \in TokenId \ {t} : toks'[x] = toks[x]
    BY <2>1, <2>t DEF CreateToken, TypeOK
  <2>3. KindDead(req[w].inst, "ingest")
    BY <2>t DEF SweptBy, SweepOps
  <2>4. {x \in TokenId : toks'[x].inst = req[w].inst /\ toks'[x].kind = "ingest"
                          /\ ~toks'[x].revoked} = {t}
    BY <2>2, <2>3 DEF KindDead
  <2> QED BY <2>4, FS_Singleton
<1>2. ASSUME InstInv, [Next]_vars
      PROVE  [\A w \in Worker : A(w)]_vars
  BY <1>1, <1>2
<1> QED BY <1>2, Invariant, PTL DEF Spec, RotationLeavesOneToken

-----------------------------------------------------------------------------
(* The ingest tokens that enrollment token e bought, and the requests on    *)
(* their way to one.  A request begins only while e is not revoked, which   *)
(* it is before it has bought anything.                                     *)
Traded(e) == {t \in TokenId : toks[t].from = e}
Trading(e) ==
  {w \in Worker : req[w].op = "enroll" /\ req[w].tok = e
                    /\ req[w].pc \in {"markUsed", "consume", "mintIngest"}}

TradesOf(e) == Cardinality(Traded(e)) + Cardinality(Trading(e)) <= Cardinality(Worker)

LEMMA TradeSets ==
  ASSUME NEW T, NEW P, T \subseteq TokenId, P \subseteq Worker
  PROVE  /\ IsFiniteSet(T) /\ Cardinality(T) \in Nat
         /\ IsFiniteSet(P) /\ Cardinality(P) \in Nat /\ Cardinality(P) <= Cardinality(Worker)
         /\ Cardinality(Worker) \in Nat
BY InstallationsAssumption, FS_Subset, FS_CardinalityType

(* Nothing is bought, and nobody begins to buy. *)
LEMMA TradesKept ==
  ASSUME NEW e \in TokenId, TradesOf(e), Traded(e)' = Traded(e), Trading(e)' \subseteq Trading(e)
  PROVE  TradesOf(e)'
<1>1. Traded(e) \subseteq TokenId /\ Trading(e) \subseteq Worker /\ Trading(e)' \subseteq Worker
  BY DEF Traded, Trading
<1>2. Cardinality(Trading(e)') <= Cardinality(Trading(e))
  BY <1>1, TradeSets, FS_Subset
<1>3. /\ Cardinality(Traded(e)) \in Nat /\ Cardinality(Trading(e)) \in Nat
      /\ Cardinality(Trading(e)') \in Nat /\ Cardinality(Worker) \in Nat
  BY <1>1, TradeSets
<1> QED BY <1>2, <1>3 DEF TradesOf

(* A request begins. *)
LEMMA TradesStart ==
  ASSUME InstInv, NEW e \in TokenId, TradesOf(e), NEW w \in Worker, NEW pc, NEW op, NEW i, NEW t,
         Start(w, pc, op, i, t), UNCHANGED toks, op = "enroll" /\ t = e => ~toks[e].revoked
  PROVE  TradesOf(e)'
<1>1. /\ req'[w].op = op /\ req'[w].tok = t /\ req'[w].pc = pc
      /\ \A x \in Worker \ {w} :
           req'[x].op = req[x].op /\ req'[x].tok = req[x].tok /\ req'[x].pc = req[x].pc
  <2>1. \A x \in Worker : req[x] \in Request
    BY DEF InstInv, TypeOK
  <2> QED BY <2>1 DEF Start, Request
<1>2. Traded(e)' = Traded(e)
  BY DEF Traded
<1>3. CASE op = "enroll" /\ t = e
  <2>1. Traded(e) = {}
    BY <1>3, InstallationsAssumption DEF InstInv, TableInv, TradedTokensAreSpent, Traded
  <2>2. Trading(e)' \subseteq Worker
    BY DEF Trading
  <2>3. /\ Cardinality(Trading(e)') <= Cardinality(Worker) /\ Cardinality(Trading(e)') \in Nat
        /\ Cardinality(Traded(e)') = 0
    BY <1>2, <2>1, <2>2, TradeSets, FS_EmptySet
  <2> QED BY <2>3, TradeSets DEF TradesOf
<1>4. CASE ~(op = "enroll" /\ t = e)
  <2>1. Trading(e)' \subseteq Trading(e)
    BY <1>1, <1>4 DEF Trading
  <2> QED BY <1>2, <2>1, TradesKept
<1> QED BY <1>3, <1>4

(* A request goes on, or ends, without a new token. *)
LEMMA TradesGoOn ==
  ASSUME InstInv, NEW e \in TokenId, TradesOf(e), NEW w \in Worker,
         Done(w) \/ (req[w].pc \in {"markUsed", "consume", "mintIngest"} /\ \E pc : GoOn(w, pc))
                 \/ GoOn(w, "revokeEnrollment") \/ GoOn(w, "markRevoked")
                 \/ (req[w].op # "enroll" /\ \E pc : GoOn(w, pc)),
         \A t \in TokenId : toks'[t].from = toks[t].from
  PROVE  TradesOf(e)'
<1>1. req \in [Worker -> Request]
  BY DEF InstInv, TypeOK
<1>2. \A x \in Worker \ {w} : req'[x] = req[x]
  BY <1>1 DEF Done, GoOn
<1>3. w \in Trading(e)' => w \in Trading(e)
  <2>1. CASE Done(w)
    BY <1>1, <2>1 DEF Done, Idle, Trading
  <2>2. ASSUME NEW pc, GoOn(w, pc)
        PROVE  req'[w].op = req[w].op /\ req'[w].tok = req[w].tok /\ req'[w].pc = pc
    <3>1. req'[w] = [req[w] EXCEPT !.pc = pc]
      BY <1>1, <2>2 DEF GoOn
    <3> QED BY <1>1, <3>1 DEF Request
  <2> QED BY <2>1, <2>2 DEF Trading
<1>4. Trading(e)' \subseteq Trading(e)
  BY <1>2, <1>3 DEF Trading
<1>5. Traded(e)' = Traded(e)
  BY DEF Traded
<1> QED BY <1>4, <1>5, TradesKept

LEMMA TradesMint ==
  ASSUME InstInv, NEW e \in TokenId, TradesOf(e), NEW w \in Worker, MintIngest(w)
  PROVE  TradesOf(e)'
<1>1. /\ req[w].pc = "mintIngest" /\ req[w].op \in {"enroll", "rotate"}
      /\ req[w].op = "rotate" => req[w].tok = NoTok
      /\ req \in [Worker -> Request] /\ toks \in [TokenId -> Row \cup {NoRow}]
  BY DEF InstInv, TypeOK, RequestInv, HeldBy, MintIngest
<1>2. PICK t \in TokenId : CreateToken(t, req[w].inst, "ingest", 0, req[w].tok)
  BY DEF MintIngest
<1>3. /\ toks[t] = NoRow /\ toks'[t].from = req[w].tok
      /\ \A x \in TokenId \ {t} : toks'[x] = toks[x]
  BY <1>1, <1>2 DEF CreateToken
<1>4. t \notin Traded(e)
  BY <1>3, InstallationsAssumption DEF Traded, NoRow
<1>5. (\A x \in Worker \ {w} : req'[x] = req[x]) /\ req'[w].pc \in {"activate", "idle"}
  <2>1. Done(w) \/ GoOn(w, "activate")
    BY DEF MintIngest
  <2>2. CASE Done(w)
    BY <1>1, <2>2 DEF Done, Idle
  <2>3. CASE GoOn(w, "activate")
    <3>1. req'[w] = [req[w] EXCEPT !.pc = "activate"] /\ \A x \in Worker \ {w} : req'[x] = req[x]
      BY <1>1, <2>3 DEF GoOn
    <3> QED BY <1>1, <3>1 DEF Request
  <2> QED BY <2>1, <2>2, <2>3
<1>6. CASE req[w].tok # e
  <2>1. Traded(e)' = Traded(e)
    BY <1>3, <1>4, <1>6 DEF Traded
  <2>2. Trading(e)' \subseteq Trading(e)
    BY <1>5 DEF Trading
  <2> QED BY <2>1, <2>2, TradesKept
<1>7. CASE req[w].tok = e
  <2>1. Traded(e)' = Traded(e) \cup {t}
    BY <1>3, <1>7 DEF Traded
  <2>2. w \in Trading(e)
    BY <1>1, <1>7, InstallationsAssumption DEF Trading
  <2>3. Trading(e)' \subseteq Trading(e) \ {w}
    BY <1>5 DEF Trading
  <2>4. Traded(e) \subseteq TokenId /\ Trading(e) \subseteq Worker
    BY DEF Traded, Trading
  <2>5. /\ IsFiniteSet(Traded(e)) /\ Cardinality(Traded(e)) \in Nat
        /\ IsFiniteSet(Trading(e)) /\ Cardinality(Trading(e)) \in Nat /\ Cardinality(Worker) \in Nat
    BY <2>4, TradeSets
  <2>6. Cardinality(Traded(e)') = Cardinality(Traded(e)) + 1
    BY <1>4, <2>1, <2>5, FS_AddElement
  <2>7. IsFiniteSet(Trading(e) \ {w}) /\ Cardinality(Trading(e) \ {w}) = Cardinality(Trading(e)) - 1
    BY <2>2, <2>5, FS_RemoveElement
  <2>8. Cardinality(Trading(e)') <= Cardinality(Trading(e)) - 1 /\ Cardinality(Trading(e)') \in Nat
    BY <2>3, <2>7, FS_Subset, FS_CardinalityType
  <2> QED BY <2>5, <2>6, <2>8 DEF TradesOf
<1> QED BY <1>6, <1>7

(* Noting a use and revoking leave a row its history. *)
LEMMA FromKept ==
  ASSUME NEW a \in Row \cup {NoRow}, NEW b,
         b = a \/ b = [a EXCEPT !.used = TRUE] \/ b = [a EXCEPT !.revoked = TRUE]
  PROVE  b.from = a.from
<1>1. CASE b = a
  BY <1>1
<1>2. CASE b = [a EXCEPT !.used = TRUE]
  <2>1. CASE a \in Row
    BY <1>2, <2>1 DEF Row
  <2>2. CASE a = NoRow
    BY <1>2, <2>2 DEF NoRow
  <2> QED BY <2>1, <2>2
<1>3. CASE b = [a EXCEPT !.revoked = TRUE]
  <2>1. CASE a \in Row
    BY <1>3, <2>1 DEF Row
  <2>2. CASE a = NoRow
    BY <1>3, <2>2 DEF NoRow
  <2> QED BY <2>1, <2>2
<1> QED BY <1>1, <1>2, <1>3

LEMMA TradesNext ==
  ASSUME InstInv, [Next]_vars, NEW e \in TokenId, TradesOf(e)
  PROVE  TradesOf(e)'
<1>s. /\ toks \in [TokenId -> Row \cup {NoRow}] /\ req \in [Worker -> Request]
      /\ \A t \in TokenId : toks[t] = NoRow => toks[t].from = NoTok
      /\ \A w \in Worker : HeldBy(w)
  BY DEF InstInv, TypeOK, NoRow, RequestInv
<1>1. CASE Tick \/ UNCHANGED vars
  BY <1>1, TradesKept DEF Tick, vars, Traded, Trading
<1>2. ASSUME NEW w \in Worker, NEW i \in Installation,
             CreateInstallation(w, i) \/ RotateIngestToken(w, i) \/ RevokeInstallation(w, i)
      PROVE  TradesOf(e)'
  BY <1>2, TradesStart DEF CreateInstallation, RotateIngestToken, RevokeInstallation
<1>3. ASSUME NEW w \in Worker, NEW t \in TokenId, Enroll(w, t) \/ ResolveIngestToken(w, t)
      PROVE  TradesOf(e)'
  BY <1>3, TradesStart DEF Enroll, ResolveIngestToken, Active
<1>4. ASSUME NEW w \in Worker, MintEnrollment(w)
      PROVE  TradesOf(e)'
  <2>1. PICK t \in TokenId :
          CreateToken(t, req[w].inst, "enrollment", req[w].start + EnrollTTL, NoTok)
    BY <1>4 DEF MintEnrollment
  <2>2. \A x \in TokenId : toks'[x].from = toks[x].from
    BY <1>s, <2>1 DEF CreateToken
  <2> QED BY <1>4, <2>2, TradesGoOn DEF MintEnrollment
<1>5. ASSUME NEW w \in Worker, MarkTokenUsed(w) \/ ConsumeEnrollment(w)
      PROVE  TradesOf(e)'
  <2>1. \A t \in TokenId : toks'[t] = toks[t] \/ toks'[t] = [toks[t] EXCEPT !.used = TRUE]
                           \/ toks'[t] = [toks[t] EXCEPT !.revoked = TRUE]
    BY <1>5, <1>s DEF MarkTokenUsed, ConsumeEnrollment
  <2>2. \A t \in TokenId : toks'[t].from = toks[t].from
    BY <1>s, <2>1, FromKept
  <2>3. req[w].pc \in {"markUsed", "consume"} /\ \E pc : GoOn(w, pc)
    BY <1>5 DEF MarkTokenUsed, ConsumeEnrollment
  <2> QED BY <2>2, <2>3, TradesGoOn
<1>6. ASSUME NEW w \in Worker, RevokeIngestTokens(w) \/ RevokeEnrollmentTokens(w)
      PROVE  TradesOf(e)'
  <2>1. \A t \in TokenId : toks'[t] = toks[t] \/ toks'[t] = [toks[t] EXCEPT !.revoked = TRUE]
    BY <1>6 DEF RevokeIngestTokens, RevokeEnrollmentTokens, RevokeActiveTokensByKind
  <2>2. \A t \in TokenId : toks'[t].from = toks[t].from
    BY <1>s, <2>1, FromKept
  <2>3. req[w].op # "enroll" /\ \E pc : GoOn(w, pc)
    BY <1>6, <1>s DEF RevokeIngestTokens, RevokeEnrollmentTokens, HeldBy, SweepOps
  <2> QED BY <2>2, <2>3, TradesGoOn
<1>7. ASSUME NEW w \in Worker,
             Activate(w) \/ MarkRevoked(w) \/ UpdateInstallationLastSeen(w) \/ Fail(w)
      PROVE  TradesOf(e)'
  BY <1>7, TradesGoOn DEF Activate, MarkRevoked, UpdateInstallationLastSeen, Fail
<1> QED BY <1>1, <1>2, <1>3, <1>4, <1>5, <1>6, <1>7, TradesMint DEF Next, Progress

TradesInv == InstInv /\ \A e \in TokenId : TradesOf(e)

LEMMA AlwaysTrades == Spec => []TradesInv
<1>1. Init => TradesInv
  <2> SUFFICES ASSUME Init, NEW e \in TokenId
               PROVE  TradesOf(e)
    BY InitInv DEF TradesInv
  <2>1. Traded(e) = {} /\ Trading(e) = {}
    BY InstallationsAssumption DEF Init, Traded, Trading, NoRow, Idle
  <2> QED BY <2>1, FS_EmptySet, TradeSets DEF TradesOf
<1>2. TradesInv /\ [Next]_vars => TradesInv'
  BY NextInv, TradesNext DEF TradesInv
<1> QED BY <1>1, <1>2, PTL DEF Spec

(* An enrollment token buys no more ingest tokens than there are requests   *)
(* at a time, wherever they interleave between look-up and revocation.      *)
THEOREM TradesAreBounded == Spec => []TradesBounded
<1>1. TradesInv => TradesBounded
  <2> SUFFICES ASSUME TradesInv, NEW e \in TokenId
               PROVE  Cardinality(Traded(e)) <= Cardinality(Worker)
    BY DEF TradesBounded, Traded
  <2>1. Traded(e) \subseteq TokenId /\ Trading(e) \subseteq Worker
    BY DEF Traded, Trading
  <2>2. /\ Cardinality(Traded(e)) \in Nat /\ Cardinality(Trading(e)) \in Nat
        /\ Cardinality(Worker) \in Nat
    BY <2>1, TradeSets
  <2> QED BY <2>2 DEF TradesInv, TradesOf
<1> QED BY <1>1, AlwaysTrades, PTL

-----------------------------------------------------------------------------
(* Reports.  Every step of RuntimeIngest is one of RuntimeInstallations for *)
(* the variables of that, so what was proved above holds of both.           *)
LEMMA IngestSteps == [IngestNext]_allVars => [Next]_vars
<1> SUFFICES ASSUME [IngestNext]_allVars
             PROVE  [Next]_vars
  OBVIOUS
<1>1. CASE UNCHANGED allVars
  BY <1>1 DEF allVars
<1>2. ASSUME NEW w \in Worker, Administer(w)
      PROVE  [Next]_vars
  BY <1>2 DEF Administer, Next
<1>3. ASSUME NEW w \in Worker, NEW p \in Payload, TokenReport(w, p[1], p[2])
      PROVE  [Next]_vars
  BY <1>3 DEF TokenReport, Next, Progress
<1>4. ASSUME NEW w \in Worker, NEW p \in Payload, NEW c \in Claims,
             SecretReport(w, c, p[1], p[2])
      PROVE  [Next]_vars
  BY <1>4 DEF SecretReport
<1>5. ASSUME NEW w \in Worker, WriteTunnel(w) \/ WriteEvent(w) \/ Accept(w) \/ WriteFails(w)
      PROVE  [Next]_vars
  BY <1>5 DEF WriteTunnel, WriteEvent, Accept, WriteFails, End, vars
<1> QED BY <1>1, <1>2, <1>3, <1>4, <1>5 DEF IngestNext

(* RuntimeIngest implements RuntimeInstallations: with reports written       *)
(* alongside, an installation goes through nothing it does not go through    *)
(* without them, so every theorem above holds of it.                         *)
THEOREM ReportsImplementInstallations == IngestSpec => Spec
<1>1. IngestInit => Init
  BY DEF IngestInit
<1>2. [IngestNext]_allVars => [Next]_vars
  BY IngestSteps
<1> QED BY <1>1, <1>2, PTL DEF IngestSpec, Spec

(* A row of reports that has begun, and the write of worker w. *)
Begun(n) == reports[n] \in SnapshotPayload
Writes(w) == rep[w] # NotWriting

IngestTypes ==
  /\ snapshots \in [Tunnel -> 0 .. MaxReports]
  /\ events \in [EventId -> 0 .. MaxReports]
  /\ account \in [Item -> Account \cup {Foreign, NoAccount}]
  /\ reports \in [ReportId -> SnapshotPayload \cup {NoReport}]
  /\ rep \in [Worker -> Writing \cup {NotWriting}]

(* A writer has no other request, and its report is open. *)
WriterInv ==
  \A w \in Worker : Writes(w) =>
    /\ req[w].pc = "idle" /\ rep[w].n \in ReportId
    /\ Begun(rep[w].n) /\ reports[rep[w].n].end = "open"

(* The accounts of a report are accounts. *)
LEMMA AccountsTyped ==
  ASSUME IngestTypes, NEW n \in ReportId, Begun(n), NEW x \in Item
  PROVE  AccountsFor(n, x) \subseteq Account \cup {Foreign, NoAccount}
<1>1. PICK r \in SnapshotPayload : r = reports[n]
  BY DEF Begun
<1>2. /\ r.inst \in Installation \cup {NoInst}
      /\ r.claims[x] \in Account \cup {Foreign, NoAccount}
  BY DEF SnapshotPayload
<1> QED BY <1>1, <1>2, IngestAssumption DEF AccountsFor, normalizeAccountID

LEMMA ReportFacts ==
  ASSUME IngestTypes
  PROVE  /\ \A n \in ReportId : Begun(n) <=> reports[n] # NoReport
         /\ \A n \in ReportId : ~Begun(n) => reports[n].end = "none"
         /\ \A n \in ReportId : Begun(n) => reports[n].tunnels \subseteq Tunnel
                                          /\ reports[n].events \subseteq EventId
         /\ \A w \in Worker : Writes(w) => rep[w] \in Writing
         /\ \A w \in Worker : ~Writes(w) => rep[w] = NotWriting
         /\ NotWriting.tunnels = {} /\ NotWriting.events = {} /\ NotWriting.n = 0
         /\ MaxReports \in Nat /\ \A n \in ReportId : n \in Nat /\ n # 0 /\ n \in 0 .. MaxReports
<1>1. \A n \in ReportId : Begun(n) <=> reports[n] # NoReport
  BY DEF IngestTypes, Begun, SnapshotPayload, NoReport
<1>2. \A n \in ReportId : ~Begun(n) => reports[n].end = "none"
  BY DEF IngestTypes, Begun, NoReport
<1>3. \A n \in ReportId : Begun(n) => reports[n].tunnels \subseteq Tunnel
                                    /\ reports[n].events \subseteq EventId
  BY DEF Begun, SnapshotPayload
<1>4. \A w \in Worker : (Writes(w) => rep[w] \in Writing) /\ (~Writes(w) => rep[w] = NotWriting)
  BY DEF IngestTypes, Writes
<1>5. NotWriting.tunnels = {} /\ NotWriting.events = {} /\ NotWriting.n = 0
  BY DEF NotWriting
<1>6. MaxReports \in Nat /\ \A n \in ReportId : n \in Nat /\ n # 0 /\ n \in 0 .. MaxReports
  BY IngestAssumption DEF ReportId
<1> QED BY <1>1, <1>2, <1>3, <1>4, <1>5, <1>6

(* What the step of a worker does to the reports: nothing, ... *)
StandsStill ==
  /\ UNCHANGED ingestVars
  /\ \A x \in Worker : Writes(x) => req'[x].pc = req[x].pc

(* ... begin one, ... *)
Begins(w, n) ==
  /\ ~Writes(w) /\ ~Begun(n)
  /\ reports' = [reports EXCEPT ![n] = reports'[n]]
  /\ reports'[n] \in SnapshotPayload /\ reports'[n].end = "open" /\ reports'[n].before = Over
  /\ rep' = [rep EXCEPT ![w] = rep'[w]]
  /\ rep'[w] \in Writing /\ rep'[w].n = n
  /\ rep'[w].tunnels = reports'[n].tunnels /\ rep'[w].events = reports'[n].events
  /\ reports'[n].inst # NoInst => reports'[n].inst = req[w].inst /\ req[w].op = "ingest"
  /\ \A x \in Worker : Writes(x) \/ x = w => req'[x].pc = "idle"
  /\ UNCHANGED <<snapshots, events, account>>

(* ... or write a row of it or end it, nothing else being changed. *)
Goes(w) ==
  /\ Writes(w) /\ UNCHANGED vars
  /\ WriteTunnel(w) \/ WriteEvent(w) \/ Accept(w) \/ WriteFails(w)

LEMMA OthersStand ==
  ASSUME TypeOK, NEW w \in Worker, Administer(w), NEW x \in Worker, x # w
  PROVE  /\ req'[x].pc = req[x].pc /\ req'[x].op = req[x].op /\ req'[x].inst = req[x].inst
<1>t. req \in [Worker -> Request]
  BY DEF TypeOK
<1>1. CASE \E pc, op, i, t : Start(w, pc, op, i, t)
  BY <1>1, <1>t DEF Start, Request
<1>2. CASE \E pc : GoOn(w, pc)
  BY <1>2, <1>t DEF GoOn
<1>3. CASE Done(w)
  BY <1>3, <1>t DEF Done
<1>4. ASSUME NEW i \in Installation,
             CreateInstallation(w, i) \/ RotateIngestToken(w, i) \/ RevokeInstallation(w, i)
      PROVE  \E pc, op, j, t : Start(w, pc, op, j, t)
  BY <1>4 DEF CreateInstallation, RotateIngestToken, RevokeInstallation
<1>5. ASSUME NEW t \in TokenId, Enroll(w, t) \/ ResolveIngestToken(w, t)
      PROVE  \E pc, op, i, u : Start(w, pc, op, i, u)
  BY <1>5 DEF Enroll, ResolveIngestToken
<1>6. ASSUME Progress(w) \/ Fail(w)
      PROVE  (\E pc : GoOn(w, pc)) \/ Done(w)
  BY <1>6 DEF Progress, MintEnrollment, MarkTokenUsed, ConsumeEnrollment, MintIngest, Activate,
              RevokeIngestTokens, RevokeEnrollmentTokens, MarkRevoked, UpdateInstallationLastSeen, Fail
<1> QED BY <1>1, <1>2, <1>3, <1>4, <1>5, <1>6 DEF Administer

LEMMA BeginFacts ==
  ASSUME IngestTypes, NEW w \in Worker, NEW i \in Installation \cup {NoInst},
         NEW c \in [Item -> Account \cup {Foreign, NoAccount}],
         NEW p \in Payload, Begin(w, i, c, p[1], p[2])
  PROVE  \E n \in ReportId :
           /\ ~Begun(n)
           /\ reports' = [reports EXCEPT ![n] = reports'[n]]
           /\ reports'[n] \in SnapshotPayload /\ reports'[n].end = "open"
           /\ reports'[n].before = Over /\ reports'[n].inst = i
           /\ rep' = [rep EXCEPT ![w] = rep'[w]]
           /\ rep'[w] \in Writing /\ rep'[w].n = n
           /\ rep'[w].tunnels = reports'[n].tunnels /\ rep'[w].events = reports'[n].events
           /\ UNCHANGED <<snapshots, events, account>>
<1>1. PICK n \in ReportId :
        /\ reports[n] = NoReport
        /\ reports' = [reports EXCEPT ![n] =
             [inst |-> i, claims |-> c, tunnels |-> p[1], events |-> p[2], end |-> "open",
              before |-> Over]]
        /\ rep' = [rep EXCEPT ![w] = [n |-> n, tunnels |-> p[1], events |-> p[2]]]
        /\ UNCHANGED <<snapshots, events, account>>
  BY DEF Begin
<1>2. p[1] \in SUBSET Tunnel /\ p[2] \in SUBSET EventId
  BY IngestAssumption
<1>3. Over \in SUBSET ReportId
  BY DEF Over
<1>4. reports'[n] = [inst |-> i, claims |-> c, tunnels |-> p[1], events |-> p[2], end |-> "open",
                     before |-> Over]
  BY <1>1 DEF IngestTypes
<1>5. rep'[w] = [n |-> n, tunnels |-> p[1], events |-> p[2]]
  BY <1>1 DEF IngestTypes
<1>6. reports'[n] \in SnapshotPayload
  BY <1>2, <1>3, <1>4 DEF SnapshotPayload
<1>7. rep'[w] \in Writing
  BY <1>2, <1>5 DEF Writing
<1>8. ~Begun(n)
  BY <1>1, ReportFacts
<1>9. /\ reports' = [reports EXCEPT ![n] = reports'[n]]
      /\ rep' = [rep EXCEPT ![w] = rep'[w]]
  BY <1>1, <1>4, <1>5
<1>10. /\ reports'[n].end = "open" /\ reports'[n].before = Over /\ reports'[n].inst = i
       /\ rep'[w].n = n /\ rep'[w].tunnels = reports'[n].tunnels
       /\ rep'[w].events = reports'[n].events
  BY <1>4, <1>5
<1> QED BY <1>1, <1>6, <1>7, <1>8, <1>9, <1>10

LEMMA IngestCases ==
  ASSUME InstInv, IngestTypes, WriterInv, [IngestNext]_allVars
  PROVE  StandsStill \/ \E w \in Worker : Goes(w) \/ \E n \in ReportId : Begins(w, n)
<1>t. TypeOK /\ req \in [Worker -> Request] /\ \A w \in Worker : HeldBy(w)
  BY DEF InstInv, TypeOK, RequestInv
<1>1. CASE UNCHANGED allVars
  BY <1>1 DEF allVars, vars, StandsStill
<1>2. ASSUME NEW w \in Worker, Administer(w)
      PROVE  StandsStill
  <2>1. ~Writes(w)
    BY <1>2 DEF Administer, Writes
  <2>2. \A x \in Worker : Writes(x) => req'[x].pc = req[x].pc
    BY <1>2, <1>t, <2>1, OthersStand
  <2> QED BY <1>2, <2>2 DEF StandsStill, Administer
<1>3. ASSUME NEW w \in Worker, NEW p \in Payload, TokenReport(w, p[1], p[2])
      PROVE  \E n \in ReportId : Begins(w, n)
  <2>1. UpdateInstallationLastSeen(w) /\ req[w].pc = "lastSeen"
    BY <1>3 DEF TokenReport, UpdateInstallationLastSeen
  <2>2. req[w].op = "ingest" /\ req[w].inst \in Installation
    BY <1>t, <2>1 DEF HeldBy, TypeOK
  <2>3. ~Writes(w)
    BY <2>1 DEF WriterInv
  <2>4. PICK i \in Installation : i = req[w].inst
    BY <2>2
  <2>5. NoClaims \in [Item -> Account \cup {Foreign, NoAccount}]
    BY DEF NoClaims
  <2>6. Begin(w, i, NoClaims, p[1], p[2])
    BY <1>3, <2>4 DEF TokenReport
  <2>7. PICK n \in ReportId :
           /\ ~Begun(n)
           /\ reports' = [reports EXCEPT ![n] = reports'[n]]
           /\ reports'[n] \in SnapshotPayload /\ reports'[n].end = "open"
           /\ reports'[n].before = Over /\ reports'[n].inst = i
           /\ rep' = [rep EXCEPT ![w] = rep'[w]]
           /\ rep'[w] \in Writing /\ rep'[w].n = n
           /\ rep'[w].tunnels = reports'[n].tunnels /\ rep'[w].events = reports'[n].events
           /\ UNCHANGED <<snapshots, events, account>>
    BY <2>5, <2>6, BeginFacts
  <2>8. \A x \in Worker : Writes(x) \/ x = w => req'[x].pc = "idle"
    BY <1>t, <2>1, <2>4 DEF UpdateInstallationLastSeen, Done, Idle, WriterInv
  <2> QED BY <2>2, <2>3, <2>4, <2>7, <2>8 DEF Begins
<1>4. ASSUME NEW w \in Worker, NEW p \in Payload, NEW c \in Claims,
             SecretReport(w, c, p[1], p[2])
      PROVE  \E n \in ReportId : Begins(w, n)
  <2>1. /\ Begin(w, NoInst, c, p[1], p[2])
        /\ req[w].pc = "idle" /\ ~Writes(w) /\ UNCHANGED vars
    BY <1>4 DEF SecretReport, Writes
  <2>2. c \in [Item -> Account \cup {Foreign, NoAccount}]
    BY IngestAssumption
  <2>3. PICK n \in ReportId :
           /\ ~Begun(n)
           /\ reports' = [reports EXCEPT ![n] = reports'[n]]
           /\ reports'[n] \in SnapshotPayload /\ reports'[n].end = "open"
           /\ reports'[n].before = Over /\ reports'[n].inst = NoInst
           /\ rep' = [rep EXCEPT ![w] = rep'[w]]
           /\ rep'[w] \in Writing /\ rep'[w].n = n
           /\ rep'[w].tunnels = reports'[n].tunnels /\ rep'[w].events = reports'[n].events
           /\ UNCHANGED <<snapshots, events, account>>
    BY <2>1, <2>2, BeginFacts
  <2>4. \A x \in Worker : Writes(x) \/ x = w => req'[x].pc = "idle"
    BY <2>1 DEF WriterInv, vars
  <2> QED BY <2>1, <2>3, <2>4 DEF Begins
<1>5. ASSUME NEW w \in Worker, WriteTunnel(w) \/ WriteEvent(w) \/ Accept(w) \/ WriteFails(w)
      PROVE  Goes(w)
  <2>1. Writes(w)
    BY <1>5, ReportFacts DEF WriteTunnel, WriteEvent, Accept, WriteFails, End, Writes
  <2> QED BY <1>5, <2>1 DEF Goes, WriteTunnel, WriteEvent, Accept, WriteFails, End
<1> QED BY <1>1, <1>2, <1>3, <1>4, <1>5 DEF IngestNext

(* Two workers write two reports. *)
WritersApart ==
  \A w, x \in Worker : Writes(w) /\ Writes(x) /\ rep[w].n = rep[x].n => w = x

IngestInv == InstInv /\ IngestTypes /\ WriterInv /\ WritersApart

(* The three ways in which a report goes on. *)
TunnelWritten(w, x) ==
  /\ x \in rep[w].tunnels
  /\ snapshots' = [snapshots EXCEPT ![x] = rep[w].n]
  /\ \E a \in AccountsFor(rep[w].n, x) : account' = [account EXCEPT ![x] = a]
  /\ rep' = [rep EXCEPT ![w] = rep'[w]]
  /\ rep'[w] \in Writing /\ rep'[w].n = rep[w].n
  /\ rep'[w].tunnels = rep[w].tunnels \ {x} /\ rep'[w].events = rep[w].events
  /\ UNCHANGED <<events, reports>>

EventWritten(w, e) ==
  /\ rep[w].tunnels = {} /\ e \in rep[w].events
  /\ events' = [events EXCEPT ![e] = rep[w].n]
  /\ \E a \in AccountsFor(rep[w].n, e) : account' = [account EXCEPT ![e] = a]
  /\ rep' = [rep EXCEPT ![w] = rep'[w]]
  /\ rep'[w] \in Writing /\ rep'[w].n = rep[w].n
  /\ rep'[w].tunnels = rep[w].tunnels /\ rep'[w].events = rep[w].events \ {e}
  /\ UNCHANGED <<snapshots, reports>>

Ended(w) ==
  /\ \E r \in SnapshotPayload :
       /\ reports' = [reports EXCEPT ![rep[w].n] = r]
       /\ r.end \in {"accepted", "failed"} /\ r.before = reports[rep[w].n].before
       /\ r.inst = reports[rep[w].n].inst /\ r.claims = reports[rep[w].n].claims
       /\ r.tunnels = reports[rep[w].n].tunnels /\ r.events = reports[rep[w].n].events
       /\ r.end = "accepted" => rep[w].tunnels = {} /\ rep[w].events = {}
  /\ rep' = [rep EXCEPT ![w] = NotWriting]
  /\ UNCHANGED <<snapshots, events, account>>

LEMMA EndFacts ==
  ASSUME IngestTypes, WriterInv, NEW w \in Worker, Writes(w),
         NEW how \in {"accepted", "failed"}, End(w, how),
         how = "accepted" => rep[w].tunnels = {} /\ rep[w].events = {}
  PROVE  Ended(w)
<1>1. PICK n \in ReportId : n = rep[w].n
  BY DEF WriterInv
<1>2. PICK q \in SnapshotPayload : q = reports[n]
  BY <1>1 DEF WriterInv, Begun
<1>3. PICK r : r = [q EXCEPT !.end = how]
  OBVIOUS
<1>4. r \in SnapshotPayload /\ r.end = how
  BY <1>2, <1>3 DEF SnapshotPayload
<1>5. /\ r.before = q.before /\ r.inst = q.inst /\ r.claims = q.claims
      /\ r.tunnels = q.tunnels /\ r.events = q.events
  BY <1>2, <1>3 DEF SnapshotPayload
<1>6. reports' = [reports EXCEPT ![n] = r]
  BY <1>1, <1>2, <1>3 DEF End
<1>7. rep' = [rep EXCEPT ![w] = NotWriting] /\ UNCHANGED <<snapshots, events, account>>
  BY DEF End
<1>8. how = "accepted" => rep[w].tunnels = {} /\ rep[w].events = {}
  OBVIOUS
<1> QED BY <1>1, <1>2, <1>4, <1>5, <1>6, <1>7, <1>8 DEF Ended

LEMMA GoesFacts ==
  ASSUME IngestTypes, WriterInv, NEW w \in Worker, Goes(w)
  PROVE  \/ \E x \in Tunnel : TunnelWritten(w, x)
         \/ \E e \in EventId : EventWritten(w, e)
         \/ Ended(w)
<1>1. Writes(w) /\ rep[w] \in Writing
  BY ReportFacts DEF Goes
<1>2. PICK r : r = rep[w]
  OBVIOUS
<1>3. r \in Writing
  BY <1>1, <1>2
<1>4. CASE WriteTunnel(w)
  <2>1. PICK x \in rep[w].tunnels :
           /\ snapshots' = [snapshots EXCEPT ![x] = rep[w].n]
           /\ \E a \in AccountsFor(rep[w].n, x) : account' = [account EXCEPT ![x] = a]
           /\ rep' = [rep EXCEPT ![w].tunnels = @ \ {x}]
    BY <1>4 DEF WriteTunnel
  <2>2. x \in Tunnel
    BY <1>1, <2>1 DEF Writing
  <2>3. PICK s : s = [r EXCEPT !.tunnels = @ \ {x}]
    OBVIOUS
  <2>4. rep' = [rep EXCEPT ![w] = s] /\ rep'[w] = s
    BY <1>2, <2>1, <2>3 DEF IngestTypes
  <2>5. s \in Writing /\ s.n = r.n /\ s.tunnels = r.tunnels \ {x} /\ s.events = r.events
    BY <1>3, <2>3 DEF Writing
  <2>6. rep' = [rep EXCEPT ![w] = rep'[w]]
    BY <2>4
  <2>7. UNCHANGED <<events, reports>>
    BY <1>4 DEF WriteTunnel
  <2>8. /\ rep'[w] \in Writing /\ rep'[w].n = rep[w].n
        /\ rep'[w].tunnels = rep[w].tunnels \ {x} /\ rep'[w].events = rep[w].events
    BY <1>2, <2>4, <2>5
  <2> QED BY <2>1, <2>2, <2>6, <2>7, <2>8 DEF TunnelWritten
<1>5. CASE WriteEvent(w)
  <2>1. PICK e \in rep[w].events :
           /\ events' = [events EXCEPT ![e] = rep[w].n]
           /\ \E a \in AccountsFor(rep[w].n, e) : account' = [account EXCEPT ![e] = a]
           /\ rep' = [rep EXCEPT ![w].events = @ \ {e}]
    BY <1>5 DEF WriteEvent
  <2>2. e \in EventId
    BY <1>1, <2>1 DEF Writing
  <2>3. PICK s : s = [r EXCEPT !.events = @ \ {e}]
    OBVIOUS
  <2>4. rep' = [rep EXCEPT ![w] = s] /\ rep'[w] = s
    BY <1>2, <2>1, <2>3 DEF IngestTypes
  <2>5. s \in Writing /\ s.n = r.n /\ s.tunnels = r.tunnels /\ s.events = r.events \ {e}
    BY <1>3, <2>3 DEF Writing
  <2>6. rep' = [rep EXCEPT ![w] = rep'[w]]
    BY <2>4
  <2>7. UNCHANGED <<snapshots, reports>> /\ rep[w].tunnels = {}
    BY <1>5 DEF WriteEvent
  <2>8. /\ rep'[w] \in Writing /\ rep'[w].n = rep[w].n
        /\ rep'[w].tunnels = rep[w].tunnels /\ rep'[w].events = rep[w].events \ {e}
    BY <1>2, <2>4, <2>5
  <2> QED BY <2>1, <2>2, <2>6, <2>7, <2>8 DEF EventWritten
<1>6. CASE Accept(w)
  BY <1>1, <1>6, EndFacts DEF Accept
<1>7. CASE WriteFails(w)
  BY <1>1, <1>7, EndFacts DEF WriteFails
<1> QED BY <1>4, <1>5, <1>6, <1>7 DEF Goes

LEMMA IngestInvNext ==
  ASSUME IngestInv, [IngestNext]_allVars
  PROVE  IngestInv'
<1>i. InstInv /\ IngestTypes /\ WriterInv /\ WritersApart
  BY DEF IngestInv
<1>n. InstInv'
  BY <1>i, NextInv, IngestSteps
<1>f. /\ NotWriting \notin Writing /\ MaxReports \in Nat
      /\ \A n \in ReportId : n \in 0 .. MaxReports
      /\ \A w \in Worker : Writes(w) => rep[w].n \in ReportId /\ rep[w] \in Writing
  BY <1>i, ReportFacts DEF Writing, NotWriting, WriterInv
<1>1. CASE StandsStill
  <2>1. IngestTypes'
    BY <1>1, <1>i DEF StandsStill, ingestVars, IngestTypes
  <2>2. WriterInv' /\ WritersApart'
    BY <1>1, <1>i DEF StandsStill, ingestVars, WriterInv, WritersApart, Writes, Begun
  <2> QED BY <1>n, <2>1, <2>2 DEF IngestInv
<1>2. ASSUME NEW w \in Worker, NEW n \in ReportId, Begins(w, n)
      PROVE  IngestInv'
  <2>1. /\ reports' = [reports EXCEPT ![n] = reports'[n]] /\ reports'[n] \in SnapshotPayload
        /\ rep' = [rep EXCEPT ![w] = rep'[w]] /\ rep'[w] \in Writing /\ rep'[w].n = n
        /\ reports'[n].end = "open" /\ ~Begun(n) /\ UNCHANGED <<snapshots, events, account>>
        /\ \A x \in Worker : Writes(x) \/ x = w => req'[x].pc = "idle"
    BY <1>2 DEF Begins
  <2>2. IngestTypes'
    BY <2>1, <1>i DEF IngestTypes
  <2>3. \A x \in Worker : x # w => rep'[x] = rep[x]
    BY <2>1, <1>i DEF IngestTypes
  <2>4. \A m \in ReportId : m # n => reports'[m] = reports[m]
    BY <2>1, <1>i DEF IngestTypes
  <2>5. \A x \in Worker : x # w /\ Writes(x) => rep[x].n # n
    BY <2>1, <1>i DEF WriterInv
  <2>6. WriterInv'
    BY <2>1, <2>3, <2>4, <2>5, <1>i DEF WriterInv, Writes, Begun
  <2>7. WritersApart'
    BY <2>1, <2>3, <2>5, <1>i DEF WritersApart, Writes
  <2> QED BY <1>n, <2>2, <2>6, <2>7 DEF IngestInv
<1>3. ASSUME NEW w \in Worker, Goes(w), NEW x \in Tunnel, TunnelWritten(w, x)
      PROVE  IngestInv'
  <2>1. Writes(w) /\ UNCHANGED req
    BY <1>3 DEF Goes, vars
  <2>2. IngestTypes'
    <3>1. PICK a \in AccountsFor(rep[w].n, x) : account' = [account EXCEPT ![x] = a]
      BY <1>3 DEF TunnelWritten
    <3>2. a \in Account \cup {Foreign, NoAccount}
      BY <1>i, <2>1, <3>1, AccountsTyped DEF WriterInv, Item
    <3> QED BY <1>3, <1>i, <1>f, <2>1, <3>1, <3>2 DEF IngestTypes, TunnelWritten, Item
  <2>3. \A y \in Worker : (Writes(y)' <=> Writes(y)) /\ rep'[y].n = rep[y].n
    BY <1>3, <1>i, <1>f, <2>1 DEF IngestTypes, TunnelWritten, Writes
  <2>4. WriterInv'
    BY <1>3, <2>1, <2>3, <1>i DEF WriterInv, TunnelWritten, Begun
  <2>5. WritersApart'
    BY <2>3, <1>i DEF WritersApart
  <2> QED BY <1>n, <2>2, <2>4, <2>5 DEF IngestInv
<1>4. ASSUME NEW w \in Worker, Goes(w), NEW e \in EventId, EventWritten(w, e)
      PROVE  IngestInv'
  <2>1. Writes(w) /\ UNCHANGED req
    BY <1>4 DEF Goes, vars
  <2>2. IngestTypes'
    <3>1. PICK a \in AccountsFor(rep[w].n, e) : account' = [account EXCEPT ![e] = a]
      BY <1>4 DEF EventWritten
    <3>2. a \in Account \cup {Foreign, NoAccount}
      BY <1>i, <2>1, <3>1, AccountsTyped DEF WriterInv, Item
    <3> QED BY <1>4, <1>i, <1>f, <2>1, <3>1, <3>2 DEF IngestTypes, EventWritten, Item
  <2>3. \A y \in Worker : (Writes(y)' <=> Writes(y)) /\ rep'[y].n = rep[y].n
    BY <1>4, <1>i, <1>f, <2>1 DEF IngestTypes, EventWritten, Writes
  <2>4. WriterInv'
    BY <1>4, <2>1, <2>3, <1>i DEF WriterInv, EventWritten, Begun
  <2>5. WritersApart'
    BY <2>3, <1>i DEF WritersApart
  <2> QED BY <1>n, <2>2, <2>4, <2>5 DEF IngestInv
<1>5. ASSUME NEW w \in Worker, Goes(w), Ended(w)
      PROVE  IngestInv'
  <2>1. Writes(w) /\ UNCHANGED req
    BY <1>5 DEF Goes, vars
  <2>2. IngestTypes'
    BY <1>5, <1>i DEF IngestTypes, Ended
  <2>3. /\ \A y \in Worker : y # w => rep'[y] = rep[y]
        /\ ~Writes(w)'
    BY <1>5, <1>i DEF IngestTypes, Ended, Writes
  <2>4. \A m \in ReportId : m # rep[w].n => reports'[m] = reports[m]
    BY <1>5, <1>i DEF IngestTypes, Ended
  <2>5. \A y \in Worker : y # w /\ Writes(y) => rep[y].n # rep[w].n
    BY <2>1, <1>i DEF WritersApart
  <2>6. WriterInv'
    BY <2>1, <2>3, <2>4, <2>5, <1>i DEF WriterInv, Writes, Begun
  <2>7. WritersApart'
    BY <2>3, <1>i DEF WritersApart, Writes
  <2> QED BY <1>n, <2>2, <2>6, <2>7 DEF IngestInv
<1>6. ASSUME NEW w \in Worker, Goes(w)
      PROVE  IngestInv'
  BY <1>3, <1>4, <1>5, <1>6, <1>i, GoesFacts
<1> QED BY <1>1, <1>2, <1>6, <1>i, IngestCases

LEMMA AlwaysIngest == IngestSpec => []IngestInv
<1>1. IngestInit => IngestInv
  <2> SUFFICES ASSUME IngestInit
               PROVE  IngestInv
    OBVIOUS
  <2>1. InstInv
    BY InitInv DEF IngestInit
  <2>2. IngestTypes
    BY IngestAssumption DEF IngestInit, IngestTypes, NoClaims
  <2>3. \A w \in Worker : ~Writes(w)
    BY DEF IngestInit, Writes
  <2> QED BY <2>1, <2>2, <2>3 DEF IngestInv, WriterInv, WritersApart
<1>2. IngestInv /\ [IngestNext]_allVars => IngestInv'
  BY IngestInvNext
<1> QED BY <1>1, <1>2, PTL DEF IngestSpec

-----------------------------------------------------------------------------
(* What reports show.  The property speaks of reports that are over; the   *)
(* invariant says as much of each row that an open report has written: the *)
(* row is there, and holds no report that was over when it began, because  *)
(* only reports that are open write rows.                                  *)
TunnelShown(n, x) == snapshots[x] # 0 /\ snapshots[x] \notin reports[n].before
EventShown(n, e) == events[e] # 0 /\ events[e] \notin reports[n].before

BeginningInv == \A n \in ReportId : reports[n].before \subseteq Over

RowsInv ==
  /\ \A x \in Tunnel : snapshots[x] # 0 =>
       /\ Begun(snapshots[x]) /\ x \in reports[snapshots[x]].tunnels
       /\ account[x] \in AccountsFor(snapshots[x], x)
  /\ \A e \in EventId : events[e] # 0 =>
       /\ Begun(events[e]) /\ e \in reports[events[e]].events
       /\ account[e] \in AccountsFor(events[e], e)

LoopInv ==
  \A w \in Worker : Writes(w) =>
    /\ rep[w].tunnels \subseteq reports[rep[w].n].tunnels
    /\ rep[w].events \subseteq reports[rep[w].n].events
    /\ \A x \in reports[rep[w].n].tunnels : x \in rep[w].tunnels \/ TunnelShown(rep[w].n, x)
    /\ \A e \in reports[rep[w].n].events : e \in rep[w].events \/ EventShown(rep[w].n, e)

DoneInv ==
  \A n \in ReportId :
    /\ reports[n].end = "accepted" => \A e \in reports[n].events : EventShown(n, e)
    /\ reports[n].end = "accepted" \/ (\E e \in EventId : events[e] = n) =>
         \A x \in reports[n].tunnels : TunnelShown(n, x)

ShownInv == IngestInv /\ BeginningInv /\ RowsInv /\ LoopInv /\ DoneInv

(* A report, once begun, is the report it was, and stays over; *)
RecordsStay ==
  \A n \in ReportId :
    /\ Begun(n) =>
         /\ Begun(n)' /\ reports'[n].before = reports[n].before
         /\ reports'[n].inst = reports[n].inst /\ reports'[n].claims = reports[n].claims
         /\ reports'[n].tunnels = reports[n].tunnels /\ reports'[n].events = reports[n].events
         /\ n \in Over => reports'[n] = reports[n]
    /\ ~Begun(n) => \/ reports'[n] = reports[n]
                    \/ reports'[n].before = Over /\ reports'[n].end = "open"

(* a row changes only to name an open report with it in; *)
RowsGo ==
  /\ \A x \in Tunnel :
       \/ snapshots'[x] = snapshots[x] /\ account'[x] = account[x]
       \/ \E w \in Worker : /\ Writes(w) /\ snapshots'[x] = rep[w].n /\ x \in rep[w].tunnels
                            /\ account'[x] \in AccountsFor(rep[w].n, x)
  /\ \A e \in EventId :
       \/ events'[e] = events[e] /\ account'[e] = account[e]
       \/ \E w \in Worker : /\ Writes(w) /\ events'[e] = rep[w].n /\ e \in rep[w].events
                            /\ account'[e] \in AccountsFor(rep[w].n, e)
                            /\ rep[w].tunnels = {}

(* a loop starts with all of its report, and leaves out what it has written; *)
LoopsGo ==
  \A w \in Worker : Writes(w)' =>
    \/ /\ rep'[w].tunnels = reports'[rep'[w].n].tunnels
       /\ rep'[w].events = reports'[rep'[w].n].events
    \/ /\ Writes(w) /\ rep'[w].n = rep[w].n
       /\ rep'[w].tunnels \subseteq rep[w].tunnels /\ rep'[w].events \subseteq rep[w].events
       /\ \A x \in rep[w].tunnels : x \in rep'[w].tunnels \/ snapshots'[x] = rep[w].n
       /\ \A e \in rep[w].events : e \in rep'[w].events \/ events'[e] = rep[w].n

(* and a report is accepted when its loops are through. *)
EndsGo ==
  \A n \in ReportId : reports'[n].end = "accepted" => reports[n].end = "accepted"
    \/ \E w \in Worker : Writes(w) /\ rep[w].n = n /\ rep[w].tunnels = {} /\ rep[w].events = {}

LEMMA ReportSteps ==
  ASSUME IngestInv, [IngestNext]_allVars
  PROVE  RecordsStay /\ RowsGo /\ LoopsGo /\ EndsGo
<1>i. InstInv /\ IngestTypes /\ WriterInv /\ WritersApart
  BY DEF IngestInv
<1>f. /\ \A w \in Worker : Writes(w) => rep[w].n \in ReportId /\ rep[w] \in Writing
      /\ \A n \in ReportId : Begun(n) <=> reports[n] # NoReport
  BY <1>i, ReportFacts DEF WriterInv
<1>1. CASE UNCHANGED ingestVars
  <2>1. /\ \A n \in ReportId : reports'[n] = reports[n]
        /\ \A w \in Worker : rep'[w] = rep[w]
        /\ UNCHANGED <<snapshots, events, account>>
    BY <1>1 DEF ingestVars
  <2>2. RecordsStay /\ EndsGo
    BY <2>1 DEF RecordsStay, EndsGo, Begun
  <2>3. RowsGo /\ LoopsGo
    BY <2>1 DEF RowsGo, LoopsGo, Writes
  <2> QED BY <2>2, <2>3
<1>2. ASSUME NEW w \in Worker, NEW n \in ReportId, Begins(w, n)
      PROVE  RecordsStay /\ RowsGo /\ LoopsGo /\ EndsGo
  <2>1. /\ \A m \in ReportId : m # n => reports'[m] = reports[m]
        /\ \A x \in Worker : x # w => rep'[x] = rep[x]
        /\ UNCHANGED <<snapshots, events, account>>
    BY <1>2, <1>i DEF Begins, IngestTypes
  <2>2. /\ ~Begun(n) /\ reports'[n].end = "open" /\ reports'[n].before = Over
        /\ rep'[w].n = n
        /\ rep'[w].tunnels = reports'[n].tunnels /\ rep'[w].events = reports'[n].events
    BY <1>2 DEF Begins
  <2>3. RecordsStay /\ EndsGo
    BY <2>1, <2>2 DEF RecordsStay, EndsGo, Begun
  <2>4. RowsGo
    BY <2>1 DEF RowsGo
  <2>5. LoopsGo
    BY <2>1, <2>2 DEF LoopsGo, Writes
  <2> QED BY <2>3, <2>4, <2>5
<1>3. ASSUME NEW w \in Worker, Writes(w), NEW x \in Tunnel, TunnelWritten(w, x)
      PROVE  RecordsStay /\ RowsGo /\ LoopsGo /\ EndsGo
  <2>1. /\ \A y \in Tunnel : y # x => snapshots'[y] = snapshots[y]
        /\ snapshots'[x] = rep[w].n /\ x \in rep[w].tunnels
        /\ \A y \in Worker : y # w => rep'[y] = rep[y]
        /\ UNCHANGED <<events, reports>>
    BY <1>3, <1>i DEF TunnelWritten, IngestTypes
  <2>a. /\ account'[x] \in AccountsFor(rep[w].n, x)
        /\ \A y \in Item : y # x => account'[y] = account[y]
    BY <1>3, <1>i DEF TunnelWritten, IngestTypes, Item
  <2>2. /\ rep'[w].n = rep[w].n
        /\ rep'[w].tunnels = rep[w].tunnels \ {x} /\ rep'[w].events = rep[w].events
    BY <1>3 DEF TunnelWritten
  <2>3. RecordsStay /\ EndsGo
    BY <2>1 DEF RecordsStay, EndsGo, Begun
  <2>4. RowsGo
    BY <1>3, <2>1, <2>a, IngestAssumption DEF RowsGo, Item
  <2>5. LoopsGo
    BY <1>3, <2>1, <2>2 DEF LoopsGo, Writes
  <2> QED BY <2>3, <2>4, <2>5
<1>4. ASSUME NEW w \in Worker, Writes(w), NEW e \in EventId, EventWritten(w, e)
      PROVE  RecordsStay /\ RowsGo /\ LoopsGo /\ EndsGo
  <2>1. /\ \A y \in EventId : y # e => events'[y] = events[y]
        /\ events'[e] = rep[w].n /\ e \in rep[w].events /\ rep[w].tunnels = {}
        /\ \A y \in Worker : y # w => rep'[y] = rep[y]
        /\ UNCHANGED <<snapshots, reports>>
    BY <1>4, <1>i DEF EventWritten, IngestTypes
  <2>a. /\ account'[e] \in AccountsFor(rep[w].n, e)
        /\ \A y \in Item : y # e => account'[y] = account[y]
    BY <1>4, <1>i DEF EventWritten, IngestTypes, Item
  <2>2. /\ rep'[w].n = rep[w].n
        /\ rep'[w].tunnels = rep[w].tunnels /\ rep'[w].events = rep[w].events \ {e}
    BY <1>4 DEF EventWritten
  <2>3. RecordsStay /\ EndsGo
    BY <2>1 DEF RecordsStay, EndsGo, Begun
  <2>4. RowsGo
    BY <1>4, <2>1, <2>a, IngestAssumption DEF RowsGo, Item
  <2>5. LoopsGo
    BY <1>4, <2>1, <2>2 DEF LoopsGo, Writes
  <2> QED BY <2>3, <2>4, <2>5
<1>5. ASSUME NEW w \in Worker, Writes(w), Ended(w)
      PROVE  RecordsStay /\ RowsGo /\ LoopsGo /\ EndsGo
  <2>1. PICK n \in ReportId : n = rep[w].n
    BY <1>5, <1>f
  <2>2. PICK r \in SnapshotPayload :
       /\ reports' = [reports EXCEPT ![n] = r]
       /\ r.end \in {"accepted", "failed"} /\ r.before = reports[n].before
       /\ r.inst = reports[n].inst /\ r.claims = reports[n].claims
       /\ r.tunnels = reports[n].tunnels /\ r.events = reports[n].events
       /\ r.end = "accepted" => rep[w].tunnels = {} /\ rep[w].events = {}
    BY <1>5, <2>1 DEF Ended
  <2>3. reports[n].end = "open" /\ Begun(n)
    BY <1>5, <1>i, <2>1 DEF WriterInv
  <2>4. /\ \A m \in ReportId : m # n => reports'[m] = reports[m]
        /\ reports'[n] = r
        /\ \A y \in Worker : y # w => rep'[y] = rep[y]
        /\ ~Writes(w)' /\ UNCHANGED <<snapshots, events, account>>
    BY <1>5, <2>2, <1>i DEF Ended, IngestTypes, Writes
  <2>5. n \notin Over
    BY <2>3 DEF Over
  <2>6. RecordsStay
    BY <2>2, <2>3, <2>4, <2>5 DEF RecordsStay, Begun
  <2>7. EndsGo
    BY <1>5, <2>1, <2>2, <2>4 DEF EndsGo
  <2>8. RowsGo
    BY <2>4 DEF RowsGo
  <2>9. LoopsGo
    BY <2>4 DEF LoopsGo, Writes
  <2> QED BY <2>6, <2>7, <2>8, <2>9
<1> QED BY <1>1, <1>2, <1>3, <1>4, <1>5, <1>i, IngestCases, GoesFacts DEF Goes, StandsStill

(* The accounts of a report stay what they were. *)
LEMMA AccountsStay ==
  ASSUME RecordsStay, NEW n \in ReportId, Begun(n)
  PROVE  \A x : AccountsFor(n, x)' = AccountsFor(n, x)
<1>1. reports'[n].inst = reports[n].inst /\ reports'[n].claims = reports[n].claims
  BY DEF RecordsStay
<1> QED BY <1>1 DEF AccountsFor

LEMMA ShownNext ==
  ASSUME ShownInv, [IngestNext]_allVars
  PROVE  ShownInv'
<1>i. IngestInv /\ BeginningInv /\ RowsInv /\ LoopInv /\ DoneInv /\ IngestTypes /\ WriterInv
  BY DEF ShownInv, IngestInv
<1>s. RecordsStay /\ RowsGo /\ LoopsGo /\ EndsGo
  BY <1>i, ReportSteps
<1>n. IngestInv' /\ IngestTypes' /\ WriterInv'
  BY <1>i, IngestInvNext DEF IngestInv
<1>f. /\ \A w \in Worker : Writes(w) =>
           rep[w].n \in ReportId /\ Begun(rep[w].n) /\ rep[w].n # 0 /\ rep[w].n \notin Over
      /\ \A n \in ReportId : ~Begun(n) => reports[n] = NoReport
      /\ \A n \in ReportId : n \in Over => Begun(n)
      /\ \A n \in ReportId : Begun(n) => reports[n].tunnels \subseteq Tunnel
                                       /\ reports[n].events \subseteq EventId
      /\ \A x \in Tunnel : snapshots[x] # 0 => snapshots[x] \in ReportId
      /\ \A e \in EventId : events[e] # 0 => events[e] \in ReportId
  <2>1. \A w \in Worker : Writes(w) =>
           rep[w].n \in ReportId /\ Begun(rep[w].n) /\ rep[w].n # 0 /\ rep[w].n \notin Over
    BY <1>i, ReportFacts DEF WriterInv, Over
  <2>2. /\ \A n \in ReportId : ~Begun(n) => reports[n] = NoReport
        /\ \A n \in ReportId : n \in Over => Begun(n)
        /\ \A n \in ReportId : Begun(n) => reports[n].tunnels \subseteq Tunnel
                                         /\ reports[n].events \subseteq EventId
    BY <1>i, ReportFacts DEF Over
  <2>3. /\ \A x \in Tunnel : snapshots[x] # 0 => snapshots[x] \in ReportId
        /\ \A e \in EventId : events[e] # 0 => events[e] \in ReportId
    BY <1>i, IngestAssumption DEF IngestTypes, ReportId
  <2> QED BY <2>1, <2>2, <2>3
<1>o. \A n \in Over : n \in Over'
  BY <1>s, <1>f DEF RecordsStay, Over
<1>1. BeginningInv'
  <2> SUFFICES ASSUME NEW n \in ReportId
               PROVE  reports'[n].before \subseteq Over'
    BY DEF BeginningInv
  <2>1. reports[n].before \subseteq Over
    BY <1>i DEF BeginningInv
  <2>2. CASE Begun(n)
    BY <1>s, <1>o, <2>1, <2>2 DEF RecordsStay
  <2>3. CASE ~Begun(n)
    BY <1>s, <1>o, <2>1, <2>3 DEF RecordsStay
  <2> QED BY <2>2, <2>3
<1>2. RowsInv'
  <2>1. ASSUME NEW x \in Tunnel, snapshots'[x] # 0
        PROVE  /\ Begun(snapshots[x])' /\ x \in reports'[snapshots'[x]].tunnels
               /\ account'[x] \in AccountsFor(snapshots[x], x)'
    <3>1. PICK n : n = snapshots'[x]
      OBVIOUS
    <3>2. n \in ReportId /\ Begun(n) /\ x \in reports[n].tunnels /\ account'[x] \in AccountsFor(n, x)
      BY <1>s, <1>i, <1>f, <2>1, <3>1 DEF RowsGo, RowsInv, LoopInv
    <3>3. reports'[n] \in SnapshotPayload /\ x \in reports'[n].tunnels
      BY <1>s, <3>2 DEF RecordsStay, Begun
    <3>4. AccountsFor(n, x)' = AccountsFor(n, x)
      BY <1>s, <3>2, AccountsStay
    <3>5. account'[x] \in AccountsFor(snapshots[x], x)'
      BY <3>1, <3>2, <3>4 DEF AccountsFor
    <3> QED BY <3>1, <3>3, <3>5 DEF Begun
  <2>2. ASSUME NEW e \in EventId, events'[e] # 0
        PROVE  /\ Begun(events[e])' /\ e \in reports'[events'[e]].events
               /\ account'[e] \in AccountsFor(events[e], e)'
    <3>1. PICK n : n = events'[e]
      OBVIOUS
    <3>2. n \in ReportId /\ Begun(n) /\ e \in reports[n].events /\ account'[e] \in AccountsFor(n, e)
      BY <1>s, <1>i, <1>f, <2>2, <3>1 DEF RowsGo, RowsInv, LoopInv
    <3>3. reports'[n] \in SnapshotPayload /\ e \in reports'[n].events
      BY <1>s, <3>2 DEF RecordsStay, Begun
    <3>4. AccountsFor(n, e)' = AccountsFor(n, e)
      BY <1>s, <3>2, AccountsStay
    <3>5. account'[e] \in AccountsFor(events[e], e)'
      BY <3>1, <3>2, <3>4 DEF AccountsFor
    <3> QED BY <3>1, <3>3, <3>5 DEF Begun
  <2> QED BY <2>1, <2>2 DEF RowsInv
<1>3. ASSUME NEW n \in ReportId, Begun(n), NEW x \in Tunnel, TunnelShown(n, x)
      PROVE  TunnelShown(n, x)'
  <2>1. reports'[n].before = reports[n].before /\ reports[n].before \subseteq Over
    BY <1>3, <1>s, <1>i DEF RecordsStay, BeginningInv
  <2> QED BY <1>3, <1>s, <1>f, <2>1 DEF TunnelShown, RowsGo
<1>4. ASSUME NEW n \in ReportId, Begun(n), NEW e \in EventId, EventShown(n, e)
      PROVE  EventShown(n, e)'
  <2>1. reports'[n].before = reports[n].before /\ reports[n].before \subseteq Over
    BY <1>4, <1>s, <1>i DEF RecordsStay, BeginningInv
  <2> QED BY <1>4, <1>s, <1>f, <2>1 DEF EventShown, RowsGo
<1>5. LoopInv'
  <2> SUFFICES ASSUME NEW w \in Worker, Writes(w)'
               PROVE  /\ rep'[w].tunnels \subseteq reports'[rep'[w].n].tunnels
                      /\ rep'[w].events \subseteq reports'[rep'[w].n].events
                      /\ \A x \in reports'[rep'[w].n].tunnels :
                           x \in rep'[w].tunnels \/ TunnelShown(rep[w].n, x)'
                      /\ \A e \in reports'[rep'[w].n].events :
                           e \in rep'[w].events \/ EventShown(rep[w].n, e)'
    BY DEF LoopInv
  <2>1. CASE /\ rep'[w].tunnels = reports'[rep'[w].n].tunnels
             /\ rep'[w].events = reports'[rep'[w].n].events
    BY <2>1
  <2>2. CASE /\ Writes(w) /\ rep'[w].n = rep[w].n
             /\ rep'[w].tunnels \subseteq rep[w].tunnels /\ rep'[w].events \subseteq rep[w].events
             /\ \A x \in rep[w].tunnels : x \in rep'[w].tunnels \/ snapshots'[x] = rep[w].n
             /\ \A e \in rep[w].events : e \in rep'[w].events \/ events'[e] = rep[w].n
    <3>1. PICK n \in ReportId : n = rep[w].n
      BY <1>f, <2>2
    <3>2. Begun(n) /\ n # 0 /\ n \notin Over /\ rep'[w].n = n
      BY <1>f, <2>2, <3>1
    <3>3. /\ reports'[n].tunnels = reports[n].tunnels /\ reports'[n].events = reports[n].events
          /\ reports'[n].before = reports[n].before /\ n \notin reports'[n].before
      BY <1>s, <1>i, <3>2 DEF RecordsStay, BeginningInv
    <3>4. /\ rep[w].tunnels \subseteq reports[n].tunnels /\ rep[w].events \subseteq reports[n].events
          /\ \A x \in reports[n].tunnels : x \in rep[w].tunnels \/ TunnelShown(n, x)
          /\ \A e \in reports[n].events : e \in rep[w].events \/ EventShown(n, e)
      BY <1>i, <2>2, <3>1 DEF LoopInv
    <3>5. \A x \in reports[n].tunnels : x \in rep'[w].tunnels
                 \/ (snapshots'[x] # 0 /\ snapshots'[x] \notin reports'[n].before)
      <4> SUFFICES ASSUME NEW x \in reports[n].tunnels, x \notin rep'[w].tunnels
                   PROVE  snapshots'[x] # 0 /\ snapshots'[x] \notin reports'[n].before
        OBVIOUS
      <4>1. CASE x \in rep[w].tunnels
        BY <4>1, <2>2, <3>1, <3>2, <3>3
      <4>2. CASE TunnelShown(n, x)
        BY <4>2, <1>3, <1>f, <3>2 DEF TunnelShown
      <4> QED BY <4>1, <4>2, <3>4
    <3>6. \A e \in reports[n].events : e \in rep'[w].events
                 \/ (events'[e] # 0 /\ events'[e] \notin reports'[n].before)
      <4> SUFFICES ASSUME NEW e \in reports[n].events, e \notin rep'[w].events
                   PROVE  events'[e] # 0 /\ events'[e] \notin reports'[n].before
        OBVIOUS
      <4>1. CASE e \in rep[w].events
        BY <4>1, <2>2, <3>1, <3>2, <3>3
      <4>2. CASE EventShown(n, e)
        BY <4>2, <1>4, <1>f, <3>2 DEF EventShown
      <4> QED BY <4>1, <4>2, <3>4
    <3> QED BY <2>2, <3>2, <3>3, <3>4, <3>5, <3>6 DEF TunnelShown, EventShown
  <2> QED BY <2>1, <2>2, <1>s DEF LoopsGo
<1>6. DoneInv'
  <2> SUFFICES ASSUME NEW n \in ReportId
               PROVE  /\ reports'[n].end = "accepted" =>
                           \A e \in reports'[n].events : EventShown(n, e)'
                      /\ reports'[n].end = "accepted" \/ (\E e \in EventId : events'[e] = n) =>
                           \A x \in reports'[n].tunnels : TunnelShown(n, x)'
    BY DEF DoneInv
  <2>1. ASSUME reports'[n].end = "accepted" \/ (\E e \in EventId : events'[e] = n)
        PROVE  Begun(n) /\ \A x \in reports[n].tunnels : TunnelShown(n, x)
    <3>1. CASE reports[n].end = "accepted" \/ (\E e \in EventId : events[e] = n)
      <4>1. Begun(n)
        BY <3>1, <1>i, <1>f, ReportFacts DEF RowsInv, Over
      <4> QED BY <3>1, <4>1, <1>i DEF DoneInv
    <3>2. CASE \E w \in Worker : Writes(w) /\ rep[w].n = n /\ rep[w].tunnels = {}
      BY <3>2, <1>i, <1>f DEF LoopInv
    <3> QED BY <2>1, <3>1, <3>2, <1>s DEF EndsGo, RowsGo
  <2>2. ASSUME reports'[n].end = "accepted"
        PROVE  Begun(n) /\ \A e \in reports[n].events : EventShown(n, e)
    <3>1. CASE reports[n].end = "accepted"
      <4>1. Begun(n)
        BY <3>1, <1>f DEF Over
      <4> QED BY <3>1, <4>1, <1>i DEF DoneInv
    <3>2. CASE \E w \in Worker : Writes(w) /\ rep[w].n = n /\ rep[w].events = {}
      BY <3>2, <1>i, <1>f DEF LoopInv
    <3> QED BY <2>2, <3>1, <3>2, <1>s DEF EndsGo
  <2>3. Begun(n) => reports'[n].tunnels = reports[n].tunnels /\ reports'[n].events = reports[n].events
    BY <1>s DEF RecordsStay
  <2> QED BY <2>1, <2>2, <2>3, <1>3, <1>4, <1>f
<1> QED BY <1>n, <1>1, <1>2, <1>5, <1>6 DEF ShownInv

LEMMA AlwaysShown == IngestSpec => []ShownInv
<1>1. IngestInit => ShownInv
  <2> SUFFICES ASSUME IngestInit
               PROVE  ShownInv
    OBVIOUS
  <2>1. InstInv
    BY InitInv DEF IngestInit
  <2>2. IngestTypes
    BY IngestAssumption DEF IngestInit, IngestTypes, NoClaims
  <2>3. \A w \in Worker : ~Writes(w)
    BY DEF IngestInit, Writes
  <2>4. \A n \in ReportId : /\ reports[n].before = {}
                            /\ reports[n].end = "none" /\ reports[n].tunnels = {}
    BY DEF IngestInit, NoReport
  <2>5. RowsInv
    BY DEF IngestInit, RowsInv
  <2>6. IngestInv /\ LoopInv
    BY <2>1, <2>2, <2>3 DEF IngestInv, WriterInv, WritersApart, LoopInv
  <2>7. BeginningInv /\ DoneInv
    BY <2>4 DEF BeginningInv, DoneInv
  <2> QED BY <2>5, <2>6, <2>7 DEF ShownInv
<1>2. ShownInv /\ [IngestNext]_allVars => ShownInv'
  BY ShownNext
<1> QED BY <1>1, <1>2, PTL DEF IngestSpec

(* The reports, and the loops that write them, have the shapes of the model, *)
(* and what an installation wrote is its account's.                          *)
THEOREM IngestTypeCorrect == IngestSpec => []IngestTypeOK
<1>1. ShownInv => IngestTypeOK
  <2> SUFFICES ASSUME ShownInv
               PROVE  IngestTypeOK
    OBVIOUS
  <2>1. TypeOK /\ IngestTypes /\ RowsInv
    BY DEF ShownInv, IngestInv, InstInv
  <2>2. ASSUME NEW x \in Tunnel, snapshots[x] # 0, reports[snapshots[x]].inst # NoInst
        PROVE  account[x] = Owner[reports[snapshots[x]].inst]
    BY <2>1, <2>2 DEF RowsInv, AccountsFor
  <2>3. ASSUME NEW e \in EventId, events[e] # 0, reports[events[e]].inst # NoInst
        PROVE  account[e] = Owner[reports[events[e]].inst]
    BY <2>1, <2>3 DEF RowsInv, AccountsFor
  <2> QED BY <2>1, <2>2, <2>3 DEF IngestTypes, IngestTypeOK, Item
<1> QED BY <1>1, AlwaysShown, PTL

(* What a report that was accepted says is what is stored, until a report   *)
(* that was not over when it began says otherwise, and under the account    *)
(* they agree on, whose status and count show it; so it is for all the      *)
(* tunnels of a report of which an event is stored.                         *)
THEOREM AcceptedReportsAreShown == IngestSpec => []ReportsAreShown
<1>1. ShownInv => ReportsAreShown
  <2> SUFFICES ASSUME ShownInv, NEW n \in ReportId
               PROVE  /\ reports[n].end = "accepted" => \A e \in reports[n].events :
                           /\ events[e] # 0 /\ events[e] \notin reports[n].before
                           /\ \A a \in Account : OneAccount(n, e, a) => account[e] = a
                      /\ reports[n].end = "accepted" \/ (\E e \in EventId : events[e] = n) =>
                           \A x \in reports[n].tunnels :
                             /\ snapshots[x] # 0 /\ snapshots[x] \notin reports[n].before
                             /\ \A a \in Account : OneAccount(n, x, a) =>
                                  StatusOf(a, x) = snapshots[x] /\ x \in ActiveRoutes(a)
    BY DEF ReportsAreShown
  <2>1. IngestTypes /\ RowsInv /\ DoneInv
    BY DEF ShownInv, IngestInv
  <2>2. /\ reports[n].tunnels \subseteq Tunnel /\ reports[n].events \subseteq EventId
        /\ \A x \in Tunnel : snapshots[x] # 0 => snapshots[x] \in ReportId
        /\ \A e \in EventId : events[e] # 0 => events[e] \in ReportId
    <3>1. reports[n].tunnels \subseteq Tunnel /\ reports[n].events \subseteq EventId
      BY <2>1 DEF IngestTypes, SnapshotPayload, NoReport
    <3> QED BY <2>1, <3>1, IngestAssumption DEF IngestTypes, ReportId
  <2>3. ASSUME NEW e \in reports[n].events, reports[n].end = "accepted"
        PROVE  /\ events[e] # 0 /\ events[e] \notin reports[n].before
               /\ \A a \in Account : OneAccount(n, e, a) => account[e] = a
    <3>1. e \in EventId /\ events[e] # 0 /\ events[e] \notin reports[n].before
      BY <2>1, <2>2, <2>3 DEF DoneInv, EventShown
    <3>2. /\ events[e] \in ReportId /\ e \in reports[events[e]].events
          /\ account[e] \in AccountsFor(events[e], e)
      BY <2>1, <2>2, <3>1 DEF RowsInv
    <3>3. ASSUME NEW a \in Account, OneAccount(n, e, a)
          PROVE  AccountsFor(events[e], e) = {a}
      BY <3>1, <3>2, <3>3 DEF OneAccount
    <3> QED BY <3>1, <3>2, <3>3
  <2>4. ASSUME NEW x \in reports[n].tunnels,
               reports[n].end = "accepted" \/ (\E e \in EventId : events[e] = n)
        PROVE  /\ snapshots[x] # 0 /\ snapshots[x] \notin reports[n].before
               /\ \A a \in Account : OneAccount(n, x, a) =>
                    StatusOf(a, x) = snapshots[x] /\ x \in ActiveRoutes(a)
    <3>1. x \in Tunnel /\ snapshots[x] # 0 /\ snapshots[x] \notin reports[n].before
      BY <2>1, <2>2, <2>4 DEF DoneInv, TunnelShown
    <3>2. /\ snapshots[x] \in ReportId /\ x \in reports[snapshots[x]].tunnels
          /\ account[x] \in AccountsFor(snapshots[x], x)
      BY <2>1, <2>2, <3>1 DEF RowsInv
    <3>3. ASSUME NEW a \in Account, OneAccount(n, x, a)
          PROVE  StatusOf(a, x) = snapshots[x] /\ x \in ActiveRoutes(a)
      <4>1. AccountsFor(snapshots[x], x) = {a}
        BY <3>1, <3>2, <3>3 DEF OneAccount
      <4>2. RowOf(a, x)
        BY <3>1, <3>2, <4>1 DEF RowOf
      <4> QED BY <3>1, <4>2 DEF StatusOf, ActiveRoutes
    <3> QED BY <3>1, <3>3
  <2> QED BY <2>3, <2>4
<1> QED BY <1>1, AlwaysShown, PTL

-----------------------------------------------------------------------------
(* Only the look-up of an ingest token puts a worker to work on a report. *)
LEMMA NewAtWork ==
  ASSUME InstInv, NEW w \in Worker, [Next]_vars,
         req'[w].op = "ingest", req[w].op # "ingest" \/ req[w].inst # req'[w].inst
  PROVE  \E t \in TokenId : toks[t].inst = req'[w].inst /\ ~toks[t].revoked
<1>t. TypeOK /\ req \in [Worker -> Request]
  BY DEF InstInv, TypeOK
<1>1. CASE Tick \/ UNCHANGED vars
  BY <1>1 DEF Tick, vars
<1>2. ASSUME NEW x \in Worker, NEW pc, NEW op, NEW i, NEW t, Start(x, pc, op, i, t), op # "ingest"
      PROVE  FALSE
  BY <1>2, <1>t DEF Start, Request
<1>3. ASSUME NEW x \in Worker, NEW i \in Installation,
             CreateInstallation(x, i) \/ RotateIngestToken(x, i) \/ RevokeInstallation(x, i)
      PROVE  FALSE
  BY <1>2, <1>3 DEF CreateInstallation, RotateIngestToken, RevokeInstallation
<1>4. ASSUME NEW x \in Worker, NEW t \in TokenId, Enroll(x, t)
      PROVE  FALSE
  BY <1>2, <1>4 DEF Enroll
<1>5. ASSUME NEW x \in Worker, NEW t \in TokenId, ResolveIngestToken(x, t)
      PROVE  toks[t].inst = req'[w].inst /\ ~toks[t].revoked
  BY <1>5, <1>t DEF ResolveIngestToken, Active, Start, Request
<1>6. ASSUME NEW x \in Worker, (\E pc : GoOn(x, pc)) \/ Done(x)
      PROVE  FALSE
  <2>1. CASE Done(x)
    BY <1>t, <2>1 DEF Done, Idle
  <2>2. ASSUME NEW pc, GoOn(x, pc)
        PROVE  req'[w].op = req[w].op /\ req'[w].inst = req[w].inst
    BY <1>t, <2>2 DEF GoOn, Request
  <2> QED BY <1>6, <2>1, <2>2
<1>7. ASSUME NEW x \in Worker, Progress(x) \/ Fail(x)
      PROVE  (\E pc : GoOn(x, pc)) \/ Done(x)
  BY <1>7 DEF Progress, MintEnrollment, MarkTokenUsed, ConsumeEnrollment, MintIngest, Activate,
              RevokeIngestTokens, RevokeEnrollmentTokens, MarkRevoked, UpdateInstallationLastSeen, Fail
<1> QED BY <1>1, <1>3, <1>4, <1>5, <1>6, <1>7 DEF Next

(* After a revocation that nobody overlapped, the installation's relay gets *)
(* no further report in: what is still written was past its look-up before. *)
THEOREM RevocationStopsReports == IngestSpec => RevokedSendNoNewReports
<1>1. ASSUME IngestInv, [IngestNext]_allVars
      PROVE  \A i \in settled \cap settled' : AtWork(i)' \subseteq AtWork(i)
  <2> SUFFICES ASSUME NEW i \in settled, NEW w \in Worker, w \in AtWork(i)'
               PROVE  w \in AtWork(i)
    BY DEF AtWork
  <2>i. InstInv /\ IngestTypes /\ WriterInv /\ WritersApart /\ [Next]_vars
    BY IngestSteps, <1>1 DEF IngestInv
  <2>1. i \in Installation /\ \A t \in TokenId : toks[t].inst = i => toks[t].revoked
    BY <2>i DEF InstInv, TypeOK, SettledInv, SettledAt
  <2>2. CASE req'[w].op = "ingest" /\ req'[w].inst = i
    BY <2>i, <2>1, <2>2, NewAtWork DEF AtWork
  <2>3. CASE rep'[w] # NotWriting /\ reports'[rep'[w].n].inst = i
    <3>1. CASE Writes(w) /\ rep'[w].n = rep[w].n
      <4>1. rep[w].n \in ReportId /\ Begun(rep[w].n)
        BY <2>i, <3>1 DEF WriterInv
      <4>2. reports'[rep[w].n].inst = reports[rep[w].n].inst
        BY <1>1, <4>1, ReportSteps DEF RecordsStay
      <4> QED BY <2>3, <3>1, <4>2 DEF AtWork, Writes
    <3>2. ASSUME NEW x \in Worker, NEW n \in ReportId, Begins(x, n)
          PROVE  w \in AtWork(i)
      <4>1. CASE x = w
        BY <2>1, <2>3, <3>2, <4>1, InstallationsAssumption DEF Begins, AtWork
      <4>2. CASE x # w
        BY <2>i, <2>3, <3>1, <3>2, <4>2 DEF Begins, IngestTypes, Writes
      <4> QED BY <4>1, <4>2
    <3>3. CASE StandsStill
      BY <2>3, <3>1, <3>3 DEF StandsStill, ingestVars, Writes
    <3>4. ASSUME NEW x \in Worker, Goes(x)
          PROVE  Writes(w) /\ rep'[w].n = rep[w].n
      <4>1. Writes(x)
        BY <3>4 DEF Goes
      <4> QED BY <2>i, <2>3, <3>4, <4>1, GoesFacts
              DEF TunnelWritten, EventWritten, Ended, IngestTypes, Writes
    <3> QED BY <1>1, <2>i, <3>1, <3>2, <3>3, <3>4, IngestCases
  <2> QED BY <2>2, <2>3 DEF AtWork
<1> QED BY <1>1, AlwaysIngest, PTL DEF IngestSpec, RevokedSendNoNewReports
=============================================================================
